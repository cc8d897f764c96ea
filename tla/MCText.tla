------------------------------- MODULE MCText --------------------------------
(***************************************************************************)
(* Byte sequences from text, so that the configurations can give the       *)
(* parser messages that read like those of test/test_parse_request.c.     *)
(***************************************************************************)
EXTENDS Integers, Sequences

\* The printable characters from 32 on (96, which no message here needs,
\* shows as an underscore).
Printable == " !\"#$%&'()*+,-./0123456789:;<=>?@ABCDEFGHIJKLMNOPQRSTUVWXYZ[\\]^__abcdefghijklmnopqrstuvwxyz{|}~"

ByteOf(c) ==
  CASE c = "\t" -> 9
    [] c = "\n" -> 10
    [] c = "\r" -> 13
    [] OTHER -> 31 + CHOOSE k \in 1..Len(Printable) :
                       /\ SubSeq(Printable, k, k) = c
                       /\ \A j \in 1..(k - 1) : SubSeq(Printable, j, j) # c

\* The empty sequence makes TLC evaluate the function once, to a tuple.
Bytes(text) == <<>> \o [k \in 1..Len(text) |-> ByteOf(SubSeq(text, k, k))]

=============================================================================
