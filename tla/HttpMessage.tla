----------------------------- MODULE HttpMessage -----------------------------
(***************************************************************************)
(* What http_msg_parse promises, without calls, fragments or parser state: *)
(* of the bytes a peer sends, which prefix is the head of an HTTP message, *)
(* written as a grammar of lines.  The verdict on a stream is given once:  *)
(* the length of the head, or that no prefix of it is one.  The reference  *)
(* parser in cosmopolitan promises the same, with longer methods and more  *)
(* versions.                                                               *)
(*                                                                         *)
(* Intervals are half open and count from 0, as the code's slices do.      *)
(***************************************************************************)
EXTENDS HttpToken, Sequences, FiniteSetsExt

CONSTANTS
  Streams, Types,
  MethodMax,    \* how many characters a method may have
  Versions      \* the pairs of digits a version may be made of

VARIABLES stream, type, verdict

OPEN == 0
BAD  == -1

-----------------------------------------------------------------------------
(* The grammar the code accepts, of a byte sequence s *)

B(s, k) == s[k + 1]

\* Every byte of the interval [from, to) of s is in the class.
All(s, from, to, Class(_)) == \A k \in from..(to - 1) : Class(B(s, k))

IsUriByte(c)   == IsIso8859_1(c) /\ c # SP
IsFieldByte(c) == IsIso8859_1(c) \/ c = HTAB
IsZero(c)      == c = 48

\* The end of a line at offset p, the next one beginning at q: CR LF, or LF.
Eol(s, p, q) ==
  \/ p < Len(s) /\ B(s, p) = LF /\ q = p + 1
  \/ p + 1 < Len(s) /\ B(s, p) = CR /\ B(s, p + 1) = LF /\ q = p + 2

IsVersion(s, p) ==
  /\ p + 8 <= Len(s)
  /\ \E v \in Versions :
       SubSeq(s, p + 1, p + 8) = <<72, 84, 84, 80, 47, v[1], 46, v[2]>>

\* METHOD SP uri, and then the end of the line (HTTP/0.9) or SP version and
\* the end of the line; the code takes a SP for the end of the line there.
RequestLine(s, a, q) ==
  \E u \in (a + 1)..(a + MethodMax) : \E v \in (u + 2)..(Len(s) - 1) :
    /\ u < Len(s) /\ B(s, u) = SP
    /\ All(s, a, u, IsToken)
    /\ All(s, u + 1, v, IsUriByte)
    /\ \/ Eol(s, v, q)
       \/ /\ B(s, v) = SP
          /\ IsVersion(s, v + 1)
          /\ \/ Eol(s, v + 9, q)
             \/ v + 9 < Len(s) /\ B(s, v + 9) = SP /\ q = v + 10

\* version, one of SP CR LF, a status of three digits (more if they are
\* leading zeros), and the end of the line or SP and a reason.
StatusLine(s, a, q) ==
  \E w \in (a + 12)..(Len(s) - 1) :
    /\ IsVersion(s, a)
    /\ IsCrlfOrSpace(B(s, a + 8))
    /\ All(s, a + 9, w - 3, IsZero)
    /\ All(s, w - 3, w, IsDigit)
    /\ ~IsZero(B(s, w - 3))
    /\ \/ Eol(s, w, q)
       \/ /\ B(s, w) = SP
          /\ \E x \in (w + 1)..(Len(s) - 1) :
               All(s, w + 1, x, IsIso8859_1) /\ Eol(s, x, q)

\* name ":" value and the end of the line: a line of [p, q)
HeaderLine(s, p, q) ==
  \E c \in (p + 1)..(q - 2) : \E e \in {q - 1, q - 2} :
    /\ All(s, p, c, IsToken)
    /\ B(s, c) = COLON
    /\ e > c
    /\ All(s, c + 1, e, IsFieldByte)
    /\ Eol(s, e, q)

\* The blank lines that RFC 7230 3.5 lets a recipient skip
Lead(s, a) == a < Len(s) /\ All(s, 0, a, IsCrlf) /\ ~IsCrlf(B(s, a))

FirstLine(s, t, a, q) ==
  IF t = "REQUEST" THEN RequestLine(s, a, q) ELSE StatusLine(s, a, q)

\* The first n bytes of s are a message's head: blank lines, the first line,
\* which ends at q, header lines, and an empty line.
IsHead(s, t, n) ==
  \E a \in 0..(n - 1) : Lead(s, a) /\
    \E q \in (a + 1)..(n - 1) :
      LET starts == {p \in q..(n - 1) : p = q \/ B(s, p - 1) = LF}
          last   == Max(starts)
      IN  /\ FirstLine(s, t, a, q)
          /\ Eol(s, last, n)
          /\ \A p \in starts \ {last} :
               HeaderLine(s, p, Min({r \in starts : r > p}))

-----------------------------------------------------------------------------
Init ==
  /\ stream \in Streams
  /\ type \in Types
  /\ verdict = OPEN

\* A head is accepted, and its length is the verdict.
Accept ==
  /\ verdict = OPEN
  /\ verdict' \in 1..Len(stream)
  /\ IsHead(stream, type, verdict')
  /\ UNCHANGED <<stream, type>>

\* A stream is rejected only if no message can be made out at its start.
Reject ==
  /\ verdict = OPEN
  /\ verdict' = BAD
  /\ \A n \in 1..Len(stream) : ~IsHead(stream, type, n)
  /\ UNCHANGED <<stream, type>>

\* The caller turns to the next message, whatever came of this one.
NextMessage ==
  /\ stream' \in Streams
  /\ type' \in Types
  /\ verdict' = OPEN

Next == Accept \/ Reject \/ NextMessage

Spec == Init /\ [][Next]_<<stream, type, verdict>>

=============================================================================
