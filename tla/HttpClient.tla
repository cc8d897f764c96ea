----------------------------- MODULE HttpClient ------------------------------
(***************************************************************************)
(* A program that asks a message for the values of further headers, by     *)
(* http_header_get_xheader_value of uurl/http_header.c, between the calls  *)
(* of HttpParser.  The message holds offsets and, in parser.args.input,    *)
(* the pointer of the last call; a program that reads into a buffer which  *)
(* grows may have moved it since.                                          *)
(*                                                                         *)
(* A block of memory stands for its address: a block that was left may be  *)
(* the one the next move ends in.  Bytes are not followed into the blocks: *)
(* the current one begins with the first received bytes of stream, and     *)
(* what is read through a pointer to another is anything.                  *)
(***************************************************************************)
EXTENDS HttpChecks

CONSTANTS
  Blocks,   \* where the caller's buffer may be
  Names     \* the names the caller may ask for

ASSUME ClientAssumption ==
  /\ Blocks \subseteq Nat \ {0}
  /\ Blocks # {}
  /\ Names \subseteq Seq(Byte)

VARIABLES
  buffer,   \* the block the caller's buffer is in
  input,    \* msg->parser.args.input
  moved,    \* has the buffer moved since a call returned 0 or a length (history)
  asked,    \* the name of the question just answered, or NULL
  reply     \* what it was answered

client == <<buffer, input, moved, asked, reply>>

NOWHERE == 0        \* the null pointer, of a block
NULL    == <<-1>>   \* the null pointer, of a text: no sequence of bytes
JUNK    == <<-2>>   \* a text nothing is known of

NoAnswer == asked' = NULL /\ reply' = NULL

-----------------------------------------------------------------------------
Text(slice) == SubSeq(stream, slice.start + 1, slice.end)

Folded(text) == [k \in DOMAIN text |-> Lower(text[k])]

\* strncasecmp(xheader, name, len) == 0, over the length of the stored name:
\* the name asked for may go on.
\* (Slip: over the length of the name asked for.)
MatchesSlip(xheader, listed) ==
  /\ Len(xheader) <= Len(listed)
  /\ Folded(SubSeq(listed, 1, Len(xheader))) = Folded(xheader)

Matches(xheader, listed) ==
  /\ Len(listed) <= Len(xheader)
  /\ Folded(SubSeq(xheader, 1, Len(listed))) = Folded(listed)

\* The first entry of the list whose name matches
Found(xheader) ==
  LET matching == {k \in 1..Len(store.x) : Matches(xheader, Text(store.x[k].name))}
  IN  IF matching = {} THEN 0 ELSE Min(matching)

\* A copy of the slice's bytes, unless malloc returns NULL
http_slice_new(slice) == {NULL, Text(slice)}

\* An empty list is not looked into, whatever the pointer.  The caller passes a
\* message and a name, never NULL, which the function checks for first.
http_header_get_xheader_value(xheader) ==
  /\ pc # "loop"
  /\ asked' = xheader
  /\ \/ /\ store.x = <<>> \/ (input = buffer /\ Found(xheader) = 0)
        /\ reply' = NULL
     \/ /\ store.x # <<>>
        /\ input = buffer
        /\ Found(xheader) # 0
        /\ reply' \in http_slice_new(store.x[Found(xheader)].value)
     \/ /\ store.x # <<>>
        /\ input # buffer
        /\ reply' \in {NULL, JUNK}
  /\ UNCHANGED <<vars, buffer, input, moved>>

-----------------------------------------------------------------------------
\* parser.args.input after http_msg_parse's checks, which a call that fails
\* them does not reach.
\* (Slip: it is taken from the first call only.)
InputOfSlip == IF pc' = "loop" /\ input = NOWHERE THEN buffer ELSE input
InputOf == IF pc' = "loop" THEN buffer ELSE input

ClientCall(capacity) ==
  /\ Call(capacity)
  /\ input' = InputOf
  /\ NoAnswer
  /\ UNCHANGED <<buffer, moved>>

ClientParse ==
  /\ ParseByte \/ ReturnUsedUp
  /\ moved' = (moved /\ ~(pc' = "idle" /\ ret' >= 0))
  /\ NoAnswer
  /\ UNCHANGED <<buffer, input>>

ClientReceive(n) ==
  /\ Receive(n)
  /\ NoAnswer
  /\ UNCHANGED <<buffer, input, moved>>

\* The buffer is enlarged, and is another block from now on.
Move ==
  /\ pc # "loop"
  /\ buffer' \in Blocks \ {buffer}
  /\ moved' = TRUE
  /\ NoAnswer
  /\ UNCHANGED <<vars, input>>

ClientFree ==
  /\ Free
  /\ NoAnswer
  /\ UNCHANGED <<buffer, input, moved>>

ClientMsgInit(t, s) ==
  /\ MsgInit(t, s)
  /\ input' = NOWHERE
  /\ moved' = FALSE
  /\ NoAnswer
  /\ UNCHANGED buffer

ClientInit ==
  /\ Init
  /\ buffer \in Blocks
  /\ input = NOWHERE
  /\ moved = FALSE
  /\ asked = NULL
  /\ reply = NULL

ClientNext ==
  \/ ClientParse
  \/ \E capacity \in Capacities : ClientCall(capacity)
  \/ \E n \in Chunks : ClientReceive(n)
  \/ Move
  \/ \E xheader \in Names : http_header_get_xheader_value(xheader)
  \/ ClientFree
  \/ \E t \in Types, s \in Streams : ClientMsgInit(t, s)

ClientSpec == ClientInit /\ [][ClientNext]_<<vars, client>>

-----------------------------------------------------------------------------
\* A caller that asks with its buffer where it was when a call last returned 0
\* or a length has the pointer it needs, though calls that failed may lie
\* between, and finds every byte of the list's slices in what it received: the
\* answer is not read from a block that is gone, nor past the end of this one.
AnswersReadTheBuffer ==
  pc # "freed" /\ ~moved /\ store.x # <<>> =>
    /\ input = buffer
    /\ \A k \in 1..Len(store.x) : /\ store.x[k].name.end <= received
                                  /\ store.x[k].value.end <= received

\* What it is then answered is the value of the first line of that name among
\* those that are neither in a slot nor overwritten, trimmed, as the bytes
\* spell it; or NULL, if there is none or malloc fails.  For this, no line
\* before it may have a name that the asked name begins with: the answer would
\* be that line's.
AnswerIsAsSent ==
  LET listed == ListedOf(RowOf(HeaderLines))
      nameOf == [k \in listed |-> Folded(Text(NameOf(k)))]
      exact  == {k \in listed : nameOf[k] = Folded(asked)}
      begun  == {k \in listed : \E n \in 0..Len(asked) :
                                  nameOf[k] = Folded(SubSeq(asked, 1, n))}
  IN  asked # NULL /\ ~moved /\ pc # "freed" =>
        /\ begun = {} => reply = NULL
        /\ exact # {} /\ Min(exact) = Min(begun) =>
             reply \in {NULL, Text(ValueOf(Min(exact)))}

=============================================================================
