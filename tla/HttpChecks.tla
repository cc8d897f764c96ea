----------------------------- MODULE HttpChecks ------------------------------
(***************************************************************************)
(* What the parser's results mean in terms of the bytes it was given: its  *)
(* verdicts against the grammar of HttpMessage, and the fields of struct   *)
(* http_message against a second, one-pass reading of the same bytes.      *)
(***************************************************************************)
EXTENDS HttpParser

\* A verdict is final when the caller has it; a failure that it may try
\* again after leaves the question open.
Verdict ==
  CASE pc # "freed" /\ ret > 0 -> ret
    [] pc # "freed" /\ failure = "syntax" -> -1
    [] OTHER -> 0

Message == INSTANCE HttpMessage WITH
  verdict   <- Verdict,
  MethodMax <- HTTP_METHOD_MAX_STRLEN,
  Versions  <- {<<48, 57>>, <<49, 48>>, <<49, 49>>}     \* 0.9, 1.0 and 1.1

\* However the bytes are cut into arrivals and calls, and whichever calls
\* fail for lack of room or memory and are made again, the parser accepts
\* exactly the head of a message, with its length, and rejects a stream only
\* if no message begins it.
ImplementsMessage == Message!Spec

-----------------------------------------------------------------------------
(* A second reading of the bytes before offset i *)

FirstOf(from, Class(_)) ==
  Min({k \in from..i : k = i \/ Class(At(k))})

IsSpace(c) == c = SP
IsColon(c) == c = COLON

PastFirstLine == state \in {"CR", "LF1", "LF2", "NAME", "COLON", "VALUE"}

Lead == CHOOSE a \in 0..i : /\ \A k \in 0..(a - 1) : IsCrlf(At(k))
                            /\ ~IsCrlf(At(a))

\* The offset of the byte that ended the first line
FirstLineEnd ==
  IF type = REQUEST
    THEN LET uri == FirstOf(Lead, IsSpace) + 1
             v   == FirstOf(uri, IsCrlfOrSpace)
         IN  IF At(v) = SP THEN FirstOf(v + 1, IsCrlfOrSpace) ELSE v
    ELSE FirstOf(Lead + 9, IsCrlf)

HeadersStart ==
  IF At(FirstLineEnd) = CR THEN FirstLineEnd + 2 ELSE FirstLineEnd + 1

\* Where the header lines whose end has been read begin
HeaderStarts ==
  LET first == HeadersStart
  IN  {k \in first..(i - 1) :
         /\ k = first \/ At(k - 1) = LF
         /\ ~IsCrlf(At(k))
         /\ FirstOf(k, IsCrlf) < i}

ColonOf(k) == FirstOf(k, IsColon)

NameOf(k) == [start |-> k, end |-> ColonOf(k)]

ValueOf(k) ==
  LET c == ColonOf(k)
      e == FirstOf(k, IsCrlf)
      text == {b \in (c + 1)..(e - 1) : ~IsHtabOrSpace(At(b))}
  IN  IF text = {} THEN [start |-> e, end |-> e]
                   ELSE [start |-> Min(text), end |-> Max(text) + 1]

\* The fields of the first line are the ones its bytes spell: the method in
\* capitals, the URI between the spaces, the status as a decimal number.
FirstLineIsAsSent ==
  PastFirstLine =>
    IF type = REQUEST
      THEN LET u == FirstOf(Lead, IsSpace)
               v == FirstOf(u + 1, IsCrlfOrSpace)
           IN  /\ method = [k \in 1..(u - Lead) |-> Upper(At(Lead + k - 1))]
               /\ line.uri = [start |-> u + 1, end |-> v]
               /\ line.version = IF At(v) = SP
                                   THEN parse_version(v + 1, v + 9)
                                   ELSE V0_9
      ELSE LET w == FirstOf(Lead + 9, IsCrlfOrSpace)
               D(k) == At(w - k) - 48
           IN  /\ line.version = parse_version(Lead, Lead + 8)
               /\ line.status = 100 * D(3) + 10 * D(2) + D(1)
               /\ line.message =
                    IF At(w) = SP
                      THEN [start |-> w + 1, end |-> FirstOf(w, IsCrlf)]
                      ELSE NoSlice

\* The header lines read so far, the row that each is taken for, and the lines
\* that belong in the list.
HeaderLines == IF PastFirstLine THEN HeaderStarts ELSE {}

RowOf(starts) == [k \in starts |-> http_header_lookup(stream, k)]

ListedOf(rowOf) ==
  {k \in DOMAIN rowOf :
     \/ rowOf[k] = UNKNOWN
     \/ rowOf[k] \in Repeatable /\ \E j \in DOMAIN rowOf : j < k /\ rowOf[j] = rowOf[k]}

\* What the lines that begin there come to: a known header's slot holds the value
\* of the last line of that name, or of the first if the header is repeatable; the
\* other lines are in the list, in the order of arrival.
StoreHolds(starts) ==
  LET rowOf  == RowOf(starts)
      listed == ListedOf(rowOf)
      linesOf(h) == {k \in starts : rowOf[k] = h}
  IN  /\ \A h \in KnownHeaders :
           store.std[h] =
             IF linesOf(h) = {} THEN NoSlice
             ELSE ValueOf(IF h \in Repeatable THEN Min(linesOf(h))
                                              ELSE Max(linesOf(h)))
      /\ Len(store.x) = Cardinality(listed)
      /\ \A k \in listed :
           store.x[Cardinality({j \in listed : j <= k})] =
             [name |-> NameOf(k), value |-> ValueOf(k)]

\* The slots and the list hold every header line that has been read, once, with
\* the name and the value its bytes spell, and nothing that was not sent.
HeadersAreAsSent == pc # "freed" => StoreHolds(HeaderLines)

\* A caller that keeps calling after it was given a head, say because it does
\* not keep track, hands the parser the message's body and the next message.
\* If the head ended in an empty line of CR LF, nothing of that gets into the
\* fields, however many calls it takes.  (A head that ended in a single LF is
\* not closed: the parser is still where a header may begin, and takes the
\* body's lines for headers.)
ClosedHeadIsFinal ==
  [][/\ pc # "freed"
     /\ pc' # "freed"
     /\ \E n \in {k \in 2..i : At(k - 2) = CR} : Message!IsHead(stream, type, n)
     => UNCHANGED <<method, line, store>>]_vars

-----------------------------------------------------------------------------
(* Progress, under FairSpec *)

HasHead == \E n \in 1..Len(stream) : Message!IsHead(stream, type, n)

\* However a message is cut up, whatever buffers the caller states before it
\* states one with room to spare, and whether or not an allocation fails at
\* first, the message is in the end accepted, and a stream that is cut short
\* leaves the caller waiting for more, having looked at all there is.
EventuallyAccepted == (HasHead => <>(ret > 0))

EventuallyAnswered ==
  <>(ret > 0 \/ failure = "syntax" \/ [](i = Len(stream)))

-----------------------------------------------------------------------------
(* What comments of the code say that the code does not do *)

\* "If r->headers[kHttpFoo].a is zero then the header is totally absent"
\* (uurl/http_parse.c:199-200): no header line that has been stored bears the
\* name of a slot that is zero.
ZeroSlotMeansAbsent ==
  LET Spells(k, text) == /\ ColonOf(k) - k = Len(text)
                         /\ PrefixAt(text, stream, k)
  IN  pc # "freed" /\ PastFirstLine =>
        \A k \in HeaderStarts : \A h \in KnownHeaders :
          Spells(k, Table[h]) => store.std[h].start # 0

\* "a recipient MAY recognize a single LF as a line terminator and ignore any
\* preceding CR" (uurl/http_parse.c:340-342), "We only enter this state after
\* we received a CR and a LF" (uurl/parsehttpmessage.annotated.c:333): no
\* header line is begun and no head is ended but after a line feed.
LinesEndInLineFeed == state = "LF1" /\ ret = 0 => At(i - 1) = LF

=============================================================================
