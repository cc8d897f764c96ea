-------------------------- MODULE HttpReadingProofs --------------------------
(***************************************************************************)
(* Proofs that what the parser records is what the bytes spell, however    *)
(* they arrive: the fields of the first line, and the header store.        *)
(*                                                                         *)
(* FirstLineIsAsSent reads the bytes in one pass, from the first that is   *)
(* neither CR nor LF to the end of the line.  The invariant says at each   *)
(* state of the parser how far that reading has got: where the parts that  *)
(* have been read begin and end, and what has been recorded of them.       *)
(*                                                                         *)
(* HeadersAreAsSent reads the lines anew at each state.  The invariant has *)
(* them as data instead: of each line whose end has been read, its row,    *)
(* its name and its value, which no later byte changes.  A line that ends  *)
(* comes behind all of them, so that it is enough to know what one more    *)
(* line does to the store.                                                 *)
(***************************************************************************)
EXTENDS HttpHeaderTable, HttpParserProofs

-----------------------------------------------------------------------------
(* The first line, as far as it has been read *)


\* The message begins at offset a: what is before it is CR and LF.
LeadIs(a) ==
  /\ a \in 0..(i - 1)
  /\ ~IsCrlf(At(a))
  /\ \A k \in 0..(a - 1) : IsCrlf(At(k))

\* The first byte of the set from an offset on, among those read, is at to.
Ends(from, to, bytes) ==
  /\ to \in from..(i - 1)
  /\ At(to) \in bytes
  /\ \A k \in from..(to - 1) : At(k) \notin bytes

\* None has been read from an offset on.
Lacks(from, bytes) ==
  /\ from <= i
  /\ \A k \in from..(i - 1) : At(k) \notin bytes

CrlfBytes  == {CR, LF}
BlankBytes == {CR, LF, SP}

MethodIs(a, u) ==
  /\ Len(method) = u - a
  /\ \A k \in 1..Len(method) : method[k] = Upper(At(a + k - 1))

UriIs(u, v) == line.uri = [start |-> u + 1, end |-> v]

\* The decimal digit before an offset, k places to the left
Digit(w, k) == At(w - k) - 48

\* The status is the number that the digits from d to w spell.
StatusIs(d, w) ==
  line.status = CASE w = d     -> 0
                  [] w = d + 1 -> Digit(w, 1)
                  [] w = d + 2 -> 10 * Digit(w, 2) + Digit(w, 1)
                  [] OTHER     -> 100 * Digit(w, 3) + 10 * Digit(w, 2) + Digit(w, 1)

ThreeDigits(w) ==
  line.status = 100 * Digit(w, 3) + 10 * Digit(w, 2) + Digit(w, 1)

\* What has been read of a request's line, by state
StartOfLine ==
  /\ line = NoLine
  /\ method = <<>>
  /\ \A k \in 0..(i - 1) : IsCrlf(At(k))

InMethod ==
  \E a \in 0..i : LeadIs(a) /\ Lacks(a, {SP}) /\ MethodIs(a, i)

\* The line's first byte cannot begin a method, but the state is METHOD already.
NoMethod == StartOfLine /\ ~IsCrlf(Ch)

InUri ==
  \E a, u \in 0..i :
    /\ LeadIs(a) /\ Ends(a, u, {SP}) /\ MethodIs(a, u)
    /\ cursor = u + 1
    /\ Lacks(u + 1, BlankBytes)

InVersion ==
  \E a, u, v \in 0..i :
    /\ LeadIs(a) /\ Ends(a, u, {SP}) /\ MethodIs(a, u)
    /\ Ends(u + 1, v, BlankBytes) /\ UriIs(u, v)
    /\ At(v) = SP
    /\ cursor = v + 1

RequestLine ==
  \E a, u, v \in 0..i :
    /\ LeadIs(a) /\ Ends(a, u, {SP}) /\ MethodIs(a, u)
    /\ Ends(u + 1, v, BlankBytes) /\ UriIs(u, v)
    /\ line.version = IF At(v) = SP THEN parse_version(v + 1, v + 9) ELSE V0_9

\* and of a response's
InStatusVersion ==
  \E a \in 0..i : LeadIs(a) /\ cursor = a /\ line = NoLine

InStatus(kept) ==
  \E a \in 0..i :
    /\ LeadIs(a)
    /\ line.version = parse_version(a, a + 8)
    /\ Lacks(a + 9, BlankBytes)
    /\ \A k \in (a + 9)..(i - 1) : IsDigit(At(k))
    /\ kept => StatusIs(a + 9, i) /\ line.status <= HTTP_STATUS_MAX

InMessage(kept) ==
  \E a, w \in 0..i :
    /\ LeadIs(a)
    /\ line.version = parse_version(a, a + 8)
    /\ Ends(a + 9, w, BlankBytes) /\ At(w) = SP
    /\ kept => ThreeDigits(w)
    /\ cursor = w + 1
    /\ Lacks(w + 1, CrlfBytes)

StatusLine(kept) ==
  \E a, w \in 0..i :
    /\ LeadIs(a)
    /\ line.version = parse_version(a, a + 8)
    /\ Ends(a + 9, w, BlankBytes)
    /\ kept => ThreeDigits(w)
    /\ IF At(w) = SP
         THEN \E e \in 0..i : Ends(w + 1, e, CrlfBytes)
                              /\ line.message = [start |-> w + 1, end |-> e]
         ELSE line.message = NoSlice

\* "kept" says whether the status, too, is what has been read.
FirstLineRead(kept) ==
  /\ state = "START"  => StartOfLine
  /\ state = "METHOD" => type = REQUEST /\ (InMethod \/ NoMethod)
  /\ state = "URI"    => type = REQUEST /\ InUri
  /\ state = "VERSION" /\ type = REQUEST => InVersion
  /\ state = "VERSION" /\ type # REQUEST => InStatusVersion
  /\ state = "STATUS"  => type # REQUEST /\ InStatus(kept)
  /\ state = "MESSAGE" => type # REQUEST /\ InMessage(kept)
  /\ PastFirstLine /\ type = REQUEST => RequestLine
  /\ PastFirstLine /\ type # REQUEST => StatusLine(kept)

\* The caller does not call again after a malformed byte of a response: a
\* status that is too large is not multiplied by ten once more.
StatusIsKept == "syntax" \notin Retryable \/ RESPONSE \notin Types

\* Whatever the caller does, the line is read as far as the state says; and
\* the status is what has been read of it, but for the last digit of one that
\* is too large, if nobody reads on behind that.
FirstLineInv ==
  /\ type \notin {REQUEST, RESPONSE} => pc # "loop" /\ failure # "syntax"
  /\ FirstLineRead(FALSE)
  /\ StatusIsKept =>
       /\ type = RESPONSE /\ (pc = "loop" \/ ret = 0) => failure # "syntax"
       /\ failure # "syntax" \/ PastFirstLine => FirstLineRead(TRUE)

-----------------------------------------------------------------------------
(* One more byte, or none *)

\* What has been found among the bytes read stays found.
LEMMA FoundStays ==
  ASSUME IInv, UNCHANGED stream, i' \in {i, i + 1}
  PROVE  /\ \A a \in Nat : LeadIs(a) => LeadIs(a)'
         /\ \A from, to \in Nat : \A bytes :
              Ends(from, to, bytes) => Ends(from, to, bytes)'
<1>1. i \in Nat /\ (i' = i \/ i' = i + 1)
  BY FieldTypes
<1>2. \A k : At(k)' = At(k)
  BY DEF At
<1>3. \A from \in Nat : \A to \in from..(i - 1) : to \in from..(i' - 1)
  <2>1. CASE i' = i
    BY <1>1, <2>1
  <2>2. CASE i' = i + 1
    BY <1>1, <2>2
  <2> QED
    BY <1>1, <2>1, <2>2
<1>4. ASSUME NEW a \in Nat, LeadIs(a) PROVE LeadIs(a)'
  BY <1>2, <1>3, <1>4 DEF LeadIs
<1>5. ASSUME NEW from \in Nat, NEW to \in Nat, NEW bytes, Ends(from, to, bytes)
      PROVE  Ends(from, to, bytes)'
  BY <1>2, <1>3, <1>5 DEF Ends
<1> QED
  BY <1>4, <1>5

\* The byte just read is the first of its set, or the set is still lacking.
LEMMA ReadOn ==
  ASSUME IInv, UNCHANGED stream, i' = i + 1,
         NEW from \in Nat, NEW bytes, Lacks(from, bytes)
  PROVE  /\ Ch \notin bytes => Lacks(from, bytes)'
         /\ \A to \in Nat : to = i /\ Ch \in bytes => Ends(from, to, bytes)'
<1>1. i \in Nat
  BY FieldTypes
<1>2. Ch \notin bytes => Lacks(from, bytes)'
  BY <1>1 DEF Lacks, At, Ch
<1>3. ASSUME NEW to \in Nat, to = i, Ch \in bytes PROVE Ends(from, to, bytes)'
  BY <1>1, <1>3 DEF Lacks, Ends, At, Ch
<1> QED
  BY <1>2, <1>3

\* Nothing has been read from the next offset on.
LEMMA ReadNothing ==
  ASSUME IInv, i' = i + 1, NEW from \in Nat, from = i + 1, NEW bytes
  PROVE  Lacks(from, bytes)'
  BY FieldTypes DEF Lacks

\* A method that is not touched is still the one that was read.
LEMMA MethodStays ==
  ASSUME UNCHANGED <<stream, method>>, NEW a, NEW u, MethodIs(a, u)
  PROVE  MethodIs(a, u)'
  BY DEF MethodIs, At

\* One more character of the method
LEMMA MethodGrows ==
  ASSUME IInv, UNCHANGED stream, i' = i + 1, method' = Append(method, Upper(Ch)),
         NEW a \in Nat, a <= i, MethodIs(a, i)
  PROVE  MethodIs(a, i)'
<1>1. /\ method \in Seq(Byte) /\ Len(method) \in Nat
      /\ i \in Nat /\ Len(method) = i - a
  BY FieldTypes DEF MethodIs, IInv, TypeOK
<1>2. /\ Len(method') = Len(method) + 1
      /\ \A k \in 1..Len(method) : method'[k] = method[k]
      /\ method'[Len(method) + 1] = Upper(Ch)
  BY <1>1
<1>3. ASSUME NEW k \in 1..Len(method') PROVE method'[k] = Upper(At(a + k - 1)')
  <2>1. At(a + k - 1)' = At(a + k - 1)
    BY DEF At
  <2>2. CASE k \in 1..Len(method)
    BY <1>2, <2>1, <2>2 DEF MethodIs
  <2>3. CASE k = Len(method) + 1
    <3>1. a + k - 1 = i
      BY <1>1, <2>3
    <3> QED
      BY <1>2, <2>1, <2>3, <3>1 DEF Ch
  <2> QED
    BY <1>1, <1>2, <2>2, <2>3
<1>4. Len(method') = i' - a
  BY <1>1, <1>2
<1> QED
  BY <1>3, <1>4 DEF MethodIs

\* The first byte that is neither CR nor LF
LEMMA LeadFound ==
  ASSUME IInv, UNCHANGED stream, i' = i + 1, ~IsCrlf(Ch),
         \A k \in 0..(i - 1) : IsCrlf(At(k)), NEW a \in Nat, a = i
  PROVE  LeadIs(a)'
<1>1. i \in Nat
  BY FieldTypes
<1>2. \A k : At(k)' = At(k)
  BY DEF At
<1>3. a \in 0..(i' - 1) /\ At(a) = Ch
  BY <1>1 DEF Ch
<1> QED
  BY <1>2, <1>3 DEF LeadIs

\* A step that reads nothing and records nothing
LEMMA NothingRead ==
  ASSUME NEW kept \in BOOLEAN, FirstLineRead(kept),
         UNCHANGED <<stream, type, state, i, cursor, method, line>>
  PROVE  FirstLineRead(kept)'
<1>1. \A k : At(k)' = At(k)
  BY DEF At
<1>2. \A a : LeadIs(a)' <=> LeadIs(a)
  BY <1>1 DEF LeadIs
<1>3. \A from, to, bytes : /\ Ends(from, to, bytes)' <=> Ends(from, to, bytes)
                           /\ Lacks(from, bytes)' <=> Lacks(from, bytes)
  BY <1>1 DEF Ends, Lacks
<1>4. \A a, u : MethodIs(a, u)' <=> MethodIs(a, u)
  BY <1>1 DEF MethodIs
<1>5. \A u, v : UriIs(u, v)' <=> UriIs(u, v)
  BY DEF UriIs
<1>6. \A d, w : (StatusIs(d, w)' <=> StatusIs(d, w)) /\ (ThreeDigits(w)' <=> ThreeDigits(w))
  BY <1>1 DEF StatusIs, ThreeDigits, Digit
<1>7. \A from, to : parse_version(from, to)' = parse_version(from, to)
  BY DEF parse_version
<1>8. (StartOfLine => StartOfLine') /\ (InStatusVersion => InStatusVersion')
  BY <1>1, <1>2 DEF StartOfLine, InStatusVersion
<1>9. (InMethod => InMethod') /\ (NoMethod => NoMethod') /\ (InUri => InUri')
  BY <1>1, <1>2, <1>3, <1>4, <1>8 DEF InMethod, NoMethod, InUri, Ch
<1>10. (InVersion => InVersion') /\ (RequestLine => RequestLine')
  BY <1>1, <1>2, <1>3, <1>4, <1>5, <1>7 DEF InVersion, RequestLine
<1>11. InStatus(kept) => InStatus(kept)'
  BY <1>1, <1>2, <1>3, <1>6, <1>7 DEF InStatus
<1>12. (InMessage(kept) => InMessage(kept)') /\ (StatusLine(kept) => StatusLine(kept)')
  BY <1>1, <1>2, <1>3, <1>6, <1>7 DEF InMessage, StatusLine
<1> QED
  BY <1>8, <1>9, <1>10, <1>11, <1>12 DEF FirstLineRead, PastFirstLine

-----------------------------------------------------------------------------
(* A request's line *)

\* STATE_START, of either type
LEMMA StartRead ==
  ASSUME NEW kept \in BOOLEAN, IInv, StartOfLine, ParseStart, failure' # "syntax"
  PROVE  FirstLineRead(kept)'
<1>1. /\ state = "START" /\ i \in Nat /\ i' = i + 1
      /\ UNCHANGED <<stream, type, line>>
  BY FieldTypes DEF ParseStart, Reading, InsertMethodChar, Continue, Fail, Outside, peer
<1>2. \A k : At(k)' = At(k)
  BY <1>1 DEF At
<1>3. CASE IsCrlf(Ch)
  <2>1. state' = "START" /\ UNCHANGED method
    BY <1>3 DEF ParseStart, Continue
  <2>2. \A k \in 0..(i' - 1) : k \in 0..(i - 1) \/ k = i
    BY <1>1
  <2>3. StartOfLine'
    BY <1>1, <1>2, <1>3, <2>1, <2>2 DEF StartOfLine, Ch
  <2> QED
    BY <2>1, <2>3 DEF FirstLineRead, PastFirstLine
<1>4. CASE ~IsCrlf(Ch)
  <2>1. PICK a \in Nat : a = i
    BY <1>1
  <2>2. LeadIs(a)' /\ a \in 0..i'
    BY <1>1, <1>4, <2>1, LeadFound DEF StartOfLine
  <2>3. CASE type = REQUEST
    <3>1. /\ state' = "METHOD" /\ IsToken(Ch)
          /\ method' = Append(method, Upper(Ch))
      BY <1>3, <1>4, <2>3 DEF ParseStart, InsertMethodChar, Continue, Fail
    <3>2. MethodIs(a, i)
      BY <1>1, <2>1 DEF MethodIs, StartOfLine
    <3>3. MethodIs(a, i)'
      BY <1>1, <2>1, <3>1, <3>2, MethodGrows
    <3>4. Lacks(a, {SP})
      BY <1>1, <2>1 DEF Lacks
    <3>5. Ch \notin {SP}
      BY <3>1 DEF IsToken, Tokens, SP
    <3>6. Lacks(a, {SP})'
      BY <1>1, <3>4, <3>5, ReadOn
    <3>7. InMethod'
      BY <2>2, <3>3, <3>6 DEF InMethod
    <3> QED
      BY <1>1, <2>3, <3>1, <3>7 DEF FirstLineRead, PastFirstLine
  <2>4. CASE type # REQUEST
    <3>1. state' = "VERSION" /\ cursor' = i
      BY <1>4, <2>4 DEF ParseStart, Continue
    <3>2. InStatusVersion'
      BY <1>1, <2>1, <2>2, <3>1 DEF InStatusVersion, StartOfLine
    <3> QED
      BY <1>1, <2>4, <3>1, <3>2 DEF FirstLineRead, PastFirstLine
  <2> QED
    BY <2>3, <2>4
<1> QED
  BY <1>3, <1>4

\* STATE_METHOD
LEMMA MethodRead ==
  ASSUME NEW kept \in BOOLEAN, IInv, type = REQUEST, InMethod, ParseMethod,
         failure' # "syntax"
  PROVE  FirstLineRead(kept)'
<1>1. /\ i \in Nat /\ i' = i + 1
      /\ UNCHANGED <<stream, type, line>>
  BY FieldTypes DEF ParseMethod, InsertMethodChar, Continue, Fail, Outside, peer
<1>2. PICK a \in 0..i : LeadIs(a) /\ Lacks(a, {SP}) /\ MethodIs(a, i)
  BY DEF InMethod
<1>3. a \in Nat /\ a <= i /\ LeadIs(a)' /\ a \in 0..i'
  BY <1>1, <1>2, FoundStays
<1>4. CASE Ch = SP
  <2>1. state' = "URI" /\ cursor' = i + 1 /\ UNCHANGED method
    BY <1>4 DEF ParseMethod, NextOffset, Continue
  <2>2. PICK u \in Nat : u = i
    BY <1>1
  <2>3. Ends(a, u, {SP})' /\ u \in 0..i'
    BY <1>1, <1>2, <1>3, <1>4, <2>2, ReadOn
  <2>4. MethodIs(a, u)'
    BY <1>1, <1>2, <2>1, <2>2, MethodStays
  <2>5. Lacks(u + 1, BlankBytes)'
    BY <1>1, <2>2, ReadNothing
  <2>6. InUri'
    BY <1>3, <2>1, <2>2, <2>3, <2>4, <2>5 DEF InUri
  <2> QED
    BY <1>1, <2>1, <2>6 DEF FirstLineRead, PastFirstLine
<1>5. CASE Ch # SP
  <2>1. state' = "METHOD" /\ method' = Append(method, Upper(Ch))
    BY <1>5 DEF ParseMethod, InsertMethodChar, Continue, Fail
  <2>2. MethodIs(a, i)'
    BY <1>1, <1>2, <1>3, <2>1, MethodGrows
  <2>3. Lacks(a, {SP})'
    BY <1>1, <1>2, <1>3, <1>5, ReadOn
  <2>4. InMethod'
    BY <1>3, <2>2, <2>3 DEF InMethod
  <2> QED
    BY <1>1, <2>1, <2>4 DEF FirstLineRead, PastFirstLine
<1> QED
  BY <1>4, <1>5

\* STATE_METHOD, called again with the byte that cannot begin a method
LEMMA NoMethodRead ==
  ASSUME NEW kept \in BOOLEAN, IInv, type = REQUEST, NoMethod, ParseMethod,
         failure' # "syntax"
  PROVE  FirstLineRead(kept)'
<1>1. /\ i \in Nat /\ i' = i + 1
      /\ UNCHANGED <<stream, type, line>>
  BY FieldTypes DEF ParseMethod, InsertMethodChar, Continue, Fail, Outside, peer
<1>2. PICK a \in Nat : a = i
  BY <1>1
<1>3. LeadIs(a)' /\ a \in 0..i'
  BY <1>1, <1>2, LeadFound DEF NoMethod, StartOfLine
<1>4. MethodIs(a, i) /\ Lacks(a, {SP}) /\ method = <<>>
  BY <1>1, <1>2 DEF NoMethod, StartOfLine, MethodIs, Lacks
<1>5. CASE Ch = SP
  <2>1. state' = "URI" /\ cursor' = i + 1 /\ UNCHANGED method
    BY <1>5 DEF ParseMethod, NextOffset, Continue
  <2>2. Ends(a, a, {SP})'
    BY <1>1, <1>2, <1>4, <1>5, ReadOn
  <2>3. MethodIs(a, a)'
    BY <1>1, <1>2, <1>4, <2>1, MethodStays
  <2>4. Lacks(a + 1, BlankBytes)'
    BY <1>1, <1>2, ReadNothing
  <2>5. InUri'
    BY <1>2, <1>3, <2>1, <2>2, <2>3, <2>4 DEF InUri
  <2> QED
    BY <1>1, <2>1, <2>5 DEF FirstLineRead, PastFirstLine
<1>6. CASE Ch # SP
  <2>1. state' = "METHOD" /\ method' = Append(method, Upper(Ch))
    BY <1>6 DEF ParseMethod, InsertMethodChar, Continue, Fail
  <2>2. MethodIs(a, i)'
    BY <1>1, <1>2, <1>4, <2>1, MethodGrows
  <2>3. Lacks(a, {SP})'
    BY <1>1, <1>4, <1>6, ReadOn
  <2>4. InMethod'
    BY <1>3, <2>2, <2>3 DEF InMethod
  <2> QED
    BY <1>1, <2>1, <2>4 DEF FirstLineRead, PastFirstLine
<1> QED
  BY <1>5, <1>6

\* STATE_URI
LEMMA UriRead ==
  ASSUME NEW kept \in BOOLEAN, IInv, type = REQUEST, InUri, ParseUri, failure' # "syntax"
  PROVE  FirstLineRead(kept)'
<1>1. /\ i \in Nat /\ i' = i + 1
      /\ UNCHANGED <<stream, type, method>>
  BY FieldTypes DEF ParseUri, Continue, Fail, Outside, peer
<1>2. PICK a, u \in 0..i :
        /\ LeadIs(a) /\ Ends(a, u, {SP}) /\ MethodIs(a, u)
        /\ cursor = u + 1
        /\ Lacks(u + 1, BlankBytes)
  BY DEF InUri
<1>3. /\ a \in Nat /\ u \in Nat /\ a \in 0..i' /\ u \in 0..i'
      /\ LeadIs(a)' /\ Ends(a, u, {SP})' /\ MethodIs(a, u)'
  BY <1>1, <1>2, FoundStays, MethodStays
<1>4. \A k : At(k)' = At(k)
  BY <1>1 DEF At
<1>5. CASE IsCrlfOrSpace(Ch)
  <2>1. i # cursor /\ line \in Lines
    BY <1>5, FieldTypes DEF ParseUri, Fail
  <2>2. line'.uri = [start |-> cursor, end |-> i]
    BY <1>5, <2>1, FieldTypes, SliceOfOffsets DEF ParseUri, Lines, IsCrlf, IsCrlfOrSpace
  <2>3. PICK v \in Nat : v = i
    BY <1>1
  <2>4. Ends(u + 1, v, BlankBytes)' /\ v \in 0..i'
    BY <1>1, <1>2, <1>3, <1>5, <2>3, ReadOn DEF IsCrlfOrSpace, BlankBytes
  <2>5. UriIs(u, v)' /\ At(v)' = Ch
    BY <1>2, <1>4, <2>2, <2>3 DEF UriIs, Ch
  <2>6. CASE Ch = SP
    <3>1. state' = "VERSION" /\ cursor' = i + 1
      BY <2>1, <2>6 DEF ParseUri, NextOffset, Continue, IsCrlf, CR, LF, SP, IsCrlfOrSpace
    <3>2. InVersion'
      BY <1>3, <2>3, <2>4, <2>5, <2>6, <3>1 DEF InVersion
    <3> QED
      BY <1>1, <3>1, <3>2 DEF FirstLineRead, PastFirstLine
  <2>7. CASE Ch # SP
    <3>1. IsCrlf(Ch)
      BY <1>5, <2>7 DEF IsCrlf, IsCrlfOrSpace
    <3>2. state' \in {"CR", "LF1"} /\ line'.version = V0_9
      BY <2>1, <2>7, <3>1 DEF ParseUri, EndOfLine, Continue, Lines, IsCrlf, IsCrlfOrSpace
    <3>3. RequestLine'
      BY <1>3, <2>4, <2>5, <2>7, <3>2 DEF RequestLine
    <3> QED
      BY <1>1, <3>2, <3>3 DEF FirstLineRead, PastFirstLine
  <2> QED
    BY <2>6, <2>7
<1>6. CASE ~IsCrlfOrSpace(Ch)
  <2>1. state' = "URI" /\ UNCHANGED cursor
    BY <1>6 DEF ParseUri, Continue, Fail, IsCrlf, IsCrlfOrSpace
  <2>2. Lacks(u + 1, BlankBytes)'
    BY <1>1, <1>2, <1>3, <1>6, ReadOn DEF IsCrlfOrSpace, BlankBytes
  <2>3. InUri'
    BY <1>2, <1>3, <2>1, <2>2 DEF InUri
  <2> QED
    BY <1>1, <2>1, <2>3 DEF FirstLineRead, PastFirstLine
<1> QED
  BY <1>5, <1>6

\* The only texts that are versions are eight bytes long.
LEMMA VersionLength ==
  ASSUME IInv, NEW from \in Nat, from <= i, i <= Len(stream),
         parse_version(from, i) # V_UNKNOWN
  PROVE  i = from + 8
<1> DEFINE text == SubSeq(stream, from + 1, i)
<1>1. stream \in Seq(Byte) /\ Len(stream) \in Nat /\ i \in Nat
  BY StreamsAssumption, FieldTypes DEF IInv, TypeOK
<1>2. Len(text) = i - from
  BY <1>1
<1>3. /\ Len(VersionText(48, 57)) = 8
      /\ Len(VersionText(49, 48)) = 8
      /\ Len(VersionText(49, 49)) = 8
  BY DEF VersionText
<1>4. \/ text = VersionText(48, 57)
      \/ text = VersionText(49, 48)
      \/ text = VersionText(49, 49)
  BY DEF parse_version
<1> HIDE DEF text
<1>5. Len(text) = 8
  BY <1>3, <1>4
<1>6. i - from = 8
  BY <1>2, <1>5, Zenon
<1> QED
  BY <1>1, <1>6

\* An iteration reads a byte that is there.
LEMMA ByteThere ==
  ASSUME IInv, BytesLeft
  PROVE  i < Len(stream)
<1>1. /\ i \in Nat /\ args.size \in Nat /\ received \in Nat
      /\ i < args.size /\ args.size <= received /\ received <= Len(stream)
  BY FieldTypes, Widths DEF IInv, TypeOK, WithinInput, BytesLeft, Args
<1> QED
  BY <1>1

\* STATE_VERSION of a request
LEMMA VersionRead ==
  ASSUME NEW kept \in BOOLEAN, IInv, type = REQUEST, InVersion, ParseVersion,
         failure' # "syntax"
  PROVE  FirstLineRead(kept)'
<1>1. /\ i \in Nat /\ i' = i + 1
      /\ UNCHANGED <<stream, type, method, cursor>>
  BY FieldTypes DEF ParseVersion, Continue, Fail, Outside, peer
<1>2. PICK a, u, v \in 0..i :
        /\ LeadIs(a) /\ Ends(a, u, {SP}) /\ MethodIs(a, u)
        /\ Ends(u + 1, v, BlankBytes) /\ UriIs(u, v)
        /\ At(v) = SP
        /\ cursor = v + 1
  BY DEF InVersion
<1>3. /\ a \in Nat /\ u \in Nat /\ v \in Nat
      /\ a \in 0..i' /\ u \in 0..i' /\ v \in 0..i'
      /\ LeadIs(a)' /\ Ends(a, u, {SP})' /\ MethodIs(a, u)'
      /\ Ends(u + 1, v, BlankBytes)'
  BY <1>1, <1>2, FoundStays, MethodStays
<1>4. At(v)' = At(v)
  BY <1>1 DEF At
<1>5. CASE IsCrlfOrSpace(Ch)
  <2>1. parse_version(cursor, i) # V_UNKNOWN /\ state' \in {"CR", "LF1"}
    BY <1>5 DEF ParseVersion, Continue, Fail, EndOfLine
  <2>2. line' = [line EXCEPT !.version = parse_version(cursor, i)]
    BY <1>5, <2>1 DEF ParseVersion
  <2>3. i < Len(stream) /\ cursor <= i /\ cursor \in Nat
    BY ByteThere, FieldTypes DEF ParseVersion, Reading
  <2>4. Len(stream) \in Nat
    BY StreamsAssumption DEF IInv, TypeOK
  <2>5. i = v + 9
    BY <1>1, <1>2, <1>3, <2>1, <2>3, <2>4, VersionLength
  <2>6. line'.version = parse_version(v + 1, v + 9) /\ line'.uri = line.uri
    BY <1>2, <2>2, <2>5, FieldTypes DEF Lines
  <2>7. parse_version(v + 1, v + 9)' = parse_version(v + 1, v + 9)
    BY <1>1 DEF parse_version
  <2>8. UriIs(u, v)'
    BY <1>2, <2>6 DEF UriIs
  <2>9. RequestLine'
    BY <1>2, <1>3, <1>4, <2>6, <2>7, <2>8 DEF RequestLine
  <2> QED
    BY <1>1, <2>1, <2>9 DEF FirstLineRead, PastFirstLine
<1>6. CASE ~IsCrlfOrSpace(Ch)
  <2>1. state' = "VERSION" /\ UNCHANGED line
    BY <1>6 DEF ParseVersion, Continue
  <2>2. UriIs(u, v)'
    BY <1>2, <2>1 DEF UriIs
  <2>3. InVersion'
    BY <1>1, <1>2, <1>3, <1>4, <2>2 DEF InVersion
  <2> QED
    BY <1>1, <2>1, <2>3 DEF FirstLineRead, PastFirstLine
<1> QED
  BY <1>5, <1>6

-----------------------------------------------------------------------------
(* A response's line *)

\* STATE_VERSION of a response
LEMMA StatusVersionRead ==
  ASSUME NEW kept \in BOOLEAN, IInv, type # REQUEST, InStatusVersion,
         ParseVersion, failure' # "syntax"
  PROVE  FirstLineRead(kept)'
<1>1. /\ i \in Nat /\ i' = i + 1
      /\ UNCHANGED <<stream, type, method, cursor>>
  BY FieldTypes DEF ParseVersion, Continue, Fail, Outside, peer
<1>2. PICK a \in 0..i : LeadIs(a) /\ cursor = a /\ line = NoLine
  BY DEF InStatusVersion
<1>3. a \in Nat /\ a \in 0..i' /\ LeadIs(a)'
  BY <1>1, <1>2, FoundStays
<1>4. CASE IsCrlfOrSpace(Ch)
  <2>1. parse_version(cursor, i) # V_UNKNOWN /\ state' = "STATUS"
    BY <1>4 DEF ParseVersion, Continue, Fail
  <2>2. line' = [line EXCEPT !.version = parse_version(cursor, i)]
    BY <1>4, <2>1 DEF ParseVersion
  <2>3. i < Len(stream) /\ cursor <= i /\ cursor \in Nat
    BY ByteThere, FieldTypes DEF ParseVersion, Reading
  <2>4. Len(stream) \in Nat
    BY StreamsAssumption DEF IInv, TypeOK
  <2>5. i = a + 8
    BY <1>1, <1>2, <1>3, <2>1, <2>3, <2>4, VersionLength
  <2>6. /\ line'.version = parse_version(a, a + 8)
        /\ line'.status = 0 /\ line'.message = NoSlice
    BY <1>2, <2>2, <2>5 DEF NoLine
  <2>7. parse_version(a, a + 8)' = parse_version(a, a + 8)
    BY <1>1 DEF parse_version
  <2>8. a + 9 = i + 1 /\ a + 9 \in Nat
    BY <1>3, <2>5
  <2>9. Lacks(a + 9, BlankBytes)'
    BY <1>1, <2>8, ReadNothing
  <2>10. i' = a + 9
    BY <1>1, <2>8
  <2>11. StatusIs(a + 9, i)'
    BY <2>6, <2>10 DEF StatusIs
  <2>12. \A k \in (a + 9)..(i' - 1) : IsDigit(At(k)')
    BY <1>3, <2>10
  <2>13. InStatus(kept)'
    BY <1>3, <2>6, <2>7, <2>9, <2>11, <2>12 DEF InStatus, HTTP_STATUS_MAX
  <2> QED
    BY <1>1, <2>1, <2>13 DEF FirstLineRead, PastFirstLine
<1>5. CASE ~IsCrlfOrSpace(Ch)
  <2>1. state' = "VERSION" /\ UNCHANGED line
    BY <1>5 DEF ParseVersion, Continue
  <2>2. InStatusVersion'
    BY <1>1, <1>2, <1>3, <2>1 DEF InStatusVersion
  <2> QED
    BY <1>1, <2>1, <2>2 DEF FirstLineRead, PastFirstLine
<1> QED
  BY <1>4, <1>5

\* The digits that have been read, as numbers
LEMMA DigitValues ==
  ASSUME IInv, NEW d \in Nat, d <= i,
         \A k \in d..(i - 1) : IsDigit(At(k))
  PROVE  /\ i >= d + 1 => Digit(i, 1) \in 0..9
         /\ i >= d + 2 => Digit(i, 2) \in 0..9
         /\ i >= d + 3 => Digit(i, 3) \in 0..9
<1>1. i \in Nat
  BY FieldTypes
<1>2. ASSUME NEW k \in 1..3, i >= d + k PROVE Digit(i, k) \in 0..9
  <2>1. i - k \in d..(i - 1)
    BY <1>1, <1>2
  <2> QED
    BY <2>1 DEF Digit, IsDigit
<1> QED
  BY <1>2

\* A status that is not too small has three digits at least, and is the number
\* that the last three spell.
LEMMA ThreeDigitsAtLeast ==
  ASSUME IInv, NEW d \in Nat, d <= i,
         \A k \in d..(i - 1) : IsDigit(At(k)),
         StatusIs(d, i), ~(line.status < HTTP_STATUS_MIN)
  PROVE  ThreeDigits(i)
<1>1. i \in Nat
  BY FieldTypes
<1>2. CASE i = d
  BY <1>1, <1>2 DEF StatusIs, HTTP_STATUS_MIN
<1>3. CASE i = d + 1
  BY <1>1, <1>3, DigitValues DEF StatusIs, HTTP_STATUS_MIN
<1>4. CASE i = d + 2
  BY <1>1, <1>4, DigitValues DEF StatusIs, HTTP_STATUS_MIN
<1>5. CASE i >= d + 3
  BY <1>1, <1>5 DEF StatusIs, ThreeDigits
<1> QED
  BY <1>1, <1>2, <1>3, <1>4, <1>5

\* One more digit, of a status that stays small enough
LEMMA StatusGrows ==
  ASSUME IInv, UNCHANGED stream, i' = i + 1,
         NEW d \in Nat, d <= i,
         \A k \in d..(i - 1) : IsDigit(At(k)), IsDigit(Ch),
         StatusIs(d, i), line.status <= HTTP_STATUS_MAX,
         line'.status = Appended(line.status, Ch),
         line'.status <= HTTP_STATUS_MAX
  PROVE  StatusIs(d, i)'
<1>1. i \in Nat /\ line.status \in Nat
  BY FieldTypes, Widths DEF Lines
<1>2. PICK c \in 0..9 : c = Ch - 48
  BY DEF IsDigit
<1>3. line'.status = 10 * line.status + c
  <2>1. line.status * 10 + c \in 0..(UINT32 - 1)
    BY <1>1, <1>2, Widths DEF HTTP_STATUS_MAX
  <2>2. line'.status = (line.status * 10 + c) % UINT32
    BY <1>2 DEF Appended
  <2> QED
    BY <1>1, <1>2, <2>1, <2>2, Widths
<1>4. 10 * line.status + c <= 999
  BY <1>3 DEF HTTP_STATUS_MAX
<1>5. /\ Digit(i, 1)' = c
      /\ Digit(i, 2)' = Digit(i, 1)
      /\ Digit(i, 3)' = Digit(i, 2)
  <2>1. i' - 1 = i /\ i' - 2 = i - 1 /\ i' - 3 = i - 2
    BY <1>1
  <2> QED
    BY <1>2, <2>1 DEF Digit, Ch, At
<1>6. CASE i = d
  <2>1. line'.status = c /\ i' = d + 1
    BY <1>1, <1>3, <1>6 DEF StatusIs
  <2> QED
    BY <1>1, <1>5, <2>1 DEF StatusIs
<1>7. CASE i = d + 1
  <2>1. Digit(i, 1) \in 0..9
    BY <1>1, <1>7, DigitValues
  <2>2. line'.status = 10 * Digit(i, 1) + c /\ i' = d + 2
    BY <1>1, <1>3, <1>7, <2>1 DEF StatusIs
  <2> QED
    BY <1>1, <1>5, <2>2 DEF StatusIs
<1>8. CASE i >= d + 2
  <2>1. Digit(i, 1) \in 0..9 /\ Digit(i, 2) \in 0..9
    BY <1>1, <1>8, DigitValues
  <2>2. line.status = 10 * Digit(i, 2) + Digit(i, 1)
    <3>1. CASE i = d + 2
      BY <1>1, <3>1 DEF StatusIs
    <3>2. CASE i >= d + 3
      <4>1. Digit(i, 3) \in 0..9
        BY <1>1, <3>2, DigitValues
      <4>2. line.status = 100 * Digit(i, 3) + 10 * Digit(i, 2) + Digit(i, 1)
        BY <1>1, <3>2 DEF StatusIs
      <4>3. Digit(i, 3) = 0
        BY <1>2, <1>4, <2>1, <4>1, <4>2
      <4> QED
        BY <2>1, <4>2, <4>3
    <3> QED
      BY <1>1, <1>8, <3>1, <3>2
  <2>3. line'.status = 100 * Digit(i, 2) + 10 * Digit(i, 1) + c
    BY <1>2, <1>3, <2>1, <2>2
  <2>4. i' # d /\ i' # d + 1 /\ i' # d + 2
    BY <1>1, <1>8
  <2> QED
    BY <1>5, <2>3, <2>4 DEF StatusIs
<1> QED
  BY <1>1, <1>6, <1>7, <1>8

\* STATE_STATUS
LEMMA StatusRead ==
  ASSUME NEW kept \in BOOLEAN, IInv, type # REQUEST, InStatus(kept),
         NotYetRecorded, ParseStatus, failure' # "syntax"
  PROVE  FirstLineRead(kept)'
<1>1. /\ i \in Nat /\ i' = i + 1
      /\ UNCHANGED <<stream, type, method>>
      /\ state = "STATUS"
  BY FieldTypes DEF ParseStatus, AppendToStatus, Reading, Continue, Fail, Outside, peer
<1>2. PICK a \in 0..i :
        /\ LeadIs(a)
        /\ line.version = parse_version(a, a + 8)
        /\ Lacks(a + 9, BlankBytes)
        /\ \A k \in (a + 9)..(i - 1) : IsDigit(At(k))
        /\ kept => StatusIs(a + 9, i) /\ line.status <= HTTP_STATUS_MAX
  BY DEF InStatus
<1>3. /\ a \in Nat /\ a + 9 \in Nat /\ a \in 0..i' /\ LeadIs(a)'
      /\ a + 9 <= i
  BY <1>1, <1>2, FoundStays DEF Lacks
<1>4. parse_version(a, a + 8)' = parse_version(a, a + 8)
  BY <1>1 DEF parse_version
<1>5. \A k : At(k)' = At(k)
  BY <1>1 DEF At
<1>6. CASE IsCrlfOrSpace(Ch)
  <2>1. ~(line.status < HTTP_STATUS_MIN) /\ UNCHANGED line
    <3>1. line.status \in Nat
      BY FieldTypes, Widths DEF Lines
    <3> QED
      BY <1>6, <3>1 DEF ParseStatus, Fail, HTTP_STATUS_MIN
  <2>2. kept => ThreeDigits(i)
    BY <1>2, <1>3, <2>1, ThreeDigitsAtLeast
  <2>3. PICK w \in Nat : w = i
    BY <1>1
  <2>4. Ends(a + 9, w, BlankBytes)' /\ w \in 0..i' /\ At(w)' = Ch
    <3>1. Ch \in BlankBytes
      BY <1>6 DEF IsCrlfOrSpace, BlankBytes
    <3>2. Ends(a + 9, w, BlankBytes)'
      BY <1>1, <1>2, <1>3, <2>3, <3>1, ReadOn
    <3> QED
      BY <1>1, <1>5, <2>3, <3>2 DEF Ch
  <2>5. kept => ThreeDigits(w)'
    BY <1>5, <2>1, <2>2, <2>3 DEF ThreeDigits, Digit
  <2>6. CASE Ch = SP
    <3>1. state' = "MESSAGE" /\ cursor' = i + 1
      BY <2>1, <2>6 DEF ParseStatus, NextOffset, Continue, IsCrlf, IsCrlfOrSpace, CR, LF, SP
    <3>2. Lacks(w + 1, CrlfBytes)'
      BY <1>1, <2>3, ReadNothing
    <3>3. InMessage(kept)'
      BY <1>2, <1>3, <1>4, <2>1, <2>3, <2>4, <2>5, <2>6, <3>1, <3>2 DEF InMessage
    <3> QED
      BY <1>1, <3>1, <3>3 DEF FirstLineRead, PastFirstLine
  <2>7. CASE Ch # SP
    <3>1. IsCrlf(Ch)
      BY <1>6, <2>7 DEF IsCrlf, IsCrlfOrSpace
    <3>2. state' \in {"CR", "LF1"}
      BY <2>1, <2>7, <3>1 DEF ParseStatus, EndOfLine, Continue, Fail, IsCrlfOrSpace, IsCrlf
    <3>3. line'.message = NoSlice
      BY <1>1, <2>1 DEF NotYetRecorded
    <3>4. StatusLine(kept)'
      BY <1>2, <1>3, <1>4, <2>1, <2>4, <2>5, <2>7, <3>3 DEF StatusLine
    <3> QED
      BY <1>1, <3>2, <3>4 DEF FirstLineRead, PastFirstLine
  <2> QED
    BY <2>6, <2>7
<1>7. CASE ~IsCrlfOrSpace(Ch)
  <2>1. AppendToStatus
    BY <1>7 DEF ParseStatus, IsCrlf, IsCrlfOrSpace
  <2>2. /\ IsDigit(Ch) /\ state' = "STATUS"
        /\ line' = [line EXCEPT !.status = Appended(line.status, Ch)]
        /\ ~(Appended(line.status, Ch) > HTTP_STATUS_MAX)
    BY <2>1 DEF AppendToStatus, Continue, Fail
  <2>3. Appended(line.status, Ch) \in Nat
    <3>1. PICK c \in 0..9 : c = Ch - 48
      BY <2>2 DEF IsDigit
    <3>2. line.status \in Nat
      BY FieldTypes, Widths DEF Lines
    <3>3. line.status * 10 + c \in Nat
      BY <3>1, <3>2
    <3>4. Appended(line.status, Ch) = (line.status * 10 + c) % UINT32
      BY <3>1 DEF Appended
    <3> HIDE DEF Appended
    <3> QED
      BY <3>3, <3>4, Widths
  <2>4. /\ line'.version = line.version
        /\ line'.status = Appended(line.status, Ch)
        /\ line'.status <= HTTP_STATUS_MAX
    BY <2>2, <2>3, FieldTypes DEF Lines, HTTP_STATUS_MAX
  <2>5. kept => StatusIs(a + 9, i)'
    BY <1>1, <1>2, <1>3, <2>2, <2>4, StatusGrows
  <2>6. Lacks(a + 9, BlankBytes)'
    BY <1>1, <1>2, <1>3, <1>7, ReadOn DEF IsCrlfOrSpace, BlankBytes
  <2>7. \A k \in (a + 9)..(i' - 1) : IsDigit(At(k)')
    <3>1. ASSUME NEW k \in (a + 9)..(i' - 1) PROVE IsDigit(At(k)')
      <4>1. CASE k = i
        BY <1>5, <2>2, <4>1 DEF Ch
      <4>2. CASE k # i
        <5>1. k \in (a + 9)..(i - 1)
          BY <1>1, <1>3, <4>2
        <5> QED
          BY <1>2, <1>5, <5>1
      <4> QED
        BY <4>1, <4>2
    <3> QED
      BY <3>1
  <2>8. InStatus(kept)'
    BY <1>2, <1>3, <1>4, <2>4, <2>5, <2>6, <2>7 DEF InStatus
  <2> QED
    BY <1>1, <2>2, <2>8 DEF FirstLineRead, PastFirstLine
<1> QED
  BY <1>6, <1>7

\* STATE_MESSAGE
LEMMA MessageRead ==
  ASSUME NEW kept \in BOOLEAN, IInv, type # REQUEST, InMessage(kept), ParseMessage,
         failure' # "syntax"
  PROVE  FirstLineRead(kept)'
<1>1. /\ i \in Nat /\ i' = i + 1
      /\ UNCHANGED <<stream, type, method, cursor>>
  BY FieldTypes DEF ParseMessage, Continue, Fail, Outside, peer
<1>2. PICK a, w \in 0..i :
        /\ LeadIs(a)
        /\ line.version = parse_version(a, a + 8)
        /\ Ends(a + 9, w, BlankBytes) /\ At(w) = SP
        /\ kept => ThreeDigits(w)
        /\ cursor = w + 1
        /\ Lacks(w + 1, CrlfBytes)
  BY DEF InMessage
<1>3. /\ a \in Nat /\ w \in Nat /\ a \in 0..i' /\ w \in 0..i'
      /\ LeadIs(a)' /\ Ends(a + 9, w, BlankBytes)'
  BY <1>1, <1>2, FoundStays
<1>4. \A k : At(k)' = At(k)
  BY <1>1 DEF At
<1>5. parse_version(a, a + 8)' = parse_version(a, a + 8)
  BY <1>1 DEF parse_version
<1>6. CASE IsCrlf(Ch)
  <2>1. /\ state' \in {"CR", "LF1"}
        /\ line' = [line EXCEPT !.message = Slice(cursor, i)]
    BY <1>6 DEF ParseMessage, EndOfLine, Continue
  <2>2. /\ line'.message = [start |-> cursor, end |-> i]
        /\ line'.version = line.version /\ line'.status = line.status
    BY <2>1, FieldTypes, SliceOfOffsets DEF Lines
  <2>3. PICK e \in Nat : e = i
    BY <1>1
  <2>4. Ends(w + 1, e, CrlfBytes)' /\ e \in 0..i'
    BY <1>1, <1>2, <1>3, <1>6, <2>3, ReadOn DEF IsCrlf, CrlfBytes
  <2>5. kept => ThreeDigits(w)'
    BY <1>2, <1>4, <2>2 DEF ThreeDigits, Digit
  <2>6. line'.message = [start |-> w + 1, end |-> e]
    BY <1>2, <2>2, <2>3
  <2>7. StatusLine(kept)'
    BY <1>2, <1>3, <1>4, <1>5, <2>2, <2>4, <2>5, <2>6 DEF StatusLine
  <2> QED
    BY <1>1, <2>1, <2>7 DEF FirstLineRead, PastFirstLine
<1>7. CASE ~IsCrlf(Ch)
  <2>1. state' = "MESSAGE" /\ UNCHANGED line
    BY <1>7 DEF ParseMessage, Continue, Fail
  <2>2. Lacks(w + 1, CrlfBytes)'
    BY <1>1, <1>2, <1>3, <1>7, ReadOn DEF IsCrlf, CrlfBytes
  <2>3. kept => ThreeDigits(w)'
    BY <1>2, <1>4, <2>1 DEF ThreeDigits, Digit
  <2>4. InMessage(kept)'
    BY <1>1, <1>2, <1>3, <1>4, <1>5, <2>1, <2>2, <2>3 DEF InMessage
  <2> QED
    BY <1>1, <2>1, <2>4 DEF FirstLineRead, PastFirstLine
<1> QED
  BY <1>6, <1>7

-----------------------------------------------------------------------------
(* The invariant *)

\* Behind the first line, what has been read of it stays read.
LEMMA PastRead ==
  ASSUME NEW kept \in BOOLEAN, IInv, FirstLineRead(kept), PastFirstLine, PastFirstLine',
         UNCHANGED <<stream, type, method, line>>, i' \in {i, i + 1}
  PROVE  FirstLineRead(kept)'
<1>1. i \in Nat /\ (i' = i \/ i' = i + 1)
  BY FieldTypes
<1>2. \A k \in 0..i : k \in 0..i'
  BY <1>1
<1>3. \A k : At(k)' = At(k)
  BY DEF At
<1>4. \A from, to : parse_version(from, to)' = parse_version(from, to)
  BY DEF parse_version
<1>5. CASE type = REQUEST
  <2>1. PICK a, u, v \in 0..i :
          /\ LeadIs(a) /\ Ends(a, u, {SP}) /\ MethodIs(a, u)
          /\ Ends(u + 1, v, BlankBytes) /\ UriIs(u, v)
          /\ line.version = IF At(v) = SP THEN parse_version(v + 1, v + 9) ELSE V0_9
    BY <1>5 DEF FirstLineRead, RequestLine
  <2>2. /\ a \in Nat /\ u \in Nat /\ v \in Nat
        /\ LeadIs(a)' /\ Ends(a, u, {SP})' /\ MethodIs(a, u)'
        /\ Ends(u + 1, v, BlankBytes)'
    BY <1>1, <2>1, FoundStays, MethodStays
  <2>3. UriIs(u, v)'
    BY <2>1 DEF UriIs
  <2>4. RequestLine'
    BY <1>2, <1>3, <1>4, <2>1, <2>2, <2>3 DEF RequestLine
  <2> QED
    BY <1>5, <2>4 DEF FirstLineRead, PastFirstLine
<1>6. CASE type # REQUEST
  <2>1. PICK a, w \in 0..i :
          /\ LeadIs(a)
          /\ line.version = parse_version(a, a + 8)
          /\ Ends(a + 9, w, BlankBytes)
          /\ kept => ThreeDigits(w)
          /\ IF At(w) = SP
               THEN \E e \in 0..i : Ends(w + 1, e, CrlfBytes)
                                    /\ line.message = [start |-> w + 1, end |-> e]
               ELSE line.message = NoSlice
    BY <1>6 DEF FirstLineRead, StatusLine
  <2>2. /\ a \in Nat /\ w \in Nat
        /\ LeadIs(a)' /\ Ends(a + 9, w, BlankBytes)'
    BY <1>1, <2>1, FoundStays
  <2>3. kept => ThreeDigits(w)'
    BY <1>3, <2>1 DEF ThreeDigits, Digit
  <2>4. \A e \in 0..i : Ends(w + 1, e, CrlfBytes) => Ends(w + 1, e, CrlfBytes)'
    BY <1>1, <2>2, FoundStays
  <2>5. StatusLine(kept)'
    BY <1>2, <1>3, <1>4, <2>1, <2>2, <2>3, <2>4 DEF StatusLine
  <2> QED
    BY <1>6, <2>5 DEF FirstLineRead, PastFirstLine
<1> QED
  BY <1>5, <1>6

\* The states of the first line are left for those behind it, and not again
\* entered from there.
LEMMA PastStates ==
  ASSUME PastFirstLine, ParseByte
  PROVE  /\ PastFirstLine'
         /\ UNCHANGED <<stream, type, method, line>>
         /\ i' \in {i, i + 1}
  BY DEF ParseByte, ParseStart, ParseMethod, ParseUri, ParseVersion, ParseStatus,
     ParseMessage, ParseCr, ParseLf1, ParseName, ParseColon, ParseValue, ParseLf2,
     ValueByte, StoreHeader, Reading, Continue, Fail, Succeed, EndOfLine,
     PastFirstLine, Outside, peer

\* How an iteration ends
LEMMA ByteEnds ==
  ASSUME ParseByte
  PROVE  /\ pc = "loop"
         /\ failure' = "syntax" => pc' = "idle" /\ ret' = -1
         /\ failure' = "syntax" /\ ~PastFirstLine => ~PastFirstLine'
  BY DEF ParseByte, ParseStart, ParseMethod, ParseUri, ParseVersion, ParseStatus,
     ParseMessage, ParseCr, ParseLf1, ParseName, ParseColon, ParseValue, ParseLf2,
     InsertMethodChar, AppendToStatus, ValueByte, StoreHeader, Reading, Continue,
     Fail, Succeed, PastFirstLine

\* The case of the switch that an iteration is
LEMMA ByteState ==
  /\ ParseStart   => state = "START"
  /\ ParseMethod  => state = "METHOD"
  /\ ParseUri     => state = "URI"
  /\ ParseVersion => state = "VERSION"
  /\ ParseStatus  => state = "STATUS"
  /\ ParseMessage => state = "MESSAGE"
  /\ ParseCr \/ ParseLf1 \/ ParseName \/ ParseColon \/ ParseValue \/ ParseLf2
       => PastFirstLine
  BY DEF ParseStart, ParseMethod, ParseUri, ParseVersion, ParseStatus,
     ParseMessage, ParseCr, ParseLf1, ParseName, ParseColon, ParseValue, ParseLf2,
     Reading, PastFirstLine

\* An iteration that accepts its byte reads on.
LEMMA ByteReadOn ==
  ASSUME NEW kept \in BOOLEAN, IInv, NotYetRecorded, FirstLineRead(kept), ParseByte,
         failure' # "syntax"
  PROVE  FirstLineRead(kept)'
<1>1. /\ state = "START"  => StartOfLine
      /\ state = "METHOD" => type = REQUEST /\ (InMethod \/ NoMethod)
      /\ state = "URI"    => type = REQUEST /\ InUri
      /\ state = "VERSION" /\ type = REQUEST => InVersion
      /\ state = "VERSION" /\ type # REQUEST => InStatusVersion
      /\ state = "STATUS"  => type # REQUEST /\ InStatus(kept)
      /\ state = "MESSAGE" => type # REQUEST /\ InMessage(kept)
  BY DEF FirstLineRead
<1>2. CASE ParseStart
  BY <1>1, <1>2, ByteState, StartRead
<1>3. CASE ParseMethod
  BY <1>1, <1>3, ByteState, MethodRead, NoMethodRead
<1>4. CASE ParseUri
  BY <1>1, <1>4, ByteState, UriRead
<1>5. CASE ParseVersion
  BY <1>1, <1>5, ByteState, VersionRead, StatusVersionRead
<1>6. CASE ParseStatus
  BY <1>1, <1>6, ByteState, StatusRead
<1>7. CASE ParseMessage
  BY <1>1, <1>7, ByteState, MessageRead
<1>8. CASE PastFirstLine
  BY <1>8, PastRead, PastStates
<1> QED
  BY <1>2, <1>3, <1>4, <1>5, <1>6, <1>7, <1>8, ByteState DEF ParseByte

\* An iteration that refuses its byte leaves what has been read of the line,
\* but for the status; and a method that could not be begun.
LEMMA ByteRefused ==
  ASSUME IInv, FirstLineRead(FALSE), ParseByte, ~PastFirstLine, failure' = "syntax"
  PROVE  FirstLineRead(FALSE)'
<1>1. UNCHANGED <<stream, type, i, method>>
  BY DEF ParseByte, ParseStart, ParseMethod, ParseUri, ParseVersion, ParseStatus,
     ParseMessage, ParseCr, ParseLf1, ParseName, ParseColon, ParseValue, ParseLf2,
     InsertMethodChar, AppendToStatus, Reading, Continue, Fail, PastFirstLine, Outside, peer
<1>2. CASE ParseStart
  <2>1. /\ state = "START" /\ state' = "METHOD" /\ type = REQUEST
        /\ ~IsCrlf(Ch) /\ UNCHANGED line
    BY <1>2 DEF ParseStart, InsertMethodChar, Reading, Continue, Fail
  <2>2. StartOfLine
    BY <2>1 DEF FirstLineRead
  <2>3. NoMethod'
    BY <1>1, <2>1, <2>2 DEF NoMethod, StartOfLine, Ch, At
  <2> QED
    BY <1>1, <2>1, <2>3 DEF FirstLineRead, PastFirstLine
<1>3. CASE ParseStatus
  <2>1. /\ state = "STATUS" /\ UNCHANGED <<state, cursor>>
        /\ line' = line \/ line' = [line EXCEPT !.status = Appended(line.status, Ch)]
    BY <1>3 DEF ParseStatus, AppendToStatus, Reading, Continue, Fail
  <2>2. line'.version = line.version
    BY <2>1, FieldTypes DEF Lines
  <2>3. type # REQUEST /\ InStatus(FALSE)
    BY <2>1 DEF FirstLineRead
  <2>4. InStatus(FALSE)'
    BY <1>1, <2>2, <2>3 DEF InStatus, LeadIs, Lacks, parse_version, At
  <2> QED
    BY <1>1, <2>1, <2>3, <2>4 DEF FirstLineRead, PastFirstLine
<1>4. CASE ~ParseStart /\ ~ParseStatus
  <2>1. UNCHANGED <<state, cursor, line>>
    BY <1>4 DEF ParseByte, ParseStart, ParseMethod, ParseUri, ParseVersion, ParseStatus,
       ParseMessage, ParseCr, ParseLf1, ParseName, ParseColon, ParseValue, ParseLf2,
       InsertMethodChar, Reading, Continue, Fail, PastFirstLine
  <2> QED
    BY <1>1, <2>1, NothingRead
<1> QED
  BY <1>2, <1>3, <1>4

\* The status apart, a request's line is read in the same way.
LEMMA RequestKept ==
  ASSUME FirstLineRead(FALSE), type = REQUEST
  PROVE  FirstLineRead(TRUE)
  BY DEF FirstLineRead

\* Every iteration keeps the invariant.
LEMMA ByteFirstLine ==
  ASSUME IInv, NotYetRecorded, FirstLineInv, ParseByte
  PROVE  FirstLineInv'
<1>1. pc = "loop" /\ type \in {REQUEST, RESPONSE} /\ type' = type
  BY ByteEnds, ByteMovesIndex DEF FirstLineInv
<1>2. FirstLineRead(FALSE)'
  <2>1. CASE failure' # "syntax"
    BY <2>1, ByteReadOn DEF FirstLineInv
  <2>2. CASE failure' = "syntax" /\ PastFirstLine
    BY <2>2, PastRead, PastStates DEF FirstLineInv
  <2>3. CASE failure' = "syntax" /\ ~PastFirstLine
    BY <2>3, ByteRefused DEF FirstLineInv
  <2> QED
    BY <2>1, <2>2, <2>3
<1>3. ASSUME StatusIsKept, failure' # "syntax" \/ PastFirstLine'
      PROVE  FirstLineRead(TRUE)'
  <2>1. FirstLineRead(TRUE)
    BY <1>1, <1>3, RequestKept DEF FirstLineInv
  <2>2. CASE failure' # "syntax"
    BY <2>1, <2>2, ByteReadOn
  <2>3. CASE failure' = "syntax"
    <3>1. PastFirstLine
      BY <1>3, <2>3, ByteEnds
    <3> QED
      BY <2>1, <3>1, PastRead, PastStates
  <2> QED
    BY <2>2, <2>3
<1>4. type' = RESPONSE /\ (pc' = "loop" \/ ret' = 0) => failure' # "syntax"
  BY ByteEnds
<1> QED
  BY <1>1, <1>2, <1>3, <1>4 DEF FirstLineInv

\* Nothing has been read of a new message.
LEMMA NewMessage ==
  ASSUME state = "START", i = 0, method = <<>>, line = NoLine, failure = "none",
         pc = "idle"
  PROVE  FirstLineInv
  BY DEF FirstLineInv, FirstLineRead, StartOfLine, PastFirstLine

\* Every step keeps the invariant.
LEMMA NextFirstLine ==
  IInv /\ NotYetRecorded /\ FirstLineInv /\ [Next]_vars => FirstLineInv'
<1> SUFFICES ASSUME IInv, NotYetRecorded, FirstLineInv, [Next]_vars
             PROVE  FirstLineInv'
  OBVIOUS
<1>1. CASE ParseByte
  BY <1>1, ByteFirstLine
<1>2. ASSUME NEW t, NEW s, MsgInit(t, s) PROVE FirstLineInv'
  BY <1>2 DEF MsgInit, FirstLineInv, FirstLineRead, StartOfLine, PastFirstLine
<1>3. CASE \/ ReturnUsedUp
           \/ \E capacity \in Capacities : Call(capacity)
           \/ \E n \in Chunks : Receive(n)
           \/ Free
           \/ UNCHANGED vars
  <2>1. UNCHANGED <<stream, type, state, i, cursor, method, line>>
    BY <1>3 DEF ReturnUsedUp, Call, Receive, Free, vars, peer, parser
  <2>2. /\ FirstLineRead(FALSE) => FirstLineRead(FALSE)'
        /\ FirstLineRead(TRUE) => FirstLineRead(TRUE)'
    BY <2>1, NothingRead
  <2>3. PastFirstLine' <=> PastFirstLine
    BY <2>1 DEF PastFirstLine
  <2>4. type \notin {REQUEST, RESPONSE} => pc' # "loop" /\ failure' # "syntax"
    BY <1>3 DEF FirstLineInv, ReturnUsedUp, Call, Receive, Free, vars
  <2>5. StatusIsKept /\ type = RESPONSE =>
          /\ pc' = "loop" \/ ret' = 0 => failure' # "syntax"
          /\ failure' # "syntax" => failure # "syntax"
    <3>1. StatusIsKept /\ type = RESPONSE => "syntax" \notin Retryable
      BY DEF StatusIsKept, IInv, TypeOK
    <3> QED
      BY <1>3, <3>1 DEF FirstLineInv, ReturnUsedUp, Call, MayCall, Receive, Free, vars
  <2>6. type # RESPONSE /\ failure = "syntax" => FirstLineRead(TRUE)
    BY RequestKept DEF FirstLineInv
  <2> QED
    BY <2>1, <2>2, <2>3, <2>4, <2>5, <2>6 DEF FirstLineInv
<1> QED
  BY <1>1, <1>2, <1>3 DEF Next, MessageNext

-----------------------------------------------------------------------------
(* From the invariant to the second reading of the bytes *)

\* The second reading begins where the message does.
LEMMA LeadOf ==
  ASSUME IInv, NEW a \in Nat, LeadIs(a)
  PROVE  Lead = a
<1>1. i \in Nat /\ a \in 0..i
  BY FieldTypes DEF LeadIs
<1>2. ASSUME NEW b \in 0..i, ~IsCrlf(At(b)), \A k \in 0..(b - 1) : IsCrlf(At(k))
      PROVE  b = a
  <2>1. ~(b < a)
    BY <1>1, <1>2 DEF LeadIs
  <2>2. ~(a < b)
    BY <1>1, <1>2 DEF LeadIs
  <2> QED
    BY <1>1, <2>1, <2>2
<1>3. /\ ~IsCrlf(At(a))
      /\ \A k \in 0..(a - 1) : IsCrlf(At(k))
  BY DEF LeadIs
<1> QED
  BY <1>1, <1>2, <1>3 DEF Lead

\* The first byte of a class
LEMMA FirstOfEnds ==
  ASSUME IInv, NEW from \in Nat, NEW to \in Nat, NEW bytes, Ends(from, to, bytes)
  PROVE  Min({k \in from..i : k = i \/ At(k) \in bytes}) = to
<1> DEFINE S == {k \in from..i : k = i \/ At(k) \in bytes}
<1>1. i \in Nat
  BY FieldTypes
<1>2. /\ to \in from..(i - 1)
      /\ At(to) \in bytes
      /\ \A k \in from..(to - 1) : At(k) \notin bytes
  BY DEF Ends
<1>3. to \in S /\ S \in SUBSET Nat
  BY <1>1, <1>2
<1>4. \A k \in S : to <= k
  <2> SUFFICES ASSUME NEW k \in S, k < to PROVE FALSE
    BY <1>1, <1>2
  <2>1. k \in from..(to - 1) /\ k # i
    BY <1>1, <1>2
  <2> QED
    BY <1>2, <2>1
<1> HIDE DEF S
<1>5. Min(S) \in S /\ Min(S) <= to /\ to <= Min(S)
  BY <1>3, <1>4, MinOfNats
<1> QED
  BY <1>3, <1>5 DEF S

\* FirstOf for the three classes, with the class as a set
LEMMA FirstOfClasses ==
  /\ \A from : /\ FirstOf(from, IsSpace) = Min({k \in from..i : k = i \/ At(k) \in {SP}})
               /\ FirstOf(from, IsCrlf) = Min({k \in from..i : k = i \/ At(k) \in CrlfBytes})
               /\ FirstOf(from, IsCrlfOrSpace) = Min({k \in from..i : k = i \/ At(k) \in BlankBytes})
  BY DEF FirstOf, IsSpace, IsCrlf, IsCrlfOrSpace, CrlfBytes, BlankBytes

\* So a word that ends at a space ends at the first one,
LEMMA FirstSpaceIs ==
  ASSUME IInv, NEW from \in Nat, NEW to \in Nat, Ends(from, to, {SP})
  PROVE  FirstOf(from, IsSpace) = to
<1>1. FirstOf(from, IsSpace) = Min({k \in from..i : k = i \/ At(k) \in {SP}})
  BY FirstOfClasses
<1>2. Min({k \in from..i : k = i \/ At(k) \in {SP}}) = to
  BY FirstOfEnds
<1> QED
  BY <1>1, <1>2

\* a line at the first CR or LF,
LEMMA FirstCrlfIs ==
  ASSUME IInv, NEW from \in Nat, NEW to \in Nat, Ends(from, to, CrlfBytes)
  PROVE  FirstOf(from, IsCrlf) = to
<1>1. FirstOf(from, IsCrlf) = Min({k \in from..i : k = i \/ At(k) \in CrlfBytes})
  BY FirstOfClasses
<1>2. Min({k \in from..i : k = i \/ At(k) \in CrlfBytes}) = to
  BY FirstOfEnds
<1> QED
  BY <1>1, <1>2

\* and a word that ends at any of them at the first of these.
LEMMA FirstBlankIs ==
  ASSUME IInv, NEW from \in Nat, NEW to \in Nat, Ends(from, to, BlankBytes)
  PROVE  FirstOf(from, IsCrlfOrSpace) = to
<1>1. FirstOf(from, IsCrlfOrSpace) = Min({k \in from..i : k = i \/ At(k) \in BlankBytes})
  BY FirstOfClasses
<1>2. Min({k \in from..i : k = i \/ At(k) \in BlankBytes}) = to
  BY FirstOfEnds
<1> QED
  BY <1>1, <1>2

\* What the invariant says of a request's line is what FirstLineIsAsSent says,
LEMMA RequestIsAsSent ==
  ASSUME IInv, FirstLineRead(TRUE), PastFirstLine, type = REQUEST
  PROVE  FirstLineIsAsSent
<1>1. PICK a, u, v \in 0..i :
        /\ LeadIs(a) /\ Ends(a, u, {SP}) /\ MethodIs(a, u)
        /\ Ends(u + 1, v, BlankBytes) /\ UriIs(u, v)
        /\ line.version = IF At(v) = SP THEN parse_version(v + 1, v + 9) ELSE V0_9
  BY DEF FirstLineRead, RequestLine
<1>2. i \in Nat /\ a \in Nat /\ u \in Nat /\ v \in Nat /\ u + 1 \in Nat
  BY <1>1, FieldTypes
<1>3. Lead = a
  BY <1>1, <1>2, LeadOf
<1>4. FirstOf(a, IsSpace) = u
  BY <1>1, <1>2, FirstSpaceIs
<1>5. FirstOf(u + 1, IsCrlfOrSpace) = v
  BY <1>1, <1>2, FirstBlankIs
<1>6. method = [k \in 1..(u - a) |-> Upper(At(a + k - 1))]
  <2>1. method \in Seq(Byte)
    BY DEF IInv, TypeOK
  <2>2. method = [k \in 1..Len(method) |-> method[k]]
    BY <2>1
  <2> QED
    BY <1>1, <2>2 DEF MethodIs
<1> QED
  BY <1>1, <1>3, <1>4, <1>5, <1>6 DEF FirstLineIsAsSent, UriIs

\* and of a response's.
LEMMA ResponseIsAsSent ==
  ASSUME IInv, FirstLineRead(TRUE), PastFirstLine, type # REQUEST
  PROVE  FirstLineIsAsSent
<1>1. PICK a, w \in 0..i :
        /\ LeadIs(a)
        /\ line.version = parse_version(a, a + 8)
        /\ Ends(a + 9, w, BlankBytes) /\ ThreeDigits(w)
        /\ IF At(w) = SP
             THEN \E e \in 0..i : Ends(w + 1, e, CrlfBytes)
                                  /\ line.message = [start |-> w + 1, end |-> e]
             ELSE line.message = NoSlice
  BY DEF FirstLineRead, StatusLine
<1>2. i \in Nat /\ a \in Nat /\ w \in Nat /\ a + 9 \in Nat
  BY <1>1, FieldTypes
<1>3. Lead = a
  BY <1>1, <1>2, LeadOf
<1>4. FirstOf(a + 9, IsCrlfOrSpace) = w
  BY <1>1, <1>2, FirstBlankIs
<1>5. line.message = IF At(w) = SP
                       THEN [start |-> w + 1, end |-> FirstOf(w, IsCrlf)]
                       ELSE NoSlice
  <2>1. CASE At(w) = SP
    <3>1. PICK e \in 0..i : /\ Ends(w + 1, e, CrlfBytes)
                            /\ line.message = [start |-> w + 1, end |-> e]
      BY <1>1, <2>1
    <3>2. At(w) \notin CrlfBytes
      BY <2>1 DEF CrlfBytes, SP, CR, LF
    <3>3. Ends(w, e, CrlfBytes)
      <4>1. e \in Nat /\ e \in (w + 1)..(i - 1) /\ e \in w..(i - 1)
        BY <1>2, <3>1 DEF Ends
      <4>2. \A k \in w..(e - 1) : k = w \/ k \in (w + 1)..(e - 1)
        BY <1>2, <4>1
      <4>3. /\ At(e) \in CrlfBytes
            /\ \A k \in (w + 1)..(e - 1) : At(k) \notin CrlfBytes
        BY <3>1 DEF Ends
      <4> QED
        BY <3>2, <4>1, <4>2, <4>3 DEF Ends
    <3>4. FirstOf(w, IsCrlf) = e
      <4>1. e \in Nat
        BY <1>2
      <4> QED
        BY <1>2, <3>3, <4>1, FirstCrlfIs
    <3> QED
      BY <2>1, <3>1, <3>4
  <2> QED
    BY <1>1, <2>1
<1> QED
  BY <1>1, <1>3, <1>4, <1>5 DEF FirstLineIsAsSent, ThreeDigits, Digit

\* Whatever the peer sends as a first line, in whichever pieces it arrives and
\* whichever calls have no room, the method, URI, version, status and reason
\* that the parser has recorded when it is past the line are those that the
\* line's bytes spell.  Of a request that is so even for a caller that calls
\* again after a malformed byte (which it cannot tell from a full buffer); of a
\* response such a caller is left out, since a status that is too large is
\* multiplied by ten once more.
THEOREM FirstLineIsCorrect ==
  ASSUME "syntax" \notin Retryable \/ RESPONSE \notin Types
  PROVE  Spec => []FirstLineIsAsSent
<1>1. Init => NotYetRecorded /\ FirstLineInv
  BY InitNotYet, NewMessage DEF Init
<1>2. IInv /\ NotYetRecorded /\ FirstLineInv /\ [Next]_vars
        => NotYetRecorded' /\ FirstLineInv'
  BY NextNotYet, NextFirstLine
<1>3. IInv /\ FirstLineInv => FirstLineIsAsSent
  <2>1. CASE PastFirstLine
    BY <2>1, RequestIsAsSent, ResponseIsAsSent DEF FirstLineInv, StatusIsKept
  <2>2. CASE ~PastFirstLine
    BY <2>2 DEF FirstLineIsAsSent
  <2> QED
    BY <2>1, <2>2
<1> QED
  BY <1>1, <1>2, <1>3, ReachableIInv, PTL DEF Spec

-----------------------------------------------------------------------------
(* The lines, as far as they have been read *)

Blank(from, to) == \A k \in from..(to - 1) : IsHtabOrSpace(At(k))

\* A line that begins at k has been read to its end: its name and its value
LineIs(k, n, v) ==
  \E c, s, t, e \in 0..i :
    /\ n = [start |-> k, end |-> c] /\ Ends(k, c, {COLON})
    /\ v = [start |-> s, end |-> t] /\ Ends(k, e, CrlfBytes)
    /\ c < s /\ s <= t /\ t <= e
    /\ Blank(c + 1, s) /\ Blank(t, e)
    /\ s = e \/ (s < t /\ ~IsHtabOrSpace(At(s)) /\ ~IsHtabOrSpace(At(t - 1)))

\* The offset of the byte that ended the first line
FirstLineEnds(e) ==
  IF type = REQUEST
    THEN \E a, u, v \in 0..i :
           /\ LeadIs(a) /\ Ends(a, u, {SP}) /\ Ends(u + 1, v, BlankBytes)
           /\ IF At(v) = SP THEN Ends(v + 1, e, BlankBytes) ELSE e = v
    ELSE \E a \in 0..i : LeadIs(a) /\ Ends(a + 9, e, CrlfBytes)

LinesStart(e) == IF At(e) = CR THEN e + 2 ELSE e + 1

\* Where the lines whose end has been read begin, the first of all at hs
StartsFrom(hs) ==
  {k \in hs..(i - 1) : /\ k = hs \/ At(k - 1) = LF
                       /\ ~IsCrlf(At(k))
                       /\ \E e \in k..(i - 1) : IsCrlf(At(e))}

\* The line that begins at c has not ended.
Open(hs, c) ==
  /\ hs <= c /\ c <= i
  /\ c = hs \/ At(c - 1) = LF
  /\ \A k \in c..(i - 1) : ~IsCrlf(At(k))

\* What has been read of the lines, the first of which begins at hs, by state
AfterCrlf(hs) ==
  \E l \in Nat : i = l + 1 /\ hs <= l + 2 /\ IsCrlf(At(l))

AtLine(hs) ==
  \E s \in Nat : s = i /\ Open(hs, s)

InName(hs) ==
  \E s \in Nat : name.start = s /\ s < i /\ Open(hs, s) /\ Lacks(s, {COLON})

InColon(hs) ==
  \E s, c \in Nat :
    /\ name = [start |-> s, end |-> c]
    /\ Open(hs, s) /\ Ends(s, c, {COLON}) /\ Blank(c + 1, i)

\* The value begins at v.
ValueFrom(hs, s, c, v) ==
  /\ v <= i /\ c < v
  /\ Open(hs, s) /\ Ends(s, c, {COLON}) /\ Blank(c + 1, v)
  /\ ~IsHtabOrSpace(At(v))

InValue(hs) ==
  \E s, c, v \in Nat :
    /\ name = [start |-> s, end |-> c] /\ cursor = v
    /\ ValueFrom(hs, s, c, v)

LineState(hs) ==
  /\ state \in {"CR", "LF2"} => AfterCrlf(hs)
  /\ state = "LF1"   => AtLine(hs)
  /\ state = "NAME"  => InName(hs)
  /\ state = "COLON" => InColon(hs)
  /\ state = "VALUE" => InValue(hs)

\* The store holds the lines that begin in the set.
LinesHeld(S) ==
  \E nm, val :
    /\ \A k \in S : LineIs(k, nm[k], val[k])
    /\ Holding(store, RowOf(S), nm, val)

HeadersRead ==
  /\ ~PastFirstLine /\ pc # "freed" => store = EmptyStore
  /\ PastFirstLine =>
       \E e, hs \in Nat :
         /\ FirstLineEnds(e) /\ hs = LinesStart(e)
         /\ LineState(hs)
         /\ pc # "freed" => LinesHeld(StartsFrom(hs))

-----------------------------------------------------------------------------
(* What has been read stays as it is *)

\* A line that has ended is not changed by the bytes behind it.
LEMMA LineStays ==
  ASSUME IInv, UNCHANGED stream, i' \in {i, i + 1},
         NEW k \in Nat, NEW n, NEW v, LineIs(k, n, v)
  PROVE  LineIs(k, n, v)'
<1>1. \A m : At(m)' = At(m)
  BY DEF At
<1>2. i \in Nat /\ (i' = i \/ i' = i + 1)
  BY FieldTypes
<1>3. \A from, to : Blank(from, to)' <=> Blank(from, to)
  BY <1>1 DEF Blank
<1>4. PICK c, s, t, e \in 0..i :
        /\ n = [start |-> k, end |-> c] /\ Ends(k, c, {COLON})
        /\ v = [start |-> s, end |-> t] /\ Ends(k, e, CrlfBytes)
        /\ c < s /\ s <= t /\ t <= e
        /\ Blank(c + 1, s) /\ Blank(t, e)
        /\ s = e \/ (s < t /\ ~IsHtabOrSpace(At(s)) /\ ~IsHtabOrSpace(At(t - 1)))
  BY DEF LineIs
<1>5. c \in Nat /\ e \in Nat /\ c \in 0..i' /\ s \in 0..i' /\ t \in 0..i' /\ e \in 0..i'
  BY <1>2
<1>6. Ends(k, c, {COLON})' /\ Ends(k, e, CrlfBytes)'
  BY <1>4, <1>5, FoundStays
<1> QED
  BY <1>1, <1>3, <1>4, <1>5, <1>6 DEF LineIs

\* Nor is the end of the first line.
LEMMA EndStays ==
  ASSUME IInv, UNCHANGED <<stream, type>>, i' \in {i, i + 1}, NEW e \in Nat, FirstLineEnds(e)
  PROVE  FirstLineEnds(e)'
<1>1. \A m : At(m)' = At(m)
  BY DEF At
<1>2. i \in Nat /\ (i' = i \/ i' = i + 1)
  BY FieldTypes
<1>3. CASE type = REQUEST
  <2>1. PICK a, u, v \in 0..i :
          /\ LeadIs(a) /\ Ends(a, u, {SP}) /\ Ends(u + 1, v, BlankBytes)
          /\ IF At(v) = SP THEN Ends(v + 1, e, BlankBytes) ELSE e = v
    BY <1>3 DEF FirstLineEnds
  <2>2. /\ a \in Nat /\ u \in Nat /\ v \in Nat
        /\ u + 1 \in Nat /\ v + 1 \in Nat
        /\ a \in 0..i' /\ u \in 0..i' /\ v \in 0..i'
    BY <1>2
  <2>3. LeadIs(a)' /\ Ends(a, u, {SP})' /\ Ends(u + 1, v, BlankBytes)'
    BY <2>1, <2>2, FoundStays
  <2>4. At(v) = SP => Ends(v + 1, e, BlankBytes)'
    BY <2>1, <2>2, FoundStays
  <2> QED
    BY <1>1, <1>3, <2>1, <2>2, <2>3, <2>4 DEF FirstLineEnds
<1>4. CASE type # REQUEST
  <2>1. PICK a \in 0..i : LeadIs(a) /\ Ends(a + 9, e, CrlfBytes)
    BY <1>4 DEF FirstLineEnds
  <2>2. a \in Nat /\ a + 9 \in Nat /\ a \in 0..i'
    BY <1>2
  <2>3. LeadIs(a)' /\ Ends(a + 9, e, CrlfBytes)'
    BY <2>1, <2>2, FoundStays
  <2> QED
    BY <1>4, <2>2, <2>3 DEF FirstLineEnds
<1> QED
  BY <1>3, <1>4

\* No line has ended unless a CR or LF is read,
LEMMA StartsStay ==
  ASSUME IInv, UNCHANGED stream, i' = i + 1, NEW hs \in Nat,
         \/ ~IsCrlf(Ch)
         \/ i <= hs
         \/ 0 < i /\ IsCrlf(At(i - 1))
  PROVE  StartsFrom(hs)' = StartsFrom(hs)
<1>1. \A m : At(m)' = At(m)
  BY DEF At
<1>2. i \in Nat /\ Ch = At(i)
  BY FieldTypes DEF Ch
<1>3. ASSUME NEW k \in Nat, hs <= k, k <= i, ~IsCrlf(At(k))
      PROVE  (\E e \in k..i : IsCrlf(At(e))) => (\E e \in k..(i - 1) : IsCrlf(At(e)))
  <2> SUFFICES ASSUME NEW e \in k..i, IsCrlf(At(e)) PROVE \E f \in k..(i - 1) : IsCrlf(At(f))
    OBVIOUS
  <2>1. CASE e # i
    BY <1>2, <2>1
  <2>2. CASE e = i
    <3>1. k # i /\ hs < i
      BY <1>2, <1>3, <2>2
    <3>2. 0 < i /\ IsCrlf(At(i - 1))
      BY <1>2, <2>2, <3>1
    <3> QED
      BY <1>2, <1>3, <3>1, <3>2
  <2> QED
    BY <2>1, <2>2
<1>4. ASSUME NEW k \in Nat
      PROVE  k \in StartsFrom(hs)' <=> k \in StartsFrom(hs)
  <2>1. k \in StartsFrom(hs)' <=>
          /\ k \in hs..i
          /\ k = hs \/ At(k - 1) = LF
          /\ ~IsCrlf(At(k))
          /\ \E e \in k..i : IsCrlf(At(e))
    BY <1>1, <1>2 DEF StartsFrom
  <2>2. k \in StartsFrom(hs) <=>
          /\ k \in hs..(i - 1)
          /\ k = hs \/ At(k - 1) = LF
          /\ ~IsCrlf(At(k))
          /\ \E e \in k..(i - 1) : IsCrlf(At(e))
    BY DEF StartsFrom
  <2> QED
    BY <1>2, <1>3, <2>1, <2>2
<1>5. StartsFrom(hs)' \in SUBSET Nat /\ StartsFrom(hs) \in SUBSET Nat
  BY <1>2 DEF StartsFrom
<1> QED
  BY <1>4, <1>5

\* and then it is the open one, which is behind all that have.
LEMMA StartsGrow ==
  ASSUME IInv, UNCHANGED stream, i' = i + 1, NEW hs \in Nat, IsCrlf(Ch),
         NEW c \in Nat, c < i, Open(hs, c)
  PROVE  /\ StartsFrom(hs)' = StartsFrom(hs) \cup {c}
         /\ \A k \in StartsFrom(hs) : k < c
<1>1. \A m : At(m)' = At(m)
  BY DEF At
<1>2. i \in Nat /\ Ch = At(i)
  BY FieldTypes DEF Ch
<1>3. /\ hs <= c
      /\ c = hs \/ At(c - 1) = LF
      /\ \A k \in c..(i - 1) : ~IsCrlf(At(k))
  BY DEF Open
<1>4. ASSUME NEW k \in StartsFrom(hs) PROVE k < c
  <2>1. PICK e \in k..(i - 1) : IsCrlf(At(e))
    BY DEF StartsFrom
  <2>2. k \in Nat
    BY <1>2 DEF StartsFrom
  <2> QED
    BY <1>2, <1>3, <2>1, <2>2
<1>5. ASSUME NEW k \in Nat
      PROVE  k \in StartsFrom(hs)' <=> k \in StartsFrom(hs) \/ k = c
  <2>1. k \in StartsFrom(hs)' <=>
          /\ k \in hs..i
          /\ k = hs \/ At(k - 1) = LF
          /\ ~IsCrlf(At(k))
          /\ \E e \in k..i : IsCrlf(At(e))
    BY <1>1, <1>2 DEF StartsFrom
  <2>2. k \in StartsFrom(hs) <=>
          /\ k \in hs..(i - 1)
          /\ k = hs \/ At(k - 1) = LF
          /\ ~IsCrlf(At(k))
          /\ \E e \in k..(i - 1) : IsCrlf(At(e))
    BY DEF StartsFrom
  <2>3. k \in StartsFrom(hs) => k \in StartsFrom(hs)'
    BY <1>2, <2>1, <2>2
  <2>4. c \in StartsFrom(hs)'
    <3>1. c \in hs..i /\ ~IsCrlf(At(c)) /\ i \in c..i
      BY <1>2, <1>3
    <3>2. \E e \in c..i : IsCrlf(At(e))
      BY <1>2, <3>1
    <3> QED
      BY <1>1, <1>2, <1>3, <3>1, <3>2 DEF StartsFrom
  <2>5. ASSUME k \in StartsFrom(hs)', k \notin StartsFrom(hs) PROVE k = c
    <3>1. /\ k \in hs..i
          /\ k = hs \/ At(k - 1) = LF
          /\ ~IsCrlf(At(k))
      BY <2>1, <2>5
    <3>2. k < i
      BY <1>2, <3>1
    <3>3. \A e \in k..(i - 1) : ~IsCrlf(At(e))
      BY <1>2, <2>2, <2>5, <3>1, <3>2
    <3>4. ~(k < c)
      <4> SUFFICES ASSUME k < c PROVE FALSE
        OBVIOUS
      <4>1. At(c - 1) = LF /\ c - 1 \in k..(i - 1)
        BY <1>2, <1>3, <3>1
      <4> QED
        BY <3>3, <4>1 DEF IsCrlf
    <3>5. ~(c < k)
      <4> SUFFICES ASSUME c < k PROVE FALSE
        OBVIOUS
      <4>1. At(k - 1) = LF /\ k - 1 \in c..(i - 1)
        BY <1>2, <1>3, <3>1, <3>2
      <4> QED
        BY <1>3, <4>1 DEF IsCrlf
    <3> QED
      BY <3>4, <3>5
  <2> QED
    BY <2>3, <2>4, <2>5
<1>6. StartsFrom(hs)' \in SUBSET Nat /\ StartsFrom(hs) \cup {c} \in SUBSET Nat
  BY <1>2 DEF StartsFrom
<1> QED
  BY <1>4, <1>5, <1>6

-----------------------------------------------------------------------------
(* The end of the first line *)

\* A version that is known has no blank in it.
LEMMA VersionHasNoBlank ==
  ASSUME IInv, NEW from \in Nat, from <= i, i <= Len(stream),
         parse_version(from, i) # V_UNKNOWN
  PROVE  \A k \in from..(i - 1) : At(k) \notin BlankBytes
<1> DEFINE text == SubSeq(stream, from + 1, i)
<1>1. stream \in Seq(Byte) /\ Len(stream) \in Nat /\ i \in Nat
  BY StreamsAssumption, FieldTypes DEF IInv, TypeOK
<1>2. i = from + 8
  BY VersionLength
<1>3. \A n \in 1..8 : text[n] = stream[from + n]
  BY <1>1, <1>2
<1>4. \/ text = VersionText(48, 57)
      \/ text = VersionText(49, 48)
      \/ text = VersionText(49, 49)
  BY DEF parse_version
<1> HIDE DEF text
<1>5. ASSUME NEW n \in 1..8 PROVE text[n] \notin BlankBytes
  <2>1. \/ n = 1 \/ n = 2 \/ n = 3 \/ n = 4
        \/ n = 5 \/ n = 6 \/ n = 7 \/ n = 8
    OBVIOUS
  <2>2. ASSUME NEW d, NEW m, d \in {48, 49}, m \in {48, 49, 57}, text = VersionText(d, m)
        PROVE  text[n] \in {72, 84, 80, 47, 46, 48, 49, 57}
    <3>1. text[n] = VersionText(d, m)[n]
      BY <2>2
    <3>2. VersionText(d, m)[n] \in {72, 84, 80, 47, 46, d, m}
      BY <2>1 DEF VersionText
    <3> QED
      BY <2>2, <3>1, <3>2
  <2>3. text[n] \in {72, 84, 80, 47, 46, 48, 49, 57}
    BY <1>4, <2>2
  <2> QED
    BY <2>3 DEF BlankBytes, CR, LF, SP
<1>6. ASSUME NEW k \in from..(i - 1) PROVE At(k) \notin BlankBytes
  <2>1. PICK n \in 1..8 : k + 1 = from + n
    <3>1. k + 1 - from \in 1..8
      BY <1>1, <1>2
    <3> QED
      BY <3>1
  <2> QED
    BY <1>3, <1>5, <2>1 DEF At
<1> QED
  BY <1>6

\* The iteration that ends a request's line
LEMMA RequestEndRead ==
  ASSUME IInv, FirstLineRead(FALSE), ParseUri \/ ParseVersion, type = REQUEST, PastFirstLine'
  PROVE  /\ i' = i + 1 /\ state' = EndOfLine
         /\ \A e \in Nat : e = i => FirstLineEnds(e)'
<1>0. i \in Nat /\ UNCHANGED <<stream, type>>
  BY FieldTypes DEF ParseUri, ParseVersion, Outside, peer
<1>1. \A m : At(m)' = At(m)
  BY <1>0 DEF At
<1>2. CASE ParseUri
  <2>1. /\ i' = i + 1 /\ state' = EndOfLine /\ state = "URI"
        /\ IsCrlf(Ch)
    BY <1>2 DEF ParseUri, Reading, Continue, Fail, PastFirstLine
  <2>2. PICK a, u \in 0..i :
          LeadIs(a) /\ Ends(a, u, {SP}) /\ Lacks(u + 1, BlankBytes)
    BY <2>1 DEF FirstLineRead, InUri
  <2>3. /\ a \in Nat /\ u \in Nat /\ u + 1 \in Nat
        /\ a \in 0..i' /\ u \in 0..i' /\ LeadIs(a)' /\ Ends(a, u, {SP})'
    BY <1>0, <2>1, <2>2, FoundStays
  <2>4. ASSUME NEW e \in Nat, e = i PROVE FirstLineEnds(e)'
    <3>1. Ch \in BlankBytes /\ Ch # SP
      BY <2>1 DEF IsCrlf, BlankBytes, CR, LF, SP
    <3>2. Ends(u + 1, e, BlankBytes)' /\ e \in 0..i'
      BY <1>0, <2>1, <2>2, <2>3, <2>4, <3>1, ReadOn
    <3>3. At(e)' # SP
      BY <1>1, <2>4, <3>1 DEF Ch
    <3> QED
      BY <1>0, <2>3, <3>2, <3>3 DEF FirstLineEnds
  <2> QED
    BY <2>1, <2>4
<1>3. CASE ParseVersion
  <2>1. /\ i' = i + 1 /\ state' = EndOfLine /\ state = "VERSION" /\ BytesLeft
        /\ IsCrlfOrSpace(Ch) /\ parse_version(cursor, i) # V_UNKNOWN
    BY <1>3 DEF ParseVersion, Reading, Continue, Fail, PastFirstLine
  <2>2. PICK a, u, v \in 0..i :
          /\ LeadIs(a) /\ Ends(a, u, {SP}) /\ Ends(u + 1, v, BlankBytes)
          /\ At(v) = SP /\ cursor = v + 1
    BY <2>1 DEF FirstLineRead, InVersion
  <2>3. /\ a \in Nat /\ u \in Nat /\ v \in Nat /\ u + 1 \in Nat /\ v + 1 \in Nat
        /\ a \in 0..i' /\ u \in 0..i' /\ v \in 0..i'
        /\ LeadIs(a)' /\ Ends(a, u, {SP})' /\ Ends(u + 1, v, BlankBytes)'
    BY <1>0, <2>1, <2>2, FoundStays
  <2>4. Lacks(v + 1, BlankBytes)
    <3>1. i < Len(stream) /\ Len(stream) \in Nat
      BY <2>1, ByteThere, StreamsAssumption DEF IInv, TypeOK
    <3>2. v + 1 <= i
      BY <2>2, FieldTypes
    <3>3. \A k \in (v + 1)..(i - 1) : At(k) \notin BlankBytes
      BY <1>0, <2>1, <2>2, <2>3, <3>1, <3>2, VersionHasNoBlank
    <3> QED
      BY <3>2, <3>3 DEF Lacks
  <2>5. ASSUME NEW e \in Nat, e = i PROVE FirstLineEnds(e)'
    <3>1. Ch \in BlankBytes
      BY <2>1 DEF IsCrlfOrSpace, BlankBytes
    <3>2. Ends(v + 1, e, BlankBytes)'
      BY <1>0, <2>1, <2>3, <2>4, <2>5, <3>1, ReadOn
    <3> QED
      BY <1>0, <1>1, <2>2, <2>3, <3>2 DEF FirstLineEnds
  <2> QED
    BY <2>1, <2>5
<1> QED
  BY <1>2, <1>3

\* and a response's.
LEMMA ResponseEndRead ==
  ASSUME IInv, FirstLineRead(FALSE), ParseStatus \/ ParseMessage, type # REQUEST, PastFirstLine'
  PROVE  /\ i' = i + 1 /\ state' = EndOfLine
         /\ \A e \in Nat : e = i => FirstLineEnds(e)'
<1>0. i \in Nat /\ UNCHANGED <<stream, type>>
  BY FieldTypes DEF ParseStatus, ParseMessage, Outside, peer
<1>1. /\ i' = i + 1 /\ state' = EndOfLine /\ IsCrlf(Ch)
      /\ state = "STATUS" \/ state = "MESSAGE"
  BY DEF ParseStatus, AppendToStatus, ParseMessage, Reading, Continue, Fail, PastFirstLine
<1>2. PICK a \in 0..i : LeadIs(a) /\ Lacks(a + 9, CrlfBytes)
  <2>1. CASE state = "STATUS"
    <3>1. PICK a \in 0..i : LeadIs(a) /\ Lacks(a + 9, BlankBytes)
      BY <2>1 DEF FirstLineRead, InStatus
    <3>2. Lacks(a + 9, CrlfBytes)
      BY <3>1 DEF Lacks, BlankBytes, CrlfBytes
    <3> QED
      BY <3>1, <3>2
  <2>2. CASE state = "MESSAGE"
    <3>1. PICK a, w \in 0..i :
            /\ LeadIs(a) /\ Ends(a + 9, w, BlankBytes) /\ At(w) = SP
            /\ Lacks(w + 1, CrlfBytes)
      BY <2>2 DEF FirstLineRead, InMessage
    <3>2. /\ w \in (a + 9)..(i - 1)
          /\ \A k \in (a + 9)..(w - 1) : At(k) \notin BlankBytes
          /\ w + 1 <= i /\ \A k \in (w + 1)..(i - 1) : At(k) \notin CrlfBytes
      BY <3>1 DEF Ends, Lacks
    <3>3. At(w) \notin CrlfBytes
      BY <3>1 DEF CrlfBytes, CR, LF, SP
    <3>4. \A k \in (a + 9)..(i - 1) :
            k \in (a + 9)..(w - 1) \/ k = w \/ k \in (w + 1)..(i - 1)
      BY <1>0, <3>2
    <3>5. \A k \in (a + 9)..(w - 1) : At(k) \notin CrlfBytes
      BY <3>2 DEF BlankBytes, CrlfBytes
    <3>6. a + 9 <= i
      BY <1>0, <3>2
    <3> QED
      BY <3>1, <3>2, <3>3, <3>4, <3>5, <3>6 DEF Lacks
  <2> QED
    BY <1>1, <2>1, <2>2
<1>3. a \in Nat /\ a + 9 \in Nat /\ a \in 0..i' /\ LeadIs(a)'
  BY <1>0, <1>1, <1>2, FoundStays
<1>4. ASSUME NEW e \in Nat, e = i PROVE FirstLineEnds(e)'
  <2>1. Ch \in CrlfBytes
    BY <1>1 DEF IsCrlf, CrlfBytes
  <2>2. Ends(a + 9, e, CrlfBytes)'
    BY <1>0, <1>1, <1>2, <1>3, <1>4, <2>1, ReadOn
  <2> QED
    BY <1>0, <1>3, <2>2 DEF FirstLineEnds
<1> QED
  BY <1>1, <1>4

\* The iteration that ends the first line, whichever it is
LEMMA FirstLineEnded ==
  ASSUME IInv, FirstLineRead(FALSE), HeadersRead, ParseByte, ~PastFirstLine, PastFirstLine'
  PROVE  HeadersRead'
<1>1. /\ i' = i + 1 /\ state' = EndOfLine
      /\ \A e \in Nat : e = i => FirstLineEnds(e)'
  <2>1. /\ ParseVersion => state = "VERSION"
        /\ ParseUri => state = "URI"
        /\ ParseStatus => state = "STATUS"
        /\ ParseMessage => state = "MESSAGE"
        /\ UNCHANGED type
    BY ByteState, ByteMovesIndex
  <2>2. ParseUri \/ ParseVersion \/ ParseStatus \/ ParseMessage
    <3>1. ~ParseStart /\ ~ParseMethod
      BY DEF ParseStart, ParseMethod, InsertMethodChar, Continue, Fail, PastFirstLine
    <3> QED
      BY <3>1, ByteState DEF ParseByte
  <2>3. /\ state = "URI" => type = REQUEST
        /\ state \in {"STATUS", "MESSAGE"} => type # REQUEST
    BY DEF FirstLineRead
  <2>4. ParseVersion => type = REQUEST
    BY DEF ParseVersion, Continue, Fail, PastFirstLine
  <2> QED
    BY <2>1, <2>2, <2>3, <2>4, RequestEndRead, ResponseEndRead
<1>2. i \in Nat /\ UNCHANGED stream
  BY FieldTypes, ByteMovesIndex
<1>3. PICK e \in Nat : e = i
  BY <1>2
<1>4. At(e)' = Ch
  BY <1>2, <1>3 DEF At, Ch
<1>5. PICK hs \in Nat : hs = LinesStart(e)' /\ hs = IF Ch = CR THEN e + 2 ELSE e + 1
  BY <1>2, <1>3, <1>4 DEF LinesStart
<1>6. LineState(hs)'
  <2>1. CASE Ch = CR
    <3>1. state' = "CR" /\ IsCrlf(At(e)')
      BY <1>1, <1>4, <2>1 DEF EndOfLine, IsCrlf
    <3>2. AfterCrlf(hs)'
      BY <1>1, <1>3, <1>5, <2>1, <3>1 DEF AfterCrlf
    <3> QED
      BY <3>1, <3>2 DEF LineState
  <2>2. CASE Ch # CR
    <3>1. state' = "LF1" /\ hs = i'
      BY <1>1, <1>3, <1>5, <2>2 DEF EndOfLine
    <3>2. Open(hs, hs)'
      BY <1>1, <1>2, <3>1 DEF Open
    <3>3. AtLine(hs)'
      BY <3>1, <3>2 DEF AtLine
    <3> QED
      BY <3>1, <3>3 DEF LineState
  <2> QED
    BY <2>1, <2>2
<1>7. LinesHeld(StartsFrom(hs))'
  <2>1. StartsFrom(hs)' = {}
    BY <1>1, <1>2, <1>3, <1>5 DEF StartsFrom
  <2>2. store' = EmptyStore
    <3>1. UNCHANGED store /\ pc # "freed"
      BY ByteEnds, ByteState DEF ParseByte, ParseStart, ParseMethod, ParseUri, ParseVersion,
         ParseStatus, ParseMessage
    <3> QED
      BY <3>1 DEF HeadersRead
  <2>3. DOMAIN RowOf(StartsFrom(hs))' = {}
    BY <2>1 DEF RowOf
  <2>4. Holding(store', RowOf(StartsFrom(hs))', <<>>, <<>>)
    BY <2>2, <2>3, EmptyHolds DEF EmptyStore
  <2>5. Holding(store, RowOf(StartsFrom(hs)), <<>>, <<>>)'
    BY <2>4 DEF Holding
  <2> QED
    BY <2>1, <2>5 DEF LinesHeld
<1> QED
  BY <1>1, <1>3, <1>5, <1>6, <1>7 DEF HeadersRead

-----------------------------------------------------------------------------
(* The iterations of the header lines *)

\* An iteration that stores nothing and in which no line ends
LEMMA HeldStays ==
  ASSUME IInv, UNCHANGED <<stream, store>>, i' \in {i, i + 1}, NEW hs \in Nat,
         StartsFrom(hs)' = StartsFrom(hs), LinesHeld(StartsFrom(hs))
  PROVE  LinesHeld(StartsFrom(hs))'
<1> DEFINE S == StartsFrom(hs)
<1>1. PICK nm, val : /\ \A k \in S : LineIs(k, nm[k], val[k])
                     /\ Holding(store, RowOf(S), nm, val)
  BY DEF LinesHeld
<1>2. S \in SUBSET Nat
  BY FieldTypes DEF StartsFrom
<1> HIDE DEF S
<1>3. ASSUME NEW k \in S PROVE LineIs(k, nm[k], val[k])'
  BY <1>1, <1>2, <1>3, LineStays
<1>4. RowOf(S)' = RowOf(S) /\ S' = S
  BY DEF RowOf, S
<1>5. Holding(store, RowOf(S), nm, val)'
  BY <1>1, <1>4 DEF Holding
<1> QED
  BY <1>3, <1>4, <1>5 DEF LinesHeld, S

\* The rows of a set of lines
LEMMA RowsType ==
  ASSUME NEW S
  PROVE  RowOf(S) \in [S -> KnownHeaders \cup {UNKNOWN}]
  BY LookupType DEF RowOf

\* A line that ends is stored: the store holds it too.
LEMMA HeldGrows ==
  ASSUME IInv, UNCHANGED stream, i' = i + 1, IsCrlf(Ch),
         NEW hs \in Nat, NEW c \in Nat, c < i, Open(hs, c),
         LinesHeld(StartsFrom(hs)),
         NEW n, NEW v, LineIs(c, n, v)',
         LET header == http_header_lookup(stream, c)
         IN  \/ ~Spills(store, header) /\ store' = SetSlot(store, header, v)
             \/ Spills(store, header) /\ store' = xheaders_insert(store, n, v)
  PROVE  LinesHeld(StartsFrom(hs))'
<1> DEFINE S    == StartsFrom(hs)
           row  == RowOf(S)
           T    == S \cup {c}
           more == RowOf(T)
<1>1. S' = T /\ \A k \in S : k < c
  BY StartsGrow
<1>2. PICK nm, val : /\ \A k \in S : LineIs(k, nm[k], val[k])
                     /\ Holding(store, row, nm, val)
  BY DEF LinesHeld
<1>0. PICK names, values :
        /\ names  = [k \in T |-> IF k = c THEN n ELSE nm[k]]
        /\ values = [k \in T |-> IF k = c THEN v ELSE val[k]]
  OBVIOUS
<1>3. S \in SUBSET Nat /\ IsFiniteSet(S)
  <2>1. i \in Nat
    BY FieldTypes
  <2>2. S \in SUBSET (hs..(i - 1))
    BY DEF StartsFrom
  <2>3. IsFiniteSet(hs..(i - 1))
    BY <2>1, FS_Interval
  <2> QED
    BY <2>1, <2>2, <2>3, FS_Subset
<1> HIDE DEF S
<1>4. OneMore(S, c, row, more)
  <2>1. \A k \in S : more[k] = row[k]
    BY DEF RowOf
  <2> QED
    BY <1>1, <1>3, <2>1, RowsType DEF OneMore
<1>5. /\ \A k \in S : names[k] = nm[k] /\ values[k] = val[k]
      /\ names[c] = n /\ values[c] = v
  BY <1>0, <1>1, <1>3
<1>6. ASSUME NEW k \in S PROVE val[k].start # 0
  <2>0. LineIs(k, nm[k], val[k])
    BY <1>2, <1>6
  <2>1. PICK d, s \in 0..i : d < s /\ val[k].start = s
    BY <2>0 DEF LineIs
  <2> QED
    BY <2>1, FieldTypes
<1>7. more[c] = http_header_lookup(stream, c) /\ more[c] \in KnownHeaders \cup {UNKNOWN}
  BY LookupType DEF RowOf
<1>8. Spills(store, more[c]) <=>
        more[c] = UNKNOWN \/ (more[c] \in Repeatable /\ LinesOf(row, more[c]) # {})
  <2>1. DOMAIN row = S
    BY DEF RowOf
  <2> HIDE DEF row, more
  <2> QED
    BY <1>2, <1>3, <1>6, <1>7, <2>1, SpillsIf
<1>9. store \in Stores
  BY FieldTypes
<1>10. Holding(store', more, names, values)
  <2>1. CASE ~Spills(store, more[c])
    <3>1. store' = SetSlot(store, more[c], values[c])
      BY <1>5, <1>7, <2>1
    <3>2. /\ more[c] # UNKNOWN
          /\ more[c] \notin Repeatable \/ LinesOf(row, more[c]) = {}
      BY <1>8, <2>1
    <3> HIDE DEF row, more
    <3> QED
      BY <1>2, <1>4, <1>5, <1>9, <3>1, <3>2, SlotHolds
  <2>2. CASE Spills(store, more[c])
    <3>1. store' = xheaders_insert(store, names[c], values[c])
      BY <1>5, <1>7, <2>2
    <3>2. \/ more[c] = UNKNOWN
          \/ more[c] \in Repeatable /\ LinesOf(row, more[c]) # {}
      BY <1>8, <2>2
    <3> HIDE DEF row, more
    <3> QED
      BY <1>2, <1>4, <1>5, <1>9, <3>1, <3>2, ListHolds
  <2> QED
    BY <2>1, <2>2
<1>11. ASSUME NEW k \in T PROVE LineIs(k, names[k], values[k])'
  <2>1. CASE k = c
    <3>1. names[k] = n /\ values[k] = v
      BY <1>5, <2>1
    <3>2. LineIs(k, n, v)'
      BY <2>1
    <3> QED
      BY <3>1, <3>2
  <2>2. CASE k # c
    <3>1. k \in S /\ k \in Nat
      BY <1>3, <2>2
    <3>2. LineIs(k, nm[k], val[k])'
      BY <1>2, <3>1, LineStays
    <3>3. names[k] = nm[k] /\ values[k] = val[k]
      BY <1>5, <3>1
    <3> QED
      BY <3>2, <3>3
  <2> QED
    BY <2>1, <2>2
<1>12. RowOf(S)' = more
  BY <1>1 DEF RowOf
<1>13. Holding(store, RowOf(S), names, values)'
  <2> HIDE DEF more
  <2> QED
    BY <1>10, <1>12 DEF Holding
<1>14. \A k \in S' : LineIs(k, names[k], values[k])'
  BY <1>1, <1>11
<1>15. LinesHeld(S)'
  BY <1>13, <1>14 DEF LinesHeld
<1> QED
  BY <1>15 DEF S

\* The value that ValueByte stores is that of the line it has read.
LEMMA LineRead ==
  ASSUME IInv, UNCHANGED stream, i' = i + 1, IsCrlf(Ch),
         NEW hs \in Nat, NEW k \in Nat, NEW c \in Nat, NEW s \in Nat,
         ValueFrom(hs, k, c, s),
         NEW v, v = Slice(s, RTrim(s, i))
  PROVE  LineIs(k, [start |-> k, end |-> c], v)'
<1>0. /\ i \in Nat /\ i \in 0..SHRT_MAX /\ SHRT_MAX \in Nat
      /\ s <= i
  BY FieldTypes DEF ValueFrom
<1>1. \A m : At(m)' = At(m)
  BY DEF At
<1>2. PICK t, e \in Nat : t = RTrim(s, i) /\ e = i
  <2>1. RTrim(s, i) \in s..i
    BY <1>0, RTrimRange
  <2> QED
    BY <1>0, <2>1
<1>3. /\ s <= t /\ t <= e
      /\ \A m \in t..(e - 1) : IsHtabOrSpace(At(m))
      /\ t = s \/ ~IsHtabOrSpace(At(t - 1))
  <2>1. /\ RTrim(s, i) \in s..i
        /\ \A m \in RTrim(s, i)..(i - 1) : IsHtabOrSpace(At(m))
        /\ RTrim(s, i) = s \/ ~IsHtabOrSpace(At(RTrim(s, i) - 1))
    BY <1>0, RTrimRange
  <2> QED
    BY <1>0, <1>2, <2>1
<1>4. s = e \/ (s < t /\ ~IsHtabOrSpace(At(s)) /\ ~IsHtabOrSpace(At(t - 1)))
  <2>1. ~IsHtabOrSpace(At(s))
    BY DEF ValueFrom
  <2>2. ASSUME s # e, t = s PROVE FALSE
    <3>1. s \in t..(e - 1)
      BY <1>3, <2>2
    <3> QED
      BY <1>3, <2>1, <3>1
  <2> QED
    BY <1>3, <2>1, <2>2
<1>5. v = [start |-> s, end |-> t]
  <2>1. s \in 0..SHRT_MAX /\ t \in 0..SHRT_MAX
    BY <1>0, <1>2, <1>3
  <2> QED
    BY <1>2, <2>1, SliceOfOffsets
<1>6. c < s /\ Ends(k, c, {COLON}) /\ Open(hs, k) /\ Blank(c + 1, s)
  BY DEF ValueFrom
<1>7. c \in 0..i' /\ s \in 0..i' /\ t \in 0..i' /\ e \in 0..i'
  BY <1>0, <1>2, <1>3, <1>6
<1>8. Ends(k, c, {COLON})'
  BY <1>6, FoundStays
<1>9. Ends(k, e, CrlfBytes)'
  <2>1. Lacks(k, CrlfBytes)
    BY <1>0, <1>6 DEF Open, Lacks, IsCrlf, CrlfBytes
  <2>2. Ch \in CrlfBytes
    BY DEF IsCrlf, CrlfBytes
  <2> QED
    BY <1>2, <2>1, <2>2, ReadOn
<1>10. Blank(c + 1, s)' /\ Blank(t, e)'
  BY <1>1, <1>3, <1>6 DEF Blank
<1> QED
  BY <1>1, <1>3, <1>4, <1>5, <1>6, <1>7, <1>8, <1>9, <1>10 DEF LineIs

\* A line stays open over a byte that is neither CR nor LF.
LEMMA OpenStays ==
  ASSUME IInv, UNCHANGED stream, i' = i \/ (i' = i + 1 /\ ~IsCrlf(Ch)),
         NEW hs \in Nat, NEW c \in Nat, Open(hs, c)
  PROVE  Open(hs, c)'
<1>1. \A m : At(m)' = At(m)
  BY DEF At
<1>2. i \in Nat /\ Ch = At(i)
  BY FieldTypes DEF Ch
<1>3. /\ hs <= c /\ c <= i
      /\ c = hs \/ At(c - 1) = LF
      /\ \A k \in c..(i - 1) : ~IsCrlf(At(k))
  BY DEF Open
<1>4. c <= i'
  BY <1>2, <1>3
<1>5. ASSUME NEW k \in c..(i' - 1) PROVE ~IsCrlf(At(k))
  <2>1. k \in c..(i - 1) \/ (k = i /\ i' = i + 1)
    BY <1>2
  <2> QED
    BY <1>2, <1>3, <2>1
<1> QED
  BY <1>1, <1>3, <1>4, <1>5 DEF Open

\* A step that reads no byte leaves the lines that have ended.
LEMMA StartsSame ==
  ASSUME UNCHANGED <<stream, i>>, NEW hs
  PROVE  StartsFrom(hs)' = StartsFrom(hs)
<1>1. \A m : At(m)' = At(m)
  BY DEF At
<1> QED
  BY <1>1 DEF StartsFrom

\* Nor does it change what has been read of an unfinished one.
LEMMA NothingMoves ==
  ASSUME UNCHANGED <<stream, state, i, cursor, name>>, NEW hs, LineState(hs)
  PROVE  LineState(hs)'
<1>1. \A m : At(m)' = At(m)
  BY DEF At
<1>2. \A c : Open(hs, c)' <=> Open(hs, c)
  BY <1>1 DEF Open
<1>3. \A from, to : Blank(from, to)' <=> Blank(from, to)
  BY <1>1 DEF Blank
<1>4. \A from, to, bytes : /\ Ends(from, to, bytes)' <=> Ends(from, to, bytes)
                           /\ Lacks(from, bytes)' <=> Lacks(from, bytes)
  BY <1>1 DEF Ends, Lacks
<1>5. \A s, c, v : ValueFrom(hs, s, c, v)' <=> ValueFrom(hs, s, c, v)
  BY <1>1, <1>2, <1>3, <1>4 DEF ValueFrom
<1>6. (AfterCrlf(hs) => AfterCrlf(hs)') /\ (AtLine(hs) => AtLine(hs)')
  BY <1>1, <1>2 DEF AfterCrlf, AtLine
<1>7. InName(hs) => InName(hs)'
  BY <1>2, <1>4 DEF InName
<1>8. InColon(hs) => InColon(hs)'
  <2> SUFFICES ASSUME InColon(hs) PROVE InColon(hs)'
    OBVIOUS
  <2>1. PICK s, c \in Nat :
          /\ name = [start |-> s, end |-> c]
          /\ Open(hs, s) /\ Ends(s, c, {COLON}) /\ Blank(c + 1, i)
    BY DEF InColon
  <2>2. Blank(c + 1, i)'
    BY <1>1, <2>1 DEF Blank
  <2> QED
    BY <1>2, <1>4, <2>1, <2>2 DEF InColon
<1>9. InValue(hs) => InValue(hs)'
  BY <1>5 DEF InValue
<1> QED
  BY <1>6, <1>7, <1>8, <1>9 DEF LineState

\* The byte of a value, or the one that ends it and has the line stored
LEMMA ValueByteRead ==
  ASSUME IInv, UNCHANGED <<stream, name>>,
         NEW hs \in Nat, NEW k \in Nat, NEW c \in Nat, NEW s \in Nat,
         name = [start |-> k, end |-> c], cursor' = s,
         ValueFrom(hs, k, c, s), ValueByte(s),
         LinesHeld(StartsFrom(hs))
  PROVE  LineState(hs)' /\ LinesHeld(StartsFrom(hs))'
<1>0. /\ i \in Nat
      /\ s <= i /\ c < s /\ Open(hs, k) /\ Ends(k, c, {COLON}) /\ Blank(c + 1, s)
      /\ ~IsHtabOrSpace(At(s))
  BY FieldTypes DEF ValueFrom
<1>1. \A m : At(m)' = At(m)
  BY DEF At
<1>2. ASSUME i' = i \/ (i' = i + 1 /\ ~IsCrlf(Ch)), state' = "VALUE", UNCHANGED store
      PROVE  LineState(hs)' /\ LinesHeld(StartsFrom(hs))'
  <2>1. Open(hs, k)'
    BY <1>0, <1>2, OpenStays
  <2>2. Ends(k, c, {COLON})'
    BY <1>0, <1>2, FoundStays
  <2>3. Blank(c + 1, s)' /\ s <= i'
    BY <1>0, <1>1, <1>2 DEF Blank
  <2>4. ValueFrom(hs, k, c, s)'
    BY <1>0, <1>1, <2>1, <2>2, <2>3 DEF ValueFrom
  <2>5. InValue(hs)'
    BY <2>4 DEF InValue
  <2>6. StartsFrom(hs)' = StartsFrom(hs)
    BY <1>2, StartsSame, StartsStay
  <2>7. LinesHeld(StartsFrom(hs))'
    BY <1>2, <2>6, HeldStays
  <2> QED
    BY <1>2, <2>5, <2>7 DEF LineState
<1>3. CASE ~IsCrlf(Ch)
  BY <1>2, <1>3 DEF ValueByte, Continue, Fail
<1>4. CASE IsCrlf(Ch) /\ i' = i
  <2>1. state' = "VALUE" /\ UNCHANGED store
    BY <1>0, <1>4 DEF ValueByte, StoreHeader, Continue, Fail
  <2> QED
    BY <1>2, <1>4, <2>1
<1>5. CASE IsCrlf(Ch) /\ i' # i
  <2>1. i' = i + 1 /\ state' = EndOfLine
    BY <1>5 DEF ValueByte, StoreHeader, Continue, Fail
  <2>2. PICK n, v : n = name /\ v = Slice(s, RTrim(s, i))
    OBVIOUS
  <2>3. LineIs(k, n, v)'
    <3>1. LineIs(k, [start |-> k, end |-> c], v)'
      BY <1>5, <2>1, <2>2, LineRead
    <3> QED
      BY <2>2, <3>1
  <2>4. \/ /\ ~Spills(store, http_header_lookup(stream, k))
           /\ store' = SetSlot(store, http_header_lookup(stream, k), v)
        \/ /\ Spills(store, http_header_lookup(stream, k))
           /\ store' = xheaders_insert(store, n, v)
    <3>1. name.start = k
      OBVIOUS
    <3> QED
      BY <1>5, <2>2, <3>1 DEF ValueByte, StoreHeader, Fail
  <2>5. k < i
    BY <1>0 DEF Ends
  <2>6. LinesHeld(StartsFrom(hs))'
    BY <1>0, <1>5, <2>1, <2>3, <2>4, <2>5, HeldGrows
  <2>7. PICK l \in Nat : l = i
    BY <1>0
  <2>8. At(l)' = Ch /\ hs <= l
    BY <1>0, <1>1, <2>7 DEF Ch, Open
  <2>9. CASE Ch = CR
    <3>1. AfterCrlf(hs)'
      BY <1>5, <2>1, <2>7, <2>8 DEF AfterCrlf
    <3> QED
      BY <2>1, <2>6, <2>9, <3>1 DEF LineState, EndOfLine
  <2>10. CASE Ch # CR
    <3>1. Open(hs, l + 1)'
      BY <1>5, <2>1, <2>7, <2>8, <2>10 DEF Open, IsCrlf
    <3>2. AtLine(hs)'
      BY <2>1, <2>7, <3>1 DEF AtLine
    <3> QED
      BY <2>1, <2>6, <2>10, <3>2 DEF LineState, EndOfLine
  <2> QED
    BY <2>9, <2>10
<1> QED
  BY <1>3, <1>4, <1>5

\* An iteration that fails leaves everything as it was.
LEMMA FailedRead ==
  ASSUME IInv, UNCHANGED <<stream, state, i, cursor, name, store>>,
         NEW hs \in Nat, LineState(hs), LinesHeld(StartsFrom(hs))
  PROVE  LineState(hs)' /\ LinesHeld(StartsFrom(hs))'
<1>1. LineState(hs)'
  BY NothingMoves
<1>2. StartsFrom(hs)' = StartsFrom(hs)
  BY StartsSame
<1> QED
  BY <1>1, <1>2, HeldStays

\* STATE_CR and STATE_LF2
LEMMA AfterCrlfRead ==
  ASSUME IInv, ParseCr \/ ParseLf2,
         NEW hs \in Nat, LineState(hs), LinesHeld(StartsFrom(hs))
  PROVE  LineState(hs)' /\ LinesHeld(StartsFrom(hs))'
<1>0. /\ i \in Nat /\ state \in {"CR", "LF2"}
      /\ UNCHANGED <<stream, cursor, name, store>>
  BY FieldTypes DEF ParseCr, ParseLf2, Reading, Outside, peer
<1>1. \A m : At(m)' = At(m)
  BY <1>0 DEF At
<1>2. CASE Ch # LF
  <2>1. UNCHANGED <<state, i>>
    BY <1>2 DEF ParseCr, ParseLf2, Reading, Fail
  <2> QED
    BY <1>0, <2>1, FailedRead
<1>3. CASE Ch = LF
  <2>1. i' = i + 1 /\ state' \in {"LF1", "LF2"}
    BY <1>3 DEF ParseCr, ParseLf2, Reading, Continue, Succeed
  <2>2. PICK l \in Nat : i = l + 1 /\ hs <= l + 2 /\ IsCrlf(At(l))
    BY <1>0 DEF LineState, AfterCrlf
  <2>3. StartsFrom(hs)' = StartsFrom(hs)
    <3>1. 0 < i /\ IsCrlf(At(i - 1))
      BY <2>2
    <3> QED
      BY <1>0, <2>1, <3>1, StartsStay
  <2>4. LinesHeld(StartsFrom(hs))'
    BY <1>0, <2>1, <2>3, HeldStays
  <2>5. At(l + 1)' = LF
    BY <1>1, <1>3, <2>2 DEF Ch
  <2>6. AfterCrlf(hs)'
    <3>1. l + 1 \in Nat /\ i' = (l + 1) + 1 /\ hs <= (l + 1) + 2
      BY <2>1, <2>2
    <3> QED
      BY <2>5, <3>1 DEF AfterCrlf, IsCrlf
  <2>7. AtLine(hs)'
    <3>1. Open(hs, l + 2)'
      BY <1>1, <2>1, <2>2, <2>5 DEF Open
    <3> QED
      BY <2>1, <2>2, <3>1 DEF AtLine
  <2> QED
    BY <2>1, <2>4, <2>6, <2>7 DEF LineState
<1> QED
  BY <1>2, <1>3

\* STATE_LF1
LEMMA Lf1Read ==
  ASSUME IInv, ParseLf1,
         NEW hs \in Nat, LineState(hs), LinesHeld(StartsFrom(hs))
  PROVE  LineState(hs)' /\ LinesHeld(StartsFrom(hs))'
<1>0. /\ i \in Nat /\ i \in 0..SHRT_MAX /\ state = "LF1"
      /\ UNCHANGED <<stream, cursor, store>>
  BY FieldTypes DEF ParseLf1, Reading, Outside, peer
<1>1. \A m : At(m)' = At(m)
  BY <1>0 DEF At
<1>2. PICK s \in Nat : s = i /\ Open(hs, s)
  BY <1>0 DEF LineState, AtLine
<1>3. /\ hs <= s
      /\ s = hs \/ At(s - 1) = LF
  BY <1>2 DEF Open
<1>4. CASE ~IsCrlf(Ch) /\ ~IsToken(Ch)
  <2>1. UNCHANGED <<state, i, name>>
    BY <1>0, <1>4 DEF ParseLf1, Fail, IsCrlf
  <2> QED
    BY <1>0, <2>1, FailedRead
<1>5. CASE IsCrlf(Ch) \/ IsToken(Ch)
  <2>1. i' = i + 1
    BY <1>5 DEF ParseLf1, Continue, Succeed, Fail, IsCrlf
  <2>2. ~IsToken(Ch) \/ ~IsCrlf(Ch)
    BY DEF IsToken, IsCrlf, Tokens, CR, LF
  <2>3. StartsFrom(hs)' = StartsFrom(hs)
    <3>1. i <= hs \/ (0 < i /\ IsCrlf(At(i - 1)))
      BY <1>2, <1>3 DEF IsCrlf
    <3> QED
      BY <1>0, <2>1, <3>1, StartsStay
  <2>4. LinesHeld(StartsFrom(hs))'
    BY <1>0, <2>1, <2>3, HeldStays
  <2>5. CASE Ch = CR
    <3>1. state' = "LF2"
      BY <2>2, <2>5 DEF ParseLf1, Continue, IsCrlf, CR, LF
    <3>2. IsCrlf(At(s)')
      BY <1>1, <1>2, <2>5 DEF Ch, IsCrlf
    <3>3. AfterCrlf(hs)'
      BY <1>2, <1>3, <2>1, <3>2 DEF AfterCrlf
    <3> QED
      BY <2>4, <3>1, <3>3 DEF LineState
  <2>6. CASE Ch = LF
    <3>1. state' = "LF1"
      BY <1>0, <2>2, <2>6 DEF ParseLf1, Succeed, IsCrlf, CR, LF
    <3>2. At(s)' = LF
      BY <1>1, <1>2, <2>6 DEF Ch
    <3>3. Open(hs, s + 1)'
      BY <1>2, <1>3, <2>1, <3>2 DEF Open
    <3>4. AtLine(hs)'
      BY <1>2, <2>1, <3>3 DEF AtLine
    <3> QED
      BY <2>4, <3>1, <3>4 DEF LineState
  <2>7. CASE IsToken(Ch) /\ ~IsCrlf(Ch)
    <3>1. state' = "NAME" /\ name' = [name EXCEPT !.start = U16(i)]
      BY <2>7 DEF ParseLf1, Continue, Fail, IsCrlf
    <3>2. name'.start = s
      <4>1. name \in Slices /\ U16(i) = i
        BY <1>0, FieldTypes, U16OfOffset
      <4> QED
        BY <1>2, <3>1, <4>1 DEF Slices
    <3>3. Open(hs, s)'
      BY <1>0, <1>2, <2>1, <2>7, OpenStays
    <3>4. Lacks(s, {COLON})
      BY <1>2 DEF Lacks
    <3>5. Ch \notin {COLON}
      BY <2>7 DEF IsToken, Tokens, COLON
    <3>6. Lacks(s, {COLON})'
      BY <1>0, <2>1, <3>4, <3>5, ReadOn
    <3>7. InName(hs)'
      BY <1>2, <2>1, <3>2, <3>3, <3>6 DEF InName
    <3> QED
      BY <2>4, <3>1, <3>7 DEF LineState
  <2> QED
    BY <1>5, <2>2, <2>5, <2>6, <2>7 DEF IsCrlf
<1> QED
  BY <1>4, <1>5

\* STATE_NAME
LEMMA NameRead ==
  ASSUME IInv, ParseName,
         NEW hs \in Nat, LineState(hs), LinesHeld(StartsFrom(hs))
  PROVE  LineState(hs)' /\ LinesHeld(StartsFrom(hs))'
<1>0. /\ i \in Nat /\ i \in 0..SHRT_MAX /\ state = "NAME"
      /\ UNCHANGED <<stream, cursor, store>>
  BY FieldTypes DEF ParseName, Reading, Outside, peer
<1>1. PICK s \in Nat : name.start = s /\ s < i /\ Open(hs, s) /\ Lacks(s, {COLON})
  BY <1>0 DEF LineState, InName
<1>2. CASE Ch # COLON /\ ~IsToken(Ch)
  <2>1. UNCHANGED <<state, i, name>>
    BY <1>0, <1>2 DEF ParseName, Fail
  <2> QED
    BY <1>0, <2>1, FailedRead
<1>3. CASE Ch = COLON \/ IsToken(Ch)
  <2>1. i' = i + 1
    BY <1>3 DEF ParseName, Continue
  <2>2. ~IsCrlf(Ch)
    BY <1>3 DEF IsToken, IsCrlf, Tokens, CR, LF, COLON
  <2>3. Open(hs, s)'
    BY <1>0, <1>1, <2>1, <2>2, OpenStays
  <2>4. LinesHeld(StartsFrom(hs))'
    BY <1>0, <2>1, <2>2, StartsStay, HeldStays
  <2>5. CASE Ch = COLON
    <3>1. state' = "COLON" /\ name' = [name EXCEPT !.end = U16(i)]
      BY <2>5 DEF ParseName, Continue
    <3>2. PICK c \in Nat : c = i
      BY <1>0
    <3>3. name' = [start |-> s, end |-> c]
      <4>1. name \in Slices /\ U16(i) = i
        BY <1>0, FieldTypes, U16OfOffset
      <4> QED
        BY <1>1, <3>1, <3>2, <4>1 DEF Slices
    <3>4. Ends(s, c, {COLON})'
      BY <1>0, <1>1, <2>1, <2>5, <3>2, ReadOn
    <3>5. Blank(c + 1, i)'
      BY <2>1, <3>2 DEF Blank
    <3>6. InColon(hs)'
      BY <2>3, <3>3, <3>4, <3>5 DEF InColon
    <3> QED
      BY <2>4, <3>1, <3>6 DEF LineState
  <2>6. CASE Ch # COLON
    <3>1. state' = "NAME" /\ UNCHANGED name
      BY <1>3, <2>6 DEF ParseName, Continue
    <3>2. Lacks(s, {COLON})'
      BY <1>0, <1>1, <2>1, <2>6, ReadOn
    <3>3. InName(hs)'
      BY <1>0, <1>1, <2>1, <2>3, <3>1, <3>2 DEF InName
    <3> QED
      BY <2>4, <3>1, <3>3 DEF LineState
  <2> QED
    BY <2>5, <2>6
<1> QED
  BY <1>2, <1>3

\* STATE_COLON
LEMMA ColonRead ==
  ASSUME IInv, ParseColon,
         NEW hs \in Nat, LineState(hs), LinesHeld(StartsFrom(hs))
  PROVE  LineState(hs)' /\ LinesHeld(StartsFrom(hs))'
<1>0. /\ i \in Nat /\ state = "COLON"
      /\ UNCHANGED <<stream, name>>
  BY FieldTypes DEF ParseColon, Reading, Outside, peer
<1>1. \A m : At(m)' = At(m)
  BY <1>0 DEF At
<1>2. PICK k, c \in Nat :
        /\ name = [start |-> k, end |-> c]
        /\ Open(hs, k) /\ Ends(k, c, {COLON}) /\ Blank(c + 1, i)
  BY <1>0 DEF LineState, InColon
<1>3. c < i
  BY <1>0, <1>2 DEF Ends
<1>4. CASE IsHtabOrSpace(Ch)
  <2>1. i' = i + 1 /\ state' = "COLON" /\ UNCHANGED store
    BY <1>4 DEF ParseColon, Continue
  <2>2. ~IsCrlf(Ch)
    BY <1>4 DEF IsHtabOrSpace, IsCrlf, HTAB, SP, CR, LF
  <2>3. Open(hs, k)' /\ Ends(k, c, {COLON})'
    BY <1>0, <1>2, <2>1, <2>2, OpenStays, FoundStays
  <2>4. Blank(c + 1, i)'
    <3>1. \A m \in (c + 1)..(i' - 1) : m \in (c + 1)..(i - 1) \/ m = i
      BY <1>0, <2>1
    <3> QED
      BY <1>1, <1>2, <1>4, <3>1 DEF Blank, Ch
  <2>5. InColon(hs)'
    BY <1>0, <1>2, <2>3, <2>4 DEF InColon
  <2>6. LinesHeld(StartsFrom(hs))'
    BY <1>0, <2>1, <2>2, StartsStay, HeldStays
  <2> QED
    BY <2>1, <2>5, <2>6 DEF LineState
<1>5. CASE ~IsHtabOrSpace(Ch)
  <2>1. PICK s \in Nat : s = i
    BY <1>0
  <2>2. cursor' = s /\ ValueByte(s)
    BY <1>5, <2>1 DEF ParseColon
  <2>3. ValueFrom(hs, k, c, s)
    BY <1>2, <1>3, <1>5, <2>1 DEF ValueFrom, Ch
  <2> QED
    BY <1>0, <1>2, <2>2, <2>3, ValueByteRead
<1> QED
  BY <1>4, <1>5

\* STATE_VALUE
LEMMA ValueRead ==
  ASSUME IInv, ParseValue,
         NEW hs \in Nat, LineState(hs), LinesHeld(StartsFrom(hs))
  PROVE  LineState(hs)' /\ LinesHeld(StartsFrom(hs))'
<1>0. state = "VALUE" /\ UNCHANGED <<stream, name, cursor>>
  BY DEF ParseValue, Reading, Outside, peer
<1>1. PICK k, c, s \in Nat :
        /\ name = [start |-> k, end |-> c] /\ cursor = s
        /\ ValueFrom(hs, k, c, s)
  BY <1>0 DEF LineState, InValue
<1>2. cursor' = s /\ ValueByte(s)
  BY <1>0, <1>1 DEF ParseValue
<1> QED
  BY <1>0, <1>1, <1>2, ValueByteRead

\* An iteration past the first line
LEMMA LineByteRead ==
  ASSUME IInv, HeadersRead, PastFirstLine, ParseByte
  PROVE  HeadersRead'
<1>1. PICK e, hs \in Nat :
        /\ FirstLineEnds(e) /\ hs = LinesStart(e)
        /\ LineState(hs)
        /\ pc # "freed" => LinesHeld(StartsFrom(hs))
  BY DEF HeadersRead
<1>2. pc # "freed" /\ i' \in {i, i + 1} /\ UNCHANGED <<stream, type>>
  <2>1. pc = "loop"
    BY DEF ParseByte, ParseStart, ParseMethod, ParseUri, ParseVersion, ParseStatus,
       ParseMessage, ParseCr, ParseLf1, ParseName, ParseColon, ParseValue, ParseLf2, Reading
  <2> QED
    BY <2>1, ByteMovesIndex
<1>3. LineState(hs)' /\ LinesHeld(StartsFrom(hs))'
  <2>1. ~ParseStart /\ ~ParseMethod /\ ~ParseUri /\ ~ParseVersion /\ ~ParseStatus /\ ~ParseMessage
    BY DEF PastFirstLine, Reading, ParseStart, ParseMethod, ParseUri, ParseVersion,
       ParseStatus, ParseMessage
  <2> QED
    BY <1>1, <1>2, <2>1, AfterCrlfRead, Lf1Read, NameRead, ColonRead, ValueRead DEF ParseByte
<1>4. FirstLineEnds(e)' /\ hs = LinesStart(e)'
  <2>1. LinesStart(e)' = LinesStart(e)
    BY <1>2 DEF LinesStart, At
  <2> QED
    BY <1>1, <1>2, <2>1, EndStays
<1>5. PastFirstLine'
  BY DEF PastFirstLine, ParseByte, ParseStart, ParseMethod, ParseUri, ParseVersion, ParseStatus,
     ParseMessage, ParseCr, ParseLf1, ParseName, ParseColon, ParseValue, ParseLf2, Reading,
     Continue, Fail, Succeed, ValueByte, StoreHeader, EndOfLine
<1> QED
  BY <1>3, <1>4, <1>5 DEF HeadersRead

-----------------------------------------------------------------------------
(* The other steps *)

\* An iteration on the first line
LEMMA FirstLineByteRead ==
  ASSUME IInv, FirstLineRead(FALSE), HeadersRead, ~PastFirstLine, ParseByte
  PROVE  HeadersRead'
<1>1. UNCHANGED store /\ pc # "freed"
  BY ByteEnds, ByteState DEF ParseByte, ParseStart, ParseMethod, ParseUri, ParseVersion,
     ParseStatus, ParseMessage
<1>2. CASE PastFirstLine'
  BY <1>2, FirstLineEnded
<1>3. CASE ~PastFirstLine'
  BY <1>1, <1>3 DEF HeadersRead
<1> QED
  BY <1>2, <1>3

\* A step that reads nothing; the store may go with the message.
LEMMA NoByteRead ==
  ASSUME IInv, HeadersRead, UNCHANGED <<stream, type, state, i, cursor, name>>,
         pc' = "freed" \/ (pc # "freed" /\ UNCHANGED store)
  PROVE  HeadersRead'
<1>1. PastFirstLine' <=> PastFirstLine
  BY DEF PastFirstLine
<1>2. CASE ~PastFirstLine
  BY <1>1, <1>2 DEF HeadersRead
<1>3. CASE PastFirstLine
  <2>1. PICK e, hs \in Nat :
          /\ FirstLineEnds(e) /\ hs = LinesStart(e)
          /\ LineState(hs)
          /\ pc # "freed" => LinesHeld(StartsFrom(hs))
    BY <1>3 DEF HeadersRead
  <2>2. LineState(hs)'
    BY <2>1, NothingMoves
  <2>3. LinesStart(e)' = LinesStart(e)
    BY DEF LinesStart, At
  <2>4. FirstLineEnds(e)' /\ hs = LinesStart(e)'
    BY <2>1, <2>3, EndStays
  <2>5. pc' # "freed" => LinesHeld(StartsFrom(hs))'
    BY <2>1, StartsSame, HeldStays
  <2> QED
    BY <1>1, <1>3, <2>2, <2>4, <2>5 DEF HeadersRead
<1> QED
  BY <1>2, <1>3

\* http_msg_init
LEMMA NewHeaders ==
  ASSUME state = "START", store = EmptyStore
  PROVE  HeadersRead
  BY DEF HeadersRead, PastFirstLine

\* Every step keeps the invariant.
LEMMA NextHeaders ==
  IInv /\ FirstLineInv /\ HeadersRead /\ [Next]_vars => HeadersRead'
<1> SUFFICES ASSUME IInv, FirstLineInv, HeadersRead, [Next]_vars
             PROVE  HeadersRead'
  OBVIOUS
<1>1. CASE ParseByte
  <2>1. FirstLineRead(FALSE)
    BY DEF FirstLineInv
  <2> QED
    BY <1>1, <2>1, FirstLineByteRead, LineByteRead
<1>2. ASSUME NEW t, NEW s, MsgInit(t, s) PROVE HeadersRead'
  BY <1>2 DEF MsgInit, HeadersRead, PastFirstLine
<1>3. CASE \/ ReturnUsedUp
           \/ \E capacity \in Capacities : Call(capacity)
           \/ \E n \in Chunks : Receive(n)
           \/ Free
  <2>1. UNCHANGED <<stream, type, state, i, cursor, name>>
    BY <1>3 DEF ReturnUsedUp, Call, Receive, Free, peer, parser
  <2>2. pc' = "freed" \/ (pc # "freed" /\ UNCHANGED store)
    BY <1>3 DEF ReturnUsedUp, Call, MayCall, Receive, Free, parser
  <2> QED
    BY <2>1, <2>2, NoByteRead
<1>4. CASE UNCHANGED vars
  <2>1. UNCHANGED <<stream, type, state, i, cursor, name, store, pc>>
    BY <1>4 DEF vars, peer, parser
  <2> QED
    BY <2>1, NoByteRead
<1> QED
  BY <1>1, <1>2, <1>3, <1>4 DEF Next, MessageNext

-----------------------------------------------------------------------------
(* From the invariant to the second reading of the bytes *)

\* The second reading finds the same end of the first line.
LEMMA FirstLineEndIs ==
  ASSUME IInv, NEW e \in Nat, FirstLineEnds(e)
  PROVE  FirstLineEnd = e /\ HeadersStart = LinesStart(e)
<1>0. i \in Nat
  BY FieldTypes
<1>1. FirstLineEnd = e
  <2>1. CASE type = REQUEST
    <3>1. PICK a, u, v \in 0..i :
            /\ LeadIs(a) /\ Ends(a, u, {SP}) /\ Ends(u + 1, v, BlankBytes)
            /\ IF At(v) = SP THEN Ends(v + 1, e, BlankBytes) ELSE e = v
      BY <2>1 DEF FirstLineEnds
    <3>2. /\ a \in Nat /\ u \in Nat /\ v \in Nat
          /\ u + 1 \in Nat /\ v + 1 \in Nat
      BY <1>0
    <3>3. Lead = a
      BY <3>1, <3>2, LeadOf
    <3>4. FirstOf(a, IsSpace) = u
      BY <3>1, <3>2, FirstSpaceIs
    <3>5. FirstOf(u + 1, IsCrlfOrSpace) = v
      BY <3>1, <3>2, FirstBlankIs
    <3>6. ASSUME At(v) = SP PROVE FirstOf(v + 1, IsCrlfOrSpace) = e
      <4>1. Ends(v + 1, e, BlankBytes)
        BY <3>1, <3>6
      <4> QED
        BY <3>2, <4>1, FirstBlankIs
    <3> QED
      BY <2>1, <3>1, <3>3, <3>4, <3>5, <3>6 DEF FirstLineEnd
  <2>2. CASE type # REQUEST
    <3>1. PICK a \in 0..i : LeadIs(a) /\ Ends(a + 9, e, CrlfBytes)
      BY <2>2 DEF FirstLineEnds
    <3>2. a \in Nat /\ a + 9 \in Nat
      BY <1>0
    <3>3. Lead = a
      BY <3>1, <3>2, LeadOf
    <3>4. FirstOf(a + 9, IsCrlf) = e
      BY <3>1, <3>2, FirstCrlfIs
    <3> QED
      BY <2>2, <3>3, <3>4 DEF FirstLineEnd
  <2> QED
    BY <2>1, <2>2
<1> QED
  BY <1>1 DEF HeadersStart, LinesStart

\* A line has ended if a CR or LF is found before the index.
LEMMA LineHasEnded ==
  ASSUME IInv, NEW k \in Nat, k <= i
  PROVE  FirstOf(k, IsCrlf) < i <=> \E e \in k..(i - 1) : IsCrlf(At(e))
<1> DEFINE T == {m \in k..i : m = i \/ At(m) \in CrlfBytes}
<1>1. i \in Nat /\ T \in SUBSET Nat /\ i \in T
  BY FieldTypes
<1>2. FirstOf(k, IsCrlf) = Min(T)
  BY FirstOfClasses
<1>3. Min(T) \in T /\ \A x \in T : Min(T) <= x
  <2> HIDE DEF T
  <2> QED
    BY <1>1, MinOfNats
<1>4. ASSUME Min(T) < i PROVE \E e \in k..(i - 1) : IsCrlf(At(e))
  <2>1. PICK m \in T : m = Min(T)
    BY <1>3
  <2>2. m \in k..(i - 1) /\ At(m) \in CrlfBytes
    <3>1. m < i
      BY <1>4, <2>1
    <3> QED
      BY <1>1, <3>1
  <2> QED
    BY <2>2 DEF IsCrlf, CrlfBytes
<1>5. ASSUME NEW e \in k..(i - 1), IsCrlf(At(e)) PROVE Min(T) < i
  <2>1. e \in T /\ e < i
    BY <1>1, <1>5 DEF IsCrlf, CrlfBytes
  <2>2. Min(T) <= e /\ Min(T) \in Nat
    BY <1>1, <1>3, <2>1
  <2> HIDE DEF T
  <2> QED
    BY <1>1, <2>1, <2>2
<1> QED
  BY <1>2, <1>4, <1>5

\* The lines are the same,
LEMMA LinesAre ==
  ASSUME IInv, PastFirstLine, NEW e \in Nat, FirstLineEnds(e), NEW hs \in Nat, hs = LinesStart(e)
  PROVE  HeaderLines = StartsFrom(hs)
<1>1. HeadersStart = hs /\ i \in Nat
  BY FirstLineEndIs, FieldTypes
<1>2. ASSUME NEW k \in hs..(i - 1)
      PROVE  FirstOf(k, IsCrlf) < i <=> \E m \in k..(i - 1) : IsCrlf(At(m))
  <2>1. k \in Nat /\ k <= i
    BY <1>1
  <2> QED
    BY <2>1, LineHasEnded
<1>3. HeaderStarts = {k \in hs..(i - 1) : /\ k = hs \/ At(k - 1) = LF
                                          /\ ~IsCrlf(At(k))
                                          /\ FirstOf(k, IsCrlf) < i}
  BY <1>1 DEF HeaderStarts
<1>4. HeaderStarts = StartsFrom(hs)
  BY <1>2, <1>3 DEF StartsFrom
<1> QED
  BY <1>4 DEF HeaderLines

\* and so are a line's name and value.
LEMMA NameAndValueAre ==
  ASSUME IInv, NEW k \in Nat, NEW n, NEW v, LineIs(k, n, v)
  PROVE  n = NameOf(k) /\ v = ValueOf(k)
<1>1. PICK c, s, t, e \in 0..i :
        /\ n = [start |-> k, end |-> c] /\ Ends(k, c, {COLON})
        /\ v = [start |-> s, end |-> t] /\ Ends(k, e, CrlfBytes)
        /\ c < s /\ s <= t /\ t <= e
        /\ Blank(c + 1, s) /\ Blank(t, e)
        /\ s = e \/ (s < t /\ ~IsHtabOrSpace(At(s)) /\ ~IsHtabOrSpace(At(t - 1)))
  BY DEF LineIs
<1>2. i \in Nat /\ c \in Nat /\ s \in Nat /\ t \in Nat /\ e \in Nat
  BY <1>1, FieldTypes
<1>3. ColonOf(k) = c
  <2>1. ColonOf(k) = Min({m \in k..i : m = i \/ At(m) \in {COLON}})
    BY DEF ColonOf, FirstOf, IsColon
  <2>2. Min({m \in k..i : m = i \/ At(m) \in {COLON}}) = c
    BY <1>1, <1>2, FirstOfEnds
  <2> QED
    BY <2>1, <2>2
<1>4. FirstOf(k, IsCrlf) = e
  BY <1>1, <1>2, FirstCrlfIs
<1> DEFINE text == {b \in (c + 1)..(e - 1) : ~IsHtabOrSpace(At(b))}
<1>5. ValueOf(k) = IF text = {} THEN [start |-> e, end |-> e]
                   ELSE [start |-> Min(text), end |-> Max(text) + 1]
  BY <1>3, <1>4 DEF ValueOf
<1>6. /\ \A b \in (c + 1)..(s - 1) : IsHtabOrSpace(At(b))
      /\ \A b \in t..(e - 1) : IsHtabOrSpace(At(b))
  BY <1>1 DEF Blank
<1>7. v = ValueOf(k)
  <2>1. CASE s = e
    <3>1. text = {} /\ t = e
      BY <1>1, <1>2, <1>6, <2>1
    <3> QED
      BY <1>1, <1>5, <2>1, <3>1
  <2>2. CASE s # e
    <3>1. s < t /\ ~IsHtabOrSpace(At(s)) /\ ~IsHtabOrSpace(At(t - 1))
      BY <1>1, <2>2
    <3>2. s \in text /\ t - 1 \in text /\ text \in SUBSET Nat
      BY <1>1, <1>2, <3>1
    <3>3. \A b \in text : s <= b /\ b <= t - 1
      BY <1>1, <1>2, <1>6
    <3> HIDE DEF text
    <3>4. Min(text) = s
      BY <3>2, <3>3, MinIs
    <3>5. Max(text) = t - 1
      BY <3>2, <3>3, MaxIs
    <3> QED
      BY <1>1, <1>2, <1>5, <3>2, <3>4, <3>5
  <2> QED
    BY <2>1, <2>2
<1> QED
  BY <1>1, <1>3, <1>7 DEF NameOf

\* A store that holds the lines is as HeadersAreAsSent says.
LEMMA HeldIsAsSent ==
  ASSUME NEW S \in SUBSET Nat, S = HeaderLines, NEW n \in Nat, \A k \in S : k <= n,
         NEW nm, NEW val, Holding(store, RowOf(S), nm, val),
         \A k \in S : nm[k] = NameOf(k) /\ val[k] = ValueOf(k)
  PROVE  HeadersAreAsSent
<1> DEFINE row == RowOf(S)
<1>1. DOMAIN row = S
  BY DEF RowOf
<1> HIDE DEF row
<1>2. \A h : LinesOf(row, h) = {k \in S : row[k] = h} /\ LinesOf(row, h) \in SUBSET S
  BY <1>1 DEF LinesOf
<1>3. Listed(row) \in SUBSET S /\ ListedOf(row) = Listed(row)
  BY <1>1 DEF Listed, ListedOf
<1>4. ASSUME NEW h \in KnownHeaders
      PROVE  store.std[h] =
               IF {k \in S : row[k] = h} = {} THEN NoSlice
               ELSE ValueOf(IF h \in Repeatable THEN Min({k \in S : row[k] = h})
                                                ELSE Max({k \in S : row[k] = h}))
  <2> DEFINE L == LinesOf(row, h)
  <2>1. L \in SUBSET S /\ L = {k \in S : row[k] = h}
    BY <1>2
  <2>2. store.std[h] = IF L = {} THEN NoSlice
                       ELSE val[IF h \in Repeatable THEN Min(L) ELSE Max(L)]
    BY DEF Holding, row
  <2> HIDE DEF L
  <2>3. L # {} => Min(L) \in S /\ Max(L) \in S
    <3>1. L \in SUBSET Nat /\ \A x \in L : x <= n
      BY <2>1
    <3> QED
      BY <2>1, <3>1, MinOfNats, MaxOfNats
  <2> QED
    BY <2>1, <2>2, <2>3
<1>5. Len(store.x) = Cardinality(Listed(row))
  BY DEF Holding, row
<1>6. ASSUME NEW k \in Listed(row)
      PROVE  store.x[Cardinality({j \in Listed(row) : j <= k})] =
               [name |-> NameOf(k), value |-> ValueOf(k)]
  <2>1. store.x[Cardinality({j \in Listed(row) : j <= k})] =
          [name |-> nm[k], value |-> val[k]]
    BY DEF Holding, row
  <2> QED
    BY <1>3, <2>1
<1> QED
  BY <1>3, <1>4, <1>5, <1>6 DEF HeadersAreAsSent, StoreHolds, row

\* What the invariant says of the store is what HeadersAreAsSent says.
LEMMA HeadersAre == IInv /\ HeadersRead => HeadersAreAsSent
<1> SUFFICES ASSUME IInv, HeadersRead, pc # "freed" PROVE HeadersAreAsSent
  BY DEF HeadersAreAsSent
<1>1. CASE ~PastFirstLine
  <2>1. HeaderLines = {} /\ store = EmptyStore
    BY <1>1 DEF HeaderLines, HeadersRead
  <2>2. DOMAIN RowOf({}) = {}
    BY DEF RowOf
  <2>3. Holding(store, RowOf({}), <<>>, <<>>)
    BY <2>1, <2>2, EmptyHolds DEF EmptyStore
  <2> QED
    BY <2>1, <2>3, HeldIsAsSent
<1>2. CASE PastFirstLine
  <2>1. PICK e, hs \in Nat :
          /\ FirstLineEnds(e) /\ hs = LinesStart(e)
          /\ LinesHeld(StartsFrom(hs))
    BY <1>2 DEF HeadersRead
  <2> DEFINE S == StartsFrom(hs)
  <2>2. S = HeaderLines
    BY <1>2, <2>1, LinesAre
  <2>3. PICK nm, val :
          /\ \A k \in S : LineIs(k, nm[k], val[k])
          /\ Holding(store, RowOf(S), nm, val)
    BY <2>1 DEF LinesHeld
  <2>4. S \in SUBSET Nat /\ \A k \in S : k <= i
    BY FieldTypes DEF StartsFrom
  <2>5. i \in Nat
    BY FieldTypes
  <2> HIDE DEF S
  <2>6. \A k \in S : nm[k] = NameOf(k) /\ val[k] = ValueOf(k)
    BY <2>3, <2>4, NameAndValueAre
  <2>7. Holding(store, RowOf(S), nm, val)
    BY <2>3
  <2> QED
    BY <2>2, <2>4, <2>5, <2>6, <2>7, HeldIsAsSent, SMTT(30)
<1> QED
  BY <1>1, <1>2

\* The invariant of the lines read holds of every reachable state.
LEMMA ReachableHeaders == Spec => [](IInv /\ HeadersRead)
<1>1. Init => NotYetRecorded /\ FirstLineInv /\ HeadersRead
  BY InitNotYet, NewMessage, NewHeaders DEF Init
<1>2. IInv /\ NotYetRecorded /\ FirstLineInv /\ HeadersRead /\ [Next]_vars
        => NotYetRecorded' /\ FirstLineInv' /\ HeadersRead'
  BY NextNotYet, NextFirstLine, NextHeaders
<1> QED
  BY <1>1, <1>2, ReachableIInv, PTL DEF Spec

\* Whatever header lines the peer sends, however many, in whichever pieces
\* they arrive and whichever calls have no room or no memory, the known
\* headers' slots and the list of the others are at every moment what the
\* lines read so far spell: a line is neither lost nor stored twice, each is
\* where its name puts it and in the order of arrival, and its value ends
\* where its last byte that is no blank does.  Nor does that depend on when the
\* caller calls again: after a malformed byte, or after a whole head, when the
\* bytes behind it are read.
THEOREM HeadersAreCorrect == Spec => []HeadersAreAsSent
  BY ReachableHeaders, HeadersAre, PTL

-----------------------------------------------------------------------------
(* The code's own table *)

\* Each row has one name.
LEMMA RowCount == Len(RowNames) = Len(HeaderRows) /\ Len(HeaderRows) \in Nat
<1> DEFINE S == {CommonRows[k] : k \in 1..47} \cup {OtherRows[k] : k \in 1..46}
<1>1. CommonRows \in Seq(S)
  <2>1. CommonRows = [k \in 1..47 |-> CommonRows[k]]
    BY DEF CommonRows
  <2>2. [k \in 1..47 |-> CommonRows[k]] \in [1..47 -> S]
    OBVIOUS
  <2> HIDE DEF S
  <2> QED
    BY <2>1, <2>2, SeqDef
<1>2. OtherRows \in Seq(S)
  <2>1. OtherRows = [k \in 1..46 |-> OtherRows[k]]
    BY DEF OtherRows
  <2>2. [k \in 1..46 |-> OtherRows[k]] \in [1..46 -> S]
    OBVIOUS
  <2> HIDE DEF S
  <2> QED
    BY <2>1, <2>2, SeqDef
<1> HIDE DEF S
<1>3. Len(HeaderRows) \in Nat
  BY <1>1, <1>2 DEF HeaderRows
<1> DEFINE Lowered(row) == [k \in 1..Len(row[1]) |-> Lower(ByteOf(SubSeq(row[1], k, k)))]
           names == [h \in 1..Len(HeaderRows) |-> Lowered(HeaderRows[h])]
           T     == {names[h] : h \in 1..Len(HeaderRows)}
<1>4. RowNames = <<>> \o names
  BY DEF RowNames
<1> HIDE DEF Lowered
<1>5. names \in Seq(T) /\ Len(names) = Len(HeaderRows) /\ <<>> \in Seq(T)
  BY <1>3
<1> HIDE DEF names, T
<1> QED
  BY <1>3, <1>4, <1>5, ConcatProperties

\* A line read is within the bytes read, and a colon ends its name.
LEMMA LinesWithin ==
  ASSUME IInv, HeadersRead
  PROVE  /\ HeaderLines \in SUBSET Nat
         /\ \A k \in HeaderLines :
              /\ k <= i
              /\ pc # "freed" => /\ ColonOf(k) \in k..(i - 1)
                                 /\ At(ColonOf(k)) = COLON
<1>1. CASE ~PastFirstLine
  BY <1>1 DEF HeaderLines
<1>2. CASE PastFirstLine
  <2>1. PICK e, hs \in Nat : /\ FirstLineEnds(e) /\ hs = LinesStart(e)
                             /\ pc # "freed" => LinesHeld(StartsFrom(hs))
    BY <1>2 DEF HeadersRead
  <2>2. HeaderLines = StartsFrom(hs)
    BY <1>2, <2>1, LinesAre
  <2>3. HeaderLines \in SUBSET Nat /\ \A k \in HeaderLines : k <= i
    BY <2>2, FieldTypes DEF StartsFrom
  <2>4. ASSUME NEW k \in HeaderLines, pc # "freed"
        PROVE  ColonOf(k) \in k..(i - 1) /\ At(ColonOf(k)) = COLON
    <3>1. PICK n, v : LineIs(k, n, v)
      BY <2>1, <2>2, <2>4 DEF LinesHeld
    <3>2. n = NameOf(k)
      BY <2>3, <3>1, NameAndValueAre
    <3>3. PICK c \in 0..i : n = [start |-> k, end |-> c] /\ Ends(k, c, {COLON})
      BY <3>1 DEF LineIs
    <3>4. c = ColonOf(k)
      BY <3>2, <3>3 DEF NameOf
    <3> QED
      BY <3>3, <3>4 DEF Ends
  <2> QED
    BY <2>3, <2>4
<1> QED
  BY <1>1, <1>2

\* What is in lower case stays so.
LEMMA LowerTwice == ASSUME NEW c \in Byte PROVE Lower(Lower(c)) = Lower(c)
<1>1. CASE c \in 65..90
  <2>1. Lower(c) = c + 32 /\ c + 32 \notin 65..90
    BY <1>1 DEF Lower
  <2> QED
    BY <2>1 DEF Lower
<1>2. CASE c \notin 65..90
  BY <1>2 DEF Lower
<1> QED
  BY <1>1, <1>2

\* A line whose name is a row's that no row before it begins is taken for it.
LEMMA LookupFinds ==
  ASSUME IInv, NEW h \in KnownHeaders,
         \A g \in 1..(h - 1) : ~PrefixAt(Table[g], Table[h], 0),
         NEW k \in Nat, NEW c \in Nat, c = k + Len(Table[h]), c < Len(stream),
         At(c) = COLON, PrefixAt(Table[h], stream, k)
  PROVE  http_header_lookup(stream, k) = h
<1> DEFINE rows == {g \in KnownHeaders : PrefixAt(Table[g], stream, k)}
<1>1. \A g \in KnownHeaders : /\ Table[g] \in Seq(Byte) /\ Len(Table[g]) \in Nat
                              /\ \A j \in 1..Len(Table[g]) : Table[g][j] # COLON
  <2> TAKE g \in KnownHeaders
  <2>1. g \in 1..Len(Table) /\ Table \in Seq(Seq(Byte))
    BY TableAssumption DEF KnownHeaders
  <2>2. Table[g] \in Seq(Byte)
    BY <2>1
  <2>3. \A j \in 1..Len(Table[g]) : Table[g][j] # COLON
    BY <2>1, TableAssumption
  <2> QED
    BY <2>2, <2>3
<1>2. stream \in Seq(Byte) /\ KnownHeaders \in SUBSET Nat
  BY StreamsAssumption DEF IInv, TypeOK, KnownHeaders
<1>3. ASSUME NEW g \in rows PROVE h <= g
  <2> SUFFICES ASSUME g < h PROVE FALSE
    BY <1>2
  <2>1. g \in 1..(h - 1) /\ g \in KnownHeaders
    BY DEF KnownHeaders
  <2>2. \A j \in 1..Len(Table[g]) : k + j <= Len(stream) /\ Lower(stream[k + j]) = Table[g][j]
    BY DEF PrefixAt
  <2>3. Len(Table[g]) <= Len(Table[h])
    <3> SUFFICES ASSUME Len(Table[g]) > Len(Table[h]) PROVE FALSE
      BY <1>1, <2>1
    <3> DEFINE j == Len(Table[h]) + 1
    <3>1. j \in 1..Len(Table[g]) /\ k + j = c + 1
      BY <1>1, <2>1
    <3>2. stream[c + 1] = COLON
      BY DEF At
    <3> HIDE DEF j
    <3>3. Table[g][j] = Lower(COLON)
      BY <2>2, <3>1, <3>2
    <3>4. Table[g][j] # COLON
      BY <1>1, <2>1, <3>1
    <3> QED
      BY <3>3, <3>4 DEF Lower, COLON
  <2>4. ASSUME NEW j \in 1..Len(Table[g])
        PROVE  0 + j <= Len(Table[h]) /\ Lower(Table[h][0 + j]) = Table[g][j]
    <3>1. j \in 1..Len(Table[h]) /\ 0 + j = j /\ j <= Len(Table[h])
      <4>1. Len(Table[g]) \in Nat /\ Len(Table[h]) \in Nat
        BY <1>1, <2>1
      <4> QED
        BY <2>3, <4>1
    <3>2. Lower(stream[k + j]) = Table[h][j] /\ Lower(stream[k + j]) = Table[g][j]
      BY <2>2, <3>1 DEF PrefixAt
    <3>3. stream[k + j] \in Byte
      <4>1. k + j \in 1..Len(stream)
        BY <1>2, <2>2
      <4> QED
        BY <1>2, <4>1
    <3>4. Lower(Lower(stream[k + j])) = Lower(stream[k + j])
      BY <3>3, LowerTwice
    <3> QED
      BY <3>1, <3>2, <3>4
  <2>5. PrefixAt(Table[g], Table[h], 0)
    BY <2>4 DEF PrefixAt
  <2> QED
    BY <2>1, <2>5
<1>4. h \in rows /\ rows \in SUBSET Nat
  BY <1>2
<1>5. http_header_lookup(stream, k) = IF rows = {} THEN UNKNOWN ELSE Min(rows)
  BY DEF http_header_lookup
<1> HIDE DEF rows
<1>6. Min(rows) = h
  BY <1>3, <1>4, MinIs
<1> QED
  BY <1>4, <1>5, <1>6

\* A line taken for a row begins with its text.
LEMMA LookupBegins ==
  ASSUME NEW k, http_header_lookup(stream, k) # UNKNOWN
  PROVE  PrefixAt(Table[http_header_lookup(stream, k)], stream, k)
<1> DEFINE rows == {g \in KnownHeaders : PrefixAt(Table[g], stream, k)}
<1>1. rows \in SUBSET Nat
  BY DEF KnownHeaders
<1>2. http_header_lookup(stream, k) = IF rows = {} THEN UNKNOWN ELSE Min(rows)
  BY DEF http_header_lookup
<1>3. rows # {} => Min(rows) \in rows
  <2> HIDE DEF rows
  <2> QED
    BY <1>1, MinOfNats
<1>4. Min(rows) \in rows
  BY <1>2, <1>3
<1> QED
  BY <1>2, <1>3, <1>4

\* With the code's own table, which TLC finds to be right: whatever is sent, in
\* whichever pieces, each of the eighty-six headers is found in the slot of its
\* name, with its first or its last value as it is repeatable or not, unless a
\* line with a longer name that begins with it was sent as well.
THEOREM HeadersReachTheirSlots ==
  ASSUME Table = HeaderTable, Repeatable = RepeatableRows, RowsAreRight
  PROVE  Spec => []NamesReachTheirSlots
<1>0. Table = RowNames /\ FoundRows \in SUBSET KnownHeaders
  BY RowCount DEF RowsAreRight, FoundRows, KnownHeaders
<1>1. ASSUME IInv, HeadersRead, HeadersAreAsSent, pc # "freed",
             NEW k \in HeaderLines, NEW h \in Bearing(FoundRows, k),
             NEW alike, alike = {j \in HeaderLines : PrefixAt(RowNames[h], stream, j)},
             \A j \in alike : ColonOf(j) - j = Len(RowNames[h])
      PROVE  store.std[h] =
               ValueOf(IF h \in RepeatableRows THEN Min(alike) ELSE Max(alike))
  <2>1. /\ h \in KnownHeaders /\ RowNames[h] = NameText(k)
        /\ \A g \in 1..(h - 1) : ~PrefixAt(Table[g], Table[h], 0)
    BY <1>0, <1>1 DEF Bearing, RowsAreRight
  <2>2. HeaderLines \in SUBSET Nat /\ i \in Nat /\ i <= Len(stream) /\ stream \in Seq(Byte)
    <3>1. HeaderLines \in SUBSET Nat /\ i \in Nat
      BY <1>1, LinesWithin, FieldTypes
    <3>2. stream \in Seq(Byte)
      BY <1>1, StreamsAssumption DEF IInv, TypeOK
    <3>3. i <= args.size /\ args.size <= received /\ received <= Len(stream)
          /\ args.size \in Nat /\ received \in Nat
      BY <1>1 DEF IInv, TypeOK, WithinInput, Args
    <3>4. Len(stream) \in Nat
      BY <3>2
    <3>5. i <= Len(stream)
      BY <3>1, <3>3, <3>4
    <3> QED
      BY <3>1, <3>2, <3>5
  <2>3. \A j \in HeaderLines : /\ ColonOf(j) \in Nat /\ j <= ColonOf(j) /\ ColonOf(j) < i
                               /\ At(ColonOf(j)) = COLON
    BY <1>1, <2>2, LinesWithin
  <2>4. Table[h] \in Seq(Byte) /\ Len(Table[h]) \in Nat
    BY <2>1, TableAssumption DEF KnownHeaders
  <2>5. k \in alike
    <3>1. ColonOf(k) - k \in Nat /\ k \in Nat
      BY <2>2, <2>3
    <3>2. DOMAIN NameText(k) = 1..(ColonOf(k) - k)
      BY DEF NameText
    <3>3. 1..Len(Table[h]) = 1..(ColonOf(k) - k)
      BY <1>0, <2>1, <2>4, <3>2
    <3>4. Len(Table[h]) = ColonOf(k) - k
      BY <2>4, <3>1, <3>3
    <3>5. ASSUME NEW j \in 1..Len(Table[h])
          PROVE  k + j <= Len(stream) /\ Lower(stream[k + j]) = Table[h][j]
      <4>1. k + j <= Len(stream)
        BY <2>2, <2>3, <2>4, <3>1, <3>4
      <4>2. Table[h][j] = Lower(At(k + j - 1))
        BY <1>0, <2>1, <3>3 DEF NameText
      <4>3. (k + j - 1) + 1 = k + j
        BY <3>1
      <4> QED
        BY <4>1, <4>2, <4>3 DEF At
    <3> QED
      BY <1>0, <1>1, <3>5 DEF PrefixAt
  <2>6. ASSUME NEW j \in alike PROVE http_header_lookup(stream, j) = h
    <3>1. /\ j \in Nat /\ ColonOf(j) \in Nat /\ ColonOf(j) = j + Len(Table[h])
          /\ ColonOf(j) < Len(stream) /\ At(ColonOf(j)) = COLON
          /\ PrefixAt(Table[h], stream, j)
      <4>1. j \in HeaderLines /\ PrefixAt(Table[h], stream, j) /\ ColonOf(j) - j = Len(Table[h])
        BY <1>0, <1>1
      <4> QED
        <5>1. /\ j \in Nat /\ ColonOf(j) \in Nat /\ ColonOf(j) < i
              /\ At(ColonOf(j)) = COLON
          BY <2>2, <2>3, <4>1
        <5>2. Len(stream) \in Nat
          BY <2>2
        <5> QED
          BY <2>2, <2>4, <4>1, <5>1, <5>2
    <3> QED
      BY <1>1, <2>1, <3>1, LookupFinds
  <2>7. ASSUME NEW j \in HeaderLines, http_header_lookup(stream, j) = h
        PROVE  j \in alike
    <3>1. h # UNKNOWN
      BY <2>1 DEF KnownHeaders, UNKNOWN
    <3>2. PrefixAt(Table[h], stream, j)
      BY <2>7, <3>1, LookupBegins
    <3> QED
      BY <1>0, <1>1, <3>2
  <2>8. {j \in HeaderLines : RowOf(HeaderLines)[j] = h} = alike
    BY <1>1, <2>6, <2>7 DEF RowOf
  <2> QED
    BY <1>1, <2>1, <2>5, <2>8 DEF HeadersAreAsSent, StoreHolds
<1>2. IInv /\ HeadersRead /\ HeadersAreAsSent => NamesReachTheirSlots
  BY <1>1 DEF NamesReachTheirSlots
<1> QED
  BY <1>2, ReachableHeaders, HeadersAreCorrect, PTL

=============================================================================
