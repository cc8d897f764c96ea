-------------------------- MODULE CosmoReadingProofs --------------------------
(***************************************************************************)
(* Proofs that what the reference parser records is what the bytes spell,  *)
(* when they arrive line by line, and that it then implements the abstract *)
(* specification.                                                          *)
(*                                                                         *)
(* Its index runs one past the input when the loop over a run of bytes     *)
(* meets the end of the input, so that the byte that arrives next is not   *)
(* looked at.  A line's last byte ends every run, so this comes to nothing *)
(* for a caller that hands over whole lines: the bytes that have been read *)
(* are those before Reached, and each iteration reads one more.  By that   *)
(* measure the proofs are those of HttpReadingProofs and                   *)
(* HttpMessageProofs.                                                      *)
(***************************************************************************)
EXTENDS CosmoProofs, FiniteSetTheorems, SequenceTheorems

-----------------------------------------------------------------------------
(* How far the parser has read *)

\* Either the call's bytes end in a line feed, which ends every run of bytes, or
\* no more will be looked at.
WholeLines(n) ==
  n = 0 \/ n = Len(stream) \/ At(n - 1) = LF

NoMore(n) == n = Len(stream) \/ n = SHRT_MAX

Lined ==
  /\ WholeLines(received)
  /\ NoMore(args.size) \/ (WholeLines(args.size) /\ i <= args.size)

\* One iteration
Iteration == Start \/ Method \/ Uri \/ Version \/ Status \/ Message \/ Cr \/ Lf1
               \/ Name \/ Colon \/ Value \/ Lf2

\* What is needed of the types
LEMMA FieldTypes ==
  ASSUME BoundsInv
  PROVE  /\ i \in Nat /\ Reached \in Nat /\ Reached <= Len(stream) /\ args.size \in Nat
         /\ stream \in Seq(Byte) /\ Len(stream) \in Nat
         /\ received \in Nat /\ received <= Len(stream)
         /\ method \in Seq(Byte) /\ key \in Slices /\ line \in LinesOfText /\ store \in Stores
<1>1. /\ stream \in Seq(Byte) /\ Len(stream) \in Nat /\ received \in 0..Len(stream)
      /\ args.size <= received
      /\ method \in Seq(Byte) /\ key \in Slices /\ line \in LinesOfText /\ store \in Stores
  BY CosmoAssumption DEF BoundsInv, Typed
<1>2. i \in Nat /\ Reached \in Nat /\ args.size \in Nat
  BY Offsets DEF BoundsInv
<1>3. Reached <= args.size
  BY <1>2 DEF Reached
<1> QED
  BY <1>1, <1>2, <1>3

\* How an iteration ends
LEMMA IterationEnds ==
  ASSUME Iteration
  PROVE  /\ pc = "loop" /\ i < args.size
         /\ UNCHANGED <<stream, received, type, args>>
         /\ \/ i' = i + 1 /\ failure' = "none"
            \/ /\ i' = IF i + 1 = args.size THEN i + 2 ELSE i + 1
               /\ failure' = "none"
               /\ Ch # LF
            \/ /\ i' = i /\ failure' = "syntax"
               /\ pc' = "idle" /\ ret' = -1
<1>1. /\ pc = "loop" /\ i < args.size
      /\ UNCHANGED <<stream, received, type, args>>
  BY DEF Iteration, Start, Method, Uri, Version, Status, Message, Cr, Lf1, Name, Colon,
     Value, Lf2, Reading, Outside, peer
<1>2. \/ \E s \in States : Continue(s) \/ (NextOfRun(s) /\ Ch # LF) \/ Bad(s)
      \/ Succeed
  <2> USE DEF States, EndOfLine
  <2>1. CASE Start \/ Uri \/ Version \/ Message
    BY <2>1 DEF Start, Uri, Version, Message, IsCrlf, IsCrlfOrSpace
  <2>2. CASE Method \/ Name
    <3>1. kHttpToken(Ch) => Ch # LF
      BY DEF kHttpToken, IsToken, Tokens, LF
    <3> QED
      BY <2>2, <3>1 DEF Method, Name
  <2>3. CASE Status
    <3>1. IsDigit(Ch) => Ch # LF
      BY DEF IsDigit, LF
    <3> QED
      BY <2>3, <3>1 DEF Status, StatusDigit
  <2>4. CASE Cr \/ Lf1 \/ Lf2
    BY <2>4 DEF Cr, Lf1, Lf2
  <2>5. CASE Colon \/ Value
    BY <2>5 DEF Colon, Value, ValueByte, IsCrlf
  <2> QED
    BY <2>1, <2>2, <2>3, <2>4, <2>5 DEF Iteration
<1> QED
  BY <1>1, <1>2 DEF Continue, NextOfRun, Bad, Succeed

\* An iteration reads the byte at the index, and none is left out.
LEMMA IterationReads ==
  ASSUME BoundsInv, Iteration
  PROVE  /\ pc = "loop" /\ i = Reached /\ i \in 0..SHRT_MAX /\ i < Len(stream)
         /\ Ch = At(Reached) /\ Ch \in Byte
         /\ UNCHANGED <<stream, type>>
         /\ failure' # "syntax" => Reached' = Reached + 1 /\ failure' = "none"
         /\ failure' = "syntax" => Reached' = Reached /\ pc' = "idle" /\ ret' = -1
<1>1. /\ i < args.size /\ i = Reached /\ i \in 0..SHRT_MAX /\ Ch \in Byte
      /\ args.size \in Nat /\ args.size <= Len(stream)
  <2>1. i < args.size
    BY IterationEnds
  <2>2. args.size \in Nat /\ i \in 0..SHRT_MAX /\ Reached = i /\ Ch \in Byte
    BY <2>1, Offsets DEF BoundsInv
  <2>3. received \in 0..Len(stream) /\ args.size <= received /\ Len(stream) \in Nat
    BY CosmoAssumption DEF BoundsInv, Typed
  <2> QED
    BY <2>1, <2>2, <2>3
<1>2. i < Len(stream) /\ Ch = At(Reached)
  <2>1. Len(stream) \in Nat
    BY FieldTypes
  <2> QED
    BY <1>1, <2>1 DEF Ch
<1>3. Reached' = IF i' > args.size THEN args.size ELSE i'
  BY IterationEnds DEF Reached
<1>4. ASSUME failure' # "syntax" PROVE Reached' = i + 1 /\ failure' = "none"
  BY <1>1, <1>3, <1>4, IterationEnds
<1>5. ASSUME failure' = "syntax" PROVE Reached' = i /\ pc' = "idle" /\ ret' = -1
  BY <1>1, <1>3, <1>5, IterationEnds
<1> QED
  BY <1>1, <1>2, <1>4, <1>5, IterationEnds

\* What a call may look at, as far as it is clamped
LEMMA CallReads ==
  ASSUME BoundsInv, Lined, NEW c \in Capacities, Call(c)
  PROVE  Reached' = Reached /\ Lined'
<1>1. /\ UNCHANGED <<stream, received, i>>
      /\ UNCHANGED args \/ args' = [size |-> Clamp(received), capacity |-> Clamp(c)]
  BY DEF Call, peer, parser
<1>2. CASE UNCHANGED args
  BY <1>1, <1>2 DEF Lined, WholeLines, NoMore, Reached, At
<1>3. CASE args' = [size |-> Clamp(received), capacity |-> Clamp(c)]
  <2>1. /\ received \in Nat /\ received <= Len(stream) /\ Len(stream) \in Nat
        /\ args.size \in Nat /\ args.size <= received /\ args.size <= SHRT_MAX
        /\ i \in Nat /\ SHRT_MAX \in Nat
    <3>1. received \in 0..Len(stream) /\ args.size \in 0..SHRT_MAX /\ args.size <= received
      BY DEF BoundsInv, Typed
    <3> QED
      BY <3>1, FieldTypes, Widths
  <2>2. PICK m \in Nat : m = Clamp(received) /\ args'.size = m
    BY <1>3, <2>1 DEF Clamp
  <2>3. args.size <= m /\ (m = received \/ m = SHRT_MAX)
    BY <2>1, <2>2 DEF Clamp
  <2>4. Reached' = IF i > m THEN m ELSE i
    BY <1>1, <2>2 DEF Reached
  <2>5. CASE i <= args.size
    <3>1. Reached = i /\ Reached' = i /\ i <= m
      BY <2>1, <2>3, <2>4, <2>5 DEF Reached
    <3>2. NoMore(m)' \/ WholeLines(m)'
      BY <1>1, <2>3 DEF Lined, NoMore, WholeLines, At
    <3>3. WholeLines(received)'
      BY <1>1 DEF Lined, WholeLines, At
    <3> QED
      BY <1>1, <2>2, <3>1, <3>2, <3>3 DEF Lined, NoMore, WholeLines
  <2>6. CASE ~(i <= args.size)
    <3>1. NoMore(args.size)
      BY <2>6 DEF Lined
    <3>2. m = args.size
      <4>1. CASE args.size = Len(stream)
        BY <2>1, <2>2, <4>1 DEF Clamp
      <4>2. CASE args.size = SHRT_MAX
        BY <2>1, <2>2, <2>3, <4>2 DEF Clamp
      <4> QED
        BY <3>1, <4>1, <4>2 DEF NoMore
    <3>3. Reached' = Reached
      BY <2>4, <3>2 DEF Reached
    <3>4. args'.size = args.size
      BY <2>2, <3>2
    <3> QED
      BY <1>1, <3>1, <3>3, <3>4 DEF Lined, NoMore, WholeLines, At
  <2> QED
    BY <2>1, <2>5, <2>6
<1> QED
  BY <1>1, <1>2, <1>3

\* Steps that look at no byte
Rests == UNCHANGED <<stream, type, state, i, cursor, method, key, line, store, lost>>

\* Every step reads a byte, or refuses one, or leaves what has been read; unless a
\* message begins.
LEMMA StepReads ==
  ASSUME BoundsInv, Lined, [LineNext]_vars
  PROVE  \/ Iteration /\ Lined'
         \/ Rests /\ Reached' = Reached /\ Lined' /\ UNCHANGED <<failure, ret, pc>>
         \/ ReturnUsedUp /\ Rests /\ Reached' = Reached /\ Lined'
         \/ \E c \in Capacities : Call(c) /\ Rests /\ Reached' = Reached /\ Lined'
         \/ \E s \in Streams, ty \in Types : Begin(s, ty, ResetStore) /\ Lined' /\ Reached' = 0
<1>1. CASE Iteration
  <2>1. /\ i < args.size /\ UNCHANGED <<stream, received, args>>
        /\ i' = i + 1 \/ i' = i
           \/ (Ch # LF /\ i' = IF i + 1 = args.size THEN i + 2 ELSE i + 1)
    BY <1>1, IterationEnds
  <2>2. i \in Nat /\ args.size \in Nat
    BY FieldTypes
  <2>3. i' <= args.size \/ (Ch # LF /\ i + 1 = args.size)
    BY <2>1, <2>2
  <2>4. CASE i' <= args.size
    BY <1>1, <2>1, <2>4 DEF Lined, WholeLines, NoMore, At
  <2>5. CASE Ch # LF /\ i + 1 = args.size
    <3>1. At(args.size - 1) # LF /\ args.size # 0
      <4>1. args.size - 1 = i
        BY <2>2, <2>5
      <4> QED
        BY <2>2, <2>5, <4>1 DEF Ch
    <3>2. NoMore(args.size)
      BY <2>2, <3>1 DEF Lined, WholeLines, NoMore
    <3> QED
      BY <1>1, <2>1, <3>2 DEF Lined, WholeLines, NoMore, At
  <2> QED
    BY <2>3, <2>4, <2>5
<1>2. CASE ReturnUsedUp \/ UNCHANGED vars
  <2>1. Rests /\ UNCHANGED <<received, args>>
    BY <1>2 DEF ReturnUsedUp, vars, parser, peer, Rests
  <2>2. Reached' = Reached /\ Lined'
    BY <2>1 DEF Rests, Reached, Lined, WholeLines, NoMore, At
  <2> QED
    BY <1>2, <2>1, <2>2 DEF vars
<1>3. CASE \E c \in Capacities : Call(c)
  BY <1>3, CallReads DEF Call, parser, peer, Rests
<1>4. CASE \E n \in 1..Len(stream) : /\ Receive(n)
                                     /\ received' = Len(stream) \/ stream[received'] = LF
  <2>1. PICK n \in 1..Len(stream) : /\ Receive(n)
                                    /\ received' = Len(stream) \/ stream[received'] = LF
    BY <1>4
  <2>2. /\ Rests /\ UNCHANGED <<args, failure, ret, pc>> /\ received' = received + n
    BY <2>1 DEF Receive, parser, Rests
  <2>3. received' \in Nat /\ At(received' - 1) = stream[received']
    <3>1. received' \in Nat /\ received' - 1 + 1 = received'
      BY <2>2, FieldTypes
    <3> QED
      BY <3>1 DEF At
  <2>4. WholeLines(received)'
    BY <2>1, <2>2, <2>3 DEF WholeLines, Rests, At
  <2>5. Lined' /\ Reached' = Reached
    BY <2>2, <2>4 DEF Rests, Reached, Lined, WholeLines, NoMore, At
  <2> QED
    BY <2>2, <2>5
<1>5. CASE \E s \in Streams, ty \in Types : ResetHttpMessage(s, ty)
  <2>1. PICK s \in Streams, ty \in Types : Begin(s, ty, ResetStore)
    BY <1>5 DEF ResetHttpMessage
  <2>2. /\ received' = 0 /\ i' = 0 /\ args' = [size |-> 0, capacity |-> 0]
    BY <2>1 DEF Begin
  <2>3. Lined' /\ Reached' = 0
    BY <2>2 DEF Lined, WholeLines, NoMore, Reached
  <2> QED
    BY <2>1, <2>3
<1> QED
  BY <1>1, <1>2, <1>3, <1>4, <1>5 DEF LineNext, Parse, Iteration

\* The bounds hold of this caller, too.
LEMMA LineNextBounds == BoundsInv /\ [LineNext]_vars => BoundsInv'
<1> SUFFICES ASSUME BoundsInv, [LineNext]_vars PROVE BoundsInv'
  OBVIOUS
<1>1. CASE Parse \/ (\E c \in Capacities : Call(c)) \/ UNCHANGED vars
  <2>1. [Next]_vars
    BY <1>1 DEF Next, MessageNext
  <2> QED
    BY <2>1, NextBounds
<1>2. CASE \E n \in 1..Len(stream) : Receive(n)
  <2>1. \A n \in 1..Len(stream) : n \in Nat
    BY FieldTypes
  <2> QED
    BY <1>2, <2>1, ReceiveBounds
<1>3. CASE \E s \in Streams, ty \in Types : ResetHttpMessage(s, ty)
  <2>1. [Next]_vars
    BY <1>3 DEF Next
  <2> QED
    BY <2>1, NextBounds
<1> QED
  BY <1>1, <1>2, <1>3 DEF LineNext

\* They come to an invariant of its specification.
LEMMA ReachableBounds == LineSpec => [](BoundsInv /\ Lined)
<1>1. Init => Lined
  BY DEF Init, Lined, WholeLines, NoMore
<1>2. BoundsInv /\ Lined /\ [LineNext]_vars => BoundsInv' /\ Lined'
  BY StepReads, LineNextBounds
<1> QED
  BY <1>1, <1>2, InitBounds, PTL DEF LineSpec

-----------------------------------------------------------------------------
(* The first line: how far a second reading of its bytes has got, by state *)

PastFirstLine == state \in {"CR", "LF1", "LF2", "NAME", "COLON", "VALUE"}

\* The message begins at offset a: what is before it is CR and LF.
LeadIs(a) ==
  /\ a \in 0..(Reached - 1)
  /\ ~IsCrlf(At(a))
  /\ \A k \in 0..(a - 1) : IsCrlf(At(k))

\* The first byte of the set from an offset on, among those read, is at to.
Ends(from, to, bytes) ==
  /\ to \in from..(Reached - 1)
  /\ At(to) \in bytes
  /\ \A k \in from..(to - 1) : At(k) \notin bytes

\* None has been read from an offset on.
Lacks(from, bytes) ==
  /\ from <= Reached
  /\ \A k \in from..(Reached - 1) : At(k) \notin bytes

CrlfBytes  == {CR, LF}
BlankBytes == {CR, LF, SP}

MethodIs(a, u) ==
  /\ Len(method) = u - a
  /\ \A k \in 1..Len(method) : method[k] = Upper(At(a + k - 1))

UriIs(u, v) == line.uri = [start |-> u + 1, end |-> v]

\* The eight bytes from p on are "HTTP/d.d", and so they are recorded.
VersionIs(p) ==
  /\ SubSeq(stream, p + 1, p + 5) = <<72, 84, 84, 80, 47>> /\ At(p + 6) = 46
  /\ IsDigit(At(p + 5)) /\ IsDigit(At(p + 7))
  /\ line.version = (At(p + 5) - 48) * 10 + (At(p + 7) - 48)

\* The decimal digit before an offset, k places to the left
Digit(w, k) == At(w - k) - 48

\* The status is the number that the digits from d to w spell.
StatusIs(d, w) ==
  line.status = CASE w = d     -> 0
                  [] w = d + 1 -> Digit(w, 1)
                  [] w = d + 2 -> 10 * Digit(w, 2) + Digit(w, 1)
                  [] OTHER     -> 100 * Digit(w, 3) + 10 * Digit(w, 2) + Digit(w, 1)

ThreeDigits(w) ==
  line.status = 100 * Digit(w, 3) + 10 * Digit(w, 2) + Digit(w, 1)

\* What has been read of a request's line
StartOfLine ==
  /\ line = NoLine
  /\ method = <<>>
  /\ \A k \in 0..(Reached - 1) : IsCrlf(At(k))

InMethod ==
  \E a \in 0..Reached : LeadIs(a) /\ Lacks(a, {SP}) /\ MethodIs(a, Reached)

InUri ==
  \E a, u \in 0..Reached :
    /\ LeadIs(a) /\ Ends(a, u, {SP}) /\ MethodIs(a, u)
    /\ cursor = u + 1
    /\ Lacks(u + 1, BlankBytes)

InVersion ==
  \E a, u, v \in 0..Reached :
    /\ LeadIs(a) /\ Ends(a, u, {SP}) /\ MethodIs(a, u)
    /\ Ends(u + 1, v, BlankBytes) /\ UriIs(u, v)
    /\ At(v) = SP
    /\ cursor = v + 1

RequestLine ==
  \E a, u, v \in 0..Reached :
    /\ LeadIs(a) /\ Ends(a, u, {SP}) /\ MethodIs(a, u)
    /\ Ends(u + 1, v, BlankBytes) /\ UriIs(u, v)
    /\ IF At(v) = SP THEN VersionIs(v + 1) /\ v + 9 <= Reached ELSE line.version = 9

\* and of a response's
InStatusVersion ==
  \E a \in 0..Reached : LeadIs(a) /\ cursor = a /\ line = NoLine

InStatus(kept) ==
  \E a \in 0..Reached :
    /\ LeadIs(a)
    /\ VersionIs(a) /\ line.message = NoSlice
    /\ Lacks(a + 9, BlankBytes)
    /\ \A k \in (a + 9)..(Reached - 1) : IsDigit(At(k))
    /\ kept => StatusIs(a + 9, Reached) /\ line.status \in 0..999

InMessage(kept) ==
  \E a, w \in 0..Reached :
    /\ LeadIs(a)
    /\ VersionIs(a)
    /\ Ends(a + 9, w, BlankBytes) /\ At(w) = SP
    /\ kept => ThreeDigits(w)
    /\ cursor = w + 1
    /\ Lacks(w + 1, CrlfBytes)

StatusLine(kept) ==
  \E a, w \in 0..Reached :
    /\ LeadIs(a)
    /\ VersionIs(a)
    /\ Ends(a + 9, w, BlankBytes)
    /\ kept => ThreeDigits(w)
    /\ IF At(w) = SP
         THEN \E e \in 0..Reached : Ends(w + 1, e, CrlfBytes)
                                    /\ line.message = [start |-> w + 1, end |-> e]
         ELSE line.message = NoSlice

\* "kept" says whether the status, too, is what has been read.
FirstLineRead(kept) ==
  /\ state = "START"  => StartOfLine
  /\ state = "METHOD" => type = kHttpRequest /\ InMethod
  /\ state = "URI"    => type = kHttpRequest /\ InUri
  /\ state = "VERSION" /\ type = kHttpRequest => InVersion
  /\ state = "VERSION" /\ type # kHttpRequest => InStatusVersion
  /\ state = "STATUS"  => type # kHttpRequest /\ InStatus(kept)
  /\ state = "MESSAGE" => type # kHttpRequest /\ InMessage(kept)
  /\ PastFirstLine /\ type = kHttpRequest => RequestLine
  /\ PastFirstLine /\ type # kHttpRequest => StatusLine(kept)

\* The caller does not call again after a malformed byte of a response: a
\* status that is too large is not multiplied by ten once more.
StatusIsKept == "syntax" \notin Retryable \/ kHttpResponse \notin Types

FirstLineInv ==
  /\ type \in Types
  /\ FirstLineRead(FALSE)
  /\ StatusIsKept =>
       /\ type = kHttpResponse /\ (pc = "loop" \/ ret = 0) => failure # "syntax"
       /\ failure # "syntax" \/ PastFirstLine => FirstLineRead(TRUE)

-----------------------------------------------------------------------------
(* One more byte, or none *)

\* What has been found among the bytes read stays found.
LEMMA FoundStays ==
  ASSUME BoundsInv, UNCHANGED stream, Reached' = Reached \/ Reached' = Reached + 1
  PROVE  /\ \A a \in Nat : LeadIs(a) => LeadIs(a)'
         /\ \A from, to \in Nat : \A bytes :
              Ends(from, to, bytes) => Ends(from, to, bytes)'
<1>1. Reached \in Nat /\ (Reached' = Reached \/ Reached' = Reached + 1)
  BY FieldTypes
<1>2. \A k : At(k)' = At(k)
  BY DEF At
<1>3. \A from \in Nat : \A to \in from..(Reached - 1) : to \in from..(Reached' - 1)
  <2>1. CASE Reached' = Reached
    BY <1>1, <2>1
  <2>2. CASE Reached' = Reached + 1
    BY <1>1, <2>2
  <2> QED
    BY <1>1, <2>1, <2>2
<1>4. ASSUME NEW a \in Nat, LeadIs(a) PROVE LeadIs(a)'
  BY <1>2, <1>3, <1>4 DEF LeadIs
<1>5. ASSUME NEW from \in Nat, NEW to \in Nat, NEW bytes, Ends(from, to, bytes)
      PROVE  Ends(from, to, bytes)'
  BY <1>2, <1>3, <1>5 DEF Ends
<1> QED
  BY <1>4, <1>5

\* The byte just read is the first of its set, or the set is still lacking.
LEMMA ReadOn ==
  ASSUME BoundsInv, UNCHANGED stream, Reached' = Reached + 1, i = Reached,
         NEW from \in Nat, NEW bytes, Lacks(from, bytes)
  PROVE  /\ Ch \notin bytes => Lacks(from, bytes)'
         /\ \A to \in Nat : to = Reached /\ Ch \in bytes => Ends(from, to, bytes)'
<1>1. Reached \in Nat
  BY FieldTypes
<1>2. Ch \notin bytes => Lacks(from, bytes)'
  BY <1>1 DEF Lacks, At, Ch
<1>3. ASSUME NEW to \in Nat, to = Reached, Ch \in bytes PROVE Ends(from, to, bytes)'
  BY <1>1, <1>3 DEF Lacks, Ends, At, Ch
<1> QED
  BY <1>2, <1>3

\* Nothing has been read from the next offset on.
LEMMA ReadNothing ==
  ASSUME BoundsInv, Reached' = Reached + 1, NEW from \in Nat, from = Reached + 1, NEW bytes
  PROVE  Lacks(from, bytes)'
  BY FieldTypes DEF Lacks

\* A method that is not touched is still the one that was read.
LEMMA MethodStays ==
  ASSUME UNCHANGED <<stream, method>>, NEW a, NEW u, MethodIs(a, u)
  PROVE  MethodIs(a, u)'
  BY DEF MethodIs, At

\* One more character of the method
LEMMA MethodGrows ==
  ASSUME BoundsInv, UNCHANGED stream, Reached' = Reached + 1, i = Reached,
         method' = Append(method, Upper(Ch)),
         NEW a \in Nat, a <= Reached, MethodIs(a, Reached)
  PROVE  MethodIs(a, Reached)'
<1>1. /\ method \in Seq(Byte) /\ Len(method) \in Nat
      /\ Reached \in Nat /\ Len(method) = Reached - a
  BY FieldTypes DEF MethodIs, BoundsInv, Typed
<1>2. /\ Len(method') = Len(method) + 1
      /\ \A k \in 1..Len(method) : method'[k] = method[k]
      /\ method'[Len(method) + 1] = Upper(Ch)
  BY <1>1
<1>3. ASSUME NEW k \in 1..Len(method') PROVE method'[k] = Upper(At(a + k - 1)')
  <2>1. At(a + k - 1)' = At(a + k - 1)
    BY DEF At
  <2>2. CASE k \in 1..Len(method)
    BY <1>2, <2>1, <2>2 DEF MethodIs
  <2>3. CASE k = Len(method) + 1
    <3>1. a + k - 1 = Reached
      BY <1>1, <2>3
    <3> QED
      BY <1>2, <2>1, <2>3, <3>1 DEF Ch
  <2> QED
    BY <1>1, <1>2, <2>2, <2>3
<1>4. Len(method') = Reached' - a
  BY <1>1, <1>2
<1> QED
  BY <1>3, <1>4 DEF MethodIs

\* The first byte that is neither CR nor LF
LEMMA LeadFound ==
  ASSUME BoundsInv, UNCHANGED stream, Reached' = Reached + 1, i = Reached, ~IsCrlf(Ch),
         \A k \in 0..(Reached - 1) : IsCrlf(At(k)), NEW a \in Nat, a = Reached
  PROVE  LeadIs(a)'
<1>1. Reached \in Nat
  BY FieldTypes
<1>2. \A k : At(k)' = At(k)
  BY DEF At
<1>3. a \in 0..(Reached' - 1) /\ At(a) = Ch
  BY <1>1 DEF Ch
<1> QED
  BY <1>2, <1>3 DEF LeadIs

\* A step that reads nothing and records nothing
LEMMA NothingRead ==
  ASSUME NEW kept \in BOOLEAN, FirstLineRead(kept),
         UNCHANGED <<stream, type, state, Reached, cursor, method, line>>
  PROVE  FirstLineRead(kept)'
<1>1. \A k : At(k)' = At(k)
  BY DEF At
<1>2. \A a : LeadIs(a)' <=> LeadIs(a)
  BY <1>1 DEF LeadIs
<1>3. \A from, to, bytes : /\ Ends(from, to, bytes)' <=> Ends(from, to, bytes)
                           /\ Lacks(from, bytes)' <=> Lacks(from, bytes)
  BY <1>1 DEF Ends, Lacks
<1>4. \A a, u : MethodIs(a, u)' <=> MethodIs(a, u)
  BY <1>1 DEF MethodIs
<1>5. \A u, v : UriIs(u, v)' <=> UriIs(u, v)
  BY DEF UriIs
<1>6. \A d, w : (StatusIs(d, w)' <=> StatusIs(d, w)) /\ (ThreeDigits(w)' <=> ThreeDigits(w))
  BY <1>1 DEF StatusIs, ThreeDigits, Digit
<1>7. \A p : VersionIs(p)' <=> VersionIs(p)
  BY <1>1 DEF VersionIs
<1>8. (StartOfLine => StartOfLine') /\ (InStatusVersion => InStatusVersion')
  BY <1>1, <1>2 DEF StartOfLine, InStatusVersion
<1>9. (InMethod => InMethod') /\ (InUri => InUri')
  BY <1>1, <1>2, <1>3, <1>4, <1>8 DEF InMethod, InUri
<1>10. (InVersion => InVersion') /\ (RequestLine => RequestLine')
  BY <1>1, <1>2, <1>3, <1>4, <1>5, <1>7 DEF InVersion, RequestLine
<1>11. InStatus(kept) => InStatus(kept)'
  BY <1>1, <1>2, <1>3, <1>6, <1>7 DEF InStatus
<1>12. (InMessage(kept) => InMessage(kept)') /\ (StatusLine(kept) => StatusLine(kept)')
  BY <1>1, <1>2, <1>3, <1>6, <1>7 DEF InMessage, StatusLine
<1> QED
  BY <1>8, <1>9, <1>10, <1>11, <1>12 DEF FirstLineRead, PastFirstLine

-----------------------------------------------------------------------------
(* A request's line *)

\* STATE_START, of either type
LEMMA StartRead ==
  ASSUME NEW kept \in BOOLEAN, BoundsInv, StartOfLine, Start, failure' # "syntax"
  PROVE  FirstLineRead(kept)'
<1>1. /\ state = "START" /\ Reached \in Nat /\ Reached' = Reached + 1 /\ i = Reached
      /\ UNCHANGED <<stream, type, line>>
  BY FieldTypes, IterationReads DEF Iteration, Start, Reading
<1>2. \A k : At(k)' = At(k)
  BY <1>1 DEF At
<1>3. CASE IsCrlf(Ch)
  <2>1. state' = "START" /\ UNCHANGED method
    BY <1>3 DEF Start, Continue, Bad, kHttpToken, IsToken, Tokens, IsCrlf, CR, LF
  <2>2. \A k \in 0..(Reached' - 1) : k \in 0..(Reached - 1) \/ k = Reached
    BY <1>1
  <2>3. StartOfLine'
    BY <1>1, <1>2, <1>3, <2>1, <2>2 DEF StartOfLine, Ch
  <2> QED
    BY <2>1, <2>3 DEF FirstLineRead, PastFirstLine
<1>4. CASE ~IsCrlf(Ch)
  <2>1. PICK a \in Nat : a = Reached
    BY <1>1
  <2>2. LeadIs(a)' /\ a \in 0..Reached'
    BY <1>1, <1>4, <2>1, LeadFound DEF StartOfLine
  <2>3. CASE type = kHttpRequest
    <3>1. /\ state' = "METHOD" /\ kHttpToken(Ch)
          /\ method' = <<Upper(Ch)>>
      BY <1>4, <2>3 DEF Start, Continue, Bad
    <3>2. method' = Append(method, Upper(Ch))
      BY <3>1 DEF StartOfLine
    <3>3. MethodIs(a, Reached)
      BY <1>1, <2>1 DEF MethodIs, StartOfLine
    <3>4. MethodIs(a, Reached)'
      BY <1>1, <2>1, <3>2, <3>3, MethodGrows
    <3>5. Lacks(a, {SP})
      BY <1>1, <2>1 DEF Lacks
    <3>6. Ch \notin {SP}
      BY <3>1 DEF kHttpToken, IsToken, Tokens, SP
    <3>7. Lacks(a, {SP})'
      BY <1>1, <2>1, <3>5, <3>6, ReadOn
    <3>8. InMethod'
      BY <2>2, <3>4, <3>7 DEF InMethod
    <3> QED
      BY <1>1, <2>3, <3>1, <3>8 DEF FirstLineRead, PastFirstLine
  <2>4. CASE type # kHttpRequest
    <3>1. state' = "VERSION" /\ cursor' = Reached
      BY <1>1, <1>4, <2>4 DEF Start, Continue, Bad
    <3>2. InStatusVersion'
      BY <1>1, <2>1, <2>2, <3>1 DEF InStatusVersion, StartOfLine
    <3> QED
      BY <1>1, <2>4, <3>1, <3>2 DEF FirstLineRead, PastFirstLine
  <2> QED
    BY <2>3, <2>4
<1> QED
  BY <1>3, <1>4

\* STATE_METHOD
LEMMA MethodRead ==
  ASSUME NEW kept \in BOOLEAN, BoundsInv, type = kHttpRequest, InMethod, Method,
         failure' # "syntax"
  PROVE  FirstLineRead(kept)'
<1>1. /\ Reached \in Nat /\ Reached' = Reached + 1 /\ i = Reached
      /\ UNCHANGED <<stream, type, line>>
  BY FieldTypes, IterationReads DEF Iteration, Method
<1>2. PICK a \in 0..Reached : LeadIs(a) /\ Lacks(a, {SP}) /\ MethodIs(a, Reached)
  BY DEF InMethod
<1>3. a \in Nat /\ a <= Reached /\ LeadIs(a)' /\ a \in 0..Reached'
  BY <1>1, <1>2, FoundStays
<1>4. CASE Ch = SP
  <2>1. state' = "URI" /\ cursor' = Reached + 1 /\ UNCHANGED method
    BY <1>1, <1>4 DEF Method, NextOffset, Continue, kHttpToken, IsToken, Tokens, SP
  <2>2. PICK u \in Nat : u = Reached
    BY <1>1
  <2>3. Ends(a, u, {SP})' /\ u \in 0..Reached'
    BY <1>1, <1>2, <1>3, <1>4, <2>2, ReadOn
  <2>4. MethodIs(a, u)'
    BY <1>1, <1>2, <2>1, <2>2, MethodStays
  <2>5. Lacks(u + 1, BlankBytes)'
    BY <1>1, <2>2, ReadNothing
  <2>6. InUri'
    BY <1>3, <2>1, <2>2, <2>3, <2>4, <2>5 DEF InUri
  <2> QED
    BY <1>1, <2>1, <2>6 DEF FirstLineRead, PastFirstLine
<1>5. CASE Ch # SP
  <2>1. state' = "METHOD" /\ method' = Append(method, Upper(Ch))
    BY <1>5 DEF Method, NextOfRun, Bad
  <2>2. MethodIs(a, Reached)'
    BY <1>1, <1>2, <1>3, <2>1, MethodGrows
  <2>3. Lacks(a, {SP})'
    BY <1>1, <1>2, <1>3, <1>5, ReadOn
  <2>4. InMethod'
    BY <1>3, <2>2, <2>3 DEF InMethod
  <2> QED
    BY <1>1, <2>1, <2>4 DEF FirstLineRead, PastFirstLine
<1> QED
  BY <1>4, <1>5

\* STATE_URI
LEMMA UriRead ==
  ASSUME NEW kept \in BOOLEAN, BoundsInv, type = kHttpRequest, InUri, Uri, failure' # "syntax"
  PROVE  FirstLineRead(kept)'
<1>1. /\ Reached \in Nat /\ Reached' = Reached + 1 /\ i = Reached
      /\ UNCHANGED <<stream, type, method>>
  BY FieldTypes, IterationReads DEF Iteration, Uri
<1>2. PICK a, u \in 0..Reached :
        /\ LeadIs(a) /\ Ends(a, u, {SP}) /\ MethodIs(a, u)
        /\ cursor = u + 1
        /\ Lacks(u + 1, BlankBytes)
  BY DEF InUri
<1>3. /\ a \in Nat /\ u \in Nat /\ a \in 0..Reached' /\ u \in 0..Reached'
      /\ LeadIs(a)' /\ Ends(a, u, {SP})' /\ MethodIs(a, u)'
  BY <1>1, <1>2, FoundStays, MethodStays
<1>4. \A k : At(k)' = At(k)
  BY <1>1 DEF At
<1>5. CASE IsCrlfOrSpace(Ch)
  <2>1. i # cursor /\ line \in LinesOfText
    BY <1>5, FieldTypes DEF Uri, Bad
  <2>2. /\ line'.uri = [start |-> cursor, end |-> Reached]
        /\ IsCrlf(Ch) => line'.version = 9
    <3>1. \/ line' = [line EXCEPT !.uri = Slice(cursor, i)] /\ Ch = SP
          \/ line' = [line EXCEPT !.uri = Slice(cursor, i), !.version = 9]
      BY <1>5, <2>1 DEF Uri, IsCrlf, IsCrlfOrSpace
    <3>2. Slice(cursor, i) = [start |-> cursor, end |-> i]
      <4>1. cursor \in 0..SHRT_MAX /\ i \in 0..SHRT_MAX
        <5>1. state # "METHOD" /\ i < args.size /\ Iteration
          BY DEF Uri, Reading, Iteration
        <5> QED
          BY <5>1, Offsets DEF BoundsInv
      <4> QED
        BY <4>1, OffsetsFit
    <3>3. line'.uri = Slice(cursor, i) /\ (IsCrlf(Ch) => line'.version = 9)
      <4>1. Ch = SP => ~IsCrlf(Ch)
        BY DEF IsCrlf, SP, CR, LF
      <4>2. PICK s : s = Slice(cursor, i)
        OBVIOUS
      <4>3. \/ line' = [line EXCEPT !.uri = s] /\ Ch = SP
            \/ line' = [line EXCEPT !.uri = s, !.version = 9]
        BY <3>1, <4>2
      <4> QED
        BY <2>1, <4>1, <4>2, <4>3 DEF LinesOfText
    <3> QED
      BY <1>1, <3>2, <3>3
  <2>3. PICK v \in Nat : v = Reached
    BY <1>1
  <2>4. Ends(u + 1, v, BlankBytes)' /\ v \in 0..Reached'
    BY <1>1, <1>2, <1>3, <1>5, <2>3, ReadOn DEF IsCrlfOrSpace, BlankBytes
  <2>5. UriIs(u, v)' /\ At(v)' = Ch
    BY <1>1, <1>2, <1>4, <2>2, <2>3 DEF UriIs, Ch
  <2>6. CASE Ch = SP
    <3>1. state' = "VERSION" /\ cursor' = Reached + 1
      BY <1>1, <2>1, <2>6 DEF Uri, NextOffset, Continue, IsCrlf, CR, LF, SP, IsCrlfOrSpace
    <3>2. InVersion'
      BY <1>3, <2>3, <2>4, <2>5, <2>6, <3>1 DEF InVersion
    <3> QED
      BY <1>1, <3>1, <3>2 DEF FirstLineRead, PastFirstLine
  <2>7. CASE Ch # SP
    <3>1. IsCrlf(Ch)
      BY <1>5, <2>7 DEF IsCrlf, IsCrlfOrSpace
    <3>2. state' \in {"CR", "LF1"} /\ line'.version = 9
      BY <2>1, <2>2, <2>7, <3>1 DEF Uri, EndOfLine, Continue, IsCrlf, IsCrlfOrSpace
    <3>3. RequestLine'
      BY <1>3, <2>4, <2>5, <2>7, <3>2 DEF RequestLine
    <3> QED
      BY <1>1, <3>2, <3>3 DEF FirstLineRead, PastFirstLine
  <2> QED
    BY <2>6, <2>7
<1>6. CASE ~IsCrlfOrSpace(Ch)
  <2>1. state' = "URI" /\ UNCHANGED cursor
    BY <1>6 DEF Uri, NextOfRun, Bad, IsCrlf, IsCrlfOrSpace, SP
  <2>2. Lacks(u + 1, BlankBytes)'
    BY <1>1, <1>2, <1>3, <1>6, ReadOn DEF IsCrlfOrSpace, BlankBytes
  <2>3. InUri'
    BY <1>2, <1>3, <2>1, <2>2 DEF InUri
  <2> QED
    BY <1>1, <2>1, <2>3 DEF FirstLineRead, PastFirstLine
<1> QED
  BY <1>5, <1>6

\* A version that is not touched is still the one that was read.
LEMMA VersionStays ==
  ASSUME UNCHANGED stream, line'.version = line.version, NEW p, VersionIs(p)
  PROVE  VersionIs(p)'
  BY DEF VersionIs, At

\* The version that is recorded is the one that has been found.
LEMMA VersionRecorded ==
  ASSUME IsVersion, UNCHANGED stream, line \in LinesOfText, NEW p, p = cursor,
         line' = [line EXCEPT !.version = (At(cursor + 5) - 48) * 10 + (At(cursor + 7) - 48)]
  PROVE  VersionIs(p)' /\ line'.uri = line.uri
<1>1. PICK n : n = (At(cursor + 5) - 48) * 10 + (At(cursor + 7) - 48)
  OBVIOUS
<1>2. line' = [line EXCEPT !.version = n]
  BY <1>1, Zenon
<1>3. line'.version = n /\ line'.uri = line.uri
  BY <1>2 DEF LinesOfText
<1> QED
  BY <1>1, <1>3 DEF VersionIs, IsVersion, At

\* STATE_VERSION of a request
LEMMA VersionRead ==
  ASSUME NEW kept \in BOOLEAN, BoundsInv, type = kHttpRequest, InVersion, Version,
         failure' # "syntax"
  PROVE  FirstLineRead(kept)'
<1>1. /\ Reached \in Nat /\ Reached' = Reached + 1 /\ i = Reached
      /\ UNCHANGED <<stream, type, method, cursor>>
  BY FieldTypes, IterationReads DEF Iteration, Version
<1>2. PICK a, u, v \in 0..Reached :
        /\ LeadIs(a) /\ Ends(a, u, {SP}) /\ MethodIs(a, u)
        /\ Ends(u + 1, v, BlankBytes) /\ UriIs(u, v)
        /\ At(v) = SP
        /\ cursor = v + 1
  BY DEF InVersion
<1>3. /\ a \in Nat /\ u \in Nat /\ v \in Nat
      /\ a \in 0..Reached' /\ u \in 0..Reached' /\ v \in 0..Reached'
      /\ LeadIs(a)' /\ Ends(a, u, {SP})' /\ MethodIs(a, u)'
      /\ Ends(u + 1, v, BlankBytes)'
  BY <1>1, <1>2, FoundStays, MethodStays
<1>4. At(v)' = At(v)
  BY <1>1 DEF At
<1>5. CASE IsCrlfOrSpace(Ch)
  <2>1. /\ IsVersion /\ state' \in {"CR", "LF1"}
        /\ line' = [line EXCEPT !.version = (At(cursor + 5) - 48) * 10 + (At(cursor + 7) - 48)]
    BY <1>5 DEF Version, Continue, Bad, EndOfLine
  <2>2. VersionIs(v + 1)' /\ line'.uri = line.uri
    BY <1>1, <1>2, <2>1, FieldTypes, VersionRecorded
  <2>3. UriIs(u, v)'
    BY <1>2, <2>2 DEF UriIs
  <2>4. RequestLine'
    <3>1. v + 9 <= Reached'
      BY <1>1, <1>2, <1>3, <2>1 DEF IsVersion
    <3> QED
      BY <1>2, <1>3, <1>4, <2>2, <2>3, <3>1 DEF RequestLine
  <2> QED
    BY <1>1, <2>1, <2>4 DEF FirstLineRead, PastFirstLine
<1>6. CASE ~IsCrlfOrSpace(Ch)
  <2>1. state' = "VERSION" /\ UNCHANGED line
    BY <1>6 DEF Version, Continue
  <2>2. UriIs(u, v)'
    BY <1>2, <2>1 DEF UriIs
  <2>3. InVersion'
    BY <1>1, <1>2, <1>3, <1>4, <2>2 DEF InVersion
  <2> QED
    BY <1>1, <2>1, <2>3 DEF FirstLineRead, PastFirstLine
<1> QED
  BY <1>5, <1>6

-----------------------------------------------------------------------------
(* A response's line *)

\* STATE_VERSION of a response
LEMMA StatusVersionRead ==
  ASSUME NEW kept \in BOOLEAN, BoundsInv, type # kHttpRequest, InStatusVersion,
         Version, failure' # "syntax"
  PROVE  FirstLineRead(kept)'
<1>1. /\ Reached \in Nat /\ Reached' = Reached + 1 /\ i = Reached
      /\ UNCHANGED <<stream, type, method, cursor>>
  BY FieldTypes, IterationReads DEF Iteration, Version
<1>2. PICK a \in 0..Reached : LeadIs(a) /\ cursor = a /\ line = NoLine
  BY DEF InStatusVersion
<1>3. a \in Nat /\ a \in 0..Reached' /\ LeadIs(a)'
  BY <1>1, <1>2, FoundStays
<1>4. CASE IsCrlfOrSpace(Ch)
  <2>1. /\ IsVersion /\ state' = "STATUS"
        /\ line' = [line EXCEPT !.version = (At(cursor + 5) - 48) * 10 + (At(cursor + 7) - 48)]
    BY <1>4 DEF Version, Continue, Bad
  <2>2. VersionIs(a)'
    BY <1>1, <1>2, <2>1, FieldTypes, VersionRecorded
  <2>3. line'.status = 0 /\ line'.message = NoSlice
    BY <1>2, <2>1 DEF NoLine
  <2>4. Reached' = a + 9
    <3>1. Reached - a = 8
      BY <1>1, <1>2, <2>1 DEF IsVersion
    <3> QED
      BY <1>1, <1>3, <3>1
  <2>5. Lacks(a + 9, BlankBytes)' /\ a + 9 \in Nat
    BY <1>1, <1>3, <2>4, ReadNothing
  <2>6. StatusIs(a + 9, Reached)'
    BY <2>3, <2>4 DEF StatusIs
  <2>7. \A k \in (a + 9)..(Reached' - 1) : IsDigit(At(k)')
    BY <1>3, <2>4
  <2>8. InStatus(kept)'
    BY <1>3, <2>2, <2>3, <2>5, <2>6, <2>7 DEF InStatus
  <2> QED
    BY <1>1, <2>1, <2>8 DEF FirstLineRead, PastFirstLine
<1>5. CASE ~IsCrlfOrSpace(Ch)
  <2>1. state' = "VERSION" /\ UNCHANGED line
    BY <1>5 DEF Version, Continue
  <2>2. InStatusVersion'
    BY <1>1, <1>2, <1>3, <2>1 DEF InStatusVersion
  <2> QED
    BY <1>1, <2>1, <2>2 DEF FirstLineRead, PastFirstLine
<1> QED
  BY <1>4, <1>5

\* The digits that have been read, as numbers
LEMMA DigitValues ==
  ASSUME BoundsInv, NEW d \in Nat, d <= Reached,
         \A k \in d..(Reached - 1) : IsDigit(At(k))
  PROVE  /\ Reached >= d + 1 => Digit(Reached, 1) \in 0..9
         /\ Reached >= d + 2 => Digit(Reached, 2) \in 0..9
         /\ Reached >= d + 3 => Digit(Reached, 3) \in 0..9
<1>1. Reached \in Nat
  BY FieldTypes
<1>2. ASSUME NEW k \in 1..3, Reached >= d + k PROVE Digit(Reached, k) \in 0..9
  <2>1. Reached - k \in d..(Reached - 1)
    BY <1>1, <1>2
  <2> QED
    BY <2>1 DEF Digit, IsDigit
<1> QED
  BY <1>2

\* A status that is not too small has three digits at least, and is the number
\* that the last three spell.
LEMMA ThreeDigitsAtLeast ==
  ASSUME BoundsInv, NEW d \in Nat, d <= Reached,
         \A k \in d..(Reached - 1) : IsDigit(At(k)),
         StatusIs(d, Reached), ~(line.status < 100)
  PROVE  ThreeDigits(Reached)
<1>1. Reached \in Nat
  BY FieldTypes
<1>2. CASE Reached = d
  BY <1>1, <1>2 DEF StatusIs
<1>3. CASE Reached = d + 1
  BY <1>1, <1>3, DigitValues DEF StatusIs
<1>4. CASE Reached = d + 2
  BY <1>1, <1>4, DigitValues DEF StatusIs
<1>5. CASE Reached >= d + 3
  BY <1>1, <1>5 DEF StatusIs, ThreeDigits
<1> QED
  BY <1>1, <1>2, <1>3, <1>4, <1>5

\* One more digit, of a status that stays small enough
LEMMA StatusGrows ==
  ASSUME BoundsInv, UNCHANGED stream, Reached' = Reached + 1, i = Reached,
         NEW d \in Nat, d <= Reached,
         \A k \in d..(Reached - 1) : IsDigit(At(k)), IsDigit(Ch),
         StatusIs(d, Reached), line.status \in 0..999,
         line'.status = 10 * line.status + (Ch - 48), line'.status <= 999
  PROVE  StatusIs(d, Reached)'
<1>1. Reached \in Nat /\ line.status \in Nat
  <2>1. Reached \in Nat
    BY FieldTypes
  <2>2. \A n \in 0..999 : n \in Nat
    OBVIOUS
  <2> QED
    BY <2>1, <2>2, SMTT(30)
<1>2. PICK c \in 0..9 : c = Ch - 48
  BY DEF IsDigit
<1>3. line'.status = 10 * line.status + c
  BY <1>2
<1>4. 10 * line.status + c <= 999
  BY <1>3
<1>5. /\ Digit(Reached, 1)' = c
      /\ Digit(Reached, 2)' = Digit(Reached, 1)
      /\ Digit(Reached, 3)' = Digit(Reached, 2)
  <2>1. Reached' - 1 = Reached /\ Reached' - 2 = Reached - 1 /\ Reached' - 3 = Reached - 2
    BY <1>1
  <2> QED
    BY <1>2, <2>1 DEF Digit, Ch, At
<1>6. CASE Reached = d
  <2>1. line'.status = c /\ Reached' = d + 1
    BY <1>1, <1>3, <1>6 DEF StatusIs
  <2> QED
    BY <1>1, <1>5, <2>1 DEF StatusIs
<1>7. CASE Reached = d + 1
  <2>1. Digit(Reached, 1) \in 0..9
    <3>1. Reached >= d + 1
      BY <1>1, <1>7
    <3> QED
      BY <3>1, DigitValues
  <2>2. line'.status = 10 * Digit(Reached, 1) + c /\ Reached' = d + 2
    BY <1>1, <1>3, <1>7, <2>1 DEF StatusIs
  <2> QED
    BY <1>1, <1>5, <2>2 DEF StatusIs
<1>8. CASE Reached >= d + 2
  <2>1. Digit(Reached, 1) \in 0..9 /\ Digit(Reached, 2) \in 0..9
    BY <1>1, <1>8, DigitValues
  <2>2. line.status = 10 * Digit(Reached, 2) + Digit(Reached, 1)
    <3>1. CASE Reached = d + 2
      BY <1>1, <3>1 DEF StatusIs
    <3>2. CASE Reached >= d + 3
      <4>1. Digit(Reached, 3) \in 0..9
        BY <1>1, <3>2, DigitValues
      <4>2. line.status = 100 * Digit(Reached, 3) + 10 * Digit(Reached, 2) + Digit(Reached, 1)
        BY <1>1, <3>2 DEF StatusIs
      <4>3. Digit(Reached, 3) = 0
        BY <1>2, <1>4, <2>1, <4>1, <4>2
      <4> QED
        BY <2>1, <4>2, <4>3
    <3> QED
      BY <1>1, <1>8, <3>1, <3>2
  <2>3. line'.status = 100 * Digit(Reached, 2) + 10 * Digit(Reached, 1) + c
    BY <1>2, <1>3, <2>1, <2>2
  <2>4. Reached' # d /\ Reached' # d + 1 /\ Reached' # d + 2
    BY <1>1, <1>8
  <2> QED
    BY <1>5, <2>3, <2>4 DEF StatusIs
<1> QED
  BY <1>1, <1>6, <1>7, <1>8

\* STATE_STATUS
LEMMA StatusRead ==
  ASSUME NEW kept \in BOOLEAN, BoundsInv, type # kHttpRequest, InStatus(kept),
         Status, failure' # "syntax"
  PROVE  FirstLineRead(kept)'
<1>1. /\ Reached \in Nat /\ Reached' = Reached + 1 /\ i = Reached
      /\ UNCHANGED <<stream, type, method>>
      /\ state = "STATUS"
  BY FieldTypes, IterationReads DEF Iteration, Status, Reading
<1>2. PICK a \in 0..Reached :
        /\ LeadIs(a)
        /\ VersionIs(a) /\ line.message = NoSlice
        /\ Lacks(a + 9, BlankBytes)
        /\ \A k \in (a + 9)..(Reached - 1) : IsDigit(At(k))
        /\ kept => StatusIs(a + 9, Reached) /\ line.status \in 0..999
  BY DEF InStatus
<1>3. /\ a \in Nat /\ a + 9 \in Nat /\ a \in 0..Reached' /\ LeadIs(a)'
      /\ a + 9 <= Reached
  BY <1>1, <1>2, FoundStays DEF Lacks
<1>4. line'.version = line.version => VersionIs(a)'
  BY <1>1, <1>2, VersionStays
<1>5. \A k : At(k)' = At(k)
  BY <1>1 DEF At
<1>6. CASE IsCrlfOrSpace(Ch)
  <2>1. ~(line.status < 100) /\ UNCHANGED line
    <3>1. ~(Ch = SP /\ IsCrlf(Ch)) /\ ~(IsDigit(Ch) /\ IsCrlfOrSpace(Ch))
      BY DEF IsCrlf, IsCrlfOrSpace, IsDigit, SP, CR, LF
    <3>2. line.status \in Int
      BY FieldTypes DEF LinesOfText
    <3> QED
      BY <1>6, <3>1, <3>2 DEF Status, Bad
  <2>2. kept => ThreeDigits(Reached)
    BY <1>2, <1>3, <2>1, ThreeDigitsAtLeast
  <2>3. PICK w \in Nat : w = Reached
    BY <1>1
  <2>4. Ends(a + 9, w, BlankBytes)' /\ w \in 0..Reached' /\ At(w)' = Ch
    <3>1. Ch \in BlankBytes
      BY <1>6 DEF IsCrlfOrSpace, BlankBytes
    <3>2. Ends(a + 9, w, BlankBytes)'
      BY <1>1, <1>2, <1>3, <2>3, <3>1, ReadOn
    <3> QED
      BY <1>1, <1>5, <2>3, <3>2 DEF Ch
  <2>5. kept => ThreeDigits(w)'
    BY <1>5, <2>1, <2>2, <2>3 DEF ThreeDigits, Digit
  <2>6. CASE Ch = SP
    <3>1. state' = "MESSAGE" /\ cursor' = Reached + 1
      BY <1>1, <2>1, <2>6 DEF Status, NextOffset, Continue, Bad, IsCrlf, IsCrlfOrSpace,
         IsDigit, CR, LF, SP
    <3>2. Lacks(w + 1, CrlfBytes)'
      BY <1>1, <2>3, ReadNothing
    <3>3. InMessage(kept)'
      BY <1>2, <1>3, <1>4, <2>1, <2>3, <2>4, <2>5, <2>6, <3>1, <3>2 DEF InMessage
    <3> QED
      BY <1>1, <3>1, <3>3 DEF FirstLineRead, PastFirstLine
  <2>7. CASE Ch # SP
    <3>1. IsCrlf(Ch)
      BY <1>6, <2>7 DEF IsCrlf, IsCrlfOrSpace
    <3>2. state' \in {"CR", "LF1"}
      BY <2>1, <2>7, <3>1 DEF Status, EndOfLine, Continue, Bad, IsCrlfOrSpace, IsCrlf,
         IsDigit, CR, LF
    <3>3. line'.message = NoSlice
      BY <1>2, <2>1
    <3>4. StatusLine(kept)'
      BY <1>2, <1>3, <1>4, <2>1, <2>4, <2>5, <2>7, <3>3 DEF StatusLine
    <3> QED
      BY <1>1, <3>2, <3>4 DEF FirstLineRead, PastFirstLine
  <2> QED
    BY <2>6, <2>7
<1>7. CASE ~IsCrlfOrSpace(Ch)
  <2>1. IsDigit(Ch) /\ StatusDigit(10 * line.status + (Ch - 48)) /\ ~Bad("STATUS")
    BY <1>7 DEF Status, Bad, IsCrlf, IsCrlfOrSpace, SP
  <2>2. PICK sum : sum = 10 * line.status + (Ch - 48)
    OBVIOUS
  <2>3. sum \in Int /\ StatusDigit(sum)
    BY <2>2, <2>1, FieldTypes, StatusSum
  <2>4. state' = "STATUS"
    BY <2>1, <2>3, DigitOfStatus DEF NextOfRun
  <2>5. PICK n \in Int : line' = [line EXCEPT !.status = n]
    BY <2>3, DigitOfStatus
  <2>6. /\ line'.version = line.version /\ line'.message = line.message
        /\ line'.status = n
    BY <2>5, FieldTypes DEF LinesOfText
  <2>7. kept => StatusIs(a + 9, Reached)' /\ line'.status \in 0..999
    <3>1. ASSUME kept
          PROVE  /\ line'.status \in Nat /\ line'.status <= 999
                 /\ line'.status = 10 * line.status + (Ch - 48)
      <4>1. line.status \in Nat /\ line.status <= 999
        BY <1>2, <3>1
      <4>2. sum \in Nat /\ sum <= 9999
        BY <2>2, <2>1, <4>1, FieldTypes, StatusSum
      <4>3. line' = [line EXCEPT !.status = sum] /\ ~(sum > 999)
        BY <2>1, <2>3, <4>2, DigitOfStatus
      <4>4. line'.status = sum
        BY <4>3, FieldTypes DEF LinesOfText
      <4> QED
        BY <2>2, <4>2, <4>3, <4>4
    <3>2. kept => line'.status \in 0..999
      BY <3>1
    <3>3. ASSUME kept PROVE StatusIs(a + 9, Reached)'
      <4>1. StatusIs(a + 9, Reached) /\ line.status \in 0..999
        BY <1>2, <3>3
      <4>2. \A k \in (a + 9)..(Reached - 1) : IsDigit(At(k))
        BY <1>2
      <4> QED
        BY <1>1, <1>3, <2>1, <3>1, <3>3, <4>1, <4>2, StatusGrows
    <3> QED
      BY <3>2, <3>3
  <2>8. Lacks(a + 9, BlankBytes)'
    BY <1>1, <1>2, <1>3, <1>7, ReadOn DEF IsCrlfOrSpace, BlankBytes
  <2>9. \A k \in (a + 9)..(Reached' - 1) : IsDigit(At(k)')
    <3>1. ASSUME NEW k \in (a + 9)..(Reached' - 1) PROVE IsDigit(At(k)')
      <4>1. CASE k = Reached
        BY <1>1, <1>5, <2>1, <4>1 DEF Ch
      <4>2. CASE k # Reached
        <5>1. k \in (a + 9)..(Reached - 1)
          BY <1>1, <1>3, <4>2, SMTT(30)
        <5> QED
          BY <1>2, <1>5, <5>1
      <4> QED
        BY <4>1, <4>2
    <3> QED
      BY <3>1
  <2>10. InStatus(kept)'
    BY <1>2, <1>3, <1>4, <2>6, <2>7, <2>8, <2>9 DEF InStatus
  <2> QED
    BY <1>1, <2>4, <2>10 DEF FirstLineRead, PastFirstLine
<1> QED
  BY <1>6, <1>7

\* STATE_MESSAGE
LEMMA MessageRead ==
  ASSUME NEW kept \in BOOLEAN, BoundsInv, type # kHttpRequest, InMessage(kept), Message,
         failure' # "syntax"
  PROVE  FirstLineRead(kept)'
<1>1. /\ Reached \in Nat /\ Reached' = Reached + 1 /\ i = Reached
      /\ UNCHANGED <<stream, type, method, cursor>>
  BY FieldTypes, IterationReads DEF Iteration, Message
<1>2. PICK a, w \in 0..Reached :
        /\ LeadIs(a)
        /\ VersionIs(a)
        /\ Ends(a + 9, w, BlankBytes) /\ At(w) = SP
        /\ kept => ThreeDigits(w)
        /\ cursor = w + 1
        /\ Lacks(w + 1, CrlfBytes)
  BY DEF InMessage
<1>3. /\ a \in Nat /\ w \in Nat /\ a \in 0..Reached' /\ w \in 0..Reached'
      /\ LeadIs(a)' /\ Ends(a + 9, w, BlankBytes)'
  BY <1>1, <1>2, FoundStays
<1>4. \A k : At(k)' = At(k)
  BY <1>1 DEF At
<1>5. line'.version = line.version => VersionIs(a)'
  BY <1>1, <1>2, VersionStays
<1>6. CASE IsCrlf(Ch)
  <2>1. /\ state' \in {"CR", "LF1"}
        /\ line' = [line EXCEPT !.message = Slice(cursor, i)]
    BY <1>6 DEF Message, EndOfLine, Continue
  <2>2. /\ line'.message = [start |-> cursor, end |-> Reached]
        /\ line'.version = line.version /\ line'.status = line.status
    <3>1. Slice(cursor, i) = [start |-> cursor, end |-> i]
      <4>1. cursor \in 0..SHRT_MAX /\ i \in 0..SHRT_MAX
        <5>1. state # "METHOD" /\ i < args.size /\ Iteration
          BY DEF Message, Reading, Iteration
        <5> QED
          BY <5>1, Offsets DEF BoundsInv
      <4> QED
        BY <4>1, OffsetsFit
    <3>2. /\ line'.message = Slice(cursor, i)
          /\ line'.version = line.version /\ line'.status = line.status
      BY <2>1, FieldTypes DEF LinesOfText
    <3> QED
      BY <1>1, <3>1, <3>2
  <2>3. PICK e \in Nat : e = Reached
    BY <1>1
  <2>4. Ends(w + 1, e, CrlfBytes)' /\ e \in 0..Reached'
    BY <1>1, <1>2, <1>3, <1>6, <2>3, ReadOn DEF IsCrlf, CrlfBytes
  <2>5. kept => ThreeDigits(w)'
    BY <1>2, <1>4, <2>2 DEF ThreeDigits, Digit
  <2>6. line'.message = [start |-> w + 1, end |-> e]
    BY <1>2, <2>2, <2>3
  <2>7. StatusLine(kept)'
    BY <1>2, <1>3, <1>4, <1>5, <2>2, <2>4, <2>5, <2>6 DEF StatusLine
  <2> QED
    BY <1>1, <2>1, <2>7 DEF FirstLineRead, PastFirstLine
<1>7. CASE ~IsCrlf(Ch)
  <2>1. state' = "MESSAGE" /\ UNCHANGED line
    BY <1>7 DEF Message, NextOfRun, Bad
  <2>2. Lacks(w + 1, CrlfBytes)'
    BY <1>1, <1>2, <1>3, <1>7, ReadOn DEF IsCrlf, CrlfBytes
  <2>3. kept => ThreeDigits(w)'
    BY <1>2, <1>4, <2>1 DEF ThreeDigits, Digit
  <2>4. InMessage(kept)'
    BY <1>1, <1>2, <1>3, <1>4, <1>5, <2>1, <2>2, <2>3 DEF InMessage
  <2> QED
    BY <1>1, <2>1, <2>4 DEF FirstLineRead, PastFirstLine
<1> QED
  BY <1>6, <1>7

-----------------------------------------------------------------------------
(* The invariant *)

\* Behind the first line, what has been read of it stays read.
LEMMA PastRead ==
  ASSUME NEW kept \in BOOLEAN, BoundsInv, FirstLineRead(kept), PastFirstLine, PastFirstLine',
         UNCHANGED <<stream, type, method, line>>,
         Reached' = Reached \/ Reached' = Reached + 1
  PROVE  FirstLineRead(kept)'
<1>1. Reached \in Nat /\ (Reached' = Reached \/ Reached' = Reached + 1)
  BY FieldTypes
<1>2. \A k \in 0..Reached : k \in 0..Reached'
  BY <1>1
<1>3. \A k : At(k)' = At(k)
  BY DEF At
<1>4. \A p : VersionIs(p) => VersionIs(p)'
  BY <1>3 DEF VersionIs
<1>5. CASE type = kHttpRequest
  <2>1. PICK a, u, v \in 0..Reached :
          /\ LeadIs(a) /\ Ends(a, u, {SP}) /\ MethodIs(a, u)
          /\ Ends(u + 1, v, BlankBytes) /\ UriIs(u, v)
          /\ IF At(v) = SP THEN VersionIs(v + 1) /\ v + 9 <= Reached ELSE line.version = 9
    BY <1>5 DEF FirstLineRead, RequestLine
  <2>2. /\ a \in Nat /\ u \in Nat /\ v \in Nat
        /\ LeadIs(a)' /\ Ends(a, u, {SP})' /\ MethodIs(a, u)'
        /\ Ends(u + 1, v, BlankBytes)'
    BY <1>1, <2>1, FoundStays, MethodStays
  <2>3. UriIs(u, v)'
    BY <2>1 DEF UriIs
  <2>4. v + 9 <= Reached => v + 9 <= Reached'
    BY <1>1, <2>2
  <2>5. RequestLine'
    BY <1>2, <1>3, <1>4, <2>1, <2>2, <2>3, <2>4 DEF RequestLine
  <2> QED
    BY <1>5, <2>5 DEF FirstLineRead, PastFirstLine
<1>6. CASE type # kHttpRequest
  <2>1. PICK a, w \in 0..Reached :
          /\ LeadIs(a)
          /\ VersionIs(a)
          /\ Ends(a + 9, w, BlankBytes)
          /\ kept => ThreeDigits(w)
          /\ IF At(w) = SP
               THEN \E e \in 0..Reached : Ends(w + 1, e, CrlfBytes)
                                    /\ line.message = [start |-> w + 1, end |-> e]
               ELSE line.message = NoSlice
    BY <1>6 DEF FirstLineRead, StatusLine
  <2>2. /\ a \in Nat /\ w \in Nat
        /\ LeadIs(a)' /\ Ends(a + 9, w, BlankBytes)'
    BY <1>1, <2>1, FoundStays
  <2>3. kept => ThreeDigits(w)'
    BY <1>3, <2>1 DEF ThreeDigits, Digit
  <2>4. \A e \in 0..Reached : Ends(w + 1, e, CrlfBytes) => Ends(w + 1, e, CrlfBytes)'
    BY <1>1, <2>2, FoundStays
  <2>5. StatusLine(kept)'
    BY <1>2, <1>3, <1>4, <2>1, <2>2, <2>3, <2>4 DEF StatusLine
  <2> QED
    BY <1>6, <2>5 DEF FirstLineRead, PastFirstLine
<1> QED
  BY <1>5, <1>6

\* The states of the first line are left for those behind it, and not again
\* entered from there.
LEMMA PastStates ==
  ASSUME BoundsInv, PastFirstLine, Iteration
  PROVE  /\ PastFirstLine'
         /\ UNCHANGED <<stream, type, method, line>>
         /\ Reached' = Reached \/ Reached' = Reached + 1
<1>1. Reached' = Reached \/ Reached' = Reached + 1
  BY IterationReads
<1>2. Cr \/ Lf1 \/ Name \/ Colon \/ Value \/ Lf2
  BY DEF Iteration, PastFirstLine, Start, Method, Uri, Version, Status, Message, Reading
<1>3. PastFirstLine' /\ UNCHANGED <<stream, type, method, line>>
  <2> USE DEF PastFirstLine, Reading, Outside, peer, Continue, NextOfRun, Bad, Succeed, EndOfLine
  <2>1. CASE Cr \/ Lf1 \/ Lf2
    BY <2>1 DEF Cr, Lf1, Lf2
  <2>2. CASE Name
    BY <2>2 DEF Name
  <2>3. CASE Colon
    BY <2>3 DEF Colon, ValueByte
  <2>4. CASE Value
    BY <2>4 DEF Value, ValueByte
  <2> QED
    BY <1>2, <2>1, <2>2, <2>3, <2>4
<1> QED
  BY <1>1, <1>3

\* A byte of the first line that is refused leaves the state, and all of the line
\* but the status.
LEMMA ByteBad ==
  ASSUME Iteration, failure' = "syntax", ~PastFirstLine
  PROVE  /\ UNCHANGED <<state, cursor, method>>
         /\ state # "STATUS" => UNCHANGED line
         /\ UNCHANGED line \/ \E n : line' = [line EXCEPT !.status = n]
<1> USE DEF Reading, PastFirstLine, Continue, NextOfRun, Bad, Succeed
<1>1. CASE Start \/ Method
  BY <1>1 DEF Start, Method
<1>2. CASE Uri
  BY <1>2 DEF Uri
<1>3. CASE Version \/ Message
  BY <1>3 DEF Version, Message
<1>4. CASE Status
  <2>1. /\ state = "STATUS" /\ UNCHANGED method
        /\ \/ Continue("MESSAGE") \/ Continue(EndOfLine)
           \/ Bad("STATUS") /\ UNCHANGED <<cursor, line>>
           \/ /\ \E n : line' = [line EXCEPT !.status = n]
              /\ UNCHANGED cursor
              /\ Bad("STATUS") \/ NextOfRun("STATUS")
    BY <1>4 DEF Status, StatusDigit
  <2>2. Bad("STATUS") /\ UNCHANGED cursor
    BY <2>1
  <2> QED
    BY <2>1, <2>2
<1>5. ~(Cr \/ Lf1 \/ Lf2 \/ Name \/ Colon \/ Value)
  BY DEF Cr, Lf1, Lf2, Name, Colon, Value
<1> QED
  BY <1>1, <1>2, <1>3, <1>4, <1>5 DEF Iteration

\* The case of the switch that an iteration is
LEMMA ByteState ==
  /\ Start   => state = "START"
  /\ Method  => state = "METHOD"
  /\ Uri     => state = "URI"
  /\ Version => state = "VERSION"
  /\ Status  => state = "STATUS"
  /\ Message => state = "MESSAGE"
  /\ Cr \/ Lf1 \/ Name \/ Colon \/ Value \/ Lf2
       => PastFirstLine
  BY DEF Start, Method, Uri, Version, Status,
     Message, Cr, Lf1, Name, Colon, Value, Lf2,
     Reading, PastFirstLine

\* An iteration that accepts its byte reads on.
LEMMA ByteReadOn ==
  ASSUME NEW kept \in BOOLEAN, BoundsInv, FirstLineRead(kept), Iteration,
         failure' # "syntax"
  PROVE  FirstLineRead(kept)'
<1>1. /\ state = "START"  => StartOfLine
      /\ state = "METHOD" => type = kHttpRequest /\ InMethod
      /\ state = "URI"    => type = kHttpRequest /\ InUri
      /\ state = "VERSION" /\ type = kHttpRequest => InVersion
      /\ state = "VERSION" /\ type # kHttpRequest => InStatusVersion
      /\ state = "STATUS"  => type # kHttpRequest /\ InStatus(kept)
      /\ state = "MESSAGE" => type # kHttpRequest /\ InMessage(kept)
  BY DEF FirstLineRead
<1>2. CASE Start
  BY <1>1, <1>2, ByteState, StartRead
<1>3. CASE Method
  BY <1>1, <1>3, ByteState, MethodRead
<1>4. CASE Uri
  BY <1>1, <1>4, ByteState, UriRead
<1>5. CASE Version
  BY <1>1, <1>5, ByteState, VersionRead, StatusVersionRead
<1>6. CASE Status
  BY <1>1, <1>6, ByteState, StatusRead
<1>7. CASE Message
  BY <1>1, <1>7, ByteState, MessageRead
<1>8. CASE PastFirstLine
  BY <1>8, PastRead, PastStates
<1> QED
  BY <1>2, <1>3, <1>4, <1>5, <1>6, <1>7, <1>8, ByteState DEF Iteration

\* An iteration that refuses its byte leaves what has been read of the line,
\* but for the status.
LEMMA ByteRefused ==
  ASSUME BoundsInv, FirstLineRead(FALSE), Iteration, ~PastFirstLine, failure' = "syntax"
  PROVE  FirstLineRead(FALSE)'
<1>1. UNCHANGED <<stream, type, Reached, state, cursor, method>>
  <2>1. UNCHANGED <<stream, type>> /\ Reached' = Reached
    BY IterationReads
  <2>2. UNCHANGED <<state, cursor, method>>
    BY ByteBad
  <2> QED
    BY <2>1, <2>2
<1>2. CASE state = "STATUS"
  <2>1. line'.version = line.version /\ line'.message = line.message
    <3>1. PICK n : UNCHANGED line \/ line' = [line EXCEPT !.status = n]
      BY ByteBad
    <3> QED
      BY <3>1, FieldTypes DEF LinesOfText
  <2>2. type # kHttpRequest /\ InStatus(FALSE)
    BY <1>2 DEF FirstLineRead
  <2>3. InStatus(FALSE)'
    <3>1. \A p : VersionIs(p) => VersionIs(p)'
      BY <1>1, <2>1, VersionStays
    <3> QED
      BY <1>1, <2>1, <2>2, <3>1 DEF InStatus, LeadIs, Lacks, At
  <2> QED
    BY <1>1, <1>2, <2>2, <2>3 DEF FirstLineRead, PastFirstLine
<1>3. CASE state # "STATUS"
  <2>1. UNCHANGED line
    BY <1>3, ByteBad
  <2> QED
    BY <1>1, <2>1, NothingRead
<1> QED
  BY <1>2, <1>3

\* The status apart, a request's line is read in the same way.
LEMMA RequestKept ==
  ASSUME FirstLineRead(FALSE), type = kHttpRequest
  PROVE  FirstLineRead(TRUE)
  BY DEF FirstLineRead

\* Every iteration keeps the invariant.
LEMMA ByteFirstLine ==
  ASSUME BoundsInv, FirstLineInv, Iteration
  PROVE  FirstLineInv'
<1>1. pc = "loop" /\ type \in Types /\ type \in {kHttpRequest, kHttpResponse} /\ type' = type
  BY IterationReads, CosmoAssumption DEF FirstLineInv
<1>2. FirstLineRead(FALSE)'
  <2>1. CASE failure' # "syntax"
    BY <2>1, ByteReadOn DEF FirstLineInv
  <2>2. CASE failure' = "syntax" /\ PastFirstLine
    BY <2>2, PastRead, PastStates DEF FirstLineInv
  <2>3. CASE failure' = "syntax" /\ ~PastFirstLine
    BY <2>3, ByteRefused DEF FirstLineInv
  <2> QED
    BY <2>1, <2>2, <2>3
<1>3. ASSUME StatusIsKept, failure' # "syntax" \/ PastFirstLine'
      PROVE  FirstLineRead(TRUE)'
  <2>1. FirstLineRead(TRUE)
    BY <1>1, <1>3, RequestKept DEF FirstLineInv
  <2>2. CASE failure' # "syntax"
    BY <2>1, <2>2, ByteReadOn
  <2>3. CASE failure' = "syntax"
    <3>1. PastFirstLine
      BY <1>3, <2>3, ByteBad DEF PastFirstLine
    <3> QED
      BY <2>1, <3>1, PastRead, PastStates
  <2> QED
    BY <2>2, <2>3
<1>4. type' = kHttpResponse /\ (pc' = "loop" \/ ret' = 0) => failure' # "syntax"
  BY IterationReads
<1> QED
  BY <1>1, <1>2, <1>3, <1>4 DEF FirstLineInv

\* Nothing has been read of a new message.
LEMMA NewMessage ==
  ASSUME type \in Types, state = "START", Reached \in Nat, Reached = 0, method = <<>>,
         line = NoLine, failure = "none", pc = "idle"
  PROVE  FirstLineInv
  BY DEF FirstLineInv, FirstLineRead, StartOfLine, PastFirstLine

\* Every step keeps the invariant.
LEMMA NextFirstLine ==
  BoundsInv /\ Lined /\ FirstLineInv /\ [LineNext]_vars => FirstLineInv'
<1> SUFFICES ASSUME BoundsInv, Lined, FirstLineInv, [LineNext]_vars
             PROVE  FirstLineInv'
  OBVIOUS
<1>1. CASE Iteration
  BY <1>1, ByteFirstLine
<1>2. ASSUME NEW s \in Streams, NEW ty \in Types, Begin(s, ty, ResetStore), Reached' = 0
      PROVE  FirstLineInv'
  <2>1. \A k \in 0..(Reached' - 1) : FALSE
    BY <1>2
  <2> QED
    BY <1>2, <2>1 DEF Begin, FirstLineInv, FirstLineRead, StartOfLine, PastFirstLine
<1>3. CASE /\ Rests /\ Reached' = Reached
           /\ \/ UNCHANGED <<failure, ret, pc>>
              \/ ReturnUsedUp
              \/ \E c \in Capacities : Call(c)
  <2>1. UNCHANGED <<stream, type, state, Reached, cursor, method, line>>
    BY <1>3 DEF Rests
  <2>2. /\ FirstLineRead(FALSE) => FirstLineRead(FALSE)'
        /\ FirstLineRead(TRUE) => FirstLineRead(TRUE)'
    BY <2>1, NothingRead
  <2>3. (PastFirstLine' <=> PastFirstLine) /\ type' \in Types
    BY <2>1 DEF PastFirstLine, FirstLineInv
  <2>4. StatusIsKept /\ type = kHttpResponse =>
          /\ pc' = "loop" \/ ret' = 0 => failure' # "syntax"
          /\ failure' # "syntax" => failure # "syntax"
    <3>1. StatusIsKept /\ type = kHttpResponse => "syntax" \notin Retryable
      BY DEF StatusIsKept, FirstLineInv
    <3> QED
      BY <1>3, <3>1 DEF FirstLineInv, ReturnUsedUp, Call
  <2>5. type # kHttpResponse /\ failure = "syntax" => FirstLineRead(TRUE)
    <3>1. type # kHttpResponse => type = kHttpRequest
      BY CosmoAssumption DEF FirstLineInv
    <3> QED
      BY <3>1, RequestKept DEF FirstLineInv
  <2> QED
    BY <2>1, <2>2, <2>3, <2>4, <2>5 DEF FirstLineInv
<1> QED
  BY <1>1, <1>2, <1>3, StepReads

-----------------------------------------------------------------------------
(* From the invariant to the second reading of the bytes *)

\* The second reading begins where the message does.
LEMMA LeadOf ==
  ASSUME BoundsInv, NEW a \in Nat, LeadIs(a)
  PROVE  Uurl!Lead = a
<1>1. Reached \in Nat /\ a \in 0..Reached
  BY FieldTypes DEF LeadIs
<1>2. ASSUME NEW b \in 0..Reached, ~IsCrlf(At(b)), \A k \in 0..(b - 1) : IsCrlf(At(k))
      PROVE  b = a
  <2>1. ~(b < a)
    BY <1>1, <1>2 DEF LeadIs
  <2>2. ~(a < b)
    BY <1>1, <1>2 DEF LeadIs
  <2> QED
    BY <1>1, <2>1, <2>2
<1>3. /\ ~IsCrlf(At(a))
      /\ \A k \in 0..(a - 1) : IsCrlf(At(k))
  BY DEF LeadIs
<1>4. (CHOOSE b \in 0..Reached : /\ \A k \in 0..(b - 1) : IsCrlf(At(k))
                                 /\ ~IsCrlf(At(b))) = a
  BY <1>1, <1>2, <1>3
<1>5. Uurl!Lead = CHOOSE b \in 0..Reached : /\ \A k \in 0..(b - 1) : IsCrlf(At(k))
                                            /\ ~IsCrlf(At(b))
  BY DEF Uurl!Lead, Uurl!IsCrlf, Uurl!At, Uurl!CR, Uurl!LF, Reached, IsCrlf, At, CR, LF
<1> QED
  BY <1>4, <1>5

\* The first byte of a class
LEMMA FirstOfEnds ==
  ASSUME BoundsInv, NEW from \in Nat, NEW to \in Nat, NEW bytes, Ends(from, to, bytes)
  PROVE  Min({k \in from..Reached : k = Reached \/ At(k) \in bytes}) = to
<1> DEFINE S == {k \in from..Reached : k = Reached \/ At(k) \in bytes}
<1>1. Reached \in Nat
  BY FieldTypes
<1>2. /\ to \in from..(Reached - 1)
      /\ At(to) \in bytes
      /\ \A k \in from..(to - 1) : At(k) \notin bytes
  BY DEF Ends
<1>3. to \in S /\ S \in SUBSET Nat
  BY <1>1, <1>2
<1>4. \A k \in S : to <= k
  <2> SUFFICES ASSUME NEW k \in S, k < to PROVE FALSE
    BY <1>1, <1>2
  <2>1. k \in from..(to - 1) /\ k # Reached
    BY <1>1, <1>2
  <2> QED
    BY <1>2, <2>1
<1> HIDE DEF S
<1>5. Min(S) \in S /\ Min(S) <= to /\ to <= Min(S)
  BY <1>3, <1>4, MinOfNats
<1> QED
  BY <1>3, <1>5 DEF S

\* FirstOf for the three classes, with the class as a set
LEMMA FirstOfClasses ==
  /\ \A from : /\ Uurl!FirstOf(from, Uurl!IsSpace)
                    = Min({k \in from..Reached : k = Reached \/ At(k) \in {SP}})
               /\ Uurl!FirstOf(from, Uurl!IsCrlf)
                    = Min({k \in from..Reached : k = Reached \/ At(k) \in CrlfBytes})
               /\ Uurl!FirstOf(from, Uurl!IsCrlfOrSpace)
                    = Min({k \in from..Reached : k = Reached \/ At(k) \in BlankBytes})
  BY DEF Uurl!FirstOf, Uurl!IsSpace, Uurl!IsCrlf, Uurl!IsCrlfOrSpace, Uurl!At, Uurl!SP, Uurl!CR,
     Uurl!LF, Uurl!Min, Min, Reached, At, SP, CR, LF, CrlfBytes, BlankBytes

\* So a word that ends at a space ends at the first one,
LEMMA FirstSpaceIs ==
  ASSUME BoundsInv, NEW from \in Nat, NEW to \in Nat, Ends(from, to, {SP})
  PROVE  Uurl!FirstOf(from, Uurl!IsSpace) = to
<1>1. Uurl!FirstOf(from, Uurl!IsSpace)
        = Min({k \in from..Reached : k = Reached \/ At(k) \in {SP}})
  BY FirstOfClasses
<1>2. Min({k \in from..Reached : k = Reached \/ At(k) \in {SP}}) = to
  BY FirstOfEnds
<1> QED
  BY <1>1, <1>2

\* a line at the first CR or LF,
LEMMA FirstCrlfIs ==
  ASSUME BoundsInv, NEW from \in Nat, NEW to \in Nat, Ends(from, to, CrlfBytes)
  PROVE  Uurl!FirstOf(from, Uurl!IsCrlf) = to
<1>1. Uurl!FirstOf(from, Uurl!IsCrlf)
        = Min({k \in from..Reached : k = Reached \/ At(k) \in CrlfBytes})
  BY FirstOfClasses
<1>2. Min({k \in from..Reached : k = Reached \/ At(k) \in CrlfBytes}) = to
  BY FirstOfEnds
<1> QED
  BY <1>1, <1>2

\* and a word that ends at any of them at the first of these.
LEMMA FirstBlankIs ==
  ASSUME BoundsInv, NEW from \in Nat, NEW to \in Nat, Ends(from, to, BlankBytes)
  PROVE  Uurl!FirstOf(from, Uurl!IsCrlfOrSpace) = to
<1>1. Uurl!FirstOf(from, Uurl!IsCrlfOrSpace)
        = Min({k \in from..Reached : k = Reached \/ At(k) \in BlankBytes})
  BY FirstOfClasses
<1>2. Min({k \in from..Reached : k = Reached \/ At(k) \in BlankBytes}) = to
  BY FirstOfEnds
<1> QED
  BY <1>1, <1>2

\* The first eight bytes, one by one
LEMMA VersionBytes ==
  ASSUME stream \in Seq(Byte), NEW p \in Nat, p + 8 <= Len(stream), NEW c \in Nat, NEW d \in Nat
  PROVE  SubSeq(stream, p + 1, p + 8) = <<72, 84, 84, 80, 47, c, 46, d>>
           <=> /\ SubSeq(stream, p + 1, p + 5) = <<72, 84, 84, 80, 47>>
               /\ At(p + 5) = c /\ At(p + 6) = 46 /\ At(p + 7) = d
<1> DEFINE five  == SubSeq(stream, p + 1, p + 5)
           eight == SubSeq(stream, p + 1, p + 8)
           H     == <<72, 84, 84, 80, 47>>
           V     == <<72, 84, 84, 80, 47, c, 46, d>>
<1>1. Len(stream) \in Nat /\ \A k \in 1..Len(stream) : stream[k] \in Nat
  <2>1. \A k \in 1..Len(stream) : stream[k] \in Byte
    OBVIOUS
  <2>2. \A b \in Byte : b \in Nat
    BY DEF Byte
  <2>3. Len(stream) \in Nat
    OBVIOUS
  <2> QED
    BY <2>1, <2>2, <2>3
<1>2. /\ eight \in Seq(Nat) /\ Len(eight) = 8
      /\ \A k \in 1..8 : eight[k] = stream[p + k]
  <2>1. \A k \in (p + 1)..(p + 8) : stream[k] \in Nat
    BY <1>1
  <2>2. /\ eight \in Seq(Nat) /\ Len(eight) = IF p + 1 <= p + 8 THEN p + 8 - (p + 1) + 1 ELSE 0
        /\ \A k \in 1..(p + 8 - (p + 1) + 1) : eight[k] = stream[p + 1 + k - 1]
    BY <2>1, SubSeqProperties
  <2> HIDE DEF eight
  <2>3. p + 8 - (p + 1) + 1 = 8 /\ \A k \in 1..8 : p + 1 + k - 1 = p + k
    OBVIOUS
  <2> QED
    BY <2>2, <2>3, SMTT(30)
<1>3. /\ five \in Seq(Nat) /\ Len(five) = 5
      /\ \A k \in 1..5 : five[k] = stream[p + k]
  <2>1. \A k \in (p + 1)..(p + 5) : stream[k] \in Nat
    BY <1>1
  <2>2. /\ five \in Seq(Nat) /\ Len(five) = IF p + 1 <= p + 5 THEN p + 5 - (p + 1) + 1 ELSE 0
        /\ \A k \in 1..(p + 5 - (p + 1) + 1) : five[k] = stream[p + 1 + k - 1]
    BY <2>1, SubSeqProperties
  <2> HIDE DEF five
  <2>3. p + 5 - (p + 1) + 1 = 5 /\ \A k \in 1..5 : p + 1 + k - 1 = p + k
    OBVIOUS
  <2> QED
    BY <2>2, <2>3
<1>4. At(p + 5) = stream[p + 6] /\ At(p + 6) = stream[p + 7] /\ At(p + 7) = stream[p + 8]
  BY DEF At
<1>5. /\ H \in Seq(Nat) /\ Len(H) = 5 /\ V \in Seq(Nat) /\ Len(V) = 8
      /\ \A k \in 1..5 : H[k] = V[k]
      /\ V[6] = c /\ V[7] = 46 /\ V[8] = d
  <2>1. H \in Seq(Nat) /\ V \in Seq(Nat)
    OBVIOUS
  <2>2. Len(H) = 5 /\ Len(V) = 8
    OBVIOUS
  <2>3. H[1] = V[1] /\ H[2] = V[2] /\ H[3] = V[3] /\ H[4] = V[4] /\ H[5] = V[5]
    OBVIOUS
  <2>4. V[6] = c /\ V[7] = 46 /\ V[8] = d
    OBVIOUS
  <2>5. \A k \in 1..5 : k = 1 \/ k = 2 \/ k = 3 \/ k = 4 \/ k = 5
    OBVIOUS
  <2> HIDE DEF H, V
  <2> QED
    BY <2>1, <2>2, <2>3, <2>4, <2>5
<1> HIDE DEF five, eight, H, V
<1>6. five = H <=> \A k \in 1..5 : five[k] = H[k]
  <2>1. Len(five) = Len(H) /\ 1..Len(five) = 1..5
    BY <1>3, <1>5
  <2>2. (\A k \in 1..Len(five) : five[k] = H[k]) => five = H
    BY <1>3, <1>5, <2>1, SeqEqual
  <2> QED
    BY <2>1, <2>2
<1>7. eight = V <=> \A k \in 1..8 : eight[k] = V[k]
  <2>1. Len(eight) = Len(V) /\ 1..Len(eight) = 1..8
    BY <1>2, <1>5
  <2>2. (\A k \in 1..Len(eight) : eight[k] = V[k]) => eight = V
    BY <1>2, <1>5, <2>1, SeqEqual
  <2> QED
    BY <2>1, <2>2
<1>8. (\A k \in 1..8 : eight[k] = V[k])
         <=> (\A k \in 1..5 : eight[k] = V[k]) /\ eight[6] = V[6] /\ eight[7] = V[7] /\ eight[8] = V[8]
  <2>1. \A k \in 1..8 : k \in 1..5 \/ k = 6 \/ k = 7 \/ k = 8
    OBVIOUS
  <2> QED
    BY <2>1
<1>9. \A k \in 1..5 : five[k] = eight[k] /\ H[k] = V[k]
  <2>1. \A k \in 1..5 : k \in 1..8
    OBVIOUS
  <2> QED
    BY <1>2, <1>3, <1>5, <2>1
<1>10. (\A k \in 1..5 : eight[k] = V[k]) <=> (\A k \in 1..5 : five[k] = H[k])
  BY <1>9
<1>11. eight[6] = stream[p + 6] /\ eight[7] = stream[p + 7] /\ eight[8] = stream[p + 8]
  BY <1>2
<1>12. eight = V <=> five = H /\ At(p + 5) = c /\ At(p + 6) = 46 /\ At(p + 7) = d
  BY <1>4, <1>5, <1>6, <1>7, <1>8, <1>10, <1>11
<1> QED
  BY <1>12 DEF five, eight, H, V

\* The version that is recorded has the name by which uurl's parser knows its text.
LEMMA VersionNamed ==
  ASSUME BoundsInv, NEW p \in Nat, p + 8 <= Reached, VersionIs(p)
  PROVE  VersionName = Uurl!parse_version(p, p + 8)
<1>1. stream \in Seq(Byte) /\ p + 8 <= Len(stream)
  BY FieldTypes
<1>2. PICK c \in 48..57, d \in 48..57 :
        /\ At(p + 5) = c /\ At(p + 7) = d
        /\ line.version = (c - 48) * 10 + (d - 48)
  BY DEF VersionIs, IsDigit
<1>3. \A x, y \in Nat : SubSeq(stream, p + 1, p + 8) = <<72, 84, 84, 80, 47, x, 46, y>>
                  <=> x = c /\ y = d
  <2>1. /\ SubSeq(stream, p + 1, p + 5) = <<72, 84, 84, 80, 47>>
        /\ At(p + 5) = c /\ At(p + 6) = 46 /\ At(p + 7) = d
    BY <1>2 DEF VersionIs
  <2>2. ASSUME NEW x \in Nat, NEW y \in Nat
        PROVE  SubSeq(stream, p + 1, p + 8) = <<72, 84, 84, 80, 47, x, 46, y>>
                 <=> /\ SubSeq(stream, p + 1, p + 5) = <<72, 84, 84, 80, 47>>
                     /\ At(p + 5) = x /\ At(p + 6) = 46 /\ At(p + 7) = y
    BY <1>1, VersionBytes, SMTT(30)
  <2> QED
    BY <2>1, <2>2
<1>4. /\ line.version = 9  <=> c = 48 /\ d = 57
      /\ line.version = 10 <=> c = 49 /\ d = 48
      /\ line.version = 11 <=> c = 49 /\ d = 49
  BY <1>2
<1>5. Uurl!parse_version(p, p + 8) =
        CASE SubSeq(stream, p + 1, p + 8) = <<72, 84, 84, 80, 47, 48, 46, 57>> -> "0.9"
          [] SubSeq(stream, p + 1, p + 8) = <<72, 84, 84, 80, 47, 49, 46, 48>> -> "1.0"
          [] SubSeq(stream, p + 1, p + 8) = <<72, 84, 84, 80, 47, 49, 46, 49>> -> "1.1"
          [] OTHER -> "UNKNOWN"
  BY DEF Uurl!parse_version, Uurl!VersionText, Uurl!V0_9, Uurl!V1_0, Uurl!V1_1, Uurl!V_UNKNOWN
<1>6. Uurl!parse_version(p, p + 8) =
        CASE 48 = c /\ 57 = d -> "0.9"
          [] 49 = c /\ 48 = d -> "1.0"
          [] 49 = c /\ 49 = d -> "1.1"
          [] OTHER -> "UNKNOWN"
  BY <1>3, <1>5
<1> QED
  BY <1>4, <1>6 DEF VersionName

\* What the invariant says of a request's line is what the second reading says,
LEMMA RequestIsAsSent ==
  ASSUME BoundsInv, FirstLineRead(TRUE), PastFirstLine, type = kHttpRequest
  PROVE  ReferenceFirstLineIsAsSent
<1>1. PICK a, u, v \in 0..Reached :
        /\ LeadIs(a) /\ Ends(a, u, {SP}) /\ MethodIs(a, u)
        /\ Ends(u + 1, v, BlankBytes) /\ UriIs(u, v)
        /\ IF At(v) = SP THEN VersionIs(v + 1) /\ v + 9 <= Reached ELSE line.version = 9
  BY DEF FirstLineRead, RequestLine
<1>2. Reached \in Nat /\ a \in Nat /\ u \in Nat /\ v \in Nat /\ u + 1 \in Nat
  BY <1>1, FieldTypes
<1>3. Uurl!Lead = a
  BY <1>1, <1>2, LeadOf
<1>4. Uurl!FirstOf(a, Uurl!IsSpace) = u
  BY <1>1, <1>2, FirstSpaceIs
<1>5. Uurl!FirstOf(u + 1, Uurl!IsCrlfOrSpace) = v
  BY <1>1, <1>2, FirstBlankIs
<1>6. method = [k \in 1..(u - a) |-> Upper(At(a + k - 1))]
  <2>1. method \in Seq(Byte)
    BY FieldTypes
  <2>2. method = [k \in 1..Len(method) |-> method[k]]
    BY <2>1
  <2> QED
    BY <1>1, <2>2 DEF MethodIs
<1>7. VersionName = IF At(v) = SP THEN Uurl!parse_version(v + 1, v + 9) ELSE "0.9"
  <2>1. CASE At(v) = SP
    <3>1. v + 1 \in Nat /\ v + 9 = (v + 1) + 8
      BY <1>2
    <3>2. VersionName = Uurl!parse_version(v + 1, (v + 1) + 8)
      BY <1>1, <1>2, <2>1, <3>1, VersionNamed
    <3> QED
      BY <2>1, <3>1, <3>2
  <2>2. CASE At(v) # SP
    BY <1>1, <2>2 DEF VersionName
  <2> QED
    BY <2>1, <2>2
<1>8. [line EXCEPT !.version = VersionName].uri = line.uri
      /\ [line EXCEPT !.version = VersionName].version = VersionName
  BY FieldTypes DEF LinesOfText
<1> QED
  BY <1>1, <1>3, <1>4, <1>5, <1>6, <1>7, <1>8
  DEF ReferenceFirstLineIsAsSent, Uurl!FirstLineIsAsSent, UriIs, Uurl!REQUEST, kHttpRequest,
      Uurl!Upper, Upper, Uurl!At, At, Uurl!SP, SP, Uurl!V0_9

\* and of a response's.
LEMMA ResponseIsAsSent ==
  ASSUME BoundsInv, FirstLineRead(TRUE), PastFirstLine, type # kHttpRequest
  PROVE  ReferenceFirstLineIsAsSent
<1>1. PICK a, w \in 0..Reached :
        /\ LeadIs(a)
        /\ VersionIs(a)
        /\ Ends(a + 9, w, BlankBytes) /\ ThreeDigits(w)
        /\ IF At(w) = SP
             THEN \E e \in 0..Reached : Ends(w + 1, e, CrlfBytes)
                                  /\ line.message = [start |-> w + 1, end |-> e]
             ELSE line.message = NoSlice
  BY DEF FirstLineRead, StatusLine
<1>2. Reached \in Nat /\ a \in Nat /\ w \in Nat /\ a + 9 \in Nat
  BY <1>1, FieldTypes
<1>3. Uurl!Lead = a
  BY <1>1, <1>2, LeadOf
<1>4. Uurl!FirstOf(a + 9, Uurl!IsCrlfOrSpace) = w
  BY <1>1, <1>2, FirstBlankIs
<1>5. line.message = IF At(w) = SP
                       THEN [start |-> w + 1, end |-> Uurl!FirstOf(w, Uurl!IsCrlf)]
                       ELSE NoSlice
  <2>1. CASE At(w) = SP
    <3>1. PICK e \in 0..Reached : /\ Ends(w + 1, e, CrlfBytes)
                            /\ line.message = [start |-> w + 1, end |-> e]
      BY <1>1, <2>1
    <3>2. At(w) \notin CrlfBytes
      BY <2>1 DEF CrlfBytes, SP, CR, LF
    <3>3. Ends(w, e, CrlfBytes)
      <4>1. e \in Nat /\ e \in (w + 1)..(Reached - 1) /\ e \in w..(Reached - 1)
        BY <1>2, <3>1 DEF Ends
      <4>2. \A k \in w..(e - 1) : k = w \/ k \in (w + 1)..(e - 1)
        BY <1>2, <4>1
      <4>3. /\ At(e) \in CrlfBytes
            /\ \A k \in (w + 1)..(e - 1) : At(k) \notin CrlfBytes
        BY <3>1 DEF Ends
      <4> QED
        BY <3>2, <4>1, <4>2, <4>3 DEF Ends
    <3>4. Uurl!FirstOf(w, Uurl!IsCrlf) = e
      <4>1. e \in Nat
        BY <1>2
      <4> QED
        BY <1>2, <3>3, <4>1, FirstCrlfIs
    <3> QED
      BY <2>1, <3>1, <3>4
  <2> QED
    BY <1>1, <2>1
<1>6. VersionName = Uurl!parse_version(a, a + 8)
  <2>1. a + 8 <= Reached
    BY <1>1, <1>2 DEF Ends
  <2> QED
    BY <1>1, <1>2, <2>1, VersionNamed
<1>7. /\ [line EXCEPT !.version = VersionName].status = line.status
      /\ [line EXCEPT !.version = VersionName].message = line.message
      /\ [line EXCEPT !.version = VersionName].version = VersionName
  BY FieldTypes DEF LinesOfText
<1> QED
  BY <1>1, <1>3, <1>4, <1>5, <1>6, <1>7
  DEF ReferenceFirstLineIsAsSent, Uurl!FirstLineIsAsSent, ThreeDigits, Digit, Uurl!REQUEST,
      kHttpRequest, Uurl!At, At, Uurl!SP, SP, Uurl!NoSlice, NoSlice

\* Whatever the peer sends as a first line, and however many calls it takes, the
\* method, URI, version, status and reason that the reference parser has recorded
\* when it is past the line are those that the line's bytes spell, if they arrive
\* line by line; and by the reading that uurl's fields are held against.  Again a
\* response is left out for a caller that calls again after a malformed byte: a
\* status that is too large is multiplied by ten once more.
THEOREM ReferenceFirstLineIsCorrect ==
  ASSUME "syntax" \notin Retryable \/ kHttpResponse \notin Types
  PROVE  LineSpec => []ReferenceFirstLineIsAsSent
<1>1. Init => FirstLineInv
  <2>1. Init => Reached = 0
    BY DEF Init, Reached
  <2> QED
    BY <2>1, NewMessage DEF Init
<1>2. BoundsInv /\ Lined /\ FirstLineInv /\ [LineNext]_vars => FirstLineInv'
  BY NextFirstLine
<1>3. BoundsInv /\ FirstLineInv => ReferenceFirstLineIsAsSent
  <2>1. CASE PastFirstLine
    BY <2>1, RequestIsAsSent, ResponseIsAsSent DEF FirstLineInv, StatusIsKept
  <2>2. CASE ~PastFirstLine
    BY <2>2 DEF ReferenceFirstLineIsAsSent, Uurl!FirstLineIsAsSent, Uurl!PastFirstLine,
       PastFirstLine
  <2> QED
    BY <2>1, <2>2
<1> QED
  BY <1>1, <1>2, <1>3, ReachableBounds, PTL DEF LineSpec

-----------------------------------------------------------------------------
(* The lines, as far as they have been read *)

Blank(from, to) == \A k \in from..(to - 1) : IsHtabOrSpace(At(k))

\* A line that begins at k has been read to its end: its name and its value
LineIs(k, n, v) ==
  \E c, s, t, e \in 0..Reached :
    /\ n = [start |-> k, end |-> c] /\ Ends(k, c, {COLON})
    /\ v = [start |-> s, end |-> t] /\ Ends(k, e, CrlfBytes)
    /\ c < s /\ s <= t /\ t <= e
    /\ Blank(c + 1, s) /\ Blank(t, e)
    /\ s = e \/ (s < t /\ ~IsHtabOrSpace(At(s)) /\ ~IsHtabOrSpace(At(t - 1)))

\* The offset of the byte that ended the first line
FirstLineEnds(e) ==
  IF type = kHttpRequest
    THEN \E a, u, v \in 0..Reached :
           /\ LeadIs(a) /\ Ends(a, u, {SP}) /\ Ends(u + 1, v, BlankBytes)
           /\ IF At(v) = SP THEN Ends(v + 1, e, BlankBytes) ELSE e = v
    ELSE \E a \in 0..Reached : LeadIs(a) /\ Ends(a + 9, e, CrlfBytes)

LinesStart(e) == IF At(e) = CR THEN e + 2 ELSE e + 1

\* Where the lines whose end has been read begin, the first of all at hs
StartsFrom(hs) ==
  {k \in hs..(Reached - 1) : /\ k = hs \/ At(k - 1) = LF
                             /\ ~IsCrlf(At(k))
                             /\ \E e \in k..(Reached - 1) : IsCrlf(At(e))}

\* The line that begins at c has not ended.
Open(hs, c) ==
  /\ hs <= c /\ c <= Reached
  /\ c = hs \/ At(c - 1) = LF
  /\ \A k \in c..(Reached - 1) : ~IsCrlf(At(k))

\* What has been read of the lines, the first of which begins at hs, by state
AfterCrlf(hs) ==
  \E l \in Nat : Reached = l + 1 /\ hs <= l + 2 /\ IsCrlf(At(l))

AtLine(hs) ==
  \E s \in Nat : s = Reached /\ Open(hs, s)

InName(hs) ==
  \E s \in Nat : key.start = s /\ s < Reached /\ Open(hs, s) /\ Lacks(s, {COLON})

InColon(hs) ==
  \E s, c \in Nat :
    /\ key = [start |-> s, end |-> c]
    /\ Open(hs, s) /\ Ends(s, c, {COLON}) /\ Blank(c + 1, Reached)

\* The value begins at v.
ValueFrom(hs, s, c, v) ==
  /\ v <= Reached /\ c < v
  /\ Open(hs, s) /\ Ends(s, c, {COLON}) /\ Blank(c + 1, v)
  /\ ~IsHtabOrSpace(At(v))

InValue(hs) ==
  \E s, c, v \in Nat :
    /\ key = [start |-> s, end |-> c] /\ cursor = v
    /\ ValueFrom(hs, s, c, v)

LineState(hs) ==
  /\ state \in {"CR", "LF2"} => AfterCrlf(hs)
  /\ state = "LF1"   => AtLine(hs)
  /\ state = "NAME"  => InName(hs)
  /\ state = "COLON" => InColon(hs)
  /\ state = "VALUE" => InValue(hs)

\* The store holds the lines that begin in the set.
RowOf(S) == [k \in S |-> http_header_lookup(stream, k)]

LinesHeld(S) ==
  \E nm, val :
    /\ \A k \in S : LineIs(k, nm[k], val[k])
    /\ Holding(store, RowOf(S), nm, val)

\* It holds all but the dropped ones of S, each of which belongs in the list.
AllButLost(S) ==
  \E D \in SUBSET Listed(RowOf(S)) : Cardinality(D) = lost /\ LinesHeld(S \ D)

Held(hs) == AllButLost(StartsFrom(hs))

NothingStored ==
  /\ store.std = [h \in KnownHeaders |-> NoSlice]
  /\ store.x = <<>>
  /\ lost = 0

HeadersRead ==
  /\ ~PastFirstLine => NothingStored
  /\ PastFirstLine =>
       \E e, hs \in Nat :
         /\ FirstLineEnds(e) /\ hs = LinesStart(e)
         /\ LineState(hs)
         /\ Held(hs)

-----------------------------------------------------------------------------
(* What has been read stays as it is *)

\* A line that has ended is not changed by the bytes behind it.
LEMMA LineStays ==
  ASSUME BoundsInv, UNCHANGED stream, Reached' = Reached \/ Reached' = Reached + 1,
         NEW k \in Nat, NEW n, NEW v, LineIs(k, n, v)
  PROVE  LineIs(k, n, v)'
<1>1. \A m : At(m)' = At(m)
  BY DEF At
<1>2. Reached \in Nat /\ (Reached' = Reached \/ Reached' = Reached + 1)
  BY FieldTypes
<1>3. \A from, to : Blank(from, to)' <=> Blank(from, to)
  BY <1>1 DEF Blank
<1>4. PICK c, s, t, e \in 0..Reached :
        /\ n = [start |-> k, end |-> c] /\ Ends(k, c, {COLON})
        /\ v = [start |-> s, end |-> t] /\ Ends(k, e, CrlfBytes)
        /\ c < s /\ s <= t /\ t <= e
        /\ Blank(c + 1, s) /\ Blank(t, e)
        /\ s = e \/ (s < t /\ ~IsHtabOrSpace(At(s)) /\ ~IsHtabOrSpace(At(t - 1)))
  BY DEF LineIs
<1>5. /\ c \in Nat /\ e \in Nat
      /\ c \in 0..Reached' /\ s \in 0..Reached' /\ t \in 0..Reached' /\ e \in 0..Reached'
  BY <1>2
<1>6. Ends(k, c, {COLON})' /\ Ends(k, e, CrlfBytes)'
  BY <1>4, <1>5, FoundStays
<1> QED
  BY <1>1, <1>3, <1>4, <1>5, <1>6 DEF LineIs

\* Nor is the end of the first line.
LEMMA EndStays ==
  ASSUME BoundsInv, UNCHANGED <<stream, type>>, Reached' = Reached \/ Reached' = Reached + 1,
         NEW e \in Nat, FirstLineEnds(e)
  PROVE  FirstLineEnds(e)'
<1>1. \A m : At(m)' = At(m)
  BY DEF At
<1>2. Reached \in Nat /\ (Reached' = Reached \/ Reached' = Reached + 1)
  BY FieldTypes
<1>3. CASE type = kHttpRequest
  <2>1. PICK a, u, v \in 0..Reached :
          /\ LeadIs(a) /\ Ends(a, u, {SP}) /\ Ends(u + 1, v, BlankBytes)
          /\ IF At(v) = SP THEN Ends(v + 1, e, BlankBytes) ELSE e = v
    BY <1>3 DEF FirstLineEnds
  <2>2. /\ a \in Nat /\ u \in Nat /\ v \in Nat
        /\ u + 1 \in Nat /\ v + 1 \in Nat
        /\ a \in 0..Reached' /\ u \in 0..Reached' /\ v \in 0..Reached'
    BY <1>2
  <2>3. LeadIs(a)' /\ Ends(a, u, {SP})' /\ Ends(u + 1, v, BlankBytes)'
    BY <2>1, <2>2, FoundStays
  <2>4. At(v) = SP => Ends(v + 1, e, BlankBytes)'
    BY <2>1, <2>2, FoundStays
  <2> QED
    BY <1>1, <1>3, <2>1, <2>2, <2>3, <2>4 DEF FirstLineEnds
<1>4. CASE type # kHttpRequest
  <2>1. PICK a \in 0..Reached : LeadIs(a) /\ Ends(a + 9, e, CrlfBytes)
    BY <1>4 DEF FirstLineEnds
  <2>2. a \in Nat /\ a + 9 \in Nat /\ a \in 0..Reached'
    BY <1>2
  <2>3. LeadIs(a)' /\ Ends(a + 9, e, CrlfBytes)'
    BY <2>1, <2>2, FoundStays
  <2> QED
    BY <1>4, <2>2, <2>3 DEF FirstLineEnds
<1> QED
  BY <1>3, <1>4

\* No line has ended unless a CR or LF is read,
LEMMA StartsStay ==
  ASSUME BoundsInv, UNCHANGED stream, Reached' = Reached + 1, i = Reached, NEW hs \in Nat,
         \/ ~IsCrlf(Ch)
         \/ Reached <= hs
         \/ 0 < Reached /\ IsCrlf(At(Reached - 1))
  PROVE  StartsFrom(hs)' = StartsFrom(hs)
<1>1. \A m : At(m)' = At(m)
  BY DEF At
<1>2. Reached \in Nat /\ Ch = At(Reached)
  BY FieldTypes DEF Ch
<1>3. ASSUME NEW k \in Nat, hs <= k, k <= Reached, ~IsCrlf(At(k))
      PROVE  (\E e \in k..Reached : IsCrlf(At(e)))
               => (\E e \in k..(Reached - 1) : IsCrlf(At(e)))
  <2> SUFFICES ASSUME NEW e \in k..Reached, IsCrlf(At(e))
               PROVE  \E f \in k..(Reached - 1) : IsCrlf(At(f))
    OBVIOUS
  <2>1. CASE e # Reached
    BY <1>2, <2>1
  <2>2. CASE e = Reached
    <3>1. k # Reached /\ hs < Reached
      BY <1>2, <1>3, <2>2
    <3>2. 0 < Reached /\ IsCrlf(At(Reached - 1))
      BY <1>2, <2>2, <3>1
    <3> QED
      BY <1>2, <1>3, <3>1, <3>2
  <2> QED
    BY <2>1, <2>2
<1>4. ASSUME NEW k \in Nat
      PROVE  k \in StartsFrom(hs)' <=> k \in StartsFrom(hs)
  <2>1. k \in StartsFrom(hs)' <=>
          /\ k \in hs..Reached
          /\ k = hs \/ At(k - 1) = LF
          /\ ~IsCrlf(At(k))
          /\ \E e \in k..Reached : IsCrlf(At(e))
    BY <1>1, <1>2 DEF StartsFrom
  <2>2. k \in StartsFrom(hs) <=>
          /\ k \in hs..(Reached - 1)
          /\ k = hs \/ At(k - 1) = LF
          /\ ~IsCrlf(At(k))
          /\ \E e \in k..(Reached - 1) : IsCrlf(At(e))
    BY DEF StartsFrom
  <2> QED
    BY <1>2, <1>3, <2>1, <2>2
<1>5. StartsFrom(hs)' \in SUBSET Nat /\ StartsFrom(hs) \in SUBSET Nat
  BY <1>2 DEF StartsFrom
<1> QED
  BY <1>4, <1>5

\* and then it is the open one, which is behind all that have.
LEMMA StartsGrow ==
  ASSUME BoundsInv, UNCHANGED stream, Reached' = Reached + 1, i = Reached,
         NEW hs \in Nat, IsCrlf(Ch),
         NEW c \in Nat, c < Reached, Open(hs, c)
  PROVE  /\ StartsFrom(hs)' = StartsFrom(hs) \cup {c}
         /\ \A k \in StartsFrom(hs) : k < c
<1>1. \A m : At(m)' = At(m)
  BY DEF At
<1>2. Reached \in Nat /\ Ch = At(Reached)
  BY FieldTypes DEF Ch
<1>3. /\ hs <= c
      /\ c = hs \/ At(c - 1) = LF
      /\ \A k \in c..(Reached - 1) : ~IsCrlf(At(k))
  BY DEF Open
<1>4. ASSUME NEW k \in StartsFrom(hs) PROVE k < c
  <2>1. PICK e \in k..(Reached - 1) : IsCrlf(At(e))
    BY DEF StartsFrom
  <2>2. k \in Nat
    BY <1>2 DEF StartsFrom
  <2> QED
    BY <1>2, <1>3, <2>1, <2>2
<1>5. ASSUME NEW k \in Nat
      PROVE  k \in StartsFrom(hs)' <=> k \in StartsFrom(hs) \/ k = c
  <2>1. k \in StartsFrom(hs)' <=>
          /\ k \in hs..Reached
          /\ k = hs \/ At(k - 1) = LF
          /\ ~IsCrlf(At(k))
          /\ \E e \in k..Reached : IsCrlf(At(e))
    BY <1>1, <1>2 DEF StartsFrom
  <2>2. k \in StartsFrom(hs) <=>
          /\ k \in hs..(Reached - 1)
          /\ k = hs \/ At(k - 1) = LF
          /\ ~IsCrlf(At(k))
          /\ \E e \in k..(Reached - 1) : IsCrlf(At(e))
    BY DEF StartsFrom
  <2>3. k \in StartsFrom(hs) => k \in StartsFrom(hs)'
    BY <1>2, <2>1, <2>2
  <2>4. c \in StartsFrom(hs)'
    <3>1. c \in hs..Reached /\ ~IsCrlf(At(c)) /\ Reached \in c..Reached
      BY <1>2, <1>3
    <3>2. \E e \in c..Reached : IsCrlf(At(e))
      BY <1>2, <3>1
    <3> QED
      BY <1>1, <1>2, <1>3, <3>1, <3>2 DEF StartsFrom
  <2>5. ASSUME k \in StartsFrom(hs)', k \notin StartsFrom(hs) PROVE k = c
    <3>1. /\ k \in hs..Reached
          /\ k = hs \/ At(k - 1) = LF
          /\ ~IsCrlf(At(k))
      BY <2>1, <2>5
    <3>2. k < Reached
      BY <1>2, <3>1
    <3>3. \A e \in k..(Reached - 1) : ~IsCrlf(At(e))
      BY <1>2, <2>2, <2>5, <3>1, <3>2
    <3>4. ~(k < c)
      <4> SUFFICES ASSUME k < c PROVE FALSE
        OBVIOUS
      <4>1. At(c - 1) = LF /\ c - 1 \in k..(Reached - 1)
        BY <1>2, <1>3, <3>1
      <4> QED
        BY <3>3, <4>1 DEF IsCrlf
    <3>5. ~(c < k)
      <4> SUFFICES ASSUME c < k PROVE FALSE
        OBVIOUS
      <4>1. At(k - 1) = LF /\ k - 1 \in c..(Reached - 1)
        BY <1>2, <1>3, <3>1, <3>2
      <4> QED
        BY <1>3, <4>1 DEF IsCrlf
    <3> QED
      BY <3>4, <3>5
  <2> QED
    BY <2>3, <2>4, <2>5
<1>6. StartsFrom(hs)' \in SUBSET Nat /\ StartsFrom(hs) \cup {c} \in SUBSET Nat
  BY <1>2 DEF StartsFrom
<1> QED
  BY <1>4, <1>5, <1>6

-----------------------------------------------------------------------------
(* The end of the first line *)

\* A version has no blank in it.
LEMMA VersionHasNoBlank ==
  ASSUME BoundsInv, i <= Len(stream), cursor \in Nat, IsVersion
  PROVE  \A k \in cursor..(i - 1) : At(k) \notin BlankBytes
<1> DEFINE five == SubSeq(stream, cursor + 1, cursor + 5)
<1>1. /\ i - cursor = 8 /\ five = <<72, 84, 84, 80, 47>>
      /\ IsDigit(At(cursor + 5)) /\ At(cursor + 6) = 46 /\ IsDigit(At(cursor + 7))
  BY DEF IsVersion
<1>2. /\ stream \in Seq(Byte) /\ Len(stream) \in Nat /\ i = cursor + 8
      /\ cursor + 5 <= Len(stream)
  <2>1. stream \in Seq(Byte) /\ Len(stream) \in Nat /\ i \in Nat
    BY FieldTypes
  <2> HIDE DEF five
  <2> QED
    BY <1>1, <2>1
<1>3. \A n \in 1..5 : five[n] = stream[cursor + n]
  BY <1>2
<1> HIDE DEF five
<1>4. /\ At(cursor) = 72 /\ At(cursor + 1) = 84 /\ At(cursor + 2) = 84
      /\ At(cursor + 3) = 80 /\ At(cursor + 4) = 47
  <2>1. /\ five[1] = 72 /\ five[2] = 84 /\ five[3] = 84 /\ five[4] = 80 /\ five[5] = 47
    BY <1>1
  <2>2. /\ cursor + 1 + 1 = cursor + 2 /\ cursor + 2 + 1 = cursor + 3
        /\ cursor + 3 + 1 = cursor + 4 /\ cursor + 4 + 1 = cursor + 5
    OBVIOUS
  <2>3. /\ stream[cursor + 1] = 72 /\ stream[cursor + 2] = 84 /\ stream[cursor + 3] = 84
        /\ stream[cursor + 4] = 80 /\ stream[cursor + 5] = 47
    <3>1. 1 \in 1..5 /\ 2 \in 1..5 /\ 3 \in 1..5 /\ 4 \in 1..5 /\ 5 \in 1..5
      OBVIOUS
    <3>2. stream[cursor + 1] = 72
      BY <1>3, <2>1, <3>1, Zenon
    <3>3. stream[cursor + 2] = 84
      BY <1>3, <2>1, <3>1, Zenon
    <3>4. stream[cursor + 3] = 84
      BY <1>3, <2>1, <3>1, Zenon
    <3>5. stream[cursor + 4] = 80
      BY <1>3, <2>1, <3>1, Zenon
    <3>6. stream[cursor + 5] = 47
      BY <1>3, <2>1, <3>1, Zenon
    <3> QED
      BY <3>2, <3>3, <3>4, <3>5, <3>6, Zenon
  <2>4. /\ At(cursor) = stream[cursor + 1] /\ At(cursor + 1) = stream[cursor + 2]
        /\ At(cursor + 2) = stream[cursor + 3] /\ At(cursor + 3) = stream[cursor + 4]
        /\ At(cursor + 4) = stream[cursor + 5]
    BY <2>2 DEF At
  <2> QED
    BY <2>3, <2>4
<1>5. /\ At(cursor + 5) \in 48..57 /\ At(cursor + 6) = 46 /\ At(cursor + 7) \in 48..57
  BY <1>1 DEF IsDigit
<1>6. ASSUME NEW k \in cursor..(i - 1) PROVE At(k) \notin BlankBytes
  <2>1. \/ k = cursor \/ k = cursor + 1 \/ k = cursor + 2 \/ k = cursor + 3
        \/ k = cursor + 4 \/ k = cursor + 5 \/ k = cursor + 6 \/ k = cursor + 7
    BY <1>2
  <2>2. CASE k = cursor \/ k = cursor + 1 \/ k = cursor + 2 \/ k = cursor + 3 \/ k = cursor + 4
    BY <1>4, <2>2 DEF BlankBytes, CR, LF, SP
  <2>3. CASE k = cursor + 5 \/ k = cursor + 6 \/ k = cursor + 7
    <3>1. At(k) \in 46..57
      <4>1. CASE k = cursor + 5
        BY <1>5, <4>1, SMTT(30)
      <4>2. CASE k = cursor + 6
        BY <1>5, <4>2
      <4>3. CASE k = cursor + 7
        BY <1>5, <4>3
      <4> QED
        BY <2>3, <4>1, <4>2, <4>3, Zenon
    <3> QED
      BY <3>1 DEF BlankBytes, CR, LF, SP
  <2> QED
    BY <2>1, <2>2, <2>3
<1> QED
  BY <1>6

\* The iteration that ends a request's line
LEMMA RequestEndRead ==
  ASSUME BoundsInv, FirstLineRead(FALSE), Uri \/ Version, type = kHttpRequest, PastFirstLine'
  PROVE  /\ Reached' = Reached + 1 /\ state' = EndOfLine
         /\ \A e \in Nat : e = Reached => FirstLineEnds(e)'
<1>0. Reached \in Nat /\ i = Reached /\ UNCHANGED <<stream, type>>
  BY FieldTypes, IterationReads DEF Iteration
<1>1. \A m : At(m)' = At(m)
  BY <1>0 DEF At
<1>2. CASE Uri
  <2>0. /\ failure' = "none" /\ state' = EndOfLine /\ state = "URI"
        /\ IsCrlf(Ch)
    BY <1>2 DEF Uri, Reading, Continue, NextOfRun, Bad, PastFirstLine
  <2>1. /\ Reached' = Reached + 1 /\ state' = EndOfLine /\ state = "URI"
        /\ IsCrlf(Ch)
    BY <1>2, <2>0, IterationReads DEF Iteration
  <2>2. PICK a, u \in 0..Reached :
          LeadIs(a) /\ Ends(a, u, {SP}) /\ Lacks(u + 1, BlankBytes)
    BY <2>1 DEF FirstLineRead, InUri
  <2>3. /\ a \in Nat /\ u \in Nat /\ u + 1 \in Nat
        /\ a \in 0..Reached' /\ u \in 0..Reached' /\ LeadIs(a)' /\ Ends(a, u, {SP})'
    BY <1>0, <2>1, <2>2, FoundStays
  <2>4. ASSUME NEW e \in Nat, e = Reached PROVE FirstLineEnds(e)'
    <3>1. Ch \in BlankBytes /\ Ch # SP
      BY <2>1 DEF IsCrlf, BlankBytes, CR, LF, SP
    <3>2. Ends(u + 1, e, BlankBytes)'
      BY <1>0, <2>1, <2>2, <2>3, <2>4, <3>1, ReadOn
    <3>3. At(e)' # SP
      BY <1>0, <1>1, <2>4, <3>1 DEF Ch
    <3>4. e \in 0..Reached'
      BY <1>0, <2>1, <2>4
    <3> QED
      BY <1>0, <2>3, <3>2, <3>3, <3>4 DEF FirstLineEnds
  <2> QED
    BY <2>1, <2>4
<1>3. CASE Version
  <2>0. /\ failure' = "none" /\ state' = EndOfLine /\ state = "VERSION"
        /\ IsCrlfOrSpace(Ch) /\ IsVersion
    BY <1>3 DEF Version, Reading, Continue, Bad, PastFirstLine
  <2>1. /\ Reached' = Reached + 1 /\ state' = EndOfLine /\ state = "VERSION"
        /\ IsCrlfOrSpace(Ch) /\ IsVersion
    BY <1>3, <2>0, IterationReads DEF Iteration
  <2>2. PICK a, u, v \in 0..Reached :
          /\ LeadIs(a) /\ Ends(a, u, {SP}) /\ Ends(u + 1, v, BlankBytes)
          /\ At(v) = SP /\ cursor = v + 1
    BY <2>1 DEF FirstLineRead, InVersion
  <2>3. /\ a \in Nat /\ u \in Nat /\ v \in Nat /\ u + 1 \in Nat /\ v + 1 \in Nat
        /\ a \in 0..Reached' /\ u \in 0..Reached' /\ v \in 0..Reached'
        /\ LeadIs(a)' /\ Ends(a, u, {SP})' /\ Ends(u + 1, v, BlankBytes)'
    BY <1>0, <2>1, <2>2, FoundStays
  <2>4. Lacks(v + 1, BlankBytes)
    <3>1. i <= Len(stream) /\ cursor \in Nat
      BY <1>0, <2>2, <2>3, FieldTypes
    <3>2. v + 1 <= Reached
      BY <1>0, <2>1, <2>2, <2>3 DEF IsVersion
    <3>3. \A k \in cursor..(i - 1) : At(k) \notin BlankBytes
      BY <2>1, <3>1, VersionHasNoBlank
    <3> QED
      BY <1>0, <2>2, <3>2, <3>3 DEF Lacks
  <2>5. ASSUME NEW e \in Nat, e = Reached PROVE FirstLineEnds(e)'
    <3>1. Ch \in BlankBytes
      BY <2>1 DEF IsCrlfOrSpace, BlankBytes
    <3>2. Ends(v + 1, e, BlankBytes)'
      BY <1>0, <2>1, <2>3, <2>4, <2>5, <3>1, ReadOn
    <3> QED
      BY <1>0, <1>1, <2>2, <2>3, <3>2 DEF FirstLineEnds
  <2> QED
    BY <2>1, <2>5
<1> QED
  BY <1>2, <1>3

\* and a response's.
LEMMA ResponseEndRead ==
  ASSUME BoundsInv, FirstLineRead(FALSE), Status \/ Message, type # kHttpRequest, PastFirstLine'
  PROVE  /\ Reached' = Reached + 1 /\ state' = EndOfLine
         /\ \A e \in Nat : e = Reached => FirstLineEnds(e)'
<1>0. Reached \in Nat /\ i = Reached /\ UNCHANGED <<stream, type>>
  BY FieldTypes, IterationReads DEF Iteration
<1>1. /\ Reached' = Reached + 1 /\ state' = EndOfLine /\ IsCrlf(Ch)
      /\ state = "STATUS" \/ state = "MESSAGE"
  <2>1. /\ failure' = "none" /\ state' = EndOfLine /\ IsCrlf(Ch)
        /\ state = "STATUS" \/ state = "MESSAGE"
    <3>1. CASE Status
      BY <3>1 DEF Status, StatusDigit, Reading, Continue, NextOfRun, Bad, PastFirstLine
    <3>2. CASE Message
      BY <3>2 DEF Message, Reading, Continue, NextOfRun, Bad, PastFirstLine
    <3> QED
      BY <3>1, <3>2
  <2> QED
    BY <2>1, IterationReads DEF Iteration
<1>2. PICK a \in 0..Reached : LeadIs(a) /\ Lacks(a + 9, CrlfBytes)
  <2>1. CASE state = "STATUS"
    <3>1. PICK a \in 0..Reached : LeadIs(a) /\ Lacks(a + 9, BlankBytes)
      BY <2>1 DEF FirstLineRead, InStatus
    <3>2. Lacks(a + 9, CrlfBytes)
      BY <3>1 DEF Lacks, BlankBytes, CrlfBytes
    <3> QED
      BY <3>1, <3>2
  <2>2. CASE state = "MESSAGE"
    <3>1. PICK a, w \in 0..Reached :
            /\ LeadIs(a) /\ Ends(a + 9, w, BlankBytes) /\ At(w) = SP
            /\ Lacks(w + 1, CrlfBytes)
      BY <2>2 DEF FirstLineRead, InMessage
    <3>2. /\ w \in (a + 9)..(Reached - 1)
          /\ \A k \in (a + 9)..(w - 1) : At(k) \notin BlankBytes
          /\ w + 1 <= Reached /\ \A k \in (w + 1)..(Reached - 1) : At(k) \notin CrlfBytes
      BY <3>1 DEF Ends, Lacks
    <3>3. At(w) \notin CrlfBytes
      BY <3>1 DEF CrlfBytes, CR, LF, SP
    <3>4. \A k \in (a + 9)..(Reached - 1) :
            k \in (a + 9)..(w - 1) \/ k = w \/ k \in (w + 1)..(Reached - 1)
      BY <1>0, <3>2
    <3>5. \A k \in (a + 9)..(w - 1) : At(k) \notin CrlfBytes
      BY <3>2 DEF BlankBytes, CrlfBytes
    <3>6. a + 9 <= Reached
      BY <1>0, <3>2
    <3> QED
      BY <3>1, <3>2, <3>3, <3>4, <3>5, <3>6 DEF Lacks
  <2> QED
    BY <1>1, <2>1, <2>2
<1>3. a \in Nat /\ a + 9 \in Nat /\ a \in 0..Reached' /\ LeadIs(a)'
  BY <1>0, <1>1, <1>2, FoundStays
<1>4. ASSUME NEW e \in Nat, e = Reached PROVE FirstLineEnds(e)'
  <2>1. Ch \in CrlfBytes
    BY <1>1 DEF IsCrlf, CrlfBytes
  <2>2. Ends(a + 9, e, CrlfBytes)'
    BY <1>0, <1>1, <1>2, <1>3, <1>4, <2>1, ReadOn
  <2> QED
    BY <1>0, <1>3, <2>2 DEF FirstLineEnds
<1> QED
  BY <1>1, <1>4

\* The iteration that ends the first line, whichever it is
LEMMA FirstLineEnded ==
  ASSUME BoundsInv, FirstLineRead(FALSE), HeadersRead, Iteration, ~PastFirstLine, PastFirstLine'
  PROVE  HeadersRead'
<1>1. /\ Reached' = Reached + 1 /\ state' = EndOfLine
      /\ \A e \in Nat : e = Reached => FirstLineEnds(e)'
  <2>1. /\ Version => state = "VERSION"
        /\ Uri => state = "URI"
        /\ Status => state = "STATUS"
        /\ Message => state = "MESSAGE"
        /\ UNCHANGED type
    BY ByteState, IterationReads
  <2>2. Uri \/ Version \/ Status \/ Message
    <3>1. ~Start /\ ~Method
      BY DEF Start, Method, Continue, NextOfRun, Bad, PastFirstLine
    <3> QED
      BY <3>1, ByteState DEF Iteration
  <2>3. /\ state = "URI" => type = kHttpRequest
        /\ state \in {"STATUS", "MESSAGE"} => type # kHttpRequest
    BY DEF FirstLineRead
  <2>4. Version => type = kHttpRequest
    BY DEF Version, Continue, Bad, PastFirstLine
  <2> QED
    BY <2>1, <2>2, <2>3, <2>4, RequestEndRead, ResponseEndRead
<1>2. Reached \in Nat /\ i = Reached /\ UNCHANGED stream
  BY FieldTypes, IterationReads
<1>3. PICK e \in Nat : e = Reached
  BY <1>2
<1>4. At(e)' = Ch
  BY <1>2, <1>3 DEF At, Ch
<1>5. PICK hs \in Nat : hs = LinesStart(e)' /\ hs = IF Ch = CR THEN e + 2 ELSE e + 1
  BY <1>2, <1>3, <1>4 DEF LinesStart
<1>6. LineState(hs)'
  <2>1. CASE Ch = CR
    <3>1. state' = "CR" /\ IsCrlf(At(e)')
      BY <1>1, <1>4, <2>1 DEF EndOfLine, IsCrlf
    <3>2. AfterCrlf(hs)'
      BY <1>1, <1>3, <1>5, <2>1, <3>1 DEF AfterCrlf
    <3> QED
      BY <3>1, <3>2 DEF LineState
  <2>2. CASE Ch # CR
    <3>1. state' = "LF1" /\ hs = Reached'
      BY <1>1, <1>3, <1>5, <2>2 DEF EndOfLine
    <3>2. Open(hs, hs)'
      BY <1>1, <1>2, <3>1 DEF Open
    <3>3. AtLine(hs)'
      BY <3>1, <3>2 DEF AtLine
    <3> QED
      BY <3>1, <3>3 DEF LineState
  <2> QED
    BY <2>1, <2>2
<1>7. Held(hs)'
  <2>1. StartsFrom(hs)' = {}
    BY <1>1, <1>2, <1>3, <1>5 DEF StartsFrom
  <2>2. /\ \A h \in KnownHeaders : store'.std[h] = NoSlice
        /\ store'.x = <<>> /\ lost' = 0
    <3>1. UNCHANGED <<store, lost>>
      BY ByteState DEF Iteration, Start, Method, Uri, Version, Status, Message
    <3> QED
      BY <3>1 DEF HeadersRead, NothingStored
  <2>3. DOMAIN RowOf({})' = {}
    BY DEF RowOf
  <2>4. Holding(store', RowOf({})', <<>>, <<>>)
    BY <2>2, <2>3, EmptyHolds
  <2>5. Holding(store, RowOf({}), <<>>, <<>>)'
    BY <2>4 DEF Holding
  <2>6. LinesHeld({})'
    BY <2>5 DEF LinesHeld
  <2>7. {} \in SUBSET Listed(RowOf({}))' /\ Cardinality({}) = lost' /\ {} \ {} = {}
    BY <2>2, FS_EmptySet
  <2> QED
    BY <2>1, <2>6, <2>7 DEF AllButLost, Held
<1> QED
  BY <1>1, <1>3, <1>5, <1>6, <1>7 DEF HeadersRead

-----------------------------------------------------------------------------
(* The iterations of the header lines *)

\* What the store holds of some lines does not depend on the bytes behind them.
LEMMA LinesHeldStay ==
  ASSUME BoundsInv, UNCHANGED <<stream, store>>,
         Reached' = Reached \/ Reached' = Reached + 1,
         NEW S \in SUBSET Nat, LinesHeld(S)
  PROVE  LinesHeld(S)'
<1>1. PICK nm, val : /\ \A k \in S : LineIs(k, nm[k], val[k])
                     /\ Holding(store, RowOf(S), nm, val)
  BY DEF LinesHeld
<1>2. RowOf(S)' = RowOf(S)
  BY DEF RowOf
<1>3. ASSUME NEW k \in S PROVE LineIs(k, nm[k], val[k])'
  BY <1>1, <1>3, LineStays
<1>4. Holding(store, RowOf(S), nm, val)'
  BY <1>1, <1>2 DEF Holding
<1> QED
  BY <1>3, <1>4 DEF LinesHeld

\* An iteration that stores nothing and in which no line ends
LEMMA HeldStays ==
  ASSUME BoundsInv, UNCHANGED <<stream, store, lost>>,
         Reached' = Reached \/ Reached' = Reached + 1, NEW hs \in Nat,
         StartsFrom(hs)' = StartsFrom(hs), Held(hs)
  PROVE  Held(hs)'
<1>0. StartsFrom(hs) \in SUBSET Nat
  BY FieldTypes DEF StartsFrom
<1>1. PICK S : S \in SUBSET Nat /\ S = StartsFrom(hs) /\ S = StartsFrom(hs)'
  BY <1>0, Zenon
<1>2. PICK D \in SUBSET Listed(RowOf(S)) : Cardinality(D) = lost /\ LinesHeld(S \ D)
  BY <1>1 DEF Held, AllButLost
<1>3. Listed(RowOf(S))' = Listed(RowOf(S))
  BY DEF RowOf, Listed
<1>4. LinesHeld(S \ D)'
  <2>1. S \ D \in SUBSET Nat
    BY <1>1
  <2> QED
    BY <1>2, <2>1, LinesHeldStay
<1>5. D \in SUBSET Listed(RowOf(S))' /\ Cardinality(D) = lost'
  BY <1>2, <1>3
<1> QED
  BY <1>1, <1>4, <1>5 DEF AllButLost, Held

\* The rows of a set of lines
LEMMA RowsType ==
  ASSUME NEW S
  PROVE  RowOf(S) \in [S -> KnownHeaders \cup {UNKNOWN}]
  BY LookupType DEF RowOf

\* The store after a header of row h, behind the ones of the given rows
Stored(st, new, row, h, n, v) ==
  \/ /\ h # UNKNOWN
     /\ h \notin Repeatable \/ LinesOf(row, h) = {}
     /\ new = SetSlot(st, h, v)
  \/ /\ h = UNKNOWN \/ (h \in Repeatable /\ LinesOf(row, h) # {})
     /\ new = xheaders_insert(st, n, v)

\* The store holds the lines in S and the one at c, with its name and its value.
HoldsAlso(st, more, S, c, nm, val, n, v) ==
  \E names, values :
    /\ Holding(st, more, names, values)
    /\ names[c] = n /\ values[c] = v
    /\ \A k \in S : names[k] = nm[k] /\ values[k] = val[k]

\* A store that holds some lines, and then one more
LEMMA HoldsOneMore ==
  ASSUME NEW S, NEW c, NEW row, NEW more, OneMore(S, c, row, more),
         NEW st \in Stores, NEW nm, NEW val, Holding(st, row, nm, val),
         NEW n, NEW v, NEW new, Stored(st, new, row, more[c], n, v)
  PROVE  HoldsAlso(new, more, S, c, nm, val, n, v)
<1>1. PICK names, values :
        /\ names  = [k \in S \cup {c} |-> IF k = c THEN n ELSE nm[k]]
        /\ values = [k \in S \cup {c} |-> IF k = c THEN v ELSE val[k]]
  OBVIOUS
<1>2. names[c] = n /\ values[c] = v /\ c \notin S
  BY <1>1 DEF OneMore
<1>3. \A k \in S : names[k] = nm[k] /\ values[k] = val[k]
  BY <1>1, <1>2
<1>4. CASE /\ more[c] # UNKNOWN
           /\ more[c] \notin Repeatable \/ LinesOf(row, more[c]) = {}
           /\ new = SetSlot(st, more[c], v)
  <2>1. Holding(SetSlot(st, more[c], values[c]), more, names, values)
    BY <1>3, <1>4, SlotHolds
  <2> QED
    BY <1>2, <1>3, <1>4, <2>1 DEF HoldsAlso
<1>5. CASE /\ \/ more[c] = UNKNOWN
              \/ more[c] \in Repeatable /\ LinesOf(row, more[c]) # {}
           /\ new = xheaders_insert(st, n, v)
  <2>1. Holding(xheaders_insert(st, names[c], values[c]), more, names, values)
    BY <1>3, <1>5, ListHolds
  <2> QED
    BY <1>2, <1>3, <1>5, <2>1 DEF HoldsAlso
<1> QED
  BY <1>4, <1>5 DEF Stored

\* A line that ends is stored: the store holds it too.
LEMMA HeldGrows ==
  ASSUME BoundsInv, UNCHANGED stream, Reached' = Reached + 1,
         NEW S, S \in SUBSET Nat, IsFiniteSet(S),
         NEW c \in Nat, \A k \in S : k < c,
         LinesHeld(S),
         NEW n, NEW v, LineIs(c, n, v)',
         LET header == http_header_lookup(stream, c)
         IN  \/ ~Spills(store, header) /\ store' = SetSlot(store, header, v)
             \/ Spills(store, header) /\ store' = xheaders_insert(store, n, v)
  PROVE  LinesHeld(S \cup {c})'
<1>1. PICK row, more : row = RowOf(S) /\ more = RowOf(S \cup {c})
  OBVIOUS
<1>2. PICK nm, val : /\ \A k \in S : LineIs(k, nm[k], val[k])
                     /\ Holding(store, row, nm, val)
  BY <1>1 DEF LinesHeld
<1>3. OneMore(S, c, row, more)
  <2>1. \A k \in S : more[k] = row[k]
    BY <1>1 DEF RowOf
  <2> QED
    BY <1>1, <2>1, RowsType DEF OneMore
<1>4. ASSUME NEW k \in S PROVE val[k].start # 0
  <2>0. LineIs(k, nm[k], val[k])
    BY <1>2, <1>4
  <2>1. PICK d, s \in 0..Reached : d < s /\ val[k].start = s
    BY <2>0 DEF LineIs
  <2> QED
    BY <2>1, FieldTypes
<1>5. more[c] = http_header_lookup(stream, c) /\ more[c] \in KnownHeaders \cup {UNKNOWN}
  BY <1>1, LookupType DEF RowOf
<1>6. Spills(store, more[c]) <=>
        more[c] = UNKNOWN \/ (more[c] \in Repeatable /\ LinesOf(row, more[c]) # {})
  <2>1. DOMAIN row = S
    BY <1>1 DEF RowOf
  <2> QED
    BY <1>2, <1>4, <1>5, <2>1, SpillsIf
<1>7. store \in Stores
  BY FieldTypes
<1>8. PICK names, values :
        /\ Holding(store', more, names, values)
        /\ names[c] = n /\ values[c] = v
        /\ \A k \in S : names[k] = nm[k] /\ values[k] = val[k]
  <2>1. \/ ~Spills(store, more[c]) /\ store' = SetSlot(store, more[c], v)
        \/ Spills(store, more[c]) /\ store' = xheaders_insert(store, n, v)
    BY <1>5
  <2>2. Stored(store, store', row, more[c], n, v)
    BY <1>6, <2>1 DEF Stored
  <2>3. HoldsAlso(store', more, S, c, nm, val, n, v)
    BY <1>2, <1>3, <1>7, <2>2, HoldsOneMore
  <2> QED
    BY <2>3 DEF HoldsAlso
<1>9. ASSUME NEW k \in S \cup {c} PROVE LineIs(k, names[k], values[k])'
  <2>1. CASE k = c
    <3>1. names[k] = n /\ values[k] = v
      BY <1>8, <2>1
    <3>2. LineIs(k, n, v)'
      BY <2>1
    <3> QED
      BY <3>1, <3>2
  <2>2. CASE k # c
    <3>1. k \in S /\ k \in Nat
      BY <2>2
    <3>2. LineIs(k, nm[k], val[k])'
      BY <1>2, <3>1, LineStays
    <3>3. names[k] = nm[k] /\ values[k] = val[k]
      BY <1>8, <3>1
    <3> QED
      BY <3>2, <3>3
  <2> QED
    BY <2>1, <2>2
<1>10. RowOf(S \cup {c})' = more
  BY <1>1 DEF RowOf
<1>11. Holding(store, RowOf(S \cup {c}), names, values)'
  BY <1>8, <1>10 DEF Holding
<1> QED
  BY <1>9, <1>11 DEF LinesHeld

\* A line that ends is stored, or is one for the list and dropped.
LEMMA AllButLostGrows ==
  ASSUME BoundsInv, UNCHANGED stream, i = Reached, Reached' = Reached + 1, IsCrlf(Ch),
         NEW hs \in Nat, NEW c \in Nat, c < Reached, Open(hs, c), Held(hs),
         NEW n, NEW v, LineIs(c, n, v)',
         LET header == http_header_lookup(stream, c)
         IN  \/ /\ ~Spills(store, header)
                /\ store' = SetSlot(store, header, v) /\ UNCHANGED lost
             \/ /\ Spills(store, header)
                /\ store' = xheaders_insert(store, n, v) /\ UNCHANGED lost
             \/ /\ Spills(store, header)
                /\ lost' = lost + 1 /\ UNCHANGED store
  PROVE  Held(hs)'
<1>0. PICK S : S = StartsFrom(hs)
  OBVIOUS
<1> DEFINE T == S \cup {c}
<1>1. StartsFrom(hs)' = T /\ (\A k \in S : k < c) /\ c \notin S
  BY <1>0, StartsGrow
<1>2. S \in SUBSET Nat /\ IsFiniteSet(S)
  <2>1. Reached \in Nat
    BY FieldTypes
  <2>2. S \in SUBSET (hs..(Reached - 1)) /\ hs..(Reached - 1) \in SUBSET Nat
    BY <1>0, <2>1 DEF StartsFrom
  <2>3. IsFiniteSet(hs..(Reached - 1))
    BY <2>1, FS_Interval
  <2>4. IsFiniteSet(S)
    BY <2>2, <2>3, FS_Subset
  <2> QED
    BY <2>2, <2>4
<1>3. PICK D \in SUBSET Listed(RowOf(S)) : Cardinality(D) = lost /\ LinesHeld(S \ D)
  BY <1>0 DEF Held, AllButLost
<1>4. /\ D \in SUBSET S /\ IsFiniteSet(D) /\ D \in SUBSET Listed(RowOf(T))
  <2>1. Listed(RowOf(S)) \in SUBSET S /\ Listed(RowOf(S)) \in SUBSET Listed(RowOf(T))
    BY DEF Listed, RowOf
  <2> QED
    BY <1>2, <1>3, <2>1, FS_Subset
<1>5. Listed(RowOf(T))' = Listed(RowOf(T))
  BY DEF Listed, RowOf
<1>6. PICK header : header = http_header_lookup(stream, c)
  OBVIOUS
<1>7. CASE Spills(store, header) /\ lost' = lost + 1 /\ UNCHANGED store
  <2>1. \A k \in S \ D : k < c
    BY <1>1
  <2>2. c \in Listed(RowOf(T))
    <3> DEFINE K == S \ D
    <3>1. PICK nm, val : /\ \A k \in K : LineIs(k, nm[k], val[k])
                         /\ Holding(store, RowOf(K), nm, val)
      BY <1>3 DEF LinesHeld
    <3>2. ASSUME NEW k \in K PROVE val[k].start # 0
      <4>0. LineIs(k, nm[k], val[k])
        BY <3>1, <3>2
      <4>1. PICK d, s \in 0..Reached : d < s /\ val[k].start = s
        BY <4>0 DEF LineIs
      <4> QED
        BY <4>1, FieldTypes
    <3>3. DOMAIN RowOf(K) = K /\ K \in SUBSET Nat /\ K \in SUBSET S
      BY <1>2 DEF RowOf
    <3>4. header \in KnownHeaders \cup {UNKNOWN}
      BY <1>6, LookupType
    <3> HIDE DEF K
    <3>5. header = UNKNOWN \/ (header \in Repeatable /\ LinesOf(RowOf(K), header) # {})
      BY <1>7, <3>1, <3>2, <3>3, <3>4, SpillsIf
    <3>6. ASSUME LinesOf(RowOf(K), header) # {}
          PROVE  \E j \in T : j < c /\ RowOf(T)[j] = RowOf(T)[c]
      <4>1. PICK j \in K : http_header_lookup(stream, j) = header
        BY <3>3, <3>6 DEF LinesOf, RowOf
      <4> QED
        BY <1>1, <1>6, <3>3, <4>1 DEF RowOf
    <3> QED
      BY <1>6, <3>5, <3>6 DEF Listed, RowOf
  <2>3. LinesHeld(S \ D)'
    <3>1. S \ D \in SUBSET Nat
      BY <1>2
    <3> QED
      BY <1>3, <1>7, <3>1, LinesHeldStay
  <2>4. Cardinality(D \cup {c}) = lost'
    <3>1. c \notin D
      BY <1>1, <1>4
    <3> QED
      BY <1>3, <1>4, <1>7, <3>1, FS_AddElement
  <2>5. T \ (D \cup {c}) = S \ D
    BY <1>1
  <2>6. D \cup {c} \in SUBSET Listed(RowOf(T))'
    BY <1>4, <1>5, <2>2
  <2> HIDE DEF T
  <2> QED
    BY <1>1, <2>3, <2>4, <2>5, <2>6 DEF AllButLost, Held
<1>8. CASE /\ UNCHANGED lost
           /\ \/ ~Spills(store, header) /\ store' = SetSlot(store, header, v)
              \/ Spills(store, header) /\ store' = xheaders_insert(store, n, v)
  <2>1. LinesHeld((S \ D) \cup {c})'
    <3>1. /\ S \ D \in SUBSET Nat /\ IsFiniteSet(S \ D)
          /\ \A k \in S \ D : k < c
      BY <1>1, <1>2, FS_Subset
    <3>2. PICK K : K = S \ D
      OBVIOUS
    <3>3. LinesHeld(K \cup {c})'
      BY <1>3, <1>6, <1>8, <3>1, <3>2, HeldGrows
    <3> QED
      BY <3>2, <3>3
  <2>2. T \ D = (S \ D) \cup {c}
    BY <1>1, <1>4
  <2>3. D \in SUBSET Listed(RowOf(T))' /\ Cardinality(D) = lost'
    BY <1>3, <1>4, <1>5, <1>8
  <2> HIDE DEF T
  <2> QED
    BY <1>1, <2>1, <2>2, <2>3 DEF AllButLost, Held
<1> QED
  BY <1>6, <1>7, <1>8

\* The value that ValueByte stores is that of the line it has read.
LEMMA LineRead ==
  ASSUME BoundsInv, UNCHANGED stream, i = Reached, Reached' = Reached + 1, IsCrlf(Ch),
         NEW hs \in Nat, NEW k \in Nat, NEW c \in Nat, NEW s \in Nat,
         ValueFrom(hs, k, c, s),
         NEW v, v = Slice(s, RTrim(s, Reached)), Reached \in 0..SHRT_MAX
  PROVE  LineIs(k, [start |-> k, end |-> c], v)'
<1>0. /\ Reached \in Nat /\ Reached \in 0..SHRT_MAX /\ SHRT_MAX \in Nat
      /\ s <= Reached
  BY FieldTypes, Widths DEF ValueFrom
<1>1. \A m : At(m)' = At(m)
  BY DEF At
<1>2. PICK t, e \in Nat : t = RTrim(s, Reached) /\ e = Reached
  <2>1. RTrim(s, Reached) \in s..Reached
    BY <1>0, Trimmed
  <2> QED
    BY <1>0, <2>1
<1>3. /\ s <= t /\ t <= e
      /\ \A m \in t..(e - 1) : IsHtabOrSpace(At(m))
      /\ t = s \/ ~IsHtabOrSpace(At(t - 1))
  <2>1. /\ RTrim(s, Reached) \in s..Reached
        /\ \A m \in RTrim(s, Reached)..(Reached - 1) : IsHtabOrSpace(At(m))
        /\ RTrim(s, Reached) = s \/ ~IsHtabOrSpace(At(RTrim(s, Reached) - 1))
    BY <1>0, Trimmed
  <2> QED
    BY <1>0, <1>2, <2>1
<1>4. s = e \/ (s < t /\ ~IsHtabOrSpace(At(s)) /\ ~IsHtabOrSpace(At(t - 1)))
  <2>1. ~IsHtabOrSpace(At(s))
    BY DEF ValueFrom
  <2>2. ASSUME s # e, t = s PROVE FALSE
    <3>1. s \in t..(e - 1)
      BY <1>3, <2>2
    <3> QED
      BY <1>3, <2>1, <3>1
  <2> QED
    BY <1>3, <2>1, <2>2
<1>5. v = [start |-> s, end |-> t]
  <2>1. s \in 0..SHRT_MAX /\ t \in 0..SHRT_MAX
    BY <1>0, <1>2, <1>3
  <2> QED
    BY <1>2, <2>1, OffsetsFit
<1>6. c < s /\ Ends(k, c, {COLON}) /\ Open(hs, k) /\ Blank(c + 1, s)
  BY DEF ValueFrom
<1>7. c \in 0..Reached' /\ s \in 0..Reached' /\ t \in 0..Reached' /\ e \in 0..Reached'
  BY <1>0, <1>2, <1>3, <1>6
<1>8. Ends(k, c, {COLON})'
  BY <1>6, FoundStays
<1>9. Ends(k, e, CrlfBytes)'
  <2>1. Lacks(k, CrlfBytes)
    BY <1>0, <1>6 DEF Open, Lacks, IsCrlf, CrlfBytes
  <2>2. Ch \in CrlfBytes
    BY DEF IsCrlf, CrlfBytes
  <2> QED
    BY <1>2, <2>1, <2>2, ReadOn
<1>10. Blank(c + 1, s)' /\ Blank(t, e)'
  BY <1>1, <1>3, <1>6 DEF Blank
<1> QED
  BY <1>1, <1>3, <1>4, <1>5, <1>6, <1>7, <1>8, <1>9, <1>10 DEF LineIs

\* A line stays open over a byte that is neither CR nor LF.
LEMMA OpenStays ==
  ASSUME BoundsInv, UNCHANGED stream, i = Reached,
         Reached' = Reached \/ (Reached' = Reached + 1 /\ ~IsCrlf(Ch)),
         NEW hs \in Nat, NEW c \in Nat, Open(hs, c)
  PROVE  Open(hs, c)'
<1>1. \A m : At(m)' = At(m)
  BY DEF At
<1>2. Reached \in Nat /\ Ch = At(Reached)
  BY FieldTypes DEF Ch
<1>3. /\ hs <= c /\ c <= Reached
      /\ c = hs \/ At(c - 1) = LF
      /\ \A k \in c..(Reached - 1) : ~IsCrlf(At(k))
  BY DEF Open
<1>4. c <= Reached'
  BY <1>2, <1>3
<1>5. ASSUME NEW k \in c..(Reached' - 1) PROVE ~IsCrlf(At(k))
  <2>1. k \in c..(Reached - 1) \/ (k = Reached /\ Reached' = Reached + 1)
    BY <1>2
  <2> QED
    BY <1>2, <1>3, <2>1
<1> QED
  BY <1>1, <1>3, <1>4, <1>5 DEF Open

\* A step that reads no byte leaves the lines that have ended.
LEMMA StartsSame ==
  ASSUME UNCHANGED <<stream, Reached>>, NEW hs
  PROVE  StartsFrom(hs)' = StartsFrom(hs)
<1>1. \A m : At(m)' = At(m)
  BY DEF At
<1> QED
  BY <1>1 DEF StartsFrom

\* Nor does it change what has been read of an unfinished one.
LEMMA NothingMoves ==
  ASSUME UNCHANGED <<stream, state, Reached, cursor, key>>, NEW hs, LineState(hs)
  PROVE  LineState(hs)'
<1>1. \A m : At(m)' = At(m)
  BY DEF At
<1>2. \A c : Open(hs, c)' <=> Open(hs, c)
  BY <1>1 DEF Open
<1>3. \A from, to : Blank(from, to)' <=> Blank(from, to)
  BY <1>1 DEF Blank
<1>4. \A from, to, bytes : /\ Ends(from, to, bytes)' <=> Ends(from, to, bytes)
                           /\ Lacks(from, bytes)' <=> Lacks(from, bytes)
  BY <1>1 DEF Ends, Lacks
<1>5. \A s, c, v : ValueFrom(hs, s, c, v)' <=> ValueFrom(hs, s, c, v)
  BY <1>1, <1>2, <1>3, <1>4 DEF ValueFrom
<1>6. (AfterCrlf(hs) => AfterCrlf(hs)') /\ (AtLine(hs) => AtLine(hs)')
  BY <1>1, <1>2 DEF AfterCrlf, AtLine
<1>7. InName(hs) => InName(hs)'
  BY <1>2, <1>4 DEF InName
<1>8. InColon(hs) => InColon(hs)'
  <2> SUFFICES ASSUME InColon(hs) PROVE InColon(hs)'
    OBVIOUS
  <2>1. PICK s, c \in Nat :
          /\ key = [start |-> s, end |-> c]
          /\ Open(hs, s) /\ Ends(s, c, {COLON}) /\ Blank(c + 1, Reached)
    BY DEF InColon
  <2>2. Blank(c + 1, Reached)'
    BY <1>1, <2>1 DEF Blank
  <2> QED
    BY <1>2, <1>4, <2>1, <2>2 DEF InColon
<1>9. InValue(hs) => InValue(hs)'
  BY <1>5 DEF InValue
<1> QED
  BY <1>6, <1>7, <1>8, <1>9 DEF LineState

\* The byte of a value, or the one that ends it and has the line stored
LEMMA ValueByteRead ==
  ASSUME BoundsInv, Iteration, UNCHANGED key,
         NEW hs \in Nat, NEW k \in Nat, NEW c \in Nat, NEW s \in Nat,
         key = [start |-> k, end |-> c], cursor' = s,
         ValueFrom(hs, k, c, s), ValueByte(s),
         Held(hs)
  PROVE  LineState(hs)' /\ Held(hs)'
<1>0. /\ Reached \in Nat /\ Reached \in 0..SHRT_MAX /\ i = Reached
      /\ UNCHANGED stream
      /\ failure' # "syntax" => Reached' = Reached + 1
      /\ failure' = "syntax" => Reached' = Reached
  BY FieldTypes, IterationReads
<1>1. /\ s <= Reached /\ c < s /\ Open(hs, k) /\ Ends(k, c, {COLON}) /\ Blank(c + 1, s)
      /\ ~IsHtabOrSpace(At(s))
  BY DEF ValueFrom
<1>2. \A m : At(m)' = At(m)
  BY <1>0 DEF At
<1>3. CASE ~IsCrlf(Ch)
  <2>0. state' = "VALUE" /\ UNCHANGED <<store, lost>>
    BY <1>3 DEF ValueByte, NextOfRun, Bad
  <2>1. Open(hs, k)'
    BY <1>0, <1>1, <1>3, OpenStays
  <2>2. Ends(k, c, {COLON})'
    BY <1>0, <1>1, FoundStays
  <2>3. Blank(c + 1, s)' /\ s <= Reached'
    BY <1>0, <1>1, <1>2 DEF Blank
  <2>4. ValueFrom(hs, k, c, s)'
    BY <1>1, <1>2, <2>1, <2>2, <2>3 DEF ValueFrom
  <2>5. InValue(hs)'
    BY <2>4 DEF InValue
  <2>6. StartsFrom(hs)' = StartsFrom(hs)
    BY <1>0, <1>3, StartsSame, StartsStay
  <2>7. Held(hs)'
    BY <1>0, <2>0, <2>6, HeldStays
  <2> QED
    BY <2>0, <2>5, <2>7 DEF LineState
<1>4. CASE IsCrlf(Ch)
  <2>1. Reached' = Reached + 1 /\ state' = EndOfLine /\ StoreHeader(s)
    BY <1>0, <1>4 DEF ValueByte, Continue
  <2>2. PICK n, v : n = key /\ v = Slice(s, RTrim(s, Reached))
    OBVIOUS
  <2>3. LineIs(k, n, v)'
    <3>1. LineIs(k, [start |-> k, end |-> c], v)'
      BY <1>0, <1>4, <2>1, <2>2, LineRead
    <3> QED
      BY <2>2, <3>1
  <2>4. PICK h : h = http_header_lookup(stream, k)
    OBVIOUS
  <2>5. \/ ~Spills(store, h) /\ store' = SetSlot(store, h, v) /\ UNCHANGED lost
        \/ Spills(store, h) /\ store' = xheaders_insert(store, n, v) /\ UNCHANGED lost
        \/ Spills(store, h) /\ lost' = lost + 1 /\ UNCHANGED store
    <3>1. GetHttpHeader(key) = h /\ v = Slice(s, RTrim(s, i))
      BY <1>0, <2>2, <2>4 DEF GetHttpHeader, LookupHttpHeader
    <3>2. h # UNKNOWN /\ (store.std[h].start = 0 \/ ~kHttpRepeatable(h)) <=> ~Spills(store, h)
      BY DEF Spills, header_exists, kHttpRepeatable
    <3> QED
      BY <2>1, <2>2, <3>1, <3>2 DEF StoreHeader
  <2>6. k < Reached
    BY <1>0, <1>1 DEF Ends
  <2>8. Held(hs)'
    BY <1>0, <1>1, <1>4, <2>1, <2>3, <2>4, <2>5, <2>6, AllButLostGrows
  <2>9. PICK l \in Nat : l = Reached
    BY <1>0
  <2>10. At(l)' = Ch /\ hs <= l
    BY <1>0, <1>1, <1>2, <2>9 DEF Ch, Open
  <2>11. CASE Ch = CR
    <3>1. AfterCrlf(hs)'
      BY <1>4, <2>1, <2>9, <2>10 DEF AfterCrlf
    <3>2. state' = "CR"
      BY <2>1, <2>11 DEF EndOfLine
    <3> QED
      BY <2>8, <3>1, <3>2 DEF LineState
  <2>12. CASE Ch # CR
    <3>1. Open(hs, l + 1)'
      BY <1>4, <2>1, <2>9, <2>10, <2>12 DEF Open, IsCrlf
    <3>2. AtLine(hs)'
      BY <2>1, <2>9, <3>1 DEF AtLine
    <3>3. state' = "LF1"
      BY <2>1, <2>12 DEF EndOfLine
    <3> QED
      BY <2>8, <3>2, <3>3 DEF LineState
  <2> QED
    BY <2>11, <2>12
<1> QED
  BY <1>3, <1>4

\* An iteration that fails leaves everything as it was.
LEMMA FailedRead ==
  ASSUME BoundsInv, UNCHANGED <<stream, state, Reached, cursor, key, store, lost>>,
         NEW hs \in Nat, LineState(hs), Held(hs)
  PROVE  LineState(hs)' /\ Held(hs)'
<1>1. LineState(hs)'
  BY NothingMoves
<1>2. StartsFrom(hs)' = StartsFrom(hs)
  BY StartsSame
<1> QED
  BY <1>1, <1>2, HeldStays

\* STATE_CR and STATE_LF2
LEMMA AfterCrlfRead ==
  ASSUME BoundsInv, Cr \/ Lf2,
         NEW hs \in Nat, LineState(hs), Held(hs)
  PROVE  LineState(hs)' /\ Held(hs)'
<1>0. /\ Reached \in Nat
      /\ i = Reached /\ Ch = At(Reached) /\ UNCHANGED stream
      /\ failure' # "syntax" => Reached' = Reached + 1
      /\ failure' = "syntax" => Reached' = Reached
  BY FieldTypes, IterationReads DEF Iteration
<1>4. state \in {"CR", "LF2"} /\ UNCHANGED <<cursor, key, store, lost>>
  BY DEF Cr, Lf2, Reading
<1>1. \A m : At(m)' = At(m)
  BY <1>0 DEF At
<1>2. CASE Ch # LF
  <2>1. UNCHANGED state /\ failure' = "syntax"
    BY <1>2 DEF Cr, Lf2, Reading, Bad
  <2> QED
    BY <1>0, <1>4, <2>1, FailedRead
<1>3. CASE Ch = LF
  <2>1. Reached' = Reached + 1 /\ (state' = "LF1" \/ state' = "LF2")
    <3>1. failure' = "none" /\ (state' = "LF1" \/ state' = "LF2")
      BY <1>3 DEF Cr, Lf2, Reading, Continue, Succeed
    <3> QED
      BY <1>0, <3>1
  <2>2. PICK l \in Nat : Reached = l + 1 /\ hs <= l + 2 /\ IsCrlf(At(l))
    BY <1>4 DEF LineState, AfterCrlf
  <2>3. StartsFrom(hs)' = StartsFrom(hs)
    <3>1. 0 < Reached /\ IsCrlf(At(Reached - 1))
      BY <2>2
    <3> QED
      BY <1>0, <2>1, <3>1, StartsStay
  <2>4. Held(hs)'
    BY <1>0, <1>4, <2>1, <2>3, HeldStays
  <2>5. At(l + 1)' = LF
    BY <1>0, <1>1, <1>3, <2>2
  <2>6. AfterCrlf(hs)'
    <3>1. l + 1 \in Nat /\ Reached' = (l + 1) + 1 /\ hs <= (l + 1) + 2
      BY <2>1, <2>2
    <3> QED
      BY <2>5, <3>1 DEF AfterCrlf, IsCrlf
  <2>7. AtLine(hs)'
    <3>1. Open(hs, l + 2)'
      BY <1>1, <2>1, <2>2, <2>5 DEF Open
    <3> QED
      BY <2>1, <2>2, <3>1 DEF AtLine
  <2> QED
    BY <2>1, <2>4, <2>6, <2>7 DEF LineState
<1> QED
  BY <1>2, <1>3

\* STATE_LF1
LEMMA Lf1Read ==
  ASSUME BoundsInv, Lf1,
         NEW hs \in Nat, LineState(hs), Held(hs)
  PROVE  LineState(hs)' /\ Held(hs)'
<1>0. /\ Reached \in Nat /\ Reached \in 0..SHRT_MAX
      /\ i = Reached /\ Ch = At(Reached) /\ UNCHANGED stream
      /\ failure' # "syntax" => Reached' = Reached + 1
      /\ failure' = "syntax" => Reached' = Reached
  BY FieldTypes, IterationReads DEF Iteration
<1>6. state = "LF1" /\ UNCHANGED <<cursor, store, lost>>
  BY DEF Lf1, Reading
<1>1. \A m : At(m)' = At(m)
  BY <1>0 DEF At
<1>2. PICK s \in Nat : s = Reached /\ Open(hs, s)
  BY <1>6 DEF LineState, AtLine
<1>3. /\ hs <= s
      /\ s = hs \/ At(s - 1) = LF
  BY <1>2 DEF Open
<1>4. CASE ~IsCrlf(Ch) /\ ~kHttpToken(Ch)
  <2>1. UNCHANGED <<state, key>> /\ failure' = "syntax"
    BY <1>4, <1>6 DEF Lf1, Bad, IsCrlf
  <2> QED
    BY <1>0, <1>6, <2>1, FailedRead
<1>5. CASE IsCrlf(Ch) \/ kHttpToken(Ch)
  <2>1. Reached' = Reached + 1
    <3>1. failure' = "none"
      BY <1>5 DEF Lf1, Continue, Succeed, Bad, IsCrlf
    <3> QED
      BY <1>0, <3>1
  <2>2. ~kHttpToken(Ch) \/ ~IsCrlf(Ch)
    BY DEF kHttpToken, IsToken, IsCrlf, Tokens, CR, LF
  <2>3. StartsFrom(hs)' = StartsFrom(hs)
    <3>1. Reached <= hs \/ (0 < Reached /\ IsCrlf(At(Reached - 1)))
      BY <1>2, <1>3 DEF IsCrlf
    <3> QED
      BY <1>0, <2>1, <3>1, StartsStay
  <2>4. Held(hs)'
    BY <1>0, <1>6, <2>1, <2>3, HeldStays
  <2>5. CASE Ch = CR
    <3>1. state' = "LF2"
      BY <2>2, <2>5 DEF Lf1, Continue, IsCrlf, CR, LF
    <3>2. IsCrlf(At(s)')
      BY <1>0, <1>1, <1>2, <2>5 DEF IsCrlf
    <3>3. AfterCrlf(hs)'
      BY <1>2, <1>3, <2>1, <3>2 DEF AfterCrlf
    <3> QED
      BY <2>4, <3>1, <3>3 DEF LineState
  <2>6. CASE Ch = LF
    <3>1. state' = "LF1"
      BY <1>6, <2>2, <2>6 DEF Lf1, Succeed, IsCrlf, CR, LF
    <3>2. At(s)' = LF
      BY <1>0, <1>1, <1>2, <2>6
    <3>3. Open(hs, s + 1)'
      BY <1>2, <1>3, <2>1, <3>2 DEF Open
    <3>4. AtLine(hs)'
      BY <1>2, <2>1, <3>3 DEF AtLine
    <3> QED
      BY <2>4, <3>1, <3>4 DEF LineState
  <2>7. CASE kHttpToken(Ch) /\ ~IsCrlf(Ch)
    <3>1. state' = "NAME" /\ key' = [key EXCEPT !.start = U16(Reached)]
      BY <1>0, <2>7 DEF Lf1, Continue, Bad, IsCrlf
    <3>2. key'.start = s
      <4>1. key \in Slices /\ U16(Reached) = Reached
        BY <1>0, FieldTypes, OffsetsFit
      <4> QED
        BY <1>2, <3>1, <4>1 DEF Slices
    <3>3. Open(hs, s)'
      BY <1>0, <1>2, <2>1, <2>7, OpenStays
    <3>4. Lacks(s, {COLON})
      BY <1>2 DEF Lacks
    <3>5. Ch \notin {COLON}
      BY <2>7 DEF kHttpToken, IsToken, Tokens, COLON
    <3>6. Lacks(s, {COLON})'
      BY <1>0, <2>1, <3>4, <3>5, ReadOn
    <3>7. InName(hs)'
      BY <1>2, <2>1, <3>2, <3>3, <3>6 DEF InName
    <3> QED
      BY <2>4, <3>1, <3>7 DEF LineState
  <2> QED
    BY <1>5, <2>2, <2>5, <2>6, <2>7 DEF IsCrlf
<1> QED
  BY <1>4, <1>5

\* STATE_NAME
LEMMA NameRead ==
  ASSUME BoundsInv, Name,
         NEW hs \in Nat, LineState(hs), Held(hs)
  PROVE  LineState(hs)' /\ Held(hs)'
<1>0. /\ Reached \in Nat /\ Reached \in 0..SHRT_MAX
      /\ i = Reached /\ Ch = At(Reached) /\ UNCHANGED stream
      /\ failure' # "syntax" => Reached' = Reached + 1
      /\ failure' = "syntax" => Reached' = Reached
  BY FieldTypes, IterationReads DEF Iteration
<1>4. state = "NAME" /\ UNCHANGED <<cursor, store, lost>>
  BY DEF Name, Reading
<1>1. PICK s \in Nat : key.start = s /\ s < Reached /\ Open(hs, s) /\ Lacks(s, {COLON})
  BY <1>4 DEF LineState, InName
<1>2. CASE Ch # COLON /\ ~kHttpToken(Ch)
  <2>1. UNCHANGED <<state, key>> /\ failure' = "syntax"
    BY <1>2, <1>4 DEF Name, Bad
  <2> QED
    BY <1>0, <1>4, <2>1, FailedRead
<1>3. CASE Ch = COLON \/ kHttpToken(Ch)
  <2>1. Reached' = Reached + 1
    <3>1. failure' = "none"
      BY <1>3 DEF Name, Continue, NextOfRun
    <3> QED
      BY <1>0, <3>1
  <2>2. ~IsCrlf(Ch)
    BY <1>3 DEF kHttpToken, IsToken, IsCrlf, Tokens, CR, LF, COLON
  <2>3. Open(hs, s)'
    BY <1>0, <1>1, <2>1, <2>2, OpenStays
  <2>4. Held(hs)'
    BY <1>0, <1>4, <2>1, <2>2, StartsStay, HeldStays
  <2>5. CASE Ch = COLON
    <3>1. state' = "COLON" /\ key' = [key EXCEPT !.end = U16(Reached)]
      BY <1>0, <2>5 DEF Name, Continue
    <3>2. PICK c \in Nat : c = Reached
      BY <1>0
    <3>3. key' = [start |-> s, end |-> c]
      <4>1. key \in Slices /\ U16(Reached) = Reached
        BY <1>0, FieldTypes, OffsetsFit
      <4> QED
        BY <1>1, <3>1, <3>2, <4>1 DEF Slices
    <3>4. Ends(s, c, {COLON})'
      BY <1>0, <1>1, <2>1, <2>5, <3>2, ReadOn
    <3>5. Blank(c + 1, Reached)'
      BY <2>1, <3>2 DEF Blank
    <3>6. InColon(hs)'
      BY <2>3, <3>3, <3>4, <3>5 DEF InColon
    <3> QED
      BY <2>4, <3>1, <3>6 DEF LineState
  <2>6. CASE Ch # COLON
    <3>1. state' = "NAME" /\ UNCHANGED key
      BY <1>3, <2>6 DEF Name, NextOfRun
    <3>2. Lacks(s, {COLON})'
      BY <1>0, <1>1, <2>1, <2>6, ReadOn
    <3>3. InName(hs)'
      BY <1>0, <1>1, <2>1, <2>3, <3>1, <3>2 DEF InName
    <3> QED
      BY <2>4, <3>1, <3>3 DEF LineState
  <2> QED
    BY <2>5, <2>6
<1> QED
  BY <1>2, <1>3

\* STATE_COLON
LEMMA ColonRead ==
  ASSUME BoundsInv, Colon,
         NEW hs \in Nat, LineState(hs), Held(hs)
  PROVE  LineState(hs)' /\ Held(hs)'
<1>0. /\ Reached \in Nat
      /\ i = Reached /\ Ch = At(Reached) /\ UNCHANGED stream
      /\ failure' # "syntax" => Reached' = Reached + 1
      /\ failure' = "syntax" => Reached' = Reached
  BY FieldTypes, IterationReads DEF Iteration
<1>6. state = "COLON" /\ UNCHANGED key
  BY DEF Colon, Reading
<1>1. \A m : At(m)' = At(m)
  BY <1>0 DEF At
<1>2. PICK k, c \in Nat :
        /\ key = [start |-> k, end |-> c]
        /\ Open(hs, k) /\ Ends(k, c, {COLON}) /\ Blank(c + 1, Reached)
  BY <1>6 DEF LineState, InColon
<1>3. c < Reached
  BY <1>0, <1>2 DEF Ends
<1>4. CASE IsHtabOrSpace(Ch)
  <2>1. Reached' = Reached + 1 /\ state' = "COLON" /\ UNCHANGED <<store, lost>>
    <3>1. failure' = "none" /\ state' = "COLON" /\ UNCHANGED <<store, lost>>
      BY <1>4 DEF Colon, Continue
    <3> QED
      BY <1>0, <3>1
  <2>2. ~IsCrlf(Ch)
    BY <1>4 DEF IsHtabOrSpace, IsCrlf, HTAB, SP, CR, LF
  <2>3. Open(hs, k)' /\ Ends(k, c, {COLON})'
    BY <1>0, <1>2, <2>1, <2>2, OpenStays, FoundStays
  <2>4. Blank(c + 1, Reached)'
    <3>1. \A m \in (c + 1)..(Reached' - 1) : m \in (c + 1)..(Reached - 1) \/ m = Reached
      BY <1>0, <2>1
    <3> QED
      BY <1>0, <1>1, <1>2, <1>4, <3>1 DEF Blank
  <2>5. InColon(hs)'
    BY <1>6, <1>2, <2>3, <2>4 DEF InColon
  <2>6. Held(hs)'
    BY <1>0, <2>1, <2>2, StartsStay, HeldStays
  <2> QED
    BY <2>1, <2>5, <2>6 DEF LineState
<1>5. CASE ~IsHtabOrSpace(Ch)
  <2>1. PICK s \in Nat : s = Reached
    BY <1>0
  <2>2. cursor' = s /\ ValueByte(s)
    BY <1>0, <1>5, <2>1 DEF Colon
  <2>3. ValueFrom(hs, k, c, s)
    BY <1>0, <1>2, <1>3, <1>5, <2>1 DEF ValueFrom
  <2> QED
    BY <1>2, <1>6, <2>2, <2>3, ValueByteRead DEF Iteration
<1> QED
  BY <1>4, <1>5

\* STATE_VALUE
LEMMA ValueRead ==
  ASSUME BoundsInv, Value,
         NEW hs \in Nat, LineState(hs), Held(hs)
  PROVE  LineState(hs)' /\ Held(hs)'
<1>0. state = "VALUE" /\ UNCHANGED <<key, cursor>>
  BY DEF Value, Reading
<1>1. PICK k, c, s \in Nat :
        /\ key = [start |-> k, end |-> c] /\ cursor = s
        /\ ValueFrom(hs, k, c, s)
  BY <1>0 DEF LineState, InValue
<1>2. cursor' = s /\ ValueByte(s)
  BY <1>0, <1>1 DEF Value
<1> QED
  BY <1>0, <1>1, <1>2, ValueByteRead DEF Iteration

\* An iteration past the first line
LEMMA LineByteRead ==
  ASSUME BoundsInv, HeadersRead, PastFirstLine, Iteration
  PROVE  HeadersRead'
<1>1. PICK e, hs \in Nat :
        /\ FirstLineEnds(e) /\ hs = LinesStart(e)
        /\ LineState(hs) /\ Held(hs)
  BY DEF HeadersRead
<1>2. LineState(hs)' /\ Held(hs)'
  <2>1. Cr \/ Lf1 \/ Name \/ Colon \/ Value \/ Lf2
    BY DEF Iteration, PastFirstLine, Start, Method, Uri, Version, Status, Message, Reading
  <2> QED
    BY <1>1, <2>1, AfterCrlfRead, Lf1Read, NameRead, ColonRead, ValueRead
<1>3. /\ PastFirstLine' /\ UNCHANGED <<stream, type>>
      /\ Reached' = Reached \/ Reached' = Reached + 1
  BY PastStates
<1>4. FirstLineEnds(e)' /\ hs = LinesStart(e)'
  <2>1. LinesStart(e)' = LinesStart(e)
    BY <1>3 DEF LinesStart, At
  <2> QED
    BY <1>1, <1>3, <2>1, EndStays
<1> QED
  BY <1>2, <1>3, <1>4 DEF HeadersRead

-----------------------------------------------------------------------------
(* The other steps *)

\* An iteration on the first line
LEMMA FirstLineByteRead ==
  ASSUME BoundsInv, FirstLineRead(FALSE), HeadersRead, ~PastFirstLine, Iteration
  PROVE  HeadersRead'
<1>1. CASE PastFirstLine'
  BY <1>1, FirstLineEnded
<1>2. CASE ~PastFirstLine'
  <2>1. UNCHANGED <<store, lost>>
    BY ByteState DEF Iteration, Start, Method, Uri, Version, Status, Message
  <2> QED
    BY <1>2, <2>1 DEF HeadersRead, NothingStored
<1> QED
  BY <1>1, <1>2

\* A step that reads nothing
LEMMA NoByteRead ==
  ASSUME BoundsInv, HeadersRead, Rests, Reached' = Reached
  PROVE  HeadersRead'
<1>0. UNCHANGED <<stream, type, state, cursor, key, store, lost>>
  BY DEF Rests
<1>1. PastFirstLine' <=> PastFirstLine
  BY <1>0 DEF PastFirstLine
<1>2. CASE ~PastFirstLine
  BY <1>0, <1>1, <1>2 DEF HeadersRead, NothingStored
<1>3. CASE PastFirstLine
  <2>1. PICK e, hs \in Nat :
          /\ FirstLineEnds(e) /\ hs = LinesStart(e)
          /\ LineState(hs) /\ Held(hs)
    BY <1>3 DEF HeadersRead
  <2>2. LineState(hs)'
    BY <1>0, <2>1, NothingMoves
  <2>3. LinesStart(e)' = LinesStart(e)
    BY <1>0 DEF LinesStart, At
  <2>4. FirstLineEnds(e)' /\ hs = LinesStart(e)'
    BY <1>0, <2>1, <2>3, EndStays
  <2>5. Held(hs)'
    <3>1. StartsFrom(hs)' = StartsFrom(hs)
      BY <1>0, StartsSame
    <3> QED
      BY <1>0, <2>1, <3>1, HeldStays
  <2> QED
    BY <1>1, <1>3, <2>2, <2>4, <2>5 DEF HeadersRead
<1> QED
  BY <1>2, <1>3

\* The first message begins with nothing stored, and so does the next.
LEMMA NewHeaders ==
  /\ state = "START" /\ store = EmptyStore /\ lost = 0 => HeadersRead
  /\ \A s, ty : Begin(s, ty, ResetStore) => HeadersRead'
<1>1. state = "START" /\ store = EmptyStore /\ lost = 0 => HeadersRead
  BY DEF HeadersRead, NothingStored, PastFirstLine, EmptyStore
<1>2. ASSUME NEW s, NEW ty, Begin(s, ty, ResetStore) PROVE HeadersRead'
  <2>1. /\ ResetStore.std = [h \in KnownHeaders |-> NoSlice]
        /\ ResetStore.x = <<>>
    BY DEF ResetStore, EmptyStore
  <2>2. state' = "START" /\ store' = ResetStore /\ lost' = 0
    BY <1>2 DEF Begin
  <2> QED
    BY <2>1, <2>2 DEF HeadersRead, NothingStored, PastFirstLine
<1> QED
  BY <1>1, <1>2

\* Every step keeps the invariant.
LEMMA NextHeaders ==
  BoundsInv /\ Lined /\ FirstLineInv /\ HeadersRead /\ [LineNext]_vars => HeadersRead'
<1> SUFFICES ASSUME BoundsInv, Lined, FirstLineInv, HeadersRead, [LineNext]_vars
             PROVE  HeadersRead'
  OBVIOUS
<1>1. CASE Iteration
  <2>1. FirstLineRead(FALSE)
    BY DEF FirstLineInv
  <2> QED
    BY <1>1, <2>1, FirstLineByteRead, LineByteRead
<1>2. CASE \E s \in Streams, ty \in Types : Begin(s, ty, ResetStore)
  BY <1>2, NewHeaders
<1>3. CASE Rests /\ Reached' = Reached
  BY <1>3, NoByteRead
<1> QED
  BY <1>1, <1>2, <1>3, StepReads

-----------------------------------------------------------------------------
(* From the invariant to the second reading of the bytes *)

\* The operators of the instance are those of the parser's own modules.
LEMMA SameOperators ==
  \A S : /\ Uurl!Min(S) = Min(S) /\ Uurl!Max(S) = Max(S)
         /\ Uurl!Cardinality(S) = Cardinality(S)
<1>1. \A S : Uurl!Min(S) = Min(S) /\ Uurl!Max(S) = Max(S)
  BY Zenon DEF Uurl!Min, Min, Uurl!Max, Max
<1>2. \A S : Uurl!Cardinality(S) = Cardinality(S)
  BY Zenon DEF Uurl!Cardinality, Cardinality
<1> QED
  BY <1>1, <1>2

\* The rows of the two readings are the same ones.
LEMMA RowsAre ==
  /\ Uurl!KnownHeaders = KnownHeaders /\ Uurl!UNKNOWN = UNKNOWN
  /\ Uurl!NoSlice = NoSlice
  /\ \A k : Uurl!http_header_lookup(stream, k) = http_header_lookup(stream, k)
  /\ \A S : Uurl!RowOf(S) = RowOf(S)
  /\ \A row : Uurl!ListedOf(row) = Listed(row)
<1>1. /\ Uurl!KnownHeaders = KnownHeaders /\ Uurl!UNKNOWN = UNKNOWN
      /\ Uurl!NoSlice = NoSlice
  BY DEF Uurl!KnownHeaders, KnownHeaders, Uurl!UNKNOWN, UNKNOWN, Uurl!NoSlice, NoSlice
<1>2. \A c : Uurl!Lower(c) = Lower(c)
  BY DEF Uurl!Lower, Lower
<1>3. \A text, from : Uurl!PrefixAt(text, stream, from) <=> PrefixAt(text, stream, from)
  BY <1>2 DEF Uurl!PrefixAt, PrefixAt
<1>4. ASSUME NEW k PROVE Uurl!http_header_lookup(stream, k) = http_header_lookup(stream, k)
  <2> DEFINE rows == {h \in KnownHeaders : PrefixAt(Table[h], stream, k)}
  <2>1. {h \in Uurl!KnownHeaders : Uurl!PrefixAt(Table[h], stream, k)} = rows
    BY <1>1, <1>3
  <2> HIDE DEF rows
  <2>2. Uurl!http_header_lookup(stream, k) = IF rows = {} THEN UNKNOWN ELSE Min(rows)
    BY <1>1, <2>1, SameOperators, Zenon DEF Uurl!http_header_lookup
  <2> QED
    BY <2>2 DEF rows, http_header_lookup
<1>5. \A S : Uurl!RowOf(S) = RowOf(S)
  BY <1>4 DEF Uurl!RowOf, RowOf
<1>6. \A row : Uurl!ListedOf(row) = Listed(row)
  BY <1>1 DEF Uurl!ListedOf, Listed
<1> QED
  BY <1>1, <1>4, <1>5, <1>6

\* The second reading finds the same end of the first line.
LEMMA FirstLineEndIs ==
  ASSUME BoundsInv, type \in Types, NEW e \in Nat, FirstLineEnds(e)
  PROVE  Uurl!FirstLineEnd = e /\ Uurl!HeadersStart = LinesStart(e)
<1>0. Reached \in Nat
  BY FieldTypes
<1>1. Uurl!FirstLineEnd = e
  <2>1. CASE type = kHttpRequest
    <3>1. PICK a, u, v \in 0..Reached :
            /\ LeadIs(a) /\ Ends(a, u, {SP}) /\ Ends(u + 1, v, BlankBytes)
            /\ IF At(v) = SP THEN Ends(v + 1, e, BlankBytes) ELSE e = v
      BY <2>1 DEF FirstLineEnds
    <3>2. /\ a \in Nat /\ u \in Nat /\ v \in Nat
          /\ u + 1 \in Nat /\ v + 1 \in Nat
      BY <1>0
    <3>3. Uurl!Lead = a
      BY <3>1, <3>2, LeadOf
    <3>4. Uurl!FirstOf(a, Uurl!IsSpace) = u
      BY <3>1, <3>2, FirstSpaceIs
    <3>5. Uurl!FirstOf(u + 1, Uurl!IsCrlfOrSpace) = v
      BY <3>1, <3>2, FirstBlankIs
    <3>6. ASSUME At(v) = SP PROVE Uurl!FirstOf(v + 1, Uurl!IsCrlfOrSpace) = e
      <4>1. Ends(v + 1, e, BlankBytes)
        BY <3>1, <3>6
      <4> QED
        BY <3>2, <4>1, FirstBlankIs
    <3>7. Uurl!FirstLineEnd =
            IF At(v) = SP THEN Uurl!FirstOf(v + 1, Uurl!IsCrlfOrSpace) ELSE v
      BY <2>1, <3>3, <3>4, <3>5
      DEF Uurl!FirstLineEnd, Uurl!REQUEST, kHttpRequest, Uurl!At, At, Uurl!SP, SP
    <3> QED
      BY <3>1, <3>6, <3>7
  <2>2. CASE type # kHttpRequest
    <3>1. PICK a \in 0..Reached : LeadIs(a) /\ Ends(a + 9, e, CrlfBytes)
      BY <2>2 DEF FirstLineEnds
    <3>2. a \in Nat /\ a + 9 \in Nat
      BY <1>0
    <3>3. Uurl!Lead = a
      BY <3>1, <3>2, LeadOf
    <3>4. Uurl!FirstOf(a + 9, Uurl!IsCrlf) = e
      BY <3>1, <3>2, FirstCrlfIs
    <3> QED
      BY <2>2, <3>3, <3>4 DEF Uurl!FirstLineEnd, Uurl!REQUEST, kHttpRequest
  <2> QED
    BY <2>1, <2>2
<1> QED
  BY <1>1 DEF Uurl!HeadersStart, LinesStart, Uurl!At, At, Uurl!CR, CR

\* A line has ended if a CR or LF is found before the index.
LEMMA LineHasEnded ==
  ASSUME BoundsInv, NEW k \in Nat, k <= Reached
  PROVE  Uurl!FirstOf(k, Uurl!IsCrlf) < Reached
           <=> \E e \in k..(Reached - 1) : IsCrlf(At(e))
<1> DEFINE T == {m \in k..Reached : m = Reached \/ At(m) \in CrlfBytes}
<1>1. Reached \in Nat /\ T \in SUBSET Nat /\ Reached \in T
  BY FieldTypes
<1>2. Uurl!FirstOf(k, Uurl!IsCrlf) = Min(T)
  BY FirstOfClasses
<1>3. Min(T) \in T /\ \A x \in T : Min(T) <= x
  <2> HIDE DEF T
  <2> QED
    BY <1>1, MinOfNats
<1>4. ASSUME Min(T) < Reached PROVE \E e \in k..(Reached - 1) : IsCrlf(At(e))
  <2>1. PICK m \in T : m = Min(T)
    BY <1>3
  <2>2. m \in k..(Reached - 1) /\ At(m) \in CrlfBytes
    <3>1. m < Reached
      BY <1>4, <2>1
    <3> QED
      BY <1>1, <3>1
  <2> QED
    BY <2>2 DEF IsCrlf, CrlfBytes
<1>5. ASSUME NEW e \in k..(Reached - 1), IsCrlf(At(e)) PROVE Min(T) < Reached
  <2>1. e \in T /\ e < Reached
    BY <1>1, <1>5 DEF IsCrlf, CrlfBytes
  <2>2. Min(T) <= e /\ Min(T) \in Nat
    BY <1>1, <1>3, <2>1
  <2> HIDE DEF T
  <2> QED
    BY <1>1, <2>1, <2>2
<1> QED
  BY <1>2, <1>4, <1>5

\* The lines are the same,
LEMMA LinesAre ==
  ASSUME BoundsInv, type \in Types, PastFirstLine, NEW e \in Nat, FirstLineEnds(e),
         NEW hs \in Nat, hs = LinesStart(e)
  PROVE  Uurl!HeaderLines = StartsFrom(hs)
<1>1. Uurl!HeadersStart = hs /\ Reached \in Nat
  BY FirstLineEndIs, FieldTypes
<1>2. ASSUME NEW k \in hs..(Reached - 1)
      PROVE  Uurl!FirstOf(k, Uurl!IsCrlf) < Reached
               <=> \E m \in k..(Reached - 1) : IsCrlf(At(m))
  <2>1. k \in Nat /\ k <= Reached
    BY <1>1
  <2> QED
    BY <2>1, LineHasEnded
<1>3. Uurl!HeaderStarts = {k \in hs..(Reached - 1) :
                             /\ k = hs \/ At(k - 1) = LF
                             /\ ~IsCrlf(At(k))
                             /\ Uurl!FirstOf(k, Uurl!IsCrlf) < Reached}
  BY <1>1
  DEF Uurl!HeaderStarts, Reached, Uurl!At, At, Uurl!LF, LF, Uurl!CR, CR, Uurl!IsCrlf, IsCrlf
<1>4. Uurl!HeaderStarts = StartsFrom(hs)
  BY <1>2, <1>3 DEF StartsFrom
<1> QED
  BY <1>4 DEF Uurl!HeaderLines, Uurl!PastFirstLine, PastFirstLine

\* and so are a line's name and value.
LEMMA NameAndValueAre ==
  ASSUME BoundsInv, NEW k \in Nat, NEW n, NEW v, LineIs(k, n, v)
  PROVE  n = Uurl!NameOf(k) /\ v = Uurl!ValueOf(k)
<1>1. PICK c, s, t, e \in 0..Reached :
        /\ n = [start |-> k, end |-> c] /\ Ends(k, c, {COLON})
        /\ v = [start |-> s, end |-> t] /\ Ends(k, e, CrlfBytes)
        /\ c < s /\ s <= t /\ t <= e
        /\ Blank(c + 1, s) /\ Blank(t, e)
        /\ s = e \/ (s < t /\ ~IsHtabOrSpace(At(s)) /\ ~IsHtabOrSpace(At(t - 1)))
  BY DEF LineIs
<1>2. Reached \in Nat /\ c \in Nat /\ s \in Nat /\ t \in Nat /\ e \in Nat
  BY <1>1, FieldTypes
<1>3. Uurl!ColonOf(k) = c
  <2>1. Uurl!ColonOf(k) = Min({m \in k..Reached : m = Reached \/ At(m) \in {COLON}})
    BY DEF Uurl!ColonOf, Uurl!FirstOf, Uurl!IsColon, Uurl!At, Uurl!COLON, Uurl!Min, Min,
       Reached, At, COLON
  <2>2. Min({m \in k..Reached : m = Reached \/ At(m) \in {COLON}}) = c
    BY <1>1, <1>2, FirstOfEnds
  <2> QED
    BY <2>1, <2>2
<1>4. Uurl!FirstOf(k, Uurl!IsCrlf) = e
  BY <1>1, <1>2, FirstCrlfIs
<1> DEFINE text == {b \in (c + 1)..(e - 1) : ~IsHtabOrSpace(At(b))}
<1>5. Uurl!ValueOf(k) = IF text = {} THEN [start |-> e, end |-> e]
                        ELSE [start |-> Min(text), end |-> Max(text) + 1]
  <2>1. {b \in (c + 1)..(e - 1) : ~Uurl!IsHtabOrSpace(Uurl!At(b))} = text
    BY DEF Uurl!IsHtabOrSpace, IsHtabOrSpace, Uurl!HTAB, HTAB, Uurl!SP, SP, Uurl!At, At
  <2> HIDE DEF text
  <2> QED
    BY <1>3, <1>4, <2>1 DEF Uurl!ValueOf, Uurl!Min, Min, Uurl!Max, Max
<1>6. /\ \A b \in (c + 1)..(s - 1) : IsHtabOrSpace(At(b))
      /\ \A b \in t..(e - 1) : IsHtabOrSpace(At(b))
  BY <1>1 DEF Blank
<1>7. v = Uurl!ValueOf(k)
  <2>1. CASE s = e
    <3>1. text = {} /\ t = e
      BY <1>1, <1>2, <1>6, <2>1
    <3> QED
      BY <1>1, <1>5, <2>1, <3>1
  <2>2. CASE s # e
    <3>1. s < t /\ ~IsHtabOrSpace(At(s)) /\ ~IsHtabOrSpace(At(t - 1))
      BY <1>1, <2>2
    <3>2. s \in text /\ t - 1 \in text /\ text \in SUBSET Nat
      BY <1>1, <1>2, <3>1
    <3>3. \A b \in text : s <= b /\ b <= t - 1
      BY <1>1, <1>2, <1>6
    <3> HIDE DEF text
    <3>4. Min(text) = s
      BY <3>2, <3>3, MinIs
    <3>5. Max(text) = t - 1
      BY <3>2, <3>3, MaxIs
    <3> QED
      BY <1>1, <1>2, <1>5, <3>2, <3>4, <3>5
  <2> QED
    BY <2>1, <2>2
<1> QED
  BY <1>1, <1>3, <1>7 DEF Uurl!NameOf

\* A store that holds some lines is as StoreHolds says.
LEMMA HeldIsAsSent ==
  ASSUME NEW S \in SUBSET Nat, NEW n \in Nat, \A k \in S : k <= n,
         NEW nm, NEW val, Holding(store, RowOf(S), nm, val),
         \A k \in S : nm[k] = Uurl!NameOf(k) /\ val[k] = Uurl!ValueOf(k)
  PROVE  Uurl!StoreHolds(S)
<1> DEFINE row == RowOf(S)
<1>1. DOMAIN row = S
  BY DEF RowOf
<1>2. Uurl!RowOf(S) = row /\ Uurl!ListedOf(row) = Listed(row)
  BY RowsAre
<1> HIDE DEF row
<1>3. \A h : LinesOf(row, h) = {k \in S : row[k] = h} /\ LinesOf(row, h) \in SUBSET S
  BY <1>1 DEF LinesOf
<1>4. Listed(row) \in SUBSET S
  BY <1>1 DEF Listed
<1>5. ASSUME NEW h \in KnownHeaders
      PROVE  store.std[h] =
               IF {k \in S : row[k] = h} = {} THEN NoSlice
               ELSE Uurl!ValueOf(IF h \in Repeatable THEN Min({k \in S : row[k] = h})
                                                     ELSE Max({k \in S : row[k] = h}))
  <2> DEFINE L == LinesOf(row, h)
  <2>1. L \in SUBSET S /\ L = {k \in S : row[k] = h}
    BY <1>3
  <2>2. store.std[h] = IF L = {} THEN NoSlice
                       ELSE val[IF h \in Repeatable THEN Min(L) ELSE Max(L)]
    BY DEF Holding, row
  <2> HIDE DEF L
  <2>3. L # {} => Min(L) \in S /\ Max(L) \in S
    <3>1. L \in SUBSET Nat /\ \A x \in L : x <= n
      BY <2>1
    <3> QED
      BY <2>1, <3>1, MinOfNats, MaxOfNats
  <2> QED
    BY <2>1, <2>2, <2>3
<1>6. Len(store.x) = Cardinality(Listed(row))
  BY DEF Holding, row
<1>7. ASSUME NEW k \in Listed(row)
      PROVE  store.x[Cardinality({j \in Listed(row) : j <= k})] =
               [name |-> Uurl!NameOf(k), value |-> Uurl!ValueOf(k)]
  <2>1. store.x[Cardinality({j \in Listed(row) : j <= k})] =
          [name |-> nm[k], value |-> val[k]]
    BY DEF Holding, row
  <2> QED
    BY <1>4, <2>1
<1>8. ASSUME NEW h \in KnownHeaders
      PROVE  store.std[h] =
               IF {k \in S : row[k] = h} = {} THEN Uurl!NoSlice
               ELSE Uurl!ValueOf(IF h \in Repeatable
                                   THEN Uurl!Min({k \in S : row[k] = h})
                                   ELSE Uurl!Max({k \in S : row[k] = h}))
  <2>1. PICK L : L = {k \in S : row[k] = h}
    OBVIOUS
  <2>2. Uurl!Min(L) = Min(L) /\ Uurl!Max(L) = Max(L) /\ Uurl!NoSlice = NoSlice
    BY SameOperators, RowsAre
  <2> QED
    BY <1>5, <2>1, <2>2
<1>9. Len(store.x) = Uurl!Cardinality(Listed(row))
  BY <1>6, SameOperators
<1>10. ASSUME NEW k \in Listed(row)
       PROVE  store.x[Uurl!Cardinality({j \in Listed(row) : j <= k})] =
                [name |-> Uurl!NameOf(k), value |-> Uurl!ValueOf(k)]
  <2>1. Uurl!Cardinality({j \in Listed(row) : j <= k})
          = Cardinality({j \in Listed(row) : j <= k})
    BY SameOperators
  <2> QED
    BY <1>7, <2>1
<1>11. Uurl!KnownHeaders = KnownHeaders
  BY RowsAre
<1> QED
  BY <1>2, <1>8, <1>9, <1>10, <1>11 DEF Uurl!StoreHolds

\* What the invariant says of the store is what ReferenceHeadersAreAsSent says.
LEMMA HeadersAre == BoundsInv /\ type \in Types /\ HeadersRead => ReferenceHeadersAreAsSent
<1> SUFFICES ASSUME BoundsInv, type \in Types, HeadersRead
             PROVE  ReferenceHeadersAreAsSent
  OBVIOUS
<1>0. \A S : Uurl!ListedOf(Uurl!RowOf(S)) = Listed(RowOf(S))
  BY RowsAre
<1>1. CASE ~PastFirstLine
  <2>1. /\ Uurl!HeaderLines = {}
        /\ \A h \in KnownHeaders : store.std[h] = NoSlice
        /\ store.x = <<>> /\ lost = 0
    BY <1>1 DEF Uurl!HeaderLines, Uurl!PastFirstLine, PastFirstLine, HeadersRead, NothingStored
  <2>2. DOMAIN RowOf({}) = {}
    BY DEF RowOf
  <2>3. Holding(store, RowOf({}), <<>>, <<>>)
    BY <2>1, <2>2, EmptyHolds
  <2>4. {} \in SUBSET Nat /\ 0 \in Nat
    OBVIOUS
  <2>5. Uurl!StoreHolds({})
    BY <2>3, <2>4, HeldIsAsSent
  <2>6. Cardinality({}) = lost /\ {} \ {} = {} /\ {} \in SUBSET Listed(RowOf({}))
    BY <2>1, FS_EmptySet
  <2> QED
    BY <1>0, <2>1, <2>5, <2>6 DEF ReferenceHeadersAreAsSent
<1>2. CASE PastFirstLine
  <2>1. PICK e, hs \in Nat :
          /\ FirstLineEnds(e) /\ hs = LinesStart(e)
          /\ AllButLost(StartsFrom(hs))
    BY <1>2 DEF HeadersRead, Held
  <2> DEFINE S == StartsFrom(hs)
  <2>2. S = Uurl!HeaderLines
    BY <1>2, <2>1, LinesAre
  <2>3. PICK D \in SUBSET Listed(RowOf(S)) : Cardinality(D) = lost /\ LinesHeld(S \ D)
    BY <2>1 DEF AllButLost
  <2>4. S \in SUBSET Nat /\ \A k \in S : k <= Reached
    BY FieldTypes DEF StartsFrom
  <2>5. Reached \in Nat
    BY FieldTypes
  <2> HIDE DEF S
  <2>6. PICK K : K = S \ D
    OBVIOUS
  <2>7. PICK nm, val :
          /\ \A k \in K : LineIs(k, nm[k], val[k])
          /\ Holding(store, RowOf(K), nm, val)
    BY <2>3, <2>6 DEF LinesHeld
  <2>8. K \in SUBSET Nat /\ \A k \in K : k <= Reached
    BY <2>4, <2>6
  <2>9. \A k \in K : nm[k] = Uurl!NameOf(k) /\ val[k] = Uurl!ValueOf(k)
    BY <2>7, <2>8, NameAndValueAre
  <2>10. Uurl!StoreHolds(K)
    BY <2>5, <2>7, <2>8, <2>9, HeldIsAsSent, SMTT(30)
  <2> QED
    BY <1>0, <2>2, <2>3, <2>6, <2>10 DEF ReferenceHeadersAreAsSent
<1> QED
  BY <1>1, <1>2

\* Whatever headers the peer sends, known or not, repeated or not, with or without
\* blanks around their values, and wherever the lines are cut into calls, the store
\* of the reference parser holds each of them with the name and the value its bytes
\* spell, in the order of arrival, and no header of the message before; for a caller
\* that the bytes reach line by line and that resets the message between two of them,
\* even one that calls again after an error.  Where allocations failed, as many lines
\* are missing, all of them ones for the list, and the store is as if they had not
\* been sent.
THEOREM ReferenceHeadersAreCorrect == LineSpec => []ReferenceHeadersAreAsSent
<1>1. Init => FirstLineInv /\ HeadersRead
  <2>1. ASSUME Init PROVE FirstLineInv
    <3>1. Reached = 0
      BY <2>1 DEF Init, Reached
    <3> QED
      BY <2>1, <3>1, NewMessage DEF Init
  <2> QED
    BY <2>1, NewHeaders DEF Init
<1>2. BoundsInv /\ Lined /\ FirstLineInv /\ HeadersRead /\ [LineNext]_vars
        => FirstLineInv' /\ HeadersRead'
  BY NextFirstLine, NextHeaders
<1>3. BoundsInv /\ FirstLineInv /\ HeadersRead => ReferenceHeadersAreAsSent
  BY HeadersAre DEF FirstLineInv
<1> QED
  BY <1>1, <1>2, <1>3, ReachableBounds, PTL DEF LineSpec

-----------------------------------------------------------------------------
(* The grammar: what is left of a head, by state *)

Shape == INSTANCE GrammarProofs WITH
  verdict   <- Verdict,
  MethodMax <- 8,
  Versions  <- Digits \X Digits

\* A head is the first n bytes.
HeadIs(n) == Grammar!IsHead(stream, type, n)

\* It is the head of the reading from left to right.
LEMMA HeadAgrees == \A n : HeadIs(n) <=> Shape!HeadIs(n)
  BY DEF HeadIs, Shape!HeadIs, Grammar!IsHead, Shape!IsHead, Grammar!Lead, Shape!Lead,
     Grammar!FirstLine, Shape!FirstLine, Grammar!RequestLine, Shape!RequestLine,
     Grammar!StatusLine, Shape!StatusLine, Grammar!HeaderLine, Shape!HeaderLine,
     Grammar!IsVersion, Shape!IsVersion, Grammar!Eol, Shape!Eol, Grammar!All, Shape!All,
     Grammar!B, Shape!B, Grammar!Max, Shape!Max, Grammar!Min, Shape!Min,
     Grammar!IsUriByte, Shape!IsUriByte, Grammar!IsFieldByte, Shape!IsFieldByte,
     Grammar!IsZero, Shape!IsZero, Grammar!IsToken, Shape!IsToken, Grammar!Tokens,
     Shape!Tokens, Grammar!IsDigit, Shape!IsDigit, Grammar!IsCrlf, Shape!IsCrlf,
     Grammar!IsCrlfOrSpace, Shape!IsCrlfOrSpace, Grammar!IsIso8859_1, Shape!IsIso8859_1,
     Grammar!HTAB, Shape!HTAB, Grammar!LF, Shape!LF, Grammar!CR, Shape!CR, Grammar!SP,
     Shape!SP, Grammar!COLON, Shape!COLON

\* The bytes and their classes are the parser's.
LEMMA BytesAgree ==
  /\ \A p : Shape!At(p) = At(p)
  /\ \A b : /\ IsCrlf(b) <=> b \in Shape!CrlfBytes
            /\ IsCrlfOrSpace(b) <=> b \in Shape!BlankBytes
            /\ IsCrlfOrSpace(b) <=> IsCrlf(b) \/ b = SP
            /\ kHttpToken(b) <=> b \in Shape!Tokens
            /\ IsDigit(b) <=> b \in Shape!Digits
            /\ IsIso8859_1(b) <=> b \in Shape!TextBytes
            /\ b = HTAB \/ IsIso8859_1(b) <=> b \in Shape!ValueBytes
            /\ ~IsCrlfOrSpace(b) => (IsIso8859_1(b) <=> b \in Shape!UriBytes)
  /\ Shape!CR = CR /\ Shape!LF = LF /\ Shape!SP = SP /\ Shape!COLON = COLON
  BY DEF Shape!At, At, Shape!B, IsCrlf, IsCrlfOrSpace, kHttpToken, IsToken, IsDigit,
     IsIso8859_1, Shape!CrlfBytes, Shape!BlankBytes, Shape!Tokens, Tokens, Shape!Digits,
     Shape!TextBytes, Shape!ValueBytes, Shape!UriBytes, Shape!CR, CR, Shape!LF, LF,
     Shape!SP, SP, Shape!COLON, COLON, Shape!HTAB, HTAB

\* What the reading needs is given.
LEMMA ShapeGiven == BoundsInv => Shape!Given
  BY FieldTypes DEF Shape!Given, Shape!Byte, Byte, Shape!Digits, Digits

\* What the reading calls a version is one for the parser.
LEMMA VersionsAgree ==
  ASSUME BoundsInv, NEW p \in Nat, p = i, p < Len(stream), NEW c \in Nat, c = cursor
  PROVE  IsVersion <=> p = c + 8 /\ Shape!VersionAt(c)
<1> DEFINE text == SubSeq(stream, c + 1, c + 8)
           five == SubSeq(stream, c + 1, c + 5)
<1>1. IsVersion <=> /\ p = c + 8
                    /\ five = <<72, 84, 84, 80, 47>> /\ At(c + 6) = 46
                    /\ IsDigit(At(c + 5)) /\ IsDigit(At(c + 7))
  BY DEF IsVersion
<1>2. Shape!VersionAt(c) <=>
        /\ c + 8 <= Len(stream)
        /\ \E v \in Digits \X Digits : text = <<72, 84, 84, 80, 47, v[1], 46, v[2]>>
  BY DEF Shape!VersionAt, Shape!IsVersion
<1>3. p = c + 8 => c + 8 <= Len(stream)
  BY FieldTypes
<1>4. stream \in Seq(Byte) /\ \A d \in Digits : d \in Nat
  BY FieldTypes DEF Digits
<1>5. ASSUME c + 8 <= Len(stream), NEW d \in Digits, NEW e \in Digits
      PROVE  text = <<72, 84, 84, 80, 47, d, 46, e>>
             <=> /\ five = <<72, 84, 84, 80, 47>>
                 /\ At(c + 5) = d /\ At(c + 6) = 46 /\ At(c + 7) = e
  BY <1>4, <1>5, VersionBytes, SMTT(30)
<1>6. \A b : IsDigit(b) <=> b \in Digits
  BY DEF IsDigit, Digits
<1>7. (\E v \in Digits \X Digits : text = <<72, 84, 84, 80, 47, v[1], 46, v[2]>>)
        <=> \E d, e \in Digits : text = <<72, 84, 84, 80, 47, d, 46, e>>
  <2> DEFINE IsText(d, e) == text = <<72, 84, 84, 80, 47, d, 46, e>>
  <2>1. ASSUME NEW v \in Digits \X Digits, IsText(v[1], v[2])
        PROVE  \E d, e \in Digits : IsText(d, e)
    BY <2>1
  <2>2. ASSUME NEW d \in Digits, NEW e \in Digits, IsText(d, e)
        PROVE  \E v \in Digits \X Digits : IsText(v[1], v[2])
    <3>1. <<d, e>> \in Digits \X Digits /\ <<d, e>>[1] = d /\ <<d, e>>[2] = e
      OBVIOUS
    <3> HIDE DEF IsText
    <3> QED
      BY <2>2, <3>1
  <2> QED
    BY <2>1, <2>2
<1> HIDE DEF text, five
<1> QED
  BY <1>1, <1>2, <1>3, <1>5, <1>6, <1>7

-----------------------------------------------------------------------------
(* The invariant *)

\* What is left to be read decides what the heads are, when the bytes before p
\* have been read and with the cursor at c.
GrammarAt(p, c) ==
  /\ state = "START"   => \A n \in Nat : HeadIs(n) <=> Shape!RestFromStart(p, n)
  /\ state = "METHOD"  => \E a \in Nat : /\ a < p /\ p = a + Len(method)
                                         /\ \A n \in Nat : HeadIs(n) <=> Shape!RestOfMethod(a, p, n)
  /\ state = "URI"     => \A n \in Nat : HeadIs(n) <=> Shape!RestOfUri(c, p, n)
  /\ state = "VERSION" => \A n \in Nat : HeadIs(n) <=> Shape!RestOfVersion(c, p, n)
  /\ state = "STATUS"  => \E a \in Nat : /\ LeadIs(a) /\ Shape!Over(a + 9, p - 3, {48})
                                         /\ \A n \in Nat : HeadIs(n) <=> Shape!RestOfStatus(a + 9, p, n)
  /\ state = "MESSAGE" => \A n \in Nat : HeadIs(n) <=> Shape!RestOfMessage(p, n)
  /\ state = "CR"      => \A n \in Nat : HeadIs(n) <=> Shape!RestFromCr(p, n)
  /\ state = "LF1"     => \A n \in Nat : HeadIs(n) <=> Shape!HeadersTo(p, n)
  /\ state = "NAME"    => \A n \in Nat : HeadIs(n) <=> Shape!RestOfName(p, n)
  /\ state \in {"COLON", "VALUE"} => \A n \in Nat : HeadIs(n) <=> Shape!RestOfValue(p, n)
  /\ state = "LF2"     => \A n \in Nat : HeadIs(n) <=> Shape!RestFromLastCr(p, n)

GrammarRead == \E p, c \in Nat : p = Reached /\ c = cursor /\ GrammarAt(p, c)

GrammarInv ==
  /\ pc = "loop" => ret = 0
  /\ ret = 0 => failure # "syntax"
  /\ ret > 0 => failure = "none"
  /\ ret \in Int
  /\ ret <= 0 /\ failure # "syntax" => GrammarRead

\* What an iteration owes to it
GrammarStep ==
  /\ failure' = "syntax" => \A n \in Nat : ~HeadIs(n)
  /\ ret' > 0 => ret' = i + 1 /\ HeadIs(i + 1) /\ failure' = "none"
  /\ ret' <= 0 /\ failure' # "syntax" => GrammarRead'

\* A state that is entered with what is left to be read in it
LEMMA Entered ==
  ASSUME UNCHANGED <<stream, type>>, NEW p \in Nat, Reached' = p, NEW c \in Nat, cursor' = c
  PROVE  /\ state' = "START" /\ (\A n \in Nat : HeadIs(n) <=> Shape!RestFromStart(p, n)) => GrammarRead'
         /\ \A a \in Nat :
              state' = "METHOD" /\ a < p /\ p = a + Len(method')
              /\ (\A n \in Nat : HeadIs(n) <=> Shape!RestOfMethod(a, p, n)) => GrammarRead'
         /\ state' = "URI" /\ (\A n \in Nat : HeadIs(n) <=> Shape!RestOfUri(c, p, n)) => GrammarRead'
         /\ state' = "VERSION" /\ (\A n \in Nat : HeadIs(n) <=> Shape!RestOfVersion(c, p, n)) => GrammarRead'
         /\ \A a \in Nat :
              state' = "STATUS" /\ LeadIs(a)' /\ Shape!Over(a + 9, p - 3, {48})
              /\ (\A n \in Nat : HeadIs(n) <=> Shape!RestOfStatus(a + 9, p, n)) => GrammarRead'
         /\ state' = "MESSAGE" /\ (\A n \in Nat : HeadIs(n) <=> Shape!RestOfMessage(p, n)) => GrammarRead'
         /\ state' = "CR" /\ (\A n \in Nat : HeadIs(n) <=> Shape!RestFromCr(p, n)) => GrammarRead'
         /\ state' = "LF1" /\ (\A n \in Nat : HeadIs(n) <=> Shape!HeadersTo(p, n)) => GrammarRead'
         /\ state' = "NAME" /\ (\A n \in Nat : HeadIs(n) <=> Shape!RestOfName(p, n)) => GrammarRead'
         /\ state' \in {"COLON", "VALUE"} /\ (\A n \in Nat : HeadIs(n) <=> Shape!RestOfValue(p, n)) => GrammarRead'
         /\ state' = "LF2" /\ (\A n \in Nat : HeadIs(n) <=> Shape!RestFromLastCr(p, n)) => GrammarRead'
<1>1. GrammarAt(p, c)' => GrammarRead'
  BY DEF GrammarRead
<1>2. \A n : HeadIs(n)' <=> HeadIs(n)
  BY DEF HeadIs
<1> QED
  BY <1>1, <1>2, Shape!RestsStay DEF GrammarAt

\* A line ends with the byte just read.
LEMMA LineEnded ==
  ASSUME UNCHANGED <<stream, type>>, NEW p \in Nat, p < Len(stream), Ch = Shape!At(p),
         Reached' = p + 1, NEW c \in Nat, cursor' = c,
         IsCrlf(Ch), state' = EndOfLine,
         \A n \in Nat : HeadIs(n) <=> Shape!RestFromEnd(p, n)
  PROVE  GrammarRead'
<1>1. p + 1 \in Nat
  OBVIOUS
<1>2. CASE Ch = CR
  <2>1. state' = "CR" /\ \A n \in Nat : HeadIs(n) <=> Shape!RestFromCr(p + 1, n)
    BY <1>1, <1>2, Shape!EndSteps, BytesAgree DEF EndOfLine
  <2> QED
    BY <1>1, <2>1, Entered
<1>3. CASE Ch = LF
  <2>1. state' = "LF1" /\ \A n \in Nat : HeadIs(n) <=> Shape!HeadersTo(p + 1, n)
    BY <1>1, <1>3, Shape!EndSteps, BytesAgree, Shape!ClassesApart DEF EndOfLine
  <2> QED
    BY <1>1, <2>1, Entered
<1> QED
  BY <1>2, <1>3 DEF IsCrlf

-----------------------------------------------------------------------------
(* The iterations of the first line *)

\* What an iteration has to go on
LEMMA AtByte ==
  ASSUME BoundsInv, GrammarRead, Iteration
  PROVE  \E p, c \in Nat : /\ p = i /\ p = Reached /\ c = cursor /\ p < Len(stream)
                           /\ state # "METHOD" => c <= p
                           /\ Ch = Shape!At(p) /\ GrammarAt(p, c)
<1>1. PICK p, c \in Nat : p = Reached /\ c = cursor /\ GrammarAt(p, c)
  BY DEF GrammarRead
<1>2. i = Reached /\ i < Len(stream) /\ Ch = At(Reached)
  BY IterationReads
<1>3. state # "METHOD" => cursor <= i
  BY DEF BoundsInv, Bounded
<1> QED
  BY <1>1, <1>2, <1>3, BytesAgree

\* What an iteration comes to that reads on, and one that refuses its byte
LEMMA Goes ==
  ASSUME BoundsInv, Iteration, ret = 0, NEW p \in Nat, p = Reached, NEW s,
         Continue(s) \/ NextOfRun(s)
  PROVE  /\ state' = s /\ Reached' = p + 1 /\ p + 1 \in Nat
         /\ ret' = 0 /\ failure' = "none"
<1>1. state' = s /\ ret' = 0 /\ failure' = "none"
  BY DEF Continue, NextOfRun
<1>2. failure' # "syntax"
  BY <1>1
<1>3. Reached' = p + 1
  BY <1>2, IterationReads
<1> QED
  BY <1>1, <1>3

LEMMA Refuses ==
  ASSUME NEW s, Bad(s), \A n \in Nat : ~HeadIs(n)
  PROVE  GrammarStep
  BY DEF Bad, GrammarStep

\* What is owed by one that reads on
LEMMA ReadsOn ==
  ASSUME ret' = 0, failure' = "none", GrammarRead'
  PROVE  GrammarStep
  BY DEF GrammarStep

\* STATE_START
LEMMA StartGrammar ==
  ASSUME BoundsInv, ret = 0, GrammarRead, FirstLineRead(TRUE), Start
  PROVE  GrammarStep
<1>1. state = "START" /\ Iteration /\ UNCHANGED <<stream, type>>
  BY DEF Start, Iteration, Reading, Outside, peer
<1>2. PICK p, c \in Nat : /\ p = i /\ p = Reached /\ c = cursor /\ p < Len(stream)
                          /\ state # "METHOD" => c <= p
                          /\ Ch = Shape!At(p) /\ GrammarAt(p, c)
  BY <1>1, AtByte
<1>3. \A n \in Nat : HeadIs(n) <=> Shape!RestFromStart(p, n)
  BY <1>1, <1>2 DEF GrammarAt
<1>4. /\ IsCrlf(Ch) <=> Shape!At(p) \in Shape!CrlfBytes
      /\ kHttpToken(Ch) <=> Shape!At(p) \in Shape!Tokens
      /\ ~(IsCrlf(Ch) /\ kHttpToken(Ch))
  <2>1. ~(IsCrlf(Ch) /\ kHttpToken(Ch))
    BY DEF IsCrlf, kHttpToken, IsToken, Tokens, CR, LF
  <2> QED
    BY <1>2, <2>1, BytesAgree
<1>5. CASE IsCrlf(Ch)
  <2>1. Continue("START") /\ cursor' = c
    BY <1>2, <1>4, <1>5 DEF Start
  <2>2. /\ state' = "START" /\ Reached' = p + 1 /\ p + 1 \in Nat
        /\ ret' = 0 /\ failure' = "none"
    BY <1>1, <1>2, <2>1, Goes
  <2>3. \A n \in Nat : HeadIs(n) <=> Shape!RestFromStart(p + 1, n)
    BY <1>2, <1>3, <1>4, <1>5, Shape!StartSteps
  <2>4. GrammarRead'
    BY <1>1, <2>1, <2>2, <2>3, Entered
  <2> QED
    BY <2>2, <2>4, ReadsOn
<1>6. CASE ~IsCrlf(Ch) /\ ~kHttpToken(Ch)
  <2>1. Bad("START")
    BY <1>6 DEF Start
  <2>2. ASSUME NEW n \in Nat, HeadIs(n) PROVE FALSE
    <3>1. Shape!RestOfFirst(p, n)
      BY <1>2, <1>3, <1>4, <1>6, <2>2, Shape!StartSteps
    <3>2. CASE type = "REQUEST"
      <4>1. Shape!RestOfMethod(p, p, n)
        BY <3>1, <3>2 DEF Shape!RestOfFirst
      <4> QED
        BY <1>2, <1>4, <1>6, <4>1, Shape!MethodSteps
    <3>3. CASE type # "REQUEST"
      <4>1. Shape!VersionAt(p)
        BY <3>1, <3>3 DEF Shape!RestOfFirst, Shape!RestOfVersion
      <4>2. p <= p /\ p < p + 8
        OBVIOUS
      <4> QED
        BY <1>4, <1>6, <4>1, <4>2, ShapeGiven, Shape!VersionBytes
    <3> QED
      BY <3>2, <3>3
  <2> QED
    BY <2>1, <2>2, Refuses
<1>7. CASE kHttpToken(Ch) /\ type = kHttpRequest
  <2>1. Continue("METHOD") /\ cursor' = 8 /\ method' = <<Upper(Ch)>>
    BY <1>4, <1>7 DEF Start
  <2>2. /\ state' = "METHOD" /\ Reached' = p + 1 /\ p + 1 \in Nat
        /\ ret' = 0 /\ failure' = "none"
    BY <1>1, <1>2, <2>1, Goes
  <2>3. Len(method') = 1 /\ p < p + 1 /\ p <= p
    BY <2>1
  <2>4. \A n \in Nat : HeadIs(n) <=> Shape!RestOfMethod(p, p, n)
    BY <1>2, <1>3, <1>4, <1>7, Shape!StartSteps DEF Shape!RestOfFirst, kHttpRequest
  <2>5. \A n \in Nat : HeadIs(n) <=> Shape!RestOfMethod(p, p + 1, n)
    BY <1>4, <1>7, <2>3, <2>4, Shape!MethodSteps
  <2>6. GrammarRead'
    BY <1>1, <2>1, <2>2, <2>3, <2>5, Entered
  <2> QED
    BY <2>2, <2>6, ReadsOn
<1>8. CASE kHttpToken(Ch) /\ type # kHttpRequest
  <2>1. Continue("VERSION") /\ cursor' = p
    BY <1>2, <1>4, <1>8 DEF Start
  <2>2. /\ state' = "VERSION" /\ Reached' = p + 1 /\ p + 1 \in Nat
        /\ ret' = 0 /\ failure' = "none"
    BY <1>1, <1>2, <2>1, Goes
  <2>3. \A n \in Nat : HeadIs(n) <=> Shape!RestOfVersion(p, p, n)
    BY <1>2, <1>3, <1>4, <1>8, Shape!StartSteps DEF Shape!RestOfFirst, kHttpRequest
  <2>4. \A n \in Nat : HeadIs(n) <=> Shape!RestOfVersion(p, p + 1, n)
    BY <1>2, <2>3, ShapeGiven, Shape!VersionSteps
  <2>5. GrammarRead'
    BY <1>1, <2>1, <2>2, <2>4, Entered
  <2> QED
    BY <2>2, <2>5, ReadsOn
<1> QED
  BY <1>5, <1>6, <1>7, <1>8

\* STATE_METHOD
LEMMA MethodGrammar ==
  ASSUME BoundsInv, ret = 0, GrammarRead, Method
  PROVE  GrammarStep
<1>1. state = "METHOD" /\ Iteration /\ UNCHANGED <<stream, type>>
  BY DEF Method, Iteration, Reading, Outside, peer
<1>2. PICK p, c \in Nat : /\ p = i /\ p = Reached /\ c = cursor /\ p < Len(stream)
                          /\ state # "METHOD" => c <= p
                          /\ Ch = Shape!At(p) /\ GrammarAt(p, c)
  BY <1>1, AtByte
<1>3. PICK a \in Nat : /\ a < p /\ p = a + Len(method)
                       /\ \A n \in Nat : HeadIs(n) <=> Shape!RestOfMethod(a, p, n)
  BY <1>1, <1>2 DEF GrammarAt
<1>4. /\ method \in Seq(Byte) /\ Len(method) \in Nat /\ a <= p
      /\ c = 8 * Len(method) /\ Len(method) <= 8
      /\ MethodIsFull <=> Len(method) = 8
  <2>1. method \in Seq(Byte) /\ cursor = 8 * Len(method) /\ cursor <= 64
    BY <1>1 DEF BoundsInv, Typed, Bounded
  <2>2. PICK l \in Nat : l = Len(method)
    BY <2>1
  <2>3. cursor = 8 * l /\ l <= 8 /\ (cursor = 64 <=> l = 8)
    <3>1. cursor = 8 * l /\ cursor <= 64
      BY <2>1, <2>2, ZenonT(30)
    <3> QED
      BY <3>1
  <2>4. a <= p
    BY <1>3
  <2>5. MethodIsFull <=> l = 8
    BY <2>3 DEF MethodIsFull
  <2>6. c = 8 * l
    BY <1>2, <2>3
  <2> QED
    BY <2>1, <2>2, <2>3, <2>4, <2>5, <2>6
<1>5. CASE Ch = SP
  <2>1. Continue("URI") /\ cursor' = p + 1
    <3>1. Continue("URI") /\ cursor' = NextOffset
      BY <1>5 DEF Method, kHttpToken, IsToken, Tokens, SP
    <3> QED
      BY <1>2, <3>1 DEF NextOffset
  <2>2. /\ state' = "URI" /\ Reached' = p + 1 /\ p + 1 \in Nat
        /\ ret' = 0 /\ failure' = "none"
    BY <1>1, <1>2, <2>1, Goes
  <2>3. p <= a + 8
    BY <1>3, <1>4
  <2>4. \A n \in Nat : HeadIs(n) <=> Shape!RestOfUri(p + 1, p + 1, n)
    BY <1>2, <1>3, <1>4, <1>5, <2>3, Shape!MethodSteps, BytesAgree
  <2>5. GrammarRead'
    BY <1>1, <2>1, <2>2, <2>4, Entered
  <2> QED
    BY <2>2, <2>5, ReadsOn
<1>6. CASE Ch # SP /\ ~MethodIsFull /\ kHttpToken(Ch)
  <2>1. NextOfRun("METHOD") /\ cursor' = c + 8 /\ method' = Append(method, Upper(Ch))
    BY <1>2, <1>6 DEF Method
  <2>2. /\ state' = "METHOD" /\ Reached' = p + 1 /\ p + 1 \in Nat
        /\ ret' = 0 /\ failure' = "none"
    BY <1>1, <1>2, <2>1, Goes
  <2>3. Len(method') = Len(method) + 1
    BY <1>4, <2>1
  <2>4. a < p + 1 /\ p + 1 = a + Len(method') /\ c + 8 \in Nat
    BY <1>3, <1>4, <2>3
  <2>5. \A n \in Nat : HeadIs(n) <=> Shape!RestOfMethod(a, p + 1, n)
    BY <1>2, <1>3, <1>4, <1>6, Shape!MethodSteps, BytesAgree
  <2>6. GrammarRead'
    BY <1>1, <2>1, <2>2, <2>4, <2>5, Entered
  <2> QED
    BY <2>2, <2>6, ReadsOn
<1>7. CASE Ch # SP /\ (MethodIsFull \/ ~kHttpToken(Ch))
  <2>1. Bad("METHOD")
    BY <1>7 DEF Method
  <2>2. MethodIsFull => p = a + 8
    BY <1>3, <1>4
  <2>3. \A n \in Nat : ~HeadIs(n)
    BY <1>2, <1>3, <1>4, <1>7, <2>2, Shape!MethodSteps, BytesAgree
  <2> QED
    BY <2>1, <2>3, Refuses
<1> QED
  BY <1>5, <1>6, <1>7

\* STATE_URI
LEMMA UriGrammar ==
  ASSUME BoundsInv, ret = 0, GrammarRead, Uri
  PROVE  GrammarStep
<1>1. state = "URI" /\ Iteration /\ UNCHANGED <<stream, type>>
  BY DEF Uri, Iteration, Reading, Outside, peer
<1>2. PICK p, c \in Nat : /\ p = i /\ p = Reached /\ c = cursor /\ p < Len(stream)
                          /\ state # "METHOD" => c <= p
                          /\ Ch = Shape!At(p) /\ GrammarAt(p, c)
  BY <1>1, AtByte
<1>3. c <= p /\ \A n \in Nat : HeadIs(n) <=> Shape!RestOfUri(c, p, n)
  BY <1>1, <1>2 DEF GrammarAt
<1>4. /\ IsCrlf(Ch) <=> Shape!At(p) \in Shape!CrlfBytes
      /\ IsCrlfOrSpace(Ch) <=> Shape!At(p) \in Shape!BlankBytes
      /\ IsCrlfOrSpace(Ch) <=> IsCrlf(Ch) \/ Ch = SP
      /\ ~IsCrlfOrSpace(Ch) => (IsIso8859_1(Ch) <=> Shape!At(p) \in Shape!UriBytes)
      /\ Ch = SP => ~IsCrlf(Ch)
  <2>1. Ch = SP => ~IsCrlf(Ch)
    BY DEF IsCrlf, SP, CR, LF
  <2> QED
    BY <1>2, <2>1, BytesAgree
<1>5. CASE IsCrlfOrSpace(Ch) /\ i = cursor
  <2>1. Bad("URI")
    BY <1>4, <1>5 DEF Uri
  <2>2. \A n \in Nat : ~HeadIs(n)
    BY <1>2, <1>3, <1>4, <1>5, Shape!UriSteps, BytesAgree
  <2> QED
    BY <2>1, <2>2, Refuses
<1>6. CASE Ch = SP /\ i # cursor
  <2>1. Continue("VERSION") /\ cursor' = p + 1
    BY <1>2, <1>4, <1>6 DEF Uri, NextOffset
  <2>2. /\ state' = "VERSION" /\ Reached' = p + 1 /\ p + 1 \in Nat
        /\ ret' = 0 /\ failure' = "none"
    BY <1>1, <1>2, <2>1, Goes
  <2>3. \A n \in Nat : HeadIs(n) <=> Shape!RestOfVersion(p + 1, p + 1, n)
    BY <1>2, <1>3, <1>6, Shape!UriSteps, BytesAgree
  <2>4. GrammarRead'
    BY <1>1, <2>1, <2>2, <2>3, Entered
  <2> QED
    BY <2>2, <2>4, ReadsOn
<1>7. CASE IsCrlf(Ch) /\ i # cursor
  <2>1. Continue(EndOfLine) /\ cursor' = c
    BY <1>2, <1>4, <1>7 DEF Uri
  <2>2. /\ state' = EndOfLine /\ Reached' = p + 1
        /\ ret' = 0 /\ failure' = "none"
    BY <1>1, <1>2, <2>1, Goes
  <2>3. \A n \in Nat : HeadIs(n) <=> Shape!RestFromEnd(p, n)
    BY <1>2, <1>3, <1>4, <1>7, Shape!UriSteps, BytesAgree
  <2>4. GrammarRead'
    BY <1>1, <1>2, <1>7, <2>1, <2>2, <2>3, LineEnded
  <2> QED
    BY <2>2, <2>4, ReadsOn
<1>8. CASE ~IsCrlfOrSpace(Ch) /\ IsIso8859_1(Ch)
  <2>1. NextOfRun("URI") /\ cursor' = c
    BY <1>2, <1>4, <1>8 DEF Uri
  <2>2. /\ state' = "URI" /\ Reached' = p + 1 /\ p + 1 \in Nat
        /\ ret' = 0 /\ failure' = "none"
    BY <1>1, <1>2, <2>1, Goes
  <2>3. \A n \in Nat : HeadIs(n) <=> Shape!RestOfUri(c, p + 1, n)
    BY <1>2, <1>3, <1>4, <1>8, Shape!UriSteps, BytesAgree
  <2>4. GrammarRead'
    BY <1>1, <2>1, <2>2, <2>3, Entered
  <2> QED
    BY <2>2, <2>4, ReadsOn
<1>9. CASE ~IsCrlfOrSpace(Ch) /\ ~IsIso8859_1(Ch)
  <2>1. Bad("URI")
    BY <1>4, <1>9 DEF Uri
  <2>2. \A n \in Nat : ~HeadIs(n)
    BY <1>2, <1>3, <1>4, <1>9, Shape!UriSteps, BytesAgree
  <2> QED
    BY <2>1, <2>2, Refuses
<1> QED
  BY <1>4, <1>5, <1>6, <1>7, <1>8, <1>9

\* STATE_VERSION, of either type
LEMMA VersionGrammar ==
  ASSUME BoundsInv, ret = 0, GrammarRead, FirstLineRead(TRUE), Version
  PROVE  GrammarStep
<1>1. state = "VERSION" /\ Iteration /\ UNCHANGED <<stream, type>>
  BY DEF Version, Iteration, Reading, Outside, peer
<1>2. PICK p, c \in Nat : /\ p = i /\ p = Reached /\ c = cursor /\ p < Len(stream)
                          /\ state # "METHOD" => c <= p
                          /\ Ch = Shape!At(p) /\ GrammarAt(p, c)
  BY <1>1, AtByte
<1>3. c <= p /\ \A n \in Nat : HeadIs(n) <=> Shape!RestOfVersion(c, p, n)
  BY <1>1, <1>2 DEF GrammarAt
<1>4. /\ IsCrlfOrSpace(Ch) <=> Shape!At(p) \in Shape!BlankBytes
      /\ IsCrlfOrSpace(Ch) <=> IsCrlf(Ch) \/ Ch = SP
      /\ IsVersion <=> p = c + 8 /\ Shape!VersionAt(c)
  BY <1>2, BytesAgree, VersionsAgree
<1>5. CASE ~IsCrlfOrSpace(Ch)
  <2>1. Continue("VERSION") /\ cursor' = c
    BY <1>2, <1>5 DEF Version
  <2>2. /\ state' = "VERSION" /\ Reached' = p + 1 /\ p + 1 \in Nat
        /\ ret' = 0 /\ failure' = "none"
    BY <1>1, <1>2, <2>1, Goes
  <2>3. \A n \in Nat : HeadIs(n) <=> Shape!RestOfVersion(c, p + 1, n)
    BY <1>2, <1>3, <1>4, <1>5, ShapeGiven, Shape!VersionSteps
  <2>4. GrammarRead'
    BY <1>1, <2>1, <2>2, <2>3, Entered
  <2> QED
    BY <2>2, <2>4, ReadsOn
<1>6. CASE IsCrlfOrSpace(Ch) /\ ~IsVersion
  <2>1. Bad("VERSION")
    BY <1>6 DEF Version
  <2>2. \A n \in Nat : ~HeadIs(n)
    BY <1>2, <1>3, <1>4, <1>6, ShapeGiven, Shape!VersionSteps
  <2> QED
    BY <2>1, <2>2, Refuses
<1>7. CASE IsCrlfOrSpace(Ch) /\ IsVersion
  <2>1. Continue(IF type = kHttpRequest THEN EndOfLine ELSE "STATUS") /\ cursor' = c
    BY <1>2, <1>7 DEF Version
  <2>2. /\ state' = IF type = kHttpRequest THEN EndOfLine ELSE "STATUS"
        /\ Reached' = p + 1 /\ p + 1 \in Nat
        /\ ret' = 0 /\ failure' = "none"
    BY <1>1, <1>2, <2>1, Goes
  <2>3. \A n \in Nat : HeadIs(n) <=>
                         IF type = kHttpRequest
                           THEN IF Shape!At(p) = SP THEN Shape!HeadersTo(p + 1, n) ELSE Shape!RestFromEnd(p, n)
                           ELSE Shape!RestOfStatus(p + 1, p + 1, n)
    BY <1>2, <1>3, <1>4, <1>7, ShapeGiven, Shape!VersionSteps, BytesAgree DEF kHttpRequest
  <2>4. CASE type = kHttpRequest /\ Ch = SP
    <3>1. state' = "LF1"
      BY <2>2, <2>4 DEF EndOfLine, SP, CR
    <3>2. \A n \in Nat : HeadIs(n) <=> Shape!HeadersTo(p + 1, n)
      BY <1>2, <2>3, <2>4
    <3>3. GrammarRead'
      BY <1>1, <2>1, <2>2, <3>1, <3>2, Entered
    <3> QED
      BY <2>2, <3>3, ReadsOn
  <2>5. CASE type = kHttpRequest /\ Ch # SP
    <3>1. state' = EndOfLine /\ IsCrlf(Ch)
      BY <1>4, <1>7, <2>2, <2>5
    <3>2. \A n \in Nat : HeadIs(n) <=> Shape!RestFromEnd(p, n)
      BY <1>2, <2>3, <2>5
    <3>3. GrammarRead'
      BY <1>1, <1>2, <2>1, <2>2, <3>1, <3>2, LineEnded
    <3> QED
      BY <2>2, <3>3, ReadsOn
  <2>6. CASE type # kHttpRequest
    <3>1. LeadIs(c)'
      <4>1. LeadIs(c)
        BY <1>1, <1>2, <2>6 DEF FirstLineRead, InStatusVersion
      <4> QED
        BY <1>1, <1>2, <2>2, <4>1, FoundStays
    <3>2. \A n \in Nat : HeadIs(n) <=> Shape!RestOfStatus(c + 9, p + 1, n)
      <4>1. p + 1 = c + 9
        BY <1>4, <1>7
      <4> QED
        BY <2>3, <2>6, <4>1
    <3>3. Shape!Over(c + 9, (p + 1) - 3, {48})
      BY <1>4, <1>7 DEF Shape!Over
    <3>4. state' = "STATUS"
      BY <2>2, <2>6
    <3>5. GrammarRead'
      BY <1>1, <2>1, <2>2, <3>1, <3>2, <3>3, <3>4, Entered
    <3> QED
      BY <2>2, <3>5, ReadsOn
  <2> QED
    BY <2>4, <2>5, <2>6
<1> QED
  BY <1>5, <1>6, <1>7

\* A status is not too small if it has three digits, the first of the last
\* three not being a zero.
LEMMA StatusShape ==
  ASSUME BoundsInv, NEW d \in Nat, d <= Reached,
         \A k \in d..(Reached - 1) : IsDigit(At(k)), StatusIs(d, Reached)
  PROVE  ~(line.status < 100) <=> d + 3 <= Reached /\ At(Reached - 3) # 48
<1>1. Reached \in Nat
  BY FieldTypes
<1>2. CASE Reached = d
  BY <1>1, <1>2 DEF StatusIs
<1>3. CASE Reached = d + 1
  BY <1>1, <1>3, DigitValues DEF StatusIs
<1>4. CASE Reached = d + 2
  BY <1>1, <1>4, DigitValues DEF StatusIs
<1>5. CASE Reached >= d + 3
  <2>1. Digit(Reached, 1) \in 0..9 /\ Digit(Reached, 2) \in 0..9 /\ Digit(Reached, 3) \in 0..9
    BY <1>1, <1>5, DigitValues
  <2>2. line.status = 100 * Digit(Reached, 3) + 10 * Digit(Reached, 2) + Digit(Reached, 1)
    BY <1>1, <1>5 DEF StatusIs
  <2>3. Digit(Reached, 3) # 0 <=> At(Reached - 3) # 48
    <3>1. IsDigit(At(Reached - 3))
      BY <1>1, <1>5
    <3> QED
      BY <3>1 DEF Digit, IsDigit
  <2> QED
    BY <1>1, <1>5, <2>1, <2>2, <2>3
<1> QED
  BY <1>1, <1>2, <1>3, <1>4, <1>5

\* STATE_STATUS
LEMMA StatusGrammar ==
  ASSUME BoundsInv, ret = 0, GrammarRead, FirstLineRead(TRUE), Status
  PROVE  GrammarStep
<1>1. state = "STATUS" /\ Iteration /\ UNCHANGED <<stream, type>>
  BY DEF Status, Iteration, Reading, Outside, peer
<1>2. PICK p, c \in Nat : /\ p = i /\ p = Reached /\ c = cursor /\ p < Len(stream)
                          /\ state # "METHOD" => c <= p
                          /\ Ch = Shape!At(p) /\ GrammarAt(p, c)
  BY <1>1, AtByte
<1>3. PICK a \in Nat : /\ LeadIs(a) /\ Shape!Over(a + 9, p - 3, {48})
                       /\ \A n \in Nat : HeadIs(n) <=> Shape!RestOfStatus(a + 9, p, n)
  BY <1>1, <1>2 DEF GrammarAt
<1>4. /\ a + 9 <= Reached /\ \A k \in (a + 9)..(Reached - 1) : IsDigit(At(k))
      /\ StatusIs(a + 9, Reached) /\ line.status \in 0..999
  <2>1. PICK b \in 0..Reached :
          /\ LeadIs(b)
          /\ Lacks(b + 9, BlankBytes)
          /\ \A k \in (b + 9)..(Reached - 1) : IsDigit(At(k))
          /\ StatusIs(b + 9, Reached) /\ line.status \in 0..999
    BY <1>1 DEF FirstLineRead, InStatus
  <2>2. b \in Nat
    BY FieldTypes
  <2>3. a = b
    BY <1>3, <2>1, <2>2, LeadOf
  <2> QED
    BY <2>1, <2>3 DEF Lacks
<1> DEFINE d == a + 9
<1>5. /\ d \in Nat /\ d <= p /\ line.status \in 0..999
      /\ IsCrlf(Ch) <=> Shape!At(p) \in Shape!CrlfBytes
      /\ IsCrlfOrSpace(Ch) <=> Shape!At(p) \in Shape!BlankBytes
      /\ IsCrlfOrSpace(Ch) <=> IsCrlf(Ch) \/ Ch = SP
      /\ IsDigit(Ch) <=> Shape!At(p) \in Shape!Digits
      /\ IsCrlfOrSpace(Ch) => ~IsDigit(Ch)
      /\ Ch = SP => ~IsCrlf(Ch)
  <2>1. d \in Nat /\ d <= p
    BY <1>2, <1>4
  <2>2. /\ IsCrlf(Ch) <=> Shape!At(p) \in Shape!CrlfBytes
        /\ IsCrlfOrSpace(Ch) <=> Shape!At(p) \in Shape!BlankBytes
        /\ IsCrlfOrSpace(Ch) <=> IsCrlf(Ch) \/ Ch = SP
        /\ IsDigit(Ch) <=> Shape!At(p) \in Shape!Digits
    BY <1>2, BytesAgree
  <2>3. /\ IsCrlfOrSpace(Ch) => ~IsDigit(Ch)
        /\ Ch = SP => ~IsCrlf(Ch)
    BY DEF IsCrlf, IsCrlfOrSpace, IsDigit, SP, CR, LF
  <2> HIDE DEF d
  <2> QED
    BY <1>4, <2>1, <2>2, <2>3
<1>6. ~(line.status < 100) <=> d + 3 <= p /\ At(p - 3) # 48
  BY <1>2, <1>4, <1>5, StatusShape
<1>7. Shape!Over(d, p - 3, {48}) /\ (d + 3 <= p => Shape!Over(p - 3, p, Shape!Digits))
  <2>1. ASSUME d + 3 <= p, NEW k \in (p - 3)..(p - 1) PROVE At(k) \in Shape!Digits
    <3>1. k \in d..(Reached - 1)
      BY <1>2, <2>1
    <3> QED
      BY <1>4, <3>1, BytesAgree
  <2> QED
    BY <1>3, <2>1, BytesAgree DEF Shape!Over
<1>8. \A n \in Nat : HeadIs(n) <=> Shape!RestOfStatus(d, p, n)
  BY <1>3
<1>9. Reached' = p + 1 => LeadIs(a)'
  BY <1>1, <1>2, <1>3, FoundStays
<1> HIDE DEF d
<1>10. line.status \in Nat /\ (line.status < 100 \/ line.status >= 100)
  BY <1>5, SMTT(30)
<1>11. ASSUME ~IsDigit(Ch), NEW n \in Nat
       PROVE  HeadIs(n) <=> /\ ~(line.status < 100)
                            /\ Shape!RestFromEnd(p, n) \/ (Ch = SP /\ Shape!RestOfMessage(p + 1, n))
  BY <1>2, <1>5, <1>6, <1>7, <1>8, <1>11, Shape!StatusSteps, BytesAgree
<1>12. CASE IsCrlfOrSpace(Ch) /\ line.status < 100
  <2>1. Bad("STATUS")
    BY <1>5, <1>10, <1>12 DEF Status
  <2>2. \A n \in Nat : ~HeadIs(n)
    BY <1>5, <1>11, <1>12
  <2> QED
    BY <2>1, <2>2, Refuses
<1>13. CASE Ch = SP /\ ~(line.status < 100)
  <2>1. Continue("MESSAGE") /\ cursor' = NextOffset
    BY <1>5, <1>10, <1>13 DEF Status
  <2>2. /\ state' = "MESSAGE" /\ Reached' = p + 1 /\ p + 1 \in Nat
        /\ ret' = 0 /\ failure' = "none" /\ cursor' = p + 1
    BY <1>1, <1>2, <2>1, Goes DEF NextOffset
  <2>3. \A n \in Nat : ~Shape!RestFromEnd(p, n)
    BY <1>2, <1>5, <1>13, Shape!EndSteps, BytesAgree
  <2>4. \A n \in Nat : HeadIs(n) <=> Shape!RestOfMessage(p + 1, n)
    BY <1>5, <1>11, <1>13, <2>3
  <2>5. GrammarRead'
    BY <1>1, <2>2, <2>4, Entered
  <2> QED
    BY <2>2, <2>5, ReadsOn
<1>14. CASE IsCrlf(Ch) /\ ~(line.status < 100)
  <2>1. Continue(EndOfLine) /\ cursor' = c
    BY <1>2, <1>5, <1>10, <1>14 DEF Status
  <2>2. /\ state' = EndOfLine /\ Reached' = p + 1
        /\ ret' = 0 /\ failure' = "none"
    BY <1>1, <1>2, <2>1, Goes
  <2>3. \A n \in Nat : HeadIs(n) <=> Shape!RestFromEnd(p, n)
    BY <1>5, <1>11, <1>14
  <2>4. GrammarRead'
    BY <1>1, <1>2, <1>14, <2>1, <2>2, <2>3, LineEnded
  <2> QED
    BY <2>2, <2>4, ReadsOn
<1>15. CASE ~IsCrlfOrSpace(Ch) /\ ~IsDigit(Ch)
  <2>1. Bad("STATUS")
    BY <1>5, <1>15 DEF Status
  <2>2. \A n \in Nat : ~Shape!RestFromEnd(p, n)
    BY <1>2, <1>5, <1>15, Shape!EndSteps, BytesAgree
  <2>3. \A n \in Nat : ~HeadIs(n)
    BY <1>5, <1>11, <1>15, <2>2
  <2> QED
    BY <2>1, <2>3, Refuses
<1>16. CASE IsDigit(Ch)
  <2>1. PICK sum : sum = 10 * line.status + (Ch - 48)
    OBVIOUS
  <2>2. StatusDigit(sum) /\ cursor' = c
    BY <1>2, <1>5, <1>16, <2>1 DEF Status
  <2>3. line.status \in Nat /\ line.status <= 999
    BY <1>5
  <2>4. sum \in Nat /\ sum <= 9999 /\ sum \in Int
    BY <1>16, <2>1, <2>3, FieldTypes, StatusSum
  <2>5. /\ line' = [line EXCEPT !.status = sum]
        /\ sum > 999 => Bad("STATUS")
        /\ sum <= 999 => NextOfRun("STATUS")
    BY <2>2, <2>4, DigitOfStatus
  <2>6. PICK v \in 0..9 : v = Ch - 48
    BY <1>16 DEF IsDigit
  <2>7. sum = 10 * line.status + v
    BY <2>1, <2>6
  <2>8. \A n \in Nat : HeadIs(n) <=> Shape!RestOfStatus(d, p + 1, n)
    BY <1>2, <1>5, <1>8, <1>16, Shape!StatusSteps
  <2>9. CASE sum > 999
    <3>1. Bad("STATUS")
      BY <2>9, <2>5
    <3>2. d + 3 <= p /\ At(p - 3) # 48
      <4>1. ~(line.status < 100)
        BY <1>10, <2>3, <2>6, <2>7, <2>9
      <4> QED
        BY <1>6, <4>1
    <3>3. ASSUME NEW w \in Nat, p + 1 <= w, Shape!Over(d, w - 3, {48}) PROVE FALSE
      <4>1. p - 3 \in d..((w - 3) - 1)
        BY <1>5, <3>2, <3>3
      <4> QED
        BY <3>2, <3>3, <4>1, BytesAgree DEF Shape!Over
    <3>4. \A n \in Nat : ~HeadIs(n)
      BY <2>8, <3>3 DEF Shape!RestOfStatus
    <3> QED
      BY <3>1, <3>4, Refuses
  <2>10. CASE ~(sum > 999)
    <3>1. NextOfRun("STATUS")
      BY <2>10, <2>4, <2>5
    <3>2. /\ state' = "STATUS" /\ Reached' = p + 1 /\ p + 1 \in Nat
          /\ ret' = 0 /\ failure' = "none"
      BY <1>1, <1>2, <3>1, Goes
    <3>3. d + 3 <= p => At(p - 3) = 48
      <4>1. line.status < 100
        BY <1>10, <2>3, <2>6, <2>7, <2>10
      <4> QED
        BY <1>6, <4>1
    <3>4. Shape!Over(d, (p + 1) - 3, {48})
      <4>1. \A k \in d..((p + 1) - 3 - 1) : k \in d..((p - 3) - 1) \/ (k = p - 3 /\ d + 3 <= p)
        BY <1>5
      <4> QED
        BY <1>7, <3>3, <4>1, BytesAgree DEF Shape!Over
    <3>5. GrammarRead'
      <4>1. Shape!Over(a + 9, (p + 1) - 3, {48}) /\ \A n \in Nat : HeadIs(n) <=> Shape!RestOfStatus(a + 9, p + 1, n)
        BY <2>8, <3>4 DEF d
      <4>2. LeadIs(a)'
        BY <1>9, <3>2
      <4> QED
        BY <1>1, <2>2, <3>2, <4>1, <4>2, Entered
    <3> QED
      BY <3>2, <3>5, ReadsOn
  <2> QED
    BY <2>9, <2>10
<1> QED
  BY <1>5, <1>12, <1>13, <1>14, <1>15, <1>16

\* STATE_MESSAGE
LEMMA MessageGrammar ==
  ASSUME BoundsInv, ret = 0, GrammarRead, Message
  PROVE  GrammarStep
<1>1. state = "MESSAGE" /\ Iteration /\ UNCHANGED <<stream, type, cursor>>
  BY DEF Message, Iteration, Reading, Outside, peer
<1>2. PICK p, c \in Nat : /\ p = i /\ p = Reached /\ c = cursor /\ p < Len(stream)
                          /\ state # "METHOD" => c <= p
                          /\ Ch = Shape!At(p) /\ GrammarAt(p, c)
  BY <1>1, AtByte
<1>3. cursor' = c /\ \A n \in Nat : HeadIs(n) <=> Shape!RestOfMessage(p, n)
  BY <1>1, <1>2 DEF GrammarAt
<1>4. /\ IsCrlf(Ch) <=> Shape!At(p) \in Shape!CrlfBytes
      /\ IsIso8859_1(Ch) <=> Shape!At(p) \in Shape!TextBytes
  BY <1>2, BytesAgree
<1>5. CASE IsCrlf(Ch)
  <2>1. Continue(EndOfLine)
    BY <1>5 DEF Message
  <2>2. /\ state' = EndOfLine /\ Reached' = p + 1
        /\ ret' = 0 /\ failure' = "none"
    BY <1>1, <1>2, <2>1, Goes
  <2>3. \A n \in Nat : HeadIs(n) <=> Shape!RestFromEnd(p, n)
    BY <1>2, <1>3, <1>4, <1>5, Shape!MessageSteps
  <2>4. GrammarRead'
    BY <1>1, <1>2, <1>3, <1>5, <2>2, <2>3, LineEnded
  <2> QED
    BY <2>2, <2>4, ReadsOn
<1>6. CASE ~IsCrlf(Ch) /\ IsIso8859_1(Ch)
  <2>1. NextOfRun("MESSAGE")
    BY <1>6 DEF Message
  <2>2. /\ state' = "MESSAGE" /\ Reached' = p + 1 /\ p + 1 \in Nat
        /\ ret' = 0 /\ failure' = "none"
    BY <1>1, <1>2, <2>1, Goes
  <2>3. \A n \in Nat : HeadIs(n) <=> Shape!RestOfMessage(p + 1, n)
    BY <1>2, <1>3, <1>4, <1>6, Shape!MessageSteps
  <2>4. GrammarRead'
    BY <1>1, <1>3, <2>2, <2>3, Entered
  <2> QED
    BY <2>2, <2>4, ReadsOn
<1>7. CASE ~IsCrlf(Ch) /\ ~IsIso8859_1(Ch)
  <2>1. Bad("MESSAGE")
    BY <1>7 DEF Message
  <2>2. \A n \in Nat : ~HeadIs(n)
    BY <1>2, <1>3, <1>4, <1>7, Shape!MessageSteps
  <2> QED
    BY <2>1, <2>2, Refuses
<1> QED
  BY <1>5, <1>6, <1>7

-----------------------------------------------------------------------------
(* The iterations of the header lines, and what they owe *)

\* STATE_CR
LEMMA CrGrammar ==
  ASSUME BoundsInv, ret = 0, GrammarRead, Cr
  PROVE  GrammarStep
<1>1. state = "CR" /\ Iteration /\ UNCHANGED <<stream, type, cursor>>
  BY DEF Cr, Iteration, Reading, Outside, peer
<1>2. PICK p, c \in Nat : /\ p = i /\ p = Reached /\ c = cursor /\ p < Len(stream)
                          /\ state # "METHOD" => c <= p
                          /\ Ch = Shape!At(p) /\ GrammarAt(p, c)
  BY <1>1, AtByte
<1>3. cursor' = c /\ \A n \in Nat : HeadIs(n) <=> Shape!RestFromCr(p, n)
  BY <1>1, <1>2 DEF GrammarAt
<1>4. CASE Ch = LF
  <2>1. Continue("LF1")
    BY <1>4 DEF Cr
  <2>2. /\ state' = "LF1" /\ Reached' = p + 1 /\ p + 1 \in Nat
        /\ ret' = 0 /\ failure' = "none"
    BY <1>1, <1>2, <2>1, Goes
  <2>3. \A n \in Nat : HeadIs(n) <=> Shape!HeadersTo(p + 1, n)
    BY <1>2, <1>3, <1>4, BytesAgree DEF Shape!RestFromCr
  <2>4. GrammarRead'
    BY <1>1, <1>3, <2>2, <2>3, Entered
  <2> QED
    BY <2>2, <2>4, ReadsOn
<1>5. CASE Ch # LF
  <2>1. Bad("CR")
    BY <1>5 DEF Cr
  <2>2. \A n \in Nat : ~HeadIs(n)
    BY <1>2, <1>3, <1>5, BytesAgree DEF Shape!RestFromCr
  <2> QED
    BY <2>1, <2>2, Refuses
<1> QED
  BY <1>4, <1>5

\* STATE_LF1
LEMMA Lf1Grammar ==
  ASSUME BoundsInv, ret = 0, GrammarRead, Lf1
  PROVE  GrammarStep
<1>1. state = "LF1" /\ Iteration /\ UNCHANGED <<stream, type, cursor>>
  BY DEF Lf1, Iteration, Reading, Outside, peer
<1>2. PICK p, c \in Nat : /\ p = i /\ p = Reached /\ c = cursor /\ p < Len(stream)
                          /\ state # "METHOD" => c <= p
                          /\ Ch = Shape!At(p) /\ GrammarAt(p, c)
  BY <1>1, AtByte
<1>3. cursor' = c /\ \A n \in Nat : HeadIs(n) <=> Shape!HeadersTo(p, n)
  BY <1>1, <1>2 DEF GrammarAt
<1>4. /\ IsCrlf(Ch) <=> Ch = CR \/ Ch = LF
      /\ IsCrlf(Ch) <=> Shape!At(p) \in Shape!CrlfBytes
      /\ kHttpToken(Ch) <=> Shape!At(p) \in Shape!Tokens
      /\ CR # LF /\ (kHttpToken(Ch) => ~IsCrlf(Ch))
  <2>1. /\ IsCrlf(Ch) <=> Ch = CR \/ Ch = LF
        /\ CR # LF /\ (kHttpToken(Ch) => ~IsCrlf(Ch))
    BY DEF IsCrlf, kHttpToken, IsToken, Tokens, CR, LF
  <2> QED
    BY <1>2, <2>1, BytesAgree
<1>5. CASE Ch = CR
  <2>1. Continue("LF2")
    BY <1>4, <1>5 DEF Lf1
  <2>2. /\ state' = "LF2" /\ Reached' = p + 1 /\ p + 1 \in Nat
        /\ ret' = 0 /\ failure' = "none"
    BY <1>1, <1>2, <2>1, Goes
  <2>3. \A n \in Nat : HeadIs(n) <=> Shape!RestFromLastCr(p + 1, n)
    BY <1>2, <1>3, <1>5, Shape!LineSteps, BytesAgree
  <2>4. GrammarRead'
    BY <1>1, <1>3, <2>2, <2>3, Entered
  <2> QED
    BY <2>2, <2>4, ReadsOn
<1>6. CASE Ch = LF
  <2>1. ret' = p + 1 /\ failure' = "none"
    <3>1. Succeed
      BY <1>4, <1>6 DEF Lf1
    <3> QED
      BY <1>2, <3>1 DEF Succeed
  <2>2. p + 1 \in Nat /\ HeadIs(p + 1)
    <3>1. p + 1 \in Nat /\ Shape!At(p) = Shape!LF
      BY <1>2, <1>6, BytesAgree
    <3>2. Shape!HeadersTo(p, p + 1)
      BY <1>2, <3>1, Shape!LineSteps
    <3> QED
      BY <1>3, <3>1, <3>2
  <2> QED
    BY <1>2, <2>1, <2>2 DEF GrammarStep
<1>7. CASE kHttpToken(Ch)
  <2>1. Continue("NAME")
    BY <1>4, <1>7 DEF Lf1
  <2>2. /\ state' = "NAME" /\ Reached' = p + 1 /\ p + 1 \in Nat
        /\ ret' = 0 /\ failure' = "none"
    BY <1>1, <1>2, <2>1, Goes
  <2>3. \A n \in Nat : HeadIs(n) <=> Shape!RestOfName(p + 1, n)
    BY <1>2, <1>3, <1>4, <1>7, Shape!LineSteps
  <2>4. GrammarRead'
    BY <1>1, <1>3, <2>2, <2>3, Entered
  <2> QED
    BY <2>2, <2>4, ReadsOn
<1>8. CASE ~IsCrlf(Ch) /\ ~kHttpToken(Ch)
  <2>1. Bad("LF1")
    BY <1>4, <1>8 DEF Lf1
  <2>2. \A n \in Nat : ~HeadIs(n)
    BY <1>2, <1>3, <1>4, <1>8, Shape!LineSteps, BytesAgree
  <2> QED
    BY <2>1, <2>2, Refuses
<1> QED
  BY <1>4, <1>5, <1>6, <1>7, <1>8

\* STATE_NAME
LEMMA NameGrammar ==
  ASSUME BoundsInv, ret = 0, GrammarRead, Name
  PROVE  GrammarStep
<1>1. state = "NAME" /\ Iteration /\ UNCHANGED <<stream, type, cursor>>
  BY DEF Name, Iteration, Reading, Outside, peer
<1>2. PICK p, c \in Nat : /\ p = i /\ p = Reached /\ c = cursor /\ p < Len(stream)
                          /\ state # "METHOD" => c <= p
                          /\ Ch = Shape!At(p) /\ GrammarAt(p, c)
  BY <1>1, AtByte
<1>3. cursor' = c /\ \A n \in Nat : HeadIs(n) <=> Shape!RestOfName(p, n)
  BY <1>1, <1>2 DEF GrammarAt
<1>4. kHttpToken(Ch) <=> Shape!At(p) \in Shape!Tokens
  BY <1>2, BytesAgree
<1>5. CASE Ch = COLON
  <2>1. Continue("COLON")
    BY <1>5 DEF Name
  <2>2. /\ state' = "COLON" /\ Reached' = p + 1 /\ p + 1 \in Nat
        /\ ret' = 0 /\ failure' = "none"
    BY <1>1, <1>2, <2>1, Goes
  <2>3. \A n \in Nat : HeadIs(n) <=> Shape!RestOfValue(p + 1, n)
    BY <1>2, <1>3, <1>5, Shape!NameSteps, BytesAgree
  <2>4. GrammarRead'
    BY <1>1, <1>3, <2>2, <2>3, Entered
  <2> QED
    BY <2>2, <2>4, ReadsOn
<1>6. CASE Ch # COLON /\ kHttpToken(Ch)
  <2>1. NextOfRun("NAME")
    BY <1>6 DEF Name
  <2>2. /\ state' = "NAME" /\ Reached' = p + 1 /\ p + 1 \in Nat
        /\ ret' = 0 /\ failure' = "none"
    BY <1>1, <1>2, <2>1, Goes
  <2>3. \A n \in Nat : HeadIs(n) <=> Shape!RestOfName(p + 1, n)
    BY <1>2, <1>3, <1>4, <1>6, Shape!NameSteps
  <2>4. GrammarRead'
    BY <1>1, <1>3, <2>2, <2>3, Entered
  <2> QED
    BY <2>2, <2>4, ReadsOn
<1>7. CASE Ch # COLON /\ ~kHttpToken(Ch)
  <2>1. Bad("NAME")
    BY <1>7 DEF Name
  <2>2. \A n \in Nat : ~HeadIs(n)
    BY <1>2, <1>3, <1>4, <1>7, Shape!NameSteps, BytesAgree
  <2> QED
    BY <2>1, <2>2, Refuses
<1> QED
  BY <1>5, <1>6, <1>7

\* STATE_VALUE, and the byte with which STATE_COLON falls through to it; a header
\* that is dropped for want of memory is one of the head nevertheless.
LEMMA ValueByteGrammar ==
  ASSUME BoundsInv, Iteration, ret = 0, UNCHANGED <<stream, type>>,
         NEW p \in Nat, p = Reached, p < Len(stream), Ch = Shape!At(p),
         NEW c \in Nat, cursor' = c, NEW from, ValueByte(from),
         \A n \in Nat : HeadIs(n) <=> Shape!RestOfValue(p, n)
  PROVE  GrammarStep
<1>1. /\ IsCrlf(Ch) <=> Shape!At(p) \in Shape!CrlfBytes
      /\ Ch = HTAB \/ IsIso8859_1(Ch) <=> Shape!At(p) \in Shape!ValueBytes
  BY BytesAgree
<1>2. CASE IsCrlf(Ch)
  <2>1. Continue(EndOfLine)
    BY <1>2 DEF ValueByte
  <2>2. /\ state' = EndOfLine /\ Reached' = p + 1
        /\ ret' = 0 /\ failure' = "none"
    BY <2>1, Goes
  <2>3. \A n \in Nat : HeadIs(n) <=> Shape!RestFromEnd(p, n)
    BY <1>1, <1>2, Shape!ValueSteps
  <2>4. GrammarRead'
    BY <1>2, <2>2, <2>3, LineEnded
  <2> QED
    BY <2>2, <2>4, ReadsOn
<1>3. CASE ~IsCrlf(Ch) /\ (Ch = HTAB \/ IsIso8859_1(Ch))
  <2>1. NextOfRun("VALUE")
    BY <1>3 DEF ValueByte
  <2>2. /\ state' = "VALUE" /\ Reached' = p + 1 /\ p + 1 \in Nat
        /\ ret' = 0 /\ failure' = "none"
    BY <2>1, Goes
  <2>3. \A n \in Nat : HeadIs(n) <=> Shape!RestOfValue(p + 1, n)
    BY <1>1, <1>3, Shape!ValueSteps
  <2>4. GrammarRead'
    BY <2>2, <2>3, Entered
  <2> QED
    BY <2>2, <2>4, ReadsOn
<1>4. CASE ~IsCrlf(Ch) /\ ~(Ch = HTAB \/ IsIso8859_1(Ch))
  <2>1. Bad("VALUE")
    BY <1>4 DEF ValueByte
  <2>2. \A n \in Nat : ~HeadIs(n)
    BY <1>1, <1>4, Shape!ValueSteps
  <2> QED
    BY <2>1, <2>2, Refuses
<1> QED
  BY <1>2, <1>3, <1>4

\* STATE_COLON
LEMMA ColonGrammar ==
  ASSUME BoundsInv, ret = 0, GrammarRead, Colon
  PROVE  GrammarStep
<1>1. state = "COLON" /\ Iteration /\ UNCHANGED <<stream, type>>
  BY DEF Colon, Iteration, Reading, Outside, peer
<1>2. PICK p, c \in Nat : /\ p = i /\ p = Reached /\ c = cursor /\ p < Len(stream)
                          /\ state # "METHOD" => c <= p
                          /\ Ch = Shape!At(p) /\ GrammarAt(p, c)
  BY <1>1, AtByte
<1>3. \A n \in Nat : HeadIs(n) <=> Shape!RestOfValue(p, n)
  BY <1>1, <1>2 DEF GrammarAt
<1>4. CASE IsHtabOrSpace(Ch)
  <2>1. Continue("COLON") /\ cursor' = c
    BY <1>2, <1>4 DEF Colon
  <2>2. /\ state' = "COLON" /\ Reached' = p + 1 /\ p + 1 \in Nat
        /\ ret' = 0 /\ failure' = "none"
    BY <1>1, <1>2, <2>1, Goes
  <2>3. Shape!At(p) \in Shape!ValueBytes
    BY <1>2, <1>4, BytesAgree DEF IsHtabOrSpace, IsIso8859_1, HTAB, SP
  <2>4. \A n \in Nat : HeadIs(n) <=> Shape!RestOfValue(p + 1, n)
    BY <1>2, <1>3, <2>3, Shape!ValueSteps
  <2>5. GrammarRead'
    BY <1>1, <2>1, <2>2, <2>4, Entered
  <2> QED
    BY <2>2, <2>5, ReadsOn
<1>5. CASE ~IsHtabOrSpace(Ch)
  <2>1. cursor' = p /\ ValueByte(i)
    BY <1>2, <1>5 DEF Colon
  <2> QED
    BY <1>1, <1>2, <1>3, <2>1, ValueByteGrammar
<1> QED
  BY <1>4, <1>5

\* STATE_VALUE
LEMMA ValueGrammar ==
  ASSUME BoundsInv, ret = 0, GrammarRead, Value
  PROVE  GrammarStep
<1>1. state = "VALUE" /\ Iteration /\ UNCHANGED <<stream, type, cursor>> /\ ValueByte(cursor)
  BY DEF Value, Iteration, Reading, Outside, peer
<1>2. PICK p, c \in Nat : /\ p = i /\ p = Reached /\ c = cursor /\ p < Len(stream)
                          /\ state # "METHOD" => c <= p
                          /\ Ch = Shape!At(p) /\ GrammarAt(p, c)
  BY <1>1, AtByte
<1>3. cursor' = c /\ \A n \in Nat : HeadIs(n) <=> Shape!RestOfValue(p, n)
  BY <1>1, <1>2 DEF GrammarAt
<1> QED
  BY <1>1, <1>2, <1>3, ValueByteGrammar

\* STATE_LF2
LEMMA Lf2Grammar ==
  ASSUME BoundsInv, ret = 0, GrammarRead, Lf2
  PROVE  GrammarStep
<1>1. state = "LF2" /\ Iteration
  BY DEF Lf2, Iteration, Reading
<1>2. PICK p, c \in Nat : /\ p = i /\ p = Reached /\ c = cursor /\ p < Len(stream)
                          /\ state # "METHOD" => c <= p
                          /\ Ch = Shape!At(p) /\ GrammarAt(p, c)
  BY <1>1, AtByte
<1>3. \A n \in Nat : HeadIs(n) <=> Shape!RestFromLastCr(p, n)
  BY <1>1, <1>2 DEF GrammarAt
<1>4. CASE Ch = LF
  <2>1. ret' = p + 1 /\ failure' = "none"
    BY <1>2, <1>4 DEF Lf2, Succeed
  <2>2. p + 1 \in Nat /\ HeadIs(p + 1)
    BY <1>2, <1>3, <1>4, BytesAgree DEF Shape!RestFromLastCr
  <2> QED
    BY <1>2, <2>1, <2>2 DEF GrammarStep
<1>5. CASE Ch # LF
  <2>1. Bad("LF2")
    BY <1>5 DEF Lf2
  <2>2. \A n \in Nat : ~HeadIs(n)
    BY <1>2, <1>3, <1>5, BytesAgree DEF Shape!RestFromLastCr
  <2> QED
    BY <2>1, <2>2, Refuses
<1> QED
  BY <1>4, <1>5

\* Every iteration does what it owes.
LEMMA ByteGrammar ==
  ASSUME BoundsInv, ret = 0, GrammarRead, FirstLineRead(TRUE), Iteration
  PROVE  GrammarStep
  BY StartGrammar, MethodGrammar, UriGrammar, VersionGrammar, StatusGrammar,
     MessageGrammar, CrGrammar, Lf1Grammar, NameGrammar, ColonGrammar, ValueGrammar,
     Lf2Grammar DEF Iteration

\* What each of them leaves in ret and failure
LEMMA ByteAnswers ==
  ASSUME BoundsInv, Iteration, ret = 0
  PROVE  /\ pc' = "loop" => ret' = 0
         /\ ret' \in {-1, 0} \/ (ret' = i + 1 /\ i' = i + 1)
         /\ failure' \in {"none", "syntax"}
         /\ failure' = "syntax" <=> ret' = -1
<1>1. \/ \E s \in States : Continue(s) \/ NextOfRun(s) \/ Bad(s)
      \/ Succeed
  <2> USE DEF States, EndOfLine
  <2>1. CASE Start \/ Uri \/ Version \/ Message
    BY <2>1 DEF Start, Uri, Version, Message
  <2>2. CASE Method \/ Name \/ Status
    BY <2>2 DEF Method, Name, Status, StatusDigit
  <2>3. CASE Cr \/ Lf1 \/ Lf2
    BY <2>3 DEF Cr, Lf1, Lf2
  <2>4. CASE Colon \/ Value
    BY <2>4 DEF Colon, Value, ValueByte
  <2> QED
    BY <2>1, <2>2, <2>3, <2>4 DEF Iteration
<1>2. pc = "loop" /\ i \in Nat
  BY IterationReads, FieldTypes
<1>3. i + 1 # -1
  BY <1>2
<1> QED
  BY <1>1, <1>2, <1>3 DEF Continue, NextOfRun, Bad, Succeed

-----------------------------------------------------------------------------
(* The invariant holds *)

\* A message that nothing has been read of
NothingReadYet == state = "START" /\ Reached = 0 /\ cursor = 0 => GrammarRead

LEMMA NewGrammar == BoundsInv => NothingReadYet
<1> SUFFICES ASSUME BoundsInv, state = "START", Reached = 0, cursor = 0 PROVE GrammarRead
  BY DEF NothingReadYet
<1>1. GrammarAt(0, 0)
  BY ShapeGiven, HeadAgrees, Shape!HeadIsRest DEF GrammarAt
<1> QED
  BY <1>1 DEF GrammarRead

\* A step that reads nothing leaves what there is to be read.
LEMMA NothingReadGrammar ==
  ASSUME GrammarRead, UNCHANGED <<stream, type, state, Reached, cursor, method>>
  PROVE  GrammarRead'
<1>1. PICK p, c \in Nat : p = Reached /\ c = cursor /\ GrammarAt(p, c)
  BY DEF GrammarRead
<1>2. /\ \A n : HeadIs(n)' <=> HeadIs(n)
      /\ \A a : LeadIs(a)' <=> LeadIs(a)
      /\ \A a, q, bytes : Shape!Over(a, q, bytes)' <=> Shape!Over(a, q, bytes)
  BY Shape!RestsStay DEF HeadIs, LeadIs, At
<1>3. GrammarAt(p, c)'
  <2>1. state' = state /\ method' = method
    OBVIOUS
  <2>2. ASSUME state = "METHOD"
        PROVE  \E a \in Nat : /\ a < p /\ p = a + Len(method')
                              /\ \A n \in Nat : HeadIs(n)' <=> Shape!RestOfMethod(a, p, n)'
    <3>1. PICK a \in Nat : /\ a < p /\ p = a + Len(method)
                           /\ \A n \in Nat : HeadIs(n) <=> Shape!RestOfMethod(a, p, n)
      BY <1>1, <2>2 DEF GrammarAt
    <3>2. \A n \in Nat : HeadIs(n)' <=> Shape!RestOfMethod(a, p, n)'
      BY <1>2, <3>1, Shape!RestsStay
    <3> QED
      BY <2>1, <3>1, <3>2
  <2>3. ASSUME state = "STATUS"
        PROVE  \E a \in Nat : /\ LeadIs(a)' /\ Shape!Over(a + 9, p - 3, {48})'
                              /\ \A n \in Nat : HeadIs(n)' <=> Shape!RestOfStatus(a + 9, p, n)'
    <3>1. PICK a \in Nat : /\ LeadIs(a) /\ Shape!Over(a + 9, p - 3, {48})
                           /\ \A n \in Nat : HeadIs(n) <=> Shape!RestOfStatus(a + 9, p, n)
      BY <1>1, <2>3 DEF GrammarAt
    <3>2. \A n \in Nat : HeadIs(n)' <=> Shape!RestOfStatus(a + 9, p, n)'
      BY <1>2, <3>1, Shape!RestsStay
    <3> QED
      BY <1>2, <3>1, <3>2
  <2>4. /\ state = "START"   => \A n \in Nat : HeadIs(n)' <=> Shape!RestFromStart(p, n)'
        /\ state = "URI"     => \A n \in Nat : HeadIs(n)' <=> Shape!RestOfUri(c, p, n)'
        /\ state = "VERSION" => \A n \in Nat : HeadIs(n)' <=> Shape!RestOfVersion(c, p, n)'
        /\ state = "MESSAGE" => \A n \in Nat : HeadIs(n)' <=> Shape!RestOfMessage(p, n)'
        /\ state = "CR"      => \A n \in Nat : HeadIs(n)' <=> Shape!RestFromCr(p, n)'
    BY <1>1, <1>2, Shape!RestsStay DEF GrammarAt
  <2>5. /\ state = "LF1"     => \A n \in Nat : HeadIs(n)' <=> Shape!HeadersTo(p, n)'
        /\ state = "NAME"    => \A n \in Nat : HeadIs(n)' <=> Shape!RestOfName(p, n)'
        /\ state \in {"COLON", "VALUE"} => \A n \in Nat : HeadIs(n)' <=> Shape!RestOfValue(p, n)'
        /\ state = "LF2"     => \A n \in Nat : HeadIs(n)' <=> Shape!RestFromLastCr(p, n)'
    BY <1>1, <1>2, Shape!RestsStay DEF GrammarAt
  <2> QED
    BY <2>1, <2>2, <2>3, <2>4, <2>5 DEF GrammarAt
<1> QED
  BY <1>1, <1>3 DEF GrammarRead

\* A caller that leaves a malformed message be has each iteration do what it owes.
LEMMA OwedByte ==
  ASSUME "syntax" \notin Retryable, BoundsInv, FirstLineInv, GrammarInv, Iteration
  PROVE  GrammarStep /\ UNCHANGED <<stream, type>> /\ ret = 0 /\ failure # "syntax"
<1>1. pc = "loop" /\ ret = 0 /\ failure # "syntax" /\ UNCHANGED <<stream, type>>
  BY IterationReads DEF GrammarInv
<1>2. GrammarRead
  BY <1>1 DEF GrammarInv
<1>3. FirstLineRead(TRUE)
  BY <1>1 DEF FirstLineInv, StatusIsKept
<1> QED
  BY <1>1, <1>2, <1>3, ByteGrammar

\* A caller that goes on has no verdict yet: a head is no failure.
LEMMA CallerGoesOn ==
  ASSUME "syntax" \notin Retryable, GrammarInv, NEW c \in Capacities, Call(c)
  PROVE  ret <= 0 /\ ~(ret > 0) /\ failure # "syntax"
<1>1. ret = 0 \/ failure \in Retryable
  BY DEF Call
<1>2. "none" \notin Retryable
  BY CosmoAssumption DEF Failures
<1> QED
  BY <1>1, <1>2 DEF GrammarInv

\* The beginning, and every step
LEMMA InitGrammar == Init => GrammarInv
<1> SUFFICES ASSUME Init PROVE GrammarInv
  OBVIOUS
<1>1. Reached = 0
  BY DEF Init, Reached
<1>2. GrammarRead
  BY <1>1, InitBounds, NewGrammar DEF Init, NothingReadYet
<1> QED
  BY <1>2 DEF Init, GrammarInv

LEMMA NextGrammar ==
  ASSUME "syntax" \notin Retryable
  PROVE  BoundsInv /\ Lined /\ FirstLineInv /\ GrammarInv /\ [LineNext]_vars /\ NothingReadYet'
           => GrammarInv'
<1> SUFFICES ASSUME BoundsInv, Lined, FirstLineInv, GrammarInv, [LineNext]_vars, NothingReadYet'
             PROVE  GrammarInv'
  OBVIOUS
<1>1. CASE Iteration
  <2>1. GrammarStep /\ ret = 0
    BY <1>1, OwedByte
  <2>2. /\ pc' = "loop" => ret' = 0
        /\ ret' \in Int
        /\ failure' = "syntax" => ret' = -1
    <3>1. i + 1 \in Int
      BY FieldTypes
    <3> QED
      BY <1>1, <2>1, <3>1, ByteAnswers
  <2> QED
    BY <2>1, <2>2 DEF GrammarStep, GrammarInv
<1>2. CASE Rests /\ Reached' = Reached /\ UNCHANGED <<failure, ret, pc>>
  <2>1. GrammarRead => GrammarRead'
    BY <1>2, NothingReadGrammar DEF Rests
  <2> QED
    BY <1>2, <2>1 DEF GrammarInv
<1>3. CASE ReturnUsedUp /\ Rests /\ Reached' = Reached
  <2>1. ret = 0 /\ failure # "syntax"
    BY <1>3 DEF ReturnUsedUp, GrammarInv
  <2>2. GrammarRead'
    <3>1. GrammarRead
      BY <2>1 DEF GrammarInv
    <3> QED
      BY <1>3, <3>1, NothingReadGrammar DEF Rests
  <2>3. ret' \in {-1, 0} /\ pc' = "idle" /\ failure' # "syntax"
    BY <1>3 DEF ReturnUsedUp
  <2> QED
    BY <2>2, <2>3 DEF GrammarInv
<1>4. ASSUME NEW c \in Capacities, Call(c), Rests, Reached' = Reached PROVE GrammarInv'
  <2>1. ret <= 0 /\ failure # "syntax"
    BY <1>4, CallerGoesOn
  <2>2. GrammarRead'
    BY <1>4, <2>1, NothingReadGrammar DEF GrammarInv, Rests
  <2>3. /\ ret' \in {-1, 0} /\ (pc' = "loop" => ret' = 0)
        /\ failure' \in {failure, "arguments"}
    BY <1>4 DEF Call
  <2> QED
    BY <2>1, <2>2, <2>3 DEF GrammarInv
<1>5. ASSUME NEW s \in Streams, NEW ty \in Types, Begin(s, ty, ResetStore), Reached' = 0
      PROVE  GrammarInv'
  BY <1>5 DEF Begin, NothingReadYet, GrammarInv
<1> QED
  BY <1>1, <1>2, <1>3, <1>4, <1>5, StepReads

\* Under every step the verdict does what the abstract specification allows.
LEMMA NextVerdict ==
  ASSUME "syntax" \notin Retryable,
         BoundsInv, Lined, FirstLineInv, GrammarInv, [LineNext]_vars
  PROVE  [Grammar!Next]_<<stream, type, Verdict>>
<1> USE DEF Grammar!OPEN, Grammar!BAD
<1>1. CASE Iteration
  <2>1. GrammarStep /\ UNCHANGED <<stream, type>> /\ ret = 0 /\ failure # "syntax"
    BY <1>1, OwedByte
  <2>2. Verdict = 0
    BY <2>1 DEF Verdict
  <2>3. /\ i + 1 \in 1..Len(stream) /\ i + 1 > 0
        /\ ret' \in {-1, 0} \/ ret' = i + 1
        /\ failure' = "syntax" <=> ret' = -1
    <3>1. i \in Nat /\ i < Len(stream) /\ Len(stream) \in Nat
      BY <1>1, IterationReads, FieldTypes
    <3> QED
      BY <1>1, <2>1, <3>1, ByteAnswers
  <2>4. CASE failure' = "syntax"
    <3>1. Verdict' = -1
      BY <2>3, <2>4 DEF Verdict
    <3>2. \A n \in 1..Len(stream) : ~Grammar!IsHead(stream, type, n)
      BY <2>1, <2>4 DEF GrammarStep, HeadIs
    <3>3. Grammar!Reject
      BY <2>1, <2>2, <3>1, <3>2 DEF Grammar!Reject
    <3> QED
      BY <3>3 DEF Grammar!Next
  <2>5. CASE ret' = i + 1
    <3>1. Verdict' = i + 1 /\ Grammar!IsHead(stream, type, i + 1)
      BY <2>1, <2>3, <2>5 DEF Verdict, GrammarStep, HeadIs
    <3>2. Grammar!Accept
      BY <2>1, <2>2, <2>3, <3>1 DEF Grammar!Accept
    <3> QED
      BY <3>2 DEF Grammar!Next
  <2>6. CASE ret' = 0
    <3>1. Verdict' = 0
      BY <2>3, <2>6 DEF Verdict
    <3> QED
      BY <2>1, <2>2, <3>1
  <2> QED
    BY <2>3, <2>4, <2>5, <2>6
<1>2. CASE Rests /\ UNCHANGED <<failure, ret, pc>>
  BY <1>2 DEF Rests, Verdict
<1>3. CASE Rests /\ (ReturnUsedUp \/ \E c \in Capacities : Call(c))
  <2>1. ~(ret > 0) /\ failure # "syntax"
    <3>1. CASE ReturnUsedUp
      BY <3>1 DEF ReturnUsedUp, GrammarInv
    <3>2. CASE \E c \in Capacities : Call(c)
      BY <3>2, CallerGoesOn
    <3> QED
      BY <1>3, <3>1, <3>2
  <2>2. ret' \in {-1, 0} /\ failure' \in {failure, "none", "full", "arguments"}
    BY <1>3 DEF ReturnUsedUp, Call
  <2>3. Verdict = 0 /\ Verdict' = 0
    BY <2>1, <2>2 DEF Verdict
  <2> QED
    BY <1>3, <2>3 DEF Rests
<1>4. ASSUME NEW s \in Streams, NEW ty \in Types, Begin(s, ty, ResetStore)
      PROVE  [Grammar!Next]_<<stream, type, Verdict>>
  <2>1. stream' \in Streams /\ type' \in Types /\ Verdict' = 0
    BY <1>4 DEF Begin, Verdict
  <2> QED
    BY <2>1 DEF Grammar!Next, Grammar!NextMessage
<1> QED
  BY <1>1, <1>2, <1>3, <1>4, StepReads

\* ParseHttpMessage accepts exactly the head of a message, and rejects a stream
\* only if no message begins it, in message after message and whichever calls
\* fail for lack of room and are made again: it implements HttpMessage with
\* methods of eight characters and versions of any two digits, for any streams
\* and capacities, if the bytes arrive line by line and the caller does not call
\* again after a malformed byte.  (Cut in other ways it does not: cosmo_fragments.)
THEOREM ReferenceImplements ==
  ASSUME "syntax" \notin Retryable
  PROVE  LineSpec => ReferenceImplementsMessage
<1>1. Init => Grammar!Init
  BY DEF Init, Grammar!Init, Verdict, Grammar!OPEN
<1>2. BoundsInv /\ Lined /\ FirstLineInv /\ GrammarInv /\ [LineNext]_vars
        => [Grammar!Next]_<<stream, type, Verdict>>
  BY NextVerdict
<1>3. Init => FirstLineInv
  <2>1. Init => Reached = 0
    BY DEF Init, Reached
  <2> QED
    BY <2>1, NewMessage DEF Init
<1>4. LineSpec => []FirstLineInv
  BY <1>3, NextFirstLine, ReachableBounds, PTL DEF LineSpec
<1>5. LineSpec => []NothingReadYet
  BY ReachableBounds, NewGrammar, PTL
<1>6. LineSpec => []GrammarInv
  BY <1>4, <1>5, InitGrammar, NextGrammar, ReachableBounds, PTL DEF LineSpec
<1> QED
  BY <1>1, <1>2, <1>4, <1>6, ReachableBounds, PTL
     DEF LineSpec, ReferenceImplementsMessage, Grammar!Spec

=============================================================================
