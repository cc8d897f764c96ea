----------------------------- MODULE CosmoProofs -----------------------------
(***************************************************************************)
(* Proofs about the bounds of the reference parser.  Its index may run one *)
(* past the bytes of the call, and while the method is read its cursor is  *)
(* no offset but a number of bits; what is sliced is nevertheless ordered  *)
(* and within the bytes received, because no part of a message is ended    *)
(* but by a byte.                                                          *)
(***************************************************************************)
EXTENDS CosmoChecks, HeaderStoreProofs

-----------------------------------------------------------------------------
(* The operators on slices and on the table *)

\* What the proofs use of the widths of the code's integers.
LEMMA Widths ==
  /\ SHRT_MAX \in Nat /\ UINT16 \in Nat /\ 0 < SHRT_MAX /\ SHRT_MAX < UINT16
  /\ UINT32 \in Nat /\ 19998 < UINT32
  BY CosmoAssumption, UINT16Assumption

\* An offset that the parser can reach loses nothing in a slice.
LEMMA OffsetsFit ==
  /\ \A n \in 0..SHRT_MAX : U16(n) = n /\ U16(n) \in 0..(UINT16 - 1)
  /\ \A from, to \in 0..SHRT_MAX : /\ Slice(from, to) \in Slices
                                   /\ Slice(from, to) = [start |-> from, end |-> to]
<1>1. \A n \in 0..SHRT_MAX : U16(n) = n /\ U16(n) \in 0..(UINT16 - 1)
  BY Widths DEF U16
<1> QED
  BY <1>1 DEF Slice, Slices

\* The trimmed end of a value lies between the value's start and its end, with
\* nothing but blanks behind it and none before it.
LEMMA Trimmed ==
  ASSUME NEW from \in Nat, NEW to \in Nat, from <= to
  PROVE  /\ RTrim(from, to) \in from..to
         /\ \A j \in RTrim(from, to)..(to - 1) : IsHtabOrSpace(At(j))
         /\ RTrim(from, to) = from \/ ~IsHtabOrSpace(At(RTrim(from, to) - 1))
<1> DEFINE ends == {e \in from..to : \A j \in e..(to - 1) : IsHtabOrSpace(At(j))}
<1>1. ends \in SUBSET Nat /\ ends # {}
  <2>1. to \in ends
    OBVIOUS
  <2>2. \A e \in from..to : e \in Nat
    OBVIOUS
  <2> QED
    BY <2>1, <2>2
<1>2. PICK m \in ends : \A x \in ends : m <= x
  <2> HIDE DEF ends
  <2> QED
    BY <1>1, MinOfNats
<1>3. m = from \/ ~IsHtabOrSpace(At(m - 1))
  <2> SUFFICES ASSUME m # from, IsHtabOrSpace(At(m - 1)) PROVE FALSE
    OBVIOUS
  <2>1. m - 1 \in from..to
    OBVIOUS
  <2>2. \A j \in (m - 1)..(to - 1) : j = m - 1 \/ j \in m..(to - 1)
    OBVIOUS
  <2>3. \A j \in (m - 1)..(to - 1) : IsHtabOrSpace(At(j))
    BY <2>2
  <2> QED
    BY <2>1, <2>3, <1>2
<1> DEFINE Fits(e) == /\ \A j \in e..(to - 1) : IsHtabOrSpace(At(j))
                      /\ e = from \/ ~IsHtabOrSpace(At(e - 1))
<1>4. \E e \in from..to : Fits(e)
  BY <1>2, <1>3
<1>5. RTrim(from, to) = CHOOSE e \in from..to : Fits(e)
  BY DEF RTrim
<1>6. RTrim(from, to) \in from..to /\ Fits(RTrim(from, to))
  <2> HIDE DEF Fits
  <2> QED
    BY <1>4, <1>5
<1> QED
  BY <1>6

-----------------------------------------------------------------------------
(* The inductive invariant: types, the index and the cursor, *)

LinesOfText == [uri : Slices, version : Int, status : Int, message : Slices]

Typed ==
  /\ stream \in Streams /\ received \in 0..Len(stream)
  /\ args \in [size : 0..SHRT_MAX, capacity : 0..SHRT_MAX] /\ args.size <= received
  /\ method \in Seq(Byte) /\ key \in Slices /\ line \in LinesOfText /\ store \in Stores

Bounded ==
  /\ i \in Nat /\ i <= args.size + 1
  /\ state = "METHOD" => cursor = 8 * Len(method) /\ cursor <= 64
  /\ state # "METHOD" => cursor \in Nat /\ cursor <= i

\* and what has been sliced.  The index without its overrun:
Reached == IF i > args.size THEN args.size ELSE i

\* the pending name lies before the index, its colon before the value;
KeyInOrder ==
  /\ state = "NAME"  => key.start < i
  /\ state = "COLON" => key.start < key.end /\ key.end < i
  /\ state = "VALUE" => key.start < key.end /\ key.end < cursor

\* the slices that a caller may read lie in order before it.
LineInOrder ==
  /\ line.uri.start <= line.uri.end /\ line.uri.end <= Reached
  /\ line.message.start <= line.message.end /\ line.message.end <= Reached
  /\ line.uri # NoSlice => line.uri.start < line.uri.end

StoreInOrder ==
  /\ \A h \in KnownHeaders : /\ store.std[h].start <= store.std[h].end
                             /\ store.std[h].end <= Reached
  /\ \A k \in 1..Len(store.x) :
       /\ store.x[k].name.start < store.x[k].name.end
       /\ store.x[k].name.end < store.x[k].value.start
       /\ store.x[k].value.start <= store.x[k].value.end
       /\ store.x[k].value.end <= Reached

BoundsInv == Typed /\ Bounded /\ KeyInOrder /\ LineInOrder /\ StoreInOrder

-----------------------------------------------------------------------------
(* How an iteration moves the index *)

\* What is needed of the types
LEMMA Offsets ==
  ASSUME Typed, Bounded
  PROVE  /\ args.size \in Nat /\ args.size <= SHRT_MAX /\ i \in Nat /\ Reached \in Nat
         /\ i < args.size => i \in 0..SHRT_MAX /\ Reached = i /\ Ch \in Byte
         /\ state # "METHOD" /\ i < args.size => cursor \in 0..SHRT_MAX /\ cursor <= i
<1>1. args.size \in 0..SHRT_MAX /\ i \in Nat
  BY DEF Typed, Bounded
<1>2. i < args.size => Ch \in Byte
  <2>1. stream \in Seq(Byte) /\ Len(stream) \in Nat /\ received \in Nat
        /\ received <= Len(stream) /\ args.size <= received
    BY CosmoAssumption DEF Typed
  <2>2. i < args.size => i + 1 \in 1..Len(stream)
    BY <1>1, <2>1, Widths
  <2> QED
    BY <2>1, <2>2 DEF Ch, At
<1> QED
  BY <1>1, <1>2, Widths DEF Bounded, Reached

\* The ways an iteration ends
EndsIteration(s) == Continue(s) \/ NextOfRun(s) \/ Bad(s) \/ (Succeed /\ s = state)

\* However an iteration ends, it moves the index on, at most one past the call's bytes.
LEMMA Moves ==
  ASSUME Typed, Bounded, i < args.size, UNCHANGED args, NEW s, EndsIteration(s)
  PROVE  /\ state' = s
         /\ i' \in Nat /\ i <= i' /\ i' <= args'.size + 1
         /\ Reached' \in Nat /\ Reached <= Reached'
         /\ Continue(s) => i' = i + 1 /\ Reached' = i + 1
         /\ NextOfRun(s) => i < i'
<1>1. state' = s /\ (i' = i \/ i' = i + 1 \/ (i' = i + 2 /\ i + 1 = args.size))
  BY DEF EndsIteration, Continue, NextOfRun, Bad, Succeed
<1>2. args.size \in Nat /\ i \in Nat /\ Reached = i
  BY Offsets
<1>3. i' \in Nat /\ i <= i' /\ i' <= args'.size + 1
  BY <1>1, <1>2
<1>4. Reached' = IF i' > args.size THEN args.size ELSE i'
  BY DEF Reached
<1>5. (Continue(s) => i' = i + 1) /\ (NextOfRun(s) => i < i')
  BY <1>2 DEF Continue, NextOfRun
<1> QED
  BY <1>1, <1>2, <1>3, <1>4, <1>5

\* Writing a field of the first line
LEMMA LineUpdates ==
  ASSUME NEW l \in LinesOfText, NEW m
  PROVE  /\ \A t \in Slices : m = [l EXCEPT !.uri = t] =>
              m \in LinesOfText /\ m.uri = t /\ m.message = l.message
         /\ \A t \in Slices : m = [l EXCEPT !.uri = t, !.version = 9] =>
              m \in LinesOfText /\ m.uri = t /\ m.message = l.message
         /\ \A t \in Slices : m = [l EXCEPT !.message = t] =>
              m \in LinesOfText /\ m.uri = l.uri /\ m.message = t
         /\ \A n \in Int : m = [l EXCEPT !.version = n] =>
              m \in LinesOfText /\ m.uri = l.uri /\ m.message = l.message
         /\ \A n \in Int : m = [l EXCEPT !.status = n] =>
              m \in LinesOfText /\ m.uri = l.uri /\ m.message = l.message
<1>1. ASSUME NEW t \in Slices, m = [l EXCEPT !.uri = t]
      PROVE  m \in LinesOfText /\ m.uri = t /\ m.message = l.message
  BY <1>1 DEF LinesOfText
<1>2. ASSUME NEW t \in Slices, m = [l EXCEPT !.uri = t, !.version = 9]
      PROVE  m \in LinesOfText /\ m.uri = t /\ m.message = l.message
  <2>1. m = [uri |-> t, version |-> 9, status |-> l.status, message |-> l.message]
    BY <1>2 DEF LinesOfText
  <2> QED
    BY <2>1 DEF LinesOfText
<1>3. ASSUME NEW t \in Slices, m = [l EXCEPT !.message = t]
      PROVE  m \in LinesOfText /\ m.uri = l.uri /\ m.message = t
  BY <1>3 DEF LinesOfText
<1>4. ASSUME NEW n \in Int, m = [l EXCEPT !.version = n]
      PROVE  m \in LinesOfText /\ m.uri = l.uri /\ m.message = l.message
  BY <1>4 DEF LinesOfText
<1>5. ASSUME NEW n \in Int, m = [l EXCEPT !.status = n]
      PROVE  m \in LinesOfText /\ m.uri = l.uri /\ m.message = l.message
  BY <1>5 DEF LinesOfText
<1> QED
  BY <1>1, <1>2, <1>3, <1>4, <1>5, Zenon

\* An iteration outside the method
LEMMA KeepsBounds ==
  ASSUME Typed, Bounded, state # "METHOD", i < args.size, UNCHANGED args,
         NEW s, s # "METHOD", EndsIteration(s),
         cursor' = cursor \/ cursor' = i \/ (cursor' = i + 1 /\ Continue(s))
  PROVE  Bounded'
<1>1. i' \in Nat /\ i <= i' /\ i' <= args'.size + 1 /\ state' = s /\ (Continue(s) => i' = i + 1)
  BY Moves
<1>2. i \in Nat /\ cursor \in Nat /\ cursor <= i
  BY Offsets DEF Bounded
<1>3. cursor' \in Nat /\ cursor' <= i'
  BY <1>1, <1>2
<1> QED
  BY <1>1, <1>3 DEF Bounded

\* An iteration that records nothing leaves what is recorded in order,
LEMMA KeepsOrder ==
  ASSUME Typed, Bounded, LineInOrder, StoreInOrder,
         Reached' \in Nat, Reached <= Reached'
  PROVE  /\ UNCHANGED line => LineInOrder'
         /\ line'.uri = line.uri /\ line'.message = line.message => LineInOrder'
         /\ UNCHANGED store => StoreInOrder'
<1>1. \A n \in Nat : n <= Reached => n <= Reached'
  BY Offsets
<1>2. \A t \in Slices : t.start \in Nat /\ t.end \in Nat
  BY Widths DEF Slices
<1>3. line.uri.end \in Nat /\ line.message.end \in Nat
  BY <1>2 DEF Typed, LinesOfText
<1>4. \A h \in KnownHeaders : store.std[h].end \in Nat
  BY <1>2 DEF Typed, Stores
<1>5. \A k \in 1..Len(store.x) : store.x[k].value.end \in Nat
  <2>1. store.x \in Seq(Entries)
    BY DEF Typed, Stores
  <2>2. \A k \in 1..Len(store.x) : store.x[k] \in Entries
    BY <2>1
  <2> QED
    BY <1>2, <2>2 DEF Entries
<1>6. UNCHANGED line \/ (line'.uri = line.uri /\ line'.message = line.message) => LineInOrder'
  BY <1>1, <1>3 DEF LineInOrder
<1>7. UNCHANGED store => StoreInOrder'
  BY <1>1, <1>4, <1>5 DEF StoreInOrder
<1> QED
  BY <1>6, <1>7

-----------------------------------------------------------------------------
(* The cases of the switch: the first line *)

\* The start of a message, and its method
LEMMA StartBounds ==
  ASSUME BoundsInv, Start
  PROVE  BoundsInv'
<1>1. /\ state = "START" /\ i < args.size
      /\ UNCHANGED <<stream, received, args, key, line, store>>
  BY DEF Start, Reading, Outside, peer
<1>2. PICK s \in {"START", "METHOD", "VERSION"} : EndsIteration(s)
  BY DEF Start, EndsIteration
<1>3. /\ state' = s /\ i' \in Nat /\ i <= i' /\ i' <= args'.size + 1
      /\ Reached' \in Nat /\ Reached <= Reached' /\ Ch \in Byte
  BY <1>1, <1>2, Moves, Offsets DEF BoundsInv
<1>4. LineInOrder' /\ StoreInOrder' /\ KeyInOrder'
  BY <1>1, <1>2, <1>3, KeepsOrder DEF BoundsInv, KeyInOrder
<1>5. method' \in Seq(Byte) /\ Bounded'
  <2>1. CASE type = kHttpRequest /\ kHttpToken(Ch)
    <3>1. method' = <<Upper(Ch)>> /\ cursor' = 8 /\ state' = "METHOD"
      BY <2>1 DEF Start, Continue, kHttpToken, IsToken, IsCrlf, Tokens, CR, LF
    <3>2. Upper(Ch) \in Byte
      BY <1>3 DEF Upper, Byte
    <3>3. method' \in Seq(Byte) /\ Len(method') = 1
      BY <3>1, <3>2
    <3> QED
      BY <1>3, <3>1, <3>3 DEF Bounded
  <2>2. CASE ~(type = kHttpRequest /\ kHttpToken(Ch))
    <3>1. UNCHANGED method /\ (cursor' = cursor \/ cursor' = i) /\ state' # "METHOD"
      BY <2>2 DEF Start, Continue, Bad
    <3>2. Bounded'
      BY <1>1, <1>2, <1>3, <3>1, KeepsBounds DEF BoundsInv
    <3> QED
      BY <3>1, <3>2 DEF BoundsInv, Typed
  <2> QED
    BY <2>1, <2>2
<1> QED
  BY <1>1, <1>4, <1>5 DEF BoundsInv, Typed

\* While the method is read, the cursor counts its bits, 64 at most.
LEMMA MethodBounds ==
  ASSUME BoundsInv, Method
  PROVE  BoundsInv'
<1>1. /\ state = "METHOD" /\ i < args.size
      /\ UNCHANGED <<stream, received, args, key, line, store>>
  BY DEF Method, Reading, Outside, peer
<1>2. PICK s \in {"METHOD", "URI"} : EndsIteration(s)
  BY DEF Method, EndsIteration
<1>3. /\ state' = s /\ i' \in Nat /\ i <= i' /\ i' <= args'.size + 1
      /\ Reached' \in Nat /\ Reached <= Reached' /\ Ch \in Byte /\ i \in Nat
  BY <1>1, <1>2, Moves, Offsets DEF BoundsInv
<1>4. LineInOrder' /\ StoreInOrder' /\ KeyInOrder'
  BY <1>1, <1>2, <1>3, KeepsOrder DEF BoundsInv, KeyInOrder
<1>5. /\ method \in Seq(Byte) /\ Len(method) \in Nat
      /\ cursor = 8 * Len(method) /\ cursor <= 64
  BY <1>1 DEF BoundsInv, Typed, Bounded
<1>6. method' \in Seq(Byte) /\ Bounded'
  <2>1. CASE Ch = SP
    <3>1. UNCHANGED method /\ cursor' = i + 1 /\ i' = i + 1 /\ state' = "URI"
      BY <2>1 DEF Method, NextOffset, Continue, kHttpToken, IsToken, Tokens, SP
    <3> QED
      BY <1>3, <1>5, <3>1 DEF Bounded
  <2>2. CASE Ch # SP /\ (MethodIsFull \/ ~kHttpToken(Ch))
    <3>1. UNCHANGED <<method, cursor>> /\ state' = "METHOD"
      BY <2>2 DEF Method, Bad
    <3> QED
      BY <1>3, <1>5, <3>1 DEF Bounded
  <2>3. CASE Ch # SP /\ ~MethodIsFull /\ kHttpToken(Ch)
    <3>1. method' = Append(method, Upper(Ch)) /\ cursor' = cursor + 8 /\ state' = "METHOD"
      BY <2>3 DEF Method, NextOfRun
    <3>2. Upper(Ch) \in Byte
      BY <1>3 DEF Upper, Byte
    <3>3. method' \in Seq(Byte) /\ Len(method') = Len(method) + 1
      BY <1>5, <3>1, <3>2
    <3>4. cursor' = 8 * Len(method') /\ cursor' <= 64
      BY <1>5, <2>3, <3>1, <3>3 DEF MethodIsFull
    <3> QED
      BY <1>3, <3>1, <3>3, <3>4 DEF Bounded
  <2> QED
    BY <2>1, <2>2, <2>3
<1> QED
  BY <1>1, <1>4, <1>6 DEF BoundsInv, Typed

\* The slices of the first line end where the index is.
LEMMA UriBounds ==
  ASSUME BoundsInv, Uri
  PROVE  BoundsInv'
<1>1. /\ state = "URI" /\ i < args.size
      /\ UNCHANGED <<stream, received, args, method, key, store>>
  BY DEF Uri, Reading, Outside, peer
<1>2. PICK s \in {"URI", "VERSION", "CR", "LF1"} :
        /\ EndsIteration(s)
        /\ cursor' = cursor \/ (cursor' = i + 1 /\ Continue(s))
  BY DEF Uri, EndsIteration, EndOfLine, NextOffset
<1>3. /\ state' = s /\ i' \in Nat /\ i <= i' /\ i' <= args'.size + 1
      /\ Reached' \in Nat /\ Reached <= Reached'
      /\ cursor \in 0..SHRT_MAX /\ i \in 0..SHRT_MAX /\ cursor <= i /\ Reached = i
  BY <1>1, <1>2, Moves, Offsets DEF BoundsInv
<1>4. Bounded'
  BY <1>1, <1>2, <1>3, KeepsBounds DEF BoundsInv
<1>5. StoreInOrder' /\ KeyInOrder'
  BY <1>1, <1>2, <1>3, KeepsOrder DEF BoundsInv, KeyInOrder
<1>6. line \in LinesOfText
  BY DEF BoundsInv, Typed
<1>7. line' \in LinesOfText /\ LineInOrder'
  <2>1. CASE UNCHANGED line
    BY <1>3, <1>6, <2>1, KeepsOrder DEF BoundsInv
  <2>2. CASE ~UNCHANGED line
    <3>1. /\ i # cursor
          /\ \/ line' = [line EXCEPT !.uri = Slice(cursor, i)]
             \/ line' = [line EXCEPT !.uri = Slice(cursor, i), !.version = 9]
      BY <2>2 DEF Uri
    <3>2. Slice(cursor, i) \in Slices /\ Slice(cursor, i) = [start |-> cursor, end |-> i]
      BY <1>3, OffsetsFit
    <3>3. line' \in LinesOfText /\ line'.uri = Slice(cursor, i) /\ line'.message = line.message
      BY <1>6, <3>1, <3>2, LineUpdates, Zenon
    <3>4. line'.uri.start = cursor /\ line'.uri.end = i
      BY <3>2, <3>3
    <3>5. line.message.start <= line.message.end /\ line.message.end <= Reached'
      <4>1. line.message.end \in Nat
        BY <1>6, Widths DEF LinesOfText, Slices
      <4> QED
        BY <1>3, <4>1 DEF BoundsInv, LineInOrder
    <3>6. cursor < i /\ i <= Reached'
      BY <1>3, <3>1
    <3> QED
      BY <1>3, <3>3, <3>4, <3>5, <3>6 DEF LineInOrder
  <2> QED
    BY <2>1, <2>2
<1> QED
  BY <1>1, <1>4, <1>5, <1>7 DEF BoundsInv, Typed

\* The reason ends where the index is, too.
LEMMA MessageBounds ==
  ASSUME BoundsInv, Message
  PROVE  BoundsInv'
<1>1. /\ state = "MESSAGE" /\ i < args.size
      /\ UNCHANGED <<stream, received, args, cursor, method, key, store>>
  BY DEF Message, Reading, Outside, peer
<1>2. PICK s \in {"MESSAGE", "CR", "LF1"} : EndsIteration(s)
  BY DEF Message, EndsIteration, EndOfLine
<1>3. /\ state' = s /\ i' \in Nat /\ i <= i' /\ i' <= args'.size + 1
      /\ Reached' \in Nat /\ Reached <= Reached'
      /\ cursor \in 0..SHRT_MAX /\ i \in 0..SHRT_MAX /\ cursor <= i /\ Reached = i
  BY <1>1, <1>2, Moves, Offsets DEF BoundsInv
<1>4. Bounded'
  BY <1>1, <1>2, <1>3, KeepsBounds DEF BoundsInv
<1>5. StoreInOrder' /\ KeyInOrder'
  BY <1>1, <1>2, <1>3, KeepsOrder DEF BoundsInv, KeyInOrder
<1>6. line \in LinesOfText
  BY DEF BoundsInv, Typed
<1>7. line' \in LinesOfText /\ LineInOrder'
  <2>1. CASE UNCHANGED line
    BY <1>3, <1>6, <2>1, KeepsOrder DEF BoundsInv
  <2>2. CASE ~UNCHANGED line
    <3>1. line' = [line EXCEPT !.message = Slice(cursor, i)]
      BY <2>2 DEF Message
    <3>2. Slice(cursor, i) \in Slices /\ Slice(cursor, i) = [start |-> cursor, end |-> i]
      BY <1>3, OffsetsFit
    <3>3. line' \in LinesOfText /\ line'.message = Slice(cursor, i) /\ line'.uri = line.uri
      BY <1>6, <3>1, <3>2 DEF LinesOfText
    <3>4. line'.message.start = cursor /\ line'.message.end = i
      BY <3>2, <3>3
    <3>5. /\ line.uri.start <= line.uri.end /\ line.uri.end <= Reached'
          /\ line.uri # NoSlice => line.uri.start < line.uri.end
      <4>1. line.uri.end \in Nat
        BY <1>6, Widths DEF LinesOfText, Slices
      <4> QED
        BY <1>3, <4>1 DEF BoundsInv, LineInOrder
    <3>6. i <= Reached'
      BY <1>3
    <3> QED
      BY <1>3, <3>3, <3>4, <3>5, <3>6 DEF LineInOrder
  <2> QED
    BY <2>1, <2>2
<1> QED
  BY <1>1, <1>4, <1>5, <1>7 DEF BoundsInv, Typed

\* An integer that wraps is one all the same, and one that is small does not.
LEMMA WrappedIntegers ==
  /\ \A n \in Int : Int32(n) \in Int
  /\ \A n \in Nat : n <= 9999 => Int32(n) = n
<1> DEFINE low(n) == n % UINT32
<1>1. \A n \in Int : low(n) \in Int
  BY Widths
<1>2. \A n \in Nat : n <= 9999 => low(n) = n /\ 2 * n < UINT32
  BY Widths
<1>3. \A n \in Int : Int32(n) = IF 2 * low(n) < UINT32 THEN low(n) ELSE low(n) - UINT32
  BY Zenon DEF Int32
<1> HIDE DEF low
<1>4. \A n \in Int : Int32(n) \in Int
  BY <1>1, <1>3, Widths
<1>5. \A n \in Nat : n <= 9999 => Int32(n) = n
  BY <1>2, <1>3
<1> QED
  BY <1>4, <1>5

\* The sum that one more digit makes
LEMMA StatusSum ==
  ASSUME line \in LinesOfText, IsDigit(Ch), NEW sum, sum = 10 * line.status + (Ch - 48)
  PROVE  /\ sum \in Int
         /\ line.status \in Nat /\ line.status <= 999 => sum \in Nat /\ sum <= 9999
<1>1. PICK m \in Int : m = line.status
  BY DEF LinesOfText
<1>2. PICK c \in Int : c = Ch /\ 48 <= c /\ c <= 57
  BY DEF IsDigit
<1>3. /\ 10 * m + (c - 48) \in Int
      /\ m \in Nat /\ m <= 999 =>
           10 * m + (c - 48) \in Nat /\ 10 * m + (c - 48) <= 9999
  BY <1>2
<1>4. sum = 10 * m + (c - 48)
  BY <1>1, <1>2
<1> QED
  BY <1>1, <1>3, <1>4

\* One more digit makes another status, and a small sum makes what it should, with
\* the check that follows of just that.
LEMMA DigitOfStatus ==
  ASSUME NEW sum \in Int, StatusDigit(sum)
  PROVE  /\ \E n \in Int : line' = [line EXCEPT !.status = n]
         /\ Bad("STATUS") \/ NextOfRun("STATUS")
         /\ sum \in Nat /\ sum <= 9999 =>
              /\ line' = [line EXCEPT !.status = sum]
              /\ sum > 999 => Bad("STATUS")
              /\ sum <= 999 => NextOfRun("STATUS")
<1>1. PICK n \in Int : n = Int32(sum) /\ (sum \in Nat /\ sum <= 9999 => n = sum)
  BY WrappedIntegers
<1>2. /\ line' = [line EXCEPT !.status = n]
      /\ \/ (sum > 999 \/ n > 999) /\ Bad("STATUS")
         \/ (sum <= 999 \/ n <= 999) /\ NextOfRun("STATUS")
  BY <1>1 DEF StatusDigit
<1>3. ASSUME sum \in Nat /\ sum <= 9999
      PROVE  /\ line' = [line EXCEPT !.status = sum]
             /\ sum > 999 => Bad("STATUS")
             /\ sum <= 999 => NextOfRun("STATUS")
  <2>1. n = sum
    BY <1>1, <1>3
  <2>2. line' = [line EXCEPT !.status = sum]
    BY <1>2, <2>1
  <2>3. /\ sum > 999 => Bad("STATUS")
        /\ sum <= 999 => NextOfRun("STATUS")
    BY <1>2, <2>1
  <2> QED
    BY <2>2, <2>3
<1>4. \E m \in Int : line' = [line EXCEPT !.status = m]
  BY <1>2
<1>5. Bad("STATUS") \/ NextOfRun("STATUS")
  BY <1>2
<1> QED
  BY <1>3, <1>4, <1>5

\* The version and the status are numbers.
LEMMA NumberBounds ==
  ASSUME BoundsInv, Version \/ Status
  PROVE  BoundsInv'
<1>1. /\ state # "METHOD" /\ i < args.size
      /\ UNCHANGED <<stream, received, args, method, key, store>>
  BY DEF Version, Status, Reading, Outside, peer
<1>2. PICK s \in {"VERSION", "STATUS", "MESSAGE", "CR", "LF1"} :
        /\ EndsIteration(s)
        /\ cursor' = cursor \/ (cursor' = i + 1 /\ Continue(s))
  BY DEF Version, Status, StatusDigit, EndsIteration, EndOfLine, NextOffset
<1>3. /\ state' = s /\ Reached' \in Nat /\ Reached <= Reached'
  BY <1>1, <1>2, Moves DEF BoundsInv
<1>4. Bounded'
  BY <1>1, <1>2, KeepsBounds DEF BoundsInv
<1>5. StoreInOrder' /\ KeyInOrder'
  BY <1>1, <1>2, <1>3, KeepsOrder DEF BoundsInv, KeyInOrder
<1>6. line \in LinesOfText
  BY DEF BoundsInv, Typed
<1>7. line' \in LinesOfText /\ line'.uri = line.uri /\ line'.message = line.message
  <2>1. CASE UNCHANGED line
    BY <1>6, <2>1
  <2>2. CASE ~UNCHANGED line
    <3>1. \/ \E n \in Int : line' = [line EXCEPT !.version = n]
          \/ \E n \in Int : line' = [line EXCEPT !.status = n]
      <4>1. CASE Version
        <5>1. line' = [line EXCEPT !.version = (At(cursor + 5) - 48) * 10 + (At(cursor + 7) - 48)]
              /\ IsVersion
          BY <2>2, <4>1 DEF Version
        <5>2. At(cursor + 5) \in 48..57 /\ At(cursor + 7) \in 48..57
          BY <5>1 DEF IsVersion, IsDigit
        <5>3. PICK major \in Int, minor \in Int : major = At(cursor + 5) /\ minor = At(cursor + 7)
          BY <5>2
        <5>4. (major - 48) * 10 + (minor - 48) \in Int
          OBVIOUS
        <5> QED
          BY <5>1, <5>3, <5>4
      <4>2. CASE Status
        <5>1. IsDigit(Ch) /\ StatusDigit(10 * line.status + (Ch - 48))
          BY <2>2, <4>2 DEF Status
        <5>2. PICK sum : sum = 10 * line.status + (Ch - 48)
          OBVIOUS
        <5>3. sum \in Int /\ StatusDigit(sum)
          BY <1>6, <5>1, <5>2, StatusSum
        <5> QED
          BY <5>3, DigitOfStatus
      <4> QED
        BY <4>1, <4>2
    <3> QED
      BY <1>6, <3>1, LineUpdates
  <2> QED
    BY <2>1, <2>2
<1>8. LineInOrder'
  BY <1>3, <1>7, KeepsOrder DEF BoundsInv
<1> QED
  BY <1>1, <1>4, <1>5, <1>7, <1>8 DEF BoundsInv, Typed

-----------------------------------------------------------------------------
(* The cases of the switch: the header lines *)

\* The ends of lines, and the name of a header
LEMMA NameBounds ==
  ASSUME BoundsInv, Cr \/ Lf1 \/ Name \/ Lf2
  PROVE  BoundsInv'
<1>1. /\ state # "METHOD" /\ i < args.size
      /\ UNCHANGED <<stream, received, args, cursor, method, line, store>>
  BY DEF Cr, Lf1, Name, Lf2, Reading, Outside, peer
<1>2. PICK s \in {"CR", "LF1", "LF2", "NAME", "COLON"} : EndsIteration(s)
  BY DEF Cr, Lf1, Name, Lf2, Reading, EndsIteration
<1>3. /\ state' = s /\ Reached' \in Nat /\ Reached <= Reached'
      /\ i' \in Nat /\ i \in 0..SHRT_MAX /\ i <= i'
  BY <1>1, <1>2, Moves, Offsets DEF BoundsInv
<1>4. Bounded'
  BY <1>1, <1>2, KeepsBounds DEF BoundsInv
<1>5. LineInOrder' /\ StoreInOrder'
  BY <1>1, <1>3, KeepsOrder DEF BoundsInv
<1>6. key \in Slices /\ U16(i) = i /\ U16(i) \in 0..(UINT16 - 1)
  BY <1>3, OffsetsFit DEF BoundsInv, Typed
<1>7. key' \in Slices /\ KeyInOrder'
  <2>1. CASE Cr \/ Lf2
    BY <1>6, <2>1 DEF Cr, Lf2, Reading, Continue, Bad, Succeed, KeyInOrder
  <2>2. CASE Lf1
    <3>1. \/ UNCHANGED key /\ state' \in {"LF1", "LF2"}
          \/ key' = [key EXCEPT !.start = U16(i)] /\ state' = "NAME" /\ i' = i + 1
      BY <2>2 DEF Lf1, Reading, Continue, Bad, Succeed
    <3>2. CASE UNCHANGED key /\ state' \in {"LF1", "LF2"}
      BY <1>6, <3>2 DEF KeyInOrder
    <3>3. CASE key' = [key EXCEPT !.start = U16(i)] /\ state' = "NAME" /\ i' = i + 1
      <4>1. key' \in Slices /\ key'.start = i
        BY <1>6, <3>3 DEF Slices
      <4>2. key'.start < i'
        BY <1>3, <3>3, <4>1
      <4> QED
        BY <3>3, <4>1, <4>2 DEF KeyInOrder
    <3> QED
      BY <3>1, <3>2, <3>3
  <2>3. CASE Name
    <3>1. key.start < i /\ key.start \in Nat
      BY <1>6, <2>3, Widths DEF Name, Reading, BoundsInv, KeyInOrder, Slices
    <3>2. \/ UNCHANGED key /\ state' = "NAME"
          \/ key' = [key EXCEPT !.end = U16(i)] /\ state' = "COLON" /\ i' = i + 1
      BY <2>3 DEF Name, Continue, NextOfRun, Bad
    <3>3. CASE UNCHANGED key /\ state' = "NAME"
      <4>1. key'.start < i'
        BY <1>3, <3>1, <3>3
      <4> QED
        BY <1>6, <3>3, <4>1 DEF KeyInOrder
    <3>4. CASE key' = [key EXCEPT !.end = U16(i)] /\ state' = "COLON" /\ i' = i + 1
      <4>1. key' \in Slices /\ key'.end = i /\ key'.start = key.start
        BY <1>6, <3>4 DEF Slices
      <4>2. key'.start < key'.end /\ key'.end < i'
        BY <1>3, <3>1, <3>4, <4>1
      <4> QED
        BY <3>4, <4>1, <4>2 DEF KeyInOrder
    <3> QED
      BY <3>2, <3>3, <3>4
  <2> QED
    BY <2>1, <2>2, <2>3
<1> QED
  BY <1>1, <1>4, <1>5, <1>7 DEF BoundsInv, Typed

\* What a lookup and an insertion make of the store
LEMMA StoreSteps ==
  ASSUME NEW from, StoreHeader(from)
  PROVE  LET value == Slice(from, RTrim(from, i))
         IN  \/ UNCHANGED store
             \/ \E h \in KnownHeaders : store' = SetSlot(store, h, value)
             \/ store' = xheaders_insert(store, key, value)
<1>1. GetHttpHeader(key) \in KnownHeaders \cup {UNKNOWN}
  BY LookupType DEF GetHttpHeader, LookupHttpHeader
<1> QED
  BY <1>1 DEF StoreHeader

\* Writing a slot
LEMMA SlotWritten ==
  ASSUME NEW s \in Stores, NEW h \in KnownHeaders, NEW v \in Slices, NEW r, r = SetSlot(s, h, v)
  PROVE  /\ r \in Stores /\ r.x = s.x /\ r.cap = s.cap /\ r.buf = s.buf
         /\ \A k \in KnownHeaders : r.std[k] = v \/ r.std[k] = s.std[k]
<1>1. r = [s EXCEPT !.std = [s.std EXCEPT ![h] = v]] /\ s.std \in [KnownHeaders -> Slices]
  BY DEF SetSlot, Stores
<1>2. r.std = [s.std EXCEPT ![h] = v] /\ [s.std EXCEPT ![h] = v] \in [KnownHeaders -> Slices]
  BY <1>1 DEF Stores
<1>3. r \in Stores /\ r.x = s.x /\ r.cap = s.cap /\ r.buf = s.buf
  BY <1>1, <1>2 DEF Stores
<1> QED
  BY <1>1, <1>2, <1>3

\* Adding an entry
LEMMA EntryInserted ==
  ASSUME NEW s \in Stores, NEW n \in Slices, NEW v \in Slices, NEW r, r = xheaders_insert(s, n, v)
  PROVE  /\ r \in Stores /\ r.std = s.std
         /\ Len(s.x) \in Nat /\ Len(r.x) = Len(s.x) + 1
         /\ \A k \in 1..Len(s.x) : r.x[k] = s.x[k]
         /\ r.x[Len(s.x) + 1] = [name |-> n, value |-> v]
         /\ r.cap = IF MustGrow(s) THEN Grown(s.cap) ELSE s.cap
         /\ r.buf = (s.buf \/ MustGrow(s))
<1> DEFINE entry == [name |-> n, value |-> v]
<1>1. s.x \in Seq(Entries) /\ s.cap \in Nat /\ s.buf \in BOOLEAN /\ entry \in Entries
      /\ s.std \in [KnownHeaders -> Slices]
  BY DEF Stores, Entries
<1>2. /\ r.std = s.std /\ r.x = Append(s.x, entry)
      /\ r.cap = (IF MustGrow(s) THEN Grown(s.cap) ELSE s.cap)
      /\ r.buf = (s.buf \/ MustGrow(s))
  BY DEF xheaders_insert, Stores
<1>3. r = [std |-> r.std, x |-> r.x, cap |-> r.cap, buf |-> r.buf]
  BY DEF xheaders_insert, Stores
<1>4. r.cap \in Nat /\ r.buf \in BOOLEAN
  BY <1>1, <1>2 DEF Grown, MustGrow
<1> HIDE DEF entry
<1>5. /\ r.x \in Seq(Entries) /\ Len(s.x) \in Nat /\ Len(r.x) = Len(s.x) + 1
      /\ \A k \in 1..Len(s.x) : r.x[k] = s.x[k]
      /\ r.x[Len(s.x) + 1] = entry
  BY <1>1, <1>2
<1>6. r \in Stores
  BY <1>1, <1>2, <1>3, <1>4, <1>5 DEF Stores
<1> QED
  BY <1>2, <1>5, <1>6 DEF entry

\* The value of a header, and with it the header
LEMMA ValueBounds ==
  ASSUME BoundsInv, Colon \/ Value
  PROVE  BoundsInv'
<1>1. /\ state \in {"COLON", "VALUE"} /\ i < args.size
      /\ UNCHANGED <<stream, received, args, method, key, line>>
  BY DEF Colon, Value, Reading, Outside, peer
<1>2. /\ i \in 0..SHRT_MAX /\ i \in Nat /\ Reached = i
      /\ cursor \in 0..SHRT_MAX /\ cursor <= i
      /\ key \in Slices /\ store \in Stores
  BY <1>1, Offsets DEF BoundsInv, Typed
<1>3. PICK s \in {"COLON", "VALUE", "CR", "LF1"} :
        /\ EndsIteration(s)
        /\ s = "COLON" => state = "COLON"
        /\ cursor' = cursor \/ cursor' = i
        /\ s = "VALUE" => \/ state = "VALUE" /\ cursor' = cursor
                          \/ state = "COLON" /\ cursor' = i
  <2>1. ASSUME NEW from, ValueByte(from)
        PROVE  \E s \in {"VALUE", "CR", "LF1"} : EndsIteration(s)
    BY <2>1 DEF ValueByte, EndsIteration, EndOfLine
  <2>2. CASE Colon
    <3>1. CASE Continue("COLON") /\ UNCHANGED cursor
      BY <2>2, <3>1 DEF Colon, Reading, EndsIteration
    <3>2. CASE cursor' = i /\ ValueByte(i)
      BY <2>1, <2>2, <3>2 DEF Colon, Reading
    <3> QED
      BY <2>2, <3>1, <3>2 DEF Colon
  <2>3. CASE Value
    BY <2>1, <2>3 DEF Value, Reading
  <2> QED
    BY <2>2, <2>3
<1>4. /\ state' = s /\ i' \in Nat /\ i <= i' /\ Reached' \in Nat /\ Reached <= Reached'
  BY <1>1, <1>3, Moves DEF BoundsInv
<1>5. Bounded' /\ LineInOrder'
  <2>1. Bounded'
    BY <1>1, <1>3, KeepsBounds DEF BoundsInv
  <2>2. LineInOrder'
    BY <1>1, <1>4, KeepsOrder DEF BoundsInv
  <2> QED
    BY <2>1, <2>2
<1>6. KeyInOrder'
  <2>1. key.start \in Nat /\ key.end \in Nat
    BY <1>2, Widths DEF Slices
  <2>2. CASE s = "COLON"
    BY <1>1, <1>2, <1>3, <1>4, <2>1, <2>2 DEF BoundsInv, KeyInOrder
  <2>3. CASE s = "VALUE"
    BY <1>1, <1>2, <1>3, <1>4, <2>1, <2>3 DEF BoundsInv, KeyInOrder
  <2> QED
    BY <1>3, <1>4, <2>2, <2>3 DEF KeyInOrder
<1>7. store' \in Stores /\ StoreInOrder'
  <2>1. CASE UNCHANGED store
    BY <1>2, <1>4, <2>1, KeepsOrder DEF BoundsInv
  <2>2. CASE ~UNCHANGED store
    <3>1. PICK from \in 0..SHRT_MAX : /\ from <= i /\ StoreHeader(from)
                                      /\ key.start < key.end /\ key.end < from
      <4>1. \/ StoreHeader(i) /\ state = "COLON"
            \/ StoreHeader(cursor) /\ state = "VALUE"
        BY <2>2 DEF Colon, Value, Reading, ValueByte
      <4>2. CASE StoreHeader(i) /\ state = "COLON"
        BY <1>2, <4>2 DEF BoundsInv, KeyInOrder
      <4>3. CASE StoreHeader(cursor) /\ state = "VALUE"
        BY <1>2, <4>3 DEF BoundsInv, KeyInOrder
      <4> QED
        BY <4>1, <4>2, <4>3
    <3>2. RTrim(from, i) \in from..i
      BY <1>2, <3>1, Trimmed
    <3>3. PICK value \in Slices : /\ value = Slice(from, RTrim(from, i))
                                  /\ value.start = from /\ value.start <= value.end
                                  /\ value.end <= i /\ value.end \in Nat
      <4>1. PICK to \in 0..SHRT_MAX : to = RTrim(from, i) /\ from <= to /\ to <= i
        <5>1. PICK to \in from..i : to = RTrim(from, i)
          BY <3>2
        <5>2. to \in 0..SHRT_MAX /\ from <= to /\ to <= i
          BY <1>2, <3>1, Widths
        <5> QED
          BY <5>1, <5>2
      <4>2. Slice(from, to) \in Slices /\ Slice(from, to) = [start |-> from, end |-> to]
        BY <3>1, OffsetsFit
      <4>3. to \in Nat /\ Slice(from, to).start = from /\ Slice(from, to).end = to
        BY <4>2
      <4> QED
        BY <4>1, <4>2, <4>3
    <3>4. value.end <= Reached' /\ key.end < value.start
      BY <1>2, <1>4, <3>1, <3>3
    <3>5. \A n \in Nat : n <= Reached => n <= Reached'
      BY <1>2, <1>4
    <3>6. /\ \A h \in KnownHeaders : store.std[h].end \in Nat
          /\ \A k \in 1..Len(store.x) : store.x[k].value.end \in Nat
      <4>1. store.x \in Seq(Entries) /\ store.std \in [KnownHeaders -> Slices]
        BY <1>2 DEF Stores
      <4>2. \A k \in 1..Len(store.x) : store.x[k] \in Entries
        BY <4>1
      <4>3. \A t \in Slices : t.end \in Nat
        BY Widths DEF Slices
      <4> QED
        BY <4>1, <4>2, <4>3 DEF Entries
    <3>7. /\ \A h \in KnownHeaders : /\ store.std[h].start <= store.std[h].end
                                     /\ store.std[h].end <= Reached'
          /\ \A k \in 1..Len(store.x) :
               /\ store.x[k].name.start < store.x[k].name.end
               /\ store.x[k].name.end < store.x[k].value.start
               /\ store.x[k].value.start <= store.x[k].value.end
               /\ store.x[k].value.end <= Reached'
      BY <3>5, <3>6 DEF BoundsInv, StoreInOrder
    <3>8. ASSUME NEW h \in KnownHeaders, store' = SetSlot(store, h, value)
          PROVE  store' \in Stores /\ StoreInOrder'
      <4>1. /\ store' \in Stores /\ store'.x = store.x
            /\ \A k \in KnownHeaders : store'.std[k] = value \/ store'.std[k] = store.std[k]
        BY <1>2, <3>8, SlotWritten
      <4> QED
        BY <3>3, <3>4, <3>7, <4>1 DEF StoreInOrder
    <3>9. ASSUME store' = xheaders_insert(store, key, value)
          PROVE  store' \in Stores /\ StoreInOrder'
      <4>1. /\ store' \in Stores /\ store'.std = store.std
            /\ Len(store.x) \in Nat /\ Len(store'.x) = Len(store.x) + 1
            /\ \A k \in 1..Len(store.x) : store'.x[k] = store.x[k]
            /\ store'.x[Len(store.x) + 1] = [name |-> key, value |-> value]
        BY <1>2, <3>9, EntryInserted
      <4> DEFINE n == Len(store.x)
      <4>2. \A k \in 1..Len(store'.x) : k \in 1..n \/ k = n + 1
        <5>1. n \in Nat /\ Len(store'.x) = n + 1
          BY <4>1
        <5> HIDE DEF n
        <5> QED
          BY <5>1
      <4>3. ASSUME NEW k \in 1..Len(store'.x)
            PROVE  /\ store'.x[k].name.start < store'.x[k].name.end
                   /\ store'.x[k].name.end < store'.x[k].value.start
                   /\ store'.x[k].value.start <= store'.x[k].value.end
                   /\ store'.x[k].value.end <= Reached'
        <5>1. CASE k \in 1..Len(store.x)
          BY <3>7, <4>1, <5>1
        <5>2. CASE k = Len(store.x) + 1
          <6>1. store'.x[k].name = key /\ store'.x[k].value = value
            BY <4>1, <5>2
          <6> QED
            BY <3>1, <3>3, <3>4, <6>1
        <5> QED
          BY <4>2, <5>1, <5>2
      <4> QED
        BY <3>7, <4>1, <4>3 DEF StoreInOrder
    <3>10. \/ \E h \in KnownHeaders : store' = SetSlot(store, h, value)
           \/ store' = xheaders_insert(store, key, value)
      BY <2>2, <3>1, <3>3, StoreSteps
    <3> QED
      BY <3>8, <3>9, <3>10
  <2> QED
    BY <2>1, <2>2
<1> QED
  BY <1>1, <1>5, <1>6, <1>7 DEF BoundsInv, Typed

-----------------------------------------------------------------------------
(* The caller's operations *)

\* A call that is refused changes nothing, one that is not sees at least as much
\* of the message as the one before it.
LEMMA CallBounds ==
  ASSUME BoundsInv, NEW c \in Capacities, Call(c)
  PROVE  BoundsInv'
<1>1. UNCHANGED <<stream, received, method, key, line, store, state, i, cursor>>
  BY DEF Call, parser, peer
<1>2. CASE UNCHANGED args
  BY <1>1, <1>2 DEF BoundsInv, Typed, Bounded, Reached, KeyInOrder, LineInOrder, StoreInOrder
<1>3. CASE args' = [size |-> Clamp(received), capacity |-> Clamp(c)]
  <2>1. /\ received \in Nat /\ c \in Nat /\ SHRT_MAX \in Nat
        /\ args.size \in Nat /\ args.size <= received /\ args.size <= SHRT_MAX
    <3>1. received \in 0..Len(stream) /\ args.size \in 0..SHRT_MAX /\ args.size <= received
      BY DEF BoundsInv, Typed
    <3> QED
      BY <3>1, CosmoAssumption, Widths
  <2>2. PICK m \in 0..SHRT_MAX, n \in 0..SHRT_MAX : /\ args' = [size |-> m, capacity |-> n]
                                                    /\ args.size <= m /\ m <= received
    BY <1>3, <2>1 DEF Clamp
  <2>3. args' \in [size : 0..SHRT_MAX, capacity : 0..SHRT_MAX]
        /\ args'.size = m /\ args.size <= args'.size
    BY <2>2
  <2>4. Typed'
    BY <1>1, <2>2, <2>3 DEF BoundsInv, Typed
  <2>5. i \in Nat /\ Reached \in Nat
    BY Offsets DEF BoundsInv
  <2>6. Reached' = IF i > m THEN m ELSE i
    BY <1>1, <2>3 DEF Reached
  <2>7. Reached' \in Nat /\ Reached <= Reached'
    <3>1. Reached = IF i > args.size THEN args.size ELSE i
      BY DEF Reached
    <3>2. m \in Nat /\ args.size \in Nat /\ args.size <= m
      BY <2>1, <2>2
    <3> QED
      BY <2>5, <2>6, <3>1, <3>2
  <2>8. i <= args'.size + 1
    BY <2>1, <2>2, <2>3, <2>5 DEF BoundsInv, Bounded
  <2>9. Bounded' /\ KeyInOrder'
    BY <1>1, <2>8 DEF BoundsInv, Bounded, KeyInOrder
  <2>10. LineInOrder' /\ StoreInOrder'
    BY <1>1, <2>7, KeepsOrder DEF BoundsInv
  <2> QED
    BY <2>4, <2>9, <2>10 DEF BoundsInv
<1> QED
  BY <1>2, <1>3 DEF Call

\* More bytes in the buffer
LEMMA ReceiveBounds ==
  ASSUME BoundsInv, NEW n \in Nat, Receive(n)
  PROVE  BoundsInv'
<1>1. /\ UNCHANGED <<stream, method, key, line, store, state, i, cursor, args>>
      /\ received' = received + n /\ received + n <= Len(stream)
  BY DEF Receive, parser
<1>2. n \in Nat /\ received \in 0..Len(stream) /\ args.size \in 0..SHRT_MAX
      /\ args.size <= received /\ Len(stream) \in Nat
  BY CosmoAssumption DEF BoundsInv, Typed
<1>3. received' \in 0..Len(stream) /\ args.size <= received'
  BY <1>1, <1>2, Widths
<1> QED
  BY <1>1, <1>3 DEF BoundsInv, Typed, Bounded, Reached, KeyInOrder, LineInOrder, StoreInOrder

\* A store without an entry or a slot
LEMMA StoresBegin ==
  /\ EmptyStore \in Stores
  /\ store \in Stores => ResetStore \in Stores /\ Destroyed \in Stores
<1>1. EmptyStore \in Stores
  BY NoSliceType DEF EmptyStore, Stores
<1>2. ASSUME store \in Stores PROVE ResetStore \in Stores /\ Destroyed \in Stores
  <2>1. ResetStore \in Stores
    <3>1. store.cap \in Nat /\ store.buf \in BOOLEAN
      BY <1>2 DEF Stores
    <3> QED
      BY <1>1, <3>1 DEF ResetStore, Stores
  <2>2. \/ Destroyed = store
        \/ Destroyed = [std |-> store.std, x |-> <<>>, cap |-> 0, buf |-> FALSE]
    BY <1>2 DEF Destroyed, Stores
  <2>3. [std |-> store.std, x |-> <<>>, cap |-> 0, buf |-> FALSE] \in Stores
    <3>1. store.std \in [KnownHeaders -> Slices] /\ <<>> \in Seq(Entries)
      BY <1>2 DEF Stores
    <3> QED
      BY <3>1 DEF Stores
  <2> QED
    BY <1>2, <2>1, <2>2, <2>3
<1> QED
  BY <1>1, <1>2

\* A message begins with nothing parsed and nothing recorded.
LEMMA BeginBounds ==
  ASSUME BoundsInv, NEW s \in Streams, NEW ty \in Types, NEW initial \in {EmptyStore, ResetStore},
         Begin(s, ty, initial)
  PROVE  BoundsInv'
<1>1. /\ stream' = s /\ received' = 0 /\ state' = "START" /\ i' = 0 /\ cursor' = 0
      /\ method' = <<>> /\ key' = NoSlice /\ line' = NoLine /\ store' = initial
      /\ args' = [size |-> 0, capacity |-> 0]
  BY DEF Begin
<1>2. initial \in Stores /\ initial.x = <<>> /\ initial.std = [k \in KnownHeaders |-> NoSlice]
  <2>1. EmptyStore \in Stores /\ ResetStore \in Stores
    BY StoresBegin DEF BoundsInv, Typed
  <2>2. EmptyStore.x = <<>> /\ EmptyStore.std = [k \in KnownHeaders |-> NoSlice]
    BY DEF EmptyStore
  <2>3. ResetStore.x = EmptyStore.x /\ ResetStore.std = EmptyStore.std
    BY DEF ResetStore, EmptyStore
  <2>4. initial = EmptyStore \/ initial = ResetStore
    OBVIOUS
  <2> QED
    BY <2>1, <2>2, <2>3, <2>4
<1>3. Reached' = 0
  BY <1>1 DEF Reached
<1>4. Typed'
  <2>1. 0 \in 0..Len(s) /\ 0 \in 0..SHRT_MAX /\ NoLine \in LinesOfText
    BY CosmoAssumption, NoSliceType DEF NoLine, LinesOfText
  <2> QED
    BY <1>1, <1>2, <2>1, NoSliceType DEF Typed
<1>5. Bounded' /\ KeyInOrder'
  BY <1>1 DEF Bounded, KeyInOrder
<1>6. LineInOrder'
  BY <1>1, <1>3 DEF LineInOrder, NoLine, NoSlice
<1>7. StoreInOrder'
  BY <1>1, <1>2, <1>3 DEF StoreInOrder, NoSlice
<1> QED
  BY <1>4, <1>5, <1>6, <1>7 DEF BoundsInv

\* Destroying a message leaves its slots.
LEMMA DestroyBounds ==
  ASSUME BoundsInv, DestroyHttpMessage
  PROVE  BoundsInv'
<1>1. /\ UNCHANGED <<stream, received, method, key, line, state, i, cursor, args>>
      /\ store' = Destroyed
  BY DEF DestroyHttpMessage, peer
<1>2. /\ store' \in Stores /\ store'.std = store.std
      /\ store'.x = store.x \/ store'.x = <<>>
  BY <1>1, StoresBegin DEF BoundsInv, Typed, Destroyed, Stores
<1>3. StoreInOrder'
  BY <1>1, <1>2 DEF BoundsInv, StoreInOrder, Reached
<1> QED
  BY <1>1, <1>2, <1>3 DEF BoundsInv, Typed, Bounded, Reached, KeyInOrder, LineInOrder

-----------------------------------------------------------------------------
(* The theorem *)

\* The first message begins like every other.
LEMMA InitBounds == Init => BoundsInv
<1> SUFFICES ASSUME Init PROVE BoundsInv
  OBVIOUS
<1>1. Typed
  <2>1. 0 \in 0..Len(stream) /\ 0 \in 0..SHRT_MAX /\ NoLine \in LinesOfText
    BY CosmoAssumption, NoSliceType DEF Init, NoLine, LinesOfText
  <2> QED
    BY <2>1, NoSliceType, StoresBegin DEF Init, Typed
<1>2. Bounded /\ KeyInOrder
  BY DEF Init, Bounded, KeyInOrder
<1>3. Reached = 0
  BY DEF Init, Reached
<1>4. LineInOrder /\ StoreInOrder
  BY <1>3 DEF Init, LineInOrder, StoreInOrder, NoLine, NoSlice, EmptyStore
<1> QED
  BY <1>1, <1>2, <1>4 DEF BoundsInv

\* One step per case of the switch, and one per operation of the caller
LEMMA NextBounds == BoundsInv /\ [Next]_vars => BoundsInv'
<1> SUFFICES ASSUME BoundsInv, [Next]_vars PROVE BoundsInv'
  OBVIOUS
<1>1. CASE ReturnUsedUp \/ UNCHANGED vars
  <2>1. UNCHANGED <<stream, received, method, key, line, store, state, i, cursor, args>>
    BY <1>1 DEF ReturnUsedUp, vars, parser, peer
  <2> QED
    BY <2>1 DEF BoundsInv, Typed, Bounded, Reached, KeyInOrder, LineInOrder, StoreInOrder
<1>2. CASE Parse
  BY <1>1, <1>2, StartBounds, MethodBounds, UriBounds, MessageBounds, NumberBounds,
     NameBounds, ValueBounds DEF Parse
<1>3. CASE (\E c \in Capacities : Call(c)) \/ (\E n \in Chunks : Receive(n))
  BY <1>3, CosmoAssumption, CallBounds, ReceiveBounds
<1>4. CASE DestroyHttpMessage
  BY <1>4, DestroyBounds
<1>5. CASE \E s \in Streams, ty \in Types : InitHttpMessage(s, ty) \/ ResetHttpMessage(s, ty)
  BY <1>5, BeginBounds DEF InitHttpMessage, ResetHttpMessage
<1> QED
  BY <1>1, <1>2, <1>3, <1>4, <1>5 DEF Next, MessageNext

\* The index runs at most one past the bytes of the call, the cursor is never
\* ahead of it, and every slice that is recorded lies, in order, in bytes that
\* were received, however a message is cut and whatever becomes of it.
THEOREM ReferenceIsInBounds == Spec => []ReferenceStaysInInput
<1>1. Spec => []BoundsInv
  BY InitBounds, NextBounds, PTL DEF Spec
<1>2. BoundsInv => ReferenceStaysInInput
  BY DEF BoundsInv, Typed, Bounded, LineInOrder, StoreInOrder, Reached, ReferenceStaysInInput,
     Uurl!SlicesInInput, Uurl!Ordered, Uurl!KnownHeaders, Uurl!NoSlice, KnownHeaders, NoSlice
<1> QED
  BY <1>1, <1>2, PTL

-----------------------------------------------------------------------------
(* The list of further headers *)

\* A message begins with no list and no allocation.
LEMMA InitReferenceList == Init => ReferenceListFits
  BY DEF Init, ReferenceListFits, EmptyStore

\* The steps that touch the store
LEMMA NextReferenceList ==
  BoundsInv /\ ReferenceListFits /\ [Next]_vars => ReferenceListFits'
<1> SUFFICES ASSUME BoundsInv, ReferenceListFits, [Next]_vars
             PROVE  ReferenceListFits'
  OBVIOUS
<1>0. /\ store \in Stores /\ store.cap \in Nat /\ Len(store.x) \in Nat
      /\ store.buf \in BOOLEAN /\ key \in Slices
  BY DEF BoundsInv, Typed, Stores
<1>1. CASE UNCHANGED store
  BY <1>1 DEF ReferenceListFits
<1>2. ASSUME NEW h \in KnownHeaders, NEW v, store' = SetSlot(store, h, v)
      PROVE  ReferenceListFits'
  <2>1. store'.x = store.x /\ store'.cap = store.cap /\ store'.buf = store.buf
    BY <1>0, <1>2 DEF SetSlot, Stores
  <2> QED
    BY <2>1 DEF ReferenceListFits
<1>3. ASSUME NEW v, store' = xheaders_insert(store, key, v)
      PROVE  ReferenceListFits'
  <2>1. /\ store'.x = Append(store.x, [name |-> key, value |-> v])
        /\ store'.cap = IF MustGrow(store) THEN Grown(store.cap) ELSE store.cap
        /\ store'.buf = (store.buf \/ MustGrow(store))
    BY <1>0, <1>3 DEF xheaders_insert, Stores
  <2>2. Len(store'.x) = Len(store.x) + 1
    BY <1>0, <2>1 DEF Stores
  <2>3. Len(store.x) <= store.cap /\ (store.buf <=> store.cap > 0)
    BY DEF ReferenceListFits
  <2>4. CASE MustGrow(store)
    <3>1. store'.cap = Grown(store.cap) /\ store'.buf /\ Len(store.x) = store.cap
      BY <2>1, <2>4 DEF MustGrow
    <3>2. Len(store'.x) <= store'.cap /\ store'.cap > 0
      BY <1>0, <2>2, <3>1 DEF Grown
    <3> QED
      BY <3>1, <3>2 DEF ReferenceListFits
  <2>5. CASE ~MustGrow(store)
    <3>1. store'.cap = store.cap /\ store'.buf = store.buf /\ Len(store.x) # store.cap
      BY <1>0, <2>1, <2>5 DEF MustGrow
    <3>2. Len(store'.x) <= store'.cap
      BY <1>0, <2>2, <2>3, <3>1
    <3> QED
      BY <2>3, <3>1, <3>2 DEF ReferenceListFits
  <2> QED
    BY <2>4, <2>5
<1>4. CASE \E from : StoreHeader(from)
  BY <1>1, <1>2, <1>3, <1>4, StoreSteps
<1>5. CASE store' = EmptyStore
  BY <1>5 DEF ReferenceListFits, EmptyStore
<1>6. CASE store' = ResetStore
  <2>1. store'.x = <<>> /\ store'.cap = store.cap /\ store'.buf = store.buf
    BY <1>6 DEF ResetStore, EmptyStore
  <2> QED
    BY <1>0, <2>1 DEF ReferenceListFits
<1>7. CASE store' = Destroyed
  <2>1. \/ UNCHANGED store
        \/ store'.x = <<>> /\ store'.cap = 0 /\ store'.buf = FALSE
    BY <1>0, <1>7 DEF Destroyed, Stores
  <2> QED
    BY <1>1, <2>1 DEF ReferenceListFits
<1> QED
  BY <1>1, <1>4, <1>5, <1>6, <1>7
  DEF Next, MessageNext, Parse, Start, Method, Uri, Version, Status, Message, Cr, Lf1,
      Name, Colon, Value, Lf2, ValueByte, ReturnUsedUp, Call, Receive, DestroyHttpMessage,
      InitHttpMessage, ResetHttpMessage, Begin, vars, parser

\* Through any sequence of parsing, destroying, initialising and resetting no
\* entry is written past the list's capacity, and a capacity is stated only
\* when there is an allocation.
THEOREM ReferenceListIsInBounds == Spec => []ReferenceListFits
<1>1. Spec => []BoundsInv
  BY InitBounds, NextBounds, PTL DEF Spec
<1> QED
  BY <1>1, InitReferenceList, NextReferenceList, PTL DEF Spec

=============================================================================
