-------------------------- MODULE HttpParserProofs --------------------------
(***************************************************************************)
(* Proofs about http_msg_parse that need no reading of the bytes: its      *)
(* types and bounds, the records it keeps, and that a malformed byte stays *)
(* refused.                                                                *)
(*                                                                         *)
(* The types and the bounds of index and cursor are proved together: a     *)
(* read is of a byte of the stream because the index is below args.size, a *)
(* slice fits 16 bits because the index is at most SHRT_MAX.               *)
(***************************************************************************)
EXTENDS HttpParser, HeaderStoreProofs

\* Assigning an offset to a uint16_t gives a uint16_t, and loses nothing when
\* the offset is one that http_msg_parse can reach.
LEMMA U16OfOffset ==
  /\ \A n \in Nat : U16(n) \in 0..(UINT16 - 1)
  /\ \A n \in 0..SHRT_MAX : U16(n) = n
  BY UINT16Assumption, WidthAssumption DEF U16

\* A slice between two offsets that http_msg_parse can reach holds them as they are.
LEMMA SliceOfOffsets ==
  ASSUME NEW from \in 0..SHRT_MAX, NEW to \in 0..SHRT_MAX
  PROVE  /\ Slice(from, to) \in Slices
         /\ Slice(from, to) = [start |-> from, end |-> to]
  BY U16OfOffset, WidthAssumption DEF Slice, Slices

\* The trimmed end of a value lies between the value's start and its end, behind
\* a byte that is no blank, if any, and before blanks only.
LEMMA RTrimRange ==
  ASSUME NEW from \in Nat, NEW to \in Nat, from <= to
  PROVE  /\ RTrim(from, to) \in from..to
         /\ \A k \in RTrim(from, to)..(to - 1) : IsHtabOrSpace(At(k))
         /\ RTrim(from, to) = from \/ ~IsHtabOrSpace(At(RTrim(from, to) - 1))
<1> DEFINE ends == {t \in from..to : \A k \in t..(to - 1) : IsHtabOrSpace(At(k))}
<1>1. ends \in SUBSET Nat /\ ends # {}
  <2>1. to \in ends
    OBVIOUS
  <2> QED
    BY <2>1
<1>2. PICK m \in ends : \A x \in ends : m <= x
  <2> HIDE DEF ends
  <2> QED
    BY <1>1, MinOfNats
<1>3. m = from \/ ~IsHtabOrSpace(At(m - 1))
  <2> SUFFICES ASSUME m # from, IsHtabOrSpace(At(m - 1)) PROVE FALSE
    OBVIOUS
  <2>1. m - 1 \in from..to
    OBVIOUS
  <2>2. \A k \in (m - 1)..(to - 1) : k = m - 1 \/ k \in m..(to - 1)
    OBVIOUS
  <2>3. \A k \in (m - 1)..(to - 1) : IsHtabOrSpace(At(k))
    BY <2>2
  <2> QED
    BY <2>1, <2>3, <1>2
<1> QED
  BY <1>2, <1>3 DEF RTrim

\* What the proofs use of the widths of the code's integers.
LEMMA Widths ==
  /\ SHRT_MAX \in Nat /\ UINT16 \in Nat /\ UINT32 \in Nat
  /\ 0 < SHRT_MAX /\ SHRT_MAX < UINT16 /\ 9999 < UINT32
  BY WidthAssumption, UINT16Assumption DEF HTTP_STATUS_MAX

-----------------------------------------------------------------------------
\* The inductive invariant
IInv == TypeOK /\ WithinInput

\* The byte an iteration looks at is one the peer has sent.
LEMMA ChType ==
  ASSUME IInv, pc = "loop", BytesLeft
  PROVE  Ch \in Byte
<1>1. i + 1 \in 1..Len(stream)
  BY DEF IInv, TypeOK, WithinInput, BytesLeft, Args
<1>2. stream \in Seq(Byte)
  BY StreamsAssumption DEF IInv, TypeOK
<1> QED
  BY <1>1, <1>2 DEF Ch, At

\* http_msg_init establishes the invariant.
LEMMA InitIInv == Init => IInv
<1> SUFFICES ASSUME Init PROVE IInv
  OBVIOUS
<1>1. stream \in Seq(Byte)
  BY StreamsAssumption DEF Init
<1>2. line \in Lines /\ name \in Slices
  BY NoSliceType, Widths DEF Init, NoLine, Lines
<1>3. store \in Stores
  BY NoSliceType DEF Init, EmptyStore, Stores
<1>4. TypeOK
  BY <1>1, <1>2, <1>3, Widths
  DEF Init, TypeOK, States, Args, HTTP_METHOD_MAX_STRLEN
<1> QED
  BY <1>4 DEF IInv, WithinInput, Init

\* What every iteration assigns: where the loop is, and what is returned.
ControlOK ==
  /\ state \in States
  /\ i \in 0..SHRT_MAX
  /\ i <= args.size
  /\ pc \in {"idle", "loop"}
  /\ ret \in -1..SHRT_MAX
  /\ failure \in Failures \cup {"none"}

\* Going round the loop keeps the control within bounds.
LEMMA ContinueControl ==
  ASSUME IInv, pc = "loop", BytesLeft, UNCHANGED args,
         NEW s \in States, Continue(s)
  PROVE  ControlOK' /\ i' = i + 1
<1>1. i + 1 \in 0..SHRT_MAX /\ i + 1 <= args.size
  BY Widths DEF BytesLeft, IInv, TypeOK, WithinInput, Args
<1> QED
  BY <1>1 DEF Continue, ControlOK, IInv, TypeOK

\* Returning -1 from the loop keeps the control within bounds.
LEMMA FailControl ==
  ASSUME IInv, pc = "loop", BytesLeft, UNCHANGED args,
         NEW s \in States, NEW why \in Failures, Fail(s, why)
  PROVE  ControlOK' /\ i' = i
  BY Widths DEF Fail, ControlOK, IInv, TypeOK, WithinInput

\* Returning the message's length keeps the control within bounds.
LEMMA SucceedControl ==
  ASSUME IInv, pc = "loop", BytesLeft, UNCHANGED args, Succeed
  PROVE  ControlOK' /\ i' = i + 1
<1>1. i + 1 \in 0..SHRT_MAX /\ i + 1 <= args.size
  BY Widths DEF BytesLeft, IInv, TypeOK, WithinInput, Args
<1> QED
  BY <1>1 DEF Succeed, ControlOK, IInv, TypeOK

\* The names the actions use are those of the sets States and Failures.
LEMMA StateNames ==
  /\ {"START", "METHOD", "URI", "VERSION", "STATUS", "MESSAGE", "NAME",
      "COLON", "VALUE", "CR", "LF1", "LF2"} = States
  /\ EndOfLine \in States
  /\ {"syntax", "memory", "full", "arguments"} = Failures
  BY DEF States, EndOfLine, Failures

\* insert_method_char does not write past the method's seven characters.
LEMMA InsertMethodCharOK ==
  ASSUME IInv, pc = "loop", BytesLeft, UNCHANGED args, InsertMethodChar
  PROVE  /\ ControlOK' /\ i' \in {i, i + 1}
         /\ method' \in Seq(Byte)
         /\ Len(method') <= HTTP_METHOD_MAX_STRLEN
<1>1. Upper(Ch) \in Byte
  BY ChType DEF Upper, Byte
<1>2. CASE Len(method) # HTTP_METHOD_MAX_STRLEN /\ IsToken(Ch)
  <2>1. method' = Append(method, Upper(Ch)) /\ Continue("METHOD")
    BY <1>2 DEF InsertMethodChar
  <2>2. ControlOK' /\ i' = i + 1
    BY <2>1, ContinueControl, StateNames
  <2>3. method \in Seq(Byte) /\ Len(method) < 7
    <3>1. method \in Seq(Byte) /\ Len(method) <= 7 /\ Len(method) # 7
      BY <1>2 DEF IInv, TypeOK, HTTP_METHOD_MAX_STRLEN
    <3>2. Len(method) \in Nat
      BY <3>1
    <3>3. \A n \in Nat : n <= 7 /\ n # 7 => n < 7
      OBVIOUS
    <3> QED
      BY <3>1, <3>2, <3>3, Zenon
  <2>4. method' \in Seq(Byte) /\ Len(method') = Len(method) + 1
    BY <1>1, <2>1, <2>3 DEF Byte
  <2> QED
    BY <2>2, <2>3, <2>4 DEF HTTP_METHOD_MAX_STRLEN
<1>3. CASE ~(Len(method) # HTTP_METHOD_MAX_STRLEN /\ IsToken(Ch))
  <2>1. Fail("METHOD", "syntax") /\ UNCHANGED method
    BY <1>3 DEF InsertMethodChar
  <2>2. ControlOK' /\ i' = i
    BY <2>1, FailControl, StateNames
  <2> QED
    BY <2>1, <2>2 DEF IInv, TypeOK
<1> QED
  BY <1>2, <1>3

\* An iteration that keeps the control within bounds and the fields in their
\* types keeps the invariant.
LEMMA IterationIInv ==
  ASSUME IInv, ControlOK', UNCHANGED Outside,
         cursor' \in 0..SHRT_MAX, cursor' <= i',
         method' \in Seq(Byte), Len(method') <= HTTP_METHOD_MAX_STRLEN,
         name' \in Slices, line' \in Lines, store' \in Stores
  PROVE  IInv'
  BY DEF IInv, TypeOK, WithinInput, ControlOK, Outside, peer

\* Each case of the switch keeps the invariant: STATE_START,
LEMMA StartIInv == IInv /\ ParseStart => IInv'
<1> SUFFICES ASSUME IInv, ParseStart PROVE IInv'
  OBVIOUS
<1>1. pc = "loop" /\ BytesLeft /\ UNCHANGED <<args, name, line, store, Outside>>
  BY DEF ParseStart, Reading, Outside
<1>2. CASE IsCrlf(Ch)
  <2>1. Continue("START") /\ UNCHANGED <<cursor, method>>
    BY <1>2 DEF ParseStart
  <2>2. ControlOK' /\ i' = i + 1
    BY <1>1, <2>1, ContinueControl, StateNames
  <2> QED
    BY <1>1, <2>1, <2>2, IterationIInv DEF IInv, TypeOK, WithinInput
<1>3. CASE ~IsCrlf(Ch)
  <2>1. /\ cursor' = i
        /\ InsertMethodChar \/ (Continue("VERSION") /\ UNCHANGED method)
    BY <1>3 DEF ParseStart
  <2>2. ControlOK' /\ i' \in {i, i + 1}
    BY <1>1, <2>1, InsertMethodCharOK, ContinueControl, StateNames
  <2>3. method' \in Seq(Byte) /\ Len(method') <= HTTP_METHOD_MAX_STRLEN
    BY <1>1, <2>1, InsertMethodCharOK DEF IInv, TypeOK
  <2> QED
    BY <1>1, <2>1, <2>2, <2>3, IterationIInv DEF IInv, TypeOK
<1> QED
  BY <1>2, <1>3

\* STATE_METHOD, which sets the cursor one ahead of the byte just read,
LEMMA MethodIInv == IInv /\ ParseMethod => IInv'
<1> SUFFICES ASSUME IInv, ParseMethod PROVE IInv'
  OBVIOUS
<1>1. pc = "loop" /\ BytesLeft /\ UNCHANGED <<args, name, line, store, Outside>>
  BY DEF ParseMethod, Reading, Outside
<1>2. CASE Ch = SP
  <2>1. Continue("URI") /\ cursor' = i + 1 /\ UNCHANGED method
    BY <1>2 DEF ParseMethod, NextOffset
  <2>2. ControlOK' /\ i' = i + 1
    BY <1>1, <2>1, ContinueControl, StateNames
  <2> QED
    BY <1>1, <2>1, <2>2, IterationIInv DEF IInv, TypeOK, ControlOK
<1>3. CASE Ch # SP
  <2>1. InsertMethodChar /\ UNCHANGED cursor
    BY <1>3 DEF ParseMethod
  <2> QED
    BY <1>1, <2>1, InsertMethodCharOK, IterationIInv DEF IInv, TypeOK, WithinInput
<1> QED
  BY <1>2, <1>3

\* (what the next cases write is of its type)
LEMMA LineUpdates ==
  ASSUME IInv
  PROVE  /\ line \in Lines
         /\ [line EXCEPT !.uri = Slice(cursor, i)] \in Lines
         /\ [line EXCEPT !.uri = Slice(cursor, i), !.version = V0_9] \in Lines
         /\ [line EXCEPT !.message = Slice(cursor, i)] \in Lines
         /\ \A v \in {V0_9, V1_0, V1_1} : [line EXCEPT !.version = v] \in Lines
         /\ \A n \in 0..(UINT32 - 1) : [line EXCEPT !.status = n] \in Lines
<1>1. line \in Lines /\ Slice(cursor, i) \in Slices
  BY SliceOfOffsets DEF IInv, TypeOK
<1> QED
  BY <1>1 DEF Lines

\* STATE_URI,
LEMMA UriIInv == IInv /\ ParseUri => IInv'
<1> SUFFICES ASSUME IInv, ParseUri PROVE IInv'
  OBVIOUS
<1>1. pc = "loop" /\ BytesLeft /\ UNCHANGED <<args, method, name, store, Outside>>
  BY DEF ParseUri, Reading, Outside
<1>2. CASE Fail("URI", "syntax") /\ UNCHANGED <<cursor, line>>
  BY <1>1, <1>2, FailControl, StateNames, IterationIInv
  DEF IInv, TypeOK, WithinInput
<1>3. CASE Continue("URI") /\ UNCHANGED <<cursor, line>>
  BY <1>1, <1>3, ContinueControl, StateNames, IterationIInv
  DEF IInv, TypeOK, WithinInput
<1>4. CASE /\ line' = [line EXCEPT !.uri = Slice(cursor, i)]
           /\ cursor' = i + 1
           /\ Continue("VERSION")
  <2>1. ControlOK' /\ i' = i + 1
    BY <1>1, <1>4, ContinueControl, StateNames
  <2>2. line' \in Lines
    BY <1>4, LineUpdates
  <2> QED
    BY <1>1, <1>4, <2>1, <2>2, IterationIInv DEF IInv, TypeOK, ControlOK
<1>5. CASE /\ line' = [line EXCEPT !.uri = Slice(cursor, i), !.version = V0_9]
           /\ Continue(EndOfLine)
           /\ UNCHANGED cursor
  <2>1. ControlOK' /\ i' = i + 1
    BY <1>1, <1>5, ContinueControl, StateNames
  <2>2. line' \in Lines
    BY <1>5, LineUpdates
  <2> QED
    BY <1>1, <1>5, <2>1, <2>2, IterationIInv DEF IInv, TypeOK, WithinInput
<1> QED
  BY <1>2, <1>3, <1>4, <1>5 DEF ParseUri, NextOffset

\* STATE_VERSION,
LEMMA VersionIInv == IInv /\ ParseVersion => IInv'
<1> SUFFICES ASSUME IInv, ParseVersion PROVE IInv'
  OBVIOUS
<1>1. /\ pc = "loop" /\ BytesLeft
      /\ UNCHANGED <<args, cursor, method, name, store, Outside>>
  BY DEF ParseVersion, Reading, Outside
<1>2. CASE Continue("VERSION") /\ UNCHANGED line
  BY <1>1, <1>2, ContinueControl, StateNames, IterationIInv
  DEF IInv, TypeOK, WithinInput
<1>3. CASE Fail("VERSION", "syntax") /\ UNCHANGED line
  BY <1>1, <1>3, FailControl, StateNames, IterationIInv
  DEF IInv, TypeOK, WithinInput
<1>4. ASSUME NEW version \in {V0_9, V1_0, V1_1}, NEW s \in States,
             line' = [line EXCEPT !.version = version],
             Continue(s)
      PROVE  IInv'
  <2>1. ControlOK' /\ i' = i + 1
    BY <1>1, <1>4, ContinueControl
  <2>2. line' \in Lines
    BY <1>4, LineUpdates
  <2> QED
    BY <1>1, <2>1, <2>2, IterationIInv DEF IInv, TypeOK, WithinInput
<1>5. parse_version(cursor, i) \in {V_UNKNOWN, V0_9, V1_0, V1_1}
  BY DEF parse_version
<1>6. (IF type = REQUEST THEN EndOfLine ELSE "STATUS") \in States
  BY StateNames
<1> QED
  BY <1>2, <1>3, <1>4, <1>5, <1>6 DEF ParseVersion

\* STATE_STATUS, whose arithmetic is that of 32 bits,
LEMMA StatusIInv == IInv /\ ParseStatus => IInv'
<1> SUFFICES ASSUME IInv, ParseStatus PROVE IInv'
  OBVIOUS
<1>1. pc = "loop" /\ BytesLeft /\ UNCHANGED <<args, method, name, store, Outside>>
  BY DEF ParseStatus, Reading, Outside
<1>2. CASE Fail("STATUS", "syntax") /\ UNCHANGED <<cursor, line>>
  BY <1>1, <1>2, FailControl, StateNames, IterationIInv
  DEF IInv, TypeOK, WithinInput
<1>3. CASE cursor' = i + 1 /\ Continue("MESSAGE") /\ UNCHANGED line
  <2>1. ControlOK' /\ i' = i + 1
    BY <1>1, <1>3, ContinueControl, StateNames
  <2> QED
    BY <1>1, <1>3, <2>1, IterationIInv DEF IInv, TypeOK, ControlOK
<1>4. CASE Continue(EndOfLine) /\ UNCHANGED <<cursor, line>>
  BY <1>1, <1>4, ContinueControl, StateNames, IterationIInv
  DEF IInv, TypeOK, WithinInput
<1>5. CASE AppendToStatus /\ UNCHANGED cursor
  <2>1. ControlOK' /\ i' \in {i, i + 1}
    BY <1>1, <1>5, ContinueControl, FailControl, StateNames DEF AppendToStatus
  <2>2. IsDigit(Ch) => Appended(line.status, Ch) \in 0..(UINT32 - 1)
    <3>1. line.status \in Nat
      BY DEF IInv, TypeOK, Lines
    <3>2. IsDigit(Ch) => line.status * 10 + (Ch - 48) \in Nat
      BY <3>1 DEF IsDigit
    <3>3. \A n \in Nat : n % UINT32 \in 0..(UINT32 - 1)
      BY Widths
    <3> QED
      BY <3>2, <3>3 DEF Appended
  <2>3. line' \in Lines
    BY <1>5, <2>2, LineUpdates DEF AppendToStatus
  <2> QED
    BY <1>1, <1>5, <2>1, <2>3, IterationIInv DEF IInv, TypeOK, WithinInput
<1> QED
  BY <1>2, <1>3, <1>4, <1>5 DEF ParseStatus, NextOffset

\* STATE_MESSAGE,
LEMMA MessageIInv == IInv /\ ParseMessage => IInv'
<1> SUFFICES ASSUME IInv, ParseMessage PROVE IInv'
  OBVIOUS
<1>1. /\ pc = "loop" /\ BytesLeft
      /\ UNCHANGED <<args, cursor, method, name, store, Outside>>
  BY DEF ParseMessage, Reading, Outside
<1>2. line' \in Lines
  BY LineUpdates DEF ParseMessage
<1>3. ControlOK' /\ i' \in {i, i + 1}
  BY <1>1, ContinueControl, FailControl, StateNames DEF ParseMessage
<1> QED
  BY <1>1, <1>2, <1>3, IterationIInv DEF IInv, TypeOK, WithinInput

\* The cases that only move on, or record where a name begins or ends.
LEMMA NameAndEndIInv ==
  IInv /\ (ParseCr \/ ParseLf1 \/ ParseName \/ ParseLf2) => IInv'
<1> SUFFICES ASSUME IInv, ParseCr \/ ParseLf1 \/ ParseName \/ ParseLf2
             PROVE  IInv'
  OBVIOUS
<1>1. /\ pc = "loop" /\ BytesLeft
      /\ UNCHANGED <<args, cursor, method, line, store, Outside>>
  BY DEF ParseCr, ParseLf1, ParseName, ParseLf2, Reading, Outside
<1>2. /\ \/ \E s \in States : Continue(s)
         \/ \E s \in States : Fail(s, "syntax")
         \/ Succeed
      /\ name' \in {name, [name EXCEPT !.start = U16(i)],
                          [name EXCEPT !.end = U16(i)]}
  BY StateNames DEF ParseCr, ParseLf1, ParseName, ParseLf2
<1>3. name' \in Slices
  <2>1. name \in Slices /\ i \in Nat
    BY DEF IInv, TypeOK
  <2>2. U16(i) \in 0..(UINT16 - 1)
    BY <2>1, U16OfOffset
  <2> QED
    BY <1>2, <2>1, <2>2 DEF Slices
<1>4. ControlOK' /\ i' \in {i, i + 1}
  BY <1>1, <1>2, ContinueControl, FailControl, SucceedControl, StateNames
<1> QED
  BY <1>1, <1>3, <1>4, IterationIInv DEF IInv, TypeOK, WithinInput

\* What the code does to the header store leaves a header store.
LEMMA StoreUpdates ==
  ASSUME NEW s \in Stores, NEW n \in Slices, NEW v \in Slices
  PROVE  /\ \A h \in KnownHeaders : SetSlot(s, h, v) \in Stores
         /\ xheaders_insert(s, n, v) \in Stores
         /\ Freed(s) \in Stores
<1>1. \A h \in KnownHeaders : SetSlot(s, h, v) \in Stores
  BY DEF SetSlot, Stores
<1>2. xheaders_insert(s, n, v) \in Stores
  <2>1. Append(s.x, [name |-> n, value |-> v])
          \in Seq(Entries)
    BY DEF Stores, Entries
  <2>2. (IF MustGrow(s) THEN Grown(s.cap) ELSE s.cap) \in Nat
    BY DEF Stores, Grown
  <2>3. (s.buf \/ MustGrow(s)) \in BOOLEAN
    OBVIOUS
  <2> QED
    BY <2>1, <2>2, <2>3 DEF xheaders_insert, Stores
<1>3. Freed(s) \in Stores
  <2>1. <<>> \in Seq(Entries)
    OBVIOUS
  <2>2. [s EXCEPT !.x = <<>>, !.buf = FALSE] \in Stores
    BY <2>1 DEF Stores
  <2> QED
    BY <2>2 DEF Freed
<1> QED
  BY <1>1, <1>2, <1>3

\* A byte of a value, the last one included, keeps the control and the types.
LEMMA ValueByteOK ==
  ASSUME IInv, pc = "loop", BytesLeft, UNCHANGED args,
         NEW from \in 0..i, ValueByte(from)
  PROVE  ControlOK' /\ i' \in {i, i + 1} /\ store' \in Stores
<1>1. \/ \E s \in States : Continue(s)
      \/ \E s \in States, why \in Failures : Fail(s, why)
  BY StateNames DEF ValueByte, StoreHeader
<1>2. ControlOK' /\ i' \in {i, i + 1}
  BY <1>1, ContinueControl, FailControl
<1>3. store' \in Stores
  <2>1. store \in Stores /\ name \in Slices /\ i \in 0..SHRT_MAX
    BY DEF IInv, TypeOK
  <2>2. RTrim(from, i) \in 0..SHRT_MAX
    BY <2>1, RTrimRange, Widths
  <2>3. Slice(from, RTrim(from, i)) \in Slices
    BY <2>1, <2>2, SliceOfOffsets, Widths
  <2> DEFINE header == http_header_lookup(stream, name.start)
             value  == Slice(from, RTrim(from, i))
  <2>4. ~Spills(store, header) => header \in KnownHeaders
    BY LookupType DEF Spills
  <2>5. \/ store' = store
        \/ ~Spills(store, header) /\ store' = SetSlot(store, header, value)
        \/ store' = xheaders_insert(store, name, value)
    BY DEF ValueByte, StoreHeader
  <2> HIDE DEF header, value
  <2>6. value \in Slices
    BY <2>3 DEF value
  <2> QED
    BY <2>1, <2>4, <2>5, <2>6, StoreUpdates
<1> QED
  BY <1>2, <1>3

\* STATE_COLON keeps the invariant,
LEMMA ColonIInv == IInv /\ ParseColon => IInv'
<1> SUFFICES ASSUME IInv, ParseColon PROVE IInv'
  OBVIOUS
<1>1. pc = "loop" /\ BytesLeft /\ UNCHANGED <<args, method, name, line, Outside>>
  BY DEF ParseColon, Reading, Outside
<1>2. CASE Continue("COLON") /\ UNCHANGED <<cursor, store>>
  BY <1>1, <1>2, ContinueControl, StateNames, IterationIInv
  DEF IInv, TypeOK, WithinInput
<1>3. CASE cursor' = i /\ ValueByte(i)
  <2>1. i \in 0..i /\ i \in 0..SHRT_MAX
    BY DEF IInv, TypeOK
  <2> QED
    BY <1>1, <1>3, <2>1, ValueByteOK, IterationIInv DEF IInv, TypeOK
<1> QED
  BY <1>2, <1>3 DEF ParseColon

\* and so does STATE_VALUE.
LEMMA ValueIInv == IInv /\ ParseValue => IInv'
<1> SUFFICES ASSUME IInv, ParseValue PROVE IInv'
  OBVIOUS
<1>1. /\ pc = "loop" /\ BytesLeft /\ ValueByte(cursor)
      /\ UNCHANGED <<args, cursor, method, name, line, Outside>>
  BY DEF ParseValue, Reading, Outside
<1>2. cursor \in 0..i
  BY DEF IInv, TypeOK, WithinInput
<1> QED
  BY <1>1, <1>2, ValueByteOK, IterationIInv DEF IInv, TypeOK, WithinInput

\* The caller's steps, and the loop's end, keep the invariant.
LEMMA CallerIInv ==
  ASSUME IInv,
         \/ ReturnUsedUp
         \/ \E capacity \in Capacities : Call(capacity)
         \/ \E n \in Chunks : Receive(n)
         \/ Free
         \/ \E t \in Types, s \in Streams : MsgInit(t, s)
  PROVE  IInv'
<1>1. CASE ReturnUsedUp
  <2>1. TypeOK'
    BY <1>1, Widths DEF ReturnUsedUp, peer, parser, IInv, TypeOK, Failures
  <2> QED
    BY <1>1, <2>1 DEF ReturnUsedUp, peer, parser, IInv, WithinInput
<1>2. ASSUME NEW capacity \in Capacities, Call(capacity) PROVE IInv'
  <2>1. received \in Nat /\ capacity \in Nat
    BY CallerAssumption DEF IInv, TypeOK
  <2>2. \A n \in Nat : Clamp(n) \in 0..SHRT_MAX /\ Clamp(n) <= n
    BY Widths DEF Clamp
  <2>3. args' \in Args
    <3>1. [size |-> Clamp(received), capacity |-> Clamp(capacity)] \in Args
      BY <2>1, <2>2 DEF Args
    <3> QED
      BY <1>2, <3>1 DEF Call, IInv, TypeOK
  <2>4. TypeOK'
    BY <1>2, <2>3, Widths DEF Call, peer, parser, IInv, TypeOK, Failures
  <2>5. i <= args.size /\ args.size <= received /\ i <= SHRT_MAX
    BY DEF IInv, TypeOK, WithinInput
  <2>6. i <= args'.size /\ args'.size <= received
    BY <1>2, <2>1, <2>2, <2>5, Widths DEF Call, Clamp, IInv, TypeOK, Args
  <2> QED
    BY <1>2, <2>4, <2>6 DEF Call, peer, parser, IInv, WithinInput
<1>3. ASSUME NEW n \in Chunks, Receive(n) PROVE IInv'
  <2>1. n \in Nat /\ received \in Nat
    BY CallerAssumption DEF IInv, TypeOK
  <2>2. received' \in 0..Len(stream) /\ received <= received'
    BY <1>3, <2>1 DEF Receive, IInv, TypeOK
  <2>3. TypeOK'
    BY <1>3, <2>2 DEF Receive, parser, IInv, TypeOK
  <2>4. args.size \in Nat
    BY DEF IInv, TypeOK, Args
  <2> QED
    BY <1>3, <2>1, <2>2, <2>3, <2>4 DEF Receive, parser, IInv, TypeOK, WithinInput
<1>4. CASE Free
  <2>1. store' \in Stores
    BY <1>4, StoreUpdates, NoSliceType DEF Free, IInv, TypeOK
  <2>2. TypeOK'
    BY <1>4, <2>1 DEF Free, peer, IInv, TypeOK
  <2> QED
    BY <1>4, <2>2 DEF Free, peer, IInv, WithinInput
<1>5. ASSUME NEW t \in Types, NEW s \in Streams, MsgInit(t, s) PROVE IInv'
  <2>1. line' \in Lines /\ name' \in Slices
    BY <1>5, NoSliceType, Widths DEF MsgInit, NoLine, Lines
  <2>2. store' \in Stores
    BY <1>5, NoSliceType DEF MsgInit, EmptyStore, Stores
  <2>3. s \in Seq(Byte)
    BY StreamsAssumption
  <2>4. TypeOK'
    BY <1>5, <2>1, <2>2, <2>3, Widths
    DEF MsgInit, TypeOK, States, Args, HTTP_METHOD_MAX_STRLEN
  <2> QED
    BY <1>5, <2>4 DEF MsgInit, IInv, WithinInput
<1> QED
  BY <1>1, <1>2, <1>3, <1>4, <1>5

\* Every step keeps the invariant.
LEMMA NextIInv == IInv /\ [Next]_vars => IInv'
<1> SUFFICES ASSUME IInv, [Next]_vars PROVE IInv'
  OBVIOUS
<1>1. CASE ParseByte
  BY <1>1, StartIInv, MethodIInv, UriIInv, VersionIInv, StatusIInv,
     MessageIInv, NameAndEndIInv, ColonIInv, ValueIInv DEF ParseByte
<1>2. CASE Next /\ ~ParseByte
  BY <1>2, CallerIInv DEF Next, MessageNext
<1>3. CASE UNCHANGED vars
  BY <1>3 DEF vars, peer, parser, IInv, TypeOK, WithinInput
<1> QED
  BY <1>1, <1>2, <1>3

\* In every state that http_msg_parse and its caller reach, for any table of
\* headers, any streams and any cutting of them into arrivals and calls, each
\* variable has its type: the method buffer keeps its NUL, and the index and
\* the cursor stay below SHRT_MAX.
THEOREM TypeCorrect == Spec => []TypeOK
<1>1. Spec => []IInv
  BY InitIInv, NextIInv, PTL DEF Spec
<1>2. IInv => TypeOK
  BY DEF IInv
<1> QED
  BY <1>1, <1>2, PTL

\* The loop never reads past the bytes of its call, nor the cursor past the
\* loop's index.
THEOREM StaysWithinInput == Spec => []WithinInput
<1>1. Spec => []IInv
  BY InitIInv, NextIInv, PTL DEF Spec
<1>2. IInv => WithinInput
  BY DEF IInv
<1> QED
  BY <1>1, <1>2, PTL

-----------------------------------------------------------------------------
(***************************************************************************)
(* Proofs about what the parser records in struct http_message: where the  *)
(* recorded slices lie, what bytes they delimit, that they are not         *)
(* rewritten, and that the header list fits its allocation.                *)
(***************************************************************************)

\* The parser's invariant is there to be used in every step.
LEMMA ReachableIInv == Spec => []IInv
  BY InitIInv, NextIInv, PTL DEF Spec

\* How each iteration moves the index
LEMMA ByteMovesIndex ==
  ASSUME IInv, ParseByte
  PROVE  /\ i' \in {i, i + 1}
         /\ UNCHANGED <<stream, received, type, args>>
  BY DEF ParseByte, ParseStart, ParseMethod, ParseUri, ParseVersion,
     ParseStatus, ParseMessage, ParseCr, ParseLf1, ParseName, ParseColon,
     ParseValue, ParseLf2, InsertMethodChar, AppendToStatus, ValueByte,
     StoreHeader, Continue, Fail, Succeed, Outside, peer

-----------------------------------------------------------------------------
(* The list of further headers *)

\* The iterations that store a header, and all others
LEMMA StoreSteps ==
  ASSUME ParseByte
  PROVE  \/ UNCHANGED store
         \/ \E h \in KnownHeaders : \E v :
              store' = SetSlot(store, h, v) /\ ~Spills(store, h)
         \/ \E n, v : store' = xheaders_insert(store, n, v)
<1>1. \/ UNCHANGED store
      \/ \E from : StoreHeader(from)
  BY DEF ParseByte, ParseStart, ParseMethod, ParseUri, ParseVersion,
     ParseStatus, ParseMessage, ParseCr, ParseLf1, ParseName, ParseColon,
     ParseValue, ParseLf2, ValueByte
<1>2. ASSUME NEW from, StoreHeader(from)
      PROVE  \/ UNCHANGED store
             \/ \E h \in KnownHeaders : \E v :
                  store' = SetSlot(store, h, v) /\ ~Spills(store, h)
             \/ \E n, v : store' = xheaders_insert(store, n, v)
  <2> DEFINE header == http_header_lookup(stream, name.start)
  <2>1. ~Spills(store, header) => header \in KnownHeaders
    BY LookupType DEF Spills
  <2> QED
    BY <1>2, <2>1 DEF StoreHeader
<1> QED
  BY <1>1, <1>2

\* A message begins with no list and no allocation.
LEMMA InitList == Init => ListFitsAllocation
  BY DEF Init, ListFitsAllocation, EmptyStore

\* Every step, a failed allocation included, keeps the list in its allocation.
LEMMA NextList == IInv /\ ListFitsAllocation /\ [Next]_vars => ListFitsAllocation'
<1> SUFFICES ASSUME IInv, ListFitsAllocation, [Next]_vars
             PROVE  ListFitsAllocation'
  OBVIOUS
<1>0. /\ store \in Stores /\ store.cap \in Nat /\ Len(store.x) \in Nat
      /\ store.buf \in BOOLEAN
  BY DEF IInv, TypeOK, Stores
<1>1. CASE ParseByte
  <2>1. pc # "freed" /\ pc' # "freed"
    BY <1>1 DEF ParseByte, ParseStart, ParseMethod, ParseUri, ParseVersion,
       ParseStatus, ParseMessage, ParseCr, ParseLf1, ParseName, ParseColon,
       ParseValue, ParseLf2, InsertMethodChar, AppendToStatus, ValueByte,
       StoreHeader, Continue, Fail, Succeed, Reading
  <2>2. CASE UNCHANGED store
    BY <2>1, <2>2 DEF ListFitsAllocation
  <2>3. ASSUME NEW h \in KnownHeaders, NEW v, store' = SetSlot(store, h, v)
        PROVE  ListFitsAllocation'
    <3>1. /\ store'.x = store.x /\ store'.cap = store.cap
          /\ store'.buf = store.buf
      BY <1>0, <2>3 DEF SetSlot, Stores
    <3> QED
      BY <2>1, <3>1 DEF ListFitsAllocation
  <2>4. ASSUME NEW n, NEW v, store' = xheaders_insert(store, n, v)
        PROVE  ListFitsAllocation'
    <3>1. /\ store'.x = Append(store.x, [name |-> n, value |-> v])
          /\ store'.cap = IF MustGrow(store) THEN Grown(store.cap) ELSE store.cap
          /\ store'.buf = (store.buf \/ MustGrow(store))
      BY <1>0, <2>4 DEF xheaders_insert, Stores
    <3>2. Len(store'.x) = Len(store.x) + 1
      BY <1>0, <3>1 DEF Stores
    <3>3. /\ Len(store.x) <= store.cap
          /\ store.buf <=> store.cap > 0
          /\ store.cap > 0 => store.cap < 2 * Len(store.x)
      BY <2>1 DEF ListFitsAllocation
    <3>4. CASE MustGrow(store)
      <4>1. store'.cap = Grown(store.cap) /\ store'.buf
        BY <3>1, <3>4
      <4>2. Len(store.x) = store.cap
        BY <3>4 DEF MustGrow
      <4>3. /\ Len(store'.x) <= store'.cap
            /\ store'.cap > 0 /\ store'.cap < 2 * Len(store'.x)
        BY <1>0, <3>2, <4>1, <4>2 DEF Grown
      <4> QED
        BY <4>1, <4>3 DEF ListFitsAllocation
    <3>5. CASE ~MustGrow(store)
      <4>1. store'.cap = store.cap /\ store'.buf = store.buf
        BY <1>0, <3>1, <3>5
      <4>2. Len(store.x) < store.cap
        BY <1>0, <3>3, <3>5 DEF MustGrow
      <4>3. /\ Len(store'.x) <= store'.cap
            /\ store'.cap > 0 /\ store'.cap < 2 * Len(store'.x)
        BY <1>0, <3>2, <3>3, <4>1, <4>2
      <4>4. store'.buf
        BY <3>3, <4>1, <4>3
      <4> QED
        BY <4>3, <4>4 DEF ListFitsAllocation
    <3> QED
      BY <3>4, <3>5
  <2> QED
    BY <1>1, <2>2, <2>3, <2>4, StoreSteps
<1>2. CASE Free
  <2>1. pc' = "freed" /\ store' = Freed(store)
    BY <1>2 DEF Free
  <2>2. Len(store'.x) <= store'.cap
    BY <1>0, <2>1 DEF Freed, ListFitsAllocation, Stores
  <2> QED
    BY <2>1, <2>2 DEF ListFitsAllocation
<1>3. ASSUME NEW t \in Types, NEW s \in Streams, MsgInit(t, s)
      PROVE  ListFitsAllocation'
  BY <1>3 DEF MsgInit, ListFitsAllocation, EmptyStore
<1>4. CASE \/ ReturnUsedUp
           \/ \E capacity \in Capacities : Call(capacity)
           \/ \E n \in Chunks : Receive(n)
           \/ UNCHANGED vars
  <2>1. UNCHANGED store /\ (pc' # "freed" => pc # "freed")
    BY <1>4 DEF ReturnUsedUp, Call, MayCall, Receive, vars, parser
  <2> QED
    BY <2>1 DEF ListFitsAllocation
<1> QED
  BY <1>1, <1>2, <1>3, <1>4 DEF Next, MessageNext

\* Whatever headers arrive, and whichever allocations fail and are made again,
\* no entry is written past xheaders.capacity or without an allocation, and
\* doubling leaves less than half of it unused.
THEOREM HeaderListFits == Spec => []ListFitsAllocation
<1>1. Init => ListFitsAllocation
  BY InitList
<1>2. IInv /\ ListFitsAllocation /\ [Next]_vars => ListFitsAllocation'
  BY NextList
<1> QED
  BY <1>1, <1>2, ReachableIInv, PTL DEF Spec

-----------------------------------------------------------------------------
(* Where the slices lie *)

\* The name being parsed lies before the index, its colon before the value.
NameInOrder ==
  /\ state = "NAME"  => name.start < i
  /\ state = "COLON" => name.start < name.end /\ name.end < i
  /\ state = "VALUE" => name.start < name.end /\ name.end < cursor

LineOrdered ==
  /\ Ordered(line.uri)
  /\ Ordered(line.message)
  /\ line.uri # NoSlice => line.uri.start < line.uri.end

StoreOrdered ==
  /\ \A h \in KnownHeaders : Ordered(store.std[h])
  /\ \A k \in 1..Len(store.x) :
       /\ store.x[k].name.start < store.x[k].name.end
       /\ store.x[k].name.end < store.x[k].value.start
       /\ Ordered(store.x[k].value)

SlicesInv == NameInOrder /\ LineOrdered /\ StoreOrdered

\* Facts of the types that the steps below use
LEMMA FieldTypes ==
  ASSUME IInv
  PROVE  /\ i \in 0..SHRT_MAX /\ cursor \in 0..SHRT_MAX /\ cursor <= i
         /\ i \in Nat /\ cursor \in Nat /\ SHRT_MAX \in Nat
         /\ name.start \in Nat /\ name.end \in Nat /\ name \in Slices
         /\ line \in Lines /\ line.uri.end \in Nat /\ line.message.end \in Nat
         /\ store \in Stores
         /\ \A h \in KnownHeaders : store.std[h].end \in Nat
         /\ \A k \in 1..Len(store.x) : store.x[k].value.end \in Nat
<1>1. \A s \in Slices : s.start \in Nat /\ s.end \in Nat
  BY Widths DEF Slices
<1>2. \A h \in KnownHeaders : store.std[h] \in Slices
  BY DEF IInv, TypeOK, Stores
<1>3. \A k \in 1..Len(store.x) : store.x[k].value \in Slices
  <2>1. store.x \in Seq(Entries)
    BY DEF IInv, TypeOK, Stores
  <2>2. \A k \in 1..Len(store.x) : store.x[k] \in Entries
    BY <2>1
  <2> QED
    BY <2>2 DEF Entries
<1>4. line.uri \in Slices /\ line.message \in Slices /\ name \in Slices
  BY DEF IInv, TypeOK, Lines
<1>5. /\ i \in 0..SHRT_MAX /\ cursor \in 0..SHRT_MAX /\ cursor <= i
      /\ line \in Lines /\ store \in Stores
  BY DEF IInv, TypeOK, WithinInput
<1>6. i \in Nat /\ cursor \in Nat /\ SHRT_MAX \in Nat
  BY <1>5, Widths
<1>7. \A h \in KnownHeaders : store.std[h].end \in Nat
  BY <1>1, <1>2
<1>8. \A k \in 1..Len(store.x) : store.x[k].value.end \in Nat
  BY <1>1, <1>3
<1>9. /\ name.start \in Nat /\ name.end \in Nat
      /\ line.uri.end \in Nat /\ line.message.end \in Nat
  BY <1>1, <1>4
<1> QED
  BY <1>4, <1>5, <1>6, <1>7, <1>8, <1>9

\* Moving on, without writing a slice of the first line, keeps them in order,
LEMMA LineStaysOrdered ==
  ASSUME IInv, LineOrdered, i' \in Nat, i <= i',
         line'.uri = line.uri, line'.message = line.message
  PROVE  LineOrdered'
  BY FieldTypes DEF LineOrdered, Ordered

\* What is in the header store stays in order when the index moves on,
LEMMA StoredBefore ==
  ASSUME IInv, StoreOrdered, i' \in Nat, i <= i'
  PROVE  /\ \A h \in KnownHeaders : /\ store.std[h].start <= store.std[h].end
                                   /\ store.std[h].end <= i'
         /\ \A k \in 1..Len(store.x) :
              /\ store.x[k].name.start < store.x[k].name.end
              /\ store.x[k].name.end < store.x[k].value.start
              /\ store.x[k].value.start <= store.x[k].value.end
              /\ store.x[k].value.end <= i'
<1>1. \A n \in Nat : n <= i => n <= i'
  BY FieldTypes
<1>2. ASSUME NEW h \in KnownHeaders
      PROVE  store.std[h].start <= store.std[h].end /\ store.std[h].end <= i'
  <2>1. store.std[h].start <= store.std[h].end /\ store.std[h].end <= i
    BY <1>2 DEF StoreOrdered, Ordered
  <2>2. store.std[h].end \in Nat
    BY <1>2, FieldTypes
  <2> QED
    BY <1>1, <2>1, <2>2
<1>3. ASSUME NEW k \in 1..Len(store.x)
      PROVE  /\ store.x[k].name.start < store.x[k].name.end
             /\ store.x[k].name.end < store.x[k].value.start
             /\ store.x[k].value.start <= store.x[k].value.end
             /\ store.x[k].value.end <= i'
  <2>1. /\ store.x[k].name.start < store.x[k].name.end
        /\ store.x[k].name.end < store.x[k].value.start
        /\ store.x[k].value.start <= store.x[k].value.end
        /\ store.x[k].value.end <= i
    BY <1>3 DEF StoreOrdered, Ordered
  <2>2. store.x[k].value.end \in Nat
    BY <1>3, FieldTypes
  <2> QED
    BY <1>1, <2>1, <2>2
<1> QED
  BY <1>2, <1>3

\* and so, if nothing is added to it, it stays in order.
LEMMA StoreStaysOrdered ==
  ASSUME IInv, StoreOrdered, i' \in Nat, i <= i', UNCHANGED store
  PROVE  StoreOrdered'
  BY StoredBefore DEF StoreOrdered, Ordered

\* The iterations before the headers: of these, ParseUri and ParseMessage
\* record a slice from the cursor up to the index.
LEMMA LineSlices ==
  ASSUME IInv, LineOrdered,
         \/ ParseStart \/ ParseMethod \/ ParseUri \/ ParseVersion
         \/ ParseStatus \/ ParseMessage
  PROVE  LineOrdered'
<1>1. ParseByte
  BY DEF ParseByte
<1>2. i' \in Nat /\ i <= i'
  BY <1>1, ByteMovesIndex, FieldTypes
<1>3. CASE line'.uri = line.uri /\ line'.message = line.message
  BY <1>2, <1>3, LineStaysOrdered
<1>4. CASE ParseUri /\ line'.uri = Slice(cursor, i) /\ i # cursor
           /\ line'.message = line.message
  <2>1. line'.uri = [start |-> cursor, end |-> i]
    BY <1>4, FieldTypes, SliceOfOffsets
  <2> QED
    BY <1>2, <1>4, <2>1, FieldTypes DEF LineOrdered, Ordered
<1>5. CASE line'.message = Slice(cursor, i) /\ line'.uri = line.uri
  <2>1. line'.message = [start |-> cursor, end |-> i]
    BY <1>5, FieldTypes, SliceOfOffsets
  <2> QED
    BY <1>2, <1>5, <2>1, FieldTypes DEF LineOrdered, Ordered
<1>6. CASE ParseStart \/ ParseMethod \/ ParseVersion \/ ParseStatus
  <2>1. line'.uri = line.uri /\ line'.message = line.message
    BY <1>6, FieldTypes
    DEF ParseStart, ParseMethod, ParseVersion, ParseStatus, AppendToStatus, Lines
  <2> QED
    BY <1>3, <2>1
<1>7. CASE ParseUri
  <2>1. \/ UNCHANGED line
        \/ /\ line'.uri = Slice(cursor, i) /\ i # cursor
           /\ line'.message = line.message
    BY <1>7, FieldTypes DEF ParseUri, Lines
  <2> QED
    BY <1>3, <1>4, <1>7, <2>1
<1>8. CASE ParseMessage
  <2>1. \/ UNCHANGED line
        \/ line'.message = Slice(cursor, i) /\ line'.uri = line.uri
    BY <1>8, FieldTypes DEF ParseMessage, Lines
  <2> QED
    BY <1>3, <1>5, <2>1
<1> QED
  BY <1>6, <1>7, <1>8

\* A header line that is stored has its name before from and its value in
\* from..i.
LEMMA StoredSlices ==
  ASSUME IInv, StoreOrdered, NEW from \in 0..i,
         name.start < name.end, name.end < from,
         ValueByte(from), i' \in Nat, i <= i'
  PROVE  StoreOrdered'
<1>1. RTrim(from, i) \in from..i
  BY FieldTypes, RTrimRange
<1>2. PICK value : /\ value = Slice(from, RTrim(from, i))
                   /\ value = [start |-> from, end |-> RTrim(from, i)]
  BY <1>1, FieldTypes, SliceOfOffsets
<1>3. /\ from = value.start /\ value.start <= value.end /\ value.end <= i'
      /\ name.end < value.start
  BY <1>1, <1>2, FieldTypes
<1>4. \/ UNCHANGED store
      \/ \E h \in KnownHeaders : store' = SetSlot(store, h, value)
      \/ store' = xheaders_insert(store, name, value)
  <2>1. \A h : ~Spills(store, h) /\ h \in KnownHeaders \cup {UNKNOWN}
                 => h \in KnownHeaders
    BY DEF Spills
  <2> QED
    BY <1>2, <2>1, LookupType DEF ValueByte, StoreHeader
<1>5. CASE UNCHANGED store
  BY <1>5, StoreStaysOrdered
<1>6. ASSUME NEW h \in KnownHeaders, store' = SetSlot(store, h, value)
      PROVE  StoreOrdered'
  <2>1. store'.x = store.x /\ store'.std = [store.std EXCEPT ![h] = value]
    BY <1>6, FieldTypes DEF SetSlot, Stores
  <2>2. store.std \in [KnownHeaders -> Slices]
    BY FieldTypes DEF Stores
  <2>3. ASSUME NEW k \in KnownHeaders PROVE Ordered(store.std[k])'
    <3>1. store'.std[k] = value \/ store'.std[k] = store.std[k]
      BY <2>1, <2>2
    <3> QED
      BY <1>3, <3>1, StoredBefore DEF Ordered
  <2>4. ASSUME NEW k \in 1..Len(store.x)
        PROVE  /\ store.x[k].name.start < store.x[k].name.end
               /\ store.x[k].name.end < store.x[k].value.start
               /\ store.x[k].value.start <= store.x[k].value.end
               /\ store.x[k].value.end <= i'
    BY StoredBefore
  <2> QED
    BY <2>1, <2>3, <2>4 DEF StoreOrdered, Ordered
<1>7. CASE store' = xheaders_insert(store, name, value)
  <2>1. /\ store'.x = Append(store.x, [name |-> name, value |-> value])
        /\ store'.std = store.std
    BY <1>7, FieldTypes DEF xheaders_insert, Stores
  <2>2. store.x \in Seq(Entries)
    BY FieldTypes DEF Stores
  <2>3. /\ Len(store'.x) = Len(store.x) + 1 /\ Len(store.x) \in Nat
        /\ \A k \in 1..Len(store.x) : store'.x[k] = store.x[k]
        /\ store'.x[Len(store.x) + 1] = [name |-> name, value |-> value]
    BY <2>1, <2>2
  <2>4. \A h \in KnownHeaders : Ordered(store.std[h])'
    BY <2>1, StoredBefore DEF Ordered
  <2>5. ASSUME NEW k \in 1..Len(store'.x)
        PROVE  /\ store'.x[k].name.start < store'.x[k].name.end
               /\ store'.x[k].name.end < store'.x[k].value.start
               /\ store'.x[k].value.start <= store'.x[k].value.end
               /\ store'.x[k].value.end <= i'
    <3>1. CASE k \in 1..Len(store.x)
      <4>1. store'.x[k] = store.x[k]
        BY <2>3, <3>1
      <4> QED
        BY <3>1, <4>1, StoredBefore
    <3>2. CASE k = Len(store.x) + 1
      <4>1. store'.x[k] = [name |-> name, value |-> value]
        BY <2>3, <3>2
      <4> QED
        BY <1>3, <4>1
    <3>3. k \in 1..(Len(store.x) + 1)
      BY <2>3
    <3>4. k \in 1..Len(store.x) \/ k = Len(store.x) + 1
      BY <2>3, <3>3
    <3> QED
      BY <3>1, <3>2, <3>4
  <2> QED
    BY <2>4, <2>5 DEF StoreOrdered, Ordered
<1> QED
  BY <1>4, <1>5, <1>6, <1>7

\* The iterations that store no header
LEMMA ByteStaysOrdered ==
  ASSUME IInv, SlicesInv, ParseByte, ~ParseColon, ~ParseValue
  PROVE  SlicesInv'
<1>1. i' \in Nat /\ i <= i'
  BY ByteMovesIndex, FieldTypes
<1>2. StoreOrdered'
  <2>1. UNCHANGED store
    BY DEF ParseByte, ParseStart, ParseMethod, ParseUri, ParseVersion,
       ParseStatus, ParseMessage, ParseCr, ParseLf1, ParseName, ParseLf2
  <2> QED
    BY <1>1, <2>1, StoreStaysOrdered DEF SlicesInv
<1>3. CASE \/ ParseStart \/ ParseMethod \/ ParseUri \/ ParseVersion
           \/ ParseStatus \/ ParseMessage
  <2>1. state' \notin {"NAME", "COLON", "VALUE"}
    BY <1>3 DEF ParseStart, ParseMethod, ParseUri, ParseVersion, ParseStatus,
       ParseMessage, InsertMethodChar, AppendToStatus, Continue, Fail, EndOfLine
  <2> QED
    BY <1>2, <1>3, <2>1, LineSlices DEF SlicesInv, NameInOrder
<1>4. CASE ParseCr \/ ParseLf1 \/ ParseName \/ ParseLf2
  <2>1. LineOrdered'
    <3>1. UNCHANGED line
      BY <1>4 DEF ParseCr, ParseLf1, ParseName, ParseLf2
    <3> QED
      BY <1>1, <3>1, LineStaysOrdered DEF SlicesInv
  <2>2. NameInOrder'
    <3>1. U16(i) = i
      BY FieldTypes, U16OfOffset
    <3>2. CASE ParseCr \/ ParseLf2
      <4>1. state' \notin {"NAME", "COLON", "VALUE"}
        BY <3>2 DEF ParseCr, ParseLf2, Reading, Continue, Fail, Succeed
      <4> QED
        BY <4>1 DEF NameInOrder
    <3>3. CASE ParseLf1
      <4>1. \/ state' \notin {"NAME", "COLON", "VALUE"}
            \/ /\ state' = "NAME" /\ i' = i + 1
               /\ name' = [name EXCEPT !.start = i]
        BY <3>1, <3>3 DEF ParseLf1, Reading, Continue, Fail, Succeed
      <4> QED
        BY <4>1, FieldTypes DEF NameInOrder, Slices
    <3>4. CASE ParseName
      <4>1. /\ state = "NAME" /\ name.start < i
            /\ \/ state' = "NAME" /\ i' \in {i, i + 1} /\ name' = name
               \/ /\ state' = "COLON" /\ i' = i + 1
                  /\ name' = [name EXCEPT !.end = i]
        BY <3>1, <3>4 DEF ParseName, Reading, Continue, Fail, SlicesInv, NameInOrder
      <4> QED
        BY <4>1, FieldTypes DEF NameInOrder, Slices
    <3> QED
      BY <1>4, <3>2, <3>3, <3>4
  <2> QED
    BY <1>2, <2>1, <2>2 DEF SlicesInv
<1> QED
  BY <1>3, <1>4 DEF ParseByte

\* The iterations of a header's value
LEMMA ValueStaysOrdered ==
  ASSUME IInv, SlicesInv, ParseColon \/ ParseValue
  PROVE  SlicesInv'
<1>1. i' \in Nat /\ i <= i' /\ UNCHANGED line
  BY ByteMovesIndex, FieldTypes DEF ParseByte, ParseColon, ParseValue
<1>2. LineOrdered'
  BY <1>1, LineStaysOrdered DEF SlicesInv
<1>3. CASE Continue("COLON") /\ UNCHANGED <<cursor, store, name>> /\ state = "COLON"
  <2>1. StoreOrdered'
    BY <1>1, <1>3, StoreStaysOrdered DEF SlicesInv
  <2>2. NameInOrder'
    BY <1>3, FieldTypes DEF SlicesInv, NameInOrder, Continue
  <2> QED
    BY <1>2, <2>1, <2>2 DEF SlicesInv
<1>4. ASSUME NEW from \in 0..i, ValueByte(from), cursor' = from,
             name' = name, name.start < name.end, name.end < from
      PROVE  SlicesInv'
  <2>1. StoreOrdered'
    BY <1>1, <1>4, StoredSlices DEF SlicesInv
  <2>2. state' \notin {"NAME", "COLON"}
    BY <1>4 DEF ValueByte, StoreHeader, Continue, Fail, EndOfLine
  <2>3. NameInOrder'
    BY <1>4, <2>2 DEF NameInOrder
  <2> QED
    BY <1>2, <2>1, <2>3 DEF SlicesInv
<1>5. CASE ParseColon
  <2>1. /\ state = "COLON" /\ name' = name
        /\ name.start < name.end /\ name.end < i /\ i \in 0..i
    BY <1>5, FieldTypes DEF ParseColon, Reading, SlicesInv, NameInOrder
  <2>2. CASE Continue("COLON") /\ UNCHANGED <<cursor, store>>
    BY <1>3, <2>1, <2>2
  <2>3. CASE cursor' = i /\ ValueByte(i)
    BY <1>4, <2>1, <2>3
  <2> QED
    BY <1>5, <2>2, <2>3 DEF ParseColon
<1>6. CASE ParseValue
  <2>1. /\ state = "VALUE" /\ name' = name /\ cursor' = cursor
        /\ ValueByte(cursor)
        /\ name.start < name.end /\ name.end < cursor /\ cursor \in 0..i
    BY <1>6, FieldTypes DEF ParseValue, Reading, SlicesInv, NameInOrder
  <2> QED
    BY <1>4, <2>1
<1> QED
  BY <1>5, <1>6

\* Every slice is empty at first.
LEMMA InitSlices == Init => SlicesInv
  BY DEF Init, SlicesInv, NameInOrder, LineOrdered, StoreOrdered, Ordered,
     NoLine, NoSlice, EmptyStore

\* Every step keeps the slices in order.
LEMMA NextSlices == IInv /\ SlicesInv /\ [Next]_vars => SlicesInv'
<1> SUFFICES ASSUME IInv, SlicesInv, [Next]_vars PROVE SlicesInv'
  OBVIOUS
<1>1. CASE ParseByte
  BY <1>1, ByteStaysOrdered, ValueStaysOrdered
<1>2. CASE UNCHANGED <<parser>>
  BY <1>2 DEF parser, SlicesInv, NameInOrder, LineOrdered, StoreOrdered, Ordered
<1>3. CASE Free
  <2>1. /\ UNCHANGED <<state, i, cursor, name, line>>
        /\ store'.std = store.std
        /\ store'.x = store.x \/ store'.x = <<>>
    BY <1>3, FieldTypes DEF Free, Freed, Stores
  <2> QED
    BY <2>1 DEF SlicesInv, NameInOrder, LineOrdered, StoreOrdered, Ordered
<1>4. ASSUME NEW t, NEW s, MsgInit(t, s) PROVE SlicesInv'
  BY <1>4 DEF MsgInit, SlicesInv, NameInOrder, LineOrdered, StoreOrdered,
     Ordered, NoLine, NoSlice, EmptyStore
<1> QED
  BY <1>1, <1>2, <1>3, <1>4
  DEF Next, MessageNext, ReturnUsedUp, Call, Receive, vars

\* Every slice that is recorded is an interval of the bytes already parsed; a
\* name in the list is not empty, and its value begins behind its colon.
THEOREM SlicesStayInInput == Spec => []SlicesInInput
<1>1. Spec => []SlicesInv
  BY InitSlices, NextSlices, ReachableIInv, PTL DEF Spec
<1>2. SlicesInv => SlicesInInput
  BY DEF SlicesInv, LineOrdered, StoreOrdered, SlicesInInput
<1> QED
  BY <1>1, <1>2, PTL

-----------------------------------------------------------------------------
(* What has been recorded is not rewritten *)

\* Before its line has been read to the end, a slice is still zero.
NotYetRecorded ==
  /\ state \in {"START", "METHOD", "URI"} => line.uri = NoSlice
  /\ state \in {"START", "METHOD", "URI", "VERSION", "STATUS", "MESSAGE"}
       => line.message = NoSlice

\* Nothing is recorded at first.
LEMMA InitNotYet == Init => NotYetRecorded
  BY DEF Init, NotYetRecorded, NoLine

\* The URI and the reason are not recorded before their states are left.
LEMMA NextNotYet == IInv /\ NotYetRecorded /\ [Next]_vars => NotYetRecorded'
<1> SUFFICES ASSUME IInv, NotYetRecorded, [Next]_vars PROVE NotYetRecorded'
  OBVIOUS
<1>1. CASE ParseStart \/ ParseMethod
  BY <1>1 DEF ParseStart, ParseMethod, Reading, NotYetRecorded,
     InsertMethodChar, Continue, Fail
<1>2. CASE ParseUri
  BY <1>2, FieldTypes DEF ParseUri, Reading, NotYetRecorded, Lines, Continue,
     Fail, EndOfLine
<1>3. CASE ParseVersion \/ ParseStatus
  BY <1>3, FieldTypes DEF ParseVersion, ParseStatus, AppendToStatus, Reading,
     NotYetRecorded, Lines, Continue, Fail, EndOfLine
<1>4. CASE ParseMessage
  BY <1>4 DEF ParseMessage, Reading, NotYetRecorded, Continue, Fail, EndOfLine
<1>5. CASE \/ ParseCr \/ ParseLf1 \/ ParseName \/ ParseColon \/ ParseValue
           \/ ParseLf2
  <2>1. state' \in {"CR", "LF1", "LF2", "NAME", "COLON", "VALUE"}
    BY <1>5 DEF ParseCr, ParseLf1, ParseName, ParseColon, ParseValue, ParseLf2,
       ValueByte, StoreHeader, Reading, Continue, Fail, Succeed, EndOfLine
  <2> QED
    BY <2>1 DEF NotYetRecorded
<1>6. CASE UNCHANGED <<state, line>>
  BY <1>6 DEF NotYetRecorded
<1>7. ASSUME NEW t, NEW s, MsgInit(t, s) PROVE NotYetRecorded'
  BY <1>7 DEF MsgInit, NotYetRecorded, NoLine
<1> QED
  BY <1>1, <1>2, <1>3, <1>4, <1>5, <1>6, <1>7
  DEF Next, MessageNext, ParseByte, ReturnUsedUp, Call, Receive, Free, vars, parser

\* No iteration rewrites a field of the first line that is recorded.
LEMMA KeptLine ==
  ASSUME IInv, NotYetRecorded, ParseByte
  PROVE  /\ line.uri # NoSlice => line'.uri = line.uri
         /\ line.message # NoSlice => line'.message = line.message
         /\ state \notin {"START", "METHOD"} => method' = method
         /\ state \notin {"START", "METHOD", "URI", "VERSION", "STATUS"} =>
              line'.version = line.version /\ line'.status = line.status
<1>1. CASE ParseStart \/ ParseMethod
  BY <1>1 DEF ParseStart, ParseMethod, Reading
<1>2. CASE ParseUri
  BY <1>2, FieldTypes DEF ParseUri, Reading, NotYetRecorded, Lines
<1>3. CASE ParseVersion \/ ParseStatus
  BY <1>3, FieldTypes DEF ParseVersion, ParseStatus, AppendToStatus, Reading, Lines
<1>4. CASE ParseMessage
  BY <1>4, FieldTypes DEF ParseMessage, Reading, NotYetRecorded, Lines
<1>5. CASE \/ ParseCr \/ ParseLf1 \/ ParseName \/ ParseColon \/ ParseValue
           \/ ParseLf2
  BY <1>5 DEF ParseCr, ParseLf1, ParseName, ParseColon, ParseValue, ParseLf2
<1> QED
  BY <1>1, <1>2, <1>3, <1>4, <1>5 DEF ParseByte

\* No iteration rewrites an entry of the list or a repeatable header's slot.
LEMMA KeptStore ==
  ASSUME IInv, ParseByte
  PROVE  /\ Len(store.x) <= Len(store'.x)
         /\ \A k \in 1..Len(store.x) : store'.x[k] = store.x[k]
         /\ \A h \in Repeatable :
              store.std[h].start # 0 => store'.std[h] = store.std[h]
<1>0. /\ store.x \in Seq(Entries) /\ Len(store.x) \in Nat
      /\ store.std \in [KnownHeaders -> Slices]
  BY FieldTypes DEF Stores
<1>1. CASE UNCHANGED store
  BY <1>0, <1>1
<1>2. ASSUME NEW h \in KnownHeaders, NEW v,
             store' = SetSlot(store, h, v), ~Spills(store, h)
      PROVE  /\ store'.x = store.x
             /\ \A g \in Repeatable :
                  store.std[g].start # 0 => store'.std[g] = store.std[g]
  <2>1. store'.x = store.x /\ store'.std = [store.std EXCEPT ![h] = v]
    BY <1>2, FieldTypes DEF SetSlot, Stores
  <2>2. ASSUME NEW g \in Repeatable, store.std[g].start # 0 PROVE g # h
    <3>1. UNKNOWN \notin KnownHeaders
      BY TableAssumption DEF UNKNOWN, KnownHeaders
    <3> QED
      BY <1>2, <2>2, <3>1 DEF Spills, header_exists
  <2>3. Repeatable \subseteq KnownHeaders
    BY TableAssumption DEF KnownHeaders
  <2> QED
    BY <1>0, <2>1, <2>2, <2>3
<1>3. ASSUME NEW n, NEW v, store' = xheaders_insert(store, n, v)
      PROVE  /\ Len(store'.x) = Len(store.x) + 1
             /\ \A k \in 1..Len(store.x) : store'.x[k] = store.x[k]
             /\ store'.std = store.std
  <2>1. /\ store'.x = Append(store.x, [name |-> n, value |-> v])
        /\ store'.std = store.std
    BY <1>3, FieldTypes DEF xheaders_insert, Stores
  <2> QED
    BY <1>0, <2>1
<1> QED
  BY <1>0, <1>1, <1>2, <1>3, StoreSteps

\* No step rewrites what is recorded.
LEMMA NextKeeps == IInv /\ NotYetRecorded /\ [Next]_vars => [Keeps]_vars
<1> SUFFICES ASSUME IInv, NotYetRecorded, Next PROVE Keeps
  OBVIOUS
<1>1. CASE ParseByte
  BY <1>1, KeptLine, KeptStore DEF Keeps
<1>2. CASE UNCHANGED parser
  <2>1. Len(store.x) \in Nat
    BY FieldTypes DEF Stores
  <2> QED
    BY <1>2, <2>1 DEF parser, Keeps
<1>3. CASE Free \/ \E t \in Types, s \in Streams : MsgInit(t, s)
  BY <1>3 DEF Free, MsgInit, Keeps
<1> QED
  BY <1>1, <1>2, <1>3 DEF Next, MessageNext, ReturnUsedUp, Call, Receive

\* No later byte, call, failure or retry rewrites the first line's fields, an
\* entry of the list, or a repeatable header's first value.
THEOREM RecordsAreKept == Spec => RecordedIsKept
  BY InitNotYet, NextNotYet, NextKeeps, ReachableIInv, PTL
  DEF Spec, RecordedIsKept

-----------------------------------------------------------------------------
(* What bytes the slices delimit *)

\* Each byte of [from, to) is in the set.
Over(from, to, bytes) == \A k \in from..(to - 1) : At(k) \in bytes

\* What is being parsed is clean so far.
PendingClean ==
  /\ state = "URI"     => Over(cursor, i, UriBytes)
  /\ state = "MESSAGE" => Over(cursor, i, TextBytes)
  /\ state = "NAME"    => Over(name.start, i, Tokens)
  /\ state \in {"COLON", "VALUE"} => Over(name.start, name.end, Tokens)
  /\ state = "VALUE"   => Over(cursor, i, ValueBytes)

MethodClean ==
  \A k \in 1..Len(method) : method[k] \in Tokens /\ Upper(method[k]) = method[k]

LineClean ==
  /\ Holds(line.uri, UriBytes)
  /\ Holds(line.message, TextBytes)

StoreClean ==
  /\ \A h \in KnownHeaders : Holds(store.std[h], ValueBytes)
  /\ \A k \in 1..Len(store.x) : /\ Holds(store.x[k].name, Tokens)
                                /\ Holds(store.x[k].value, ValueBytes)

CleanInv == PendingClean /\ MethodClean /\ LineClean /\ StoreClean

\* The classes the code tests for, as sets of bytes.
LEMMA Classes ==
  /\ \A c : IsIso8859_1(c) => c \in TextBytes
  /\ \A c : IsIso8859_1(c) /\ ~IsCrlfOrSpace(c) => c \in UriBytes
  /\ \A c : c = HTAB \/ IsIso8859_1(c) => c \in ValueBytes
  /\ \A c : IsToken(c) => /\ c \in Tokens
                          /\ Upper(c) \in Tokens /\ Upper(Upper(c)) = Upper(c)
  BY DEF IsIso8859_1, IsCrlfOrSpace, IsToken, TextBytes, UriBytes, ValueBytes,
     HTAB, SP, Tokens, Upper

\* One more byte
LEMMA OverNext ==
  ASSUME NEW from \in Nat, NEW to \in Nat, NEW bytes,
         Over(from, to, bytes), At(to) \in bytes
  PROVE  Over(from, to + 1, bytes)
<1>1. \A k \in from..(to + 1 - 1) : k \in from..(to - 1) \/ k = to
  OBVIOUS
<1> QED
  BY <1>1 DEF Over

\* An empty interval holds any class.
LEMMA OverNone == ASSUME NEW n \in Nat, NEW bytes PROVE Over(n, n, bytes)
  BY DEF Over

\* The method holds capitals and other tokens only, after every iteration,
LEMMA MethodStaysClean ==
  ASSUME IInv, MethodClean, ParseByte
  PROVE  MethodClean'
<1>1. UNCHANGED method \/ (method' = Append(method, Upper(Ch)) /\ IsToken(Ch))
  BY DEF ParseByte, ParseStart, ParseMethod, ParseUri, ParseVersion,
     ParseStatus, ParseMessage, ParseCr, ParseLf1, ParseName, ParseColon,
     ParseValue, ParseLf2, InsertMethodChar
<1>2. CASE UNCHANGED method
  BY <1>2 DEF MethodClean
<1>3. CASE method' = Append(method, Upper(Ch)) /\ IsToken(Ch)
  <2>1. method \in Seq(Byte) /\ Len(method) \in Nat
    BY DEF IInv, TypeOK
  <2>2. /\ Len(method') = Len(method) + 1
        /\ \A k \in 1..Len(method) : method'[k] = method[k]
        /\ method'[Len(method) + 1] = Upper(Ch)
    BY <1>3, <2>1
  <2>3. \A k \in 1..Len(method') : k \in 1..Len(method) \/ k = Len(method) + 1
    BY <2>1, <2>2
  <2>4. Upper(Ch) \in Tokens /\ Upper(Upper(Ch)) = Upper(Ch)
    BY <1>3, Classes
  <2> QED
    BY <2>2, <2>3, <2>4 DEF MethodClean
<1> QED
  BY <1>1, <1>2, <1>3

\* the first line's slices delimit printable bytes only,
LEMMA LineStaysClean ==
  ASSUME IInv, PendingClean, LineClean, ParseByte
  PROVE  LineClean'
<1>1. UNCHANGED stream
  BY ByteMovesIndex
<1>2. Slice(cursor, i) = [start |-> cursor, end |-> i]
  BY FieldTypes, SliceOfOffsets
<1>3. CASE line'.uri = line.uri /\ line'.message = line.message
  BY <1>1, <1>3 DEF LineClean, Holds, At
<1>4. CASE ParseUri
  <2>1. \/ UNCHANGED line
        \/ line'.uri = Slice(cursor, i) /\ line'.message = line.message
    BY <1>4, FieldTypes DEF ParseUri, Lines
  <2>2. Over(cursor, i, UriBytes)
    BY <1>4 DEF ParseUri, Reading, PendingClean
  <2> QED
    BY <1>1, <1>2, <1>3, <2>1, <2>2 DEF LineClean, Holds, Over, At
<1>5. CASE ParseMessage
  <2>1. \/ UNCHANGED line
        \/ line'.message = Slice(cursor, i) /\ line'.uri = line.uri
    BY <1>5, FieldTypes DEF ParseMessage, Lines
  <2>2. Over(cursor, i, TextBytes)
    BY <1>5 DEF ParseMessage, Reading, PendingClean
  <2> QED
    BY <1>1, <1>2, <1>3, <2>1, <2>2 DEF LineClean, Holds, Over, At
<1>6. CASE ~ParseUri /\ ~ParseMessage
  <2>1. line'.uri = line.uri /\ line'.message = line.message
    BY <1>6, FieldTypes
    DEF ParseByte, ParseStart, ParseMethod, ParseVersion, ParseStatus,
        AppendToStatus, ParseCr, ParseLf1, ParseName, ParseColon, ParseValue,
        ParseLf2, Lines
  <2> QED
    BY <1>3, <2>1
<1> QED
  BY <1>4, <1>5, <1>6

\* a header that is stored delimits what its bytes were found to be,
LEMMA StoredClean ==
  ASSUME IInv, StoreClean, UNCHANGED stream, NEW from \in 0..i,
         Over(from, i, ValueBytes), Over(name.start, name.end, Tokens),
         ValueByte(from)
  PROVE  StoreClean'
<1>1. RTrim(from, i) \in from..i
  BY FieldTypes, RTrimRange
<1>2. PICK value : /\ value = Slice(from, RTrim(from, i))
                   /\ value = [start |-> from, end |-> RTrim(from, i)]
  BY <1>1, FieldTypes, SliceOfOffsets
<1>3. \A k \in value.start..(value.end - 1) : At(k) \in ValueBytes
  BY <1>1, <1>2, FieldTypes DEF Over
<1>4. \A k \in name.start..(name.end - 1) : At(k) \in Tokens
  BY DEF Over
<1>5. \/ UNCHANGED store
      \/ \E h \in KnownHeaders : store' = SetSlot(store, h, value)
      \/ store' = xheaders_insert(store, name, value)
  <2>1. \A h : ~Spills(store, h) /\ h \in KnownHeaders \cup {UNKNOWN}
                 => h \in KnownHeaders
    BY DEF Spills
  <2> QED
    BY <1>2, <2>1, LookupType DEF ValueByte, StoreHeader
<1>6. CASE UNCHANGED store
  BY <1>6 DEF StoreClean, Holds, At
<1>7. ASSUME NEW h \in KnownHeaders, store' = SetSlot(store, h, value)
      PROVE  StoreClean'
  <2>1. store'.x = store.x /\ store'.std = [store.std EXCEPT ![h] = value]
    BY <1>7, FieldTypes DEF SetSlot, Stores
  <2>2. store.std \in [KnownHeaders -> Slices]
    BY FieldTypes DEF Stores
  <2>3. ASSUME NEW k \in KnownHeaders PROVE Holds(store.std[k], ValueBytes)'
    <3>1. store'.std[k] = value \/ store'.std[k] = store.std[k]
      BY <2>1, <2>2
    <3> QED
      BY <1>3, <3>1 DEF StoreClean, Holds, At
  <2>4. ASSUME NEW k \in 1..Len(store'.x)
        PROVE  /\ Holds(store.x[k].name, Tokens)'
               /\ Holds(store.x[k].value, ValueBytes)'
    BY <2>1 DEF StoreClean, Holds, At
  <2> QED
    BY <2>3, <2>4 DEF StoreClean
<1>8. CASE store' = xheaders_insert(store, name, value)
  <2>1. /\ store'.x = Append(store.x, [name |-> name, value |-> value])
        /\ store'.std = store.std
    BY <1>8, FieldTypes DEF xheaders_insert, Stores
  <2>2. store.x \in Seq(Entries)
    BY FieldTypes DEF Stores
  <2>3. /\ Len(store'.x) = Len(store.x) + 1 /\ Len(store.x) \in Nat
        /\ \A k \in 1..Len(store.x) : store'.x[k] = store.x[k]
        /\ store'.x[Len(store.x) + 1] = [name |-> name, value |-> value]
    BY <2>1, <2>2
  <2>4. \A h \in KnownHeaders : Holds(store.std[h], ValueBytes)'
    BY <2>1 DEF StoreClean, Holds, At
  <2>5. ASSUME NEW k \in 1..Len(store'.x)
        PROVE  /\ Holds(store.x[k].name, Tokens)'
               /\ Holds(store.x[k].value, ValueBytes)'
    <3>1. k \in 1..(Len(store.x) + 1)
      BY <2>3
    <3>2. k \in 1..Len(store.x) \/ k = Len(store.x) + 1
      BY <2>3, <3>1
    <3>3. CASE k \in 1..Len(store.x)
      <4>1. store'.x[k] = store.x[k]
        BY <2>3, <3>3
      <4> QED
        BY <3>3, <4>1 DEF StoreClean, Holds, At
    <3>4. CASE k = Len(store.x) + 1
      <4>1. store'.x[k] = [name |-> name, value |-> value]
        BY <2>3, <3>4
      <4> QED
        BY <1>3, <1>4, <4>1 DEF Holds, At
    <3> QED
      BY <3>2, <3>3, <3>4
  <2> QED
    BY <2>4, <2>5 DEF StoreClean
<1> QED
  BY <1>5, <1>6, <1>7, <1>8

\* and so do the slices of the header store.
LEMMA StoreStaysClean ==
  ASSUME IInv, PendingClean, StoreClean, ParseByte
  PROVE  StoreClean'
<1>1. UNCHANGED stream
  BY ByteMovesIndex
<1>2. CASE UNCHANGED store
  BY <1>1, <1>2 DEF StoreClean, Holds, At
<1>3. CASE ParseColon
  <2>1. /\ i \in 0..i /\ Over(i, i, ValueBytes)
        /\ Over(name.start, name.end, Tokens)
    BY <1>3, FieldTypes, OverNone DEF ParseColon, Reading, PendingClean
  <2> QED
    BY <1>1, <1>2, <1>3, <2>1, StoredClean DEF ParseColon
<1>4. CASE ParseValue
  <2>1. /\ cursor \in 0..i /\ Over(cursor, i, ValueBytes)
        /\ Over(name.start, name.end, Tokens) /\ ValueByte(cursor)
    BY <1>4, FieldTypes DEF ParseValue, Reading, PendingClean
  <2> QED
    BY <1>1, <2>1, StoredClean
<1> QED
  BY <1>2, <1>3, <1>4
  DEF ParseByte, ParseStart, ParseMethod, ParseUri, ParseVersion, ParseStatus,
      ParseMessage, ParseCr, ParseLf1, ParseName, ParseLf2

\* Over, of offsets that do not change, after a step that keeps the stream
LEMMA OverKept ==
  ASSUME UNCHANGED stream, NEW from, NEW to, NEW bytes, Over(from, to, bytes)
  PROVE  \A k \in from..(to - 1) : At(k)' \in bytes
  BY DEF Over, At

\* The bytes between the cursor (or a name's start) and the index are clean.
LEMMA PendingStaysClean ==
  ASSUME IInv, PendingClean, ParseByte
  PROVE  PendingClean'
<1>1. UNCHANGED stream
  BY ByteMovesIndex
<1>2. i \in Nat /\ cursor \in Nat /\ name.start \in Nat /\ name.end \in Nat
  BY FieldTypes
<1>3. CASE state' \notin {"URI", "MESSAGE", "NAME", "COLON", "VALUE"}
  BY <1>3 DEF PendingClean
<1>4. CASE ParseStart \/ ParseVersion \/ ParseCr \/ ParseLf2
  <2>1. state' \notin {"URI", "MESSAGE", "NAME", "COLON", "VALUE"}
    BY <1>4 DEF ParseStart, ParseVersion, ParseCr, ParseLf2, Reading,
       InsertMethodChar, Continue, Fail, Succeed, EndOfLine
  <2> QED
    BY <1>3, <2>1
<1>5. CASE ParseMethod
  <2>1. \/ state' = "METHOD"
        \/ state' = "URI" /\ cursor' = i + 1 /\ i' = i + 1
    BY <1>5 DEF ParseMethod, InsertMethodChar, Continue, Fail, NextOffset
  <2> QED
    BY <1>2, <2>1 DEF PendingClean, Over
<1>6. CASE ParseUri
  <2>1. Over(cursor, i, UriBytes)
    BY <1>6 DEF ParseUri, Reading, PendingClean
  <2>2. \/ state' \in {"VERSION", "CR", "LF1"}
        \/ state' = "URI" /\ cursor' = cursor /\ i' = i
        \/ state' = "URI" /\ cursor' = cursor /\ i' = i + 1 /\ Ch \in UriBytes
    BY <1>6, Classes DEF ParseUri, Continue, Fail, EndOfLine
  <2>3. Ch \in UriBytes => Over(cursor, i + 1, UriBytes)
    BY <1>2, <2>1, OverNext DEF Ch
  <2> QED
    BY <1>1, <2>1, <2>2, <2>3, OverKept DEF PendingClean, Over
<1>7. CASE ParseStatus
  <2>1. \/ state' \in {"STATUS", "CR", "LF1"}
        \/ state' = "MESSAGE" /\ cursor' = i + 1 /\ i' = i + 1
    BY <1>7 DEF ParseStatus, AppendToStatus, Continue, Fail, EndOfLine, NextOffset
  <2> QED
    BY <1>2, <2>1 DEF PendingClean, Over
<1>8. CASE ParseMessage
  <2>1. Over(cursor, i, TextBytes)
    BY <1>8 DEF ParseMessage, Reading, PendingClean
  <2>2. \/ state' \in {"CR", "LF1"}
        \/ state' = "MESSAGE" /\ cursor' = cursor /\ i' = i
        \/ state' = "MESSAGE" /\ cursor' = cursor /\ i' = i + 1 /\ Ch \in TextBytes
    BY <1>8, Classes DEF ParseMessage, Continue, Fail, EndOfLine
  <2>3. Ch \in TextBytes => Over(cursor, i + 1, TextBytes)
    BY <1>2, <2>1, OverNext DEF Ch
  <2> QED
    BY <1>1, <2>1, <2>2, <2>3, OverKept DEF PendingClean, Over
<1>9. CASE ParseLf1
  <2>1. \/ state' \in {"LF1", "LF2"}
        \/ /\ state' = "NAME" /\ i' = i + 1 /\ Ch \in Tokens
           /\ name' = [name EXCEPT !.start = U16(i)]
    BY <1>9, Classes DEF ParseLf1, Reading, Continue, Fail, Succeed
  <2>2. U16(i) = i
    BY FieldTypes, U16OfOffset
  <2>3. Ch \in Tokens => Over(i, i + 1, Tokens)
    BY <1>2, OverNone, OverNext DEF Ch
  <2>4. name' = [name EXCEPT !.start = i] => name'.start = i
    BY FieldTypes DEF Slices
  <2> QED
    BY <1>1, <2>1, <2>2, <2>3, <2>4, OverKept DEF PendingClean, Over
<1>10. CASE ParseName
  <2>1. Over(name.start, i, Tokens)
    BY <1>10 DEF ParseName, Reading, PendingClean
  <2>2. \/ state' = "NAME" /\ name' = name /\ i' = i
        \/ state' = "NAME" /\ name' = name /\ i' = i + 1 /\ Ch \in Tokens
        \/ state' = "COLON" /\ name' = [name EXCEPT !.end = U16(i)]
    BY <1>10, Classes DEF ParseName, Continue, Fail
  <2>3. Ch \in Tokens => Over(name.start, i + 1, Tokens)
    BY <1>2, <2>1, OverNext DEF Ch
  <2>4. name' = [name EXCEPT !.end = U16(i)]
          => name'.start = name.start /\ name'.end = i
    BY FieldTypes, U16OfOffset DEF Slices
  <2> QED
    BY <1>1, <2>1, <2>2, <2>3, <2>4, OverKept DEF PendingClean, Over
<1>11. ASSUME NEW from \in Nat, ValueByte(from), Over(from, i, ValueBytes),
              cursor' = from, name' = name, Over(name.start, name.end, Tokens)
       PROVE  PendingClean'
  <2>1. \/ state' \in {"CR", "LF1"}
        \/ state' = "VALUE" /\ i' = i
        \/ state' = "VALUE" /\ i' = i + 1 /\ Ch \in ValueBytes
    BY <1>11, Classes DEF ValueByte, StoreHeader, Continue, Fail, EndOfLine
  <2>2. Ch \in ValueBytes => Over(from, i + 1, ValueBytes)
    BY <1>2, <1>11, OverNext DEF Ch
  <2> QED
    BY <1>1, <1>11, <2>1, <2>2, OverKept DEF PendingClean, Over
<1>12. CASE ParseColon
  <2>1. name' = name /\ Over(name.start, name.end, Tokens) /\ Over(i, i, ValueBytes)
    BY <1>2, <1>12, OverNone DEF ParseColon, Reading, PendingClean
  <2>2. CASE Continue("COLON")
    BY <1>1, <2>1, <2>2, OverKept DEF Continue, PendingClean, Over
  <2>3. CASE cursor' = i /\ ValueByte(i)
    BY <1>2, <1>11, <2>1, <2>3
  <2> QED
    BY <1>12, <2>2, <2>3 DEF ParseColon
<1>13. CASE ParseValue
  <2>1. /\ name' = name /\ cursor' = cursor /\ ValueByte(cursor)
        /\ Over(name.start, name.end, Tokens) /\ Over(cursor, i, ValueBytes)
    BY <1>13 DEF ParseValue, Reading, PendingClean
  <2> QED
    BY <1>2, <1>11, <2>1
<1> QED
  BY <1>4, <1>5, <1>6, <1>7, <1>8, <1>9, <1>10, <1>12, <1>13 DEF ParseByte

\* Nothing has been looked at, or recorded, at first.
LEMMA InitClean == Init => CleanInv
  BY DEF Init, CleanInv, PendingClean, MethodClean, LineClean, StoreClean,
     Holds, NoLine, NoSlice, EmptyStore

\* Every step keeps the fields clean.
LEMMA NextClean == IInv /\ CleanInv /\ [Next]_vars => CleanInv'
<1> SUFFICES ASSUME IInv, CleanInv, [Next]_vars PROVE CleanInv'
  OBVIOUS
<1>1. CASE ParseByte
  BY <1>1, PendingStaysClean, MethodStaysClean, LineStaysClean, StoreStaysClean
  DEF CleanInv
<1>2. CASE UNCHANGED <<stream, parser>>
  BY <1>2 DEF parser, CleanInv, PendingClean, MethodClean, LineClean,
     StoreClean, Holds, Over, At
<1>3. CASE Free
  <2>1. /\ UNCHANGED <<stream, state, i, cursor, method, name, line>>
        /\ store'.std = store.std
        /\ store'.x = store.x \/ store'.x = <<>>
    BY <1>3, FieldTypes DEF Free, Freed, Stores, peer
  <2> QED
    BY <2>1 DEF CleanInv, PendingClean, MethodClean, LineClean, StoreClean,
       Holds, Over, At
<1>4. ASSUME NEW t, NEW s, MsgInit(t, s) PROVE CleanInv'
  BY <1>4 DEF MsgInit, CleanInv, PendingClean, MethodClean, LineClean,
     StoreClean, Holds, NoLine, NoSlice, EmptyStore
<1> QED
  BY <1>1, <1>2, <1>3, <1>4
  DEF Next, MessageNext, ReturnUsedUp, Call, Receive, vars, peer

\* No control code but tab is in a recorded field, whatever the peer sends and
\* however it is cut up.
THEOREM FieldsStayClean == Spec => []FieldsClean
<1>1. Spec => []CleanInv
  BY InitClean, NextClean, ReachableIInv, PTL DEF Spec
<1>2. CleanInv => FieldsClean
  BY DEF CleanInv, MethodClean, LineClean, StoreClean, FieldsClean
<1> QED
  BY <1>1, <1>2, PTL

-----------------------------------------------------------------------------
(***************************************************************************)
(* Proof that a malformed byte stays refused when the caller calls again.  *)
(* While the last -1 was for a malformed byte, the index is still at that  *)
(* byte, the call's input still reaches it, and the state refuses it; a    *)
(* call that gets that far can only fail again, at the same byte.          *)
(***************************************************************************)

\* The byte at the index is one that the state refuses.
Refused ==
  /\ state \notin {"START", "COLON"}
  /\ state = "METHOD" =>
       Ch # SP /\ ~(Len(method) # HTTP_METHOD_MAX_STRLEN /\ IsToken(Ch))
  /\ state = "URI" =>
       \/ IsCrlfOrSpace(Ch) /\ i = cursor
       \/ ~IsCrlfOrSpace(Ch) /\ ~IsIso8859_1(Ch)
  /\ state = "VERSION" =>
       IsCrlfOrSpace(Ch) /\ parse_version(cursor, i) = V_UNKNOWN
  /\ state = "STATUS" =>
       \/ IsCrlfOrSpace(Ch) /\ line.status < HTTP_STATUS_MIN
       \/ ~IsCrlfOrSpace(Ch) /\ ~IsDigit(Ch)
  /\ state = "MESSAGE" => ~IsCrlf(Ch) /\ ~IsIso8859_1(Ch)
  /\ state = "CR" => Ch # LF
  /\ state = "LF1" => ~IsCrlf(Ch) /\ ~IsToken(Ch)
  /\ state = "NAME" => Ch # COLON /\ ~IsToken(Ch)
  /\ state = "VALUE" => ~IsCrlf(Ch) /\ Ch # HTAB /\ ~IsIso8859_1(Ch)
  /\ state = "LF2" => Ch # LF

StuckInv ==
  /\ state = "START" => method = <<>>
  /\ Malformed => i < args.size /\ Refused

-----------------------------------------------------------------------------
\* insert_method_char fails only at a byte that it will not insert later.
LEMMA MethodRefuses ==
  ASSUME InsertMethodChar
  PROVE  \/ failure' = "none" /\ state' = "METHOD"
         \/ /\ UNCHANGED <<i, method>> /\ state' = "METHOD"
            /\ ~(Len(method) # HTTP_METHOD_MAX_STRLEN /\ IsToken(Ch))
  BY DEF InsertMethodChar, Continue, Fail

\* An iteration that fails for a malformed byte leaves the index at a byte that
\* the state it leaves refuses: the cases before the headers,
LEMMA LineRefuses ==
  ASSUME StuckInv, Malformed',
         \/ ParseStart \/ ParseMethod \/ ParseUri \/ ParseVersion
         \/ ParseStatus \/ ParseMessage
  PROVE  Refused'
<1>1. CASE ParseStart
  <2>1. /\ ~IsCrlf(Ch) /\ type = REQUEST /\ InsertMethodChar
        /\ state = "START" /\ UNCHANGED stream
    BY <1>1 DEF ParseStart, Reading, Continue, Malformed, Outside, peer
  <2>2. /\ state' = "METHOD" /\ UNCHANGED <<i, method>>
        /\ ~(Len(method) # HTTP_METHOD_MAX_STRLEN /\ IsToken(Ch))
    BY <2>1, MethodRefuses DEF Malformed
  <2>3. Ch' = Ch /\ Ch' # SP
    BY <2>1, <2>2 DEF StuckInv, Malformed, Ch, At
  <2> QED
    BY <2>2, <2>3 DEF Refused
<1>2. CASE ParseMethod
  <2>1. Ch # SP /\ InsertMethodChar /\ UNCHANGED stream
    BY <1>2 DEF ParseMethod, Continue, Malformed, Outside, peer
  <2> QED
    BY <2>1, MethodRefuses DEF Malformed, Refused, Ch, At
<1>3. CASE ParseUri
  <2>1. /\ state' = "URI" /\ UNCHANGED <<i, cursor, stream>>
        /\ \/ IsCrlfOrSpace(Ch) /\ i = cursor
           \/ ~IsCrlfOrSpace(Ch) /\ ~IsIso8859_1(Ch)
    BY <1>3 DEF ParseUri, Continue, Fail, Malformed, Outside, peer
  <2> QED
    BY <2>1 DEF Refused, Ch, At
<1>4. CASE ParseVersion
  <2>1. /\ state' = "VERSION" /\ UNCHANGED <<i, cursor, stream>>
        /\ IsCrlfOrSpace(Ch) /\ parse_version(cursor, i) = V_UNKNOWN
    BY <1>4 DEF ParseVersion, Continue, Fail, Malformed, Outside, peer
  <2> QED
    BY <2>1 DEF Refused, Ch, At, parse_version
<1>5. CASE ParseStatus
  <2>1. state' = "STATUS" /\ UNCHANGED <<i, stream>>
    BY <1>5 DEF ParseStatus, AppendToStatus, Continue, Fail, Malformed, Outside, peer
  <2>2. Ch' = Ch /\ ~IsDigit(Ch)
    BY <2>1 DEF Malformed, Ch, At
  <2>3. \/ IsCrlfOrSpace(Ch) /\ line.status < HTTP_STATUS_MIN /\ UNCHANGED line
        \/ ~IsCrlfOrSpace(Ch)
    BY <1>5, <2>2 DEF ParseStatus, Continue, Malformed
  <2> QED
    BY <2>1, <2>2, <2>3 DEF Refused
<1>6. CASE ParseMessage
  <2>1. /\ state' = "MESSAGE" /\ UNCHANGED <<i, stream>>
        /\ ~IsCrlf(Ch) /\ ~IsIso8859_1(Ch)
    BY <1>6 DEF ParseMessage, Continue, Fail, Malformed, Outside, peer
  <2> QED
    BY <2>1 DEF Refused, Ch, At
<1> QED
  BY <1>1, <1>2, <1>3, <1>4, <1>5, <1>6

\* and the others.
LEMMA HeaderRefuses ==
  ASSUME Malformed',
         \/ ParseCr \/ ParseLf1 \/ ParseName \/ ParseColon \/ ParseValue
         \/ ParseLf2
  PROVE  Refused'
<1>1. CASE ParseCr \/ ParseLf2
  <2>1. /\ state' \in {"CR", "LF2"} /\ UNCHANGED <<i, stream>> /\ Ch # LF
    BY <1>1 DEF ParseCr, ParseLf2, Continue, Fail, Succeed, Malformed, Outside, peer
  <2> QED
    BY <2>1 DEF Refused, Ch, At
<1>2. CASE ParseLf1
  <2>1. /\ state' = "LF1" /\ UNCHANGED <<i, stream>>
        /\ ~IsCrlf(Ch) /\ ~IsToken(Ch)
    BY <1>2 DEF ParseLf1, Continue, Fail, Succeed, Malformed, Outside, peer
  <2> QED
    BY <2>1 DEF Refused, Ch, At
<1>3. CASE ParseName
  <2>1. /\ state' = "NAME" /\ UNCHANGED <<i, stream>>
        /\ Ch # COLON /\ ~IsToken(Ch)
    BY <1>3 DEF ParseName, Continue, Fail, Malformed, Outside, peer
  <2> QED
    BY <2>1 DEF Refused, Ch, At
<1>4. CASE ParseColon \/ ParseValue
  <2>1. UNCHANGED stream /\ \E from : ValueByte(from)
    BY <1>4 DEF ParseColon, ParseValue, Continue, Malformed, Outside, peer
  <2>2. /\ state' = "VALUE" /\ UNCHANGED i
        /\ ~IsCrlf(Ch) /\ Ch # HTAB /\ ~IsIso8859_1(Ch)
    BY <2>1 DEF ValueByte, StoreHeader, Continue, Fail, Malformed
  <2> QED
    BY <2>1, <2>2 DEF Refused, Ch, At
<1> QED
  BY <1>1, <1>2, <1>3, <1>4

\* Only a byte that goes round in STATE_START leaves it there.
LEMMA StartIsLeft ==
  ASSUME StuckInv, ParseByte, state' = "START"
  PROVE  method' = <<>>
<1>1. CASE ParseStart
  BY <1>1 DEF ParseStart, Reading, InsertMethodChar, Continue, Fail, StuckInv
<1>2. CASE ~ParseStart
  BY <1>2 DEF ParseByte, ParseMethod, ParseUri, ParseVersion, ParseStatus,
     ParseMessage, ParseCr, ParseLf1, ParseName, ParseColon, ParseValue,
     ParseLf2, Reading, InsertMethodChar, AppendToStatus, ValueByte,
     StoreHeader, Continue, Fail, Succeed, EndOfLine
<1> QED
  BY <1>1, <1>2

\* An iteration that fails does so at a byte of its call.
LEMMA FailureInCall ==
  ASSUME IInv, ParseByte, failure' = "syntax"
  PROVE  i' < args'.size
<1>1. i' = i /\ UNCHANGED args
  BY DEF ParseByte, ParseStart, ParseMethod, ParseUri, ParseVersion,
     ParseStatus, ParseMessage, ParseCr, ParseLf1, ParseName, ParseColon,
     ParseValue, ParseLf2, InsertMethodChar, AppendToStatus, ValueByte,
     StoreHeader, Continue, Fail, Succeed, Outside
<1>2. BytesLeft
  BY DEF ParseByte, ParseStart, ParseMethod, ParseUri, ParseVersion,
     ParseStatus, ParseMessage, ParseCr, ParseLf1, ParseName, ParseColon,
     ParseValue, ParseLf2, Reading
<1> QED
  BY <1>1, <1>2 DEF BytesLeft

\* A message begins with no failure.
LEMMA InitStuck == Init => StuckInv
  BY DEF Init, StuckInv, Malformed

\* A later call is given at least the bytes of the one that failed, and leaves
\* the parser alone.
LEMMA CallReaches ==
  ASSUME IInv, NEW capacity, Call(capacity)
  PROVE  /\ UNCHANGED <<stream, state, i, cursor, method, line>>
         /\ i < args.size => i' < args'.size
         /\ Refused => Refused'
<1>1. UNCHANGED <<stream, state, i, cursor, method, line>>
  BY DEF Call, peer, parser
<1>2. Refused => Refused'
  BY <1>1 DEF Refused, Ch, At, parse_version
<1>3. CASE UNCHANGED args
  BY <1>1, <1>2, <1>3
<1>4. CASE args' = [size |-> Clamp(received), capacity |-> Clamp(capacity)]
  <2>1. args.size \in Nat /\ args.size <= SHRT_MAX /\ args.size <= received
        /\ received \in Nat /\ i \in Nat
    BY Widths DEF IInv, TypeOK, WithinInput, Args
  <2>2. args.size <= Clamp(received) /\ Clamp(received) \in Nat
    BY <2>1, Widths DEF Clamp
  <2>3. args'.size = Clamp(received)
    BY <1>4
  <2>4. i < args.size => i < args'.size
    BY <2>1, <2>2, <2>3
  <2> QED
    BY <1>1, <1>2, <2>4
<1> QED
  BY <1>3, <1>4 DEF Call

\* Bytes that arrive, a release and a step that changes nothing do not touch it.
LEMMA RefusedStays ==
  ASSUME UNCHANGED <<stream, state, i, cursor, method, line>>
  PROVE  (Refused => Refused') /\ (Malformed' /\ failure = "syntax" => Malformed)
  BY DEF Refused, Malformed, Ch, At, parse_version

\* Every step keeps the invariant.
LEMMA NextStuck == IInv /\ StuckInv /\ [Next]_vars => StuckInv'
<1> SUFFICES ASSUME IInv, StuckInv, [Next]_vars PROVE StuckInv'
  OBVIOUS
<1>1. CASE ParseByte
  <2>1. Malformed' => Refused'
    BY <1>1, LineRefuses, HeaderRefuses DEF ParseByte
  <2>2. Malformed' => i' < args'.size
    BY <1>1, FailureInCall DEF Malformed
  <2>3. (state = "START" => method = <<>>)'
    BY <1>1, StartIsLeft
  <2> QED
    BY <2>1, <2>2, <2>3 DEF StuckInv
<1>2. CASE ReturnUsedUp
  BY <1>2 DEF ReturnUsedUp, parser, StuckInv, Malformed
<1>3. ASSUME NEW capacity, Call(capacity) PROVE StuckInv'
  <2>1. /\ UNCHANGED <<stream, state, i, cursor, method, line>>
        /\ i < args.size => i' < args'.size
        /\ Refused => Refused'
    BY <1>3, CallReaches
  <2>2. failure' = "arguments" \/ UNCHANGED failure
    BY <1>3 DEF Call
  <2>3. Malformed' => Malformed
    BY <2>1, <2>2, RefusedStays DEF Malformed
  <2> QED
    BY <2>1, <2>3 DEF StuckInv
<1>4. CASE (\E n \in Chunks : Receive(n)) \/ Free \/ UNCHANGED vars
  <2>1. UNCHANGED <<stream, state, i, cursor, method, line, args, failure>>
    BY <1>4 DEF Receive, Free, vars, peer, parser
  <2>2. (Refused => Refused') /\ (Malformed' => Malformed)
    BY <2>1, RefusedStays DEF Malformed
  <2> QED
    BY <2>1, <2>2 DEF StuckInv
<1>5. ASSUME NEW t, NEW s, MsgInit(t, s) PROVE StuckInv'
  BY <1>5 DEF MsgInit, StuckInv, Malformed
<1> QED
  BY <1>1, <1>2, <1>3, <1>4, <1>5 DEF Next, MessageNext

\* An iteration at a byte that the state refuses fails again, and leaves the
\* parser as it is.
LEMMA RefusedAgain ==
  ASSUME IInv, Refused, ParseByte
  PROVE  failure' = "syntax" /\ UNCHANGED <<stream, state, i, cursor, method, line>>
<1>1. ~ParseStart /\ ~ParseColon
  BY DEF Refused, ParseStart, ParseColon, Reading
<1>2. CASE ParseMethod
  BY <1>2 DEF Refused, ParseMethod, Reading, InsertMethodChar, Fail, Outside, peer
<1>3. CASE ParseUri
  BY <1>3 DEF Refused, ParseUri, Reading, Fail, IsCrlf, IsCrlfOrSpace, Outside, peer
<1>4. CASE ParseVersion
  BY <1>4 DEF Refused, ParseVersion, Reading, Fail, Outside, peer
<1>5. CASE ParseStatus
  <2>1. state = "STATUS" /\ UNCHANGED stream
    BY <1>5 DEF ParseStatus, Reading, Outside, peer
  <2>2. CASE IsCrlfOrSpace(Ch) /\ line.status < HTTP_STATUS_MIN
    <3>1. Ch = SP \/ IsCrlf(Ch)
      BY <2>2 DEF IsCrlfOrSpace, IsCrlf
    <3>2. ~(line.status >= HTTP_STATUS_MIN)
      <4>1. line.status \in Nat
        BY Widths DEF IInv, TypeOK, Lines
      <4> QED
        BY <2>2, <4>1 DEF HTTP_STATUS_MIN
    <3>3. Fail("STATUS", "syntax") /\ UNCHANGED <<cursor, line, method>>
      BY <1>5, <2>2, <3>1, <3>2 DEF ParseStatus
    <3> QED
      BY <2>1, <3>3 DEF Fail
  <2>3. CASE ~IsCrlfOrSpace(Ch) /\ ~IsDigit(Ch)
    <3>1. Fail("STATUS", "syntax") /\ UNCHANGED <<cursor, line, method>>
      BY <1>5, <2>3 DEF ParseStatus, AppendToStatus, IsCrlf, IsCrlfOrSpace
    <3> QED
      BY <2>1, <3>1 DEF Fail
  <2> QED
    BY <2>1, <2>2, <2>3 DEF Refused
<1>6. CASE ParseMessage
  BY <1>6 DEF Refused, ParseMessage, Reading, Fail, Outside, peer
<1>7. CASE ParseCr \/ ParseName \/ ParseLf2
  BY <1>7 DEF Refused, ParseCr, ParseName, ParseLf2, Reading, Fail, Outside, peer
<1>8. CASE ParseLf1
  BY <1>8 DEF Refused, ParseLf1, Reading, Fail, IsCrlf, CR, LF, Outside, peer
<1>9. CASE ParseValue
  BY <1>9 DEF Refused, ParseValue, ValueByte, Reading, Fail, Outside, peer
<1> QED
  BY <1>1, <1>2, <1>3, <1>4, <1>5, <1>6, <1>7, <1>8, <1>9 DEF ParseByte

\* No call gets past the byte at the index, whatever the last one failed for.
Barred ==
  /\ i < args.size
  /\ Refused
  /\ failure \in {"syntax", "arguments"}

LEMMA NextBarred == IInv /\ Barred /\ [MessageNext]_vars => Barred'
<1> SUFFICES ASSUME IInv, Barred, [MessageNext]_vars PROVE Barred'
  OBVIOUS
<1>1. CASE ParseByte
  <2>1. failure' = "syntax" /\ UNCHANGED <<stream, state, i, cursor, method, line>>
    BY <1>1, RefusedAgain DEF Barred
  <2>2. Refused' /\ i' < args'.size
    BY <1>1, <2>1, RefusedStays, FailureInCall DEF Barred
  <2> QED
    BY <2>1, <2>2 DEF Barred
<1>2. ~ReturnUsedUp
  BY DEF Barred, ReturnUsedUp, BytesLeft
<1>3. ASSUME NEW capacity, Call(capacity) PROVE Barred'
  BY <1>3, CallReaches DEF Barred, Call
<1>4. CASE (\E n \in Chunks : Receive(n)) \/ UNCHANGED vars
  <2>1. UNCHANGED <<stream, state, i, cursor, method, line, args, failure>>
    BY <1>4 DEF Receive, vars, peer, parser
  <2> QED
    BY <2>1, RefusedStays DEF Barred
<1> QED
  BY <1>1, <1>2, <1>3, <1>4 DEF MessageNext

\* A caller that calls again after a malformed byte, however often and at
\* whatever time, with capacities that fail their check between them or not and
\* with any number of bytes behind it, is refused for as long as the message is
\* not begun anew.
THEOREM SyntaxErrorsAreFinal == MessageSpec => SyntaxErrorIsFinal
<1>1. MessageSpec => Spec
  <2>1. [MessageNext]_vars => [Next]_vars
    BY DEF Next
  <2> QED
    BY <2>1, PTL DEF MessageSpec, Spec
<1>2. Spec => []IInv
  BY InitIInv, NextIInv, PTL DEF Spec
<1>3. Spec => []StuckInv
  BY <1>2, InitStuck, NextStuck, PTL DEF Spec
<1>4. StuckInv /\ Malformed => Barred
  BY DEF StuckInv, Malformed, Barred
<1>5. Barred => failure \in {"syntax", "arguments"}
  BY DEF Barred
<1> QED
  BY <1>1, <1>2, <1>3, <1>4, <1>5, NextBarred, PTL DEF MessageSpec, SyntaxErrorIsFinal

-----------------------------------------------------------------------------
(***************************************************************************)
(* Proof that a response's status has three digits.  In STATE_STATUS it    *)
(* may have more: the call that made it too large has then left the index  *)
(* at the digit that did, so that no end of the status is met before a     *)
(* later call has multiplied it once more.                                 *)
(***************************************************************************)

StatusInv ==
  type = RESPONSE =>
    /\ state \notin {"METHOD", "URI"}
    /\ state \in {"START", "VERSION"} => line.status <= HTTP_STATUS_MAX
    /\ state = "STATUS" => line.status <= HTTP_STATUS_MAX \/ IsDigit(Ch)
    /\ StatusHasThreeDigits

\* A digit in STATE_STATUS either leaves it small enough or stays in front.
LEMMA DigitStatus ==
  ASSUME IInv, ParseStatus, StatusInv
  PROVE  StatusInv'
<1>1. line.status \in Nat
  BY Widths DEF IInv, TypeOK, Lines
<1>2. state = "STATUS" /\ UNCHANGED <<type, stream>>
  BY DEF ParseStatus, Reading, Outside, peer
<1>3. CASE IsCrlfOrSpace(Ch) /\ line.status < HTTP_STATUS_MIN
  <2>1. ~(line.status >= HTTP_STATUS_MIN)
    BY <1>1, <1>3 DEF HTTP_STATUS_MIN
  <2>2. Fail("STATUS", "syntax") /\ UNCHANGED line
    BY <1>3, <2>1 DEF ParseStatus, IsCrlfOrSpace
  <2>3. state' = "STATUS" /\ Ch' = Ch
    BY <1>2, <2>2 DEF Fail, Ch, At
  <2> QED
    BY <1>2, <2>2, <2>3 DEF StatusInv, StatusHasThreeDigits
<1>4. CASE IsCrlfOrSpace(Ch) /\ ~(line.status < HTTP_STATUS_MIN)
  <2>1. ~IsDigit(Ch)
    BY <1>4 DEF IsCrlfOrSpace, IsDigit, SP, CR, LF
  <2>2. type = RESPONSE => line.status <= HTTP_STATUS_MAX
    BY <1>2, <2>1 DEF StatusInv
  <2>3. type = RESPONSE => line.status \in HTTP_STATUS_MIN..HTTP_STATUS_MAX
    BY <1>1, <1>4, <2>2 DEF HTTP_STATUS_MIN, HTTP_STATUS_MAX
  <2>4. UNCHANGED line /\ state' \in {"MESSAGE", "CR", "LF1"}
    BY <1>4 DEF ParseStatus, Continue, EndOfLine, IsCrlfOrSpace, IsCrlf
  <2> QED
    BY <1>2, <2>3, <2>4 DEF StatusInv, StatusHasThreeDigits
<1>5. CASE ~IsCrlfOrSpace(Ch)
  <2>1. AppendToStatus
    BY <1>5 DEF ParseStatus, IsCrlf, IsCrlfOrSpace
  <2>2. state' = "STATUS"
    BY <2>1 DEF AppendToStatus, Continue, Fail
  <2>3. CASE IsDigit(Ch) /\ Appended(line.status, Ch) > HTTP_STATUS_MAX
    <3>1. Ch' = Ch
      BY <1>2, <2>1, <2>3 DEF AppendToStatus, Fail, Ch, At
    <3> QED
      BY <1>2, <2>2, <2>3, <3>1 DEF StatusInv, StatusHasThreeDigits
  <2>4. CASE IsDigit(Ch) /\ ~(Appended(line.status, Ch) > HTTP_STATUS_MAX)
    <3>1. line' = [line EXCEPT !.status = Appended(line.status, Ch)]
      BY <2>1, <2>4 DEF AppendToStatus
    <3>2. line'.status = Appended(line.status, Ch) /\ line'.status \in Nat
      <4>1. line \in Lines /\ line' \in Lines
        BY StatusIInv DEF IInv, TypeOK
      <4> QED
        BY <3>1, <4>1, Widths DEF Lines
    <3>3. line'.status <= HTTP_STATUS_MAX
      BY <2>4, <3>2 DEF HTTP_STATUS_MAX
    <3> QED
      BY <1>2, <2>2, <3>3 DEF StatusInv, StatusHasThreeDigits
  <2>5. CASE ~IsDigit(Ch)
    <3>1. UNCHANGED line /\ Ch' = Ch
      BY <1>2, <2>1, <2>5 DEF AppendToStatus, Fail, Ch, At
    <3> QED
      BY <1>2, <2>2, <3>1 DEF StatusInv, StatusHasThreeDigits
  <2> QED
    BY <2>3, <2>4, <2>5
<1> QED
  BY <1>3, <1>4, <1>5

\* The other cases leave the status alone, and only STATE_VERSION leads to
\* STATE_STATUS.
LEMMA ByteStatus ==
  ASSUME IInv, ParseByte, StatusInv
  PROVE  StatusInv'
<1>1. line.status \in Nat /\ line \in Lines
  BY Widths DEF IInv, TypeOK, Lines
<1>2. CASE ParseStart
  <2>1. /\ state = "START" /\ UNCHANGED <<type, line>>
        /\ state' \in {"START", "METHOD", "VERSION"}
        /\ state' = "METHOD" => type = REQUEST
    BY <1>2 DEF ParseStart, Reading, InsertMethodChar, Continue, Fail, Outside
  <2> QED
    BY <2>1 DEF StatusInv, StatusHasThreeDigits, REQUEST, RESPONSE
<1>3. CASE ParseMethod \/ ParseUri
  <2>1. state \in {"METHOD", "URI"} /\ UNCHANGED type
    BY <1>3 DEF ParseMethod, ParseUri, Reading, Outside
  <2> QED
    BY <2>1 DEF StatusInv
<1>4. CASE ParseVersion
  <2>1. state = "VERSION" /\ UNCHANGED type
    BY <1>4 DEF ParseVersion, Reading, Outside
  <2>2. \/ UNCHANGED line
        \/ line' = [line EXCEPT !.version = parse_version(cursor, i)]
    BY <1>4 DEF ParseVersion
  <2>3. line'.status = line.status
    BY <1>1, <2>2 DEF Lines
  <2>4. state' = "VERSION" \/ state' = "STATUS" \/ type = REQUEST
    BY <1>4 DEF ParseVersion, Continue, Fail
  <2> QED
    BY <2>1, <2>3, <2>4 DEF StatusInv, StatusHasThreeDigits, REQUEST, RESPONSE
<1>5. CASE ParseStatus
  BY <1>5, DigitStatus
<1>6. CASE \/ ParseMessage \/ ParseCr \/ ParseLf1 \/ ParseName
           \/ ParseColon \/ ParseValue \/ ParseLf2
  <2>1. /\ state \notin {"START", "METHOD", "URI", "VERSION", "STATUS"}
        /\ state' \notin {"START", "METHOD", "URI", "VERSION", "STATUS"}
        /\ UNCHANGED type /\ line'.status = line.status
    BY <1>1, <1>6 DEF ParseMessage, ParseCr, ParseLf1, ParseName, ParseColon, ParseValue,
       ParseLf2, Reading, ValueByte, StoreHeader, Continue, Fail, Succeed, EndOfLine,
       Outside, Lines
  <2> QED
    BY <2>1 DEF StatusInv, StatusHasThreeDigits
<1> QED
  BY <1>2, <1>3, <1>4, <1>5, <1>6 DEF ParseByte

\* Every step keeps it, and so the status is right in every message.
LEMMA NextStatus == IInv /\ StatusInv /\ [Next]_vars => StatusInv'
<1> SUFFICES ASSUME IInv, StatusInv, [Next]_vars PROVE StatusInv'
  OBVIOUS
<1>1. CASE ParseByte
  BY <1>1, ByteStatus
<1>2. CASE UNCHANGED <<type, state, stream, i, line>>
  <2>1. Ch' = Ch
    BY <1>2 DEF Ch, At
  <2> QED
    BY <1>2, <2>1 DEF StatusInv, StatusHasThreeDigits
<1>3. ASSUME NEW t, NEW s, MsgInit(t, s) PROVE StatusInv'
  BY <1>3 DEF MsgInit, StatusInv, StatusHasThreeDigits, NoLine, HTTP_STATUS_MAX
<1>4. ASSUME \/ ReturnUsedUp \/ Free \/ UNCHANGED vars
             \/ \E capacity \in Capacities : Call(capacity)
             \/ \E n \in Chunks : Receive(n)
      PROVE  UNCHANGED <<type, state, stream, i, line>>
  BY <1>4 DEF ReturnUsedUp, Free, Call, Receive, vars, peer, parser
<1> QED
  BY <1>1, <1>2, <1>3, <1>4 DEF Next, MessageNext

\* Whatever a response's bytes, cutting, capacities and failures, and however
\* often the caller calls again after any of them: once its first line has been
\* read, its status is from 100 to 999.
THEOREM StatusIsInRange == Spec => []StatusHasThreeDigits
<1>1. Init => StatusInv
  BY DEF Init, StatusInv, StatusHasThreeDigits, NoLine, HTTP_STATUS_MAX
<1>2. Spec => []StatusInv
  BY <1>1, ReachableIInv, NextStatus, PTL DEF Spec
<1>3. StatusInv => StatusHasThreeDigits
  BY DEF StatusInv, StatusHasThreeDigits
<1> QED
  BY <1>2, <1>3, PTL

=============================================================================
