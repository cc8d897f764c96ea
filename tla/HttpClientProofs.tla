-------------------------- MODULE HttpClientProofs ---------------------------
(***************************************************************************)
(* Of the program of HttpClient, for any blocks, names, streams and tables: *)
(* what it asks is answered from its buffer, and with the value of the line *)
(* that was sent.                                                          *)
(***************************************************************************)
EXTENDS HttpClient, HttpReadingProofs

\* The program's steps are steps of the parser and its caller, or leave them
\* alone.
LEMMA ClientRefines == ClientSpec => Spec
<1>1. ClientInit => Init
  BY DEF ClientInit
<1>2. [ClientNext]_<<vars, client>> => [Next]_vars
  BY DEF ClientNext, ClientParse, ClientCall, ClientReceive, Move, ClientFree,
         ClientMsgInit, http_header_get_xheader_value, Next, MessageNext
<1> QED
  BY <1>1, <1>2, PTL DEF ClientSpec, Spec

\* A call runs on the buffer's block, and so does the list that it leaves, as
\* long as the buffer has not moved.
PointerInv ==
  /\ pc = "loop" => input = buffer
  /\ ~moved => input = buffer \/ store.x = <<>>

\* There is no list before the first call.
LEMMA InitPointer == ClientInit => PointerInv
  BY DEF ClientInit, Init, PointerInv, EmptyStore

\* An iteration of the loop, or its end, finds the call running.
LEMMA ParseRuns == ParseByte \/ ReturnUsedUp => pc = "loop"
  BY DEF ParseByte, ParseStart, ParseMethod, ParseUri, ParseVersion, ParseStatus,
         ParseMessage, ParseCr, ParseLf1, ParseName, ParseColon, ParseValue,
         ParseLf2, Reading, ReturnUsedUp

\* Every step keeps the pointer to the buffer's block.
LEMMA NextPointer ==
  PointerInv /\ [ClientNext]_<<vars, client>> => PointerInv'
<1> SUFFICES ASSUME PointerInv, [ClientNext]_<<vars, client>>
             PROVE  PointerInv'
  OBVIOUS
<1>1. CASE ClientParse
  BY <1>1, ParseRuns DEF ClientParse, PointerInv
<1>2. ASSUME NEW capacity \in Capacities, ClientCall(capacity)
      PROVE  PointerInv'
  <2>1. UNCHANGED <<buffer, moved, store>>
    BY <1>2 DEF ClientCall, Call, parser
  <2>2. CASE pc' = "loop"
    BY <1>2, <2>1, <2>2 DEF ClientCall, InputOf, PointerInv
  <2>3. CASE pc' # "loop"
    BY <1>2, <2>1, <2>3 DEF ClientCall, InputOf, PointerInv
  <2> QED
    BY <2>2, <2>3
<1>3. ASSUME NEW n \in Chunks, ClientReceive(n)
      PROVE  PointerInv'
  BY <1>3 DEF ClientReceive, Receive, parser, PointerInv
<1>4. CASE Move
  BY <1>4 DEF Move, vars, PointerInv
<1>5. ASSUME NEW xheader \in Names, http_header_get_xheader_value(xheader)
      PROVE  PointerInv'
  BY <1>5 DEF http_header_get_xheader_value, vars, parser, PointerInv
<1>6. CASE ClientFree
  <2>1. pc' = "freed" /\ store' = Freed(store) /\ UNCHANGED <<buffer, input, moved>>
    BY <1>6 DEF ClientFree, Free
  <2>2. store.x = <<>> => store'.x = <<>>
    BY <2>1 DEF Freed
  <2> QED
    BY <2>1, <2>2 DEF PointerInv
<1>7. ASSUME NEW t \in Types, NEW s \in Streams, ClientMsgInit(t, s)
      PROVE  PointerInv'
  BY <1>7 DEF ClientMsgInit, MsgInit, EmptyStore, PointerInv
<1>8. CASE UNCHANGED <<vars, client>>
  BY <1>8 DEF vars, parser, client, PointerInv
<1> QED
  BY <1>1, <1>2, <1>3, <1>4, <1>5, <1>6, <1>7, <1>8 DEF ClientNext

\* Whatever the caller does between, an answer that is given with the buffer
\* where a call last returned 0 or a length is read through a pointer to that
\* buffer, from bytes that were received.
THEOREM AnswersStayInBuffer == ClientSpec => []AnswersReadTheBuffer
<1>1. ClientSpec => []PointerInv
  BY InitPointer, NextPointer, PTL DEF ClientSpec
<1>2. ClientSpec => [](TypeOK /\ WithinInput /\ SlicesInInput)
  BY ClientRefines, TypeCorrect, StaysWithinInput, SlicesStayInInput, PTL
<1>3. PointerInv /\ TypeOK /\ WithinInput /\ SlicesInInput => AnswersReadTheBuffer
  <2> SUFFICES ASSUME PointerInv, TypeOK, WithinInput, SlicesInInput,
                      ~moved, store.x # <<>>
               PROVE  /\ input = buffer
                      /\ \A k \in 1..Len(store.x) :
                           /\ store.x[k].name.end <= received
                           /\ store.x[k].value.end <= received
    BY DEF AnswersReadTheBuffer
  <2>1. input = buffer
    BY DEF PointerInv
  <2>2. ASSUME NEW k \in 1..Len(store.x)
        PROVE  store.x[k].name.end <= received /\ store.x[k].value.end <= received
    <3>1. store.x[k] \in Entries
      BY DEF TypeOK, Stores
    <3>2. /\ store.x[k].name.end \in Nat
          /\ store.x[k].value.start \in Nat
          /\ store.x[k].value.end \in Nat
      BY <3>1, UINT16Assumption DEF Entries, Slices
    <3>3. /\ store.x[k].name.end < store.x[k].value.start
          /\ store.x[k].value.start <= store.x[k].value.end
          /\ store.x[k].value.end <= i
      BY DEF SlicesInInput, Ordered
    <3>4. i <= received /\ i \in Nat /\ received \in Nat
      BY DEF TypeOK, WithinInput, Args
    <3> DEFINE n == store.x[k].name.end
               from == store.x[k].value.start
               to == store.x[k].value.end
    <3>5. /\ n \in Nat /\ from \in Nat /\ to \in Nat
          /\ n < from /\ from <= to /\ to <= i
      BY <3>2, <3>3
    <3> HIDE DEF n, from, to
    <3>6. n <= received /\ to <= received
      BY <3>4, <3>5
    <3> QED
      BY <3>6 DEF n, to
  <2> QED
    BY <2>1, <2>2
<1> QED
  BY <1>1, <1>2, <1>3, PTL

-----------------------------------------------------------------------------
(* The position of an element, by how many are not above it *)

Rank(S, k) == Cardinality({j \in S : j <= k})

\* Every position is some element's, and a lesser element comes before.
LEMMA Ranks ==
  ASSUME NEW S \in SUBSET Nat, IsFiniteSet(S)
  PROVE  /\ Cardinality(S) \in Nat
         /\ \A k \in S : Rank(S, k) \in 1..Cardinality(S)
         /\ \A k, l \in S : k < l => Rank(S, k) < Rank(S, l)
         /\ \A r \in 1..Cardinality(S) : \E k \in S : Rank(S, k) = r
<1> DEFINE Upto(k) == {j \in S : j <= k}
           N == Cardinality(S)
<1>0. N \in Nat
  BY FS_CardinalityType
<1>1. \A k \in S : /\ Upto(k) \in SUBSET S /\ k \in Upto(k)
                   /\ IsFiniteSet(Upto(k))
                   /\ Cardinality(Upto(k)) \in Nat
                   /\ Cardinality(Upto(k)) <= N
  <2> TAKE k \in S
  <2>1. Upto(k) \in SUBSET S /\ k \in Upto(k)
    OBVIOUS
  <2> HIDE DEF Upto
  <2> QED
    BY <2>1, FS_Subset, FS_CardinalityType
<1>2. ASSUME NEW k \in S PROVE Rank(S, k) \in 1..N
  <2>1. Cardinality(Upto(k)) # 0
    <3> HIDE DEF Upto
    <3> QED
      BY <1>1, FS_EmptySet
  <2>2. Rank(S, k) = Cardinality(Upto(k))
    BY DEF Rank
  <2> HIDE DEF Upto, N
  <2> QED
    BY <1>0, <1>1, <2>1, <2>2
<1>3. ASSUME NEW k \in S, NEW l \in S, k < l PROVE Rank(S, k) < Rank(S, l)
  <2>1. Upto(k) \in SUBSET Upto(l) /\ l \in Upto(l) /\ l \notin Upto(k)
    <3>1. \A j \in S : j <= k => j <= l
      BY <1>3
    <3>2. k \in Nat /\ l \in Nat /\ l <= l /\ ~(l <= k)
      BY <1>3
    <3> QED
      BY <3>1, <3>2
  <2>2. Rank(S, k) = Cardinality(Upto(k)) /\ Rank(S, l) = Cardinality(Upto(l))
    BY DEF Rank
  <2> HIDE DEF Upto
  <2>3. /\ Cardinality(Upto(k)) <= Cardinality(Upto(l))
        /\ Cardinality(Upto(k)) # Cardinality(Upto(l))
    <3>1. IsFiniteSet(Upto(l)) /\ Upto(l) # Upto(k)
      BY <1>1, <2>1
    <3> QED
      BY <2>1, <3>1, FS_Subset
  <2>4. Cardinality(Upto(k)) \in Nat /\ Cardinality(Upto(l)) \in Nat
    BY <1>1
  <2> QED
    BY <2>2, <2>3, <2>4
<1>4. \A r \in 1..N : \E k \in S : Rank(S, k) = r
  <2> DEFINE f == [k \in S |-> Rank(S, k)]
  <2>1. f \in [S -> 1..N]
    BY <1>2
  <2>2. \A k, l \in S : f[k] = f[l] => k = l
    <3> SUFFICES ASSUME NEW k \in S, NEW l \in S, f[k] = f[l], k # l PROVE FALSE
      OBVIOUS
    <3>1. k < l \/ l < k
      OBVIOUS
    <3>2. Rank(S, k) < Rank(S, l) \/ Rank(S, l) < Rank(S, k)
      BY <1>3, <3>1
    <3>3. Rank(S, k) \in Nat /\ Rank(S, k) = Rank(S, l)
      BY <1>2
    <3> QED
      BY <3>2, <3>3
  <2>3. f \in Injection(S, 1..N)
    BY <2>1, <2>2 DEF Injection, IsInjective
  <2>4. IsFiniteSet(1..N) /\ Cardinality(1..N) = N
    <3> HIDE DEF N
    <3>1. 0 \in Int /\ 1 \in Int /\ N \in Int
      BY <1>0
    <3> QED
      BY <1>0, <3>1, FS_Interval
  <2>5. f \in Surjection(S, 1..N)
    <3> HIDE DEF f
    <3> QED
      BY <2>3, <2>4, FS_Injection
  <2>6. \A r \in 1..N : \E k \in S : f[k] = r
    <3> HIDE DEF f
    <3> QED
      BY <2>5 DEF Surjection
  <2> QED
    BY <2>6
<1> QED
  BY <1>0, <1>2, <1>3, <1>4

-----------------------------------------------------------------------------
(* What a question is answered *)

\* The texts of the list's entries are sequences of bytes, as is what the
\* caller asks for.
LEMMA TextTypes ==
  ASSUME TypeOK, WithinInput, SlicesInInput, pc # "freed", NEW r \in 1..Len(store.x)
  PROVE  Text(store.x[r].name) \in Seq(Byte)
<1>1. store.x[r] \in Entries
  BY DEF TypeOK, Stores
<1>2. /\ store.x[r].name.start \in Nat
      /\ store.x[r].name.end \in Nat
      /\ store.x[r].value.start \in Nat
      /\ store.x[r].value.end \in Nat
  BY <1>1, UINT16Assumption DEF Entries, Slices
<1>3. /\ store.x[r].name.end < store.x[r].value.start
      /\ store.x[r].value.start <= store.x[r].value.end
      /\ store.x[r].value.end <= i
  BY DEF SlicesInInput, Ordered
<1>4. i <= received /\ i \in Nat /\ received \in Nat /\ received <= Len(stream)
  BY DEF TypeOK, WithinInput, Args
<1>5. stream \in Seq(Byte)
  BY StreamsAssumption DEF TypeOK
<1> DEFINE m == store.x[r].name.start + 1
           n == store.x[r].name.end
<1>6. m \in Int /\ n \in Int /\ 1 <= m /\ n <= Len(stream) /\ Len(stream) \in Nat
  <2>1. Len(stream) \in Nat
    BY <1>5
  <2>2. m \in Int /\ 1 <= m
    BY <1>2
  <2>3. n \in Int
    BY <1>2
  <2>4. n <= i
    BY <1>2, <1>3, <1>4
  <2> HIDE DEF m, n
  <2>5. n <= Len(stream)
    BY <1>4, <2>1, <2>3, <2>4
  <2> QED
    BY <2>1, <2>2, <2>3, <2>5
<1> HIDE DEF m, n
<1>7. \A k \in m..n : stream[k] \in Byte
  BY <1>5, <1>6
<1>8. SubSeq(stream, m, n) \in Seq(Byte)
  BY <1>6, <1>7, SubSeqProperties
<1> QED
  BY <1>8 DEF Text, m, n

\* A stored name matches the name asked for if that begins with it.
LEMMA MatchesBegun ==
  ASSUME NEW x \in Seq(Byte), NEW text \in Seq(Byte)
  PROVE  Matches(x, text)
           <=> \E n \in 0..Len(x) : Folded(text) = Folded(SubSeq(x, 1, n))
<1>1. ASSUME NEW n \in 0..Len(x), Folded(text) = Folded(SubSeq(x, 1, n))
      PROVE  n = Len(text)
  <2>1. Len(x) \in Nat /\ n \in Nat /\ n <= Len(x) /\ Len(text) \in Nat
    OBVIOUS
  <2>2. \A k \in 1..n : x[k] \in Byte
    BY <2>1
  <2>3. SubSeq(x, 1, n) \in Seq(Byte) /\ Len(SubSeq(x, 1, n)) = n
    BY <2>1, <2>2, SubSeqProperties
  <2>4. DOMAIN Folded(text) = 1..Len(text) /\ DOMAIN Folded(SubSeq(x, 1, n)) = 1..n
    BY <2>3 DEF Folded
  <2>5. 1..Len(text) = 1..n
    BY <1>1, <2>4
  <2> QED
    BY <2>1, <2>5
<1>2. Len(text) \in Nat /\ Len(x) \in Nat
  OBVIOUS
<1>3. Len(text) <= Len(x) <=> Len(text) \in 0..Len(x)
  BY <1>2
<1> QED
  BY <1>1, <1>3 DEF Matches

\* The lines read so far are finitely many, and those of the list among them
LEMMA ListedFinite ==
  ASSUME IInv, HeadersRead
  PROVE  /\ ListedOf(RowOf(HeaderLines)) \in SUBSET Nat
         /\ IsFiniteSet(ListedOf(RowOf(HeaderLines)))
<1>1. HeaderLines \in SUBSET Nat /\ \A k \in HeaderLines : k <= i
  BY LinesWithin
<1>2. ListedOf(RowOf(HeaderLines)) \in SUBSET HeaderLines
  BY DEF ListedOf, RowOf
<1>3. IsFiniteSet(HeaderLines)
  BY <1>1, FieldTypes, FS_BoundedSetOfNaturals
<1> QED
  BY <1>1, <1>2, <1>3, FS_Subset

\* If the list's entries are the lines of a set, in their order, the first
\* entry that matches is the one of the first line that does.
LEMMA FirstMatch ==
  ASSUME NEW S \in SUBSET Nat, IsFiniteSet(S), NEW B \in SUBSET S, NEW x,
         store.x \in Seq(Entries), Len(store.x) = Cardinality(S),
         \A k \in S : k \in B <=> Matches(x, Text(store.x[Rank(S, k)].name))
  PROVE  /\ B = {} => Found(x) = 0
         /\ B # {} => Min(B) \in B /\ Found(x) = Rank(S, Min(B)) /\ Found(x) # 0
<1> DEFINE N == Len(store.x)
           M == {r \in 1..N : Matches(x, Text(store.x[r].name))}
<1>1. /\ N \in Nat
      /\ \A k \in S : Rank(S, k) \in 1..N
      /\ \A k, l \in S : k < l => Rank(S, k) < Rank(S, l)
      /\ \A r \in 1..N : \E k \in S : Rank(S, k) = r
  BY Ranks
<1>2. Found(x) = IF M = {} THEN 0 ELSE Min(M)
  BY DEF Found
<1>3. \A k \in B : Rank(S, k) \in M
  BY <1>1
<1>4. \A r \in M : \E k \in B : Rank(S, k) = r
  BY <1>1
<1>5. M \in SUBSET Nat /\ 0 \notin M
  BY <1>1
<1> HIDE DEF M, N
<1>6. CASE B = {}
  BY <1>2, <1>4, <1>6
<1>7. CASE B # {}
  <2>1. Min(B) \in B /\ \A k \in B : Min(B) <= k
    BY <1>7, MinOfNats
  <2>2. ASSUME NEW r \in M PROVE Rank(S, Min(B)) <= r
    <3>1. PICK k \in B : Rank(S, k) = r
      BY <1>4
    <3>2. Min(B) = k \/ Min(B) < k
      <4>1. Min(B) \in Nat /\ k \in Nat /\ Min(B) <= k
        BY <2>1
      <4> QED
        BY <4>1
    <3>3. Rank(S, Min(B)) = r \/ Rank(S, Min(B)) < r
      BY <1>1, <2>1, <3>1, <3>2
    <3>4. Rank(S, Min(B)) \in Nat /\ r \in Nat
      BY <1>3, <1>5, <2>1
    <3> QED
      BY <3>3, <3>4
  <2>3. Rank(S, Min(B)) \in M
    BY <1>3, <2>1
  <2>4. Min(M) = Rank(S, Min(B))
    BY <1>5, <2>2, <2>3, MinIs
  <2> QED
    BY <1>2, <1>5, <2>1, <2>3, <2>4
<1> QED
  BY <1>6, <1>7

\* A question that has just been answered got what the lookup answers now:
\* neither the list, nor the pointers, nor the bytes have changed since.
AnswerInv ==
  asked # NULL =>
    /\ asked \in Names
    /\ store.x = <<>> \/ (input = buffer /\ Found(asked) = 0) => reply = NULL
    /\ store.x # <<>> /\ input = buffer /\ Found(asked) # 0 =>
         reply \in {NULL, Text(store.x[Found(asked)].value)}

\* Every step but the question itself forgets it.
LEMMA NextAnswer == AnswerInv /\ [ClientNext]_<<vars, client>> => AnswerInv'
<1> SUFFICES ASSUME AnswerInv, [ClientNext]_<<vars, client>>
             PROVE  AnswerInv'
  OBVIOUS
<1>1. ASSUME NEW xheader \in Names, http_header_get_xheader_value(xheader)
      PROVE  AnswerInv'
  <2>1. UNCHANGED <<stream, store, buffer, input>> /\ asked' = xheader
    BY <1>1 DEF http_header_get_xheader_value, vars, peer, parser
  <2>2. /\ Found(asked)' = Found(xheader)
        /\ Text(store.x[Found(asked)].value)' = Text(store.x[Found(xheader)].value)
    BY <2>1 DEF Found, Text
  <2>3. /\ store.x = <<>> \/ (input = buffer /\ Found(xheader) = 0) => reply' = NULL
        /\ store.x # <<>> /\ input = buffer /\ Found(xheader) # 0 =>
             reply' \in {NULL, Text(store.x[Found(xheader)].value)}
    BY <1>1 DEF http_header_get_xheader_value, http_slice_new
  <2> QED
    BY <2>1, <2>2, <2>3 DEF AnswerInv
<1>2. CASE UNCHANGED <<vars, client>>
  <2>1. UNCHANGED <<stream, store, buffer, input, asked, reply>>
    BY <1>2 DEF vars, peer, parser, client
  <2>2. /\ Found(asked)' = Found(asked)
        /\ Text(store.x[Found(asked)].value)' = Text(store.x[Found(asked)].value)
    BY <2>1 DEF Found, Text
  <2> QED
    BY <2>1, <2>2 DEF AnswerInv
<1>3. CASE asked' = NULL
  BY <1>3 DEF AnswerInv
<1> QED
  BY <1>1, <1>2, <1>3 DEF ClientNext, ClientParse, ClientCall, ClientReceive, Move,
     ClientFree, ClientMsgInit, NoAnswer

\* The answer is a stored value, and what is stored is what was sent.
LEMMA AnswerIs ==
  IInv /\ SlicesInInput /\ HeadersRead /\ HeadersAreAsSent /\ PointerInv /\ AnswerInv
    => AnswerIsAsSent
<1> DEFINE S == ListedOf(RowOf(HeaderLines))
           nameOf == [k \in S |-> Folded(Text(NameOf(k)))]
           exact  == {k \in S : nameOf[k] = Folded(asked)}
           begun  == {k \in S : \E n \in 0..Len(asked) :
                                  nameOf[k] = Folded(SubSeq(asked, 1, n))}
<1> SUFFICES ASSUME IInv, SlicesInInput, HeadersRead, HeadersAreAsSent, PointerInv,
                    AnswerInv, asked # NULL, ~moved, pc # "freed"
             PROVE  /\ begun = {} => reply = NULL
                    /\ exact # {} /\ Min(exact) = Min(begun) =>
                         reply \in {NULL, Text(ValueOf(Min(exact)))}
  BY DEF AnswerIsAsSent
<1>1. S \in SUBSET Nat /\ IsFiniteSet(S)
  BY ListedFinite
<1>2. /\ Len(store.x) = Cardinality(S)
      /\ \A k \in S : store.x[Rank(S, k)] = [name |-> NameOf(k), value |-> ValueOf(k)]
  BY DEF HeadersAreAsSent, StoreHolds, Rank
<1>3. \A k \in S : /\ store.x[Rank(S, k)].name = NameOf(k)
                   /\ store.x[Rank(S, k)].value = ValueOf(k)
  <2> HIDE DEF S
  <2> TAKE k \in S
  <2>1. store.x[Rank(S, k)] = [name |-> NameOf(k), value |-> ValueOf(k)]
    BY <1>2
  <2> QED
    BY <2>1
<1>4. asked \in Seq(Byte) /\ store.x \in Seq(Entries)
  BY ClientAssumption DEF AnswerInv, IInv, TypeOK, Stores
<1>5. begun \in SUBSET S
  OBVIOUS
<1>6. \A k \in S : k \in begun <=> Matches(asked, Text(store.x[Rank(S, k)].name))
  <2> TAKE k \in S
  <2>1. Rank(S, k) \in 1..Len(store.x)
    <3> HIDE DEF S
    <3> QED
      BY <1>1, <1>2, Ranks
  <2>2. store.x[Rank(S, k)].name = NameOf(k)
    BY <1>3
  <2>3. Text(NameOf(k)) \in Seq(Byte)
    <3> HIDE DEF S
    <3> QED
      BY <2>1, <2>2, TextTypes DEF IInv
  <2>4. Matches(asked, Text(NameOf(k)))
          <=> \E n \in 0..Len(asked) : nameOf[k] = Folded(SubSeq(asked, 1, n))
    BY <1>4, <2>3, MatchesBegun
  <2> QED
    BY <2>2, <2>4
<1>7. /\ begun = {} => Found(asked) = 0
      /\ begun # {} => /\ Min(begun) \in begun
                       /\ Found(asked) = Rank(S, Min(begun))
                       /\ Found(asked) # 0
  <2> HIDE DEF S, begun
  <2> QED
    BY <1>1, <1>2, <1>4, <1>5, <1>6, FirstMatch
<1> HIDE DEF S, begun, exact
<1>8. store.x # <<>> => input = buffer
  BY DEF PointerInv
<1>9. begun = {} => reply = NULL
  BY <1>7, <1>8 DEF AnswerInv
<1>10. ASSUME Min(exact) = Min(begun)
      PROVE  reply \in {NULL, Text(ValueOf(Min(exact)))}
  <2>1. CASE begun = {} \/ store.x = <<>>
    BY <1>9, <2>1 DEF AnswerInv
  <2>2. CASE begun # {} /\ store.x # <<>>
    <3>1. reply \in {NULL, Text(store.x[Rank(S, Min(begun))].value)}
      BY <1>7, <1>8, <2>2 DEF AnswerInv
    <3>2. store.x[Rank(S, Min(begun))].value = ValueOf(Min(exact))
      BY <1>3, <1>5, <1>7, <1>10, <2>2
    <3> QED
      BY <3>1, <3>2
  <2> QED
    BY <2>1, <2>2
<1> QED
  BY <1>9, <1>10

\* Whatever lines the peer sends and whatever the program asks, and however
\* often the buffer has moved and calls have failed: with the buffer where a
\* call last returned 0 or a length, a name that no listed line's name begins
\* is answered NULL, and otherwise the answer is, unless malloc fails, the
\* value that the first such line spells, if that line bears the very name.
THEOREM AnswersAreCorrect == ClientSpec => []AnswerIsAsSent
<1>1. ClientInit => AnswerInv
  BY DEF ClientInit, AnswerInv
<1>2. ClientSpec => []AnswerInv
  BY <1>1, NextAnswer, PTL DEF ClientSpec
<1>3. ClientSpec => []PointerInv
  BY InitPointer, NextPointer, PTL DEF ClientSpec
<1>4. ClientSpec => [](IInv /\ HeadersRead /\ HeadersAreAsSent /\ SlicesInInput)
  BY ClientRefines, ReachableHeaders, HeadersAreCorrect, SlicesStayInInput, PTL
<1> QED
  BY <1>2, <1>3, <1>4, AnswerIs, PTL

=============================================================================
