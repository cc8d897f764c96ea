---------------------------- MODULE GrammarProofs ----------------------------
(***************************************************************************)
(* The grammar of HttpMessage read from left to right, for the proofs that *)
(* the two parsers implement it.                                           *)
(*                                                                         *)
(* The grammar quantifies over whole heads; a parser has read a part of    *)
(* one.  For each state there is therefore a predicate of what is left:    *)
(* "the bytes from offset p on complete a head of n bytes".  It is the     *)
(* whole grammar when nothing has been read (HeadIsRest), and one more     *)
(* byte turns it into that of the next state, or refutes it (the lemmas    *)
(* named ...Steps).  There are no actions here.                            *)
(***************************************************************************)
EXTENDS HttpMessage, FiniteSetTheorems, SequenceTheorems, WellFoundedInduction, TLAPS

At(j) == B(stream, j)

Over(from, to, bytes) == \A k \in from..(to - 1) : At(k) \in bytes

-----------------------------------------------------------------------------
(* Minima and maxima *)

\* The minimum of a set of naturals that is not empty is in it and below all of it.
LEMMA MinOfNats ==
  ASSUME NEW S \in SUBSET Nat, S # {}
  PROVE  /\ Min(S) \in S
         /\ \A x \in S : Min(S) <= x
<1>1. PICK m \in S : \A y \in S : <<y, m>> \notin OpToRel(<, Nat)
  BY NatLessThanWellFounded, WFMin, Zenon
<1>2. \A y \in S : ~(y < m)
  BY <1>1, Zenon DEF OpToRel
<1>3. \A y \in S : m <= y
  BY <1>2
<1> QED
  BY <1>3 DEF Min

\* A least element is the minimum.
LEMMA MinIs ==
  ASSUME NEW S \in SUBSET Nat, NEW m \in S, \A x \in S : m <= x
  PROVE  Min(S) = m
<1>1. S # {} /\ m \in Nat
  OBVIOUS
<1>2. Min(S) \in S /\ Min(S) <= m
  BY <1>1, MinOfNats
<1>3. m <= Min(S) /\ Min(S) \in Nat
  BY <1>2
<1> QED
  BY <1>1, <1>2, <1>3

\* A set of naturals that is bounded and not empty has a maximum.
LEMMA MaxOfNats ==
  ASSUME NEW S \in SUBSET Nat, S # {}, NEW n \in Nat, \A x \in S : x <= n
  PROVE  /\ Max(S) \in S
         /\ \A x \in S : x <= Max(S)
<1> DEFINE above == {n - x : x \in S}
<1>2. above \in SUBSET Nat /\ above # {}
  <2>1. \A x \in S : n - x \in Nat
    OBVIOUS
  <2> QED
    BY <2>1
<1>3. PICK d \in above : \A y \in above : d <= y
  <2> HIDE DEF above
  <2> QED
    BY <1>2, MinOfNats
<1>4. PICK m \in S : d = n - m
  BY <1>3
<1>5. \A x \in S : m >= x
  BY <1>3, <1>4
<1> QED
  BY <1>5 DEF Max

\* A greatest element is the maximum.
LEMMA MaxIs ==
  ASSUME NEW S \in SUBSET Nat, NEW m \in S, \A x \in S : x <= m
  PROVE  Max(S) = m
<1>1. \A y \in S : m >= y
  OBVIOUS
<1>2. \A x \in S : (\A y \in S : x >= y) => x = m
  OBVIOUS
<1> QED
  BY <1>1, <1>2 DEF Max

-----------------------------------------------------------------------------
(* The grammar, in terms of the bytes that the parser looks at *)

Digits     == 48..57
CrlfBytes  == {CR, LF}
BlankBytes == {CR, LF, SP}
UriBytes   == 33..126 \cup 160..255
TextBytes  == 32..126 \cup 160..255
ValueBytes == {HTAB} \cup TextBytes

\* What is needed of the stream and of the constants
Given == stream \in Seq(Byte) /\ MethodMax \in Nat /\ Versions \subseteq Digits \X Digits

\* A head is the first n bytes.
HeadIs(n) == IsHead(stream, type, n)

LeadAt(a) ==
  /\ a < Len(stream) /\ ~IsCrlf(At(a))
  /\ \A k \in 0..(a - 1) : IsCrlf(At(k))

\* A line ends at p, and the next begins at q.
LineEnd(p, q) ==
  \/ p < Len(stream) /\ At(p) = LF /\ q = p + 1
  \/ p + 1 < Len(stream) /\ At(p) = CR /\ At(p + 1) = LF /\ q = p + 2

VersionAt(p) == IsVersion(stream, p)

\* [p, q) is a header line.
HeaderAt(p, q) ==
  \E c, e \in Nat :
    /\ p < c /\ c < e
    /\ Over(p, c, Tokens) /\ At(c) = COLON /\ Over(c + 1, e, ValueBytes)
    /\ LineEnd(e, q)

\* The bytes of [p, n) are header lines and an empty line.
StartsIn(p, n) == {k \in p..(n - 1) : k = p \/ At(k - 1) = LF}

HeadersTo(p, n) ==
  LET starts == StartsIn(p, n)
      last   == Max(starts)
  IN  /\ p < n
      /\ LineEnd(last, n)
      /\ \A k \in starts \ {last} : HeaderAt(k, Min({r \in starts : r > k}))

-----------------------------------------------------------------------------
(* What makes the first n bytes a head, from offset p on, when the parser   *)
(* is about to read the byte at p                                           *)

\* a line ends at p
RestFromEnd(p, n) == \E q \in Nat : LineEnd(p, q) /\ HeadersTo(q, n)

\* the value of a header
RestOfValue(p, n) == \E e \in Nat : p <= e /\ Over(p, e, ValueBytes) /\ RestFromEnd(e, n)

\* its name
RestOfName(p, n) ==
  \E c \in Nat : p <= c /\ Over(p, c, Tokens) /\ At(c) = COLON /\ RestOfValue(c + 1, n)

\* the reason behind a status
RestOfMessage(p, n) == \E e \in Nat : p <= e /\ Over(p, e, TextBytes) /\ RestFromEnd(e, n)

\* a status that begins at d
RestOfStatus(d, p, n) ==
  \E w \in Nat :
    /\ p <= w /\ d + 3 <= w
    /\ Over(d, w - 3, {48}) /\ Over(w - 3, w, Digits) /\ At(w - 3) # 48
    /\ RestFromEnd(w, n) \/ (At(w) = SP /\ RestOfMessage(w + 1, n))

\* a version that begins at c
RestOfVersion(c, p, n) ==
  /\ p <= c + 8
  /\ VersionAt(c)
  /\ IF type = "REQUEST"
       THEN \/ RestFromEnd(c + 8, n)
            \/ c + 8 < Len(stream) /\ At(c + 8) = SP /\ HeadersTo(c + 9, n)
       ELSE At(c + 8) \in BlankBytes /\ RestOfStatus(c + 9, c + 9, n)

\* a URI that begins at c
RestOfUri(c, p, n) ==
  \E v \in Nat :
    /\ p <= v /\ c < v
    /\ Over(p, v, UriBytes)
    /\ RestFromEnd(v, n) \/ (At(v) = SP /\ RestOfVersion(v + 1, v + 1, n))

\* a method that begins at a
RestOfMethod(a, p, n) ==
  \E u \in Nat :
    /\ p <= u /\ a < u /\ u <= a + MethodMax
    /\ Over(p, u, Tokens) /\ At(u) = SP
    /\ RestOfUri(u + 1, u + 1, n)

\* a first line that begins at a
RestOfFirst(a, n) ==
  IF type = "REQUEST" THEN RestOfMethod(a, a, n) ELSE RestOfVersion(a, a, n)

\* the blank lines before it
RestFromStart(p, n) ==
  \E a \in Nat :
    /\ p <= a /\ a < Len(stream)
    /\ Over(p, a, CrlfBytes) /\ At(a) \notin CrlfBytes
    /\ RestOfFirst(a, n)

\* the LF of a line's end
RestFromCr(p, n) == p < Len(stream) /\ At(p) = LF /\ HeadersTo(p + 1, n)

\* the LF of the empty line's end
RestFromLastCr(p, n) == p < Len(stream) /\ At(p) = LF /\ n = p + 1

-----------------------------------------------------------------------------
(* It is the grammar, in other terms *)

\* The classes of the grammar are those of the parser.
LEMMA ClassesAgree ==
  \A c : /\ IsToken(c) <=> c \in Tokens
         /\ IsCrlf(c) <=> c \in CrlfBytes
         /\ IsCrlfOrSpace(c) <=> c \in BlankBytes
         /\ IsDigit(c) <=> c \in Digits
         /\ IsZero(c) <=> c \in {48}
         /\ IsUriByte(c) <=> c \in UriBytes
         /\ IsIso8859_1(c) <=> c \in TextBytes
         /\ IsFieldByte(c) <=> c \in ValueBytes
  BY DEF IsToken, Tokens, IsCrlf, CrlfBytes, IsCrlfOrSpace, BlankBytes, IsDigit, Digits, IsZero, IsIso8859_1, IsUriByte, IsFieldByte, UriBytes, TextBytes, ValueBytes, CR, LF, SP, HTAB

\* A stretch of bytes of a class
LEMMA OversAgree ==
  \A from, to :
    /\ All(stream, from, to, IsToken) <=> Over(from, to, Tokens)
    /\ All(stream, from, to, IsUriByte) <=> Over(from, to, UriBytes)
    /\ All(stream, from, to, IsZero) <=> Over(from, to, {48})
    /\ All(stream, from, to, IsDigit) <=> Over(from, to, Digits)
    /\ All(stream, from, to, IsIso8859_1) <=> Over(from, to, TextBytes)
    /\ All(stream, from, to, IsFieldByte) <=> Over(from, to, ValueBytes)
  BY ClassesAgree DEF All, B, Over, At

\* The end of a line
LEMMA EndsAgree == \A p, q : Eol(stream, p, q) <=> LineEnd(p, q)
  BY DEF Eol, B, LineEnd, At, CR, LF

\* A header line
LEMMA HeadersAgree ==
  \A p, q \in Nat : HeaderLine(stream, p, q) <=> HeaderAt(p, q)
<1> SUFFICES ASSUME NEW p \in Nat, NEW q \in Nat
             PROVE  HeaderLine(stream, p, q) <=> HeaderAt(p, q)
  OBVIOUS
<1>1. HeaderLine(stream, p, q) <=>
        \E c \in (p + 1)..(q - 2) : \E e \in {q - 1, q - 2} :
          /\ Over(p, c, Tokens) /\ At(c) = COLON
          /\ e > c
          /\ Over(c + 1, e, ValueBytes) /\ LineEnd(e, q)
  BY OversAgree, EndsAgree DEF HeaderLine, B, At, COLON
<1>2. ASSUME NEW c \in (p + 1)..(q - 2), NEW e \in {q - 1, q - 2}, e > c
      PROVE  c \in Nat /\ e \in Nat /\ p < c /\ c < e
  BY <1>2
<1>3. ASSUME NEW c \in Nat, NEW e \in Nat, p < c, c < e, LineEnd(e, q)
      PROVE  c \in (p + 1)..(q - 2) /\ e \in {q - 1, q - 2}
  BY <1>3 DEF LineEnd
<1> QED
  BY <1>1, <1>2, <1>3 DEF HeaderAt

-----------------------------------------------------------------------------
(* Header lines, one by one *)

\* A header line begins with a character of its name, and has one LF, at its
\* end.
LEMMA HeaderHasOneLf ==
  ASSUME NEW p \in Nat, NEW q \in Nat, HeaderAt(p, q)
  PROVE  /\ q > p /\ At(p) \in Tokens /\ At(q - 1) = LF
         /\ \A k \in p..(q - 2) : At(k) # LF
<1>1. PICK c, e \in Nat :
        /\ p < c /\ c < e
        /\ Over(p, c, Tokens) /\ At(c) = COLON /\ Over(c + 1, e, ValueBytes)
        /\ LineEnd(e, q)
  BY DEF HeaderAt
<1>2. LF \notin Tokens /\ LF \notin ValueBytes /\ LF # COLON /\ LF # CR
  BY DEF LF, CR, COLON, HTAB, Tokens, ValueBytes, TextBytes
<1>3. At(p) \in Tokens
  BY <1>1 DEF Over
<1>4. \A k \in p..(e - 1) : At(k) # LF
  <2>1. ASSUME NEW k \in p..(e - 1) PROVE At(k) # LF
    <3>1. k \in p..(c - 1) \/ k = c \/ k \in (c + 1)..(e - 1)
      BY <1>1
    <3> QED
      BY <1>1, <1>2, <3>1 DEF Over
  <2> QED
    BY <2>1
<1>5. CASE At(e) = LF /\ q = e + 1
  BY <1>1, <1>3, <1>4, <1>5
<1>6. CASE At(e) = CR /\ At(e + 1) = LF /\ q = e + 2
  <2>1. \A k \in p..(q - 2) : k \in p..(e - 1) \/ k = e
    BY <1>1, <1>6
  <2>2. q - 1 = e + 1
    BY <1>6
  <2> QED
    BY <1>1, <1>2, <1>3, <1>4, <1>6, <2>1, <2>2
<1> QED
  BY <1>1, <1>5, <1>6 DEF LineEnd

\* Header lines and an empty line are the empty line, or a header line and
\* the others.
LEMMA HeadersUnfold ==
  ASSUME NEW p \in Nat, NEW n \in Nat
  PROVE  HeadersTo(p, n) <=> LineEnd(p, n) \/ \E q \in Nat : HeaderAt(p, q) /\ HeadersTo(q, n)
<1> DEFINE S == StartsIn(p, n)
<1>1. S \in SUBSET Nat /\ \A x \in S : x <= n
  BY DEF StartsIn
<1>2. ASSUME HeadersTo(p, n)
      PROVE  LineEnd(p, n) \/ \E q \in Nat : HeaderAt(p, q) /\ HeadersTo(q, n)
  <2>1. p \in S
    BY <1>2 DEF HeadersTo, StartsIn
  <2>2. PICK last \in S : last = Max(S) /\ \A x \in S : x <= last
    <3> HIDE DEF S
    <3> QED
      BY <1>1, <2>1, MaxOfNats
  <2>3. LineEnd(last, n) /\ \A k \in S \ {last} : HeaderAt(k, Min({r \in S : r > k}))
    BY <1>2, <2>2 DEF HeadersTo
  <2>4. CASE last = p
    BY <2>3, <2>4
  <2>5. CASE last # p
    <3> DEFINE T == {r \in S : r > p}
    <3>1. \A x \in S : x \in Nat /\ x >= p
      BY DEF StartsIn
    <3>2. last \in T
      BY <2>5, <3>1
    <3>3. T \in SUBSET Nat
      BY <1>1
    <3>4. PICK q \in T : q = Min(T) /\ \A x \in T : q <= x
      <4> HIDE DEF T
      <4> QED
        BY <3>2, <3>3, MinOfNats
    <3>5. q \in Nat /\ HeaderAt(p, q)
      BY <2>1, <2>3, <2>5, <3>3, <3>4
    <3>6. StartsIn(q, n) = T
      <4>1. ASSUME NEW k \in StartsIn(q, n) PROVE k \in T
        <5>1. k \in q..(n - 1) /\ (k = q \/ At(k - 1) = LF) /\ q > p
          BY <3>4, <4>1 DEF StartsIn
        <5>2. k # q => k \in S
          BY <3>5, <5>1 DEF StartsIn
        <5> QED
          BY <3>4, <3>5, <5>1, <5>2
      <4>2. ASSUME NEW k \in T PROVE k \in StartsIn(q, n)
        <5>1. k >= q /\ k \in p..(n - 1) /\ At(k - 1) = LF
          BY <3>4, <4>2 DEF StartsIn
        <5> QED
          BY <3>5, <5>1 DEF StartsIn
      <4> QED
        BY <4>1, <4>2
    <3>7. Max(T) = last
      <4>1. \A x \in T : x <= last
        BY <2>2
      <4> HIDE DEF T
      <4> QED
        BY <3>2, <3>3, <4>1, MaxIs
    <3>8. ASSUME NEW k \in T \ {last} PROVE HeaderAt(k, Min({r \in T : r > k}))
      <4>1. {r \in T : r > k} = {r \in S : r > k}
        BY <3>1
      <4>2. k \in S \ {last}
        OBVIOUS
      <4> HIDE DEF S, T
      <4> QED
        BY <2>3, <4>1, <4>2
    <3>9. q < n
      BY <3>4, <3>5 DEF StartsIn
    <3>10. HeadersTo(q, n)
      <4> HIDE DEF T
      <4> QED
        BY <2>3, <3>6, <3>7, <3>8, <3>9 DEF HeadersTo
    <3> QED
      BY <3>5, <3>10
  <2> QED
    BY <2>4, <2>5
<1>3. ASSUME LineEnd(p, n) PROVE HeadersTo(p, n)
  <2>1. p < n /\ S = {p}
    <3>1. CASE n = p + 1
      BY <3>1 DEF StartsIn
    <3>2. CASE At(p) = CR /\ n = p + 2
      <4>1. At(p) # LF
        BY <3>2 DEF CR, LF
      <4>2. p..(n - 1) = {p, p + 1} /\ (p + 1) - 1 = p
        BY <3>2
      <4> QED
        BY <3>2, <4>1, <4>2 DEF StartsIn
    <3> QED
      BY <1>3, <3>1, <3>2 DEF LineEnd
  <2>2. Max({p}) = p
    BY MaxIs
  <2> QED
    BY <1>3, <2>1, <2>2 DEF HeadersTo
<1>4. ASSUME NEW q \in Nat, HeaderAt(p, q), HeadersTo(q, n) PROVE HeadersTo(p, n)
  <2> DEFINE T == StartsIn(q, n)
  <2>1. q > p /\ At(q - 1) = LF /\ \A k \in p..(q - 2) : At(k) # LF
    BY <1>4, HeaderHasOneLf
  <2>2. q < n /\ q \in T
    BY <1>4 DEF HeadersTo, StartsIn
  <2>3. S = {p} \cup T
    <3>1. ASSUME NEW k \in S, k # p PROVE k \in T
      <4>1. k \in p..(n - 1) /\ At(k - 1) = LF /\ k - 1 \in Nat
        BY <3>1 DEF StartsIn
      <4>2. k >= q
        <5>1. k < q => k - 1 \in p..(q - 2)
          BY <3>1, <4>1
        <5> QED
          BY <2>1, <4>1, <5>1
      <4> QED
        BY <4>1, <4>2 DEF StartsIn
    <3>2. ASSUME NEW k \in T PROVE k \in S
      BY <2>1, <3>2 DEF StartsIn
    <3>3. p \in S
      BY <2>1, <2>2 DEF StartsIn
    <3> QED
      BY <3>1, <3>2, <3>3
  <2>4. T \in SUBSET Nat /\ \A x \in T : x <= n /\ q <= x
    BY DEF StartsIn
  <2>5. PICK last \in T : last = Max(T) /\ \A x \in T : x <= last
    <3> HIDE DEF T
    <3> QED
      BY <2>2, <2>4, MaxOfNats
  <2>6. LineEnd(last, n) /\ \A k \in T \ {last} : HeaderAt(k, Min({r \in T : r > k}))
    BY <1>4, <2>5 DEF HeadersTo
  <2>7. Max(S) = last
    <3>1. last \in S /\ \A x \in S : x <= last
      BY <2>1, <2>3, <2>4, <2>5
    <3> HIDE DEF S
    <3> QED
      BY <1>1, <3>1, MaxIs
  <2>8. ASSUME NEW k \in S \ {last} PROVE HeaderAt(k, Min({r \in S : r > k}))
    <3>1. CASE k = p
      <4>1. {r \in S : r > k} = T
        BY <2>1, <2>3, <2>4, <3>1
      <4>2. Min(T) = q
        <5> HIDE DEF T
        <5> QED
          BY <2>2, <2>4, MinIs
      <4> QED
        BY <1>4, <3>1, <4>1, <4>2
    <3>2. CASE k # p
      <4>1. k \in T \ {last} /\ k > p
        BY <2>1, <2>3, <2>4, <2>8, <3>2
      <4>2. {r \in S : r > k} = {r \in T : r > k}
        BY <2>3, <4>1, <2>4
      <4> HIDE DEF S, T
      <4> QED
        BY <2>6, <4>1, <4>2
    <3> QED
      BY <3>1, <3>2
  <2> HIDE DEF T
  <2> QED
    BY <2>1, <2>2, <2>6, <2>7, <2>8 DEF HeadersTo
<1> QED
  BY <1>2, <1>3, <1>4

-----------------------------------------------------------------------------
(* A head is what the parser has to read from the start *)

\* What the grammar says of a request's line
LEMMA RequestsAgree ==
  ASSUME NEW a \in Nat, NEW q \in Nat
  PROVE  RequestLine(stream, a, q) <=>
           \E u \in (a + 1)..(a + MethodMax) : \E v \in (u + 2)..(Len(stream) - 1) :
             /\ u < Len(stream) /\ At(u) = SP
             /\ Over(a, u, Tokens) /\ Over(u + 1, v, UriBytes)
             /\ \/ LineEnd(v, q)
                \/ /\ At(v) = SP
                   /\ VersionAt(v + 1)
                   /\ \/ LineEnd(v + 9, q)
                      \/ v + 9 < Len(stream) /\ At(v + 9) = SP /\ q = v + 10
  BY OversAgree, EndsAgree DEF RequestLine, VersionAt, B, At

\* and of a response's
LEMMA StatusesAgree ==
  ASSUME NEW a \in Nat, NEW q \in Nat
  PROVE  StatusLine(stream, a, q) <=>
         \E w \in (a + 12)..(Len(stream) - 1) :
           /\ VersionAt(a) /\ At(a + 8) \in BlankBytes
           /\ Over(a + 9, w - 3, {48}) /\ Over(w - 3, w, Digits) /\ ~(At(w - 3) \in {48})
           /\ \/ LineEnd(w, q)
              \/ /\ At(w) = SP
                 /\ \E x \in (w + 1)..(Len(stream) - 1) :
                      Over(w + 1, x, TextBytes) /\ LineEnd(x, q)
<1>1. \A w : /\ IsCrlfOrSpace(B(stream, w)) <=> At(w) \in BlankBytes
             /\ IsZero(B(stream, w)) <=> At(w) \in {48}
             /\ B(stream, w) = SP <=> At(w) = SP
  BY ClassesAgree DEF B, At, SP
<1>2. /\ IsVersion(stream, a) <=> VersionAt(a)
      /\ \A from, to :
           /\ All(stream, from, to, IsZero) <=> Over(from, to, {48})
           /\ All(stream, from, to, IsDigit) <=> Over(from, to, Digits)
           /\ All(stream, from, to, IsIso8859_1) <=> Over(from, to, TextBytes)
           /\ Eol(stream, from, to) <=> LineEnd(from, to)
  BY OversAgree, EndsAgree DEF VersionAt
<1> DEFINE theirs(w) ==
             /\ IsVersion(stream, a)
             /\ IsCrlfOrSpace(B(stream, a + 8))
             /\ All(stream, a + 9, w - 3, IsZero)
             /\ All(stream, w - 3, w, IsDigit)
             /\ ~IsZero(B(stream, w - 3))
             /\ \/ Eol(stream, w, q)
                \/ /\ B(stream, w) = SP
                   /\ \E x \in (w + 1)..(Len(stream) - 1) :
                        All(stream, w + 1, x, IsIso8859_1) /\ Eol(stream, x, q)
           ours(w) ==
             /\ VersionAt(a) /\ At(a + 8) \in BlankBytes
             /\ Over(a + 9, w - 3, {48}) /\ Over(w - 3, w, Digits) /\ ~(At(w - 3) \in {48})
             /\ \/ LineEnd(w, q)
                \/ /\ At(w) = SP
                   /\ \E x \in (w + 1)..(Len(stream) - 1) :
                        Over(w + 1, x, TextBytes) /\ LineEnd(x, q)
<1>3. ASSUME NEW w PROVE theirs(w) <=> ours(w)
  BY <1>1, <1>2
<1>4. StatusLine(stream, a, q) <=> \E w \in (a + 12)..(Len(stream) - 1) : theirs(w)
  BY DEF StatusLine
<1> HIDE DEF theirs, ours
<1>5. StatusLine(stream, a, q) <=> \E w \in (a + 12)..(Len(stream) - 1) : ours(w)
  BY <1>3, <1>4
<1> QED
  BY <1>5 DEF ours

\* A request's line and the headers behind it
LEMMA RequestIsRest ==
  ASSUME Given, type = "REQUEST", NEW a \in Nat, NEW n \in Nat
  PROVE  (\E q \in Nat : a < q /\ RequestLine(stream, a, q) /\ HeadersTo(q, n))
           <=> RestOfMethod(a, a, n)
<1>1. Len(stream) \in Nat /\ MethodMax \in Nat
  BY DEF Given
<1>2. ASSUME NEW q \in Nat, RequestLine(stream, a, q), HeadersTo(q, n)
      PROVE  RestOfMethod(a, a, n)
  <2>1. PICK u \in (a + 1)..(a + MethodMax) : \E v \in (u + 2)..(Len(stream) - 1) :
          /\ u < Len(stream) /\ At(u) = SP
          /\ Over(a, u, Tokens) /\ Over(u + 1, v, UriBytes)
          /\ \/ LineEnd(v, q)
             \/ /\ At(v) = SP
                /\ VersionAt(v + 1)
                /\ \/ LineEnd(v + 9, q)
                   \/ v + 9 < Len(stream) /\ At(v + 9) = SP /\ q = v + 10
    BY <1>2, RequestsAgree
  <2>2. PICK v \in (u + 2)..(Len(stream) - 1) :
          /\ u < Len(stream) /\ At(u) = SP
          /\ Over(a, u, Tokens) /\ Over(u + 1, v, UriBytes)
          /\ \/ LineEnd(v, q)
             \/ /\ At(v) = SP
                /\ VersionAt(v + 1)
                /\ \/ LineEnd(v + 9, q)
                   \/ v + 9 < Len(stream) /\ At(v + 9) = SP /\ q = v + 10
    BY <2>1
  <2>3. u \in Nat /\ v \in Nat /\ v + 1 \in Nat /\ (v + 1) + 8 = v + 9 /\ (v + 1) + 9 = v + 10
    BY <1>1
  <2>4. \A p : LineEnd(p, q) => RestFromEnd(p, n)
    BY <1>2 DEF RestFromEnd
  <2>5. RestFromEnd(v, n) \/ (At(v) = SP /\ RestOfVersion(v + 1, v + 1, n))
    <3>1. CASE LineEnd(v, q)
      BY <2>4, <3>1
    <3>2. CASE At(v) = SP /\ VersionAt(v + 1) /\ LineEnd(v + 9, q)
      BY <2>3, <2>4, <3>2 DEF RestOfVersion
    <3>3. CASE /\ At(v) = SP /\ VersionAt(v + 1)
               /\ v + 9 < Len(stream) /\ At(v + 9) = SP /\ q = v + 10
      BY <1>2, <2>3, <3>3 DEF RestOfVersion
    <3> QED
      BY <2>2, <3>1, <3>2, <3>3
  <2>6. RestOfUri(u + 1, u + 1, n)
    <3>1. u + 1 <= v /\ u + 1 < v
      BY <1>1, <2>3
    <3> QED
      BY <2>2, <2>3, <2>5, <3>1 DEF RestOfUri
  <2>7. a <= u /\ a < u /\ u <= a + MethodMax
    BY <1>1
  <2> QED
    BY <2>2, <2>3, <2>6, <2>7 DEF RestOfMethod
<1>3. ASSUME RestOfMethod(a, a, n)
      PROVE  \E q \in Nat : a < q /\ RequestLine(stream, a, q) /\ HeadersTo(q, n)
  <2>1. PICK u \in Nat :
          /\ a < u /\ u <= a + MethodMax
          /\ Over(a, u, Tokens) /\ At(u) = SP
          /\ RestOfUri(u + 1, u + 1, n)
    BY <1>3 DEF RestOfMethod
  <2>2. PICK v \in Nat :
          /\ u + 1 < v /\ Over(u + 1, v, UriBytes)
          /\ RestFromEnd(v, n) \/ (At(v) = SP /\ RestOfVersion(v + 1, v + 1, n))
    BY <2>1 DEF RestOfUri
  <2>3. /\ (v + 1) + 8 = v + 9 /\ (v + 1) + 9 = v + 10
        /\ v + 9 \in Nat /\ v + 10 \in Nat
    OBVIOUS
  <2>4. PICK q \in Nat :
          /\ HeadersTo(q, n)
          /\ \/ LineEnd(v, q)
             \/ /\ At(v) = SP
                /\ VersionAt(v + 1)
                /\ \/ LineEnd(v + 9, q)
                   \/ v + 9 < Len(stream) /\ At(v + 9) = SP /\ q = v + 10
    <3>1. CASE RestFromEnd(v, n)
      BY <3>1 DEF RestFromEnd
    <3>2. CASE At(v) = SP /\ RestOfVersion(v + 1, v + 1, n)
      <4>1. /\ VersionAt(v + 1)
            /\ \/ RestFromEnd(v + 9, n)
               \/ v + 9 < Len(stream) /\ At(v + 9) = SP /\ HeadersTo(v + 10, n)
        BY <2>3, <3>2 DEF RestOfVersion
      <4>2. CASE RestFromEnd(v + 9, n)
        BY <3>2, <4>1, <4>2 DEF RestFromEnd
      <4>3. CASE v + 9 < Len(stream) /\ At(v + 9) = SP /\ HeadersTo(v + 10, n)
        BY <2>3, <3>2, <4>1, <4>3
      <4> QED
        BY <4>1, <4>2, <4>3
    <3> QED
      BY <2>2, <3>1, <3>2
  <2>5. v < Len(stream) /\ v < q
    <3>1. CASE LineEnd(v, q)
      BY <1>1, <3>1 DEF LineEnd
    <3>2. CASE v + 9 < Len(stream) /\ q = v + 10
      BY <1>1, <3>2
    <3>3. CASE LineEnd(v + 9, q)
      BY <1>1, <3>3 DEF LineEnd
    <3> QED
      BY <2>4, <3>1, <3>2, <3>3
  <2>6. /\ u \in (a + 1)..(a + MethodMax) /\ v \in (u + 2)..(Len(stream) - 1)
        /\ u < Len(stream) /\ a < q
    BY <1>1, <2>1, <2>2, <2>5
  <2>7. RequestLine(stream, a, q)
    BY <2>1, <2>2, <2>4, <2>6, RequestsAgree
  <2> QED
    BY <2>4, <2>6, <2>7
<1> QED
  BY <1>2, <1>3

\* and a response's
LEMMA StatusIsRest ==
  ASSUME Given, type # "REQUEST", NEW a \in Nat, NEW n \in Nat
  PROVE  (\E q \in Nat : a < q /\ StatusLine(stream, a, q) /\ HeadersTo(q, n))
           <=> RestOfVersion(a, a, n)
<1>1. Len(stream) \in Nat
  BY DEF Given
<1>2. ASSUME NEW q \in Nat, StatusLine(stream, a, q), HeadersTo(q, n)
      PROVE  RestOfVersion(a, a, n)
  <2>1. PICK w \in (a + 12)..(Len(stream) - 1) :
          /\ VersionAt(a) /\ At(a + 8) \in BlankBytes
          /\ Over(a + 9, w - 3, {48}) /\ Over(w - 3, w, Digits) /\ ~(At(w - 3) \in {48})
          /\ \/ LineEnd(w, q)
             \/ /\ At(w) = SP
                /\ \E x \in (w + 1)..(Len(stream) - 1) :
                     Over(w + 1, x, TextBytes) /\ LineEnd(x, q)
    BY <1>2, StatusesAgree
  <2>2. w \in Nat /\ a + 9 <= w /\ (a + 9) + 3 <= w /\ a <= a + 8
    BY <1>1
  <2>3. \A p : LineEnd(p, q) => RestFromEnd(p, n)
    BY <1>2 DEF RestFromEnd
  <2>4. ASSUME NEW x \in (w + 1)..(Len(stream) - 1), Over(w + 1, x, TextBytes), LineEnd(x, q)
        PROVE  RestOfMessage(w + 1, n)
    <3>1. x \in Nat /\ w + 1 <= x
      BY <2>2
    <3> QED
      BY <2>3, <2>4, <3>1 DEF RestOfMessage
  <2>5. RestFromEnd(w, n) \/ (At(w) = SP /\ RestOfMessage(w + 1, n))
    BY <2>1, <2>3, <2>4
  <2>6. RestOfStatus(a + 9, a + 9, n)
    BY <2>1, <2>2, <2>5 DEF RestOfStatus
  <2> QED
    BY <2>1, <2>2, <2>6 DEF RestOfVersion
<1>3. ASSUME RestOfVersion(a, a, n)
      PROVE  \E q \in Nat : a < q /\ StatusLine(stream, a, q) /\ HeadersTo(q, n)
  <2>1. VersionAt(a) /\ At(a + 8) \in BlankBytes /\ RestOfStatus(a + 9, a + 9, n)
    BY <1>3 DEF RestOfVersion
  <2>2. PICK w \in Nat :
          /\ (a + 9) + 3 <= w
          /\ Over(a + 9, w - 3, {48}) /\ Over(w - 3, w, Digits) /\ At(w - 3) # 48
          /\ RestFromEnd(w, n) \/ (At(w) = SP /\ RestOfMessage(w + 1, n))
    BY <2>1 DEF RestOfStatus
  <2>3. ASSUME NEW e \in Nat, NEW q \in Nat, LineEnd(e, q)
        PROVE  e < Len(stream) /\ e < q
    BY <1>1, <2>3 DEF LineEnd
  <2>4. PICK q \in Nat :
          /\ HeadersTo(q, n)
          /\ \/ LineEnd(w, q)
             \/ /\ At(w) = SP
                /\ \E x \in Nat : w + 1 <= x /\ Over(w + 1, x, TextBytes) /\ LineEnd(x, q)
    <3>1. CASE RestFromEnd(w, n)
      BY <3>1 DEF RestFromEnd
    <3>2. CASE At(w) = SP /\ RestOfMessage(w + 1, n)
      BY <3>2 DEF RestOfMessage, RestFromEnd
    <3> QED
      BY <2>2, <3>1, <3>2
  <2>5. /\ w < Len(stream) /\ w < q
        /\ \/ LineEnd(w, q)
           \/ /\ At(w) = SP
              /\ \E x \in (w + 1)..(Len(stream) - 1) :
                   Over(w + 1, x, TextBytes) /\ LineEnd(x, q)
    <3>1. CASE LineEnd(w, q)
      BY <2>3, <3>1
    <3>2. ASSUME At(w) = SP, NEW x \in Nat, w + 1 <= x, Over(w + 1, x, TextBytes), LineEnd(x, q)
          PROVE  w < Len(stream) /\ w < q /\ x \in (w + 1)..(Len(stream) - 1)
      <4>1. x < Len(stream) /\ x < q
        BY <2>3, <3>2
      <4> QED
        BY <1>1, <3>2, <4>1
    <3> QED
      BY <2>4, <3>1, <3>2
  <2>6. w \in (a + 12)..(Len(stream) - 1) /\ a < q
    BY <1>1, <2>2, <2>5
  <2>7. StatusLine(stream, a, q)
    BY <2>1, <2>2, <2>5, <2>6, StatusesAgree
  <2> QED
    BY <2>4, <2>6, <2>7
<1> QED
  BY <1>2, <1>3

\* A head, in terms of the bytes that the parser looks at
LEMMA HeadAgrees ==
  ASSUME NEW n \in Nat
  PROVE  HeadIs(n) <=>
           \E a \in 0..(n - 1) : LeadAt(a) /\
             \E q \in (a + 1)..(n - 1) : FirstLine(stream, type, a, q) /\ HeadersTo(q, n)
<1> DEFINE starts(q) == {p \in q..(n - 1) : p = q \/ B(stream, p - 1) = LF}
           theirs(a, q) ==
             /\ FirstLine(stream, type, a, q)
             /\ Eol(stream, Max(starts(q)), n)
             /\ \A p \in starts(q) \ {Max(starts(q))} :
                  HeaderLine(stream, p, Min({r \in starts(q) : r > p}))
<1>1. HeadIs(n) <=> \E a \in 0..(n - 1) : Lead(stream, a) /\
                      \E q \in (a + 1)..(n - 1) : theirs(a, q)
  BY DEF HeadIs, IsHead
<1>2. ASSUME NEW a PROVE Lead(stream, a) <=> LeadAt(a)
  BY DEF Lead, LeadAt, All, B, At, IsCrlf, CR, LF
<1>3. ASSUME NEW a \in 0..(n - 1), NEW q \in (a + 1)..(n - 1)
      PROVE  theirs(a, q) <=> FirstLine(stream, type, a, q) /\ HeadersTo(q, n)
  <2>1. starts(q) = StartsIn(q, n)
    BY DEF StartsIn, B, At, LF
  <2>2. Eol(stream, Max(starts(q)), n) <=> LineEnd(Max(StartsIn(q, n)), n)
    BY <2>1, EndsAgree
  <2>3. ASSUME NEW p \in StartsIn(q, n) \ {Max(StartsIn(q, n))}
        PROVE  HeaderLine(stream, p, Min({r \in starts(q) : r > p}))
                 <=> HeaderAt(p, Min({r \in StartsIn(q, n) : r > p}))
    <3> DEFINE S == StartsIn(q, n)
               T == {r \in S : r > p}
    <3>1. q \in Nat
      OBVIOUS
    <3>2. S \in SUBSET Nat /\ \A x \in S : x <= n
      BY <3>1 DEF StartsIn
    <3>3. p \in Nat /\ p \in S /\ p # Max(S)
      BY <3>2
    <3>4. Max(S) \in S /\ \A x \in S : x <= Max(S)
      <4> HIDE DEF S
      <4> QED
        BY <3>2, <3>3, MaxOfNats
    <3>5. T \in SUBSET Nat /\ T # {}
      <4> HIDE DEF S
      <4>1. PICK last \in S : last = Max(S) /\ p <= last
        BY <3>3, <3>4
      <4>2. last \in Nat /\ last > p
        BY <3>2, <3>3, <4>1
      <4> QED
        BY <3>2, <4>1, <4>2
    <3>6. Min(T) \in Nat
      <4> HIDE DEF T
      <4> QED
        BY <3>5, MinOfNats
    <3>7. Min({r \in starts(q) : r > p}) = Min(T)
      BY <2>1
    <3> HIDE DEF T, starts
    <3>8. HeaderLine(stream, p, Min(T)) <=> HeaderAt(p, Min(T))
      BY <3>3, <3>6, HeadersAgree
    <3> QED
      BY <3>7, <3>8 DEF T
  <2>4. starts(q) \ {Max(starts(q))} = StartsIn(q, n) \ {Max(StartsIn(q, n))}
    BY <2>1
  <2>5. q < n
    OBVIOUS
  <2> HIDE DEF starts
  <2>6. (\A p \in starts(q) \ {Max(starts(q))} :
           HeaderLine(stream, p, Min({r \in starts(q) : r > p})))
        <=> \A p \in StartsIn(q, n) \ {Max(StartsIn(q, n))} :
              HeaderAt(p, Min({r \in StartsIn(q, n) : r > p}))
    BY <2>3, <2>4
  <2> QED
    BY <2>2, <2>5, <2>6 DEF HeadersTo
<1> HIDE DEF theirs, starts
<1> QED
  BY <1>1, <1>2, <1>3

\* A head is what the parser has to read when it begins.
LEMMA HeadIsRest ==
  ASSUME Given, NEW n \in Nat
  PROVE  HeadIs(n) <=> RestFromStart(0, n)
<1>1. \A a, q : FirstLine(stream, type, a, q) <=>
                  IF type = "REQUEST" THEN RequestLine(stream, a, q)
                                    ELSE StatusLine(stream, a, q)
  BY DEF FirstLine
<1>2. \A a \in Nat : (\E q \in Nat : a < q /\ FirstLine(stream, type, a, q) /\ HeadersTo(q, n))
                       <=> RestOfFirst(a, n)
  <2>1. CASE type = "REQUEST"
    BY <1>1, <2>1, RequestIsRest DEF RestOfFirst
  <2>2. CASE type # "REQUEST"
    BY <1>1, <2>2, StatusIsRest DEF RestOfFirst
  <2> QED
    BY <2>1, <2>2
<1>3. \A q : HeadersTo(q, n) => q < n
  BY DEF HeadersTo
<1>4. \A a \in Nat : LeadAt(a) <=> /\ a < Len(stream)
                                   /\ Over(0, a, CrlfBytes) /\ At(a) \notin CrlfBytes
  BY DEF LeadAt, Over, IsCrlf, CrlfBytes
<1>5. ASSUME HeadIs(n) PROVE RestFromStart(0, n)
  <2>1. PICK a \in 0..(n - 1) : LeadAt(a) /\
          \E q \in (a + 1)..(n - 1) : FirstLine(stream, type, a, q) /\ HeadersTo(q, n)
    BY <1>5, HeadAgrees
  <2>2. a \in Nat /\ 0 <= a
    OBVIOUS
  <2>3. PICK q \in (a + 1)..(n - 1) : FirstLine(stream, type, a, q) /\ HeadersTo(q, n)
    BY <2>1
  <2>4. q \in Nat /\ a < q
    BY <2>2
  <2>5. RestOfFirst(a, n)
    BY <1>2, <2>2, <2>3, <2>4
  <2> QED
    BY <1>4, <2>1, <2>2, <2>5 DEF RestFromStart
<1>6. ASSUME RestFromStart(0, n) PROVE HeadIs(n)
  <2>1. PICK a \in Nat : LeadAt(a) /\ RestOfFirst(a, n)
    BY <1>4, <1>6 DEF RestFromStart
  <2>2. PICK q \in Nat : a < q /\ FirstLine(stream, type, a, q) /\ HeadersTo(q, n)
    BY <1>2, <2>1
  <2>3. q < n
    BY <1>3, <2>2
  <2>4. a \in 0..(n - 1) /\ q \in (a + 1)..(n - 1)
    BY <2>2, <2>3
  <2> QED
    BY <2>1, <2>2, <2>4, HeadAgrees
<1> QED
  BY <1>5, <1>6

-----------------------------------------------------------------------------
(* What one more byte leaves to be read *)

\* Which bytes are in which class
LEMMA ClassesApart ==
  /\ \A b \in {CR, LF} : b \notin Tokens /\ b \notin UriBytes /\ b \notin TextBytes
                         /\ b \notin ValueBytes /\ b \notin Digits
                         /\ b \in CrlfBytes /\ b \in BlankBytes /\ b # SP /\ b # COLON
  /\ SP \notin Tokens /\ SP \notin UriBytes /\ SP \notin Digits /\ SP \notin CrlfBytes
  /\ SP \in BlankBytes /\ COLON \notin Tokens
  /\ \A b : b \in CrlfBytes <=> b \in {CR, LF}
  /\ \A b : b \in BlankBytes <=> b \in {CR, LF} \/ b = SP
  /\ CR # LF
  BY DEF CR, LF, SP, HTAB, COLON, Tokens, UriBytes, TextBytes, ValueBytes, Digits, CrlfBytes, BlankBytes

\* The first byte of an interval, and the others
LEMMA OverFirst ==
  ASSUME NEW p \in Nat, NEW q \in Nat, NEW bytes
  PROVE  /\ p < q => (Over(p, q, bytes) <=> At(p) \in bytes /\ Over(p + 1, q, bytes))
         /\ Over(p, p, bytes)
<1>1. p < q => \A k \in p..(q - 1) : k = p \/ k \in (p + 1)..(q - 1)
  OBVIOUS
<1>2. p < q => p \in p..(q - 1) /\ \A k \in (p + 1)..(q - 1) : k \in p..(q - 1)
  OBVIOUS
<1> QED
  BY <1>1, <1>2 DEF Over

\* The end of a line
LEMMA EndSteps ==
  ASSUME NEW p \in Nat, p < Len(stream), NEW n
  PROVE  /\ At(p) = CR => (RestFromEnd(p, n) <=> RestFromCr(p + 1, n))
         /\ At(p) = LF => (RestFromEnd(p, n) <=> HeadersTo(p + 1, n))
         /\ At(p) \notin CrlfBytes => ~RestFromEnd(p, n)
<1>1. p + 1 \in Nat /\ p + 2 \in Nat /\ p + 2 = (p + 1) + 1
  OBVIOUS
<1> QED
  BY <1>1, ClassesApart DEF RestFromEnd, RestFromCr, LineEnd

\* A header's value
LEMMA ValueSteps ==
  ASSUME NEW p \in Nat, p < Len(stream), NEW n
  PROVE  /\ At(p) \in ValueBytes => (RestOfValue(p, n) <=> RestOfValue(p + 1, n))
         /\ At(p) \in CrlfBytes => (RestOfValue(p, n) <=> RestFromEnd(p, n))
         /\ At(p) \notin ValueBytes /\ At(p) \notin CrlfBytes => ~RestOfValue(p, n)
<1>1. \A e \in Nat : p <= e /\ e # p => p < e /\ p + 1 <= e
  OBVIOUS
<1>2. \A e \in Nat : p + 1 <= e => p <= e /\ p < e
  OBVIOUS
<1>3. At(p) \in CrlfBytes => At(p) \notin ValueBytes
  BY ClassesApart
<1> QED
  BY <1>1, <1>2, <1>3, OverFirst, EndSteps DEF RestOfValue

\* A reason
LEMMA MessageSteps ==
  ASSUME NEW p \in Nat, p < Len(stream), NEW n
  PROVE  /\ At(p) \in TextBytes => (RestOfMessage(p, n) <=> RestOfMessage(p + 1, n))
         /\ At(p) \in CrlfBytes => (RestOfMessage(p, n) <=> RestFromEnd(p, n))
         /\ At(p) \notin TextBytes /\ At(p) \notin CrlfBytes => ~RestOfMessage(p, n)
<1>1. \A e \in Nat : p <= e /\ e # p => p < e /\ p + 1 <= e
  OBVIOUS
<1>2. \A e \in Nat : p + 1 <= e => p <= e /\ p < e
  OBVIOUS
<1>3. At(p) \in CrlfBytes => At(p) \notin TextBytes
  BY ClassesApart
<1> QED
  BY <1>1, <1>2, <1>3, OverFirst, EndSteps DEF RestOfMessage

\* A header's name
LEMMA NameSteps ==
  ASSUME NEW p \in Nat, NEW n
  PROVE  /\ At(p) \in Tokens => (RestOfName(p, n) <=> RestOfName(p + 1, n))
         /\ At(p) = COLON => (RestOfName(p, n) <=> RestOfValue(p + 1, n))
         /\ At(p) \notin Tokens /\ At(p) # COLON => ~RestOfName(p, n)
<1>1. \A c \in Nat : p <= c /\ c # p => p < c /\ p + 1 <= c
  OBVIOUS
<1>2. \A c \in Nat : p + 1 <= c => p <= c /\ p < c
  OBVIOUS
<1> QED
  BY <1>1, <1>2, ClassesApart, OverFirst DEF RestOfName

\* The beginning of a header line, or of the empty line
LEMMA LineSteps ==
  ASSUME NEW p \in Nat, p < Len(stream), NEW n \in Nat
  PROVE  /\ At(p) = CR => (HeadersTo(p, n) <=> RestFromLastCr(p + 1, n))
         /\ At(p) = LF => (HeadersTo(p, n) <=> n = p + 1)
         /\ At(p) \in Tokens => (HeadersTo(p, n) <=> RestOfName(p + 1, n))
         /\ At(p) \notin Tokens /\ At(p) \notin CrlfBytes => ~HeadersTo(p, n)
<1>1. HeadersTo(p, n) <=> LineEnd(p, n) \/ \E q \in Nat : HeaderAt(p, q) /\ HeadersTo(q, n)
  BY HeadersUnfold
<1>2. \A q \in Nat : HeaderAt(p, q) => At(p) \in Tokens
  BY HeaderHasOneLf
<1>3. LineEnd(p, n) => At(p) \in CrlfBytes
  BY ClassesApart DEF LineEnd
<1>4. (\E q \in Nat : HeaderAt(p, q) /\ HeadersTo(q, n)) <=> At(p) \in Tokens /\ RestOfName(p + 1, n)
  <2>1. ASSUME NEW q \in Nat, HeaderAt(p, q), HeadersTo(q, n)
        PROVE  At(p) \in Tokens /\ RestOfName(p + 1, n)
    <3>1. PICK c, e \in Nat :
            /\ p < c /\ c < e
            /\ Over(p, c, Tokens) /\ At(c) = COLON /\ Over(c + 1, e, ValueBytes)
            /\ LineEnd(e, q)
      BY <2>1 DEF HeaderAt
    <3>2. c + 1 <= e /\ p + 1 <= c
      BY <3>1
    <3>3. RestOfValue(c + 1, n)
      BY <2>1, <3>1, <3>2 DEF RestOfValue, RestFromEnd
    <3>4. At(p) \in Tokens /\ Over(p + 1, c, Tokens)
      BY <3>1, OverFirst
    <3> QED
      BY <3>1, <3>2, <3>3, <3>4 DEF RestOfName
  <2>2. ASSUME At(p) \in Tokens, RestOfName(p + 1, n)
        PROVE  \E q \in Nat : HeaderAt(p, q) /\ HeadersTo(q, n)
    <3>1. PICK c \in Nat : /\ p + 1 <= c /\ Over(p + 1, c, Tokens) /\ At(c) = COLON
                           /\ RestOfValue(c + 1, n)
      BY <2>2 DEF RestOfName
    <3>2. PICK e \in Nat : /\ c + 1 <= e /\ Over(c + 1, e, ValueBytes)
                           /\ RestFromEnd(e, n)
      BY <3>1 DEF RestOfValue
    <3>3. PICK q \in Nat : LineEnd(e, q) /\ HeadersTo(q, n)
      BY <3>2 DEF RestFromEnd
    <3>4. p < c /\ c < e
      BY <3>1, <3>2
    <3>5. Over(p, c, Tokens)
      BY <2>2, <3>1, <3>4, OverFirst
    <3> QED
      BY <3>1, <3>2, <3>3, <3>4, <3>5 DEF HeaderAt
  <2> QED
    BY <2>1, <2>2
<1>5. (p + 1) + 1 = p + 2
  OBVIOUS
<1>6. At(p) = CR => (LineEnd(p, n) <=> RestFromLastCr(p + 1, n))
  BY <1>5, ClassesApart DEF LineEnd, RestFromLastCr
<1>7. At(p) = LF => (LineEnd(p, n) <=> n = p + 1)
  BY ClassesApart DEF LineEnd
<1> QED
  BY <1>1, <1>3, <1>4, <1>6, <1>7, ClassesApart

\* Blank lines, and the first byte of a message
LEMMA StartSteps ==
  ASSUME NEW p \in Nat, p < Len(stream), NEW n
  PROVE  /\ At(p) \in CrlfBytes => (RestFromStart(p, n) <=> RestFromStart(p + 1, n))
         /\ At(p) \notin CrlfBytes => (RestFromStart(p, n) <=> RestOfFirst(p, n))
<1>1. \A a \in Nat : p <= a /\ a # p => p < a /\ p + 1 <= a
  OBVIOUS
<1>2. \A a \in Nat : p + 1 <= a => p <= a /\ p < a
  OBVIOUS
<1> QED
  BY <1>1, <1>2, OverFirst DEF RestFromStart

\* The method
LEMMA MethodSteps ==
  ASSUME NEW a \in Nat, NEW p \in Nat, a <= p, NEW n
  PROVE  /\ At(p) \in Tokens => (RestOfMethod(a, p, n) <=> RestOfMethod(a, p + 1, n))
         /\ At(p) = SP /\ a < p /\ p <= a + MethodMax =>
              (RestOfMethod(a, p, n) <=> RestOfUri(p + 1, p + 1, n))
         /\ At(p) \notin Tokens /\ At(p) # SP => ~RestOfMethod(a, p, n)
         /\ At(p) \notin Tokens /\ a = p => ~RestOfMethod(a, p, n)
         /\ At(p) # SP /\ p = a + MethodMax => ~RestOfMethod(a, p, n)
<1>1. \A u \in Nat : p <= u /\ u # p => p < u /\ p + 1 <= u
  OBVIOUS
<1>2. \A u \in Nat : p + 1 <= u => p <= u /\ p < u
  OBVIOUS
<1>3. \A u \in Nat : p < u => ~(u <= p)
  OBVIOUS
<1> QED
  BY <1>1, <1>2, <1>3, ClassesApart, OverFirst DEF RestOfMethod

\* The URI
LEMMA UriSteps ==
  ASSUME NEW c \in Nat, NEW p \in Nat, c <= p, p < Len(stream), NEW n
  PROVE  /\ At(p) \in UriBytes => (RestOfUri(c, p, n) <=> RestOfUri(c, p + 1, n))
         /\ At(p) = SP /\ c # p => (RestOfUri(c, p, n) <=> RestOfVersion(p + 1, p + 1, n))
         /\ At(p) \in CrlfBytes /\ c # p => (RestOfUri(c, p, n) <=> RestFromEnd(p, n))
         /\ At(p) \notin UriBytes /\ At(p) \notin BlankBytes => ~RestOfUri(c, p, n)
         /\ At(p) \in BlankBytes /\ c = p => ~RestOfUri(c, p, n)
<1>1. \A v \in Nat : p <= v /\ v # p => p < v /\ p + 1 <= v
  OBVIOUS
<1>2. \A v \in Nat : p + 1 <= v => p <= v /\ p < v
  OBVIOUS
<1>3. (c # p => c < p) /\ ~(p < p)
  OBVIOUS
<1>4. /\ At(p) \in UriBytes => At(p) \notin CrlfBytes /\ At(p) # SP
      /\ At(p) \in CrlfBytes \/ At(p) = SP <=> At(p) \in BlankBytes
      /\ At(p) \in BlankBytes => At(p) \notin UriBytes
      /\ At(p) \in CrlfBytes => At(p) # SP
  BY ClassesApart
<1>5. At(p) \notin CrlfBytes => ~RestFromEnd(p, n)
  BY EndSteps
<1>6. ASSUME At(p) \in UriBytes PROVE RestOfUri(c, p, n) <=> RestOfUri(c, p + 1, n)
  BY <1>1, <1>2, <1>4, <1>5, <1>6, OverFirst DEF RestOfUri
<1>7. ASSUME At(p) \notin UriBytes
      PROVE  RestOfUri(c, p, n) <=>
               c < p /\ (RestFromEnd(p, n) \/ (At(p) = SP /\ RestOfVersion(p + 1, p + 1, n)))
  BY <1>1, <1>7, OverFirst DEF RestOfUri
<1> QED
  BY <1>3, <1>4, <1>5, <1>6, <1>7

\* No byte of a version ends it, and it begins with a letter.
LEMMA VersionBytes ==
  ASSUME Given, NEW c \in Nat, VersionAt(c), NEW k \in Nat, c <= k, k < c + 8
  PROVE  At(k) \notin BlankBytes /\ (k = c => At(k) \in Tokens)
<1> DEFINE text == SubSeq(stream, c + 1, c + 8)
<1>1. stream \in Seq(Byte) /\ Len(stream) \in Nat /\ c + 8 <= Len(stream)
  BY DEF Given, VersionAt, IsVersion
<1>2. ASSUME NEW j \in 1..8 PROVE text[j] = stream[c + j]
  <2>1. /\ c + 1 \in 1..(Len(stream) + 1) /\ c + 8 \in 0..Len(stream)
        /\ j \in 1..((c + 8) - (c + 1) + 1) /\ (c + 1) + j - 1 = c + j
    BY <1>1
  <2>2. text[j] = stream[(c + 1) + j - 1]
    BY <1>1, <2>1
  <2> QED
    BY <2>1, <2>2
<1>3. PICK v \in Digits \X Digits : text = <<72, 84, 84, 80, 47, v[1], 46, v[2]>>
  BY DEF VersionAt, IsVersion, Given
<1> HIDE DEF text
<1>4. text[1] = 72 /\ \A j \in 1..8 : text[j] \notin BlankBytes
  <2>1. v[1] \in Digits /\ v[2] \in Digits
    OBVIOUS
  <2>2. PICK x \in Digits, y \in Digits : x = v[1] /\ y = v[2]
    BY <2>1, Zenon
  <2>3. text = <<72, 84, 84, 80, 47, x, 46, y>>
    BY <1>3, <2>2
  <2> QED
    BY <2>3 DEF BlankBytes, Digits, CR, LF, SP
<1>5. (k - c) + 1 \in 1..8 /\ c + ((k - c) + 1) = k + 1
  OBVIOUS
<1>6. text[(k - c) + 1] = stream[k + 1]
  <2>1. text[(k - c) + 1] = stream[c + ((k - c) + 1)]
    BY <1>2, <1>5, Zenon
  <2> QED
    BY <1>5, <2>1, Zenon
<1>7. k = c => (k - c) + 1 = 1
  OBVIOUS
<1>8. 72 \in Tokens
  BY DEF Tokens
<1> QED
  BY <1>4, <1>5, <1>6, <1>7, <1>8 DEF At, B

\* The version
LEMMA VersionSteps ==
  ASSUME Given, NEW c \in Nat, NEW p \in Nat, c <= p, p < Len(stream), NEW n
  PROVE  /\ At(p) \notin BlankBytes \/ p = c =>
              (RestOfVersion(c, p, n) <=> RestOfVersion(c, p + 1, n))
         /\ At(p) \in BlankBytes /\ ~(p = c + 8 /\ VersionAt(c)) => ~RestOfVersion(c, p, n)
         /\ At(p) \in BlankBytes /\ p = c + 8 /\ VersionAt(c) =>
              (RestOfVersion(c, p, n) <=>
                 IF type = "REQUEST"
                   THEN IF At(p) = SP THEN HeadersTo(p + 1, n) ELSE RestFromEnd(p, n)
                   ELSE RestOfStatus(p + 1, p + 1, n))
<1>1. Len(stream) \in Nat
  BY DEF Given
<1>2. RestOfVersion(c, p, n) => At(c + 8) \in BlankBytes
  <2>1. ASSUME RestFromEnd(c + 8, n) PROVE At(c + 8) \in BlankBytes
    BY <2>1, ClassesApart DEF RestFromEnd, LineEnd
  <2> QED
    BY <2>1, ClassesApart DEF RestOfVersion
<1>3. ASSUME At(p) \notin BlankBytes \/ p = c
      PROVE  RestOfVersion(c, p, n) <=> RestOfVersion(c, p + 1, n)
  <2>1. RestOfVersion(c, p, n) => p + 1 <= c + 8
    <3>1. RestOfVersion(c, p, n) => p <= c + 8
      BY DEF RestOfVersion
    <3>2. RestOfVersion(c, p, n) => p # c + 8
      BY <1>2, <1>3
    <3> QED
      BY <3>1, <3>2
  <2>2. p + 1 <= c + 8 => p <= c + 8
    OBVIOUS
  <2> QED
    BY <2>1, <2>2 DEF RestOfVersion
<1>4. ASSUME At(p) \in BlankBytes, ~(p = c + 8 /\ VersionAt(c)), RestOfVersion(c, p, n)
      PROVE  FALSE
  <2>1. VersionAt(c) /\ p <= c + 8
    BY <1>4 DEF RestOfVersion
  <2>2. ~(p < c + 8)
    BY <1>4, <2>1, VersionBytes
  <2>3. p = c + 8
    BY <2>1, <2>2
  <2> QED
    BY <1>4, <2>1, <2>3 DEF VersionAt
<1>5. ASSUME At(p) \in BlankBytes, p = c + 8, VersionAt(c)
      PROVE  RestOfVersion(c, p, n) <=>
               IF type = "REQUEST"
                 THEN IF At(p) = SP THEN HeadersTo(p + 1, n) ELSE RestFromEnd(p, n)
                 ELSE RestOfStatus(p + 1, p + 1, n)
  <2>1. VersionAt(c) /\ p <= c + 8 /\ c + 9 = p + 1 /\ c + 8 < Len(stream)
    BY <1>1, <1>5 DEF VersionAt
  <2>2. At(p) = SP => ~RestFromEnd(p, n)
    BY ClassesApart, EndSteps
  <2> QED
    BY <1>5, <2>1, <2>2 DEF RestOfVersion
<1> QED
  BY <1>3, <1>4, <1>5

\* The status
LEMMA StatusSteps ==
  ASSUME NEW d \in Nat, NEW p \in Nat, d <= p, p < Len(stream), NEW n
  PROVE  /\ At(p) \in Digits => (RestOfStatus(d, p, n) <=> RestOfStatus(d, p + 1, n))
         /\ At(p) \notin Digits =>
              (RestOfStatus(d, p, n) <=>
                 /\ d + 3 <= p
                 /\ Over(d, p - 3, {48}) /\ Over(p - 3, p, Digits) /\ At(p - 3) # 48
                 /\ RestFromEnd(p, n) \/ (At(p) = SP /\ RestOfMessage(p + 1, n)))
<1>1. \A w \in Nat : p <= w /\ w # p => p < w /\ p + 1 <= w
  OBVIOUS
<1>2. \A w \in Nat : p + 1 <= w => p <= w /\ p < w
  OBVIOUS
<1>3. ASSUME At(p) \in Digits PROVE RestOfStatus(d, p, n) <=> RestOfStatus(d, p + 1, n)
  <2>1. ~RestFromEnd(p, n) /\ At(p) # SP
    BY <1>3, ClassesApart, EndSteps
  <2> QED
    BY <1>1, <1>2, <2>1 DEF RestOfStatus
<1>4. ASSUME NEW w \in Nat, p < w, d + 3 <= w,
             Over(d, w - 3, {48}), Over(w - 3, w, Digits)
      PROVE  At(p) \in Digits
  <2>1. p \in d..((w - 3) - 1) \/ p \in (w - 3)..(w - 1)
    BY <1>4
  <2> QED
    BY <1>4, <2>1 DEF Over, Digits
<1>5. ASSUME At(p) \notin Digits, NEW w \in Nat, p <= w, d + 3 <= w,
             Over(d, w - 3, {48}), Over(w - 3, w, Digits)
      PROVE  w = p
  BY <1>1, <1>4, <1>5
<1>6. p <= p
  OBVIOUS
<1> QED
  BY <1>3, <1>5, <1>6 DEF RestOfStatus

\* What is left of a head when its bytes from p on are left is not behind p.
LEMMA RestsBeyond ==
  ASSUME NEW n \in Nat
  PROVE  /\ \A p \in Nat : /\ HeadersTo(p, n) => p < n
                           /\ RestFromCr(p, n) => p < n
                           /\ RestFromLastCr(p, n) => p < n
                           /\ RestFromStart(p, n) => p < n
                           /\ RestOfMessage(p, n) => p < n
                           /\ RestOfName(p, n) => p < n
                           /\ RestOfValue(p, n) => p < n
         /\ \A c, p \in Nat : /\ RestOfMethod(c, p, n) => p < n
                              /\ RestOfUri(c, p, n) => p < n
                              /\ RestOfVersion(c, p, n) => p < n
                              /\ RestOfStatus(c, p, n) => p < n
<1>1. \A p \in Nat : HeadersTo(p, n) => p < n
  BY DEF HeadersTo
<1>2. ASSUME NEW p \in Nat, RestFromEnd(p, n) PROVE p < n
  <2>1. PICK q \in Nat : LineEnd(p, q) /\ HeadersTo(q, n)
    BY <1>2 DEF RestFromEnd
  <2>2. q = p + 1 \/ q = p + 2
    BY <2>1 DEF LineEnd
  <2>3. q < n
    BY <1>1, <2>1
  <2> QED
    BY <2>2, <2>3
<1>3. ASSUME NEW p \in Nat, RestOfValue(p, n) PROVE p < n
  <2>1. PICK e \in Nat : p <= e /\ RestFromEnd(e, n)
    BY <1>3 DEF RestOfValue
  <2> QED
    BY <1>2, <2>1
<1>4. ASSUME NEW p \in Nat, RestOfMessage(p, n) PROVE p < n
  <2>1. PICK e \in Nat : p <= e /\ RestFromEnd(e, n)
    BY <1>4 DEF RestOfMessage
  <2> QED
    BY <1>2, <2>1
<1>5. ASSUME NEW p \in Nat, RestOfName(p, n) PROVE p < n
  <2>1. PICK c \in Nat : p <= c /\ RestOfValue(c + 1, n)
    BY <1>5 DEF RestOfName
  <2>2. c + 1 < n
    BY <1>3, <2>1
  <2> QED
    BY <2>1, <2>2
<1>6. ASSUME NEW d \in Nat, NEW p \in Nat, RestOfStatus(d, p, n) PROVE p < n
  <2>1. PICK w \in Nat : p <= w /\ (RestFromEnd(w, n) \/ RestOfMessage(w + 1, n))
    BY <1>6 DEF RestOfStatus
  <2>2. w < n \/ w + 1 < n
    BY <1>2, <1>4, <2>1
  <2> QED
    BY <2>1, <2>2
<1>7. ASSUME NEW c \in Nat, NEW p \in Nat, RestOfVersion(c, p, n) PROVE p < n
  <2>1. p <= c + 8
    BY <1>7 DEF RestOfVersion
  <2>2. RestFromEnd(c + 8, n) \/ HeadersTo(c + 9, n) \/ RestOfStatus(c + 9, c + 9, n)
    BY <1>7 DEF RestOfVersion
  <2>3. c + 8 < n \/ c + 9 < n
    BY <1>1, <1>2, <1>6, <2>2
  <2> QED
    BY <2>1, <2>3
<1>8. ASSUME NEW c \in Nat, NEW p \in Nat, RestOfUri(c, p, n) PROVE p < n
  <2>1. PICK v \in Nat : p <= v /\ (RestFromEnd(v, n) \/ RestOfVersion(v + 1, v + 1, n))
    BY <1>8 DEF RestOfUri
  <2>2. v < n \/ v + 1 < n
    BY <1>2, <1>7, <2>1
  <2> QED
    BY <2>1, <2>2
<1>9. ASSUME NEW a \in Nat, NEW p \in Nat, RestOfMethod(a, p, n) PROVE p < n
  <2>1. PICK u \in Nat : p <= u /\ RestOfUri(u + 1, u + 1, n)
    BY <1>9 DEF RestOfMethod
  <2>2. u + 1 < n
    BY <1>8, <2>1
  <2> QED
    BY <2>1, <2>2
<1>10. ASSUME NEW p \in Nat, RestFromStart(p, n) PROVE p < n
  <2>1. PICK a \in Nat : p <= a /\ RestOfFirst(a, n)
    BY <1>10 DEF RestFromStart
  <2>2. a < n
    BY <1>7, <1>9, <2>1 DEF RestOfFirst
  <2> QED
    BY <2>1, <2>2
<1>11. ASSUME NEW p \in Nat, RestFromCr(p, n) PROVE p < n
  <2>1. p + 1 < n
    BY <1>1, <1>11 DEF RestFromCr
  <2> QED
    BY <2>1
<1>12. ASSUME NEW p \in Nat, RestFromLastCr(p, n) PROVE p < n
  BY <1>12 DEF RestFromLastCr
<1> QED
  BY <1>1, <1>3, <1>4, <1>5, <1>6, <1>7, <1>8, <1>9, <1>10, <1>11, <1>12

\* The grammar is one of the stream, which stays the same.
LEMMA RestsStay ==
  ASSUME UNCHANGED <<stream, type>>
  PROVE  \A p, c, n : /\ HeadIs(n)' <=> HeadIs(n)
                      /\ Over(c, p, n)' <=> Over(c, p, n)
                      /\ RestFromStart(p, n)' <=> RestFromStart(p, n)
                      /\ RestOfMethod(c, p, n)' <=> RestOfMethod(c, p, n)
                      /\ RestOfUri(c, p, n)' <=> RestOfUri(c, p, n)
                      /\ RestOfVersion(c, p, n)' <=> RestOfVersion(c, p, n)
                      /\ RestOfStatus(c, p, n)' <=> RestOfStatus(c, p, n)
                      /\ RestOfMessage(p, n)' <=> RestOfMessage(p, n)
                      /\ RestFromCr(p, n)' <=> RestFromCr(p, n)
                      /\ HeadersTo(p, n)' <=> HeadersTo(p, n)
                      /\ RestOfName(p, n)' <=> RestOfName(p, n)
                      /\ RestOfValue(p, n)' <=> RestOfValue(p, n)
                      /\ RestFromLastCr(p, n)' <=> RestFromLastCr(p, n)
<1>1. \A k : At(k)' = At(k)
  BY DEF At, B
<1>2. \A p, q, bytes : Over(p, q, bytes)' <=> Over(p, q, bytes)
  BY <1>1 DEF Over
<1>3. \A p, q : LineEnd(p, q)' <=> LineEnd(p, q)
  BY <1>1 DEF LineEnd
<1>4. \A p : VersionAt(p)' <=> VersionAt(p)
  BY DEF VersionAt, IsVersion
<1>5. \A p, q : HeaderAt(p, q)' <=> HeaderAt(p, q)
  BY <1>1, <1>2, <1>3 DEF HeaderAt
<1>6. \A p, n : StartsIn(p, n)' = StartsIn(p, n)
  BY <1>1 DEF StartsIn
<1>7. \A p, n : HeadersTo(p, n)' <=> HeadersTo(p, n)
  BY <1>3, <1>5, <1>6 DEF HeadersTo
<1>8. \A p, n : RestFromEnd(p, n)' <=> RestFromEnd(p, n)
  BY <1>3, <1>7 DEF RestFromEnd
<1>9. \A p, n : RestOfValue(p, n)' <=> RestOfValue(p, n)
  BY <1>2, <1>8 DEF RestOfValue
<1>10. \A p, n : RestOfName(p, n)' <=> RestOfName(p, n)
  BY <1>1, <1>2, <1>9 DEF RestOfName
<1>11. \A p, n : RestOfMessage(p, n)' <=> RestOfMessage(p, n)
  BY <1>2, <1>8 DEF RestOfMessage
<1>12. \A d, p, n : RestOfStatus(d, p, n)' <=> RestOfStatus(d, p, n)
  BY <1>1, <1>2, <1>8, <1>11 DEF RestOfStatus
<1>13. \A c, p, n : RestOfVersion(c, p, n)' <=> RestOfVersion(c, p, n)
  BY <1>1, <1>4, <1>7, <1>8, <1>12 DEF RestOfVersion
<1>14. \A c, p, n : RestOfUri(c, p, n)' <=> RestOfUri(c, p, n)
  BY <1>1, <1>2, <1>8, <1>13 DEF RestOfUri
<1>15. \A a, p, n : RestOfMethod(a, p, n)' <=> RestOfMethod(a, p, n)
  BY <1>1, <1>2, <1>14 DEF RestOfMethod
<1>16. \A p, n : RestFromStart(p, n)' <=> RestFromStart(p, n)
  BY <1>1, <1>2, <1>13, <1>15 DEF RestFromStart, RestOfFirst
<1>17. \A p, n : /\ RestFromCr(p, n)' <=> RestFromCr(p, n)
                 /\ RestFromLastCr(p, n)' <=> RestFromLastCr(p, n)
  BY <1>1, <1>7 DEF RestFromCr, RestFromLastCr
<1>18. \A n : HeadIs(n)' <=> HeadIs(n)
  BY DEF HeadIs
<1> QED
  BY <1>2, <1>7, <1>9, <1>10, <1>11, <1>12, <1>13, <1>14, <1>15, <1>16, <1>17, <1>18

=============================================================================
