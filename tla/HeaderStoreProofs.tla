------------------------- MODULE HeaderStoreProofs ---------------------------
(***************************************************************************)
(* Lemmas about the header store and its table, for the proofs about both  *)
(* parsers: what a lookup returns, and what one more header line does to a *)
(* store that holds the lines before it.  There are no bytes and no states *)
(* here; a line is a number, and a later one a larger number.              *)
(***************************************************************************)
EXTENDS HttpHeader, FiniteSetTheorems, SequenceTheorems, WellFoundedInduction, TLAPS

-----------------------------------------------------------------------------
(* The table *)

\* The minimum of a set of naturals that is not empty is in it and below all of it.
LEMMA MinOfNats ==
  ASSUME NEW S \in SUBSET Nat, S # {}
  PROVE  /\ Min(S) \in S
         /\ \A x \in S : Min(S) <= x
<1>1. PICK m \in S : \A y \in S : <<y, m>> \notin OpToRel(<, Nat)
  BY NatLessThanWellFounded, WFMin, Zenon
<1>2. \A y \in S : ~(y < m)
  BY <1>1, Zenon DEF OpToRel
<1>3. \A y \in S : m <= y
  BY <1>2
<1> QED
  BY <1>3 DEF Min

\* The slice that memset leaves is a slice.
LEMMA NoSliceType == NoSlice \in Slices
  BY UINT16Assumption DEF NoSlice, Slices

\* http_header_lookup returns a header of the table or HTTP_HEADERS_UNKNOWN.
LEMMA LookupType ==
  ASSUME NEW input, NEW from
  PROVE  http_header_lookup(input, from) \in KnownHeaders \cup {UNKNOWN}
<1> DEFINE rows == {k \in KnownHeaders : PrefixAt(Table[k], input, from)}
<1>1. rows \in SUBSET Nat
  BY TableAssumption DEF KnownHeaders
<1>2. rows # {} => Min(rows) \in KnownHeaders
  <2> HIDE DEF rows
  <2> SUFFICES ASSUME rows # {} PROVE Min(rows) \in KnownHeaders
    OBVIOUS
  <2>1. Min(rows) \in rows
    BY <1>1, MinOfNats
  <2> QED
    BY <2>1 DEF rows
<1> QED
  BY <1>2 DEF http_header_lookup

-----------------------------------------------------------------------------
(* Minima, maxima, and how many elements are not above one *)

\* A least element is the minimum.
LEMMA MinIs ==
  ASSUME NEW S \in SUBSET Nat, NEW m \in S, \A x \in S : m <= x
  PROVE  Min(S) = m
<1>1. S # {} /\ m \in Nat
  OBVIOUS
<1>2. Min(S) \in S /\ Min(S) <= m
  BY <1>1, MinOfNats
<1>3. m <= Min(S) /\ Min(S) \in Nat
  BY <1>2
<1> QED
  BY <1>1, <1>2, <1>3

\* A greatest element is the maximum.
LEMMA MaxIs ==
  ASSUME NEW S \in SUBSET Nat, NEW m \in S, \A x \in S : x <= m
  PROVE  Max(S) = m
<1>1. \A y \in S : m >= y
  OBVIOUS
<1>2. \A x \in S : (\A y \in S : x >= y) => x = m
  OBVIOUS
<1> QED
  BY <1>1, <1>2 DEF Max

\* A set of naturals that is bounded and not empty has a maximum.
LEMMA MaxOfNats ==
  ASSUME NEW S \in SUBSET Nat, S # {}, NEW n \in Nat, \A x \in S : x <= n
  PROVE  /\ Max(S) \in S
         /\ \A x \in S : x <= Max(S)
<1> DEFINE above == {n - x : x \in S}
<1>2. above \in SUBSET Nat /\ above # {}
  <2>1. \A x \in S : n - x \in Nat
    OBVIOUS
  <2> QED
    BY <2>1
<1>3. PICK d \in above : \A y \in above : d <= y
  <2> HIDE DEF above
  <2> QED
    BY <1>2, MinOfNats
<1>4. PICK m \in S : d = n - m
  BY <1>3
<1>5. \A x \in S : m >= x
  BY <1>3, <1>4
<1> QED
  BY <1>5 DEF Max

-----------------------------------------------------------------------------
(* What one more line does to the store *)

LinesOf(row, h) == {k \in DOMAIN row : row[k] = h}

\* The lines that belong in the list
Listed(row) ==
  {k \in DOMAIN row :
     \/ row[k] = UNKNOWN
     \/ row[k] \in Repeatable /\ \E j \in DOMAIN row : j < k /\ row[j] = row[k]}

\* The store holds the lines whose rows, names and values are given.
Holding(st, row, nm, val) ==
  /\ \A h \in KnownHeaders :
       st.std[h] = IF LinesOf(row, h) = {} THEN NoSlice
                   ELSE val[IF h \in Repeatable THEN Min(LinesOf(row, h))
                                                ELSE Max(LinesOf(row, h))]
  /\ Len(st.x) = Cardinality(Listed(row))
  /\ \A k \in Listed(row) :
       st.x[Cardinality({j \in Listed(row) : j <= k})] =
         [name |-> nm[k], value |-> val[k]]

\* The lines read so far, S, and one more behind them, c
OneMore(S, c, row, more) ==
  /\ S \in SUBSET Nat /\ IsFiniteSet(S)
  /\ c \in Nat /\ \A k \in S : k < c
  /\ row \in [S -> KnownHeaders \cup {UNKNOWN}]
  /\ more \in [S \cup {c} -> KnownHeaders \cup {UNKNOWN}]
  /\ \A k \in S : more[k] = row[k]

\* The lines of each known header
LEMMA LinesGrow ==
  ASSUME NEW S, NEW c, NEW row, NEW more, OneMore(S, c, row, more), NEW h
  PROVE  LinesOf(more, h) = IF more[c] = h THEN LinesOf(row, h) \cup {c} ELSE LinesOf(row, h)
<1>1. DOMAIN row = S /\ DOMAIN more = S \cup {c} /\ c \notin S
  BY DEF OneMore
<1>2. \A k \in S : more[k] = row[k]
  BY DEF OneMore
<1> QED
  BY <1>1, <1>2 DEF LinesOf

\* A line is listed if it is of no known header, or of a repeatable one that
\* has a line already.
LEMMA ListedGrow ==
  ASSUME NEW S, NEW c, NEW row, NEW more, OneMore(S, c, row, more)
  PROVE  /\ Listed(row) \in SUBSET S
         /\ Listed(more) =
              IF more[c] = UNKNOWN \/ (more[c] \in Repeatable /\ LinesOf(row, more[c]) # {})
                THEN Listed(row) \cup {c} ELSE Listed(row)
<1>1. DOMAIN row = S /\ DOMAIN more = S \cup {c} /\ c \notin S
  BY DEF OneMore
<1>2. /\ \A k \in S : more[k] = row[k] /\ k < c /\ ~(c < k)
      /\ ~(c < c)
  BY DEF OneMore
<1>3. \A k \in S : k \in Listed(more) <=> k \in Listed(row)
  BY <1>1, <1>2 DEF Listed
<1>4. c \in Listed(more) <=>
        more[c] = UNKNOWN \/ (more[c] \in Repeatable /\ LinesOf(row, more[c]) # {})
  BY <1>1, <1>2 DEF Listed, LinesOf
<1>5. Listed(row) \in SUBSET S /\ Listed(more) \in SUBSET (S \cup {c})
  BY <1>1 DEF Listed
<1> QED
  BY <1>1, <1>3, <1>4, <1>5

\* Whether the code finds a header's slot taken is whether it has had a line.
LEMMA SpillsIf ==
  ASSUME NEW st, NEW row, NEW nm, NEW val, Holding(st, row, nm, val),
         DOMAIN row \in SUBSET Nat,
         \A k \in DOMAIN row : val[k].start # 0,
         NEW h \in KnownHeaders \cup {UNKNOWN}
  PROVE  Spills(st, h) <=> h = UNKNOWN \/ (h \in Repeatable /\ LinesOf(row, h) # {})
<1>1. CASE h = UNKNOWN
  BY <1>1 DEF Spills
<1>2. CASE h # UNKNOWN /\ h \in Repeatable
  <2>1. st.std[h] = IF LinesOf(row, h) = {} THEN NoSlice ELSE val[Min(LinesOf(row, h))]
    BY <1>2 DEF Holding
  <2>2. LinesOf(row, h) \in SUBSET Nat
    BY DEF LinesOf
  <2>3. LinesOf(row, h) # {} => Min(LinesOf(row, h)) \in LinesOf(row, h)
    BY <2>2, MinOfNats
  <2>4. LinesOf(row, h) # {} => Min(LinesOf(row, h)) \in DOMAIN row
    BY <2>3 DEF LinesOf
  <2>5. st.std[h].start # 0 <=> LinesOf(row, h) # {}
    BY <2>1, <2>4 DEF NoSlice
  <2> QED
    BY <1>2, <2>5 DEF Spills, header_exists
<1>3. CASE h # UNKNOWN /\ h \notin Repeatable
  BY <1>3 DEF Spills
<1> QED
  BY <1>1, <1>2, <1>3

\* The line goes to its slot.
LEMMA SlotHolds ==
  ASSUME NEW S, NEW c, NEW row, NEW more, OneMore(S, c, row, more),
         NEW st \in Stores, NEW nm, NEW val, NEW names, NEW values,
         Holding(st, row, nm, val),
         \A k \in S : names[k] = nm[k] /\ values[k] = val[k],
         more[c] # UNKNOWN,
         more[c] \notin Repeatable \/ LinesOf(row, more[c]) = {}
  PROVE  Holding(SetSlot(st, more[c], values[c]), more, names, values)
<1> DEFINE r   == more[c]
           new == SetSlot(st, more[c], values[c])
<1>0. /\ r \in KnownHeaders
      /\ DOMAIN row = S /\ S \in SUBSET Nat /\ c \in Nat
      /\ \A k \in S : k \in Nat /\ k < c /\ k <= c
  BY DEF OneMore
<1>1. /\ new.std = [st.std EXCEPT ![r] = values[c]] /\ new.x = st.x
      /\ st.std \in [KnownHeaders -> Slices]
  BY DEF SetSlot, Stores
<1>2. Listed(more) = Listed(row) /\ Listed(row) \in SUBSET S
  BY ListedGrow
<1>3. ASSUME NEW h \in KnownHeaders
      PROVE  new.std[h] = IF LinesOf(more, h) = {} THEN NoSlice
                          ELSE values[IF h \in Repeatable THEN Min(LinesOf(more, h))
                                                          ELSE Max(LinesOf(more, h))]
  <2>0. LinesOf(row, h) \in SUBSET S
    BY <1>0 DEF LinesOf
  <2>1. CASE h = r
    <3>1. LinesOf(more, h) = LinesOf(row, h) \cup {c}
      BY <2>1, LinesGrow
    <3>2. new.std[h] = values[c]
      BY <1>0, <1>1, <2>1
    <3>3. CASE h \notin Repeatable
      <4>1. Max(LinesOf(more, h)) = c
        <5> DEFINE T == LinesOf(row, h) \cup {c}
        <5>0. /\ \A x \in LinesOf(row, h) : x \in Nat /\ x <= c
              /\ c \in Nat
          BY <1>0, <2>0, Zenon
        <5>1. c <= c
          BY <5>0
        <5>2. T \in SUBSET Nat /\ c \in T /\ \A x \in T : x <= c
          BY <5>0, <5>1, Zenon
        <5> HIDE DEF T
        <5>3. Max(T) = c
          BY <5>2, MaxIs
        <5> QED
          BY <3>1, <5>3 DEF T
      <4> QED
        BY <3>1, <3>2, <3>3, <4>1
    <3>4. CASE h \in Repeatable
      <4>1. LinesOf(more, h) = {c}
        BY <2>1, <3>1, <3>4
      <4>2. Min({c}) = c
        BY <1>0, MinIs
      <4> QED
        BY <3>2, <3>4, <4>1, <4>2
    <3> QED
      BY <3>3, <3>4
  <2>2. CASE h # r
    <3>1. LinesOf(more, h) = LinesOf(row, h)
      BY <2>2, LinesGrow
    <3>2. new.std[h] = st.std[h]
      BY <1>1, <2>2
    <3>3. st.std[h] = IF LinesOf(row, h) = {} THEN NoSlice
                      ELSE val[IF h \in Repeatable THEN Min(LinesOf(row, h))
                                                   ELSE Max(LinesOf(row, h))]
      BY DEF Holding
    <3>4. ASSUME LinesOf(row, h) # {}
          PROVE  Min(LinesOf(row, h)) \in S /\ Max(LinesOf(row, h)) \in S
      <4>1. LinesOf(row, h) \in SUBSET Nat /\ \A x \in LinesOf(row, h) : x <= c
        BY <1>0, <2>0
      <4> QED
        BY <1>0, <2>0, <3>4, <4>1, MinOfNats, MaxOfNats
    <3> QED
      BY <3>1, <3>2, <3>3, <3>4
  <2> QED
    BY <2>1, <2>2
<1>4. Len(new.x) = Cardinality(Listed(more))
  BY <1>1, <1>2 DEF Holding
<1>5. ASSUME NEW k \in Listed(more)
      PROVE  new.x[Cardinality({j \in Listed(more) : j <= k})] =
               [name |-> names[k], value |-> values[k]]
  BY <1>1, <1>2 DEF Holding
<1> HIDE DEF new
<1>6. Holding(new, more, names, values)
  BY <1>3, <1>4, <1>5 DEF Holding
<1> QED
  BY <1>6 DEF new

\* The line goes to the list, behind all others.
LEMMA ListHolds ==
  ASSUME NEW S, NEW c, NEW row, NEW more, OneMore(S, c, row, more),
         NEW st \in Stores, NEW nm, NEW val, NEW names, NEW values,
         Holding(st, row, nm, val),
         \A k \in S : names[k] = nm[k] /\ values[k] = val[k],
         \/ more[c] = UNKNOWN
         \/ more[c] \in Repeatable /\ LinesOf(row, more[c]) # {}
  PROVE  Holding(xheaders_insert(st, names[c], values[c]), more, names, values)
<1> DEFINE new    == xheaders_insert(st, names[c], values[c])
           listed == Listed(row)
           Upto(T, k) == {j \in T : j <= k}
<1>0. /\ S \in SUBSET Nat /\ IsFiniteSet(S) /\ c \in Nat
      /\ \A k \in S : k \in Nat /\ k < c /\ k <= c
      /\ DOMAIN row = S
  BY DEF OneMore
<1>1. /\ new.x = Append(st.x, [name |-> names[c], value |-> values[c]])
      /\ new.std = st.std
      /\ st.x \in Seq(Entries)
  BY DEF xheaders_insert, Stores
<1>2. listed \in SUBSET S /\ Listed(more) = listed \cup {c}
  BY ListedGrow
<1>3. /\ IsFiniteSet(listed) /\ Cardinality(listed) \in Nat
      /\ Cardinality(listed \cup {c}) = Cardinality(listed) + 1
  <2>1. IsFiniteSet(listed)
    BY <1>0, <1>2, FS_Subset
  <2>2. c \notin listed
    BY <1>0, <1>2
  <2> HIDE DEF listed
  <2> QED
    BY <2>1, <2>2, FS_AddElement, FS_CardinalityType
<1>4. Len(st.x) = Cardinality(listed)
  BY DEF Holding
<1>5. /\ Len(new.x) = Cardinality(listed) + 1
      /\ \A n \in 1..Cardinality(listed) : new.x[n] = st.x[n]
      /\ new.x[Cardinality(listed) + 1] = [name |-> names[c], value |-> values[c]]
  <2> HIDE DEF listed
  <2> QED
    BY <1>1, <1>3, <1>4
<1>6. ASSUME NEW k \in Listed(more)
      PROVE  new.x[Cardinality(Upto(Listed(more), k))] =
               [name |-> names[k], value |-> values[k]]
  <2>1. CASE k = c
    <3>1. Upto(Listed(more), k) = listed \cup {c}
      <4> HIDE DEF listed
      <4>1. \A j \in listed \cup {c} : j <= c
        BY <1>0, <1>2
      <4> QED
        BY <1>2, <2>1, <4>1
    <3> QED
      BY <1>3, <1>5, <2>1, <3>1
  <2>2. CASE k # c
    <3>1. k \in listed /\ k \in S
      BY <1>2, <2>2
    <3>2. Upto(Listed(more), k) = Upto(listed, k)
      <4> HIDE DEF listed
      <4> QED
        BY <1>0, <1>2, <3>1
    <3>3. st.x[Cardinality(Upto(listed, k))] = [name |-> nm[k], value |-> val[k]]
      BY <3>1 DEF Holding
    <3>4. Cardinality(Upto(listed, k)) \in 1..Cardinality(listed)
      <4> DEFINE T == Upto(listed, k)
      <4>1. T \in SUBSET listed /\ k \in T
        BY <1>0, <3>1
      <4> HIDE DEF T, listed
      <4>2. /\ IsFiniteSet(T) /\ Cardinality(T) \in Nat
            /\ Cardinality(T) <= Cardinality(listed)
        BY <1>3, <4>1, FS_Subset, FS_CardinalityType
      <4>3. Cardinality(T) # 0
        BY <4>1, <4>2, FS_EmptySet
      <4>4. Cardinality(T) \in 1..Cardinality(listed)
        BY <1>3, <4>2, <4>3
      <4> QED
        BY <4>4 DEF T
    <3> QED
      BY <1>5, <3>1, <3>2, <3>3, <3>4
  <2> QED
    BY <2>1, <2>2
<1>7. ASSUME NEW h \in KnownHeaders
      PROVE  new.std[h] = IF LinesOf(more, h) = {} THEN NoSlice
                          ELSE values[IF h \in Repeatable THEN Min(LinesOf(more, h))
                                                          ELSE Max(LinesOf(more, h))]
  <2>0. LinesOf(row, h) \in SUBSET S
    BY <1>0 DEF LinesOf
  <2>1. st.std[h] = IF LinesOf(row, h) = {} THEN NoSlice
                    ELSE val[IF h \in Repeatable THEN Min(LinesOf(row, h))
                                                 ELSE Max(LinesOf(row, h))]
    BY DEF Holding
  <2>2. ASSUME LinesOf(row, h) # {}
        PROVE  Min(LinesOf(row, h)) \in S /\ Max(LinesOf(row, h)) \in S
    <3>1. LinesOf(row, h) \in SUBSET Nat /\ \A x \in LinesOf(row, h) : x <= c
      BY <1>0, <2>0, Zenon
    <3> QED
      BY <1>0, <2>0, <2>2, <3>1, MinOfNats, MaxOfNats
  <2>3. CASE more[c] = h
    <3>1. h # UNKNOWN
      BY TableAssumption DEF KnownHeaders, UNKNOWN
    <3>2. h \in Repeatable /\ LinesOf(row, h) # {}
      BY <2>3, <3>1
    <3>3. Min(LinesOf(more, h)) = Min(LinesOf(row, h)) /\ LinesOf(more, h) # {}
      <4> DEFINE T == LinesOf(row, h)
                 m == Min(T)
      <4>1. LinesOf(more, h) = T \cup {c}
        BY <2>3, LinesGrow
      <4>2. T \in SUBSET Nat /\ T # {} /\ T \in SUBSET S
        BY <1>0, <2>0, <3>2
      <4> HIDE DEF T
      <4>3. m \in T /\ \A x \in T : m <= x
        BY <4>2, MinOfNats
      <4> HIDE DEF m
      <4>4. T \cup {c} \in SUBSET Nat /\ m \in T \cup {c} /\ \A x \in T \cup {c} : m <= x
        BY <1>0, <4>2, <4>3
      <4>5. Min(T \cup {c}) = m
        BY <4>4, MinIs
      <4> QED
        BY <4>1, <4>5 DEF T, m
    <3> QED
      BY <1>1, <2>1, <2>2, <3>2, <3>3
  <2>4. CASE more[c] # h
    <3>1. LinesOf(more, h) = LinesOf(row, h)
      BY <2>4, LinesGrow
    <3> QED
      BY <1>1, <2>1, <2>2, <3>1
  <2> QED
    BY <2>3, <2>4
<1>8. Len(new.x) = Cardinality(Listed(more))
  BY <1>2, <1>3, <1>5
<1> HIDE DEF new
<1>9. Holding(new, more, names, values)
  BY <1>6, <1>7, <1>8 DEF Holding
<1> QED
  BY <1>9 DEF new

\* An empty store holds no line.
LEMMA EmptyHolds ==
  ASSUME NEW st, \A h \in KnownHeaders : st.std[h] = NoSlice, st.x = <<>>,
         NEW row, DOMAIN row = {}, NEW nm, NEW val
  PROVE  Holding(st, row, nm, val)
<1>1. Listed(row) = {}
  BY DEF Listed
<1>2. \A h : LinesOf(row, h) = {}
  BY DEF LinesOf
<1>3. Cardinality({}) = 0
  BY FS_EmptySet
<1>4. Len(st.x) = 0
  OBVIOUS
<1> QED
  BY <1>1, <1>2, <1>3, <1>4 DEF Holding

=============================================================================
