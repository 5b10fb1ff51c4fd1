--------------------------- MODULE AddrManProofs ---------------------------
(***************************************************************************)
(* The address manager keeps its tables and indexes together: what Check_  *)
(* looks for under DEBUG_ADDRMAN, for any number of addresses, buckets and *)
(* limits.  Each private operation is described by what it leaves of the   *)
(* manager; the invariant then follows part by part.                       *)
(***************************************************************************)
EXTENDS AddrMan, FiniteSetTheorems, SequenceTheorems, NaturalsInduction, TLAPS

-----------------------------------------------------------------------------
(* The invariant, in parts.                                                *)

InfoType ==
    [addr : Address, source : Source, nRefCount : Int, fInTried : BOOLEAN,
     nLastSuccess : Nat, nRandomPos : Nat]

(* The fields have their types; entries have identifiers handed out.       *)
Typed(am) ==
    /\ am \in [nIdCount : Nat,
               mapInfo : [DOMAIN am.mapInfo -> InfoType],
               mapAddr : [DOMAIN am.mapAddr -> Nat],
               vRandom : Seq(Nat),
               vvTried : [TriedBucket -> Seq(Nat)],
               vvNew : [NewBucket -> SUBSET Nat],
               nTried : Int, nNew : Int]
    /\ DOMAIN am.mapInfo \subseteq 0 .. am.nIdCount - 1

(* mapAddr is the inverse of the addresses of the entries.                 *)
Addressed(am) ==
    /\ \A n \in DOMAIN am.mapInfo :
          am.mapInfo[n].addr \in DOMAIN am.mapAddr /\ am.mapAddr[am.mapInfo[n].addr] = n
    /\ \A a \in DOMAIN am.mapAddr :
          am.mapAddr[a] \in DOMAIN am.mapInfo /\ am.mapInfo[am.mapAddr[a]].addr = a

(* vRandom is the inverse of the positions of the entries.                 *)
Ordered(am) ==
    /\ \A n \in DOMAIN am.mapInfo :
          am.mapInfo[n].nRandomPos \in 1 .. Len(am.vRandom) /\
          am.vRandom[am.mapInfo[n].nRandomPos] = n
    /\ \A i \in 1 .. Len(am.vRandom) :
          am.vRandom[i] \in DOMAIN am.mapInfo /\ am.mapInfo[am.vRandom[i]].nRandomPos = i

BucketsOf(am, n) == {b \in NewBucket : n \in am.vvNew[b]}

(* The reference counts are those of the new table, but for one that is    *)
(* counted for x and not yet in a bucket (x is -1 between operations).     *)
Referenced(am, x) ==
    /\ \A n \in DOMAIN am.mapInfo :
          /\ am.mapInfo[n].nRefCount = Cardinality(BucketsOf(am, n)) + (IF n = x THEN 1 ELSE 0)
          /\ am.mapInfo[n].nRefCount <= ADDRMAN_NEW_BUCKETS_PER_ADDRESS
          /\ am.mapInfo[n].fInTried = (am.mapInfo[n].nRefCount = 0)
    /\ \A b \in NewBucket : am.vvNew[b] \subseteq DOMAIN am.mapInfo

NewOf(am) == {n \in DOMAIN am.mapInfo : ~ am.mapInfo[n].fInTried}
TriedOf(am) == {n \in DOMAIN am.mapInfo : am.mapInfo[n].fInTried}

Counted(am) == am.nNew = Cardinality(NewOf(am)) /\ am.nTried = Cardinality(TriedOf(am))

BucketOf(am, n) == GetTriedBucket[am.mapInfo[n].addr]

(* The tried table holds the tried entries, each once in its bucket.       *)
Tabled(am) ==
    /\ \A k \in TriedBucket : \A i \in 1 .. Len(am.vvTried[k]) :
          /\ am.vvTried[k][i] \in TriedOf(am)
          /\ BucketOf(am, am.vvTried[k][i]) = k
          /\ \A j \in 1 .. Len(am.vvTried[k]) : am.vvTried[k][i] = am.vvTried[k][j] => i = j
    /\ \A n \in TriedOf(am) :
          /\ am.mapInfo[n].nLastSuccess # 0
          /\ \E i \in 1 .. Len(am.vvTried[BucketOf(am, n)]) : am.vvTried[BucketOf(am, n)][i] = n

Bounded(am) ==
    /\ \A b \in NewBucket : Cardinality(am.vvNew[b]) <= ADDRMAN_NEW_BUCKET_SIZE
    /\ \A k \in TriedBucket : Len(am.vvTried[k]) <= ADDRMAN_TRIED_BUCKET_SIZE

Consistent(am, x) ==
    /\ Typed(am) /\ Addressed(am) /\ Ordered(am)
    /\ Referenced(am, x) /\ Counted(am) /\ Tabled(am) /\ Bounded(am)

(* The inductive invariant.                                                *)
AddrManInv == Consistent(addrman, -1)

-----------------------------------------------------------------------------
(* Sets of entries are finite; counting.                                   *)

LEMMA TypedFields ==
    ASSUME NEW am, Typed(am)
    PROVE  /\ am.nIdCount \in Nat /\ am.nTried \in Int /\ am.nNew \in Int
           /\ am.mapInfo \in [DOMAIN am.mapInfo -> InfoType]
           /\ am.mapAddr \in [DOMAIN am.mapAddr -> Nat]
           /\ am.vRandom \in Seq(Nat) /\ Len(am.vRandom) \in Nat
           /\ DOMAIN am.vRandom = 1 .. Len(am.vRandom)
           /\ am.vvTried \in [TriedBucket -> Seq(Nat)]
           /\ am.vvNew \in [NewBucket -> SUBSET Nat]
           /\ DOMAIN am.mapInfo \subseteq 0 .. am.nIdCount - 1
           /\ DOMAIN am.mapInfo \subseteq Nat
  BY DEF Typed

LEMMA SizesLemma ==
    /\ ADDRMAN_NEW_BUCKET_SIZE \in Nat /\ ADDRMAN_NEW_BUCKET_SIZE >= 1
    /\ ADDRMAN_TRIED_BUCKET_SIZE \in Nat /\ ADDRMAN_TRIED_BUCKET_SIZE >= 1
    /\ ADDRMAN_NEW_BUCKETS_PER_ADDRESS \in Nat /\ ADDRMAN_NEW_BUCKETS_PER_ADDRESS >= 1
    /\ ADDRMAN_TRIED_ENTRIES_INSPECT_ON_EVICT \in Nat
    /\ ADDRMAN_TRIED_ENTRIES_INSPECT_ON_EVICT >= 1
    /\ ADDRMAN_GETADDR_MAX_PCT \in Nat /\ ADDRMAN_GETADDR_MAX \in Nat
  BY AddrManAssumption

LEMMA FiniteEntries ==
    ASSUME NEW am, Typed(am), NEW S \in SUBSET (DOMAIN am.mapInfo)
    PROVE  IsFiniteSet(S) /\ Cardinality(S) \in Nat
<1>1. am.nIdCount \in Nat /\ S \in SUBSET (0 .. am.nIdCount - 1)
  BY TypedFields
<1>2. IsFiniteSet(0 .. am.nIdCount - 1)
  BY <1>1, FS_Interval
<1>3. IsFiniteSet(S)
  BY <1>1, <1>2, FS_Subset
<1> QED BY <1>3, FS_CardinalityType

(* What changes only the order of the entries.                             *)
SameInfo(i, j) ==
    /\ i.addr = j.addr /\ i.source = j.source /\ i.nRefCount = j.nRefCount
    /\ i.fInTried = j.fInTried /\ i.nLastSuccess = j.nLastSuccess

Reordered(am, r) ==
    /\ Typed(r) /\ Ordered(r)
    /\ DOMAIN r.mapInfo = DOMAIN am.mapInfo
    /\ \A n \in DOMAIN am.mapInfo : SameInfo(r.mapInfo[n], am.mapInfo[n])
    /\ Len(r.vRandom) = Len(am.vRandom)
    /\ r.nIdCount = am.nIdCount /\ r.mapAddr = am.mapAddr
    /\ r.vvTried = am.vvTried /\ r.vvNew = am.vvNew
    /\ r.nTried = am.nTried /\ r.nNew = am.nNew

LEMMA PositionLemma ==
    ASSUME NEW i \in InfoType, NEW k \in Nat
    PROVE  /\ [i EXCEPT !.nRandomPos = k] \in InfoType
           /\ SameInfo([i EXCEPT !.nRandomPos = k], i)
           /\ [i EXCEPT !.nRandomPos = k].nRandomPos = k
           /\ SameInfo(i, i)
  BY DEF InfoType, SameInfo

LEMMA SwapRandomLemma ==
    ASSUME NEW am, Typed(am), Ordered(am),
           NEW p \in 1 .. Len(am.vRandom), NEW q \in 1 .. Len(am.vRandom)
    PROVE  /\ Reordered(am, SwapRandom(am, p, q))
           /\ SwapRandom(am, p, q).vRandom[q] = am.vRandom[p]
<1> DEFINE r == SwapRandom(am, p, q)
           x == am.vRandom[p]
           y == am.vRandom[q]
           D == DOMAIN am.mapInfo
<1>0. CASE p = q
  BY <1>0 DEF SwapRandom, Reordered, SameInfo
<1>1. CASE p # q
  <2>1. /\ x \in DOMAIN am.mapInfo /\ am.mapInfo[x].nRandomPos = p
        /\ y \in DOMAIN am.mapInfo /\ am.mapInfo[y].nRandomPos = q
        /\ x # y
    BY <1>1 DEF Ordered
  <2>2. /\ r.mapInfo = [am.mapInfo EXCEPT ![x].nRandomPos = q, ![y].nRandomPos = p]
        /\ r.vRandom = [am.vRandom EXCEPT ![p] = y, ![q] = x]
        /\ r = [am EXCEPT !.mapInfo = r.mapInfo, !.vRandom = r.vRandom]
    BY <1>1, <2>1 DEF SwapRandom, Typed
  <2>4. /\ r.nIdCount = am.nIdCount /\ r.mapAddr = am.mapAddr
        /\ r.vvTried = am.vvTried /\ r.vvNew = am.vvNew
        /\ r.nTried = am.nTried /\ r.nNew = am.nNew
    BY <1>1, <2>1 DEF SwapRandom, Typed
  <2> HIDE DEF r, x, y
  <2>3. \A n \in D : r.mapInfo[n] = IF n = x THEN [am.mapInfo[n] EXCEPT !.nRandomPos = q]
                                    ELSE IF n = y THEN [am.mapInfo[n] EXCEPT !.nRandomPos = p]
                                    ELSE am.mapInfo[n]
    BY <2>1, <2>2, TypedFields
  <2>5. /\ r.mapInfo \in [D -> InfoType]
        /\ \A n \in D : /\ SameInfo(r.mapInfo[n], am.mapInfo[n])
                        /\ n = x => r.mapInfo[n].nRandomPos = q
                        /\ n = y => r.mapInfo[n].nRandomPos = p
                        /\ n # x /\ n # y =>
                              r.mapInfo[n].nRandomPos = am.mapInfo[n].nRandomPos
    <3>1. (\A n \in D : am.mapInfo[n] \in InfoType) /\ p \in Nat /\ q \in Nat
      BY TypedFields
    <3>2. ASSUME NEW n \in D
          PROVE  /\ r.mapInfo[n] \in InfoType /\ SameInfo(r.mapInfo[n], am.mapInfo[n])
                 /\ n = x => r.mapInfo[n].nRandomPos = q
                 /\ n = y => r.mapInfo[n].nRandomPos = p
                 /\ n # x /\ n # y => r.mapInfo[n].nRandomPos = am.mapInfo[n].nRandomPos
      <4>1. CASE n = x
        <5>1. r.mapInfo[n] = [am.mapInfo[n] EXCEPT !.nRandomPos = q] /\ x # y
          BY <2>1, <2>3, <4>1
        <5> QED BY <3>1, <4>1, <5>1, PositionLemma
      <4>2. CASE n = y
        <5>1. r.mapInfo[n] = [am.mapInfo[n] EXCEPT !.nRandomPos = p] /\ x # y
          BY <2>1, <2>3, <4>2
        <5> QED BY <3>1, <4>2, <5>1, PositionLemma
      <4>3. CASE n # x /\ n # y
        BY <2>3, <3>1, <4>3, PositionLemma
      <4> QED BY <4>1, <4>2, <4>3
    <3>3. r.mapInfo = [n \in D |-> r.mapInfo[n]]
      BY <2>2, TypedFields
    <3> QED BY <3>2, <3>3
  <2>6. r.vRandom \in Seq(Nat) /\ Len(r.vRandom) = Len(am.vRandom)
    <3>1. x \in Nat /\ y \in Nat /\ am.vRandom \in Seq(Nat)
      BY <2>1, TypedFields
    <3> QED BY <2>2, <3>1
  <2>7. Typed(r)
    BY <2>2, <2>5, <2>6 DEF Typed
  <2>9. \A i \in 1 .. Len(am.vRandom) :
          r.vRandom[i] = IF i = p THEN y ELSE IF i = q THEN x ELSE am.vRandom[i]
    BY <2>2, TypedFields, <1>1
  <2>10. Ordered(r)
    <3>1. ASSUME NEW n \in DOMAIN r.mapInfo
          PROVE  /\ r.mapInfo[n].nRandomPos \in 1 .. Len(r.vRandom)
                 /\ r.vRandom[r.mapInfo[n].nRandomPos] = n
      <4>1. n \in DOMAIN am.mapInfo
        BY <2>5
      <4>2. am.mapInfo[n].nRandomPos \in 1 .. Len(am.vRandom) /\ am.vRandom[am.mapInfo[n].nRandomPos] = n
        BY <4>1 DEF Ordered
      <4>3. CASE n = x
        BY <4>1, <4>3, <2>5, <2>6, <2>9, <1>1
      <4>4. CASE n = y
        BY <4>1, <4>4, <2>5, <2>6, <2>9, <1>1
      <4>5. CASE n # x /\ n # y
        BY <4>1, <4>2, <4>5, <2>5, <2>6, <2>9 DEF x, y
      <4> QED BY <4>3, <4>4, <4>5
    <3>2. ASSUME NEW i \in 1 .. Len(r.vRandom)
          PROVE  r.vRandom[i] \in DOMAIN r.mapInfo /\ r.mapInfo[r.vRandom[i]].nRandomPos = i
      <4>1. am.vRandom[i] \in DOMAIN am.mapInfo /\ am.mapInfo[am.vRandom[i]].nRandomPos = i
        BY <2>6 DEF Ordered
      <4> QED BY <4>1, <1>1, <2>1, <2>5, <2>6, <2>9
    <3> QED BY <3>1, <3>2 DEF Ordered
  <2>11. r.vRandom[q] = am.vRandom[p]
    BY <2>9, <1>1 DEF x
  <2>12. Reordered(am, r)
    BY <2>4, <2>5, <2>6, <2>7, <2>10 DEF Reordered
  <2> QED BY <2>11, <2>12 DEF r
<1> QED BY <1>0, <1>1

LEMMA ReorderedConsistent ==
    ASSUME NEW am, NEW x, NEW r, Consistent(am, x), Reordered(am, r)
    PROVE  Consistent(r, x)
<1>1. \A n \in DOMAIN am.mapInfo :
          /\ r.mapInfo[n].addr = am.mapInfo[n].addr
          /\ r.mapInfo[n].nRefCount = am.mapInfo[n].nRefCount
          /\ r.mapInfo[n].fInTried = am.mapInfo[n].fInTried
          /\ r.mapInfo[n].nLastSuccess = am.mapInfo[n].nLastSuccess
  BY DEF Reordered, SameInfo
<1>2. /\ DOMAIN r.mapInfo = DOMAIN am.mapInfo
      /\ r.mapAddr = am.mapAddr /\ r.vvTried = am.vvTried /\ r.vvNew = am.vvNew
      /\ r.nTried = am.nTried /\ r.nNew = am.nNew
      /\ Typed(r) /\ Ordered(r)
  BY DEF Reordered
<1>3. NewOf(r) = NewOf(am) /\ TriedOf(r) = TriedOf(am)
  BY <1>1, <1>2 DEF NewOf, TriedOf
<1>4. \A n \in DOMAIN am.mapInfo : BucketOf(r, n) = BucketOf(am, n)
  BY <1>1 DEF BucketOf
<1>5. \A n : BucketsOf(r, n) = BucketsOf(am, n)
  BY <1>2 DEF BucketsOf
<1>6. Addressed(r)
  BY <1>1, <1>2 DEF Consistent, Addressed
<1>7. Referenced(r, x)
  BY <1>1, <1>2, <1>5 DEF Consistent, Referenced
<1>8. Counted(r)
  BY <1>2, <1>3 DEF Consistent, Counted
<1>9. Tabled(r)
  <2>1. TriedOf(am) \subseteq DOMAIN am.mapInfo
    BY DEF TriedOf
  <2> QED BY <1>1, <1>2, <1>3, <1>4, <2>1 DEF Consistent, Tabled
<1>10. Bounded(r)
  BY <1>2 DEF Consistent, Bounded
<1> QED BY <1>2, <1>6, <1>7, <1>8, <1>9, <1>10 DEF Consistent

LEMMA ReorderedTransitive ==
    ASSUME NEW a, NEW b, NEW c, Reordered(a, b), Reordered(b, c)
    PROVE  Reordered(a, c)
<1>1. \A n \in DOMAIN a.mapInfo : SameInfo(c.mapInfo[n], a.mapInfo[n])
  BY DEF Reordered, SameInfo
<1> QED BY <1>1 DEF Reordered

(* The entry keeps its address and its place.                              *)
SamePlace(i, j) == i.addr = j.addr /\ i.source = j.source /\ i.nRandomPos = j.nRandomPos

(* Entries are changed, none comes or goes.                                *)
Updated(am, r) ==
    /\ Typed(r)
    /\ DOMAIN r.mapInfo = DOMAIN am.mapInfo
    /\ \A n \in DOMAIN am.mapInfo : SamePlace(r.mapInfo[n], am.mapInfo[n])
    /\ r.nIdCount = am.nIdCount /\ r.mapAddr = am.mapAddr /\ r.vRandom = am.vRandom

LEMMA UpdatedLemma ==
    ASSUME NEW am, NEW r, Addressed(am), Ordered(am), Updated(am, r)
    PROVE  Addressed(r) /\ Ordered(r)
<1>1. \A n \in DOMAIN am.mapInfo :
          r.mapInfo[n].addr = am.mapInfo[n].addr /\ r.mapInfo[n].nRandomPos = am.mapInfo[n].nRandomPos
  BY DEF Updated, SamePlace
<1>2. Addressed(r)
  BY <1>1 DEF Updated, Addressed
<1>3. Ordered(r)
  BY <1>1 DEF Updated, Ordered
<1> QED BY <1>2, <1>3

LEMMA FrontLemma ==
    ASSUME NEW s \in Seq(Nat), Len(s) \in 1 .. Len(s)
    PROVE  /\ Front(s) \in Seq(Nat) /\ Len(Front(s)) = Len(s) - 1
           /\ \A i \in 1 .. Len(s) - 1 : Front(s)[i] = s[i]
<1>1. Len(s) \in Nat /\ 1 <= Len(s) /\ \A i \in 1 .. Len(s) - 1 : s[i] \in Nat
  OBVIOUS
<1> DEFINE m == Len(s) - 1
<1>2. m \in Int /\ 1 \in Int /\ \A i \in 1 .. m : s[i] \in Nat
  BY <1>1
<1> HIDE DEF m
<1>3. /\ SubSeq(s, 1, m) \in Seq(Nat)
      /\ Len(SubSeq(s, 1, m)) = IF 1 <= m THEN m - 1 + 1 ELSE 0
      /\ \A i \in 1 .. m - 1 + 1 : SubSeq(s, 1, m)[i] = s[1 + i - 1]
  BY <1>2, SubSeqProperties
<1>4. Front(s) = SubSeq(s, 1, m) /\ m = Len(s) - 1
  BY DEF Front, m
<1>5. Len(SubSeq(s, 1, m)) = m /\ \A i \in 1 .. m : SubSeq(s, 1, m)[i] = s[i]
  <2>1. m \in Nat
    BY <1>1, <1>4
  <2>2. ASSUME NEW i \in 1 .. m PROVE SubSeq(s, 1, m)[i] = s[i]
    <3>1. i \in 1 .. m - 1 + 1 /\ 1 + i - 1 = i
      BY <2>1
    <3> QED BY <1>3, <3>1
  <2> QED BY <1>3, <2>1, <2>2
<1> QED BY <1>3, <1>4, <1>5

LEMMA DeleteLemma ==
    ASSUME NEW am, Typed(am), Addressed(am), Ordered(am), NEW n \in DOMAIN am.mapInfo
    PROVE  LET r == Delete(am, n)
           IN  /\ Typed(r) /\ Addressed(r) /\ Ordered(r)
               /\ DOMAIN r.mapInfo = DOMAIN am.mapInfo \ {n}
               /\ \A m \in DOMAIN r.mapInfo : SameInfo(r.mapInfo[m], am.mapInfo[m])
               /\ DOMAIN r.mapAddr = DOMAIN am.mapAddr \ {am.mapInfo[n].addr}
               /\ r.nIdCount = am.nIdCount /\ r.vvTried = am.vvTried /\ r.vvNew = am.vvNew
               /\ r.nTried = am.nTried /\ r.nNew = am.nNew - 1
<1> DEFINE last == Len(am.vRandom)
           s == SwapRandom(am, am.mapInfo[n].nRandomPos, last)
           r == Delete(am, n)
           D == DOMAIN am.mapInfo \ {n}
           A == DOMAIN am.mapAddr \ {am.mapInfo[n].addr}
<1>1. am.mapInfo[n].nRandomPos \in 1 .. last /\ last \in 1 .. last /\ am.vRandom[am.mapInfo[n].nRandomPos] = n
  BY TypedFields DEF Ordered
<1>2. Reordered(am, s) /\ s.vRandom[last] = n
  BY <1>1, SwapRandomLemma
<1>3. r = [s EXCEPT !.vRandom = Front(@),
                    !.mapAddr = [a \in A |-> am.mapAddr[a]],
                    !.mapInfo = [m \in D |-> s.mapInfo[m]],
                    !.nNew = @ - 1]
  BY DEF Delete
<1> HIDE DEF s, r
<1>4. Typed(s) /\ Ordered(s)
  BY <1>2 DEF Reordered
<1>5. /\ DOMAIN s.mapInfo = DOMAIN am.mapInfo
      /\ Len(s.vRandom) = last
      /\ s.nIdCount = am.nIdCount /\ s.mapAddr = am.mapAddr
      /\ s.vvTried = am.vvTried /\ s.vvNew = am.vvNew
      /\ s.nTried = am.nTried /\ s.nNew = am.nNew
      /\ \A m \in DOMAIN am.mapInfo : SameInfo(s.mapInfo[m], am.mapInfo[m])
  BY <1>2 DEF Reordered
<1>6. /\ r.vRandom = Front(s.vRandom) /\ r.nNew = am.nNew - 1 /\ r.nTried = am.nTried
      /\ r.mapAddr = [a \in A |-> am.mapAddr[a]]
      /\ r.mapInfo = [m \in D |-> s.mapInfo[m]]
      /\ r.nIdCount = am.nIdCount /\ r.vvTried = am.vvTried /\ r.vvNew = am.vvNew
  BY <1>3, <1>4, <1>5 DEF Typed
<1>7. /\ r.vRandom \in Seq(Nat) /\ Len(r.vRandom) = last - 1
      /\ \A i \in 1 .. last - 1 : r.vRandom[i] = s.vRandom[i]
  <2>1. s.vRandom \in Seq(Nat) /\ Len(s.vRandom) = last /\ last \in Nat
    BY <1>4, <1>5, TypedFields
  <2> QED BY SMTT(60), <1>1, <1>6, <2>1, FrontLemma
<1>8. Typed(r)
  <2>1. r.mapInfo \in [D -> InfoType] /\ DOMAIN r.mapInfo = D
    BY <1>4, <1>5, <1>6, TypedFields
  <2>2. r.mapAddr \in [A -> Nat] /\ DOMAIN r.mapAddr = A
    BY <1>6, TypedFields
  <2>3. r.nNew \in Int /\ D \subseteq 0 .. r.nIdCount - 1
    BY <1>6, TypedFields
  <2> HIDE DEF D, A
  <2> QED BY <1>3, <1>4, <1>7, <2>1, <2>2, <2>3 DEF Typed
<1>9. Addressed(r)
  <2>1. \A m \in DOMAIN am.mapInfo : s.mapInfo[m].addr = am.mapInfo[m].addr
    BY <1>5 DEF SameInfo
  <2>2. DOMAIN r.mapAddr = A /\ DOMAIN r.mapInfo = D /\ \A a \in A : r.mapAddr[a] = am.mapAddr[a]
    BY <1>6
  <2>3. \A m \in D : r.mapInfo[m].addr = am.mapInfo[m].addr
    BY <1>6, <2>1
  <2>4. \A m \in DOMAIN am.mapInfo : am.mapInfo[m].addr \in DOMAIN am.mapAddr /\ am.mapAddr[am.mapInfo[m].addr] = m
    BY DEF Addressed
  <2>5. \A a \in DOMAIN am.mapAddr : am.mapAddr[a] \in DOMAIN am.mapInfo /\ am.mapInfo[am.mapAddr[a]].addr = a
    BY DEF Addressed
  <2>6. ASSUME NEW m \in D PROVE r.mapInfo[m].addr \in A /\ r.mapAddr[r.mapInfo[m].addr] = m
    BY <2>2, <2>3, <2>4
  <2>7. ASSUME NEW a \in A PROVE r.mapAddr[a] \in D /\ r.mapInfo[r.mapAddr[a]].addr = a
    BY <2>2, <2>3, <2>4, <2>5
  <2> QED BY <2>2, <2>6, <2>7 DEF Addressed
<1>10. Ordered(r)
  <2>1. ASSUME NEW m \in DOMAIN r.mapInfo
        PROVE  r.mapInfo[m].nRandomPos \in 1 .. Len(r.vRandom) /\ r.vRandom[r.mapInfo[m].nRandomPos] = m
    <3>1. m \in DOMAIN s.mapInfo /\ m # n /\ r.mapInfo[m] = s.mapInfo[m]
      BY <1>5, <1>6
    <3>2. s.mapInfo[m].nRandomPos \in 1 .. last /\ s.vRandom[s.mapInfo[m].nRandomPos] = m
      BY <1>4, <1>5, <3>1 DEF Ordered
    <3>3. s.mapInfo[m].nRandomPos # last
      BY <1>2, <3>1, <3>2
    <3> QED BY SMTT(60), <1>1, <1>7, <3>1, <3>2, <3>3
  <2>2. ASSUME NEW i \in 1 .. Len(r.vRandom)
        PROVE  r.vRandom[i] \in DOMAIN r.mapInfo /\ r.mapInfo[r.vRandom[i]].nRandomPos = i
    <3>1. i \in 1 .. last /\ i # last /\ r.vRandom[i] = s.vRandom[i]
      BY <1>1, <1>7
    <3>2. s.vRandom[i] \in DOMAIN s.mapInfo /\ s.mapInfo[s.vRandom[i]].nRandomPos = i
      BY <1>4, <1>5, <3>1 DEF Ordered
    <3>3. s.mapInfo[n].nRandomPos = last
      BY <1>1, <1>2, <1>4, <1>5 DEF Ordered
    <3>4. s.vRandom[i] # n
      BY <3>1, <3>2, <3>3
    <3> QED BY <1>5, <1>6, <3>1, <3>2, <3>4
  <2> QED BY <2>1, <2>2 DEF Ordered
<1> QED BY <1>5, <1>6, <1>8, <1>9, <1>10 DEF r

-----------------------------------------------------------------------------
(* Reference counts.                                                       *)

LEMMA FiniteBuckets ==
    ASSUME NEW am, NEW n
    PROVE  IsFiniteSet(BucketsOf(am, n)) /\ Cardinality(BucketsOf(am, n)) \in Nat
<1>1. BucketsOf(am, n) \in SUBSET NewBucket /\ IsFiniteSet(NewBucket)
  BY AddrManAssumption DEF BucketsOf
<1>2. IsFiniteSet(BucketsOf(am, n))
  BY <1>1, FS_Subset
<1> QED BY <1>2, FS_CardinalityType

LEMMA LeaveBucket ==
    ASSUME NEW am, Typed(am), NEW r, NEW b \in NewBucket, NEW n \in am.vvNew[b],
           r.vvNew = [am.vvNew EXCEPT ![b] = @ \ {n}]
    PROVE  /\ Cardinality(BucketsOf(r, n)) = Cardinality(BucketsOf(am, n)) - 1
           /\ \A m : m # n => BucketsOf(r, m) = BucketsOf(am, m)
<1>1. am.vvNew \in [NewBucket -> SUBSET Nat]
  BY TypedFields
<1>2. BucketsOf(r, n) = BucketsOf(am, n) \ {b} /\ b \in BucketsOf(am, n)
  BY <1>1 DEF BucketsOf
<1>3. \A m : m # n => BucketsOf(r, m) = BucketsOf(am, m)
  BY <1>1 DEF BucketsOf
<1> QED BY <1>2, <1>3, FiniteBuckets, FS_RemoveElement

LEMMA EnterBucket ==
    ASSUME NEW am, Typed(am), NEW r, NEW b \in NewBucket, NEW n, n \notin am.vvNew[b],
           r.vvNew = [am.vvNew EXCEPT ![b] = @ \cup {n}]
    PROVE  /\ Cardinality(BucketsOf(r, n)) = Cardinality(BucketsOf(am, n)) + 1
           /\ \A m : m # n => BucketsOf(r, m) = BucketsOf(am, m)
<1>1. am.vvNew \in [NewBucket -> SUBSET Nat]
  BY TypedFields
<1>2. BucketsOf(r, n) = BucketsOf(am, n) \cup {b} /\ b \notin BucketsOf(am, n)
  BY <1>1 DEF BucketsOf
<1>3. \A m : m # n => BucketsOf(r, m) = BucketsOf(am, m)
  BY <1>1 DEF BucketsOf
<1> QED BY <1>2, <1>3, FiniteBuckets, FS_AddElement

LEMMA FiniteBucket ==
    ASSUME NEW am, NEW x, Typed(am), Referenced(am, x), NEW b \in NewBucket
    PROVE  IsFiniteSet(am.vvNew[b]) /\ Cardinality(am.vvNew[b]) \in Nat
  BY FiniteEntries DEF Referenced

(* A reference is dropped; the entry stays.                                *)
Dropped(am, b, n) == [am EXCEPT !.vvNew[b] = @ \ {n}, !.mapInfo[n].nRefCount = @ - 1]

LEMMA DropLemma ==
    ASSUME NEW am, NEW x, Consistent(am, x), NEW b \in NewBucket, NEW n \in am.vvNew[b]
    PROVE  LET d == Dropped(am, b, n)
           IN  /\ Updated(am, d)
               /\ d.vvNew = [am.vvNew EXCEPT ![b] = @ \ {n}]
               /\ d.vvTried = am.vvTried /\ d.nTried = am.nTried /\ d.nNew = am.nNew
               /\ n \in DOMAIN am.mapInfo
               /\ d.mapInfo[n].nRefCount = am.mapInfo[n].nRefCount - 1
               /\ d.mapInfo[n].fInTried = am.mapInfo[n].fInTried
               /\ d.mapInfo[n].nLastSuccess = am.mapInfo[n].nLastSuccess
               /\ \A m \in DOMAIN am.mapInfo : m # n => d.mapInfo[m] = am.mapInfo[m]
<1> DEFINE d == Dropped(am, b, n)
           D == DOMAIN am.mapInfo
<1>1. Typed(am) /\ n \in D
  BY DEF Consistent, Referenced
<1>2. /\ d.mapInfo = [am.mapInfo EXCEPT ![n].nRefCount = @ - 1]
      /\ d.vvNew = [am.vvNew EXCEPT ![b] = @ \ {n}]
      /\ d = [am EXCEPT !.vvNew = d.vvNew, !.mapInfo = d.mapInfo]
  BY <1>1 DEF Typed, Dropped
<1>3. /\ d.vvTried = am.vvTried /\ d.nTried = am.nTried /\ d.nNew = am.nNew
      /\ d.nIdCount = am.nIdCount /\ d.mapAddr = am.mapAddr /\ d.vRandom = am.vRandom
  BY <1>1 DEF Typed, Dropped
<1> HIDE DEF d
<1>4. /\ am.mapInfo[n] \in InfoType
      /\ d.mapInfo[n] = [am.mapInfo[n] EXCEPT !.nRefCount = @ - 1]
      /\ \A m \in D : m # n => d.mapInfo[m] = am.mapInfo[m]
      /\ d.mapInfo = [m \in D |-> d.mapInfo[m]]
  <2>1. am.mapInfo \in [D -> InfoType] /\ n \in D
    BY <1>1, TypedFields
  <2> DEFINE f == am.mapInfo
  <2> HIDE DEF f, D
  <2>2. d.mapInfo = [f EXCEPT ![n] = [f[n] EXCEPT !.nRefCount = f[n].nRefCount - 1]]
    BY <1>2 DEF f
  <2>3. f \in [D -> InfoType]
    BY <2>1 DEF f
  <2>4. d.mapInfo = [m \in D |-> IF m = n THEN [f[n] EXCEPT !.nRefCount = f[n].nRefCount - 1] ELSE f[m]]
    BY <2>2, <2>3
  <2>5. /\ f[n] \in InfoType
        /\ d.mapInfo[n] = [f[n] EXCEPT !.nRefCount = f[n].nRefCount - 1]
        /\ \A m \in D : m # n => d.mapInfo[m] = f[m]
    BY <2>1, <2>3, <2>4
  <2>6. d.mapInfo = [m \in D |-> d.mapInfo[m]]
    BY Zenon, <2>4
  <2> QED BY Zenon, <2>5, <2>6 DEF f
<1>5. /\ d.mapInfo[n] \in InfoType
      /\ d.mapInfo[n].nRefCount = am.mapInfo[n].nRefCount - 1
      /\ d.mapInfo[n].fInTried = am.mapInfo[n].fInTried
      /\ d.mapInfo[n].nLastSuccess = am.mapInfo[n].nLastSuccess
      /\ SamePlace(d.mapInfo[n], am.mapInfo[n])
  BY <1>4 DEF InfoType, SamePlace
<1>6. d.mapInfo \in [D -> InfoType]
  <2>1. \A m \in D : am.mapInfo[m] \in InfoType
    BY <1>1, TypedFields
  <2>2. \A m \in D : d.mapInfo[m] \in InfoType
    BY <1>4, <1>5, <2>1
  <2> QED BY <1>4, <2>2
<1>7. d.vvNew \in [NewBucket -> SUBSET Nat]
  BY <1>1, <1>2, TypedFields
<1>8. Typed(d)
  BY <1>1, <1>2, <1>6, <1>7 DEF Typed
<1>9. \A m \in D : SamePlace(d.mapInfo[m], am.mapInfo[m])
  BY <1>4, <1>5 DEF SamePlace
<1>10. Updated(am, d)
  BY <1>3, <1>6, <1>8, <1>9 DEF Updated
<1> QED BY <1>1, <1>2, <1>3, <1>4, <1>5, <1>10 DEF d

LEMMA ReferencedOnce ==
    ASSUME NEW am, NEW x, Consistent(am, x), NEW b \in NewBucket, NEW n \in am.vvNew[b]
    PROVE  /\ n \in DOMAIN am.mapInfo /\ ~ am.mapInfo[n].fInTried
           /\ am.mapInfo[n].nRefCount \in Nat /\ am.mapInfo[n].nRefCount >= 1
           /\ n # x => am.mapInfo[n].nRefCount = Cardinality(BucketsOf(am, n))
<1>1. Typed(am) /\ n \in DOMAIN am.mapInfo /\ b \in BucketsOf(am, n)
  BY DEF Consistent, Referenced, BucketsOf
<1>2. Cardinality(BucketsOf(am, n)) \in Nat /\ Cardinality(BucketsOf(am, n)) # 0
  BY <1>1, FiniteBuckets, FS_EmptySet
<1>3. /\ am.mapInfo[n].nRefCount = Cardinality(BucketsOf(am, n)) + (IF n = x THEN 1 ELSE 0)
      /\ am.mapInfo[n].fInTried = (am.mapInfo[n].nRefCount = 0)
  BY <1>1 DEF Consistent, Referenced
<1>4. am.mapInfo[n].nRefCount \in Nat /\ am.mapInfo[n].nRefCount >= 1
  BY <1>2, <1>3
<1>5. ~ am.mapInfo[n].fInTried
  <2>1. ~ (am.mapInfo[n].nRefCount = 0)
    BY <1>4
  <2> QED BY <1>3, <2>1, Zenon
<1>6. n # x => am.mapInfo[n].nRefCount = Cardinality(BucketsOf(am, n))
  BY <1>2, <1>3
<1> QED BY <1>1, <1>4, <1>5, <1>6

(* What ShrinkNew leaves: one bucket without n, and n itself only if       *)
(* another bucket has it.                                                  *)
LEMMA ShrinkNewLemma ==
    ASSUME NEW am, NEW x, Consistent(am, x), NEW b \in NewBucket, NEW n \in am.vvNew[b], n # x
    PROVE  LET r == ShrinkNew(am, b, n)
           IN  /\ Consistent(r, x)
               /\ r.vvNew = [am.vvNew EXCEPT ![b] = @ \ {n}]
               /\ DOMAIN am.mapInfo \ {n} \subseteq DOMAIN r.mapInfo
               /\ \A m \in DOMAIN am.mapInfo \ {n} : SameInfo(r.mapInfo[m], am.mapInfo[m])
               /\ DOMAIN am.mapAddr \ {am.mapInfo[n].addr} \subseteq DOMAIN r.mapAddr
<1> DEFINE d == Dropped(am, b, n)
           r == ShrinkNew(am, b, n)
           D == DOMAIN am.mapInfo
<1>1. r = IF am.mapInfo[n].nRefCount = 1 THEN Delete(d, n) ELSE d
  BY DEF ShrinkNew, Dropped
<1>2. /\ Updated(am, d)
      /\ d.vvNew = [am.vvNew EXCEPT ![b] = @ \ {n}]
      /\ d.vvTried = am.vvTried /\ d.nTried = am.nTried /\ d.nNew = am.nNew
      /\ n \in D
      /\ d.mapInfo[n].nRefCount = am.mapInfo[n].nRefCount - 1
      /\ d.mapInfo[n].fInTried = am.mapInfo[n].fInTried
      /\ d.mapInfo[n].nLastSuccess = am.mapInfo[n].nLastSuccess
      /\ \A m \in D : m # n => d.mapInfo[m] = am.mapInfo[m]
  BY DropLemma
<1> HIDE DEF d, r
<1>3. Typed(am) /\ Addressed(am) /\ Ordered(am)
  BY DEF Consistent
<1>4. /\ Typed(d) /\ Addressed(d) /\ Ordered(d) /\ DOMAIN d.mapInfo = D
      /\ d.mapAddr = am.mapAddr
  BY <1>2, <1>3, UpdatedLemma DEF Updated
<1>5. \A m \in D : d.mapInfo[m].addr = am.mapInfo[m].addr /\ d.mapInfo[m].source = am.mapInfo[m].source
  BY <1>2 DEF Updated, SamePlace
<1>6. /\ Cardinality(BucketsOf(d, n)) = Cardinality(BucketsOf(am, n)) - 1
      /\ \A m : m # n => BucketsOf(d, m) = BucketsOf(am, m)
  BY <1>2, <1>3, LeaveBucket
<1>7. /\ ~ am.mapInfo[n].fInTried
      /\ am.mapInfo[n].nRefCount \in Nat /\ am.mapInfo[n].nRefCount >= 1
      /\ am.mapInfo[n].nRefCount = Cardinality(BucketsOf(am, n))
  BY ReferencedOnce
<1>8. \A c \in NewBucket : d.vvNew[c] \subseteq am.vvNew[c] /\ d.vvNew[c] \subseteq D
  BY <1>2, <1>3, TypedFields DEF Consistent, Referenced
<1>9. \A c \in NewBucket : Cardinality(d.vvNew[c]) <= ADDRMAN_NEW_BUCKET_SIZE
  <2>1. SUFFICES ASSUME NEW c \in NewBucket PROVE Cardinality(d.vvNew[c]) <= ADDRMAN_NEW_BUCKET_SIZE
    OBVIOUS
  <2>2. IsFiniteSet(am.vvNew[c]) /\ Cardinality(am.vvNew[c]) \in Nat
    BY <1>3, FiniteBucket DEF Consistent
  <2>3. IsFiniteSet(d.vvNew[c]) /\ Cardinality(d.vvNew[c]) \in Nat
    BY <1>4, <1>8, FiniteEntries
  <2>4. Cardinality(d.vvNew[c]) <= Cardinality(am.vvNew[c])
    BY <1>8, <2>2, FS_Subset
  <2>5. Cardinality(am.vvNew[c]) <= ADDRMAN_NEW_BUCKET_SIZE
    BY DEF Consistent, Bounded
  <2> QED BY <2>2, <2>3, <2>4, <2>5, AddrManAssumption
<1>10. \A m \in D \ {n} : /\ am.mapInfo[m].nRefCount = Cardinality(BucketsOf(am, m)) + (IF m = x THEN 1 ELSE 0)
                          /\ am.mapInfo[m].nRefCount <= ADDRMAN_NEW_BUCKETS_PER_ADDRESS
                          /\ am.mapInfo[m].fInTried = (am.mapInfo[m].nRefCount = 0)
  BY DEF Consistent, Referenced
<1>11. CASE am.mapInfo[n].nRefCount # 1
  <2>1. r = d
    BY <1>1, <1>11
  <2>2. Referenced(d, x)
    <3>1. /\ d.mapInfo[n].nRefCount = Cardinality(BucketsOf(d, n)) + (IF n = x THEN 1 ELSE 0)
          /\ d.mapInfo[n].nRefCount <= ADDRMAN_NEW_BUCKETS_PER_ADDRESS
      BY <1>2, <1>6, <1>7, AddrManAssumption DEF Consistent, Referenced
    <3>2. d.mapInfo[n].fInTried = (d.mapInfo[n].nRefCount = 0)
      <4>1. ~ (d.mapInfo[n].nRefCount = 0)
        BY <1>2, <1>7, <1>11
      <4>2. d.mapInfo[n].fInTried \in BOOLEAN /\ ~ d.mapInfo[n].fInTried
        BY <1>2, <1>4, <1>7, TypedFields DEF InfoType
      <4> QED BY <4>1, <4>2
    <3> QED BY <1>2, <1>4, <1>6, <1>8, <1>10, <3>1, <3>2 DEF Referenced
  <2>3. NewOf(d) = NewOf(am) /\ TriedOf(d) = TriedOf(am)
    BY <1>2, <1>4 DEF NewOf, TriedOf
  <2>4. Counted(d)
    BY <1>2, <2>3 DEF Counted, Consistent
  <2>5. Tabled(d)
    <3>1. \A m \in TriedOf(am) : d.mapInfo[m].nLastSuccess = am.mapInfo[m].nLastSuccess
                                 /\ BucketOf(d, m) = BucketOf(am, m)
      BY <1>2, <1>5 DEF TriedOf, BucketOf
    <3> QED BY <1>2, <2>3, <3>1 DEF Tabled, Consistent
  <2>6. Bounded(d)
    BY <1>2, <1>9 DEF Bounded, Consistent
  <2>7. \A m \in D \ {n} : SameInfo(d.mapInfo[m], am.mapInfo[m])
    BY <1>2 DEF SameInfo
  <2> QED BY <1>2, <1>4, <2>1, <2>2, <2>4, <2>5, <2>6, <2>7 DEF Consistent, r
<1>12. CASE am.mapInfo[n].nRefCount = 1
  <2>1. r = Delete(d, n)
    BY <1>1, <1>12
  <2>2. /\ Typed(r) /\ Addressed(r) /\ Ordered(r)
        /\ DOMAIN r.mapInfo = D \ {n}
        /\ \A m \in D \ {n} : SameInfo(r.mapInfo[m], d.mapInfo[m])
        /\ DOMAIN r.mapAddr = DOMAIN d.mapAddr \ {d.mapInfo[n].addr}
        /\ r.vvTried = d.vvTried /\ r.vvNew = d.vvNew
        /\ r.nTried = d.nTried /\ r.nNew = d.nNew - 1
    BY <1>2, <1>4, <2>1, DeleteLemma
  <2>3. \A m \in D \ {n} : /\ SameInfo(r.mapInfo[m], am.mapInfo[m])
                           /\ r.mapInfo[m].addr = am.mapInfo[m].addr
                           /\ r.mapInfo[m].nRefCount = am.mapInfo[m].nRefCount
                           /\ r.mapInfo[m].fInTried = am.mapInfo[m].fInTried
                           /\ r.mapInfo[m].nLastSuccess = am.mapInfo[m].nLastSuccess
    BY <1>2, <2>2 DEF SameInfo
  <2>4. \A m : BucketsOf(r, m) = BucketsOf(d, m)
    BY <2>2 DEF BucketsOf
  <2>5. BucketsOf(d, n) = {}
    BY <1>6, <1>7, <1>12, FiniteBuckets, FS_EmptySet
  <2>6. \A c \in NewBucket : r.vvNew[c] \subseteq D \ {n}
    BY <1>8, <2>2, <2>5 DEF BucketsOf
  <2>7. Referenced(r, x)
    BY <1>6, <1>10, <2>2, <2>3, <2>4, <2>6 DEF Referenced
  <2>8. NewOf(r) = NewOf(am) \ {n} /\ n \in NewOf(am) /\ TriedOf(r) = TriedOf(am)
    BY <1>2, <1>7, <2>2, <2>3 DEF NewOf, TriedOf
  <2>9. Counted(r)
    <3>1. NewOf(am) \in SUBSET D
      BY DEF NewOf
    <3>2. IsFiniteSet(NewOf(am)) /\ Cardinality(NewOf(am)) \in Nat
      BY <1>3, <3>1, FiniteEntries
    <3>3. Cardinality(NewOf(r)) = Cardinality(NewOf(am)) - 1
      BY <2>8, <3>2, FS_RemoveElement
    <3>4. am.nNew = Cardinality(NewOf(am)) /\ am.nTried = Cardinality(TriedOf(am))
      BY DEF Counted, Consistent
    <3> QED BY <1>2, <2>2, <2>8, <3>3, <3>4 DEF Counted
  <2>10. Tabled(r)
    <3>1. \A m \in TriedOf(am) : r.mapInfo[m].nLastSuccess = am.mapInfo[m].nLastSuccess
                                 /\ BucketOf(r, m) = BucketOf(am, m)
      BY <1>7, <2>3 DEF TriedOf, BucketOf
    <3> QED BY <1>2, <2>2, <2>8, <3>1 DEF Tabled, Consistent
  <2>11. Bounded(r)
    BY <1>2, <1>9, <2>2 DEF Bounded, Consistent
  <2>12. DOMAIN am.mapAddr \ {am.mapInfo[n].addr} \subseteq DOMAIN r.mapAddr
    BY <1>2, <1>4, <1>5, <2>2
  <2> QED BY <1>2, <2>2, <2>3, <2>7, <2>9, <2>10, <2>11, <2>12 DEF Consistent, r
<1> QED BY <1>11, <1>12

-----------------------------------------------------------------------------
(* Changing one entry and the tables.                                      *)

With(am, n, i, N, T, nt, nn) ==
    [am EXCEPT !.mapInfo = [am.mapInfo EXCEPT ![n] = i], !.vvNew = N, !.vvTried = T,
               !.nTried = nt, !.nNew = nn]

LEMMA WithLemma ==
    ASSUME NEW am, Typed(am), NEW n \in DOMAIN am.mapInfo,
           NEW i \in InfoType, SamePlace(i, am.mapInfo[n]),
           NEW N \in [NewBucket -> SUBSET Nat], NEW T \in [TriedBucket -> Seq(Nat)],
           NEW nt \in Int, NEW nn \in Int
    PROVE  LET r == With(am, n, i, N, T, nt, nn)
           IN  /\ Updated(am, r)
               /\ r.vvNew = N /\ r.vvTried = T /\ r.nTried = nt /\ r.nNew = nn
               /\ r.mapInfo[n] = i
               /\ \A m \in DOMAIN am.mapInfo : m # n => r.mapInfo[m] = am.mapInfo[m]
<1> DEFINE r == With(am, n, i, N, T, nt, nn)
           D == DOMAIN am.mapInfo
<1>1. /\ r.vvNew = N /\ r.vvTried = T /\ r.nTried = nt /\ r.nNew = nn
      /\ r.nIdCount = am.nIdCount /\ r.mapAddr = am.mapAddr /\ r.vRandom = am.vRandom
      /\ r.mapInfo = [am.mapInfo EXCEPT ![n] = i]
      /\ r = [am EXCEPT !.mapInfo = r.mapInfo, !.vvNew = N, !.vvTried = T, !.nTried = nt, !.nNew = nn]
  BY DEF With, Typed
<1> HIDE DEF r
<1>2. /\ r.mapInfo \in [D -> InfoType] /\ r.mapInfo[n] = i
      /\ \A m \in D : m # n => r.mapInfo[m] = am.mapInfo[m]
  BY <1>1, TypedFields
<1>3. Typed(r)
  BY <1>1, <1>2 DEF Typed
<1>4. \A m \in D : SamePlace(r.mapInfo[m], am.mapInfo[m])
  BY <1>2 DEF SamePlace
<1>5. Updated(am, r)
  BY <1>1, <1>2, <1>3, <1>4 DEF Updated
<1> QED BY <1>1, <1>2, <1>5 DEF r

LEMMA CountLemma ==
    ASSUME NEW am, Consistent(am, -1), NEW n \in DOMAIN am.mapInfo,
           ~ am.mapInfo[n].fInTried,
           am.mapInfo[n].nRefCount < ADDRMAN_NEW_BUCKETS_PER_ADDRESS
    PROVE  LET r == [am EXCEPT !.mapInfo[n].nRefCount = @ + 1]
           IN  /\ Consistent(r, n) /\ n \in DOMAIN r.mapInfo
               /\ r.vvNew = am.vvNew /\ r.mapAddr = am.mapAddr
               /\ TriedOf(r) = TriedOf(am)
               /\ \A m \in DOMAIN am.mapInfo : r.mapInfo[m].addr = am.mapInfo[m].addr
<1> DEFINE r == [am EXCEPT !.mapInfo[n].nRefCount = @ + 1]
           i == [am.mapInfo[n] EXCEPT !.nRefCount = @ + 1]
           D == DOMAIN am.mapInfo
<1>1. Typed(am) /\ Addressed(am) /\ Ordered(am) /\ Referenced(am, -1)
  BY DEF Consistent
<1>2. am.mapInfo[n] \in InfoType
  BY <1>1, TypedFields
<1>3. /\ i \in InfoType /\ SamePlace(i, am.mapInfo[n])
      /\ i.nRefCount = am.mapInfo[n].nRefCount + 1
      /\ i.fInTried = am.mapInfo[n].fInTried /\ i.nLastSuccess = am.mapInfo[n].nLastSuccess
  BY <1>2 DEF InfoType, SamePlace
<1>4. r = With(am, n, i, am.vvNew, am.vvTried, am.nTried, am.nNew)
  BY <1>1 DEF With, Typed
<1> HIDE DEF r, i
<1>5. /\ Updated(am, r)
      /\ r.vvNew = am.vvNew /\ r.vvTried = am.vvTried /\ r.nTried = am.nTried /\ r.nNew = am.nNew
      /\ r.mapInfo[n] = i
      /\ \A m \in D : m # n => r.mapInfo[m] = am.mapInfo[m]
  <2>1. /\ am.vvNew \in [NewBucket -> SUBSET Nat] /\ am.vvTried \in [TriedBucket -> Seq(Nat)]
        /\ am.nTried \in Int /\ am.nNew \in Int
    BY <1>1, TypedFields
  <2> QED BY <1>1, <1>3, <1>4, <2>1, WithLemma
<1>6. /\ Typed(r) /\ Addressed(r) /\ Ordered(r) /\ DOMAIN r.mapInfo = D
      /\ r.mapAddr = am.mapAddr
      /\ \A m \in D : r.mapInfo[m].addr = am.mapInfo[m].addr
  BY <1>1, <1>5, UpdatedLemma DEF Updated, SamePlace
<1>7. \A m : BucketsOf(r, m) = BucketsOf(am, m)
  BY <1>5 DEF BucketsOf
<1>8. Referenced(r, n)
  <2>1. am.mapInfo[n].nRefCount = Cardinality(BucketsOf(am, n)) /\ Cardinality(BucketsOf(am, n)) \in Nat
    BY <1>1, TypedFields, FiniteBuckets DEF Referenced
  <2>2. /\ r.mapInfo[n].nRefCount = Cardinality(BucketsOf(r, n)) + 1
        /\ r.mapInfo[n].nRefCount <= ADDRMAN_NEW_BUCKETS_PER_ADDRESS
        /\ ~ (r.mapInfo[n].nRefCount = 0)
    BY <1>3, <1>5, <1>7, <2>1, AddrManAssumption
  <2>3. r.mapInfo[n].fInTried = (r.mapInfo[n].nRefCount = 0)
    <3>1. r.mapInfo[n].fInTried = FALSE
      BY <1>2, <1>3, <1>5 DEF InfoType
    <3> QED BY <2>2, <3>1
  <2>4. \A m \in D \ {n} : /\ r.mapInfo[m].nRefCount = Cardinality(BucketsOf(am, m))
                           /\ r.mapInfo[m].nRefCount <= ADDRMAN_NEW_BUCKETS_PER_ADDRESS
                           /\ r.mapInfo[m].fInTried = (r.mapInfo[m].nRefCount = 0)
    BY <1>1, <1>5, TypedFields, FiniteBuckets DEF Referenced
  <2>5. \A b \in NewBucket : r.vvNew[b] \subseteq DOMAIN r.mapInfo
    BY <1>1, <1>5, <1>6 DEF Referenced
  <2> QED BY <1>6, <1>7, <2>2, <2>3, <2>4, <2>5, FiniteBuckets DEF Referenced
<1>9. NewOf(r) = NewOf(am) /\ TriedOf(r) = TriedOf(am)
  BY <1>3, <1>5, <1>6 DEF NewOf, TriedOf
<1>10. Counted(r)
  BY <1>5, <1>9 DEF Counted, Consistent
<1>11. Tabled(r)
  <2>1. \A m \in TriedOf(am) : r.mapInfo[m].nLastSuccess = am.mapInfo[m].nLastSuccess
                               /\ BucketOf(r, m) = BucketOf(am, m)
    BY <1>3, <1>5, <1>6 DEF TriedOf, BucketOf
  <2> QED BY <1>5, <1>9, <2>1 DEF Tabled, Consistent
<1>12. Bounded(r)
  BY <1>5 DEF Bounded, Consistent
<1> QED BY <1>5, <1>6, <1>8, <1>9, <1>10, <1>11, <1>12 DEF Consistent, r

Inserted(am, x, b) == [am EXCEPT !.vvNew[b] = @ \cup {x}]

LEMMA InsertLemma ==
    ASSUME NEW am, NEW x \in DOMAIN am.mapInfo, Consistent(am, x), NEW b \in NewBucket,
           x \notin am.vvNew[b], Cardinality(am.vvNew[b]) < ADDRMAN_NEW_BUCKET_SIZE
    PROVE  LET r == Inserted(am, x, b)
           IN  Consistent(r, -1) /\ r.mapInfo = am.mapInfo /\ r.mapAddr = am.mapAddr
<1> DEFINE r == Inserted(am, x, b)
           D == DOMAIN am.mapInfo
<1>1. Typed(am) /\ Addressed(am) /\ Ordered(am) /\ Referenced(am, x) /\ x \in Nat
  BY TypedFields DEF Consistent
<1>2. /\ r.vvNew = [am.vvNew EXCEPT ![b] = @ \cup {x}]
      /\ r.vvTried = am.vvTried /\ r.nTried = am.nTried /\ r.nNew = am.nNew
      /\ r.mapInfo = am.mapInfo /\ r.mapAddr = am.mapAddr
      /\ r.vRandom = am.vRandom /\ r.nIdCount = am.nIdCount
      /\ r = [am EXCEPT !.vvNew = r.vvNew]
  BY <1>1 DEF Typed, Inserted
<1> HIDE DEF r
<1>3. /\ r.vvNew \in [NewBucket -> SUBSET Nat]
      /\ r.vvNew[b] = am.vvNew[b] \cup {x}
      /\ \A c \in NewBucket : c # b => r.vvNew[c] = am.vvNew[c]
  BY <1>1, <1>2, TypedFields
<1>4. Typed(r)
  BY <1>1, <1>2, <1>3 DEF Typed
<1>5. Addressed(r) /\ Ordered(r)
  BY <1>1, <1>2 DEF Addressed, Ordered
<1>6. /\ Cardinality(BucketsOf(r, x)) = Cardinality(BucketsOf(am, x)) + 1
      /\ \A m : m # x => BucketsOf(r, m) = BucketsOf(am, m)
  BY <1>1, <1>2, EnterBucket
<1>7. Referenced(r, -1)
  <2>1. ASSUME NEW m \in D
        PROVE  r.mapInfo[m].nRefCount = Cardinality(BucketsOf(r, m)) + (IF m = -1 THEN 1 ELSE 0)
    <3>1. m # -1 /\ Cardinality(BucketsOf(am, m)) \in Nat
      BY <1>1, TypedFields, FiniteBuckets
    <3>2. r.mapInfo[m].nRefCount = Cardinality(BucketsOf(am, m)) + (IF m = x THEN 1 ELSE 0)
      BY <1>1, <1>2 DEF Referenced
    <3> QED BY <1>6, <3>1, <3>2
  <2>2. \A c \in NewBucket : r.vvNew[c] \subseteq D
    BY <1>1, <1>3 DEF Referenced
  <2> QED BY <1>1, <1>2, <2>1, <2>2 DEF Referenced
<1>8. NewOf(r) = NewOf(am) /\ TriedOf(r) = TriedOf(am) /\ \A m : BucketOf(r, m) = BucketOf(am, m)
  BY <1>2 DEF NewOf, TriedOf, BucketOf
<1>9. Counted(r)
  BY <1>2, <1>8 DEF Counted, Consistent
<1>10. Tabled(r)
  BY <1>2, <1>8 DEF Tabled, Consistent
<1>11. Bounded(r)
  <2>1. IsFiniteSet(am.vvNew[b]) /\ Cardinality(am.vvNew[b]) \in Nat
    BY <1>1, FiniteBucket
  <2>2. Cardinality(r.vvNew[b]) = Cardinality(am.vvNew[b]) + 1
    BY <1>3, <2>1, FS_AddElement
  <2>3. Cardinality(r.vvNew[b]) <= ADDRMAN_NEW_BUCKET_SIZE
    BY <2>1, <2>2, AddrManAssumption
  <2> QED BY <1>2, <1>3, <2>3 DEF Bounded, Consistent
<1> QED BY <1>2, <1>4, <1>5, <1>7, <1>9, <1>10, <1>11 DEF Consistent, r

Created(am, addr, source) == [Create(am, addr, source) EXCEPT !.nNew = @ + 1]
Recounted(am, n) == [am EXCEPT !.mapInfo[n].nRefCount = @ + 1]

IsCreated(am, e, r, n) ==
    /\ Consistent(r, n) /\ n \in DOMAIN r.mapInfo
    /\ e.vvNew = am.vvNew /\ r.vvNew = am.vvNew
    /\ DOMAIN am.mapAddr \subseteq DOMAIN r.mapAddr
    /\ TriedOf(r) = TriedOf(am)
    /\ \A m \in DOMAIN am.mapInfo : r.mapInfo[m] = am.mapInfo[m]

(* Create, with the new entry counted.                                     *)
LEMMA CreatedLemma ==
    ASSUME NEW am, Consistent(am, -1), NEW addr \in Address, NEW source \in Source,
           addr \notin DOMAIN am.mapAddr
    PROVE  IsCreated(am, Created(am, addr, source),
                     Recounted(Created(am, addr, source), am.nIdCount), am.nIdCount)
<1> DEFINE n == am.nIdCount
           c == Create(am, addr, source)
           e == [c EXCEPT !.nNew = @ + 1]
           r == [e EXCEPT !.mapInfo[n].nRefCount = @ + 1]
           D == DOMAIN am.mapInfo
           A == DOMAIN am.mapAddr
           i == [addr |-> addr, source |-> source, nRefCount |-> 0, fInTried |-> FALSE,
                 nLastSuccess |-> 0, nRandomPos |-> Len(am.vRandom) + 1]
           j == [i EXCEPT !.nRefCount = 1]
           F == [m \in D \cup {n} |-> IF m = n THEN i ELSE am.mapInfo[m]]
           G == [m \in D \cup {n} |-> IF m = n THEN j ELSE am.mapInfo[m]]
           H == [a \in A \cup {addr} |-> IF a = addr THEN n ELSE am.mapAddr[a]]
<1>1. Typed(am) /\ Addressed(am) /\ Ordered(am) /\ Referenced(am, -1)
  BY DEF Consistent
<1>2. /\ n \in Nat /\ n \notin D /\ D \subseteq Nat /\ Len(am.vRandom) \in Nat /\ am.nNew \in Int
      /\ am.mapInfo \in [D -> InfoType] /\ am.mapAddr \in [A -> Nat] /\ am.vRandom \in Seq(Nat)
      /\ am.vvNew \in [NewBucket -> SUBSET Nat] /\ D \subseteq 0 .. n - 1
  BY <1>1, TypedFields
<1>5. c = [am EXCEPT !.nIdCount = n + 1, !.mapInfo = F, !.mapAddr = H, !.vRandom = Append(am.vRandom, n)]
  BY <1>1 DEF Create, Typed
<1> HIDE DEF c, F, H
<1>6. /\ e.vvNew = am.vvNew /\ e.mapInfo = F
      /\ e = [am EXCEPT !.nIdCount = n + 1, !.mapInfo = F, !.mapAddr = H, !.vRandom = Append(am.vRandom, n),
                        !.nNew = am.nNew + 1]
  BY <1>1, <1>5 DEF Typed
<1> HIDE DEF e
<1>7. [F EXCEPT ![n].nRefCount = @ + 1] = G
  <2>1. n \in D \cup {n} /\ F[n] = i
    BY DEF F
  <2>2. [i EXCEPT !.nRefCount = @ + 1] = j
    <3>1. i.nRefCount + 1 = 1
      OBVIOUS
    <3> HIDE DEF i
    <3> QED BY <3>1
  <2> HIDE DEF i, j
  <2> QED BY <2>1, <2>2 DEF F
<1>8. r = [am EXCEPT !.nIdCount = n + 1, !.mapInfo = G, !.mapAddr = H, !.vRandom = Append(am.vRandom, n),
                     !.nNew = am.nNew + 1]
  <2>1. r = [e EXCEPT !.mapInfo = [F EXCEPT ![n].nRefCount = @ + 1]]
    BY <1>6
  <2> HIDE DEF r, G
  <2> QED BY <1>1, <1>6, <1>7, <2>1 DEF Typed
<1> HIDE DEF r
<1>9. /\ r.nIdCount = n + 1 /\ r.mapInfo = G /\ r.mapAddr = H /\ r.vRandom = Append(am.vRandom, n)
      /\ r.nNew = am.nNew + 1 /\ r.vvNew = am.vvNew /\ r.vvTried = am.vvTried /\ r.nTried = am.nTried
  BY <1>1, <1>8 DEF Typed
<1>10. /\ j \in InfoType /\ j.addr = addr /\ j.nRefCount = 1 /\ j.fInTried = FALSE
       /\ j.nRandomPos = Len(am.vRandom) + 1
  <2>1. /\ i \in InfoType /\ i.addr = addr /\ i.fInTried = FALSE
        /\ i.nRandomPos = Len(am.vRandom) + 1
    BY <1>2 DEF InfoType
  <2> HIDE DEF i
  <2> QED BY <2>1 DEF InfoType
<1> HIDE DEF i, j
<1>11. /\ DOMAIN r.mapInfo = D \cup {n} /\ r.mapInfo[n] = j
       /\ \A m \in D : r.mapInfo[m] = am.mapInfo[m]
       /\ r.mapInfo \in [D \cup {n} -> InfoType]
  BY <1>2, <1>9, <1>10
<1>12. /\ DOMAIN r.mapAddr = A \cup {addr} /\ r.mapAddr[addr] = n
       /\ \A a \in A : r.mapAddr[a] = am.mapAddr[a]
       /\ r.mapAddr \in [A \cup {addr} -> Nat]
  BY <1>2, <1>9 DEF H
<1>13. /\ r.vRandom \in Seq(Nat) /\ Len(r.vRandom) = Len(am.vRandom) + 1
       /\ \A k \in 1 .. Len(am.vRandom) : r.vRandom[k] = am.vRandom[k]
       /\ r.vRandom[Len(am.vRandom) + 1] = n
  BY <1>2, <1>9
<1> HIDE DEF G
<1>14. Typed(r)
  <2>1. D \cup {n} \subseteq 0 .. r.nIdCount - 1 /\ r.nIdCount \in Nat /\ r.nNew \in Int
    BY <1>2, <1>9
  <2> QED BY <1>1, <1>8, <1>9, <1>11, <1>12, <1>13, <2>1 DEF Typed
<1>15. Addressed(r)
  BY SMTT(60), <1>1, <1>2, <1>10, <1>11, <1>12 DEF Addressed
<1>16. Ordered(r)
  <2>1. ASSUME NEW m \in D \cup {n}
        PROVE  r.mapInfo[m].nRandomPos \in 1 .. Len(r.vRandom) /\ r.vRandom[r.mapInfo[m].nRandomPos] = m
    <3>1. CASE m = n
      <4>1. r.mapInfo[m].nRandomPos = Len(am.vRandom) + 1
        BY <1>10, <1>11, <3>1
      <4>2. Len(am.vRandom) + 1 \in 1 .. Len(r.vRandom)
        BY <1>2, <1>13
      <4> QED BY <1>13, <3>1, <4>1, <4>2
    <3>2. CASE m \in D
      <4>1. /\ am.mapInfo[m].nRandomPos \in 1 .. Len(am.vRandom)
            /\ am.vRandom[am.mapInfo[m].nRandomPos] = m /\ r.mapInfo[m] = am.mapInfo[m]
        BY <1>1, <1>11, <3>2 DEF Ordered
      <4>2. 1 .. Len(am.vRandom) \subseteq 1 .. Len(r.vRandom)
        BY <1>2, <1>13
      <4> QED BY <1>13, <4>1, <4>2
    <3> QED BY <3>1, <3>2
  <2>2. ASSUME NEW k \in 1 .. Len(r.vRandom)
        PROVE  r.vRandom[k] \in D \cup {n} /\ r.mapInfo[r.vRandom[k]].nRandomPos = k
    <3>1. CASE k = Len(am.vRandom) + 1
      BY <1>2, <1>10, <1>11, <1>13, <3>1
    <3>2. CASE k \in 1 .. Len(am.vRandom)
      <4>1. am.vRandom[k] \in D /\ am.mapInfo[am.vRandom[k]].nRandomPos = k
        BY <1>1, <3>2 DEF Ordered
      <4> QED BY <1>11, <1>13, <3>2, <4>1
    <3> QED BY <1>2, <1>13, <3>1, <3>2
  <2> QED BY <1>11, <2>1, <2>2 DEF Ordered
<1>17. BucketsOf(r, n) = {} /\ \A m : BucketsOf(r, m) = BucketsOf(am, m)
  BY <1>1, <1>2, <1>9 DEF BucketsOf, Referenced
<1>18. Referenced(r, n)
  <2>1. \A m \in D : /\ m # n /\ m # -1
                     /\ r.mapInfo[m].nRefCount = Cardinality(BucketsOf(r, m))
                     /\ r.mapInfo[m].nRefCount <= ADDRMAN_NEW_BUCKETS_PER_ADDRESS
                     /\ r.mapInfo[m].fInTried = (r.mapInfo[m].nRefCount = 0)
    BY <1>1, <1>2, <1>11, <1>17, FiniteBuckets DEF Referenced
  <2>2. /\ r.mapInfo[n].nRefCount = Cardinality(BucketsOf(r, n)) + 1
        /\ r.mapInfo[n].nRefCount <= ADDRMAN_NEW_BUCKETS_PER_ADDRESS
        /\ r.mapInfo[n].fInTried = (r.mapInfo[n].nRefCount = 0)
    <3>1. Cardinality(BucketsOf(r, n)) = 0
      BY <1>17, FS_EmptySet
    <3>2. r.mapInfo[n].nRefCount = 1 /\ r.mapInfo[n].fInTried = FALSE
      BY <1>10, <1>11
    <3>3. ~ (r.mapInfo[n].nRefCount = 0)
      BY <3>2
    <3>4. r.mapInfo[n].fInTried = (r.mapInfo[n].nRefCount = 0)
      BY <3>2, <3>3, Zenon
    <3>5. 1 <= ADDRMAN_NEW_BUCKETS_PER_ADDRESS
      BY SizesLemma
    <3> QED BY <3>1, <3>2, <3>4, <3>5
  <2>3. \A b \in NewBucket : r.vvNew[b] \subseteq DOMAIN r.mapInfo
    BY <1>1, <1>9, <1>11 DEF Referenced
  <2> QED BY <1>11, <2>1, <2>2, <2>3, FiniteBuckets DEF Referenced
<1>19. NewOf(r) = NewOf(am) \cup {n} /\ n \notin NewOf(am) /\ TriedOf(r) = TriedOf(am)
  BY <1>2, <1>10, <1>11 DEF NewOf, TriedOf
<1>20. Counted(r)
  <2>1. NewOf(am) \in SUBSET D
    BY DEF NewOf
  <2>2. IsFiniteSet(NewOf(am)) /\ Cardinality(NewOf(am)) \in Nat
    BY <1>1, <2>1, FiniteEntries
  <2>3. Cardinality(NewOf(r)) = Cardinality(NewOf(am)) + 1
    BY <1>19, <2>2, FS_AddElement
  <2>4. am.nNew = Cardinality(NewOf(am)) /\ am.nTried = Cardinality(TriedOf(am))
    BY DEF Counted, Consistent
  <2> QED BY <1>9, <1>19, <2>3, <2>4 DEF Counted
<1>21. Tabled(r)
  <2>1. \A m \in TriedOf(am) : r.mapInfo[m].nLastSuccess = am.mapInfo[m].nLastSuccess
                               /\ BucketOf(r, m) = BucketOf(am, m)
    BY <1>11 DEF TriedOf, BucketOf
  <2> QED BY <1>9, <1>19, <2>1 DEF Tabled, Consistent
<1>22. Bounded(r)
  BY <1>9 DEF Bounded, Consistent
<1>23. e.vvNew = am.vvNew
  BY <1>6
<1>24. IsCreated(am, e, r, n)
  BY <1>6, <1>9, <1>11, <1>12, <1>14, <1>15, <1>16, <1>18, <1>19, <1>20, <1>21, <1>22, <1>23 DEF Consistent, IsCreated
<1> QED BY <1>24 DEF Created, Recounted, r, e, c, n

(* Enter makes room and inserts; no tried entry goes.                      *)
LEMMA EnterLemma ==
    ASSUME NEW n, NEW b \in NewBucket, NEW c, NEW r,
           Consistent(c, n), n \in DOMAIN c.mapInfo, n \notin c.vvNew[b],
           IF Cardinality(c.vvNew[b]) = ADDRMAN_NEW_BUCKET_SIZE
           THEN \E k \in c.vvNew[b] : r = Inserted(ShrinkNew(c, b, k), n, b)
           ELSE r = Inserted(c, n, b)
    PROVE  Consistent(r, -1) /\ \A m \in TriedOf(c) : c.mapInfo[m].addr \in DOMAIN r.mapAddr
<1>0. IsFiniteSet(c.vvNew[b]) /\ Cardinality(c.vvNew[b]) \in Nat /\ Cardinality(c.vvNew[b]) <= ADDRMAN_NEW_BUCKET_SIZE
  BY FiniteBucket DEF Consistent, Bounded
<1>1. \A m \in TriedOf(c) : m \in DOMAIN c.mapInfo /\ c.mapInfo[m].addr \in DOMAIN c.mapAddr
  BY DEF TriedOf, Consistent, Addressed
<1>2. CASE Cardinality(c.vvNew[b]) = ADDRMAN_NEW_BUCKET_SIZE
  <2>1. PICK k \in c.vvNew[b] : r = Inserted(ShrinkNew(c, b, k), n, b)
    BY <1>2
  <2> DEFINE s == ShrinkNew(c, b, k)
  <2>2. /\ Consistent(s, n)
        /\ s.vvNew = [c.vvNew EXCEPT ![b] = @ \ {k}]
        /\ DOMAIN c.mapInfo \ {k} \subseteq DOMAIN s.mapInfo
        /\ DOMAIN c.mapAddr \ {c.mapInfo[k].addr} \subseteq DOMAIN s.mapAddr
    <3>1. k # n
      OBVIOUS
    <3> QED BY <3>1, ShrinkNewLemma
  <2> HIDE DEF s
  <2>3. s.vvNew[b] = c.vvNew[b] \ {k} /\ n \notin s.vvNew[b] /\ n \in DOMAIN s.mapInfo
    BY <2>1, <2>2, TypedFields DEF Consistent
  <2>4. Cardinality(s.vvNew[b]) < ADDRMAN_NEW_BUCKET_SIZE
    <3>1. Cardinality(c.vvNew[b] \ {k}) = Cardinality(c.vvNew[b]) - 1
      BY <1>0, FS_RemoveElement
    <3> QED BY <1>0, <1>2, <2>3, <3>1
  <2>5. Consistent(Inserted(s, n, b), -1) /\ Inserted(s, n, b).mapAddr = s.mapAddr
    BY <2>2, <2>3, <2>4, InsertLemma
  <2>6. k \in DOMAIN c.mapInfo /\ ~ c.mapInfo[k].fInTried
    BY <2>1, ReferencedOnce
  <2>7. \A m \in TriedOf(c) : c.mapInfo[m].addr # c.mapInfo[k].addr
    BY <2>6 DEF TriedOf, Consistent, Addressed
  <2>8. \A m \in TriedOf(c) : c.mapInfo[m].addr \in DOMAIN s.mapAddr
    BY <1>1, <2>2, <2>7
  <2>9. r = Inserted(s, n, b)
    BY <2>1 DEF s
  <2> QED BY <2>5, <2>8, <2>9
<1>3. CASE Cardinality(c.vvNew[b]) # ADDRMAN_NEW_BUCKET_SIZE
  <2>1. r = Inserted(c, n, b)
    BY <1>3
  <2>2. Cardinality(c.vvNew[b]) < ADDRMAN_NEW_BUCKET_SIZE
    BY <1>0, <1>3, SizesLemma
  <2>3. Consistent(Inserted(c, n, b), -1) /\ Inserted(c, n, b).mapAddr = c.mapAddr
    BY <2>2, InsertLemma
  <2> QED BY <1>1, <2>1, <2>3
<1> QED BY <1>2, <1>3

-----------------------------------------------------------------------------
(* Recursive functions have the values of their definitions, by the least  *)
(* number at which they would not.                                         *)

LEMMA LeastNat ==
    ASSUME NEW S \in SUBSET Nat, S # {}
    PROVE  \E m \in S : \A k \in S : m <= k
<1> DEFINE R == OpToRel(<, Nat)
<1>1. IsWellFoundedOn(R, Nat)
  BY NatLessThanWellFounded
<1>2. \A x, y \in Nat : x < y => <<x, y>> \in R
  BY Zenon DEF OpToRel
<1> HIDE DEF R
<1>3. PICK m \in S : \A y \in S : ~ (<<y, m>> \in R)
  BY <1>1, WFMin
<1>4. ASSUME NEW k \in S PROVE m <= k
  <2>1. ~ (k < m)
    BY <1>2, <1>3
  <2> QED BY <2>1
<1> QED BY <1>4

DrawStart(v) == {[v |-> v, nOldest |-> -1, nOldestPos |-> -1]}

IsDrawn(f, am, v, last) ==
    f = [i \in 0 .. last |-> IF i = 0 THEN DrawStart(v) ELSE Draws(am, f[i - 1], i)]

LEMMA DrawnExists == ASSUME NEW am, NEW v PROVE \A last \in Nat : \E f : IsDrawn(f, am, v, last)
<1> DEFINE D == {l \in Nat : ~ \E f : IsDrawn(f, am, v, l)}
<1>1. SUFFICES ASSUME D # {} PROVE FALSE
  OBVIOUS
<1>2. PICK m \in D : \A k \in D : m <= k
  <2>1. D \in SUBSET Nat
    OBVIOUS
  <2> HIDE DEF D
  <2> QED BY <1>1, <2>1, LeastNat
<1>3. m \in Nat /\ ~ \E f : IsDrawn(f, am, v, m)
  BY <1>2
<1>4. CASE m = 0
  <2> DEFINE f == [i \in 0 .. 0 |-> DrawStart(v)]
  <2>1. IsDrawn(f, am, v, 0)
    <3>1. \A i \in 0 .. 0 : i = 0
      OBVIOUS
    <3> QED BY <3>1 DEF IsDrawn
  <2> QED BY <1>3, <1>4, <2>1
<1>5. CASE m # 0
  <2>1. m - 1 \in Nat /\ ~ (m <= m - 1)
    BY <1>3, <1>5
  <2>2. PICK f : IsDrawn(f, am, v, m - 1)
    BY <1>2, <2>1
  <2> DEFINE g == [i \in 0 .. m |-> IF i = m THEN Draws(am, f[m - 1], m) ELSE f[i]]
  <2>3. /\ \A i \in 0 .. m - 1 : f[i] = IF i = 0 THEN DrawStart(v) ELSE Draws(am, f[i - 1], i)
        /\ \A i \in 0 .. m - 1 : g[i] = f[i]
        /\ g[m] = Draws(am, f[m - 1], m)
    BY <1>3, <2>1, <2>2 DEF IsDrawn
  <2>4. ASSUME NEW i \in 0 .. m
        PROVE  g[i] = IF i = 0 THEN DrawStart(v) ELSE Draws(am, g[i - 1], i)
    <3>1. CASE i = m
      <4>1. m - 1 \in 0 .. m - 1
        BY <2>1
      <4> HIDE DEF g
      <4> QED BY <1>5, <2>3, <3>1, <4>1
    <3>2. CASE i # m
      <4>1. i \in 0 .. m - 1 /\ (i # 0 => i - 1 \in 0 .. m - 1)
        BY <1>3, <3>2
      <4> HIDE DEF g
      <4> QED BY <2>3, <4>1
    <3> QED BY <3>1, <3>2
  <2>5. IsDrawn(g, am, v, m)
    <3>1. g = [i \in 0 .. m |-> g[i]]
      OBVIOUS
    <3> HIDE DEF g
    <3> QED BY <2>4, <3>1 DEF IsDrawn
  <2> QED BY <1>3, <2>5
<1> QED BY <1>4, <1>5

(* s.v has the entries of v, in some order.                                *)
Shuffle(u, v) ==
    /\ u \in Seq(Nat) /\ Len(u) = Len(v)
    /\ \A i \in 1 .. Len(v) : \E j \in 1 .. Len(v) : u[i] = v[j]
    /\ \A j \in 1 .. Len(v) : \E i \in 1 .. Len(v) : u[i] = v[j]
    /\ \A i, j \in 1 .. Len(v) : u[i] = u[j] => i = j

LEMMA DrawLemma ==
    ASSUME NEW am, NEW v, NEW s, Shuffle(s.v, v), Len(v) \in Nat,
           NEW i \in 1 .. Len(v), NEW p \in i .. Len(v),
           s.nOldest = -1 \/ s.nOldestPos \in 1 .. Len(v)
    PROVE  LET r == Draw(am, s, i, p)
           IN  Shuffle(r.v, v) /\ r.nOldestPos \in 1 .. Len(v)
<1> DEFINE r == Draw(am, s, i, p)
<1>1. r.v = [s.v EXCEPT ![p] = s.v[i], ![i] = s.v[p]]
  BY DEF Draw
<1>2. r.nOldestPos \in 1 .. Len(v)
  <2>1. p \in 1 .. Len(v)
    OBVIOUS
  <2>2. r.nOldestPos = p \/ (s.nOldest # -1 /\ r.nOldestPos = s.nOldestPos)
    BY DEF Draw
  <2> QED BY <2>1, <2>2
<1> HIDE DEF r
<1>3. p \in 1 .. Len(v)
  OBVIOUS
<1>4. s.v \in Seq(Nat) /\ Len(s.v) = Len(v)
  BY DEF Shuffle
<1>5. r.v \in Seq(Nat) /\ Len(r.v) = Len(v)
  BY <1>1, <1>3, <1>4
<1>6. \A k \in 1 .. Len(v) : r.v[k] = IF k = i THEN s.v[p] ELSE IF k = p THEN s.v[i] ELSE s.v[k]
  BY <1>1, <1>3, <1>4
<1>7. \A k \in 1 .. Len(v) : \E j \in 1 .. Len(v) : r.v[k] = v[j]
  <2>1. SUFFICES ASSUME NEW k \in 1 .. Len(v) PROVE \E j \in 1 .. Len(v) : r.v[k] = v[j]
    OBVIOUS
  <2>2. \A m \in 1 .. Len(v) : \E j \in 1 .. Len(v) : s.v[m] = v[j]
    BY DEF Shuffle
  <2>3. PICK m \in 1 .. Len(v) : r.v[k] = s.v[m]
    BY <1>3, <1>6
  <2> QED BY <2>2, <2>3
<1>8. \A j \in 1 .. Len(v) : \E k \in 1 .. Len(v) : r.v[k] = v[j]
  <2>1. SUFFICES ASSUME NEW j \in 1 .. Len(v) PROVE \E k \in 1 .. Len(v) : r.v[k] = v[j]
    OBVIOUS
  <2>2. PICK k \in 1 .. Len(v) : s.v[k] = v[j]
    BY DEF Shuffle
  <2>3. CASE k = i
    BY <1>3, <1>6, <2>2, <2>3
  <2>4. CASE k = p
    BY <1>3, <1>6, <2>2, <2>4
  <2>5. CASE k # i /\ k # p
    BY <1>6, <2>2, <2>5
  <2> QED BY <2>3, <2>4, <2>5
<1>9. \A k, j \in 1 .. Len(v) : r.v[k] = r.v[j] => k = j
  BY <1>3, <1>6 DEF Shuffle
<1> QED BY <1>2, <1>5, <1>7, <1>8, <1>9 DEF Shuffle, r

LEMMA MinLemma ==
    ASSUME NEW a \in Nat, NEW b \in Nat
    PROVE  Min({a, b}) \in {a, b} /\ Min({a, b}) <= a /\ Min({a, b}) <= b
<1>1. \E x \in {a, b} : \A y \in {a, b} : x <= y
  OBVIOUS
<1> QED BY <1>1 DEF Min

(* What SelectTried returns is the bucket shuffled, and a position in it.  *)
LEMMA SelectTriedLemma ==
    ASSUME NEW am, NEW v \in Seq(Nat), Len(v) >= 1,
           \A i, j \in 1 .. Len(v) : v[i] = v[j] => i = j,
           NEW s \in SelectTried(am, v)
    PROVE  Shuffle(s.v, v) /\ s.nOldestPos \in 1 .. Len(v)
<1> DEFINE last == Min({ADDRMAN_TRIED_ENTRIES_INSPECT_ON_EVICT, Len(v)})
           F == CHOOSE f : f = [i \in 0 .. last |->
                                  IF i = 0 THEN {[v |-> v, nOldest |-> -1, nOldestPos |-> -1]}
                                  ELSE Draws(am, f[i - 1], i)]
<1>1. SelectTried(am, v) = F[last]
  BY Zenon DEF SelectTried
<1>2. last \in Nat /\ last >= 1 /\ last <= Len(v) /\ Len(v) \in Nat
  <2>1. Len(v) \in Nat
    OBVIOUS
  <2> QED BY <2>1, SizesLemma, MinLemma
<1>3. IsDrawn(F, am, v, last)
  <2>1. \E f : IsDrawn(f, am, v, last)
    BY <1>2, DrawnExists
  <2> HIDE DEF last
  <2> QED BY <2>1 DEF IsDrawn, DrawStart
<1> HIDE DEF F, last
<1>4. \A i \in 0 .. last : F[i] = IF i = 0 THEN DrawStart(v) ELSE Draws(am, F[i - 1], i)
  BY <1>3 DEF IsDrawn
<1> DEFINE Ok(d, i) == /\ Shuffle(d.v, v)
                       /\ d.nOldest = -1 \/ d.nOldestPos \in 1 .. Len(v)
                       /\ i # 0 => d.nOldestPos \in 1 .. Len(v)
           B == {i \in Nat : i <= last /\ ~ \A d \in F[i] : Ok(d, i)}
<1>5. B = {}
  <2>1. SUFFICES ASSUME B # {} PROVE FALSE
    OBVIOUS
  <2>2. PICK m \in B : \A k \in B : m <= k
    <3>1. B \in SUBSET Nat
      OBVIOUS
    <3> HIDE DEF B
    <3> QED BY <2>1, <3>1, LeastNat
  <2>3. m \in Nat /\ m <= last /\ m \in 0 .. last /\ ~ \A d \in F[m] : Ok(d, m)
    BY <1>2, <2>2
  <2>4. CASE m = 0
    <3>1. F[m] = DrawStart(v)
      BY <1>4, <2>3, <2>4
    <3>2. Shuffle(v, v)
      BY DEF Shuffle
    <3> QED BY <2>3, <2>4, <3>1, <3>2 DEF DrawStart
  <2>5. CASE m # 0
    <3>1. m - 1 \in Nat /\ m - 1 <= last /\ ~ (m <= m - 1) /\ m \in 1 .. Len(v)
      BY <1>2, <2>3, <2>5
    <3>2. \A d \in F[m - 1] : Ok(d, m - 1)
      BY <2>2, <3>1
    <3>3. F[m] = Draws(am, F[m - 1], m)
      BY <1>4, <2>3, <2>5
    <3>4. ASSUME NEW e \in F[m] PROVE Ok(e, m)
      <4>1. PICK d \in F[m - 1] : \E p \in m .. Len(d.v) : e = Draw(am, d, m, p)
        BY <3>3 DEF Draws
      <4>2. PICK p \in m .. Len(d.v) : e = Draw(am, d, m, p)
        BY <4>1
      <4>3. Shuffle(d.v, v) /\ (d.nOldest = -1 \/ d.nOldestPos \in 1 .. Len(v))
        BY <3>2, <4>1
      <4>4. Len(d.v) = Len(v)
        BY <4>3 DEF Shuffle
      <4>5. Shuffle(e.v, v) /\ e.nOldestPos \in 1 .. Len(v)
        BY <1>2, <3>1, <4>2, <4>3, <4>4, DrawLemma
      <4> QED BY <4>5
    <3> QED BY <2>3, <3>4
  <2> QED BY <2>4, <2>5
<1>6. last \notin B /\ s \in F[last]
  BY <1>1, <1>5
<1> QED BY <1>2, <1>6

-----------------------------------------------------------------------------
(* Good_ and MakeTried.                                                    *)

LEMMA SucceedLemma ==
    ASSUME NEW am, Consistent(am, -1), NEW n \in DOMAIN am.mapInfo, NEW t \in Time
    PROVE  LET r == [am EXCEPT !.mapInfo[n].nLastSuccess = t]
           IN  /\ Consistent(r, -1) /\ DOMAIN r.mapInfo = DOMAIN am.mapInfo
               /\ r.vvNew = am.vvNew /\ r.mapAddr = am.mapAddr
               /\ r.mapInfo[n].nLastSuccess # 0
               /\ r.mapInfo[n].fInTried = am.mapInfo[n].fInTried
<1> DEFINE r == [am EXCEPT !.mapInfo[n].nLastSuccess = t]
           i == [am.mapInfo[n] EXCEPT !.nLastSuccess = t]
           D == DOMAIN am.mapInfo
<1>1. Typed(am) /\ Addressed(am) /\ Ordered(am) /\ Referenced(am, -1)
  BY DEF Consistent
<1>2. am.mapInfo[n] \in InfoType /\ t \in Nat /\ t # 0
  BY <1>1, TypedFields, AddrManAssumption
<1>3. /\ i \in InfoType /\ SamePlace(i, am.mapInfo[n])
      /\ i.nRefCount = am.mapInfo[n].nRefCount
      /\ i.fInTried = am.mapInfo[n].fInTried /\ i.nLastSuccess = t
  BY <1>2 DEF InfoType, SamePlace
<1>4. r = With(am, n, i, am.vvNew, am.vvTried, am.nTried, am.nNew)
  BY <1>1 DEF With, Typed
<1> HIDE DEF r, i
<1>5. /\ Updated(am, r)
      /\ r.vvNew = am.vvNew /\ r.vvTried = am.vvTried /\ r.nTried = am.nTried /\ r.nNew = am.nNew
      /\ r.mapInfo[n] = i
      /\ \A m \in D : m # n => r.mapInfo[m] = am.mapInfo[m]
  <2>1. /\ am.vvNew \in [NewBucket -> SUBSET Nat] /\ am.vvTried \in [TriedBucket -> Seq(Nat)]
        /\ am.nTried \in Int /\ am.nNew \in Int
    BY <1>1, TypedFields
  <2>2. i \in InfoType /\ SamePlace(i, am.mapInfo[n])
    BY <1>3
  <2> DEFINE w == With(am, n, i, am.vvNew, am.vvTried, am.nTried, am.nNew)
  <2>3. /\ Updated(am, w)
        /\ w.vvNew = am.vvNew /\ w.vvTried = am.vvTried /\ w.nTried = am.nTried /\ w.nNew = am.nNew
        /\ w.mapInfo[n] = i
        /\ \A m \in D : m # n => w.mapInfo[m] = am.mapInfo[m]
    BY SMTT(60), <1>1, <2>1, <2>2, WithLemma
  <2> QED BY <1>4, <2>3
<1>6. /\ Typed(r) /\ Addressed(r) /\ Ordered(r) /\ DOMAIN r.mapInfo = D
      /\ r.mapAddr = am.mapAddr
      /\ \A m \in D : r.mapInfo[m].addr = am.mapInfo[m].addr
  BY <1>1, <1>5, UpdatedLemma DEF Updated, SamePlace
<1>7. \A m : BucketsOf(r, m) = BucketsOf(am, m)
  BY <1>5 DEF BucketsOf
<1>8. \A m \in D : /\ r.mapInfo[m].nRefCount = am.mapInfo[m].nRefCount
                   /\ r.mapInfo[m].fInTried = am.mapInfo[m].fInTried
                   /\ r.mapInfo[m].nLastSuccess \in {am.mapInfo[m].nLastSuccess, t}
  BY <1>3, <1>5
<1>9. Referenced(r, -1)
  BY <1>1, <1>5, <1>6, <1>7, <1>8 DEF Referenced
<1>10. NewOf(r) = NewOf(am) /\ TriedOf(r) = TriedOf(am)
  BY <1>6, <1>8 DEF NewOf, TriedOf
<1>11. Counted(r)
  BY <1>5, <1>10 DEF Counted, Consistent
<1>12. Tabled(r)
  <2>1. \A m \in TriedOf(am) : BucketOf(r, m) = BucketOf(am, m) /\ r.mapInfo[m].nLastSuccess # 0
    BY <1>2, <1>6, <1>8 DEF TriedOf, BucketOf, Consistent, Tabled
  <2> QED BY <1>5, <1>10, <2>1 DEF Tabled, Consistent
<1>13. Bounded(r)
  BY <1>5 DEF Bounded, Consistent
<1> QED BY <1>2, <1>3, <1>5, <1>6, <1>9, <1>11, <1>12, <1>13 DEF Consistent, r

(* Entry n leaves the new table for bucket k of the tried one, from which  *)
(* the entries of E, one at most, go to bucket e of the new table.         *)
MovedInfo(am, r, n, E) ==
    /\ Updated(am, r)
    /\ r.mapInfo[n].nRefCount = 0 /\ r.mapInfo[n].fInTried = TRUE
    /\ r.mapInfo[n].nLastSuccess # 0
    /\ \A m \in E : r.mapInfo[m].nRefCount = 1 /\ r.mapInfo[m].fInTried = FALSE
    /\ \A m \in DOMAIN am.mapInfo : m # n /\ m \notin E => r.mapInfo[m] = am.mapInfo[m]
    /\ r.nNew = am.nNew - 1 + Cardinality(E) /\ r.nTried = am.nTried + 1 - Cardinality(E)

MovedNew(am, r, n, E, e) ==
    /\ \A b \in NewBucket : r.vvNew[b] = (am.vvNew[b] \ {n}) \cup (IF b = e THEN E ELSE {})
    /\ E = {} \/ Cardinality(am.vvNew[e] \ {n}) < ADDRMAN_NEW_BUCKET_SIZE

MovedTried(am, r, n, E, k, u) ==
    /\ k = BucketOf(am, n) /\ \A m \in E : BucketOf(am, m) = k
    /\ r.vvTried = [am.vvTried EXCEPT ![k] = u]
    /\ Len(u) <= ADDRMAN_TRIED_BUCKET_SIZE
    /\ \A i, j \in 1 .. Len(u) : u[i] = u[j] => i = j
    /\ \A i \in 1 .. Len(u) : u[i] = n \/
          \E j \in 1 .. Len(am.vvTried[k]) : u[i] = am.vvTried[k][j] /\ u[i] \notin E
    /\ \A j \in 1 .. Len(am.vvTried[k]) : am.vvTried[k][j] \in E \/
          \E i \in 1 .. Len(u) : u[i] = am.vvTried[k][j]
    /\ \E i \in 1 .. Len(u) : u[i] = n

LEMMA MoveLemma ==
    ASSUME NEW am, Consistent(am, -1), NEW r,
           NEW n \in NewOf(am), NEW E \in SUBSET TriedOf(am), \A x, y \in E : x = y,
           NEW e \in NewBucket, NEW k \in TriedBucket, NEW u \in Seq(Nat),
           MovedInfo(am, r, n, E), MovedNew(am, r, n, E, e), MovedTried(am, r, n, E, k, u)
    PROVE  Consistent(r, -1) /\ r.mapAddr = am.mapAddr
<1> DEFINE D == DOMAIN am.mapInfo
<1>1. Typed(am) /\ Addressed(am) /\ Ordered(am) /\ Referenced(am, -1)
  BY DEF Consistent
<1>2. /\ Typed(r) /\ Addressed(r) /\ Ordered(r) /\ DOMAIN r.mapInfo = D
      /\ r.mapAddr = am.mapAddr
      /\ \A m \in D : r.mapInfo[m].addr = am.mapInfo[m].addr
  BY <1>1, UpdatedLemma DEF MovedInfo, Updated, SamePlace
<1>3. n \in D /\ ~ am.mapInfo[n].fInTried /\ E \subseteq D /\ n \notin E
  BY DEF NewOf, TriedOf
<1>4. IsFiniteSet(E) /\ Cardinality(E) \in Nat
  BY <1>1, <1>3, FiniteEntries
<1>5. \A b \in NewBucket : \A m \in am.vvNew[b] : m \notin E /\ m \in D
  BY ReferencedOnce DEF TriedOf
<1>6. /\ BucketsOf(r, n) = {}
      /\ \A m \in E : BucketsOf(r, m) = {e}
      /\ \A m : m # n /\ m \notin E => BucketsOf(r, m) = BucketsOf(am, m)
  BY <1>3, <1>5 DEF BucketsOf, MovedNew
<1>7. Referenced(r, -1)
  <2>1. D \subseteq Nat /\ -1 \notin D /\ (\A m \in D : Cardinality(BucketsOf(r, m)) \in Nat)
    BY <1>1, TypedFields, FiniteBuckets
  <2>2. /\ r.mapInfo[n].nRefCount = Cardinality(BucketsOf(r, n))
        /\ r.mapInfo[n].nRefCount <= ADDRMAN_NEW_BUCKETS_PER_ADDRESS
        /\ r.mapInfo[n].fInTried = (r.mapInfo[n].nRefCount = 0)
    <3>1. Cardinality(BucketsOf(r, n)) = 0
      BY <1>6, FS_EmptySet
    <3>2. r.mapInfo[n].fInTried = (r.mapInfo[n].nRefCount = 0)
      BY Zenon DEF MovedInfo
    <3> QED BY <3>1, <3>2, SizesLemma DEF MovedInfo
  <2>3. ASSUME NEW m \in E
        PROVE  /\ r.mapInfo[m].nRefCount = Cardinality(BucketsOf(r, m))
               /\ r.mapInfo[m].nRefCount <= ADDRMAN_NEW_BUCKETS_PER_ADDRESS
               /\ r.mapInfo[m].fInTried = (r.mapInfo[m].nRefCount = 0)
    <3>1. Cardinality(BucketsOf(r, m)) = 1
      BY <1>6, FS_Singleton
    <3>2. r.mapInfo[m].nRefCount = 1 /\ r.mapInfo[m].fInTried = FALSE
      BY DEF MovedInfo
    <3>3. ~ (r.mapInfo[m].nRefCount = 0)
      BY <3>2
    <3>4. r.mapInfo[m].fInTried = (r.mapInfo[m].nRefCount = 0)
      BY <3>2, <3>3, Zenon
    <3> QED BY <3>1, <3>2, <3>4, SizesLemma
  <2>4. \A m \in D : m # n /\ m \notin E =>
               /\ r.mapInfo[m].nRefCount = Cardinality(BucketsOf(r, m))
               /\ r.mapInfo[m].nRefCount <= ADDRMAN_NEW_BUCKETS_PER_ADDRESS
               /\ r.mapInfo[m].fInTried = (r.mapInfo[m].nRefCount = 0)
    <3>1. \A m \in D : m # -1 /\ (m # n /\ m \notin E => r.mapInfo[m] = am.mapInfo[m])
      BY <2>1 DEF MovedInfo
    <3>2. \A m \in D : /\ am.mapInfo[m].nRefCount = Cardinality(BucketsOf(am, m)) + 0
                       /\ am.mapInfo[m].nRefCount <= ADDRMAN_NEW_BUCKETS_PER_ADDRESS
                       /\ am.mapInfo[m].fInTried = (am.mapInfo[m].nRefCount = 0)
      BY <1>1, <3>1 DEF Referenced
    <3> QED BY <1>6, <2>1, <3>1, <3>2
  <2>5. \A b \in NewBucket : r.vvNew[b] \subseteq D
    BY <1>3, <1>5 DEF MovedNew
  <2>6. ASSUME NEW m \in D
        PROVE  /\ r.mapInfo[m].nRefCount = Cardinality(BucketsOf(r, m)) + (IF m = -1 THEN 1 ELSE 0)
               /\ r.mapInfo[m].nRefCount <= ADDRMAN_NEW_BUCKETS_PER_ADDRESS
               /\ r.mapInfo[m].fInTried = (r.mapInfo[m].nRefCount = 0)
    <3>1. m # -1 /\ Cardinality(BucketsOf(r, m)) + 0 = Cardinality(BucketsOf(r, m))
      BY <2>1
    <3> QED BY <2>2, <2>3, <2>4, <3>1
  <2> QED BY <1>2, <2>5, <2>6 DEF Referenced
<1>8. /\ NewOf(r) = (NewOf(am) \ {n}) \cup E
      /\ TriedOf(r) = (TriedOf(am) \ E) \cup {n}
  BY <1>2, <1>3 DEF NewOf, TriedOf, MovedInfo
<1>9. Counted(r)
  <2>1. NewOf(am) \in SUBSET D /\ TriedOf(am) \in SUBSET D
    BY DEF NewOf, TriedOf
  <2>2. /\ IsFiniteSet(NewOf(am)) /\ Cardinality(NewOf(am)) \in Nat
        /\ IsFiniteSet(TriedOf(am)) /\ Cardinality(TriedOf(am)) \in Nat
    BY <1>1, <2>1, FiniteEntries
  <2>3. /\ IsFiniteSet(NewOf(am) \ {n})
        /\ Cardinality(NewOf(am) \ {n}) = Cardinality(NewOf(am)) - 1
    BY <2>2, FS_RemoveElement
  <2>4. am.nNew = Cardinality(NewOf(am)) /\ am.nTried = Cardinality(TriedOf(am))
    BY DEF Counted, Consistent
  <2>5. n \notin TriedOf(am)
    BY <1>3 DEF TriedOf
  <2>6. CASE E = {}
    <3>1. Cardinality(E) = 0 /\ NewOf(r) = NewOf(am) \ {n} /\ TriedOf(r) = TriedOf(am) \cup {n}
      BY <1>8, <2>6, FS_EmptySet
    <3>2. Cardinality(TriedOf(am) \cup {n}) = Cardinality(TriedOf(am)) + 1
      BY <2>2, <2>5, FS_AddElement
    <3> QED BY <2>2, <2>3, <2>4, <3>1, <3>2 DEF Counted, MovedInfo
  <2>7. CASE E # {}
    <3>1. PICK x \in E : E = {x}
      BY <2>7
    <3>2. Cardinality(E) = 1
      BY <3>1, FS_Singleton
    <3>3. x \notin NewOf(am) \ {n} /\ x \in TriedOf(am)
      BY <3>1 DEF NewOf, TriedOf
    <3>4. Cardinality(NewOf(r)) = Cardinality(NewOf(am) \ {n}) + 1
      BY <1>8, <2>3, <3>1, <3>3, FS_AddElement
    <3>5. /\ IsFiniteSet(TriedOf(am) \ {x})
          /\ Cardinality(TriedOf(am) \ {x}) = Cardinality(TriedOf(am)) - 1
      BY <2>2, <3>3, FS_RemoveElement
    <3>6. Cardinality(TriedOf(r)) = Cardinality(TriedOf(am) \ {x}) + 1
      BY <1>8, <2>5, <3>1, <3>5, FS_AddElement
    <3> QED BY <2>2, <2>3, <2>4, <3>2, <3>4, <3>5, <3>6 DEF Counted, MovedInfo
  <2> QED BY <2>6, <2>7
<1>10. Tabled(r)
  <2>1. /\ r.vvTried[k] = u
        /\ \A l \in TriedBucket : l # k => r.vvTried[l] = am.vvTried[l]
    BY <1>1, TypedFields DEF MovedTried
  <2>2. \A m \in D : BucketOf(r, m) = BucketOf(am, m)
    BY <1>2 DEF BucketOf
  <2>3. /\ \A l \in TriedBucket : \A i \in 1 .. Len(am.vvTried[l]) :
             /\ am.vvTried[l][i] \in TriedOf(am)
             /\ BucketOf(am, am.vvTried[l][i]) = l
             /\ \A j \in 1 .. Len(am.vvTried[l]) : am.vvTried[l][i] = am.vvTried[l][j] => i = j
        /\ \A m \in TriedOf(am) :
             /\ am.mapInfo[m].nLastSuccess # 0
             /\ \E i \in 1 .. Len(am.vvTried[BucketOf(am, m)]) : am.vvTried[BucketOf(am, m)][i] = m
    BY DEF Consistent, Tabled
  <2>4. TriedOf(r) \subseteq D /\ TriedOf(am) \subseteq D
    BY <1>2 DEF TriedOf
  <2>5. ASSUME NEW l \in TriedBucket, NEW i \in 1 .. Len(r.vvTried[l])
        PROVE  /\ r.vvTried[l][i] \in TriedOf(r)
               /\ BucketOf(r, r.vvTried[l][i]) = l
               /\ \A j \in 1 .. Len(r.vvTried[l]) : r.vvTried[l][i] = r.vvTried[l][j] => i = j
    <3>1. CASE l = k
      <4>1. i \in 1 .. Len(u) /\ r.vvTried[l] = u
        BY <2>1, <3>1
      <4>2. u[i] = n \/ (u[i] \in TriedOf(am) /\ u[i] \notin E /\ BucketOf(am, u[i]) = k)
        <5>1. u[i] = n \/ \E j \in 1 .. Len(am.vvTried[k]) : u[i] = am.vvTried[k][j] /\ u[i] \notin E
          BY <4>1 DEF MovedTried
        <5> QED BY <2>3, <5>1
      <4>3. u[i] \in TriedOf(r) /\ BucketOf(r, u[i]) = k
        BY <1>3, <1>8, <2>2, <2>4, <4>2 DEF MovedTried
      <4> QED BY <3>1, <4>1, <4>3 DEF MovedTried
    <3>2. CASE l # k
      <4>1. r.vvTried[l] = am.vvTried[l]
        BY <2>1, <3>2
      <4>2. am.vvTried[l][i] \in TriedOf(am) /\ BucketOf(am, am.vvTried[l][i]) = l
        BY <2>3, <4>1
      <4>3. am.vvTried[l][i] \notin E
        BY <3>2, <4>2 DEF MovedTried
      <4> QED BY <1>8, <2>2, <2>3, <2>4, <4>1, <4>2, <4>3
    <3> QED BY <3>1, <3>2
  <2>6. ASSUME NEW m \in TriedOf(r)
        PROVE  /\ r.mapInfo[m].nLastSuccess # 0
               /\ \E i \in 1 .. Len(r.vvTried[BucketOf(r, m)]) : r.vvTried[BucketOf(r, m)][i] = m
    <3>1. CASE m = n
      BY <1>3, <2>1, <2>2, <3>1 DEF MovedTried, MovedInfo
    <3>2. CASE m # n
      <4>1. m \in TriedOf(am) /\ m \notin E /\ m \in D /\ r.mapInfo[m] = am.mapInfo[m]
        BY <1>8, <2>4, <3>2 DEF MovedInfo
      <4>2. BucketOf(r, m) = BucketOf(am, m) /\ am.mapInfo[m].nLastSuccess # 0
        BY <2>2, <2>3, <4>1
      <4>3. PICK i \in 1 .. Len(am.vvTried[BucketOf(am, m)]) : am.vvTried[BucketOf(am, m)][i] = m
        BY <2>3, <4>1
      <4>4. CASE BucketOf(am, m) = k
        <5>1. \E j \in 1 .. Len(u) : u[j] = m
          <6>1. \A j \in 1 .. Len(am.vvTried[k]) : am.vvTried[k][j] \in E \/
                   \E l \in 1 .. Len(u) : u[l] = am.vvTried[k][j]
            BY DEF MovedTried
          <6>2. i \in 1 .. Len(am.vvTried[k]) /\ am.vvTried[k][i] = m
            BY <4>3, <4>4
          <6> QED BY <4>1, <6>1, <6>2
        <5> QED BY <2>1, <4>1, <4>2, <4>4, <5>1
      <4>5. CASE BucketOf(am, m) # k
        <5>1. BucketOf(am, m) \in TriedBucket
          <6>1. am.mapInfo[m].addr \in Address
            BY <1>1, <4>1, TypedFields DEF InfoType
          <6> QED BY <6>1, AddrManAssumption DEF BucketOf
        <5>2. r.vvTried[BucketOf(am, m)] = am.vvTried[BucketOf(am, m)]
          BY <2>1, <4>5, <5>1
        <5> QED BY <4>1, <4>2, <4>3, <5>2
      <4> QED BY <4>4, <4>5
    <3> QED BY <3>1, <3>2
  <2> QED BY <2>5, <2>6 DEF Tabled
<1>11. Bounded(r)
  <2>1. ASSUME NEW b \in NewBucket PROVE Cardinality(r.vvNew[b]) <= ADDRMAN_NEW_BUCKET_SIZE
    <3>1. /\ IsFiniteSet(am.vvNew[b]) /\ Cardinality(am.vvNew[b]) \in Nat
          /\ Cardinality(am.vvNew[b]) <= ADDRMAN_NEW_BUCKET_SIZE
      BY <1>1, FiniteBucket DEF Consistent, Bounded
    <3>2. am.vvNew[b] \ {n} \subseteq am.vvNew[b]
      OBVIOUS
    <3>3. /\ IsFiniteSet(am.vvNew[b] \ {n}) /\ Cardinality(am.vvNew[b] \ {n}) \in Nat
          /\ Cardinality(am.vvNew[b] \ {n}) <= Cardinality(am.vvNew[b])
      BY <3>1, <3>2, FS_Subset, FS_CardinalityType
    <3>4. CASE b # e \/ E = {}
      <4>1. r.vvNew[b] = am.vvNew[b] \ {n}
        BY <3>4 DEF MovedNew
      <4> QED BY <3>1, <3>3, <4>1, SizesLemma
    <3>5. CASE b = e /\ E # {}
      <4>1. PICK x \in E : E = {x}
        BY <3>5
      <4>2. r.vvNew[b] = (am.vvNew[b] \ {n}) \cup {x} /\ x \notin am.vvNew[b] \ {n}
        BY <1>5, <3>5, <4>1 DEF MovedNew
      <4>3. Cardinality(r.vvNew[b]) = Cardinality(am.vvNew[b] \ {n}) + 1
        BY <3>3, <4>2, FS_AddElement
      <4>4. Cardinality(am.vvNew[b] \ {n}) < ADDRMAN_NEW_BUCKET_SIZE
        BY <3>5 DEF MovedNew
      <4> QED BY <3>3, <4>3, <4>4, SizesLemma
    <3> QED BY <3>4, <3>5
  <2>2. \A l \in TriedBucket : Len(r.vvTried[l]) <= ADDRMAN_TRIED_BUCKET_SIZE
    BY <1>1, TypedFields DEF Consistent, Bounded, MovedTried
  <2> QED BY <2>1, <2>2 DEF Bounded
<1> QED BY <1>2, <1>7, <1>9, <1>10, <1>11 DEF Consistent

Rewritten(am, M, N, T, nt, nn) ==
    [am EXCEPT !.mapInfo = M, !.vvNew = N, !.vvTried = T, !.nTried = nt, !.nNew = nn]

Rewritable(am, M, N, T, nt, nn) ==
    /\ Typed(am)
    /\ M \in [DOMAIN am.mapInfo -> InfoType]
    /\ \A m \in DOMAIN am.mapInfo : SamePlace(M[m], am.mapInfo[m])
    /\ N \in [NewBucket -> SUBSET Nat] /\ T \in [TriedBucket -> Seq(Nat)]
    /\ nt \in Int /\ nn \in Int

LEMMA RewriteLemma ==
    ASSUME NEW am, NEW M, NEW N, NEW T, NEW nt, NEW nn, Rewritable(am, M, N, T, nt, nn)
    PROVE  LET r == Rewritten(am, M, N, T, nt, nn)
           IN  /\ Updated(am, r) /\ r.mapInfo = M
               /\ r.vvNew = N /\ r.vvTried = T /\ r.nTried = nt /\ r.nNew = nn
<1> DEFINE r == Rewritten(am, M, N, T, nt, nn)
<1>1. /\ r.vvNew = N /\ r.vvTried = T /\ r.nTried = nt /\ r.nNew = nn
      /\ r.nIdCount = am.nIdCount /\ r.mapAddr = am.mapAddr /\ r.vRandom = am.vRandom
      /\ r.mapInfo = M
      /\ r = [am EXCEPT !.mapInfo = M, !.vvNew = N, !.vvTried = T, !.nTried = nt, !.nNew = nn]
  BY DEF Typed, Rewritten, Rewritable
<1> HIDE DEF r
<1>2. Typed(r)
  BY <1>1 DEF Typed, Rewritable
<1> QED BY <1>1, <1>2 DEF Updated, Rewritable, r

AsTried(i) == [i EXCEPT !.fInTried = TRUE]
AsEvicted(i) == [i EXCEPT !.fInTried = FALSE, !.nRefCount = 1]

LEMMA TriedInfo ==
    ASSUME NEW i \in InfoType
    PROVE  /\ AsTried(i) \in InfoType /\ AsTried(i).nRefCount = i.nRefCount
           /\ AsTried(i).fInTried = TRUE /\ AsTried(i).nLastSuccess = i.nLastSuccess
           /\ SamePlace(AsTried(i), i)
           /\ AsEvicted(i) \in InfoType /\ AsEvicted(i).nRefCount = 1
           /\ AsEvicted(i).fInTried = FALSE /\ SamePlace(AsEvicted(i), i)
<1>1. /\ AsTried(i) \in InfoType /\ AsTried(i).nRefCount = i.nRefCount
      /\ AsTried(i).fInTried = TRUE /\ AsTried(i).nLastSuccess = i.nLastSuccess
      /\ SamePlace(AsTried(i), i)
  BY DEF InfoType, SamePlace, AsTried
<1> DEFINE g == [i EXCEPT !.fInTried = FALSE]
           f == [g EXCEPT !.nRefCount = 1]
<1>2. g \in InfoType /\ g.fInTried = FALSE /\ SamePlace(g, i)
  BY DEF InfoType, SamePlace
<1>3. AsEvicted(i) = f
  BY DEF InfoType, AsEvicted
<1> HIDE DEF g
<1>4. f \in InfoType /\ f.nRefCount = 1 /\ f.fInTried = FALSE /\ SamePlace(f, g)
  BY <1>2 DEF InfoType, SamePlace
<1>5. SamePlace(f, i)
  BY <1>2, <1>4 DEF SamePlace
<1> QED BY <1>1, <1>3, <1>4, <1>5

LEMMA ReplaceFields ==
    ASSUME NEW am, Typed(am), NEW k \in TriedBucket, NEW p, NEW o, NEW n \in DOMAIN am.mapInfo,
           am.vvTried[k][p] \in DOMAIN am.mapInfo, am.vvTried[k][p] # n
    PROVE  LET x == am.vvTried[k][p]
               e == EvictTo(am, x, o)
           IN  Replace(am, k, p, n, o) =
                  Rewritten(am,
                    [m \in DOMAIN am.mapInfo |-> IF m = n THEN AsTried(am.mapInfo[m])
                                                 ELSE IF m = x THEN AsEvicted(am.mapInfo[m])
                                                 ELSE am.mapInfo[m]],
                    [am.vvNew EXCEPT ![e] = @ \cup {x}],
                    [am.vvTried EXCEPT ![k] = [am.vvTried[k] EXCEPT ![p] = n]],
                    am.nTried, am.nNew + 1)
<1> DEFINE D == DOMAIN am.mapInfo
           x == am.vvTried[k][p]
           e == EvictTo(am, x, o)
           A == [am.mapInfo EXCEPT ![x].fInTried = FALSE]
           B == [A EXCEPT ![x].nRefCount = 1]
           C == [B EXCEPT ![n].fInTried = TRUE]
           M == [m \in D |-> IF m = n THEN AsTried(am.mapInfo[m])
                             ELSE IF m = x THEN AsEvicted(am.mapInfo[m])
                             ELSE am.mapInfo[m]]
           N == [am.vvNew EXCEPT ![e] = @ \cup {x}]
           T == [am.vvTried EXCEPT ![k][p] = n]
<1>1. Replace(am, k, p, n, o) =
         [am EXCEPT !.mapInfo = [@ EXCEPT ![x].fInTried = FALSE, ![x].nRefCount = 1,
                                          ![n].fInTried = TRUE],
                    !.vvNew[e] = @ \cup {x},
                    !.nNew = @ + 1,
                    !.vvTried[k][p] = n]
  BY DEF Replace
<1> HIDE DEF x, e
<1>2. [am EXCEPT !.mapInfo = [@ EXCEPT ![x].fInTried = FALSE, ![x].nRefCount = 1,
                                       ![n].fInTried = TRUE],
                 !.vvNew[e] = @ \cup {x},
                 !.nNew = @ + 1,
                 !.vvTried[k][p] = n]
      = [am EXCEPT !.mapInfo = C, !.vvNew = N, !.vvTried = T, !.nTried = am.nTried, !.nNew = am.nNew + 1]
  <2>1. [am.mapInfo EXCEPT ![x].fInTried = FALSE, ![x].nRefCount = 1, ![n].fInTried = TRUE] = C
    OBVIOUS
  <2> HIDE DEF C
  <2> DEFINE R == [am EXCEPT !.mapInfo = C,
                             !.vvNew[e] = @ \cup {x},
                             !.nNew = @ + 1,
                             !.vvTried[k][p] = n]
  <2>2. R.mapInfo = C /\ R.nNew = am.nNew + 1
    BY DEF Typed
  <2>3. R.vvNew = N
    BY DEF Typed
  <2>4. R.vvTried = T
    BY DEF Typed
  <2>5. R = [am EXCEPT !.mapInfo = R.mapInfo, !.vvNew = R.vvNew, !.vvTried = R.vvTried,
                       !.nTried = am.nTried, !.nNew = R.nNew]
    BY ZenonT(60) DEF Typed
  <2> HIDE DEF R, N, T
  <2>6. R = [am EXCEPT !.mapInfo = C, !.vvNew = N, !.vvTried = T, !.nTried = am.nTried, !.nNew = am.nNew + 1]
    BY <2>2, <2>3, <2>4, <2>5
  <2> QED BY <2>1, <2>6 DEF R
<1>3. am.mapInfo \in [D -> InfoType] /\ x \in D /\ n \in D /\ x # n
  BY TypedFields DEF x
<1>4. /\ DOMAIN A = D /\ A[x] = [am.mapInfo[x] EXCEPT !.fInTried = FALSE]
      /\ \A m \in D : m # x => A[m] = am.mapInfo[m]
  BY <1>3
<1> HIDE DEF A
<1>5. /\ DOMAIN B = D /\ B[x] = [A[x] EXCEPT !.nRefCount = 1]
      /\ \A m \in D : m # x => B[m] = am.mapInfo[m]
  BY <1>3, <1>4
<1>6. B[x] = AsEvicted(am.mapInfo[x])
  <2>1. AsEvicted(am.mapInfo[x]) = [[am.mapInfo[x] EXCEPT !.fInTried = FALSE] EXCEPT !.nRefCount = 1]
    BY DEF AsEvicted
  <2> QED BY <1>4, <1>5, <2>1
<1> HIDE DEF B
<1>7. /\ DOMAIN C = D /\ C[n] = AsTried(am.mapInfo[n])
      /\ \A m \in D : m # n => C[m] = B[m]
      /\ C = [m \in D |-> C[m]]
  BY <1>3, <1>5 DEF AsTried
<1> HIDE DEF C
<1>8. C = M
  <2>1. \A m \in D : C[m] = IF m = n THEN AsTried(am.mapInfo[m])
                            ELSE IF m = x THEN AsEvicted(am.mapInfo[m])
                            ELSE am.mapInfo[m]
    BY <1>5, <1>6, <1>7
  <2> QED BY <1>7, <2>1
<1>9. T = [am.vvTried EXCEPT ![k] = [am.vvTried[k] EXCEPT ![p] = n]]
  BY TypedFields
<1> HIDE DEF M, N, T
<1>10. Replace(am, k, p, n, o) = Rewritten(am, M, N, T, am.nTried, am.nNew + 1)
  BY <1>1, <1>2, <1>8 DEF Rewritten
<1> QED BY <1>9, <1>10 DEF M, N, x, e

LEMMA UpdatedTransitive ==
    ASSUME NEW a, NEW b, NEW c, Updated(a, b), Updated(b, c)
    PROVE  Updated(a, c)
<1>1. \A n \in DOMAIN a.mapInfo : SamePlace(c.mapInfo[n], a.mapInfo[n])
  BY DEF Updated, SamePlace
<1> QED BY <1>1 DEF Updated

(* The bucket v with n, in which the entries of E are not any more.        *)
IsReplaced(u, v, n, E) ==
    /\ u \in Seq(Nat)
    /\ \A i, j \in 1 .. Len(u) : u[i] = u[j] => i = j
    /\ \A i \in 1 .. Len(u) : u[i] = n \/ \E j \in 1 .. Len(v) : u[i] = v[j] /\ u[i] \notin E
    /\ \A j \in 1 .. Len(v) : v[j] \in E \/ \E i \in 1 .. Len(u) : u[i] = v[j]
    /\ \E i \in 1 .. Len(u) : u[i] = n

LEMMA AppendedBucket ==
    ASSUME NEW v \in Seq(Nat), NEW n \in Nat, \A i \in 1 .. Len(v) : v[i] # n,
           \A i, j \in 1 .. Len(v) : v[i] = v[j] => i = j
    PROVE  IsReplaced(Append(v, n), v, n, {}) /\ Len(Append(v, n)) = Len(v) + 1
<1> DEFINE u == Append(v, n)
<1>1. /\ u \in Seq(Nat) /\ Len(u) = Len(v) + 1 /\ Len(v) \in Nat
      /\ \A i \in 1 .. Len(v) : u[i] = v[i]
      /\ u[Len(v) + 1] = n
  OBVIOUS
<1> HIDE DEF u
<1>2. \A i \in 1 .. Len(u) : i \in 1 .. Len(v) \/ i = Len(v) + 1
  BY <1>1
<1>3. (\A i \in 1 .. Len(v) : i \in 1 .. Len(u)) /\ Len(v) + 1 \in 1 .. Len(u)
  BY <1>1
<1>4. \A i, j \in 1 .. Len(u) : u[i] = u[j] => i = j
  BY <1>1, <1>2
<1>5. \A i \in 1 .. Len(u) : u[i] = n \/ \E j \in 1 .. Len(v) : u[i] = v[j] /\ u[i] \notin {}
  BY <1>1, <1>2
<1>6. \A j \in 1 .. Len(v) : v[j] \in {} \/ \E i \in 1 .. Len(u) : u[i] = v[j]
  BY <1>1, <1>3
<1>7. \E i \in 1 .. Len(u) : u[i] = n
  BY <1>1, <1>3
<1> QED BY <1>1, <1>4, <1>5, <1>6, <1>7 DEF IsReplaced, u

Exchanged(w, p, n) == [w EXCEPT ![p] = n]

IsAbsent(n, v) == v \in Seq(Nat) /\ n \in Nat /\ \A i \in 1 .. Len(v) : v[i] # n

LEMMA ReplacedBucket ==
    ASSUME NEW v, NEW n, IsAbsent(n, v), NEW w, Shuffle(w, v), NEW p, p \in 1 .. Len(v)
    PROVE  IsReplaced(Exchanged(w, p, n), v, n, {w[p]}) /\ Len(Exchanged(w, p, n)) = Len(v)
<1> DEFINE u == Exchanged(w, p, n)
           x == w[p]
<1>1. /\ w \in Seq(Nat) /\ Len(w) = Len(v) /\ Len(v) \in Nat
      /\ \A i \in 1 .. Len(v) : \E j \in 1 .. Len(v) : w[i] = v[j]
      /\ \A j \in 1 .. Len(v) : \E i \in 1 .. Len(v) : w[i] = v[j]
      /\ \A i, j \in 1 .. Len(v) : w[i] = w[j] => i = j
      /\ n \in Nat /\ \A i \in 1 .. Len(v) : v[i] # n
  BY DEF Shuffle, IsAbsent
<1>2. /\ u \in Seq(Nat) /\ Len(u) = Len(v)
      /\ \A i \in 1 .. Len(v) : i # p => u[i] = w[i]
      /\ u[p] = n
  BY <1>1 DEF Exchanged
<1> HIDE DEF u
<1>3. \A i \in 1 .. Len(v) : w[i] # n /\ (i # p => w[i] # x)
  <2>1. ASSUME NEW i \in 1 .. Len(v) PROVE w[i] # n
    <3>1. PICK j \in 1 .. Len(v) : w[i] = v[j]
      BY <1>1
    <3> QED BY <1>1, <3>1
  <2> QED BY <1>1, <2>1
<1> HIDE DEF x
<1>4. ASSUME NEW i \in 1 .. Len(u), NEW j \in 1 .. Len(u), u[i] = u[j] PROVE i = j
  <2>1. i \in 1 .. Len(v) /\ j \in 1 .. Len(v)
    BY <1>2
  <2>2. CASE i = p \/ j = p
    BY <1>2, <1>3, <1>4, <2>1, <2>2
  <2>3. CASE i # p /\ j # p
    <3>1. u[i] = w[i] /\ u[j] = w[j]
      BY <1>2, <2>1, <2>3
    <3> QED BY <1>1, <1>4, <2>1, <3>1
  <2> QED BY <2>2, <2>3
<1>5. ASSUME NEW i \in 1 .. Len(u)
      PROVE  u[i] = n \/ \E j \in 1 .. Len(v) : u[i] = v[j] /\ u[i] \notin {x}
  <2>1. i \in 1 .. Len(v)
    BY <1>2
  <2>2. CASE i = p
    BY <1>2, <2>2
  <2>3. CASE i # p
    <3>1. PICK j \in 1 .. Len(v) : w[i] = v[j]
      BY <1>1, <2>1
    <3>2. u[i] = w[i] /\ w[i] # x
      BY <1>2, <1>3, <2>1, <2>3
    <3> QED BY <3>1, <3>2
  <2> QED BY <2>2, <2>3
<1>6. \A j \in 1 .. Len(v) : v[j] \in {x} \/ \E i \in 1 .. Len(u) : u[i] = v[j]
  <2>1. SUFFICES ASSUME NEW j \in 1 .. Len(v), v[j] # x PROVE \E i \in 1 .. Len(u) : u[i] = v[j]
    OBVIOUS
  <2>2. PICK i \in 1 .. Len(v) : w[i] = v[j]
    BY <1>1
  <2>3. i # p
    BY <2>1, <2>2 DEF x
  <2> QED BY <1>2, <2>2, <2>3
<1>7. \E i \in 1 .. Len(u) : u[i] = n
  BY <1>2
<1> QED BY <1>1, <1>2, <1>4, <1>5, <1>6, <1>7 DEF IsReplaced, u, x

(* The entry is in bucket o; it goes to the end of its tried bucket, or to *)
(* the place of the one that SelectTried chose.                            *)
LEMMA MakeTriedLemma ==
    ASSUME NEW am, Consistent(am, -1), NEW o \in NewBucket, NEW n \in am.vvNew[o],
           am.mapInfo[n].nLastSuccess # 0, NEW r \in MakeTried(am, n, o)
    PROVE  Consistent(r, -1) /\ r.mapAddr = am.mapAddr
<1> DEFINE D == DOMAIN am.mapInfo
           k == BucketOf(am, n)
           v == am.vvTried[k]
           c == Cardinality(BucketsOf(am, n))
           N0 == [b \in NewBucket |-> am.vvNew[b] \ {n}]
           M0 == [am.mapInfo EXCEPT ![n].nRefCount = @ - c]
           left == LeaveNew(am, n)
<1>0. r \in IF Len(v) < ADDRMAN_TRIED_BUCKET_SIZE
           THEN {[left EXCEPT !.vvTried[k] = Append(@, n), !.nTried = @ + 1,
                              !.mapInfo[n].fInTried = TRUE]}
           ELSE {Replace([left EXCEPT !.vvTried[k] = s.v], k, s.nOldestPos, n, o) :
                     s \in SelectTried(am, v)}
  BY DEF MakeTried, BucketOf
<1>1. Typed(am) /\ Addressed(am) /\ Ordered(am) /\ Referenced(am, -1)
  BY DEF Consistent
<1>2. /\ D \subseteq Nat /\ am.mapInfo \in [D -> InfoType] /\ am.nNew \in Int /\ am.nTried \in Int
      /\ am.vvNew \in [NewBucket -> SUBSET Nat] /\ am.vvTried \in [TriedBucket -> Seq(Nat)]
  BY <1>1, TypedFields
<1>8. /\ left = [am EXCEPT !.vvNew = N0, !.mapInfo = M0, !.nNew = am.nNew - 1]
      /\ left.vvNew = N0 /\ left.mapInfo = M0 /\ left.vvTried = am.vvTried
      /\ left.nTried = am.nTried /\ left.nNew = am.nNew - 1
  BY <1>1 DEF LeaveNew, Typed, BucketsOf
<1> HIDE DEF left, k, v, c
<1>3. /\ n \in D /\ ~ am.mapInfo[n].fInTried /\ n # -1 /\ n \in Nat
      /\ am.mapInfo[n].nRefCount \in Nat /\ am.mapInfo[n].nRefCount = c
  <2>1. /\ n \in D /\ ~ am.mapInfo[n].fInTried /\ am.mapInfo[n].nRefCount \in Nat
        /\ n # -1 => am.mapInfo[n].nRefCount = Cardinality(BucketsOf(am, n))
    BY ReferencedOnce
  <2>2. n \in Nat /\ n # -1
    BY <1>2, <2>1
  <2> QED BY <2>1, <2>2 DEF c
<1>4. k \in TriedBucket
  <2>1. am.mapInfo[n].addr \in Address
    BY <1>2, <1>3 DEF InfoType
  <2> QED BY <2>1, AddrManAssumption DEF BucketOf, k
<1>5. v = am.vvTried[k] /\ v \in Seq(Nat) /\ Len(v) \in Nat /\ Len(v) <= ADDRMAN_TRIED_BUCKET_SIZE
  BY <1>2, <1>4 DEF Consistent, Bounded, v
<1>6. /\ \A i \in 1 .. Len(v) : v[i] \in TriedOf(am) /\ BucketOf(am, v[i]) = k /\ v[i] # n
      /\ \A i, j \in 1 .. Len(v) : v[i] = v[j] => i = j
  BY <1>3, <1>4, <1>5 DEF Consistent, Tabled, TriedOf
<1>7. n \in NewOf(am)
  BY <1>3 DEF NewOf
<1>9. /\ N0 \in [NewBucket -> SUBSET Nat]
      /\ \A b \in NewBucket : N0[b] = am.vvNew[b] \ {n}
  BY <1>2
<1>10. /\ M0 \in [D -> InfoType] /\ M0[n].nRefCount = 0
       /\ M0[n].nLastSuccess = am.mapInfo[n].nLastSuccess
       /\ SamePlace(M0[n], am.mapInfo[n])
       /\ \A m \in D : m # n => M0[m] = am.mapInfo[m]
  <2>1. am.mapInfo[n] \in InfoType
    BY <1>2, <1>3
  <2>2. /\ M0[n] = [am.mapInfo[n] EXCEPT !.nRefCount = @ - c]
        /\ \A m \in D : m # n => M0[m] = am.mapInfo[m]
        /\ M0 = [m \in D |-> M0[m]]
    BY <1>2, <1>3
  <2> HIDE DEF M0
  <2>3. /\ M0[n] \in InfoType /\ M0[n].nRefCount = 0
        /\ M0[n].nLastSuccess = am.mapInfo[n].nLastSuccess
        /\ SamePlace(M0[n], am.mapInfo[n])
    BY <1>3, <2>1, <2>2 DEF InfoType, SamePlace
  <2>4. \A m \in D : M0[m] \in InfoType
    BY <1>2, <2>2, <2>3
  <2> QED BY <2>2, <2>3, <2>4
<1> HIDE DEF N0, M0
<1>11. CASE Len(v) < ADDRMAN_TRIED_BUCKET_SIZE
  <2> DEFINE M == [M0 EXCEPT ![n].fInTried = TRUE]
             u == Append(v, n)
             T == [am.vvTried EXCEPT ![k] = u]
             nt == am.nTried + 1
             nn == am.nNew - 1
  <2>1. r = [left EXCEPT !.vvTried[k] = Append(@, n), !.nTried = @ + 1, !.mapInfo[n].fInTried = TRUE]
    BY <1>0, <1>11
  <2>2. r = Rewritten(am, M, N0, T, nt, nn)
    BY <1>1, <1>5, <1>8, <2>1 DEF Typed, Rewritten
  <2>3. /\ M \in [D -> InfoType] /\ M[n].nRefCount = 0 /\ M[n].fInTried = TRUE
        /\ M[n].nLastSuccess = am.mapInfo[n].nLastSuccess
        /\ \A m \in D : SamePlace(M[m], am.mapInfo[m])
        /\ \A m \in D : m # n => M[m] = am.mapInfo[m]
    <3>1. /\ M[n] = AsTried(M0[n]) /\ M0[n] \in InfoType
          /\ \A m \in D : m # n => M[m] = am.mapInfo[m]
          /\ M = [m \in D |-> M[m]]
      BY <1>3, <1>10 DEF AsTried
    <3> HIDE DEF M
    <3>2. /\ M[n] \in InfoType /\ M[n].nRefCount = M0[n].nRefCount /\ M[n].fInTried = TRUE
          /\ M[n].nLastSuccess = M0[n].nLastSuccess
          /\ SamePlace(M[n], M0[n])
      BY <3>1, TriedInfo
    <3>3. \A m \in D : M[m] \in InfoType /\ SamePlace(M[m], am.mapInfo[m])
      BY <1>2, <1>10, <3>1, <3>2 DEF SamePlace
    <3> QED BY <1>10, <3>1, <3>2, <3>3
  <2>4. IsReplaced(u, v, n, {}) /\ Len(u) = Len(v) + 1 /\ u \in Seq(Nat)
    <3>1. /\ v \in Seq(Nat) /\ n \in Nat /\ \A i \in 1 .. Len(v) : v[i] # n
          /\ \A i, j \in 1 .. Len(v) : v[i] = v[j] => i = j
      BY <1>3, <1>5, <1>6
    <3>2. IsReplaced(u, v, n, {}) /\ Len(u) = Len(v) + 1
      BY <3>1, AppendedBucket
    <3> QED BY <3>2 DEF IsReplaced
  <2> HIDE DEF u
  <2>5. T \in [TriedBucket -> Seq(Nat)]
    BY <1>2, <1>4, <2>4
  <2> HIDE DEF M, T
  <2>6. /\ Updated(am, r) /\ r.mapInfo = M /\ r.vvNew = N0 /\ r.vvTried = T
        /\ r.nTried = am.nTried + 1 /\ r.nNew = am.nNew - 1
    <3>1. nt \in Int /\ nn \in Int
      BY <1>2
    <3>2. M \in [D -> InfoType] /\ \A m \in D : SamePlace(M[m], am.mapInfo[m])
      BY <2>3
    <3>4. Rewritable(am, M, N0, T, nt, nn)
      BY <1>1, <1>9, <2>5, <3>1, <3>2 DEF Rewritable
    <3> HIDE DEF nt, nn
    <3>3. LET q == Rewritten(am, M, N0, T, nt, nn)
          IN  /\ Updated(am, q) /\ q.mapInfo = M /\ q.vvNew = N0 /\ q.vvTried = T
              /\ q.nTried = nt /\ q.nNew = nn
      BY <3>4, RewriteLemma
    <3> QED BY <2>2, <3>3 DEF nt, nn
  <2>7. MovedInfo(am, r, n, {})
    <3>1. Cardinality({}) = 0
      BY FS_EmptySet
    <3> QED BY <1>2, <2>3, <2>6, <3>1 DEF MovedInfo
  <2>8. MovedNew(am, r, n, {}, o)
    BY <1>9, <2>6 DEF MovedNew
  <2>9. MovedTried(am, r, n, {}, k, u)
    <3>1. Len(u) <= ADDRMAN_TRIED_BUCKET_SIZE
      BY <1>5, <1>11, <2>4, SizesLemma
    <3>2. r.vvTried = [am.vvTried EXCEPT ![k] = u] /\ k = BucketOf(am, n)
      BY <2>6 DEF T, k
    <3> QED BY <1>5, <2>4, <3>1, <3>2 DEF MovedTried, IsReplaced
  <2> QED
    <3>1. {} \in SUBSET TriedOf(am) /\ \A x, y \in {} : x = y
      OBVIOUS
    <3> QED BY <1>4, <1>7, <2>4, <2>7, <2>8, <2>9, <3>1, MoveLemma
<1>12. CASE ~ (Len(v) < ADDRMAN_TRIED_BUCKET_SIZE)
  <2>1. PICK s \in SelectTried(am, v) :
            r = Replace([left EXCEPT !.vvTried[k] = s.v], k, s.nOldestPos, n, o)
    BY <1>0, <1>12
  <2> DEFINE p == s.nOldestPos
             w == s.v
             x == w[p]
             W == [am.vvTried EXCEPT ![k] = w]
             nn == am.nNew - 1
             L == Rewritten(am, M0, N0, W, am.nTried, nn)
             e == EvictTo(L, x, o)
             M == [m \in D |-> IF m = n THEN AsTried(M0[m])
                               ELSE IF m = x THEN AsEvicted(M0[m]) ELSE M0[m]]
             N == [N0 EXCEPT ![e] = @ \cup {x}]
             u == Exchanged(w, p, n)
             T == [W EXCEPT ![k] = u]
  <2>2. Shuffle(w, v) /\ p \in 1 .. Len(v) /\ w \in Seq(Nat)
    <3>1. Len(v) >= 1
      BY <1>5, <1>12, SizesLemma
    <3>2. Shuffle(w, v) /\ p \in 1 .. Len(v)
      BY <1>5, <1>6, <3>1, SelectTriedLemma
    <3> QED BY <3>2 DEF Shuffle
  <2>3. [left EXCEPT !.vvTried[k] = w] = L
    BY <1>1, <1>8 DEF Typed, Rewritten
  <2>4. r = Replace(L, k, p, n, o)
    BY <2>1, <2>3
  <2> HIDE DEF p, w
  <2>5. /\ IsReplaced(u, v, n, {x}) /\ Len(u) = Len(v) /\ u \in Seq(Nat)
        /\ \E j \in 1 .. Len(v) : x = v[j]
    <3>1. IsAbsent(n, v)
      BY <1>3, <1>5, <1>6 DEF IsAbsent
    <3>2. IsReplaced(u, v, n, {x}) /\ Len(u) = Len(v)
      BY <2>2, <3>1, ReplacedBucket
    <3>3. \E j \in 1 .. Len(v) : x = v[j]
      BY <2>2 DEF Shuffle
    <3> QED BY <3>2, <3>3 DEF IsReplaced
  <2>6. W \in [TriedBucket -> Seq(Nat)] /\ W[k] = w /\ W[k][p] = x
    BY <1>2, <1>4, <2>2
  <2>7. [W[k] EXCEPT ![p] = n] = u
    BY <2>6 DEF Exchanged
  <2> HIDE DEF x, u, W, N, M
  <2>8. x \in TriedOf(am) /\ BucketOf(am, x) = k /\ x # n /\ x \in D /\ x \in Nat
    BY <1>2, <1>6, <2>5 DEF TriedOf
  <2>9. /\ Updated(am, L) /\ L.mapInfo = M0 /\ L.vvNew = N0 /\ L.vvTried = W
        /\ L.nTried = am.nTried /\ L.nNew = nn
    <3>1. nn \in Int /\ am.nTried \in Int
      BY <1>2
    <3>2. M0 \in [D -> InfoType] /\ \A m \in D : SamePlace(M0[m], am.mapInfo[m])
      BY <1>10 DEF SamePlace
    <3>3. Rewritable(am, M0, N0, W, am.nTried, nn)
      BY <1>1, <1>9, <2>6, <3>1, <3>2 DEF Rewritable
    <3> HIDE DEF nn
    <3> QED BY <3>3, RewriteLemma
  <2>10. Typed(L) /\ DOMAIN L.mapInfo = D
    BY <2>9 DEF Updated
  <2> HIDE DEF L
  <2>11. r = Rewritten(L, M, N, T, am.nTried, nn + 1)
    <3>1. /\ L.vvTried[k][p] = x /\ x \in DOMAIN L.mapInfo /\ x # n /\ n \in DOMAIN L.mapInfo
      BY <1>3, <2>6, <2>8, <2>9, <2>10
    <3>2. Replace(L, k, p, n, o) =
             Rewritten(L,
               [m \in DOMAIN L.mapInfo |-> IF m = n THEN AsTried(L.mapInfo[m])
                                           ELSE IF m = x THEN AsEvicted(L.mapInfo[m])
                                           ELSE L.mapInfo[m]],
               [L.vvNew EXCEPT ![e] = @ \cup {x}],
               [L.vvTried EXCEPT ![k] = [L.vvTried[k] EXCEPT ![p] = n]],
               L.nTried, L.nNew + 1)
      <4> HIDE DEF x
      <4>1. LET y == L.vvTried[k][p]
            IN  Replace(L, k, p, n, o) =
                  Rewritten(L,
                    [m \in DOMAIN L.mapInfo |-> IF m = n THEN AsTried(L.mapInfo[m])
                                                ELSE IF m = y THEN AsEvicted(L.mapInfo[m])
                                                ELSE L.mapInfo[m]],
                    [L.vvNew EXCEPT ![EvictTo(L, y, o)] = @ \cup {y}],
                    [L.vvTried EXCEPT ![k] = [L.vvTried[k] EXCEPT ![p] = n]],
                    L.nTried, L.nNew + 1)
        BY <1>4, <2>10, <3>1, ReplaceFields
      <4> QED BY <3>1, <4>1
    <3> QED BY <2>4, <2>7, <2>9, <2>10, <3>2 DEF M, N
  <2>12. e \in NewBucket /\ Cardinality(am.vvNew[e] \ {n}) < ADDRMAN_NEW_BUCKET_SIZE
    <3> DEFINE own == GetNewBucket[M0[x].addr][M0[x].source]
    <3>1. own \in NewBucket
      <4>1. M0[x].addr \in Address /\ M0[x].source \in Source
        BY <1>10, <2>8 DEF InfoType
      <4> QED BY <4>1, AddrManAssumption
    <3>2. e = IF Cardinality(N0[own]) < ADDRMAN_NEW_BUCKET_SIZE THEN own ELSE o
      BY <2>9 DEF EvictTo
    <3>3. Cardinality(am.vvNew[o] \ {n}) < ADDRMAN_NEW_BUCKET_SIZE
      <4>1. /\ IsFiniteSet(am.vvNew[o]) /\ Cardinality(am.vvNew[o]) \in Nat
            /\ Cardinality(am.vvNew[o]) <= ADDRMAN_NEW_BUCKET_SIZE
        BY <1>1, FiniteBucket DEF Consistent, Bounded
      <4>2. Cardinality(am.vvNew[o] \ {n}) = Cardinality(am.vvNew[o]) - 1
        BY <4>1, FS_RemoveElement
      <4> QED BY <4>1, <4>2, SizesLemma
    <3> HIDE DEF own, e
    <3> QED BY <1>9, <3>1, <3>2, <3>3
  <2> HIDE DEF e
  <2>13. /\ M \in [D -> InfoType] /\ M[n].nRefCount = 0 /\ M[n].fInTried = TRUE
         /\ M[n].nLastSuccess = am.mapInfo[n].nLastSuccess
         /\ M[x].nRefCount = 1 /\ M[x].fInTried = FALSE
         /\ \A m \in D : SamePlace(M[m], M0[m])
         /\ \A m \in D : m # n /\ m # x => M[m] = am.mapInfo[m]
    <3>1. /\ M[n] = AsTried(M0[n]) /\ M[x] = AsEvicted(M0[x])
          /\ \A m \in D : m # n /\ m # x => M[m] = M0[m]
          /\ M = [m \in D |-> M[m]]
      BY <1>3, <2>8 DEF M
    <3>2. \A m \in D : M0[m] \in InfoType
      BY <1>10
    <3>3. /\ M[n] \in InfoType /\ M[n].nRefCount = M0[n].nRefCount /\ M[n].fInTried = TRUE
          /\ M[n].nLastSuccess = M0[n].nLastSuccess
          /\ SamePlace(M[n], M0[n])
      BY <1>3, <3>1, <3>2, TriedInfo
    <3>4. M[x] \in InfoType /\ M[x].nRefCount = 1 /\ M[x].fInTried = FALSE /\ SamePlace(M[x], M0[x])
      <4>1. M0[x] \in InfoType /\ M[x] = AsEvicted(M0[x])
        BY <2>8, <3>1, <3>2
      <4> QED BY <4>1, TriedInfo, Zenon
    <3>5. \A m \in D : M[m] \in InfoType /\ SamePlace(M[m], M0[m])
      BY <3>1, <3>2, <3>3, <3>4 DEF SamePlace
    <3> QED BY <1>10, <3>1, <3>3, <3>4, <3>5
  <2>14. /\ Updated(am, r) /\ r.mapInfo = M /\ r.vvNew = N /\ r.vvTried = T
         /\ r.nTried = am.nTried /\ r.nNew = am.nNew
         /\ \A b \in NewBucket : N[b] = (am.vvNew[b] \ {n}) \cup (IF b = e THEN {x} ELSE {})
    <3>1. T \in [TriedBucket -> Seq(Nat)] /\ N \in [NewBucket -> SUBSET Nat]
      BY <1>4, <1>9, <2>5, <2>6, <2>8, <2>12 DEF N
    <3>2. \A b \in NewBucket : N[b] = (am.vvNew[b] \ {n}) \cup (IF b = e THEN {x} ELSE {})
      BY <1>9, <2>12 DEF N
    <3>3. nn + 1 \in Int /\ nn + 1 = am.nNew /\ am.nTried \in Int
      BY <1>2
    <3>4. /\ M \in [DOMAIN L.mapInfo -> InfoType]
          /\ \A m \in DOMAIN L.mapInfo : SamePlace(M[m], L.mapInfo[m])
      BY <2>9, <2>10, <2>13
    <3> HIDE DEF T, nn
    <3>5. LET q == Rewritten(L, M, N, T, am.nTried, am.nNew)
          IN  /\ Updated(L, q) /\ q.mapInfo = M /\ q.vvNew = N /\ q.vvTried = T
              /\ q.nTried = am.nTried /\ q.nNew = am.nNew
      <4>1. am.nNew \in Int
        BY <1>2
      <4>2. Rewritable(L, M, N, T, am.nTried, am.nNew)
        BY <2>10, <3>1, <3>3, <3>4, <4>1 DEF Rewritable
      <4> QED BY <4>2, RewriteLemma
    <3>6. r = Rewritten(L, M, N, T, am.nTried, am.nNew)
      BY <2>11, <3>3
    <3>7. Updated(am, r)
      BY <2>9, <3>5, <3>6, UpdatedTransitive
    <3> QED BY <3>2, <3>5, <3>6, <3>7
  <2>15. MovedInfo(am, r, n, {x})
    <3>1. Cardinality({x}) = 1
      BY FS_Singleton
    <3> QED BY <1>2, <2>13, <2>14, <3>1 DEF MovedInfo
  <2>16. MovedNew(am, r, n, {x}, e)
    BY <2>12, <2>14 DEF MovedNew
  <2>17. MovedTried(am, r, n, {x}, k, u)
    <3>1. r.vvTried = [am.vvTried EXCEPT ![k] = u] /\ k = BucketOf(am, n)
      BY <1>2, <1>4, <2>14 DEF T, W, k
    <3>2. \A m \in {x} : BucketOf(am, m) = k
      BY <2>8
    <3> QED BY ZenonT(60), <1>5, <2>5, <3>1, <3>2 DEF MovedTried, IsReplaced
  <2> QED
    <3>1. {x} \in SUBSET TriedOf(am) /\ \A y, z \in {x} : y = z
      BY <2>8
    <3> QED BY <1>4, <1>7, <2>5, <2>12, <2>15, <2>16, <2>17, <3>1, MoveLemma
<1> QED BY <1>11, <1>12

-----------------------------------------------------------------------------
(* GetAddr_.                                                               *)

ShuffleStart(am) == {am}

IsShuffled(f, am, last) ==
    f = [n \in 0 .. last |-> IF n = 0 THEN ShuffleStart(am) ELSE Swaps(f[n - 1], n)]

LEMMA ShuffledExists == ASSUME NEW am PROVE \A last \in Nat : \E f : IsShuffled(f, am, last)
<1> DEFINE D == {l \in Nat : ~ \E f : IsShuffled(f, am, l)}
<1>1. SUFFICES ASSUME D # {} PROVE FALSE
  OBVIOUS
<1>2. PICK m \in D : \A k \in D : m <= k
  <2>1. D \in SUBSET Nat
    OBVIOUS
  <2> HIDE DEF D
  <2> QED BY <1>1, <2>1, LeastNat
<1>3. m \in Nat /\ ~ \E f : IsShuffled(f, am, m)
  BY <1>2
<1>4. CASE m = 0
  <2> DEFINE f == [i \in 0 .. 0 |-> ShuffleStart(am)]
  <2>1. IsShuffled(f, am, 0)
    <3>1. \A i \in 0 .. 0 : i = 0
      OBVIOUS
    <3> QED BY <3>1 DEF IsShuffled
  <2> QED BY <1>3, <1>4, <2>1
<1>5. CASE m # 0
  <2>1. m - 1 \in Nat /\ ~ (m <= m - 1)
    BY <1>3, <1>5
  <2>2. PICK f : IsShuffled(f, am, m - 1)
    BY <1>2, <2>1
  <2> DEFINE g == [i \in 0 .. m |-> IF i = m THEN Swaps(f[m - 1], m) ELSE f[i]]
  <2>3. /\ \A i \in 0 .. m - 1 : f[i] = IF i = 0 THEN ShuffleStart(am) ELSE Swaps(f[i - 1], i)
        /\ \A i \in 0 .. m - 1 : g[i] = f[i]
        /\ g[m] = Swaps(f[m - 1], m)
    BY <1>3, <2>1, <2>2 DEF IsShuffled
  <2>4. ASSUME NEW i \in 0 .. m
        PROVE  g[i] = IF i = 0 THEN ShuffleStart(am) ELSE Swaps(g[i - 1], i)
    <3>1. CASE i = m
      <4>1. m - 1 \in 0 .. m - 1
        BY <2>1
      <4> HIDE DEF g
      <4> QED BY <1>5, <2>3, <3>1, <4>1
    <3>2. CASE i # m
      <4>1. i \in 0 .. m - 1 /\ (i # 0 => i - 1 \in 0 .. m - 1)
        BY <1>3, <3>2
      <4> HIDE DEF g
      <4> QED BY <2>3, <4>1
    <3> QED BY <3>1, <3>2
  <2>5. IsShuffled(g, am, m)
    <3>1. g = [i \in 0 .. m |-> g[i]]
      OBVIOUS
    <3> HIDE DEF g
    <3> QED BY <2>4, <3>1 DEF IsShuffled
  <2> QED BY <1>3, <2>5
<1> QED BY <1>4, <1>5

(* However far the shuffle goes, the entries are only reordered.           *)
LEMMA ShuffleLemma ==
    ASSUME NEW am, Typed(am), Ordered(am), NEW last \in Nat, NEW f, IsShuffled(f, am, last),
           NEW r \in f[last]
    PROVE  Reordered(am, r)
<1> DEFINE B == {i \in Nat : i <= last /\ ~ \A d \in f[i] : Reordered(am, d)}
<1>1. \A i \in 0 .. last : f[i] = IF i = 0 THEN ShuffleStart(am) ELSE Swaps(f[i - 1], i)
  BY DEF IsShuffled
<1>2. B = {}
  <2>1. SUFFICES ASSUME B # {} PROVE FALSE
    OBVIOUS
  <2>2. PICK m \in B : \A k \in B : m <= k
    <3>1. B \in SUBSET Nat
      OBVIOUS
    <3> HIDE DEF B
    <3> QED BY <2>1, <3>1, LeastNat
  <2>3. m \in Nat /\ m <= last /\ m \in 0 .. last /\ ~ \A d \in f[m] : Reordered(am, d)
    BY <2>2
  <2>4. CASE m = 0
    <3>1. f[m] = {am}
      BY <1>1, <2>3, <2>4 DEF ShuffleStart
    <3>2. Reordered(am, am)
      BY DEF Reordered, SameInfo
    <3> QED BY <2>3, <3>1, <3>2
  <2>5. CASE m # 0
    <3>1. m - 1 \in Nat /\ m - 1 <= last /\ ~ (m <= m - 1) /\ m >= 1
      BY <2>3, <2>5
    <3>2. \A d \in f[m - 1] : Reordered(am, d)
      BY <2>2, <3>1
    <3>3. f[m] = Swaps(f[m - 1], m)
      BY <1>1, <2>3, <2>5
    <3>4. ASSUME NEW e \in f[m] PROVE Reordered(am, e)
      <4>1. PICK d \in f[m - 1] : \E p \in m .. Len(d.vRandom) : e = SwapRandom(d, m, p)
        BY <3>3 DEF Swaps
      <4>2. PICK p \in m .. Len(d.vRandom) : e = SwapRandom(d, m, p)
        BY <4>1
      <4>3. Reordered(am, d) /\ Typed(d) /\ Ordered(d)
        BY <3>2, <4>1 DEF Reordered
      <4>4. m \in 1 .. Len(d.vRandom) /\ p \in 1 .. Len(d.vRandom)
        <5>1. Len(d.vRandom) \in Nat
          BY <4>3, TypedFields
        <5> QED BY <3>1, <4>2, <5>1
      <4>5. Reordered(d, e)
        BY <4>2, <4>3, <4>4, SwapRandomLemma
      <4> QED BY <4>3, <4>5, ReorderedTransitive
    <3> QED BY <2>3, <3>4
  <2> QED BY <2>4, <2>5
<1>3. last \notin B
  BY <1>2
<1> QED BY <1>3

LEMMA GetAddrLemma ==
    ASSUME Consistent(addrman, -1), GetAddr
    PROVE  Reordered(addrman, addrman')
<1> DEFINE last == Min({(ADDRMAN_GETADDR_MAX_PCT * Len(addrman.vRandom)) \div 100,
                        ADDRMAN_GETADDR_MAX})
           F == CHOOSE f : f = [n \in 0 .. last |->
                                  IF n = 0 THEN {addrman} ELSE Swaps(f[n - 1], n)]
<1>1. addrman' \in F[last]
  BY Zenon DEF GetAddr
<1>2. last \in Nat
  <2> DEFINE q == ADDRMAN_GETADDR_MAX_PCT * Len(addrman.vRandom)
  <2>1. Len(addrman.vRandom) \in Nat /\ ADDRMAN_GETADDR_MAX_PCT \in Nat /\ ADDRMAN_GETADDR_MAX \in Nat
    BY TypedFields, SizesLemma DEF Consistent
  <2>2. q \in Nat
    BY <2>1
  <2> HIDE DEF q
  <2>3. q \div 100 \in Nat
    BY <2>2
  <2> QED BY <2>1, <2>3, MinLemma DEF q
<1>3. IsShuffled(F, addrman, last)
  <2>1. \E f : IsShuffled(f, addrman, last)
    BY <1>2, ShuffledExists
  <2> HIDE DEF last
  <2> QED BY <2>1 DEF IsShuffled, ShuffleStart
<1> HIDE DEF F, last
<1> QED BY <1>1, <1>2, <1>3, ShuffleLemma DEF Consistent

-----------------------------------------------------------------------------
(* Reload: identifiers in order.                                           *)

InOrder(s, S) ==
    /\ s \in [1 .. Cardinality(S) -> S]
    /\ \A i, j \in 1 .. Cardinality(S) : i < j => s[i] < s[j]

(* Every finite set of numbers can be put in order: were there one below a *)
(* least bound that cannot, it would have the bound's last number, and the *)
(* rest could be.                                                          *)
LEMMA SortedExists ==
    ASSUME NEW k \in Nat, NEW S \in SUBSET (0 .. k - 1)
    PROVE  \E s : InOrder(s, S)
<1> DEFINE B == {b \in Nat : \E Q \in SUBSET (0 .. b - 1) : ~ \E s : InOrder(s, Q)}
<1>1. SUFFICES ASSUME B # {} PROVE FALSE
  BY DEF B
<1>2. PICK m \in B : \A b \in B : m <= b
  <2>1. B \in SUBSET Nat
    OBVIOUS
  <2> HIDE DEF B
  <2> QED BY <1>1, <2>1, LeastNat
<1>3. PICK Q \in SUBSET (0 .. m - 1) : ~ \E s : InOrder(s, Q)
  BY <1>2
<1>4. m \in Nat
  BY <1>2
<1>5. IsFiniteSet(Q) /\ Cardinality(Q) \in Nat
  <2>1. IsFiniteSet(0 .. m - 1)
    BY <1>4, FS_Interval
  <2>2. IsFiniteSet(Q)
    BY <1>3, <2>1, FS_Subset
  <2> QED BY <2>2, FS_CardinalityType
<1>6. CASE m = 0
  <2>1. Q = {}
    BY <1>3, <1>6
  <2>2. Cardinality(Q) = 0
    BY <2>1, FS_EmptySet
  <2>3. InOrder([i \in 1 .. Cardinality(Q) |-> 0], Q)
    <3>1. 1 .. Cardinality(Q) = {}
      BY <2>2
    <3> QED BY <3>1 DEF InOrder
  <2> QED BY <1>3, <2>3
<1>7. CASE m # 0
  <2> DEFINE R == Q \ {m - 1}
             c == Cardinality(R)
  <2>1. m - 1 \in Nat /\ ~ (m <= m - 1)
    BY <1>4, <1>7
  <2>2. R \in SUBSET (0 .. m - 1 - 1)
    BY <1>3, <1>4, <1>7
  <2>3. PICK s : InOrder(s, R)
    BY <1>2, <2>1, <2>2
  <2>4. CASE m - 1 \notin Q
    <3>1. R = Q
      BY <2>4
    <3> QED BY <1>3, <2>3, <3>1
  <2>5. CASE m - 1 \in Q
    <3> DEFINE z == [i \in 1 .. c + 1 |-> IF i = c + 1 THEN m - 1 ELSE s[i]]
    <3>1. Cardinality(Q) = c + 1 /\ c \in Nat
      <4>1. c = Cardinality(Q) - 1 /\ IsFiniteSet(R)
        BY <1>5, <2>5, FS_RemoveElement
      <4>2. c \in Nat
        BY <4>1, FS_CardinalityType
      <4> QED BY <1>5, <4>1, <4>2
    <3>2. s \in [1 .. c -> R] /\ \A i, j \in 1 .. c : i < j => s[i] < s[j]
      BY <2>3 DEF InOrder
    <3>3. \A i \in 1 .. c : s[i] \in Q /\ s[i] < m - 1 /\ s[i] \in Nat
      <4>1. \A x \in R : x \in Q /\ x < m - 1 /\ x \in Nat
        BY <1>4, <2>2
      <4> QED BY <3>2, <4>1
    <3> HIDE DEF c, R
    <3>4. \A i \in 1 .. c + 1 : z[i] = (IF i = c + 1 THEN m - 1 ELSE s[i]) /\ (i # c + 1 => i \in 1 .. c)
      BY <3>1
    <3>5. z \in [1 .. c + 1 -> Q]
      BY <2>5, <3>3, <3>4
    <3>6. ASSUME NEW i \in 1 .. c + 1, NEW j \in 1 .. c + 1, i < j PROVE z[i] < z[j]
      <4>1. i \in 1 .. c /\ z[i] = s[i]
        BY <3>1, <3>4, <3>6
      <4>2. CASE j = c + 1
        BY <3>3, <3>4, <4>1, <4>2
      <4>3. CASE j # c + 1
        BY <3>2, <3>4, <3>6, <4>1, <4>3
      <4> QED BY <4>2, <4>3
    <3>7. InOrder(z, Q)
      <4> HIDE DEF z
      <4> QED BY <3>1, <3>5, <3>6 DEF InOrder
    <3> QED BY <1>3, <3>7
  <2> QED BY <2>4, <2>5
<1> QED BY <1>6, <1>7

(* Sorted enumerates the set, each number once.                            *)
LEMMA SortedLemma ==
    ASSUME NEW k \in Nat, NEW S \in SUBSET (0 .. k - 1)
    PROVE  /\ Cardinality(S) \in Nat /\ IsFiniteSet(S)
           /\ Sorted(S) \in Seq(S) /\ Len(Sorted(S)) = Cardinality(S)
           /\ \A i, j \in 1 .. Cardinality(S) : Sorted(S)[i] = Sorted(S)[j] => i = j
           /\ \A n \in S : \E i \in 1 .. Cardinality(S) : Sorted(S)[i] = n
<1> DEFINE c == Cardinality(S)
           z == Sorted(S)
<1>1. IsFiniteSet(S) /\ c \in Nat
  <2>1. IsFiniteSet(0 .. k - 1)
    BY FS_Interval
  <2>2. IsFiniteSet(S)
    BY <2>1, FS_Subset
  <2> QED BY <2>2, FS_CardinalityType
<1>2. InOrder(z, S)
  <2>1. \E s : InOrder(s, S)
    BY SortedExists
  <2> QED BY <2>1 DEF InOrder, Sorted
<1> HIDE DEF c, z
<1>3. z \in [1 .. c -> S] /\ \A i, j \in 1 .. c : i < j => z[i] < z[j]
  BY <1>2 DEF InOrder, c
<1>4. \A i, j \in 1 .. c : z[i] = z[j] => i = j
  <2>1. SUFFICES ASSUME NEW i \in 1 .. c, NEW j \in 1 .. c, z[i] = z[j], i # j PROVE FALSE
    OBVIOUS
  <2>2. z[i] \in Nat /\ z[j] \in Nat
    <3>1. S \subseteq Nat
      OBVIOUS
    <3> QED BY <1>3, <3>1
  <2>3. i < j \/ j < i
    BY <1>1, <2>1
  <2> QED BY <1>3, <2>1, <2>2, <2>3
<1>5. z \in Seq(S) /\ Len(z) = c
  BY <1>1, <1>3
<1>6. \A n \in S : \E i \in 1 .. c : z[i] = n
  <2>1. z \in Injection(1 .. c, S)
    BY <1>3, <1>4 DEF Injection, IsInjective
  <2>2. IsFiniteSet(1 .. c) /\ Cardinality(1 .. c) = c
    BY <1>1, FS_Interval
  <2>3. z \in Surjection(1 .. c, S)
    BY <1>1, <2>1, <2>2, FS_Injection DEF c
  <2> QED BY <2>3 DEF Surjection
<1> QED BY <1>1, <1>4, <1>5, <1>6 DEF c, z

(* The old identifiers g in the order of the new ones, of which the first  *)
(* a are those of the new entries.                                         *)
IdsOf(g) == 0 .. Len(g) - 1
NewIdsOf(g, a, S) == {n \in 0 .. a - 1 : g[n + 1] \in S}
TriedIdsOf(am, g, a, k) == {n \in a .. Len(g) - 1 : GetTriedBucket[am.mapInfo[g[n + 1]].addr] = k}

Reloaded(am, g, a) ==
    [nIdCount |-> Len(g),
     mapInfo |-> [n \in IdsOf(g) |->
         [am.mapInfo[g[n + 1]] EXCEPT
             !.nRandomPos = n + 1,
             !.nRefCount = Cardinality({b \in NewBucket : n \in NewIdsOf(g, a, am.vvNew[b])})]],
     mapAddr |-> [x \in DOMAIN am.mapAddr |-> CHOOSE n \in IdsOf(g) : am.mapInfo[g[n + 1]].addr = x],
     vRandom |-> [i \in 1 .. Len(g) |-> i - 1],
     vvTried |-> [k \in TriedBucket |-> Sorted(TriedIdsOf(am, g, a, k))],
     vvNew |-> [b \in NewBucket |-> NewIdsOf(g, a, am.vvNew[b])],
     nTried |-> am.nTried,
     nNew |-> am.nNew]

(* What the order has to be: every entry once, the new ones first.         *)
Enumerates(am, g, a) ==
    /\ g \in Seq(Nat) /\ Len(g) \in Nat /\ a \in Nat /\ a <= Len(g)
    /\ am.nNew = a /\ am.nTried = Len(g) - a
    /\ \A n \in 0 .. a - 1 : g[n + 1] \in NewOf(am)
    /\ \A n \in a .. Len(g) - 1 : g[n + 1] \in TriedOf(am)
    /\ \A m, n \in IdsOf(g) : g[m + 1] = g[n + 1] => m = n
    /\ \A m \in DOMAIN am.mapInfo : \E n \in IdsOf(g) : g[n + 1] = m

LEMMA EnumeratesLemma ==
    ASSUME NEW am, Consistent(am, -1)
    PROVE  Enumerates(am, Sorted(NewOf(am)) \o Sorted(TriedOf(am)), Len(Sorted(NewOf(am))))
<1> DEFINE u == Sorted(NewOf(am))
           v == Sorted(TriedOf(am))
           g == u \o v
           a == Len(u)
           c == Len(v)
<1>1. /\ am.nIdCount \in Nat /\ NewOf(am) \in SUBSET (0 .. am.nIdCount - 1)
      /\ TriedOf(am) \in SUBSET (0 .. am.nIdCount - 1)
  BY TypedFields DEF Consistent, NewOf, TriedOf
<1>2. /\ Cardinality(NewOf(am)) \in Nat /\ u \in Seq(NewOf(am)) /\ a = Cardinality(NewOf(am))
      /\ \A i, j \in 1 .. a : u[i] = u[j] => i = j
      /\ \A n \in NewOf(am) : \E i \in 1 .. a : u[i] = n
  BY ZenonT(60), <1>1, SortedLemma
<1>3. /\ Cardinality(TriedOf(am)) \in Nat /\ v \in Seq(TriedOf(am)) /\ c = Cardinality(TriedOf(am))
      /\ \A i, j \in 1 .. c : v[i] = v[j] => i = j
      /\ \A n \in TriedOf(am) : \E i \in 1 .. c : v[i] = n
  <2> DEFINE S == TriedOf(am)
  <2>1. S \in SUBSET (0 .. am.nIdCount - 1) /\ am.nIdCount \in Nat
    BY <1>1
  <2> HIDE DEF S
  <2>2. /\ Cardinality(S) \in Nat /\ Sorted(S) \in Seq(S) /\ Len(Sorted(S)) = Cardinality(S)
        /\ \A i, j \in 1 .. Cardinality(S) : Sorted(S)[i] = Sorted(S)[j] => i = j
        /\ \A n \in S : \E i \in 1 .. Cardinality(S) : Sorted(S)[i] = n
    BY ZenonT(60), <2>1, SortedLemma
  <2> QED BY <2>2 DEF S
<1>4. am.nNew = a /\ am.nTried = c
  BY <1>2, <1>3 DEF Consistent, Counted
<1> HIDE DEF u, v
<1>5. u \in Seq(Nat) /\ v \in Seq(Nat) /\ a \in Nat /\ c \in Nat
  <2>1. NewOf(am) \subseteq Nat /\ TriedOf(am) \subseteq Nat
    BY <1>1
  <2>2. (\A i \in 1 .. a : u[i] \in NewOf(am)) /\ (\A i \in 1 .. c : v[i] \in TriedOf(am))
    BY <1>2, <1>3
  <2>3. u = [i \in 1 .. a |-> u[i]] /\ v = [i \in 1 .. c |-> v[i]] /\ a \in Nat /\ c \in Nat
    BY <1>2, <1>3
  <2> QED BY <2>1, <2>2, <2>3
<1>6. /\ g \in Seq(Nat) /\ Len(g) = a + c
      /\ \A i \in 1 .. a : g[i] = u[i]
      /\ \A i \in 1 .. c : g[a + i] = v[i]
  BY <1>5
<1> HIDE DEF g, a, c
<1>7. ASSUME NEW n \in 0 .. a - 1 PROVE n + 1 \in 1 .. a /\ g[n + 1] = u[n + 1] /\ g[n + 1] \in NewOf(am)
  <2>1. n + 1 \in 1 .. a
    BY <1>5
  <2> QED BY <1>2, <1>6, <2>1 DEF a
<1>8. ASSUME NEW n \in a .. a + c - 1
      PROVE  n + 1 - a \in 1 .. c /\ g[n + 1] = v[n + 1 - a] /\ g[n + 1] \in TriedOf(am)
  <2>1. n + 1 - a \in 1 .. c /\ a + (n + 1 - a) = n + 1
    BY <1>5
  <2>2. g[n + 1] = v[n + 1 - a]
    BY <1>6, <2>1
  <2>3. v[n + 1 - a] \in TriedOf(am)
    BY <1>3, <2>1 DEF c
  <2> QED BY <2>1, <2>2, <2>3
<1>9. \A n \in IdsOf(g) : n \in 0 .. a - 1 \/ n \in a .. a + c - 1
  BY <1>5, <1>6 DEF IdsOf
<1>10. ASSUME NEW m \in IdsOf(g), NEW n \in IdsOf(g), g[m + 1] = g[n + 1] PROVE m = n
  <2>1. NewOf(am) \cap TriedOf(am) = {}
    BY DEF NewOf, TriedOf
  <2>2. CASE m \in 0 .. a - 1 /\ n \in 0 .. a - 1
    <3>1. m + 1 = n + 1
      BY <1>2, <1>7, <1>10, <2>2 DEF a
    <3> QED BY <1>5, <2>2, <3>1
  <2>3. CASE m \in a .. a + c - 1 /\ n \in a .. a + c - 1
    <3>1. m + 1 - a = n + 1 - a
      BY <1>3, <1>8, <1>10, <2>3 DEF c
    <3> QED BY <1>5, <2>3, <3>1
  <2>4. ~ (m \in 0 .. a - 1 /\ n \in a .. a + c - 1) /\ ~ (n \in 0 .. a - 1 /\ m \in a .. a + c - 1)
    BY <1>7, <1>8, <1>10, <2>1
  <2> QED BY <1>9, <2>2, <2>3, <2>4
<1>11. ASSUME NEW m \in DOMAIN am.mapInfo PROVE \E n \in IdsOf(g) : g[n + 1] = m
  <2>1. m \in NewOf(am) \/ m \in TriedOf(am)
    BY DEF NewOf, TriedOf
  <2>2. CASE m \in NewOf(am)
    <3>1. PICK i \in 1 .. a : u[i] = m
      BY <1>2, <2>2 DEF a
    <3>2. i - 1 \in IdsOf(g) /\ i - 1 + 1 = i
      BY <1>5, <1>6 DEF IdsOf
    <3> QED BY <1>6, <3>1, <3>2
  <2>3. CASE m \in TriedOf(am)
    <3>1. PICK i \in 1 .. c : v[i] = m
      BY <1>3, <2>3 DEF c
    <3>2. a + i - 1 \in IdsOf(g) /\ a + i - 1 + 1 = a + i
      BY <1>5, <1>6 DEF IdsOf
    <3>3. g[a + i] = m
      BY <1>6, <3>1
    <3> QED BY <3>2, <3>3
  <2> QED BY <2>1, <2>2, <2>3
<1>12. Enumerates(am, g, a)
  <2>1. Len(g) = a + c /\ a <= Len(g) /\ Len(g) - a = c /\ Len(g) \in Nat
    BY <1>5, <1>6
  <2> QED BY <1>4, <1>5, <1>6, <1>7, <1>8, <1>10, <1>11, <2>1 DEF Enumerates, IdsOf
<1> QED BY <1>12 DEF g, a, u, v

(* What an entry keeps under its new identifier.                           *)
LEMMA ReloadedEntries ==
    ASSUME NEW am, Consistent(am, -1), NEW g, NEW a, Enumerates(am, g, a)
    PROVE  LET r == Reloaded(am, g, a)
           IN  /\ DOMAIN r.mapInfo = IdsOf(g) /\ IdsOf(g) \subseteq Nat
               /\ r.mapInfo \in [IdsOf(g) -> InfoType]
               /\ \A n \in IdsOf(g) :
                     /\ g[n + 1] \in DOMAIN am.mapInfo
                     /\ SameInfo(r.mapInfo[n], am.mapInfo[g[n + 1]])
                     /\ r.mapInfo[n].nRandomPos = n + 1
                     /\ BucketsOf(r, n) = BucketsOf(am, g[n + 1])
               /\ NewOf(r) = 0 .. a - 1 /\ TriedOf(r) = a .. Len(g) - 1
<1> DEFINE r == Reloaded(am, g, a)
           C(n) == {b \in NewBucket : n \in NewIdsOf(g, a, am.vvNew[b])}
<1>1. /\ r.vvNew = [b \in NewBucket |-> NewIdsOf(g, a, am.vvNew[b])]
      /\ r.mapInfo = [n \in IdsOf(g) |-> [am.mapInfo[g[n + 1]] EXCEPT !.nRandomPos = n + 1,
                                                                      !.nRefCount = Cardinality(C(n))]]
  BY DEF Reloaded
<1> HIDE DEF r
<1>2. /\ Len(g) \in Nat /\ a \in Nat /\ a <= Len(g)
      /\ \A n \in 0 .. a - 1 : g[n + 1] \in NewOf(am)
      /\ \A n \in a .. Len(g) - 1 : g[n + 1] \in TriedOf(am)
  BY DEF Enumerates
<1>3. \A n \in IdsOf(g) : n \in Nat /\ (n \in 0 .. a - 1 \/ n \in a .. Len(g) - 1)
  BY <1>2 DEF IdsOf
<1>4. \A n \in IdsOf(g) : g[n + 1] \in DOMAIN am.mapInfo
  BY <1>2, <1>3 DEF NewOf, TriedOf
<1>5. \A n \in IdsOf(g) : C(n) = BucketsOf(am, g[n + 1]) /\ BucketsOf(r, n) = C(n)
  <2>1. SUFFICES ASSUME NEW n \in IdsOf(g)
                 PROVE  C(n) = BucketsOf(am, g[n + 1]) /\ BucketsOf(r, n) = C(n)
    OBVIOUS
  <2>2. BucketsOf(r, n) = C(n)
    BY <1>1 DEF BucketsOf
  <2>3. CASE n \in 0 .. a - 1
    BY <2>2, <2>3 DEF NewIdsOf, BucketsOf
  <2>4. CASE n \in a .. Len(g) - 1
    <3>1. n \notin 0 .. a - 1
      BY <1>2, <2>4
    <3>2. C(n) = {}
      BY <3>1 DEF NewIdsOf
    <3>3. am.mapInfo[g[n + 1]].fInTried
      BY <1>2, <2>4 DEF TriedOf
    <3>4. \A b \in NewBucket : g[n + 1] \notin am.vvNew[b]
      BY <3>3, ReferencedOnce
    <3> QED BY <2>2, <3>2, <3>4 DEF BucketsOf
  <2> QED BY <1>3, <2>3, <2>4
<1>6. ASSUME NEW n \in IdsOf(g)
      PROVE  /\ r.mapInfo[n] \in InfoType /\ SameInfo(r.mapInfo[n], am.mapInfo[g[n + 1]])
             /\ r.mapInfo[n].nRandomPos = n + 1
  <2> DEFINE i == am.mapInfo[g[n + 1]]
             c == Cardinality(C(n))
  <2>1. i \in InfoType /\ n + 1 \in Nat
    BY <1>3, <1>4, TypedFields DEF Consistent
  <2>2. i.nRefCount = c /\ c \in Nat
    <3>1. c = Cardinality(BucketsOf(am, g[n + 1])) /\ c \in Nat
      BY <1>5, FiniteBuckets
    <3>2. g[n + 1] # -1
      BY <1>4, TypedFields DEF Consistent
    <3>3. i.nRefCount = c + 0
      BY <1>4, <3>1, <3>2 DEF Consistent, Referenced
    <3> QED BY <3>1, <3>3
  <2>3. r.mapInfo[n] = [i EXCEPT !.nRandomPos = n + 1, !.nRefCount = c]
    BY <1>1
  <2> HIDE DEF i, c
  <2>4. r.mapInfo[n] = [i EXCEPT !.nRandomPos = n + 1]
    BY <2>1, <2>2, <2>3 DEF InfoType
  <2> QED BY <2>1, <2>4, PositionLemma DEF i
<1>7. DOMAIN r.mapInfo = IdsOf(g) /\ r.mapInfo = [n \in IdsOf(g) |-> r.mapInfo[n]]
  BY <1>1
<1>8. r.mapInfo \in [IdsOf(g) -> InfoType]
  BY <1>6, <1>7
<1>9. \A n \in IdsOf(g) : r.mapInfo[n].fInTried = am.mapInfo[g[n + 1]].fInTried
  BY <1>6 DEF SameInfo
<1>10. /\ \A n \in 0 .. a - 1 : n \in IdsOf(g) /\ n \notin a .. Len(g) - 1
       /\ \A n \in a .. Len(g) - 1 : n \in IdsOf(g) /\ n \notin 0 .. a - 1
  BY <1>2 DEF IdsOf
<1>11. /\ \A n \in 0 .. a - 1 : ~ r.mapInfo[n].fInTried
       /\ \A n \in a .. Len(g) - 1 : r.mapInfo[n].fInTried
  BY <1>2, <1>9, <1>10 DEF NewOf, TriedOf
<1>12. NewOf(r) = 0 .. a - 1 /\ TriedOf(r) = a .. Len(g) - 1
  BY <1>3, <1>7, <1>10, <1>11 DEF NewOf, TriedOf
<1>13. IdsOf(g) \subseteq Nat
  BY <1>3
<1> QED BY <1>4, <1>5, <1>6, <1>7, <1>8, <1>12, <1>13 DEF r

(* No new bucket has more entries than before: their old identifiers were  *)
(* in it.                                                                  *)
LEMMA NewIdsBound ==
    ASSUME NEW am, NEW g, NEW a, Enumerates(am, g, a), NEW S, IsFiniteSet(S)
    PROVE  Cardinality(NewIdsOf(g, a, S)) <= Cardinality(S)
<1> DEFINE J == NewIdsOf(g, a, S)
           f == [n \in J |-> g[n + 1]]
<1>1. J \subseteq IdsOf(g)
  BY DEF NewIdsOf, Enumerates, IdsOf
<1>2. f \in [J -> S]
  BY DEF NewIdsOf
<1>3. \A m, n \in J : f[m] = f[n] => m = n
  BY <1>1 DEF Enumerates
<1> HIDE DEF f
<1>4. f \in Injection(J, S)
  BY <1>2, <1>3 DEF Injection, IsInjective
<1> QED BY <1>4, FS_Injection

LEMMA IntervalFrom ==
    ASSUME NEW m \in Nat, NEW n \in Nat, m <= n
    PROVE  /\ Cardinality(0 .. m - 1) = m
           /\ Cardinality(m .. n - 1) = n - m
<1>1. \A i, j \in Int : Cardinality(i .. j) = IF i > j THEN 0 ELSE j - i + 1
  BY FS_Interval
<1>2. 0 \in Int /\ m \in Int /\ m - 1 \in Int /\ n - 1 \in Int
  OBVIOUS
<1>3. Cardinality(0 .. m - 1) = IF 0 > m - 1 THEN 0 ELSE m - 1 - 0 + 1
  BY <1>1, <1>2
<1>4. Cardinality(m .. n - 1) = IF m > n - 1 THEN 0 ELSE n - 1 - m + 1
  BY <1>1, <1>2
<1> QED BY <1>3, <1>4

LEMMA IntervalSize ==
    ASSUME NEW n \in Nat
    PROVE  IsFiniteSet(1 .. n) /\ Cardinality(1 .. n) = n
<1>1. \A i, j \in Int : IsFiniteSet(i .. j) /\ Cardinality(i .. j) = IF i > j THEN 0 ELSE j - i + 1
  BY FS_Interval
<1>2. IsFiniteSet(1 .. n) /\ Cardinality(1 .. n) = IF 1 > n THEN 0 ELSE n - 1 + 1
  BY <1>1
<1> QED BY <1>2

LEMMA TriedIdsBound ==
    ASSUME NEW am, Consistent(am, -1), NEW g, NEW a, Enumerates(am, g, a), NEW k \in TriedBucket
    PROVE  Cardinality(TriedIdsOf(am, g, a, k)) <= Len(am.vvTried[k])
<1> DEFINE J == TriedIdsOf(am, g, a, k)
           v == am.vvTried[k]
           f == [n \in J |-> CHOOSE i \in 1 .. Len(v) : v[i] = g[n + 1]]
<1>1. J \subseteq IdsOf(g) /\ \A n \in J : g[n + 1] \in TriedOf(am) /\ BucketOf(am, g[n + 1]) = k
  BY DEF TriedIdsOf, Enumerates, IdsOf, BucketOf
<1>2. \A m \in TriedOf(am) : \E i \in 1 .. Len(am.vvTried[BucketOf(am, m)]) : am.vvTried[BucketOf(am, m)][i] = m
  BY DEF Consistent, Tabled
<1>3. \A n \in J : \E i \in 1 .. Len(v) : v[i] = g[n + 1]
  BY <1>1, <1>2
<1>4. \A n \in J : f[n] \in 1 .. Len(v) /\ v[f[n]] = g[n + 1]
  BY <1>3
<1>5. f \in [J -> 1 .. Len(v)]
  BY <1>4
<1> HIDE DEF f
<1>6. \A m, n \in J : f[m] = f[n] => m = n
  BY <1>1, <1>4 DEF Enumerates
<1>7. f \in Injection(J, 1 .. Len(v))
  BY <1>5, <1>6 DEF Injection, IsInjective
<1>8. v \in Seq(Nat) /\ Len(v) \in Nat
  BY TypedFields DEF Consistent
<1>9. IsFiniteSet(1 .. Len(v)) /\ Cardinality(1 .. Len(v)) = Len(v)
  BY <1>8, IntervalSize
<1> HIDE DEF J, v
<1>10. Cardinality(J) <= Cardinality(1 .. Len(v))
  BY <1>7, <1>9, FS_Injection
<1> QED BY <1>9, <1>10 DEF J, v

(* The manager read back is consistent and knows the same addresses.       *)
LEMMA ReloadedLemma ==
    ASSUME NEW am, Consistent(am, -1), NEW g, NEW a, Enumerates(am, g, a)
    PROVE  LET r == Reloaded(am, g, a)
           IN  Consistent(r, -1) /\ DOMAIN r.mapAddr = DOMAIN am.mapAddr
<1> DEFINE r == Reloaded(am, g, a)
           I == IdsOf(g)
           T(k) == TriedIdsOf(am, g, a, k)
           A == DOMAIN am.mapAddr
<1>1. /\ DOMAIN r.mapInfo = I /\ I \subseteq Nat
      /\ r.mapInfo \in [I -> InfoType]
      /\ \A n \in I : /\ g[n + 1] \in DOMAIN am.mapInfo
                      /\ SameInfo(r.mapInfo[n], am.mapInfo[g[n + 1]])
                      /\ r.mapInfo[n].nRandomPos = n + 1
                      /\ BucketsOf(r, n) = BucketsOf(am, g[n + 1])
      /\ NewOf(r) = 0 .. a - 1 /\ TriedOf(r) = a .. Len(g) - 1
  BY ReloadedEntries
<1>2. /\ r.nIdCount = Len(g) /\ r.nTried = am.nTried /\ r.nNew = am.nNew
      /\ r.mapAddr = [x \in A |-> CHOOSE n \in I : am.mapInfo[g[n + 1]].addr = x]
      /\ r.vRandom = [i \in 1 .. Len(g) |-> i - 1]
      /\ r.vvTried = [k \in TriedBucket |-> Sorted(T(k))]
      /\ r.vvNew = [b \in NewBucket |-> NewIdsOf(g, a, am.vvNew[b])]
      /\ r = [nIdCount |-> r.nIdCount, mapInfo |-> r.mapInfo, mapAddr |-> r.mapAddr,
              vRandom |-> r.vRandom, vvTried |-> r.vvTried, vvNew |-> r.vvNew,
              nTried |-> r.nTried, nNew |-> r.nNew]
  BY DEF Reloaded
<1> HIDE DEF r
<1>3. /\ Len(g) \in Nat /\ a \in Nat /\ a <= Len(g)
      /\ am.nNew = a /\ am.nTried = Len(g) - a
      /\ \A m, n \in I : g[m + 1] = g[n + 1] => m = n
      /\ \A m \in DOMAIN am.mapInfo : \E n \in I : g[n + 1] = m
  BY DEF Enumerates
<1>4. Typed(am) /\ Addressed(am) /\ Referenced(am, -1) /\ Tabled(am) /\ Bounded(am)
  BY DEF Consistent
<1>5. \A n \in I : /\ r.mapInfo[n].addr = am.mapInfo[g[n + 1]].addr
                   /\ r.mapInfo[n].nRefCount = am.mapInfo[g[n + 1]].nRefCount
                   /\ r.mapInfo[n].fInTried = am.mapInfo[g[n + 1]].fInTried
                   /\ r.mapInfo[n].nLastSuccess = am.mapInfo[g[n + 1]].nLastSuccess
  BY <1>1 DEF SameInfo
<1>6. \A x \in A : r.mapAddr[x] \in I /\ am.mapInfo[g[r.mapAddr[x] + 1]].addr = x
  <2>1. SUFFICES ASSUME NEW x \in A
                 PROVE  r.mapAddr[x] \in I /\ am.mapInfo[g[r.mapAddr[x] + 1]].addr = x
    OBVIOUS
  <2>2. \E n \in I : am.mapInfo[g[n + 1]].addr = x
    <3>1. am.mapAddr[x] \in DOMAIN am.mapInfo /\ am.mapInfo[am.mapAddr[x]].addr = x
      BY <1>4 DEF Addressed
    <3>2. PICK n \in I : g[n + 1] = am.mapAddr[x]
      BY <1>3, <3>1
    <3> QED BY <3>1, <3>2
  <2>3. r.mapAddr[x] = CHOOSE n \in I : am.mapInfo[g[n + 1]].addr = x
    BY <1>2
  <2> QED BY <2>2, <2>3
<1>7. \A k \in TriedBucket : /\ T(k) \in SUBSET (0 .. Len(g) - 1)
                             /\ \A n \in T(k) : n \in TriedOf(r) /\ BucketOf(r, n) = k
                             /\ \A n \in TriedOf(r) : BucketOf(r, n) = k => n \in T(k)
  <2>1. a .. Len(g) - 1 \subseteq I /\ I = 0 .. Len(g) - 1
    BY <1>3 DEF IdsOf
  <2>2. \A n \in a .. Len(g) - 1 : BucketOf(r, n) = GetTriedBucket[am.mapInfo[g[n + 1]].addr]
    BY <1>5, <2>1 DEF BucketOf
  <2> QED BY <1>1, <2>1, <2>2 DEF TriedIdsOf
<1>8. \A k \in TriedBucket :
         /\ Cardinality(T(k)) \in Nat /\ Sorted(T(k)) \in Seq(T(k)) /\ Len(Sorted(T(k))) = Cardinality(T(k))
         /\ \A i, j \in 1 .. Cardinality(T(k)) : Sorted(T(k))[i] = Sorted(T(k))[j] => i = j
         /\ \A n \in T(k) : \E i \in 1 .. Cardinality(T(k)) : Sorted(T(k))[i] = n
  <2>1. SUFFICES ASSUME NEW k \in TriedBucket
                 PROVE  /\ Cardinality(T(k)) \in Nat /\ Sorted(T(k)) \in Seq(T(k))
                        /\ Len(Sorted(T(k))) = Cardinality(T(k))
                        /\ \A i, j \in 1 .. Cardinality(T(k)) : Sorted(T(k))[i] = Sorted(T(k))[j] => i = j
                        /\ \A n \in T(k) : \E i \in 1 .. Cardinality(T(k)) : Sorted(T(k))[i] = n
    OBVIOUS
  <2> DEFINE S == T(k)
  <2>2. S \in SUBSET (0 .. Len(g) - 1) /\ Len(g) \in Nat
    BY <1>3, <1>7
  <2> HIDE DEF S
  <2>3. /\ Cardinality(S) \in Nat /\ Sorted(S) \in Seq(S) /\ Len(Sorted(S)) = Cardinality(S)
        /\ \A i, j \in 1 .. Cardinality(S) : Sorted(S)[i] = Sorted(S)[j] => i = j
        /\ \A n \in S : \E i \in 1 .. Cardinality(S) : Sorted(S)[i] = n
    BY <2>2, SortedLemma
  <2> QED BY <2>3 DEF S
<1> HIDE DEF T
<1>9. Typed(r)
  <2>1. r.mapAddr \in [A -> Nat] /\ DOMAIN r.mapAddr = A
    <3>1. r.mapAddr = [x \in A |-> r.mapAddr[x]]
      BY <1>2
    <3>2. \A x \in A : r.mapAddr[x] \in Nat
      BY <1>1, <1>6
    <3> QED BY <3>1, <3>2
  <2>2. r.vRandom \in Seq(Nat)
    BY <1>2, <1>3
  <2>3. r.vvTried \in [TriedBucket -> Seq(Nat)]
    <3>1. ASSUME NEW k \in TriedBucket PROVE Sorted(T(k)) \in Seq(Nat)
      <4>1. T(k) \subseteq Nat /\ Sorted(T(k)) \in Seq(T(k))
        BY <1>7, <1>8
      <4> DEFINE z == Sorted(T(k))
      <4> HIDE DEF z
      <4>2. z \in Seq(T(k)) => z \in Seq(Nat)
        BY <4>1
      <4> QED BY <4>1, <4>2 DEF z
    <3> QED BY <1>2, <3>1
  <2>4. r.vvNew \in [NewBucket -> SUBSET Nat]
    <3>1. \A b \in NewBucket : NewIdsOf(g, a, am.vvNew[b]) \subseteq Nat
      BY <1>3 DEF NewIdsOf
    <3> QED BY <1>2, <3>1
  <2>5. r.nIdCount \in Nat /\ r.nTried \in Int /\ r.nNew \in Int /\ I \subseteq 0 .. r.nIdCount - 1
    BY <1>2, <1>3 DEF IdsOf
  <2>6. r.mapInfo \in [DOMAIN r.mapInfo -> InfoType] /\ DOMAIN r.mapInfo \subseteq 0 .. r.nIdCount - 1
    BY <1>1, <2>5
  <2>7. r.mapAddr \in [DOMAIN r.mapAddr -> Nat]
    BY <2>1
  <2> QED BY <1>2, <2>2, <2>3, <2>4, <2>5, <2>6, <2>7 DEF Typed
<1>10. Addressed(r) /\ DOMAIN r.mapAddr = A
  <2>1. DOMAIN r.mapAddr = A
    BY <1>2
  <2>2. ASSUME NEW n \in I PROVE r.mapInfo[n].addr \in A /\ r.mapAddr[r.mapInfo[n].addr] = n
    <3> DEFINE x == am.mapInfo[g[n + 1]].addr
               m == r.mapAddr[x]
    <3>1. r.mapInfo[n].addr = x /\ x \in A /\ am.mapAddr[x] = g[n + 1]
      BY <1>1, <1>4, <1>5 DEF Addressed
    <3>2. m \in I /\ am.mapInfo[g[m + 1]].addr = x
      BY <1>6, <3>1
    <3>3. am.mapAddr[x] = g[m + 1]
      BY ZenonT(60), <1>1, <1>4, <3>2 DEF Addressed
    <3> HIDE DEF x, m
    <3>4. m = n
      BY <1>3, <3>1, <3>2, <3>3
    <3> QED BY <3>1, <3>4 DEF m
  <2>3. \A x \in A : r.mapAddr[x] \in I /\ r.mapInfo[r.mapAddr[x]].addr = x
    BY <1>5, <1>6
  <2> QED BY <1>1, <2>1, <2>2, <2>3 DEF Addressed
<1>11. Ordered(r)
  <2>1. Len(r.vRandom) = Len(g) /\ \A i \in 1 .. Len(g) : r.vRandom[i] = i - 1
    BY <1>2, <1>3
  <2>2. \A n \in I : n + 1 \in 1 .. Len(g) /\ r.vRandom[n + 1] = n
    BY <1>3, <2>1 DEF IdsOf
  <2>3. \A i \in 1 .. Len(g) : i - 1 \in I /\ i - 1 + 1 = i
    BY <1>3 DEF IdsOf
  <2>4. DOMAIN r.mapInfo = I /\ \A n \in I : r.mapInfo[n].nRandomPos = n + 1
    BY <1>1, <1>4
  <2>5. ASSUME NEW n \in I
        PROVE  r.mapInfo[n].nRandomPos \in 1 .. Len(r.vRandom) /\ r.vRandom[r.mapInfo[n].nRandomPos] = n
    BY <2>1, <2>2, <2>4
  <2>6. ASSUME NEW i \in 1 .. Len(g)
        PROVE  r.vRandom[i] \in I /\ r.mapInfo[r.vRandom[i]].nRandomPos = i
    BY <2>1, <2>3, <2>4
  <2> QED BY <2>1, <2>4, <2>5, <2>6 DEF Ordered
<1>12. Referenced(r, -1)
  <2>1. ASSUME NEW n \in I
        PROVE  /\ r.mapInfo[n].nRefCount = Cardinality(BucketsOf(r, n)) + (IF n = -1 THEN 1 ELSE 0)
               /\ r.mapInfo[n].nRefCount <= ADDRMAN_NEW_BUCKETS_PER_ADDRESS
               /\ r.mapInfo[n].fInTried = (r.mapInfo[n].nRefCount = 0)
    <3>1. n # -1 /\ g[n + 1] # -1 /\ g[n + 1] \in DOMAIN am.mapInfo
      BY <1>1, <1>4, TypedFields
    <3>2. /\ am.mapInfo[g[n + 1]].nRefCount = Cardinality(BucketsOf(am, g[n + 1])) + 0
          /\ am.mapInfo[g[n + 1]].nRefCount <= ADDRMAN_NEW_BUCKETS_PER_ADDRESS
          /\ am.mapInfo[g[n + 1]].fInTried = (am.mapInfo[g[n + 1]].nRefCount = 0)
      BY <1>4, <3>1 DEF Referenced
    <3> QED BY <1>1, <1>5, <3>1, <3>2
  <2>2. \A b \in NewBucket : r.vvNew[b] \subseteq I
    BY <1>2, <1>3 DEF NewIdsOf, IdsOf
  <2> QED BY <1>1, <2>1, <2>2 DEF Referenced
<1>13. Counted(r)
  <2>1. Len(g) \in Nat /\ a \in Nat /\ a <= Len(g)
    BY <1>3
  <2>2. Cardinality(0 .. a - 1) = a /\ Cardinality(a .. Len(g) - 1) = Len(g) - a
    BY <2>1, IntervalFrom
  <2> QED BY <1>1, <1>2, <1>3, <2>2 DEF Counted
<1>14. Tabled(r)
  <2>1. \A k \in TriedBucket : r.vvTried[k] = Sorted(T(k))
    BY <1>2
  <2>2. ASSUME NEW k \in TriedBucket, NEW i \in 1 .. Len(r.vvTried[k])
        PROVE  /\ r.vvTried[k][i] \in TriedOf(r)
               /\ BucketOf(r, r.vvTried[k][i]) = k
               /\ \A j \in 1 .. Len(r.vvTried[k]) : r.vvTried[k][i] = r.vvTried[k][j] => i = j
    <3> DEFINE z == r.vvTried[k]
               S == T(k)
    <3>1. /\ z \in Seq(S) /\ Len(z) = Cardinality(S)
          /\ \A l, j \in 1 .. Cardinality(S) : z[l] = z[j] => l = j
      BY <1>8, <2>1
    <3>2. \A n \in S : n \in TriedOf(r) /\ BucketOf(r, n) = k
      BY <1>7
    <3> HIDE DEF S, z
    <3>3. z[i] \in S /\ i \in 1 .. Len(z)
      BY <3>1 DEF z
    <3> QED BY <3>1, <3>2, <3>3 DEF z
  <2>3. ASSUME NEW n \in TriedOf(r)
        PROVE  /\ r.mapInfo[n].nLastSuccess # 0
               /\ \E i \in 1 .. Len(r.vvTried[BucketOf(r, n)]) : r.vvTried[BucketOf(r, n)][i] = n
    <3>1. n \in I /\ r.mapInfo[n].fInTried
      BY <1>1 DEF TriedOf
    <3>2. g[n + 1] \in TriedOf(am)
      BY <1>1, <1>5, <3>1 DEF TriedOf
    <3>3. r.mapInfo[n].nLastSuccess # 0
      BY <1>4, <1>5, <3>1, <3>2 DEF Tabled
    <3> DEFINE k == BucketOf(r, n)
    <3>4. k \in TriedBucket
      <4>1. r.mapInfo[n].addr \in Address
        BY <1>1, <3>1 DEF InfoType
      <4> QED BY <4>1, AddrManAssumption DEF BucketOf
    <3> HIDE DEF k
    <3>5. n \in T(k)
      BY <1>7, <3>4 DEF k
    <3>6. Len(r.vvTried[k]) = Cardinality(T(k)) /\ \E i \in 1 .. Cardinality(T(k)) : r.vvTried[k][i] = n
      BY <1>8, <2>1, <3>4, <3>5
    <3> QED BY <3>3, <3>6 DEF k
  <2> QED BY <2>2, <2>3 DEF Tabled
<1>15. Bounded(r)
  <2>1. ASSUME NEW b \in NewBucket PROVE Cardinality(r.vvNew[b]) <= ADDRMAN_NEW_BUCKET_SIZE
    <3>1. /\ IsFiniteSet(am.vvNew[b]) /\ Cardinality(am.vvNew[b]) \in Nat
          /\ Cardinality(am.vvNew[b]) <= ADDRMAN_NEW_BUCKET_SIZE
      BY <1>4, FiniteBucket DEF Bounded
    <3>2. Cardinality(r.vvNew[b]) <= Cardinality(am.vvNew[b])
      BY <1>2, <3>1, NewIdsBound
    <3>3. Cardinality(r.vvNew[b]) \in Nat
      <4>1. r.vvNew[b] \in SUBSET I
        BY <1>2, <1>3 DEF NewIdsOf, IdsOf
      <4> QED BY <1>1, <1>9, <4>1, FiniteEntries
    <3> QED BY <3>1, <3>2, <3>3, SizesLemma
  <2>2. ASSUME NEW k \in TriedBucket PROVE Len(r.vvTried[k]) <= ADDRMAN_TRIED_BUCKET_SIZE
    <3>1. Len(r.vvTried[k]) = Cardinality(T(k)) /\ Cardinality(T(k)) \in Nat
      BY <1>2, <1>8
    <3>2. Cardinality(T(k)) <= Len(am.vvTried[k])
      BY TriedIdsBound DEF T
    <3>3. Len(am.vvTried[k]) \in Nat /\ Len(am.vvTried[k]) <= ADDRMAN_TRIED_BUCKET_SIZE
      BY <1>4, TypedFields DEF Bounded
    <3> QED BY <3>1, <3>2, <3>3, SizesLemma
  <2> QED BY <2>1, <2>2 DEF Bounded
<1> QED BY <1>9, <1>10, <1>11, <1>12, <1>13, <1>14, <1>15 DEF Consistent, r
-----------------------------------------------------------------------------
(* The operations: each preserves the invariant and keeps the addresses of *)
(* the tried entries.                                                      *)

KeepsTried == \A a \in TriedAddresses : a \in DOMAIN addrman'.mapAddr

LEMMA TriedAddressesLemma ==
    ASSUME AddrManInv
    PROVE  \A a \in TriedAddresses :
              addrman.mapAddr[a] \in TriedOf(addrman) /\ addrman.mapInfo[addrman.mapAddr[a]].addr = a
  BY DEF AddrManInv, Consistent, Addressed, TriedAddresses, InfoOf, IdOf, TriedOf

LEMMA InitLemma == Init => AddrManInv
<1> SUFFICES ASSUME Init PROVE AddrManInv
  OBVIOUS
<1>1. /\ addrman.nIdCount = 0 /\ addrman.mapInfo = << >> /\ addrman.mapAddr = << >>
      /\ addrman.vRandom = << >> /\ addrman.vvTried = [k \in TriedBucket |-> << >>]
      /\ addrman.vvNew = [b \in NewBucket |-> {}] /\ addrman.nTried = 0 /\ addrman.nNew = 0
  BY DEF Init
<1>2. DOMAIN addrman.mapInfo = {} /\ DOMAIN addrman.mapAddr = {} /\ Len(addrman.vRandom) = 0
  BY <1>1
<1>3. Typed(addrman)
  BY <1>2 DEF Init, Typed
<1>4. Addressed(addrman) /\ Ordered(addrman) /\ Referenced(addrman, -1)
  BY <1>1, <1>2 DEF Addressed, Ordered, Referenced
<1>5. NewOf(addrman) = {} /\ TriedOf(addrman) = {}
  BY <1>2 DEF NewOf, TriedOf
<1>6. Counted(addrman)
  BY <1>1, <1>5, FS_EmptySet DEF Counted
<1>7. Tabled(addrman)
  <2>1. \A k \in TriedBucket : Len(addrman.vvTried[k]) = 0
    BY <1>1
  <2> QED BY <1>5, <2>1 DEF Tabled
<1>8. Bounded(addrman)
  <2>1. \A k \in TriedBucket : Len(addrman.vvTried[k]) = 0
    BY <1>1
  <2>2. \A b \in NewBucket : Cardinality(addrman.vvNew[b]) = 0
    BY <1>1, FS_EmptySet
  <2> QED BY <2>1, <2>2, SizesLemma DEF Bounded
<1> QED BY <1>3, <1>4, <1>6, <1>7, <1>8 DEF AddrManInv, Consistent

LEMMA AddNewLemma ==
    ASSUME AddrManInv, NEW a \in Address, NEW s \in Source, Add_New(a, s)
    PROVE  AddrManInv' /\ KeepsTried
<1> DEFINE n == addrman.nIdCount
           e == Created(addrman, a, s)
           c == Recounted(e, n)
           b == GetNewBucket[a][s]
<1>1. a \notin DOMAIN addrman.mapAddr /\ addrman' \in Enter(e, n, b)
  BY DEF Add_New, Known, Created
<1>2. /\ Consistent(c, n) /\ n \in DOMAIN c.mapInfo
      /\ e.vvNew = addrman.vvNew /\ c.vvNew = addrman.vvNew
      /\ DOMAIN addrman.mapAddr \subseteq DOMAIN c.mapAddr
      /\ TriedOf(c) = TriedOf(addrman)
      /\ \A m \in DOMAIN addrman.mapInfo : c.mapInfo[m] = addrman.mapInfo[m]
  BY <1>1, CreatedLemma DEF AddrManInv, IsCreated
<1>3. b \in NewBucket
  BY AddrManAssumption
<1>4. n \notin addrman.vvNew[b]
  <2>1. addrman.vvNew[b] \subseteq 0 .. n - 1 /\ n \in Nat
    BY <1>3, TypedFields DEF AddrManInv, Consistent, Referenced
  <2> QED BY <2>1
<1> HIDE DEF e
<1>5. IF Cardinality(e.vvNew[b]) = ADDRMAN_NEW_BUCKET_SIZE
      THEN \E k \in e.vvNew[b] : addrman' = Inserted(ShrinkNew(c, b, k), n, b)
      ELSE addrman' = Inserted(c, n, b)
  BY <1>1 DEF Enter, Inserted, Recounted
<1> HIDE DEF c, n, b
<1>6. Consistent(addrman', -1) /\ \A m \in TriedOf(c) : c.mapInfo[m].addr \in DOMAIN addrman'.mapAddr
  BY <1>2, <1>3, <1>4, <1>5, EnterLemma
<1>7. KeepsTried
  <2> SUFFICES ASSUME NEW x \in TriedAddresses PROVE x \in DOMAIN addrman'.mapAddr
    BY DEF KeepsTried
  <2> DEFINE m == addrman.mapAddr[x]
  <2>1. m \in TriedOf(addrman) /\ addrman.mapInfo[m].addr = x
    BY TriedAddressesLemma
  <2>2. m \in TriedOf(c) /\ c.mapInfo[m].addr = x
    BY <1>2, <2>1 DEF TriedOf
  <2> QED BY <1>6, <2>2
<1> QED BY <1>6, <1>7 DEF AddrManInv

LEMMA AddAgainLemma ==
    ASSUME AddrManInv, NEW a \in Address, NEW s \in Source, Add_Again(a, s)
    PROVE  AddrManInv' /\ KeepsTried
<1> DEFINE n == addrman.mapAddr[a]
           c == [addrman EXCEPT !.mapInfo[n].nRefCount = @ + 1]
           b == GetNewBucket[a][s]
<1>1. /\ a \in DOMAIN addrman.mapAddr /\ ~ addrman.mapInfo[n].fInTried
      /\ addrman.mapInfo[n].nRefCount < ADDRMAN_NEW_BUCKETS_PER_ADDRESS
      /\ n \notin addrman.vvNew[b] /\ addrman' \in Enter(addrman, n, b)
  BY DEF Add_Again, Known, InfoOf, IdOf
<1>2. n \in DOMAIN addrman.mapInfo
  BY <1>1 DEF AddrManInv, Consistent, Addressed
<1>3. /\ Consistent(c, n) /\ n \in DOMAIN c.mapInfo
      /\ c.vvNew = addrman.vvNew /\ c.mapAddr = addrman.mapAddr
      /\ TriedOf(c) = TriedOf(addrman)
      /\ \A m \in DOMAIN addrman.mapInfo : c.mapInfo[m].addr = addrman.mapInfo[m].addr
  <2> HIDE DEF n
  <2> QED BY <1>1, <1>2, CountLemma DEF AddrManInv
<1>4. b \in NewBucket
  BY AddrManAssumption
<1> HIDE DEF n, b
<1>5. IF Cardinality(addrman.vvNew[b]) = ADDRMAN_NEW_BUCKET_SIZE
      THEN \E k \in addrman.vvNew[b] : addrman' = Inserted(ShrinkNew(c, b, k), n, b)
      ELSE addrman' = Inserted(c, n, b)
  BY <1>1 DEF Enter, Inserted
<1> HIDE DEF c
<1>6. Consistent(addrman', -1) /\ \A m \in TriedOf(c) : c.mapInfo[m].addr \in DOMAIN addrman'.mapAddr
  BY <1>1, <1>3, <1>4, <1>5, EnterLemma
<1>7. KeepsTried
  <2> SUFFICES ASSUME NEW x \in TriedAddresses PROVE x \in DOMAIN addrman'.mapAddr
    BY DEF KeepsTried
  <2> DEFINE m == addrman.mapAddr[x]
  <2>1. m \in TriedOf(addrman) /\ addrman.mapInfo[m].addr = x
    BY TriedAddressesLemma
  <2>2. m \in TriedOf(c) /\ c.mapInfo[m].addr = x
    BY <1>3, <2>1 DEF TriedOf
  <2> QED BY <1>6, <2>2
<1> QED BY <1>6, <1>7 DEF AddrManInv

LEMMA GoodLemma ==
    ASSUME AddrManInv, NEW a \in Address, NEW t \in Time, Good(a, t)
    PROVE  AddrManInv' /\ KeepsTried
<1> DEFINE n == addrman.mapAddr[a]
           u == [addrman EXCEPT !.mapInfo[n].nLastSuccess = t]
<1>1. /\ a \in DOMAIN addrman.mapAddr
      /\ \/ addrman' = u
         \/ \E b \in NewBucket : n \in addrman.vvNew[b] /\ addrman' \in MakeTried(u, n, b)
  BY DEF Good, Known, InfoOf, IdOf, Succeeded
<1>2. n \in DOMAIN addrman.mapInfo
  BY <1>1 DEF AddrManInv, Consistent, Addressed
<1> HIDE DEF n
<1>3. /\ Consistent(u, -1) /\ u.vvNew = addrman.vvNew /\ u.mapAddr = addrman.mapAddr
      /\ u.mapInfo[n].nLastSuccess # 0
  BY <1>2, SucceedLemma DEF AddrManInv
<1> HIDE DEF u
<1>4. Consistent(addrman', -1) /\ addrman'.mapAddr = addrman.mapAddr
  <2>1. CASE addrman' = u
    BY <1>3, <2>1
  <2>2. ASSUME NEW b \in NewBucket, n \in addrman.vvNew[b], addrman' \in MakeTried(u, n, b)
        PROVE  Consistent(addrman', -1) /\ addrman'.mapAddr = addrman.mapAddr
    <3>1. n \in u.vvNew[b]
      BY <1>3, <2>2
    <3> QED BY <1>3, <2>2, <3>1, MakeTriedLemma
  <2> QED BY <1>1, <2>1, <2>2
<1> QED BY <1>4 DEF AddrManInv, KeepsTried, TriedAddresses

LEMMA ReloadLemma ==
    ASSUME AddrManInv, Reload
    PROVE  AddrManInv' /\ KeepsTried
<1> DEFINE new == Sorted(NewOf(addrman))
           tried == Sorted(TriedOf(addrman))
           g == new \o tried
           a == Len(new)
<1>1. {n \in DOMAIN addrman.mapInfo : addrman.mapInfo[n].nRefCount > 0} = NewOf(addrman)
  <2> SUFFICES ASSUME NEW n \in DOMAIN addrman.mapInfo
               PROVE  (addrman.mapInfo[n].nRefCount > 0) <=> ~ addrman.mapInfo[n].fInTried
    BY DEF NewOf
  <2>1. /\ addrman.mapInfo[n].nRefCount = Cardinality(BucketsOf(addrman, n)) + (IF n = -1 THEN 1 ELSE 0)
        /\ addrman.mapInfo[n].fInTried = (addrman.mapInfo[n].nRefCount = 0)
    BY DEF AddrManInv, Consistent, Referenced
  <2>2. Cardinality(BucketsOf(addrman, n)) \in Nat
    BY FiniteBuckets
  <2>3. addrman.mapInfo[n].nRefCount \in Nat
    BY <2>1, <2>2
  <2>4. (addrman.mapInfo[n].nRefCount > 0) <=> ~ (addrman.mapInfo[n].nRefCount = 0)
    BY <2>3
  <2> QED BY <2>1, <2>4, Zenon
<1>2. {n \in DOMAIN addrman.mapInfo : addrman.mapInfo[n].fInTried} = TriedOf(addrman)
  BY DEF TriedOf
<1>3. addrman' = Reloaded(addrman, g, a)
  <2> DEFINE S == {n \in DOMAIN addrman.mapInfo : addrman.mapInfo[n].nRefCount > 0}
             T == {n \in DOMAIN addrman.mapInfo : addrman.mapInfo[n].fInTried}
  <2>1. addrman' = Reloaded(addrman, Sorted(S) \o Sorted(T), Len(Sorted(S)))
    BY Zenon DEF Reload, Reloaded, IdsOf, NewIdsOf, TriedIdsOf
  <2> QED BY <1>1, <1>2, <2>1
<1>4. Enumerates(addrman, g, a)
  BY EnumeratesLemma DEF AddrManInv
<1> HIDE DEF g, a
<1>5. Consistent(addrman', -1) /\ DOMAIN addrman'.mapAddr = DOMAIN addrman.mapAddr
  BY <1>3, <1>4, ReloadedLemma DEF AddrManInv
<1> QED BY <1>5 DEF AddrManInv, KeepsTried, TriedAddresses

LEMMA StepLemma == AddrManInv /\ Next => AddrManInv' /\ KeepsTried
<1> SUFFICES ASSUME AddrManInv, Next PROVE AddrManInv' /\ KeepsTried
  OBVIOUS
<1>1. ASSUME NEW a \in Address, NEW s \in Source, Add_New(a, s) PROVE AddrManInv' /\ KeepsTried
  BY <1>1, AddNewLemma
<1>2. ASSUME NEW a \in Address, NEW s \in Source, Add_Again(a, s) PROVE AddrManInv' /\ KeepsTried
  BY <1>2, AddAgainLemma
<1>3. ASSUME NEW a \in Address, NEW t \in Time, Good(a, t) PROVE AddrManInv' /\ KeepsTried
  BY <1>3, GoodLemma
<1>4. ASSUME GetAddr PROVE AddrManInv' /\ KeepsTried
  <2>1. Reordered(addrman, addrman')
    BY <1>4, GetAddrLemma DEF AddrManInv
  <2>2. Consistent(addrman', -1)
    BY <2>1, ReorderedConsistent DEF AddrManInv
  <2> QED BY <2>1, <2>2 DEF AddrManInv, Reordered, KeepsTried, TriedAddresses
<1>5. ASSUME Reload PROVE AddrManInv' /\ KeepsTried
  BY <1>5, ReloadLemma
<1> QED BY <1>1, <1>2, <1>3, <1>4, <1>5 DEF Next

(***************************************************************************)
(* The inductive invariant: types, the two indexes, reference counts,      *)
(* counters, the tried table and the bucket sizes, after every operation   *)
(* of CAddrMan and after a reload.                                         *)
(***************************************************************************)
THEOREM AddrManInvCorrect == Spec => []AddrManInv
<1>1. Init => AddrManInv
  BY InitLemma
<1>2. AddrManInv /\ [Next]_addrman => AddrManInv'
  BY StepLemma DEF AddrManInv
<1> QED BY <1>1, <1>2, PTL DEF Spec

-----------------------------------------------------------------------------
(* What the invariant implies.                                             *)

LEMMA EntriesCount ==
    ASSUME NEW am, Consistent(am, -1)
    PROVE  /\ Len(am.vRandom) = Cardinality(DOMAIN am.mapInfo)
           /\ Len(am.vRandom) = am.nTried + am.nNew
<1> DEFINE D == DOMAIN am.mapInfo
           N == NewOf(am)
           T == TriedOf(am)
           L == Len(am.vRandom)
<1>1. Typed(am) /\ Ordered(am) /\ Counted(am)
  BY DEF Consistent
<1>2. L \in Nat /\ am.vRandom \in Seq(Nat) /\ DOMAIN am.vRandom = 1 .. L
  BY <1>1, TypedFields
<1>3. /\ \A i \in 1 .. L : am.vRandom[i] \in D
      /\ \A i, j \in 1 .. L : am.vRandom[i] = am.vRandom[j] => i = j
      /\ \A n \in D : \E i \in 1 .. L : am.vRandom[i] = n
  BY <1>1 DEF Ordered
<1>4. Cardinality(D) = L
  <2> DEFINE v == am.vRandom
  <2>0. v = [i \in 1 .. L |-> v[i]]
    BY SMTT(60), <1>2
  <2> HIDE DEF v, L, D
  <2>1. v \in [1 .. L -> D]
    BY <1>3, <2>0 DEF v
  <2>2. v \in Bijection(1 .. L, D)
    BY <1>3, <2>1 DEF v, Bijection, Injection, Surjection, IsInjective
  <2>3. ExistsBijection(1 .. L, D)
    BY <2>2 DEF ExistsBijection
  <2>4. IsFiniteSet(1 .. L) /\ Cardinality(1 .. L) = L
    BY <1>2, IntervalSize
  <2> QED BY <2>3, <2>4, FS_Bijection
<1>5. /\ IsFiniteSet(N) /\ Cardinality(N) \in Nat
      /\ IsFiniteSet(T) /\ Cardinality(T) \in Nat
  <2>1. N \in SUBSET D /\ T \in SUBSET D
    BY DEF NewOf, TriedOf
  <2> QED BY <1>1, <2>1, FiniteEntries
<1>6. N \cup T = D /\ N \cap T = {}
  BY DEF NewOf, TriedOf
<1>7. am.nNew = Cardinality(N) /\ am.nTried = Cardinality(T)
  BY <1>1 DEF Counted
<1> HIDE DEF N, T, D, L
<1>8. Cardinality(N \cup T) = Cardinality(N) + Cardinality(T) - Cardinality(N \cap T)
  BY <1>5, FS_Union
<1>9. Cardinality(N \cap T) = 0
  BY <1>6, FS_EmptySet
<1>10. Cardinality(D) = Cardinality(N) + Cardinality(T)
  <2>1. Cardinality(D) = Cardinality(N \cup T)
    BY <1>6
  <2>2. Cardinality(N \cup T) = Cardinality(N) + Cardinality(T)
    BY <1>5, <1>8, <1>9
  <2> QED BY <2>1, <2>2
<1> QED BY <1>4, <1>5, <1>7, <1>10 DEF L, D

LEMMA IndexesLemma == AddrManInv => IndexesAgree
<1> SUFFICES ASSUME AddrManInv PROVE IndexesAgree
  OBVIOUS
<1>1. Typed(addrman) /\ Addressed(addrman) /\ Ordered(addrman)
  BY DEF AddrManInv, Consistent
<1>2. DOMAIN addrman.vRandom = 1 .. Len(addrman.vRandom)
  BY <1>1, TypedFields
<1>3. Len(addrman.vRandom) = Cardinality(Ids) /\ Len(addrman.vRandom) = addrman.nTried + addrman.nNew
  BY EntriesCount DEF AddrManInv, Ids
<1> QED BY <1>1, <1>2, <1>3 DEF IndexesAgree, Addressed, Ordered, Ids, Info, Positions

LEMMA RefCountsLemma == AddrManInv => RefCountsMatch
<1> SUFFICES ASSUME AddrManInv PROVE RefCountsMatch
  OBVIOUS
<1>1. Typed(addrman) /\ Referenced(addrman, -1) /\ Counted(addrman)
  BY DEF AddrManInv, Consistent
<1>2. ASSUME NEW n \in Ids
      PROVE  /\ Info(n).nRefCount = Cardinality({b \in NewBucket : n \in addrman.vvNew[b]})
             /\ Info(n).nRefCount <= ADDRMAN_NEW_BUCKETS_PER_ADDRESS
             /\ Info(n).fInTried <=> Info(n).nRefCount = 0
  <2>1. /\ Info(n).nRefCount = Cardinality(BucketsOf(addrman, n)) + (IF n = -1 THEN 1 ELSE 0)
        /\ Info(n).nRefCount <= ADDRMAN_NEW_BUCKETS_PER_ADDRESS
        /\ Info(n).fInTried = (Info(n).nRefCount = 0)
    BY <1>1 DEF Referenced, Ids, Info
  <2>2. n # -1 /\ Cardinality(BucketsOf(addrman, n)) \in Nat
    BY <1>1, TypedFields, FiniteBuckets DEF Ids
  <2>3. Info(n).nRefCount = Cardinality(BucketsOf(addrman, n))
    BY <2>1, <2>2
  <2>4. Info(n).fInTried <=> Info(n).nRefCount = 0
    BY <2>1, Zenon
  <2> QED BY <2>1, <2>3, <2>4 DEF BucketsOf
<1>3. UNION {addrman.vvNew[b] : b \in NewBucket} \subseteq Ids
  BY <1>1 DEF Referenced, Ids
<1>4. addrman.nNew = Cardinality({n \in Ids : ~ Info(n).fInTried})
  BY <1>1 DEF Counted, NewOf, Ids, Info
<1> QED BY <1>2, <1>3, <1>4 DEF RefCountsMatch

(* The places of entry n in the tried table.                               *)
PlacesOf(am, n) ==
    {p \in TriedBucket \X (1 .. ADDRMAN_TRIED_BUCKET_SIZE) :
        p[2] \in Positions(am.vvTried[p[1]]) /\ am.vvTried[p[1]][p[2]] = n}

LEMMA OnePlace ==
    ASSUME NEW am, Consistent(am, -1), NEW n \in TriedOf(am)
    PROVE  Cardinality(PlacesOf(am, n)) = 1
<1> DEFINE k == BucketOf(am, n)
<1>1. Typed(am) /\ Tabled(am) /\ Bounded(am) /\ n \in DOMAIN am.mapInfo
  BY DEF Consistent, TriedOf
<1>2. k \in TriedBucket
  <2>1. am.mapInfo[n].addr \in Address
    BY <1>1, TypedFields DEF InfoType
  <2> QED BY <2>1, AddrManAssumption DEF BucketOf
<1>3. \A c \in TriedBucket : Len(am.vvTried[c]) \in Nat /\ Positions(am.vvTried[c]) = 1 .. Len(am.vvTried[c])
  BY <1>1, TypedFields DEF Positions
<1>4. PICK i \in 1 .. Len(am.vvTried[k]) : am.vvTried[k][i] = n
  BY <1>1 DEF Tabled
<1>5. i \in 1 .. ADDRMAN_TRIED_BUCKET_SIZE
  BY <1>1, <1>2, <1>3, SizesLemma DEF Bounded
<1>6. \A c \in TriedBucket : \A j \in 1 .. Len(am.vvTried[c]) : am.vvTried[c][j] = n => c = k /\ j = i
  BY <1>1, <1>2, <1>4 DEF Tabled
<1> HIDE DEF k
<1>7. \A p \in TriedBucket \X (1 .. ADDRMAN_TRIED_BUCKET_SIZE) :
        p[2] \in Positions(am.vvTried[p[1]]) /\ am.vvTried[p[1]][p[2]] = n <=> p = <<k, i>>
  <2> TAKE p \in TriedBucket \X (1 .. ADDRMAN_TRIED_BUCKET_SIZE)
  <2>1. p[1] \in TriedBucket /\ p = <<p[1], p[2]>>
    OBVIOUS
  <2>2. ASSUME p[2] \in Positions(am.vvTried[p[1]]), am.vvTried[p[1]][p[2]] = n PROVE p = <<k, i>>
    <3>1. p[2] \in 1 .. Len(am.vvTried[p[1]])
      BY <1>3, <2>1, <2>2
    <3>2. p[1] = k /\ p[2] = i
      BY <1>6, <2>1, <2>2, <3>1
    <3> QED BY <2>1, <3>2
  <2>3. ASSUME p = <<k, i>> PROVE p[2] \in Positions(am.vvTried[p[1]]) /\ am.vvTried[p[1]][p[2]] = n
    <3>1. p[1] = k /\ p[2] = i
      BY <2>3
    <3> QED BY <1>2, <1>3, <1>4, <3>1
  <2> QED BY <2>2, <2>3
<1>8. <<k, i>> \in TriedBucket \X (1 .. ADDRMAN_TRIED_BUCKET_SIZE)
  BY <1>2, <1>5
<1>9. PlacesOf(am, n) = {<<k, i>>}
  BY <1>7, <1>8 DEF PlacesOf
<1> QED BY <1>9, FS_Singleton

LEMMA TriedOnceLemma == AddrManInv => TriedOnce
<1> SUFFICES ASSUME AddrManInv PROVE TriedOnce
  OBVIOUS
<1>1. Typed(addrman) /\ Tabled(addrman) /\ Counted(addrman)
  BY DEF AddrManInv, Consistent
<1>2. \A n \in Ids : Info(n).fInTried => n \in TriedOf(addrman)
  BY DEF Ids, Info, TriedOf
<1>3. \A n \in TriedOf(addrman) : Info(n).nLastSuccess # 0 /\ Cardinality(PlacesOf(addrman, n)) = 1
  BY <1>1, OnePlace DEF Tabled, Info, AddrManInv
<1>4. ASSUME NEW k \in TriedBucket, NEW i \in Positions(addrman.vvTried[k])
      PROVE  LET n == addrman.vvTried[k][i]
             IN  n \in Ids /\ Info(n).fInTried /\ GetTriedBucket[Info(n).addr] = k
  <2>1. i \in 1 .. Len(addrman.vvTried[k])
    BY <1>1, TypedFields DEF Positions
  <2> QED BY <1>1, <2>1 DEF Tabled, TriedOf, BucketOf, Ids, Info
<1>5. addrman.nTried = Cardinality({n \in Ids : Info(n).fInTried})
  BY <1>1 DEF Counted, TriedOf, Ids, Info
<1>6. \A n \in Ids : Info(n).fInTried =>
          /\ Info(n).nLastSuccess # 0
          /\ Cardinality({p \in TriedBucket \X (1 .. ADDRMAN_TRIED_BUCKET_SIZE) :
                p[2] \in Positions(addrman.vvTried[p[1]]) /\ addrman.vvTried[p[1]][p[2]] = n}) = 1
  BY <1>2, <1>3, Zenon DEF PlacesOf
<1> QED BY <1>4, <1>5, <1>6, Zenon DEF TriedOnce

(***************************************************************************)
(* The index by address and the random order are those of the entries in   *)
(* every reachable state: the asserts of SwapRandom, Delete and GetAddr_   *)
(* hold whatever is added, evicted, shuffled or reloaded.                  *)
(***************************************************************************)
THEOREM IndexesAgreeCorrect == Spec => []IndexesAgree
<1> QED BY AddrManInvCorrect, IndexesLemma, PTL

(***************************************************************************)
(* Reference counts, tried flags and counters are those of the two tables  *)
(* in every reachable state: what Check_ returns -1 to -4 and -9 to -15    *)
(* for does not come about.                                                *)
(***************************************************************************)
THEOREM TablesMatchEntriesCorrect == Spec => []TablesMatchEntries
<1>1. AddrManInv => TablesMatchEntries
  BY RefCountsLemma, TriedOnceLemma DEF TablesMatchEntries
<1> QED BY <1>1, AddrManInvCorrect, PTL

(***************************************************************************)
(* No new or tried bucket outgrows its size: where MakeTried moves the     *)
(* entry it replaces to the bucket of the new one, "there is certainly     *)
(* place there".                                                           *)
(***************************************************************************)
THEOREM BucketsBoundedCorrect == Spec => []BucketsBounded
<1>1. AddrManInv => BucketsBounded
  BY DEF AddrManInv, Consistent, Bounded, BucketsBounded
<1> QED BY <1>1, AddrManInvCorrect, PTL

(***************************************************************************)
(* No operation forgets an address of the tried table: ShrinkNew deletes   *)
(* only new entries, MakeTried moves the one it replaces to the new table, *)
(* and a reload keeps all.                                                 *)
(***************************************************************************)
THEOREM TriedNeverDeletedCorrect == Spec => TriedNeverDeleted
<1>1. AddrManInv /\ [Next]_addrman => [TriedAddresses \subseteq DOMAIN addrman'.mapAddr]_addrman
  <2> SUFFICES ASSUME AddrManInv, Next PROVE TriedAddresses \subseteq DOMAIN addrman'.mapAddr
    OBVIOUS
  <2>1. KeepsTried
    BY StepLemma
  <2> QED BY <2>1 DEF KeepsTried
<1> QED BY <1>1, AddrManInvCorrect, PTL DEF Spec, TriedNeverDeleted
=============================================================================
