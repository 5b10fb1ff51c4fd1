----------------------------- MODULE TxDBProofs -----------------------------
(***************************************************************************)
(* CTxDB implements TxStore, for any handles, keys, values and batches.    *)
(***************************************************************************)
EXTENDS TxDB, WellFoundedInduction, TLAPS

(* A set of positions of a sequence has a greatest one.                    *)
LEMMA GreatestPosition ==
    ASSUME NEW n \in Nat, NEW P \in SUBSET (1 .. n), P # {}
    PROVE  \E m \in P : \A j \in P : j <= m
<1> DEFINE R == OpToRel(<, Nat)
           D == {n - i : i \in P}
<1>1. IsWellFoundedOn(R, Nat)
  BY NatLessThanWellFounded
<1>2. \A x, y \in Nat : x < y => <<x, y>> \in R
  BY Zenon DEF OpToRel
<1>3. D \in SUBSET Nat /\ D # {}
  <2>1. \A i \in P : n - i \in Nat
    OBVIOUS
  <2>2. D # {}
    OBVIOUS
  <2> QED BY <2>1, <2>2
<1> HIDE DEF R
<1>4. PICK d \in D : \A y \in D : ~ (<<y, d>> \in R)
  <2> HIDE DEF D
  <2> QED BY <1>1, <1>3, WFMin
<1>5. PICK m \in P : d = n - m
  OBVIOUS
<1>6. ASSUME NEW j \in P PROVE j <= m
  <2>1. n - j \in D /\ n - j \in Nat /\ d \in Nat
    BY <1>3
  <2>2. ~ (n - j < d)
    BY <1>2, <1>4, <2>1
  <2> QED BY <1>5, <2>2
<1> QED BY <1>6

(* The scan finds an entry of the batch for the key, the last one.         *)
LEMMA FoundLemma ==
    ASSUME NEW s \in Seq(Entry), NEW k, ScanBatch(s, k)
    PROVE  \E i \in Positions(s, k) :
              /\ Found(s, k) = s[i] /\ s[i] \in Entry /\ s[i].key = k
              /\ i = CHOOSE x \in Positions(s, k) : \A j \in Positions(s, k) : j <= x
<1> DEFINE P == Positions(s, k)
           m == CHOOSE x \in P : \A j \in P : j <= x
<1>1. P \in SUBSET (1 .. Len(s)) /\ Len(s) \in Nat /\ P # {}
  BY DEF Positions, ScanBatch
<1>2. \E x \in P : \A j \in P : j <= x
  <2> HIDE DEF P
  <2> QED BY <1>1, GreatestPosition
<1>3. m \in P
  BY <1>2
<1>4. s[m] \in Entry /\ s[m].key = k
  BY <1>3 DEF Positions
<1> QED BY <1>3, <1>4 DEF Found

(* One more entry in the batch.                                            *)
LEMMA ScanAppend ==
    ASSUME NEW s \in Seq(Entry), NEW e \in Entry, NEW k
    PROVE  /\ ScanBatch(Append(s, e), k) <=> (e.key = k \/ ScanBatch(s, k))
           /\ e.key = k => Found(Append(s, e), k) = e
           /\ e.key # k /\ ScanBatch(s, k) => Found(Append(s, e), k) = Found(s, k)
<1> DEFINE t == Append(s, e)
           n == Len(s)
<1>1. /\ n \in Nat /\ DOMAIN s = 1 .. n /\ DOMAIN t = 1 .. (n + 1)
      /\ t[n + 1] = e /\ \A i \in 1 .. n : t[i] = s[i]
  OBVIOUS
<1>2. e.key = k => Positions(t, k) = Positions(s, k) \cup {n + 1}
  BY <1>1 DEF Positions
<1>3. e.key # k => Positions(t, k) = Positions(s, k)
  BY <1>1 DEF Positions
<1>4. ScanBatch(t, k) <=> (e.key = k \/ ScanBatch(s, k))
  BY <1>2, <1>3 DEF ScanBatch
<1>5. ASSUME e.key = k PROVE Found(t, k) = e
  <2>1. \A i \in Positions(t, k) : i <= n + 1 /\ i \in Nat
    BY <1>1 DEF Positions
  <2>2. n + 1 \in Positions(t, k)
    BY <1>2, <1>5
  <2>3. ASSUME NEW i \in Positions(t, k), \A j \in Positions(t, k) : j <= i
        PROVE  i = n + 1
    <3>1. n + 1 <= i /\ i <= n + 1 /\ i \in Nat
      BY <2>1, <2>2, <2>3
    <3> QED BY <1>1, <3>1
  <2> HIDE DEF t, n
  <2>4. (CHOOSE i \in Positions(t, k) : \A j \in Positions(t, k) : j <= i) = n + 1
    BY <2>1, <2>2, <2>3
  <2> QED BY <1>1, <2>4 DEF Found
<1>6. ASSUME e.key # k, ScanBatch(s, k) PROVE Found(t, k) = Found(s, k)
  <2>1. PICK i \in Positions(s, k) :
            /\ Found(s, k) = s[i]
            /\ i = CHOOSE x \in Positions(s, k) : \A j \in Positions(s, k) : j <= x
    BY <1>6, FoundLemma
  <2>2. Found(t, k) = t[i]
    BY <1>3, <1>6, <2>1 DEF Found
  <2> QED BY <1>1, <2>1, <2>2 DEF Positions
<1> QED BY <1>4, <1>5, <1>6

(* An entry holds Absent exactly if it is a Delete.                        *)
LEMMA EntryLemma ==
    ASSUME NEW e \in Entry
    PROVE  e.key \in Key /\ e.value \in Value \cup {Absent}
           /\ (IF e.deleted THEN Absent ELSE e.value) = e.value
           /\ (e.deleted <=> e.value = Absent)
  BY ConstantAssumption DEF Entry

LEMMA ChangesAppend ==
    ASSUME NEW s \in Seq(Entry), NEW e \in Entry
    PROVE  Changes(Append(s, e)) = Store!Changed(Changes(s), e.key, e.value)
<1> DEFINE t == Append(s, e)
           f == Changes(t)
           g == Store!Changed(Changes(s), e.key, e.value)
<1>1. DOMAIN f = DOMAIN g
  BY ScanAppend, EntryLemma DEF Changes, Store!Changed
<1>2. ASSUME NEW k \in DOMAIN f PROVE f[k] = g[k]
  <2>1. k \in Key /\ f[k] = Found(t, k).value /\ (e.key = k \/ ScanBatch(s, k))
    BY ScanAppend DEF Changes
  <2>2. CASE e.key = k
    BY <1>1, <2>1, <2>2, ScanAppend DEF Changes, Store!Changed
  <2>3. CASE e.key # k
    <3>1. g[k] = Changes(s)[k]
      BY <1>1, <2>3 DEF Store!Changed
    <3> QED BY <2>1, <2>3, <3>1, ScanAppend DEF Changes
  <2> QED BY <2>2, <2>3
<1>3. f = [k \in DOMAIN f |-> f[k]] /\ g = [k \in DOMAIN g |-> g[k]]
  BY DEF Changes, Store!Changed
<1> HIDE DEF f, g
<1>4. f = g
  BY <1>1, <1>2, <1>3
<1> QED BY <1>4 DEF f, g, t

-----------------------------------------------------------------------------
LEMMA EmptyBatch == << >> \in Seq(Entry) /\ \A k : ~ ScanBatch(<< >>, k)
  BY DEF ScanBatch, Positions

(* Batches, NULL included, and what replacing one keeps.                   *)
BatchSet == [null : BOOLEAN, entries : Seq(Entry)]

LEMMA BatchTyped ==
    /\ NULL \in BatchSet
    /\ \A s \in Seq(Entry) : Batch(s) \in BatchSet /\ ~ Batch(s).null
  BY EmptyBatch DEF NULL, Batch, BatchSet

LEMMA ReplaceBatch ==
    ASSUME TypeOK, NEW h \in Handle, NEW b \in BatchSet, b.null => b = NULL,
           activeBatch' = [activeBatch EXCEPT ![h] = b],
           pdb' \in [Key -> Value \cup {Absent}]
    PROVE  TypeOK'
<1>1. activeBatch \in [Handle -> BatchSet]
  BY DEF TypeOK, BatchSet
<1>2. activeBatch' \in [Handle -> BatchSet]
  BY <1>1
<1>3. ASSUME NEW x \in Handle, activeBatch'[x].null PROVE activeBatch'[x] = NULL
  <2>1. CASE x = h
    BY <1>1, <1>3, <2>1
  <2>2. CASE x # h
    <3>1. activeBatch'[x] = activeBatch[x]
      BY <1>1, <2>2
    <3> QED BY <1>3, <3>1 DEF TypeOK
  <2> QED BY <2>1, <2>2
<1> QED BY <1>2, <1>3 DEF TypeOK, BatchSet

LEMMA AppliedTyped ==
    ASSUME TypeOK, NEW h \in Handle
    PROVE  Applied(pdb, activeBatch[h].entries) \in [Key -> Value \cup {Absent}]
<1>1. activeBatch[h].entries \in Seq(Entry)
  BY DEF TypeOK
<1>2. ASSUME NEW k \in Key, ScanBatch(activeBatch[h].entries, k)
      PROVE  Found(activeBatch[h].entries, k).value \in Value \cup {Absent}
  BY <1>1, <1>2, FoundLemma, EntryLemma
<1> QED BY <1>2 DEF Applied, TypeOK

(***************************************************************************)
(* A batch holds Puts and Deletes only, and the database never holds the   *)
(* marker of a Delete as a value.                                          *)
(***************************************************************************)
THEOREM TxDBTypeCorrect == Spec => []TypeOK
<1>1. Init => TypeOK
  BY EmptyBatch DEF Init, TypeOK, NULL
<1>2. TypeOK /\ [Next]_vars => TypeOK'
  <2> SUFFICES ASSUME TypeOK, [Next]_vars PROVE TypeOK'
    OBVIOUS
  <2>1. CASE UNCHANGED vars
    BY <2>1 DEF TypeOK, vars
  <2>2. ASSUME NEW h \in Handle, TxnBegin(h) \/ TxnAbort(h) \/ TxnCommit(h) PROVE TypeOK'
    <3>1. pdb' \in [Key -> Value \cup {Absent}]
      BY <2>2, AppliedTyped DEF TypeOK, TxnBegin, TxnAbort, TxnCommit
    <3>2. CASE TxnBegin(h)
      BY <3>1, <3>2, BatchTyped, EmptyBatch, ReplaceBatch DEF TxnBegin
    <3>3. CASE TxnAbort(h) \/ TxnCommit(h)
      BY <3>1, <3>3, BatchTyped, ReplaceBatch DEF TxnAbort, TxnCommit
    <3> QED BY <2>2, <3>2, <3>3
  <2>4. ASSUME NEW h \in Handle, NEW k \in Key, Read(h, k) \/ Exists(h, k) PROVE TypeOK'
    BY <2>4 DEF TypeOK, Read, Exists
  <2>5. ASSUME NEW h \in Handle, NEW e \in Entry, Change(h, e) PROVE TypeOK'
    <3>1. Append(activeBatch[h].entries, e) \in Seq(Entry)
      BY DEF TypeOK
    <3>2. pdb' \in [Key -> Value \cup {Absent}]
      BY <2>5, EntryLemma DEF TypeOK, Change
    <3>3. CASE activeBatch' = [activeBatch EXCEPT
                                  ![h] = Batch(Append(activeBatch[h].entries, e))]
      BY <3>1, <3>2, <3>3, BatchTyped, ReplaceBatch
    <3>4. CASE UNCHANGED activeBatch
      BY <3>2, <3>4 DEF TypeOK
    <3> QED BY <2>5, <3>3, <3>4 DEF Change
  <2>6. ASSUME NEW h \in Handle, NEW k \in Key, Erase(h, k) PROVE TypeOK'
    BY <2>5, <2>6 DEF Erase, Delete, Entry
  <2>7. ASSUME NEW h \in Handle, NEW k \in Key, NEW v \in Value, Write(h, k, v)
        PROVE  TypeOK'
    BY <2>5, <2>7 DEF Write, Put, Entry
  <2>8. CASE Crash
    BY <2>8, EmptyBatch DEF TypeOK, Crash, NULL
  <2> QED BY <2>1, <2>2, <2>4, <2>6, <2>7, <2>8 DEF Next
<1> QED BY <1>1, <1>2, PTL DEF Spec

-----------------------------------------------------------------------------
(* Reads and commits through the refinement mapping.                       *)

LEMMA SeenLemma ==
    ASSUME TypeOK, NEW h \in Handle, NEW k \in Key
    PROVE  /\ ReadValue(h, k) = Store!Seen(h, k)
           /\ InTxn(h) => Applied(pdb, activeBatch[h].entries)[k] = Store!Seen(h, k)
           /\ Store!Seen(h, k) # Absent => ExistsValue(h, k) = TRUE
           /\ ~ InTxn(h) => ExistsValue(h, k) = (pdb[k] # Absent)
           /\ ExistsValue(h, k) \in BOOLEAN
<1> DEFINE s == activeBatch[h].entries
<1>1. s \in Seq(Entry)
  BY DEF TypeOK
<1>2. ~ InTxn(h) => s = << >>
  BY DEF InTxn, TypeOK, NULL
<1>3. Store!Seen(h, k) = IF ScanBatch(s, k) THEN Found(s, k).value ELSE pdb[k]
  BY DEF Store!Seen, Changes
<1>4. ScanBatch(s, k) =>
        /\ (IF Found(s, k).deleted THEN Absent ELSE Found(s, k).value) = Found(s, k).value
        /\ (Found(s, k).deleted <=> Found(s, k).value = Absent)
  BY <1>1, FoundLemma, EntryLemma
<1>5. ReadValue(h, k) = Store!Seen(h, k)
  BY <1>2, <1>3, <1>4, EmptyBatch DEF ReadValue
<1>6. Applied(pdb, s)[k] = Store!Seen(h, k)
  BY <1>3 DEF Applied
<1>7. Store!Seen(h, k) # Absent => ExistsValue(h, k) = TRUE
  BY <1>2, <1>3, <1>4, EmptyBatch DEF ExistsValue
<1>8. ~ InTxn(h) => ExistsValue(h, k) = (pdb[k] # Absent)
  BY DEF ExistsValue
<1> QED BY <1>5, <1>6, <1>7, <1>8 DEF ExistsValue

(***************************************************************************)
(* Every step of CTxDB is a step of the transactional store: reads inside  *)
(* a transaction see the last of its changes to the key, other handles     *)
(* none of them, and a commit applies them all or none.                    *)
(***************************************************************************)
THEOREM TxDBImplements == Spec => ImplementsTxStore
<1> DEFINE pend == [h \in Handle |-> Changes(activeBatch[h].entries)]
           opn == {h \in Handle : InTxn(h)}
<1>0. Changes(<< >>) = Store!NoChange
  BY EmptyBatch DEF Changes, Store!NoChange
<1>1. Init => Store!Init
  BY <1>0 DEF Init, Store!Init, NULL, InTxn
<1>2. TypeOK /\ [Next]_vars => [Store!Next]_(Store!vars)
  <2> SUFFICES ASSUME TypeOK, [Next]_vars PROVE [Store!Next]_(Store!vars)
    OBVIOUS
  <2>0. /\ DOMAIN activeBatch = Handle
        /\ \A h \in Handle : activeBatch[h].entries \in Seq(Entry)
        /\ pdb = [k \in Key |-> pdb[k]]
    BY DEF TypeOK
  <2>1. CASE UNCHANGED vars
    BY <2>1 DEF vars, Store!vars, InTxn
  <2>2. ASSUME NEW h \in Handle, activeBatch' = [activeBatch EXCEPT ![h] = NULL]
        PROVE  /\ pend' = [pend EXCEPT ![h] = Store!NoChange]
               /\ opn' = opn \ {h}
    BY <1>0, <2>0, <2>2 DEF InTxn, NULL
  <2>3. ASSUME NEW h \in Handle, TxnBegin(h) PROVE Store!Begin(h)
    <3>1. activeBatch[h] = NULL
      BY <2>3 DEF TxnBegin, TypeOK, InTxn
    <3>2. pend' = pend
      BY <1>0, <2>0, <2>3, <3>1 DEF TxnBegin, Batch, NULL
    <3>3. opn' = opn \cup {h}
      BY <2>0, <2>3 DEF TxnBegin, Batch, InTxn
    <3> QED BY <2>3, <3>2, <3>3 DEF TxnBegin, Store!Begin
  <2>4. ASSUME NEW h \in Handle, TxnCommit(h) PROVE Store!End(h)
    <3>1. Applied(pdb, activeBatch[h].entries) = [k \in Key |-> Store!Seen(h, k)]
      BY <2>4, SeenLemma DEF Applied, TxnCommit
    <3> QED BY <2>2, <2>4, <3>1 DEF TxnCommit, Store!End
  <2>5. ASSUME NEW h \in Handle, TxnAbort(h) PROVE Store!End(h)
    BY <2>2, <2>5 DEF TxnAbort, Store!End
  <2>6. ASSUME NEW h \in Handle, NEW k \in Key, Read(h, k) PROVE Store!Read(h, k)
    BY <2>6, SeenLemma DEF Read, Store!Read, InTxn
  <2>7. ASSUME NEW h \in Handle, NEW k \in Key, Exists(h, k) PROVE Store!Exists(h, k)
    BY <2>7, SeenLemma DEF Exists, Store!Exists, InTxn
  <2>8. ASSUME NEW h \in Handle, NEW e \in Entry, Change(h, e)
        PROVE  Store!Update(h, e.key, e.value)
    <3>1. CASE InTxn(h) /\ activeBatch' = [activeBatch EXCEPT
                  ![h] = Batch(Append(activeBatch[h].entries, e))]
      <4>1. pend' = [pend EXCEPT ![h] = Store!Changed(@, e.key, e.value)]
        BY <2>0, <3>1, ChangesAppend DEF Batch
      <4>2. opn' = opn
        BY <2>0, <3>1 DEF InTxn, Batch
      <4> QED BY <2>8, <3>1, <4>1, <4>2 DEF Change, Store!Update
    <3>2. CASE UNCHANGED activeBatch /\ ~ InTxn(h)
      BY <2>8, <3>2 DEF Change, Store!Update, InTxn
    <3> QED BY <2>8, <3>1, <3>2 DEF Change
  <2>9. ASSUME NEW h \in Handle, NEW k \in Key, Erase(h, k)
        PROVE  Store!Update(h, k, Absent)
    <3>1. Delete(k) \in Entry /\ Delete(k).key = k /\ Delete(k).value = Absent
      BY DEF Delete, Entry
    <3>2. Store!Update(h, Delete(k).key, Delete(k).value)
      BY <2>8, <2>9, <3>1 DEF Erase
    <3> QED BY <3>1, <3>2
  <2>10. ASSUME NEW h \in Handle, NEW k \in Key, NEW v \in Value, Write(h, k, v)
         PROVE  Store!Update(h, k, v)
    <3>1. Put(k, v) \in Entry /\ Put(k, v).key = k /\ Put(k, v).value = v
      BY DEF Put, Entry
    <3>2. Store!Update(h, Put(k, v).key, Put(k, v).value)
      BY <2>8, <2>10, <3>1 DEF Write
    <3> QED BY <3>1, <3>2
  <2>11. ASSUME Crash PROVE Store!Crash
    BY <1>0, <2>11 DEF Crash, Store!Crash, NULL, InTxn
  <2> QED
    BY <2>1, <2>3, <2>4, <2>5, <2>6, <2>7, <2>9, <2>10, <2>11 DEF Next, Store!Next
<1> QED
  BY <1>1, <1>2, TxDBTypeCorrect, PTL DEF Spec, ImplementsTxStore, Store!Spec
=============================================================================
