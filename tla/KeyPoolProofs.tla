--------------------------- MODULE KeyPoolProofs ---------------------------
(***************************************************************************)
(* The key pool hands out every key once and loses none, for any number of *)
(* CReserveKey objects, any -keypool, any number of keys and of restarts.  *)
(***************************************************************************)
EXTENDS KeyPool, FiniteSetTheorems, WellFoundedInduction, TLAPS

Bounded(S) == \E b \in Nat : S \subseteq 1 .. b

(* The key store: keys are generated in order, and the disk has them all,  *)
(* on the side that the store's encryption tells.                          *)
StoreInv ==
    /\ \E n \in 0 .. MaxKey : keys = 0 .. n
    /\ store \in {"plain", "locked", "unlocked"}
    /\ IsCrypted => keys = diskCKey /\ diskKey = {}
    /\ ~ IsCrypted => keys = diskKey /\ diskCKey = {}
    /\ oldKeys \subseteq 0 .. MaxKey

(* The shapes of the job.                                                  *)
Phases == {"topup", "write", "take"}

JobInv ==
    \/ job = NoJob
    \/ job \in [kind : {"refill", "get"}, phase : Phases]
    \/ job \in [kind : {"reserve"}, phase : Phases, h : Holder]
    \/ job \in [kind : {"encrypt"}, phase : {"erase", "renew", "store"}, old : SUBSET (0 .. MaxKey)]

(* The object a key is being reserved for has none, and a new pool is made *)
(* for an encrypted store.                                                 *)
ForInv ==
    /\ job.kind = "reserve" => reserved[job.h].nIndex = -1
    /\ job.kind = "encrypt" => IsCrypted

(* Indices and keys: every index, record and key given away is one that    *)
(* was made, and the default key is in none of them.                       *)
MadeInv ==
    /\ Bounded(setKeyPool) /\ Bounded(DOMAIN pool)
    /\ pool \in [DOMAIN pool -> keys \ {0}]
    /\ reserved \in [Holder -> [nIndex : (Nat \ {0}) \cup {-1}, key : keys]]
    /\ \A h \in Holder : reserved[h].nIndex # -1 => reserved[h].key # 0
    /\ out \in Seq(keys \ {0})
    /\ overwritten \in BOOLEAN

(* A key between its generation and its pool record is nowhere else.       *)
Storing == job.kind # "none" /\ job.phase \in {"write", "store"}

FreshInv ==
    Storing =>
        /\ Max(keys) # 0
        /\ \A i \in DOMAIN pool : pool[i] # Max(keys)
        /\ \A h \in Holder : reserved[h].key # Max(keys)
        /\ \A i \in DOMAIN out : out[i] # Max(keys)

(* Each record belongs to one owner, the set or an object, which knows its *)
(* key; no two records have the same key, and none has a key given away.   *)
OwnerInv ==
    ~ overwritten =>
        /\ setKeyPool \cup ReservedIndices = DOMAIN pool
        /\ setKeyPool \cap ReservedIndices = {}
        /\ \A g, h \in Held : reserved[g].nIndex = reserved[h].nIndex => g = h
        /\ \A h \in Held : reserved[h].key = pool[reserved[h].nIndex]
        /\ IsInjective(pool)
        /\ IsInjective(out)
        /\ \A i \in DOMAIN out, j \in DOMAIN pool : out[i] # pool[j]

KeyInv == StoreInv /\ JobInv /\ ForInv /\ MadeInv /\ FreshInv /\ OwnerInv
-----------------------------------------------------------------------------
(* Greatest and least elements.                                            *)

(* A non-empty set of positive integers with a bound is finite and has a   *)
(* greatest and a least element, which Max and Min are.                    *)
LEMMA LeastElement ==
    ASSUME NEW S \in SUBSET Nat, S # {}
    PROVE  Min(S) \in S /\ \A y \in S : Min(S) <= y
<1> DEFINE R == OpToRel(<, Nat)
<1>1. IsWellFoundedOn(R, Nat)
  BY NatLessThanWellFounded
<1>2. \A x, y \in Nat : x < y => <<x, y>> \in R
  BY Zenon DEF OpToRel
<1> HIDE DEF R
<1>3. PICK m \in S : \A y \in S : ~ (<<y, m>> \in R)
  BY <1>1, WFMin
<1>4. ASSUME NEW y \in S PROVE m <= y
  <2>1. m \in Nat /\ y \in Nat
    OBVIOUS
  <2>2. ~ (y < m)
    BY <1>2, <1>3, <2>1
  <2> QED BY <2>1, <2>2
<1> QED BY <1>4 DEF Min

LEMMA GreatestElement ==
    ASSUME NEW S, Bounded(S), S # {}
    PROVE  Max(S) \in S /\ \A y \in S : Max(S) >= y
<1>1. PICK b \in Nat : S \subseteq 1 .. b
  BY DEF Bounded
<1> DEFINE D == {b - i : i \in S}
<1>2. D \in SUBSET Nat /\ D # {}
  <2>1. \A i \in S : b - i \in Nat
    BY <1>1
  <2>2. D # {}
    OBVIOUS
  <2> QED BY <2>1, <2>2
<1>3. PICK d \in D : \A y \in D : d <= y
  <2> HIDE DEF D
  <2> QED BY <1>2, LeastElement
<1>4. PICK m \in S : d = b - m
  BY <1>3
<1>5. ASSUME NEW y \in S PROVE m >= y
  <2>1. b - y \in D
    OBVIOUS
  <2>2. b - m <= b - y
    BY <1>3, <1>4, <2>1
  <2> QED BY <1>1, <2>2
<1> QED BY <1>5 DEF Max

LEMMA BoundedLemma ==
    /\ \A S : Bounded(S) => S \subseteq Nat \ {0} /\ IsFiniteSet(S) /\ Cardinality(S) \in Nat
    /\ \A S, T : Bounded(S) /\ T \subseteq S => Bounded(T)
    /\ \A S : \A n \in Nat \ {0} : Bounded(S) => Bounded(S \cup {n})
<1>1. ASSUME NEW S, Bounded(S)
      PROVE  S \subseteq Nat \ {0} /\ IsFiniteSet(S) /\ Cardinality(S) \in Nat
  <2>1. PICK b \in Nat : S \subseteq 1 .. b
    BY <1>1 DEF Bounded
  <2>2. S \subseteq Nat \ {0}
    BY <2>1
  <2>3. IsFiniteSet(S)
    <3>1. IsFiniteSet(1 .. b)
      BY FS_Interval
    <3> QED BY <2>1, <3>1, FS_Subset
  <2> QED BY <2>2, <2>3, FS_CardinalityType
<1>2. ASSUME NEW S, NEW T, Bounded(S), T \subseteq S PROVE Bounded(T)
  BY <1>2 DEF Bounded
<1>3. ASSUME NEW S, NEW n \in Nat \ {0}, Bounded(S) PROVE Bounded(S \cup {n})
  <2>1. PICK b \in Nat : S \subseteq 1 .. b
    BY <1>3 DEF Bounded
  <2>2. b + n \in Nat /\ S \cup {n} \subseteq 1 .. (b + n)
    BY <2>1
  <2> QED BY <2>2 DEF Bounded
<1> QED BY <1>1, <1>2, <1>3

LEMMA MaxInterval == \A n \in Nat : Max(0 .. n) = n /\ Cardinality(0 .. n) = n + 1
<1>1. ASSUME NEW n \in Nat PROVE Max(0 .. n) = n
  BY DEF Max
<1>2. ASSUME NEW n \in Nat PROVE Cardinality(0 .. n) = n + 1
  BY FS_Interval
<1> QED BY <1>1, <1>2

(* The index that the next record gets.                                    *)
LEMMA NextIndex ==
    ASSUME Bounded(setKeyPool)
    PROVE  /\ (IF setKeyPool = {} THEN 1 ELSE Max(setKeyPool) + 1) \in Nat \ {0}
           /\ Cardinality(setKeyPool) + 1 \in Nat \ {0}
  BY GreatestElement, BoundedLemma

LEMMA SeqOver ==
    ASSUME NEW S, NEW T, S \subseteq T, NEW s \in Seq(S)
    PROVE  s \in Seq(T)
  OBVIOUS

-----------------------------------------------------------------------------
LEMMA KeyInit == Init => KeyInv
<1> SUFFICES ASSUME Init PROVE KeyInv
  OBVIOUS
<1> USE KeyPoolAssumption
<1>1. StoreInv
  BY DEF Init, StoreInv, IsCrypted
<1>2. JobInv /\ ForInv /\ FreshInv
  BY DEF Init, JobInv, ForInv, FreshInv, Storing, NoJob
<1>3. MadeInv
  <2>1. nKeypool + 1 \in Nat /\ 2 .. nKeypool + 1 \subseteq 1 .. nKeypool + 1
    OBVIOUS
  <2>2. Bounded(setKeyPool) /\ Bounded(DOMAIN pool)
    BY <2>1 DEF Init, Bounded
  <2>3. pool \in [DOMAIN pool -> keys \ {0}]
    BY DEF Init
  <2>4. reserved \in [Holder -> [nIndex : (Nat \ {0}) \cup {-1}, key : keys]]
    BY DEF Init, Free, vchDefaultKey
  <2>5. \A h \in Holder : reserved[h].nIndex = -1
    BY DEF Init, Free
  <2>6. out \in Seq(keys \ {0})
    <3>1. out = << >>
      BY DEF Init
    <3> QED BY <3>1
  <2>7. overwritten \in BOOLEAN
    BY DEF Init
  <2> QED BY <2>2, <2>3, <2>4, <2>5, <2>6, <2>7 DEF MadeInv
<1>4. OwnerInv
  BY DEF Init, OwnerInv, ReservedIndices, Held, IsInjective, Free
<1> QED BY <1>1, <1>2, <1>3, <1>4 DEF KeyInv

-----------------------------------------------------------------------------
(* The key store.                                                          *)

(* A generated key is above all others.                                    *)
LEMMA GenerateLemma ==
    ASSUME StoreInv, GenerateNewKey
    PROVE  /\ keys \subseteq keys' /\ 0 \in keys
           /\ Max(keys') \notin keys
           /\ \E n \in 0 .. MaxKey : keys' = 0 .. n
           /\ IsCrypted => keys' = diskCKey' /\ diskKey' = {}
           /\ ~ IsCrypted => keys' = diskKey' /\ diskCKey' = {}
<1>1. PICK n \in 0 .. MaxKey : keys = 0 .. n
  BY DEF StoreInv
<1> USE KeyPoolAssumption
<1>2. Generated = 0 .. n
  BY <1>1 DEF StoreInv, Generated
<1>3. n + 1 <= MaxKey /\ Max(Generated) = n
  BY <1>2, MaxInterval DEF GenerateNewKey
<1>4. keys' = 0 .. n + 1
  BY <1>1, <1>3 DEF GenerateNewKey, AddKey
<1>5. Max(keys') = n + 1
  BY <1>4, MaxInterval
<1>6. /\ IsCrypted => keys' = diskCKey' /\ diskKey' = {}
      /\ ~ IsCrypted => keys' = diskKey' /\ diskCKey' = {}
  BY DEF StoreInv, GenerateNewKey, AddKey
<1>7. n + 1 \in 0 .. MaxKey
  BY <1>3
<1> QED BY <1>1, <1>4, <1>5, <1>6, <1>7

LEMMA StoreNext ==
    ASSUME KeyInv, [Next]_vars
    PROVE  StoreInv'
<1> USE DEF KeyInv
<1>1. CASE UNCHANGED <<keys, store, diskKey, diskCKey, oldKeys>>
  BY <1>1 DEF StoreInv, IsCrypted
<1>2. CASE Lock \/ Unlock
  BY <1>2 DEF StoreInv, IsCrypted, Lock, Unlock, disk
<1>3. CASE TopUp_Generate \/ NewKeyPool_Generate
  <2>1. GenerateNewKey /\ UNCHANGED <<store, oldKeys>>
    BY <1>3 DEF TopUp_Generate, NewKeyPool_Generate
  <2> QED BY <2>1, GenerateLemma DEF StoreInv, IsCrypted
<1>4. CASE EncryptWallet
  BY <1>4 DEF EncryptWallet, StoreInv, IsCrypted
<1>5. CASE EncryptWallet_Done
  <2>1. oldKeys' \subseteq 0 .. MaxKey
    BY <1>5 DEF EncryptWallet_Done, Encrypting, JobInv, NoJob
  <2>2. IsCrypted
    BY <1>5 DEF EncryptWallet_Done, Encrypting, ForInv
  <2> QED BY <1>5, <2>1, <2>2 DEF EncryptWallet_Done, StoreInv, IsCrypted, disk
<1>6. CASE Restart
  <2>1. 0 \in keys
    BY DEF StoreInv
  <2> QED BY <1>6, <2>1 DEF Restart, StoreInv, IsCrypted, disk
<1>7. CASE Refill \/ GetKeyFromPool \/ \E h \in Holder : GetReservedKey(h)
  BY <1>1, <1>7 DEF Refill, GetKeyFromPool, GetReservedKey, Begin, disk
<1>8. CASE \E h \in Holder : KeepKey(h) \/ ReturnKey(h)
  BY <1>1, <1>8 DEF KeepKey, ReturnKey, disk
<1>9. CASE TopUp_Throw \/ TopUp_Write \/ TopUp_Done
  BY <1>1, <1>9 DEF TopUp_Throw, TopUp_Write, TopUp_Done, WritePool, disk
<1>10. CASE Take_Throw \/ Reserve \/ Get \/ Take_Empty
  BY <1>1, <1>10 DEF Take_Throw, Reserve, Get, Take_Empty, disk
<1>11. CASE NewKeyPool \/ NewKeyPool_Write
  BY <1>1, <1>11 DEF NewKeyPool, NewKeyPool_Write, WritePool
<1>12. CASE UNCHANGED vars
  BY <1>1, <1>12 DEF vars, memory, disk
<1> QED
  BY <1>2, <1>3, <1>4, <1>5, <1>6, <1>7, <1>8, <1>9, <1>10, <1>11, <1>12 DEF Next

-----------------------------------------------------------------------------
(* The job.                                                                *)

(* Its next phase keeps its kind and what it is for.                       *)
LEMMA PhaseLemma ==
    ASSUME JobInv, job # NoJob, NEW p,
           IF job.kind = "encrypt" THEN p \in {"erase", "renew", "store"} ELSE p \in Phases,
           job' = [job EXCEPT !.phase = p]
    PROVE  /\ JobInv' /\ job'.kind = job.kind /\ job'.phase = p /\ job'.kind # "none"
           /\ job.kind = "reserve" => job'.h = job.h
<1>1. CASE job \in [kind : {"refill", "get"}, phase : Phases]
  BY <1>1 DEF JobInv
<1>2. CASE job \in [kind : {"reserve"}, phase : Phases, h : Holder]
  BY <1>2 DEF JobInv
<1>3. CASE job \in [kind : {"encrypt"}, phase : {"erase", "renew", "store"},
                    old : SUBSET (0 .. MaxKey)]
  BY <1>3 DEF JobInv
<1> QED BY <1>1, <1>2, <1>3 DEF JobInv

(* No job but the encryption has its phases.                               *)
LEMMA KindLemma ==
    ASSUME JobInv
    PROVE  /\ job.kind = "none" <=> job = NoJob
           /\ job.kind # "none" => job.phase \in Phases \cup {"erase", "renew", "store"}
           /\ job.kind # "none" => (job.kind = "encrypt" <=> job.phase \in {"erase", "renew", "store"})
           /\ job.kind = "reserve" => job.h \in Holder
  BY DEF JobInv, NoJob, Phases

LEMMA BeginLemma ==
    ASSUME NEW j, Begin(j)
    PROVE  job = NoJob /\ job' = j /\ UNCHANGED <<reserved, store, keys, pool, setKeyPool, out, overwritten>>
  BY DEF Begin, disk

LEMMA JobNext ==
    ASSUME KeyInv, [Next]_vars
    PROVE  JobInv' /\ ForInv'
<1> USE DEF KeyInv
<1>1. CASE UNCHANGED <<job, store, reserved>>
  BY <1>1 DEF JobInv, ForInv, IsCrypted
<1>2. ASSUME job' = NoJob PROVE JobInv' /\ ForInv'
  BY <1>2 DEF JobInv, ForInv, NoJob
<1>3. CASE Lock \/ Unlock
  BY <1>3 DEF Lock, Unlock, JobInv, ForInv, IsCrypted
<1>4. CASE Refill \/ GetKeyFromPool
  <2>1. PICK j \in [kind : {"refill", "get"}, phase : Phases] : job' = j
    BY <1>4 DEF Refill, GetKeyFromPool, Begin, FirstPhase, Phases
  <2> QED BY <2>1 DEF JobInv, ForInv
<1>5. ASSUME NEW h \in Holder, GetReservedKey(h) PROVE JobInv' /\ ForInv'
  <2>1. job' \in [kind : {"reserve"}, phase : Phases, h : Holder] /\ job'.h = h
    BY <1>5 DEF GetReservedKey, Begin, FirstPhase, Phases
  <2>2. reserved' = reserved /\ reserved[h].nIndex = -1
    BY <1>5 DEF GetReservedKey, Begin
  <2> QED BY <2>1, <2>2 DEF JobInv, ForInv
<1>6. ASSUME NEW h \in Holder, KeepKey(h) PROVE JobInv' /\ ForInv'
  <2>1. job' = job /\ store' = store /\ reserved' = [reserved EXCEPT ![h] = Free]
    BY <1>6 DEF KeepKey
  <2>2. job.kind = "reserve" => reserved'[job.h].nIndex = -1
    BY <2>1, KindLemma DEF ForInv, MadeInv, Free
  <2> QED BY <2>1, <2>2 DEF JobInv, ForInv, IsCrypted
<1>7. CASE \E h \in Holder : ReturnKey(h)
  <2>1. job' = NoJob
    BY <1>7 DEF ReturnKey
  <2> QED BY <1>2, <2>1
<1>8. CASE TopUp_Generate \/ TopUp_Write
  <2>1. job # NoJob /\ job.kind # "encrypt" /\ UNCHANGED <<store, reserved>>
    BY <1>8, KindLemma DEF TopUp_Generate, TopUp_Write, WritePool, NoJob
  <2>2. \E p \in Phases : job' = [job EXCEPT !.phase = p]
    BY <1>8 DEF TopUp_Generate, TopUp_Write, Phases
  <2> QED BY <2>1, <2>2, PhaseLemma, KindLemma DEF ForInv
<1>9. CASE TopUp_Done
  <2>1. job # NoJob /\ job.kind # "encrypt" /\ UNCHANGED <<store, reserved>>
    BY <1>9, KindLemma DEF TopUp_Done, NoJob
  <2>2. job' = NoJob \/ \E p \in Phases : job' = [job EXCEPT !.phase = p]
    BY <1>9 DEF TopUp_Done, Phases
  <2> QED BY <1>2, <2>1, <2>2, PhaseLemma, KindLemma DEF ForInv
<1>10. CASE TopUp_Throw \/ Take_Throw \/ Reserve \/ Get \/ Take_Empty \/ EncryptWallet_Done \/ Restart
  <2>1. job' = NoJob
    BY <1>10 DEF TopUp_Throw, Take_Throw, Reserve, Get, Take_Empty, EncryptWallet_Done, Restart
  <2> QED BY <1>2, <2>1
<1>11. CASE EncryptWallet
  <2>1. keys \subseteq 0 .. MaxKey
    BY KeyPoolAssumption DEF StoreInv
  <2>2. job' \in [kind : {"encrypt"}, phase : {"erase", "renew", "store"}, old : SUBSET (0 .. MaxKey)]
    BY <1>11, <2>1 DEF EncryptWallet
  <2> QED BY <1>11, <2>2 DEF JobInv, ForInv, EncryptWallet, IsCrypted
<1>12. CASE NewKeyPool \/ NewKeyPool_Generate \/ NewKeyPool_Write
  <2>1. job # NoJob /\ job.kind = "encrypt" /\ UNCHANGED <<store, reserved>>
    BY <1>12 DEF NewKeyPool, NewKeyPool_Generate, NewKeyPool_Write, WritePool, Encrypting, NoJob
  <2>2. \E p \in {"erase", "renew", "store"} : job' = [job EXCEPT !.phase = p]
    BY <1>12 DEF NewKeyPool, NewKeyPool_Generate, NewKeyPool_Write
  <2>3. JobInv' /\ job'.kind = "encrypt"
    BY <2>1, <2>2, PhaseLemma
  <2> QED BY <2>1, <2>3 DEF ForInv, IsCrypted
<1>13. CASE UNCHANGED vars
  BY <1>1, <1>13 DEF vars, memory
<1> QED
  BY <1>3, <1>4, <1>5, <1>6, <1>7, <1>8, <1>9, <1>10, <1>11, <1>12, <1>13 DEF Next

-----------------------------------------------------------------------------
(* Indices, records and keys.                                              *)

LEMMA EraseLemma ==
    ASSUME NEW S, ErasePool(S)
    PROVE  DOMAIN pool' = DOMAIN pool \ S /\ \A i \in DOMAIN pool' : pool'[i] = pool[i]
  BY DEF ErasePool

LEMMA WriteLemma ==
    ASSUME NEW n, WritePool(n)
    PROVE  /\ DOMAIN pool' = DOMAIN pool \cup {n} /\ pool'[n] = Max(keys)
           /\ \A i \in DOMAIN pool : i # n => pool'[i] = pool[i]
           /\ setKeyPool' = setKeyPool \cup {n}
           /\ overwritten' = (overwritten \/ n \in ReservedIndices)
           /\ UNCHANGED <<keys, reserved, out>>
  BY DEF WritePool

(* The store always has its greatest key.                                  *)
LEMMA TopKey ==
    ASSUME StoreInv
    PROVE  Max(keys) \in keys /\ 0 \in keys /\ keys \subseteq 0 .. MaxKey
<1>1. PICK n \in 0 .. MaxKey : keys = 0 .. n
  BY DEF StoreInv
<1>2. Max(keys) = n
  BY <1>1, MaxInterval, KeyPoolAssumption
<1> QED BY <1>1, <1>2, KeyPoolAssumption

(* Taking the oldest index.                                                *)
LEMMA OldestLemma ==
    ASSUME MadeInv, setKeyPool # {}
    PROVE  nOldest \in setKeyPool /\ nOldest \in Nat \ {0} /\ Bounded(setKeyPool \ {nOldest})
<1>1. Bounded(setKeyPool) /\ setKeyPool \in SUBSET Nat /\ 0 \notin setKeyPool
  BY BoundedLemma DEF MadeInv
<1>2. nOldest \in setKeyPool
  BY <1>1, LeastElement DEF nOldest
<1>3. setKeyPool \ {nOldest} \subseteq setKeyPool
  OBVIOUS
<1> QED BY <1>1, <1>2, <1>3, BoundedLemma

(* The parts of MadeInv, each kept by what leaves the others' state alone. *)
PoolMade == Bounded(DOMAIN pool) /\ pool \in [DOMAIN pool -> keys \ {0}]

ReservedMade ==
    /\ reserved \in [Holder -> [nIndex : (Nat \ {0}) \cup {-1}, key : keys]]
    /\ \A h \in Holder : reserved[h].nIndex # -1 => reserved[h].key # 0

LEMMA EraseMade ==
    ASSUME PoolMade, NEW S, ErasePool(S), keys' = keys
    PROVE  PoolMade'
<1>1. DOMAIN pool' \subseteq DOMAIN pool
  BY EraseLemma
<1>2. Bounded(DOMAIN pool')
  BY <1>1, BoundedLemma DEF PoolMade
<1>3. pool' \in [DOMAIN pool' -> keys \ {0}]
  BY EraseLemma DEF PoolMade, ErasePool
<1> QED BY <1>2, <1>3 DEF PoolMade

LEMMA WriteMade ==
    ASSUME StoreInv, MadeInv, FreshInv, Storing, NEW n \in Nat \ {0}, WritePool(n)
    PROVE  MadeInv'
<1>1. Max(keys) \in keys \ {0}
  BY TopKey DEF FreshInv
<1>2. Bounded(DOMAIN pool') /\ Bounded(setKeyPool')
  <2>1. DOMAIN pool' = DOMAIN pool \cup {n} /\ setKeyPool' = setKeyPool \cup {n}
    BY WriteLemma
  <2> QED BY <2>1, BoundedLemma DEF MadeInv
<1>3. pool' \in [DOMAIN pool' -> keys \ {0}]
  BY <1>1 DEF MadeInv, WritePool
<1>4. overwritten' \in BOOLEAN
  BY DEF WritePool
<1>5. UNCHANGED <<keys, reserved, out>>
  BY WriteLemma
<1> QED BY <1>2, <1>3, <1>4, <1>5 DEF MadeInv

LEMMA MadeNext ==
    ASSUME KeyInv, [Next]_vars
    PROVE  MadeInv'
<1> USE DEF KeyInv
<1>1. CASE UNCHANGED <<setKeyPool, keys, reserved, pool, out, overwritten>>
  BY <1>1 DEF MadeInv
<1>2. CASE Lock \/ Unlock \/ TopUp_Throw \/ TopUp_Done \/ Take_Empty \/ EncryptWallet \/ EncryptWallet_Done
  BY <1>1, <1>2 DEF Lock, Unlock, TopUp_Throw, TopUp_Done, Take_Empty, EncryptWallet,
     EncryptWallet_Done, disk
<1>3. CASE Refill \/ GetKeyFromPool \/ \E h \in Holder : GetReservedKey(h)
  BY <1>1, <1>3 DEF Refill, GetKeyFromPool, GetReservedKey, Begin, disk
<1>4. ASSUME NEW h \in Holder, KeepKey(h) PROVE MadeInv'
  <2>1. PoolMade'
    BY <1>4, EraseMade DEF KeepKey, MadeInv, PoolMade
  <2>2. ReservedMade'
    <3>1. reserved' = [reserved EXCEPT ![h] = Free] /\ keys' = keys
      BY <1>4 DEF KeepKey
    <3>2. Free \in [nIndex : (Nat \ {0}) \cup {-1}, key : keys]
      BY TopKey DEF Free, vchDefaultKey
    <3> QED BY <3>1, <3>2 DEF ReservedMade, MadeInv, Free
  <2>3. out' \in Seq(keys \ {0})
    <3>1. reserved[h].key \in keys \ {0} /\ out' = Append(out, reserved[h].key)
      BY <1>4 DEF KeepKey, MadeInv
    <3> QED BY <3>1 DEF MadeInv
  <2> QED BY <1>4, <2>1, <2>2, <2>3 DEF KeepKey, MadeInv, PoolMade, ReservedMade
<1>5. ASSUME NEW h \in Holder, ReturnKey(h) PROVE MadeInv'
  <2>1. reserved[h].nIndex \in Nat \ {0}
    BY <1>5 DEF ReturnKey, MadeInv
  <2>2. Bounded(setKeyPool')
    BY <1>5, <2>1, BoundedLemma DEF ReturnKey, MadeInv
  <2>3. ReservedMade'
    <3>1. reserved' = [reserved EXCEPT ![h] = Free] /\ keys' = keys
      BY <1>5 DEF ReturnKey
    <3>2. Free \in [nIndex : (Nat \ {0}) \cup {-1}, key : keys]
      BY TopKey DEF Free, vchDefaultKey
    <3> QED BY <3>1, <3>2 DEF ReservedMade, MadeInv, Free
  <2> QED BY <1>5, <2>2, <2>3 DEF ReturnKey, MadeInv, ReservedMade, disk
<1>6. CASE TopUp_Generate \/ NewKeyPool_Generate
  <2>1. GenerateNewKey /\ UNCHANGED <<setKeyPool, reserved, pool, out, overwritten>>
    BY <1>6 DEF TopUp_Generate, NewKeyPool_Generate
  <2>2. keys \subseteq keys'
    BY <2>1, GenerateLemma
  <2>3. out' \in Seq(keys' \ {0})
    <3>1. out \in Seq(keys \ {0}) /\ keys \ {0} \subseteq keys' \ {0}
      BY <2>2 DEF MadeInv
    <3> QED BY <2>1, <3>1
  <2>4. PoolMade'
    BY <2>1, <2>2 DEF MadeInv, PoolMade
  <2>5. ReservedMade'
    BY <2>1, <2>2 DEF MadeInv, ReservedMade
  <2> QED BY <2>1, <2>3, <2>4, <2>5 DEF MadeInv, PoolMade, ReservedMade
<1>7. CASE TopUp_Write \/ NewKeyPool_Write
  <2>1. Storing
    BY <1>7 DEF TopUp_Write, NewKeyPool_Write, Encrypting, Storing
  <2>2. \E n \in Nat \ {0} : WritePool(n)
    BY <1>7, NextIndex DEF TopUp_Write, NewKeyPool_Write, MadeInv
  <2> QED BY <2>1, <2>2, WriteMade
<1>8. CASE Take_Throw
  BY <1>8, OldestLemma DEF Take_Throw, MadeInv, disk
<1>9. CASE Reserve
  <2>1. /\ setKeyPool # {} /\ nOldest \in DOMAIN pool /\ pool[nOldest] \in keys \ {0}
        /\ job.h \in Holder
    BY <1>9, KindLemma DEF Reserve, Readable, Taking, MadeInv
  <2>2. ReservedMade'
    <3> DEFINE r == [nIndex |-> nOldest, key |-> pool[nOldest]]
    <3>1. r \in [nIndex : (Nat \ {0}) \cup {-1}, key : keys] /\ r.key # 0
      BY <2>1, OldestLemma
    <3>2. reserved' = [reserved EXCEPT ![job.h] = r] /\ keys' = keys
      BY <1>9 DEF Reserve
    <3> HIDE DEF r
    <3> QED BY <3>1, <3>2 DEF ReservedMade, MadeInv
  <2>3. Bounded(setKeyPool')
    BY <1>9, <2>1, OldestLemma DEF Reserve
  <2> QED BY <1>9, <2>2, <2>3 DEF Reserve, ReservedMade, MadeInv, disk
<1>10. CASE Get
  <2>1. setKeyPool # {} /\ nOldest \in DOMAIN pool /\ pool[nOldest] \in keys \ {0}
    BY <1>10 DEF Get, Readable, Taking, MadeInv
  <2>2. out' \in Seq(keys \ {0})
    BY <1>10, <2>1 DEF Get, MadeInv
  <2>3. PoolMade'
    BY <1>10, EraseMade DEF Get, MadeInv, PoolMade
  <2>4. Bounded(setKeyPool')
    BY <1>10, <2>1, OldestLemma DEF Get
  <2> QED BY <1>10, <2>2, <2>3, <2>4 DEF Get, MadeInv, PoolMade
<1>11. CASE NewKeyPool
  <2>1. PoolMade'
    BY <1>11, EraseMade DEF NewKeyPool, MadeInv, PoolMade
  <2>2. Bounded(setKeyPool')
    BY <1>11, BoundedLemma DEF NewKeyPool, MadeInv
  <2> QED BY <1>11, <2>1, <2>2 DEF NewKeyPool, MadeInv, PoolMade
<1>12. CASE Restart
  <2>1. keys' = keys
    BY <1>12 DEF Restart, StoreInv
  <2>2. Free \in [nIndex : (Nat \ {0}) \cup {-1}, key : keys]
    BY TopKey DEF Free, vchDefaultKey
  <2>3. ReservedMade'
    BY <1>12, <2>1, <2>2 DEF Restart, ReservedMade, Free
  <2> QED BY <1>12, <2>1, <2>3 DEF Restart, MadeInv, ReservedMade, disk
<1>13. CASE UNCHANGED vars
  BY <1>1, <1>13 DEF vars, memory, disk
<1> QED
  BY <1>2, <1>3, <1>4, <1>5, <1>6, <1>7, <1>8, <1>9, <1>10, <1>11, <1>12, <1>13 DEF Next

-----------------------------------------------------------------------------
(* A key that is being stored is nowhere yet.                              *)

LEMMA FreshNext ==
    ASSUME KeyInv, [Next]_vars
    PROVE  FreshInv'
<1> USE DEF KeyInv
<1>1. ASSUME ~ Storing' PROVE FreshInv'
  BY <1>1 DEF FreshInv
<1>2. ASSUME job' = NoJob PROVE FreshInv'
  BY <1>1, <1>2 DEF Storing, NoJob
<1>3. CASE UNCHANGED <<keys, reserved, pool, out, job>>
  BY <1>3 DEF FreshInv, Storing
<1>4. CASE Lock \/ Unlock
  BY <1>3, <1>4 DEF Lock, Unlock, disk
<1>5. CASE Refill \/ GetKeyFromPool \/ \E h \in Holder : GetReservedKey(h)
  BY <1>1, <1>5 DEF Refill, GetKeyFromPool, GetReservedKey, Begin, FirstPhase, Storing
<1>6. ASSUME NEW h \in Holder, KeepKey(h) PROVE FreshInv'
  <2> SUFFICES ASSUME Storing PROVE FreshInv'
    BY <1>1, <1>6 DEF KeepKey, Storing
  <2>1. Max(keys) # 0 /\ keys' = keys /\ job' = job
    BY <1>6 DEF KeepKey, FreshInv
  <2>2. \A i \in DOMAIN pool' : pool'[i] # Max(keys)
    BY <1>6, EraseLemma DEF KeepKey, FreshInv
  <2>3. \A g \in Holder : reserved'[g].key # Max(keys)
    BY <1>6, <2>1 DEF KeepKey, FreshInv, Free, vchDefaultKey, MadeInv
  <2>4. \A i \in DOMAIN out' : out'[i] # Max(keys)
    <3>1. out' = Append(out, reserved[h].key) /\ reserved[h].key # Max(keys)
      BY <1>6 DEF KeepKey, FreshInv
    <3> QED BY <3>1 DEF FreshInv, MadeInv
  <2> QED BY <2>1, <2>2, <2>3, <2>4 DEF FreshInv
<1>7. CASE TopUp_Generate \/ NewKeyPool_Generate
  <2>1. GenerateNewKey /\ UNCHANGED <<reserved, pool, out>>
    BY <1>7 DEF TopUp_Generate, NewKeyPool_Generate
  <2>2. Max(keys') \notin keys /\ 0 \in keys
    BY <2>1, GenerateLemma
  <2>3. \A i \in DOMAIN out : out[i] \in keys
    BY DEF MadeInv
  <2>4. \A i \in DOMAIN pool : pool[i] \in keys
    BY DEF MadeInv
  <2>5. \A h \in Holder : reserved[h].key \in keys
    BY DEF MadeInv
  <2> QED BY <2>1, <2>2, <2>3, <2>4, <2>5 DEF FreshInv
<1>8. CASE TopUp_Write \/ TopUp_Done
  <2>1. job.kind # "none" /\ job.phase \in {"topup", "write"}
    BY <1>8 DEF TopUp_Write, TopUp_Done
  <2>2. job # NoJob /\ job.kind # "encrypt"
    BY <2>1, KindLemma
  <2>3. job' = NoJob \/ \E p \in {"topup", "take"} : job' = [job EXCEPT !.phase = p]
    BY <1>8 DEF TopUp_Write, TopUp_Done
  <2>4. ASSUME NEW p \in {"topup", "take"}, job' = [job EXCEPT !.phase = p] PROVE FreshInv'
    <3>1. p \in Phases
      BY DEF Phases
    <3>2. job'.phase = p
      BY <2>2, <2>4, <3>1, PhaseLemma
    <3> QED BY <1>1, <3>2 DEF Storing
  <2> QED BY <1>2, <2>3, <2>4
<1>9. CASE \/ TopUp_Throw \/ Take_Throw \/ Reserve \/ Get \/ Take_Empty \/ EncryptWallet_Done
           \/ Restart \/ \E h \in Holder : ReturnKey(h)
  <2>1. job' = NoJob
    BY <1>9 DEF TopUp_Throw, Take_Throw, Reserve, Get, Take_Empty, EncryptWallet_Done, Restart, ReturnKey
  <2> QED BY <1>2, <2>1
<1>10. CASE EncryptWallet
  BY <1>1, <1>10 DEF EncryptWallet, Storing
<1>11. CASE NewKeyPool \/ NewKeyPool_Write
  <2>1. job # NoJob /\ job.kind = "encrypt" /\ job' = [job EXCEPT !.phase = "renew"]
    BY <1>11 DEF NewKeyPool, NewKeyPool_Write, Encrypting, NoJob
  <2>2. job'.phase = "renew"
    BY <2>1, PhaseLemma
  <2> QED BY <1>1, <2>2 DEF Storing
<1>12. CASE UNCHANGED vars
  BY <1>3, <1>12 DEF vars, memory, disk
<1> QED
  BY <1>4, <1>5, <1>6, <1>7, <1>8, <1>9, <1>10, <1>11, <1>12 DEF Next

-----------------------------------------------------------------------------
(* The owners of the records.                                              *)

(* An object's index is among the reserved ones exactly while it holds it. *)
LEMMA ReservedLemma ==
    /\ \A h \in Held : h \in Holder /\ reserved[h].nIndex \in ReservedIndices
    /\ \A i \in ReservedIndices : \E h \in Held : reserved[h].nIndex = i
  BY DEF Held, ReservedIndices

(* Giving a key away for good.                                             *)
LEMMA GiveLemma ==
    ASSUME MadeInv, OwnerInv, ~ overwritten, NEW n \in DOMAIN pool,
           ErasePool({n}), out' = Append(out, pool[n])
    PROVE  /\ IsInjective(pool') /\ IsInjective(out')
           /\ \A i \in DOMAIN out', j \in DOMAIN pool' : out'[i] # pool'[j]
<1>1. DOMAIN pool' = DOMAIN pool \ {n} /\ \A i \in DOMAIN pool' : pool'[i] = pool[i]
  BY EraseLemma
<1>2. IsInjective(pool')
  BY <1>1 DEF IsInjective, OwnerInv
<1>3. /\ DOMAIN out = 1 .. Len(out) /\ Len(out) \in Nat
      /\ DOMAIN out' = 1 .. Len(out) + 1 /\ out'[Len(out) + 1] = pool[n]
      /\ \A i \in 1 .. Len(out) : out'[i] = out[i]
  BY DEF MadeInv
<1>4. \A i \in DOMAIN out, j \in DOMAIN pool : out[i] # pool[j]
  BY DEF OwnerInv
<1>5. IsInjective(out')
  BY <1>3, <1>4 DEF IsInjective, OwnerInv
<1>6. ASSUME NEW i \in DOMAIN out', NEW j \in DOMAIN pool' PROVE out'[i] # pool'[j]
  <2>1. j \in DOMAIN pool /\ j # n /\ pool'[j] = pool[j]
    BY <1>1
  <2>2. CASE i \in DOMAIN out
    BY <1>3, <1>4, <2>1, <2>2
  <2>3. CASE i = Len(out) + 1
    BY <1>3, <2>1, <2>3 DEF OwnerInv, IsInjective
  <2> QED BY <1>3, <2>2, <2>3
<1> QED BY <1>2, <1>5, <1>6

(* Writing a record that no object holds.                                  *)
LEMMA WriteOwner ==
    ASSUME StoreInv, MadeInv, FreshInv, OwnerInv, Storing, NEW n \in Nat \ {0}, WritePool(n)
    PROVE  OwnerInv'
<1> SUFFICES ASSUME ~ overwritten, n \notin ReservedIndices PROVE OwnerInv'
  BY WriteLemma DEF OwnerInv
<1>1. /\ DOMAIN pool' = DOMAIN pool \cup {n} /\ pool'[n] = Max(keys)
      /\ \A i \in DOMAIN pool : i # n => pool'[i] = pool[i]
      /\ setKeyPool' = setKeyPool \cup {n}
      /\ UNCHANGED <<keys, reserved, out>>
  BY WriteLemma
<1>2. ReservedIndices' = ReservedIndices /\ Held' = Held
  BY <1>1 DEF ReservedIndices, Held
<1>3. /\ setKeyPool' \cup ReservedIndices = DOMAIN pool'
      /\ setKeyPool' \cap ReservedIndices = {}
  BY <1>1 DEF OwnerInv
<1>4. \A h \in Held : reserved[h].key = pool'[reserved[h].nIndex]
  BY <1>1, ReservedLemma DEF OwnerInv
<1>5. \A i \in DOMAIN pool : pool[i] # Max(keys)
  BY DEF FreshInv
<1>6. IsInjective(pool')
  BY <1>1, <1>5 DEF IsInjective, OwnerInv
<1>7. \A i \in DOMAIN out, j \in DOMAIN pool' : out[i] # pool'[j]
  BY <1>1 DEF OwnerInv, FreshInv
<1> QED BY <1>1, <1>2, <1>3, <1>4, <1>6, <1>7 DEF OwnerInv

LEMMA OwnerNext ==
    ASSUME KeyInv, [Next]_vars
    PROVE  OwnerInv'
<1> USE DEF KeyInv
<1>1. CASE UNCHANGED <<setKeyPool, reserved, pool, out, overwritten>>
  BY <1>1 DEF OwnerInv, ReservedIndices, Held
<1>2. CASE Lock \/ Unlock \/ TopUp_Throw \/ TopUp_Done \/ Take_Empty \/ EncryptWallet \/ EncryptWallet_Done
  BY <1>1, <1>2 DEF Lock, Unlock, TopUp_Throw, TopUp_Done, Take_Empty, EncryptWallet,
     EncryptWallet_Done, disk
<1>3. CASE Refill \/ GetKeyFromPool \/ \E h \in Holder : GetReservedKey(h)
  BY <1>1, <1>3 DEF Refill, GetKeyFromPool, GetReservedKey, Begin, disk
<1>4. CASE TopUp_Generate \/ NewKeyPool_Generate
  BY <1>1, <1>4 DEF TopUp_Generate, NewKeyPool_Generate
<1>5. CASE TopUp_Write \/ NewKeyPool_Write
  <2>1. Storing
    BY <1>5 DEF TopUp_Write, NewKeyPool_Write, Encrypting, Storing
  <2>2. \E n \in Nat \ {0} : WritePool(n)
    BY <1>5, NextIndex DEF TopUp_Write, NewKeyPool_Write, MadeInv
  <2> QED BY <2>1, <2>2, WriteOwner
<1>6. ASSUME NEW h \in Holder, KeepKey(h) PROVE OwnerInv'
  <2> SUFFICES ASSUME ~ overwritten PROVE OwnerInv'
    BY <1>6 DEF KeepKey, OwnerInv
  <2> DEFINE n == reserved[h].nIndex
  <2>1. /\ h \in Held /\ n \in DOMAIN pool /\ ErasePool({n})
        /\ out' = Append(out, pool[n])
    BY <1>6 DEF KeepKey, Held, OwnerInv, ReservedIndices
  <2>2. /\ IsInjective(pool') /\ IsInjective(out')
        /\ \A i \in DOMAIN out', j \in DOMAIN pool' : out'[i] # pool'[j]
    BY <2>1, GiveLemma
  <2>3. reserved' = [reserved EXCEPT ![h] = Free] /\ setKeyPool' = setKeyPool
    BY <1>6 DEF KeepKey
  <2>4. Held' = Held \ {h} /\ \A g \in Held' : reserved'[g] = reserved[g]
    BY <2>3 DEF Held, Free, MadeInv
  <2>5. ReservedIndices' = ReservedIndices \ {n}
    <3>1. \A g \in Held : reserved[g].nIndex = n => g = h
      BY <2>1 DEF OwnerInv
    <3>2. reserved'[h].nIndex = -1 /\ \A g \in Holder \ {h} : reserved'[g] = reserved[g]
      BY <2>3 DEF Free, MadeInv
    <3> QED BY <3>1, <3>2 DEF ReservedIndices, Held
  <2>6. DOMAIN pool' = DOMAIN pool \ {n} /\ \A i \in DOMAIN pool' : pool'[i] = pool[i]
    BY <2>1, EraseLemma
  <2>7. n \in ReservedIndices
    BY <2>1, ReservedLemma
  <2>8. /\ setKeyPool' \cup ReservedIndices' = DOMAIN pool'
        /\ setKeyPool' \cap ReservedIndices' = {}
    BY <2>3, <2>5, <2>6, <2>7 DEF OwnerInv
  <2>9. /\ \A f, g \in Held' : reserved'[f].nIndex = reserved'[g].nIndex => f = g
        /\ \A g \in Held' : reserved'[g].key = pool'[reserved'[g].nIndex]
    <3>1. \A g \in Held' : g \in Held /\ reserved[g].nIndex \in DOMAIN pool
      BY <2>4, ReservedLemma DEF OwnerInv
    <3>2. \A g \in Held' : reserved[g].nIndex # n
      BY <2>1, <2>4 DEF OwnerInv
    <3> QED BY <2>4, <2>6, <3>1, <3>2 DEF OwnerInv
  <2> QED BY <2>2, <2>8, <2>9 DEF OwnerInv
<1>7. ASSUME NEW h \in Holder, ReturnKey(h) PROVE OwnerInv'
  <2> SUFFICES ASSUME ~ overwritten PROVE OwnerInv'
    BY <1>7 DEF ReturnKey, OwnerInv
  <2> DEFINE n == reserved[h].nIndex
  <2>1. /\ h \in Held /\ UNCHANGED <<pool, out>>
        /\ setKeyPool' = setKeyPool \cup {n} /\ reserved' = [reserved EXCEPT ![h] = Free]
    BY <1>7 DEF ReturnKey, Held, disk
  <2>2. Held' = Held \ {h} /\ \A g \in Held' : reserved'[g] = reserved[g]
    BY <2>1 DEF Held, Free, MadeInv
  <2>3. ReservedIndices' = ReservedIndices \ {n}
    <3>1. \A g \in Held : reserved[g].nIndex = n => g = h
      BY <2>1 DEF OwnerInv
    <3>2. reserved'[h].nIndex = -1 /\ \A g \in Holder \ {h} : reserved'[g] = reserved[g]
      BY <2>1 DEF Free, MadeInv
    <3> QED BY <3>1, <3>2 DEF ReservedIndices, Held
  <2>4. n \in ReservedIndices
    BY <2>1, ReservedLemma
  <2> HIDE DEF n
  <2>5. /\ setKeyPool' \cup ReservedIndices' = DOMAIN pool'
        /\ setKeyPool' \cap ReservedIndices' = {}
    BY <2>1, <2>3, <2>4 DEF OwnerInv
  <2>6. /\ \A f, g \in Held' : reserved'[f].nIndex = reserved'[g].nIndex => f = g
        /\ \A g \in Held' : reserved'[g].key = pool'[reserved'[g].nIndex]
    BY <2>1, <2>2 DEF OwnerInv
  <2> QED BY <2>1, <2>5, <2>6 DEF OwnerInv
<1>8. CASE Take_Throw
  <2> SUFFICES ASSUME ~ overwritten PROVE FALSE
    BY <1>8 DEF Take_Throw, OwnerInv
  <2>1. setKeyPool # {} /\ nOldest \in setKeyPool
    BY <1>8, OldestLemma DEF Take_Throw
  <2>2. nOldest \in DOMAIN pool /\ pool[nOldest] \in keys
    BY <2>1 DEF OwnerInv, MadeInv
  <2> QED BY <1>8, <2>1, <2>2 DEF Take_Throw, Readable
<1>9. CASE Reserve
  <2> SUFFICES ASSUME ~ overwritten PROVE OwnerInv'
    BY <1>9 DEF Reserve, OwnerInv
  <2> DEFINE n == nOldest
             h == job.h
  <2>1. /\ n \in setKeyPool /\ n \in Nat \ {0} /\ n \in DOMAIN pool /\ UNCHANGED <<pool, out>>
        /\ setKeyPool' = setKeyPool \ {n}
        /\ reserved' = [reserved EXCEPT ![h] = [nIndex |-> n, key |-> pool[n]]]
    BY <1>9, OldestLemma DEF Reserve, Readable, disk
  <2>2. h \in Holder /\ h \notin Held
    BY <1>9, KindLemma DEF Reserve, Taking, ForInv, Held
  <2> HIDE DEF n, h
  <2>3. /\ Held' = Held \cup {h} /\ \A g \in Held : reserved'[g] = reserved[g]
        /\ reserved'[h].nIndex = n /\ reserved'[h].key = pool[n]
    BY <2>1, <2>2 DEF Held, MadeInv
  <2>4. ReservedIndices' = ReservedIndices \cup {n}
    <3>1. \A g \in Holder : reserved'[g].nIndex = IF g = h THEN n ELSE reserved[g].nIndex
      BY <2>1, <2>2 DEF MadeInv
    <3>2. reserved[h].nIndex = -1
      BY <2>2 DEF Held
    <3> QED BY <2>1, <2>2, <3>1, <3>2 DEF ReservedIndices
  <2>5. n \notin ReservedIndices
    BY <2>1 DEF OwnerInv
  <2>6. /\ setKeyPool' \cup ReservedIndices' = DOMAIN pool'
        /\ setKeyPool' \cap ReservedIndices' = {}
    BY <2>1, <2>4, <2>5 DEF OwnerInv
  <2>7. \A g \in Held : reserved[g].nIndex # n
    BY <2>5, ReservedLemma
  <2>8. /\ \A f, g \in Held' : reserved'[f].nIndex = reserved'[g].nIndex => f = g
        /\ \A g \in Held' : reserved'[g].key = pool'[reserved'[g].nIndex]
    BY <2>1, <2>3, <2>7 DEF OwnerInv
  <2> QED BY <2>1, <2>6, <2>8 DEF OwnerInv
<1>10. CASE Get
  <2> SUFFICES ASSUME ~ overwritten PROVE OwnerInv'
    BY <1>10 DEF Get, OwnerInv
  <2> DEFINE n == nOldest
  <2>1. /\ n \in setKeyPool /\ n \in DOMAIN pool /\ reserved' = reserved
        /\ setKeyPool' = setKeyPool \ {n} /\ ErasePool({n}) /\ out' = Append(out, pool[n])
    BY <1>10, OldestLemma DEF Get, Readable
  <2> HIDE DEF n
  <2>2. /\ IsInjective(pool') /\ IsInjective(out')
        /\ \A i \in DOMAIN out', j \in DOMAIN pool' : out'[i] # pool'[j]
    BY <2>1, GiveLemma
  <2>3. DOMAIN pool' = DOMAIN pool \ {n} /\ \A i \in DOMAIN pool' : pool'[i] = pool[i]
    BY <2>1, EraseLemma
  <2>4. n \notin ReservedIndices /\ ReservedIndices' = ReservedIndices /\ Held' = Held
    BY <2>1 DEF OwnerInv, ReservedIndices, Held
  <2>5. \A g \in Held : reserved[g].nIndex # n /\ reserved[g].nIndex \in DOMAIN pool
    BY <2>4, ReservedLemma DEF OwnerInv
  <2> QED BY <2>1, <2>2, <2>3, <2>4, <2>5 DEF OwnerInv
<1>11. CASE NewKeyPool
  <2> SUFFICES ASSUME ~ overwritten PROVE OwnerInv'
    BY <1>11 DEF NewKeyPool, OwnerInv
  <2>1. ErasePool(setKeyPool) /\ setKeyPool' = {} /\ UNCHANGED <<reserved, out>>
    BY <1>11 DEF NewKeyPool
  <2>2. DOMAIN pool' = DOMAIN pool \ setKeyPool /\ \A i \in DOMAIN pool' : pool'[i] = pool[i]
    BY <2>1, EraseLemma
  <2>3. ReservedIndices' = ReservedIndices /\ Held' = Held /\ DOMAIN pool' = ReservedIndices
    BY <2>1, <2>2 DEF ReservedIndices, Held, OwnerInv
  <2>4. \A h \in Held : reserved[h].nIndex \in DOMAIN pool'
    BY <2>3, ReservedLemma
  <2> QED BY <2>1, <2>2, <2>3, <2>4 DEF OwnerInv, IsInjective
<1>12. CASE Restart
  <2>1. setKeyPool' = DOMAIN pool /\ UNCHANGED <<pool, out, overwritten>>
    BY <1>12 DEF Restart, disk
  <2>2. Held' = {} /\ ReservedIndices' = {}
    BY <1>12 DEF Restart, Held, ReservedIndices, Free
  <2> QED BY <2>1, <2>2 DEF OwnerInv
<1>13. CASE UNCHANGED vars
  BY <1>1, <1>13 DEF vars, memory, disk
<1> QED
  BY <1>2, <1>3, <1>4, <1>5, <1>6, <1>7, <1>8, <1>9, <1>10, <1>11, <1>12, <1>13 DEF Next

-----------------------------------------------------------------------------
LEMMA KeyNext ==
    ASSUME KeyInv, [Next]_vars
    PROVE  KeyInv'
  BY StoreNext, JobNext, MadeNext, FreshNext, OwnerNext DEF KeyInv

(* The invariant that the theorems below rest on: the key store, the pool  *)
(* and the CReserveKey objects fit together at every step of TopUpKeyPool, *)
(* ReserveKeyFromKeyPool, KeepKey, ReturnKey, EncryptWallet and LoadWallet.*)
THEOREM KeyInvCorrect == Spec => []KeyInv
<1>1. Init => KeyInv
  BY KeyInit
<1>2. KeyInv /\ [Next]_vars => KeyInv'
  BY KeyNext
<1> QED BY <1>1, <1>2, PTL DEF Spec

(* The state of the wallet's key pool keeps its types: indices are         *)
(* positive, keys are among those generated, and the default key is never  *)
(* given away by the pool.                                                 *)
THEOREM KeyPoolTypeCorrect == Spec => []TypeOK
<1>1. KeyInv => TypeOK
  <2> SUFFICES ASSUME KeyInv PROVE TypeOK
    OBVIOUS
  <2>1. keys \subseteq 0 .. MaxKey
    BY TopKey DEF KeyInv
  <2>2. setKeyPool \subseteq Nat \ {0} /\ DOMAIN pool \subseteq Nat \ {0}
    BY BoundedLemma DEF KeyInv, MadeInv
  <2>3. /\ \A i \in DOMAIN pool : pool[i] \in 0 .. MaxKey
        /\ \A h \in Holder : reserved[h].nIndex \in Nat \cup {-1} /\ reserved[h].key \in 0 .. MaxKey
    BY <2>1 DEF KeyInv, MadeInv
  <2>4. keys \cup diskKey \cup diskCKey \cup oldKeys \subseteq 0 .. MaxKey
    BY <2>1 DEF KeyInv, StoreInv
  <2>5. out \in Seq(1 .. MaxKey)
    <3>1. out \in Seq(keys \ {0}) /\ keys \ {0} \subseteq 1 .. MaxKey
      BY <2>1, KeyPoolAssumption DEF KeyInv, MadeInv
    <3> QED BY <3>1, SeqOver
  <2> QED BY <2>2, <2>3, <2>4, <2>5 DEF TypeOK, KeyInv, StoreInv, MadeInv
<1> QED BY <1>1, KeyInvCorrect, PTL

(* Every record of the pool on disk is a free index in memory or reserved  *)
(* by exactly one CReserveKey, until a reserved index is written again.    *)
THEOREM PoolAccountedCorrect == Spec => []PoolAccounted
<1>1. KeyInv => PoolAccounted
  BY DEF KeyInv, OwnerInv, PoolAccounted
<1> QED BY <1>1, KeyInvCorrect, PTL

(* No key of the pool is handed out twice, whatever the order of           *)
(* reserving, keeping, returning, locking, encrypting and restarting,      *)
(* until a reserved index is written again.                                *)
THEOREM HandedOutOnceCorrect == Spec => []HandedOutOnce
<1>1. KeyInv => HandedOutOnce
  <2> SUFFICES ASSUME KeyInv, ~ overwritten PROVE NeverTwice
    BY DEF HandedOutOnce
  <2> USE DEF KeyInv
  <2>1. \A h \in Held : /\ reserved[h].nIndex \in DOMAIN pool
                        /\ reserved[h].key = pool[reserved[h].nIndex]
    BY ReservedLemma DEF OwnerInv
  <2>2. \A g, h \in Held : reserved[g].key = reserved[h].key => g = h
    BY <2>1 DEF OwnerInv, IsInjective
  <2>3. \A h \in Held : \A i \in DOMAIN out : out[i] # reserved[h].key
    BY <2>1 DEF OwnerInv
  <2> QED BY <2>2, <2>3 DEF NeverTwice, OwnerInv
<1> QED BY <1>1, KeyInvCorrect, PTL

(* Every key in memory or handed out is on disk, and in the clear only in  *)
(* a wallet that is not encrypted: AddKey writes before the key is used,   *)
(* and EncryptWallet rewrites them all.                                    *)
THEOREM KeysAreOnDiskCorrect == Spec => []KeysAreOnDisk
<1>1. KeyInv => KeysAreOnDisk
  <2> SUFFICES ASSUME KeyInv PROVE KeysAreOnDisk
    OBVIOUS
  <2>1. keys = IF IsCrypted THEN diskCKey ELSE diskKey
    BY DEF KeyInv, StoreInv
  <2>2. IsCrypted => diskKey = {}
    BY DEF KeyInv, StoreInv
  <2>3. \A i \in DOMAIN out : out[i] \in keys
    BY DEF KeyInv, MadeInv
  <2>4. \A h \in Holder : reserved[h].key \in keys
    BY DEF KeyInv, MadeInv
  <2> QED BY <2>1, <2>2, <2>3, <2>4 DEF KeysAreOnDisk, Range
<1> QED BY <1>1, KeyInvCorrect, PTL
=============================================================================
