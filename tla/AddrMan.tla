------------------------------ MODULE AddrMan ------------------------------
(***************************************************************************)
(* CAddrMan: known addresses in the "new" table, where an address may be   *)
(* in several buckets, and the "tried" table, where it is in one, with the *)
(* indexes by address and in random order.  Every operation holds cs.      *)
(* Times, except that of the last success, and scores are left out: what   *)
(* depends on them or on chance is a choice.                               *)
(***************************************************************************)
EXTENDS Integers, Sequences, FiniteSets, FiniteSetsExt, SequencesExt

CONSTANTS
    Address, Source,
    GetNewBucket,       \* the new bucket of an address, by source
    GetTriedBucket,     \* the tried bucket of an address
    NewBucket, TriedBucket,
    ADDRMAN_NEW_BUCKET_SIZE, ADDRMAN_TRIED_BUCKET_SIZE,
    ADDRMAN_NEW_BUCKETS_PER_ADDRESS,
    ADDRMAN_TRIED_ENTRIES_INSPECT_ON_EVICT,
    ADDRMAN_GETADDR_MAX_PCT, ADDRMAN_GETADDR_MAX,
    Time,               \* times of success
    MaxId               \* bound: identifiers used since the last load

ASSUME AddrManAssumption ==
    /\ IsFiniteSet(NewBucket)
    /\ GetNewBucket \in [Address -> [Source -> NewBucket]]
    /\ GetTriedBucket \in [Address -> TriedBucket]
    /\ {ADDRMAN_NEW_BUCKET_SIZE, ADDRMAN_TRIED_BUCKET_SIZE, ADDRMAN_NEW_BUCKETS_PER_ADDRESS,
        ADDRMAN_TRIED_ENTRIES_INSPECT_ON_EVICT, ADDRMAN_GETADDR_MAX_PCT,
        ADDRMAN_GETADDR_MAX} \subseteq Nat \ {0}
    /\ Time \subseteq Nat \ {0}

VARIABLE addrman    \* the fields of CAddrMan

Positions(s) == DOMAIN s    \* vRandom and the buckets count from 1

-----------------------------------------------------------------------------
(* The private operations, on the manager am.                              *)

Create(am, addr, source) ==
    LET nId == am.nIdCount
        info == [addr |-> addr, source |-> source, nRefCount |-> 0, fInTried |-> FALSE,
                 nLastSuccess |-> 0, nRandomPos |-> Len(am.vRandom) + 1]
    IN  [am EXCEPT !.nIdCount = @ + 1,
                   !.mapInfo = [n \in DOMAIN @ \cup {nId} |-> IF n = nId THEN info ELSE @[n]],
                   !.mapAddr = [a \in DOMAIN @ \cup {addr} |-> IF a = addr THEN nId ELSE @[a]],
                   !.vRandom = Append(@, nId)]

SwapRandom(am, p, q) ==
    IF p = q THEN am
    ELSE [am EXCEPT !.mapInfo[am.vRandom[p]].nRandomPos = q,
                    !.mapInfo[am.vRandom[q]].nRandomPos = p,
                    !.vRandom[p] = am.vRandom[q],
                    !.vRandom[q] = am.vRandom[p]]

(* Mutant: the last of vRandom goes without taking the place of nId.       *)
Delete_NoSwap(am, nId) ==
    [am EXCEPT !.vRandom = Front(@),
               !.mapAddr = [a \in DOMAIN am.mapAddr \ {am.mapInfo[nId].addr} |-> am.mapAddr[a]],
               !.mapInfo = [n \in DOMAIN am.mapInfo \ {nId} |-> am.mapInfo[n]],
               !.nNew = @ - 1]

(* The last reference to nId is gone.                                      *)
Delete(am, nId) ==
    LET swapped == SwapRandom(am, am.mapInfo[nId].nRandomPos, Len(am.vRandom))
    IN  [swapped EXCEPT !.vRandom = Front(@),
                        !.mapAddr = [a \in DOMAIN am.mapAddr \ {am.mapInfo[nId].addr} |-> am.mapAddr[a]],
                        !.mapInfo = [n \in DOMAIN am.mapInfo \ {nId} |-> swapped.mapInfo[n]],
                        !.nNew = @ - 1]

(* Mutant: the entry is deleted although other buckets have it.            *)
ShrinkNew_Deletes(am, b, nId) == [Delete(am, nId) EXCEPT !.vvNew[b] = @ \ {nId}]

(* One entry of bucket b is dropped: the first terrible one, or the oldest *)
(* of up to four drawn by lot; any of them in this model.                  *)
ShrinkNew(am, b, nId) ==
    LET dropped == [am EXCEPT !.vvNew[b] = @ \ {nId}, !.mapInfo[nId].nRefCount = @ - 1]
    IN  IF am.mapInfo[nId].nRefCount = 1 THEN Delete(dropped, nId) ELSE dropped

(* SelectTried: draw i takes the entry at p, which changes places with the *)
(* one at i, and keeps it if it is older than the oldest so far.           *)
Draw(am, s, i, p) ==
    LET n == s.v[p]
        Older(m) == am.mapInfo[n].nLastSuccess < am.mapInfo[m].nLastSuccess
        better == s.nOldest = -1 \/ (s.nOldest # -1 /\ Older(s.nOldest))
    IN  [v |-> [s.v EXCEPT ![p] = s.v[i], ![i] = n],
         nOldest |-> IF better THEN n ELSE s.nOldest,
         nOldestPos |-> IF better THEN p ELSE s.nOldestPos]

Draws(am, S, i) == UNION {{Draw(am, s, i, p) : p \in i .. Len(s.v)} : s \in S}

(* The outcomes for the bucket v.  The position returned is the one the    *)
(* oldest entry was drawn from, where the swap has put another entry.      *)
SelectTried(am, v) ==
    LET last == Min({ADDRMAN_TRIED_ENTRIES_INSPECT_ON_EVICT, Len(v)})
        Drawn[i \in 0 .. last] ==
            IF i = 0 THEN {[v |-> v, nOldest |-> -1, nOldestPos |-> -1]}
            ELSE Draws(am, Drawn[i - 1], i)
    IN  Drawn[last]

(* The entry leaves all new buckets.                                       *)
LeaveNew(am, nId) ==
    [am EXCEPT !.vvNew = [b \in NewBucket |-> am.vvNew[b] \ {nId}],
               !.mapInfo[nId].nRefCount = @ - Cardinality({b \in NewBucket : nId \in am.vvNew[b]}),
               !.nNew = @ - 1]

(* Mutant: back into its own bucket, full or not.                          *)
EvictTo_Own(am, nOld, nOrigin) ==
    GetNewBucket[am.mapInfo[nOld].addr][am.mapInfo[nOld].source]

(* The evicted entry goes to the bucket of its source or, when that is     *)
(* full, to the one the new entry has left.                                *)
EvictTo(am, nOld, nOrigin) ==
    LET own == GetNewBucket[am.mapInfo[nOld].addr][am.mapInfo[nOld].source]
    IN  IF Cardinality(am.vvNew[own]) < ADDRMAN_NEW_BUCKET_SIZE THEN own ELSE nOrigin

(* Mutant: the entry replaced is not put back.                             *)
Replace_Drops(am, k, nPos, nId, nOrigin) ==
    LET nOld == am.vvTried[k][nPos]
    IN  [Delete(am, nOld) EXCEPT !.vvTried[k][nPos] = nId,
                                 !.mapInfo[nId].fInTried = TRUE]

Replace(am, k, nPos, nId, nOrigin) ==
    LET nOld == am.vvTried[k][nPos]
    IN  [am EXCEPT !.mapInfo = [@ EXCEPT ![nOld].fInTried = FALSE, ![nOld].nRefCount = 1,
                                         ![nId].fInTried = TRUE],
                   !.vvNew[EvictTo(am, nOld, nOrigin)] = @ \cup {nOld},
                   !.nNew = @ + 1,
                   !.vvTried[k][nPos] = nId]

(* The results of moving nId, of bucket nOrigin, to the tried table.       *)
MakeTried(am, nId, nOrigin) ==
    LET left == LeaveNew(am, nId)
        k == GetTriedBucket[am.mapInfo[nId].addr]
        v == am.vvTried[k]
    IN  IF Len(v) < ADDRMAN_TRIED_BUCKET_SIZE
        THEN {[left EXCEPT !.vvTried[k] = Append(@, nId), !.nTried = @ + 1,
                           !.mapInfo[nId].fInTried = TRUE]}
        ELSE {Replace([left EXCEPT !.vvTried[k] = s.v], k, s.nOldestPos, nId, nOrigin) :
                  s \in SelectTried(am, v)}

-----------------------------------------------------------------------------
(* The operations.                                                         *)

Known(addr) == addr \in DOMAIN addrman.mapAddr
IdOf(addr) == addrman.mapAddr[addr]
InfoOf(addr) == addrman.mapInfo[IdOf(addr)]

(* Enter nId into bucket b, after making room.                             *)
Enter(am, nId, b) ==
    LET counted == [am EXCEPT !.mapInfo[nId].nRefCount = @ + 1]
        Insert(m) == [m EXCEPT !.vvNew[b] = @ \cup {nId}]
    IN  IF Cardinality(am.vvNew[b]) = ADDRMAN_NEW_BUCKET_SIZE
        THEN {Insert(ShrinkNew(counted, b, n)) : n \in am.vvNew[b]}
        ELSE {Insert(counted)}

(* An address that was not known.                                          *)
Add_New(addr, source) ==
    /\ ~ Known(addr) /\ addrman.nIdCount < MaxId
    /\ LET created == [Create(addrman, addr, source) EXCEPT !.nNew = @ + 1]
       IN  addrman' \in Enter(created, addrman.nIdCount, GetNewBucket[addr][source])

(* A known one that passes the tests on its times and the stochastic one.  *)
Add_Again(addr, source) ==
    LET b == GetNewBucket[addr][source]
    IN  /\ Known(addr) /\ ~ InfoOf(addr).fInTried
        /\ InfoOf(addr).nRefCount < ADDRMAN_NEW_BUCKETS_PER_ADDRESS
        /\ IdOf(addr) \notin addrman.vvNew[b]
        /\ addrman' \in Enter(addrman, IdOf(addr), b)

Succeeded(addr, nTime) == [addrman EXCEPT !.mapInfo[IdOf(addr)].nLastSuccess = nTime]

(* The bucket it is in is looked for from a random one on.                 *)
Good(addr, nTime) ==
    /\ Known(addr)
    /\ \/ /\ InfoOf(addr).fInTried
          /\ addrman' = Succeeded(addr, nTime)
       \/ /\ ~ InfoOf(addr).fInTried
          /\ \E b \in NewBucket :
                /\ IdOf(addr) \in addrman.vvNew[b]
                /\ addrman' \in MakeTried(Succeeded(addr, nTime), IdOf(addr), b)

Swaps(S, n) == UNION {{SwapRandom(am, n, p) : p \in n .. Len(am.vRandom)} : am \in S}

(* GetAddr_ shuffles the front of vRandom.                                 *)
GetAddr ==
    LET nNodes == Min({(ADDRMAN_GETADDR_MAX_PCT * Len(addrman.vRandom)) \div 100,
                       ADDRMAN_GETADDR_MAX})
        Shuffled[n \in 0 .. nNodes] ==
            IF n = 0 THEN {addrman} ELSE Swaps(Shuffled[n - 1], n)
    IN  addrman' \in Shuffled[nNodes]

(* The numbers of a set in order, as an iterator over a map meets them.    *)
Sorted(S) ==
    CHOOSE s \in [1 .. Cardinality(S) -> S] :
        \A i, j \in 1 .. Cardinality(S) : i < j => s[i] < s[j]

(* The table written to peers.dat and read back.  The new entries get the  *)
(* first identifiers, the tried ones those after them, in the old order.   *)
(* (No bucket outgrows its size, so that the tried entries all have room,  *)
(* and no reference count its maximum.)                                    *)
Reload ==
    LET new == Sorted({n \in DOMAIN addrman.mapInfo : addrman.mapInfo[n].nRefCount > 0})
        tried == Sorted({n \in DOMAIN addrman.mapInfo : addrman.mapInfo[n].fInTried})
        old == new \o tried
        OldOf(n) == old[n + 1]
        ids == 0 .. Len(old) - 1
        NewIds(S) == {n \in 0 .. Len(new) - 1 : OldOf(n) \in S}
        TriedIds(k) == {n \in Len(new) .. Len(old) - 1 :
                            GetTriedBucket[addrman.mapInfo[OldOf(n)].addr] = k}
    IN  addrman' =
            [nIdCount |-> Len(old),
             mapInfo |-> [n \in ids |->
                 [addrman.mapInfo[OldOf(n)] EXCEPT
                     !.nRandomPos = n + 1,
                     !.nRefCount = Cardinality({b \in NewBucket : n \in NewIds(addrman.vvNew[b])})]],
             mapAddr |-> [a \in DOMAIN addrman.mapAddr |->
                 CHOOSE n \in ids : addrman.mapInfo[OldOf(n)].addr = a],
             vRandom |-> [i \in 1 .. Len(old) |-> i - 1],
             vvTried |-> [k \in TriedBucket |-> Sorted(TriedIds(k))],
             vvNew |-> [b \in NewBucket |-> NewIds(addrman.vvNew[b])],
             nTried |-> addrman.nTried,
             nNew |-> addrman.nNew]

Init ==
    addrman = [nIdCount |-> 0, mapInfo |-> << >>, mapAddr |-> << >>, vRandom |-> << >>,
               vvTried |-> [k \in TriedBucket |-> << >>],
               vvNew |-> [b \in NewBucket |-> {}],
               nTried |-> 0, nNew |-> 0]

Next ==
    \/ \E a \in Address, s \in Source : Add_New(a, s) \/ Add_Again(a, s)
    \/ \E a \in Address, t \in Time : Good(a, t)
    \/ GetAddr
    \/ Reload

Spec == Init /\ [][Next]_addrman
-----------------------------------------------------------------------------
(* Properties.                                                             *)

Ids == DOMAIN addrman.mapInfo
Info(n) == addrman.mapInfo[n]

(***************************************************************************)
(* Check_ (-5, -7, -14): the index by address and the random order are     *)
(* exactly those of the entries, through every deletion and shuffle, so    *)
(* that the asserts in SwapRandom and GetAddr_ hold.                       *)
(***************************************************************************)
IndexesAgree ==
    /\ \A n \in Ids : /\ Info(n).addr \in DOMAIN addrman.mapAddr
                      /\ addrman.mapAddr[Info(n).addr] = n
                      /\ Info(n).nRandomPos \in Positions(addrman.vRandom)
                      /\ addrman.vRandom[Info(n).nRandomPos] = n
    /\ \A a \in DOMAIN addrman.mapAddr : addrman.mapAddr[a] \in Ids
    /\ Len(addrman.vRandom) = addrman.nTried + addrman.nNew
    /\ Len(addrman.vRandom) = Cardinality(Ids)

(***************************************************************************)
(* Check_ (-2, -3, -4, -10, -12, -15): the reference count of an entry is  *)
(* the number of new buckets that hold it; it is positive exactly for the  *)
(* entries that are not tried, and never above the maximum.                *)
(***************************************************************************)
RefCountsMatch ==
    /\ \A n \in Ids :
          /\ Info(n).nRefCount = Cardinality({b \in NewBucket : n \in addrman.vvNew[b]})
          /\ Info(n).nRefCount <= ADDRMAN_NEW_BUCKETS_PER_ADDRESS
          /\ Info(n).fInTried <=> Info(n).nRefCount = 0
    /\ UNION {addrman.vvNew[b] : b \in NewBucket} \subseteq Ids
    /\ addrman.nNew = Cardinality({n \in Ids : ~ Info(n).fInTried})

(***************************************************************************)
(* Check_ (-1, -9, -11, -13): the tried entries are those of the tried     *)
(* table, each in one place, in its bucket, and has succeeded some time.   *)
(* With the counts, Select_ finds a bucket that is not empty.              *)
(***************************************************************************)
TriedOnce ==
    /\ \A n \in Ids : Info(n).fInTried =>
          /\ Info(n).nLastSuccess # 0
          /\ Cardinality({p \in TriedBucket \X (1 .. ADDRMAN_TRIED_BUCKET_SIZE) :
                p[2] \in Positions(addrman.vvTried[p[1]]) /\ addrman.vvTried[p[1]][p[2]] = n}) = 1
    /\ \A k \in TriedBucket : \A i \in Positions(addrman.vvTried[k]) :
          LET n == addrman.vvTried[k][i]
          IN  n \in Ids /\ Info(n).fInTried /\ GetTriedBucket[Info(n).addr] = k
    /\ addrman.nTried = Cardinality({n \in Ids : Info(n).fInTried})

(***************************************************************************)
(* What Check_ says of the two tables and the entries, after every         *)
(* operation and after a reload from a file that has only part of it.      *)
(***************************************************************************)
TablesMatchEntries == RefCountsMatch /\ TriedOnce

(***************************************************************************)
(* No bucket outgrows its size: where an evicted entry is moved to the     *)
(* bucket the new one came from, "there is certainly place there".         *)
(***************************************************************************)
BucketsBounded ==
    /\ \A b \in NewBucket : Cardinality(addrman.vvNew[b]) <= ADDRMAN_NEW_BUCKET_SIZE
    /\ \A k \in TriedBucket : Len(addrman.vvTried[k]) <= ADDRMAN_TRIED_BUCKET_SIZE

TriedAddresses == {a \in DOMAIN addrman.mapAddr : InfoOf(a).fInTried}

(***************************************************************************)
(* "They are never deleted while in the tried table, only possibly evicted *)
(* back to the new table", by no operation and not by a reload.            *)
(***************************************************************************)
TriedNeverDeleted == [][TriedAddresses \subseteq DOMAIN addrman'.mapAddr]_addrman

(***************************************************************************)
(* SelectTried: "find the least recently tried among them": with a bucket  *)
(* that is inspected as a whole, no entry left in it is older than the one *)
(* evicted from it.                                                        *)
(***************************************************************************)
EvictsLeastRecentlyTried ==
    [][\A a \in TriedAddresses \ TriedAddresses' : \A c \in TriedAddresses \cap TriedAddresses' :
        (\E k \in TriedBucket : GetTriedBucket[a] = k /\ GetTriedBucket[c] = k) =>
            InfoOf(a).nLastSuccess <= InfoOf(c).nLastSuccess]_addrman
=============================================================================
