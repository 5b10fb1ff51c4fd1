---------------------------- MODULE RelayProofs ----------------------------
(***************************************************************************)
(* The memory pool and the handler of the tx message, for every block      *)
(* tree, every set of transactions and every limit on held transactions.   *)
(*                                                                         *)
(* A step of the handler is a step of the pool or leaves it alone, and a   *)
(* step of the pool is a step of the chain or leaves that alone, so what   *)
(* is proved of Chain holds here too.                                      *)
(***************************************************************************)
EXTENDS OrphanTx, ChainProofs

-----------------------------------------------------------------------------
(* The pool beside the chain is the chain.                                 *)

LEMMA PoolStepIsChainStep == [PoolNext]_poolVars => [Next]_vars
  BY DEF PoolNext, poolVars, accept, AcceptWalletTransaction, Reaccepted, ChainStep,
         PoolReorganize, PoolSetBestChainInner, PoolRestart, Next, ProcessStep

(***************************************************************************)
(* The chain beside a memory pool behaves as the chain alone: the theorems *)
(* about Chain hold of every behaviour of PoolSpec.                        *)
(***************************************************************************)
THEOREM PoolImplementsChain == PoolSpec => Spec
<1>1. PoolInit => Init
  BY DEF PoolInit
<1> QED BY <1>1, PoolStepIsChainStep, PTL DEF PoolSpec, Spec

-----------------------------------------------------------------------------
(* The operations of CTxMemPool keep mapNextTx and mapTx in step.          *)

(* What holds of the pool even when the start-up thread has raced.         *)
NextOK(p) ==
    /\ p.mapTx \subseteq Tx
    /\ \A o \in DOMAIN p.mapNextTx :
          p.mapNextTx[o] \in p.mapTx /\ o \in vin[p.mapNextTx[o]]

PoolOK(p) ==
    /\ p.mapTx \subseteq Tx
    /\ DOMAIN p.mapNextTx = Prevouts(p.mapTx)
    /\ \A t \in p.mapTx : \A o \in vin[t] : p.mapNextTx[o] = t

LEMMA PoolForms ==
    NextTxMatchesPool <=> NextOK(mempool) /\ (~ raced => PoolOK(mempool))
<1>1. ASSUME NextTxMatchesPool, ~ raced PROVE PoolOK(mempool)
  BY <1>1 DEF NextTxMatchesPool, PoolOK, Prevouts
<1>2. ASSUME PoolOK(mempool), NEW t \in mempool.mapTx, NEW o \in vin[t]
      PROVE  o \in DOMAIN mempool.mapNextTx /\ mempool.mapNextTx[o] = t
  BY <1>2 DEF PoolOK, Prevouts
<1> QED BY <1>1, <1>2 DEF NextTxMatchesPool, NextOK

LEMMA AddNextLemma ==
    ASSUME NEW p, NextOK(p), NEW S \in SUBSET Tx
    PROVE  NextOK(addUnchecked(p, S)) /\ addUnchecked(p, S).mapTx = p.mapTx \cup S
<1> DEFINE q == addUnchecked(p, S)
<1>1. /\ q.mapTx = p.mapTx \cup S
      /\ DOMAIN q.mapNextTx = DOMAIN p.mapNextTx \cup Prevouts(S)
      /\ \A o \in DOMAIN q.mapNextTx : q.mapNextTx[o] =
            IF o \in Prevouts(S) THEN CHOOSE t \in S : o \in vin[t] ELSE p.mapNextTx[o]
  BY DEF addUnchecked
<1> HIDE DEF q
<1>2. ASSUME NEW o \in DOMAIN q.mapNextTx
      PROVE  q.mapNextTx[o] \in q.mapTx /\ o \in vin[q.mapNextTx[o]]
  <2>1. CASE o \in Prevouts(S)
    <3> DEFINE c == CHOOSE t \in S : o \in vin[t]
    <3>1. c \in S /\ o \in vin[c]
      BY <2>1 DEF Prevouts
    <3> QED BY <1>1, <1>2, <2>1, <3>1
  <2>2. CASE o \notin Prevouts(S)
    BY <1>1, <1>2, <2>2 DEF NextOK
  <2> QED BY <2>1, <2>2
<1> QED BY <1>1, <1>2 DEF NextOK, q

LEMMA RemoveNextLemma ==
    ASSUME NEW p, NextOK(p), NEW S
    PROVE  NextOK(remove(p, S)) /\ remove(p, S).mapTx = p.mapTx \ S
<1> DEFINE q == remove(p, S)
<1>1. /\ q.mapTx = p.mapTx \ S
      /\ DOMAIN q.mapNextTx = DOMAIN p.mapNextTx \ Prevouts(S \cap p.mapTx)
      /\ \A o \in DOMAIN q.mapNextTx : q.mapNextTx[o] = p.mapNextTx[o]
  BY DEF remove
<1> HIDE DEF q
<1>2. ASSUME NEW o \in DOMAIN q.mapNextTx
      PROVE  q.mapNextTx[o] \in q.mapTx /\ o \in vin[q.mapNextTx[o]]
  BY <1>1, <1>2 DEF NextOK, Prevouts
<1> QED BY <1>1, <1>2 DEF NextOK, q

LEMMA AddLemma ==
    ASSUME NEW p, PoolOK(p), NEW S \in SUBSET Tx, Compatible(S),
           \A t \in S : vin[t] \cap DOMAIN p.mapNextTx = {}
    PROVE  PoolOK(addUnchecked(p, S)) /\ addUnchecked(p, S).mapTx = p.mapTx \cup S
<1> DEFINE q == addUnchecked(p, S)
<1>1. /\ q.mapTx = p.mapTx \cup S
      /\ DOMAIN q.mapNextTx = DOMAIN p.mapNextTx \cup Prevouts(S)
      /\ \A o \in DOMAIN q.mapNextTx : q.mapNextTx[o] =
            IF o \in Prevouts(S) THEN CHOOSE t \in S : o \in vin[t] ELSE p.mapNextTx[o]
  BY DEF addUnchecked
<1> HIDE DEF q
<1>2. q.mapTx \subseteq Tx
  BY <1>1 DEF PoolOK
<1>3. DOMAIN q.mapNextTx = Prevouts(q.mapTx)
  BY <1>1 DEF PoolOK, Prevouts
<1>4. ASSUME NEW t \in q.mapTx, NEW o \in vin[t] PROVE q.mapNextTx[o] = t
  <2>1. o \in DOMAIN q.mapNextTx
    BY <1>3, <1>4 DEF Prevouts
  <2>2. CASE t \in S
    <3>1. o \in Prevouts(S)
      BY <1>4, <2>2 DEF Prevouts
    <3> DEFINE c == CHOOSE s \in S : o \in vin[s]
    <3>2. c \in S /\ o \in vin[c]
      BY <1>4, <2>2
    <3>3. c = t
      <4> HIDE DEF c
      <4> QED BY <1>4, <2>2, <3>2 DEF Compatible
    <3> QED BY <1>1, <2>1, <3>1, <3>3
  <2>3. CASE t \notin S
    <3>1. t \in p.mapTx
      BY <1>1, <1>4, <2>3
    <3>2. o \in DOMAIN p.mapNextTx /\ p.mapNextTx[o] = t
      BY <1>4, <3>1 DEF PoolOK, Prevouts
    <3>3. o \notin Prevouts(S)
      BY <3>2 DEF Prevouts
    <3> QED BY <1>1, <2>1, <3>2, <3>3
  <2> QED BY <2>2, <2>3
<1> QED BY <1>1, <1>2, <1>3, <1>4 DEF PoolOK, q

LEMMA RemoveLemma ==
    ASSUME NEW p, PoolOK(p), NEW S
    PROVE  PoolOK(remove(p, S)) /\ remove(p, S).mapTx = p.mapTx \ S
<1> DEFINE q == remove(p, S)
<1>1. /\ q.mapTx = p.mapTx \ S
      /\ DOMAIN q.mapNextTx = DOMAIN p.mapNextTx \ Prevouts(S \cap p.mapTx)
      /\ \A o \in DOMAIN q.mapNextTx : q.mapNextTx[o] = p.mapNextTx[o]
  BY DEF remove
<1> HIDE DEF q
<1>2. ASSUME NEW o \in Prevouts(q.mapTx) PROVE o \in DOMAIN q.mapNextTx
  <2>1. PICK t \in p.mapTx \ S : o \in vin[t]
    BY <1>1 DEF Prevouts
  <2>2. o \in DOMAIN p.mapNextTx /\ p.mapNextTx[o] = t
    BY <2>1 DEF PoolOK, Prevouts
  <2>3. ASSUME NEW s \in S \cap p.mapTx, o \in vin[s] PROVE FALSE
    <3>1. p.mapNextTx[o] = s
      BY <2>3 DEF PoolOK
    <3> QED BY <2>1, <2>2, <3>1
  <2> QED BY <1>1, <2>2, <2>3 DEF Prevouts
<1>3. DOMAIN q.mapNextTx \subseteq Prevouts(q.mapTx)
  BY <1>1 DEF PoolOK, Prevouts
<1>4. ASSUME NEW t \in q.mapTx, NEW o \in vin[t] PROVE q.mapNextTx[o] = t
  <2>1. o \in DOMAIN q.mapNextTx
    BY <1>2 DEF Prevouts
  <2>2. t \in p.mapTx
    BY <1>1
  <2> QED BY <1>1, <2>1, <2>2 DEF PoolOK
<1>5. q.mapTx \subseteq Tx
  BY <1>1 DEF PoolOK
<1> QED BY <1>1, <1>2, <1>3, <1>4, <1>5 DEF PoolOK, q

(* One more transaction, as accept adds it.                                *)
LEMMA AddOneLemma ==
    ASSUME NEW p, PoolOK(p), NEW t \in Tx, Acceptable(p, t)
    PROVE  PoolOK(addUnchecked(p, {t})) /\ addUnchecked(p, {t}).mapTx = p.mapTx \cup {t}
<1>1. Compatible({t})
  BY DEF Compatible
<1>2. vin[t] \cap DOMAIN p.mapNextTx = {}
  BY DEF Acceptable
<1> QED BY <1>1, <1>2, AddLemma

(* Nothing added: only the form of the pool changes.                       *)
LEMMA AddNoneLemma ==
    ASSUME NEW p, PoolOK(p)
    PROVE  LET q == addUnchecked(p, {})
           IN  /\ PoolOK(q) /\ q.mapTx = p.mapTx
               /\ DOMAIN q.mapNextTx = DOMAIN p.mapNextTx
<1>1. Compatible({}) /\ {} \in SUBSET Tx
  BY DEF Compatible
<1>2. PoolOK(addUnchecked(p, {})) /\ addUnchecked(p, {}).mapTx = p.mapTx
  BY <1>1, AddLemma
<1> QED BY <1>2 DEF PoolOK

(* What the start-up thread adds is in no block, and its inputs are known. *)
LEMMA OvertakingLemma ==
    ASSUME NEW S, NEW idx, NEW K, NEW T, NEW W \in Overtaking(S, idx, K, T)
    PROVE  /\ W \subseteq S /\ W \cap DOMAIN idx = {}
           /\ \A t \in W : \A o \in vin[t] : o[1] \in DOMAIN idx \cup K \cup W
  BY DEF Overtaking, Passes, FetchPoolInputs

(* What accept does to the pool, W the transactions that overtake t.       *)
LEMMA AddCheckedLemma ==
    ASSUME NextTxMatchesPool, NEW t \in Tx, Considered(mempool, t), AddChecked(WalletTx, t)
    PROVE  \E W \in SUBSET Tx :
              /\ W \cap DOMAIN db.txindex = {}
              /\ \A s \in W \cup {t} : \A o \in vin[s] :
                    o[1] \in DOMAIN db.txindex \cup mempool.mapTx \cup W
              /\ mempool'.mapTx = mempool.mapTx \cup W \cup {t}
              /\ NextTxMatchesPool'
<1>1. PICK W \in Overtaking(WalletTx, db.txindex, mempool.mapTx, {t}) :
          /\ Passes(db.txindex, mempool.mapTx \cup W, t)
          /\ mempool' = addUnchecked(addUnchecked(mempool, W), {t})
          /\ raced' = (raced \/ W # {})
  BY DEF AddChecked
<1>2. /\ W \in SUBSET Tx /\ W \cap DOMAIN db.txindex = {}
      /\ \A s \in W : \A o \in vin[s] : o[1] \in DOMAIN db.txindex \cup mempool.mapTx \cup W
  BY OvertakingLemma, MemPoolAssumption
<1>3. \A o \in vin[t] : o[1] \in DOMAIN db.txindex \cup mempool.mapTx \cup W
  BY <1>1 DEF Passes, FetchPoolInputs
<1>4. NextOK(addUnchecked(mempool, W)) /\ addUnchecked(mempool, W).mapTx = mempool.mapTx \cup W
  BY <1>2, AddNextLemma, PoolForms
<1>5. NextOK(mempool') /\ mempool'.mapTx = mempool.mapTx \cup W \cup {t}
  BY <1>1, <1>4, AddNextLemma
<1>6. ASSUME ~ raced' PROVE PoolOK(mempool')
  <2>1. W = {} /\ PoolOK(mempool)
    BY <1>1, <1>6, PoolForms
  <2> DEFINE q == addUnchecked(mempool, {})
  <2>2. /\ PoolOK(q) /\ q.mapTx = mempool.mapTx
        /\ DOMAIN q.mapNextTx = DOMAIN mempool.mapNextTx
    BY <2>1, AddNoneLemma
  <2>3. mempool' = addUnchecked(q, {t})
    BY <1>1, <2>1
  <2> HIDE DEF q
  <2>4. Acceptable(q, t)
    BY <2>2 DEF Considered, Acceptable
  <2> QED BY <2>2, <2>3, <2>4, AddOneLemma
<1>7. NextTxMatchesPool'
  BY <1>5, <1>6 DEF NextTxMatchesPool, NextOK, PoolOK, Prevouts
<1> QED BY <1>2, <1>3, <1>5, <1>7

LEMMA ResurrectedTx == pindexBest \in Block => vResurrect \subseteq Tx
<1>1. pindexBest \in Block => vDisconnect \subseteq Block
  BY TreeAssumption DEF vDisconnect
<1> QED BY <1>1, TxAssumption DEF vResurrect, TxsOf, BlockTxs

(* A set that accept lets in when a reorganization puts transactions back. *)
LEMMA ResurrectLemma ==
    ASSUME PoolOK(mempool), pindexBest \in Block, NEW R \in Resurrections({})
    PROVE  LET a == addUnchecked(addUnchecked(mempool, {}), R)
           IN  /\ R \subseteq vResurrect /\ Compatible(R)
               /\ PoolOK(a) /\ a.mapTx = mempool.mapTx \cup R
<1> DEFINE q == addUnchecked(mempool, {})
<1>1. /\ R \subseteq vResurrect /\ Compatible(R)
      /\ \A t \in R : vin[t] \cap DOMAIN mempool.mapNextTx = {}
  BY DEF Resurrections, Resurrectable, Acceptable
<1>2. R \in SUBSET Tx
  BY <1>1, ResurrectedTx
<1>3. /\ PoolOK(q) /\ q.mapTx = mempool.mapTx
      /\ DOMAIN q.mapNextTx = DOMAIN mempool.mapNextTx
  BY AddNoneLemma
<1>4. \A t \in R : vin[t] \cap DOMAIN q.mapNextTx = {}
  BY <1>1, <1>3
<1> HIDE DEF q
<1>5. PoolOK(addUnchecked(q, R)) /\ addUnchecked(q, R).mapTx = mempool.mapTx \cup R
  BY <1>1, <1>2, <1>3, <1>4, AddLemma
<1> QED BY <1>1, <1>5 DEF q

(* The transactions that leave the pool with those of S.                   *)
Doomed(p, S) ==
    UNION {Descendants(p.mapTx, c) : c \in UNION {Conflicts(p, t) : t \in S}}

LEMMA ReorganizedLemma ==
    ASSUME PoolOK(mempool), pindexBest \in Block, NEW R \in Resurrections({})
    PROVE  LET C == TxsOf(vConnect)
               p == remove(addUnchecked(addUnchecked(mempool, {}), R), C)
           IN  /\ PoolOK(p) /\ p.mapTx = (mempool.mapTx \cup R) \ C
               /\ PoolOK(ReorganizedPool({}, R))
               /\ ReorganizedPool({}, R).mapTx = p.mapTx \ Doomed(p, C)
<1> DEFINE C == TxsOf(vConnect)
           a == addUnchecked(addUnchecked(mempool, {}), R)
           p == remove(a, C)
<1>1. PoolOK(a) /\ a.mapTx = mempool.mapTx \cup R
  BY ResurrectLemma
<1>2. ReorganizedPool({}, R) = remove(p, Doomed(p, C))
  BY DEF ReorganizedPool, removeConflicts, Doomed
<1> HIDE DEF C, a
<1>3. PoolOK(p) /\ p.mapTx = a.mapTx \ C
  BY <1>1, RemoveLemma
<1> HIDE DEF p
<1>4. PoolOK(ReorganizedPool({}, R)) /\ ReorganizedPool({}, R).mapTx = p.mapTx \ Doomed(p, C)
  BY <1>2, <1>3, RemoveLemma
<1> QED BY <1>1, <1>3, <1>4 DEF p, a, C

(* Whatever the start-up thread adds meanwhile.                            *)
LEMMA ReorganizedNextLemma ==
    ASSUME NextOK(mempool), pindexBest \in Block, NEW W \in SUBSET Tx, NEW R \in Resurrections(W)
    PROVE  /\ NextOK(ReorganizedPool(W, R)) /\ R \subseteq vResurrect
           /\ ReorganizedPool(W, R).mapTx \subseteq
                 (mempool.mapTx \cup W \cup R) \ TxsOf(vConnect)
<1> DEFINE C == TxsOf(vConnect)
           q == addUnchecked(mempool, W)
           a == addUnchecked(q, R)
           p == remove(a, C)
<1>1. R \subseteq vResurrect
  BY DEF Resurrections, Resurrectable
<1>2. R \in SUBSET Tx
  BY <1>1, ResurrectedTx
<1>3. ReorganizedPool(W, R) = remove(p, Doomed(p, C))
  BY DEF ReorganizedPool, removeConflicts, Doomed
<1> HIDE DEF C
<1>4. NextOK(q) /\ q.mapTx = mempool.mapTx \cup W
  BY AddNextLemma
<1> HIDE DEF q
<1>5. NextOK(a) /\ a.mapTx = q.mapTx \cup R
  BY <1>2, <1>4, AddNextLemma
<1> HIDE DEF a
<1>6. NextOK(p) /\ p.mapTx = a.mapTx \ C
  BY <1>5, RemoveNextLemma
<1> HIDE DEF p
<1>7. NextOK(ReorganizedPool(W, R)) /\ ReorganizedPool(W, R).mapTx = p.mapTx \ Doomed(p, C)
  BY <1>3, <1>6, RemoveNextLemma
<1> QED BY <1>1, <1>4, <1>5, <1>6, <1>7 DEF C

(* The start-up thread's additions and the resurrected transactions.       *)
LEMMA PoolReorganizeLemma ==
    ASSUME ControlInv, NextTxMatchesPool, PoolReorganize(WalletTx)
    PROVE  /\ NextTxMatchesPool'
           /\ \E W \in SUBSET Tx, R \in SUBSET vResurrect :
                 /\ W \cap DOMAIN view.txindex = {}
                 /\ mempool'.mapTx \subseteq (mempool.mapTx \cup W \cup R) \ TxsOf(vConnect)
           /\ ~ raced' => /\ PoolOK(mempool)
                          /\ \E R \in Resurrections({}) : mempool' = ReorganizedPool({}, R)
<1>1. pindexBest \in Block /\ NextOK(mempool)
  BY PoolForms DEF ControlInv, TypeOK
<1>2. PICK W \in Overtaking(WalletTx, view.txindex, mempool.mapTx \cup Resurrectable,
                            Resurrectable) :
          /\ \E R \in Resurrections(W) : mempool' = ReorganizedPool(W, R)
          /\ raced' = (raced \/ W # {})
  BY DEF PoolReorganize
<1>3. PICK R \in Resurrections(W) : mempool' = ReorganizedPool(W, R)
  BY <1>2
<1>4. W \in SUBSET Tx /\ W \cap DOMAIN view.txindex = {}
  BY OvertakingLemma, MemPoolAssumption
<1>5. /\ NextOK(mempool') /\ R \subseteq vResurrect
      /\ mempool'.mapTx \subseteq (mempool.mapTx \cup W \cup R) \ TxsOf(vConnect)
  BY <1>1, <1>3, <1>4, ReorganizedNextLemma
<1>6. ASSUME ~ raced'
      PROVE  /\ PoolOK(mempool) /\ R \in Resurrections({}) /\ mempool' = ReorganizedPool({}, R)
             /\ PoolOK(mempool')
  <2>1. W = {} /\ PoolOK(mempool)
    BY <1>2, <1>6, PoolForms
  <2>2. R \in Resurrections({}) /\ mempool' = ReorganizedPool({}, R)
    BY <1>3, <2>1
  <2>3. PoolOK(ReorganizedPool({}, R))
    BY <1>1, <2>1, <2>2, ReorganizedLemma
  <2> QED BY <2>1, <2>2, <2>3
<1>7. NextTxMatchesPool'
  BY <1>5, <1>6 DEF NextTxMatchesPool, NextOK, PoolOK, Prevouts
<1> QED BY <1>4, <1>5, <1>6, <1>7

LEMMA PoolMatchesNext ==
    ControlInv /\ NextTxMatchesPool /\ [PoolNext]_poolVars => NextTxMatchesPool'
<1> SUFFICES ASSUME ControlInv, NextTxMatchesPool, [PoolNext]_poolVars
             PROVE  NextTxMatchesPool'
  OBVIOUS
<1>1. NextOK(mempool) /\ (~ raced => PoolOK(mempool))
  BY PoolForms
<1>2. ASSUME NextOK(mempool'), ~ raced' => PoolOK(mempool') PROVE NextTxMatchesPool'
  BY <1>2 DEF NextTxMatchesPool, NextOK, PoolOK, Prevouts
<1>3. ASSUME NEW t \in Tx, accept(t) PROVE NextTxMatchesPool'
  BY <1>3, AddCheckedLemma DEF accept
<1>4. ASSUME NEW t \in WalletTx, AcceptWalletTransaction(t) PROVE NextTxMatchesPool'
  <2>1. /\ t \in Tx /\ {t} \in SUBSET Tx /\ Acceptable(mempool, t)
        /\ mempool' = addUnchecked(mempool, {t}) /\ raced' = raced
    BY <1>4, MemPoolAssumption DEF AcceptWalletTransaction, Considered
  <2>2. NextOK(mempool')
    BY <1>1, <2>1, AddNextLemma
  <2>3. ~ raced => PoolOK(mempool')
    BY <1>1, <2>1, AddOneLemma
  <2> QED BY <1>2, <2>1, <2>2, <2>3
<1>5. CASE PoolReorganize(WalletTx)
  BY <1>5, PoolReorganizeLemma
<1>6. ASSUME NEW b \in Block, PoolSetBestChainInner(b) PROVE NextTxMatchesPool'
  <2>1. mempool' = remove(mempool, BlockTxs(b)) /\ raced' = raced
    BY <1>6 DEF PoolSetBestChainInner
  <2>2. NextOK(mempool') /\ (~ raced => PoolOK(mempool'))
    BY <1>1, <2>1, RemoveLemma, RemoveNextLemma
  <2> QED BY <1>2, <2>1, <2>2
<1>7. CASE PoolRestart
  BY <1>7 DEF PoolRestart, EmptyPool, NextTxMatchesPool
<1>8. CASE UNCHANGED <<mempool, raced>>
  BY <1>8 DEF NextTxMatchesPool
<1> QED
  BY <1>3, <1>4, <1>5, <1>6, <1>7, <1>8 DEF PoolNext, ChainStep, Reaccepted, poolVars

(***************************************************************************)
(* No entry of mapNextTx outlives its transaction, whatever is accepted,   *)
(* confirmed, put back or removed as a conflict, in every tree and however *)
(* the start-up thread comes in between; and as long as it has not come    *)
(* between a check and an addition, mapNextTx is exactly the inputs of the *)
(* pool's transactions and no two of them spend the same output.           *)
(***************************************************************************)
THEOREM NextTxCorrect == PoolSpec => []NextTxMatchesPool
<1>1. PoolInit => NextTxMatchesPool
  BY DEF PoolInit, EmptyPool, NextTxMatchesPool
<1>2. PoolSpec => []ControlInv
  BY PoolImplementsChain, ControlCorrect, PTL
<1> QED BY <1>1, <1>2, PoolMatchesNext, PTL DEF PoolSpec

-----------------------------------------------------------------------------
(* What the open transaction has indexed and what it has taken out.        *)

(***************************************************************************)
(* Every transaction in the index of the open transaction is in the        *)
(* committed one and not of a block disconnected so far, or of a block     *)
(* connected so far.                                                       *)
(***************************************************************************)
BatchInv ==
    pc = "reorganize" =>
        DOMAIN view.txindex \subseteq
            (DOMAIN db.txindex \ TxsOf(Ancestors[pindexBest] \ Ancestors[tip]))
                \cup TxsOf(Ancestors[tip] \ Ancestors[pindexBest])

LEMMA BatchDisconnect ==
    ASSUME ControlInv, BatchInv, Reorganize_Disconnect PROVE BatchInv'
<1>1. /\ pc = "reorganize" /\ tip \in Block /\ tip # Genesis
      /\ tip \in Ancestors[pindexBest] /\ pindexBest \in Block
  BY TreeAssumption, AncestorLemma
  DEF Reorganize_Disconnect, Disconnecting, ControlInv, TypeOK, AtReorganize
<1>2. /\ DOMAIN view'.txindex = DOMAIN view.txindex \ BlockTxs(tip)
      /\ tip' = hashPrevBlock[tip]
  BY DEF Reorganize_Disconnect, DisconnectBlock, DisconnectInputs
<1>3. UNCHANGED <<db, pindexBest>>
  BY DEF Reorganize_Disconnect, memory
<1>4. /\ Ancestors[tip] \subseteq Ancestors[pindexBest]
      /\ Ancestors[tip'] = Ancestors[tip] \ {tip}
  BY <1>1, <1>2, AncestorLemma, PrevLemma
<1>5. /\ TxsOf(Ancestors[tip] \ Ancestors[pindexBest]) = {}
      /\ TxsOf(Ancestors[pindexBest] \ Ancestors[tip']) =
            TxsOf(Ancestors[pindexBest] \ Ancestors[tip]) \cup BlockTxs(tip)
  BY <1>1, <1>4 DEF TxsOf
<1>6. DOMAIN view.txindex \subseteq
        DOMAIN db.txindex \ TxsOf(Ancestors[pindexBest] \ Ancestors[tip])
  BY <1>1, <1>5 DEF BatchInv
<1>7. DOMAIN view'.txindex \subseteq
        DOMAIN db.txindex \ TxsOf(Ancestors[pindexBest] \ Ancestors[tip'])
  BY <1>2, <1>5, <1>6
<1> QED BY <1>3, <1>7 DEF BatchInv, TxsOf, BlockTxs

LEMMA BatchConnect ==
    ASSUME ControlInv, BatchInv, NEW b \in Block, Reorganize_Connect(b) PROVE BatchInv'
<1>1. /\ pc = "reorganize" /\ b # Genesis /\ tip = hashPrevBlock[b]
      /\ b \in Ancestors[pindexIntermediate]
      /\ Ancestors[pindexBest] \cap Ancestors[pindexIntermediate] \subseteq Ancestors[tip]
      /\ pindexBest \in Block
  BY DEF Reorganize_Connect, ConnectNext, ControlInv, TypeOK, AtReorganize
<1>2. DOMAIN view'.txindex = DOMAIN view.txindex \cup BlockTxs(b) /\ tip' = b
  BY DEF Reorganize_Connect, ConnectBlock, ConnectedIndex
<1>3. UNCHANGED <<db, pindexBest>>
  BY DEF Reorganize_Connect, memory
<1>4. Ancestors[b] = Ancestors[tip] \cup {b} /\ b \notin Ancestors[tip]
  BY <1>1, PrevLemma, TreeAssumption
<1>5. b \notin Ancestors[pindexBest]
  BY <1>1, <1>4
<1>6. /\ Ancestors[pindexBest] \ Ancestors[b] = Ancestors[pindexBest] \ Ancestors[tip]
      /\ TxsOf(Ancestors[b] \ Ancestors[pindexBest]) =
            TxsOf(Ancestors[tip] \ Ancestors[pindexBest]) \cup BlockTxs(b)
  BY <1>4, <1>5 DEF TxsOf
<1>7. DOMAIN view'.txindex \subseteq
        (DOMAIN db.txindex \ TxsOf(Ancestors[pindexBest] \ Ancestors[b]))
            \cup TxsOf(Ancestors[b] \ Ancestors[pindexBest])
  BY <1>1, <1>2, <1>6 DEF BatchInv
<1> QED BY <1>2, <1>3, <1>7 DEF BatchInv, TxsOf, BlockTxs

LEMMA BatchNext == ControlInv /\ BatchInv /\ [Next]_vars => BatchInv'
<1> SUFFICES ASSUME ControlInv, BatchInv, [Next]_vars PROVE BatchInv'
  OBVIOUS
<1>1. CASE UNCHANGED vars
  BY <1>1 DEF BatchInv, vars, memory, locals
<1>2. CASE BeginReorganize
  <2>1. view' = view /\ db' = db /\ tip' = pindexBest' /\ Committed
    BY <1>2 DEF BeginReorganize, memory, ControlInv, AtBegin
  <2>2. TxsOf(Ancestors[pindexBest'] \ Ancestors[tip']) = {}
    BY <2>1 DEF TxsOf
  <2>3. DOMAIN view'.txindex = DOMAIN db'.txindex
    BY <2>1 DEF Committed
  <2> QED BY <2>2, <2>3 DEF BatchInv
<1>3. CASE Reorganize_Disconnect
  BY <1>3, BatchDisconnect
<1>4. ASSUME NEW b \in Block, Reorganize_Connect(b) PROVE BatchInv'
  BY <1>4, BatchConnect
<1>5. CASE pc' # "reorganize"
  BY <1>5 DEF BatchInv
<1>6. ASSUME NEW b \in Block \ {Genesis}, AcceptBlock(b) \/ RefuseBlock(b)
      PROVE  pc' # "reorganize"
  BY <1>6 DEF AcceptBlock, RefuseBlock, Arrives, locals
<1>7. ASSUME ExtendBest \/ Reorganize_Invalid \/ Reorganize_Commit
               \/ Reorganize_CommitFault \/ SetBestChain_Done \/ Restart
      PROVE  pc' # "reorganize"
  BY <1>7 DEF ExtendBest, Reorganize_Invalid, Reorganize_Commit, Reorganize_CommitFault,
              SetBestChain_Done, Restart, ReorganizeFails, NewBest, Return
<1>8. ASSUME NEW b \in Block, SetBestChainInner(b) \/ SetBestChainInner_Invalid(b)
               \/ SetBestChainInner_CommitFault(b)
      PROVE  pc' # "reorganize"
  BY <1>8 DEF SetBestChainInner, SetBestChainInner_Invalid,
              SetBestChainInner_CommitFault, GiveUp, NewBest, Return
<1> QED
  BY <1>1, <1>2, <1>3, <1>4, <1>5, <1>6, <1>7, <1>8 DEF Next, ProcessStep

LEMMA BatchCorrect == Spec => []BatchInv
<1>1. Init => BatchInv
  BY DEF Init, BatchInv
<1> QED BY <1>1, BatchNext, ControlCorrect, PTL DEF Spec

LEMMA CommitLemma ==
    ASSUME ControlInv, BatchInv, Reorganize_Commit
    PROVE  /\ pindexBest \in Block /\ pindexIntermediate \in Block
           /\ db'.txindex = view.txindex /\ tip = pindexIntermediate
           /\ pc = "reorganize"
           /\ DOMAIN db'.txindex \subseteq
                 (DOMAIN db.txindex \ TxsOf(vDisconnect)) \cup TxsOf(vConnect)
<1>1. /\ pindexBest \in Block /\ pindexIntermediate \in Block
      /\ tip = pindexIntermediate /\ pc = "reorganize"
  BY AncestorLemma DEF Reorganize_Commit, ControlInv, TypeOK, AtReorganize
<1>2. db'.txindex = view.txindex
  BY DEF Reorganize_Commit, TxnCommit, ControlInv, Shape
<1> QED BY <1>1, <1>2 DEF BatchInv, vDisconnect, vConnect

-----------------------------------------------------------------------------
(* The pool and the chain are apart.                                       *)

(* The steps of the chain that leave the pool alone leave the committed    *)
(* transaction index alone.                                                *)
LEMMA ChainStepIndex == ControlInv /\ ChainStep => db'.txindex = db.txindex
<1> SUFFICES ASSUME ControlInv, ChainStep PROVE db'.txindex = db.txindex
  OBVIOUS
<1>1. ASSUME NEW b \in Block \ {Genesis}, AcceptBlock(b) PROVE db'.txindex = db.txindex
  BY <1>1 DEF AcceptBlock, ControlInv, Shape
<1>2. ASSUME NEW b \in Block \ {Genesis}, RefuseBlock(b) PROVE db'.txindex = db.txindex
  BY <1>2 DEF RefuseBlock
<1>3. ASSUME ExtendBest \/ BeginReorganize \/ Reorganize_Disconnect \/ SetBestChain_Done
      PROVE  db'.txindex = db.txindex
  BY <1>3 DEF ExtendBest, BeginReorganize, Reorganize_Disconnect, SetBestChain_Done
<1>4. ASSUME Reorganize_Invalid \/ Reorganize_CommitFault PROVE db'.txindex = db.txindex
  BY <1>4 DEF Reorganize_Invalid, Reorganize_CommitFault, ReorganizeFails,
              InvalidChainFound, ControlInv, Shape
<1>5. ASSUME NEW b \in Block, Reorganize_Connect(b) PROVE db'.txindex = db.txindex
  BY <1>5 DEF Reorganize_Connect
<1>6. ASSUME NEW b \in Block,
             SetBestChainInner_Invalid(b) \/ SetBestChainInner_CommitFault(b)
      PROVE  db'.txindex = db.txindex
  BY <1>6 DEF SetBestChainInner_Invalid, SetBestChainInner_CommitFault,
              InvalidChainFound, ControlInv, Shape
<1> QED BY <1>1, <1>2, <1>3, <1>4, <1>5, <1>6 DEF ChainStep

LEMMA InnerIndex ==
    ASSUME ControlInv, NEW b \in Block, SetBestChainInner(b)
    PROVE  DOMAIN db'.txindex = DOMAIN db.txindex \cup BlockTxs(b)
<1>1. view.txindex = db.txindex
  BY DEF SetBestChainInner, ControlInv, AtInner, Committed
<1>2. db'.txindex = ConnectedIndex(view.txindex, b)
  BY DEF SetBestChainInner, TxnCommit, ConnectBlock, ControlInv, Shape
<1> QED BY <1>1, <1>2 DEF ConnectedIndex

PoolInv == NextTxMatchesPool /\ PoolNotInChain

LEMMA PoolApartNext ==
    ControlInv /\ BatchInv /\ PoolInv /\ [PoolNext]_poolVars => PoolNotInChain'
<1> SUFFICES ASSUME ControlInv, BatchInv, PoolInv, [PoolNext]_poolVars
             PROVE  PoolNotInChain'
  OBVIOUS
<1>1. /\ NextTxMatchesPool /\ NextOK(mempool)
      /\ mempool.mapTx \cap DOMAIN db.txindex = {}
  BY PoolForms DEF PoolInv, PoolNotInChain
<1>2. ASSUME NEW t \in Tx, accept(t) PROVE PoolNotInChain'
  <2>1. Considered(mempool, t) /\ AddChecked(WalletTx, t) /\ db' = db
    BY <1>2 DEF accept, vars
  <2>2. PICK W \in SUBSET Tx : /\ W \cap DOMAIN db.txindex = {}
                              /\ mempool'.mapTx = mempool.mapTx \cup W \cup {t}
    BY <1>1, <2>1, AddCheckedLemma
  <2> QED BY <1>1, <2>1, <2>2 DEF Considered, PoolNotInChain
<1>3. ASSUME NEW t \in WalletTx, AcceptWalletTransaction(t) PROVE PoolNotInChain'
  <2>1. mempool'.mapTx = mempool.mapTx \cup {t} /\ db' = db /\ Considered(mempool, t)
    BY <1>3 DEF AcceptWalletTransaction, addUnchecked, vars
  <2> QED BY <1>1, <2>1 DEF Considered, PoolNotInChain
<1>4. CASE ChainStep
  BY <1>1, <1>4, ChainStepIndex DEF ChainStep, PoolNotInChain
<1>5. CASE PoolReorganize(WalletTx)
  <2>1. /\ db'.txindex = view.txindex
        /\ DOMAIN db'.txindex \subseteq
              (DOMAIN db.txindex \ TxsOf(vDisconnect)) \cup TxsOf(vConnect)
    BY <1>5, CommitLemma DEF PoolReorganize
  <2>2. PICK W \in SUBSET Tx, R \in SUBSET vResurrect :
            /\ W \cap DOMAIN view.txindex = {}
            /\ mempool'.mapTx \subseteq (mempool.mapTx \cup W \cup R) \ TxsOf(vConnect)
    BY <1>1, <1>5, PoolReorganizeLemma
  <2>3. R \subseteq TxsOf(vDisconnect)
    BY DEF vResurrect
  <2> QED BY <1>1, <2>1, <2>2, <2>3 DEF PoolNotInChain
<1>6. ASSUME NEW b \in Block, PoolSetBestChainInner(b) PROVE PoolNotInChain'
  <2>1. mempool'.mapTx = mempool.mapTx \ BlockTxs(b)
    BY <1>6 DEF PoolSetBestChainInner, remove
  <2>2. DOMAIN db'.txindex = DOMAIN db.txindex \cup BlockTxs(b)
    BY <1>6, InnerIndex DEF PoolSetBestChainInner
  <2> QED BY <1>1, <2>1, <2>2 DEF PoolNotInChain
<1>7. CASE PoolRestart
  BY <1>7 DEF PoolRestart, EmptyPool, PoolNotInChain
<1>8. CASE Reaccepted \/ UNCHANGED poolVars
  BY <1>1, <1>8 DEF Reaccepted, poolVars, vars, PoolNotInChain
<1> QED BY <1>2, <1>3, <1>4, <1>5, <1>6, <1>7, <1>8 DEF PoolNext

(***************************************************************************)
(* No transaction of the committed chain is in the pool, over every        *)
(* sequence of blocks, reorganizations, failures and restarts, also once   *)
(* blocks have been given up, and whenever the start-up thread accepts.    *)
(***************************************************************************)
THEOREM PoolApartCorrect == PoolSpec => []PoolNotInChain
<1>1. PoolInit => PoolNotInChain
  BY DEF PoolInit, EmptyPool, PoolNotInChain
<1>2. PoolSpec => [](ControlInv /\ BatchInv)
  BY PoolImplementsChain, ControlCorrect, BatchCorrect, PTL
<1> QED BY <1>1, <1>2, NextTxCorrect, PoolApartNext, PTL DEF PoolSpec, PoolInv

LEMMA KnownInputsStep ==
    ASSUME ControlInv, PoolInv, [PoolNext]_poolVars, PoolInputsKnown,
           ~ PoolReorganize(WalletTx)
    PROVE  PoolInputsKnown'
<1>1. NextTxMatchesPool
  BY DEF PoolInv
<1>2. ASSUME NEW t \in Tx, accept(t) PROVE PoolInputsKnown'
  <2>1. Considered(mempool, t) /\ AddChecked(WalletTx, t) /\ db' = db
    BY <1>2 DEF accept, vars
  <2>2. PICK W \in SUBSET Tx :
            /\ \A s \in W \cup {t} : \A o \in vin[s] :
                  o[1] \in DOMAIN db.txindex \cup mempool.mapTx \cup W
            /\ mempool'.mapTx = mempool.mapTx \cup W \cup {t}
    BY <1>1, <2>1, AddCheckedLemma
  <2> QED BY <2>1, <2>2 DEF PoolInputsKnown
<1>3. ASSUME NEW t \in WalletTx, AcceptWalletTransaction(t) PROVE PoolInputsKnown'
  <2>1. mempool'.mapTx = mempool.mapTx \cup {t} /\ db' = db
    BY <1>3 DEF AcceptWalletTransaction, addUnchecked, vars
  <2>2. \A o \in vin[t] : o[1] \in DOMAIN db.txindex \cup mempool.mapTx
    BY <1>3 DEF AcceptWalletTransaction, Passes, FetchPoolInputs
  <2> QED BY <2>1, <2>2 DEF PoolInputsKnown
<1>4. CASE ChainStep
  BY <1>4, ChainStepIndex DEF ChainStep, PoolInputsKnown
<1>5. ASSUME NEW b \in Block, PoolSetBestChainInner(b) PROVE PoolInputsKnown'
  <2>1. mempool'.mapTx = mempool.mapTx \ BlockTxs(b)
    BY <1>5 DEF PoolSetBestChainInner, remove
  <2>2. DOMAIN db'.txindex = DOMAIN db.txindex \cup BlockTxs(b)
    BY <1>5, InnerIndex DEF PoolSetBestChainInner
  <2> QED BY <2>1, <2>2 DEF PoolInputsKnown
<1>6. CASE PoolRestart
  BY <1>6 DEF PoolRestart, EmptyPool, PoolInputsKnown
<1>7. CASE Reaccepted \/ UNCHANGED poolVars
  BY <1>7 DEF Reaccepted, poolVars, vars, PoolInputsKnown
<1> QED BY <1>2, <1>3, <1>4, <1>5, <1>6, <1>7 DEF PoolNext

(***************************************************************************)
(* Only Reorganize leaves a transaction in the pool whose inputs are       *)
(* neither in the chain nor in the pool.                                   *)
(***************************************************************************)
THEOREM KnownInputsCorrect == PoolSpec => OnlyReorganizeOrphansInputs
<1>1. ControlInv /\ PoolInv /\ [PoolNext]_poolVars =>
        [PoolInputsKnown => PoolInputsKnown' \/ PoolReorganize(WalletTx)]_poolVars
  BY KnownInputsStep
<1>2. PoolSpec => []ControlInv
  BY PoolImplementsChain, ControlCorrect, PTL
<1> QED
  BY <1>1, <1>2, NextTxCorrect, PoolApartCorrect, PTL
  DEF PoolSpec, PoolInv, OnlyReorganizeOrphansInputs

-----------------------------------------------------------------------------
(* What a reorganization does to the pool.                                 *)

LEMMA SelfDescendant ==
    ASSUME NEW S, NEW s \in S PROVE s \in Descendants(S, s)
  BY DEF Descendants

LEMMA MoreDescendants ==
    ASSUME NEW S, NEW W, S \subseteq W, NEW s \in S
    PROVE  Descendants(S, s) \subseteq Descendants(W, s)
<1> SUFFICES ASSUME NEW d \in Descendants(S, s), NEW D \in SUBSET W, s \in D,
                    \A x \in W : (\E o \in vin[x] : o[1] \in D) => x \in D
             PROVE  d \in W /\ d \in D
  BY DEF Descendants
<1>1. /\ D \cap S \in SUBSET S /\ s \in D \cap S
      /\ \A x \in S : (\E o \in vin[x] : o[1] \in D \cap S) => x \in D \cap S
  OBVIOUS
<1>2. d \in S /\ d \in D \cap S
  BY <1>1 DEF Descendants
<1> QED BY <1>2

(* Nothing of C spends an output of the rest of S.                         *)
Closed(S, C) == \A d \in S \cap C : \A o \in vin[d] : o[1] \notin S \ C

LEMMA FewerDescendants ==
    ASSUME NEW S, NEW C, Closed(S, C), NEW s \in S \ C, NEW x \in Descendants(S, s)
    PROVE  x \in S \ C => x \in Descendants(S \ C, s)
<1> SUFFICES ASSUME x \in S \ C, NEW D \in SUBSET (S \ C), s \in D,
                    \A y \in S \ C : (\E o \in vin[y] : o[1] \in D) => y \in D
             PROVE  x \in D
  BY DEF Descendants
<1>1. D \in SUBSET S
  OBVIOUS
<1>2. ASSUME NEW y \in S, NEW o \in vin[y], o[1] \in D PROVE y \in D
  <2>1. y \notin C
    BY <1>2 DEF Closed
  <2> QED BY <1>2, <2>1
<1> QED BY <1>1, <1>2 DEF Descendants

(* Two transactions of a chain that its index describes spend different    *)
(* outputs, and their inputs are indexed.                                  *)
LEMMA ChainCompatible ==
    ASSUME NEW idx, NEW S \in SUBSET Block, Matches(idx, S)
    PROVE  /\ Compatible(TxsOf(S)) /\ TxsOf(S) \subseteq DOMAIN idx
           /\ \A t \in TxsOf(S) : \A o \in vin[t] : o[1] \in DOMAIN idx
<1>1. ASSUME NEW s \in TxsOf(S), NEW t \in TxsOf(S), NEW o \in vin[s] \cap vin[t]
      PROVE  s = t
  <2>1. PICK x \in S : s \in BlockTxs(x)
    BY DEF TxsOf
  <2>2. PICK y \in S : t \in BlockTxs(y)
    BY DEF TxsOf
  <2>3. idx[o[1]].vSpent[o[2]] = <<x, s>> /\ idx[o[1]].vSpent[o[2]] = <<y, t>>
    BY <2>1, <2>2 DEF Matches
  <2> QED BY <2>3, PosLemma
<1>2. ASSUME NEW t \in TxsOf(S), NEW o \in vin[t] PROVE o[1] \in DOMAIN idx
  BY DEF TxsOf, Matches, Indexed
<1>3. TxsOf(S) \subseteq DOMAIN idx
  BY DEF TxsOf, Matches
<1> QED BY <1>1, <1>2, <1>3 DEF Compatible

(* The blocks of a reorganization are parts of the two chains.             *)
LEMMA ForkLemma ==
    ASSUME pindexBest \in Block, pindexIntermediate \in Block
    PROVE  /\ vConnect \subseteq ChainTo(pindexIntermediate)
           /\ vDisconnect \subseteq ChainTo(pindexBest)
           /\ ChainTo(pindexIntermediate) \in SUBSET Block
           /\ ChainTo(pindexBest) \in SUBSET Block
  BY TreeAssumption DEF vConnect, vDisconnect, ChainTo

LEMMA TxsOfLemma ==
    ASSUME NEW A, NEW B, A \subseteq B PROVE TxsOf(A) \subseteq TxsOf(B)
  BY DEF TxsOf

(* Who conflicts with a connected transaction goes, and its descendants.   *)
LEMMA DoomedLemma ==
    ASSUME NEW p, PoolOK(p), NEW C, NEW u \in C, NEW s \in p.mapTx, s # u,
           NEW o \in vin[u] \cap vin[s]
    PROVE  Descendants(p.mapTx, s) \subseteq Doomed(p, C)
<1>1. o \in DOMAIN p.mapNextTx /\ p.mapNextTx[o] = s
  BY DEF PoolOK, Prevouts
<1>2. s \in Conflicts(p, u)
  BY <1>1 DEF Conflicts
<1> QED BY <1>2 DEF Doomed

LEMMA NoConflictStep ==
    ASSUME ControlInv, BatchInv, IndexInv, PoolInv, PoolOK(mempool), Reorganize_Commit,
           NEW R \in Resurrections({}), mempool' = ReorganizedPool({}, R)
    PROVE  /\ Prevouts(mempool'.mapTx) \cap Prevouts(TxsOf(vConnect)) = {}
           /\ skipped = {} =>
                 mempool'.mapTx \cap DoubleSpent(mempool.mapTx \cup R, TxsOf(vConnect)) = {}
<1> DEFINE C == TxsOf(vConnect)
           S == mempool.mapTx \cup R
           p == remove(addUnchecked(addUnchecked(mempool, {}), R), C)
<1>1. PoolOK(mempool) /\ mempool.mapTx \cap DOMAIN db.txindex = {}
  BY DEF PoolInv, PoolNotInChain
<1>2. /\ pindexBest \in Block /\ pindexIntermediate \in Block
      /\ tip = pindexIntermediate /\ pc = "reorganize"
      /\ DOMAIN view.txindex \subseteq (DOMAIN db.txindex \ TxsOf(vDisconnect)) \cup C
  BY CommitLemma
<1>3. /\ PoolOK(p) /\ p.mapTx = S \ C
      /\ mempool'.mapTx = p.mapTx \ Doomed(p, C)
  BY <1>1, <1>2, ReorganizedLemma
<1>4. R \subseteq TxsOf(vDisconnect)
  BY <1>1, <1>2, ResurrectLemma DEF vResurrect
<1> HIDE DEF C, S, p
<1>5. Prevouts(mempool'.mapTx) \cap Prevouts(C) = {}
  <2> SUFFICES ASSUME NEW x \in mempool'.mapTx, NEW u \in C, NEW o \in vin[u] \cap vin[x]
               PROVE  FALSE
    BY DEF Prevouts
  <2>1. x \in p.mapTx /\ x # u /\ x \notin Doomed(p, C)
    BY <1>3
  <2>2. Descendants(p.mapTx, x) \subseteq Doomed(p, C)
    BY <1>3, <2>1, DoomedLemma
  <2> QED BY <2>1, <2>2, SelfDescendant
<1>6. ASSUME skipped = {} PROVE mempool'.mapTx \cap DoubleSpent(S, C) = {}
  <2> SUFFICES ASSUME NEW x \in mempool'.mapTx, NEW s \in S, NEW u \in C, u # s,
                      NEW o \in vin[u] \cap vin[s], x \in Descendants(S, s)
               PROVE  FALSE
    BY DEF DoubleSpent
  <2>1. Matches(view.txindex, ChainTo(pindexIntermediate))
    BY <1>2, <1>6 DEF IndexInv
  <2>2. C \subseteq TxsOf(ChainTo(pindexIntermediate))
    BY <1>2, ForkLemma, TxsOfLemma DEF C
  <2>3. /\ Compatible(TxsOf(ChainTo(pindexIntermediate)))
        /\ \A t \in TxsOf(ChainTo(pindexIntermediate)) : \A q \in vin[t] :
              q[1] \in DOMAIN view.txindex
    BY <1>2, <2>1, ForkLemma, ChainCompatible
  <2>4. s \notin C
    BY <2>2, <2>3 DEF Compatible
  <2>5. Closed(S, C)
    <3> SUFFICES ASSUME NEW d \in C, NEW q \in vin[d], q[1] \in S \ C PROVE FALSE
      BY DEF Closed
    <3>1. q[1] \in DOMAIN view.txindex
      BY <2>2, <2>3
    <3>2. q[1] \in DOMAIN db.txindex \ TxsOf(vDisconnect)
      BY <1>2, <3>1
    <3> QED BY <1>1, <1>4, <3>2 DEF S
  <2>6. x \in p.mapTx /\ x \notin Doomed(p, C)
    BY <1>3
  <2>7. x \in Descendants(p.mapTx, s)
    BY <1>3, <2>4, <2>5, <2>6, FewerDescendants
  <2>8. Descendants(p.mapTx, s) \subseteq Doomed(p, C)
    BY <1>3, <2>4, DoomedLemma
  <2> QED BY <2>6, <2>7, <2>8
<1> QED BY <1>5, <1>6 DEF C, S

LEMMA LosesNothingStep ==
    ASSUME ControlInv, BatchInv, IndexInv, PoolInv, PoolReorganize(WalletTx), ~ raced',
           skipped = {}
    PROVE  LET S == mempool.mapTx \cup vResurrect
           IN  S \ (mempool'.mapTx \cup DOMAIN db'.txindex \cup NonStandard) \subseteq
                   DoubleSpent(S, mempool.mapTx \cup TxsOf(vConnect))
<1> DEFINE S == mempool.mapTx \cup vResurrect
           C == TxsOf(vConnect)
<1>1. PICK R \in Resurrections({}) : mempool' = ReorganizedPool({}, R)
  BY PoolReorganizeLemma DEF PoolInv
<1> DEFINE p == remove(addUnchecked(addUnchecked(mempool, {}), R), C)
<1>2. PoolOK(mempool)
  BY PoolReorganizeLemma DEF PoolInv
<1>3. /\ pindexBest \in Block /\ pindexIntermediate \in Block
      /\ tip = pindexIntermediate /\ pc = "reorganize" /\ db'.txindex = view.txindex
  BY CommitLemma DEF PoolReorganize
<1>4. /\ PoolOK(p) /\ p.mapTx = (mempool.mapTx \cup R) \ C
      /\ mempool'.mapTx = p.mapTx \ Doomed(p, C)
  BY <1>1, <1>2, <1>3, ReorganizedLemma
<1>5. R \subseteq vResurrect
  BY <1>2, <1>3, ResurrectLemma
<1>6. C \subseteq DOMAIN db'.txindex
  <2>1. Matches(view.txindex, ChainTo(pindexIntermediate))
    BY <1>3 DEF IndexInv
  <2>2. TxsOf(ChainTo(pindexIntermediate)) \subseteq DOMAIN view.txindex
    BY <1>3, <2>1, ForkLemma, ChainCompatible
  <2> QED BY <1>3, <2>2, ForkLemma, TxsOfLemma
<1>7. Compatible(vResurrect)
  <2>1. Matches(db.txindex, ChainTo(pindexBest))
    BY <1>3 DEF IndexInv, TxIndexMatchesChain, ControlInv, AtReorganize, DiskBehindMemory
  <2>2. Compatible(TxsOf(ChainTo(pindexBest)))
    BY <1>3, <2>1, ForkLemma, ChainCompatible
  <2>3. vResurrect \subseteq TxsOf(ChainTo(pindexBest))
    BY <1>3, ForkLemma, TxsOfLemma DEF vResurrect
  <2> QED BY <2>2, <2>3 DEF Compatible
<1> HIDE DEF p, C
<1> SUFFICES ASSUME NEW x \in S, x \notin mempool'.mapTx, x \notin DOMAIN db'.txindex,
                    x \notin NonStandard
             PROVE  x \in DoubleSpent(S, mempool.mapTx \cup C)
  BY DEF C
<1>8. CASE x \in mempool.mapTx \cup R
  <2>1. x \in Doomed(p, C)
    BY <1>4, <1>6, <1>8
  <2>2. PICK t \in C : \E c \in Conflicts(p, t) : x \in Descendants(p.mapTx, c)
    BY <2>1 DEF Doomed
  <2>3. PICK c \in Conflicts(p, t) : x \in Descendants(p.mapTx, c)
    BY <2>2
  <2>4. PICK o \in vin[t] \cap DOMAIN p.mapNextTx : c = p.mapNextTx[o] /\ c # t
    BY DEF Conflicts
  <2>5. c \in p.mapTx /\ o \in vin[c]
    BY <1>4, <2>4 DEF PoolOK, Prevouts
  <2>6. p.mapTx \subseteq S
    BY <1>4, <1>5
  <2>7. x \in Descendants(S, c)
    <3> HIDE DEF S
    <3> QED BY <2>3, <2>5, <2>6, MoreDescendants
  <2> QED BY <2>4, <2>5, <2>6, <2>7 DEF DoubleSpent
<1>9. CASE x \notin mempool.mapTx \cup R
  <2>1. x \in vResurrect
    BY <1>9
  <2>2. ~ Acceptable(mempool, x)
    <3> SUFFICES ASSUME Acceptable(mempool, x) PROVE FALSE
      OBVIOUS
    <3>1. PICK s \in R : vin[s] \cap vin[x] # {}
      BY <1>9, <2>1 DEF Resurrections, Resurrectable
    <3> QED BY <1>5, <1>7, <1>9, <2>1, <3>1 DEF Compatible
  <2>3. PICK o \in vin[x] \cap DOMAIN mempool.mapNextTx : TRUE
    BY <1>9, <2>1, <2>2 DEF Acceptable, vResurrect
  <2>4. PICK m \in mempool.mapTx : o \in vin[m]
    BY <1>2, <2>3 DEF PoolOK, Prevouts
  <2>5. m # x /\ x \in Descendants(S, x)
    <3> HIDE DEF S
    <3> QED BY <1>9, <2>4, SelfDescendant
  <2> QED BY <2>3, <2>4, <2>5 DEF DoubleSpent
<1> QED BY <1>8, <1>9

LEMMA PoolSupport == PoolSpec => [](ControlInv /\ BatchInv /\ IndexInv /\ PoolInv)
  BY PoolImplementsChain, ControlCorrect, BatchCorrect, IndexCorrect,
     NextTxCorrect, PoolApartCorrect, PTL DEF PoolInv

(***************************************************************************)
(* After every reorganization no transaction of the pool spends what the   *)
(* connected blocks spend, nor depends on one that does.                   *)
(***************************************************************************)
THEOREM NoConflictCorrect == PoolSpec => ReorganizeLeavesNoConflict
<1>1. ControlInv /\ BatchInv /\ IndexInv /\ PoolInv /\ [PoolNext]_poolVars =>
        [PoolReorganize(WalletTx) /\ ~ raced' =>
            \A R \in Resurrections({}) : mempool' = ReorganizedPool({}, R) =>
            /\ Prevouts(mempool'.mapTx) \cap Prevouts(TxsOf(vConnect)) = {}
            /\ skipped = {} =>
                  mempool'.mapTx
                    \cap DoubleSpent(mempool.mapTx \cup R, TxsOf(vConnect)) = {}
        ]_poolVars
  BY NoConflictStep, PoolReorganizeLemma DEF PoolReorganize, PoolInv
<1> QED BY <1>1, PoolSupport, PTL DEF PoolSpec, ReorganizeLeavesNoConflict

(***************************************************************************)
(* A reorganization loses no standard transaction that nothing spends      *)
(* against.                                                                *)
(***************************************************************************)
THEOREM LosesNothingCorrect == PoolSpec => ReorganizeLosesNothing
<1>1. ControlInv /\ BatchInv /\ IndexInv /\ PoolInv /\ [PoolNext]_poolVars =>
        [PoolReorganize(WalletTx) /\ ~ raced' /\ skipped = {} =>
            LET S == mempool.mapTx \cup vResurrect
            IN  S \ (mempool'.mapTx \cup DOMAIN db'.txindex \cup NonStandard) \subseteq
                    DoubleSpent(S, mempool.mapTx \cup TxsOf(vConnect))]_poolVars
  BY LosesNothingStep
<1> QED BY <1>1, PoolSupport, PTL DEF PoolSpec, ReorganizeLosesNothing

-----------------------------------------------------------------------------
(* The handler of the tx message.                                          *)

(* The handler's queue and its position; nothing is left of a handler that *)
(* has returned.                                                           *)
QueueInv ==
    /\ vWorkQueue \in Seq(Tx)
    /\ i \in 0 .. Len(vWorkQueue)
    /\ Handling => pc = "idle"
    /\ ~ Handling => vWorkQueue = << >> /\ todo = {} /\ vEraseQueue = {}

(* Nothing the handler will erase merely lacks inputs.                     *)
EraseInv ==
    \A o \in vEraseQueue : ~ (Considered(mempool, o) /\ MissingInputs(mempool, o))

(* A held transaction that spends one whose turn has come is to be tried,  *)
(* is to be erased, lacks another input, spends one whose turn comes, or   *)
(* spends one that the start-up thread has added since.                    *)
TriedInv ==
    \A o \in mapOrphanTransactions : \A k \in 1 .. i : vWorkQueue[k] \in Parents(o) =>
        \/ o \in todo \cup vEraseQueue
        \/ MissingInputs(mempool, o)
        \/ \E j \in i + 1 .. Len(vWorkQueue) : vWorkQueue[j] \in Parents(o)
        \/ Parents(o) \cap meanwhile # {}

HandlerInv == QueueInv /\ IndexMatchesOrphans /\ EraseInv /\ TriedInv

(* The two maps of held transactions agree.                                *)
MapsOK(m) ==
    /\ \A o \in m.tx : Parents(o) \subseteq DOMAIN m.byPrev
    /\ \A p \in DOMAIN m.byPrev : m.byPrev[p] = {o \in m.tx : p \in Parents(o)}

LEMMA MapsLemma ==
    /\ IndexMatchesOrphans <=> MapsOK(Held)
    /\ \A m : MapsOK(m) /\ SetMaps(m) => IndexMatchesOrphans'
  BY DEF IndexMatchesOrphans, MapsOK, Held, SetMaps, Parents

LEMMA ByPrevLemma ==
    ASSUME NEW m, MapsOK(m), NEW p
    PROVE  ByPrev(m, p) = {o \in m.tx : p \in Parents(o)}
  BY DEF MapsOK, ByPrev

LEMMA AddOrphanLemma ==
    ASSUME NEW m, MapsOK(m), NEW t
    PROVE  MapsOK(AddOrphanTx(m, t)) /\ m.tx \subseteq AddOrphanTx(m, t).tx
<1>1. CASE t \in m.tx \cup LargeTx
  BY <1>1 DEF AddOrphanTx
<1>2. CASE t \notin m.tx \cup LargeTx
  <2> DEFINE n == AddOrphanTx(m, t)
  <2>1. /\ n.tx = m.tx \cup {t}
        /\ DOMAIN n.byPrev = DOMAIN m.byPrev \cup Parents(t)
        /\ \A p \in DOMAIN n.byPrev : n.byPrev[p] =
              ByPrev(m, p) \cup (IF p \in Parents(t) THEN {t} ELSE {})
    BY <1>2 DEF AddOrphanTx
  <2> HIDE DEF n
  <2>2. \A o \in n.tx : Parents(o) \subseteq DOMAIN n.byPrev
    BY <2>1 DEF MapsOK
  <2>3. ASSUME NEW p \in DOMAIN n.byPrev PROVE n.byPrev[p] = {o \in n.tx : p \in Parents(o)}
    BY <2>1, ByPrevLemma
  <2> QED BY <2>1, <2>2, <2>3 DEF MapsOK, n
<1> QED BY <1>1, <1>2

LEMMA EraseOrphanLemma ==
    ASSUME NEW m, MapsOK(m), NEW S
    PROVE  MapsOK(EraseOrphanTx(m, S)) /\ EraseOrphanTx(m, S).tx = m.tx \ S
<1> DEFINE E == S \cap m.tx
           gone == {p \in UNION {Parents(e) : e \in E} : m.byPrev[p] \subseteq E}
           n == EraseOrphanTx(m, S)
<1>1. /\ n.tx = m.tx \ E
      /\ DOMAIN n.byPrev = DOMAIN m.byPrev \ gone
      /\ \A p \in DOMAIN n.byPrev : n.byPrev[p] = m.byPrev[p] \ E
  BY DEF EraseOrphanTx
<1>2. ASSUME NEW o \in m.tx \ E, NEW p \in Parents(o) PROVE p \in DOMAIN m.byPrev \ gone
  <2>1. p \in DOMAIN m.byPrev /\ o \in m.byPrev[p]
    BY <1>2 DEF MapsOK
  <2> QED BY <1>2, <2>1
<1> HIDE DEF E, gone, n
<1>3. \A o \in n.tx : Parents(o) \subseteq DOMAIN n.byPrev
  BY <1>1, <1>2
<1>4. ASSUME NEW p \in DOMAIN n.byPrev PROVE n.byPrev[p] = {o \in n.tx : p \in Parents(o)}
  BY <1>1 DEF MapsOK
<1>5. n.tx = m.tx \ S
  BY <1>1 DEF E
<1> QED BY <1>3, <1>4, <1>5 DEF MapsOK, n

(* What LimitOrphanTxSize may leave.                                       *)
LEMMA LimitLemma ==
    ASSUME NEW m, MapsOK(m), NEW n, NEW l \in LimitOrphanTxSize(m, n)
    PROVE  /\ MapsOK(l) /\ l.tx \subseteq m.tx
           /\ l.tx # m.tx => Cardinality(l.tx) = n
<1>1. CASE l = m
  BY <1>1
<1>2. CASE l # m
  <2>1. PICK S \in {D \in SUBSET m.tx : Cardinality(m.tx \ D) = n} :
            l = EraseOrphanTx(m, S)
    BY <1>2 DEF LimitOrphanTxSize
  <2>2. MapsOK(l) /\ l.tx = m.tx \ S
    BY <2>1, EraseOrphanLemma
  <2>3. Cardinality(l.tx) = n
    BY <2>1, <2>2, Zenon
  <2> QED BY <2>2, <2>3
<1> QED BY <1>1, <1>2

LEMMA VisitLemma ==
    ASSUME IndexMatchesOrphans, NEW p, Visit(p)
    PROVE  /\ IndexMatchesOrphans'
           /\ todo' = {o \in mapOrphanTransactions : p \in Parents(o)}
           /\ mapOrphanTransactions' = mapOrphanTransactions
<1>1. MapsOK(Held) /\ Held.tx = mapOrphanTransactions
      /\ Held.byPrev = mapOrphanTransactionsByPrev
  BY MapsLemma DEF Held
<1>2. \A q : ByPrev(Held, q) = {o \in mapOrphanTransactions : q \in Parents(o)}
  BY <1>1, ByPrevLemma
<1>3. todo' = {o \in mapOrphanTransactions : p \in Parents(o)}
      /\ mapOrphanTransactions' = mapOrphanTransactions
  BY <1>2 DEF Visit
<1>4. mapOrphanTransactionsByPrev' =
          [q \in DOMAIN mapOrphanTransactionsByPrev \cup {p} |-> ByPrev(Held, q)]
  BY DEF Visit
<1>5. IndexMatchesOrphans'
  BY <1>2, <1>3, <1>4 DEF IndexMatchesOrphans, Parents
<1> QED BY <1>3, <1>5

(* A pool that grows keeps the unacceptable unacceptable and brings no new *)
(* missing input.                                                          *)
LEMMA GrowLemma ==
    ASSUME mempool.mapTx \subseteq mempool'.mapTx, db' = db,
           DOMAIN mempool.mapNextTx \subseteq DOMAIN mempool'.mapNextTx, NEW o
    PROVE  /\ Considered(mempool, o)' => Considered(mempool, o) /\ o \notin mempool'.mapTx
           /\ MissingInputs(mempool, o)' => MissingInputs(mempool, o)
           /\ MissingInputs(mempool, o) =>
                 \/ MissingInputs(mempool, o)'
                 \/ Parents(o) \cap (mempool'.mapTx \ mempool.mapTx) # {}
<1>1. Considered(mempool, o)' => Considered(mempool, o) /\ o \notin mempool'.mapTx
  BY DEF Considered, Acceptable, IsGenerated
<1>2. /\ MissingInputs(mempool, o)' => MissingInputs(mempool, o)
      /\ MissingInputs(mempool, o) =>
            \/ MissingInputs(mempool, o)'
            \/ Parents(o) \cap (mempool'.mapTx \ mempool.mapTx) # {}
  BY DEF MissingInputs, Parents
<1> QED BY <1>1, <1>2

LEMMA AddGrows ==
    ASSUME NEW p, NEW S
    PROVE  /\ addUnchecked(p, S).mapTx = p.mapTx \cup S
           /\ DOMAIN p.mapNextTx \subseteq DOMAIN addUnchecked(p, S).mapNextTx
  BY DEF addUnchecked

LEMMA AcceptGrows ==
    ASSUME NEW t, AddChecked(WalletTx, t)
    PROVE  /\ mempool.mapTx \subseteq mempool'.mapTx /\ t \in mempool'.mapTx
           /\ DOMAIN mempool.mapNextTx \subseteq DOMAIN mempool'.mapNextTx
<1>1. PICK W : mempool' = addUnchecked(addUnchecked(mempool, W), {t})
  BY DEF AddChecked
<1> DEFINE q == addUnchecked(mempool, W)
<1>2. /\ q.mapTx = mempool.mapTx \cup W
      /\ DOMAIN mempool.mapNextTx \subseteq DOMAIN q.mapNextTx
  BY AddGrows
<1> HIDE DEF q
<1>3. /\ mempool'.mapTx = q.mapTx \cup {t}
      /\ DOMAIN q.mapNextTx \subseteq DOMAIN mempool'.mapNextTx
  BY <1>1, AddGrows DEF q
<1> QED BY <1>2, <1>3

LEMMA OutcomeLemma ==
    ASSUME NEW t
    PROVE  Outcome(mempool, t) = "missing" <=>
              Considered(mempool, t) /\ MissingInputs(mempool, t)
  BY DEF Outcome

LEMMA MessageStep ==
    ASSUME HandlerInv, NEW t \in Tx, TxMessage(t) PROVE HandlerInv'
<1>1. /\ vWorkQueue' = <<t>> /\ i' = 1 /\ vEraseQueue' = {t} /\ db' = db /\ pc' = "idle"
  BY DEF TxMessage, vars, locals
<1>2. /\ IndexMatchesOrphans'
      /\ todo' = {o \in mapOrphanTransactions : t \in Parents(o)}
      /\ mapOrphanTransactions' = mapOrphanTransactions
  BY VisitLemma DEF TxMessage, HandlerInv
<1>3. <<t>> \in Seq(Tx) /\ Len(<<t>>) = 1 /\ <<t>>[1] = t
  OBVIOUS
<1>4. QueueInv'
  BY <1>1, <1>3 DEF QueueInv, Handling
<1>5. EraseInv'
  <2>1. /\ mempool.mapTx \subseteq mempool'.mapTx /\ t \in mempool'.mapTx
        /\ DOMAIN mempool.mapNextTx \subseteq DOMAIN mempool'.mapNextTx
    BY AcceptGrows DEF TxMessage
  <2>2. ~ Considered(mempool, t)'
    BY <1>1, <2>1, GrowLemma
  <2> QED BY <1>1, <2>2 DEF EraseInv
<1>6. TriedInv'
  BY <1>1, <1>2, <1>3 DEF TriedInv, Parents
<1> QED BY <1>2, <1>4, <1>5, <1>6 DEF HandlerInv

LEMMA MissingStep ==
    ASSUME HandlerInv, NEW t \in Tx, TxMessage_Missing(t)
    PROVE  /\ HandlerInv'
           /\ mapOrphanTransactions \subseteq mapOrphanTransactions'
                \/ Cardinality(mapOrphanTransactions') = MAX_ORPHAN_TRANSACTIONS
<1> DEFINE a == AddOrphanTx(Held, t)
<1>1. i = 0 /\ vEraseQueue = {} /\ UNCHANGED <<handler, pc>>
  BY DEF TxMessage_Missing, HandlerInv, QueueInv, Handling, handler, poolVars, vars, locals
<1>2. MapsOK(a) /\ mapOrphanTransactions \subseteq a.tx
  BY MapsLemma, AddOrphanLemma DEF HandlerInv, Held
<1> HIDE DEF a
<1>3. PICK m \in LimitOrphanTxSize(a, MAX_ORPHAN_TRANSACTIONS) : SetMaps(m)
  BY DEF TxMessage_Missing, a
<1>4. /\ MapsOK(m) /\ m.tx \subseteq a.tx
      /\ m.tx # a.tx => Cardinality(m.tx) = MAX_ORPHAN_TRANSACTIONS
  BY <1>2, LimitLemma
<1>5. mapOrphanTransactions' = m.tx
  BY <1>3 DEF SetMaps
<1>6. IndexMatchesOrphans'
  BY <1>3, <1>4, MapsLemma
<1>7. QueueInv' /\ EraseInv' /\ TriedInv'
  BY <1>1 DEF HandlerInv, QueueInv, EraseInv, TriedInv, handler, Handling
<1> QED BY <1>2, <1>4, <1>5, <1>6, <1>7 DEF HandlerInv

(* A held transaction that spends one of the queue's first i is still      *)
(* accounted for when the pool grows, by t and by what the start-up thread *)
(* adds, and t joins the queue.                                            *)
LEMMA AcceptedStep ==
    ASSUME HandlerInv, NEW t \in Tx, t \in todo, todo' = todo \ {t},
           mempool.mapTx \subseteq mempool'.mapTx, t \in mempool'.mapTx,
           DOMAIN mempool.mapNextTx \subseteq DOMAIN mempool'.mapNextTx,
           meanwhile' = meanwhile \cup (mempool'.mapTx \ (mempool.mapTx \cup {t})),
           db' = db, pc' = pc, i' = i,
           vWorkQueue' = Append(vWorkQueue, t), vEraseQueue' = vEraseQueue \cup {t},
           UNCHANGED orphanMaps
    PROVE  HandlerInv'
<1>1. Handling /\ vWorkQueue \in Seq(Tx) /\ i \in 0 .. Len(vWorkQueue) /\ i > 0
      /\ pc = "idle"
  BY DEF HandlerInv, QueueInv, Handling
<1>2. /\ vWorkQueue' \in Seq(Tx) /\ Len(vWorkQueue') = Len(vWorkQueue) + 1
      /\ vWorkQueue'[Len(vWorkQueue) + 1] = t
      /\ \A k \in 1 .. Len(vWorkQueue) : vWorkQueue'[k] = vWorkQueue[k]
      /\ Len(vWorkQueue) \in Nat
  BY <1>1
<1>3. QueueInv'
  BY <1>1, <1>2 DEF QueueInv, Handling
<1>4. IndexMatchesOrphans'
  BY DEF HandlerInv, IndexMatchesOrphans, orphanMaps, Parents
<1>5. EraseInv'
  BY GrowLemma DEF HandlerInv, EraseInv
<1>6. TriedInv'
  <2>0. /\ \A k \in 1 .. i : vWorkQueue'[k] = vWorkQueue[k]
        /\ mapOrphanTransactions' = mapOrphanTransactions
    BY <1>1, <1>2 DEF orphanMaps
  <2> SUFFICES ASSUME NEW o \in mapOrphanTransactions, NEW k \in 1 .. i,
                      vWorkQueue[k] \in Parents(o)
               PROVE  \/ o \in todo' \cup vEraseQueue'
                      \/ MissingInputs(mempool, o)'
                      \/ \E j \in i + 1 .. Len(vWorkQueue') : vWorkQueue'[j] \in Parents(o)
                      \/ Parents(o) \cap meanwhile' # {}
    BY <2>0 DEF TriedInv, Parents
  <2>1. \/ o \in todo \cup vEraseQueue
        \/ MissingInputs(mempool, o)
        \/ \E j \in i + 1 .. Len(vWorkQueue) : vWorkQueue[j] \in Parents(o)
        \/ Parents(o) \cap meanwhile # {}
    BY DEF HandlerInv, TriedInv
  <2>2. CASE o \in todo \cup vEraseQueue
    BY <2>2
  <2>3. CASE MissingInputs(mempool, o)
    <3>1. \/ MissingInputs(mempool, o)' \/ t \in Parents(o)
          \/ Parents(o) \cap meanwhile' # {}
      BY <2>3, GrowLemma
    <3>2. Len(vWorkQueue) + 1 \in i + 1 .. Len(vWorkQueue')
      BY <1>1, <1>2
    <3> QED BY <1>2, <3>1, <3>2
  <2>4. CASE \E j \in i + 1 .. Len(vWorkQueue) : vWorkQueue[j] \in Parents(o)
    <3>1. PICK j \in i + 1 .. Len(vWorkQueue) : vWorkQueue[j] \in Parents(o)
      BY <2>4
    <3>2. /\ j \in i + 1 .. Len(vWorkQueue') /\ vWorkQueue'[j] = vWorkQueue[j]
      BY <1>1, <1>2
    <3> QED BY <3>1, <3>2
  <2>5. CASE Parents(o) \cap meanwhile # {}
    BY <2>5
  <2> QED BY <2>1, <2>2, <2>3, <2>4, <2>5
<1> QED BY <1>3, <1>4, <1>5, <1>6 DEF HandlerInv

LEMMA TryStep ==
    ASSUME HandlerInv, NEW t \in Tx, TryOrphan(t) PROVE HandlerInv'
<1>1. t \in todo /\ todo' = todo \ {t} /\ UNCHANGED <<vars, orphanMaps, i>>
  BY DEF TryOrphan
<1>2. UNCHANGED <<db, pc>>
  BY <1>1 DEF vars, locals
<1>3. ASSUME AddChecked(WalletTx, t), vWorkQueue' = Append(vWorkQueue, t),
             vEraseQueue' = vEraseQueue \cup {t},
             meanwhile' = meanwhile \cup (mempool'.mapTx \ (mempool.mapTx \cup {t}))
      PROVE  HandlerInv'
  BY <1>1, <1>2, <1>3, AcceptGrows, AcceptedStep
<1>4. ASSUME UNCHANGED <<mempool, vWorkQueue, meanwhile>>,
             \/ vEraseQueue' = vEraseQueue \cup {t} /\ Outcome(mempool, t) = "refused"
             \/ vEraseQueue' = vEraseQueue /\ Outcome(mempool, t) = "missing"
      PROVE  HandlerInv'
  <2>1. i > 0 /\ UNCHANGED <<mapOrphanTransactions, mapOrphanTransactionsByPrev>>
    BY <1>1 DEF HandlerInv, QueueInv, Handling, orphanMaps
  <2>2. QueueInv'
    BY <1>1, <1>2, <1>4, <2>1 DEF HandlerInv, QueueInv, Handling
  <2>3. IndexMatchesOrphans'
    BY <2>1 DEF HandlerInv, IndexMatchesOrphans, Parents
  <2>4. \A o : /\ Considered(mempool, o)' <=> Considered(mempool, o)
               /\ MissingInputs(mempool, o)' <=> MissingInputs(mempool, o)
    BY <1>2, <1>4 DEF Considered, MissingInputs, Acceptable, IsGenerated, Parents
  <2>5. EraseInv'
    BY <1>4, <2>4, OutcomeLemma DEF HandlerInv, EraseInv
  <2>6. vEraseQueue' = vEraseQueue \cup {t} \/ MissingInputs(mempool, t)
    BY <1>4, OutcomeLemma
  <2>7. TriedInv'
    BY <1>1, <1>4, <2>1, <2>4, <2>6 DEF HandlerInv, TriedInv, Parents
  <2> QED BY <2>2, <2>3, <2>5, <2>7 DEF HandlerInv
<1> QED BY <1>3, <1>4 DEF TryOrphan

LEMMA NextPrevStep ==
    ASSUME HandlerInv, NextPrev PROVE HandlerInv'
<1>1. /\ Handling /\ todo = {} /\ i < Len(vWorkQueue) /\ i' = i + 1
      /\ UNCHANGED <<vWorkQueue, vEraseQueue, mempool, meanwhile, db, pc>>
  BY DEF NextPrev, poolVars, vars, locals
<1>2. /\ IndexMatchesOrphans'
      /\ todo' = {o \in mapOrphanTransactions : vWorkQueue[i + 1] \in Parents(o)}
      /\ mapOrphanTransactions' = mapOrphanTransactions
  BY VisitLemma DEF NextPrev, HandlerInv
<1>3. i \in Nat /\ Len(vWorkQueue) \in Nat
  BY DEF HandlerInv, QueueInv
<1>4. QueueInv'
  BY <1>1, <1>3 DEF HandlerInv, QueueInv, Handling
<1>5. EraseInv'
  BY <1>1 DEF HandlerInv, EraseInv, Considered, MissingInputs, Acceptable, IsGenerated,
              Parents
<1>6. TriedInv'
  <2> SUFFICES ASSUME NEW o \in mapOrphanTransactions, NEW k \in 1 .. i + 1,
                      vWorkQueue[k] \in Parents(o), o \notin todo', o \notin vEraseQueue,
                      ~ MissingInputs(mempool, o), Parents(o) \cap meanwhile = {}
               PROVE  \E j \in i + 2 .. Len(vWorkQueue) : vWorkQueue[j] \in Parents(o)
    BY <1>1, <1>2, <1>3 DEF TriedInv, MissingInputs, Parents
  <2>1. vWorkQueue[i + 1] \notin Parents(o)
    BY <1>2
  <2>2. k \in 1 .. i
    BY <1>3, <2>1
  <2>3. PICK j \in i + 1 .. Len(vWorkQueue) : vWorkQueue[j] \in Parents(o)
    BY <1>1, <2>2 DEF HandlerInv, TriedInv
  <2>4. j \in i + 2 .. Len(vWorkQueue)
    BY <1>3, <2>1, <2>3
  <2> QED BY <2>3, <2>4
<1> QED BY <1>2, <1>4, <1>5, <1>6 DEF HandlerInv

LEMMA EraseStep ==
    ASSUME HandlerInv, EraseOrphans
    PROVE  HandlerInv' /\ mapOrphanTransactions' = mapOrphanTransactions \ vEraseQueue
<1>1. /\ vWorkQueue' = << >> /\ i' = 0 /\ todo' = {} /\ vEraseQueue' = {}
      /\ SetMaps(EraseOrphanTx(Held, vEraseQueue))
  BY DEF EraseOrphans
<1>2. /\ MapsOK(EraseOrphanTx(Held, vEraseQueue))
      /\ EraseOrphanTx(Held, vEraseQueue).tx = mapOrphanTransactions \ vEraseQueue
  BY MapsLemma, EraseOrphanLemma DEF HandlerInv, Held
<1>3. IndexMatchesOrphans' /\ mapOrphanTransactions' = mapOrphanTransactions \ vEraseQueue
  BY <1>1, <1>2, MapsLemma DEF SetMaps
<1>4. << >> \in Seq(Tx) /\ Len(<< >>) = 0
  OBVIOUS
<1>5. QueueInv'
  BY <1>1, <1>4 DEF QueueInv, Handling
<1>6. EraseInv' /\ TriedInv'
  BY <1>1 DEF EraseInv, TriedInv
<1> QED BY <1>3, <1>5, <1>6 DEF HandlerInv

LEMMA HandlerInit == RelayInit => HandlerInv
<1> SUFFICES ASSUME RelayInit PROVE HandlerInv
  OBVIOUS
<1>1. << >> \in Seq(Tx) /\ Len(<< >>) = 0 /\ DOMAIN << >> = {}
  OBVIOUS
<1>2. QueueInv /\ EraseInv /\ TriedInv
  BY <1>1 DEF RelayInit, QueueInv, EraseInv, TriedInv, Handling
<1>3. IndexMatchesOrphans
  BY <1>1 DEF RelayInit, IndexMatchesOrphans
<1> QED BY <1>2, <1>3 DEF HandlerInv

(* Outside the handler, nothing of its state but the pool changes.         *)
LEMMA OutsideStep ==
    ASSUME HandlerInv, ~ Handling, UNCHANGED <<orphanMaps, handler>> PROVE HandlerInv'
<1>1. i = 0 /\ i' = 0 /\ vEraseQueue' = {} /\ vWorkQueue' = << >> /\ todo' = {}
  BY DEF HandlerInv, QueueInv, Handling, handler
<1>2. << >> \in Seq(Tx) /\ Len(<< >>) = 0
  OBVIOUS
<1>3. QueueInv' /\ EraseInv' /\ TriedInv'
  BY <1>1, <1>2 DEF QueueInv, EraseInv, TriedInv, Handling
<1>4. IndexMatchesOrphans'
  BY DEF HandlerInv, IndexMatchesOrphans, orphanMaps, Parents
<1> QED BY <1>3, <1>4 DEF HandlerInv

(* The start-up thread.                                                    *)
LEMMA StartUpStep ==
    ASSUME HandlerInv, StartUp PROVE HandlerInv'
<1>1. UNCHANGED <<db, pc, orphanMaps, handler>>
  BY DEF StartUp, AcceptWalletTransaction, Reaccepted, vars, locals
<1>2. CASE ~ Handling
  BY <1>1, <1>2, OutsideStep
<1>3. CASE Handling
  <2>1. /\ mempool.mapTx \subseteq mempool'.mapTx
        /\ DOMAIN mempool.mapNextTx \subseteq DOMAIN mempool'.mapNextTx
        /\ meanwhile' = meanwhile \cup (mempool'.mapTx \ mempool.mapTx)
    <3>1. ASSUME NEW t \in WalletTx, AcceptWalletTransaction(t),
                 meanwhile' = meanwhile \cup {t}
          PROVE  /\ mempool.mapTx \subseteq mempool'.mapTx
                 /\ DOMAIN mempool.mapNextTx \subseteq DOMAIN mempool'.mapNextTx
                 /\ meanwhile' = meanwhile \cup (mempool'.mapTx \ mempool.mapTx)
      <4>1. t \notin mempool.mapTx /\ mempool' = addUnchecked(mempool, {t})
        BY <3>1 DEF AcceptWalletTransaction, Considered, Acceptable
      <4>2. /\ mempool'.mapTx = mempool.mapTx \cup {t}
            /\ DOMAIN mempool.mapNextTx \subseteq DOMAIN mempool'.mapNextTx
        BY <4>1, AddGrows
      <4> QED BY <3>1, <4>1, <4>2
    <3>2. ASSUME Reaccepted, UNCHANGED meanwhile
          PROVE  /\ mempool.mapTx \subseteq mempool'.mapTx
                 /\ DOMAIN mempool.mapNextTx \subseteq DOMAIN mempool'.mapNextTx
                 /\ meanwhile' = meanwhile \cup (mempool'.mapTx \ mempool.mapTx)
      BY <3>2 DEF Reaccepted
    <3>3. \/ \E t \in WalletTx : AcceptWalletTransaction(t) /\ meanwhile' = meanwhile \cup {t}
          \/ Reaccepted /\ UNCHANGED meanwhile
      BY <1>3 DEF StartUp
    <3> QED BY <3>1, <3>2, <3>3
  <2>2. UNCHANGED <<mapOrphanTransactions, mapOrphanTransactionsByPrev,
                    vWorkQueue, i, todo, vEraseQueue>>
    BY <1>1 DEF orphanMaps, handler
  <2>3. QueueInv'
    BY <1>1, <2>2 DEF HandlerInv, QueueInv, Handling
  <2>4. IndexMatchesOrphans'
    BY <2>2 DEF HandlerInv, IndexMatchesOrphans, Parents
  <2>5. EraseInv'
    BY <1>1, <2>1, <2>2, GrowLemma DEF HandlerInv, EraseInv
  <2>6. TriedInv'
    <3> SUFFICES ASSUME NEW o \in mapOrphanTransactions, NEW k \in 1 .. i,
                        vWorkQueue[k] \in Parents(o)
                 PROVE  \/ o \in todo \cup vEraseQueue
                        \/ MissingInputs(mempool, o)'
                        \/ \E j \in i + 1 .. Len(vWorkQueue) : vWorkQueue[j] \in Parents(o)
                        \/ Parents(o) \cap meanwhile' # {}
      BY <2>2 DEF TriedInv, Parents
    <3>1. \/ o \in todo \cup vEraseQueue
          \/ MissingInputs(mempool, o)
          \/ \E j \in i + 1 .. Len(vWorkQueue) : vWorkQueue[j] \in Parents(o)
          \/ Parents(o) \cap meanwhile # {}
      BY DEF HandlerInv, TriedInv
    <3>2. MissingInputs(mempool, o) =>
            MissingInputs(mempool, o)' \/ Parents(o) \cap meanwhile' # {}
      BY <1>1, <2>1, GrowLemma
    <3>3. Parents(o) \cap meanwhile # {} => Parents(o) \cap meanwhile' # {}
      BY <2>1
    <3> QED BY <3>1, <3>2, <3>3
  <2> QED BY <2>3, <2>4, <2>5, <2>6 DEF HandlerInv
<1> QED BY <1>2, <1>3

LEMMA RestartStep == RelayRestart => HandlerInv'
<1> SUFFICES ASSUME RelayRestart PROVE HandlerInv'
  OBVIOUS
<1>1. << >> \in Seq(Tx) /\ Len(<< >>) = 0 /\ DOMAIN << >> = {}
  OBVIOUS
<1>2. QueueInv' /\ EraseInv' /\ TriedInv'
  BY <1>1 DEF RelayRestart, QueueInv, EraseInv, TriedInv, Handling
<1>3. IndexMatchesOrphans'
  BY <1>1 DEF RelayRestart, SetMaps, IndexMatchesOrphans
<1> QED BY <1>2, <1>3 DEF HandlerInv

LEMMA HandlerNext == HandlerInv /\ [RelayNext]_relayVars => HandlerInv'
<1> SUFFICES ASSUME HandlerInv, [RelayNext]_relayVars PROVE HandlerInv'
  OBVIOUS
<1>1. ASSUME NEW t \in Tx, TxMessage(t) \/ TxMessage_Missing(t) \/ TryOrphan(t)
      PROVE  HandlerInv'
  BY <1>1, MessageStep, MissingStep, TryStep
<1>2. CASE NextPrev
  BY <1>2, NextPrevStep
<1>3. CASE EraseOrphans
  BY <1>3, EraseStep
<1>4. CASE Elsewhere
  BY <1>4, OutsideStep DEF Elsewhere
<1>5. CASE RelayRestart
  BY <1>5, RestartStep
<1>6. CASE StartUp
  BY <1>6, StartUpStep
<1>7. CASE UNCHANGED relayVars
  BY <1>7 DEF relayVars, poolVars, vars, locals, orphanMaps, handler, HandlerInv, QueueInv,
              Handling, IndexMatchesOrphans, Parents, EraseInv, TriedInv, Considered,
              MissingInputs, Acceptable, IsGenerated
<1> QED BY <1>1, <1>2, <1>3, <1>4, <1>5, <1>6, <1>7 DEF RelayNext

LEMMA HandlerCorrect == RelaySpec => []HandlerInv
  BY HandlerInit, HandlerNext, PTL DEF RelaySpec

(***************************************************************************)
(* The index by parent lists each held transaction under each of its       *)
(* parents and nothing else, whatever limit evicts and whatever order the  *)
(* transactions come in.                                                   *)
(***************************************************************************)
THEOREM OrphanIndexCorrect == RelaySpec => []IndexMatchesOrphans
  BY HandlerCorrect, PTL DEF HandlerInv

(***************************************************************************)
(* When the handler returns, every transaction still held that spends one  *)
(* it accepted lacks another input, or spends one that the start-up thread *)
(* added meanwhile: the work queue reaches every generation, for any       *)
(* number of held transactions.                                            *)
(***************************************************************************)
THEOREM NoneReadyCorrect == RelaySpec => HandlerLeavesNoneReady
<1>1. ASSUME HandlerInv, EraseOrphans, NEW o \in mapOrphanTransactions',
             Parents(o) \cap {vWorkQueue[k] : k \in DOMAIN vWorkQueue} # {}
      PROVE  MissingInputs(mempool, o) \/ Parents(o) \cap meanwhile # {}
  <2>1. o \in mapOrphanTransactions /\ o \notin vEraseQueue
    BY <1>1, EraseStep
  <2>2. todo = {} /\ i = Len(vWorkQueue) /\ vWorkQueue \in Seq(Tx)
    BY <1>1 DEF EraseOrphans, HandlerInv, QueueInv
  <2>3. PICK k \in 1 .. i : vWorkQueue[k] \in Parents(o)
    BY <1>1, <2>2
  <2> QED BY <1>1, <2>1, <2>2, <2>3 DEF HandlerInv, TriedInv
<1>2. HandlerInv /\ [RelayNext]_relayVars =>
        [EraseOrphans =>
            \A o \in mapOrphanTransactions' :
                Parents(o) \cap {vWorkQueue[k] : k \in DOMAIN vWorkQueue} # {} =>
                    MissingInputs(mempool, o) \/ Parents(o) \cap meanwhile # {}]_relayVars
  BY <1>1
<1> QED BY <1>2, HandlerCorrect, PTL DEF RelaySpec, HandlerLeavesNoneReady

LEMMA KeptStep ==
    ASSUME HandlerInv, [RelayNext]_relayVars,
           NEW o \in mapOrphanTransactions \ mapOrphanTransactions'
    PROVE  \/ EraseOrphans /\ Outcome(mempool, o) # "missing"
           \/ Cardinality(mapOrphanTransactions') = MAX_ORPHAN_TRANSACTIONS
           \/ RelayRestart
<1>1. ASSUME NEW t \in Tx, TxMessage(t) PROVE FALSE
  BY <1>1 DEF TxMessage, Visit
<1>2. ASSUME NEW t \in Tx, TryOrphan(t) PROVE FALSE
  BY <1>2 DEF TryOrphan, orphanMaps
<1>3. ASSUME NEW t \in Tx, TxMessage_Missing(t)
      PROVE  Cardinality(mapOrphanTransactions') = MAX_ORPHAN_TRANSACTIONS
  BY <1>3, MissingStep
<1>4. ASSUME NextPrev PROVE FALSE
  BY <1>4 DEF NextPrev, Visit
<1>5. ASSUME EraseOrphans PROVE Outcome(mempool, o) # "missing"
  <2>1. o \in vEraseQueue
    BY <1>5, EraseStep
  <2> QED BY <2>1, OutcomeLemma DEF HandlerInv, EraseInv
<1>6. ASSUME Elsewhere \/ StartUp PROVE FALSE
  BY <1>6 DEF Elsewhere, StartUp, orphanMaps
<1>7. ASSUME UNCHANGED relayVars PROVE FALSE
  BY <1>7 DEF relayVars, orphanMaps
<1> QED BY <1>1, <1>2, <1>3, <1>4, <1>5, <1>6, <1>7 DEF RelayNext

(***************************************************************************)
(* A held transaction is given up only when it was found accepted or       *)
(* unacceptable, by the limit, or at a restart.                            *)
(***************************************************************************)
THEOREM OrphansKeptCorrect == RelaySpec => OrphansAreKept
<1>1. HandlerInv /\ [RelayNext]_relayVars =>
        [\A o \in mapOrphanTransactions \ mapOrphanTransactions' :
            \/ EraseOrphans /\ Outcome(mempool, o) # "missing"
            \/ Cardinality(mapOrphanTransactions') = MAX_ORPHAN_TRANSACTIONS
            \/ RelayRestart]_relayVars
  BY KeptStep
<1> QED BY <1>1, HandlerCorrect, PTL DEF RelaySpec, OrphansAreKept

-----------------------------------------------------------------------------
(* The handler's steps are steps of the pool.                              *)

LEMMA RelayStepIsPoolStep == HandlerInv /\ [RelayNext]_relayVars => [PoolNext]_poolVars
<1> SUFFICES ASSUME HandlerInv, [RelayNext]_relayVars PROVE [PoolNext]_poolVars
  OBVIOUS
<1>1. ASSUME NEW t \in Tx, pc = "idle", Considered(mempool, t), AddChecked(WalletTx, t),
             UNCHANGED vars
      PROVE  accept(t)
  BY <1>1 DEF accept
<1>2. ASSUME NEW t \in Tx, TxMessage(t) PROVE [PoolNext]_poolVars
  BY <1>1, <1>2 DEF TxMessage, PoolNext
<1>3. ASSUME NEW t \in Tx, TryOrphan(t) PROVE [PoolNext]_poolVars
  <2>1. pc = "idle" /\ UNCHANGED vars
    BY <1>3 DEF TryOrphan, HandlerInv, QueueInv
  <2>2. CASE Considered(mempool, t) /\ AddChecked(WalletTx, t)
    BY <1>1, <2>1, <2>2 DEF PoolNext
  <2>3. CASE UNCHANGED <<mempool, fReaccept, raced>>
    BY <2>1, <2>3 DEF poolVars
  <2> QED BY <1>3, <2>2, <2>3 DEF TryOrphan
<1>4. ASSUME (\E t \in Tx : TxMessage_Missing(t)) \/ NextPrev \/ EraseOrphans
      PROVE  UNCHANGED poolVars
  BY <1>4 DEF TxMessage_Missing, NextPrev, EraseOrphans
<1>5. CASE Elsewhere
  BY <1>5 DEF Elsewhere, PoolNext
<1>6. CASE RelayRestart \/ StartUp
  BY <1>6 DEF RelayRestart, StartUp, PoolNext
<1>7. CASE UNCHANGED relayVars
  BY <1>7 DEF relayVars
<1> QED BY <1>2, <1>3, <1>4, <1>5, <1>6, <1>7 DEF RelayNext

(***************************************************************************)
(* The handler of the tx message changes the pool only by what accept      *)
(* does between two blocks, and the start-up thread only as in PoolSpec:   *)
(* everything proved of PoolSpec, and of Chain, holds of RelaySpec.        *)
(***************************************************************************)
THEOREM RelayImplementsPool == RelaySpec => PoolSpec
<1>1. RelayInit => PoolInit
  BY DEF RelayInit
<1> QED BY <1>1, RelayStepIsPoolStep, HandlerCorrect, PTL DEF RelaySpec, PoolSpec

(***************************************************************************)
(* The properties of the pool, under the specification the runs use.       *)
(***************************************************************************)
THEOREM RelayPoolCorrect ==
    RelaySpec => /\ [](NextTxMatchesPool /\ PoolNotInChain)
                 /\ ReorganizeLeavesNoConflict
                 /\ ReorganizeLosesNothing
                 /\ OnlyReorganizeOrphansInputs
  BY RelayImplementsPool, NextTxCorrect, PoolApartCorrect, NoConflictCorrect,
     LosesNothingCorrect, KnownInputsCorrect, PTL
=============================================================================
