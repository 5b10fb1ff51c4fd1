------------------------------ MODULE MemPool ------------------------------
(***************************************************************************)
(* The memory pool (CTxMemPool) beside the block chain: what accept lets   *)
(* in, and what SetBestChainInner and Reorganize take out and put back.    *)
(*                                                                         *)
(* Two threads use it.  One has cs_main: it accepts a transaction between  *)
(* two blocks, and its part of a chain step happens in that step.  The     *)
(* other is the start-up thread: ReacceptWalletTransactions runs after the *)
(* node's threads have been started and without cs_main.  It has           *)
(* mempool.cs from its checks to addUnchecked; the first thread has not,   *)
(* so that the other's additions may come between its check of mapNextTx   *)
(* and its addUnchecked (Overtaking).                                      *)
(***************************************************************************)
EXTENDS Chain

CONSTANTS
    NonStandard,    \* transactions IsStandard refuses, fine in a block
    WalletTx        \* transactions in the wallet when the node starts

ASSUME MemPoolAssumption == WalletTx \subseteq Tx

VARIABLES
    mempool,        \* the fields mapTx and mapNextTx
    fReaccept,      \* the start-up thread is in ReacceptWalletTransactions
    raced           \* history: it has put a transaction into this pool
                    \* between a check of mapNextTx and an addUnchecked

poolVars == <<vars, mempool, fReaccept, raced>>

-----------------------------------------------------------------------------
(* The operations of CTxMemPool, on the pool p and a set of transactions.  *)

EmptyPool == [mapTx |-> {}, mapNextTx |-> << >>]

Prevouts(S) == UNION {vin[t] : t \in S}

addUnchecked(p, S) ==
    [mapTx |-> p.mapTx \cup S,
     mapNextTx |-> [o \in DOMAIN p.mapNextTx \cup Prevouts(S) |->
         IF o \in Prevouts(S) THEN CHOOSE t \in S : o \in vin[t] ELSE p.mapNextTx[o]]]

(* Mutant: the entries of mapNextTx stay.                                  *)
remove_KeepsNext(p, S) == [p EXCEPT !.mapTx = @ \ S]

remove(p, S) ==
    [mapTx |-> p.mapTx \ S,
     mapNextTx |-> [o \in DOMAIN p.mapNextTx \ Prevouts(S \cap p.mapTx) |->
                        p.mapNextTx[o]]]

(* The transactions of S that spend outputs of t, of those, and so on: the *)
(* least set with t that is closed under mapNextTx.  (In a pool that has   *)
(* been raced, mapNextTx may not lead to all of them.)                     *)
Descendants(S, t) ==
    {d \in S : \A D \in SUBSET S :
        /\ t \in D
        /\ \A s \in S : (\E o \in vin[s] : o[1] \in D) => s \in D
        => d \in D}

(* The pool transactions that spend an input of t.                         *)
Conflicts(p, t) == {p.mapNextTx[o] : o \in vin[t] \cap DOMAIN p.mapNextTx} \ {t}

(* Mutant: only the conflicting transactions, not what depends on them.    *)
removeConflicts_NotRecursive(p, S) ==
    remove(p, UNION {Conflicts(p, t) : t \in S})

(* removeConflicts for the transactions of a chain; remove is recursive.   *)
removeConflicts(p, S) ==
    remove(p, UNION {Descendants(p.mapTx, c) : c \in UNION {Conflicts(p, t) : t \in S}})

-----------------------------------------------------------------------------
(* accept.                                                                 *)

(* The checks accept makes for every caller.  (Fees, sizes, signatures and *)
(* the rate limiter only refuse more; a refused transaction changes        *)
(* nothing.)                                                               *)
Acceptable(p, t) ==
    /\ ~ IsGenerated(t)
    /\ t \notin NonStandard
    /\ t \notin p.mapTx
    /\ vin[t] \cap DOMAIN p.mapNextTx = {}

(* The tests that come before FetchInputs.                                 *)
Considered(p, t) == Acceptable(p, t) /\ t \notin DOMAIN db.txindex

(* FetchInputs outside a block: the index idx first, then the pool K.      *)
FetchPoolInputs(idx, K, t) ==
    \A o \in vin[t] :
        IF o[1] \in DOMAIN idx
        THEN o[2] \in DOMAIN idx[o[1]].vSpent
        ELSE o[1] \in K /\ o[2] \in 0 .. nOut[o[1]] - 1

(* ConnectInputs outside a block, as of the best block.                    *)
ConnectPoolInputs(idx, t) ==
    \A o \in vin[t] : o[1] \in DOMAIN idx =>
        /\ Mature(o[1], idx[o[1]].pos[1], pindexBest)
        /\ idx[o[1]].vSpent[o[2]] = NullPos

(* Mutant: the inputs are not looked for.                                  *)
Passes_NoFetch(idx, K, t) == ConnectPoolInputs(idx, t)

Passes(idx, K, t) == FetchPoolInputs(idx, K, t) /\ ConnectPoolInputs(idx, t)

(* No two of them spend the same output.                                   *)
Compatible(S) == \A s, t \in S : s # t => vin[s] \cap vin[t] = {}

(* What the start-up thread may add, of the transactions S, after          *)
(* mapNextTx has been checked for one of T and before it is added, with    *)
(* the index idx and the pool K.  (Only those that spend what another of T *)
(* spends matter: the rest may as well come before or after.)              *)
Overtaking(S, idx, K, T) ==
    {W \in SUBSET {t \in S : fReaccept /\ \E s \in T \ {t} : vin[s] \cap vin[t] # {}} :
        /\ Compatible(W)
        /\ \A t \in W : /\ Acceptable(mempool, t) /\ t \notin DOMAIN idx
                        /\ Passes(idx, K \cup W, t)}

(* The rest of accept, when the thread with cs_main has considered t.      *)
AddChecked(S, t) ==
    \E W \in Overtaking(S, db.txindex, mempool.mapTx, {t}) :
        /\ Passes(db.txindex, mempool.mapTx \cup W, t)
        /\ mempool' = addUnchecked(addUnchecked(mempool, W), {t})
        /\ raced' = (raced \/ W # {})
        /\ UNCHANGED fReaccept

accept(t) ==
    /\ pc = "idle"
    /\ Considered(mempool, t)
    /\ AddChecked(WalletTx, t)
    /\ UNCHANGED vars

(* ReacceptWalletTransactions for one transaction, by the start-up thread; *)
(* a block may be in progress.                                             *)
AcceptWalletTransaction(t) ==
    /\ fReaccept
    /\ Considered(mempool, t)
    /\ Passes(db.txindex, mempool.mapTx, t)
    /\ mempool' = addUnchecked(mempool, {t})
    /\ UNCHANGED <<vars, fReaccept, raced>>

Reaccepted ==
    /\ fReaccept
    /\ fReaccept' = FALSE
    /\ UNCHANGED <<vars, mempool, raced>>

-----------------------------------------------------------------------------
(* What the chain does to the pool.                                        *)

TxsOf(B) == UNION {BlockTxs(b) : b \in B}

vDisconnect == Ancestors[pindexBest] \ Ancestors[pindexIntermediate]
vConnect    == Ancestors[pindexIntermediate] \ Ancestors[pindexBest]

vResurrect == {t \in TxsOf(vDisconnect) : ~ IsGenerated(t)}

(* The sets of them that accept(fCheckInputs = false) may let in, one by   *)
(* one, when the start-up thread adds W meanwhile: of two that spend the   *)
(* same output only one gets in, and one that W spends against need not.   *)
(* (Two of one chain never do, unless blocks that were given up and never  *)
(* connected are among those disconnected; which comes first is left open.)*)
Resurrectable == {t \in vResurrect : Acceptable(mempool, t)}

Resurrections(W) ==
    {R \in SUBSET (Resurrectable \ W) :
        /\ Compatible(R)
        /\ \A t \in Resurrectable \ (R \cup W) : \E s \in R \cup W : vin[s] \cap vin[t] # {}}

(* Mutant: nothing is put back.                                            *)
ReorganizedPool_NoResurrect(W, R) ==
    removeConflicts(remove(addUnchecked(mempool, W), TxsOf(vConnect)), TxsOf(vConnect))

(* The transactions R of the disconnected blocks come back, then those of  *)
(* the connected ones (vDelete) go, with what conflicts with them.  (No    *)
(* descendant of a conflicting transaction is in a block that connected,   *)
(* so the order of the removals is immaterial.)                            *)
ReorganizedPool(W, R) ==
    LET p == addUnchecked(addUnchecked(mempool, W), R)
    IN  removeConflicts(remove(p, TxsOf(vConnect)), TxsOf(vConnect))

(* The commit comes first: what the start-up thread adds from S until the  *)
(* last one has come back it has checked against the new index.            *)
PoolReorganize(S) ==
    /\ Reorganize_Commit
    /\ \E W \in Overtaking(S, view.txindex, mempool.mapTx \cup Resurrectable, Resurrectable) :
          /\ \E R \in Resurrections(W) : mempool' = ReorganizedPool(W, R)
          /\ raced' = (raced \/ W # {})
    /\ UNCHANGED fReaccept

(* Mutant: the block's transactions stay in the pool.                      *)
PoolSetBestChainInner_Keeps(b) ==
    SetBestChainInner(b) /\ UNCHANGED <<mempool, fReaccept, raced>>

(* remove only: transactions that conflict with the block stay.            *)
PoolSetBestChainInner(b) ==
    /\ SetBestChainInner(b)
    /\ mempool' = remove(mempool, BlockTxs(b))
    /\ UNCHANGED <<fReaccept, raced>>

(* The pool is not kept on disk; a new start-up thread begins.             *)
PoolRestart == Restart /\ mempool' = EmptyPool /\ fReaccept' = TRUE /\ raced' = FALSE

(* The steps of Chain that do not touch the pool.                          *)
ChainStep ==
    /\ \/ \E b \in Block \ {Genesis} : AcceptBlock(b) \/ RefuseBlock(b)
       \/ ExtendBest \/ BeginReorganize
       \/ Reorganize_Disconnect \/ Reorganize_Invalid
       \/ Reorganize_CommitFault \/ SetBestChain_Done
       \/ \E b \in Block :
             \/ Reorganize_Connect(b)
             \/ SetBestChainInner_Invalid(b)
             \/ SetBestChainInner_CommitFault(b)
    /\ UNCHANGED <<mempool, fReaccept, raced>>

PoolInit == Init /\ mempool = EmptyPool /\ fReaccept = TRUE /\ raced = FALSE

PoolNext ==
    \/ \E t \in Tx : accept(t)
    \/ \E t \in WalletTx : AcceptWalletTransaction(t)
    \/ Reaccepted
    \/ ChainStep
    \/ PoolReorganize(WalletTx)
    \/ \E b \in Block : PoolSetBestChainInner(b)
    \/ PoolRestart

PoolSpec == PoolInit /\ [][PoolNext]_poolVars
-----------------------------------------------------------------------------
(* Properties.                                                             *)

(***************************************************************************)
(* No entry of mapNextTx outlives its transaction: each names one that is  *)
(* in the pool and spends it (in the code, CInPoint is a pointer).  And    *)
(* unless the start-up thread's additions came between a check and an      *)
(* addition, every input of the pool's transactions is there with its      *)
(* spender: no two of them spend the same output.                          *)
(***************************************************************************)
NextTxMatchesPool ==
    /\ mempool.mapTx \subseteq Tx
    /\ \A o \in DOMAIN mempool.mapNextTx :
          mempool.mapNextTx[o] \in mempool.mapTx /\ o \in vin[mempool.mapNextTx[o]]
    /\ ~ raced => \A t \in mempool.mapTx : \A o \in vin[t] :
                     o \in DOMAIN mempool.mapNextTx /\ mempool.mapNextTx[o] = t

(***************************************************************************)
(* accept: "Check for conflicts with in-memory transactions": no two       *)
(* transactions of the pool spend the same output.  This does not hold:    *)
(* the start-up thread may add one between the check and the addition of   *)
(* another.                                                                *)
(***************************************************************************)
PoolSpendsOnce == Compatible(mempool.mapTx)

(***************************************************************************)
(* No transaction of the best chain is in the pool: confirmed ones leave   *)
(* it, also over reorganizations that move a transaction from one block to *)
(* another, and also when the start-up thread accepts one while a block    *)
(* with it is being processed: it holds mempool.cs, and remove comes after *)
(* the commit.                                                             *)
(***************************************************************************)
PoolNotInChain == mempool.mapTx \cap DOMAIN db.txindex = {}

(* The transactions of S that one of C spends against, and what depends    *)
(* on them.                                                                *)
DoubleSpent(S, C) ==
    UNION {Descendants(S, s) :
              s \in {x \in S : \E u \in C : u # x /\ vin[u] \cap vin[x] # {}}}

(***************************************************************************)
(* After Reorganize, nothing in the pool spends what the newly connected   *)
(* blocks spend, not even the transactions R that came back from the       *)
(* disconnected ones; and, as long as no block was given up, nothing       *)
(* depends on a transaction, of the pool or come back, that did.  (Not     *)
(* once the start-up thread has spoiled mapNextTx.)                        *)
(***************************************************************************)
ReorganizeLeavesNoConflict ==
    [][PoolReorganize(WalletTx) /\ ~ raced' =>
        \A R \in Resurrections({}) : mempool' = ReorganizedPool({}, R) =>
        /\ Prevouts(mempool'.mapTx) \cap Prevouts(TxsOf(vConnect)) = {}
        /\ skipped = {} =>
              mempool'.mapTx \cap DoubleSpent(mempool.mapTx \cup R, TxsOf(vConnect)) = {}
      ]_poolVars

(***************************************************************************)
(* Reorganize loses no transaction: as long as no block was given up, one  *)
(* that was in the pool or in a disconnected block is in the pool or in    *)
(* the new chain afterwards, unless it, or one it depends on, is spent     *)
(* against by the pool or by the new chain, or is no standard transaction. *)
(* (Under the same condition.)                                             *)
(***************************************************************************)
ReorganizeLosesNothing ==
    [][PoolReorganize(WalletTx) /\ ~ raced' /\ skipped = {} =>
        LET S == mempool.mapTx \cup vResurrect
        IN  S \ (mempool'.mapTx \cup DOMAIN db'.txindex \cup NonStandard) \subseteq
                DoubleSpent(S, mempool.mapTx \cup TxsOf(vConnect))]_poolVars

(***************************************************************************)
(* CreateNewBlock: "This should never happen; all transactions in the      *)
(* memory pool should connect to either transactions in the chain or other *)
(* transactions in the memory pool."                                       *)
(***************************************************************************)
PoolInputsKnown ==
    \A t \in mempool.mapTx : \A o \in vin[t] :
        o[1] \in DOMAIN db.txindex \cup mempool.mapTx

(***************************************************************************)
(* Only a reorganization leaves a transaction of the pool without its      *)
(* inputs: no transaction accepted, block connected or step that fails     *)
(* does.                                                                   *)
(***************************************************************************)
OnlyReorganizeOrphansInputs ==
    [][PoolInputsKnown => PoolInputsKnown' \/ PoolReorganize(WalletTx)]_poolVars
=============================================================================
