------------------------------ MODULE OrphanTx ------------------------------
(***************************************************************************)
(* The tx message: a transaction is accepted into the memory pool, held    *)
(* until its inputs are known (mapOrphanTransactions), or dropped.  When   *)
(* one is accepted, the held transactions that spend it are tried, then    *)
(* those that spend these, from a work queue.                              *)
(*                                                                         *)
(* The handler holds cs_main: blocks and transactions from elsewhere (RPC) *)
(* come before or after it, never in between; only the start-up thread may *)
(* add to the pool meanwhile.                                              *)
(***************************************************************************)
EXTENDS MemPool

CONSTANTS
    LargeTx,                    \* transactions of more than 5000 bytes
    MAX_ORPHAN_TRANSACTIONS

ASSUME OrphanTxAssumption == MAX_ORPHAN_TRANSACTIONS \in Nat

VARIABLES
    mapOrphanTransactions,
    mapOrphanTransactionsByPrev,    \* by the hash of a transaction spent
    vWorkQueue, i,                  \* the handler's queue and its position
    todo,                           \* held transactions of entry i to try
    vEraseQueue,
    synced,                         \* what the handler gave to SyncWithWallets
    meanwhile                       \* history: what the start-up thread has
                                    \* added since the handler began

handler == <<vWorkQueue, i, todo, vEraseQueue>>
orphanMaps == <<mapOrphanTransactions, mapOrphanTransactionsByPrev>>
relayVars == <<poolVars, orphanMaps, handler, synced, meanwhile>>

Handling == i > 0

-----------------------------------------------------------------------------
(* accept with all its outcomes.                                           *)

Parents(t) == {o[1] : o \in vin[t]}

(* FetchInputs "just hasn't seen" one of the inputs: fMissingInputs.       *)
MissingInputs(p, t) == Parents(t) \ (DOMAIN db.txindex \cup p.mapTx) # {}

Outcome(p, t) ==
    CASE ~ Considered(p, t) -> "refused"
      [] Considered(p, t) /\ MissingInputs(p, t) -> "missing"
      [] OTHER -> IF Passes(db.txindex, p.mapTx, t)
                  THEN "accepted" ELSE "refused"

-----------------------------------------------------------------------------
(* The maps of held transactions.  m is a record of the two.               *)

Held == [tx |-> mapOrphanTransactions, byPrev |-> mapOrphanTransactionsByPrev]

ByPrev(m, p) == IF p \in DOMAIN m.byPrev THEN m.byPrev[p] ELSE {}

AddOrphanTx(m, t) ==
    IF t \in m.tx \cup LargeTx THEN m
    ELSE [tx |-> m.tx \cup {t},
          byPrev |-> [p \in DOMAIN m.byPrev \cup Parents(t) |->
                         ByPrev(m, p) \cup (IF p \in Parents(t) THEN {t} ELSE {})]]

(* Mutant: only the entry of one parent is removed.                        *)
EraseOrphanTx_OneParent(m, S) ==
    LET E == S \cap m.tx
        Keep(p) == m.byPrev[p] \ {e \in E : p = CHOOSE q \in Parents(e) : TRUE}
    IN  [tx |-> m.tx \ E,
         byPrev |-> [p \in {q \in DOMAIN m.byPrev : Keep(q) # {}} |-> Keep(p)]]

(* For all of S; entries that become empty go, those that were empty stay. *)
EraseOrphanTx(m, S) ==
    LET E == S \cap m.tx
        gone == {p \in UNION {Parents(e) : e \in E} : m.byPrev[p] \subseteq E}
    IN  [tx |-> m.tx \ E,
         byPrev |-> [p \in DOMAIN m.byPrev \ gone |-> m.byPrev[p] \ E]]

(* Mutant: evicts as soon as the limit is reached.                         *)
LimitOrphanTxSize_AtLimit(m, n) ==
    IF Cardinality(m.tx) < n THEN {m}
    ELSE {EraseOrphanTx(m, S) : S \in {D \in SUBSET m.tx : Cardinality(m.tx \ D) = n - 1}}

(* The results of evicting at random until at most n are left.             *)
LimitOrphanTxSize(m, n) ==
    IF Cardinality(m.tx) <= n THEN {m}
    ELSE {EraseOrphanTx(m, S) : S \in {D \in SUBSET m.tx : Cardinality(m.tx \ D) = n}}

SetMaps(m) ==
    /\ mapOrphanTransactions' = m.tx
    /\ mapOrphanTransactionsByPrev' = m.byPrev

(* mapOrphanTransactionsByPrev[p] puts an empty set under an unknown p.    *)
Visit(p) ==
    /\ todo' = ByPrev(Held, p)
    /\ mapOrphanTransactionsByPrev' =
          [q \in DOMAIN mapOrphanTransactionsByPrev \cup {p} |-> ByPrev(Held, q)]
    /\ UNCHANGED mapOrphanTransactions

-----------------------------------------------------------------------------
(* The handler.                                                            *)

TxMessage(t) ==
    /\ pc = "idle" /\ ~ Handling
    /\ Considered(mempool, t)
    /\ AddChecked(WalletTx, t)
    /\ meanwhile' = mempool'.mapTx \ (mempool.mapTx \cup {t})
    /\ synced' = {t}
    /\ vWorkQueue' = <<t>> /\ i' = 1
    /\ vEraseQueue' = {t}
    /\ Visit(t)
    /\ UNCHANGED vars

TxMessage_Missing(t) ==
    /\ pc = "idle" /\ ~ Handling
    /\ Outcome(mempool, t) = "missing"
    /\ \E m \in LimitOrphanTxSize(AddOrphanTx(Held, t), MAX_ORPHAN_TRANSACTIONS) :
          SetMaps(m)
    /\ UNCHANGED <<poolVars, handler, synced, meanwhile>>

(* A held transaction is tried.  SyncWithWallets is called with the        *)
(* transaction of the message, not with the held one.                      *)
TryOrphan(o) ==
    /\ o \in todo
    /\ todo' = todo \ {o}
    /\ \/ /\ Considered(mempool, o)
          /\ AddChecked(WalletTx, o)
          /\ meanwhile' = meanwhile \cup (mempool'.mapTx \ (mempool.mapTx \cup {o}))
          /\ synced' = synced \cup {vWorkQueue[1]}
          /\ vWorkQueue' = Append(vWorkQueue, o)
          /\ vEraseQueue' = vEraseQueue \cup {o}
       \/ /\ Outcome(mempool, o) = "refused"
          /\ vEraseQueue' = vEraseQueue \cup {o}
          /\ UNCHANGED <<mempool, fReaccept, raced, meanwhile, synced, vWorkQueue>>
       \/ /\ Outcome(mempool, o) = "missing"
          /\ UNCHANGED <<mempool, fReaccept, raced, meanwhile, synced, vWorkQueue, vEraseQueue>>
    /\ UNCHANGED <<vars, orphanMaps, i>>

NextPrev ==
    /\ Handling /\ todo = {} /\ i < Len(vWorkQueue)
    /\ i' = i + 1
    /\ Visit(vWorkQueue[i + 1])
    /\ UNCHANGED <<poolVars, vWorkQueue, vEraseQueue, synced, meanwhile>>

(* Mutant: what joined the queue during the loop is not looked at.         *)
EraseOrphans_FirstOnly ==
    /\ Handling /\ todo = {} /\ i = 1
    /\ SetMaps(EraseOrphanTx(Held, vEraseQueue))
    /\ vWorkQueue' = << >> /\ i' = 0 /\ vEraseQueue' = {} /\ synced' = {} /\ meanwhile' = {}
    /\ UNCHANGED <<poolVars, todo>>

EraseOrphans ==
    /\ Handling /\ todo = {} /\ i = Len(vWorkQueue)
    /\ SetMaps(EraseOrphanTx(Held, vEraseQueue))
    /\ vWorkQueue' = << >> /\ i' = 0 /\ vEraseQueue' = {} /\ synced' = {} /\ meanwhile' = {}
    /\ UNCHANGED <<poolVars, todo>>

-----------------------------------------------------------------------------
(* What else changes the pool: blocks, and accept called by the wallet or  *)
(* by sendrawtransaction, which look at no held transaction.               *)

Elsewhere ==
    /\ ~ Handling
    /\ \/ \E t \in Tx : accept(t)
       \/ ChainStep
       \/ PoolReorganize(WalletTx)
       \/ \E b \in Block : PoolSetBestChainInner(b)
    /\ UNCHANGED <<orphanMaps, handler, synced, meanwhile>>

(* The start-up thread, beside the handler too.                            *)
StartUp ==
    /\ \/ \E t \in WalletTx : /\ AcceptWalletTransaction(t)
                              /\ meanwhile' = IF Handling THEN meanwhile \cup {t} ELSE {}
       \/ Reaccepted /\ UNCHANGED meanwhile
    /\ UNCHANGED <<orphanMaps, handler, synced>>

RelayRestart ==
    /\ PoolRestart
    /\ SetMaps([tx |-> {}, byPrev |-> << >>])
    /\ vWorkQueue' = << >> /\ i' = 0 /\ todo' = {} /\ vEraseQueue' = {}
    /\ synced' = {} /\ meanwhile' = {}

RelayInit ==
    /\ PoolInit
    /\ mapOrphanTransactions = {} /\ mapOrphanTransactionsByPrev = << >>
    /\ vWorkQueue = << >> /\ i = 0 /\ todo = {} /\ vEraseQueue = {}
    /\ synced = {} /\ meanwhile = {}

RelayNext ==
    \/ \E t \in Tx : TxMessage(t) \/ TxMessage_Missing(t) \/ TryOrphan(t)
    \/ NextPrev
    \/ EraseOrphans
    \/ Elsewhere
    \/ StartUp
    \/ RelayRestart

RelaySpec == RelayInit /\ [][RelayNext]_relayVars
-----------------------------------------------------------------------------
(* Properties.                                                             *)

(***************************************************************************)
(* The index by parent lists every held transaction under each of its      *)
(* parents and nothing else, so that mapOrphanTransactions[hash] in the    *)
(* handler never makes an empty transaction, whatever was evicted, and no  *)
(* held transaction is out of reach of its parents.                        *)
(***************************************************************************)
IndexMatchesOrphans ==
    /\ \A o \in mapOrphanTransactions : Parents(o) \subseteq DOMAIN mapOrphanTransactionsByPrev
    /\ \A p \in DOMAIN mapOrphanTransactionsByPrev :
          mapOrphanTransactionsByPrev[p] = {o \in mapOrphanTransactions : p \in Parents(o)}

(***************************************************************************)
(* When the handler is done, every held transaction that spends one it     *)
(* accepted still lacks another input: the queue has tried everything that *)
(* became ready, over any number of generations and in whatever order,     *)
(* and what is held on is held for a reason.  (Except that what the        *)
(* start-up thread adds meanwhile makes no one ready.)                     *)
(***************************************************************************)
HandlerLeavesNoneReady ==
    [][EraseOrphans =>
        \A o \in mapOrphanTransactions' :
            Parents(o) \cap {vWorkQueue[k] : k \in DOMAIN vWorkQueue} # {} =>
                MissingInputs(mempool, o) \/ Parents(o) \cap meanwhile # {}]_relayVars

(***************************************************************************)
(* A held transaction is given up only when the handler has found it       *)
(* accepted or unacceptable, when the limit has been reached, or when the  *)
(* node restarts: a transaction that merely lacks inputs stays.            *)
(***************************************************************************)
OrphansAreKept ==
    [][\A o \in mapOrphanTransactions \ mapOrphanTransactions' :
        \/ EraseOrphans /\ Outcome(mempool, o) # "missing"
        \/ Cardinality(mapOrphanTransactions') = MAX_ORPHAN_TRANSACTIONS
        \/ RelayRestart]_relayVars

(***************************************************************************)
(* FetchInputs: "we just haven't seen some inputs (in which case the       *)
(* transaction should be stored as an orphan)": between two messages, a    *)
(* transaction is stored as an orphan only while some input is not known.  *)
(***************************************************************************)
OrphansMissInputs ==
    pc = "idle" /\ ~ Handling =>
        \A o \in mapOrphanTransactions : MissingInputs(mempool, o)

(***************************************************************************)
(* DoS_tests: when no transaction is held, the index by parent is empty    *)
(* too.                                                                    *)
(***************************************************************************)
NoOrphansNoIndex ==
    mapOrphanTransactions = {} => DOMAIN mapOrphanTransactionsByPrev = {}

(***************************************************************************)
(* SyncWithWallets: "make sure all wallets know about the given            *)
(* transaction": what the handler puts into the pool, the wallets have     *)
(* been told of.                                                           *)
(***************************************************************************)
AcceptedIsSynced ==
    Handling => {vWorkQueue[k] : k \in DOMAIN vWorkQueue} \subseteq synced
=============================================================================
