------------------------------- MODULE Chain -------------------------------
(***************************************************************************)
(* The block tree of a MotaCoin node and its best chain, in memory and in  *)
(* the transaction database: AcceptBlock, AddToBlockIndex, SetBestChain,   *)
(* SetBestChainInner, Reorganize, ConnectBlock and DisconnectBlock of      *)
(* main.cpp, and LoadBlockIndex of txdb-leveldb.cpp after a crash.         *)
(*                                                                         *)
(* All of this code runs under cs_main, so one block is processed at a     *)
(* time; what interrupts it is a crash of the process.  A step of the      *)
(* model is therefore one block connected to or disconnected from the      *)
(* database transaction, or one commit together with the memory updates    *)
(* that follow it (a crash between the two loses the memory anyway).       *)
(***************************************************************************)
EXTENDS Integers, Sequences, FiniteSets

CONSTANTS
    Block,              \* the blocks that may reach AcceptBlock
    Genesis,
    NoBlock,            \* the NULL block index pointer
    hashPrevBlock,      \* parent of every block but Genesis
    nHeight,
    nChainTrust,        \* sum of GetBlockTrust() up to the block
    Ancestors,          \* the blocks on the pprev path, the block included
    vtx,                \* the transactions of a block, in order
    Tx,
    vin,                \* the outpoints <<tx, n>> a transaction spends
    nOut,               \* number of outputs of a transaction
    CoinStake,          \* the coinstake transactions
    kernel,             \* the first input of a coinstake
    nValueOut,          \* what the coinbase of a block pays beyond the fees
    ProofOfWorkReward,  \* the subsidy by height
    nCoinbaseMaturity,
    nCoinCheckHeight,   \* above it AcceptBlock refuses unknown inputs (701720)
    BadBlock,           \* blocks ConnectBlock refuses for what they contain
    MaxCrash,           \* bound: crashes
    MaxFault            \* bound: failing database commits

(***************************************************************************)
(* The blocks form a tree.  A coinbase starts with the block's height      *)
(* (AcceptBlock checks it), so it cannot recur at another height.          *)
(***************************************************************************)
ASSUME TreeAssumption ==
    /\ Genesis \in Block /\ NoBlock \notin Block
    /\ hashPrevBlock \in [Block \ {Genesis} -> Block]
    /\ nHeight \in [Block -> Nat]
    /\ nChainTrust \in [Block -> Nat]
    /\ Ancestors \in [Block -> SUBSET Block]
    /\ Ancestors[Genesis] = {Genesis}
    /\ \A b \in Block \ {Genesis} :
          /\ nHeight[b] = nHeight[hashPrevBlock[b]] + 1
          /\ Ancestors[b] = {b} \cup Ancestors[hashPrevBlock[b]]
    /\ \A b \in Block : b \in Ancestors[b] /\ Genesis \in Ancestors[b]
    /\ \A b \in Block : \A a \in Ancestors[b] :
          /\ Ancestors[a] \subseteq Ancestors[b]
          /\ a # b => nHeight[a] < nHeight[b] /\ nChainTrust[a] < nChainTrust[b]
          /\ \A c \in Ancestors[b] : nHeight[c] <= nHeight[a] => c \in Ancestors[a]

ASSUME TxAssumption ==
    /\ vtx \in [Block -> Seq(Tx)]
    /\ vin \in [Tx -> SUBSET (Tx \X Nat)]
    /\ nOut \in [Tx -> Nat]
    /\ nValueOut \in [Block -> Nat]
    /\ \A b \in Block : \A i, j \in DOMAIN vtx[b] :
          vtx[b][i] = vtx[b][j] => i = j
    /\ \A b, c \in Block : \A i \in DOMAIN vtx[b], j \in DOMAIN vtx[c] :
          vtx[b][i] = vtx[c][j] /\ vin[vtx[b][i]] = {} => nHeight[b] = nHeight[c]

ASSUME BoundAssumption == MaxCrash \in Nat /\ MaxFault \in Nat

VARIABLES
    mapBlockIndex,      \* the blocks that have a CBlockIndex
    pnext,              \* CBlockIndex::pnext
    pindexBest,         \* hashBestChain, nBestHeight, nBestChainTrust follow it
    nBestInvalidTrust,
    db,                 \* the committed database
    view,               \* the database as read through the active batch
    pc,                 \* where AddToBlockIndex is
    pindexNew,          \* SetBestChain's argument
    pindexIntermediate, \* Reorganize's argument, NoBlock when not reorganizing
    tip,                \* the block up to which view has been brought
    skipped,            \* history: blocks given up after the reorganization
    refused,            \* history: blocks refused, with DoS 100, by CoinCheck
    nCrash, nFault

memory == <<mapBlockIndex, pnext, pindexBest, nBestInvalidTrust>>
locals == <<pc, pindexNew, pindexIntermediate, tip>>
history == <<skipped, refused>>
counters == <<nCrash, nFault>>
vars == <<memory, db, view, locals, history, counters>>

-----------------------------------------------------------------------------
(* Transactions and the transaction index.                                 *)

NullPos == << >>

BlockTxs(b) == {vtx[b][i] : i \in DOMAIN vtx[b]}
Earlier(b, i) == {vtx[b][j] : j \in 1 .. i - 1}
Later(b, i) == {vtx[b][j] : j \in i + 1 .. Len(vtx[b])}
Spenders(b, o) == {t \in BlockTxs(b) : o \in vin[t]}

IsGenerated(t) == vin[t] = {} \/ t \in CoinStake

(* The outpoint's transaction is indexed and has that output.              *)
Indexed(idx, o) == o[1] \in DOMAIN idx /\ o[2] \in DOMAIN idx[o[1]].vSpent

(* BIP30: a transaction overwrites an older one only if that one is spent. *)
NoOverwrite(idx, t) ==
    t \in DOMAIN idx => \A n \in DOMAIN idx[t].vSpent : idx[t].vSpent[n] # NullPos

(* Inputs come from an earlier transaction of the block or from the index. *)
FetchInputs(idx, b, i) ==
    \A o \in vin[vtx[b][i]] :
        \/ o[1] \in Earlier(b, i) /\ o[2] \in 0 .. nOut[o[1]] - 1
        \/ o[1] \notin Earlier(b, i) /\ Indexed(idx, o)

Mature(t, posBlock, b) ==
    IsGenerated(t) =>
        ~ \E a \in Ancestors[b] :
            nHeight[b] - nHeight[a] < nCoinbaseMaturity /\ a = posBlock

(* Mutant: the output's vSpent is not looked at.                           *)
ConnectInputs_NoSpentCheck(idx, b, i) ==
    \A o \in vin[vtx[b][i]] :
        Mature(o[1], IF o[1] \in Earlier(b, i) THEN b ELSE idx[o[1]].pos[1], b)

(* No input is immature, or spent in the index or earlier in the block.    *)
ConnectInputs(idx, b, i) ==
    \A o \in vin[vtx[b][i]] :
        /\ Mature(o[1], IF o[1] \in Earlier(b, i) THEN b ELSE idx[o[1]].pos[1], b)
        /\ o[1] \notin Earlier(b, i) => idx[o[1]].vSpent[o[2]] = NullPos
        /\ \A t \in Earlier(b, i) : o \notin vin[t]

IsProofOfWork(b) == BlockTxs(b) \cap CoinStake = {}

(* The subsidy is that of the height of the best block when b connects.    *)
CoinbaseRewardOK(b) ==
    IsProofOfWork(b) => nValueOut[b] <= ProofOfWorkReward[nHeight[pindexBest]]

ConnectOK(idx, b) ==
    /\ b \notin BadBlock
    /\ \A i \in DOMAIN vtx[b] : NoOverwrite(idx, vtx[b][i])
    /\ \A i \in DOMAIN vtx[b] : FetchInputs(idx, b, i) /\ ConnectInputs(idx, b, i)

(* mapQueuedChanges written over the index.                                *)
ConnectedIndex(idx, b) ==
    [t \in DOMAIN idx \cup BlockTxs(b) |->
        [pos |-> IF t \in BlockTxs(b) THEN <<b, t>> ELSE idx[t].pos,
         vSpent |-> [n \in 0 .. nOut[t] - 1 |->
             IF Spenders(b, <<t, n>>) # {}
             THEN <<b, CHOOSE s \in Spenders(b, <<t, n>>) : TRUE>>
             ELSE IF t \in BlockTxs(b) THEN NullPos ELSE idx[t].vSpent[n]]]]

DisconnectOK(idx, b) ==
    \A i \in DOMAIN vtx[b] : \A o \in vin[vtx[b][i]] :
        o[1] \notin Later(b, i) /\ Indexed(idx, o)

DisconnectInputs(idx, b) ==
    [t \in DOMAIN idx \ BlockTxs(b) |->
        [pos |-> idx[t].pos,
         vSpent |-> [n \in DOMAIN idx[t].vSpent |->
             IF Spenders(b, <<t, n>>) # {} THEN NullPos ELSE idx[t].vSpent[n]]]]

-----------------------------------------------------------------------------
(* One block in the open database transaction.                             *)

(* ConnectBlock writes the block with the pnext it has in memory, then its *)
(* parent with hashNext pointing to it.                                    *)
ConnectBlock(s, b) ==
    [next |-> [s.next EXCEPT ![b] = pnext[b], ![hashPrevBlock[b]] = b],
     txindex |-> ConnectedIndex(s.txindex, b)]

(* Mutant: the parent on disk keeps its hashNext.                          *)
DisconnectBlock_KeepsNext(s, b) ==
    [next |-> s.next, txindex |-> DisconnectInputs(s.txindex, b)]

DisconnectBlock(s, b) ==
    [next |-> [s.next EXCEPT ![hashPrevBlock[b]] = NoBlock],
     txindex |-> DisconnectInputs(s.txindex, b)]

Connects(b) == ConnectOK(view.txindex, b) /\ CoinbaseRewardOK(b)

(* Mutant: the batch survives the abort.                                   *)
TxnAbort_KeepsBatch == UNCHANGED view

TxnAbort == view' = [next |-> db.next, txindex |-> db.txindex]

(* WriteHashBestChain(b) and TxnCommit of the batch that holds s.          *)
TxnCommit(s, b) ==
    /\ db' = [db EXCEPT !.next = s.next, !.txindex = s.txindex, !.best = b]
    /\ view' = s

InvalidTrust(b) ==
    IF nChainTrust[b] > nBestInvalidTrust THEN nChainTrust[b] ELSE nBestInvalidTrust

InvalidChainFound(b) ==
    /\ nBestInvalidTrust' = InvalidTrust(b)
    /\ db' = [db EXCEPT !.invalidTrust =
                 IF nChainTrust[b] > nBestInvalidTrust THEN nChainTrust[b] ELSE @]

(* SetBestChain returns without success: AddToBlockIndex, AcceptBlock and  *)
(* ProcessBlock return false.                                              *)
Return ==
    /\ pc' = "idle"
    /\ pindexNew' = NoBlock /\ pindexIntermediate' = NoBlock /\ tip' = NoBlock

-----------------------------------------------------------------------------
(* AcceptBlock and AddToBlockIndex.                                        *)

Init ==
    /\ mapBlockIndex = {Genesis}
    /\ pnext = [b \in Block |-> NoBlock]
    /\ pindexBest = Genesis
    /\ nBestInvalidTrust = 0
    /\ db = [index |-> {Genesis}, next |-> [b \in Block |-> NoBlock],
             best |-> Genesis, txindex |-> << >>, invalidTrust |-> 0]
    /\ view = [next |-> [b \in Block |-> NoBlock], txindex |-> << >>]
    /\ pc = "idle"
    /\ pindexNew = NoBlock /\ pindexIntermediate = NoBlock /\ tip = NoBlock
    /\ skipped = {} /\ refused = {}
    /\ nCrash = 0 /\ nFault = 0

Arrives(b) ==
    /\ pc = "idle"
    /\ b \notin mapBlockIndex
    /\ hashPrevBlock[b] \in mapBlockIndex

(* The extra check of AcceptBlock looks every input up in the index of the *)
(* current best chain; a missing one throws and, at great heights, the     *)
(* block is refused.  (Sums of values and output numbers depend on the     *)
(* block alone; a block refused for them is no member of Block.)           *)
CoinCheck(b) ==
    nHeight[b] > nCoinCheckHeight =>
        \A t \in BlockTxs(b) : \A o \in vin[t] : Indexed(db.txindex, o)

(* CheckProofOfStake reads the kernel of a coinstake from the same index.  *)
KernelFound(b) ==
    \A t \in BlockTxs(b) \cap CoinStake : Indexed(db.txindex, kernel[t])

(* Mutant: the block index entry is not written.                           *)
AcceptBlock_NotWritten(b) ==
    /\ Arrives(b)
    /\ CoinCheck(b) /\ KernelFound(b)
    /\ mapBlockIndex' = mapBlockIndex \cup {b}
    /\ pnext' = [pnext EXCEPT ![b] = NoBlock]
    /\ IF nChainTrust[b] > nChainTrust[pindexBest]
       THEN pc' = "begin" /\ pindexNew' = b
       ELSE UNCHANGED <<pc, pindexNew>>
    /\ UNCHANGED <<pindexBest, nBestInvalidTrust, db, view, pindexIntermediate, tip,
                   history, counters>>

(* Mutant: a chain must also have more trust than every invalid one.       *)
AcceptBlock_AboveInvalid(b) ==
    /\ Arrives(b)
    /\ CoinCheck(b) /\ KernelFound(b)
    /\ mapBlockIndex' = mapBlockIndex \cup {b}
    /\ pnext' = [pnext EXCEPT ![b] = NoBlock]
    /\ db' = [db EXCEPT !.index = @ \cup {b}, !.next = [@ EXCEPT ![b] = NoBlock]]
    /\ view' = [view EXCEPT !.next = [@ EXCEPT ![b] = NoBlock]]
    /\ IF /\ nChainTrust[b] > nChainTrust[pindexBest]
          /\ nChainTrust[b] > nBestInvalidTrust
       THEN pc' = "begin" /\ pindexNew' = b
       ELSE UNCHANGED <<pc, pindexNew>>
    /\ UNCHANGED <<pindexBest, nBestInvalidTrust, pindexIntermediate, tip,
                   history, counters>>

AcceptBlock(b) ==
    /\ Arrives(b)
    /\ CoinCheck(b) /\ KernelFound(b)
    /\ mapBlockIndex' = mapBlockIndex \cup {b}
    /\ pnext' = [pnext EXCEPT ![b] = NoBlock]
    /\ db' = [db EXCEPT !.index = @ \cup {b}, !.next = [@ EXCEPT ![b] = NoBlock]]
    /\ view' = [view EXCEPT !.next = [@ EXCEPT ![b] = NoBlock]]
    /\ IF nChainTrust[b] > nChainTrust[pindexBest]
       THEN pc' = "begin" /\ pindexNew' = b
       ELSE UNCHANGED <<pc, pindexNew>>
    /\ UNCHANGED <<pindexBest, nBestInvalidTrust, pindexIntermediate, tip,
                   history, counters>>

RefuseBlock(b) ==
    /\ Arrives(b)
    /\ ~ (CoinCheck(b) /\ KernelFound(b))
    /\ refused' = IF CoinCheck(b) THEN refused ELSE refused \cup {b}
    /\ UNCHANGED <<memory, db, view, locals, skipped, counters>>

-----------------------------------------------------------------------------
(* SetBestChain.                                                           *)

(* The new block extends the best chain.                                   *)
ExtendBest ==
    /\ pc = "begin"
    /\ hashPrevBlock[pindexNew] = pindexBest
    /\ pc' = "inner"
    /\ tip' = pindexBest
    /\ UNCHANGED <<memory, db, view, pindexNew, pindexIntermediate, history, counters>>

(* Mutant: the block after the fork, whatever its trust.                   *)
IsIntermediate_Fork(b) ==
    /\ b \in Ancestors[pindexNew] \ Ancestors[pindexBest]
    /\ hashPrevBlock[b] \in Ancestors[pindexBest]

(* The first block on the new chain with more trust than the best one.     *)
IsIntermediate(b) ==
    /\ b \in Ancestors[pindexNew] \ {Genesis}
    /\ nChainTrust[b] > nChainTrust[pindexBest]
    /\ nChainTrust[hashPrevBlock[b]] <= nChainTrust[pindexBest]

BeginReorganize ==
    /\ pc = "begin"
    /\ hashPrevBlock[pindexNew] # pindexBest
    /\ \E b \in Block : IsIntermediate(b) /\ pindexIntermediate' = b
    /\ pc' = "reorganize"
    /\ tip' = pindexBest
    /\ UNCHANGED <<memory, db, view, pindexNew, history, counters>>

Disconnecting == pc = "reorganize" /\ tip \notin Ancestors[pindexIntermediate]

Reorganize_Disconnect ==
    /\ Disconnecting
    /\ DisconnectOK(view.txindex, tip)
    /\ view' = DisconnectBlock(view, tip)
    /\ tip' = hashPrevBlock[tip]
    /\ UNCHANGED <<memory, db, pc, pindexNew, pindexIntermediate, history, counters>>

(* b is the block to connect next on the way up to target.                 *)
ConnectNext(b, target) ==
    b \in Ancestors[target] \ {Genesis} /\ hashPrevBlock[b] = tip

Reorganize_Connect(b) ==
    /\ pc = "reorganize"
    /\ ConnectNext(b, pindexIntermediate)
    /\ Connects(b)
    /\ view' = ConnectBlock(view, b)
    /\ tip' = b
    /\ UNCHANGED <<memory, db, pc, pindexNew, pindexIntermediate, history, counters>>

(* Mutant: a failed reorganization makes the new block best nevertheless.  *)
ReorganizeFails_NewBest ==
    /\ TxnAbort
    /\ InvalidChainFound(pindexNew)
    /\ Return
    /\ pindexBest' = pindexNew
    /\ UNCHANGED <<mapBlockIndex, pnext, history>>

(* Reorganize returns false: the transaction is aborted.                   *)
ReorganizeFails ==
    /\ TxnAbort
    /\ InvalidChainFound(pindexNew)
    /\ Return
    /\ UNCHANGED <<mapBlockIndex, pnext, pindexBest, history>>

Reorganize_Invalid ==
    /\ \/ Disconnecting /\ ~ DisconnectOK(view.txindex, tip)
       \/ /\ pc = "reorganize"
          /\ \E b \in Block : ConnectNext(b, pindexIntermediate) /\ ~ Connects(b)
    /\ ReorganizeFails
    /\ UNCHANGED counters

(* Mutant: pnext of the disconnected blocks' parents is not cleared.       *)
RelinkedNext_NotCleared ==
    LET vConnect == Ancestors[pindexIntermediate] \ Ancestors[pindexBest]
    IN  [b \in Block |->
            IF \E c \in vConnect : hashPrevBlock[c] = b
            THEN CHOOSE c \in vConnect : hashPrevBlock[c] = b
            ELSE pnext[b]]

(* pnext of the disconnected blocks' parents is cleared, then that of the  *)
(* connected blocks' parents is set.                                       *)
RelinkedNext ==
    LET vDisconnect == Ancestors[pindexBest] \ Ancestors[pindexIntermediate]
        vConnect    == Ancestors[pindexIntermediate] \ Ancestors[pindexBest]
    IN  [b \in Block |->
            IF \E c \in vConnect : hashPrevBlock[c] = b
            THEN CHOOSE c \in vConnect : hashPrevBlock[c] = b
            ELSE IF \E d \in vDisconnect : hashPrevBlock[d] = b THEN NoBlock
            ELSE pnext[b]]

Reorganize_Commit ==
    /\ pc = "reorganize" /\ tip = pindexIntermediate
    /\ TxnCommit(view, pindexIntermediate)
    /\ pnext' = RelinkedNext
    /\ pc' = "inner"
    /\ UNCHANGED <<mapBlockIndex, pindexBest, nBestInvalidTrust, pindexNew,
                   pindexIntermediate, tip, history, counters>>

Reorganize_CommitFault ==
    /\ pc = "reorganize" /\ tip = pindexIntermediate
    /\ nFault < MaxFault /\ nFault' = nFault + 1
    /\ ReorganizeFails
    /\ UNCHANGED nCrash

(* Attach one more block to the chain, in a transaction of its own.        *)
SetBestChainInner(b) ==
    /\ pc = "inner"
    /\ ConnectNext(b, pindexNew)
    /\ Connects(b)
    /\ TxnCommit(ConnectBlock(view, b), b)
    /\ pnext' = [pnext EXCEPT ![hashPrevBlock[b]] = b]
    /\ tip' = b
    /\ UNCHANGED <<mapBlockIndex, pindexBest, nBestInvalidTrust, pc, pindexNew,
                   pindexIntermediate, history, counters>>

(* Mutant: the block that was reorganized to, not the new one.             *)
NewBest_Intermediate == pindexBest' = pindexIntermediate /\ Return

(* The new best block, in memory.                                          *)
NewBest == pindexBest' = pindexNew /\ Return

(* SetBestChainInner returned false.  When the block extends the best      *)
(* chain this is an error; after a reorganization the loop only breaks.    *)
GiveUp ==
    IF pindexIntermediate = NoBlock
    THEN Return /\ UNCHANGED <<pindexBest, skipped>>
    ELSE NewBest /\ skipped' = skipped \cup (Ancestors[pindexNew] \ Ancestors[tip])

SetBestChainInner_Invalid(b) ==
    /\ pc = "inner"
    /\ ConnectNext(b, pindexNew)
    /\ ~ Connects(b)
    /\ InvalidChainFound(b)
    /\ GiveUp
    /\ UNCHANGED <<mapBlockIndex, pnext, view, refused, counters>>

SetBestChainInner_CommitFault(b) ==
    /\ pc = "inner"
    /\ ConnectNext(b, pindexNew)
    /\ Connects(b)
    /\ nFault < MaxFault /\ nFault' = nFault + 1
    /\ GiveUp
    /\ UNCHANGED <<mapBlockIndex, pnext, nBestInvalidTrust, db, view, refused, nCrash>>

SetBestChain_Done ==
    /\ pc = "inner" /\ tip = pindexNew
    /\ NewBest
    /\ UNCHANGED <<mapBlockIndex, pnext, nBestInvalidTrust, db, view, history, counters>>

-----------------------------------------------------------------------------
(* The process dies and is started again: LoadBlockIndex rebuilds the      *)
(* memory from the committed database.                                     *)
Restart ==
    /\ nCrash < MaxCrash /\ nCrash' = nCrash + 1
    /\ mapBlockIndex' = db.index
    /\ pnext' = db.next
    /\ pindexBest' = db.best
    /\ nBestInvalidTrust' = db.invalidTrust
    /\ TxnAbort
    /\ Return
    /\ UNCHANGED <<db, history, nFault>>

ProcessStep ==
    \/ ExtendBest \/ BeginReorganize
    \/ Reorganize_Disconnect \/ Reorganize_Invalid
    \/ Reorganize_Commit \/ Reorganize_CommitFault
    \/ SetBestChain_Done
    \/ \E b \in Block :
          \/ Reorganize_Connect(b)
          \/ SetBestChainInner(b)
          \/ SetBestChainInner_Invalid(b)
          \/ SetBestChainInner_CommitFault(b)

Next ==
    \/ \E b \in Block \ {Genesis} : AcceptBlock(b) \/ RefuseBlock(b)
    \/ ProcessStep
    \/ Restart

Spec == Init /\ [][Next]_vars

(* A started SetBestChain runs to its end, and every block whose parent is *)
(* known is delivered by some peer.                                        *)
Fairness ==
    /\ WF_vars(ProcessStep)
    /\ \A b \in Block \ {Genesis} : WF_vars(AcceptBlock(b))

FairSpec == Spec /\ Fairness
-----------------------------------------------------------------------------
(* Properties.                                                             *)

(***************************************************************************)
(* Type invariant.  The content of the transaction index is the subject of *)
(* TxIndexMatchesChain.                                                    *)
(***************************************************************************)
TypeOK ==
    /\ mapBlockIndex \subseteq Block
    /\ pnext \in [Block -> Block \cup {NoBlock}]
    /\ pindexBest \in Block
    /\ nBestInvalidTrust \in Nat
    /\ db.index \subseteq Block
    /\ db.next \in [Block -> Block \cup {NoBlock}]
    /\ db.best \in Block
    /\ db.invalidTrust \in Nat
    /\ view.next \in [Block -> Block \cup {NoBlock}]
    /\ pc \in {"idle", "begin", "reorganize", "inner"}
    /\ {pindexNew, pindexIntermediate, tip} \subseteq Block \cup {NoBlock}
    /\ skipped \subseteq Block /\ refused \subseteq Block
    /\ nCrash \in 0 .. MaxCrash /\ nFault \in 0 .. MaxFault

(* The transaction index idx describes exactly the transactions of the     *)
(* blocks S: the conditions -checklevel 2 to 6 of LoadBlockIndex look for. *)
Matches(idx, S) ==
    /\ DOMAIN idx = UNION {BlockTxs(x) : x \in S}
    /\ \A x \in S : \A t \in BlockTxs(x) :
          /\ idx[t].pos = <<x, t>>
          /\ DOMAIN idx[t].vSpent = 0 .. nOut[t] - 1
          /\ \A n \in DOMAIN idx[t].vSpent : idx[t].vSpent[n] # NullPos =>
                \E y \in S : \E s \in Spenders(y, <<t, n>>) :
                    idx[t].vSpent[n] = <<y, s>>
          /\ \A o \in vin[t] :
                /\ Indexed(idx, o)
                /\ idx[o[1]].vSpent[o[2]] = <<x, t>>
                /\ nHeight[idx[o[1]].pos[1]] <= nHeight[x]

(* SetBestChain does not connect the genesis block.                        *)
ChainTo(b) == Ancestors[b] \ {Genesis}

(***************************************************************************)
(* The committed transaction index is that of the chain that ends in the   *)
(* committed hashBestChain, however often blocks were connected,           *)
(* disconnected, refused half way or cut short by a crash: no output is    *)
(* spent twice, none is marked spent by a block outside the chain.  It     *)
(* holds as long as SetBestChain has not given up on blocks it then        *)
(* nevertheless makes the best chain.                                      *)
(***************************************************************************)
TxIndexMatchesChain ==
    skipped = {} => Matches(db.txindex, ChainTo(db.best))

(***************************************************************************)
(* Between two blocks, hashBestChain in memory is the one on disk          *)
(* (SetBestChain updates it after the commits), and the block index in     *)
(* memory is the one a restart would load.                                 *)
(***************************************************************************)
MemoryMatchesDisk ==
    pc = "idle" => /\ mapBlockIndex = db.index
                   /\ skipped = {} => pindexBest = db.best

(***************************************************************************)
(* pnext in memory is always hashNext on disk: Reorganize and              *)
(* SetBestChainInner apply to the one what ConnectBlock and                *)
(* DisconnectBlock wrote to the other.                                     *)
(***************************************************************************)
LinksMatchDisk == pnext = db.next

IsInMainChain(b) == pnext[b] # NoBlock \/ b = pindexBest

(***************************************************************************)
(* Between two blocks, CBlockIndex::IsInMainChain, which looks at pnext    *)
(* only, is true of exactly the ancestors of the best block.               *)
(***************************************************************************)
MainChainLinks ==
    pc = "idle" /\ skipped = {} =>
        {b \in mapBlockIndex : IsInMainChain(b)} = Ancestors[pindexBest]

(***************************************************************************)
(* Whatever fails, and across restarts, the best chain on disk is never    *)
(* replaced by one of less trust.                                          *)
(***************************************************************************)
DiskTrustNeverFalls ==
    [][nChainTrust[db'.best] >= nChainTrust[db.best]]_vars

(***************************************************************************)
(* The best block on disk lies on the branch memory holds for the best, so *)
(* that a restart never lands on another branch.                           *)
(***************************************************************************)
DiskBestOnBestBranch ==
    pc = "idle" => db.best \in Ancestors[pindexBest]

(* What ConnectBlock accepts when the chain to b is built from scratch.    *)
Replay[b \in Block] ==
    IF b = Genesis THEN [ok |-> TRUE, idx |-> << >>]
    ELSE LET r == Replay[hashPrevBlock[b]]
             h == nHeight[hashPrevBlock[b]]
         IN  IF /\ r.ok /\ ConnectOK(r.idx, b)
                /\ IsProofOfWork(b) => nValueOut[b] <= ProofOfWorkReward[h]
             THEN [ok |-> TRUE, idx |-> ConnectedIndex(r.idx, b)]
             ELSE [ok |-> FALSE, idx |-> << >>]

(* No crash and no failing commit so far.                                  *)
Undisturbed == nCrash = 0 /\ nFault = 0

(***************************************************************************)
(* Between two blocks, no known chain that connects from the genesis block *)
(* has more trust than the best chain: a failed reorganization never       *)
(* leaves the node on the weaker of two good chains.  A crash may, until   *)
(* a heavier block comes: see HeavierBlockWins.                            *)
(***************************************************************************)
NoBetterValidChain ==
    pc = "idle" /\ Undisturbed => \A b \in mapBlockIndex :
        Replay[b].ok => nChainTrust[b] <= nChainTrust[pindexBest]

(***************************************************************************)
(* A block with more trust than the best one whose chain connects becomes  *)
(* the best block when SetBestChain runs to its end, also when earlier     *)
(* blocks of its chain were left behind by a crash, a failing commit or a  *)
(* failed reorganization: the next block heals the node.                   *)
(***************************************************************************)
HeavierBlockWins ==
    [][pc # "idle" /\ pc' = "idle" /\ UNCHANGED counters /\ skipped = {}
          /\ Replay[pindexNew].ok
       => pindexBest' = pindexNew]_vars

(***************************************************************************)
(* When every block is delivered, the node ends on a valid chain of        *)
(* greatest trust, in whatever order the blocks came, if no crash and no   *)
(* failing commit came between.                                            *)
(***************************************************************************)
Converges ==
    []Undisturbed =>
        <>[](/\ Replay[pindexBest].ok
             /\ \A b \in Block : Replay[b].ok => nChainTrust[b] <= nChainTrust[pindexBest])

(***************************************************************************)
(* The claim of Reorganize's comment, "Make sure it's successfully written *)
(* to disk before changing memory structure", for the best block: between  *)
(* two blocks, the best block in memory is the one written to disk.        *)
(***************************************************************************)
BestBlockIsOnDisk == pc = "idle" => pindexBest = db.best

(***************************************************************************)
(* The claim of AcceptBlock's error message: a block it refuses with       *)
(* "contains at least two transactions that uses the same coin" has two    *)
(* such transactions.                                                      *)
(***************************************************************************)
RefusedForSameCoin ==
    \A b \in refused : \E s, t \in BlockTxs(b) : s # t /\ vin[s] \cap vin[t] # {}
=============================================================================
