------------------------------- MODULE Wallet -------------------------------
(***************************************************************************)
(* The wallet's view of its transactions beside the chain and the pool:    *)
(* in which block each one is (CMerkleTx::hashBlock) and which of its      *)
(* outputs are spent (CWalletTx::vfSpent).  ConnectBlock and               *)
(* DisconnectBlock tell the wallet through SyncWithWallets while the       *)
(* database transaction is still open; every change of the wallet is       *)
(* written at once and survives a crash.                                   *)
(*                                                                         *)
(* The thread with cs_main takes cs_wallet for one transaction at a time.  *)
(* repairwallet and the start-up thread's ReacceptWalletTransactions have  *)
(* cs_wallet only, and read the committed index: they may come between     *)
(* what SyncWithWallets says and the commit.  Each keeps cs_wallet for a   *)
(* whole pass, and a block that is told of nothing is not committed, so a  *)
(* pass that finds the wallet settled reads one index; of a later one the  *)
(* reads are taken to be of one moment.                                    *)
(***************************************************************************)
EXTENDS MemPool

CONSTANTS
    MineOut,        \* the outpoints that pay to a key of the wallet
    Sent,           \* the transactions the wallet itself creates
    nMaturityMargin, \* what GetBlocksToMaturity adds to nCoinbaseMaturity: 20
    fRepair         \* whether the user calls repairwallet

ASSUME WalletAssumption ==
    /\ nMaturityMargin \in Nat
    /\ \A o \in MineOut : o \in Tx \X Nat /\ o[2] < nOut[o[1]]
    /\ Sent \subseteq {t \in Tx : ~ IsGenerated(t)}

VARIABLES
    wallet,         \* mapWallet with hashBlock, and the spent outpoints
    bestBlock,      \* the wallet's record of the best block, or NoBlock
    told,           \* how many transactions of the block being connected the
                    \* wallet has been told of
    misled          \* history: the wallet was told of a block that was not
                    \* committed, was not told that a block went, or was
                    \* repaired from an index it was ahead of

walletVars == <<poolVars, wallet, bestBlock, told, misled>>

-----------------------------------------------------------------------------
(* CWallet on a transaction; w is the wallet, b a block or NoBlock.        *)

Has(w, t) == t \in DOMAIN w.hashBlock

MineOf(t) == {o \in MineOut : o[1] = t}

(* Inputs of t that are outputs of the wallet.                             *)
Debits(w, t) == {o \in vin[t] \cap MineOut : Has(w, o[1])}

(* Mutant: the flag is not set for coins that are spent.                   *)
WalletUpdateSpent_NotSet(w, t, fBlock) ==
    IF fBlock THEN w.spent \ MineOf(t) ELSE w.spent

(* Spent inputs are flagged; when t is in a block its own outputs are      *)
(* unspent again.                                                          *)
WalletUpdateSpent(w, t, fBlock) ==
    (w.spent \cup Debits(w, t)) \ (IF fBlock THEN MineOf(t) ELSE {})

(* Mutant: an existing entry keeps its block.                              *)
AddToWallet_NoMerge(w, t, b) ==
    LET new == [w EXCEPT !.hashBlock = [x \in DOMAIN @ \cup {t} |->
                   IF x = t /\ ~ Has(w, t) THEN b ELSE @[x]]]
    IN  [new EXCEPT !.spent = WalletUpdateSpent(new, t, b # NoBlock)]

AddToWallet(w, t, b) ==
    LET new == [w EXCEPT !.hashBlock = [x \in DOMAIN @ \cup {t} |->
                   IF x = t /\ (b # NoBlock \/ ~ Has(w, t)) THEN b ELSE @[x]]]
    IN  [new EXCEPT !.spent = WalletUpdateSpent(new, t, b # NoBlock)]

(* An existing entry is left alone unless fUpdate.                         *)
AddToWalletIfInvolvingMe(w, t, b, fUpdate) ==
    IF Has(w, t) /\ ~ fUpdate THEN w
    ELSE IF Has(w, t) \/ MineOf(t) # {} \/ Debits(w, t) # {} THEN AddToWallet(w, t, b)
    ELSE [w EXCEPT !.spent = WalletUpdateSpent(w, t, FALSE)]

(* Mutant: nothing is refunded.                                            *)
DisableTransactions_None(w, b) == w

(* DisconnectBlock: the inputs of our coinstakes are unspent again.        *)
DisableTransactions(w, b) ==
    [w EXCEPT !.spent = @ \ UNION {Debits(w, t) : t \in BlockTxs(b) \cap CoinStake}]

GetDepthInMainChain(t) ==
    LET b == wallet.hashBlock[t]
    IN  IF b \in mapBlockIndex /\ IsInMainChain(b)
        THEN nHeight[pindexBest] - nHeight[b] + 1
        ELSE IF t \in mempool.mapTx THEN 0 ELSE -1

GetBlocksToMaturity(t) ==
    IF IsGenerated(t) THEN nCoinbaseMaturity + nMaturityMargin - GetDepthInMainChain(t) ELSE 0

(* IsConfirmed is a depth of at least one.                                 *)
AvailableCoins ==
    {o \in MineOut \ wallet.spent : /\ Has(wallet, o[1]) /\ GetDepthInMainChain(o[1]) >= 1
                                    /\ GetBlocksToMaturity(o[1]) <= 0}

(* What SyncWithWallets has told so far is committed, and in memory.       *)
Settled ==
    /\ told = 0 /\ pindexBest = db.best
    /\ pc = "reorganize" => tip = pindexBest

-----------------------------------------------------------------------------
(* The wallet's own operations.                                            *)

(* What the start-up thread passes to accept: the wallet's transactions    *)
(* and those its own ones spend (vtxPrev).                                 *)
Reacceptable ==
    DOMAIN wallet.hashBlock \cup
    {t \in Tx : \E s \in Sent : Has(wallet, s) /\ \E o \in vin[s] : o[1] = t}

(* A transaction from a peer, with inputs that are known.                  *)
ReceiveTx(t) ==
    /\ pc = "idle" /\ t \notin Sent
    /\ Considered(mempool, t)
    /\ AddChecked(Reacceptable, t)
    /\ wallet' = AddToWalletIfInvolvingMe(wallet, t, NoBlock, TRUE)
    /\ UNCHANGED <<vars, bestBlock, told, misled>>

(* CreateTransaction has chosen available coins.  AcceptToMemoryPool "must *)
(* not fail"; when it does the transaction stays in the wallet.  (Both     *)
(* locks are held: the start-up thread waits.)                             *)
CommitTransaction(t) ==
    /\ pc = "idle" /\ t \in Sent /\ ~ Has(wallet, t)
    /\ vin[t] \subseteq AvailableCoins
    /\ wallet' = AddToWallet(wallet, t, NoBlock)
    /\ mempool' = IF Considered(mempool, t) /\ Passes(db.txindex, mempool.mapTx, t)
                  THEN addUnchecked(mempool, {t}) ELSE mempool
    /\ UNCHANGED <<vars, fReaccept, raced, bestBlock, told, misled>>

SpentInChain ==
    {o \in MineOut : Indexed(db.txindex, o) /\ db.txindex[o[1]].vSpent[o[2]] # NullPos}

(* repairwallet, at any time: the spent flags are set from the transaction *)
(* index, and generated transactions that are in no block of the chain are *)
(* erased.                                                                 *)
FixSpentCoins ==
    LET fixed == {t \in DOMAIN wallet.hashBlock : t \in DOMAIN db.txindex \/ IsGenerated(t)}
        erased == {t \in fixed : IsGenerated(t) /\ GetDepthInMainChain(t) <= 0}
    IN  /\ fRepair
        /\ wallet' = [hashBlock |-> [t \in DOMAIN wallet.hashBlock \ erased |->
                                        wallet.hashBlock[t]],
                      spent |-> {o \in wallet.spent : o[1] \notin fixed} \cup
                                {o \in SpentInChain : o[1] \in fixed \ erased}]
        /\ misled' = (misled \/ ~ Settled)
        /\ UNCHANGED <<poolVars, bestBlock, told>>

-----------------------------------------------------------------------------
(* What the chain tells the wallet.                                        *)

(* ConnectBlock is called with b, which passes its checks.                 *)
Connecting(b) ==
    /\ \/ pc = "reorganize" /\ ConnectNext(b, pindexIntermediate)
       \/ pc = "inner" /\ ConnectNext(b, pindexNew)
    /\ Connects(b)

(* "Watch for transactions paying to me": the wallet is told of the next   *)
(* transaction of b.                                                       *)
SyncWithWallets(b) ==
    /\ Connecting(b)
    /\ told < Len(vtx[b])
    /\ told' = told + 1
    /\ wallet' = AddToWalletIfInvolvingMe(wallet, vtx[b][told + 1], b, TRUE)
    /\ UNCHANGED <<poolVars, bestBlock, misled>>

(* ConnectBlock is through with b.                                         *)
AllTold(b) == told = Len(vtx[b]) /\ told' = 0 /\ UNCHANGED wallet

ToldConnect(b) ==
    /\ Reorganize_Connect(b)
    /\ AllTold(b)
    /\ UNCHANGED <<mempool, fReaccept, raced, bestBlock, misled>>

ToldDisconnect ==
    /\ Reorganize_Disconnect
    /\ wallet' = DisableTransactions(wallet, tip)
    /\ told = 0
    /\ UNCHANGED <<mempool, fReaccept, raced, bestBlock, told, misled>>

ToldSetBestChainInner(b) ==
    /\ PoolSetBestChainInner(b)
    /\ AllTold(b)
    /\ UNCHANGED <<bestBlock, misled>>

(* SetBestChain has the wallet record a new best block, except during the  *)
(* initial download.                                                       *)
RecordBest ==
    IF pindexBest' # pindexBest
    THEN bestBlock' \in {bestBlock, pindexBest'} ELSE UNCHANGED bestBlock

(* ConnectBlock succeeds and the commit fails.                             *)
ToldCommitFault(b) ==
    /\ SetBestChainInner_CommitFault(b)
    /\ AllTold(b)
    /\ RecordBest
    /\ misled' = TRUE
    /\ UNCHANGED <<mempool, fReaccept, raced>>

(* The batch is aborted; the wallet is not told.                           *)
AbortReorganize ==
    /\ Reorganize_Invalid \/ Reorganize_CommitFault
    /\ told = 0
    /\ misled' = (misled \/ tip # pindexBest)
    /\ UNCHANGED <<mempool, fReaccept, raced, wallet, bestBlock, told>>

ToldReorganize ==
    /\ PoolReorganize(Reacceptable)
    /\ told = 0
    /\ UNCHANGED <<wallet, bestBlock, told, misled>>

OtherChainStep ==
    /\ \/ \E b \in Block \ {Genesis} : AcceptBlock(b) \/ RefuseBlock(b)
       \/ ExtendBest \/ BeginReorganize
       \/ SetBestChain_Done
       \/ \E b \in Block : SetBestChainInner_Invalid(b)
    /\ told = 0
    /\ RecordBest
    /\ UNCHANGED <<mempool, fReaccept, raced, wallet, told, misled>>

-----------------------------------------------------------------------------
(* Start-up.                                                               *)

(* locator.GetBlockIndex(): the last block of the recorded chain that is   *)
(* in the main chain; the best block when there is no record.              *)
RescanFrom(best) ==
    IF bestBlock = NoBlock THEN best
    ELSE CHOOSE b \in Ancestors[bestBlock] \cap Ancestors[best] :
             \A a \in Ancestors[bestBlock] \cap Ancestors[best] : nHeight[a] <= nHeight[b]

ScanBlock(w, b, fUpdate) ==
    LET Scanned[k \in 0 .. Len(vtx[b])] ==
            IF k = 0 THEN w
            ELSE AddToWalletIfInvolvingMe(Scanned[k - 1], vtx[b][k], b, fUpdate)
    IN  Scanned[Len(vtx[b])]

(* Along pnext from height h to best: the wallet when the scan has come to *)
(* each block.                                                             *)
ScanForWalletTransactions(w, h, best, fUpdate) ==
    LET Scanned[b \in Ancestors[best]] ==
            IF b = Genesis \/ nHeight[b] < h THEN w
            ELSE ScanBlock(Scanned[hashPrevBlock[b]], b, fUpdate)
    IN  Scanned[best]

(* The process starts again and the wallet is brought up to the chain.     *)
WalletRestart ==
    LET h == nHeight[RescanFrom(db.best)]
    IN  /\ Restart
        /\ mempool' = EmptyPool /\ fReaccept' = TRUE /\ raced' = FALSE
        /\ wallet' = IF nHeight[db.best] > h
                     THEN ScanForWalletTransactions(wallet, h, db.best, TRUE) ELSE wallet
        /\ told' = 0
        /\ misled' = (misled \/ told > 0 \/ (pc = "reorganize" /\ tip # pindexBest))
        /\ UNCHANGED bestBlock

(* ReacceptWalletTransactions skips generated ones with a spent output.    *)
Skips(t) ==
    \/ vin[t] = {} /\ <<t, 0>> \in wallet.spent
    \/ t \in CoinStake /\ <<t, 1>> \in wallet.spent

(* Mutant: the transaction index is not consulted.                         *)
FoundSpent_None == {}

(* The outputs it finds spent "somewhere else by a copy of wallet.dat".    *)
FoundSpent ==
    {o \in SpentInChain \ wallet.spent : Has(wallet, o[1]) /\ ~ Skips(o[1])}

(* One pass over the wallet by the start-up thread, but for the            *)
(* transactions it passes to accept (AcceptWalletTransaction): what it     *)
(* finds spent is flagged, and then the chain is scanned for the spenders. *)
(* There is another pass when the scan has added a transaction.            *)
ReacceptWalletTransactions ==
    LET w == [wallet EXCEPT !.spent = @ \cup FoundSpent]
    IN  /\ fReaccept
        /\ wallet' = IF FoundSpent = {} THEN w
                     ELSE ScanForWalletTransactions(w, 0, db.best, FALSE)
        /\ fReaccept' = (DOMAIN wallet'.hashBlock # DOMAIN wallet.hashBlock)
        /\ misled' = (misled \/ ~ Settled)
        /\ UNCHANGED <<vars, mempool, raced, bestBlock, told>>

WalletInit ==
    /\ PoolInit
    /\ wallet = [hashBlock |-> << >>, spent |-> {}]
    /\ bestBlock = NoBlock
    /\ told = 0
    /\ misled = FALSE

WalletNext ==
    \/ \E t \in Tx : ReceiveTx(t) \/ CommitTransaction(t)
    \/ FixSpentCoins
    \/ \E b \in Block :
          \/ SyncWithWallets(b)
          \/ ToldConnect(b) \/ ToldSetBestChainInner(b) \/ ToldCommitFault(b)
    \/ ToldDisconnect
    \/ AbortReorganize
    \/ ToldReorganize
    \/ OtherChainStep
    \/ WalletRestart
    \/ ReacceptWalletTransactions
    \/ \E t \in Reacceptable :
          AcceptWalletTransaction(t) /\ UNCHANGED <<wallet, bestBlock, told, misled>>

WalletSpec == WalletInit /\ [][WalletNext]_walletVars
-----------------------------------------------------------------------------
(* Properties.                                                             *)

Quiet == pc = "idle" /\ skipped = {}

(***************************************************************************)
(* Unless the wallet was misled, it knows every transaction of the best    *)
(* chain that pays it or that it pays, in the block of the best chain,     *)
(* over all reorganizations that move transactions from block to block:    *)
(* its depths are those of the chain.                                      *)
(***************************************************************************)
WalletBlocksMatchChain ==
    Quiet /\ ~ misled =>
        \A t \in DOMAIN db.txindex :
            MineOf(t) # {} \/ Has(wallet, t) =>
                Has(wallet, t) /\ wallet.hashBlock[t] = db.txindex[t].pos[1]

OffersUnspent ==
    \A o \in AvailableCoins :
        Indexed(db.txindex, o) /\ db.txindex[o[1]].vSpent[o[2]] = NullPos

(***************************************************************************)
(* Under the same condition, every coin of the wallet that the best chain  *)
(* spends is flagged as spent: the coins offered by AvailableCoins are     *)
(* unspent in the chain.                                                   *)
(***************************************************************************)
AvailableIsUnspentInChain == Quiet /\ ~ misled => OffersUnspent

(***************************************************************************)
(* Between two blocks, the last pass of ReacceptWalletTransactions after a *)
(* restart repairs the flags, and so does repairwallet, however the wallet *)
(* was misled: afterwards it offers only coins that are unspent in the     *)
(* chain, as long as the index is that of the chain (TxIndexMatchesChain). *)
(* (The start-up thread does so for generated transactions with one output *)
(* to the wallet: it skips those with a first output that is spent.)       *)
(***************************************************************************)
RepairsSpent ==
    [][/\ \/ ReacceptWalletTransactions /\ ~ fReaccept'
          \/ FixSpentCoins
       /\ Quiet
       => OffersUnspent']_walletVars

(***************************************************************************)
(* A coin staked in a block that a reorganization disconnects can be used  *)
(* again: once the coinstake is out of the chain, its inputs are spent     *)
(* only if something else spends them.                                     *)
(***************************************************************************)
StakeIsRefunded ==
    Quiet /\ ~ misled =>
        \A s \in CoinStake \ DOMAIN db.txindex : \A o \in Debits(wallet, s) :
            o \in wallet.spent => \E t \in DOMAIN wallet.hashBlock \ {s} : o \in vin[t]

(***************************************************************************)
(* GetDepthInMainChain: "return -1; // Not in chain, not in mempool".      *)
(***************************************************************************)
MinusOneMeansUnknown ==
    Quiet => \A t \in DOMAIN wallet.hashBlock :
        GetDepthInMainChain(t) = -1 => t \notin DOMAIN db.txindex \cup mempool.mapTx

(***************************************************************************)
(* WalletUpdateSpent: "Anytime a signature is successfully verified, it's  *)
(* proof the outpoint is spent.  Update the wallet spent flag": no coin    *)
(* that a transaction of the pool spends is offered again.                 *)
(***************************************************************************)
AvailableIsUnspentInPool ==
    Quiet => AvailableCoins \cap Prevouts(mempool.mapTx) = {}
=============================================================================
