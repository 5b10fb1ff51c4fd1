# A TLA+ model of the MotaCoin node

MotaCoin is a proof-of-work/proof-of-stake currency derived from PPCoin/NovaCoin.
Its node (`src/src/`) receives blocks and transactions from peers, keeps a tree of
blocks, follows the branch of greatest *trust*, and records in a LevelDB database
which transaction outputs the current best chain has spent. This directory models
that core: how blocks are taken in, how the best chain is extended and
reorganized, what is in the database at every moment (also when a commit fails or
the process dies), what the memory pool, the orphan transactions and the wallet
do meanwhile, and how blocks are fetched from a peer; beside it the key pool, the
address manager and the check queue. TLC checks the models on small instances;
TLAPS proves nearly all of the safety properties for every instance.

Paths below are relative to `src/src/` unless they say otherwise.

## 1. Inventory

| Component | State | Operations | Hard behaviour | What makes it correct |
|---|---|---|---|---|
| **Block chain** (`main.cpp`, `main.h`) | `mapBlockIndex`, `pnext`, `pindexBest`/`hashBestChain`/`nBestChainTrust`, `nBestInvalidTrust`; on disk the block index, `hashBestChain`, the transaction index | `AcceptBlock`, `AddToBlockIndex`, `SetBestChain`, `SetBestChainInner`, `Reorganize`, `ConnectBlock`, `DisconnectBlock`, `LoadBlockIndex` | reorganizations that fail half way, crashes between commits, failing commits, blocks in any order | index = that of the best chain; memory = disk; trust never lost; the best valid chain wins |
| **CTxDB** (`txdb-leveldb.*`) | the database, one write batch per object | `Read`, `Write`, `Erase`, `Exists`, `TxnBegin/Commit/Abort` | reads inside a transaction see the batch | a transactional key-value store |
| **ProcessBlock, orphan blocks** (`main.cpp`) | `mapOrphanBlocks(ByPrev)`, `setStakeSeen(Orphan)` | `ProcessBlock` with its work queue | blocks before their parents, stakes used twice, failures inside the loop | no held block is forgotten |
| **Memory pool** (`CTxMemPool`) | `mapTx`, `mapNextTx` | `accept`, `remove`, `removeConflicts`, the pool's part of `Reorganize` and `SetBestChainInner` | conflicts across branches, dependants | consistent with itself and the chain |
| **Orphan transactions** (`main.cpp`, `tx` message) | `mapOrphanTransactions(ByPrev)` | `AddOrphanTx`, `EraseOrphanTx`, `LimitOrphanTxSize`, tx handler | eviction at the limit, parent arriving in a block | orphan accepted once its parents are there |
| Checkpoints (`checkpoints.*`) | `hashSyncCheckpoint`, `hashPendingCheckpoint` | `ProcessSyncCheckpoint`, `AcceptPendingSyncCheckpoint`, `ResetSyncCheckpoint` | none reachable: the master key is empty and no message passes `CheckSignature` | - |
| Validation and scripts (`script.*`, `main.cpp`) | none | `CheckBlock`, `CheckTransaction`, `EvalScript` | - | pure |
| Kernel and stake modifier (`kernel.*`) | fields of the block index | `ComputeNextStakeModifier`, `CheckProofOfStake` | selection over a window | pure, deterministic |
| Retarget and rewards (`main.cpp`) | none | `GetNextTargetRequired`, `GetProofOfWorkReward`, `GetProofOfStakeReward` | integer edges | pure |
| Miner and staking (`miner.*`) | extra nonce, search time | `CreateNewBlock`, `ThreadStakeMiner` | reads the pool | picks connectable transactions in order |
| **Block download** (`net.*`, `main.cpp`) | `mapAskFor`, `mapAlreadyAskedFor`, `setInventoryKnown`, `vInventoryToSend`, `hashContinue`, the last `getblocks` | `inv`, `getdata`, `getblocks`, `block` handlers, `SendMessages` | batches, retries, blocks out of order, broken connections | the client gets the whole chain, each block asked for once |
| **Address manager** (`addrman.*`) | tried/new tables, ids, counts | `Add`, `Good`, `GetAddr`, write and reload | tables at their limit | `CAddrMan::Check_`, tried addresses kept |
| **Wallet** (`wallet*`, `init.cpp`) | `mapWallet` with block and spent flags, the best block recorded | `AddToWallet`, `SyncWithWallets`, `CommitTransaction`, `FixSpentCoins`, rescan at start | told of blocks before they are committed | balance of the best chain |
| **Key pool and key store** (`wallet*`, `keystore.*`) | `setKeyPool`, pool records, keys, lock state | `TopUpKeyPool`, `ReserveKeyFromKeyPool`, `KeepKey`, `ReturnKey`, `EncryptWallet`, `Lock`, `Unlock` | the wallet is locked in the middle of a top-up, crashes between writes | no key handed out twice or lost |
| **CCheckQueue** (`checkqueue.h`) | queue, counters, waiting threads | `Add`, `Wait`, worker loop | lost wake-ups, rounds that overlap | `Wait` returns, with the right answer |
| Alerts, bloom filters, `limitedmap`, RPC, start-up, Qt | see `PROJECT.json` | | | |

Interaction: a `block` message calls `ProcessBlock`, which calls `AcceptBlock` for
the block and then for the blocks held for it; `AcceptBlock` calls
`AddToBlockIndex`, which calls `SetBestChain` when the trust is greater; that
changes the database through `CTxDB` batches and, after the commits, the pointers
in memory and the memory pool. All of this runs under `cs_main`, so two blocks are
never processed at once: the hard interleavings are between processing and
crashes, between the order of arrival and the state, between the several commits
of one reorganization, and between two nodes. Four things run beside it, without
`cs_main`: `repairwallet`, which the RPC server registers as unlocked
(`bitcoinrpc.cpp:322`, `1158`) and the Qt window calls by itself
(`qt/walletmodel.cpp:359`), with `cs_wallet` only; `ReacceptWalletTransactions` of the
start-up thread (`init.cpp:851`), after the node's threads have been started
(`init.cpp:834`), with `cs_wallet` and for each acceptance `mempool.cs`; the wallet's
passphrase timer; and the check queue's threads. The modules `Wallet`, `MemPool`,
`KeyPool` and `CheckQueue` have them as concurrent actions.
Components in bold are modelled.

## 2. Modules

| Module | Models | Composes |
|---|---|---|
| `Chain` | block tree, best chain, database, crashes | - |
| `MCChain` | a tree of ten blocks for TLC | `Chain` |
| `ChainProofs` | theorems about `Chain`, those that compare it with `Replay` included | `Chain` |
| `TxStore` | abstract transactional store | - |
| `TxDB` | `CTxDB` with its batches; `ImplementsTxStore` is the refinement | `TxStore` |
| `MCTxDB`, `TxDBProofs` | TLC instance; theorems | `TxDB` |
| `OrphanBlocks` | `ProcessBlock` and the held blocks | `Chain` |
| `MCOrphanBlocks`, `OrphanBlocksProofs` | TLC instance; theorems | `OrphanBlocks` |
| `MemPool` | `CTxMemPool` and what the chain does to it | `Chain` |
| `OrphanTx` | the `tx` handler and the held transactions | `MemPool` |
| `MCOrphanTx`, `RelayProofs` | TLC instance for pool and held transactions; theorems | `OrphanTx` |
| `Wallet`, `MCWallet`, `WalletProofs` | the wallet's transactions and spent flags beside chain and pool; theorems | `MemPool` |
| `KeyPool`, `MCKeyPool`, `KeyPoolProofs` | key pool and key store; theorems | - |
| `BlockSync`, `MCBlockSync` | block download between two nodes | - |
| `CheckQueue`, `MCCheckQueue`, `CheckQueueProofs` | `CCheckQueue`, `CCheckQueueControl`; theorems | - |
| `AddrMan`, `MCAddrMan`, `AddrManProofs` | `CAddrMan`; theorems | - |

Operators named `X_Something` under a comment "Mutant:" are plausible bugs of the
operator `X`. They are used by no specification; `PROJECT.json` pairs each with the
property that must fail when `X` is replaced by it.

### Chain

The constants are the tree (parent, height, trust, ancestors of every block) and
the transactions (inputs, number of outputs, blocks they are in). A transaction is
a name; an outpoint is `<<tx, n>>`. Values, signatures and scripts are left out: a
block that fails for what it contains is a member of `BadBlock`. What depends on
the *state* is modelled: missing, spent and immature inputs, BIP30, the subsidy
taken from the height of the current best block, the coin check of `AcceptBlock`
and the kernel lookup, both against the index of the current best chain.

| Variable | Code |
|---|---|
| `mapBlockIndex`, `pnext`, `pindexBest`, `nBestInvalidTrust` | the globals and `CBlockIndex::pnext` |
| `db` | the committed database: block index, `hashNext`, `hashBestChain`, tx index, `bnBestInvalidTrust` |
| `view` | the database as seen through the open batch (what `CTxDB::Read` returns) |
| `pc`, `pindexNew`, `pindexIntermediate`, `tip` | where `SetBestChain`/`Reorganize` are |
| `skipped`, `refused` | history: blocks given up after a reorganization; blocks refused by the coin check |

One step is one block connected or disconnected in the batch, or one commit with
the memory updates after it. `ExtendBest` and `BeginReorganize` are the two
branches of `SetBestChain`; `Reorganize_Disconnect`, `_Connect`, `_Invalid`,
`_Commit` and `_CommitFault` are the phases and exits of `Reorganize`;
`SetBestChainInner*` attaches one block in a transaction of its own, both for a
block that extends the best chain and for the blocks `SetBestChain` postpones;
`Restart` is a crash at any point followed by `LoadBlockIndex`.

### TxStore and TxDB

`TxStore` is what the callers of `CTxDB` rely on: a transaction reads its own
writes, commits all or nothing, and an abort or a failed commit leaves the
database alone. `TxDB` has the real representation, a sequence of Put and Delete
entries that a scan searches for the last entry of a key; the refinement maps the
batch to the function it denotes.

### OrphanBlocks

Adds `mapOrphanBlocks`, `setStakeSeenOrphan`, the work queue and the block being
accepted to `Chain`. `setStakeSeen` is a function of the block index, because
`AddToBlockIndex` and `LoadBlockIndex` fill it from there. A held block that is
tried is taken out of the maps when `AcceptBlock` starts (the code does it when it
returns, under the same lock). The order among siblings in the multimap is left
open. No synchronized checkpoint is pending.

### MemPool

Adds the pool to `Chain`. `accept` covers the checks against the pool, the index
and the best block; refusals for fees, sizes, signatures or by the rate limiter
change nothing and need no action. Two threads use the pool. The one with `cs_main`
looks at `mapNextTx` (`main.cpp:584`) and calls `addUnchecked` (`685`) without holding
`mempool.cs` from one to the other; the start-up thread, in
`AcceptWalletTransaction`, holds it throughout (`main.cpp:846`) but has no `cs_main`.
What it adds may therefore come between the first thread's check and its addition
(`Overtaking`), for a transaction of a message as for one that `Reorganize` puts
back, and two rivals may both enter. The history variable `raced` records that this has happened
to the present pool: until then `mapNextTx` names every spend, afterwards only its
entries are known to be sound. `fReaccept` says that the start-up thread is still at
it. `PoolNotInChain` needs no such condition: if the start-up thread reads the index
before a block's commit it adds the transaction before that block's `remove`, which
waits for `mempool.cs`; if after, it finds the transaction there.

`Descendants` is what the recursive `remove`
reaches, stated as the least closed set. `Reorganize`'s pool updates are one
expression (`ReorganizedPool`): first the transactions of the disconnected blocks
come back, then those of the connected ones go, with their rivals and what depends
on these. What comes back is one of `Resurrections`: as many of those transactions as
`accept` takes one after the other. On a chain that connects no two of them spend
the same output, and there is one such set; once blocks have been given up after a
reorganization (`skipped`), disconnecting them can bring back rivals, of which the
first wins. `ReorganizeLosesNothing` and the second half of
`ReorganizeLeavesNoConflict` are stated for `skipped = {}` for that reason.

### OrphanTx

Adds the two maps of held transactions and the handler's queue to `MemPool`. The
handler is several steps (`TxMessage` or `TxMessage_Missing`, `TryOrphan` for each
held transaction of a queue entry, `NextPrev`, `EraseOrphans`): its loop takes held
transactions in the order of a `std::set` of hashes, which the model leaves open, and
the start-up thread may add to the pool between two of them (`StartUp`; `meanwhile`
records what). Nothing else does: the handler holds `cs_main`.
`mapOrphanTransactionsByPrev` is a function whose domain matters, since
`operator[]` inserts. `LimitOrphanTxSize` evicts any transaction. `Elsewhere` is a
transaction that enters the pool without the handler (RPC, wallet).

### Wallet

`wallet.hashBlock` is `mapWallet` with the block each transaction was last told to
be in, `wallet.spent` the spent outputs. `ConnectBlock` tells the wallet of a block
while the database transaction is open, and takes `cs_wallet` for one transaction at a
time: each is a step (`SyncWithWallets`, counted by `told`), and the step of the chain
itself (`ToldConnect`, `ToldSetBestChainInner`, `ToldCommitFault`) comes when all have
been told. `DisconnectBlock` tells it at once (`ToldDisconnect`).

`FixSpentCoins` (`repairwallet`) is enabled in every state, and so is a pass of
`ReacceptWalletTransactions` while the start-up thread is at it; both have `cs_wallet`
for the whole pass and read the committed index. Between a block's first
`SyncWithWallets` and its commit, and in the middle of a reorganization, the wallet is
ahead of that index (`Settled` is false): the repair takes back what the wallet was told,
erases a coinbase or coinstake that is about to be confirmed, or flags a refunded stake
again, and then the block commits. This is a defect of the code, and the model has it. The
history variable `misled` records it, as it records that the wallet was told of a block
that was not committed or not told of one that was disconnected. The three invariants
are stated while it is false; without the condition for the repair TLC finds each of them
violated, and `StakeIsRefunded` without the one for the start-up thread.
`RepairsSpent` says what holds however the wallet was misled: a repair between two
blocks, or the last pass of the start-up thread, puts the spent flags right. It is stated
for `skipped = {}`: once blocks have been given up after a reorganization, a restart can
find a transaction index that is not that of the chain.

`WalletRestart` is the crash and the rescan from the recorded best block; without a
record, which is written only after the initial download, there is no rescan
(`init.cpp:759-767`). The start-up thread then runs beside the others. The scan it makes
after it has found a spent output leaves the entries that exist alone (`fUpdate` is
false); transactions it hands to `accept` are the action `AcceptWalletTransaction` of
`MemPool`, for those of the wallet and those they spend (`vtxPrev`).

### KeyPool

`setKeyPool` in memory, one pool record per index on disk. Each database write is a
step of its own (`TopUp_Generate`, `TopUp_Write`, `NewKeyPool_Write`, ...), because
the thread that locks the wallet when the passphrase times out, `KeepKey` and a
crash come in between. A write that fails is not modelled: `NewKeyPool` ignores what
`WritePool` returns (`wallet.cpp:2507`), and the index would be in `setKeyPool` without
a record. `overwritten` records that the index of a reserved key was
written again (see `keypool_reuse`); the other properties say what holds until then.

### CheckQueue

In `Loop` a thread takes the mutex in one step, with the clean-up after its last
share or what follows the return from the condition variable (`Loop_Lock`), and gives
it up in another (`Loop_Return`, `Loop_Wait`, `Loop_Take`); then it works on the share
it took. The two are apart because `CCheckQueueControl` reads the counters without the
mutex: `nTotal` and `nIdle` differ while a worker is inside. The condition variables are the states "wait" and "woken", with
wake-ups for nothing (`SpuriousWakeup`). A check is its result. The template has no
instance in this repository: master and workers are used as its comments say.

### AddrMan

`addrman` is one record with the fields of `CAddrMan`, and the operations are
functions on it, as the private methods are in the code. Bucket hashes are
constants; chance (which entry is drawn, whether one is "terrible") is a choice.
`Reload` writes and reads `peers.dat`, which holds neither identifiers, positions
nor tried buckets.

### BlockSync

A block is its height on the server's chain. The client has `mapAskFor` (requests
that are due), `mapAskLater` (those for two minutes from now, moved by
`TwoMinutesLater`) and `mapAlreadyAskedFor`, which outlives connections; the server
has `setInventoryKnown` (an `mruset`, modelled as its queue), `vInventoryToSend`
and `hashContinue`. The connection is two sequences of messages, which `Reconnect`
empties. Handlers are single actions (they hold `cs_main`), and so are the two
parts of `SendMessages`. Times are choices: whether a best block is a day old,
whether ten seconds have passed.

## 3. Runs

| Run | Instance | Result |
|---|---|---|
| `chain_crash` | `MCChain`, 2 crashes, 1 failing commit, subsidy that ends, coin check on | index, links and best chain consistent; trust never lost; the next heavier block wins after a crash |
| `chain_disk` | the same | `BestBlockIsOnDisk` violated |
| `txdb` | 2 objects, 2 keys, 2 values, batches of 2 | implements `TxStore` |
| `orphans` | `MCOrphanBlocks`, 1 crash, 1 failing commit, coin check on, fair | no held block forgotten; `NoBetterValidChain` and `Converges` while undisturbed |
| `relay` | `MCOrphanTx`, 1 crash, 1 failing commit, at most 2 held transactions, the start-up thread with a transaction that has a rival | pool and orphan maps consistent with each other and the chain |
| `wallet` | `MCWallet`, 1 crash, 1 failing commit, `repairwallet` and the start-up thread at any moment | the wallet follows the chain unless misled; both repairs put its spent flags right |
| `keypool` | 2 `CReserveKey` objects, pool of 1, 6 keys, 1 crash, encryption | no key handed out twice, lost or left in the clear |
| `keypool_reuse` | the same without a crash | `WontBeUsedAgain` violated |
| `checkqueue` | master, 2 workers, batches of up to 7, fair | `Wait` returns, with the conjunction, and leaves nothing of the round behind |
| `addrman` | 3 addresses, 2 new buckets and 1 tried bucket of size 1 | the conditions of `Check_` |
| `blocksync` | chain of 4 growing to 5, batches of 2, messages of 1, one late answer or broken connection, fair | each block asked for once; last proof-of-work block reached; announcements let the client advance |
| `blocksync_stall` | chain of 6, last proof-of-work block 1, limits 3, 2, 2 | `NeverStalls` violated |

What the violations show:

* **`chain_disk`**: when a block attached after a reorganization fails,
  `SetBestChain` leaves its loop but still makes the new block best in memory.
  Memory then names a block that was never connected or written, until a restart
  or a reorganization. The other properties are therefore stated for `skipped =
  {}` where they need it, and `DiskBestOnBestBranch` says what is left in general.
* **`keypool_reuse`**: a top-up numbers new keys from the greatest *free* index (1
  when there is none), so it writes over an index that is reserved; two holders
  then have the same index and a key is handed out twice.
* **`blocksync_stall`**: the block that ends a batch makes the server announce its
  last proof-of-work block. Proof of work ended at `LAST_POW_BLOCK` (`main.h:34`):
  the client has that block and answers with `getblocks` from there; the second time this
  request equals the last one and `PushGetBlocks` drops it (`net.cpp:97`). Nothing is
  under way then until a new block is announced. `ReachesLastPow` is what the
  mechanism does achieve, on one connection: after a broken one, requests that wait
  out their two minutes let later blocks come first as orphans, the block that ends
  the batch is then already held, and the continuation is lost as well.

### Further disagreements

These definitions state what a comment, a message or a test of the repository says
and TLC finds them violated too. They are no runs of their own; to see one, give it
as the only `INVARIANT` of the configuration named.

| Definition | Configuration | The code | Says |
|---|---|---|---|
| `RefusedForSameCoin` | `MCChain_crash.cfg` | above height 701720 `AcceptBlock` refuses a block whose inputs are not in the index of the *current best* chain (`main.cpp:2341`) | the error message, `main.cpp:2393` |
| `ExistsMatchesRead` | `MCTxDB.cfg` | inside a transaction `Exists` reports an erased key (`txdb-leveldb.h:152`); no caller is affected | `txdb-leveldb.cpp:181` |
| `HeldUntilParent` | `MCOrphanBlocks.cfg` | if `SetBestChain` fails for a block already in the index, blocks held for it are never tried and, being known, never delivered again (`main.cpp:2559`) | `main.cpp:2528` |
| `PoolInputsKnown` | `MCOrphanTx.cfg` | a rival left in the pool when a block was connected keeps the block's transaction out when it is disconnected, and its children stay without input (`main.cpp:1878`) | `miner.cpp:204` |
| `PoolSpendsOnce` | `MCOrphanTx.cfg` | the start-up thread adds a rival between the check of `mapNextTx` and `addUnchecked` (`init.cpp:851`, `main.cpp:584-685`) | `main.cpp:584` |
| `OrphansMissInputs` | `MCOrphanTx.cfg` | a held transaction whose parent comes in a block or by RPC is not tried again (`main.cpp:3849`) | `main.cpp:1348` |
| `NoOrphansNoIndex` | `MCOrphanTx.cfg` | the handler's `operator[]` leaves an empty entry for every accepted transaction (`main.cpp:3819`) | `test/DoS_tests.cpp:223` |
| `AcceptedIsSynced` | `MCOrphanTx.cfg` | when a held transaction is accepted the wallets are told of the message's one instead (`main.cpp:3830`) | `main.cpp:134` |
| `MinusOneMeansUnknown` | `MCWallet.cfg` | after an undone reorganization the wallet gives a confirmed transaction the depth -1 (`main.cpp:1787`) | `main.cpp:807` |
| `AvailableIsUnspentInPool` | `MCWallet.cfg` | a block told a second time marks its outputs unspent although a pool transaction spends them (`wallet.cpp:411`) | `wallet.cpp:2320` |
| `ControlAsserts` | `MCCheckQueue.cfg` | `CCheckQueueControl` reads `nTotal` and `nIdle` without the mutex: a worker that woke late, or that has just been started, is counted in one only | the assertion, `checkqueue.h:168` |
| `RenewedPoolIsNew` | `MCKeyPool.cfg` | an index reserved during the encryption returns to the renewed pool (`wallet.cpp:2496`) | `wallet.cpp:2488` |
| `EvictsLeastRecentlyTried` (a `PROPERTY`) | `MCAddrMan.cfg` with `ADDRMAN_TRIED_BUCKET_SIZE = 2`, `Time = {1, 2, 3}` | `SelectTried` remembers a position from before its swap (`addrman.cpp:143`) | `addrman.cpp:131` |

### Bounds and why they are enough

*MCChain*: ten blocks, a trunk and three branches of different length and trust.
Both sides of the fork confirm the same transaction and spend its output
differently, one branch spends inside its own block, three blocks fail for three
reasons (double spend, immature coinbase, missing subsidy), one block carries a
coinstake with more trust. This gives reorganizations that disconnect one or two
blocks, that fail after others have been connected, and that leave blocks
postponed behind `pindexIntermediate`. Two crashes allow a crash during the
recovery from a crash. *MCTxDB*: two entries per batch are the least that lets a
later entry override an earlier one; model values are symmetric. *MCOrphanBlocks*:
three generations can be held at once, three blocks share a stake, a bad block has
a held child. *MCOrphanTx*: rival transactions with dependants, a transaction on
both branches, a non-standard one, a coinbase and a coinstake spender, a held
transaction with two parents and one of its own waiting, one that fails once its
input is known, one too large to be held, and a limit of two so that eviction
happens; the wallet has the rival that is only in one branch, so that the start-up
thread may accept it beside the handler, a reorganization and the block that confirms it
(1.3 million states). *MCWallet*: a payment on both branches, two spends of it, a stake of the
wallet on one branch, a block that is refused after two others were connected; blocks
of up to three transactions, so that a repair comes between two of them.
*MCKeyPool*: a pool of one runs empty with every reservation, and six keys allow
a top-up, a renewal and a top-up after it. *MCCheckQueue*: batches of zero, one,
two and seven checks; with seven a share has more than one. *MCAddrMan*: three
addresses for buckets of size one, so that every addition evicts. *MCBlockSync*:
two batches to the last proof-of-work block, one block beyond it and a new one; a
batch is longer than a message and than what the server remembers.

`MaxCrash`, `MaxFault`, `MaxBatch`, `MaxKey`, `MaxAdd`, `MaxId` and `MaxHeight` are
the only bounds on behaviour; the proofs hold for every value of them. Deadlock is
not checked where the system may stop: when all blocks are known, all keys used or
the client has caught up.

### Fairness

`WF(ProcessStep)`, `WF(SetBestChainStep)`, `WF(WorkQueueStep)`: code that holds
`cs_main` runs to its end. `WF(AcceptBlock(b))` and `WF(HoldOrphan(b) \/
ProcessBlock(b))` for every block: some peer offers every block the node does not
have; nodes exchange inventories and ask again with `getblocks`. `Converges` is
stated for behaviours without crash and failing commit (`Undisturbed`), after which
nothing but a heavier block makes the node reconsider (`HeavierBlockWins`). Under this
fairness it says the node ends on a valid chain of greatest trust. Two limits are
known and kept out of the instance: the subsidy test uses the height of the *old*
best block while a reorganization connects (`CoinbaseRewardOK`), and a kernel above
the fork is not found (`KernelFound`).

`CheckQueue`: weak fairness of every thread's step, which is the operating system's
scheduler, and strong fairness of taking the mutex: a thread that waits for it gets it
some time, although others take it again and again in between. No fairness of `Add` or
`Wait`. `BlockSync`: the
message loops of both nodes run and time passes; nobody promises new blocks, and
broken connections and late answers are bounded by `MaxFault`. The fairness of
`SendInv` is stated by what it does to `vInventoryToSend` (`InventorySent`), which is
the same condition and cheaper to evaluate.

## 4. Proofs

Assumptions on the constants: `TreeAssumption` (the blocks form a tree with strictly
increasing height and trust), `TxAssumption` (no transaction twice in a block, a
coinbase recurs only at its own height, which `AcceptBlock` enforces by the height in
the coinbase), `BoundAssumption`, `ConstantAssumption` of `TxDB`, `StakeAssumption` of
`OrphanBlocks`, `MemPoolAssumption` (the wallet's transactions are among those there are),
`WalletAssumption` (the outputs that belong to the wallet exist, and
what it sends is no coinbase or coinstake), `KeyPoolAssumption` (the first top-up stays
within the model's bound on keys), the assumption of `CheckQueue` (finitely many worker
threads), `AddrManAssumption` (finitely many new buckets, positive limits). TLC evaluates
all of them on the instances. Three theorems have a hypothesis of their own,
`SteadyReward` or `OneOutput`, explained below.

| Theorem | States |
|---|---|
| **Chain** (`ChainProofs`) | |
| `TypeCorrect` | `Spec => []TypeOK` |
| `MemoryCorrect` | `Spec => [](MemoryMatchesDisk /\ DiskBestOnBestBranch)` |
| `BestBranchCorrect` | `Spec => []DiskBestOnBestBranch` |
| `DiskTrustCorrect` | `Spec => DiskTrustNeverFalls` |
| `LinksCorrect` | `Spec => []LinksMatchDisk` |
| `TxIndexCorrect` | `Spec => []TxIndexMatchesChain` |
| `MainChainCorrect` | `Spec => []MainChainLinks` |
| **Chain and its reference** (`ChainProofs`) | |
| `HeavierBlockCorrect` | `SteadyReward` implies `Spec => HeavierBlockWins` |
| `NoBetterChainCorrect` | `SteadyReward` implies `Spec => []NoBetterValidChain` |
| **CTxDB** (`TxDBProofs`) | |
| `TxDBTypeCorrect`, `TxDBImplements` | types; `Spec => ImplementsTxStore` |
| **Held blocks** (`OrphanBlocksProofs`) | |
| `HeldCorrect` | `NodeSpec => [](HeldUntilAccepted /\ OrphansNotIndexed /\ NoStaleStake)` |
| `OrphansNotIndexedCorrect`, `NoStaleStakeCorrect` | its last two parts by themselves |
| `NodeImplementsChain` | `NodeSpec => Spec` |
| **Pool and held transactions** (`RelayProofs`) | |
| `PoolImplementsChain`, `RelayImplementsPool` | `PoolSpec => Spec`, `RelaySpec => PoolSpec` |
| `NextTxCorrect`, `PoolApartCorrect` | `PoolSpec => []NextTxMatchesPool`, `PoolSpec => []PoolNotInChain` |
| `KnownInputsCorrect` | `PoolSpec => OnlyReorganizeOrphansInputs` |
| `NoConflictCorrect`, `LosesNothingCorrect` | `PoolSpec => ReorganizeLeavesNoConflict`, `PoolSpec => ReorganizeLosesNothing` |
| `RelayPoolCorrect` | all of these for `RelaySpec` |
| `OrphanIndexCorrect` | `RelaySpec => []IndexMatchesOrphans` |
| `NoneReadyCorrect`, `OrphansKeptCorrect` | `RelaySpec => HandlerLeavesNoneReady`, `RelaySpec => OrphansAreKept` |
| **Key pool** (`KeyPoolProofs`) | |
| `KeyPoolTypeCorrect`, `PoolAccountedCorrect`, `HandedOutOnceCorrect`, `KeysAreOnDiskCorrect` | types and the three invariants |
| **Check queue** (`CheckQueueProofs`) | |
| `CheckQueueTypeCorrect`, `RoundStartsCleanCorrect`, `WaitReturnsConjunctionCorrect` | types, `Spec => []RoundStartsClean`, `Spec => WaitReturnsConjunction` |
| **Wallet** (`WalletProofs`) | |
| `WalletImplementsChain` | `WalletSpec => Spec` |
| `WalletInvCorrect` | `WalletSpec => [](ChainInv /\ WalletInv)` |
| `WalletBlocksCorrect` | `WalletSpec => []WalletBlocksMatchChain` |
| `AvailableCorrect` | `WalletSpec => []AvailableIsUnspentInChain` |
| `StakeRefundCorrect` | `WalletSpec => []StakeIsRefunded` |
| `RepairsCorrect` | `OneOutput` implies `WalletSpec => RepairsSpent` |
| **Address manager** (`AddrManProofs`) | |
| `AddrManInvCorrect` | `Spec => []AddrManInv` |
| `IndexesAgreeCorrect`, `TablesMatchEntriesCorrect`, `BucketsBoundedCorrect` | the three invariants |
| `TriedNeverDeletedCorrect` | `Spec => TriedNeverDeleted` |

The `Spec` of `Chain`, `NodeSpec`, `PoolSpec`, `RelaySpec` and `WalletSpec` share the
variables of `Chain`, so that the refinements are implications: what is proved of `Chain`
holds of the node with held blocks, with the pool, with the `tx` handler and with the
wallet.

*Control.* `ControlInv` (theorem `ControlCorrect`) says for each `pc` how
`pindexNew`, `pindexIntermediate`, `tip`, `pindexBest` and `db.best` are related:
during `reorganize` the tip is on the old or on the new branch and the disk is
still on the old one; during `inner` the tip is the disk's best block and an
ancestor of the new block; trust relates them all. The types, `MemoryCorrect` and
`DiskTrustCorrect` follow from it.

*Links.* `LinksMatchDisk` is not inductive during a reorganization, when the batch
has changed and memory has not. `LinkInv` adds what `view.next` is: `pnext` with the
links of the blocks disconnected and connected so far (`Relinked`); at the commit
this equals the relinking `Reorganize` does in memory. `PathInv` says which blocks
have a `pnext` at any moment, those below the block committed last, and `KnownInv`
that the known blocks are closed under ancestors; `MainChainLinks` needs both, since
a block that is accepted resets its own `pnext`.

*Transaction index.* `IndexInv` says that `db.txindex` matches the chain of
`db.best` and `view.txindex` that of `tip`. `ConnectMatches` and `DisconnectMatches`
carry `Matches` over one block; they need that an output has one spender on a chain
(`OneSpender`) and that a transaction of a connected block is new to the index
(`FreshLemma`, from BIP30 and from inputs being spent once).

*Replay.* `Replay` is a recursive function over the tree. `ReplayLemma` shows that it
satisfies its definition: a solution on the ancestors of each block exists and is
unique, by the least height at which it would not. An index is determined by the
blocks it describes (`SameIndex`), so `ConnectBlock` decides on a block as the replay
does (`ReplayConnects`), and a chain that connects has no transaction that spends a
later one of its block, so `DisconnectBlock` cannot fail on it (`ReplayDisconnects`).
`ValidInv` says that the chain on disk, and the one the open transaction has reached,
replays. `HeavierBlockWins` follows. For `NoBetterValidChain`, `BetterInv` says that
the only known block that replays and outweighs the best one is the one being added:
a reorganization that commits has therefore reached that block, the loop behind it is
empty, and while nothing disturbs the node no block is ever given up.
`SteadyReward` says that whether a coinbase is within the subsidy does not depend on
the height of the block asked about: the blocks of the tree belong to one period of
`GetProofOfWorkReward`. It is needed. `ConnectBlock` takes the subsidy of the old best
block's height (`CoinbaseRewardOK`), and a reorganization over the end of a period
refuses blocks that are right, or takes ones that are not. The instance of the
`orphans` run satisfies it.

*TxDB.* `FoundLemma` (the scan finds the last entry of a key, by well-founded
choice of a greatest position), `ScanAppend` and `ChangesAppend` (one more entry),
`SeenLemma` (what a read returns is the abstract value).

*Held blocks.* `HeldUntilAccepted` alone is not inductive; `HeldInv` accounts for
the parents that are being accepted or still in the work queue.

*Pool.* `PoolInv` is `NextTxMatchesPool`, by which no two transactions of a pool that
was not raced spend the same output, with `PoolNotInChain`. `AddCheckedLemma` and
`PoolReorganizeLemma` carry it over an addition with whatever the start-up thread adds
in between: that no entry of `mapNextTx` dangles is inductive by itself
(`AddNextLemma`, `RemoveNextLemma`), so that it survives a race. `BatchInv` relates the open batch to the blocks
disconnected and connected so far: a transaction of the batch's index is in the
committed one and not of a disconnected block, or is of a connected block; at the
commit, therefore, everything that becomes part of the chain leaves the pool. The
attempt to prove `ReorganizeLosesNothing` showed that the transactions coming back may
be rivals once blocks have been given up; the model had taken them all.

*Held transactions.* `HandlerInv` has `IndexMatchesOrphans` at every step of the
handler; that nothing it will erase merely lacks inputs (`EraseInv`); and that a held
transaction that spends one whose turn in the queue has come is still to be tried, is
to be erased, lacks another input, spends one whose turn comes, or spends one that the
start-up thread has added since (`TriedInv`).
`OrphansAreKept` and `HandlerLeavesNoneReady` follow at the end of the queue.

*Key pool.* `KeyInv` says that a key between its generation and its pool record is
nowhere else (`FreshInv`); that each pool record belongs to one owner, the set of free
indices or one `CReserveKey`, which knows its key, and that no two records have the
same key and none has a key given away (`OwnerInv`); what is on disk at each phase
(`StoreInv`), and which phases there are. The indices alone do not give
`HandedOutOnce`: without the keys of the records a new record could repeat an old key.

*Check queue.* `QueueInv` counts: `nTodo` is the length of the queue plus the sum of
the shares, stated as the number of pairs of a thread and a check it has taken, `nTotal`
and `nIdle` the threads in the loop, the one inside the critical section included, and
those that wait (`CountInv`); what has been found
out and what the remaining checks will tell is together the result expected
(`ResultInv`); and a new round begins with nothing to do (`RoundInv`).

*Wallet.* `WalletInv` says that, while no block was given up and the wallet was not
misled, it follows the chain it was last told of: the open batch's during a
reorganization, that of `db.best` otherwise (`ToldTip`); and while a block is being told,
the chain with that block, less the transactions still to come (`Later(b, told)`).
`Follows` has two parts. `Told`:
every transaction of that chain which concerns the wallet is in it, with its block, and
what it spends of the wallet is flagged. `Claimed`: each flag is owed to a transaction
of the wallet, and a coinstake counts only while the chain has it. Neither property of
the runs is inductive without both. `OrderInv`, that a transaction spends only earlier
ones of its block, is needed since a transaction that pays the wallet becomes known, with
nothing spent, when it is told: a spend told before it would be lost. `TellLemma` carries
`Told`, less the transactions still to come, over one transaction (`FollowsTell` for the
block being connected), `FollowsBegin` says that nothing is lost when a block begins,
`FollowsDisconnect` is the refund, `FollowsScan` the rescan. `PassLemma` says that a pass
of a repair preserves the invariant if it does so on a settled wallet, where what was told
is what the index says; otherwise the wallet is misled and there is nothing to show.
`StepFix` and `StepReaccept` are the settled cases. What a block tells is a recursive function over its transactions and the
rescan one over the chain; that they satisfy their definitions is shown by induction
stated for sets (`CountUp`, `ClimbUp`), which is first-order. `OneOutput` says that a
coinbase pays the wallet with its output 0 only and a coinstake with its output 1 only.
`ReacceptWalletTransactions` looks at these outputs alone when it decides to skip a
generated transaction, so the repair is not complete without it. `MCWallet` satisfies it.

*Address manager.* `AddrManInv` is `Consistent(addrman, -1)`: types and unused
identifiers (`Typed`), both indexes as inverses (`Addressed`, `Ordered`), reference
counts and tried flags (`Referenced`), counters (`Counted`), the tried table (`Tabled`)
and the limits (`Bounded`). Inside `Add_` a new entry is counted before it is put into a
bucket; the second argument of `Consistent` names that entry, so that each private
method has a lemma about the record it is given and the one it returns. The sets of
outcomes of draws and shuffles are recursive functions over a number of rounds; that
every outcome is consistent is shown by the least round at which one would not be. The
reload takes the entries in the order of a map iterator, stated as a sorted sequence.

Only model-checked:

* `Converges`, `WaitReturns`, `ReachesLastPow`, `AnnouncementAdvances`: liveness under
  fairness is outside the prover.
* `BlockSync` (`AskedOnce`): its messages are flattened and folded sequences, and what
  these operators compute needs an induction over data.

## 5. Not modelled

* The branch of `SetBestChain` that writes the genesis block, and a failing commit
  of the block index entry in `AddToBlockIndex`.
* The verification of the last blocks at load (`-checklevel`); its conditions are
  what `Matches` states.
* Loss of acknowledged LevelDB writes in a crash of the operating system: a commit
  is durable once it returns.
* The value sums of the coin check in `AcceptBlock`: they depend on the block
  alone, and a block refused for them is no member of `Block`.
* Synchronized checkpoints: `CSyncCheckpoint::strMasterPubKey` is empty, so no
  checkpoint message passes its signature test and none of their states is reached.
* Database writes of the wallet that fail: their results are mostly ignored.
* `repairwallet` and the start-up thread read the index and the best block several times
  in one pass. On a settled wallet these reads agree, since a block that was told of
  nothing is not committed; of a pass that finds the wallet ahead of the index the reads
  are taken to be of one moment. Which of the wallet's transactions a pass hands to
  `accept`, and when, is left open.
* A `peers.dat` older than the last change: `Reload` reads back what was just written.
* `inv` messages of several blocks: in the instance of `BlockSync` each has one entry, so
  the rule for the last block of a message (`main.cpp:3579`) is not exercised.
* In the wallet: coin selection and fees, accounts, the address book, Berkeley DB's
  log files, MultiSend and StakeForCharity; in `CAddrMan`: `Attempt`, `Connected` and
  `Select`, which change times or nothing; in the network code: sockets, bans, the
  version handshake beyond its request for blocks, `addr` relay and alerts.
* `limitedmap` has no user. `CCheckQueue::fQuit` is never set.
* `qt/locale/*.ts` are translation catalogues: XML data without logic, although they
  are the largest files of the repository. No definition stands for them; the C++
  sources are what is modelled.
* Components with status `not_modelled` in `PROJECT.json`, each with its reason.

## 6. Plan

Done: `Chain`, `TxStore`/`TxDB`, `OrphanBlocks`, `MemPool`, `OrphanTx`, `Wallet`, `KeyPool`,
`CheckQueue`, `AddrMan`, `BlockSync`.

Theorems to add:

1. An abstract specification of the best chain (it moves only between chains that
   replay, of growing trust) that `Chain` implements while no block is given up.
2. `BlockSync`: `AskedOnce`, with the messages stated as sets of announcements.

Models to add: the pure algorithms (`CPartialMerkleTree`, the stake modifier's
selection, retarget and rewards with their integer widths), `CreateNewBlock` over the
pool, cancellation and expiry of alerts.
