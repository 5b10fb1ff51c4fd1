---------------------------- MODULE OrphanBlocks ----------------------------
(***************************************************************************)
(* ProcessBlock and the blocks it holds back until their parent arrives,   *)
(* in front of the block chain of module Chain.  A block from a peer is    *)
(* refused, held, or handed to AcceptBlock; once it is accepted, the held  *)
(* blocks that waited for it are accepted in turn from a work queue.       *)
(*                                                                         *)
(* All of ProcessBlock runs under cs_main; the steps between are those of  *)
(* SetBestChain, which only a crash can interrupt.  No synchronized        *)
(* checkpoint is pending (hashPendingCheckpoint = 0).                      *)
(***************************************************************************)
EXTENDS Chain

CONSTANT nStakeTime     \* the time of a coinstake

ASSUME StakeAssumption == CoinStake \subseteq Tx /\ CoinStake \subseteq DOMAIN nStakeTime

VARIABLES
    mapOrphanBlocks,    \* held blocks; mapOrphanBlocksByPrev follows it
    setStakeSeenOrphan, \* the stakes of held blocks
    vWorkQueue,         \* accepted blocks whose held children are to be tried
    accepting,          \* the block AcceptBlock works on, NoBlock if none
    failed              \* history: blocks for which AcceptBlock returned false

orphanVars == <<mapOrphanBlocks, setStakeSeenOrphan, vWorkQueue, accepting, failed>>
nodeVars == <<vars, orphanVars>>

-----------------------------------------------------------------------------
(* GetProofOfStake: {} for a proof-of-work block.                          *)
ProofOfStake(b) ==
    {<<kernel[t], nStakeTime[t]>> : t \in BlockTxs(b) \cap CoinStake}

(* AddToBlockIndex and LoadBlockIndex fill it from the block index.        *)
setStakeSeen == {ProofOfStake(b) : b \in mapBlockIndex}

OrphansByPrev(b) == {o \in mapOrphanBlocks : hashPrevBlock[o] = b}

(* Mutant: no exception for the parent of a held block.                    *)
DuplicateStake_Always(b, seen) == ~ IsProofOfWork(b) /\ ProofOfStake(b) \in seen

(* A stake is used again: allowed only for the parent of a held block.     *)
DuplicateStake(b, seen) ==
    ~ IsProofOfWork(b) /\ ProofOfStake(b) \in seen /\ OrphansByPrev(b) = {}

(* No ProcessBlock is under way.                                           *)
Idle == pc = "idle" /\ accepting = NoBlock /\ vWorkQueue = << >>

(* b passes the checks ProcessBlock makes before it looks for the parent.  *)
Received(b) ==
    /\ Idle
    /\ b \notin mapBlockIndex
    /\ b \notin mapOrphanBlocks
    /\ ~ DuplicateStake(b, setStakeSeen)

HoldOrphan(b) ==
    /\ Received(b)
    /\ hashPrevBlock[b] \notin mapBlockIndex
    /\ ~ DuplicateStake(b, setStakeSeenOrphan)
    /\ mapOrphanBlocks' = mapOrphanBlocks \cup {b}
    /\ setStakeSeenOrphan' =
          setStakeSeenOrphan \cup (IF IsProofOfWork(b) THEN {} ELSE {ProofOfStake(b)})
    /\ UNCHANGED <<vars, vWorkQueue, accepting, failed>>

(* AcceptBlock of b has been started in this step: it is done when there   *)
(* is no new best chain.                                                   *)
Started(b) ==
    IF pc' = "idle"
    THEN vWorkQueue' = Append(vWorkQueue, b) /\ UNCHANGED accepting
    ELSE accepting' = b /\ UNCHANGED vWorkQueue

ProcessBlock(b) ==
    /\ Received(b)
    /\ AcceptBlock(b)
    /\ Started(b)
    /\ UNCHANGED <<mapOrphanBlocks, setStakeSeenOrphan, failed>>

ProcessBlock_Refused(b) ==
    /\ Received(b)
    /\ RefuseBlock(b)
    /\ failed' = failed \cup {b}
    /\ UNCHANGED <<mapOrphanBlocks, setStakeSeenOrphan, vWorkQueue, accepting>>

(* Mutant: a held block that is accepted does not join the work queue.     *)
Returned_NotQueued ==
    IF pc' # "idle" THEN UNCHANGED <<vWorkQueue, accepting, failed>>
    ELSE /\ accepting' = NoBlock
         /\ IF pindexBest' = accepting
            THEN /\ vWorkQueue' = IF vWorkQueue = << >> THEN <<accepting>> ELSE vWorkQueue
                 /\ UNCHANGED failed
            ELSE failed' = failed \cup {accepting} /\ UNCHANGED vWorkQueue

(* When SetBestChain has returned, AcceptBlock succeeded if the new block  *)
(* is the best one.  Children of a block that failed are not tried.        *)
Returned ==
    IF pc' # "idle" THEN UNCHANGED <<vWorkQueue, accepting, failed>>
    ELSE /\ accepting' = NoBlock
         /\ IF pindexBest' = accepting
            THEN vWorkQueue' = Append(vWorkQueue, accepting) /\ UNCHANGED failed
            ELSE failed' = failed \cup {accepting} /\ UNCHANGED vWorkQueue

SetBestChainStep ==
    /\ ProcessStep
    /\ Returned
    /\ UNCHANGED <<mapOrphanBlocks, setStakeSeenOrphan>>

(* Mutant: the stake of a held block that was tried stays behind.          *)
Release_KeepsStake(o) ==
    mapOrphanBlocks' = mapOrphanBlocks \ {o} /\ UNCHANGED setStakeSeenOrphan

(* Mutant: the block stays in mapOrphanBlocks.                             *)
Release_KeepsBlock(o) ==
    /\ setStakeSeenOrphan' = setStakeSeenOrphan \ {ProofOfStake(o)}
    /\ UNCHANGED mapOrphanBlocks

(* The held block leaves both maps, whether AcceptBlock succeeds or not.   *)
(* (The code does it when AcceptBlock has returned; nothing looks at them  *)
(* in between.)                                                            *)
Release(o) ==
    /\ mapOrphanBlocks' = mapOrphanBlocks \ {o}
    /\ setStakeSeenOrphan' = setStakeSeenOrphan \ {ProofOfStake(o)}

Waiting(o) ==
    /\ pc = "idle" /\ accepting = NoBlock /\ vWorkQueue # << >>
    /\ o \in OrphansByPrev(Head(vWorkQueue))

AcceptOrphan(o) ==
    /\ Waiting(o)
    /\ AcceptBlock(o)
    /\ Started(o)
    /\ Release(o)
    /\ UNCHANGED failed

AcceptOrphan_Refused(o) ==
    /\ Waiting(o)
    /\ RefuseBlock(o)
    /\ Release(o)
    /\ failed' = failed \cup {o}
    /\ UNCHANGED <<vWorkQueue, accepting>>

NextInQueue ==
    /\ pc = "idle" /\ accepting = NoBlock /\ vWorkQueue # << >>
    /\ OrphansByPrev(Head(vWorkQueue)) = {}
    /\ vWorkQueue' = Tail(vWorkQueue)
    /\ UNCHANGED <<vars, mapOrphanBlocks, setStakeSeenOrphan, accepting, failed>>

(* Held blocks are not kept on disk.                                       *)
NodeRestart ==
    /\ Restart
    /\ mapOrphanBlocks' = {} /\ setStakeSeenOrphan' = {}
    /\ vWorkQueue' = << >> /\ accepting' = NoBlock
    /\ UNCHANGED failed

NodeInit ==
    /\ Init
    /\ mapOrphanBlocks = {} /\ setStakeSeenOrphan = {}
    /\ vWorkQueue = << >> /\ accepting = NoBlock /\ failed = {}

WorkQueueStep ==
    \/ NextInQueue
    \/ \E o \in Block \ {Genesis} : AcceptOrphan(o) \/ AcceptOrphan_Refused(o)

NodeNext ==
    \/ \E b \in Block \ {Genesis} :
          HoldOrphan(b) \/ ProcessBlock(b) \/ ProcessBlock_Refused(b)
    \/ SetBestChainStep
    \/ WorkQueueStep
    \/ NodeRestart

(* ProcessBlock runs to its end; every block that would be held or         *)
(* accepted is delivered by some peer, in any order.                       *)
NodeFairness ==
    /\ WF_nodeVars(SetBestChainStep)
    /\ WF_nodeVars(WorkQueueStep)
    /\ \A b \in Block \ {Genesis} : WF_nodeVars(HoldOrphan(b) \/ ProcessBlock(b))

NodeSpec == NodeInit /\ [][NodeNext]_nodeVars
NodeFairSpec == NodeSpec /\ NodeFairness
-----------------------------------------------------------------------------
(* Properties.                                                             *)

(***************************************************************************)
(* Between two blocks, a block is held only while its parent is unknown,   *)
(* unless AcceptBlock returned false for the parent: the work queue        *)
(* reaches every held descendant of an accepted block.                     *)
(***************************************************************************)
HeldUntilAccepted ==
    Idle => \A o \in mapOrphanBlocks :
        hashPrevBlock[o] \in mapBlockIndex => hashPrevBlock[o] \in failed

(***************************************************************************)
(* No block is both held and in the block index: AcceptBlock would refuse  *)
(* it, and AlreadyHave could not tell the two.                             *)
(***************************************************************************)
OrphansNotIndexed == mapOrphanBlocks \cap mapBlockIndex = {}

(***************************************************************************)
(* setStakeSeenOrphan names only stakes of blocks that are held: a stale   *)
(* entry would refuse a later block for a stake nobody uses.               *)
(***************************************************************************)
NoStaleStake == setStakeSeenOrphan \subseteq {ProofOfStake(o) : o \in mapOrphanBlocks}

(***************************************************************************)
(* The comment of ProcessBlock: "If don't already have its previous block, *)
(* shunt it off to holding area until we get it".  Between two blocks, no  *)
(* block is held whose parent is in the block index.                       *)
(***************************************************************************)
HeldUntilParent ==
    Idle => \A o \in mapOrphanBlocks : hashPrevBlock[o] \notin mapBlockIndex
=============================================================================
