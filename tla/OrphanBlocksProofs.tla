------------------------ MODULE OrphanBlocksProofs ------------------------
(***************************************************************************)
(* The invariants of OrphanBlocks hold for every tree of blocks.           *)
(***************************************************************************)
EXTENDS OrphanBlocks, ChainProofs, SequenceTheorems

InQueue(b) == \E i \in DOMAIN vWorkQueue : vWorkQueue[i] = b

(* A held block whose parent is known: the parent failed, is being         *)
(* accepted, or is still in the work queue.                                *)
HeldInv ==
    \A o \in mapOrphanBlocks : hashPrevBlock[o] \in mapBlockIndex =>
        \/ hashPrevBlock[o] \in failed
        \/ hashPrevBlock[o] = accepting
        \/ InQueue(hashPrevBlock[o])

QueueInv ==
    /\ mapOrphanBlocks \subseteq Block \ {Genesis}
    /\ vWorkQueue \in Seq(Block \cup {NoBlock})
    /\ accepting \in Block \cup {NoBlock}

OrphanInv == QueueInv /\ HeldInv /\ OrphansNotIndexed /\ NoStaleStake

(* Appending to the work queue keeps what is in it.                        *)
LEMMA AppendQueue ==
    ASSUME QueueInv, NEW b \in Block \cup {NoBlock}, vWorkQueue' = Append(vWorkQueue, b)
    PROVE  /\ vWorkQueue' \in Seq(Block \cup {NoBlock})
           /\ InQueue(b)'
           /\ \A x : InQueue(x) => InQueue(x)'
<1>1. vWorkQueue \in Seq(Block \cup {NoBlock}) BY DEF QueueInv
<1>2. /\ Len(vWorkQueue') = Len(vWorkQueue) + 1
      /\ vWorkQueue'[Len(vWorkQueue) + 1] = b
      /\ \A i \in 1 .. Len(vWorkQueue) : vWorkQueue'[i] = vWorkQueue[i]
      /\ vWorkQueue' \in Seq(Block \cup {NoBlock})
      /\ DOMAIN vWorkQueue' = 1 .. Len(vWorkQueue) + 1
      /\ DOMAIN vWorkQueue = 1 .. Len(vWorkQueue)
      /\ Len(vWorkQueue) \in Nat
    BY <1>1
<1>3. InQueue(b)' BY <1>2 DEF InQueue
<1>4. \A x : InQueue(x) => InQueue(x)' BY <1>2 DEF InQueue
<1> QED BY <1>2, <1>3, <1>4

(* The steps of SetBestChain leave the block index alone.                  *)
LEMMA ProcessStepIndex ==
    ASSUME ProcessStep
    PROVE  mapBlockIndex' = mapBlockIndex
BY DEF ProcessStep, ExtendBest, BeginReorganize, Reorganize_Disconnect,
       Reorganize_Invalid, Reorganize_Commit, Reorganize_CommitFault,
       SetBestChain_Done, Reorganize_Connect, SetBestChainInner,
       SetBestChainInner_Invalid, SetBestChainInner_CommitFault,
       ReorganizeFails, GiveUp, NewBest, Return, memory

(* AcceptBlock(b) started from a state in which nothing is being accepted: *)
(* every known parent of a block still held is accounted for.              *)
LEMMA StartedHeld ==
    ASSUME OrphanInv, NEW b \in Block, AcceptBlock(b), Started(b),
           accepting = NoBlock, mapOrphanBlocks' \subseteq mapOrphanBlocks,
           failed' = failed
    PROVE  QueueInv' /\ HeldInv'
<1>1. mapBlockIndex' = mapBlockIndex \cup {b}
  BY DEF AcceptBlock
<1>2. /\ QueueInv' /\ (accepting' = b \/ InQueue(b)')
      /\ \A x : InQueue(x) => InQueue(x)'
  <2>1. CASE pc' = "idle"
    <3>1. vWorkQueue' = Append(vWorkQueue, b) /\ accepting' = accepting
      BY <2>1 DEF Started
    <3> QED BY <3>1, AppendQueue DEF QueueInv, OrphanInv
  <2>2. CASE pc' # "idle"
    BY <2>2 DEF Started, QueueInv, OrphanInv, InQueue
  <2> QED BY <2>1, <2>2
<1>3. ASSUME NEW o \in mapOrphanBlocks', hashPrevBlock[o] \in mapBlockIndex'
      PROVE  \/ hashPrevBlock[o] \in failed'
             \/ hashPrevBlock[o] = accepting'
             \/ InQueue(hashPrevBlock[o])'
  <2>1. CASE hashPrevBlock[o] = b
    BY <1>2, <2>1
  <2>2. CASE hashPrevBlock[o] # b
    <3>1. o \in mapOrphanBlocks /\ o \in Block \ {Genesis}
      BY DEF OrphanInv, QueueInv
    <3>2. hashPrevBlock[o] \in mapBlockIndex /\ hashPrevBlock[o] # NoBlock
      BY <1>1, <1>3, <2>2, <3>1, TreeAssumption
    <3>3. hashPrevBlock[o] \in failed \/ InQueue(hashPrevBlock[o])
      BY <3>1, <3>2 DEF OrphanInv, HeldInv
    <3> QED BY <1>2, <3>3
  <2> QED BY <2>1, <2>2
<1> QED BY <1>2, <1>3 DEF HeldInv

(* Releasing a held block removes its stake with it.                       *)
LEMMA ReleaseStake ==
    ASSUME NoStaleStake, NEW o, Release(o)
    PROVE  NoStaleStake'
BY DEF NoStaleStake, Release, ProofOfStake, BlockTxs

(* The invariant is kept by every step.                                    *)
LEMMA OrphanStep ==
    ASSUME OrphanInv, [NodeNext]_nodeVars
    PROVE  OrphanInv'
<1>1. ASSUME NEW b \in Block \ {Genesis}, HoldOrphan(b) PROVE OrphanInv'
  <2>1. UNCHANGED <<mapBlockIndex, vWorkQueue, accepting, failed>>
    BY <1>1 DEF HoldOrphan, vars, memory
  <2>2. QueueInv'
    BY <1>1, <2>1 DEF OrphanInv, QueueInv, HoldOrphan
  <2>3. HeldInv'
    BY <1>1, <2>1 DEF OrphanInv, HeldInv, HoldOrphan, InQueue
  <2>4. OrphansNotIndexed'
    BY <1>1, <2>1 DEF OrphanInv, OrphansNotIndexed, HoldOrphan, Received
  <2>5. NoStaleStake'
    BY <1>1 DEF OrphanInv, NoStaleStake, HoldOrphan, ProofOfStake, BlockTxs
  <2> QED BY <2>2, <2>3, <2>4, <2>5 DEF OrphanInv
<1>2. ASSUME NEW b \in Block \ {Genesis}, ProcessBlock(b) PROVE OrphanInv'
  <2>1. QueueInv' /\ HeldInv'
    BY <1>2, StartedHeld DEF ProcessBlock, Received, Idle
  <2>2. OrphansNotIndexed'
    BY <1>2 DEF OrphanInv, OrphansNotIndexed, ProcessBlock, Received, AcceptBlock
  <2>3. NoStaleStake'
    BY <1>2 DEF OrphanInv, NoStaleStake, ProcessBlock, ProofOfStake, BlockTxs
  <2> QED BY <2>1, <2>2, <2>3 DEF OrphanInv
<1>3. ASSUME NEW b \in Block \ {Genesis}, ProcessBlock_Refused(b) PROVE OrphanInv'
  <2>1. /\ UNCHANGED <<mapBlockIndex, mapOrphanBlocks, setStakeSeenOrphan,
                       vWorkQueue, accepting>>
        /\ failed \subseteq failed'
    BY <1>3 DEF ProcessBlock_Refused, RefuseBlock, memory
  <2> QED BY <2>1 DEF OrphanInv, QueueInv, HeldInv, InQueue, OrphansNotIndexed,
                      NoStaleStake, ProofOfStake, BlockTxs
<1>4. CASE SetBestChainStep
  <2>1. UNCHANGED <<mapBlockIndex, mapOrphanBlocks, setStakeSeenOrphan>>
    BY <1>4, ProcessStepIndex DEF SetBestChainStep
  <2>2. QueueInv' /\ HeldInv'
    <3>1. CASE pc' # "idle"
      <4>1. UNCHANGED <<vWorkQueue, accepting, failed>>
        BY <1>4, <3>1 DEF SetBestChainStep, Returned
      <4> QED BY <2>1, <4>1 DEF OrphanInv, QueueInv, HeldInv, InQueue
    <3>2. CASE pc' = "idle" /\ pindexBest' = accepting
      <4>1. /\ vWorkQueue' = Append(vWorkQueue, accepting)
            /\ accepting' = NoBlock /\ failed' = failed
        BY <1>4, <3>2 DEF SetBestChainStep, Returned
      <4>2. QueueInv
        BY DEF OrphanInv
      <4>3. PICK a \in Block \cup {NoBlock} : a = accepting
        BY <4>2 DEF QueueInv
      <4>4. /\ vWorkQueue' \in Seq(Block \cup {NoBlock})
            /\ InQueue(a)' /\ \A x : InQueue(x) => InQueue(x)'
        BY <4>1, <4>2, <4>3, AppendQueue
      <4> QED BY <2>1, <4>1, <4>3, <4>4 DEF OrphanInv, QueueInv, HeldInv
    <3>3. CASE pc' = "idle" /\ pindexBest' # accepting
      <4>1. /\ UNCHANGED vWorkQueue
            /\ accepting' = NoBlock /\ failed' = failed \cup {accepting}
        BY <1>4, <3>3 DEF SetBestChainStep, Returned
      <4> QED BY <2>1, <4>1 DEF OrphanInv, QueueInv, HeldInv, InQueue
    <3> QED BY <3>1, <3>2, <3>3
  <2>3. OrphansNotIndexed' /\ NoStaleStake'
    BY <2>1 DEF OrphanInv, OrphansNotIndexed, NoStaleStake, ProofOfStake, BlockTxs
  <2> QED BY <2>2, <2>3 DEF OrphanInv
<1>5. CASE NextInQueue
  <2>1. UNCHANGED <<mapBlockIndex, mapOrphanBlocks, setStakeSeenOrphan, accepting, failed>>
    BY <1>5 DEF NextInQueue, vars, memory
  <2>2. /\ vWorkQueue \in Seq(Block \cup {NoBlock}) /\ vWorkQueue # << >>
        /\ vWorkQueue' = Tail(vWorkQueue)
        /\ \A o \in mapOrphanBlocks : hashPrevBlock[o] # Head(vWorkQueue)
    BY <1>5 DEF NextInQueue, OrphanInv, QueueInv, OrphansByPrev
  <2>3. vWorkQueue' \in Seq(Block \cup {NoBlock})
    BY <2>2
  <2>4. ASSUME NEW x, InQueue(x), x # Head(vWorkQueue) PROVE InQueue(x)'
    <3>1. PICK i \in DOMAIN vWorkQueue : vWorkQueue[i] = x
      BY <2>4 DEF InQueue
    <3>2. i \in 2 .. Len(vWorkQueue)
      BY <2>2, <2>4, <3>1
    <3>3. i - 1 \in DOMAIN vWorkQueue' /\ vWorkQueue'[i - 1] = x
      BY <2>2, <3>1, <3>2
    <3> QED BY <3>3 DEF InQueue
  <2>5. QueueInv' /\ HeldInv'
    BY <2>1, <2>2, <2>3, <2>4 DEF OrphanInv, QueueInv, HeldInv
  <2>6. OrphansNotIndexed' /\ NoStaleStake'
    BY <2>1 DEF OrphanInv, OrphansNotIndexed, NoStaleStake, ProofOfStake, BlockTxs
  <2> QED BY <2>5, <2>6 DEF OrphanInv
<1>6. ASSUME NEW o \in Block \ {Genesis}, AcceptOrphan(o) PROVE OrphanInv'
  <2>1. mapOrphanBlocks' = mapOrphanBlocks \ {o} /\ mapBlockIndex' = mapBlockIndex \cup {o}
    BY <1>6 DEF AcceptOrphan, Release, AcceptBlock
  <2>2. QueueInv' /\ HeldInv'
    BY <1>6, <2>1, StartedHeld DEF AcceptOrphan, Waiting
  <2>3. OrphansNotIndexed'
    BY <2>1 DEF OrphanInv, OrphansNotIndexed
  <2>4. NoStaleStake'
    BY <1>6, ReleaseStake DEF OrphanInv, AcceptOrphan
  <2> QED BY <2>2, <2>3, <2>4 DEF OrphanInv
<1>7. ASSUME NEW o \in Block \ {Genesis}, AcceptOrphan_Refused(o) PROVE OrphanInv'
  <2>1. /\ UNCHANGED <<mapBlockIndex, vWorkQueue, accepting>>
        /\ mapOrphanBlocks' = mapOrphanBlocks \ {o} /\ failed \subseteq failed'
    BY <1>7 DEF AcceptOrphan_Refused, RefuseBlock, Release, memory
  <2>2. QueueInv' /\ HeldInv' /\ OrphansNotIndexed'
    BY <2>1 DEF OrphanInv, QueueInv, HeldInv, InQueue, OrphansNotIndexed
  <2>3. NoStaleStake'
    BY <1>7, ReleaseStake DEF OrphanInv, AcceptOrphan_Refused
  <2> QED BY <2>2, <2>3 DEF OrphanInv
<1>8. CASE NodeRestart
  <2>1. /\ mapOrphanBlocks' = {} /\ setStakeSeenOrphan' = {}
        /\ vWorkQueue' = << >> /\ accepting' = NoBlock
    BY <1>8 DEF NodeRestart
  <2> QED BY <2>1 DEF OrphanInv, QueueInv, HeldInv, OrphansNotIndexed, NoStaleStake
<1>9. CASE UNCHANGED nodeVars
  BY <1>9 DEF nodeVars, orphanVars, vars, memory, OrphanInv, QueueInv, HeldInv, InQueue,
              OrphansNotIndexed, NoStaleStake, ProofOfStake, BlockTxs
<1> QED
  BY <1>1, <1>2, <1>3, <1>4, <1>5, <1>6, <1>7, <1>8, <1>9 DEF NodeNext, WorkQueueStep

(* The invariant holds initially.                                          *)
LEMMA OrphanInit == NodeInit => OrphanInv
BY DEF NodeInit, OrphanInv, QueueInv, HeldInv, OrphansNotIndexed, NoStaleStake

(* Between two blocks every held parent has failed.                        *)
LEMMA OrphanInvHeld == OrphanInv => HeldUntilAccepted
<1> SUFFICES ASSUME OrphanInv, Idle, NEW o \in mapOrphanBlocks,
                    hashPrevBlock[o] \in mapBlockIndex
             PROVE  hashPrevBlock[o] \in failed
  BY DEF HeldUntilAccepted
<1>1. hashPrevBlock[o] \in Block /\ hashPrevBlock[o] # NoBlock
  BY TreeAssumption DEF OrphanInv, QueueInv
<1>2. accepting = NoBlock /\ ~ InQueue(hashPrevBlock[o])
  BY DEF Idle, InQueue
<1> QED BY <1>1, <1>2 DEF OrphanInv, HeldInv

(***************************************************************************)
(* ProcessBlock reaches every held block below a block that AcceptBlock    *)
(* accepted, whatever the tree and the order the blocks arrive in; held    *)
(* blocks are never in the block index; no stake outlives its block.       *)
(***************************************************************************)
THEOREM HeldCorrect ==
    NodeSpec => [](HeldUntilAccepted /\ OrphansNotIndexed /\ NoStaleStake)
<1>1. OrphanInv => HeldUntilAccepted /\ OrphansNotIndexed /\ NoStaleStake
  BY OrphanInvHeld DEF OrphanInv
<1> QED BY <1>1, OrphanInit, OrphanStep, PTL DEF NodeSpec

(***************************************************************************)
(* No block is held by ProcessBlock and in the block index at once.        *)
(***************************************************************************)
THEOREM OrphansNotIndexedCorrect == NodeSpec => []OrphansNotIndexed
  BY HeldCorrect, PTL

(***************************************************************************)
(* setStakeSeenOrphan never names the stake of a block that is not held.   *)
(***************************************************************************)
THEOREM NoStaleStakeCorrect == NodeSpec => []NoStaleStake
  BY HeldCorrect, PTL

LEMMA NodeStepIsChainStep == [NodeNext]_nodeVars => [Next]_vars
  BY DEF NodeNext, nodeVars, HoldOrphan, ProcessBlock, ProcessBlock_Refused,
         SetBestChainStep, WorkQueueStep, NextInQueue, AcceptOrphan,
         AcceptOrphan_Refused, NodeRestart, Next

(***************************************************************************)
(* ProcessBlock drives the chain only through AcceptBlock and what follows *)
(* it: the theorems about Chain hold of a node that holds blocks back.     *)
(***************************************************************************)
THEOREM NodeImplementsChain == NodeSpec => Spec
<1>1. NodeInit => Init
  BY DEF NodeInit
<1> QED BY <1>1, NodeStepIsChainStep, PTL DEF NodeSpec, Spec
===========================================================================
