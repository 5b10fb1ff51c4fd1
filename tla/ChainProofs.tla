---------------------------- MODULE ChainProofs ----------------------------
(***************************************************************************)
(* Proofs about Chain, for every block tree, every set of transactions and *)
(* any number of crashes and failing commits.                              *)
(***************************************************************************)
EXTENDS Chain, WellFoundedInduction, TLAPS

-----------------------------------------------------------------------------
(* The inductive invariant.                                                *)

(* db and view are records; their fields are typed by TypeOK.              *)
Shape ==
    /\ db = [index |-> db.index, next |-> db.next, best |-> db.best,
             txindex |-> db.txindex, invalidTrust |-> db.invalidTrust]
    /\ view = [next |-> view.next, txindex |-> view.txindex]

(* No transaction is open: what is read is what is committed.              *)
Committed == view.next = db.next /\ view.txindex = db.txindex

(* The committed best block is the best block, or, once blocks have been   *)
(* skipped, an ancestor of it.                                             *)
DiskBehindMemory ==
    /\ db.best \in Ancestors[pindexBest]
    /\ skipped = {} => db.best = pindexBest

AtIdle ==
    pc = "idle" =>
        /\ pindexNew = NoBlock /\ pindexIntermediate = NoBlock /\ tip = NoBlock
        /\ Committed /\ DiskBehindMemory

AtBegin ==
    pc = "begin" =>
        /\ pindexNew \in Block \ {Genesis}
        /\ nChainTrust[pindexNew] > nChainTrust[pindexBest]
        /\ pindexIntermediate = NoBlock /\ tip = NoBlock
        /\ Committed /\ DiskBehindMemory

AtReorganize ==
    pc = "reorganize" =>
        /\ pindexNew \in Block
        /\ pindexIntermediate \in Ancestors[pindexNew] \ {Genesis}
        /\ nChainTrust[pindexIntermediate] > nChainTrust[pindexBest]
        /\ tip \in Ancestors[pindexBest] \cup Ancestors[pindexIntermediate]
        /\ Ancestors[pindexBest] \cap Ancestors[pindexIntermediate] \subseteq Ancestors[tip]
        /\ DiskBehindMemory

AtInner ==
    pc = "inner" =>
        /\ pindexNew \in Block \ {Genesis}
        /\ tip \in Ancestors[pindexNew]
        /\ pindexIntermediate = NoBlock =>
              hashPrevBlock[pindexNew] = pindexBest /\ tip \in {pindexBest, pindexNew}
        /\ \/ db.best = tip
           \/ /\ pindexIntermediate = NoBlock /\ tip = pindexBest
              /\ DiskBehindMemory
        /\ Committed

(* Where SetBestChain is, and how far memory may be ahead of the disk.     *)
ControlInv ==
    /\ TypeOK
    /\ Shape
    /\ mapBlockIndex = db.index
    /\ AtIdle /\ AtBegin /\ AtReorganize /\ AtInner

(* The open transaction has brought the links from the best chain to tip.  *)
Relinked ==
    \A x \in Block :
        /\ \A c \in Ancestors[tip] \ Ancestors[pindexBest] :
              c # Genesis /\ hashPrevBlock[c] = x => view.next[x] = c
        /\ (\A c \in Ancestors[tip] \ Ancestors[pindexBest] :
              c # Genesis => hashPrevBlock[c] # x) =>
              view.next[x] =
                IF \E d \in Ancestors[pindexBest] \ Ancestors[tip] :
                      d # Genesis /\ hashPrevBlock[d] = x
                THEN NoBlock ELSE pnext[x]

LinkInv ==
    /\ LinksMatchDisk
    /\ pc = "reorganize" => Relinked

-----------------------------------------------------------------------------
(* The block tree.                                                         *)

LEMMA PrevLemma ==
    ASSUME NEW b \in Block, b # Genesis
    PROVE  /\ hashPrevBlock[b] \in Block
           /\ hashPrevBlock[b] \in Ancestors[b]
           /\ Ancestors[hashPrevBlock[b]] = Ancestors[b] \ {b}
           /\ nHeight[hashPrevBlock[b]] < nHeight[b]
           /\ nChainTrust[hashPrevBlock[b]] < nChainTrust[b]
<1>1. hashPrevBlock[b] \in Block
  BY TreeAssumption
<1>2. /\ nHeight[b] = nHeight[hashPrevBlock[b]] + 1
      /\ Ancestors[b] = {b} \cup Ancestors[hashPrevBlock[b]]
      /\ hashPrevBlock[b] \in Ancestors[hashPrevBlock[b]]
  BY <1>1, TreeAssumption
<1>3. hashPrevBlock[b] # b /\ nHeight[hashPrevBlock[b]] < nHeight[b]
  BY <1>1, <1>2, TreeAssumption
<1>4. b \notin Ancestors[hashPrevBlock[b]]
  BY <1>1, <1>3, TreeAssumption
<1>5. nChainTrust[hashPrevBlock[b]] < nChainTrust[b]
  BY <1>1, <1>2, <1>3, TreeAssumption
<1> QED BY <1>1, <1>2, <1>3, <1>4, <1>5

LEMMA AncestorLemma ==
    ASSUME NEW b \in Block, NEW a \in Ancestors[b]
    PROVE  /\ a \in Block
           /\ b \in Ancestors[b]
           /\ Ancestors[a] \subseteq Ancestors[b]
           /\ nHeight[a] <= nHeight[b]
           /\ nChainTrust[a] <= nChainTrust[b]
           /\ a # b => b # Genesis /\ a \in Ancestors[hashPrevBlock[b]]
<1>1. a \in Block /\ b \in Ancestors[b] /\ Ancestors[a] \subseteq Ancestors[b]
  BY TreeAssumption
<1>2. nHeight[a] <= nHeight[b] /\ nChainTrust[a] <= nChainTrust[b]
  BY <1>1, TreeAssumption
<1>3. ASSUME a # b PROVE b # Genesis /\ a \in Ancestors[hashPrevBlock[b]]
  <2>1. b # Genesis BY <1>3, TreeAssumption
  <2> QED BY <2>1, <1>3, PrevLemma
<1> QED BY <1>1, <1>2, <1>3

(* Below a common descendant, two blocks with the same parent are equal.   *)
LEMMA OnlyChild ==
    ASSUME NEW b \in Block, NEW c \in Ancestors[b], NEW d \in Ancestors[b],
           c # Genesis, d # Genesis, hashPrevBlock[c] = hashPrevBlock[d]
    PROVE  c = d
<1>1. c \in Block /\ d \in Block
  BY AncestorLemma
<1>2. nHeight[c] = nHeight[d]
  BY <1>1, TreeAssumption
<1>3. c \in Ancestors[d]
  BY <1>1, <1>2, TreeAssumption
<1> QED BY <1>1, <1>2, <1>3, TreeAssumption

-----------------------------------------------------------------------------
(* ControlInv is inductive.                                                *)

LEMMA ControlInit == Init => ControlInv
  BY TreeAssumption, BoundAssumption
  DEF Init, ControlInv, TypeOK, Shape, AtIdle, AtBegin, AtReorganize, AtInner,
      Committed, DiskBehindMemory

LEMMA ControlStutter == ControlInv /\ UNCHANGED vars => ControlInv'
  BY DEF ControlInv, TypeOK, Shape, AtIdle, AtBegin, AtReorganize, AtInner,
         Committed, DiskBehindMemory, vars, memory, locals, history, counters

LEMMA ControlAccept ==
    ASSUME ControlInv, NEW b \in Block \ {Genesis}, AcceptBlock(b)
    PROVE  ControlInv'
<1>1. pc = "idle" /\ Committed /\ DiskBehindMemory
  BY DEF ControlInv, AtIdle, AcceptBlock, Arrives
<1>2. TypeOK' /\ Shape' /\ (mapBlockIndex = db.index)'
  BY DEF ControlInv, TypeOK, Shape, AcceptBlock, history, counters
<1>3. Committed' /\ DiskBehindMemory'
  BY <1>1 DEF ControlInv, TypeOK, Shape, Committed, DiskBehindMemory,
              AcceptBlock, history, counters
<1>4. AtIdle' /\ AtBegin' /\ AtReorganize' /\ AtInner'
  BY <1>1, <1>3 DEF ControlInv, AtIdle, AtBegin, AtReorganize, AtInner, AcceptBlock
<1> QED BY <1>2, <1>4 DEF ControlInv

LEMMA ControlRefuse ==
    ASSUME ControlInv, NEW b \in Block \ {Genesis}, RefuseBlock(b)
    PROVE  ControlInv'
  BY DEF ControlInv, TypeOK, Shape, AtIdle, AtBegin, AtReorganize, AtInner,
         Committed, DiskBehindMemory, RefuseBlock, memory, locals, counters

LEMMA ControlBegin ==
    ASSUME ControlInv, ExtendBest \/ BeginReorganize
    PROVE  ControlInv'
<1>1. /\ pc = "begin" /\ Committed /\ DiskBehindMemory
      /\ pindexNew \in Block \ {Genesis} /\ pindexBest \in Block
      /\ pindexIntermediate = NoBlock
  BY DEF ControlInv, TypeOK, AtBegin, ExtendBest, BeginReorganize
<1>2. Committed' /\ DiskBehindMemory'
  BY <1>1 DEF Committed, DiskBehindMemory, ExtendBest, BeginReorganize, memory, history
<1>3. pindexBest \in Ancestors[pindexBest]
  BY <1>1, AncestorLemma, TreeAssumption
<1>4. CASE ExtendBest
  <2>1. pindexBest \in Ancestors[pindexNew]
    BY <1>1, <1>4, PrevLemma DEF ExtendBest
  <2> QED BY <1>1, <1>2, <1>4, <2>1
      DEF ControlInv, TypeOK, Shape, AtIdle, AtBegin, AtReorganize, AtInner,
          ExtendBest, memory, history, counters
<1>5. CASE BeginReorganize
  BY <1>1, <1>2, <1>3, <1>5
  DEF ControlInv, TypeOK, Shape, AtIdle, AtBegin, AtReorganize, AtInner,
      BeginReorganize, IsIntermediate, memory, history, counters
<1> QED BY <1>4, <1>5

(* What a block to be connected next is.                                   *)
LEMMA ConnectNextLemma ==
    ASSUME NEW t \in Block, NEW b \in Block, ConnectNext(b, t)
    PROVE  /\ b # Genesis /\ b \in Ancestors[t] /\ tip = hashPrevBlock[b]
           /\ tip \in Block /\ tip \in Ancestors[t]
           /\ Ancestors[b] = {b} \cup Ancestors[tip]
           /\ b \notin Ancestors[tip]
  BY PrevLemma, AncestorLemma DEF ConnectNext

LEMMA ConnectTyped ==
    ASSUME NEW s, NEW b \in Block \ {Genesis}, TypeOK,
           s.next \in [Block -> Block \cup {NoBlock}]
    PROVE  /\ ConnectBlock(s, b).next \in [Block -> Block \cup {NoBlock}]
           /\ ConnectBlock(s, b) = [next |-> ConnectBlock(s, b).next,
                                    txindex |-> ConnectBlock(s, b).txindex]
  BY TreeAssumption DEF ConnectBlock, TypeOK

LEMMA DisconnectTyped ==
    ASSUME NEW s, NEW b \in Block \ {Genesis},
           s.next \in [Block -> Block \cup {NoBlock}]
    PROVE  /\ DisconnectBlock(s, b).next \in [Block -> Block \cup {NoBlock}]
           /\ DisconnectBlock(s, b) = [next |-> DisconnectBlock(s, b).next,
                                       txindex |-> DisconnectBlock(s, b).txindex]
  BY TreeAssumption DEF DisconnectBlock

LEMMA ControlDisconnect ==
    ASSUME ControlInv, Reorganize_Disconnect
    PROVE  ControlInv'
<1>1. /\ pc = "reorganize" /\ tip \notin Ancestors[pindexIntermediate]
      /\ tip \in Ancestors[pindexBest] /\ pindexBest \in Block
      /\ pindexIntermediate \in Block
  BY AncestorLemma DEF ControlInv, TypeOK, AtReorganize, Reorganize_Disconnect, Disconnecting
<1>2. tip \in Block \ {Genesis}
  BY <1>1, AncestorLemma, TreeAssumption
<1>3. /\ hashPrevBlock[tip] \in Block
      /\ hashPrevBlock[tip] \in Ancestors[pindexBest]
      /\ Ancestors[hashPrevBlock[tip]] = Ancestors[tip] \ {tip}
  BY <1>1, <1>2, PrevLemma, AncestorLemma
<1>4. TypeOK' /\ Shape' /\ (mapBlockIndex = db.index)'
  BY <1>2, <1>3, DisconnectTyped
  DEF ControlInv, TypeOK, Shape, Reorganize_Disconnect, memory, history, counters
<1>5. AtReorganize'
  BY <1>1, <1>3
  DEF ControlInv, AtReorganize, DiskBehindMemory, Reorganize_Disconnect, memory, history
<1>6. AtIdle' /\ AtBegin' /\ AtInner'
  BY <1>1 DEF AtIdle, AtBegin, AtInner, Reorganize_Disconnect
<1> QED BY <1>4, <1>5, <1>6 DEF ControlInv

LEMMA ControlConnect ==
    ASSUME ControlInv, NEW b \in Block, Reorganize_Connect(b)
    PROVE  ControlInv'
<1>1. /\ pc = "reorganize" /\ pindexIntermediate \in Block /\ pindexBest \in Block
  BY AncestorLemma DEF ControlInv, TypeOK, AtReorganize, Reorganize_Connect
<1>2. /\ b # Genesis /\ b \in Ancestors[pindexIntermediate]
      /\ Ancestors[tip] \subseteq Ancestors[b]
  BY <1>1, ConnectNextLemma DEF Reorganize_Connect
<1>4. TypeOK' /\ Shape' /\ (mapBlockIndex = db.index)'
  BY <1>2, ConnectTyped
  DEF ControlInv, TypeOK, Shape, Reorganize_Connect, memory, history, counters
<1>5. AtReorganize'
  BY <1>1, <1>2
  DEF ControlInv, AtReorganize, DiskBehindMemory, Reorganize_Connect, memory, history
<1>6. AtIdle' /\ AtBegin' /\ AtInner'
  BY <1>1 DEF AtIdle, AtBegin, AtInner, Reorganize_Connect
<1> QED BY <1>4, <1>5, <1>6 DEF ControlInv

LEMMA ControlReorganizeFails ==
    ASSUME ControlInv, pc = "reorganize", ReorganizeFails,
           nCrash' \in 0 .. MaxCrash, nFault' \in 0 .. MaxFault
    PROVE  ControlInv'
<1>1. DiskBehindMemory /\ pindexNew \in Block
  BY DEF ControlInv, AtReorganize
<1>2. TypeOK' /\ Shape' /\ (mapBlockIndex = db.index)'
  BY <1>1, TreeAssumption
  DEF ControlInv, TypeOK, Shape, ReorganizeFails, TxnAbort, InvalidChainFound,
      InvalidTrust, Return, history
<1>3. Committed' /\ DiskBehindMemory'
  BY <1>1 DEF ControlInv, Shape, Committed, DiskBehindMemory, ReorganizeFails,
              TxnAbort, InvalidChainFound, history
<1> QED BY <1>2, <1>3
    DEF ControlInv, AtIdle, AtBegin, AtReorganize, AtInner, ReorganizeFails, Return

LEMMA ControlReorganizeCommit ==
    ASSUME ControlInv, Reorganize_Commit
    PROVE  ControlInv'
<1>1. /\ pc = "reorganize" /\ tip = pindexIntermediate
      /\ pindexNew \in Block /\ tip \in Ancestors[pindexNew] \ {Genesis}
      /\ tip \in Block /\ pindexNew # Genesis
  BY AncestorLemma, TreeAssumption DEF ControlInv, AtReorganize, Reorganize_Commit
<1>2. RelinkedNext \in [Block -> Block \cup {NoBlock}]
  BY <1>1, TreeAssumption DEF RelinkedNext, ControlInv, TypeOK
<1>3. TypeOK' /\ Shape' /\ (mapBlockIndex = db.index)'
  BY <1>1, <1>2
  DEF ControlInv, TypeOK, Shape, Reorganize_Commit, TxnCommit, history, counters
<1>4. AtInner'
  BY <1>1, TreeAssumption DEF ControlInv, Shape, AtInner, Committed, Reorganize_Commit, TxnCommit
<1> QED BY <1>3, <1>4
    DEF ControlInv, AtIdle, AtBegin, AtReorganize, Reorganize_Commit

(* The committed best block while SetBestChainInner connects block b.      *)
LEMMA InnerLemma ==
    ASSUME ControlInv, NEW b \in Block, pc = "inner", ConnectNext(b, pindexNew)
    PROVE  /\ pindexNew \in Block \ {Genesis} /\ tip \in Block
           /\ b # Genesis /\ b \in Ancestors[pindexNew] /\ tip = hashPrevBlock[b]
           /\ Ancestors[b] = {b} \cup Ancestors[tip] /\ b \notin Ancestors[tip]
           /\ db.best \in Ancestors[tip]
           /\ skipped = {} => db.best = tip
           /\ pindexIntermediate = NoBlock =>
                 /\ tip = pindexBest /\ b = pindexNew
                 /\ db.best = tip \/ DiskBehindMemory
           /\ pindexIntermediate # NoBlock => db.best = tip
<1>1. pindexNew \in Block \ {Genesis}
  BY DEF ControlInv, AtInner
<1>2. /\ b # Genesis /\ b \in Ancestors[pindexNew] /\ tip = hashPrevBlock[b]
      /\ tip \in Block /\ tip \in Ancestors[pindexNew]
      /\ Ancestors[b] = {b} \cup Ancestors[tip] /\ b \notin Ancestors[tip]
      /\ tip \in Ancestors[tip]
  BY <1>1, ConnectNextLemma, TreeAssumption
<1>3. ASSUME pindexIntermediate = NoBlock PROVE tip = pindexBest /\ b = pindexNew
  <2>1. hashPrevBlock[pindexNew] = pindexBest /\ tip \in {pindexBest, pindexNew}
    BY <1>3 DEF ControlInv, AtInner
  <2>2. tip = pindexBest
    <3>1. ASSUME tip = pindexNew PROVE FALSE
      BY <3>1, <1>1, <1>2
    <3> QED BY <2>1, <3>1
  <2>3. b = pindexNew
    BY <1>1, <1>2, <2>1, <2>2, OnlyChild, AncestorLemma
  <2> QED BY <2>2, <2>3
<1>4. db.best \in Ancestors[tip] /\ (skipped = {} => db.best = tip)
  BY <1>2 DEF ControlInv, AtInner, DiskBehindMemory
<1> QED BY <1>1, <1>2, <1>3, <1>4 DEF ControlInv, AtInner

LEMMA ControlInner ==
    ASSUME ControlInv, NEW b \in Block, SetBestChainInner(b)
    PROVE  ControlInv'
<1>1. /\ pindexNew \in Block \ {Genesis} /\ b # Genesis /\ b \in Ancestors[pindexNew]
      /\ pindexIntermediate = NoBlock => b = pindexNew
      /\ hashPrevBlock[b] \in Block
  BY InnerLemma DEF SetBestChainInner
<1>2. TypeOK' /\ Shape' /\ (mapBlockIndex = db.index)'
  <2>1. /\ ConnectBlock(view, b).next \in [Block -> Block \cup {NoBlock}]
        /\ ConnectBlock(view, b) = [next |-> ConnectBlock(view, b).next,
                                    txindex |-> ConnectBlock(view, b).txindex]
    BY <1>1, ConnectTyped DEF ControlInv, TypeOK
  <2> QED BY <1>1, <2>1
      DEF ControlInv, TypeOK, Shape, SetBestChainInner, TxnCommit, history, counters
<1>3. AtInner'
  BY <1>1 DEF ControlInv, AtInner, Shape, Committed, SetBestChainInner, TxnCommit
<1> QED BY <1>2, <1>3
    DEF ControlInv, AtIdle, AtBegin, AtReorganize, SetBestChainInner

LEMMA ControlGiveUp ==
    ASSUME ControlInv, NEW b \in Block, pc = "inner", ConnectNext(b, pindexNew), GiveUp
    PROVE  /\ pc' = "idle"
           /\ pindexNew' = NoBlock /\ pindexIntermediate' = NoBlock /\ tip' = NoBlock
           /\ pindexBest' \in Block /\ skipped' \subseteq Block
           /\ db.best \in Ancestors[pindexBest']
           /\ skipped' = {} => db.best = pindexBest' /\ skipped = {}
<1>1. CASE pindexIntermediate = NoBlock
  BY <1>1, InnerLemma DEF GiveUp, Return, ControlInv, TypeOK
<1>2. CASE pindexIntermediate # NoBlock
  <2>1. b \in Ancestors[pindexNew] \ Ancestors[tip] /\ pindexNew \in Block
    BY InnerLemma
  <2>2. skipped' # {} /\ skipped' \subseteq Block
    BY <1>2, <2>1, TreeAssumption DEF GiveUp, ControlInv, TypeOK
  <2>3. db.best \in Ancestors[pindexNew]
    BY <1>2, <2>1, InnerLemma DEF ControlInv, AtInner
  <2> QED BY <1>2, <2>1, <2>2, <2>3 DEF GiveUp, NewBest, Return
<1> QED BY <1>1, <1>2

LEMMA ControlInnerFails ==
    ASSUME ControlInv, NEW b \in Block,
           SetBestChainInner_Invalid(b) \/ SetBestChainInner_CommitFault(b)
    PROVE  ControlInv'
<1>1. pc = "inner" /\ ConnectNext(b, pindexNew) /\ GiveUp /\ Committed
  BY DEF SetBestChainInner_Invalid, SetBestChainInner_CommitFault, ControlInv, AtInner
<1>2. /\ pc' = "idle"
      /\ pindexNew' = NoBlock /\ pindexIntermediate' = NoBlock /\ tip' = NoBlock
      /\ pindexBest' \in Block /\ skipped' \subseteq Block
      /\ db.best \in Ancestors[pindexBest']
      /\ skipped' = {} => db.best = pindexBest' /\ skipped = {}
  BY <1>1, ControlGiveUp
<1>3. TypeOK' /\ Shape' /\ (mapBlockIndex = db.index)'
  <2>1. CASE SetBestChainInner_Invalid(b)
    BY <1>2, <2>1, TreeAssumption
    DEF ControlInv, TypeOK, Shape, SetBestChainInner_Invalid, InvalidChainFound,
        InvalidTrust, counters
  <2>2. CASE SetBestChainInner_CommitFault(b)
    BY <1>2, <2>2, BoundAssumption
    DEF ControlInv, TypeOK, Shape, SetBestChainInner_CommitFault
  <2> QED BY <2>1, <2>2
<1>4. Committed' /\ DiskBehindMemory'
  <2>1. db'.best = db.best /\ db'.next = db.next /\ db'.txindex = db.txindex
    BY DEF ControlInv, Shape, SetBestChainInner_Invalid, SetBestChainInner_CommitFault,
           InvalidChainFound
  <2> QED BY <1>1, <1>2, <2>1
      DEF Committed, DiskBehindMemory, SetBestChainInner_Invalid,
          SetBestChainInner_CommitFault
<1> QED BY <1>2, <1>3, <1>4 DEF ControlInv, AtIdle, AtBegin, AtReorganize, AtInner

LEMMA ControlDone ==
    ASSUME ControlInv, SetBestChain_Done
    PROVE  ControlInv'
<1>1. /\ pc = "inner" /\ tip = pindexNew /\ pindexNew \in Block \ {Genesis}
      /\ Committed
  BY DEF ControlInv, AtInner, SetBestChain_Done
<1>2. db.best = pindexNew
  <2>1. pindexIntermediate = NoBlock => pindexNew # pindexBest
    BY <1>1, PrevLemma DEF ControlInv, AtInner
  <2> QED BY <1>1, <2>1 DEF ControlInv, AtInner
<1>3. pindexNew \in Ancestors[pindexNew]
  BY <1>1, TreeAssumption
<1>4. TypeOK' /\ Shape' /\ (mapBlockIndex = db.index)'
  BY <1>1 DEF ControlInv, TypeOK, Shape, SetBestChain_Done, NewBest, Return,
              history, counters
<1> QED BY <1>1, <1>2, <1>3, <1>4
    DEF ControlInv, AtIdle, AtBegin, AtReorganize, AtInner, Committed,
        DiskBehindMemory, SetBestChain_Done, NewBest, Return

LEMMA ControlRestart ==
    ASSUME ControlInv, Restart
    PROVE  ControlInv'
<1>1. TypeOK' /\ Shape' /\ (mapBlockIndex = db.index)'
  BY BoundAssumption DEF ControlInv, TypeOK, Shape, Restart, TxnAbort, Return, history
<1>2. Committed' /\ DiskBehindMemory'
  BY TreeAssumption DEF ControlInv, TypeOK, Committed, DiskBehindMemory, Restart, TxnAbort
<1> QED BY <1>1, <1>2
    DEF ControlInv, AtIdle, AtBegin, AtReorganize, AtInner, Restart, Return

LEMMA ControlNext == ControlInv /\ [Next]_vars => ControlInv'
<1> SUFFICES ASSUME ControlInv, [Next]_vars PROVE ControlInv'
  OBVIOUS
<1>1. CASE UNCHANGED vars
  BY <1>1, ControlStutter
<1>2. ASSUME NEW b \in Block \ {Genesis}, AcceptBlock(b) \/ RefuseBlock(b)
      PROVE  ControlInv'
  BY <1>2, ControlAccept, ControlRefuse
<1>3. CASE ExtendBest \/ BeginReorganize
  BY <1>3, ControlBegin
<1>4. CASE Reorganize_Disconnect
  BY <1>4, ControlDisconnect
<1>5. CASE Reorganize_Invalid
  <2>1. pc = "reorganize" /\ nCrash' \in 0 .. MaxCrash /\ nFault' \in 0 .. MaxFault
    BY <1>5 DEF Reorganize_Invalid, Disconnecting, counters, ControlInv, TypeOK
  <2> QED BY <1>5, <2>1, ControlReorganizeFails DEF Reorganize_Invalid
<1>6. CASE Reorganize_Commit
  BY <1>6, ControlReorganizeCommit
<1>7. CASE Reorganize_CommitFault
  <2>1. pc = "reorganize" /\ nCrash' \in 0 .. MaxCrash /\ nFault' \in 0 .. MaxFault
    BY <1>7, BoundAssumption DEF Reorganize_CommitFault, ControlInv, TypeOK
  <2> QED BY <1>7, <2>1, ControlReorganizeFails DEF Reorganize_CommitFault
<1>8. CASE SetBestChain_Done
  BY <1>8, ControlDone
<1>9. ASSUME NEW b \in Block, Reorganize_Connect(b) PROVE ControlInv'
  BY <1>9, ControlConnect
<1>10. ASSUME NEW b \in Block, SetBestChainInner(b) PROVE ControlInv'
  BY <1>10, ControlInner
<1>11. ASSUME NEW b \in Block,
              SetBestChainInner_Invalid(b) \/ SetBestChainInner_CommitFault(b)
       PROVE  ControlInv'
  BY <1>11, ControlInnerFails
<1>12. CASE Restart
  BY <1>12, ControlRestart
<1> QED
  BY <1>1, <1>2, <1>3, <1>4, <1>5, <1>6, <1>7, <1>8, <1>9, <1>10, <1>11, <1>12
  DEF Next, ProcessStep

(***************************************************************************)
(* The control invariant is inductive: where SetBestChain is determines    *)
(* what may be uncommitted and how far memory may be ahead of the disk.    *)
(***************************************************************************)
THEOREM ControlCorrect == Spec => []ControlInv
  BY ControlInit, ControlNext, PTL DEF Spec

(***************************************************************************)
(* Every variable keeps its type.                                          *)
(***************************************************************************)
THEOREM TypeCorrect == Spec => []TypeOK
  BY ControlCorrect, PTL DEF ControlInv

(***************************************************************************)
(* MemoryMatchesDisk and DiskBestOnBestBranch are invariants: between two  *)
(* blocks a restart would find the same block index, and its best block is *)
(* on the branch of pindexBest, even after SetBestChain gave up on blocks. *)
(***************************************************************************)
THEOREM MemoryCorrect == Spec => [](MemoryMatchesDisk /\ DiskBestOnBestBranch)
<1>1. ControlInv => MemoryMatchesDisk /\ DiskBestOnBestBranch
  BY DEF ControlInv, AtIdle, DiskBehindMemory, MemoryMatchesDisk, DiskBestOnBestBranch
<1> QED BY <1>1, ControlCorrect, PTL

(***************************************************************************)
(* Between two blocks the best block on disk lies on the branch of         *)
(* pindexBest, so that LoadBlockIndex after a crash never lands on a       *)
(* branch SetBestChain has left.                                           *)
(***************************************************************************)
THEOREM BestBranchCorrect == Spec => []DiskBestOnBestBranch
  BY MemoryCorrect, PTL

(***************************************************************************)
(* No step, failure or restart replaces the best chain on disk by one of   *)
(* less trust.                                                             *)
(***************************************************************************)
THEOREM DiskTrustCorrect == Spec => DiskTrustNeverFalls
<1>1. ASSUME ControlInv, [Next]_vars
      PROVE  [nChainTrust[db'.best] >= nChainTrust[db.best]]_vars
  <2> USE <1>1
  <2>0. db.best \in Block /\ pindexBest \in Block /\ nChainTrust[db.best] \in Nat
    BY TreeAssumption DEF ControlInv, TypeOK
  <2>1. CASE Reorganize_Commit
    <3>1. /\ pindexIntermediate \in Block
          /\ nChainTrust[pindexIntermediate] > nChainTrust[pindexBest]
          /\ db.best \in Ancestors[pindexBest]
      BY <2>1, AncestorLemma
      DEF ControlInv, AtReorganize, DiskBehindMemory, Reorganize_Commit
    <3>2. nChainTrust[db.best] <= nChainTrust[pindexBest]
      BY <2>0, <3>1, AncestorLemma
    <3>3. db'.best = pindexIntermediate
      BY <2>1 DEF Reorganize_Commit, TxnCommit, ControlInv, Shape
    <3> QED BY <2>0, <3>1, <3>2, <3>3, TreeAssumption
  <2>2. ASSUME NEW b \in Block, SetBestChainInner(b)
        PROVE  nChainTrust[db'.best] >= nChainTrust[db.best]
    <3>1. db.best \in Ancestors[b]
      BY <2>2, InnerLemma DEF SetBestChainInner
    <3>2. db'.best = b
      BY <2>2 DEF SetBestChainInner, TxnCommit, ControlInv, Shape
    <3> QED BY <2>0, <3>1, <3>2, AncestorLemma, TreeAssumption
  <2>3. ASSUME NEW b \in Block \ {Genesis}, AcceptBlock(b) PROVE db'.best = db.best
    BY <2>3 DEF AcceptBlock, ControlInv, Shape
  <2>4. ASSUME NEW b \in Block, SetBestChainInner_Invalid(b) PROVE db'.best = db.best
    BY <2>4 DEF SetBestChainInner_Invalid, InvalidChainFound, ControlInv, Shape
  <2>5. CASE Reorganize_Invalid \/ Reorganize_CommitFault
    <3>1. db'.best = db.best
      BY <2>5 DEF Reorganize_Invalid, Reorganize_CommitFault, ReorganizeFails,
                  InvalidChainFound, ControlInv, Shape
    <3> QED BY <2>0, <3>1
  <2>6. ASSUME NEW b \in Block \ {Genesis}, RefuseBlock(b) PROVE UNCHANGED db
    BY <2>6 DEF RefuseBlock
  <2>7. ASSUME NEW b \in Block, Reorganize_Connect(b) \/ SetBestChainInner_CommitFault(b)
        PROVE  UNCHANGED db
    BY <2>7 DEF Reorganize_Connect, SetBestChainInner_CommitFault
  <2>8. CASE ExtendBest \/ BeginReorganize \/ Reorganize_Disconnect
             \/ SetBestChain_Done \/ Restart
    <3>1. UNCHANGED db
      BY <2>8 DEF ExtendBest, BeginReorganize, Reorganize_Disconnect,
                  SetBestChain_Done, Restart
    <3> QED BY <2>0, <3>1
  <2> QED BY <2>0, <2>1, <2>2, <2>3, <2>4, <2>5, <2>6, <2>7, <2>8 DEF Next, ProcessStep
<1> QED BY <1>1, ControlCorrect, PTL DEF Spec, DiskTrustNeverFalls

-----------------------------------------------------------------------------
(* LinkInv is inductive, given ControlInv.                                 *)

LEMMA LinkBegin ==
    ASSUME ControlInv, LinkInv, BeginReorganize
    PROVE  LinkInv'
<1>1. Committed /\ pnext = db.next
  BY DEF ControlInv, AtBegin, BeginReorganize, LinkInv, LinksMatchDisk
<1> QED BY <1>1
    DEF LinkInv, LinksMatchDisk, Relinked, Committed, BeginReorganize, memory

LEMMA LinkDisconnect ==
    ASSUME ControlInv, LinkInv, Reorganize_Disconnect
    PROVE  LinkInv'
<1>1. /\ pc = "reorganize" /\ tip \notin Ancestors[pindexIntermediate]
      /\ tip \in Ancestors[pindexBest] /\ pindexBest \in Block
      /\ pindexIntermediate \in Block /\ Relinked
      /\ view.next \in [Block -> Block \cup {NoBlock}]
  BY AncestorLemma
  DEF ControlInv, TypeOK, AtReorganize, Reorganize_Disconnect, Disconnecting, LinkInv
<1>2. tip \in Block \ {Genesis} /\ Ancestors[tip] \subseteq Ancestors[pindexBest]
  BY <1>1, AncestorLemma, TreeAssumption
<1>3. Ancestors[hashPrevBlock[tip]] = Ancestors[tip] \ {tip} /\ tip \in Ancestors[tip]
  BY <1>2, PrevLemma, TreeAssumption
<1>4. view'.next = [view.next EXCEPT ![hashPrevBlock[tip]] = NoBlock]
  BY DEF Reorganize_Disconnect, DisconnectBlock
<1>5. Relinked'
  <2> SUFFICES ASSUME NEW x \in Block
               PROVE  view'.next[x] =
                        IF \E d \in Ancestors[pindexBest] \ Ancestors[hashPrevBlock[tip]] :
                              d # Genesis /\ hashPrevBlock[d] = x
                        THEN NoBlock ELSE pnext[x]
    BY <1>2, <1>3 DEF Relinked, Reorganize_Disconnect, memory
  <2>1. view.next[x] = IF \E d \in Ancestors[pindexBest] \ Ancestors[tip] :
                              d # Genesis /\ hashPrevBlock[d] = x
                       THEN NoBlock ELSE pnext[x]
    BY <1>1, <1>2 DEF Relinked
  <2>2. CASE x = hashPrevBlock[tip]
    BY <1>1, <1>2, <1>3, <1>4, <2>2
  <2>3. CASE x # hashPrevBlock[tip]
    BY <1>1, <1>3, <1>4, <2>1, <2>3
  <2> QED BY <2>2, <2>3
<1> QED BY <1>5 DEF LinkInv, LinksMatchDisk, Reorganize_Disconnect, memory

LEMMA LinkConnect ==
    ASSUME ControlInv, LinkInv, NEW b \in Block, Reorganize_Connect(b)
    PROVE  LinkInv'
<1>1. /\ pc = "reorganize" /\ pindexIntermediate \in Block /\ pindexBest \in Block
      /\ Ancestors[pindexBest] \cap Ancestors[pindexIntermediate] \subseteq Ancestors[tip]
      /\ view.next \in [Block -> Block \cup {NoBlock}] /\ Relinked
  BY AncestorLemma DEF ControlInv, TypeOK, AtReorganize, Reorganize_Connect, LinkInv
<1>2. /\ b # Genesis /\ b \in Ancestors[pindexIntermediate]
      /\ tip \in Block /\ tip = hashPrevBlock[b] /\ b # tip
      /\ Ancestors[b] = {b} \cup Ancestors[tip] /\ b \notin Ancestors[tip]
  BY <1>1, ConnectNextLemma, TreeAssumption DEF Reorganize_Connect
<1>3. b \notin Ancestors[pindexBest]
  BY <1>1, <1>2
<1>4. view'.next = [view.next EXCEPT ![b] = pnext[b], ![tip] = b]
  BY <1>2 DEF Reorganize_Connect, ConnectBlock
<1>5. Relinked'
  <2> DEFINE C == Ancestors[tip] \ Ancestors[pindexBest]
             E == Ancestors[b] \ Ancestors[pindexBest]
  <2>1. E = C \cup {b} /\ Ancestors[pindexBest] \ Ancestors[b]
                             = Ancestors[pindexBest] \ Ancestors[tip]
    BY <1>2, <1>3
  <2>2. ASSUME NEW x \in Block
        PROVE /\ \A c \in E : c # Genesis /\ hashPrevBlock[c] = x => view'.next[x] = c
              /\ (\A c \in E : c # Genesis => hashPrevBlock[c] # x) =>
                   view'.next[x] =
                     IF \E d \in Ancestors[pindexBest] \ Ancestors[b] :
                           d # Genesis /\ hashPrevBlock[d] = x
                     THEN NoBlock ELSE pnext[x]
    <3>1. CASE x = tip
      <4>1. view'.next[x] = b
        BY <1>1, <1>2, <1>4, <3>1
      <4>2. \A c \in E : c # Genesis /\ hashPrevBlock[c] = x => c = b
        BY <1>2, <3>1, OnlyChild, TreeAssumption
      <4> QED BY <4>1, <4>2, <1>2, <2>1, <3>1
    <3>2. CASE x = b
      <4>1. view'.next[x] = pnext[x]
        BY <1>1, <1>2, <1>4, <3>2
      <4>2. \A c \in E : c # Genesis => hashPrevBlock[c] # x
        <5>1. ASSUME NEW c \in E, c # Genesis, hashPrevBlock[c] = b PROVE FALSE
          <6>1. c \in Block /\ nHeight[c] <= nHeight[b]
            BY <5>1, AncestorLemma
          <6>2. nHeight[b] < nHeight[c]
            BY <5>1, <6>1, PrevLemma
          <6> QED BY <6>1, <6>2, TreeAssumption
        <5> QED BY <5>1, <3>2
      <4>3. \A d \in Ancestors[pindexBest] : d # Genesis => hashPrevBlock[d] # x
        BY <1>1, <1>3, <3>2, PrevLemma, AncestorLemma
      <4> QED BY <4>1, <4>2, <4>3
    <3>3. CASE x # tip /\ x # b
      <4>1. view'.next[x] = view.next[x]
        BY <1>1, <1>4, <3>3
      <4>2. \A c \in E : hashPrevBlock[c] = x => c \in C
        BY <1>2, <2>1, <3>3
      <4> QED BY <4>1, <4>2, <1>1, <2>1 DEF Relinked
    <3> QED BY <3>1, <3>2, <3>3
  <2> QED BY <2>2 DEF Relinked, Reorganize_Connect, memory
<1> QED BY <1>5 DEF LinkInv, LinksMatchDisk, Reorganize_Connect, memory

LEMMA LinkCommit ==
    ASSUME ControlInv, LinkInv, Reorganize_Commit
    PROVE  LinkInv'
<1>1. /\ pc = "reorganize" /\ tip = pindexIntermediate /\ tip \in Block
      /\ pindexBest \in Block
      /\ view.next \in [Block -> Block \cup {NoBlock}] /\ Relinked
  BY AncestorLemma DEF ControlInv, TypeOK, AtReorganize, Reorganize_Commit, LinkInv
<1>2. Genesis \in Ancestors[tip] /\ Genesis \in Ancestors[pindexBest]
  BY <1>1, TreeAssumption
<1>3. ASSUME NEW x \in Block PROVE view.next[x] = RelinkedNext[x]
  <2> DEFINE C == Ancestors[tip] \ Ancestors[pindexBest]
  <2>1. CASE \E c \in C : hashPrevBlock[c] = x
    <3> DEFINE c0 == CHOOSE c \in C : hashPrevBlock[c] = x
    <3>1. c0 \in C /\ hashPrevBlock[c0] = x
      BY <2>1
    <3>2. RelinkedNext[x] = c0
      BY <1>1, <2>1 DEF RelinkedNext
    <3> HIDE DEF c0
    <3> QED BY <1>1, <1>2, <3>1, <3>2 DEF Relinked
  <2>2. CASE ~ \E c \in C : hashPrevBlock[c] = x
    <3>1. RelinkedNext[x] = IF \E d \in Ancestors[pindexBest] \ Ancestors[tip] :
                                    hashPrevBlock[d] = x
                            THEN NoBlock ELSE pnext[x]
      BY <1>1, <2>2 DEF RelinkedNext
    <3> QED BY <1>1, <1>2, <2>2, <3>1 DEF Relinked
  <2> QED BY <2>1, <2>2
<1>4. view.next = RelinkedNext
  BY <1>1, <1>3 DEF RelinkedNext
<1> QED BY <1>4 DEF LinkInv, LinksMatchDisk, Reorganize_Commit, TxnCommit, ControlInv, Shape

LEMMA LinkInner ==
    ASSUME ControlInv, LinkInv, NEW b \in Block, SetBestChainInner(b)
    PROVE  LinkInv'
<1>1. /\ view.next = pnext /\ pc = "inner"
      /\ pnext \in [Block -> Block \cup {NoBlock}]
      /\ hashPrevBlock[b] \in Block
  BY InnerLemma DEF ControlInv, TypeOK, AtInner, Committed, LinkInv, LinksMatchDisk,
                    SetBestChainInner
<1>2. db'.next = [view.next EXCEPT ![b] = pnext[b], ![hashPrevBlock[b]] = b]
  BY DEF SetBestChainInner, TxnCommit, ConnectBlock, ControlInv, Shape
<1>3. db'.next = pnext'
  BY <1>1, <1>2 DEF SetBestChainInner
<1> QED BY <1>1, <1>3 DEF LinkInv, LinksMatchDisk, SetBestChainInner

LEMMA LinkNext == ControlInv /\ LinkInv /\ [Next]_vars => LinkInv'
<1> SUFFICES ASSUME ControlInv, LinkInv, [Next]_vars PROVE LinkInv'
  OBVIOUS
<1>1. CASE UNCHANGED vars
  BY <1>1 DEF LinkInv, LinksMatchDisk, Relinked, vars, memory, locals
<1>2. ASSUME NEW b \in Block \ {Genesis}, AcceptBlock(b) PROVE LinkInv'
  BY <1>2 DEF LinkInv, LinksMatchDisk, AcceptBlock, Arrives, ControlInv, Shape
<1>3. ASSUME NEW b \in Block \ {Genesis}, RefuseBlock(b) PROVE LinkInv'
  BY <1>3 DEF LinkInv, LinksMatchDisk, RefuseBlock, Arrives, memory, locals
<1>4. CASE ExtendBest
  BY <1>4 DEF LinkInv, LinksMatchDisk, ExtendBest, memory
<1>5. CASE Reorganize_Invalid \/ Reorganize_CommitFault
  BY <1>5 DEF LinkInv, LinksMatchDisk, Reorganize_Invalid, Reorganize_CommitFault,
              ReorganizeFails, InvalidChainFound, Return, ControlInv, Shape
<1>6. ASSUME NEW b \in Block, SetBestChainInner_Invalid(b) PROVE LinkInv'
  BY <1>6, ControlGiveUp
  DEF LinkInv, LinksMatchDisk, SetBestChainInner_Invalid, InvalidChainFound,
      ControlInv, Shape
<1>7. ASSUME NEW b \in Block, SetBestChainInner_CommitFault(b) PROVE LinkInv'
  BY <1>7, ControlGiveUp DEF LinkInv, LinksMatchDisk, SetBestChainInner_CommitFault
<1>8. CASE SetBestChain_Done
  BY <1>8 DEF LinkInv, LinksMatchDisk, SetBestChain_Done, NewBest, Return
<1>9. CASE Restart
  BY <1>9 DEF LinkInv, LinksMatchDisk, Restart, Return
<1> QED
  BY <1>1, <1>2, <1>3, <1>4, <1>5, <1>6, <1>7, <1>8, <1>9,
     LinkBegin, LinkDisconnect, LinkConnect, LinkCommit, LinkInner
  DEF Next, ProcessStep

(***************************************************************************)
(* pnext in memory is hashNext on disk in every reachable state.           *)
(***************************************************************************)
THEOREM LinksCorrect == Spec => []LinksMatchDisk
<1>1. Init => LinkInv
  BY DEF Init, LinkInv, LinksMatchDisk
<1> QED BY <1>1, LinkNext, ControlCorrect, PTL DEF Spec, LinkInv

-----------------------------------------------------------------------------
(* Connecting and disconnecting a block keep the index that of its chain.  *)

LEMMA LeastNat ==
    ASSUME NEW S \in SUBSET Nat, S # {}
    PROVE  \E m \in S : \A k \in S : m <= k
<1> DEFINE R == OpToRel(<, Nat)
<1>1. IsWellFoundedOn(R, Nat)
  BY NatLessThanWellFounded
<1>2. \A x, y \in Nat : x < y => <<x, y>> \in R
  BY Zenon DEF OpToRel
<1> HIDE DEF R
<1>3. PICK m \in S : \A y \in S : ~ (<<y, m>> \in R)
  BY <1>1, WFMin
<1>4. ASSUME NEW k \in S PROVE m <= k
  <2>1. ~ (k < m)
    BY <1>2, <1>3
  <2> QED BY <2>1
<1> QED BY <1>4

LEMMA PosLemma ==
    ASSUME NEW a, NEW b, NEW c, NEW d
    PROVE  /\ <<a, b>> # NullPos
           /\ <<a, b>> = <<c, d>> => a = c /\ b = d
           /\ <<a, b>>[1] = a
  BY DEF NullPos

LEMMA ChainToLemma ==
    ASSUME NEW b \in Block, b # Genesis
    PROVE  /\ ChainTo(b) = ChainTo(hashPrevBlock[b]) \cup {b}
           /\ b \notin ChainTo(hashPrevBlock[b])
           /\ ChainTo(b) \subseteq Block
           /\ \A x \in ChainTo(hashPrevBlock[b]) : x \in Block /\ nHeight[x] < nHeight[b]
<1>1. hashPrevBlock[b] \in Block /\ Ancestors[b] = {b} \cup Ancestors[hashPrevBlock[b]]
      /\ b \notin Ancestors[hashPrevBlock[b]]
  BY PrevLemma, TreeAssumption
<1>2. ASSUME NEW x \in Ancestors[hashPrevBlock[b]] PROVE x \in Block /\ nHeight[x] < nHeight[b]
  BY <1>1, TreeAssumption
<1> QED BY <1>1, <1>2, TreeAssumption DEF ChainTo

LEMMA OutPointLemma ==
    ASSUME NEW b \in Block, NEW t \in BlockTxs(b), NEW o \in vin[t]
    PROVE  o = <<o[1], o[2]>> /\ o[1] \in Tx /\ o[2] \in Nat /\ t \in Tx
<1>1. t \in Tx
  BY TxAssumption DEF BlockTxs
<1> QED BY <1>1, TxAssumption

(* No transaction of a block that connects is in the index already.        *)
LEMMA FreshLemma ==
    ASSUME NEW b \in Block, b # Genesis, NEW idx,
           Matches(idx, ChainTo(hashPrevBlock[b])), ConnectOK(idx, b)
    PROVE  BlockTxs(b) \cap DOMAIN idx = {}
<1> DEFINE Old == {i \in DOMAIN vtx[b] : vtx[b][i] \in DOMAIN idx}
<1>1. SUFFICES ASSUME Old # {} PROVE FALSE
  BY DEF BlockTxs
<1>2. DOMAIN vtx[b] = 1 .. Len(vtx[b]) /\ Len(vtx[b]) \in Nat
  BY TxAssumption
<1>3. PICK m \in Old : \A k \in Old : m <= k
  <2>1. Old \in SUBSET Nat
    BY <1>2
  <2> HIDE DEF Old
  <2> QED BY <1>1, <2>1, LeastNat
<1> DEFINE t == vtx[b][m]
<1>4. PICK x \in ChainTo(hashPrevBlock[b]) : t \in BlockTxs(x)
  BY DEF Matches
<1>5. x \in Block /\ nHeight[x] < nHeight[b]
  BY <1>4, ChainToLemma
<1>6. vin[t] # {}
  <2>1. PICK j \in DOMAIN vtx[x] : vtx[x][j] = t
    BY <1>4 DEF BlockTxs
  <2>2. nHeight[x] # nHeight[b]
    BY <1>5, TreeAssumption
  <2> QED BY <1>5, <2>1, <2>2, TxAssumption
<1>7. PICK o \in vin[t] : TRUE
  BY <1>6
<1>8. o[1] \in DOMAIN idx /\ idx[o[1]].vSpent[o[2]] = <<x, t>>
  BY <1>4 DEF Matches, Indexed
<1>9. o[1] \notin Earlier(b, m)
  <2>1. ASSUME NEW j \in 1 .. m - 1, vtx[b][j] = o[1] PROVE FALSE
    <3>1. j \in DOMAIN vtx[b] /\ j < m
      BY <1>2
    <3> QED BY <1>3, <1>8, <2>1, <3>1, <1>2
  <2> QED BY <2>1 DEF Earlier
<1>10. idx[o[1]].vSpent[o[2]] = NullPos
  BY <1>9 DEF ConnectOK, ConnectInputs
<1> QED BY <1>8, <1>10, PosLemma

(* An output is spent by at most one transaction of a block that connects. *)
LEMMA OneSpender ==
    ASSUME NEW b \in Block, NEW idx, ConnectOK(idx, b),
           NEW o, NEW s \in Spenders(b, o), NEW t \in Spenders(b, o)
    PROVE  s = t
<1>1. DOMAIN vtx[b] = 1 .. Len(vtx[b]) /\ Len(vtx[b]) \in Nat
  BY TxAssumption
<1>2. PICK i \in DOMAIN vtx[b] : s = vtx[b][i]
  BY DEF Spenders, BlockTxs
<1>3. PICK j \in DOMAIN vtx[b] : t = vtx[b][j]
  BY DEF Spenders, BlockTxs
<1>4. o \in vin[s] /\ o \in vin[t]
  BY DEF Spenders
<1>5. ~ (i < j)
  <2>1. i < j => s \in Earlier(b, j)
    BY <1>1, <1>2 DEF Earlier
  <2> QED BY <1>3, <1>4, <2>1 DEF ConnectOK, ConnectInputs
<1>6. ~ (j < i)
  <2>1. j < i => t \in Earlier(b, i)
    BY <1>1, <1>3 DEF Earlier
  <2> QED BY <1>2, <1>4, <2>1 DEF ConnectOK, ConnectInputs
<1>7. i = j
  BY <1>1, <1>5, <1>6
<1> QED BY <1>2, <1>3, <1>7

LEMMA ConnectMatches ==
    ASSUME NEW b \in Block, b # Genesis, NEW idx,
           Matches(idx, ChainTo(hashPrevBlock[b])), ConnectOK(idx, b)
    PROVE  Matches(ConnectedIndex(idx, b), ChainTo(b))
<1> DEFINE S == ChainTo(hashPrevBlock[b])
           new == ConnectedIndex(idx, b)
<1>1. /\ ChainTo(b) = S \cup {b} /\ S \subseteq Block
      /\ \A x \in S : nHeight[x] < nHeight[b]
  BY ChainToLemma
<1>2. BlockTxs(b) \cap DOMAIN idx = {}
  BY FreshLemma
<1>3. DOMAIN new = DOMAIN idx \cup BlockTxs(b)
  BY DEF ConnectedIndex
<1>4. DOMAIN new = UNION {BlockTxs(x) : x \in ChainTo(b)}
  <2>1. DOMAIN idx = UNION {BlockTxs(x) : x \in S}
    BY DEF Matches
  <2> HIDE DEF S, new
  <2> QED BY <1>1, <1>3, <2>1
<1>5. ASSUME NEW t \in DOMAIN new
      PROVE  /\ new[t].pos = IF t \in BlockTxs(b) THEN <<b, t>> ELSE idx[t].pos
             /\ DOMAIN new[t].vSpent = 0 .. nOut[t] - 1
             /\ \A n \in 0 .. nOut[t] - 1 :
                  new[t].vSpent[n] =
                    IF Spenders(b, <<t, n>>) # {}
                    THEN <<b, CHOOSE s \in Spenders(b, <<t, n>>) : TRUE>>
                    ELSE IF t \in BlockTxs(b) THEN NullPos ELSE idx[t].vSpent[n]
  BY <1>3 DEF ConnectedIndex
<1>6. ASSUME NEW x \in S, NEW t \in BlockTxs(x)
      PROVE  /\ t \in DOMAIN idx /\ t \notin BlockTxs(b)
             /\ idx[t].pos = <<x, t>> /\ DOMAIN idx[t].vSpent = 0 .. nOut[t] - 1
  BY <1>2 DEF Matches
<1>7. ASSUME NEW x \in ChainTo(b), NEW t \in BlockTxs(x)
      PROVE  /\ new[t].pos = <<x, t>>
             /\ DOMAIN new[t].vSpent = 0 .. nOut[t] - 1
  <2>1. t \in DOMAIN new
    BY <1>4
  <2>2. CASE x = b
    BY <1>5, <2>1, <2>2
  <2>3. CASE x \in S
    BY <1>5, <1>6, <2>1, <2>3
  <2> QED BY <1>1, <2>2, <2>3
<1>8. ASSUME NEW x \in ChainTo(b), NEW t \in BlockTxs(x), NEW n \in DOMAIN new[t].vSpent,
             new[t].vSpent[n] # NullPos
      PROVE  \E y \in ChainTo(b) : \E s \in Spenders(y, <<t, n>>) :
                 new[t].vSpent[n] = <<y, s>>
  <2>1. t \in DOMAIN new /\ n \in 0 .. nOut[t] - 1
    BY <1>4, <1>7
  <2> HIDE DEF S, new
  <2>2. CASE Spenders(b, <<t, n>>) # {}
    <3> DEFINE s0 == CHOOSE s \in Spenders(b, <<t, n>>) : TRUE
    <3>1. s0 \in Spenders(b, <<t, n>>)
      BY <2>2
    <3>2. new[t].vSpent[n] = <<b, s0>>
      BY <1>5, <2>1, <2>2
    <3>3. b \in ChainTo(b)
      BY <1>1
    <3> HIDE DEF s0
    <3> QED BY <3>1, <3>2, <3>3
  <2>3. CASE Spenders(b, <<t, n>>) = {}
    <3>1. t \notin BlockTxs(b) /\ new[t].vSpent[n] = idx[t].vSpent[n]
      BY <1>5, <1>8, <2>1, <2>3
    <3>2. x \in S
      BY <1>1, <3>1
    <3>3. n \in DOMAIN idx[t].vSpent /\ idx[t].vSpent[n] # NullPos
      BY <1>6, <1>8, <2>1, <3>1, <3>2
    <3>4. \E y \in S : \E s \in Spenders(y, <<t, n>>) : idx[t].vSpent[n] = <<y, s>>
      <4>1. Matches(idx, S)
        BY DEF S
      <4> QED BY <3>2, <3>3, <4>1 DEF Matches
    <3> QED BY <1>1, <3>1, <3>4
  <2> QED BY <2>2, <2>3
<1>9. ASSUME NEW t \in BlockTxs(b), NEW o \in vin[t]
      PROVE  /\ Indexed(new, o)
             /\ new[o[1]].vSpent[o[2]] = <<b, t>>
             /\ nHeight[new[o[1]].pos[1]] <= nHeight[b]
  <2>1. PICK i \in DOMAIN vtx[b] : t = vtx[b][i]
    BY DEF BlockTxs
  <2>2. o = <<o[1], o[2]>> /\ o[2] \in Nat
    BY OutPointLemma
  <2>3. DOMAIN vtx[b] = 1 .. Len(vtx[b]) /\ Len(vtx[b]) \in Nat
    BY TxAssumption
  <2>4. o[1] \in DOMAIN new /\ o[2] \in 0 .. nOut[o[1]] - 1
    <3>1. CASE o[1] \in Earlier(b, i)
      <4>1. Earlier(b, i) \subseteq BlockTxs(b)
        BY <2>3 DEF Earlier, BlockTxs
      <4> QED BY <1>3, <2>1, <3>1, <4>1 DEF ConnectOK, FetchInputs
    <3>2. CASE o[1] \notin Earlier(b, i)
      <4>1. o[1] \in DOMAIN idx /\ o[2] \in DOMAIN idx[o[1]].vSpent
        BY <2>1, <3>2 DEF ConnectOK, FetchInputs, Indexed
      <4>2. DOMAIN idx[o[1]].vSpent = 0 .. nOut[o[1]] - 1
        BY <4>1 DEF Matches
      <4> QED BY <1>3, <4>1, <4>2
    <3> QED BY <3>1, <3>2
  <2>5. t \in Spenders(b, <<o[1], o[2]>>)
    BY <2>2 DEF Spenders
  <2>6. (CHOOSE s \in Spenders(b, <<o[1], o[2]>>) : TRUE) = t
    BY <2>5, OneSpender
  <2>7. Indexed(new, o) /\ new[o[1]].vSpent[o[2]] = <<b, t>>
    BY <1>5, <2>4, <2>5, <2>6 DEF Indexed
  <2>8. nHeight[new[o[1]].pos[1]] <= nHeight[b]
    <3>1. PICK y \in ChainTo(b) : o[1] \in BlockTxs(y)
      BY <1>4, <2>4
    <3>2. new[o[1]].pos[1] = y
      BY <1>7, <3>1, PosLemma
    <3> QED BY <1>1, <3>1, <3>2, TreeAssumption
  <2> QED BY <2>7, <2>8
<1>10. ASSUME NEW x \in S, NEW t \in BlockTxs(x), NEW o \in vin[t]
       PROVE  /\ Indexed(new, o)
              /\ new[o[1]].vSpent[o[2]] = <<x, t>>
              /\ nHeight[new[o[1]].pos[1]] <= nHeight[x]
  <2>1. /\ o[1] \in DOMAIN idx /\ o[2] \in DOMAIN idx[o[1]].vSpent
        /\ idx[o[1]].vSpent[o[2]] = <<x, t>>
        /\ nHeight[idx[o[1]].pos[1]] <= nHeight[x]
    BY DEF Matches, Indexed
  <2>2. o[1] \in DOMAIN new /\ o[1] \notin BlockTxs(b) /\ o = <<o[1], o[2]>>
    BY <1>1, <1>2, <1>3, <2>1, OutPointLemma
  <2>3. o[2] \in 0 .. nOut[o[1]] - 1
    <3>1. PICK y \in S : o[1] \in BlockTxs(y)
      BY <2>1 DEF Matches
    <3> QED BY <1>6, <2>1, <3>1
  <2>4. Spenders(b, o) = {}
    <3>1. ASSUME NEW s \in Spenders(b, o) PROVE FALSE
      <4>1. PICK i \in DOMAIN vtx[b] : s = vtx[b][i] /\ o \in vin[vtx[b][i]]
        BY DEF Spenders, BlockTxs
      <4>2. Earlier(b, i) \subseteq BlockTxs(b)
        <5>1. DOMAIN vtx[b] = 1 .. Len(vtx[b]) /\ Len(vtx[b]) \in Nat
          BY TxAssumption
        <5>2. 1 .. i - 1 \subseteq DOMAIN vtx[b]
          BY <5>1
        <5> QED BY <5>2 DEF Earlier, BlockTxs
      <4>3. idx[o[1]].vSpent[o[2]] = NullPos
        BY <2>2, <4>1, <4>2 DEF ConnectOK, ConnectInputs
      <4> QED BY <2>1, <4>3, PosLemma
    <3> QED BY <3>1
  <2>5. Spenders(b, <<o[1], o[2]>>) = {}
    BY <2>2, <2>4
  <2> HIDE DEF new
  <2>6. new[o[1]].vSpent[o[2]] = idx[o[1]].vSpent[o[2]]
    BY <1>5, <2>2, <2>3, <2>5
  <2>7. new[o[1]].pos = idx[o[1]].pos /\ DOMAIN new[o[1]].vSpent = 0 .. nOut[o[1]] - 1
    BY <1>5, <2>2
  <2> QED BY <2>1, <2>2, <2>3, <2>6, <2>7 DEF Indexed
<1>11. ASSUME NEW x \in ChainTo(b), NEW t \in BlockTxs(x), NEW o \in vin[t]
       PROVE  /\ Indexed(new, o)
              /\ new[o[1]].vSpent[o[2]] = <<x, t>>
              /\ nHeight[new[o[1]].pos[1]] <= nHeight[x]
  <2>1. CASE x = b
    BY <1>9, <2>1
  <2>2. CASE x \in S
    BY <1>10, <2>2
  <2> QED BY <1>1, <2>1, <2>2
<1> HIDE DEF S, new
<1>12. Matches(new, ChainTo(b))
  <2>1. ASSUME NEW x \in ChainTo(b), NEW t \in BlockTxs(x)
        PROVE  /\ new[t].pos = <<x, t>>
               /\ DOMAIN new[t].vSpent = 0 .. nOut[t] - 1
               /\ \A n \in DOMAIN new[t].vSpent : new[t].vSpent[n] # NullPos =>
                     \E y \in ChainTo(b) : \E s \in Spenders(y, <<t, n>>) :
                         new[t].vSpent[n] = <<y, s>>
               /\ \A o \in vin[t] : /\ Indexed(new, o)
                                    /\ new[o[1]].vSpent[o[2]] = <<x, t>>
                                    /\ nHeight[new[o[1]].pos[1]] <= nHeight[x]
    BY <1>7, <1>8, <1>11
  <2> QED BY <1>4, <2>1, Zenon DEF Matches
<1> QED BY <1>12 DEF new

LEMMA DisconnectMatches ==
    ASSUME NEW b \in Block, b # Genesis, NEW idx, Matches(idx, ChainTo(b))
    PROVE  Matches(DisconnectInputs(idx, b), ChainTo(hashPrevBlock[b]))
<1> DEFINE S == ChainTo(hashPrevBlock[b])
           new == DisconnectInputs(idx, b)
<1>1. /\ ChainTo(b) = S \cup {b} /\ S \subseteq Block /\ b \notin S
      /\ \A x \in S : nHeight[x] < nHeight[b]
  BY ChainToLemma
<1>2. ASSUME NEW x \in S, NEW t \in BlockTxs(x)
      PROVE  t \in DOMAIN idx /\ t \notin BlockTxs(b)
  BY <1>1, PosLemma DEF Matches
<1>3. DOMAIN new = DOMAIN idx \ BlockTxs(b)
  BY DEF DisconnectInputs
<1>4. DOMAIN new = UNION {BlockTxs(x) : x \in S}
  <2>1. DOMAIN idx = UNION {BlockTxs(x) : x \in ChainTo(b)}
    BY DEF Matches
  <2> HIDE DEF S, new
  <2> QED BY <1>1, <1>2, <1>3, <2>1
<1>5. ASSUME NEW t \in DOMAIN new
      PROVE  /\ new[t].pos = idx[t].pos
             /\ DOMAIN new[t].vSpent = DOMAIN idx[t].vSpent
             /\ \A n \in DOMAIN idx[t].vSpent :
                  new[t].vSpent[n] =
                    IF Spenders(b, <<t, n>>) # {} THEN NullPos ELSE idx[t].vSpent[n]
  BY <1>3 DEF DisconnectInputs
<1>6. ASSUME NEW x \in S, NEW t \in BlockTxs(x)
      PROVE  /\ new[t].pos = <<x, t>>
             /\ DOMAIN new[t].vSpent = 0 .. nOut[t] - 1
             /\ \A n \in DOMAIN new[t].vSpent : new[t].vSpent[n] # NullPos =>
                  \E y \in S : \E s \in Spenders(y, <<t, n>>) : new[t].vSpent[n] = <<y, s>>
  <2>1. t \in DOMAIN new /\ x \in ChainTo(b)
    BY <1>1, <1>4
  <2>2. /\ idx[t].pos = <<x, t>>
        /\ DOMAIN idx[t].vSpent = 0 .. nOut[t] - 1
    BY <2>1 DEF Matches
  <2>3. ASSUME NEW n \in DOMAIN new[t].vSpent, new[t].vSpent[n] # NullPos
        PROVE  \E y \in S : \E s \in Spenders(y, <<t, n>>) : new[t].vSpent[n] = <<y, s>>
    <3>1. /\ n \in DOMAIN idx[t].vSpent /\ Spenders(b, <<t, n>>) = {}
          /\ new[t].vSpent[n] = idx[t].vSpent[n]
      BY <1>5, <2>1, <2>3
    <3>2. PICK y \in ChainTo(b) : \E s \in Spenders(y, <<t, n>>) :
              idx[t].vSpent[n] = <<y, s>>
      BY <2>1, <2>3, <3>1 DEF Matches
    <3>3. y # b
      BY <3>1, <3>2
    <3> QED BY <1>1, <3>1, <3>2, <3>3
  <2> QED BY <1>5, <2>1, <2>2, <2>3
<1>7. ASSUME NEW x \in S, NEW t \in BlockTxs(x), NEW o \in vin[t]
      PROVE  /\ Indexed(new, o)
             /\ new[o[1]].vSpent[o[2]] = <<x, t>>
             /\ nHeight[new[o[1]].pos[1]] <= nHeight[x]
  <2>1. /\ o[1] \in DOMAIN idx /\ o[2] \in DOMAIN idx[o[1]].vSpent
        /\ idx[o[1]].vSpent[o[2]] = <<x, t>>
        /\ nHeight[idx[o[1]].pos[1]] <= nHeight[x]
    BY <1>1 DEF Matches, Indexed
  <2>2. o[1] \notin BlockTxs(b)
    <3>1. ASSUME o[1] \in BlockTxs(b) PROVE FALSE
      <4>1. idx[o[1]].pos = <<b, o[1]>>
        BY <1>1, <3>1 DEF Matches
      <4>2. nHeight[b] <= nHeight[x] /\ nHeight[x] < nHeight[b]
        BY <1>1, <2>1, <4>1, PosLemma
      <4> QED BY <1>1, <4>2, TreeAssumption
    <3> QED BY <3>1
  <2>3. o[1] \in DOMAIN new /\ o = <<o[1], o[2]>>
    BY <1>1, <1>3, <2>1, <2>2, OutPointLemma
  <2>4. Spenders(b, o) = {}
    <3>1. ASSUME NEW s \in Spenders(b, o) PROVE FALSE
      <4>1. idx[o[1]].vSpent[o[2]] = <<b, s>>
        BY <1>1 DEF Matches, Spenders
      <4> QED BY <1>1, <2>1, <4>1, PosLemma
    <3> QED BY <3>1
  <2>5. Spenders(b, <<o[1], o[2]>>) = {}
    BY <2>3, <2>4
  <2> QED BY <1>5, <2>1, <2>3, <2>5 DEF Indexed
<1> HIDE DEF S, new
<1>8. Matches(new, S)
  BY <1>4, <1>6, <1>7 DEF Matches
<1> QED BY <1>8 DEF new, S

(***************************************************************************)
(* The index on disk is that of the best chain on disk, and, while blocks  *)
(* are disconnected and connected, the index in the open transaction is    *)
(* that of the chain to tip.                                               *)
(***************************************************************************)
IndexInv ==
    /\ TxIndexMatchesChain
    /\ pc = "reorganize" /\ skipped = {} => Matches(view.txindex, ChainTo(tip))

LEMMA IndexSame ==
    ASSUME IndexInv, db'.txindex = db.txindex, db'.best = db.best,
           skipped \subseteq skipped', pc' # "reorganize"
    PROVE  IndexInv'
<1>1. skipped' = {} => skipped = {}
  OBVIOUS
<1> QED BY <1>1 DEF IndexInv, TxIndexMatchesChain

LEMMA IndexNext == ControlInv /\ IndexInv /\ [Next]_vars => IndexInv'
<1> SUFFICES ASSUME ControlInv, IndexInv, [Next]_vars PROVE IndexInv'
  OBVIOUS
<1>1. CASE UNCHANGED vars
  BY <1>1 DEF IndexInv, TxIndexMatchesChain, vars, locals, history
<1>2. ASSUME NEW b \in Block \ {Genesis}, AcceptBlock(b) PROVE IndexInv'
  <2>1. /\ db'.txindex = db.txindex /\ db'.best = db.best
        /\ skipped' = skipped /\ pc' # "reorganize"
    BY <1>2 DEF AcceptBlock, Arrives, history, ControlInv, Shape
  <2> QED BY <2>1, IndexSame
<1>3. ASSUME NEW b \in Block \ {Genesis}, RefuseBlock(b) PROVE IndexInv'
  BY <1>3, IndexSame DEF RefuseBlock, Arrives, locals
<1>4. CASE ExtendBest
  BY <1>4, IndexSame DEF ExtendBest, history
<1>5. CASE BeginReorganize
  <2>1. Committed /\ DiskBehindMemory /\ tip' = pindexBest /\ view' = view /\ db' = db
        /\ skipped' = skipped
    BY <1>5 DEF BeginReorganize, ControlInv, AtBegin, history
  <2>2. skipped = {} => Matches(view'.txindex, ChainTo(tip'))
    BY <2>1 DEF IndexInv, TxIndexMatchesChain, Committed, DiskBehindMemory
  <2> QED BY <2>1, <2>2 DEF IndexInv, TxIndexMatchesChain
<1>6. CASE Reorganize_Disconnect
  <2>1. /\ tip \in Block \ {Genesis} /\ pc = "reorganize"
        /\ pindexIntermediate \in Block
    BY <1>6, TreeAssumption, AncestorLemma
    DEF Reorganize_Disconnect, Disconnecting, ControlInv, TypeOK, AtReorganize
  <2>2. view'.txindex = DisconnectInputs(view.txindex, tip) /\ tip' = hashPrevBlock[tip]
    BY <1>6 DEF Reorganize_Disconnect, DisconnectBlock
  <2>3. skipped = {} => Matches(view'.txindex, ChainTo(tip'))
    BY <2>1, <2>2, DisconnectMatches DEF IndexInv
  <2> QED BY <1>6, <2>3 DEF Reorganize_Disconnect, history, IndexInv, TxIndexMatchesChain
<1>7. ASSUME NEW b \in Block, Reorganize_Connect(b) PROVE IndexInv'
  <2>1. /\ b # Genesis /\ tip = hashPrevBlock[b] /\ pc = "reorganize"
        /\ ConnectOK(view.txindex, b)
    BY <1>7 DEF Reorganize_Connect, ConnectNext, Connects
  <2>2. view'.txindex = ConnectedIndex(view.txindex, b) /\ tip' = b
    BY <1>7 DEF Reorganize_Connect, ConnectBlock
  <2>3. skipped = {} => Matches(view'.txindex, ChainTo(tip'))
    BY <2>1, <2>2, ConnectMatches DEF IndexInv
  <2> QED BY <1>7, <2>3 DEF Reorganize_Connect, history, IndexInv, TxIndexMatchesChain
<1>8. CASE Reorganize_Invalid \/ Reorganize_CommitFault
  <2>1. /\ db'.txindex = db.txindex /\ db'.best = db.best
        /\ skipped' = skipped /\ pc' # "reorganize"
    BY <1>8 DEF Reorganize_Invalid, Reorganize_CommitFault, ReorganizeFails,
                InvalidChainFound, Return, history, ControlInv, Shape
  <2> QED BY <2>1, IndexSame
<1>9. CASE Reorganize_Commit
  <2>1. /\ db'.txindex = view.txindex /\ db'.best = tip /\ skipped' = skipped
        /\ pc = "reorganize" /\ pc' # "reorganize"
    BY <1>9 DEF Reorganize_Commit, TxnCommit, history, ControlInv, Shape
  <2> QED BY <2>1 DEF IndexInv, TxIndexMatchesChain
<1>10. ASSUME NEW b \in Block, SetBestChainInner(b) PROVE IndexInv'
  <2>1. /\ b # Genesis /\ tip = hashPrevBlock[b] /\ pc = "inner"
        /\ ConnectOK(view.txindex, b)
    BY <1>10 DEF SetBestChainInner, ConnectNext, Connects
  <2>2. skipped = {} => Matches(view.txindex, ChainTo(tip))
    BY <2>1 DEF ControlInv, AtInner, Committed, DiskBehindMemory, IndexInv,
                TxIndexMatchesChain
  <2>3. /\ db'.txindex = ConnectedIndex(view.txindex, b) /\ db'.best = b
        /\ skipped' = skipped /\ pc' = pc
    BY <1>10 DEF SetBestChainInner, TxnCommit, ConnectBlock, history, ControlInv, Shape
  <2>4. skipped = {} => Matches(db'.txindex, ChainTo(db'.best))
    BY <2>1, <2>2, <2>3, ConnectMatches
  <2> QED BY <2>1, <2>3, <2>4 DEF IndexInv, TxIndexMatchesChain
<1>11. ASSUME NEW b \in Block,
              SetBestChainInner_Invalid(b) \/ SetBestChainInner_CommitFault(b)
       PROVE  IndexInv'
  <2>1. /\ db'.txindex = db.txindex /\ db'.best = db.best
        /\ skipped \subseteq skipped' /\ pc' # "reorganize"
    BY <1>11 DEF SetBestChainInner_Invalid, SetBestChainInner_CommitFault, GiveUp,
                 NewBest, Return, InvalidChainFound, ControlInv, Shape
  <2> QED BY <2>1, IndexSame
<1>12. CASE SetBestChain_Done
  BY <1>12, IndexSame DEF SetBestChain_Done, NewBest, Return, history
<1>13. CASE Restart
  BY <1>13, IndexSame DEF Restart, Return, history
<1> QED
  BY <1>1, <1>2, <1>3, <1>4, <1>5, <1>6, <1>7, <1>8, <1>9, <1>10, <1>11, <1>12, <1>13
  DEF Next, ProcessStep

LEMMA IndexCorrect == Spec => []IndexInv
<1>1. Init => IndexInv
  <2> SUFFICES ASSUME Init PROVE Matches(db.txindex, ChainTo(db.best))
    BY DEF Init, IndexInv, TxIndexMatchesChain
  <2>1. ChainTo(db.best) = {} /\ db.txindex = << >>
    BY TreeAssumption DEF Init, ChainTo
  <2>2. DOMAIN << >> = {}
    OBVIOUS
  <2> QED BY <2>1, <2>2 DEF Matches
<1> QED BY <1>1, IndexNext, ControlCorrect, PTL DEF Spec

(***************************************************************************)
(* The committed transaction index describes exactly the committed best    *)
(* chain, for every block tree and all transactions in it: connecting and  *)
(* disconnecting, in whatever order, with failures and crashes in between, *)
(* never loses, forges or doubles a spend.                                 *)
(***************************************************************************)
THEOREM TxIndexCorrect == Spec => []TxIndexMatchesChain
  BY IndexCorrect, PTL DEF IndexInv

-----------------------------------------------------------------------------
(* The links of the main chain.                                            *)

(* The blocks the node knows, and the ones it works with among them.       *)
KnownInv ==
    /\ \A b \in mapBlockIndex : Ancestors[b] \subseteq mapBlockIndex
    /\ db.best \in mapBlockIndex /\ pindexBest \in mapBlockIndex
    /\ pindexNew \in mapBlockIndex \cup {NoBlock}

(* The blocks with a pnext are those below the committed best block.       *)
PathInv ==
    skipped = {} =>
        \A b \in Block : pnext[b] # NoBlock <=> b \in Ancestors[db.best] \ {db.best}

(* A proper ancestor has a child on the way up.                            *)
LEMMA ChildLemma ==
    ASSUME NEW b \in Block, NEW a \in Ancestors[b], a # b
    PROVE  \E c \in Ancestors[b] : c # Genesis /\ hashPrevBlock[c] = a
<1> DEFINE T == {x \in Ancestors[b] : a \in Ancestors[x] /\ x # a}
           H == {nHeight[x] : x \in T}
<1>1. Ancestors[b] \subseteq Block /\ b \in T
  BY TreeAssumption
<1>2. H \in SUBSET Nat /\ H # {}
  BY <1>1, TreeAssumption
<1>3. PICK m \in H : \A k \in H : m <= k
  <2> HIDE DEF H
  <2> QED BY <1>2, LeastNat
<1>4. PICK c \in T : nHeight[c] = m
  OBVIOUS
<1>5. c \in Block /\ c \in Ancestors[b] /\ c # Genesis
  BY <1>1, TreeAssumption
<1> DEFINE q == hashPrevBlock[c]
<1>6. q \in Block /\ q \in Ancestors[b] /\ a \in Ancestors[q] /\ nHeight[q] < nHeight[c]
  BY <1>5, PrevLemma, AncestorLemma
<1>7. q = a
  <2> SUFFICES ASSUME q # a PROVE FALSE
    OBVIOUS
  <2>1. nHeight[q] \in H
    BY <1>6
  <2>2. nHeight[q] \in Nat /\ nHeight[c] \in Nat
    BY <1>5, <1>6, TreeAssumption
  <2> QED BY <1>3, <1>4, <1>6, <2>1, <2>2
<1> QED BY <1>5, <1>7

LEMMA BelowLemma ==
    ASSUME NEW b \in Block, NEW c \in Ancestors[b], c # Genesis
    PROVE  hashPrevBlock[c] \in Ancestors[b] \ {b} /\ c \in Block
<1>1. c \in Block /\ nHeight[c] <= nHeight[b] /\ Ancestors[c] \subseteq Ancestors[b]
  BY AncestorLemma
<1>2. hashPrevBlock[c] \in Ancestors[c] /\ hashPrevBlock[c] \in Block
      /\ nHeight[hashPrevBlock[c]] < nHeight[c]
  BY <1>1, PrevLemma
<1>3. nHeight[hashPrevBlock[c]] \in Nat /\ nHeight[c] \in Nat /\ nHeight[b] \in Nat
  BY <1>1, <1>2, TreeAssumption
<1> QED BY <1>1, <1>2, <1>3

LEMMA KnownNext == ControlInv /\ KnownInv /\ [Next]_vars => KnownInv'
<1> SUFFICES ASSUME ControlInv, KnownInv, [Next]_vars PROVE KnownInv'
  OBVIOUS
<1>1. CASE UNCHANGED <<mapBlockIndex, pindexBest, pindexNew>> /\ db'.best = db.best
  BY <1>1 DEF KnownInv
<1>2. ASSUME NEW b \in Block \ {Genesis}, AcceptBlock(b) PROVE KnownInv'
  <2>1. /\ mapBlockIndex' = mapBlockIndex \cup {b} /\ hashPrevBlock[b] \in mapBlockIndex
        /\ db'.best = db.best /\ pindexBest' = pindexBest /\ pindexNew' \in {b, pindexNew}
    BY <1>2 DEF AcceptBlock, Arrives, ControlInv, Shape
  <2>2. Ancestors[b] = {b} \cup Ancestors[hashPrevBlock[b]]
    BY TreeAssumption
  <2> QED BY <2>1, <2>2 DEF KnownInv
<1>3. ASSUME NEW b \in Block \ {Genesis}, RefuseBlock(b) PROVE KnownInv'
  BY <1>1, <1>3 DEF RefuseBlock, memory, locals
<1>4. CASE ExtendBest \/ BeginReorganize
  BY <1>1, <1>4 DEF ExtendBest, BeginReorganize, memory
<1>5. CASE Reorganize_Disconnect \/ \E b \in Block : Reorganize_Connect(b)
  BY <1>1, <1>5 DEF Reorganize_Disconnect, Reorganize_Connect, memory
<1>6. CASE Reorganize_Invalid \/ Reorganize_CommitFault
  <2>1. /\ UNCHANGED <<mapBlockIndex, pindexBest>> /\ db'.best = db.best
        /\ pindexNew' = NoBlock
    BY <1>6 DEF Reorganize_Invalid, Reorganize_CommitFault, ReorganizeFails,
                InvalidChainFound, Return, ControlInv, Shape
  <2> QED BY <2>1 DEF KnownInv
<1>7. CASE Reorganize_Commit
  <2>1. /\ UNCHANGED <<mapBlockIndex, pindexBest, pindexNew>>
        /\ db'.best = pindexIntermediate
    BY <1>7 DEF Reorganize_Commit, TxnCommit, ControlInv, Shape
  <2>2. pindexNew \in Block /\ pindexIntermediate \in Ancestors[pindexNew]
    BY <1>7 DEF Reorganize_Commit, ControlInv, AtReorganize
  <2>3. pindexNew \in mapBlockIndex
    BY <2>2, TreeAssumption DEF KnownInv
  <2> QED BY <2>1, <2>2, <2>3 DEF KnownInv
<1>8. ASSUME NEW b \in Block, SetBestChainInner(b) PROVE KnownInv'
  <2>1. /\ UNCHANGED <<mapBlockIndex, pindexBest, pindexNew>> /\ db'.best = b
    BY <1>8 DEF SetBestChainInner, TxnCommit, ControlInv, Shape
  <2>2. pindexNew \in Block /\ b \in Ancestors[pindexNew]
    BY <1>8 DEF SetBestChainInner, ConnectNext, ControlInv, AtInner
  <2>3. pindexNew \in mapBlockIndex
    BY <2>2, TreeAssumption DEF KnownInv
  <2> QED BY <2>1, <2>2, <2>3 DEF KnownInv
<1>9. ASSUME NEW b \in Block,
             SetBestChainInner_Invalid(b) \/ SetBestChainInner_CommitFault(b)
      PROVE  KnownInv'
  <2>1. /\ mapBlockIndex' = mapBlockIndex /\ db'.best = db.best
        /\ pindexBest' \in {pindexBest, pindexNew} /\ pindexNew' = NoBlock
    BY <1>9 DEF SetBestChainInner_Invalid, SetBestChainInner_CommitFault, GiveUp,
                NewBest, Return, InvalidChainFound, ControlInv, Shape
  <2>2. pindexNew \in Block
    BY <1>9 DEF SetBestChainInner_Invalid, SetBestChainInner_CommitFault, ControlInv, AtInner
  <2>3. pindexNew \in mapBlockIndex
    BY <2>2, TreeAssumption DEF KnownInv
  <2> QED BY <2>1, <2>3 DEF KnownInv
<1>10. CASE SetBestChain_Done
  <2>1. /\ UNCHANGED <<mapBlockIndex, db>> /\ pindexBest' = pindexNew /\ pindexNew' = NoBlock
    BY <1>10 DEF SetBestChain_Done, NewBest, Return
  <2>2. pindexNew \in mapBlockIndex
    BY <1>10, TreeAssumption DEF SetBestChain_Done, ControlInv, AtInner, KnownInv
  <2> QED BY <2>1, <2>2 DEF KnownInv
<1>11. CASE Restart
  BY <1>11 DEF Restart, Return, ControlInv, KnownInv
<1>12. CASE UNCHANGED vars
  BY <1>1, <1>12 DEF vars, memory, locals
<1> QED
  BY <1>2, <1>3, <1>4, <1>5, <1>6, <1>7, <1>8, <1>9, <1>10, <1>11, <1>12
  DEF Next, ProcessStep

(* Reorganize unlinks the branch it leaves and links the new one.          *)
LEMMA PathCommit ==
    ASSUME ControlInv, PathInv, skipped = {}, Reorganize_Commit, NEW x \in Block
    PROVE  pnext'[x] # NoBlock <=> x \in Ancestors[pindexIntermediate] \ {pindexIntermediate}
<1> DEFINE old == pindexBest
           new == pindexIntermediate
           vDisconnect == Ancestors[old] \ Ancestors[new]
           vConnect == Ancestors[new] \ Ancestors[old]
<1>1. /\ new \in Block /\ old \in Block /\ db.best = old
      /\ Genesis \in Ancestors[old] /\ Genesis \in Ancestors[new]
  <2>1. pindexNew \in Block /\ pindexIntermediate \in Ancestors[pindexNew] /\ DiskBehindMemory
    BY DEF Reorganize_Commit, ControlInv, AtReorganize
  <2> QED BY <2>1, TreeAssumption DEF ControlInv, TypeOK, DiskBehindMemory
<1>2. pnext' = [b \in Block |->
            IF \E c \in vConnect : hashPrevBlock[c] = b
            THEN CHOOSE c \in vConnect : hashPrevBlock[c] = b
            ELSE IF \E d \in vDisconnect : hashPrevBlock[d] = b THEN NoBlock
            ELSE pnext[b]]
  BY DEF Reorganize_Commit, RelinkedNext
<1>3. pnext[x] # NoBlock <=> x \in Ancestors[old] \ {old}
  BY <1>1 DEF PathInv
<1>4. \A c \in vConnect \cup vDisconnect : c # Genesis /\ c \in Block /\ c # NoBlock
  BY <1>1, TreeAssumption
<1>5. CASE \E c \in vConnect : hashPrevBlock[c] = x
  <2>1. PICK c \in vConnect : hashPrevBlock[c] = x
    BY <1>5
  <2>2. x \in Ancestors[new] \ {new}
    BY <1>1, <1>4, <2>1, BelowLemma
  <2>3. pnext'[x] = CHOOSE e \in vConnect : hashPrevBlock[e] = x
    BY <1>2, <1>5
  <2>4. pnext'[x] \in vConnect
    BY <1>5, <2>3
  <2> QED BY <1>4, <2>2, <2>4
<1>6. CASE /\ ~ \E c \in vConnect : hashPrevBlock[c] = x
           /\ \E d \in vDisconnect : hashPrevBlock[d] = x
  <2>1. pnext'[x] = NoBlock
    BY <1>2, <1>6
  <2>2. PICK d \in vDisconnect : hashPrevBlock[d] = x
    BY <1>6
  <2>3. ASSUME x \in Ancestors[new], x # new PROVE FALSE
    <3>1. PICK c \in Ancestors[new] : c # Genesis /\ hashPrevBlock[c] = x
      BY <1>1, <2>3, ChildLemma
    <3>2. c \in Ancestors[old]
      BY <1>6, <3>1
    <3>3. c = d
      BY <1>1, <1>4, <2>2, <3>1, <3>2, OnlyChild
    <3> QED BY <2>2, <3>1, <3>3
  <2> QED BY <2>1, <2>3
<1>7. CASE /\ ~ \E c \in vConnect : hashPrevBlock[c] = x
           /\ ~ \E d \in vDisconnect : hashPrevBlock[d] = x
  <2>1. pnext'[x] = pnext[x]
    BY <1>2, <1>7
  <2>2. ASSUME x \in Ancestors[old], x # old PROVE x \in Ancestors[new] \ {new}
    <3>1. PICK d \in Ancestors[old] : d # Genesis /\ hashPrevBlock[d] = x
      BY <1>1, <2>2, ChildLemma
    <3>2. d \in Ancestors[new]
      BY <1>7, <3>1
    <3> QED BY <1>1, <3>1, <3>2, BelowLemma
  <2>3. ASSUME x \in Ancestors[new], x # new PROVE x \in Ancestors[old] \ {old}
    <3>1. PICK c \in Ancestors[new] : c # Genesis /\ hashPrevBlock[c] = x
      BY <1>1, <2>3, ChildLemma
    <3>2. c \in Ancestors[old]
      BY <1>7, <3>1
    <3> QED BY <1>1, <3>1, <3>2, BelowLemma
  <2> QED BY <1>3, <2>1, <2>2, <2>3
<1> QED BY <1>5, <1>6, <1>7

LEMMA PathSame ==
    ASSUME PathInv, pnext' = pnext, db'.best = db.best, skipped \subseteq skipped'
    PROVE  PathInv'
<1>1. skipped' = {} => skipped = {}
  OBVIOUS
<1> QED BY <1>1 DEF PathInv

LEMMA PathNext == ControlInv /\ LinkInv /\ KnownInv /\ PathInv /\ [Next]_vars => PathInv'
<1> SUFFICES ASSUME ControlInv, LinkInv, KnownInv, PathInv, [Next]_vars PROVE PathInv'
  OBVIOUS
<1>1. CASE UNCHANGED vars
  BY <1>1, PathSame DEF vars, memory, history
<1>2. ASSUME NEW b \in Block \ {Genesis}, AcceptBlock(b) PROVE PathInv'
  <2>1. /\ db'.best = db.best /\ skipped' = skipped /\ pnext' = [pnext EXCEPT ![b] = NoBlock]
        /\ b \notin mapBlockIndex /\ pnext \in [Block -> Block \cup {NoBlock}]
    BY <1>2 DEF AcceptBlock, Arrives, history, ControlInv, Shape, TypeOK
  <2>2. b \notin Ancestors[db.best]
    BY <2>1 DEF KnownInv
  <2> QED BY <2>1, <2>2 DEF PathInv
<1>3. ASSUME NEW b \in Block \ {Genesis}, RefuseBlock(b) PROVE PathInv'
  BY <1>3, PathSame DEF RefuseBlock, memory
<1>4. CASE ExtendBest \/ BeginReorganize
  BY <1>4, PathSame DEF ExtendBest, BeginReorganize, memory, history
<1>5. CASE Reorganize_Disconnect \/ \E b \in Block : Reorganize_Connect(b)
  BY <1>5, PathSame DEF Reorganize_Disconnect, Reorganize_Connect, memory, history
<1>6. CASE Reorganize_Invalid \/ Reorganize_CommitFault
  <2>1. pnext' = pnext /\ db'.best = db.best /\ skipped' = skipped
    BY <1>6 DEF Reorganize_Invalid, Reorganize_CommitFault, ReorganizeFails,
                InvalidChainFound, history, ControlInv, Shape
  <2> QED BY <2>1, PathSame
<1>7. CASE Reorganize_Commit
  <2>1. db'.best = pindexIntermediate /\ skipped' = skipped
    BY <1>7 DEF Reorganize_Commit, TxnCommit, history, ControlInv, Shape
  <2>2. skipped = {} => \A x \in Block :
            pnext'[x] # NoBlock <=> x \in Ancestors[pindexIntermediate] \ {pindexIntermediate}
    BY <1>7, PathCommit
  <2> QED BY <2>1, <2>2 DEF PathInv
<1>8. ASSUME NEW b \in Block, SetBestChainInner(b) PROVE PathInv'
  <2> SUFFICES ASSUME skipped = {},  NEW x \in Block
               PROVE  pnext'[x] # NoBlock <=> x \in Ancestors[db'.best] \ {db'.best}
    BY <1>8 DEF SetBestChainInner, history, PathInv
  <2>1. /\ db'.best = b /\ pnext' = [pnext EXCEPT ![tip] = b] /\ tip = hashPrevBlock[b]
        /\ b # Genesis /\ pc = "inner" /\ pnext \in [Block -> Block \cup {NoBlock}]
    BY <1>8 DEF SetBestChainInner, ConnectNext, TxnCommit, ControlInv, Shape, TypeOK
  <2>2. db.best = tip
    BY <2>1 DEF ControlInv, AtInner, DiskBehindMemory
  <2>3. tip \in Block /\ Ancestors[tip] = Ancestors[b] \ {b} /\ tip \in Ancestors[tip]
    BY <2>1, PrevLemma, TreeAssumption
  <2>4. pnext[x] # NoBlock <=> x \in Ancestors[tip] \ {tip}
    BY <2>2 DEF PathInv
  <2>5. b # NoBlock
    BY TreeAssumption
  <2> QED BY <2>1, <2>3, <2>4, <2>5
<1>9. ASSUME NEW b \in Block,
             SetBestChainInner_Invalid(b) \/ SetBestChainInner_CommitFault(b)
      PROVE  PathInv'
  <2>1. pnext' = pnext /\ db'.best = db.best /\ skipped \subseteq skipped'
    BY <1>9 DEF SetBestChainInner_Invalid, SetBestChainInner_CommitFault, GiveUp,
                InvalidChainFound, ControlInv, Shape
  <2> QED BY <2>1, PathSame
<1>10. CASE SetBestChain_Done
  BY <1>10, PathSame DEF SetBestChain_Done, history
<1>11. CASE Restart
  BY <1>11, PathSame DEF Restart, history, LinkInv, LinksMatchDisk
<1> QED
  BY <1>1, <1>2, <1>3, <1>4, <1>5, <1>6, <1>7, <1>8, <1>9, <1>10, <1>11
  DEF Next, ProcessStep

(***************************************************************************)
(* Between two blocks CBlockIndex::IsInMainChain, which looks at pnext     *)
(* alone, tells exactly the ancestors of the best block, for every block   *)
(* tree: Reorganize and SetBestChainInner leave no link behind on a branch *)
(* they give up and miss none on the one they take, also when a commit     *)
(* fails or the process dies half way.                                     *)
(***************************************************************************)
THEOREM MainChainCorrect == Spec => []MainChainLinks
<1>1. Init => LinkInv /\ KnownInv /\ PathInv
  BY TreeAssumption DEF Init, LinkInv, LinksMatchDisk, KnownInv, PathInv
<1>2. ControlInv /\ KnownInv /\ PathInv => MainChainLinks
  <2> SUFFICES ASSUME ControlInv, KnownInv, PathInv, pc = "idle", skipped = {}
               PROVE  {b \in mapBlockIndex : IsInMainChain(b)} = Ancestors[pindexBest]
    BY DEF MainChainLinks
  <2>1. pindexBest = db.best /\ pindexBest \in Block /\ mapBlockIndex \subseteq Block
    BY DEF ControlInv, AtIdle, DiskBehindMemory, TypeOK
  <2>2. pindexBest \in Ancestors[pindexBest] /\ Ancestors[pindexBest] \subseteq mapBlockIndex
    BY <2>1, TreeAssumption DEF KnownInv
  <2>3. \A b \in Block : pnext[b] # NoBlock <=> b \in Ancestors[pindexBest] \ {pindexBest}
    BY <2>1 DEF PathInv
  <2> QED BY <2>1, <2>2, <2>3 DEF IsInMainChain
<1> QED BY <1>1, <1>2, LinkNext, KnownNext, PathNext, ControlCorrect, PTL DEF Spec

-----------------------------------------------------------------------------
(* Replay satisfies its recursive definition.  A solution on the ancestors *)
(* of each block exists and is unique, by the least height at which it     *)
(* would not; together they solve the equation on all blocks.              *)

GenesisReplay == [ok |-> TRUE, idx |-> << >>]

(* The value at b, given the one at its parent.                            *)
ReplayStep(r, b) ==
    IF /\ r.ok /\ ConnectOK(r.idx, b)
       /\ IsProofOfWork(b) => nValueOut[b] <= ProofOfWorkReward[nHeight[hashPrevBlock[b]]]
    THEN [ok |-> TRUE, idx |-> ConnectedIndex(r.idx, b)]
    ELSE [ok |-> FALSE, idx |-> << >>]

Solves(f, S) ==
    \A x \in S : f[x] = IF x = Genesis THEN GenesisReplay
                        ELSE ReplayStep(f[hashPrevBlock[x]], x)

LEMMA SolutionUnique ==
    ASSUME NEW b \in Block, NEW f, NEW g, Solves(f, Ancestors[b]), Solves(g, Ancestors[b])
    PROVE  f[b] = g[b]
<1> DEFINE D == {h \in Nat : \E x \in Ancestors[b] : nHeight[x] = h /\ f[x] # g[x]}
<1>1. SUFFICES ASSUME D # {} PROVE FALSE
  BY AncestorLemma, TreeAssumption
<1>2. PICK m \in D : \A k \in D : m <= k
  <2>1. D \in SUBSET Nat
    OBVIOUS
  <2> HIDE DEF D
  <2> QED BY <1>1, <2>1, LeastNat
<1>3. PICK x \in Ancestors[b] : nHeight[x] = m /\ f[x] # g[x]
  BY <1>2
<1>4. x # Genesis /\ x \in Block
  BY <1>3, AncestorLemma DEF Solves
<1>5. /\ hashPrevBlock[x] \in Ancestors[b] /\ nHeight[hashPrevBlock[x]] \in Nat
      /\ nHeight[hashPrevBlock[x]] < m
  BY <1>3, <1>4, PrevLemma, AncestorLemma, TreeAssumption
<1>6. f[hashPrevBlock[x]] = g[hashPrevBlock[x]]
  BY <1>2, <1>5
<1> QED BY <1>3, <1>4, <1>6 DEF Solves

LEMMA SolutionExists == \A b \in Block : \E f : Solves(f, Ancestors[b])
<1> DEFINE D == {h \in Nat : \E x \in Block : nHeight[x] = h /\ ~ \E f : Solves(f, Ancestors[x])}
<1>1. SUFFICES ASSUME D # {} PROVE FALSE
  BY TreeAssumption
<1>2. PICK m \in D : \A k \in D : m <= k
  <2>1. D \in SUBSET Nat
    OBVIOUS
  <2> HIDE DEF D
  <2> QED BY <1>1, <2>1, LeastNat
<1>3. PICK b \in Block : nHeight[b] = m /\ ~ \E f : Solves(f, Ancestors[b])
  BY <1>2
<1>4. b # Genesis
  <2> SUFFICES ASSUME b = Genesis PROVE FALSE
    OBVIOUS
  <2>1. Ancestors[b] = {Genesis}
    BY TreeAssumption
  <2>2. Solves([x \in {Genesis} |-> GenesisReplay], Ancestors[b])
    BY <2>1 DEF Solves
  <2> QED BY <1>3, <2>2
<1>5. /\ hashPrevBlock[b] \in Block /\ nHeight[hashPrevBlock[b]] \in Nat
      /\ nHeight[hashPrevBlock[b]] < m
      /\ Ancestors[hashPrevBlock[b]] = Ancestors[b] \ {b}
      /\ hashPrevBlock[b] \in Ancestors[b] \ {b}
  BY <1>3, <1>4, PrevLemma, TreeAssumption
<1>6. PICK f : Solves(f, Ancestors[hashPrevBlock[b]])
  BY <1>2, <1>5
<1> DEFINE g == [x \in Ancestors[b] |-> IF x = b THEN ReplayStep(f[hashPrevBlock[b]], b) ELSE f[x]]
<1>7. ASSUME NEW x \in Ancestors[b]
      PROVE  g[x] = IF x = Genesis THEN GenesisReplay ELSE ReplayStep(g[hashPrevBlock[x]], x)
  <2>1. CASE x = b
    BY <1>4, <1>5, <2>1
  <2>2. CASE x # b
    <3>1. x \in Ancestors[hashPrevBlock[b]] /\ x \in Block
      BY <1>5, <2>2, AncestorLemma
    <3>2. x # Genesis => hashPrevBlock[x] \in Ancestors[hashPrevBlock[b]]
      BY <1>5, <3>1, PrevLemma, AncestorLemma
    <3>3. g[x] = f[x] /\ (x # Genesis => g[hashPrevBlock[x]] = f[hashPrevBlock[x]])
      BY <1>5, <2>2, <3>2
    <3>4. f[x] = IF x = Genesis THEN GenesisReplay ELSE ReplayStep(f[hashPrevBlock[x]], x)
      BY <1>6, <3>1 DEF Solves
    <3> HIDE DEF g
    <3> QED BY <3>3, <3>4
  <2> QED BY <2>1, <2>2
<1> HIDE DEF g
<1>8. Solves(g, Ancestors[b])
  BY <1>7 DEF Solves
<1> QED BY <1>3, <1>8

SolutionAt(b) == CHOOSE f : Solves(f, Ancestors[b])

LEMMA SolutionAtLemma == \A b \in Block : Solves(SolutionAt(b), Ancestors[b])
  BY SolutionExists, Zenon DEF SolutionAt

LEMMA ReplayLemma ==
    /\ Replay[Genesis] = GenesisReplay
    /\ \A b \in Block \ {Genesis} : Replay[b] = ReplayStep(Replay[hashPrevBlock[b]], b)
<1> DEFINE F == [b \in Block |-> SolutionAt(b)[b]]
           Body(f, b) == IF b = Genesis THEN GenesisReplay
                         ELSE ReplayStep(f[hashPrevBlock[b]], b)
<1>1. ASSUME NEW b \in Block PROVE F[b] = Body(F, b)
  <2>1. Solves(SolutionAt(b), Ancestors[b]) /\ b \in Ancestors[b] /\ F[b] = SolutionAt(b)[b]
    BY SolutionAtLemma, AncestorLemma, TreeAssumption
  <2>2. CASE b = Genesis
    BY <2>1, <2>2 DEF Solves
  <2>3. CASE b # Genesis
    <3>1. hashPrevBlock[b] \in Block /\ Ancestors[hashPrevBlock[b]] \subseteq Ancestors[b]
      BY <2>3, PrevLemma
    <3>2. Solves(SolutionAt(b), Ancestors[hashPrevBlock[b]])
      BY <2>1, <3>1 DEF Solves
    <3>3. SolutionAt(b)[hashPrevBlock[b]] = SolutionAt(hashPrevBlock[b])[hashPrevBlock[b]]
      BY <3>1, <3>2, SolutionAtLemma, SolutionUnique
    <3>4. F[hashPrevBlock[b]] = SolutionAt(b)[hashPrevBlock[b]]
      BY <3>1, <3>3
    <3>5. F[b] = ReplayStep(SolutionAt(b)[hashPrevBlock[b]], b)
      BY <2>1, <2>3 DEF Solves
    <3> QED BY <2>3, <3>4, <3>5
  <2> QED BY <2>2, <2>3
<1>2. F = [b \in Block |-> Body(F, b)]
  <2> DEFINE G == [b \in Block |-> Body(F, b)]
  <2>1. \A b \in Block : F[b] = G[b]
    BY <1>1
  <2> QED BY <2>1
<1>3. Replay = CHOOSE f : f = [b \in Block |-> Body(f, b)]
  BY DEF Replay, ReplayStep, GenesisReplay
<1> HIDE DEF F
<1>4. Replay = [b \in Block |-> Body(Replay, b)]
  <2> HIDE DEF Body
  <2> QED BY <1>2, <1>3, Zenon
<1> QED BY <1>4, TreeAssumption

-----------------------------------------------------------------------------
(* Every chain that connects from the genesis block.                       *)

(* The coinbase of b claims no more than the subsidy at height h.          *)
Claims(b, h) == IsProofOfWork(b) => nValueOut[b] <= ProofOfWorkReward[h]

(***************************************************************************)
(* ConnectBlock compares a coinbase with the subsidy at the height of the  *)
(* best block of that moment, which is not the block's parent during a     *)
(* reorganization.  Within one period of GetProofOfWorkReward this makes   *)
(* no difference; the theorems below assume it.                            *)
(***************************************************************************)
SteadyReward ==
    \A b, a, c \in Block : Claims(b, nHeight[a]) => Claims(b, nHeight[c])

LEMMA ReplayDown ==
    ASSUME NEW b \in Block \ {Genesis}
    PROVE  LET q == hashPrevBlock[b] IN
           /\ Replay[b].ok <=> /\ Replay[q].ok /\ ConnectOK(Replay[q].idx, b)
                               /\ Claims(b, nHeight[q])
           /\ Replay[b].ok => Replay[b].idx = ConnectedIndex(Replay[q].idx, b)
<1> DEFINE r == Replay[hashPrevBlock[b]]
<1>1. Replay[b] = ReplayStep(r, b)
  BY ReplayLemma
<1>2. CASE r.ok /\ ConnectOK(r.idx, b) /\ Claims(b, nHeight[hashPrevBlock[b]])
  <2>1. Replay[b] = [ok |-> TRUE, idx |-> ConnectedIndex(r.idx, b)]
    BY <1>1, <1>2 DEF ReplayStep, Claims
  <2> QED BY <1>2, <2>1
<1>3. CASE ~ (r.ok /\ ConnectOK(r.idx, b) /\ Claims(b, nHeight[hashPrevBlock[b]]))
  <2>1. Replay[b] = [ok |-> FALSE, idx |-> << >>]
    BY <1>1, <1>3 DEF ReplayStep, Claims
  <2> QED BY <1>3, <2>1
<1> QED BY <1>2, <1>3

(* The index of a replayed chain is that of its blocks.                    *)
LEMMA ReplayMatches ==
    \A b \in Block : Replay[b].ok => Matches(Replay[b].idx, ChainTo(b))
<1> DEFINE Good(x) == Replay[x].ok => Matches(Replay[x].idx, ChainTo(x))
           D == {h \in Nat : \E x \in Block : nHeight[x] = h /\ ~ Good(x)}
<1>1. SUFFICES ASSUME D # {} PROVE FALSE
  BY TreeAssumption
<1>2. PICK m \in D : \A k \in D : m <= k
  <2>1. D \in SUBSET Nat
    OBVIOUS
  <2> HIDE DEF D
  <2> QED BY <1>1, <2>1, LeastNat
<1>3. PICK b \in Block : nHeight[b] = m /\ ~ Good(b)
  BY <1>2
<1>4. b # Genesis
  <2>1. Replay[Genesis].idx = << >> /\ ChainTo(Genesis) = {} /\ DOMAIN << >> = {}
    BY ReplayLemma, TreeAssumption DEF GenesisReplay, ChainTo
  <2>2. Matches(Replay[Genesis].idx, ChainTo(Genesis))
    BY <2>1 DEF Matches
  <2> QED BY <1>3, <2>2
<1> DEFINE q == hashPrevBlock[b]
<1>5. q \in Block /\ nHeight[q] \in Nat /\ nHeight[q] < m
  BY <1>3, <1>4, PrevLemma, TreeAssumption
<1>6. Good(q)
  BY <1>2, <1>5
<1>7. Good(b)
  <2> SUFFICES ASSUME Replay[b].ok PROVE Matches(Replay[b].idx, ChainTo(b))
    OBVIOUS
  <2>1. /\ Replay[q].ok /\ ConnectOK(Replay[q].idx, b)
        /\ Replay[b].idx = ConnectedIndex(Replay[q].idx, b)
    BY <1>4, ReplayDown
  <2> QED BY <1>4, <1>6, <2>1, ConnectMatches
<1> QED BY <1>3, <1>7

(* Below a block that connects from the genesis block, every block does.   *)
LEMMA ReplayAncestors ==
    ASSUME NEW b \in Block, Replay[b].ok, NEW a \in Ancestors[b]
    PROVE  Replay[a].ok
<1> DEFINE T == {x \in Ancestors[b] : a \in Ancestors[x] /\ Replay[x].ok}
           H == {nHeight[x] : x \in T}
<1>1. T \subseteq Block /\ b \in T
  BY TreeAssumption
<1>2. PICK m \in H : \A k \in H : m <= k
  <2>1. H \in SUBSET Nat /\ H # {}
    BY <1>1, TreeAssumption
  <2> HIDE DEF H
  <2> QED BY <2>1, LeastNat
<1>3. PICK c \in T : nHeight[c] = m
  BY <1>2
<1>4. SUFFICES ASSUME c # a PROVE FALSE
  BY <1>3
<1>5. c \in Block \ {Genesis} /\ a \in Ancestors[hashPrevBlock[c]]
  BY <1>1, <1>4, AncestorLemma
<1>6. /\ hashPrevBlock[c] \in Ancestors[b] /\ nHeight[hashPrevBlock[c]] < m
      /\ hashPrevBlock[c] \in Block
  BY <1>3, <1>5, PrevLemma, AncestorLemma
<1>7. hashPrevBlock[c] \in T
  BY <1>3, <1>5, <1>6, ReplayDown
<1>8. nHeight[hashPrevBlock[c]] \in H
  BY <1>7
<1> QED BY <1>2, <1>3, <1>6, <1>8, <1>1, TreeAssumption

-----------------------------------------------------------------------------
(* The index of a chain determines what connects to it.                    *)

Agree(idx, jdx) ==
    /\ DOMAIN idx = DOMAIN jdx
    /\ \A t \in DOMAIN idx :
          /\ idx[t].pos = jdx[t].pos
          /\ DOMAIN idx[t].vSpent = DOMAIN jdx[t].vSpent
          /\ \A n \in DOMAIN idx[t].vSpent : idx[t].vSpent[n] = jdx[t].vSpent[n]

(* A spend recorded in one index of the blocks S is recorded in another.   *)
LEMMA SpendCarries ==
    ASSUME NEW S, NEW idx, NEW jdx, Matches(idx, S), Matches(jdx, S),
           NEW x \in S, NEW t \in BlockTxs(x), NEW n \in DOMAIN idx[t].vSpent,
           idx[t].vSpent[n] # NullPos
    PROVE  jdx[t].vSpent[n] = idx[t].vSpent[n]
<1>1. \E y \in S : \E s \in Spenders(y, <<t, n>>) : idx[t].vSpent[n] = <<y, s>>
  BY DEF Matches
<1>2. PICK y \in S : \E s \in Spenders(y, <<t, n>>) : idx[t].vSpent[n] = <<y, s>>
  BY <1>1
<1>3. PICK s \in Spenders(y, <<t, n>>) : idx[t].vSpent[n] = <<y, s>>
  BY <1>2
<1>4. s \in BlockTxs(y) /\ <<t, n>> \in vin[s]
  BY <1>3 DEF Spenders
<1>5. jdx[<<t, n>>[1]].vSpent[<<t, n>>[2]] = <<y, s>>
  BY <1>4 DEF Matches
<1> QED BY <1>3, <1>5

LEMMA SameIndex ==
    ASSUME NEW S, NEW idx, NEW jdx, Matches(idx, S), Matches(jdx, S)
    PROVE  Agree(idx, jdx)
<1>1. DOMAIN idx = DOMAIN jdx
  BY DEF Matches
<1>2. ASSUME NEW t \in DOMAIN idx
      PROVE  /\ idx[t].pos = jdx[t].pos
             /\ DOMAIN idx[t].vSpent = DOMAIN jdx[t].vSpent
             /\ \A n \in DOMAIN idx[t].vSpent : idx[t].vSpent[n] = jdx[t].vSpent[n]
  <2>1. PICK x \in S : t \in BlockTxs(x)
    BY DEF Matches
  <2>2. idx[t].pos = jdx[t].pos /\ DOMAIN idx[t].vSpent = DOMAIN jdx[t].vSpent
    BY <2>1 DEF Matches
  <2>3. ASSUME NEW n \in DOMAIN idx[t].vSpent PROVE idx[t].vSpent[n] = jdx[t].vSpent[n]
    <3>1. CASE idx[t].vSpent[n] # NullPos
      BY <2>1, <3>1, SpendCarries
    <3>2. CASE jdx[t].vSpent[n] # NullPos
      BY <2>1, <2>2, <3>2, SpendCarries
    <3> QED BY <3>1, <3>2
  <2> QED BY <2>2, <2>3
<1> QED BY <1>1, <1>2 DEF Agree

LEMMA SameConnects ==
    ASSUME NEW idx, NEW jdx, Agree(idx, jdx), NEW b \in Block, ConnectOK(idx, b)
    PROVE  ConnectOK(jdx, b)
<1>1. ASSUME NEW i \in DOMAIN vtx[b] PROVE NoOverwrite(jdx, vtx[b][i])
  BY DEF ConnectOK, NoOverwrite, Agree
<1>2. ASSUME NEW i \in DOMAIN vtx[b]
      PROVE  FetchInputs(jdx, b, i) /\ ConnectInputs(jdx, b, i)
  <2>1. FetchInputs(idx, b, i) /\ ConnectInputs(idx, b, i)
    BY DEF ConnectOK
  <2>2. FetchInputs(jdx, b, i)
    BY <2>1 DEF FetchInputs, Indexed, Agree
  <2>3. ConnectInputs(jdx, b, i)
    <3> SUFFICES ASSUME NEW o \in vin[vtx[b][i]]
                 PROVE  /\ Mature(o[1], IF o[1] \in Earlier(b, i) THEN b
                                        ELSE jdx[o[1]].pos[1], b)
                        /\ o[1] \notin Earlier(b, i) => jdx[o[1]].vSpent[o[2]] = NullPos
                        /\ \A t \in Earlier(b, i) : o \notin vin[t]
      BY DEF ConnectInputs
    <3>1. /\ Mature(o[1], IF o[1] \in Earlier(b, i) THEN b ELSE idx[o[1]].pos[1], b)
          /\ o[1] \notin Earlier(b, i) => idx[o[1]].vSpent[o[2]] = NullPos
          /\ \A t \in Earlier(b, i) : o \notin vin[t]
      BY <2>1 DEF ConnectInputs
    <3>2. ASSUME o[1] \notin Earlier(b, i)
          PROVE  /\ idx[o[1]].pos = jdx[o[1]].pos
                 /\ idx[o[1]].vSpent[o[2]] = jdx[o[1]].vSpent[o[2]]
      BY <2>1, <3>2 DEF FetchInputs, Indexed, Agree
    <3> QED BY <3>1, <3>2
  <2> QED BY <2>2, <2>3
<1> QED BY <1>1, <1>2 DEF ConnectOK

-----------------------------------------------------------------------------
(* A chain that connects from the genesis block can be disconnected, and   *)
(* connected by SetBestChain.                                              *)

(* No transaction of b spends a later one: DisconnectBlock, which erases   *)
(* the transactions from the last to the first, finds the inputs of each.  *)
Ordered(b) ==
    \A i \in DOMAIN vtx[b] : \A o \in vin[vtx[b][i]] : o[1] \notin Later(b, i)

LEMMA ConnectOrdered ==
    ASSUME NEW b \in Block, b # Genesis, NEW idx,
           Matches(idx, ChainTo(hashPrevBlock[b])), ConnectOK(idx, b)
    PROVE  Ordered(b)
<1> SUFFICES ASSUME NEW i \in DOMAIN vtx[b], NEW o \in vin[vtx[b][i]], o[1] \in Later(b, i)
             PROVE  FALSE
  BY DEF Ordered
<1>1. DOMAIN vtx[b] = 1 .. Len(vtx[b]) /\ Len(vtx[b]) \in Nat
  BY TxAssumption
<1>2. PICK k \in i + 1 .. Len(vtx[b]) : vtx[b][k] = o[1]
  BY DEF Later
<1>3. k \in DOMAIN vtx[b] /\ i < k
  BY <1>1, <1>2
<1>4. CASE o[1] \in Earlier(b, i)
  <2>1. PICK j \in 1 .. i - 1 : vtx[b][j] = o[1]
    BY <1>4 DEF Earlier
  <2>2. j \in DOMAIN vtx[b] /\ j < i
    BY <1>1, <2>1
  <2>3. \A m, n \in DOMAIN vtx[b] : vtx[b][m] = vtx[b][n] => m = n
    BY TxAssumption
  <2>4. j = k
    BY <1>2, <1>3, <2>1, <2>2, <2>3
  <2> QED BY <1>1, <1>3, <2>2, <2>4
<1>5. CASE o[1] \notin Earlier(b, i)
  <2>1. o[1] \in DOMAIN idx
    BY <1>5 DEF ConnectOK, FetchInputs, Indexed
  <2>2. o[1] \in BlockTxs(b)
    BY <1>2, <1>3 DEF BlockTxs
  <2> QED BY <2>1, <2>2, FreshLemma
<1> QED BY <1>4, <1>5

LEMMA ReplayDisconnects ==
    ASSUME NEW b \in Block \ {Genesis}, Replay[b].ok, NEW idx, Matches(idx, ChainTo(b))
    PROVE  DisconnectOK(idx, b)
<1> DEFINE q == hashPrevBlock[b]
<1>1. q \in Block /\ Replay[q].ok /\ ConnectOK(Replay[q].idx, b)
  BY ReplayDown, PrevLemma
<1>2. Ordered(b)
  BY <1>1, ReplayMatches, ConnectOrdered
<1>3. b \in ChainTo(b)
  BY TreeAssumption DEF ChainTo
<1>4. ASSUME NEW i \in DOMAIN vtx[b], NEW o \in vin[vtx[b][i]] PROVE Indexed(idx, o)
  <2>1. vtx[b][i] \in BlockTxs(b)
    BY DEF BlockTxs
  <2> QED BY <1>3, <2>1 DEF Matches
<1> QED BY <1>2, <1>4 DEF Ordered, DisconnectOK

(* ConnectBlock decides on b as the replay does.                           *)
LEMMA ReplayConnects ==
    ASSUME SteadyReward, NEW b \in Block \ {Genesis}, pindexBest \in Block,
           Replay[hashPrevBlock[b]].ok,
           Matches(view.txindex, ChainTo(hashPrevBlock[b]))
    PROVE  Connects(b) <=> Replay[b].ok
<1> DEFINE q == hashPrevBlock[b]
<1>1. q \in Block /\ Matches(Replay[q].idx, ChainTo(q))
  BY ReplayMatches, PrevLemma
<1>2. ConnectOK(view.txindex, b) <=> ConnectOK(Replay[q].idx, b)
  BY <1>1, SameIndex, SameConnects
<1>3. CoinbaseRewardOK(b) <=> Claims(b, nHeight[q])
  BY <1>1 DEF SteadyReward, CoinbaseRewardOK, Claims
<1> QED BY <1>2, <1>3, ReplayDown DEF Connects

(* The chain on disk, and the one the open transaction has been brought    *)
(* to, connects from the genesis block.                                    *)
ValidInv ==
    skipped = {} =>
        /\ Replay[db.best].ok
        /\ pc = "reorganize" => Replay[tip].ok

LEMMA ValidSame ==
    ASSUME ValidInv, db'.best = db.best, skipped \subseteq skipped', pc' # "reorganize"
    PROVE  ValidInv'
<1>1. skipped' = {} => skipped = {}
  OBVIOUS
<1> QED BY <1>1 DEF ValidInv

LEMMA ValidNext ==
    ASSUME SteadyReward, ControlInv, IndexInv, ValidInv, [Next]_vars
    PROVE  ValidInv'
<1>1. CASE UNCHANGED vars
  BY <1>1 DEF ValidInv, vars, locals, history
<1>2. ASSUME NEW b \in Block \ {Genesis}, AcceptBlock(b) PROVE ValidInv'
  <2>1. db'.best = db.best /\ skipped' = skipped /\ pc' # "reorganize"
    BY <1>2 DEF AcceptBlock, Arrives, history, ControlInv, Shape
  <2> QED BY <2>1, ValidSame
<1>3. ASSUME NEW b \in Block \ {Genesis}, RefuseBlock(b) PROVE ValidInv'
  BY <1>3, ValidSame DEF RefuseBlock, Arrives, locals
<1>4. CASE ExtendBest
  BY <1>4, ValidSame DEF ExtendBest, history
<1>5. CASE BeginReorganize
  <2>1. DiskBehindMemory /\ tip' = pindexBest /\ db' = db /\ skipped' = skipped
    BY <1>5 DEF BeginReorganize, ControlInv, AtBegin, history
  <2> QED BY <2>1 DEF ValidInv, DiskBehindMemory
<1>6. CASE Reorganize_Disconnect
  <2>1. tip \in Block \ {Genesis} /\ pc = "reorganize"
    BY <1>6, TreeAssumption, AncestorLemma
    DEF Reorganize_Disconnect, Disconnecting, ControlInv, TypeOK, AtReorganize
  <2>2. tip' = hashPrevBlock[tip] /\ db' = db /\ skipped' = skipped
    BY <1>6 DEF Reorganize_Disconnect, history
  <2> QED BY <2>1, <2>2, ReplayDown DEF ValidInv
<1>7. ASSUME NEW b \in Block, Reorganize_Connect(b) PROVE ValidInv'
  <2>1. /\ b # Genesis /\ tip = hashPrevBlock[b] /\ pc = "reorganize" /\ Connects(b)
        /\ tip' = b /\ db' = db /\ skipped' = skipped /\ pindexBest \in Block
    BY <1>7 DEF Reorganize_Connect, ConnectNext, history, ControlInv, TypeOK
  <2> QED BY <2>1, ReplayConnects DEF ValidInv, IndexInv
<1>8. CASE Reorganize_Invalid \/ Reorganize_CommitFault
  <2>1. db'.best = db.best /\ skipped' = skipped /\ pc' # "reorganize"
    BY <1>8 DEF Reorganize_Invalid, Reorganize_CommitFault, ReorganizeFails,
                InvalidChainFound, Return, history, ControlInv, Shape
  <2> QED BY <2>1, ValidSame
<1>9. CASE Reorganize_Commit
  <2>1. /\ db'.best = tip /\ skipped' = skipped
        /\ pc = "reorganize" /\ pc' # "reorganize"
    BY <1>9 DEF Reorganize_Commit, TxnCommit, history, ControlInv, Shape
  <2> QED BY <2>1 DEF ValidInv
<1>10. ASSUME NEW b \in Block, SetBestChainInner(b) PROVE ValidInv'
  <2>1. /\ b # Genesis /\ tip = hashPrevBlock[b] /\ pc = "inner" /\ pc' = "inner"
        /\ Connects(b) /\ db'.best = b /\ skipped' = skipped /\ pindexBest \in Block
    BY <1>10 DEF SetBestChainInner, ConnectNext, TxnCommit, history, ControlInv, TypeOK, Shape
  <2>2. skipped = {} => db.best = tip /\ Matches(view.txindex, ChainTo(tip))
    BY <2>1 DEF ControlInv, AtInner, Committed, DiskBehindMemory, IndexInv,
                TxIndexMatchesChain
  <2> QED BY <2>1, <2>2, ReplayConnects DEF ValidInv
<1>11. ASSUME NEW b \in Block,
              SetBestChainInner_Invalid(b) \/ SetBestChainInner_CommitFault(b)
       PROVE  ValidInv'
  <2>1. db'.best = db.best /\ skipped \subseteq skipped' /\ pc' # "reorganize"
    BY <1>11 DEF SetBestChainInner_Invalid, SetBestChainInner_CommitFault, GiveUp,
                 NewBest, Return, InvalidChainFound, ControlInv, Shape
  <2> QED BY <2>1, ValidSame
<1>12. CASE SetBestChain_Done
  BY <1>12, ValidSame DEF SetBestChain_Done, NewBest, Return, history
<1>13. CASE Restart
  BY <1>13, ValidSame DEF Restart, Return, history
<1> QED
  BY <1>1, <1>2, <1>3, <1>4, <1>5, <1>6, <1>7, <1>8, <1>9, <1>10, <1>11, <1>12, <1>13
  DEF Next, ProcessStep

-----------------------------------------------------------------------------
(* SetBestChain does not fail on a chain that connects from the genesis    *)
(* block, except for a failing commit.                                     *)

LEMMA NoFailure ==
    ASSUME SteadyReward, ControlInv, IndexInv, ValidInv, skipped = {},
           Reorganize_Invalid \/ \E b \in Block : SetBestChainInner_Invalid(b)
    PROVE  ~ Replay[pindexNew].ok
<1> SUFFICES ASSUME Replay[pindexNew].ok PROVE FALSE
  OBVIOUS
<1>1. pindexBest \in Block
  BY DEF ControlInv, TypeOK
<1>2. CASE Disconnecting /\ ~ DisconnectOK(view.txindex, tip)
  <2>1. tip \in Block \ {Genesis} /\ pc = "reorganize"
    BY <1>2, TreeAssumption, AncestorLemma
    DEF Disconnecting, ControlInv, TypeOK, AtReorganize
  <2> QED BY <1>2, <2>1, ReplayDisconnects DEF ValidInv, IndexInv
<1>3. ASSUME NEW b \in Block, pc = "reorganize", ConnectNext(b, pindexIntermediate),
             ~ Connects(b)
      PROVE  FALSE
  <2>1. /\ pindexNew \in Block /\ pindexIntermediate \in Ancestors[pindexNew]
        /\ b # Genesis /\ b \in Ancestors[pindexIntermediate] /\ tip = hashPrevBlock[b]
    BY <1>3 DEF ControlInv, AtReorganize, ConnectNext
  <2>2. b \in Ancestors[pindexNew]
    BY <2>1, AncestorLemma
  <2>3. Replay[b].ok
    BY <2>1, <2>2, ReplayAncestors
  <2> QED BY <1>1, <1>3, <2>1, <2>3, ReplayConnects DEF ValidInv, IndexInv
<1>4. ASSUME NEW b \in Block, SetBestChainInner_Invalid(b) PROVE FALSE
  <2>1. /\ pindexNew \in Block /\ b # Genesis /\ b \in Ancestors[pindexNew]
        /\ tip = hashPrevBlock[b] /\ db.best = tip /\ pc = "inner" /\ ~ Connects(b)
    BY <1>4, InnerLemma DEF SetBestChainInner_Invalid
  <2>2. Matches(view.txindex, ChainTo(tip)) /\ Replay[tip].ok
    BY <2>1 DEF ControlInv, AtInner, Committed, IndexInv, TxIndexMatchesChain, ValidInv
  <2>3. Replay[b].ok
    BY <2>1, ReplayAncestors
  <2> QED BY <1>1, <2>1, <2>2, <2>3, ReplayConnects
<1> QED BY <1>2, <1>3, <1>4 DEF Reorganize_Invalid

LEMMA ReplayInvCorrect ==
    ASSUME SteadyReward
    PROVE  Spec => [](ControlInv /\ IndexInv /\ ValidInv)
<1>1. Init => ValidInv
  BY ReplayLemma DEF Init, ValidInv, GenesisReplay
<1>2. ControlInv /\ IndexInv /\ ValidInv /\ [Next]_vars => ValidInv'
  BY ValidNext
<1> QED BY <1>1, <1>2, ControlCorrect, IndexCorrect, PTL DEF Spec

(***************************************************************************)
(* A block with more trust than the best one whose chain connects from the *)
(* genesis block becomes the best block when SetBestChain ends, for every  *)
(* block tree within one subsidy period and after any crashes, failing     *)
(* commits and failed reorganizations: no block of the old chain resists   *)
(* DisconnectBlock, and ConnectBlock finds in the index what it would find *)
(* had the node never seen another branch.                                 *)
(***************************************************************************)
THEOREM HeavierBlockCorrect ==
    ASSUME SteadyReward
    PROVE  Spec => HeavierBlockWins
<1>1. ASSUME ControlInv, IndexInv, ValidInv, [Next]_vars,
             pc # "idle", pc' = "idle", UNCHANGED counters, skipped = {},
             Replay[pindexNew].ok
      PROVE  pindexBest' = pindexNew
  <2>1. nCrash \in Nat /\ nFault \in Nat /\ nCrash' = nCrash /\ nFault' = nFault
    BY <1>1, BoundAssumption DEF ControlInv, TypeOK, counters
  <2>2. CASE Reorganize_Invalid \/ \E b \in Block : SetBestChainInner_Invalid(b)
    BY <1>1, <2>2, NoFailure
  <2>3. CASE SetBestChain_Done
    BY <2>3 DEF SetBestChain_Done, NewBest
  <2>4. CASE Restart \/ Reorganize_CommitFault
               \/ \E b \in Block : SetBestChainInner_CommitFault(b)
    BY <2>1, <2>4 DEF Restart, Reorganize_CommitFault, SetBestChainInner_CommitFault
  <2>5. CASE \E b \in Block \ {Genesis} : AcceptBlock(b) \/ RefuseBlock(b)
    BY <1>1, <2>5 DEF AcceptBlock, RefuseBlock, Arrives
  <2>6. CASE ExtendBest \/ BeginReorganize \/ Reorganize_Disconnect \/ Reorganize_Commit
               \/ \E b \in Block : Reorganize_Connect(b) \/ SetBestChainInner(b)
    BY <1>1, <2>6 DEF ExtendBest, BeginReorganize, Reorganize_Disconnect, Disconnecting,
                      Reorganize_Commit, Reorganize_Connect, SetBestChainInner
  <2>7. CASE UNCHANGED vars
    BY <1>1, <2>7 DEF vars, locals
  <2> QED BY <1>1, <2>2, <2>3, <2>4, <2>5, <2>6, <2>7 DEF Next, ProcessStep
<1>2. ControlInv /\ IndexInv /\ ValidInv /\ [Next]_vars =>
        [pc # "idle" /\ pc' = "idle" /\ UNCHANGED counters /\ skipped = {}
            /\ Replay[pindexNew].ok
         => pindexBest' = pindexNew]_vars
  BY <1>1
<1> QED BY <1>2, ReplayInvCorrect, PTL DEF Spec, HeavierBlockWins

-----------------------------------------------------------------------------
(* While nothing disturbs the node, a known block that connects from the   *)
(* genesis block and outweighs the best one can only be the block being    *)
(* added.  A reorganization therefore commits only when it has reached     *)
(* that block, and the loop after it has nothing to connect or skip.       *)
BetterInv ==
    Undisturbed =>
        /\ skipped = {}
        /\ \A b \in mapBlockIndex \ {pindexNew} :
              Replay[b].ok => nChainTrust[b] <= nChainTrust[pindexBest]
        /\ pc # "idle" => nChainTrust[pindexNew] > nChainTrust[pindexBest]
        /\ pc = "inner" /\ pindexIntermediate # NoBlock => tip = pindexNew

LEMMA BetterNext ==
    ASSUME SteadyReward, ControlInv, IndexInv, ValidInv, KnownInv, BetterInv, [Next]_vars
    PROVE  BetterInv'
<1> SUFFICES ASSUME Undisturbed'
             PROVE  /\ skipped' = {}
                    /\ \A b \in mapBlockIndex' \ {pindexNew'} :
                          Replay[b].ok => nChainTrust[b] <= nChainTrust[pindexBest']
                    /\ pc' # "idle" => nChainTrust[pindexNew'] > nChainTrust[pindexBest']
                    /\ pc' = "inner" /\ pindexIntermediate' # NoBlock => tip' = pindexNew'
  BY DEF BetterInv
<1>1. nCrash \in Nat /\ nFault \in Nat /\ mapBlockIndex \subseteq Block /\ pindexBest \in Block
  BY BoundAssumption DEF ControlInv, TypeOK
<1>2. CASE Restart \/ Reorganize_CommitFault
             \/ \E b \in Block : SetBestChainInner_CommitFault(b)
  BY <1>1, <1>2 DEF Undisturbed, Restart, Reorganize_CommitFault,
                    SetBestChainInner_CommitFault
<1>3. ASSUME UNCHANGED counters
      PROVE  /\ skipped = {}
             /\ \A b \in mapBlockIndex \ {pindexNew} :
                   Replay[b].ok => nChainTrust[b] <= nChainTrust[pindexBest]
             /\ pc # "idle" => nChainTrust[pindexNew] > nChainTrust[pindexBest]
             /\ pc = "inner" /\ pindexIntermediate # NoBlock => tip = pindexNew
  BY <1>3 DEF BetterInv, Undisturbed, counters
<1>4. ASSUME NEW b \in Block \ {Genesis}, AcceptBlock(b) PROVE BetterInv'
  <2>1. /\ skipped = {} /\ pc = "idle" /\ pindexNew = NoBlock
        /\ \A x \in mapBlockIndex \ {pindexNew} :
              Replay[x].ok => nChainTrust[x] <= nChainTrust[pindexBest]
    BY <1>3, <1>4 DEF AcceptBlock, Arrives, ControlInv, AtIdle
  <2>2. /\ skipped' = skipped /\ mapBlockIndex' = mapBlockIndex \cup {b}
        /\ pindexBest' = pindexBest /\ NoBlock \notin mapBlockIndex
    BY <1>1, <1>4, TreeAssumption DEF AcceptBlock, history
  <2>3. CASE nChainTrust[b] > nChainTrust[pindexBest]
    <3>1. pc' = "begin" /\ pindexNew' = b
      BY <1>4, <2>3 DEF AcceptBlock
    <3> QED BY <2>1, <2>2, <2>3, <3>1 DEF BetterInv
  <2>4. CASE ~ (nChainTrust[b] > nChainTrust[pindexBest])
    <3>1. pc' = pc /\ pindexNew' = pindexNew
      BY <1>4, <2>4 DEF AcceptBlock
    <3>2. nChainTrust[b] <= nChainTrust[pindexBest]
      BY <1>1, <2>4, TreeAssumption
    <3> QED BY <2>1, <2>2, <3>1, <3>2 DEF BetterInv
  <2> QED BY <2>3, <2>4
<1>5. CASE ExtendBest
  <2>1. pindexIntermediate' = NoBlock /\ pc # "idle"
    BY <1>5 DEF ExtendBest, ControlInv, AtBegin
  <2> QED BY <1>3, <1>5, <2>1 DEF ExtendBest, memory, history
<1>6. CASE \/ BeginReorganize \/ Reorganize_Disconnect
           \/ \E b \in Block : Reorganize_Connect(b)
  <2>1. /\ pc # "idle" /\ pc' = "reorganize" /\ UNCHANGED counters
        /\ UNCHANGED <<mapBlockIndex, pindexBest, pindexNew, skipped>>
    BY <1>6 DEF BeginReorganize, Reorganize_Disconnect, Reorganize_Connect, Disconnecting,
                memory, history
  <2> QED BY <1>3, <2>1
<1>7. CASE Reorganize_Invalid \/ \E b \in Block : SetBestChainInner_Invalid(b)
  <2>1. UNCHANGED counters
    BY <1>7 DEF Reorganize_Invalid, SetBestChainInner_Invalid
  <2>2. ~ Replay[pindexNew].ok
    BY <1>3, <1>7, <2>1, NoFailure
  <2>3. /\ mapBlockIndex' = mapBlockIndex /\ pc' = "idle"
        /\ pindexBest' = pindexBest /\ skipped' = skipped
    <3>1. CASE Reorganize_Invalid
      BY <3>1 DEF Reorganize_Invalid, ReorganizeFails, Return, history
    <3>2. ASSUME NEW b \in Block, SetBestChainInner_Invalid(b)
          PROVE  pindexIntermediate = NoBlock
      <4>1. /\ pc = "inner" /\ b \in Ancestors[pindexNew] /\ b \notin Ancestors[tip]
        BY <3>2, InnerLemma DEF SetBestChainInner_Invalid
      <4> QED BY <1>3, <2>1, <4>1
    <3> QED BY <1>7, <3>1, <3>2 DEF SetBestChainInner_Invalid, GiveUp, Return
  <2> QED BY <1>3, <2>1, <2>2, <2>3
<1>8. CASE Reorganize_Commit
  <2>1. /\ pc = "reorganize" /\ tip = pindexIntermediate /\ UNCHANGED counters
        /\ UNCHANGED <<mapBlockIndex, pindexBest, pindexNew, pindexIntermediate, tip, skipped>>
    BY <1>8 DEF Reorganize_Commit, history
  <2>2. /\ pindexNew \in Block /\ tip \in Ancestors[pindexNew]
        /\ nChainTrust[tip] > nChainTrust[pindexBest] /\ tip \in Block
    BY <2>1, AncestorLemma DEF ControlInv, AtReorganize
  <2>3. tip \in mapBlockIndex
    BY <2>2, TreeAssumption DEF KnownInv
  <2>4. Replay[tip].ok
    BY <1>3, <2>1 DEF ValidInv
  <2>5. ~ (nChainTrust[tip] <= nChainTrust[pindexBest])
    BY <1>1, <2>2, TreeAssumption
  <2>6. tip = pindexNew
    BY <1>3, <2>1, <2>3, <2>4, <2>5
  <2> QED BY <1>3, <2>1, <2>6
<1>9. ASSUME NEW b \in Block, SetBestChainInner(b) PROVE BetterInv'
  <2>1. /\ pc = "inner" /\ pc' = "inner" /\ UNCHANGED counters
        /\ UNCHANGED <<mapBlockIndex, pindexBest, pindexNew, pindexIntermediate, skipped>>
    BY <1>9 DEF SetBestChainInner, history
  <2>2. pindexIntermediate = NoBlock
    <3>1. b \in Ancestors[pindexNew] /\ b \notin Ancestors[tip]
      BY <1>9, InnerLemma DEF SetBestChainInner
    <3> QED BY <1>3, <2>1, <3>1
  <2> QED BY <1>3, <2>1, <2>2 DEF BetterInv
<1>10. CASE SetBestChain_Done
  <2>1. /\ pc = "inner" /\ pc' = "idle" /\ UNCHANGED counters
        /\ UNCHANGED <<mapBlockIndex, skipped>> /\ pindexBest' = pindexNew
    BY <1>10 DEF SetBestChain_Done, NewBest, Return, history
  <2>2. nChainTrust[pindexNew] > nChainTrust[pindexBest] /\ pindexNew \in Block
    BY <1>3, <2>1 DEF ControlInv, AtInner
  <2>3. ASSUME NEW x \in mapBlockIndex, Replay[x].ok
        PROVE  nChainTrust[x] <= nChainTrust[pindexNew]
    <3>1. /\ nChainTrust[x] \in Nat /\ nChainTrust[pindexNew] \in Nat
          /\ nChainTrust[pindexBest] \in Nat
      BY <1>1, <2>2, TreeAssumption
    <3>2. CASE x = pindexNew
      BY <3>1, <3>2
    <3>3. CASE x # pindexNew
      <4>1. nChainTrust[x] <= nChainTrust[pindexBest]
        BY <1>3, <2>1, <2>3, <3>3
      <4> QED BY <2>2, <3>1, <4>1
    <3> QED BY <3>2, <3>3
  <2> QED BY <1>3, <2>1, <2>3
<1>11. CASE UNCHANGED vars \/ \E b \in Block \ {Genesis} : RefuseBlock(b)
  <2>1. /\ UNCHANGED counters
        /\ UNCHANGED <<mapBlockIndex, pindexBest, pindexNew, pindexIntermediate, tip, pc, skipped>>
    BY <1>11 DEF vars, RefuseBlock, memory, locals, history
  <2> QED BY <1>3, <2>1
<1> QED
  BY <1>2, <1>4, <1>5, <1>6, <1>7, <1>8, <1>9, <1>10, <1>11
  DEF Next, ProcessStep, BetterInv

(***************************************************************************)
(* Between two blocks, with no crash and no failing commit so far, no      *)
(* known chain that connects from the genesis block outweighs the best     *)
(* chain, for every block tree within one subsidy period and every order   *)
(* of arrival: what a failed reorganization leaves behind is never a chain *)
(* the node should have taken.                                             *)
(***************************************************************************)
THEOREM NoBetterChainCorrect ==
    ASSUME SteadyReward
    PROVE  Spec => []NoBetterValidChain
<1>1. Init => KnownInv /\ BetterInv
  <2> SUFFICES ASSUME Init PROVE KnownInv /\ BetterInv
    OBVIOUS
  <2>1. KnownInv
    BY TreeAssumption DEF Init, KnownInv
  <2>2. BetterInv
    BY TreeAssumption DEF Init, BetterInv
  <2> QED BY <2>1, <2>2
<1>2. /\ ControlInv /\ IndexInv /\ ValidInv /\ KnownInv /\ BetterInv /\ [Next]_vars
      => BetterInv'
  BY BetterNext
<1>3. ControlInv /\ BetterInv => NoBetterValidChain
  <2> SUFFICES ASSUME ControlInv, BetterInv, pc = "idle", Undisturbed,
                      NEW b \in mapBlockIndex, Replay[b].ok
               PROVE  nChainTrust[b] <= nChainTrust[pindexBest]
    BY DEF NoBetterValidChain
  <2>1. pindexNew = NoBlock /\ b # NoBlock
    BY TreeAssumption DEF ControlInv, TypeOK, AtIdle
  <2> QED BY <2>1 DEF BetterInv
<1> QED BY <1>1, <1>2, <1>3, KnownNext, ReplayInvCorrect, PTL DEF Spec
=============================================================================
