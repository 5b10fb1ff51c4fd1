--------------------------- MODULE MCOrphanBlocks ---------------------------
(***************************************************************************)
(* A tree for OrphanBlocks.  A1, B2 and D2 use the same stake; the best    *)
(* chain goes through B2, which is accepted after A1 only because E3 is    *)
(* held; F2 does not connect and F3, which spends an output of A1, waits    *)
(* for it.                                                                 *)
(***************************************************************************)
EXTENDS OrphanBlocks

NodeBlock == {"G", "P", "A1", "B1", "B2", "D2", "E3", "F2", "F3"}

NodePrev ==
    [b \in NodeBlock \ {"G"} |->
        CASE b = "P" -> "G"   [] b = "A1" -> "P"  [] b = "B1" -> "P"
          [] b = "B2" -> "B1" [] b = "D2" -> "B1" [] b = "E3" -> "B2"
          [] b = "F2" -> "A1" [] b = "F3" -> "F2"]

NodeTx == {"cp", "ca1", "cb1", "cb2", "cd2", "ce3", "cf2", "cf3", "sa", "sb", "sd", "tf"}

NodeVtx ==
    [b \in NodeBlock |->
        CASE b = "G" -> << >>
          [] b = "P" -> <<"cp">>
          [] b = "A1" -> <<"ca1", "sa">>
          [] b = "B1" -> <<"cb1">>
          [] b = "B2" -> <<"cb2", "sb">>
          [] b = "D2" -> <<"cd2", "sd">>
          [] b = "E3" -> <<"ce3">>
          [] b = "F2" -> <<"cf2">>
          [] b = "F3" -> <<"cf3", "tf">>]

NodeVin ==
    [t \in NodeTx |->
        CASE t \in {"sa", "sb", "sd"} -> {<<"cp", 0>>}
          [] t = "tf" -> {<<"ca1", 0>>}
          [] OTHER -> {}]
NodeNOut == [t \in NodeTx |-> 1]
NodeKernel == [t \in CoinStake |-> <<"cp", 0>>]
NodeStakeTime == [t \in CoinStake |-> 1]

TreeHeight[b \in Block] == IF b = Genesis THEN 0 ELSE TreeHeight[hashPrevBlock[b]] + 1
TreeTrust[b \in Block] == TreeHeight[b] + 1
TreeAncestors[b \in Block] ==
    IF b = Genesis THEN {b} ELSE {b} \cup TreeAncestors[hashPrevBlock[b]]

OneCoin == [b \in Block |-> 1]
FlatReward == [h \in 0 .. 4 |-> 1]
=============================================================================
