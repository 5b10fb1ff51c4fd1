----------------------------- MODULE MCOrphanTx -----------------------------
(***************************************************************************)
(* A fork for the pool and the tx message: t1 is confirmed on the A        *)
(* branch, its rival u1 on the B branch or only in the pool, v on the A    *)
(* branch alone, w on both; t2 has two parents that may come as messages   *)
(* or in blocks, t3 depends on t2, x spends an output that does not exist, *)
(* n is not standard, l its child is too large to be held and never        *)
(* acceptable; u1 is in the wallet when the node starts.                   *)
(***************************************************************************)
EXTENDS OrphanTx

RelayBlock == {"G", "P", "A1", "B1", "B2", "D2"}

RelayPrev ==
    [b \in RelayBlock \ {"G"} |->
        CASE b = "P" -> "G" [] b = "A1" -> "P" [] b = "B1" -> "P"
          [] b = "B2" -> "B1" [] b = "D2" -> "B1"]

RelayTx == {"cp", "ca1", "cb1", "cb2", "cd2", "t1", "t2", "t3", "u1", "v", "w", "n",
            "x", "l", "s"}

RelayVtx ==
    [b \in RelayBlock |->
        CASE b = "G" -> << >>
          [] b = "P" -> <<"cp">>
          [] b = "A1" -> <<"ca1", "s", "t1", "v", "w", "n">>   \* s is a coinstake
          [] b = "B1" -> <<"cb1">>
          [] b = "B2" -> <<"cb2", "u1", "w">>
          [] b = "D2" -> <<"cd2", "t1">>]       \* refused by ConnectBlock

RelayVin ==
    [t \in RelayTx |->
        CASE t = "t1" -> {<<"cp", 0>>}
          [] t = "u1" -> {<<"cp", 0>>}
          [] t = "w" -> {<<"cp", 1>>}
          [] t = "n" -> {<<"cp", 2>>}
          [] t = "v" -> {<<"cp", 4>>}
          [] t = "s" -> {<<"cp", 3>>}
          [] t = "t2" -> {<<"t1", 0>>, <<"w", 0>>}
          [] t = "t3" -> {<<"t2", 0>>}
          [] t = "x" -> {<<"w", 1>>}
          [] t = "l" -> {<<"n", 1>>}
          [] OTHER -> {}]

RelayNOut == [t \in RelayTx |-> IF t = "cp" THEN 5 ELSE 1]

TreeHeight[b \in Block] == IF b = Genesis THEN 0 ELSE TreeHeight[hashPrevBlock[b]] + 1
TreeTrust[b \in Block] == TreeHeight[b] + 1
TreeAncestors[b \in Block] ==
    IF b = Genesis THEN {b} ELSE {b} \cup TreeAncestors[hashPrevBlock[b]]

RelayKernel == [t \in {"s"} |-> <<"cp", 3>>]
OneCoin == [b \in Block |-> 1]
FlatReward == [h \in 0 .. 5 |-> 1]
=============================================================================
