------------------------------ MODULE MCChain ------------------------------
(***************************************************************************)
(* Block trees for Chain.  Fork: two branches above P that confirm the     *)
(* same transaction t1, spend its output differently and end in blocks     *)
(* that do not connect.                                                    *)
(***************************************************************************)
EXTENDS Chain

ForkBlock == {"G", "P", "A1", "A2", "A3", "B1", "B2", "B3", "C2", "C3"}

ForkPrev ==
    [b \in ForkBlock \ {"G"} |->
        CASE b = "P" -> "G"   [] b = "A1" -> "P"  [] b = "A2" -> "A1"
          [] b = "A3" -> "A2" [] b = "B1" -> "P"  [] b = "B2" -> "B1"
          [] b = "B3" -> "B2" [] b = "C2" -> "B1" [] b = "C3" -> "C2"]

ForkTx == {"cp", "ca1", "ca2", "ca3", "cb1", "cb2", "cb3", "cc2", "cc3",
           "t1", "t2", "t3", "t4", "t5", "t6", "s7", "t8"}

ForkVtx ==
    [b \in ForkBlock |->
        CASE b = "G" -> << >>
          [] b = "P" -> <<"cp">>
          [] b = "A1" -> <<"ca1", "t1">>
          [] b = "A2" -> <<"ca2", "t2">>
          [] b = "A3" -> <<"ca3", "t3">>         \* t3 spends what t1 spent
          [] b = "B1" -> <<"cb1", "t1", "t4">>   \* t4 spends t1 in its block
          [] b = "B2" -> <<"cb2", "t5">>
          [] b = "B3" -> <<"cb3", "t6">>         \* t6 spends cb3, immature
          [] b = "C2" -> <<"cc2", "s7">>         \* s7 is a coinstake
          [] b = "C3" -> <<"cc3", "t8">>]

ForkVin ==
    [t \in ForkTx |->
        CASE t = "t1" -> {<<"cp", 0>>}
          [] t = "t2" -> {<<"t1", 0>>}
          [] t = "t3" -> {<<"cp", 0>>, <<"t2", 0>>}
          [] t = "t4" -> {<<"t1", 0>>, <<"cp", 1>>}
          [] t = "t5" -> {<<"t4", 0>>}
          [] t = "t6" -> {<<"cb3", 0>>}
          [] t = "s7" -> {<<"cp", 2>>, <<"cb1", 0>>}
          [] t = "t8" -> {<<"s7", 0>>, <<"t4", 0>>}
          [] OTHER -> {}]

ForkNOut == [t \in ForkTx |-> IF t = "cp" THEN 3 ELSE 1]
ForkKernel == [t \in {"s7"} |-> <<"cp", 2>>]

ForkBlockTrust == [b \in ForkBlock |-> IF b = "C2" THEN 2 ELSE 1]

(* The derived fields of CBlockIndex.                                      *)
TreeHeight[b \in Block] == IF b = Genesis THEN 0 ELSE TreeHeight[hashPrevBlock[b]] + 1
TreeTrust[b \in Block] ==
    IF b = Genesis THEN 1 ELSE TreeTrust[hashPrevBlock[b]] + ForkBlockTrust[b]
TreeAncestors[b \in Block] ==
    IF b = Genesis THEN {b} ELSE {b} \cup TreeAncestors[hashPrevBlock[b]]

(* The coinbases pay 1; the subsidy is 1 throughout, or ends after height  *)
(* 3.                                                                      *)
OneCoin == [b \in Block |-> 1]
FlatReward == [h \in 0 .. 4 |-> 1]
EndingReward == [h \in 0 .. 4 |-> IF h <= 3 THEN 1 ELSE 0]
=============================================================================
