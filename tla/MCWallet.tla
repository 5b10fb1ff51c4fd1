------------------------------ MODULE MCWallet ------------------------------
(***************************************************************************)
(* A fork for Wallet.  t1 pays the wallet and is in both branches; the     *)
(* wallet spends it with t2, which one branch confirms, or with d.  s is a *)
(* coinstake of the wallet, confirmed on the A branch only.  B3 is refused *)
(* after B1 and B2 have been connected; D3 is not.                         *)
(***************************************************************************)
EXTENDS Wallet

WalletBlock == {"G", "P", "A1", "A2", "B1", "B2", "B3", "D3"}

WalletPrev ==
    [b \in WalletBlock \ {"G"} |->
        CASE b = "P" -> "G"
          [] b = "A1" -> "P" [] b = "A2" -> "A1"
          [] b = "B1" -> "P" [] b = "B2" -> "B1"
          [] b = "B3" -> "B2" [] b = "D3" -> "B2"]

ForkTx == {"cp", "ca1", "ca2", "cb1", "cb2", "cb3", "cd3", "s", "t1", "t2", "d"}

WalletVtx ==
    [b \in WalletBlock |->
        CASE b = "G" -> << >>
          [] b = "P" -> <<"cp">>
          [] b = "A1" -> <<"ca1", "t1">>
          [] b = "A2" -> <<"ca2", "s", "t2">>
          [] b = "B1" -> <<"cb1", "t1">>
          [] b = "B2" -> <<"cb2">>
          [] b = "B3" -> <<"cb3">>
          [] b = "D3" -> <<"cd3">>]

WalletVin ==
    [t \in ForkTx |->
        CASE t = "t1" -> {<<"cp", 1>>}
          [] t \in {"t2", "d"} -> {<<"t1", 0>>}
          [] t = "s" -> {<<"cp", 0>>}
          [] OTHER -> {}]

WalletNOut == [t \in ForkTx |-> IF t \in {"cp", "s"} THEN 2 ELSE 1]
WalletMine == {<<"cp", 0>>, <<"t1", 0>>, <<"s", 1>>}
WalletKernel == [t \in {"s"} |-> <<"cp", 0>>]

TreeHeight[b \in Block] == IF b = Genesis THEN 0 ELSE TreeHeight[hashPrevBlock[b]] + 1
TreeTrust[b \in Block] == TreeHeight[b] + 1
TreeAncestors[b \in Block] ==
    IF b = Genesis THEN {b} ELSE {b} \cup TreeAncestors[hashPrevBlock[b]]

OneCoin == [b \in Block |-> 1]
FlatReward == [h \in 0 .. 5 |-> 1]
=============================================================================
