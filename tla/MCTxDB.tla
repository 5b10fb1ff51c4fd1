------------------------------- MODULE MCTxDB -------------------------------
(***************************************************************************)
(* Two CTxDB objects, two keys and two values, all interchangeable.        *)
(***************************************************************************)
EXTENDS TxDB, TLC

CONSTANTS h1, h2, k1, k2, v1, v2

Handles == {h1, h2}
Keys == {k1, k2}
Values == {v1, v2}
Symmetry == Permutations(Handles) \cup Permutations(Keys) \cup Permutations(Values)
=============================================================================
