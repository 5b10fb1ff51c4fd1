----------------------------- MODULE MCKeyPool -----------------------------
(***************************************************************************)
(* KeyPool with two CReserveKey objects.                                   *)
(***************************************************************************)
EXTENDS KeyPool, TLC

CONSTANTS miner, send

MCHolder == {miner, send}
HolderSymmetry == Permutations(MCHolder)
=============================================================================
