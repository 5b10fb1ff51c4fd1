---------------------------- MODULE MCBlockSync ----------------------------
(***************************************************************************)
(* The code announces 1500 blocks per getblocks, in messages of 1000, and  *)
(* remembers the last 1000.  In MCBlockSync_stall.cfg the limits have that *)
(* proportion (3, 2, 2); in MCBlockSync.cfg they are 2, 1, 1, so that a    *)
(* batch is still longer than a message and than what is remembered.       *)
(***************************************************************************)
EXTENDS BlockSync
=============================================================================
