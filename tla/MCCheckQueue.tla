---------------------------- MODULE MCCheckQueue ----------------------------
(***************************************************************************)
(* CheckQueue with two workers; a failing check may be anywhere            *)
(* in a batch.                                                             *)
(***************************************************************************)
EXTENDS CheckQueue

CONSTANTS w1, w2, m

TwoWorkers == {w1, w2}

(* None, one, or several checks; with seven a share has more than one.     *)
SmallBatches ==
    {<< >>, <<TRUE>>, <<FALSE>>, <<FALSE, TRUE>>,
     <<TRUE, TRUE, TRUE, TRUE, TRUE, FALSE, TRUE>>}
=============================================================================
