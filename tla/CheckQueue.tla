----------------------------- MODULE CheckQueue -----------------------------
(***************************************************************************)
(* CCheckQueue: a master adds batches of checks to a stack, worker threads *)
(* take shares of it, and in Wait the master joins them until all checks   *)
(* are done.  In Loop a thread takes the mutex in one step and gives it up *)
(* in another, since CCheckQueueControl reads the counters without it; it  *)
(* works on its share without the mutex.  A check is its result.           *)
(***************************************************************************)
EXTENDS Integers, Sequences, FiniteSets, FiniteSetsExt

CONSTANTS
    Worker, master,
    nBatchSize,
    Batch,          \* the batches of results the master may add
    MaxAdd          \* bound: batches added before Wait is called

ASSUME CheckQueueAssumption ==
    /\ master \notin Worker /\ IsFiniteSet(Worker)
    /\ nBatchSize \in Nat \ {0} /\ MaxAdd \in Nat
    /\ Batch \subseteq Seq(BOOLEAN)

VARIABLES
    queue, nIdle, nTotal, fAllOk, nTodo,
    pc,         \* "out", "enter", "inside", "wait", "woken", "work" or "done"
    vChecks,    \* the share of each thread
    nNow,       \* its size
    fOk,
    added,      \* batches added for the next Wait
    expected    \* history: the conjunction of all checks added for it

Thread == Worker \cup {master}
local == <<vChecks, nNow, fOk>>
vars == <<queue, nIdle, nTotal, fAllOk, nTodo, pc, local, added, expected>>

(* A thread inside the critical section has the mutex.                     *)
MutexFree == \A t \in Thread : pc[t] # "inside"

All(s) == \A i \in DOMAIN s : s[i]

-----------------------------------------------------------------------------
(* The master's calls.                                                     *)

(* The sets of workers that notify_one or notify_all may wake.             *)
Woken(n) ==
    LET waiting == {w \in Worker : pc[w] = "wait"}
    IN  IF n = 0 \/ waiting = {} THEN {{}}
        ELSE IF n = 1 THEN {{w} : w \in waiting} ELSE {waiting}

Add(b) ==
    /\ pc[master] = "out" /\ added < MaxAdd /\ MutexFree
    /\ queue' = queue \o b
    /\ nTodo' = nTodo + Len(b)
    /\ \E W \in Woken(Len(b)) :
          pc' = [t \in Thread |-> IF t \in W THEN "woken" ELSE pc[t]]
    /\ added' = added + 1
    /\ expected' = (expected /\ All(b))
    /\ UNCHANGED <<nIdle, nTotal, fAllOk, local>>

(* By the caller, or by the destructor of CCheckQueueControl.              *)
Wait ==
    /\ pc[master] = "out"
    /\ pc' = [pc EXCEPT ![master] = "enter"]
    /\ nNow' = [nNow EXCEPT ![master] = 0]
    /\ UNCHANGED <<queue, nIdle, nTotal, fAllOk, nTodo, vChecks, fOk, added, expected>>

-----------------------------------------------------------------------------
(* Loop.  A thread takes the mutex and does the clean-up after its last    *)
(* share, or what follows the return from the condition variable; it is    *)
(* then inside the critical section, and leaves it in a second step.       *)

InLoop(t) == pc[t] \in {"enter", "done", "woken"}

TotalNow(t) == IF pc[t] = "enter" THEN nTotal + 1 ELSE nTotal

IdleNow(t) == IF pc[t] = "woken" THEN nIdle - 1 ELSE nIdle

TodoNow(t) == IF pc[t] = "done" THEN nTodo - nNow[t] ELSE nTodo

(* Mutant: the last share's result replaces the others'.                   *)
OkNow_Last(t) == IF pc[t] = "done" THEN fOk[t] ELSE fAllOk

OkNow(t) == IF pc[t] = "done" THEN fAllOk /\ fOk[t] ELSE fAllOk

(* Mutant: nobody tells the master.                                        *)
InformMaster_Never(t) == pc

(* "We processed the last element; inform the master".                     *)
InformMaster(t) ==
    IF pc[t] = "done" /\ TodoNow(t) = 0 /\ t # master /\ pc[master] = "wait"
    THEN [pc EXCEPT ![master] = "woken"] ELSE pc

Loop_Lock(t) ==
    /\ InLoop(t) /\ MutexFree
    /\ nTotal' = TotalNow(t)
    /\ nIdle' = IdleNow(t)
    /\ nTodo' = TodoNow(t)
    /\ fAllOk' = OkNow(t)
    /\ pc' = [InformMaster(t) EXCEPT ![t] = "inside"]
    /\ UNCHANGED <<queue, local, added, expected>>

(* Mutant: the status is not reset for new work.                           *)
Loop_Return_NoReset ==
    /\ pc[master] = "inside" /\ queue = << >> /\ nTodo = 0
    /\ nTotal' = nTotal - 1
    /\ pc' = [pc EXCEPT ![master] = "out"]
    /\ added' = 0 /\ expected' = TRUE
    /\ UNCHANGED <<queue, nIdle, nTodo, fAllOk, local>>

Loop_Return ==
    /\ pc[master] = "inside" /\ queue = << >> /\ nTodo = 0
    /\ nTotal' = nTotal - 1
    /\ fAllOk' = TRUE
    /\ pc' = [pc EXCEPT ![master] = "out"]
    /\ added' = 0 /\ expected' = TRUE
    /\ UNCHANGED <<queue, nIdle, nTodo, local>>

(* What Wait returns in that step.                                         *)
fRet == fAllOk

Loop_Wait(t) ==
    /\ pc[t] = "inside" /\ queue = << >> /\ ~ (t = master /\ nTodo = 0)
    /\ nIdle' = nIdle + 1
    /\ pc' = [pc EXCEPT ![t] = "wait"]
    /\ UNCHANGED <<queue, nTotal, nTodo, fAllOk, local, added, expected>>

ShareSize == Max({1, Min({nBatchSize, Len(queue) \div (nTotal + nIdle + 1)})})

(* The share comes from the back of the queue.                             *)
Loop_Take(t) ==
    LET n == ShareSize
        left == Len(queue) - n
    IN  /\ pc[t] = "inside" /\ queue # << >>
        /\ queue' = SubSeq(queue, 1, left)
        /\ vChecks' = [vChecks EXCEPT ![t] = SubSeq(queue, left + 1, Len(queue))]
        /\ nNow' = [nNow EXCEPT ![t] = n]
        /\ fOk' = [fOk EXCEPT ![t] = fAllOk]
        /\ pc' = [pc EXCEPT ![t] = "work"]
        /\ UNCHANGED <<nTotal, nIdle, nTodo, fAllOk, added, expected>>

(* Without the mutex; once one has failed the others are not run.          *)
Work(t) ==
    /\ pc[t] = "work"
    /\ fOk' = [fOk EXCEPT ![t] = @ /\ All(vChecks[t])]
    /\ vChecks' = [vChecks EXCEPT ![t] = << >>]
    /\ pc' = [pc EXCEPT ![t] = "done"]
    /\ UNCHANGED <<queue, nIdle, nTotal, fAllOk, nTodo, nNow, added, expected>>

(* A condition variable may return without having been notified.           *)
SpuriousWakeup(t) ==
    /\ pc[t] = "wait"
    /\ pc' = [pc EXCEPT ![t] = "woken"]
    /\ UNCHANGED <<queue, nIdle, nTotal, fAllOk, nTodo, local, added, expected>>

Init ==
    /\ queue = << >> /\ nIdle = 0 /\ nTotal = 0 /\ fAllOk = TRUE /\ nTodo = 0
    /\ pc = [t \in Thread |-> IF t = master THEN "out" ELSE "enter"]
    /\ vChecks = [t \in Thread |-> << >>]
    /\ nNow = [t \in Thread |-> 0]
    /\ fOk = [t \in Thread |-> TRUE]
    /\ added = 0 /\ expected = TRUE

Step(t) == Loop_Wait(t) \/ Loop_Take(t) \/ Work(t)

Next ==
    \/ \E b \in Batch : Add(b)
    \/ Wait
    \/ Loop_Return
    \/ \E t \in Thread : Loop_Lock(t) \/ Step(t) \/ SpuriousWakeup(t)

(* Every thread that can run does so some time, and one that waits for the *)
(* mutex gets it some time.                                                *)
Fairness ==
    /\ WF_vars(Loop_Return)
    /\ \A t \in Thread : WF_vars(Step(t)) /\ SF_vars(Loop_Lock(t))

Spec == Init /\ [][Next]_vars

FairSpec == Spec /\ Fairness
-----------------------------------------------------------------------------
(* Properties.                                                             *)

TypeOK ==
    /\ queue \in Seq(BOOLEAN)
    /\ nIdle \in 0 .. Cardinality(Thread) /\ nTotal \in 0 .. Cardinality(Thread)
    /\ fAllOk \in BOOLEAN /\ expected \in BOOLEAN
    /\ nTodo \in Nat /\ added \in 0 .. MaxAdd
    /\ pc \in [Thread -> {"out", "enter", "inside", "wait", "woken", "work", "done"}]
    /\ fOk \in [Thread -> BOOLEAN]
    /\ \A t \in Thread : nNow[t] \in 0 .. nBatchSize

(***************************************************************************)
(* Wait returns the conjunction of exactly the checks added since the last *)
(* Wait: none is missed, however the workers share them, and no result of  *)
(* an earlier round reaches a later one.                                   *)
(***************************************************************************)
WaitReturnsConjunction == [][Loop_Return => fRet = expected]_vars

(***************************************************************************)
(* "Passed queue is supposed to be unused": when Wait has returned and     *)
(* nothing has been added since, which is when a CCheckQueueControl is     *)
(* made, nothing is queued, no worker still has a share of the round       *)
(* before, nothing has failed, and every thread in Loop is idle except the *)
(* one that has the mutex.                                                 *)
(***************************************************************************)
RoundStartsClean ==
    pc[master] = "out" /\ added = 0 =>
        /\ nTodo = 0 /\ fAllOk /\ queue = << >>
        /\ \A t \in Worker : pc[t] \notin {"work", "done"}
        /\ MutexFree => nTotal = nIdle

(***************************************************************************)
(* The constructor of CCheckQueueControl asserts more, and reads without   *)
(* the mutex.  This does not hold: a worker that woke late, or one that    *)
(* has just been started, is counted in nTotal and not in nIdle while it   *)
(* has the mutex.                                                          *)
(***************************************************************************)
ControlAsserts ==
    pc[master] = "out" /\ added = 0 => nTotal = nIdle /\ nTodo = 0 /\ fAllOk

(***************************************************************************)
(* Wait returns: there is always a thread that goes on, also when the last *)
(* share is finished by a worker while the master waits, when a            *)
(* notification finds nobody waiting and when threads wake for nothing.    *)
(***************************************************************************)
WaitReturns == (pc[master] = "enter") ~> (pc[master] = "out")
=============================================================================
