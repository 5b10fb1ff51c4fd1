-------------------------- MODULE CheckQueueProofs --------------------------
(***************************************************************************)
(* CCheckQueue counts right and Wait returns the conjunction of all        *)
(* checks, for any number of workers, any batch size and any batches.      *)
(***************************************************************************)
EXTENDS CheckQueue, FiniteSetTheorems, SequenceTheorems, TLAPS

(* The threads in Loop: those with a share, the one that has the mutex,    *)
(* and those that wait.                                                    *)
Busy == {t \in Thread : pc[t] \in {"work", "done"}}
Inside == {t \in Thread : pc[t] = "inside"}
Idle == {t \in Thread : pc[t] \in {"wait", "woken"}}

(* One element for each check that a thread has taken and not reported, so *)
(* that the sum of the shares is a cardinality.                            *)
Slot == Thread \X (1 .. nBatchSize)
SharesOf(S, now) == {p \in Slot : p[1] \in S /\ p[2] <= now[p[1]]}
Shares == SharesOf(Busy, nNow)

LocalInv ==
    /\ queue \in Seq(BOOLEAN)
    /\ pc \in [Thread -> {"out", "enter", "inside", "wait", "woken", "work", "done"}]
    /\ vChecks \in [Thread -> Seq(BOOLEAN)]
    /\ nNow \in [Thread -> 0 .. nBatchSize]
    /\ fOk \in [Thread -> BOOLEAN]
    /\ fAllOk \in BOOLEAN /\ expected \in BOOLEAN /\ added \in 0 .. MaxAdd
    /\ \A t \in Busy : nNow[t] # 0

(* The counters.                                                           *)
CountInv ==
    /\ nIdle = Cardinality(Idle)
    /\ nTotal = Cardinality(Busy \cup Idle \cup Inside)
    /\ nTodo = Len(queue) + Cardinality(Shares)

(* What has been found out, and what the checks that are left will tell,   *)
(* are together the result that is expected.                               *)
ResultInv ==
    expected <=>
        /\ fAllOk /\ All(queue)
        /\ \A t \in Busy : fOk[t] /\ (pc[t] = "work" => All(vChecks[t]))

(* A new round begins with nothing to do and nothing failed.               *)
RoundInv == pc[master] = "out" /\ added = 0 => nTodo = 0 /\ expected

QueueInv == LocalInv /\ CountInv /\ ResultInv /\ RoundInv

-----------------------------------------------------------------------------
(* Counting.                                                               *)

LEMMA ThreadFinite ==
    /\ IsFiniteSet(Thread) /\ master \in Thread
    /\ \A S : S \subseteq Thread => IsFiniteSet(S) /\ Cardinality(S) \in 0 .. Cardinality(Thread)
<1>1. IsFiniteSet(Thread)
  BY CheckQueueAssumption, FS_AddElement DEF Thread
<1>2. ASSUME NEW S, S \subseteq Thread
      PROVE  IsFiniteSet(S) /\ Cardinality(S) \in 0 .. Cardinality(Thread)
  BY <1>1, <1>2, FS_Subset, FS_CardinalityType
<1>3. master \in Thread
  BY DEF Thread
<1> QED BY <1>1, <1>2, <1>3

(* The checks of one thread, and what is left without them.                *)
Own(t, n) == {t} \X (1 .. n)

LEMMA OwnCard ==
    ASSUME NEW t, NEW n \in Nat
    PROVE  IsFiniteSet(Own(t, n)) /\ Cardinality(Own(t, n)) = n
<1>1. IsFiniteSet({t}) /\ Cardinality({t}) = 1
  BY FS_Singleton
<1>2. IsFiniteSet(1 .. n) /\ Cardinality(1 .. n) = n
  BY FS_Interval
<1>3. Cardinality({t} \X (1 .. n)) = Cardinality({t}) * Cardinality(1 .. n)
  BY <1>1, <1>2, FS_Product
<1> QED BY <1>1, <1>2, <1>3, FS_Product DEF Own

LEMMA SharesFinite ==
    ASSUME NEW S, NEW now
    PROVE  IsFiniteSet(SharesOf(S, now)) /\ Cardinality(SharesOf(S, now)) \in Nat
<1>1. IsFiniteSet(1 .. nBatchSize)
  BY CheckQueueAssumption, FS_Interval
<1>2. IsFiniteSet(Slot)
  BY <1>1, ThreadFinite, FS_Product DEF Slot
<1>3. SharesOf(S, now) \subseteq Slot
  BY DEF SharesOf
<1> QED BY <1>2, <1>3, FS_Subset, FS_CardinalityType

(* One more thread with a share.                                           *)
LEMMA SharesAdd ==
    ASSUME NEW S \in SUBSET Thread, NEW now \in [Thread -> 0 .. nBatchSize], NEW t \in Thread \ S
    PROVE  Cardinality(SharesOf(S \cup {t}, now)) = Cardinality(SharesOf(S, now)) + now[t]
<1> DEFINE A == SharesOf(S, now)
           B == Own(t, now[t])
<1>1. now[t] \in Nat /\ now[t] <= nBatchSize
  BY CheckQueueAssumption
<1>2. SharesOf(S \cup {t}, now) = A \cup B
  <2>1. ASSUME NEW p \in SharesOf(S \cup {t}, now) PROVE p \in A \cup B
    <3>1. p \in Slot /\ p = <<p[1], p[2]>> /\ p[2] \in 1 .. nBatchSize /\ p[2] <= now[p[1]]
      BY DEF SharesOf, Slot
    <3>2. CASE p[1] = t
      <4>1. p[2] \in 1 .. now[t]
        BY <1>1, <3>1, <3>2, CheckQueueAssumption
      <4> QED BY <3>1, <3>2, <4>1 DEF Own
    <3>3. CASE p[1] \in S
      BY <3>1, <3>3 DEF SharesOf
    <3> QED BY <3>2, <3>3 DEF SharesOf
  <2>2. ASSUME NEW p \in A PROVE p \in SharesOf(S \cup {t}, now)
    BY DEF SharesOf
  <2>3. ASSUME NEW p \in B PROVE p \in SharesOf(S \cup {t}, now)
    <3>1. p = <<t, p[2]>> /\ p[1] = t /\ p[2] \in 1 .. now[t]
      BY DEF Own
    <3>2. p[2] \in 1 .. nBatchSize /\ p[2] <= now[t]
      BY <1>1, <3>1, CheckQueueAssumption
    <3> QED BY <3>1, <3>2 DEF SharesOf, Slot
  <2> HIDE DEF A, B
  <2> QED BY <2>1, <2>2, <2>3
<1>3. A \cap B = {}
  BY DEF SharesOf, Own
<1>4. /\ IsFiniteSet(A) /\ Cardinality(A) \in Nat
      /\ IsFiniteSet(B) /\ Cardinality(B) = now[t]
  BY <1>1, SharesFinite, OwnCard
<1> HIDE DEF A, B
<1>5. Cardinality(A \cup B) = Cardinality(A) + Cardinality(B) - Cardinality(A \cap B)
  BY <1>4, FS_Union
<1>6. Cardinality(A \cap B) = 0
  BY <1>3, FS_EmptySet
<1>7. Cardinality(A \cup B) = Cardinality(A) + now[t]
  BY <1>1, <1>4, <1>5, <1>6
<1> QED BY <1>2, <1>7, Zenon DEF A

LEMMA SharesSame ==
    ASSUME NEW S, NEW f, NEW g, \A t \in S : f[t] = g[t]
    PROVE  SharesOf(S, f) = SharesOf(S, g)
  BY DEF SharesOf

(* While nothing is to be done no thread has a share.                      *)
LEMMA NothingLeft ==
    ASSUME LocalInv, CountInv
    PROVE  /\ nTodo \in Nat
           /\ nTodo = 0 => queue = << >> /\ Busy = {}
<1>1. Len(queue) \in Nat /\ Cardinality(Shares) \in Nat
  BY SharesFinite DEF LocalInv, Shares
<1>2. nTodo \in Nat
  BY <1>1 DEF CountInv
<1>3. ASSUME nTodo = 0 PROVE queue = << >> /\ Busy = {}
  <2>1. Len(queue) = 0 /\ Cardinality(Shares) = 0
    BY <1>1, <1>3 DEF CountInv
  <2>2. Shares = {}
    BY <2>1, SharesFinite, FS_EmptySet DEF Shares
  <2>3. ASSUME NEW t \in Busy PROVE FALSE
    <3>1. t \in Thread /\ nNow[t] \in 0 .. nBatchSize /\ nNow[t] # 0
      BY DEF Busy, LocalInv
    <3>2. 1 \in 1 .. nBatchSize /\ 1 <= nNow[t]
      BY <3>1, CheckQueueAssumption
    <3>3. <<t, 1>> \in Shares
      BY <2>3, <3>1, <3>2 DEF Shares, SharesOf, Slot
    <3> QED BY <2>2, <3>3
  <2> QED BY <2>1, <2>3 DEF LocalInv
<1> QED BY <1>2, <1>3

-----------------------------------------------------------------------------
(* The size of a share.                                                    *)

LEMMA DivLemma == \A a \in Nat, d \in Nat \ {0} : a \div d \in Nat /\ a \div d <= a
  OBVIOUS

LEMMA PairLemma ==
    \A a, b \in Int : /\ Max({a, b}) = IF a >= b THEN a ELSE b
                      /\ Min({a, b}) = IF a <= b THEN a ELSE b
<1>1. ASSUME NEW a \in Int, NEW b \in Int PROVE Max({a, b}) = IF a >= b THEN a ELSE b
  BY DEF Max
<1>2. ASSUME NEW a \in Int, NEW b \in Int PROVE Min({a, b}) = IF a <= b THEN a ELSE b
  BY DEF Min
<1> QED BY <1>1, <1>2
-----------------------------------------------------------------------------
(* Entering the critical section of Loop: the counters without thread t.   *)
LEMMA CleanUp ==
    ASSUME LocalInv, CountInv, NEW t \in Thread, InLoop(t)
    PROVE  /\ IdleNow(t) = Cardinality(Idle \ {t})
           /\ TotalNow(t) = Cardinality(Busy \cup Idle \cup Inside \cup {t})
           /\ TodoNow(t) = Len(queue) + Cardinality(SharesOf(Busy \ {t}, nNow))
<1> DEFINE All3 == Busy \cup Idle \cup Inside
<1>1. /\ Busy \subseteq Thread /\ Idle \subseteq Thread /\ Busy \ {t} \in SUBSET Thread
      /\ IsFiniteSet(Idle) /\ IsFiniteSet(All3)
      /\ Cardinality(Idle) \in Nat /\ Cardinality(All3) \in Nat
  BY ThreadFinite, FS_CardinalityType DEF Busy, Idle, Inside
<1>2. Len(queue) \in Nat /\ nNow[t] \in Nat /\ Cardinality(SharesOf(Busy \ {t}, nNow)) \in Nat
  BY SharesFinite, CheckQueueAssumption DEF LocalInv
<1> DEFINE ci == Cardinality(Idle \ {t})
           cn == Cardinality(All3 \cup {t})
           cs == Cardinality(SharesOf(Busy \ {t}, nNow))
<1> SUFFICES IdleNow(t) = ci /\ TotalNow(t) = cn /\ TodoNow(t) = Len(queue) + cs
  BY Zenon
<1>3. nIdle \in Nat /\ nTotal \in Nat /\ cs \in Nat
  BY <1>1, <1>2 DEF CountInv
<1>4. CASE pc[t] = "enter"
  <2>1. t \notin All3 /\ t \notin Busy /\ t \notin Idle
    BY <1>4 DEF Busy, Idle, Inside
  <2>2. Idle \ {t} = Idle /\ Busy \ {t} = Busy
    BY <2>1
  <2>3. ci = nIdle
    BY <2>2, Zenon DEF CountInv
  <2>4. cs = Cardinality(Shares)
    BY <2>2, Zenon DEF Shares
  <2>5. cn = nTotal + 1
    BY <1>1, <2>1, FS_AddElement DEF CountInv
  <2> HIDE DEF ci, cn, cs
  <2> QED BY <1>3, <1>2, <1>4, <2>3, <2>4, <2>5 DEF CountInv, IdleNow, TotalNow, TodoNow
<1>5. CASE pc[t] = "woken"
  <2>1. t \notin Busy /\ t \in Idle
    BY <1>5 DEF Busy, Idle
  <2>2. All3 \cup {t} = All3 /\ Busy \ {t} = Busy
    BY <2>1
  <2>3. ci = nIdle - 1 /\ ci \in Nat
    BY <1>1, <2>1, FS_RemoveElement, FS_CardinalityType DEF CountInv
  <2>4. cs = Cardinality(Shares)
    BY <2>2, Zenon DEF Shares
  <2>5. cn = nTotal
    BY <2>2, Zenon DEF CountInv
  <2> HIDE DEF ci, cn, cs
  <2> QED BY <1>3, <1>2, <1>5, <2>3, <2>4, <2>5 DEF CountInv, IdleNow, TotalNow, TodoNow
<1>6. CASE pc[t] = "done"
  <2>1. t \in Busy /\ t \notin Idle
    BY <1>6 DEF Busy, Idle
  <2>2. All3 \cup {t} = All3 /\ Idle \ {t} = Idle /\ (Busy \ {t}) \cup {t} = Busy
    BY <2>1
  <2>3. ci = nIdle
    BY <2>2, Zenon DEF CountInv
  <2>4. cn = nTotal
    BY <2>2, Zenon DEF CountInv
  <2>5. Cardinality(Shares) = cs + nNow[t]
    <3>1. Cardinality(SharesOf((Busy \ {t}) \cup {t}, nNow)) = cs + nNow[t]
      <4>1. t \in Thread \ (Busy \ {t}) /\ nNow \in [Thread -> 0 .. nBatchSize]
        BY DEF LocalInv
      <4> QED BY <1>1, <4>1, SharesAdd
    <3> QED BY <2>2, <3>1, Zenon DEF Shares
  <2> HIDE DEF ci, cn, cs
  <2> QED BY <1>3, <1>2, <1>6, <2>3, <2>4, <2>5 DEF CountInv, IdleNow, TotalNow, TodoNow
<1> QED BY <1>4, <1>5, <1>6 DEF InLoop

(* The counters are numbers.                                               *)
LEMMA CountNat ==
    ASSUME CountInv
    PROVE  nTotal \in Nat /\ nIdle \in Nat
  BY ThreadFinite DEF CountInv, Busy, Idle, Inside

LEMMA ShareSizeLemma ==
    ASSUME LocalInv, CountInv, queue # << >>
    PROVE  ShareSize \in 1 .. nBatchSize /\ ShareSize \in 1 .. Len(queue)
<1> DEFINE x == Len(queue) \div (nTotal + nIdle + 1)
<1>1. Len(queue) \in Nat \ {0} /\ nBatchSize \in Nat \ {0}
  BY CheckQueueAssumption DEF LocalInv
<1>2. nTotal + nIdle + 1 \in Nat \ {0}
  BY CountNat
<1>3. x \in Nat /\ x <= Len(queue)
  BY <1>1, <1>2, DivLemma
<1> HIDE DEF x
<1>4. ShareSize = Max({1, Min({nBatchSize, x})})
  BY DEF ShareSize, x
<1> DEFINE y == Min({nBatchSize, x})
<1>5. y = IF nBatchSize <= x THEN nBatchSize ELSE x
  <2>1. nBatchSize \in Int /\ x \in Int
    BY <1>1, <1>3
  <2> QED BY <2>1, PairLemma, Zenon
<1> HIDE DEF y
<1>6. y \in Nat
  BY <1>1, <1>3, <1>5
<1>7. ShareSize = IF 1 >= y THEN 1 ELSE y
  <2>1. 1 \in Int /\ y \in Int
    BY <1>6
  <2>2. ShareSize = Max({1, y})
    BY <1>4 DEF y
  <2> QED BY <2>1, <2>2, PairLemma, Zenon
<1> QED BY <1>1, <1>3, <1>5, <1>7

(* Where the threads are after a step of thread t.                         *)
LEMMA InformLemma ==
    ASSUME LocalInv, NEW t \in Thread, NEW q, pc' = [InformMaster(t) EXCEPT ![t] = q]
    PROVE  /\ DOMAIN pc' = Thread /\ pc'[t] = q
           /\ \A u \in Thread \ {t} :
                 pc'[u] = pc[u] \/ (u = master /\ pc[u] = "wait" /\ pc'[u] = "woken")
  BY ThreadFinite DEF LocalInv, InformMaster

-----------------------------------------------------------------------------
(* The master's calls, and wake-ups.                                       *)

PCs == {"out", "enter", "inside", "wait", "woken", "work", "done"}

LEMMA WakeLemma ==
    ASSUME LocalInv, pc' \in [Thread -> PCs],
           \A u \in Thread : pc'[u] = pc[u] \/ (pc[u] = "wait" /\ pc'[u] = "woken")
    PROVE  Busy' = Busy /\ Idle' = Idle /\ Inside' = Inside /\ \A u \in Busy : pc'[u] = pc[u]
  BY DEF Busy, Idle, Inside

LEMMA AddStep ==
    ASSUME QueueInv, NEW b \in Batch, Add(b)
    PROVE  QueueInv'
<1> USE DEF QueueInv
<1>1. b \in Seq(BOOLEAN) /\ Len(b) \in Nat /\ Len(queue) \in Nat /\ queue \in Seq(BOOLEAN)
  BY CheckQueueAssumption DEF LocalInv
<1>2. PICK W \in SUBSET {w \in Worker : pc[w] = "wait"} :
          pc' = [t \in Thread |-> IF t \in W THEN "woken" ELSE pc[t]]
  <2> DEFINE waiting == {w \in Worker : pc[w] = "wait"}
  <2>1. Woken(Len(b)) \subseteq SUBSET waiting
    BY DEF Woken
  <2> QED BY <2>1 DEF Add
<1>3. pc' \in [Thread -> PCs]
  BY <1>2 DEF LocalInv, PCs
<1>4. \A u \in Thread : pc'[u] = pc[u] \/ (pc[u] = "wait" /\ pc'[u] = "woken")
  BY <1>2
<1>5. Busy' = Busy /\ Idle' = Idle /\ Inside' = Inside /\ \A u \in Busy : pc'[u] = pc[u]
  BY <1>3, <1>4, WakeLemma
<1>6. queue' = queue \o b /\ queue' \in Seq(BOOLEAN) /\ Len(queue') = Len(queue) + Len(b)
  BY <1>1 DEF Add
<1>7. added' \in 0 .. MaxAdd /\ added' # 0
  BY CheckQueueAssumption DEF Add, LocalInv
<1>8. UNCHANGED <<nIdle, nTotal, fAllOk, vChecks, nNow, fOk>>
  BY DEF Add, local
<1>9. LocalInv'
  <2>1. expected' \in BOOLEAN
    BY DEF Add
  <2> QED BY <1>3, <1>5, <1>6, <1>7, <1>8, <2>1 DEF LocalInv, PCs
<1>10. CountInv'
  <2>1. Shares' = Shares
    BY <1>5, <1>8 DEF Shares
  <2>2. Cardinality(Shares) \in Nat
    BY SharesFinite DEF Shares
  <2>3. nTodo' = Len(queue') + Cardinality(Shares')
    BY <1>1, <1>6, <2>1, <2>2 DEF Add, CountInv
  <2> QED BY <1>5, <1>8, <2>3 DEF CountInv
<1>11. ResultInv'
  <2>1. All(queue') <=> All(queue) /\ All(b)
    <3>1. \A i \in 1 .. Len(queue) : queue'[i] = queue[i]
      BY <1>1, <1>6
    <3>2. \A i \in 1 .. Len(b) : queue'[Len(queue) + i] = b[i] /\ Len(queue) + i \in 1 .. Len(queue')
      BY <1>1, <1>6
    <3>3. \A i \in 1 .. Len(queue') : i \in 1 .. Len(queue) \/ (i - Len(queue) \in 1 .. Len(b) /\ i = Len(queue) + (i - Len(queue)))
      BY <1>1, <1>6
    <3>4. \A i \in 1 .. Len(queue) : i \in 1 .. Len(queue')
      BY <1>1, <1>6
    <3>5. DOMAIN queue = 1 .. Len(queue) /\ DOMAIN queue' = 1 .. Len(queue') /\ DOMAIN b = 1 .. Len(b)
      BY <1>1, <1>6
    <3> QED BY SMTT(60), <3>1, <3>2, <3>3, <3>4, <3>5 DEF All
  <2>2. expected' = (expected /\ All(b))
    BY DEF Add
  <2> QED BY <1>5, <1>8, <2>1, <2>2 DEF ResultInv
<1>12. RoundInv'
  BY <1>7 DEF RoundInv
<1> QED BY <1>9, <1>10, <1>11, <1>12

LEMMA WaitStep ==
    ASSUME QueueInv, Wait
    PROVE  QueueInv'
<1> USE DEF QueueInv
<1>1. /\ pc' = [pc EXCEPT ![master] = "enter"] /\ nNow' = [nNow EXCEPT ![master] = 0]
      /\ pc[master] = "out" /\ master \in Thread
      /\ UNCHANGED <<queue, nIdle, nTotal, fAllOk, nTodo, vChecks, fOk, added, expected>>
  BY ThreadFinite DEF Wait
<1>2. /\ Busy' = Busy /\ Idle' = Idle /\ Inside' = Inside
      /\ master \notin Busy /\ \A u \in Busy : pc'[u] = pc[u]
  BY <1>1 DEF Busy, Idle, Inside, LocalInv
<1>3. nNow' \in [Thread -> 0 .. nBatchSize] /\ \A u \in Busy : nNow'[u] = nNow[u]
  BY <1>1, <1>2, CheckQueueAssumption DEF LocalInv, Busy
<1>4. Shares' = Shares
  BY <1>2, <1>3, SharesSame DEF Shares
<1>5. LocalInv'
  BY <1>1, <1>2, <1>3 DEF LocalInv
<1>6. CountInv' /\ ResultInv' /\ RoundInv'
  BY <1>1, <1>2, <1>4, <1>5 DEF CountInv, ResultInv, RoundInv, LocalInv
<1> QED BY <1>5, <1>6

LEMMA WakeStep ==
    ASSUME QueueInv, NEW t \in Thread, SpuriousWakeup(t)
    PROVE  QueueInv'
<1> USE DEF QueueInv
<1>1. /\ pc' = [pc EXCEPT ![t] = "woken"] /\ pc[t] = "wait"
      /\ UNCHANGED <<queue, nIdle, nTotal, fAllOk, nTodo, vChecks, nNow, fOk, added, expected>>
  BY DEF SpuriousWakeup, local
<1>2. pc' \in [Thread -> PCs] /\ \A u \in Thread : pc'[u] = pc[u] \/ (pc[u] = "wait" /\ pc'[u] = "woken")
  BY <1>1 DEF LocalInv, PCs
<1>3. Busy' = Busy /\ Idle' = Idle /\ Inside' = Inside /\ \A u \in Busy : pc'[u] = pc[u]
  BY <1>2, WakeLemma
<1>4. Shares' = Shares
  BY <1>1, <1>3 DEF Shares
<1>5. LocalInv'
  BY <1>1, <1>2, <1>3 DEF LocalInv, PCs
<1>6. CountInv' /\ ResultInv'
  BY <1>1, <1>3, <1>4 DEF CountInv, ResultInv
<1>7. RoundInv'
  BY <1>1, <1>2, ThreadFinite DEF RoundInv
<1> QED BY <1>5, <1>6, <1>7

-----------------------------------------------------------------------------
(* The worker's loop.                                                      *)

LEMMA WorkStep ==
    ASSUME QueueInv, NEW t \in Thread, Work(t)
    PROVE  QueueInv'
<1> USE DEF QueueInv
<1>1. /\ pc' = [pc EXCEPT ![t] = "done"] /\ pc[t] = "work"
      /\ fOk' = [fOk EXCEPT ![t] = fOk[t] /\ All(vChecks[t])]
      /\ vChecks' = [vChecks EXCEPT ![t] = << >>]
      /\ UNCHANGED <<queue, nIdle, nTotal, fAllOk, nTodo, nNow, added, expected>>
  BY DEF Work
<1>2. Busy' = Busy /\ Idle' = Idle /\ Inside' = Inside /\ t \in Busy
  BY <1>1 DEF Busy, Idle, Inside, LocalInv
<1>3. Shares' = Shares
  BY <1>1, <1>2 DEF Shares
<1>4. fOk' \in [Thread -> BOOLEAN] /\ fOk'[t] = (fOk[t] /\ All(vChecks[t]))
      /\ \A u \in Thread \ {t} : fOk'[u] = fOk[u]
  BY <1>1, Zenon DEF LocalInv
<1>5. LocalInv'
  <2>1. << >> \in Seq(BOOLEAN)
    OBVIOUS
  <2>2. vChecks' \in [Thread -> Seq(BOOLEAN)]
    BY <1>1, <2>1 DEF LocalInv
  <2>3. pc' \in [Thread -> {"out", "enter", "inside", "wait", "woken", "work", "done"}]
    BY <1>1 DEF LocalInv
  <2> QED BY <1>1, <1>2, <1>4, <2>2, <2>3 DEF LocalInv
<1>6. CountInv'
  BY <1>1, <1>2, <1>3 DEF CountInv
<1>7. ResultInv'
  <2>1. /\ pc'[t] = "done"
        /\ \A u \in Busy \ {t} : pc'[u] = pc[u] /\ fOk'[u] = fOk[u] /\ vChecks'[u] = vChecks[u]
    BY <1>1, <1>4 DEF LocalInv, Busy
  <2>2. (\A u \in Busy : fOk'[u] /\ (pc'[u] = "work" => All(vChecks'[u])))
        <=> (\A u \in Busy : fOk[u] /\ (pc[u] = "work" => All(vChecks[u])))
    BY <1>1, <1>2, <1>4, <2>1
  <2> QED BY <1>1, <1>2, <2>2 DEF ResultInv
<1>8. RoundInv'
  <2>1. pc'[master] = "out" => pc[master] = "out"
    BY <1>1, ThreadFinite DEF LocalInv
  <2> QED BY <1>1, <2>1 DEF RoundInv
<1> QED BY <1>5, <1>6, <1>7, <1>8

(* The result so far, with the share of t put in.                          *)
LEMMA OkLemma ==
    ASSUME LocalInv, ResultInv, NEW t \in Thread, InLoop(t)
    PROVE  /\ OkNow(t) \in BOOLEAN
           /\ expected <=>
                 /\ OkNow(t) /\ All(queue)
                 /\ \A u \in Busy \ {t} : fOk[u] /\ (pc[u] = "work" => All(vChecks[u]))
<1>1. CASE pc[t] = "done"
  <2>1. t \in Busy /\ OkNow(t) = (fAllOk /\ fOk[t]) /\ pc[t] # "work"
    BY <1>1 DEF Busy, OkNow
  <2> QED BY <2>1 DEF ResultInv
<1>2. CASE pc[t] \in {"enter", "woken"}
  <2>1. t \notin Busy /\ OkNow(t) = fAllOk
    BY <1>2 DEF Busy, OkNow
  <2> QED BY <2>1 DEF ResultInv, LocalInv
<1> QED BY <1>1, <1>2 DEF InLoop

(* Nothing is added but by the master, so that a new round stays clean.    *)
LEMMA RoundLemma ==
    ASSUME QueueInv, NEW t \in Thread, InLoop(t), UNCHANGED <<added, expected>>,
           nTodo' = TodoNow(t), pc'[master] = "out" => pc[master] = "out"
    PROVE  RoundInv'
<1> SUFFICES ASSUME pc'[master] = "out", added' = 0 PROVE nTodo' = 0 /\ expected'
  BY DEF RoundInv
<1>1. nTodo = 0 /\ expected
  BY DEF QueueInv, RoundInv
<1>2. Busy = {}
  BY <1>1, NothingLeft DEF QueueInv
<1>3. nTodo' = 0
  BY <1>1, <1>2 DEF TodoNow, Busy
<1> QED BY <1>1, <1>3

LEMMA LoopLockStep ==
    ASSUME QueueInv, NEW t \in Thread, Loop_Lock(t)
    PROVE  QueueInv'
<1> USE DEF QueueInv
<1>1. /\ InLoop(t)
      /\ nTotal' = TotalNow(t) /\ nIdle' = IdleNow(t) /\ nTodo' = TodoNow(t)
      /\ fAllOk' = OkNow(t) /\ pc' = [InformMaster(t) EXCEPT ![t] = "inside"]
      /\ UNCHANGED <<queue, vChecks, nNow, fOk, added, expected>>
  BY DEF Loop_Lock, local
<1>2. /\ DOMAIN pc' = Thread /\ pc'[t] = "inside"
      /\ \A u \in Thread \ {t} :
            pc'[u] = pc[u] \/ (u = master /\ pc[u] = "wait" /\ pc'[u] = "woken")
  BY <1>1, InformLemma
<1>3. pc' \in [Thread -> {"out", "enter", "inside", "wait", "woken", "work", "done"}]
  BY <1>1, <1>2, ThreadFinite DEF LocalInv, InformMaster
<1>4. /\ Busy' = Busy \ {t} /\ Idle' = Idle \ {t} /\ Inside' = Inside \cup {t}
      /\ \A u \in Busy' : pc'[u] = pc[u]
  BY <1>2 DEF Busy, Idle, Inside
<1>5. Shares' = SharesOf(Busy \ {t}, nNow)
  BY <1>1, <1>4 DEF Shares
<1>6. LocalInv'
  <2>1. fAllOk' \in BOOLEAN
    BY <1>1, OkLemma
  <2> QED BY <1>1, <1>3, <1>4, <2>1 DEF LocalInv
<1>7. CountInv'
  <2>1. nTotal' = Cardinality(Busy' \cup Idle' \cup Inside')
    <3>1. Busy' \cup Idle' \cup Inside' = Busy \cup Idle \cup Inside \cup {t}
      BY <1>4
    <3> QED BY <1>1, <3>1, CleanUp, Zenon
  <2>2. nIdle' = Cardinality(Idle')
    BY <1>1, <1>4, CleanUp, Zenon
  <2>3. nTodo' = Len(queue') + Cardinality(Shares')
    BY <1>1, <1>5, CleanUp, Zenon
  <2> QED BY <2>1, <2>2, <2>3 DEF CountInv
<1>8. ResultInv'
  <2>1. expected <=> /\ OkNow(t) /\ All(queue)
                     /\ \A u \in Busy \ {t} : fOk[u] /\ (pc[u] = "work" => All(vChecks[u]))
    BY <1>1, OkLemma
  <2> QED BY <1>1, <1>4, <2>1 DEF ResultInv
<1>9. RoundInv'
  <2>1. pc'[master] = "out" => pc[master] = "out"
    BY <1>2, ThreadFinite
  <2> QED BY <1>1, <2>1, RoundLemma
<1> QED BY <1>6, <1>7, <1>8, <1>9

LEMMA LoopWaitStep ==
    ASSUME QueueInv, NEW t \in Thread, Loop_Wait(t)
    PROVE  QueueInv'
<1> USE DEF QueueInv
<1>1. /\ pc[t] = "inside" /\ nIdle' = nIdle + 1 /\ pc' = [pc EXCEPT ![t] = "wait"]
      /\ UNCHANGED <<queue, nTotal, nTodo, fAllOk, vChecks, nNow, fOk, added, expected>>
  BY DEF Loop_Wait, local
<1>2. /\ Busy' = Busy /\ Idle' = Idle \cup {t} /\ t \notin Idle
      /\ Busy' \cup Idle' \cup Inside' = Busy \cup Idle \cup Inside
      /\ \A u \in Busy : pc'[u] = pc[u]
  BY <1>1 DEF Busy, Idle, Inside, LocalInv
<1>3. Shares' = Shares
  BY <1>1, <1>2 DEF Shares
<1>4. LocalInv'
  BY <1>1, <1>2 DEF LocalInv
<1>5. CountInv'
  <2>1. IsFiniteSet(Idle)
    BY ThreadFinite DEF Idle
  <2>2. nIdle' = Cardinality(Idle')
    BY <1>1, <1>2, <2>1, FS_AddElement DEF CountInv
  <2>3. nTotal' = Cardinality(Busy' \cup Idle' \cup Inside')
    BY <1>1, <1>2, Zenon DEF CountInv
  <2>4. nTodo' = Len(queue') + Cardinality(Shares')
    BY <1>1, <1>3, Zenon DEF CountInv
  <2> QED BY <2>2, <2>3, <2>4 DEF CountInv
<1>6. ResultInv'
  BY <1>1, <1>2 DEF ResultInv
<1>7. RoundInv'
  BY <1>1, ThreadFinite DEF RoundInv, LocalInv
<1> QED BY <1>4, <1>5, <1>6, <1>7

(* Cutting a sequence in two.                                              *)
LEMMA CutLemma ==
    ASSUME NEW S, NEW q \in Seq(S), NEW k \in 0 .. Len(q)
    PROVE  /\ SubSeq(q, 1, k) \in Seq(S) /\ Len(SubSeq(q, 1, k)) = k
           /\ \A i \in 1 .. k : SubSeq(q, 1, k)[i] = q[i]
           /\ SubSeq(q, k + 1, Len(q)) \in Seq(S)
           /\ Len(SubSeq(q, k + 1, Len(q))) = Len(q) - k
           /\ \A i \in 1 .. Len(q) - k : SubSeq(q, k + 1, Len(q))[i] = q[k + i]
<1>1. /\ Len(q) \in Nat /\ k \in Int /\ k + 1 \in Int /\ Len(q) \in Int /\ 1 \in Int
      /\ \A i \in 1 .. Len(q) : q[i] \in S
      /\ \A i \in 1 .. k : i \in 1 .. Len(q)
      /\ \A i \in k + 1 .. Len(q) : i \in 1 .. Len(q)
  OBVIOUS
<1>2. /\ SubSeq(q, 1, k) \in Seq(S) /\ Len(SubSeq(q, 1, k)) = IF 1 <= k THEN k - 1 + 1 ELSE 0
      /\ \A i \in 1 .. k - 1 + 1 : SubSeq(q, 1, k)[i] = q[1 + i - 1]
  BY <1>1, SubSeqProperties
<1>3. /\ SubSeq(q, k + 1, Len(q)) \in Seq(S)
      /\ Len(SubSeq(q, k + 1, Len(q))) = IF k + 1 <= Len(q) THEN Len(q) - (k + 1) + 1 ELSE 0
      /\ \A i \in 1 .. Len(q) - (k + 1) + 1 : SubSeq(q, k + 1, Len(q))[i] = q[k + 1 + i - 1]
  BY <1>1, SubSeqProperties
<1>4. /\ Len(SubSeq(q, 1, k)) = k /\ k - 1 + 1 = k
      /\ Len(SubSeq(q, k + 1, Len(q))) = Len(q) - k /\ Len(q) - (k + 1) + 1 = Len(q) - k
  BY <1>1, <1>2, <1>3
<1> DEFINE a == SubSeq(q, 1, k)
           b == SubSeq(q, k + 1, Len(q))
<1> HIDE DEF a, b
<1>5. ASSUME NEW i \in 1 .. k PROVE a[i] = q[i]
  <2>1. i \in 1 .. k - 1 + 1 /\ 1 + i - 1 = i
    BY <1>1
  <2>2. a[i] = q[1 + i - 1]
    BY <1>2, <2>1, Zenon DEF a
  <2> QED BY <2>1, <2>2
<1>6. ASSUME NEW i \in 1 .. Len(q) - k PROVE b[i] = q[k + i]
  <2>1. i \in 1 .. Len(q) - (k + 1) + 1 /\ k + 1 + i - 1 = k + i
    BY <1>1
  <2>2. b[i] = q[k + 1 + i - 1]
    BY <1>3, <2>1, Zenon DEF b
  <2> QED BY <2>1, <2>2
<1> QED BY <1>2, <1>3, <1>4, <1>5, <1>6, Zenon DEF a, b

LEMMA LoopTakeStep ==
    ASSUME QueueInv, NEW t \in Thread, Loop_Take(t)
    PROVE  QueueInv'
<1> USE DEF QueueInv
<1> DEFINE n == ShareSize
           left == Len(queue) - n
           share == SubSeq(queue, left + 1, Len(queue))
<1>1. /\ pc[t] = "inside" /\ queue # << >> /\ pc' = [pc EXCEPT ![t] = "work"]
      /\ queue' = SubSeq(queue, 1, left)
      /\ vChecks' = [vChecks EXCEPT ![t] = share]
      /\ nNow' = [nNow EXCEPT ![t] = n] /\ fOk' = [fOk EXCEPT ![t] = fAllOk]
      /\ UNCHANGED <<nTotal, nIdle, nTodo, fAllOk, added, expected>>
  BY DEF Loop_Take
<1>2. n \in 1 .. nBatchSize /\ n \in 1 .. Len(queue) /\ nBatchSize \in Nat /\ Len(queue) \in Nat
  BY <1>1, ShareSizeLemma, CheckQueueAssumption DEF LocalInv
<1> HIDE DEF n
<1>3. left \in Nat /\ left + n = Len(queue) /\ left <= Len(queue)
  BY <1>2
<1>4. /\ queue' \in Seq(BOOLEAN) /\ Len(queue') = left
      /\ \A i \in 1 .. left : queue'[i] = queue[i]
  <2>1. left \in 0 .. Len(queue) /\ queue \in Seq(BOOLEAN)
    BY <1>2, <1>3 DEF LocalInv
  <2> HIDE DEF left
  <2> QED BY <1>1, <2>1, CutLemma
<1>5. /\ share \in Seq(BOOLEAN) /\ Len(share) = n
      /\ \A i \in 1 .. n : share[i] = queue[left + i]
  <2>1. left \in 0 .. Len(queue) /\ Len(queue) - left = n /\ queue \in Seq(BOOLEAN)
    BY <1>2, <1>3 DEF LocalInv
  <2> HIDE DEF left
  <2> QED BY <2>1, CutLemma DEF share
<1>6. All(queue) <=> All(queue') /\ All(share)
  <2>1. DOMAIN queue = 1 .. Len(queue) /\ DOMAIN queue' = 1 .. left /\ DOMAIN share = 1 .. n
    BY <1>4, <1>5 DEF LocalInv
  <2> HIDE DEF share, left
  <2>2. \A i \in 1 .. Len(queue) :
            i \in 1 .. left \/ (i - left \in 1 .. n /\ i = left + (i - left))
    BY <1>2, <1>3
  <2>3. /\ \A i \in 1 .. left : i \in 1 .. Len(queue)
        /\ \A i \in 1 .. n : left + i \in 1 .. Len(queue)
    BY <1>2, <1>3
  <2> QED BY <1>4, <1>5, <2>1, <2>2, <2>3 DEF All
<1> HIDE DEF share, left
<1>7. /\ pc' \in [Thread -> {"out", "enter", "inside", "wait", "woken", "work", "done"}]
      /\ pc'[t] = "work" /\ \A u \in Thread \ {t} : pc'[u] = pc[u]
  BY <1>1 DEF LocalInv
<1>8. t \notin Busy /\ t \in Inside
  BY <1>1 DEF Busy, Inside
<1>9. /\ Busy' = Busy \cup {t} /\ Idle' = Idle
      /\ Busy' \cup Idle' \cup Inside' = Busy \cup Idle \cup Inside
      /\ \A u \in Busy : pc'[u] = pc[u] /\ u # t
  BY <1>1, <1>7 DEF Busy, Idle, Inside
<1>10. fAllOk \in BOOLEAN
  BY DEF LocalInv
<1>11. /\ fOk' \in [Thread -> BOOLEAN] /\ fOk'[t] = fAllOk
       /\ \A u \in Thread \ {t} : fOk'[u] = fOk[u]
  BY <1>1, <1>10, Zenon DEF LocalInv
<1>12. /\ nNow' \in [Thread -> 0 .. nBatchSize] /\ nNow'[t] = n
       /\ \A u \in Thread \ {t} : nNow'[u] = nNow[u]
  BY <1>1, <1>2 DEF LocalInv
<1>13. /\ vChecks' \in [Thread -> Seq(BOOLEAN)] /\ vChecks'[t] = share
       /\ \A u \in Thread \ {t} : vChecks'[u] = vChecks[u]
  BY <1>1, <1>5 DEF LocalInv
<1>14. Busy \subseteq Thread
  BY DEF Busy
<1>15. LocalInv'
  <2>1. \A u \in Busy' : nNow'[u] # 0
    BY <1>2, <1>9, <1>12, <1>14 DEF LocalInv
  <2> QED BY <1>1, <1>4, <1>7, <1>10, <1>11, <1>12, <1>13, <2>1 DEF LocalInv
<1>16. CountInv'
  <2>1. nTotal' = Cardinality(Busy' \cup Idle' \cup Inside')
    BY <1>1, <1>9, Zenon DEF CountInv
  <2>2. nIdle' = Cardinality(Idle')
    BY <1>1, <1>9, Zenon DEF CountInv
  <2>3. nTodo' = Len(queue') + Cardinality(Shares')
    <3> DEFINE c == Cardinality(Shares)
    <3>1. SharesOf(Busy, nNow') = SharesOf(Busy, nNow)
      BY <1>9, <1>12, <1>14, SharesSame
    <3>2. Cardinality(SharesOf(Busy \cup {t}, nNow')) = Cardinality(SharesOf(Busy, nNow')) + nNow'[t]
      BY <1>8, <1>12, <1>14, SharesAdd
    <3>3. Cardinality(Shares') = c + n
      BY <1>9, <1>12, <3>1, <3>2, Zenon DEF Shares
    <3>4. nTodo = Len(queue) + c /\ c \in Nat
      BY SharesFinite, Zenon DEF CountInv, Shares
    <3> HIDE DEF c
    <3> QED BY SMTT(60), <1>1, <1>2, <1>3, <1>4, <3>3, <3>4
  <2> QED BY <2>1, <2>2, <2>3 DEF CountInv
<1>17. ResultInv'
  <2>1. (\A u \in Busy' : fOk'[u] /\ (pc'[u] = "work" => All(vChecks'[u])))
        <=> /\ fAllOk /\ All(share)
            /\ \A u \in Busy : fOk[u] /\ (pc[u] = "work" => All(vChecks[u]))
    BY <1>7, <1>9, <1>11, <1>13, <1>14
  <2> QED BY <1>1, <1>6, <2>1 DEF ResultInv
<1>18. RoundInv'
  <2>1. pc'[master] = "out" => pc[master] = "out"
    BY <1>7, ThreadFinite
  <2> QED BY <1>1, <2>1 DEF RoundInv
<1> QED BY <1>15, <1>16, <1>17, <1>18

(* The master leaves when every share has been reported.                   *)
LEMMA ReturnLemma ==
    ASSUME QueueInv, Loop_Return
    PROVE  Busy = {} /\ queue = << >> /\ (fAllOk <=> expected)
<1> USE DEF QueueInv
<1>1. queue = << >> /\ nTodo = 0
  BY DEF Loop_Return
<1>2. Busy = {}
  BY <1>1, NothingLeft
<1>3. All(queue)
  BY <1>1 DEF All
<1> QED BY <1>1, <1>2, <1>3 DEF ResultInv

LEMMA LoopReturnStep ==
    ASSUME QueueInv, Loop_Return
    PROVE  QueueInv'
<1> USE DEF QueueInv
<1>1. /\ pc[master] = "inside" /\ queue = << >> /\ nTodo = 0 /\ master \in Thread
      /\ nTotal' = nTotal - 1 /\ fAllOk' = TRUE /\ pc' = [pc EXCEPT ![master] = "out"]
      /\ added' = 0 /\ expected' = TRUE
      /\ UNCHANGED <<queue, nIdle, nTodo, vChecks, nNow, fOk>>
  BY ThreadFinite DEF Loop_Return, local
<1> DEFINE All3 == Busy \cup Idle \cup Inside
<1>2. /\ Busy = {} /\ Busy' = {} /\ Idle' = Idle
      /\ master \in All3 /\ Busy' \cup Idle' \cup Inside' = All3 \ {master}
  BY <1>1, ReturnLemma DEF Busy, Idle, Inside, LocalInv
<1>3. LocalInv'
  BY <1>1, <1>2, CheckQueueAssumption DEF LocalInv
<1>4. CountInv'
  <2>1. nIdle' = Cardinality(Idle')
    BY <1>1, <1>2, Zenon DEF CountInv
  <2>2. nTotal' = Cardinality(Busy' \cup Idle' \cup Inside')
    <3>1. IsFiniteSet(All3)
      BY ThreadFinite DEF Busy, Idle, Inside
    <3>2. Cardinality(All3 \ {master}) = Cardinality(All3) - 1
      BY <1>2, <3>1, FS_RemoveElement
    <3>3. nTotal' = Cardinality(All3) - 1
      BY <1>1, Zenon DEF CountInv
    <3> QED BY <1>2, <3>2, <3>3, Zenon
  <2>3. nTodo' = Len(queue') + Cardinality(Shares')
    <3>1. Shares' = {}
      BY <1>2 DEF Shares, SharesOf
    <3>2. Cardinality(Shares') = 0
      BY <3>1, FS_EmptySet
    <3> QED BY <1>1, <3>2
  <2> QED BY <2>1, <2>2, <2>3 DEF CountInv
<1>5. ResultInv'
  BY <1>1, <1>2 DEF ResultInv, All
<1>6. RoundInv'
  BY <1>1 DEF RoundInv
<1> QED BY <1>3, <1>4, <1>5, <1>6

-----------------------------------------------------------------------------
LEMMA QueueInit == Init => QueueInv
<1> SUFFICES ASSUME Init PROVE QueueInv
  OBVIOUS
<1>1. /\ queue = << >> /\ Busy = {} /\ Idle = {} /\ Inside = {} /\ nIdle = 0 /\ nTotal = 0 /\ nTodo = 0
      /\ fAllOk = TRUE /\ expected = TRUE /\ added = 0
  BY DEF Init, Busy, Idle, Inside
<1>2. LocalInv
  <2>1. << >> \in Seq(BOOLEAN)
    OBVIOUS
  <2> QED BY <1>1, <2>1, CheckQueueAssumption DEF Init, LocalInv
<1>3. CountInv
  <2>1. Cardinality(Busy \cup Idle \cup Inside) = 0 /\ Cardinality(Idle) = 0
    BY <1>1, FS_EmptySet
  <2>2. Shares = {}
    BY <1>1 DEF Shares, SharesOf
  <2>3. Cardinality(Shares) = 0
    BY <2>2, FS_EmptySet
  <2> QED BY <1>1, <2>1, <2>3 DEF CountInv
<1>4. ResultInv /\ RoundInv
  BY <1>1 DEF ResultInv, RoundInv, All
<1> QED BY <1>2, <1>3, <1>4 DEF QueueInv

LEMMA QueueNext == QueueInv /\ [Next]_vars => QueueInv'
<1> SUFFICES ASSUME QueueInv, [Next]_vars PROVE QueueInv'
  OBVIOUS
<1>1. CASE UNCHANGED vars
  <2>1. UNCHANGED <<queue, nIdle, nTotal, fAllOk, nTodo, pc, vChecks, nNow, fOk, added, expected>>
    BY <1>1 DEF vars, local
  <2>2. UNCHANGED <<Busy, Idle, Inside>>
    BY <2>1 DEF Busy, Idle, Inside
  <2>3. UNCHANGED Shares
    BY <2>1, <2>2 DEF Shares
  <2> QED BY <2>1, <2>2, <2>3 DEF QueueInv, LocalInv, CountInv, ResultInv, RoundInv
<1> QED BY <1>1, AddStep, WaitStep, WakeStep, WorkStep, LoopLockStep, LoopWaitStep, LoopTakeStep, LoopReturnStep
           DEF Next, Step

(* The invariant the theorems below rest on: the three counters of         *)
(* CCheckQueue count what they say, and no result gets lost on its way     *)
(* from a share to fAllOk.                                                 *)
THEOREM QueueInvCorrect == Spec => []QueueInv
<1> QED BY QueueInit, QueueNext, PTL DEF Spec

(* The variables of CCheckQueue and of its threads keep their types: no    *)
(* counter falls below zero or goes above the number of threads, and no    *)
(* share is larger than nBatchSize.                                        *)
THEOREM CheckQueueTypeCorrect == Spec => []TypeOK
<1>1. QueueInv => TypeOK
  <2> SUFFICES ASSUME QueueInv PROVE TypeOK
    OBVIOUS
  <2>1. Idle \subseteq Thread /\ Busy \cup Idle \cup Inside \subseteq Thread
    BY DEF Busy, Idle, Inside
  <2>2. nIdle \in 0 .. Cardinality(Thread) /\ nTotal \in 0 .. Cardinality(Thread)
    BY <2>1, ThreadFinite DEF QueueInv, CountInv
  <2>3. nTodo \in Nat
    BY NothingLeft DEF QueueInv
  <2> QED BY <2>2, <2>3 DEF QueueInv, LocalInv, TypeOK
<1> QED BY <1>1, QueueInvCorrect, PTL

(* A queue on which Wait has returned, and to which nothing was added      *)
(* since, is unused: nothing is queued or being worked on, no failure is   *)
(* left over, and nTotal and nIdle differ only by a worker that has the    *)
(* mutex.                                                                  *)
THEOREM RoundStartsCleanCorrect == Spec => []RoundStartsClean
<1>1. QueueInv => RoundStartsClean
  <2> SUFFICES ASSUME QueueInv, pc[master] = "out", added = 0
               PROVE  /\ nTodo = 0 /\ fAllOk /\ queue = << >>
                      /\ \A t \in Worker : pc[t] \notin {"work", "done"}
                      /\ MutexFree => nTotal = nIdle
    BY DEF RoundStartsClean
  <2>1. nTodo = 0 /\ expected
    BY DEF QueueInv, RoundInv
  <2>2. queue = << >> /\ Busy = {}
    BY <2>1, NothingLeft DEF QueueInv
  <2>3. ASSUME MutexFree PROVE nTotal = nIdle
    <3>1. Busy \cup Idle \cup Inside = Idle
      BY <2>2, <2>3 DEF MutexFree, Inside
    <3> QED BY <3>1, Zenon DEF QueueInv, CountInv
  <2>4. \A t \in Worker : pc[t] \notin {"work", "done"}
    BY <2>2 DEF Busy, Thread
  <2> QED BY <2>1, <2>2, <2>3, <2>4 DEF QueueInv, ResultInv
<1> QED BY <1>1, QueueInvCorrect, PTL

(* CCheckQueue::Wait returns the conjunction of exactly the checks that    *)
(* were added for it, however many workers share them and in whatever      *)
(* order they report.                                                      *)
THEOREM WaitReturnsConjunctionCorrect == Spec => WaitReturnsConjunction
<1>1. QueueInv /\ [Next]_vars => [Loop_Return => fRet = expected]_vars
  <2> SUFFICES ASSUME QueueInv, Loop_Return PROVE fRet = expected
    OBVIOUS
  <2>1. fAllOk <=> expected
    BY ReturnLemma
  <2>2. fAllOk \in BOOLEAN /\ expected \in BOOLEAN
    BY DEF QueueInv, LocalInv
  <2> QED BY <2>1, <2>2 DEF fRet
<1> QED BY <1>1, QueueInvCorrect, PTL DEF Spec, WaitReturnsConjunction
=============================================================================
