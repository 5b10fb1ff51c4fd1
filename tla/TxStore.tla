------------------------------ MODULE TxStore ------------------------------
(***************************************************************************)
(* What CTxDB promises its callers: "once a database transaction begins    *)
(* reads are consistent with it" (txdb-leveldb.cpp).  A handle either      *)
(* works on the store directly or has a transaction: a set of pending      *)
(* changes that only it sees, applied all at once by the commit or not at  *)
(* all.  A lost handle, or the whole process, loses what is pending.       *)
(***************************************************************************)
CONSTANTS Handle, Key, Value, Absent

VARIABLES store,    \* the committed value of every key, or Absent
          pending,  \* the changes of every handle's transaction: key to value
          open,     \* the handles that have a transaction
          ret       \* the last call and what it returned

vars == <<store, pending, open, ret>>

NoChange == [k \in {} |-> Absent]

(* A key as h reads it.                                                    *)
Seen(h, k) == IF k \in DOMAIN pending[h] THEN pending[h][k] ELSE store[k]

Changed(f, k, v) == [x \in DOMAIN f \cup {k} |-> IF x = k THEN v ELSE f[x]]

Init ==
    /\ store = [k \in Key |-> Absent]
    /\ pending = [h \in Handle |-> NoChange]
    /\ open = {}
    /\ ret = << >>

(* A write of v, or an erase when v is Absent.  Outside a transaction it   *)
(* may fail.                                                               *)
Update(h, k, v) ==
    \/ /\ h \in open
       /\ pending' = [pending EXCEPT ![h] = Changed(@, k, v)]
       /\ ret' = <<"update", h, k, v, TRUE>>
       /\ UNCHANGED <<store, open>>
    \/ /\ h \notin open
       /\ store' = [store EXCEPT ![k] = v]
       /\ ret' = <<"update", h, k, v, TRUE>>
       /\ UNCHANGED <<pending, open>>
    \/ /\ h \notin open
       /\ ret' = <<"update", h, k, v, FALSE>>
       /\ UNCHANGED <<store, pending, open>>

Read(h, k) ==
    /\ ret' = <<"read", h, k, Seen(h, k)>>
    /\ UNCHANGED <<store, pending, open>>

(* The answer is right outside a transaction; in one, a key that was       *)
(* erased by it may still be reported.                                     *)
Exists(h, k) ==
    /\ \E r \in BOOLEAN :
          /\ Seen(h, k) # Absent => r = TRUE
          /\ h \notin open => r = (store[k] # Absent)
          /\ ret' = <<"exists", h, k, r>>
    /\ UNCHANGED <<store, pending, open>>

Begin(h) ==
    /\ h \notin open
    /\ open' = open \cup {h}
    /\ ret' = <<"begin", h>>
    /\ UNCHANGED <<store, pending>>

(* The transaction ends; it takes effect as a whole or not at all.         *)
End(h) ==
    /\ \/ /\ store' = [k \in Key |-> Seen(h, k)]
          /\ ret' = <<"commit", h, TRUE>>
       \/ store' = store /\ ret' \in {<<"commit", h, FALSE>>, <<"abort", h>>}
    /\ pending' = [pending EXCEPT ![h] = NoChange]
    /\ open' = open \ {h}

Crash ==
    /\ pending' = [h \in Handle |-> NoChange]
    /\ open' = {}
    /\ ret' = << >>
    /\ UNCHANGED store

Next ==
    \/ \E h \in Handle : Begin(h) \/ End(h)
    \/ \E h \in Handle, k \in Key : Read(h, k) \/ Exists(h, k)
    \/ \E h \in Handle, k \in Key, v \in Value \cup {Absent} : Update(h, k, v)
    \/ Crash

Spec == Init /\ [][Next]_vars
=============================================================================
