-------------------------------- MODULE TxDB --------------------------------
(***************************************************************************)
(* CTxDB of txdb-leveldb.h and txdb-leveldb.cpp: a wrapper around the one  *)
(* LevelDB of the process.  A transaction is a WriteBatch, the sequence of *)
(* Puts and Deletes made so far; a read looks a key up in it by iterating  *)
(* over all of it.  LevelDB applies a batch atomically (external).         *)
(***************************************************************************)
EXTENDS Integers, Sequences

CONSTANTS
    Handle,     \* the CTxDB objects that may be alive at the same time
    Key, Value,
    Absent,     \* what is returned for a key that is not there
    MaxBatch    \* bound: entries of a batch

ASSUME ConstantAssumption ==
    Absent \notin Value /\ MaxBatch \in Nat

VARIABLES
    pdb,          \* the LevelDB: the value of every key, or Absent
    activeBatch,  \* of every handle: NULL or the batch
    ret           \* the last call and what it returned

vars == <<pdb, activeBatch, ret>>

(* An empty batch is not the NULL pointer.                                 *)
NULL == [null |-> TRUE, entries |-> << >>]
Batch(s) == [null |-> FALSE, entries |-> s]
InTxn(h) == ~ activeBatch[h].null

Put(k, v) == [key |-> k, deleted |-> FALSE, value |-> v]
Delete(k) == [key |-> k, deleted |-> TRUE, value |-> Absent]
Entry == [key : Key, deleted : {FALSE}, value : Value]
             \cup [key : Key, deleted : {TRUE}, value : {Absent}]

-----------------------------------------------------------------------------
(* CBatchScanner: every entry for the key overwrites what was found before *)
(* it, so that the last one counts.                                        *)

Positions(s, k) == {i \in DOMAIN s : s[i].key = k}

(* Mutant: the scan stops at the first entry.                              *)
Found_First(s, k) ==
    s[CHOOSE i \in Positions(s, k) : \A j \in Positions(s, k) : i <= j]

Found(s, k) ==
    s[CHOOSE i \in Positions(s, k) : \A j \in Positions(s, k) : j <= i]

(* foundEntry, *deleted and *foundValue.                                   *)
ScanBatch(s, k) == Positions(s, k) # {}

(* LevelDB's Write of a batch.                                             *)
Applied(db, s) ==
    [k \in Key |-> IF ScanBatch(s, k) THEN Found(s, k).value ELSE db[k]]

ReadValue(h, k) ==
    IF InTxn(h) /\ ScanBatch(activeBatch[h].entries, k)
    THEN LET e == Found(activeBatch[h].entries, k)
         IN  IF e.deleted THEN Absent ELSE e.value
    ELSE pdb[k]

(* A key deleted in the batch falls through to the database.               *)
ExistsValue(h, k) ==
    \/ /\ InTxn(h)
       /\ ScanBatch(activeBatch[h].entries, k)
       /\ ~ Found(activeBatch[h].entries, k).deleted
    \/ pdb[k] # Absent

-----------------------------------------------------------------------------
Init ==
    /\ pdb = [k \in Key |-> Absent]
    /\ activeBatch = [h \in Handle |-> NULL]
    /\ ret = << >>

Read(h, k) ==
    /\ ret' = <<"read", h, k, ReadValue(h, k)>>
    /\ UNCHANGED <<pdb, activeBatch>>

Exists(h, k) ==
    /\ ret' = <<"exists", h, k, ExistsValue(h, k)>>
    /\ UNCHANGED <<pdb, activeBatch>>

(* Write and Erase: into the batch, or straight into the database, which   *)
(* may refuse.                                                             *)
Change(h, e) ==
    \/ /\ InTxn(h) /\ Len(activeBatch[h].entries) < MaxBatch
       /\ activeBatch' = [activeBatch EXCEPT
                             ![h] = Batch(Append(activeBatch[h].entries, e))]
       /\ ret' = <<"update", h, e.key, e.value, TRUE>>
       /\ UNCHANGED pdb
    \/ /\ ~ InTxn(h)
       /\ pdb' = [pdb EXCEPT ![e.key] = e.value]
       /\ ret' = <<"update", h, e.key, e.value, TRUE>>
       /\ UNCHANGED activeBatch
    \/ /\ ~ InTxn(h)
       /\ ret' = <<"update", h, e.key, e.value, FALSE>>
       /\ UNCHANGED <<pdb, activeBatch>>

Write(h, k, v) == Change(h, Put(k, v))
Erase(h, k) == Change(h, Delete(k))

TxnBegin(h) ==
    /\ ~ InTxn(h)
    /\ activeBatch' = [activeBatch EXCEPT ![h] = Batch(<< >>)]
    /\ ret' = <<"begin", h>>
    /\ UNCHANGED pdb

(* The batch is deleted whether or not the database took it.               *)
TxnCommit(h) ==
    /\ InTxn(h)
    /\ \/ /\ pdb' = Applied(pdb, activeBatch[h].entries)
          /\ ret' = <<"commit", h, TRUE>>
       \/ /\ UNCHANGED pdb
          /\ ret' = <<"commit", h, FALSE>>
    /\ activeBatch' = [activeBatch EXCEPT ![h] = NULL]

(* Mutant: the pointer is cleared, the batch lives on.                     *)
TxnAbort_KeepsEntries(h) ==
    /\ activeBatch' = [activeBatch EXCEPT ![h].null = TRUE]
    /\ ret' = <<"abort", h>>
    /\ UNCHANGED pdb

(* Also what the destructor of a CTxDB does.                               *)
TxnAbort(h) ==
    /\ activeBatch' = [activeBatch EXCEPT ![h] = NULL]
    /\ ret' = <<"abort", h>>
    /\ UNCHANGED pdb

(* The process dies; the database keeps what was written to it.            *)
Crash ==
    /\ activeBatch' = [h \in Handle |-> NULL]
    /\ ret' = << >>
    /\ UNCHANGED pdb

Next ==
    \/ \E h \in Handle : TxnBegin(h) \/ TxnCommit(h) \/ TxnAbort(h)
    \/ \E h \in Handle, k \in Key : Read(h, k) \/ Exists(h, k) \/ Erase(h, k)
    \/ \E h \in Handle, k \in Key, v \in Value : Write(h, k, v)
    \/ Crash

Spec == Init /\ [][Next]_vars
-----------------------------------------------------------------------------
(* Properties.                                                             *)

(***************************************************************************)
(* Type invariant: a batch holds Puts and Deletes only, and the database   *)
(* never holds the marker of a Delete as a value.                          *)
(***************************************************************************)
TypeOK ==
    /\ pdb \in [Key -> Value \cup {Absent}]
    /\ activeBatch \in [Handle -> [null : BOOLEAN, entries : Seq(Entry)]]
    /\ \A h \in Handle : activeBatch[h].null => activeBatch[h] = NULL

(* The changes a batch stands for.                                         *)
Changes(s) == [k \in {x \in Key : ScanBatch(s, x)} |-> Found(s, k).value]

Store == INSTANCE TxStore WITH
    store <- pdb,
    pending <- [h \in Handle |-> Changes(activeBatch[h].entries)],
    open <- {h \in Handle : InTxn(h)}

(***************************************************************************)
(* CTxDB implements the transactional store: what a handle reads in its    *)
(* transaction is what it wrote there, no other handle sees it, and the    *)
(* commit applies all of it or nothing, whatever was overwritten or        *)
(* deleted again inside the batch.                                         *)
(***************************************************************************)
ImplementsTxStore == Store!Spec

(***************************************************************************)
(* The claim of ScanBatch's comment, "the rest of the code assumes that    *)
(* once a database transaction begins reads are consistent with it", for   *)
(* Exists: it finds a key exactly when Read does.                          *)
(***************************************************************************)
ExistsMatchesRead ==
    (ret # << >> /\ ret[1] = "exists") =>
        (ret[4] <=> ReadValue(ret[2], ret[3]) # Absent)
=============================================================================
