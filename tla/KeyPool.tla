------------------------------ MODULE KeyPool ------------------------------
(***************************************************************************)
(* The key pool of the wallet and the key store below it.  setKeyPool is   *)
(* the set of free indices in memory, the database has one record per      *)
(* index.  A CReserveKey takes an index out of the set and later keeps the *)
(* key (the record is erased) or returns the index.  Topping up, reserving *)
(* and encrypting hold cs_wallet over many writes; KeepKey and the thread  *)
(* that locks the wallet when its passphrase times out do not take it.     *)
(***************************************************************************)
EXTENDS Integers, FiniteSets, Sequences, FiniteSetsExt, Functions

CONSTANTS
    Holder,     \* the CReserveKey objects
    nKeypool,   \* -keypool
    MaxKey,     \* bound: keys ever generated
    MaxCrash,   \* bound: restarts
    fEncrypt    \* whether the user calls encryptwallet

(* The bound leaves room for the keys of the first start.                  *)
ASSUME KeyPoolAssumption ==
    nKeypool \in Nat /\ MaxKey \in Nat /\ MaxCrash \in Nat /\ nKeypool <= MaxKey

VARIABLES
    setKeyPool,
    pool,           \* the database's pool records: index -> key
    keys,           \* the keys of the store in memory
    diskKey,        \* the database's key records in the clear
    diskCKey,       \* and encrypted
    store,          \* "plain", "locked" or "unlocked": fUseCrypto, vMasterKey
    reserved,       \* CReserveKey: nIndex (-1 for none) and vchPubKey
    job,            \* what the thread that holds cs_wallet is doing
    out,            \* history: the keys given away for good, in order
    overwritten,    \* history: a reserved index was written again
    oldKeys,        \* history: the keys from before the pool was renewed
    crashes

memory == <<setKeyPool, keys, store, reserved, job>>
disk == <<pool, diskKey, diskCKey>>
vars == <<memory, disk, out, overwritten, oldKeys, crashes>>

NoJob == [kind |-> "none"]
vchDefaultKey == 0
Free == [nIndex |-> -1, key |-> vchDefaultKey]
Generated == diskKey \cup diskCKey \cup keys

IsCrypted == store # "plain"
IsLocked == store = "locked"
ReservedIndices == {reserved[h].nIndex : h \in Holder} \ {-1}

-----------------------------------------------------------------------------
(* The key store.                                                          *)

(* Mutant: the key of a crypted wallet is not written.                     *)
AddKey_MemoryOnly(k) ==
    /\ ~ IsLocked
    /\ keys' = keys \cup {k}
    /\ IF IsCrypted THEN UNCHANGED diskCKey /\ UNCHANGED diskKey
                    ELSE diskKey' = diskKey \cup {k} /\ UNCHANGED diskCKey

AddKey(k) ==
    /\ ~ IsLocked
    /\ keys' = keys \cup {k}
    /\ IF IsCrypted THEN diskCKey' = diskCKey \cup {k} /\ UNCHANGED diskKey
                    ELSE diskKey' = diskKey \cup {k} /\ UNCHANGED diskCKey

(* A new key is the next natural number.                                   *)
GenerateNewKey ==
    /\ Cardinality(Generated) < MaxKey
    /\ AddKey(Max(Generated) + 1)

(* walletlock, and ThreadCleanWalletPassphrase: cs_wallet is not taken.    *)
Lock ==
    /\ store = "unlocked"
    /\ store' = "locked"
    /\ UNCHANGED <<setKeyPool, keys, reserved, job, disk, out, overwritten, oldKeys, crashes>>

(* walletpassphrase; it starts ThreadTopUpKeyPool.                         *)
Unlock ==
    /\ store = "locked" /\ job = NoJob
    /\ store' = "unlocked"
    /\ UNCHANGED <<setKeyPool, keys, reserved, job, disk, out, overwritten, oldKeys, crashes>>

-----------------------------------------------------------------------------
(* Topping up.  A job that tops up goes on to take a key, unless it is     *)
(* only a refill.                                                          *)

Begin(j) ==
    /\ job = NoJob
    /\ job' = j
    /\ UNCHANGED <<setKeyPool, keys, store, reserved, disk, out, overwritten, oldKeys, crashes>>

Refill ==
    /\ ~ IsLocked
    /\ Begin([kind |-> "refill", phase |-> "topup"])

(* ReserveKeyFromKeyPool tops up unless the wallet is locked.              *)
FirstPhase == IF IsLocked THEN "take" ELSE "topup"

GetReservedKey(h) ==
    /\ reserved[h].nIndex = -1
    /\ Begin([kind |-> "reserve", phase |-> FirstPhase, h |-> h])

GetKeyFromPool == Begin([kind |-> "get", phase |-> FirstPhase])

PoolFull == Cardinality(setKeyPool) >= nKeypool + 1

(* GenerateNewKey in the loop of TopUpKeyPool.                             *)
TopUp_Generate ==
    /\ job.kind # "none" /\ job.phase = "topup" /\ ~ PoolFull
    /\ GenerateNewKey
    /\ job' = [job EXCEPT !.phase = "write"]
    /\ UNCHANGED <<setKeyPool, store, reserved, pool, out, overwritten, oldKeys, crashes>>

(* AddKey failed because the wallet was locked meanwhile: an exception.    *)
(* (In ThreadTopUpKeyPool nothing catches it and the process ends.)        *)
TopUp_Throw ==
    /\ job.kind # "none" /\ job.phase \in {"topup", "renew"} /\ IsLocked
    /\ job.phase = "topup" => ~ PoolFull
    /\ job' = NoJob
    /\ UNCHANGED <<setKeyPool, keys, store, reserved, disk, out, overwritten, oldKeys, crashes>>

WritePool(n) ==
    /\ pool' = [i \in DOMAIN pool \cup {n} |-> IF i = n THEN Max(keys) ELSE pool[i]]
    /\ setKeyPool' = setKeyPool \cup {n}
    /\ overwritten' = (overwritten \/ n \in ReservedIndices)
    /\ UNCHANGED <<keys, store, reserved, diskKey, diskCKey, out, oldKeys, crashes>>

TopUp_Write ==
    /\ job.kind # "none" /\ job.phase = "write"
    /\ WritePool(IF setKeyPool = {} THEN 1 ELSE Max(setKeyPool) + 1)
    /\ job' = [job EXCEPT !.phase = "topup"]

TopUp_Done ==
    /\ job.kind # "none" /\ job.phase = "topup" /\ PoolFull
    /\ job' = IF job.kind = "refill" THEN NoJob ELSE [job EXCEPT !.phase = "take"]
    /\ UNCHANGED <<setKeyPool, keys, store, reserved, disk, out, overwritten, oldKeys, crashes>>

-----------------------------------------------------------------------------
(* Taking the oldest key.                                                  *)

Taking(kind) == job.kind = kind /\ job.phase = "take"

nOldest == Min(setKeyPool)

Readable == setKeyPool # {} /\ nOldest \in DOMAIN pool /\ pool[nOldest] \in keys

(* ReadPool or HaveKey fails: an exception; the index is out of the set.   *)
Take_Throw ==
    /\ job.kind # "none" /\ job.phase = "take"
    /\ setKeyPool # {} /\ ~ Readable
    /\ setKeyPool' = setKeyPool \ {nOldest}
    /\ job' = NoJob
    /\ UNCHANGED <<keys, store, reserved, disk, out, overwritten, oldKeys, crashes>>

(* For a CReserveKey.                                                      *)
Reserve ==
    /\ Taking("reserve") /\ Readable
    /\ reserved' = [reserved EXCEPT ![job.h] = [nIndex |-> nOldest, key |-> pool[nOldest]]]
    /\ setKeyPool' = setKeyPool \ {nOldest}
    /\ job' = NoJob
    /\ UNCHANGED <<keys, store, disk, out, overwritten, oldKeys, crashes>>

ErasePool(S) == pool' = [i \in DOMAIN pool \ S |-> pool[i]]

(* GetKeyFromPool reserves and keeps in one; the default key is no new     *)
(* key.                                                                    *)
Get ==
    /\ Taking("get") /\ Readable
    /\ setKeyPool' = setKeyPool \ {nOldest}
    /\ ErasePool({nOldest})
    /\ out' = Append(out, pool[nOldest])
    /\ job' = NoJob
    /\ UNCHANGED <<keys, store, reserved, diskKey, diskCKey, overwritten, oldKeys, crashes>>

(* The wallet is locked and the pool empty: the default key is used, or    *)
(* GetKeyFromPool fails.                                                   *)
Take_Empty ==
    /\ job.kind # "none" /\ job.phase = "take" /\ setKeyPool = {}
    /\ job' = NoJob
    /\ UNCHANGED <<setKeyPool, keys, store, reserved, disk, out, overwritten, oldKeys, crashes>>

-----------------------------------------------------------------------------
(* Releasing a reserved key.                                               *)

(* Mutant: the record stays.                                               *)
KeepKey_NotErased(h) ==
    /\ reserved[h].nIndex # -1
    /\ out' = Append(out, reserved[h].key)
    /\ reserved' = [reserved EXCEPT ![h] = Free]
    /\ UNCHANGED <<setKeyPool, keys, store, job, disk, overwritten, oldKeys, crashes>>

(* Without cs_wallet.                                                      *)
KeepKey(h) ==
    /\ reserved[h].nIndex # -1
    /\ ErasePool({reserved[h].nIndex})
    /\ out' = Append(out, reserved[h].key)
    /\ reserved' = [reserved EXCEPT ![h] = Free]
    /\ UNCHANGED <<setKeyPool, keys, store, job, diskKey, diskCKey, overwritten, oldKeys, crashes>>

(* Also by the destructor, and by GetOldestKeyPoolTime.                    *)
ReturnKey(h) ==
    /\ reserved[h].nIndex # -1 /\ job = NoJob
    /\ setKeyPool' = setKeyPool \cup {reserved[h].nIndex}
    /\ reserved' = [reserved EXCEPT ![h] = Free]
    /\ UNCHANGED <<keys, store, job, disk, out, overwritten, oldKeys, crashes>>

-----------------------------------------------------------------------------
(* EncryptWallet.                                                          *)

(* Up to the commit of the encrypted keys; then Lock, Unlock.  (If the     *)
(* commit fails the process exits.)                                        *)
EncryptWallet ==
    /\ fEncrypt /\ ~ IsCrypted /\ job = NoJob
    /\ store' = "unlocked"
    /\ diskKey' = {} /\ diskCKey' = diskKey
    /\ job' = [kind |-> "encrypt", phase |-> "erase", old |-> keys]
    /\ UNCHANGED <<setKeyPool, keys, reserved, pool, out, overwritten, oldKeys, crashes>>

Encrypting(phase) == job.kind = "encrypt" /\ job.phase = phase

(* Mutant: the records stay.                                               *)
NewKeyPool_NotErased ==
    /\ Encrypting("erase")
    /\ setKeyPool' = {}
    /\ job' = [job EXCEPT !.phase = "renew"]
    /\ UNCHANGED <<keys, store, reserved, disk, out, overwritten, oldKeys, crashes>>

(* The records of the free indices go, the set is cleared.                 *)
NewKeyPool ==
    /\ Encrypting("erase")
    /\ ErasePool(setKeyPool)
    /\ setKeyPool' = {}
    /\ job' = [job EXCEPT !.phase = "renew"]
    /\ UNCHANGED <<keys, store, reserved, diskKey, diskCKey, out, overwritten, oldKeys, crashes>>

NewKeyPool_Generate ==
    /\ Encrypting("renew")
    /\ Cardinality(setKeyPool) < nKeypool
    /\ GenerateNewKey
    /\ job' = [job EXCEPT !.phase = "store"]
    /\ UNCHANGED <<setKeyPool, store, reserved, pool, out, overwritten, oldKeys, crashes>>

(* The result of WritePool is ignored; writes that fail are not modelled.   *)
NewKeyPool_Write ==
    /\ Encrypting("store")
    /\ WritePool(Cardinality(setKeyPool) + 1)
    /\ job' = [job EXCEPT !.phase = "renew"]

(* The final Lock; encryptwallet then stops the server.                    *)
EncryptWallet_Done ==
    /\ Encrypting("renew")
    /\ Cardinality(setKeyPool) = nKeypool
    /\ store' = "locked"
    /\ oldKeys' = job.old
    /\ job' = NoJob
    /\ UNCHANGED <<setKeyPool, keys, reserved, disk, out, overwritten, crashes>>

-----------------------------------------------------------------------------
(* A crash, or a shutdown, and LoadWallet.                                 *)
Restart ==
    /\ crashes < MaxCrash
    /\ crashes' = crashes + 1
    /\ setKeyPool' = DOMAIN pool
    /\ keys' = diskKey \cup diskCKey
    /\ store' = IF diskCKey = {} THEN "plain" ELSE "locked"
    /\ reserved' = [h \in Holder |-> Free]
    /\ job' = NoJob
    /\ UNCHANGED <<disk, out, overwritten, oldKeys>>

(* After the first start: the pool was topped up and its first key taken   *)
(* as the default key.                                                     *)
Init ==
    /\ setKeyPool = 2 .. nKeypool + 1
    /\ pool = [i \in 2 .. nKeypool + 1 |-> i - 1]
    /\ keys = 0 .. nKeypool /\ diskKey = keys /\ diskCKey = {}
    /\ store = "plain"
    /\ reserved = [h \in Holder |-> Free]
    /\ job = NoJob
    /\ out = << >> /\ overwritten = FALSE /\ oldKeys = {} /\ crashes = 0

Next ==
    \/ Lock \/ Unlock
    \/ Refill \/ GetKeyFromPool
    \/ \E h \in Holder : GetReservedKey(h) \/ KeepKey(h) \/ ReturnKey(h)
    \/ TopUp_Generate \/ TopUp_Throw \/ TopUp_Write \/ TopUp_Done
    \/ Take_Throw \/ Reserve \/ Get \/ Take_Empty
    \/ EncryptWallet \/ NewKeyPool \/ NewKeyPool_Generate \/ NewKeyPool_Write
    \/ EncryptWallet_Done
    \/ Restart

Spec == Init /\ [][Next]_vars
-----------------------------------------------------------------------------
(* Properties.                                                             *)

TypeOK ==
    /\ setKeyPool \subseteq Nat \ {0} /\ DOMAIN pool \subseteq Nat \ {0}
    /\ \A i \in DOMAIN pool : pool[i] \in 0 .. MaxKey
    /\ keys \cup diskKey \cup diskCKey \cup oldKeys \subseteq 0 .. MaxKey
    /\ store \in {"plain", "locked", "unlocked"}
    /\ \A h \in Holder : reserved[h].nIndex \in Nat \cup {-1} /\ reserved[h].key \in 0 .. MaxKey
    /\ out \in Seq(1 .. MaxKey) /\ overwritten \in BOOLEAN

Held == {h \in Holder : reserved[h].nIndex # -1}

(* The keys given away for good and those of the CReserveKey objects       *)
(* differ from each other.                                                 *)
NeverTwice ==
    /\ IsInjective(out)
    /\ \A g, h \in Held : reserved[g].key = reserved[h].key => g = h
    /\ \A h \in Held : \A i \in DOMAIN out : out[i] # reserved[h].key

(***************************************************************************)
(* No key is handed out twice: the keys given away for good are distinct,  *)
(* two CReserveKey objects never have the same key, and none of them has a *)
(* key given away before, over returns, restarts, an empty pool, and the   *)
(* wallet being locked in the middle of a top-up; as long as no reserved   *)
(* index has been written again.                                           *)
(***************************************************************************)
HandedOutOnce == ~ overwritten => NeverTwice

(***************************************************************************)
(* Under the same condition the pool records are accounted for: each one   *)
(* is free in memory or reserved by one object, so that ReadPool finds     *)
(* every index of the set and nothing is left behind.  (While a new pool   *)
(* is made after the encryption, reserved indices are the only old ones.)  *)
(***************************************************************************)
PoolAccounted ==
    ~ overwritten =>
        /\ setKeyPool \cup ReservedIndices = DOMAIN pool
        /\ setKeyPool \cap ReservedIndices = {}
        /\ \A g, h \in Held : reserved[g].nIndex = reserved[h].nIndex => g = h

(***************************************************************************)
(* Every key in memory, and with it every key that was handed out, is on   *)
(* disk, encrypted exactly if the store is: neither a crash at any write   *)
(* nor the encryption in between loses a key or leaves one in the clear.   *)
(***************************************************************************)
KeysAreOnDisk ==
    /\ keys = IF IsCrypted THEN diskCKey ELSE diskKey
    /\ IsCrypted => diskKey = {}
    /\ Range(out) \cup {reserved[h].key : h \in Holder} \subseteq keys

(***************************************************************************)
(* CommitTransaction: "Take key pair from key pool so it won't be used     *)
(* again".                                                                 *)
(***************************************************************************)
WontBeUsedAgain == NeverTwice

(***************************************************************************)
(* NewKeyPool: "Mark old keypool keys as used, and generate all new keys": *)
(* once the wallet has been encrypted and its pool renewed, no free index  *)
(* has a key from before.                                                  *)
(***************************************************************************)
RenewedPoolIsNew ==
    \A i \in setKeyPool \cap DOMAIN pool : pool[i] \notin oldKeys
=============================================================================
