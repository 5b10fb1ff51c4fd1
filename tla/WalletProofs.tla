---------------------------- MODULE WalletProofs ----------------------------
(***************************************************************************)
(* The wallet follows the chain, for every block tree, every set of        *)
(* transactions and any number of crashes: what it was told last of every  *)
(* transaction of the best chain is true, and the coins it offers are      *)
(* unspent.                                                                *)
(***************************************************************************)
EXTENDS Wallet, ChainProofs

-----------------------------------------------------------------------------
(* The wallet beside the chain is the chain.                               *)

LEMMA WalletStepIsChainStep == [WalletNext]_walletVars => [Next]_vars
  BY DEF WalletNext, walletVars, poolVars, ReceiveTx, CommitTransaction, FixSpentCoins,
         SyncWithWallets, ToldConnect, ToldDisconnect, ToldSetBestChainInner, ToldCommitFault,
         AbortReorganize, ToldReorganize, OtherChainStep, PoolReorganize, PoolSetBestChainInner,
         WalletRestart, ReacceptWalletTransactions, AcceptWalletTransaction, Next, ProcessStep

(***************************************************************************)
(* The chain beside a wallet behaves as the chain alone: the theorems      *)
(* about Chain hold of every behaviour of WalletSpec.                      *)
(***************************************************************************)
THEOREM WalletImplementsChain == WalletSpec => Spec
<1>1. WalletInit => Init
  BY DEF WalletInit, PoolInit
<1> QED BY <1>1, WalletStepIsChainStep, PTL DEF WalletSpec, Spec

-----------------------------------------------------------------------------
(* The inductive invariant.                                                *)

(* A transaction spends only earlier ones of its block.                    *)
InOrder(x) ==
    \A i \in DOMAIN vtx[x] : \A o \in vin[vtx[x][i]] : \A j \in DOMAIN vtx[x] :
        vtx[x][j] = o[1] => j < i

OrderInv ==
    skipped = {} => /\ \A x \in ChainTo(db.best) : InOrder(x)
                    /\ pc = "reorganize" => \A x \in ChainTo(tip) : InOrder(x)

(* The block of an entry, if any, has the transaction.                     *)
WalletType(w) ==
    /\ w = [hashBlock |-> w.hashBlock, spent |-> w.spent]
    /\ w.spent \subseteq MineOut
    /\ \A t \in DOMAIN w.hashBlock :
          /\ t \in Tx
          /\ w.hashBlock[t] # NoBlock =>
                w.hashBlock[t] \in Block \ {Genesis} /\ t \in BlockTxs(w.hashBlock[t])

Involved(w, t) == MineOf(t) # {} \/ vin[t] \cap MineOut # {} \/ Has(w, t)

(* The wallet knows what the blocks S do to it, but for the transactions   *)
(* U, which it is still to be told of.                                     *)
Told(w, S, U) ==
    \A x \in S : \A t \in BlockTxs(x) \ U :
        /\ Involved(w, t) => Has(w, t) /\ w.hashBlock[t] = x
        /\ vin[t] \cap MineOut \subseteq w.spent

(* A coin is flagged for a transaction of the wallet; if that is a         *)
(* coinstake, for one of the blocks S.                                     *)
Claimed(w, S) ==
    \A o \in w.spent :
        /\ o \in MineOut /\ Has(w, o[1])
        /\ \E t \in DOMAIN w.hashBlock : o \in vin[t] /\ (t \in CoinStake => t \in TxsOf(S))

Follows(w, S, U) == WalletType(w) /\ Told(w, S, U) /\ Claimed(w, S)

(* The block up to which the wallet has been told.                         *)
ToldTip == IF pc = "reorganize" THEN tip ELSE db.best

(* Between two blocks the wallet follows the chain; in ConnectBlock, the   *)
(* chain with the new block, but for what it is still to be told of.       *)
WalletInv ==
    /\ WalletType(wallet)
    /\ told \in Nat /\ (told # 0 => pc \in {"reorganize", "inner"})
    /\ skipped = {} /\ ~ misled =>
          /\ told = 0 => Follows(wallet, ChainTo(ToldTip), {})
          /\ told # 0 => \A b \in Block :
                Connecting(b) => Follows(wallet, ChainTo(b), Later(b, told))

ChainInv == ControlInv /\ LinkInv /\ IndexInv /\ KnownInv /\ PathInv /\ OrderInv

-----------------------------------------------------------------------------
(* Induction over numbers and along a chain.                               *)

LEMMA CountUp ==
    ASSUME NEW n \in Nat, NEW G \in SUBSET Nat, 0 \in G,
           \A k \in 1 .. n : k - 1 \in G => k \in G
    PROVE  n \in G
<1> DEFINE D == {k \in Nat : k <= n /\ k \notin G}
<1>1. SUFFICES ASSUME D # {} PROVE FALSE
  OBVIOUS
<1>2. PICK m \in D : \A k \in D : m <= k
  <2>1. D \in SUBSET Nat
    OBVIOUS
  <2> HIDE DEF D
  <2> QED BY <1>1, <2>1, LeastNat
<1>3. m \in Nat /\ m <= n /\ m \notin G /\ m # 0
  BY <1>2
<1>4. m - 1 \in Nat /\ m - 1 <= n /\ ~ (m <= m - 1) /\ m \in 1 .. n
  BY <1>3
<1>5. m - 1 \in G
  BY <1>2, <1>4
<1> QED BY <1>3, <1>4, <1>5

LEMMA ClimbUp ==
    ASSUME NEW b \in Block, NEW G, Genesis \in G,
           \A x \in Ancestors[b] \ {Genesis} : hashPrevBlock[x] \in G => x \in G
    PROVE  b \in G
<1> DEFINE D == {h \in Nat : \E x \in Ancestors[b] : nHeight[x] = h /\ x \notin G}
<1>1. SUFFICES ASSUME D # {} PROVE FALSE
  BY AncestorLemma, TreeAssumption
<1>2. PICK m \in D : \A k \in D : m <= k
  <2>1. D \in SUBSET Nat
    OBVIOUS
  <2> HIDE DEF D
  <2> QED BY <1>1, <2>1, LeastNat
<1>3. PICK x \in Ancestors[b] : nHeight[x] = m /\ x \notin G
  BY <1>2
<1>4. x # Genesis /\ x \in Block
  BY <1>3, AncestorLemma
<1>5. /\ hashPrevBlock[x] \in Ancestors[b] /\ nHeight[hashPrevBlock[x]] \in Nat
      /\ nHeight[hashPrevBlock[x]] < m
  BY <1>3, <1>4, PrevLemma, AncestorLemma, TreeAssumption
<1>6. hashPrevBlock[x] \in G
  BY <1>2, <1>5
<1> QED BY <1>3, <1>4, <1>6

-----------------------------------------------------------------------------
(* One transaction.                                                        *)

LEMMA MineLemma ==
    \A o \in MineOut : o[1] \in Tx /\ o[2] \in Nat /\ o[2] \in 0 .. nOut[o[1]] - 1 /\ o \in MineOf(o[1])
  BY WalletAssumption, TxAssumption DEF MineOf

LEMMA AddLemma ==
    ASSUME NEW w, WalletType(w), NEW t, NEW b
    PROVE  LET r == AddToWallet(w, t, b)
           IN  /\ r = [hashBlock |-> r.hashBlock, spent |-> r.spent]
               /\ DOMAIN r.hashBlock = DOMAIN w.hashBlock \cup {t}
               /\ \A x \in DOMAIN w.hashBlock : x # t => r.hashBlock[x] = w.hashBlock[x]
               /\ b # NoBlock \/ ~ Has(w, t) => r.hashBlock[t] = b
               /\ b = NoBlock /\ Has(w, t) => r.hashBlock[t] = w.hashBlock[t]
               /\ r.spent = (w.spent \cup {o \in vin[t] \cap MineOut : Has(r, o[1])})
                            \ (IF b # NoBlock THEN MineOf(t) ELSE {})
<1> DEFINE h == [x \in DOMAIN w.hashBlock \cup {t} |->
                   IF x = t /\ (b # NoBlock \/ ~ Has(w, t)) THEN b ELSE w.hashBlock[x]]
           new == [hashBlock |-> h, spent |-> w.spent]
           r == AddToWallet(w, t, b)
<1>1. r = [new EXCEPT !.spent = WalletUpdateSpent(new, t, b # NoBlock)]
  <2>1. [w EXCEPT !.hashBlock = [x \in DOMAIN @ \cup {t} |->
           IF x = t /\ (b # NoBlock \/ ~ Has(w, t)) THEN b ELSE @[x]]] = new
    BY DEF WalletType
  <2> QED BY <2>1 DEF AddToWallet
<1>2. r = [hashBlock |-> h, spent |-> WalletUpdateSpent(new, t, b # NoBlock)]
  BY <1>1
<1>3. r.hashBlock = h /\ r.spent = WalletUpdateSpent(new, t, b # NoBlock)
      /\ r = [hashBlock |-> r.hashBlock, spent |-> r.spent]
  BY <1>2
<1> HIDE DEF r
<1>4. \A o : Has(new, o) <=> Has(r, o)
  BY <1>3 DEF Has
<1>5. WalletUpdateSpent(new, t, b # NoBlock) =
        (w.spent \cup {o \in vin[t] \cap MineOut : Has(r, o[1])}) \ (IF b # NoBlock THEN MineOf(t) ELSE {})
  BY <1>4 DEF WalletUpdateSpent, Debits
<1> QED BY <1>3, <1>5 DEF r, Has

LEMMA InvolvingLemma ==
    ASSUME NEW w, WalletType(w), NEW t, NEW b, NEW u \in BOOLEAN
    PROVE  AddToWalletIfInvolvingMe(w, t, b, u) =
             IF (u \/ ~ Has(w, t)) /\ (Has(w, t) \/ MineOf(t) # {} \/ Debits(w, t) # {})
             THEN AddToWallet(w, t, b) ELSE w
<1>1. ASSUME Debits(w, t) = {} PROVE [w EXCEPT !.spent = WalletUpdateSpent(w, t, FALSE)] = w
  <2>1. WalletUpdateSpent(w, t, FALSE) = w.spent
    BY <1>1 DEF WalletUpdateSpent
  <2> QED BY <2>1 DEF WalletType
<1> QED BY <1>1 DEF AddToWalletIfInvolvingMe

(* It is the turn of transaction t of block x: the wallet has been told of *)
(* what t spends, and is still to be told of what spends t.                *)
Turn(S, x, t, U) ==
    /\ x \in S /\ t \in BlockTxs(x)
    /\ \A y \in S : t \in BlockTxs(y) => y = x
    /\ \A o \in vin[t] : \E y \in S : o[1] \in BlockTxs(y) \ U
    /\ \A y \in S : \A u \in BlockTxs(y) : \A o \in vin[u] : o[1] = t => u \in U /\ u # t

LEMMA TellLemma ==
    ASSUME NEW w, NEW S \in SUBSET (Block \ {Genesis}), NEW U, NEW x, NEW t,
           Turn(S, x, t, U), Follows(w, S, U)
    PROVE  Follows(AddToWalletIfInvolvingMe(w, t, x, TRUE), S, U \ {t})
<1> DEFINE r == AddToWalletIfInvolvingMe(w, t, x, TRUE)
<1>1. x \in S /\ x \in Block /\ x # Genesis /\ x # NoBlock /\ t \in BlockTxs(x) /\ t \in Tx
  BY TreeAssumption, TxAssumption DEF Turn, BlockTxs
<1>2. WalletType(w) /\ Told(w, S, U) /\ Claimed(w, S)
  BY DEF Follows
<1>3. ASSUME NEW o \in vin[t] \cap MineOut PROVE Has(w, o[1]) /\ o[1] # t
  <2>1. PICK y \in S : o[1] \in BlockTxs(y) \ U
    BY DEF Turn
  <2>2. MineOf(o[1]) # {}
    BY MineLemma
  <2>3. Has(w, o[1])
    BY <1>2, <2>1, <2>2 DEF Told, Involved
  <2>4. o[1] # t
    BY <1>1 DEF Turn
  <2> QED BY <2>3, <2>4
<1>4. CASE ~ (Has(w, t) \/ MineOf(t) # {} \/ Debits(w, t) # {})
  <2>1. r = w
    BY <1>2, <1>4, InvolvingLemma
  <2>2. vin[t] \cap MineOut = {}
    BY <1>3, <1>4 DEF Debits
  <2>3. Told(w, S, U \ {t})
    <3> SUFFICES ASSUME NEW y \in S, NEW u \in BlockTxs(y) \ (U \ {t})
                 PROVE  /\ Involved(w, u) => Has(w, u) /\ w.hashBlock[u] = y
                        /\ vin[u] \cap MineOut \subseteq w.spent
      BY DEF Told
    <3>1. CASE u = t
      BY <1>4, <2>2, <3>1 DEF Involved
    <3>2. CASE u # t
      BY <1>2, <3>2 DEF Told
    <3> QED BY <3>1, <3>2
  <2> HIDE DEF r
  <2> QED BY <1>2, <2>1, <2>3 DEF Follows, r
<1>5. CASE Has(w, t) \/ MineOf(t) # {} \/ Debits(w, t) # {}
  <2>1. r = AddToWallet(w, t, x)
    BY <1>2, <1>5, InvolvingLemma
  <2>2. /\ r = [hashBlock |-> r.hashBlock, spent |-> r.spent]
        /\ DOMAIN r.hashBlock = DOMAIN w.hashBlock \cup {t}
        /\ \A y \in DOMAIN w.hashBlock : y # t => r.hashBlock[y] = w.hashBlock[y]
        /\ r.hashBlock[t] = x
        /\ r.spent = (w.spent \cup {o \in vin[t] \cap MineOut : Has(r, o[1])}) \ MineOf(t)
    <3> HIDE DEF r
    <3> QED BY <1>1, <1>2, <2>1, AddLemma
  <2> HIDE DEF r
  <2>3. WalletType(r)
    BY <1>1, <1>2, <2>2 DEF WalletType
  <2>4. \A u : u # t => (Has(r, u) <=> Has(w, u))
    BY <2>2 DEF Has
  <2>5. Told(r, S, U \ {t})
    <3> SUFFICES ASSUME NEW y \in S, NEW u \in BlockTxs(y) \ (U \ {t})
                 PROVE  /\ Involved(r, u) => Has(r, u) /\ r.hashBlock[u] = y
                        /\ vin[u] \cap MineOut \subseteq r.spent
      BY DEF Told
    <3>1. CASE u = t
      <4>1. y = x
        BY <3>1 DEF Turn
      <4>2. Has(r, u) /\ r.hashBlock[u] = y
        BY <2>2, <3>1, <4>1 DEF Has
      <4>3. ASSUME NEW o \in vin[t] \cap MineOut PROVE o \in r.spent
        <5>1. Has(r, o[1]) /\ o[1] # t
          BY <1>3, <2>4
        <5> QED BY <2>2, <5>1 DEF MineOf
      <4> QED BY <3>1, <4>2, <4>3
    <3>2. CASE u # t
      <4>1. u \in BlockTxs(y) \ U
        BY <3>2
      <4>2. /\ Involved(w, u) => Has(w, u) /\ w.hashBlock[u] = y
            /\ vin[u] \cap MineOut \subseteq w.spent
        BY <1>2, <4>1 DEF Told
      <4>3. Involved(r, u) => Has(r, u) /\ r.hashBlock[u] = y
        BY <2>2, <2>4, <3>2, <4>2 DEF Involved, Has
      <4>4. ASSUME NEW o \in vin[u] \cap MineOut PROVE o \in r.spent
        <5>1. o[1] # t
          BY <4>1 DEF Turn
        <5> QED BY <2>2, <4>2, <5>1 DEF MineOf
      <4> QED BY <4>3, <4>4
    <3> QED BY <3>1, <3>2
  <2>6. Claimed(r, S)
    <3> SUFFICES ASSUME NEW o \in r.spent
                 PROVE  /\ o \in MineOut /\ Has(r, o[1])
                        /\ \E u \in DOMAIN r.hashBlock :
                              o \in vin[u] /\ (u \in CoinStake => u \in TxsOf(S))
      BY DEF Claimed
    <3>1. CASE o \in w.spent
      <4>1. PICK u \in DOMAIN w.hashBlock : o \in vin[u] /\ (u \in CoinStake => u \in TxsOf(S))
        BY <1>2, <3>1 DEF Claimed
      <4>2. o \in MineOut /\ Has(w, o[1])
        BY <1>2, <3>1 DEF Claimed
      <4> QED BY <2>2, <4>1, <4>2 DEF Has
    <3>2. CASE o \in vin[t] \cap MineOut /\ Has(r, o[1])
      <4>1. t \in TxsOf(S) /\ t \in DOMAIN r.hashBlock
        BY <1>1, <2>2 DEF TxsOf
      <4> QED BY <3>2, <4>1
    <3> QED BY <2>2, <3>1, <3>2
  <2> QED BY <2>3, <2>5, <2>6 DEF Follows, r
<1> QED BY <1>4, <1>5

(* One transaction keeps the wallet typed, whatever the wallet knows.      *)
LEMMA TellTyped ==
    ASSUME NEW w, WalletType(w), NEW t \in Tx, NEW b, NEW u \in BOOLEAN,
           b # NoBlock => b \in Block \ {Genesis} /\ t \in BlockTxs(b)
    PROVE  /\ WalletType(AddToWallet(w, t, b))
           /\ WalletType(AddToWalletIfInvolvingMe(w, t, b, u))
<1> DEFINE r == AddToWallet(w, t, b)
<1>1. /\ r = [hashBlock |-> r.hashBlock, spent |-> r.spent]
      /\ DOMAIN r.hashBlock = DOMAIN w.hashBlock \cup {t}
      /\ \A y \in DOMAIN w.hashBlock : y # t => r.hashBlock[y] = w.hashBlock[y]
      /\ b # NoBlock \/ ~ Has(w, t) => r.hashBlock[t] = b
      /\ b = NoBlock /\ Has(w, t) => r.hashBlock[t] = w.hashBlock[t]
      /\ r.spent \subseteq w.spent \cup MineOut
  BY AddLemma
<1> HIDE DEF r
<1>2. WalletType(r)
  <2>1. r.spent \subseteq MineOut
    BY <1>1 DEF WalletType
  <2>2. ASSUME NEW y \in DOMAIN r.hashBlock
        PROVE  /\ y \in Tx
               /\ r.hashBlock[y] # NoBlock =>
                     r.hashBlock[y] \in Block \ {Genesis} /\ y \in BlockTxs(r.hashBlock[y])
    <3>1. CASE y # t
      BY <1>1, <3>1 DEF WalletType
    <3>2. CASE y = t /\ r.hashBlock[t] = b
      BY <3>2
    <3>3. CASE y = t /\ Has(w, t) /\ r.hashBlock[t] = w.hashBlock[t]
      BY <3>3 DEF WalletType, Has
    <3> QED BY <1>1, <3>1, <3>2, <3>3
  <2> QED BY <1>1, <2>1, <2>2 DEF WalletType
<1> QED BY <1>2, InvolvingLemma DEF r

(* A transaction in no block.                                              *)
LEMMA AddUnconfirmed ==
    ASSUME NEW w, NEW S \in SUBSET (Block \ {Genesis}), NEW t \in Tx,
           t \notin CoinStake, t \notin TxsOf(S), Follows(w, S, {})
    PROVE  /\ Follows(AddToWallet(w, t, NoBlock), S, {})
           /\ Follows(AddToWalletIfInvolvingMe(w, t, NoBlock, TRUE), S, {})
<1> DEFINE r == AddToWallet(w, t, NoBlock)
<1>1. WalletType(w) /\ Told(w, S, {}) /\ Claimed(w, S)
  BY DEF Follows
<1>2. WalletType(r)
  BY <1>1, TellTyped
<1>3. /\ DOMAIN r.hashBlock = DOMAIN w.hashBlock \cup {t}
      /\ \A y \in DOMAIN w.hashBlock : y # t => r.hashBlock[y] = w.hashBlock[y]
      /\ r.spent = w.spent \cup {o \in vin[t] \cap MineOut : Has(r, o[1])}
  BY <1>1, AddLemma
<1> HIDE DEF r
<1>4. \A u : u # t => (Has(r, u) <=> Has(w, u))
  BY <1>3 DEF Has
<1>5. Told(r, S, {})
  <2> SUFFICES ASSUME NEW y \in S, NEW u \in BlockTxs(y)
               PROVE  /\ Involved(r, u) => Has(r, u) /\ r.hashBlock[u] = y
                      /\ vin[u] \cap MineOut \subseteq r.spent
    BY DEF Told
  <2>1. u # t
    BY DEF TxsOf
  <2>2. /\ Involved(w, u) => Has(w, u) /\ w.hashBlock[u] = y
        /\ vin[u] \cap MineOut \subseteq w.spent
    BY <1>1 DEF Told
  <2> QED BY <1>3, <1>4, <2>1, <2>2 DEF Involved, Has
<1>6. Claimed(r, S)
  <2> SUFFICES ASSUME NEW o \in r.spent
               PROVE  /\ o \in MineOut /\ Has(r, o[1])
                      /\ \E u \in DOMAIN r.hashBlock :
                            o \in vin[u] /\ (u \in CoinStake => u \in TxsOf(S))
    BY DEF Claimed
  <2>1. CASE o \in w.spent
    <3>1. PICK u \in DOMAIN w.hashBlock : o \in vin[u] /\ (u \in CoinStake => u \in TxsOf(S))
      BY <1>1, <2>1 DEF Claimed
    <3>2. o \in MineOut /\ Has(w, o[1])
      BY <1>1, <2>1 DEF Claimed
    <3> QED BY <1>3, <3>1, <3>2 DEF Has
  <2>2. CASE o \in vin[t] \cap MineOut /\ Has(r, o[1])
    BY <1>3, <2>2
  <2> QED BY <1>3, <2>1, <2>2
<1>7. Follows(r, S, {})
  BY <1>2, <1>5, <1>6 DEF Follows
<1> QED BY <1>1, <1>7, InvolvingLemma DEF r

-----------------------------------------------------------------------------
(* One block.                                                              *)

(* The transactions of the blocks of S above x.                            *)
Above(S, x) == TxsOf({y \in S : nHeight[x] < nHeight[y]})

(* Along a chain with its index, the turn of each transaction comes.       *)
LEMMA OrderLemma ==
    ASSUME NEW best \in Block, NEW idx, Matches(idx, ChainTo(best)),
           NEW x \in ChainTo(best), InOrder(x), NEW k \in DOMAIN vtx[x]
    PROVE  /\ Turn(ChainTo(best), x, vtx[x][k], Above(ChainTo(best), x) \cup Later(x, k - 1))
           /\ (Above(ChainTo(best), x) \cup Later(x, k - 1)) \ {vtx[x][k]} =
                 Above(ChainTo(best), x) \cup Later(x, k)
<1> DEFINE S == ChainTo(best)
           t == vtx[x][k]
           U == Above(S, x) \cup Later(x, k - 1)
<1>1. /\ x \in Block /\ t \in BlockTxs(x) /\ S \subseteq Block
      /\ nHeight[x] \in Nat
  BY AncestorLemma, TreeAssumption DEF ChainTo, BlockTxs
<1>2. DOMAIN vtx[x] = 1 .. Len(vtx[x]) /\ Len(vtx[x]) \in Nat /\ k \in Nat
  BY <1>1, TxAssumption
<1>3. \A y \in S : \A u \in BlockTxs(y) : u \in DOMAIN idx /\ idx[u].pos[1] = y
  BY PosLemma DEF Matches
<1>4. \A y \in S, z \in S : \A u \in BlockTxs(y) : u \in BlockTxs(z) => y = z
  BY <1>3
<1>5. \A y \in S : nHeight[y] = nHeight[x] => y = x
  <2> SUFFICES ASSUME NEW y \in S, nHeight[y] = nHeight[x] PROVE y = x
    OBVIOUS
  <2>1. y \in Ancestors[best] /\ x \in Ancestors[best] /\ y \in Block
    BY <1>1 DEF ChainTo
  <2>2. x \in Ancestors[y]
    BY <1>1, <2>1, TreeAssumption
  <2> QED BY <1>1, <2>1, <2>2, TreeAssumption
<1>6. \A y \in S : \A u \in BlockTxs(y) : \A o \in vin[u] :
        o[1] \in DOMAIN idx /\ nHeight[idx[o[1]].pos[1]] <= nHeight[y]
  BY DEF Matches, Indexed
<1>7. \A i \in DOMAIN vtx[x] : vtx[x][i] = t => i = k
  BY <1>1, TxAssumption
<1> HIDE DEF S, t
<1>8. ASSUME NEW u \in Above(S, x) PROVE \E y \in S : u \in BlockTxs(y) /\ nHeight[x] < nHeight[y]
  BY DEF Above, TxsOf
<1>9. ASSUME NEW o \in vin[t] PROVE \E y \in S : o[1] \in BlockTxs(y) \ U
  <2>1. x \in S
    BY DEF S
  <2>2. o[1] \in DOMAIN idx /\ nHeight[idx[o[1]].pos[1]] <= nHeight[x]
    BY <1>1, <1>6, <2>1
  <2>3. PICK y \in S : o[1] \in BlockTxs(y)
    BY <2>2 DEF Matches, S
  <2>4. nHeight[y] <= nHeight[x] /\ nHeight[y] \in Nat
    BY <1>1, <1>3, <2>2, <2>3, TreeAssumption
  <2>5. o[1] \notin Above(S, x)
    <3> SUFFICES ASSUME o[1] \in Above(S, x) PROVE FALSE
      OBVIOUS
    <3>1. PICK z \in S : o[1] \in BlockTxs(z) /\ nHeight[x] < nHeight[z]
      BY <1>8
    <3>2. z = y
      BY <1>4, <2>3, <3>1
    <3> QED BY <1>1, <2>4, <3>1, <3>2
  <2>6. o[1] \notin Later(x, k - 1)
    <3> SUFFICES ASSUME NEW j \in k - 1 + 1 .. Len(vtx[x]), vtx[x][j] = o[1] PROVE FALSE
      BY DEF Later
    <3>1. j \in DOMAIN vtx[x] /\ ~ (j < k)
      BY <1>2
    <3> QED BY <3>1 DEF InOrder, t
  <2> QED BY <2>3, <2>5, <2>6
<1>10. ASSUME NEW y \in S, NEW u \in BlockTxs(y), NEW o \in vin[u], o[1] = t
       PROVE  u \in U /\ u # t
  <2>1. x \in S /\ y \in Block /\ nHeight[y] \in Nat
    BY <1>1, TreeAssumption DEF S
  <2>2. nHeight[x] <= nHeight[y]
    BY <1>1, <1>3, <1>6, <1>10, <2>1
  <2>3. CASE y = x
    <3>1. PICK i \in DOMAIN vtx[x] : u = vtx[x][i]
      BY <2>3 DEF BlockTxs
    <3>2. k < i
      BY <1>10, <3>1 DEF InOrder, t
    <3>3. i \in k - 1 + 1 .. Len(vtx[x]) /\ i # k
      BY <1>2, <3>1, <3>2
    <3>4. u # t
      BY <1>7, <3>1, <3>3
    <3> QED BY <3>1, <3>3, <3>4 DEF Later
  <2>4. CASE y # x
    <3>1. nHeight[x] < nHeight[y]
      BY <1>1, <1>5, <2>1, <2>2, <2>4
    <3>2. u \in Above(S, x)
      BY <3>1 DEF Above, TxsOf
    <3>3. u # t
      BY <1>1, <1>4, <2>1, <2>4
    <3> QED BY <3>2, <3>3
  <2> QED BY <2>3, <2>4
<1>11. Turn(S, x, t, U)
  <2>1. x \in S /\ \A y \in S : t \in BlockTxs(y) => y = x
    BY <1>1, <1>4 DEF S
  <2> HIDE DEF U
  <2> QED BY <1>1, <1>9, <1>10, <2>1 DEF Turn
<1>12. U \ {t} = Above(S, x) \cup Later(x, k)
  <2>1. t \notin Above(S, x)
    <3>1. x \in S
      BY DEF S
    <3> QED BY <1>1, <1>4, <1>8, <3>1
  <2>2. Later(x, k - 1) = {t} \cup Later(x, k)
    <3>1. k - 1 + 1 .. Len(vtx[x]) = {k} \cup (k + 1 .. Len(vtx[x]))
      BY <1>2
    <3> QED BY <3>1 DEF Later, t
  <2>3. t \notin Later(x, k)
    <3> SUFFICES ASSUME NEW j \in k + 1 .. Len(vtx[x]), vtx[x][j] = t PROVE FALSE
      BY DEF Later
    <3>1. j \in DOMAIN vtx[x] /\ j # k
      BY <1>2
    <3> QED BY <1>7, <3>1
  <2> QED BY <2>1, <2>2, <2>3
<1> QED BY <1>11, <1>12 DEF S, t

(* The wallet after the first k transactions of block b.                   *)
IsToldTo(f, w, b, u) ==
    f = [k \in 0 .. Len(vtx[b]) |->
        IF k = 0 THEN w ELSE AddToWalletIfInvolvingMe(f[k - 1], vtx[b][k], b, u)]

ToldTo(w, b, u) == CHOOSE f : IsToldTo(f, w, b, u)

LEMMA BlockExists ==
    ASSUME NEW w, NEW b \in Block, NEW u \in BOOLEAN
    PROVE  \E f : IsToldTo(f, w, b, u)
<1> DEFINE n == Len(vtx[b])
           step(v, k) == AddToWalletIfInvolvingMe(v, vtx[b][k], b, u)
           G == {m \in Nat : \E f : f = [k \in 0 .. m |-> IF k = 0 THEN w ELSE step(f[k - 1], k)]}
<1>1. n \in Nat
  BY TxAssumption
<1> HIDE DEF step, n
<1>2. 0 \in G
  <2> DEFINE f == [k \in 0 .. 0 |-> w]
  <2>1. f = [k \in 0 .. 0 |-> IF k = 0 THEN w ELSE step(f[k - 1], k)]
    OBVIOUS
  <2> HIDE DEF f
  <2> QED BY <2>1
<1>3. ASSUME NEW m \in 1 .. n, m - 1 \in G PROVE m \in G
  <2>1. PICK g : g = [k \in 0 .. m - 1 |-> IF k = 0 THEN w ELSE step(g[k - 1], k)]
    BY <1>3
  <2> DEFINE f == [k \in 0 .. m |-> IF k = m THEN step(g[m - 1], m) ELSE g[k]]
  <2>2. m \in Nat /\ m # 0 /\ m - 1 \in 0 .. m /\ m - 1 # m
    BY <1>1
  <2>3. \A k \in 0 .. m - 1 : k \in 0 .. m /\ k # m
    BY <2>2
  <2>4. \A k \in 0 .. m - 1 : f[k] = g[k]
    BY <2>3
  <2>5. ASSUME NEW k \in 0 .. m PROVE f[k] = IF k = 0 THEN w ELSE step(f[k - 1], k)
    <3>1. CASE k = m
      <4>1. f[k] = step(g[m - 1], m) /\ m - 1 \in 0 .. m - 1
        BY <2>2, <3>1
      <4> HIDE DEF f
      <4> QED BY <2>2, <2>4, <3>1, <4>1
    <3>2. CASE k # m
      <4>1. k \in 0 .. m - 1 /\ (k # 0 => k - 1 \in 0 .. m - 1)
        BY <2>2, <3>2
      <4>2. f[k] = g[k]
        BY <2>4, <4>1
      <4>3. g[k] = IF k = 0 THEN w ELSE step(g[k - 1], k)
        BY Zenon, <2>1, <4>1
      <4>4. k # 0 => f[k - 1] = g[k - 1]
        BY <2>4, <4>1
      <4> HIDE DEF f
      <4> QED BY <4>2, <4>3, <4>4
    <3> QED BY <3>1, <3>2
  <2>6. f = [k \in 0 .. m |-> f[k]]
    OBVIOUS
  <2> HIDE DEF f
  <2>7. f = [k \in 0 .. m |-> IF k = 0 THEN w ELSE step(f[k - 1], k)]
    BY Zenon, <2>5, <2>6
  <2> QED BY <2>2, <2>7
<1>4. G \in SUBSET Nat
  OBVIOUS
<1>5. n \in G
  <2> HIDE DEF G
  <2> QED BY <1>1, <1>2, <1>3, <1>4, CountUp
<1> QED BY <1>5 DEF step, n, IsToldTo

LEMMA BlockUnfold ==
    ASSUME NEW w, NEW b \in Block, NEW u \in BOOLEAN
    PROVE  /\ ScanBlock(w, b, u) = ToldTo(w, b, u)[Len(vtx[b])]
           /\ ToldTo(w, b, u)[0] = w
           /\ \A k \in 1 .. Len(vtx[b]) :
                 ToldTo(w, b, u)[k] = AddToWalletIfInvolvingMe(ToldTo(w, b, u)[k - 1], vtx[b][k], b, u)
<1> DEFINE f == ToldTo(w, b, u)
<1>1. f = [k \in 0 .. Len(vtx[b]) |->
             IF k = 0 THEN w ELSE AddToWalletIfInvolvingMe(f[k - 1], vtx[b][k], b, u)]
  <2>1. IsToldTo(f, w, b, u)
    BY Zenon, BlockExists DEF ToldTo
  <2> QED BY Zenon, <2>1 DEF IsToldTo
<1>2. ScanBlock(w, b, u) = f[Len(vtx[b])]
  BY Zenon DEF ScanBlock, ToldTo, IsToldTo
<1> HIDE DEF f
<1>3. Len(vtx[b]) \in Nat
  BY TxAssumption
<1>4. 0 \in 0 .. Len(vtx[b]) /\ \A k \in 1 .. Len(vtx[b]) : k \in 0 .. Len(vtx[b]) /\ k # 0
  BY <1>3
<1>5. f[0] = w
  BY Zenon, <1>1, <1>4
<1>6. ASSUME NEW k \in 1 .. Len(vtx[b])
      PROVE  f[k] = AddToWalletIfInvolvingMe(f[k - 1], vtx[b][k], b, u)
  BY Zenon, <1>1, <1>4
<1> QED BY <1>2, <1>5, <1>6 DEF f

LEMMA BlockTyped ==
    ASSUME NEW w, WalletType(w), NEW b \in Block \ {Genesis}, NEW u \in BOOLEAN
    PROVE  WalletType(ScanBlock(w, b, u))
<1> DEFINE f == ToldTo(w, b, u)
           n == Len(vtx[b])
           G == {k \in Nat : k <= n => WalletType(f[k])}
<1>1. /\ ScanBlock(w, b, u) = f[n] /\ f[0] = w
      /\ \A k \in 1 .. n : f[k] = AddToWalletIfInvolvingMe(f[k - 1], vtx[b][k], b, u)
  BY BlockUnfold
<1>2. n \in Nat /\ \A k \in 1 .. n : vtx[b][k] \in Tx /\ vtx[b][k] \in BlockTxs(b)
  BY TxAssumption DEF BlockTxs
<1> HIDE DEF f, n
<1>3. ASSUME NEW k \in 1 .. n, k - 1 \in G PROVE k \in G
  <2>1. k \in Nat /\ k - 1 <= n
    BY <1>2
  <2>2. WalletType(f[k - 1])
    BY <1>3, <2>1
  <2>3. WalletType(f[k])
    BY <1>1, <1>2, <2>2, TellTyped
  <2> QED BY <2>1, <2>3
<1>4. 0 \in G /\ G \in SUBSET Nat
  BY <1>1
<1>5. n \in G
  <2> HIDE DEF G
  <2> QED BY <1>2, <1>3, <1>4, CountUp
<1> QED BY <1>1, <1>2, <1>5

(* A block of the chain is scanned.                                        *)
LEMMA BlockLemma ==
    ASSUME NEW best \in Block, NEW idx, Matches(idx, ChainTo(best)),
           NEW x \in ChainTo(best), InOrder(x), NEW w,
           Follows(w, ChainTo(best), Above(ChainTo(best), x) \cup BlockTxs(x))
    PROVE  Follows(ScanBlock(w, x, TRUE), ChainTo(best), Above(ChainTo(best), x))
<1> DEFINE S == ChainTo(best)
           f == ToldTo(w, x, TRUE)
           n == Len(vtx[x])
           G == {k \in Nat : k <= n => Follows(f[k], S, Above(S, x) \cup Later(x, k))}
<1>1. x \in Block /\ S \in SUBSET (Block \ {Genesis}) /\ x \in S
  BY AncestorLemma DEF ChainTo
<1>2. /\ ScanBlock(w, x, TRUE) = f[n] /\ f[0] = w
      /\ \A k \in 1 .. n : f[k] = AddToWalletIfInvolvingMe(f[k - 1], vtx[x][k], x, TRUE)
  BY <1>1, BlockUnfold
<1>3. n \in Nat /\ DOMAIN vtx[x] = 1 .. n
  BY <1>1, TxAssumption
<1>4. Later(x, 0) = BlockTxs(x) /\ Later(x, n) = {}
  <2>1. 0 + 1 .. Len(vtx[x]) = DOMAIN vtx[x] /\ n + 1 .. Len(vtx[x]) = {}
    BY <1>3
  <2> QED BY <2>1 DEF Later, BlockTxs
<1>5. ASSUME NEW k \in 1 .. n
      PROVE  /\ Turn(S, x, vtx[x][k], Above(S, x) \cup Later(x, k - 1))
             /\ (Above(S, x) \cup Later(x, k - 1)) \ {vtx[x][k]} = Above(S, x) \cup Later(x, k)
  BY <1>3, OrderLemma
<1> HIDE DEF f, n, S
<1>6. ASSUME NEW k \in 1 .. n, k - 1 \in G PROVE k \in G
  <2>1. k \in Nat /\ k - 1 <= n
    BY <1>3
  <2> DEFINE U == Above(S, x) \cup Later(x, k - 1)
  <2>2. Follows(f[k - 1], S, U)
    BY <1>6, <2>1
  <2>3. Turn(S, x, vtx[x][k], U) /\ U \ {vtx[x][k]} = Above(S, x) \cup Later(x, k)
    BY <1>5
  <2> HIDE DEF U
  <2>4. Follows(AddToWalletIfInvolvingMe(f[k - 1], vtx[x][k], x, TRUE), S, U \ {vtx[x][k]})
    BY Zenon, <1>1, <2>2, <2>3, TellLemma
  <2>5. f[k] = AddToWalletIfInvolvingMe(f[k - 1], vtx[x][k], x, TRUE)
    BY Zenon, <1>2
  <2>6. Follows(f[k], S, U \ {vtx[x][k]})
    BY Zenon, <2>4, <2>5
  <2> QED BY <2>1, <2>3, <2>6
<1>7. 0 \in G /\ G \in SUBSET Nat
  BY <1>2, <1>4 DEF S
<1>8. n \in G
  <2> HIDE DEF G
  <2> QED BY <1>3, <1>6, <1>7, CountUp
<1>9. Above(S, x) \cup Later(x, n) = Above(S, x)
  BY <1>4
<1>10. Follows(f[n], S, Above(S, x) \cup Later(x, n))
  BY <1>3, <1>8
<1> QED BY <1>2, <1>9, <1>10 DEF S

(* The transactions of a block that connects are in order.                 *)
LEMMA ConnectInOrder ==
    ASSUME NEW b \in Block, b # Genesis, NEW idx,
           Matches(idx, ChainTo(hashPrevBlock[b])), ConnectOK(idx, b)
    PROVE  InOrder(b)
<1> SUFFICES ASSUME NEW i \in DOMAIN vtx[b], NEW o \in vin[vtx[b][i]], NEW j \in DOMAIN vtx[b],
                    vtx[b][j] = o[1]
             PROVE  j < i
  BY DEF InOrder
<1>1. DOMAIN vtx[b] = 1 .. Len(vtx[b]) /\ Len(vtx[b]) \in Nat
  BY TxAssumption
<1>2. o[1] \notin DOMAIN idx
  BY FreshLemma DEF BlockTxs
<1>3. o[1] \in Earlier(b, i)
  BY <1>2 DEF ConnectOK, FetchInputs, Indexed
<1>4. PICK m \in 1 .. i - 1 : vtx[b][m] = o[1]
  BY <1>3 DEF Earlier
<1>5. m \in DOMAIN vtx[b] /\ m < i
  BY <1>1
<1>6. \A k, l \in DOMAIN vtx[b] : vtx[b][k] = vtx[b][l] => k = l
  BY TxAssumption
<1>7. j = m
  BY <1>4, <1>5, <1>6
<1> QED BY <1>5, <1>7

(* ConnectBlock has come to the end of its checks.                         *)
LEMMA FollowsBegin ==
    ASSUME NEW b \in Block, b # Genesis, NEW w, Follows(w, ChainTo(hashPrevBlock[b]), {})
    PROVE  Follows(w, ChainTo(b), Later(b, 0))
<1> DEFINE S == ChainTo(hashPrevBlock[b])
           T == ChainTo(b)
<1>1. T = S \cup {b}
  BY ChainToLemma
<1>2. WalletType(w) /\ Told(w, S, {}) /\ Claimed(w, S)
  BY DEF Follows
<1>3. Later(b, 0) = BlockTxs(b)
  <2>1. 0 + 1 .. Len(vtx[b]) = DOMAIN vtx[b]
    BY TxAssumption
  <2> QED BY <2>1 DEF Later, BlockTxs
<1> HIDE DEF S, T
<1>4. Told(w, T, BlockTxs(b))
  BY <1>1, <1>2 DEF Told
<1>5. Claimed(w, T)
  <2>1. TxsOf(S) \subseteq TxsOf(T)
    BY <1>1 DEF TxsOf
  <2> QED BY <1>2, <2>1 DEF Claimed
<1> QED BY <1>2, <1>3, <1>4, <1>5 DEF Follows, T

LEMMA NothingAbove ==
    ASSUME NEW b \in Block
    PROVE  Above(ChainTo(b), b) = {}
<1>1. ASSUME NEW y \in ChainTo(b), nHeight[b] < nHeight[y] PROVE FALSE
  <2>1. nHeight[y] <= nHeight[b] /\ y \in Block
    BY AncestorLemma DEF ChainTo
  <2> QED BY <1>1, <2>1, TreeAssumption
<1> QED BY <1>1 DEF Above, TxsOf

(* The wallet is told of transaction k of the last block.                  *)
LEMMA FollowsTell ==
    ASSUME NEW b \in Block, b # Genesis, NEW idx, Matches(idx, ChainTo(b)), InOrder(b),
           NEW k \in DOMAIN vtx[b], NEW w, Follows(w, ChainTo(b), Later(b, k - 1))
    PROVE  Follows(AddToWalletIfInvolvingMe(w, vtx[b][k], b, TRUE), ChainTo(b), Later(b, k))
<1> DEFINE S == ChainTo(b)
<1>1. b \in S /\ S \in SUBSET (Block \ {Genesis})
  BY AncestorLemma, TreeAssumption DEF ChainTo
<1>2. /\ Turn(S, b, vtx[b][k], Above(S, b) \cup Later(b, k - 1))
      /\ (Above(S, b) \cup Later(b, k - 1)) \ {vtx[b][k]} = Above(S, b) \cup Later(b, k)
  BY <1>1, OrderLemma
<1>3. Above(S, b) \cup Later(b, k - 1) = Later(b, k - 1) /\ Above(S, b) \cup Later(b, k) = Later(b, k)
  BY NothingAbove
<1>4. Turn(S, b, vtx[b][k], Later(b, k - 1)) /\ Later(b, k - 1) \ {vtx[b][k]} = Later(b, k)
  BY <1>2, <1>3
<1> HIDE DEF S
<1>5. Follows(AddToWalletIfInvolvingMe(w, vtx[b][k], b, TRUE), S, Later(b, k - 1) \ {vtx[b][k]})
  BY <1>1, <1>4, TellLemma DEF S
<1> QED BY <1>4, <1>5 DEF S

(* A block is disconnected, and the wallet told.                           *)
LEMMA FollowsDisconnect ==
    ASSUME NEW b \in Block, b # Genesis, NEW idx, Matches(idx, ChainTo(b)),
           NEW w, Follows(w, ChainTo(b), {})
    PROVE  Follows(DisableTransactions(w, b), ChainTo(hashPrevBlock[b]), {})
<1> DEFINE S == ChainTo(hashPrevBlock[b])
           D == UNION {Debits(w, t) : t \in BlockTxs(b) \cap CoinStake}
           r == DisableTransactions(w, b)
<1>1. ChainTo(b) = S \cup {b} /\ b \notin S
  BY ChainToLemma
<1>2. WalletType(w) /\ Told(w, S \cup {b}, {}) /\ Claimed(w, S \cup {b})
  BY <1>1 DEF Follows
<1>3. r = [hashBlock |-> w.hashBlock, spent |-> w.spent \ D]
  <2>1. r = [w EXCEPT !.spent = w.spent \ D]
    BY DEF DisableTransactions
  <2> HIDE DEF r, D
  <2> QED BY <1>2, <2>1 DEF WalletType
<1>4. r.hashBlock = w.hashBlock /\ r.spent = w.spent \ D
      /\ r = [hashBlock |-> r.hashBlock, spent |-> r.spent]
  BY <1>3
<1> HIDE DEF S, r
<1>5. WalletType(r)
  <2> HIDE DEF D
  <2> QED BY <1>2, <1>4 DEF WalletType
<1>6. Told(r, S, {})
  <2> SUFFICES ASSUME NEW x \in S, NEW t \in BlockTxs(x)
               PROVE  /\ Involved(r, t) => Has(r, t) /\ r.hashBlock[t] = x
                      /\ vin[t] \cap MineOut \subseteq r.spent
    BY DEF Told
  <2>1. /\ Involved(w, t) => Has(w, t) /\ w.hashBlock[t] = x
        /\ vin[t] \cap MineOut \subseteq w.spent
    BY <1>2 DEF Told
  <2>2. ASSUME NEW o \in vin[t] \cap MineOut, o \in D PROVE FALSE
    <3>1. PICK s \in BlockTxs(b) \cap CoinStake : o \in Debits(w, s)
      BY <2>2
    <3>2. o \in vin[s]
      BY <3>1 DEF Debits
    <3>3. x \in ChainTo(b) /\ b \in ChainTo(b) /\ x # b
      BY <1>1
    <3>4. idx[o[1]].vSpent[o[2]] = <<x, t>> /\ idx[o[1]].vSpent[o[2]] = <<b, s>>
      BY <3>1, <3>2, <3>3 DEF Matches
    <3> QED BY <3>3, <3>4, PosLemma
  <2>3. vin[t] \cap MineOut \subseteq r.spent
    <3> HIDE DEF D
    <3> QED BY <1>4, <2>1, <2>2
  <2> QED BY <1>4, <2>1, <2>3 DEF Involved, Has
<1>7. Claimed(r, S)
  <2> SUFFICES ASSUME NEW o \in r.spent
               PROVE  /\ o \in MineOut /\ Has(r, o[1])
                      /\ \E t \in DOMAIN r.hashBlock :
                            o \in vin[t] /\ (t \in CoinStake => t \in TxsOf(S))
    BY DEF Claimed
  <2>1. o \in w.spent /\ o \notin D
    BY <1>4
  <2>2. o \in MineOut /\ Has(w, o[1])
    BY <1>2, <2>1 DEF Claimed
  <2>3. PICK t \in DOMAIN w.hashBlock :
            o \in vin[t] /\ (t \in CoinStake => t \in TxsOf(S \cup {b}))
    BY <1>2, <2>1 DEF Claimed
  <2>4. ASSUME t \in CoinStake PROVE t \in TxsOf(S)
    <3>1. t \notin BlockTxs(b)
      BY <2>1, <2>2, <2>3, <2>4 DEF Debits
    <3> QED BY <2>3, <2>4, <3>1 DEF TxsOf
  <2> QED BY <1>4, <2>2, <2>3, <2>4 DEF Has
<1> QED BY <1>5, <1>6, <1>7 DEF Follows, S, r

-----------------------------------------------------------------------------
(* The scan of the chain.                                                  *)

(* f is the wallet as the scan comes to each of the blocks B, from height  *)
(* h on.                                                                   *)
IsScan(f, w, h, u, B) ==
    f = [b \in B |-> IF b = Genesis \/ nHeight[b] < h THEN w
                     ELSE ScanBlock(f[hashPrevBlock[b]], b, u)]

ScanOf(w, h, best, u) == CHOOSE f : IsScan(f, w, h, u, Ancestors[best])

LEMMA ScanStep ==
    ASSUME NEW f, NEW w, NEW h, NEW u, NEW B, IsScan(f, w, h, u, B), NEW b \in B
    PROVE  /\ b = Genesis \/ nHeight[b] < h => f[b] = w
           /\ ~ (b = Genesis \/ nHeight[b] < h) => f[b] = ScanBlock(f[hashPrevBlock[b]], b, u)
<1>1. f[b] = IF b = Genesis \/ nHeight[b] < h THEN w ELSE ScanBlock(f[hashPrevBlock[b]], b, u)
  BY Zenon DEF IsScan
<1> QED BY <1>1

LEMMA ScanExists ==
    ASSUME NEW w, NEW h, NEW u, NEW best \in Block
    PROVE  \E f : IsScan(f, w, h, u, Ancestors[best])
<1> DEFINE G == {b \in Block : \E f : IsScan(f, w, h, u, Ancestors[b])}
<1>1. Genesis \in G
  <2> DEFINE f == [b \in {Genesis} |-> w]
  <2>1. f = [b \in {Genesis} |-> IF b = Genesis \/ nHeight[b] < h THEN w
                                 ELSE ScanBlock(f[hashPrevBlock[b]], b, u)]
    OBVIOUS
  <2>2. IsScan(f, w, h, u, Ancestors[Genesis])
    <3>1. Ancestors[Genesis] = {Genesis}
      BY TreeAssumption
    <3> HIDE DEF f
    <3> QED BY <2>1, <3>1 DEF IsScan
  <2> HIDE DEF f
  <2> QED BY <2>2, TreeAssumption
<1>2. ASSUME NEW x \in Ancestors[best] \ {Genesis}, hashPrevBlock[x] \in G PROVE x \in G
  <2> DEFINE p == hashPrevBlock[x]
  <2>1. PICK g : IsScan(g, w, h, u, Ancestors[p])
    BY <1>2
  <2>2. x \in Block /\ p \in Ancestors[p] /\ Ancestors[x] = {x} \cup Ancestors[p] /\ x \notin Ancestors[p]
    BY AncestorLemma, PrevLemma, TreeAssumption
  <2> DEFINE f == [b \in Ancestors[x] |->
                     IF b # x THEN g[b] ELSE IF nHeight[x] < h THEN w ELSE ScanBlock(g[p], x, u)]
  <2>3. \A b \in Ancestors[p] : f[b] = g[b]
    BY <2>2
  <2>4. ASSUME NEW b \in Ancestors[x]
        PROVE  f[b] = IF b = Genesis \/ nHeight[b] < h THEN w ELSE ScanBlock(f[hashPrevBlock[b]], b, u)
    <3>1. CASE b = x
      <4>1. f[b] = IF nHeight[x] < h THEN w ELSE ScanBlock(g[p], x, u)
        BY <3>1
      <4>2. f[p] = g[p]
        BY <2>2, <2>3
      <4> HIDE DEF f
      <4> QED BY <3>1, <4>1, <4>2
    <3>2. CASE b # x
      <4>1. b \in Ancestors[p] /\ p \in Block
        BY <2>2, <3>2, PrevLemma
      <4>2. f[b] = g[b]
        BY <2>3, <4>1
      <4>3. b # Genesis => hashPrevBlock[b] \in Ancestors[p]
        BY <4>1, BelowLemma
      <4>4. b # Genesis => f[hashPrevBlock[b]] = g[hashPrevBlock[b]]
        BY <2>3, <4>3
      <4> HIDE DEF f, p
      <4>5. /\ b = Genesis \/ nHeight[b] < h => g[b] = w
            /\ ~ (b = Genesis \/ nHeight[b] < h) => g[b] = ScanBlock(g[hashPrevBlock[b]], b, u)
        BY <2>1, <4>1, ScanStep
      <4> QED BY <4>2, <4>4, <4>5
    <3> QED BY <3>1, <3>2
  <2>5. f = [b \in Ancestors[x] |-> f[b]]
    OBVIOUS
  <2> HIDE DEF f
  <2>6. IsScan(f, w, h, u, Ancestors[x])
    BY Zenon, <2>4, <2>5 DEF IsScan
  <2> QED BY <2>2, <2>6
<1> HIDE DEF G
<1>3. best \in G
  BY <1>1, <1>2, ClimbUp
<1> QED BY <1>3 DEF G

LEMMA ScanUnfold ==
    ASSUME NEW w, NEW h, NEW u, NEW best \in Block
    PROVE  /\ IsScan(ScanOf(w, h, best, u), w, h, u, Ancestors[best])
           /\ ScanForWalletTransactions(w, h, best, u) = ScanOf(w, h, best, u)[best]
<1>1. \E f : IsScan(f, w, h, u, Ancestors[best])
  BY ScanExists
<1>2. IsScan(ScanOf(w, h, best, u), w, h, u, Ancestors[best])
  BY Zenon, <1>1 DEF ScanOf
<1>3. ScanForWalletTransactions(w, h, best, u) = ScanOf(w, h, best, u)[best]
  BY Zenon DEF ScanForWalletTransactions, ScanOf, IsScan
<1> QED BY <1>2, <1>3

LEMMA ScanTyped ==
    ASSUME NEW w, WalletType(w), NEW h, NEW u \in BOOLEAN, NEW best \in Block
    PROVE  WalletType(ScanForWalletTransactions(w, h, best, u))
<1> DEFINE f == ScanOf(w, h, best, u)
           G == {b \in Ancestors[best] : WalletType(f[b])}
<1>1. IsScan(f, w, h, u, Ancestors[best])
  BY ScanUnfold
<1> HIDE DEF f
<1>2. Genesis \in G
  BY <1>1, ScanStep, TreeAssumption
<1>3. ASSUME NEW x \in Ancestors[best] \ {Genesis}, hashPrevBlock[x] \in G PROVE x \in G
  <2>1. x \in Block \ {Genesis} /\ WalletType(f[hashPrevBlock[x]])
    BY <1>3, AncestorLemma
  <2>2. f[x] = w \/ f[x] = ScanBlock(f[hashPrevBlock[x]], x, u)
    BY <1>1, ScanStep
  <2> QED BY <2>1, <2>2, BlockTyped
<1>4. best \in G
  <2> HIDE DEF G
  <2> QED BY <1>2, <1>3, ClimbUp
<1>5. WalletType(f[best])
  BY <1>4
<1> QED BY <1>5, ScanUnfold DEF f

LEMMA FollowsMore ==
    ASSUME NEW w, NEW S, Follows(w, S, {}), NEW U
    PROVE  Follows(w, S, U)
  BY DEF Follows, Told

(* Scanning blocks that the wallet has been told of changes nothing that   *)
(* matters.                                                                *)
LEMMA FollowsScan ==
    ASSUME NEW best \in Block, NEW idx, Matches(idx, ChainTo(best)),
           \A x \in ChainTo(best) : InOrder(x),
           NEW h, NEW w, Follows(w, ChainTo(best), {})
    PROVE  Follows(ScanForWalletTransactions(w, h, best, TRUE), ChainTo(best), {})
<1> DEFINE S == ChainTo(best)
           f == ScanOf(w, h, best, TRUE)
           G == {b \in Ancestors[best] : Follows(f[b], S, Above(S, b))}
<1>1. /\ f[Genesis] = w
      /\ \A x \in Ancestors[best] : f[x] = w \/ f[x] = ScanBlock(f[hashPrevBlock[x]], x, TRUE)
  <2>1. IsScan(f, w, h, TRUE, Ancestors[best])
    BY ScanUnfold
  <2> HIDE DEF f
  <2>2. \A u : IsScan(f, w, h, u, Ancestors[best]) =>
           /\ f[Genesis] = w
           /\ \A x \in Ancestors[best] : f[x] = w \/ f[x] = ScanBlock(f[hashPrevBlock[x]], x, u)
    BY ScanStep, TreeAssumption
  <2> QED BY Zenon, <2>1, <2>2
<1> HIDE DEF f
<1>2. Genesis \in G
  BY <1>1, FollowsMore, TreeAssumption
<1>3. ASSUME NEW x \in Ancestors[best] \ {Genesis}, hashPrevBlock[x] \in G PROVE x \in G
  <2>1. /\ x \in Block \ {Genesis} /\ x \in S
        /\ Follows(f[hashPrevBlock[x]], S, Above(S, hashPrevBlock[x]))
    BY <1>3, AncestorLemma DEF ChainTo
  <2>2. Above(S, hashPrevBlock[x]) \subseteq Above(S, x) \cup BlockTxs(x)
    <3> SUFFICES ASSUME NEW y \in S, nHeight[hashPrevBlock[x]] < nHeight[y], NEW t \in BlockTxs(y)
                 PROVE  t \in Above(S, x) \cup BlockTxs(x)
      BY DEF Above, TxsOf
    <3>1. y \in Block /\ y \in Ancestors[best]
      BY AncestorLemma DEF ChainTo
    <3>2. nHeight[x] = nHeight[hashPrevBlock[x]] + 1 /\ hashPrevBlock[x] \in Block
      BY <2>1, TreeAssumption
    <3>3. nHeight[x] \in Nat /\ nHeight[y] \in Nat /\ nHeight[hashPrevBlock[x]] \in Nat
      BY <2>1, <3>1, <3>2, TreeAssumption
    <3>4. nHeight[x] < nHeight[y] \/ nHeight[x] = nHeight[y]
      BY <3>2, <3>3
    <3>5. CASE nHeight[x] < nHeight[y]
      BY <3>5 DEF Above, TxsOf
    <3>6. CASE nHeight[x] = nHeight[y]
      <4>1. x \in Ancestors[y]
        BY <3>1, <3>3, <3>6, TreeAssumption
      <4>2. x = y
        BY <3>1, <3>3, <3>6, <4>1, TreeAssumption
      <4> QED BY <4>2
    <3> QED BY <3>4, <3>5, <3>6
  <2>3. Follows(f[hashPrevBlock[x]], S, Above(S, x) \cup BlockTxs(x))
    BY <2>1, <2>2 DEF Follows, Told
  <2>4. CASE f[x] = w
    BY <2>4, FollowsMore
  <2>5. CASE f[x] = ScanBlock(f[hashPrevBlock[x]], x, TRUE)
    <3>1. Follows(f[x], S, Above(S, x))
      BY <2>1, <2>3, <2>5, BlockLemma
    <3> QED BY <3>1
  <2> QED BY Zenon, <1>1, <2>4, <2>5
<1>4. best \in G
  <2> HIDE DEF G
  <2> QED BY <1>2, <1>3, ClimbUp
<1>5. Above(S, best) = {}
  BY NothingAbove
<1>6. Follows(f[best], S, {})
  BY <1>4, <1>5
<1> QED BY <1>6, ScanUnfold DEF f

-----------------------------------------------------------------------------
(* The blocks of the chain are in order.                                   *)

LEMMA OrderSame ==
    ASSUME OrderInv, db'.best = db.best, skipped \subseteq skipped', pc' # "reorganize"
    PROVE  OrderInv'
  BY DEF OrderInv

LEMMA OrderNext == ControlInv /\ IndexInv /\ OrderInv /\ [Next]_vars => OrderInv'
<1> SUFFICES ASSUME ControlInv, IndexInv, OrderInv, [Next]_vars PROVE OrderInv'
  OBVIOUS
<1>1. CASE UNCHANGED vars
  BY <1>1 DEF OrderInv, vars, locals, history
<1>2. ASSUME NEW b \in Block \ {Genesis}, AcceptBlock(b) PROVE OrderInv'
  <2>1. db'.best = db.best /\ skipped' = skipped /\ pc' # "reorganize"
    BY <1>2 DEF AcceptBlock, Arrives, history, ControlInv, Shape
  <2> QED BY <2>1, OrderSame
<1>3. ASSUME NEW b \in Block \ {Genesis}, RefuseBlock(b) PROVE OrderInv'
  BY <1>3, OrderSame DEF RefuseBlock, Arrives, locals
<1>4. CASE ExtendBest
  BY <1>4, OrderSame DEF ExtendBest, history
<1>5. CASE BeginReorganize
  BY <1>5 DEF OrderInv, BeginReorganize, ControlInv, AtBegin, DiskBehindMemory, history
<1>6. CASE Reorganize_Disconnect
  <2>1. tip \in Block \ {Genesis} /\ pc = "reorganize" /\ pindexIntermediate \in Block
    BY <1>6, TreeAssumption, AncestorLemma
    DEF Reorganize_Disconnect, Disconnecting, ControlInv, TypeOK, AtReorganize
  <2>2. ChainTo(tip') \subseteq ChainTo(tip)
    BY <1>6, <2>1, ChainToLemma DEF Reorganize_Disconnect
  <2> QED BY <1>6, <2>1, <2>2 DEF Reorganize_Disconnect, history, OrderInv
<1>7. ASSUME NEW b \in Block, Reorganize_Connect(b) PROVE OrderInv'
  <2>1. /\ b # Genesis /\ tip = hashPrevBlock[b] /\ pc = "reorganize" /\ tip' = b
        /\ ConnectOK(view.txindex, b) /\ db' = db /\ skipped' = skipped
    BY <1>7 DEF Reorganize_Connect, ConnectNext, Connects, history
  <2>2. skipped = {} => InOrder(b)
    BY <2>1, ConnectInOrder DEF IndexInv
  <2>3. ChainTo(b) = ChainTo(tip) \cup {b}
    BY <2>1, ChainToLemma
  <2> QED BY <2>1, <2>2, <2>3 DEF OrderInv
<1>8. CASE Reorganize_Invalid \/ Reorganize_CommitFault
  <2>1. db'.best = db.best /\ skipped' = skipped /\ pc' # "reorganize"
    BY <1>8 DEF Reorganize_Invalid, Reorganize_CommitFault, ReorganizeFails,
                InvalidChainFound, Return, history, ControlInv, Shape
  <2> QED BY <2>1, OrderSame
<1>9. CASE Reorganize_Commit
  <2>1. /\ db'.best = tip /\ skipped' = skipped /\ pc = "reorganize" /\ pc' # "reorganize"
    BY <1>9 DEF Reorganize_Commit, TxnCommit, history, ControlInv, Shape
  <2> QED BY <2>1 DEF OrderInv
<1>10. ASSUME NEW b \in Block, SetBestChainInner(b) PROVE OrderInv'
  <2>1. /\ b # Genesis /\ tip = hashPrevBlock[b] /\ pc = "inner"
        /\ ConnectOK(view.txindex, b)
    BY <1>10 DEF SetBestChainInner, ConnectNext, Connects
  <2>2. skipped = {} => db.best = tip /\ Matches(view.txindex, ChainTo(tip))
    BY <2>1 DEF ControlInv, AtInner, Committed, DiskBehindMemory, IndexInv,
                TxIndexMatchesChain
  <2>3. db'.best = b /\ skipped' = skipped /\ pc' = pc
    BY <1>10 DEF SetBestChainInner, TxnCommit, history, ControlInv, Shape
  <2>4. skipped = {} => InOrder(b)
    BY <2>1, <2>2, ConnectInOrder
  <2>5. ChainTo(b) = ChainTo(tip) \cup {b}
    BY <2>1, ChainToLemma
  <2> QED BY <2>1, <2>2, <2>3, <2>4, <2>5 DEF OrderInv
<1>11. ASSUME NEW b \in Block,
              SetBestChainInner_Invalid(b) \/ SetBestChainInner_CommitFault(b)
       PROVE  OrderInv'
  <2>1. db'.best = db.best /\ skipped \subseteq skipped' /\ pc' # "reorganize"
    BY <1>11 DEF SetBestChainInner_Invalid, SetBestChainInner_CommitFault, GiveUp,
                 NewBest, Return, InvalidChainFound, ControlInv, Shape
  <2> QED BY <2>1, OrderSame
<1>12. CASE SetBestChain_Done
  BY <1>12, OrderSame DEF SetBestChain_Done, NewBest, Return, history
<1>13. CASE Restart
  BY <1>13, OrderSame DEF Restart, Return, history
<1> QED
  BY <1>1, <1>2, <1>3, <1>4, <1>5, <1>6, <1>7, <1>8, <1>9, <1>10, <1>11, <1>12, <1>13
  DEF Next, ProcessStep

-----------------------------------------------------------------------------
(* The depth of an entry is that of its block in the chain.                *)

LEMMA DepthLemma ==
    ASSUME ChainInv, pindexBest = db.best, skipped = {}, WalletType(wallet),
           NEW t \in DOMAIN wallet.hashBlock
    PROVE  GetDepthInMainChain(t) >= 1 <=> wallet.hashBlock[t] \in ChainTo(db.best)
<1> DEFINE b == wallet.hashBlock[t]
<1>1. /\ db.best \in Block /\ pindexBest = db.best /\ mapBlockIndex \subseteq Block
      /\ Ancestors[db.best] \subseteq mapBlockIndex
      /\ \A x \in Block : pnext[x] # NoBlock <=> x \in Ancestors[db.best] \ {db.best}
  BY DEF ChainInv, ControlInv, TypeOK, AtIdle, DiskBehindMemory, KnownInv, PathInv
<1>2. b \in mapBlockIndex /\ IsInMainChain(b) <=> b \in Ancestors[db.best]
  BY <1>1, AncestorLemma, TreeAssumption DEF IsInMainChain
<1>3. b \in mapBlockIndex => b # Genesis
  BY <1>1, TreeAssumption DEF WalletType
<1>4. b \in ChainTo(db.best) <=> b \in mapBlockIndex /\ IsInMainChain(b)
  BY <1>1, <1>2, <1>3 DEF ChainTo
<1>5. CASE b \in mapBlockIndex /\ IsInMainChain(b)
  <2>1. GetDepthInMainChain(t) = nHeight[pindexBest] - nHeight[b] + 1
    BY <1>5 DEF GetDepthInMainChain
  <2>2. nHeight[b] <= nHeight[pindexBest] /\ nHeight[b] \in Nat /\ nHeight[pindexBest] \in Nat
    BY <1>1, <1>2, <1>5, AncestorLemma, TreeAssumption
  <2> HIDE DEF b
  <2>3. GetDepthInMainChain(t) >= 1
    BY <2>1, <2>2
  <2> QED BY <1>4, <1>5, <2>3 DEF b
<1>6. CASE ~ (b \in mapBlockIndex /\ IsInMainChain(b))
  <2>1. GetDepthInMainChain(t) \in {0, -1}
    BY <1>6 DEF GetDepthInMainChain
  <2> QED BY <1>4, <1>6, <2>1
<1> QED BY <1>5, <1>6

LEMMA BestLemma ==
    ASSUME ChainInv
    PROVE  /\ db.best \in Block
           /\ skipped = {} => Matches(db.txindex, ChainTo(db.best))
           /\ skipped = {} => DOMAIN db.txindex = TxsOf(ChainTo(db.best))
           /\ ChainTo(db.best) \in SUBSET (Block \ {Genesis})
<1>1. db.best \in Block
  BY DEF ChainInv, ControlInv, TypeOK
<1>2. skipped = {} => Matches(db.txindex, ChainTo(db.best))
  BY DEF ChainInv, IndexInv, TxIndexMatchesChain
<1> QED BY <1>1, <1>2, AncestorLemma DEF Matches, TxsOf, ChainTo

(* Every coin of the wallet that the chain spends is flagged.              *)
Flagged ==
    \A o \in MineOut :
        /\ Has(wallet, o[1]) /\ Indexed(db.txindex, o)
        /\ db.txindex[o[1]].vSpent[o[2]] # NullPos
        => o \in wallet.spent

LEMMA FlaggedOffers ==
    ChainInv /\ WalletType(wallet) /\ Quiet /\ Flagged => OffersUnspent
<1> SUFFICES ASSUME ChainInv, WalletType(wallet), Quiet, Flagged, NEW o \in AvailableCoins
             PROVE  Indexed(db.txindex, o) /\ db.txindex[o[1]].vSpent[o[2]] = NullPos
  BY DEF OffersUnspent
<1>1. o \in MineOut /\ o \notin wallet.spent /\ Has(wallet, o[1]) /\ GetDepthInMainChain(o[1]) >= 1
  BY DEF AvailableCoins
<1>2. wallet.hashBlock[o[1]] \in ChainTo(db.best)
  <2>1. pindexBest = db.best
    BY DEF Quiet, ChainInv, ControlInv, AtIdle, DiskBehindMemory
  <2> QED BY <1>1, <2>1, DepthLemma DEF Quiet, Has
<1>3. o[1] \in BlockTxs(wallet.hashBlock[o[1]])
  BY <1>1, <1>2, BestLemma, TreeAssumption DEF WalletType, Has
<1>4. Matches(db.txindex, ChainTo(db.best))
  BY BestLemma DEF Quiet
<1>5. Indexed(db.txindex, o)
  <2>1. o[1] \in DOMAIN db.txindex
    BY <1>2, <1>3, <1>4 DEF Matches
  <2>2. DOMAIN db.txindex[o[1]].vSpent = 0 .. nOut[o[1]] - 1
    BY <1>2, <1>3, <1>4 DEF Matches
  <2>3. o[2] \in 0 .. nOut[o[1]] - 1
    BY <1>1, MineLemma
  <2> QED BY <2>1, <2>2, <2>3 DEF Indexed
<1> QED BY <1>1, <1>5 DEF Flagged

(* The spender of an output spent in the chain is in the chain.            *)
LEMMA SpenderLemma ==
    ASSUME NEW idx, NEW S, Matches(idx, S), NEW o \in MineOut, Indexed(idx, o),
           idx[o[1]].vSpent[o[2]] # NullPos
    PROVE  \E y \in S : \E s \in BlockTxs(y) : o \in vin[s]
<1>1. PICK x \in S : o[1] \in BlockTxs(x)
  BY DEF Matches, Indexed
<1>2. o = <<o[1], o[2]>>
  BY WalletAssumption
<1>3. \E y \in S : \E s \in Spenders(y, <<o[1], o[2]>>) : idx[o[1]].vSpent[o[2]] = <<y, s>>
  BY <1>1 DEF Matches, Indexed
<1> QED BY <1>2, <1>3 DEF Spenders

LEMMA ToldFlagged ==
    ASSUME NEW idx, NEW S, Matches(idx, S), NEW w, Told(w, S, {}),
           NEW o \in MineOut, Indexed(idx, o), idx[o[1]].vSpent[o[2]] # NullPos
    PROVE  o \in w.spent
<1>1. PICK y \in S : \E s \in BlockTxs(y) : o \in vin[s]
  BY SpenderLemma
<1> QED BY <1>1 DEF Told

-----------------------------------------------------------------------------
(* Every step keeps the invariant.                                         *)

(* Nothing changes that the invariant speaks of.                           *)
LEMMA Unmoved ==
    ASSUME WalletInv, UNCHANGED vars, UNCHANGED <<wallet, told, misled>>
    PROVE  WalletInv'
<1>1. /\ pc' = pc /\ tip' = tip /\ db' = db /\ view' = view /\ skipped' = skipped
      /\ pindexBest' = pindexBest /\ pindexNew' = pindexNew
      /\ pindexIntermediate' = pindexIntermediate
  BY DEF vars, memory, locals, history
<1>2. ASSUME NEW b \in Block PROVE Connecting(b)' <=> Connecting(b)
  BY <1>1 DEF Connecting, ConnectNext, Connects, CoinbaseRewardOK
<1>3. ToldTip' = ToldTip
  BY <1>1 DEF ToldTip
<1> QED BY <1>1, <1>2, <1>3 DEF WalletInv

(* A step of the chain that tells the wallet nothing.                      *)
LEMMA SameWallet ==
    ASSUME WalletInv, wallet' = wallet, told = 0, told' = 0, skipped \subseteq skipped',
           misled => misled', skipped' = {} /\ ~ misled' => ToldTip' = ToldTip
    PROVE  WalletInv'
<1>1. skipped' = {} => skipped = {}
  OBVIOUS
<1> QED BY <1>1 DEF WalletInv

LEMMA StepReceive ==
    ASSUME ChainInv, WalletInv, NEW t \in Tx, ReceiveTx(t)
    PROVE  WalletInv'
<1>1. /\ pc = "idle" /\ t \notin CoinStake /\ t \notin DOMAIN db.txindex
      /\ wallet' = AddToWalletIfInvolvingMe(wallet, t, NoBlock, TRUE)
      /\ pc' = pc /\ db' = db /\ tip' = tip /\ skipped' = skipped /\ misled' = misled
      /\ told' = told
  BY DEF ReceiveTx, Considered, Acceptable, IsGenerated, vars, locals, history
<1>2. told = 0
  BY <1>1 DEF WalletInv
<1>3. WalletType(wallet')
  <2>1. WalletType(wallet)
    BY DEF WalletInv
  <2>2. \A u \in BOOLEAN : WalletType(AddToWalletIfInvolvingMe(wallet, t, NoBlock, u))
    BY <2>1, TellTyped
  <2> QED BY Zenon, <1>1, <2>2
<1>4. ASSUME skipped = {}, ~ misled PROVE Follows(wallet', ChainTo(db.best), {})
  <2>1. Follows(wallet, ChainTo(db.best), {})
    BY <1>1, <1>2, <1>4 DEF WalletInv, ToldTip
  <2>2. t \notin TxsOf(ChainTo(db.best)) /\ ChainTo(db.best) \in SUBSET (Block \ {Genesis})
    BY <1>1, <1>4, BestLemma
  <2>3. Follows(AddToWalletIfInvolvingMe(wallet, t, NoBlock, TRUE), ChainTo(db.best), {})
    BY Zenon, <1>1, <2>1, <2>2, AddUnconfirmed
  <2> QED BY Zenon, <1>1, <2>3
<1> QED BY <1>1, <1>2, <1>3, <1>4 DEF WalletInv, ToldTip

LEMMA StepCommit ==
    ASSUME ChainInv, WalletInv, NEW t \in Tx, CommitTransaction(t)
    PROVE  WalletInv'
<1>1. /\ pc = "idle" /\ t \in Sent /\ vin[t] \subseteq AvailableCoins
      /\ wallet' = AddToWallet(wallet, t, NoBlock)
      /\ pc' = pc /\ db' = db /\ tip' = tip /\ skipped' = skipped /\ misled' = misled
      /\ told' = told
  BY DEF CommitTransaction, vars, locals, history
<1>2. t \notin CoinStake /\ vin[t] # {} /\ told = 0
  BY <1>1, WalletAssumption DEF IsGenerated, WalletInv
<1>3. WalletType(wallet')
  BY <1>1, TellTyped DEF WalletInv
<1>4. ASSUME skipped = {}, ~ misled PROVE Follows(wallet', ChainTo(db.best), {})
  <2>1. Follows(wallet, ChainTo(db.best), {})
    BY <1>1, <1>2, <1>4 DEF WalletInv, ToldTip
  <2>2. PICK o \in vin[t] : o \in MineOut /\ o \notin wallet.spent
    BY <1>1, <1>2 DEF AvailableCoins
  <2>3. t \notin TxsOf(ChainTo(db.best))
    BY <2>1, <2>2 DEF Follows, Told, TxsOf
  <2> QED BY <1>1, <1>2, <1>4, <2>1, <2>3, BestLemma, AddUnconfirmed
<1> QED BY <1>1, <1>2, <1>3, <1>4 DEF WalletInv, ToldTip

(* The wallet is at the committed chain.                                   *)
LEMMA SettledLemma ==
    ASSUME WalletInv, Settled, skipped = {}, ~ misled
    PROVE  told = 0 /\ ToldTip = db.best /\ Follows(wallet, ChainTo(db.best), {})
<1>1. told = 0 /\ ToldTip = db.best
  BY DEF Settled, ToldTip
<1> QED BY <1>1 DEF WalletInv

(* A pass over the wallet that leaves the chain alone.                     *)
LEMMA PassLemma ==
    ASSUME WalletInv, UNCHANGED vars, told' = told, misled' = (misled \/ ~ Settled),
           WalletType(wallet'),
           Settled /\ skipped = {} /\ ~ misled => Follows(wallet', ChainTo(db.best), {})
    PROVE  WalletInv'
<1>1. pc' = pc /\ tip' = tip /\ db' = db /\ skipped' = skipped
  BY DEF vars, locals, history
<1>2. ASSUME skipped' = {}, ~ misled'
      PROVE  told' = 0 /\ ToldTip' = db.best /\ Follows(wallet', ChainTo(db.best), {})
  <2>1. skipped = {} /\ ~ misled /\ Settled
    BY <1>1, <1>2
  <2>2. told = 0 /\ ToldTip = db.best
    BY <2>1, SettledLemma
  <2>3. ToldTip' = ToldTip
    BY <1>1 DEF ToldTip
  <2> QED BY <2>1, <2>2, <2>3
<1> QED BY <1>1, <1>2 DEF WalletInv

LEMMA StepFix ==
    ASSUME ChainInv, WalletInv, FixSpentCoins
    PROVE  WalletInv'
<1> DEFINE fixed == {t \in DOMAIN wallet.hashBlock : t \in DOMAIN db.txindex \/ IsGenerated(t)}
           erased == {t \in fixed : IsGenerated(t) /\ GetDepthInMainChain(t) <= 0}
           S == ChainTo(db.best)
<1>1. /\ UNCHANGED vars /\ told' = told /\ misled' = (misled \/ ~ Settled)
      /\ wallet' = [hashBlock |-> [t \in DOMAIN wallet.hashBlock \ erased |-> wallet.hashBlock[t]],
                    spent |-> {o \in wallet.spent : o[1] \notin fixed} \cup
                              {o \in SpentInChain : o[1] \in fixed \ erased}]
  BY DEF FixSpentCoins, poolVars
<1>2. /\ DOMAIN wallet'.hashBlock = DOMAIN wallet.hashBlock \ erased
      /\ \A t \in DOMAIN wallet.hashBlock \ erased : wallet'.hashBlock[t] = wallet.hashBlock[t]
      /\ wallet'.spent = {o \in wallet.spent : o[1] \notin fixed} \cup
                         {o \in SpentInChain : o[1] \in fixed \ erased}
      /\ wallet' = [hashBlock |-> wallet'.hashBlock, spent |-> wallet'.spent]
  BY <1>1
<1>3. erased \subseteq fixed /\ SpentInChain \subseteq MineOut
  BY DEF SpentInChain
<1>4. WalletType(wallet')
  <2> HIDE DEF fixed, erased
  <2> QED BY <1>2, <1>3 DEF WalletInv, WalletType
<1>5. ASSUME Settled, skipped = {}, ~ misled PROVE Follows(wallet', S, {})
  <2>1. WalletType(wallet) /\ Told(wallet, S, {}) /\ Claimed(wallet, S) /\ pindexBest = db.best
    BY <1>5, SettledLemma DEF Follows, Settled
  <2>2. Matches(db.txindex, S) /\ DOMAIN db.txindex = TxsOf(S)
    BY <1>5, BestLemma
  <2>3. ASSUME NEW t \in TxsOf(S), Has(wallet, t) PROVE t \in fixed /\ t \notin erased
    <3>1. PICK x \in S : t \in BlockTxs(x)
      BY DEF TxsOf
    <3>2. wallet.hashBlock[t] = x
      BY <2>1, <2>3, <3>1 DEF Told, Involved
    <3>3. GetDepthInMainChain(t) >= 1
      BY <1>5, <2>1, <2>3, <3>2, DepthLemma DEF Has
    <3>4. ~ (GetDepthInMainChain(t) <= 0)
      <4>1. GetDepthInMainChain(t) \in Int
        <5>1. wallet.hashBlock[t] \in Block /\ pindexBest \in Block
          BY <3>2, BestLemma DEF ChainInv, ControlInv, TypeOK
        <5> QED BY <5>1, TreeAssumption DEF GetDepthInMainChain
      <4> QED BY <3>3, <4>1
    <3> QED BY <2>2, <2>3, <3>4 DEF Has
  <2> HIDE DEF S, fixed, erased
  <2>4. ASSUME NEW u PROVE Has(wallet', u) <=> Has(wallet, u) /\ u \notin erased
    BY <1>2 DEF Has
  <2>5. Told(wallet', S, {})
    <3> SUFFICES ASSUME NEW x \in S, NEW t \in BlockTxs(x)
                 PROVE  /\ Involved(wallet', t) => Has(wallet', t) /\ wallet'.hashBlock[t] = x
                        /\ vin[t] \cap MineOut \subseteq wallet'.spent
      BY DEF Told
    <3>1. t \in TxsOf(S)
      BY DEF TxsOf
    <3>2. Involved(wallet, t) => Has(wallet, t) /\ wallet.hashBlock[t] = x
      BY <2>1 DEF Told
    <3>3. Involved(wallet', t) => Involved(wallet, t)
      BY <2>4 DEF Involved
    <3>4. Has(wallet, t) => Has(wallet', t) /\ wallet'.hashBlock[t] = wallet.hashBlock[t]
      BY <1>2, <2>3, <2>4, <3>1 DEF Has
    <3>5. ASSUME NEW o \in vin[t] \cap MineOut PROVE o \in wallet'.spent
      <4>1. Indexed(db.txindex, o) /\ db.txindex[o[1]].vSpent[o[2]] # NullPos
        <5>1. Indexed(db.txindex, o) /\ db.txindex[o[1]].vSpent[o[2]] = <<x, t>>
          BY <2>2 DEF Matches
        <5> QED BY <5>1, PosLemma
      <4>2. o[1] \in TxsOf(S) /\ MineOf(o[1]) # {}
        BY <2>2, <4>1, MineLemma DEF Indexed
      <4>3. Has(wallet, o[1])
        BY <2>1, <4>2 DEF Told, Involved, TxsOf
      <4>4. o[1] \in fixed \ erased
        BY <2>3, <4>2, <4>3
      <4> QED BY <1>2, <4>1, <4>4 DEF SpentInChain
    <3> QED BY <3>2, <3>3, <3>4, <3>5
  <2>6. Claimed(wallet', S)
    <3> SUFFICES ASSUME NEW o \in wallet'.spent
                 PROVE  /\ o \in MineOut /\ Has(wallet', o[1])
                        /\ \E t \in DOMAIN wallet'.hashBlock :
                              o \in vin[t] /\ (t \in CoinStake => t \in TxsOf(S))
      BY DEF Claimed
    <3>1. CASE o \in wallet.spent /\ o[1] \notin fixed
      <4>1. o \in MineOut /\ Has(wallet, o[1])
        BY <2>1, <3>1 DEF Claimed
      <4>2. PICK t \in DOMAIN wallet.hashBlock :
                o \in vin[t] /\ (t \in CoinStake => t \in TxsOf(S))
        BY <2>1, <3>1 DEF Claimed
      <4>3. t \notin erased
        <5>1. CASE t \in CoinStake
          BY <2>3, <4>2, <5>1 DEF Has
        <5>2. CASE t \notin CoinStake
          BY <4>2, <5>2 DEF erased, IsGenerated
        <5> QED BY <5>1, <5>2
      <4>4. o[1] \notin erased
        BY <1>3, <3>1
      <4> QED BY <1>2, <2>4, <4>1, <4>2, <4>3, <4>4
    <3>2. CASE o \in SpentInChain /\ o[1] \in fixed \ erased
      <4>1. o \in MineOut /\ Has(wallet', o[1])
        BY <1>3, <2>4, <3>2 DEF fixed, Has
      <4>2. PICK y \in S : \E s \in BlockTxs(y) : o \in vin[s]
        BY <2>2, <3>2, SpenderLemma DEF SpentInChain
      <4>3. PICK s \in BlockTxs(y) : o \in vin[s]
        BY <4>2
      <4>4. Has(wallet, s) /\ s \in TxsOf(S)
        BY <2>1, <4>1, <4>3 DEF Told, Involved, TxsOf
      <4>5. s \in DOMAIN wallet'.hashBlock
        BY <1>2, <2>3, <4>4 DEF Has
      <4> QED BY <4>1, <4>3, <4>4, <4>5
    <3> QED BY <1>2, <3>1, <3>2
  <2> QED BY <1>4, <2>5, <2>6 DEF Follows
<1> HIDE DEF fixed, erased, S
<1> QED BY <1>1, <1>4, <1>5, PassLemma DEF S

(* The start-up thread's pass.                                             *)
LEMMA ReacceptLemma ==
    ASSUME ChainInv, WalletInv, ReacceptWalletTransactions
    PROVE  LET w == [hashBlock |-> wallet.hashBlock, spent |-> wallet.spent \cup FoundSpent]
           IN  /\ WalletType(w)
               /\ FoundSpent = {} => wallet' = w
               /\ FoundSpent # {} => wallet' = ScanForWalletTransactions(w, 0, db.best, FALSE)
               /\ WalletType(wallet')
<1> DEFINE w == [hashBlock |-> wallet.hashBlock, spent |-> wallet.spent \cup FoundSpent]
<1>1. [wallet EXCEPT !.spent = @ \cup FoundSpent] = w
  <2>1. wallet = [hashBlock |-> wallet.hashBlock, spent |-> wallet.spent]
    BY DEF WalletInv, WalletType
  <2> DEFINE F == FoundSpent
  <2> HIDE DEF F
  <2>2. \A f, g : [[hashBlock |-> f, spent |-> g] EXCEPT !.spent = @ \cup F]
                    = [hashBlock |-> f, spent |-> g \cup F]
    OBVIOUS
  <2>3. [[hashBlock |-> wallet.hashBlock, spent |-> wallet.spent] EXCEPT !.spent = @ \cup F]
            = [hashBlock |-> wallet.hashBlock, spent |-> wallet.spent \cup F]
    BY Zenon, <2>2
  <2> QED BY Zenon, <2>1, <2>3 DEF F
<1>2. WalletType(w)
  <2>1. FoundSpent \subseteq MineOut
    BY DEF FoundSpent, SpentInChain
  <2>2. w.hashBlock = wallet.hashBlock /\ w.spent = wallet.spent \cup FoundSpent
        /\ w = [hashBlock |-> w.hashBlock, spent |-> w.spent]
    OBVIOUS
  <2> HIDE DEF w
  <2> QED BY <2>1, <2>2 DEF WalletInv, WalletType
<1>3. wallet' = IF FoundSpent = {} THEN w ELSE ScanForWalletTransactions(w, 0, db.best, FALSE)
  BY Zenon, <1>1 DEF ReacceptWalletTransactions
<1> HIDE DEF w
<1>4. WalletType(ScanForWalletTransactions(w, 0, db.best, FALSE))
  <2>1. \A u \in BOOLEAN : WalletType(ScanForWalletTransactions(w, 0, db.best, u))
    BY <1>2, BestLemma, ScanTyped
  <2> QED BY Zenon, <2>1
<1>5. WalletType(wallet')
  BY Zenon, <1>2, <1>3, <1>4
<1>6. /\ FoundSpent = {} => wallet' = w
      /\ FoundSpent # {} => wallet' = ScanForWalletTransactions(w, 0, db.best, FALSE)
  BY Zenon, <1>3
<1> QED BY Zenon, <1>2, <1>5, <1>6 DEF w

LEMMA StepReaccept ==
    ASSUME ChainInv, WalletInv, ReacceptWalletTransactions
    PROVE  WalletInv'
<1>1. UNCHANGED vars /\ told' = told /\ misled' = (misled \/ ~ Settled)
  BY DEF ReacceptWalletTransactions
<1>2. WalletType(wallet')
  BY Zenon, ReacceptLemma
<1>3. ASSUME Settled, skipped = {}, ~ misled PROVE Follows(wallet', ChainTo(db.best), {})
  <2>1. Follows(wallet, ChainTo(db.best), {}) /\ Matches(db.txindex, ChainTo(db.best))
    BY <1>3, SettledLemma, BestLemma
  <2>2. FoundSpent = {}
    <3>1. ASSUME NEW o \in FoundSpent PROVE FALSE
      <4>1. o \in MineOut /\ Indexed(db.txindex, o) /\ db.txindex[o[1]].vSpent[o[2]] # NullPos
            /\ o \notin wallet.spent
        BY <3>1 DEF FoundSpent, SpentInChain
      <4> QED BY <2>1, <4>1, ToldFlagged DEF Follows
    <3> QED BY <3>1
  <2>3. wallet' = [hashBlock |-> wallet.hashBlock, spent |-> wallet.spent \cup FoundSpent]
    BY Zenon, <2>2, ReacceptLemma
  <2>4. wallet' = wallet
    BY <2>2, <2>3 DEF WalletInv, WalletType
  <2> QED BY <2>1, <2>4
<1> QED BY <1>1, <1>2, <1>3, PassLemma

(* In ConnectBlock, told or not.                                           *)
LEMMA ConnectingLemma ==
    ASSUME ChainInv, WalletInv, NEW b \in Block, Connecting(b)
    PROVE  /\ b # Genesis /\ tip = hashPrevBlock[b] /\ told \in Nat
           /\ \A c \in Block : Connecting(c) => c = b
           /\ skipped = {} /\ ~ misled =>
                 /\ Matches(ConnectedIndex(view.txindex, b), ChainTo(b)) /\ InOrder(b)
                 /\ Follows(wallet, ChainTo(b), Later(b, told))
<1>1. b # Genesis /\ tip = hashPrevBlock[b] /\ ConnectOK(view.txindex, b) /\ told \in Nat
  BY DEF Connecting, ConnectNext, Connects, WalletInv
<1>2. ASSUME NEW c \in Block, Connecting(c) PROVE c = b
  <2>1. PICK target \in Block : ConnectNext(b, target) /\ ConnectNext(c, target)
    BY <1>2, AncestorLemma DEF Connecting, ChainInv, ControlInv, AtReorganize, AtInner
  <2> QED BY <2>1, OnlyChild DEF ConnectNext
<1>3. ASSUME skipped = {}, ~ misled
      PROVE  /\ Matches(ConnectedIndex(view.txindex, b), ChainTo(b)) /\ InOrder(b)
             /\ Follows(wallet, ChainTo(b), Later(b, told))
  <2>1. ToldTip = tip /\ Matches(view.txindex, ChainTo(tip))
    <3>1. CASE pc = "reorganize"
      BY <1>3, <3>1 DEF ToldTip, ChainInv, IndexInv
    <3>2. CASE pc = "inner"
      <4>1. db.best = tip /\ view.txindex = db.txindex
        BY <1>3, <3>2 DEF ChainInv, ControlInv, AtInner, Committed, DiskBehindMemory
      <4> QED BY <1>3, <3>2, <4>1, BestLemma DEF ToldTip
    <3> QED BY <3>1, <3>2 DEF Connecting
  <2>2. Matches(ConnectedIndex(view.txindex, b), ChainTo(b)) /\ InOrder(b)
    BY <1>1, <2>1, ConnectMatches, ConnectInOrder
  <2>3. CASE told = 0
    <3>1. Follows(wallet, ChainTo(hashPrevBlock[b]), {})
      BY <1>1, <1>3, <2>1, <2>3 DEF WalletInv
    <3> QED BY <1>1, <2>2, <2>3, <3>1, FollowsBegin
  <2>4. CASE told # 0
    BY <1>3, <2>2, <2>4 DEF WalletInv
  <2> QED BY <2>3, <2>4
<1> QED BY <1>1, <1>2, <1>3

LEMMA StepTell ==
    ASSUME ChainInv, WalletInv, NEW b \in Block, SyncWithWallets(b)
    PROVE  WalletInv'
<1> DEFINE t == vtx[b][told + 1]
<1>1. /\ Connecting(b) /\ told < Len(vtx[b]) /\ told' = told + 1 /\ misled' = misled
      /\ wallet' = AddToWalletIfInvolvingMe(wallet, t, b, TRUE)
      /\ UNCHANGED vars
  BY DEF SyncWithWallets, poolVars
<1>2. /\ b # Genesis /\ told \in Nat
      /\ \A c \in Block : Connecting(c) => c = b
      /\ skipped = {} /\ ~ misled =>
            /\ Matches(ConnectedIndex(view.txindex, b), ChainTo(b)) /\ InOrder(b)
            /\ Follows(wallet, ChainTo(b), Later(b, told))
  BY <1>1, ConnectingLemma
<1>3. told + 1 \in DOMAIN vtx[b] /\ t \in Tx /\ t \in BlockTxs(b) /\ (told + 1) - 1 = told
  <2>1. Len(vtx[b]) \in Nat /\ DOMAIN vtx[b] = 1 .. Len(vtx[b]) /\ vtx[b] \in Seq(Tx)
    BY TxAssumption
  <2>2. told + 1 \in DOMAIN vtx[b]
    BY <1>1, <1>2, <2>1
  <2> QED BY <1>2, <2>1, <2>2 DEF BlockTxs
<1>4. WalletType(wallet')
  <2>1. \A u \in BOOLEAN : WalletType(AddToWalletIfInvolvingMe(wallet, t, b, u))
    BY <1>2, <1>3, TellTyped DEF WalletInv
  <2> QED BY Zenon, <1>1, <2>1
<1>5. ASSUME skipped = {}, ~ misled PROVE Follows(wallet', ChainTo(b), Later(b, told + 1))
  <2>1. Follows(wallet, ChainTo(b), Later(b, (told + 1) - 1))
    BY <1>2, <1>3, <1>5
  <2>2. Matches(ConnectedIndex(view.txindex, b), ChainTo(b)) /\ InOrder(b)
    BY <1>2, <1>5
  <2> DEFINE idx == ConnectedIndex(view.txindex, b)
             k == told + 1
  <2>3. /\ Matches(idx, ChainTo(b)) /\ k \in DOMAIN vtx[b] /\ Follows(wallet, ChainTo(b), Later(b, k - 1))
        /\ t = vtx[b][k]
    <3>1. t = vtx[b][k] /\ k \in DOMAIN vtx[b]
      BY Zenon, <1>3
    <3>2. Matches(idx, ChainTo(b))
      BY <2>2
    <3>3. Follows(wallet, ChainTo(b), Later(b, k - 1))
      BY <2>1
    <3> QED BY Zenon, <3>1, <3>2, <3>3
  <2> HIDE DEF idx, k, t
  <2>4. Follows(AddToWalletIfInvolvingMe(wallet, vtx[b][k], b, TRUE), ChainTo(b), Later(b, k))
    BY Zenon, <1>2, <2>2, <2>3, FollowsTell
  <2> QED BY Zenon, <1>1, <2>3, <2>4 DEF k
<1>6. /\ pc' = pc /\ skipped' = skipped
      /\ \A c \in Block : Connecting(c)' => Connecting(c)
  BY <1>1 DEF vars, memory, locals, history, Connecting, ConnectNext, Connects, CoinbaseRewardOK
<1>7. pc \in {"reorganize", "inner"} /\ told' \in Nat /\ told' # 0
  BY <1>1, <1>2 DEF Connecting
<1> HIDE DEF t
<1> QED BY <1>1, <1>2, <1>4, <1>5, <1>6, <1>7 DEF WalletInv

(* ConnectBlock returns: the wallet follows the chain with the new block.  *)
LEMMA AllToldLemma ==
    ASSUME ChainInv, WalletInv, NEW b \in Block, Connecting(b), AllTold(b)
    PROVE  /\ WalletType(wallet') /\ told' = 0
           /\ skipped = {} /\ ~ misled => Follows(wallet', ChainTo(b), {})
<1>1. wallet' = wallet /\ told' = 0 /\ told = Len(vtx[b])
  BY DEF AllTold
<1>2. Later(b, told) = {}
  <2>1. Len(vtx[b]) \in Nat
    BY TxAssumption
  <2>2. told + 1 .. Len(vtx[b]) = {}
    BY <1>1, <2>1
  <2> QED BY <2>2 DEF Later
<1>3. skipped = {} /\ ~ misled => Follows(wallet, ChainTo(b), Later(b, told))
  BY ConnectingLemma
<1> QED BY <1>1, <1>2, <1>3 DEF WalletInv

LEMMA StepConnect ==
    ASSUME ChainInv, WalletInv, NEW b \in Block, ToldConnect(b)
    PROVE  WalletInv'
<1>1. /\ Connecting(b) /\ AllTold(b) /\ pc' = "reorganize" /\ tip' = b
      /\ skipped' = skipped /\ misled' = misled
  BY DEF ToldConnect, Reorganize_Connect, Connecting, history
<1>2. /\ WalletType(wallet') /\ told' = 0
      /\ skipped = {} /\ ~ misled => Follows(wallet', ChainTo(b), {})
  BY <1>1, AllToldLemma
<1> QED BY <1>1, <1>2 DEF WalletInv, ToldTip

LEMMA StepDisconnect ==
    ASSUME ChainInv, WalletInv, ToldDisconnect
    PROVE  WalletInv'
<1>1. /\ pc = "reorganize" /\ tip' = hashPrevBlock[tip] /\ pc' = pc
      /\ skipped' = skipped /\ misled' = misled /\ told = 0 /\ told' = told
      /\ wallet' = DisableTransactions(wallet, tip)
  BY DEF ToldDisconnect, Reorganize_Disconnect, Disconnecting, history
<1>2. tip \in Block \ {Genesis}
  BY TreeAssumption, AncestorLemma
  DEF ToldDisconnect, Reorganize_Disconnect, Disconnecting, ChainInv, ControlInv, TypeOK, AtReorganize
<1>3. WalletType(wallet')
  <2> DEFINE D == UNION {Debits(wallet, t) : t \in BlockTxs(tip) \cap CoinStake}
  <2>1. wallet' = [hashBlock |-> wallet.hashBlock, spent |-> wallet.spent \ D]
    BY <1>1 DEF WalletInv, WalletType, DisableTransactions
  <2> HIDE DEF D
  <2>2. /\ wallet'.hashBlock = wallet.hashBlock /\ wallet'.spent = wallet.spent \ D
        /\ wallet' = [hashBlock |-> wallet'.hashBlock, spent |-> wallet'.spent]
    BY <2>1
  <2> QED BY <2>2 DEF WalletInv, WalletType
<1>4. ASSUME skipped = {}, ~ misled PROVE Follows(wallet', ChainTo(tip'), {})
  <2>1. Follows(wallet, ChainTo(tip), {})
    BY <1>1, <1>4 DEF WalletInv, ToldTip
  <2>2. Matches(view.txindex, ChainTo(tip))
    BY <1>1, <1>4 DEF ChainInv, IndexInv
  <2> QED BY <1>1, <1>2, <2>1, <2>2, FollowsDisconnect
<1> QED BY <1>1, <1>3, <1>4 DEF WalletInv, ToldTip

LEMMA StepInner ==
    ASSUME ChainInv, WalletInv, NEW b \in Block, ToldSetBestChainInner(b)
    PROVE  WalletInv'
<1>1. /\ Connecting(b) /\ AllTold(b) /\ pc' = "inner"
      /\ skipped' = skipped /\ misled' = misled
  BY DEF ToldSetBestChainInner, PoolSetBestChainInner, SetBestChainInner, Connecting, history
<1>2. db'.best = b
  BY DEF ToldSetBestChainInner, PoolSetBestChainInner, SetBestChainInner, TxnCommit,
         ChainInv, ControlInv, Shape
<1>3. /\ WalletType(wallet') /\ told' = 0
      /\ skipped = {} /\ ~ misled => Follows(wallet', ChainTo(b), {})
  BY <1>1, AllToldLemma
<1> QED BY <1>1, <1>2, <1>3 DEF WalletInv, ToldTip

LEMMA StepCommitFault ==
    ASSUME ChainInv, WalletInv, NEW b \in Block, ToldCommitFault(b)
    PROVE  WalletInv'
<1>1. wallet' = wallet /\ told' = 0 /\ misled' = TRUE
  BY DEF ToldCommitFault, AllTold
<1> QED BY <1>1 DEF WalletInv

LEMMA StepAbort ==
    ASSUME ChainInv, WalletInv, AbortReorganize
    PROVE  WalletInv'
<1>1. /\ wallet' = wallet /\ misled' = (misled \/ tip # pindexBest) /\ told = 0 /\ told' = 0
      /\ pc = "reorganize" /\ ReorganizeFails
  BY DEF AbortReorganize, Reorganize_Invalid, Reorganize_CommitFault, Disconnecting
<1>2. db'.best = db.best /\ skipped' = skipped /\ pc' = "idle"
  BY <1>1 DEF ReorganizeFails, InvalidChainFound, Return, history, ChainInv, ControlInv, Shape
<1>3. skipped = {} => db.best = pindexBest
  BY <1>1 DEF ChainInv, ControlInv, AtReorganize, DiskBehindMemory
<1>4. (misled => misled') /\ (~ misled' => tip = pindexBest)
  BY <1>1
<1>5. skipped' = {} /\ ~ misled' => ToldTip' = ToldTip
  BY <1>1, <1>2, <1>3, <1>4 DEF ToldTip
<1> QED BY <1>1, <1>2, <1>4, <1>5, SameWallet

LEMMA StepOther ==
    ASSUME ChainInv, WalletInv, OtherChainStep
    PROVE  WalletInv'
<1>1. wallet' = wallet /\ misled' = misled /\ told = 0 /\ told' = 0
  BY DEF OtherChainStep
<1>2. skipped \subseteq skipped' /\ (skipped' = {} => ToldTip' = ToldTip)
  <2>1. ASSUME NEW b \in Block \ {Genesis}, AcceptBlock(b) \/ RefuseBlock(b)
        PROVE  skipped' = skipped /\ ToldTip' = ToldTip
    <3>1. pc = "idle" /\ pc' # "reorganize" /\ db'.best = db.best /\ skipped' = skipped
      BY <2>1 DEF AcceptBlock, RefuseBlock, Arrives, history, locals, ChainInv, ControlInv, Shape
    <3> QED BY <3>1 DEF ToldTip
  <2>2. CASE ExtendBest
    BY <2>2 DEF ExtendBest, history, ToldTip
  <2>3. CASE BeginReorganize
    <3>1. /\ pc = "begin" /\ pc' = "reorganize" /\ tip' = pindexBest /\ db' = db
          /\ skipped' = skipped
      BY <2>3 DEF BeginReorganize, history
    <3>2. skipped = {} => db.best = pindexBest
      BY <3>1 DEF ChainInv, ControlInv, AtBegin, DiskBehindMemory
    <3> QED BY <3>1, <3>2 DEF ToldTip
  <2>4. CASE SetBestChain_Done
    BY <2>4 DEF SetBestChain_Done, NewBest, Return, history, ToldTip
  <2>5. ASSUME NEW b \in Block, SetBestChainInner_Invalid(b)
        PROVE  skipped \subseteq skipped' /\ ToldTip' = ToldTip
    <3>1. pc = "inner" /\ pc' = "idle" /\ db'.best = db.best /\ skipped \subseteq skipped'
      BY <2>5 DEF SetBestChainInner_Invalid, InvalidChainFound, GiveUp, NewBest, Return,
                  ChainInv, ControlInv, Shape
    <3> QED BY <3>1 DEF ToldTip
  <2> QED BY <2>1, <2>2, <2>3, <2>4, <2>5 DEF OtherChainStep
<1> QED BY <1>1, <1>2, SameWallet

LEMMA StepReorganize ==
    ASSUME ChainInv, WalletInv, ToldReorganize
    PROVE  WalletInv'
<1>1. /\ pc = "reorganize" /\ pc' = "inner" /\ db'.best = tip /\ skipped' = skipped
      /\ wallet' = wallet /\ told = 0 /\ told' = 0 /\ misled' = misled
  BY DEF ToldReorganize, PoolReorganize, Reorganize_Commit, TxnCommit, history, ChainInv,
         ControlInv, Shape
<1>2. ToldTip' = ToldTip
  BY <1>1 DEF ToldTip
<1> QED BY <1>1, <1>2, SameWallet

LEMMA StepRestart ==
    ASSUME ChainInv, WalletInv, WalletRestart
    PROVE  WalletInv'
<1> DEFINE h == nHeight[RescanFrom(db.best)]
           w == ScanForWalletTransactions(wallet, h, db.best, TRUE)
           S == ChainTo(db.best)
<1>1. /\ wallet' = w \/ wallet' = wallet
      /\ told' = 0 /\ misled' = (misled \/ told > 0 \/ (pc = "reorganize" /\ tip # pindexBest))
  BY Zenon DEF WalletRestart
<1>2. db' = db /\ pc' = "idle" /\ skipped' = skipped
  BY DEF WalletRestart, Restart, Return, history
<1>3. WalletType(wallet')
  <2>1. WalletType(wallet)
    BY DEF WalletInv
  <2> HIDE DEF h
  <2>2. \A u \in BOOLEAN : WalletType(ScanForWalletTransactions(wallet, h, db.best, u))
    BY <2>1, BestLemma, ScanTyped
  <2> QED BY Zenon, <1>1, <2>1, <2>2
<1>4. ASSUME skipped = {}, ~ misled' PROVE Follows(wallet', S, {})
  <2>1. ~ misled /\ told = 0 /\ (pc = "reorganize" => tip = pindexBest)
    <3>1. told \in Nat
      BY DEF WalletInv
    <3>2. misled' = (misled \/ told > 0 \/ (pc = "reorganize" /\ tip # pindexBest))
      BY Zenon, <1>1
    <3>3. ~ misled /\ ~ (told > 0) /\ (pc = "reorganize" => tip = pindexBest)
      BY Zenon, <1>4, <3>2
    <3> QED BY <3>1, <3>3
  <2>2. ToldTip = db.best
    BY <1>4, <2>1 DEF ToldTip, ChainInv, ControlInv, AtReorganize, DiskBehindMemory
  <2>3. Follows(wallet, S, {})
    BY <1>4, <2>1, <2>2 DEF WalletInv
  <2>4. Matches(db.txindex, S) /\ (\A x \in S : InOrder(x)) /\ db.best \in Block
    BY <1>4, BestLemma DEF ChainInv, OrderInv
  <2>5. Follows(w, S, {})
    <3> HIDE DEF h
    <3> QED BY Zenon, <2>3, <2>4, FollowsScan
  <2> QED BY Zenon, <1>1, <2>3, <2>5
<1> HIDE DEF w, S
<1>5. skipped' = {} /\ ~ misled' => Follows(wallet', ChainTo(ToldTip'), {})
  BY <1>2, <1>4 DEF ToldTip, S
<1> QED BY <1>1, <1>2, <1>3, <1>5 DEF WalletInv

LEMMA WalletInvNext == ChainInv /\ WalletInv /\ [WalletNext]_walletVars => WalletInv'
<1> SUFFICES ASSUME ChainInv, WalletInv, [WalletNext]_walletVars PROVE WalletInv'
  OBVIOUS
<1>1. CASE UNCHANGED walletVars
  BY <1>1, Unmoved DEF walletVars, poolVars
<1>2. ASSUME NEW t, AcceptWalletTransaction(t), UNCHANGED <<wallet, bestBlock, told, misled>>
      PROVE  WalletInv'
  BY <1>2, Unmoved DEF AcceptWalletTransaction
<1>3. CASE WalletNext
  BY <1>2, <1>3, StepReceive, StepCommit, StepFix, StepTell, StepConnect, StepInner,
     StepCommitFault, StepDisconnect, StepAbort, StepReorganize, StepOther, StepRestart,
     StepReaccept DEF WalletNext
<1> QED BY <1>1, <1>3

LEMMA ChainInvNext == ChainInv /\ [WalletNext]_walletVars => ChainInv'
<1> SUFFICES ASSUME ChainInv, [WalletNext]_walletVars PROVE ChainInv'
  OBVIOUS
<1>1. [Next]_vars
  BY WalletStepIsChainStep
<1> QED BY <1>1, ControlNext, LinkNext, IndexNext, KnownNext, PathNext, OrderNext DEF ChainInv

LEMMA WalletInvInit == WalletInit => ChainInv /\ WalletInv
<1> SUFFICES ASSUME WalletInit PROVE ChainInv /\ WalletInv
  OBVIOUS
<1>1. Init
  BY DEF WalletInit, PoolInit
<1>2. ChainTo(db.best) = {} /\ db.txindex = << >> /\ DOMAIN << >> = {} /\ pc = "idle"
  BY <1>1, TreeAssumption DEF Init, ChainTo
<1>3. Matches(db.txindex, ChainTo(db.best))
  BY <1>2 DEF Matches
<1>4. LinkInv /\ KnownInv /\ PathInv /\ IndexInv /\ OrderInv
  BY <1>1, <1>2, <1>3, TreeAssumption
  DEF Init, LinkInv, LinksMatchDisk, KnownInv, PathInv, IndexInv, TxIndexMatchesChain, OrderInv
<1>5. /\ wallet = [hashBlock |-> wallet.hashBlock, spent |-> wallet.spent]
      /\ DOMAIN wallet.hashBlock = {} /\ wallet.spent = {}
  BY <1>2 DEF WalletInit
<1>6. Follows(wallet, ChainTo(db.best), {})
  BY <1>2, <1>5 DEF Follows, WalletType, Told, Claimed
<1> QED BY <1>1, <1>2, <1>4, <1>6, ControlInit
  DEF ChainInv, WalletInv, WalletInit, ToldTip, Follows

-----------------------------------------------------------------------------
(* The theorems.                                                           *)

(***************************************************************************)
(* The wallet follows SyncWithWallets, transaction by transaction: unless  *)
(* it was misled, it knows what every transaction of the chain up to the   *)
(* last one it was told of pays and spends of it, and flags no coin for a  *)
(* coinstake outside that chain.  repairwallet and the start-up thread's   *)
(* ReacceptWalletTransactions, at whatever moment, mislead it only between *)
(* what it is told of a block and that block's place in memory.            *)
(***************************************************************************)
THEOREM WalletInvCorrect == WalletSpec => [](ChainInv /\ WalletInv)
  BY WalletInvInit, ChainInvNext, WalletInvNext, PTL DEF WalletSpec

(***************************************************************************)
(* AddToWallet's merge and ConnectBlock's SyncWithWallets keep hashBlock   *)
(* of every transaction of the best chain that concerns the wallet at its  *)
(* block of the best chain, over every reorganization, and every failure,  *)
(* crash and repair that did not mislead it.                               *)
(***************************************************************************)
THEOREM WalletBlocksCorrect == WalletSpec => []WalletBlocksMatchChain
<1>1. ChainInv /\ WalletInv => WalletBlocksMatchChain
  <2> SUFFICES ASSUME ChainInv, WalletInv, Quiet, ~ misled, NEW t \in DOMAIN db.txindex,
                      MineOf(t) # {} \/ Has(wallet, t)
               PROVE  Has(wallet, t) /\ wallet.hashBlock[t] = db.txindex[t].pos[1]
    BY DEF WalletBlocksMatchChain
  <2>1. Matches(db.txindex, ChainTo(db.best)) /\ Told(wallet, ChainTo(db.best), {})
    BY BestLemma DEF Quiet, WalletInv, ToldTip, Follows
  <2>2. PICK x \in ChainTo(db.best) : t \in BlockTxs(x)
    BY <2>1 DEF Matches
  <2>3. db.txindex[t].pos[1] = x
    BY <2>1, <2>2, PosLemma DEF Matches
  <2> QED BY <2>1, <2>2, <2>3 DEF Told, Involved
<1> QED BY <1>1, WalletInvCorrect, PTL

(***************************************************************************)
(* WalletUpdateSpent, DisableTransactions and FixSpentCoins together leave *)
(* no coin of the wallet that the best chain spends on offer: what         *)
(* AvailableCoins returns is unspent in the chain.                         *)
(***************************************************************************)
THEOREM AvailableCorrect == WalletSpec => []AvailableIsUnspentInChain
<1>1. ChainInv /\ WalletInv => AvailableIsUnspentInChain
  <2> SUFFICES ASSUME ChainInv, WalletInv, Quiet, ~ misled PROVE OffersUnspent
    BY DEF AvailableIsUnspentInChain
  <2>1. Matches(db.txindex, ChainTo(db.best)) /\ Told(wallet, ChainTo(db.best), {})
    BY BestLemma DEF Quiet, WalletInv, ToldTip, Follows
  <2>2. Flagged
    BY <2>1, ToldFlagged DEF Flagged
  <2> QED BY <2>2, FlaggedOffers DEF WalletInv
<1> QED BY <1>1, WalletInvCorrect, PTL

(***************************************************************************)
(* DisableTransactions refunds what a coinstake that a reorganization took *)
(* out of the chain had staked, unless another transaction of the wallet   *)
(* spends it.                                                              *)
(***************************************************************************)
THEOREM StakeRefundCorrect == WalletSpec => []StakeIsRefunded
<1>1. ChainInv /\ WalletInv => StakeIsRefunded
  <2> SUFFICES ASSUME ChainInv, WalletInv, Quiet, ~ misled,
                      NEW s \in CoinStake \ DOMAIN db.txindex, NEW o \in Debits(wallet, s),
                      o \in wallet.spent
               PROVE  \E t \in DOMAIN wallet.hashBlock \ {s} : o \in vin[t]
    BY DEF StakeIsRefunded
  <2>1. Claimed(wallet, ChainTo(db.best)) /\ DOMAIN db.txindex = TxsOf(ChainTo(db.best))
    BY BestLemma DEF Quiet, WalletInv, ToldTip, Follows
  <2> QED BY <2>1 DEF Claimed
<1> QED BY <1>1, WalletInvCorrect, PTL

(* A coinbase pays the wallet with its first output only, a coinstake with *)
(* its second: the outputs that ReacceptWalletTransactions looks at.       *)
OneOutput ==
    \A t \in Tx : /\ vin[t] = {} => MineOf(t) \subseteq {<<t, 0>>}
                  /\ t \in CoinStake => MineOf(t) \subseteq {<<t, 1>>}

LEMMA FlagsLemma ==
    ASSUME OneOutput, ChainInv, WalletInv, NEW o \in SpentInChain, Has(wallet, o[1])
    PROVE  o \in wallet.spent \cup FoundSpent
<1>1. o \in MineOut /\ o[1] \in Tx /\ o \in MineOf(o[1])
  BY MineLemma DEF SpentInChain
<1>2. CASE ~ Skips(o[1])
  BY <1>2 DEF FoundSpent
<1>3. CASE vin[o[1]] = {} /\ <<o[1], 0>> \in wallet.spent
  <2>1. o = <<o[1], 0>>
    BY <1>1, <1>3 DEF OneOutput
  <2> QED BY <1>3, <2>1
<1>4. CASE o[1] \in CoinStake /\ <<o[1], 1>> \in wallet.spent
  <2>1. o = <<o[1], 1>>
    BY <1>1, <1>4 DEF OneOutput
  <2> QED BY <1>4, <2>1
<1> QED BY <1>2, <1>3, <1>4 DEF Skips

(* The scan that updates nothing adds to the wallet, or leaves it as it is. *)
Grows(w, r) ==
    /\ WalletType(r)
    /\ DOMAIN w.hashBlock \subseteq DOMAIN r.hashBlock
    /\ DOMAIN r.hashBlock = DOMAIN w.hashBlock => r = w

LEMMA TellGrows ==
    ASSUME NEW w, NEW v, Grows(w, v), NEW t \in Tx, NEW b \in Block \ {Genesis}, t \in BlockTxs(b),
           NEW u \in BOOLEAN, ~ u
    PROVE  Grows(w, AddToWalletIfInvolvingMe(v, t, b, u))
<1> DEFINE r == AddToWalletIfInvolvingMe(v, t, b, u)
<1>1. WalletType(v) /\ WalletType(r)
  BY TellTyped DEF Grows
<1>2. r = v \/ (~ Has(v, t) /\ r = AddToWallet(v, t, b))
  BY <1>1, InvolvingLemma
<1> HIDE DEF r
<1>3. CASE r = v
  BY <1>3 DEF r
<1>4. CASE ~ Has(v, t) /\ r = AddToWallet(v, t, b)
  <2>1. DOMAIN r.hashBlock = DOMAIN v.hashBlock \cup {t} /\ t \notin DOMAIN v.hashBlock
    BY <1>1, <1>4, AddLemma DEF Has
  <2> QED BY <1>1, <2>1 DEF Grows, r
<1> QED BY <1>2, <1>3, <1>4

LEMMA BlockGrows ==
    ASSUME NEW w, NEW v, Grows(w, v), NEW b \in Block \ {Genesis}, NEW u \in BOOLEAN, ~ u
    PROVE  Grows(w, ScanBlock(v, b, u))
<1> DEFINE f == ToldTo(v, b, u)
           n == Len(vtx[b])
           G == {k \in Nat : k <= n => Grows(w, f[k])}
<1>1. /\ ScanBlock(v, b, u) = f[n] /\ f[0] = v
      /\ \A k \in 1 .. n : f[k] = AddToWalletIfInvolvingMe(f[k - 1], vtx[b][k], b, u)
  BY BlockUnfold
<1>2. n \in Nat /\ \A k \in 1 .. n : vtx[b][k] \in Tx /\ vtx[b][k] \in BlockTxs(b)
  BY TxAssumption DEF BlockTxs
<1> HIDE DEF f, n
<1>3. ASSUME NEW k \in 1 .. n, k - 1 \in G PROVE k \in G
  <2>1. k \in Nat /\ k - 1 <= n
    BY <1>2
  <2>2. Grows(w, f[k - 1])
    BY <1>3, <2>1
  <2>3. Grows(w, f[k])
    BY <1>1, <1>2, <2>2, TellGrows
  <2> QED BY <2>1, <2>3
<1>4. 0 \in G /\ G \in SUBSET Nat
  BY <1>1
<1>5. n \in G
  <2> HIDE DEF G
  <2> QED BY <1>2, <1>3, <1>4, CountUp
<1> QED BY <1>1, <1>2, <1>5

LEMMA ScanGrows ==
    ASSUME NEW w, WalletType(w), NEW h, NEW u \in BOOLEAN, ~ u, NEW best \in Block
    PROVE  Grows(w, ScanForWalletTransactions(w, h, best, u))
<1> DEFINE f == ScanOf(w, h, best, u)
           G == {b \in Ancestors[best] : Grows(w, f[b])}
<1>1. IsScan(f, w, h, u, Ancestors[best])
  BY ScanUnfold
<1>2. Grows(w, w)
  BY DEF Grows
<1> HIDE DEF f
<1>3. Genesis \in G
  BY <1>1, <1>2, ScanStep, TreeAssumption
<1>4. ASSUME NEW x \in Ancestors[best] \ {Genesis}, hashPrevBlock[x] \in G PROVE x \in G
  <2>1. x \in Block \ {Genesis} /\ Grows(w, f[hashPrevBlock[x]])
    BY <1>4, AncestorLemma
  <2>2. f[x] = w \/ f[x] = ScanBlock(f[hashPrevBlock[x]], x, u)
    BY <1>1, ScanStep
  <2> QED BY <1>2, <2>1, <2>2, BlockGrows
<1>5. best \in G
  <2> HIDE DEF G
  <2> QED BY <1>3, <1>4, ClimbUp
<1> QED BY <1>5, ScanUnfold DEF f

(* What the last pass of the start-up thread leaves.                       *)
LEMMA ReacceptFlags ==
    ASSUME OneOutput, ChainInv, WalletInv, ReacceptWalletTransactions, ~ fReaccept'
    PROVE  Flagged'
<1> DEFINE w == [hashBlock |-> wallet.hashBlock, spent |-> wallet.spent \cup FoundSpent]
<1>1. /\ WalletType(w) /\ w.hashBlock = wallet.hashBlock /\ w.spent = wallet.spent \cup FoundSpent
      /\ FoundSpent = {} => wallet' = w
      /\ FoundSpent # {} => wallet' = ScanForWalletTransactions(w, 0, db.best, FALSE)
  <2>1. /\ WalletType(w)
        /\ FoundSpent = {} => wallet' = w
        /\ FoundSpent # {} => wallet' = ScanForWalletTransactions(w, 0, db.best, FALSE)
    BY Zenon, ReacceptLemma
  <2>2. w.hashBlock = wallet.hashBlock /\ w.spent = wallet.spent \cup FoundSpent
    OBVIOUS
  <2> HIDE DEF w
  <2> QED BY Zenon, <2>1, <2>2
<1> HIDE DEF w
<1>2. DOMAIN wallet'.hashBlock = DOMAIN w.hashBlock
  BY <1>1 DEF ReacceptWalletTransactions
<1>3. Grows(w, ScanForWalletTransactions(w, 0, db.best, FALSE))
  <2>1. \A u \in BOOLEAN : ~ u => Grows(w, ScanForWalletTransactions(w, 0, db.best, u))
    BY <1>1, BestLemma, ScanGrows
  <2> QED BY Zenon, <2>1
<1>4. wallet' = w
  BY Zenon, <1>1, <1>2, <1>3 DEF Grows
<1>5. db' = db
  BY DEF ReacceptWalletTransactions, vars
<1>6. ASSUME NEW o \in MineOut, Has(w, o[1]), Indexed(db.txindex, o),
             db.txindex[o[1]].vSpent[o[2]] # NullPos
      PROVE  o \in w.spent
  <2>1. o \in SpentInChain /\ Has(wallet, o[1])
    BY <1>1, <1>6 DEF SpentInChain, Has
  <2> QED BY <1>1, <2>1, FlagsLemma
<1> QED BY <1>4, <1>5, <1>6 DEF Flagged

LEMMA FixFlags ==
    ASSUME FixSpentCoins
    PROVE  Flagged'
<1> DEFINE fixed == {t \in DOMAIN wallet.hashBlock : t \in DOMAIN db.txindex \/ IsGenerated(t)}
           erased == {t \in fixed : IsGenerated(t) /\ GetDepthInMainChain(t) <= 0}
<1>1. /\ DOMAIN wallet'.hashBlock = DOMAIN wallet.hashBlock \ erased
      /\ wallet'.spent = {o \in wallet.spent : o[1] \notin fixed} \cup
                         {o \in SpentInChain : o[1] \in fixed \ erased}
  BY DEF FixSpentCoins
<1>2. db' = db
  BY DEF FixSpentCoins, poolVars, vars
<1>3. ASSUME NEW o \in MineOut, Has(wallet', o[1]), Indexed(db.txindex, o),
             db.txindex[o[1]].vSpent[o[2]] # NullPos
      PROVE  o \in wallet'.spent
  <2>1. o[1] \in DOMAIN wallet.hashBlock /\ o[1] \notin erased
    BY <1>1, <1>3 DEF Has
  <2>2. o[1] \in fixed /\ o \in SpentInChain
    BY <1>3, <2>1 DEF Indexed, SpentInChain
  <2> HIDE DEF fixed, erased
  <2> QED BY <1>1, <2>1, <2>2
<1> QED BY <1>2, <1>3 DEF Flagged

(***************************************************************************)
(* The last pass of ReacceptWalletTransactions after a restart, and        *)
(* FixSpentCoins, run between two blocks, leave only coins on offer that   *)
(* are unspent in the chain, however the wallet was misled before.         *)
(***************************************************************************)
THEOREM RepairsCorrect == OneOutput => (WalletSpec => RepairsSpent)
<1> SUFFICES ASSUME OneOutput PROVE WalletSpec => RepairsSpent
  OBVIOUS
<1> DEFINE Repair == \/ ReacceptWalletTransactions /\ ~ fReaccept'
                     \/ FixSpentCoins
<1>1. ASSUME ChainInv, WalletInv, ChainInv', WalletInv', Repair, Quiet PROVE OffersUnspent'
  <2>1. Flagged'
    BY <1>1, ReacceptFlags, FixFlags
  <2>2. WalletType(wallet)' /\ Quiet'
    BY <1>1 DEF WalletInv, Quiet, ReacceptWalletTransactions, FixSpentCoins, poolVars, vars,
                locals, history
  <2>3. (ChainInv /\ WalletType(wallet) /\ Quiet /\ Flagged => OffersUnspent)'
    BY FlaggedOffers, PTL
  <2> QED BY <1>1, <2>1, <2>2, <2>3
<1>2. ChainInv /\ WalletInv /\ ChainInv' /\ WalletInv' /\ [WalletNext]_walletVars =>
        [Repair /\ Quiet => OffersUnspent']_walletVars
  BY <1>1
<1> QED BY <1>2, WalletInvCorrect, PTL DEF WalletSpec, RepairsSpent
=============================================================================
