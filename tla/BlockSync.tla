----------------------------- MODULE BlockSync -----------------------------
(***************************************************************************)
(* Block download: a node that is behind, the client, fetches the best     *)
(* chain of a peer, the server, with the messages getblocks, inv, getdata  *)
(* and block.  Both run the message handlers of main.cpp and the           *)
(* SendMessages loop; the module shows the sending half of one and the     *)
(* asking half of the other.  The connection is a TCP stream: messages     *)
(* arrive in order or the connection breaks and a new one is made.         *)
(*                                                                         *)
(* A block is its height on the server's chain: the client has the blocks  *)
(* up to nBest and holds others as orphans (module OrphanBlocks has forks  *)
(* and blocks that fail).  The client has no other peer, and announces     *)
(* nothing to the server that it has from it (AddInventoryKnown).          *)
(***************************************************************************)
EXTENDS Integers, Sequences, FiniteSets, SequencesExt

CONSTANTS
    MaxHeight,          \* bound: the height the server's chain may reach
    StartHeight,        \* height of the server's chain in the beginning
    PowBlock,           \* the proof-of-work blocks, the genesis block included
    nBlockEstimate,     \* Checkpoints::GetTotalBlocksEstimate
    nLimit,             \* blocks announced per getblocks (1500)
    nInvMax,            \* entries per inv and getdata message (1000)
    nKnownMax,          \* size of setInventoryKnown (1000 by default)
    MaxFault            \* bound: requests repeated before the answer came, and
                        \* broken connections

ASSUME SyncAssumption ==
    /\ StartHeight \in 0 .. MaxHeight
    /\ PowBlock \subseteq 0 .. MaxHeight /\ 0 \in PowBlock
    /\ {nLimit, nInvMax, nKnownMax} \subseteq Nat \ {0}
    /\ {nBlockEstimate, MaxFault} \subseteq Nat

VARIABLES
    nBest,              \* client: pindexBest; mapBlockIndex is 0 .. nBest
    mapOrphanBlocks,
    mapAlreadyAskedFor, \* the blocks with an entry; it outlives connections
    mapAskFor,          \* requests that are due, in order
    mapAskLater,        \* requests of mapAskFor for two minutes from now
    lastGetBlocks,      \* pindexLastGetBlocksBegin, hashLastGetBlocksEnd
    toServer,
    nTip,               \* server: height of its best chain
    setInventoryKnown,  \* the queue of the mruset, oldest first
    vInventoryToSend,
    hashContinue,       \* 0 if none
    toClient,
    nSlow, nDisconnect

client == <<nBest, mapOrphanBlocks, mapAlreadyAskedFor, mapAskFor, mapAskLater, lastGetBlocks>>
server == <<nTip, setInventoryKnown, vInventoryToSend, hashContinue>>
faults == <<nSlow, nDisconnect>>
syncVars == <<client, toServer, server, toClient, faults>>

NoHash == 0         \* uint256(0); the genesis block is never asked for

GetBlocks(begin, end) == [type |-> "getblocks", begin |-> begin, end |-> end]
Inv(s) == [type |-> "inv", inv |-> s]
GetData(s) == [type |-> "getdata", inv |-> s]
BlockMsg(b) == [type |-> "block", block |-> b]

(* A vector in parts of nInvMax entries, one per message.                  *)
Batches(s) ==
    [k \in 1 .. (Len(s) + nInvMax - 1) \div nInvMax |->
        SubSeq(s, (k - 1) * nInvMax + 1, IF k * nInvMax < Len(s) THEN k * nInvMax ELSE Len(s))]

-----------------------------------------------------------------------------
(* The client.                                                             *)

AlreadyHave(b) == b <= nBest \/ b \in mapOrphanBlocks

(* The first block of the chain of held blocks that ends in b.             *)
GetOrphanRoot(held, b) ==
    CHOOSE r \in 1 .. b : r .. b \subseteq held /\ r - 1 \notin held

WantedByOrphan(held, b) == GetOrphanRoot(held, b) - 1

(* r: what getblocks was sent last on this connection, what is sent now.   *)
PushGetBlocks(r, begin, end) ==
    IF r.last = <<begin, end>> THEN r
    ELSE [last |-> <<begin, end>>, out |-> Append(r.out, GetBlocks(begin, end))]

NothingPushed == [last |-> lastGetBlocks, out |-> << >>]

SetPushed(r) == lastGetBlocks' = r.last /\ toServer' = toServer \o r.out

(* Mutant: at once, asked for before or not.                               *)
AskFor_AtOnce(asked, s) ==
    /\ mapAskFor' = mapAskFor \o s
    /\ UNCHANGED mapAskLater
    /\ mapAlreadyAskedFor' = asked \cup ToSet(s)

(* AskFor for every block of s: at once, or two minutes after the last     *)
(* request for the same block.                                             *)
AskFor(asked, s) ==
    /\ mapAskFor' = mapAskFor \o SelectSeq(s, LAMBDA b : b \notin asked)
    /\ mapAskLater' = mapAskLater \cup (ToSet(s) \cap asked)
    /\ mapAlreadyAskedFor' = asked \cup ToSet(s)

(* Below the estimate always; above it, for ten seconds after a new best   *)
(* block that is a day old.                                                *)
IsInitialBlockDownload == IF nBest < nBlockEstimate THEN {TRUE} ELSE BOOLEAN

(* The getblocks of the inv handler: for a held block, up to its root; for *)
(* the last block of the message if it is in the index, from there.        *)
InvPushes(s) ==
    FoldLeft(LAMBDA r, k :
                IF s[k] \in mapOrphanBlocks
                THEN PushGetBlocks(r, nBest, GetOrphanRoot(mapOrphanBlocks, s[k]))
                ELSE IF s[k] <= nBest /\ k = Len(s) THEN PushGetBlocks(r, s[k], NoHash)
                ELSE r,
             NothingPushed, [k \in DOMAIN s |-> k])

Receives(channel, type) == channel # << >> /\ Head(channel).type = type

ReceiveInv ==
    /\ Receives(toClient, "inv")
    /\ LET s == Head(toClient).inv
       IN  /\ AskFor(mapAlreadyAskedFor, SelectSeq(s, LAMBDA b : ~ AlreadyHave(b)))
           /\ SetPushed(InvPushes(s))
    /\ toClient' = Tail(toClient)
    /\ UNCHANGED <<nBest, mapOrphanBlocks, server, faults>>

(* ProcessBlock fails; after ten seconds without a new best block the      *)
(* client asks for more.                                                   *)
ReceiveBlock_Known ==
    /\ Receives(toClient, "block") /\ AlreadyHave(Head(toClient).block)
    /\ SetPushed(NothingPushed) \/ SetPushed(PushGetBlocks(NothingPushed, nBest, NoHash))
    /\ toClient' = Tail(toClient)
    /\ UNCHANGED <<nBest, mapOrphanBlocks, mapAlreadyAskedFor, mapAskFor, mapAskLater,
                   server, faults>>

(* Mutant: what is missing before the held block is not asked for.         *)
OrphanPushes_None(held, b) == NothingPushed

OrphanPushes(held, b) == PushGetBlocks(NothingPushed, nBest, GetOrphanRoot(held, b))

(* The block is held; its handler then forgets that it was asked for.      *)
ReceiveBlock_Orphan ==
    /\ Receives(toClient, "block")
    /\ LET b == Head(toClient).block
           held == mapOrphanBlocks \cup {b}
       IN  /\ ~ AlreadyHave(b) /\ b > nBest + 1
           /\ mapOrphanBlocks' = held
           /\ SetPushed(OrphanPushes(held, b))
           /\ \E ibd \in IsInitialBlockDownload :
                 AskFor(mapAlreadyAskedFor \ {b},
                        IF ibd THEN << >> ELSE <<WantedByOrphan(held, b)>>)
    /\ toClient' = Tail(toClient)
    /\ UNCHANGED <<nBest, server, faults>>

(* The block is accepted, and the held blocks that follow it.              *)
ReceiveBlock_Accept ==
    /\ Receives(toClient, "block") /\ Head(toClient).block = nBest + 1
    /\ nBest' = CHOOSE m \in nBest + 1 .. MaxHeight :
                    nBest + 2 .. m \subseteq mapOrphanBlocks /\ m + 1 \notin mapOrphanBlocks
    /\ mapOrphanBlocks' = mapOrphanBlocks \ (1 .. nBest')
    /\ mapAlreadyAskedFor' = mapAlreadyAskedFor \ {nBest + 1}
    /\ toClient' = Tail(toClient)
    /\ UNCHANGED <<mapAskFor, mapAskLater, lastGetBlocks, toServer, server, faults>>

(* SendMessages: the requests that are due and not yet answered.           *)
SendGetData ==
    /\ mapAskFor # << >>
    /\ LET s == SelectSeq(mapAskFor, LAMBDA b : ~ AlreadyHave(b))
           parts == Batches(s)
       IN  /\ toServer' = toServer \o [k \in DOMAIN parts |-> GetData(parts[k])]
           /\ mapAlreadyAskedFor' = mapAlreadyAskedFor \cup ToSet(s)
    /\ mapAskFor' = << >>
    /\ UNCHANGED <<nBest, mapOrphanBlocks, mapAskLater, lastGetBlocks, server, toClient,
                   faults>>

(* A request for b or its answer is under way.                             *)
InFlight(b) ==
    \/ b \in ToSet(mapAskFor)
    \/ \E k \in DOMAIN toServer :
          toServer[k].type = "getdata" /\ b \in ToSet(toServer[k].inv)
    \/ \E k \in DOMAIN toClient : toClient[k] = BlockMsg(b)

TwoMinutesLater ==
    /\ \E b \in mapAskLater :
          /\ mapAskLater' = mapAskLater \ {b}
          /\ mapAskFor' = Append(mapAskFor, b)
          /\ nSlow' = IF InFlight(b) THEN nSlow + 1 ELSE nSlow
    /\ nSlow' + nDisconnect <= MaxFault
    /\ UNCHANGED <<nBest, mapOrphanBlocks, mapAlreadyAskedFor, lastGetBlocks, toServer,
                   server, toClient, nDisconnect>>

-----------------------------------------------------------------------------
(* The server.                                                             *)

(* mruset::insert.                                                         *)
InsertKnown(known, b) ==
    IF b \in ToSet(known) THEN known
    ELSE Append(IF Len(known) = nKnownMax THEN Tail(known) ELSE known, b)

PushInventory(s) ==
    vInventoryToSend' =
        vInventoryToSend \o SelectSeq(s, LAMBDA b : b \notin ToSet(setInventoryKnown))

(* Mutant: the block at which the announcement stopped is not remembered.  *)
Continue_Never(b) == hashContinue

Continue(b) == b

(* The blocks after begin, to the stop block, the limit or the end of the  *)
(* chain.  When it stops, the best block may be announced too (it may if   *)
(* the stop block is young enough).                                        *)
ReceiveGetBlocks ==
    /\ Receives(toServer, "getblocks")
    /\ LET begin == Head(toServer).begin
           end == Head(toServer).end
           limit == begin + nLimit
       IN  IF end \in begin + 1 .. nTip /\ end <= limit
           THEN /\ \E young \in BOOLEAN :
                      PushInventory([k \in 1 .. end - 1 - begin |-> begin + k]
                                    \o IF end # nTip /\ young THEN <<nTip>> ELSE << >>)
                /\ UNCHANGED hashContinue
           ELSE IF limit <= nTip
           THEN /\ PushInventory([k \in 1 .. nLimit |-> begin + k])
                /\ hashContinue' = Continue(limit)
           ELSE /\ PushInventory([k \in 1 .. nTip - begin |-> begin + k])
                /\ UNCHANGED hashContinue
    /\ toServer' = Tail(toServer)
    /\ UNCHANGED <<client, nTip, setInventoryKnown, toClient, faults>>

(* GetLastBlockIndex(pindexBest, false).                                   *)
LastPow == CHOOSE p \in PowBlock \cap 0 .. nTip : \A q \in PowBlock \cap 0 .. nTip : q <= p

(* Every block asked for; after the one remembered, an inv that is to make *)
(* the client ask for the next blocks.                                     *)
ReceiveGetData ==
    /\ Receives(toServer, "getdata")
    /\ LET s == Head(toServer).inv
       IN  /\ toClient' = toClient \o
                 FlattenSeq([k \in DOMAIN s |->
                    IF s[k] = hashContinue THEN <<BlockMsg(s[k]), Inv(<<LastPow>>)>>
                    ELSE <<BlockMsg(s[k])>>])
           /\ hashContinue' = IF hashContinue \in ToSet(s) THEN NoHash ELSE hashContinue
    /\ toServer' = Tail(toServer)
    /\ UNCHANGED <<client, nTip, setInventoryKnown, vInventoryToSend, faults>>

(* SendMessages: what the client does not know, each once.                 *)
SendInv ==
    /\ vInventoryToSend # << >>
    /\ LET r == FoldLeft(LAMBDA q, b :
                    IF b \in ToSet(q.known) THEN q
                    ELSE [known |-> InsertKnown(q.known, b), inv |-> Append(q.inv, b)],
                    [known |-> setInventoryKnown, inv |-> << >>], vInventoryToSend)
           parts == Batches(r.inv)
       IN  /\ setInventoryKnown' = r.known
           /\ toClient' = toClient \o [k \in DOMAIN parts |-> Inv(parts[k])]
    /\ vInventoryToSend' = << >>
    /\ UNCHANGED <<client, toServer, nTip, hashContinue, faults>>

(* A new best block is announced to every peer.                            *)
NewBlock ==
    /\ nTip < MaxHeight
    /\ nTip' = nTip + 1
    /\ PushInventory(<<nTip + 1>>)
    /\ UNCHANGED <<client, toServer, setInventoryKnown, hashContinue, toClient, faults>>

-----------------------------------------------------------------------------
(* The connection breaks and is made anew: both ends start with a new      *)
(* CNode, and the version message makes the client ask for blocks.         *)
Reconnect ==
    /\ nSlow + nDisconnect < MaxFault /\ nDisconnect' = nDisconnect + 1
    /\ mapAskFor' = << >> /\ mapAskLater' = {}
    /\ lastGetBlocks' = <<nBest, NoHash>>
    /\ toServer' = <<GetBlocks(nBest, NoHash)>> /\ toClient' = << >>
    /\ setInventoryKnown' = << >> /\ vInventoryToSend' = << >> /\ hashContinue' = NoHash
    /\ UNCHANGED <<nBest, mapOrphanBlocks, mapAlreadyAskedFor, nTip, nSlow>>

SyncInit ==
    /\ nBest = 0 /\ mapOrphanBlocks = {}
    /\ mapAlreadyAskedFor = {} /\ mapAskFor = << >> /\ mapAskLater = {}
    /\ lastGetBlocks = <<0, NoHash>>
    /\ toServer = <<GetBlocks(0, NoHash)>> /\ toClient = << >>
    /\ nTip = StartHeight
    /\ setInventoryKnown = << >> /\ vInventoryToSend = << >> /\ hashContinue = NoHash
    /\ nSlow = 0 /\ nDisconnect = 0

ClientReceives ==
    ReceiveInv \/ ReceiveBlock_Known \/ ReceiveBlock_Orphan \/ ReceiveBlock_Accept

ServerReceives == ReceiveGetBlocks \/ ReceiveGetData

SyncNext ==
    \/ ClientReceives \/ SendGetData
    \/ TwoMinutesLater
    \/ ServerReceives \/ SendInv
    \/ NewBlock
    \/ Reconnect

(* What a step of SendInv does to vInventoryToSend: TLC decides ENABLED    *)
(* SendInv too slowly.  (Reconnect also empties it, finitely often.)       *)
InventorySent == vInventoryToSend # << >> /\ vInventoryToSend' = << >>

(* The message loops of both nodes run, time passes; nobody promises new   *)
(* blocks or broken connections.                                           *)
SyncFairness ==
    /\ WF_syncVars(ClientReceives) /\ WF_syncVars(SendGetData)
    /\ WF_syncVars(TwoMinutesLater)
    /\ WF_syncVars(ServerReceives) /\ WF_vInventoryToSend(InventorySent)

SyncSpec == SyncInit /\ [][SyncNext]_syncVars /\ SyncFairness
-----------------------------------------------------------------------------
(* Properties.                                                             *)

(* Messages, announcements or requests are under way.                      *)
Busy ==
    \/ toServer # << >> \/ toClient # << >>
    \/ vInventoryToSend # << >> \/ mapAskFor # << >>

(***************************************************************************)
(* The comment of getblocks: "When this block is requested, we'll send an  *)
(* inv that'll make them getblocks the next batch of inventory": the       *)
(* exchange never falls silent before the client has the whole chain.      *)
(***************************************************************************)
NeverStalls == ~ Busy /\ mapAskLater = {} => nBest = nTip

(* The requests for b that are sent and not yet answered.                  *)
Requests(b) ==
    Cardinality({k \in DOMAIN toServer :
          toServer[k].type = "getdata" /\ b \in ToSet(toServer[k].inv)})
    + Cardinality({k \in DOMAIN toClient : toClient[k] = BlockMsg(b)})

(***************************************************************************)
(* Unless an answer takes more than two minutes, at most one request for a *)
(* block is under way, and none once the client has the block, although    *)
(* announcements, held blocks and a new connection all make the client ask *)
(* for it and mapAlreadyAskedFor forgets a block when it comes.            *)
(***************************************************************************)
AskedOnce ==
    nSlow = 0 => \A b \in 1 .. MaxHeight :
        Requests(b) <= IF AlreadyHave(b) THEN 0 ELSE 1

(***************************************************************************)
(* On one connection the client reaches the server's last proof-of-work    *)
(* block, however many batches it takes, whatever is announced or late in  *)
(* between: until then every batch brings the announcement that leads to   *)
(* the next.                                                               *)
(***************************************************************************)
ReachesLastPow == [](nDisconnect = 0) => <>[](nBest >= LastPow)

(* An announcement of b is on its way to the client.                       *)
Announced(b) ==
    \/ b \in ToSet(vInventoryToSend) \ ToSet(setInventoryKnown)
    \/ \E k \in DOMAIN toClient : toClient[k].type = "inv" /\ b \in ToSet(toClient[k].inv)

(***************************************************************************)
(* An announcement of a block the client does not have yet lets it         *)
(* advance, also when the download had fallen silent.                      *)
(***************************************************************************)
AnnouncementAdvances ==
    \A h \in 0 .. MaxHeight - 1 :
        (nBest = h /\ \E b \in h + 1 .. MaxHeight : Announced(b)) ~> (nBest > h)
=============================================================================
