----------------------------- MODULE BlockDownload -----------------------------
(***************************************************************************)
(* The download of blocks (main.cpp): what the node knows of each peer     *)
(* (CNodeState), which blocks are in flight from whom, and how SendMessages*)
(* starts the synchronisation, hands out blocks, and gives up on peers     *)
(* that stall or do not answer.  Everything happens under cs_main.         *)
(*                                                                         *)
(* Work is height.  Timers are not counted: for a peer that is not Good a  *)
(* timer that runs may have run out at any call; Good peers answer within  *)
(* BLOCK_STALLING_TIMEOUT and stay connected.  The node is in its initial  *)
(* download, so that pindexBestHeader is old.                              *)
(***************************************************************************)
EXTENDS Integers, FiniteSets

CONSTANTS
    Peers, Good,
    Preferred,     \* outbound or whitelisted peers
    Holds,         \* the tip of the chain of a peer
    Blocks, Genesis, NULL, pprev, Ancestors, nHeight,
    Refused,       \* blocks that ContextualCheckBlock finds invalid
    stake,         \* GetProofOfStake of a block
    MAX_BLOCKS_IN_TRANSIT_PER_PEER, BLOCK_DOWNLOAD_WINDOW,
    MaxConnects    \* bound: how often a peer connects

ASSUME PeerAssumption ==
    /\ IsFiniteSet(Peers) /\ IsFiniteSet(Blocks)
    /\ Good \subseteq Peers /\ Preferred \subseteq Peers /\ NULL \notin Peers
    /\ Holds \in [Peers -> Blocks]
    /\ \A p \in Good : Ancestors[Holds[p]] \cap Refused = {}
    /\ MAX_BLOCKS_IN_TRANSIT_PER_PEER \in Nat \ {0}
    /\ BLOCK_DOWNLOAD_WINDOW \in Nat \ {0}
    /\ MaxConnects \in Nat

ASSUME HeaderAssumption ==
    /\ Genesis \in Blocks /\ NULL \notin Blocks
    /\ pprev \in [Blocks -> Blocks \cup {NULL}]
    /\ nHeight \in [Blocks -> Nat]
    /\ Ancestors \in [Blocks -> SUBSET Blocks]
    /\ Ancestors[Genesis] = {Genesis}
    /\ \A b \in Blocks : b \in Ancestors[b] /\ Genesis \in Ancestors[b]
    /\ \A b \in Blocks \ {Genesis} :
          pprev[b] \in Blocks /\ Ancestors[b] = Ancestors[pprev[b]] \cup {b}
    /\ \A b \in Blocks : \A a \in Ancestors[b] : Ancestors[a] \subseteq Ancestors[b]

VARIABLES
    mapBlockIndex,      \* blocks whose header is known
    have,               \* ... and whose data is stored
    failed,             \* ... or was found invalid
    tip,                \* chainActive.Tip()
    nodes,              \* the peers in mapNodeState
    pindexBestKnownBlock, hashLastUnknownBlock, pindexLastCommonBlock,
    fSyncStarted, nStallingSince, vBlocksInFlight,   \* CNodeState, by peer
    fDisconnect,        \* peers that SendMessages has given up
    mapBlocksInFlight,  \* the peer a block is in flight from
    nQueuedValidatedHeaders, nSyncStarted, nPreferredDownload,
    connects

indexVars == <<mapBlockIndex, have, failed, tip>>
knownVars == <<pindexBestKnownBlock, hashLastUnknownBlock, pindexLastCommonBlock>>
flightVars == <<nStallingSince, vBlocksInFlight, mapBlocksInFlight, nQueuedValidatedHeaders>>
connVars == <<nodes, fDisconnect, connects, nPreferredDownload>>
syncVars == <<fSyncStarted, nSyncStarted>>
vars == <<indexVars, knownVars, flightVars, connVars, syncVars>>

Maybe(S) == S \cup {NULL}

TypeOK ==
    /\ mapBlockIndex \subseteq Blocks /\ have \subseteq mapBlockIndex
    /\ failed \subseteq mapBlockIndex /\ tip \in have
    /\ nodes \subseteq Peers /\ fDisconnect \subseteq nodes
    /\ fSyncStarted \subseteq nodes /\ nStallingSince \subseteq nodes
    /\ pindexBestKnownBlock \in [Peers -> Maybe(mapBlockIndex)]
    /\ hashLastUnknownBlock \in [Peers -> Maybe(Blocks)]
    /\ pindexLastCommonBlock \in [Peers -> Maybe(mapBlockIndex)]
    /\ vBlocksInFlight \in [Peers -> SUBSET mapBlockIndex]
    /\ mapBlocksInFlight \in [Blocks -> Maybe(Peers)]
    /\ nQueuedValidatedHeaders \in Nat
    /\ nSyncStarted \in 0..Cardinality(Peers)
    /\ nPreferredDownload \in 0..Cardinality(Peers)
    /\ connects \in [Peers -> 0..MaxConnects]

Init ==
    /\ mapBlockIndex = {Genesis} /\ have = {Genesis} /\ failed = {} /\ tip = Genesis
    /\ nodes = {} /\ fDisconnect = {} /\ fSyncStarted = {} /\ nStallingSince = {}
    /\ pindexBestKnownBlock = [p \in Peers |-> NULL]
    /\ hashLastUnknownBlock = [p \in Peers |-> NULL]
    /\ pindexLastCommonBlock = [p \in Peers |-> NULL]
    /\ vBlocksInFlight = [p \in Peers |-> {}]
    /\ mapBlocksInFlight = [b \in Blocks |-> NULL]
    /\ nQueuedValidatedHeaders = 0 /\ nSyncStarted = 0 /\ nPreferredDownload = 0
    /\ connects = [p \in Peers |-> 0]

-----------------------------------------------------------------------------
(* Peers come and go. *)

One(b) == IF b THEN 1 ELSE 0

\* InitializeNode, and UpdatePreferredDownload of the version message.
InitializeNode(p) ==
    /\ p \notin nodes
    /\ connects[p] < MaxConnects
    /\ connects' = [connects EXCEPT ![p] = @ + 1]
    /\ nodes' = nodes \cup {p}
    /\ nPreferredDownload' = nPreferredDownload + One(p \in Preferred)
    /\ pindexBestKnownBlock' = [pindexBestKnownBlock EXCEPT ![p] = NULL]
    /\ hashLastUnknownBlock' = [hashLastUnknownBlock EXCEPT ![p] = NULL]
    /\ pindexLastCommonBlock' = [pindexLastCommonBlock EXCEPT ![p] = NULL]
    /\ vBlocksInFlight' = [vBlocksInFlight EXCEPT ![p] = {}]
    /\ UNCHANGED <<indexVars, fDisconnect, syncVars, nStallingSince, mapBlocksInFlight,
                   nQueuedValidatedHeaders>>

\* Mutants of FinalizeNode: the sync count and the map of blocks are forgotten.
FinalizeStillSyncing(p) ==
    /\ p \in nodes
    /\ p \in fDisconnect \/ p \notin Good
    /\ nodes' = nodes \ {p}
    /\ fDisconnect' = fDisconnect \ {p}
    /\ fSyncStarted' = fSyncStarted \ {p}
    /\ UNCHANGED nSyncStarted
    /\ nPreferredDownload' = nPreferredDownload - One(p \in Preferred)
    /\ nStallingSince' = nStallingSince \ {p}
    /\ mapBlocksInFlight' = [b \in Blocks |-> IF b \in vBlocksInFlight[p] THEN NULL
                                              ELSE mapBlocksInFlight[b]]
    /\ vBlocksInFlight' = [vBlocksInFlight EXCEPT ![p] = {}]
    /\ UNCHANGED <<indexVars, knownVars, nQueuedValidatedHeaders, connects>>

FinalizeKeepsInFlight(p) ==
    /\ p \in nodes
    /\ p \in fDisconnect \/ p \notin Good
    /\ nodes' = nodes \ {p}
    /\ fDisconnect' = fDisconnect \ {p}
    /\ fSyncStarted' = fSyncStarted \ {p}
    /\ nSyncStarted' = nSyncStarted - One(p \in fSyncStarted)
    /\ nPreferredDownload' = nPreferredDownload - One(p \in Preferred)
    /\ nStallingSince' = nStallingSince \ {p}
    /\ vBlocksInFlight' = [vBlocksInFlight EXCEPT ![p] = {}]
    /\ UNCHANGED <<indexVars, knownVars, nQueuedValidatedHeaders, connects, mapBlocksInFlight>>

\* The connection ends, by the node or by the peer.  The blocks in flight
\* leave the map; nQueuedValidatedHeaders is not told.
FinalizeNode(p) ==
    /\ p \in nodes
    /\ p \in fDisconnect \/ p \notin Good
    /\ nodes' = nodes \ {p}
    /\ fDisconnect' = fDisconnect \ {p}
    /\ fSyncStarted' = fSyncStarted \ {p}
    /\ nSyncStarted' = nSyncStarted - One(p \in fSyncStarted)
    /\ nPreferredDownload' = nPreferredDownload - One(p \in Preferred)
    /\ nStallingSince' = nStallingSince \ {p}
    /\ mapBlocksInFlight' = [b \in Blocks |-> IF b \in vBlocksInFlight[p] THEN NULL
                                              ELSE mapBlocksInFlight[b]]
    /\ vBlocksInFlight' = [vBlocksInFlight EXCEPT ![p] = {}]
    /\ UNCHANGED <<indexVars, knownVars, nQueuedValidatedHeaders, connects>>

-----------------------------------------------------------------------------
(* What peers say they have. *)

\* The peers whose messages are processed.
Served == nodes \ fDisconnect

Better(b, old) == old = NULL \/ nHeight[b] >= nHeight[old]

\* ProcessBlockAvailability: best known and last unknown block of p.
Available(p) ==
    LET u == hashLastUnknownBlock[p]
        b == pindexBestKnownBlock[p]
    IN  IF u = NULL \/ u \notin mapBlockIndex THEN [best |-> b, unknown |-> u]
        ELSE [best |-> IF Better(u, b) THEN u ELSE b, unknown |-> NULL]

\* UpdateBlockAvailability, when the headers in index are known.
UpdateBlockAvailability(p, hash, index) ==
    LET u == hashLastUnknownBlock[p]
        known == u # NULL /\ u \in index
        best == IF known /\ Better(u, pindexBestKnownBlock[p]) THEN u
                ELSE pindexBestKnownBlock[p]
    IN  /\ pindexBestKnownBlock' = [pindexBestKnownBlock EXCEPT ![p] =
              IF hash \in index /\ Better(hash, best) THEN hash ELSE best]
        /\ hashLastUnknownBlock' = [hashLastUnknownBlock EXCEPT ![p] =
              IF hash \notin index THEN hash ELSE IF known THEN NULL ELSE @]
        /\ UNCHANGED pindexLastCommonBlock

\* A good peer announces its tip, others any block of their chain.
Announces(p, b) == IF p \in Good THEN b = Holds[p] ELSE b \in Ancestors[Holds[p]]

\* An inv of block b.  What it makes the node ask for comes with Headers
\* and Deliver.
Inv(p, b) ==
    /\ p \in Served
    /\ Announces(p, b)
    /\ UpdateBlockAvailability(p, b, mapBlockIndex)
    /\ UNCHANGED <<indexVars, flightVars, connVars, syncVars>>

\* A headers message that ends in b.  At a header that is marked invalid the
\* handler returns.  The headers before it are not learned from the message: the
\* invalid one is in mapBlockIndex, and so are all its ancestors.
Headers(p, b) ==
    /\ p \in Served
    /\ p \in Good => p \in fSyncStarted \/ hashLastUnknownBlock[p] # NULL
    /\ Announces(p, b)
    /\ Ancestors[b] \cap failed = {}
    /\ mapBlockIndex' = mapBlockIndex \cup Ancestors[b]
    /\ UpdateBlockAvailability(p, b, mapBlockIndex')
    /\ UNCHANGED <<have, failed, tip, flightVars, connVars, syncVars>>

-----------------------------------------------------------------------------
(* SendMessages: start the synchronisation, drop slow peers, ask for blocks. *)

fFetch(p) == p \in Preferred \/ nPreferredDownload = 0

\* Mutant: one peer at a time.
StartSyncOnce(p) ==
    LET start == p \notin fSyncStarted /\ fFetch(p) /\ nSyncStarted = 0
    IN  /\ fSyncStarted' = IF start THEN fSyncStarted \cup {p} ELSE fSyncStarted
        /\ nSyncStarted' = nSyncStarted + One(start)

\* nStartingHeight is the height of the chain the peer came with.
StartSync(p) ==
    LET start == /\ p \notin fSyncStarted
                 /\ fFetch(p)
                 /\ nSyncStarted = 0 \/ nHeight[Holds[p]] > nHeight[tip]
    IN  /\ fSyncStarted' = IF start THEN fSyncStarted \cup {p} ELSE fSyncStarted
        /\ nSyncStarted' = nSyncStarted + One(start)

Highest(S) == CHOOSE b \in S : \A c \in S : nHeight[c] <= nHeight[b]
Lowest(S) == CHOOSE b \in S : \A c \in S : nHeight[b] <= nHeight[c]

LastCommonAncestor(a, b) == Highest(Ancestors[a] \cap Ancestors[b])

\* The first guess of pindexLastCommonBlock: our chain at the height of best.
Guess(p, best) ==
    IF pindexLastCommonBlock[p] # NULL THEN pindexLastCommonBlock[p]
    ELSE Highest({b \in Ancestors[tip] : nHeight[b] <= nHeight[best]})

\* Mutant: the data of the block alone.
HasData(b) == b \in have

Linked(b) == Ancestors[b] \subseteq have

\* The walk from the last common block towards the best block of p: up to one
\* block past the window, or to the first block that is marked invalid.
Walk(common, best) ==
    LET path == {b \in Ancestors[best] : /\ nHeight[b] > nHeight[common]
                                         /\ nHeight[b] <= nHeight[common] + BLOCK_DOWNLOAD_WINDOW + 1}
    IN  {b \in path : Ancestors[b] \cap path \cap failed = {}}

\* FindNextBlocksToDownload, from the last common block of p and best: the
\* blocks to fetch, the new last common block and the peer that keeps the
\* window from moving.
FindNextBlocksToDownload(p, common, best, count) ==
    LET walk == Walk(common, best)
        linked == {b \in walk : Linked(b)}
        missing == {b \in walk \ have : mapBlocksInFlight[b] = NULL}
        inWindow == {b \in missing : nHeight[b] <= nHeight[common] + BLOCK_DOWNLOAD_WINDOW}
        awaited == {b \in walk \ have : mapBlocksInFlight[b] # NULL}
    IN  [fetch |-> {b \in inWindow :
                       Cardinality({c \in inWindow : nHeight[c] < nHeight[b]}) < count},
         common |-> IF linked = {} THEN common ELSE Highest(linked),
         stallers |-> IF inWindow = {} /\ missing # {} /\ awaited # {}
                      THEN {mapBlocksInFlight[Lowest(awaited)]} \ {p} ELSE {}]

\* Mutant: the blocks are not counted.
AskForUncounted(p, f) ==
    LET queued == vBlocksInFlight[p] \cup f.fetch
    IN  /\ pindexLastCommonBlock' = [pindexLastCommonBlock EXCEPT ![p] = f.common]
        /\ vBlocksInFlight' = [vBlocksInFlight EXCEPT ![p] = queued]
        /\ mapBlocksInFlight' = [b \in Blocks |-> IF b \in f.fetch THEN p ELSE mapBlocksInFlight[b]]
        /\ UNCHANGED nQueuedValidatedHeaders
        /\ nStallingSince' = IF queued = {} THEN nStallingSince \cup f.stallers ELSE nStallingSince

\* The blocks found are put in flight from p (MarkBlockAsInFlight).
AskFor(p, f) ==
    LET queued == vBlocksInFlight[p] \cup f.fetch
    IN  /\ pindexLastCommonBlock' = [pindexLastCommonBlock EXCEPT ![p] = f.common]
        /\ vBlocksInFlight' = [vBlocksInFlight EXCEPT ![p] = queued]
        /\ mapBlocksInFlight' = [b \in Blocks |-> IF b \in f.fetch THEN p ELSE mapBlocksInFlight[b]]
        /\ nQueuedValidatedHeaders' = nQueuedValidatedHeaders + Cardinality(f.fetch)
        /\ nStallingSince' = IF queued = {} THEN nStallingSince \cup f.stallers ELSE nStallingSince

RequestBlocks(p) ==
    LET room == MAX_BLOCKS_IN_TRANSIT_PER_PEER - Cardinality(vBlocksInFlight[p])
        best == Available(p).best
    IN  IF fFetch(p) /\ room > 0
        THEN /\ pindexBestKnownBlock' = [pindexBestKnownBlock EXCEPT ![p] = best]
             /\ hashLastUnknownBlock' = [hashLastUnknownBlock EXCEPT ![p] = Available(p).unknown]
             /\ IF best = NULL \/ nHeight[best] < nHeight[tip]
                THEN UNCHANGED <<pindexLastCommonBlock, flightVars>>
                ELSE \E common \in {LastCommonAncestor(Guess(p, best), best)} :
                     \E f \in {FindNextBlocksToDownload(p, common, best, room)} : AskFor(p, f)
        ELSE UNCHANGED <<knownVars, flightVars>>

\* expired: a timer of the peer has run out.
SendMessages(p, expired) ==
    /\ p \in Served
    /\ expired => /\ p \notin Good
                  /\ p \in nStallingSince \/ vBlocksInFlight[p] # {}
    /\ StartSync(p)
    /\ IF expired THEN /\ fDisconnect' = fDisconnect \cup {p}
                       /\ UNCHANGED <<knownVars, flightVars>>
       ELSE RequestBlocks(p) /\ UNCHANGED fDisconnect
    /\ UNCHANGED <<indexVars, nodes, connects, nPreferredDownload>>

-----------------------------------------------------------------------------
(* Blocks arrive: asked for, late, twice, from another peer, or not asked for. *)

\* Mutant: the stalling timer runs on.
ReceivedStillStalling(b) ==
    LET owner == mapBlocksInFlight[b]
    IN  IF owner = NULL THEN UNCHANGED flightVars
        ELSE /\ mapBlocksInFlight' = [mapBlocksInFlight EXCEPT ![b] = NULL]
             /\ vBlocksInFlight' = [vBlocksInFlight EXCEPT ![owner] = @ \ {b}]
             /\ nQueuedValidatedHeaders' = nQueuedValidatedHeaders - 1
             /\ UNCHANGED nStallingSince

MarkBlockAsReceived(b) ==
    LET owner == mapBlocksInFlight[b]
    IN  IF owner = NULL THEN UNCHANGED flightVars
        ELSE /\ mapBlocksInFlight' = [mapBlocksInFlight EXCEPT ![b] = NULL]
             /\ vBlocksInFlight' = [vBlocksInFlight EXCEPT ![owner] = @ \ {b}]
             /\ nQueuedValidatedHeaders' = nQueuedValidatedHeaders - 1
             /\ nStallingSince' = nStallingSince \ {owner}

\* ActivateBestChain: a linked block with more work becomes the tip.
ActivateBestChain(stored) ==
    LET better == {b \in stored : Ancestors[b] \subseteq stored /\ nHeight[b] > nHeight[tip]}
    IN  IF better = {} THEN UNCHANGED tip
        ELSE tip' \in {b \in better : \A c \in better : nHeight[c] <= nHeight[b]}

\* AcceptBlock.
AcceptBlock(p, b) ==
    \/ /\ b \in have \/ b \in failed
       /\ pprev[b] \notin failed
       /\ UNCHANGED <<indexVars, fDisconnect>>
    \/ /\ pprev[b] \in failed
       /\ fDisconnect' = fDisconnect \cup {p}
       /\ UNCHANGED indexVars
    \/ /\ b \notin have \cup failed /\ pprev[b] \notin failed
       /\ mapBlockIndex' = mapBlockIndex \cup {b}
       /\ \/ /\ b \in Refused
             /\ failed' = failed \cup {b}
             /\ fDisconnect' \in {fDisconnect, fDisconnect \cup {p}}
             /\ UNCHANGED <<have, tip>>
          \/ /\ b \notin Refused
             /\ have' = have \cup {b}
             /\ ActivateBestChain(have')
             /\ UNCHANGED <<failed, fDisconnect>>

\* The stake of b was used by another block whose data we have.
StakeSeen(b) == b \notin have /\ \E c \in have : stake[c] = stake[b]

\* A block message of peer p: ProcessNewBlock.  A block whose stake was seen
\* is dropped before it is marked as received.
Deliver(p, b) ==
    /\ p \in Served
    /\ b \in Ancestors[Holds[p]] \ {Genesis}
    /\ pprev[b] \in mapBlockIndex
    /\ ~StakeSeen(b)
    /\ MarkBlockAsReceived(b)
    /\ AcceptBlock(p, b)
    /\ UNCHANGED <<knownVars, nodes, connects, nPreferredDownload, syncVars>>

\* The header of b with other contents: CheckBlock fails, and the peer is
\* banned.  The block counts as received, whoever it is in flight from.
DeliverCorrupt(p, b) ==
    /\ p \in Served \ Good
    /\ pprev[b] \in mapBlockIndex
    /\ ~StakeSeen(b)
    /\ MarkBlockAsReceived(b)
    /\ fDisconnect' = fDisconnect \cup {p}
    /\ UNCHANGED <<indexVars, knownVars, nodes, connects, nPreferredDownload, syncVars>>

-----------------------------------------------------------------------------
Next ==
    \E p \in Peers :
        \/ InitializeNode(p)
        \/ FinalizeNode(p)
        \/ \E expired \in BOOLEAN : SendMessages(p, expired)
        \/ \E b \in Blocks : \/ Inv(p, b)
                             \/ Headers(p, b)
                             \/ Deliver(p, b)
                             \/ DeliverCorrupt(p, b)

Spec == Init /\ [][Next]_vars

\* SendMessages is called for every peer in turn, connections that were given
\* up are closed, timers run out, and good peers connect and answer.
Fairness ==
    \A p \in Peers :
        /\ WF_vars(SendMessages(p, FALSE))
        /\ WF_vars(p \in fDisconnect /\ FinalizeNode(p))
        /\ WF_vars(SendMessages(p, TRUE))
        /\ p \in Good =>
              /\ WF_vars(InitializeNode(p))
              /\ WF_vars(Headers(p, Holds[p]))
              /\ \A b \in Blocks : WF_vars(mapBlocksInFlight[b] = p /\ Deliver(p, b))

FairSpec == Spec /\ Fairness

-----------------------------------------------------------------------------
(* Properties. *)

\* The map and the lists of the peers agree, and a block in flight is in
\* flight from a connected peer and not stored yet: State(owner) is never
\* null in MarkBlockAsReceived and for the staller in SendMessages, and no
\* block waits for a peer that was dropped.
InFlightAgree ==
    /\ \A p \in Peers : \A b \in Blocks :
          b \in vBlocksInFlight[p] <=> mapBlocksInFlight[b] = p
    /\ \A b \in Blocks : mapBlocksInFlight[b] # NULL =>
          mapBlocksInFlight[b] \in nodes /\ b \notin have

\* A peer whose stalling timer runs owes us a block: a peer that has
\* answered everything is never disconnected for stalling.
StallerOwes == \A p \in nStallingSince : vBlocksInFlight[p] # {}

\* pindexLastCommonBlock is "the last full block we both have": all of its
\* ancestors are stored, whatever the peer announced and took back, so the
\* window never skips a block.
CommonLinked ==
    \A p \in Peers : pindexLastCommonBlock[p] # NULL =>
                           Ancestors[pindexLastCommonBlock[p]] \subseteq have

\* With one good outbound peer the node reaches the work of its chain, though
\* other peers hold back, corrupt, stall or vanish.
CaughtUp ==
    \A p \in Good \cap Preferred : <>[](nHeight[tip] >= nHeight[Holds[p]])

\* nQueuedValidatedHeaders, the "Number of blocks in flight with validated
\* headers" that the download timeout grows with, never counts too few of
\* them.  It may count too many: FinalizeNode does not count down.
QueuedCovers ==
    nQueuedValidatedHeaders >= Cardinality({b \in Blocks : mapBlocksInFlight[b] # NULL})
=============================================================================
