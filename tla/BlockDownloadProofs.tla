-------------------------- MODULE BlockDownloadProofs --------------------------
(***************************************************************************)
(* The bookkeeping of the block download is consistent for every set of    *)
(* peers, every tree of blocks, every window and every limit per peer.     *)
(***************************************************************************)
EXTENDS BlockDownload, FiniteSetTheorems, WellFoundedInduction, TLAPS

-----------------------------------------------------------------------------
(* Highest and lowest blocks. *)

LEMMA NatMin ==
    ASSUME NEW T \in SUBSET Nat, T # {}
    PROVE  \E n \in T : \A m \in T : n <= m
<1> DEFINE R == OpToRel(<, Nat)
<1>1. IsWellFoundedOn(R, Nat)
  BY NatLessThanWellFounded
<1>2. \A x, y \in Nat : <<x, y>> \in R <=> x < y
  BY DEF OpToRel
<1> HIDE DEF R
<1>3. PICK n \in T : \A m \in T : ~ (<<m, n>> \in R)
  BY <1>1, WFMin
<1>4. ASSUME NEW m \in T PROVE n <= m
  <2>1. m \in Nat /\ n \in Nat /\ ~ (<<m, n>> \in R)
    BY <1>3
  <2>2. ~ (m < n)
    BY <1>2, <2>1
  <2> QED
    BY <2>1, <2>2
<1> QED
  BY <1>3, <1>4

\* A smallest counterexample would lose an element and have a highest block.
LEMMA HighestIn ==
    ASSUME NEW S \in SUBSET Blocks, S # {}
    PROVE  Highest(S) \in S
<1> DEFINE Top(U) == \E b \in U : \A c \in U : nHeight[c] <= nHeight[b]
           Bad == {U \in SUBSET Blocks : U # {} /\ ~Top(U)}
           Sizes == {Cardinality(U) : U \in Bad}
<1>1. \A U \in SUBSET Blocks : IsFiniteSet(U) /\ Cardinality(U) \in Nat
  BY PeerAssumption, FS_Subset, FS_CardinalityType
<1>2. \A b \in Blocks : nHeight[b] \in Nat
  BY HeaderAssumption
<1>3. Bad = {}
  <2>1. SUFFICES ASSUME Bad # {} PROVE FALSE
    OBVIOUS
  <2>2. Sizes \in SUBSET Nat /\ Sizes # {}
    BY <1>1, <2>1
  <2>3. PICK n \in Sizes : \A m \in Sizes : n <= m
    BY <2>2, NatMin
  <2>4. PICK U \in Bad : Cardinality(U) = n
    OBVIOUS
  <2>5. PICK x \in U : TRUE
    OBVIOUS
  <2>6. Cardinality(U \ {x}) = n - 1 /\ n \in Nat
    BY <1>1, <2>2, <2>4, <2>5, FS_RemoveElement
  <2>7. U \ {x} \notin Bad
    <3>1. SUFFICES ASSUME U \ {x} \in Bad PROVE FALSE
      OBVIOUS
    <3>2. Cardinality(U \ {x}) \in Sizes
      BY <3>1
    <3>3. n <= n - 1
      BY <2>3, <2>6, <3>2
    <3> QED
      BY <2>6, <3>3
  <2>8. CASE U \ {x} = {}
    <3>1. Top(U)
      BY <1>2, <2>5, <2>8
    <3> QED
      BY <2>4, <3>1
  <2>9. CASE Top(U \ {x})
    <3>1. PICK b \in U \ {x} : \A c \in U \ {x} : nHeight[c] <= nHeight[b]
      BY <2>9
    <3>2. \A c \in U : nHeight[c] \in Nat
      BY <1>2
    <3>3. Top(U)
      BY <2>5, <3>1, <3>2
    <3> QED
      BY <2>4, <3>3
  <2> QED
    BY <2>7, <2>8, <2>9
<1>4. Top(S)
  BY <1>3
<1> QED
  BY <1>4 DEF Highest

LEMMA LowestIn ==
    ASSUME NEW S \in SUBSET Blocks, S # {}
    PROVE  Lowest(S) \in S
<1> DEFINE heights == {nHeight[b] : b \in S}
<1>1. heights \in SUBSET Nat /\ heights # {}
  BY HeaderAssumption
<1>2. PICK n \in heights : \A m \in heights : n <= m
  BY <1>1, NatMin
<1>3. PICK b \in S : nHeight[b] = n
  OBVIOUS
<1>4. \A c \in S : nHeight[b] <= nHeight[c]
  BY <1>2, <1>3
<1> QED
  BY <1>3, <1>4 DEF Lowest

-----------------------------------------------------------------------------
(* The inductive invariant, by the parts of the state. *)

\* Headers are known with all their ancestors, the active chain is stored.
IndexInv ==
    /\ mapBlockIndex \subseteq Blocks /\ have \subseteq mapBlockIndex
    /\ failed \subseteq mapBlockIndex /\ tip \in have
    /\ \A b \in mapBlockIndex : Ancestors[b] \subseteq mapBlockIndex
    /\ Ancestors[tip] \subseteq have

KnownInv ==
    /\ pindexBestKnownBlock \in [Peers -> Maybe(mapBlockIndex)]
    /\ hashLastUnknownBlock \in [Peers -> Maybe(Blocks)]
    /\ pindexLastCommonBlock \in [Peers -> Maybe(mapBlockIndex)]
    /\ CommonLinked

InFlight == {b \in Blocks : mapBlocksInFlight[b] # NULL}

FlightInv ==
    /\ vBlocksInFlight \in [Peers -> SUBSET mapBlockIndex]
    /\ mapBlocksInFlight \in [Blocks -> Maybe(Peers)]
    /\ nStallingSince \subseteq nodes
    /\ nQueuedValidatedHeaders \in Nat
    /\ InFlightAgree /\ StallerOwes /\ QueuedCovers

\* The counters count.
PeerInv ==
    /\ nodes \subseteq Peers /\ fDisconnect \subseteq nodes /\ fSyncStarted \subseteq nodes
    /\ connects \in [Peers -> 0..MaxConnects]
    /\ nSyncStarted = Cardinality(fSyncStarted)
    /\ nPreferredDownload = Cardinality(nodes \cap Preferred)

DownloadInv == IndexInv /\ KnownInv /\ FlightInv /\ PeerInv

LEMMA Sizes ==
    /\ \A S \in SUBSET Blocks : IsFiniteSet(S) /\ Cardinality(S) \in Nat
    /\ \A S \in SUBSET Peers :
          IsFiniteSet(S) /\ Cardinality(S) \in Nat /\ Cardinality(S) <= Cardinality(Peers)
BY PeerAssumption, FS_Subset, FS_CardinalityType

LEMMA InvTypes == DownloadInv => TypeOK
<1> SUFFICES ASSUME DownloadInv PROVE TypeOK
  OBVIOUS
<1>1. nodes \cap Preferred \in SUBSET Peers /\ fSyncStarted \in SUBSET Peers
  BY DEF DownloadInv, PeerInv
<1>2. Cardinality(Peers) \in Nat
  BY Sizes
<1>3. nSyncStarted \in 0..Cardinality(Peers) /\ nPreferredDownload \in 0..Cardinality(Peers)
  BY <1>1, <1>2, Sizes DEF DownloadInv, PeerInv
<1> QED
  BY <1>3 DEF DownloadInv, IndexInv, KnownInv, FlightInv, PeerInv, TypeOK

LEMMA InitInv == Init => DownloadInv
<1> SUFFICES ASSUME Init PROVE DownloadInv
  OBVIOUS
<1> USE PeerAssumption, HeaderAssumption DEF Init
<1>1. IndexInv
  BY DEF IndexInv
<1>2. KnownInv
  BY DEF KnownInv, CommonLinked, Maybe
<1>3. InFlight = {}
  BY DEF InFlight
<1>4. QueuedCovers
  <2>1. Cardinality(InFlight) = 0
    BY <1>3, FS_EmptySet
  <2> QED
    BY <2>1 DEF QueuedCovers, InFlight
<1>5. InFlightAgree /\ StallerOwes
  BY DEF InFlightAgree, StallerOwes
<1>6. FlightInv
  BY <1>4, <1>5 DEF FlightInv, Maybe
<1>7. nodes \cap Preferred = {}
  OBVIOUS
<1>8. PeerInv
  BY <1>7, FS_EmptySet DEF PeerInv
<1> QED
  BY <1>1, <1>2, <1>6, <1>8 DEF DownloadInv

-----------------------------------------------------------------------------
(* Facts about the parts. *)

\* More headers and more data disturb nothing that is known of the peers.
LEMMA KnownGrows ==
    ASSUME KnownInv, UNCHANGED knownVars,
           mapBlockIndex \subseteq mapBlockIndex', have \subseteq have'
    PROVE  KnownInv'
BY DEF KnownInv, knownVars, CommonLinked, Maybe

LEMMA FlightStays ==
    ASSUME FlightInv, UNCHANGED flightVars, nodes \subseteq nodes',
           mapBlockIndex \subseteq mapBlockIndex', have' = have
    PROVE  FlightInv'
BY DEF FlightInv, flightVars, InFlightAgree, StallerOwes, QueuedCovers

\* UpdateBlockAvailability only learns of headers that are in the index.
LEMMA AvailabilityKeeps ==
    ASSUME KnownInv, NEW p \in Peers, NEW b \in Blocks,
           mapBlockIndex \subseteq mapBlockIndex', have' = have,
           UpdateBlockAvailability(p, b, mapBlockIndex')
    PROVE  KnownInv'
<1>1. /\ pindexBestKnownBlock' \in [Peers -> Maybe(mapBlockIndex')]
      /\ hashLastUnknownBlock' \in [Peers -> Maybe(Blocks)]
  BY DEF KnownInv, UpdateBlockAvailability, Maybe
<1>2. pindexLastCommonBlock' = pindexLastCommonBlock
  BY DEF UpdateBlockAvailability
<1> QED
  BY <1>1, <1>2 DEF KnownInv, CommonLinked, Maybe

\* A block that was received is in flight from nobody.
LEMMA ReceivedKeeps ==
    ASSUME FlightInv, NEW b \in Blocks, MarkBlockAsReceived(b), nodes' = nodes,
           mapBlockIndex \subseteq mapBlockIndex', have' \subseteq have \cup {b}
    PROVE  FlightInv'
<1> DEFINE owner == mapBlocksInFlight[b]
<1>0. NULL \notin Peers
  BY PeerAssumption
<1>1. CASE owner = NULL
  <2>1. UNCHANGED flightVars
    BY <1>1 DEF MarkBlockAsReceived
  <2>2. InFlightAgree'
    BY <1>1, <2>1 DEF FlightInv, InFlightAgree, flightVars
  <2>3. StallerOwes' /\ QueuedCovers'
    BY <2>1 DEF FlightInv, StallerOwes, QueuedCovers, flightVars
  <2> QED
    BY <2>1, <2>2, <2>3 DEF FlightInv, flightVars
<1>2. CASE owner # NULL
  <2>1. /\ mapBlocksInFlight' = [mapBlocksInFlight EXCEPT ![b] = NULL]
        /\ vBlocksInFlight' = [vBlocksInFlight EXCEPT ![owner] = @ \ {b}]
        /\ nQueuedValidatedHeaders' = nQueuedValidatedHeaders - 1
        /\ nStallingSince' = nStallingSince \ {owner}
    BY <1>2 DEF MarkBlockAsReceived
  <2>2. owner \in Peers
    BY <1>2 DEF FlightInv, Maybe
  <2>3. /\ vBlocksInFlight' \in [Peers -> SUBSET mapBlockIndex']
        /\ mapBlocksInFlight' \in [Blocks -> Maybe(Peers)]
    BY <2>1, <2>2 DEF FlightInv, Maybe
  <2>4. InFlightAgree'
    <3>1. ASSUME NEW p \in Peers, NEW c \in Blocks
          PROVE  c \in vBlocksInFlight'[p] <=> mapBlocksInFlight'[c] = p
      <4>1. c \in vBlocksInFlight[p] <=> mapBlocksInFlight[c] = p
        BY DEF FlightInv, InFlightAgree
      <4>2. vBlocksInFlight'[p] = IF p = owner THEN vBlocksInFlight[p] \ {b}
                                  ELSE vBlocksInFlight[p]
        BY <2>1, <2>2 DEF FlightInv
      <4>3. mapBlocksInFlight'[c] = IF c = b THEN NULL ELSE mapBlocksInFlight[c]
        BY <2>1 DEF FlightInv
      <4> QED
        BY <1>0, <4>1, <4>2, <4>3
    <3>2. ASSUME NEW c \in Blocks, mapBlocksInFlight'[c] # NULL
          PROVE  mapBlocksInFlight'[c] \in nodes' /\ c \notin have'
      BY <2>1, <3>2 DEF FlightInv, InFlightAgree
    <3> QED
      BY <3>1, <3>2 DEF InFlightAgree
  <2>5. StallerOwes'
    BY <2>1, <2>2 DEF FlightInv, StallerOwes
  <2>6. InFlight' = InFlight \ {b} /\ b \in InFlight
    BY <1>2, <2>1 DEF FlightInv, InFlight
  <2>7. /\ IsFiniteSet(InFlight) /\ Cardinality(InFlight) \in Nat
        /\ Cardinality(InFlight') \in Nat
    BY <2>6, Sizes DEF InFlight
  <2>8. Cardinality(InFlight') = Cardinality(InFlight) - 1
    BY <2>6, <2>7, FS_RemoveElement
  <2>9. nQueuedValidatedHeaders \in Nat /\ nQueuedValidatedHeaders >= Cardinality(InFlight)
    BY DEF FlightInv, QueuedCovers, InFlight
  <2>10. nQueuedValidatedHeaders' \in Nat /\ nQueuedValidatedHeaders' >= Cardinality(InFlight')
    BY <2>1, <2>7, <2>8, <2>9
  <2>11. QueuedCovers'
    BY <2>10 DEF QueuedCovers, InFlight
  <2> QED
    BY <2>1, <2>3, <2>4, <2>5, <2>10, <2>11 DEF FlightInv
<1> QED
  BY <1>1, <1>2

\* Blocks that are missing and in flight from nobody are put in flight.
LEMMA AskForKeeps ==
    ASSUME FlightInv, NEW p \in nodes, nodes \subseteq Peers, mapBlockIndex \subseteq Blocks,
           NEW f, f.fetch \subseteq mapBlockIndex \ have,
           \A b \in f.fetch : mapBlocksInFlight[b] = NULL,
           \A q \in f.stallers : q \in nodes \ {p} /\ vBlocksInFlight[q] # {},
           AskFor(p, f), UNCHANGED <<nodes, mapBlockIndex, have>>
    PROVE  FlightInv'
<1> DEFINE queued == vBlocksInFlight[p] \cup f.fetch
<1>0. NULL \notin Peers /\ p \in Peers /\ p # NULL
  BY PeerAssumption
<1>1. /\ vBlocksInFlight' = [vBlocksInFlight EXCEPT ![p] = queued]
      /\ mapBlocksInFlight' = [b \in Blocks |-> IF b \in f.fetch THEN p ELSE mapBlocksInFlight[b]]
      /\ nQueuedValidatedHeaders' = nQueuedValidatedHeaders + Cardinality(f.fetch)
      /\ nStallingSince' \subseteq nStallingSince \cup f.stallers
  BY DEF AskFor
<1>2. vBlocksInFlight \in [Peers -> SUBSET mapBlockIndex]
  BY DEF FlightInv
<1>3. /\ vBlocksInFlight' \in [Peers -> SUBSET mapBlockIndex']
      /\ mapBlocksInFlight' \in [Blocks -> Maybe(Peers)]
  BY <1>0, <1>1, <1>2 DEF FlightInv, Maybe
<1>4. \A q \in Peers : vBlocksInFlight'[q] = IF q = p THEN vBlocksInFlight[q] \cup f.fetch
                                            ELSE vBlocksInFlight[q]
  BY <1>0, <1>1, <1>2
<1>5. InFlightAgree'
  <2>1. ASSUME NEW q \in Peers, NEW c \in Blocks
        PROVE  c \in vBlocksInFlight'[q] <=> mapBlocksInFlight'[c] = q
    <3>1. c \in vBlocksInFlight[q] <=> mapBlocksInFlight[c] = q
      BY DEF FlightInv, InFlightAgree
    <3>2. mapBlocksInFlight'[c] = IF c \in f.fetch THEN p ELSE mapBlocksInFlight[c]
      BY <1>1
    <3> QED
      BY <1>0, <1>4, <3>1, <3>2
  <2>2. ASSUME NEW c \in Blocks, mapBlocksInFlight'[c] # NULL
        PROVE  mapBlocksInFlight'[c] \in nodes' /\ c \notin have'
    BY <1>1, <2>2 DEF FlightInv, InFlightAgree
  <2> QED
    BY <2>1, <2>2 DEF InFlightAgree
<1>6. nStallingSince' \subseteq nodes' /\ StallerOwes'
  <2>1. ASSUME NEW q \in nStallingSince'
        PROVE  q \in nodes /\ vBlocksInFlight[q] # {}
    BY <1>1, <2>1 DEF FlightInv, StallerOwes
  <2> QED
    BY <1>4, <2>1 DEF StallerOwes
<1>7. InFlight' = InFlight \cup f.fetch /\ InFlight \cap f.fetch = {}
  BY <1>0, <1>1 DEF InFlight
<1>8. /\ IsFiniteSet(InFlight) /\ IsFiniteSet(f.fetch)
      /\ Cardinality(InFlight) \in Nat /\ Cardinality(f.fetch) \in Nat
  <2>1. InFlight \in SUBSET Blocks /\ f.fetch \in SUBSET Blocks
    BY DEF InFlight
  <2> QED
    BY <2>1, Sizes
<1>9. Cardinality(InFlight') = Cardinality(InFlight) + Cardinality(f.fetch)
  <2>1. Cardinality(InFlight \cup f.fetch) =
           Cardinality(InFlight) + Cardinality(f.fetch) - Cardinality(InFlight \cap f.fetch)
    BY <1>8, FS_Union
  <2>2. Cardinality(InFlight \cap f.fetch) = 0
    BY <1>7, FS_EmptySet
  <2> QED
    BY <1>7, <1>8, <2>1, <2>2
<1>10. nQueuedValidatedHeaders \in Nat /\ nQueuedValidatedHeaders >= Cardinality(InFlight)
  BY DEF FlightInv, QueuedCovers, InFlight
<1>11. nQueuedValidatedHeaders' \in Nat /\ nQueuedValidatedHeaders' >= Cardinality(InFlight')
  BY <1>1, <1>8, <1>9, <1>10
<1>12. QueuedCovers'
  BY <1>11 DEF QueuedCovers, InFlight
<1> QED
  BY <1>3, <1>5, <1>6, <1>11, <1>12 DEF FlightInv

\* The last common block is stored with its ancestors before and after the
\* walk, and the walk finds blocks that are missing and unasked for.
LEMMA RequestKeeps ==
    ASSUME DownloadInv, NEW p \in nodes, RequestBlocks(p), UNCHANGED <<indexVars, nodes>>
    PROVE  KnownInv' /\ FlightInv'
<1> USE DEF DownloadInv
<1>0. /\ UNCHANGED <<mapBlockIndex, have, nodes>> /\ p \in Peers
      /\ mapBlockIndex \subseteq Blocks /\ nodes \subseteq Peers
  BY DEF indexVars, IndexInv, PeerInv
<1>1. CASE UNCHANGED <<knownVars, flightVars>>
  <2>1. KnownInv'
    BY <1>0, <1>1, KnownGrows
  <2>2. FlightInv'
    BY <1>0, <1>1, FlightStays
  <2> QED
    BY <2>1, <2>2
<1> DEFINE best == Available(p).best
           unknown == Available(p).unknown
<1>2. best \in Maybe(mapBlockIndex) /\ unknown \in Maybe(Blocks)
  BY <1>0 DEF Available, KnownInv, Maybe
<1> HIDE DEF best, unknown
<1>3. CASE /\ pindexBestKnownBlock' = [pindexBestKnownBlock EXCEPT ![p] = best]
           /\ hashLastUnknownBlock' = [hashLastUnknownBlock EXCEPT ![p] = unknown]
           /\ UNCHANGED <<pindexLastCommonBlock, flightVars>>
  <2>1. KnownInv'
    BY <1>0, <1>2, <1>3 DEF KnownInv, CommonLinked, Maybe
  <2>2. FlightInv'
    BY <1>0, <1>3, FlightStays
  <2> QED
    BY <2>1, <2>2
<1>4. ASSUME NEW room,
             pindexBestKnownBlock' = [pindexBestKnownBlock EXCEPT ![p] = best],
             hashLastUnknownBlock' = [hashLastUnknownBlock EXCEPT ![p] = unknown],
             best # NULL, ~(nHeight[best] < nHeight[tip]),
             NEW common, common = LastCommonAncestor(Guess(p, best), best),
             NEW f, f = FindNextBlocksToDownload(p, common, best, room),
             AskFor(p, f)
      PROVE  KnownInv' /\ FlightInv'
  <2>1. /\ best \in mapBlockIndex /\ best \in Blocks
        /\ Ancestors[best] \subseteq mapBlockIndex /\ Ancestors[best] \subseteq Blocks
    BY <1>0, <1>2, <1>4 DEF Maybe, IndexInv
  <2>2. tip \in Blocks /\ Ancestors[tip] \subseteq have /\ have \subseteq Blocks
    BY DEF IndexInv
  <2>3. /\ \A b \in Blocks :
              b \in Ancestors[b] /\ Genesis \in Ancestors[b] /\ nHeight[b] \in Nat
        /\ \A b \in Blocks : \A a \in Ancestors[b] : Ancestors[a] \subseteq Ancestors[b]
    BY HeaderAssumption
  <2>4. Guess(p, best) \in Blocks /\ Ancestors[Guess(p, best)] \subseteq have
    <3>1. CASE pindexLastCommonBlock[p] # NULL
      BY <1>0, <3>1 DEF Guess, KnownInv, CommonLinked, Maybe
    <3>2. CASE pindexLastCommonBlock[p] = NULL
      <4> DEFINE S == {b \in Ancestors[tip] : nHeight[b] <= nHeight[best]}
      <4>1. tip \in S /\ S \in SUBSET Blocks
        BY <1>4, <2>1, <2>2, <2>3
      <4>2. Highest(S) \in S
        BY <4>1, HighestIn
      <4>3. Guess(p, best) = Highest(S)
        BY <3>2 DEF Guess
      <4> QED
        BY <2>2, <2>3, <4>2, <4>3
    <3> QED
      BY <3>1, <3>2
  <2>5. common \in Ancestors[best] /\ Ancestors[common] \subseteq have
    <3> DEFINE S == Ancestors[Guess(p, best)] \cap Ancestors[best]
    <3>1. S \in SUBSET Blocks /\ S # {}
      BY <2>1, <2>3, <2>4
    <3>2. Highest(S) \in S
      BY <3>1, HighestIn
    <3>3. common = Highest(S)
      BY <1>4 DEF LastCommonAncestor
    <3> QED
      BY <2>3, <2>4, <3>2, <3>3
  <2> DEFINE walk == Walk(common, best)
             linked == {b \in walk : Linked(b)}
             missing == {b \in walk \ have : mapBlocksInFlight[b] = NULL}
             awaited == {b \in walk \ have : mapBlocksInFlight[b] # NULL}
  <2>6. walk \subseteq Ancestors[best]
    BY DEF Walk
  <2>7. f.common = common \/ (linked # {} /\ f.common = Highest(linked))
    BY <1>4 DEF FindNextBlocksToDownload
  <2>8. f.fetch \subseteq missing
    BY <1>4 DEF FindNextBlocksToDownload
  <2>9. \A q \in f.stallers : awaited # {} /\ q = mapBlocksInFlight[Lowest(awaited)] /\ q # p
    BY <1>4 DEF FindNextBlocksToDownload
  <2> HIDE DEF walk
  <2>10. f.common \in mapBlockIndex /\ Ancestors[f.common] \subseteq have
    <3>1. linked \in SUBSET Blocks
      BY <2>1, <2>6
    <3>2. linked # {} => Highest(linked) \in linked
      BY <3>1, HighestIn
    <3> QED
      BY <2>1, <2>5, <2>6, <2>7, <3>2 DEF Linked
  <2>11. KnownInv'
    <3>1. pindexLastCommonBlock' = [pindexLastCommonBlock EXCEPT ![p] = f.common]
      BY <1>4 DEF AskFor
    <3> QED
      BY <1>0, <1>2, <1>4, <2>10, <3>1 DEF KnownInv, CommonLinked, Maybe
  <2>12. f.fetch \subseteq mapBlockIndex \ have /\ \A b \in f.fetch : mapBlocksInFlight[b] = NULL
    BY <2>1, <2>6, <2>8
  <2>13. \A q \in f.stallers : q \in nodes \ {p} /\ vBlocksInFlight[q] # {}
    <3> SUFFICES ASSUME NEW q \in f.stallers PROVE q \in nodes \ {p} /\ vBlocksInFlight[q] # {}
      OBVIOUS
    <3>1. awaited \in SUBSET Blocks /\ awaited # {}
      BY <2>1, <2>6, <2>9
    <3>2. Lowest(awaited) \in awaited
      BY <3>1, LowestIn
    <3>3. Lowest(awaited) \in Blocks /\ mapBlocksInFlight[Lowest(awaited)] # NULL
      BY <3>1, <3>2
    <3>4. q \in nodes /\ q = mapBlocksInFlight[Lowest(awaited)] /\ q # p
      BY <2>9, <3>3 DEF FlightInv, InFlightAgree
    <3> QED
      BY <1>0, <3>3, <3>4 DEF FlightInv, InFlightAgree
  <2>14. FlightInv'
    BY <1>0, <1>4, <2>12, <2>13, AskForKeeps
  <2> QED
    BY <2>11, <2>14
<1> QED
  BY <1>1, <1>3, <1>4 DEF RequestBlocks, best, unknown

-----------------------------------------------------------------------------
(* The steps. *)

LEMMA InitializeKeeps ==
    ASSUME DownloadInv, NEW p \in Peers, InitializeNode(p)
    PROVE  DownloadInv'
<1> USE DEF DownloadInv
<1>1. /\ p \notin nodes /\ nodes' = nodes \cup {p} /\ UNCHANGED indexVars
      /\ UNCHANGED <<fDisconnect, syncVars, nStallingSince, mapBlocksInFlight,
                     nQueuedValidatedHeaders>>
  BY DEF InitializeNode
<1>2. IndexInv'
  BY <1>1 DEF IndexInv, indexVars
<1>3. KnownInv'
  <2>1. UNCHANGED <<mapBlockIndex, have>>
    BY <1>1 DEF indexVars
  <2>2. /\ pindexBestKnownBlock' = [pindexBestKnownBlock EXCEPT ![p] = NULL]
        /\ hashLastUnknownBlock' = [hashLastUnknownBlock EXCEPT ![p] = NULL]
        /\ pindexLastCommonBlock' = [pindexLastCommonBlock EXCEPT ![p] = NULL]
    BY DEF InitializeNode
  <2> QED
    BY <2>1, <2>2 DEF KnownInv, CommonLinked, Maybe
<1>4. FlightInv'
  <2>1. vBlocksInFlight[p] = {}
    <3>1. \A b \in Blocks : b \in vBlocksInFlight[p] => p \in nodes
      BY HeaderAssumption, PeerAssumption DEF FlightInv, InFlightAgree
    <3>2. vBlocksInFlight[p] \subseteq Blocks
      BY DEF FlightInv, IndexInv
    <3> QED
      BY <1>1, <3>1, <3>2
  <2>2. vBlocksInFlight' = vBlocksInFlight
    BY <2>1 DEF InitializeNode, FlightInv
  <2> QED
    BY <1>1, <2>2, FlightStays DEF flightVars, indexVars
<1>5. PeerInv'
  <2>1. connects' \in [Peers -> 0..MaxConnects]
    BY PeerAssumption DEF InitializeNode, PeerInv
  <2>2. IsFiniteSet(nodes \cap Preferred) /\ Cardinality(nodes \cap Preferred) \in Nat
    BY Sizes DEF PeerInv
  <2>3. nPreferredDownload' = Cardinality(nodes' \cap Preferred)
    <3>1. CASE p \in Preferred
      <4>1. nodes' \cap Preferred = (nodes \cap Preferred) \cup {p}
        BY <1>1, <3>1
      <4>2. Cardinality(nodes' \cap Preferred) = Cardinality(nodes \cap Preferred) + 1
        BY <1>1, <2>2, <4>1, FS_AddElement
      <4> QED
        BY <3>1, <4>2 DEF InitializeNode, PeerInv, One
    <3>2. CASE p \notin Preferred
      <4>1. nodes' \cap Preferred = nodes \cap Preferred
        BY <1>1, <3>2
      <4>2. nPreferredDownload' = nPreferredDownload + 0
        BY <3>2 DEF InitializeNode, One
      <4>3. nPreferredDownload = Cardinality(nodes \cap Preferred)
        BY DEF PeerInv
      <4>4. Cardinality(nodes' \cap Preferred) = Cardinality(nodes \cap Preferred)
        BY <4>1
      <4> HIDE DEF DownloadInv
      <4> QED
        BY <2>2, <4>2, <4>3, <4>4
    <3> QED
      BY <3>1, <3>2
  <2> QED
    BY <1>1, <2>1, <2>3 DEF PeerInv, syncVars
<1> QED
  BY <1>2, <1>3, <1>4, <1>5

\* The difference a peer makes to a set that is counted.
LEMMA CountOut ==
    ASSUME NEW S \in SUBSET Peers, NEW p
    PROVE  Cardinality(S \ {p}) = Cardinality(S) - One(p \in S)
<1>1. IsFiniteSet(S) /\ Cardinality(S) \in Nat
  BY Sizes
<1>2. Cardinality(S \ {p}) = IF p \in S THEN Cardinality(S) - 1 ELSE Cardinality(S)
  BY <1>1, FS_RemoveElement
<1>3. One(p \in S) = IF p \in S THEN 1 ELSE 0
  BY DEF One
<1> QED
  BY <1>1, <1>2, <1>3

LEMMA FinalizeKeeps ==
    ASSUME DownloadInv, NEW p \in Peers, FinalizeNode(p)
    PROVE  DownloadInv'
<1> USE DEF DownloadInv
<1>1. /\ p \in nodes /\ nodes' = nodes \ {p} /\ fDisconnect' = fDisconnect \ {p}
      /\ fSyncStarted' = fSyncStarted \ {p}
      /\ nSyncStarted' = nSyncStarted - One(p \in fSyncStarted)
      /\ nPreferredDownload' = nPreferredDownload - One(p \in Preferred)
      /\ nStallingSince' = nStallingSince \ {p}
      /\ UNCHANGED <<indexVars, knownVars, nQueuedValidatedHeaders, connects>>
  BY DEF FinalizeNode
<1>2. IndexInv'
  BY <1>1 DEF IndexInv, indexVars
<1>3. KnownInv'
  BY <1>1, KnownGrows DEF indexVars
<1>4. FlightInv'
  <2>0. NULL \notin Peers /\ UNCHANGED <<mapBlockIndex, have>>
    BY <1>1, PeerAssumption DEF indexVars
  <2>1. /\ mapBlocksInFlight' = [b \in Blocks |-> IF b \in vBlocksInFlight[p] THEN NULL
                                                 ELSE mapBlocksInFlight[b]]
        /\ vBlocksInFlight' = [vBlocksInFlight EXCEPT ![p] = {}]
    BY DEF FinalizeNode
  <2>2. /\ vBlocksInFlight' \in [Peers -> SUBSET mapBlockIndex']
        /\ mapBlocksInFlight' \in [Blocks -> Maybe(Peers)]
    BY <2>0, <2>1 DEF FlightInv, Maybe
  <2>3. \A q \in Peers : vBlocksInFlight'[q] = IF q = p THEN {} ELSE vBlocksInFlight[q]
    BY <2>1 DEF FlightInv
  <2>4. InFlightAgree'
    <3>1. ASSUME NEW q \in Peers, NEW c \in Blocks
          PROVE  c \in vBlocksInFlight'[q] <=> mapBlocksInFlight'[c] = q
      <4>1. /\ c \in vBlocksInFlight[q] <=> mapBlocksInFlight[c] = q
            /\ c \in vBlocksInFlight[p] <=> mapBlocksInFlight[c] = p
        BY DEF FlightInv, InFlightAgree
      <4>2. mapBlocksInFlight'[c] = IF c \in vBlocksInFlight[p] THEN NULL ELSE mapBlocksInFlight[c]
        BY <2>1
      <4> QED
        BY <2>0, <2>3, <4>1, <4>2
    <3>2. ASSUME NEW c \in Blocks, mapBlocksInFlight'[c] # NULL
          PROVE  mapBlocksInFlight'[c] \in nodes' /\ c \notin have'
      <4>1. /\ mapBlocksInFlight'[c] = mapBlocksInFlight[c]
            /\ c \notin vBlocksInFlight[p]
        BY <2>1, <3>2
      <4>2. mapBlocksInFlight[c] # p
        BY <4>1 DEF FlightInv, InFlightAgree
      <4> QED
        BY <1>1, <2>0, <3>2, <4>1, <4>2 DEF FlightInv, InFlightAgree
    <3> QED
      BY <3>1, <3>2 DEF InFlightAgree
  <2>5. nStallingSince' \subseteq nodes' /\ StallerOwes'
    BY <1>1, <2>3 DEF FlightInv, StallerOwes, PeerInv
  <2>6. InFlight' \subseteq InFlight
    BY <2>1 DEF InFlight
  <2>7. /\ IsFiniteSet(InFlight) /\ Cardinality(InFlight) \in Nat
        /\ Cardinality(InFlight') \in Nat
    BY <2>6, Sizes DEF InFlight
  <2>8. Cardinality(InFlight') <= Cardinality(InFlight)
    BY <2>6, <2>7, FS_Subset
  <2>9. nQueuedValidatedHeaders \in Nat /\ nQueuedValidatedHeaders >= Cardinality(InFlight)
    BY DEF FlightInv, QueuedCovers, InFlight
  <2>10. nQueuedValidatedHeaders' \in Nat /\ nQueuedValidatedHeaders' >= Cardinality(InFlight')
    BY <1>1, <2>7, <2>8, <2>9
  <2>11. QueuedCovers'
    BY <2>10 DEF QueuedCovers, InFlight
  <2> QED
    BY <2>2, <2>4, <2>5, <2>10, <2>11 DEF FlightInv
<1>5. PeerInv'
  <2>1. nSyncStarted' = Cardinality(fSyncStarted')
    BY <1>1, CountOut DEF PeerInv
  <2>2. nodes' \cap Preferred = (nodes \cap Preferred) \ {p}
    BY <1>1
  <2>3. Cardinality(nodes' \cap Preferred) =
           Cardinality(nodes \cap Preferred) - One(p \in nodes \cap Preferred)
    BY <2>2, CountOut DEF PeerInv
  <2>4. nPreferredDownload' = Cardinality(nodes' \cap Preferred)
    BY <1>1, <2>3 DEF PeerInv, One
  <2> QED
    BY <1>1, <2>1, <2>4 DEF PeerInv
<1> QED
  BY <1>2, <1>3, <1>4, <1>5

LEMMA InvKeeps ==
    ASSUME DownloadInv, NEW p \in Peers, NEW b \in Blocks, Inv(p, b)
    PROVE  DownloadInv'
<1> USE DEF DownloadInv
<1>1. /\ UpdateBlockAvailability(p, b, mapBlockIndex)
      /\ UNCHANGED <<indexVars, flightVars, connVars, syncVars>>
  BY DEF Inv
<1>2. UNCHANGED <<mapBlockIndex, have>> /\ nodes' = nodes
  BY <1>1 DEF indexVars, connVars
<1>3. IndexInv' /\ PeerInv'
  BY <1>1 DEF IndexInv, PeerInv, indexVars, connVars, syncVars
<1>4. KnownInv'
  BY <1>1, <1>2, AvailabilityKeeps
<1>5. FlightInv'
  BY <1>1, <1>2, FlightStays
<1> QED
  BY <1>3, <1>4, <1>5

LEMMA HeadersKeeps ==
    ASSUME DownloadInv, NEW p \in Peers, NEW b \in Blocks, Headers(p, b)
    PROVE  DownloadInv'
<1> USE DEF DownloadInv
<1>1. /\ mapBlockIndex' = mapBlockIndex \cup Ancestors[b]
      /\ UpdateBlockAvailability(p, b, mapBlockIndex')
      /\ UNCHANGED <<have, failed, tip, flightVars, connVars, syncVars>>
  BY DEF Headers
<1>2. nodes' = nodes
  BY <1>1 DEF connVars
<1>3. IndexInv'
  BY <1>1, HeaderAssumption DEF IndexInv
<1>4. KnownInv'
  BY <1>1, AvailabilityKeeps
<1>5. FlightInv'
  BY <1>1, <1>2, FlightStays
<1>6. PeerInv'
  BY <1>1 DEF PeerInv, connVars, syncVars
<1> QED
  BY <1>3, <1>4, <1>5, <1>6

LEMMA SendKeeps ==
    ASSUME DownloadInv, NEW p \in Peers, NEW expired \in BOOLEAN, SendMessages(p, expired)
    PROVE  DownloadInv'
<1> USE DEF DownloadInv
<1>1. /\ p \in nodes /\ StartSync(p)
      /\ UNCHANGED <<indexVars, nodes, connects, nPreferredDownload>>
      /\ fDisconnect' \subseteq fDisconnect \cup {p}
      /\ UNCHANGED <<knownVars, flightVars>> \/ RequestBlocks(p)
  BY DEF SendMessages, Served
<1>2. UNCHANGED <<mapBlockIndex, have>> /\ nodes' = nodes
  BY <1>1 DEF indexVars
<1>3. IndexInv'
  BY <1>1 DEF IndexInv, indexVars
<1>4. KnownInv' /\ FlightInv'
  <2>1. CASE UNCHANGED <<knownVars, flightVars>>
    BY <1>2, <2>1, KnownGrows, FlightStays
  <2>2. CASE RequestBlocks(p)
    BY <1>1, <2>2, RequestKeeps
  <2> QED
    BY <1>1, <2>1, <2>2
<1>5. PeerInv'
  <2>1. fSyncStarted' \subseteq nodes /\ nSyncStarted' = Cardinality(fSyncStarted')
    <3>1. fSyncStarted \in SUBSET Peers /\ nSyncStarted = Cardinality(fSyncStarted)
      BY DEF PeerInv
    <3>2. IsFiniteSet(fSyncStarted) /\ Cardinality(fSyncStarted) \in Nat
      BY <3>1, Sizes
    <3>3. CASE fSyncStarted' = fSyncStarted /\ nSyncStarted' = nSyncStarted + 0
      BY <3>1, <3>2, <3>3 DEF PeerInv
    <3>4. CASE p \notin fSyncStarted /\ fSyncStarted' = fSyncStarted \cup {p}
               /\ nSyncStarted' = nSyncStarted + 1
      BY <1>1, <3>1, <3>2, <3>4, FS_AddElement DEF PeerInv
    <3> QED
      BY <1>1, <3>3, <3>4 DEF StartSync, One
  <2> QED
    BY <1>1, <2>1 DEF PeerInv
<1> QED
  BY <1>3, <1>4, <1>5

LEMMA DeliverKeeps ==
    ASSUME DownloadInv, NEW p \in Peers, NEW b \in Blocks, Deliver(p, b)
    PROVE  DownloadInv'
<1> USE DEF DownloadInv
<1>1. /\ p \in nodes /\ b \in Blocks \ {Genesis} /\ pprev[b] \in mapBlockIndex
      /\ MarkBlockAsReceived(b) /\ AcceptBlock(p, b)
      /\ UNCHANGED <<knownVars, nodes, connects, nPreferredDownload, syncVars>>
  BY DEF Deliver, Served
<1>2. fDisconnect' \subseteq fDisconnect \cup {p}
  BY <1>1 DEF AcceptBlock
<1>3. IndexInv' /\ mapBlockIndex \subseteq mapBlockIndex' /\ have \subseteq have'
      /\ have' \subseteq have \cup {b}
  <2>1. CASE UNCHANGED indexVars
    BY <2>1 DEF IndexInv, indexVars
  <2>2. CASE mapBlockIndex' = mapBlockIndex \cup {b}
    <3>1. \A c \in mapBlockIndex' : Ancestors[c] \subseteq mapBlockIndex'
      <4>1. Ancestors[b] = Ancestors[pprev[b]] \cup {b}
        BY <1>1, HeaderAssumption
      <4> QED
        BY <1>1, <2>2, <4>1 DEF IndexInv
    <3>2. CASE failed' = failed \cup {b} /\ UNCHANGED <<have, tip>>
      BY <2>2, <3>1, <3>2 DEF IndexInv
    <3>3. CASE /\ have' = have \cup {b} /\ failed' = failed
               /\ ActivateBestChain(have')
      <4>1. tip' \in have' /\ Ancestors[tip'] \subseteq have'
        BY <3>3 DEF ActivateBestChain, IndexInv
      <4> QED
        BY <2>2, <3>1, <3>3, <4>1 DEF IndexInv
    <3>4. CASE UNCHANGED indexVars
      BY <3>4, <2>1
    <3> QED
      BY <1>1, <3>2, <3>3, <3>4 DEF AcceptBlock
  <2> QED
    BY <1>1, <2>1, <2>2 DEF AcceptBlock
<1>4. KnownInv'
  BY <1>1, <1>3, KnownGrows
<1>5. FlightInv'
  BY <1>1, <1>3, ReceivedKeeps
<1>6. PeerInv'
  BY <1>1, <1>2 DEF PeerInv, syncVars
<1> QED
  BY <1>3, <1>4, <1>5, <1>6

LEMMA DeliverCorruptKeeps ==
    ASSUME DownloadInv, NEW p \in Peers, NEW b \in Blocks, DeliverCorrupt(p, b)
    PROVE  DownloadInv'
<1> USE DEF DownloadInv
<1>1. /\ p \in nodes /\ MarkBlockAsReceived(b)
      /\ fDisconnect' = fDisconnect \cup {p}
      /\ UNCHANGED <<indexVars, knownVars, nodes, connects, nPreferredDownload, syncVars>>
  BY DEF DeliverCorrupt, Served
<1>2. UNCHANGED <<mapBlockIndex, have>>
  BY <1>1 DEF indexVars
<1>3. IndexInv'
  BY <1>1 DEF IndexInv, indexVars
<1>4. KnownInv'
  BY <1>1, <1>2, KnownGrows
<1>5. FlightInv'
  BY <1>1, <1>2, ReceivedKeeps
<1>6. PeerInv'
  BY <1>1 DEF PeerInv, syncVars
<1> QED
  BY <1>3, <1>4, <1>5, <1>6

-----------------------------------------------------------------------------
(* The theorems. *)

\* The parts of the invariant hold in every reachable state, whatever the
\* peers send, hold back or repeat.
THEOREM DownloadCorrect == Spec => []DownloadInv
<1>1. DownloadInv /\ [Next]_vars => DownloadInv'
  <2> SUFFICES ASSUME DownloadInv, [Next]_vars PROVE DownloadInv'
    OBVIOUS
  <2>1. CASE UNCHANGED vars
    <3>1. UNCHANGED <<indexVars, knownVars, flightVars, connVars, syncVars>>
      BY <2>1 DEF vars
    <3>2. UNCHANGED <<mapBlockIndex, have, failed, tip, nodes, fDisconnect, connects,
                      nPreferredDownload, fSyncStarted, nSyncStarted>>
      BY <3>1 DEF indexVars, connVars, syncVars
    <3>3. IndexInv' /\ PeerInv'
      BY <3>2 DEF DownloadInv, IndexInv, PeerInv
    <3>4. KnownInv' /\ FlightInv'
      BY <3>1, <3>2, KnownGrows, FlightStays DEF DownloadInv
    <3> QED
      BY <3>3, <3>4 DEF DownloadInv
  <2>2. ASSUME NEW p \in Peers, InitializeNode(p) \/ FinalizeNode(p)
        PROVE  DownloadInv'
    BY <2>2, InitializeKeeps, FinalizeKeeps
  <2>3. ASSUME NEW p \in Peers, NEW expired \in BOOLEAN, SendMessages(p, expired)
        PROVE  DownloadInv'
    BY <2>3, SendKeeps
  <2>4. ASSUME NEW p \in Peers, NEW b \in Blocks,
               Inv(p, b) \/ Headers(p, b) \/ Deliver(p, b) \/ DeliverCorrupt(p, b)
        PROVE  DownloadInv'
    BY <2>4, InvKeeps, HeadersKeeps, DeliverKeeps, DeliverCorruptKeeps
  <2> QED
    BY <2>1, <2>2, <2>3, <2>4 DEF Next
<1> QED
  BY <1>1, InitInv, PTL DEF Spec

\* Every variable has its type: counters neither go below zero nor pass the
\* number of peers.
THEOREM DownloadTypeCorrect == Spec => []TypeOK
BY DownloadCorrect, InvTypes, PTL

\* mapBlocksInFlight and the lists of the peers agree.
THEOREM FlightCorrect == Spec => []InFlightAgree
<1>1. DownloadInv => InFlightAgree
  BY DEF DownloadInv, FlightInv
<1> QED
  BY <1>1, DownloadCorrect, PTL

\* Only a peer that owes a block can be dropped for stalling.
THEOREM StallerCorrect == Spec => []StallerOwes
<1>1. DownloadInv => StallerOwes
  BY DEF DownloadInv, FlightInv
<1> QED
  BY <1>1, DownloadCorrect, PTL

\* The window of every peer starts at a block that is stored with all of its
\* ancestors.
THEOREM CommonCorrect == Spec => []CommonLinked
<1>1. DownloadInv => CommonLinked
  BY DEF DownloadInv, KnownInv
<1> QED
  BY <1>1, DownloadCorrect, PTL

\* The counter behind the download timeout covers the blocks in flight.
THEOREM QueuedCorrect == Spec => []QueuedCovers
<1>1. DownloadInv => QueuedCovers
  BY DEF DownloadInv, FlightInv
<1> QED
  BY <1>1, DownloadCorrect, PTL
=============================================================================
