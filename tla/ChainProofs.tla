----------------------------- MODULE ChainProofs -----------------------------
(***************************************************************************)
(* Theorems about ChainState and ChainRestart, for every tree of blocks    *)
(* and every value of the constants: the invariant that keeps index, coins *)
(* database, disk and pointer cache consistent through reorganisations,    *)
(* operator commands, crashes and restarts.                                *)
(***************************************************************************)
EXTENDS ChainRestart, FiniteSetTheorems, TLAPS

-----------------------------------------------------------------------------
(* The inductive invariant. *)

\* Which handler may hold cs_main in which phase, and with which write half done.
OpShape ==
    /\ write = "disconnect" => op \in {"step", "invalidate", "reprocess"}
    /\ write = "connect" => op = "step"
    /\ write = "flush" <=> op \in {"flush", "shutdown", "fix", "abort"}
    /\ NotRunning \/ phase \in {"loaded", "stub"} => op = "free" /\ write = "no"
    /\ op \in {"invalidate", "reprocess", "flush", "shutdown"} => phase = "up"
    /\ op \in {"meta", "fix", "abort"} => phase = "fix"
    /\ op = "invalidate" => pindexMostWork # Genesis

\* Everything ActivateBestChain may walk to or stand on is linked.
TargetsLinked ==
    /\ setBlockIndexCandidates \subseteq linked
    /\ op = "step" => pindexMostWork \in linked
    /\ Alive => tip \in linked /\ coinsTip \in linked

\* The disk knows of every body but those of dirty entries, and of no other.
DiskFollowsIndex ==
    Alive => \A b \in Blocks : /\ "data" \in dbStatus[b] => "data" \in nStatus[b]
                               /\ "data" \in nStatus[b] /\ b \notin setDirtyBlockIndex
                                     => "data" \in dbStatus[b]

IndInv ==
    /\ TypeOK
    /\ OpShape
    /\ CoinsFollowChain
    /\ LinkedExactly
    /\ TargetsLinked
    /\ DiskFollowsIndex
    /\ DiskLoadable
    /\ MapSound

-----------------------------------------------------------------------------
(* Trees. *)

\* A block other than Genesis has a parent, one lower, and its ancestors are
\* its parent's and itself.
LEMMA ParentFacts ==
    ASSUME NEW b \in Blocks, b # Genesis
    PROVE  /\ pprev[b] \in Blocks
           /\ nHeight[b] = nHeight[pprev[b]] + 1
           /\ Ancestors[b] = Ancestors[pprev[b]] \cup {b}
           /\ b \notin Ancestors[pprev[b]]
BY TreeAssumption

\* A block is an ancestor of itself; ancestors of ancestors are ancestors.
LEMMA AncestorFacts ==
    ASSUME NEW b \in Blocks
    PROVE  /\ b \in Ancestors[b]
           /\ Ancestors[b] \subseteq Blocks
           /\ Genesis \in Ancestors[b]
           /\ \A a \in Ancestors[b] : Ancestors[a] \subseteq Ancestors[b]
<1>1. b \in Ancestors[b]
  BY TreeAssumption
<1> QED
  BY <1>1, TreeAssumption

\* The sequence numbers of newly linked blocks are natural numbers.
LEMMA NextSequenceIdType == NextSequenceId \in Nat
<1>1. IsFiniteSet({b \in Blocks : nSequenceId[b] > 0})
  BY TreeAssumption, FS_Subset
<1> QED
  BY <1>1, FS_CardinalityType DEF NextSequenceId

-----------------------------------------------------------------------------
(* Frames: what a step need not be asked about. *)

USE DEF indexVars, linkVars, chainVars, verdictVars, diskVars, targetVars, stepVars,
        boundVars

\* A step that neither moves a tip nor brings a body, and writes no index record
\* but current ones, keeps index, coins, disk and pointer cache consistent:
\* headers, failure marks, candidates, verdicts.
LEMMA IndexFrame ==
    ASSUME IndInv, Alive,
           UNCHANGED <<linked, mapBlocksUnlinked, tip, coinsTip, mapUsedStakePointers,
                       dbTip, write, phase>>,
           \A b \in Blocks : /\ "data" \in nStatus'[b] <=> "data" \in nStatus[b]
                             /\ dbStatus'[b] = dbStatus[b] \/ dbStatus'[b] = nStatus[b],
           \A b \in setDirtyBlockIndex \ setDirtyBlockIndex' : dbStatus'[b] = nStatus[b]
    PROVE  /\ CoinsFollowChain' /\ LinkedExactly' /\ DiskFollowsIndex'
           /\ DiskLoadable' /\ MapSound'
<1>1. CoinsFollowChain'
  BY DEF IndInv, CoinsFollowChain
<1>2. HaveData' = HaveData
  BY DEF HaveData
<1>3. LinkedExactly'
  BY <1>2 DEF IndInv, LinkedExactly, Alive
<1>4. DiskFollowsIndex'
  BY DEF IndInv, DiskFollowsIndex, Alive
<1>5. DiskLoadable'
  BY AncestorFacts DEF IndInv, DiskFollowsIndex, DiskLoadable, Alive, TypeOK
<1>6. MapSound'
  BY DEF IndInv, MapSound
<1> QED
  BY <1>1, <1>3, <1>4, <1>5, <1>6

\* Between two handlers, and while FindMostWorkChain looks, nothing is half written.
LEMMA NotWriting == IndInv /\ op \in {"free", "find"} => write = "no"
BY DEF IndInv, OpShape, TypeOK

-----------------------------------------------------------------------------
(* Headers and bodies. *)

\* Receiving a header or a body preserves the invariant.
LEMMA ReceiveStep == ASSUME IndInv, Receive PROVE IndInv'
<1>0. PICK b \in Blocks : \/ AcceptBlockHeader(b) \/ ProcessRejectedBlock(b)
                          \/ ProcessKnownBlock(b) \/ ProcessBadBlock(b)
                          \/ ProcessNewBlock(b)
  BY DEF Receive
<1>1. CASE AcceptBlockHeader(b)
  <2>1. TypeOK'
    BY <1>1 DEF IndInv, TypeOK, AcceptBlockHeader, Flags
  <2>2. OpShape'
    BY <1>1 DEF IndInv, OpShape, TypeOK, AcceptBlockHeader, LockFree, NotRunning
  <2>3. TargetsLinked'
    BY <1>1 DEF IndInv, TargetsLinked, Alive, AcceptBlockHeader, LockFree
  <2>4. /\ write = "no"
        /\ \A x \in Blocks : "data" \in nStatus'[x] <=> "data" \in nStatus[x]
    BY <1>1, NotWriting DEF IndInv, TypeOK, AcceptBlockHeader, LockFree, mapBlockIndex
  <2> QED
    BY <1>1, <2>1, <2>2, <2>3, <2>4, IndexFrame DEF IndInv, Alive, AcceptBlockHeader, LockFree
<1>2. CASE ProcessRejectedBlock(b)
  <2>1. TypeOK'
    BY <1>2 DEF IndInv, TypeOK, ProcessRejectedBlock
  <2>2. OpShape'
    BY <1>2 DEF IndInv, OpShape, TypeOK, ProcessRejectedBlock, LockFree, NotRunning
  <2>3. TargetsLinked'
    BY <1>2 DEF IndInv, TargetsLinked, Alive, ProcessRejectedBlock
  <2> QED
    BY <1>2, <2>1, <2>2, <2>3, IndexFrame DEF IndInv, ProcessRejectedBlock, LockFree, Alive
<1>3. CASE ProcessKnownBlock(b)
  <2>1. TypeOK'
    BY <1>3 DEF IndInv, TypeOK, ProcessKnownBlock
  <2>2. OpShape'
    BY <1>3 DEF IndInv, OpShape, TypeOK, ProcessKnownBlock, LockFree, NotRunning
  <2>3. TargetsLinked'
    BY <1>3 DEF IndInv, TargetsLinked, Alive, ProcessKnownBlock
  <2> QED
    BY <1>3, <2>1, <2>2, <2>3, IndexFrame DEF IndInv, ProcessKnownBlock, LockFree, Alive
<1>4. CASE ProcessBadBlock(b)
  <2>1. TypeOK'
    BY <1>4 DEF IndInv, TypeOK, ProcessBadBlock, Flags
  <2>2. OpShape'
    BY <1>4 DEF IndInv, OpShape, TypeOK, ProcessBadBlock, LockFree, NotRunning
  <2>3. TargetsLinked'
    BY <1>4 DEF IndInv, TargetsLinked, Alive, ProcessBadBlock, LockFree
  <2>4. /\ write = "no"
        /\ \A x \in Blocks : "data" \in nStatus'[x] <=> "data" \in nStatus[x]
    BY <1>4, NotWriting DEF IndInv, TypeOK, ProcessBadBlock, LockFree
  <2> QED
    BY <1>4, <2>1, <2>2, <2>3, <2>4, IndexFrame DEF IndInv, Alive, ProcessBadBlock, LockFree
<1>5. CASE ProcessNewBlock(b)
  <2> USE <1>5 DEF ProcessNewBlock, LockFree
  <2>1. b # Genesis /\ pprev[b] \in Blocks
    BY ParentFacts DEF BlockAcceptable
  <2>2. nSequenceId' \in [Blocks -> Nat]
    <3>1. PICK s \in SequenceAssignments(NewlyLinked(b)) :
              nSequenceId' = [x \in Blocks |-> IF x \in NewlyLinked(b) THEN s[x]
                                                              ELSE nSequenceId[x]]
      OBVIOUS
    <3>2. \A x \in NewlyLinked(b) : s[x] \in Nat
      BY NextSequenceIdType DEF SequenceAssignments
    <3> QED
      BY <3>1, <3>2 DEF IndInv, TypeOK
  <2>3. NewlyLinked(b) \subseteq Blocks
    BY DEF NewlyLinked, IndInv, TypeOK
  <2>4. TypeOK'
    BY <2>2, <2>3, TreeAssumption DEF IndInv, TypeOK, Flags
  <2>5. OpShape'
    BY DEF IndInv, OpShape, NotRunning
  <2>6. CoinsFollowChain'
    BY DEF IndInv, CoinsFollowChain
  <2>7. HaveData' = HaveData \cup {b} /\ b \notin HaveData
    BY DEF HaveData, IndInv, TypeOK
  <2>8. LinkedExactly'
    <3>1. linked = {x \in Blocks : Ancestors[x] \subseteq HaveData}
          /\ mapBlocksUnlinked = HaveData \ linked
      BY DEF IndInv, LinkedExactly, Alive
    <3>2. b \notin linked
      BY <2>7, <3>1, AncestorFacts
    <3>3. ASSUME NEW x \in Blocks, Ancestors[x] \subseteq HaveData', x \notin linked
          PROVE  pprev[b] \in linked /\ x \in NewlyLinked(b)
      <4>1. b \in Ancestors[x]
        BY <2>7, <3>1, <3>3
      <4>2. pprev[b] \in linked
        BY <2>1, <2>7, <3>1, <3>3, <4>1, ParentFacts, AncestorFacts
      <4>3. \A y \in Ancestors[x] \ Ancestors[b] : y \in mapBlocksUnlinked
        BY <2>7, <3>1, <3>3, <4>1, TreeAssumption, AncestorFacts
      <4> QED
        BY <2>7, <3>1, <3>3, <4>1, <4>2, <4>3, AncestorFacts DEF NewlyLinked
    <3>4. ASSUME NEW x \in NewlyLinked(b)
          PROVE  Ancestors[x] \subseteq HaveData'
      BY <2>1, <2>3, <2>7, <3>1, <3>4, ParentFacts, AncestorFacts DEF NewlyLinked
    <3>5. linked' = {x \in Blocks : Ancestors[x] \subseteq HaveData'}
      BY <2>3, <2>7, <3>1, <3>3, <3>4
    <3>6. mapBlocksUnlinked' = HaveData' \ linked'
      BY <2>7, <3>1, <3>2, AncestorFacts DEF NewlyLinked
    <3> QED
      BY <3>5, <3>6 DEF LinkedExactly
  <2>9. TargetsLinked'
    BY DEF IndInv, TargetsLinked, Alive
  <2>10. DiskFollowsIndex' /\ DiskLoadable'
    BY DEF IndInv, TypeOK, OpShape, DiskFollowsIndex, DiskLoadable, Alive
  <2>11. MapSound'
    BY DEF IndInv, MapSound
  <2> QED
    BY <2>4, <2>5, <2>6, <2>8, <2>9, <2>10, <2>11 DEF IndInv
<1> QED
  BY <1>0, <1>1, <1>2, <1>3, <1>4, <1>5

-----------------------------------------------------------------------------
(* ActivateBestChain. *)

\* Marking entries dirty and writing records of current ones keeps the disk
\* consistent with the index.
LEMMA DiskFrame ==
    ASSUME IndInv, Alive, Alive',
           \A x \in Blocks : /\ "data" \in nStatus'[x] <=> "data" \in nStatus[x]
                             /\ dbStatus'[x] = nStatus[x] \/ dbStatus'[x] = dbStatus[x],
           setDirtyBlockIndex \subseteq setDirtyBlockIndex', dbTip' = dbTip
    PROVE  DiskFollowsIndex' /\ DiskLoadable'
<1>1. DiskFollowsIndex'
  BY DEF IndInv, DiskFollowsIndex
<1>2. DiskLoadable'
  BY AncestorFacts DEF IndInv, DiskFollowsIndex, DiskLoadable, TypeOK
<1> QED
  BY <1>1, <1>2

\* The index, its failure marks apart, is as before.
LEMMA LinkedFrame ==
    ASSUME IndInv, Alive' => Alive, UNCHANGED <<linked, mapBlocksUnlinked>>,
           \A x \in Blocks : "data" \in nStatus'[x] <=> "data" \in nStatus[x]
    PROVE  LinkedExactly'
<1>1. HaveData' = HaveData
  BY DEF HaveData
<1> QED
  BY <1>1 DEF IndInv, LinkedExactly

\* Undoing the tip leaves no pointer of it behind, and its parent is linked.
LEMMA DisconnectFacts ==
    ASSUME IndInv, Alive, tip # Genesis, write = "no",
           coinsTip' = pprev[tip],
           mapUsedStakePointers' = ForgetPointer(mapUsedStakePointers, tip)
    PROVE  /\ coinsTip' \in linked /\ coinsTip' \in Blocks
           /\ nHeight[coinsTip] = nHeight[coinsTip'] + 1
           /\ mapUsedStakePointers' \in [Outpoints -> Blocks \cup {NULL}]
           /\ MapSound'
<1>1. /\ coinsTip = tip /\ tip \in Blocks /\ pprev[tip] \in Blocks
      /\ Ancestors[tip] = Ancestors[pprev[tip]] \cup {tip}
      /\ nHeight[tip] = nHeight[pprev[tip]] + 1
  BY ParentFacts DEF IndInv, TypeOK, CoinsFollowChain
<1>2. pprev[tip] \in linked
  BY <1>1, AncestorFacts DEF IndInv, TargetsLinked, LinkedExactly
<1>3. mapUsedStakePointers' \in [Outpoints -> Blocks \cup {NULL}]
  BY <1>1, PointerAssumption DEF IndInv, TypeOK, ForgetPointer
<1>4. MapSound'
  BY <1>1, PointerAssumption DEF IndInv, TypeOK, MapSound, ForgetPointer
<1> QED
  BY <1>1, <1>2, <1>3, <1>4

\* Applying a block on top of the tip records its pointer and nothing else.
LEMMA ConnectFacts ==
    ASSUME IndInv, NEW b \in Blocks, NextToConnect(b),
           coinsTip' = b,
           mapUsedStakePointers' = RecordPointer(mapUsedStakePointers, b)
    PROVE  /\ b # Genesis /\ pprev[b] = tip /\ b \in linked
           /\ mapUsedStakePointers' \in [Outpoints -> Blocks \cup {NULL}]
           /\ MapSound'
<1>1. /\ b # Genesis /\ pprev[b] = tip /\ coinsTip = tip /\ pindexMostWork \in linked
      /\ b \in Ancestors[pindexMostWork] /\ Alive
  BY DEF IndInv, NextToConnect, CoinsFollowChain, TargetsLinked, OpShape, Alive, NotRunning,
         TypeOK
<1>2. b \in linked
  BY <1>1, AncestorFacts DEF IndInv, LinkedExactly
<1>3. mapUsedStakePointers' \in [Outpoints -> Blocks \cup {NULL}]
  BY PointerAssumption DEF IndInv, TypeOK, RecordPointer
<1>4. MapSound'
  BY <1>1, ParentFacts, PointerAssumption DEF IndInv, TypeOK, MapSound, RecordPointer
<1> QED
  BY <1>1, <1>2, <1>3, <1>4

\* A handler that holds cs_main runs in a live process.
LEMMA StepAlive == IndInv /\ (op # "free" \/ Running) => Alive
BY DEF IndInv, OpShape, TypeOK, Alive, Running, NotRunning

\* When the loop over the index records is done, the disk has the whole chain the
\* coins are at: they may be written, or lost.
LEMMA CoinsOnDisk ==
    ASSUME IndInv, Alive, write # "no", ~Writing, dbTip' = coinsTip, dbStatus' = dbStatus
    PROVE  DiskLoadable'
<1>1. Ancestors[coinsTip] \subseteq HaveData
  BY DEF IndInv, TargetsLinked, LinkedExactly
<1> QED
  BY <1>1, AncestorFacts DEF IndInv, TypeOK, DiskFollowsIndex, DiskLoadable, HaveData, Writing

\* Every step of ActivateBestChain preserves the invariant.
LEMMA ActivateStep == ASSUME IndInv, Activate PROVE IndInv'
<1>1. CASE DiscardCandidate
  <2> USE <1>1 DEF DiscardCandidate
  <2>1. write = "no" /\ Alive
    BY NotWriting, StepAlive
  <2>2. TypeOK'
    BY AncestorFacts DEF IndInv, TypeOK, Flags
  <2>3. OpShape'
    BY <2>1 DEF IndInv, OpShape, Running, NotRunning
  <2>4. TargetsLinked'
    BY DEF IndInv, TargetsLinked, Alive
  <2>5. \A x \in Blocks : "data" \in nStatus'[x] <=> "data" \in nStatus[x]
    OBVIOUS
  <2> QED
    BY <2>1, <2>2, <2>3, <2>4, <2>5, IndexFrame DEF IndInv
<1>2. CASE ActivateDone
  <2> USE <1>2 DEF ActivateDone
  <2>1. write = "no" /\ Alive
    BY NotWriting, StepAlive
  <2>2. TypeOK'
    <3>1. activating' \in BOOLEAN
      OBVIOUS
    <3> QED
      BY <3>1 DEF IndInv, TypeOK
  <2>3. OpShape' /\ TargetsLinked'
    BY <2>1 DEF IndInv, OpShape, TargetsLinked, Alive, NotRunning
  <2> QED
    BY <2>1, <2>2, <2>3, IndexFrame DEF IndInv
<1>3. CASE ActivateBestChainStep
  <2> USE <1>3 DEF ActivateBestChainStep
  <2>1. write = "no" /\ Alive
    BY NotWriting, StepAlive
  <2>2. TypeOK'
    BY DEF IndInv, TypeOK
  <2>3. OpShape'
    BY <2>1 DEF IndInv, OpShape, Running, NotRunning
  <2>4. TargetsLinked'
    BY DEF IndInv, TargetsLinked, Alive, IsBestCandidate
  <2> QED
    BY <2>1, <2>2, <2>3, <2>4, IndexFrame DEF IndInv
<1>4. CASE StepDisconnectTip
  <2> USE <1>4 DEF StepDisconnectTip, DisconnectBegin
  <2>1. Alive /\ tip # Genesis
    BY StepAlive, AncestorFacts DEF IndInv, TypeOK
  <2>2. /\ coinsTip' \in linked /\ coinsTip' \in Blocks
        /\ mapUsedStakePointers' \in [Outpoints -> Blocks \cup {NULL}]
        /\ MapSound'
    BY <2>1, DisconnectFacts
  <2>3. TypeOK'
    BY <2>2 DEF IndInv, TypeOK
  <2>4. OpShape'
    BY <2>1 DEF IndInv, OpShape, NotRunning
  <2>5. CoinsFollowChain' /\ TargetsLinked'
    BY <2>1, <2>2 DEF IndInv, CoinsFollowChain, TargetsLinked, Alive
  <2>6. LinkedExactly'
    BY <2>1, LinkedFrame DEF Alive
  <2>7. DiskFollowsIndex' /\ DiskLoadable'
    BY <2>1, DiskFrame DEF Alive
  <2> QED
    BY <2>2, <2>3, <2>4, <2>5, <2>6, <2>7 DEF IndInv
<1>5. CASE ConnectTipInvalid
  <2> USE <1>5 DEF ConnectTipInvalid, NextToConnect
  <2>1. Alive
    BY StepAlive
  <2>2. TypeOK'
    BY DEF IndInv, TypeOK, Flags, ConnectWrite, RefusedBeforeWrite, RefusedAfterWrite
  <2>3. OpShape' /\ TargetsLinked'
    BY DEF IndInv, OpShape, TargetsLinked, NotRunning, Alive
  <2>4. \A x \in Blocks : /\ "data" \in nStatus'[x] <=> "data" \in nStatus[x]
                          /\ dbStatus'[x] = dbStatus[x] \/ dbStatus'[x] = nStatus[x]
    BY DEF IndInv, TypeOK, ConnectWrite, RefusedBeforeWrite, RefusedAfterWrite
  <2> QED
    BY <2>1, <2>2, <2>3, <2>4, IndexFrame DEF IndInv
<1>6. CASE ConnectTip
  <2> USE <1>6 DEF ConnectTip
  <2>1. PICK b \in Blocks :
          /\ NextToConnect(b) /\ coinsTip' = b
          /\ mapUsedStakePointers' = RecordPointer(mapUsedStakePointers, b)
          /\ setDirtyBlockIndex' = setDirtyBlockIndex \cup {b}
          /\ ConnectWrite(b) /\ AfterConnect(b)
    OBVIOUS
  <2>2. Alive /\ write = "no" /\ op = "step"
    BY <2>1, StepAlive DEF NextToConnect
  <2>3. /\ b # Genesis /\ pprev[b] = tip /\ b \in linked
        /\ mapUsedStakePointers' \in [Outpoints -> Blocks \cup {NULL}]
        /\ MapSound'
    BY <2>1, ConnectFacts
  <2>4. TypeOK'
    BY <2>1, <2>3 DEF IndInv, TypeOK, ConnectWrite, AfterConnect, PruneBlockIndexCandidates
  <2>5. OpShape'
    BY <2>1, <2>2 DEF IndInv, OpShape, AfterConnect, NotRunning, Alive
  <2>6. CoinsFollowChain' /\ TargetsLinked'
    BY <2>1, <2>2, <2>3 DEF IndInv, CoinsFollowChain, TargetsLinked, AfterConnect,
                            PruneBlockIndexCandidates
  <2>7. LinkedExactly'
    BY <2>2, LinkedFrame DEF Alive
  <2>8. \A x \in Blocks : dbStatus'[x] = dbStatus[x] \/ dbStatus'[x] = nStatus[x]
    BY <2>1 DEF ConnectWrite, IndInv, TypeOK
  <2>9. DiskFollowsIndex' /\ DiskLoadable'
    BY <2>1, <2>2, <2>8, AncestorFacts
       DEF IndInv, DiskFollowsIndex, DiskLoadable, TypeOK, Alive
  <2> QED
    BY <2>3, <2>4, <2>5, <2>6, <2>7, <2>9 DEF IndInv
<1>7. CASE ConnectTipFlush
  <2> USE <1>7 DEF ConnectTipFlush
  <2>1. PICK b \in Blocks :
          /\ NextToConnect(b) /\ coinsTip' = b
          /\ mapUsedStakePointers' = RecordPointer(mapUsedStakePointers, b)
          /\ ConnectWrite(b) /\ setDirtyBlockIndex' = setDirtyBlockIndex \cup {b}
    OBVIOUS
  <2>2. Alive /\ write = "no" /\ op = "step"
    BY <2>1, StepAlive DEF NextToConnect
  <2>3. /\ b # Genesis /\ pprev[b] = tip /\ b \in linked
        /\ mapUsedStakePointers' \in [Outpoints -> Blocks \cup {NULL}]
        /\ MapSound'
    BY <2>1, ConnectFacts
  <2>4. TypeOK'
    BY <2>1, <2>3 DEF IndInv, TypeOK, ConnectWrite
  <2>5. OpShape'
    BY <2>1, <2>2 DEF IndInv, OpShape, NotRunning, Alive
  <2>6. CoinsFollowChain' /\ TargetsLinked'
    BY <2>1, <2>2, <2>3 DEF IndInv, CoinsFollowChain, TargetsLinked
  <2>7. LinkedExactly'
    BY <2>2, LinkedFrame DEF Alive
  <2>8. \A x \in Blocks : dbStatus'[x] = dbStatus[x] \/ dbStatus'[x] = nStatus[x]
    BY <2>1 DEF ConnectWrite, IndInv, TypeOK
  <2>9. DiskFollowsIndex' /\ DiskLoadable'
    BY <2>1, <2>2, <2>8, DiskFrame DEF Alive
  <2> QED
    BY <2>3, <2>4, <2>5, <2>6, <2>7, <2>9 DEF IndInv
<1>8. CASE ConnectEnd
  <2> USE <1>8 DEF ConnectEnd, AfterConnect
  <2>1. Alive /\ op = "step"
    BY StepAlive DEF IndInv, OpShape
  <2>2. TypeOK'
    BY DEF IndInv, TypeOK, PruneBlockIndexCandidates
  <2>3. OpShape'
    BY <2>1 DEF IndInv, OpShape, NotRunning, Alive
  <2>4. CoinsFollowChain' /\ TargetsLinked' /\ MapSound'
    BY <2>1 DEF IndInv, CoinsFollowChain, TargetsLinked, MapSound, PruneBlockIndexCandidates
  <2>5. LinkedExactly'
    BY <2>1, LinkedFrame DEF Alive
  <2>6. DiskFollowsIndex'
    BY DEF IndInv, DiskFollowsIndex, Alive
  <2>7. DiskLoadable'
    BY <2>1, CoinsOnDisk
  <2> QED
    BY <2>2, <2>3, <2>4, <2>5, <2>6, <2>7 DEF IndInv
<1>9. CASE DisconnectEnd
  <2> USE <1>9 DEF DisconnectEnd
  <2>1. Alive
    BY StepAlive DEF IndInv, OpShape
  <2>2. TypeOK'
    BY DEF IndInv, TypeOK
  <2>3. OpShape'
    BY <2>1 DEF IndInv, OpShape, NotRunning
  <2>4. CoinsFollowChain' /\ TargetsLinked' /\ MapSound'
    BY <2>1 DEF IndInv, CoinsFollowChain, TargetsLinked, MapSound
  <2>5. LinkedExactly'
    BY <2>1, LinkedFrame DEF Alive
  <2>6. DiskFollowsIndex'
    BY DEF IndInv, DiskFollowsIndex, Alive
  <2>7. DiskLoadable'
    BY <2>1, CoinsOnDisk
  <2> QED
    BY <2>2, <2>3, <2>4, <2>5, <2>6, <2>7 DEF IndInv
<1>10. CASE StepOnlyDisconnects
  <2> USE <1>10 DEF StepOnlyDisconnects
  <2>1. write = "no" /\ Alive
    BY NotWriting, StepAlive
  <2>2. TypeOK'
    <3>1. activating' \in BOOLEAN
      OBVIOUS
    <3> QED
      BY <3>1 DEF IndInv, TypeOK
  <2>3. OpShape' /\ TargetsLinked'
    BY <2>1 DEF IndInv, OpShape, TargetsLinked, Alive, NotRunning
  <2> QED
    BY <2>1, <2>2, <2>3, IndexFrame DEF IndInv
<1>11. CASE WriteBlockIndex
  <2> USE <1>11 DEF WriteBlockIndex
  <2>1. Alive
    BY StepAlive DEF IndInv, OpShape, TypeOK
  <2>2. PICK b \in setDirtyBlockIndex :
            /\ dbStatus' = [dbStatus EXCEPT ![b] = nStatus[b]]
            /\ setDirtyBlockIndex' = setDirtyBlockIndex \ {b}
    OBVIOUS
  <2>3. TypeOK'
    BY <2>2 DEF IndInv, TypeOK
  <2>4. OpShape' /\ TargetsLinked'
    BY DEF IndInv, OpShape, TargetsLinked, Alive, NotRunning
  <2>5. \A x \in Blocks : dbStatus'[x] = dbStatus[x] \/ dbStatus'[x] = nStatus[x]
    BY <2>2 DEF IndInv, TypeOK
  <2>6. \A x \in setDirtyBlockIndex \ setDirtyBlockIndex' : dbStatus'[x] = nStatus[x]
    BY <2>2 DEF IndInv, TypeOK
  <2> QED
    BY <2>1, <2>3, <2>4, <2>5, <2>6, IndexFrame DEF IndInv
<1> QED
  BY <1>1, <1>2, <1>3, <1>4, <1>5, <1>6, <1>7, <1>8, <1>9, <1>10, <1>11 DEF Activate

-----------------------------------------------------------------------------
(* Flushes, operator commands and transaction locks. *)

\* FlushBegin, whoever asks for it, preserves all but the shape of the handlers.
LEMMA FlushBeginFacts ==
    ASSUME IndInv, Alive, NEW why, FlushBegin(why), write = "no"
    PROVE  /\ CoinsFollowChain' /\ LinkedExactly' /\ DiskFollowsIndex'
           /\ DiskLoadable' /\ MapSound' /\ dbStatus' \in [Blocks -> SUBSET Flags]
<1>1. CoinsFollowChain' /\ MapSound'
  BY DEF IndInv, FlushBegin, CoinsFollowChain, MapSound
<1>2. LinkedExactly'
  BY LinkedFrame DEF FlushBegin, Alive
<1>3. DiskFollowsIndex' /\ DiskLoadable'
  BY DiskFrame DEF FlushBegin, Alive
<1>4. dbStatus' \in [Blocks -> SUBSET Flags]
  BY DEF IndInv, TypeOK, FlushBegin
<1> QED
  BY <1>1, <1>2, <1>3, <1>4

\* A periodic flush preserves the invariant.
LEMMA FlushStep == ASSUME IndInv, Flush PROVE IndInv'
<1>1. CASE FlushStateToDisk
  <2> USE <1>1 DEF FlushStateToDisk
  <2>1. write = "no" /\ Alive /\ phase = "up" /\ op = "free"
    BY NotWriting DEF LockFree, Alive
  <2>2. /\ CoinsFollowChain' /\ LinkedExactly' /\ DiskFollowsIndex'
        /\ DiskLoadable' /\ MapSound' /\ dbStatus' \in [Blocks -> SUBSET Flags]
    BY <2>1, FlushBeginFacts
  <2>3. TypeOK'
    BY <2>2 DEF IndInv, TypeOK, FlushBegin
  <2>4. OpShape' /\ TargetsLinked'
    BY <2>1 DEF IndInv, OpShape, TargetsLinked, FlushBegin, NotRunning, Alive
  <2> QED
    BY <2>2, <2>3, <2>4 DEF IndInv
<1>2. CASE FlushEnd
  <2> USE <1>2 DEF FlushEnd
  <2>1. write = "flush" /\ Alive /\ phase = "up"
    BY DEF IndInv, OpShape, Alive
  <2>2. TypeOK'
    BY DEF IndInv, TypeOK
  <2>3. OpShape' /\ TargetsLinked'
    BY <2>1 DEF IndInv, OpShape, TargetsLinked, NotRunning, Alive
  <2>4. CoinsFollowChain' /\ MapSound'
    BY <2>1 DEF IndInv, CoinsFollowChain, MapSound
  <2>5. LinkedExactly'
    BY <2>1, LinkedFrame DEF Alive
  <2>6. DiskFollowsIndex'
    BY DEF IndInv, DiskFollowsIndex, Alive
  <2>7. DiskLoadable'
    BY <2>1, CoinsOnDisk
  <2> QED
    BY <2>2, <2>3, <2>4, <2>5, <2>6, <2>7 DEF IndInv
<1> QED
  BY <1>1, <1>2 DEF Flush

\* invalidateblock preserves the invariant.
LEMMA InvalidateStep == ASSUME IndInv, Invalidate PROVE IndInv'
<1>1. ASSUME NEW b \in Blocks, InvalidateBlock(b) PROVE IndInv'
  <2> USE <1>1 DEF InvalidateBlock, Command, LockFree
  <2>1. write = "no" /\ Alive
    BY NotWriting DEF Alive
  <2>2. TypeOK'
    BY DEF IndInv, TypeOK, Flags
  <2>3. OpShape' /\ TargetsLinked'
    BY <2>1 DEF IndInv, OpShape, TargetsLinked, NotRunning, Alive
  <2>4. \A x \in Blocks : "data" \in nStatus'[x] <=> "data" \in nStatus[x]
    BY DEF IndInv, TypeOK
  <2> QED
    BY <2>1, <2>2, <2>3, <2>4, IndexFrame DEF IndInv
<1>2. CASE InvalidateDisconnectTip
  <2> USE <1>2 DEF InvalidateDisconnectTip, DisconnectBegin
  <2>1. Alive /\ tip # Genesis
    BY StepAlive, TreeAssumption DEF IndInv, TypeOK, OpShape, Contains
  <2>2. /\ coinsTip' \in linked /\ coinsTip' \in Blocks
        /\ mapUsedStakePointers' \in [Outpoints -> Blocks \cup {NULL}]
        /\ MapSound'
    BY <2>1, DisconnectFacts
  <2>3. nStatus' \in [Blocks -> SUBSET Flags] /\ dbStatus' \in [Blocks -> SUBSET Flags]
    BY DEF IndInv, TypeOK, Flags
  <2>4. TypeOK'
    BY <2>2, <2>3 DEF IndInv, TypeOK
  <2>5. OpShape'
    BY <2>1 DEF IndInv, OpShape, NotRunning
  <2>6. CoinsFollowChain' /\ TargetsLinked'
    BY <2>1, <2>2 DEF IndInv, CoinsFollowChain, TargetsLinked, Alive
  <2>7. \A x \in Blocks : "data" \in nStatus'[x] <=> "data" \in nStatus[x]
    BY DEF IndInv, TypeOK
  <2>8. LinkedExactly'
    BY <2>1, <2>7, LinkedFrame DEF Alive
  <2>9. DiskFollowsIndex' /\ DiskLoadable'
    BY <2>1, <2>7, DiskFrame DEF Alive
  <2> QED
    BY <2>2, <2>4, <2>5, <2>6, <2>8, <2>9 DEF IndInv
<1>3. CASE InvalidateEnd
  <2> USE <1>3 DEF InvalidateEnd
  <2>1. Alive
    BY StepAlive
  <2>2. TypeOK'
    BY DEF IndInv, TypeOK
  <2>3. OpShape' /\ TargetsLinked'
    BY <2>1 DEF IndInv, OpShape, TargetsLinked, NotRunning, Alive
  <2> QED
    BY <2>1, <2>2, <2>3, IndexFrame DEF IndInv
<1> QED
  BY <1>1, <1>2, <1>3 DEF Invalidate

\* Clearing failure marks brings no body and makes candidates of linked blocks only.
LEMMA ReconsiderFacts ==
    ASSUME IndInv, NEW X, ReconsiderBlocks(X)
    PROVE  /\ nStatus' \in [Blocks -> SUBSET Flags] /\ setDirtyBlockIndex' \subseteq Blocks
           /\ setDirtyBlockIndex \subseteq setDirtyBlockIndex'
           /\ setBlockIndexCandidates' \subseteq linked
           /\ \A x \in Blocks : "data" \in nStatus'[x] <=> "data" \in nStatus[x]
<1>1. nStatus' \in [Blocks -> SUBSET Flags] /\ setDirtyBlockIndex' \subseteq Blocks
  BY DEF IndInv, TypeOK, ReconsiderBlocks, FailedBelow, FailedAbove
<1>2. setDirtyBlockIndex \subseteq setDirtyBlockIndex'
      /\ setBlockIndexCandidates' \subseteq linked
  BY DEF IndInv, TargetsLinked, ReconsiderBlocks
<1>3. ASSUME NEW x \in Blocks PROVE "data" \in nStatus'[x] <=> "data" \in nStatus[x]
  BY DEF ReconsiderBlocks, BLOCK_FAILED_MASK
<1> QED
  BY <1>1, <1>2, <1>3

\* reconsiderblock preserves the invariant.
LEMMA ReconsiderStep == ASSUME IndInv, Reconsider PROVE IndInv'
<1>0. PICK b \in Blocks : ReconsiderBlock(b)
  BY DEF Reconsider
<1> USE <1>0 DEF ReconsiderBlock, Command, LockFree
<1>1. write = "no" /\ Alive
  BY NotWriting DEF Alive
<1>2. /\ nStatus' \in [Blocks -> SUBSET Flags] /\ setDirtyBlockIndex' \subseteq Blocks
      /\ setDirtyBlockIndex \subseteq setDirtyBlockIndex'
      /\ setBlockIndexCandidates' \subseteq linked
      /\ \A x \in Blocks : "data" \in nStatus'[x] <=> "data" \in nStatus[x]
      /\ UNCHANGED <<linkVars, nHeightLast>>
  BY ReconsiderFacts DEF ReconsiderBlocks
<1>3. TypeOK'
  BY <1>2 DEF IndInv, TypeOK
<1>4. OpShape' /\ TargetsLinked'
  BY <1>1, <1>2 DEF IndInv, OpShape, TargetsLinked, NotRunning, Alive
<1> QED
  BY <1>1, <1>2, <1>3, <1>4, IndexFrame DEF IndInv

\* A change of CheckBlock's verdict preserves the invariant.
LEMMA DisputeStep == ASSUME IndInv, Dispute PROVE IndInv'
<1>0. PICK b \in Disputed : ChangeVerdict(b)
  BY DEF Dispute
<1> USE <1>0 DEF ChangeVerdict, Command, LockFree
<1>1. TypeOK'
  BY EnvironmentAssumption DEF IndInv, TypeOK
<1>2. OpShape' /\ TargetsLinked' /\ Alive
  BY DEF IndInv, OpShape, TargetsLinked, NotRunning, Alive
<1> QED
  BY <1>1, <1>2, IndexFrame DEF IndInv

\* ReprocessBlocks never disconnects the genesis block, and preserves the
\* invariant.
LEMMA ReprocessStep == ASSUME IndInv, Reprocess PROVE IndInv'
<1>1. ASSUME NEW X \in SUBSET mapRejectedBlocks, ReprocessBlocks(X) PROVE IndInv'
  <2> USE <1>1 DEF ReprocessBlocks, Command, LockFree
  <2>1. TypeOK'
    BY EnvironmentAssumption DEF IndInv, TypeOK, mapBlockIndex
  <2>2. OpShape' /\ TargetsLinked' /\ Alive
    BY DEF IndInv, OpShape, TargetsLinked, NotRunning, Alive
  <2> QED
    BY <2>1, <2>2, IndexFrame DEF IndInv
<1>2. ASSUME NEW b \in Blocks, ReprocessReconsider(b) PROVE IndInv'
  <2> USE <1>2 DEF ReprocessReconsider, LockFree
  <2>1. write = "no" /\ Alive
    BY NotWriting DEF Alive
  <2>2. /\ nStatus' \in [Blocks -> SUBSET Flags] /\ setDirtyBlockIndex' \subseteq Blocks
        /\ setDirtyBlockIndex \subseteq setDirtyBlockIndex'
        /\ setBlockIndexCandidates' \subseteq linked
        /\ \A x \in Blocks : "data" \in nStatus'[x] <=> "data" \in nStatus[x]
        /\ UNCHANGED <<linkVars, nHeightLast>>
    BY ReconsiderFacts DEF ReconsiderBlocks
  <2>3. TypeOK'
    BY <2>2 DEF IndInv, TypeOK
  <2>4. OpShape' /\ TargetsLinked'
    BY <2>1, <2>2 DEF IndInv, OpShape, TargetsLinked, NotRunning, Alive
  <2> QED
    BY <2>1, <2>2, <2>3, <2>4, IndexFrame DEF IndInv
<1>3. CASE DisconnectBlocksAndReprocess
  <2> USE <1>3 DEF DisconnectBlocksAndReprocess, LockFree
  <2>1. write = "no" /\ Alive /\ coinsTip = tip
    BY NotWriting DEF Alive, IndInv, CoinsFollowChain
  <2>2. TypeOK'
    BY DEF IndInv, TypeOK
  <2>3. OpShape' /\ TargetsLinked'
    BY <2>1 DEF IndInv, OpShape, TargetsLinked, NotRunning, Alive
  <2> QED
    BY <2>1, <2>2, <2>3, IndexFrame DEF IndInv
<1>4. CASE ReprocessDisconnectTip
  <2> USE <1>4 DEF ReprocessDisconnectTip, DisconnectBegin
  <2>1. Alive /\ coinsTip = tip /\ tip # Genesis
    BY StepAlive, TreeAssumption DEF IndInv, TypeOK, OpShape, CoinsFollowChain
  <2>2. /\ coinsTip' \in linked /\ coinsTip' \in Blocks
        /\ nHeight[coinsTip] = nHeight[coinsTip'] + 1
        /\ mapUsedStakePointers' \in [Outpoints -> Blocks \cup {NULL}]
        /\ MapSound'
    BY <2>1, DisconnectFacts
  <2>3. TypeOK'
    BY <2>2 DEF IndInv, TypeOK
  <2>5. OpShape'
    BY <2>1 DEF IndInv, OpShape, NotRunning
  <2>6. CoinsFollowChain' /\ TargetsLinked'
    BY <2>1, <2>2 DEF IndInv, CoinsFollowChain, TargetsLinked, Alive
  <2>7. LinkedExactly'
    BY <2>1, LinkedFrame DEF Alive
  <2>8. DiskFollowsIndex' /\ DiskLoadable'
    BY <2>1, DiskFrame DEF Alive
  <2> QED
    BY <2>2, <2>3, <2>5, <2>6, <2>7, <2>8 DEF IndInv
<1>5. CASE ReprocessAtGenesis \/ ReprocessEnd
  <2> USE <1>5 DEF ReprocessAtGenesis, ReprocessEnd
  <2>1. Alive
    BY StepAlive
  <2>2. TypeOK'
    <3>1. nLeft' \in Nat
      BY DEF IndInv, TypeOK
    <3> QED
      BY <3>1 DEF IndInv, TypeOK
  <2>3. OpShape' /\ TargetsLinked'
    BY <2>1 DEF IndInv, OpShape, TargetsLinked, NotRunning, Alive
  <2> QED
    BY <2>1, <2>2, <2>3, IndexFrame DEF IndInv
<1> QED
  BY <1>1, <1>2, <1>3, <1>4, <1>5 DEF Reprocess

\* verifychain, which works on the one pointer cache and index database, leaves
\* no entry that does not belong to the chain.
LEMMA VerifyStep == ASSUME IndInv, Verify PROVE IndInv'
<1>0. PICK k \in VerifyDepths :
          \E low \in nHeight[tip] - k .. nHeight[tip] + 1 : VerifyDB(k, low)
  BY DEF Verify
<1>a. PICK low : VerifyDB(k, low)
  BY <1>0
<1> DEFINE top == TopBlocks(k)
           undone == Undone(top, low)
           back == IF top \cap checkRejected = {} THEN undone ELSE {}
<1>1. write = "no" /\ Alive /\ coinsTip = tip /\ phase = "up" /\ op = "free"
  BY <1>a, NotWriting DEF VerifyDB, Command, LockFree, Alive, IndInv, CoinsFollowChain
<1>2. /\ Reconnected(back) \subseteq Ancestors[tip] /\ Ancestors[tip] \subseteq Blocks
      /\ top \subseteq Blocks
  BY AncestorFacts DEF IndInv, TypeOK, TopBlocks, Undone, Reconnected
<1>3. \A o \in Outpoints :
          \/ /\ mapUsedStakePointers'[o] \in Reconnected(back)
             /\ stakePointer[mapUsedStakePointers'[o]] = o
          \/ mapUsedStakePointers'[o] = NULL
          \/ mapUsedStakePointers'[o] = mapUsedStakePointers[o]
  BY <1>a DEF VerifyDB
<1>4. DOMAIN mapUsedStakePointers' = Outpoints
      /\ mapUsedStakePointers' = [o \in Outpoints |-> mapUsedStakePointers'[o]]
  BY <1>a DEF VerifyDB
<1>5. mapUsedStakePointers' \in [Outpoints -> Blocks \cup {NULL}]
  <2>1. \A o \in Outpoints : mapUsedStakePointers'[o] \in Blocks \cup {NULL}
    BY <1>2, <1>3 DEF IndInv, TypeOK
  <2> QED
    BY <1>4, <2>1
<1>6. MapSound'
  <2>1. coinsTip' = tip
    BY <1>a, <1>1 DEF VerifyDB
  <2> QED
    BY <1>1, <1>2, <1>3, <2>1 DEF IndInv, MapSound
<1>7. dbStatus' = [b \in Blocks |-> IF b \in Retried(back) THEN nStatus[b] ELSE dbStatus[b]]
  BY <1>a DEF VerifyDB
<1>8. mapRejectedBlocks' \subseteq Blocks /\ nCommands' \in Nat
  BY <1>a, <1>2 DEF VerifyDB, Command, IndInv, TypeOK
<1>9. UNCHANGED <<indexVars, tip, coinsTip, checkRejected, dbTip, dbHeightLast, dbShutdown,
                  stepVars, phase, activating, nRestarts>>
  BY <1>a DEF VerifyDB
<1> HIDE DEF top, undone, back
<1>10. TypeOK'
  BY <1>5, <1>7, <1>8, <1>9 DEF IndInv, TypeOK
<1>11. OpShape' /\ TargetsLinked' /\ CoinsFollowChain'
  BY <1>1, <1>9 DEF IndInv, OpShape, TargetsLinked, CoinsFollowChain, NotRunning, Alive
<1>12. LinkedExactly'
  BY <1>1, <1>9, LinkedFrame DEF Alive
<1>13. DiskFollowsIndex'
  BY <1>1, <1>7, <1>9 DEF IndInv, DiskFollowsIndex, Alive
<1>14. DiskLoadable'
  BY <1>1, <1>7, <1>9, AncestorFacts DEF IndInv, TypeOK, DiskFollowsIndex, DiskLoadable
<1> QED
  BY <1>6, <1>10, <1>11, <1>12, <1>13, <1>14 DEF IndInv

-----------------------------------------------------------------------------
(* Shutdowns, crashes and restarts. *)

\* Losing the memory, with the disk as it is or with the coins half of a flush
\* just written, preserves the invariant.
LEMMA MemoryLostFacts ==
    ASSUME IndInv, Alive \/ dbTip' = dbTip, MemoryLost, NotRunning',
           UNCHANGED <<dbStatus, dbHeightLast>>, dbShutdown' \in BOOLEAN,
           nRestarts' \in Nat, nCommands' \in Nat,
           dbTip' = dbTip \/ (dbTip' = coinsTip /\ write # "no" /\ ~Writing)
    PROVE  IndInv'
<1>1. addr' \in AddressOrders
  BY EnvironmentAssumption DEF MemoryLost
<1>2. activating' \in BOOLEAN
  BY DEF MemoryLost
<1>3. TypeOK'
  BY <1>1, <1>2, TreeAssumption, PointerAssumption
     DEF IndInv, TypeOK, MemoryLost, NoPointers, NotRunning
<1>4. OpShape' /\ CoinsFollowChain'
  BY TreeAssumption DEF MemoryLost, OpShape, CoinsFollowChain, NotRunning
<1>5. ~Alive'
  BY DEF NotRunning, Alive
<1>6. LinkedExactly' /\ TargetsLinked' /\ DiskFollowsIndex'
  BY <1>5 DEF LinkedExactly, TargetsLinked, DiskFollowsIndex, MemoryLost
<1>7. DiskLoadable'
  BY CoinsOnDisk DEF IndInv, DiskLoadable
<1>8. MapSound'
  BY DEF MemoryLost, MapSound, NoPointers
<1> QED
  BY <1>3, <1>4, <1>6, <1>7, <1>8 DEF IndInv

\* A shutdown, and a crash at any moment, preserve the invariant.
LEMMA StopStep == ASSUME IndInv, Stop PROVE IndInv'
<1>1. CASE Shutdown
  <2> USE <1>1 DEF Shutdown
  <2>1. write = "no" /\ Alive /\ phase = "up" /\ op = "free"
    BY NotWriting DEF LockFree, Alive
  <2>2. /\ CoinsFollowChain' /\ LinkedExactly' /\ DiskFollowsIndex'
        /\ DiskLoadable' /\ MapSound' /\ dbStatus' \in [Blocks -> SUBSET Flags]
    BY <2>1, FlushBeginFacts
  <2>3. TypeOK'
    BY <2>2 DEF IndInv, TypeOK, FlushBegin
  <2>4. OpShape' /\ TargetsLinked'
    BY <2>1 DEF IndInv, OpShape, TargetsLinked, FlushBegin, NotRunning, Alive
  <2> QED
    BY <2>2, <2>3, <2>4 DEF IndInv
<1>2. CASE ShutdownEnd
  BY <1>2, StepAlive, MemoryLostFacts DEF ShutdownEnd, NotRunning, IndInv, OpShape, TypeOK
<1>3. CASE Crash
  BY <1>3, MemoryLostFacts DEF Crash, NotRunning, Alive, IndInv, TypeOK
<1> QED
  BY <1>1, <1>2, <1>3 DEF Stop

\* What LoadBlockIndexDB builds from the disk satisfies the invariant.
LEMMA LoadFacts ==
    ASSUME IndInv, NotRunning, LoadBlockIndexGuts, phase' \in {"loaded", "fix"},
           setBlockIndexCandidates' \subseteq LoadedCandidates,
           op' = IF phase' = "fix" THEN "meta" ELSE op, dbShutdown' \in BOOLEAN,
           UNCHANGED <<dbStatus, dbTip, dbHeightLast, verdictVars, write, targetVars,
                       activating, boundVars>>
    PROVE  IndInv'
<1> USE DEF LoadBlockIndexGuts
<1>1. op = "free" /\ write = "no" /\ Alive'
  BY DEF IndInv, OpShape, Alive
<1>2. LoadedLinked \subseteq Blocks /\ LoadedData \subseteq Blocks /\ dbTip \in LoadedLinked
  BY AncestorFacts DEF LoadedLinked, LoadedData, IndInv, TypeOK, DiskLoadable
<1>3. TypeOK'
  BY <1>1, <1>2 DEF IndInv, TypeOK, LoadedCandidates, NoPointers
<1>4. OpShape' /\ CoinsFollowChain'
  BY <1>1 DEF IndInv, OpShape, CoinsFollowChain, NotRunning
<1>5. HaveData' = LoadedData
  BY DEF HaveData, LoadedData
<1>6. LinkedExactly'
  BY <1>5 DEF LinkedExactly, LoadedLinked
<1>7. TargetsLinked'
  BY <1>1, <1>2 DEF TargetsLinked, LoadedCandidates
<1>8. DiskFollowsIndex' /\ DiskLoadable'
  BY <1>1 DEF IndInv, DiskFollowsIndex, DiskLoadable
<1>9. MapSound'
  BY DEF MapSound, NoPointers
<1> QED
  BY <1>3, <1>4, <1>6, <1>7, <1>8, <1>9 DEF IndInv

\* A restart, its repair of an unprepared shutdown and the rebuilding of the
\* pointer cache preserve the invariant.
LEMMA StartStep == ASSUME IndInv, Start PROVE IndInv'
<1>1. CASE LoadBlockIndexDB
  BY <1>1, LoadFacts DEF LoadBlockIndexDB
<1>2. CASE LoadAsserts
  BY <1>2, MemoryLostFacts DEF LoadAsserts, NotRunning, IndInv, TypeOK
<1>3. CASE LoadInconsistent
  BY <1>3, LoadFacts DEF LoadInconsistent, IndInv, TypeOK
<1>4. CASE FixProcessBlock
  <2> USE <1>4 DEF FixProcessBlock
  <2>1. TypeOK'
    BY DEF IndInv, TypeOK
  <2>2. OpShape' /\ TargetsLinked' /\ Alive
    BY DEF IndInv, OpShape, TargetsLinked, NotRunning, Alive
  <2> QED
    BY <2>1, <2>2, IndexFrame DEF IndInv
<1>5. CASE FixNothing
  <2> USE <1>5 DEF FixNothing
  <2>1. TypeOK'
    BY DEF IndInv, TypeOK
  <2>2. OpShape' /\ TargetsLinked' /\ Alive
    BY DEF IndInv, OpShape, TargetsLinked, NotRunning, Alive
  <2> QED
    BY <2>1, <2>2, IndexFrame DEF IndInv
<1>6. CASE FixFlush
  <2>1. PICK why \in {"fix", "abort"} : FlushBegin(why)
    BY <1>6 DEF FixFlush
  <2>2. write = "no" /\ Alive /\ phase = "fix" /\ op \in {"free", "meta"}
    BY <1>6 DEF FixFlush, MetaUnreadable, IndInv, OpShape, TypeOK, Alive
  <2>3. /\ CoinsFollowChain' /\ LinkedExactly' /\ DiskFollowsIndex'
        /\ DiskLoadable' /\ MapSound' /\ dbStatus' \in [Blocks -> SUBSET Flags]
    BY <2>1, <2>2, FlushBeginFacts
  <2>4. nHeightLast' \in Nat /\ dbHeightLast' \in Nat /\ UNCHANGED boundVars
    BY <1>6, TreeAssumption DEF FixFlush
  <2>5. TypeOK'
    BY <2>1, <2>3, <2>4 DEF IndInv, TypeOK, FlushBegin
  <2>6. OpShape' /\ TargetsLinked'
    BY <2>1, <2>2 DEF IndInv, OpShape, TargetsLinked, FlushBegin, NotRunning, Alive
  <2> QED
    BY <2>3, <2>5, <2>6 DEF IndInv
<1>7. CASE FixEnd
  <2> USE <1>7 DEF FixEnd
  <2>1. write = "flush" /\ Alive /\ phase = "fix" /\ Alive'
    BY DEF IndInv, OpShape, Alive
  <2>2. TypeOK'
    <3>1. dbShutdown' \in BOOLEAN
      OBVIOUS
    <3> QED
      BY <3>1 DEF IndInv, TypeOK, PruneBlockIndexCandidates
  <2>3. OpShape' /\ TargetsLinked'
    BY <2>1 DEF IndInv, OpShape, TargetsLinked, NotRunning, PruneBlockIndexCandidates
  <2>4. CoinsFollowChain' /\ MapSound'
    BY <2>1 DEF IndInv, CoinsFollowChain, MapSound
  <2>5. LinkedExactly'
    BY <2>1, LinkedFrame
  <2>6. DiskFollowsIndex'
    BY <2>1 DEF IndInv, DiskFollowsIndex
  <2>7. DiskLoadable'
    BY <2>1, CoinsOnDisk
  <2> QED
    BY <2>2, <2>3, <2>4, <2>5, <2>6, <2>7 DEF IndInv
<1>8. CASE FixAsserts
  BY <1>8, StepAlive, MemoryLostFacts DEF FixAsserts, NotRunning, IndInv, OpShape, TypeOK
<1>9. CASE FixAbort
  BY <1>9, StepAlive, MemoryLostFacts DEF FixAbort, NotRunning, IndInv, OpShape, TypeOK
<1>10. CASE RebuildStakePointerCache
  <2> USE <1>10 DEF RebuildStakePointerCache
  <2>1. coinsTip = tip /\ coinsTip' = tip /\ Alive /\ Alive' /\ op = "free" /\ write = "no"
    BY DEF IndInv, OpShape, CoinsFollowChain, Alive
  <2>2. \A o \in Outpoints :
            \/ mapUsedStakePointers'[o] = NULL
            \/ /\ InRebuildWindow(mapUsedStakePointers'[o])
               /\ mapUsedStakePointers'[o] \in Blocks
               /\ stakePointer[mapUsedStakePointers'[o]] = o
    BY DEF Lowest
  <2>3. mapUsedStakePointers' \in [Outpoints -> Blocks \cup {NULL}]
    BY <2>2
  <2>4. MapSound'
    BY <2>1, <2>2 DEF MapSound, InRebuildWindow
  <2>5. TypeOK'
    BY <2>3 DEF IndInv, TypeOK
  <2>6. OpShape' /\ TargetsLinked' /\ CoinsFollowChain'
    BY <2>1 DEF IndInv, OpShape, TargetsLinked, CoinsFollowChain, NotRunning, Alive
  <2>7. LinkedExactly'
    BY <2>1, LinkedFrame
  <2>8. DiskFollowsIndex' /\ DiskLoadable'
    BY <2>1 DEF IndInv, DiskFollowsIndex, DiskLoadable
  <2> QED
    BY <2>4, <2>5, <2>6, <2>7, <2>8 DEF IndInv
<1>11. CASE LoadStub
  <2> USE <1>11 DEF LoadStub, NotRunning
  <2>1. ~Alive /\ ~Alive'
    BY DEF Alive
  <2>2. TypeOK'
    BY DEF IndInv, TypeOK
  <2>3. OpShape' /\ CoinsFollowChain' /\ TargetsLinked'
    BY <2>1 DEF IndInv, OpShape, CoinsFollowChain, TargetsLinked
  <2>4. LinkedExactly' /\ DiskFollowsIndex' /\ DiskLoadable' /\ MapSound'
    BY <2>1 DEF IndInv, LinkedExactly, DiskFollowsIndex, DiskLoadable, MapSound
  <2> QED
    BY <2>2, <2>3, <2>4 DEF IndInv
<1> QED
  BY <1>1, <1>2, <1>3, <1>4, <1>5, <1>6, <1>7, <1>8, <1>9, <1>10, <1>11 DEF Start

-----------------------------------------------------------------------------
(* Theorems. *)

\* The invariant holds of a node started on an empty datadir.
LEMMA InitInv == Init => IndInv
<1> SUFFICES ASSUME Init PROVE IndInv
  OBVIOUS
<1> USE DEF Init
<1>1. TypeOK
  BY TreeAssumption, PointerAssumption, EnvironmentAssumption DEF TypeOK, Flags, NoPointers
<1>2. OpShape /\ CoinsFollowChain
  BY TreeAssumption DEF OpShape, CoinsFollowChain, NotRunning
<1>3. HaveData = {Genesis}
  BY TreeAssumption DEF HaveData
<1>4. LinkedExactly
  BY <1>3, TreeAssumption, AncestorFacts DEF LinkedExactly
<1>5. TargetsLinked /\ DiskFollowsIndex
  BY DEF TargetsLinked, DiskFollowsIndex
<1>6. DiskLoadable /\ MapSound
  BY TreeAssumption DEF DiskLoadable, MapSound, NoPointers
<1> QED
  BY <1>1, <1>2, <1>4, <1>5, <1>6 DEF IndInv

\* A step that changes nothing preserves the invariant.
LEMMA StutterInv == ASSUME IndInv, UNCHANGED vars PROVE IndInv'
<1> USE DEF vars
<1>1. TypeOK' /\ OpShape' /\ CoinsFollowChain'
  BY DEF IndInv, TypeOK, OpShape, CoinsFollowChain, NotRunning
<1>2. LinkedExactly' /\ TargetsLinked'
  BY DEF IndInv, LinkedExactly, TargetsLinked, Alive, HaveData
<1>3. DiskFollowsIndex' /\ DiskLoadable' /\ MapSound'
  BY DEF IndInv, DiskFollowsIndex, DiskLoadable, MapSound, Alive
<1> QED
  BY <1>1, <1>2, <1>3 DEF IndInv

\* Every step of the node, and of its operator and its power supply, preserves
\* the invariant.
LEMMA NextInv == IndInv /\ [Next]_vars => IndInv'
BY ReceiveStep, ActivateStep, FlushStep, InvalidateStep, ReconsiderStep, DisputeStep,
   ReprocessStep, VerifyStep, StopStep, StartStep, StutterInv
   DEF Next, NextUp, NextSteady

\* IndInv is an invariant of the node with crashes and restarts.
THEOREM Invariance == Spec => []IndInv
BY InitInv, NextInv, PTL DEF Spec

\* Type correctness.
THEOREM TypeCorrect == Spec => []TypeOK
<1>1. IndInv => TypeOK
  BY DEF IndInv
<1> QED
  BY <1>1, Invariance, PTL

\* The coins database moves with the active chain, one block at a time, through
\* every reorganisation, command, crash and restart: ConnectBlock's assertion
\* that the view is at the block's parent never fails.
THEOREM CoinsFollow == Spec => []CoinsFollowChain
<1>1. IndInv => CoinsFollowChain
  BY DEF IndInv
<1> QED
  BY <1>1, Invariance, PTL

\* The active chain never contains a block without a body, in whichever order
\* headers and bodies came and whatever a crash left on disk.
THEOREM ActiveChainReadable == Spec => []ActiveChainHasData
<1>1. IndInv => ActiveChainHasData
  <2> SUFFICES ASSUME IndInv, Alive PROVE Ancestors[tip] \cup Ancestors[coinsTip] \subseteq linked
    BY DEF ActiveChainHasData
  <2>1. tip \in linked /\ coinsTip \in linked /\ linked \subseteq Blocks
    BY DEF IndInv, TargetsLinked, TypeOK
  <2>2. \A b \in linked : Ancestors[b] \subseteq linked
    BY <2>1, AncestorFacts DEF IndInv, LinkedExactly
  <2> QED
    BY <2>1, <2>2
<1> QED
  BY <1>1, Invariance, PTL

\* nChainTx and mapBlocksUnlinked are always exact, as CheckBlockIndex asserts.
THEOREM LinkedCorrect == Spec => []LinkedExactly
<1>1. IndInv => LinkedExactly
  BY DEF IndInv
<1> QED
  BY <1>1, Invariance, PTL

\* Wherever a crash strikes, inside or between flushes, the block index on disk
\* has every block of the chain the coins database on disk is at.
THEOREM CrashConsistent == Spec => []DiskLoadable
<1>1. IndInv => DiskLoadable
  BY DEF IndInv
<1> QED
  BY <1>1, Invariance, PTL

\* mapUsedStakePointers never has a stale entry.
THEOREM PointerCacheSound == Spec => []MapSound
<1>1. IndInv => MapSound
  BY DEF IndInv
<1> QED
  BY <1>1, Invariance, PTL

-----------------------------------------------------------------------------
(* Pointer reuse, for a node that is neither restarted nor verified. *)

\* A complete cache makes reuse impossible.
LEMMA CompleteNoReuse == MapComplete => NoPointerReuse
BY DEF MapComplete, NoPointerReuse

\* Undoing the tip forgets its pointer and no other.
LEMMA DisconnectComplete ==
    ASSUME IndInv, MapComplete, tip # Genesis, write = "no",
           coinsTip' = pprev[tip],
           mapUsedStakePointers' = ForgetPointer(mapUsedStakePointers, tip)
    PROVE  MapComplete'
<1>1. /\ coinsTip = tip /\ tip \in Blocks /\ pprev[tip] \in Blocks
      /\ Ancestors[tip] = Ancestors[pprev[tip]] \cup {tip}
      /\ tip \notin Ancestors[pprev[tip]] /\ Ancestors[tip] \subseteq Blocks
  BY ParentFacts, AncestorFacts DEF IndInv, TypeOK, CoinsFollowChain
<1> QED
  BY <1>1, PointerAssumption DEF IndInv, TypeOK, MapComplete, ForgetPointer

\* Applying a block whose pointer is free records it and keeps the others.
LEMMA ConnectComplete ==
    ASSUME IndInv, MapComplete, NEW b \in Blocks, NextToConnect(b),
           PointerFree(mapUsedStakePointers, b), coinsTip' = b,
           mapUsedStakePointers' = RecordPointer(mapUsedStakePointers, b)
    PROVE  MapComplete'
<1>1. /\ coinsTip = tip /\ tip \in Blocks /\ pprev[b] = tip
      /\ Ancestors[b] = Ancestors[tip] \cup {b} /\ Ancestors[b] \subseteq Blocks
  BY ParentFacts, AncestorFacts DEF IndInv, TypeOK, CoinsFollowChain, NextToConnect
<1>2. \A a \in Ancestors[tip] : stakePointer[a] # NULL =>
          mapUsedStakePointers[stakePointer[a]] = a /\ a # NULL
  BY <1>1, TreeAssumption DEF MapComplete
<1> QED
  BY <1>1, <1>2, PointerAssumption DEF IndInv, TypeOK, MapComplete, RecordPointer, PointerFree

\* The cache stays complete in every step of a node that is neither restarted
\* nor verified.
LEMMA CompleteStep == ASSUME IndInv, MapComplete, [NextSteady]_vars PROVE MapComplete'
<1>1. ASSUME UNCHANGED <<coinsTip, mapUsedStakePointers>> PROVE MapComplete'
  BY <1>1 DEF MapComplete
<1>2. CASE Receive
  BY <1>1, <1>2 DEF Receive, AcceptBlockHeader, ProcessRejectedBlock, ProcessKnownBlock,
                    ProcessBadBlock, ProcessNewBlock
<1>3. CASE StepDisconnectTip
  <2>1. tip # Genesis
    BY <1>3, AncestorFacts DEF StepDisconnectTip, IndInv, TypeOK
  <2> QED
    BY <1>3, <2>1, DisconnectComplete DEF StepDisconnectTip, DisconnectBegin
<1>4. CASE ConnectTip \/ ConnectTipFlush
  BY <1>4, ConnectComplete DEF ConnectTip, ConnectTipFlush, Connectable
<1>5. CASE \/ WriteBlockIndex
           \/ DiscardCandidate \/ ActivateDone \/ ActivateBestChainStep
           \/ StepOnlyDisconnects \/ ConnectTipInvalid \/ ConnectEnd \/ DisconnectEnd
  BY <1>1, <1>5 DEF WriteBlockIndex, DiscardCandidate, ActivateDone, ActivateBestChainStep,
                    StepOnlyDisconnects, ConnectTipInvalid, ConnectEnd, DisconnectEnd
<1>6. CASE Flush
  BY <1>1, <1>6 DEF Flush, FlushStateToDisk, FlushBegin, FlushEnd
<1>7. CASE InvalidateDisconnectTip
  <2>1. tip # Genesis
    BY <1>7, TreeAssumption DEF InvalidateDisconnectTip, IndInv, TypeOK, OpShape, Contains
  <2> QED
    BY <1>7, <2>1, DisconnectComplete DEF InvalidateDisconnectTip, DisconnectBegin
<1>8. CASE InvalidateEnd \/ \E b \in Blocks : InvalidateBlock(b)
  BY <1>1, <1>8 DEF InvalidateEnd, InvalidateBlock
<1>9. CASE Reconsider \/ Dispute
  BY <1>1, <1>9 DEF Reconsider, ReconsiderBlock, Dispute, ChangeVerdict
<1>10. CASE ReprocessDisconnectTip
  BY <1>10, DisconnectComplete DEF ReprocessDisconnectTip, DisconnectBegin
<1>11. CASE \/ \E X \in SUBSET mapRejectedBlocks : ReprocessBlocks(X)
            \/ \E b \in Blocks : ReprocessReconsider(b)
            \/ DisconnectBlocksAndReprocess \/ ReprocessAtGenesis \/ ReprocessEnd
  BY <1>1, <1>11 DEF ReprocessBlocks, ReprocessReconsider, DisconnectBlocksAndReprocess,
                     ReprocessAtGenesis, ReprocessEnd
<1>12. CASE UNCHANGED vars
  BY <1>1, <1>12 DEF vars
<1> QED
  BY <1>2, <1>3, <1>4, <1>5, <1>6, <1>7, <1>8, <1>9, <1>10, <1>11, <1>12
     DEF NextSteady, Activate, Invalidate, Reprocess

\* Every pointer the active chain has spent is in the cache, for as long as the
\* node is neither restarted nor asked to verify its chain.
THEOREM PointerCacheComplete == SpecSteady => []MapComplete
<1>1. Init => IndInv /\ MapComplete
  <2>1. Init => MapComplete
    BY TreeAssumption, PointerAssumption DEF Init, MapComplete
  <2> QED
    BY <2>1, InitInv
<1>2. IndInv /\ MapComplete /\ [NextSteady]_vars => IndInv' /\ MapComplete'
  BY NextInv, CompleteStep DEF Next, NextUp
<1> QED
  BY <1>1, <1>2, PTL DEF SpecSteady

\* ... so that no chain such a node ever has active spends a pointer twice,
\* whatever the order in which headers, bodies, forks, locks and commands came.
THEOREM PointersSpentOnce == SpecSteady => []NoPointerReuse
BY PointerCacheComplete, CompleteNoReuse, PTL

=============================================================================
