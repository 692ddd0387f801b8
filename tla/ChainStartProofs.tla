--------------------------- MODULE ChainStartProofs ---------------------------
(***************************************************************************)
(* What a node starts from, for every tree of blocks and wherever the      *)
(* process stopped before: the chain it is at, in memory and on disk, has  *)
(* no invalid block, and PruneBlockIndexCandidates' assertion about the    *)
(* candidates fails only for a block that was marked without a fault of    *)
(* its own.  After a shutdown its records are whole.                       *)
(***************************************************************************)
EXTENDS ChainActivationProofs

USE DEF indexVars, linkVars, chainVars, verdictVars, diskVars, targetVars, stepVars,
        boundVars

-----------------------------------------------------------------------------
(* The chain in memory and on disk. *)

\* A body that ContextualCheckBlock refuses is kept nowhere.
BadBodiesRefused ==
    \A b \in BadContext : "data" \notin nStatus[b] /\ "data" \notin dbStatus[b]

ValidInv == ActiveChainValid /\ BadBodiesRefused

LEMMA NoBadBelow ==
    ASSUME NEW b \in Blocks, NoBad(b), NEW a \in Ancestors[b]
    PROVE  NoBad(a)
BY AncestorFacts DEF NoBad

\* A block ConnectBlock accepts on top of the tip is not bad.
LEMMA ConnectedValid ==
    ASSUME IndInv, PathInv, ValidInv, NEW b \in Blocks, NextToConnect(b), Connectable(b)
    PROVE  NoBad(b)
<1>1. Ancestors[b] = Ancestors[tip] \cup {b} /\ b \in Ancestors[pindexMostWork] /\ b \in Ancestors[b]
  BY NextUnfailed, AncestorFacts
<1>2. Alive /\ pindexMostWork \in linked
  BY StepAlive DEF NextToConnect, IndInv, TargetsLinked
<1>3. "data" \in nStatus[b]
  BY <1>1, <1>2 DEF IndInv, LinkedExactly, HaveData
<1> QED
  BY <1>1, <1>3 DEF ValidInv, ActiveChainValid, BadBodiesRefused, NoBad, Connectable

\* Steps that bring no bad body and no new tip but a good one.
LEMMA ValidFrame ==
    ASSUME IndInv, ValidInv,
           \A t \in {tip', coinsTip', dbTip'} : t \in {tip, coinsTip, dbTip} \/ NoBad(t),
           \A x \in Blocks : /\ "data" \in nStatus'[x] => "data" \in nStatus[x] \/ x \notin BadContext
                             /\ dbStatus'[x] \in {dbStatus[x], nStatus[x], nStatus'[x]}
    PROVE  ValidInv'
<1>1. ActiveChainValid'
  BY DEF ValidInv, ActiveChainValid, NoBad
<1>2. BadBodiesRefused'
  BY EnvironmentAssumption DEF ValidInv, BadBodiesRefused
<1> QED
  BY <1>1, <1>2 DEF ValidInv

\* What DisconnectTip leaves of the chain.
LEMMA ValidDisconnect ==
    ASSUME IndInv, ValidInv, tip # Genesis, NEW dirty, DisconnectBegin(dirty),
           UNCHANGED <<tip, dbTip, dbStatus>>,
           \A x \in Blocks : "data" \in nStatus'[x] => "data" \in nStatus[x]
    PROVE  ValidInv'
<1>1. tip \in Blocks /\ pprev[tip] \in Ancestors[tip]
  BY ParentFacts, AncestorFacts DEF IndInv, TypeOK
<1>2. NoBad(coinsTip')
  BY <1>1, NoBadBelow DEF DisconnectBegin, ValidInv, ActiveChainValid
<1> QED
  BY <1>2, ValidFrame

LEMMA ValidReceive == ASSUME IndInv, ValidInv, Receive PROVE ValidInv'
<1> USE DEF Receive, AcceptBlockHeader, ProcessRejectedBlock, ProcessKnownBlock,
     ProcessBadBlock, ProcessNewBlock
<1>1. UNCHANGED <<tip, coinsTip, dbTip, dbStatus>>
  OBVIOUS
<1>2. ASSUME NEW x \in Blocks, "data" \in nStatus'[x] PROVE "data" \in nStatus[x] \/ x \notin BadContext
  BY <1>2 DEF IndInv, TypeOK
<1> QED
  BY <1>1, <1>2, ValidFrame

LEMMA ValidActivate == ASSUME IndInv, PathInv, ValidInv, Activate PROVE ValidInv'
<1>0. tip \in Blocks /\ coinsTip \in Blocks /\ nStatus \in [Blocks -> SUBSET Flags]
      /\ dbStatus \in [Blocks -> SUBSET Flags]
  BY DEF IndInv, TypeOK
<1>1. CASE DiscardCandidate
  <2>1. \A x \in Blocks : "data" \in nStatus'[x] => "data" \in nStatus[x]
    BY <1>1 DEF DiscardCandidate
  <2> QED
    BY <1>1, <2>1, ValidFrame DEF DiscardCandidate
<1>2. CASE ActivateDone \/ ActivateBestChainStep \/ StepOnlyDisconnects
  BY <1>2, ValidFrame DEF ActivateDone, ActivateBestChainStep, StepOnlyDisconnects
<1>3. CASE StepDisconnectTip
  <2>1. tip # Genesis
    BY <1>3, TreeAssumption DEF StepDisconnectTip, IndInv, TypeOK
  <2> QED
    BY <1>3, <2>1, ValidDisconnect DEF StepDisconnectTip
<1>4. CASE ConnectTipInvalid
  <2>1. PICK b \in Blocks : /\ nStatus' = [nStatus EXCEPT ![b] = @ \cup {"fvalid"}]
                            /\ dbStatus' = dbStatus \/ ConnectWrite(b)
    BY <1>4 DEF ConnectTipInvalid, RefusedBeforeWrite, RefusedAfterWrite
  <2>2. \A x \in Blocks : /\ "data" \in nStatus'[x] => "data" \in nStatus[x]
                          /\ dbStatus'[x] \in {dbStatus[x], nStatus[x]}
    BY <1>0, <2>1 DEF ConnectWrite
  <2> QED
    BY <1>4, <2>2, ValidFrame DEF ConnectTipInvalid
<1>5. CASE ConnectTip
  <2>1. PICK b \in Blocks : /\ NextToConnect(b) /\ Connectable(b)
                            /\ coinsTip' = b /\ tip' = b /\ ConnectWrite(b)
    BY <1>5 DEF ConnectTip, AfterConnect
  <2>2. \A x \in Blocks : dbStatus'[x] \in {dbStatus[x], nStatus[x]}
    BY <1>0, <2>1 DEF ConnectWrite
  <2> QED
    BY <1>5, <2>1, <2>2, ConnectedValid, ValidFrame DEF ConnectTip
<1>6. CASE ConnectTipFlush
  <2>1. PICK b \in Blocks : /\ NextToConnect(b) /\ Connectable(b) /\ coinsTip' = b
                            /\ ConnectWrite(b)
    BY <1>6 DEF ConnectTipFlush
  <2>2. \A x \in Blocks : dbStatus'[x] \in {dbStatus[x], nStatus[x]}
    BY <1>0, <2>1 DEF ConnectWrite
  <2> QED
    BY <1>6, <2>1, <2>2, ConnectedValid, ValidFrame DEF ConnectTipFlush
<1>7. CASE ConnectEnd \/ DisconnectEnd
  BY <1>7, ValidFrame DEF ConnectEnd, AfterConnect, DisconnectEnd
<1>8. CASE WriteBlockIndex
  <2>1. \A x \in Blocks : dbStatus'[x] \in {dbStatus[x], nStatus[x]}
    BY <1>0, <1>8 DEF WriteBlockIndex
  <2> QED
    BY <1>8, <2>1, ValidFrame DEF WriteBlockIndex
<1> QED
  BY <1>1, <1>2, <1>3, <1>4, <1>5, <1>6, <1>7, <1>8 DEF Activate

LEMMA ValidFlush ==
    ASSUME IndInv, ValidInv, NEW why, FlushBegin(why) PROVE ValidInv'
BY ValidFrame DEF FlushBegin

LEMMA ValidCommands ==
    ASSUME IndInv, ValidInv, Flush \/ Invalidate \/ Reconsider \/ Dispute \/ Reprocess \/ Verify
    PROVE  ValidInv'
<1>0. tip \in Blocks /\ nStatus \in [Blocks -> SUBSET Flags]
  BY DEF IndInv, TypeOK
<1>1. CASE Flush
  BY <1>1, ValidFlush, ValidFrame DEF Flush, FlushStateToDisk, FlushEnd
<1>2. CASE Invalidate
  <2>1. ASSUME NEW b \in Blocks, InvalidateBlock(b) PROVE ValidInv'
    <3>1. \A x \in Blocks : "data" \in nStatus'[x] => "data" \in nStatus[x]
      BY <1>0, <2>1 DEF InvalidateBlock
    <3> QED
      BY <2>1, <3>1, ValidFrame DEF InvalidateBlock
  <2>2. CASE InvalidateDisconnectTip
    <3>1. tip # Genesis
      BY <2>2, TreeAssumption DEF InvalidateDisconnectTip, Contains, IndInv, OpShape
    <3>2. \A x \in Blocks : "data" \in nStatus'[x] => "data" \in nStatus[x]
      BY <1>0, <2>2 DEF InvalidateDisconnectTip
    <3> QED
      BY <2>2, <3>1, <3>2, ValidDisconnect DEF InvalidateDisconnectTip
  <2>3. CASE InvalidateEnd
    BY <2>3, ValidFrame DEF InvalidateEnd
  <2> QED
    BY <1>2, <2>1, <2>2, <2>3 DEF Invalidate
<1>3. CASE Reconsider
  BY <1>3, ReconsiderFacts, ValidFrame DEF Reconsider, ReconsiderBlock
<1>4. CASE Dispute
  BY <1>4, ValidFrame DEF Dispute, ChangeVerdict
<1>5. CASE Reprocess
  <2>1. ASSUME NEW b \in Blocks, ReprocessReconsider(b) PROVE ValidInv'
    BY <2>1, ReconsiderFacts, ValidFrame DEF ReprocessReconsider
  <2>2. CASE ReprocessDisconnectTip
    BY <2>2, ValidDisconnect DEF ReprocessDisconnectTip
  <2> QED
    BY <1>5, <2>1, <2>2, ValidFrame
       DEF Reprocess, ReprocessBlocks, DisconnectBlocksAndReprocess, ReprocessAtGenesis, ReprocessEnd
<1>6. CASE Verify
  <2>1. \A x \in Blocks : dbStatus'[x] \in {dbStatus[x], nStatus[x]}
    BY <1>6 DEF Verify, VerifyDB
  <2> QED
    BY <1>6, <2>1, ValidFrame DEF Verify, VerifyDB
<1> QED
  BY <1>1, <1>2, <1>3, <1>4, <1>5, <1>6

LEMMA ValidStopStart == ASSUME IndInv, ValidInv, Stop \/ Start PROVE ValidInv'
<1>0. NoBad(Genesis)
  BY TreeAssumption, EnvironmentAssumption DEF NoBad
<1>1. CASE MemoryLost /\ dbStatus' = dbStatus /\ dbTip' \in {dbTip, coinsTip}
  BY <1>0, <1>1, ValidFrame DEF MemoryLost
<1>2. CASE LoadBlockIndexGuts /\ dbStatus' = dbStatus /\ dbTip' = dbTip
  <2>1. ActiveChainValid'
    BY <1>2 DEF LoadBlockIndexGuts, ValidInv, ActiveChainValid
  <2>2. BadBodiesRefused'
    BY <1>2 DEF LoadBlockIndexGuts, ValidInv, BadBodiesRefused
  <2> QED
    BY <2>1, <2>2 DEF ValidInv
<1>3. CASE Shutdown \/ FixFlush
  BY <1>3, ValidFlush DEF Shutdown, FixFlush
<1>4. CASE LoadStub \/ FixProcessBlock \/ FixNothing \/ FixEnd \/ RebuildStakePointerCache
  BY <1>4, ValidFrame DEF LoadStub, FixProcessBlock, FixNothing, FixEnd, RebuildStakePointerCache
<1> QED
  BY <1>1, <1>2, <1>3, <1>4
     DEF Stop, ShutdownEnd, Crash, Start, LoadBlockIndexDB, LoadAsserts, LoadInconsistent,
         FixAsserts, FixAbort

LEMMA ValidStep == ASSUME IndInv, PathInv, ValidInv, [Next]_vars PROVE ValidInv'
<1>1. CASE UNCHANGED vars
  BY <1>1, ValidFrame DEF vars
<1> QED
  BY <1>1, ValidReceive, ValidActivate, ValidCommands, ValidStopStart DEF Next, NextUp, NextSteady

LEMMA ValidInit == Init => IndInv /\ PathInv /\ ValidInv
<1> SUFFICES ASSUME Init PROVE ValidInv
  BY UpInit
<1>1. NoBad(Genesis)
  BY TreeAssumption, EnvironmentAssumption DEF NoBad
<1> QED
  BY <1>1, EnvironmentAssumption DEF Init, ValidInv, ActiveChainValid, BadBodiesRefused

\* Neither the active chain nor the chain the coins database is at ever has a
\* block that ContextualCheckBlock or ConnectBlock refuses for its own sake,
\* through every reorganisation, command, crash, repair and restart.
THEOREM ChainStaysValid == Spec => []ActiveChainValid
<1>1. IndInv /\ PathInv /\ ValidInv /\ [Next]_vars => IndInv' /\ PathInv' /\ ValidInv'
  BY NextInv, PathStep, ValidStep
<1>2. ValidInv => ActiveChainValid
  BY DEF ValidInv
<1> QED
  BY <1>1, <1>2, ValidInit, PTL DEF Spec

-----------------------------------------------------------------------------
(* The candidates at the end of a start. *)

\* A block that is good in itself and marked failed.
Spurious(b) == NoBad(b) /\ IsFailed(b)

\* ... and that is on disk as such, or will be after the next flush.
Pending == \E b \in Blocks : Spurious(b) /\ (b \in setDirtyBlockIndex \/ DbFailed(b))

\* A candidate that is better than every linked block that is good in itself
\* and no candidate.
Leads(w) ==
    /\ w \in setBlockIndexCandidates /\ NoBad(w)
    /\ \A x \in linked : NoBad(x) /\ x \notin setBlockIndexCandidates => WorseNow(x, w)

\* While the repair runs and no block is marked without a fault, some candidate
\* leads, and the tip is one whenever ActivateBestChain is not under way.
RepairLeads ==
    /\ \A b \in Blocks : ~Spurious(b)
    /\ \E w \in Blocks : Leads(w)
    /\ op = "step" => pindexMostWork \in setBlockIndexCandidates
    /\ op \in {"find", "step"} => activating
    /\ op \in {"meta", "fix", "abort"} => ~activating
    /\ op \notin {"find", "step"} /\ ~activating => tip \in setBlockIndexCandidates

RepairInv == phase = "fix" => Pending \/ RepairLeads

StartInv ==
    /\ NotRunning => ~activating
    /\ RepairInv
    /\ CandidateAtStart

\* Nothing but a start is done by a process that is not running, and nothing
\* but ActivateBestChain by one that repairs its index.
LEMMA HandlersRun ==
    ASSUME IndInv, NextUp
    PROVE  Alive /\ ~NotRunning /\ phase' = phase /\ (phase = "fix" => Activate)
<1>1. CASE Receive
  BY <1>1 DEF Receive, AcceptBlockHeader, ProcessRejectedBlock, ProcessKnownBlock,
              ProcessBadBlock, ProcessNewBlock, LockFree, NotRunning, Alive
<1>2. CASE Activate
  <2>1. phase' = phase
    BY <1>2 DEF Activate, WriteBlockIndex, DiscardCandidate, ActivateDone, ActivateBestChainStep, StepDisconnectTip,
       StepOnlyDisconnects, ConnectTipInvalid, ConnectTip, ConnectTipFlush, ConnectEnd, DisconnectEnd
  <2>2. Alive /\ ~NotRunning
    BY <1>2 DEF Activate, WriteBlockIndex, DiscardCandidate, ActivateDone, ActivateBestChainStep, StepDisconnectTip,
       StepOnlyDisconnects, ConnectTipInvalid, ConnectTip, ConnectTipFlush, ConnectEnd, DisconnectEnd,
       NextToConnect, Running, IndInv, TypeOK, OpShape, NotRunning, Alive
  <2> QED
    BY <1>2, <2>1, <2>2
<1>3. CASE Flush
  BY <1>3 DEF Flush, FlushStateToDisk, FlushBegin, FlushEnd, LockFree, IndInv, TypeOK, OpShape, NotRunning, Alive
<1>4. CASE Invalidate
  BY <1>4 DEF Invalidate, InvalidateBlock, InvalidateDisconnectTip, InvalidateEnd, Command, LockFree,
              IndInv, TypeOK, OpShape, NotRunning, Alive
<1>5. CASE Reconsider \/ Dispute \/ Verify
  BY <1>5 DEF Reconsider, ReconsiderBlock, Dispute, ChangeVerdict, Verify, VerifyDB, Command,
              LockFree, NotRunning, Alive
<1>6. CASE Reprocess
  BY <1>6 DEF Reprocess, ReprocessBlocks, ReprocessReconsider, DisconnectBlocksAndReprocess,
              ReprocessDisconnectTip, ReprocessAtGenesis, ReprocessEnd, Command, LockFree,
              IndInv, TypeOK, OpShape, NotRunning, Alive
<1> QED
  BY <1>1, <1>2, <1>3, <1>4, <1>5, <1>6 DEF NextUp, NextSteady

\* The steps that may leave the process in the repair or stopped by the assertion.
LEMMA StartSteps ==
    ASSUME IndInv, Next, phase' \in {"fix", "asserted"}
    PROVE  \/ LoadInconsistent \/ FixProcessBlock \/ FixNothing \/ FixFlush
           \/ Activate /\ phase = "fix" /\ phase' = "fix"
           \/ LoadAsserts \/ FixAsserts
<1>1. CASE NextUp
  BY <1>1, HandlersRun DEF NotRunning
<1>2. CASE Stop
  BY <1>2 DEF Stop, Shutdown, FlushBegin, ShutdownEnd, Crash, LockFree
<1>3. CASE Start
  BY <1>3 DEF Start, LoadStub, LoadBlockIndexDB, FixEnd, FixAbort, RebuildStakePointerCache
<1> QED
  BY <1>1, <1>2, <1>3 DEF Next

\* A mark without a fault stays, in the index and on its way to disk.
LEMMA PendingKept ==
    ASSUME Pending,
           \A x \in Blocks : IsFailed(x) => IsFailed(x)',
           \A x \in Blocks : IsFailed(x) /\ (x \in setDirtyBlockIndex \/ DbFailed(x))
               => x \in setDirtyBlockIndex' \/ DbFailed(x)'
    PROVE  Pending'
BY DEF Pending, Spurious, NoBad

\* Steps that leave marks, candidates and order alone.
LEMMA LeadsFrame ==
    ASSUME RepairLeads,
           UNCHANGED <<nStatus, linked, setBlockIndexCandidates, nSequenceId, addr>>,
           op' = "step" => pindexMostWork' \in setBlockIndexCandidates,
           op' \in {"find", "step"} => activating',
           op' \in {"meta", "fix", "abort"} => ~activating',
           op' \notin {"find", "step"} /\ ~activating' => tip' \in setBlockIndexCandidates
    PROVE  RepairLeads'
<1>1. \A b \in Blocks : ~Spurious(b)'
  BY DEF RepairLeads, Spurious, IsFailed, NoBad
<1>2. \E w \in Blocks : Leads(w)'
  BY DEF RepairLeads, Leads, NoBad, WorseNow
<1> QED
  BY <1>1, <1>2 DEF RepairLeads

\* Steps that mark and drop only blocks with a bad ancestor.
LEMMA LeadsDrop ==
    ASSUME RepairLeads, TypeOK, activating, activating', op' \in {"free", "find"},
           UNCHANGED <<linked, nSequenceId, addr>>,
           \A x \in Blocks : NoBad(x) => (IsFailed(x)' => IsFailed(x)),
           \A x \in Blocks : NoBad(x) => (x \in setBlockIndexCandidates' <=> x \in setBlockIndexCandidates)
    PROVE  RepairLeads'
<1>1. \A b \in Blocks : ~Spurious(b)'
  BY DEF RepairLeads, Spurious, NoBad
<1>2. PICK w \in Blocks : Leads(w)
  BY DEF RepairLeads
<1>3. Leads(w)'
  BY <1>2 DEF Leads, NoBad, WorseNow, TypeOK
<1> QED
  BY <1>1, <1>3 DEF RepairLeads

\* A block that is good in itself becomes the tip.
LEMMA LeadsRaise ==
    ASSUME IndInv, RepairLeads, op = "step", NEW b \in Blocks, b \in linked,
           b \in Ancestors[pindexMostWork], NoBad(b), AfterConnect(b),
           UNCHANGED <<nStatus, linked, nSequenceId, addr, pindexMostWork>>
    PROVE  RepairLeads'
<1> USE DEF AfterConnect
<1>0. TypeOK /\ pindexMostWork \in Blocks /\ linked \subseteq Blocks
      /\ pindexMostWork \in setBlockIndexCandidates
  BY DEF IndInv, TypeOK, RepairLeads
<1>1. setBlockIndexCandidates' = {c \in setBlockIndexCandidates : ~WorseNow(c, b)}
  BY DEF PruneBlockIndexCandidates
<1>2. PICK w \in Blocks : Leads(w)
  BY DEF RepairLeads
<1>3. \A x, y : WorseNow(x, y)' <=> WorseNow(x, y)
  BY DEF WorseNow
<1>4. ASSUME WorseNow(w, b) PROVE Leads(b)'
  <2>1. b \in setBlockIndexCandidates /\ ~WorseNow(b, b)
    BY <1>0, <1>2, <1>4, WorseNowOrder DEF Leads
  <2>2. ASSUME NEW x \in linked, NoBad(x), x \notin setBlockIndexCandidates' PROVE WorseNow(x, b)
    BY <1>0, <1>1, <1>2, <1>4, <2>2, WorseNowOrder DEF Leads
  <2> QED
    BY <1>1, <1>3, <2>1, <2>2 DEF Leads, NoBad
<1>5. ASSUME ~WorseNow(w, b) PROVE Leads(w)'
  <2>1. w = b \/ WorseNow(b, w)
    BY <1>0, <1>5, WorseNowOrder
  <2>2. ASSUME NEW x \in linked, NoBad(x), x \notin setBlockIndexCandidates' PROVE WorseNow(x, w)
    BY <1>0, <1>1, <1>2, <2>1, <2>2, WorseNowOrder DEF Leads
  <2> QED
    BY <1>1, <1>2, <1>3, <1>5, <2>2 DEF Leads, NoBad
<1>6. \E v \in Blocks : Leads(v)'
  BY <1>4, <1>5
<1>7. pindexMostWork' \in setBlockIndexCandidates'
  BY <1>0, <1>1, AncestorWorse, WorseNowOrder
<1>8. \A x \in Blocks : ~Spurious(x)'
  BY DEF RepairLeads, Spurious, IsFailed, NoBad
<1> QED
  BY <1>6, <1>7, <1>8 DEF RepairLeads

LEMMA RepairActivate ==
    ASSUME IndInv, PathInv, ValidInv, Pending \/ RepairLeads, Activate, phase = "fix"
    PROVE  Pending' \/ RepairLeads'
<1>0. /\ TypeOK /\ tip \in Blocks /\ coinsTip \in Blocks /\ nStatus \in [Blocks -> SUBSET Flags]
      /\ dbStatus \in [Blocks -> SUBSET Flags] /\ linked \subseteq Blocks
  BY DEF IndInv, TypeOK
<1>1. CASE DiscardCandidate
  <2>0. PICK c \in Blocks : \E x \in FailedOnPath(c) :
         /\ nStatus' = [b \in Blocks |-> IF b \in Ancestors[c] \ Ancestors[x]
                                         THEN nStatus[b] \cup {"fchild"} ELSE nStatus[b]]
         /\ setBlockIndexCandidates' =
               setBlockIndexCandidates \ ((Ancestors[c] \ Ancestors[x]) \cup {x})
    BY <1>1 DEF DiscardCandidate
  <2>1. PICK x \in FailedOnPath(c) :
         /\ nStatus' = [b \in Blocks |-> IF b \in Ancestors[c] \ Ancestors[x]
                                         THEN nStatus[b] \cup {"fchild"} ELSE nStatus[b]]
         /\ setBlockIndexCandidates' =
               setBlockIndexCandidates \ ((Ancestors[c] \ Ancestors[x]) \cup {x})
    BY <2>0
  <2>2. x \in Ancestors[c] /\ x \in Blocks /\ IsFailed(x)
    BY AncestorFacts DEF FailedOnPath
  <2>3. \A y \in (Ancestors[c] \ Ancestors[x]) \cup {x} : x \in Ancestors[y] /\ y \in Blocks
    BY <2>2, TreeAssumption, AncestorFacts
  <2>4. \A y \in Blocks : IsFailed(y) => IsFailed(y)'
    BY <1>0, <2>1 DEF IsFailed, TypeOK
  <2>5. ASSUME Pending PROVE Pending'
    BY <1>1, <2>4, <2>5, PendingKept DEF DiscardCandidate, DbFailed
  <2>6. ASSUME RepairLeads PROVE RepairLeads'
    <3>1. ~NoBad(x)
      BY <2>2, <2>6 DEF RepairLeads, Spurious
    <3>2. \A y \in (Ancestors[c] \ Ancestors[x]) \cup {x} : ~NoBad(y)
      BY <2>3, <3>1, NoBadBelow
    <3>3. \A y \in Blocks : NoBad(y) => (IsFailed(y)' => IsFailed(y))
      BY <2>1, <3>2 DEF IsFailed
    <3>4. \A y \in Blocks : NoBad(y) =>
             (y \in setBlockIndexCandidates' <=> y \in setBlockIndexCandidates)
      BY <2>1, <3>2
    <3> QED
      BY <1>0, <1>1, <2>6, <3>3, <3>4, LeadsDrop DEF DiscardCandidate
  <2> QED
    BY <2>5, <2>6
<1>2. CASE ActivateDone \/ ActivateBestChainStep \/ StepOnlyDisconnects
  <2> USE DEF ActivateDone, ActivateBestChainStep, StepOnlyDisconnects
  <2>1. ASSUME Pending PROVE Pending'
    BY <1>2, <2>1, PendingKept DEF DbFailed, IsFailed
  <2>2. ASSUME RepairLeads PROVE RepairLeads'
    <3>1. setBlockIndexCandidates # {}
      BY <2>2 DEF RepairLeads, Leads
    <3> QED
      BY <1>2, <2>2, <3>1, LeadsFrame DEF RepairLeads, IsBestCandidate
  <2> QED
    BY <2>1, <2>2
<1>3. CASE StepDisconnectTip
  <2> USE DEF StepDisconnectTip, DisconnectBegin
  <2>1. ASSUME Pending PROVE Pending'
    BY <1>3, <2>1, PendingKept DEF DbFailed, IsFailed
  <2>2. ASSUME RepairLeads PROVE RepairLeads'
    BY <1>3, <2>2, LeadsFrame DEF RepairLeads
  <2> QED
    BY <2>1, <2>2
<1>4. CASE ConnectTipInvalid
  <2>1. PICK b \in Blocks : /\ NextToConnect(b)
                            /\ nStatus' = [nStatus EXCEPT ![b] = @ \cup {"fvalid"}]
                            /\ setDirtyBlockIndex' = setDirtyBlockIndex \cup {b}
                            /\ setBlockIndexCandidates' = setBlockIndexCandidates \ {b}
                            /\ dbStatus' = dbStatus \/ ConnectWrite(b)
    BY <1>4 DEF ConnectTipInvalid, RefusedBeforeWrite, RefusedAfterWrite
  <2>2. \A x \in Blocks : IsFailed(x)' <=> IsFailed(x) \/ x = b
    BY <1>0, <2>1 DEF IsFailed, BLOCK_FAILED_MASK
  <2>3. \A x \in Blocks : x # b => dbStatus'[x] = dbStatus[x]
    BY <1>0, <2>1 DEF ConnectWrite
  <2>4. ASSUME Pending PROVE Pending'
    BY <2>1, <2>2, <2>3, <2>4, PendingKept DEF DbFailed
  <2>5. ASSUME NoBad(b) PROVE Pending'
    BY <2>1, <2>2, <2>5 DEF Pending, Spurious, NoBad
  <2>6. ASSUME RepairLeads, ~NoBad(b) PROVE RepairLeads'
    <3>1. activating /\ activating' /\ op' = "free"
      BY <1>4, <2>1, <2>6 DEF ConnectTipInvalid, NextToConnect, RepairLeads
    <3>2. \A x \in Blocks : NoBad(x) => (IsFailed(x)' => IsFailed(x))
      BY <2>2, <2>6
    <3>3. \A y \in Blocks : NoBad(y) =>
             (y \in setBlockIndexCandidates' <=> y \in setBlockIndexCandidates)
      BY <2>1, <2>6
    <3> QED
      BY <1>0, <1>4, <2>6, <3>1, <3>2, <3>3, LeadsDrop DEF ConnectTipInvalid
  <2> QED
    BY <2>4, <2>5, <2>6
<1>5. CASE ConnectTip
  <2>1. PICK b \in Blocks : /\ NextToConnect(b) /\ Connectable(b) /\ AfterConnect(b)
                            /\ setDirtyBlockIndex' = setDirtyBlockIndex \cup {b}
                            /\ ConnectWrite(b) /\ coinsTip' = b
                            /\ mapUsedStakePointers' = RecordPointer(mapUsedStakePointers, b)
    BY <1>5 DEF ConnectTip
  <2>2. ~IsFailed(b) /\ b \in linked /\ b \in Ancestors[pindexMostWork] /\ NoBad(b) /\ op = "step"
    BY <2>1, NextUnfailed, ConnectFacts, ConnectedValid DEF NextToConnect
  <2>3. \A x \in Blocks : x # b => dbStatus'[x] = dbStatus[x]
    BY <1>0, <2>1 DEF ConnectWrite
  <2>4. ASSUME Pending PROVE Pending'
    BY <1>5, <2>1, <2>2, <2>3, <2>4, PendingKept DEF ConnectTip, DbFailed, IsFailed
  <2>5. ASSUME RepairLeads PROVE RepairLeads'
    BY <1>5, <2>1, <2>2, <2>5, LeadsRaise DEF ConnectTip
  <2> QED
    BY <2>4, <2>5
<1>6. CASE ConnectTipFlush
  <2>1. PICK b \in Blocks : /\ NextToConnect(b)
                            /\ setDirtyBlockIndex' = setDirtyBlockIndex \cup {b}
                            /\ ConnectWrite(b)
    BY <1>6 DEF ConnectTipFlush
  <2>2. ASSUME Pending PROVE Pending'
    <3>1. \A x \in Blocks : x # b => dbStatus'[x] = dbStatus[x]
      BY <1>0, <2>1 DEF ConnectWrite
    <3> QED
      BY <1>6, <2>1, <2>2, <3>1, PendingKept DEF ConnectTipFlush, DbFailed, IsFailed
  <2>3. ASSUME RepairLeads PROVE RepairLeads'
    BY <1>6, <2>1, <2>3, LeadsFrame DEF ConnectTipFlush, NextToConnect, RepairLeads
  <2> QED
    BY <2>2, <2>3
<1>7. CASE ConnectEnd
  <2>1. coinsTip \in linked /\ coinsTip \in Ancestors[pindexMostWork] /\ NoBad(coinsTip) /\ op = "step"
    BY <1>7, CoinsTipUnfailed, StepAlive DEF ConnectEnd, ValidInv, ActiveChainValid, IndInv, TargetsLinked
  <2>2. ASSUME Pending PROVE Pending'
    BY <1>7, <2>2, PendingKept DEF ConnectEnd, DbFailed, IsFailed
  <2>3. ASSUME RepairLeads PROVE RepairLeads'
    BY <1>0, <1>7, <2>1, <2>3, LeadsRaise DEF ConnectEnd
  <2> QED
    BY <2>2, <2>3
<1>8. CASE DisconnectEnd
  <2>1. op = "step"
    BY <1>8 DEF DisconnectEnd, IndInv, OpShape
  <2>2. ASSUME Pending PROVE Pending'
    BY <1>8, <2>2, PendingKept DEF DisconnectEnd, DbFailed, IsFailed
  <2>3. ASSUME RepairLeads PROVE RepairLeads'
    BY <1>8, <2>1, <2>3, LeadsFrame DEF DisconnectEnd, RepairLeads
  <2> QED
    BY <2>2, <2>3
<1>9. CASE WriteBlockIndex
  <2>1. ASSUME NEW x \in Blocks, IsFailed(x), x \in setDirtyBlockIndex \/ DbFailed(x)
        PROVE  x \in setDirtyBlockIndex' \/ DbFailed(x)'
    BY <1>0, <1>9, <2>1 DEF WriteBlockIndex, DbFailed, IsFailed
  <2>2. ASSUME Pending PROVE Pending'
    BY <1>9, <2>1, <2>2, PendingKept DEF WriteBlockIndex, IsFailed
  <2>3. ASSUME RepairLeads PROVE RepairLeads'
    BY <1>9, <2>3, LeadsFrame DEF WriteBlockIndex, RepairLeads
  <2> QED
    BY <2>2, <2>3
<1> QED
  BY <1>1, <1>2, <1>3, <1>4, <1>5, <1>6, <1>7, <1>8, <1>9 DEF Activate

\* What LoadBlockIndexDB finds on disk.
LEMMA RepairBegins ==
    ASSUME IndInv, ValidInv, StartInv, LoadInconsistent
    PROVE  Pending' \/ RepairLeads'
<1> USE DEF LoadInconsistent, LoadBlockIndexGuts
<1>1. \A x \in Blocks : IsFailed(x)' <=> DbFailed(x)
  BY DEF IsFailed, DbFailed
<1>2. ASSUME NEW b \in Blocks, Spurious(b)' PROVE Pending'
  BY <1>1, <1>2 DEF Pending, Spurious, DbFailed
<1>3. ASSUME \A b \in Blocks : ~Spurious(b)' PROVE RepairLeads'
  <2>1. \A x \in Blocks : NoBad(x) => ~DbFailed(x)
    BY <1>1, <1>3 DEF Spurious, NoBad
  <2>2. \A x \in linked' : NoBad(x) => x \in setBlockIndexCandidates'
    BY <2>1 DEF LoadedCandidates, LoadedLinked, DbFailed
  <2>3. dbTip \in LoadedLinked /\ dbTip \in Blocks /\ NoBad(dbTip)
    BY AncestorFacts DEF LoadedLinked, LoadedData, IndInv, TypeOK, DiskLoadable, ValidInv,
       ActiveChainValid
  <2>4. Leads(dbTip)' /\ tip' \in setBlockIndexCandidates'
    BY <2>2, <2>3 DEF Leads, NoBad
  <2>5. ~activating' /\ op' = "meta"
    BY DEF StartInv
  <2> QED
    BY <1>3, <2>3, <2>4, <2>5 DEF RepairLeads
<1> QED
  BY <1>2, <1>3

\* The assertion fails for a block that is marked on disk without a fault.
LEMMA AssertedAtLoad ==
    ASSUME IndInv, ValidInv, LoadAsserts PROVE CandidateAtStart'
<1>1. PICK ad \in AddressOrders :
         \A b \in LoadedCandidates : Worse(b, dbTip, [x \in Blocks |-> 0], ad)
  BY DEF LoadAsserts
<1>2. dbTip \in LoadedLinked /\ dbTip \in Blocks /\ NoBad(dbTip)
  BY AncestorFacts DEF LoadedLinked, LoadedData, IndInv, TypeOK, DiskLoadable, ValidInv,
     ActiveChainValid
<1>3. [x \in Blocks |-> 0] \in [Blocks -> Nat]
  OBVIOUS
<1>4. ~Worse(dbTip, dbTip, [x \in Blocks |-> 0], ad)
  BY <1>2, <1>3, WorseOrder
<1>5. dbStatus[dbTip] \cap BLOCK_FAILED_MASK # {}
  BY <1>1, <1>2, <1>4 DEF LoadedCandidates
<1> QED
  BY <1>2, <1>5 DEF CandidateAtStart, LoadAsserts, NoBad

LEMMA AssertedAtFix ==
    ASSUME IndInv, StartInv, FixAsserts PROVE CandidateAtStart'
<1> USE DEF FixAsserts
<1>1. phase = "fix" /\ setDirtyBlockIndex = {}
  BY DEF IndInv, OpShape, Writing
<1>2. CASE Pending
  BY <1>1, <1>2 DEF Pending, Spurious, DbFailed, CandidateAtStart, NoBad
<1>3. CASE RepairLeads
  <2>1. tip \in setBlockIndexCandidates
    BY <1>3 DEF RepairLeads
  <2>2. ~WorseNow(tip, tip)
    BY WorseNowOrder DEF IndInv, TypeOK
  <2> QED
    BY <2>1, <2>2 DEF PruneBlockIndexCandidates
<1> QED
  BY <1>1, <1>2, <1>3 DEF StartInv, RepairInv

LEMMA StartInvStep ==
    ASSUME IndInv, PathInv, ValidInv, StartInv, [Next]_vars PROVE StartInv'
<1>1. CASE UNCHANGED vars
  BY <1>1 DEF vars, StartInv, RepairInv, CandidateAtStart, Pending, RepairLeads, Spurious, DbFailed,
              IsFailed, Leads, WorseNow, NoBad, NotRunning
<1>2. CASE Next
  <2>1. ASSUME NotRunning' PROVE activating' = FALSE
    <3>1. Stop \/ Start
      BY <1>2, <2>1, HandlersRun DEF Next, NotRunning
    <3> QED
      BY <2>1, <3>1 DEF Stop, Shutdown, FlushBegin, LockFree, ShutdownEnd, Crash, MemoryLost, Start,
         LoadStub, LoadBlockIndexDB, LoadAsserts, LoadInconsistent, FixProcessBlock, FixNothing, FixFlush,
         FixEnd, FixAsserts, FixAbort, RebuildStakePointerCache, NotRunning, IndInv, OpShape
  <2>2. ASSUME phase' = "fix" PROVE Pending' \/ RepairLeads'
    <3>1. CASE LoadInconsistent
      BY <3>1, RepairBegins
    <3>2. CASE Activate /\ phase = "fix"
      BY <3>2, RepairActivate DEF StartInv, RepairInv
    <3>3. CASE FixProcessBlock \/ FixNothing
      <4>0. phase = "fix" /\ op = "meta" /\ op' = "free"
        BY <3>3 DEF FixProcessBlock, FixNothing, IndInv, OpShape
      <4>1. ASSUME Pending PROVE Pending'
        BY <3>3, <4>1, PendingKept DEF FixProcessBlock, FixNothing, DbFailed, IsFailed
      <4>2. ASSUME RepairLeads PROVE RepairLeads'
        <5>1. tip \in setBlockIndexCandidates /\ tip' = tip
          BY <3>3, <4>0, <4>2 DEF RepairLeads, FixProcessBlock, FixNothing
        <5> QED
          BY <3>3, <4>0, <4>2, <5>1, LeadsFrame DEF FixProcessBlock, FixNothing
      <4> QED
        BY <4>0, <4>1, <4>2 DEF StartInv, RepairInv
    <3>4. CASE FixFlush
      <4>0. PICK why \in {"fix", "abort"} : FlushBegin(why)
        BY <3>4 DEF FixFlush
      <4>1. phase = "fix" /\ ((op = "free" /\ ~activating) \/ op = "meta")
        BY <3>4 DEF FixFlush, MetaUnreadable
      <4>2. ASSUME Pending PROVE Pending'
        BY <4>0, <4>2, PendingKept DEF FlushBegin, DbFailed, IsFailed
      <4>3. ASSUME RepairLeads PROVE RepairLeads'
        <5>1. tip \in setBlockIndexCandidates /\ ~activating
          BY <4>1, <4>3 DEF RepairLeads
        <5> QED
          BY <4>0, <4>3, <5>1, LeadsFrame DEF FlushBegin
      <4> QED
        BY <4>1, <4>2, <4>3 DEF StartInv, RepairInv
    <3> QED
      BY <1>2, <2>2, <3>1, <3>2, <3>3, <3>4, StartSteps DEF LoadAsserts, FixAsserts
  <2>3. ASSUME phase' = "asserted" PROVE CandidateAtStart'
    BY <1>2, <2>3, StartSteps, AssertedAtLoad, AssertedAtFix
       DEF LoadInconsistent, FixProcessBlock, FixNothing, FixFlush, FlushBegin, IndInv, OpShape
  <2> QED
    BY <2>1, <2>2, <2>3 DEF StartInv, RepairInv, CandidateAtStart
<1> QED
  BY <1>1, <1>2

\* The assertion that some candidate is as good as the tip fails at a start, of
\* whatever a stop or a crash left and in the repair too, only when the disk
\* holds a mark on a block that breaks no rule.
THEOREM CandidatesAtStart == Spec => []CandidateAtStart
<1>1. Init => IndInv /\ PathInv /\ ValidInv /\ StartInv
  BY ValidInit DEF Init, StartInv, RepairInv, CandidateAtStart, NotRunning
<1>2. IndInv /\ PathInv /\ ValidInv /\ StartInv /\ [Next]_vars
         => IndInv' /\ PathInv' /\ ValidInv' /\ StartInv'
  BY NextInv, PathStep, ValidStep, StartInvStep
<1>3. StartInv => CandidateAtStart
  BY DEF StartInv
<1> QED
  BY <1>1, <1>2, <1>3, PTL DEF Spec

-----------------------------------------------------------------------------
(* The records of the block index. *)

\* Every entry and every record has a header; the index holds the parent of every
\* entry, and an entry whose record is not on disk waits for the next flush.
\* Nothing of the sort holds of the records alone while a flush writes them.
IndexWhole ==
    /\ \A b \in Blocks : /\ nStatus[b] # {} => "tree" \in nStatus[b]
                         /\ dbStatus[b] # {} => "tree" \in dbStatus[b]
    /\ Alive => /\ \A b \in Blocks : "tree" \in dbStatus[b] => "tree" \in nStatus[b]
                /\ \A b \in Blocks :
                      "tree" \in nStatus[b] => b \in setDirtyBlockIndex \/ "tree" \in dbStatus[b]
                /\ \A b \in Blocks \ {Genesis} :
                      "tree" \in nStatus[b] => "tree" \in nStatus[pprev[b]]
                /\ ~dbShutdown
    /\ ShutdownWhole

\* Steps of a running process that bring no header, and take an entry off
\* setDirtyBlockIndex only with its record written.
LEMMA WholeFrame ==
    ASSUME IndInv, IndexWhole, Alive, Alive', dbShutdown' = dbShutdown,
           \A x \in Blocks :
              /\ "tree" \in nStatus'[x] <=> "tree" \in nStatus[x]
              /\ nStatus'[x] # {} => nStatus[x] # {}
              /\ dbStatus'[x] \in {dbStatus[x], nStatus[x]}
              /\ x \in setDirtyBlockIndex => x \in setDirtyBlockIndex' \/ dbStatus'[x] = nStatus[x]
    PROVE  IndexWhole'
BY ParentFacts DEF IndexWhole, ShutdownWhole

LEMMA WholeReceive == ASSUME IndInv, IndexWhole, Receive PROVE IndexWhole'
<1>0. /\ nStatus \in [Blocks -> SUBSET Flags] /\ setDirtyBlockIndex \subseteq Blocks
      /\ \A b \in Blocks \ {Genesis} : pprev[b] \in Blocks
  BY ParentFacts DEF IndInv, TypeOK
<1>1. PICK b \in Blocks : \/ AcceptBlockHeader(b) \/ ProcessRejectedBlock(b)
                          \/ ProcessKnownBlock(b) \/ ProcessBadBlock(b) \/ ProcessNewBlock(b)
  BY DEF Receive
<1>2. Alive /\ Alive' /\ UNCHANGED <<dbStatus, dbShutdown>>
  BY <1>1 DEF AcceptBlockHeader, ProcessRejectedBlock, ProcessKnownBlock, ProcessBadBlock,
              ProcessNewBlock, LockFree, Alive
<1>3. CASE ProcessRejectedBlock(b) \/ ProcessKnownBlock(b)
  BY <1>2, <1>3, WholeFrame DEF ProcessRejectedBlock, ProcessKnownBlock
<1>4. CASE AcceptBlockHeader(b) \/ ProcessBadBlock(b) \/ ProcessNewBlock(b)
  <2>1. /\ \A x \in Blocks : x # b => nStatus'[x] = nStatus[x]
        /\ "tree" \in nStatus'[b]
        /\ setDirtyBlockIndex \cup {b} \subseteq setDirtyBlockIndex'
    BY <1>0, <1>4 DEF AcceptBlockHeader, ProcessBadBlock, ProcessNewBlock
  <2>2. b # Genesis => nStatus[pprev[b]] # {}
    BY <1>0, <1>4 DEF AcceptBlockHeader, ProcessBadBlock, ProcessNewBlock, BlockAcceptable,
                HeaderAcceptable, mapBlockIndex, IndexWhole
  <2> QED
    BY <1>0, <1>2, <2>1, <2>2 DEF IndexWhole, ShutdownWhole
<1> QED
  BY <1>1, <1>3, <1>4

\* A linked block is in the index.
LEMMA LinkedKnown ==
    ASSUME IndInv, Alive, NEW c \in linked, NEW b \in Ancestors[c]
    PROVE  b \in Blocks /\ nStatus[b] # {}
BY AncestorFacts DEF IndInv, TypeOK, LinkedExactly, HaveData

LEMMA WholeActivate == ASSUME IndInv, IndexWhole, Activate PROVE IndexWhole'
<1>0. nStatus \in [Blocks -> SUBSET Flags] /\ dbStatus \in [Blocks -> SUBSET Flags]
  BY DEF IndInv, TypeOK
<1>1. Alive /\ Alive'
  <2>1. Alive /\ phase' = phase
    BY HandlersRun DEF NextUp, NextSteady
  <2> QED
    BY <2>1 DEF Alive
<1>2. CASE DiscardCandidate
  <2>1. PICK c \in setBlockIndexCandidates : \E y \in Blocks :
          nStatus' = [b \in Blocks |-> IF b \in Ancestors[c] \ Ancestors[y]
                                       THEN nStatus[b] \cup {"fchild"} ELSE nStatus[b]]
    <3>1. PICK c \in Blocks : \E x \in FailedOnPath(c) :
            /\ IsBestCandidate(c)
            /\ nStatus' = [b \in Blocks |-> IF b \in Ancestors[c] \ Ancestors[x]
                                            THEN nStatus[b] \cup {"fchild"} ELSE nStatus[b]]
      BY <1>2 DEF DiscardCandidate
    <3> QED
      BY <3>1, AncestorFacts DEF IsBestCandidate, FailedOnPath
  <2>2. \A x \in Ancestors[c] : nStatus[x] # {}
    BY <1>1, LinkedKnown DEF IndInv, TargetsLinked
  <2>3. \A x \in Blocks : /\ "tree" \in nStatus'[x] <=> "tree" \in nStatus[x]
                          /\ nStatus'[x] # {} => nStatus[x] # {}
    BY <2>1, <2>2
  <2> QED
    BY <1>1, <1>2, <2>3, WholeFrame DEF DiscardCandidate
<1>3. CASE ActivateDone \/ ActivateBestChainStep \/ StepOnlyDisconnects
  BY <1>1, <1>3, WholeFrame DEF ActivateDone, ActivateBestChainStep, StepOnlyDisconnects
<1>4. CASE StepDisconnectTip
  BY <1>1, <1>4, WholeFrame DEF StepDisconnectTip, DisconnectBegin
<1>5. CASE ConnectTipInvalid
  <2>1. PICK b \in Blocks : /\ NextToConnect(b)
                            /\ nStatus' = [nStatus EXCEPT ![b] = @ \cup {"fvalid"}]
                            /\ setDirtyBlockIndex' = setDirtyBlockIndex \cup {b}
                            /\ dbStatus' = dbStatus \/ ConnectWrite(b)
    BY <1>5 DEF ConnectTipInvalid, RefusedBeforeWrite, RefusedAfterWrite
  <2>2. nStatus[b] # {}
    BY <1>1, <2>1, LinkedKnown DEF NextToConnect, IndInv, TargetsLinked
  <2>3. \A x \in Blocks : /\ "tree" \in nStatus'[x] <=> "tree" \in nStatus[x]
                          /\ nStatus'[x] # {} => nStatus[x] # {}
                          /\ dbStatus'[x] \in {dbStatus[x], nStatus[x]}
    BY <1>0, <2>1, <2>2 DEF ConnectWrite
  <2> QED
    BY <1>1, <1>5, <2>1, <2>3, WholeFrame DEF ConnectTipInvalid
<1>6. CASE ConnectTip \/ ConnectTipFlush
  <2>1. PICK b \in Blocks : ConnectWrite(b) /\ setDirtyBlockIndex' = setDirtyBlockIndex \cup {b}
    BY <1>6 DEF ConnectTip, ConnectTipFlush
  <2>2. \A x \in Blocks : dbStatus'[x] \in {dbStatus[x], nStatus[x]}
    BY <1>0, <2>1 DEF ConnectWrite
  <2> QED
    BY <1>1, <1>6, <2>1, <2>2, WholeFrame DEF ConnectTip, ConnectTipFlush
<1>7. CASE ConnectEnd \/ DisconnectEnd
  BY <1>1, <1>7, WholeFrame DEF ConnectEnd, DisconnectEnd
<1>8. CASE WriteBlockIndex
  <2>1. \A x \in Blocks :
           /\ dbStatus'[x] \in {dbStatus[x], nStatus[x]}
           /\ x \in setDirtyBlockIndex => x \in setDirtyBlockIndex' \/ dbStatus'[x] = nStatus[x]
    BY <1>0, <1>8 DEF WriteBlockIndex
  <2> QED
    BY <1>1, <1>8, <2>1, WholeFrame DEF WriteBlockIndex
<1> QED
  BY <1>2, <1>3, <1>4, <1>5, <1>6, <1>7, <1>8 DEF Activate

LEMMA WholeCommands ==
    ASSUME IndInv, IndexWhole, Flush \/ Invalidate \/ Reconsider \/ Dispute \/ Reprocess \/ Verify
    PROVE  IndexWhole'
<1>0. nStatus \in [Blocks -> SUBSET Flags] /\ dbStatus \in [Blocks -> SUBSET Flags]
  BY DEF IndInv, TypeOK
<1>1. Alive /\ Alive'
  <2>1. Alive /\ phase' = phase
    BY HandlersRun DEF NextUp, NextSteady
  <2> QED
    BY <2>1 DEF Alive
<1>2. CASE Flush
  BY <1>1, <1>2, WholeFrame DEF Flush, FlushStateToDisk, FlushBegin, FlushEnd
<1>3. CASE Invalidate
  <2>1. ASSUME NEW b \in Blocks, InvalidateBlock(b) PROVE IndexWhole'
    <3>1. \A x \in Blocks : /\ "tree" \in nStatus'[x] <=> "tree" \in nStatus[x]
                            /\ nStatus'[x] # {} => nStatus[x] # {}
      BY <1>0, <2>1 DEF InvalidateBlock, mapBlockIndex
    <3> QED
      BY <1>1, <2>1, <3>1, WholeFrame DEF InvalidateBlock
  <2>2. CASE InvalidateDisconnectTip
    <3>1. tip \in Blocks /\ nStatus[tip] # {}
      BY <1>1, LinkedKnown, AncestorFacts DEF IndInv, TypeOK, TargetsLinked
    <3>2. \A x \in Blocks : /\ "tree" \in nStatus'[x] <=> "tree" \in nStatus[x]
                            /\ nStatus'[x] # {} => nStatus[x] # {}
      BY <1>0, <2>2, <3>1 DEF InvalidateDisconnectTip
    <3> QED
      BY <1>1, <2>2, <3>2, WholeFrame DEF InvalidateDisconnectTip, DisconnectBegin
  <2>3. CASE InvalidateEnd
    BY <1>1, <2>3, WholeFrame DEF InvalidateEnd
  <2> QED
    BY <1>3, <2>1, <2>2, <2>3 DEF Invalidate
<1>4. ASSUME NEW b \in Blocks, ReconsiderBlocks({b}), UNCHANGED <<dbStatus, dbShutdown>>
      PROVE  IndexWhole'
  <2>1. \A x \in Blocks : /\ "tree" \in nStatus'[x] <=> "tree" \in nStatus[x]
                          /\ nStatus'[x] # {} => nStatus[x] # {}
    BY <1>4 DEF ReconsiderBlocks, BLOCK_FAILED_MASK
  <2>2. setDirtyBlockIndex \subseteq setDirtyBlockIndex'
    BY <1>4 DEF ReconsiderBlocks
  <2> QED
    BY <1>1, <1>4, <2>1, <2>2, WholeFrame
<1>5. CASE Reconsider
  BY <1>4, <1>5 DEF Reconsider, ReconsiderBlock
<1>6. CASE Dispute
  BY <1>1, <1>6, WholeFrame DEF Dispute, ChangeVerdict
<1>7. CASE Reprocess
  <2>1. ASSUME NEW b \in Blocks, ReprocessReconsider(b) PROVE IndexWhole'
    BY <1>4, <2>1 DEF ReprocessReconsider
  <2>2. CASE ReprocessDisconnectTip
    BY <1>1, <2>2, WholeFrame DEF ReprocessDisconnectTip, DisconnectBegin
  <2> QED
    BY <1>1, <1>7, <2>1, <2>2, WholeFrame
       DEF Reprocess, ReprocessBlocks, DisconnectBlocksAndReprocess, ReprocessAtGenesis, ReprocessEnd
<1>8. CASE Verify
  <2>1. \A x \in Blocks : dbStatus'[x] \in {dbStatus[x], nStatus[x]}
    BY <1>8 DEF Verify, VerifyDB
  <2> QED
    BY <1>1, <1>8, <2>1, WholeFrame DEF Verify, VerifyDB
<1> QED
  BY <1>2, <1>3, <1>5, <1>6, <1>7, <1>8

LEMMA WholeStopStart == ASSUME IndInv, IndexWhole, Stop \/ Start PROVE IndexWhole'
<1>0. dbShutdown \in BOOLEAN /\ (Alive => dbShutdown = FALSE)
  BY DEF IndInv, TypeOK, IndexWhole
<1>1. CASE ShutdownEnd
  <2>1. phase = "up" /\ setDirtyBlockIndex = {}
    BY <1>1 DEF ShutdownEnd, Writing, IndInv, OpShape
  <2>2. ASSUME NEW b \in Blocks \ {Genesis}, dbStatus[b] # {} PROVE dbStatus[pprev[b]] # {}
    <3>1. "tree" \in nStatus[pprev[b]]
      BY <2>1, <2>2 DEF IndexWhole, Alive
    <3> QED
      BY <2>1, <3>1, ParentFacts DEF IndexWhole, Alive
  <2>3. ~Orphaned'
    BY <1>1, <2>2 DEF Orphaned, ShutdownEnd
  <2> QED
    BY <1>1, <2>3 DEF ShutdownEnd, MemoryLost, IndexWhole, ShutdownWhole, Alive
<1>2. CASE Crash \/ FixAbort \/ LoadAsserts \/ FixAsserts
  <2>1. /\ MemoryLost /\ dbStatus' = dbStatus /\ dbShutdown' \in {dbShutdown, FALSE}
        /\ phase' \in {"down", "aborted", "asserted"}
    BY <1>2 DEF Crash, FixAbort, LoadAsserts, FixAsserts
  <2>2. dbShutdown' => dbShutdown
    BY <2>1
  <2>3. ShutdownWhole'
    BY <2>1, <2>2 DEF IndexWhole, ShutdownWhole, Orphaned
  <2> QED
    BY <2>1, <2>3 DEF MemoryLost, IndexWhole, Alive
<1>3. CASE LoadBlockIndexDB \/ LoadInconsistent
  <2>1. /\ nStatus' = dbStatus /\ dbStatus' = dbStatus /\ ~Orphaned
        /\ dbShutdown' = FALSE
    BY <1>0, <1>3 DEF LoadBlockIndexDB, LoadInconsistent, LoadBlockIndexGuts, Inconsistent
  <2> QED
    BY <2>1, ParentFacts DEF IndexWhole, ShutdownWhole, Orphaned
<1>4. CASE LoadStub
  BY <1>4 DEF LoadStub, IndexWhole, ShutdownWhole, Orphaned, Alive
<1>5. CASE Shutdown \/ FixFlush
  <2>1. /\ Alive /\ Alive' /\ dbShutdown' = dbShutdown
        /\ UNCHANGED <<nStatus, dbStatus, setDirtyBlockIndex>>
    BY <1>5 DEF Shutdown, FixFlush, FlushBegin, LockFree, Alive
  <2> QED
    BY <2>1, WholeFrame
<1>6. CASE FixProcessBlock \/ FixNothing \/ FixEnd \/ RebuildStakePointerCache
  <2>1. /\ Alive /\ Alive' /\ dbShutdown' = dbShutdown
        /\ UNCHANGED <<nStatus, dbStatus, setDirtyBlockIndex>>
    BY <1>0, <1>6 DEF FixProcessBlock, FixNothing, FixEnd, RebuildStakePointerCache, Alive,
                      IndInv, OpShape
  <2> QED
    BY <2>1, WholeFrame
<1> QED
  BY <1>1, <1>2, <1>3, <1>4, <1>5, <1>6 DEF Stop, Start

LEMMA WholeStep == ASSUME IndInv, IndexWhole, [Next]_vars PROVE IndexWhole'
<1>1. CASE UNCHANGED vars
  BY <1>1 DEF vars, IndexWhole, ShutdownWhole, Orphaned, Alive
<1> QED
  BY <1>1, WholeReceive, WholeActivate, WholeCommands, WholeStopStart DEF Next, NextUp, NextSteady

\* Although a flush writes the block index record by record, in the order of
\* memory addresses, and a crash between two of them may leave a record without
\* its parent's, the records a Shutdown leaves are whole: LoadBlockIndexGuts finds
\* the parent of each of them.
THEOREM ShutdownLeavesWhole == Spec => []ShutdownWhole
<1>1. Init => IndInv /\ PathInv /\ IndexWhole
  BY ValidInit, ParentFacts DEF Init, IndexWhole, ShutdownWhole
<1>2. IndInv /\ PathInv /\ IndexWhole /\ [Next]_vars => IndInv' /\ PathInv' /\ IndexWhole'
  BY NextInv, PathStep, WholeStep
<1>3. IndexWhole => ShutdownWhole
  BY DEF IndexWhole
<1> QED
  BY <1>1, <1>2, <1>3, PTL DEF Spec

=============================================================================
