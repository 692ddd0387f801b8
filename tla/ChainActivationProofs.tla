------------------------ MODULE ChainActivationProofs ------------------------
(***************************************************************************)
(* What ActivateBestChain achieves, for every tree of blocks: the          *)
(* candidates are exact, the tip is the best block when it returns, no     *)
(* block of the active chain is marked failed, a step never leaves a worse *)
(* tip, failure marks have a cause, and the assertion about the candidates *)
(* at a start fails only for a block that was marked without a fault.      *)
(***************************************************************************)
EXTENDS ChainProofs

USE DEF indexVars, linkVars, chainVars, verdictVars, diskVars, targetVars, stepVars,
        boundVars

-----------------------------------------------------------------------------
(* The order of tips. *)

\* CBlockIndexWorkComparator is a strict total order.
LEMMA WorseOrder ==
    ASSUME NEW seq \in [Blocks -> Nat], NEW ad \in AddressOrders,
           NEW a \in Blocks, NEW b \in Blocks, NEW c \in Blocks
    PROVE  /\ ~Worse(a, a, seq, ad)
           /\ Worse(a, b, seq, ad) /\ Worse(b, c, seq, ad) => Worse(a, c, seq, ad)
           /\ a = b \/ Worse(a, b, seq, ad) \/ Worse(b, a, seq, ad)
           /\ Worse(a, b, seq, ad) => ~Worse(b, a, seq, ad)
<1>1. ad \in [Blocks -> Int] /\ (ad[a] = ad[b] => a = b)
  BY EnvironmentAssumption
<1> QED
  BY <1>1, WorkAssumption DEF Worse

\* The same of the order in force.
LEMMA WorseNowOrder ==
    ASSUME TypeOK, NEW a \in Blocks, NEW b \in Blocks, NEW c \in Blocks
    PROVE  /\ ~WorseNow(a, a)
           /\ WorseNow(a, b) /\ WorseNow(b, c) => WorseNow(a, c)
           /\ a = b \/ WorseNow(a, b) \/ WorseNow(b, a)
           /\ WorseNow(a, b) => ~WorseNow(b, a)
BY WorseOrder DEF TypeOK, WorseNow

\* A proper ancestor is worse.
LEMMA AncestorWorse ==
    ASSUME NEW b \in Blocks, NEW a \in Ancestors[b], a # b
    PROVE  WorseNow(a, b)
BY WorkAssumption DEF WorseNow, Worse

\* A block that is no worse than b is no worse than an ancestor of b.
LEMMA NotWorseThanAncestor ==
    ASSUME TypeOK, NEW b \in Blocks, NEW a \in Ancestors[b], NEW c \in Blocks, ~WorseNow(c, b)
    PROVE  ~WorseNow(c, a)
BY AncestorWorse, WorseNowOrder, AncestorFacts

\* Linking blocks leaves the order of the linked ones alone.
LEMMA LinkingKeepsOrder ==
    ASSUME IndInv, NEW b \in Blocks, ProcessNewBlock(b)
    PROVE  /\ NewlyLinked(b) \cap linked = {} /\ NewlyLinked(b) \subseteq Blocks
           /\ nSequenceId' \in [Blocks -> Nat]
           /\ \A x, y \in linked : WorseNow(x, y)' <=> WorseNow(x, y)
<1> USE DEF ProcessNewBlock
<1>1. b \notin linked
  BY AncestorFacts DEF LockFree, IndInv, LinkedExactly, HaveData, Alive
<1>2. NewlyLinked(b) \cap linked = {} /\ NewlyLinked(b) \subseteq Blocks
  BY <1>1 DEF NewlyLinked, LockFree, IndInv, LinkedExactly, HaveData, Alive
<1>3. nSequenceId' \in [Blocks -> Nat]
  BY ReceiveStep DEF Receive, IndInv, TypeOK
<1>4. \A x \in linked : nSequenceId'[x] = nSequenceId[x]
  BY <1>2 DEF IndInv, TypeOK
<1> QED
  BY <1>2, <1>3, <1>4 DEF WorseNow, Worse

-----------------------------------------------------------------------------
(* The way to the target of a step. *)

\* A half-done write of a step goes the right way.
TargetAhead ==
    /\ write = "connect" => coinsTip \in Ancestors[pindexMostWork]
    /\ write = "disconnect" /\ op = "step" => tip \notin Ancestors[pindexMostWork]

\* No block that the step has still to connect is marked failed.
PathUnfailed ==
    op = "step" => \A a \in Ancestors[pindexMostWork] \ Ancestors[tip] : ~IsFailed(a)

PathInv == TargetAhead /\ PathUnfailed

\* The only steps that leave a step of ActivateBestChain unfinished.
LEMMA WithinStep ==
    ASSUME IndInv, [Next]_vars, op' = "step"
    PROVE  \/ ActivateBestChainStep \/ StepDisconnectTip \/ ConnectTip \/ ConnectTipFlush
           \/ ConnectEnd \/ DisconnectEnd \/ WriteBlockIndex \/ UNCHANGED vars
<1>1. CASE Receive
  BY <1>1 DEF Receive, AcceptBlockHeader, ProcessRejectedBlock, ProcessKnownBlock,
              ProcessBadBlock, ProcessNewBlock, LockFree
<1>2. CASE Activate
  BY <1>2 DEF Activate, DiscardCandidate, ActivateDone, StepOnlyDisconnects, ConnectTipInvalid
<1>3. CASE Flush
  BY <1>3 DEF Flush, FlushStateToDisk, FlushBegin, FlushEnd
<1>4. CASE Invalidate
  BY <1>4 DEF Invalidate, InvalidateBlock, InvalidateDisconnectTip, InvalidateEnd
<1>5. CASE Reconsider \/ Dispute \/ Verify
  BY <1>5 DEF Reconsider, ReconsiderBlock, Dispute, ChangeVerdict, Verify, VerifyDB, Command,
              LockFree
<1>6. CASE Reprocess
  BY <1>6 DEF Reprocess, ReprocessBlocks, ReprocessReconsider, DisconnectBlocksAndReprocess,
              ReprocessDisconnectTip, ReprocessAtGenesis, ReprocessEnd, Command, LockFree
<1>7. CASE Stop
  BY <1>7 DEF Stop, Shutdown, FlushBegin, ShutdownEnd, Crash, MemoryLost
<1>8. CASE Start
  <2>1. NotRunning \/ phase = "loaded" => op = "free"
    BY DEF IndInv, OpShape
  <2> QED
    BY <1>8, <2>1 DEF Start, LoadStub, LoadBlockIndexDB, LoadAsserts, LoadInconsistent, FixProcessBlock,
              FixNothing, FixFlush, FlushBegin, FixEnd, FixAsserts, FixAbort,
              RebuildStakePointerCache, MemoryLost
<1> QED
  BY <1>1, <1>2, <1>3, <1>4, <1>5, <1>6, <1>7, <1>8 DEF Next, NextUp, NextSteady

\* Every step of the node keeps PathInv.
LEMMA PathStep == ASSUME IndInv, PathInv, [Next]_vars PROVE PathInv'
<1>0. IndInv'
  BY NextInv
<1>1. CASE op' # "step"
  BY <1>0, <1>1 DEF PathInv, TargetAhead, PathUnfailed, IndInv, OpShape
<1>2. CASE ActivateBestChainStep
  <2>1. write' = "no"
    BY <1>2, NotWriting DEF ActivateBestChainStep
  <2> QED
    BY <1>2, <2>1 DEF ActivateBestChainStep, PathInv, TargetAhead, PathUnfailed, FailedOnPath,
                      IsFailed
<1>3. CASE StepDisconnectTip
  BY <1>3 DEF StepDisconnectTip, DisconnectBegin, PathInv, TargetAhead, PathUnfailed, IsFailed
<1>4. CASE ConnectTip
  <2> PICK b \in Blocks : NextToConnect(b) /\ tip' = b
    BY <1>4 DEF ConnectTip, AfterConnect
  <2>1. Ancestors[tip] \subseteq Ancestors[b]
    BY ParentFacts DEF NextToConnect
  <2> QED
    BY <1>4, <2>1 DEF ConnectTip, NextToConnect, PathInv, TargetAhead, PathUnfailed, IsFailed
<1>5. CASE ConnectTipFlush
  BY <1>5 DEF ConnectTipFlush, NextToConnect, PathInv, TargetAhead, PathUnfailed, IsFailed
<1>6. CASE ConnectEnd
  <2>1. Ancestors[tip] \subseteq Ancestors[coinsTip]
    BY <1>6, ParentFacts DEF ConnectEnd, IndInv, TypeOK, CoinsFollowChain
  <2>2. op = "step"
    BY <1>6 DEF ConnectEnd, IndInv, OpShape
  <2> QED
    BY <1>6, <2>1, <2>2 DEF ConnectEnd, AfterConnect, PathInv, TargetAhead, PathUnfailed, IsFailed
<1>7. CASE DisconnectEnd /\ op' = "step"
  <2>1. Ancestors[tip] = Ancestors[coinsTip] \cup {tip}
    BY <1>7, ParentFacts DEF DisconnectEnd, IndInv, TypeOK, CoinsFollowChain
  <2> QED
    BY <1>7, <2>1 DEF DisconnectEnd, PathInv, TargetAhead, PathUnfailed, IsFailed
<1>8. CASE UNCHANGED vars
  BY <1>8 DEF vars, PathInv, TargetAhead, PathUnfailed, IsFailed
<1>9. CASE WriteBlockIndex
  BY <1>9 DEF WriteBlockIndex, PathInv, TargetAhead, PathUnfailed, IsFailed
<1> QED
  BY <1>1, <1>2, <1>3, <1>4, <1>5, <1>6, <1>7, <1>8, <1>9, WithinStep

\* The block a step connects next is not marked failed.
LEMMA NextUnfailed ==
    ASSUME IndInv, PathInv, NEW b \in Blocks, NextToConnect(b)
    PROVE  /\ ~IsFailed(b) /\ b \in Ancestors[pindexMostWork] /\ b \notin Ancestors[tip]
           /\ Ancestors[b] = Ancestors[tip] \cup {b}
BY ParentFacts DEF NextToConnect, PathInv, PathUnfailed

\* Neither is the one whose write is half done.
LEMMA CoinsTipUnfailed ==
    ASSUME IndInv, PathInv, write = "connect"
    PROVE  /\ ~IsFailed(coinsTip) /\ coinsTip \in Ancestors[pindexMostWork]
           /\ Ancestors[coinsTip] = Ancestors[tip] \cup {coinsTip} /\ op = "step"
<1>1. op = "step" /\ coinsTip \in Blocks /\ coinsTip # Genesis /\ pprev[coinsTip] = tip
  BY DEF IndInv, TypeOK, OpShape, CoinsFollowChain
<1> QED
  BY <1>1, ParentFacts DEF PathInv, PathUnfailed, TargetAhead


-----------------------------------------------------------------------------
(* A node that is not restarted: the active chain and its candidates. *)

UnfailedTo(b) == \A a \in Ancestors[b] : ~IsFailed(a)

\* No candidate is worse than the tip.
CandidatesNotWorse == \A c \in setBlockIndexCandidates : ~WorseNow(c, tip)

\* The active chain is not failed; while invalidateblock takes it down, what
\* is failed descends from the block being invalidated.
ActiveUnfailed ==
    IF op = "invalidate"
    THEN \A a \in Ancestors[tip] : IsFailed(a) => pindexMostWork \in Ancestors[a]
    ELSE UnfailedTo(tip)

\* A step goes to a block no worse than the tip it left.
TargetNotWorse == op = "step" => ~WorseNow(pindexMostWork, pindexOldTip)

UpInv ==
    /\ phase = "up"
    /\ CandidatesNotWorse
    /\ ActiveUnfailed
    /\ TargetNotWorse

\* Steps that leave tip, order, candidates and targets alone, and mark no block
\* of the active chain, keep UpInv.
LEMMA UpFrame ==
    ASSUME IndInv, UpInv,
           UNCHANGED <<phase, tip, nSequenceId, addr, pindexMostWork, pindexOldTip>>,
           setBlockIndexCandidates' \subseteq setBlockIndexCandidates,
           op' = op \/ ({op, op'} \cap {"step", "invalidate"} = {}),
           \A a \in Ancestors[tip] : IsFailed(a)' => IsFailed(a)
    PROVE  UpInv'
<1>1. CandidatesNotWorse' /\ TargetNotWorse'
  BY DEF UpInv, CandidatesNotWorse, TargetNotWorse, WorseNow
<1>2. ActiveUnfailed'
  BY DEF UpInv, ActiveUnfailed, UnfailedTo
<1> QED
  BY <1>1, <1>2 DEF UpInv

\* A block without a body is not of the active chain.
LEMMA ActiveHasData ==
    ASSUME IndInv, Alive, NEW b \in Ancestors[tip]
    PROVE  "data" \in nStatus[b] /\ nStatus[b] # {} /\ b \in linked
<1>1. tip \in linked /\ tip \in Blocks
  BY DEF IndInv, TypeOK, TargetsLinked
<1> QED
  BY <1>1, AncestorFacts DEF IndInv, LinkedExactly, HaveData

LEMMA UpReceive == ASSUME IndInv, UpInv, Receive PROVE UpInv'
<1>0. Alive
  BY DEF UpInv, Alive
<1>1. ASSUME NEW b \in Blocks, AcceptBlockHeader(b) PROVE UpInv'
  <2>1. b \notin Ancestors[tip]
    BY <1>0, <1>1, ActiveHasData DEF AcceptBlockHeader, mapBlockIndex
  <2>2. \A a \in Ancestors[tip] : IsFailed(a)' => IsFailed(a)
    BY <1>1, <2>1, AncestorFacts DEF AcceptBlockHeader, IsFailed, IndInv, TypeOK
  <2> QED
    BY <1>1, <2>2, UpFrame DEF AcceptBlockHeader
<1>2. ASSUME NEW b \in Blocks, ProcessRejectedBlock(b) \/ ProcessKnownBlock(b) PROVE UpInv'
  BY <1>2, UpFrame DEF ProcessRejectedBlock, ProcessKnownBlock, IsFailed
<1>3. ASSUME NEW b \in Blocks, ProcessBadBlock(b) PROVE UpInv'
  <2>1. b \notin Ancestors[tip]
    BY <1>0, <1>3, ActiveHasData DEF ProcessBadBlock
  <2>2. \A a \in Ancestors[tip] : IsFailed(a)' => IsFailed(a)
    BY <1>3, <2>1, AncestorFacts DEF ProcessBadBlock, IsFailed, IndInv, TypeOK
  <2> QED
    BY <1>3, <2>2, UpFrame DEF ProcessBadBlock
<1>4. ASSUME NEW b \in Blocks, ProcessNewBlock(b) PROVE UpInv'
  <2> USE <1>4 DEF ProcessNewBlock
  <2>1. op = "free" /\ op' = "free" /\ tip \in linked /\ setBlockIndexCandidates \subseteq linked
    BY <1>0 DEF LockFree, IndInv, TargetsLinked
  <2>2. CandidatesNotWorse'
    BY <2>1, LinkingKeepsOrder DEF UpInv, CandidatesNotWorse, WorseNow
  <2>3. \A a \in Ancestors[tip] : IsFailed(a)' => IsFailed(a)
    BY AncestorFacts DEF IsFailed, BLOCK_FAILED_MASK, IndInv, TypeOK
  <2>4. ActiveUnfailed'
    BY <2>1, <2>3 DEF UpInv, ActiveUnfailed, UnfailedTo
  <2> QED
    BY <2>1, <2>2, <2>4 DEF UpInv, TargetNotWorse
<1> QED
  BY <1>1, <1>2, <1>3, <1>4 DEF Receive

\* A tip whose parent becomes the tip.
LEMMA UpLower ==
    ASSUME IndInv, UpInv, tip # Genesis, tip' = pprev[tip],
           UNCHANGED <<phase, nStatus, nSequenceId, addr, pindexMostWork, pindexOldTip, op,
                       setBlockIndexCandidates>>
    PROVE  UpInv'
<1>1. /\ tip \in Blocks /\ tip' \in Ancestors[tip] /\ Ancestors[tip'] \subseteq Ancestors[tip]
      /\ setBlockIndexCandidates \subseteq Blocks
  BY ParentFacts, AncestorFacts DEF IndInv, TypeOK
<1>2. CandidatesNotWorse'
  BY <1>1, NotWorseThanAncestor DEF IndInv, UpInv, CandidatesNotWorse, WorseNow
<1>3. ActiveUnfailed' /\ TargetNotWorse'
  BY <1>1 DEF UpInv, ActiveUnfailed, UnfailedTo, TargetNotWorse, WorseNow, IsFailed
<1> QED
  BY <1>2, <1>3 DEF UpInv

\* A block that is connected and becomes the tip.
LEMMA UpRaise ==
    ASSUME IndInv, UpInv, op = "step", NEW b \in Blocks, ~IsFailed(b),
           Ancestors[b] = Ancestors[tip] \cup {b}, AfterConnect(b),
           UNCHANGED <<phase, nStatus, nSequenceId, addr, pindexMostWork, pindexOldTip>>
    PROVE  UpInv'
<1> USE DEF AfterConnect
<1>1. CandidatesNotWorse'
  BY DEF PruneBlockIndexCandidates, CandidatesNotWorse, WorseNow
<1>2. ActiveUnfailed'
  BY DEF UpInv, ActiveUnfailed, UnfailedTo, IsFailed
<1>3. TargetNotWorse'
  BY DEF UpInv, TargetNotWorse, WorseNow
<1> QED
  BY <1>1, <1>2, <1>3 DEF UpInv

LEMMA UpActivate == ASSUME IndInv, PathInv, UpInv, Activate PROVE UpInv'
<1>0. Alive
  BY DEF UpInv, Alive
<1>1. CASE DiscardCandidate
  <2> PICK c \in Blocks : \E x \in FailedOnPath(c) :
         nStatus' = [b \in Blocks |-> IF b \in Ancestors[c] \ Ancestors[x]
                                      THEN nStatus[b] \cup {"fchild"} ELSE nStatus[b]]
    BY <1>1 DEF DiscardCandidate
  <2> PICK x \in FailedOnPath(c) :
         nStatus' = [b \in Blocks |-> IF b \in Ancestors[c] \ Ancestors[x]
                                      THEN nStatus[b] \cup {"fchild"} ELSE nStatus[b]]
    OBVIOUS
  <2>1. (Ancestors[c] \ Ancestors[x]) \cap Ancestors[tip] = {}
    <3> SUFFICES ASSUME NEW y \in Ancestors[c] \ Ancestors[x], y \in Ancestors[tip] PROVE FALSE
      OBVIOUS
    <3>1. x \in Ancestors[c] /\ x \notin Ancestors[tip]
      BY DEF FailedOnPath
    <3>2. x \in Ancestors[y]
      BY <3>1, TreeAssumption
    <3> QED
      BY <3>1, <3>2, AncestorFacts DEF IndInv, TypeOK
  <2>2. \A a \in Ancestors[tip] : IsFailed(a)' => IsFailed(a)
    BY <2>1, AncestorFacts DEF IsFailed, IndInv, TypeOK
  <2> QED
    BY <1>1, <2>2, UpFrame DEF DiscardCandidate
<1>2. CASE ActivateDone
  BY <1>2, UpFrame DEF ActivateDone, IsFailed
<1>3. CASE ActivateBestChainStep
  <2> USE <1>3 DEF ActivateBestChainStep
  <2>1. op # "invalidate"
    OBVIOUS
  <2>2. TargetNotWorse'
    BY DEF UpInv, CandidatesNotWorse, TargetNotWorse, IsBestCandidate, WorseNow
  <2>3. CandidatesNotWorse' /\ ActiveUnfailed'
    BY <2>1 DEF UpInv, CandidatesNotWorse, WorseNow, ActiveUnfailed, UnfailedTo, IsFailed
  <2> QED
    BY <2>2, <2>3 DEF UpInv
<1>4. CASE StepDisconnectTip
  BY <1>4, UpFrame DEF StepDisconnectTip, IsFailed
<1>5. CASE StepOnlyDisconnects
  <2> USE <1>5 DEF StepOnlyDisconnects
  <2> QED
    BY DEF UpInv, CandidatesNotWorse, WorseNow, ActiveUnfailed, UnfailedTo, IsFailed,
           TargetNotWorse
<1>6. CASE ConnectTipInvalid
  <2> PICK b \in Blocks : /\ NextToConnect(b)
                          /\ nStatus' = [nStatus EXCEPT ![b] = @ \cup {"fvalid"}]
                          /\ setBlockIndexCandidates' = setBlockIndexCandidates \ {b}
    BY <1>6 DEF ConnectTipInvalid
  <2>1. b \notin Ancestors[tip] /\ op = "step"
    BY NextUnfailed DEF NextToConnect
  <2>2. \A a \in Ancestors[tip] : IsFailed(a)' => IsFailed(a)
    BY <2>1, AncestorFacts DEF IsFailed, IndInv, TypeOK
  <2>3. ActiveUnfailed'
    BY <1>6, <2>1, <2>2 DEF UpInv, ActiveUnfailed, UnfailedTo, ConnectTipInvalid
  <2>4. CandidatesNotWorse' /\ TargetNotWorse'
    BY <1>6 DEF UpInv, CandidatesNotWorse, WorseNow, TargetNotWorse, ConnectTipInvalid
  <2> QED
    BY <1>6, <2>3, <2>4 DEF UpInv, ConnectTipInvalid
<1>7. CASE ConnectTip
  <2> PICK b \in Blocks : NextToConnect(b) /\ AfterConnect(b)
    BY <1>7 DEF ConnectTip
  <2> QED
    BY <1>7, NextUnfailed, UpRaise DEF ConnectTip, NextToConnect
<1>8. CASE ConnectTipFlush
  BY <1>8, UpFrame DEF ConnectTipFlush, IsFailed
<1>9. CASE ConnectEnd
  BY <1>9, CoinsTipUnfailed, UpRaise DEF ConnectEnd, IndInv, TypeOK
<1>10. CASE DisconnectEnd
  <2>1. tip # Genesis /\ coinsTip = pprev[tip]
    BY <1>10 DEF DisconnectEnd, IndInv, CoinsFollowChain
  <2> QED
    BY <1>10, <2>1, UpLower DEF DisconnectEnd
<1>11. CASE WriteBlockIndex
  BY <1>11, UpFrame DEF WriteBlockIndex, IsFailed
<1> QED
  BY <1>1, <1>2, <1>3, <1>4, <1>5, <1>6, <1>7, <1>8, <1>9, <1>10, <1>11 DEF Activate

LEMMA UpInvalidate == ASSUME IndInv, UpInv, Invalidate PROVE UpInv'
<1>0. Alive /\ tip \in Blocks /\ Ancestors[tip] \subseteq Blocks
  BY AncestorFacts DEF UpInv, Alive, IndInv, TypeOK
<1>1. ASSUME NEW b \in Blocks, InvalidateBlock(b) PROVE UpInv'
  <2> USE <1>1 DEF InvalidateBlock, Command, LockFree
  <2>1. \A a \in Ancestors[tip] : IsFailed(a)' => a = b
    BY <1>0 DEF UpInv, ActiveUnfailed, UnfailedTo, IsFailed, IndInv, TypeOK
  <2>2. ActiveUnfailed'
    BY <2>1, AncestorFacts DEF ActiveUnfailed
  <2>3. CandidatesNotWorse' /\ TargetNotWorse'
    BY DEF UpInv, CandidatesNotWorse, WorseNow, TargetNotWorse
  <2> QED
    BY <2>2, <2>3 DEF UpInv
<1>2. CASE InvalidateDisconnectTip
  <2> USE <1>2 DEF InvalidateDisconnectTip, DisconnectBegin
  <2>1. ActiveUnfailed'
    BY <1>0 DEF UpInv, ActiveUnfailed, IsFailed, Contains, IndInv, TypeOK
  <2>2. CandidatesNotWorse' /\ TargetNotWorse'
    BY DEF UpInv, CandidatesNotWorse, WorseNow, TargetNotWorse
  <2> QED
    BY <2>1, <2>2 DEF UpInv
<1>3. CASE InvalidateEnd
  <2> USE <1>3 DEF InvalidateEnd
  <2>1. ActiveUnfailed'
    BY <1>0, AncestorFacts DEF UpInv, ActiveUnfailed, UnfailedTo, IsFailed, Contains
  <2>2. CandidatesNotWorse' /\ TargetNotWorse'
    BY DEF UpInv, CandidatesNotWorse, WorseNow, TargetNotWorse
  <2> QED
    BY <2>1, <2>2 DEF UpInv
<1> QED
  BY <1>1, <1>2, <1>3 DEF Invalidate

\* Clearing marks makes candidates only of blocks better than the tip.
LEMMA UpReconsider ==
    ASSUME IndInv, UpInv, op = "free", NEW X, ReconsiderBlocks(X),
           UNCHANGED <<phase, tip, op, pindexMostWork, pindexOldTip>>
    PROVE  UpInv'
<1> USE DEF ReconsiderBlocks
<1>0. Ancestors[tip] \subseteq Blocks /\ tip \in Blocks
  BY AncestorFacts DEF IndInv, TypeOK
<1>1. CandidatesNotWorse'
  BY <1>0, WorseNowOrder DEF UpInv, CandidatesNotWorse, WorseNow, FailedBelow, IndInv
<1>2. ActiveUnfailed'
  BY <1>0 DEF UpInv, ActiveUnfailed, UnfailedTo, IsFailed
<1> QED
  BY <1>1, <1>2 DEF UpInv, TargetNotWorse

LEMMA UpReprocess == ASSUME IndInv, UpInv, Reprocess PROVE UpInv'
<1>1. CASE \E X \in SUBSET mapRejectedBlocks : ReprocessBlocks(X)
  BY <1>1, UpFrame DEF ReprocessBlocks, IsFailed
<1>2. CASE \E b \in Blocks : ReprocessReconsider(b)
  BY <1>2, UpReconsider DEF ReprocessReconsider, LockFree
<1>3. CASE DisconnectBlocksAndReprocess
  BY <1>3, UpFrame DEF DisconnectBlocksAndReprocess, LockFree, IsFailed
<1>4. CASE ReprocessDisconnectTip
  BY <1>4, UpFrame DEF ReprocessDisconnectTip, IsFailed
<1>5. CASE ReprocessAtGenesis \/ ReprocessEnd
  BY <1>5, UpFrame DEF ReprocessAtGenesis, ReprocessEnd, IsFailed
<1> QED
  BY <1>1, <1>2, <1>3, <1>4, <1>5 DEF Reprocess

LEMMA UpStep == ASSUME IndInv, PathInv, UpInv, [NextUp]_vars PROVE UpInv'
<1>1. CASE Flush
  BY <1>1, UpFrame DEF Flush, FlushStateToDisk, FlushBegin, FlushEnd, LockFree, IsFailed
<1>2. CASE Reconsider
  BY <1>2, UpReconsider DEF Reconsider, ReconsiderBlock, Command, LockFree
<1>3. CASE Dispute \/ Verify
  BY <1>3, UpFrame DEF Dispute, ChangeVerdict, Verify, VerifyDB, IsFailed
<1>4. CASE UNCHANGED vars
  BY <1>4, UpFrame DEF vars, IsFailed
<1> QED
  BY <1>1, <1>2, <1>3, <1>4, UpReceive, UpActivate, UpInvalidate, UpReprocess
     DEF NextUp, NextSteady

LEMMA UpInit == Init => IndInv /\ PathInv /\ UpInv
<1> SUFFICES ASSUME Init PROVE PathInv /\ UpInv
  BY InitInv
<1> USE DEF Init
<1>0. IndInv
  BY InitInv
<1>1. PathInv
  BY DEF PathInv, TargetAhead, PathUnfailed
<1>2. CandidatesNotWorse
  BY <1>0, WorseNowOrder, TreeAssumption DEF CandidatesNotWorse, IndInv
<1>3. ActiveUnfailed
  BY TreeAssumption DEF ActiveUnfailed, UnfailedTo, IsFailed, BLOCK_FAILED_MASK
<1> QED
  BY <1>1, <1>2, <1>3 DEF UpInv, TargetNotWorse

\* UpInv is an invariant of a node that is not restarted.
LEMMA UpInvariance == SpecUp => [](IndInv /\ PathInv /\ UpInv)
<1>1. IndInv /\ PathInv /\ UpInv /\ [NextUp]_vars => IndInv' /\ PathInv' /\ UpInv'
  BY NextInv, PathStep, UpStep DEF Next
<1> QED
  BY <1>1, UpInit, PTL DEF SpecUp

\* Whatever an operator commands, locks and votes change, and peers send, no
\* block of the active chain is marked failed when ActivateBestChain has
\* returned, as long as the node is not restarted.
THEOREM ActiveChainClean == SpecUp => []ActiveChainNotFailed
<1>1. UpInv => ActiveChainNotFailed
  BY DEF UpInv, ActiveUnfailed, UnfailedTo, ActiveChainNotFailed, Idle
<1> QED
  BY <1>1, UpInvariance, PTL

\* A step of ActivateBestChain that found no invalid block never leaves the
\* node with a worse tip than it had.
THEOREM StepsNeverLose == SpecUp => StepNeverLoses
<1> DEFINE Loses == op = "step" /\ op' = "free" /\ phase' = phase /\ nStatus' = nStatus
                    /\ WorseNow(tip', pindexOldTip)
<1>1. ASSUME IndInv, PathInv, UpInv, NextUp, Loses PROVE FALSE
  <2>0. op = "step" /\ op' = "free" /\ nStatus' = nStatus /\ tip \in Blocks
        /\ pindexMostWork \in Blocks /\ pindexOldTip \in Blocks /\ nStatus \in [Blocks -> SUBSET Flags]
    BY <1>1 DEF IndInv, TypeOK
  <2>1. ASSUME NEW b \in Blocks, AfterConnect(b) PROVE FALSE
    <3>1. tip' = b /\ (nChainWork[b] > nChainWork[pindexOldTip] \/ b = pindexMostWork)
      BY <2>0, <2>1 DEF AfterConnect
    <3>2. ~WorseNow(b, pindexOldTip)
      BY <1>1, <2>0, <3>1, WorkAssumption DEF UpInv, TargetNotWorse, WorseNow, Worse
    <3> QED
      BY <1>1, <3>1, <3>2
  <2>2. CASE ConnectTipInvalid
    <3> PICK b \in Blocks : NextToConnect(b) /\ nStatus' = [nStatus EXCEPT ![b] = @ \cup {"fvalid"}]
      BY <2>2 DEF ConnectTipInvalid
    <3>1. "fvalid" \in nStatus[b]
      BY <2>0
    <3> QED
      BY <1>1, <3>1, NextUnfailed DEF IsFailed, BLOCK_FAILED_MASK
  <2>3. CASE StepOnlyDisconnects
    BY <1>1, <2>3 DEF StepOnlyDisconnects, UpInv, TargetNotWorse
  <2>4. CASE Activate
    BY <2>0, <2>1, <2>2, <2>3, <2>4, <1>1
       DEF Activate, WriteBlockIndex, DiscardCandidate, ActivateDone, ActivateBestChainStep,
           StepDisconnectTip, ConnectTip, ConnectTipFlush, ConnectEnd, DisconnectEnd, IndInv, TypeOK
  <2>5. Activate
    BY <1>1, <2>0 DEF NextUp, NextSteady, Receive, AcceptBlockHeader, ProcessRejectedBlock,
           ProcessKnownBlock, ProcessBadBlock, ProcessNewBlock, LockFree, Flush,
           FlushStateToDisk, FlushEnd, Invalidate, InvalidateBlock, Command,
           InvalidateDisconnectTip, InvalidateEnd, Reconsider, ReconsiderBlock, Dispute,
           ChangeVerdict, Reprocess, ReprocessBlocks, ReprocessReconsider,
           DisconnectBlocksAndReprocess, ReprocessDisconnectTip, ReprocessAtGenesis,
           ReprocessEnd, Verify, VerifyDB
  <2> QED
    BY <2>4, <2>5
<1>2. IndInv /\ PathInv /\ UpInv /\ [NextUp]_vars =>
         [op = "step" /\ op' = "free" /\ phase' = phase /\ nStatus' = nStatus
             => ~WorseNow(tip', pindexOldTip)]_vars
  BY <1>1
<1> QED
  BY <1>2, UpInvariance, PTL DEF SpecUp, StepNeverLoses

-----------------------------------------------------------------------------
(* Failure marks and their causes, through crashes and restarts. *)

DbFailed(b) == dbStatus[b] \cap BLOCK_FAILED_MASK # {}

\* The record of b or of an ancestor says on disk what was found invalid.
DiskCause(b) == \E a \in Ancestors[b] : "fvalid" \in dbStatus[a]

\* Memory has every flag of the disk, and the disk every block found invalid
\* but those of dirty entries.
MarksKept ==
    Alive => \A b \in Blocks :
        /\ dbStatus[b] \subseteq nStatus[b]
        /\ "fvalid" \in nStatus[b] => b \in setDirtyBlockIndex \/ "fvalid" \in dbStatus[b]

InvalidatedMarked == op = "invalidate" => "fvalid" \in nStatus[pindexMostWork]

\* ... or will say it before the flush ends.
PendingCause(b) ==
    Writing /\ \E a \in Ancestors[b] : a \in setDirtyBlockIndex /\ "fvalid" \in nStatus[a]

CauseOnDisk == \A b \in Blocks : DbFailed(b) => DiskCause(b) \/ PendingCause(b)

\* A failed block of the active chain is being disconnected, or was failed on
\* disk when the node started.
ActiveCause ==
    Alive => \A a \in Ancestors[tip] :
        IsFailed(a) => \/ op = "invalidate" /\ pindexMostWork \in Ancestors[a]
                       \/ DiskCause(a)

MarksInv ==
    /\ MarksKept
    /\ FailedHasCause
    /\ InvalidatedMarked
    /\ CauseOnDisk
    /\ ActiveCause

\* Steps that only add marks, and write current records.
Grows ==
    \A b \in Blocks :
        /\ nStatus[b] \subseteq nStatus'[b]
        /\ dbStatus'[b] \in {dbStatus[b], nStatus[b], nStatus'[b]}

LEMMA DiskCauseKept ==
    ASSUME IndInv, MarksInv, Alive, Grows, NEW b \in Blocks, DiskCause(b)
    PROVE  DiskCause(b)'
BY AncestorFacts DEF MarksInv, MarksKept, Grows, DiskCause

\* ... every new mark with a cause, and no record of a failed block without its
\* cause's.
LEMMA MarksGrow ==
    ASSUME IndInv, MarksInv, Alive, ~Writing, Grows,
           \A b \in Blocks : IsFailed(b)' /\ ~IsFailed(b) =>
               \E a \in Ancestors[b] : "fvalid" \in nStatus'[a],
           \A b \in Blocks : "fvalid" \in nStatus'[b] =>
               b \in setDirtyBlockIndex' \/ "fvalid" \in dbStatus'[b],
           \A b \in Blocks : DbFailed(b)' /\ dbStatus'[b] # dbStatus[b] => DiskCause(b)'
    PROVE  MarksKept' /\ FailedHasCause' /\ CauseOnDisk'
<1>1. MarksKept'
  BY DEF MarksInv, MarksKept, Grows
<1>2. FailedHasCause'
  BY AncestorFacts DEF MarksInv, FailedHasCause, Grows
<1>3. CauseOnDisk'
  <2> SUFFICES ASSUME NEW b \in Blocks, DbFailed(b)' PROVE DiskCause(b)'
    BY DEF CauseOnDisk
  <2>1. CASE dbStatus'[b] = dbStatus[b]
    <3>1. DbFailed(b)
      BY <2>1 DEF DbFailed
    <3> QED
      BY <3>1, DiskCauseKept DEF MarksInv, CauseOnDisk, PendingCause
  <2> QED
    BY <2>1
<1> QED
  BY <1>1, <1>2, <1>3

\* The active chain gains no failed block.
LEMMA ActiveFrame ==
    ASSUME IndInv, MarksInv, Alive, Grows,
           \A a \in Ancestors[tip'] : IsFailed(a)' => a \in Ancestors[tip] /\ IsFailed(a),
           op # "invalidate" \/ (op' = op /\ pindexMostWork' = pindexMostWork),
           op' # "invalidate" \/ op = "invalidate"
    PROVE  ActiveCause' /\ InvalidatedMarked'
<1>1. Ancestors[tip] \subseteq Blocks /\ pindexMostWork \in Blocks
  BY AncestorFacts DEF IndInv, TypeOK
<1>2. ActiveCause'
  BY <1>1, DiskCauseKept DEF MarksInv, ActiveCause
<1>3. InvalidatedMarked'
  BY <1>1 DEF MarksInv, InvalidatedMarked, Grows
<1> QED
  BY <1>2, <1>3

\* Steps that touch neither marks nor records, and raise no tip.
LEMMA MarksFrame ==
    ASSUME IndInv, MarksInv, Alive, ~Writing,
           nStatus' = nStatus, dbStatus' = dbStatus,
           setDirtyBlockIndex \subseteq setDirtyBlockIndex',
           tip' \in Ancestors[tip],
           op # "invalidate" \/ (op' = op /\ pindexMostWork' = pindexMostWork),
           op' # "invalidate" \/ op = "invalidate"
    PROVE  MarksInv'
<1>1. Grows
  BY DEF Grows
<1>2. MarksKept' /\ FailedHasCause' /\ CauseOnDisk'
  BY DEF MarksInv, MarksKept, FailedHasCause, CauseOnDisk, PendingCause, Alive, IsFailed, DbFailed,
         DiskCause
<1>3. \A a \in Ancestors[tip'] : IsFailed(a)' => a \in Ancestors[tip] /\ IsFailed(a)
  BY AncestorFacts DEF IndInv, TypeOK, IsFailed
<1> QED
  BY <1>1, <1>2, <1>3, ActiveFrame DEF MarksInv

\* A turn of the loop that writes the index: the record of a failed block is
\* written with its cause's, after it, or before it in the same loop.
LEMMA MarksWrite == ASSUME IndInv, MarksInv, WriteBlockIndex PROVE MarksInv'
<1> USE DEF WriteBlockIndex
<1>0. Alive /\ Alive' /\ tip \in Blocks /\ write' # "no" /\ nStatus' = nStatus
  BY StepAlive DEF IndInv, OpShape, TypeOK, Alive
<1>1. PICK b \in setDirtyBlockIndex : /\ dbStatus' = [dbStatus EXCEPT ![b] = nStatus[b]]
                                     /\ setDirtyBlockIndex' = setDirtyBlockIndex \ {b}
  OBVIOUS
<1>2. b \in Blocks /\ dbStatus'[b] = nStatus[b] /\ \A x \in Blocks : x # b => dbStatus'[x] = dbStatus[x]
  BY <1>1 DEF IndInv, TypeOK
<1>3. Grows
  BY <1>2 DEF Grows
<1>4. MarksKept'
  BY <1>0, <1>1, <1>2 DEF MarksInv, MarksKept
<1>5. FailedHasCause'
  BY <1>0 DEF MarksInv, FailedHasCause, IsFailed
<1>6. ASSUME NEW a \in Blocks, "fvalid" \in nStatus[a]
      PROVE  "fvalid" \in dbStatus'[a] \/ (a \in setDirtyBlockIndex' /\ Writing')
  BY <1>0, <1>1, <1>2, <1>6 DEF MarksInv, MarksKept, Writing
<1>7. CauseOnDisk'
  <2> SUFFICES ASSUME NEW x \in Blocks, DbFailed(x)' PROVE DiskCause(x)' \/ PendingCause(x)'
    BY DEF CauseOnDisk
  <2>1. IsFailed(x)
    BY <1>0, <1>2 DEF MarksInv, MarksKept, DbFailed, IsFailed
  <2>2. PICK a \in Ancestors[x] : "fvalid" \in nStatus[a] /\ a \in Blocks
    BY <1>0, <2>1, AncestorFacts DEF MarksInv, FailedHasCause
  <2> QED
    BY <1>0, <1>6, <2>2 DEF DiskCause, PendingCause
<1>8. \A a \in Ancestors[tip'] : IsFailed(a)' => a \in Ancestors[tip] /\ IsFailed(a)
  BY <1>0 DEF IsFailed
<1> QED
  BY <1>0, <1>3, <1>4, <1>5, <1>7, <1>8, ActiveFrame DEF MarksInv

LEMMA MarksReceive == ASSUME IndInv, MarksInv, Receive PROVE MarksInv'
<1>0. Alive /\ op = "free" /\ op' = "free" /\ tip' = tip /\ tip \in Ancestors[tip]
      /\ Ancestors[tip] \subseteq Blocks /\ ~Writing
  BY NotWriting, AncestorFacts DEF Writing, Receive, AcceptBlockHeader, ProcessRejectedBlock, ProcessKnownBlock,
     ProcessBadBlock, ProcessNewBlock, LockFree, Alive, IndInv, TypeOK
<1>1. ASSUME NEW b \in Blocks, ProcessRejectedBlock(b) \/ ProcessKnownBlock(b) PROVE MarksInv'
  BY <1>0, <1>1, MarksFrame DEF ProcessRejectedBlock, ProcessKnownBlock
<1>2. ASSUME NEW b \in Blocks, AcceptBlockHeader(b) PROVE MarksInv'
  <2> USE <1>2 DEF AcceptBlockHeader
  <2>1. Grows
    BY DEF Grows, mapBlockIndex, IndInv, TypeOK
  <2>2. \A x \in Blocks : IsFailed(x)' => IsFailed(x)
    BY DEF IsFailed, BLOCK_FAILED_MASK, IndInv, TypeOK
  <2>3. \A x \in Blocks : "fvalid" \in nStatus'[x] => "fvalid" \in nStatus[x]
    BY DEF IndInv, TypeOK
  <2>4. MarksKept' /\ FailedHasCause' /\ CauseOnDisk'
    BY <1>0, <2>1, <2>2, <2>3, MarksGrow DEF MarksInv, MarksKept
  <2> QED
    BY <1>0, <2>1, <2>2, <2>4, ActiveFrame DEF MarksInv
<1>3. ASSUME NEW b \in Blocks, ProcessBadBlock(b) PROVE MarksInv'
  <2> USE <1>3 DEF ProcessBadBlock
  <2>1. Grows
    BY DEF Grows, IndInv, TypeOK
  <2>2. b \notin Ancestors[tip]
    BY <1>0, ActiveHasData
  <2>3. \A x \in Blocks : x # b => nStatus'[x] = nStatus[x]
    BY DEF IndInv, TypeOK
  <2>4. "fvalid" \in nStatus'[b]
    BY DEF IndInv, TypeOK
  <2>5. MarksKept' /\ FailedHasCause' /\ CauseOnDisk'
    BY <1>0, <2>1, <2>3, <2>4, MarksGrow, AncestorFacts DEF MarksInv, MarksKept, IsFailed
  <2> QED
    BY <1>0, <2>1, <2>2, <2>3, <2>5, ActiveFrame DEF MarksInv, IsFailed
<1>4. ASSUME NEW b \in Blocks, ProcessNewBlock(b) PROVE MarksInv'
  <2> USE <1>4 DEF ProcessNewBlock
  <2>1. Grows
    BY DEF Grows, IndInv, TypeOK
  <2>2. \A x \in Blocks : IsFailed(x)' => IsFailed(x)
    BY DEF IsFailed, BLOCK_FAILED_MASK, IndInv, TypeOK
  <2>3. \A x \in Blocks : "fvalid" \in nStatus'[x] => "fvalid" \in nStatus[x]
    BY DEF IndInv, TypeOK
  <2>4. MarksKept' /\ FailedHasCause' /\ CauseOnDisk'
    BY <1>0, <2>1, <2>2, <2>3, MarksGrow DEF MarksInv, MarksKept
  <2> QED
    BY <1>0, <2>1, <2>2, <2>4, ActiveFrame DEF MarksInv
<1> QED
  BY <1>1, <1>2, <1>3, <1>4 DEF Receive

\* A connected block brings an unfailed record and an unfailed tip.
LEMMA MarksConnect ==
    ASSUME IndInv, MarksInv, Alive, op = "step", op' # "invalidate", nStatus' = nStatus,
           NEW b \in Blocks, ~IsFailed(b), Ancestors[tip'] \subseteq Ancestors[tip] \cup {b},
           MarksKept' /\ FailedHasCause' /\ CauseOnDisk', Grows
    PROVE  MarksInv'
<1>1. \A a \in Ancestors[tip'] : IsFailed(a)' => a \in Ancestors[tip] /\ IsFailed(a)
  BY DEF IsFailed
<1> QED
  BY <1>1, ActiveFrame DEF MarksInv

LEMMA MarksActivate == ASSUME IndInv, PathInv, MarksInv, Activate PROVE MarksInv'
<1>0. (Alive /\ op # "invalidate" /\ ~Writing) \/ DisconnectEnd \/ WriteBlockIndex
  BY StepAlive, NotWriting DEF Writing, Activate, DiscardCandidate, ActivateDone, ActivateBestChainStep,
     StepDisconnectTip, StepOnlyDisconnects, ConnectTipInvalid, ConnectTip, ConnectTipFlush,
     ConnectEnd, DisconnectBegin, NextToConnect, IndInv, OpShape
<1>00. tip \in Blocks /\ tip \in Ancestors[tip] /\ Ancestors[tip] \subseteq Blocks
  BY AncestorFacts DEF IndInv, TypeOK
<1>1. CASE DiscardCandidate
  <2> PICK c \in Blocks : \E x \in FailedOnPath(c) :
         nStatus' = [b \in Blocks |-> IF b \in Ancestors[c] \ Ancestors[x]
                                      THEN nStatus[b] \cup {"fchild"} ELSE nStatus[b]]
    BY <1>1 DEF DiscardCandidate
  <2> PICK x \in FailedOnPath(c) :
         nStatus' = [b \in Blocks |-> IF b \in Ancestors[c] \ Ancestors[x]
                                      THEN nStatus[b] \cup {"fchild"} ELSE nStatus[b]]
    OBVIOUS
  <2>0. Alive /\ op # "invalidate" /\ op' # "invalidate" /\ dbStatus' = dbStatus
        /\ setDirtyBlockIndex' = setDirtyBlockIndex /\ tip' = tip /\ ~Writing
    BY <1>1, StepAlive, NotWriting DEF DiscardCandidate, Writing
  <2>1. x \in Ancestors[c] /\ x \notin Ancestors[tip] /\ IsFailed(x) /\ x \in Blocks
    BY AncestorFacts DEF FailedOnPath
  <2>2. ASSUME NEW y \in Ancestors[c] \ Ancestors[x] PROVE x \in Ancestors[y] /\ y \notin Ancestors[tip]
    <3>1. x \in Ancestors[y] /\ y \in Blocks
      BY <2>1, TreeAssumption
    <3> QED
      BY <1>00, <2>1, <3>1, AncestorFacts
  <2>3. Grows
    BY <2>0 DEF Grows
  <2>4. \A b \in Blocks : "fvalid" \in nStatus'[b] <=> "fvalid" \in nStatus[b]
    OBVIOUS
  <2>5. PICK z \in Ancestors[x] : "fvalid" \in nStatus[z] /\ z \in Blocks
    BY <2>0, <2>1, AncestorFacts DEF MarksInv, FailedHasCause
  <2>6. \A b \in Blocks : IsFailed(b)' /\ ~IsFailed(b) => \E a \in Ancestors[b] : "fvalid" \in nStatus'[a]
    <3> SUFFICES ASSUME NEW b \in Blocks, IsFailed(b)', ~IsFailed(b)
                 PROVE  \E a \in Ancestors[b] : "fvalid" \in nStatus'[a]
      OBVIOUS
    <3>1. b \in Ancestors[c] \ Ancestors[x]
      BY DEF IsFailed
    <3>2. z \in Ancestors[b]
      BY <2>2, <2>5, <3>1, AncestorFacts
    <3> QED
      BY <2>4, <2>5, <3>2
  <2>7. MarksKept' /\ FailedHasCause' /\ CauseOnDisk'
    BY <2>0, <2>3, <2>4, <2>6, MarksGrow DEF MarksInv, MarksKept
  <2>8. \A a \in Ancestors[tip'] : IsFailed(a)' => a \in Ancestors[tip] /\ IsFailed(a)
    BY <1>00, <2>0, <2>2 DEF IsFailed
  <2> QED
    BY <2>0, <2>3, <2>7, <2>8, ActiveFrame DEF MarksInv
<1>2. CASE ActivateDone \/ ActivateBestChainStep \/ StepOnlyDisconnects
  <2>1. ~Writing /\ Alive /\ op # "invalidate"
    BY <1>2, NotWriting, StepAlive DEF ActivateDone, ActivateBestChainStep, StepOnlyDisconnects, Writing
  <2> QED
    BY <1>00, <1>2, <2>1, MarksFrame DEF ActivateDone, ActivateBestChainStep, StepOnlyDisconnects
<1>3. CASE StepDisconnectTip
  BY <1>00, <1>3, StepAlive, MarksFrame DEF StepDisconnectTip, DisconnectBegin, Writing
<1>4. CASE ConnectTipInvalid
  <2> PICK b \in Blocks : /\ NextToConnect(b)
                          /\ nStatus' = [nStatus EXCEPT ![b] = @ \cup {"fvalid"}]
                          /\ setDirtyBlockIndex' = setDirtyBlockIndex \cup {b}
                          /\ RefusedBeforeWrite(b) \/ RefusedAfterWrite(b)
    BY <1>4 DEF ConnectTipInvalid
  <2> USE DEF RefusedBeforeWrite, RefusedAfterWrite
  <2>0. Alive /\ op = "step" /\ op' = "free" /\ tip' = tip /\ ~Writing
    BY <1>4, StepAlive DEF ConnectTipInvalid, NextToConnect, Writing
  <2>1. ~IsFailed(b) /\ b \notin Ancestors[tip]
    BY NextUnfailed
  <2>2. Grows /\ \A x \in Blocks : x # b => nStatus'[x] = nStatus[x] /\ dbStatus'[x] = dbStatus[x]
    BY DEF Grows, ConnectWrite, IndInv, TypeOK
  <2>3. dbStatus'[b] = dbStatus[b] \/ ~DbFailed(b)'
    BY <2>1 DEF ConnectWrite, DbFailed, IsFailed, IndInv, TypeOK
  <2>4. "fvalid" \in nStatus'[b]
    BY DEF IndInv, TypeOK
  <2>5. MarksKept' /\ FailedHasCause' /\ CauseOnDisk'
    BY <2>0, <2>2, <2>3, <2>4, MarksGrow, AncestorFacts DEF MarksInv, MarksKept, IsFailed, DbFailed
  <2> QED
    BY <1>00, <2>0, <2>1, <2>2, <2>5, ActiveFrame DEF MarksInv, IsFailed
<1>5. CASE ConnectTip
  <2> PICK b \in Blocks : NextToConnect(b) /\ ConnectWrite(b) /\ tip' = b
                          /\ setDirtyBlockIndex' = setDirtyBlockIndex \cup {b}
    BY <1>5 DEF ConnectTip, AfterConnect
  <2>0. Alive /\ op = "step" /\ op' # "invalidate" /\ nStatus' = nStatus /\ ~Writing
    BY <1>5, StepAlive DEF ConnectTip, AfterConnect, NextToConnect, Writing
  <2>1. ~IsFailed(b) /\ Ancestors[b] = Ancestors[tip] \cup {b}
    BY NextUnfailed
  <2>2. Grows /\ \A x \in Blocks : x # b => dbStatus'[x] = dbStatus[x]
    BY <2>0 DEF Grows, ConnectWrite, IndInv, TypeOK
  <2>3. dbStatus'[b] = dbStatus[b] \/ ~DbFailed(b)'
    BY <2>1 DEF ConnectWrite, DbFailed, IsFailed, IndInv, TypeOK
  <2>4. MarksKept' /\ FailedHasCause' /\ CauseOnDisk'
    BY <2>0, <2>1, <2>2, <2>3, MarksGrow DEF MarksInv, MarksKept, IsFailed, DbFailed, BLOCK_FAILED_MASK
  <2> QED
    BY <2>0, <2>1, <2>2, <2>4, MarksConnect
<1>6. CASE ConnectTipFlush
  <2> PICK b \in Blocks : NextToConnect(b) /\ ConnectWrite(b)
                          /\ setDirtyBlockIndex' = setDirtyBlockIndex \cup {b}
    BY <1>6 DEF ConnectTipFlush
  <2>0. Alive /\ op = "step" /\ op' = op /\ nStatus' = nStatus /\ tip' = tip /\ ~Writing
    BY <1>6, StepAlive DEF ConnectTipFlush, NextToConnect, Writing
  <2>1. ~IsFailed(b)
    BY NextUnfailed
  <2>2. Grows /\ \A x \in Blocks : x # b => dbStatus'[x] = dbStatus[x]
    BY <2>0 DEF Grows, ConnectWrite, IndInv, TypeOK
  <2>3. dbStatus'[b] = dbStatus[b] \/ ~DbFailed(b)'
    BY <2>1 DEF ConnectWrite, DbFailed, IsFailed, IndInv, TypeOK
  <2>4. MarksKept' /\ FailedHasCause' /\ CauseOnDisk'
    BY <2>0, <2>1, <2>2, <2>3, MarksGrow DEF MarksInv, MarksKept, IsFailed, DbFailed, BLOCK_FAILED_MASK
  <2> QED
    BY <2>0, <2>1, <2>2, <2>4, MarksConnect
<1>7. CASE ConnectEnd
  <2> USE <1>7 DEF ConnectEnd, AfterConnect
  <2>0. Alive /\ op = "step" /\ op' # "invalidate" /\ nStatus' = nStatus /\ tip' = coinsTip /\ coinsTip \in Blocks
    BY CoinsTipUnfailed, StepAlive DEF IndInv, TypeOK
  <2>1. Grows
    BY DEF Grows
  <2>2. MarksKept' /\ FailedHasCause' /\ CauseOnDisk'
    BY DEF MarksInv, MarksKept, FailedHasCause, CauseOnDisk, PendingCause, Alive, IsFailed, DbFailed,
           DiskCause
  <2> QED
    BY <2>0, <2>1, <2>2, CoinsTipUnfailed, MarksConnect
<1>8. CASE DisconnectEnd
  <2>1. Alive /\ tip' \in Ancestors[tip]
    BY <1>8, <1>00, ParentFacts, AncestorFacts, StepAlive
       DEF DisconnectEnd, IndInv, CoinsFollowChain, OpShape, TypeOK
  <2> QED
    BY <1>8, <2>1, MarksFrame DEF DisconnectEnd
<1> QED
  BY <1>1, <1>2, <1>3, <1>4, <1>5, <1>6, <1>7, <1>8, MarksWrite DEF Activate

\* A periodic flush, a shutdown's and the repair's begins.
LEMMA MarksFlushBegin ==
    ASSUME IndInv, MarksInv, Alive, write = "no", op # "invalidate", NEW why, why # "invalidate",
           FlushBegin(why)
    PROVE  MarksInv'
<1>1. tip \in Ancestors[tip]
  BY AncestorFacts DEF IndInv, TypeOK
<1> QED
  BY <1>1, MarksFrame DEF FlushBegin, Writing

LEMMA MarksInvalidate == ASSUME IndInv, MarksInv, Invalidate PROVE MarksInv'
<1>0. Alive /\ tip \in Blocks /\ tip \in Ancestors[tip] /\ Ancestors[tip] \subseteq Blocks /\ ~Writing
  BY StepAlive, NotWriting, AncestorFacts DEF Invalidate, InvalidateBlock, Command, LockFree,
     InvalidateDisconnectTip, DisconnectBegin, InvalidateEnd, Writing, Alive, IndInv, TypeOK
<1>1. ASSUME NEW b \in Blocks, InvalidateBlock(b) PROVE MarksInv'
  <2> USE <1>1 DEF InvalidateBlock, Command, LockFree
  <2>1. Grows /\ \A x \in Blocks : x # b => nStatus'[x] = nStatus[x]
    BY DEF Grows, IndInv, TypeOK
  <2>2. "fvalid" \in nStatus'[b]
    BY DEF IndInv, TypeOK
  <2>3. MarksKept' /\ FailedHasCause' /\ CauseOnDisk'
    BY <1>0, <2>1, <2>2, MarksGrow, AncestorFacts DEF MarksInv, MarksKept, IsFailed
  <2>4. ActiveCause'
    <3> SUFFICES ASSUME NEW a \in Ancestors[tip], IsFailed(a)'
                 PROVE  b \in Ancestors[a] \/ DiskCause(a)'
      BY DEF ActiveCause
    <3>1. CASE a = b
      BY <3>1, AncestorFacts
    <3>2. CASE a # b
      <4>1. IsFailed(a) /\ a \in Blocks
        BY <1>0, <2>1, <3>2 DEF IsFailed
      <4> QED
        BY <1>0, <2>1, <4>1, DiskCauseKept DEF MarksInv, ActiveCause
    <3> QED
      BY <3>1, <3>2
  <2> QED
    BY <2>2, <2>3, <2>4 DEF MarksInv, InvalidatedMarked
<1>2. CASE InvalidateDisconnectTip
  <2> USE <1>2 DEF InvalidateDisconnectTip, DisconnectBegin
  <2>1. \A x \in Blocks : nStatus[x] \subseteq nStatus'[x] /\ (x # tip => nStatus'[x] = nStatus[x])
    BY <1>0 DEF IndInv, TypeOK
  <2>2. "fvalid" \in nStatus'[pindexMostWork] /\ pindexMostWork \in Ancestors[tip]
    BY <2>1 DEF MarksInv, InvalidatedMarked, Contains, IndInv, TypeOK
  <2>3. \A b \in Blocks : IsFailed(b)' /\ ~IsFailed(b) => \E a \in Ancestors[b] : "fvalid" \in nStatus'[a]
    BY <2>1, <2>2 DEF IsFailed
  <2>4. Grows /\ MarksKept' /\ FailedHasCause' /\ CauseOnDisk'
    <3>1. Grows
      BY <2>1 DEF Grows
    <3>2. \A b \in Blocks : "fvalid" \in nStatus'[b] => "fvalid" \in nStatus[b]
      BY <1>0 DEF IndInv, TypeOK
    <3> QED
      BY <1>0, <2>3, <3>1, <3>2, MarksGrow DEF MarksInv, MarksKept
  <2>5. ActiveCause'
    <3> SUFFICES ASSUME NEW a \in Ancestors[tip], IsFailed(a)'
                 PROVE  pindexMostWork \in Ancestors[a] \/ DiskCause(a)'
      BY DEF ActiveCause
    <3>1. CASE a # tip
      <4>1. IsFailed(a) /\ a \in Blocks
        BY <1>0, <2>1, <3>1 DEF IsFailed
      <4> QED
        BY <1>0, <2>4, <4>1, DiskCauseKept DEF MarksInv, ActiveCause
    <3> QED
      BY <2>2, <3>1
  <2> QED
    BY <2>2, <2>4, <2>5 DEF MarksInv, InvalidatedMarked
<1>3. CASE InvalidateEnd
  <2> USE <1>3 DEF InvalidateEnd
  <2>1. MarksKept' /\ FailedHasCause' /\ CauseOnDisk' /\ InvalidatedMarked'
    BY <1>0 DEF MarksInv, MarksKept, FailedHasCause, CauseOnDisk, PendingCause, Alive, IsFailed,
           DbFailed, DiskCause, InvalidatedMarked
  <2>2. ActiveCause'
    BY <1>0, AncestorFacts DEF MarksInv, ActiveCause, Contains, IsFailed, DiskCause, Alive
  <2> QED
    BY <2>1, <2>2 DEF MarksInv
<1> QED
  BY <1>1, <1>2, <1>3 DEF Invalidate

\* verifychain writes records of the active chain only.
LEMMA MarksVerify == ASSUME IndInv, MarksInv, Verify PROVE MarksInv'
<1> PICK k \in VerifyDepths : \E low \in nHeight[tip] - k .. nHeight[tip] + 1 : VerifyDB(k, low)
  BY DEF Verify
<1> PICK low \in nHeight[tip] - k .. nHeight[tip] + 1 : VerifyDB(k, low)
  OBVIOUS
<1> USE DEF VerifyDB, Command, LockFree
<1>0. Alive /\ Ancestors[tip] \subseteq Blocks /\ tip \in Ancestors[tip] /\ ~Writing
  BY AncestorFacts, NotWriting DEF Alive, IndInv, TypeOK, Writing
<1>1. PICK S \in SUBSET Ancestors[tip] :
         dbStatus' = [b \in Blocks |-> IF b \in S THEN nStatus[b] ELSE dbStatus[b]]
  <2> DEFINE top == TopBlocks(k)
             back == IF top \cap checkRejected = {} THEN Undone(top, low) ELSE {}
  <2>1. Retried(back) \in SUBSET Ancestors[tip]
    BY DEF Retried, Undone, TopBlocks
  <2> QED
    BY <2>1
<1>2. Grows
  BY <1>1 DEF Grows
<1>3. ASSUME NEW b \in Blocks, DbFailed(b)', dbStatus'[b] # dbStatus[b] PROVE DiskCause(b)'
  <2>1. b \in Ancestors[tip] /\ IsFailed(b)
    BY <1>1, <1>3 DEF DbFailed, IsFailed
  <2>2. DiskCause(b)
    BY <1>0, <2>1 DEF MarksInv, ActiveCause
  <2> QED
    BY <1>0, <1>2, <2>2, DiskCauseKept
<1>4. \A b \in Blocks : "fvalid" \in nStatus'[b] =>
          b \in setDirtyBlockIndex' \/ "fvalid" \in dbStatus'[b]
  BY <1>0, <1>1 DEF MarksInv, MarksKept
<1>5. MarksKept' /\ FailedHasCause' /\ CauseOnDisk'
  BY <1>0, <1>2, <1>3, <1>4, MarksGrow DEF IsFailed
<1> QED
  BY <1>0, <1>2, <1>5, ActiveFrame DEF MarksInv, IsFailed

\* Memory that is lost takes no cause off the disk.
LEMMA MarksLost ==
    ASSUME MarksInv, ~Writing, ~Alive', op' # "invalidate", dbStatus' = dbStatus
    PROVE  MarksInv'
BY DEF MarksInv, MarksKept, FailedHasCause, InvalidatedMarked, CauseOnDisk, PendingCause,
       ActiveCause, DbFailed, DiskCause

\* What is loaded has on disk what it has in memory.
LEMMA MarksLoad ==
    ASSUME IndInv, MarksInv, NotRunning, LoadBlockIndexGuts, op' # "invalidate", dbStatus' = dbStatus
    PROVE  MarksInv'
<1> USE DEF LoadBlockIndexGuts
<1>0. \A b \in Blocks : DbFailed(b) => DiskCause(b)
  BY DEF MarksInv, CauseOnDisk, PendingCause, Writing, IndInv, OpShape
<1>1. MarksKept' /\ CauseOnDisk' /\ InvalidatedMarked'
  BY <1>0 DEF MarksInv, MarksKept, CauseOnDisk, DbFailed, DiskCause, InvalidatedMarked
<1>2. FailedHasCause'
  BY <1>0 DEF FailedHasCause, DbFailed, DiskCause, IsFailed
<1>3. ActiveCause'
  BY <1>0, AncestorFacts DEF ActiveCause, DbFailed, DiskCause, IsFailed, IndInv, TypeOK
<1> QED
  BY <1>1, <1>2, <1>3 DEF MarksInv

LEMMA MarksStopStart ==
    ASSUME IndInv, MarksInv, Shutdown \/ ShutdownEnd \/ (~Writing /\ Crash) \/ Start
    PROVE  MarksInv'
<1>0. tip \in Ancestors[tip]
  BY AncestorFacts DEF IndInv, TypeOK
<1>1. CASE Shutdown
  BY <1>1, NotWriting, MarksFlushBegin DEF Shutdown, LockFree, Alive
<1>2. CASE ShutdownEnd \/ (~Writing /\ Crash) \/ LoadStub \/ LoadAsserts \/ FixAsserts \/ FixAbort
  <2>1. ~Writing
    BY <1>2 DEF ShutdownEnd, LoadStub, LoadAsserts, FixAsserts, FixAbort, IndInv, OpShape, Writing
  <2>2. ~Alive' /\ op' # "invalidate" /\ dbStatus' = dbStatus
    BY <1>2 DEF ShutdownEnd, Crash, LoadStub, LoadAsserts, FixAsserts, FixAbort, MemoryLost, Alive,
       IndInv, OpShape
  <2> QED
    BY <2>1, <2>2, MarksLost
<1>3. CASE LoadBlockIndexDB \/ LoadInconsistent
  BY <1>3, MarksLoad DEF LoadBlockIndexDB, LoadInconsistent, IndInv, OpShape
<1>4. CASE FixProcessBlock \/ FixNothing \/ FixEnd
  <2>1. ~Writing /\ Alive /\ op # "invalidate"
    BY <1>4, StepAlive DEF FixProcessBlock, FixNothing, FixEnd, Writing, IndInv, TypeOK, OpShape
  <2> QED
    BY <1>0, <1>4, <2>1, MarksFrame DEF FixProcessBlock, FixNothing, FixEnd
<1>5. CASE FixFlush
  <2>1. op # "invalidate" /\ Alive /\ write = "no"
    BY <1>5, NotWriting DEF FixFlush, MetaUnreadable, Alive, IndInv, TypeOK, OpShape
  <2> QED
    BY <1>5, <2>1, MarksFlushBegin DEF FixFlush
<1>6. CASE RebuildStakePointerCache
  <2>1. op = "free" /\ Alive /\ ~Writing
    BY <1>6 DEF RebuildStakePointerCache, IndInv, OpShape, Alive, Writing
  <2> QED
    BY <1>0, <1>6, <2>1, MarksFrame DEF RebuildStakePointerCache
<1> QED
  BY <1>1, <1>2, <1>3, <1>4, <1>5, <1>6 DEF Start

LEMMA MarksStep == ASSUME IndInv, PathInv, MarksInv, [NextMarks]_vars PROVE MarksInv'
<1>0. tip \in Ancestors[tip]
  BY AncestorFacts DEF IndInv, TypeOK
<1>1. CASE FlushStateToDisk
  BY <1>1, NotWriting, MarksFlushBegin DEF FlushStateToDisk, LockFree, Alive
<1>2. CASE FlushEnd
  BY <1>0, <1>2, StepAlive, MarksFrame DEF FlushEnd
<1>3. CASE Dispute
  BY <1>0, <1>3, NotWriting, MarksFrame DEF Dispute, ChangeVerdict, Command, LockFree, Alive, Writing
<1>4. CASE UNCHANGED vars
  BY <1>4 DEF vars, MarksInv, MarksKept, FailedHasCause, InvalidatedMarked, CauseOnDisk, ActiveCause,
              PendingCause, Writing, DbFailed, DiskCause, IsFailed, Alive
<1> QED
  BY <1>1, <1>2, <1>3, <1>4, MarksReceive, MarksActivate, MarksInvalidate, MarksVerify,
     MarksStopStart DEF NextMarks, NextOperate, Flush

LEMMA MarksInit == Init => MarksInv
<1> SUFFICES ASSUME Init PROVE MarksInv
  OBVIOUS
<1> USE DEF Init
<1>1. \A b \in Blocks : ~IsFailed(b) /\ ~DbFailed(b) /\ dbStatus[b] = nStatus[b]
  BY DEF IsFailed, DbFailed, BLOCK_FAILED_MASK
<1>2. Ancestors[tip] \subseteq Blocks
  BY TreeAssumption
<1> QED
  BY <1>1, <1>2 DEF MarksInv, MarksKept, FailedHasCause, InvalidatedMarked, CauseOnDisk, ActiveCause

\* MarksInv is an invariant of a node on which nobody clears a failure mark and
\* which no crash kills inside the loop that writes the block index.
LEMMA MarksInvariance == SpecMarks => [](IndInv /\ PathInv /\ MarksInv)
<1>1. Init => IndInv /\ PathInv /\ MarksInv
  BY MarksInit, UpInit
<1>2. IndInv /\ PathInv /\ MarksInv /\ [NextMarks]_vars => IndInv' /\ PathInv' /\ MarksInv'
  BY NextInv, PathStep, MarksStep DEF Next, NextUp, NextSteady, NextMarks, NextOperate, Stop
<1> QED
  BY <1>1, <1>2, PTL DEF SpecMarks

\* A block is marked failed only if it or an ancestor was found invalid, as
\* CheckBlockIndex asserts, on a node that invalidates blocks, changes its mind
\* about some, verifies its chain, shuts down, starts again, and crashes anywhere
\* but between two records of one flush.  reconsiderblock can break it, and so can
\* a crash there: the record of a failed descendant may be written and the one
\* that says why may not.
THEOREM FailureHasCause == SpecMarks => []FailedHasCause
<1>1. MarksInv => FailedHasCause
  BY DEF MarksInv
<1> QED
  BY <1>1, MarksInvariance, PTL

-----------------------------------------------------------------------------
(* The candidates and the best chain, on a node whose operator at most      *)
(* invalidates blocks.                                                      *)

\* A block the node could switch to.
Good(b) == b \in linked /\ UnfailedTo(b)

\* ConnectBlock accepts every block up to b, one after the other.
SoundBranch(b) ==
    /\ Ancestors[b] \cap BadConnect = {}
    /\ \A a, c \in Ancestors[b] : stakePointer[a] # NULL /\ stakePointer[a] = stakePointer[c] => a = c

\* A candidate that will never be refused, and that is better than every good
\* block that is no candidate.
Leader(w) ==
    /\ w \in setBlockIndexCandidates
    /\ Good(w) /\ SoundBranch(w)
    /\ \A x \in linked : Good(x) /\ x \notin setBlockIndexCandidates => WorseNow(x, w)

HasLeader == op # "invalidate" => \E w \in Blocks : Leader(w)

\* A step goes to the best candidate, and once ActivateBestChain has returned
\* the tip is it.
TargetBest == op = "step" => IsBestCandidate(pindexMostWork)
Settled == op \in {"free", "flush"} /\ ~activating => IsBestCandidate(tip)

OperateInv ==
    /\ checkRejected = {}
    /\ SoundBranch(tip) /\ SoundBranch(coinsTip)
    /\ op \in {"find", "step"} => activating
    /\ HasLeader
    /\ TargetBest
    /\ Settled

\* What the steps below are taken from.
BaseInv == IndInv /\ PathInv /\ UpInv /\ MarksInv /\ MapComplete

LEMMA BaseFacts ==
    ASSUME BaseInv
    PROVE  /\ TypeOK /\ Alive /\ tip \in linked /\ linked \subseteq Blocks
           /\ setBlockIndexCandidates \subseteq linked
           /\ \A x \in linked : Ancestors[x] \subseteq linked
           /\ \A x \in linked : x \in Ancestors[x] /\ "data" \in nStatus[x]
BY AncestorFacts DEF BaseInv, IndInv, TypeOK, UpInv, Alive, TargetsLinked, LinkedExactly, HaveData

\* A branch a block is refused on is not sound; a branch all of whose blocks were
\* connected is.
LEMMA RefusedUnsound ==
    ASSUME BaseInv, OperateInv, NEW b \in Blocks, NextToConnect(b), ~Connectable(b),
           NEW y \in Blocks, b \in Ancestors[y]
    PROVE  ~SoundBranch(y)
<1>0. checkRejected = {}
  BY DEF OperateInv
<1>1. CASE b \in BadConnect
  BY <1>1 DEF SoundBranch
<1>2. CASE b \notin BadConnect
  <2>1. /\ stakePointer[b] # NULL /\ stakePointer[b] \in Outpoints
        /\ mapUsedStakePointers[stakePointer[b]] # NULL
    BY <1>0, <1>2, PointerAssumption DEF Connectable, PointerFree
  <2> DEFINE a == mapUsedStakePointers[stakePointer[b]]
  <2>2. a \in Ancestors[coinsTip] /\ stakePointer[a] = stakePointer[b] /\ coinsTip = tip
    BY <2>1 DEF BaseInv, IndInv, MapSound, CoinsFollowChain, NextToConnect
  <2>3. b \notin Ancestors[tip] /\ Ancestors[tip] \subseteq Ancestors[b]
    BY NextUnfailed DEF BaseInv
  <2>4. a # b /\ a \in Ancestors[y]
    BY <2>2, <2>3, AncestorFacts
  <2> QED
    BY <2>1, <2>2, <2>4 DEF SoundBranch
<1> QED
  BY <1>1, <1>2

LEMMA ConnectedSound ==
    ASSUME BaseInv, OperateInv, NEW b \in Blocks, NextToConnect(b), Connectable(b)
    PROVE  SoundBranch(b)
<1>1. Ancestors[b] = Ancestors[tip] \cup {b} /\ coinsTip = tip /\ b \notin BadConnect
      /\ Ancestors[tip] \subseteq Blocks
  BY NextUnfailed, AncestorFacts DEF BaseInv, IndInv, TypeOK, CoinsFollowChain, NextToConnect, Connectable
<1>2. \A a \in Ancestors[tip] : stakePointer[a] # NULL => stakePointer[a] # stakePointer[b]
  <2> SUFFICES ASSUME NEW a \in Ancestors[tip], stakePointer[a] # NULL, stakePointer[a] = stakePointer[b]
               PROVE  FALSE
    OBVIOUS
  <2>1. mapUsedStakePointers[stakePointer[a]] = a /\ a # NULL
    BY <1>1, TreeAssumption DEF BaseInv, MapComplete
  <2> QED
    BY <2>1 DEF Connectable, PointerFree
<1> QED
  BY <1>1, <1>2 DEF OperateInv, SoundBranch

LEMMA SoundBelow ==
    ASSUME NEW b \in Blocks, SoundBranch(b), NEW a \in Ancestors[b]
    PROVE  SoundBranch(a)
BY AncestorFacts DEF SoundBranch

\* A leader no worse than a good tip.
LEMMA LeaderAboveTip ==
    ASSUME BaseInv, OperateInv, op # "invalidate"
    PROVE  \E w \in Blocks : Leader(w) /\ (w = tip \/ WorseNow(tip, w))
<1>1. PICK w \in Blocks : Leader(w)
  BY DEF OperateInv, HasLeader
<1>2. TypeOK /\ tip \in Blocks /\ Good(tip) /\ SoundBranch(tip)
  BY BaseFacts DEF BaseInv, UpInv, ActiveUnfailed, Good, OperateInv
<1>3. CASE WorseNow(w, tip)
  <2>1. tip \in setBlockIndexCandidates
    BY <1>1, <1>2, <1>3, WorseNowOrder DEF Leader, Good
  <2>2. \A x \in linked : Good(x) /\ x \notin setBlockIndexCandidates => WorseNow(x, tip)
    BY <1>1, <1>2, <1>3, WorseNowOrder, BaseFacts DEF Leader
  <2> QED
    BY <1>2, <2>1, <2>2 DEF Leader
<1>4. CASE ~WorseNow(w, tip)
  BY <1>1, <1>2, <1>4, WorseNowOrder
<1> QED
  BY <1>3, <1>4

\* Steps that leave candidates, order and the marks of linked blocks alone.
LEMMA OperateFrame ==
    ASSUME BaseInv, OperateInv,
           UNCHANGED <<linked, setBlockIndexCandidates, nSequenceId, addr, pindexMostWork,
                       checkRejected>>,
           tip' = tip \/ op \notin {"free", "flush"},
           SoundBranch(tip)', SoundBranch(coinsTip)',
           op' = op \/ {op, op'} \subseteq {"free", "flush"},
           activating' = activating \/ activating' = TRUE,
           \A x \in linked : IsFailed(x)' <=> IsFailed(x)
    PROVE  OperateInv'
<1>1. \A x \in linked : Good(x)' <=> Good(x)
  BY BaseFacts DEF Good, UnfailedTo
<1>2. ASSUME NEW w \in Blocks, Leader(w) PROVE Leader(w)'
  BY <1>1, <1>2, BaseFacts DEF Leader, WorseNow, SoundBranch
<1>3. HasLeader'
  BY <1>2 DEF OperateInv, HasLeader
<1>4. \A x : IsBestCandidate(x)' <=> IsBestCandidate(x)
  BY DEF IsBestCandidate, WorseNow
<1>5. TargetBest' /\ Settled'
  BY <1>4 DEF OperateInv, TargetBest, Settled
<1> QED
  BY <1>3, <1>5 DEF OperateInv

LEMMA OperateReceive == ASSUME BaseInv, OperateInv, Receive PROVE OperateInv'
<1>0. LockFree
  BY DEF Receive, AcceptBlockHeader, ProcessRejectedBlock, ProcessKnownBlock, ProcessBadBlock,
     ProcessNewBlock
<1>1. ASSUME NEW b \in Blocks,
             AcceptBlockHeader(b) \/ ProcessRejectedBlock(b) \/ ProcessKnownBlock(b)
                 \/ ProcessBadBlock(b)
      PROVE OperateInv'
  <2>1. \A x \in linked : IsFailed(x)' <=> IsFailed(x)
    BY <1>1, BaseFacts DEF AcceptBlockHeader, ProcessRejectedBlock, ProcessKnownBlock,
       ProcessBadBlock, mapBlockIndex, IsFailed, TypeOK
  <2> QED
    BY <1>1, <2>1, OperateFrame DEF AcceptBlockHeader, ProcessRejectedBlock, ProcessKnownBlock,
       ProcessBadBlock, OperateInv, SoundBranch
<1>2. ASSUME NEW b \in Blocks, ProcessNewBlock(b) PROVE OperateInv'
  <2> USE <1>2 DEF ProcessNewBlock
  <2>0. op = "free" /\ op' = "free" /\ tip' = tip /\ coinsTip' = coinsTip /\ addr' = addr
        /\ activating' = TRUE /\ checkRejected' = checkRejected
    BY <1>0 DEF LockFree
  <2>1. PICK w \in Blocks : Leader(w) /\ (w = tip \/ WorseNow(tip, w))
    BY <2>0, LeaderAboveTip
  <2>2. /\ NewlyLinked(b) \subseteq Blocks /\ nSequenceId' \in [Blocks -> Nat]
        /\ \A x, y \in linked : WorseNow(x, y)' <=> WorseNow(x, y)
    BY LinkingKeepsOrder DEF BaseInv
  <2>3. \A x \in Blocks : IsFailed(x)' <=> IsFailed(x)
    BY BaseFacts DEF IsFailed, BLOCK_FAILED_MASK, TypeOK
  <2>4. \A x \in linked : Good(x)' <=> Good(x)
    BY <2>3, BaseFacts DEF Good, UnfailedTo
  <2>5. w \in linked /\ tip \in linked /\ addr \in AddressOrders /\ linked \subseteq Blocks
    BY <2>1, BaseFacts DEF Leader, Good, TypeOK
  <2>6. w = tip \/ WorseNow(tip, w)'
    BY <2>1, <2>2, <2>5
  <2>7. ASSUME NEW x \in linked', Good(x)', x \notin setBlockIndexCandidates' PROVE WorseNow(x, w)'
    <3>1. CASE x \in linked
      BY <2>1, <2>2, <2>4, <2>5, <2>7, <3>1 DEF Leader
    <3>2. CASE x \in NewlyLinked(b)
      <4>1. Worse(x, tip, nSequenceId', addr)
        BY <2>7, <3>2
      <4>2. x \in Blocks
        BY <2>2, <3>2
      <4> QED
        BY <2>0, <2>2, <2>5, <2>6, <4>1, <4>2, WorseOrder DEF WorseNow
    <3> QED
      BY <3>1, <3>2
  <2>8. Leader(w)'
    BY <2>1, <2>4, <2>5, <2>7 DEF Leader, SoundBranch
  <2> QED
    BY <2>0, <2>8 DEF OperateInv, HasLeader, TargetBest, Settled, SoundBranch
<1> QED
  BY <1>1, <1>2 DEF Receive

\* A sound block becomes the tip.
LEMMA OperateRaise ==
    ASSUME BaseInv, OperateInv, op = "step", NEW b \in Blocks, b \in Ancestors[pindexMostWork],
           ~IsFailed(b), Ancestors[b] = Ancestors[tip] \cup {b}, SoundBranch(b),
           AfterConnect(b), coinsTip' = b,
           UNCHANGED <<nStatus, linked, nSequenceId, addr, pindexMostWork, checkRejected>>
    PROVE  OperateInv'
<1> USE DEF AfterConnect
<1>0. TypeOK /\ pindexMostWork \in Blocks /\ pindexMostWork \in linked /\ linked \subseteq Blocks
      /\ setBlockIndexCandidates \subseteq linked
  BY BaseFacts DEF BaseInv, IndInv, TypeOK, TargetsLinked
<1>1. b \in linked /\ Good(b)
  BY <1>0, BaseFacts DEF Good, BaseInv, UpInv, ActiveUnfailed, UnfailedTo
<1>2. setBlockIndexCandidates' = {c \in setBlockIndexCandidates : ~WorseNow(c, b)}
  BY DEF PruneBlockIndexCandidates
<1>3. \A x \in linked : Good(x)' <=> Good(x)
  BY DEF Good, UnfailedTo, IsFailed
<1>4. PICK w \in Blocks : Leader(w)
  BY DEF OperateInv, HasLeader
<1>5. \A x, y : WorseNow(x, y)' <=> WorseNow(x, y)
  BY DEF WorseNow
<1>6. ASSUME WorseNow(w, b) PROVE Leader(b)'
  <2>1. b \in setBlockIndexCandidates /\ ~WorseNow(b, b)
    BY <1>0, <1>1, <1>4, <1>6, WorseNowOrder DEF Leader
  <2>2. ASSUME NEW x \in linked, Good(x), x \notin setBlockIndexCandidates' PROVE WorseNow(x, b)
    BY <1>0, <1>2, <1>4, <1>6, <2>2, WorseNowOrder DEF Leader
  <2> QED
    BY <1>1, <1>2, <1>3, <1>5, <2>1, <2>2 DEF Leader, SoundBranch
<1>7. ASSUME ~WorseNow(w, b) PROVE Leader(w)'
  <2>1. w = b \/ WorseNow(b, w)
    BY <1>0, <1>7, WorseNowOrder
  <2>2. ASSUME NEW x \in linked, Good(x), x \notin setBlockIndexCandidates' PROVE WorseNow(x, w)
    BY <1>0, <1>2, <1>4, <2>1, <2>2, WorseNowOrder DEF Leader
  <2> QED
    BY <1>2, <1>3, <1>4, <1>5, <1>7, <2>2 DEF Leader, Good, SoundBranch
<1>8. \E v \in Blocks : Leader(v)'
  BY <1>6, <1>7
<1>9. IsBestCandidate(pindexMostWork)'
  <2>1. IsBestCandidate(pindexMostWork)
    BY DEF OperateInv, TargetBest
  <2>2. ~WorseNow(pindexMostWork, b)
    BY <1>0, AncestorWorse, WorseNowOrder
  <2> QED
    BY <1>2, <1>5, <2>1, <2>2 DEF IsBestCandidate
<1>10. activating
  BY DEF OperateInv
<1> QED
  BY <1>8, <1>9, <1>10 DEF OperateInv, HasLeader, TargetBest, Settled, SoundBranch

\* Steps that drop and mark only blocks that are not good, and above no leader.
LEMMA OperateDrop ==
    ASSUME BaseInv, OperateInv, op # "invalidate",
           \A x \in Blocks : IsFailed(x) => IsFailed(x)',
           \A x \in linked : Good(x)' /\ x \in setBlockIndexCandidates
               => x \in setBlockIndexCandidates',
           \A w \in Blocks : Leader(w) => Good(w)',
           UNCHANGED <<linked, nSequenceId, addr, tip, coinsTip, checkRejected, activating>>,
           op' \in {"free", "find"}, activating
    PROVE  OperateInv'
<1>1. PICK w \in Blocks : Leader(w)
  BY DEF OperateInv, HasLeader
<1>2. \A x \in linked : Good(x)' => Good(x)
  BY BaseFacts DEF Good, UnfailedTo
<1>3. \A x, y : WorseNow(x, y)' <=> WorseNow(x, y)
  BY DEF WorseNow
<1>4. Good(w)' /\ w \in linked /\ w \in setBlockIndexCandidates'
  BY <1>1 DEF Leader, Good
<1>5. Leader(w)'
  BY <1>1, <1>2, <1>3, <1>4 DEF Leader, SoundBranch
<1> QED
  BY <1>1, <1>5 DEF OperateInv, HasLeader, TargetBest, Settled, SoundBranch

LEMMA OperateActivate == ASSUME BaseInv, OperateInv, Activate PROVE OperateInv'
<1>0. IndInv /\ PathInv /\ TypeOK /\ tip \in Blocks /\ coinsTip \in Blocks /\ tip \in Ancestors[tip]
  BY AncestorFacts DEF BaseInv, IndInv, TypeOK
<1>1. CASE DiscardCandidate
  <2>0. PICK c \in Blocks : \E x \in FailedOnPath(c) :
         /\ nStatus' = [b \in Blocks |-> IF b \in Ancestors[c] \ Ancestors[x]
                                         THEN nStatus[b] \cup {"fchild"} ELSE nStatus[b]]
         /\ setBlockIndexCandidates' =
               setBlockIndexCandidates \ ((Ancestors[c] \ Ancestors[x]) \cup {x})
    BY <1>1 DEF DiscardCandidate
  <2>1. PICK x \in FailedOnPath(c) :
         /\ nStatus' = [b \in Blocks |-> IF b \in Ancestors[c] \ Ancestors[x]
                                         THEN nStatus[b] \cup {"fchild"} ELSE nStatus[b]]
         /\ setBlockIndexCandidates' =
               setBlockIndexCandidates \ ((Ancestors[c] \ Ancestors[x]) \cup {x})
    BY <2>0
  <2>2. x \in Ancestors[c] /\ x \in Blocks /\ IsFailed(x)
    BY AncestorFacts DEF FailedOnPath
  <2>3. \A y \in (Ancestors[c] \ Ancestors[x]) \cup {x} : x \in Ancestors[y] /\ y \in Blocks
    BY <2>2, TreeAssumption, AncestorFacts
  <2>4. \A y \in Blocks : /\ IsFailed(y) => IsFailed(y)'
                          /\ IsFailed(y)' => IsFailed(y) \/ x \in Ancestors[y]
    BY <1>0, <2>1, <2>3 DEF IsFailed, TypeOK
  <2>5. \A y \in Blocks : Good(y) => x \notin Ancestors[y]
    BY <2>2 DEF Good, UnfailedTo
  <2>6. \A w \in Blocks : Leader(w) => Good(w)'
    <3> SUFFICES ASSUME NEW w \in Blocks, Good(w), NEW a \in Ancestors[w], IsFailed(a)' PROVE FALSE
      BY <1>1 DEF Leader, Good, UnfailedTo, DiscardCandidate
    <3>1. a \in Blocks /\ x \in Ancestors[a]
      BY <2>4, AncestorFacts DEF Good, UnfailedTo
    <3> QED
      BY <2>5, <3>1, AncestorFacts
  <2>7. \A y \in linked : Good(y)' => x \notin Ancestors[y]
    BY <2>2, <2>4 DEF Good, UnfailedTo
  <2>8. \A y \in linked : Good(y)' /\ y \in setBlockIndexCandidates => y \in setBlockIndexCandidates'
    BY <2>1, <2>3, <2>7
  <2> QED
    BY <1>1, <2>4, <2>6, <2>8, OperateDrop DEF DiscardCandidate
<1>2. CASE ActivateDone
  <2> USE <1>2 DEF ActivateDone
  <2>1. PICK w \in Blocks : Leader(w)
    BY DEF OperateInv, HasLeader
  <2>2. IsBestCandidate(tip)'
    BY <2>1 DEF Leader, IsBestCandidate, WorseNow
  <2>3. Leader(w)'
    BY <2>1 DEF Leader, Good, UnfailedTo, SoundBranch, IsFailed, WorseNow
  <2> QED
    BY <2>2, <2>3 DEF OperateInv, HasLeader, TargetBest, Settled, SoundBranch
<1>3. CASE ActivateBestChainStep
  <2> USE <1>3 DEF ActivateBestChainStep
  <2>1. PICK w \in Blocks : Leader(w)
    BY DEF OperateInv, HasLeader
  <2>2. Leader(w)'
    BY <2>1 DEF Leader, Good, UnfailedTo, SoundBranch, IsFailed, WorseNow
  <2>3. IsBestCandidate(pindexMostWork')
    OBVIOUS
  <2>4. TargetBest'
    BY <2>3 DEF TargetBest, IsBestCandidate, WorseNow
  <2> QED
    BY <2>2, <2>4 DEF OperateInv, HasLeader, Settled, SoundBranch
<1>4. CASE StepDisconnectTip
  <2>1. tip # Genesis
    BY <1>0, <1>4, AncestorFacts, TreeAssumption DEF StepDisconnectTip, TypeOK
  <2>2. coinsTip' \in Ancestors[tip]
    BY <1>0, <1>4, <2>1, ParentFacts, AncestorFacts DEF StepDisconnectTip, DisconnectBegin
  <2>3. SoundBranch(tip)' /\ SoundBranch(coinsTip)'
    BY <1>0, <1>4, <2>2, SoundBelow DEF OperateInv, SoundBranch, StepDisconnectTip
  <2> QED
    BY <1>4, <2>3, OperateFrame DEF StepDisconnectTip, IsFailed
<1>5. CASE StepOnlyDisconnects
  <2> USE <1>5 DEF StepOnlyDisconnects
  <2>1. PICK w \in Blocks : Leader(w)
    BY DEF OperateInv, HasLeader
  <2>2. Leader(w)'
    BY <2>1 DEF Leader, Good, UnfailedTo, SoundBranch, IsFailed, WorseNow
  <2>3. IsBestCandidate(tip)'
    BY DEF OperateInv, TargetBest, IsBestCandidate, WorseNow
  <2> QED
    BY <2>2, <2>3 DEF OperateInv, HasLeader, TargetBest, Settled, SoundBranch
<1>6. CASE ConnectTipInvalid
  <2>0. PICK b \in Blocks : /\ NextToConnect(b) /\ ~Connectable(b)
                           /\ nStatus' = [nStatus EXCEPT ![b] = @ \cup {"fvalid"}]
                           /\ setBlockIndexCandidates' = setBlockIndexCandidates \ {b}
    BY <1>6 DEF ConnectTipInvalid
  <2>1. op = "step" /\ activating
    BY <2>0 DEF NextToConnect, OperateInv
  <2>2. \A y \in Blocks : /\ IsFailed(y) => IsFailed(y)'
                          /\ IsFailed(y)' <=> IsFailed(y) \/ y = b
    BY <1>0, <2>0 DEF IsFailed, TypeOK, BLOCK_FAILED_MASK
  <2>3. \A w \in Blocks : Leader(w) => Good(w)'
    <3> SUFFICES ASSUME NEW w \in Blocks, Good(w), SoundBranch(w), b \in Ancestors[w] PROVE FALSE
      BY <1>6, <2>2, AncestorFacts DEF Leader, Good, UnfailedTo, ConnectTipInvalid
    <3> QED
      BY <2>0, RefusedUnsound
  <2>4. \A y \in linked : Good(y)' => y # b
    BY <2>2, AncestorFacts DEF Good, UnfailedTo
  <2> QED
    BY <1>6, <2>0, <2>1, <2>2, <2>3, <2>4, OperateDrop DEF ConnectTipInvalid
<1>7. CASE ConnectTip
  <2>0. PICK b \in Blocks : NextToConnect(b) /\ Connectable(b) /\ coinsTip' = b /\ AfterConnect(b)
    BY <1>7 DEF ConnectTip
  <2>1. SoundBranch(b)
    BY <2>0, ConnectedSound
  <2> QED
    BY <1>0, <1>7, <2>0, <2>1, NextUnfailed, OperateRaise DEF ConnectTip, NextToConnect
<1>8. CASE ConnectTipFlush
  <2>0. PICK b \in Blocks : NextToConnect(b) /\ Connectable(b) /\ coinsTip' = b
    BY <1>8 DEF ConnectTipFlush
  <2>1. SoundBranch(tip)' /\ SoundBranch(coinsTip)'
    BY <1>8, <2>0, ConnectedSound DEF OperateInv, SoundBranch, ConnectTipFlush
  <2> QED
    BY <1>8, <2>1, OperateFrame DEF ConnectTipFlush, IsFailed
<1>9. CASE ConnectEnd
  BY <1>0, <1>9, CoinsTipUnfailed, OperateRaise DEF ConnectEnd, OperateInv
<1>10. CASE DisconnectEnd
  <2>1. SoundBranch(tip)' /\ SoundBranch(coinsTip)'
    BY <1>10 DEF DisconnectEnd, OperateInv, SoundBranch
  <2>2. op \notin {"free", "flush"}
    BY <1>0, <1>10 DEF DisconnectEnd, IndInv, OpShape
  <2> QED
    BY <1>10, <2>1, <2>2, OperateFrame DEF DisconnectEnd, IsFailed
<1>11. CASE WriteBlockIndex
  <2>1. SoundBranch(tip)' /\ SoundBranch(coinsTip)'
    BY <1>11 DEF WriteBlockIndex, OperateInv, SoundBranch
  <2> QED
    BY <1>11, <2>1, OperateFrame DEF WriteBlockIndex, IsFailed
<1> QED
  BY <1>1, <1>2, <1>3, <1>4, <1>5, <1>6, <1>7, <1>8, <1>9, <1>10, <1>11 DEF Activate

LEMMA OperateInvalidate == ASSUME BaseInv, OperateInv, Invalidate PROVE OperateInv'
<1>0. IndInv /\ TypeOK /\ tip \in Blocks /\ tip \in Ancestors[tip]
  BY AncestorFacts DEF BaseInv, IndInv, TypeOK
<1>1. ASSUME NEW b \in Blocks, InvalidateBlock(b) PROVE OperateInv'
  BY <1>1 DEF InvalidateBlock, OperateInv, HasLeader, TargetBest, Settled, SoundBranch
<1>2. CASE InvalidateDisconnectTip
  <2> USE <1>2 DEF InvalidateDisconnectTip
  <2>1. tip # Genesis
    BY <1>0, TreeAssumption DEF Contains, IndInv, OpShape
  <2>2. coinsTip' \in Ancestors[tip]
    BY <1>0, <2>1, ParentFacts, AncestorFacts DEF DisconnectBegin
  <2>3. SoundBranch(coinsTip)'
    BY <1>0, <2>2, SoundBelow DEF OperateInv, SoundBranch
  <2> QED
    BY <2>3 DEF OperateInv, HasLeader, TargetBest, Settled, SoundBranch
<1>3. CASE InvalidateEnd
  <2> USE <1>3 DEF InvalidateEnd
  <2>1. UnfailedTo(tip) /\ tip \in linked /\ "data" \in nStatus[tip]
    BY <1>0, BaseFacts, AncestorFacts DEF BaseInv, UpInv, ActiveUnfailed, UnfailedTo, Contains
  <2>2. tip \in setBlockIndexCandidates'
    BY <1>0, <2>1, WorseNowOrder DEF IsValidTransactions, UnfailedTo
  <2>3. ASSUME NEW x \in linked, Good(x)', x \notin setBlockIndexCandidates' PROVE WorseNow(x, tip)
    <3>1. IsValidTransactions(x)
      BY <2>3, BaseFacts DEF IsValidTransactions, Good, UnfailedTo, IsFailed
    <3> QED
      BY <2>3, <3>1
  <2>4. Leader(tip)'
    BY <2>1, <2>2, <2>3 DEF Leader, Good, UnfailedTo, IsFailed, SoundBranch, WorseNow, OperateInv
  <2> QED
    BY <1>0, <2>4 DEF OperateInv, HasLeader, TargetBest, Settled, SoundBranch
<1> QED
  BY <1>1, <1>2, <1>3 DEF Invalidate

LEMMA OperateStep == ASSUME BaseInv, OperateInv, [NextOperate]_vars PROVE OperateInv'
<1>1. CASE Flush \/ UNCHANGED vars
  <2>1. SoundBranch(tip)' /\ SoundBranch(coinsTip)'
    BY <1>1 DEF Flush, FlushStateToDisk, FlushBegin, FlushEnd, vars, OperateInv, SoundBranch
  <2> QED
    BY <1>1, <2>1, OperateFrame DEF Flush, FlushStateToDisk, FlushBegin, FlushEnd, LockFree, vars,
       IsFailed
<1> QED
  BY <1>1, OperateReceive, OperateActivate, OperateInvalidate DEF NextOperate

LEMMA OperateInit == Init => BaseInv /\ OperateInv
<1> SUFFICES ASSUME Init PROVE BaseInv /\ OperateInv
  OBVIOUS
<1> USE DEF Init
<1>0. Genesis \in Blocks /\ Ancestors[Genesis] = {Genesis} /\ Genesis \notin BadConnect
  BY TreeAssumption, EnvironmentAssumption
<1>1. stakePointer[Genesis] = NULL
  BY <1>0, TreeAssumption, PointerAssumption
<1>2. BaseInv
  BY <1>0, <1>1, UpInit, MarksInit DEF BaseInv, MapComplete
<1>3. SoundBranch(Genesis) /\ IsBestCandidate(Genesis) /\ Good(Genesis)
  BY <1>0, <1>1 DEF SoundBranch, IsBestCandidate, Good, UnfailedTo, IsFailed, BLOCK_FAILED_MASK
<1>4. Leader(Genesis)
  BY <1>3 DEF Leader
<1> QED
  BY <1>0, <1>2, <1>3, <1>4 DEF OperateInv, HasLeader, TargetBest, Settled

\* OperateInv is an invariant of a node whose operator at most invalidates blocks.
LEMMA OperateInvariance == SpecOperate => [](BaseInv /\ OperateInv)
<1>1. BaseInv /\ OperateInv /\ [NextOperate]_vars => BaseInv' /\ OperateInv'
  BY NextInv, PathStep, UpStep, MarksStep, CompleteStep, OperateStep
     DEF BaseInv, Next, NextUp, NextSteady, NextMarks, NextOperate
<1> QED
  BY <1>1, OperateInit, PTL DEF SpecOperate

\* When ActivateBestChain has returned, no block the node could switch to is
\* better than its tip, whatever blocks came in whichever order, turned out
\* invalid or were invalidated by the operator.
THEOREM BestChain == SpecOperate => []BestChainWhenIdle
<1>1. ASSUME BaseInv, OperateInv, Idle, NEW b \in linked, UnfailedTo(b) PROVE ~WorseNow(tip, b)
  <2>1. IsBestCandidate(tip) /\ op = "free"
    BY <1>1 DEF Idle, OperateInv, Settled
  <2>2. PICK w \in Blocks : Leader(w)
    BY <1>1, <2>1 DEF OperateInv, HasLeader
  <2>3. TypeOK /\ b \in Blocks /\ tip \in Blocks /\ (w = tip \/ WorseNow(w, tip))
    BY <1>1, <2>1, <2>2, BaseFacts DEF IsBestCandidate, Leader
  <2>4. b \in setBlockIndexCandidates \/ WorseNow(b, w)
    BY <1>1, <2>2 DEF Leader, Good
  <2>5. b = tip \/ WorseNow(b, tip)
    BY <2>1, <2>2, <2>3, <2>4, WorseNowOrder DEF IsBestCandidate
  <2> QED
    BY <2>3, <2>5, WorseNowOrder
<1>2. BaseInv /\ OperateInv => BestChainWhenIdle
  BY <1>1 DEF BestChainWhenIdle, UnfailedTo
<1> QED
  BY <1>2, OperateInvariance, PTL

\* ... and the candidates are exactly the blocks CheckBlockIndex asserts them to
\* be.
THEOREM CandidatesAsAsserted == SpecOperate => []CandidatesExact
<1>1. ASSUME BaseInv, OperateInv, Idle, NEW b \in linked,
             \A a \in Ancestors[b] : "fvalid" \notin nStatus[a], ~WorseNow(b, tip)
      PROVE  b \in setBlockIndexCandidates
  <2>1. IsBestCandidate(tip) /\ op = "free"
    BY <1>1 DEF Idle, OperateInv, Settled
  <2>2. PICK w \in Blocks : Leader(w)
    BY <1>1, <2>1 DEF OperateInv, HasLeader
  <2>3. TypeOK /\ b \in Blocks /\ tip \in Blocks /\ (w = tip \/ WorseNow(w, tip)) /\ Alive
    BY <1>1, <2>1, <2>2, BaseFacts DEF IsBestCandidate, Leader
  <2>4. Good(b)
    BY <1>1, <2>3, AncestorFacts DEF Good, UnfailedTo, BaseInv, MarksInv, FailedHasCause
  <2>5. b \in setBlockIndexCandidates \/ WorseNow(b, w)
    BY <2>2, <2>4 DEF Leader, Good
  <2> QED
    BY <1>1, <2>2, <2>3, <2>5, WorseNowOrder
<1>2. ASSUME BaseInv, NEW c \in setBlockIndexCandidates PROVE c \in linked /\ ~WorseNow(c, tip)
  BY <1>2, BaseFacts DEF BaseInv, UpInv, CandidatesNotWorse
<1>3. BaseInv /\ OperateInv => CandidatesExact
  BY <1>1, <1>2 DEF CandidatesExact
<1> QED
  BY <1>3, OperateInvariance, PTL

=============================================================================
