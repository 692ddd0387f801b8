---------------------------- MODULE ChainRestart ----------------------------
(***************************************************************************)
(* The node of ChainState with shutdowns, crashes and restarts: what       *)
(* Shutdown (init.cpp) writes, what a crash loses, how LoadBlockIndexDB    *)
(* (main.cpp) builds the memory state from disk again, its repair of an    *)
(* unprepared shutdown, and RebuildStakePointerCache.                      *)
(***************************************************************************)
EXTENDS ChainState

Shutdown ==
    /\ LockFree
    /\ nRestarts < MaxRestarts
    /\ nRestarts' = nRestarts + 1
    /\ FlushBegin("shutdown")
    /\ dbHeightLast' = nHeightLast
    /\ UNCHANGED <<nHeightLast, nCommands>>

\* Memory is gone; the variables take the values of a process not started.
MemoryLost ==
    /\ nStatus' = [b \in Blocks |-> {}]
    /\ linked' = {} /\ mapBlocksUnlinked' = {}
    /\ nSequenceId' = [b \in Blocks |-> 0]
    /\ addr' = CHOOSE o \in AddressOrders : TRUE
    /\ setBlockIndexCandidates' = {} /\ setDirtyBlockIndex' = {}
    /\ nHeightLast' = 0
    /\ tip' = Genesis /\ coinsTip' = Genesis
    /\ mapUsedStakePointers' = NoPointers
    /\ checkRejected' = {} /\ mapRejectedBlocks' = {}
    /\ op' = "free" /\ write' = "no"
    /\ pindexMostWork' = Genesis /\ pindexOldTip' = Genesis
    /\ nLeft' = 0 /\ vReconsider' = {} /\ activating' = FALSE

\* Mutant: the flag is written without waiting for the records.
ShutdownUnwritten ==
    /\ op = "shutdown"
    /\ dbTip' = coinsTip
    /\ dbShutdown' = TRUE
    /\ phase' = "down"
    /\ MemoryLost
    /\ UNCHANGED <<dbStatus, dbHeightLast, boundVars>>

ShutdownEnd ==
    /\ op = "shutdown" /\ ~Writing
    /\ dbTip' = coinsTip
    /\ dbShutdown' = TRUE
    /\ phase' = "down"
    /\ MemoryLost
    /\ UNCHANGED <<dbStatus, dbHeightLast, boundVars>>

Crash ==
    /\ phase \in {"up", "fix", "loaded"}
    /\ nRestarts < MaxRestarts
    /\ nRestarts' = nRestarts + 1
    /\ phase' = "down"
    /\ MemoryLost
    /\ UNCHANGED <<diskVars, nCommands>>

\* What LoadBlockIndexDB computes from the records on disk.
LoadedData == {b \in Blocks : "data" \in dbStatus[b]}

LoadedLinked == {b \in Blocks : Ancestors[b] \subseteq LoadedData}

\* Mutants: unlinked blocks are candidates; the tip itself is none.
CandidatesUnlinked == {b \in LoadedData : dbStatus[b] \cap BLOCK_FAILED_MASK = {}}

CandidatesBetter == {b \in LoadedLinked \ {dbTip} : dbStatus[b] \cap BLOCK_FAILED_MASK = {}}

\* Entries that may become candidates: valid, and linked.
LoadedCandidates ==
    {b \in LoadedLinked : dbStatus[b] \cap BLOCK_FAILED_MASK = {}}

\* Mutant: the chain starts from the best block of the index, not of the coins.
LoadHighestTip ==
    /\ nStatus' = dbStatus
    /\ linked' = LoadedLinked
    /\ mapBlocksUnlinked' = LoadedData \ LoadedLinked
    /\ nSequenceId' = [b \in Blocks |-> 0]
    /\ addr' \in AddressOrders
    /\ setDirtyBlockIndex' = {}
    /\ nHeightLast' = dbHeightLast
    /\ tip' \in {b \in LoadedLinked : \A c \in LoadedLinked : nHeight[c] <= nHeight[b]}
    /\ coinsTip' = dbTip
    /\ mapUsedStakePointers' = NoPointers

\* The block index as the records describe it, and the tip of the coins.
LoadBlockIndexGuts ==
    /\ nStatus' = dbStatus
    /\ linked' = LoadedLinked
    /\ mapBlocksUnlinked' = LoadedData \ LoadedLinked
    /\ nSequenceId' = [b \in Blocks |-> 0]
    /\ addr' \in AddressOrders
    /\ setDirtyBlockIndex' = {}
    /\ nHeightLast' = dbHeightLast
    /\ tip' = dbTip
    /\ coinsTip' = dbTip
    /\ mapUsedStakePointers' = NoPointers

\* Mutant: -forcestart is not looked at.
InconsistentThough(force) ==
    /\ ~dbShutdown
    /\ Cardinality({b \in Blocks : dbStatus[b] # {}}) # dbHeightLast + 1
    /\ dbHeightLast # 0

\* The test for an unprepared shutdown: records against heights of the file.
Inconsistent(force) ==
    /\ ~dbShutdown /\ ~force
    /\ Cardinality({b \in Blocks : dbStatus[b] # {}}) # dbHeightLast + 1
    /\ dbHeightLast # 0

\* The process is not running.
NotRunning == phase \in {"down", "aborted", "asserted"}

\* A record is on disk and its parent's is not.
Orphaned == \E b \in Blocks \ {Genesis} : dbStatus[b] # {} /\ dbStatus[pprev[b]] = {}

\* LoadBlockIndexGuts meets such a record: InsertBlockIndex makes an entry for the
\* parent that has no height, no work and no pprev of its own.  What becomes of a
\* node with such an entry is not followed.
LoadStub ==
    /\ NotRunning
    /\ Orphaned
    /\ phase' = "stub"
    /\ UNCHANGED <<indexVars, chainVars, diskVars, stepVars, activating, boundVars>>

\* LoadBlockIndexDB on a datadir it takes for sound.
LoadBlockIndexDB ==
    /\ NotRunning /\ ~Orphaned
    /\ \E force \in ForceStart : ~Inconsistent(force)
    /\ LoadBlockIndexGuts
    /\ setBlockIndexCandidates' =
          {b \in LoadedCandidates : ~Worse(b, dbTip, nSequenceId', addr')}
    /\ setBlockIndexCandidates' # {}
    /\ dbShutdown' = FALSE
    /\ phase' = "loaded"
    /\ UNCHANGED <<dbStatus, dbTip, dbHeightLast, verdictVars, stepVars, activating,
                   boundVars>>

\* ... or PruneBlockIndexCandidates' assertion ends the process: no candidate is
\* as good as the tip of the coins database.
LoadAsserts ==
    /\ NotRunning /\ ~Orphaned
    /\ \E force \in ForceStart : ~Inconsistent(force)
    /\ \E ad \in AddressOrders :
          \A b \in LoadedCandidates : Worse(b, dbTip, [x \in Blocks |-> 0], ad)
    /\ dbShutdown' = FALSE
    /\ phase' = "asserted"
    /\ MemoryLost
    /\ UNCHANGED <<dbStatus, dbTip, dbHeightLast, boundVars>>

\* The block the repair processes again: a child of the coins tip, else the
\* last block, by address, one higher than it.
LastMeta(m) ==
    LET next == {b \in mapBlockIndex : nHeight[b] = nHeight[tip] + 1}
        children == {b \in next : pprev[b] = tip}
    IN  /\ m \in next
        /\ IF children # {}
           THEN m \in children /\ \A b \in children : addr[m] <= addr[b]
           ELSE \A b \in next : addr[b] <= addr[m]

\* LoadBlockIndexDB on a datadir it takes for inconsistent: load, and go on
\* with the repair.
LoadInconsistent ==
    /\ NotRunning /\ ~Orphaned
    /\ \E force \in ForceStart : Inconsistent(force)
    /\ LoadBlockIndexGuts
    /\ setBlockIndexCandidates' = LoadedCandidates
    /\ phase' = "fix"
    /\ op' = "meta"
    /\ UNCHANGED <<diskVars, verdictVars, write, targetVars, activating, boundVars>>

\* The repair has a block to process again and can read it: ProcessNewBlock,
\* whose answer is ignored, activates the best chain if it accepts the block.
FixProcessBlock ==
    /\ op = "meta"
    /\ \E m \in Blocks :
          /\ LastMeta(m)
          /\ "data" \in nStatus[m]
          /\ activating' = (BlockAcceptable(m) /\ m \notin checkRejected)
    /\ op' = "free"
    /\ UNCHANGED <<indexVars, chainVars, diskVars, write, targetVars, phase, boundVars>>

\* The repair has nothing to process again.
FixNothing ==
    /\ op = "meta"
    /\ ~\E m \in Blocks : LastMeta(m)
    /\ op' = "free"
    /\ UNCHANGED <<indexVars, chainVars, diskVars, write, targetVars, phase, activating,
                   boundVars>>

\* pindexLast, the highest block of the index (by address among equals).
PindexLast(l) ==
    /\ l \in mapBlockIndex
    /\ \A b \in mapBlockIndex : \/ nHeight[b] < nHeight[l]
                                \/ nHeight[b] = nHeight[l] /\ addr[b] <= addr[l]

\* The block to process again cannot be read: it is known by its header only.
\* isFixed is false from here on, and the process ends in abort().
MetaUnreadable ==
    /\ op = "meta"
    /\ \E m \in Blocks : LastMeta(m) /\ "data" \notin nStatus[m]

\* End of the repair: account for the last block, flush ...
FixFlush ==
    /\ phase = "fix"
    /\ \/ op = "free" /\ ~activating
       \/ MetaUnreadable
    /\ \E l \in Blocks : PindexLast(l) /\ nHeightLast' = nHeight[l]
    /\ dbHeightLast' = nHeightLast'
    /\ FlushBegin(IF MetaUnreadable THEN "abort" ELSE "fix")
    /\ UNCHANGED <<boundVars>>

\* ... and go on if the last block could be read from disk, else abort().
FixEnd ==
    /\ op = "fix" /\ ~Writing
    /\ \A l \in Blocks : PindexLast(l) => "data" \in nStatus[l]
    /\ dbTip' = coinsTip
    /\ dbShutdown' = FALSE
    /\ op' = "free"
    /\ write' = "no"
    /\ setBlockIndexCandidates' = PruneBlockIndexCandidates(setBlockIndexCandidates, tip)
    /\ setBlockIndexCandidates' # {}
    /\ phase' = "loaded"
    /\ UNCHANGED <<nStatus, linkVars, setDirtyBlockIndex, nHeightLast, chainVars,
                   dbStatus, dbHeightLast, targetVars, activating, boundVars>>

\* ... and the same assertion at its end.
FixAsserts ==
    /\ op = "fix" /\ ~Writing
    /\ \A l \in Blocks : PindexLast(l) => "data" \in nStatus[l]
    /\ PruneBlockIndexCandidates(setBlockIndexCandidates, tip) = {}
    /\ dbTip' = coinsTip
    /\ dbShutdown' = FALSE
    /\ phase' = "asserted"
    /\ MemoryLost
    /\ UNCHANGED <<dbStatus, dbHeightLast, boundVars>>

\* The last block, or the one to process again, cannot be read: abort().
FixAbort ==
    /\ op \in {"fix", "abort"} /\ ~Writing
    /\ op = "fix" => \E l \in Blocks : PindexLast(l) /\ "data" \notin nStatus[l]
    /\ dbTip' = coinsTip
    /\ phase' = "aborted"
    /\ MemoryLost
    /\ UNCHANGED <<dbStatus, dbHeightLast, dbShutdown, boundVars>>

\* Blocks RebuildStakePointerCache reads.
InRebuildWindow(b) ==
    /\ b \in Ancestors[tip]
    /\ nHeight[b] >= StakePointerForkHeight
    /\ nHeight[b] > nHeight[tip] - ValidStakePointerDuration

\* The lowest blocks of a set.
Lowest(S) == {b \in S : \A c \in S : nHeight[b] <= nHeight[c]}

\* init.cpp: RebuildStakePointerCache, which walks down and lets the lowest
\* user of a pointer win, and then ActivateBestChain.
RebuildStakePointerCache ==
    /\ phase = "loaded"
    /\ mapUsedStakePointers' =
         [o \in Outpoints |->
            LET users == {b \in Blocks : InRebuildWindow(b) /\ stakePointer[b] = o}
            IN  IF Lowest(users) = {} THEN NULL ELSE CHOOSE b \in Lowest(users) : TRUE]
    /\ phase' = "up"
    /\ activating' = TRUE
    /\ UNCHANGED <<indexVars, tip, coinsTip, verdictVars, diskVars, stepVars,
                   boundVars>>

-----------------------------------------------------------------------------
\* The process ends and comes back.
Stop == Shutdown \/ ShutdownEnd \/ Crash

Start ==
    \/ LoadStub \/ LoadBlockIndexDB \/ LoadAsserts \/ LoadInconsistent
    \/ FixProcessBlock \/ FixNothing \/ FixFlush \/ FixEnd \/ FixAsserts \/ FixAbort
    \/ RebuildStakePointerCache

Next == NextUp \/ Stop \/ Start

Spec == Init /\ [][Next]_vars

\* A node on which nobody clears a failure mark, and which no crash kills inside
\* the loop that writes the block index.
NextMarks ==
    \/ NextOperate \/ Dispute \/ Verify
    \/ Shutdown \/ ShutdownEnd \/ (~Writing /\ Crash) \/ Start

SpecMarks == Init /\ [][NextMarks]_vars

\* An operator who starts the process again, sooner or later with -forcestart,
\* and a start that goes on.
FairSpec ==
    /\ Spec
    /\ Fairness
    /\ WF_vars(ShutdownEnd) /\ WF_vars(Start)
    /\ SF_vars(LoadBlockIndexDB \/ LoadAsserts)

-----------------------------------------------------------------------------
\* No block up to b breaks a rule by itself.
NoBad(b) == Ancestors[b] \cap (BadContext \cup BadConnect) = {}

\* No block that ContextualCheckBlock or ConnectBlock refuses for its own sake is
\* in the active chain, in the chain of the coins view or in the one the coins
\* database is at, however often the process was repaired or started again.
ActiveChainValid == NoBad(tip) /\ NoBad(coinsTip) /\ NoBad(dbTip)

\* PruneBlockIndexCandidates' assertion fails at a start only when a block is
\* marked failed on disk that is good in itself: the operator has invalidated it
\* or an ancestor, or the node refused it for a lock, a vote or a used pointer.
CandidateAtStart ==
    phase = "asserted" =>
        \E b \in Blocks : NoBad(b) /\ dbStatus[b] \cap BLOCK_FAILED_MASK # {}

\* The records a shutdown leaves describe whole branches: the index the next start
\* builds from them needs no entry InsertBlockIndex makes up, which a crash inside
\* the loop of a flush may require.
ShutdownWhole == dbShutdown => ~Orphaned

\* A node that stopped, however it stopped, is up and settled again in the end,
\* unless that assertion keeps it down or a parent's record is missing.
ComesBack == NotRunning ~> (Idle \/ phase \in {"asserted", "stub"})

=============================================================================
