----------------------------- MODULE ChainState -----------------------------
(***************************************************************************)
(* The block chain state of one Agouti node (src/src/main.cpp, chain.h,    *)
(* chain.cpp): the block index, the set of candidate tips, the active      *)
(* chain, the coins database that follows it, the cache of used stake      *)
(* pointers, what each of them leaves on disk, and what a crash, a         *)
(* shutdown and a restart make of it.                                      *)
(*                                                                         *)
(* cs_main serialises the handlers, but ActivateBestChain releases it      *)
(* between its steps, and a crash strikes anywhere: inside a step, between *)
(* the two halves of a flush (block index first, coins second), and        *)
(* between two records of its index half.                                  *)
(* "op" names the handler that holds cs_main between two of its steps;     *)
(* it is "free" when another thread may take the lock.                     *)
(*                                                                         *)
(* The tree of blocks is a constant: a block is what its hash stands for,  *)
(* its header, body and stake pointer together.  What varies is which      *)
(* headers and bodies this node has seen, in which order.                  *)
(***************************************************************************)
EXTENDS BlockTree

CONSTANTS
    BadContext,      \* blocks that ContextualCheckBlock refuses
    BadConnect,      \* blocks whose value or scripts ConnectBlock refuses
    Disputed,        \* blocks on which CheckBlock's verdict varies with what the
                     \* node knows: SwiftTX locks, masternode payment votes
    AddressOrders,   \* orders in which CBlockIndex objects may lie in memory
    ForceStart,      \* values -forcestart may have on a restart
    ReprocessDepth,  \* nBlocks of ReprocessBlocks (15 in swifttx.cpp)
    VerifyDepths,    \* values of nCheckDepth an operator gives verifychain
    MaxRestarts,     \* bound: shutdowns and crashes
    MaxCommands      \* bound: operator commands and transaction locks

ASSUME EnvironmentAssumption ==
    /\ BadContext \subseteq Blocks /\ BadConnect \subseteq Blocks
    /\ Disputed \subseteq Blocks
    /\ Genesis \notin BadContext \cup BadConnect \cup Disputed
    /\ AddressOrders # {} /\ AddressOrders \subseteq [Blocks -> Int]
    /\ \A ad \in AddressOrders : \A a, b \in Blocks : ad[a] = ad[b] => a = b
    /\ ForceStart # {} /\ ForceStart \subseteq BOOLEAN
    /\ ReprocessDepth \in Nat /\ VerifyDepths \subseteq Nat
    /\ MaxRestarts \in Nat /\ MaxCommands \in Nat

VARIABLES
    (* The block index, in memory. *)
    nStatus,                 \* flags of each block; {} when it is not in mapBlockIndex
    linked,                  \* blocks with nChainTx # 0
    mapBlocksUnlinked,       \* blocks with a body, waiting for an ancestor's body
    nSequenceId,             \* order in which blocks became linked; 0: from disk
    addr,                    \* address of each CBlockIndex
    setBlockIndexCandidates,
    setDirtyBlockIndex,
    nHeightLast,             \* vinfoBlockFile[nLastBlockFile].nHeightLast
    (* The active chain. *)
    tip,                     \* chainActive.Tip()
    coinsTip,                \* pcoinsTip->GetBestBlock()
    mapUsedStakePointers,    \* outpoint -> block that used it, NULL if none
    checkRejected,           \* disputed blocks that CheckBlock refuses at present
    mapRejectedBlocks,       \* disputed blocks CheckBlock has refused
    (* On disk. *)
    dbStatus,                \* the block index records of blocks/index
    dbTip,                   \* best block of the chainstate database
    dbHeightLast,            \* nHeightLast of the file info record
    dbShutdown,              \* flag "shutdown"
    (* Threads. *)
    phase,                   \* life of the process
    op,                      \* the handler that keeps cs_main between two steps
    write,                   \* what a half-done flush belongs to, "no" if none is
    pindexMostWork,          \* target of a step, or the block being invalidated
    pindexOldTip,
    nLeft,                   \* blocks ReprocessBlocks has still to disconnect; 0: no
                             \* thread is inside it
    vReconsider,             \* rejected blocks it has still to reconsider
    activating,              \* some thread is inside ActivateBestChain
    nRestarts, nCommands     \* bounds

linkVars    == <<linked, mapBlocksUnlinked, nSequenceId, addr>>
indexVars   == <<nStatus, setDirtyBlockIndex, setBlockIndexCandidates, nHeightLast, linkVars>>
verdictVars == <<checkRejected, mapRejectedBlocks>>
chainVars   == <<tip, coinsTip, mapUsedStakePointers, verdictVars>>
diskVars    == <<dbStatus, dbTip, dbHeightLast, dbShutdown>>
targetVars  == <<pindexMostWork, pindexOldTip, nLeft, vReconsider>>
stepVars    == <<op, write, targetVars>>
boundVars   == <<nRestarts, nCommands>>
vars == <<indexVars, chainVars, diskVars, stepVars, phase, activating, boundVars>>

-----------------------------------------------------------------------------
(* CBlockIndex::nStatus and CChain. *)

\* Flags that matter here.  "tree" is BLOCK_VALID_TREE (set with the header),
\* "data" BLOCK_HAVE_DATA and BLOCK_VALID_TRANSACTIONS (set with the body),
\* "fvalid" and "fchild" BLOCK_FAILED_VALID and BLOCK_FAILED_CHILD.
Flags == {"tree", "data", "fvalid", "fchild"}

\* The two halves of BLOCK_FAILED_MASK.
BLOCK_FAILED_MASK == {"fvalid", "fchild"}

\* Keys of mapBlockIndex.
mapBlockIndex == {b \in Blocks : nStatus[b] # {}}

IsFailed(b) == nStatus[b] \cap BLOCK_FAILED_MASK # {}

\* IsValid(BLOCK_VALID_TRANSACTIONS)
IsValidTransactions(b) == "data" \in nStatus[b] /\ ~IsFailed(b)

\* chainActive.Contains(b); CChain::SetTip keeps vChain the path to its tip.
Contains(b) == b \in Ancestors[tip]

\* CBlockIndexWorkComparator: a sorts before b, that is, a is the worse tip.
Worse(a, b, seq, ad) ==
    \/ nChainWork[a] < nChainWork[b]
    \/ /\ nChainWork[a] = nChainWork[b]
       /\ \/ seq[a] > seq[b]
          \/ seq[a] = seq[b] /\ ad[a] > ad[b]

WorseNow(a, b) == Worse(a, b, nSequenceId, addr)

\* Mutant: the tip itself is dropped too.
PruneDropsTip(cand, t) == {c \in cand : WorseNow(t, c)}

\* PruneBlockIndexCandidates, with t the new tip.
PruneBlockIndexCandidates(cand, t) == {c \in cand : ~WorseNow(c, t)}

-----------------------------------------------------------------------------
(* Stake pointers. *)

\* IsStakePointerUsed: the branch-relative scan below pindexPrev.  A block
\* known by its header only is not marked proof-of-stake and is passed over.
IsStakePointerUsed(prev, outpoint) ==
    \E a \in Ancestors[prev] :
        /\ nHeight[a] >= StakePointerForkHeight
        /\ nHeight[a] >= nHeight[prev] - ValidStakePointerDuration + 1
        /\ "data" \in nStatus[a]
        /\ stakePointer[a] = outpoint

\* CheckBlockProofPointer (with CheckStake): steps 1, 2, 3 and 5.
CheckBlockProofPointer(b) ==
    LET from == pointerBlock[b] IN
    /\ from \in mapBlockIndex
    /\ Contains(from)
    /\ nHeight[from] >= nHeight[b] - ValidStakePointerDuration
    /\ nHeight[from] <= nHeight[b] - MaxReorganizationDepth
    /\ ~IsStakePointerUsed(pprev[b], stakePointer[b])

\* CheckWork: the legacy kernel before the fork, the pointer from it on.
CheckWork(b) == stakePointer[b] # NULL => CheckBlockProofPointer(b)

\* setStakeSeen holds the proof-of-stake ids of the bodies received.
StakeSeen(b) ==
    /\ stakePointer[b] # NULL
    /\ \E a \in Blocks : /\ "data" \in nStatus[a]
                         /\ stakePointer[a] = stakePointer[b]
                         /\ nTime[a] = nTime[b]

\* Mutants: a pointer is not forgotten, not recorded, not looked up.
ForgetNothing(map, b) == map

RecordNothing(map, b) == map

LookUpNothing(map, b) == TRUE

\* DisconnectBlock forgets the pointer of the block it undoes.
ForgetPointer(map, b) ==
    IF stakePointer[b] = NULL THEN map ELSE [map EXCEPT ![stakePointer[b]] = NULL]

\* ConnectBlock records the pointer of the block it applies.
RecordPointer(map, b) ==
    IF stakePointer[b] = NULL THEN map ELSE [map EXCEPT ![stakePointer[b]] = b]

\* ConnectBlock refuses a pointer that is recorded.
PointerFree(map, b) == stakePointer[b] # NULL => map[stakePointer[b]] = NULL

NoPointers == [o \in Outpoints |-> NULL]

-----------------------------------------------------------------------------
(* Accepting headers and bodies. *)

\* Another thread may take cs_main.
LockFree == phase = "up" /\ op = "free"

\* ContextualCheckBlockHeader: the reorganisation limit.
ContextualCheckBlockHeader(b) ==
    LET depth == IF nHeight[b] >= StakePointerForkHeight
                     /\ KernelModifierOffset < MaxReorganizationDepth
                 THEN KernelModifierOffset
                 ELSE MaxReorganizationDepth
    IN  nHeight[tip] - nHeight[b] < depth

\* AcceptBlockHeader: a known header must not be failed, a new one must extend
\* a known one that is not failed and lie within the reorganisation limit.
HeaderAcceptable(b) ==
    IF b \in mapBlockIndex
    THEN ~IsFailed(b)
    ELSE /\ pprev[b] \in mapBlockIndex
         /\ ~IsFailed(pprev[b])
         /\ ContextualCheckBlockHeader(b)

\* A "headers" message: AcceptBlockHeader and AddToBlockIndex.
AcceptBlockHeader(b) ==
    /\ LockFree
    /\ b \notin mapBlockIndex
    /\ HeaderAcceptable(b)
    /\ nStatus' = [nStatus EXCEPT ![b] = {"tree"}]
    /\ setDirtyBlockIndex' = setDirtyBlockIndex \cup {b}
    /\ UNCHANGED <<linkVars, setBlockIndexCandidates, nHeightLast, chainVars, diskVars,
                   stepVars, phase, activating, boundVars>>

\* The checks of ProcessNewBlock and AcceptBlock up to the body's own.
BlockAcceptable(b) ==
    /\ b # Genesis
    /\ StakeSeen(b) => "data" \in nStatus[b]
    /\ pprev[b] \in mapBlockIndex
    /\ ~IsFailed(pprev[b])
    /\ CheckWork(b)
    /\ HeaderAcceptable(b)

\* CheckBlock refuses the body before anything else is done with it.
ProcessRejectedBlock(b) ==
    /\ LockFree
    /\ b \in checkRejected
    /\ mapRejectedBlocks' = mapRejectedBlocks \cup {b}
    /\ UNCHANGED <<indexVars, tip, coinsTip, mapUsedStakePointers, checkRejected,
                   diskVars, stepVars, phase, activating, boundVars>>

\* The body is already there: AcceptBlock returns and the chain is activated.
ProcessKnownBlock(b) ==
    /\ LockFree
    /\ b \notin checkRejected
    /\ BlockAcceptable(b)
    /\ "data" \in nStatus[b]
    /\ activating' = TRUE
    /\ UNCHANGED <<indexVars, chainVars, diskVars, stepVars, phase, boundVars>>

\* AcceptBlock refuses the body: the header is marked failed.  A disputed block
\* passes the CheckBlock that ProcessNewBlock makes before it takes cs_main and
\* fails the second one when the verdict has changed in between.
ProcessBadBlock(b) ==
    /\ LockFree
    /\ BlockAcceptable(b)
    /\ "data" \notin nStatus[b]
    /\ b \in BadContext \cup checkRejected
    /\ nStatus' = [nStatus EXCEPT ![b] = @ \cup {"tree", "fvalid"}]
    /\ setDirtyBlockIndex' = setDirtyBlockIndex \cup {b}
    /\ mapRejectedBlocks' = mapRejectedBlocks \cup ({b} \cap checkRejected)
    /\ UNCHANGED <<linkVars, setBlockIndexCandidates, nHeightLast, tip, coinsTip,
                   mapUsedStakePointers, checkRejected, diskVars, stepVars, phase,
                   activating, boundVars>>

\* Mutant: blocks that wait for b are forgotten.
LinkOnlyIt(b) == IF pprev[b] \in linked THEN {b} ELSE {}

\* Blocks ReceivedBlockTransactions links when b's body arrives: b, and the
\* waiting descendants whose bodies up to b are all waiting.  The checkpoint of the
\* stake modifier refuses none of them: there is one, for the genesis block, and
\* only blocks with a parent are held against it.
NewlyLinked(b) ==
    IF pprev[b] \in linked
    THEN {b} \cup {u \in mapBlocksUnlinked :
                      /\ b \in Ancestors[u]
                      /\ Ancestors[u] \ Ancestors[b] \subseteq mapBlocksUnlinked}
    ELSE {}

\* nBlockSequenceId: one more than the ids given since the start.
NextSequenceId == Cardinality({b \in Blocks : nSequenceId[b] > 0}) + 1

\* The breadth-first queue numbers parents before children; the order of
\* blocks of one height (insertion order of a multimap) is left open.
SequenceAssignments(L) ==
    {s \in [L -> NextSequenceId .. NextSequenceId + Cardinality(L) - 1] :
        \A x, y \in L : x # y => /\ s[x] # s[y]
                                 /\ nHeight[x] < nHeight[y] => s[x] < s[y]}

\* ProcessNewBlock with a new body: AcceptBlock, ReceivedBlockTransactions and
\* the start of ActivateBestChain.
ProcessNewBlock(b) ==
    /\ LockFree
    /\ BlockAcceptable(b)
    /\ "data" \notin nStatus[b]
    /\ b \notin BadContext \cup checkRejected
    /\ nStatus' = [nStatus EXCEPT ![b] = @ \cup {"tree", "data"}]
    /\ linked' = linked \cup NewlyLinked(b)
    /\ mapBlocksUnlinked' = IF pprev[b] \in linked
                            THEN mapBlocksUnlinked \ NewlyLinked(b)
                            ELSE mapBlocksUnlinked \cup {b}
    /\ \E s \in SequenceAssignments(NewlyLinked(b)) :
          nSequenceId' = [x \in Blocks |-> IF x \in NewlyLinked(b) THEN s[x]
                                                          ELSE nSequenceId[x]]
    /\ setBlockIndexCandidates' = setBlockIndexCandidates \cup
          {x \in NewlyLinked(b) : ~Worse(x, tip, nSequenceId', addr)}
    /\ setDirtyBlockIndex' = setDirtyBlockIndex \cup {b} \cup NewlyLinked(b)
    /\ nHeightLast' = IF nHeight[b] > nHeightLast THEN nHeight[b] ELSE nHeightLast
    /\ activating' = TRUE
    /\ UNCHANGED <<addr, chainVars, diskVars, stepVars, phase, boundVars>>

-----------------------------------------------------------------------------
(* FlushStateToDisk and DisconnectTip.  A flush writes the file info first   *)
(* (the step that begins it), then the dirty records of the block index, one *)
(* LevelDB write each, and the coins last (the step that ends it).           *)

\* A flush is inside the loop that writes the block index.
Writing == write # "no" /\ setDirtyBlockIndex # {}

\* One turn of that loop: setDirtyBlockIndex is a set of pointers, so the block
\* at the lowest address is next.
WriteBlockIndex ==
    /\ write # "no"
    /\ \E b \in setDirtyBlockIndex :
          /\ \A x \in setDirtyBlockIndex : addr[b] <= addr[x]
          /\ dbStatus' = [dbStatus EXCEPT ![b] = nStatus[b]]
          /\ setDirtyBlockIndex' = setDirtyBlockIndex \ {b}
    /\ UNCHANGED <<nStatus, linkVars, setBlockIndexCandidates, nHeightLast, chainVars,
                   dbTip, dbHeightLast, dbShutdown, stepVars, phase, activating,
                   boundVars>>

\* DisconnectTip always flushes; only then it moves the tip.
DisconnectBegin(dirty) ==
    /\ write = "no"
    /\ coinsTip' = pprev[tip]
    /\ mapUsedStakePointers' = ForgetPointer(mapUsedStakePointers, tip)
    /\ dbHeightLast' = nHeightLast
    /\ setDirtyBlockIndex' = dirty
    /\ write' = "disconnect"

\* pcoinsTip->Flush and UpdateTip.
DisconnectEnd ==
    /\ write = "disconnect" /\ ~Writing
    /\ dbTip' = coinsTip
    /\ tip' = coinsTip
    /\ write' = "no"
    /\ UNCHANGED <<indexVars, coinsTip, mapUsedStakePointers, verdictVars, dbStatus,
                   dbHeightLast, dbShutdown, op, targetVars, phase, activating,
                   boundVars>>

-----------------------------------------------------------------------------
(* ActivateBestChain. *)

Running == phase \in {"up", "fix"}

\* The last element of setBlockIndexCandidates.
IsBestCandidate(c) ==
    /\ c \in setBlockIndexCandidates
    /\ \A d \in setBlockIndexCandidates : d = c \/ WorseNow(d, c)

\* Failed blocks between candidate c and the active chain.
FailedOnPath(c) == {x \in Ancestors[c] \ Ancestors[tip] : IsFailed(x)}

\* FindMostWorkChain meets a failed block: it marks the blocks above the
\* highest one (without marking them dirty), drops the whole chain from the
\* candidates and looks again.
DiscardCandidate ==
    /\ Running /\ activating /\ op \in {"free", "find"}
    /\ \E c \in Blocks : \E x \in FailedOnPath(c) :
          /\ IsBestCandidate(c)
          /\ \A y \in FailedOnPath(c) : nHeight[y] <= nHeight[x]
          /\ LET above == Ancestors[c] \ Ancestors[x] IN
             /\ nStatus' = [b \in Blocks |-> IF b \in above
                                             THEN nStatus[b] \cup {"fchild"}
                                             ELSE nStatus[b]]
             /\ setBlockIndexCandidates' = setBlockIndexCandidates \ (above \cup {x})
    /\ op' = "find"
    /\ UNCHANGED <<linkVars, setDirtyBlockIndex, nHeightLast, chainVars, diskVars,
                   write, targetVars, phase, activating, boundVars>>

\* Nothing better than the tip: ActivateBestChain returns.
ActivateDone ==
    /\ Running /\ activating /\ op \in {"free", "find"}
    /\ setBlockIndexCandidates = {} \/ IsBestCandidate(tip)
    /\ op' = "free"
    /\ activating' = FALSE
    /\ UNCHANGED <<indexVars, chainVars, diskVars, write, targetVars, phase, boundVars>>

\* ActivateBestChainStep starts towards the best candidate.
ActivateBestChainStep ==
    /\ Running /\ activating /\ op \in {"free", "find"}
    /\ \E c \in Blocks \ {tip} :
          /\ IsBestCandidate(c)
          /\ FailedOnPath(c) = {}
          /\ pindexMostWork' = c
    /\ pindexOldTip' = tip
    /\ op' = "step"
    /\ UNCHANGED <<indexVars, chainVars, diskVars, write, nLeft, vReconsider, phase,
                   activating, boundVars>>

\* Mutant: the loop does not stop at the fork.
DisconnectPastFork ==
    /\ op = "step"
    /\ DisconnectBegin(setDirtyBlockIndex)
    /\ UNCHANGED <<nStatus, linkVars, setBlockIndexCandidates, nHeightLast, tip,
                   verdictVars, dbStatus, dbTip, dbShutdown, op, targetVars, phase,
                   activating, boundVars>>

\* Leave the blocks that are not on the way to pindexMostWork.
StepDisconnectTip ==
    /\ op = "step"
    /\ tip \notin Ancestors[pindexMostWork]
    /\ DisconnectBegin(setDirtyBlockIndex)
    /\ UNCHANGED <<nStatus, linkVars, setBlockIndexCandidates, nHeightLast, tip,
                   verdictVars, dbStatus, dbTip, dbShutdown, op, targetVars, phase,
                   activating, boundVars>>

\* The most work is in a block below the old tip: nothing is to be connected.
StepOnlyDisconnects ==
    /\ op = "step" /\ write = "no"
    /\ tip = pindexMostWork
    /\ op' = "free"
    /\ activating' = FALSE
    /\ UNCHANGED <<indexVars, chainVars, diskVars, write, targetVars, phase, boundVars>>

\* The next block to connect.
NextToConnect(b) ==
    /\ op = "step" /\ write = "no"
    /\ b \in Ancestors[pindexMostWork]
    /\ b # Genesis
    /\ pprev[b] = tip

\* ConnectBlock accepts b.
Connectable(b) ==
    /\ b \notin checkRejected \cup BadConnect
    /\ PointerFree(mapUsedStakePointers, b)

\* WriteBlockIndex in ConnectBlock puts b's record on disk at once.
ConnectWrite(b) == dbStatus' = [dbStatus EXCEPT ![b] = nStatus[b]]

\* ... unless b is refused before it: CheckBlock is, where a disputed block is
\* refused, and the checks of inputs and signature operations are, but neither
\* the amounts, the scripts nor the used pointer.
RefusedBeforeWrite(b) == b \in checkRejected \cup BadConnect /\ UNCHANGED dbStatus

RefusedAfterWrite(b) == b \notin checkRejected /\ ConnectWrite(b)

\* Mutant: the invalid block is neither marked nor dropped.
ConnectInvalidUnmarked ==
    /\ \E b \in Blocks : NextToConnect(b) /\ ~Connectable(b)
    /\ op' = "free"
    /\ UNCHANGED <<indexVars, chainVars, diskVars, write, targetVars, phase, activating,
                   boundVars>>

\* ConnectTip fails on a consensus rule: InvalidBlockFound; the step ends and
\* cs_main is released wherever the tip is.
ConnectTipInvalid ==
    /\ \E b \in Blocks :
          /\ NextToConnect(b)
          /\ ~Connectable(b)
          /\ nStatus' = [nStatus EXCEPT ![b] = @ \cup {"fvalid"}]
          /\ setDirtyBlockIndex' = setDirtyBlockIndex \cup {b}
          /\ setBlockIndexCandidates' = setBlockIndexCandidates \ {b}
          /\ RefusedBeforeWrite(b) \/ RefusedAfterWrite(b)
          /\ mapRejectedBlocks' = mapRejectedBlocks \cup ({b} \cap checkRejected)
    /\ op' = "free"
    /\ UNCHANGED <<linkVars, nHeightLast, tip, coinsTip, mapUsedStakePointers,
                   checkRejected, dbTip, dbHeightLast, dbShutdown, write, targetVars,
                   phase, activating, boundVars>>

\* Mutant: cs_main is released after every block.
ReleaseAfterConnect(b) ==
    /\ tip' = b
    /\ setBlockIndexCandidates' = PruneBlockIndexCandidates(setBlockIndexCandidates, b)
    /\ op' = "free"
    /\ activating' = (b # pindexMostWork)

\* After b became the tip: prune, and end the step if the chain is better than
\* the one it started from or has reached pindexMostWork.
AfterConnect(b) ==
    /\ tip' = b
    /\ setBlockIndexCandidates' = PruneBlockIndexCandidates(setBlockIndexCandidates, b)
    /\ op' = IF nChainWork[b] > nChainWork[pindexOldTip] \/ b = pindexMostWork
             THEN "free" ELSE "step"
    /\ activating' = (b # pindexMostWork)

\* ConnectTip without a write of the chain state.
ConnectTip ==
    /\ \E b \in Blocks :
          /\ NextToConnect(b)
          /\ Connectable(b)
          /\ coinsTip' = b
          /\ mapUsedStakePointers' = RecordPointer(mapUsedStakePointers, b)
          /\ setDirtyBlockIndex' = setDirtyBlockIndex \cup {b}
          /\ ConnectWrite(b)
          /\ AfterConnect(b)
    /\ UNCHANGED <<nStatus, linkVars, nHeightLast, verdictVars, dbTip, dbHeightLast,
                   dbShutdown, write, targetVars, phase, boundVars>>

\* Mutant: the coins are written before the index.
ConnectCoinsFirst ==
    /\ \E b \in Blocks :
          /\ NextToConnect(b)
          /\ Connectable(b)
          /\ coinsTip' = b
          /\ mapUsedStakePointers' = RecordPointer(mapUsedStakePointers, b)
          /\ dbTip' = b
    /\ write' = "connect"
    /\ UNCHANGED <<nStatus, setDirtyBlockIndex, linkVars, setBlockIndexCandidates,
                   nHeightLast, tip, verdictVars, dbStatus, dbHeightLast, dbShutdown, op,
                   targetVars, phase, activating, boundVars>>

\* ConnectTip when the cache is full or a block file begins: it flushes.
ConnectTipFlush ==
    /\ \E b \in Blocks :
          /\ NextToConnect(b)
          /\ Connectable(b)
          /\ coinsTip' = b
          /\ mapUsedStakePointers' = RecordPointer(mapUsedStakePointers, b)
          /\ ConnectWrite(b)
          /\ setDirtyBlockIndex' = setDirtyBlockIndex \cup {b}
    /\ dbHeightLast' = nHeightLast
    /\ write' = "connect"
    /\ UNCHANGED <<nStatus, linkVars, setBlockIndexCandidates, nHeightLast, tip,
                   verdictVars, dbTip, dbShutdown, op, targetVars, phase,
                   activating, boundVars>>

\* ... the coins last, and then UpdateTip.
ConnectEnd ==
    /\ write = "connect" /\ ~Writing
    /\ dbTip' = coinsTip
    /\ AfterConnect(coinsTip)
    /\ write' = "no"
    /\ UNCHANGED <<nStatus, linkVars, setDirtyBlockIndex, nHeightLast, coinsTip,
                   mapUsedStakePointers, verdictVars, dbStatus, dbHeightLast,
                   dbShutdown, targetVars, phase, boundVars>>

-----------------------------------------------------------------------------
(* Operator commands and transaction locks. *)

Command ==
    /\ LockFree
    /\ nCommands < MaxCommands
    /\ nCommands' = nCommands + 1

\* Mutant: the block itself is not marked.
InvalidateUnmarked(b) ==
    /\ Command
    /\ b \in mapBlockIndex \ {Genesis}
    /\ setBlockIndexCandidates' = setBlockIndexCandidates \ {b}
    /\ op' = "invalidate"
    /\ pindexMostWork' = b
    /\ UNCHANGED <<nStatus, setDirtyBlockIndex, linkVars, nHeightLast, chainVars, diskVars,
                   write, pindexOldTip, nLeft, vReconsider, phase, activating, nRestarts>>

\* InvalidateBlock: mark the block, then disconnect down to its parent.
InvalidateBlock(b) ==
    /\ Command
    /\ b \in mapBlockIndex \ {Genesis}
    /\ nStatus' = [nStatus EXCEPT ![b] = @ \cup {"fvalid"}]
    /\ setDirtyBlockIndex' = setDirtyBlockIndex \cup {b}
    /\ setBlockIndexCandidates' = setBlockIndexCandidates \ {b}
    /\ op' = "invalidate"
    /\ pindexMostWork' = b
    /\ UNCHANGED <<linkVars, nHeightLast, chainVars, diskVars, write, pindexOldTip,
                   nLeft, vReconsider, phase, activating, nRestarts>>

\* One turn of its loop: mark the tip and disconnect it.
InvalidateDisconnectTip ==
    /\ op = "invalidate"
    /\ Contains(pindexMostWork)
    /\ nStatus' = [nStatus EXCEPT ![tip] = @ \cup {"fchild"}]
    /\ setBlockIndexCandidates' = setBlockIndexCandidates \ {tip}
    /\ DisconnectBegin(setDirtyBlockIndex \cup {tip})
    /\ UNCHANGED <<linkVars, nHeightLast, tip, verdictVars, dbStatus, dbTip, dbShutdown,
                   op, targetVars, phase, activating, boundVars>>

\* Mutants: no block becomes a candidate again; the loop stops too early.
InvalidateEndNoCandidates ==
    /\ op = "invalidate" /\ write = "no"
    /\ ~Contains(pindexMostWork)
    /\ op' = "free"
    /\ activating' = TRUE
    /\ UNCHANGED <<indexVars, chainVars, diskVars, write, targetVars, phase, boundVars>>

InvalidateEndEarly ==
    /\ op = "invalidate" /\ write = "no"
    /\ setBlockIndexCandidates' = setBlockIndexCandidates \cup
          {x \in linked : IsValidTransactions(x) /\ ~WorseNow(x, tip)}
    /\ op' = "free"
    /\ activating' = TRUE
    /\ UNCHANGED <<nStatus, linkVars, setDirtyBlockIndex, nHeightLast, chainVars,
                   diskVars, write, targetVars, phase, boundVars>>

\* Its end: every valid block as good as the new tip is a candidate again, and
\* the RPC activates the best chain.
InvalidateEnd ==
    /\ op = "invalidate" /\ write = "no"
    /\ ~Contains(pindexMostWork)
    /\ setBlockIndexCandidates' = setBlockIndexCandidates \cup
          {x \in linked : IsValidTransactions(x) /\ ~WorseNow(x, tip)}
    /\ op' = "free"
    /\ activating' = TRUE
    /\ UNCHANGED <<nStatus, linkVars, setDirtyBlockIndex, nHeightLast, chainVars,
                   diskVars, write, targetVars, phase, boundVars>>

\* A transaction lock completes or expires, or payment votes arrive: CheckBlock
\* changes its mind about a disputed block.
ChangeVerdict(b) ==
    /\ Command
    /\ b \in Disputed
    /\ checkRejected' = IF b \in checkRejected THEN checkRejected \ {b}
                                               ELSE checkRejected \cup {b}
    /\ UNCHANGED <<indexVars, tip, coinsTip, mapUsedStakePointers, mapRejectedBlocks,
                   diskVars, stepVars, phase, activating, nRestarts>>

\* Failed blocks that descend from a block of X, X included.
FailedBelow(X) == {x \in Blocks : IsFailed(x) /\ X \cap Ancestors[x] # {}}

FailedAbove(X) == {x \in Blocks : IsFailed(x) /\ \E b \in X : x \in Ancestors[b]}

\* ReconsiderBlock on the blocks of X: clear the marks of their descendants,
\* which may become candidates, and of their ancestors, which do not.
ReconsiderBlocks(X) ==
    LET cleared == FailedBelow(X) \cup FailedAbove(X) IN
    /\ nStatus' = [x \in Blocks |-> IF x \in cleared
                                    THEN nStatus[x] \ BLOCK_FAILED_MASK
                                    ELSE nStatus[x]]
    /\ setDirtyBlockIndex' = setDirtyBlockIndex \cup cleared
    /\ setBlockIndexCandidates' = setBlockIndexCandidates \cup
          {x \in FailedBelow(X) \cap linked : WorseNow(tip, x)}
    /\ UNCHANGED <<linkVars, nHeightLast>>

\* The reconsiderblock RPC.
ReconsiderBlock(b) ==
    /\ Command
    /\ b \in mapBlockIndex
    /\ ReconsiderBlocks({b})
    /\ activating' = TRUE
    /\ UNCHANGED <<chainVars, diskVars, stepVars, phase, nRestarts>>

\* ReprocessBlocks, called by the message thread when a complete lock meets a
\* refused request: it reconsiders the recently rejected blocks (X) one by one,
\* taking cs_main for each, then disconnects ReprocessDepth + 1 blocks.
ReprocessBlocks(X) ==
    /\ Command
    /\ nLeft = 0
    /\ nLeft' = ReprocessDepth + 1
    /\ vReconsider' = X \cap mapBlockIndex
    /\ UNCHANGED <<indexVars, chainVars, diskVars, op, write, pindexMostWork, pindexOldTip,
                   phase, activating, nRestarts>>

ReprocessReconsider(b) ==
    /\ LockFree
    /\ b \in vReconsider
    /\ ReconsiderBlocks({b})
    /\ vReconsider' = vReconsider \ {b}
    /\ UNCHANGED <<chainVars, diskVars, op, write, pindexMostWork, pindexOldTip, nLeft,
                   phase, activating, boundVars>>

\* DisconnectBlocksAndReprocess, which leaves the candidates alone.
DisconnectBlocksAndReprocess ==
    /\ LockFree
    /\ nLeft > 0 /\ vReconsider = {}
    /\ op' = "reprocess"
    /\ UNCHANGED <<indexVars, chainVars, diskVars, write, targetVars, phase, activating,
                   boundVars>>

\* One turn of DisconnectBlocksAndReprocess.
ReprocessDisconnectTip ==
    /\ op = "reprocess" /\ nLeft > 0
    /\ tip # Genesis
    /\ DisconnectBegin(setDirtyBlockIndex)
    /\ nLeft' = nLeft - 1
    /\ UNCHANGED <<nStatus, linkVars, setBlockIndexCandidates, nHeightLast, tip,
                   verdictVars, dbStatus, dbTip, dbShutdown, op, pindexMostWork,
                   pindexOldTip, vReconsider, phase, activating, boundVars>>

\* The genesis block has no undo data: DisconnectTip fails, and its answer is
\* ignored.
ReprocessAtGenesis ==
    /\ op = "reprocess" /\ nLeft > 0 /\ write = "no"
    /\ tip = Genesis
    /\ nLeft' = nLeft - 1
    /\ UNCHANGED <<indexVars, chainVars, diskVars, op, write, pindexMostWork, pindexOldTip,
                   vReconsider, phase, activating, boundVars>>

\* Its end: ReprocessBlocks activates the best chain.
ReprocessEnd ==
    /\ op = "reprocess" /\ nLeft = 0 /\ write = "no"
    /\ op' = "free"
    /\ activating' = TRUE
    /\ UNCHANGED <<indexVars, chainVars, diskVars, write, targetVars, phase, boundVars>>

\* The blocks of the active chain VerifyDB walks: nCheckDepth below the tip.
TopBlocks(nCheckDepth) ==
    {b \in Ancestors[tip] \ {Genesis} : nHeight[b] >= nHeight[tip] - nCheckDepth}

\* The blocks it disconnects: those above every refused one, while the coins
\* cache has room, that is, down to height low.
Undone(top, low) ==
    {b \in top : nHeight[b] >= low /\ \A a \in top \cap checkRejected : nHeight[a] < nHeight[b]}

\* A lower block of S has taken b's pointer.
Taken(S, b) ==
    /\ stakePointer[b] # NULL
    /\ \E a \in S : stakePointer[a] = stakePointer[b] /\ nHeight[a] < nHeight[b]

\* Blocks of S below, or up to, the first whose pointer is taken.
Reconnected(S) == {b \in S : \A a \in S : Taken(S, a) => nHeight[b] < nHeight[a]}

Retried(S) == {b \in S : \A a \in S : Taken(S, a) => nHeight[b] <= nHeight[a]}

\* verifychain (VerifyDB, level 4): DisconnectBlock and ConnectBlock run on a
\* scratch coins view, but on the one mapUsedStakePointers and the one block
\* index database.  A block CheckBlock refuses ends the walk down, and with it
\* the command; without one, the walk up reconnects what was disconnected.
VerifyDB(nCheckDepth, low) ==
    /\ Command
    /\ LET top     == TopBlocks(nCheckDepth)
           refused == top \cap checkRejected
           undone  == Undone(top, low)
           back    == IF refused = {} THEN undone ELSE {}
       IN  /\ mapUsedStakePointers' =
                [o \in Outpoints |->
                   IF \E b \in Reconnected(back) : stakePointer[b] = o
                   THEN CHOOSE b \in Reconnected(back) : stakePointer[b] = o
                   ELSE IF \E b \in undone : stakePointer[b] = o
                   THEN NULL
                   ELSE mapUsedStakePointers[o]]
           /\ dbStatus' = [b \in Blocks |-> IF b \in Retried(back) THEN nStatus[b]
                                                                  ELSE dbStatus[b]]
           /\ mapRejectedBlocks' = mapRejectedBlocks \cup
                {a \in refused : \A b \in refused : nHeight[b] <= nHeight[a]}
    /\ UNCHANGED <<indexVars, tip, coinsTip, checkRejected, dbTip, dbHeightLast,
                   dbShutdown, stepVars, phase, activating, nRestarts>>

-----------------------------------------------------------------------------
(* Flushes. *)

\* FlushStateToDisk under cs_main begins: in a periodic flush, in Shutdown, or at
\* the end of the repair in LoadBlockIndexDB.
FlushBegin(why) ==
    /\ op' = why
    /\ write' = "flush"
    /\ UNCHANGED <<nStatus, linkVars, setDirtyBlockIndex, setBlockIndexCandidates,
                   chainVars, dbStatus, dbTip, dbShutdown, targetVars, phase, activating>>

\* FLUSH_STATE_PERIODIC; a flush that has nothing to write is no step.
FlushStateToDisk ==
    /\ LockFree
    /\ setDirtyBlockIndex # {} \/ dbTip # coinsTip
    /\ FlushBegin("flush")
    /\ dbHeightLast' = nHeightLast
    /\ UNCHANGED <<nHeightLast, boundVars>>

FlushEnd ==
    /\ op = "flush" /\ ~Writing
    /\ dbTip' = coinsTip
    /\ op' = "free"
    /\ write' = "no"
    /\ UNCHANGED <<indexVars, chainVars, dbStatus, dbHeightLast, dbShutdown, targetVars,
                   phase, activating, boundVars>>

-----------------------------------------------------------------------------
(* Specifications. *)

\* A node just started on an empty datadir: InitBlockIndex.
Init ==
    /\ nStatus = [b \in Blocks |-> IF b = Genesis THEN {"tree", "data"} ELSE {}]
    /\ linked = {Genesis} /\ mapBlocksUnlinked = {}
    /\ nSequenceId = [b \in Blocks |-> IF b = Genesis THEN 1 ELSE 0]
    /\ addr \in AddressOrders
    /\ setBlockIndexCandidates = {Genesis} /\ setDirtyBlockIndex = {}
    /\ nHeightLast = 0
    /\ tip = Genesis /\ coinsTip = Genesis
    /\ mapUsedStakePointers = NoPointers
    /\ checkRejected = {} /\ mapRejectedBlocks = {}
    /\ dbStatus = nStatus /\ dbTip = Genesis
    /\ dbHeightLast = 0 /\ dbShutdown = FALSE
    /\ phase = "up" /\ op = "free" /\ write = "no"
    /\ pindexMostWork = Genesis /\ pindexOldTip = Genesis
    /\ nLeft = 0 /\ vReconsider = {} /\ activating = FALSE
    /\ nRestarts = 0 /\ nCommands = 0

\* Headers and bodies arrive, in any order.
Receive == \E b \in Blocks : \/ AcceptBlockHeader(b)
                             \/ ProcessRejectedBlock(b)
                             \/ ProcessKnownBlock(b)
                             \/ ProcessBadBlock(b)
                             \/ ProcessNewBlock(b)

\* A thread inside ActivateBestChain, or inside the loop of a flush, goes on.
Activate ==
    \/ WriteBlockIndex
    \/ DiscardCandidate \/ ActivateDone \/ ActivateBestChainStep
    \/ StepDisconnectTip \/ StepOnlyDisconnects
    \/ ConnectTipInvalid \/ ConnectTip \/ ConnectTipFlush
    \/ ConnectEnd \/ DisconnectEnd

Flush == FlushStateToDisk \/ FlushEnd

\* invalidateblock, verifychain.
Invalidate ==
    \/ \E b \in Blocks : InvalidateBlock(b)
    \/ InvalidateDisconnectTip \/ InvalidateEnd

Verify == \E k \in VerifyDepths : \E low \in nHeight[tip] - k .. nHeight[tip] + 1 : VerifyDB(k, low)

\* reconsiderblock; locks and votes; a lock that makes the node reprocess blocks.
Reconsider == \E b \in Blocks : ReconsiderBlock(b)

Dispute == \E b \in Disputed : ChangeVerdict(b)

Reprocess ==
    \/ \E X \in SUBSET mapRejectedBlocks : ReprocessBlocks(X)
    \/ \E b \in Blocks : ReprocessReconsider(b)
    \/ DisconnectBlocksAndReprocess \/ ReprocessDisconnectTip \/ ReprocessAtGenesis
    \/ ReprocessEnd

\* A node that is neither restarted nor asked to verify its chain.
NextSteady ==
    Receive \/ Activate \/ Flush \/ Invalidate \/ Reconsider \/ Dispute \/ Reprocess

SpecSteady == Init /\ [][NextSteady]_vars

\* A node that is not restarted.
NextUp == NextSteady \/ Verify

SpecUp == Init /\ [][NextUp]_vars

\* A node whose operator at most invalidates blocks, and whose CheckBlock does
\* not change its mind.
NextOperate == Receive \/ Activate \/ Flush \/ Invalidate

SpecOperate == Init /\ [][NextOperate]_vars

\* A thread inside a handler goes on: none of them waits for anything but
\* cs_main, which every handler gives back.
Fairness ==
    /\ WF_vars(Activate)
    /\ WF_vars(FlushEnd)
    /\ WF_vars(InvalidateDisconnectTip \/ InvalidateEnd)
    /\ WF_vars(\/ \E b \in Blocks : ReprocessReconsider(b)
               \/ DisconnectBlocksAndReprocess \/ ReprocessDisconnectTip
               \/ ReprocessAtGenesis \/ ReprocessEnd)

FairSpecSteady == SpecSteady /\ Fairness

-----------------------------------------------------------------------------
(* Properties. *)

\* Type invariant.
TypeOK ==
    /\ nStatus \in [Blocks -> SUBSET Flags] /\ dbStatus \in [Blocks -> SUBSET Flags]
    /\ linked \subseteq Blocks /\ mapBlocksUnlinked \subseteq Blocks
    /\ nSequenceId \in [Blocks -> Nat] /\ addr \in AddressOrders
    /\ setBlockIndexCandidates \subseteq Blocks /\ setDirtyBlockIndex \subseteq Blocks
    /\ nHeightLast \in Nat /\ dbHeightLast \in Nat
    /\ tip \in Blocks /\ coinsTip \in Blocks /\ dbTip \in Blocks
    /\ mapUsedStakePointers \in [Outpoints -> Blocks \cup {NULL}]
    /\ checkRejected \subseteq Blocks /\ mapRejectedBlocks \subseteq Blocks
    /\ dbShutdown \in BOOLEAN /\ activating \in BOOLEAN
    /\ phase \in {"up", "down", "fix", "loaded", "aborted", "asserted", "stub"}
    /\ op \in {"free", "find", "step", "invalidate", "reprocess", "flush",
               "shutdown", "meta", "fix", "abort"}
    /\ write \in {"no", "disconnect", "connect", "flush"}
    /\ pindexMostWork \in Blocks /\ pindexOldTip \in Blocks
    /\ nLeft \in Nat /\ vReconsider \subseteq Blocks /\ nRestarts \in Nat /\ nCommands \in Nat

Alive == phase \in {"up", "fix", "loaded"}

\* No handler is half-way and ActivateBestChain has returned.
Idle == phase = "up" /\ op = "free" /\ ~activating /\ nLeft = 0

HaveData == {b \in Blocks : "data" \in nStatus[b]}

\* The coins database follows the active chain block by block, in both
\* directions: ConnectBlock's assertion that the view's best block is the
\* parent of the block it connects.
CoinsFollowChain ==
    /\ write = "disconnect" => tip # Genesis /\ coinsTip = pprev[tip]
    /\ write = "connect" => coinsTip # Genesis /\ pprev[coinsTip] = tip
    /\ write \in {"no", "flush"} => coinsTip = tip

\* Every body of the active chain is there to be read back (DisconnectTip reads
\* it), whichever order headers and bodies came in.
ActiveChainHasData == Alive => Ancestors[tip] \cup Ancestors[coinsTip] \subseteq linked

\* nChainTx and mapBlocksUnlinked say what CheckBlockIndex asserts of them: a
\* block is linked exactly when it and all its ancestors have bodies, and waits
\* exactly when it has one and some ancestor has not.
LinkedExactly ==
    Alive => /\ linked = {b \in Blocks : Ancestors[b] \subseteq HaveData}
             /\ mapBlocksUnlinked = HaveData \ linked

\* mapUsedStakePointers names no block but one of the coins view's chain that
\* has this very pointer.  A stale entry would make ConnectBlock refuse, and
\* mark failed for good, a block that every other node accepts.
MapSound ==
    \A o \in Outpoints : mapUsedStakePointers[o] # NULL =>
        /\ mapUsedStakePointers[o] \in Ancestors[coinsTip]
        /\ stakePointer[mapUsedStakePointers[o]] = o

\* No pointer is spent twice on the active chain (stakepointer.h: it "cannot be
\* reused"), in whichever order headers, bodies and reorganisations came.
NoPointerReuse ==
    \A a, b \in Ancestors[coinsTip] :
        stakePointer[a] # NULL /\ stakePointer[a] = stakePointer[b] => a = b

\* Every pointer the active chain has spent is in the map.
MapComplete ==
    \A b \in Ancestors[coinsTip] :
        stakePointer[b] # NULL => mapUsedStakePointers[stakePointer[b]] = b

\* setBlockIndexCandidates is what CheckBlockIndex asserts: every linked block
\* without a failed ancestor that is as good as the tip, and nothing that is
\* unlinked or worse.
CandidatesExact ==
    Idle => /\ \A b \in linked :
                  (\A a \in Ancestors[b] : "fvalid" \notin nStatus[a]) /\ ~WorseNow(b, tip)
                      => b \in setBlockIndexCandidates
            /\ \A c \in setBlockIndexCandidates : c \in linked /\ ~WorseNow(c, tip)

\* A block is marked failed only if it or an ancestor was found invalid
\* (CheckBlockIndex: "The failed mask cannot be set for blocks without invalid
\* parents").
FailedHasCause ==
    Alive => \A b \in Blocks :
        IsFailed(b) => \E a \in Ancestors[b] : "fvalid" \in nStatus[a]

\* When ActivateBestChain has returned, no block the node could switch to is
\* better than its tip.
BestChainWhenIdle ==
    Idle => \A b \in linked :
        (\A a \in Ancestors[b] : ~IsFailed(a)) => ~WorseNow(tip, b)

\* ... and no block of the active chain is marked failed.
ActiveChainNotFailed == Idle => \A a \in Ancestors[tip] : ~IsFailed(a)

\* The disk can be loaded whenever the process dies: the block index has the
\* body of every block of the chain the coins database is at.
DiskLoadable == \A a \in Ancestors[dbTip] : "data" \in dbStatus[a]

\* A step of ActivateBestChain that gives cs_main back without having found an
\* invalid block leaves a tip no worse than the one it began with.
StepNeverLoses ==
    [][op = "step" /\ op' = "free" /\ phase' = phase /\ nStatus' = nStatus
          => ~WorseNow(tip', pindexOldTip)]_vars

\* Every handler ends and ActivateBestChain returns, whatever blocks arrive and
\* however many turn out invalid: its loop never chases a candidate it cannot
\* connect, and never goes back and forth between two branches.
ActivationEnds == []<>Idle

=============================================================================
