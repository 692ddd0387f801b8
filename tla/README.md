# Agouti: TLA+ models, checks and proofs

Agouti is a proof-of-stake cryptocurrency node of the Bitcoin/Dash/PIVX family, with
masternodes, transaction locks (SwiftTX), budgets, and, from a fork height on, stake
pointers: a block is staked with a payment that a masternode received, and each payment may
be used once. This directory holds TLA+ modules that model the node from its source, TLC
configurations that check them, and proofs checked by TLAPS.

## Inventory

| Component | State | Operations | Interacts with |
|---|---|---|---|
| Chain state (`main.cpp`, `chain.h`) | `mapBlockIndex`, `setBlockIndexCandidates`, `mapBlocksUnlinked`, `setDirtyBlockIndex`, `chainActive` | accept header, accept block, activate best chain, connect/disconnect tip, invalidate, reconsider, verify | everything below, through `cs_main` and signals |
| Stake pointers (`main.cpp`, `stakepointer.h`) | `mapUsedStakePointers`, `setStakeSeen` | check, record, forget, rebuild | chain state |
| Coins cache (`coins.cpp`), block database (`txdb.cpp`) | coins and best block; index records, file info, flags | fetch, modify, flush; read, write | chain state |
| Start and stop (`init.cpp`, `LoadBlockIndexDB`) | what is on disk | load, repair, rebuild, shutdown | chain state, databases |
| Block download (`main.cpp`) | per peer: blocks in flight, stalling time, best known block | request, receive, time out | network, chain state |
| Mempool, orphan transactions | transactions and what they spend | accept, remove, resurrect | chain state, SwiftTX, wallet |
| SwiftTX (`swifttx.cpp`) | requests, votes, locks, locked inputs | `ix`, `txlvote`, count, lock, expire | mempool, `CheckBlock`, `ReprocessBlocks`, masternodes |
| Sporks (`spork.cpp`) | active sporks by time | receive, execute, look up | nearly every rule |
| Masternodes (`masternode*.cpp`, `activemasternode.cpp`) | list, broadcasts, pings, states | announce, ping, check, expire | payments, SwiftTX, budget |
| Payments (`masternode-payments.cpp`) | votes per height | vote, count, choose payee, check block | `CheckBlock`, sync |
| Sync (`masternode-sync.cpp`) | current asset, attempts, counts | next asset, time out, reset | sporks, masternodes, payments, budget |
| Budget and owner veto (`masternode-budget.cpp`) | proposals, finalised budgets, votes | propose, vote, finalise, veto, pay | payments |
| Obfuscation (`obfuscation.cpp`) | session state, entries, signatures | join, accept, sign, time out | wallet, masternodes |
| Check queue (`checkqueue.h`) | queue, counters | add, work, wait | `ConnectBlock` |
| Network, address manager, Tor control | sockets, buckets | send, receive, add, select | message handlers |
| Miner/staker, wallet, RPC, Qt, scripts, cryptography, zerocoin, vendored code | | | |

What is hard: `cs_main` serialises handlers but is released between the steps of
`ActivateBestChain`; headers and bodies come in any order; a flush has two halves (block
index, record by record, then coins) and a crash may strike between any two writes; the pointer cache lives beside the
coins and is rebuilt after a restart; the verdict of `CheckBlock` on a block changes with
the locks and votes the node happens to know; operator commands undo and redo parts of the
tree. `PROJECT.json` lists these as hazards, each at its line, with the properties that
would notice.

## Modules

| Module | What it is |
|---|---|
| `BlockTree` | the constants: blocks, parents, ancestors, heights, work, pointers, consensus parameters, and their assumptions |
| `ChainState` | the node while it runs |
| `ChainRestart` | extends `ChainState` with shutdown, crash, load, repair and cache rebuild; `Spec` is the whole node |
| `ChainProofs` | the inductive invariant of the chain and its first theorems |
| `ChainActivationProofs` | which chain is chosen: candidates, failure marks, the best tip |
| `ChainStartProofs` | what crashes, restarts and repairs leave of the rules and the candidates |
| `MCChainState`, `MCChainRestart`, `MCPointerReuse` | small trees for TLC |
| `SwiftTX` | transaction locks at a set of nodes: requests, votes, locks, expiry, and what they forbid |
| `SwiftTXProofs` | the inductive invariant of the locks and its theorems |
| `MCSwiftTX` | two masternodes, two conflicting transactions |
| `CoinStore` | abstract: three versions of the set of coins, on disk, current, and scratch |
| `CoinsCache` | the coins database, `pcoinsTip` and a view on top of it, with FRESH and DIRTY; implements `CoinStore` |
| `BlockCoins` | extends `CoinsCache`: blocks applied to the coins and taken back with undo data, verified, flushed, lost in a crash |
| `CoinsCacheProofs` | the flags' invariant, and that the caches implement `CoinStore` |
| `BlockCoinsProofs` | the coins are those of the chain, and blocks use the caches as they may |
| `CheckBatch` | abstract: what a `CCheckQueueControl` promises to `ConnectBlock` |
| `CheckQueue` | the script check queue: master, workers, condition variables, interruption; implements `CheckBatch` |
| `CheckQueueProofs` | the queue's invariant, and that it implements `CheckBatch` |
| `BlockDownload` | peers, blocks in flight, start of the synchronisation, stalling and timeouts |
| `BlockDownloadProofs` | the invariant of the download and its theorems |
| `MCBlockCoins`, `MCCheckQueue`, `MCBlockDownload` | instances for TLC |

### How the model corresponds to the code

The tree of all blocks that exist is a constant; what varies is which headers and bodies the
node has seen. A `CBlockIndex` is its block. `nStatus[b]` is a set of flags, empty when `b`
is not in `mapBlockIndex`: `"tree"` for a header, `"data"` for a body (`BLOCK_HAVE_DATA` and
`BLOCK_VALID_TRANSACTIONS` are set together), `"fvalid"` and `"fchild"` for the failed mask.
`linked` is `nChainTx # 0`. `tip` is `chainActive.Tip()`, `coinsTip` the best block of
`pcoinsTip`. Variables that begin with `db` are on disk.

`op` names the handler that holds `cs_main` between two of its steps, and is `"free"` when
another thread may take it. A handler that runs under one lock and writes nothing to disk on
the way is one action. These are split, because a crash, or another thread, may come in
between:

* `FlushStateToDisk`: `FlushBegin`, `DisconnectBegin` and `ConnectTipFlush` reach it and
  write the file info; `WriteBlockIndex` is one turn of the loop at `main.cpp:2400`, which
  writes one dirty record, the one at the lowest address, since `setDirtyBlockIndex` is a
  set of pointers; `FlushEnd`, `DisconnectEnd`, `ConnectEnd` and `ShutdownEnd` write the
  coins when no dirty record is left. `write` names the flush that is under way, and
  `Writing` says that it is inside the loop;
* `ActivateBestChain`: `DiscardCandidate` (a turn of `FindMostWorkChain` that meets a failed
  block), `ActivateBestChainStep`, `StepDisconnectTip`, `ConnectTip*`, `ActivateDone`; the
  lock is free where the code releases it;
* `InvalidateBlock`, `DisconnectBlocksAndReprocess`: one action per disconnected block;
* `ReprocessBlocks`: takes `cs_main` once per reconsidered block;
* `LoadBlockIndexDB`: load, repair with `ProcessNewBlock`, flush, and the assertion of
  `PruneBlockIndexCandidates`. A record whose parent has none ends the model's start in the
  phase `"stub"` (`LoadStub`): `InsertBlockIndex` makes up an entry without height or work.

`ConnectBlock` writes the record of the block it checks at once (`main.cpp:2268`): that is
`ConnectWrite`. A block that `CheckBlock` refuses, or one of the checks before that line, is
refused without (`RefusedBeforeWrite`, `RefusedAfterWrite`). Ties between blocks loaded from disk are broken by memory address: `addr` is
chosen from `AddressOrders` at every start.

`BadContext` and `BadConnect` are the blocks that fail `ContextualCheckBlock` and the value
and script rules of `ConnectBlock`. `Disputed` are the blocks on which the verdict of
`CheckBlock` depends on transaction locks and payment votes; `ChangeVerdict` is the arrival
or expiry of those, and CheckBlock's two calls in `ProcessNewBlock` (before and under the
lock) may differ.

`SwiftTX` models several nodes, each with its own maps, named as in `swifttx.cpp`. A
transaction is a name with a set of inputs; `mapTxLockReq[n]` keeps the inputs of the
transaction stored, because `mapTxLockReq[hash]` in `ProcessConsensusVote` stores an empty
one when the request is unknown. A `CTransactionLock` has its height, its votes and whether
it has expired (`nExpiration`): `Expire` is the hour that passes or
`CheckForConflictingLocks` ending it early. `mapTxLockVote` holds pairs of masternode and
transaction, which is all that `CConsensusVote::GetHash` hashes. `sent` is the set of votes
on the network: a vote may be delivered any number of times, in any order, or never; a
masternode outside `Nodes` may have voted anything at any height. The "ix" handler is
`IxAccepted`, `IxRejected`, `IxFindsLock` or `IxConflicts`, by its outcome; the "txlvote"
handler is `VoteIgnored`, `VoteCounted`, `VoteConflicts` or `VoteCompletes`. `h` is what
`CreateNewLock` returns: the height of the coin of the first input plus 3, or 0 when an
input is too young. `RankedFirst` stands for `GetMasternodeRank`, which ranks the node's own
list, so that a masternode the node does not know moves the others up: `Quorum[n][h]` holds
every masternode that node `n` ever ranks among the first at height `h`, with whatever list
it has at the time. At height 0 it ranks by the tip, so any masternode may be ranked. A vote
enters `mapTxLockVote` before anything about it is checked (`NewVote`), and is counted only
if it is ranked and signed (`NewGoodVote`, `SignatureValid`): a vote in a masternode's name
that it did not send is not counted, and shadows the real one. `chain` keeps the transactions of a node's active
chain in order and `ReprocessBlocks` disconnects them and connects them again up to the
first that a lock forbids: how the node then chooses among other chains is `ChainState`'s
matter, where the locks are `ChangeVerdict`. `seen` is a history variable: what a node's
chain has ever contained. A restart empties everything but the chain.

`CoinsCache`. A cache is a partial function from transactions to entries, as `cacheCoins`
is. `CCoins` values are a constant set with one pruned value, since `operator==` makes all
pruned coins equal. `FetchCoins`, `ModifyCoins` (with the destructor of the modifier),
`BatchWrite` and `DbBatchWrite` are functions of a cache and of what its base holds; reading
through the view fills `pcoinsTip` on the way, as in the code. `hashBlock` of a cache is
`NULL` until it is asked or told. `BlockCoins` drives these methods entry by entry:
`Work[h]` lists what block `h` does to the coins, `UpdateCoins` is one `ModifyCoins` of it
and `UndoCoins` one of `DisconnectBlock`, so that reads, `GetBestBlock` and crashes come
between any two changes. `job` is what the thread that holds `cs_main` does. Undo data is
written when the index has no position for it, is kept by a crash or not, and carries the
metadata of a transaction with its last output only. Undo entries of coins that are created
are dummies, so that `Work` and the undo data have the same positions. `ConnectFails` stands
for every refusal and for `TestBlockValidity`.

`CheckQueue`. A critical section of `Loop` is one action, from lock to unlock, wait or
return; `pc` says where a thread is outside it. `Proceed` is the part that all sections
share. `control` is the control object: open, in `Wait` (`asked`), in its destructor
(`dropped`), gone, or the process ended by an exception from the destructor. A check is in
the queue, in a batch, or done. `condWorker` and `condMaster` are the sets of threads whose
`pc` is `wait`; a notified thread is `woken` until it has the mutex; a waiting thread may
wake without being notified. `boost::condition_variable::wait` throws when the thread was
interrupted: a worker leaves without counting itself out of `nIdle` and `nTotal`, and the
master unwinds into the destructor.

`BlockDownload`. The fields of `CNodeState` are functions on the peers, `mapBlocksInFlight`
one on the blocks; work is height. `SendMessages(p, expired)` is one call for one peer: it
may start the synchronisation, then gives the peer up if a timer has run out, or else asks
for blocks. What the node asks for (`getheaders`, `getblocks`, `getdata`) is not kept as a
message: `Headers` and `Deliver` are the answers, and a peer that is not good may send them
unasked. A peer is banned at once where the code adds 100 points; for fewer points
(`AcceptBlock` of an invalid block) it may or may not be.

## Runs

| Run | Bounds | Shows |
|---|---|---|
| `operate` | 7 blocks, two branches of different length, one block bad in context and one at connect, a pointer reused across and within branches, 1 command | `TypeOK`, `LinkedExactly`, `CandidatesExact`, `FailedHasCause`, `BestChainWhenIdle`, `ActiveChainNotFailed`, `StepNeverLoses` |
| `steady` | 5 blocks, one disputed, one bad, 2 commands | `MapComplete`, `NoPointerReuse`, `ActivationEnds` |
| `restart` | 5 blocks, one bad, 1 command, 2 restarts, with and without `-forcestart`, `verifychain`, one address order | `CoinsFollowChain`, `ActiveChainHasData`, `MapSound`, `DiskLoadable`, `ActiveChainValid`, `CandidateAtStart`, `ShutdownWhole`, `ComesBack` |
| `swift_node` | one node, one masternode elsewhere, two conflicting transactions with one and two inputs; all actions | `TypeOK`, `VoteCountedOnce`, `LockReleased` |
| `swift_quorum` | a voting node and a counting node, one more masternode that votes for everything, 2 of 2 signatures; requests and votes everywhere, votes in the voter's name that it did not send at the counting node, blocks and expiry at the voter | `NoTwoLocks` |
| `block_coins` | 3 blocks, 5 transactions: a coinstake spent in two steps, a coinbase, one created and spent in a block, one without spendable outputs; any number of connects, disconnects, verifications, flushes and crashes | `TypeOK`, `FreshIsAbsent`, `CleanRepeatsBase`, `BatchWriteAsserts`, `CoinsExact`, `Transparent` |
| `check_queue` | 2 workers and the master, 4 checks of which one may fail, batches of at most 2; any number of blocks, one shutdown | `TypeOK`, `FinishedBeforeReturn`, `ReadyForNext`, `PromiseKept`, `WaitEnds`, `QueueDrains` |
| `block_download` | a good peer with 2 blocks and one that does as it likes with 4, one of them refused and one with a stake that was seen; window 1, 2 blocks per peer, each peer connects twice | `TypeOK`, `InFlightAgree`, `StallerOwes`, `CommonLinked`, `QueuedCovers`, `CaughtUp` |

The following runs end in a violation and state where the code and its own comments or
assertions disagree; `PROJECT.json` quotes the lines.

| Run | Property | What happens |
|---|---|---|
| `crash_repair` | `NoPointerReuse` | the repair connects blocks before the cache is rebuilt |
| `lost_candidate` | `BestChainWhenIdle` | a reorganisation to a3 stops at a3, which is invalid, and leaves the tip a2, which is no candidate; the verdict on b2 changes, the node goes back towards b2, refuses it, and has no candidate left: it stays on a1 |
| `swift_refusal` | `RefusalNeedsConsensus` | a request refused by the memory pool locks its free inputs without a vote; blocks are then refused for it |
| `undo_stake` | `UndoClean` | `DisconnectBlock` does not restore `fCoinStake`; undoing the block of the coinstake later finds a mismatch and fails |

The passing runs keep to what the code gets right; these combinations are outside them,
because the corresponding property fails there, as TLC shows when the run is given the
actions in question:

* `verifychain` while a block of the active chain is disputed (`MCPointerReuse`,
  `SpecVerify`, `NoPointerReuse`): `DisconnectBlock` erases pointers from the live cache,
  `VerifyDB` returns at the refused block (`main.cpp:4339`) and does not put them back;
* `reconsiderblock` (`Reconsider` added to `SpecOperate`, `FailedHasCause`): it clears a
  failed parent and leaves the marks of the siblings (`main.cpp:2940`), against the
  assertion at `main.cpp:4612`; and (`BestChainWhenIdle`) the cleared ancestors do not
  become candidates;
* a node whose highest entry is a header without a body: the repair at `main.cpp:4245` takes
  it for a block, cannot read it and aborts, and so does every start until `-forcestart` is
  given. The comment at `main.cpp:4178` expects the block to be there. `ComesBack` therefore
  assumes an operator who uses `-forcestart`;
* a crash inside `invalidateblock`: the failure mark of the tip is on disk before the coins
  have left it (`main.cpp:2893`), and the next start, and every one after it, fails the
  assertion at `main.cpp:2746`. `CandidateAtStart` says that it fails only when the
  disk holds a failure mark on a block that breaks no rule, neither itself nor in an
  ancestor: the operator invalidated it, or it was refused for a lock, a vote or a used
  pointer;
* a crash inside the loop of `main.cpp:2400` during `invalidateblock` (`Spec`,
  `FailedHasCause`): the record of a descendant with `BLOCK_FAILED_CHILD` may be on disk and
  the one of the invalidated block, with `BLOCK_FAILED_VALID`, not yet. The next start loads
  a mark without a cause, against the assertion at `main.cpp:4612`. The theorem
  `FailureHasCause` therefore leaves out crashes inside the loop;
* a crash inside the same loop after headers or bodies of a new branch came: the record of a
  child may be on disk and its parent's not. `DiskLoadable` holds all the same, since the
  coins move only after the loop, and `ShutdownWhole` says that a shutdown never leaves such
  records; `ComesBack` allows a start to end at one;
* `ReprocessBlocks` with disputes (`BestChainWhenIdle`): `DisconnectBlocksAndReprocess`
  (`main.cpp:2601`) does not put blocks back among the candidates either.

Of the transaction locks, these would be natural to expect, and do not hold:

* a complete lock has its inputs locked: when the votes come before the request, it is
  `CreateNewLock` that makes the lock complete, and no inputs are locked there;
* a complete lock keeps its inputs until it expires: cleaning another expired request
  releases its inputs whoever holds them (`swifttx.cpp:438`);
* every locked input is released: the inputs of a request that was only ever refused are not
  in `mapTxLockReq` and stay locked until the node restarts, which is why `LockReleased`
  speaks of requests that are in it;
* two complete conflicting locks cancel each other (the comment at `swifttx.cpp:389`): the
  memory pool refuses the second request because of the first, so it is not in
  `mapTxLockReq`, and when its votes are complete `CheckForConflictingLocks` looks at an
  empty transaction and finds no conflict.

Why the bounds are enough for what the runs say: a reorganisation needs two branches from a
common block and a branch that overtakes the other after the first was active; an invalid
block that is found late needs a third block above it; pointer reuse across and within
branches needs two pointers. `MaxRestarts = 2` allows a crash during the repair of a crash.
`R = K = 1` and `D = 3` scale the reorganisation depth, the modifier offset and the
pointer's validity (100, 100 and 4320) to the height of the trees, so that each limit is met
by some block. Two address orders, one the reverse of the other, make both outcomes of every
tie happen in `operate` and `steady`. `restart` has one order, to keep
the record-by-record writes within reach: a2 and b2 come before their parent a1, and b2
before its child b3, so that records are written child before parent and parent before
child. That its invariants hold for every order, also one that changes from start to start,
is proved. Two transactions that share one input, one of them with a second input, make
partial locks possible; 2 of 2 signatures with one foreign voter is the smallest case of
`QuorumsMeet` with a voter that cannot be trusted; one masternode is enough for
`swift_node`, whose properties are about one node.

`Transparent` and `PromiseKept` are refinements: TLC checks the abstract specification as a
property of the detailed one, with the mapping given where the module is instantiated. Three
blocks are the fewest in which coins are created, spent in part and spent wholly in
different blocks. Two workers make it possible that one sleeps while the other finishes
last, and four checks that a batch of two is taken. A window of one block with four to fetch
makes peers wait for each other, and with `MaxConnects = 2` a peer comes back after it was
given up; without that bound the peer that is not good could come back for ever, which the
code leaves to its ban list.

Runs in which a node may have nothing left to do (every block received or failed, every
command used) do not check for deadlock; `swift_node` does.

### Fairness

`Fairness` is weak fairness of the steps of a thread that is inside a handler: no handler
waits for anything but `cs_main`, and every handler gives it back. Nothing is assumed about
messages, commands, locks or crashes. `FairSpec` adds that a shutdown that began ends, and
that an operator starts the process again, sooner or later with `-forcestart` (strong
fairness of the load that this makes possible: a start without the option may come again and
again in between).

In `SwiftTX`, `Fairness` says that the clock goes on (`Expire`) and that the obfuscation
thread calls `CleanTransactionLocksList` once a minute (`obfuscation.cpp:2311`). Nothing is
assumed about messages or blocks.

In `CheckQueue`, a thread that can go on gets the processor and the mutex, and an
interrupted thread gets its exception. Nothing is assumed about `ConnectBlock`
(`QueueDrains` holds while it never calls `Wait`), nor about spurious wake-ups.

In `BlockDownload`, the message thread calls `SendMessages` for every peer in turn
(`net.cpp`, `ThreadMessageHandler`), the socket thread closes connections that were given
up, and timers that run do run out. A good peer connects, answers `getheaders`, and delivers
what is in flight from it. Nothing is assumed about the other peer. `CaughtUp` is then about
the node: neither the limit of one sync peer, nor the window, nor blocks in flight elsewhere
keep it from the good peer's chain.

## Proofs

`ChainProofs` proves, for every block tree and every value of the other constants that
satisfies the assumptions of `BlockTree` and `ChainState`:

| Theorem | Specification | Property |
|---|---|---|
| `TypeCorrect` | `Spec` | `TypeOK` |
| `CoinsFollow` | `Spec` | `CoinsFollowChain` |
| `ActiveChainReadable` | `Spec` | `ActiveChainHasData` |
| `LinkedCorrect` | `Spec` | `LinkedExactly` |
| `CrashConsistent` | `Spec` | `DiskLoadable` |
| `PointerCacheSound` | `Spec` | `MapSound` |
| `PointerCacheComplete` | `SpecSteady` | `MapComplete` |
| `PointersSpentOnce` | `SpecSteady` | `NoPointerReuse` |

`Spec` is the whole node with crashes and restarts; `SpecSteady` a node that is neither
restarted nor verified, which is as far as the last two go: `crash_repair`, and
`verifychain` during a dispute, refute them beyond it.

The argument. None of these invariants is inductive alone. `IndInv` is their conjunction
with three more: `OpShape` ties `op`, `write`, `phase` and the remaining disconnects to each
other (a half-done connect belongs to a step, a handler is inside one phase of the process);
`TargetsLinked` says that candidates and the target of a step are linked, so that whatever
is connected has its body; and `DiskFollowsIndex` says that a record on disk either agrees
with memory about the body or its block is dirty, so that when the loop of a flush has
emptied `setDirtyBlockIndex` the disk is complete up to the tip, before the coins move there.
`CrashConsistent` then needs nothing about what crashes do, since they leave the disk alone;
and a restart gives `IndInv` back because `DiskLoadable` puts the coins' tip among the
linked blocks. The proof that a step preserves `IndInv` has one lemma per group of actions
and one step per action. The tree is only used through the facts of `BlockTree`'s
assumptions (lemmas `AncestorFacts`, `ParentFacts`).

`ChainActivationProofs` and `ChainStartProofs` go on from `IndInv`, with the same constants:

| Theorem | Specification | Property |
|---|---|---|
| `ActiveChainClean` | `SpecUp` | `ActiveChainNotFailed` |
| `StepsNeverLose` | `SpecUp` | `StepNeverLoses` |
| `FailureHasCause` | `SpecMarks` | `FailedHasCause` |
| `BestChain` | `SpecOperate` | `BestChainWhenIdle` |
| `CandidatesAsAsserted` | `SpecOperate` | `CandidatesExact` |
| `ChainStaysValid` | `Spec` | `ActiveChainValid` |
| `CandidatesAtStart` | `Spec` | `CandidateAtStart` |
| `ShutdownLeavesWhole` | `Spec` | `ShutdownWhole` |

The specifications say how far each goes. `SpecUp` is a node that is not restarted, with all
commands: a start may load a chain with marks that a crash inside `invalidateblock` left on
it. `SpecMarks` has shutdowns, restarts, repairs, disputes, `verifychain`, and crashes
everywhere but inside the loop that writes the block index; and nobody clears a mark. Both
restrictions are needed: `reconsiderblock`, also when `ReprocessBlocks` calls it, breaks
`FailedHasCause`, and so does a crash between the record of a failed block and that of its
cause.
`SpecOperate` receives, activates, flushes and invalidates; `reconsiderblock`,
`ReprocessBlocks` and a changed verdict (`lost_candidate`) break `BestChainWhenIdle`.

The argument. These invariants are added to `IndInv`, each using the ones before it.

* `PathInv`: a half-done write of a step goes the right way (`TargetAhead`), and no block
  that the step has still to connect is marked failed (`PathUnfailed`). Without it the step
  could connect a failed block.
* `UpInv`: no candidate is worse than the tip; the active chain is not failed, or
  `invalidateblock` is taking down what is; and a step's target is not worse than the tip it
  left, which gives `StepNeverLoses`.
* `MarksInv`: memory has every mark of the disk, and the disk every block found invalid but
  those of dirty entries (`MarksKept`), so that a mark on disk has its cause on disk, or, while
  the loop of a flush runs, among the records that it has still to write (`CauseOnDisk`,
  `PendingCause`); a failed block of the
  active chain is being disconnected, or was failed on disk when the node started
  (`ActiveCause`).
* `OperateInv`: there is a `Leader`, a candidate that `ConnectBlock` will accept with its
  whole branch, and that is better than every block that is good and no candidate
  (`HasLeader`). It is the reason why the candidates never run out when blocks turn out
  invalid one after the other. A step goes to the best candidate (`TargetBest`), and after
  `ActivateBestChain` the tip is the best candidate (`Settled`), so by the leader no good
  block is better than the tip. That `ConnectBlock` decides the same way whenever a branch is
  tried needs `MapSound` and `MapComplete`: the cache has exactly the active chain's
  pointers.
* `ValidInv`: a body that `ContextualCheckBlock` refuses is kept nowhere
  (`BadBodiesRefused`), and what is connected has passed `ConnectBlock`.
* `StartInv`: while the repair runs, either a block that breaks no rule is marked failed, on
  disk or after the next flush (`Pending`), or some candidate leads all blocks that break no
  rule, and the tip is a candidate between two steps (`RepairLeads`). So a start that fails
  the assertion has such a mark on disk.
* `IndexWhole`: memory has the parent of every entry and every record of the disk, and an
  entry whose record is not on disk is dirty. Nothing of the kind holds of the disk alone:
  it is the empty `setDirtyBlockIndex` at the end of a shutdown that carries it over, and a
  start from records with a gap never gets to run a handler.

`CandidateAtStart` first blamed the crash inside `invalidateblock` alone. It was not
inductive, and TLC found it false with three commands and two restarts, which is more than
the run has: a mark that some earlier command left on a block without a fault fails the same
assertion. The property now says what holds for every number of commands and restarts.

Besides `TreeAssumption` these proofs use that a block has more work than its proper
ancestors (`GetBlockProof` is positive), and that two entries of the block index have
different addresses, so that `CBlockIndexWorkComparator` is a total order.

`SwiftTXProofs` proves, for any nodes, masternodes, transactions, rankings by each node and
numbers of signatures that satisfy `SwiftAssumption` and `QuorumAssumption`:

| Theorem | Specification | Property |
|---|---|---|
| `SwiftTypes` | `Spec` | `TypeOK` |
| `CountedOnce` | `Spec` | `VoteCountedOnce` |
| `LocksExclusive` | `Spec`, if `QuorumsMeet` | `NoTwoLocks` |

Its inductive invariant `SwiftInv` has four parts. `LocksGood`: every vote in a lock is in
the node's `mapTxLockVote`, was sent if its masternode runs this code, comes from a
masternode ranked first at its height, and no two come from one masternode; cleaning keeps
it because a vote is forgotten only with the lock it stands in. `VotesKept`: a steady
masternode that voted for a transaction has it in its memory pool or has had it, or a
conflicting one, in its chain. `OneVote`: a steady masternode that voted for two conflicting
transactions has had a conflict of one of them in its chain. The last rests on the conflict
check of `AcceptToMemoryPool`, which precedes every vote, and on nothing but a block taking
a transaction out of a pool. Two complete locks at one height are two sets of at least
REQUIRED voters among the first TOTAL; by counting (`QuorumsIntersect`) they share a
masternode that is steady, if `QuorumsMeet`: with 6 of 10 signatures one of the ten may be
restarted or run other code when both nodes rank the same ten first, none when their lists
rank eleven between them, and nothing is promised for lists that differ by more. The exception in `NoTwoLocks` is real: a voter whose chain
confirms a double spend and is then reorganised may vote for both.

`CoinsCacheProofs`, for any transactions, coins and blocks:

| Theorem | Specification | Property |
|---|---|---|
| `CacheTypeCorrect` | `Spec` | `TypeOK` |
| `FreshCorrect` | `Spec` | `FreshIsAbsent` |
| `CleanCorrect` | `Spec` | `CleanRepeatsBase` |
| `AssertNeverFails` | `Spec` | `BatchWriteAsserts` |
| `CachesTransparent` | `Spec` | `Transparent`: it implements `CoinStore` |

`BlockCoinsProofs`, for any chain of blocks (`WorkAssumption`: transactions have different
ids, an output is spent at most once and after the transaction that creates it, which BIP30
and `HaveInputs` see to):

| Theorem | Specification | Property |
|---|---|---|
| `CoinsAreOfTheChain` | `BlocksSpec` | `CoinsExact` |
| `BlocksUseCaches` | `BlocksSpec` | `Spec` of `CoinsCache` |
| `BlocksSeePlainStore` | `BlocksSpec` | `Transparent` |
| `BlocksKeepCachesSound` | `BlocksSpec` | `FreshIsAbsent`, `CleanRepeatsBase`, `BatchWriteAsserts` |

`CheckQueueProofs`, for any number of workers and checks and any batch size:

| Theorem | Specification | Property |
|---|---|---|
| `QueueTypeCorrect` | `Spec` | `TypeOK` |
| `FinishedCorrect` | `Spec` | `FinishedBeforeReturn` |
| `ReadyCorrect` | `Spec` | `ReadyForNext` |
| `PromiseCorrect` | `Spec` | `PromiseKept`: it implements `CheckBatch` |

`BlockDownloadProofs`, for any peers, block tree, window and limits:

| Theorem | Specification | Property |
|---|---|---|
| `DownloadTypeCorrect` | `Spec` | `TypeOK` |
| `FlightCorrect` | `Spec` | `InFlightAgree` |
| `StallerCorrect` | `Spec` | `StallerOwes` |
| `CommonCorrect` | `Spec` | `CommonLinked` |
| `QueuedCorrect` | `Spec` | `QueuedCovers` |

The coins cache. `CacheInv` says of each cache, relative to what its base shows, that it is
`Sound`: an entry that is not DIRTY repeats the base, and where an entry is FRESH the base
shows pruned coins. `Anchored` relates the two caches: what the view holds and does not call
FRESH is held by `pcoinsTip`. Without it `BatchWrite`'s assertion could fail, and a flush of
the view could call an entry FRESH that the database has. The refinement then has one step
per action: reads change nothing that is shown, `BatchWrite` turns what the view shows into
what `pcoinsTip` shows, and `DbBatchWrite` does the same one level down.

The coins of the blocks. `BlocksInv` is `CacheInv` with four parts. `ViewExact`: during a job
the view shows the coins of the chain up to the entry the job has come to (`CoinTo`, defined
without steps, as the outputs created and not spent up to there). `AllSameAt`, twice: `pcoinsTip`
and the database show the coins of the chain up to their best block. `UndoInv`: the undo record of every block that may be disconnected, and of the
entries the current job has applied, carries the height and the coinbase mark exactly where
the entry spent the last output, and none elsewhere; without it a disconnect could restore
anything. `JobOK` bounds the job's position. "The same" leaves
out `fCoinStake`, which undo loses (`undo_stake`). One lemma says that applying an entry
moves `CoinTo` one entry on, another that undoing it moves it back, and what is left of each
job is that its steps are these two.

The check queue. `QueueInv` counts: `nTodo` is the number of checks in the queue and in
batches, which are disjoint; `nTotal` exceeds `nIdle` by the number of threads that have a
batch, and `nIdle` is at least the number that wait (it also counts those that died
waiting); a check that fails is still pending, or `fAllOk` is false. It holds until an
exception ends the process. `PromiseCorrect` is immediate from it: when the master returns
`nTodo` is zero, nothing is pending, and `fAllOk` says whether a failing check was added.

The download. `DownloadInv` adds to the properties: known headers have known parents, the
tip has all its ancestors' data, what a peer is known to have is a known header, the
counters of sync peers and preferred peers are the sizes of the sets they count, and peers
that are not connected have nothing in flight. `CommonLinked` needs that the guess of a last
common block, and the common ancestor of two blocks, exist and are ancestors of a linked
block: the lemmas on `Highest` and `Lowest` find the extreme element of a nonempty set by a
least counterexample (`WFMin`).

What stays with TLC: liveness under fairness (`ActivationEnds`, `ComesBack`, `LockReleased`,
`WaitEnds`, `QueueDrains`, `CaughtUp`), which is out of the prover's reach. Every invariant,
action property and refinement that a passing run checks is also a theorem.

## Limits

Not modelled in the chain state (the coins and the undo data are in `BlockCoins`): the
effects of `ConnectTip` and `DisconnectTip` on the mempool and the wallet; system errors
(disk full, failed reads), which the code answers by shutting down, that is, by a crash;
records of block templates that `TestBlockValidity` leaves in the index database;
invalidation of the genesis block; block file positions; `-reindex`. A crash is the death of
the process: what LevelDB has accepted is kept, and a power cut that takes back writes it has
not synced, or tears one, is not modelled. What a node does with an index that has a made-up
entry (phase `"stub"`) is not followed. `DisconnectTip` succeeds (`StepDisconnectTip`,
`InvalidateDisconnectTip`, `ReprocessDisconnectTip`): the mismatch that makes it fail is in
`BlockCoins` (`undo_stake`). The stake modifier's checkpoint (`main.cpp:3091`) is not an
action: `mapStakeModifierCheckpoints` has only the genesis block, and the test is made only
for blocks with a parent, so it cannot fail. A
v5 block is taken to have one pointer: the pointer lies outside the hashed header in the
code, and the model identifies a block with its header, body and pointer. The check that the
coins' tip is the chain's tip at the end of the repair always holds (`CoinsFollowChain`) and
has no action of its own. Signatures, scripts, kernel hashes and stake modifiers are part of
what makes a block good or bad.

Not modelled in the transaction locks: `mapUnknownVotes` and `GetAverageVoteTime`, which
only decide whether a vote is relayed; `IsIXTXValid` and output scripts, taken to be in
order; chains of unconfirmed transactions; how the masternode lists change (a node may rank
any set within its `Quorum` at any moment); the maps being used by two threads without a
mutex (every handler is one step). Both swift runs rank all masternodes first at all nodes;
lists that differ are covered by the theorem.

Not modelled in the coins: values and scripts of outputs; the mempool's view on top of
`pcoinsTip`, which only reads; a batch that LevelDB refuses to write (the entries are
already gone from the cache then, and the node shuts down); two transactions with one hash
(BIP30 refuses the block). In the check queue: `fQuit`, which nothing sets; running without
worker threads, where the control has no queue. In the download: `getblocks` as a separate
protocol, import and reindex, peers that are clients or one-shot, a node past its initial
download (where `pindexBestHeader` is recent and every peer is synchronised with),
`mapBlockSource`, points below the ban, blocks that only `ConnectBlock` refuses (there a block
is refused when it comes, or good). A block whose stake was seen stays in flight
(`main.cpp:3932`); in `block_download` only the peer that is not good has one, and a good
peer that did would be disconnected by the timeout.

Not modelled at all: masternode list, payments, budget, sync and mixing, address manager,
wallet, miner, RPC server, Qt. The first five share one state, the list of masternodes, and
are the next step of the plan; the others are I/O, presentation, or arithmetic on hashes and
scripts. They are most of the repository's lines, as are the vendored libraries and hash
functions: the map covers a small share of the whole, and over a third of `main.cpp`, half
of `coins.cpp`, `checkqueue.h`, `txdb.cpp` and `swifttx.cpp`.

## Plan

Modelled first, because everything else depends on it: the chain state with its disk, and
the transaction locks that can make it reject blocks; then what the chain state stands on,
the coins and their caches, the parallel script checks, and the download that feeds it
(done). Next, in this order:

1. `Masternode`: announce, ping, expire, recover; then `MasternodePayments` and `Budget` on
   its list: votes, payee choice, thresholds, the owner veto.
2. `MasternodeSync` and `Spork`: the asset state machine, its timeouts and resets.
3. `Mempool` with chains of unconfirmed transactions and orphans, as a composition with
   `BlockCoins`.
4. Address manager, mixing session.
5. Proofs: `UndoClean` for chains without coinstakes; `NoPointerReuse` for a node whose
   restarts need no repair; the invariants of the components above.
