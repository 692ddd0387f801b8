------------------------------- MODULE SwiftTX -------------------------------
(***************************************************************************)
(* SwiftTX transaction locks (src/src/swifttx.cpp and its callers): a      *)
(* transaction sent as "ix" is put to the vote of the masternodes ranked   *)
(* first at a block height fixed by its first input; a node that counts    *)
(* enough "txlvote" messages locks the inputs, and then refuses blocks and *)
(* transactions that spend them otherwise.                                 *)
(*                                                                         *)
(* Every node keeps its own maps.  The message thread runs the handlers,   *)
(* the wallet starts locks, the obfuscation thread removes expired ones;   *)
(* no mutex protects the maps, and each handler is one step here.  A vote, *)
(* once sent, reaches any node at any time, again and again, or never.     *)
(*                                                                         *)
(* A transaction is a name with a set of inputs; all of them satisfy       *)
(* IsIXTXValid.  Every node ranks the masternodes of its own list, so that *)
(* two nodes may rank different ones first, and one node different ones at *)
(* different times.  SPORK_2 and SPORK_3 are active, as they are by        *)
(* default.                                                                *)
(***************************************************************************)
EXTENDS Naturals, Sequences, FiniteSets, Functions

CONSTANTS
    Nodes,         \* nodes that run this code
    Masternodes,   \* masternodes; those in Nodes vote as the code does
    Steady,        \* masternodes in Nodes that are never restarted
    Tx,            \* transactions sent as "ix", "tx" or in a block
    Outpoints,
    Inputs,        \* prevouts of the inputs of each transaction
    Heights,       \* block heights with a ranking of masternodes
    HeightOf,      \* height of the coin of a transaction's first input, plus 3
    Quorum,        \* per node: masternodes that its list, as it changes, ever ranks
                   \* 1 .. SWIFTTX_SIGNATURES_TOTAL at a height
    SWIFTTX_SIGNATURES_REQUIRED

ASSUME SwiftAssumption ==
    /\ Steady \subseteq Nodes \cap Masternodes
    /\ Inputs \in [Tx -> SUBSET Outpoints]
    /\ Heights \subseteq Nat \ {0} /\ HeightOf \in [Tx -> Heights]
    /\ Quorum \in [Nodes -> [Heights -> SUBSET Masternodes]]
    /\ SWIFTTX_SIGNATURES_REQUIRED \in Nat

ASSUME QuorumAssumption ==
    \A n \in Nodes, h \in Heights : IsFiniteSet(Quorum[n][h])

\* Two sets of REQUIRED voters, one counted at a and one at b, share more
\* masternodes than are restarted or run other code.  With 6 of 10 there may be
\* one such masternode if the two lists rank the same ten first, and none if they
\* rank eleven between them; the condition fails when they differ in two places.
QuorumsMeet ==
    \A h \in Heights, a, b \in Nodes :
        LET ranked == Quorum[a][h] \cup Quorum[b][h]
        IN Cardinality(ranked \ Steady) + Cardinality(ranked)
             < 2 * SWIFTTX_SIGNATURES_REQUIRED

VARIABLES
    mapTxLockReq,          \* per node: transaction -> inputs of the CTransaction stored
    mapTxLockReqRejected,  \* per node: set of transactions
    mapTxLockVote,         \* per node: <<masternode, transaction>> of the votes known
    mapTxLocks,            \* per node: transaction -> CTransactionLock
    mapLockedInputs,       \* per node: outpoint -> transaction
    mempool,               \* per node: set of transactions
    chain,                 \* per node: the transactions of the active chain, in order
    seen,                  \* per node: history, transactions ever in its active chain
    sent                   \* votes that masternodes in Nodes have sent

maps == <<mapTxLockReq, mapTxLockReqRejected, mapTxLockVote, mapTxLocks, mapLockedInputs>>
vars == <<maps, mempool, chain, seen, sent>>

Votes == [mn : Masternodes, tx : Tx, nBlockHeight : Heights \cup {0}]
Locks == [nBlockHeight : Heights \cup {0}, vecConsensusVotes : Seq(Votes), expired : BOOLEAN]

\* m is a map from some keys of K to values of V.
IsMap(m, K, V) == DOMAIN m \subseteq K /\ \A k \in DOMAIN m : m[k] \in V

TypeOK ==
    /\ DOMAIN mapTxLockReq = Nodes /\ DOMAIN mapTxLocks = Nodes /\ DOMAIN mapLockedInputs = Nodes
    /\ \A n \in Nodes : /\ IsMap(mapTxLockReq[n], Tx, SUBSET Outpoints)
                         /\ IsMap(mapTxLocks[n], Tx, Locks)
                         /\ IsMap(mapLockedInputs[n], Outpoints, Tx)
    /\ mapTxLockReqRejected \in [Nodes -> SUBSET Tx]
    /\ mapTxLockVote \in [Nodes -> SUBSET (Masternodes \X Tx)]
    /\ mempool \in [Nodes -> SUBSET Tx]
    /\ chain \in [Nodes -> Seq(Tx)]
    /\ seen \in [Nodes -> SUBSET Tx]
    /\ sent \subseteq Votes

Empty == [x \in {} |-> {}]

Init ==
    /\ mapTxLockReq = [n \in Nodes |-> Empty]
    /\ mapTxLockReqRejected = [n \in Nodes |-> {}]
    /\ mapTxLockVote = [n \in Nodes |-> {}]
    /\ mapTxLocks = [n \in Nodes |-> Empty]
    /\ mapLockedInputs = [n \in Nodes |-> Empty]
    /\ mempool = [n \in Nodes |-> {}]
    /\ chain = [n \in Nodes |-> << >>]
    /\ seen = [n \in Nodes |-> {}]
    /\ sent = {}

-----------------------------------------------------------------------------
(* Maps, conflicts and counts. *)

Put(m, k, v) == [x \in DOMAIN m \cup {k} |-> IF x = k THEN v ELSE m[x]]
Insert(m, k, v) == IF k \in DOMAIN m THEN m ELSE Put(m, k, v)
Erase(m, S) == Restrict(m, DOMAIN m \ S)

Conflicts(t) == {u \in Tx \ {t} : Inputs[u] \cap Inputs[t] # {}}

\* The inputs among vin that "locked" gives to a transaction other than t.
LockedByOther(vin, t, locked) == {o \in vin \cap DOMAIN locked : locked[o] # t}

\* Mutant: conflicts inside the memory pool are not looked for.
AcceptWithoutPoolCheck(n, t) ==
    /\ t \notin mempool[n]
    /\ LockedByOther(Inputs[t], t, mapLockedInputs[n]) = {}
    /\ Range(chain[n]) \cap (Conflicts(t) \cup {t}) = {}

AcceptToMemoryPool(n, t) ==
    /\ t \notin mempool[n]
    /\ LockedByOther(Inputs[t], t, mapLockedInputs[n]) = {}
    /\ mempool[n] \cap Conflicts(t) = {}
    /\ Range(chain[n]) \cap (Conflicts(t) \cup {t}) = {}

CountSignatures(lock) ==
    Cardinality({i \in DOMAIN lock.vecConsensusVotes :
                    lock.vecConsensusVotes[i].nBlockHeight = lock.nBlockHeight})

\* CountSignatures answers -1 for a lock whose height is not known yet.
IsComplete(lock) ==
    /\ lock.nBlockHeight # 0
    /\ CountSignatures(lock) >= SWIFTTX_SIGNATURES_REQUIRED

Complete(n, t) == t \in DOMAIN mapTxLocks[n] /\ IsComplete(mapTxLocks[n][t])

NewLock(h) == [nBlockHeight |-> h, vecConsensusVotes |-> << >>, expired |-> FALSE]

\* Mutant: the height of the vote is off by one.
CreateLockOneLower(n, t, h) ==
    LET locks == Insert(mapTxLocks[n], t, NewLock(h))
    IN IF h = 0 THEN mapTxLocks[n]
       ELSE Put(locks, t, [locks[t] EXCEPT !.nBlockHeight = h - 1])

\* mapTxLocks of n after CreateNewLock, which returns h: 0 when an input is
\* less than five blocks deep at this node, and then there is no lock.
CreateNewLock(n, t, h) ==
    LET locks == Insert(mapTxLocks[n], t, NewLock(h))
    IN IF h = 0 THEN mapTxLocks[n]
       ELSE Put(locks, t, [locks[t] EXCEPT !.nBlockHeight = h])

\* mapLockedInputs after the inputs that are free have been given to t.
LockInputs(locked, vin, t) ==
    [o \in DOMAIN locked \cup vin |-> IF o \in DOMAIN locked THEN locked[o] ELSE t]

\* mapTxLocks after CheckForConflictingLocks has expired the locks of S.
ExpireLocks(locks, S) ==
    [u \in DOMAIN locks |-> IF u \in S THEN [locks[u] EXCEPT !.expired = TRUE] ELSE locks[u]]

\* Node n may find that m's rank at height h is at most SWIFTTX_SIGNATURES_TOTAL;
\* it ranks its own list, and one that lacks a masternode moves the others up.  At
\* height 0 the ranking is that of the tip, whatever it is.
RankedFirst(n, m, h) == h # 0 => m \in Quorum[n][h]

-----------------------------------------------------------------------------
(* The chain and the memory pool of a node. *)

\* The blocks above the first j leave the chain; DisconnectTip offers their
\* transactions to the memory pool, which judges them by the locks "locked".
DisconnectAbove(n, j, locked) ==
    LET gone == {chain[n][i] : i \in (j + 1) .. Len(chain[n])}
    IN /\ chain' = [chain EXCEPT ![n] = SubSeq(@, 1, j)]
       /\ mempool' = [mempool EXCEPT ![n] =
                        @ \cup {u \in gone : /\ LockedByOther(Inputs[u], u, locked) = {}
                                             /\ @ \cap Conflicts(u) = {}}]

\* ReprocessBlocks(15): the blocks above the first k are disconnected and
\* connected again up to the first one that a lock forbids.  A block of
\* mapRejectedBlocks that is reconsidered is connected by ConnectBlock, once
\* ActivateBestChain has given cs_main back.
ReprocessBlocks(n, locked) ==
    LET Refused(i) == LockedByOther(Inputs[chain[n][i]], chain[n][i], locked) # {}
    IN \E k \in 0 .. Len(chain[n]), j \in 0 .. Len(chain[n]) :
           /\ k =< j
           /\ \A i \in (k + 1) .. j : ~Refused(i)
           /\ j < Len(chain[n]) => Refused(j + 1)
           /\ DisconnectAbove(n, j, locked)

\* The memory pool after ConnectTip has connected a block with t.
RemoveForBlock(pool, t) == pool \ (Conflicts(t) \cup {t})

\* A block with t is connected: CheckBlock refuses one that spends an input
\* locked by another transaction.
ConnectBlock(n, t) ==
    /\ Range(chain[n]) \cap (Conflicts(t) \cup {t}) = {}
    /\ LockedByOther(Inputs[t], t, mapLockedInputs[n]) = {}
    /\ chain' = [chain EXCEPT ![n] = Append(@, t)]
    /\ mempool' = [mempool EXCEPT ![n] = RemoveForBlock(@, t)]
    /\ seen' = [seen EXCEPT ![n] = @ \cup {t}]
    /\ UNCHANGED <<maps, sent>>

\* A reorganisation disconnects the block at the tip.
DisconnectTip(n) ==
    /\ chain[n] # << >>
    /\ DisconnectAbove(n, Len(chain[n]) - 1, mapLockedInputs[n])
    /\ UNCHANGED <<maps, seen, sent>>

\* The transaction arrives as an ordinary "tx".
AcceptTx(n, t) ==
    /\ AcceptToMemoryPool(n, t)
    /\ mempool' = [mempool EXCEPT ![n] = @ \cup {t}]
    /\ UNCHANGED <<maps, chain, seen, sent>>

-----------------------------------------------------------------------------
(* The "ix" message and the wallet. *)

\* The wallet of n sends t as "ix": CommitTransaction, RelayWalletTransaction.
\* For a transaction with a complete lock GetDepthInMainChain is not zero, and
\* the transaction only enters the memory pool: that is AcceptTx.
RelayWalletTransaction(n, t, h) ==
    /\ AcceptToMemoryPool(n, t)
    /\ ~Complete(n, t)
    /\ mempool' = [mempool EXCEPT ![n] = @ \cup {t}]
    /\ mapTxLockReq' = [mapTxLockReq EXCEPT ![n] = Insert(@, t, Inputs[t])]
    /\ mapTxLocks' = [mapTxLocks EXCEPT ![n] = CreateNewLock(n, t, h)]
    /\ UNCHANGED <<mapTxLockReqRejected, mapTxLockVote, mapLockedInputs, chain, seen, sent>>

\* The masternode n votes on t, unless its list ranks it too low at present or
\* lacks it.
DoConsensusVote(n, t, h) ==
    \/ /\ n \in Masternodes /\ RankedFirst(n, n, h)
       /\ mapTxLockVote' = [mapTxLockVote EXCEPT ![n] = @ \cup {<<n, t>>}]
       /\ sent' = sent \cup {[mn |-> n, tx |-> t, nBlockHeight |-> h]}
    \/ UNCHANGED <<mapTxLockVote, sent>>

NewRequest(n, t) == t \notin DOMAIN mapTxLockReq[n] \cup mapTxLockReqRejected[n]

IxAccepted(n, t, h) ==
    /\ NewRequest(n, t)
    /\ AcceptToMemoryPool(n, t)
    /\ mapTxLocks' = [mapTxLocks EXCEPT ![n] = CreateNewLock(n, t, h)]
    /\ mempool' = [mempool EXCEPT ![n] = @ \cup {t}]
    /\ DoConsensusVote(n, t, h)
    /\ mapTxLockReq' = [mapTxLockReq EXCEPT ![n] = Insert(@, t, Inputs[t])]
    /\ UNCHANGED <<mapTxLockReqRejected, mapLockedInputs, chain, seen>>

\* A request that the memory pool refuses still locks the inputs that are
\* free: "locked" is mapLockedInputs afterwards.
IxRefused(n, t, locked) ==
    /\ NewRequest(n, t)
    /\ ~AcceptToMemoryPool(n, t)
    /\ mapTxLockReqRejected' = [mapTxLockReqRejected EXCEPT ![n] = @ \cup {t}]
    /\ mapLockedInputs' = [mapLockedInputs EXCEPT ![n] = locked]
    /\ UNCHANGED <<mapTxLockVote, seen, sent>>

IxRejected(n, t, h) ==
    LET locks == CreateNewLock(n, t, h)
        locked == LockInputs(mapLockedInputs[n], Inputs[t], t)
    IN /\ IxRefused(n, t, locked)
       /\ ~(t \in DOMAIN locks /\ IsComplete(locks[t]))
       /\ mapTxLocks' = [mapTxLocks EXCEPT ![n] = locks]
       /\ UNCHANGED <<mapTxLockReq, chain, mempool>>

IxFindsLock(n, t, h) ==
    LET locks == CreateNewLock(n, t, h)
        locked == LockInputs(mapLockedInputs[n], Inputs[t], t)
    IN /\ IxRefused(n, t, locked)
       /\ t \in DOMAIN locks /\ IsComplete(locks[t])
       /\ LockedByOther(Inputs[t], t, locked) = {}
       /\ mapTxLocks' = [mapTxLocks EXCEPT ![n] = locks]
       /\ mapTxLockReq' = [mapTxLockReq EXCEPT ![n] = Insert(@, t, Inputs[t])]
       /\ ReprocessBlocks(n, locked)

IxConflicts(n, t, h) ==
    LET locks == CreateNewLock(n, t, h)
        locked == LockInputs(mapLockedInputs[n], Inputs[t], t)
    IN /\ IxRefused(n, t, locked)
       /\ t \in DOMAIN locks /\ IsComplete(locks[t])
       /\ \E o \in LockedByOther(Inputs[t], t, locked) :
              mapTxLocks' = [mapTxLocks EXCEPT ![n] = ExpireLocks(locks, {t, locked[o]})]
       /\ UNCHANGED <<mapTxLockReq, chain, mempool>>

-----------------------------------------------------------------------------
(* The "txlvote" message. *)

\* Mutant: a vote that is known is counted again.
VoteAgain(n, v) ==
    /\ mapTxLockVote' = [mapTxLockVote EXCEPT ![n] = @ \cup {<<v.mn, v.tx>>}]
    /\ UNCHANGED <<seen, sent>>

\* A vote is remembered before it is looked at, whoever made it.
NewVote(n, v) ==
    /\ <<v.mn, v.tx>> \notin mapTxLockVote[n]
    /\ mapTxLockVote' = [mapTxLockVote EXCEPT ![n] = @ \cup {<<v.mn, v.tx>>}]
    /\ UNCHANGED <<seen, sent>>

\* A masternode that runs this code signs what it sent and nothing else.
SignatureValid(v) == v \in sent \/ v.mn \notin Nodes

\* The masternode or the block is not known to n, the rank is too low, or the
\* signature is not the masternode's.  The vote stays known, and the real one with
\* its hash is ignored when it comes.
VoteIgnored(n, v) ==
    /\ NewVote(n, v)
    /\ UNCHANGED <<mapTxLockReq, mapTxLockReqRejected, mapTxLocks, mapLockedInputs,
                   mempool, chain>>

\* mapTxLocks of n after AddSignature.
AddSignature(n, v) ==
    LET locks == Insert(mapTxLocks[n], v.tx, NewLock(0))
    IN Put(locks, v.tx, [locks[v.tx] EXCEPT !.vecConsensusVotes = Append(@, v)])

\* mapTxLockReq[ctx.txHash], which stores an empty transaction if there is none.
StoredRequest(n, t) == IF t \in DOMAIN mapTxLockReq[n] THEN mapTxLockReq[n][t] ELSE {}

\* ProcessConsensusVote accepts the vote.
NewGoodVote(n, v) ==
    /\ NewVote(n, v)
    /\ RankedFirst(n, v.mn, v.nBlockHeight)
    /\ SignatureValid(v)

VoteCounted(n, v) ==
    /\ NewGoodVote(n, v)
    /\ ~IsComplete(AddSignature(n, v)[v.tx])
    /\ mapTxLocks' = [mapTxLocks EXCEPT ![n] = AddSignature(n, v)]
    /\ UNCHANGED <<mapTxLockReq, mapTxLockReqRejected, mapLockedInputs, mempool, chain>>

VoteConflicts(n, v) ==
    LET vin == StoredRequest(n, v.tx)
        locked == mapLockedInputs[n]
    IN /\ NewGoodVote(n, v)
       /\ IsComplete(AddSignature(n, v)[v.tx])
       /\ \E o \in LockedByOther(vin, v.tx, locked) :
              mapTxLocks' = [mapTxLocks EXCEPT ![n] =
                                ExpireLocks(AddSignature(n, v), {v.tx, locked[o]})]
       /\ UNCHANGED <<mapTxLockReq, mapTxLockReqRejected, mapLockedInputs, mempool, chain>>

VoteCompletes(n, v) ==
    LET vin == StoredRequest(n, v.tx)
        locked == LockInputs(mapLockedInputs[n], vin, v.tx)
    IN /\ NewGoodVote(n, v)
       /\ IsComplete(AddSignature(n, v)[v.tx])
       /\ LockedByOther(vin, v.tx, mapLockedInputs[n]) = {}
       /\ mapTxLocks' = [mapTxLocks EXCEPT ![n] = AddSignature(n, v)]
       /\ mapTxLockReq' = [mapTxLockReq EXCEPT ![n] = Put(@, v.tx, vin)]
       /\ mapLockedInputs' = [mapLockedInputs EXCEPT ![n] = locked]
       /\ IF v.tx \in mapTxLockReqRejected[n]
          THEN ReprocessBlocks(n, locked)
          ELSE UNCHANGED <<mempool, chain>>
       /\ UNCHANGED mapTxLockReqRejected

-----------------------------------------------------------------------------
(* Time and restarts. *)

\* An hour has passed since the lock of t was created at n.
Expire(n, t) ==
    /\ t \in DOMAIN mapTxLocks[n] /\ ~mapTxLocks[n][t].expired
    /\ mapTxLocks' = [mapTxLocks EXCEPT ![n] = ExpireLocks(@, {t})]
    /\ UNCHANGED <<mapTxLockReq, mapTxLockReqRejected, mapTxLockVote, mapLockedInputs,
                   mempool, chain, seen, sent>>

\* Mutant: the inputs stay locked.
ReleaseNothing(n, known) == {}

\* The inputs of the requests that are removed, whoever locked them.
ReleasedInputs(n, known) == UNION {mapTxLockReq[n][t] : t \in known}

\* The inputs and the votes of the expired locks are released only when the
\* request is known.
CleanTransactionLocksList(n) ==
    LET locks == mapTxLocks[n]
        old == {t \in DOMAIN locks : locks[t].expired}
        known == old \cap DOMAIN mapTxLockReq[n]
    IN /\ old # {}
       /\ mapTxLocks' = [mapTxLocks EXCEPT ![n] = Erase(@, old)]
       /\ mapLockedInputs' = [mapLockedInputs EXCEPT ![n] = Erase(@, ReleasedInputs(n, known))]
       /\ mapTxLockReq' = [mapTxLockReq EXCEPT ![n] = Erase(@, known)]
       /\ mapTxLockReqRejected' = [mapTxLockReqRejected EXCEPT ![n] = @ \ known]
       /\ mapTxLockVote' = [mapTxLockVote EXCEPT ![n] =
              {k \in @ : ~(/\ k[2] \in known
                           /\ \E i \in DOMAIN locks[k[2]].vecConsensusVotes :
                                  locks[k[2]].vecConsensusVotes[i].mn = k[1])}]
       /\ UNCHANGED <<mempool, chain, seen, sent>>

\* The node stops and starts again: only its chain is on disk.
Restart(n) ==
    /\ n \notin Steady
    /\ mapTxLockReq' = [mapTxLockReq EXCEPT ![n] = Empty]
    /\ mapTxLockReqRejected' = [mapTxLockReqRejected EXCEPT ![n] = {}]
    /\ mapTxLockVote' = [mapTxLockVote EXCEPT ![n] = {}]
    /\ mapTxLocks' = [mapTxLocks EXCEPT ![n] = Empty]
    /\ mapLockedInputs' = [mapLockedInputs EXCEPT ![n] = Empty]
    /\ mempool' = [mempool EXCEPT ![n] = {}]
    /\ UNCHANGED <<chain, seen, sent>>

-----------------------------------------------------------------------------
Request(n, t, h) ==
    \/ RelayWalletTransaction(n, t, h)
    \/ IxAccepted(n, t, h)
    \/ IxRejected(n, t, h)
    \/ IxFindsLock(n, t, h)
    \/ IxConflicts(n, t, h)

Vote(n, v) ==
    \/ VoteIgnored(n, v)
    \/ VoteCounted(n, v)
    \/ VoteConflicts(n, v)
    \/ VoteCompletes(n, v)

Next ==
    \E n \in Nodes :
        \/ \E t \in Tx : \E h \in {0, HeightOf[t]} : Request(n, t, h)
        \/ \E v \in Votes : Vote(n, v)
        \/ \E t \in Tx : AcceptTx(n, t) \/ ConnectBlock(n, t) \/ Expire(n, t)
        \/ DisconnectTip(n)
        \/ CleanTransactionLocksList(n)
        \/ Restart(n)

Spec == Init /\ [][Next]_vars

\* The clock goes on and the obfuscation thread cleans up every minute.
Fairness ==
    /\ \A n \in Nodes : WF_vars(CleanTransactionLocksList(n))
    /\ \A n \in Nodes, t \in Tx : WF_vars(Expire(n, t))

FairSpec == Spec /\ Fairness

-----------------------------------------------------------------------------
(* Properties. *)

\* The active chain of m has had a transaction that conflicts with t.
Spoilt(m, t) == seen[m] \cap Conflicts(t) # {}

\* The quorum of SwiftTX: two conflicting transactions that are voted on at
\* the same height are never both completely locked, at one node or at
\* two, unless the chain of a masternode that voted has contained a double
\* spend of one of them.  CountSignatures, DoConsensusVote and the conflict
\* checks of AcceptToMemoryPool work together for it.
NoTwoLocks ==
    \A a, b \in Nodes, t, u \in Tx :
        (/\ u \in Conflicts(t) /\ HeightOf[t] = HeightOf[u]
         /\ Complete(a, t) /\ Complete(b, u))
        => \E m \in Steady : Spoilt(m, t) \/ Spoilt(m, u)

\* No masternode is counted twice in a lock, however often its vote arrives
\* and whatever expired in between: mapTxLockVote filters what AddSignature
\* appends.
VoteCountedOnce ==
    \A n \in Nodes : \A t \in DOMAIN mapTxLocks[n] :
        LET votes == mapTxLocks[n][t].vecConsensusVotes
        IN \A i, j \in DOMAIN votes : votes[i].mn = votes[j].mn => i = j

\* An input locked by a transaction whose lock and request are known is
\* released in the end: CleanTransactionLocksList forgets all it kept.
LockReleased ==
    \A n \in Nodes, o \in Outpoints, t \in Tx :
        (/\ o \in DOMAIN mapLockedInputs[n] /\ mapLockedInputs[n][o] = t
         /\ t \in DOMAIN mapTxLocks[n]
         /\ t \in DOMAIN mapTxLockReq[n] /\ o \in mapTxLockReq[n][t])
        ~> ~(o \in DOMAIN mapLockedInputs[n] /\ mapLockedInputs[n][o] = t)

\* CheckBlock: "only reject blocks when it's based on complete consensus".  A
\* block with t is refused only for a lock that has the signatures required.
RefusalNeedsConsensus ==
    \A n \in Nodes, t \in Tx :
        \A o \in LockedByOther(Inputs[t], t, mapLockedInputs[n]) :
            Complete(n, mapLockedInputs[n][o])

=============================================================================
