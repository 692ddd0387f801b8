---------------------------- MODULE SwiftTXProofs ----------------------------
(***************************************************************************)
(* Proofs about SwiftTX, for any number of nodes, masternodes and          *)
(* transactions: types, that a masternode is counted once in a lock, and   *)
(* that two conflicting transactions are not both locked.                  *)
(***************************************************************************)
EXTENDS SwiftTX, FiniteSetTheorems, TLAPS

-----------------------------------------------------------------------------
(* Maps. *)

\* Put, Insert and Erase keep keys and values in their sets.
LEMMA MapFacts ==
    ASSUME NEW K, NEW V, NEW m, IsMap(m, K, V), NEW k \in K, NEW v \in V, NEW S
    PROVE  /\ IsMap(Put(m, k, v), K, V) /\ DOMAIN Put(m, k, v) = DOMAIN m \cup {k}
           /\ IsMap(Insert(m, k, v), K, V) /\ DOMAIN Insert(m, k, v) = DOMAIN m \cup {k}
           /\ IsMap(Erase(m, S), K, V) /\ DOMAIN Erase(m, S) = DOMAIN m \ S
  BY DEF IsMap, Put, Insert, Erase, Restrict

\* What the maps hold after a change.
LEMMA MapValues ==
    ASSUME NEW m, NEW k, NEW v, NEW S
    PROVE  /\ Put(m, k, v)[k] = v
           /\ \A x \in DOMAIN m : x # k => Put(m, k, v)[x] = m[x]
           /\ \A x \in DOMAIN m : Insert(m, k, v)[x] = m[x]
           /\ k \notin DOMAIN m => Insert(m, k, v)[k] = v
           /\ \A x \in DOMAIN m \ S : Erase(m, S)[x] = m[x]
  BY DEF Put, Insert, Erase, Restrict

\* Locking inputs keeps the map of locked inputs well formed.
LEMMA LockInputsType ==
    ASSUME NEW locked, IsMap(locked, Outpoints, Tx), NEW vin \in SUBSET Outpoints, NEW t \in Tx
    PROVE  IsMap(LockInputs(locked, vin, t), Outpoints, Tx)
  BY DEF IsMap, LockInputs

-----------------------------------------------------------------------------
(* Locks. *)

\* Vote v may stand in a lock of t at node n, which knows the votes "known".
GoodVote(n, v, t, known, S) ==
    /\ v \in Votes /\ v.tx = t
    /\ v \in S \/ v.mn \notin Nodes
    /\ RankedFirst(n, v.mn, v.nBlockHeight)
    /\ <<v.mn, t>> \in known

\* The lock of t has its height, and each of its votes stands there once.
GoodLock(n, lock, t, known, S) ==
    LET votes == lock.vecConsensusVotes
    IN /\ lock \in Locks
       /\ lock.nBlockHeight \in {0, HeightOf[t]}
       /\ \A i \in DOMAIN votes : GoodVote(n, votes[i], t, known, S)
       /\ \A i, j \in DOMAIN votes : votes[i].mn = votes[j].mn => i = j

GoodLocks(n, locks, known, S) ==
    /\ DOMAIN locks \subseteq Tx
    /\ \A t \in DOMAIN locks : GoodLock(n, locks[t], t, known, S)

\* A lock stays good when more votes are known and sent.
LEMMA GoodMore ==
    ASSUME NEW n, NEW locks, NEW known, NEW S, GoodLocks(n, locks, known, S),
           NEW known2, NEW S2, known \subseteq known2, S \subseteq S2
    PROVE  GoodLocks(n, locks, known2, S2)
  BY DEF GoodLocks, GoodLock, GoodVote

\* A lock without votes is good.
LEMMA GoodNewLock ==
    ASSUME NEW n, NEW t \in Tx, NEW h \in {0, HeightOf[t]}, NEW known, NEW S
    PROVE  GoodLock(n, NewLock(h), t, known, S)
  BY SwiftAssumption DEF GoodLock, NewLock, Locks

\* Replacing one lock by a good one keeps the map good.
LEMMA GoodPut ==
    ASSUME NEW n, NEW locks, NEW known, NEW S, GoodLocks(n, locks, known, S),
           NEW t \in Tx, NEW lock, GoodLock(n, lock, t, known, S)
    PROVE  /\ GoodLocks(n, Put(locks, t, lock), known, S)
           /\ GoodLocks(n, Insert(locks, t, lock), known, S)
           /\ t \in DOMAIN Insert(locks, t, lock)
  BY DEF GoodLocks, Put, Insert

\* CreateNewLock.
LEMMA GoodCreate ==
    ASSUME NEW n \in Nodes, NEW t \in Tx, NEW h \in {0, HeightOf[t]}, NEW known, NEW S,
           GoodLocks(n, mapTxLocks[n], known, S)
    PROVE  GoodLocks(n, CreateNewLock(n, t, h), known, S)
  <1> DEFINE locks == Insert(mapTxLocks[n], t, NewLock(h))
  <1>1. GoodLocks(n, locks, known, S) /\ t \in DOMAIN locks
    BY GoodNewLock, GoodPut
  <1>2. GoodLock(n, [locks[t] EXCEPT !.nBlockHeight = h], t, known, S)
    BY <1>1, SwiftAssumption DEF GoodLocks, GoodLock, Locks
  <1>3. QED
    BY <1>1, <1>2, GoodPut DEF CreateNewLock

\* CheckForConflictingLocks and the passing of time.
LEMMA GoodExpire ==
    ASSUME NEW n, NEW locks, NEW known, NEW S, GoodLocks(n, locks, known, S), NEW U
    PROVE  GoodLocks(n, ExpireLocks(locks, U), known, S)
  BY DEF GoodLocks, GoodLock, Locks, ExpireLocks

\* A vote that was not known is appended to a lock.
LEMMA GoodAppend ==
    ASSUME NEW n, NEW lock, NEW t \in Tx, NEW known, NEW S, GoodLock(n, lock, t, known, S),
           NEW v \in Votes, v.tx = t, v \in S \/ v.mn \notin Nodes,
           RankedFirst(n, v.mn, v.nBlockHeight), <<v.mn, t>> \notin known
    PROVE  GoodLock(n, [lock EXCEPT !.vecConsensusVotes = Append(@, v)], t,
                    known \cup {<<v.mn, t>>}, S)
  <1> DEFINE old == lock.vecConsensusVotes
             new == Append(old, v)
             lock2 == [lock EXCEPT !.vecConsensusVotes = new]
             more == known \cup {<<v.mn, t>>}
  <1>1. old \in Seq(Votes) /\ lock \in Locks
    BY DEF GoodLock, Locks
  <1>2. /\ new \in Seq(Votes) /\ DOMAIN new = DOMAIN old \cup {Len(old) + 1}
        /\ new[Len(old) + 1] = v /\ Len(old) + 1 \notin DOMAIN old
        /\ \A i \in DOMAIN old : new[i] = old[i]
    BY <1>1
  <1>3. lock2 \in Locks /\ lock2.vecConsensusVotes = new
        /\ lock2.nBlockHeight = lock.nBlockHeight
    BY <1>1, <1>2 DEF Locks
  <1>4. \A i \in DOMAIN old : GoodVote(n, old[i], t, known, S)
    BY DEF GoodLock
  <1>5. \A i \in DOMAIN old : old[i].mn # v.mn
    BY <1>4 DEF GoodVote
  <1>6. \A i \in DOMAIN old : GoodVote(n, old[i], t, more, S)
    BY <1>4 DEF GoodVote
  <1>7. GoodVote(n, v, t, more, S)
    BY DEF GoodVote
  <1>8. \A i \in DOMAIN new : GoodVote(n, new[i], t, more, S)
    BY <1>2, <1>6, <1>7
  <1>9. \A i, j \in DOMAIN old : old[i].mn = old[j].mn => i = j
    BY DEF GoodLock
  <1>10. \A i, j \in DOMAIN new : new[i].mn = new[j].mn => i = j
    BY <1>2, <1>5, <1>9
  <1>11. lock.nBlockHeight \in {0, HeightOf[t]}
    BY DEF GoodLock
  <1> HIDE DEF new, lock2, more
  <1>12. GoodLock(n, lock2, t, more, S)
    BY <1>3, <1>8, <1>10, <1>11 DEF GoodLock
  <1>13. QED
    BY <1>12 DEF lock2, new, more

\* AddSignature, for a vote that was not known.
LEMMA GoodAdd ==
    ASSUME NEW n \in Nodes, NEW v \in Votes, NEW known, NEW S,
           GoodLocks(n, mapTxLocks[n], known, S),
           v \in S \/ v.mn \notin Nodes, RankedFirst(n, v.mn, v.nBlockHeight),
           <<v.mn, v.tx>> \notin known
    PROVE  GoodLocks(n, AddSignature(n, v), known \cup {<<v.mn, v.tx>>}, S)
  <1> DEFINE t == v.tx
             more == known \cup {<<v.mn, t>>}
             locks == Insert(mapTxLocks[n], t, NewLock(0))
  <1>1. t \in Tx
    BY DEF Votes
  <1>2. GoodLocks(n, locks, known, S) /\ t \in DOMAIN locks
    BY <1>1, GoodNewLock, GoodPut
  <1>3. GoodLock(n, locks[t], t, known, S)
    BY <1>2 DEF GoodLocks
  <1>4. GoodLock(n, [locks[t] EXCEPT !.vecConsensusVotes = Append(@, v)], t, more, S)
    BY <1>1, <1>3, GoodAppend
  <1>5. GoodLocks(n, locks, more, S)
    BY <1>2, GoodMore
  <1>6. QED
    BY <1>1, <1>4, <1>5, GoodPut DEF AddSignature

-----------------------------------------------------------------------------
(* The inductive invariant. *)

\* Every lock of every node is good.
LocksGood == \A n \in Nodes : GoodLocks(n, mapTxLocks[n], mapTxLockVote[n], sent)

\* What a steady masternode voted for is in its memory pool, or has been in
\* its chain, or has lost an input to its chain.
VotesKept ==
    \A v \in sent : v.mn \in Steady =>
        \/ v.tx \in mempool[v.mn] \cup seen[v.mn]
        \/ Spoilt(v.mn, v.tx)

\* A steady masternode votes for two conflicting transactions only when its
\* chain has spent an input of one of them.
OneVote ==
    \A v, u \in sent :
        (v.mn \in Steady /\ u.mn = v.mn /\ u.tx \in Conflicts(v.tx))
        => Spoilt(v.mn, v.tx) \/ Spoilt(v.mn, u.tx)

SwiftInv == TypeOK /\ LocksGood /\ VotesKept /\ OneVote

\* Only the maps of node n change, and its locks stay good.
LEMMA OneNodeChanges ==
    ASSUME TypeOK, LocksGood, NEW n \in Nodes, NEW locks, NEW known,
           mapTxLocks' = [mapTxLocks EXCEPT ![n] = locks],
           mapTxLockVote' = [mapTxLockVote EXCEPT ![n] = known],
           sent \subseteq sent', GoodLocks(n, locks, known, sent')
    PROVE  LocksGood'
  <1> SUFFICES ASSUME NEW a \in Nodes PROVE GoodLocks(a, mapTxLocks'[a], mapTxLockVote'[a], sent')
    BY DEF LocksGood
  <1>1. CASE a = n
    BY <1>1 DEF TypeOK
  <1>2. CASE a # n
    <2>1. mapTxLocks'[a] = mapTxLocks[a] /\ mapTxLockVote'[a] = mapTxLockVote[a]
      BY <1>2 DEF TypeOK
    <2>2. QED
      BY <2>1, GoodMore DEF LocksGood
  <1>3. QED
    BY <1>1, <1>2

\* Requests keep the locks good.
LEMMA RequestLocks ==
    ASSUME TypeOK, LocksGood, NEW n \in Nodes, NEW t \in Tx, NEW h \in {0, HeightOf[t]},
           Request(n, t, h)
    PROVE  LocksGood'
  <1> DEFINE locks == CreateNewLock(n, t, h)
  <1>1. /\ GoodLocks(n, mapTxLocks[n], mapTxLockVote[n], sent)
        /\ mapTxLockVote = [mapTxLockVote EXCEPT ![n] = mapTxLockVote[n]]
    BY DEF LocksGood, TypeOK
  <1>2. GoodLocks(n, locks, mapTxLockVote[n], sent)
    BY <1>1, GoodCreate
  <1> HIDE DEF locks
  <1>3. CASE RelayWalletTransaction(n, t, h)
    BY <1>1, <1>2, <1>3, OneNodeChanges DEF RelayWalletTransaction, locks
  <1>4. CASE IxAccepted(n, t, h)
    <2>1. CASE mapTxLockVote' = mapTxLockVote /\ sent' = sent
      BY <1>1, <1>2, <1>4, <2>1, OneNodeChanges DEF IxAccepted, locks
    <2>2. CASE /\ mapTxLockVote' = [mapTxLockVote EXCEPT ![n] = @ \cup {<<n, t>>}]
               /\ sent' = sent \cup {[mn |-> n, tx |-> t, nBlockHeight |-> h]}
      <3>1. GoodLocks(n, locks, mapTxLockVote[n] \cup {<<n, t>>}, sent')
        BY <1>2, <2>2, GoodMore
      <3>2. QED
        BY <1>4, <2>2, <3>1, OneNodeChanges DEF IxAccepted, locks
    <2>3. QED
      BY <1>4, <2>1, <2>2 DEF IxAccepted, DoConsensusVote
  <1>5. CASE IxRejected(n, t, h)
    BY <1>1, <1>2, <1>5, OneNodeChanges DEF IxRejected, IxRefused, locks
  <1>6. CASE IxFindsLock(n, t, h)
    BY <1>1, <1>2, <1>6, OneNodeChanges DEF IxFindsLock, IxRefused, locks
  <1>7. CASE IxConflicts(n, t, h)
    <2>1. PICK U : mapTxLocks' = [mapTxLocks EXCEPT ![n] = ExpireLocks(locks, U)]
      BY <1>7 DEF IxConflicts, locks
    <2>2. GoodLocks(n, ExpireLocks(locks, U), mapTxLockVote[n], sent)
      BY <1>2, GoodExpire
    <2>3. mapTxLockVote' = mapTxLockVote /\ sent' = sent
      BY <1>7 DEF IxConflicts, IxRefused
    <2>4. QED
      BY <1>1, <2>1, <2>2, <2>3, OneNodeChanges
  <1>8. QED
    BY <1>3, <1>4, <1>5, <1>6, <1>7 DEF Request

\* Votes keep the locks good.
LEMMA VoteLocks ==
    ASSUME TypeOK, LocksGood, NEW n \in Nodes, NEW v \in Votes, Vote(n, v)
    PROVE  LocksGood'
  <1> DEFINE known == mapTxLockVote[n] \cup {<<v.mn, v.tx>>}
             locks == AddSignature(n, v)
  <1>1. /\ <<v.mn, v.tx>> \notin mapTxLockVote[n]
        /\ mapTxLockVote' = [mapTxLockVote EXCEPT ![n] = known]
        /\ sent' = sent
    BY DEF Vote, VoteIgnored, VoteCounted, VoteConflicts, VoteCompletes, NewGoodVote, NewVote
  <1>2. GoodLocks(n, mapTxLocks[n], mapTxLockVote[n], sent)
    BY DEF LocksGood
  <1>3. CASE VoteIgnored(n, v)
    <2>1. mapTxLocks' = mapTxLocks
      BY <1>3 DEF VoteIgnored
    <2>2. \A a \in Nodes : mapTxLockVote[a] \subseteq mapTxLockVote'[a]
      BY <1>1 DEF TypeOK
    <2>3. QED
      BY <1>1, <2>1, <2>2, GoodMore DEF LocksGood
  <1>4. CASE NewGoodVote(n, v)
    <2>1. GoodLocks(n, locks, known, sent)
      BY <1>1, <1>2, <1>4, GoodAdd DEF NewGoodVote, SignatureValid
    <2> HIDE DEF locks
    <2>2. CASE mapTxLocks' = [mapTxLocks EXCEPT ![n] = locks]
      BY <1>1, <2>1, <2>2, OneNodeChanges
    <2>3. CASE VoteConflicts(n, v)
      <3>1. PICK U : mapTxLocks' = [mapTxLocks EXCEPT ![n] = ExpireLocks(locks, U)]
        BY <2>3 DEF VoteConflicts, locks
      <3>2. GoodLocks(n, ExpireLocks(locks, U), known, sent)
        BY <2>1, GoodExpire
      <3>3. QED
        BY <1>1, <3>1, <3>2, OneNodeChanges
    <2>4. QED
      BY <1>3, <2>2, <2>3 DEF Vote, VoteCounted, VoteCompletes, locks
  <1>5. QED
    BY <1>3, <1>4 DEF Vote, VoteCounted, VoteConflicts, VoteCompletes

\* Cleaning removes a known vote only together with the lock it stands in.
LEMMA CleanLocks ==
    ASSUME TypeOK, LocksGood, NEW n \in Nodes, CleanTransactionLocksList(n)
    PROVE  LocksGood'
  <1> DEFINE locks == mapTxLocks[n]
             old == {t \in DOMAIN locks : locks[t].expired}
             known == mapTxLockVote'[n]
  <1>1. /\ mapTxLocks' = [mapTxLocks EXCEPT ![n] = Erase(locks, old)]
        /\ mapTxLockVote' = [mapTxLockVote EXCEPT ![n] = known]
        /\ sent' = sent
        /\ \A k \in mapTxLockVote[n] : k[2] \notin old => k \in known
    BY DEF CleanTransactionLocksList, TypeOK
  <1>2. GoodLocks(n, locks, mapTxLockVote[n], sent)
    BY DEF LocksGood
  <1>3. DOMAIN Erase(locks, old) = DOMAIN locks \ old
        /\ \A t \in DOMAIN locks \ old : Erase(locks, old)[t] = locks[t]
    BY DEF Erase, Restrict
  <1>4. ASSUME NEW t \in DOMAIN locks \ old
        PROVE  GoodLock(n, locks[t], t, known, sent)
    <2>1. GoodLock(n, locks[t], t, mapTxLockVote[n], sent)
      BY <1>2 DEF GoodLocks
    <2>2. \A m : <<m, t>> \in mapTxLockVote[n] => <<m, t>> \in known
      BY <1>1, <1>4
    <2> HIDE DEF known, locks, old
    <2>3. QED
      BY <2>1, <2>2 DEF GoodLock, GoodVote
  <1>5. GoodLocks(n, Erase(locks, old), known, sent)
    <2> HIDE DEF known, old
    <2>1. QED
      BY <1>2, <1>3, <1>4 DEF GoodLocks
  <1>6. QED
    BY <1>1, <1>5, OneNodeChanges

\* Every step keeps the locks good.
LEMMA LocksStep ==
    ASSUME TypeOK, LocksGood, [Next]_vars
    PROVE  LocksGood'
  <1>1. CASE UNCHANGED vars
    BY <1>1 DEF vars, maps, LocksGood
  <1>2. ASSUME NEW n \in Nodes, NEW t \in Tx, NEW h \in {0, HeightOf[t]}, Request(n, t, h)
        PROVE  LocksGood'
    BY <1>2, RequestLocks
  <1>3. ASSUME NEW n \in Nodes, NEW v \in Votes, Vote(n, v)
        PROVE  LocksGood'
    BY <1>3, VoteLocks
  <1>4. ASSUME NEW n \in Nodes, NEW t \in Tx, AcceptTx(n, t) \/ ConnectBlock(n, t)
        PROVE  LocksGood'
    BY <1>4 DEF AcceptTx, ConnectBlock, maps, LocksGood
  <1>5. ASSUME NEW n \in Nodes, NEW t \in Tx, Expire(n, t)
        PROVE  LocksGood'
    <2>1. /\ mapTxLocks' = [mapTxLocks EXCEPT ![n] = ExpireLocks(mapTxLocks[n], {t})]
          /\ mapTxLockVote' = [mapTxLockVote EXCEPT ![n] = mapTxLockVote[n]]
          /\ sent' = sent
      BY <1>5 DEF Expire, TypeOK
    <2>2. GoodLocks(n, ExpireLocks(mapTxLocks[n], {t}), mapTxLockVote[n], sent)
      BY GoodExpire DEF LocksGood
    <2>3. QED
      BY <2>1, <2>2, OneNodeChanges
  <1>6. ASSUME NEW n \in Nodes, DisconnectTip(n)
        PROVE  LocksGood'
    BY <1>6 DEF DisconnectTip, maps, LocksGood
  <1>7. ASSUME NEW n \in Nodes, CleanTransactionLocksList(n)
        PROVE  LocksGood'
    BY <1>7, CleanLocks
  <1>8. ASSUME NEW n \in Nodes, Restart(n)
        PROVE  LocksGood'
    <2>1. GoodLocks(n, Empty, {}, sent)
      BY DEF GoodLocks, Empty
    <2>2. QED
      BY <1>8, <2>1, OneNodeChanges DEF Restart
  <1>9. QED
    BY <1>1, <1>2, <1>3, <1>4, <1>5, <1>6, <1>7, <1>8 DEF Next

-----------------------------------------------------------------------------
(* Types. *)

\* The part of the type invariant about the chain and the memory pool.
PoolOK ==
    /\ mempool \in [Nodes -> SUBSET Tx]
    /\ chain \in [Nodes -> Seq(Tx)]
    /\ seen \in [Nodes -> SUBSET Tx]

\* The part about the maps of requests, votes and inputs.
MapsOK ==
    /\ DOMAIN mapTxLockReq = Nodes /\ DOMAIN mapLockedInputs = Nodes
    /\ \A n \in Nodes : /\ IsMap(mapTxLockReq[n], Tx, SUBSET Outpoints)
                         /\ IsMap(mapLockedInputs[n], Outpoints, Tx)
    /\ mapTxLockReqRejected \in [Nodes -> SUBSET Tx]
    /\ mapTxLockVote \in [Nodes -> SUBSET (Masternodes \X Tx)]
    /\ sent \subseteq Votes

\* TypeOK is the types of the maps and those of the rest.
LEMMA TypeParts ==
    /\ TypeOK => PoolOK /\ MapsOK /\ DOMAIN mapTxLocks = Nodes
    /\ PoolOK /\ MapsOK /\ LocksGood /\ DOMAIN mapTxLocks = Nodes => TypeOK
  BY DEF TypeOK, PoolOK, MapsOK, LocksGood, GoodLocks, GoodLock, IsMap

\* Disconnecting blocks keeps types and takes nothing out of the memory pool.
LEMMA DisconnectPool ==
    ASSUME PoolOK, NEW n \in Nodes, NEW j \in 0 .. Len(chain[n]), NEW locked,
           DisconnectAbove(n, j, locked), UNCHANGED seen
    PROVE  PoolOK' /\ \A m \in Nodes : mempool[m] \subseteq mempool'[m]
  <1>1. chain[n] \in Seq(Tx)
    BY DEF PoolOK
  <1>2. SubSeq(chain[n], 1, j) \in Seq(Tx)
    BY <1>1
  <1>3. \A i \in (j + 1) .. Len(chain[n]) : chain[n][i] \in Tx
    BY <1>1
  <1>4. chain' \in [Nodes -> Seq(Tx)]
    BY <1>2 DEF PoolOK, DisconnectAbove
  <1>5. mempool' \in [Nodes -> SUBSET Tx] /\ \A m \in Nodes : mempool[m] \subseteq mempool'[m]
    BY <1>3 DEF PoolOK, DisconnectAbove
  <1>6. QED
    BY <1>4, <1>5 DEF PoolOK

\* So does ReprocessBlocks.
LEMMA ReprocessPool ==
    ASSUME PoolOK, NEW n \in Nodes, NEW locked, ReprocessBlocks(n, locked), UNCHANGED seen
    PROVE  PoolOK' /\ \A m \in Nodes : mempool[m] \subseteq mempool'[m]
  <1>1. PICK j \in 0 .. Len(chain[n]) : DisconnectAbove(n, j, locked)
    BY DEF ReprocessBlocks
  <1>2. QED
    BY <1>1, DisconnectPool

\* What a transaction in the memory pool of m may become of in one step.
Kept(m, t) == \/ t \in mempool'[m] \cup seen'[m]
              \/ seen'[m] \cap Conflicts(t) # {}

\* Every step keeps the types of chain and memory pool; the history only
\* grows, and a steady node loses a transaction only to its chain.
LEMMA PoolStep ==
    ASSUME TypeOK, [Next]_vars
    PROVE  /\ PoolOK'
           /\ \A m \in Nodes : seen[m] \subseteq seen'[m]
           /\ \A m \in Steady : \A t \in mempool[m] : Kept(m, t)
  <1> DEFINE Goal == /\ PoolOK'
                     /\ \A m \in Nodes : seen[m] \subseteq seen'[m]
                     /\ \A m \in Steady : \A t \in mempool[m] : Kept(m, t)
  <1>1. PoolOK /\ Steady \subseteq Nodes
    BY TypeParts, SwiftAssumption
  <1>2. ASSUME PoolOK', UNCHANGED seen, \A m \in Nodes : mempool[m] \subseteq mempool'[m]
        PROVE  Goal
    BY <1>1, <1>2 DEF Kept
  <1>3. ASSUME UNCHANGED <<mempool, chain, seen>> PROVE Goal
    BY <1>1, <1>3 DEF Kept, PoolOK
  <1>4. ASSUME NEW n \in Nodes, NEW t \in Tx, UNCHANGED <<chain, seen>>,
               mempool' = [mempool EXCEPT ![n] = @ \cup {t}]
        PROVE  Goal
    BY <1>1, <1>4 DEF Kept, PoolOK
  <1>5. ASSUME NEW n \in Nodes, NEW t \in Tx, NEW h, Request(n, t, h)
        PROVE  Goal
    <2>1. CASE RelayWalletTransaction(n, t, h) \/ IxAccepted(n, t, h)
      BY <1>4, <2>1 DEF RelayWalletTransaction, IxAccepted
    <2>2. CASE IxRejected(n, t, h) \/ IxConflicts(n, t, h)
      BY <1>3, <2>2 DEF IxRejected, IxConflicts, IxRefused
    <2>3. CASE IxFindsLock(n, t, h)
      <3>1. ReprocessBlocks(n, LockInputs(mapLockedInputs[n], Inputs[t], t)) /\ UNCHANGED seen
        BY <2>3 DEF IxFindsLock, IxRefused
      <3>2. QED
        BY <1>1, <1>2, <3>1, ReprocessPool
    <2>4. QED
      BY <1>5, <2>1, <2>2, <2>3 DEF Request
  <1>6. ASSUME NEW n \in Nodes, NEW v \in Votes, Vote(n, v)
        PROVE  Goal
    <2>1. UNCHANGED seen
      BY <1>6 DEF Vote, VoteIgnored, VoteCounted, VoteConflicts, VoteCompletes, NewGoodVote, NewVote
    <2>2. \/ UNCHANGED <<mempool, chain>>
          \/ \E locked : ReprocessBlocks(n, locked)
      BY <1>6 DEF Vote, VoteIgnored, VoteCounted, VoteConflicts, VoteCompletes
    <2>3. QED
      BY <1>1, <1>2, <1>3, <2>1, <2>2, ReprocessPool
  <1>7. ASSUME NEW n \in Nodes, NEW t \in Tx, ConnectBlock(n, t)
        PROVE  Goal
    <2>1. PoolOK'
      BY <1>1, <1>7 DEF ConnectBlock, RemoveForBlock, PoolOK
    <2>2. \A m \in Nodes : seen[m] \subseteq seen'[m]
      BY <1>1, <1>7 DEF ConnectBlock, RemoveForBlock, PoolOK
    <2>3. ASSUME NEW m \in Steady, NEW u \in mempool[m] PROVE Kept(m, u)
      <3>1. u \in Tx
        BY <1>1 DEF PoolOK
      <3>2. CASE u \in mempool'[m]
        BY <3>2 DEF Kept
      <3>3. CASE m = n /\ u \in Conflicts(t) \cup {t}
        <4>1. t \in seen'[m]
          BY <1>1, <1>7, <3>3 DEF ConnectBlock, RemoveForBlock, PoolOK
        <4>2. u = t \/ t \in Conflicts(u)
          BY <3>1, <3>3 DEF Conflicts
        <4>3. QED
          BY <4>1, <4>2 DEF Kept
      <3>4. QED
        BY <1>1, <1>7, <3>2, <3>3 DEF ConnectBlock, RemoveForBlock, PoolOK
    <2>4. QED
      BY <2>1, <2>2, <2>3
  <1>8. ASSUME NEW n \in Nodes, DisconnectTip(n)
        PROVE  Goal
    <2>1. Len(chain[n]) - 1 \in 0 .. Len(chain[n])
      BY <1>1, <1>8 DEF DisconnectTip, PoolOK
    <2>2. QED
      BY <1>1, <1>2, <1>8, <2>1, DisconnectPool DEF DisconnectTip
  <1>9. ASSUME NEW n \in Nodes, Restart(n)
        PROVE  Goal
    BY <1>1, <1>9 DEF Restart, PoolOK, Kept
  <1>10. ASSUME NEW n \in Nodes, NEW t \in Tx, AcceptTx(n, t) PROVE Goal
    BY <1>4, <1>10 DEF AcceptTx
  <1>11. ASSUME NEW n \in Nodes, NEW t \in Tx, Expire(n, t) PROVE Goal
    BY <1>3, <1>11 DEF Expire
  <1>12. ASSUME NEW n \in Nodes, CleanTransactionLocksList(n) PROVE Goal
    BY <1>3, <1>12 DEF CleanTransactionLocksList
  <1>13. ASSUME UNCHANGED vars PROVE Goal
    BY <1>3, <1>13 DEF vars
  <1> HIDE DEF Goal
  <1>14. Goal
    BY <1>5, <1>6, <1>7, <1>8, <1>9, <1>10, <1>11, <1>12, <1>13 DEF Next
  <1>15. QED
    BY <1>14 DEF Goal

\* Requests keep the types of the maps.
LEMMA RequestMaps ==
    ASSUME MapsOK, NEW n \in Nodes, NEW t \in Tx, NEW h \in {0, HeightOf[t]}, Request(n, t, h)
    PROVE  MapsOK'
  <1> DEFINE req == Insert(mapTxLockReq[n], t, Inputs[t])
             locked == LockInputs(mapLockedInputs[n], Inputs[t], t)
  <1>1. Inputs[t] \in SUBSET Outpoints /\ h \in Heights \cup {0}
    BY SwiftAssumption
  <1>2. IsMap(req, Tx, SUBSET Outpoints)
    BY <1>1, MapFacts DEF MapsOK
  <1>3. IsMap(locked, Outpoints, Tx)
    BY <1>1, LockInputsType DEF MapsOK
  <1> HIDE DEF req, locked
  <1>4. CASE RelayWalletTransaction(n, t, h)
    BY <1>2, <1>4 DEF RelayWalletTransaction, MapsOK, req
  <1>5. CASE IxAccepted(n, t, h)
    <2>1. /\ mapTxLockVote' \in [Nodes -> SUBSET (Masternodes \X Tx)]
          /\ sent' \subseteq Votes
      BY <1>1, <1>5 DEF IxAccepted, DoConsensusVote, MapsOK, Votes
    <2>2. QED
      BY <1>2, <1>5, <2>1 DEF IxAccepted, MapsOK, req
  <1>6. CASE IxRejected(n, t, h)
    BY <1>3, <1>6 DEF IxRejected, IxRefused, MapsOK, locked
  <1>7. CASE IxFindsLock(n, t, h)
    BY <1>2, <1>3, <1>7 DEF IxFindsLock, IxRefused, MapsOK, req, locked
  <1>8. CASE IxConflicts(n, t, h)
    BY <1>3, <1>8 DEF IxConflicts, IxRefused, MapsOK, locked
  <1>9. QED
    BY <1>4, <1>5, <1>6, <1>7, <1>8 DEF Request

\* Votes keep the types of the maps.
LEMMA VoteMaps ==
    ASSUME MapsOK, NEW n \in Nodes, NEW v \in Votes, Vote(n, v)
    PROVE  MapsOK'
  <1> DEFINE vin == StoredRequest(n, v.tx)
             req == Put(mapTxLockReq[n], v.tx, vin)
             locked == LockInputs(mapLockedInputs[n], vin, v.tx)
  <1>1. v.tx \in Tx /\ v.mn \in Masternodes
    BY DEF Votes
  <1>2. vin \in SUBSET Outpoints
    BY DEF StoredRequest, MapsOK, IsMap
  <1>3. /\ mapTxLockVote' \in [Nodes -> SUBSET (Masternodes \X Tx)]
        /\ sent' = sent
    BY <1>1 DEF Vote, VoteIgnored, VoteCounted, VoteConflicts, VoteCompletes, NewGoodVote, NewVote, MapsOK
  <1>4. CASE UNCHANGED <<mapTxLockReq, mapTxLockReqRejected, mapLockedInputs>>
    BY <1>3, <1>4 DEF MapsOK
  <1>5. CASE VoteCompletes(n, v)
    <2>1. IsMap(req, Tx, SUBSET Outpoints)
      BY <1>1, <1>2, MapFacts DEF MapsOK
    <2>2. IsMap(locked, Outpoints, Tx)
      BY <1>1, <1>2, LockInputsType DEF MapsOK
    <2> HIDE DEF req, locked
    <2>3. QED
      BY <1>3, <1>5, <2>1, <2>2 DEF VoteCompletes, MapsOK, req, locked
  <1>6. QED
    BY <1>4, <1>5 DEF Vote, VoteIgnored, VoteCounted, VoteConflicts

\* Every step keeps the types of the maps.
LEMMA MapsStep ==
    ASSUME MapsOK, DOMAIN mapTxLocks = Nodes, [Next]_vars
    PROVE  MapsOK' /\ DOMAIN mapTxLocks' = Nodes
  <1>1. DOMAIN mapTxLocks' = Nodes
    <2>1. ASSUME NEW n \in Nodes, NEW t \in Tx, NEW h, Request(n, t, h)
          PROVE  DOMAIN mapTxLocks' = DOMAIN mapTxLocks
      BY <2>1 DEF Request, RelayWalletTransaction, IxAccepted, IxRejected, IxFindsLock,
                  IxConflicts
    <2>2. ASSUME NEW n \in Nodes, NEW v \in Votes, Vote(n, v)
          PROVE  DOMAIN mapTxLocks' = DOMAIN mapTxLocks
      BY <2>2 DEF Vote, VoteIgnored, VoteCounted, VoteConflicts, VoteCompletes
    <2>3. ASSUME NEW n \in Nodes, NEW t \in Tx,
                 AcceptTx(n, t) \/ ConnectBlock(n, t) \/ Expire(n, t)
          PROVE  DOMAIN mapTxLocks' = DOMAIN mapTxLocks
      BY <2>3 DEF AcceptTx, ConnectBlock, Expire, maps
    <2>4. ASSUME NEW n \in Nodes, DisconnectTip(n) \/ CleanTransactionLocksList(n) \/ Restart(n)
          PROVE  DOMAIN mapTxLocks' = DOMAIN mapTxLocks
      BY <2>4 DEF DisconnectTip, CleanTransactionLocksList, Restart, maps
    <2>5. QED
      BY <2>1, <2>2, <2>3, <2>4 DEF Next, vars, maps
  <1>2. ASSUME UNCHANGED <<maps, sent>> PROVE MapsOK'
    BY <1>2 DEF maps, MapsOK
  <1>3. ASSUME NEW n \in Nodes, NEW t \in Tx, AcceptTx(n, t) \/ ConnectBlock(n, t)
        PROVE  MapsOK'
    BY <1>2, <1>3 DEF AcceptTx, ConnectBlock
  <1>4. ASSUME NEW n \in Nodes, DisconnectTip(n) PROVE MapsOK'
    BY <1>2, <1>4 DEF DisconnectTip
  <1>5. ASSUME NEW n \in Nodes, NEW t \in Tx, Expire(n, t) PROVE MapsOK'
    BY <1>5 DEF Expire, MapsOK
  <1>6. ASSUME NEW n \in Nodes, CleanTransactionLocksList(n) PROVE MapsOK'
    <2>1. PICK S, U : /\ mapLockedInputs' = [mapLockedInputs EXCEPT ![n] = Erase(@, S)]
                      /\ mapTxLockReq' = [mapTxLockReq EXCEPT ![n] = Erase(@, U)]
      BY <1>6 DEF CleanTransactionLocksList
    <2>2. /\ IsMap(Erase(mapLockedInputs[n], S), Outpoints, Tx)
          /\ IsMap(Erase(mapTxLockReq[n], U), Tx, SUBSET Outpoints)
      BY DEF MapsOK, IsMap, Erase, Restrict
    <2>3. /\ mapTxLockReqRejected' \in [Nodes -> SUBSET Tx]
          /\ mapTxLockVote' \in [Nodes -> SUBSET (Masternodes \X Tx)]
          /\ sent' = sent
      BY <1>6 DEF CleanTransactionLocksList, MapsOK
    <2>4. QED
      BY <2>1, <2>2, <2>3 DEF MapsOK
  <1>7. ASSUME NEW n \in Nodes, Restart(n) PROVE MapsOK'
    BY <1>7 DEF Restart, MapsOK, IsMap, Empty
  <1>8. ASSUME UNCHANGED vars PROVE MapsOK'
    BY <1>2, <1>8 DEF vars
  <1>9. MapsOK'
    BY <1>3, <1>4, <1>5, <1>6, <1>7, <1>8, RequestMaps, VoteMaps DEF Next
  <1>10. QED
    BY <1>1, <1>9

-----------------------------------------------------------------------------
(* Votes. *)

\* A step that sends a new vote sends it for a transaction that the memory
\* pool of the voter has just accepted.
LEMMA NewVoteSent ==
    ASSUME MapsOK, [Next]_vars, NEW v \in sent', v \notin sent
    PROVE  /\ v.mn \in Nodes /\ v.tx \in Tx
           /\ AcceptToMemoryPool(v.mn, v.tx)
           /\ mempool' = [mempool EXCEPT ![v.mn] = @ \cup {v.tx}]
           /\ \A u \in sent' : u \in sent \/ u = v
  <1>1. PICK n \in Nodes, t \in Tx : \E h \in {0, HeightOf[t]} : IxAccepted(n, t, h)
    <2>1. ASSUME NEW n \in Nodes, NEW w \in Votes, Vote(n, w) PROVE sent' = sent
      BY <2>1 DEF Vote, VoteIgnored, VoteCounted, VoteConflicts, VoteCompletes, NewGoodVote, NewVote
    <2>2. ASSUME NEW n \in Nodes, NEW t \in Tx,
                 AcceptTx(n, t) \/ ConnectBlock(n, t) \/ Expire(n, t)
          PROVE  sent' = sent
      BY <2>2 DEF AcceptTx, ConnectBlock, Expire
    <2>3. ASSUME NEW n \in Nodes, DisconnectTip(n) \/ CleanTransactionLocksList(n) \/ Restart(n)
          PROVE  sent' = sent
      BY <2>3 DEF DisconnectTip, CleanTransactionLocksList, Restart
    <2>4. ASSUME NEW n \in Nodes, NEW t \in Tx, NEW h, Request(n, t, h), ~IxAccepted(n, t, h)
          PROVE  sent' = sent
      BY <2>4 DEF Request, RelayWalletTransaction, IxRejected, IxFindsLock, IxConflicts, IxRefused
    <2>5. sent' # sent
      OBVIOUS
    <2>6. PICK n \in Nodes, t \in Tx : \E h \in {0, HeightOf[t]} : Request(n, t, h)
      BY <2>1, <2>2, <2>3, <2>5 DEF Next, vars
    <2>7. QED
      BY <2>4, <2>5, <2>6
  <1>2. PICK h \in {0, HeightOf[t]} : IxAccepted(n, t, h)
    BY <1>1
  <1>3. sent' = sent \cup {[mn |-> n, tx |-> t, nBlockHeight |-> h]}
    BY <1>2 DEF IxAccepted, DoConsensusVote
  <1>4. v = [mn |-> n, tx |-> t, nBlockHeight |-> h]
    BY <1>3
  <1>5. QED
    BY <1>2, <1>3, <1>4 DEF IxAccepted

\* Every step keeps VotesKept and OneVote.
LEMMA VotesStep ==
    ASSUME TypeOK, VotesKept, OneVote, [Next]_vars
    PROVE  VotesKept' /\ OneVote'
  <1>1. PoolOK /\ MapsOK /\ Steady \subseteq Nodes
    BY TypeParts, SwiftAssumption
  <1>2. /\ PoolOK'
        /\ \A m \in Nodes : seen[m] \subseteq seen'[m]
        /\ \A m \in Steady : \A t \in mempool[m] : Kept(m, t)
    BY PoolStep
  <1>3. \A m \in Steady : \A t : Spoilt(m, t) => Spoilt(m, t)'
    BY <1>1, <1>2 DEF Spoilt
  <1>4. VotesKept'
    <2> SUFFICES ASSUME NEW v \in sent', v.mn \in Steady
                 PROVE  v.tx \in mempool'[v.mn] \cup seen'[v.mn] \/ Spoilt(v.mn, v.tx)'
      BY DEF VotesKept
    <2>1. CASE v \in sent
      BY <1>1, <1>2, <1>3, <2>1 DEF VotesKept, Kept, Spoilt
    <2>2. CASE v \notin sent
      BY <1>1, <2>2, NewVoteSent DEF PoolOK
    <2>3. QED
      BY <2>1, <2>2
  <1>5. ASSUME NEW v \in sent', NEW u \in sent, v \notin sent,
               v.mn \in Steady, u.mn = v.mn, u.tx \in Conflicts(v.tx)
        PROVE  Spoilt(v.mn, v.tx)' \/ Spoilt(v.mn, u.tx)'
    <2>1. AcceptToMemoryPool(v.mn, v.tx)
      BY <1>1, <1>5, NewVoteSent
    <2>2. u.tx \notin mempool[v.mn]
      BY <1>5, <2>1 DEF AcceptToMemoryPool
    <2>3. u.tx \in seen[v.mn] \/ Spoilt(v.mn, u.tx)
      BY <1>5, <2>2 DEF VotesKept
    <2>4. QED
      BY <1>3, <1>5, <2>3 DEF Spoilt
  <1>6. ASSUME NEW t \in Tx, NEW u \in Conflicts(t) PROVE t \in Conflicts(u) /\ u \in Tx /\ u # t
    BY DEF Conflicts
  <1>7. OneVote'
    <2> SUFFICES ASSUME NEW v \in sent', NEW u \in sent',
                        v.mn \in Steady, u.mn = v.mn, u.tx \in Conflicts(v.tx)
                 PROVE  Spoilt(v.mn, v.tx)' \/ Spoilt(v.mn, u.tx)'
      BY DEF OneVote
    <2>1. v.tx \in Tx
      BY <1>1, NewVoteSent DEF MapsOK, Votes
    <2>2. CASE v \in sent /\ u \in sent
      BY <1>3, <2>2 DEF OneVote
    <2>3. CASE v \notin sent /\ u \in sent
      BY <1>5, <2>3
    <2>4. CASE v \in sent /\ u \notin sent
      BY <1>5, <1>6, <2>1, <2>4
    <2>5. CASE v \notin sent /\ u \notin sent
      <3>1. u = v
        BY <1>1, <2>5, NewVoteSent
      <3>2. QED
        BY <1>6, <2>1, <3>1
    <2>6. QED
      BY <2>2, <2>3, <2>4, <2>5
  <1>8. QED
    BY <1>4, <1>7

-----------------------------------------------------------------------------
(* Quorums. *)

\* Two sets of R voters meet in a steady one.
LEMMA QuorumsIntersect ==
    ASSUME NEW Q, IsFiniteSet(Q), NEW R \in Nat,
           Cardinality(Q \ Steady) + Cardinality(Q) < 2 * R,
           NEW A \in SUBSET Q, NEW B \in SUBSET Q, Cardinality(A) >= R, Cardinality(B) >= R
    PROVE  \E m \in A \cap B : m \in Steady
  <1>1. /\ IsFiniteSet(A) /\ IsFiniteSet(B) /\ IsFiniteSet(Q \ Steady)
        /\ A \cup B \in SUBSET Q
    BY FS_Subset
  <1>2. /\ IsFiniteSet(A \cup B) /\ Cardinality(A \cup B) =< Cardinality(Q)
    BY <1>1, FS_Subset
  <1>3. Cardinality(A \cup B) = Cardinality(A) + Cardinality(B) - Cardinality(A \cap B)
    BY <1>1, FS_Union
  <1>4. IsFiniteSet(A \cap B)
    BY <1>1, FS_Intersection
  <1>5. /\ Cardinality(A) \in Nat /\ Cardinality(B) \in Nat /\ Cardinality(Q) \in Nat
        /\ Cardinality(A \cap B) \in Nat /\ Cardinality(Q \ Steady) \in Nat
        /\ Cardinality(A \cup B) \in Nat
    BY <1>1, <1>2, <1>4, FS_CardinalityType
  <1>6. Cardinality(A \cap B) > Cardinality(Q \ Steady)
    BY <1>2, <1>3, <1>5
  <1>7. ASSUME A \cap B \in SUBSET (Q \ Steady) PROVE FALSE
    BY <1>1, <1>5, <1>6, <1>7, FS_Subset
  <1>8. QED
    BY <1>7

\* A has as many masternodes as required; those that run the code sent a vote of
\* S for t.
Backed(A, t, S) ==
    /\ Cardinality(A) >= SWIFTTX_SIGNATURES_REQUIRED
    /\ \A m \in A : m \in Nodes => \E v \in S : v.mn = m /\ v.tx = t

\* The masternodes whose votes CountSignatures counts in a good complete lock
\* are at least as many as required, and all of them are ranked first.
LEMMA CompleteQuorum ==
    ASSUME NEW n, NEW lock, NEW t \in Tx, NEW known, NEW S, GoodLock(n, lock, t, known, S),
           IsComplete(lock)
    PROVE  \E A \in SUBSET Quorum[n][HeightOf[t]] : Backed(A, t, S)
  <1> DEFINE votes == lock.vecConsensusVotes
             D == {i \in DOMAIN votes : votes[i].nBlockHeight = lock.nBlockHeight}
             A == {votes[i].mn : i \in D}
             f == [i \in D |-> votes[i].mn]
  <1>1. lock.nBlockHeight = HeightOf[t] /\ HeightOf[t] # 0
    BY SwiftAssumption DEF GoodLock, IsComplete
  <1>2. votes \in Seq(Votes)
    BY DEF GoodLock, Locks
  <1>3. IsFiniteSet(D)
    <2>1. Len(votes) \in Nat /\ DOMAIN votes = 1 .. Len(votes)
      BY <1>2
    <2>2. IsFiniteSet(1 .. Len(votes))
      BY <2>1, FS_Interval
    <2>3. QED
      BY <2>1, <2>2, FS_Subset
  <1>4. f \in Bijection(D, A)
    BY DEF GoodLock, Bijection, Injection, Surjection, IsInjective
  <1>5. Cardinality(A) = Cardinality(D)
    BY <1>3, <1>4, FS_Bijection DEF ExistsBijection
  <1>6. Cardinality(A) >= SWIFTTX_SIGNATURES_REQUIRED
    BY <1>5 DEF IsComplete, CountSignatures
  <1>7. \A m \in A : m \in Quorum[n][HeightOf[t]]
                    /\ (m \in Nodes => \E v \in S : v.mn = m /\ v.tx = t)
    <2> SUFFICES ASSUME NEW i \in D
                 PROVE  /\ votes[i].mn \in Quorum[n][HeightOf[t]]
                        /\ votes[i].mn \in Nodes => \E v \in S : v.mn = votes[i].mn /\ v.tx = t
      OBVIOUS
    <2>1. GoodVote(n, votes[i], t, known, S) /\ votes[i].nBlockHeight = HeightOf[t]
      BY <1>1 DEF GoodLock
    <2>2. QED
      BY <1>1, <2>1 DEF GoodVote, RankedFirst
  <1>8. QED
    BY <1>6, <1>7 DEF Backed

-----------------------------------------------------------------------------
(* Theorems. *)

\* The initial maps are empty and satisfy the inductive invariant.
LEMMA InitInv == Init => SwiftInv
  <1> SUFFICES ASSUME Init PROVE SwiftInv
    OBVIOUS
  <1>1. TypeOK
    BY DEF Init, TypeOK, IsMap, Empty
  <1>2. LocksGood /\ VotesKept /\ OneVote
    BY DEF Init, LocksGood, GoodLocks, Empty, VotesKept, OneVote
  <1>3. QED
    BY <1>1, <1>2 DEF SwiftInv

\* Every step of every node keeps the inductive invariant.
LEMMA StepInv == SwiftInv /\ [Next]_vars => SwiftInv'
  <1> SUFFICES ASSUME SwiftInv, [Next]_vars PROVE SwiftInv'
    OBVIOUS
  <1>1. TypeOK /\ LocksGood /\ VotesKept /\ OneVote
    BY DEF SwiftInv
  <1>2. LocksGood'
    BY <1>1, LocksStep
  <1>3. PoolOK' /\ MapsOK' /\ DOMAIN mapTxLocks' = Nodes
    BY <1>1, PoolStep, MapsStep, TypeParts
  <1>4. TypeOK'
    BY <1>2, <1>3 DEF TypeOK, PoolOK, MapsOK, LocksGood, GoodLocks, GoodLock, IsMap
  <1>5. VotesKept' /\ OneVote'
    BY <1>1, VotesStep
  <1>6. QED
    BY <1>2, <1>4, <1>5 DEF SwiftInv

\* The inductive invariant holds in every behaviour.
THEOREM SwiftInvariant == Spec => []SwiftInv
  BY InitInv, StepInv, PTL DEF Spec

\* Every map keeps its type, through requests, votes, blocks, expiry and
\* restarts.
THEOREM SwiftTypes == Spec => []TypeOK
  <1>1. SwiftInv => TypeOK
    BY DEF SwiftInv
  <1>2. QED
    BY <1>1, SwiftInvariant, PTL

\* AddSignature never counts a masternode twice.
THEOREM CountedOnce == Spec => []VoteCountedOnce
  <1>1. SwiftInv => VoteCountedOnce
    BY DEF SwiftInv, LocksGood, GoodLocks, GoodLock, VoteCountedOnce
  <1>2. QED
    BY <1>1, SwiftInvariant, PTL

\* If what any two nodes rank first meets in steady masternodes, two conflicting
\* transactions that are voted on at the same height are not both locked by anyone, unless the
\* chain of a steady masternode had a double spend of one of them.
THEOREM LocksExclusive == QuorumsMeet => (Spec => []NoTwoLocks)
  <1> SUFFICES ASSUME QuorumsMeet PROVE Spec => []NoTwoLocks
    OBVIOUS
  <1>1. SwiftInv => NoTwoLocks
    <2> SUFFICES ASSUME SwiftInv,
                        NEW a \in Nodes, NEW b \in Nodes, NEW t \in Tx, NEW u \in Tx,
                        u \in Conflicts(t), HeightOf[t] = HeightOf[u],
                        Complete(a, t), Complete(b, u)
                 PROVE  \E m \in Steady : Spoilt(m, t) \/ Spoilt(m, u)
      BY DEF NoTwoLocks
    <2> DEFINE Q == Quorum[a][HeightOf[t]] \cup Quorum[b][HeightOf[t]]
    <2>1. /\ GoodLock(a, mapTxLocks[a][t], t, mapTxLockVote[a], sent)
          /\ GoodLock(b, mapTxLocks[b][u], u, mapTxLockVote[b], sent)
          /\ IsComplete(mapTxLocks[a][t]) /\ IsComplete(mapTxLocks[b][u])
      BY DEF Complete, SwiftInv, LocksGood, GoodLocks
    <2>2. PICK A \in SUBSET Q : Backed(A, t, sent)
      BY <2>1, CompleteQuorum
    <2>3. PICK B \in SUBSET Q : Backed(B, u, sent)
      BY <2>1, CompleteQuorum
    <2>4. HeightOf[t] \in Heights /\ Steady \subseteq Nodes
      BY SwiftAssumption
    <2>5. /\ IsFiniteSet(Q)
          /\ Cardinality(Q \ Steady) + Cardinality(Q) < 2 * SWIFTTX_SIGNATURES_REQUIRED
      BY <2>4, QuorumAssumption, FS_Union DEF QuorumsMeet
    <2>6. SWIFTTX_SIGNATURES_REQUIRED \in Nat
      BY SwiftAssumption
    <2> HIDE DEF Q
    <2>7. PICK m \in A \cap B : m \in Steady
      BY <2>2, <2>3, <2>5, <2>6, QuorumsIntersect DEF Backed
    <2>8. PICK v \in sent : v.mn = m /\ v.tx = t
      BY <2>2, <2>4, <2>7 DEF Backed
    <2>9. PICK w \in sent : w.mn = m /\ w.tx = u
      BY <2>3, <2>4, <2>7 DEF Backed
    <2>10. Spoilt(m, t) \/ Spoilt(m, u)
      BY <2>7, <2>8, <2>9 DEF SwiftInv, OneVote
    <2>11. QED
      BY <2>7, <2>10
  <1>2. QED
    BY <1>1, SwiftInvariant, PTL

=============================================================================
