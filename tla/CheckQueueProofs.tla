--------------------------- MODULE CheckQueueProofs ---------------------------
(***************************************************************************)
(* The script check queue keeps its promise for every number of workers    *)
(* and checks and every batch size.                                        *)
(*                                                                         *)
(* The invariant takes the counters, the places and the batches as         *)
(* parameters: a thread in the middle of a critical section is where a     *)
(* thread that enters Loop is, with what it has done so far subtracted.    *)
(***************************************************************************)
EXTENDS CheckQueue, FiniteSetTheorems, TLAPS

-----------------------------------------------------------------------------
(* The inductive invariant. *)

Busy(p) == {t \in Threads : p[t] \in {"work", "done"}}
Resting(p) == {t \in Threads : p[t] \in {"wait", "woken"}}
InHand(v) == queue \cup UNION {v[t] : t \in Threads}
Failures == added \cap failing

Types(idle, total, todo, ok, p, v) ==
    /\ queue \subseteq Checks
    /\ idle \in Nat /\ total \in Nat /\ todo \in Nat
    /\ ok \in BOOLEAN
    /\ p \in [Threads -> Places]
    /\ v \in [Threads -> SUBSET Checks]
    /\ fOk \in [Threads -> BOOLEAN]
    /\ control \in {"none", "open", "asked", "dropped", "terminated"}
    /\ added \subseteq Checks
    /\ failing \subseteq Checks
    /\ verdict \in {"none", "good", "bad"}
    /\ interrupted \subseteq Threads

\* Every check is in one place, a thread is busy exactly with a batch, and
\* nTodo counts the checks that are in hand.
Shared(todo, p, v) ==
    /\ \A t \in Threads : queue \cap v[t] = {}
    /\ \A t, u \in Threads : t # u => v[t] \cap v[u] = {}
    /\ todo = Cardinality(InHand(v))
    /\ InHand(v) \subseteq added
    /\ \A t \in Threads : v[t] # {} <=> t \in Busy(p)

\* A thread in Loop is idle or busy; nIdle may also count the dead.
Counts(idle, total, p) ==
    /\ total = idle + Cardinality(Busy(p))
    /\ idle >= Cardinality(Resting(p))

\* A check that fails is still in hand, or has been noticed.
Noticed(ok, p, v) ==
    /\ control = "none" => ok /\ InHand(v) = {}
    /\ control # "none" =>
          /\ ok => Failures \subseteq InHand(v)
          /\ ~ok => Failures # {}
          /\ \A t \in Busy(p) : ~fOk[t] => Failures # {}
          /\ \A t \in Threads : p[t] = "done" /\ v[t] \cap failing # {} => ~fOk[t]

Seats(p) ==
    /\ control \in {"none", "open"} => p[Master] = "out"
    /\ control \in {"asked", "dropped"} =>
          p[Master] \in {"enter", "work", "done", "wait", "woken"}
    /\ \A w \in Workers : p[w] # "out"

Sound(idle, total, todo, ok, p, v) ==
    Shared(todo, p, v) /\ Counts(idle, total, p) /\ Noticed(ok, p, v) /\ Seats(p)

QueueInv ==
    /\ Types(nIdle, nTotal, nTodo, fAllOk, pc, vChecks)
    /\ IF control = "terminated" THEN \A t \in Threads : pc[t] = "dead"
       ELSE Sound(nIdle, nTotal, nTodo, fAllOk, pc, vChecks)

LEMMA Finite ==
    /\ \A S \in SUBSET Checks : IsFiniteSet(S) /\ Cardinality(S) \in Nat
    /\ \A S \in SUBSET Threads : IsFiniteSet(S) /\ Cardinality(S) \in Nat
<1>1. IsFiniteSet(Threads)
  BY QueueAssumption, FS_AddElement DEF Threads
<1> QED
  BY <1>1, QueueAssumption, FS_Subset, FS_CardinalityType

LEMMA InHandFacts ==
    ASSUME NEW v \in [Threads -> SUBSET Checks], queue \subseteq Checks
    PROVE  /\ InHand(v) \in SUBSET Checks
           /\ IsFiniteSet(InHand(v)) /\ Cardinality(InHand(v)) \in Nat
           /\ \A c : c \in InHand(v) <=> c \in queue \/ \E t \in Threads : c \in v[t]
           /\ Cardinality(InHand(v)) = 0 <=> InHand(v) = {}
<1>1. InHand(v) \in SUBSET Checks
  BY DEF InHand
<1>2. IsFiniteSet(InHand(v)) /\ Cardinality(InHand(v)) \in Nat
  BY <1>1, Finite
<1>3. Cardinality(InHand(v)) = 0 <=> InHand(v) = {}
  BY <1>2, FS_EmptySet
<1> QED
  BY <1>1, <1>2, <1>3 DEF InHand

LEMMA PlaceFacts ==
    ASSUME NEW p
    PROVE  /\ IsFiniteSet(Busy(p)) /\ Cardinality(Busy(p)) \in Nat
           /\ IsFiniteSet(Resting(p)) /\ Cardinality(Resting(p)) \in Nat
<1>1. Busy(p) \in SUBSET Threads /\ Resting(p) \in SUBSET Threads
  BY DEF Busy, Resting
<1> QED
  BY <1>1, Finite

LEMMA MasterIsThread == Master \in Threads /\ Workers = Threads \ {Master}
BY QueueAssumption DEF Threads

-----------------------------------------------------------------------------
(* The first half of a critical section leaves the thread at the entrance. *)

LEMMA EnterHalf ==
    ASSUME QueueInv, NEW t \in Threads, pc[t] = "enter"
    PROVE  /\ control # "terminated"
           /\ Types(nIdle, nTotal, nTodo, fAllOk, pc, vChecks)
           /\ Sound(nIdle, nTotal, nTodo, fAllOk, pc, vChecks)
           /\ [pc EXCEPT ![t] = "enter"] = pc
           /\ [vChecks EXCEPT ![t] = {}] = vChecks
<1>1. control # "terminated"
  BY DEF QueueInv
<1>2. /\ Types(nIdle, nTotal, nTodo, fAllOk, pc, vChecks)
      /\ Sound(nIdle, nTotal, nTodo, fAllOk, pc, vChecks)
  BY <1>1 DEF QueueInv
<1>3. pc \in [Threads -> Places] /\ vChecks \in [Threads -> SUBSET Checks]
  BY <1>2 DEF Types
<1>4. vChecks[t] = {}
  BY <1>2 DEF Sound, Shared, Busy
<1> QED
  BY <1>1, <1>2, <1>3, <1>4

LEMMA WakeHalf ==
    ASSUME QueueInv, NEW t \in Threads, pc[t] = "woken"
    PROVE  LET p == [pc EXCEPT ![t] = "enter"]
               v == [vChecks EXCEPT ![t] = {}]
           IN  /\ control # "terminated"
               /\ Types(nIdle - 1, nTotal - 1, nTodo, fAllOk, p, v)
               /\ Sound(nIdle - 1, nTotal - 1, nTodo, fAllOk, p, v)
<1> DEFINE p == [pc EXCEPT ![t] = "enter"]
           v == [vChecks EXCEPT ![t] = {}]
<1>1. control # "terminated"
  BY DEF QueueInv
<1>2. /\ Types(nIdle, nTotal, nTodo, fAllOk, pc, vChecks)
      /\ Sound(nIdle, nTotal, nTodo, fAllOk, pc, vChecks)
  BY <1>1 DEF QueueInv
<1>3. /\ pc \in [Threads -> Places] /\ vChecks \in [Threads -> SUBSET Checks]
      /\ nIdle \in Nat /\ nTotal \in Nat
  BY <1>2 DEF Types
<1>4. v = vChecks
  BY <1>2, <1>3 DEF Sound, Shared, Busy
<1>5. p \in [Threads -> Places] /\ p[t] = "enter" /\ \A u \in Threads \ {t} : p[u] = pc[u]
  BY <1>3 DEF Places
<1> HIDE DEF p, v
<1>6. Busy(p) = Busy(pc) /\ Resting(p) = Resting(pc) \ {t} /\ t \in Resting(pc)
  BY <1>5 DEF Busy, Resting
<1>7. Cardinality(Resting(p)) = Cardinality(Resting(pc)) - 1
  BY <1>6, PlaceFacts, FS_RemoveElement
<1>8. /\ nTotal = nIdle + Cardinality(Busy(pc)) /\ nIdle >= Cardinality(Resting(pc))
  BY <1>2 DEF Sound, Counts
<1>9. /\ Cardinality(Busy(pc)) \in Nat
      /\ Cardinality(Resting(p)) \in Nat /\ Cardinality(Resting(pc)) \in Nat
  BY PlaceFacts
<1>10. nIdle - 1 \in Nat /\ nTotal - 1 \in Nat /\ Counts(nIdle - 1, nTotal - 1, p)
  BY <1>3, <1>6, <1>7, <1>8, <1>9 DEF Counts
<1>11. Types(nIdle - 1, nTotal - 1, nTodo, fAllOk, p, v)
  BY <1>2, <1>4, <1>5, <1>10 DEF Types
<1>12. Shared(nTodo, p, v)
  BY <1>2, <1>4, <1>6 DEF Sound, Shared
<1>13. Noticed(fAllOk, p, v)
  BY <1>2, <1>4, <1>5, <1>6 DEF Sound, Noticed
<1>14. Seats(p)
  BY <1>2, <1>5, MasterIsThread DEF Sound, Seats
<1> QED
  BY <1>1, <1>10, <1>11, <1>12, <1>13, <1>14 DEF Sound, p, v

LEMMA CleanHalf ==
    ASSUME QueueInv, NEW t \in Threads, pc[t] = "done"
    PROVE  LET todo == nTodo - Cardinality(vChecks[t])
               p == [NotifyMaster(t, todo) EXCEPT ![t] = "enter"]
               v == [vChecks EXCEPT ![t] = {}]
           IN  /\ control # "terminated"
               /\ NotifyMaster(t, todo) \in [Threads -> Places]
               /\ Types(nIdle, nTotal - 1, todo, fAllOk /\ fOk[t], p, v)
               /\ Sound(nIdle, nTotal - 1, todo, fAllOk /\ fOk[t], p, v)
<1> DEFINE todo == nTodo - Cardinality(vChecks[t])
           p == [NotifyMaster(t, todo) EXCEPT ![t] = "enter"]
           v == [vChecks EXCEPT ![t] = {}]
           ok == fAllOk /\ fOk[t]
<1>1. control # "terminated"
  BY DEF QueueInv
<1>2. /\ Types(nIdle, nTotal, nTodo, fAllOk, pc, vChecks)
      /\ Sound(nIdle, nTotal, nTodo, fAllOk, pc, vChecks)
  BY <1>1 DEF QueueInv
<1>3. /\ pc \in [Threads -> Places] /\ vChecks \in [Threads -> SUBSET Checks]
      /\ nIdle \in Nat /\ nTotal \in Nat /\ nTodo \in Nat /\ queue \subseteq Checks
      /\ fAllOk \in BOOLEAN /\ fOk[t] \in BOOLEAN
  BY <1>2 DEF Types
<1>4. /\ NotifyMaster(t, todo) \in [Threads -> Places]
      /\ \A u \in Threads \ {t} :
            NotifyMaster(t, todo)[u] = pc[u] \/ (pc[u] = "wait" /\ NotifyMaster(t, todo)[u] = "woken")
  BY <1>3, MasterIsThread DEF NotifyMaster, Places
<1>5. /\ p \in [Threads -> Places] /\ p[t] = "enter"
      /\ \A u \in Threads \ {t} : p[u] = pc[u] \/ (pc[u] = "wait" /\ p[u] = "woken")
  BY <1>4 DEF Places
<1>6. /\ v \in [Threads -> SUBSET Checks] /\ v[t] = {}
      /\ \A u \in Threads \ {t} : v[u] = vChecks[u]
  BY <1>3
<1> HIDE DEF p, v
<1>7. Busy(p) = Busy(pc) \ {t} /\ t \in Busy(pc) /\ Resting(p) = Resting(pc)
  BY <1>5 DEF Busy, Resting
<1>8. Cardinality(Busy(p)) = Cardinality(Busy(pc)) - 1
  BY <1>7, PlaceFacts, FS_RemoveElement
<1>9. nTotal - 1 \in Nat /\ Counts(nIdle, nTotal - 1, p)
  <2>1. nTotal = nIdle + Cardinality(Busy(pc)) /\ nIdle >= Cardinality(Resting(pc))
    BY <1>2 DEF Sound, Counts
  <2>2. Cardinality(Busy(p)) \in Nat /\ Cardinality(Busy(pc)) \in Nat
    BY PlaceFacts
  <2> QED
    BY <1>3, <1>7, <1>8, <2>1, <2>2 DEF Counts
<1>10. /\ \A u \in Threads : queue \cap vChecks[u] = {}
       /\ \A x, u \in Threads : x # u => vChecks[x] \cap vChecks[u] = {}
       /\ nTodo = Cardinality(InHand(vChecks)) /\ InHand(vChecks) \subseteq added
       /\ \A u \in Threads : vChecks[u] # {} <=> u \in Busy(pc)
  BY <1>2 DEF Sound, Shared
<1>11. /\ \A c : c \in InHand(vChecks) <=> c \in queue \/ \E u \in Threads : c \in vChecks[u]
       /\ \A c : c \in InHand(v) <=> c \in queue \/ \E u \in Threads : c \in v[u]
       /\ IsFiniteSet(InHand(v)) /\ Cardinality(InHand(v)) \in Nat
  BY <1>3, <1>6, InHandFacts
<1>12. InHand(vChecks) = InHand(v) \cup vChecks[t] /\ InHand(v) \cap vChecks[t] = {}
  BY <1>6, <1>10, <1>11
<1>13. todo = Cardinality(InHand(v)) /\ todo \in Nat
  <2>1. IsFiniteSet(vChecks[t]) /\ Cardinality(vChecks[t]) \in Nat
    BY <1>3, Finite
  <2>2. Cardinality(InHand(vChecks)) = Cardinality(InHand(v)) + Cardinality(vChecks[t])
                                       - Cardinality(InHand(v) \cap vChecks[t])
    BY <1>11, <1>12, <2>1, FS_Union
  <2>3. Cardinality(InHand(v) \cap vChecks[t]) = 0
    BY <1>12, FS_EmptySet
  <2> QED
    BY <1>10, <1>11, <2>1, <2>2, <2>3
<1> HIDE DEF todo
<1>14. Shared(todo, p, v)
  BY <1>6, <1>7, <1>10, <1>12, <1>13 DEF Shared
<1>15. Noticed(ok, p, v)
  <2>1. control # "none"
    BY <1>2, <1>7, <1>10, <1>11 DEF Sound, Noticed
  <2>2. /\ fAllOk => Failures \subseteq InHand(vChecks)
        /\ ~fAllOk => Failures # {}
        /\ \A u \in Busy(pc) : ~fOk[u] => Failures # {}
        /\ \A u \in Threads : pc[u] = "done" /\ vChecks[u] \cap failing # {} => ~fOk[u]
    BY <1>2, <2>1 DEF Sound, Noticed
  <2>3. ok => Failures \subseteq InHand(v)
    BY <1>12, <2>2 DEF Failures
  <2>4. ~ok => Failures # {}
    BY <1>3, <1>7, <2>2
  <2>5. \A u \in Busy(p) : ~fOk[u] => Failures # {}
    BY <1>7, <2>2
  <2>6. \A u \in Threads : p[u] = "done" /\ v[u] \cap failing # {} => ~fOk[u]
    BY <1>5, <1>6, <2>2
  <2> QED
    BY <2>1, <2>3, <2>4, <2>5, <2>6 DEF Noticed
<1>16. Seats(p)
  <2>1. \A u \in Threads \ {t} : pc[u] \in {"enter", "work", "done", "wait", "woken"} =>
                                  p[u] \in {"enter", "work", "done", "wait", "woken"}
    BY <1>5
  <2> QED
    BY <1>2, <1>5, <2>1, MasterIsThread DEF Sound, Seats
<1>17. Types(nIdle, nTotal - 1, todo, ok, p, v)
  BY <1>2, <1>3, <1>5, <1>6, <1>9, <1>13 DEF Types
<1> QED
  BY <1>1, <1>4, <1>9, <1>14, <1>15, <1>16, <1>17 DEF Sound, p, v, todo

-----------------------------------------------------------------------------
(* The second half: return, sleep or take a batch. *)

\* A thread at the entrance, and the same with its batch not yet cleared.
LEMMA ProceedKeeps ==
    ASSUME NEW t \in Threads, NEW total, NEW idle, NEW todo, NEW ok,
           NEW pc1 \in [Threads -> Places],
           control # "terminated",
           vChecks \in [Threads -> SUBSET Checks],
           total - 1 \in Nat, total \in Int,
           Types(idle, total - 1, todo, ok, [pc1 EXCEPT ![t] = "enter"], [vChecks EXCEPT ![t] = {}]),
           Sound(idle, total - 1, todo, ok, [pc1 EXCEPT ![t] = "enter"], [vChecks EXCEPT ![t] = {}]),
           Proceed(t, total, idle, todo, ok, pc1),
           UNCHANGED interrupted
    PROVE  QueueInv' /\ [Promise!Next]_(Promise!vars)
<1> DEFINE p == [pc1 EXCEPT ![t] = "enter"]
           v == [vChecks EXCEPT ![t] = {}]
<1>1. /\ v \in [Threads -> SUBSET Checks] /\ v[t] = {}
      /\ \A u \in Threads \ {t} : v[u] = vChecks[u]
      /\ p \in [Threads -> Places] /\ p[t] = "enter"
      /\ \A u \in Threads \ {t} : p[u] = pc1[u]
  BY DEF Places
<1>2. Types(idle, total - 1, todo, ok, p, v) /\ Sound(idle, total - 1, todo, ok, p, v)
  OBVIOUS
<1> HIDE DEF p, v
<1>3. /\ queue \subseteq Checks /\ idle \in Nat /\ todo \in Nat /\ ok \in BOOLEAN
      /\ fOk \in [Threads -> BOOLEAN] /\ added \subseteq Checks /\ failing \subseteq Checks
      /\ control \in {"none", "open", "asked", "dropped"}
  BY <1>2 DEF Types
<1>4. /\ \A u \in Threads : queue \cap v[u] = {}
      /\ \A x, u \in Threads : x # u => v[x] \cap v[u] = {}
      /\ todo = Cardinality(InHand(v)) /\ InHand(v) \subseteq added
      /\ \A u \in Threads : v[u] # {} <=> u \in Busy(p)
  BY <1>2 DEF Sound, Shared
<1>5. /\ \A c : c \in InHand(v) <=> c \in queue \/ \E u \in Threads : c \in v[u]
      /\ Cardinality(InHand(v)) = 0 <=> InHand(v) = {}
  BY <1>1, <1>3, InHandFacts
<1>6. total - 1 = idle + Cardinality(Busy(p)) /\ idle >= Cardinality(Resting(p))
  BY <1>2 DEF Sound, Counts
<1>7. /\ IsFiniteSet(Busy(p)) /\ Cardinality(Busy(p)) \in Nat
      /\ IsFiniteSet(Resting(p)) /\ Cardinality(Resting(p)) \in Nat
  BY PlaceFacts
<1>8. CASE Return(t, total, idle, todo, ok, pc1)
  <2>1. /\ queue = {} /\ t = Master /\ todo = 0
        /\ pc' = [pc1 EXCEPT ![t] = "out"]
        /\ nTotal' = total - 1 /\ fAllOk' = TRUE /\ control' = "none"
        /\ verdict' = IF control # "asked" THEN verdict ELSE IF ok THEN "good" ELSE "bad"
        /\ nIdle' = idle /\ nTodo' = todo /\ vChecks' = v
        /\ UNCHANGED <<queue, fOk, added, failing>>
    BY <1>8 DEF Return, v
  <2>2. /\ pc' \in [Threads -> Places] /\ pc'[t] = "out"
        /\ \A u \in Threads \ {t} : pc'[u] = p[u]
    BY <1>1, <2>1 DEF Places
  <2>3. Busy(pc') = Busy(p) /\ Resting(pc') = Resting(p)
    BY <1>1, <2>2 DEF Busy, Resting
  <2>4. InHand(v) = {} /\ InHand(vChecks)' = {}
    BY <1>4, <1>5, <2>1 DEF InHand
  <2>5. Types(nIdle, nTotal, nTodo, fAllOk, pc, vChecks)'
    BY <1>1, <1>2, <2>1, <2>2 DEF Types
  <2>6. Shared(nTodo, pc, vChecks)'
    BY <1>1, <1>4, <1>5, <2>1, <2>3, <2>4 DEF Shared
  <2>7. Counts(nIdle, nTotal, pc)'
    BY <1>6, <2>1, <2>3 DEF Counts
  <2>8. Noticed(fAllOk, pc, vChecks)'
    BY <2>1, <2>4 DEF Noticed
  <2>9. Seats(pc)'
    BY <1>2, <2>1, <2>2, MasterIsThread DEF Sound, Seats
  <2>10. QueueInv'
    BY <2>1, <2>5, <2>6, <2>7, <2>8, <2>9 DEF QueueInv, Sound
  <2>11. control \in {"asked", "dropped"}
    BY <1>1, <1>2, <1>3, <2>1 DEF Sound, Seats
  <2>12. ok <=> Failures = {}
    BY <1>2, <1>3, <2>4, <2>11 DEF Sound, Noticed
  <2>13. Promise!Answer \/ Promise!Close
    BY <2>1, <2>11, <2>12 DEF Failures, Promise!Answer, Promise!Close
  <2> QED
    BY <2>10, <2>13 DEF Promise!Next
<1>9. CASE Sleep(t, total, idle, todo, ok, pc1)
  <2>1. /\ pc' = [pc1 EXCEPT ![t] = "wait"] /\ nIdle' = idle + 1
        /\ nTotal' = total /\ nTodo' = todo /\ fAllOk' = ok /\ vChecks' = v
        /\ UNCHANGED <<queue, fOk, control, added, failing, verdict>>
    BY <1>9 DEF Sleep, v, mvars
  <2>2. /\ pc' \in [Threads -> Places] /\ pc'[t] = "wait"
        /\ \A u \in Threads \ {t} : pc'[u] = p[u]
    BY <1>1, <2>1 DEF Places
  <2>3. Busy(pc') = Busy(p) /\ Resting(pc') = Resting(p) \cup {t} /\ t \notin Resting(p)
    BY <1>1, <2>2 DEF Busy, Resting
  <2>4. InHand(vChecks)' = InHand(v)
    BY <2>1 DEF InHand
  <2>5. total \in Nat /\ idle + 1 \in Nat
    BY <1>3
  <2>6. Types(nIdle, nTotal, nTodo, fAllOk, pc, vChecks)'
    BY <1>1, <1>2, <2>1, <2>2, <2>5 DEF Types
  <2>7. Shared(nTodo, pc, vChecks)'
    BY <1>4, <2>1, <2>3, <2>4 DEF Shared
  <2>8. Counts(nIdle, nTotal, pc)'
    <3>1. Cardinality(Resting(pc')) = Cardinality(Resting(p)) + 1
      BY <1>7, <2>3, FS_AddElement
    <3> QED
      BY <1>3, <1>6, <1>7, <2>1, <2>3, <3>1 DEF Counts
  <2>9. Noticed(fAllOk, pc, vChecks)'
    <3>1. Failures' = Failures
      BY <2>1 DEF Failures
    <3>2. \A u \in Threads : pc'[u] = "done" => p[u] = "done"
      BY <2>2
    <3> QED
      BY <1>2, <2>1, <2>3, <2>4, <3>1, <3>2 DEF Sound, Noticed
  <2>10. Seats(pc)'
    BY <1>1, <1>2, <2>1, <2>2, MasterIsThread DEF Sound, Seats
  <2>11. QueueInv'
    BY <1>3, <2>1, <2>6, <2>7, <2>8, <2>9, <2>10 DEF QueueInv, Sound
  <2> QED
    BY <2>1, <2>11 DEF Promise!vars
<1>10. ASSUME NEW batch \in SUBSET queue,
              queue # {},
              Cardinality(batch) = BatchSize(Cardinality(queue), total, idle),
              queue' = queue \ batch,
              vChecks' = [vChecks EXCEPT ![t] = batch],
              fOk' = [fOk EXCEPT ![t] = ok],
              pc' = [pc1 EXCEPT ![t] = "work"],
              nIdle' = idle, nTotal' = total, nTodo' = todo, fAllOk' = ok,
              UNCHANGED mvars
       PROVE  QueueInv' /\ UNCHANGED Promise!vars
  <2>1. UNCHANGED <<control, added, failing, verdict>>
    BY <1>10 DEF mvars
  <2>2. /\ pc' \in [Threads -> Places] /\ pc'[t] = "work"
        /\ \A u \in Threads \ {t} : pc'[u] = p[u]
    BY <1>1, <1>10 DEF Places
  <2>3. Busy(pc') = Busy(p) \cup {t} /\ Resting(pc') = Resting(p) /\ t \notin Busy(p)
    BY <1>1, <2>2 DEF Busy, Resting
  <2>4. /\ vChecks' \in [Threads -> SUBSET Checks] /\ vChecks'[t] = batch
        /\ \A u \in Threads \ {t} : vChecks'[u] = v[u]
    BY <1>1, <1>3, <1>10
  <2>5. batch # {}
    <3>1. BatchSize(Cardinality(queue), total, idle) # 0
      BY QueueAssumption DEF BatchSize
    <3> QED
      BY <1>10, <3>1, FS_EmptySet
  <2>6. InHand(vChecks)' = InHand(v)
    <3>1. \A c : c \in InHand(vChecks)' <=> c \in queue' \/ \E u \in Threads : c \in vChecks'[u]
      BY DEF InHand
    <3> QED
      BY <1>1, <1>5, <1>10, <2>4, <3>1
  <2>7. total \in Nat
    OBVIOUS
  <2>8. fOk' \in [Threads -> BOOLEAN] /\ fOk'[t] = ok /\ \A u \in Threads \ {t} : fOk'[u] = fOk[u]
    BY <1>3, <1>10
  <2>9. Types(nIdle, nTotal, nTodo, fAllOk, pc, vChecks)'
    BY <1>2, <1>10, <2>1, <2>2, <2>4, <2>7, <2>8 DEF Types
  <2>10. Shared(nTodo, pc, vChecks)'
    BY <1>4, <1>10, <2>1, <2>3, <2>4, <2>5, <2>6 DEF Shared
  <2>11. Counts(nIdle, nTotal, pc)'
    <3>1. Cardinality(Busy(pc')) = Cardinality(Busy(p)) + 1
      BY <1>7, <2>3, FS_AddElement
    <3> QED
      BY <1>3, <1>6, <1>7, <1>10, <2>3, <3>1 DEF Counts
  <2>12. Noticed(fAllOk, pc, vChecks)'
    <3>1. Failures' = Failures
      BY <2>1 DEF Failures
    <3>2. control # "none"
      BY <1>2, <1>5, <1>10 DEF Sound, Noticed
    <3>3. /\ ok => Failures \subseteq InHand(v)
          /\ ~ok => Failures # {}
          /\ \A u \in Busy(p) : ~fOk[u] => Failures # {}
          /\ \A u \in Threads : p[u] = "done" /\ v[u] \cap failing # {} => ~fOk[u]
      BY <1>2, <3>2 DEF Sound, Noticed
    <3>4. \A u \in Busy(pc') : ~fOk'[u] => Failures # {}
      <4>1. Busy(p) \subseteq Threads
        BY DEF Busy
      <4> QED
        BY <2>3, <2>8, <3>3, <4>1
    <3>5. \A u \in Threads : pc'[u] = "done" /\ vChecks'[u] \cap failing # {} => ~fOk'[u]
      BY <2>2, <2>4, <2>8, <3>3
    <3> QED
      BY <1>10, <2>1, <2>6, <3>1, <3>2, <3>3, <3>4, <3>5 DEF Noticed
  <2>13. Seats(pc)'
    BY <1>1, <1>2, <2>1, <2>2, MasterIsThread DEF Sound, Seats
  <2>14. QueueInv'
    BY <1>3, <2>1, <2>9, <2>10, <2>11, <2>12, <2>13 DEF QueueInv, Sound
  <2> QED
    BY <2>1, <2>14 DEF Promise!vars
<1> QED
  BY <1>8, <1>9, <1>10 DEF Proceed, Take

-----------------------------------------------------------------------------
(* The steps. *)

LEMMA InitInv == Init => QueueInv
<1> SUFFICES ASSUME Init PROVE QueueInv
  OBVIOUS
<1>1. Types(nIdle, nTotal, nTodo, fAllOk, pc, vChecks)
  BY DEF Init, Types, Places
<1>2. InHand(vChecks) = {} /\ Busy(pc) = {} /\ Resting(pc) = {}
  BY DEF Init, InHand, Busy, Resting
<1>3. Cardinality({}) = 0
  BY FS_EmptySet
<1>4. Shared(nTodo, pc, vChecks)
  BY <1>2, <1>3 DEF Init, Shared
<1>5. Counts(nIdle, nTotal, pc)
  BY <1>2, <1>3 DEF Init, Counts
<1>6. Noticed(fAllOk, pc, vChecks)
  BY <1>2 DEF Init, Noticed
<1>7. Seats(pc)
  BY MasterIsThread DEF Init, Seats
<1> QED
  BY <1>1, <1>4, <1>5, <1>6, <1>7 DEF QueueInv, Sound, Init

LEMMA EnterKeeps ==
    ASSUME QueueInv, NEW t \in Threads, Enter(t)
    PROVE  QueueInv' /\ [Promise!Next]_(Promise!vars)
<1>1. /\ control # "terminated"
      /\ Types(nIdle, nTotal, nTodo, fAllOk, pc, vChecks)
      /\ Sound(nIdle, nTotal, nTodo, fAllOk, pc, vChecks)
      /\ [pc EXCEPT ![t] = "enter"] = pc
      /\ [vChecks EXCEPT ![t] = {}] = vChecks
  BY EnterHalf DEF Enter
<1>2. /\ nTotal \in Nat /\ pc \in [Threads -> Places]
      /\ vChecks \in [Threads -> SUBSET Checks]
  BY <1>1 DEF Types
<1>3. (nTotal + 1) - 1 = nTotal /\ nTotal + 1 \in Int
  BY <1>2
<1>4. Proceed(t, nTotal + 1, nIdle, nTodo, fAllOk, pc) /\ UNCHANGED interrupted
  BY DEF Enter
<1> QED
  BY <1>1, <1>2, <1>3, <1>4, ProceedKeeps

LEMMA WakeKeeps ==
    ASSUME QueueInv, NEW t \in Threads, WakeUp(t)
    PROVE  QueueInv' /\ [Promise!Next]_(Promise!vars)
<1> DEFINE p == [pc EXCEPT ![t] = "enter"]
           v == [vChecks EXCEPT ![t] = {}]
<1>1. /\ control # "terminated"
      /\ Types(nIdle - 1, nTotal - 1, nTodo, fAllOk, p, v)
      /\ Sound(nIdle - 1, nTotal - 1, nTodo, fAllOk, p, v)
  BY WakeHalf DEF WakeUp
<1>2. /\ nTotal \in Int /\ pc \in [Threads -> Places]
      /\ vChecks \in [Threads -> SUBSET Checks]
  BY DEF QueueInv, Types
<1>3. nTotal - 1 \in Nat
  BY <1>1 DEF Types
<1>4. Proceed(t, nTotal, nIdle - 1, nTodo, fAllOk, pc) /\ UNCHANGED interrupted
  BY DEF WakeUp
<1> QED
  BY <1>1, <1>2, <1>3, <1>4, ProceedKeeps

LEMMA CleanKeeps ==
    ASSUME QueueInv, NEW t \in Threads, CleanUp(t)
    PROVE  QueueInv' /\ [Promise!Next]_(Promise!vars)
<1> DEFINE todo == nTodo - Cardinality(vChecks[t])
           pc1 == NotifyMaster(t, todo)
           ok == fAllOk /\ fOk[t]
           p == [pc1 EXCEPT ![t] = "enter"]
           v == [vChecks EXCEPT ![t] = {}]
<1>1. /\ control # "terminated"
      /\ pc1 \in [Threads -> Places]
      /\ Types(nIdle, nTotal - 1, todo, ok, p, v)
      /\ Sound(nIdle, nTotal - 1, todo, ok, p, v)
  BY CleanHalf DEF CleanUp
<1>2. nTotal \in Int /\ vChecks \in [Threads -> SUBSET Checks]
  BY DEF QueueInv, Types
<1>3. nTotal - 1 \in Nat
  BY <1>1 DEF Types
<1>4. Proceed(t, nTotal, nIdle, todo, ok, pc1) /\ UNCHANGED interrupted
  BY DEF CleanUp
<1> HIDE DEF todo, pc1, ok
<1> QED
  BY <1>1, <1>2, <1>3, <1>4, ProceedKeeps

\* A step that moves threads around, none of them to or from a batch.
LEMMA MoveKeeps ==
    ASSUME QueueInv, control # "terminated", control' # "terminated",
           pc' \in [Threads -> Places],
           Busy(pc') = Busy(pc), Resting(pc') \subseteq Resting(pc), Seats(pc)',
           \A t \in Threads : pc'[t] = "done" => pc[t] = "done",
           control' \in {"none", "open", "asked", "dropped"},
           control = "none" <=> control' = "none",
           interrupted' \subseteq Threads,
           UNCHANGED <<queue, nIdle, nTotal, nTodo, fAllOk, vChecks, fOk, added, failing, verdict>>
    PROVE  QueueInv'
<1>1. /\ Types(nIdle, nTotal, nTodo, fAllOk, pc, vChecks)
      /\ Sound(nIdle, nTotal, nTodo, fAllOk, pc, vChecks)
  BY DEF QueueInv
<1>2. Types(nIdle, nTotal, nTodo, fAllOk, pc, vChecks)'
  BY <1>1 DEF Types
<1>3. InHand(vChecks)' = InHand(vChecks) /\ Failures' = Failures
  BY DEF InHand, Failures
<1>4. Shared(nTodo, pc, vChecks)'
  BY <1>1, <1>3 DEF Sound, Shared
<1>5. Counts(nIdle, nTotal, pc)'
  <2>1. /\ IsFiniteSet(Resting(pc)) /\ Cardinality(Resting(pc)) \in Nat
        /\ Cardinality(Resting(pc')) \in Nat
    BY PlaceFacts
  <2>2. Cardinality(Resting(pc')) <= Cardinality(Resting(pc))
    BY <2>1, FS_Subset
  <2>3. nIdle \in Nat /\ nIdle >= Cardinality(Resting(pc)) /\ nTotal = nIdle + Cardinality(Busy(pc))
    BY <1>1 DEF Sound, Counts, Types
  <2> QED
    BY <2>1, <2>2, <2>3 DEF Counts
<1>6. Noticed(fAllOk, pc, vChecks)'
  BY <1>1, <1>3 DEF Sound, Noticed
<1> QED
  BY <1>2, <1>4, <1>5, <1>6 DEF QueueInv, Sound

LEMMA VerifyKeeps ==
    ASSUME QueueInv, NEW t \in Threads, Verify(t)
    PROVE  QueueInv' /\ UNCHANGED Promise!vars
<1>1. /\ pc[t] = "work" /\ fOk' = [fOk EXCEPT ![t] = @ /\ vChecks[t] \cap failing = {}]
      /\ pc' = [pc EXCEPT ![t] = "done"]
      /\ UNCHANGED <<queue, nIdle, nTotal, nTodo, fAllOk, vChecks, control, added, failing,
                     verdict, interrupted>>
  BY DEF Verify, mvars
<1>2. control # "terminated"
  BY <1>1 DEF QueueInv
<1>3. /\ Types(nIdle, nTotal, nTodo, fAllOk, pc, vChecks)
      /\ Sound(nIdle, nTotal, nTodo, fAllOk, pc, vChecks)
  BY <1>2 DEF QueueInv
<1>4. /\ pc' \in [Threads -> Places] /\ pc'[t] = "done"
      /\ \A u \in Threads \ {t} : pc'[u] = pc[u]
  BY <1>1, <1>3 DEF Types, Places
<1>5. fOk \in [Threads -> BOOLEAN]
  BY <1>3 DEF Types
<1>6. /\ fOk' \in [Threads -> BOOLEAN]
      /\ fOk'[t] <=> fOk[t] /\ vChecks[t] \cap failing = {}
      /\ \A u \in Threads \ {t} : fOk'[u] = fOk[u]
  BY <1>1, <1>5
<1>7. Busy(pc') = Busy(pc) /\ Resting(pc') = Resting(pc) /\ t \in Busy(pc)
  BY <1>1, <1>4 DEF Busy, Resting
<1>8. InHand(vChecks)' = InHand(vChecks) /\ Failures' = Failures
  BY <1>1 DEF InHand, Failures
<1>9. Types(nIdle, nTotal, nTodo, fAllOk, pc, vChecks)'
  BY <1>1, <1>3, <1>4, <1>6 DEF Types
<1>10. Shared(nTodo, pc, vChecks)'
  BY <1>1, <1>3, <1>7, <1>8 DEF Sound, Shared
<1>11. Counts(nIdle, nTotal, pc)'
  BY <1>1, <1>3, <1>7 DEF Sound, Counts
<1>12. Noticed(fAllOk, pc, vChecks)'
  <2>1. /\ control = "none" => fAllOk /\ InHand(vChecks) = {}
        /\ control # "none" =>
              /\ fAllOk => Failures \subseteq InHand(vChecks)
              /\ ~fAllOk => Failures # {}
              /\ \A u \in Busy(pc) : ~fOk[u] => Failures # {}
              /\ \A u \in Threads : pc[u] = "done" /\ vChecks[u] \cap failing # {} => ~fOk[u]
    BY <1>3 DEF Sound, Noticed
  <2>2. vChecks[t] \subseteq added
    BY <1>3 DEF Sound, Shared, InHand
  <2>3. control # "none" => \A u \in Busy(pc') : ~fOk'[u] => Failures # {}
    <3>1. Busy(pc) \subseteq Threads
      BY DEF Busy
    <3> QED
      BY <1>6, <1>7, <2>1, <2>2, <3>1 DEF Failures
  <2>4. control # "none" =>
           \A u \in Threads : pc'[u] = "done" /\ vChecks[u] \cap failing # {} => ~fOk'[u]
    BY <1>4, <1>6, <2>1
  <2> QED
    BY <1>1, <1>8, <2>1, <2>3, <2>4 DEF Noticed
<1>13. Seats(pc)'
  BY <1>1, <1>3, <1>4, MasterIsThread DEF Sound, Seats
<1>14. QueueInv'
  BY <1>1, <1>2, <1>9, <1>10, <1>11, <1>12, <1>13 DEF QueueInv, Sound
<1> QED
  BY <1>1, <1>14 DEF Promise!vars

LEMMA WaitersKeep ==
    ASSUME QueueInv, NEW t \in Threads, SpuriousWakeUp(t) \/ WorkerInterrupted(t)
    PROVE  QueueInv' /\ UNCHANGED Promise!vars
<1>1. /\ pc[t] \in {"wait", "woken"}
      /\ pc' = [pc EXCEPT ![t] = "woken"] \/ (t # Master /\ pc' = [pc EXCEPT ![t] = "dead"])
      /\ UNCHANGED <<queue, nIdle, nTotal, nTodo, fAllOk, vChecks, fOk, control, added, failing,
                     verdict, interrupted>>
  BY MasterIsThread DEF SpuriousWakeUp, WorkerInterrupted, mvars
<1>2. control # "terminated"
  BY <1>1 DEF QueueInv
<1>3. /\ Types(nIdle, nTotal, nTodo, fAllOk, pc, vChecks)
      /\ Sound(nIdle, nTotal, nTodo, fAllOk, pc, vChecks)
  BY <1>2 DEF QueueInv
<1>4. /\ pc' \in [Threads -> Places] /\ pc'[t] \in {"woken", "dead"}
      /\ t = Master => pc'[t] = "woken"
      /\ \A u \in Threads \ {t} : pc'[u] = pc[u]
  BY <1>1, <1>3 DEF Types, Places
<1>5. Busy(pc') = Busy(pc) /\ Resting(pc') \subseteq Resting(pc)
  BY <1>1, <1>4 DEF Busy, Resting
<1>6. Seats(pc)'
  BY <1>1, <1>3, <1>4, MasterIsThread DEF Sound, Seats
<1>7. /\ control' \in {"none", "open", "asked", "dropped"} /\ interrupted' \subseteq Threads
      /\ \A u \in Threads : pc'[u] = "done" => pc[u] = "done"
  BY <1>1, <1>2, <1>3, <1>4 DEF Types
<1>8. QueueInv'
  BY <1>1, <1>2, <1>4, <1>5, <1>6, <1>7, MoveKeeps
<1> QED
  BY <1>1, <1>8 DEF Promise!vars

LEMMA MasterInterruptedKeeps ==
    ASSUME QueueInv, MasterInterrupted
    PROVE  QueueInv' /\ Promise!Next
<1>1. /\ pc[Master] \in {"wait", "woken"} /\ interrupted' = interrupted \ {Master}
      /\ UNCHANGED <<queue, nIdle, nTotal, nTodo, fAllOk, vChecks, fOk, added, failing, verdict>>
  BY DEF MasterInterrupted
<1>2. Types(nIdle, nTotal, nTodo, fAllOk, pc, vChecks)
  BY DEF QueueInv
<1>3. interrupted' \subseteq Threads
  BY <1>1, <1>2 DEF Types
<1>4. CASE /\ control = "asked" /\ control' = "dropped"
           /\ pc' = [pc EXCEPT ![Master] = "enter"]
  <2>1. Sound(nIdle, nTotal, nTodo, fAllOk, pc, vChecks)
    BY <1>4 DEF QueueInv
  <2>2. /\ pc' \in [Threads -> Places] /\ pc'[Master] = "enter"
        /\ \A u \in Threads \ {Master} : pc'[u] = pc[u]
    BY <1>2, <1>4, MasterIsThread DEF Types, Places
  <2>3. Busy(pc') = Busy(pc) /\ Resting(pc') \subseteq Resting(pc)
    BY <1>1, <2>2 DEF Busy, Resting
  <2>4. Seats(pc)'
    BY <1>4, <2>1, <2>2, MasterIsThread DEF Sound, Seats
  <2>5. \A u \in Threads : pc'[u] = "done" => pc[u] = "done"
    BY <2>2
  <2>6. QueueInv'
    BY <1>1, <1>3, <1>4, <2>2, <2>3, <2>4, <2>5, MoveKeeps
  <2>7. Promise!Drop
    BY <1>1, <1>4 DEF Promise!Drop
  <2> QED
    BY <2>6, <2>7 DEF Promise!Next
<1>5. CASE /\ control = "dropped" /\ control' = "terminated"
           /\ pc' = [t \in Threads |-> "dead"]
  <2>1. QueueInv'
    BY <1>1, <1>2, <1>3, <1>5 DEF QueueInv, Types, Places
  <2>2. Promise!Terminate
    BY <1>1, <1>5 DEF Promise!Terminate
  <2> QED
    BY <2>1, <2>2 DEF Promise!Next
<1> QED
  BY <1>4, <1>5 DEF MasterInterrupted

LEMMA ConstructKeeps ==
    ASSUME QueueInv, Construct
    PROVE  QueueInv' /\ Promise!Next
<1>1. /\ control = "none" /\ control' = "open" /\ added' = {} /\ failing' \in FailSets
      /\ verdict' = "none"
      /\ UNCHANGED <<queue, nIdle, nTotal, nTodo, fAllOk, pc, vChecks, fOk, interrupted>>
  BY DEF Construct
<1>2. /\ Types(nIdle, nTotal, nTodo, fAllOk, pc, vChecks)
      /\ Sound(nIdle, nTotal, nTodo, fAllOk, pc, vChecks)
  BY <1>1 DEF QueueInv
<1>3. /\ InHand(vChecks) = {} /\ fAllOk
      /\ InHand(vChecks)' = InHand(vChecks) /\ Failures' = {}
  BY <1>1, <1>2 DEF Sound, Noticed, InHand, Failures
<1>4. \A t \in Threads : vChecks[t] = {}
  BY <1>3 DEF InHand
<1>5. Busy(pc) = {}
  <2>1. \A t \in Threads : t \notin Busy(pc)
    BY <1>2, <1>4 DEF Sound, Shared
  <2> QED
    BY <2>1 DEF Busy
<1>6. Types(nIdle, nTotal, nTodo, fAllOk, pc, vChecks)'
  BY <1>1, <1>2, QueueAssumption DEF Types
<1>7. Shared(nTodo, pc, vChecks)'
  BY <1>1, <1>2, <1>3 DEF Sound, Shared
<1>8. Counts(nIdle, nTotal, pc)'
  BY <1>1, <1>2 DEF Sound, Counts
<1>9. Noticed(fAllOk, pc, vChecks)'
  <2>1. Busy(pc)' = {}
    BY <1>1, <1>5 DEF Busy
  <2> QED
    BY <1>1, <1>3, <1>4, <2>1 DEF Noticed
<1>10. Seats(pc)'
  BY <1>1, <1>2 DEF Sound, Seats
<1>11. QueueInv'
  BY <1>1, <1>6, <1>7, <1>8, <1>9, <1>10 DEF QueueInv, Sound
<1>12. Promise!Open
  BY <1>1, <1>3 DEF Promise!Open, Failures
<1> QED
  BY <1>11, <1>12 DEF Promise!Next

LEMMA AddKeeps ==
    ASSUME QueueInv, NEW new \in SUBSET Checks, Add(new)
    PROVE  QueueInv' /\ Promise!Next
<1>1. /\ control = "open" /\ new \in SUBSET (Checks \ added)
      /\ queue' = queue \cup new /\ added' = added \cup new
      /\ nTodo' = nTodo + Cardinality(new)
      /\ UNCHANGED <<nIdle, nTotal, fAllOk, vChecks, fOk, control, failing, verdict, interrupted>>
  BY DEF Add
<1>2. /\ Types(nIdle, nTotal, nTodo, fAllOk, pc, vChecks)
      /\ Sound(nIdle, nTotal, nTodo, fAllOk, pc, vChecks)
  BY <1>1 DEF QueueInv
<1>3. /\ pc' \in [Threads -> Places]
      /\ \A t \in Threads : pc'[t] = pc[t] \/ (pc[t] = "wait" /\ pc'[t] = "woken")
  <2>1. PICK S \in Notified(Cardinality(new)) :
           pc' = [t \in Threads |-> IF t \in S THEN "woken" ELSE pc[t]]
    BY DEF Add
  <2>2. S \subseteq {t \in Workers : pc[t] = "wait"}
    BY DEF Notified
  <2>3. pc \in [Threads -> Places]
    BY <1>2 DEF Types
  <2> QED
    BY <2>1, <2>2, <2>3 DEF Places
<1>4. Busy(pc') = Busy(pc) /\ Resting(pc') = Resting(pc)
  BY <1>3 DEF Busy, Resting
<1>5. vChecks \in [Threads -> SUBSET Checks] /\ queue \subseteq Checks /\ nTodo \in Nat
  BY <1>2 DEF Types
<1>6. /\ InHand(vChecks)' = InHand(vChecks) \cup new
      /\ InHand(vChecks) \subseteq added
      /\ InHand(vChecks) \cap new = {}
  <2>1. InHand(vChecks)' = InHand(vChecks) \cup new
    BY <1>1 DEF InHand
  <2>2. InHand(vChecks) \subseteq added
    BY <1>2 DEF Sound, Shared
  <2> QED
    BY <1>1, <2>1, <2>2
<1>7. /\ nTodo' = Cardinality(InHand(vChecks)') /\ nTodo' \in Nat
  <2>1. /\ IsFiniteSet(InHand(vChecks)) /\ Cardinality(InHand(vChecks)) \in Nat
        /\ IsFiniteSet(new) /\ Cardinality(new) \in Nat
    BY <1>5, InHandFacts, Finite
  <2>2. Cardinality(InHand(vChecks) \cup new) = Cardinality(InHand(vChecks)) + Cardinality(new)
                                                - Cardinality(InHand(vChecks) \cap new)
    BY <2>1, FS_Union
  <2>3. Cardinality(InHand(vChecks) \cap new) = 0
    BY <1>6, FS_EmptySet
  <2>4. nTodo = Cardinality(InHand(vChecks))
    BY <1>2 DEF Sound, Shared
  <2> QED
    BY <1>1, <1>6, <2>1, <2>2, <2>3, <2>4
<1>8. Types(nIdle, nTotal, nTodo, fAllOk, pc, vChecks)'
  BY <1>1, <1>2, <1>3, <1>7 DEF Types
<1>9. Shared(nTodo, pc, vChecks)'
  <2>1. \A t \in Threads : vChecks[t] \subseteq added
    BY <1>6 DEF InHand
  <2> QED
    BY <1>1, <1>2, <1>4, <1>6, <1>7, <2>1 DEF Sound, Shared
<1>10. Counts(nIdle, nTotal, pc)'
  BY <1>1, <1>2, <1>4 DEF Sound, Counts
<1>11. Noticed(fAllOk, pc, vChecks)'
  <2>1. Failures' = Failures \cup (new \cap failing)
    BY <1>1 DEF Failures
  <2>2. \A t \in Threads : pc'[t] = "done" => pc[t] = "done"
    BY <1>3
  <2> QED
    BY <1>1, <1>2, <1>4, <1>6, <2>1, <2>2 DEF Sound, Noticed
<1>12. Seats(pc)'
  BY <1>1, <1>2, <1>3, MasterIsThread DEF Sound, Seats
<1>13. QueueInv'
  BY <1>1, <1>8, <1>9, <1>10, <1>11, <1>12 DEF QueueInv, Sound
<1>14. Promise!HandOver
  BY <1>1 DEF Promise!HandOver
<1> QED
  BY <1>13, <1>14 DEF Promise!Next

LEMMA WaitKeeps ==
    ASSUME QueueInv, NEW how \in {"asked", "dropped"}, Wait(how)
    PROVE  QueueInv' /\ Promise!Next
<1>1. /\ control = "open" /\ control' = how /\ pc' = [pc EXCEPT ![Master] = "enter"]
      /\ UNCHANGED <<queue, nIdle, nTotal, nTodo, fAllOk, vChecks, fOk, added, failing,
                     verdict, interrupted>>
  BY DEF Wait
<1>2. /\ Types(nIdle, nTotal, nTodo, fAllOk, pc, vChecks)
      /\ Sound(nIdle, nTotal, nTodo, fAllOk, pc, vChecks)
  BY <1>1 DEF QueueInv
<1>3. pc[Master] = "out" /\ pc \in [Threads -> Places] /\ interrupted \subseteq Threads
  BY <1>1, <1>2 DEF Sound, Seats, Types
<1>4. /\ pc' \in [Threads -> Places] /\ pc'[Master] = "enter"
      /\ \A u \in Threads \ {Master} : pc'[u] = pc[u]
  BY <1>1, <1>3, MasterIsThread DEF Places
<1>5. Busy(pc') = Busy(pc) /\ Resting(pc') \subseteq Resting(pc)
  BY <1>3, <1>4 DEF Busy, Resting
<1>6. Seats(pc)'
  BY <1>1, <1>2, <1>4, MasterIsThread DEF Sound, Seats
<1>7. \A u \in Threads : pc'[u] = "done" => pc[u] = "done"
  BY <1>4
<1>8. QueueInv'
  BY <1>1, <1>3, <1>4, <1>5, <1>6, <1>7, MoveKeeps
<1>9. Promise!Ask \/ Promise!Drop
  BY <1>1 DEF Promise!Ask, Promise!Drop
<1> QED
  BY <1>8, <1>9 DEF Promise!Next

LEMMA IdleKeeps ==
    ASSUME QueueInv, Interrupt \/ UNCHANGED vars
    PROVE  QueueInv' /\ UNCHANGED Promise!vars
<1>1. /\ interrupted' \in {interrupted, Threads}
      /\ UNCHANGED <<queue, nIdle, nTotal, nTodo, fAllOk, pc, vChecks, fOk, control, added,
                     failing, verdict>>
  BY DEF Interrupt, vars, mvars
<1>2. Types(nIdle, nTotal, nTodo, fAllOk, pc, vChecks)'
  BY <1>1 DEF QueueInv, Types
<1>3. Sound(nIdle, nTotal, nTodo, fAllOk, pc, vChecks) =>
         Sound(nIdle, nTotal, nTodo, fAllOk, pc, vChecks)'
  BY <1>1 DEF Sound, Shared, Counts, Noticed, Seats, InHand, Busy, Resting, Failures
<1>4. QueueInv'
  BY <1>1, <1>2, <1>3 DEF QueueInv
<1> QED
  BY <1>1, <1>4 DEF Promise!vars

LEMMA StepKeeps ==
    ASSUME QueueInv, [Next]_vars
    PROVE  QueueInv' /\ [Promise!Next]_(Promise!vars)
<1>1. ASSUME NEW t \in Threads, Step(t) \/ SpuriousWakeUp(t) \/ WorkerInterrupted(t)
      PROVE  QueueInv' /\ [Promise!Next]_(Promise!vars)
  BY <1>1, EnterKeeps, VerifyKeeps, CleanKeeps, WakeKeeps, WaitersKeep DEF Step
<1>2. CASE MasterInterrupted
  BY <1>2, MasterInterruptedKeeps
<1>3. CASE Construct
  BY <1>3, ConstructKeeps
<1>4. ASSUME NEW new \in SUBSET Checks, Add(new)
      PROVE  QueueInv' /\ [Promise!Next]_(Promise!vars)
  BY <1>4, AddKeeps
<1>5. CASE Wait("asked") \/ Wait("dropped")
  BY <1>5, WaitKeeps
<1>6. CASE Interrupt \/ UNCHANGED vars
  BY <1>6, IdleKeeps
<1> QED
  BY <1>1, <1>2, <1>3, <1>4, <1>5, <1>6 DEF Next

-----------------------------------------------------------------------------
(* The theorems. *)

\* The counters of the queue count, and no failure is lost, in every
\* reachable state.
THEOREM QueueCorrect == Spec => []QueueInv
<1>1. QueueInv /\ [Next]_vars => QueueInv'
  BY StepKeeps
<1> QED
  BY <1>1, InitInv, PTL DEF Spec

\* Every variable has its type: nIdle, nTotal and nTodo never go below zero.
THEOREM QueueTypeCorrect == Spec => []TypeOK
<1>1. QueueInv => TypeOK
  BY DEF QueueInv, Types, TypeOK
<1> QED
  BY <1>1, QueueCorrect, PTL

\* Once the control is gone no thread holds a check of its block.
THEOREM FinishedCorrect == Spec => []FinishedBeforeReturn
<1>1. QueueInv => FinishedBeforeReturn
  BY DEF QueueInv, Sound, Noticed, InHand, FinishedBeforeReturn, Pending
<1> QED
  BY <1>1, QueueCorrect, PTL

\* The assertion of the constructor of the control never fails.
THEOREM ReadyCorrect == Spec => []ReadyForNext
<1>1. QueueInv => ReadyForNext
  <2> SUFFICES ASSUME QueueInv, control = "none" PROVE IsIdle
    BY DEF ReadyForNext
  <2>1. /\ Types(nIdle, nTotal, nTodo, fAllOk, pc, vChecks)
        /\ Sound(nIdle, nTotal, nTodo, fAllOk, pc, vChecks)
    BY DEF QueueInv
  <2>2. fAllOk /\ InHand(vChecks) = {}
    BY <2>1 DEF Sound, Noticed
  <2>3. nTodo = 0
    BY <2>1, <2>2, FS_EmptySet DEF Sound, Shared
  <2>4. Busy(pc) = {}
    <3>1. \A t \in Threads : t \notin Busy(pc)
      BY <2>1, <2>2 DEF Sound, Shared, InHand
    <3> QED
      BY <3>1 DEF Busy
  <2>5. nTotal = nIdle
    <3>1. Cardinality(Busy(pc)) = 0
      BY <2>4, FS_EmptySet
    <3> QED
      BY <2>1, <3>1 DEF Sound, Counts, Types
  <2> QED
    BY <2>2, <2>3, <2>5 DEF IsIdle
<1> QED
  BY <1>1, QueueCorrect, PTL

\* The queue implements CheckBatch: Wait answers "good" exactly when every
\* check that was handed over succeeds.
THEOREM PromiseCorrect == Spec => PromiseKept
<1>1. Init => Promise!Init
  BY DEF Init, Promise!Init
<1>2. QueueInv /\ [Next]_vars => [Promise!Next]_(Promise!vars)
  BY StepKeeps
<1> QED
  BY <1>1, <1>2, QueueCorrect, PTL DEF Spec, PromiseKept, Promise!Spec
=============================================================================
