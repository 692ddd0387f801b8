------------------------------ MODULE CheckQueue ------------------------------
(***************************************************************************)
(* The script check queue (checkqueue.h): ConnectBlock, the master, hands  *)
(* the script checks of a block to worker threads and joins them in Wait.  *)
(*                                                                         *)
(* The mutex is held from one unlock, wait or return to the next, so that  *)
(* a critical section is one action; the checks of a batch run outside it. *)
(* The queue is a set: "the order of booleans doesn't matter" to the code, *)
(* which pops from the back, and here a batch is any part of the queue.    *)
(* fQuit is never set; a worker leaves Loop only by being interrupted.     *)
(***************************************************************************)
EXTENDS Naturals, FiniteSets

CONSTANTS
    Workers,      \* the threads that run ThreadScriptCheck
    Master,       \* the thread that runs ConnectBlock
    Checks,       \* the script checks of a block
    FailSets,     \* which of them may fail together
    nBatchSize    \* 128 in main.cpp

Threads == Workers \cup {Master}

ASSUME QueueAssumption ==
    /\ IsFiniteSet(Workers)
    /\ IsFiniteSet(Checks)
    /\ Master \notin Workers
    /\ FailSets \subseteq SUBSET Checks
    /\ nBatchSize \in Nat \ {0}

VARIABLES
    queue,        \* checks nobody has taken yet
    nIdle,        \* threads that wait, as the code counts them
    nTotal,       \* threads in Loop, as the code counts them
    nTodo,        \* checks that have not been accounted for
    fAllOk,       \* no check of this block has failed so far
    pc,           \* where a thread is in Loop
    vChecks,      \* the batch of a thread
    fOk,          \* the result of that batch
    control,      \* the CCheckQueueControl of ConnectBlock
    added,        \* the checks handed over by it
    failing,      \* the checks of this block that do not succeed
    verdict,      \* what Wait returned to ConnectBlock
    interrupted   \* the threads of the group that a shutdown has interrupted

mvars == <<control, added, failing, verdict>>
vars == <<queue, nIdle, nTotal, nTodo, fAllOk, pc, vChecks, fOk, control, added,
          failing, verdict, interrupted>>

\* "enter": before the first critical section; "work": has a batch; "done":
\* has run it; "wait": in cond.wait; "woken": notified, wants the mutex back.
Places == {"out", "enter", "work", "done", "wait", "woken", "dead"}

TypeOK ==
    /\ queue \subseteq Checks
    /\ nIdle \in Nat /\ nTotal \in Nat /\ nTodo \in Nat
    /\ fAllOk \in BOOLEAN
    /\ pc \in [Threads -> Places]
    /\ vChecks \in [Threads -> SUBSET Checks]
    /\ fOk \in [Threads -> BOOLEAN]
    /\ control \in {"none", "open", "asked", "dropped", "terminated"}
    /\ added \subseteq Checks
    /\ failing \subseteq Checks
    /\ verdict \in {"none", "good", "bad"}
    /\ interrupted \subseteq Threads

Init ==
    /\ queue = {}
    /\ nIdle = 0 /\ nTotal = 0 /\ nTodo = 0
    /\ fAllOk = TRUE
    /\ pc = [t \in Threads |-> IF t = Master THEN "out" ELSE "enter"]
    /\ vChecks = [t \in Threads |-> {}]
    /\ fOk = [t \in Threads |-> TRUE]
    /\ control = "none"
    /\ added = {}
    /\ failing = {}
    /\ verdict = "none"
    /\ interrupted = {}

-----------------------------------------------------------------------------
(* The loop of a thread. *)

\* How many checks a thread takes from a queue of n.
BatchSize(n, total, idle) ==
    LET share == n \div (total + idle + 1)
        most == IF share < nBatchSize THEN share ELSE nBatchSize
    IN  IF most < 1 THEN 1 ELSE most

\* Mutants of Return: fAllOk is not reset; the last batches are not awaited.
ReturnKeepsVerdict(t, total, idle, todo, allok, pc1) ==
    /\ queue = {}
    /\ t = Master /\ todo = 0
    /\ pc' = [pc1 EXCEPT ![t] = "out"]
    /\ nTotal' = total - 1
    /\ fAllOk' = allok
    /\ control' = "none"
    /\ verdict' = IF control # "asked" THEN verdict
                  ELSE IF allok THEN "good" ELSE "bad"
    /\ nIdle' = idle /\ nTodo' = todo
    /\ vChecks' = [vChecks EXCEPT ![t] = {}]
    /\ UNCHANGED <<queue, fOk, added, failing>>

ReturnEarly(t, total, idle, todo, allok, pc1) ==
    /\ queue = {}
    /\ t = Master
    /\ pc' = [pc1 EXCEPT ![t] = "out"]
    /\ nTotal' = total - 1
    /\ fAllOk' = TRUE
    /\ control' = "none"
    /\ verdict' = IF control # "asked" THEN verdict
                  ELSE IF allok THEN "good" ELSE "bad"
    /\ nIdle' = idle /\ nTodo' = todo
    /\ vChecks' = [vChecks EXCEPT ![t] = {}]
    /\ UNCHANGED <<queue, fOk, added, failing>>

\* The rest of a critical section, after the clean-up or the return from
\* wait has left these values: return, wait, or take a batch.
Return(t, total, idle, todo, allok, pc1) ==
    /\ queue = {}
    /\ t = Master /\ todo = 0
    /\ pc' = [pc1 EXCEPT ![t] = "out"]
    /\ nTotal' = total - 1
    /\ fAllOk' = TRUE
    /\ control' = "none"
    /\ verdict' = IF control # "asked" THEN verdict
                  ELSE IF allok THEN "good" ELSE "bad"
    /\ nIdle' = idle /\ nTodo' = todo
    /\ vChecks' = [vChecks EXCEPT ![t] = {}]
    /\ UNCHANGED <<queue, fOk, added, failing>>

Sleep(t, total, idle, todo, allok, pc1) ==
    /\ queue = {}
    /\ ~(t = Master /\ todo = 0)
    /\ pc' = [pc1 EXCEPT ![t] = "wait"]
    /\ nIdle' = idle + 1
    /\ nTotal' = total /\ nTodo' = todo /\ fAllOk' = allok
    /\ vChecks' = [vChecks EXCEPT ![t] = {}]
    /\ UNCHANGED <<queue, fOk, mvars>>

Take(t, total, idle, todo, allok, pc1) ==
    \E batch \in SUBSET queue :
        /\ queue # {}
        /\ Cardinality(batch) = BatchSize(Cardinality(queue), total, idle)
        /\ queue' = queue \ batch
        /\ vChecks' = [vChecks EXCEPT ![t] = batch]
        /\ fOk' = [fOk EXCEPT ![t] = allok]
        /\ pc' = [pc1 EXCEPT ![t] = "work"]
        /\ nIdle' = idle /\ nTotal' = total /\ nTodo' = todo /\ fAllOk' = allok
        /\ UNCHANGED mvars

Proceed(t, total, idle, todo, allok, pc1) ==
    \/ Return(t, total, idle, todo, allok, pc1)
    \/ Sleep(t, total, idle, todo, allok, pc1)
    \/ Take(t, total, idle, todo, allok, pc1)

\* First iteration.
Enter(t) ==
    /\ pc[t] = "enter"
    /\ Proceed(t, nTotal + 1, nIdle, nTodo, fAllOk, pc)
    /\ UNCHANGED interrupted

\* The checks of the batch, run until the first failure.
Verify(t) ==
    /\ pc[t] = "work"
    /\ fOk' = [fOk EXCEPT ![t] = @ /\ vChecks[t] \cap failing = {}]
    /\ pc' = [pc EXCEPT ![t] = "done"]
    /\ UNCHANGED <<queue, nIdle, nTotal, nTodo, fAllOk, vChecks, mvars, interrupted>>

\* Mutant: the last worker does not notify the master.
NotifyNobody(t, todo) == pc

\* condMaster.notify_one() of a worker that has finished the last check.
NotifyMaster(t, todo) ==
    IF todo = 0 /\ t # Master /\ pc[Master] = "wait"
    THEN [pc EXCEPT ![Master] = "woken"]
    ELSE pc

\* Mutants of CleanUp: a full batch is counted; the result replaces fAllOk.
CleanUpFullBatch(t) ==
    LET todo == nTodo - nBatchSize
    IN  /\ pc[t] = "done"
        /\ Proceed(t, nTotal, nIdle, todo, fAllOk /\ fOk[t], NotifyMaster(t, todo))
        /\ UNCHANGED interrupted

CleanUpReplaces(t) ==
    LET todo == nTodo - Cardinality(vChecks[t])
    IN  /\ pc[t] = "done"
        /\ Proceed(t, nTotal, nIdle, todo, fOk[t], NotifyMaster(t, todo))
        /\ UNCHANGED interrupted

\* The clean-up of the previous run, in the critical section of the next.
CleanUp(t) ==
    LET todo == nTodo - Cardinality(vChecks[t])
    IN  /\ pc[t] = "done"
        /\ Proceed(t, nTotal, nIdle, todo, fAllOk /\ fOk[t], NotifyMaster(t, todo))
        /\ UNCHANGED interrupted

\* cond.wait returns with the mutex locked.
WakeUp(t) ==
    /\ pc[t] = "woken"
    /\ t \notin interrupted
    /\ Proceed(t, nTotal, nIdle - 1, nTodo, fAllOk, pc)
    /\ UNCHANGED interrupted

\* A condition variable may wake a thread that nobody notified.
SpuriousWakeUp(t) ==
    /\ pc[t] = "wait"
    /\ pc' = [pc EXCEPT ![t] = "woken"]
    /\ UNCHANGED <<queue, nIdle, nTotal, nTodo, fAllOk, vChecks, fOk, mvars, interrupted>>

\* cond.wait is an interruption point: it throws, nIdle and nTotal keep
\* counting the thread, and a notification it has received is lost.
WorkerInterrupted(t) ==
    /\ t \in Workers \cap interrupted
    /\ pc[t] \in {"wait", "woken"}
    /\ pc' = [pc EXCEPT ![t] = "dead"]
    /\ UNCHANGED <<queue, nIdle, nTotal, nTodo, fAllOk, vChecks, fOk, mvars, interrupted>>

-----------------------------------------------------------------------------
(* The control object of ConnectBlock, the only master under cs_main. *)

\* IsIdle, which the constructor of the control asserts.
IsIdle == nTotal = nIdle /\ nTodo = 0 /\ fAllOk

Construct ==
    /\ control = "none"
    /\ control' = "open"
    /\ added' = {}
    /\ failing' \in FailSets
    /\ verdict' = "none"
    /\ UNCHANGED <<queue, nIdle, nTotal, nTodo, fAllOk, pc, vChecks, fOk, interrupted>>

\* Mutant: many checks wake nobody.
NotifiedByOne(n) ==
    LET waiting == {t \in Workers : pc[t] = "wait"}
    IN  IF n = 1 /\ waiting # {} THEN {{t} : t \in waiting} ELSE {{}}

\* The threads of which Add may wake some: one for one check, else all.
Notified(n) ==
    LET waiting == {t \in Workers : pc[t] = "wait"}
    IN  IF n = 0 \/ waiting = {} THEN {{}}
        ELSE IF n = 1 THEN {{t} : t \in waiting}
        ELSE {waiting}

\* The checks of one transaction.
Add(new) ==
    /\ control = "open"
    /\ new \in SUBSET (Checks \ added)
    /\ queue' = queue \cup new
    /\ added' = added \cup new
    /\ nTodo' = nTodo + Cardinality(new)
    /\ \E S \in Notified(Cardinality(new)) :
          pc' = [t \in Threads |-> IF t \in S THEN "woken" ELSE pc[t]]
    /\ UNCHANGED <<nIdle, nTotal, fAllOk, vChecks, fOk, control, failing, verdict, interrupted>>

\* Wait, called by ConnectBlock at its end ("asked"), or by the destructor
\* when ConnectBlock refuses the block for another reason ("dropped").
Wait(how) ==
    /\ control = "open"
    /\ control' = how
    /\ pc' = [pc EXCEPT ![Master] = "enter"]
    /\ UNCHANGED <<queue, nIdle, nTotal, nTodo, fAllOk, vChecks, fOk, added, failing,
                   verdict, interrupted>>

\* The wait of the master throws.  Out of Wait, the exception destroys the
\* control, which waits again; out of the destructor, it ends the program.
MasterInterrupted ==
    /\ Master \in interrupted
    /\ pc[Master] \in {"wait", "woken"}
    /\ interrupted' = interrupted \ {Master}
    /\ \/ /\ control = "asked"
          /\ control' = "dropped"
          /\ pc' = [pc EXCEPT ![Master] = "enter"]
       \/ /\ control = "dropped"
          /\ control' = "terminated"
          /\ pc' = [t \in Threads |-> "dead"]
    /\ UNCHANGED <<queue, nIdle, nTotal, nTodo, fAllOk, vChecks, fOk, added, failing, verdict>>

\* threadGroup.interrupt_all() of the shutdown.
Interrupt ==
    /\ control # "terminated"
    /\ interrupted = {}
    /\ interrupted' = Threads
    /\ UNCHANGED <<queue, nIdle, nTotal, nTodo, fAllOk, pc, vChecks, fOk, mvars>>

Step(t) == Enter(t) \/ Verify(t) \/ CleanUp(t) \/ WakeUp(t)

Next ==
    \/ \E t \in Threads : Step(t) \/ SpuriousWakeUp(t) \/ WorkerInterrupted(t)
    \/ MasterInterrupted
    \/ Interrupt
    \/ Construct
    \/ \E new \in SUBSET Checks : Add(new)
    \/ Wait("asked") \/ Wait("dropped")

Spec == Init /\ [][Next]_vars

\* The scheduler runs a thread that can run and grants it the mutex; an
\* interrupted thread gets its exception.  Nothing makes ConnectBlock hurry.
FairSpec ==
    /\ Spec
    /\ \A t \in Threads : WF_vars(Step(t))
    /\ \A t \in Workers : WF_vars(WorkerInterrupted(t))
    /\ WF_vars(MasterInterrupted)

-----------------------------------------------------------------------------
(* Properties. *)

\* The checks that are queued or in the batch of a thread.
Pending == queue \cup UNION {vChecks[t] : t \in Threads}

\* The assertion of the constructor: whenever ConnectBlock may build a new
\* control the queue is idle, whatever woke, slept or died before.
ReadyForNext == control = "none" => IsIdle

\* The control "guarantees the passed queue is finished before continuing":
\* once it is gone no thread holds a check, which points into the block and
\* the view of the ConnectBlock that made it.
FinishedBeforeReturn == control = "none" => Pending = {}

\* The queue keeps the promise of CheckBatch: Wait answers "good" exactly
\* when every check that was handed over succeeds.
Promise == INSTANCE CheckBatch WITH stage <- control,
                                    failed <- added \cap failing # {}

PromiseKept == Promise!Spec

\* Wait ends, in ConnectBlock or in the destructor, also when every worker
\* has been interrupted: the master is woken or finishes the work itself.
WaitEnds == control \in {"asked", "dropped"} ~> control \in {"none", "terminated"}

\* Workers that are not interrupted empty the queue while the master is
\* still adding: Add leaves no check without somebody awake to take it.
QueueDrains == (queue # {} /\ interrupted = {}) ~> (queue = {} \/ interrupted # {})
=============================================================================
