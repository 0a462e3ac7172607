----------------------------- MODULE LuaTasker -----------------------------
(***************************************************************************)
(* backend/LuaTasker.java: a queue of jobs, one tasker thread that hands   *)
(* each job to a freshly started worker thread, and a counter that limits  *)
(* how many workers are alive.                                             *)
(*                                                                         *)
(* Every step below is one critical section of the static `lock', or one   *)
(* unlocked access of a thread, so all interleavings of the client, the    *)
(* tasker thread and the workers are explored.  The two sleeps of the run  *)
(* loop change no state and are not steps.                                 *)
(*                                                                         *)
(* A job is one call of addToQueue: a value queued twice is two jobs.  A   *)
(* member of Worker is a place for a worker thread: it is used again once  *)
(* the thread in it has ended.                                             *)
(***************************************************************************)
EXTENDS Naturals, Sequences, SequencesExt, FiniteSets

CONSTANTS
  Job,               \* the calls of addToQueue
  NoJob,             \* null
  Worker,            \* places for worker threads
  MAX_THREAD_COUNT   \* the limit; 16 in the code

ASSUME TaskerAssumption ==
  /\ NoJob \notin Job
  /\ MAX_THREAD_COUNT \in Nat \ {0}
  /\ IsFiniteSet(Worker)

VARIABLES
  valsToDl,        \* the ConcurrentLinkedQueue
  CURRENT_COUNT,   \* the counter of workers
  exit,            \* set by exit(), tested by the run loop
  taskerPc,        \* where the tasker thread is
  valToDoJob,      \* its local: the job it polled and has not started yet
  workerPc,        \* where each worker thread is
  workerJob,       \* fValToDoJob of each worker thread
  added,           \* history: the jobs ever queued
  removed,         \* history: the jobs taken back by removeFromQueue
  done             \* history: the jobs whose doJob returned

taskerVars == <<taskerPc, valToDoJob>>
workerVars == <<workerPc, workerJob, done>>
vars == <<valsToDl, CURRENT_COUNT, exit, taskerVars, workerVars, added, removed>>

-----------------------------------------------------------------------------

Queued == Range(valsToDl)
Held == IF valToDoJob = NoJob THEN {} ELSE {valToDoJob}
Alive == {w \in Worker : workerPc[w] # "none"}
Running == {workerJob[w] : w \in {v \in Worker : workerPc[v] = "doJob"}}

TypeOK ==
  /\ valsToDl \in Seq(Job)
  /\ CURRENT_COUNT \in Nat
  /\ exit \in BOOLEAN
  /\ taskerPc \in {"new", "while", "synchronized", "start", "ended"}
  /\ valToDoJob \in Job \cup {NoJob}
  /\ workerPc \in [Worker -> {"none", "doJob", "decrement"}]
  /\ workerJob \in [Worker -> Job \cup {NoJob}]
  /\ added \in SUBSET Job
  /\ removed \in SUBSET Job
  /\ done \in SUBSET Job

Init ==
  /\ valsToDl = <<>>
  /\ CURRENT_COUNT = 0
  /\ exit = FALSE
  /\ taskerPc = "new"
  /\ valToDoJob = NoJob
  /\ workerPc = [w \in Worker |-> "none"]
  /\ workerJob = [w \in Worker |-> NoJob]
  /\ added = {}
  /\ removed = {}
  /\ done = {}

-----------------------------------------------------------------------------
(* Calls made by the client threads.                                       *)

AddToQueue(j) ==
  /\ j \notin added
  /\ valsToDl' = Append(valsToDl, j)
  /\ added' = added \cup {j}
  /\ UNCHANGED <<CURRENT_COUNT, exit, taskerVars, workerVars, removed>>

\* Removes the first occurrence; a value that is not queued is ignored.
RemoveFromQueue(j) ==
  /\ \E i \in 1..Len(valsToDl) :
       /\ valsToDl[i] = j
       /\ \A k \in 1..(i - 1) : valsToDl[k] # j
       /\ valsToDl' = RemoveAt(valsToDl, i)
  /\ removed' = removed \cup {j}
  /\ UNCHANGED <<CURRENT_COUNT, exit, taskerVars, workerVars, added>>

\* Fault: workers that are still busy are forgotten.
HasJobQueueOnly == Len(valsToDl) > 0

\* What the caller of hasJob() is told.
hasJob == Len(valsToDl) > 0 \/ CURRENT_COUNT > 0

Exit ==
  /\ exit' = TRUE
  /\ UNCHANGED <<valsToDl, CURRENT_COUNT, taskerVars, workerVars, added, removed>>

\* new Thread(tasker).start()
StartTasker ==
  /\ taskerPc = "new"
  /\ taskerPc' = "while"
  /\ UNCHANGED <<valsToDl, CURRENT_COUNT, exit, valToDoJob, workerVars, added, removed>>

-----------------------------------------------------------------------------
(* The tasker thread: run().                                               *)

\* Fault: exit is not looked at.
TestNothing ==
  /\ taskerPc = "while"
  /\ taskerPc' = "synchronized"
  /\ UNCHANGED <<valsToDl, CURRENT_COUNT, exit, valToDoJob, workerVars, added, removed>>

TestExit ==
  /\ taskerPc = "while"
  /\ taskerPc' = IF exit THEN "ended" ELSE "synchronized"
  /\ UNCHANGED <<valsToDl, CURRENT_COUNT, exit, valToDoJob, workerVars, added, removed>>

\* Fault: the limit is tested before the increment.
CanStartAtLimit == CURRENT_COUNT < MAX_THREAD_COUNT

\* incrementCounter() would succeed.
CanStart == CURRENT_COUNT + 1 < MAX_THREAD_COUNT

\* Fault: the worker is not counted.
PollUncounted ==
  /\ taskerPc = "synchronized"
  /\ Len(valsToDl) > 0
  /\ CanStart
  /\ valToDoJob' = Head(valsToDl)
  /\ valsToDl' = Tail(valsToDl)
  /\ taskerPc' = "start"
  /\ UNCHANGED <<CURRENT_COUNT, exit, workerVars, added, removed>>

\* Fault: peek() instead of poll().
PollByPeek ==
  /\ taskerPc = "synchronized"
  /\ Len(valsToDl) > 0
  /\ CanStart
  /\ CURRENT_COUNT' = CURRENT_COUNT + 1
  /\ valToDoJob' = Head(valsToDl)
  /\ taskerPc' = "start"
  /\ UNCHANGED <<valsToDl, exit, workerVars, added, removed>>

\* The synchronized block finds a job and a free place: count it, poll it.
PollJob ==
  /\ taskerPc = "synchronized"
  /\ Len(valsToDl) > 0
  /\ CanStart
  /\ CURRENT_COUNT' = CURRENT_COUNT + 1
  /\ valToDoJob' = Head(valsToDl)
  /\ valsToDl' = Tail(valsToDl)
  /\ taskerPc' = "start"
  /\ UNCHANGED <<exit, workerVars, added, removed>>

\* It finds nothing to start: sleep and go round the loop again.
PollNothing ==
  /\ taskerPc = "synchronized"
  /\ ~(Len(valsToDl) > 0 /\ CanStart)
  /\ taskerPc' = "while"
  /\ UNCHANGED <<valsToDl, CURRENT_COUNT, exit, valToDoJob, workerVars, added, removed>>

\* new Thread(...).start(), outside the lock.
StartWorker(w) ==
  /\ taskerPc = "start"
  /\ workerPc[w] = "none"
  /\ workerPc' = [workerPc EXCEPT ![w] = "doJob"]
  /\ workerJob' = [workerJob EXCEPT ![w] = valToDoJob]
  /\ valToDoJob' = NoJob
  /\ taskerPc' = "while"
  /\ UNCHANGED <<valsToDl, CURRENT_COUNT, exit, done, added, removed>>

Tasker == TestExit \/ PollJob \/ PollNothing \/ \E w \in Worker : StartWorker(w)

-----------------------------------------------------------------------------
(* The worker threads.                                                     *)

\* doJob returns.
DoJob(w) ==
  /\ workerPc[w] = "doJob"
  /\ done' = done \cup {workerJob[w]}
  /\ workerPc' = [workerPc EXCEPT ![w] = "decrement"]
  /\ UNCHANGED <<valsToDl, CURRENT_COUNT, exit, taskerVars, workerJob, added, removed>>

\* Fault: the thread ends without decrementing, as when doJob throws.
EndUncounted(w) ==
  /\ workerPc[w] = "decrement"
  /\ workerPc' = [workerPc EXCEPT ![w] = "none"]
  /\ workerJob' = [workerJob EXCEPT ![w] = NoJob]
  /\ UNCHANGED <<CURRENT_COUNT, valsToDl, exit, taskerVars, done, added, removed>>

\* decrementCounter() under the lock, then the thread ends.
DecrementCounter(w) ==
  /\ workerPc[w] = "decrement"
  /\ CURRENT_COUNT' = CURRENT_COUNT - 1
  /\ workerPc' = [workerPc EXCEPT ![w] = "none"]
  /\ workerJob' = [workerJob EXCEPT ![w] = NoJob]
  /\ UNCHANGED <<valsToDl, exit, taskerVars, done, added, removed>>

-----------------------------------------------------------------------------

Next ==
  \/ \E j \in Job : AddToQueue(j) \/ RemoveFromQueue(j)
  \/ Exit
  \/ StartTasker
  \/ Tasker
  \/ \E w \in Worker : DoJob(w) \/ DecrementCounter(w)

\* Started threads are scheduled and doJob, which only reflects, returns.
\* Nothing obliges a client to call anything.
Fairness ==
  /\ WF_vars(Tasker)
  /\ \A w \in Worker : WF_vars(DoJob(w)) /\ WF_vars(DecrementCounter(w))

SafetySpec == Init /\ [][Next]_vars
Spec == SafetySpec /\ Fairness

-----------------------------------------------------------------------------
(* Properties.                                                             *)

\* The counter is the number of worker threads alive, plus the one the
\* tasker thread has counted but not started: increments and decrements of
\* different threads never get out of step.
CountMatchesWorkers ==
  CURRENT_COUNT = Cardinality(Alive) + IF taskerPc = "start" THEN 1 ELSE 0

\* There are always fewer than MAX_THREAD_COUNT workers: the limit itself is
\* never reached, because incrementCounter tests CURRENT_COUNT + 1.
ConcurrencyBound == Cardinality(Alive) + 1 <= MAX_THREAD_COUNT

\* A queued job is in one place only: the queue, the tasker's local, a
\* worker, taken back, or done.  None is lost between poll() and the worker,
\* and none can run twice.
JobsConserved ==
  /\ added = Queued \cup Held \cup Running \cup removed \cup done
  /\ \A i, k \in 1..Len(valsToDl) : valsToDl[i] = valsToDl[k] => i = k
  /\ Queued \cap (Held \cup Running \cup removed \cup done) = {}
  /\ Held \cap (Running \cup removed \cup done) = {}
  /\ Running \cap (removed \cup done) = {}
  /\ removed \cap done = {}
  /\ \A v, w \in Worker : /\ workerPc[v] = "doJob"
                          /\ workerPc[w] = "doJob"
                          /\ workerJob[v] = workerJob[w]
                          => v = w

\* When hasJob() answers false every job ever queued has been done or taken
\* back.  ToppingEngine relies on this answer to start registering classes.
IdleMeansDone == ~hasJob => added = removed \cup done

\* A queued job is started and completed, unless it is taken back or the
\* tasker is told to exit first (exit abandons what is still queued).
QueuedIsDone ==
  \A j \in Job :
    (j \in added /\ taskerPc # "new") ~> (j \in removed \cup done \/ exit)
-----------------------------------------------------------------------------
(* What LuaTasker promises.                                                *)

\* Polling the queue is what starts a job.  After exit() a tasker thread that
\* had tested `exit' before goes on to poll once more.
Mode ==
  CASE exit /\ taskerPc = "synchronized"     -> "closing"
    [] exit /\ taskerPc # "synchronized"     -> "closed"
    [] ~exit /\ taskerPc = "new"             -> "new"
    [] ~exit /\ taskerPc # "new"             -> "open"

Pool == INSTANCE JobPool WITH
  pending <- valsToDl, running <- Held \cup Running, finished <- done,
  withdrawn <- removed, submitted <- added, mode <- Mode

\* Threads, counter and lock together are a job pool: jobs are started in
\* their order, each once and each at last, and at most one after exit().
IsJobPool == Pool!Spec

=============================================================================
