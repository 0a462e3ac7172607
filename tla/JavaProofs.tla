------------------------------ MODULE JavaProofs ------------------------------
(* Proofs about the parts of MCJava: the tasker, for every set of jobs, every  *)
(* finite set of worker places and every MAX_THREAD_COUNT; the live data and   *)
(* the scope of the view model, for any functions, owners, threads and bounds. *)
EXTENDS LuaTasker, LuaLiveData, LuaViewModel, DataLemmas, FiniteSetTheorems

-----------------------------------------------------------------------------
(* LuaTasker                                                                  *)

-----------------------------------------------------------------------------
(* The inductive invariant.                                                *)

\* The tasker thread holds a job exactly while it is about to start a worker.
TaskerInv == (taskerPc = "start") <=> (valToDoJob # NoJob)

\* A place has a job exactly while a thread is in it.
WorkerInv == \A w \in Worker : (workerPc[w] = "none") <=> (workerJob[w] = NoJob)

\* The counter itself stays below the limit; with CountMatchesWorkers this
\* bounds the workers.
CounterInv == CURRENT_COUNT + 1 <= MAX_THREAD_COUNT

IInv ==
  /\ TypeOK
  /\ TaskerInv
  /\ WorkerInv
  /\ CountMatchesWorkers
  /\ CounterInv
  /\ JobsConserved

\* The invariant holds before any call.
LEMMA InitIInv == Init => IInv
  <1> SUFFICES ASSUME Init PROVE IInv
    OBVIOUS
  <1> USE TaskerAssumption DEF Init
  <1>1. TypeOK
    <2>1. valsToDl \in Seq(Job)
      BY EmptySeq
    <2> QED
      BY <2>1 DEF TypeOK
  <1>2. TaskerInv /\ WorkerInv /\ CounterInv
    BY DEF TaskerInv, WorkerInv, CounterInv
  <1>3. Alive = {}
    BY DEF Alive
  <1>4. CountMatchesWorkers
    BY <1>3, FS_EmptySet DEF CountMatchesWorkers
  <1>5. Queued = {} /\ Held = {} /\ Running = {}
    BY DEF Queued, Held, Running, Range
  <1>6. JobsConserved
    BY <1>5 DEF JobsConserved
  <1> QED
    BY <1>1, <1>2, <1>4, <1>6 DEF IInv

\* Every step keeps the types.
LEMMA TypeStep == IInv /\ [Next]_vars => TypeOK'
  <1> SUFFICES ASSUME IInv, [Next]_vars PROVE TypeOK'
    OBVIOUS
  <1> USE TaskerAssumption DEF IInv, TypeOK
  <1>1. ASSUME NEW j \in Job, AddToQueue(j) PROVE TypeOK'
    BY <1>1, AppendProperties DEF AddToQueue, taskerVars, workerVars
  <1>2. ASSUME NEW j \in Job, RemoveFromQueue(j) PROVE TypeOK'
    <2>1. PICK i \in 1..Len(valsToDl) : valsToDl' = RemoveAt(valsToDl, i)
      BY <1>2 DEF RemoveFromQueue
    <2>2. valsToDl' \in Seq(Job)
      BY <2>1, RemoveAtLemma
    <2> QED
      BY <1>2, <2>2 DEF RemoveFromQueue, taskerVars, workerVars
  <1>3. CASE Exit
    BY <1>3 DEF Exit, taskerVars, workerVars
  <1>4. CASE StartTasker
    BY <1>4 DEF StartTasker, workerVars
  <1>5. CASE TestExit
    BY <1>5 DEF TestExit, workerVars
  <1>6. CASE PollJob
    <2>1. Head(valsToDl) \in Job /\ Tail(valsToDl) \in Seq(Job)
      BY <1>6, HeadTailProperties, EmptySeq DEF PollJob
    <2> QED
      BY <1>6, <2>1 DEF PollJob, workerVars
  <1>7. CASE PollNothing
    BY <1>7 DEF PollNothing, workerVars
  <1>8. ASSUME NEW w \in Worker, StartWorker(w) PROVE TypeOK'
    BY <1>8 DEF StartWorker
  <1>9. ASSUME NEW w \in Worker, DoJob(w) PROVE TypeOK'
    BY <1>9 DEF DoJob, taskerVars, IInv, WorkerInv
  <1>10. ASSUME NEW w \in Worker, DecrementCounter(w) PROVE TypeOK'
    <2>1. w \in Alive /\ IsFiniteSet(Alive)
      BY <1>10, FS_Subset DEF DecrementCounter, Alive
    <2>2. Cardinality(Alive) \in Nat \ {0}
      BY <2>1, FS_CardinalityType, FS_EmptySet
    <2>3. CURRENT_COUNT - 1 \in Nat
      BY <2>2 DEF CountMatchesWorkers
    <2> QED
      BY <1>10, <2>3 DEF DecrementCounter, taskerVars
  <1>11. CASE UNCHANGED vars
    BY <1>11 DEF vars, taskerVars, workerVars
  <1> QED
    BY <1>1, <1>2, <1>3, <1>4, <1>5, <1>6, <1>7, <1>8, <1>9, <1>10, <1>11
       DEF Next, Tasker

\* The two facts about program counters.
LEMMA PcStep == IInv /\ [Next]_vars => TaskerInv' /\ WorkerInv'
  <1> SUFFICES ASSUME IInv, [Next]_vars PROVE TaskerInv' /\ WorkerInv'
    OBVIOUS
  <1> USE TaskerAssumption DEF IInv, TypeOK, TaskerInv, WorkerInv
  <1>1. ASSUME NEW j \in Job, AddToQueue(j) \/ RemoveFromQueue(j) \/ Exit
        PROVE TaskerInv' /\ WorkerInv'
    BY <1>1 DEF AddToQueue, RemoveFromQueue, Exit, taskerVars, workerVars
  <1>2. CASE Exit \/ StartTasker \/ TestExit \/ PollNothing
    BY <1>2 DEF Exit, StartTasker, TestExit, PollNothing, taskerVars, workerVars
  <1>3. CASE PollJob
    <2>1. Head(valsToDl) \in Job
      BY <1>3, HeadTailProperties, EmptySeq DEF PollJob
    <2> QED
      BY <1>3, <2>1 DEF PollJob, workerVars
  <1>4. ASSUME NEW w \in Worker, StartWorker(w) PROVE TaskerInv' /\ WorkerInv'
    BY <1>4 DEF StartWorker
  <1>5. ASSUME NEW w \in Worker, DoJob(w) \/ DecrementCounter(w)
        PROVE TaskerInv' /\ WorkerInv'
    BY <1>5 DEF DoJob, DecrementCounter, taskerVars
  <1>6. CASE UNCHANGED vars
    BY <1>6 DEF vars, taskerVars, workerVars
  <1> QED
    BY <1>1, <1>2, <1>3, <1>4, <1>5, <1>6 DEF Next, Tasker

\* The counter follows the worker threads.
LEMMA CountStep == IInv /\ [Next]_vars => CountMatchesWorkers' /\ CounterInv'
  <1> SUFFICES ASSUME IInv, [Next]_vars PROVE CountMatchesWorkers' /\ CounterInv'
    OBVIOUS
  <1> USE TaskerAssumption DEF IInv, TypeOK, CounterInv
  <1>1. IsFiniteSet(Alive) /\ Cardinality(Alive) \in Nat
    BY FS_Subset, FS_CardinalityType DEF Alive
  <1>2. CASE UNCHANGED <<CURRENT_COUNT, workerPc>> /\ (taskerPc = "start" <=> taskerPc' = "start")
    BY <1>2 DEF CountMatchesWorkers, Alive
  <1>3. ASSUME NEW j \in Job, AddToQueue(j) \/ RemoveFromQueue(j)
        PROVE  CountMatchesWorkers' /\ CounterInv'
    BY <1>2, <1>3 DEF AddToQueue, RemoveFromQueue, taskerVars, workerVars
  <1>4. CASE Exit \/ StartTasker \/ TestExit \/ PollNothing
    BY <1>2, <1>4 DEF Exit, StartTasker, TestExit, PollNothing, taskerVars, workerVars
  <1>5. CASE PollJob
    <2>1. Alive' = Alive /\ taskerPc = "synchronized" /\ taskerPc' = "start"
          /\ CURRENT_COUNT' = CURRENT_COUNT + 1
      BY <1>5 DEF PollJob, Alive, workerVars
    <2> QED
      BY <1>5, <2>1, <1>1 DEF PollJob, CanStart, CountMatchesWorkers
  <1>6. ASSUME NEW w \in Worker, StartWorker(w)
        PROVE  CountMatchesWorkers' /\ CounterInv'
    <2>1. Alive' = Alive \cup {w} /\ w \notin Alive
      BY <1>6 DEF StartWorker, Alive
    <2>2. Cardinality(Alive') = Cardinality(Alive) + 1
      BY <2>1, <1>1, FS_AddElement
    <2> QED
      BY <1>1, <1>6, <2>2 DEF StartWorker, CountMatchesWorkers
  <1>7. ASSUME NEW w \in Worker, DoJob(w)
        PROVE  CountMatchesWorkers' /\ CounterInv'
    <2>1. Alive' = Alive
      BY <1>7 DEF DoJob, Alive
    <2> QED
      BY <1>7, <2>1 DEF DoJob, CountMatchesWorkers, taskerVars
  <1>8. ASSUME NEW w \in Worker, DecrementCounter(w)
        PROVE  CountMatchesWorkers' /\ CounterInv'
    <2>1. Alive' = Alive \ {w} /\ w \in Alive
      BY <1>8 DEF DecrementCounter, Alive
    <2>2. Cardinality(Alive') = Cardinality(Alive) - 1
      BY <2>1, <1>1, FS_RemoveElement
    <2> QED
      BY <1>1, <1>8, <2>2, SMTT(45) DEF DecrementCounter, CountMatchesWorkers, taskerVars
  <1>9. CASE UNCHANGED vars
    BY <1>2, <1>9 DEF vars, taskerVars, workerVars
  <1> QED
    BY <1>3, <1>4, <1>5, <1>6, <1>7, <1>8, <1>9 DEF Next, Tasker

\* Jobs move from place to place and are never lost or doubled.
LEMMA JobStep == IInv /\ [Next]_vars => JobsConserved'
  <1> SUFFICES ASSUME IInv, [Next]_vars PROVE JobsConserved'
    OBVIOUS
  <1> USE TaskerAssumption DEF IInv
  <1>0. NoDup(valsToDl) /\ valsToDl \in Seq(Job)
    BY DEF JobsConserved, NoDup, TypeOK
  <1>1. ASSUME NEW j \in Job, AddToQueue(j) PROVE JobsConserved'
    <2>1. Queued' = Queued \cup {j}
      BY <1>0, <1>1, AppendRange DEF AddToQueue, Queued
    <2>2. j \notin Queued
      BY <1>1 DEF AddToQueue, JobsConserved
    <2>3. NoDup(valsToDl')
      <3>1. /\ Len(valsToDl) \in Nat /\ Len(valsToDl') = Len(valsToDl) + 1
            /\ \A k \in 1..Len(valsToDl) : valsToDl'[k] = valsToDl[k]
            /\ valsToDl'[Len(valsToDl) + 1] = j
        BY <1>0, <1>1, AppendProperties, LenProperties DEF AddToQueue
      <3>2. \A k \in 1..Len(valsToDl) : valsToDl[k] # j
        BY <1>0, <2>2, LenProperties DEF Queued, Range
      <3> QED
        BY <1>0, <3>1, <3>2 DEF NoDup
    <2>4. UNCHANGED <<Held, Running, removed, done>> /\ added' = added \cup {j}
      BY <1>1 DEF AddToQueue, taskerVars, workerVars, Held, Running
    <2>5. UNCHANGED <<workerPc, workerJob>>
      BY <1>1 DEF AddToQueue, workerVars
    <2>6. j \notin added
      BY <1>1 DEF AddToQueue
    <2> QED
      BY <2>1, <2>2, <2>3, <2>4, <2>5, <2>6 DEF JobsConserved, NoDup
  <1>2. ASSUME NEW j \in Job, RemoveFromQueue(j) PROVE JobsConserved'
    <2>1. PICK i \in 1..Len(valsToDl) :
            valsToDl[i] = j /\ valsToDl' = RemoveAt(valsToDl, i)
      BY <1>2 DEF RemoveFromQueue
    <2>2. Queued' = Queued \ {j} /\ NoDup(valsToDl')
      BY <1>0, <2>1, RemoveAtRange DEF Queued
    <2>3. j \in Queued
      BY <1>0, <2>1, LenProperties DEF Queued, Range
    <2>4. UNCHANGED <<Held, Running, added, done, workerPc, workerJob>>
          /\ removed' = removed \cup {j}
      BY <1>2 DEF RemoveFromQueue, taskerVars, workerVars, Held, Running
    <2> QED
      BY <2>2, <2>3, <2>4 DEF JobsConserved, NoDup
  <1>3. CASE UNCHANGED <<valsToDl, valToDoJob, workerPc, workerJob, added, removed, done>>
    BY <1>3 DEF JobsConserved, Queued, Held, Running
  <1>4. CASE Exit \/ StartTasker \/ TestExit \/ PollNothing \/ UNCHANGED vars
    BY <1>3, <1>4 DEF Exit, StartTasker, TestExit, PollNothing, vars, taskerVars, workerVars
  <1>5. CASE PollJob
    <2>1. Queued' = Queued \ {Head(valsToDl)} /\ NoDup(valsToDl')
          /\ Head(valsToDl) \in Queued /\ Head(valsToDl) \in Job
      BY <1>0, <1>5, TailRange DEF PollJob, Queued
    <2>2. Held = {} /\ Held' = {Head(valsToDl)}
      BY <1>5, <2>1 DEF PollJob, Held, TaskerInv
    <2>3. UNCHANGED <<Running, added, removed, done, workerPc, workerJob>>
      BY <1>5 DEF PollJob, workerVars, Running
    <2> QED
      BY <2>1, <2>2, <2>3 DEF JobsConserved, NoDup
  <1>6. ASSUME NEW w \in Worker, StartWorker(w) PROVE JobsConserved'
    <2>1. Held = {valToDoJob} /\ Held' = {}
      BY <1>6 DEF StartWorker, Held, TaskerInv
    <2>2. Running' = Running \cup {valToDoJob}
      BY <1>6 DEF StartWorker, Running, TypeOK
    <2>3. UNCHANGED <<valsToDl, Queued, added, removed, done>>
      BY <1>6 DEF StartWorker, Queued
    <2>4. \A u, v \in Worker :
            workerPc'[u] = "doJob" /\ workerPc'[v] = "doJob" /\ workerJob'[u] = workerJob'[v]
            => u = v
      <3>1. \A v \in Worker : workerPc[v] = "doJob" => workerJob[v] # valToDoJob
        BY <2>1 DEF JobsConserved, Running
      <3> QED
        BY <1>6, <3>1 DEF StartWorker, TypeOK, JobsConserved
    <2> QED
      BY <2>1, <2>2, <2>3, <2>4 DEF JobsConserved
  <1>7. ASSUME NEW w \in Worker, DoJob(w) PROVE JobsConserved'
    <2>1. workerJob[w] \in Running
      BY <1>7 DEF DoJob, Running
    <2>2. Running' = Running \ {workerJob[w]}
      BY <1>7 DEF DoJob, Running, TypeOK, JobsConserved
    <2>3. UNCHANGED <<valsToDl, Queued, Held, added, removed, workerJob>>
          /\ done' = done \cup {workerJob[w]}
      BY <1>7 DEF DoJob, Queued, Held, taskerVars
    <2>4. \A v \in Worker : workerPc'[v] = "doJob" => workerPc[v] = "doJob"
      BY <1>7 DEF DoJob, TypeOK
    <2> QED
      BY <2>1, <2>2, <2>3, <2>4 DEF JobsConserved
  <1>8. ASSUME NEW w \in Worker, DecrementCounter(w) PROVE JobsConserved'
    <2>1. \A v \in Worker :
            /\ workerPc'[v] = "doJob" <=> workerPc[v] = "doJob"
            /\ workerPc[v] = "doJob" => workerJob'[v] = workerJob[v]
      BY <1>8 DEF DecrementCounter, TypeOK
    <2>2. UNCHANGED <<Running, valsToDl, Queued, Held, added, removed, done>>
      BY <1>8, <2>1 DEF DecrementCounter, Queued, Held, Running, taskerVars
    <2> QED
      BY <2>1, <2>2 DEF JobsConserved
  <1> QED
    BY <1>1, <1>2, <1>4, <1>5, <1>6, <1>7, <1>8 DEF Next, Tasker

\* Every step of every thread keeps the invariant.
LEMMA StepIInv == IInv /\ [Next]_vars => IInv'
  BY TypeStep, PcStep, CountStep, JobStep DEF IInv

\* The inductive invariant holds in every behaviour.
LEMMA SpecIInv == SafetySpec => []IInv
  <1> QED
    BY InitIInv, StepIInv, PTL DEF SafetySpec

-----------------------------------------------------------------------------
(* The results.                                                            *)

\* Type correctness: in particular the counter never goes below zero.
THEOREM TypeCorrect == SafetySpec => []TypeOK
  <1>1. IInv => TypeOK
    BY DEF IInv
  <1> QED
    BY <1>1, SpecIInv, PTL

\* The counter never gets out of step with the worker threads.
THEOREM CountIsExact == SafetySpec => []CountMatchesWorkers
  <1>1. IInv => CountMatchesWorkers
    BY DEF IInv
  <1> QED
    BY <1>1, SpecIInv, PTL

\* At most MAX_THREAD_COUNT - 1 workers are alive.
THEOREM WorkersBounded == SafetySpec => []ConcurrencyBound
  <1>1. IInv => ConcurrencyBound
    <2>1. IsFiniteSet(Alive)
      BY TaskerAssumption, FS_Subset DEF Alive
    <2> QED
      BY <2>1, FS_CardinalityType, TaskerAssumption
         DEF IInv, TypeOK, CountMatchesWorkers, CounterInv, ConcurrencyBound
  <1> QED
    BY <1>1, SpecIInv, PTL

\* No job is lost and none runs twice.
THEOREM NoJobLostOrDoubled == SafetySpec => []JobsConserved
  <1>1. IInv => JobsConserved
    BY DEF IInv
  <1> QED
    BY <1>1, SpecIInv, PTL

\* With the queue empty and the counter at zero there is no place left for a
\* job to be in.
LEMMA IdleLemma == IInv => IdleMeansDone
  <1> SUFFICES ASSUME IInv, ~hasJob PROVE added = removed \cup done
    BY DEF IdleMeansDone
  <1> USE TaskerAssumption DEF IInv, TypeOK
  <1>1. Len(valsToDl) = 0 /\ CURRENT_COUNT = 0
    BY LenProperties DEF hasJob
  <1>2. Queued = {}
    BY <1>1, EmptySeq DEF Queued, Range
  <1>3. IsFiniteSet(Alive) /\ Cardinality(Alive) \in Nat
    BY FS_Subset, FS_CardinalityType DEF Alive
  <1>4. Cardinality(Alive) = 0 /\ taskerPc # "start"
    BY <1>1, <1>3 DEF CountMatchesWorkers
  <1>5. Alive = {}
    BY <1>3, <1>4, FS_EmptySet
  <1>6. Held = {} /\ Running = {}
    BY <1>4, <1>5 DEF Held, TaskerInv, Running, Alive
  <1> QED
    BY <1>2, <1>6 DEF JobsConserved

\* hasJob() answers false only when all the work queued so far is finished.
THEOREM IdleIsDone == SafetySpec => []IdleMeansDone
  <1> QED
    BY IdleLemma, SpecIInv, PTL
-----------------------------------------------------------------------------
(* LuaTasker implements JobPool.                                           *)

\* A tasker that has not been started is a pool that has not been opened.
LEMMA InitPool == Init => Pool!Init
  <1> SUFFICES ASSUME Init PROVE Pool!Init
    OBVIOUS
  <1>1. Held = {} /\ Running = {} /\ Mode = "new"
    BY DEF Init, Held, Running, Mode
  <1> QED
    BY <1>1 DEF Init, Pool!Init

\* How the mode depends on what a step leaves alone.
LEMMA ModeSame ==
  ASSUME UNCHANGED <<exit, taskerPc>>
  PROVE  Mode' = Mode
  BY DEF Mode

\* A step of LuaTasker is a step of the pool or is not seen by it.
LEMMA StepPool == IInv /\ [Next]_vars => [Pool!Next]_(Pool!vars)
  <1> SUFFICES ASSUME IInv, [Next]_vars PROVE [Pool!Next]_(Pool!vars)
    OBVIOUS
  <1> DEFINE Started == Held \cup Running
  <1> USE TaskerAssumption DEF IInv, TypeOK
  <1>1. ASSUME NEW j \in Job, AddToQueue(j) PROVE Pool!Next
    <2>1. Mode' = Mode /\ Started' = Started
      BY <1>1, ModeSame DEF AddToQueue, taskerVars, workerVars, Held, Running
    <2>2. Pool!Submit(j)
      BY <1>1, <2>1 DEF AddToQueue, workerVars, Pool!Submit
    <2> QED
      BY <2>2 DEF Pool!Next
  <1>2. ASSUME NEW j \in Job, RemoveFromQueue(j) PROVE Pool!Next
    <2>1. Mode' = Mode /\ Started' = Started
      BY <1>2, ModeSame DEF RemoveFromQueue, taskerVars, workerVars, Held, Running
    <2>2. Pool!Withdraw(j)
      BY <1>2, <2>1 DEF RemoveFromQueue, workerVars, Pool!Withdraw, Pool!RemoveAt, RemoveAt
    <2> QED
      BY <2>2 DEF Pool!Next
  <1>3. CASE Exit
    <2>1. Started' = Started
      BY <1>3 DEF Exit, taskerVars, workerVars, Held, Running
    <2>2. UNCHANGED <<valsToDl, done, removed, added>>
      BY <1>3 DEF Exit, workerVars
    <2>3. CASE exit
      <3>1. Mode' = Mode
        BY <1>3, <2>3 DEF Exit, taskerVars, Mode
      <3> QED
        BY <2>1, <2>2, <3>1 DEF Pool!vars
    <2>4. CASE ~exit
      <3>1. \/ Mode = "new" /\ Mode' = "closed"
            \/ Mode = "open" /\ Mode' \in {"closing", "closed"}
        BY <1>3, <2>4 DEF Exit, taskerVars, Mode
      <3>2. Pool!Close
        BY <2>1, <2>2, <3>1 DEF Pool!Close
      <3> QED
        BY <3>2 DEF Pool!Next
    <2> QED
      BY <2>3, <2>4
  <1>4. CASE StartTasker
    <2>1. Started' = Started /\ UNCHANGED <<valsToDl, done, removed, added>>
      BY <1>4 DEF StartTasker, workerVars, Held, Running
    <2>2. CASE exit
      <3>1. Mode' = Mode
        BY <1>4, <2>2 DEF StartTasker, Mode
      <3> QED
        BY <2>1, <3>1 DEF Pool!vars
    <2>3. CASE ~exit
      <3>1. Mode = "new" /\ Mode' = "open"
        BY <1>4, <2>3 DEF StartTasker, Mode
      <3>2. Pool!Open
        BY <2>1, <3>1 DEF Pool!Open
      <3> QED
        BY <3>2 DEF Pool!Next
    <2> QED
      BY <2>2, <2>3
  <1>5. CASE TestExit
    <2>1. Started' = Started /\ UNCHANGED <<valsToDl, done, removed, added>>
      BY <1>5 DEF TestExit, workerVars, Held, Running
    <2>2. Mode' = Mode
      BY <1>5 DEF TestExit, Mode
    <2> QED
      BY <2>1, <2>2 DEF Pool!vars
  <1>6. CASE PollJob
    <2>1. valsToDl # <<>> /\ Head(valsToDl) \in Queued
      <3>1. valsToDl # <<>>
        BY <1>6, LenProperties, EmptySeq DEF PollJob
      <3>2. Head(valsToDl) = valsToDl[1] /\ 1 \in DOMAIN valsToDl
        BY <3>1, HeadTailProperties, LenProperties, EmptySeq
      <3> QED
        BY <3>1, <3>2 DEF Queued, Range
    <2>2. Head(valsToDl) \notin Started \cup done \cup removed
      BY <2>1 DEF JobsConserved
    <2>3. Head(valsToDl) \in Job
      BY <2>1, HeadTailProperties
    <2>4. Started' = Started \cup {Head(valsToDl)}
      <3>1. Held = {} /\ Held' = {Head(valsToDl)}
        BY <1>6, <2>3 DEF PollJob, Held, TaskerInv
      <3>2. Running' = Running
        BY <1>6 DEF PollJob, workerVars, Running
      <3> QED
        BY <3>1, <3>2
    <2>5. /\ Mode \in {"open", "closing"}
          /\ Mode' = IF Mode = "open" THEN "open" ELSE "closed"
      BY <1>6 DEF PollJob, Mode
    <2>6. Pool!Start
      BY <1>6, <2>1, <2>2, <2>4, <2>5 DEF PollJob, workerVars, Pool!Start
    <2> QED
      BY <2>6 DEF Pool!Next
  <1>7. CASE PollNothing
    <2>1. Started' = Started /\ UNCHANGED <<valsToDl, done, removed, added>>
      BY <1>7 DEF PollNothing, workerVars, Held, Running
    <2>2. CASE exit
      <3>1. Mode = "closing" /\ Mode' = "closed"
        BY <1>7, <2>2 DEF PollNothing, Mode
      <3>2. Pool!Close
        BY <2>1, <3>1 DEF Pool!Close
      <3> QED
        BY <3>2 DEF Pool!Next
    <2>3. CASE ~exit
      <3>1. Mode' = Mode
        BY <1>7, <2>3 DEF PollNothing, Mode
      <3> QED
        BY <2>1, <3>1 DEF Pool!vars
    <2> QED
      BY <2>2, <2>3
  <1>8. ASSUME NEW w \in Worker, StartWorker(w) PROVE UNCHANGED Pool!vars
    <2>1. Held = {valToDoJob} /\ Held' = {}
      BY <1>8 DEF StartWorker, Held, TaskerInv
    <2>2. Running' = Running \cup {valToDoJob}
      BY <1>8 DEF StartWorker, Running
    <2>3. Mode' = Mode
      BY <1>8 DEF StartWorker, Mode
    <2> QED
      BY <1>8, <2>1, <2>2, <2>3 DEF StartWorker, Pool!vars
  <1>9. ASSUME NEW w \in Worker, DoJob(w) PROVE Pool!Next
    <2>1. Mode' = Mode /\ Held' = Held
      BY <1>9, ModeSame DEF DoJob, taskerVars, Held
    <2>2. workerJob[w] \in Job /\ workerJob[w] \in Running
      BY <1>9 DEF DoJob, WorkerInv, Running
    <2>3. Running' = Running \ {workerJob[w]}
      BY <1>9 DEF DoJob, Running, JobsConserved
    <2>4. workerJob[w] \notin Held
      BY <2>2 DEF JobsConserved
    <2>5. Started' = Started \ {workerJob[w]}
      BY <2>1, <2>3, <2>4
    <2>6. Pool!Finish(workerJob[w])
      BY <1>9, <2>1, <2>2, <2>5 DEF DoJob, Pool!Finish
    <2> QED
      BY <2>2, <2>6 DEF Pool!Next
  <1>10. ASSUME NEW w \in Worker, DecrementCounter(w) PROVE UNCHANGED Pool!vars
    <2>1. Running' = Running
      BY <1>10 DEF DecrementCounter, Running
    <2>2. Mode' = Mode /\ Held' = Held
      BY <1>10, ModeSame DEF DecrementCounter, taskerVars, Held
    <2> QED
      BY <1>10, <2>1, <2>2 DEF DecrementCounter, Pool!vars
  <1>11. CASE UNCHANGED vars
    <2>1. Mode' = Mode /\ Started' = Started
      BY <1>11, ModeSame DEF vars, taskerVars, workerVars, Held, Running
    <2> QED
      BY <1>11, <2>1 DEF vars, workerVars, Pool!vars
  <1> QED
    BY <1>1, <1>2, <1>3, <1>4, <1>5, <1>6, <1>7, <1>8, <1>9, <1>10, <1>11 DEF Next, Tasker

\* The tasker with its threads, counter and lock implements the safety part
\* of the job pool: started in order, each job once, one at most after exit().
THEOREM ImplementsJobPool == SafetySpec => Pool!SafetySpec
  <1> QED
    BY InitPool, StepPool, SpecIInv, PTL DEF SafetySpec, Pool!SafetySpec

-----------------------------------------------------------------------------
(* LuaLiveData                                                                *)

-----------------------------------------------------------------------------
(* The inductive invariant.                                                *)

\* What is needed of the types.
KeyTypes ==
  /\ wraps \in Seq(Function)
  /\ handles \subseteq 1..Len(wraps)
  /\ handles \subseteq Translator
  /\ calls \in Seq(Translator)
  /\ Len(calls) <= MaxObservers
  /\ observerMap \in [Translator -> 0..Len(calls)]
  /\ attached \in [Observer -> Owner \cup {None}]

\* observerMap only leads to Observers that were made for the translator,
\* and an attached Observer has been made.
MapInv ==
  /\ \A lt \in Translator : observerMap[lt] # 0 => calls[observerMap[lt]] = lt
  /\ \A o \in Attached : o \in 1..Len(calls)

\* A removed translator is one that a script can pass again, and the map has
\* nothing for it.
RemovedInv ==
  /\ removedHandles \subseteq handles
  /\ \A lt \in removedHandles : observerMap[lt] = 0

LiveDataInv == KeyTypes /\ MapInv /\ AttachedInMap /\ RemovedInv

\* Nothing is observed at first.
LEMMA InitLiveDataInv == LiveDataInit => LiveDataInv
  <1> SUFFICES ASSUME LiveDataInit PROVE LiveDataInv
    OBVIOUS
  <1>1. Attached = {}
    BY DEF LiveDataInit, Attached
  <1>2. KeyTypes
    <2>1. wraps \in Seq(Function) /\ calls \in Seq(Translator) /\ Len(calls) = 0
      BY EmptySeq DEF LiveDataInit
    <2>2. observerMap \in [Translator -> 0..Len(calls)]
      BY <2>1 DEF LiveDataInit
    <2> QED
      BY <2>1, <2>2, LiveDataAssumption DEF LiveDataInit, KeyTypes
  <1>3. MapInv /\ AttachedInMap /\ RemovedInv
    BY <1>1 DEF LiveDataInit, MapInv, AttachedInMap, RemovedInv
  <1> QED
    BY <1>2, <1>3 DEF LiveDataInv

\* The invariant depends on these variables only.
LEMMA StutterLemma ==
  ASSUME LiveDataInv, UNCHANGED <<wraps, handles, observerMap, calls, attached, removedHandles>>
  PROVE  LiveDataInv'
  BY DEF LiveDataInv, KeyTypes, MapInv, AttachedInMap, RemovedInv, Attached

\* What a translator is, as observe and removeObserver get it: fresh, or one
\* of the registered ones.
Argument(lt) ==
  /\ lt \in Translator
  /\ wraps' \in Seq(Function)
  /\ Len(wraps) <= Len(wraps')
  /\ handles' = handles
  /\ lt \in handles \/ lt = Len(wraps) + 1

\* A function that the thunk has wrapped is such an argument.
LEMMA WrappedLemma ==
  ASSUME LiveDataInv, NEW f \in Function, NEW lt \in Translator, Wrapped(f, lt)
  PROVE  Argument(lt)
  BY AppendProperties, LenProperties DEF LiveDataInv, KeyTypes, Wrapped, Argument

\* So is a registered translator.
LEMMA PassedLemma ==
  ASSUME LiveDataInv, NEW lt \in handles, Passed(lt)
  PROVE  Argument(lt)
  BY LenProperties DEF LiveDataInv, KeyTypes, Passed, Argument

\* Detaching the Observer of lt leaves only Observers of other translators.
LEMMA DetachLemma ==
  ASSUME LiveDataInv, NEW lt \in Translator
  PROVE  /\ Detach(lt) \in [Observer -> Owner \cup {None}]
         /\ \A o \in Observer : Detach(lt)[o] # None =>
              o \in Attached /\ calls[o] # lt
  <1> USE DEF LiveDataInv, KeyTypes
  <1>1. Detach(lt) \in [Observer -> Owner \cup {None}]
    BY DEF Detach
  <1>2. ASSUME NEW o \in Observer, Detach(lt)[o] # None
        PROVE  o \in Attached /\ calls[o] # lt
    <2>1. attached[o] # None /\ o # observerMap[lt]
      BY <1>2, LiveDataAssumption DEF Detach, Observer
    <2>2. o \in Attached
      BY <2>1 DEF Attached
    <2> QED
      BY <2>1, <2>2 DEF AttachedInMap
  <1> QED
    BY <1>1, <1>2

\* observe keeps the invariant.
LEMMA ObserveLemma ==
  ASSUME LiveDataInv, NEW w \in Owner, NEW lt \in Translator, Argument(lt), Observe(w, lt),
         removedHandles' = removedHandles \ {lt}
  PROVE  LiveDataInv'
  <1> USE DEF LiveDataInv, KeyTypes, Translator, Observer
  <1> DEFINE o == Len(calls) + 1
  <1>1. /\ o \in Observer /\ o \in Nat /\ o # 0
        /\ calls' = Append(calls, lt)
        /\ observerMap' = [observerMap EXCEPT ![lt] = o]
        /\ attached' = Detach(lt) \/ attached' = [Detach(lt) EXCEPT ![o] = w]
    BY LenProperties, LiveDataAssumption, SMTT(45) DEF Observe
  <1>2. /\ calls' \in Seq(Translator) /\ Len(calls') = o
        /\ \A k \in 1..Len(calls) : calls'[k] = calls[k]
        /\ calls'[o] = lt
    BY <1>1, AppendProperties, LenProperties
  <1>3. Len(calls) \in Nat /\ Len(wraps) \in Nat /\ Len(wraps') \in Nat
    BY LenProperties DEF Argument
  <1> HIDE DEF o
  <1>4. KeyTypes'
    <2>1. observerMap' \in [Translator -> 0..Len(calls')]
      BY <1>1, <1>2, <1>3 DEF o
    <2>2. attached' \in [Observer -> Owner \cup {None}]
      BY <1>1, DetachLemma, ZenonT(60)
    <2>3. handles' \subseteq 1..Len(wraps') /\ handles' \subseteq Translator
          /\ wraps' \in Seq(Function)
      BY <1>3 DEF Argument
    <2>4. Len(calls') <= MaxObservers
      BY <1>1, <1>2 DEF Observe, o
    <2> QED
      BY <1>2, <2>1, <2>2, <2>3, <2>4
  <1>5. \A k \in Observer : attached'[k] # None =>
          k = o \/ (k \in Attached /\ calls[k] # lt)
    BY <1>1, DetachLemma
  <1>6. MapInv'
    <2>1. \A k \in Attached' : k \in 1..Len(calls')
      BY <1>2, <1>3, <1>5 DEF MapInv, Attached, o
    <2>2. ASSUME NEW t \in Translator, observerMap'[t] # 0
          PROVE  calls'[observerMap'[t]] = t
      BY <1>1, <1>2, <1>3, <2>2, SMTT(45) DEF MapInv
    <2> QED
      BY <2>1, <2>2 DEF MapInv
  <1>7. AttachedInMap'
    <2> SUFFICES ASSUME NEW k \in Attached' PROVE observerMap'[calls'[k]] = k
      BY DEF AttachedInMap
    <2>1. CASE k = o
      BY <1>1, <1>2, <2>1
    <2>2. CASE k \in Attached /\ calls[k] # lt
      <3>1. k \in 1..Len(calls) /\ calls[k] \in Translator
        BY <2>2, LenProperties, ElementOfSeq DEF MapInv
      <3> QED
        BY <1>1, <1>2, <2>2, <3>1 DEF AttachedInMap
    <2> QED
      BY <1>5, <2>1, <2>2 DEF Attached
  <1>8. RemovedInv'
    BY <1>1 DEF RemovedInv, Argument
  <1> QED
    BY <1>4, <1>6, <1>7, <1>8

\* removeObserver keeps the invariant.
LEMMA RemoveLemma ==
  ASSUME LiveDataInv, NEW lt \in Translator, Argument(lt), RemoveObserver(lt),
         \/ removedHandles' = removedHandles
         \/ lt \in handles /\ removedHandles' = removedHandles \cup {lt}
  PROVE  LiveDataInv'
  <1> USE DEF LiveDataInv, KeyTypes, Translator, Observer
  <1>1. /\ attached' = Detach(lt) /\ calls' = calls
        /\ observerMap' = [observerMap EXCEPT ![lt] = 0]
    BY DEF RemoveObserver
  <1>2. Len(calls) \in Nat /\ Len(wraps) \in Nat /\ Len(wraps') \in Nat
    BY LenProperties DEF Argument
  <1>3. KeyTypes'
    BY <1>1, <1>2, DetachLemma DEF Argument
  <1>4. \A k \in Observer : attached'[k] # None => k \in Attached /\ calls[k] # lt
    BY <1>1, DetachLemma
  <1>5. MapInv'
    BY <1>1, <1>4 DEF MapInv, Attached
  <1>6. AttachedInMap'
    <2> SUFFICES ASSUME NEW k \in Attached' PROVE observerMap'[calls'[k]] = k
      BY DEF AttachedInMap
    <2>1. k \in Attached /\ calls[k] # lt
      BY <1>4 DEF Attached
    <2>2. k \in 1..Len(calls) /\ calls[k] \in Translator
      BY <2>1, LenProperties, ElementOfSeq DEF MapInv
    <2> QED
      BY <1>1, <2>1, <2>2 DEF AttachedInMap
  <1>7. RemovedInv'
    BY <1>1 DEF RemovedInv, Argument
  <1> QED
    BY <1>3, <1>5, <1>6, <1>7

\* Every step keeps the invariant.
LEMMA StepLiveDataInv == LiveDataInv /\ [LiveDataNext]_liveDataVars => LiveDataInv'
  <1> SUFFICES ASSUME LiveDataInv, [LiveDataNext]_liveDataVars PROVE LiveDataInv'
    OBVIOUS
  <1>1. CASE ConsiderNotify \/ CallbackReturns
    BY <1>1, StutterLemma DEF ConsiderNotify, CallbackReturns, luaVars, historyVars
  <1>2. ASSUME NEW f \in Function, RegisterTranslator(f) PROVE LiveDataInv'
    <2>1. /\ wraps' \in Seq(Function) /\ Len(wraps') = Len(wraps) + 1
          /\ Len(wraps) \in Nat /\ Len(wraps) + 1 \in Translator
      BY <1>2, AppendProperties, LenProperties, LiveDataAssumption
         DEF RegisterTranslator, LiveDataInv, KeyTypes, Translator
    <2>2. /\ handles' = handles \cup {Len(wraps) + 1}
          /\ UNCHANGED <<observerMap, calls, attached, removedHandles>>
      BY <1>2 DEF RegisterTranslator, historyVars
    <2>3. KeyTypes'
      <3>1. ASSUME NEW h \in handles' PROVE h \in 1..Len(wraps') /\ h \in Translator
        <4>1. CASE h \in handles
          <5>1. h \in 1..Len(wraps) /\ h \in Translator
            BY <4>1 DEF LiveDataInv, KeyTypes
          <5> QED
            BY <2>1, <5>1
        <4>2. CASE h = Len(wraps) + 1
          BY <2>1, <4>2
        <4> QED
          BY <2>2, <3>1, <4>1, <4>2
      <3>2. observerMap' \in [Translator -> 0..Len(calls')]
        BY <2>2 DEF LiveDataInv, KeyTypes
      <3> QED
        BY <2>1, <2>2, <3>1, <3>2 DEF LiveDataInv, KeyTypes
    <2>4. MapInv' /\ AttachedInMap' /\ RemovedInv'
      BY <2>2 DEF LiveDataInv, MapInv, AttachedInMap, RemovedInv, Attached
    <2> QED
      BY <2>3, <2>4 DEF LiveDataInv
  <1>3. ASSUME NEW w \in Owner, ScriptObserves(w) PROVE LiveDataInv'
    <2>1. ASSUME NEW f \in Function, NEW lt \in Translator, Wrapped(f, lt), Observe(w, lt),
                 UNCHANGED removedHandles
          PROVE  LiveDataInv'
      <3>1. Argument(lt)
        BY <2>1, WrappedLemma
      <3>2. lt \notin removedHandles
        BY <2>1, LenProperties DEF Wrapped, LiveDataInv, KeyTypes, RemovedInv
      <3> QED
        BY <2>1, <3>1, <3>2, ObserveLemma
    <2>2. ASSUME NEW lt \in handles, Passed(lt), Observe(w, lt),
                 removedHandles' = removedHandles \ {lt}
          PROVE  LiveDataInv'
      <3>1. Argument(lt) /\ lt \in Translator
        BY <2>2, PassedLemma DEF Argument
      <3> QED
        BY <2>2, <3>1, ObserveLemma
    <2> QED
      BY <1>3, <2>1, <2>2 DEF ScriptObserves
  <1>4. ASSUME ScriptRemoves PROVE LiveDataInv'
    <2>1. ASSUME NEW f \in Function, NEW lt \in Translator, Wrapped(f, lt),
                 RemoveObserver(lt), UNCHANGED removedHandles
          PROVE  LiveDataInv'
      BY <2>1, WrappedLemma, RemoveLemma
    <2>2. ASSUME NEW lt \in handles, Passed(lt), RemoveObserver(lt),
                 removedHandles' = removedHandles \cup {lt}
          PROVE  LiveDataInv'
      <3>1. Argument(lt) /\ lt \in Translator
        BY <2>2, PassedLemma DEF Argument
      <3> QED
        BY <2>2, <3>1, RemoveLemma
    <2> QED
      BY <1>4, <2>1, <2>2 DEF ScriptRemoves
  <1>5. CASE SetValue \/ PostValue \/ SetPosted
    BY <1>5, StutterLemma DEF SetValue, PostValue, SetPosted, luaVars, historyVars
  <1>6. ASSUME NEW w \in Owner, Start(w) \/ Stop(w) PROVE LiveDataInv'
    BY <1>6, StutterLemma DEF Start, Stop, luaVars, historyVars
  <1>7. ASSUME NEW w \in Owner, Destroy(w) PROVE LiveDataInv'
    <2>1. /\ attached' \in [Observer -> Owner \cup {None}]
          /\ \A o \in Observer : attached'[o] # None => attached[o] # None
      BY <1>7 DEF Destroy, LiveDataInv, KeyTypes
    <2>2. Attached' \subseteq Attached
      BY <2>1 DEF Attached
    <2> QED
      BY <1>7, <2>1, <2>2
         DEF Destroy, luaVars, historyVars, LiveDataInv, KeyTypes, MapInv, AttachedInMap, RemovedInv
  <1>8. CASE UNCHANGED liveDataVars
    BY <1>8, StutterLemma DEF liveDataVars, luaVars, historyVars
  <1> QED
    BY <1>1, <1>2, <1>3, <1>4, <1>5, <1>6, <1>7, <1>8 DEF LiveDataNext, MainThread

\* The inductive invariant holds in every behaviour.
LEMMA SpecLiveDataInv == LiveDataSpec => []LiveDataInv
  <1> QED
    BY InitLiveDataInv, StepLiveDataInv, PTL DEF LiveDataSpec

-----------------------------------------------------------------------------
(* The results.                                                            *)

\* Every Observer that the MutableLiveData may call is the one observerMap
\* has for its translator.
THEOREM AttachedIsKnown == LiveDataSpec => []AttachedInMap
  <1>1. LiveDataInv => AttachedInMap
    BY DEF LiveDataInv
  <1> QED
    BY <1>1, SpecLiveDataInv, PTL

\* seen stays a function on the Observers.
SeenType == seen \in [Observer -> Nat] /\ version \in Nat

\* Observers are called by ConsiderNotify and by nothing else.
LEMMA OthersCallNone ==
  ASSUME [LiveDataNext]_liveDataVars, ~ConsiderNotify
  PROVE  seen' = seen /\ (version' = version \/ version' = version + 1)
  BY DEF LiveDataNext, MainThread, liveDataVars, valueVars, CallbackReturns, RegisterTranslator,
         ScriptObserves, Observe, Start, Stop, Destroy, ScriptRemoves, RemoveObserver,
         SetValue, PostValue, SetPosted

\* It calls one Observer, with the latest value, and only one that is stale.
LEMMA NotifyLemma ==
  ASSUME ConsiderNotify
  PROVE  /\ version' = version
         /\ \/ seen' = seen
            \/ \E o : Stale(o) /\ seen' = [seen EXCEPT ![o] = version]
  <1> DEFINE first == CHOOSE m \in toVisit : \A k \in toVisit : m <= k
  <1>1. \/ Stale(first) /\ seen' = [seen EXCEPT ![first] = version]
        \/ seen' = seen
    BY DEF ConsiderNotify
  <1> HIDE DEF first
  <1> QED
    BY <1>1 DEF ConsiderNotify

\* SeenType holds in every behaviour.
LEMMA SpecSeenType == LiveDataSpec => []SeenType
  <1>1. LiveDataInit => SeenType
    BY DEF LiveDataInit, SeenType
  <1>2. ASSUME SeenType, [LiveDataNext]_liveDataVars PROVE SeenType'
    <2>1. CASE ConsiderNotify
      BY <1>2, <2>1, NotifyLemma DEF SeenType
    <2>2. CASE ~ConsiderNotify
      BY <1>2, <2>2, OthersCallNone DEF SeenType
    <2> QED
      BY <2>1, <2>2
  <1> QED
    BY <1>1, <1>2, PTL DEF LiveDataSpec

\* Only an attached Observer is called.
LEMMA OnlyStaleCalled ==
  ASSUME [LiveDataNext]_liveDataVars, SeenType, NEW o \in Observer, seen'[o] # seen[o]
  PROVE  Stale(o)
  <1>1. ConsiderNotify
    BY OthersCallNone
  <1>2. PICK p : Stale(p) /\ seen' = [seen EXCEPT ![p] = version]
    BY <1>1, NotifyLemma
  <1>3. o = p
    BY <1>2 DEF SeenType
  <1> QED
    BY <1>2, <1>3

\* A registered translator that a script has removed is not called again
\* until it observes again, whatever dispatch is under way.
THEOREM RemovedStaysQuiet == LiveDataSpec => RemovedTranslatorQuiet
  <1>1. ASSUME LiveDataInv, SeenType, [LiveDataNext]_liveDataVars, NEW o \in 1..Len(calls),
               calls[o] \in removedHandles
        PROVE  seen'[o] = seen[o]
    <2> SUFFICES ASSUME seen'[o] # seen[o] PROVE FALSE
      OBVIOUS
    <2>0. o \in Observer
      BY <1>1, LenProperties, LiveDataAssumption DEF Observer, LiveDataInv, KeyTypes
    <2>1. Stale(o)
      BY <1>1, <2>0, OnlyStaleCalled
    <2>2. o \in Attached
      BY <2>0, <2>1 DEF Stale, Active, Attached
    <2>3. observerMap[calls[o]] = o
      BY <1>1, <2>2 DEF LiveDataInv, AttachedInMap
    <2>4. observerMap[calls[o]] = 0
      BY <1>1 DEF LiveDataInv, RemovedInv
    <2> QED
      BY <1>1, <2>3, <2>4
  <1>2. LiveDataInv /\ SeenType /\ [LiveDataNext]_liveDataVars =>
          [\A o \in 1..Len(calls) :
             calls[o] \in removedHandles => seen'[o] = seen[o]]_liveDataVars
    BY <1>1
  <1> QED
    BY <1>2, SpecLiveDataInv, SpecSeenType, PTL DEF LiveDataSpec, RemovedTranslatorQuiet

-----------------------------------------------------------------------------
(* The dispatch reaches every Observer that has not seen the latest value.    *)

\* The Observer considered next, or in its callback.
First == CHOOSE m \in toVisit : \A k \in toVisit : m <= k

\* A stale Observer is still to be visited, after the one in its callback, or
\* the dispatch will start all over again.
WillVisit(o) == invalidated \/ (o \in toVisit /\ (dispatch = "callback" => o # First))

DispatchInv ==
  /\ dispatch \in {"no", "visit", "callback"} /\ invalidated \in BOOLEAN
  /\ toVisit \subseteq Observer
  /\ dispatch = "no" <=> toVisit = {}
  /\ invalidated => dispatch = "callback"
  /\ \A o \in Observer : seen[o] <= version
  /\ \A o \in Observer : Stale(o) => WillVisit(o)

LEMMA FirstIsThere == ASSUME DispatchInv, toVisit # {} PROVE First \in toVisit
  <1>1. \E m \in toVisit : \A k \in toVisit : m <= k
    BY LeastNat, LiveDataAssumption DEF DispatchInv, Observer
  <1> QED
    BY <1>1 DEF First

\* The dispatch is done with one Observer: it goes on with the others, or with all.
LEMMA VisitedKeeps ==
  ASSUME DispatchInv, dispatch # "no", Visited(First), UNCHANGED <<attached, state, version, seen>>,
         Stale(First) => invalidated
  PROVE  DispatchInv'
  <1>1. toVisit' = (IF invalidated THEN Attached ELSE toVisit \ {First})
        /\ dispatch' = (IF toVisit' = {} THEN "no" ELSE "visit") /\ invalidated' = FALSE
    BY DEF Visited
  <1>2. toVisit' \subseteq Observer
    BY <1>1 DEF DispatchInv, Attached
  <1>3. ASSUME NEW o \in Observer, Stale(o)' PROVE WillVisit(o)'
    <2>1. Stale(o) /\ o \in Attached
      BY <1>3 DEF Stale, Active, Attached
    <2>2. o \in toVisit'
      BY <1>1, <2>1 DEF DispatchInv, WillVisit
    <2> QED
      BY <1>1, <2>2 DEF WillVisit
  <1> QED
    BY <1>1, <1>2, <1>3 DEF DispatchInv

\* Main thread code that makes only the Observers of S stale dispatches to them.
LEMMA DispatchingKeeps ==
  ASSUME DispatchInv, MainMayRun, NEW S \in SUBSET Observer, Dispatching(S),
         \A o \in Observer : seen'[o] <= version',
         \A o \in Observer : Stale(o)' => Stale(o) \/ o \in S
  PROVE  DispatchInv'
  <1>1. CASE dispatch = "no"
    <2>1. toVisit' = S /\ dispatch' = (IF S = {} THEN "no" ELSE "visit")
          /\ ~invalidated /\ invalidated' = invalidated
      BY <1>1 DEF Dispatching, DispatchInv
    <2>2. ASSUME NEW o \in Observer, Stale(o)' PROVE WillVisit(o)'
      BY <1>1, <2>1, <2>2 DEF DispatchInv, WillVisit
    <2> QED
      BY <1>1, <2>1, <2>2 DEF DispatchInv
  <1>2. CASE dispatch # "no"
    <2>1. dispatch = "callback" /\ invalidated' = (invalidated \/ S # {})
          /\ UNCHANGED <<dispatch, toVisit>>
      BY <1>2 DEF Dispatching, MainMayRun
    <2>2. ASSUME NEW o \in Observer, Stale(o)' PROVE WillVisit(o)'
      BY <2>1, <2>2 DEF DispatchInv, WillVisit, First
    <2> QED
      BY <1>2, <2>1, <2>2 DEF DispatchInv
  <1> QED
    BY <1>1, <1>2

\* What makes nothing stale may leave the dispatch alone.
LEMMA NobodyStaler ==
  ASSUME DispatchInv, UNCHANGED <<dispatchVars, version, seen>>, \A o \in Observer : Stale(o)' => Stale(o)
  PROVE  DispatchInv'
  BY DEF DispatchInv, WillVisit, First, dispatchVars

LEMMA InitDispatch == LiveDataInit => DispatchInv
  <1> SUFFICES ASSUME LiveDataInit PROVE DispatchInv
    OBVIOUS
  <1>1. \A o \in Observer : ~Stale(o) /\ seen[o] <= version
    BY DEF LiveDataInit, Stale, Active
  <1> QED
    BY <1>1 DEF LiveDataInit, DispatchInv

LEMMA ConsiderKeeps == ASSUME SeenType, DispatchInv, ConsiderNotify PROVE DispatchInv'
  <1>1. dispatch = "visit" /\ ~invalidated /\ First \in toVisit /\ First \in Observer
    BY FirstIsThere DEF ConsiderNotify, DispatchInv
  <1>2. UNCHANGED <<attached, state, version>>
    BY DEF ConsiderNotify, ownerVars
  <1>3. CASE Stale(First)
    <2>1. /\ seen' = [seen EXCEPT ![First] = version]
          /\ dispatch' = "callback" /\ UNCHANGED <<toVisit, invalidated>>
      BY <1>3 DEF ConsiderNotify, First
    <2>2. First' = First /\ toVisit' # {}
      BY <1>1, <2>1 DEF First
    <2>3. \A o \in Observer : seen'[o] <= version'
      BY <1>2, <2>1 DEF DispatchInv, SeenType
    <2>4. ASSUME NEW o \in Observer, Stale(o)' PROVE WillVisit(o)'
      <3>1. o # First
        BY <1>1, <1>2, <2>1, <2>4 DEF Stale, SeenType
      <3>2. Stale(o)
        BY <1>2, <2>1, <2>4, <3>1 DEF Stale, Active, SeenType
      <3> QED
        BY <1>1, <2>1, <2>2, <3>1, <3>2 DEF DispatchInv, WillVisit
    <2> QED
      BY <1>1, <2>1, <2>2, <2>3, <2>4 DEF DispatchInv
  <1>4. CASE ~Stale(First)
    <2>1. Visited(First) /\ UNCHANGED seen
      BY <1>4 DEF ConsiderNotify, First
    <2> QED
      BY <1>1, <1>2, <1>4, <2>1, VisitedKeeps
  <1> QED
    BY <1>3, <1>4

LEMMA CallbackKeeps == ASSUME DispatchInv, CallbackReturns PROVE DispatchInv'
  <1>1. dispatch = "callback" /\ Visited(First) /\ UNCHANGED <<attached, state, version, seen>>
    BY DEF CallbackReturns, First, ownerVars, valueVars
  <1>2. First \in Observer
    BY <1>1, FirstIsThere DEF DispatchInv
  <1>3. Stale(First) => invalidated
    BY <1>1, <1>2 DEF DispatchInv, WillVisit
  <1> QED
    BY <1>1, <1>3, VisitedKeeps

\* The new Observer may be stale, and is dispatched to at once then.
LEMMA ObserveKeeps ==
  ASSUME LiveDataInv, DispatchInv, NEW w \in Owner, NEW lt \in Translator, Observe(w, lt)
  PROVE  DispatchInv'
  <1> DEFINE o == Len(calls) + 1
             S == IF state[w] = "started" THEN {o} ELSE {}
  <1>1. o \in Observer
    BY LenProperties, LiveDataAssumption DEF Observe, LiveDataInv, KeyTypes, Observer
  <1>2. /\ MainMayRun /\ Dispatching(S) /\ UNCHANGED <<state, version, seen>>
        /\ attached' = Detach(lt) \/ attached' = [Detach(lt) EXCEPT ![o] = w]
    BY DEF Observe, ownerVars, valueVars
  <1> HIDE DEF o
  <1>3. ASSUME NEW k \in Observer, Stale(k)' PROVE Stale(k) \/ k \in S
    <2>1. CASE attached'[k] = Detach(lt)[k]
      <3>1. Detach(lt)[k] # None /\ attached'[k] = attached[k]
        BY <1>3, <2>1 DEF Stale, Active, Detach, LiveDataInv, KeyTypes
      <3> QED
        BY <1>2, <1>3, <3>1 DEF Stale, Active
    <2>2. CASE k = o /\ attached'[k] = w
      BY <1>2, <1>3, <2>2 DEF Stale, Active
    <2> QED
      BY <1>2, <2>1, <2>2, DetachLemma
  <1>4. \A k \in Observer : seen'[k] <= version'
    BY <1>2 DEF DispatchInv
  <1> QED
    BY <1>1, <1>2, <1>3, <1>4, DispatchingKeeps

LEMMA SetKeeps ==
  ASSUME SeenType, DispatchInv, MainMayRun, Dispatching(Attached), version' = version + 1,
         UNCHANGED <<attached, state, seen>>
  PROVE  DispatchInv'
  <1>1. Attached \subseteq Observer
    BY DEF Attached
  <1>2. \A o \in Observer : seen'[o] <= version' /\ (Stale(o)' => o \in Attached)
    BY DEF DispatchInv, SeenType, Stale, Active, Attached
  <1> QED
    BY <1>1, <1>2, DispatchingKeeps

LEMMA StartKeeps == ASSUME DispatchInv, NEW w \in Owner, Start(w) PROVE DispatchInv'
  <1> DEFINE S == {o \in Attached : attached[o] = w}
  <1>1. /\ MainMayRun /\ Dispatching(S) /\ UNCHANGED <<attached, version, seen>>
        /\ state' = [state EXCEPT ![w] = "started"] /\ S \subseteq Observer
    BY DEF Start, valueVars, Attached
  <1>2. \A o \in Observer : Stale(o)' => Stale(o) \/ o \in S
    BY <1>1 DEF Stale, Active, Attached
  <1>3. \A o \in Observer : seen'[o] <= version'
    BY <1>1 DEF DispatchInv
  <1> QED
    BY <1>1, <1>2, <1>3, DispatchingKeeps

LEMMA DispatchStep == LiveDataInv /\ SeenType /\ DispatchInv /\ [LiveDataNext]_liveDataVars => DispatchInv'
  <1> SUFFICES ASSUME LiveDataInv, SeenType, DispatchInv, [LiveDataNext]_liveDataVars PROVE DispatchInv'
    OBVIOUS
  <1>1. CASE MainThread
    BY <1>1, ConsiderKeeps, CallbackKeeps DEF MainThread
  <1>2. ASSUME NEW f \in Function, RegisterTranslator(f) PROVE DispatchInv'
    BY <1>2, NobodyStaler DEF RegisterTranslator, ownerVars, valueVars, Stale, Active
  <1>3. ASSUME NEW w \in Owner, ScriptObserves(w) PROVE DispatchInv'
    BY <1>3, ObserveKeeps DEF ScriptObserves, LiveDataInv, KeyTypes
  <1>4. ASSUME NEW lt \in Translator, RemoveObserver(lt) PROVE DispatchInv'
    <2>1. UNCHANGED <<dispatchVars, version, seen, state>> /\ attached' = Detach(lt)
      BY <1>4 DEF RemoveObserver, ownerVars, valueVars
    <2>2. \A o \in Observer : attached'[o] # None => attached'[o] = attached[o]
      BY <2>1 DEF Detach, LiveDataInv, KeyTypes
    <2> QED
      BY <2>1, <2>2, NobodyStaler DEF Stale, Active
  <1>5. CASE ScriptRemoves
    BY <1>4, <1>5 DEF ScriptRemoves, LiveDataInv, KeyTypes
  <1>6. CASE SetValue
    BY <1>6, SetKeeps DEF SetValue, ownerVars
  <1>7. CASE SetPosted
    BY <1>7, SetKeeps DEF SetPosted, MainMayRun, ownerVars
  <1>8. CASE PostValue
    BY <1>8, NobodyStaler DEF PostValue, ownerVars, valueVars, Stale, Active
  <1>9. ASSUME NEW w \in Owner, Start(w) \/ Stop(w) \/ Destroy(w) PROVE DispatchInv'
    <2>1. CASE Stop(w)
      <3>1. \A o \in Observer : Stale(o)' => Stale(o)
        BY <2>1 DEF Stop, valueVars, Stale, Active
      <3> QED
        BY <2>1, <3>1, NobodyStaler DEF Stop, valueVars
    <2>2. CASE Destroy(w)
      <3>1. \A o \in Observer : Stale(o)' => Stale(o)
        BY <2>2 DEF Destroy, valueVars, Stale, Active
      <3> QED
        BY <2>2, <3>1, NobodyStaler DEF Destroy, valueVars
    <2> QED
      BY <1>9, <2>1, <2>2, StartKeeps
  <1>10. CASE UNCHANGED liveDataVars
    BY <1>10, NobodyStaler DEF liveDataVars, ownerVars, valueVars, Stale, Active
  <1> QED
    BY <1>1, <1>2, <1>3, <1>5, <1>6, <1>7, <1>8, <1>9, <1>10 DEF LiveDataNext

\* Between dispatches every Observer of a started owner has been called with
\* the latest value, whatever callbacks have set, observed and removed.
THEOREM QuietIsUpToDate == LiveDataSpec => []QuietMeansSeen
  <1>1. LiveDataInv /\ SeenType /\ DispatchInv => QuietMeansSeen
    <2> SUFFICES ASSUME SeenType, DispatchInv, dispatch = "no", NEW o \in Attached, Active(o)
                 PROVE  seen[o] = version
      BY DEF QuietMeansSeen
    <2>1. o \in Observer /\ ~Stale(o)
      BY DEF DispatchInv, WillVisit, Attached
    <2> QED
      BY <2>1 DEF Stale, DispatchInv, SeenType
  <1> QED
    BY <1>1, InitDispatch, DispatchStep, SpecLiveDataInv, SpecSeenType, PTL DEF LiveDataSpec

-----------------------------------------------------------------------------
(* LuaViewModel                                                               *)

-----------------------------------------------------------------------------
(* The inductive invariant.                                                *)

\* A thread past the synchronized block of setTagIfAbsent holds the scope of
\* the bag, and nothing but that has ever been returned.
BagInv ==
  /\ \A t \in Thread : pc[t] \in {"mCleared", "close"} =>
       mBagOfTags # NoScope /\ scope[t] = mBagOfTags
  /\ \A t \in Thread : pc[t] = "setTagIfAbsent" => scope[t] \in Scope
  /\ returned \subseteq {mBagOfTags}

ClearInv == mCleared <=> clearing # "no"

\* After onCleared, a scope that has not been given to be closed is in the
\* hands of a thread that cannot but give it.
CloserInv ==
  (clearing = "done" /\ mBagOfTags # NoScope /\ mBagOfTags \notin givenToClose)
    => \E t \in Thread :
         pc[t] = "close" \/ (pc[t] = "mCleared" /\ t \in seesCleared)

ScopeInv == ViewModelTypeOK /\ BagInv /\ ClearInv /\ CloserInv

\* A new view model has no scope and has returned none.
LEMMA InitScopeInv == ViewModelInit => ScopeInv
  <1> SUFFICES ASSUME ViewModelInit PROVE ScopeInv
    OBVIOUS
  <1>1. ViewModelTypeOK
    <2>1. made \in 0..MaxScopes
      BY ViewModelAssumption DEF ViewModelInit
    <2>2. pc \in [Thread -> {"idle", "getTag", "setTagIfAbsent", "mCleared", "close"}]
      BY DEF ViewModelInit
    <2>3. scope \in [Thread -> Scope \cup {NoScope}]
      BY DEF ViewModelInit
    <2> QED
      BY <2>1, <2>2, <2>3 DEF ViewModelInit, ViewModelTypeOK
  <1>2. BagInv /\ CloserInv
    BY DEF ViewModelInit, BagInv, CloserInv
  <1>3. ClearInv
    BY DEF ViewModelInit, ClearInv
  <1> QED
    BY <1>1, <1>2, <1>3 DEF ScopeInv

\* Every step keeps the types.
LEMMA ScopeTypeStep == ScopeInv /\ [ViewModelNext]_viewModelVars => ViewModelTypeOK'
  <1> SUFFICES ASSUME ScopeInv, [ViewModelNext]_viewModelVars PROVE ViewModelTypeOK'
    OBVIOUS
  <1> USE ViewModelAssumption DEF ScopeInv, ViewModelTypeOK, Scope
  <1>1. ASSUME NEW t \in Thread, Ask(t) PROVE ViewModelTypeOK'
    BY <1>1 DEF Ask
  <1>2. ASSUME NEW t \in Thread, Found(t) PROVE ViewModelTypeOK'
    BY <1>2 DEF Found, Lock, Return
  <1>3. ASSUME NEW t \in Thread, NotFound(t) PROVE ViewModelTypeOK'
    BY <1>3 DEF NotFound, Lock
  <1>4. ASSUME NEW t \in Thread, SetTagIfAbsent(t) PROVE ViewModelTypeOK'
    BY <1>4 DEF SetTagIfAbsent, Lock
  <1>5. ASSUME NEW t \in Thread, SeenCleared(t) PROVE ViewModelTypeOK'
    BY <1>5 DEF SeenCleared
  <1>6. ASSUME NEW t \in Thread, SeenNotCleared(t) PROVE ViewModelTypeOK'
    BY <1>6 DEF SeenNotCleared, Return, BagInv
  <1>7. ASSUME NEW t \in Thread, CloseAndReturn(t) PROVE ViewModelTypeOK'
    BY <1>7 DEF CloseAndReturn, CloseWithRuntimeException, Closeables, Return, BagInv
  <1>8. CASE SetCleared
    BY <1>8 DEF SetCleared
  <1>9. CASE CloseAll
    BY <1>9 DEF CloseAll, CloseWithRuntimeException, Closeables
  <1>10. CASE UNCHANGED viewModelVars
    BY <1>10 DEF viewModelVars
  <1> QED
    BY <1>1, <1>2, <1>3, <1>4, <1>5, <1>6, <1>7, <1>8, <1>9, <1>10 DEF ViewModelNext, Getter

\* The scope in the bag is never replaced: BagInv and ClearInv are kept.
LEMMA BagStep == ScopeInv /\ [ViewModelNext]_viewModelVars => BagInv' /\ ClearInv'
  <1> SUFFICES ASSUME ScopeInv, [ViewModelNext]_viewModelVars PROVE BagInv' /\ ClearInv'
    OBVIOUS
  <1> USE ViewModelAssumption DEF ScopeInv, ViewModelTypeOK, Scope, BagInv, ClearInv
  <1>1. ASSUME NEW t \in Thread, Ask(t) PROVE BagInv' /\ ClearInv'
    BY <1>1 DEF Ask
  <1>2. ASSUME NEW t \in Thread, Found(t) PROVE BagInv' /\ ClearInv'
    BY <1>2 DEF Found, Return
  <1>3. ASSUME NEW t \in Thread, NotFound(t) PROVE BagInv' /\ ClearInv'
    BY <1>3 DEF NotFound
  <1>4. ASSUME NEW t \in Thread, SetTagIfAbsent(t) PROVE BagInv' /\ ClearInv'
    BY <1>4 DEF SetTagIfAbsent
  <1>5. ASSUME NEW t \in Thread, SeenCleared(t) PROVE BagInv' /\ ClearInv'
    BY <1>5 DEF SeenCleared
  <1>6. ASSUME NEW t \in Thread, SeenNotCleared(t) PROVE BagInv' /\ ClearInv'
    BY <1>6 DEF SeenNotCleared, Return
  <1>7. ASSUME NEW t \in Thread, CloseAndReturn(t) PROVE BagInv' /\ ClearInv'
    BY <1>7 DEF CloseAndReturn, Return
  <1>8. CASE SetCleared
    BY <1>8 DEF SetCleared
  <1>9. CASE CloseAll
    BY <1>9 DEF CloseAll
  <1>10. CASE UNCHANGED viewModelVars
    BY <1>10 DEF viewModelVars
  <1> QED
    BY <1>1, <1>2, <1>3, <1>4, <1>5, <1>6, <1>7, <1>8, <1>9, <1>10 DEF ViewModelNext, Getter

\* The thread that must give the scope to be closed goes on until it has.
LEMMA CloserStep == ScopeInv /\ [ViewModelNext]_viewModelVars => CloserInv'
  <1> SUFFICES ASSUME ScopeInv, [ViewModelNext]_viewModelVars PROVE CloserInv'
    OBVIOUS
  <1> USE ViewModelAssumption DEF ScopeInv, ViewModelTypeOK, Scope, CloserInv
  <1>1. ASSUME NEW t \in Thread, Ask(t) PROVE CloserInv'
    BY <1>1 DEF Ask
  <1>2. ASSUME NEW t \in Thread, Found(t) PROVE CloserInv'
    BY <1>2 DEF Found, Lock, Return
  <1>3. ASSUME NEW t \in Thread, NotFound(t) PROVE CloserInv'
    BY <1>3 DEF NotFound, Lock
  <1>4. ASSUME NEW t \in Thread, SetTagIfAbsent(t) PROVE CloserInv'
    <2>1. clearing = "done" => pc'[t] = "mCleared" /\ t \in seesCleared'
      BY <1>4 DEF SetTagIfAbsent, Lock
    <2> QED
      BY <1>4, <2>1 DEF SetTagIfAbsent
  <1>5. ASSUME NEW t \in Thread, SeenCleared(t) PROVE CloserInv'
    BY <1>5 DEF SeenCleared
  <1>6. ASSUME NEW t \in Thread, SeenNotCleared(t) PROVE CloserInv'
    <2>1. clearing = "done" => t \notin seesCleared
      BY <1>6 DEF SeenNotCleared, ClearInv
    <2> QED
      BY <1>6, <2>1 DEF SeenNotCleared, Return
  <1>7. ASSUME NEW t \in Thread, CloseAndReturn(t) PROVE CloserInv'
    <2>1. mBagOfTags' \in givenToClose'
      BY <1>7 DEF CloseAndReturn, CloseWithRuntimeException, BagInv
    <2> QED
      BY <2>1
  <1>8. CASE SetCleared
    BY <1>8 DEF SetCleared
  <1>9. CASE CloseAll
    BY <1>9 DEF CloseAll, CloseWithRuntimeException
  <1>10. CASE UNCHANGED viewModelVars
    BY <1>10 DEF viewModelVars
  <1> QED
    BY <1>1, <1>2, <1>3, <1>4, <1>5, <1>6, <1>7, <1>8, <1>9, <1>10 DEF ViewModelNext, Getter

\* The inductive invariant holds in every behaviour.
LEMMA SpecScopeInv == ViewModelSpec => []ScopeInv
  <1>1. ScopeInv /\ [ViewModelNext]_viewModelVars => ScopeInv'
    BY ScopeTypeStep, BagStep, CloserStep DEF ScopeInv
  <1> QED
    BY InitScopeInv, <1>1, PTL DEF ViewModelSpec

-----------------------------------------------------------------------------
(* The results.                                                            *)

\* Every caller of getLuaViewModelScope gets the same scope, for any number
\* of threads.
THEOREM AlwaysOneScope == ViewModelSpec => []OneScope
  <1>1. ScopeInv => OneScope
    <2> SUFFICES ASSUME ScopeInv PROVE OneScope
      OBVIOUS
    <2>1. returned \subseteq {mBagOfTags}
      BY DEF ScopeInv, BagInv
    <2>2. IsFiniteSet({mBagOfTags}) /\ Cardinality({mBagOfTags}) = 1
      BY FS_Singleton
    <2>3. Cardinality(returned) <= 1
      BY <2>1, <2>2, FS_Subset
    <2> QED
      BY <2>1, <2>3 DEF OneScope
  <1> QED
    BY <1>1, SpecScopeInv, PTL

\* However getters overlap with onCleared, and whatever a thread reads of
\* mCleared, no scope that was returned escapes the closing.
THEOREM NeverMissesScope == ViewModelSpec => []NoScopeMissed
  <1>1. ScopeInv => NoScopeMissed
    <2> SUFFICES ASSUME ScopeInv, clearing = "done", \A t \in Thread : pc[t] = "idle",
                        NEW s \in returned
                 PROVE  s \in givenToClose
      BY DEF NoScopeMissed
    <2>1. s = mBagOfTags /\ mBagOfTags # NoScope
      BY ViewModelAssumption DEF ScopeInv, BagInv, ViewModelTypeOK, Scope
    <2>2. mBagOfTags \in givenToClose
      BY <2>1 DEF ScopeInv, CloserInv
    <2> QED
      BY <2>1, <2>2
  <1> QED
    BY <1>1, SpecScopeInv, PTL
================================================================================
