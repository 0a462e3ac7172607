----------------------- MODULE CoreRegistrationProofs -----------------------
(***************************************************************************)
(* Proofs about CoreRegistration for any classes, plugins, workers and     *)
(* number of startups: reflection is complete, and the maps are quiet,     *)
(* when the startup thread reads them.                                     *)
(***************************************************************************)
EXTENDS CoreRegistration, DataLemmas, FiniteSetTheorems

J == Class \X (1..MaxStartups)

-----------------------------------------------------------------------------
(* The tasker, as a startup uses it.                                       *)

TaskerTypes ==
  /\ valsToDl \in Seq(J)
  /\ CURRENT_COUNT \in Nat
  /\ taskerPc \in {"new", "while", "synchronized", "start", "ended"}
  /\ valToDoJob \in J \cup {NoJob}
  /\ workerPc \in [Worker -> {"none", "doJob", "decrement"}]
  /\ workerJob \in [Worker -> J \cup {NoJob}]

\* A queued job is still somewhere until it is done.
Covered == added \subseteq T!Queued \cup T!Held \cup T!Running \cup done

\* LuaTasker's CountMatchesWorkers.
CountsWorkers ==
  CURRENT_COUNT = Cardinality(T!Alive) + IF taskerPc = "start" THEN 1 ELSE 0

TaskerInv ==
  /\ TaskerTypes
  /\ (taskerPc = "start") <=> (valToDoJob # NoJob)
  /\ CountsWorkers
  /\ Covered

\* What a step of the composition is to the tasker.
TaskerStep ==
  \/ \E j \in J : T!AddToQueue(j)
  \/ T!StartTasker
  \/ T!Exit
  \/ T!Tasker
  \/ \E w \in Worker : T!DoJob(w) \/ T!DecrementCounter(w)
  \/ UNCHANGED taskerVars

\* The types and the tasker's local variable.
LEMMA TaskerTypesStep ==
  ASSUME TaskerInv, TaskerStep
  PROVE  TaskerTypes' /\ ((taskerPc' = "start") <=> (valToDoJob' # NoJob))
  <1> DEFINE G == TaskerTypes' /\ ((taskerPc' = "start") <=> (valToDoJob' # NoJob))
  <1> USE RegistrationAssumption DEF TaskerInv, TaskerTypes, J
  <1>1. ASSUME NEW j \in J, T!AddToQueue(j) PROVE G
    <2>1. valsToDl' \in Seq(J)
      BY <1>1, AppendProperties DEF T!AddToQueue
    <2> QED
      BY <1>1, <2>1 DEF T!AddToQueue, T!taskerVars, T!workerVars
  <1>2. CASE T!StartTasker
    BY <1>2 DEF T!StartTasker, T!workerVars
  <1>3. CASE T!Exit
    BY <1>3 DEF T!Exit, T!taskerVars, T!workerVars
  <1>4. CASE T!TestExit
    BY <1>4 DEF T!TestExit, T!workerVars
  <1>5. CASE T!PollJob
    <2>1. Head(valsToDl) \in J /\ Tail(valsToDl) \in Seq(J)
      BY <1>5, HeadTailProperties, EmptySeq DEF T!PollJob
    <2> QED
      BY <1>5, <2>1 DEF T!PollJob, T!workerVars
  <1>6. CASE T!PollNothing
    BY <1>6 DEF T!PollNothing, T!workerVars
  <1>7. ASSUME NEW w \in Worker, T!StartWorker(w) PROVE G
    BY <1>7 DEF T!StartWorker
  <1>8. ASSUME NEW w \in Worker, T!DoJob(w) PROVE G
    BY <1>8 DEF T!DoJob, T!taskerVars
  <1>9. ASSUME NEW w \in Worker, T!DecrementCounter(w) PROVE G
    <2>1. w \in T!Alive /\ IsFiniteSet(T!Alive)
      BY <1>9, FS_Subset DEF T!DecrementCounter, T!Alive
    <2>2. Cardinality(T!Alive) \in Nat \ {0}
      BY <2>1, FS_CardinalityType, FS_EmptySet
    <2>3. CURRENT_COUNT - 1 \in Nat
      BY <2>2 DEF CountsWorkers
    <2> QED
      BY <1>9, <2>3 DEF T!DecrementCounter, T!taskerVars
  <1>10. CASE UNCHANGED taskerVars
    BY <1>10 DEF taskerVars
  <1> QED
    BY <1>1, <1>2, <1>3, <1>4, <1>5, <1>6, <1>7, <1>8, <1>9, <1>10
       DEF TaskerStep, T!Tasker

\* The counter stays equal to the number of workers.
LEMMA CountStep ==
  ASSUME TaskerInv, TaskerStep
  PROVE  CountsWorkers'
  <1> USE RegistrationAssumption DEF TaskerInv, TaskerTypes
  <1>1. IsFiniteSet(T!Alive) /\ Cardinality(T!Alive) \in Nat
    BY FS_Subset, FS_CardinalityType DEF T!Alive
  <1>2. CASE UNCHANGED <<CURRENT_COUNT, workerPc>> /\ (taskerPc = "start" <=> taskerPc' = "start")
    BY <1>2 DEF CountsWorkers, T!Alive
  <1>3. ASSUME NEW j \in J, T!AddToQueue(j) PROVE CountsWorkers'
    BY <1>2, <1>3 DEF T!AddToQueue, T!taskerVars, T!workerVars
  <1>4. CASE T!StartTasker \/ T!Exit \/ T!TestExit \/ T!PollNothing \/ UNCHANGED taskerVars
    BY <1>2, <1>4 DEF T!StartTasker, T!Exit, T!TestExit, T!PollNothing, T!taskerVars,
                      T!workerVars, taskerVars
  <1>5. CASE T!PollJob
    <2>1. T!Alive' = T!Alive /\ taskerPc = "synchronized" /\ taskerPc' = "start"
          /\ CURRENT_COUNT' = CURRENT_COUNT + 1
      BY <1>5 DEF T!PollJob, T!Alive, T!workerVars
    <2> QED
      BY <2>1, <1>1 DEF CountsWorkers
  <1>6. ASSUME NEW w \in Worker, T!StartWorker(w) PROVE CountsWorkers'
    <2>1. T!Alive' = T!Alive \cup {w} /\ w \notin T!Alive
      BY <1>6 DEF T!StartWorker, T!Alive
    <2>2. Cardinality(T!Alive') = Cardinality(T!Alive) + 1
      BY <2>1, <1>1, FS_AddElement
    <2> QED
      BY <1>1, <1>6, <2>2 DEF T!StartWorker, CountsWorkers
  <1>7. ASSUME NEW w \in Worker, T!DoJob(w) PROVE CountsWorkers'
    <2>1. T!Alive' = T!Alive
      BY <1>7 DEF T!DoJob, T!Alive
    <2> QED
      BY <1>7, <2>1 DEF T!DoJob, CountsWorkers, T!taskerVars
  <1>8. ASSUME NEW w \in Worker, T!DecrementCounter(w) PROVE CountsWorkers'
    <2>1. T!Alive' = T!Alive \ {w} /\ w \in T!Alive
      BY <1>8 DEF T!DecrementCounter, T!Alive
    <2>2. Cardinality(T!Alive') = Cardinality(T!Alive) - 1
      BY <2>1, <1>1, FS_RemoveElement
    <2> QED
      BY <1>1, <1>8, <2>2, SMTT(45) DEF T!DecrementCounter, CountsWorkers, T!taskerVars
  <1> QED
    BY <1>3, <1>4, <1>5, <1>6, <1>7, <1>8 DEF TaskerStep, T!Tasker

\* A job that leaves one place is found in the next one.
LEMMA CoveredStep ==
  ASSUME TaskerInv, TaskerStep
  PROVE  Covered'
  <1> USE RegistrationAssumption DEF TaskerInv, TaskerTypes
  <1>1. CASE UNCHANGED <<valsToDl, valToDoJob, workerPc, workerJob, added, done>>
    BY <1>1 DEF Covered, T!Queued, T!Held, T!Running
  <1>2. ASSUME NEW j \in J, T!AddToQueue(j) PROVE Covered'
    <2>1. T!Queued' = T!Queued \cup {j}
      BY <1>2, AppendRange, SMTT(45) DEF T!AddToQueue, T!Queued, T!Range, Range
    <2>2. UNCHANGED <<T!Held, T!Running, done>> /\ added' = added \cup {j}
      BY <1>2 DEF T!AddToQueue, T!taskerVars, T!workerVars, T!Held, T!Running
    <2> QED
      BY <2>1, <2>2 DEF Covered
  <1>3. CASE T!StartTasker \/ T!Exit \/ T!TestExit \/ T!PollNothing \/ UNCHANGED taskerVars
    BY <1>1, <1>3 DEF T!StartTasker, T!Exit, T!TestExit, T!PollNothing, T!taskerVars,
                      T!workerVars, taskerVars
  <1>4. CASE T!PollJob
    <2>1. T!Queued \subseteq T!Queued' \cup {Head(valsToDl)} /\ Head(valsToDl) \in J
      <3>1. valsToDl # <<>> /\ valsToDl' = Tail(valsToDl)
        BY <1>4 DEF T!PollJob
      <3>2. /\ Head(valsToDl) \in J /\ Head(valsToDl) = valsToDl[1]
            /\ Tail(valsToDl) \in Seq(J) /\ Len(Tail(valsToDl)) = Len(valsToDl) - 1
            /\ \A k \in 1..Len(Tail(valsToDl)) : Tail(valsToDl)[k] = valsToDl[k + 1]
        BY <3>1, HeadTailProperties
      <3>3. Len(valsToDl) \in Nat /\ DOMAIN valsToDl = 1..Len(valsToDl)
            /\ DOMAIN valsToDl' = 1..(Len(valsToDl) - 1)
        BY <3>1, <3>2, LenProperties
      <3>4. ASSUME NEW k \in 1..Len(valsToDl), k # 1
            PROVE  k - 1 \in DOMAIN valsToDl' /\ valsToDl'[k - 1] = valsToDl[k]
        BY <3>1, <3>2, <3>3, <3>4
      <3> QED
        BY <3>2, <3>3, <3>4, SMTT(45) DEF T!Queued, T!Range
    <2>2. T!Held = {} /\ T!Held' = {Head(valsToDl)}
      BY <1>4, <2>1 DEF T!PollJob, T!Held, J
    <2>3. UNCHANGED <<T!Running, added, done>>
      BY <1>4 DEF T!PollJob, T!workerVars, T!Running
    <2> QED
      BY <2>1, <2>2, <2>3 DEF Covered
  <1>5. ASSUME NEW w \in Worker, T!StartWorker(w) PROVE Covered'
    <2>1. T!Held = {valToDoJob} /\ T!Running' = T!Running \cup {valToDoJob}
      BY <1>5 DEF T!StartWorker, T!Held, T!Running
    <2>2. UNCHANGED <<T!Queued, added, done>>
      BY <1>5 DEF T!StartWorker, T!Queued
    <2> QED
      BY <2>1, <2>2 DEF Covered
  <1>6. ASSUME NEW w \in Worker, T!DoJob(w) PROVE Covered'
    <2>1. T!Running \subseteq T!Running' \cup {workerJob[w]}
      BY <1>6 DEF T!DoJob, T!Running
    <2>2. UNCHANGED <<T!Queued, T!Held, added>> /\ done' = done \cup {workerJob[w]}
      BY <1>6 DEF T!DoJob, T!Queued, T!Held, T!taskerVars
    <2> QED
      BY <2>1, <2>2 DEF Covered
  <1>7. ASSUME NEW w \in Worker, T!DecrementCounter(w) PROVE Covered'
    <2>1. T!Running \subseteq T!Running'
      BY <1>7 DEF T!DecrementCounter, T!Running
    <2>2. UNCHANGED <<T!Queued, T!Held, added, done>>
      BY <1>7 DEF T!DecrementCounter, T!Queued, T!Held, T!taskerVars
    <2> QED
      BY <2>1, <2>2 DEF Covered
  <1> QED
    BY <1>2, <1>3, <1>4, <1>5, <1>6, <1>7 DEF TaskerStep, T!Tasker

NoWorkers == \A w \in Worker : workerPc[w] = "none"

\* When hasJob() is false, nothing is queued, held or running.
LEMMA IdleLemma ==
  ASSUME TaskerInv, ~T!hasJob
  PROVE  added \subseteq done /\ NoWorkers /\ valsToDl = <<>> /\ taskerPc # "start"
  <1> USE RegistrationAssumption DEF TaskerInv, TaskerTypes
  <1>1. Len(valsToDl) = 0 /\ CURRENT_COUNT = 0
    BY LenProperties DEF T!hasJob
  <1>2. valsToDl = <<>> /\ T!Queued = {}
    BY <1>1, EmptySeq DEF T!Queued, T!Range
  <1>3. IsFiniteSet(T!Alive) /\ Cardinality(T!Alive) \in Nat
    BY FS_Subset, FS_CardinalityType DEF T!Alive
  <1>4. Cardinality(T!Alive) = 0 /\ taskerPc # "start"
    BY <1>1, <1>3 DEF CountsWorkers
  <1>5. T!Alive = {}
    BY <1>3, <1>4, FS_EmptySet
  <1>6. T!Held = {} /\ T!Running = {} /\ NoWorkers
    BY <1>4, <1>5 DEF T!Held, T!Running, T!Alive, NoWorkers
  <1> QED
    BY <1>2, <1>4, <1>6 DEF Covered

-----------------------------------------------------------------------------
(* The startup thread.                                                     *)

\* The tasker has not been started.
Fresh ==
  /\ taskerPc = "new"
  /\ NoWorkers
  /\ ~taskerThread
  /\ methodMapSize = 0

\* The first startup has queued the classes before `next'.
QueuedSoFar ==
  /\ firstLoad = Range(ToLoad)
  /\ \A i \in 1..Len(ToLoad) : i < next => <<ToLoad[i], 1>> \in added

AllQueued == \A c \in firstLoad : <<c, 1>> \in added
ReflectionDone == \A c \in firstLoad : <<c, 1>> \in done

StartupTypes ==
  /\ startupPc \in {"idle", "addToQueue", "hasJob", "exit", "join", "register", "ready"}
  /\ startups \in 0..MaxStartups
  /\ next \in Nat \ {0}
  /\ plugins \in Seq(Class)
  /\ putting \in [Worker -> BOOLEAN]
  /\ putPos \in [Worker -> Nat]

\* Only a worker inside doJob is inside a put, and then doJob cannot return.
PutInv ==
  \A w \in Worker : putting[w] => /\ workerPc[w] = "doJob"
                                  /\ putPos[w] # Len(PutsOf(ClassOf(w)))

\* Where the tasker is for each place of the startup thread; only the first
\* startup uses it.
Phases ==
  /\ startups = 0 <=> startupPc = "idle"
  /\ startups > 1 => startupPc \in {"addToQueue", "register", "ready"}
  /\ startupPc = "idle" => Fresh
  /\ startupPc = "addToQueue" /\ startups = 1 => Fresh /\ QueuedSoFar
  /\ startupPc = "hasJob" => AllQueued
  /\ startupPc \in {"exit", "join"}
       => valsToDl = <<>> /\ taskerPc # "start" /\ NoWorkers /\ ReflectionDone
  /\ startupPc \in {"register", "ready"} \/ startups > 1
       => taskerPc = "ended" /\ NoWorkers /\ ReflectionDone

StartupInv == TaskerInv /\ StartupTypes /\ PutInv /\ Phases

\* The classes of the engine and the plugins together are a sequence.
LEMMA ToLoadType ==
  ASSUME StartupTypes
  PROVE  /\ ToLoad \in Seq(Class)
         /\ Len(ToLoad) \in Nat
         /\ DOMAIN ToLoad = 1..Len(ToLoad)
         /\ \A i \in 1..Len(ToLoad) : ToLoad[i] \in Class
  <1>1. ToLoad \in Seq(Class)
    BY RegistrationAssumption, ConcatProperties DEF StartupTypes, ToLoad
  <1> QED
    BY <1>1, LenProperties, ElementOfSeq

\* The initial states satisfy the invariant.
LEMMA StartupInit ==
  ASSUME Init
  PROVE  StartupInv
  <1> USE RegistrationAssumption DEF Init, T!Init
  <1>1. T!Alive = {} /\ Cardinality(T!Alive) = 0
    BY FS_EmptySet DEF T!Alive
  <1>2. TaskerInv
    BY <1>1, EmptySeq DEF TaskerInv, TaskerTypes, CountsWorkers, Covered
  <1>3. StartupTypes
    BY EmptySeq DEF StartupTypes
  <1>4. PutInv /\ Phases
    BY DEF PutInv, Phases, Fresh, NoWorkers
  <1> QED
    BY <1>2, <1>3, <1>4 DEF StartupInv

\* To the tasker, a step of the composition is one of its own or none.
LEMMA NextIsTaskerStep ==
  ASSUME StartupInv, [Next]_vars
  PROVE  TaskerStep
  <1>1. CASE QueueClass
    <2>1. <<ToLoad[next], startups>> \in J
      BY <1>1, ToLoadType DEF StartupInv, StartupTypes, Phases, QueueClass, J
    <2> QED
      BY <1>1, <2>1 DEF QueueClass, TaskerStep
  <1>2. CASE StartTasker
    BY <1>2 DEF StartTasker, TaskerStep
  <1>3. CASE CallExit
    BY <1>3 DEF CallExit, TaskerStep
  <1>4. CASE TaskerThread
    BY <1>4 DEF TaskerThread, TaskerStep
  <1>5. ASSUME NEW w \in Worker, WorkerThread(w) PROVE TaskerStep
    BY <1>5 DEF WorkerThread, BeginPut, EndPut, DoJobReturns, WorkerEnds, TaskerStep
  <1>6. CASE \/ \E c \in Class : AddLuaPlugin(c)
             \/ Startup \/ RestartFromAsset \/ SkipTasker \/ StopWaiting
             \/ Join \/ Register \/ Ready \/ UNCHANGED vars
    BY <1>6 DEF AddLuaPlugin, Startup, RestartFromAsset, SkipTasker, StopWaiting,
                Join, Register, Ready, vars, TaskerStep
  <1> QED
    BY <1>1, <1>2, <1>3, <1>4, <1>5, <1>6 DEF Next, StartupThread

\* Every step keeps the tasker's part.
LEMMA TaskerInvStep ==
  ASSUME StartupInv, [Next]_vars
  PROVE  TaskerInv'
  BY NextIsTaskerStep, TaskerTypesStep, CountStep, CoveredStep DEF StartupInv, TaskerInv

\* Every step keeps the types.
LEMMA StartupTypesStep ==
  ASSUME StartupInv, [Next]_vars
  PROVE  StartupTypes'
  <1> USE RegistrationAssumption DEF StartupInv, StartupTypes
  <1>1. ASSUME NEW c \in Class, AddLuaPlugin(c) PROVE StartupTypes'
    BY <1>1, AppendProperties DEF AddLuaPlugin, putVars
  <1>2. CASE Startup
    BY <1>2 DEF Startup, putVars
  <1>3. CASE RestartFromAsset
    BY <1>3 DEF RestartFromAsset, putVars
  <1>4. CASE StartupThread
    BY <1>4 DEF StartupThread, QueueClass, StartTasker, SkipTasker, StopWaiting,
                CallExit, Join, Register, Ready, putVars
  <1>5. CASE TaskerThread
    BY <1>5 DEF TaskerThread, putVars, startupVars
  <1>6. ASSUME NEW w \in Worker, WorkerThread(w) PROVE StartupTypes'
    <2>1. UNCHANGED startupVars
      BY <1>6 DEF WorkerThread, BeginPut, EndPut, DoJobReturns, WorkerEnds
    <2>2. putting' \in [Worker -> BOOLEAN]
      BY <1>6 DEF WorkerThread, BeginPut, EndPut, DoJobReturns, WorkerEnds, putVars
    <2>3. putPos' \in [Worker -> Nat]
      BY <1>6 DEF WorkerThread, BeginPut, EndPut, DoJobReturns, WorkerEnds, putVars
    <2> QED
      BY <2>1, <2>2, <2>3 DEF startupVars
  <1>7. CASE UNCHANGED vars
    BY <1>7 DEF vars, putVars, startupVars
  <1> QED
    BY <1>1, <1>2, <1>3, <1>4, <1>5, <1>6, <1>7 DEF Next

\* Every step keeps a put inside its doJob.
LEMMA PutInvStep ==
  ASSUME StartupInv, [Next]_vars
  PROVE  PutInv'
  <1> USE DEF StartupInv, StartupTypes, TaskerInv, TaskerTypes, PutInv, ClassOf, putVars, startupVars
  <1>1. CASE UNCHANGED <<putting, putPos, workerPc, workerJob>>
    BY <1>1
  <1>2. ASSUME NEW w \in Worker, BeginPut(w) PROVE PutInv'
    <2>1. UNCHANGED <<workerPc, workerJob, putPos>> /\ workerPc[w] = "doJob"
          /\ putPos[w] # Len(PutsOf(ClassOf(w)))
      BY <1>2 DEF BeginPut, InDoJob, taskerVars, PutsOf
    <2>2. \A v \in Worker \ {w} : putting'[v] = putting[v]
      BY <1>2 DEF BeginPut
    <2> QED
      BY <2>1, <2>2
  <1>3. ASSUME NEW w \in Worker, EndPut(w) PROVE PutInv'
    BY <1>3 DEF EndPut, taskerVars
  <1>4. ASSUME NEW w \in Worker, DoJobReturns(w) PROVE PutInv'
    <2>1. ~putting[w] /\ UNCHANGED <<putting, workerJob>>
      BY <1>4 DEF DoJobReturns, T!DoJob
    <2>2. \A v \in Worker \ {w} : workerPc'[v] = workerPc[v] /\ putPos'[v] = putPos[v]
      BY <1>4 DEF DoJobReturns, T!DoJob
    <2> QED
      BY <2>1, <2>2
  <1>5. ASSUME NEW w \in Worker, WorkerEnds(w) PROVE PutInv'
    <2>1. ~putting[w] /\ UNCHANGED <<putting, putPos>>
      BY <1>5 DEF WorkerEnds, T!DecrementCounter
    <2>2. \A v \in Worker \ {w} : workerPc'[v] = workerPc[v] /\ workerJob'[v] = workerJob[v]
      BY <1>5 DEF WorkerEnds, T!DecrementCounter
    <2> QED
      BY <2>1, <2>2
  <1>6. ASSUME NEW w \in Worker, T!StartWorker(w), UNCHANGED putVars PROVE PutInv'
    <2>1. ~putting[w] /\ UNCHANGED <<putting, putPos>>
      BY <1>6 DEF T!StartWorker
    <2>2. \A v \in Worker \ {w} : workerPc'[v] = workerPc[v] /\ workerJob'[v] = workerJob[v]
      BY <1>6 DEF T!StartWorker
    <2> QED
      BY <2>1, <2>2
  <1>7. CASE TaskerThread /\ ~\E w \in Worker : T!StartWorker(w)
    BY <1>1, <1>7 DEF TaskerThread, T!Tasker, T!TestExit, T!PollJob, T!PollNothing, T!workerVars
  <1>8. CASE (\E c \in Class : AddLuaPlugin(c)) \/ Startup \/ RestartFromAsset
    BY <1>1, <1>8 DEF AddLuaPlugin, Startup, RestartFromAsset, taskerVars
  <1>9. CASE StartupThread
    BY <1>1, <1>9 DEF StartupThread, QueueClass, StartTasker, SkipTasker, StopWaiting,
         CallExit, Join, Register, Ready, T!AddToQueue, T!StartTasker, T!Exit,
         T!workerVars, taskerVars
  <1>10. CASE UNCHANGED vars
    BY <1>1, <1>10 DEF vars, taskerVars
  <1> QED
    BY <1>2, <1>3, <1>4, <1>5, <1>6, <1>7, <1>8, <1>9, <1>10
       DEF Next, TaskerThread, WorkerThread

\* A step of the tasker thread is not taken once it has ended, and starts no
\* worker when the queue and its local are empty.
LEMMA TaskerThreadStep ==
  ASSUME T!Tasker, TaskerTypes
  PROVE  /\ taskerPc \notin {"new", "ended"}
         /\ UNCHANGED <<added, done>>
         /\ taskerPc # "start" /\ valsToDl = <<>>
              => taskerPc' # "start" /\ UNCHANGED <<workerPc, valsToDl>>
  <1>1. CASE T!TestExit
    BY <1>1 DEF T!TestExit, T!workerVars
  <1>2. CASE T!PollJob
    <2>1. valsToDl # <<>>
      BY <1>2, LenProperties, EmptySeq DEF T!PollJob
    <2> QED
      BY <1>2, <2>1 DEF T!PollJob, T!workerVars
  <1>3. CASE T!PollNothing
    BY <1>3 DEF T!PollNothing, T!workerVars
  <1>4. CASE \E w \in Worker : T!StartWorker(w)
    BY <1>4 DEF T!StartWorker
  <1> QED
    BY <1>1, <1>2, <1>3, <1>4 DEF T!Tasker

\* Every step keeps the phases.
LEMMA PhasesStep ==
  ASSUME StartupInv, [Next]_vars
  PROVE  Phases'
  <1> USE RegistrationAssumption, ToLoadType
          DEF StartupInv, StartupTypes, Phases, putVars, startupVars
  <1>1. ASSUME NEW c \in Class, AddLuaPlugin(c) PROVE Phases'
    BY <1>1 DEF AddLuaPlugin, taskerVars, Fresh, NoWorkers, ReflectionDone
  <1>2. CASE Startup
    <2>1. UNCHANGED <<taskerVars, putVars, plugins, taskerThread>>
          /\ startups' = startups + 1 /\ startupPc' = "addToQueue" /\ next' = 1
      BY <1>2 DEF Startup
    <2>2. CASE startups = 0
      <3>1. Fresh'
        BY <2>1, <2>2 DEF Fresh, NoWorkers, taskerVars
      <3>2. QueuedSoFar'
        BY <1>2, <2>1, <2>2 DEF Startup, QueuedSoFar, ToLoad
      <3> QED
        BY <2>1, <2>2, <3>1, <3>2
    <2>3. CASE startups # 0
      BY <1>2, <2>1, <2>3 DEF Startup, taskerVars, NoWorkers, ReflectionDone
    <2> QED
      BY <2>2, <2>3
  <1>3. CASE RestartFromAsset
    BY <1>3 DEF RestartFromAsset, taskerVars, NoWorkers, ReflectionDone
  <1>4. CASE QueueClass
    <2>1. /\ added' = added \cup {<<ToLoad[next], startups>>}
          /\ next' = next + 1
          /\ UNCHANGED <<taskerPc, workerPc, done, methodMapSize>>
          /\ UNCHANGED <<startupPc, startups, plugins, taskerThread, firstLoad>>
      BY <1>4 DEF QueueClass, T!AddToQueue, T!taskerVars, T!workerVars
    <2>2. CASE startups = 1
      <3>1. Fresh /\ QueuedSoFar /\ Fresh'
        BY <1>4, <2>1, <2>2 DEF QueueClass, Fresh, NoWorkers
      <3>2. ToLoad' = ToLoad /\ firstLoad' = Range(ToLoad)'
        BY <2>1, <3>1 DEF QueuedSoFar, ToLoad
      <3>3. ASSUME NEW i \in 1..Len(ToLoad), i < next + 1
            PROVE  <<ToLoad[i], 1>> \in added'
        <4>1. CASE i = next
          BY <2>1, <2>2, <4>1
        <4>2. CASE i < next
          BY <2>1, <3>1, <4>2 DEF QueuedSoFar
        <4> QED
          BY <3>3, <4>1, <4>2
      <3>4. QueuedSoFar'
        BY <2>1, <3>2, <3>3 DEF QueuedSoFar
      <3> QED
        BY <1>4, <2>1, <2>2, <3>1, <3>4 DEF QueueClass
    <2>3. CASE startups # 1
      BY <1>4, <2>1, <2>3 DEF QueueClass, NoWorkers, ReflectionDone
    <2> QED
      BY <2>2, <2>3
  <1>5. CASE StartTasker
    <2>1. taskerPc = "new" /\ UNCHANGED <<added, startups, firstLoad>>
          /\ startupPc = "addToQueue" /\ startupPc' = "hasJob" /\ next > Len(ToLoad)
      BY <1>5 DEF StartTasker, T!StartTasker
    <2>2. startups = 1
      BY <2>1
    <2>3. \A i \in 1..Len(ToLoad) : <<ToLoad[i], 1>> \in added
      BY <2>1, <2>2 DEF QueuedSoFar
    <2>4. AllQueued
      BY <2>1, <2>2, <2>3 DEF QueuedSoFar, AllQueued, Range
    <2> QED
      BY <2>1, <2>2, <2>4 DEF AllQueued
  <1>6. CASE SkipTasker
    BY <1>6 DEF SkipTasker, taskerVars, Fresh, NoWorkers, ReflectionDone
  <1>7. CASE StopWaiting
    <2>1. added \subseteq done /\ NoWorkers /\ valsToDl = <<>> /\ taskerPc # "start"
      BY <1>7, IdleLemma DEF StopWaiting
    <2>2. ReflectionDone
      BY <1>7, <2>1 DEF StopWaiting, AllQueued, ReflectionDone
    <2> QED
      BY <1>7, <2>1, <2>2 DEF StopWaiting, taskerVars, NoWorkers, ReflectionDone
  <1>8. CASE CallExit
    BY <1>8 DEF CallExit, T!Exit, T!taskerVars, T!workerVars, NoWorkers, ReflectionDone
  <1>9. CASE Join \/ Register \/ Ready
    BY <1>9 DEF Join, Register, Ready, taskerVars, NoWorkers, ReflectionDone
  <1>10. CASE TaskerThread
    <2>1. T!Tasker /\ UNCHANGED <<putVars, startupVars>>
      BY <1>10 DEF TaskerThread
    <2>2. /\ taskerPc \notin {"new", "ended"}
          /\ UNCHANGED <<added, done>>
          /\ taskerPc # "start" /\ valsToDl = <<>>
               => taskerPc' # "start" /\ UNCHANGED <<workerPc, valsToDl>>
      BY <2>1, TaskerThreadStep DEF TaskerInv
    <2> QED
      BY <2>1, <2>2 DEF Fresh, NoWorkers, AllQueued, ReflectionDone
  <1>11. ASSUME NEW w \in Worker, WorkerThread(w) PROVE Phases'
    <2>1. workerPc[w] # "none" /\ UNCHANGED <<startupVars, added, taskerPc>>
          /\ done \subseteq done'
      BY <1>11 DEF WorkerThread, BeginPut, EndPut, DoJobReturns, WorkerEnds, InDoJob,
           T!DoJob, T!DecrementCounter, T!taskerVars, taskerVars, PutInv
    <2>2. ~NoWorkers
      BY <2>1 DEF NoWorkers
    <2> QED
      BY <2>1, <2>2 DEF Fresh, AllQueued, ReflectionDone
  <1>12. CASE UNCHANGED vars
    BY <1>12 DEF vars, taskerVars, Fresh, NoWorkers, QueuedSoFar, ToLoad, AllQueued,
                 ReflectionDone
  <1> QED
    BY <1>1, <1>2, <1>3, <1>4, <1>5, <1>6, <1>7, <1>8, <1>9, <1>10, <1>11, <1>12
       DEF Next, StartupThread

-----------------------------------------------------------------------------
(* The theorems.                                                           *)

\* The invariant that relates the startup thread to the tasker and its
\* workers, for every number of startups.
THEOREM StartupInvariant == Spec => []StartupInv
  <1>1. Init => StartupInv
    BY StartupInit
  <1>2. StartupInv /\ [Next]_vars => StartupInv'
    BY TaskerInvStep, StartupTypesStep, PutInvStep, PhasesStep DEF StartupInv
  <1> QED
    BY <1>1, <1>2, PTL DEF Spec

\* registerCoreFunctions registers nothing before every class of the first
\* startup has been reflected on.
THEOREM ReflectedBeforeRegistered == Spec => []RegistersAfterReflection
  <1>1. StartupInv => RegistersAfterReflection
    BY DEF StartupInv, Phases, ReflectionDone, RegistersAfterReflection
  <1> QED
    BY <1>1, StartupInvariant, PTL

\* No worker writes Lunar's maps while the startup thread reads them.
THEOREM MapsAreQuiet == Spec => []MapsQuietWhenRead
  <1>1. StartupInv => MapsQuietWhenRead
    BY DEF StartupInv, StartupTypes, Phases, Fresh, NoWorkers, MapsQuietWhenRead
  <1> QED
    BY <1>1, StartupInvariant, PTL

-----------------------------------------------------------------------------
(* What the workers leave in the maps, and what is registered from them.   *)

\* What the maps, the puts under way and the registered classes are.
MapTypes ==
  /\ maps \in [MapName -> SUBSET Class]
  /\ raced \in [Worker -> BOOLEAN]
  /\ everRaced \in BOOLEAN
  /\ registered \in [Class -> SUBSET MapName]
  /\ done \subseteq J

\* A class has entries in no other maps than reflection gives it.
OwnMaps == \A m \in MapName : \A c \in maps[m] : m \in Range(PutsOf(c))

\* A worker's puts so far are those of the class it is reflecting on.
PutsSoFar(w) ==
  /\ putPos[w] <= Len(PutsOf(ClassOf(w)))
  /\ ~everRaced => \A i \in 1..putPos[w] : ClassOf(w) \in maps[PutsOf(ClassOf(w))[i]]

WorkerPuts ==
  \A w \in Worker :
    /\ workerPc[w] # "doJob" => putPos[w] = 0
    /\ workerPc[w] = "doJob" => workerJob[w] \in J /\ PutsSoFar(w)

\* No entry is lost unless puts have raced.
NoneLost ==
  ~everRaced =>
    /\ \A w \in Worker : ~raced[w]
    /\ \A j \in done : \A m \in Range(PutsOf(j[1])) : j[1] \in maps[m]

\* What has been registered of the classes before `next'.
RegisteredFromMaps ==
  startupPc \in {"register", "ready"} =>
    /\ next - 1 <= Len(ToLoad)
    /\ ~everRaced => \A i \in 1..(next - 1) :
         ToLoad[i] \in firstLoad => registered[ToLoad[i]] = Range(PutsOf(ToLoad[i]))

MapInv == MapTypes /\ OwnMaps /\ WorkerPuts /\ NoneLost /\ RegisteredFromMaps

\* The puts of a class are some of the three, each once at most.
LEMMA PutsType ==
  ASSUME NEW c \in Class
  PROVE  /\ PutsOf(c) \in Seq(MapName) /\ Len(PutsOf(c)) \in Nat
         /\ Range(PutsOf(c)) = {PutsOf(c)[i] : i \in 1..Len(PutsOf(c))}
         /\ Range(PutsOf(c)) \subseteq MapName
  <1> DEFINE a == IF c \in Companion THEN <<"kotlinCompanionMap">> ELSE <<>>
             b == IF c \in Annotated THEN <<"methodMap", "fieldMap">> ELSE <<>>
  <1>1. a \in Seq(MapName) /\ b \in Seq(MapName)
    <2>1. \A x, y \in MapName : <<x>> \in Seq(MapName) /\ <<x, y>> \in Seq(MapName)
      OBVIOUS
    <2>2. "kotlinCompanionMap" \in MapName /\ "methodMap" \in MapName /\ "fieldMap" \in MapName
      BY DEF MapName
    <2>3. <<>> \in Seq(MapName)
      OBVIOUS
    <2> QED
      BY <2>1, <2>2, <2>3
  <1>2. PutsOf(c) = a \o b
    BY DEF PutsOf
  <1> HIDE DEF a, b
  <1>3. PutsOf(c) \in Seq(MapName)
    BY <1>1, <1>2, ConcatProperties
  <1>4. Len(PutsOf(c)) \in Nat /\ DOMAIN PutsOf(c) = 1..Len(PutsOf(c))
        /\ \A i \in 1..Len(PutsOf(c)) : PutsOf(c)[i] \in MapName
    BY <1>3, LenProperties, ElementOfSeq
  <1> QED
    BY <1>3, <1>4 DEF Range

\* The map that a worker inside a put is about to write.
LEMMA PutUnderWay ==
  ASSUME StartupInv, MapInv, NEW w \in Worker, workerPc[w] = "doJob", putPos[w] # Len(PutsOf(ClassOf(w)))
  PROVE  /\ ClassOf(w) \in Class /\ putPos[w] + 1 \in 1..Len(PutsOf(ClassOf(w)))
         /\ MapOf(w) \in Range(PutsOf(ClassOf(w))) /\ MapOf(w) \in MapName
  <1>1. ClassOf(w) \in Class /\ putPos[w] <= Len(PutsOf(ClassOf(w))) /\ putPos[w] \in Nat
    BY DEF MapInv, WorkerPuts, PutsSoFar, ClassOf, J, StartupInv, StartupTypes
  <1>2. putPos[w] + 1 \in 1..Len(PutsOf(ClassOf(w)))
    BY <1>1, PutsType
  <1> QED
    BY <1>1, <1>2, PutsType DEF MapOf

LEMMA MapInvInit == ASSUME Init PROVE MapInv
  <1>1. MapTypes /\ OwnMaps /\ NoneLost
    BY DEF Init, T!Init, MapTypes, OwnMaps, NoneLost
  <1>2. WorkerPuts /\ RegisteredFromMaps
    BY DEF Init, T!Init, WorkerPuts, RegisteredFromMaps
  <1> QED
    BY <1>1, <1>2 DEF MapInv

\* A put on w's map begins.
LEMMA BeginPutMaps ==
  ASSUME StartupInv, MapInv, NEW w \in Worker, BeginPut(w)
  PROVE  MapInv'
  <1>1. UNCHANGED <<workerPc, workerJob, done, startupPc, next, plugins, registered, firstLoad, maps, putPos>>
    BY DEF BeginPut, taskerVars, startupVars
  <1>2. everRaced' = (everRaced \/ Rivals(w) # {})
        /\ raced' = [v \in Worker |-> raced[v] \/ v \in Rivals(w) \/ (v = w /\ Rivals(w) # {})]
    BY DEF BeginPut
  <1>3. MapTypes' /\ OwnMaps'
    BY <1>1, <1>2 DEF MapInv, MapTypes, OwnMaps
  <1>4. ~everRaced' => ~everRaced /\ \A v \in Worker : raced'[v] = raced[v]
    BY <1>2 DEF MapInv, MapTypes
  <1>5. WorkerPuts'
    BY <1>1, <1>4 DEF MapInv, WorkerPuts, PutsSoFar, ClassOf
  <1>6. NoneLost'
    BY <1>1, <1>4 DEF MapInv, NoneLost
  <1>7. RegisteredFromMaps'
    BY <1>1, <1>4 DEF MapInv, RegisteredFromMaps, ToLoad
  <1> QED
    BY <1>3, <1>5, <1>6, <1>7 DEF MapInv

\* It ends: the entry is there, and unless it has raced all others are.
LEMMA EndPutMaps ==
  ASSUME StartupInv, MapInv, NEW w \in Worker, EndPut(w)
  PROVE  MapInv'
  <1> DEFINE c == ClassOf(w)
             m == MapOf(w)
             full == maps[m] \cup {c}
  <1>1. UNCHANGED <<workerPc, workerJob, done, startupPc, next, plugins, registered, firstLoad, everRaced>>
    BY DEF EndPut, taskerVars, startupVars
  <1>2. workerPc[w] = "doJob" /\ putPos[w] # Len(PutsOf(c))
    BY DEF EndPut, StartupInv, PutInv
  <1>3. c \in Class /\ putPos[w] + 1 \in 1..Len(PutsOf(c)) /\ m \in Range(PutsOf(c)) /\ m \in MapName
    BY <1>2, PutUnderWay
  <1>4. PICK left \in IF raced[w] THEN SUBSET full ELSE {full} : maps' = [maps EXCEPT ![m] = left]
    BY DEF EndPut
  <1>5. raced' = [raced EXCEPT ![w] = FALSE] /\ putPos' = [putPos EXCEPT ![w] = @ + 1]
    BY DEF EndPut
  <1>6. m = PutsOf(c)[putPos[w] + 1]
    BY DEF MapOf
  <1>7. left \subseteq full /\ (~raced[w] => left = full)
    BY <1>4
  <1> HIDE DEF c, m
  <1>8. maps \in [MapName -> SUBSET Class] /\ raced \in [Worker -> BOOLEAN] /\ putPos \in [Worker -> Nat]
    BY DEF MapInv, MapTypes, StartupInv, StartupTypes
  <1>9. maps'[m] = left /\ \A o \in MapName : o # m => maps'[o] = maps[o]
    BY <1>3, <1>4, <1>8
  <1>10. MapTypes'
    <2>1. left \subseteq Class
      BY <1>3, <1>7, <1>8
    <2> QED
      BY <1>1, <1>4, <1>5, <1>8, <2>1 DEF MapInv, MapTypes
  <1>11. OwnMaps'
    BY <1>3, <1>7, <1>9 DEF MapInv, OwnMaps
  <1>12. ~everRaced => /\ c \in maps'[m]
                       /\ \A o \in MapName : maps[o] \subseteq maps'[o]
    BY <1>7, <1>9 DEF MapInv, NoneLost
  <1>13. WorkerPuts'
    <2> SUFFICES ASSUME NEW v \in Worker
                 PROVE  /\ workerPc'[v] # "doJob" => putPos'[v] = 0
                        /\ workerPc'[v] = "doJob" => workerJob'[v] \in J /\ PutsSoFar(v)'
      BY DEF WorkerPuts
    <2>1. CASE v = w
      <3>1. ClassOf(w)' = c /\ putPos'[w] = putPos[w] + 1 /\ putPos[w] \in Nat /\ Len(PutsOf(c)) \in Nat
        BY <1>1, <1>3, <1>5, <1>8, PutsType DEF ClassOf, c
      <3>2. PutsSoFar(w)
        BY <1>2 DEF MapInv, WorkerPuts
      <3>3. ASSUME ~everRaced, NEW i \in 1..(putPos[w] + 1) PROVE c \in maps'[PutsOf(c)[i]]
        <4>1. CASE i = putPos[w] + 1
          BY <1>6, <1>12, <3>3, <4>1
        <4>2. CASE i # putPos[w] + 1
          <5>1. i \in 1..putPos[w] /\ PutsOf(c)[i] \in MapName
            BY <1>3, <3>1, <4>2, PutsType, ElementOfSeq
          <5>2. c \in maps[PutsOf(c)[i]]
            BY <3>2, <3>3, <5>1 DEF PutsSoFar, c
          <5> QED
            BY <1>12, <3>3, <5>1, <5>2
        <4> QED
          BY <4>1, <4>2
      <3>4. putPos'[w] <= Len(PutsOf(c))
        BY <1>3, <3>1
      <3>5. PutsSoFar(w)'
        BY <1>1, <3>1, <3>3, <3>4 DEF PutsSoFar
      <3> QED
        BY <1>1, <1>2, <2>1, <3>5 DEF MapInv, WorkerPuts
    <2>2. CASE v # w
      <3>1. ClassOf(v)' = ClassOf(v) /\ putPos'[v] = putPos[v]
        BY <1>1, <1>5, <1>8, <2>2 DEF ClassOf
      <3>2. ASSUME workerPc[v] = "doJob" PROVE PutsSoFar(v)'
        <4>1. PutsSoFar(v) /\ ClassOf(v) \in Class
          BY <3>2 DEF MapInv, WorkerPuts, ClassOf, J
        <4>2. ASSUME ~everRaced, NEW i \in 1..putPos[v] PROVE ClassOf(v) \in maps'[PutsOf(ClassOf(v))[i]]
          <5>1. i \in 1..Len(PutsOf(ClassOf(v)))
            BY <1>8, <4>1, PutsType DEF PutsSoFar
          <5>2. PutsOf(ClassOf(v))[i] \in MapName
            BY <4>1, <5>1, PutsType
          <5>3. ClassOf(v) \in maps[PutsOf(ClassOf(v))[i]]
            BY <4>1, <4>2 DEF PutsSoFar
          <5> QED
            BY <1>12, <4>2, <5>2, <5>3
        <4> QED
          BY <1>1, <3>1, <4>1, <4>2 DEF PutsSoFar
      <3> QED
        BY <1>1, <3>1, <3>2 DEF MapInv, WorkerPuts
    <2> QED
      BY <2>1, <2>2
  <1>14. NoneLost'
    <2> SUFFICES ASSUME ~everRaced
                 PROVE  /\ \A v \in Worker : ~raced'[v]
                        /\ \A j \in done : \A o \in Range(PutsOf(j[1])) : j[1] \in maps'[o]
      BY <1>1 DEF NoneLost
    <2>1. \A v \in Worker : ~raced'[v]
      BY <1>5, <1>8 DEF MapInv, NoneLost
    <2>2. ASSUME NEW j \in done, NEW o \in Range(PutsOf(j[1])) PROVE j[1] \in maps'[o]
      <3>1. j[1] \in Class
        BY DEF MapInv, MapTypes, J
      <3>2. o \in MapName
        BY <3>1, PutsType
      <3>3. j[1] \in maps[o]
        BY DEF MapInv, NoneLost
      <3> QED
        BY <1>12, <3>2, <3>3
    <2> QED
      BY <2>1, <2>2
  <1>15. RegisteredFromMaps'
    BY <1>1 DEF MapInv, RegisteredFromMaps, ToLoad
  <1> QED
    BY <1>10, <1>11, <1>13, <1>14, <1>15 DEF MapInv

\* doJob returns when all puts of the class are completed.
LEMMA DoJobMaps ==
  ASSUME StartupInv, MapInv, NEW w \in Worker, DoJobReturns(w)
  PROVE  MapInv'
  <1>1. /\ UNCHANGED <<workerJob, startupPc, next, plugins, registered, firstLoad, everRaced, maps, raced>>
        /\ workerPc[w] = "doJob" /\ workerPc' = [workerPc EXCEPT ![w] = "decrement"]
        /\ done' = done \cup {workerJob[w]} /\ putPos' = [putPos EXCEPT ![w] = 0]
        /\ putPos[w] = Len(PutsOf(ClassOf(w)))
    BY DEF DoJobReturns, T!DoJob, InDoJob, startupVars
  <1>2. workerJob[w] \in J /\ PutsSoFar(w)
    BY <1>1 DEF MapInv, WorkerPuts
  <1>3. workerPc \in [Worker -> {"none", "doJob", "decrement"}] /\ putPos \in [Worker -> Nat]
    BY DEF StartupInv, StartupTypes, TaskerInv, TaskerTypes
  <1>4. MapTypes' /\ OwnMaps' /\ RegisteredFromMaps'
    BY <1>1, <1>2 DEF MapInv, MapTypes, OwnMaps, RegisteredFromMaps, ToLoad
  <1>5. WorkerPuts'
    <2> SUFFICES ASSUME NEW v \in Worker
                 PROVE  /\ workerPc'[v] # "doJob" => putPos'[v] = 0
                        /\ workerPc'[v] = "doJob" => workerJob'[v] \in J /\ PutsSoFar(v)'
      BY DEF WorkerPuts
    <2>1. CASE v = w
      BY <1>1, <1>3, <2>1
    <2>2. CASE v # w
      <3>1. workerPc'[v] = workerPc[v] /\ putPos'[v] = putPos[v] /\ ClassOf(v)' = ClassOf(v)
        BY <1>1, <1>3, <2>2 DEF ClassOf
      <3> QED
        BY <1>1, <3>1 DEF MapInv, WorkerPuts, PutsSoFar
    <2> QED
      BY <2>1, <2>2
  <1>6. NoneLost'
    <2> SUFFICES ASSUME ~everRaced, NEW j \in done', NEW m \in Range(PutsOf(j[1])) PROVE j[1] \in maps[m]
      BY <1>1 DEF MapInv, NoneLost
    <2>1. CASE j \in done
      BY <2>1 DEF MapInv, NoneLost
    <2>2. CASE j = workerJob[w]
      <3>1. j[1] = ClassOf(w) /\ j[1] \in Class
        BY <1>2, <2>2 DEF ClassOf, J
      <3>2. PICK i \in 1..Len(PutsOf(j[1])) : m = PutsOf(j[1])[i]
        BY <3>1, PutsType
      <3> QED
        BY <1>1, <1>2, <3>1, <3>2 DEF PutsSoFar
    <2> QED
      BY <1>1, <2>1, <2>2
  <1> QED
    BY <1>4, <1>5, <1>6 DEF MapInv

\* A worker that starts has completed no put, and one that ends leaves none.
LEMMA WorkerStartMaps ==
  ASSUME StartupInv, MapInv, TaskerThread \/ \E w \in Worker : WorkerEnds(w)
  PROVE  MapInv'
  <1>1. UNCHANGED <<putVars, startupPc, next, plugins, registered, firstLoad, done>>
    BY TaskerThreadStep DEF TaskerThread, WorkerEnds, T!DecrementCounter, startupVars, StartupInv, TaskerInv, T!taskerVars
  <1>2. MapTypes' /\ OwnMaps' /\ NoneLost' /\ RegisteredFromMaps'
    BY <1>1 DEF putVars, MapInv, MapTypes, OwnMaps, NoneLost, RegisteredFromMaps, ToLoad
  <1>3. UNCHANGED <<putPos, maps, everRaced>>
    BY <1>1 DEF putVars
  <1>4. WorkerPuts'
    <2>1. CASE UNCHANGED <<workerPc, workerJob>>
      BY <1>3, <2>1 DEF MapInv, WorkerPuts, PutsSoFar, ClassOf
    <2>2. ASSUME NEW w \in Worker, T!StartWorker(w) PROVE WorkerPuts'
      <3>1. /\ workerPc[w] = "none" /\ workerPc' = [workerPc EXCEPT ![w] = "doJob"]
            /\ workerJob' = [workerJob EXCEPT ![w] = valToDoJob] /\ taskerPc = "start"
        BY <2>2 DEF T!StartWorker
      <3>2. workerPc \in [Worker -> {"none", "doJob", "decrement"}] /\ workerJob \in [Worker -> J \cup {NoJob}]
            /\ valToDoJob \in J
        BY <3>1 DEF StartupInv, TaskerInv, TaskerTypes
      <3>3. putPos[w] = 0
        BY <3>1 DEF MapInv, WorkerPuts
      <3>4. workerJob'[w] \in J /\ ClassOf(w)' \in Class
        BY <3>1, <3>2 DEF ClassOf, J
      <3>5. PutsSoFar(w)'
        <4>1. putPos'[w] = 0 /\ Len(PutsOf(ClassOf(w)')) \in Nat
          BY <1>3, <3>3, <3>4, PutsType
        <4> QED
          BY <4>1 DEF PutsSoFar
      <3>6. \A v \in Worker : v # w => workerPc'[v] = workerPc[v] /\ workerJob'[v] = workerJob[v]
        BY <3>1, <3>2
      <3>7. workerPc'[w] = "doJob"
        BY <3>1, <3>2
      <3> SUFFICES ASSUME NEW v \in Worker
                   PROVE  /\ workerPc'[v] # "doJob" => putPos'[v] = 0
                          /\ workerPc'[v] = "doJob" => workerJob'[v] \in J /\ PutsSoFar(v)'
        BY DEF WorkerPuts
      <3>8. CASE v = w
        BY <3>4, <3>5, <3>7, <3>8
      <3>9. CASE v # w
        BY <1>3, <3>6, <3>9 DEF MapInv, WorkerPuts, PutsSoFar, ClassOf
      <3> QED
        BY <3>8, <3>9
    <2>3. ASSUME NEW w \in Worker, WorkerEnds(w) PROVE WorkerPuts'
      <3>1. workerPc[w] = "decrement" /\ workerPc' = [workerPc EXCEPT ![w] = "none"]
            /\ \A v \in Worker : v # w => workerJob'[v] = workerJob[v]
        BY <2>3 DEF WorkerEnds, T!DecrementCounter, StartupInv, TaskerInv, TaskerTypes
      <3>2. workerPc \in [Worker -> {"none", "doJob", "decrement"}]
        BY DEF StartupInv, TaskerInv, TaskerTypes
      <3>3. workerPc'[w] = "none" /\ \A v \in Worker : v # w => workerPc'[v] = workerPc[v]
        BY <3>1, <3>2
      <3> QED
        BY <1>3, <3>1, <3>3 DEF MapInv, WorkerPuts, PutsSoFar, ClassOf
    <2> QED
      BY <2>1, <2>2, <2>3 DEF TaskerThread, T!Tasker, T!TestExit, T!PollJob, T!PollNothing, T!workerVars
  <1> QED
    BY <1>2, <1>4 DEF MapInv

\* The startup thread registers what is in the maps.
LEMMA StartupMaps ==
  ASSUME StartupInv, MapInv,
         \/ \E c \in Class : AddLuaPlugin(c)
         \/ Startup \/ RestartFromAsset \/ StartupThread
  PROVE  MapInv'
  <1>1. UNCHANGED <<maps, raced, everRaced, putPos, done, workerPc, workerJob>>
    BY DEF AddLuaPlugin, Startup, RestartFromAsset, StartupThread, QueueClass, StartTasker, SkipTasker, StopWaiting,
           CallExit, Join, Register, Ready, putVars, taskerVars, T!AddToQueue, T!StartTasker, T!Exit, T!workerVars,
           T!taskerVars
  <1>2. OwnMaps' /\ NoneLost' /\ WorkerPuts'
    BY <1>1 DEF MapInv, OwnMaps, NoneLost, WorkerPuts, PutsSoFar, ClassOf
  <1>3. ToLoad \in Seq(Class) /\ Len(ToLoad) \in Nat /\ \A i \in 1..Len(ToLoad) : ToLoad[i] \in Class
    BY ToLoadType DEF StartupInv
  <1>4. next \in Nat \ {0} /\ registered \in [Class -> SUBSET MapName] /\ plugins \in Seq(Class)
    BY DEF StartupInv, StartupTypes, MapInv, MapTypes
  <1>5. CASE Startup \/ RestartFromAsset
    <2>1. registered' \in [Class -> SUBSET MapName] /\ next' = 1 /\ plugins' = plugins
      BY <1>5 DEF Startup, RestartFromAsset
    <2>2. MapTypes'
      BY <1>1, <2>1 DEF MapInv, MapTypes
    <2>3. RegisteredFromMaps'
      BY <1>3, <2>1 DEF RegisteredFromMaps, ToLoad
    <2> QED
      BY <1>2, <2>2, <2>3 DEF MapInv
  <1>6. ASSUME NEW c \in Class, AddLuaPlugin(c) PROVE MapInv'
    <2>1. plugins' = Append(plugins, c) /\ UNCHANGED <<startupPc, next, registered, firstLoad>>
      BY <1>6 DEF AddLuaPlugin
    <2>2. ToLoad' = Append(ToLoad, c)
      <3>1. ClsArr \in Seq(Class)
        BY RegistrationAssumption
      <3>2. ClsArr \o Append(plugins, c) = Append(ClsArr \o plugins, c)
        BY <1>4, <3>1
      <3> QED
        BY <2>1, <3>2 DEF ToLoad
    <2>3. Len(ToLoad') = Len(ToLoad) + 1 /\ \A i \in 1..Len(ToLoad) : ToLoad'[i] = ToLoad[i]
      BY <1>3, <2>2, AppendProperties
    <2>4. MapTypes'
      BY <1>1, <2>1 DEF MapInv, MapTypes
    <2>5. RegisteredFromMaps'
      BY <1>1, <1>3, <1>4, <2>1, <2>3 DEF MapInv, RegisteredFromMaps
    <2> QED
      BY <1>2, <2>4, <2>5 DEF MapInv
  <1>7. CASE QueueClass \/ StartTasker \/ StopWaiting \/ CallExit
    <2>1. registered' = registered /\ startupPc' \notin {"register", "ready"}
      BY <1>7 DEF QueueClass, StartTasker, StopWaiting, CallExit
    <2> QED
      BY <1>1, <1>2, <2>1 DEF MapInv, MapTypes, RegisteredFromMaps
  <1>8. CASE SkipTasker \/ Join
    <2>1. registered' = registered /\ next' = 1 /\ plugins' = plugins
      BY <1>8 DEF SkipTasker, Join
    <2>2. RegisteredFromMaps'
      BY <1>3, <2>1 DEF RegisteredFromMaps, ToLoad
    <2> QED
      BY <1>1, <1>2, <2>1, <2>2 DEF MapInv, MapTypes
  <1>9. CASE Ready
    <2>1. UNCHANGED <<registered, next, plugins, firstLoad>> /\ startupPc = "register"
      BY <1>9 DEF Ready
    <2> QED
      BY <1>1, <1>2, <2>1 DEF MapInv, MapTypes, RegisteredFromMaps, ToLoad
  <1>10. CASE Register
    <2> DEFINE c == ToLoad[next]
               found == {m \in MapName : c \in maps[m]}
    <2>1. /\ startupPc = "register" /\ next <= Len(ToLoad) /\ next' = next + 1
          /\ registered' = [registered EXCEPT ![c] = found] /\ UNCHANGED <<startupPc, plugins, firstLoad>>
      BY <1>10 DEF Register
    <2>2. c \in Class
      BY <1>3, <1>4, <2>1
    <2>3. registered'[c] = found /\ \A o \in Class : o # c => registered'[o] = registered[o]
      BY <1>4, <2>1, <2>2
    <2>4. MapTypes'
      BY <1>1, <1>4, <2>1 DEF MapInv, MapTypes
    <2>5. ASSUME ~everRaced, c \in firstLoad PROVE found = Range(PutsOf(c))
      <3>1. <<c, 1>> \in done
        BY <2>1, <2>5 DEF StartupInv, Phases, ReflectionDone
      <3>2. \A m \in Range(PutsOf(c)) : c \in maps[m]
        BY <2>5, <3>1 DEF MapInv, NoneLost
      <3>3. Range(PutsOf(c)) \subseteq MapName
        BY <2>2, PutsType
      <3> QED
        BY <3>2, <3>3 DEF MapInv, OwnMaps
    <2> HIDE DEF found
    <2>6. RegisteredFromMaps'
      <3>1. ToLoad' = ToLoad
        BY <2>1 DEF ToLoad
      <3>2. ASSUME ~everRaced, NEW i \in 1..next, ToLoad[i] \in firstLoad
            PROVE  registered'[ToLoad[i]] = Range(PutsOf(ToLoad[i]))
        <4>1. CASE ToLoad[i] = c
          BY <2>3, <2>5, <3>2, <4>1
        <4>2. CASE ToLoad[i] # c
          <5>1. i \in 1..(next - 1) /\ ToLoad[i] \in Class
            BY <1>3, <1>4, <2>1, <4>2
          <5> QED
            BY <2>1, <2>3, <3>2, <4>2, <5>1 DEF MapInv, RegisteredFromMaps
        <4> QED
          BY <4>1, <4>2
      <3>3. next' - 1 = next
        BY <1>4, <2>1
      <3> QED
        BY <1>1, <2>1, <3>1, <3>2, <3>3 DEF RegisteredFromMaps
    <2> QED
      BY <1>2, <2>4, <2>6 DEF MapInv
  <1> QED
    BY <1>5, <1>6, <1>7, <1>8, <1>9, <1>10 DEF StartupThread

LEMMA MapInvStep ==
  ASSUME StartupInv, MapInv, [Next]_vars
  PROVE  MapInv'
  <1>1. CASE UNCHANGED vars
    BY <1>1 DEF vars, taskerVars, putVars, startupVars, MapInv, MapTypes, OwnMaps, WorkerPuts, PutsSoFar, ClassOf,
                NoneLost, RegisteredFromMaps, ToLoad
  <1>2. CASE Next
    BY <1>2, BeginPutMaps, EndPutMaps, DoJobMaps, WorkerStartMaps, StartupMaps DEF Next, WorkerThread
  <1> QED
    BY <1>1, <1>2

\* Unless two puts have raced, every class of the first startup is registered
\* in every startup with all that reflection gives, and with nothing else.
THEOREM AllIsRegistered == Spec => []RegisteredCompletely
  <1>1. Init => StartupInv /\ MapInv
    BY StartupInit, MapInvInit
  <1>2. StartupInv /\ MapInv /\ [Next]_vars => StartupInv' /\ MapInv'
    BY TaskerInvStep, StartupTypesStep, PutInvStep, PhasesStep, MapInvStep DEF StartupInv
  <1>3. StartupInv /\ MapInv => RegisteredCompletely
    BY DEF MapInv, RegisteredFromMaps, RegisteredCompletely, RegisteredSoFar
  <1> QED
    BY <1>1, <1>2, <1>3, PTL DEF Spec
=============================================================================
