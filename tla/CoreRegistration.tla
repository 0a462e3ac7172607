-------------------------- MODULE CoreRegistration --------------------------
(***************************************************************************)
(* ToppingEngine.registerCoreFunctions: how the engine learns the methods  *)
(* of the classes it exposes to Lua.  The startup thread queues every      *)
(* class on a LuaTasker, whose workers reflect on the classes and put what *)
(* they find into three static HashMaps of Lunar; it polls hasJob(), stops *)
(* the tasker, joins its thread and then registers every class in the Lua  *)
(* state from the maps.  A restart of the engine goes through the same     *)
(* method again, with the maps of the first startup still there.           *)
(*                                                                         *)
(* The maps are plain HashMaps and the workers write them without a lock.  *)
(* Two puts that overlap on one map are a data race: the later one may     *)
(* leave any of the entries out (both fill the same bucket, or one resizes *)
(* the table under the other).                                             *)
(***************************************************************************)
EXTENDS Naturals, Sequences, SequencesExt, FiniteSets

CONSTANTS
  Class,             \* the Java and Kotlin classes
  Annotated,         \* those with a LuaClass annotation
  Companion,         \* those of them that are Kotlin classes with a companion
  ClsArr,            \* clsArr: the sequence of the engine's own classes
  MaxStartups,       \* bound: how often the engine is started
  NoJob, Worker, MAX_THREAD_COUNT

ASSUME RegistrationAssumption ==
  /\ Annotated \subseteq Class
  /\ Companion \subseteq Annotated
  /\ ClsArr \in Seq(Class)
  /\ Range(ClsArr) \cap Annotated # {}
  /\ \A i, k \in 1..Len(ClsArr) : ClsArr[i] = ClsArr[k] => i = k
  /\ MaxStartups \in Nat \ {0}
  /\ NoJob \notin Class \X (1..MaxStartups)
  /\ IsFiniteSet(Worker)

VARIABLES
  valsToDl, CURRENT_COUNT, exit, taskerPc, valToDoJob, workerPc, workerJob,
  added, removed, done,   \* the tasker
  startupPc,              \* where the startup thread is
  startups,               \* how many startups have begun
  next,                   \* index of the class it is about to queue or register
  plugins,                \* the plugin classes
  taskerThread,           \* taskerThread # null
  maps,                   \* the classes each of Lunar's maps has an entry for
  methodMapSize,          \* Lunar.methodMap.size(), 1 for any positive size
  putPos,                 \* how many puts each worker's doJob has completed
  putting,                \* whether it is inside HashMap.put
  raced,                  \* whether that put overlaps another one
  registered,             \* what Lunar.register found for each class
  firstLoad,              \* history: the classes queued by the first startup
  everRaced               \* history: some put has raced

taskerVars == <<valsToDl, CURRENT_COUNT, exit, taskerPc, valToDoJob, workerPc,
                workerJob, added, removed, done>>
putVars == <<maps, methodMapSize, putPos, putting, raced, everRaced>>
startupVars == <<startupPc, startups, next, plugins, taskerThread, registered, firstLoad>>
vars == <<taskerVars, putVars, startupVars>>

\* A job is a class queued by a certain startup.
T == INSTANCE LuaTasker WITH Job <- Class \X (1..MaxStartups)

MapName == {"kotlinCompanionMap", "methodMap", "fieldMap"}

\* The puts of doJob, in their order.
PutsOf(c) ==
  (IF c \in Companion THEN <<"kotlinCompanionMap">> ELSE <<>>)
  \o (IF c \in Annotated THEN <<"methodMap", "fieldMap">> ELSE <<>>)

\* What the two loops over clsArr and plugins go through.
ToLoad == ClsArr \o plugins

Init ==
  /\ T!Init
  /\ startupPc = "idle"
  /\ startups = 0
  /\ next = 1
  /\ plugins = <<>>
  /\ taskerThread = FALSE
  /\ maps = [m \in MapName |-> {}]
  /\ methodMapSize = 0
  /\ putPos = [w \in Worker |-> 0]
  /\ putting = [w \in Worker |-> FALSE]
  /\ raced = [w \in Worker |-> FALSE]
  /\ registered = [c \in Class |-> {}]
  /\ firstLoad = {}
  /\ everRaced = FALSE

-----------------------------------------------------------------------------
(* The application and the startup thread.                                 *)

\* An application adds its plugins before it starts the engine, or between
\* two startups.
AddLuaPlugin(c) ==
  /\ startupPc \in {"idle", "ready"}
  /\ c \notin Range(ToLoad)
  /\ plugins' = Append(plugins, c)
  /\ UNCHANGED <<taskerVars, putVars, startupPc, startups, next, taskerThread,
                 registered, firstLoad>>

\* startup(context) or restart(root): a new Lua state with nothing
\* registered in it, then registerCoreFunctions.
Startup ==
  /\ startupPc \in {"idle", "ready"}
  /\ startups < MaxStartups
  /\ startups' = startups + 1
  /\ startupPc' = "addToQueue"
  /\ next' = 1
  /\ registered' = [c \in Class |-> {}]
  /\ firstLoad' = IF startups = 0 THEN Range(ToLoad) ELSE firstLoad
  /\ UNCHANGED <<taskerVars, putVars, plugins, taskerThread>>

\* restart(context, assetManager, root): a new Lua state too, but
\* loadScriptsFromAsset goes on to run the scripts with nothing registered.
RestartFromAsset ==
  /\ startupPc = "ready"
  /\ startups < MaxStartups
  /\ startups' = startups + 1
  /\ next' = 1
  /\ registered' = [c \in Class |-> {}]
  /\ UNCHANGED <<taskerVars, putVars, startupPc, plugins, taskerThread, firstLoad>>

QueueClass ==
  /\ startupPc = "addToQueue"
  /\ next <= Len(ToLoad)
  /\ T!AddToQueue(<<ToLoad[next], startups>>)
  /\ next' = next + 1
  /\ UNCHANGED <<putVars, startupPc, startups, plugins, taskerThread, registered, firstLoad>>

\* taskerThread == null and Lunar.methodMap.size() == 0: reflect now.
StartTasker ==
  /\ startupPc = "addToQueue"
  /\ next > Len(ToLoad)
  /\ ~taskerThread
  /\ methodMapSize = 0
  /\ T!StartTasker
  /\ taskerThread' = TRUE
  /\ startupPc' = "hasJob"
  /\ UNCHANGED <<putVars, startups, next, plugins, registered, firstLoad>>

\* Otherwise the maps of an earlier startup are used.
SkipTasker ==
  /\ startupPc = "addToQueue"
  /\ next > Len(ToLoad)
  /\ taskerThread \/ methodMapSize # 0
  /\ startupPc' = "register"
  /\ next' = 1
  /\ UNCHANGED <<taskerVars, putVars, startups, plugins, taskerThread, registered, firstLoad>>

\* Fault: wait for the queue only, not for the workers.
StopWaitingEarly ==
  /\ startupPc = "hasJob"
  /\ Len(valsToDl) = 0
  /\ startupPc' = "exit"
  /\ UNCHANGED <<taskerVars, putVars, startups, next, plugins, taskerThread,
                 registered, firstLoad>>

\* while(tasker.hasJob()) Thread.sleep(100): the loop ends.
StopWaiting ==
  /\ startupPc = "hasJob"
  /\ ~T!hasJob
  /\ startupPc' = "exit"
  /\ UNCHANGED <<taskerVars, putVars, startups, next, plugins, taskerThread,
                 registered, firstLoad>>

\* Fault: join without telling the tasker to exit.
JoinOnly ==
  /\ startupPc = "exit"
  /\ startupPc' = "join"
  /\ UNCHANGED <<taskerVars, putVars, startups, next, plugins, taskerThread,
                 registered, firstLoad>>

CallExit ==
  /\ startupPc = "exit"
  /\ T!Exit
  /\ startupPc' = "join"
  /\ UNCHANGED <<putVars, startups, next, plugins, taskerThread, registered, firstLoad>>

\* taskerThread.join(); taskerThread = null
Join ==
  /\ startupPc = "join"
  /\ taskerPc = "ended"
  /\ startupPc' = "register"
  /\ next' = 1
  /\ taskerThread' = FALSE
  /\ UNCHANGED <<taskerVars, putVars, startups, plugins, registered, firstLoad>>

\* Lunar.register reads the class's entries of the three maps.
Register ==
  /\ startupPc = "register"
  /\ next <= Len(ToLoad)
  /\ LET c == ToLoad[next]
     IN  registered' = [registered EXCEPT ![c] = {m \in MapName : c \in maps[m]}]
  /\ next' = next + 1
  /\ UNCHANGED <<taskerVars, putVars, startupPc, startups, plugins, taskerThread, firstLoad>>

Ready ==
  /\ startupPc = "register"
  /\ next > Len(ToLoad)
  /\ startupPc' = "ready"
  /\ UNCHANGED <<taskerVars, putVars, startups, next, plugins, taskerThread,
                 registered, firstLoad>>

StartupThread ==
  \/ QueueClass \/ StartTasker \/ SkipTasker \/ StopWaiting \/ CallExit
  \/ Join \/ Register \/ Ready

-----------------------------------------------------------------------------
(* The tasker thread and its workers; doJob is the sequence of its puts.   *)

TaskerThread == T!Tasker /\ UNCHANGED <<putVars, startupVars>>

ClassOf(w) == workerJob[w][1]
InDoJob(w) == workerPc[w] = "doJob"
MapOf(w) == PutsOf(ClassOf(w))[putPos[w] + 1]

\* The workers whose put is under way on the map that w is about to write.
Rivals(w) == {v \in Worker \ {w} : putting[v] /\ MapOf(v) = MapOf(w)}

BeginPut(w) ==
  /\ InDoJob(w)
  /\ ~putting[w]
  /\ putPos[w] < Len(PutsOf(ClassOf(w)))
  /\ putting' = [putting EXCEPT ![w] = TRUE]
  /\ raced' = [v \in Worker |->
                 \/ raced[v]
                 \/ v \in Rivals(w)
                 \/ v = w /\ Rivals(w) # {}]
  /\ everRaced' = (everRaced \/ Rivals(w) # {})
  /\ UNCHANGED <<taskerVars, startupVars, maps, methodMapSize, putPos>>

EndPut(w) ==
  /\ putting[w]
  /\ LET full == maps[MapOf(w)] \cup {ClassOf(w)}
     IN  \E left \in IF raced[w] THEN SUBSET full ELSE {full} :
           maps' = [maps EXCEPT ![MapOf(w)] = left]
  /\ methodMapSize' = IF MapOf(w) = "methodMap" THEN 1 ELSE methodMapSize
  /\ putting' = [putting EXCEPT ![w] = FALSE]
  /\ raced' = [raced EXCEPT ![w] = FALSE]
  /\ putPos' = [putPos EXCEPT ![w] = @ + 1]
  /\ UNCHANGED <<taskerVars, startupVars, everRaced>>

DoJobReturns(w) ==
  /\ InDoJob(w)
  /\ putPos[w] = Len(PutsOf(ClassOf(w)))
  /\ T!DoJob(w)
  /\ putPos' = [putPos EXCEPT ![w] = 0]
  /\ UNCHANGED <<startupVars, maps, methodMapSize, putting, raced, everRaced>>

WorkerEnds(w) == T!DecrementCounter(w) /\ UNCHANGED <<putVars, startupVars>>

WorkerThread(w) == BeginPut(w) \/ EndPut(w) \/ DoJobReturns(w) \/ WorkerEnds(w)

-----------------------------------------------------------------------------

Next ==
  \/ \E c \in Class : AddLuaPlugin(c)
  \/ Startup
  \/ RestartFromAsset
  \/ StartupThread
  \/ TaskerThread
  \/ \E w \in Worker : WorkerThread(w)

\* The threads that have been started run; reflection returns.
Fairness ==
  /\ WF_vars(StartupThread)
  /\ WF_vars(TaskerThread)
  /\ \A w \in Worker : WF_vars(WorkerThread(w))

Spec == Init /\ [][Next]_vars /\ Fairness

-----------------------------------------------------------------------------
(* Properties.                                                             *)

\* The classes that have been registered in the current Lua state.
RegisteredSoFar ==
  IF startupPc \in {"register", "ready"} THEN {ToLoad[i] : i \in 1..(next - 1)} ELSE {}

\* registerCoreFunctions registers nothing before the reflection of every
\* class the first startup queued has been completed.
RegistersAfterReflection ==
  startupPc \in {"register", "ready"}
    => \A c \in firstLoad : <<c, 1>> \in done

\* The startup thread reads the maps, methodMap.size() included, only while
\* no worker is writing them: the tasker has been waited for.
MapsQuietWhenRead ==
  startupPc \in {"addToQueue", "register"} => \A w \in Worker : workerPc[w] = "none"

\* Unless two puts have raced, every class of the first startup is registered
\* with all that reflection gives, in every startup.
RegisteredCompletely ==
  ~everRaced => \A c \in RegisteredSoFar \cap firstLoad :
                  registered[c] = Range(PutsOf(c))

\* "Empty method info for <name>, used tasker?": when the tasker has been
\* used, each annotated class is registered with its methods.
NoEmptyMethodInfo ==
  \A c \in RegisteredSoFar \cap Annotated : "methodMap" \in registered[c]

\* A startup that begins ends with the engine ready: hasJob() turns false,
\* the tasker exits and the join returns.
StartupCompletes == startupPc = "addToQueue" ~> startupPc = "ready"

=============================================================================
