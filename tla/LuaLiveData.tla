---------------------------- MODULE LuaLiveData ----------------------------
(***************************************************************************)
(* LuaLiveData.kt and LuaMutableLiveData.kt: values that Lua functions     *)
(* observe for as long as a lifecycle owner lives.  LuaLiveData keeps an   *)
(* Observer for each LuaTranslator in observerMap and hands it to the      *)
(* MutableLiveData of androidx, which is modelled here as the code relies  *)
(* on it: versions, a dispatch that calls every active observer that has   *)
(* not seen the value, the restart of a dispatch when a callback changes   *)
(* something, and posted values that are set later on the main thread.     *)
(*                                                                         *)
(* Everything but postValue runs on the main thread, so the callbacks of a *)
(* dispatch are the only place where other calls get in between.           *)
(*                                                                         *)
(* A Lua function that is passed to a Java method is wrapped in a new      *)
(* LuaTranslator each time (Lunar.thunk); a script can also make one with  *)
(* LuaTranslator.register and pass that object more than once.             *)
(***************************************************************************)
EXTENDS Naturals, Sequences, SequencesExt, FiniteSets

CONSTANTS
  Function,        \* the Lua functions
  Owner,           \* the lifecycle owners
  MaxTranslators,  \* bound: how many LuaTranslators are made
  MaxObservers,    \* bound: how many Observers are made
  MaxVersion,      \* bound: how often the value is set or posted
  None             \* null

ASSUME LiveDataAssumption ==
  /\ MaxTranslators \in Nat /\ MaxObservers \in Nat /\ MaxVersion \in Nat
  /\ None \notin Owner

Translator == 1..MaxTranslators
Observer == 1..MaxObservers

VARIABLES
  wraps,        \* the function of each LuaTranslator made so far
  handles,      \* the translators a script can pass again
  observerMap,  \* the Observer of each translator, or 0
  calls,        \* the translator that each Observer made so far calls
  attached,     \* the owner of each Observer, or None: the MutableLiveData
  state,        \* the state of each owner
  version,      \* how often the value has been set
  seen,         \* the version each Observer has been called with
  pending,      \* a posted value has not been set yet
  posted,       \* how many values have been posted
  dispatch,     \* "no", "visit" or "callback": where the dispatch is
  toVisit,      \* the Observers it has not considered yet
  invalidated,  \* mDispatchInvalidated
  removedFunctions, \* history: given to removeObserver and not to observe since
  removedHandles    \* history: the same for registered translators

luaVars == <<wraps, handles, observerMap, calls>>
ownerVars == <<state>>
valueVars == <<version, seen>>
postVars == <<pending, posted>>
dispatchVars == <<dispatch, toVisit, invalidated>>
historyVars == <<removedFunctions, removedHandles>>
liveDataVars == <<luaVars, attached, ownerVars, valueVars, postVars, dispatchVars, historyVars>>

LiveDataInit ==
  /\ wraps = <<>>
  /\ handles = {}
  /\ observerMap = [t \in Translator |-> 0]
  /\ calls = <<>>
  /\ attached = [o \in Observer |-> None]
  /\ state = [w \in Owner |-> "created"]
  /\ version = 0
  /\ seen = [o \in Observer |-> 0]
  /\ pending = FALSE
  /\ posted = 0
  /\ dispatch = "no"
  /\ toVisit = {}
  /\ invalidated = FALSE
  /\ removedFunctions = {}
  /\ removedHandles = {}

-----------------------------------------------------------------------------
(* The dispatch of MutableLiveData.                                        *)

Attached == {o \in Observer : attached[o] # None}
Active(o) == attached[o] # None /\ state[attached[o]] = "started"
Stale(o) == Active(o) /\ seen[o] < version

\* Fault: a change made in a callback is forgotten.
DispatchingOnce(S) ==
  IF dispatch = "no"
  THEN /\ dispatch' = IF S = {} THEN "no" ELSE "visit"
       /\ toVisit' = S
       /\ UNCHANGED invalidated
  ELSE UNCHANGED dispatchVars

\* dispatchingValue: consider these Observers now, or start all over again
\* when the dispatch that is under way has finished its callback.
Dispatching(S) ==
  IF dispatch = "no"
  THEN /\ dispatch' = IF S = {} THEN "no" ELSE "visit"
       /\ toVisit' = S
       /\ UNCHANGED invalidated
  ELSE /\ invalidated' = (invalidated \/ S # {})
       /\ UNCHANGED <<dispatch, toVisit>>

\* Main thread code runs between dispatches, and in a callback.
MainMayRun == dispatch \in {"no", "callback"}

\* Fault: the flag is cleared and the dispatch goes on instead of restarting.
VisitedOnly(o) ==
  /\ toVisit' = toVisit \ {o}
  /\ dispatch' = IF toVisit' = {} THEN "no" ELSE "visit"
  /\ invalidated' = FALSE

\* The dispatch is done with o.
Visited(o) ==
  /\ toVisit' = IF invalidated THEN Attached ELSE toVisit \ {o}
  /\ dispatch' = IF toVisit' = {} THEN "no" ELSE "visit"
  /\ invalidated' = FALSE

\* considerNotify, in the order in which the Observers were attached.
ConsiderNotify ==
  /\ dispatch = "visit"
  /\ LET o == CHOOSE m \in toVisit : \A k \in toVisit : m <= k
     IN  IF Stale(o)
         THEN /\ seen' = [seen EXCEPT ![o] = version]
              /\ dispatch' = "callback"
              /\ UNCHANGED <<toVisit, invalidated>>
         ELSE /\ Visited(o)
              /\ UNCHANGED seen
  /\ UNCHANGED <<luaVars, attached, ownerVars, version, postVars, historyVars>>

\* Observer.onChanged: lt.callIn(t) returns.
CallbackReturns ==
  /\ dispatch = "callback"
  /\ Visited(CHOOSE m \in toVisit : \A k \in toVisit : m <= k)
  /\ UNCHANGED <<luaVars, attached, ownerVars, valueVars, postVars, historyVars>>

-----------------------------------------------------------------------------
(* LuaTranslator: how the argument of observe and removeObserver is made.  *)

\* LuaTranslator.register
RegisterTranslator(f) ==
  /\ MainMayRun
  /\ Len(wraps) < MaxTranslators
  /\ wraps' = Append(wraps, f)
  /\ handles' = handles \cup {Len(wraps) + 1}
  /\ UNCHANGED <<observerMap, calls, attached, ownerVars, valueVars, postVars,
                 dispatchVars, historyVars>>

\* Lunar.thunk wraps the function f in a translator of its own.
Wrapped(f, lt) ==
  /\ Len(wraps) < MaxTranslators
  /\ wraps' = Append(wraps, f)
  /\ lt = Len(wraps) + 1
  /\ UNCHANGED handles

Passed(lt) ==
  /\ lt \in handles
  /\ UNCHANGED <<wraps, handles>>

-----------------------------------------------------------------------------
(* The methods of LuaLiveData.                                             *)

\* The Observer that observerMap has for lt, if any, is detached.
Detach(lt) ==
  IF observerMap[lt] = 0 THEN attached ELSE [attached EXCEPT ![observerMap[lt]] = None]

\* Fault: the Observer that is there already is forgotten.
ObserveAgain(w, lt) ==
  /\ MainMayRun
  /\ Len(calls) < MaxObservers
  /\ LET o == Len(calls) + 1
     IN  /\ calls' = Append(calls, lt)
         /\ observerMap' = [observerMap EXCEPT ![lt] = o]
         /\ attached' = IF state[w] = "destroyed"
                        THEN attached ELSE [attached EXCEPT ![o] = w]
         /\ Dispatching(IF state[w] = "started" THEN {o} ELSE {})
  /\ UNCHANGED <<ownerVars, valueVars, postVars>>

\* observe: a new Observer takes the place of the translator's old one.  The
\* MutableLiveData ignores an owner that is destroyed, and calls the Observer
\* at once when its owner is started.
Observe(w, lt) ==
  /\ MainMayRun
  /\ Len(calls) < MaxObservers
  /\ LET o == Len(calls) + 1
     IN  /\ calls' = Append(calls, lt)
         /\ observerMap' = [observerMap EXCEPT ![lt] = o]
         /\ attached' = IF state[w] = "destroyed"
                        THEN Detach(lt) ELSE [Detach(lt) EXCEPT ![o] = w]
         /\ Dispatching(IF state[w] = "started" THEN {o} ELSE {})
  /\ UNCHANGED <<ownerVars, valueVars, postVars>>

\* Fault: the map is cleaned, the MutableLiveData is not told.
RemoveFromMapOnly(lt) ==
  /\ MainMayRun
  /\ observerMap' = [observerMap EXCEPT ![lt] = 0]
  /\ UNCHANGED <<calls, attached, ownerVars, valueVars, postVars, dispatchVars>>

RemoveObserver(lt) ==
  /\ MainMayRun
  /\ attached' = Detach(lt)
  /\ observerMap' = [observerMap EXCEPT ![lt] = 0]
  /\ UNCHANGED <<calls, ownerVars, valueVars, postVars, dispatchVars>>

\* A script calls observe with a function, or with a registered translator.
ScriptObserves(w) ==
  \/ \E f \in Function, lt \in Translator :
       /\ Wrapped(f, lt)
       /\ Observe(w, lt)
       /\ removedFunctions' = removedFunctions \ {f}
       /\ UNCHANGED removedHandles
  \/ \E lt \in handles :
       /\ Passed(lt)
       /\ Observe(w, lt)
       /\ removedHandles' = removedHandles \ {lt}
       /\ UNCHANGED removedFunctions

\* A script calls removeObserver with a function, or with a translator.
ScriptRemoves ==
  \/ \E f \in Function, lt \in Translator :
       /\ Wrapped(f, lt)
       /\ RemoveObserver(lt)
       /\ removedFunctions' = removedFunctions \cup {f}
       /\ UNCHANGED removedHandles
  \/ \E lt \in handles :
       /\ Passed(lt)
       /\ RemoveObserver(lt)
       /\ removedHandles' = removedHandles \cup {lt}
       /\ UNCHANGED removedFunctions

\* setValue: from a script, or from a callback.
SetValue ==
  /\ MainMayRun
  /\ version + posted < MaxVersion
  /\ version' = version + 1
  /\ Dispatching(Attached)
  /\ UNCHANGED <<luaVars, attached, ownerVars, seen, postVars, historyVars>>

\* postValue, from any thread: only the first of several values that have
\* not been set yet makes the main thread set one.
PostValue ==
  /\ version + posted < MaxVersion
  /\ posted' = posted + 1
  /\ pending' = TRUE
  /\ UNCHANGED <<luaVars, attached, ownerVars, valueVars, dispatchVars, historyVars>>

\* The main thread sets the value that was posted last; never in a callback.
SetPosted ==
  /\ dispatch = "no"
  /\ pending
  /\ pending' = FALSE
  /\ posted' = 0
  /\ version' = version + 1
  /\ Dispatching(Attached)
  /\ UNCHANGED <<luaVars, attached, ownerVars, seen, historyVars>>

-----------------------------------------------------------------------------
(* The lifecycle of the owners.                                            *)

Start(w) ==
  /\ MainMayRun
  /\ state[w] = "created"
  /\ state' = [state EXCEPT ![w] = "started"]
  /\ Dispatching({o \in Attached : attached[o] = w})
  /\ UNCHANGED <<luaVars, attached, valueVars, postVars, historyVars>>

Stop(w) ==
  /\ MainMayRun
  /\ state[w] = "started"
  /\ state' = [state EXCEPT ![w] = "created"]
  /\ UNCHANGED <<luaVars, attached, valueVars, postVars, dispatchVars, historyVars>>

\* The MutableLiveData drops the Observers of the owner; observerMap is not
\* told.
Destroy(w) ==
  /\ MainMayRun
  /\ state[w] = "created"
  /\ state' = [state EXCEPT ![w] = "destroyed"]
  /\ attached' = [o \in Observer |-> IF attached[o] = w THEN None ELSE attached[o]]
  /\ UNCHANGED <<luaVars, valueVars, postVars, dispatchVars, historyVars>>

-----------------------------------------------------------------------------

MainThread == ConsiderNotify \/ CallbackReturns

LiveDataNext ==
  \/ MainThread
  \/ \E f \in Function : RegisterTranslator(f)
  \/ \E w \in Owner : ScriptObserves(w) \/ Start(w) \/ Stop(w) \/ Destroy(w)
  \/ ScriptRemoves
  \/ SetValue
  \/ PostValue
  \/ SetPosted

\* The main thread goes on with a dispatch, and callbacks return.
LiveDataFairness == WF_liveDataVars(MainThread)

LiveDataSpec == LiveDataInit /\ [][LiveDataNext]_liveDataVars /\ LiveDataFairness

-----------------------------------------------------------------------------
(* Properties.                                                             *)

\* Whatever calls a translator can be reached through observerMap, so that
\* removeObserver can find it: no Observer is attached behind its back.
AttachedInMap == \A o \in Attached : observerMap[calls[o]] = o

\* A registered translator that has been removed is not called again, not
\* even by the dispatch in whose callback it was removed.
RemovedTranslatorQuiet ==
  [][\A o \in 1..Len(calls) :
       calls[o] \in removedHandles => seen'[o] = seen[o]]_liveDataVars

\* Between dispatches every observer whose owner is started has been called
\* with the latest value, callbacks that set it again included.
QuietMeansSeen ==
  dispatch = "no" => \A o \in Attached : Active(o) => seen[o] = version

\* An observer of a started owner that has not seen the latest value is
\* called with it, or stops being one, however often callbacks set values,
\* observe and remove.
StaleIsCalled == \A o \in Observer : Stale(o) ~> ~Stale(o)

\* "remove observer": a function that was passed to observe and then to
\* removeObserver is not called again until it is passed to observe.
RemovedFunctionQuiet ==
  [][\A o \in 1..Len(calls) :
       (calls[o] \notin handles /\ wraps[calls[o]] \in removedFunctions)
         => seen'[o] = seen[o]]_liveDataVars

=============================================================================
