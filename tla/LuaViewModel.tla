---------------------------- MODULE LuaViewModel ----------------------------
(***************************************************************************)
(* LuaViewModel.kt: the coroutine scope of a view model, made when a       *)
(* script first asks for it, on any thread, and to be closed when the      *)
(* view model is cleared on the main thread.                               *)
(*                                                                         *)
(* The bag of tags is read and written under its own lock; mCleared is a   *)
(* plain field outside it.  A thread is sure to see it set only if it has  *)
(* taken the lock after onCleared released it; before that it may read     *)
(* either value.                                                           *)
(***************************************************************************)
EXTENDS Naturals, FiniteSets

CONSTANTS
  Thread,      \* the threads that call getLuaViewModelScope
  MaxScopes,   \* bound: how many scopes are made
  NoScope      \* null

ASSUME ViewModelAssumption == MaxScopes \in Nat /\ NoScope \notin 1..MaxScopes

Scope == 1..MaxScopes

VARIABLES
  mBagOfTags,     \* the value under JOB_KEY
  mCleared,
  clearing,       \* where onCleared is
  pc,             \* where each thread is in the getter viewModelScope
  scope,          \* the scope it holds
  made,           \* how many scopes have been made
  seesCleared,    \* the threads that have locked the bag since onCleared did
  givenToClose,   \* history: arguments of closeWithRuntimeExceptionMine
  closed,         \* the scopes whose close() has been called
  returned        \* history: the scopes that have been returned

viewModelVars == <<mBagOfTags, mCleared, clearing, pc, scope, made, seesCleared,
                   givenToClose, closed, returned>>

ViewModelTypeOK ==
  /\ mBagOfTags \in Scope \cup {NoScope}
  /\ mCleared \in BOOLEAN
  /\ clearing \in {"no", "close", "done"}
  /\ pc \in [Thread -> {"idle", "getTag", "setTagIfAbsent", "mCleared", "close"}]
  /\ scope \in [Thread -> Scope \cup {NoScope}]
  /\ made \in 0..MaxScopes
  /\ seesCleared \subseteq Thread
  /\ givenToClose \subseteq Scope
  /\ closed \subseteq givenToClose
  /\ returned \subseteq Scope

ViewModelInit ==
  /\ mBagOfTags = NoScope
  /\ mCleared = FALSE
  /\ clearing = "no"
  /\ pc = [t \in Thread |-> "idle"]
  /\ scope = [t \in Thread |-> NoScope]
  /\ made = 0
  /\ seesCleared = {}
  /\ givenToClose = {}
  /\ closed = {}
  /\ returned = {}

-----------------------------------------------------------------------------
(* The getter viewModelScope.                                              *)

\* A thread that locks the bag sees what was done before it was released.
Lock(t) == seesCleared' = IF clearing = "done" THEN seesCleared \cup {t} ELSE seesCleared

\* The call yields s.
Return(t, s) ==
  /\ pc' = [pc EXCEPT ![t] = "idle"]
  /\ scope' = [scope EXCEPT ![t] = NoScope]
  /\ returned' = returned \cup {s}

Ask(t) ==
  /\ pc[t] = "idle"
  /\ pc' = [pc EXCEPT ![t] = "getTag"]
  /\ UNCHANGED <<mBagOfTags, mCleared, clearing, scope, made, seesCleared,
                 givenToClose, closed, returned>>

\* getTag finds the scope.
Found(t) ==
  /\ pc[t] = "getTag"
  /\ Lock(t)
  /\ mBagOfTags # NoScope
  /\ Return(t, mBagOfTags)
  /\ UNCHANGED <<mBagOfTags, mCleared, clearing, made, givenToClose, closed>>

\* It finds nothing: a ClosableCoroutineScope is made.
NotFound(t) ==
  /\ pc[t] = "getTag"
  /\ Lock(t)
  /\ mBagOfTags = NoScope
  /\ made < MaxScopes
  /\ made' = made + 1
  /\ scope' = [scope EXCEPT ![t] = made + 1]
  /\ pc' = [pc EXCEPT ![t] = "setTagIfAbsent"]
  /\ UNCHANGED <<mBagOfTags, mCleared, clearing, givenToClose, closed, returned>>

\* Fault: put without looking again under the lock.
SetTag(t) ==
  /\ pc[t] = "setTagIfAbsent"
  /\ Lock(t)
  /\ mBagOfTags' = scope[t]
  /\ pc' = [pc EXCEPT ![t] = "mCleared"]
  /\ UNCHANGED <<mCleared, clearing, scope, made, givenToClose, closed, returned>>

\* The synchronized block: the scope of another thread, if there is one now.
SetTagIfAbsent(t) ==
  /\ pc[t] = "setTagIfAbsent"
  /\ Lock(t)
  /\ LET result == IF mBagOfTags = NoScope THEN scope[t] ELSE mBagOfTags
     IN  /\ mBagOfTags' = result
         /\ scope' = [scope EXCEPT ![t] = result]
  /\ pc' = [pc EXCEPT ![t] = "mCleared"]
  /\ UNCHANGED <<mCleared, clearing, made, givenToClose, closed, returned>>

\* if (mCleared): outside the lock.
SeenCleared(t) ==
  /\ pc[t] = "mCleared"
  /\ mCleared
  /\ pc' = [pc EXCEPT ![t] = "close"]
  /\ UNCHANGED <<mBagOfTags, mCleared, clearing, scope, made, seesCleared,
                 givenToClose, closed, returned>>

SeenNotCleared(t) ==
  /\ pc[t] = "mCleared"
  /\ ~mCleared \/ t \notin seesCleared
  /\ Return(t, scope[t])
  /\ UNCHANGED <<mBagOfTags, mCleared, clearing, made, seesCleared,
                 givenToClose, closed>>

\* The interfaces of ClosableCoroutineScope.
ScopeInterfaces == {"LuaViewModel.Closable"}

\* What closeWithRuntimeExceptionMine closes: those that are Closeable.
Closeables(S) == {s \in S : "java.io.Closeable" \in ScopeInterfaces}

CloseWithRuntimeException(S) ==
  /\ givenToClose' = givenToClose \cup S
  /\ closed' = closed \cup Closeables(S)

CloseAndReturn(t) ==
  /\ pc[t] = "close"
  /\ CloseWithRuntimeException({scope[t]})
  /\ Return(t, scope[t])
  /\ UNCHANGED <<mBagOfTags, mCleared, clearing, made, seesCleared>>

Getter(t) ==
  \/ Found(t) \/ NotFound(t) \/ SetTagIfAbsent(t)
  \/ SeenCleared(t) \/ SeenNotCleared(t) \/ CloseAndReturn(t)

-----------------------------------------------------------------------------
(* onCleared, on the main thread.                                          *)

\* Fault: mCleared is left for later.
BeginClear ==
  /\ clearing = "no"
  /\ clearing' = "close"
  /\ UNCHANGED <<mBagOfTags, mCleared, pc, scope, made, seesCleared,
                 givenToClose, closed, returned>>

SetCleared ==
  /\ clearing = "no"
  /\ mCleared' = TRUE
  /\ clearing' = "close"
  /\ UNCHANGED <<mBagOfTags, pc, scope, made, seesCleared,
                 givenToClose, closed, returned>>

\* The synchronized block: every value of the bag.
CloseAll ==
  /\ clearing = "close"
  /\ CloseWithRuntimeException({mBagOfTags} \ {NoScope})
  /\ clearing' = "done"
  /\ UNCHANGED <<mBagOfTags, mCleared, pc, scope, made, seesCleared, returned>>

-----------------------------------------------------------------------------

ViewModelNext ==
  \/ \E t \in Thread : Ask(t) \/ Getter(t)
  \/ SetCleared
  \/ CloseAll

ViewModelSpec == ViewModelInit /\ [][ViewModelNext]_viewModelVars

-----------------------------------------------------------------------------
(* Properties.                                                             *)

\* Whoever asks, from whatever thread and however the calls overlap, gets
\* the one scope of the view model.
OneScope == Cardinality(returned) <= 1 /\ returned \subseteq {mBagOfTags}

\* A call that overlaps with onCleared leaves no scope out: once both are
\* over, the scope has been given to be closed, by one of them or by both.
\* That is what the order of mCleared and the lock is for.
NoScopeMissed ==
  (clearing = "done" /\ \A t \in Thread : pc[t] = "idle")
    => returned \subseteq givenToClose

\* "It is possible that we'll call close() multiple times on the same
\* object": what is given to be closed is closed.
GivenIsClosed == givenToClose \subseteq closed

=============================================================================
