------------------------------- MODULE MCJava -------------------------------
(***************************************************************************)
(* The tasker, a live data and a view model's scope side by side: a        *)
(* behaviour moves one of them and the others stay as they begin.  None    *)
(* reads what another writes, so that each behaviour of one is a behaviour *)
(* here.                                                                   *)
(***************************************************************************)
EXTENDS LuaTasker, LuaLiveData, LuaViewModel

VARIABLE part     \* the part that moves

javaVars == <<part, vars, liveDataVars, viewModelVars>>

JavaInit ==
  /\ part \in {"tasker", "livedata", "viewmodel"}
  /\ Init /\ LiveDataInit /\ ViewModelInit

JavaNext ==
  /\ UNCHANGED part
  /\ \/ part = "tasker" /\ Next /\ UNCHANGED <<liveDataVars, viewModelVars>>
     \/ part = "livedata" /\ LiveDataNext /\ UNCHANGED <<vars, viewModelVars>>
     \/ part = "viewmodel" /\ ViewModelNext /\ UNCHANGED <<vars, liveDataVars>>

\* At rest the tasker has no thread and the main thread no dispatch to go on
\* with, so that the fairness of one asks nothing of another's behaviours.
JavaSpec == JavaInit /\ [][JavaNext]_javaVars /\ Fairness /\ LiveDataFairness
=============================================================================
