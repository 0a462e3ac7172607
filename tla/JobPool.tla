------------------------------ MODULE JobPool ------------------------------
(***************************************************************************)
(* What the users of LuaTasker rely on, without its threads, counter and   *)
(* lock: a pool that starts the jobs it is given in their order, each at   *)
(* most once and each at last, until it is told to exit; after that it     *)
(* starts one more at most.                                                *)
(***************************************************************************)
EXTENDS Naturals, Sequences, SequencesExt

CONSTANT Job

VARIABLES
  pending,    \* the jobs that have not been started, in their order
  running,    \* those that have been started and not finished
  finished,
  withdrawn,  \* those taken back before they were started
  submitted,  \* all of them
  mode        \* "new", "open", "closing" (one more may start) or "closed"

vars == <<pending, running, finished, withdrawn, submitted, mode>>

Init ==
  /\ pending = <<>>
  /\ running = {}
  /\ finished = {}
  /\ withdrawn = {}
  /\ submitted = {}
  /\ mode = "new"

Submit(j) ==
  /\ j \notin submitted
  /\ pending' = Append(pending, j)
  /\ submitted' = submitted \cup {j}
  /\ UNCHANGED <<running, finished, withdrawn, mode>>

Withdraw(j) ==
  /\ \E i \in 1..Len(pending) : pending[i] = j /\ pending' = RemoveAt(pending, i)
  /\ withdrawn' = withdrawn \cup {j}
  /\ UNCHANGED <<running, finished, submitted, mode>>

\* A job that has been started or taken back is never started again.
Start ==
  /\ mode \in {"open", "closing"}
  /\ pending # <<>>
  /\ Head(pending) \notin running \cup finished \cup withdrawn
  /\ running' = running \cup {Head(pending)}
  /\ pending' = Tail(pending)
  /\ mode' = IF mode = "open" THEN "open" ELSE "closed"
  /\ UNCHANGED <<finished, withdrawn, submitted>>

Finish(j) ==
  /\ j \in running
  /\ running' = running \ {j}
  /\ finished' = finished \cup {j}
  /\ UNCHANGED <<pending, withdrawn, submitted, mode>>

Open ==
  /\ mode = "new"
  /\ mode' = "open"
  /\ UNCHANGED <<pending, running, finished, withdrawn, submitted>>

Close ==
  /\ \/ mode = "new" /\ mode' = "closed"
     \/ mode = "open" /\ mode' \in {"closing", "closed"}
     \/ mode = "closing" /\ mode' = "closed"
  /\ UNCHANGED <<pending, running, finished, withdrawn, submitted>>

Next ==
  \/ \E j \in Job : Submit(j) \/ Withdraw(j) \/ Finish(j)
  \/ Start \/ Open \/ Close

SafetySpec == Init /\ [][Next]_vars

\* An open pool goes on to start jobs, and started jobs finish.
Fairness ==
  /\ WF_vars(mode = "open" /\ Start)
  /\ \A j \in Job : WF_vars(Finish(j))

Spec == SafetySpec /\ Fairness

=============================================================================
