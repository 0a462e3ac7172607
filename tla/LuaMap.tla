-------------------------------- MODULE LuaMap --------------------------------
(* What a Lua table promises: a map from keys to values, where a key without  *)
(* a value is absent, and a traversal by next that returns every present key  *)
(* exactly once as long as the program changes only fields that are present.  *)

EXTENDS Sequences, Functions

CONSTANTS Keys, Nil

VARIABLES
  map,       \* the value of each key: Nil, or a value (here: the key itself)
  running,   \* a traversal is running
  visited    \* the keys the running traversal has returned, in its order

vars == <<map, running, visited>>

Present == {k \in Keys : map[k] # Nil}

Init == /\ map = [k \in Keys |-> Nil]
        /\ running = FALSE
        /\ visited = <<>>

\* t[k] = v. A new field may be added only when no traversal runs.
Set == /\ UNCHANGED <<running, visited>>
       /\ LET old      == map
              new      == map'
              writable == IF running THEN Present ELSE Keys
          IN  \E k \in writable, kept \in BOOLEAN : new = [old EXCEPT ![k] = IF kept THEN k ELSE Nil]

Start == /\ ~running
         /\ running' = TRUE
         /\ visited' = <<>>
         /\ UNCHANGED map

Visit(k) == /\ running
            /\ visited' = Append(visited, k)
            /\ k \in Present \ Range(visited)
            /\ UNCHANGED <<map, running>>

Finish == /\ running
          /\ Present \subseteq Range(visited)
          /\ running' = FALSE
          /\ visited' = <<>>
          /\ UNCHANGED map

Next == \/ Start
        \/ Finish
        \/ Set
        \/ \E k \in Keys : Visit(k)

Spec == Init /\ [][Next]_vars
=============================================================================
