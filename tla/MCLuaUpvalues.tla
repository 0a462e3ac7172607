---------------------------- MODULE MCLuaUpvalues ----------------------------
(* The heap of LuaGC with two functions of a block that has ended: they share  *)
(* an upvalue, which a program writes with SETUPVAL or with debug.setupvalue.  *)
EXTENDS LuaGC, TLC

CONSTANTS main, tab, fn, fn2, uv   \* objects of the heap

MCKind == main :> "thread" @@ tab :> "table" @@ fn :> "function" @@ fn2 :> "function" @@ uv :> "upval"
MCWeak == [o \in DOMAIN MCKind |-> {}]

\* The upvalue is closed and holds nil.
Shared ==
  [lua_newstate EXCEPT !.color = [o \in Objs |-> IF o = tab THEN "free" ELSE "w0"],
                       !.val = [o \in Objs |-> IF o \in {fn, fn2} THEN uv ELSE None],
                       !.stack = [o \in Threads |-> <<fn, fn2>>]]

SharedInit == pool = Objs /\ g = Shared

SharedNext == /\ UNCHANGED pool
              /\ \/ CollectorStep
                 \/ Mutate(main)
                 \/ \E f \in OnStack(main), v \in OnStack(main) \cup {None} :
                      Kind[f] = "function" /\ lua_setupvalue(f, v)

SharedSpec == SharedInit /\ [][SharedNext]_gcVars

\* What the program can read from an object it has, and so what it copies to its
\* stack, is allocated and not dead: checkliveness asserts it of each value that
\* is copied.
CopiesAreAlive ==
  \A o \in OnStack(main) : \A v \in FieldsOf(o) : v \in Allocated(g) /\ ~isdead(g, v)
==============================================================================
