-------------------------------- MODULE LuaGC --------------------------------
(* Lua's incremental collector (lgc.c, lfunc.c, lstring.c): tri-colour marks  *)
(* with two whites, write barriers, weak tables, open upvalues and __gc, its  *)
(* steps interleaved with those of the program that changes the heap. The     *)
(* heap is a pool of objects of given kinds; a table has one entry, a         *)
(* function one upvalue, a userdata an environment; a freed object's place    *)
(* is used again. State is one record g that the operators below map; the     *)
(* collector's lists are sets, which it takes objects from in any order.      *)
EXTENDS Integers, Sequences, SequencesExt

CONSTANTS
  Kind,       \* [object -> "string", "table", "function", "upval", "udata", "thread"]
  Weak,       \* [object -> subset of {"k", "v"}]: the __mode of a table
  Main,       \* the main thread
  None,       \* no object: nil and every value that is not collectable
  SweepMax,   \* the objects one step sweeps, GCSWEEPMAX
  MaxStack    \* bound: values on the stack of a thread

Objs == DOMAIN Kind
Threads == {o \in Objs : Kind[o] = "thread"}
Tables == {o \in Objs : Kind[o] = "table"}

ASSUME GCAssumption ==
  /\ Kind \in [Objs -> {"string", "table", "function", "upval", "udata", "thread"}]
  /\ Weak \in [Objs -> SUBSET {"k", "v"}]
  /\ \A o \in Objs \ Tables : Weak[o] = {}
  /\ Main \in Threads
  /\ None \notin Objs
  /\ SweepMax \in Nat \ {0}
  /\ MaxStack \in Nat

VARIABLES
  pool,  \* the objects this behaviour uses, chosen at the start
  g      \* the heap and the collector's state

gcVars == <<pool, g>>

IsWhite(h, o) == h.color[o] \in {"w0", "w1"}
otherwhite(h) == IF h.white = "w0" THEN "w1" ELSE "w0"
isdead(h, o) == h.color[o] = otherwhite(h)
Paint(h, os, c) == [h EXCEPT !.color = [o \in Objs |-> IF o \in os THEN c ELSE h.color[o]]]
Allocated(h) == {o \in Objs : h.color[o] # "free"}
Whites(h) == {o \in Objs : IsWhite(h, o)}
IsOpen(h, o) == h.at[o][1] # None
\* The value of an upvalue: in its own slot, or in the stack of a thread.
UpvalValue(h, o) == IF IsOpen(h, o) THEN h.stack[h.at[o][1]][h.at[o][2]] ELSE h.val[o]
OpenUpvals(h, th, level) ==
  {o \in Allocated(h) : Kind[o] = "upval" /\ h.at[o][1] = th /\ h.at[o][2] >= level}

-----------------------------------------------------------------------------
(* Marking *)

\* What a table's entry holds, and what of it the table keeps.
EntryRefs(h, o) == IF h.val[o] = None THEN {} ELSE {h.key[o], h.val[o]} \ {None}
StrongRefs(h, o) ==
  IF h.val[o] = None THEN {}
  ELSE ({h.key[o] : x \in {"k"} \ Weak[o]} \cup {h.val[o] : x \in {"v"} \ Weak[o]}) \ {None}

\* What an object marks.
Marks(h, o) ==
  CASE Kind[o] = "table" -> StrongRefs(h, o)
    [] Kind[o] \in {"function", "udata"} -> {h.val[o]} \ {None}
    [] Kind[o] = "upval" -> {UpvalValue(h, o)} \ {None}
    [] Kind[o] = "thread" -> Range(h.stack[o]) \ {None}
    [] Kind[o] = "string" -> {}

\* The least set that has os and the white objects that its members of the
\* kinds ks mark.
Closure(h, os, ks) ==
  LET white  == Whites(h)
      next   == [o \in os \cup white |-> IF Kind[o] \in ks THEN Marks(h, o) \cap white ELSE {}]
      closed == {S \in {os \cup W : W \in SUBSET (white \ os)} : \A o \in S : next[o] \subseteq S}
  IN  {o \in os \cup white : \A S \in closed : o \in S}

\* Strings, open upvalues, threads and weak tables are never black.
StaysGray(h, o) == Kind[o] \in {"string", "thread"} \/ Weak[o] # {} \/ (Kind[o] = "upval" /\ IsOpen(h, o))
Waits == {o \in Objs : Kind[o] \in {"table", "function", "thread"}}

\* The white objects of os are marked: a userdata or an upvalue marks on at
\* once, tables, functions and threads wait in the list gray.
markobjects(h, os) ==
  LET marked == Closure(h, os \cap Whites(h), {"udata", "upval"})
  IN  [h EXCEPT !.color = [o \in Objs |-> IF o \notin marked THEN h.color[o]
                                          ELSE IF o \in Waits \/ StaysGray(h, o) THEN "gray" ELSE "black"],
                !.gray = @ \cup (marked \cap Waits)]

\* Gray objects turn black once what they refer to is marked; threads and weak
\* tables stay gray and are kept for later; an entry without a value loses its
\* key, unless keys and values are weak.
traverse(h, os) ==
  LET empty == {o \in os \cap Tables : h.val[o] = None /\ Weak[o] # {"k", "v"}}
  IN  [h EXCEPT !.color = [o \in Objs |-> IF o \notin os THEN h.color[o]
                                          ELSE IF StaysGray(h, o) THEN "gray" ELSE "black"],
                !.key = [o \in Objs |-> IF o \in empty THEN None ELSE h.key[o]],
                !.gray = @ \ os,
                !.grayagain = @ \cup (os \cap Threads),
                !.weak = @ \cup {o \in os : Weak[o] # {}}]

propagatemark(h, o) == traverse(markobjects(h, Marks(h, o)), {o})
\* Until nothing is gray: all that is reached from there is traversed.
propagateall(h) ==
  traverse(h, Closure(h, h.gray, {"table", "function", "thread", "udata", "upval"}))

markroot(h) == markobjects([h EXCEPT !.gray = {}, !.grayagain = {}, !.weak = {},
                                     !.phase = "propagate"], {Main})

\* The open upvalues that are marked: their threads may be dead.
remarkupvals(h) ==
  markobjects(h, {UpvalValue(h, o) : o \in {u \in Objs : /\ Kind[u] = "upval" /\ IsOpen(h, u)
                                                         /\ h.color[u] = "gray"}})

Separate(h, due) == [h EXCEPT !.fin = [o \in Objs |-> h.fin[o] \/ o \in due], !.tmudata = @ \cup due]

\* Fault: a userdata that was finalized waits again.
SeparateAgain(h, all) ==
  Separate(h, {o \in Allocated(h) \ h.tmudata : Kind[o] = "udata" /\ (all \/ IsWhite(h, o))})

\* Userdata that nothing marked, or all: they wait for their __gc to be called.
luaC_separateudata(h, all) ==
  Separate(h, {o \in Allocated(h) : Kind[o] = "udata" /\ ~h.fin[o] /\ (all \/ IsWhite(h, o))})

marktmu(h) == markobjects(Paint(h, h.tmudata, h.white), h.tmudata)

iscleared(h, o, iskey) ==
  /\ o # None
  /\ Kind[o] # "string"
  /\ IsWhite(h, o) \/ (Kind[o] = "udata" /\ ~iskey /\ h.fin[o])

\* Strings are values: those that an entry of a weak table is asked about are
\* marked, never cleared.
cleartables(h) ==
  LET entries == {o \in h.weak : h.val[o] # None}
      lost    == {o \in entries : iscleared(h, h.key[o], TRUE)}
      gone    == lost \cup {o \in entries : iscleared(h, h.val[o], FALSE)}
      strings == {v \in Objs : Kind[v] = "string" /\ \E o \in entries \ lost : v \in EntryRefs(h, o)}
  IN  [markobjects(h, strings) EXCEPT !.key = [o \in Objs |-> IF o \in gone THEN None ELSE h.key[o]],
                                      !.val = [o \in Objs |-> IF o \in gone THEN None ELSE h.val[o]]]

\* The objects of the lists that are swept, open upvalues with their threads.
SweepList(h) == {o \in Allocated(h) \ h.tmudata : ~(Kind[o] = "upval" /\ IsOpen(h, o))}

FromWeak(h) == [h EXCEPT !.gray = h.weak, !.weak = {}]
FromGrayAgain(h) == [h EXCEPT !.gray = h.grayagain, !.grayagain = {}]
BeginSweep(h) == [h EXCEPT !.white = otherwhite(h), !.phase = "sweep", !.unswept = SweepList(h)]
\* What is marked, and then what waits for its finalizer.
Separated(h) == propagateall(marktmu(luaC_separateudata(h, FALSE)))

\* Fault: the stacks that changed while marking are not marked again.
AtomicForgetsStacks(h) ==
  BeginSweep(cleartables(Separated(propagateall(FromWeak(propagateall(remarkupvals(h)))))))

\* What changed behind the marks: upvalues, weak tables, what barriers caught
\* and the stacks.
Remarked(h) ==
  LET upvals == propagateall(remarkupvals(h))
      weak   == propagateall(markobjects(FromWeak(upvals), {Main}))
  IN  propagateall(FromGrayAgain(weak))

atomic(h) == BeginSweep(cleartables(Separated(Remarked(h))))

-----------------------------------------------------------------------------
(* Sweeping and finalizing *)

Free(h, os) ==
  [h EXCEPT !.color = [o \in Objs |-> IF o \in os THEN "free" ELSE h.color[o]],
            !.key   = [o \in Objs |-> IF o \in os THEN None ELSE h.key[o]],
            !.val   = [o \in Objs |-> IF o \in os THEN None ELSE h.val[o]],
            !.at    = [o \in Objs |-> IF o \in os THEN <<None, 0>> ELSE h.at[o]],
            !.fin   = [o \in Objs |-> o \notin os /\ h.fin[o]],
            !.stack = [o \in Threads |-> IF o \in os THEN <<>> ELSE h.stack[o]]]

\* Closing an upvalue copies the value
Close(h, us) ==
  [h EXCEPT !.val = [o \in Objs |-> IF o \in us THEN UpvalValue(h, o) ELSE h.val[o]],
            !.at  = [o \in Objs |-> IF o \in us THEN <<None, 0>> ELSE h.at[o]]]

\* and links it: a gray one is blackened with a barrier while marking and
\* whitened while sweeping.
luaC_linkupval(h, us) ==
  LET grays == {u \in us : h.color[u] = "gray"}
  IN  IF h.phase = "propagate" THEN markobjects(Paint(h, grays, "black"), {h.val[u] : u \in grays})
      ELSE Paint(h, grays, h.white)

luaF_close(h, th, level) ==
  LET us   == OpenUpvals(h, th, level)
      dead == {u \in us : isdead(h, u)}
  IN  luaC_linkupval(Close(Free(h, dead), us \ dead), us \ dead)

\* A thread's open upvalues are swept with it, and closed if it dies.
sweeplist(h, os) ==
  LET swept == os \cup UNION {OpenUpvals(h, th, 1) : th \in os \cap Threads}
      dead  == {o \in swept : isdead(h, o)}
      loose == {u \in swept \ dead : Kind[u] = "upval" /\ h.at[u][1] \in dead}
  IN  Free(Close(Paint(h, swept \ dead, h.white), loose), dead)

\* The finalizer is called with the userdata, which it may keep in a variable.
GCTM(h, o, keep) ==
  [Paint(h, {o}, h.white) EXCEPT !.tmudata = @ \ {o}, !.calls[o] = @ + 1,
                                 !.stack[Main] = IF keep THEN Append(@, o) ELSE @]

luaC_callGCTM(h) ==
  [Paint(h, h.tmudata, h.white) EXCEPT !.tmudata = {},
     !.calls = [o \in Objs |-> IF o \in h.tmudata THEN h.calls[o] + 1 ELSE h.calls[o]]]

\* The sweep ends with the last object.
sweepstep(h, os) ==
  [sweeplist(h, os) EXCEPT !.unswept = @ \ os, !.phase = IF h.unswept \subseteq os THEN "finalize" ELSE @]
sweepall(h) == IF h.phase = "sweep" THEN sweepstep(h, h.unswept) ELSE h

\* Fault: a cycle that has begun to mark is taken for the collection.
FullGCFromHere(h) ==
  LET begun  == IF h.phase = "pause" THEN markroot(h) ELSE h
      marked == IF begun.phase = "propagate" THEN atomic(propagateall(begun)) ELSE begun
  IN  [luaC_callGCTM(sweepall(marked)) EXCEPT !.phase = "pause"]

\* Marks are dropped by a sweep that finds no other white, then a whole cycle.
luaC_fullgc(h) ==
  LET reset == IF h.phase \in {"pause", "propagate"}
               THEN [h EXCEPT !.gray = {}, !.grayagain = {}, !.weak = {}, !.phase = "sweep",
                              !.unswept = SweepList(h)]
               ELSE h
      marked == atomic(propagateall(markroot(sweepall(reset))))
  IN  [luaC_callGCTM(sweepall(marked)) EXCEPT !.phase = "pause"]

-----------------------------------------------------------------------------
(* Barriers: a black object was given a white one *)

luaC_barrierf(h, o, v) ==
  IF h.phase = "propagate" THEN markobjects(h, {v}) ELSE Paint(h, {o}, h.white)
luaC_barrierback(h, o) == [Paint(h, {o}, "gray") EXCEPT !.grayagain = @ \cup {o}]
NeedsBarrier(h, o, v) == h.color[o] = "black" /\ v # None /\ IsWhite(h, v)

luaC_barrier(h, o, v) == IF NeedsBarrier(h, o, v) THEN luaC_barrierf(h, o, v) ELSE h
luaC_barriert(h, o, v) == IF NeedsBarrier(h, o, v) THEN luaC_barrierback(h, o) ELSE h

-----------------------------------------------------------------------------
(* The program *)

PushObject(h, th, v) == [h EXCEPT !.stack[th] = Append(@, v)]
Pop(h, th) == [h EXCEPT !.stack[th] = Front(@)]
luaC_link(h, o) == [h EXCEPT !.color[o] = h.white, !.calls[o] = 0]
OnStack(th) == Range(g.stack[th]) \ {None}
Running == {Main} \cup (Threads \cap OnStack(Main))
Fresh(kind) == {o \in pool \ Allocated(g) : Kind[o] = kind}

lua_newstate ==
  [color |-> [o \in Objs |-> IF o = Main THEN "w0" ELSE "free"],
   key   |-> [o \in Objs |-> None], val   |-> [o \in Objs |-> None],
   at    |-> [o \in Objs |-> <<None, 0>>], fin |-> [o \in Objs |-> FALSE],
   calls |-> [o \in Objs |-> 0],    stack |-> [o \in Threads |-> <<>>],
   phase |-> "pause", white |-> "w0", gray |-> {}, grayagain |-> {}, weak |-> {},
   tmudata |-> {}, unswept |-> {}]

GCInit == /\ pool \in {P \in SUBSET Objs : Main \in P}
          /\ g = lua_newstate

CanPush(th) == Len(g.stack[th]) < MaxStack

\* lua_createtable, lua_newuserdata, lua_newthread.
NewObject(th, o) == /\ CanPush(th)
                    /\ g' = PushObject(luaC_link(g, o), th, o)

\* A string that is not yet swept may be dead: interning it again revives it.
luaS_newlstr(th, s) ==
  /\ CanPush(th)
  /\ g' = PushObject(IF s \notin Allocated(g) THEN luaC_link(g, s)
                     ELSE IF isdead(g, s) THEN Paint(g, {s}, g.white) ELSE g, th, s)

\* A closure of the running function's local variable at level: the upvalue
\* that is open there, revived if dead, or a new one u.
NewClosure(th, f, level) ==
  LET open == {o \in OpenUpvals(g, th, level) : g.at[o][2] = level}
      link(h, u) == PushObject([luaC_link(h, f) EXCEPT !.val[f] = u], th, f)
  IN  /\ CanPush(th)
      /\ level \in DOMAIN g.stack[th]
      /\ \/ \E u \in open : g' = link(IF isdead(g, u) THEN Paint(g, {u}, g.white) ELSE g, u)
         \/ /\ open = {}
            /\ \E u \in Fresh("upval") :
                 g' = link([luaC_link(g, u) EXCEPT !.at[u] = <<th, level>>], u)

\* Reading a field, a key by next, an environment or an upvalue.
FieldsOf(o) ==
  CASE Kind[o] = "table" -> EntryRefs(g, o)
    [] Kind[o] = "udata" -> {g.val[o]} \ {None}
    [] Kind[o] = "function" -> {UpvalValue(g, g.val[o])} \ {None}
    [] Kind[o] \in {"string", "upval", "thread"} -> {}
Read(th, o) == /\ CanPush(th)
               /\ \E v \in FieldsOf(o) : g' = PushObject(g, th, v)

SetTable(o, k, v) ==
  /\ g.val[o] = None \/ g.key[o] = k
  /\ g' = luaC_barriert(luaC_barriert([g EXCEPT !.key[o] = k, !.val[o] = v], o, k), o, v)

\* lua_setfenv, and lua_setmetatable alike.
SetEnv(u, v) == g' = luaC_barrier([g EXCEPT !.val[u] = v], u, v)

\* An upvalue is written in its slot or in the stack.
Assigned(h, u, v) == IF IsOpen(h, u) THEN [h EXCEPT !.stack[h.at[u][1]][h.at[u][2]] = v]
                                     ELSE [h EXCEPT !.val[u] = v]

\* The instruction SETUPVAL: the barrier is the upvalue's.
SetUpval(f, v) == g' = luaC_barrier(Assigned(g, g.val[f], v), g.val[f], v)

\* lua_setupvalue, of debug.setupvalue: the barrier is the function's.
lua_setupvalue(f, v) == g' = luaC_barrier(Assigned(g, g.val[f], v), f, v)

\* A block or function ends: its variable's upvalues are closed.
Return(th) == /\ g.stack[th] # <<>>
              /\ g' = Pop(luaF_close(g, th, Len(g.stack[th])), th)

XMove(to) == /\ CanPush(to)
             /\ g.stack[Main] # <<>> /\ Last(g.stack[Main]) # to
             /\ g' = PushObject(Pop(luaF_close(g, Main, Len(g.stack[Main])), Main), to, Last(g.stack[Main]))

Mutate(th) ==
  \/ \E kind \in {"table", "udata", "thread"} : \E o \in Fresh(kind) : NewObject(th, o)
  \/ \E s \in pool : Kind[s] = "string" /\ luaS_newlstr(th, s)
  \/ \E f \in Fresh("function"), level \in 1 .. MaxStack : NewClosure(th, f, level)
  \/ \E o \in OnStack(th) : Read(th, o)
  \/ \E o \in OnStack(th), k, v \in OnStack(th) \cup {None} : Kind[o] = "table" /\ SetTable(o, k, v)
  \/ \E u, v \in OnStack(th) : Kind[u] = "udata" /\ Kind[v] = "table" /\ SetEnv(u, v)
  \/ \E f \in OnStack(th), v \in OnStack(th) \cup {None} : Kind[f] = "function" /\ SetUpval(f, v)
  \/ Return(th)

\* What one step sweeps: strings first, then the other objects.
SweepChoice == {os \in SUBSET g.unswept :
                  /\ os # {} /\ Cardinality(os) <= SweepMax
                  /\ (\E s \in g.unswept : Kind[s] = "string") => \A o \in os : Kind[o] = "string"}

\* singlestep, by the collector's phase.
CollectorStep ==
  \/ g.phase = "pause" /\ g' = markroot(g)
  \/ g.phase = "propagate" /\ \E o \in g.gray : g' = propagatemark(g, o)
  \/ g.phase = "propagate" /\ g.gray = {} /\ g' = atomic(g)
  \/ g.phase = "sweep" /\ \E os \in SweepChoice : g' = sweepstep(g, os)
  \/ g.phase = "finalize" /\ \E o \in g.tmudata, keep \in BOOLEAN :
       /\ keep => CanPush(Main)
       /\ g' = GCTM(g, o, keep)
  \/ g.phase = "finalize" /\ g.tmudata = {} /\ g' = [g EXCEPT !.phase = "pause"]

\* Every finalizer is called, then everything is freed; a new state may follow.
lua_close ==
  LET h == luaC_separateudata([luaF_close(g, Main, 1) EXCEPT !.stack[Main] = <<>>], TRUE)
  IN  g' = [lua_newstate EXCEPT !.calls = luaC_callGCTM(h).calls]

FullGC == g' = luaC_fullgc(g)

GCNext == /\ UNCHANGED pool
          /\ \/ CollectorStep
             \/ FullGC
             \/ lua_close
             \/ \E th \in Running : Mutate(th)
             \/ \E th \in Running \ {Main} : XMove(th)

GCSpec == GCInit /\ [][GCNext]_gcVars

-----------------------------------------------------------------------------
(* Properties *)

\* Strings are values: a weak table holds them like any other.
Refs(h, o) == IF Kind[o] = "table" /\ h.val[o] # None
              THEN Marks(h, o) \cup {v \in EntryRefs(h, o) : Kind[v] = "string"}
              ELSE Marks(h, o)

\* What can be reached from os: the least set that refers to nothing else.
ReachFrom(h, os) ==
  {o \in Objs : \A S \in SUBSET pool :
                  (os \subseteq S /\ \A x \in S : Refs(h, x) \subseteq S) => o \in S}

Live(h) == ReachFrom(h, {Main} \cup h.tmudata)

\* No object the program can still reach, and none that waits for its
\* finalizer, is freed or about to be, while the program moves references
\* between tables, upvalues, stacks and coroutines in the middle of a cycle
\* (the barriers and atomic of lgc.c, luaF_close, luaS_newlstr); nor is what an
\* entry of a weak table yields (cleartable).
LiveIsKept ==
  LET Kept(o) == o \in Allocated(g) /\ ~isdead(g, o) IN
  \A o \in Live(g) :
    /\ Kept(o)
    /\ Kind[o] = "table" => \A v \in EntryRefs(g, o) : Kept(v)

\* A userdata is freed only after its __gc ran, which runs once though it may
\* bring the userdata back (luaC_separateudata, GCTM).
FinalizedOnce ==
  [][\A o \in Objs : Kind[o] = "udata" =>
       /\ g'.calls[o] <= 1
       /\ (o \in Allocated(g) /\ o \notin Allocated(g')) => g'.calls[o] = 1]_gcVars

\* A full collection leaves nothing but what could be reached before from the
\* main thread and from the userdata it finalizes, whatever cycle it interrupts
\* (luaC_fullgc).
FullGCCollects ==
  LET h == luaC_fullgc(g)
      finalized == {o \in Objs : h.calls[o] > g.calls[o]}
  IN  Allocated(g) # {Main} => Allocated(h) \subseteq ReachFrom(g, {Main} \cup finalized)
=============================================================================
