------------------------------ MODULE LuaExecute ------------------------------
(* Compiled Lua: what luaV_execute of lvm.c does with the code that LuaParser   *)
(* makes of a function.                                                         *)
(*                                                                              *)
(* A value is a number; what arithmetic, comparisons, unknown fields and called *)
(* functions yield are fixed functions of their operands, which may as well be  *)
(* metamethods.  Reads and writes of fields and calls are logged in their       *)
(* order; globals are the fields of one table.                                  *)
EXTENDS LuaParser

Globals == 3
IsFalse(v) == v \in {Nil, False}
IsNumber(v) == v \in Num(-10) .. 99
Bool(P) == IF P THEN True ELSE False
Falsy(x) == IF x % 5 = 0 THEN Nil ELSE IF x % 5 = 1 THEN False ELSE x
Compared(op, a, b) == CASE op = "EQ" -> a = b
                        [] op = "LT" -> (a * 3 + b * 5) % 7 < 3
                        [] op = "LE" -> (a * 2 + b * 5) % 7 < 4

(* The world outside the function: what has been done to it and the fields set. *)
World(i) == [log |-> <<>>, heap |-> <<>>, calls |-> 0, seed |-> i.seed]
FieldOf(w, t, k) ==
  IF <<t, k>> \in DOMAIN w.heap THEN w.heap[<<t, k>>] ELSE Falsy(Mix(t, k, w.seed))
Log(w, e) == [w EXCEPT !.log = Append(@, e)]
SetField(w, t, k, v) == [w EXCEPT !.heap = [x \in {<<t, k>>} |-> v] @@ @]
(* A call yields up to two values; every fourth one yields nil.                 *)
Called(w, f, args) == [Log(w, <<"call", f, args>>) EXCEPT !.calls = @ + 1]
ResultsOf(w, f, args) ==
  LET x == FoldLeft(LAMBDA a, b : Mix(a, b, w.seed), f + w.calls, args)
  IN IF w.calls % 4 = 3 THEN <<Nil>> ELSE SubSeq(<<Falsy(x), x>>, 1, (f + Len(args)) % 3)
(* Tables made by the function are told apart by the log's length.              *)
NewTable(w) == 200 + Len(w.log)
Resized(vs, n) == [i \in 1 .. n |-> IF i \in DOMAIN vs THEN vs[i] ELSE Nil]

--------------------------------------------------------------------------------
(* The machine: the next instruction, the registers, the top that an open call  *)
(* or the varargs set, the highest register written, and how it ended.          *)

FrameOf(f, i) ==
  [pc |-> 0, r |-> [n \in 0 .. MAXSTACK + 3 |-> IF n < Len(i.args) THEN i.args[n + 1] ELSE Nil],
   top |-> 0, high |-> 0, up |-> i.up, varargs |-> i.varargs, w |-> World(i), status |-> "run", ret |-> <<>>, fuel |-> 1000]

Set(m, reg, v) == [m EXCEPT !.r[reg] = v, !.high = Max({@, reg})]
SetRange(m, first, vs) ==
  [m EXCEPT !.r = [n \in DOMAIN @ |-> IF n - first + 1 \in DOMAIN vs THEN vs[n - first + 1] ELSE @[n]],
            !.high = Max({@, first + Len(vs) - 1})]
(* As many values as there are, up to the top: the stack grows for them.        *)
SetOpen(m, first, vs) == [SetRange(m, first, vs) EXCEPT !.high = m.high, !.top = first + Len(vs)]
Registers(m, first, n) == [i \in 1 .. n |-> m.r[first + i - 1]]
dojump(m, offset) == [m EXCEPT !.pc = @ + offset]
InWorld(m, w) == [m EXCEPT !.w = w]

OP_CALL(m, i) ==
  LET n == IF i.b # 0 THEN i.b - 1 ELSE m.top - i.a - 1
      args == Registers(m, i.a + 1, n)
      results == ResultsOf(m.w, m.r[i.a], args)
      called == InWorld(m, Called(m.w, m.r[i.a], args))
  IN IF i.c = 0 THEN SetOpen(called, i.a, results)
     ELSE SetRange(called, i.a, Resized(results, i.c - 1))

(* Like a call of the base library's functions: the frame is left at once.      *)
OP_TAILCALL(m, i) == OP_CALL(m, [i EXCEPT !.c = 0])
OP_RETURN(m, i) ==
  [m EXCEPT !.status = "returned",
            !.ret = Registers(m, i.a, IF i.b # 0 THEN i.b - 1 ELSE m.top - i.a)]

OP_TFORLOOP(m, i) ==
  LET args == <<m.r[i.a + 1], m.r[i.a + 2]>>
      vs == Resized(ResultsOf(m.w, m.r[i.a], args), i.c)
      callee == SetRange(m, i.a + 3, Registers(m, i.a, 3))
      c == SetRange(InWorld(callee, Called(m.w, m.r[i.a], args)), i.a + 3, vs)
  IN IF vs[1] = Nil THEN dojump(c, 1) ELSE Set(c, i.a + 2, vs[1])

OP_FORPREP(m, i) ==
  IF ~(IsNumber(m.r[i.a]) /\ IsNumber(m.r[i.a + 1]) /\ IsNumber(m.r[i.a + 2]))
  THEN [m EXCEPT !.status = "error"]
  ELSE dojump(Set(m, i.a, m.r[i.a] - (m.r[i.a + 2] - Num(0))), i.b)
OP_FORLOOP(m, i) ==
  LET step == m.r[i.a + 2] - Num(0)
      idx == m.r[i.a] + step
      limit == m.r[i.a + 1]
  IN IF (step > 0 /\ idx <= limit) \/ (step <= 0 /\ limit <= idx)
     THEN dojump(Set(Set(m, i.a, idx), i.a + 3, idx), i.b) ELSE m

OP_SETLIST(m, i) ==
  LET n == IF i.b # 0 THEN i.b ELSE m.top - i.a - 1
      last == (i.c - 1) * LFIELDS_PER_FLUSH + n
  IN InWorld(m, FoldLeft(LAMBDA w, j : SetField(w, m.r[i.a], Num(last - n + j), m.r[i.a + j]),
                        m.w, [j \in 1 .. n |-> j]))

luaV_concat(m, b, c) ==
  FoldLeft(LAMBDA v, n : Applied("CONCAT", m.r[c - n], v), m.r[c], [n \in 1 .. c - b |-> n])

(* Tests skip the next instruction, a jump, or do it.                           *)
Test(m, P) == IF P THEN m ELSE dojump(m, 1)

Execute(f, m0) ==
  LET i == Code(f, m0.pc)
      m == [m0 EXCEPT !.pc = @ + 1, !.fuel = @ - 1]
      K(n) == f.k[n + 1]
      RK(x) == IF ISK(x) THEN K(x - BITRK) ELSE m.r[x]
      Get(t, k) == Set(InWorld(m, Log(m.w, <<"get", t, k>>)), i.a, FieldOf(m.w, t, k))
      Put(t, k, v) == InWorld(m, SetField(Log(m.w, <<"set", t, k, v>>), t, k, v))
  IN CASE i.op = "MOVE" -> Set(m, i.a, m.r[i.b])
       [] i.op = "LOADK" -> Set(m, i.a, K(i.b))
       [] i.op = "LOADBOOL" -> dojump(Set(m, i.a, Bool(i.b = 1)), i.c)
       [] i.op = "LOADNIL" -> SetRange(m, i.a, [n \in 1 .. i.b - i.a + 1 |-> Nil])
       [] i.op = "GETUPVAL" -> Set(m, i.a, m.up[i.b + 1])
       [] i.op = "SETUPVAL" -> [m EXCEPT !.up[i.b + 1] = m.r[i.a]]
       [] i.op = "GETGLOBAL" -> Get(Globals, K(i.b))
       [] i.op = "SETGLOBAL" -> Put(Globals, K(i.b), m.r[i.a])
       [] i.op = "GETTABLE" -> Get(m.r[i.b], RK(i.c))
       [] i.op = "SETTABLE" -> Put(m.r[i.a], RK(i.b), RK(i.c))
       [] i.op = "NEWTABLE" -> InWorld(Set(m, i.a, NewTable(m.w)), Log(m.w, <<"new">>))
       [] i.op = "SELF" -> Set(Get(m.r[i.b], RK(i.c)), i.a + 1, m.r[i.b])
       [] i.op \in {"ADD", "SUB", "MUL", "DIV", "MOD", "POW"} -> Set(m, i.a, Applied(i.op, RK(i.b), RK(i.c)))
       [] i.op \in {"UNM", "LEN"} -> Set(m, i.a, Applied(i.op, m.r[i.b], m.r[i.b]))
       [] i.op = "NOT" -> Set(m, i.a, Bool(IsFalse(m.r[i.b])))
       [] i.op = "CONCAT" -> Set(m, i.a, luaV_concat(m, i.b, i.c))
       [] i.op = "JMP" -> dojump(m, i.b)
       [] i.op \in {"EQ", "LT", "LE"} -> Test(m, Compared(i.op, RK(i.b), RK(i.c)) = (i.a = 1))
       [] i.op = "TEST" -> Test(m, IsFalse(m.r[i.a]) # (i.c = 1))
       [] i.op = "TESTSET" -> IF IsFalse(m.r[i.b]) # (i.c = 1) THEN Set(m, i.a, m.r[i.b]) ELSE dojump(m, 1)
       [] i.op = "CALL" -> OP_CALL(m, i)
       [] i.op = "TAILCALL" -> OP_TAILCALL(m, i)
       [] i.op = "RETURN" -> OP_RETURN(m, i)
       [] i.op = "FORPREP" -> OP_FORPREP(m, i)
       [] i.op = "FORLOOP" -> OP_FORLOOP(m, i)
       [] i.op = "TFORLOOP" -> OP_TFORLOOP(m, i)
       [] i.op = "SETLIST" -> OP_SETLIST(m, i)
       [] i.op = "VARARG" -> IF i.b = 0 THEN SetOpen(m, i.a, m.varargs)
                             ELSE SetRange(m, i.a, Resized(m.varargs, i.b - 1))

RECURSIVE luaV_execute(_, _)
luaV_execute(f, m) ==
  IF m.status # "run" \/ m.fuel = 0 THEN m ELSE luaV_execute(f, Execute(f, m))
================================================================================
