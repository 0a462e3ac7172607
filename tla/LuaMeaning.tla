------------------------------ MODULE LuaMeaning ------------------------------
(* What a Lua function means, apart from any code: the precedence of operators *)
(* by the lowest one that is not inside another, values by evaluating operands *)
(* from left to right, blocks by their statements.  A compiled program must    *)
(* show the same calls, reads and writes in the same order, leave the same     *)
(* fields, parameters and upvalues, and return the same values.                *)
EXTENDS LuaExecute

CONSTANTS Programs,   \* the functions: records [params, block]
          Compiled,   \* for each program, its code
          Inputs      \* the records [args, up, varargs, seed]

\* The code of a program is that of the compiler.
ASSUME CompiledAssumption ==
  Compiled = [p \in Programs |-> luaY_parser(p.params, p.block)]

VARIABLE compiled     \* a program, an input, its code and the machine it ran on

--------------------------------------------------------------------------------
(* The operator applied last.                                                  *)

Level(op) == CASE op = "or" -> 1 [] op = "and" -> 2
               [] op \in {"==", "~=", "<", "<=", ">", ">="} -> 3 [] op = ".." -> 4
               [] op \in {"+", "-"} -> 5 [] op \in {"*", "/", "%"} -> 6 [] op = "^" -> 8
UnaryLevel == 7
Binary(ts) == {i \in 2 .. Len(ts) : ts[i].tk = "op" /\ ts[i - 1].tk # "op"}
IsUnary(ts) ==
  ts[1].tk = "op" /\ \A i \in Binary(ts) : Level(ts[i].op) > UnaryLevel
LastApplied(ts) ==
  LET l == Min({Level(ts[i].op) : i \in Binary(ts)})
      at == {i \in Binary(ts) : Level(ts[i].op) = l}
  IN IF l \in {4, 8} THEN Min(at) ELSE Max(at)

--------------------------------------------------------------------------------
(* A state s of the evaluation: the variables in scope, the upvalues, the      *)
(* world, how it goes on and what it returns.                                  *)

VarIndex(s, n) == {i \in DOMAIN s.env : s.env[i].n = n}
UpIndex(n) == {i \in DOMAIN Upvalues : Upvalues[i] = n}
Declare(s, names, vs) ==
  [s EXCEPT !.env = @ \o [i \in DOMAIN names |-> [n |-> names[i], v |-> Resized(vs, Len(names))[i]]]]
Result(s, v) == [s |-> s, v |-> v]
Results(s, vs) == [s |-> s, vs |-> vs]
First(r) == Result(r.s, Resized(r.vs, 1)[1])
GetField(s, t, k) == Result([s EXCEPT !.w = Log(@, <<"get", t, k>>)], FieldOf(s.w, t, k))
PutField(s, t, k, v) == [s EXCEPT !.w = SetField(Log(@, <<"set", t, k, v>>), t, k, v)]
CallOf(s, f, args) == Results([s EXCEPT !.w = Called(@, f, args)], ResultsOf(s.w, f, args))
Variable(s, n) ==
  IF VarIndex(s, n) # {} THEN Result(s, s.env[Max(VarIndex(s, n))].v)
  ELSE IF UpIndex(n) # {} THEN Result(s, s.up[Max(UpIndex(n))])
  ELSE GetField(s, Globals, Str(n))

RECURSIVE Value(_, _), Values(_, _)
(* The values of a list: all of the last one's, the first one of the others.   *)
ValueList(s, es) ==
  LET Next1(r, ts) == LET x == Values(r.s, ts)
                      IN [s |-> x.s, vs |-> r.vs \o Resized(r.last, 1), last |-> x.vs]
      r == FoldLeft(Next1, [Values(s, es[1]) @@ [last |-> <<>>] EXCEPT !.vs = <<>>,
                              !.last = Values(s, es[1]).vs], Tail(es))
  IN IF es = <<>> THEN Results(s, <<>>) ELSE Results(r.s, r.vs \o r.last)

TableOf(s, items) ==
  LET t == NewTable(s.w)
      Item(r, x) ==
        LET k == Value(r.s, x.key)
            v == Value(k.s, x.e)
            vs == Values(r.s, x.e)
        IN IF x.key = <<>> THEN [s |-> vs.s, list |-> r.list \o Resized(r.last, IF r.any THEN 1 ELSE 0),
                                 last |-> vs.vs, any |-> TRUE, closed |-> FALSE]
           ELSE [r EXCEPT !.s = PutField(v.s, t, k.v, v.v), !.closed = TRUE]
      r == FoldLeft(Item, [s |-> [s EXCEPT !.w = Log(@, <<"new">>)], list |-> <<>>, last |-> <<>>,
                           any |-> FALSE, closed |-> FALSE], items)
      all == r.list \o (IF r.closed THEN Resized(r.last, IF r.any THEN 1 ELSE 0) ELSE r.last)
  IN Result([r.s EXCEPT !.w = FoldLeft(LAMBDA w, j : SetField(w, t, Num(j), all[j]), @,
                                       [j \in DOMAIN all |-> j])], t)

(* An operand: a call and the varargs have any number of values.               *)
Operand(s, x) ==
  LET p == First(Values(s, <<x.p>>))
      k == Value(p.s, x.key)
      args == ValueList(p.s, x.args)
      m == GetField(p.s, p.v, Str(x.n))
      margs == ValueList(m.s, x.args)
      inside == Value(s, x.e)
      var == Variable(s, x.n)
      field == GetField(k.s, p.v, k.v)
      table == TableOf(s, x.items)
  IN CASE x.tk \in {"num", "str"} -> Results(s, <<x.v>>)
       [] x.tk = "nil" -> Results(s, <<Nil>>)
       [] x.tk = "true" -> Results(s, <<True>>)
       [] x.tk = "false" -> Results(s, <<False>>)
       [] x.tk = "dots" -> Results(s, s.varargs)
       [] x.tk = "name" -> Results(var.s, <<var.v>>)
       [] x.tk = "paren" -> Results(inside.s, <<inside.v>>)
       [] x.tk = "index" -> Results(field.s, <<field.v>>)
       [] x.tk = "call" -> CallOf(args.s, p.v, args.vs)
       [] x.tk = "method" -> CallOf(margs.s, m.v, <<p.v>> \o margs.vs)
       [] x.tk = "table" -> Results(table.s, <<table.v>>)

UnaryValue(op, v) == CASE op = "not" -> Bool(IsFalse(v)) [] op = "-" -> Applied("UNM", v, v)
                       [] op = "#" -> Applied("LEN", v, v)
BinaryValue(op, a, b) ==
  CASE op \in DOMAIN ArithOps -> Applied(ArithOps[op], a, b)
    [] op = ".." -> Applied("CONCAT", a, b)
    [] op = "==" -> Bool(a = b) [] op = "~=" -> Bool(a # b)
    [] op = "<" -> Bool(Compared("LT", a, b)) [] op = ">" -> Bool(Compared("LT", b, a))
    [] op = "<=" -> Bool(Compared("LE", a, b)) [] op = ">=" -> Bool(Compared("LE", b, a))

Values(s, ts) ==
  LET u == Value(s, Tail(ts))
      i == LastApplied(ts)
      a == Value(s, SubSeq(ts, 1, i - 1))
      b == Value(a.s, SubSeq(ts, i + 1, Len(ts)))
      op == ts[i].op
  IN IF Len(ts) = 1 THEN Operand(s, ts[1])
     ELSE IF IsUnary(ts) THEN Results(u.s, <<UnaryValue(ts[1].op, u.v)>>)
     ELSE IF (op = "and" /\ IsFalse(a.v)) \/ (op = "or" /\ ~IsFalse(a.v)) THEN Results(a.s, <<a.v>>)
     ELSE Results(b.s, <<IF op \in {"and", "or"} THEN b.v ELSE BinaryValue(op, a.v, b.v)>>)
Value(s, ts) == First(Values(s, ts))

--------------------------------------------------------------------------------
(* Statements.                                                                 *)

RECURSIVE Do(_, _), WhileDo(_, _), RepeatDo(_, _), ForDo(_, _, _), ForEach(_, _, _)
Scope(s, n) == [s EXCEPT !.env = SubSeq(@, 1, n)]
DoBlock(s, b) == Scope(Do(s, b), Len(s.env))
EndLoop(s) == IF s.status = "break" THEN [s EXCEPT !.status = "go"] ELSE s

(* What an assignment stores into, found before any value.                     *)
Place(s, x) ==
  LET p == First(Values(s, <<x.p>>))
      k == Value(p.s, x.key)
  IN IF x.tk = "index" THEN [s |-> k.s, at |-> <<p.v, k.v>>] ELSE [s |-> s, at |-> <<x.n>>]
Store(s, at, v) ==
  IF Len(at) = 2 THEN PutField(s, at[1], at[2], v)
  ELSE IF VarIndex(s, at[1]) # {} THEN [s EXCEPT !.env[Max(VarIndex(s, at[1]))].v = v]
  ELSE IF UpIndex(at[1]) # {} THEN [s EXCEPT !.up[Max(UpIndex(at[1]))] = v]
  ELSE PutField(s, Globals, Str(at[1]), v)
Assign(s, vars, es) ==
  LET r == FoldLeft(LAMBDA a, x : [s |-> Place(a.s, x).s, at |-> Append(a.at, Place(a.s, x).at)],
                    [s |-> s, at |-> <<>>], vars)
      l == ValueList(r.s, es)
      n == Len(vars)
  IN FoldLeft(LAMBDA a, j : Store(a, r.at[j], Resized(l.vs, n)[j]), l.s, [j \in 1 .. n |-> n + 1 - j])

WhileDo(s, x) ==
  LET c == Value(s, x.c)
      b == DoBlock(c.s, x.b)
  IN IF IsFalse(c.v) THEN c.s ELSE IF b.status # "go" THEN EndLoop(b) ELSE WhileDo(b, x)
RepeatDo(s, x) ==
  LET b == Do(s, x.b)
      c == Value(b, x.c)
      out == Scope(c.s, Len(s.env))
  IN IF b.status # "go" THEN EndLoop(Scope(b, Len(s.env)))
     ELSE IF IsFalse(c.v) THEN RepeatDo(out, x) ELSE out
(* f is [idx, limit, step]; then [f, state, control].                          *)
ForDo(s, x, f) ==
  LET b == DoBlock(Declare(s, <<x.n>>, <<f.idx>>), x.b)
      out == Scope(b, Len(s.env))
  IN IF ~((f.step > 0 /\ f.idx <= f.limit) \/ (f.step <= 0 /\ f.limit <= f.idx)) THEN s
     ELSE IF b.status # "go" THEN EndLoop(out) ELSE ForDo(out, x, [f EXCEPT !.idx = @ + f.step])
ForEach(s, x, f) ==
  LET c == CallOf(s, f[1], <<f[2], f[3]>>)
      vs == Resized(c.vs, Len(x.ns))
      b == DoBlock(Declare(c.s, x.ns, vs), x.b)
      out == Scope(b, Len(s.env))
  IN IF vs[1] = Nil THEN c.s
     ELSE IF b.status # "go" THEN EndLoop(out) ELSE ForEach(out, x, <<f[1], f[2], vs[1]>>)

RECURSIVE If(_, _, _)
If(s, x, i) ==
  LET c == Value(s, x.conds[i])
  IN IF i > Len(x.conds) THEN IF i <= Len(x.blocks) THEN DoBlock(s, x.blocks[i]) ELSE s
     ELSE IF IsFalse(c.v) THEN If(c.s, x, i + 1) ELSE DoBlock(c.s, x.blocks[i])

Fornum(s, x) ==
  LET vs == ValueList(s, x.es)
      v == FoldLeft(LAMBDA r, ts : Results(Value(r.s, ts).s, Append(r.vs, Value(r.s, ts).v)),
                    Results(s, <<>>), x.es)
      step == IF Len(x.es) = 3 THEN v.vs[3] ELSE Num(1)
  IN IF ~(IsNumber(v.vs[1]) /\ IsNumber(v.vs[2]) /\ IsNumber(step)) THEN [v.s EXCEPT !.status = "error"]
     ELSE ForDo(v.s, x, [idx |-> v.vs[1], limit |-> v.vs[2], step |-> step - Num(0)])

One(s, x) ==
  LET l == ValueList(s, x.es)
  IN CASE x.s = "if" -> If(s, x, 1)
       [] x.s = "while" -> WhileDo(s, x)
       [] x.s = "repeat" -> RepeatDo(s, x)
       [] x.s = "fornum" -> Fornum(s, x)
       [] x.s = "forlist" -> ForEach(l.s, x, Resized(l.vs, 3))
       [] x.s = "do" -> DoBlock(s, x.b)
       [] x.s = "local" -> Declare(l.s, x.ns, l.vs)
       [] x.s = "return" -> [l.s EXCEPT !.status = "returned", !.ret = l.vs]
       [] x.s = "break" -> [s EXCEPT !.status = "break"]
       [] x.s = "call" -> Values(s, <<x.e>>).s
       [] x.s = "assign" -> Assign(s, x.vars, x.es)
Do(s, b) == FoldLeft(LAMBDA r, x : IF r.status = "go" THEN One(r, x) ELSE r, s, b)

--------------------------------------------------------------------------------

Meaning(p, i) ==
  LET s0 == [env |-> <<>>, up |-> i.up, varargs |-> i.varargs, w |-> World(i), status |-> "go", ret |-> <<>>]
      s == Do(Declare(s0, p.params, i.args), p.block)
  IN [log |-> s.w.log, heap |-> s.w.heap, up |-> s.up, ret |-> s.ret,
      status |-> IF s.status = "error" THEN "error" ELSE "returned",
      params |-> [n \in DOMAIN p.params |-> s.env[n].v]]
Shown(p, m) ==
  [log |-> m.w.log, heap |-> m.w.heap, up |-> m.up, ret |-> m.ret, status |-> m.status,
   params |-> [n \in DOMAIN p.params |-> m.r[n - 1]]]

CompilerInit == compiled \in [program : Programs, input : Inputs, f : {<<>>}, m : {<<>>}]
Compile ==
  /\ compiled.f = <<>>
  /\ compiled' = [compiled EXCEPT !.f = Compiled[compiled.program]]
RunProgram ==
  /\ compiled.f # <<>> /\ compiled.m = <<>> /\ ~compiled.f.error
  /\ compiled' = [compiled EXCEPT !.m = luaV_execute(compiled.f, FrameOf(compiled.f, compiled.input))]
CompilerNext == Compile \/ RunProgram

(* Every lua_assert of lcode.c and lparser.c holds for every program: each     *)
(* register is freed in the order it was reserved, statements begin with no    *)
(* register in use but the variables', and the code writes no register beyond  *)
(* the frame that luaK_checkstack has asked for.                               *)
RegistersBalance(f, m) ==
  /\ f # <<>> => f.error \/ (f.asserts /\ f.jpc = NO_JUMP)
  /\ m # <<>> => m.high < f.maxstacksize

(* Running the code of a program does what the program means: operators bind   *)
(* and associate as they should, "and", "or", "not" and comparisons yield the  *)
(* right value through the jumps of lcode.c, loops and breaks end where they   *)
(* should, and an assignment to several variables uses the old values; and its *)
(* registers balance.                                                          *)
CodeMeansProgram ==
  [][LET c == compiled' IN
     /\ c.m # <<>> => Shown(c.program, c.m) = Meaning(c.program, c.input)
     /\ RegistersBalance(c.f, c.m)]_compiled
================================================================================
