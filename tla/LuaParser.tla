------------------------------- MODULE LuaParser -------------------------------
(* The parser of the Lua compiler, lparser.c, on a syntax that the scanner has *)
(* already read: an expression is a sequence of operands and operators (a      *)
(* token [tk |-> "op", ...] is an operator, any other one an operand, with its *)
(* index, arguments or items inside), a block a sequence of statements.  What  *)
(* the parser does with them, in which order and with which priorities, is     *)
(* that of the code.  Nested functions are left out: a name is a local, one of *)
(* the enclosing function's (Upvalues) or a global one.                        *)
EXTENDS LuaCode

CONSTANTS Names,     \* the sequence of the names of globals and fields
          Upvalues   \* the sequence of the names of the enclosing function's variables

Str(n) == 100 + CHOOSE i \in DOMAIN Names : Names[i] = n

codestring(fs, v) == LET k == addk(fs, v) IN Pair(k.fs, init_exp("VK", k.i))

(* The innermost local of the name, else an upvalue, else a global.            *)
singlevar(fs, n) ==
  LET at == {i \in DOMAIN fs.actvar : fs.actvar[i] = n}
      ups == {i \in DOMAIN Upvalues : Upvalues[i] = n}
      k == codestring(fs, Str(n))
  IN IF at # {} THEN Pair(fs, init_exp("VLOCAL", Max(at) - 1))
     ELSE IF ups # {} THEN Pair(fs, init_exp("VUPVAL", Max(ups) - 1))
     ELSE Pair(k.fs, [k.e EXCEPT !.k = "VGLOBAL"])

adjustlocalvars(fs, names) == [fs EXCEPT !.actvar = @ \o names]

adjust_assign(fs, nvars, nexps, e) ==
  LET extra == nvars - nexps
      open == Max({extra + 1, 0})
      g == luaK_setreturns(fs, e, open)
      c == IF e.k = "VVOID" THEN fs ELSE luaK_exp2nextreg(fs, e).fs
  IN IF hasmultret(e.k) THEN IF open > 1 THEN luaK_reserveregs(g, open - 1) ELSE g
     ELSE IF extra > 0 THEN luaK_nil(luaK_reserveregs(c, extra), c.freereg, extra)
     ELSE c

enterblock(fs, isbreakable) ==
  [lua_assert(fs, fs.freereg = nactvar(fs)) EXCEPT
     !.bl = Append(@, [breaklist |-> NO_JUMP, isbreakable |-> isbreakable, nactvar |-> nactvar(fs)])]
leaveblock(fs) ==
  LET bl == Last(fs.bl)
  IN luaK_patchtohere([fs EXCEPT !.bl = Front(@), !.actvar = SubSeq(@, 1, bl.nactvar),
                                 !.freereg = bl.nactvar], bl.breaklist)

--------------------------------------------------------------------------------
(* Expressions.                                                                *)

RECURSIVE subexpr(_, _, _), Expand(_, _), primaryexp(_, _)
expr(fs, ts) == subexpr(fs, ts, 0)

priority(op) ==
  CASE op = "or" -> [left |-> 1, right |-> 1]
    [] op = "and" -> [left |-> 2, right |-> 2]
    [] op \in {"==", "~=", "<", "<=", ">", ">="} -> [left |-> 3, right |-> 3]
    [] op = ".." -> [left |-> 5, right |-> 4]
    [] op \in {"+", "-"} -> [left |-> 6, right |-> 6]
    [] op \in {"*", "/", "%"} -> [left |-> 7, right |-> 7]
    [] op = "^" -> [left |-> 10, right |-> 9]
UNARY_PRIORITY == 8

(* Every expression but the last goes to the next register: [fs, e].           *)
explist1(fs, es) ==
  FoldLeft(LAMBDA r, ts : expr(luaK_exp2nextreg(r.fs, r.e).fs, ts), expr(fs, es[1]), Tail(es))

funcargs(fs, f, args) ==
  LET l == explist1(fs, args)
      open == args # <<>> /\ hasmultret(l.e.k)
      g == IF args = <<>> THEN fs
           ELSE IF open THEN luaK_setreturns(l.fs, l.e, MULTRET)
           ELSE luaK_exp2nextreg(l.fs, l.e).fs
      nparams == IF open THEN MULTRET ELSE g.freereg - (f.info + 1)
      c == luaK_code(g, "CALL", f.info, nparams + 1, 2)
  IN Pair([c EXCEPT !.freereg = f.info + 1], init_exp("VCALL", LastPc(c)))

(* The items of a constructor; cc is ConsControl with fs in it.                *)
closelistfield(cc) ==
  LET g == luaK_exp2nextreg(cc.fs, cc.v).fs
  IN IF cc.v.k = "VVOID" THEN cc
     ELSE IF cc.tostore = LFIELDS_PER_FLUSH
     THEN [cc EXCEPT !.fs = luaK_setlist(g, cc.t, cc.na, cc.tostore), !.v.k = "VVOID", !.tostore = 0]
     ELSE [cc EXCEPT !.fs = g, !.v.k = "VVOID"]
listfield(cc, ts) ==
  LET r == expr(cc.fs, ts)
  IN [cc EXCEPT !.fs = r.fs, !.v = r.e, !.na = @ + 1, !.tostore = @ + 1]
recfield(cc, key, ts) ==
  LET r == expr(cc.fs, key)
      v == luaK_exp2val(r.fs, r.e)
      rkkey == luaK_exp2RK(v.fs, v.e)
      val == expr(rkkey.fs, ts)
      rk == luaK_exp2RK(val.fs, val.e)
  IN [cc EXCEPT !.fs = [luaK_code(rk.fs, "SETTABLE", cc.t, rkkey.rk, rk.rk) EXCEPT
                          !.freereg = cc.fs.freereg]]
lastlistfield(cc) ==
  LET g == IF cc.v.k = "VVOID" THEN cc.fs ELSE luaK_exp2nextreg(cc.fs, cc.v).fs
  IN IF cc.tostore = 0 THEN cc.fs
     ELSE IF hasmultret(cc.v.k)
     THEN luaK_setlist(luaK_setreturns(cc.fs, cc.v, MULTRET), cc.t, cc.na, MULTRET)
     ELSE luaK_setlist(g, cc.t, cc.na, cc.tostore)
constructor(fs, items) ==
  LET g == luaK_code(fs, "NEWTABLE", 0, 0, 0)
      t == luaK_exp2nextreg(g, init_exp("VRELOCABLE", LastPc(g)))
      Item(cc, x) == IF x.key = <<>> THEN listfield(closelistfield(cc), x.e)
                     ELSE recfield(closelistfield(cc), x.key, x.e)
      cc0 == [fs |-> t.fs, v |-> init_exp("VVOID", 0), t |-> t.e.info, na |-> 0, tostore |-> 0]
  IN Pair(lastlistfield(FoldLeft(Item, cc0, items)), t.e)

primaryexp(fs, x) ==
  LET p == primaryexp(fs, x.p)
      v == luaK_exp2anyreg(p.fs, p.e)
      key == expr(v.fs, x.key)
      kv == luaK_exp2val(key.fs, key.e)
      inside == expr(fs, x.e)
      f == luaK_exp2nextreg(p.fs, p.e)
      name == codestring(p.fs, Str(x.n))
      s == luaK_self(name.fs, p.e, name.e)
  IN CASE x.tk = "name" -> singlevar(fs, x.n)
       [] x.tk = "paren" -> luaK_dischargevars(inside.fs, inside.e)
       [] x.tk = "index" -> luaK_indexed(kv.fs, v.e, kv.e)
       [] x.tk = "call" -> funcargs(f.fs, f.e, x.args)
       [] x.tk = "method" -> funcargs(s.fs, s.e, x.args)

simpleexp(fs, x) ==
  LET d == luaK_code(fs, "VARARG", 0, 1, 0)
  IN CASE x.tk = "num" -> Pair(fs, init_exp("VKNUM", x.v))
       [] x.tk = "str" -> codestring(fs, x.v)
       [] x.tk = "nil" -> Pair(fs, init_exp("VNIL", 0))
       [] x.tk = "true" -> Pair(fs, init_exp("VTRUE", 0))
       [] x.tk = "false" -> Pair(fs, init_exp("VFALSE", 0))
       [] x.tk = "dots" -> Pair(d, init_exp("VVARARG", LastPc(d)))
       [] x.tk = "table" -> constructor(fs, x.items)
       [] OTHER -> primaryexp(fs, x)

(* Operators bind while they have more than the limit's priority; what is not  *)
(* read is the rest: [fs, e, rest].                                            *)
Expand(r, limit) ==
  LET op == Head(r.rest).op
      i == luaK_infix(r.fs, op, r.e)
      r2 == subexpr(i.fs, Tail(r.rest), priority(op).right)
      p == luaK_posfix(r2.fs, op, i.e, r2.e)
  IN IF r.rest = <<>> THEN r
     ELSE IF priority(op).left <= limit THEN r
     ELSE Expand([fs |-> p.fs, e |-> p.e, rest |-> r2.rest], limit)
subexpr(fs, ts, limit) ==
  LET u == subexpr(fs, Tail(ts), UNARY_PRIORITY)
      p == luaK_prefix(u.fs, Head(ts).op, u.e)
      s == simpleexp(fs, Head(ts))
  IN IF Head(ts).tk = "op" THEN Expand([fs |-> p.fs, e |-> p.e, rest |-> u.rest], limit)
     ELSE Expand([fs |-> s.fs, e |-> s.e, rest |-> Tail(ts)], limit)

--------------------------------------------------------------------------------
(* Statements: each operator returns fs.                                       *)

RECURSIVE chunk(_, _)
block(fs, b) == leaveblock(chunk(enterblock(fs, FALSE), b))

(* A table or an index in the list of variables that is the local v will be    *)
(* read from a copy: [fs, lhs].                                                *)
check_conflict(fs, lhs, v) ==
  LET Safe(r) == IF r = v.info THEN fs.freereg ELSE r
      Var(x) == IF x.k = "VINDEXED" THEN [x EXCEPT !.info = Safe(@), !.aux = Safe(@)] ELSE x
      new == [i \in DOMAIN lhs |-> Var(lhs[i])]
  IN IF v.k = "VLOCAL" /\ new # lhs
     THEN [fs |-> luaK_reserveregs(luaK_code(fs, "MOVE", fs.freereg, v.info, 0), 1), lhs |-> new]
     ELSE [fs |-> fs, lhs |-> lhs]

(* The values are stored from the last variable to the first one.              *)
assignment(fs, vars, es) ==
  LET Read(r, x) == LET v == primaryexp(r.fs, x)
                        c == check_conflict(v.fs, r.lhs, v.e)
                    IN [fs |-> c.fs, lhs |-> Append(c.lhs, v.e)]
      r == FoldLeft(Read, [fs |-> fs, lhs |-> <<>>], vars)
      l == explist1(r.fs, es)
      n == Len(vars)
      one == luaK_setoneret(l.fs, l.e)
      a == adjust_assign(l.fs, n, Len(es), l.e)
      adjusted == IF Len(es) > n THEN [a EXCEPT !.freereg = @ - (Len(es) - n)] ELSE a
      Default(g, v) == luaK_storevar(g, v, init_exp("VNONRELOC", g.freereg - 1))
  IN IF Len(es) = n
     THEN FoldLeft(Default, luaK_storevar(one.fs, r.lhs[n], one.e), Reverse(Front(r.lhs)))
     ELSE FoldLeft(Default, adjusted, Reverse(r.lhs))

(* The list of the jumps taken when the condition is false: [fs, l].           *)
cond(fs, ts) ==
  LET r == expr(fs, ts)
      g == luaK_goiftrue(r.fs, IF r.e.k = "VNIL" THEN [r.e EXCEPT !.k = "VFALSE"] ELSE r.e)
  IN [fs |-> g.fs, l |-> g.e.f]

breakstat(fs) ==
  LET i == Max({j \in DOMAIN fs.bl : fs.bl[j].isbreakable})
      j == luaK_jump(fs)
      c == luaK_concat(j.fs, fs.bl[i].breaklist, j.l)
  IN [c.fs EXCEPT !.bl[i].breaklist = c.l]

whilestat(fs, ts, b) ==
  LET c == cond(luaK_getlabel(fs), ts)
      j == luaK_jump(block(enterblock(c.fs, TRUE), b))
  IN luaK_patchtohere(leaveblock(luaK_patchlist(j.fs, j.l, pc(fs))), c.l)

repeatstat(fs, b, ts) ==
  LET c == cond(chunk(enterblock(enterblock(luaK_getlabel(fs), TRUE), FALSE), b), ts)
  IN leaveblock(luaK_patchlist(leaveblock(c.fs), c.l, pc(fs)))

forbody(fs, base, names, b, isnum) ==
  LET g == adjustlocalvars(fs, <<"(for 1)", "(for 2)", "(for 3)">>)
      prep == IF isnum THEN Pair(luaK_code(g, "FORPREP", base, NO_JUMP, 0), 0) ELSE luaK_jump(g)
      at == LastPc(prep.fs)
      v == luaK_reserveregs(adjustlocalvars(enterblock(prep.fs, FALSE), names), Len(names))
      h == luaK_patchtohere(leaveblock(block(v, b)), IF isnum THEN at ELSE prep.l)
      n == luaK_code(h, "FORLOOP", base, NO_JUMP, 0)
      j == luaK_jump(luaK_code(h, "TFORLOOP", base, 0, Len(names)))
  IN IF isnum THEN luaK_patchlist(n, LastPc(n), at + 1) ELSE luaK_patchlist(j.fs, j.l, at + 1)

exp1(fs, ts) == LET r == expr(fs, ts) IN luaK_exp2nextreg(r.fs, r.e).fs
fornum(fs, name, es, b) ==
  LET g == FoldLeft(exp1, fs, es)
      k == addk(g, Num(1))
      step == luaK_reserveregs(luaK_code(k.fs, "LOADK", g.freereg, k.i, 0), 1)
  IN forbody(IF Len(es) = 3 THEN g ELSE step, fs.freereg, <<name>>, b, TRUE)
forlist(fs, names, es, b) ==
  LET l == explist1(fs, es)
  IN forbody(luaK_checkstack(adjust_assign(l.fs, 3, Len(es), l.e), 3), fs.freereg, names, b, FALSE)

(* The blocks of the conditions, and one more for else.                        *)
ifstat(fs, conds, blocks) ==
  LET Escape(r) == LET j == luaK_jump(r.fs)
                       c == luaK_concat(j.fs, r.escapelist, j.l)
                   IN [r EXCEPT !.fs = luaK_patchtohere(c.fs, r.flist), !.escapelist = c.l]
      Then(r, i) == LET e == IF i = 1 THEN r ELSE Escape(r)
                        c == cond(e.fs, conds[i])
                    IN [e EXCEPT !.fs = block(c.fs, blocks[i]), !.flist = c.l]
      last == FoldLeft(Then, [fs |-> fs, escapelist |-> NO_JUMP, flist |-> NO_JUMP],
                       [i \in DOMAIN conds |-> i])
      else == Escape(last)
      c == luaK_concat(last.fs, last.escapelist, last.flist)
  IN IF Len(blocks) > Len(conds) THEN luaK_patchtohere(block(else.fs, Last(blocks)), else.escapelist)
     ELSE luaK_patchtohere(c.fs, c.l)

localstat(fs, names, es) ==
  LET l == IF es = <<>> THEN Pair(fs, init_exp("VVOID", 0)) ELSE explist1(fs, es)
  IN adjustlocalvars(adjust_assign(l.fs, Len(names), Len(es), l.e), names)

retstat(fs, es) ==
  LET l == explist1(fs, es)
      m == luaK_setreturns(l.fs, l.e, MULTRET)
      tail == l.e.k = "VCALL" /\ Len(es) = 1
      t == lua_assert([m EXCEPT !.code[l.e.info + 1].op = "TAILCALL"],
                      Code(m, l.e.info).a = nactvar(fs))
      any == luaK_exp2anyreg(l.fs, l.e)
      next == luaK_exp2nextreg(l.fs, l.e).fs
  IN IF es = <<>> THEN luaK_ret(fs, 0, 0)
     ELSE IF hasmultret(l.e.k) THEN luaK_ret(IF tail THEN t ELSE m, nactvar(fs), MULTRET)
     ELSE IF Len(es) = 1 THEN luaK_ret(any.fs, any.e.info, 1)
     ELSE luaK_ret(lua_assert(next, Len(es) = next.freereg - nactvar(fs)), nactvar(fs), Len(es))

callstat(fs, x) == LET v == primaryexp(fs, x) IN [v.fs EXCEPT !.code[v.e.info + 1].c = 1]

statement(fs, x) ==
  CASE x.s = "if" -> ifstat(fs, x.conds, x.blocks)
    [] x.s = "while" -> whilestat(fs, x.c, x.b)
    [] x.s = "repeat" -> repeatstat(fs, x.b, x.c)
    [] x.s = "fornum" -> leaveblock(fornum(enterblock(fs, TRUE), x.n, x.es, x.b))
    [] x.s = "forlist" -> leaveblock(forlist(enterblock(fs, TRUE), x.ns, x.es, x.b))
    [] x.s = "do" -> block(fs, x.b)
    [] x.s = "local" -> localstat(fs, x.ns, x.es)
    [] x.s = "return" -> retstat(fs, x.es)
    [] x.s = "break" -> breakstat(fs)
    [] x.s = "call" -> callstat(fs, x.e)
    [] x.s = "assign" -> assignment(fs, x.vars, x.es)

chunk(fs, b) ==
  LET One(g, x) == LET h == statement(g, x)
                   IN [lua_assert(h, h.maxstacksize >= h.freereg /\ h.freereg >= nactvar(h)) EXCEPT
                         !.freereg = nactvar(h)]
  IN FoldLeft(One, fs, b)

(* The function of the parameters and the block.                               *)
luaY_parser(params, b) == luaK_ret(chunk(open_func(params), b), 0, 0)
================================================================================
