-------------------------------- MODULE LuaCode --------------------------------
(* The code generator of the Lua compiler: lcode.c over the instructions of    *)
(* lopcodes.h.                                                                 *)
(*                                                                             *)
(* A function under compilation is a record fs, an expression descriptor a     *)
(* record e, and a function of lcode.c that changes them an operator that      *)
(* returns what it leaves in them.  Program counters count from zero as in the *)
(* code; an instruction keeps sBx and Bx in b.  Line information and the       *)
(* limits of the operands' widths other than RK's are left out.                *)
EXTENDS Integers, Sequences, FiniteSetsExt, SequencesExt

CONSTANTS
  BITRK,             \* the bit that tells a constant from a register in an operand
  MAXSTACK,          \* the number of registers a function may not reach
  LFIELDS_PER_FLUSH  \* list items of a constructor stored at a time

NO_JUMP == -1
MAXINDEXRK == BITRK - 1
NO_REG == BITRK - 1
ISK(x) == x >= BITRK
RKASK(x) == x + BITRK

Inst(op, a, b, c) == [op |-> op, a |-> a, b |-> b, c |-> c]
testTMode(op) == op \in {"EQ", "LT", "LE", "TEST", "TESTSET", "TFORLOOP"}

(* Values, as far as the compiler knows them: numbers are in their own range.  *)
Nil == 0
False == 1
True == 2
Num(n) == 20 + n
Mix(a, b, c) == 10 + ((a * 31 + b * 17 + c * 7) % 83)
(* What an operator makes of its operands, by numbers or by a metamethod.      *)
Applied(op, a, b) ==
  Mix(a, b, CHOOSE n \in 1 .. 10 :
              op = <<"ADD", "SUB", "MUL", "DIV", "MOD", "POW", "UNM", "LEN", "CONCAT", "SELF">>[n])

init_exp(k, info) == [k |-> k, info |-> info, aux |-> 0, t |-> NO_JUMP, f |-> NO_JUMP]
hasjumps(e) == e.t # e.f
isnumeral(e) == e.k = "VKNUM" /\ e.t = NO_JUMP /\ e.f = NO_JUMP
hasmultret(k) == k \in {"VCALL", "VVARARG"}

open_func(params) ==
  [code |-> <<>>, lasttarget |-> -1, jpc |-> NO_JUMP, freereg |-> Len(params),
   maxstacksize |-> 2, actvar |-> params, k |-> <<>>, bl |-> <<>>,
   error |-> FALSE,     \* a syntax error has been raised
   asserts |-> TRUE]    \* every lua_assert so far has held
pc(fs) == Len(fs.code)
nactvar(fs) == Len(fs.actvar)
Code(fs, p) == fs.code[p + 1]
With(fs, p, i) == [fs EXCEPT !.code[p + 1] = i]
lua_assert(fs, P) == [fs EXCEPT !.asserts = @ /\ P]

--------------------------------------------------------------------------------
(* Jump lists: each jump holds the next one of its list until it is fixed.     *)

getjump(fs, p) == IF Code(fs, p).b = NO_JUMP THEN NO_JUMP ELSE p + 1 + Code(fs, p).b
RECURSIVE JumpList(_, _)
JumpList(fs, list) ==
  IF list = NO_JUMP THEN <<>> ELSE <<list>> \o JumpList(fs, getjump(fs, list))
fixjump(fs, p, dest) == [fs EXCEPT !.code[p + 1].b = dest - (p + 1)]
getjumpcontrol(fs, p) == IF p >= 1 /\ testTMode(Code(fs, p - 1).op) THEN p - 1 ELSE p

(* Some jump of the list does not leave a value in the register.               *)
need_value(fs, list) ==
  \E p \in ToSet(JumpList(fs, list)) : Code(fs, getjumpcontrol(fs, p)).op # "TESTSET"

patchtestreg(fs, node, reg) ==
  LET p == getjumpcontrol(fs, node)
      i == Code(fs, p)
  IN IF reg # NO_REG /\ reg # i.b THEN With(fs, p, [i EXCEPT !.a = reg])
     ELSE With(fs, p, Inst("TEST", i.b, 0, i.c))
CanPatch(fs, node) == Code(fs, getjumpcontrol(fs, node)).op = "TESTSET"

removevalues(fs, list) ==
  FoldLeft(LAMBDA g, p : IF CanPatch(g, p) THEN patchtestreg(g, p, NO_REG) ELSE g,
           fs, JumpList(fs, list))

patchlistaux(fs, list, vtarget, reg, dtarget) ==
  FoldLeft(LAMBDA g, p : IF CanPatch(g, p) THEN fixjump(patchtestreg(g, p, reg), p, vtarget)
                         ELSE fixjump(g, p, dtarget),
           fs, JumpList(fs, list))

dischargejpc(fs) ==
  [patchlistaux(fs, fs.jpc, pc(fs), NO_REG, pc(fs)) EXCEPT !.jpc = NO_JUMP]

luaK_code(fs, op, a, b, c) ==
  LET g == dischargejpc(fs) IN [g EXCEPT !.code = Append(@, Inst(op, a, b, c))]
LastPc(fs) == pc(fs) - 1

luaK_getlabel(fs) == [fs EXCEPT !.lasttarget = pc(fs)]

(* The list of l1 with l2 appended: [fs, l].                                   *)
luaK_concat(fs, l1, l2) ==
  IF l2 = NO_JUMP THEN [fs |-> fs, l |-> l1]
  ELSE IF l1 = NO_JUMP THEN [fs |-> fs, l |-> l2]
  ELSE [fs |-> fixjump(fs, Last(JumpList(fs, l1)), l2), l |-> l1]

luaK_patchtohere(fs, list) ==
  LET r == luaK_concat(luaK_getlabel(fs), fs.jpc, list) IN [r.fs EXCEPT !.jpc = r.l]

luaK_patchlist(fs, list, target) ==
  IF target = pc(fs) THEN luaK_patchtohere(fs, list)
  ELSE patchlistaux(fs, list, target, NO_REG, target)

luaK_jump(fs) ==
  LET g == luaK_code([fs EXCEPT !.jpc = NO_JUMP], "JMP", 0, NO_JUMP, 0)
  IN luaK_concat(g, LastPc(g), fs.jpc)
condjump(fs, op, a, b, c) == luaK_jump(luaK_code(fs, op, a, b, c))

--------------------------------------------------------------------------------
(* Registers and constants.                                                    *)

luaK_checkstack(fs, n) ==
  IF fs.freereg + n > fs.maxstacksize
  THEN [fs EXCEPT !.maxstacksize = fs.freereg + n, !.error = @ \/ fs.freereg + n >= MAXSTACK]
  ELSE fs
luaK_reserveregs(fs, n) == [luaK_checkstack(fs, n) EXCEPT !.freereg = @ + n]
freereg(fs, reg) ==
  IF ~ISK(reg) /\ reg >= nactvar(fs)
  THEN lua_assert([fs EXCEPT !.freereg = @ - 1], reg = fs.freereg - 1) ELSE fs
freeexp(fs, e) == IF e.k = "VNONRELOC" THEN freereg(fs, e.info) ELSE fs

(* The index of the constant v, which is entered if it is new: [fs, i].        *)
addk(fs, v) ==
  IF v \in ToSet(fs.k) THEN [fs |-> fs, i |-> (CHOOSE i \in DOMAIN fs.k : fs.k[i] = v) - 1]
  ELSE [fs |-> [fs EXCEPT !.k = Append(@, v)], i |-> Len(fs.k)]

\* Fault: nils are joined although a jump may come between them.
NilsAcrossJumps(fs, from, n) ==
  LET last == Code(fs, pc(fs) - 1)
  IN IF pc(fs) > 0 /\ last.op = "LOADNIL" /\ last.a <= from /\ from <= last.b + 1
     THEN [fs EXCEPT !.code[pc(fs)].b = Max({@, from + n - 1})]
     ELSE luaK_code(fs, "LOADNIL", from, from + n - 1, 0)

(* A nil after a load of nils lengthens it, unless a jump may come here.       *)
luaK_nil(fs, from, n) ==
  LET last == Code(fs, pc(fs) - 1)
      joins == last.op = "LOADNIL" /\ last.a <= from /\ from <= last.b + 1
  IN IF pc(fs) > fs.lasttarget /\ pc(fs) = 0 /\ from >= nactvar(fs) THEN fs
     ELSE IF pc(fs) > fs.lasttarget /\ pc(fs) > 0 /\ joins
     THEN [fs EXCEPT !.code[pc(fs)].b = Max({@, from + n - 1})]
     ELSE luaK_code(fs, "LOADNIL", from, from + n - 1, 0)

luaK_ret(fs, first, nret) == luaK_code(fs, "RETURN", first, nret + 1, 0)

luaK_setreturns(fs, e, nresults) ==
  IF e.k = "VCALL" THEN [fs EXCEPT !.code[e.info + 1].c = nresults + 1]
  ELSE IF e.k = "VVARARG"
  THEN luaK_reserveregs([fs EXCEPT !.code[e.info + 1].b = nresults + 1,
                                   !.code[e.info + 1].a = fs.freereg], 1)
  ELSE fs
MULTRET == -1

luaK_setlist(fs, base, nelems, tostore) ==
  [luaK_code(fs, "SETLIST", base, IF tostore = MULTRET THEN 0 ELSE tostore,
             (nelems - 1) \div LFIELDS_PER_FLUSH + 1)
   EXCEPT !.freereg = base + 1]

--------------------------------------------------------------------------------
(* Where the value of an expression goes.  These operators return [fs, e].     *)

Pair(fs, e) == [fs |-> fs, e |-> e]
Relocable(fs, e) == Pair(fs, [e EXCEPT !.k = "VRELOCABLE", !.info = LastPc(fs)])
InReg(fs, e, reg) == Pair(fs, [e EXCEPT !.k = "VNONRELOC", !.info = reg])

luaK_setoneret(fs, e) ==
  CASE e.k = "VCALL" -> InReg(fs, e, Code(fs, e.info).a)
    [] e.k = "VVARARG" -> Pair([fs EXCEPT !.code[e.info + 1].b = 2], [e EXCEPT !.k = "VRELOCABLE"])
    [] OTHER -> Pair(fs, e)

luaK_dischargevars(fs, e) ==
  CASE e.k = "VLOCAL" -> Pair(fs, [e EXCEPT !.k = "VNONRELOC"])
    [] e.k = "VUPVAL" -> Relocable(luaK_code(fs, "GETUPVAL", 0, e.info, 0), e)
    [] e.k = "VGLOBAL" -> Relocable(luaK_code(fs, "GETGLOBAL", 0, e.info, 0), e)
    [] e.k = "VINDEXED" ->
         Relocable(luaK_code(freereg(freereg(fs, e.aux), e.info), "GETTABLE", 0, e.info, e.aux), e)
    [] OTHER -> luaK_setoneret(fs, e)

discharge2reg(fs0, e0, reg) ==
  LET r == luaK_dischargevars(fs0, e0)
      fs == r.fs
      e == r.e
      num == addk(fs, e.info)
  IN CASE e.k = "VNIL" -> InReg(luaK_nil(fs, reg, 1), e, reg)
       [] e.k \in {"VFALSE", "VTRUE"} ->
            InReg(luaK_code(fs, "LOADBOOL", reg, IF e.k = "VTRUE" THEN 1 ELSE 0, 0), e, reg)
       [] e.k = "VK" -> InReg(luaK_code(fs, "LOADK", reg, e.info, 0), e, reg)
       [] e.k = "VKNUM" -> InReg(luaK_code(num.fs, "LOADK", reg, num.i, 0), e, reg)
       [] e.k = "VRELOCABLE" -> InReg([fs EXCEPT !.code[e.info + 1].a = reg], e, reg)
       [] e.k = "VNONRELOC" ->
            InReg(IF reg = e.info THEN fs ELSE luaK_code(fs, "MOVE", reg, e.info, 0), e, reg)
       [] OTHER -> Pair(lua_assert(fs, e.k \in {"VVOID", "VJMP"}), e)

discharge2anyreg(fs, e) ==
  IF e.k = "VNONRELOC" THEN Pair(fs, e)
  ELSE discharge2reg(luaK_reserveregs(fs, 1), e, fs.freereg)

(* The two instructions that load false and true are only jumped to.           *)
LoadBooleans(fs, e, reg) ==
  LET j == IF e.k = "VJMP" THEN [fs |-> fs, l |-> NO_JUMP] ELSE luaK_jump(fs)
      f == luaK_code(luaK_getlabel(j.fs), "LOADBOOL", reg, 0, 1)
      t == luaK_code(luaK_getlabel(f), "LOADBOOL", reg, 1, 0)
  IN [fs |-> luaK_patchtohere(t, j.l), p_f |-> LastPc(f), p_t |-> LastPc(t)]

exp2reg(fs0, e0, reg) ==
  LET d == discharge2reg(fs0, e0, reg)
      c == luaK_concat(d.fs, d.e.t, d.e.info)
      fs == IF d.e.k = "VJMP" THEN c.fs ELSE d.fs
      e == IF d.e.k = "VJMP" THEN [d.e EXCEPT !.t = c.l] ELSE d.e
      needs == need_value(fs, e.t) \/ need_value(fs, e.f)
      b == IF needs THEN LoadBooleans(fs, e, reg)
           ELSE [fs |-> fs, p_f |-> NO_JUMP, p_t |-> NO_JUMP]
      final == pc(b.fs)
      g == patchlistaux(luaK_getlabel(b.fs), e.f, final, reg, b.p_f)
  IN InReg(IF hasjumps(e) THEN patchlistaux(g, e.t, final, reg, b.p_t) ELSE fs,
           [e EXCEPT !.f = NO_JUMP, !.t = NO_JUMP], reg)

luaK_exp2nextreg(fs, e) ==
  LET r == luaK_dischargevars(fs, e)
      g == luaK_reserveregs(freeexp(r.fs, r.e), 1)
  IN exp2reg(g, r.e, g.freereg - 1)

luaK_exp2anyreg(fs, e) ==
  LET r == luaK_dischargevars(fs, e)
  IN IF r.e.k = "VNONRELOC" /\ ~hasjumps(r.e) THEN r
     ELSE IF r.e.k = "VNONRELOC" /\ r.e.info >= nactvar(r.fs) THEN exp2reg(r.fs, r.e, r.e.info)
     ELSE luaK_exp2nextreg(r.fs, r.e)

luaK_exp2val(fs, e) == IF hasjumps(e) THEN luaK_exp2anyreg(fs, e) ELSE luaK_dischargevars(fs, e)

ConstantOf(e) == CASE e.k = "VNIL" -> Nil [] e.k = "VTRUE" -> True [] e.k = "VFALSE" -> False
                   [] OTHER -> e.info
(* The operand, a register or a constant, that holds e: [fs, e, rk].           *)
luaK_exp2RK(fs, e) ==
  LET r == luaK_exp2val(fs, e)
      k == addk(r.fs, ConstantOf(r.e))
      g == luaK_exp2anyreg(r.fs, r.e)
  IN IF r.e.k \in {"VKNUM", "VTRUE", "VFALSE", "VNIL"} /\ Len(r.fs.k) <= MAXINDEXRK
     THEN [fs |-> k.fs, e |-> [r.e EXCEPT !.k = "VK", !.info = k.i], rk |-> RKASK(k.i)]
     ELSE IF r.e.k = "VK" /\ r.e.info <= MAXINDEXRK
     THEN [fs |-> r.fs, e |-> r.e, rk |-> RKASK(r.e.info)]
     ELSE [fs |-> g.fs, e |-> g.e, rk |-> g.e.info]

luaK_storevar(fs, var, ex) ==
  LET r == luaK_exp2anyreg(fs, ex)
      rk == luaK_exp2RK(fs, ex)
  IN CASE var.k = "VLOCAL" -> exp2reg(freeexp(fs, ex), ex, var.info).fs
       [] var.k = "VUPVAL" -> freeexp(luaK_code(r.fs, "SETUPVAL", r.e.info, var.info, 0), r.e)
       [] var.k = "VGLOBAL" -> freeexp(luaK_code(r.fs, "SETGLOBAL", r.e.info, var.info, 0), r.e)
       [] var.k = "VINDEXED" ->
            freeexp(luaK_code(rk.fs, "SETTABLE", var.info, var.aux, rk.rk), rk.e)

luaK_self(fs, e, key) ==
  LET r == luaK_exp2anyreg(fs, e)
      g == luaK_reserveregs(freeexp(r.fs, r.e), 2)
      func == g.freereg - 2
      rk == luaK_exp2RK(g, key)
  IN InReg(freeexp(luaK_code(rk.fs, "SELF", func, r.e.info, rk.rk), rk.e), e, func)

luaK_indexed(fs, t, k) ==
  LET rk == luaK_exp2RK(fs, k) IN Pair(rk.fs, [t EXCEPT !.aux = rk.rk, !.k = "VINDEXED"])

--------------------------------------------------------------------------------
(* Operators.                                                                  *)

invertjump(fs, e) ==
  LET p == getjumpcontrol(fs, e.info)
  IN lua_assert([fs EXCEPT !.code[p + 1].a = 1 - @],
                testTMode(Code(fs, p).op) /\ Code(fs, p).op \notin {"TESTSET", "TEST"})

(* A test that jumps when e is cond; a "not" just coded is dropped: [fs, l].   *)
jumponcond(fs, e, cond) ==
  LET d == discharge2anyreg(fs, e)
      i == Code(fs, e.info)
  IN IF e.k = "VRELOCABLE" /\ i.op = "NOT"
     THEN condjump([fs EXCEPT !.code = Front(@)], "TEST", i.b, 0, 1 - cond)
     ELSE condjump(freeexp(d.fs, d.e), "TESTSET", NO_REG, d.e.info, cond)

luaK_goiftrue(fs, e) ==
  LET r == luaK_dischargevars(fs, e)
      j == CASE r.e.k \in {"VK", "VKNUM", "VTRUE"} -> [fs |-> r.fs, l |-> NO_JUMP]
             [] r.e.k = "VJMP" -> [fs |-> invertjump(r.fs, r.e), l |-> r.e.info]
             [] OTHER -> jumponcond(r.fs, r.e, 0)
      c == luaK_concat(j.fs, r.e.f, j.l)
  IN Pair(luaK_patchtohere(c.fs, r.e.t), [r.e EXCEPT !.f = c.l, !.t = NO_JUMP])

luaK_goiffalse(fs, e) ==
  LET r == luaK_dischargevars(fs, e)
      j == CASE r.e.k \in {"VNIL", "VFALSE"} -> [fs |-> r.fs, l |-> NO_JUMP]
             [] r.e.k = "VJMP" -> [fs |-> r.fs, l |-> r.e.info]
             [] OTHER -> jumponcond(r.fs, r.e, 1)
      c == luaK_concat(j.fs, r.e.t, j.l)
  IN Pair(luaK_patchtohere(c.fs, r.e.f), [r.e EXCEPT !.t = c.l, !.f = NO_JUMP])

codenot(fs, e) ==
  LET r == luaK_dischargevars(fs, e)
      d == discharge2anyreg(r.fs, r.e)
      n == CASE r.e.k \in {"VNIL", "VFALSE"} -> Pair(r.fs, [r.e EXCEPT !.k = "VTRUE"])
             [] r.e.k \in {"VK", "VKNUM", "VTRUE"} -> Pair(r.fs, [r.e EXCEPT !.k = "VFALSE"])
             [] r.e.k = "VJMP" -> Pair(invertjump(r.fs, r.e), r.e)
             [] OTHER -> Relocable(luaK_code(freeexp(d.fs, d.e), "NOT", 0, d.e.info, 0), d.e)
  IN Pair(removevalues(removevalues(n.fs, n.e.t), n.e.f),
          [n.e EXCEPT !.t = n.e.f, !.f = n.e.t])

(* Numerals are computed now, but nothing is divided by zero.                  *)
constfolding(op, e1, e2) ==
  /\ isnumeral(e1) /\ isnumeral(e2) /\ op \notin {"LEN", "CONCAT"}
  /\ ~(op \in {"DIV", "MOD"} /\ e2.info = Num(0))

codearith(fs, op, e1, e2) ==
  LET unary == op \in {"UNM", "LEN"}
      r2 == IF unary THEN [fs |-> fs, e |-> e2, rk |-> 0] ELSE luaK_exp2RK(fs, e2)
      r1 == luaK_exp2RK(r2.fs, e1)
      freed == IF r1.rk > r2.rk THEN freeexp(freeexp(r1.fs, r1.e), r2.e)
               ELSE freeexp(freeexp(r1.fs, r2.e), r1.e)
  IN IF constfolding(op, e1, e2)
     THEN Pair(fs, [e1 EXCEPT !.info = Applied(op, e1.info, IF unary THEN e1.info ELSE e2.info)])
     ELSE Relocable(luaK_code(freed, op, 0, r1.rk, r2.rk), r1.e)

(* a > b is b < a.                                                             *)
codecomp(fs, op, cond, e1, e2) ==
  LET r1 == luaK_exp2RK(fs, e1)
      r2 == luaK_exp2RK(r1.fs, e2)
      freed == freeexp(freeexp(r2.fs, r2.e), r1.e)
      j == IF cond = 0 /\ op # "EQ" THEN condjump(freed, op, 1, r2.rk, r1.rk)
           ELSE condjump(freed, op, cond, r1.rk, r2.rk)
  IN Pair(j.fs, [r1.e EXCEPT !.k = "VJMP", !.info = j.l])

luaK_prefix(fs, op, e) ==
  LET r == luaK_exp2anyreg(fs, e)
      zero == init_exp("VKNUM", Num(0))
  IN CASE op = "not" -> codenot(fs, e)
       [] op = "-" /\ isnumeral(e) -> codearith(fs, "UNM", e, zero)
       [] op = "-" /\ ~isnumeral(e) -> codearith(r.fs, "UNM", r.e, zero)
       [] op = "#" -> codearith(r.fs, "LEN", r.e, zero)

ArithOps == [op \in {"+", "-", "*", "/", "%", "^"} |->
               CASE op = "+" -> "ADD" [] op = "-" -> "SUB" [] op = "*" -> "MUL"
                 [] op = "/" -> "DIV" [] op = "%" -> "MOD" [] op = "^" -> "POW"]

luaK_infix(fs, op, v) ==
  LET rk == luaK_exp2RK(fs, v)
  IN CASE op = "and" -> luaK_goiftrue(fs, v)
       [] op = "or" -> luaK_goiffalse(fs, v)
       [] op = ".." -> luaK_exp2nextreg(fs, v)
       [] op \in DOMAIN ArithOps /\ isnumeral(v) -> Pair(fs, v)
       [] OTHER -> Pair(rk.fs, rk.e)

(* A concatenation takes over the one to its right.                            *)
JoinConcat(fs, e1, e2) ==
  LET g == lua_assert(fs, e1.info = Code(fs, e2.info).b - 1)
  IN Pair([freeexp(g, e1) EXCEPT !.code[e2.info + 1].b = e1.info],
          [e1 EXCEPT !.k = "VRELOCABLE", !.info = e2.info])

luaK_posfix(fs, op, e1, e2) ==
  LET r == luaK_dischargevars(fs, e2)
      and == luaK_concat(lua_assert(r.fs, e1.t = NO_JUMP), r.e.f, e1.f)
      or == luaK_concat(lua_assert(r.fs, e1.f = NO_JUMP), r.e.t, e1.t)
      v == luaK_exp2val(fs, e2)
      n == luaK_exp2nextreg(v.fs, v.e)
  IN CASE op = "and" -> Pair(and.fs, [r.e EXCEPT !.f = and.l])
       [] op = "or" -> Pair(or.fs, [r.e EXCEPT !.t = or.l])
       [] op = ".." ->
            IF v.e.k = "VRELOCABLE" /\ Code(v.fs, v.e.info).op = "CONCAT" THEN JoinConcat(v.fs, e1, v.e)
            ELSE codearith(n.fs, "CONCAT", e1, n.e)
       [] op \in DOMAIN ArithOps -> codearith(fs, ArithOps[op], e1, e2)
       [] op = "==" -> codecomp(fs, "EQ", 1, e1, e2)
       [] op = "~=" -> codecomp(fs, "EQ", 0, e1, e2)
       [] op = "<" -> codecomp(fs, "LT", 1, e1, e2)
       [] op = "<=" -> codecomp(fs, "LE", 1, e1, e2)
       [] op = ">" -> codecomp(fs, "LT", 0, e1, e2)
       [] op = ">=" -> codecomp(fs, "LE", 0, e1, e2)
================================================================================
