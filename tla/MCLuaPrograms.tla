----------------------------- MODULE MCLuaPrograms -----------------------------
(* The functions compiled and run: bodies around each kind of expression, with *)
(* the parameters a and b, the local variable c, the upvalue u and the globals *)
(* g and h, and the inputs they are run on.                                    *)
EXTENDS LuaMeaning

LOCAL N(n) == [tk |-> "name", n |-> n]
LOCAL Op(o) == [tk |-> "op", op |-> o]
LOCAL Lit(k) == [tk |-> k]
LOCAL Lit1(n) == [tk |-> "num", v |-> Num(n)]
LOCAL Paren(e) == [tk |-> "paren", e |-> e]
LOCAL IndexOf(p, k) == [tk |-> "index", p |-> p, key |-> k]
LOCAL CallTo(p, args) == [tk |-> "call", p |-> p, args |-> args]
LOCAL Method(p, n, args) == [tk |-> "method", p |-> p, n |-> n, args |-> args]
LOCAL Item(k, e) == [key |-> k, e |-> e]
LOCAL Constructor(items) == [tk |-> "table", items |-> items]
LOCAL StrTok == [tk |-> "str", v |-> Str("x")]
LOCAL Local(ns, es) == [s |-> "local", ns |-> ns, es |-> es]
LOCAL Asg(vs, es) == [s |-> "assign", vars |-> vs, es |-> es]
LOCAL Ret(es) == [s |-> "return", es |-> es]
LOCAL IfThen(conds, blocks) == [s |-> "if", conds |-> conds, blocks |-> blocks]
LOCAL BreakIf(e) == IfThen(<<e>>, << << [s |-> "break"] >> >>)
LOCAL While(e, b) == [s |-> "while", c |-> e, b |-> b]
LOCAL Repeat(b, e) == [s |-> "repeat", b |-> b, c |-> e]
LOCAL SetH(e) == Asg(<<N("h")>>, <<e>>)

LOCAL VA == N("a")
LOCAL VB == N("b")
LOCAL VG == N("g")
LOCAL EA == <<VA>>
LOCAL EB == <<VB>>
LOCAL EC == <<N("c")>>
LOCAL EG == <<VG>>
LOCAL E1 == <<Lit1(1)>>
LOCAL Dots == <<Lit("dots")>>
LOCAL CallG == <<CallTo(VG, <<>>)>>

LOCAL Bin(X, ops, Y) == {x \o <<Op(o)>> \o y : x \in X, o \in ops, y \in Y}
LOCAL Un(ops, X) == {<<Op(o)>> \o x : o \in ops, x \in X}
LOCAL Parens(X) == {<<Paren(x)>> : x \in X}

\* Expressions: one operand, two, three with all that priorities can do, and
\* conditions of conditions.
LOCAL Atoms == {EA, EG, E1, <<Lit("nil")>>, <<Lit("true")>>}
LOCAL Unops == {"not", "-", "#"}
LOCAL Two == Bin(Atoms, {"and", "or", "==", "<", ">", "..", "+"}, Atoms) \cup Un(Unops, Atoms)
LOCAL Logic == Bin({EA}, {"and", "or", "<"}, {EB, EG})
LOCAL Three ==
  Bin({EA}, {"and", "or", "==", ">", "..", "+", "^"},
      Bin({EB, E1}, {"and", "or", "~=", "<=", "..", "-", "*", "^"}, {EG, <<Lit("false")>>}))
  \cup Un({"not", "-"}, Bin({EA}, {"^", "..", "and", "=="}, {EB}))
LOCAL Conditions ==
  LET X == Parens(Logic) \cup Un({"not"}, Parens(Logic))
  IN Bin(X, {"and", "or", "=="}, X) \cup Un({"not"}, Parens(Bin(X, {"and", "or"}, Parens(Logic))))

\* Calls, indexes, constructors and "...", alone and as operands.
LOCAL Primaries ==
  { CallG, <<CallTo(VG, <<EA, <<CallTo(VA, <<>>)>>>>)>>, <<Method(VB, "x", <<Dots>>)>>,
    <<IndexOf(VA, EB)>>, <<IndexOf(IndexOf(VG, <<StrTok>>), <<Lit1(1), Op("+"), Lit1(1)>>)>>,
    Dots, <<N("u")>>, <<Paren(Dots)>>, <<Paren(CallG)>>, <<Constructor(<<>>)>>,
    <<Constructor(<<Item(<<>>, EA), Item(<<StrTok>>, EG), Item(<<>>, EB), Item(<<>>, E1), Item(<<>>, Dots)>>)>>,
    <<Constructor(<<Item(<<>>, CallG), Item(EB, <<VA, Op("and"), VB>>)>>)>> }
LOCAL Exprs == Atoms \cup Two \cup Three \cup Conditions \cup Primaries
               \cup Bin(Primaries, {"and", "..", "=="}, Primaries \cup {EA}) \cup Un(Unops, Primaries)

\* An expression as a value and as a condition.
LOCAL Uses(e) ==
  { <<Local(<<"c">>, <<e>>), Ret(<<EC, EA>>)>>,
    <<Asg(<<VB>>, <<e>>), Ret(<<e>>)>>,
    <<IfThen(<<e, EG>>, << <<SetH(<<Lit1(1)>>)>>, <<SetH(<<Lit1(2)>>)>>, <<SetH(<<Lit1(3)>>)>> >>)>> }
LOCAL MoreUses(e) ==
  { <<SetH(e), Asg(<<IndexOf(VA, EB)>>, <<e>>), Asg(<<N("u")>>, <<e>>)>>,
    <<Repeat(<<Local(<<"c">>, <<CallG>>), BreakIf(<<Op("not"), N("c")>>), SetH(<<Lit1(4)>>)>>, e)>>,
    <<While(e, <<Asg(<<VA, VB>>, << <<Lit("nil")>>, CallG >>),
                 IfThen(<< <<Op("not"), Paren(<<VB, Op("or"), VA>>)>> >>,
                    << <<[s |-> "break"]>>, <<SetH(<<Lit1(5)>>)>> >>)>>),
      Ret(<<EA, EB>>)>>,
    <<Local(<<"c", "d">>, <<e>>), Local(<<"k">>, <<>>), Ret(<<EC, <<N("d")>>, <<N("k")>>>>)>>,
    <<Local(<<"c">>, <<>>),
      Repeat(<<Local(<<"d">>, <<>>), SetH(<<N("d")>>), Asg(<<N("d"), N("c")>>, <<E1, CallG>>)>>,
             e \o <<Op("or"), Op("not"), N("c")>>)>> }

\* Assignments to several variables, which use one another, of lists that are
\* too short or too long, and loops over such lists.
LOCAL Lists == { <<EA, EB>>, <<EB, EA, EG>>, <<E1>>, <<CallG>>, <<EB, Dots>>,
                 << <<VA, Op("and"), VB>>, <<VB, Op("<"), VA>> >> }
LOCAL Places == {VA, VB, VG, N("u"), IndexOf(VA, EB), IndexOf(VB, EA), IndexOf(VG, <<StrTok>>), IndexOf(VA, E1)}
LOCAL Targets == (Places \X Places) \cup ({IndexOf(VA, EB), VA} \X Places \X {VB, IndexOf(VB, EA)})
LOCAL Assignments == {<<Local(<<"c">>, <<EA>>), Asg(vs, l), Ret(<<EC, EA, EB>>)>> : vs \in Targets, l \in Lists}

LOCAL Ranges == { <<E1, <<Lit1(3)>>>>, << <<Lit1(3)>>, E1, <<Op("-"), Lit1(1)>> >>, <<EA, EB>>,
                  << <<Lit1(2)>>, E1, <<Lit1(-1)>> >> }
LOCAL Loops ==
  { <<[s |-> "fornum", n |-> "i", es |-> es,
       b |-> <<Local(<<"d">>, << <<N("i"), Op(".."), VB>> >>), SetH(<<N("d")>>), BreakIf(<<N("i"), Op("=="), VA>>)>>],
      Ret(<<EA>>)>> : es \in Ranges }
  \cup
  { <<[s |-> "forlist", ns |-> ns, es |-> es,
       b |-> <<[s |-> "call", e |-> CallTo(VG, << <<N("i")>>, EB >>)], BreakIf(<<N("i"), Op(">"), VA>>)>>],
      Ret(<<EA, <<CallTo(VB, <<EA>>)>>>>)>> : ns \in {<<"i">>, <<"i", "j">>}, es \in Lists }

MCPrograms ==
  [params : {<<"a", "b">>},
   block : UNION ({Uses(e) : e \in Exprs}
                  \cup {MoreUses(e) : e \in Atoms \cup Logic \cup Parens(Logic) \cup Primaries \cup Un(Unops, Atoms)})
           \cup Assignments \cup Loops]

MCCompiled == LET Code1(p) == luaY_parser(p.params, p.block) IN [p \in MCPrograms |-> Code1(p)]

LOCAL Input(args, u, varargs, seed) == [args |-> args, up |-> <<u>>, varargs |-> varargs, seed |-> seed]
MCInputs == { Input(<<Nil, False>>, Num(5), <<Num(1), Nil>>, 0),
              Input(<<Nil, Num(2)>>, Nil, <<>>, 1),
              Input(<<Num(1), False>>, False, <<Num(1)>>, 0),
              Input(<<Num(1), Num(2)>>, Num(5), <<False, Num(3), Nil>>, 1) }
MCNames == <<"g", "h", "x">>
MCUpvalues == <<"u">>
================================================================================
