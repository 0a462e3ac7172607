--------------------------------- MODULE JnLua ---------------------------------
(* The native methods of com.naef.jnlua.LuaState (jnlua.c) as programs on the *)
(* Lua stack: the checks each makes, the calls to the API (LuaApi) that move  *)
(* its operands, and the function it runs protected in a frame of its own.    *)
(* One step takes one native method from one stack to its result.             *)
EXTENDS LuaApi

CONSTANTS
  Stacks,     \* the types of the values on the stacks tried
  Indexes,    \* the stack indexes passed
  Counts      \* the counts passed

VARIABLES
  call,     \* the native method called: [f, a, s]: name, arguments, frame before
  after     \* the frame after it, or before it has run: call.s

nativeVars == <<call, after>>

-----------------------------------------------------------------------------
(* Checks: a step that fails throws a Java exception and ends the program *)

Check(s, holds, class) == IF holds THEN s ELSE [s EXCEPT !.exc = class]

\* validindex accepts every index: its body is commented out.
validindex(s, i) == TRUE
checkstack(s, n) == LET r == lua_checkstack(s, n) IN Check(r, r.ret = 1, "IllegalStateException")
checkrealindex(s, i) == Check(s, (IF i > 0 THEN i ELSE Top(s) + i + 1) \in 1 .. Top(s),
                              "IllegalArgumentException")
checktype(s, i, type) ==
  Check([s EXCEPT !.legal = @ /\ LegalIndex(s, i)], validindex(s, i) /\ TypeAt(s, i) \in type,
        "IllegalArgumentException")
checknelems(s, n) == Check(s, Top(s) >= n, "IllegalStateException")

Checks == {"checkstack", "checkindex", "checkrealindex", "checktype", "checknelems", "checkarg",
           "checkstate", "checknotnull"}
DoCheck(s, op) ==
  CASE op[1] = "checkstack"     -> checkstack(s, op[2])
    [] op[1] = "checkindex"     -> Check(s, validindex(s, op[2]), "IllegalArgumentException")
    [] op[1] = "checkrealindex" -> checkrealindex(s, op[2])
    [] op[1] = "checktype"      -> checktype(s, op[2], op[3])
    [] op[1] = "checknelems"    -> checknelems(s, op[2])
    [] op[1] = "checkarg"       -> Check(s, op[2], "IllegalArgumentException")
    [] op[1] = "checkstate"     -> Check(s, op[2], "IllegalStateException")
    [] op[1] = "checknotnull"   -> Check(s, s.oc # "null", "NullPointerException")

-----------------------------------------------------------------------------
(* Java objects on the stack *)

\* A full userdata with the metatable of Java objects has a global reference.
pushjavaobject(s) == MayRaise(s, Push(s, "javaobject"))
pushlightjavaobject(s) == Push(s, "light")
newjavaobject(s) == Push(s, "userdata")
tojavaobject(s, i) == Returns([s EXCEPT !.legal = @ /\ LegalIndex(s, i)], Bit(TypeAt(s, i) = "javaobject"))
\* The block of the userdata is read without a test that there is one.
tolightjavaobject(s, i) ==
  Returns([s EXCEPT !.legal = @ /\ TypeAt(s, i) \in {"userdata", "javaobject"}], 1)

ObjectOps == {"pushjavaobject", "pushlightjavaobject", "newjavaobject", "tojavaobject", "tolightjavaobject"}
ObjectOp(s, op) == CASE op[1] = "pushjavaobject"      -> pushjavaobject(s)
                     [] op[1] = "pushlightjavaobject" -> pushlightjavaobject(s)
                     [] op[1] = "newjavaobject"       -> newjavaobject(s)
                     [] op[1] = "tojavaobject"        -> tojavaobject(s, op[2])
                     [] op[1] = "tolightjavaobject"   -> tolightjavaobject(s, op[2])

\* The functions of lauxlib the natives use, by their effect on the stack.
AuxOps == {"luaL_newmetatable", "luaL_findtable", "luaL_getmetafield", "luaL_ref", "luaL_unref", "luaL_error",
           "lua_getinfo"}
AuxOp(s, op) ==
  CASE op[1] = "luaL_newmetatable" -> Push(s, "table")
    [] op[1] = "luaL_findtable"    -> IF s.oc = "absent" THEN Returns(s, 1) ELSE Returns(Push(s, "table"), 0)
    [] op[1] = "luaL_getmetafield" -> IF s.oc = "absent" THEN Returns(s, 0) ELSE Returns(Push(s, "value"), 1)
    [] op[1] = "luaL_ref"          -> Returns(PopPush(s, TypeAt(s, op[2]) = "table", 1, 1, <<>>), 1)
    [] op[1] = "luaL_unref"        -> [s EXCEPT !.legal = @ /\ TypeAt(s, op[2]) = "table"]
    [] op[1] = "luaL_error"        -> [Push(s, "string") EXCEPT !.raised = TRUE]
    [] op[1] = "lua_getinfo"       -> s

-----------------------------------------------------------------------------
(* Programs *)

ApiStep(s, op) ==
  CASE op[1] \in StackApi   -> StackCall(s, op[1], op[2])
    [] op[1] \in AccessApi  -> AccessCall(s, op[1], op[2], op[Len(op)])
    [] op[1] \in PushApi    -> PushCall(s, op[1], op[Len(op)])
    [] op[1] \in GetApi     -> GetCall(s, op[1], op[Len(op)])
    [] op[1] \in SetApi     -> SetCall(s, op[1], op[2])
    [] op[1] \in MiscApi    -> MiscCall(s, op[1], op[Len(op)])
    [] op[1] \in UpvalueApi -> UpvalueCall(s, op[1], op[2])
    [] op[1] \in AuxOps     -> AuxOp(s, op)
    [] op[1] \in ObjectOps  -> ObjectOp(s, op)
    [] op[1] = "lua_call"   -> lua_call(s, op[2], op[3])

Stopped(s) == ~s.legal \/ s.raised \/ s.exc # "none"

RunBody(s, body) == FoldLeft(LAMBDA x, op : IF Stopped(x) THEN x ELSE ApiStep(x, op), s, body)

\* throw: the message is on top of the stack; throw_protected takes it.
throw(s) ==
  LET r == checkstack(s, LUA_MINSTACK)
  IN  IF r.exc # "none" THEN r
      ELSE [PopPush(r, TRUE, 1, 1, <<>>) EXCEPT !.exc = "LuaRuntimeException"]

\* JNLUA_PCALL of the function below the top n values: body runs on these
\* alone and returns its top ret values; what it raises becomes an exception.
Protected(n, nres, body, ret) == <<"protected", n, nres, body, ret>>
JNLUA_PCALL(s, n, nres, body, ret) ==
  IF ~CanCall(s, n, nres) THEN [s EXCEPT !.legal = FALSE]
  ELSE LET b == RunBody(Callee(s, n), body)
           legal == b.legal /\ (b.raised \/ Top(b) >= ret)
                            /\ s.stack[Top(s) - n] = New("cfunction")
       IN  IF ~legal THEN [s EXCEPT !.legal = FALSE]
           ELSE IF b.raised \/ s.oc = "error" THEN throw(Failed(s, n, legal))
           ELSE [Returned(s, n, nres, SubSeq(b.stack, Top(b) - ret + 1, Top(b)), legal)
                   EXCEPT !.ret = b.ret]

\* lua_pcall with the message handler inserted below the function at index.
CallWithHandler(s, index, n, nres) ==
  LET called == lua_pcall(StackCall(PushCall(s, "lua_pushcclosure", 0), "lua_insert", index), n, nres)
      removed == StackCall(called, "lua_remove", index)
  IN  IF ~called.legal THEN called ELSE IF called.ret = 0 THEN removed ELSE throw(removed)

\* lua_resume with the top n values. An error's message is on the coroutine's
\* stack, but throw takes the top of this one.
Resume(s, n) ==
  LET moved   == lua_xmove(s, n, TRUE)
      results == IF s.oc = "absent" THEN <<>> ELSE <<New("value")>>
      room    == checkstack([moved EXCEPT !.co = results], Len(results))
  IN  IF s.oc = "error" THEN throw([moved EXCEPT !.co = <<New("message")>>])
      ELSE Returns(IF room.exc = "none" THEN lua_xmove(room, Len(results), FALSE) ELSE room, Len(results))

Step(s, op) ==
  CASE op[1] \in Checks    -> DoCheck(s, op)
    [] op[1] = "protected" -> JNLUA_PCALL(s, op[2], op[3], op[4], op[5])
    [] op[1] = "pcall"     -> CallWithHandler(s, op[2], op[3], op[4])
    [] op[1] = "resume"    -> Resume(s, op[2])
    [] op[1] = "load"      -> LET l == lua_load(s) IN IF l.ret = 0 THEN l ELSE throw(l)
    [] op[1] = "dump"      -> lua_dump(s)
    [] op[1] = "yield"     -> Returns([s EXCEPT !.stack = SubSeq(@, Top(s) - op[2] + 1, Top(s))], -1)
    [] op[1] = "returns"   -> Returns(s, op[2])
    [] op[1] = "istype"    -> Returns([s EXCEPT !.legal = @ /\ LegalIndex(s, op[2])],
                                      Bit(TypeAt(s, op[2]) \in op[3]))
    [] OTHER               -> ApiStep(s, op)
Run(s, program) == FoldLeft(LAMBDA x, op : IF Stopped(x) THEN x ELSE Step(x, op), s, program)

lua_absindex(s, i) == IF i > 0 \/ IsPseudo(i) THEN i ELSE Top(s) + i + 1
lua_pushcfunction == <<"lua_pushcclosure", 0>>
MinStack == <<"checkstack", LUA_MINSTACK>>
\* The shapes of the calls: nothing, a copy of the value at index, or that copy
\* below the top k values, which pass over it by insertion.
Calls0(nres, body, ret) == <<lua_pushcfunction, Protected(0, nres, body, ret)>>
CallsOn(i, nres, body, ret) ==
  <<lua_pushcfunction, <<"lua_pushvalue", i>>, Protected(1, nres, body, ret)>>
CallsWith(i, k, nres, body, ret) ==
  <<lua_pushcfunction, <<"lua_insert", -k - 1>>, <<"lua_pushvalue", i>>, <<"lua_insert", -k - 1>>,
    Protected(k + 1, nres, body, ret)>>
\* Fault: the copy stays on top of the operands.
CallsWithOnTop(i, k, nres, body, ret) ==
  <<lua_pushcfunction, <<"lua_insert", -k - 1>>, <<"lua_pushvalue", i>>, Protected(k + 1, nres, body, ret)>>
CallsWithTop(i, k, nres, body, ret) == CallsWith(i, k, nres, body, ret)

\* In what follows a has the arguments: indexes i and j, a count n; x is the
\* index made absolute before anything is pushed.
LifeNatives == {"newstate", "close", "gc"}
LifeNative(f, a) ==
  CASE f = "newstate" -> <<MinStack>> \o Calls0(1,
         <<<<"lua_newuserdata">>, <<"lua_createtable">>, <<"lua_pushboolean">>, <<"lua_pushcclosure", 1>>,
           <<"lua_setfield", -2>>, <<"lua_setmetatable", -2>>, <<"lua_setfield", LUA_REGISTRYINDEX>>,
           <<"luaL_newmetatable">>, <<"lua_pushboolean">>, <<"lua_setfield", -2>>, <<"lua_pushboolean">>,
           <<"lua_pushcclosure", 1>>, <<"lua_setfield", -2>>>>, 1)
    [] f = "close"    -> <<MinStack>> \o Calls0(0, <<<<"lua_pushnil">>, <<"lua_setfield", LUA_REGISTRYINDEX>>>>, 0)
    [] f = "gc"       -> <<MinStack>> \o Calls0(0, <<<<"lua_gc">>>>, 0)

\* Libraries 0 to 7 are functions to call; 8 goes into package.preload.
openlib(a) ==
  <<MinStack, <<"checkarg", a.n \in 0 .. 8>>>> \o
  Calls0(0, IF a.n = 8
            THEN <<<<"lua_getfield", LUA_GLOBALSINDEX>>, <<"lua_getfield", -1>>, <<"lua_pushcclosure", 0>>,
                   <<"lua_setfield", -2>>, <<"lua_settop", -3>>>>
            ELSE <<<<"lua_pushcclosure", 0>>, <<"lua_pushstring">>, <<"lua_call", 1, 0>>>>, 0)

LoadNatives == {"openlib", "load", "dump", "pcall", "getglobal", "setglobal"}
LoadNative(f, s, a) ==
  CASE f = "openlib"   -> openlib(a)
    [] f = "load"      -> <<MinStack, <<"checknotnull">>, <<"load">>>>
    [] f = "dump"      -> <<MinStack, <<"checknelems", 1>>, <<"dump">>>>
    [] f = "pcall"     -> <<<<"checkarg", a.n >= 0>>, <<"checknelems", a.n + 1>>,
                            <<"checkarg", a.j >= 0 \/ a.j = LUA_MULTRET>>,
                            <<"checkstack", IF a.j = LUA_MULTRET THEN 0 ELSE a.j - (a.n + 1)>>,
                            <<"pcall", lua_absindex(s, -a.n - 1), a.n, a.j>>>>
    [] f = "getglobal" -> <<MinStack, <<"checknotnull">>>> \o
                          Calls0(1, <<<<"lua_getfield", LUA_GLOBALSINDEX>>>>, 1)
    [] f = "setglobal" -> <<MinStack, <<"checknelems", 1>>, <<"checknotnull">>, lua_pushcfunction,
                            <<"lua_insert", -2>>, Protected(1, 0, <<<<"lua_setfield", LUA_GLOBALSINDEX>>>>, 0)>>

\* Values that are pushed without memory being needed, and the others.
PushPlainNatives == {"pushlightuserdata", "newjavaobject", "pushnil", "pushnumber"}
PushPlainNative(f) ==
  CASE f = "pushlightuserdata" -> <<MinStack, <<"checknotnull">>, <<"lua_pushlightuserdata">>>>
    [] f = "newjavaobject"     -> <<MinStack, <<"checknotnull">>, <<"newjavaobject">>>>
    [] f = "pushnil"           -> <<MinStack, <<"lua_pushnil">>>>
    [] f = "pushnumber"        -> <<MinStack, <<"lua_pushnumber">>>>

PushNatives == {"pushboolean", "pushinteger", "pushbytearray", "pushstring", "pushjavafunction",
                "pushjavaclosure", "pushjavaobject", "pushlightjavaobject"}
PushNative(f, a) ==
  LET notnull == <<MinStack, <<"checknotnull">>>>
      closure == <<<<"pushjavaobject">>, <<"lua_pushcclosure", 1>>>> IN
  CASE f = "pushboolean"         -> <<MinStack, <<"lua_pushboolean">>>>
    [] f = "pushinteger"         -> <<MinStack, <<"lua_pushinteger">>>>
    [] f \in {"pushbytearray", "pushstring"} -> notnull \o Calls0(1, <<<<"lua_pushlstring">>>>, 1)
    [] f = "pushjavafunction"    -> notnull \o Calls0(1, closure, 1)
    [] f = "pushjavaclosure"     -> notnull \o <<<<"lua_pushcclosure", a.n>>, Protected(0, 1, closure, 1)>>
    [] f = "pushjavaobject"      -> notnull \o Calls0(1, <<<<"pushjavaobject">>>>, 1)
    [] f = "pushlightjavaobject" -> notnull \o Calls0(1, <<<<"pushlightjavaobject">>>>, 1)

TypesOf == ("isboolean" :> {"boolean"}) @@ ("iscfunction" :> {"cfunction"})
  @@ ("isfunction" :> {"function", "cfunction", "javafunction"}) @@ ("isjavafunction" :> {"javafunction"})
  @@ ("isnil" :> {"nil"}) @@ ("isnoneornil" :> {"nil"}) @@ ("isnumber" :> {"number", "numeral"})
  @@ ("isstring" :> {"number", "numeral", "string"}) @@ ("istable" :> {"table"}) @@ ("isthread" :> {"thread"})
TestNatives == DOMAIN TypesOf \cup {"isjavaobject", "isnone"}
TestNative(f, s, a) ==
  CASE f = "isnone"       -> <<<<"returns", Bit(~validindex(s, a.i))>>>>
    [] f = "isjavaobject" -> <<MinStack>> \o CallsOn(lua_absindex(s, a.i), 0, <<<<"tojavaobject", 1>>>>, 0)
    [] OTHER              -> <<<<"istype", a.i, TypesOf[f]>>>>

\* What is only looked at, and what may run metamethods or need memory and is
\* therefore copied for a function that runs protected.
Reads(g, i) == <<<<"checkindex", i>>, <<g, i>>>>
OnCopy(s, i, body) == <<MinStack, <<"checkindex", i>>>> \o CallsOn(lua_absindex(s, i), 0, body, 0)

CompareNatives == {"equal", "lessthan", "rawequal", "objlen"}
CompareNative(f, s, a) ==
  LET both(g) == <<MinStack, lua_pushcfunction, <<"lua_pushvalue", lua_absindex(s, a.i)>>,
                   <<"lua_pushvalue", lua_absindex(s, a.j)>>, Protected(2, 0, <<<<g, 1, 2>>>>, 0)>>
  IN CASE f = "equal"    -> both("lua_equal")
       [] f = "lessthan" -> both("lua_lessthan")
       [] f = "rawequal" -> <<<<"checkindex", a.i>>, <<"checkindex", a.j>>, <<"lua_rawequal", a.i, a.j>>>>
       [] f = "objlen"   -> Reads("lua_objlen", a.i)

ToNatives == {"toboolean", "tobytearray", "tointeger", "tojavafunction", "tojavaobject",
              "tolightjavaobject", "touserdata"}
ToNative(f, s, a) ==
  CASE f = "toboolean"         -> Reads("lua_toboolean", a.i)
    [] f = "tobytearray"       -> OnCopy(s, a.i, <<<<"lua_tolstring", 1>>>>)
    [] f = "tointeger"         -> Reads("lua_tonumber", a.i)
    [] f = "tojavafunction"    -> OnCopy(s, a.i, IF TypeAt(s, a.i) = "javafunction"
                                                 THEN <<<<"lua_getupvalue", 1>>>> ELSE <<>>)
    [] f = "tojavaobject"      -> OnCopy(s, a.i, <<<<"tojavaobject", 1>>>>)
    [] f = "tolightjavaobject" -> OnCopy(s, a.i, <<<<"tolightjavaobject", 1>>>>)
    [] f = "touserdata"        -> <<MinStack, <<"checkindex", a.i>>, <<"tolightjavaobject", a.i>>>>

ReadNatives == {"tonumber", "topointer", "tostring", "type"}
ReadNative(f, s, a) ==
  CASE f = "tonumber"  -> Reads("lua_tonumber", a.i)
    [] f = "topointer" -> Reads("lua_topointer", a.i)
    [] f = "tostring"  -> OnCopy(s, a.i, <<<<"lua_tolstring", 1>>>>)
    [] f = "type"      -> <<<<"lua_type", a.i>>>>

StackNatives == {"concat", "gettop", "insert", "pop", "pushvalue", "remove", "replace", "settop"}
StackNative(f, s, a) ==
  CASE f = "concat"    -> <<MinStack, <<"checkarg", a.n >= 0>>, <<"checknelems", a.n>>, lua_pushcfunction,
                            <<"lua_insert", -a.n - 1>>, Protected(a.n, 1, <<<<"lua_concat", a.n>>>>, 1)>>
    [] f = "gettop"    -> <<<<"returns", Top(s)>>>>
    [] f = "insert"    -> <<<<"checkrealindex", a.i>>, <<"lua_insert", a.i>>>>
    [] f = "pop"       -> <<<<"checkarg", a.n \in 0 .. Top(s)>>, <<"lua_settop", -a.n - 1>>>>
    [] f = "pushvalue" -> <<MinStack, <<"checkindex", a.i>>, <<"lua_pushvalue", a.i>>>>
    [] f = "remove"    -> <<<<"checkrealindex", a.i>>, <<"lua_remove", a.i>>>>
    [] f = "replace"   -> <<<<"checkindex", a.i>>, <<"checknelems", 1>>, <<"lua_replace", a.i>>>>
    [] f = "settop"    -> <<IF a.i < 0 THEN <<"checkrealindex", a.i>>
                            ELSE <<"checkstack", a.i - Top(s)>>, <<"lua_settop", a.i>>>>

\* Most natives on a table check first that there is one.
OnTable(a) == <<MinStack, <<"checktype", a.i, {"table"}>>>>

GetNatives == {"createtable", "newtable", "findtable", "getfield", "gettable", "next", "rawget", "rawgeti"}
GetNative(f, s, a) ==
  LET x == lua_absindex(s, a.i)
      found(n) == IF s.oc = "absent" THEN 0 ELSE n
  IN CASE f = "createtable" -> <<MinStack, <<"checkarg", a.n >= 0>>>> \o Calls0(1, <<<<"lua_createtable">>>>, 1)
       [] f = "newtable"    -> <<MinStack>> \o Calls0(1, <<<<"lua_createtable">>>>, 1)
       [] f = "findtable"   -> <<MinStack, <<"checkindex", a.i>>, <<"checknotnull">>, <<"checkarg", a.n >= 0>>>>
                               \o CallsOn(x, LUA_MULTRET, <<<<"luaL_findtable", 1>>>>, found(1))
       [] f = "getfield"    -> OnTable(a) \o <<<<"checknotnull">>>> \o CallsOn(x, 1, <<<<"lua_getfield", 1>>>>, 1)
       [] f = "gettable"    -> OnTable(a) \o CallsWithTop(x, 1, 1, <<<<"lua_gettable", 1>>>>, 1)
       [] f = "next"        -> OnTable(a) \o CallsWithTop(x, 1, LUA_MULTRET, <<<<"lua_next", 1>>>>, found(2))
       [] f = "rawget"      -> <<<<"checktype", a.i, {"table"}>>, <<"lua_rawget", a.i>>>>
       [] f = "rawgeti"     -> OnTable(a) \o <<<<"lua_rawgeti", a.i>>>>

SetNatives == {"rawset", "rawseti", "settable", "setfield"}
SetNative(f, s, a) ==
  LET x == lua_absindex(s, a.i) IN
  CASE f = "rawset"   -> OnTable(a) \o <<<<"checknelems", 2>>>> \o CallsWithTop(x, 2, 0, <<<<"lua_rawset", 1>>>>, 0)
    [] f = "rawseti"  -> OnTable(a) \o CallsWithTop(x, 1, 0, <<<<"lua_rawseti", 1>>>>, 0)
    [] f = "settable" -> OnTable(a) \o <<<<"checknelems", 2>>>> \o CallsWithTop(x, 2, 0, <<<<"lua_settable", 1>>>>, 0)
    [] f = "setfield" -> OnTable(a) \o <<<<"checknotnull">>>> \o CallsWithTop(x, 1, 0, <<<<"lua_setfield", 1>>>>, 0)

MetaNatives == {"getmetatable", "setmetatable", "getmetafield", "getfenv", "setfenv"}
\* getmetatable reports a full stack as no metatable.
MetaNative(f, s, a) ==
  CASE f = "getmetatable" -> IF lua_checkstack(s, LUA_MINSTACK).ret = 0 THEN <<<<"returns", 0>>>>
                             ELSE <<MinStack, <<"checkindex", a.i>>, <<"lua_getmetatable", a.i>>>>
    [] f = "setmetatable" -> <<<<"checkindex", a.i>>, <<"checknelems", 1>>,
                               <<"checkarg", TypeAt(s, -1) \in {"table", "nil"}>>, <<"lua_setmetatable", a.i>>>>
    [] f = "getmetafield" -> <<MinStack, <<"checkindex", a.i>>, <<"checknotnull">>>>
                             \o CallsOn(lua_absindex(s, a.i), LUA_MULTRET, <<<<"luaL_getmetafield", 1>>>>,
                                        IF s.oc = "absent" THEN 0 ELSE 1)
    [] f = "getfenv"      -> <<MinStack, <<"checkindex", a.i>>, <<"lua_getfenv", a.i>>>>
    [] f = "setfenv"      -> <<<<"checkindex", a.i>>, <<"checktype", -1, {"table"}>>, <<"lua_setfenv", a.i>>>>

ThreadNatives == {"newthread", "resume", "status", "yield"}
\* The new thread goes below its function, which then moves to its stack.
ThreadNative(f, a) ==
  CASE f = "newthread" -> <<MinStack, <<"checktype", -1, {"function", "cfunction", "javafunction"}>>,
                            lua_pushcfunction, <<"lua_insert", -2>>,
                            Protected(1, 1, <<<<"lua_pushthread">>, <<"lua_insert", 1>>, <<"lua_settop", -2>>>>, 1)>>
    [] f = "resume"    -> <<<<"checktype", a.i, {"thread"}>>, <<"checkarg", a.n >= 0>>,
                            <<"checknelems", a.n + 1>>, <<"resume", a.n>>>>
    [] f = "status"    -> <<<<"checktype", a.i, {"thread"}>>, <<"returns", 0>>>>
    [] f = "yield"     -> <<<<"checkarg", a.n >= 0>>, <<"checknelems", a.n>>, <<"yield", a.n>>>>

RefNatives == {"ref", "unref", "funcname", "narg"}
RefNative(f, s, a) ==
  LET x == lua_absindex(s, a.i) IN
  CASE f = "ref"   -> OnTable(a) \o CallsWithTop(x, 1, 0, <<<<"luaL_ref", 1>>>>, 0)
    [] f = "unref" -> OnTable(a) \o CallsOn(x, 0, <<<<"luaL_unref", 1>>>>, 0)
    [] f \in {"funcname", "narg"} -> <<MinStack>> \o Calls0(0, <<<<"lua_getinfo">>>>, 0)

SizeNatives == {"tablesize", "tablemove", "luaL_error"}
SizeNative(f, s, a) ==
  LET x == lua_absindex(s, a.i)
      counted == IF s.oc = "absent" THEN <<>> ELSE <<<<"lua_next", -2>>, <<"lua_settop", -3>>>>
      move == <<<<"lua_rawgeti", 1>>, <<"lua_rawseti", 1>>>>
  IN CASE f = "tablesize"  -> OnTable(a) \o CallsOn(x, 0, <<<<"lua_pushnil">>>> \o counted, 0)
       [] f = "tablemove"  -> OnTable(a) \o <<<<"checkarg", a.n >= 0>>>>
                              \o CallsOn(x, 0, IF a.n <= 0 THEN <<>> ELSE move, 0)
       [] f = "luaL_error" -> <<MinStack, <<"checknotnull">>>> \o Calls0(1, <<<<"luaL_error">>>>, 1)

\* They read a table's nodes through addresses; the stack is only checked.
ValueNatives == {"hvaluew", "sizenodew", "gnodew", "key2tvalw", "ttypew", "svaluew", "nvaluew", "pvaluew",
                 "luaH_getw"}

Natives == LifeNatives \cup LoadNatives \cup PushPlainNatives \cup PushNatives \cup TestNatives
           \cup CompareNatives \cup ToNatives \cup ReadNatives \cup StackNatives \cup GetNatives \cup SetNatives
           \cup MetaNatives \cup ThreadNatives \cup RefNatives \cup SizeNatives \cup ValueNatives
Program(f, s, a) ==
  CASE f \in LifeNatives      -> LifeNative(f, a)
    [] f \in LoadNatives      -> LoadNative(f, s, a)
    [] f \in PushPlainNatives -> PushPlainNative(f)
    [] f \in PushNatives      -> PushNative(f, a)
    [] f \in TestNatives      -> TestNative(f, s, a)
    [] f \in CompareNatives   -> CompareNative(f, s, a)
    [] f \in ToNatives        -> ToNative(f, s, a)
    [] f \in ReadNatives      -> ReadNative(f, s, a)
    [] f \in StackNatives     -> StackNative(f, s, a)
    [] f \in GetNatives       -> GetNative(f, s, a)
    [] f \in SetNatives       -> SetNative(f, s, a)
    [] f \in MetaNatives      -> MetaNative(f, s, a)
    [] f \in ThreadNatives    -> ThreadNative(f, a)
    [] f \in RefNatives       -> RefNative(f, s, a)
    [] f \in SizeNatives      -> SizeNative(f, s, a)
    [] f \in ValueNatives     -> <<MinStack>>

\* tablemove_protected: the elements in the order that spares those still to move.
tablemove_protected(arr, from, to, count) ==
  LET order == IF from < to THEN Reverse([k \in 1 .. count |-> k]) ELSE [k \in 1 .. count |-> k]
  IN  FoldLeft(LAMBDA r, k : [r EXCEPT ![to + k - 1] = r[from + k - 1]], arr, order)

-----------------------------------------------------------------------------
(* One call from one stack *)

ByIndex == (TestNatives \cup CompareNatives \cup ToNatives \cup ReadNatives \cup GetNatives \cup SetNatives \cup MetaNatives
            \cup {"insert", "pushvalue", "remove", "replace", "settop", "resume", "status", "ref", "unref",
                   "tablesize", "tablemove"}) \ {"createtable", "newtable"}
ByTwo   == {"equal", "lessthan", "rawequal"}
ByCount == {"openlib", "pcall", "concat", "pop", "createtable", "findtable", "pushjavaclosure", "resume",
            "yield", "tablemove"}

Frame(types, slack, grows, oc) ==
  [stack |-> [p \in DOMAIN types |-> <<types[p], p>>], limit |-> Len(types) + slack, grows |-> grows,
   co |-> <<>>, legal |-> TRUE, raised |-> FALSE, exc |-> "none", ret |-> 0, oc |-> oc]

NativeInit ==
  /\ \E f \in Natives, types \in Stacks, room \in {<<0, FALSE>>, <<0, TRUE>>, <<LUA_MINSTACK, FALSE>>, <<LUA_MINSTACK + 1, FALSE>>},
        oc \in {"ok", "absent", "error", "null"} :
       \E i \in IF f \in ByIndex THEN Indexes ELSE {0},
          j \in IF f \in ByTwo THEN Indexes ELSE IF f = "pcall" THEN Counts ELSE {0},
          n \in IF f \in ByCount THEN Counts ELSE {0} :
         call = [f |-> f, a |-> [i |-> i, j |-> j, n |-> n], s |-> Frame(types, room[1], room[2], oc)]
  /\ after = <<>>

NativeNext == /\ after = <<>>
              /\ after' = <<Run(call.s, Program(call.f, call.s, call.a))>>
              /\ UNCHANGED call

-----------------------------------------------------------------------------
(* Properties *)

\* What the javadoc of LuaState says the method pops and pushes.
Pops == LET n == IF call.a.n < 0 THEN 0 ELSE call.a.n f == call.f IN
  CASE f \in {"gettable", "next", "rawget", "rawseti", "setfield", "ref", "setmetatable", "setfenv",
              "setglobal", "newthread", "replace"} -> 1
    [] f \in {"rawset", "settable"} -> 2
    [] f \in {"concat", "pop", "resume", "pushjavaclosure"} -> n
    [] f = "pcall" -> n + 1
    [] OTHER       -> 0
Pushes == LET f == call.f found == IF call.s.oc = "absent" THEN 0 ELSE 1 IN
  CASE f \in PushPlainNatives \cup PushNatives \cup {"newstate", "load", "getglobal", "getfield", "gettable", "rawget", "rawgeti",
              "createtable", "newtable", "newthread", "concat", "getfenv", "pushvalue"} -> 1
    [] f \in {"findtable", "getmetafield", "getmetatable", "resume"} -> found
    [] f = "next"  -> 2 * found
    [] f = "pcall" -> IF call.a.j = LUA_MULTRET THEN 1 ELSE call.a.j
    [] OTHER       -> 0

\* The stack after insert, remove, replace and settop.
Rearranged(s, f, i) ==
  LET p == IF i < 0 THEN Top(s) + i + 1 ELSE i IN
  CASE f = "insert"  -> [q \in 1 .. Top(s) |-> IF q < p THEN s.stack[q] ELSE IF q = p THEN s.stack[Top(s)]
                                              ELSE s.stack[q - 1]]
    [] f = "remove"  -> [q \in 1 .. Top(s) - 1 |-> s.stack[IF q < p THEN q ELSE q + 1]]
    [] f = "replace" -> [q \in 1 .. Top(s) - 1 |-> IF q = p THEN s.stack[Top(s)] ELSE s.stack[q]]
    [] f = "settop"  -> [q \in 1 .. p |-> IF q <= Top(s) THEN s.stack[q] ELSE <<"nil", 0>>]

Operands == IF call.f = "yield" THEN Top(call.s) ELSE Pops
\* The index designates a value and none of the operands that are popped; the
\* operands are there; what is read as a userdata is one; resume succeeds.
Proper ==
  LET s == call.s a == call.a f == call.f
      real(i) == IsPseudo(i) \/ OnFrame(s, i)
      abs(i) == IF i < 0 THEN Top(s) + i + 1 ELSE i
  IN  /\ f \in ByIndex \ {"insert", "remove", "settop"} => real(a.i) \/ (f \in TestNatives /\ a.i > 0 /\ a.i <= s.limit)
      /\ f \in ByTwo => real(a.j)
      /\ f \in {"gettable", "next", "rawget", "rawset", "rawseti", "settable", "setfield", "ref", "resume"} =>
           Top(s) >= Operands /\ (IsPseudo(a.i) \/ abs(a.i) <= Top(s) - Operands)
      /\ f \in {"setfenv", "newthread"} => Top(s) >= 1
      /\ f \in {"touserdata", "tolightjavaobject"} => TypeAt(s, a.i) \in {"userdata", "javaobject"}
      /\ f \in {"resume", "objlen"} => s.oc # "error" /\ TypeAt(s, a.i) # "number"
      /\ f = "pushjavaclosure" => a.n \in 0 .. Top(s)
      /\ f = "pcall" => s.limit > Top(s)
      /\ f = "getmetatable" => s.limit > Top(s) \/ s.grows
      /\ s.oc = "error" \/ f = "luaL_error" => s.grows \/ s.limit - Top(s) # LUA_MINSTACK
      /\ f = "replace" => a.i # LUA_ENVIRONINDEX

\* The two ranges of tableMove may overlap.
TableMoveIsCopy ==
  \A from, to \in 1 .. 3, count \in 0 .. 2 :
    LET arr == <<1, 2, 3, 4>> moved == tablemove_protected(arr, from, to, count)
    IN  \A k \in 1 .. 4 : moved[k] = IF k \in to .. to + count - 1 THEN arr[from + k - to] ELSE arr[k]

\* A native method called as its javadoc says makes only legal calls of the
\* API, pops and pushes what the javadoc says and leaves every other value
\* where it was; one that throws leaves all but its operands; and what
\* tableMove moves are the elements it was given (jnlua.c).
NativesKeepContract ==
  /\ (after # <<>> /\ Proper) =>
       LET s == call.s r == after[1] f == call.f
           below == SubSeq(s.stack, 1, Top(s) - Operands)
           moving == f \in {"insert", "remove", "replace", "settop"}
       IN  /\ r.legal /\ ~r.raised
           /\ r.exc = "none" => IF moving THEN r.stack = Rearranged(s, f, call.a.i)
                                ELSE IF f = "yield" THEN TRUE
                                ELSE Top(r) = Len(below) + Pushes /\ IsPrefix(below, r.stack)
           /\ r.exc # "none" => IsPrefix(r.stack, s.stack) /\ Top(r) >= Top(s) - Operands
  /\ TableMoveIsCopy
=============================================================================
