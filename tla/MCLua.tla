--------------------------------- MODULE MCLua ---------------------------------
(* The parts of the Lua library and of its binding, side by side: a behaviour  *)
(* moves one part, the others stay as they begin.  What a part does does not   *)
(* depend on the others, so that each behaviour of a part is one of this       *)
(* module.                                                                     *)
EXTENDS LuaTable, LuaGC, JnLua, MCLuaPrograms, LuaPattern, LuaDump

CONSTANTS strA,                                      \* a string key
          main, str, tab, weakTab, udata, fn, uv, co   \* objects of the heap

VARIABLE part     \* the part that moves

luaVars == <<part, tableVars, gcVars, nativeVars, compiled, scan, dumped>>

--------------------------------------------------------------------------------
(* A string key beside the integers 1 to 3.  In a hash part of four nodes 1     *)
(* and 3 collide, and the string has the node that the second of them is given. *)
MCStrHash == strA :> 3

(* A main thread and two or three objects, of every kind in turn.              *)
MCKind == main :> "thread" @@ str :> "string" @@ tab :> "table" @@ weakTab :> "table" @@ udata :> "udata"
          @@ fn :> "function" @@ uv :> "upval" @@ co :> "thread"
MCWeak == [o \in DOMAIN MCKind |-> IF o = weakTab THEN {"v"} ELSE {}]
Pools == {{main, weakTab, udata}, {main, tab, udata}, {main, str, weakTab}, {main, tab, weakTab}, {main, fn, uv, tab}, {main, fn, uv, co}}

(* Stacks with one to three values of the types that natives tell apart.       *)
MCStacks ==
  {<<>>, <<"table">>, <<"function">>, <<"javaobject">>, <<"javafunction">>, <<"table", "number">>,
   <<"number", "table">>, <<"thread", "function">>, <<"userdata", "table">>,
   <<"table", "number", "nil">>, <<"thread", "table", "function">>, <<"light", "string", "boolean">>}
MCIndexes == {LUA_GLOBALSINDEX, -2, -1, 1, 2, 4}
MCCounts == {-1, 0, 1, 2}

(* Characters 1 and 2.  All patterns of up to three items, and some longer     *)
(* ones with a capture that is compared later.                                 *)
LOCAL Class(set, rep) == [k |-> "x", set |-> set, rep |-> rep]
LOCAL Kw(kind) == [k |-> kind]
LOCAL Ref == [k |-> "%1", l |-> 1]
LOCAL Bal(x, y) == [k |-> "%b", b |-> x, e |-> y]
LOCAL Short == {Class({1}, ""), Class({1, 2}, "*"), Class({1}, "-"), Class({2}, "+"), Class({1}, "?"),
                Kw("("), Kw("()"), Kw(")"), Ref, Bal(1, 2), [k |-> "%f", set |-> {2}]}
LOCAL Within == {Class({1, 2}, "*"), Class({1}, "?"), Class({1}, "-"), Kw("("), Kw(")")}
LOCAL Tails == {<<Kw(")"), Ref>>, <<Kw(")"), Ref, Kw("$")>>, <<Kw(")"), Kw(")"), Class({2}, "")>>,
                <<Class({2}, "-"), Bal(1, 1), Kw("$")>>}
MCPatterns == UNION {[1 .. n -> Short] : n \in 0 .. 3}
              \cup {<<Kw("(")>> \o x \o y : x \in [1 .. 2 -> Within], y \in Tails}
MCTexts == {<<>>, <<2, 1>>, <<1, 1, 2>>, <<2, 1, 2, 1>>, <<1, 1, 2, 2>>}

(* Functions nested up to four deep, of one source or several, with constants  *)
(* of every type and debug information.                                        *)
LOCAL K(type, v) == [t |-> type, v |-> v]
LOCAL Constants == <<K("nil", 0), K("boolean", 1), K("number", 7), K("string", <<65, 0, 66>>), K("string", <<>>)>>
LOCAL Leaf(src) ==
  [source |-> src, head |-> <<1, 2, 0, 0, 2, 2>>, code |-> <<9>>, k |-> <<>>, p |-> <<>>,
   lineinfo |-> <<1>>, locvars |-> <<>>, upvalues |-> <<>>]
LOCAL Outer(src, ps) ==
  [source |-> src, head |-> <<0, 0, 1, 1, 0, 3>>, code |-> <<5, 6, 9>>, k |-> Constants, p |-> ps,
   lineinfo |-> <<1, 1, 2>>, locvars |-> <<[varname |-> <<97>>, startpc |-> 0, endpc |-> 3]>>,
   upvalues |-> << <<98>>, <<>> >>]
LOCAL AFile == <<64, 97>>
LOCAL BFile == <<61>>
MCFunctions ==
  {Leaf(AFile), Leaf(Unknown), Outer(AFile, <<Leaf(AFile), Leaf(BFile)>>),
   Outer(AFile, <<Outer(BFile, <<Leaf(BFile), Leaf(AFile)>>)>>),
   Outer(BFile, <<Outer(BFile, <<Outer(BFile, <<Leaf(BFile)>>)>>)>>)}

--------------------------------------------------------------------------------
(* A part at rest is in one of its initial states.                             *)
NoCall == [f |-> "gettop", a |-> [i |-> 0, j |-> 0, n |-> 0], s |-> Frame(<<>>, 0, FALSE, "ok")]
NoProgram == [program |-> [params |-> <<"a", "b">>, block |-> <<>>], input |-> CHOOSE i \in MCInputs : TRUE,
              f |-> <<>>, m |-> <<>>]
NoScan == [op |-> "find", text |-> <<>>, pat |-> <<>>, anchor |-> FALSE, src |-> 0, ms |-> <<>>,
           found |-> <<>>, out |-> <<>>, done |-> FALSE]
NoDump == [f |-> Leaf(AFile), strip |-> FALSE, stage |-> "new", status |-> 0, written |-> <<>>, cut |-> 0,
           loaded |-> <<>>]

LuaInit ==
  /\ part \in {"table", "collector", "binding", "compiler", "pattern", "dump"}
  /\ TableInit /\ (part # "table" => t = luaH_new(0, 0))
  /\ pool \in IF part = "collector" THEN Pools ELSE {{main, tab, udata}}
  /\ GCInit
  /\ IF part = "binding" THEN NativeInit ELSE call = NoCall /\ after = <<>>
  /\ IF part = "compiler" THEN CompilerInit ELSE compiled = NoProgram
  /\ IF part = "pattern" THEN PatternInit ELSE scan = NoScan
  /\ IF part = "dump" THEN DumpInit ELSE dumped = NoDump

LuaNext ==
  /\ UNCHANGED part
  /\ \/ /\ part = "table" /\ TableNext
        /\ UNCHANGED <<gcVars, nativeVars, compiled, scan, dumped>>
     \/ /\ part = "collector" /\ GCNext
        /\ UNCHANGED <<tableVars, nativeVars, compiled, scan, dumped>>
     \/ /\ part = "binding" /\ NativeNext
        /\ UNCHANGED <<tableVars, gcVars, compiled, scan, dumped>>
     \/ /\ part = "compiler" /\ CompilerNext
        /\ UNCHANGED <<tableVars, gcVars, nativeVars, scan, dumped>>
     \/ /\ part = "pattern" /\ PatternNext
        /\ UNCHANGED <<tableVars, gcVars, nativeVars, compiled, dumped>>
     \/ /\ part = "dump" /\ DumpNext
        /\ UNCHANGED <<tableVars, gcVars, nativeVars, compiled, scan>>

LuaSpec == LuaInit /\ [][LuaNext]_luaVars
================================================================================
