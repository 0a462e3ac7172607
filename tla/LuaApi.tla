-------------------------------- MODULE LuaApi --------------------------------
(* The C API of Lua (lapi.c) on the stack of one C function: what each call   *)
(* needs (its api_check), pops, pushes and returns. A value is <<type, id>>,  *)
(* where id tells the values of a stack apart. The frame s is a record        *)
(*   stack   from base to top, the running coroutine's values in co;          *)
(*   limit   ci->top - base, the slots lua_checkstack has granted;            *)
(*   grows   whether the frame may still grow (LUAI_MAXCSTACK);               *)
(*   legal   no api_check has failed;     raised   an error was thrown;       *)
(*   ret     the result of the last call that returns one;                    *)
(*   oc      what the heap holds: "ok" something is found, "absent" nothing   *)
(*           is, "error" the call that may fail does.                         *)
EXTENDS Integers, Sequences, SequencesExt, FiniteSets, TLC

LUA_REGISTRYINDEX == -10000
LUA_ENVIRONINDEX  == -10001
LUA_GLOBALSINDEX  == -10002
LUA_MULTRET == -1
LUA_MINSTACK == 20

luaO_nilobject == <<"none", 0>>
New(type) == <<type, "new">>

Top(s) == Len(s.stack)
IsPseudo(i) == i <= LUA_REGISTRYINDEX
Position(s, i) == IF i > 0 THEN i ELSE Top(s) + i + 1
OnFrame(s, i) == ~IsPseudo(i) /\ Position(s, i) \in 1 .. Top(s)

\* The value an index designates.
index2adr(s, i) == CASE IsPseudo(i)   -> <<"table", i>>
                     [] OnFrame(s, i) -> s.stack[Position(s, i)]
                     [] OTHER         -> luaO_nilobject
\* Its api_check.
LegalIndex(s, i) == \/ IsPseudo(i)
                    \/ i > 0 /\ i <= s.limit
                    \/ i < 0 /\ -i <= Top(s)
TypeAt(s, i) == index2adr(s, i)[1]
Valid(s, i) == LegalIndex(s, i) /\ index2adr(s, i) # luaO_nilobject

\* The call is legal and leaves this stack, which api_incr_top lets it.
Then(s, legal, stack) ==
  IF legal /\ Len(stack) <= s.limit THEN [s EXCEPT !.stack = stack]
                                    ELSE [s EXCEPT !.legal = FALSE]
\* With n values on top, pops k of them and pushes vs.
PopPush(s, legal, n, k, vs) ==
  Then(s, legal /\ Top(s) >= n, SubSeq(s.stack, 1, Top(s) - k) \o vs)
Push(s, type) == PopPush(s, TRUE, 0, 0, <<New(type)>>)
Returns(s, v) == [s EXCEPT !.ret = v]
\* A call that runs metamethods or Lua code may raise an error instead.
MayRaise(s, after) == IF s.oc = "error" THEN [s EXCEPT !.raised = TRUE] ELSE after
Bit(b) == IF b THEN 1 ELSE 0

-----------------------------------------------------------------------------
\* A longer frame, when it may still grow; whether it did.
lua_checkstack(s, n) ==
  IF n <= 0 \/ Top(s) + n <= s.limit THEN Returns(s, 1)
  ELSE IF s.grows THEN Returns([s EXCEPT !.limit = Top(s) + n], 1)
  ELSE Returns(s, 0)

\* The top n values go from the frame to the coroutine, or back.
lua_xmove(s, n, out) ==
  IF out THEN [Then(s, Top(s) >= n, SubSeq(s.stack, 1, Top(s) - n))
                 EXCEPT !.co = @ \o SubSeq(s.stack, Top(s) - n + 1, Top(s))]
  ELSE [Then(s, Len(s.co) >= n, s.stack \o SubSeq(s.co, Len(s.co) - n + 1, Len(s.co)))
          EXCEPT !.co = SubSeq(@, 1, Len(s.co) - n)]

StackApi == {"lua_settop", "lua_remove", "lua_insert", "lua_replace", "lua_pushvalue"}
StackCall(s, f, i) ==
  LET p == Position(s, i) IN
  CASE f = "lua_settop" /\ i >= 0 ->
         Then(s, i <= s.limit, [q \in 1 .. i |-> IF q <= Top(s) THEN s.stack[q] ELSE <<"nil", 0>>])
    [] f = "lua_settop" /\ i < 0 -> Then(s, -(i + 1) <= Top(s), SubSeq(s.stack, 1, p))
    [] f = "lua_remove"    -> IF OnFrame(s, i) THEN Then(s, TRUE, RemoveAt(s.stack, p))
                              ELSE [s EXCEPT !.legal = FALSE]
    [] f = "lua_insert"    -> IF OnFrame(s, i)
                              THEN Then(s, TRUE, InsertAt(Front(s.stack), p, Last(s.stack)))
                              ELSE [s EXCEPT !.legal = FALSE]
    [] f = "lua_replace"   -> IF Top(s) >= 1 /\ Valid(s, i)
                              THEN Then(s, i = LUA_ENVIRONINDEX => TypeAt(s, -1) = "table",
                                        Front(IF OnFrame(s, i) THEN [s.stack EXCEPT ![p] = Last(s.stack)]
                                              ELSE s.stack))
                              ELSE [s EXCEPT !.legal = FALSE]
    [] f = "lua_pushvalue" -> PopPush(s, LegalIndex(s, i), 0, 0,
                                <<IF Valid(s, i) THEN index2adr(s, i) ELSE <<"nil", 0>>>>)

\* Types a test or a conversion accepts.
Accepts == ("lua_isnumber" :> {"number", "numeral"}) @@ ("lua_isstring" :> {"number", "numeral", "string"})
  @@ ("lua_isuserdata" :> {"userdata", "javaobject", "light"})
  @@ ("lua_iscfunction" :> {"cfunction", "javafunction"}) @@ ("lua_tonumber" :> {"number", "numeral"})
  @@ ("lua_tolstring" :> {"number", "numeral", "string"}) @@ ("lua_tothread" :> {"thread"})
  @@ ("lua_touserdata" :> {"userdata", "javaobject", "light"})
  @@ ("lua_topointer" :> {"table", "function", "cfunction", "javafunction", "thread", "userdata",
                          "javaobject", "light"})
  @@ ("lua_objlen" :> {"number", "numeral", "string", "userdata", "javaobject", "table"})

AccessApi == DOMAIN Accepts \cup {"lua_type", "lua_toboolean", "lua_rawequal", "lua_equal", "lua_lessthan"}
\* lua_tolstring and lua_objlen turn a number into a string where it stands.
AccessCall(s, f, i, j) ==
  LET o == index2adr(s, i)
      legal == [s EXCEPT !.legal = @ /\ LegalIndex(s, i)]
  IN  CASE f = "lua_type"      -> Returns(legal, o[1])
        [] f = "lua_toboolean" -> Returns(legal, Bit(o[1] \notin {"none", "nil", "false"}))
        [] f \in {"lua_rawequal", "lua_equal"} ->
             MayRaise([s EXCEPT !.oc = IF f = "lua_rawequal" THEN "ok" ELSE @],
               Returns([legal EXCEPT !.legal = @ /\ LegalIndex(s, j)],
                       Bit(o # luaO_nilobject /\ o = index2adr(s, j))))
        [] f = "lua_lessthan"  -> MayRaise(s, Returns([legal EXCEPT !.legal = @ /\ LegalIndex(s, j)], 0))
        [] f \in {"lua_tolstring", "lua_objlen"} /\ o[1] = "number" ->
             Returns([legal EXCEPT !.stack[Position(s, i)] = <<"numeral", o[2]>>], 1)
        [] OTHER               -> Returns(legal, Bit(o[1] \in Accepts[f]))

Pushed == ("lua_pushnil" :> "nil") @@ ("lua_pushnumber" :> "number") @@ ("lua_pushinteger" :> "number")
  @@ ("lua_pushlstring" :> "string") @@ ("lua_pushstring" :> "string") @@ ("lua_pushfstring" :> "string")
  @@ ("lua_pushboolean" :> "boolean") @@ ("lua_pushlightuserdata" :> "light")
  @@ ("lua_pushthread" :> "thread")
PushApi == DOMAIN Pushed \cup {"lua_pushcclosure"}
PushCall(s, f, n) == IF f = "lua_pushcclosure" THEN PopPush(s, n >= 0, n, n, <<New("cfunction")>>)
                     ELSE Push(s, Pushed[f])

\* lua_gettable takes the key from the top, which it does not check.
GetApi == {"lua_gettable", "lua_getfield", "lua_rawget", "lua_rawgeti", "lua_createtable",
           "lua_getmetatable", "lua_getfenv"}
GetCall(s, f, i) ==
  CASE f = "lua_gettable"     -> MayRaise(s, PopPush(s, Valid(s, i), 1, 1, <<New("value")>>))
    [] f = "lua_getfield"     -> MayRaise(s, PopPush(s, Valid(s, i), 0, 0, <<New("value")>>))
    [] f = "lua_rawget"       -> PopPush(s, TypeAt(s, i) = "table", 1, 1, <<New("value")>>)
    [] f = "lua_rawgeti"      -> PopPush(s, TypeAt(s, i) = "table", 0, 0, <<New("value")>>)
    [] f = "lua_createtable"  -> Push(s, "table")
    [] f = "lua_getmetatable" ->
         IF s.oc = "absent" THEN Returns([s EXCEPT !.legal = @ /\ LegalIndex(s, i)], 0)
         ELSE Returns(PopPush(s, LegalIndex(s, i), 0, 0, <<New("table")>>), 1)
    [] f = "lua_getfenv"      -> PopPush(s, Valid(s, i), 0, 0, <<New("value")>>)

SetApi == {"lua_settable", "lua_setfield", "lua_rawset", "lua_rawseti", "lua_setmetatable", "lua_setfenv"}
SetCall(s, f, i) ==
  CASE f = "lua_settable"     -> MayRaise(s, PopPush(s, Valid(s, i), 2, 2, <<>>))
    [] f = "lua_setfield"     -> MayRaise(s, PopPush(s, Valid(s, i), 1, 1, <<>>))
    [] f = "lua_rawset"       -> PopPush(s, TypeAt(s, i) = "table", 2, 2, <<>>)
    [] f = "lua_rawseti"      -> PopPush(s, TypeAt(s, i) = "table", 1, 1, <<>>)
    [] f = "lua_setmetatable" ->
         Returns(PopPush(s, Valid(s, i) /\ TypeAt(s, -1) \in {"nil", "table"}, 1, 1, <<>>), 1)
    [] f = "lua_setfenv"      ->
         Returns(PopPush(s, Valid(s, i) /\ TypeAt(s, -1) = "table", 1, 1, <<>>),
                 Bit(TypeAt(s, i) \in {"function", "cfunction", "javafunction", "userdata",
                                       "javaobject", "thread"}))

\* The frame of a call of the top n values' function, and what is below it.
Callee(s, n) == [s EXCEPT !.stack = SubSeq(@, Top(s) - n + 1, Top(s)), !.limit = n + LUA_MINSTACK]
Below(s, n) == SubSeq(s.stack, 1, Top(s) - n - 1)
CanCall(s, n, nres) == /\ Top(s) >= n + 1
                       /\ nres = LUA_MULTRET \/ s.limit - Top(s) >= nres - n
Adjust(vs, nres) == IF nres = LUA_MULTRET THEN vs
                    ELSE [q \in 1 .. nres |-> IF q <= Len(vs) THEN vs[q] ELSE <<"nil", 0>>]
\* A call returned vs, or raised: then its message takes the function's place.
Returned(s, n, nres, vs, legal) ==
  LET stack == Below(s, n) \o Adjust(vs, nres)
  IN  [s EXCEPT !.legal = @ /\ legal /\ CanCall(s, n, nres), !.stack = stack, !.ret = 0,
                !.limit = IF Len(stack) > @ /\ nres = LUA_MULTRET THEN Len(stack) ELSE @]
Failed(s, n, legal) ==
  [s EXCEPT !.legal = @ /\ legal, !.stack = Append(Below(s, n), New("message")), !.ret = 1]

\* A Lua function of the program is called and returns one value.
lua_pcall(s, n, nres) ==
  IF ~CanCall(s, n, nres) THEN [s EXCEPT !.legal = FALSE]
  ELSE IF s.oc = "error" THEN Failed(s, n, TRUE) ELSE Returned(s, n, nres, <<New("value")>>, TRUE)
lua_call(s, n, nres) ==
  IF ~CanCall(s, n, nres) THEN [s EXCEPT !.legal = FALSE]
  ELSE MayRaise(s, Returned(s, n, nres, <<New("value")>>, TRUE))
lua_load(s) == IF s.oc = "error" THEN Returns(Push(s, "message"), 1) ELSE Returns(Push(s, "function"), 0)
lua_dump(s) == Returns([s EXCEPT !.legal = @ /\ Top(s) >= 1], Bit(TypeAt(s, -1) # "function"))

MiscApi == {"lua_gc", "lua_error", "lua_next", "lua_concat", "lua_newuserdata"}
MiscCall(s, f, i) ==
  CASE f = "lua_gc"          -> MayRaise(s, Returns(s, 0))
    [] f = "lua_error"       -> [s EXCEPT !.raised = TRUE, !.legal = @ /\ Top(s) >= 1]
    [] f = "lua_next"        ->
         MayRaise(s, LET more == s.oc # "absent" IN
           Returns(PopPush(s, TypeAt(s, i) = "table", 1, 1,
                           IF more THEN <<New("value"), New("value")>> ELSE <<>>), Bit(more)))
    [] f = "lua_concat"      ->
         IF i >= 2 THEN MayRaise(s, PopPush(s, TRUE, i, i, <<New("string")>>))
         ELSE PopPush(s, TRUE, i, 0, IF i = 0 THEN <<New("string")>> ELSE <<>>)
    [] f = "lua_newuserdata" -> Push(s, "userdata")

UpvalueApi == {"lua_getupvalue", "lua_setupvalue"}
UpvalueCall(s, f, i) ==
  LET found == TypeAt(s, i) \in {"function", "javafunction"} /\ s.oc # "absent" IN
  CASE f = "lua_getupvalue" ->
         Returns(PopPush(s, LegalIndex(s, i), 0, 0, IF found THEN <<New("value")>> ELSE <<>>), Bit(found))
    [] f = "lua_setupvalue" ->
         Returns(PopPush(s, LegalIndex(s, i), 1, IF found THEN 1 ELSE 0, <<>>), Bit(found))
=============================================================================
