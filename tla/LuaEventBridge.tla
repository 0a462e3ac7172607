--------------------------- MODULE LuaEventBridge ---------------------------
(***************************************************************************)
(* ToppingEngine.onGuiEvent and onNativeEvent: how Java code calls a Lua   *)
(* function on the engine's single LuaState.  An event pushes the          *)
(* function, the object and the arguments one by one, calls, and reads the *)
(* result from the top of the stack.  Each of these is a synchronized      *)
(* method of LuaState of its own; the monitor is kept during the call, and *)
(* nothing keeps it between two of them.  Nothing pops the result.         *)
(*                                                                         *)
(* The Lua function may call Java methods (Lunar.thunk); those run on a    *)
(* stack frame of their own and may raise further events, on the same      *)
(* thread and on that frame.                                               *)
(*                                                                         *)
(* A stack value is <<kind, event>>: what it is, and the event that pushed *)
(* it.  Lunar.push, which pushes and drops some helpers on its way, is one *)
(* step, and so is each reading of the result.                             *)
(***************************************************************************)
EXTENDS Naturals, Sequences, SequencesExt, FiniteSets

CONSTANTS
  Thread,       \* the threads that raise events
  MaxEvents,    \* bound: how many events are raised
  MaxArgs,      \* bound: arguments of an event
  MaxResults,   \* bound: values a Lua function returns
  MaxDepth,     \* bound: events within events
  ResultKind,   \* kinds of values a Lua function returns, some of the three
  StackLimit    \* the values a frame holds before checkstack fails

ASSUME BridgeAssumption ==
  /\ MaxEvents \in Nat
  /\ MaxArgs \in Nat
  /\ MaxResults \in Nat
  /\ MaxDepth \in Nat \ {0}
  /\ StackLimit \in Nat
  /\ ResultKind \subseteq {"nil", "text", "userdata"}

Event == 1..MaxEvents

\* A value on the stack is <<kind, event>>; the kind "text" is what lua_tostring
\* accepts: a number or a string.
VARIABLES
  frames,    \* the Lua stack: the base frame, then one frame per Java method
  calls,     \* the events in progress of each thread, innermost last
  raised,    \* how many events have been raised
  ended,     \* the event that has returned last: what it returned, and why
  illegal,   \* history: lua_pop was given an illegal count
  crashed    \* the process has died

vars == <<frames, calls, raised, ended, illegal, crashed>>

Nothing == <<"nil", 0>>

Init ==
  /\ frames = <<<<>>>>
  /\ calls = [t \in Thread |-> <<>>]
  /\ raised = 0
  /\ ended = [event |-> 0, answer |-> <<>>, result |-> Nothing]
  /\ illegal = FALSE
  /\ crashed = FALSE

-----------------------------------------------------------------------------

Frame == Last(frames)
Call(t) == Last(calls[t])
At(t, pc) == calls[t] # <<>> /\ Call(t).pc = pc

\* A thread keeps the monitor of the LuaState while a Lua function that it
\* called is running, the Java methods the function calls included.
HoldsMonitor(t) == \E i \in DOMAIN calls[t] : calls[t][i].pc \in {"handler", "thunk"}

\* Fault: the methods of LuaState are not synchronized.
EnterFreely(t) == ~crashed

MayEnter(t) == ~crashed /\ \A u \in Thread \ {t} : ~HoldsMonitor(u)

\* The innermost event of t becomes c.
Become(t, c) == [calls EXCEPT ![t] = Append(Front(@), c)]
GoTo(t, pc) == Become(t, [Call(t) EXCEPT !.pc = pc])
WithFrame(f) == [frames EXCEPT ![Len(frames)] = f]

\* What index -1 refers to: in an empty frame it is what lies below, nil
\* under the base frame and the Java method's closure under another one.
TopKind ==
  CASE Frame # <<>> -> Last(Frame)[1]
    [] Frame = <<>> /\ Len(frames) = 1 -> "nil"
    [] Frame = <<>> /\ Len(frames) > 1 -> "function"

-----------------------------------------------------------------------------
(* How an event ends.                                                      *)

\* onGuiEvent returns r to its caller.
Return(t, r) ==
  /\ calls' = [calls EXCEPT ![t] = Front(@)]
  /\ ended' = [event |-> Call(t).event, answer |-> Call(t).answer, result |-> r]

\* A runtime exception leaves onGuiEvent.  A Java method called from Lua is
\* invoked reflectively and its exception is caught there (thunk); from
\* anywhere else it ends the process.
Escape(t) ==
  /\ calls' = [calls EXCEPT ![t] = Front(@)]
  /\ crashed' = (Len(calls[t]) = 1)
  /\ UNCHANGED ended

\* Push v and go on, or fail with "stack overflow".
Push(t, v, then) ==
  /\ MayEnter(t)
  /\ \/ /\ Len(Frame) < StackLimit
        /\ frames' = WithFrame(Append(Frame, v))
        /\ calls' = then
        /\ UNCHANGED <<ended, crashed>>
     \/ /\ Len(Frame) >= StackLimit
        /\ Escape(t)
        /\ UNCHANGED frames
  /\ UNCHANGED <<raised, illegal>>

-----------------------------------------------------------------------------
(* The steps of an event.                                                  *)

\* An event is raised: by the thread's own code, or by a Java method that a
\* Lua function has called.
Raise(t, byName, n) ==
  /\ ~crashed
  /\ raised < MaxEvents
  /\ calls[t] = <<>> \/ At(t, "thunk")
  /\ Len(calls[t]) < MaxDepth
  /\ raised' = raised + 1
  /\ calls' = [calls EXCEPT ![t] = Append(@,
                 [pc |-> "function", event |-> raised + 1, byName |-> byName,
                  nargs |-> n, left |-> n, base |-> Len(Frame),
                  called |-> <<>>, answer |-> <<>>])]
  /\ UNCHANGED <<frames, ended, illegal, crashed>>

\* lua_rawgeti pushes the function of a native event.
RawGetI(t) ==
  /\ At(t, "function") /\ ~Call(t).byName
  /\ Push(t, <<"function", Call(t).event>>, GoTo(t, "gui"))

\* lua_getglobal pushes the named function, or nil.
GetGlobal(t) ==
  /\ At(t, "function") /\ Call(t).byName
  /\ \E kind \in {"function", "nil"} :
       Push(t, <<kind, Call(t).event>>, GoTo(t, "isnil"))

\* "Tried to call invalid LUA function": the nil is left on the stack.
InvalidFunction(t) ==
  /\ At(t, "isnil")
  /\ MayEnter(t)
  /\ TopKind = "nil"
  /\ Return(t, Nothing)
  /\ UNCHANGED <<frames, raised, illegal, crashed>>

ValidFunction(t) ==
  /\ At(t, "isnil")
  /\ MayEnter(t)
  /\ TopKind # "nil"
  /\ calls' = GoTo(t, "gui")
  /\ UNCHANGED <<frames, raised, ended, illegal, crashed>>

PushGui(t) ==
  /\ At(t, "gui")
  /\ Push(t, <<"gui", Call(t).event>>, GoTo(t, "args"))

\* fillVariable
PushArg(t) ==
  /\ At(t, "args") /\ Call(t).left > 0
  /\ Push(t, <<"arg", Call(t).event>>, Become(t, [Call(t) EXCEPT !.left = @ - 1]))

\* Where lua_pcall finds the function: below the object and the arguments.
CalledAt(t) == Len(Frame) - (Call(t).nargs + 1)

\* Fault: lua_pcall is told one argument less, the object is forgotten.
PCallForgetsGui(t) ==
  /\ At(t, "args") /\ Call(t).left = 0
  /\ MayEnter(t)
  /\ CalledAt(t) >= 1
  /\ LET at == CalledAt(t) + 1
     IN  /\ frames' = WithFrame(SubSeq(Frame, 1, at - 1))
         /\ calls' = Become(t, [Call(t) EXCEPT !.pc = "handler",
                                              !.called = SubSeq(Frame, at, Len(Frame))])
  /\ UNCHANGED <<raised, ended, illegal, crashed>>

\* Fault: a number too much, as when the function is counted too.
PCallTakesMore(t) ==
  /\ At(t, "args") /\ Call(t).left = 0
  /\ MayEnter(t)
  /\ CalledAt(t) >= 1
  /\ LET at == CalledAt(t)
     IN  /\ frames' = WithFrame(SubSeq(Frame, 1, at - 2))
         /\ calls' = Become(t, [Call(t) EXCEPT
                        !.pc = IF Frame[at][1] = "function" THEN "handler" ELSE "report",
                        !.called = SubSeq(Frame, at, Len(Frame))])
  /\ UNCHANGED <<raised, ended, illegal, crashed>>

\* lua_pcall takes the function and its arguments.  Anything but a function
\* is an error, and they are gone all the same.  checknelems, which looks for
\* that many values, never fails: CallHasItsValues.
PCall(t) ==
  /\ At(t, "args") /\ Call(t).left = 0
  /\ MayEnter(t)
  /\ CalledAt(t) >= 1
  /\ LET at == CalledAt(t)
     IN  /\ frames' = WithFrame(SubSeq(Frame, 1, at - 1))
         /\ calls' = Become(t, [Call(t) EXCEPT
                        !.pc = IF Frame[at][1] = "function" THEN "handler" ELSE "report",
                        !.called = SubSeq(Frame, at, Len(Frame))])
  /\ UNCHANGED <<raised, ended, illegal, crashed>>

\* The Lua function calls a Java method: a frame with the arguments that
\* the thunk has not removed.
Thunk(t) ==
  /\ ~crashed
  /\ At(t, "handler")
  /\ Len(calls[t]) < MaxDepth
  /\ raised < MaxEvents
  /\ \E n \in 0..1 : frames' = Append(frames, [i \in 1..n |-> <<"userdata", 0>>])
  /\ calls' = GoTo(t, "thunk")
  /\ UNCHANGED <<raised, ended, illegal, crashed>>

\* The Java method returns: its frame goes, with all that is left on it.
ThunkReturns(t) ==
  /\ ~crashed
  /\ At(t, "thunk")
  /\ frames' = Front(frames)
  /\ calls' = GoTo(t, "handler")
  /\ UNCHANGED <<raised, ended, illegal, crashed>>

\* The Lua function returns n values (LUA_MULTRET keeps all of them).
HandlerReturns(t, kind, n) ==
  /\ ~crashed
  /\ At(t, "handler")
  /\ LET answer == [i \in 1..n |-> <<kind, Call(t).event>>]
     IN  /\ frames' = WithFrame(Frame \o answer)
         /\ calls' = Become(t, [Call(t) EXCEPT !.pc = "result", !.answer = answer])
  /\ UNCHANGED <<raised, ended, illegal, crashed>>

\* It raises an error; throw() of jnlua.c takes the message off the stack.
HandlerFails(t) ==
  /\ ~crashed
  /\ At(t, "handler")
  /\ calls' = GoTo(t, "report")
  /\ UNCHANGED <<frames, raised, ended, illegal, crashed>>

\* Fault: the result is taken from below the top.
ResultBelowTop(t) ==
  /\ At(t, "result")
  /\ MayEnter(t)
  /\ Return(t, IF Len(Frame) < 2 THEN Nothing ELSE Frame[Len(Frame) - 1])
  /\ UNCHANGED <<frames, raised, illegal, crashed>>

\* onGuiEventResult reads the top of the stack, whatever it is.
Result(t) ==
  /\ At(t, "result")
  /\ MayEnter(t)
  /\ TopKind # "function"
  /\ Return(t, IF Frame = <<>> THEN Nothing ELSE Last(Frame))
  /\ UNCHANGED <<frames, raised, illegal, crashed>>

\* A function is none of the kinds it tests for, and lua_touserdata of
\* jnlua.c dereferences the null pointer it gets for it.
ResultOfFunction(t) ==
  /\ At(t, "result")
  /\ MayEnter(t)
  /\ TopKind = "function"
  /\ crashed' = TRUE
  /\ UNCHANGED <<frames, calls, raised, ended, illegal>>

\* Fault: report pops what it has read.
ReportPops(t) ==
  /\ At(t, "report")
  /\ MayEnter(t)
  /\ TopKind = "text"
  /\ frames' = WithFrame(Front(Frame))
  /\ Return(t, Nothing)
  /\ UNCHANGED <<raised, illegal, crashed>>

\* Fault: report reads the same message again and again.
ReportSpins(t) ==
  /\ At(t, "report")
  /\ TopKind = "text"
  /\ UNCHANGED vars

\* report finds a number or a string, takes it for the error message and
\* calls lua_pop with -1, which throws.
ReportText(t) ==
  /\ At(t, "report")
  /\ MayEnter(t)
  /\ TopKind = "text"
  /\ illegal' = TRUE
  /\ Escape(t)
  /\ UNCHANGED <<frames, raised>>

ReportNothing(t) ==
  /\ At(t, "report")
  /\ MayEnter(t)
  /\ TopKind # "text"
  /\ Return(t, Nothing)
  /\ UNCHANGED <<frames, raised, illegal, crashed>>

-----------------------------------------------------------------------------

Engine(t) ==
  \/ RawGetI(t) \/ GetGlobal(t) \/ InvalidFunction(t) \/ ValidFunction(t)
  \/ PushGui(t) \/ PushArg(t) \/ PCall(t)
  \/ Result(t) \/ ResultOfFunction(t) \/ ReportText(t) \/ ReportNothing(t)

HandlerEnds(t) ==
  \/ \E kind \in ResultKind, n \in 0..MaxResults : HandlerReturns(t, kind, n)
  \/ HandlerFails(t)

Next ==
  \E t \in Thread :
    \/ \E byName \in BOOLEAN, n \in 0..MaxArgs : Raise(t, byName, n)
    \/ Engine(t)
    \/ Thunk(t)
    \/ ThunkReturns(t)
    \/ HandlerEnds(t)

\* A thread in onGuiEvent goes on; another thread cannot keep it out of the
\* monitor for ever.  Java methods return, and a Lua function ends after
\* finitely many calls of them.
Fairness ==
  \A t \in Thread :
    /\ SF_vars(Engine(t))
    /\ WF_vars(ThunkReturns(t))
    /\ SF_vars(HandlerEnds(t))

Spec == Init /\ [][Next]_vars /\ Fairness

-----------------------------------------------------------------------------
(* Properties.                                                             *)

\* The Lua function that runs for an event is the event's own, and it gets
\* the event's object and arguments, in order.
CalledAsRaised ==
  \A t \in Thread : \A i \in DOMAIN calls[t] :
    LET c == calls[t][i]
    IN  c.pc \in {"handler", "thunk", "result"} =>
          c.called = <<<<"function", c.event>>, <<"gui", c.event>>>>
                       \o [k \in 1..c.nargs |-> <<"arg", c.event>>]

\* The values that lua_pcall is told to take are there, whatever other
\* threads have put on the stack in between.
CallHasItsValues ==
  \A t \in Thread :
    At(t, "args") /\ Call(t).left = 0 /\ MayEnter(t) => CalledAt(t) >= 1

\* There is one frame per Java method that Lua has called and that has not
\* returned, and only one thread has any.
FramesMatchThunks ==
  /\ Cardinality({t \in Thread : HoldsMonitor(t)}) <= 1
  /\ \A t \in Thread : HoldsMonitor(t) =>
       Len(frames) = 1 + Cardinality({i \in DOMAIN calls[t] : calls[t][i].pc = "thunk"})
  /\ (\A t \in Thread : ~HoldsMonitor(t)) => Len(frames) = 1

\* What was on a frame before an event stays there until the event has
\* ended, however it ends: an event inside a Lua function, a failed call and
\* the report of it leave the values of the code around them alone.
BelowBaseKept ==
  [][\A t \in Thread : \A i \in DOMAIN calls[t] :
       i <= Len(frames') =>
         IsPrefix(SubSeq(frames[i], 1, calls[t][i].base), frames'[i])]_vars

\* Between events the stack holds nothing but what Lua functions returned
\* and the nil of names without a function: no function, object or argument
\* is ever left behind.
OnlyResultsLeft ==
  ~crashed /\ (\A t \in Thread : calls[t] = <<>>)
    => \A i \in DOMAIN frames[1] : frames[1][i][1] \in {"nil"} \cup ResultKind

\* An event whose Lua function returned something yields its last value.
ResultIsLastValue ==
  ended.answer # <<>> => ended.result = Last(ended.answer)

\* lua_pop takes a count that is neither negative nor more than there is.
LegalPopCount == ~illegal

\* An event that is raised ends, unless the process dies.
EventsEnd == \A t \in Thread : calls[t] # <<>> ~> calls[t] = <<>> \/ crashed

=============================================================================
