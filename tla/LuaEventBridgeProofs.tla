------------------------- MODULE LuaEventBridgeProofs -------------------------
(* Proofs about LuaEventBridge. For any threads and bounds, that the monitor  *)
(* keeps the frames of Java methods apart and that a call finds as many values *)
(* as it takes. When one thread raises events, as the main thread of an       *)
(* application that starts no other: an event calls its own function with its *)
(* own values, yields the last value the function returned, and leaves nothing *)
(* but results and nils behind.                                               *)
EXTENDS LuaEventBridge, Integers, FiniteSetTheorems, SequenceTheorems, TLAPS

-----------------------------------------------------------------------------
(* Types *)

Kinds == {"nil", "text", "userdata", "function", "gui", "arg"}
Value == Kinds \X Nat
Pcs == {"function", "isnil", "gui", "args", "handler", "thunk", "result", "report"}
CallType == [pc : Pcs, event : Nat, byName : BOOLEAN, nargs : Nat, left : Nat, base : Nat,
             called : Seq(Value), answer : Seq(Value)]

TypeInv == /\ frames \in Seq(Seq(Value))
           /\ calls \in [Thread -> Seq(CallType)]
           /\ raised \in Nat

-----------------------------------------------------------------------------
(* The events in progress of one thread *)

Inside == {"handler", "thunk"}

\* All but the innermost event are in a Java method.
Nested(q) == \A i \in 1 .. Len(q) - 1 : q[i].pc = "thunk"

\* The thread has the monitor for one of its events.
Holds(q) == \E i \in 1 .. Len(q) : q[i].pc \in Inside

\* How many of them are in a Java method.
Depth(q) == IF q = <<>> THEN 0 ELSE IF q[Len(q)].pc = "thunk" THEN Len(q) ELSE Len(q) - 1

LEMMA FrontProperties ==
  ASSUME NEW S, NEW q \in Seq(S), q # <<>>
  PROVE  /\ Front(q) \in Seq(S) /\ Len(Front(q)) = Len(q) - 1
         /\ Len(q) \in Nat \ {0}
         /\ \A i \in 1 .. Len(q) - 1 : Front(q)[i] = q[i]
         /\ Last(q) = q[Len(q)] /\ Last(q) \in S
  <1>1. Len(q) \in Nat \ {0} /\ \A i \in 1 .. Len(q) : q[i] \in S
    OBVIOUS
  <1>2. Front(q) = SubSeq(q, 1, Len(q) - 1)
    BY DEF Front
  <1>3. Last(q) = q[Len(q)] /\ Last(q) \in S
    BY <1>1 DEF Last
  <1> DEFINE n == Len(q) - 1
  <1>4. n \in Nat /\ \A i \in 1 .. n : q[i] \in S
    BY <1>1
  <1> HIDE DEF n
  <1>5. /\ SubSeq(q, 1, n) \in Seq(S)
        /\ Len(SubSeq(q, 1, n)) = IF 1 <= n THEN n - 1 + 1 ELSE 0
        /\ \A i \in 1 .. n - 1 + 1 : SubSeq(q, 1, n)[i] = q[1 + i - 1]
    BY <1>4, SubSeqProperties
  <1>6. Len(SubSeq(q, 1, n)) = n /\ \A i \in 1 .. n : SubSeq(q, 1, n)[i] = q[i]
    BY <1>4, <1>5
  <1> QED
    BY <1>1, <1>2, <1>3, <1>5, <1>6 DEF n

\* The innermost event becomes another one.
LEMMA BecomesProperties ==
  ASSUME NEW S, NEW q \in Seq(S), q # <<>>, NEW c \in S
  PROVE  /\ Append(Front(q), c) \in Seq(S) /\ Append(Front(q), c) # <<>>
         /\ Len(Append(Front(q), c)) = Len(q) /\ Len(q) \in Nat \ {0}
         /\ Append(Front(q), c)[Len(q)] = c
         /\ \A i \in 1 .. Len(q) - 1 : Append(Front(q), c)[i] = q[i]
  <1> DEFINE f == Front(q)
  <1>1. f \in Seq(S) /\ Len(f) = Len(q) - 1 /\ Len(q) \in Nat \ {0} /\ \A i \in 1 .. Len(q) - 1 : f[i] = q[i]
    BY FrontProperties
  <1> HIDE DEF f
  <1>2. /\ Append(f, c) \in Seq(S) /\ Append(f, c) # <<>>
        /\ Len(Append(f, c)) = Len(q)
        /\ Append(f, c)[Len(q)] = c
        /\ \A i \in 1 .. Len(q) - 1 : Append(f, c)[i] = q[i]
    BY <1>1
  <1> QED
    BY <1>1, <1>2 DEF f

LEMMA Becoming ==
  ASSUME NEW q \in Seq(CallType), q # <<>>, Nested(q), NEW c \in CallType, NEW r, r = Append(Front(q), c)
  PROVE  /\ r \in Seq(CallType) /\ r # <<>> /\ Nested(r)
         /\ Depth(r) = IF c.pc = "thunk" THEN Len(q) ELSE Len(q) - 1
         /\ Holds(r) <=> Len(q) > 1 \/ c.pc \in Inside
  <1>1. /\ r \in Seq(CallType) /\ r # <<>> /\ Len(r) = Len(q) /\ Len(q) \in Nat \ {0} /\ r[Len(q)] = c
        /\ \A i \in 1 .. Len(q) - 1 : r[i] = q[i]
    BY BecomesProperties
  <1>2. Nested(r)
    BY <1>1 DEF Nested
  <1>3. Depth(r) = IF c.pc = "thunk" THEN Len(q) ELSE Len(q) - 1
    BY <1>1 DEF Depth
  <1>4. Len(q) > 1 => r[1].pc = "thunk"
    BY <1>1 DEF Nested
  <1>5. Holds(r) <=> Len(q) > 1 \/ c.pc \in Inside
    BY <1>1, <1>4 DEF Holds, Inside
  <1> QED
    BY <1>1, <1>2, <1>3, <1>5

LEMMA InnermostHolds ==
  ASSUME NEW q \in Seq(CallType), q # <<>>, Nested(q)
  PROVE  Holds(q) <=> Len(q) > 1 \/ Last(q).pc \in Inside
  <1>1. Last(q) = q[Len(q)] /\ Len(q) \in Nat \ {0}
    BY FrontProperties
  <1>2. Len(q) > 1 => q[1].pc = "thunk"
    BY <1>1 DEF Nested
  <1> QED
    BY <1>1, <1>2 DEF Holds, Inside

\* The innermost event ends, and the Java method that raised it goes on.
LEMMA Ending ==
  ASSUME NEW q \in Seq(CallType), q # <<>>, Nested(q), Last(q).pc \notin Inside
  PROVE  /\ Front(q) \in Seq(CallType) /\ Nested(Front(q))
         /\ Depth(Front(q)) = Depth(q) /\ (Holds(Front(q)) => Holds(q))
  <1> DEFINE r == Front(q)
  <1>1. /\ r \in Seq(CallType) /\ Len(r) = Len(q) - 1 /\ Len(q) \in Nat \ {0} /\ Last(q) = q[Len(q)]
        /\ \A i \in 1 .. Len(q) - 1 : r[i] = q[i]
    BY FrontProperties
  <1> HIDE DEF r
  <1>2. Nested(r)
    BY <1>1 DEF Nested
  <1>3. Depth(r) = Depth(q)
    <2>1. CASE Len(q) = 1
      BY <1>1, <2>1 DEF Depth, Inside
    <2>2. CASE Len(q) # 1
      BY <1>1, <2>2 DEF Depth, Inside, Nested
    <2> QED
      BY <2>1, <2>2
  <1>4. Holds(r) => Holds(q)
    BY <1>1 DEF Holds
  <1> QED
    BY <1>1, <1>2, <1>3, <1>4 DEF r

\* An event is raised by the thread's own code or in a Java method.
LEMMA Raising ==
  ASSUME NEW q \in Seq(CallType), q = <<>> \/ Last(q).pc = "thunk", Nested(q),
         NEW c \in CallType, c.pc = "function"
  PROVE  /\ Append(q, c) \in Seq(CallType) /\ Nested(Append(q, c))
         /\ Depth(Append(q, c)) = Depth(q) /\ (Holds(Append(q, c)) => Holds(q))
  <1> DEFINE r == Append(q, c)
  <1>1. /\ r \in Seq(CallType) /\ Len(r) = Len(q) + 1 /\ Len(q) \in Nat /\ r[Len(q) + 1] = c
        /\ \A i \in 1 .. Len(q) : r[i] = q[i]
    OBVIOUS
  <1>2. q # <<>> => Len(q) # 0 /\ q[Len(q)].pc = "thunk"
    BY FrontProperties
  <1> HIDE DEF r
  <1>3. Nested(r)
    BY <1>1, <1>2 DEF Nested
  <1>4. Depth(r) = Depth(q)
    BY <1>1, <1>2 DEF Depth
  <1>5. Holds(r) => Holds(q)
    BY <1>1 DEF Holds, Inside
  <1> QED
    BY <1>1, <1>3, <1>4, <1>5 DEF r

-----------------------------------------------------------------------------
(* The frames of Java methods *)

NestInv == \A t \in Thread : Nested(calls[t])
MonitorInv == \A t, u \in Thread : Holds(calls[t]) /\ Holds(calls[u]) => t = u
FrameInv == /\ \A t \in Thread : Holds(calls[t]) => Len(frames) = 1 + Depth(calls[t])
            /\ (\A t \in Thread : ~Holds(calls[t])) => Len(frames) = 1

BridgeInv == TypeInv /\ NestInv /\ MonitorInv /\ FrameInv

LEMMA HoldsIsMonitor ==
  ASSUME TypeInv, NEW t \in Thread
  PROVE  HoldsMonitor(t) <=> Holds(calls[t])
  <1>1. DOMAIN calls[t] = 1 .. Len(calls[t])
    BY DEF TypeInv
  <1> QED
    BY <1>1 DEF HoldsMonitor, Holds, Inside

LEMMA DepthWhenFree ==
  ASSUME NEW q \in Seq(CallType), Nested(q), ~Holds(q)
  PROVE  Depth(q) = 0
  <1>1. CASE q = <<>>
    BY <1>1 DEF Depth
  <1>2. CASE q # <<>>
    <2>1. Last(q) = q[Len(q)] /\ Len(q) \in Nat \ {0}
      BY <1>2, FrontProperties
    <2>2. ~(Len(q) > 1) /\ Last(q).pc \notin Inside
      BY <1>2, InnermostHolds
    <2>3. \A n \in Nat \ {0} : ~(n > 1) => n = 1
      OBVIOUS
    <2>4. Len(q) = 1
      BY <2>1, <2>2, <2>3
    <2>5. Last(q).pc # "thunk"
      BY <2>2 DEF Inside
    <2> QED
      BY <1>2, <2>1, <2>4, <2>5 DEF Depth
  <1> QED
    BY <1>1, <1>2

\* A step of thread t preserves the invariant when the frames grow as its Java
\* methods do, and it takes the monitor only when that is free.
LEMMA ThreadStep ==
  ASSUME BridgeInv, NEW t \in Thread, NEW q \in Seq(CallType), Nested(q),
         calls' = [calls EXCEPT ![t] = q], frames' \in Seq(Seq(Value)), raised' \in Nat,
         Len(frames') - Len(frames) = Depth(q) - Depth(calls[t]),
         Holds(q) => Holds(calls[t]) \/ MayEnter(t)
  PROVE  BridgeInv'
  <1>1. calls \in [Thread -> Seq(CallType)] /\ Len(frames) \in Nat /\ Len(frames') \in Nat
        /\ \A u \in Thread : Depth(calls[u]) \in Int /\ Depth(q) \in Int
    <2>1. calls \in [Thread -> Seq(CallType)] /\ Len(frames) \in Nat /\ Len(frames') \in Nat
      BY DEF BridgeInv, TypeInv
    <2>2. \A s \in Seq(CallType) : Depth(s) \in Int
      BY DEF Depth
    <2> QED
      BY <2>1, <2>2
  <1>2. calls'[t] = q /\ \A u \in Thread : u # t => calls'[u] = calls[u]
    BY <1>1
  <1>3. TypeInv'
    BY <1>1 DEF TypeInv
  <1>4. NestInv'
    BY <1>2 DEF BridgeInv, NestInv
  <1>5. Holds(q) => \A u \in Thread : u # t => ~Holds(calls[u])
    <2>1. CASE Holds(calls[t])
      BY <2>1 DEF BridgeInv, MonitorInv
    <2>2. CASE MayEnter(t)
      BY <2>2, HoldsIsMonitor DEF MayEnter, BridgeInv
    <2> QED
      BY <2>1, <2>2
  <1>6. MonitorInv'
    BY <1>2, <1>5 DEF BridgeInv, MonitorInv
  <1>7. ~Holds(q) => Depth(q) = 0
    BY DepthWhenFree
  <1>8. ~Holds(calls[t]) => Depth(calls[t]) = 0
    BY <1>1, DepthWhenFree DEF BridgeInv, NestInv
  <1>9. FrameInv'
    <2>1. CASE Holds(calls[t])
      <3>1. Len(frames) = 1 + Depth(calls[t]) /\ \A u \in Thread : u # t => ~Holds(calls[u])
        BY <2>1 DEF BridgeInv, FrameInv, MonitorInv
      <3>2. Len(frames') = 1 + Depth(q)
        BY <1>1, <3>1, SMTT(45)
      <3> QED
        BY <1>2, <1>7, <3>1, <3>2 DEF FrameInv
    <2>2. CASE ~Holds(calls[t]) /\ Holds(q)
      <3>1. Len(frames) = 1
        BY <1>5, <2>2 DEF BridgeInv, FrameInv
      <3>2. Len(frames') = 1 + Depth(q)
        BY <1>1, <1>8, <2>2, <3>1
      <3> QED
        BY <1>2, <1>5, <2>2, <3>2 DEF FrameInv
    <2>3. CASE ~Holds(calls[t]) /\ ~Holds(q)
      <3>1. Len(frames') = Len(frames)
        BY <1>1, <1>7, <1>8, <2>3
      <3>2. \A u \in Thread : (Holds(calls'[u]) <=> Holds(calls[u])) /\ (Holds(calls[u]) => calls'[u] = calls[u])
        BY <1>2, <2>3
      <3> QED
        BY <3>1, <3>2 DEF BridgeInv, FrameInv
    <2> QED
      BY <2>1, <2>2, <2>3
  <1> QED
    BY <1>3, <1>4, <1>6, <1>9 DEF BridgeInv

\* The frame in use.
LEMMA TopFrame ==
  ASSUME BridgeInv
  PROVE  /\ Len(frames) \in Nat \ {0} /\ frames # <<>>
         /\ Frame = frames[Len(frames)] /\ Frame \in Seq(Value)
         /\ \A f \in Seq(Value) : WithFrame(f) \in Seq(Seq(Value)) /\ Len(WithFrame(f)) = Len(frames)
                                  /\ WithFrame(f)[Len(frames)] = f
                                  /\ \A i \in 1 .. Len(frames) - 1 : WithFrame(f)[i] = frames[i]
  <1>1. Len(frames) \in Nat /\ frames \in Seq(Seq(Value))
    BY DEF BridgeInv, TypeInv
  <1>2. Len(frames) # 0
    <2>1. CASE \E t \in Thread : Holds(calls[t])
      <3>1. PICK t \in Thread : Holds(calls[t])
        BY <2>1
      <3>2. Len(frames) = 1 + Depth(calls[t]) /\ calls[t] \in Seq(CallType)
        BY <3>1 DEF BridgeInv, FrameInv, TypeInv
      <3>3. Depth(calls[t]) \in Nat
        BY <3>2 DEF Depth
      <3> QED
        BY <3>2, <3>3
    <2>2. CASE \A t \in Thread : ~Holds(calls[t])
      BY <2>2 DEF BridgeInv, FrameInv
    <2> QED
      BY <2>1, <2>2
  <1>3. Frame = frames[Len(frames)] /\ Frame \in Seq(Value)
    BY <1>1, <1>2 DEF Frame, Last
  <1>4. \A f \in Seq(Value) : WithFrame(f) \in Seq(Seq(Value)) /\ Len(WithFrame(f)) = Len(frames)
                              /\ WithFrame(f)[Len(frames)] = f
                              /\ \A i \in 1 .. Len(frames) - 1 : WithFrame(f)[i] = frames[i]
    BY <1>1, <1>2, ExceptSeq DEF WithFrame
  <1> QED
    BY <1>1, <1>2, <1>3, <1>4

LEMMA CallTyped ==
  ASSUME BridgeInv, NEW t \in Thread, calls[t] # <<>>
  PROVE  calls[t] \in Seq(CallType) /\ Call(t) \in CallType /\ Call(t) = calls[t][Len(calls[t])] /\ Nested(calls[t])
  <1>1. calls[t] \in Seq(CallType) /\ Nested(calls[t])
    BY DEF BridgeInv, TypeInv, NestInv
  <1> QED
    BY <1>1, FrontProperties DEF Call

\* The innermost event of t becomes c, on the same frames.
LEMMA StayStep ==
  ASSUME BridgeInv, NEW t \in Thread, calls[t] # <<>>, NEW c \in CallType, calls' = Become(t, c),
         frames' \in Seq(Seq(Value)), Len(frames') = Len(frames), raised' = raised,
         Call(t).pc # "thunk", c.pc # "thunk", c.pc = "handler" => Call(t).pc = "handler" \/ MayEnter(t)
  PROVE  BridgeInv'
  <1> DEFINE q == calls[t]
             r == Append(Front(q), c)
  <1>1. q \in Seq(CallType) /\ q # <<>> /\ Nested(q) /\ Last(q) = Call(t) /\ q[Len(q)] = Call(t)
    BY CallTyped DEF Call
  <1>2. calls' = [calls EXCEPT ![t] = r]
    BY DEF Become
  <1>3. Depth(q) = Len(q) - 1 /\ (Holds(q) <=> Len(q) > 1 \/ Call(t).pc \in Inside)
    BY <1>1, InnermostHolds DEF Depth
  <1> HIDE DEF q
  <1>4. r \in Seq(CallType) /\ Nested(r) /\ Depth(r) = Len(q) - 1 /\ (Holds(r) <=> Len(q) > 1 \/ c.pc \in Inside)
    BY <1>1, Becoming
  <1> HIDE DEF r
  <1>5. Holds(r) => Holds(q) \/ MayEnter(t)
    BY <1>3, <1>4 DEF Inside
  <1>6. Len(frames') - Len(frames) = Depth(r) - Depth(q) /\ raised' \in Nat
    <2>1. Len(frames) \in Nat /\ Len(q) \in Nat
      BY <1>1 DEF BridgeInv, TypeInv
    <2> QED
      BY <1>3, <1>4, <2>1 DEF BridgeInv, TypeInv
  <1> QED
    BY <1>2, <1>4, <1>5, <1>6, ThreadStep DEF q

\* The innermost event of t ends.
LEMMA EndStep ==
  ASSUME BridgeInv, NEW t \in Thread, calls[t] # <<>>, Call(t).pc \notin Inside,
         calls' = [calls EXCEPT ![t] = Front(@)],
         frames' \in Seq(Seq(Value)), Len(frames') = Len(frames), raised' = raised
  PROVE  BridgeInv'
  <1> DEFINE q == calls[t]
             r == Front(q)
  <1>1. q \in Seq(CallType) /\ q # <<>> /\ Nested(q) /\ Last(q) = Call(t)
    BY CallTyped DEF Call
  <1>2. calls' = [calls EXCEPT ![t] = r]
    OBVIOUS
  <1> HIDE DEF q
  <1>3. r \in Seq(CallType) /\ Nested(r) /\ Depth(r) = Depth(q) /\ (Holds(r) => Holds(q))
    BY <1>1, Ending
  <1> HIDE DEF r
  <1>4. Len(frames') - Len(frames) = Depth(r) - Depth(q) /\ raised' \in Nat
    <2>1. Len(frames) \in Nat /\ Depth(q) \in Int
      BY <1>1 DEF BridgeInv, TypeInv, Depth
    <2> QED
      BY <1>3, <2>1 DEF BridgeInv, TypeInv
  <1> QED
    BY <1>2, <1>3, <1>4, ThreadStep DEF q

-----------------------------------------------------------------------------
(* The steps *)

LEMMA BridgeInvInit == Init => BridgeInv
  <1> SUFFICES ASSUME Init PROVE BridgeInv
    OBVIOUS
  <1>1. frames = <<<<>>>> /\ raised = 0 /\ \A t \in Thread : calls[t] = <<>>
    BY DEF Init
  <1>2. TypeInv
    BY DEF Init, TypeInv
  <1>3. \A t \in Thread : Nested(calls[t]) /\ ~Holds(calls[t])
    BY <1>1 DEF Nested, Holds
  <1>4. Len(frames) = 1
    BY <1>1
  <1> QED
    BY <1>2, <1>3, <1>4 DEF BridgeInv, NestInv, MonitorInv, FrameInv

\* A call that differs from the innermost one in where it is.
LEMMA GoToTyped ==
  ASSUME BridgeInv, NEW t \in Thread, calls[t] # <<>>, NEW pc \in Pcs
  PROVE  [Call(t) EXCEPT !.pc = pc] \in CallType /\ [Call(t) EXCEPT !.pc = pc].pc = pc
  BY CallTyped DEF CallType

LEMMA PushStep ==
  ASSUME BridgeInv, NEW t \in Thread, calls[t] # <<>>, NEW v \in Value, NEW c \in CallType,
         Push(t, v, Become(t, c)), Call(t).pc \notin Inside, c.pc \notin Inside
  PROVE  BridgeInv'
  <1>1. CASE frames' = WithFrame(Append(Frame, v)) /\ calls' = Become(t, c)
    <2>1. Append(Frame, v) \in Seq(Value)
      BY TopFrame
    <2>2. frames' \in Seq(Seq(Value)) /\ Len(frames') = Len(frames)
      BY <1>1, <2>1, TopFrame
    <2> QED
      BY <1>1, <2>2, StayStep DEF Push, Inside
  <1>2. CASE Escape(t) /\ UNCHANGED frames
    BY <1>2, EndStep DEF Push, Escape, BridgeInv, TypeInv
  <1> QED
    BY <1>1, <1>2 DEF Push

LEMMA RaiseStep ==
  ASSUME BridgeInv, NEW t \in Thread, NEW byName \in BOOLEAN, NEW n \in 0 .. MaxArgs, Raise(t, byName, n)
  PROVE  BridgeInv'
  <1> DEFINE q == calls[t]
             c == [pc |-> "function", event |-> raised + 1, byName |-> byName, nargs |-> n, left |-> n,
                   base |-> Len(Frame), called |-> <<>>, answer |-> <<>>]
             r == Append(q, c)
  <1>1. q \in Seq(CallType) /\ Nested(q) /\ (q = <<>> \/ Last(q).pc = "thunk")
    BY DEF BridgeInv, TypeInv, NestInv, Raise, At, Call
  <1>2. c \in CallType /\ c.pc = "function"
    BY TopFrame, BridgeAssumption DEF CallType, Pcs, BridgeInv, TypeInv
  <1>3. calls' = [calls EXCEPT ![t] = r]
    BY DEF Raise
  <1>4. frames' = frames /\ raised' \in Nat
    BY DEF Raise, BridgeInv, TypeInv
  <1> HIDE DEF q, c
  <1>5. r \in Seq(CallType) /\ Nested(r) /\ Depth(r) = Depth(q) /\ (Holds(r) => Holds(q))
    BY <1>1, <1>2, Raising
  <1> HIDE DEF r
  <1>6. frames' \in Seq(Seq(Value)) /\ Len(frames') - Len(frames) = Depth(r) - Depth(q)
    <2>1. Len(frames) \in Nat /\ Depth(q) \in Int
      BY <1>1 DEF BridgeInv, TypeInv, Depth
    <2> QED
      BY <1>4, <1>5, <2>1 DEF BridgeInv, TypeInv
  <1> QED
    BY <1>3, <1>4, <1>5, <1>6, ThreadStep DEF q

LEMMA PCallStep ==
  ASSUME BridgeInv, NEW t \in Thread, PCall(t)
  PROVE  BridgeInv'
  <1> DEFINE at == CalledAt(t)
             pc == IF Frame[at][1] = "function" THEN "handler" ELSE "report"
             called == SubSeq(Frame, at, Len(Frame))
             left == SubSeq(Frame, 1, at - 1)
             c == [Call(t) EXCEPT !.pc = pc, !.called = called]
  <1>1. calls[t] # <<>> /\ Call(t).pc = "args" /\ MayEnter(t) /\ at >= 1
    BY DEF PCall, At
  <1>2. Call(t) \in CallType /\ Frame \in Seq(Value)
    BY <1>1, CallTyped, TopFrame
  <1>3. at \in 1 .. Len(Frame) /\ Len(Frame) \in Nat
    BY <1>1, <1>2 DEF CalledAt, CallType
  <1>4. frames' = WithFrame(left) /\ calls' = Become(t, c) /\ raised' = raised
    BY DEF PCall
  <1>5. pc \in {"handler", "report"}
    OBVIOUS
  <1> HIDE DEF at, pc
  <1>6. called \in Seq(Value) /\ left \in Seq(Value)
    BY <1>2, <1>3, SubSeqProperties
  <1> HIDE DEF called, left
  <1>7. c \in CallType /\ c.pc = pc
    BY <1>2, <1>5, <1>6 DEF CallType, Pcs
  <1> HIDE DEF c
  <1>8. frames' \in Seq(Seq(Value)) /\ Len(frames') = Len(frames)
    BY <1>4, <1>6, TopFrame
  <1>9. Call(t).pc # "thunk" /\ c.pc # "thunk"
    BY <1>1, <1>5, <1>7
  <1> QED
    BY <1>1, <1>4, <1>7, <1>8, <1>9, StayStep

LEMMA ThunkStep ==
  ASSUME BridgeInv, NEW t \in Thread, Thunk(t)
  PROVE  BridgeInv'
  <1> DEFINE q == calls[t]
             c == [Call(t) EXCEPT !.pc = "thunk"]
             r == Append(Front(q), c)
  <1>1. q \in Seq(CallType) /\ q # <<>> /\ Nested(q) /\ Last(q) = Call(t) /\ q[Len(q)] = Call(t)
        /\ Call(t).pc = "handler"
    BY CallTyped DEF Call, Thunk, At
  <1>2. c \in CallType /\ c.pc = "thunk"
    BY <1>1, GoToTyped DEF Pcs
  <1>3. calls' = [calls EXCEPT ![t] = r] /\ raised' = raised
    BY DEF Thunk, GoTo, Become
  <1>4. PICK n \in 0 .. 1 : frames' = Append(frames, [i \in 1 .. n |-> <<"userdata", 0>>])
    BY DEF Thunk
  <1>5. [i \in 1 .. n |-> <<"userdata", 0>>] \in Seq(Value)
    BY DEF Value, Kinds
  <1>6. frames' \in Seq(Seq(Value)) /\ Len(frames') = Len(frames) + 1 /\ Len(frames) \in Nat
    <2> DEFINE f == [i \in 1 .. n |-> <<"userdata", 0>>]
    <2>1. frames \in Seq(Seq(Value)) /\ f \in Seq(Value)
      BY <1>5 DEF BridgeInv, TypeInv
    <2> HIDE DEF f
    <2>2. Append(frames, f) \in Seq(Seq(Value)) /\ Len(Append(frames, f)) = Len(frames) + 1 /\ Len(frames) \in Nat
      BY <2>1
    <2> QED
      BY <1>4, <2>2 DEF f
  <1>7. Depth(q) = Len(q) - 1 /\ Holds(q)
    BY <1>1, InnermostHolds DEF Depth, Inside
  <1> HIDE DEF q, c
  <1>8. r \in Seq(CallType) /\ Nested(r) /\ Depth(r) = Len(q)
    BY <1>1, <1>2, Becoming
  <1> HIDE DEF r
  <1>9. Len(frames') - Len(frames) = Depth(r) - Depth(q) /\ raised' \in Nat
    <2>1. Len(q) \in Nat
      BY <1>1
    <2> QED
      BY <1>3, <1>6, <1>7, <1>8, <2>1 DEF BridgeInv, TypeInv
  <1> QED
    BY <1>3, <1>6, <1>7, <1>8, <1>9, ThreadStep DEF q

LEMMA ThunkReturnsStep ==
  ASSUME BridgeInv, NEW t \in Thread, ThunkReturns(t)
  PROVE  BridgeInv'
  <1> DEFINE q == calls[t]
             c == [Call(t) EXCEPT !.pc = "handler"]
             r == Append(Front(q), c)
  <1>1. q \in Seq(CallType) /\ q # <<>> /\ Nested(q) /\ Last(q) = Call(t) /\ q[Len(q)] = Call(t)
        /\ Call(t).pc = "thunk"
    BY CallTyped DEF Call, ThunkReturns, At
  <1>2. c \in CallType /\ c.pc = "handler"
    BY <1>1, GoToTyped DEF Pcs
  <1>3. calls' = [calls EXCEPT ![t] = r] /\ raised' = raised /\ frames' = Front(frames)
    BY DEF ThunkReturns, GoTo, Become
  <1>4. frames' \in Seq(Seq(Value)) /\ Len(frames') = Len(frames) - 1 /\ Len(frames) \in Nat
    BY <1>3, TopFrame, FrontProperties DEF BridgeInv, TypeInv
  <1>5. Depth(q) = Len(q) /\ Holds(q)
    BY <1>1, InnermostHolds DEF Depth, Inside
  <1> HIDE DEF q, c
  <1>6. r \in Seq(CallType) /\ Nested(r) /\ Depth(r) = Len(q) - 1
    BY <1>1, <1>2, Becoming
  <1> HIDE DEF r
  <1>7. Len(frames') - Len(frames) = Depth(r) - Depth(q) /\ raised' \in Nat
    <2>1. Len(q) \in Nat
      BY <1>1
    <2> QED
      BY <1>3, <1>4, <1>5, <1>6, <2>1 DEF BridgeInv, TypeInv
  <1> QED
    BY <1>3, <1>4, <1>5, <1>6, <1>7, ThreadStep DEF q

LEMMA HandlerStep ==
  ASSUME BridgeInv, NEW t \in Thread, HandlerEnds(t)
  PROVE  BridgeInv'
  <1>1. calls[t] # <<>> /\ Call(t).pc = "handler" /\ raised' = raised
    BY DEF HandlerEnds, HandlerReturns, HandlerFails, At
  <1>2. CASE HandlerFails(t)
    <2> DEFINE c == [Call(t) EXCEPT !.pc = "report"]
    <2>1. c \in CallType /\ c.pc = "report"
      BY <1>1, GoToTyped DEF Pcs
    <2>2. calls' = Become(t, c) /\ frames' = frames
      BY <1>2 DEF HandlerFails, GoTo
    <2> HIDE DEF c
    <2>3. frames' \in Seq(Seq(Value)) /\ Len(frames') = Len(frames)
      BY <2>2 DEF BridgeInv, TypeInv
    <2> QED
      BY <1>1, <2>1, <2>2, <2>3, StayStep
  <1>3. ASSUME NEW kind \in ResultKind, NEW n \in 0 .. MaxResults, HandlerReturns(t, kind, n)
        PROVE  BridgeInv'
    <2> DEFINE answer == [i \in 1 .. n |-> <<kind, Call(t).event>>]
               c == [Call(t) EXCEPT !.pc = "result", !.answer = answer]
    <2>1. Call(t) \in CallType /\ Frame \in Seq(Value)
      BY <1>1, CallTyped, TopFrame
    <2>2. answer \in Seq(Value)
      <3>1. <<kind, Call(t).event>> \in Value
        BY <2>1, BridgeAssumption DEF Value, Kinds, CallType
      <3>2. n \in Nat
        BY BridgeAssumption
      <3> DEFINE v == <<kind, Call(t).event>>
      <3> HIDE DEF v
      <3>3. [i \in 1 .. n |-> v] \in Seq(Value)
        BY <3>1, <3>2 DEF v
      <3> QED
        BY <3>3 DEF v
    <2>3. frames' = WithFrame(Frame \o answer) /\ calls' = Become(t, c)
      BY <1>3 DEF HandlerReturns
    <2> HIDE DEF answer
    <2>4. c \in CallType /\ c.pc = "result"
      BY <2>1, <2>2 DEF CallType, Pcs
    <2>5. Frame \o answer \in Seq(Value)
      BY <2>1, <2>2, ConcatProperties
    <2> HIDE DEF c
    <2>6. frames' \in Seq(Seq(Value)) /\ Len(frames') = Len(frames)
      BY <2>3, <2>5, TopFrame
    <2> QED
      BY <1>1, <2>3, <2>4, <2>6, StayStep
  <1> QED
    BY <1>2, <1>3 DEF HandlerEnds

LEMMA EngineStep ==
  ASSUME BridgeInv, NEW t \in Thread, Engine(t)
  PROVE  BridgeInv'
  <1>0. calls[t] # <<>> /\ calls[t] \in Seq(CallType) /\ Call(t) \in CallType /\ Call(t).pc \notin Inside
        /\ frames \in Seq(Seq(Value)) /\ \A kind \in Kinds : <<kind, Call(t).event>> \in Value
    <2>1. calls[t] # <<>> /\ Call(t).pc \notin Inside
      BY DEF Engine, RawGetI, GetGlobal, InvalidFunction, ValidFunction, PushGui, PushArg, PCall, Result,
             ResultOfFunction, ReportText, ReportNothing, At, Inside
    <2>2. Call(t) \in CallType /\ calls[t] \in Seq(CallType)
      BY <2>1, CallTyped
    <2> QED
      BY <2>1, <2>2 DEF BridgeInv, TypeInv, Value, CallType
  <1>1. \A pc \in Pcs : [Call(t) EXCEPT !.pc = pc] \in CallType /\ [Call(t) EXCEPT !.pc = pc].pc = pc
    BY <1>0, GoToTyped
  <1>2. CASE RawGetI(t)
    <2> DEFINE c == [Call(t) EXCEPT !.pc = "gui"]
    <2>1. c \in CallType /\ c.pc \notin Inside /\ <<"function", Call(t).event>> \in Value
      BY <1>0, <1>1 DEF Pcs, Inside, Kinds
    <2>2. Push(t, <<"function", Call(t).event>>, Become(t, c))
      BY <1>2 DEF RawGetI, GoTo
    <2> HIDE DEF c
    <2> QED
      BY <1>0, <2>1, <2>2, PushStep
  <1>3. CASE GetGlobal(t)
    <2> DEFINE c == [Call(t) EXCEPT !.pc = "isnil"]
    <2>1. PICK kind \in {"function", "nil"} : Push(t, <<kind, Call(t).event>>, Become(t, c))
      BY <1>3 DEF GetGlobal, GoTo
    <2>2. c \in CallType /\ c.pc \notin Inside /\ <<kind, Call(t).event>> \in Value
      BY <1>0, <1>1 DEF Pcs, Inside, Kinds
    <2> HIDE DEF c
    <2> QED
      BY <1>0, <2>1, <2>2, PushStep
  <1>4. CASE ValidFunction(t)
    <2> DEFINE c == [Call(t) EXCEPT !.pc = "gui"]
    <2>1. c \in CallType /\ c.pc = "gui"
      BY <1>1 DEF Pcs
    <2>2. calls' = Become(t, c) /\ frames' = frames /\ raised' = raised /\ Call(t).pc # "thunk"
      BY <1>4 DEF ValidFunction, GoTo, At
    <2> HIDE DEF c
    <2> QED
      BY <1>0, <2>1, <2>2, StayStep
  <1>5. CASE PushGui(t)
    <2> DEFINE c == [Call(t) EXCEPT !.pc = "args"]
    <2>1. c \in CallType /\ c.pc \notin Inside /\ <<"gui", Call(t).event>> \in Value
      BY <1>0, <1>1 DEF Pcs, Inside, Kinds
    <2>2. Push(t, <<"gui", Call(t).event>>, Become(t, c))
      BY <1>5 DEF PushGui, GoTo
    <2> HIDE DEF c
    <2> QED
      BY <1>0, <2>1, <2>2, PushStep
  <1>6. CASE PushArg(t)
    <2> DEFINE less == Call(t).left - 1
               c == [Call(t) EXCEPT !.left = less]
    <2>1. Call(t).pc = "args" /\ Call(t).left > 0 /\ Push(t, <<"arg", Call(t).event>>, Become(t, c))
      BY <1>6 DEF PushArg, At
    <2>2. less \in Nat
      <3>1. Call(t).left \in Nat /\ Call(t).left > 0
        BY <1>0, <2>1 DEF CallType
      <3>2. \A n \in Nat : n > 0 => n - 1 \in Nat
        OBVIOUS
      <3> QED
        BY <3>1, <3>2
    <2> HIDE DEF less
    <2>3. c \in CallType /\ c.pc = Call(t).pc
      BY <1>0, <2>2 DEF CallType
    <2>4. c.pc \notin Inside /\ <<"arg", Call(t).event>> \in Value
      BY <1>0, <2>3 DEF Kinds
    <2> HIDE DEF c
    <2> QED
      BY <1>0, <2>1, <2>3, <2>4, PushStep
  <1>7. CASE PCall(t)
    BY <1>7, PCallStep
  <1>8. CASE InvalidFunction(t) \/ Result(t) \/ ReportText(t) \/ ReportNothing(t)
    <2>1. calls' = [calls EXCEPT ![t] = Front(@)] /\ frames' = frames /\ raised' = raised
      BY <1>8 DEF InvalidFunction, Result, ReportText, ReportNothing, Return, Escape
    <2> QED
      BY <1>0, <2>1, EndStep
  <1>9. CASE ResultOfFunction(t)
    <2>1. UNCHANGED <<calls, frames, raised>>
      BY <1>9 DEF ResultOfFunction
    <2> QED
      BY <2>1 DEF BridgeInv, TypeInv, NestInv, MonitorInv, FrameInv
  <1> QED
    BY <1>2, <1>3, <1>4, <1>5, <1>6, <1>7, <1>8, <1>9 DEF Engine

LEMMA BridgeInvStep == BridgeInv /\ [Next]_vars => BridgeInv'
  <1> SUFFICES ASSUME BridgeInv, [Next]_vars PROVE BridgeInv'
    OBVIOUS
  <1>1. CASE UNCHANGED vars
    BY <1>1 DEF vars, BridgeInv, TypeInv, NestInv, MonitorInv, FrameInv
  <1>2. ASSUME NEW t \in Thread, NEW byName \in BOOLEAN, NEW n \in 0 .. MaxArgs, Raise(t, byName, n)
        PROVE  BridgeInv'
    BY <1>2, RaiseStep
  <1>3. ASSUME NEW t \in Thread, Engine(t)
        PROVE  BridgeInv'
    BY <1>3, EngineStep
  <1>4. ASSUME NEW t \in Thread, Thunk(t)
        PROVE  BridgeInv'
    BY <1>4, ThunkStep
  <1>5. ASSUME NEW t \in Thread, ThunkReturns(t)
        PROVE  BridgeInv'
    BY <1>5, ThunkReturnsStep
  <1>6. ASSUME NEW t \in Thread, HandlerEnds(t)
        PROVE  BridgeInv'
    BY <1>6, HandlerStep
  <1> QED
    BY <1>1, <1>2, <1>3, <1>4, <1>5, <1>6 DEF Next

\* The Java methods in progress are the outermost events of the thread.
LEMMA ThunksAreNested ==
  ASSUME NEW q \in Seq(CallType), Nested(q)
  PROVE  Cardinality({i \in DOMAIN q : q[i].pc = "thunk"}) = Depth(q)
  <1>1. Len(q) \in Nat /\ DOMAIN q = 1 .. Len(q) /\ (q # <<>> => Len(q) # 0)
    OBVIOUS
  <1>2. Depth(q) \in Nat
    BY <1>1 DEF Depth
  <1>3. {i \in DOMAIN q : q[i].pc = "thunk"} = 1 .. Depth(q)
    <2>1. CASE q = <<>>
      BY <2>1 DEF Depth
    <2>2. CASE q # <<>> /\ q[Len(q)].pc = "thunk"
      BY <1>1, <2>2 DEF Depth, Nested
    <2>3. CASE q # <<>> /\ q[Len(q)].pc # "thunk"
      BY <1>1, <2>3 DEF Depth, Nested
    <2> QED
      BY <2>1, <2>2, <2>3
  <1>4. \A n \in Nat : Cardinality(1 .. n) = n
    <2> TAKE n \in Nat
    <2>1. Cardinality(1 .. n) = (IF 1 > n THEN 0 ELSE n - 1 + 1)
      BY FS_Interval
    <2> QED
      BY <2>1
  <1> QED
    BY <1>2, <1>3, <1>4

LEMMA BridgeInvFrames == BridgeInv => FramesMatchThunks
  <1> SUFFICES ASSUME BridgeInv PROVE FramesMatchThunks
    OBVIOUS
  <1>1. \A t \in Thread : HoldsMonitor(t) <=> Holds(calls[t])
    BY HoldsIsMonitor DEF BridgeInv
  <1>2. Cardinality({t \in Thread : HoldsMonitor(t)}) <= 1
    <2> DEFINE S == {t \in Thread : HoldsMonitor(t)}
    <2>1. CASE S = {}
      BY <2>1, FS_EmptySet
    <2>2. CASE S # {}
      <3>1. PICK t \in Thread : t \in S
        BY <2>2
      <3>2. S = {t}
        BY <1>1, <3>1 DEF BridgeInv, MonitorInv
      <3>3. Cardinality({t}) = 1
        BY FS_Singleton
      <3> QED
        BY <3>2, <3>3
    <2> QED
      BY <2>1, <2>2
  <1>3. \A t \in Thread : HoldsMonitor(t) =>
          Len(frames) = 1 + Cardinality({i \in DOMAIN calls[t] : calls[t][i].pc = "thunk"})
    <2>1. \A t \in Thread : Cardinality({i \in DOMAIN calls[t] : calls[t][i].pc = "thunk"}) = Depth(calls[t])
      BY ThunksAreNested DEF BridgeInv, TypeInv, NestInv
    <2> QED
      BY <1>1, <2>1 DEF BridgeInv, FrameInv
  <1>4. (\A t \in Thread : ~HoldsMonitor(t)) => Len(frames) = 1
    BY <1>1 DEF BridgeInv, FrameInv
  <1> QED
    BY <1>2, <1>3, <1>4 DEF FramesMatchThunks

\* However many threads raise events, and however deep Java methods nest: at
\* most one thread is inside Lua, and the stack has one frame for each Java
\* method that Lua has called and that has not returned.
THEOREM FramesOfThunks == Spec => []FramesMatchThunks
  <1>1. Init => BridgeInv
    BY BridgeInvInit
  <1>2. BridgeInv /\ [Next]_vars => BridgeInv'
    BY BridgeInvStep
  <1>3. BridgeInv => FramesMatchThunks
    BY BridgeInvFrames
  <1> QED
    BY <1>1, <1>2, <1>3, PTL DEF Spec

-----------------------------------------------------------------------------
(* The values that events have pushed and not yet given to lua_pcall          *)

\* How many that are of event c.
PushedBy(c) ==
  IF c.pc \in {"isnil", "gui"} THEN 1 ELSE IF c.pc = "args" THEN 2 + c.nargs - c.left ELSE 0

ArgsLeft(c) == /\ c.pc \in {"function", "isnil", "gui"} => c.left = c.nargs
               /\ c.pc = "args" => c.left <= c.nargs

\* Those of a thread's outermost event are on the base frame, with those of
\* other threads in any order; no thread takes more than it has pushed.
OnBase(q) == IF Len(q) = 1 THEN PushedBy(q[1]) ELSE 0
Claims == {p \in Thread \X Nat : p[2] \in 1 .. OnBase(calls[p[1]])}

ClaimInv ==
  /\ \A t \in Thread : \A i \in 1 .. Len(calls[t]) : ArgsLeft(calls[t][i])
  /\ IsFiniteSet(Claims) /\ Cardinality(Claims) <= Len(frames[1])
  /\ \A t \in Thread : Len(calls[t]) > 1 => PushedBy(Call(t)) <= Len(Frame)

LEMMA RowSize ==
  ASSUME NEW x, NEW n \in Nat
  PROVE  IsFiniteSet({x} \X (1 .. n)) /\ Cardinality({x} \X (1 .. n)) = n
  <1>1. IsFiniteSet({x}) /\ Cardinality({x}) = 1
    BY FS_Singleton
  <1>2. IsFiniteSet(1 .. n) /\ Cardinality(1 .. n) = n
    <2>1. IsFiniteSet(1 .. n) /\ Cardinality(1 .. n) = IF 1 > n THEN 0 ELSE n - 1 + 1
      BY FS_Interval
    <2> QED
      BY <2>1
  <1>3. /\ IsFiniteSet({x} \X (1 .. n))
        /\ Cardinality({x} \X (1 .. n)) = Cardinality({x}) * Cardinality(1 .. n)
    <2> DEFINE S == {x}
               T == 1 .. n
    <2>1. IsFiniteSet(S) /\ IsFiniteSet(T)
      BY <1>1, <1>2
    <2> HIDE DEF S, T
    <2>2. IsFiniteSet(S \X T) /\ Cardinality(S \X T) = Cardinality(S) * Cardinality(T)
      BY <2>1, FS_Product, Zenon
    <2> QED
      BY <2>2, Zenon DEF S, T
  <1>4. 1 * n = n
    OBVIOUS
  <1> QED
    BY <1>1, <1>2, <1>3, <1>4, Zenon

LEMMA PushedByType ==
  ASSUME NEW c \in CallType, ArgsLeft(c)
  PROVE  PushedBy(c) \in Nat
  BY DEF PushedBy, ArgsLeft, CallType

LEMMA OnBaseType ==
  ASSUME NEW q \in Seq(CallType), \A i \in 1 .. Len(q) : ArgsLeft(q[i])
  PROVE  OnBase(q) \in Nat
  <1>1. Len(q) = 1 => q[1] \in CallType /\ ArgsLeft(q[1])
    OBVIOUS
  <1> QED
    BY <1>1, PushedByType DEF OnBase

\* What thread t claims changes, and nothing else.
LEMMA ClaimsChange ==
  ASSUME BridgeInv, ClaimInv, NEW t \in Thread, NEW q \in Seq(CallType),
         \A i \in 1 .. Len(q) : ArgsLeft(q[i]), calls' = [calls EXCEPT ![t] = q]
  PROVE  /\ IsFiniteSet(Claims') /\ Cardinality(Claims) \in Nat
         /\ Cardinality(Claims') = Cardinality(Claims) - OnBase(calls[t]) + OnBase(q)
  <1> DEFINE m == OnBase(calls[t])
             n == OnBase(q)
             Old == {t} \X (1 .. m)
             New == {t} \X (1 .. n)
             Rest == Claims \ Old
  <1>1. m \in Nat /\ n \in Nat
    BY OnBaseType DEF ClaimInv, BridgeInv, TypeInv
  <1>2. \A u \in Thread : OnBase(calls'[u]) = IF u = t THEN n ELSE OnBase(calls[u])
    BY DEF BridgeInv, TypeInv
  <1> HIDE DEF m, n
  <1>3. Old \subseteq Claims
    BY <1>1 DEF Claims, m
  <1>4. Claims' = Rest \cup New
    <2>1. ASSUME NEW u \in Thread, NEW k \in Nat
          PROVE  <<u, k>> \in Claims' <=> <<u, k>> \in Rest \cup New
      BY <1>1, <1>2 DEF Claims, m, n
    <2>2. Claims' \subseteq Thread \X Nat /\ Rest \cup New \subseteq Thread \X Nat
      BY <1>1 DEF Claims
    <2> QED
      BY <2>1, <2>2
  <1>5. IsFiniteSet(Old) /\ Cardinality(Old) = m /\ IsFiniteSet(New) /\ Cardinality(New) = n
    BY <1>1, RowSize
  <1>6. IsFiniteSet(Claims) /\ Cardinality(Claims) \in Nat
    BY FS_CardinalityType DEF ClaimInv
  <1>7. Claims \cap Old = Old /\ Rest \cap New = {}
    <2>1. \A p \in Rest : p[1] # t
      BY <1>1 DEF Claims, m
    <2> QED
      BY <1>3, <2>1
  <1> HIDE DEF Old, New
  <1>8. IsFiniteSet(Rest) /\ Cardinality(Rest) = Cardinality(Claims) - m
    <2>1. IsFiniteSet(Claims \ Old) /\ Cardinality(Claims \ Old) = Cardinality(Claims) - Cardinality(Claims \cap Old)
      BY <1>6, FS_Difference
    <2> QED
      BY <1>5, <1>7, <2>1
  <1> HIDE DEF Rest
  <1>9. IsFiniteSet(Rest \cup New) /\ Cardinality(Rest \cup New) = Cardinality(Claims) - m + n
    <2>1. /\ IsFiniteSet(Rest \cup New)
          /\ Cardinality(Rest \cup New) = Cardinality(Rest) + Cardinality(New) - Cardinality(Rest \cap New)
      BY <1>5, <1>8, FS_Union
    <2>2. Cardinality(Rest \cap New) = 0
      BY <1>7, FS_EmptySet
    <2> QED
      BY <1>1, <1>5, <1>6, <1>8, <2>1, <2>2
  <1> QED
    BY <1>4, <1>6, <1>9 DEF m, n

LEMMA BaseFrame ==
  ASSUME BridgeInv
  PROVE  frames \in Seq(Seq(Value)) /\ Len(frames) \in Nat \ {0} /\ Len(frames[1]) \in Nat /\ Len(Frame) \in Nat
  <1>1. frames \in Seq(Seq(Value)) /\ Len(frames) \in Nat \ {0} /\ Frame \in Seq(Value)
    BY TopFrame DEF BridgeInv, TypeInv
  <1>2. 1 \in 1 .. Len(frames)
    BY <1>1
  <1>3. frames[1] \in Seq(Value)
    BY <1>1, <1>2
  <1> QED
    BY <1>1, <1>3

\* A step of thread t leaves on the base frame at least what is claimed there,
\* when the frame grows by no less than the claims of t.
LEMMA ThreadClaims ==
  ASSUME BridgeInv, ClaimInv, NEW t \in Thread, NEW q \in Seq(CallType),
         \A i \in 1 .. Len(q) : ArgsLeft(q[i]), calls' = [calls EXCEPT ![t] = q],
         Len(frames'[1]) \in Nat, Len(frames'[1]) - Len(frames[1]) >= OnBase(q) - OnBase(calls[t]),
         Len(q) > 1 => PushedBy(q[Len(q)]) <= Len(Frame'),
         frames' = frames \/ Holds(calls[t]) \/ MayEnter(t)
  PROVE  ClaimInv'
  <1>1. calls'[t] = q /\ \A u \in Thread : u # t => calls'[u] = calls[u]
    BY DEF BridgeInv, TypeInv
  <1>2. \A u \in Thread : \A i \in 1 .. Len(calls'[u]) : ArgsLeft(calls'[u][i])
    BY <1>1 DEF ClaimInv
  <1>3. IsFiniteSet(Claims') /\ Cardinality(Claims') <= Len(frames'[1])
    <2>1. OnBase(q) \in Nat /\ OnBase(calls[t]) \in Nat
      BY OnBaseType DEF ClaimInv, BridgeInv, TypeInv
    <2>2. /\ IsFiniteSet(Claims') /\ Cardinality(Claims) \in Nat
          /\ Cardinality(Claims') = Cardinality(Claims) - OnBase(calls[t]) + OnBase(q)
      BY ClaimsChange
    <2>3. Len(frames[1]) \in Nat
      BY TopFrame, SMTT(45) DEF BridgeInv, TypeInv
    <2>4. Cardinality(Claims) <= Len(frames[1])
      BY DEF ClaimInv
    <2>5. \A a, b, c, d, e \in Nat : e - d >= b - c /\ a <= d => a - c + b <= e
      OBVIOUS
    <2>6. Cardinality(Claims) - OnBase(calls[t]) + OnBase(q) <= Len(frames'[1])
      BY <2>1, <2>2, <2>3, <2>4, <2>5
    <2> QED
      BY <2>2, <2>6
  <1>4. ASSUME NEW u \in Thread, Len(calls'[u]) > 1 PROVE PushedBy(Call(u)') <= Len(Frame')
    <2>1. CASE u = t
      <3>1. Call(u)' = q[Len(q)]
        BY <1>1, <2>1 DEF Call, Last
      <3> QED
        BY <1>1, <1>4, <2>1, <3>1
    <2>2. CASE u # t
      <3>1. calls'[u] = calls[u] /\ Len(calls[u]) > 1 /\ Call(u)' = Call(u) /\ calls[u] # <<>>
        BY <1>1, <1>4, <2>2 DEF Call
      <3>2. Holds(calls[u])
        BY <3>1, InnermostHolds, CallTyped
      <3>3. ~Holds(calls[t]) /\ ~MayEnter(t)
        BY <2>2, <3>2, HoldsIsMonitor DEF BridgeInv, MonitorInv, MayEnter
      <3> QED
        BY <3>1, <3>3 DEF ClaimInv, Frame
    <2> QED
      BY <2>1, <2>2
  <1> QED
    BY <1>2, <1>3, <1>4 DEF ClaimInv

\* The innermost event of a thread that may use the stack works on the frame
\* on top, which is the base frame when it is the only one.
LEMMA FrameOfThread ==
  ASSUME BridgeInv, NEW t \in Thread, calls[t] # <<>>, Call(t).pc # "thunk", Call(t).pc = "handler" \/ MayEnter(t)
  PROVE  Len(frames) = Len(calls[t]) /\ Len(calls[t]) \in Nat \ {0}
  <1> DEFINE q == calls[t]
  <1>1. q \in Seq(CallType) /\ q # <<>> /\ Nested(q) /\ Last(q) = Call(t) /\ q[Len(q)] = Call(t)
        /\ Len(q) \in Nat \ {0}
    BY CallTyped DEF Call
  <1>2. Depth(q) = Len(q) - 1
    BY <1>1 DEF Depth
  <1>3. CASE Holds(q)
    BY <1>1, <1>2, <1>3 DEF BridgeInv, FrameInv
  <1>4. CASE ~Holds(q)
    <2>1. Len(q) = 1 /\ Call(t).pc # "handler"
      <3>1. ~(Len(q) > 1) /\ Call(t).pc \notin Inside
        BY <1>1, <1>4, InnermostHolds
      <3>2. \A i \in Nat \ {0} : ~(i > 1) => i = 1
        OBVIOUS
      <3> QED
        BY <1>1, <3>1, <3>2 DEF Inside
    <2>2. \A u \in Thread : ~Holds(calls[u])
      BY <1>4, <2>1, HoldsIsMonitor DEF MayEnter, BridgeInv
    <2> QED
      BY <2>1, <2>2 DEF BridgeInv, FrameInv
  <1> QED
    BY <1>3, <1>4

\* It goes on.
LEMMA GoesOnClaims ==
  ASSUME BridgeInv, ClaimInv, NEW t \in Thread, calls[t] # <<>>, Call(t).pc # "thunk",
         Call(t).pc = "handler" \/ MayEnter(t),
         NEW c \in CallType, ArgsLeft(c), calls' = Become(t, c),
         NEW g \in Seq(Value), (frames' = frames /\ g = Frame) \/ frames' = WithFrame(g),
         Len(g) - Len(Frame) >= PushedBy(c) - PushedBy(Call(t))
  PROVE  ClaimInv'
  <1> DEFINE q == calls[t]
             n == Len(q)
             r == Append(Front(q), c)
  <1>1. q \in Seq(CallType) /\ n \in Nat \ {0} /\ Len(frames) = n /\ Call(t) = q[n] /\ Nested(q) /\ q # <<>>
    BY CallTyped, FrameOfThread
  <1>2. r \in Seq(CallType) /\ Len(r) = n /\ r[n] = c /\ \A i \in 1 .. n - 1 : r[i] = q[i]
    BY <1>1, BecomesProperties, SMTT(45)
  <1>3. /\ Frame = frames[n] /\ frames' \in Seq(Seq(Value)) /\ Len(frames') = n /\ frames'[n] = g
        /\ \A i \in 1 .. n - 1 : frames'[i] = frames[i]
    <2>1. CASE frames' = frames /\ g = Frame
      BY <1>1, <2>1, TopFrame DEF BridgeInv, TypeInv
    <2>2. CASE frames' = WithFrame(g)
      BY <1>1, <2>2, TopFrame
    <2> QED
      BY <2>1, <2>2
  <1>4. Frame' = g
    BY <1>1, <1>3 DEF Frame, Last
  <1>5. calls' = [calls EXCEPT ![t] = r]
    BY DEF Become
  <1>6. \A i \in 1 .. n : ArgsLeft(q[i])
    BY DEF ClaimInv
  <1>7. PushedBy(c) \in Nat /\ PushedBy(Call(t)) \in Nat /\ Len(Frame) \in Nat /\ Len(g) \in Nat
    <2>1. Call(t) \in CallType /\ Frame \in Seq(Value)
      BY CallTyped, TopFrame
    <2>4. ArgsLeft(Call(t))
      <3>1. n \in 1 .. n
        BY <1>1
      <3>2. ArgsLeft(q[n])
        BY <1>6, <3>1
      <3> QED
        BY <1>1, <3>2
    <2>2. PushedBy(Call(t)) \in Nat
      BY <2>1, <2>4, PushedByType
    <2>3. PushedBy(c) \in Nat
      BY <2>1, PushedByType
    <2> QED
      BY <2>1, <2>2, <2>3
  <1>8. Call(t).pc = "handler" => Holds(q)
    BY <1>1 DEF Holds, Inside
  <1>9. n > 1 => PushedBy(Call(t)) <= Len(Frame)
    BY DEF ClaimInv
  <1> HIDE DEF q, r
  <1>10. \A i \in 1 .. Len(r) : ArgsLeft(r[i])
    BY <1>1, <1>2, <1>6, SMTT(45)
  <1>11. Len(frames'[1]) \in Nat /\ Len(frames'[1]) - Len(frames[1]) >= OnBase(r) - OnBase(q)
    <2>1. CASE n = 1
      BY <1>1, <1>2, <1>3, <1>7, <2>1 DEF OnBase
    <2>2. CASE n # 1
      <3>1. frames'[1] = frames[1] /\ OnBase(r) = 0 /\ OnBase(q) = 0
        BY <1>1, <1>2, <1>3, <2>2 DEF OnBase
      <3>2. Len(frames[1]) \in Nat
        BY <1>1 DEF BridgeInv, TypeInv
      <3> QED
        BY <3>1, <3>2
    <2> QED
      BY <2>1, <2>2
  <1>12. Len(r) > 1 => PushedBy(r[Len(r)]) <= Len(Frame')
    BY <1>1, <1>2, <1>4, <1>7, <1>9
  <1> QED
    BY <1>2, <1>5, <1>8, <1>10, <1>11, <1>12, ThreadClaims DEF q

\* It ends.
LEMMA EndsClaims ==
  ASSUME BridgeInv, ClaimInv, NEW t \in Thread, calls[t] # <<>>, Call(t).pc # "thunk",
         calls' = [calls EXCEPT ![t] = Front(@)], frames' = frames
  PROVE  ClaimInv'
  <1> DEFINE q == calls[t]
             r == Front(q)
  <1>1. /\ q \in Seq(CallType) /\ Nested(q) /\ r \in Seq(CallType) /\ Len(r) = Len(q) - 1
        /\ Len(q) \in Nat \ {0} /\ \A i \in 1 .. Len(q) - 1 : r[i] = q[i]
    BY CallTyped, FrontProperties
  <1>2. calls' = [calls EXCEPT ![t] = r]
    OBVIOUS
  <1>3. (\A i \in 1 .. Len(q) : ArgsLeft(q[i])) /\ OnBase(q) \in Nat
    BY <1>1, OnBaseType DEF ClaimInv
  <1>4. Len(frames[1]) \in Nat /\ Len(Frame) \in Nat
    BY BaseFrame
  <1> HIDE DEF q, r
  <1>5. r # <<>> => r[Len(r)].pc = "thunk" /\ Len(r) \in Nat \ {0}
    BY <1>1 DEF Nested
  <1>6. OnBase(r) = 0 /\ (Len(r) > 1 => PushedBy(r[Len(r)]) = 0)
    <2>1. Len(r) \in Nat /\ (Len(r) \in Nat \ {0} => r # <<>>)
      BY <1>1
    <2>2. Len(r) \in Nat \ {0} => PushedBy(r[Len(r)]) = 0
      BY <1>5, <2>1 DEF PushedBy
    <2> QED
      BY <2>1, <2>2 DEF OnBase
  <1>7. \A i \in 1 .. Len(r) : ArgsLeft(r[i])
    BY <1>1, <1>3
  <1>8. Frame' = Frame
    BY DEF Frame
  <1>9. Len(frames'[1]) \in Nat /\ Len(frames'[1]) - Len(frames[1]) >= OnBase(r) - OnBase(q)
    BY <1>3, <1>4, <1>6
  <1>10. Len(r) > 1 => PushedBy(r[Len(r)]) <= Len(Frame')
    BY <1>4, <1>6, <1>8
  <1> QED
    BY <1>1, <1>2, <1>7, <1>9, <1>10, ThreadClaims DEF q

\* It pushes v and becomes c.
LEMMA PushClaims ==
  ASSUME BridgeInv, ClaimInv, NEW t \in Thread, calls[t] # <<>>, Call(t).pc # "thunk",
         NEW v \in Value, NEW c \in CallType, ArgsLeft(c), PushedBy(c) = PushedBy(Call(t)) + 1,
         Push(t, v, Become(t, c))
  PROVE  ClaimInv'
  <1> DEFINE g == Append(Frame, v)
  <1>1. g \in Seq(Value) /\ Len(g) = Len(Frame) + 1 /\ Len(Frame) \in Nat
    BY TopFrame
  <1>2. MayEnter(t)
    BY DEF Push
  <1>3. CASE frames' = WithFrame(g) /\ calls' = Become(t, c)
    <2>1. PushedBy(Call(t)) \in Nat
      BY CallTyped, PushedByType DEF ClaimInv
    <2> HIDE DEF g
    <2>2. Len(g) - Len(Frame) >= PushedBy(c) - PushedBy(Call(t))
      BY <1>1, <2>1
    <2> QED
      BY <1>1, <1>2, <1>3, <2>2, GoesOnClaims
  <1>4. CASE Escape(t) /\ UNCHANGED frames
    BY <1>4, EndsClaims DEF Escape
  <1> QED
    BY <1>3, <1>4 DEF Push

LEMMA RaiseClaims ==
  ASSUME BridgeInv, ClaimInv, NEW t \in Thread, NEW byName \in BOOLEAN, NEW n \in 0 .. MaxArgs, Raise(t, byName, n)
  PROVE  ClaimInv'
  <1> DEFINE q == calls[t]
             c == [pc |-> "function", event |-> raised + 1, byName |-> byName, nargs |-> n, left |-> n,
                   base |-> Len(Frame), called |-> <<>>, answer |-> <<>>]
             r == Append(q, c)
  <1>1. q \in Seq(CallType) /\ (q = <<>> \/ (q # <<>> /\ Last(q).pc = "thunk")) /\ frames' = frames
        /\ calls' = [calls EXCEPT ![t] = r]
    BY DEF Raise, BridgeInv, TypeInv, At, Call
  <1>2. c \in CallType /\ ArgsLeft(c) /\ PushedBy(c) = 0
    <2>1. Len(Frame) \in Nat
      BY TopFrame
    <2> QED
      BY <2>1, BridgeAssumption DEF ArgsLeft, PushedBy, CallType, Pcs, BridgeInv, TypeInv
  <1>3. (\A i \in 1 .. Len(q) : ArgsLeft(q[i])) /\ OnBase(q) \in Nat
    BY <1>1, OnBaseType DEF ClaimInv
  <1>4. Len(frames[1]) \in Nat /\ Len(Frame) \in Nat /\ Frame' = Frame
    BY <1>1, BaseFrame DEF Frame
  <1> HIDE DEF q, c
  <1>5. r \in Seq(CallType) /\ Len(r) = Len(q) + 1 /\ Len(q) \in Nat /\ r[Len(r)] = c
        /\ \A i \in 1 .. Len(q) : r[i] = q[i]
    BY <1>1, <1>2
  <1> HIDE DEF r
  <1>6. \A i \in 1 .. Len(r) : ArgsLeft(r[i])
    BY <1>2, <1>3, <1>5
  <1>7. OnBase(r) = 0
    BY <1>2, <1>5 DEF OnBase
  <1>8. Len(frames'[1]) \in Nat /\ Len(frames'[1]) - Len(frames[1]) >= OnBase(r) - OnBase(q)
    BY <1>1, <1>3, <1>4, <1>7
  <1>9. Len(r) > 1 => PushedBy(r[Len(r)]) <= Len(Frame')
    BY <1>2, <1>4, <1>5
  <1>10. calls' = [calls EXCEPT ![t] = r]
    BY <1>1 DEF r
  <1> QED
    BY <1>1, <1>5, <1>6, <1>8, <1>9, <1>10, ThreadClaims DEF q

LEMMA PCallClaims == ASSUME BridgeInv, ClaimInv, NEW t \in Thread, PCall(t) PROVE ClaimInv'
  <1> DEFINE d == Call(t)
             at == CalledAt(t)
             pc == IF Frame[at][1] = "function" THEN "handler" ELSE "report"
             called == SubSeq(Frame, at, Len(Frame))
             g == SubSeq(Frame, 1, at - 1)
             c == [d EXCEPT !.pc = pc, !.called = called]
  <1>1. calls[t] # <<>> /\ d.pc = "args" /\ d.left = 0 /\ MayEnter(t) /\ frames' = WithFrame(g)
        /\ calls' = Become(t, c) /\ at >= 1
    BY DEF PCall, At
  <1>2. d \in CallType /\ Frame \in Seq(Value)
    BY <1>1, CallTyped, TopFrame
  <1>3. at = Len(Frame) - (d.nargs + 1) /\ d.nargs \in Nat /\ Len(Frame) \in Nat /\ at \in 1 .. Len(Frame)
        /\ \A k \in 1 .. Len(Frame) : Frame[k] \in Value
    BY <1>1, <1>2 DEF CalledAt, CallType
  <1>4. pc \in {"handler", "report"}
    OBVIOUS
  <1>5. PushedBy(d) = 2 + d.nargs
    BY <1>1, <1>3 DEF PushedBy
  <1> HIDE DEF d, at, pc
  <1>6. called \in Seq(Value) /\ g \in Seq(Value) /\ Len(g) = at - 1
    BY <1>2, <1>3, SubSeqProperties
  <1> HIDE DEF called, g
  <1>7. c \in CallType /\ c.pc \in {"handler", "report"}
    BY <1>2, <1>4, <1>6 DEF CallType, Pcs
  <1>8. ArgsLeft(c) /\ PushedBy(c) = 0
    BY <1>7 DEF ArgsLeft, PushedBy
  <1>9. Len(g) - Len(Frame) >= PushedBy(c) - PushedBy(d)
    BY <1>3, <1>5, <1>6, <1>8, SMTT(45)
  <1> HIDE DEF c
  <1> QED
    BY <1>1, <1>6, <1>7, <1>8, <1>9, GoesOnClaims DEF d

\* A Java method is called or returns.
LEMMA MethodClaims ==
  ASSUME BridgeInv, ClaimInv, NEW t \in Thread, Thunk(t) \/ ThunkReturns(t)
  PROVE  ClaimInv'
  <1> DEFINE q == calls[t]
             n == Len(q)
  <1>1. \E pc \in Inside : (Thunk(t) /\ pc = "thunk") \/ (ThunkReturns(t) /\ pc = "handler")
    <2>1. "thunk" \in Inside /\ "handler" \in Inside
      BY DEF Inside
    <2> QED
      BY Zenon, <2>1
  <1>0. PICK pc \in Inside : (Thunk(t) /\ pc = "thunk") \/ (ThunkReturns(t) /\ pc = "handler")
    BY Zenon, <1>1
  <1> DEFINE c == [Call(t) EXCEPT !.pc = pc]
             r == Append(Front(q), c)
  <1>2. q # <<>> /\ Call(t).pc \in Inside /\ calls' = [calls EXCEPT ![t] = r]
    BY <1>0 DEF Thunk, ThunkReturns, At, GoTo, Become, Inside
  <1>3. q \in Seq(CallType) /\ n \in Nat \ {0} /\ Call(t) \in CallType /\ Call(t) = q[n]
    BY <1>2, CallTyped
  <1>4. c \in CallType /\ c.pc = pc
    BY <1>2, GoToTyped, ZenonT(60) DEF Pcs, Inside
  <1>5. ArgsLeft(c) /\ PushedBy(c) = 0 /\ PushedBy(Call(t)) = 0
    BY <1>2, <1>4 DEF ArgsLeft, PushedBy, Inside
  <1>6. Holds(q) /\ \A i \in 1 .. n : ArgsLeft(q[i])
    BY <1>2, <1>3 DEF Holds, ClaimInv
  <1>7. frames'[1] = frames[1] /\ Len(frames[1]) \in Nat /\ Len(Frame') \in Nat
    <2>1. frames \in Seq(Seq(Value)) /\ Len(frames) \in Nat \ {0}
      BY TopFrame DEF BridgeInv, TypeInv
    <2>2. CASE Thunk(t)
      <3>1. PICK k \in 0 .. 1 : frames' = Append(frames, [i \in 1 .. k |-> <<"userdata", 0>>])
        BY <2>2 DEF Thunk
      <3> DEFINE f == [i \in 1 .. k |-> <<"userdata", 0>>]
      <3>2. f \in Seq(Value)
        BY DEF Value, Kinds
      <3> HIDE DEF f
      <3>3. frames' = Append(frames, f)
        BY <3>1 DEF f
      <3>4. frames'[1] = frames[1] /\ frames'[Len(frames')] = f
        BY <2>1, <3>2, <3>3
      <3> QED
        BY <2>1, <3>2, <3>4 DEF Frame, Last
    <2>3. CASE ThunkReturns(t)
      <3>1. frames' = Front(frames) /\ Call(t).pc = "thunk"
        BY <2>3 DEF ThunkReturns, At
      <3>2. Len(frames) = 1 + Depth(q) /\ Depth(q) = n
        BY <1>2, <1>3, <1>6, <3>1 DEF BridgeInv, FrameInv, Depth
      <3>3. /\ Front(frames) \in Seq(Seq(Value)) /\ Len(Front(frames)) = n
            /\ \A i \in 1 .. n : Front(frames)[i] = frames[i]
        <4>1. frames # <<>> /\ Len(frames) = n + 1
          BY <1>3, <2>1, <3>2
        <4>2. /\ Front(frames) \in Seq(Seq(Value)) /\ Len(Front(frames)) = Len(frames) - 1
              /\ \A i \in 1 .. Len(frames) - 1 : Front(frames)[i] = frames[i]
          BY <2>1, <4>1, FrontProperties
        <4> QED
          BY <1>3, <4>1, <4>2
      <3>4. frames'[1] = frames[1] /\ frames' \in Seq(Seq(Value)) /\ Len(frames') = n /\ frames'[n] = frames[n]
        BY <1>3, <3>1, <3>3
      <3>5. Frame' = frames[n] /\ frames[n] \in Seq(Value)
        BY <1>3, <2>1, <3>2, <3>4 DEF Frame, Last
      <3> QED
        BY <1>3, <2>1, <3>4, <3>5
    <2> QED
      BY <1>0, <2>2, <2>3
  <1> HIDE DEF q, c
  <1>8. r \in Seq(CallType) /\ Len(r) = n /\ r[n] = c /\ \A i \in 1 .. n - 1 : r[i] = q[i]
    BY <1>2, <1>3, <1>4, BecomesProperties DEF q
  <1> HIDE DEF r
  <1>9. \A i \in 1 .. Len(r) : ArgsLeft(r[i])
    BY <1>3, <1>5, <1>6, <1>8
  <1>10. OnBase(r) = 0 /\ OnBase(q) = 0
    BY <1>3, <1>5, <1>8 DEF OnBase
  <1>11. Len(frames'[1]) \in Nat /\ Len(frames'[1]) - Len(frames[1]) >= OnBase(r) - OnBase(q)
    BY <1>7, <1>10
  <1>12. Len(r) > 1 => PushedBy(r[Len(r)]) <= Len(Frame')
    BY <1>5, <1>7, <1>8
  <1>13. calls' = [calls EXCEPT ![t] = r]
    BY <1>2 DEF r, q
  <1> QED
    BY <1>6, <1>8, <1>9, <1>11, <1>12, <1>13, ThreadClaims DEF q

LEMMA HandlerClaims == ASSUME BridgeInv, ClaimInv, NEW t \in Thread, HandlerEnds(t) PROVE ClaimInv'
  <1>1. calls[t] # <<>> /\ Call(t).pc = "handler" /\ PushedBy(Call(t)) = 0 /\ Call(t) \in CallType
        /\ Frame \in Seq(Value) /\ Len(Frame) \in Nat
    <2>1. calls[t] # <<>> /\ Call(t).pc = "handler"
      BY DEF HandlerEnds, HandlerReturns, HandlerFails, At
    <2> QED
      BY <2>1, CallTyped, TopFrame DEF PushedBy
  <1>2. CASE HandlerFails(t)
    <2> DEFINE c == [Call(t) EXCEPT !.pc = "report"]
    <2>1. c \in CallType /\ c.pc = "report"
      BY <1>1, GoToTyped DEF Pcs
    <2>2. calls' = Become(t, c) /\ frames' = frames
      BY <1>2 DEF HandlerFails, GoTo
    <2> HIDE DEF c
    <2>3. ArgsLeft(c) /\ Len(Frame) - Len(Frame) >= PushedBy(c) - PushedBy(Call(t))
      BY <1>1, <2>1 DEF ArgsLeft, PushedBy
    <2> QED
      BY <1>1, <2>1, <2>2, <2>3, GoesOnClaims
  <1>3. ASSUME NEW kind \in ResultKind, NEW n \in 0 .. MaxResults, HandlerReturns(t, kind, n)
        PROVE  ClaimInv'
    <2> DEFINE v == <<kind, Call(t).event>>
               answer == [i \in 1 .. n |-> v]
               c == [Call(t) EXCEPT !.pc = "result", !.answer = answer]
               g == Frame \o answer
    <2>0. n \in Nat
      BY BridgeAssumption
    <2>1. v \in Value
      <3>1. kind \in Kinds
        BY BridgeAssumption DEF Kinds
      <3>2. Call(t).event \in Nat
        BY <1>1 DEF CallType
      <3> QED
        BY <3>1, <3>2 DEF Value
    <2>2. frames' = WithFrame(g) /\ calls' = Become(t, c)
      BY <1>3 DEF HandlerReturns
    <2> HIDE DEF v
    <2>3. answer \in Seq(Value) /\ Len(answer) = n
      BY <2>0, <2>1
    <2> HIDE DEF answer
    <2>4. c \in CallType /\ c.pc = "result"
      BY <1>1, <2>3 DEF CallType, Pcs
    <2>5. g \in Seq(Value) /\ Len(g) = Len(Frame) + n
      BY <1>1, <2>3, ConcatProperties
    <2> HIDE DEF c, g
    <2>6. ArgsLeft(c) /\ Len(g) - Len(Frame) >= PushedBy(c) - PushedBy(Call(t))
      BY <1>1, <2>0, <2>4, <2>5 DEF ArgsLeft, PushedBy
    <2> QED
      BY <1>1, <2>2, <2>4, <2>5, <2>6, GoesOnClaims
  <1> QED
    BY <1>2, <1>3 DEF HandlerEnds

LEMMA EngineClaims == ASSUME BridgeInv, ClaimInv, NEW t \in Thread, Engine(t) PROVE ClaimInv'
  <1> DEFINE d == Call(t)
  <1>0. calls[t] # <<>> /\ d \in CallType /\ ArgsLeft(d) /\ d.pc \notin Inside
        /\ \A kind \in Kinds : <<kind, d.event>> \in Value
    <2>1. calls[t] # <<>> /\ d.pc \notin Inside
      BY DEF Engine, RawGetI, GetGlobal, InvalidFunction, ValidFunction, PushGui, PushArg, PCall, Result,
             ResultOfFunction, ReportText, ReportNothing, At, Inside
    <2>2. d \in CallType /\ ArgsLeft(d)
      BY <2>1, CallTyped DEF ClaimInv
    <2> QED
      BY <2>1, <2>2 DEF Value, CallType
  <1>1. \A pc \in Pcs : LET c == [d EXCEPT !.pc = pc] IN
          /\ c \in CallType /\ c.pc = pc /\ c.left = d.left /\ c.nargs = d.nargs
          /\ d.pc \in {"function", "isnil", "gui"} => ArgsLeft(c)
    BY <1>0 DEF CallType, ArgsLeft
  <1>2. ASSUME NEW kind \in {"function", "nil"}, NEW pc \in {"gui", "isnil"}, d.pc = "function",
               Push(t, <<kind, d.event>>, GoTo(t, pc))
        PROVE  ClaimInv'
    <2> DEFINE c == [d EXCEPT !.pc = pc]
    <2>1. c \in CallType /\ ArgsLeft(c) /\ c.pc = pc /\ <<kind, d.event>> \in Value
      BY <1>0, <1>1, <1>2 DEF Pcs, Kinds
    <2>2. PushedBy(c) = PushedBy(d) + 1
      BY <1>2, <2>1 DEF PushedBy
    <2>3. Push(t, <<kind, d.event>>, Become(t, c))
      BY <1>2 DEF GoTo
    <2> HIDE DEF c
    <2> QED
      BY <1>0, <1>2, <2>1, <2>2, <2>3, PushClaims
  <1>3. CASE RawGetI(t) \/ GetGlobal(t)
    BY <1>2, <1>3 DEF RawGetI, GetGlobal, At
  <1>4. CASE ValidFunction(t)
    <2> DEFINE c == [d EXCEPT !.pc = "gui"]
    <2>1. d.pc = "isnil" /\ MayEnter(t) /\ calls' = Become(t, c) /\ frames' = frames
      BY <1>4 DEF ValidFunction, GoTo, At
    <2>2. c \in CallType /\ ArgsLeft(c) /\ c.pc = "gui"
      BY <1>1, <2>1 DEF Pcs
    <2>3. PushedBy(c) = 1 /\ PushedBy(d) = 1 /\ Frame \in Seq(Value) /\ Len(Frame) \in Nat
      BY <2>1, <2>2, TopFrame DEF PushedBy
    <2> HIDE DEF c
    <2>4. Len(Frame) - Len(Frame) >= PushedBy(c) - PushedBy(d)
      BY <2>3
    <2> QED
      BY <1>0, <2>1, <2>2, <2>3, <2>4, GoesOnClaims
  <1>5. CASE PushGui(t)
    <2> DEFINE c == [d EXCEPT !.pc = "args"]
    <2>1. d.pc = "gui" /\ Push(t, <<"gui", d.event>>, Become(t, c)) /\ <<"gui", d.event>> \in Value
      BY <1>0, <1>5 DEF PushGui, GoTo, At, Kinds
    <2>2. c \in CallType /\ ArgsLeft(c) /\ c.pc = "args" /\ c.left = d.left /\ c.nargs = d.nargs
      BY <1>1, <2>1 DEF Pcs
    <2>3. PushedBy(c) = PushedBy(d) + 1
      <3>1. d.left = d.nargs /\ d.nargs \in Nat
        BY <1>0, <2>1 DEF ArgsLeft, CallType
      <3> QED
        BY <2>1, <2>2, <3>1 DEF PushedBy
    <2> HIDE DEF c
    <2> QED
      BY <1>0, <2>1, <2>2, <2>3, PushClaims
  <1>6. CASE PushArg(t)
    <2> DEFINE less == d.left - 1
               c == [d EXCEPT !.left = less]
    <2>1. d.pc = "args" /\ d.left > 0 /\ Push(t, <<"arg", d.event>>, Become(t, c)) /\ <<"arg", d.event>> \in Value
      BY <1>0, <1>6 DEF PushArg, At, Kinds
    <2>2. d.left \in Nat /\ d.nargs \in Nat /\ d.left <= d.nargs
      BY <1>0, <2>1 DEF ArgsLeft, CallType
    <2>3. less \in Nat /\ less <= d.nargs /\ less = d.left - 1
      BY <2>1, <2>2
    <2> HIDE DEF less
    <2>4. c \in CallType /\ c.pc = "args" /\ c.left = less /\ c.nargs = d.nargs
      BY <1>0, <2>1, <2>3 DEF CallType
    <2>5. ArgsLeft(c) /\ PushedBy(c) = PushedBy(d) + 1
      BY <2>1, <2>2, <2>3, <2>4 DEF ArgsLeft, PushedBy
    <2> HIDE DEF c
    <2> QED
      BY <1>0, <2>1, <2>4, <2>5, PushClaims
  <1>7. CASE PCall(t)
    BY <1>7, PCallClaims
  <1>8. CASE InvalidFunction(t) \/ Result(t) \/ ReportText(t) \/ ReportNothing(t)
    <2>1. calls' = [calls EXCEPT ![t] = Front(@)] /\ frames' = frames
      BY <1>8 DEF InvalidFunction, Result, ReportText, ReportNothing, Return, Escape
    <2> QED
      BY <1>0, <2>1, EndsClaims DEF Inside
  <1>9. CASE ResultOfFunction(t)
    BY <1>9 DEF ResultOfFunction, ClaimInv, Claims, Call, Frame
  <1> QED
    BY <1>3, <1>4, <1>5, <1>6, <1>7, <1>8, <1>9 DEF Engine

LEMMA ClaimInvInit == Init => ClaimInv
  <1> SUFFICES ASSUME Init PROVE ClaimInv
    OBVIOUS
  <1>1. \A t \in Thread : Len(calls[t]) = 0
    BY DEF Init
  <1>2. Claims = {} /\ Len(frames[1]) = 0
    BY <1>1 DEF Claims, OnBase, Init
  <1> QED
    BY <1>1, <1>2, FS_EmptySet DEF ClaimInv

LEMMA ClaimInvStep == BridgeInv /\ ClaimInv /\ [Next]_vars => ClaimInv'
  <1> SUFFICES ASSUME BridgeInv, ClaimInv, [Next]_vars PROVE ClaimInv'
    OBVIOUS
  <1>1. CASE UNCHANGED vars
    BY <1>1 DEF vars, ClaimInv, Claims, Call, Frame
  <1>2. CASE Next
    BY <1>2, RaiseClaims, EngineClaims, MethodClaims, HandlerClaims DEF Next
  <1> QED
    BY <1>1, <1>2

LEMMA ClaimedIsThere == BridgeInv /\ ClaimInv => CallHasItsValues
  <1> SUFFICES ASSUME BridgeInv, ClaimInv, NEW t \in Thread, At(t, "args"), Call(t).left = 0, MayEnter(t)
               PROVE  CalledAt(t) >= 1
    BY DEF CallHasItsValues
  <1> DEFINE q == calls[t]
             n == Call(t).nargs
  <1>1. q # <<>> /\ Call(t).pc = "args" /\ q \in Seq(CallType) /\ Call(t) = q[Len(q)] /\ n \in Nat
    BY CallTyped DEF At, CallType
  <1>2. Len(frames) = Len(q) /\ Len(q) \in Nat \ {0} /\ Frame = frames[Len(q)] /\ Len(Frame) \in Nat
    BY <1>1, FrameOfThread, TopFrame
  <1>3. PushedBy(Call(t)) = n + 2
    BY <1>1 DEF PushedBy
  <1>4. n + 2 <= Len(Frame)
    <2>1. CASE Len(q) = 1
      <3>1. OnBase(q) = n + 2
        BY <1>1, <1>3, <2>1 DEF OnBase
      <3>2. {t} \X (1 .. n + 2) \subseteq Claims
        BY <1>1, <3>1 DEF Claims
      <3>3. Cardinality({t} \X (1 .. n + 2)) = n + 2
        <4>1. n + 2 \in Nat
          BY <1>1
        <4> QED
          BY <4>1, RowSize
      <3>4. n + 2 <= Cardinality(Claims)
        BY <3>2, <3>3, FS_Subset DEF ClaimInv
      <3>5. Cardinality(Claims) \in Nat /\ Cardinality(Claims) <= Len(Frame)
        BY <1>2, <2>1, FS_CardinalityType DEF ClaimInv
      <3> QED
        BY <1>1, <1>2, <3>4, <3>5
    <2>2. CASE Len(q) # 1
      <3>1. Len(q) > 1
        <4>1. \A i \in Nat \ {0} : i # 1 => i > 1
          OBVIOUS
        <4> QED
          BY <1>2, <2>2, <4>1, Zenon
      <3> QED
        BY <1>3, <3>1 DEF ClaimInv
    <2> QED
      BY <2>1, <2>2
  <1> QED
    BY <1>1, <1>2, <1>4 DEF CalledAt

\* However the events of several threads interleave on the stack, and whosever
\* values a call takes: there are as many as lua_pcall is told to take.
THEOREM CallsHaveTheirValues == Spec => []CallHasItsValues
  <1>1. Init => BridgeInv /\ ClaimInv
    BY BridgeInvInit, ClaimInvInit
  <1>2. (BridgeInv /\ ClaimInv) /\ [Next]_vars => (BridgeInv /\ ClaimInv)'
    BY BridgeInvStep, ClaimInvStep
  <1>3. BridgeInv /\ ClaimInv => CallHasItsValues
    BY ClaimedIsThere
  <1> QED
    BY <1>1, <1>2, <1>3, PTL DEF Spec

-----------------------------------------------------------------------------
(* One thread                                                                 *)

OneThread == \A t, u \in Thread : t = u

-----------------------------------------------------------------------------
(* What an event has put on its frame *)

\* The k-th value that event c pushes.
Pushed(c, k) ==
  IF k = 1 THEN <<"function", c.event>> ELSE IF k = 2 THEN <<"gui", c.event>> ELSE <<"arg", c.event>>

Values(c) == [k \in 1 .. c.nargs + 2 |-> Pushed(c, k)]

\* What frame f holds of event c, above the c.base values it found there.
OnStack(c, f) ==
  /\ c.base <= Len(f)
  /\ c.pc = "function" => Len(f) = c.base
  /\ c.pc \in {"isnil", "gui"} => Len(f) = c.base + 1
  /\ c.pc = "isnil" => f[c.base + 1] = Pushed(c, 1) \/ f[c.base + 1][1] = "nil"
  /\ c.pc = "gui" => f[c.base + 1] = Pushed(c, 1)
  /\ c.pc \in {"function", "isnil", "gui"} => c.left = c.nargs
  /\ c.pc = "args" => /\ c.left <= c.nargs
                      /\ Len(f) = c.base + 2 + c.nargs - c.left
                      /\ \A k \in 1 .. Len(f) - c.base : f[c.base + k] = Pushed(c, k)
  /\ c.pc \in {"handler", "thunk", "result"} => c.called = Values(c)
  /\ c.pc \in {"handler", "thunk", "report"} => Len(f) = c.base
  /\ c.pc = "result" => /\ Len(f) = c.base + Len(c.answer)
                        /\ \A k \in 1 .. Len(c.answer) :
                             f[c.base + k] = c.answer[k] /\ c.answer[k][1] \in ResultKind
  /\ c.pc # "result" => c.answer = <<>>

\* The i-th event of the thread works on the i-th frame.
StackInv == \A t \in Thread : \A i \in 1 .. Len(calls[t]) : OnStack(calls[t][i], frames[i])

Keeps(f, g, b) == b <= Len(g) /\ \A k \in 1 .. b : g[k] = f[k]

KeptBelow == \A t \in Thread : \A i \in 1 .. Len(calls[t]) :
               i <= Len(frames') => Keeps(frames[i], frames'[i], calls[t][i].base)

LEMMA ValuesInOrder ==
  ASSUME NEW c \in CallType
  PROVE  Values(c) = <<<<"function", c.event>>, <<"gui", c.event>>>> \o [k \in 1 .. c.nargs |-> <<"arg", c.event>>]
  <1> DEFINE n == c.nargs
             v == <<"function", c.event>>
             w == <<"gui", c.event>>
             x == <<"arg", c.event>>
  <1>1. n \in Nat /\ v \in Value /\ w \in Value /\ x \in Value
    BY DEF CallType, Value, Kinds
  <1>2. Values(c) = [k \in 1 .. n + 2 |-> IF k = 1 THEN v ELSE IF k = 2 THEN w ELSE x]
    BY DEF Values, Pushed
  <1> HIDE DEF n, v, w, x
  <1>3. [k \in 1 .. n + 2 |-> IF k = 1 THEN v ELSE IF k = 2 THEN w ELSE x] = <<v, w>> \o [k \in 1 .. n |-> x]
    <2> DEFINE s == <<v, w>>
               r == [k \in 1 .. n |-> x]
               l == [k \in 1 .. n + 2 |-> IF k = 1 THEN v ELSE IF k = 2 THEN w ELSE x]
    <2>1. s \in Seq(Value) /\ Len(s) = 2 /\ s[1] = v /\ s[2] = w
      BY <1>1
    <2>2. r \in Seq(Value) /\ Len(r) = n /\ \A k \in 1 .. n : r[k] = x
      BY <1>1
    <2>3. l \in Seq(Value) /\ Len(l) = n + 2 /\ \A k \in 1 .. n + 2 : l[k] = IF k = 1 THEN v ELSE IF k = 2 THEN w ELSE x
      BY <1>1
    <2> HIDE DEF s, r, l
    <2>4. /\ s \o r \in Seq(Value) /\ Len(s \o r) = 2 + n
          /\ \A k \in 1 .. 2 + n : (s \o r)[k] = IF k <= 2 THEN s[k] ELSE r[k - 2]
      <3>1. /\ s \o r \in Seq(Value) /\ Len(s \o r) = Len(s) + Len(r)
            /\ \A k \in 1 .. Len(s) + Len(r) : (s \o r)[k] = IF k <= Len(s) THEN s[k] ELSE r[k - Len(s)]
        BY <2>1, <2>2, ConcatProperties
      <3> QED
        BY <2>1, <2>2, <3>1
    <2>5. \A k \in 1 .. n + 2 : l[k] = (s \o r)[k]
      BY <1>1, <2>1, <2>2, <2>3, <2>4
    <2>6. l = s \o r
      BY <1>1, <2>3, <2>4, <2>5, SeqEqual
    <2> QED
      BY <2>6 DEF s, r, l
  <1> QED
    BY <1>2, <1>3 DEF n, v, w, x

LEMMA FramesOfOne ==
  ASSUME BridgeInv, OneThread, NEW t \in Thread
  PROVE  Len(frames) = 1 + Depth(calls[t])
  <1>1. CASE Holds(calls[t])
    BY <1>1 DEF BridgeInv, FrameInv
  <1>2. CASE ~Holds(calls[t])
    <2>1. Len(frames) = 1
      BY <1>2 DEF OneThread, BridgeInv, FrameInv
    <2>2. Depth(calls[t]) = 0
      BY <1>2, DepthWhenFree DEF BridgeInv, TypeInv, NestInv
    <2> QED
      BY <2>1, <2>2
  <1> QED
    BY <1>1, <1>2

LEMMA InnerFrame ==
  ASSUME BridgeInv, OneThread, NEW t \in Thread, calls[t] # <<>>
  PROVE  /\ Len(calls[t]) \in Nat \ {0}
         /\ Len(frames) = IF Call(t).pc = "thunk" THEN Len(calls[t]) + 1 ELSE Len(calls[t])
  <1>1. Len(calls[t]) \in Nat \ {0} /\ Call(t) = calls[t][Len(calls[t])]
    BY CallTyped
  <1>2. Depth(calls[t]) = IF Call(t).pc = "thunk" THEN Len(calls[t]) ELSE Len(calls[t]) - 1
    BY <1>1 DEF Depth
  <1> QED
    BY <1>1, <1>2, FramesOfOne

LEMMA SameFramesKeep ==
  ASSUME BridgeInv, StackInv, frames' = frames
  PROVE  KeptBelow
  BY DEF StackInv, KeptBelow, Keeps, OnStack

\* The innermost event goes on, on frame g.
LEMMA Goes ==
  ASSUME BridgeInv, OneThread, StackInv, NEW t \in Thread, calls[t] # <<>>, Call(t).pc # "thunk",
         NEW c \in CallType, c.base = Call(t).base, calls' = Become(t, c),
         NEW g \in Seq(Value), (frames' = frames /\ g = Frame) \/ frames' = WithFrame(g),
         OnStack(c, g), Keeps(Frame, g, c.base)
  PROVE  StackInv' /\ KeptBelow
  <1> DEFINE q == calls[t]
             n == Len(q)
             r == Append(Front(q), c)
  <1>1. q \in Seq(CallType) /\ n \in Nat \ {0} /\ Len(frames) = n /\ Call(t) = q[n]
    BY CallTyped, InnerFrame
  <1>2. Len(r) = n /\ r[n] = c /\ \A i \in 1 .. n - 1 : r[i] = q[i]
    BY <1>1, BecomesProperties
  <1>3. Frame = frames[n] /\ Len(frames') = n /\ frames'[n] = g /\ \A i \in 1 .. n - 1 : frames'[i] = frames[i]
    <2>1. CASE frames' = frames /\ g = Frame
      BY <1>1, <2>1, TopFrame
    <2>2. CASE frames' = WithFrame(g)
      BY <1>1, <2>2, TopFrame
    <2> QED
      BY <2>1, <2>2
  <1>4. calls'[t] = r /\ \A u \in Thread : u = t
    BY DEF Become, OneThread, BridgeInv, TypeInv
  <1>5. \A i \in 1 .. n : OnStack(q[i], frames[i]) /\ q[i].base <= Len(frames[i])
    BY DEF StackInv, OnStack
  <1> HIDE DEF q, r
  <1>6. \A i \in 1 .. n : OnStack(r[i], frames'[i])
    <2> TAKE i \in 1 .. n
    <2>1. CASE i = n
      BY <1>1, <1>2, <1>3, <2>1
    <2>2. CASE i # n
      <3>1. r[i] = q[i] /\ frames'[i] = frames[i]
        BY <1>1, <1>2, <1>3, <2>2
      <3> QED
        BY <1>5, <3>1
    <2> QED
      BY <2>1, <2>2
  <1>7. \A i \in 1 .. n : Keeps(frames[i], frames'[i], q[i].base)
    <2> TAKE i \in 1 .. n
    <2>1. CASE i = n
      BY <1>1, <1>3, <2>1
    <2>2. CASE i # n
      BY <1>1, <1>3, <1>5, <2>2 DEF Keeps
    <2> QED
      BY <2>1, <2>2
  <1>8. StackInv'
    BY <1>2, <1>4, <1>6 DEF StackInv
  <1>9. KeptBelow
    BY <1>4, <1>7 DEF KeptBelow, q
  <1> QED
    BY <1>8, <1>9

\* It ends.
LEMMA Ends ==
  ASSUME BridgeInv, OneThread, StackInv, NEW t \in Thread, calls[t] # <<>>,
         calls' = [calls EXCEPT ![t] = Front(@)], frames' = frames
  PROVE  StackInv' /\ KeptBelow
  <1> DEFINE q == calls[t]
  <1>1. q \in Seq(CallType) /\ Len(Front(q)) = Len(q) - 1 /\ Len(q) \in Nat \ {0}
        /\ \A i \in 1 .. Len(q) - 1 : Front(q)[i] = q[i]
    BY CallTyped, FrontProperties
  <1>2. calls'[t] = Front(q) /\ \A u \in Thread : u = t
    BY DEF OneThread, BridgeInv, TypeInv
  <1>3. \A i \in 1 .. Len(q) : OnStack(q[i], frames[i])
    BY DEF StackInv
  <1> HIDE DEF q
  <1>4. StackInv'
    BY <1>1, <1>2, <1>3 DEF StackInv
  <1> QED
    BY <1>4, SameFramesKeep

LEMMA CallOnStack ==
  ASSUME BridgeInv, OneThread, StackInv, NEW t \in Thread, calls[t] # <<>>, Call(t).pc # "thunk"
  PROVE  /\ OnStack(Call(t), Frame) /\ Call(t) \in CallType /\ Frame \in Seq(Value)
         /\ Call(t).base \in Nat /\ Call(t).base <= Len(Frame)
  <1>1. OnStack(Call(t), Frame) /\ Call(t) \in CallType /\ Frame \in Seq(Value)
    BY InnerFrame, CallTyped, TopFrame, SMTT(45) DEF StackInv
  <1> QED
    BY <1>1 DEF OnStack, CallType

\* Pushing v on it leads from c to d.
LEMMA Pushes ==
  ASSUME BridgeInv, OneThread, StackInv, NEW t \in Thread, calls[t] # <<>>, Call(t).pc # "thunk",
         NEW v \in Value, NEW c \in CallType, c.base = Call(t).base, Push(t, v, Become(t, c)),
         OnStack(c, Append(Frame, v))
  PROVE  StackInv' /\ KeptBelow
  <1> DEFINE g == Append(Frame, v)
  <1>1. Frame \in Seq(Value) /\ Call(t).base \in Nat /\ Call(t).base <= Len(Frame)
    BY CallOnStack
  <1>2. CASE frames' = WithFrame(g) /\ calls' = Become(t, c)
    <2>1. g \in Seq(Value) /\ Keeps(Frame, g, c.base)
      BY <1>1 DEF Keeps
    <2> HIDE DEF g
    <2> QED
      BY <1>2, <2>1, Goes DEF g
  <1>3. CASE Escape(t) /\ UNCHANGED frames
    BY <1>3, Ends DEF Escape
  <1> QED
    BY <1>2, <1>3 DEF Push

-----------------------------------------------------------------------------
(* The steps *)

LEMMA RaisesOn ==
  ASSUME BridgeInv, OneThread, StackInv, NEW t \in Thread, NEW byName \in BOOLEAN, NEW n \in 0 .. MaxArgs,
         Raise(t, byName, n)
  PROVE  StackInv' /\ KeptBelow
  <1> DEFINE q == calls[t]
             c == [pc |-> "function", event |-> raised + 1, byName |-> byName, nargs |-> n, left |-> n,
                   base |-> Len(Frame), called |-> <<>>, answer |-> <<>>]
             r == Append(q, c)
  <1>1. q \in Seq(CallType) /\ frames' = frames /\ calls' = [calls EXCEPT ![t] = r]
    BY DEF Raise, BridgeInv, TypeInv
  <1>2. c \in CallType /\ OnStack(c, Frame)
    <2>1. Frame \in Seq(Value) /\ Len(Frame) \in Nat
      BY TopFrame
    <2> QED
      BY <2>1, BridgeAssumption DEF OnStack, CallType, Pcs, BridgeInv, TypeInv
  <1>3. Frame = frames[Len(q) + 1]
    <2>1. CASE q = <<>>
      <3>1. Len(frames) = 1
        BY <2>1, FramesOfOne DEF Depth
      <3> QED
        BY <2>1, <3>1, TopFrame
    <2>2. CASE q # <<>>
      BY <2>2, InnerFrame, TopFrame DEF Raise, At
    <2> QED
      BY <2>1, <2>2
  <1>4. \A i \in 1 .. Len(q) : OnStack(q[i], frames[i])
    BY DEF StackInv
  <1>5. calls'[t] = r /\ \A u \in Thread : u = t
    BY <1>1 DEF OneThread, BridgeInv, TypeInv
  <1> HIDE DEF q, c
  <1>6. Len(r) = Len(q) + 1 /\ Len(q) \in Nat /\ r[Len(q) + 1] = c /\ \A i \in 1 .. Len(q) : r[i] = q[i]
    BY <1>1, <1>2
  <1> HIDE DEF r
  <1>7. \A i \in 1 .. Len(q) + 1 : OnStack(r[i], frames[i])
    <2> TAKE i \in 1 .. Len(q) + 1
    <2>1. CASE i = Len(q) + 1
      BY <1>2, <1>3, <1>6, <2>1
    <2>2. CASE i # Len(q) + 1
      BY <1>4, <1>6, <2>2
    <2> QED
      BY <2>1, <2>2
  <1>8. StackInv'
    BY <1>1, <1>5, <1>6, <1>7 DEF StackInv
  <1> QED
    BY <1>1, <1>8, SameFramesKeep

\* A Java method is called or returns: the frame of the event stays.
LEMMA FrameStays ==
  ASSUME BridgeInv, OneThread, StackInv, NEW t \in Thread, calls[t] # <<>>, Call(t).pc \in Inside,
         NEW pc \in Inside, calls' = GoTo(t, pc), \A i \in 1 .. Len(calls[t]) : frames'[i] = frames[i]
  PROVE  StackInv' /\ KeptBelow
  <1> DEFINE q == calls[t]
             c == [Call(t) EXCEPT !.pc = pc]
             r == Append(Front(q), c)
             n == Len(q)
  <1>1. q \in Seq(CallType) /\ n \in Nat \ {0} /\ Call(t) \in CallType /\ Call(t) = q[n]
    BY CallTyped, InnerFrame
  <1>2. c \in CallType /\ c.pc = pc /\ c.base = q[n].base /\ c.called = q[n].called /\ c.nargs = q[n].nargs
        /\ c.event = q[n].event /\ c.answer = q[n].answer
    BY <1>1 DEF CallType, Pcs, Inside
  <1>3. calls'[t] = r /\ \A u \in Thread : u = t
    BY DEF GoTo, Become, OneThread, BridgeInv, TypeInv
  <1>4. \A i \in 1 .. n : OnStack(q[i], frames[i]) /\ frames'[i] = frames[i] /\ q[i].base <= Len(frames[i])
    BY SMTT(45) DEF StackInv, OnStack
  <1>5. OnStack(c, frames[n])
    <2>1. OnStack(q[n], frames[n]) /\ q[n].pc \in Inside
      BY <1>1, <1>4
    <2> QED
      BY <1>2, <2>1 DEF OnStack, Inside, Values, Pushed
  <1> HIDE DEF c
  <1>6. Len(r) = n /\ r[n] = c /\ \A i \in 1 .. n - 1 : r[i] = q[i]
    BY <1>1, <1>2, BecomesProperties
  <1> HIDE DEF r
  <1>7. \A i \in 1 .. n : OnStack(r[i], frames'[i])
    <2> TAKE i \in 1 .. n
    <2>1. CASE i = n
      BY <1>4, <1>5, <1>6, <2>1
    <2>2. CASE i # n
      BY <1>1, <1>4, <1>6, <2>2
    <2> QED
      BY <2>1, <2>2
  <1>8. StackInv'
    BY <1>3, <1>6, <1>7 DEF StackInv
  <1>9. KeptBelow
    BY <1>3, <1>4 DEF KeptBelow, Keeps
  <1> QED
    BY <1>8, <1>9

LEMMA PCallOn ==
  ASSUME BridgeInv, OneThread, StackInv, NEW t \in Thread, PCall(t)
  PROVE  StackInv' /\ KeptBelow
  <1> DEFINE d == Call(t)
             b == d.base
             n == d.nargs
             at == CalledAt(t)
             pc == IF Frame[at][1] = "function" THEN "handler" ELSE "report"
             called == SubSeq(Frame, at, Len(Frame))
             g == SubSeq(Frame, 1, at - 1)
             c == [d EXCEPT !.pc = pc, !.called = called]
  <1>1. calls[t] # <<>> /\ d.pc = "args" /\ d.left = 0 /\ frames' = WithFrame(g) /\ calls' = Become(t, c)
    BY DEF PCall, At
  <1>2. OnStack(d, Frame) /\ d \in CallType /\ Frame \in Seq(Value) /\ b \in Nat /\ n \in Nat
    BY <1>1, CallOnStack DEF CallType
  <1>3. Len(Frame) = b + 2 + n /\ \A k \in 1 .. Len(Frame) - b : Frame[b + k] = Pushed(d, k)
    BY <1>1, <1>2 DEF OnStack
  <1>4. at = b + 1
    BY <1>2, <1>3 DEF CalledAt
  <1>5. /\ called \in Seq(Value) /\ Len(called) = n + 2 /\ (\A k \in 1 .. n + 2 : called[k] = Frame[b + k])
        /\ g \in Seq(Value) /\ Len(g) = b /\ \A k \in 1 .. b : g[k] = Frame[k]
    <2>1. \A k \in 1 .. Len(Frame) : Frame[k] \in Value
      BY <1>2
    <2> HIDE DEF d, b, n, at
    <2>2. /\ called \in Seq(Value) /\ Len(called) = n + 2
          /\ \A k \in 1 .. n + 2 : called[k] = Frame[b + k]
      <3>1. /\ called \in Seq(Value) /\ Len(called) = Len(Frame) - at + 1
            /\ \A k \in 1 .. Len(Frame) - at + 1 : called[k] = Frame[at + k - 1]
        BY <1>2, <1>3, <1>4, <2>1, SubSeqProperties
      <3> HIDE DEF called
      <3> QED
        BY <1>2, <1>3, <1>4, <3>1
    <2>3. /\ g \in Seq(Value) /\ Len(g) = b /\ \A k \in 1 .. b : g[k] = Frame[k]
      <3>1. g = SubSeq(Frame, 1, b)
        BY <1>2, <1>4
      <3>2. /\ SubSeq(Frame, 1, b) \in Seq(Value)
            /\ Len(SubSeq(Frame, 1, b)) = IF 1 <= b THEN b - 1 + 1 ELSE 0
            /\ \A k \in 1 .. b - 1 + 1 : SubSeq(Frame, 1, b)[k] = Frame[1 + k - 1]
        BY <1>2, <1>3, <2>1, SubSeqProperties
      <3> HIDE DEF g
      <3>3. Len(g) = b /\ \A k \in 1 .. b : g[k] = Frame[k]
        BY <1>2, <3>1, <3>2
      <3> QED
        BY <3>1, <3>2, <3>3
    <2> QED
      BY <2>2, <2>3
  <1>6. called = Values(d)
    <2> HIDE DEF called, d, b, n
    <2>0. called \in Seq(Value) /\ Len(called) = n + 2
      BY <1>5
    <2>1. DOMAIN called = 1 .. n + 2 /\ called = [k \in 1 .. n + 2 |-> called[k]]
      BY <2>0
    <2>2. \A k \in 1 .. n + 2 : called[k] = Pushed(d, k)
      <3> TAKE k \in 1 .. n + 2
      <3>1. k \in 1 .. Len(Frame) - b
        BY <1>2, <1>3
      <3> QED
        BY <1>3, <1>5, <3>1
    <2> USE DEF n
    <2> QED
      BY <2>1, <2>2 DEF Values
  <1> HIDE DEF d, g, called
  <1>7. c \in CallType /\ c.base = b /\ c.pc = pc /\ c.called = called /\ c.nargs = d.nargs /\ c.event = d.event
        /\ c.answer = d.answer /\ d.answer = <<>>
    <2>1. c \in CallType /\ c.base = b /\ c.pc = pc /\ c.called = called /\ c.nargs = d.nargs /\ c.event = d.event
          /\ c.answer = d.answer
      BY <1>2, <1>5 DEF CallType, Pcs
    <2>2. d.answer = <<>>
      BY <1>1, <1>2 DEF OnStack
    <2> QED
      BY <2>1, <2>2
  <1>8. pc \in {"handler", "report"}
    OBVIOUS
  <1> HIDE DEF pc, c
  <1>9. OnStack(c, g)
    BY <1>2, <1>5, <1>6, <1>7, <1>8 DEF OnStack, Values, Pushed
  <1>10. Keeps(Frame, g, c.base)
    BY <1>2, <1>5, <1>7 DEF Keeps
  <1> QED
    BY <1>1, <1>5, <1>7, <1>9, <1>10, Goes DEF d

LEMMA EngineOn ==
  ASSUME BridgeInv, OneThread, StackInv, NEW t \in Thread, Engine(t)
  PROVE  StackInv' /\ KeptBelow
  <1> DEFINE d == Call(t)
             b == d.base
  <1>1. calls[t] # <<>> /\ d.pc # "thunk"
    BY DEF Engine, RawGetI, GetGlobal, InvalidFunction, ValidFunction, PushGui, PushArg, PCall, Result,
           ResultOfFunction, ReportText, ReportNothing, At
  <1>2. /\ OnStack(d, Frame) /\ d \in CallType /\ Frame \in Seq(Value) /\ Len(Frame) \in Nat
        /\ b \in Nat /\ d.nargs \in Nat /\ d.left \in Nat
        /\ \A kind \in Kinds : <<kind, d.event>> \in Value
    BY <1>1, CallOnStack DEF CallType, Value
  <1>3. \A pc \in Pcs : LET c == [d EXCEPT !.pc = pc]
                        IN  c \in CallType /\ c.pc = pc /\ c.base = b /\ c.left = d.left /\ c.nargs = d.nargs
                            /\ c.event = d.event /\ c.answer = d.answer /\ \A k : Pushed(c, k) = Pushed(d, k)
    BY <1>2 DEF CallType, Pushed
  <1>4. \A v \in Value : /\ Append(Frame, v) \in Seq(Value) /\ Len(Append(Frame, v)) = Len(Frame) + 1
                         /\ Append(Frame, v)[Len(Frame) + 1] = v
                         /\ \A k \in 1 .. Len(Frame) : Append(Frame, v)[k] = Frame[k]
    BY <1>2
  <1>5. CASE RawGetI(t)
    <2> DEFINE c == [d EXCEPT !.pc = "gui"]
               v == <<"function", d.event>>
    <2>1. d.pc = "function" /\ Push(t, v, Become(t, c))
      BY <1>5 DEF RawGetI, GoTo, At
    <2>2. v \in Value /\ v = Pushed(d, 1)
      BY <1>2 DEF Kinds, Pushed
    <2>3. c \in CallType /\ c.pc = "gui" /\ c.base = b /\ c.left = d.left /\ c.nargs = d.nargs
          /\ c.answer = d.answer /\ \A k : Pushed(c, k) = Pushed(d, k)
      BY <1>3 DEF Pcs
    <2>4. Len(Frame) = b /\ d.left = d.nargs /\ d.answer = <<>>
      BY <1>2, <2>1 DEF OnStack
    <2> HIDE DEF d, c, v
    <2>5. OnStack(c, Append(Frame, v))
      BY <1>2, <1>4, <2>2, <2>3, <2>4 DEF OnStack
    <2> QED
      BY <1>1, <2>1, <2>2, <2>3, <2>5, Pushes DEF d
  <1>6. CASE GetGlobal(t)
    <2> DEFINE c == [d EXCEPT !.pc = "isnil"]
    <2>1. PICK kind \in {"function", "nil"} : Push(t, <<kind, d.event>>, Become(t, c))
      BY <1>6 DEF GetGlobal, GoTo
    <2> DEFINE v == <<kind, d.event>>
    <2>2. v \in Value /\ (v = Pushed(d, 1) \/ v[1] = "nil")
      BY <1>2 DEF Kinds, Pushed
    <2>3. c \in CallType /\ c.pc = "isnil" /\ c.base = b /\ c.left = d.left /\ c.nargs = d.nargs
          /\ c.answer = d.answer /\ \A k : Pushed(c, k) = Pushed(d, k)
      BY <1>3 DEF Pcs
    <2>4. Len(Frame) = b /\ d.left = d.nargs /\ d.answer = <<>>
      BY <1>2, <1>6 DEF OnStack, GetGlobal, At
    <2>5. Push(t, v, Become(t, c))
      BY <2>1
    <2> HIDE DEF d, c, v
    <2>6. OnStack(c, Append(Frame, v))
      BY <1>2, <1>4, <2>2, <2>3, <2>4 DEF OnStack
    <2> QED
      BY <1>1, <2>2, <2>3, <2>5, <2>6, Pushes DEF d
  <1>7. CASE ValidFunction(t)
    <2> DEFINE c == [d EXCEPT !.pc = "gui"]
    <2>1. d.pc = "isnil" /\ TopKind # "nil" /\ frames' = frames /\ calls' = Become(t, c)
      BY <1>7 DEF ValidFunction, GoTo, At
    <2>2. Len(Frame) = b + 1 /\ d.left = d.nargs /\ d.answer = <<>> /\ (Frame[b + 1] = Pushed(d, 1) \/ Frame[b + 1][1] = "nil")
      BY <1>2, <2>1 DEF OnStack
    <2>3. TopKind = Frame[b + 1][1]
      BY <1>2, <2>2 DEF TopKind, Last
    <2>4. c \in CallType /\ c.pc = "gui" /\ c.base = b /\ c.left = d.left /\ c.nargs = d.nargs
          /\ c.answer = d.answer /\ \A k : Pushed(c, k) = Pushed(d, k)
      BY <1>3 DEF Pcs
    <2> HIDE DEF d, c
    <2>5. OnStack(c, Frame) /\ Keeps(Frame, Frame, c.base)
      BY <1>2, <2>1, <2>2, <2>3, <2>4 DEF OnStack, Keeps
    <2> QED
      BY <1>1, <1>2, <2>1, <2>4, <2>5, Goes DEF d
  <1>8. CASE PushGui(t)
    <2> DEFINE c == [d EXCEPT !.pc = "args"]
               v == <<"gui", d.event>>
    <2>1. d.pc = "gui" /\ Push(t, v, Become(t, c))
      BY <1>8 DEF PushGui, GoTo, At
    <2>2. v \in Value /\ v = Pushed(d, 2)
      BY <1>2 DEF Kinds, Pushed
    <2>3. c \in CallType /\ c.pc = "args" /\ c.base = b /\ c.left = d.left /\ c.nargs = d.nargs
          /\ c.answer = d.answer /\ \A k : Pushed(c, k) = Pushed(d, k)
      BY <1>3 DEF Pcs
    <2>4. Len(Frame) = b + 1 /\ d.left = d.nargs /\ d.answer = <<>> /\ Frame[b + 1] = Pushed(d, 1)
      BY <1>2, <2>1 DEF OnStack
    <2> HIDE DEF d, c, v
    <2>5. OnStack(c, Append(Frame, v))
      <3>1. /\ Len(Append(Frame, v)) = b + 2 /\ Append(Frame, v)[b + 1] = Pushed(d, 1)
            /\ Append(Frame, v)[b + 2] = Pushed(d, 2)
        BY <1>2, <1>4, <2>2, <2>4
      <3> QED
        BY <1>2, <2>3, <2>4, <3>1 DEF OnStack
    <2> QED
      BY <1>1, <2>1, <2>2, <2>3, <2>5, Pushes DEF d
  <1>9. CASE PushArg(t)
    <2> DEFINE less == d.left - 1
               c == [d EXCEPT !.left = less]
               v == <<"arg", d.event>>
    <2>1. d.pc = "args" /\ d.left > 0 /\ Push(t, v, Become(t, c))
      BY <1>9 DEF PushArg, At
    <2>2. v \in Value /\ \A k \in Nat : k > 2 => v = Pushed(d, k)
      BY <1>2 DEF Kinds, Pushed
    <2>3. /\ d.left <= d.nargs /\ Len(Frame) = b + 2 + d.nargs - d.left /\ d.answer = <<>>
          /\ \A k \in 1 .. Len(Frame) - b : Frame[b + k] = Pushed(d, k)
      BY <1>2, <2>1 DEF OnStack
    <2>4. less \in Nat /\ less = d.left - 1
      <3>1. \A n \in Nat : n > 0 => n - 1 \in Nat
        OBVIOUS
      <3> QED
        BY <1>2, <2>1, <3>1
    <2> HIDE DEF less
    <2>5. c \in CallType /\ c.pc = d.pc /\ c.base = b /\ c.left = less /\ c.nargs = d.nargs
          /\ c.answer = d.answer /\ \A k : Pushed(c, k) = Pushed(d, k)
      BY <1>2, <2>4 DEF CallType, Pushed
    <2> HIDE DEF d, c, v
    <2>6. OnStack(c, Append(Frame, v))
      <3> DEFINE g == Append(Frame, v)
      <3>1. Len(g) = b + 2 + d.nargs - less /\ less <= d.nargs
        <4>1. Len(g) = Len(Frame) + 1
          BY <1>4, <2>2
        <4> DEFINE l == d.left
                   n == d.nargs
                   y == Len(Frame)
        <4>2. l \in Nat /\ n \in Nat /\ b \in Nat /\ y \in Nat /\ less \in Nat
              /\ less = l - 1 /\ l <= n /\ y = b + 2 + n - l
          BY <1>2, <2>3, <2>4
        <4> HIDE DEF l, n, y, b
        <4>3. less <= n /\ y + 1 = b + 2 + n - less
          BY <4>2
        <4> QED
          BY <4>1, <4>3 DEF n, y
      <3>2. \A k \in 1 .. Len(g) - b : g[b + k] = Pushed(d, k)
        <4> TAKE k \in 1 .. Len(g) - b
        <4>1. CASE b + k = Len(Frame) + 1
          <5>1. k \in Nat /\ k > 2
            BY <1>2, <2>1, <2>3, <4>1, SMTT(45)
          <5> QED
            BY <1>4, <2>2, <4>1, <5>1
        <4>2. CASE b + k # Len(Frame) + 1
          <5>1. b + k \in 1 .. Len(Frame) /\ k \in 1 .. Len(Frame) - b
            BY <1>2, <1>4, <2>2, <4>2, SMTT(45)
          <5> QED
            BY <1>4, <2>2, <2>3, <5>1
        <4> QED
          BY <4>1, <4>2
      <3>3. c.base <= Len(g)
        BY <1>2, <2>4, <2>5, <3>1, SMTT(45)
      <3>4. c.left <= c.nargs /\ Len(g) = c.base + 2 + c.nargs - c.left
        BY <2>5, <3>1
      <3>5. \A k \in 1 .. Len(g) - c.base : g[c.base + k] = Pushed(c, k)
        BY <2>5, <3>2
      <3> HIDE DEF g
      <3>6. OnStack(c, g)
        BY <2>1, <2>3, <2>5, <3>3, <3>4, <3>5 DEF OnStack
      <3> QED
        BY <3>6 DEF g
    <2> QED
      BY <1>1, <2>1, <2>2, <2>5, <2>6, Pushes DEF d
  <1>10. CASE PCall(t)
    BY <1>10, PCallOn
  <1>11. CASE InvalidFunction(t) \/ Result(t) \/ ReportText(t) \/ ReportNothing(t)
    <2>1. calls' = [calls EXCEPT ![t] = Front(@)] /\ frames' = frames
      BY <1>11 DEF InvalidFunction, Result, ReportText, ReportNothing, Return, Escape
    <2> QED
      BY <1>1, <2>1, Ends
  <1>12. CASE ResultOfFunction(t)
    <2>1. UNCHANGED <<calls, frames>>
      BY <1>12 DEF ResultOfFunction
    <2> QED
      BY <2>1, SameFramesKeep DEF StackInv
  <1> QED
    BY <1>5, <1>6, <1>7, <1>8, <1>9, <1>10, <1>11, <1>12 DEF Engine

LEMMA HandlerOn ==
  ASSUME BridgeInv, OneThread, StackInv, NEW t \in Thread, HandlerEnds(t)
  PROVE  StackInv' /\ KeptBelow
  <1> DEFINE d == Call(t)
  <1>1. calls[t] # <<>> /\ d.pc = "handler"
    BY DEF HandlerEnds, HandlerReturns, HandlerFails, At
  <1>2. /\ OnStack(d, Frame) /\ d \in CallType /\ Frame \in Seq(Value) /\ Len(Frame) \in Nat
        /\ d.base \in Nat /\ d.base = Len(Frame) /\ d.called = Values(d) /\ d.answer = <<>>
    BY <1>1, CallOnStack DEF OnStack
  <1>3. CASE HandlerFails(t)
    <2> DEFINE c == [d EXCEPT !.pc = "report"]
    <2>1. c \in CallType /\ c.pc = "report" /\ c.base = d.base /\ c.answer = d.answer
      BY <1>2 DEF CallType, Pcs
    <2>2. calls' = Become(t, c) /\ frames' = frames
      BY <1>3 DEF HandlerFails, GoTo
    <2> HIDE DEF c
    <2>3. OnStack(c, Frame) /\ Keeps(Frame, Frame, c.base)
      BY <1>2, <2>1 DEF OnStack, Keeps
    <2> QED
      BY <1>1, <1>2, <2>1, <2>2, <2>3, Goes
  <1>4. ASSUME NEW kind \in ResultKind, NEW n \in 0 .. MaxResults, HandlerReturns(t, kind, n)
        PROVE  StackInv' /\ KeptBelow
    <2> DEFINE v == <<kind, d.event>>
               answer == [i \in 1 .. n |-> v]
               c == [d EXCEPT !.pc = "result", !.answer = answer]
               g == Frame \o answer
    <2>1. frames' = WithFrame(g) /\ calls' = Become(t, c)
      BY <1>4 DEF HandlerReturns
    <2>2. v \in Value /\ n \in Nat
      <3>1. d.event \in Nat
        BY <1>2 DEF CallType
      <3>2. kind \in Kinds /\ n \in Nat
        BY BridgeAssumption DEF Kinds
      <3> QED
        BY <3>1, <3>2 DEF Value
    <2> HIDE DEF v
    <2>3. answer \in Seq(Value) /\ \A k \in 1 .. Len(answer) : answer[k] = v
      BY <2>2
    <2>0. v[1] \in ResultKind
      BY DEF v
    <2> HIDE DEF answer
    <2>4. /\ g \in Seq(Value) /\ Len(g) = Len(Frame) + Len(answer) /\ Len(answer) \in Nat
          /\ \A i \in 1 .. Len(Frame) + Len(answer) : g[i] = IF i <= Len(Frame) THEN Frame[i] ELSE answer[i - Len(Frame)]
      BY <1>2, <2>3, ConcatProperties
    <2>5. /\ c \in CallType /\ c.pc = "result" /\ c.base = d.base /\ c.called = d.called
          /\ c.nargs = d.nargs /\ c.event = d.event /\ c.answer = answer
      BY <1>2, <2>3 DEF CallType, Pcs
    <2> HIDE DEF c, g
    <2>6. Keeps(Frame, g, c.base) /\ c.base <= Len(g)
      BY <1>2, <2>4, <2>5 DEF Keeps
    <2>7. OnStack(c, g)
      <3>1. Len(g) = c.base + Len(c.answer) /\ \A k \in 1 .. Len(c.answer) :
              g[c.base + k] = c.answer[k] /\ c.answer[k][1] \in ResultKind
        <4>1. \A k \in 1 .. Len(answer) : g[Len(Frame) + k] = answer[k]
          <5> TAKE k \in 1 .. Len(answer)
          <5>1. Len(Frame) + k \in 1 .. Len(Frame) + Len(answer) /\ ~(Len(Frame) + k <= Len(Frame))
                /\ Len(Frame) + k - Len(Frame) = k
            BY <1>2, <2>4
          <5> QED
            BY <2>4, <5>1
        <4>2. \A k \in 1 .. Len(answer) : answer[k][1] \in ResultKind
          BY <2>0, <2>3
        <4>3. c.base = Len(Frame) /\ c.answer = answer /\ Len(g) = Len(Frame) + Len(answer)
          BY <1>2, <2>4, <2>5
        <4> QED
          BY <4>1, <4>2, <4>3
      <3>2. c.called = Values(c)
        BY <1>2, <2>5 DEF Values, Pushed
      <3> QED
        BY <2>5, <2>6, <3>1, <3>2 DEF OnStack
    <2> QED
      BY <1>1, <2>1, <2>4, <2>5, <2>6, <2>7, Goes
  <1> QED
    BY <1>3, <1>4 DEF HandlerEnds

LEMMA ThunkOn ==
  ASSUME BridgeInv, OneThread, StackInv, NEW t \in Thread, Thunk(t) \/ ThunkReturns(t)
  PROVE  StackInv' /\ KeptBelow
  <1>1. calls[t] # <<>> /\ Call(t).pc \in Inside
    BY DEF Thunk, ThunkReturns, At, Inside
  <1>2. Len(frames) \in Nat \ {0} /\ frames \in Seq(Seq(Value)) /\ frames # <<>>
    BY TopFrame DEF BridgeInv, TypeInv
  <1>3. CASE Thunk(t)
    <2>1. Len(frames) = Len(calls[t]) /\ calls' = GoTo(t, "thunk")
      BY <1>1, <1>3, InnerFrame DEF Thunk, At
    <2>2. PICK n \in 0 .. 1 : frames' = Append(frames, [i \in 1 .. n |-> <<"userdata", 0>>])
      BY <1>3 DEF Thunk
    <2> DEFINE f == [i \in 1 .. n |-> <<"userdata", 0>>]
    <2>3. f \in Seq(Value)
      BY DEF Value, Kinds
    <2> HIDE DEF f
    <2>4. \A i \in 1 .. Len(frames) : Append(frames, f)[i] = frames[i]
      BY <1>2, <2>3
    <2> QED
      BY <1>1, <2>1, <2>2, <2>4, FrameStays DEF Inside, f
  <1>4. CASE ThunkReturns(t)
    <2>1. Len(frames) = Len(calls[t]) + 1 /\ calls' = GoTo(t, "handler") /\ frames' = Front(frames)
      BY <1>1, <1>4, InnerFrame DEF ThunkReturns, At
    <2>2. \A i \in 1 .. Len(frames) - 1 : Front(frames)[i] = frames[i]
      BY <1>2, FrontProperties
    <2>3. Len(calls[t]) = Len(frames) - 1
      BY <1>1, <2>1, InnerFrame
    <2> QED
      BY <1>1, <2>1, <2>2, <2>3, FrameStays DEF Inside
  <1> QED
    BY <1>3, <1>4

LEMMA StackInvInit == Init => StackInv
  BY DEF Init, StackInv

LEMMA StackInvStep ==
  ASSUME OneThread, BridgeInv, StackInv, [Next]_vars
  PROVE  StackInv' /\ (Next => KeptBelow)
  <1>1. CASE UNCHANGED vars
    BY <1>1, SameFramesKeep DEF vars, StackInv
  <1>2. ASSUME NEW t \in Thread, NEW byName \in BOOLEAN, NEW n \in 0 .. MaxArgs, Raise(t, byName, n)
        PROVE  StackInv' /\ KeptBelow
    BY <1>2, RaisesOn
  <1>3. ASSUME NEW t \in Thread, Engine(t)
        PROVE  StackInv' /\ KeptBelow
    BY <1>3, EngineOn
  <1>4. ASSUME NEW t \in Thread, Thunk(t) \/ ThunkReturns(t)
        PROVE  StackInv' /\ KeptBelow
    BY <1>4, ThunkOn
  <1>5. ASSUME NEW t \in Thread, HandlerEnds(t)
        PROVE  StackInv' /\ KeptBelow
    BY <1>5, HandlerOn
  <1> QED
    BY <1>1, <1>2, <1>3, <1>4, <1>5 DEF Next

-----------------------------------------------------------------------------
(* The properties *)

LEMMA StackInvCalled == BridgeInv /\ StackInv => CalledAsRaised
  <1> SUFFICES ASSUME BridgeInv, StackInv, NEW t \in Thread, NEW i \in DOMAIN calls[t],
                      calls[t][i].pc \in {"handler", "thunk", "result"}
               PROVE  LET c == calls[t][i]
                      IN  c.called = <<<<"function", c.event>>, <<"gui", c.event>>>>
                                       \o [k \in 1..c.nargs |-> <<"arg", c.event>>]
    BY DEF CalledAsRaised
  <1>1. i \in 1 .. Len(calls[t]) /\ calls[t][i] \in CallType
    BY DEF BridgeInv, TypeInv
  <1>2. calls[t][i].called = Values(calls[t][i])
    BY <1>1 DEF StackInv, OnStack
  <1> QED
    BY <1>1, <1>2, ValuesInOrder

KeepsBase == \A t \in Thread : \A i \in DOMAIN calls[t] :
       i <= Len(frames') =>
         IsPrefix(SubSeq(frames[i], 1, calls[t][i].base), frames'[i])

LEMMA KeptIsPrefix ==
  ASSUME OneThread, BridgeInv, BridgeInv', StackInv, KeptBelow
  PROVE  KeepsBase
  <1> SUFFICES ASSUME NEW t \in Thread, NEW i \in DOMAIN calls[t], i <= Len(frames')
               PROVE  IsPrefix(SubSeq(frames[i], 1, calls[t][i].base), frames'[i])
    BY DEF KeepsBase
  <1> DEFINE f == frames[i]
             g == frames'[i]
             b == calls[t][i].base
  <1>1. i \in 1 .. Len(calls[t]) /\ b \in Nat /\ b <= Len(f) /\ Keeps(f, g, b)
    <2>1. i \in 1 .. Len(calls[t]) /\ calls[t][i] \in CallType
      BY DEF BridgeInv, TypeInv
    <2> QED
      BY <2>1 DEF StackInv, OnStack, KeptBelow, CallType
  <1>2. f \in Seq(Value) /\ g \in Seq(Value)
    <2>1. Len(calls[t]) <= Len(frames) /\ i \in Nat \ {0} /\ frames \in Seq(Seq(Value))
      BY <1>1, InnerFrame, SMTT(45) DEF BridgeInv, TypeInv
    <2>2. frames' \in Seq(Seq(Value))
      BY DEF BridgeInv, TypeInv
    <2> QED
      BY <1>1, <2>1, <2>2
  <1> HIDE DEF f, g, b
  <1>3. /\ SubSeq(f, 1, b) \in Seq(Value) /\ Len(SubSeq(f, 1, b)) = b
        /\ SubSeq(g, 1, b) \in Seq(Value) /\ Len(SubSeq(g, 1, b)) = b
        /\ \A k \in 1 .. b : SubSeq(f, 1, b)[k] = f[k] /\ SubSeq(g, 1, b)[k] = g[k]
    <2>1. \A s \in Seq(Value) : b <= Len(s) => /\ SubSeq(s, 1, b) \in Seq(Value) /\ Len(SubSeq(s, 1, b)) = b
                                               /\ \A k \in 1 .. b : SubSeq(s, 1, b)[k] = s[k]
      <3> SUFFICES ASSUME NEW s \in Seq(Value), b <= Len(s)
                   PROVE  /\ SubSeq(s, 1, b) \in Seq(Value) /\ Len(SubSeq(s, 1, b)) = b
                          /\ \A k \in 1 .. b : SubSeq(s, 1, b)[k] = s[k]
        OBVIOUS
      <3>1. \A k \in 1 .. b : s[k] \in Value
        BY <1>1
      <3>2. /\ SubSeq(s, 1, b) \in Seq(Value)
            /\ Len(SubSeq(s, 1, b)) = IF 1 <= b THEN b - 1 + 1 ELSE 0
            /\ \A k \in 1 .. b - 1 + 1 : SubSeq(s, 1, b)[k] = s[1 + k - 1]
        BY <1>1, <3>1, SubSeqProperties
      <3>3. Len(SubSeq(s, 1, b)) = b /\ \A k \in 1 .. b : SubSeq(s, 1, b)[k] = s[k]
        BY <1>1, <3>2
      <3> QED
        BY <3>2, <3>3
    <2>2. b <= Len(g)
      BY <1>1 DEF Keeps
    <2> QED
      BY <1>1, <1>2, <2>1, <2>2
  <1>4. SubSeq(f, 1, b) = SubSeq(g, 1, b)
    <2> DEFINE x == SubSeq(f, 1, b)
               y == SubSeq(g, 1, b)
    <2>1. x \in Seq(Value) /\ y \in Seq(Value) /\ Len(x) = b /\ Len(y) = b /\ \A k \in 1 .. b : x[k] = y[k]
      BY <1>1, <1>3 DEF Keeps
    <2> HIDE DEF x, y
    <2>2. x = y
      BY <2>1, SeqEqual
    <2> QED
      BY <2>2 DEF x, y
  <1>5. IsPrefix(SubSeq(f, 1, b), g)
    <2> DEFINE x == SubSeq(f, 1, b)
    <2>1. x \in Seq(Value) /\ Len(x) = b /\ x = SubSeq(g, 1, b) /\ b <= Len(g) /\ SubSeq(x, 1, Len(x)) = x
      <3>1. x \in Seq(Value) /\ Len(x) = b /\ b <= Len(g)
        BY <1>1, <1>3 DEF Keeps
      <3> HIDE DEF x
      <3>2. SubSeq(x, 1, Len(x)) = x
        BY <3>1, SubSeqFull
      <3> QED
        BY <1>4, <3>1, <3>2 DEF x
    <2> HIDE DEF x
    <2>2. IsPrefix(x, g)
      BY <2>1 DEF IsPrefix
    <2> QED
      BY <2>2 DEF x
  <1> QED
    BY <1>5 DEF f, g, b

AloneInv == BridgeInv /\ StackInv

\* A single thread that raises events: each event calls its own function with
\* its own object and arguments, whatever other events, failed calls and Java
\* methods there were before, around and within it.
THEOREM AloneCalledAsRaised == OneThread => (Spec => []CalledAsRaised)
  <1> SUFFICES ASSUME OneThread PROVE Spec => []CalledAsRaised
    OBVIOUS
  <1>1. Init => AloneInv
    BY BridgeInvInit, StackInvInit DEF AloneInv
  <1>2. AloneInv /\ [Next]_vars => AloneInv'
    BY BridgeInvStep, StackInvStep DEF AloneInv
  <1>3. AloneInv => CalledAsRaised
    BY StackInvCalled DEF AloneInv
  <1> QED
    BY <1>1, <1>2, <1>3, PTL DEF Spec

\* A single thread that raises events: until an event has ended, what lay on
\* the frame below its values stays there.
THEOREM AloneBelowBaseKept == OneThread => (Spec => BelowBaseKept)
  <1> SUFFICES ASSUME OneThread PROVE Spec => BelowBaseKept
    OBVIOUS
  <1>1. Init => AloneInv
    BY BridgeInvInit, StackInvInit DEF AloneInv
  <1>2. AloneInv /\ [Next]_vars => AloneInv'
    BY BridgeInvStep, StackInvStep DEF AloneInv
  <1>3. AloneInv /\ AloneInv' /\ [Next]_vars => [KeepsBase]_vars
    <2> SUFFICES ASSUME AloneInv, AloneInv', Next PROVE KeepsBase
      OBVIOUS
    <2> QED
      BY StackInvStep, KeptIsPrefix DEF AloneInv
  <1>4. BelowBaseKept <=> [][KeepsBase]_vars
    BY DEF BelowBaseKept, KeepsBase
  <1> QED
    BY <1>1, <1>2, <1>3, <1>4, PTL DEF Spec

-----------------------------------------------------------------------------
(* What is left between events, and what an event yields *)

\* An event that has not returned yields nothing but its own values: the last
\* of them lies on top.
LEMMA ResultStep ==
  ASSUME OneThread, BridgeInv, StackInv, [Next]_vars, ResultIsLastValue
  PROVE  ResultIsLastValue'
  <1>1. CASE ended' = ended
    BY <1>1 DEF ResultIsLastValue
  <1>2. ASSUME NEW t \in Thread, InvalidFunction(t) \/ ReportNothing(t)
        PROVE  ResultIsLastValue'
    <2>1. calls[t] # <<>> /\ Call(t).pc \in {"isnil", "report"} /\ ended'.answer = Call(t).answer
      BY <1>2 DEF InvalidFunction, ReportNothing, At, Return
    <2>2. Call(t).answer = <<>>
      BY <2>1, CallOnStack DEF OnStack
    <2> QED
      BY <2>1, <2>2 DEF ResultIsLastValue
  <1>3. ASSUME NEW t \in Thread, Result(t)
        PROVE  ResultIsLastValue'
    <2> DEFINE d == Call(t)
    <2>1. /\ calls[t] # <<>> /\ d.pc = "result" /\ ended'.answer = d.answer
          /\ ended'.result = IF Frame = <<>> THEN Nothing ELSE Last(Frame)
      BY <1>3 DEF Result, At, Return
    <2>2. /\ d.answer \in Seq(Value) /\ Frame \in Seq(Value) /\ d.base \in Nat
          /\ Len(Frame) = d.base + Len(d.answer)
          /\ \A k \in 1 .. Len(d.answer) : Frame[d.base + k] = d.answer[k]
      BY <2>1, CallOnStack DEF OnStack, CallType
    <2> DEFINE a == d.answer
    <2> HIDE DEF d
    <2>3. ASSUME a # <<>> PROVE Frame # <<>> /\ Last(Frame) = Last(a)
      <3>1. Len(a) \in Nat \ {0} /\ Last(a) = a[Len(a)]
        BY <2>2, <2>3 DEF Last
      <3>2. Frame # <<>> /\ Last(Frame) = Frame[Len(Frame)]
        BY <2>2, <3>1 DEF Last
      <3>3. Frame[Len(Frame)] = a[Len(a)]
        <4>1. Len(a) \in 1 .. Len(a) /\ Len(Frame) = d.base + Len(a)
          BY <2>2, <3>1
        <4> QED
          BY <2>2, <4>1
      <3> QED
        BY <3>1, <3>2, <3>3
    <2> QED
      BY <2>1, <2>3 DEF ResultIsLastValue
  <1>4. ASSUME NEW t \in Thread, Next, ended' # ended
        PROVE  \E u \in Thread : InvalidFunction(u) \/ ReportNothing(u) \/ Result(u)
    BY <1>4 DEF Next, Raise, Engine, RawGetI, GetGlobal, ValidFunction, PushGui, PushArg, PCall, ResultOfFunction,
           ReportText, Push, Escape, Thunk, ThunkReturns, HandlerEnds, HandlerReturns, HandlerFails
  <1> QED
    BY <1>1, <1>2, <1>3, <1>4 DEF Next, vars

Clean(f, n) == \A k \in 1 .. n : f[k][1] \in {"nil"} \cup ResultKind

\* The base frame holds nothing but results and nils between events, and below
\* the values of the outermost event.
CleanInv ==
  /\ ~crashed /\ (\A t \in Thread : calls[t] = <<>>) => Clean(frames[1], Len(frames[1]))
  /\ \A t \in Thread : calls[t] # <<>> => Clean(frames[1], calls[t][1].base)

LEMMA SomeFrame == BridgeInv => Len(frames) \in Nat \ {0}
  BY TopFrame

\* The outermost event goes on.
LEMMA OutermostStays ==
  ASSUME OneThread, BridgeInv, BridgeInv', StackInv, KeptBelow, CleanInv, NEW t \in Thread,
         calls[t] # <<>>, calls'[t] # <<>>, calls'[t][1].base = calls[t][1].base
  PROVE  CleanInv'
  <1>1. Len(calls[t]) \in Nat \ {0} /\ calls[t][1] \in CallType
    BY InnerFrame DEF BridgeInv, TypeInv
  <1>0. (Len(frames) \in Nat \ {0})'
    BY SomeFrame, PTL
  <1> DEFINE b == calls[t][1].base
  <1>2. b \in Nat /\ \A k \in 1 .. b : frames'[1][k] = frames[1][k]
    BY <1>0, <1>1 DEF KeptBelow, Keeps, CallType
  <1>3. Clean(frames[1], b)
    BY DEF CleanInv
  <1> HIDE DEF b
  <1>4. Clean(frames'[1], b)
    BY <1>2, <1>3 DEF Clean
  <1>5. \A u \in Thread : u = t
    BY DEF OneThread
  <1> QED
    BY <1>4, <1>5 DEF CleanInv, b

\* What is known of event c when it ends without ending the process: above its
\* base there are its results, or the nil of its name.
LEMMA EndsClean ==
  ASSUME OneThread, BridgeInv, StackInv, CleanInv, NEW t \in Thread, calls[t] # <<>>, Len(calls[t]) = 1,
         InvalidFunction(t) \/ Result(t) \/ ReportNothing(t)
  PROVE  Clean(frames[1], Len(frames[1]))
  <1> DEFINE d == Call(t)
             f == frames[1]
             b == d.base
  <1>1. d.pc \in {"isnil", "result", "report"}
    BY DEF InvalidFunction, Result, ReportNothing, At
  <1>2. d = calls[t][1] /\ Frame = f /\ d \in CallType
    BY <1>1, InnerFrame, TopFrame, CallTyped, SMTT(45)
  <1>3. /\ OnStack(d, f) /\ f \in Seq(Value) /\ Len(f) \in Nat /\ b \in Nat /\ b <= Len(f)
        /\ d.answer \in Seq(Value)
    BY <1>1, <1>2, CallOnStack DEF CallType
  <1>4. Clean(f, b)
    BY <1>2 DEF CleanInv
  <1>5. \A k \in b + 1 .. Len(f) : f[k][1] \in {"nil"} \cup ResultKind
    <2>1. CASE InvalidFunction(t)
      <3>1. d.pc = "isnil" /\ TopKind = "nil"
        BY <2>1 DEF InvalidFunction, At
      <3>2. Len(f) = b + 1
        BY <1>3, <3>1 DEF OnStack
      <3>3. TopKind = f[Len(f)][1]
        BY <1>2, <1>3, <3>2 DEF TopKind, Last
      <3> QED
        BY <1>3, <3>1, <3>2, <3>3
    <2>2. CASE Result(t)
      <3>1. d.pc = "result"
        BY <2>2 DEF Result, At
      <3> DEFINE a == d.answer
      <3>2. Len(f) = b + Len(a) /\ Len(a) \in Nat /\ \A k \in 1 .. Len(a) : f[b + k] = a[k] /\ a[k][1] \in ResultKind
        BY <1>3, <3>1 DEF OnStack
      <3> HIDE DEF d, f, a
      <3> TAKE k \in b + 1 .. Len(f)
      <3>3. k - b \in 1 .. Len(a) /\ b + (k - b) = k
        BY <1>3, <3>2
      <3> QED
        BY <3>2, <3>3
    <2>3. CASE ReportNothing(t)
      <3>1. d.pc = "report"
        BY <2>3 DEF ReportNothing, At
      <3>2. Len(f) = b
        BY <1>3, <3>1 DEF OnStack
      <3> QED
        BY <1>3, <3>2
    <2> QED
      BY <2>1, <2>2, <2>3
  <1> HIDE DEF d, f
  <1>6. Clean(f, Len(f))
    BY <1>3, <1>4, <1>5 DEF Clean
  <1> QED
    BY <1>6 DEF f

\* The innermost event goes on or ends within another one, or a nested one is
\* raised: the outermost one is the same.
LEMMA SameOutermost ==
  ASSUME NEW q \in Seq(CallType), q # <<>>, NEW r, NEW c \in CallType,
         \/ r = Append(q, c)
         \/ r = Append(Front(q), c) /\ c.base = Last(q).base
         \/ r = Front(q) /\ Len(q) # 1
  PROVE  r # <<>> /\ r[1].base = q[1].base
  <1>1. /\ Len(q) \in Nat \ {0} /\ Last(q) = q[Len(q)]
        /\ Front(q) \in Seq(CallType) /\ Len(Front(q)) = Len(q) - 1
        /\ \A i \in 1 .. Len(q) - 1 : Front(q)[i] = q[i]
    BY FrontProperties
  <1>2. CASE r = Append(q, c)
    BY <1>1, <1>2
  <1>3. CASE r = Append(Front(q), c) /\ c.base = Last(q).base
    <2>1. /\ Append(Front(q), c) # <<>> /\ Append(Front(q), c)[Len(q)] = c
          /\ \A i \in 1 .. Len(q) - 1 : Append(Front(q), c)[i] = q[i]
      BY BecomesProperties
    <2>2. CASE Len(q) = 1
      BY <1>1, <1>3, <2>1, <2>2
    <2>3. CASE Len(q) # 1
      BY <1>1, <1>3, <2>1, <2>3
    <2> QED
      BY <2>2, <2>3
  <1>4. CASE r = Front(q) /\ Len(q) # 1
    BY <1>1, <1>4
  <1> QED
    BY <1>2, <1>3, <1>4

LEMMA CleanStep ==
  ASSUME OneThread, BridgeInv, BridgeInv', StackInv, Next, CleanInv
  PROVE  CleanInv'
  <1>1. PICK t \in Thread : \/ \E byName \in BOOLEAN, n \in 0..MaxArgs : Raise(t, byName, n)
                            \/ Engine(t) \/ Thunk(t) \/ ThunkReturns(t) \/ HandlerEnds(t)
    BY DEF Next
  <1>2. KeptBelow /\ \A u \in Thread : u = t
    BY StackInvStep DEF OneThread
  <1>3. calls \in [Thread -> Seq(CallType)]
    BY DEF BridgeInv, TypeInv
  <1> DEFINE q == calls[t]
             Same == calls'[t] # <<>> /\ q # <<>> /\ calls'[t][1].base = q[1].base
  <1>4. Same => CleanInv'
    BY <1>2, OutermostStays
  <1>5. ASSUME NEW byName \in BOOLEAN, NEW n \in 0..MaxArgs, Raise(t, byName, n)
        PROVE  CleanInv'
    <2> DEFINE c == [pc |-> "function", event |-> raised + 1, byName |-> byName, nargs |-> n, left |-> n,
                     base |-> Len(Frame), called |-> <<>>, answer |-> <<>>]
    <2>1. ~crashed /\ frames' = frames /\ calls'[t] = Append(q, c)
      BY <1>3, <1>5 DEF Raise
    <2>2. c \in CallType /\ c.base = Len(Frame)
      BY TopFrame, BridgeAssumption, SMTT(45) DEF CallType, Pcs, BridgeInv, TypeInv
    <2> HIDE DEF c
    <2>3. CASE q # <<>>
      <3>1. Same
        BY <1>3, <2>1, <2>2, <2>3, SameOutermost
      <3> QED
        BY <1>4, <3>1
    <2>4. CASE q = <<>>
      <3>1. Clean(frames[1], Len(frames[1]))
        BY <1>2, <2>1, <2>4 DEF CleanInv
      <3>2. Frame = frames[1]
        BY <2>4, FramesOfOne, TopFrame DEF Depth
      <3>3. calls'[t] # <<>> /\ calls'[t][1] = c
        BY <2>1, <2>2, <2>4
      <3> QED
        BY <1>2, <2>1, <2>2, <3>1, <3>2, <3>3 DEF CleanInv
    <2> QED
      BY <2>3, <2>4
  <1>6. ASSUME NEW c \in CallType, q # <<>>, calls' = Become(t, c), c.base = Call(t).base
        PROVE  CleanInv'
    <2>1. calls'[t] = Append(Front(q), c)
      BY <1>3, <1>6 DEF Become
    <2>2. Same
      BY <1>3, <1>6, <2>1, SameOutermost DEF Call
    <2> QED
      BY <1>4, <2>2
  <1>7. ASSUME q # <<>>, calls' = [calls EXCEPT ![t] = Front(@)],
               Len(q) = 1 => crashed' \/ (frames' = frames /\ Clean(frames[1], Len(frames[1])))
        PROVE  CleanInv'
    <2>1. calls'[t] = Front(q)
      BY <1>3, <1>7
    <2>2. CASE Len(q) = 1
      <3>1. calls'[t] = <<>>
        <4>1. Front(q) \in Seq(CallType) /\ Len(Front(q)) = 0
          <5>1. q \in Seq(CallType) /\ q # <<>>
            BY <1>3, <1>7
          <5>2. Front(q) \in Seq(CallType) /\ Len(Front(q)) = Len(q) - 1
            BY <5>1, FrontProperties
          <5> QED
            BY <2>2, <5>2
        <4> QED
          BY <2>1, <4>1, EmptySeq
      <3> QED
        BY <1>2, <1>7, <2>2, <3>1 DEF CleanInv
    <2>3. CASE Len(q) # 1
      <3>1. q[1] \in CallType
        BY <1>3, <1>7
      <3>2. Same
        BY <1>3, <1>7, <2>1, <2>3, <3>1, SameOutermost
      <3> QED
        BY <1>4, <3>2
    <2> QED
      BY <2>2, <2>3
  <1>8. ASSUME NEW pc \in Pcs, q # <<>>, calls' = GoTo(t, pc)
        PROVE  CleanInv'
    <2>1. [Call(t) EXCEPT !.pc = pc] \in CallType /\ [Call(t) EXCEPT !.pc = pc].base = Call(t).base
      BY <1>8, CallTyped DEF CallType
    <2> QED
      BY <1>6, <1>8, <2>1 DEF GoTo
  <1> DEFINE ToCall == \E c \in CallType : calls' = Become(t, c) /\ c.base = Call(t).base
             ToPc == \E pc \in Pcs : calls' = GoTo(t, pc)
             Over == /\ calls' = [calls EXCEPT ![t] = Front(@)]
                     /\ Len(q) = 1 => crashed' \/ (frames' = frames /\ Clean(frames[1], Len(frames[1])))
  <1>9. q # <<>> /\ (ToCall \/ ToPc \/ Over) => CleanInv'
    BY <1>6, <1>7, <1>8
  <1>10. ASSUME Engine(t) PROVE CleanInv'
    <2>1. q # <<>> /\ Call(t) \in CallType
      BY <1>10, CallTyped DEF Engine, RawGetI, GetGlobal, InvalidFunction, ValidFunction, PushGui, PushArg, PCall, Result,
             ResultOfFunction, ReportText, ReportNothing, At
    <2>2. ASSUME Escape(t) PROVE Over
      BY <2>2 DEF Escape
    <2>3. CASE RawGetI(t) \/ GetGlobal(t) \/ PushGui(t)
      <3>1. ToPc \/ Over
        BY <2>2, <2>3 DEF RawGetI, GetGlobal, PushGui, Push, Pcs
      <3> QED
        BY <1>9, <2>1, <3>1
    <2>4. CASE ValidFunction(t)
      <3>1. ToPc
        BY <2>4 DEF ValidFunction, Pcs
      <3> QED
        BY <1>9, <2>1, <3>1
    <2>5. CASE PushArg(t)
      <3> DEFINE less == Call(t).left - 1
                 c == [Call(t) EXCEPT !.left = less]
      <3>1. calls' = Become(t, c) \/ Escape(t)
        BY <2>5 DEF PushArg, Push
      <3>2. less \in Nat
        <4>1. Call(t).left \in Nat /\ Call(t).left > 0
          BY <2>1, <2>5 DEF CallType, PushArg
        <4>2. \A n \in Nat : n > 0 => n - 1 \in Nat
          OBVIOUS
        <4> QED
          BY <4>1, <4>2
      <3> HIDE DEF less
      <3>3. c \in CallType /\ c.base = Call(t).base
        BY <2>1, <3>2 DEF CallType
      <3> QED
        BY <1>9, <2>1, <2>2, <3>1, <3>3
    <2>6. CASE PCall(t)
      <3> DEFINE at == CalledAt(t)
                 pc == IF Frame[at][1] = "function" THEN "handler" ELSE "report"
                 called == SubSeq(Frame, at, Len(Frame))
                 c == [Call(t) EXCEPT !.pc = pc, !.called = called]
      <3>1. calls' = Become(t, c) /\ at >= 1
        BY <2>6 DEF PCall
      <3>2. called \in Seq(Value) /\ pc \in Pcs
        <4>1. Frame \in Seq(Value) /\ at \in 1 .. Len(Frame) /\ Len(Frame) \in Nat
          <5>1. Frame \in Seq(Value) /\ Len(Frame) \in Nat
            BY TopFrame
          <5>2. at = Len(Frame) - (Call(t).nargs + 1) /\ Call(t).nargs \in Nat /\ at >= 1
            BY <2>1, <3>1 DEF CalledAt, CallType
          <5> HIDE DEF at
          <5> QED
            BY <5>1, <5>2
        <4> HIDE DEF at
        <4>2. called \in Seq(Value)
          BY <4>1, SubSeqProperties
        <4> QED
          BY <4>2 DEF Pcs
      <3> HIDE DEF pc, called
      <3>3. c \in CallType /\ c.base = Call(t).base
        BY <2>1, <3>2 DEF CallType
      <3> QED
        BY <1>9, <2>1, <3>1, <3>3
    <2>7. CASE InvalidFunction(t) \/ Result(t) \/ ReportNothing(t)
      <3>1. calls' = [calls EXCEPT ![t] = Front(@)] /\ frames' = frames
        BY <2>7 DEF InvalidFunction, Result, ReportNothing, Return
      <3>2. Len(q) = 1 => Clean(frames[1], Len(frames[1]))
        BY <2>1, <2>7, EndsClean
      <3>3. Over
        BY <3>1, <3>2
      <3> QED
        BY <1>9, <2>1, <3>3
    <2>8. CASE ReportText(t)
      <3>1. Over
        BY <2>2, <2>8 DEF ReportText
      <3> QED
        BY <1>9, <2>1, <3>1
    <2>9. CASE ResultOfFunction(t)
      <3>1. Same
        BY <2>1, <2>9 DEF ResultOfFunction
      <3> QED
        BY <1>4, <3>1
    <2> QED
      BY <1>10, <2>3, <2>4, <2>5, <2>6, <2>7, <2>8, <2>9 DEF Engine
  <1>11. ASSUME Thunk(t) \/ ThunkReturns(t) PROVE CleanInv'
    <2>1. q # <<>> /\ ToPc
      BY <1>11 DEF Thunk, ThunkReturns, At, Pcs
    <2> QED
      BY <1>9, <2>1
  <1>12. ASSUME HandlerEnds(t) PROVE CleanInv'
    <2>1. q # <<>> /\ Call(t) \in CallType
      BY <1>12, CallTyped DEF HandlerEnds, HandlerReturns, HandlerFails, At
    <2>2. CASE HandlerFails(t)
      <3>1. ToPc
        BY <2>2 DEF HandlerFails, Pcs
      <3> QED
        BY <1>9, <2>1, <3>1
    <2>3. ASSUME NEW kind \in ResultKind, NEW n \in 0..MaxResults, HandlerReturns(t, kind, n)
          PROVE  CleanInv'
      <3> DEFINE v == <<kind, Call(t).event>>
                 answer == [i \in 1 .. n |-> v]
                 c == [Call(t) EXCEPT !.pc = "result", !.answer = answer]
      <3>1. calls' = Become(t, c)
        BY <2>3 DEF HandlerReturns
      <3>2. v \in Value /\ n \in Nat
        <4>1. Call(t).event \in Nat
          BY <2>1 DEF CallType
        <4>2. kind \in Kinds /\ n \in Nat
          BY BridgeAssumption DEF Kinds
        <4> QED
          BY <4>1, <4>2 DEF Value
      <3> HIDE DEF v
      <3>3. answer \in Seq(Value)
        BY <3>2
      <3> HIDE DEF answer
      <3>4. c \in CallType /\ c.base = Call(t).base
        BY <2>1, <3>3 DEF CallType, Pcs
      <3> QED
        BY <1>9, <2>1, <3>1, <3>4
    <2> QED
      BY <1>12, <2>2, <2>3 DEF HandlerEnds
  <1> QED
    BY <1>1, <1>5, <1>10, <1>11, <1>12

RestInv == AloneInv /\ CleanInv /\ ResultIsLastValue

LEMMA RestInvInit == Init => RestInv
  <1> SUFFICES ASSUME Init PROVE RestInv
    OBVIOUS
  <1>1. frames[1] = <<>> /\ \A t \in Thread : calls[t] = <<>>
    BY DEF Init
  <1>2. CleanInv
    BY <1>1 DEF CleanInv, Clean
  <1>3. ResultIsLastValue
    BY DEF Init, ResultIsLastValue
  <1> QED
    BY <1>2, <1>3, BridgeInvInit, StackInvInit DEF RestInv, AloneInv

LEMMA RestInvStep ==
  ASSUME OneThread, RestInv, [Next]_vars
  PROVE  RestInv'
  <1>1. AloneInv'
    BY BridgeInvStep, StackInvStep DEF RestInv, AloneInv
  <1>2. ResultIsLastValue'
    BY ResultStep DEF RestInv, AloneInv
  <1>3. CleanInv'
    <2>1. CASE Next
      BY <1>1, <2>1, CleanStep DEF RestInv, AloneInv
    <2>2. CASE UNCHANGED vars
      BY <2>2 DEF RestInv, CleanInv, Clean, vars
    <2> QED
      BY <2>1, <2>2
  <1> QED
    BY <1>1, <1>2, <1>3 DEF RestInv

\* A single thread that raises events: between events nothing lies on the stack
\* but results of Lua functions and the nil of names without a function.
THEOREM AloneOnlyResultsLeft == OneThread => (Spec => []OnlyResultsLeft)
  <1> SUFFICES ASSUME OneThread PROVE Spec => []OnlyResultsLeft
    OBVIOUS
  <1>1. Init => RestInv
    BY RestInvInit
  <1>2. RestInv /\ [Next]_vars => RestInv'
    BY RestInvStep
  <1>3. RestInv => OnlyResultsLeft
    <2> SUFFICES ASSUME RestInv, ~crashed, \A t \in Thread : calls[t] = <<>>, NEW i \in DOMAIN frames[1]
                 PROVE  frames[1][i][1] \in {"nil"} \cup ResultKind
      BY DEF OnlyResultsLeft
    <2>1. i \in 1 .. Len(frames[1])
      BY SomeFrame DEF RestInv, AloneInv, BridgeInv, TypeInv
    <2> QED
      BY <2>1 DEF RestInv, CleanInv, Clean
  <1> QED
    BY <1>1, <1>2, <1>3, PTL DEF Spec

\* A single thread that raises events: an event whose Lua function returned
\* values yields the last of them.
THEOREM AloneResultIsLastValue == OneThread => (Spec => []ResultIsLastValue)
  <1> SUFFICES ASSUME OneThread PROVE Spec => []ResultIsLastValue
    OBVIOUS
  <1>1. Init => RestInv
    BY RestInvInit
  <1>2. RestInv /\ [Next]_vars => RestInv'
    BY RestInvStep
  <1>3. RestInv => ResultIsLastValue
    BY DEF RestInv
  <1> QED
    BY <1>1, <1>2, <1>3, PTL DEF Spec

=============================================================================
