----------------------------- MODULE LuaGCProofs -----------------------------
(* What Lua's collector frees is out of reach, in every heap: the invariants   *)
(* of LuaGC, the inductive invariant behind them and its proof.                *)
EXTENDS LuaGC, SequenceTheorems, TLAPS

-----------------------------------------------------------------------------
(* The inductive invariant, of a state h of the heap and of the collector      *)

Colors == {"free", "w0", "w1", "gray", "black"}
Values == Objs \cup {None}

GCState ==
  [color: [Objs -> Colors], key: [Objs -> Values], val: [Objs -> Values],
   at: [Objs -> (Threads \cup {None}) \X Nat], fin: [Objs -> BOOLEAN], calls: [Objs -> Nat],
   stack: [Threads -> Seq(Values)], phase: {"pause", "propagate", "sweep", "finalize"},
   white: {"w0", "w1"}, gray: SUBSET Objs, grayagain: SUBSET Objs, weak: SUBSET Objs,
   tmudata: SUBSET Objs, unswept: SUBSET Objs]

\* The collector's types.
GCTypeOK == pool \in SUBSET Objs /\ g \in GCState

Kept(h) == {o \in Allocated(h) : ~isdead(h, o)}
Marked(h) == {o \in Objs : h.color[o] \in {"gray", "black"}}
\* Everything that can be had from an object, weakly held or not.
AllRefs(h, o) == IF Kind[o] = "table" THEN EntryRefs(h, o) ELSE Marks(h, o)

\* A free place holds nothing; what is open lies in a stack.
FreeIsClean(h) ==
  \A o \in Objs : h.color[o] = "free" =>
    /\ h.key[o] = None /\ h.val[o] = None /\ h.at[o] = <<None, 0>> /\ ~h.fin[o]
    /\ o \in Threads => h.stack[o] = <<>>
OpenIsInStack(h) ==
  \A o \in Objs : IsOpen(h, o) =>
    /\ Kind[o] = "upval" /\ o \in Allocated(h)
    /\ h.at[o][1] \in Allocated(h) /\ h.at[o][2] \in DOMAIN h.stack[h.at[o][1]]
FunctionsHaveUpvals(h) ==
  \A o \in Allocated(h) : Kind[o] = "function" => h.val[o] \in Objs /\ Kind[h.val[o]] = "upval"

\* What is not condemned refers to nothing that is.
KeptIsClosed(h) ==
  /\ \A o \in Kept(h) : AllRefs(h, o) \subseteq Kept(h)
  /\ Main \in Kept(h)
  /\ h.tmudata \subseteq Kept(h)

\* What a userdata went through: what waits was not called, what was is marked so.
Finalizers(h) ==
  /\ \A o \in h.tmudata : Kind[o] = "udata" /\ h.fin[o]
  /\ \A o \in Objs : Kind[o] = "udata" => h.calls[o] <= 1
  /\ \A o \in Allocated(h) : Kind[o] = "udata" =>
       (h.calls[o] = 1 <=> (h.fin[o] /\ o \notin h.tmudata))
  /\ \A o \in Allocated(h) : Kind[o] = "udata" /\ isdead(h, o) => h.fin[o]

Shades(h) ==
  /\ \A o \in Objs : h.color[o] = "black" => ~StaysGray(h, o)
  /\ \A o \in Objs : Kind[o] = "udata" => h.color[o] # "gray"

\* The lists of what is still to be traversed, each with what belongs there.
Listed(h) ==
  /\ h.gray \cup h.grayagain \cup h.weak \subseteq Marked(h)
  /\ \A o \in h.grayagain : Weak[o] = {}
  /\ \A o \in h.weak : Weak[o] # {}
  /\ \A o \in Objs : h.color[o] = "gray" =>
       \/ Kind[o] = "string" \/ IsOpen(h, o)
       \/ o \in h.gray \cup h.grayagain \cup h.weak

\* While marking, black objects refer to no white one.
Tricolor(h) == \A o \in Objs \ h.tmudata : h.color[o] = "black" => Marks(h, o) \cap Whites(h) = {}

NoneDead(h) == \A o \in Objs : ~isdead(h, o)
Marking(h) == NoneDead(h) /\ Listed(h) /\ Tricolor(h)
\* All but what waits for its finalizer is white.
Clean(h) == NoneDead(h) /\ \A o \in Allocated(h) \ h.tmudata : h.color[o] = h.white
\* So is what was swept, a thread with its open upvalues.
Sweeping(h) ==
  /\ h.unswept \subseteq Allocated(h)
  /\ \A o \in h.unswept : ~IsOpen(h, o)
  /\ \A o \in Allocated(h) \ (h.tmudata \cup h.unswept) :
       h.color[o] = h.white \/ (IsOpen(h, o) /\ h.at[o][1] \in h.unswept)

Phase(h) ==
  /\ h.phase = "pause" => Clean(h) /\ h.tmudata = {}
  /\ h.phase = "propagate" => Marking(h) /\ Main \in Marked(h)
  /\ h.phase = "sweep" => Sweeping(h)
  /\ h.phase = "finalize" => Clean(h)

Heap(h) == FreeIsClean(h) /\ OpenIsInStack(h) /\ FunctionsHaveUpvals(h)
Sound(h) == h \in GCState /\ Heap(h) /\ KeptIsClosed(h) /\ Finalizers(h) /\ Shades(h)
GCInv == /\ pool \in SUBSET Objs /\ Allocated(g) \subseteq pool
         /\ Sound(g) /\ Phase(g)

-----------------------------------------------------------------------------
(* What the operators of the collector give                                    *)

\* Everything but colours, lists and keys is the same.
SameHeap(h, m) ==
  /\ m \in GCState
  /\ m.val = h.val /\ m.at = h.at /\ m.fin = h.fin /\ m.calls = h.calls /\ m.stack = h.stack
  /\ m.phase = h.phase /\ m.white = h.white /\ m.tmudata = h.tmudata /\ m.unswept = h.unswept

Black(h, o) == IF StaysGray(h, o) THEN "gray" ELSE "black"
Shade(h, o) == IF o \in Waits THEN "gray" ELSE Black(h, o)

\* m is h with the white objects M marked, which are all that their userdata
\* and upvalues mark.
MarkedBy(h, m, M) ==
  /\ SameHeap(h, m) /\ m.key = h.key /\ m.grayagain = h.grayagain /\ m.weak = h.weak
  /\ M \subseteq Whites(h)
  /\ \A o \in Objs : m.color[o] = IF o \in M THEN Shade(h, o) ELSE h.color[o]
  /\ m.gray = h.gray \cup (M \cap Waits)
  /\ \A o \in M : Kind[o] \in {"udata", "upval"} => Marks(h, o) \cap Whites(h) \subseteq M

\* m is h with the objects S traversed.
TraversedBy(h, m, S) ==
  /\ SameHeap(h, m)
  /\ S \subseteq Objs
  /\ \A o \in Objs : m.color[o] = IF o \in S THEN Black(h, o) ELSE h.color[o]
  /\ \A o \in Objs : m.key[o] = h.key[o] \/ (o \in Tables /\ h.val[o] = None /\ m.key[o] = None)
  /\ m.gray = h.gray \ S
  /\ m.grayagain = h.grayagain \cup (S \cap Threads)
  /\ m.weak = h.weak \cup {o \in S : Weak[o] # {}}

LEMMA ClosureGives ==
  ASSUME NEW h \in GCState, NEW os \in SUBSET Objs, NEW ks
  PROVE  /\ os \subseteq Closure(h, os, ks)
         /\ Closure(h, os, ks) \subseteq os \cup Whites(h)
         /\ \A o \in Closure(h, os, ks) : Kind[o] \in ks => Marks(h, o) \cap Whites(h) \subseteq Closure(h, os, ks)
         /\ (\A o \in os : Kind[o] \notin ks) => Closure(h, os, ks) = os
  <1> DEFINE white == Whites(h)
             next == [o \in os \cup white |-> IF Kind[o] \in ks THEN Marks(h, o) \cap white ELSE {}]
             closed == {S \in {os \cup W : W \in SUBSET (white \ os)} : \A o \in S : next[o] \subseteq S}
             C == {o \in os \cup white : \A S \in closed : o \in S}
  <1>1. Closure(h, os, ks) = C
    BY DEF Closure
  <1>2. \A S \in closed : os \subseteq S
    OBVIOUS
  <1>3. os \subseteq C /\ C \subseteq os \cup white
    BY <1>2
  <1>4. ASSUME NEW o \in C, Kind[o] \in ks, NEW v \in Marks(h, o) \cap white PROVE v \in C
    <2>1. SUFFICES ASSUME NEW S \in closed PROVE v \in S
      BY <1>4
    <2>2. o \in S /\ next[o] = Marks(h, o) \cap white
      BY <1>4
    <2> QED
      BY <1>4, <2>1, <2>2
  <1>5. ASSUME \A o \in os : Kind[o] \notin ks PROVE C = os
    <2>1. os = os \cup {} /\ {} \in SUBSET (white \ os)
      OBVIOUS
    <2>2. os \in closed
      BY <1>5, <2>1
    <2> QED
      BY <2>2, <1>3
  <1> QED
    BY <1>1, <1>3, <1>4, <1>5

LEMMA Fields ==
  ASSUME NEW h \in GCState
  PROVE  /\ h.color \in [Objs -> Colors] /\ h.key \in [Objs -> Values] /\ h.val \in [Objs -> Values]
         /\ h.at \in [Objs -> (Threads \cup {None}) \X Nat] /\ h.fin \in [Objs -> BOOLEAN]
         /\ h.calls \in [Objs -> Nat] /\ h.stack \in [Threads -> Seq(Values)]
         /\ h.phase \in {"pause", "propagate", "sweep", "finalize"} /\ h.white \in {"w0", "w1"}
         /\ h.gray \in SUBSET Objs /\ h.grayagain \in SUBSET Objs /\ h.weak \in SUBSET Objs
         /\ h.tmudata \in SUBSET Objs /\ h.unswept \in SUBSET Objs
  BY DEF GCState

LEMMA MarkobjectsGives ==
  ASSUME NEW h \in GCState, NEW os
  PROVE  \E M : /\ MarkedBy(h, markobjects(h, os), M)
                /\ os \cap Whites(h) \subseteq M
                /\ (\A o \in os : Kind[o] = "string") => M = os \cap Whites(h)
  <1> DEFINE M == Closure(h, os \cap Whites(h), {"udata", "upval"})
             m == markobjects(h, os)
  <1>1. /\ os \cap Whites(h) \subseteq M /\ M \subseteq Whites(h)
        /\ \A o \in M : Kind[o] \in {"udata", "upval"} => Marks(h, o) \cap Whites(h) \subseteq M
        /\ (\A o \in os : Kind[o] = "string") => M = os \cap Whites(h)
    <2>1. os \cap Whites(h) \in SUBSET Objs
      BY DEF Whites
    <2>2. (\A o \in os : Kind[o] = "string") => \A o \in os \cap Whites(h) : Kind[o] \notin {"udata", "upval"}
      OBVIOUS
    <2> HIDE DEF M
    <2> QED
      BY <2>1, <2>2, ClosureGives DEF M
  <1>2. m = [h EXCEPT !.color = [o \in Objs |-> IF o \notin M THEN h.color[o]
                                          ELSE IF o \in Waits \/ StaysGray(h, o) THEN "gray" ELSE "black"],
                      !.gray = h.gray \cup (M \cap Waits)]
    BY DEF markobjects, GCState
  <1> HIDE DEF m, M
  <1>3. \A o \in Objs : m.color[o] = IF o \in M THEN Shade(h, o) ELSE h.color[o]
    BY <1>2 DEF Shade, Black, GCState
  <1>4. SameHeap(h, m) /\ m.key = h.key /\ m.grayagain = h.grayagain /\ m.weak = h.weak
        /\ m.gray = h.gray \cup (M \cap Waits)
    <2>1. [o \in Objs |-> IF o \notin M THEN h.color[o]
                         ELSE IF o \in Waits \/ StaysGray(h, o) THEN "gray" ELSE "black"] \in [Objs -> Colors]
      BY Fields DEF Colors
    <2>2. m \in GCState
      BY <1>2, <2>1 DEF GCState, Waits
    <2> QED
      BY <1>2, <2>2, ZenonT(60) DEF SameHeap, GCState
  <1> QED
    BY <1>1, <1>3, <1>4 DEF MarkedBy, m

LEMMA TraverseGives ==
  ASSUME NEW h \in GCState, NEW S \in SUBSET Objs
  PROVE  TraversedBy(h, traverse(h, S), S)
  <1> DEFINE empty == {o \in S \cap Tables : h.val[o] = None /\ Weak[o] # {"k", "v"}}
             color == [o \in Objs |-> IF o \notin S THEN h.color[o]
                                     ELSE IF StaysGray(h, o) THEN "gray" ELSE "black"]
             key == [o \in Objs |-> IF o \in empty THEN None ELSE h.key[o]]
             m == traverse(h, S)
  <1>1. m = [h EXCEPT !.color = color, !.key = key, !.gray = h.gray \ S,
                      !.grayagain = h.grayagain \cup (S \cap Threads),
                      !.weak = h.weak \cup {o \in S : Weak[o] # {}}]
    BY DEF traverse, GCState
  <1>2. color \in [Objs -> Colors] /\ key \in [Objs -> Values]
    BY Fields DEF Colors, Values
  <1>3. /\ \A o \in Objs : color[o] = IF o \in S THEN Black(h, o) ELSE h.color[o]
        /\ \A o \in Objs : key[o] = h.key[o] \/ (o \in Tables /\ h.val[o] = None /\ key[o] = None)
    BY DEF Black
  <1> HIDE DEF m, color, key
  <1>4. m \in GCState
    BY <1>1, <1>2 DEF GCState, Threads
  <1>5. /\ m.color = color /\ m.key = key /\ m.gray = h.gray \ S
        /\ m.grayagain = h.grayagain \cup (S \cap Threads)
        /\ m.weak = h.weak \cup {o \in S : Weak[o] # {}}
    BY <1>1 DEF GCState
  <1>6. SameHeap(h, m)
    BY <1>1, <1>4, ZenonT(60) DEF GCState, SameHeap
  <1> QED
    BY <1>3, <1>5, <1>6 DEF TraversedBy, m

\* All that can be reached is traversed, and nothing is left.
LEMMA PropagateallGives ==
  ASSUME NEW h \in GCState
  PROVE  \E S : /\ TraversedBy(h, propagateall(h), S)
                /\ h.gray \subseteq S /\ S \subseteq h.gray \cup Whites(h)
                /\ \A o \in S : Marks(h, o) \cap Whites(h) \subseteq S
  <1> DEFINE ks == {"table", "function", "thread", "udata", "upval"}
             S == Closure(h, h.gray, ks)
  <1>0. h.gray \in SUBSET Objs /\ Whites(h) \subseteq Objs
    BY Fields DEF Whites
  <1>1. /\ h.gray \subseteq S /\ S \subseteq h.gray \cup Whites(h)
        /\ \A o \in S : Kind[o] \in ks => Marks(h, o) \cap Whites(h) \subseteq S
    <2> HIDE DEF ks
    <2> QED BY <1>0, ClosureGives
  <1>2. S \in SUBSET Objs
    BY <1>0, <1>1
  <1>3. TraversedBy(h, propagateall(h), S)
    BY <1>2, TraverseGives DEF propagateall
  <1>4. \A o \in S : Kind[o] \notin ks => Marks(h, o) = {}
    BY <1>2, GCAssumption DEF Marks
  <1> HIDE DEF S
  <1> QED
    BY <1>1, <1>3, <1>4

-----------------------------------------------------------------------------
(* Marking keeps the heap and the invariant of its colours                     *)

\* m is h with other colours and lists, and with the keys of some empty entries gone.
SameRefs(h, m) ==
  /\ m.val = h.val /\ m.at = h.at /\ m.stack = h.stack
  /\ \A o \in Objs : m.key[o] = h.key[o] \/ (o \in Tables /\ h.val[o] = None /\ m.key[o] = None)

LEMMA RefsAreSame ==
  ASSUME NEW h, NEW m, SameRefs(h, m), NEW o \in Objs
  PROVE  /\ Marks(m, o) = Marks(h, o) /\ EntryRefs(m, o) = EntryRefs(h, o) /\ AllRefs(m, o) = AllRefs(h, o)
         /\ IsOpen(m, o) <=> IsOpen(h, o)
         /\ StaysGray(m, o) <=> StaysGray(h, o)
         /\ UpvalValue(m, o) = UpvalValue(h, o)
  <1>1. (IsOpen(m, o) <=> IsOpen(h, o)) /\ UpvalValue(m, o) = UpvalValue(h, o)
    BY DEF SameRefs, IsOpen, UpvalValue
  <1>2. StaysGray(m, o) <=> StaysGray(h, o)
    BY <1>1 DEF StaysGray
  <1>3. EntryRefs(m, o) = EntryRefs(h, o) /\ StrongRefs(m, o) = StrongRefs(h, o)
    <2>1. CASE m.key[o] = h.key[o]
      BY <2>1 DEF SameRefs, EntryRefs, StrongRefs
    <2>2. CASE h.val[o] = None
      BY <2>2 DEF SameRefs, EntryRefs, StrongRefs
    <2> QED
      BY <2>1, <2>2 DEF SameRefs
  <1>4. Marks(m, o) = Marks(h, o)
    BY <1>1, <1>3 DEF Marks, SameRefs
  <1> QED
    BY <1>1, <1>2, <1>3, <1>4 DEF AllRefs

\* m is h with more objects marked, each in a shade it may have.
Recolored(h, m) ==
  /\ SameHeap(h, m) /\ SameRefs(h, m)
  /\ \A o \in Objs : \/ m.color[o] = h.color[o]
                     \/ /\ o \in Allocated(h)
                        /\ m.color[o] \in {"gray", "black"}
                        /\ m.color[o] = "black" => ~StaysGray(h, o)
                        /\ m.color[o] = "gray" => Kind[o] # "udata"

LEMMA RecoloredGrows ==
  ASSUME NEW h \in GCState, NEW m, Recolored(h, m)
  PROVE  /\ Marked(h) \subseteq Marked(m) /\ Whites(m) \subseteq Whites(h) /\ Allocated(m) = Allocated(h)
         /\ Whites(h) \ Marked(m) \subseteq Whites(m)
  BY DEF Recolored, SameHeap, Marked, Whites, IsWhite, Allocated

LEMMA RecoloredKeepsSound ==
  ASSUME NEW h, Sound(h), NoneDead(h), NEW m, Recolored(h, m)
  PROVE  Sound(m) /\ NoneDead(m)
  <1>1. h \in GCState /\ m \in GCState /\ SameHeap(h, m) /\ SameRefs(h, m)
    BY DEF Sound, Recolored, SameHeap
  <1>2. Allocated(m) = Allocated(h)
    BY <1>1, RecoloredGrows
  <1>3. NoneDead(m)
    <2>1. otherwhite(m) = otherwhite(h) /\ otherwhite(m) \in {"w0", "w1"}
      BY <1>1 DEF otherwhite, SameHeap
    <2> QED
      BY <2>1 DEF NoneDead, isdead, Recolored
  <1>4. Kept(m) = Allocated(m) /\ Kept(h) = Allocated(h)
    BY <1>3 DEF NoneDead, Kept, Allocated
  <1>5. Heap(m)
    <2>1. FreeIsClean(m)
      <3>1. \A o \in Objs : m.color[o] = "free" => h.color[o] = "free"
        BY DEF Recolored
      <3>2. FreeIsClean(h)
        BY DEF Sound, Heap
      <3> QED
        BY <3>1, <3>2, <1>1 DEF FreeIsClean, SameRefs, SameHeap
    <2>2. OpenIsInStack(m)
      BY <1>1, <1>2, RefsAreSame DEF Sound, Heap, OpenIsInStack, SameRefs
    <2>3. FunctionsHaveUpvals(m)
      BY <1>1, <1>2 DEF Sound, Heap, FunctionsHaveUpvals, SameRefs
    <2> QED
      BY <2>1, <2>2, <2>3 DEF Heap
  <1>6. KeptIsClosed(m)
    <2>1. \A o \in Objs : AllRefs(m, o) = AllRefs(h, o)
      BY <1>1, RefsAreSame
    <2>2. Kept(h) \subseteq Objs
      BY DEF Kept, Allocated
    <2> QED
      BY <1>1, <1>2, <1>4, <2>1, <2>2 DEF Sound, KeptIsClosed, SameHeap
  <1>7. Finalizers(m)
    BY <1>1, <1>2, <1>3 DEF Sound, Finalizers, SameHeap, NoneDead, Allocated
  <1>8. Shades(m)
    <2>1. \A o \in Objs : StaysGray(m, o) <=> StaysGray(h, o)
      BY <1>1, RefsAreSame
    <2> QED
      BY <2>1 DEF Sound, Shades, Recolored
  <1> QED
    BY <1>1, <1>3, <1>5, <1>6, <1>7, <1>8 DEF Sound

LEMMA MarkedIsRecolored ==
  ASSUME NEW h \in GCState, NEW m, NEW M, MarkedBy(h, m, M)
  PROVE  Recolored(h, m) /\ Whites(m) = Whites(h) \ M /\ M \subseteq Marked(m)
  <1>1. SameHeap(h, m) /\ SameRefs(h, m)
    BY DEF MarkedBy, SameHeap, SameRefs
  <1>2. ASSUME NEW o \in Objs, o \in M
        PROVE  /\ m.color[o] \in {"gray", "black"}
               /\ m.color[o] = "black" => ~StaysGray(h, o)
               /\ m.color[o] = "gray" => Kind[o] # "udata"
    <2>1. m.color[o] = Shade(h, o)
      BY <1>2 DEF MarkedBy
    <2>2. Kind[o] = "udata" => o \notin Waits /\ ~StaysGray(h, o)
      BY GCAssumption DEF Waits, StaysGray, Tables
    <2>3. StaysGray(h, o) => Shade(h, o) = "gray"
      BY DEF Shade, Black
    <2> QED
      BY <2>1, <2>2, <2>3 DEF Shade, Black
  <1>3. \A o \in M : o \in Allocated(h) /\ o \in Objs
    BY DEF MarkedBy, Whites, IsWhite, Allocated
  <1>4. \A o \in Objs : o \notin M => m.color[o] = h.color[o]
    BY DEF MarkedBy
  <1>5. Recolored(h, m)
    BY <1>1, <1>2, <1>3, <1>4 DEF Recolored
  <1>6. Whites(m) = Whites(h) \ M /\ M \subseteq Marked(m)
    BY <1>2, <1>3, <1>4 DEF Whites, IsWhite, Marked
  <1> QED
    BY <1>5, <1>6

LEMMA TraversedIsRecolored ==
  ASSUME NEW h \in GCState, NEW m, NEW S, TraversedBy(h, m, S), S \subseteq Allocated(h)
  PROVE  Recolored(h, m) /\ Whites(m) = Whites(h) \ S /\ S \subseteq Marked(m)
  <1>1. SameHeap(h, m) /\ SameRefs(h, m)
    BY DEF TraversedBy, SameHeap, SameRefs
  <1>2. ASSUME NEW o \in Objs, o \in S
        PROVE  /\ m.color[o] \in {"gray", "black"}
               /\ m.color[o] = "black" => ~StaysGray(h, o)
               /\ m.color[o] = "gray" => Kind[o] # "udata"
    <2>1. m.color[o] = Black(h, o)
      BY <1>2 DEF TraversedBy
    <2>2. Kind[o] = "udata" => ~StaysGray(h, o)
      BY GCAssumption DEF StaysGray, Tables
    <2> QED
      BY <2>1, <2>2 DEF Black
  <1>4. S \subseteq Objs /\ \A o \in Objs : o \notin S => m.color[o] = h.color[o]
    BY DEF TraversedBy
  <1>5. Recolored(h, m)
    BY <1>1, <1>2, <1>4 DEF Recolored
  <1>6. Whites(m) = Whites(h) \ S /\ S \subseteq Marked(m)
    BY <1>2, <1>4 DEF Whites, IsWhite, Marked
  <1> QED
    BY <1>5, <1>6

\* What black objects mark is among what is marked now.
LEMMA MarkKeepsMarking ==
  ASSUME NEW h, Sound(h), NoneDead(h), Listed(h), NEW m, NEW M, MarkedBy(h, m, M),
         \A o \in Objs \ h.tmudata : h.color[o] = "black" => Marks(h, o) \cap Whites(h) \subseteq M
  PROVE  Sound(m) /\ Marking(m)
  <1>0. h \in GCState /\ SameHeap(h, m)
    BY DEF Sound, MarkedBy
  <1>1. Recolored(h, m) /\ Whites(m) = Whites(h) \ M /\ M \subseteq Marked(m)
    BY <1>0, MarkedIsRecolored
  <1>2. Sound(m) /\ NoneDead(m)
    BY <1>0, <1>1, RecoloredKeepsSound
  <1>3. Marked(h) \subseteq Marked(m)
    BY <1>0, <1>1, RecoloredGrows
  <1>4. \A o \in Objs : Marks(m, o) = Marks(h, o) /\ (IsOpen(m, o) <=> IsOpen(h, o))
    BY <1>1, RefsAreSame DEF Recolored
  <1>5. Listed(m)
    <2>1. m.gray \cup m.grayagain \cup m.weak \subseteq Marked(m)
      BY <1>0, <1>1, <1>3 DEF Listed, MarkedBy
    <2>2. m.grayagain = h.grayagain /\ m.weak = h.weak /\ h.gray \subseteq m.gray
      BY DEF MarkedBy
    <2>3. ASSUME NEW o \in Objs, m.color[o] = "gray"
          PROVE  Kind[o] = "string" \/ IsOpen(m, o) \/ o \in m.gray \cup m.grayagain \cup m.weak
      <3>1. CASE o \notin M
        <4>1. h.color[o] = "gray"
          BY <2>3, <3>1 DEF MarkedBy
        <4> QED
          BY <4>1, <1>0, <1>4, <2>2 DEF Listed
      <3>2. CASE o \in M /\ o \in Waits
        BY <3>2 DEF MarkedBy
      <3>3. CASE o \in M /\ o \notin Waits
        <4>1. StaysGray(h, o)
          BY <2>3, <3>3 DEF MarkedBy, Shade, Black
        <4> QED
          BY <3>3, <4>1, <1>4, GCAssumption DEF StaysGray, Waits, Tables
      <3> QED
        BY <3>1, <3>2, <3>3
    <2> QED
      BY <1>0, <2>1, <2>2, <2>3 DEF Listed
  <1>6. Tricolor(m)
    <2>1. ASSUME NEW o \in Objs \ m.tmudata, m.color[o] = "black" PROVE Marks(m, o) \cap Whites(m) = {}
      <3>1. CASE o \in M
        <4>1. o \notin Waits /\ ~StaysGray(h, o)
          BY <3>1, <2>1 DEF MarkedBy, Shade, Black
        <4>2. Kind[o] \in {"udata", "upval"}
          BY <4>1, GCAssumption DEF Waits, StaysGray
        <4>3. Marks(h, o) \cap Whites(h) \subseteq M
          BY <3>1, <4>2 DEF MarkedBy
        <4> QED
          BY <4>3, <1>1, <1>4
      <3>2. CASE o \notin M
        <4>1. h.color[o] = "black" /\ o \notin h.tmudata
          BY <2>1, <3>2, <1>0 DEF MarkedBy, SameHeap
        <4> QED
          BY <4>1, <1>1, <1>4
      <3> QED
        BY <3>1, <3>2
    <2> QED
      BY <1>0, <1>3, <2>1 DEF Tricolor
  <1> QED
    BY <1>2, <1>5, <1>6 DEF Marking

LEMMA TraverseKeepsMarking ==
  ASSUME NEW h, Sound(h), Marking(h), NEW m, NEW S, TraversedBy(h, m, S), S \subseteq Allocated(h),
         \A o \in S : Marks(h, o) \cap Whites(h) \subseteq S
  PROVE  Sound(m) /\ Marking(m)
  <1>0. h \in GCState /\ NoneDead(h) /\ Listed(h) /\ Tricolor(h) /\ SameHeap(h, m) /\ S \subseteq Objs
    BY DEF Sound, Marking, TraversedBy
  <1>1. Recolored(h, m) /\ Whites(m) = Whites(h) \ S /\ S \subseteq Marked(m)
    BY <1>0, TraversedIsRecolored
  <1>2. Sound(m) /\ NoneDead(m)
    BY <1>0, <1>1, RecoloredKeepsSound
  <1>3. Marked(h) \subseteq Marked(m)
    BY <1>0, <1>1, RecoloredGrows
  <1>4. \A o \in Objs : Marks(m, o) = Marks(h, o) /\ (IsOpen(m, o) <=> IsOpen(h, o))
    BY <1>1, RefsAreSame DEF Recolored
  <1>5. Listed(m)
    <2>1. m.gray \cup m.grayagain \cup m.weak \subseteq Marked(m)
      BY <1>0, <1>1, <1>3 DEF Listed, TraversedBy
    <2>2. \A o \in m.grayagain : Weak[o] = {}
      BY <1>0, GCAssumption DEF Listed, TraversedBy, Threads, Tables
    <2>3. \A o \in m.weak : Weak[o] # {}
      BY <1>0 DEF Listed, TraversedBy
    <2>4. ASSUME NEW o \in Objs, m.color[o] = "gray"
          PROVE  Kind[o] = "string" \/ IsOpen(m, o) \/ o \in m.gray \cup m.grayagain \cup m.weak
      <3>1. CASE o \notin S
        <4>1. h.color[o] = "gray"
          BY <2>4, <3>1 DEF TraversedBy
        <4> QED
          BY <4>1, <3>1, <1>0, <1>4 DEF Listed, TraversedBy
      <3>2. CASE o \in S
        <4>1. StaysGray(h, o)
          BY <2>4, <3>2 DEF TraversedBy, Black
        <4> QED
          BY <3>2, <4>1, <1>4 DEF StaysGray, TraversedBy, Threads
      <3> QED
        BY <3>1, <3>2
    <2> QED
      BY <2>1, <2>2, <2>3, <2>4 DEF Listed
  <1>6. Tricolor(m)
    <2>1. ASSUME NEW o \in Objs \ m.tmudata, m.color[o] = "black" PROVE Marks(m, o) \cap Whites(m) = {}
      <3>1. CASE o \in S
        BY <3>1, <1>1, <1>4
      <3>2. CASE o \notin S
        <4>1. h.color[o] = "black" /\ o \notin h.tmudata
          BY <2>1, <3>2, <1>0 DEF TraversedBy, SameHeap
        <4> QED
          BY <4>1, <1>0, <1>1, <1>4 DEF Tricolor
      <3> QED
        BY <3>1, <3>2
    <2> QED
      BY <1>0, <1>3, <2>1 DEF Tricolor
  <1> QED
    BY <1>2, <1>5, <1>6 DEF Marking

-----------------------------------------------------------------------------
(* The end of marking                                                          *)

\* What o marks is marked.
Through(h, o) == Marks(h, o) \cap Whites(h) = {}
UpvalsThrough(h) == \A o \in Objs : IsOpen(h, o) /\ h.color[o] = "gray" => Through(h, o)

LEMMA RecoloredKeepsThrough ==
  ASSUME NEW h \in GCState, NEW m, Recolored(h, m), NEW o \in Objs, Through(h, o)
  PROVE  Through(m, o)
  BY RecoloredGrows, RefsAreSame DEF Recolored, Through

LEMMA MarkingThrough ==
  ASSUME NEW h, Sound(h), Marking(h), NEW os
  PROVE  LET m == markobjects(h, os) IN
         /\ Sound(m) /\ Marking(m) /\ Recolored(h, m)
         /\ m.grayagain = h.grayagain /\ m.weak = h.weak
         /\ os \cap Whites(m) = {}
         /\ \A o \in Objs : IsOpen(m, o) /\ m.color[o] = "gray" => h.color[o] = "gray" \/ Through(m, o)
  <1> DEFINE m == markobjects(h, os)
  <1>0. h \in GCState
    BY DEF Sound
  <1>1. PICK M : MarkedBy(h, m, M) /\ os \cap Whites(h) \subseteq M
    BY <1>0, MarkobjectsGives
  <1> HIDE DEF m
  <1>2. Sound(m) /\ Marking(m)
    BY <1>1, MarkKeepsMarking DEF Marking, Tricolor
  <1>3. Recolored(h, m) /\ Whites(m) = Whites(h) \ M
    BY <1>0, <1>1, MarkedIsRecolored
  <1>4. m.grayagain = h.grayagain /\ m.weak = h.weak /\ os \cap Whites(m) = {}
    BY <1>1, <1>3 DEF MarkedBy
  <1>5. ASSUME NEW o \in Objs, IsOpen(m, o), m.color[o] = "gray", h.color[o] # "gray"
        PROVE  Through(m, o)
    <2>1. o \in M
      BY <1>1, <1>5 DEF MarkedBy
    <2>2. SameRefs(h, m)
      BY <1>3 DEF Recolored
    <2>3. IsOpen(h, o) /\ Marks(m, o) = Marks(h, o)
      BY <1>5, <2>2, RefsAreSame
    <2>4. Kind[o] = "upval"
      BY <2>3 DEF Sound, Heap, OpenIsInStack
    <2>5. Marks(h, o) \cap Whites(h) \subseteq M
      BY <1>1, <2>1, <2>4 DEF MarkedBy
    <2> QED
      BY <1>3, <2>3, <2>5 DEF Through
  <1> QED
    BY <1>2, <1>3, <1>4, <1>5 DEF m

\* A barrier marks what a black object was given.
LEMMA BarrierMarks ==
  ASSUME NEW h, Sound(h), NoneDead(h), Listed(h), NEW os,
         \A o \in Objs \ h.tmudata : h.color[o] = "black" => Marks(h, o) \cap Whites(h) \subseteq os
  PROVE  LET m == markobjects(h, os) IN
         Sound(m) /\ Marking(m) /\ Recolored(h, m)
  <1> DEFINE m == markobjects(h, os)
  <1>0. h \in GCState
    BY DEF Sound
  <1>1. PICK M : MarkedBy(h, m, M) /\ os \cap Whites(h) \subseteq M
    BY <1>0, MarkobjectsGives
  <1> HIDE DEF m
  <1>2. Sound(m) /\ Marking(m)
    BY <1>1, MarkKeepsMarking
  <1>3. Recolored(h, m)
    BY <1>0, <1>1, MarkedIsRecolored
  <1> QED
    BY <1>2, <1>3 DEF m

LEMMA PropagatingThrough ==
  ASSUME NEW h, Sound(h), Marking(h)
  PROVE  LET m == propagateall(h) IN
         /\ Sound(m) /\ Marking(m) /\ Recolored(h, m)
         /\ m.gray = {}
         /\ \A o \in m.weak : o \in h.weak \/ Through(m, o)
         /\ \A o \in m.grayagain : o \in h.grayagain \/ Through(m, o)
         /\ \A o \in h.gray : Through(m, o)
         /\ UpvalsThrough(h) => UpvalsThrough(m)
  <1> DEFINE m == propagateall(h)
  <1>0. h \in GCState
    BY DEF Sound
  <1>1. PICK S : /\ TraversedBy(h, m, S) /\ h.gray \subseteq S /\ S \subseteq h.gray \cup Whites(h)
                 /\ \A o \in S : Marks(h, o) \cap Whites(h) \subseteq S
    BY <1>0, PropagateallGives
  <1> HIDE DEF m
  <1>2. S \subseteq Allocated(h)
    <2>1. h.gray \subseteq Marked(h)
      BY DEF Marking, Listed
    <2> QED
      BY <1>1, <2>1 DEF Marked, Whites, IsWhite, Allocated
  <1>3. Sound(m) /\ Marking(m)
    BY <1>1, <1>2, TraverseKeepsMarking
  <1>4. Recolored(h, m) /\ Whites(m) = Whites(h) \ S
    BY <1>0, <1>1, <1>2, TraversedIsRecolored
  <1>5. \A o \in S : o \in Objs /\ Through(m, o)
    <2>1. \A o \in Objs : Marks(m, o) = Marks(h, o)
      BY <1>4, RefsAreSame DEF Recolored
    <2> QED
      BY <1>1, <1>4, <2>1 DEF Through, TraversedBy
  <1>6. m.gray = {} /\ (\A o \in m.weak : o \in h.weak \/ Through(m, o))
        /\ (\A o \in m.grayagain : o \in h.grayagain \/ Through(m, o))
    BY <1>1, <1>5 DEF TraversedBy
  <1>7. ASSUME UpvalsThrough(h), NEW o \in Objs, IsOpen(m, o), m.color[o] = "gray" PROVE Through(m, o)
    <2>1. CASE o \in S
      BY <2>1, <1>5
    <2>2. CASE o \notin S
      <3>1. h.color[o] = "gray"
        BY <1>1, <1>7, <2>2 DEF TraversedBy
      <3>2. IsOpen(h, o)
        BY <1>4, <1>7, RefsAreSame DEF Recolored
      <3>3. Through(h, o)
        BY <1>7, <3>1, <3>2 DEF UpvalsThrough
      <3> QED
        BY <1>0, <1>4, <3>3, RecoloredKeepsThrough
    <2> QED
      BY <2>1, <2>2
  <1> QED
    BY <1>1, <1>3, <1>4, <1>5, <1>6, <1>7 DEF UpvalsThrough, m

LEMMA RemarkupvalsThrough ==
  ASSUME NEW h, Sound(h), Marking(h)
  PROVE  LET m == remarkupvals(h) IN
         Sound(m) /\ Marking(m) /\ Recolored(h, m) /\ UpvalsThrough(m)
  <1> DEFINE us == {u \in Objs : Kind[u] = "upval" /\ IsOpen(h, u) /\ h.color[u] = "gray"}
             os == {UpvalValue(h, o) : o \in us}
             m == markobjects(h, os)
  <1>1. remarkupvals(h) = m
    BY DEF remarkupvals
  <1>2. \A u \in us : UpvalValue(h, u) \in os
    OBVIOUS
  <1> HIDE DEF os, us
  <1>3. /\ Sound(m) /\ Marking(m) /\ Recolored(h, m) /\ os \cap Whites(m) = {}
        /\ \A o \in Objs : IsOpen(m, o) /\ m.color[o] = "gray" => h.color[o] = "gray" \/ Through(m, o)
    BY MarkingThrough
  <1> HIDE DEF m
  <1>4. ASSUME NEW o \in Objs, IsOpen(m, o), m.color[o] = "gray" PROVE Through(m, o)
    <2>1. CASE h.color[o] = "gray"
      <3>1. IsOpen(h, o) /\ Marks(m, o) = Marks(h, o)
        BY <1>3, <1>4, RefsAreSame DEF Recolored
      <3>2. Kind[o] = "upval"
        BY <3>1 DEF Sound, Heap, OpenIsInStack
      <3>3. o \in us
        BY <2>1, <3>1, <3>2 DEF us
      <3>4. Marks(h, o) \subseteq os
        BY <1>2, <3>2, <3>3 DEF Marks
      <3> QED
        BY <1>3, <3>1, <3>4 DEF Through
    <2> QED
      BY <1>3, <1>4, <2>1
  <1> QED
    BY <1>1, <1>3, <1>4 DEF UpvalsThrough

\* The lists may change places.
LEMMA ListsKeepMarking ==
  ASSUME NEW h, Sound(h), Marking(h), NEW m, SameHeap(h, m), m.color = h.color, m.key = h.key, Listed(m)
  PROVE  Sound(m) /\ Marking(m) /\ Recolored(h, m)
  <1>0. h \in GCState /\ NoneDead(h)
    BY DEF Sound, Marking
  <1>3. Recolored(h, m)
    BY DEF Recolored, SameRefs, SameHeap
  <1>4. Sound(m) /\ NoneDead(m)
    BY <1>0, <1>3, RecoloredKeepsSound
  <1>5. Tricolor(m)
    <2>1. Whites(m) = Whites(h) /\ Marked(m) = Marked(h)
      BY DEF Whites, IsWhite, Marked
    <2>2. \A o \in Objs : Marks(m, o) = Marks(h, o)
      BY <1>3, RefsAreSame DEF Recolored
    <2> QED
      BY <2>1, <2>2 DEF Marking, Tricolor, SameHeap
  <1> QED
    BY <1>3, <1>4, <1>5 DEF Marking

LEMMA RecoloredTwice ==
  ASSUME NEW h \in GCState, NEW m, NEW n, Recolored(h, m), Recolored(m, n)
  PROVE  Recolored(h, n)
  <1>1. SameHeap(h, n)
    BY DEF Recolored, SameHeap
  <1>2. SameRefs(h, n)
    BY DEF Recolored, SameRefs
  <1>3. m \in GCState /\ Allocated(m) = Allocated(h)
    BY RecoloredGrows DEF Recolored, SameHeap
  <1>4. \A o \in Objs : StaysGray(m, o) <=> StaysGray(h, o)
    BY RefsAreSame DEF Recolored
  <1> QED
    BY <1>1, <1>2, <1>3, <1>4 DEF Recolored

\* All that is marked is marked through, but for what waited for its finalizer.
LEMMA RemarkedThrough ==
  ASSUME NEW h, Sound(h), Marking(h), h.gray = {}
  PROVE  LET m == Remarked(h) IN
         /\ Sound(m) /\ Marking(m) /\ Recolored(h, m)
         /\ m.gray = {}
         /\ \A o \in Marked(m) \ m.tmudata : Through(m, o)
  <1> DEFINE a1 == remarkupvals(h)
             a2 == propagateall(a1)
             a3 == FromWeak(a2)
             a4 == markobjects(a3, {Main})
             a5 == propagateall(a4)
             a6 == FromGrayAgain(a5)
             a7 == propagateall(a6)
  <1>0. h \in GCState
    BY DEF Sound
  <1>1. Sound(a1) /\ Marking(a1) /\ Recolored(h, a1) /\ UpvalsThrough(a1)
    BY RemarkupvalsThrough
  <1> HIDE DEF a1
  <1>2. Sound(a2) /\ Marking(a2) /\ Recolored(h, a2) /\ UpvalsThrough(a2) /\ a2.gray = {}
    BY <1>0, <1>1, PropagatingThrough, RecoloredTwice DEF Sound
  <1> HIDE DEF a2
  <1>3. Sound(a3) /\ Marking(a3) /\ Recolored(h, a3) /\ UpvalsThrough(a3) /\ a3.weak = {}
    <2>0. a2 \in GCState
      BY <1>2 DEF Sound
    <2>1. a3 = [a2 EXCEPT !.gray = a2.weak, !.weak = {}]
      BY DEF FromWeak
    <2>2. a2.weak \in SUBSET Objs /\ a2.grayagain \in SUBSET Objs
      BY <2>0, Fields
    <2>3. Listed(a3)
      BY <1>2, <2>0, <2>1 DEF Marking, Listed, GCState, Marked, IsOpen
    <2>7. /\ SameHeap(a2, a3) /\ a3.color = a2.color /\ a3.key = a2.key /\ a3.weak = {}
      BY <2>0, <2>1, <2>2 DEF GCState, SameHeap
    <2> HIDE DEF a3
    <2>4. Sound(a3) /\ Marking(a3) /\ Recolored(a2, a3) /\ a3.weak = {} /\ \A o \in Objs : a3.color[o] = a2.color[o]
      BY <1>2, <2>3, <2>7, ListsKeepMarking
    <2>5. UpvalsThrough(a3)
      BY <1>2, <2>0, <2>4, RecoloredKeepsThrough, RefsAreSame DEF UpvalsThrough, Recolored
    <2> QED
      BY <1>0, <1>2, <2>4, <2>5, RecoloredTwice
  <1> HIDE DEF a3
  <1>4. Sound(a4) /\ Marking(a4) /\ Recolored(h, a4) /\ UpvalsThrough(a4) /\ a4.weak = {}
    <2>1. /\ Sound(a4) /\ Marking(a4) /\ Recolored(a3, a4) /\ a4.weak = {}
          /\ \A o \in Objs : IsOpen(a4, o) /\ a4.color[o] = "gray" => a3.color[o] = "gray" \/ Through(a4, o)
      BY <1>3, MarkingThrough
    <2> HIDE DEF a4
    <2>2. UpvalsThrough(a4)
      BY <1>3, <2>1, RecoloredKeepsThrough, RefsAreSame DEF UpvalsThrough, Recolored, Sound
    <2> QED
      BY <1>0, <1>3, <2>1, <2>2, RecoloredTwice
  <1> HIDE DEF a4
  <1>5. /\ Sound(a5) /\ Marking(a5) /\ Recolored(h, a5) /\ UpvalsThrough(a5) /\ a5.gray = {}
        /\ \A o \in a5.weak : Through(a5, o)
    BY <1>0, <1>4, PropagatingThrough, RecoloredTwice
  <1> HIDE DEF a5
  <1>6. /\ Sound(a6) /\ Marking(a6) /\ Recolored(h, a6) /\ UpvalsThrough(a6) /\ a6.grayagain = {}
        /\ \A o \in a6.weak : Through(a6, o)
    <2>0. a5 \in GCState
      BY <1>5 DEF Sound
    <2>1. a6 = [a5 EXCEPT !.gray = a5.grayagain, !.grayagain = {}]
      BY DEF FromGrayAgain
    <2>2. a5.weak \in SUBSET Objs /\ a5.grayagain \in SUBSET Objs
      BY <2>0, Fields
    <2>3. Listed(a6)
      BY <1>5, <2>0, <2>1, ZenonT(60) DEF Marking, Listed, GCState, Marked, IsOpen
    <2>7. /\ SameHeap(a5, a6) /\ a6.color = a5.color /\ a6.key = a5.key /\ a6.grayagain = {} /\ a6.weak = a5.weak
      BY <2>0, <2>1, <2>2 DEF GCState, SameHeap
    <2> HIDE DEF a6
    <2>4. /\ Sound(a6) /\ Marking(a6) /\ Recolored(a5, a6) /\ a6.grayagain = {} /\ a6.weak = a5.weak
          /\ \A o \in Objs : a6.color[o] = a5.color[o]
      BY <1>5, <2>3, <2>7, ListsKeepMarking
    <2>5. UpvalsThrough(a6)
      BY <1>5, <2>0, <2>4, RecoloredKeepsThrough, RefsAreSame DEF UpvalsThrough, Recolored
    <2>6. \A o \in a6.weak : Through(a6, o)
      BY <1>5, <2>0, <2>2, <2>4, RecoloredKeepsThrough
    <2> QED
      BY <1>0, <1>5, <2>4, <2>5, <2>6, RecoloredTwice
  <1> HIDE DEF a6
  <1>7. /\ Sound(a7) /\ Marking(a7) /\ Recolored(h, a7) /\ UpvalsThrough(a7) /\ a7.gray = {}
        /\ \A o \in a7.weak \cup a7.grayagain : Through(a7, o)
    <2>1. /\ Sound(a7) /\ Marking(a7) /\ Recolored(a6, a7) /\ UpvalsThrough(a7) /\ a7.gray = {}
          /\ \A o \in a7.weak : o \in a6.weak \/ Through(a7, o)
          /\ \A o \in a7.grayagain : Through(a7, o)
      BY <1>6, PropagatingThrough
    <2> HIDE DEF a7
    <2>2. a6 \in GCState /\ a6.weak \in SUBSET Objs
      BY <1>6, Fields DEF Sound
    <2>3. \A o \in a7.weak : Through(a7, o)
      BY <1>6, <2>1, <2>2, RecoloredKeepsThrough
    <2> QED
      BY <1>0, <1>6, <2>1, <2>3, RecoloredTwice
  <1> HIDE DEF a7
  <1>8. ASSUME NEW o \in Marked(a7) \ a7.tmudata PROVE Through(a7, o)
    <2>1. CASE a7.color[o] = "black"
      BY <2>1, <1>7 DEF Marking, Tricolor, Marked, Through
    <2>2. CASE a7.color[o] = "gray" /\ Kind[o] = "string"
      BY <2>2 DEF Through, Marks
    <2>3. CASE a7.color[o] = "gray" /\ Kind[o] # "string"
      <3>1. o \in Objs /\ (IsOpen(a7, o) \/ o \in a7.weak \cup a7.grayagain)
        BY <2>3, <1>7 DEF Marking, Listed, Marked
      <3> QED
        BY <2>3, <3>1, <1>7 DEF UpvalsThrough
    <2> QED
      BY <2>1, <2>2, <2>3 DEF Marked
  <1>9. Remarked(h) = a7
    BY DEF Remarked, a1, a2, a3, a4, a5, a6, a7
  <1> QED
    BY <1>7, <1>8, <1>9

\* What is not condemned may be painted white again.
PaintedBy(h, m, os, c) ==
  /\ SameHeap(h, m) /\ m.key = h.key /\ m.gray = h.gray /\ m.grayagain = h.grayagain /\ m.weak = h.weak
  /\ \A o \in Objs : m.color[o] = IF o \in os THEN c ELSE h.color[o]

LEMMA PaintGives ==
  ASSUME NEW h \in GCState, NEW os, NEW c \in Colors
  PROVE  PaintedBy(h, Paint(h, os, c), os, c) /\ SameRefs(h, Paint(h, os, c))
  <1> DEFINE color == [o \in Objs |-> IF o \in os THEN c ELSE h.color[o]]
             m == Paint(h, os, c)
  <1>1. m = [h EXCEPT !.color = color]
    BY DEF Paint
  <1>2. color \in [Objs -> Colors] /\ \A o \in Objs : color[o] = IF o \in os THEN c ELSE h.color[o]
    BY Fields
  <1> HIDE DEF color, m
  <1>3. m \in GCState
    BY <1>1, <1>2 DEF GCState
  <1>4. SameHeap(h, m) /\ m.key = h.key /\ m.gray = h.gray /\ m.grayagain = h.grayagain /\ m.weak = h.weak /\ m.color = color
    BY <1>1, <1>3 DEF GCState, SameHeap
  <1> QED
    BY <1>2, <1>4 DEF PaintedBy, SameRefs, SameHeap, m

LEMMA PaintedKeepsSound ==
  ASSUME NEW h, Sound(h), NEW os \in SUBSET Kept(h), NEW c, c \in {h.white, "gray", "black"},
         c = "black" => \A o \in os : ~StaysGray(h, o),
         c = "gray" => \A o \in os : Kind[o] # "udata",
         NEW m, PaintedBy(h, m, os, c)
  PROVE  Sound(m) /\ Kept(m) = Kept(h) /\ Allocated(m) = Allocated(h) /\ (NoneDead(h) => NoneDead(m))
  <1>1. h \in GCState /\ m \in GCState /\ SameHeap(h, m) /\ SameRefs(h, m) /\ h.white \in {"w0", "w1"}
    BY Fields DEF Sound, PaintedBy, SameHeap, SameRefs
  <1>2. otherwhite(m) = otherwhite(h) /\ otherwhite(h) # c /\ c # "free"
    BY <1>1 DEF otherwhite, SameHeap
  <1>3. \A o \in os : o \in Objs /\ h.color[o] # "free" /\ ~isdead(h, o)
    BY DEF Kept, Allocated
  <1>4. Allocated(m) = Allocated(h)
    BY <1>2, <1>3 DEF PaintedBy, Allocated
  <1>5. \A o \in Objs : isdead(m, o) <=> isdead(h, o)
    BY <1>2, <1>3 DEF isdead, PaintedBy
  <1>6. Kept(m) = Kept(h)
    BY <1>4, <1>5 DEF Kept, Allocated
  <1>7. \A o \in Objs : AllRefs(m, o) = AllRefs(h, o) /\ (IsOpen(m, o) <=> IsOpen(h, o)) /\ (StaysGray(m, o) <=> StaysGray(h, o))
    BY <1>1, RefsAreSame
  <1>8. Heap(m)
    <2>1. \A o \in Objs : m.color[o] = "free" <=> h.color[o] = "free"
      BY <1>4 DEF Allocated
    <2>2. FreeIsClean(m)
      BY <1>1, <2>1 DEF Sound, Heap, FreeIsClean, SameHeap, PaintedBy
    <2>3. OpenIsInStack(m)
      BY <1>1, <1>4, <1>7 DEF Sound, Heap, OpenIsInStack, SameHeap
    <2>4. FunctionsHaveUpvals(m)
      BY <1>1, <1>4 DEF Sound, Heap, FunctionsHaveUpvals, SameHeap
    <2> QED
      BY <2>2, <2>3, <2>4 DEF Heap
  <1>9. KeptIsClosed(m)
    BY <1>1, <1>6, <1>7 DEF Sound, KeptIsClosed, SameHeap, Kept, Allocated
  <1>10. Finalizers(m)
    BY <1>1, <1>4, <1>5 DEF Sound, Finalizers, SameHeap, Allocated
  <1>11. Shades(m)
    BY <1>1, <1>7 DEF Sound, Shades, PaintedBy
  <1> QED
    BY <1>1, <1>4, <1>5, <1>6, <1>8, <1>9, <1>10, <1>11 DEF Sound, NoneDead

LEMMA WhitenedKeepsSound ==
  ASSUME NEW h, Sound(h), NEW os \in SUBSET Kept(h), NEW m, PaintedBy(h, m, os, h.white)
  PROVE  Sound(m) /\ Kept(m) = Kept(h) /\ Allocated(m) = Allocated(h) /\ (NoneDead(h) => NoneDead(m))
  <1>1. h.white \in {"w0", "w1"}
    BY Fields DEF Sound
  <1> QED
    BY <1>1, PaintedKeepsSound

\* Separating a userdata marks it as called before the call.
SeparatedBy(h, m, due) ==
  /\ m \in GCState
  /\ m.color = h.color /\ m.key = h.key /\ m.val = h.val /\ m.at = h.at /\ m.calls = h.calls
  /\ m.stack = h.stack /\ m.phase = h.phase /\ m.white = h.white /\ m.gray = h.gray
  /\ m.grayagain = h.grayagain /\ m.weak = h.weak /\ m.unswept = h.unswept
  /\ m.tmudata = h.tmudata \cup due
  /\ \A o \in Objs : m.fin[o] <=> h.fin[o] \/ o \in due

LEMMA SeparateGives ==
  ASSUME NEW h \in GCState, NEW due \in SUBSET Objs
  PROVE  SeparatedBy(h, Separate(h, due), due) /\ SameRefs(h, Separate(h, due))
  <1> DEFINE fin == [o \in Objs |-> h.fin[o] \/ o \in due]
             m == Separate(h, due)
  <1>1. m = [h EXCEPT !.fin = fin, !.tmudata = h.tmudata \cup due]
    BY DEF Separate, GCState
  <1>2. fin \in [Objs -> BOOLEAN] /\ \A o \in Objs : fin[o] <=> h.fin[o] \/ o \in due
    BY Fields
  <1>3. h.tmudata \cup due \in SUBSET Objs
    BY Fields
  <1> HIDE DEF fin, m
  <1>4. m \in GCState /\ m.fin = fin /\ m.tmudata = h.tmudata \cup due
    BY <1>1, <1>2, <1>3 DEF GCState
  <1>5. /\ m.color = h.color /\ m.key = h.key /\ m.val = h.val /\ m.at = h.at /\ m.calls = h.calls
        /\ m.stack = h.stack /\ m.phase = h.phase /\ m.white = h.white /\ m.gray = h.gray
        /\ m.grayagain = h.grayagain /\ m.weak = h.weak /\ m.unswept = h.unswept
    BY <1>1 DEF GCState
  <1> QED
    BY <1>2, <1>4, <1>5 DEF SeparatedBy, SameRefs, m

LEMMA SeparateKeepsSound ==
  ASSUME NEW h, Sound(h), NEW due \in SUBSET Objs,
         \A o \in due : Kind[o] = "udata" /\ o \in Kept(h) /\ ~h.fin[o],
         NEW m, SeparatedBy(h, m, due)
  PROVE  Sound(m) /\ Kept(m) = Kept(h) /\ Allocated(m) = Allocated(h)
  <1>1. h \in GCState /\ m \in GCState /\ SameRefs(h, m)
    BY DEF Sound, SeparatedBy, SameRefs
  <1>2. Allocated(m) = Allocated(h) /\ Kept(m) = Kept(h) /\ \A o \in Objs : isdead(m, o) <=> isdead(h, o)
    BY DEF SeparatedBy, Allocated, Kept, isdead, otherwhite
  <1>3. \A o \in Objs : AllRefs(m, o) = AllRefs(h, o) /\ (IsOpen(m, o) <=> IsOpen(h, o)) /\ (StaysGray(m, o) <=> StaysGray(h, o))
    BY <1>1, RefsAreSame
  <1>4. Heap(m)
    <2>1. \A o \in due : h.color[o] # "free"
      BY DEF Kept, Allocated
    <2>2. FreeIsClean(m)
      BY <2>1 DEF Sound, Heap, FreeIsClean, SeparatedBy
    <2>3. OpenIsInStack(m)
      BY <1>2, <1>3 DEF Sound, Heap, OpenIsInStack, SeparatedBy
    <2>4. FunctionsHaveUpvals(m)
      BY <1>2 DEF Sound, Heap, FunctionsHaveUpvals, SeparatedBy
    <2> QED
      BY <2>2, <2>3, <2>4 DEF Heap
  <1>5. KeptIsClosed(m)
    BY <1>2, <1>3 DEF Sound, KeptIsClosed, SeparatedBy, Kept, Allocated
  <1>6. Finalizers(m)
    <2>0. m.tmudata = h.tmudata \cup due /\ m.calls = h.calls /\ h.tmudata \subseteq Objs
          /\ \A o \in Objs : m.fin[o] <=> h.fin[o] \/ o \in due
      BY <1>1, Fields DEF SeparatedBy
    <2>1. \A o \in m.tmudata : Kind[o] = "udata" /\ m.fin[o]
      BY <2>0 DEF Sound, Finalizers
    <2>2. \A o \in Objs : Kind[o] = "udata" => m.calls[o] <= 1
      BY <2>0 DEF Sound, Finalizers
    <2>3. ASSUME NEW o \in Allocated(m), Kind[o] = "udata"
          PROVE  /\ m.calls[o] = 1 <=> (m.fin[o] /\ o \notin m.tmudata)
                 /\ isdead(m, o) => m.fin[o]
      <3>1. o \in Objs /\ o \in Allocated(h)
        BY <1>2, <2>3 DEF Allocated
      <3>2. (h.calls[o] = 1 <=> (h.fin[o] /\ o \notin h.tmudata)) /\ (isdead(h, o) => h.fin[o])
        BY <2>3, <3>1 DEF Sound, Finalizers
      <3>3. CASE o \in due
        BY <3>1, <3>2, <3>3, <2>0
      <3>4. CASE o \notin due
        BY <3>1, <3>2, <3>4, <2>0, <1>2
      <3> QED
        BY <3>3, <3>4
    <2> QED
      BY <2>1, <2>2, <2>3 DEF Finalizers
  <1>7. Shades(m)
    BY <1>3 DEF Sound, Shades, SeparatedBy
  <1> QED
    BY <1>1, <1>2, <1>4, <1>5, <1>6, <1>7 DEF Sound

\* When marking has ended, all that is marked is marked through, weak tables wait
\* to be cleared, and the userdata left has been finalized.
Ended(h) ==
  /\ Sound(h) /\ NoneDead(h)
  /\ \A o \in Marked(h) : Through(h, o)
  /\ \A o \in Marked(h) : Weak[o] # {} => o \in h.weak
  /\ \A o \in h.weak : Weak[o] # {}
  /\ Main \in Marked(h) /\ h.tmudata \subseteq Marked(h)
  /\ \A o \in Whites(h) : Kind[o] = "udata" => h.fin[o]

LEMMA SeparatedEnds ==
  ASSUME NEW h, Sound(h), Marking(h), Main \in Marked(h), h.gray = {},
         \A o \in Marked(h) \ h.tmudata : Through(h, o)
  PROVE  LET m == Separated(h) IN
         Ended(m) /\ Allocated(m) = Allocated(h) /\ m.phase = h.phase /\ m.calls = h.calls
  <1> DEFINE due == {o \in Allocated(h) : Kind[o] = "udata" /\ ~h.fin[o] /\ (FALSE \/ IsWhite(h, o))}
             s1 == Separate(h, due)
             s2 == Paint(s1, s1.tmudata, s1.white)
             s3 == markobjects(s2, s1.tmudata)
             s4 == propagateall(s3)
  <1>0. h \in GCState /\ NoneDead(h) /\ Kept(h) = Allocated(h)
    BY DEF Sound, Marking, NoneDead, Kept, Allocated
  <1>1. /\ due \in SUBSET Objs
        /\ \A o \in due : Kind[o] = "udata" /\ o \in Kept(h) /\ ~h.fin[o]
        /\ \A o \in Whites(h) : Kind[o] = "udata" => h.fin[o] \/ o \in due
    BY <1>0 DEF Allocated, Whites, IsWhite
  <1>2. Separated(h) = s4
    <2>1. luaC_separateudata(h, FALSE) = s1
      BY DEF luaC_separateudata
    <2> HIDE DEF s1
    <2>2. s2.tmudata = s1.tmudata
      <3>1. s1 \in GCState
        BY <1>0, <1>1, SeparateGives DEF SeparatedBy, s1
      <3> QED
        BY <3>1 DEF Paint, GCState
    <2> QED
      BY <2>1, <2>2 DEF Separated, marktmu
  <1> HIDE DEF due
  <1>3. SeparatedBy(h, s1, due) /\ SameRefs(h, s1)
    BY <1>0, <1>1, SeparateGives
  <1>4. Sound(s1) /\ Kept(s1) = Kept(h) /\ Allocated(s1) = Allocated(h)
    BY <1>1, <1>3, SeparateKeepsSound
  <1> HIDE DEF s1
  <1>5. s1 \in GCState /\ NoneDead(s1) /\ s1.tmudata \in SUBSET Kept(s1) /\ s1.white \in Colors
        /\ Marked(s1) = Marked(h) /\ Whites(s1) = Whites(h) /\ s1.tmudata \in SUBSET Objs
    <2>1. s1 \in GCState /\ s1.tmudata \in SUBSET Objs /\ s1.white \in Colors
      BY <1>4, Fields DEF Sound, Colors
    <2>2. s1.tmudata \in SUBSET Kept(s1)
      BY <1>4 DEF Sound, KeptIsClosed
    <2>3. NoneDead(s1) /\ Marked(s1) = Marked(h) /\ Whites(s1) = Whites(h)
      BY <1>0, <1>3 DEF NoneDead, isdead, otherwhite, SeparatedBy, Marked, Whites, IsWhite
    <2> QED
      BY <2>1, <2>2, <2>3
  <1>6. PaintedBy(s1, s2, s1.tmudata, s1.white) /\ SameRefs(s1, s2)
    BY <1>5, PaintGives
  <1>7. Sound(s2) /\ NoneDead(s2) /\ Allocated(s2) = Allocated(h)
    BY <1>4, <1>5, <1>6, WhitenedKeepsSound
  <1>8. s2 \in GCState /\ Whites(s2) = Whites(h) \cup s1.tmudata /\ Marked(s2) = Marked(h) \ s1.tmudata
    <2>1. s2 \in GCState /\ s1.white \in {"w0", "w1"}
      BY <1>5, <1>7, Fields DEF Sound
    <2> QED
      BY <2>1, <1>5, <1>6 DEF PaintedBy, Whites, IsWhite, Marked
  <1> HIDE DEF s2
  <1>9. PICK M : MarkedBy(s2, s3, M) /\ s1.tmudata \cap Whites(s2) \subseteq M
    BY <1>8, MarkobjectsGives
  <1> HIDE DEF s3
  <1>10. Recolored(s2, s3) /\ Whites(s3) = Whites(s2) \ M /\ M \subseteq Marked(s3) /\ s1.tmudata \subseteq M
         /\ M \subseteq Objs
    BY <1>8, <1>9, MarkedIsRecolored DEF MarkedBy, Whites
  <1>11. Sound(s3) /\ NoneDead(s3) /\ Allocated(s3) = Allocated(h) /\ s3 \in GCState
    BY <1>7, <1>8, <1>10, RecoloredKeepsSound, RecoloredGrows DEF Sound
  <1>12. s3.gray = M \cap Waits /\ s3.weak = h.weak /\ s3.tmudata = s1.tmudata /\ s3.fin = s1.fin /\ s3.phase = h.phase
         /\ s3.calls = h.calls
    BY <1>3, <1>6, <1>9 DEF SeparatedBy, PaintedBy, MarkedBy, SameHeap
  <1>13. \A o \in Objs : Marks(s3, o) = Marks(h, o) /\ Marks(s2, o) = Marks(h, o) /\ (StaysGray(s3, o) <=> StaysGray(h, o))
    BY <1>3, <1>6, <1>10, RefsAreSame DEF Recolored
  <1>14. ASSUME NEW o \in Marked(s3) PROVE o \in s3.gray \/ Through(s3, o)
    <2>0. o \in Objs
      BY DEF Marked
    <2>1. CASE o \in M /\ o \notin Waits
      <3>1. CASE Kind[o] = "string"
        BY <3>1 DEF Through, Marks
      <3>2. CASE Kind[o] \in {"udata", "upval"}
        BY <2>0, <2>1, <3>2, <1>9, <1>10, <1>13 DEF MarkedBy, Through
      <3> QED
        BY <2>0, <2>1, <3>1, <3>2, GCAssumption DEF Waits
    <2>2. CASE o \notin M
      <3>1. s3.color[o] = s2.color[o]
        BY <2>0, <2>2, <1>9 DEF MarkedBy
      <3>2. o \in Marked(h) \ h.tmudata
        BY <2>0, <2>2, <3>1, <1>3, <1>8, <1>10 DEF Marked, SeparatedBy
      <3>3. Marks(h, o) \cap Whites(h) = {}
        BY <3>2 DEF Through
      <3> QED
        BY <2>0, <3>3, <1>8, <1>10, <1>13 DEF Through
    <2> QED
      BY <2>1, <2>2, <1>12
  <1>15. ASSUME NEW o \in Marked(s3), Weak[o] # {} PROVE o \in s3.gray \cup s3.weak
    <2>0. o \in Objs /\ o \in Tables /\ o \in Waits /\ StaysGray(h, o)
      BY <1>15, GCAssumption DEF Marked, Waits, Tables, StaysGray
    <2>1. CASE o \notin M
      <3>1. s3.color[o] = s2.color[o]
        BY <2>0, <2>1, <1>9 DEF MarkedBy
      <3>2. o \in Marked(h)
        BY <2>0, <2>1, <3>1, <1>8 DEF Marked
      <3>3. h.color[o] = "gray"
        BY <2>0, <3>2 DEF Sound, Shades, Marked
      <3>4. ~IsOpen(h, o)
        BY <2>0 DEF Sound, Heap, OpenIsInStack, Tables
      <3>5. o \in h.weak
        BY <1>15, <2>0, <3>3, <3>4 DEF Marking, Listed, Tables
      <3> QED
        BY <3>5, <1>12
    <2> QED
      BY <2>0, <2>1, <1>12
  <1>16. PICK S : /\ TraversedBy(s3, s4, S) /\ s3.gray \subseteq S /\ S \subseteq s3.gray \cup Whites(s3)
                  /\ \A o \in S : Marks(s3, o) \cap Whites(s3) \subseteq S
    BY <1>11, PropagateallGives
  <1> HIDE DEF s4
  <1>17. S \subseteq Allocated(s3)
    BY <1>10, <1>12, <1>16 DEF Marked, Whites, IsWhite, Allocated
  <1>18. Recolored(s3, s4) /\ Whites(s4) = Whites(s3) \ S
    BY <1>11, <1>16, <1>17, TraversedIsRecolored
  <1>19. Sound(s4) /\ NoneDead(s4) /\ Allocated(s4) = Allocated(h) /\ Marked(s3) \subseteq Marked(s4)
    BY <1>11, <1>18, RecoloredKeepsSound, RecoloredGrows
  <1>20. ASSUME NEW o \in Marked(s4) PROVE Through(s4, o) /\ (Weak[o] # {} => o \in s4.weak)
    <2>0. o \in Objs /\ Marks(s4, o) = Marks(s3, o)
      BY <1>18, RefsAreSame DEF Marked, Recolored
    <2>1. CASE o \in S
      BY <2>0, <2>1, <1>16, <1>18 DEF TraversedBy, Through
    <2>2. CASE o \notin S
      <3>1. o \in Marked(s3)
        BY <2>0, <2>2, <1>16 DEF TraversedBy, Marked
      <3> QED
        BY <2>0, <2>2, <3>1, <1>14, <1>15, <1>16, <1>18 DEF TraversedBy, Through
    <2> QED
      BY <2>1, <2>2
  <1>21. /\ s4.tmudata = s1.tmudata /\ s4.fin = s1.fin /\ s4.phase = h.phase /\ s4.calls = h.calls
         /\ \A o \in s4.weak : Weak[o] # {}
    BY <1>12, <1>16 DEF TraversedBy, SameHeap, Marking, Listed
  <1>22. Main \in Marked(s4) /\ s4.tmudata \subseteq Marked(s4)
    <2>1. s4.tmudata \subseteq Marked(s4)
      BY <1>10, <1>19, <1>21
    <2>2. Main \notin s1.tmudata /\ Main \in Objs
      BY <1>4, GCAssumption DEF Sound, Finalizers, Threads
    <2>3. Main \in Marked(s2)
      BY <2>2, <1>8
    <2>4. Main \in Marked(s3)
      BY <2>3, <1>8, <1>10, RecoloredGrows
    <2> QED
      BY <2>1, <2>4, <1>19
  <1>23. ASSUME NEW o \in Whites(s4), Kind[o] = "udata" PROVE s4.fin[o]
    <2>1. o \in Objs /\ o \in Whites(h) /\ o \notin s1.tmudata
      BY <1>8, <1>10, <1>18 DEF Whites
    <2>2. o \notin due
      BY <2>1, <1>3 DEF SeparatedBy
    <2> QED
      BY <1>1, <1>3, <1>21, <1>23, <2>1, <2>2 DEF SeparatedBy
  <1> QED
    BY <1>2, <1>19, <1>20, <1>21, <1>22, <1>23 DEF Ended

\* Once weak tables are cleared nothing that is marked holds anything that is not.
Cleared(h) ==
  /\ h \in GCState /\ NoneDead(h) /\ Heap(h) /\ Finalizers(h) /\ Shades(h)
  /\ \A o \in Marked(h) : AllRefs(h, o) \subseteq Marked(h)
  /\ Main \in Marked(h) /\ h.tmudata \subseteq Marked(h)
  /\ \A o \in Whites(h) : Kind[o] = "udata" => h.fin[o]

LEMMA CleartablesClears ==
  ASSUME NEW h, Ended(h)
  PROVE  LET m == cleartables(h) IN
         Cleared(m) /\ Allocated(m) = Allocated(h) /\ m.phase = h.phase /\ m.calls = h.calls
  <1> DEFINE entries == {o \in h.weak : h.val[o] # None}
             lost    == {o \in entries : iscleared(h, h.key[o], TRUE)}
             gone    == lost \cup {o \in entries : iscleared(h, h.val[o], FALSE)}
             strings == {v \in Objs : Kind[v] = "string" /\ \E o \in entries \ lost : v \in EntryRefs(h, o)}
             c == markobjects(h, strings)
             key == [o \in Objs |-> IF o \in gone THEN None ELSE h.key[o]]
             val == [o \in Objs |-> IF o \in gone THEN None ELSE h.val[o]]
             m == [c EXCEPT !.key = key, !.val = val]
  <1>0. h \in GCState /\ Sound(h) /\ NoneDead(h) /\ h.weak \subseteq Objs
    BY Fields DEF Ended, Sound
  <1>1. cleartables(h) = m
    BY DEF cleartables
  <1>2. PICK M : MarkedBy(h, c, M) /\ M = strings \cap Whites(h)
    BY <1>0, MarkobjectsGives
  <1>3. /\ gone \subseteq h.weak
        /\ key \in [Objs -> Values] /\ val \in [Objs -> Values]
        /\ \A o \in Objs : IF o \in gone THEN key[o] = None /\ val[o] = None
                           ELSE key[o] = h.key[o] /\ val[o] = h.val[o]
    BY <1>0, Fields, ZenonT(60) DEF Values
  <1>4. ASSUME NEW o \in h.weak \ gone, NEW v \in EntryRefs(h, o), v \in Objs
        PROVE  v \in strings \/ ~IsWhite(h, v)
    <2>1. o \in entries /\ v \in {h.key[o], h.val[o]} /\ v # None
      BY <1>4 DEF EntryRefs
    <2>2. o \notin lost
      BY <1>4
    <2>3. CASE Kind[v] = "string"
      BY <2>1, <2>2, <2>3, <1>4
    <2>4. CASE Kind[v] # "string"
      BY <2>1, <2>4, <1>4 DEF iscleared
    <2> QED
      BY <2>3, <2>4
  <1>5. \A v \in strings : v \in Objs /\ Kind[v] = "string"
    OBVIOUS
  <1> HIDE DEF entries, lost, gone, strings, key, val, c, m
  <1>6. Recolored(h, c) /\ Whites(c) = Whites(h) \ M /\ M \subseteq Marked(c)
    BY <1>0, <1>2, MarkedIsRecolored
  <1>7. Sound(c) /\ NoneDead(c) /\ Allocated(c) = Allocated(h) /\ Marked(h) \subseteq Marked(c) /\ c \in GCState
    BY <1>0, <1>6, RecoloredKeepsSound, RecoloredGrows DEF Sound
  <1>8. /\ m \in GCState /\ m.key = key /\ m.val = val /\ m.color = c.color
        /\ m.at = h.at /\ m.stack = h.stack /\ m.fin = h.fin /\ m.calls = h.calls /\ m.tmudata = h.tmudata
        /\ m.phase = h.phase /\ m.white = h.white
    <2>1. m \in GCState /\ m.key = key /\ m.val = val /\ m.color = c.color
      BY <1>7, <1>3 DEF m, GCState
    <2>2. /\ m.at = c.at /\ m.stack = c.stack /\ m.fin = c.fin /\ m.calls = c.calls /\ m.tmudata = c.tmudata
          /\ m.phase = c.phase /\ m.white = c.white
      BY <1>7 DEF m, GCState
    <2> QED
      BY <2>1, <2>2, <1>2 DEF MarkedBy, SameHeap
  <1>9. c.white = h.white /\ c.fin = h.fin /\ c.calls = h.calls /\ c.tmudata = h.tmudata /\ c.stack = h.stack
        /\ c.at = h.at /\ c.val = h.val /\ c.key = h.key
    BY <1>2 DEF MarkedBy, SameHeap
  <1>10. /\ NoneDead(m) /\ Allocated(m) = Allocated(h) /\ Marked(m) = Marked(c) /\ Whites(m) = Whites(c)
         /\ \A o \in Objs : isdead(m, o) <=> isdead(c, o)
    BY <1>7, <1>8, <1>9 DEF NoneDead, isdead, otherwhite, Allocated, Marked, Whites, IsWhite
  <1>11. \A o \in gone : Kind[o] = "table"
    BY <1>0, <1>3, GCAssumption DEF Ended, Tables
  <1>12. \A o \in Objs : IsOpen(m, o) <=> IsOpen(h, o)
    BY <1>8 DEF IsOpen
  <1>18. \A o \in Objs : StaysGray(m, o) <=> StaysGray(c, o)
    BY <1>8, <1>9 DEF IsOpen, StaysGray
  <1>19. \A o \in gone : AllRefs(m, o) = {}
    BY <1>0, <1>3, <1>8, <1>11 DEF AllRefs, EntryRefs
  <1>20. ASSUME NEW o \in Objs, o \notin gone PROVE AllRefs(m, o) = AllRefs(h, o)
    <2>1. m.key[o] = h.key[o] /\ m.val[o] = h.val[o]
      BY <1>3, <1>8, <1>20
    <2> QED
      BY <2>1, <1>8 DEF AllRefs, EntryRefs, StrongRefs, Marks, UpvalValue, IsOpen
  <1>13. Heap(m)
    <2>1. FreeIsClean(m)
      BY <1>3, <1>7, <1>8, <1>9 DEF Sound, Heap, FreeIsClean
    <2>2. OpenIsInStack(m)
      BY <1>7, <1>8, <1>9, <1>10, <1>12 DEF Sound, Heap, OpenIsInStack, IsOpen
    <2>3. FunctionsHaveUpvals(m)
      BY <1>3, <1>7, <1>8, <1>9, <1>10, <1>11 DEF Sound, Heap, FunctionsHaveUpvals, Allocated
    <2> QED
      BY <2>1, <2>2, <2>3 DEF Heap
  <1>14. Finalizers(m)
    BY <1>7, <1>8, <1>9, <1>10 DEF Sound, Finalizers, Allocated
  <1>15. Shades(m)
    <2>1. Shades(c) /\ \A o \in Objs : StaysGray(m, o) <=> StaysGray(c, o)
      BY <1>7, <1>18 DEF Sound
    <2> QED
      BY <2>1, <1>8 DEF Shades
  <1>16. ASSUME NEW o \in Marked(m), NEW v \in AllRefs(m, o) PROVE v \in Marked(m)
    <2>5. o \in Objs /\ o \in Allocated(m)
      BY <1>16 DEF Marked, Allocated
    <2>6. o \notin gone
      BY <2>5, <1>19, <1>16
    <2>0. o \in Objs /\ o \in Allocated(h) /\ o \notin gone /\ v \in AllRefs(h, o)
      BY <2>5, <2>6, <1>10, <1>20, <1>16
    <2>1. v \in Allocated(h) /\ v \in Objs
      BY <2>0, <1>0 DEF Sound, KeptIsClosed, Kept, NoneDead, Allocated
    <2>2. CASE o \in M
      BY <2>0, <2>2, <1>2, <1>5 DEF AllRefs, Marks
    <2>3. CASE o \notin M
      <3>1. o \in Marked(h)
        BY <2>0, <2>3, <1>2, <1>10, <1>16 DEF MarkedBy, Marked
      <3>2. CASE Kind[o] = "table" /\ Weak[o] # {}
        <4>1. o \in h.weak /\ v \in EntryRefs(h, o)
          BY <2>0, <3>1, <3>2 DEF Ended, AllRefs
        <4>2. v \in strings \/ ~IsWhite(h, v)
          BY <4>1, <2>0, <2>1, <1>4
        <4>3. v \notin Whites(c)
          BY <4>2, <1>2, <1>6 DEF Whites
        <4> QED
          BY <4>3, <2>1, <1>7, <1>10 DEF Whites, IsWhite, Marked, Allocated, GCState, Colors
      <3>3. CASE ~(Kind[o] = "table" /\ Weak[o] # {})
        <4>1. AllRefs(h, o) = Marks(h, o)
          BY <2>0, <3>3 DEF AllRefs, Marks, EntryRefs, StrongRefs
        <4>2. v \notin Whites(h)
          BY <2>0, <3>1, <4>1 DEF Ended, Through
        <4>3. v \notin Whites(c)
          BY <4>2, <1>6
        <4> QED
          BY <4>3, <2>1, <1>7, <1>10 DEF Whites, IsWhite, Marked, Allocated, GCState, Colors
      <3> QED
        BY <3>2, <3>3
    <2> QED
      BY <2>2, <2>3
  <1>17. /\ Main \in Marked(m) /\ m.tmudata \subseteq Marked(m)
         /\ \A o \in Whites(m) : Kind[o] = "udata" => m.fin[o]
    BY <1>6, <1>7, <1>8, <1>10 DEF Ended
  <1> QED
    BY <1>1, <1>8, <1>10, <1>13, <1>14, <1>15, <1>16, <1>17 DEF Cleared

LEMMA BeginSweepSweeps ==
  ASSUME NEW h, Cleared(h)
  PROVE  LET m == BeginSweep(h) IN
         Sound(m) /\ m.phase = "sweep" /\ Sweeping(m) /\ Allocated(m) = Allocated(h) /\ m.calls = h.calls
  <1> DEFINE m == BeginSweep(h)
  <1>0. h \in GCState /\ otherwhite(h) \in {"w0", "w1"} /\ h.tmudata \subseteq Objs /\ SweepList(h) \in SUBSET Objs
    BY Fields DEF Cleared, otherwhite, SweepList, Allocated
  <1>1. m \in GCState
    BY <1>0 DEF BeginSweep, GCState
  <1>2. m.white = otherwhite(h) /\ m.phase = "sweep" /\ m.unswept = SweepList(h)
    BY <1>0 DEF BeginSweep, GCState
  <1>3. /\ m.color = h.color /\ m.key = h.key /\ m.val = h.val /\ m.at = h.at /\ m.stack = h.stack
        /\ m.fin = h.fin /\ m.calls = h.calls /\ m.tmudata = h.tmudata
    BY <1>0 DEF BeginSweep, GCState
  <1> HIDE DEF m
  <1>4. otherwhite(m) = h.white
    <2>1. h.white \in {"w0", "w1"}
      BY <1>0, Fields
    <2> QED
      BY <2>1, <1>2 DEF otherwhite
  <1>5. Allocated(m) = Allocated(h) /\ Kept(m) = Marked(h) /\ \A o \in Allocated(m) : isdead(m, o) <=> o \in Whites(h)
    <2>1. \A o \in Objs : h.color[o] \in Colors /\ h.color[o] # otherwhite(h)
      BY <1>0, Fields DEF Cleared, NoneDead, isdead
    <2>2. h.white \in {"w0", "w1"} /\ {h.white, otherwhite(h)} = {"w0", "w1"}
      BY <1>0, Fields DEF otherwhite
    <2> QED
      BY <2>1, <2>2, <1>3, <1>4 DEF Allocated, Kept, Marked, Whites, IsWhite, isdead, Colors
  <1>6. SameRefs(h, m)
    BY <1>3 DEF SameRefs
  <1>7. \A o \in Objs : AllRefs(m, o) = AllRefs(h, o) /\ (IsOpen(m, o) <=> IsOpen(h, o)) /\ (StaysGray(m, o) <=> StaysGray(h, o))
    BY <1>6, RefsAreSame
  <1>8. Heap(m)
    <2>1. FreeIsClean(m)
      BY <1>3 DEF Cleared, Heap, FreeIsClean
    <2>2. OpenIsInStack(m)
      BY <1>3, <1>5, <1>7 DEF Cleared, Heap, OpenIsInStack
    <2>3. FunctionsHaveUpvals(m)
      BY <1>3, <1>5 DEF Cleared, Heap, FunctionsHaveUpvals
    <2> QED
      BY <2>1, <2>2, <2>3 DEF Heap
  <1>9. KeptIsClosed(m)
    BY <1>3, <1>5, <1>7 DEF Cleared, KeptIsClosed, Marked
  <1>10. Finalizers(m)
    BY <1>3, <1>5 DEF Cleared, Finalizers, Allocated
  <1>11. Shades(m)
    BY <1>3, <1>7 DEF Cleared, Shades
  <1>12. Sweeping(m)
    <2>1. m.unswept \subseteq Allocated(m) /\ \A o \in m.unswept : ~IsOpen(m, o)
      BY <1>2, <1>5, <1>7 DEF SweepList, Allocated, Cleared, Heap, OpenIsInStack
    <2>2. ASSUME NEW o \in Allocated(m) \ (m.tmudata \cup m.unswept)
          PROVE  IsOpen(m, o) /\ m.at[o][1] \in m.unswept
      <3>1. o \in Objs /\ Kind[o] = "upval" /\ IsOpen(h, o)
        BY <1>2, <1>3, <1>5, <2>2 DEF SweepList, Allocated
      <3>2. h.at[o][1] \in Allocated(h) /\ h.at[o][1] \in Threads
        BY <3>1, <1>0, Fields DEF Cleared, Heap, OpenIsInStack, IsOpen
      <3>3. h.at[o][1] \notin h.tmudata /\ Kind[h.at[o][1]] # "upval"
        BY <3>2 DEF Cleared, Finalizers, Threads
      <3> QED
        BY <3>1, <3>2, <3>3, <1>2, <1>3, <1>7 DEF SweepList
    <2> QED
      BY <2>1, <2>2 DEF Sweeping
  <1> QED
    BY <1>1, <1>2, <1>3, <1>5, <1>8, <1>9, <1>10, <1>11, <1>12 DEF Sound, m

\* Marking ends with a heap that may be swept.
LEMMA AtomicSweeps ==
  ASSUME NEW h, Sound(h), Marking(h), Main \in Marked(h), h.gray = {}
  PROVE  LET m == atomic(h) IN
         Sound(m) /\ m.phase = "sweep" /\ Sweeping(m) /\ Allocated(m) = Allocated(h) /\ m.calls = h.calls
  <1> DEFINE r == Remarked(h)
             s == Separated(r)
             c == cleartables(s)
  <1>1. /\ Sound(r) /\ Marking(r) /\ Recolored(h, r) /\ r.gray = {}
        /\ \A o \in Marked(r) \ r.tmudata : Through(r, o)
    BY RemarkedThrough
  <1>2. Allocated(r) = Allocated(h) /\ Main \in Marked(r) /\ r.calls = h.calls
    BY <1>1, RecoloredGrows DEF Sound, Recolored, SameHeap
  <1> HIDE DEF r
  <1>3. Ended(s) /\ Allocated(s) = Allocated(r) /\ s.calls = r.calls
    BY <1>1, <1>2, SeparatedEnds
  <1> HIDE DEF s
  <1>4. Cleared(c) /\ Allocated(c) = Allocated(s) /\ c.calls = s.calls
    BY <1>3, CleartablesClears
  <1> HIDE DEF c
  <1>5. LET m == BeginSweep(c) IN
        Sound(m) /\ m.phase = "sweep" /\ Sweeping(m) /\ Allocated(m) = Allocated(c) /\ m.calls = c.calls
    BY <1>4, BeginSweepSweeps
  <1> QED
    BY <1>2, <1>3, <1>4, <1>5 DEF atomic, r, s, c

\* Only the collector's lists and its phase differ.
SameObjects(h, m) ==
  /\ m \in GCState
  /\ m.color = h.color /\ m.key = h.key /\ m.val = h.val /\ m.at = h.at /\ m.fin = h.fin
  /\ m.calls = h.calls /\ m.stack = h.stack /\ m.white = h.white /\ m.tmudata = h.tmudata

LEMMA SameObjectsSound ==
  ASSUME NEW h, Sound(h), NEW m, SameObjects(h, m)
  PROVE  /\ Sound(m) /\ SameRefs(h, m) /\ Allocated(m) = Allocated(h) /\ Kept(m) = Kept(h)
         /\ NoneDead(h) => NoneDead(m)
  <1>1. SameRefs(h, m)
    BY DEF SameRefs, SameObjects
  <1>2. /\ Allocated(m) = Allocated(h) /\ Kept(m) = Kept(h) /\ (NoneDead(h) => NoneDead(m))
        /\ \A o \in Objs : isdead(m, o) <=> isdead(h, o)
    BY DEF SameObjects, Allocated, Kept, isdead, otherwhite, NoneDead
  <1>3. \A o \in Objs : AllRefs(m, o) = AllRefs(h, o) /\ (IsOpen(m, o) <=> IsOpen(h, o)) /\ (StaysGray(m, o) <=> StaysGray(h, o))
    BY <1>1, RefsAreSame
  <1>4. FreeIsClean(m) /\ FunctionsHaveUpvals(m)
    BY <1>2 DEF SameObjects, Sound, Heap, FreeIsClean, FunctionsHaveUpvals
  <1>5. OpenIsInStack(m)
    BY <1>2, <1>3 DEF SameObjects, Sound, Heap, OpenIsInStack
  <1>6. KeptIsClosed(m)
    BY <1>2, <1>3 DEF SameObjects, Sound, KeptIsClosed, Kept, Allocated
  <1>7. Finalizers(m)
    BY <1>2 DEF SameObjects, Sound, Finalizers, Allocated
  <1>8. Shades(m)
    BY <1>3 DEF SameObjects, Sound, Shades
  <1> QED
    BY <1>1, <1>2, <1>4, <1>5, <1>6, <1>7, <1>8 DEF SameObjects, Sound, Heap

LEMMA MarkrootMarks ==
  ASSUME NEW h, Sound(h), Clean(h)
  PROVE  LET m == markroot(h) IN
         /\ Sound(m) /\ Marking(m) /\ m.phase = "propagate" /\ Main \in Marked(m)
         /\ Allocated(m) = Allocated(h) /\ m.calls = h.calls
  <1> DEFINE r == [h EXCEPT !.gray = {}, !.grayagain = {}, !.weak = {}, !.phase = "propagate"]
             m == markobjects(r, {Main})
  <1>0. h \in GCState /\ h.white \in {"w0", "w1"} /\ NoneDead(h)
    BY Fields DEF Sound, Clean
  <1>1. /\ r \in GCState /\ r.gray = {} /\ r.grayagain = {} /\ r.weak = {} /\ r.phase = "propagate"
        /\ r.color = h.color /\ r.key = h.key /\ r.white = h.white /\ r.tmudata = h.tmudata
        /\ r.val = h.val /\ r.at = h.at /\ r.stack = h.stack /\ r.fin = h.fin /\ r.calls = h.calls
    BY <1>0 DEF GCState
  <1> HIDE DEF r
  <1>2. SameObjects(h, r)
    BY <1>1 DEF SameObjects
  <1>3. Sound(r) /\ SameRefs(h, r) /\ Allocated(r) = Allocated(h) /\ NoneDead(r)
    BY <1>0, <1>2, SameObjectsSound
  <1>5. \A o \in Objs : h.color[o] \in {"gray", "black"} => o \in h.tmudata
    BY <1>0 DEF Clean, Allocated
  <1>6. Listed(r)
    BY <1>1, <1>5 DEF Listed, Sound, Shades, Finalizers
  <1>7. Tricolor(r)
    BY <1>1, <1>5 DEF Tricolor
  <1>8. /\ Sound(m) /\ Marking(m) /\ Recolored(r, m) /\ {Main} \cap Whites(m) = {}
    BY <1>3, <1>6, <1>7, MarkingThrough DEF Marking
  <1>9. markroot(h) = m
    BY DEF markroot, r
  <1> HIDE DEF m
  <1>10. Allocated(m) = Allocated(h) /\ m.phase = "propagate" /\ m.calls = h.calls
    BY <1>1, <1>3, <1>8, RecoloredGrows DEF Recolored, SameHeap
  <1>11. Main \in Marked(m)
    <2>1. Main \in Allocated(m) /\ Main \in Objs
      BY <1>8 DEF Sound, KeptIsClosed, Kept, Allocated
    <2>2. m.color[Main] \in Colors
      BY <2>1, <1>8, Fields DEF Sound
    <2> QED
      BY <1>8, <2>1, <2>2 DEF Whites, IsWhite, Marked, Allocated, Colors
  <1> QED
    BY <1>8, <1>9, <1>10, <1>11

LEMMA PropagatemarkMarks ==
  ASSUME NEW h, Sound(h), Marking(h), NEW o \in h.gray
  PROVE  LET m == propagatemark(h, o) IN
         Sound(m) /\ Marking(m) /\ Recolored(h, m)
  <1> DEFINE x == markobjects(h, Marks(h, o))
             m == traverse(x, {o})
  <1>0. h \in GCState /\ o \in Marked(h) /\ o \in Objs
    BY DEF Sound, Marking, Listed, Marked
  <1>1. Sound(x) /\ Marking(x) /\ Recolored(h, x) /\ Marks(h, o) \cap Whites(x) = {}
    BY MarkingThrough
  <1> HIDE DEF x
  <1>2. x \in GCState /\ {o} \in SUBSET Objs /\ {o} \subseteq Allocated(x) /\ Marks(x, o) = Marks(h, o)
    BY <1>0, <1>1, RecoloredGrows, RefsAreSame DEF Sound, Marked, Allocated, Recolored
  <1>3. TraversedBy(x, m, {o})
    BY <1>2, TraverseGives
  <1> HIDE DEF m
  <1>4. Sound(m) /\ Marking(m)
    BY <1>1, <1>2, <1>3, TraverseKeepsMarking
  <1>5. Recolored(h, m)
    BY <1>0, <1>1, <1>2, <1>3, TraversedIsRecolored, RecoloredTwice
  <1> QED
    BY <1>4, <1>5 DEF propagatemark, x, m

-----------------------------------------------------------------------------
(* Sweeping                                                                    *)

\* m is h with the objects D freed and the open upvalues L closed, and maybe
\* with more objects of the current white.
ReleasedBy(h, m, D, L) ==
  /\ m \in GCState /\ m.calls = h.calls /\ m.white = h.white /\ m.tmudata = h.tmudata
  /\ \A o \in Objs :
       /\ o \in D => m.color[o] = "free"
       /\ o \notin D => m.color[o] = h.color[o] \/ (o \in Kept(h) /\ m.color[o] = h.white)
       /\ m.key[o] = IF o \in D THEN None ELSE h.key[o]
       /\ m.val[o] = IF o \in D THEN None ELSE IF o \in L THEN UpvalValue(h, o) ELSE h.val[o]
       /\ m.at[o] = IF o \in D \cup L THEN <<None, 0>> ELSE h.at[o]
       /\ m.fin[o] = (o \notin D /\ h.fin[o])
  /\ \A o \in Threads : m.stack[o] = IF o \in D THEN <<>> ELSE h.stack[o]

LEMMA ReleasedKeepsSound ==
  ASSUME NEW h, Sound(h), NEW D \in SUBSET Allocated(h), NEW L \in SUBSET (Allocated(h) \ D),
         \A o \in D : isdead(h, o), \A o \in L : IsOpen(h, o),
         \A o \in Objs \ (D \cup L) : IsOpen(h, o) => h.at[o][1] \notin D,
         NEW m, ReleasedBy(h, m, D, L)
  PROVE  Sound(m) /\ Kept(m) = Kept(h) /\ Allocated(m) = Allocated(h) \ D
  <1>0. /\ h \in GCState /\ m \in GCState /\ h.white \in {"w0", "w1"} /\ h.white # "free"
        /\ D \subseteq Objs /\ L \subseteq Objs /\ None \notin Objs
    BY Fields, GCAssumption DEF Sound, ReleasedBy, Allocated
  <1>1. /\ otherwhite(m) = otherwhite(h) /\ otherwhite(h) # h.white /\ otherwhite(h) # "free"
    BY <1>0 DEF otherwhite, ReleasedBy
  <1>2. Allocated(m) = Allocated(h) \ D
    <2>1. ASSUME NEW o \in Objs PROVE m.color[o] # "free" <=> h.color[o] # "free" /\ o \notin D
      BY <1>0 DEF ReleasedBy, Kept, Allocated
    <2> QED
      BY <2>1 DEF Allocated
  <1>3. ASSUME NEW o \in Objs, o \notin D PROVE isdead(m, o) <=> isdead(h, o)
    BY <1>1, <1>3 DEF isdead, ReleasedBy, Kept
  <1>4. Kept(m) = Kept(h)
    BY <1>2, <1>3 DEF Kept, Allocated
  <1>5. ASSUME NEW o \in Objs
        PROVE  IsOpen(m, o) <=> IsOpen(h, o) /\ o \notin D /\ o \notin L
    BY DEF IsOpen, ReleasedBy
  <1>6. ASSUME NEW o \in Objs, o \notin D PROVE UpvalValue(m, o) = UpvalValue(h, o)
    <2>1. CASE o \in L
      BY <2>1, <1>5, <1>6 DEF UpvalValue, ReleasedBy
    <2>2. CASE o \notin L /\ IsOpen(h, o)
      <3>1. m.at[o] = h.at[o] /\ h.at[o][1] \in Threads /\ h.at[o][1] \notin D
        BY <2>2, <1>0, <1>6, Fields DEF ReleasedBy, IsOpen
      <3>2. m.stack[h.at[o][1]] = h.stack[h.at[o][1]]
        BY <3>1 DEF ReleasedBy
      <3> QED
        BY <3>1, <3>2, <2>2, <1>5, <1>6 DEF UpvalValue
    <2>3. CASE o \notin L /\ ~IsOpen(h, o)
      BY <2>3, <1>5, <1>6 DEF UpvalValue, ReleasedBy
    <2> QED
      BY <2>1, <2>2, <2>3
  <1>7. ASSUME NEW o \in Objs, o \notin D PROVE AllRefs(m, o) = AllRefs(h, o)
    <2>1. m.key[o] = h.key[o]
      BY <1>7 DEF ReleasedBy
    <2>2. CASE Kind[o] = "upval"
      BY <2>2, <1>6, <1>7 DEF AllRefs, Marks
    <2>3. CASE Kind[o] # "upval"
      <3>1. o \notin L
        BY <2>3, <1>0 DEF Sound, Heap, OpenIsInStack
      <3>2. m.val[o] = h.val[o] /\ (o \in Threads => m.stack[o] = h.stack[o])
        BY <3>1, <1>7 DEF ReleasedBy
      <3> QED
        BY <2>1, <2>3, <3>2, GCAssumption DEF AllRefs, Marks, EntryRefs, StrongRefs, Threads
    <2> QED
      BY <2>2, <2>3
  <1>8. FreeIsClean(m)
    <2>1. SUFFICES ASSUME NEW o \in Objs, m.color[o] = "free"
                   PROVE  /\ m.key[o] = None /\ m.val[o] = None /\ m.at[o] = <<None, 0>> /\ ~m.fin[o]
                          /\ o \in Threads => m.stack[o] = <<>>
      BY DEF FreeIsClean
    <2>2. CASE o \in D
      BY <2>2 DEF ReleasedBy
    <2>3. CASE o \notin D
      <3>1. h.color[o] = "free" /\ o \notin L
        BY <2>1, <2>3, <1>0 DEF ReleasedBy, Allocated
      <3> QED
        BY <2>3, <3>1 DEF Sound, Heap, FreeIsClean, ReleasedBy
    <2> QED
      BY <2>2, <2>3
  <1>9. OpenIsInStack(m)
    <2>1. SUFFICES ASSUME NEW o \in Objs, IsOpen(m, o)
                   PROVE  /\ Kind[o] = "upval" /\ o \in Allocated(m)
                          /\ m.at[o][1] \in Allocated(m) /\ m.at[o][2] \in DOMAIN m.stack[m.at[o][1]]
      BY DEF OpenIsInStack
    <2>2. IsOpen(h, o) /\ o \notin D /\ o \notin L /\ m.at[o] = h.at[o] /\ h.at[o][1] \notin D
      BY <2>1, <1>5 DEF ReleasedBy
    <2>3. h.at[o][1] \in Threads
      BY <2>2, <1>0, Fields DEF IsOpen
    <2>4. m.stack[h.at[o][1]] = h.stack[h.at[o][1]]
      BY <2>2, <2>3 DEF ReleasedBy
    <2> QED
      BY <2>2, <2>4, <1>2 DEF Sound, Heap, OpenIsInStack
  <1>10. FunctionsHaveUpvals(m)
    <2>1. SUFFICES ASSUME NEW o \in Allocated(m), Kind[o] = "function"
                   PROVE  m.val[o] \in Objs /\ Kind[m.val[o]] = "upval"
      BY DEF FunctionsHaveUpvals
    <2>2. o \in Allocated(h) /\ o \notin D /\ o \in Objs
      BY <1>2 DEF Allocated
    <2>3. o \notin L
      BY <2>1, <1>0 DEF Sound, Heap, OpenIsInStack
    <2> QED
      BY <2>1, <2>2, <2>3 DEF ReleasedBy, Sound, Heap, FunctionsHaveUpvals
  <1>11. KeptIsClosed(m)
    <2>1. \A o \in Kept(h) : o \in Objs /\ o \notin D
      BY DEF Kept, Allocated
    <2> QED
      BY <1>4, <1>7, <2>1 DEF KeptIsClosed, Sound, ReleasedBy
  <1>12. Finalizers(m)
    <2>1. \A o \in h.tmudata : o \in Objs /\ o \notin D
      BY DEF Sound, KeptIsClosed, Kept, Allocated
    <2>2. \A o \in m.tmudata : Kind[o] = "udata" /\ m.fin[o]
      BY <2>1 DEF Sound, Finalizers, ReleasedBy
    <2>3. \A o \in Objs : Kind[o] = "udata" => m.calls[o] <= 1
      BY DEF Sound, Finalizers, ReleasedBy
    <2>4. ASSUME NEW o \in Allocated(m), Kind[o] = "udata"
          PROVE  /\ m.calls[o] = 1 <=> (m.fin[o] /\ o \notin m.tmudata)
                 /\ isdead(m, o) => m.fin[o]
      <3>1. o \in Allocated(h) /\ o \notin D /\ o \in Objs
        BY <1>2 DEF Allocated
      <3>2. /\ h.calls[o] = 1 <=> (h.fin[o] /\ o \notin h.tmudata)
            /\ isdead(h, o) => h.fin[o]
        BY <2>4, <3>1 DEF Sound, Finalizers
      <3>3. m.fin[o] = h.fin[o]
        BY <3>1, <1>0, Fields DEF ReleasedBy
      <3> QED
        BY <3>1, <3>2, <3>3, <1>3 DEF ReleasedBy
    <2> QED
      BY <2>2, <2>3, <2>4 DEF Finalizers
  <1>13. Shades(m)
    <2>1. ASSUME NEW o \in Objs
          PROVE  /\ m.color[o] = "black" => ~StaysGray(m, o)
                 /\ Kind[o] = "udata" => m.color[o] # "gray"
      <3>1. m.color[o] \in {"black", "gray"} => m.color[o] = h.color[o] /\ o \notin D
        BY <1>0 DEF ReleasedBy
      <3>2. StaysGray(m, o) => StaysGray(h, o)
        BY <1>5, SMTT(45) DEF StaysGray
      <3> QED
        BY <3>1, <3>2 DEF Sound, Shades
    <2> QED
      BY <2>1 DEF Shades
  <1> QED
    BY <1>0, <1>2, <1>4, <1>8, <1>9, <1>10, <1>11, <1>12, <1>13 DEF Sound, Heap

LEMMA FreeGives ==
  ASSUME NEW h \in GCState, NEW D
  PROVE  LET m == Free(h, D) IN
         /\ m \in GCState
         /\ \A o \in Objs : /\ m.color[o] = IF o \in D THEN "free" ELSE h.color[o]
                            /\ m.key[o] = IF o \in D THEN None ELSE h.key[o]
                            /\ m.val[o] = IF o \in D THEN None ELSE h.val[o]
                            /\ m.at[o] = IF o \in D THEN <<None, 0>> ELSE h.at[o]
                            /\ m.fin[o] = (o \notin D /\ h.fin[o])
         /\ \A o \in Threads : m.stack[o] = IF o \in D THEN <<>> ELSE h.stack[o]
         /\ m.calls = h.calls /\ m.white = h.white /\ m.tmudata = h.tmudata /\ m.unswept = h.unswept
         /\ m.phase = h.phase /\ m.gray = h.gray /\ m.grayagain = h.grayagain /\ m.weak = h.weak
  <1> DEFINE m == Free(h, D)
  <1>1. [o \in Objs |-> IF o \in D THEN "free" ELSE h.color[o]] \in [Objs -> Colors]
    BY Fields DEF Colors
  <1>2. [o \in Objs |-> IF o \in D THEN None ELSE h.key[o]] \in [Objs -> Values]
    BY Fields DEF Values
  <1>3. [o \in Objs |-> IF o \in D THEN None ELSE h.val[o]] \in [Objs -> Values]
    BY Fields DEF Values
  <1>4. [o \in Objs |-> IF o \in D THEN <<None, 0>> ELSE h.at[o]] \in [Objs -> (Threads \cup {None}) \X Nat]
    BY Fields
  <1>5. [o \in Objs |-> o \notin D /\ h.fin[o]] \in [Objs -> BOOLEAN]
    BY Fields
  <1>6. [o \in Threads |-> IF o \in D THEN <<>> ELSE h.stack[o]] \in [Threads -> Seq(Values)]
    BY Fields
  <1>7. m \in GCState
    BY <1>1, <1>2, <1>3, <1>4, <1>5, <1>6 DEF Free, GCState
  <1> QED
    BY <1>7 DEF Free, GCState

LEMMA CloseGives ==
  ASSUME NEW h \in GCState, NEW L, \A o \in L : o \in Objs /\ UpvalValue(h, o) \in Values
  PROVE  LET m == Close(h, L) IN
         /\ m \in GCState /\ m.color = h.color /\ m.key = h.key /\ m.fin = h.fin /\ m.stack = h.stack
         /\ \A o \in Objs : /\ m.val[o] = IF o \in L THEN UpvalValue(h, o) ELSE h.val[o]
                            /\ m.at[o] = IF o \in L THEN <<None, 0>> ELSE h.at[o]
         /\ m.calls = h.calls /\ m.white = h.white /\ m.tmudata = h.tmudata /\ m.unswept = h.unswept
         /\ m.phase = h.phase /\ m.gray = h.gray /\ m.grayagain = h.grayagain /\ m.weak = h.weak
  <1> DEFINE m == Close(h, L)
  <1>1. [o \in Objs |-> IF o \in L THEN UpvalValue(h, o) ELSE h.val[o]] \in [Objs -> Values]
    BY Fields
  <1>2. [o \in Objs |-> IF o \in L THEN <<None, 0>> ELSE h.at[o]] \in [Objs -> (Threads \cup {None}) \X Nat]
    BY Fields
  <1>3. m \in GCState
    BY <1>1, <1>2 DEF Close, GCState
  <1> QED
    BY <1>3 DEF Close, GCState

\* The value of a kept upvalue is kept.
LEMMA UpvalValueIsKept ==
  ASSUME NEW h, Sound(h), NEW o \in Kept(h), Kind[o] = "upval"
  PROVE  UpvalValue(h, o) = None \/ UpvalValue(h, o) \in Kept(h)
  BY DEF Sound, KeptIsClosed, AllRefs, Marks

LEMMA SweepingReleases ==
  ASSUME NEW h, Sound(h), NEW os \in SUBSET Allocated(h)
  PROVE  \E D, L, swept :
           /\ swept = os \cup UNION {OpenUpvals(h, th, 1) : th \in os \cap Threads}
           /\ D = {o \in swept : isdead(h, o)}
           /\ L = {u \in swept \ D : Kind[u] = "upval" /\ h.at[u][1] \in D}
           /\ ReleasedBy(h, sweeplist(h, os), D, L)
           /\ \A o \in swept \ D : sweeplist(h, os).color[o] = h.white
           /\ \A o \in Objs \ swept : sweeplist(h, os).color[o] = h.color[o]
           /\ sweeplist(h, os).unswept = h.unswept /\ sweeplist(h, os).phase = h.phase
  <1> DEFINE swept == os \cup UNION {OpenUpvals(h, th, 1) : th \in os \cap Threads}
             D == {o \in swept : isdead(h, o)}
             p == Paint(h, swept \ D, h.white)
             L == {u \in swept \ D : Kind[u] = "upval" /\ h.at[u][1] \in D}
             c == Close(p, L)
             m == Free(c, D)
  <1>0. h \in GCState /\ swept \subseteq Allocated(h) /\ h.white \in Colors
    BY Fields DEF Sound, OpenUpvals, Colors
  <1>1. \A o \in swept \ D : o \in Kept(h)
    BY <1>0 DEF Kept
  <1>2. PaintedBy(h, p, swept \ D, h.white) /\ SameRefs(h, p) /\ p \in GCState /\ p.fin = h.fin
    BY <1>0, PaintGives DEF PaintedBy, SameHeap
  <1>3. {u \in swept \ D : Kind[u] = "upval" /\ p.at[u][1] \in D} = L
    BY <1>2 DEF SameRefs
  <1>4. sweeplist(h, os) = m
    BY <1>3 DEF sweeplist
  <1> HIDE DEF swept, D, p, L
  <1>5. /\ D \subseteq Objs /\ D \subseteq swept /\ L \subseteq Objs \ D /\ swept \subseteq Objs /\ None \notin Objs
    BY <1>0, GCAssumption DEF Allocated, D, L
  <1>6. /\ c \in GCState /\ c.color = p.color /\ c.key = p.key /\ c.fin = p.fin /\ c.stack = p.stack
        /\ \A o \in Objs : /\ c.val[o] = IF o \in L THEN UpvalValue(p, o) ELSE p.val[o]
                           /\ c.at[o] = IF o \in L THEN <<None, 0>> ELSE p.at[o]
        /\ c.calls = p.calls /\ c.white = p.white /\ c.tmudata = p.tmudata /\ c.unswept = p.unswept
        /\ c.phase = p.phase
    <2>1. ASSUME NEW o \in L PROVE o \in Objs /\ UpvalValue(p, o) \in Values
      <3>1. UpvalValue(p, o) = UpvalValue(h, o) /\ Kind[o] = "upval" /\ o \in Kept(h) /\ o \in Objs
        BY <1>1, <1>2, <1>5, RefsAreSame DEF L
      <3> QED
        BY <3>1, UpvalValueIsKept DEF Kept, Allocated, Values
    <2> HIDE DEF c
    <2> QED
      BY <2>1, <1>2, CloseGives DEF c
  <1> HIDE DEF c
  <1>7. /\ m \in GCState
        /\ \A o \in Objs : /\ m.color[o] = IF o \in D THEN "free" ELSE c.color[o]
                           /\ m.key[o] = IF o \in D THEN None ELSE c.key[o]
                           /\ m.val[o] = IF o \in D THEN None ELSE c.val[o]
                           /\ m.at[o] = IF o \in D THEN <<None, 0>> ELSE c.at[o]
                           /\ m.fin[o] = (o \notin D /\ c.fin[o])
        /\ \A o \in Threads : m.stack[o] = IF o \in D THEN <<>> ELSE c.stack[o]
        /\ m.calls = c.calls /\ m.white = c.white /\ m.tmudata = c.tmudata /\ m.unswept = c.unswept
        /\ m.phase = c.phase
    <2> HIDE DEF m
    <2> QED
      BY <1>6, FreeGives DEF m
  <1> HIDE DEF m
  <1>8. ASSUME NEW o \in Objs
        PROVE  /\ m.color[o] = IF o \in D THEN "free" ELSE IF o \in swept THEN h.white ELSE h.color[o]
               /\ m.key[o] = IF o \in D THEN None ELSE h.key[o]
               /\ m.val[o] = IF o \in D THEN None ELSE IF o \in L THEN UpvalValue(h, o) ELSE h.val[o]
               /\ m.at[o] = IF o \in D \cup L THEN <<None, 0>> ELSE h.at[o]
               /\ m.fin[o] = (o \notin D /\ h.fin[o])
    <2>1. UpvalValue(p, o) = UpvalValue(h, o) /\ p.val[o] = h.val[o] /\ p.at[o] = h.at[o] /\ p.fin[o] = h.fin[o]
          /\ p.key[o] = h.key[o]
      BY <1>2, RefsAreSame DEF SameRefs, PaintedBy
    <2>2. p.color[o] = IF o \in swept \ D THEN h.white ELSE h.color[o]
      BY <1>2 DEF PaintedBy
    <2>3. m.color[o] = IF o \in D THEN "free" ELSE IF o \in swept THEN h.white ELSE h.color[o]
      BY <2>2, <1>6, <1>7
    <2> QED
      BY <2>1, <2>3, <1>6, <1>7
  <1>9. ReleasedBy(h, m, D, L)
    <2>1. m \in GCState /\ m.calls = h.calls /\ m.white = h.white /\ m.tmudata = h.tmudata
      BY <1>2, <1>6, <1>7 DEF PaintedBy, SameHeap
    <2>2. \A o \in Threads : m.stack[o] = IF o \in D THEN <<>> ELSE h.stack[o]
      BY <1>2, <1>6, <1>7 DEF SameRefs
    <2>3. ASSUME NEW o \in Objs
          PROVE  /\ o \in D => m.color[o] = "free"
                 /\ o \notin D => m.color[o] = h.color[o] \/ (o \in Kept(h) /\ m.color[o] = h.white)
      BY <1>1, <1>8
    <2> QED
      BY <2>1, <2>2, <2>3, <1>8 DEF ReleasedBy
  <1>10. /\ \A o \in swept \ D : m.color[o] = h.white
         /\ \A o \in Objs \ swept : m.color[o] = h.color[o]
         /\ m.unswept = h.unswept /\ m.phase = h.phase
    BY <1>2, <1>5, <1>6, <1>7, <1>8 DEF PaintedBy, SameHeap
  <1> QED
    BY <1>4, <1>9, <1>10, ZenonT(60) DEF swept, D, L

\* A userdata is freed only after its finalizer was called.
Collects(h, m) ==
  /\ Allocated(m) \subseteq Allocated(h)
  /\ \A o \in Objs \ Allocated(h) : m.calls[o] = h.calls[o]
  /\ \A o \in Allocated(h) \ Allocated(m) : Kind[o] = "udata" => m.calls[o] = 1

LEMMA CollectsTwice ==
  ASSUME NEW h, NEW m, NEW n, Collects(h, m), Collects(m, n)
  PROVE  Collects(h, n)
  BY DEF Collects, Allocated

LEMMA SweptIsClean ==
  ASSUME NEW h, Sound(h), Sweeping(h), h.unswept = {}
  PROVE  Clean(h)
  <1>1. h.white \in {"w0", "w1"} /\ h.tmudata \subseteq Kept(h)
    BY Fields DEF Sound, KeptIsClosed
  <1>2. \A o \in Allocated(h) \ h.tmudata : h.color[o] = h.white
    BY DEF Sweeping
  <1>3. otherwhite(h) # h.white /\ otherwhite(h) # "free"
    BY <1>1 DEF otherwhite
  <1>4. NoneDead(h)
    BY <1>1, <1>2, <1>3 DEF NoneDead, isdead, Kept, Allocated
  <1> QED
    BY <1>2, <1>4 DEF Clean

\* What a sweep of os, of the swept list of h, frees (D) and closes (L): a thread
\* goes with its open upvalues.
SweptBy(h, s, os, D, L, swept) ==
  /\ swept = os \cup UNION {OpenUpvals(h, th, 1) : th \in os \cap Threads}
  /\ D = {o \in swept : isdead(h, o)}
  /\ L = {u \in swept \ D : Kind[u] = "upval" /\ h.at[u][1] \in D}
  /\ ReleasedBy(h, s, D, L)
  /\ \A o \in swept \ D : s.color[o] = h.white
  /\ \A o \in Objs \ swept : s.color[o] = h.color[o]
  /\ s.unswept = h.unswept /\ s.phase = h.phase
  /\ swept \subseteq Allocated(h) /\ D \in SUBSET Allocated(h) /\ L \in SUBSET (Allocated(h) \ D)
  /\ \A o \in swept \ os : Kind[o] = "upval" /\ IsOpen(h, o) /\ h.at[o][1] \in os
  /\ \A o \in Objs : IsOpen(h, o) /\ h.at[o][1] \in os => o \in swept
  /\ \A o \in L : IsOpen(h, o)
  /\ \A o \in Objs \ (D \cup L) : IsOpen(h, o) => h.at[o][1] \notin D

LEMMA SweptTogether ==
  ASSUME NEW h, Sound(h), Sweeping(h), NEW os \in SUBSET h.unswept
  PROVE  \E D, L, swept : SweptBy(h, sweeplist(h, os), os, D, L, swept)
  <1> DEFINE s == sweeplist(h, os)
  <1>0. h \in GCState /\ os \subseteq Allocated(h) /\ os \subseteq Objs /\ \A o \in os : ~IsOpen(h, o)
    BY DEF Sound, Sweeping, Allocated
  <1>1. PICK D, L, swept :
           /\ swept = os \cup UNION {OpenUpvals(h, th, 1) : th \in os \cap Threads}
           /\ D = {o \in swept : isdead(h, o)}
           /\ L = {u \in swept \ D : Kind[u] = "upval" /\ h.at[u][1] \in D}
           /\ ReleasedBy(h, s, D, L)
           /\ \A o \in swept \ D : s.color[o] = h.white
           /\ \A o \in Objs \ swept : s.color[o] = h.color[o]
           /\ s.unswept = h.unswept /\ s.phase = h.phase
    BY <1>0, SweepingReleases
  <1> HIDE DEF s
  <1>2. swept \subseteq Allocated(h) /\ Allocated(h) \subseteq Objs
    BY <1>0, <1>1 DEF OpenUpvals, Allocated
  <1>3. ASSUME NEW o \in swept \ os
        PROVE  /\ Kind[o] = "upval" /\ IsOpen(h, o) /\ h.at[o][1] \in os
    <2>1. PICK th \in os \cap Threads : o \in OpenUpvals(h, th, 1)
      BY <1>1, SMTT(45)
    <2> QED
      BY <2>1, GCAssumption DEF OpenUpvals, IsOpen, Threads
  <1>4. ASSUME NEW o \in Objs, IsOpen(h, o), h.at[o][1] \in os
        PROVE  o \in swept
    <2>1. /\ Kind[o] = "upval" /\ o \in Allocated(h)
          /\ h.at[o][2] \in DOMAIN h.stack[h.at[o][1]] /\ h.at[o][1] \in Threads
      BY <1>0, <1>4, Fields DEF Sound, Heap, OpenIsInStack, IsOpen
    <2>2. h.stack[h.at[o][1]] \in Seq(Values)
      BY <1>0, <2>1, Fields
    <2>3. h.at[o][2] >= 1
      BY <2>1, <2>2
    <2> QED
      BY <1>1, <1>4, <2>1, <2>3 DEF OpenUpvals
  <1>5. ASSUME NEW o \in L PROVE IsOpen(h, o) /\ o \in Objs \ D
    BY <1>1, <1>2, GCAssumption DEF IsOpen
  <1>6. ASSUME NEW o \in Objs \ (D \cup L), IsOpen(h, o) PROVE h.at[o][1] \notin D
    <2>1. SUFFICES ASSUME h.at[o][1] \in D PROVE FALSE
      OBVIOUS
    <2>2. Kind[o] = "upval" /\ h.at[o][1] \in Threads
      BY <1>0, <1>6, Fields DEF Sound, Heap, OpenIsInStack, IsOpen
    <2>3. h.at[o][1] \in os
      BY <1>1, <1>3, <2>1, <2>2 DEF Threads
    <2> QED
      BY <1>1, <1>4, <1>6, <2>1, <2>2, <2>3
  <1>7. D \in SUBSET Allocated(h) /\ L \in SUBSET (Allocated(h) \ D) /\ \A o \in D : isdead(h, o)
    BY <1>1, <1>2
  <1>8. \E D1, L1, swept1 : SweptBy(h, s, os, D1, L1, swept1)
    <2>1. SweptBy(h, s, os, D, L, swept)
      <3>1. /\ swept \subseteq Allocated(h)
            /\ \A o \in swept \ os : Kind[o] = "upval" /\ IsOpen(h, o) /\ h.at[o][1] \in os
            /\ \A o \in Objs : IsOpen(h, o) /\ h.at[o][1] \in os => o \in swept
            /\ \A o \in L : IsOpen(h, o)
            /\ \A o \in Objs \ (D \cup L) : IsOpen(h, o) => h.at[o][1] \notin D
        BY <1>2, <1>3, <1>4, <1>5, <1>6
      <3> QED
        BY <1>1, <1>7, <3>1, Zenon DEF SweptBy
    <2> QED
      BY <2>1
  <1> QED
    BY <1>8 DEF s

LEMMA SweepstepSweeps ==
  ASSUME NEW h, Sound(h), Sweeping(h), NEW os \in SUBSET h.unswept
  PROVE  LET m == sweepstep(h, os) IN
         /\ Sound(m) /\ Sweeping(m) /\ Collects(h, m) /\ m.unswept = h.unswept \ os
         /\ m.phase = IF h.unswept \subseteq os THEN "finalize" ELSE h.phase
  <1> DEFINE s == sweeplist(h, os)
             m == sweepstep(h, os)
  <1>0. h \in GCState /\ os \subseteq Allocated(h) /\ os \subseteq Objs /\ \A o \in os : ~IsOpen(h, o)
    BY DEF Sound, Sweeping, Allocated
  <1>1. PICK D, L, swept : SweptBy(h, s, os, D, L, swept)
    BY SweptTogether
  <1>2. /\ swept \subseteq Allocated(h) /\ Allocated(h) \subseteq Objs
        /\ D = {o \in swept : isdead(h, o)}
        /\ L = {u \in swept \ D : Kind[u] = "upval" /\ h.at[u][1] \in D}
        /\ os \subseteq swept /\ ReleasedBy(h, s, D, L)
        /\ \A o \in swept \ D : s.color[o] = h.white
        /\ \A o \in Objs \ swept : s.color[o] = h.color[o]
        /\ s.unswept = h.unswept /\ s.phase = h.phase
    <2> HIDE DEF s
    <2> QED
      BY <1>1 DEF SweptBy, Allocated
  <1>3. \A o \in swept \ os : Kind[o] = "upval" /\ IsOpen(h, o) /\ h.at[o][1] \in os
    BY <1>1 DEF SweptBy
  <1>4. \A o \in Objs : IsOpen(h, o) /\ h.at[o][1] \in os => o \in swept
    BY <1>1 DEF SweptBy
  <1>5. \A o \in L : IsOpen(h, o)
    BY <1>1 DEF SweptBy
  <1>6. \A o \in Objs \ (D \cup L) : IsOpen(h, o) => h.at[o][1] \notin D
    BY <1>1 DEF SweptBy
  <1>7. D \in SUBSET Allocated(h) /\ L \in SUBSET (Allocated(h) \ D) /\ \A o \in D : isdead(h, o)
    BY <1>1, <1>2 DEF SweptBy
  <1>8. Sound(s) /\ Kept(s) = Kept(h) /\ Allocated(s) = Allocated(h) \ D
    <2>1. \A o \in L : IsOpen(h, o)
      BY <1>5
    <2>2. \A o \in Objs \ (D \cup L) : IsOpen(h, o) => h.at[o][1] \notin D
      BY <1>6
    <2>3. ReleasedBy(h, s, D, L)
      BY <1>2
    <2> HIDE DEF s
    <2> QED
      BY <1>7, <2>1, <2>2, <2>3, ReleasedKeepsSound
  <1>9. /\ SameObjects(s, m) /\ m.unswept = h.unswept \ os
        /\ m.phase = IF h.unswept \subseteq os THEN "finalize" ELSE h.phase
    <2> HIDE DEF s
    <2>1. m = [s EXCEPT !.unswept = @ \ os, !.phase = IF h.unswept \subseteq os THEN "finalize" ELSE @]
      BY DEF sweepstep, s
    <2> HIDE DEF m
    <2>2. m \in GCState
      BY <2>1, <1>8 DEF Sound, GCState
    <2> QED
      BY <2>1, <2>2, <1>2, <1>8 DEF Sound, GCState, SameObjects
  <1> HIDE DEF s, m
  <1>10. Sound(m) /\ SameRefs(s, m) /\ Allocated(m) = Allocated(h) \ D /\ Kept(m) = Kept(h)
    BY <1>8, <1>9, SameObjectsSound
  <1>11. Collects(h, m)
    <2>1. m.calls = h.calls
      BY <1>2, <1>9 DEF ReleasedBy, SameObjects
    <2>2. ASSUME NEW o \in D, Kind[o] = "udata" PROVE m.calls[o] = 1
      <3>1. o \in Allocated(h) /\ isdead(h, o)
        BY <1>7
      <3>2. o \notin h.tmudata
        BY <3>1 DEF Sound, KeptIsClosed, Kept
      <3> QED
        BY <2>1, <2>2, <3>1, <3>2 DEF Sound, Finalizers
    <2> QED
      BY <2>1, <2>2, <1>10 DEF Collects
  <1>12. Sweeping(m)
    <2>1. ASSUME NEW o \in Objs
          PROVE  /\ m.color[o] = s.color[o] /\ m.at[o] = s.at[o] /\ m.white = h.white /\ m.tmudata = h.tmudata
                 /\ s.at[o] = IF o \in D \cup L THEN <<None, 0>> ELSE h.at[o]
      BY <1>2, <1>9 DEF SameObjects, ReleasedBy
    <2>2. \A o \in h.unswept \ os : o \in Allocated(h) /\ o \notin swept /\ ~IsOpen(h, o)
      BY <1>3 DEF Sweeping
    <2>3. m.unswept \subseteq Allocated(m)
      BY <2>2, <1>2, <1>9, <1>10
    <2>4. \A o \in m.unswept : ~IsOpen(m, o)
      BY <2>1, <2>2, <1>2, <1>9 DEF IsOpen
    <2>5. ASSUME NEW o \in Allocated(m) \ (m.tmudata \cup m.unswept)
          PROVE  m.color[o] = m.white \/ (IsOpen(m, o) /\ m.at[o][1] \in m.unswept)
      <3>0. o \in Objs /\ o \in Allocated(h) \ D /\ o \notin h.tmudata
        BY <2>1, <2>5, <1>10 DEF Allocated
      <3>1. CASE o \in swept
        BY <3>0, <3>1, <2>1, <1>2
      <3>2. CASE o \notin swept
        <4>1. o \notin h.unswept
          BY <2>5, <3>2, <1>2, <1>9
        <4>2. CASE h.color[o] = h.white
          BY <4>2, <3>0, <3>2, <2>1, <1>2
        <4>3. CASE IsOpen(h, o) /\ h.at[o][1] \in h.unswept
          <5>1. h.at[o][1] \notin os
            BY <3>0, <3>2, <4>3, <1>4
          <5>2. o \notin D \cup L
            BY <3>2, <1>2
          <5> QED
            BY <5>1, <5>2, <3>0, <4>3, <2>1, <1>9 DEF IsOpen
        <4> QED
          BY <4>1, <4>2, <4>3, <3>0 DEF Sweeping
      <3> QED
        BY <3>1, <3>2
    <2> QED
      BY <2>3, <2>4, <2>5 DEF Sweeping
  <1> QED
    BY <1>9, <1>10, <1>11, <1>12 DEF m

\* The whole sweep.
LEMMA SweepallCleans ==
  ASSUME NEW h, Sound(h), h.phase \in {"sweep", "finalize"}, Phase(h)
  PROVE  LET m == sweepall(h) IN
         Sound(m) /\ Clean(m) /\ m.phase = "finalize" /\ Collects(h, m)
  <1>1. CASE h.phase = "sweep"
    <2>1. Sweeping(h)
      BY <1>1 DEF Phase
    <2>2. LET m == sweepstep(h, h.unswept) IN
          /\ Sound(m) /\ Sweeping(m) /\ Collects(h, m) /\ m.unswept = h.unswept \ h.unswept
          /\ m.phase = IF h.unswept \subseteq h.unswept THEN "finalize" ELSE h.phase
      BY <2>1, SweepstepSweeps
    <2> QED
      BY <2>2, <1>1, SweptIsClean DEF sweepall
  <1>2. CASE h.phase = "finalize"
    BY <1>2 DEF sweepall, Phase, Collects
  <1> QED
    BY <1>1, <1>2

\* Finalizers of os, which waited, are called.
CalledBy(h, m, os) ==
  /\ m \in GCState
  /\ m.color = h.color /\ m.key = h.key /\ m.val = h.val /\ m.at = h.at /\ m.fin = h.fin
  /\ m.stack = h.stack /\ m.white = h.white
  /\ m.tmudata = h.tmudata \ os
  /\ \A o \in Objs : m.calls[o] = IF o \in os THEN h.calls[o] + 1 ELSE h.calls[o]

LEMMA CalledKeepsSound ==
  ASSUME NEW h, Sound(h), NEW os \in SUBSET h.tmudata, NEW m, CalledBy(h, m, os)
  PROVE  /\ Sound(m) /\ Allocated(m) = Allocated(h) /\ Kept(m) = Kept(h) /\ Collects(h, m)
         /\ NoneDead(h) => NoneDead(m)
  <1>1. SameRefs(h, m) /\ h \in GCState /\ os \subseteq Allocated(h)
    BY DEF SameRefs, CalledBy, Sound, KeptIsClosed, Kept
  <1>2. /\ Allocated(m) = Allocated(h) /\ Kept(m) = Kept(h) /\ (NoneDead(h) => NoneDead(m))
        /\ \A o \in Objs : isdead(m, o) <=> isdead(h, o)
    BY DEF CalledBy, Allocated, Kept, isdead, otherwhite, NoneDead
  <1>3. \A o \in Objs : AllRefs(m, o) = AllRefs(h, o) /\ (IsOpen(m, o) <=> IsOpen(h, o)) /\ (StaysGray(m, o) <=> StaysGray(h, o))
    BY <1>1, RefsAreSame
  <1>4. FreeIsClean(m) /\ FunctionsHaveUpvals(m)
    BY <1>2 DEF CalledBy, Sound, Heap, FreeIsClean, FunctionsHaveUpvals
  <1>5. OpenIsInStack(m)
    BY <1>2, <1>3 DEF CalledBy, Sound, Heap, OpenIsInStack
  <1>6. KeptIsClosed(m)
    BY <1>2, <1>3 DEF CalledBy, Sound, KeptIsClosed, Kept, Allocated
  <1>7. Finalizers(m)
    <2>1. ASSUME NEW o \in Objs, Kind[o] = "udata"
          PROVE  /\ m.calls[o] <= 1
                 /\ o \in Allocated(m) => (m.calls[o] = 1 <=> (m.fin[o] /\ o \notin m.tmudata))
                 /\ o \in Allocated(m) /\ isdead(m, o) => m.fin[o]
      <3>1. h.calls[o] \in Nat /\ h.calls[o] <= 1 /\ m.fin[o] = h.fin[o]
        BY <2>1, <1>1, Fields DEF Sound, Finalizers, CalledBy
      <3>2. o \in Allocated(h) => (h.calls[o] = 1 <=> (h.fin[o] /\ o \notin h.tmudata)) /\ (isdead(h, o) => h.fin[o])
        BY <2>1 DEF Sound, Finalizers
      <3>3. CASE o \in os
        <4>1. o \in Allocated(h) /\ o \in h.tmudata /\ h.fin[o]
          BY <3>3, <1>1 DEF Sound, Finalizers
        <4>2. h.calls[o] = 0 /\ m.calls[o] = 1 /\ o \notin m.tmudata
          BY <3>1, <3>2, <3>3, <4>1, <2>1 DEF CalledBy
        <4> QED
          BY <4>1, <4>2, <3>1
      <3>4. CASE o \notin os
        <4>1. m.calls[o] = h.calls[o] /\ (o \in m.tmudata <=> o \in h.tmudata)
          BY <2>1, <3>4 DEF CalledBy
        <4> QED
          BY <4>1, <3>1, <3>2, <1>2, <2>1
      <3> QED
        BY <3>3, <3>4
    <2>2. \A o \in m.tmudata : Kind[o] = "udata" /\ m.fin[o]
      BY DEF Sound, Finalizers, CalledBy
    <2>3. Allocated(m) \subseteq Objs
      BY DEF Allocated
    <2> QED
      BY <2>1, <2>2, <2>3 DEF Finalizers
  <1>8. Shades(m)
    BY <1>3 DEF CalledBy, Sound, Shades
  <1>9. Collects(h, m)
    BY <1>1, <1>2 DEF Collects, CalledBy
  <1> QED
    BY <1>2, <1>4, <1>5, <1>6, <1>7, <1>8, <1>9 DEF CalledBy, Sound, Heap

\* One finalizer or all of them: what was called is white again.
LEMMA PaintedAndCalled ==
  ASSUME NEW h, Sound(h), Clean(h), NEW os \in SUBSET h.tmudata,
         NEW p, PaintedBy(h, p, os, h.white), NEW m, CalledBy(p, m, os)
  PROVE  Sound(m) /\ Clean(m) /\ Kept(m) = Kept(h) /\ Collects(h, m) /\ m.tmudata = h.tmudata \ os
  <1>1. os \in SUBSET Kept(h) /\ NoneDead(h)
    BY DEF Sound, KeptIsClosed, Clean
  <1>2. Sound(p) /\ Kept(p) = Kept(h) /\ Allocated(p) = Allocated(h) /\ NoneDead(p)
    BY <1>1, WhitenedKeepsSound
  <1>3. p.tmudata = h.tmudata /\ p.white = h.white /\ p.calls = h.calls
    BY DEF PaintedBy, SameHeap
  <1>4. Sound(m) /\ Allocated(m) = Allocated(h) /\ Kept(m) = Kept(h) /\ Collects(p, m) /\ NoneDead(m)
    BY <1>2, <1>3, CalledKeepsSound
  <1>5. Clean(m)
    <2>1. ASSUME NEW o \in Allocated(m) \ m.tmudata PROVE m.color[o] = m.white
      <3>1. o \in Objs /\ o \in Allocated(h) /\ (o \in os \/ o \notin h.tmudata)
        BY <2>1, <1>3, <1>4 DEF CalledBy, Allocated
      <3>2. m.color[o] = p.color[o] /\ p.color[o] = IF o \in os THEN h.white ELSE h.color[o]
        BY <3>1 DEF CalledBy, PaintedBy
      <3> QED
        BY <3>1, <3>2, <1>3 DEF Clean, CalledBy
    <2> QED
      BY <2>1, <1>4 DEF Clean
  <1>6. Collects(h, m)
    BY <1>2, <1>3, <1>4 DEF Collects
  <1> QED
    BY <1>3, <1>4, <1>5, <1>6 DEF CalledBy

LEMMA CallGCTMCalls ==
  ASSUME NEW h, Sound(h), Clean(h)
  PROVE  LET m == luaC_callGCTM(h) IN
         Sound(m) /\ Clean(m) /\ m.tmudata = {} /\ Collects(h, m)
  <1> DEFINE p == Paint(h, h.tmudata, h.white)
             calls == [o \in Objs |-> IF o \in h.tmudata THEN h.calls[o] + 1 ELSE h.calls[o]]
             m == luaC_callGCTM(h)
  <1>0. h \in GCState /\ h.white \in Colors
    BY Fields DEF Sound, Colors
  <1>1. m = [p EXCEPT !.tmudata = {}, !.calls = calls]
    BY DEF luaC_callGCTM
  <1>2. calls \in [Objs -> Nat] /\ \A o \in Objs : calls[o] = IF o \in h.tmudata THEN h.calls[o] + 1 ELSE h.calls[o]
    BY <1>0, Fields
  <1>3. PaintedBy(h, p, h.tmudata, h.white) /\ p \in GCState
    BY <1>0, PaintGives DEF PaintedBy, SameHeap
  <1> HIDE DEF p, calls, m
  <1>4. m \in GCState
    BY <1>1, <1>2, <1>3 DEF GCState
  <1>5. CalledBy(p, m, h.tmudata)
    <2>1. p.tmudata = h.tmudata /\ p.calls = h.calls
      BY <1>3 DEF PaintedBy, SameHeap
    <2>2. m.tmudata = {} /\ m.calls = calls
      BY <1>1, <1>3 DEF GCState
    <2>3. /\ m.color = p.color /\ m.key = p.key /\ m.val = p.val /\ m.at = p.at /\ m.fin = p.fin
          /\ m.stack = p.stack /\ m.white = p.white
      BY <1>1, <1>3 DEF GCState
    <2> QED
      BY <2>1, <2>2, <2>3, <1>2, <1>4 DEF CalledBy
  <1> QED
    BY <1>3, <1>5, PaintedAndCalled DEF m

\* The sweep that drops the marks of a cycle finds nothing dead.
LEMMA ResetSweeps ==
  ASSUME NEW h, Sound(h), NEW m, SameObjects(h, m), m.unswept = SweepList(h)
  PROVE  Sweeping(m)
  <1>0. h \in GCState
    BY DEF Sound
  <1>1. Allocated(m) = Allocated(h) /\ m.at = h.at /\ m.tmudata = h.tmudata /\ \A o \in Objs : IsOpen(m, o) <=> IsOpen(h, o)
    BY DEF SameObjects, Allocated, IsOpen
  <1>2. m.unswept \subseteq Allocated(m) /\ \A o \in m.unswept : ~IsOpen(m, o)
    BY <1>1 DEF SweepList, Allocated, Sound, Heap, OpenIsInStack
  <1>3. ASSUME NEW o \in Allocated(m) \ (m.tmudata \cup m.unswept)
        PROVE  IsOpen(m, o) /\ m.at[o][1] \in m.unswept
    <2>1. o \in Objs /\ Kind[o] = "upval" /\ IsOpen(h, o)
      BY <1>1, <1>3 DEF SweepList, Allocated
    <2>2. h.at[o][1] \in Allocated(h) /\ h.at[o][1] \in Threads
      BY <1>0, <2>1, Fields DEF Sound, Heap, OpenIsInStack, IsOpen
    <2>3. h.at[o][1] \notin h.tmudata /\ Kind[h.at[o][1]] # "upval"
      BY <2>2 DEF Sound, Finalizers, Threads
    <2> QED
      BY <2>1, <2>2, <2>3, <1>1 DEF SweepList
  <1> QED
    BY <1>2, <1>3 DEF Sweeping

\* A full collection starts from any phase and ends a whole cycle.
LEMMA FullGCCleans ==
  ASSUME NEW h, Sound(h), Phase(h)
  PROVE  LET m == luaC_fullgc(h) IN
         Sound(m) /\ Clean(m) /\ m.tmudata = {} /\ m.phase = "pause" /\ Collects(h, m)
  <1> DEFINE r == IF h.phase \in {"pause", "propagate"}
                  THEN [h EXCEPT !.gray = {}, !.grayagain = {}, !.weak = {}, !.phase = "sweep",
                                 !.unswept = SweepList(h)]
                  ELSE h
             s == sweepall(r)
             k == markroot(s)
             p == propagateall(k)
             a == atomic(p)
             t == sweepall(a)
             c == luaC_callGCTM(t)
             m == [c EXCEPT !.phase = "pause"]
  <1>0. h \in GCState /\ h.phase \in {"pause", "propagate", "sweep", "finalize"}
    BY Fields DEF Sound
  <1>1. luaC_fullgc(h) = m
    BY DEF luaC_fullgc
  <1>2. Sound(r) /\ r.phase \in {"sweep", "finalize"} /\ Phase(r) /\ Collects(h, r)
    <2>1. CASE h.phase \in {"pause", "propagate"}
      <3>1. SweepList(h) \in SUBSET Objs
        BY DEF SweepList, Allocated
      <3>2. r \in GCState
        BY <1>0, <2>1, <3>1 DEF GCState
      <3>3. SameObjects(h, r) /\ r.unswept = SweepList(h) /\ r.phase = "sweep"
        BY <1>0, <2>1, <3>2 DEF GCState, SameObjects
      <3> HIDE DEF r
      <3>4. Sound(r) /\ Sweeping(r) /\ Allocated(r) = Allocated(h)
        BY <3>3, SameObjectsSound, ResetSweeps
      <3> QED
        BY <3>3, <3>4 DEF Phase, Collects, SameObjects
    <2>2. CASE h.phase \notin {"pause", "propagate"}
      BY <1>0, <2>2 DEF Collects
    <2> QED
      BY <2>1, <2>2
  <1> HIDE DEF r
  <1>3. Sound(s) /\ Clean(s) /\ Collects(r, s)
    BY <1>2, SweepallCleans
  <1> HIDE DEF s
  <1>4. /\ Sound(k) /\ Marking(k) /\ Main \in Marked(k) /\ Allocated(k) = Allocated(s) /\ k.calls = s.calls
    BY <1>3, MarkrootMarks
  <1> HIDE DEF k
  <1>5. Sound(p) /\ Marking(p) /\ Recolored(k, p) /\ p.gray = {}
    BY <1>4, PropagatingThrough
  <1> HIDE DEF p
  <1>6. Main \in Marked(p) /\ Allocated(p) = Allocated(s) /\ p.calls = s.calls
    BY <1>4, <1>5, RecoloredGrows DEF Sound, Recolored, SameHeap
  <1>7. Sound(a) /\ a.phase = "sweep" /\ Sweeping(a) /\ Allocated(a) = Allocated(p) /\ a.calls = p.calls
    BY <1>5, <1>6, AtomicSweeps
  <1> HIDE DEF a
  <1>8. Sound(t) /\ Clean(t) /\ Collects(a, t)
    BY <1>7, SweepallCleans DEF Phase
  <1> HIDE DEF t
  <1>9. Sound(c) /\ Clean(c) /\ c.tmudata = {} /\ Collects(t, c)
    BY <1>8, CallGCTMCalls
  <1> HIDE DEF c
  <1>10. SameObjects(c, m) /\ m.phase = "pause"
    <2>1. m \in GCState
      BY <1>9 DEF Sound, GCState
    <2> QED
      BY <1>9, <2>1 DEF Sound, GCState, SameObjects
  <1> HIDE DEF m
  <1>11. Sound(m) /\ NoneDead(m) /\ Allocated(m) = Allocated(c) /\ m.tmudata = {} /\ Clean(m)
    BY <1>9, <1>10, SameObjectsSound DEF Clean, SameObjects
  <1>12. Collects(h, m)
    <2>1. Collects(s, a)
      BY <1>6, <1>7 DEF Collects
    <2>2. Collects(c, m)
      BY <1>10, <1>11 DEF Collects, SameObjects
    <2> QED
      BY <1>2, <1>3, <1>8, <1>9, <2>1, <2>2, CollectsTwice
  <1> QED
    BY <1>1, <1>10, <1>11, <1>12

-----------------------------------------------------------------------------
(* The program's steps                                                         *)

LEMMA MarksAreRefs ==
  ASSUME NEW h, NEW o \in Objs
  PROVE  Marks(h, o) \subseteq AllRefs(h, o)
  BY DEF AllRefs, Marks, StrongRefs, EntryRefs

LEMMA SlotsAreSame ==
  ASSUME NEW h, NEW m, NEW o \in Objs,
         m.key[o] = h.key[o], m.val[o] = h.val[o], m.at[o] = h.at[o], m.stack = h.stack
  PROVE  /\ AllRefs(m, o) = AllRefs(h, o) /\ Marks(m, o) = Marks(h, o) /\ UpvalValue(m, o) = UpvalValue(h, o)
         /\ IsOpen(m, o) <=> IsOpen(h, o)
         /\ StaysGray(m, o) <=> StaysGray(h, o)
  <1>1. (IsOpen(m, o) <=> IsOpen(h, o)) /\ UpvalValue(m, o) = UpvalValue(h, o)
    BY DEF IsOpen, UpvalValue
  <1>2. EntryRefs(m, o) = EntryRefs(h, o) /\ StrongRefs(m, o) = StrongRefs(h, o)
    BY DEF EntryRefs, StrongRefs
  <1>3. Marks(m, o) = Marks(h, o)
    BY <1>1, <1>2 DEF Marks
  <1> QED
    BY <1>1, <1>2, <1>3 DEF AllRefs, StaysGray

LEMMA SafePhases ==
  ASSUME NEW h \in GCState, Phase(h)
  PROVE  /\ h.phase \in {"pause", "propagate", "sweep", "finalize"}
         /\ h.phase # "sweep" => NoneDead(h)
  BY Fields DEF Phase, Clean, Marking

\* m is h with the new object o, whose slot has v and which is open at a.
LinkedBy(h, m, o, v, a) ==
  /\ m \in GCState /\ m.key = h.key /\ m.fin = h.fin /\ m.stack = h.stack /\ m.phase = h.phase
  /\ m.white = h.white /\ m.gray = h.gray /\ m.grayagain = h.grayagain /\ m.weak = h.weak
  /\ m.tmudata = h.tmudata /\ m.unswept = h.unswept
  /\ \A x \in Objs : /\ m.color[x] = IF x = o THEN h.white ELSE h.color[x]
                     /\ m.calls[x] = IF x = o THEN 0 ELSE h.calls[x]
                     /\ m.val[x] = IF x = o THEN v ELSE h.val[x]
                     /\ m.at[x] = IF x = o THEN a ELSE h.at[x]

LEMMA LinkedKeeps ==
  ASSUME NEW h, Sound(h), Phase(h), NEW o \in Objs, h.color[o] = "free", NEW v, NEW a,
         IF Kind[o] = "function" THEN v \in Kept(h) /\ Kind[v] = "upval" ELSE v = None,
         \/ a = <<None, 0>>
         \/ Kind[o] = "upval" /\ a[1] \in Threads \cap Kept(h) /\ a[2] \in DOMAIN h.stack[a[1]],
         NEW m, LinkedBy(h, m, o, v, a)
  PROVE  /\ Sound(m) /\ Phase(m)
         /\ Kept(m) = Kept(h) \cup {o} /\ Allocated(m) = Allocated(h) \cup {o}
  <1>0. /\ h \in GCState /\ m \in GCState /\ h.white \in {"w0", "w1"} /\ None \notin Objs
        /\ Threads \subseteq Objs /\ Kept(h) \subseteq Allocated(h) /\ Allocated(h) \subseteq Objs
    BY Fields, GCAssumption DEF Sound, LinkedBy, Threads, Kept, Allocated
  <1>1. /\ otherwhite(m) = otherwhite(h) /\ otherwhite(h) # h.white /\ otherwhite(h) # "free"
    BY <1>0 DEF otherwhite, LinkedBy
  <1>2. /\ o \notin Allocated(h) /\ o \notin Kept(h) /\ o \notin h.tmudata /\ o \notin Marked(h)
        /\ ~isdead(h, o) /\ ~isdead(m, o) /\ h.fin[o] = FALSE /\ h.key[o] = None
        /\ o \in Threads => h.stack[o] = <<>>
    <2>1. o \notin Allocated(h) /\ o \notin Kept(h) /\ o \notin Marked(h)
      BY DEF Allocated, Kept, Marked
    <2>2. o \notin h.tmudata
      BY <2>1 DEF Sound, KeptIsClosed
    <2>3. ~isdead(h, o) /\ ~isdead(m, o)
      BY <1>1 DEF isdead, LinkedBy
    <2>4. ~h.fin[o] /\ h.key[o] = None /\ (o \in Threads => h.stack[o] = <<>>)
      BY DEF Sound, Heap, FreeIsClean
    <2>5. h.fin[o] \in BOOLEAN
      BY <1>0, Fields
    <2> QED
      BY <2>1, <2>2, <2>3, <2>4, <2>5
  <1>3. ASSUME NEW x \in Objs, x # o
        PROVE  /\ m.color[x] = h.color[x] /\ m.calls[x] = h.calls[x] /\ m.val[x] = h.val[x] /\ m.at[x] = h.at[x]
               /\ isdead(m, x) <=> isdead(h, x)
               /\ IsOpen(m, x) <=> IsOpen(h, x)
    BY <1>1, <1>3 DEF LinkedBy, isdead, IsOpen
  <1>4. m.color[o] = h.white /\ m.calls[o] = 0 /\ m.val[o] = v /\ m.at[o] = a
    BY DEF LinkedBy
  <1>5. Allocated(m) = Allocated(h) \cup {o}
    BY <1>0, <1>3, <1>4 DEF Allocated
  <1>6. Kept(m) = Kept(h) \cup {o}
    BY <1>0, <1>2, <1>3, <1>5 DEF Kept
  <1>7. ASSUME NEW x \in Objs, x # o
        PROVE  AllRefs(m, x) = AllRefs(h, x) /\ Marks(m, x) = Marks(h, x) /\ (StaysGray(m, x) <=> StaysGray(h, x))
    <2>1. m.key[x] = h.key[x] /\ m.stack = h.stack
      BY DEF LinkedBy
    <2> QED
      BY <2>1, <1>3, <1>7, SlotsAreSame
  <1>8. IsOpen(m, o) => /\ Kind[o] = "upval" /\ a[1] \in Threads \cap Kept(h) /\ a[2] \in DOMAIN h.stack[a[1]]
    BY <1>4 DEF IsOpen
  <1>9. AllRefs(m, o) \subseteq Kept(h)
    <2>1. CASE Kind[o] = "function"
      BY <2>1, <1>0, <1>4 DEF AllRefs, Marks
    <2>2. CASE Kind[o] = "upval" /\ ~IsOpen(m, o)
      BY <2>2, <1>4 DEF AllRefs, Marks, UpvalValue
    <2>3. CASE Kind[o] = "upval" /\ IsOpen(m, o)
      <3>1. UpvalValue(m, o) = h.stack[a[1]][a[2]]
        BY <2>3, <1>4 DEF UpvalValue, LinkedBy
      <3>2. h.stack[a[1]][a[2]] \in Range(h.stack[a[1]])
        BY <2>3, <1>8 DEF Range
      <3>3. AllRefs(h, a[1]) = Range(h.stack[a[1]]) \ {None}
        BY <2>3, <1>8 DEF AllRefs, Marks, Threads
      <3>4. AllRefs(h, a[1]) \subseteq Kept(h)
        BY <2>3, <1>8 DEF Sound, KeptIsClosed
      <3>5. AllRefs(m, o) = {UpvalValue(m, o)} \ {None}
        BY <2>3 DEF AllRefs, Marks
      <3> QED
        BY <3>1, <3>2, <3>3, <3>4, <3>5
    <2>4. CASE Kind[o] = "thread"
      <3>1. m.stack[o] = <<>> /\ Range(<<>>) = {}
        BY <2>4, <1>2 DEF LinkedBy, Threads, Range
      <3> QED
        BY <2>4, <3>1 DEF AllRefs, Marks
    <2>5. CASE Kind[o] \in {"table", "udata", "string"}
      BY <2>5, <1>4 DEF AllRefs, Marks, EntryRefs
    <2> QED
      BY <2>1, <2>2, <2>3, <2>4, <2>5, GCAssumption
  <1>10. FreeIsClean(m)
    <2>1. \A x \in Objs : m.color[x] = "free" => x # o /\ h.color[x] = "free"
      BY <1>0, <1>3, <1>4
    <2> QED
      BY <2>1, <1>3 DEF FreeIsClean, Sound, Heap, LinkedBy
  <1>11. OpenIsInStack(m)
    <2>1. SUFFICES ASSUME NEW x \in Objs, IsOpen(m, x)
                   PROVE  /\ Kind[x] = "upval" /\ x \in Allocated(m)
                          /\ m.at[x][1] \in Allocated(m) /\ m.at[x][2] \in DOMAIN m.stack[m.at[x][1]]
      BY DEF OpenIsInStack
    <2>2. CASE x = o
      BY <2>1, <2>2, <1>0, <1>4, <1>5, <1>8 DEF LinkedBy
    <2>3. CASE x # o
      BY <2>1, <2>3, <1>3, <1>5 DEF Sound, Heap, OpenIsInStack, LinkedBy
    <2> QED
      BY <2>2, <2>3
  <1>12. FunctionsHaveUpvals(m)
    BY <1>0, <1>3, <1>4, <1>5 DEF FunctionsHaveUpvals, Sound, Heap
  <1>13. KeptIsClosed(m)
    <2>1. \A x \in Kept(h) : x \in Objs /\ x # o
      BY <1>0, <1>2
    <2>2. \A x \in Kept(h) : AllRefs(m, x) \subseteq Kept(h)
      BY <2>1, <1>7 DEF Sound, KeptIsClosed
    <2> QED
      BY <2>2, <1>6, <1>9 DEF KeptIsClosed, Sound, LinkedBy
  <1>14. Finalizers(m)
    <2>1. m.fin = h.fin /\ m.tmudata = h.tmudata
      BY DEF LinkedBy
    <2>2. \A x \in Objs : Kind[x] = "udata" => m.calls[x] <= 1
      BY <1>3, <1>4 DEF Sound, Finalizers
    <2>3. ASSUME NEW x \in Allocated(m), Kind[x] = "udata"
          PROVE  /\ m.calls[x] = 1 <=> (m.fin[x] /\ x \notin m.tmudata)
                 /\ isdead(m, x) => m.fin[x]
      <3>1. CASE x = o
        BY <3>1, <2>1, <1>2, <1>4
      <3>2. CASE x # o
        BY <2>1, <2>3, <3>2, <1>0, <1>3, <1>5 DEF Sound, Finalizers
      <3> QED
        BY <3>1, <3>2
    <2> QED
      BY <2>1, <2>2, <2>3 DEF Finalizers, Sound
  <1>15. Shades(m)
    BY <1>0, <1>3, <1>4, <1>7 DEF Shades, Sound
  <1>16. NoneDead(h) => NoneDead(m)
    BY <1>2, <1>3 DEF NoneDead
  <1>17. Clean(h) => Clean(m)
    BY <1>0, <1>3, <1>4, <1>5, <1>16 DEF Clean, LinkedBy
  <1>18. Marking(h) => Marking(m)
    <2>1. SUFFICES ASSUME Marking(h) PROVE Listed(m) /\ Tricolor(m)
      BY <1>16 DEF Marking
    <2>2. Marked(m) = Marked(h) /\ Whites(m) = Whites(h) \cup {o}
      BY <1>0, <1>2, <1>3, <1>4 DEF Marked, Whites, IsWhite
    <2>3. Listed(m)
      BY <2>1, <2>2, <1>0, <1>3, <1>4 DEF Marking, Listed, LinkedBy
    <2>4. ASSUME NEW x \in Objs \ m.tmudata, m.color[x] = "black" PROVE Marks(m, x) \cap Whites(m) = {}
      <3>1. x # o /\ h.color[x] = "black" /\ x \notin h.tmudata
        BY <2>4, <1>0, <1>3, <1>4 DEF LinkedBy
      <3>2. x \in Kept(h)
        BY <2>1, <3>1 DEF Marking, NoneDead, Kept, Allocated
      <3>3. Marks(h, x) \subseteq Kept(h)
        BY <3>2, MarksAreRefs DEF Sound, KeptIsClosed
      <3>4. Marks(h, x) \cap Whites(h) = {}
        BY <2>1, <3>1 DEF Marking, Tricolor
      <3> QED
        BY <3>1, <3>3, <3>4, <2>2, <1>2, <1>7
    <2> QED
      BY <2>3, <2>4 DEF Tricolor
  <1>19. Sweeping(h) => Sweeping(m)
    <2>1. SUFFICES ASSUME Sweeping(h) PROVE Sweeping(m)
      OBVIOUS
    <2>2. m.unswept \subseteq Allocated(m) /\ m.unswept = h.unswept /\ m.tmudata = h.tmudata /\ m.white = h.white
      BY <2>1, <1>5 DEF Sweeping, LinkedBy
    <2>3. \A x \in m.unswept : x \in Objs /\ x # o /\ ~IsOpen(m, x)
      BY <2>1, <2>2, <1>0, <1>2, <1>3 DEF Sweeping
    <2>4. ASSUME NEW x \in Allocated(m) \ (m.tmudata \cup m.unswept)
          PROVE  m.color[x] = m.white \/ (IsOpen(m, x) /\ m.at[x][1] \in m.unswept)
      <3>1. CASE x = o
        BY <3>1, <2>2, <1>4
      <3>2. CASE x # o
        <4>1. x \in Allocated(h) \ (h.tmudata \cup h.unswept) /\ x \in Objs
          BY <2>2, <2>4, <3>2, <1>0, <1>5
        <4> QED
          BY <2>1, <2>2, <3>2, <4>1, <1>3 DEF Sweeping
      <3> QED
        BY <3>1, <3>2
    <2> QED
      BY <2>2, <2>3, <2>4 DEF Sweeping
  <1>20. Phase(m)
    <2>1. m.phase = h.phase /\ m.tmudata = h.tmudata
      BY DEF LinkedBy
    <2>2. Main \in Marked(h) => Main \in Marked(m)
      BY <1>2, <1>3 DEF Marked
    <2> QED
      BY <2>1, <2>2, <1>17, <1>18, <1>19 DEF Phase
  <1> QED
    BY <1>0, <1>5, <1>6, <1>10, <1>11, <1>12, <1>13, <1>14, <1>15, <1>20 DEF Sound, Heap

\* A dead object that the program finds again before it is swept.
LEMMA RevivedKeeps ==
  ASSUME NEW h, Sound(h), Phase(h), NEW o \in Allocated(h), isdead(h, o), Kind[o] # "udata",
         AllRefs(h, o) \subseteq Kept(h), NEW m, PaintedBy(h, m, {o}, h.white)
  PROVE  /\ Sound(m) /\ Phase(m)
         /\ Kept(m) = Kept(h) \cup {o} /\ Allocated(m) = Allocated(h)
  <1>0. /\ h \in GCState /\ m \in GCState /\ h.white \in {"w0", "w1"} /\ SameRefs(h, m) /\ o \in Objs
        /\ Kept(h) \subseteq Allocated(h) /\ Allocated(h) \subseteq Objs
    BY Fields DEF Sound, PaintedBy, SameHeap, SameRefs, Kept, Allocated
  <1>1. /\ otherwhite(m) = otherwhite(h) /\ otherwhite(h) # h.white /\ otherwhite(h) # "free" /\ h.white # "free"
    BY <1>0 DEF otherwhite, PaintedBy, SameHeap
  <1>2. /\ \A x \in Objs : x # o => m.color[x] = h.color[x] /\ (isdead(m, x) <=> isdead(h, x))
        /\ m.color[o] = h.white /\ ~isdead(m, o)
    BY <1>0, <1>1 DEF PaintedBy, isdead
  <1>3. Allocated(m) = Allocated(h)
    BY <1>0, <1>1, <1>2 DEF Allocated
  <1>4. Kept(m) = Kept(h) \cup {o}
    BY <1>0, <1>2, <1>3 DEF Kept
  <1>5. \A x \in Objs : AllRefs(m, x) = AllRefs(h, x) /\ (IsOpen(m, x) <=> IsOpen(h, x)) /\ (StaysGray(m, x) <=> StaysGray(h, x))
    BY <1>0, RefsAreSame
  <1>6. FreeIsClean(m)
    <2>1. \A x \in Objs : m.color[x] = "free" => h.color[x] = "free"
      BY <1>1, <1>2
    <2> QED
      BY <2>1 DEF Sound, Heap, FreeIsClean, SameHeap, PaintedBy
  <1>7. OpenIsInStack(m)
    BY <1>3, <1>5 DEF Sound, Heap, OpenIsInStack, SameHeap, PaintedBy
  <1>8. FunctionsHaveUpvals(m)
    BY <1>3 DEF Sound, Heap, FunctionsHaveUpvals, SameHeap, PaintedBy
  <1>9. KeptIsClosed(m)
    <2>1. \A x \in Kept(m) : x \in Objs /\ AllRefs(h, x) \subseteq Kept(h)
      BY <1>0, <1>4 DEF Sound, KeptIsClosed
    <2> QED
      BY <2>1, <1>4, <1>5 DEF Sound, KeptIsClosed, SameHeap, PaintedBy
  <1>10. Finalizers(m)
    <2>1. \A x \in Objs : isdead(m, x) => isdead(h, x)
      BY <1>2
    <2> QED
      BY <2>1, <1>0, <1>3 DEF Sound, Finalizers, SameHeap, PaintedBy
  <1>11. Shades(m)
    BY <1>0, <1>2, <1>5 DEF Sound, Shades
  <1>12. h.phase = "sweep" /\ Sweeping(h)
    <2>1. ~NoneDead(h)
      BY <1>0 DEF NoneDead
    <2> QED
      BY <2>1, <1>0, SafePhases DEF Phase
  <1>13. Sweeping(m)
    <2>1. m.unswept = h.unswept /\ m.tmudata = h.tmudata /\ m.white = h.white /\ m.at = h.at
      BY DEF PaintedBy, SameHeap
    <2>2. \A x \in m.unswept : x \in Allocated(m) /\ ~IsOpen(m, x)
      BY <2>1, <1>0, <1>3, <1>5, <1>12 DEF Sweeping
    <2>3. \A x \in Allocated(m) \ (m.tmudata \cup m.unswept) :
             m.color[x] = m.white \/ (IsOpen(m, x) /\ m.at[x][1] \in m.unswept)
      BY <2>1, <1>0, <1>2, <1>3, <1>5, <1>12 DEF Sweeping
    <2> QED
      BY <2>2, <2>3 DEF Sweeping
  <1>14. Phase(m)
    BY <1>12, <1>13 DEF Phase, PaintedBy, SameHeap
  <1> QED
    BY <1>0, <1>3, <1>4, <1>6, <1>7, <1>8, <1>9, <1>10, <1>11, <1>14 DEF Sound, Heap

\* Only slots, entries and stacks differ.
SameShades(h, m) ==
  /\ m \in GCState
  /\ m.color = h.color /\ m.at = h.at /\ m.fin = h.fin /\ m.calls = h.calls /\ m.phase = h.phase
  /\ m.white = h.white /\ m.gray = h.gray /\ m.grayagain = h.grayagain /\ m.weak = h.weak
  /\ m.tmudata = h.tmudata /\ m.unswept = h.unswept

LEMMA RewrittenKeeps ==
  ASSUME NEW h, Sound(h), NEW m, SameShades(h, m), Heap(m),
         \A o \in Kept(h) : AllRefs(m, o) \subseteq Kept(h)
  PROVE  /\ Sound(m) /\ Kept(m) = Kept(h) /\ Allocated(m) = Allocated(h)
         /\ Marked(m) = Marked(h) /\ Whites(m) = Whites(h)
         /\ NoneDead(h) => NoneDead(m)
         /\ Listed(h) => Listed(m)
         /\ Clean(h) => Clean(m)
         /\ Sweeping(h) => Sweeping(m)
  <1>1. /\ Allocated(m) = Allocated(h) /\ Marked(m) = Marked(h) /\ Whites(m) = Whites(h)
        /\ \A o \in Objs : isdead(m, o) <=> isdead(h, o)
        /\ \A o \in Objs : IsOpen(m, o) <=> IsOpen(h, o)
        /\ \A o \in Objs : StaysGray(m, o) <=> StaysGray(h, o)
    BY DEF SameShades, Allocated, Marked, Whites, IsWhite, isdead, otherwhite, IsOpen, StaysGray
  <1>2. Kept(m) = Kept(h)
    BY <1>1 DEF Kept, Allocated
  <1>3. KeptIsClosed(m)
    BY <1>2 DEF Sound, KeptIsClosed, SameShades
  <1>4. Finalizers(m)
    BY <1>1 DEF Sound, Finalizers, SameShades, Allocated
  <1>5. Shades(m)
    BY <1>1 DEF Sound, Shades, SameShades
  <1>6. NoneDead(h) => NoneDead(m)
    BY <1>1 DEF NoneDead
  <1>7. Listed(h) => Listed(m)
    BY <1>1 DEF Listed, SameShades
  <1>8. Clean(h) => Clean(m)
    BY <1>1, <1>6 DEF Clean, SameShades
  <1>9. Sweeping(h) => Sweeping(m)
    BY <1>1 DEF Sweeping, SameShades, Allocated
  <1> QED
    BY <1>1, <1>2, <1>3, <1>4, <1>5, <1>6, <1>7, <1>8, <1>9 DEF Sound, SameShades

LEMMA RewrittenPhase ==
  ASSUME NEW h, Sound(h), Phase(h), NEW m, SameShades(h, m), Heap(m),
         \A o \in Kept(h) : AllRefs(m, o) \subseteq Kept(h),
         h.phase = "propagate" => \A o \in Objs \ h.tmudata : h.color[o] = "black" => Marks(m, o) \cap Whites(h) = {}
  PROVE  Phase(m)
  <1>1. m.phase = h.phase /\ m.tmudata = h.tmudata /\ m.color = h.color
    BY DEF SameShades
  <1>2. Marking(h) /\ h.phase = "propagate" => Marking(m)
    BY <1>1, RewrittenKeeps DEF Marking, Tricolor
  <1> QED
    BY <1>1, <1>2, RewrittenKeeps DEF Phase

\* The stack of a thread is another: what lies there is kept if the thread is,
\* and what an open upvalue that is kept sees.
LEMMA StackedKeeps ==
  ASSUME NEW h, Sound(h), Phase(h), NEW th \in Threads, th \in Allocated(h), NEW s \in Seq(Values),
         th \in Kept(h) => Range(s) \ {None} \subseteq Kept(h),
         \A o \in Objs : IsOpen(h, o) /\ h.at[o][1] = th =>
            /\ h.at[o][2] \in DOMAIN s
            /\ o \in Kept(h) => s[h.at[o][2]] = None \/ s[h.at[o][2]] \in Kept(h),
         NEW m, SameShades(h, m), m.key = h.key, m.val = h.val,
         \A t \in Threads : m.stack[t] = IF t = th THEN s ELSE h.stack[t]
  PROVE  Sound(m) /\ Phase(m) /\ Kept(m) = Kept(h) /\ Allocated(m) = Allocated(h)
  <1>0. /\ h \in GCState /\ m.at = h.at /\ m.color = h.color /\ None \notin Objs /\ Kept(h) \subseteq Objs
        /\ Allocated(m) = Allocated(h)
    BY GCAssumption DEF Sound, SameShades, Kept, Allocated
  <1>1. \A o \in Objs : IsOpen(h, o) => Kind[o] = "upval" /\ h.at[o][1] \in Threads
    BY <1>0, Fields DEF Sound, Heap, OpenIsInStack, IsOpen
  <1>2. \A o \in Objs : IsOpen(m, o) <=> IsOpen(h, o)
    BY <1>0 DEF IsOpen
  <1>3. ASSUME NEW o \in Objs, ~IsOpen(h, o), o # th
        PROVE  AllRefs(m, o) = AllRefs(h, o) /\ Marks(m, o) = Marks(h, o)
    <2>1. EntryRefs(m, o) = EntryRefs(h, o) /\ StrongRefs(m, o) = StrongRefs(h, o) /\ UpvalValue(m, o) = UpvalValue(h, o)
      BY <1>2, <1>3 DEF EntryRefs, StrongRefs, UpvalValue
    <2>2. Kind[o] = "thread" => m.stack[o] = h.stack[o]
      BY <1>3 DEF Threads
    <2>3. Marks(m, o) = Marks(h, o)
      BY <2>1, <2>2, GCAssumption DEF Marks
    <2> QED
      BY <2>1, <2>3 DEF AllRefs
  <1>4. Heap(m)
    <2>1. FreeIsClean(m)
      BY <1>0 DEF Sound, Heap, FreeIsClean, SameShades, Allocated
    <2>2. OpenIsInStack(m)
      BY <1>0, <1>1, <1>2 DEF Sound, Heap, OpenIsInStack
    <2>3. FunctionsHaveUpvals(m)
      BY <1>0 DEF Sound, Heap, FunctionsHaveUpvals
    <2> QED
      BY <2>1, <2>2, <2>3 DEF Heap
  <1>5. ASSUME NEW o \in Kept(h) PROVE AllRefs(m, o) \subseteq Kept(h)
    <2>0. o \in Objs /\ AllRefs(h, o) \subseteq Kept(h)
      BY <1>0 DEF Sound, KeptIsClosed
    <2>1. CASE o = th
      <3>1. AllRefs(m, o) = Range(s) \ {None}
        BY <2>1 DEF AllRefs, Marks, Threads
      <3> QED
        BY <2>1, <3>1, <1>5
    <2>2. CASE IsOpen(h, o)
      <3>1. UpvalValue(m, o) = m.stack[h.at[o][1]][h.at[o][2]] /\ UpvalValue(h, o) = h.stack[h.at[o][1]][h.at[o][2]]
        BY <2>0, <2>2, <1>0, <1>2 DEF UpvalValue
      <3>2. AllRefs(m, o) = {UpvalValue(m, o)} \ {None} /\ AllRefs(h, o) = {UpvalValue(h, o)} \ {None}
        BY <2>0, <2>2, <1>1 DEF AllRefs, Marks
      <3>3. CASE h.at[o][1] = th
        <4>1. UpvalValue(m, o) = s[h.at[o][2]]
          BY <3>1, <3>3
        <4> QED
          BY <2>0, <2>2, <3>2, <3>3, <4>1
      <3>4. CASE h.at[o][1] # th
        BY <2>0, <2>2, <3>1, <3>2, <3>4, <1>1
      <3> QED
        BY <3>3, <3>4
    <2>3. CASE o # th /\ ~IsOpen(h, o)
      BY <2>0, <2>3, <1>3
    <2> QED
      BY <2>1, <2>2, <2>3
  <1>6. h.phase = "propagate" => \A o \in Objs \ h.tmudata : h.color[o] = "black" => Marks(m, o) \cap Whites(h) = {}
    <2>1. SUFFICES ASSUME h.phase = "propagate", NEW o \in Objs \ h.tmudata, h.color[o] = "black"
                   PROVE  Marks(m, o) \cap Whites(h) = {}
      OBVIOUS
    <2>2. ~StaysGray(h, o) /\ Marks(h, o) \cap Whites(h) = {}
      BY <2>1 DEF Sound, Shades, Phase, Marking, Tricolor
    <2>3. o # th /\ ~IsOpen(h, o)
      BY <2>2, <1>1 DEF StaysGray, Threads
    <2> QED
      BY <2>2, <2>3, <1>3
  <1> QED
    BY <1>4, <1>5, <1>6, RewrittenKeeps, RewrittenPhase

\* Upvalues that see a part of a stack are closed, dead ones freed.
LEMMA ClosingReleases ==
  ASSUME NEW h, Sound(h), NEW th \in Threads, th \in Kept(h), NEW level \in Nat
  PROVE  LET us   == OpenUpvals(h, th, level)
             dead == {u \in us : isdead(h, u)}
             c    == Close(Free(h, dead), us \ dead)
         IN  /\ Sound(c) /\ Kept(c) = Kept(h) /\ Allocated(c) = Allocated(h) \ dead
             /\ us \subseteq Allocated(h) /\ \A u \in us : IsOpen(h, u) /\ Kind[u] = "upval"
             /\ \A o \in Objs : /\ c.color[o] = IF o \in dead THEN "free" ELSE h.color[o]
                                /\ c.at[o] = IF o \in us THEN <<None, 0>> ELSE h.at[o]
                                /\ o \notin us => c.val[o] = h.val[o]
                                /\ o \notin dead => c.key[o] = h.key[o]
             /\ c.calls = h.calls /\ c.stack = h.stack /\ c.white = h.white /\ c.tmudata = h.tmudata
             /\ c.unswept = h.unswept /\ c.phase = h.phase /\ c.gray = h.gray /\ c.grayagain = h.grayagain
             /\ c.weak = h.weak
  <1> DEFINE us == OpenUpvals(h, th, level)
             dead == {u \in us : isdead(h, u)}
             L == us \ dead
             f == Free(h, dead)
             c == Close(f, L)
  <1>0. h \in GCState /\ Allocated(h) \subseteq Objs /\ None \notin Objs /\ Threads \subseteq Objs /\ th \notin dead
    BY GCAssumption DEF Sound, Allocated, Threads, Kept
  <1>1. us \subseteq Allocated(h) /\ \A u \in us : IsOpen(h, u) /\ Kind[u] = "upval" /\ h.at[u][1] = th
    BY <1>0 DEF OpenUpvals, IsOpen
  <1>2. dead \in SUBSET Allocated(h) /\ L \in SUBSET (Allocated(h) \ dead) /\ (\A o \in dead : isdead(h, o))
        /\ \A o \in L : IsOpen(h, o) /\ o \in Kept(h)
    BY <1>1 DEF Kept
  <1>3. \A o \in Objs \ (dead \cup L) : IsOpen(h, o) => h.at[o][1] \notin dead
    <2>1. \A u \in dead : u \notin Threads
      BY <1>1 DEF Threads
    <2>2. \A o \in Objs : IsOpen(h, o) => h.at[o][1] \in Threads
      BY <1>0, Fields DEF IsOpen
    <2> QED
      BY <2>1, <2>2
  <1> HIDE DEF us, dead, L
  <1>4. /\ f \in GCState
        /\ \A o \in Objs : /\ f.color[o] = IF o \in dead THEN "free" ELSE h.color[o]
                           /\ f.key[o] = IF o \in dead THEN None ELSE h.key[o]
                           /\ f.val[o] = IF o \in dead THEN None ELSE h.val[o]
                           /\ f.at[o] = IF o \in dead THEN <<None, 0>> ELSE h.at[o]
                           /\ f.fin[o] = (o \notin dead /\ h.fin[o])
        /\ \A o \in Threads : f.stack[o] = IF o \in dead THEN <<>> ELSE h.stack[o]
        /\ f.calls = h.calls /\ f.white = h.white /\ f.tmudata = h.tmudata /\ f.unswept = h.unswept
        /\ f.phase = h.phase /\ f.gray = h.gray /\ f.grayagain = h.grayagain /\ f.weak = h.weak
    BY <1>0, FreeGives
  <1> HIDE DEF f
  <1>5. f.stack = h.stack
    <2>1. \A o \in Threads : o \notin dead
      BY <1>1 DEF dead, Threads
    <2>2. f.stack \in [Threads -> Seq(Values)] /\ h.stack \in [Threads -> Seq(Values)]
      BY <1>0, <1>4, Fields
    <2> QED
      BY <2>1, <2>2, <1>4
  <1>6. ASSUME NEW o \in L PROVE o \in Objs /\ UpvalValue(f, o) = UpvalValue(h, o) /\ UpvalValue(f, o) \in Values
    <2>1. o \in Objs /\ o \notin dead /\ o \in Kept(h) /\ Kind[o] = "upval"
      BY <1>0, <1>1, <1>2 DEF L
    <2>2. UpvalValue(f, o) = UpvalValue(h, o)
      BY <2>1, <1>4, <1>5 DEF UpvalValue, IsOpen
    <2> QED
      BY <2>1, <2>2, UpvalValueIsKept DEF Kept, Allocated, Values
  <1>7. /\ c \in GCState /\ c.color = f.color /\ c.key = f.key /\ c.fin = f.fin /\ c.stack = f.stack
        /\ \A o \in Objs : /\ c.val[o] = IF o \in L THEN UpvalValue(f, o) ELSE f.val[o]
                           /\ c.at[o] = IF o \in L THEN <<None, 0>> ELSE f.at[o]
        /\ c.calls = f.calls /\ c.white = f.white /\ c.tmudata = f.tmudata /\ c.unswept = f.unswept
        /\ c.phase = f.phase /\ c.gray = f.gray /\ c.grayagain = f.grayagain /\ c.weak = f.weak
    BY <1>4, <1>6, CloseGives
  <1> HIDE DEF c
  <1>8. us = dead \cup L /\ dead \cap L = {}
    BY DEF dead, L
  <1>9. ReleasedBy(h, c, dead, L)
    <2>1. ASSUME NEW o \in Objs
          PROVE  /\ o \in dead => c.color[o] = "free"
                 /\ o \notin dead => c.color[o] = h.color[o]
                 /\ c.key[o] = IF o \in dead THEN None ELSE h.key[o]
                 /\ c.val[o] = IF o \in dead THEN None ELSE IF o \in L THEN UpvalValue(h, o) ELSE h.val[o]
                 /\ c.at[o] = IF o \in dead \cup L THEN <<None, 0>> ELSE h.at[o]
                 /\ c.fin[o] = (o \notin dead /\ h.fin[o])
      BY <1>4, <1>6, <1>7, <1>8
    <2>2. \A o \in Threads : c.stack[o] = IF o \in dead THEN <<>> ELSE h.stack[o]
      BY <1>4, <1>7
    <2> QED
      BY <2>1, <2>2, <1>4, <1>7 DEF ReleasedBy
  <1>10. Sound(c) /\ Kept(c) = Kept(h) /\ Allocated(c) = Allocated(h) \ dead
    BY <1>2, <1>3, <1>9, ReleasedKeepsSound
  <1>11. \A o \in Objs : /\ c.color[o] = IF o \in dead THEN "free" ELSE h.color[o]
                         /\ c.at[o] = IF o \in us THEN <<None, 0>> ELSE h.at[o]
                         /\ o \notin us => c.val[o] = h.val[o]
                         /\ o \notin dead => c.key[o] = h.key[o]
    BY <1>4, <1>7, <1>8
  <1>12. Close(Free(h, dead), us \ dead) = c
    BY DEF c, f, L
  <1> QED
    BY <1>1, <1>4, <1>5, <1>7, <1>10, <1>11, <1>12 DEF dead, us

LEMMA ClosingKeeps ==
  ASSUME NEW h, Sound(h), Phase(h), NEW th \in Threads, th \in Kept(h), NEW level \in Nat
  PROVE  LET m == luaF_close(h, th, level) IN
         /\ Sound(m) /\ Phase(m) /\ Kept(m) = Kept(h) /\ Collects(h, m) /\ m.stack = h.stack
         /\ \A o \in Objs : IsOpen(m, o) /\ m.at[o][1] = th => m.at[o][2] < level
  <1> DEFINE us == OpenUpvals(h, th, level)
             dead == {u \in us : isdead(h, u)}
             c == Close(Free(h, dead), us \ dead)
             grays == {u \in us \ dead : c.color[u] = "gray"}
             m == luaF_close(h, th, level)
  <1>0. h \in GCState /\ Allocated(h) \subseteq Objs /\ None \notin Objs /\ dead \subseteq us /\ grays \subseteq us \ dead
    BY GCAssumption DEF Sound, Allocated
  <1>1. /\ Sound(c) /\ Kept(c) = Kept(h) /\ Allocated(c) = Allocated(h) \ dead
        /\ us \subseteq Allocated(h) /\ \A u \in us : IsOpen(h, u) /\ Kind[u] = "upval"
        /\ \A o \in Objs : /\ c.color[o] = IF o \in dead THEN "free" ELSE h.color[o]
                           /\ c.at[o] = IF o \in us THEN <<None, 0>> ELSE h.at[o]
                           /\ o \notin us => c.val[o] = h.val[o]
                           /\ o \notin dead => c.key[o] = h.key[o]
        /\ c.calls = h.calls /\ c.stack = h.stack /\ c.white = h.white /\ c.tmudata = h.tmudata
        /\ c.unswept = h.unswept /\ c.phase = h.phase /\ c.gray = h.gray /\ c.grayagain = h.grayagain
        /\ c.weak = h.weak
    BY ClosingReleases, SMTT(45)
  <1>2. m = IF c.phase = "propagate" THEN markobjects(Paint(c, grays, "black"), {c.val[u] : u \in grays})
            ELSE Paint(c, grays, c.white)
    BY DEF luaF_close, luaC_linkupval
  <1>3. \A u \in us : u \in Objs /\ ~IsOpen(c, u) /\ ~StaysGray(c, u)
    BY <1>0, <1>1, GCAssumption DEF IsOpen, StaysGray, Tables
  <1>4. \A o \in Objs : o \notin us => (IsOpen(c, o) <=> IsOpen(h, o)) /\ (o \in dead <=> FALSE)
    BY <1>0, <1>1 DEF IsOpen
  <1>5. grays \in SUBSET Kept(c) /\ \A u \in grays : c.color[u] = "gray"
    BY <1>1 DEF Kept
  <1>6. \A u \in dead : isdead(h, u)
    OBVIOUS
  <1>7. \A o \in Objs : IsOpen(h, o) /\ h.at[o][1] = th /\ o \notin us => h.at[o][2] < level
    <2>1. SUFFICES ASSUME NEW o \in Objs, IsOpen(h, o), h.at[o][1] = th, o \notin us PROVE h.at[o][2] < level
      OBVIOUS
    <2>2. h.at[o][2] \in Nat /\ Kind[o] = "upval" /\ o \in Allocated(h)
      BY <2>1, <1>0, Fields DEF Sound, Heap, OpenIsInStack
    <2>3. ~(h.at[o][2] >= level)
      BY <2>1, <2>2 DEF OpenUpvals
    <2> QED
      BY <2>2, <2>3
  <1> HIDE DEF us, dead, c, m
  <1>8. \A o \in Objs : IsOpen(c, o) /\ c.at[o][1] = th => c.at[o][2] < level
    BY <1>1, <1>3, <1>4, <1>7
  <1>9. Collects(h, c)
    BY <1>0, <1>1 DEF Collects
  <1>10. NoneDead(h) => NoneDead(c) /\ dead = {} /\ c.color = h.color
    <2>1. SUFFICES ASSUME NoneDead(h) PROVE NoneDead(c) /\ dead = {} /\ c.color = h.color
      OBVIOUS
    <2>2. dead = {}
      BY <2>1, <1>0, <1>1, <1>6 DEF NoneDead
    <2>3. c.color \in [Objs -> Colors] /\ h.color \in [Objs -> Colors]
      BY <1>0, <1>1, Fields DEF Sound
    <2>4. c.color = h.color
      BY <2>2, <2>3, <1>1
    <2> QED
      BY <2>1, <2>2, <2>4, <1>1 DEF NoneDead, isdead, otherwhite
  <1>11. CASE h.phase = "propagate"
    <2> DEFINE p == Paint(c, grays, "black")
               os == {c.val[u] : u \in grays}
    <2>1. c \in GCState /\ NoneDead(h) /\ Listed(h) /\ Tricolor(h) /\ NoneDead(c) /\ dead = {} /\ c.color = h.color
      BY <1>1, <1>10, <1>11 DEF Sound, Phase, Marking
    <2>2. PaintedBy(c, p, grays, "black") /\ SameRefs(c, p)
      BY <2>1, PaintGives DEF Colors
    <2>3. m = markobjects(p, os)
      BY <1>1, <1>2, <1>11
    <2>9. \A u \in grays : u \in us /\ u \in Objs /\ c.val[u] \in os /\ c.color[u] = "gray" /\ ~IsOpen(c, u) /\ Kind[u] = "upval"
      BY <1>0, <1>1, <1>3
    <2>10. \A u \in us : u \in Objs /\ h.color[u] = "gray" => u \in grays
      BY <2>1
    <2> HIDE DEF p, os, grays
    <2>4. Sound(p) /\ NoneDead(p) /\ Allocated(p) = Allocated(c)
      BY <2>1, <2>2, <2>9, <1>1, <1>3, <1>5, PaintedKeepsSound
    <2>5. /\ \A o \in Objs : p.color[o] = IF o \in grays THEN "black" ELSE h.color[o]
          /\ p.gray = h.gray /\ p.grayagain = h.grayagain /\ p.weak = h.weak /\ p.tmudata = h.tmudata
      BY <2>1, <2>2, <1>1 DEF PaintedBy, SameHeap
    <2>6. Marked(p) = Marked(h) /\ Whites(p) = Whites(h)
      BY <2>1, <2>5, <2>9 DEF Marked, Whites, IsWhite
    <2>7. Listed(p)
      <3>1. ASSUME NEW o \in Objs, p.color[o] = "gray"
            PROVE  Kind[o] = "string" \/ IsOpen(p, o) \/ o \in p.gray \cup p.grayagain \cup p.weak
        <4>1. o \notin grays /\ h.color[o] = "gray"
          BY <2>5, <3>1
        <4>2. o \notin us
          BY <4>1, <2>10
        <4>3. IsOpen(p, o) <=> IsOpen(h, o)
          BY <4>2, <2>2, <1>4, RefsAreSame
        <4> QED
          BY <4>1, <4>3, <2>1, <2>5 DEF Listed
      <3> QED
        BY <3>1, <2>1, <2>5, <2>6 DEF Listed
    <2>8. ASSUME NEW o \in Objs \ p.tmudata, p.color[o] = "black" PROVE Marks(p, o) \cap Whites(p) \subseteq os
      <3>0. Marks(p, o) = Marks(c, o)
        BY <2>2, RefsAreSame
      <3>1. CASE o \in grays
        <4>1. Marks(c, o) = {c.val[o]} \ {None}
          BY <3>1, <2>9 DEF Marks, UpvalValue
        <4> QED
          BY <3>0, <3>1, <4>1, <2>9
      <3>2. CASE o \notin grays
        <4>1. h.color[o] = "black" /\ o \notin h.tmudata
          BY <3>2, <2>5, <2>8
        <4>2. o \notin us
          BY <4>1, <1>1, <1>3 DEF Sound, Shades, StaysGray
        <4>3. Marks(c, o) = Marks(h, o)
          BY <4>2, <2>1, <1>1, SlotsAreSame
        <4> QED
          BY <3>0, <4>1, <4>3, <2>1, <2>6 DEF Tricolor
      <3> QED
        BY <3>1, <3>2
    <2>11. Sound(m) /\ Marking(m) /\ Recolored(p, m)
      BY <2>3, <2>4, <2>7, <2>8, BarrierMarks
    <2>12. /\ m.stack = h.stack /\ m.calls = h.calls /\ m.phase = h.phase /\ m.at = c.at
           /\ Marked(h) \subseteq Marked(m) /\ Allocated(m) = Allocated(h)
      BY <2>1, <2>2, <2>4, <2>6, <2>11, <1>1, RecoloredGrows DEF Sound, Recolored, SameHeap, PaintedBy
    <2>13. Kept(m) = Kept(h)
      BY <2>1, <2>11, <2>12 DEF Kept, NoneDead, Marking, Allocated
    <2>14. Phase(m)
      BY <2>11, <2>12, <1>11 DEF Phase
    <2>15. Collects(h, m)
      BY <2>12 DEF Collects
    <2> QED
      BY <2>11, <2>12, <2>13, <2>14, <2>15, <1>8 DEF IsOpen, m
  <1>12. CASE h.phase # "propagate"
    <2>1. m = Paint(c, grays, c.white) /\ c \in GCState /\ c.white \in {"w0", "w1"}
      BY <1>1, <1>2, <1>12, Fields DEF Sound
    <2>2. PaintedBy(c, m, grays, c.white) /\ SameRefs(c, m)
      BY <2>1, PaintGives DEF Colors
    <2>3. Sound(m) /\ Kept(m) = Kept(c) /\ Allocated(m) = Allocated(c) /\ (NoneDead(c) => NoneDead(m))
      BY <2>2, <1>1, <1>5, WhitenedKeepsSound
    <2>4. /\ \A o \in Objs : m.color[o] = IF o \in grays THEN h.white ELSE c.color[o]
          /\ m.stack = h.stack /\ m.calls = h.calls /\ m.phase = h.phase /\ m.at = c.at /\ m.white = h.white
          /\ m.tmudata = h.tmudata /\ m.unswept = h.unswept
      BY <2>2, <1>1 DEF PaintedBy, SameHeap
    <2>5. Clean(h) => Clean(m)
      <3>1. SUFFICES ASSUME Clean(h) PROVE Clean(m)
        OBVIOUS
      <3>2. NoneDead(m) /\ c.color = h.color
        BY <3>1, <2>3, <1>10 DEF Clean
      <3> QED
        BY <3>1, <3>2, <2>3, <2>4, <1>0, <1>1 DEF Clean
    <2>6. Sweeping(h) => Sweeping(m)
      <3>1. SUFFICES ASSUME Sweeping(h) PROVE Sweeping(m)
        OBVIOUS
      <3>2. \A o \in m.unswept : o \in Objs /\ o \in Allocated(m) /\ ~IsOpen(m, o)
        <4>1. SUFFICES ASSUME NEW o \in h.unswept PROVE o \in Objs /\ o \in Allocated(m) /\ ~IsOpen(m, o)
          BY <2>4
        <4>2. o \in Allocated(h) /\ o \in Objs /\ ~IsOpen(h, o)
          BY <3>1, <1>0 DEF Sweeping
        <4>3. o \notin us
          BY <4>2, <1>1
        <4> QED
          BY <4>2, <4>3, <2>3, <2>4, <1>0, <1>1, <1>4 DEF IsOpen
      <3>3. ASSUME NEW o \in Allocated(m) \ (m.tmudata \cup m.unswept)
            PROVE  m.color[o] = m.white \/ (IsOpen(m, o) /\ m.at[o][1] \in m.unswept)
        <4>0. o \in Objs /\ o \in Allocated(h) /\ o \notin dead /\ o \notin h.tmudata \cup h.unswept
          BY <3>3, <2>3, <2>4, <1>0, <1>1
        <4>1. CASE o \in us
          <5>1. IsOpen(h, o) /\ c.color[o] = h.color[o] /\ o \in Kept(c)
            BY <4>0, <4>1, <1>1, <1>0 DEF Kept, dead
          <5>2. h.color[o] # "black" /\ h.color[o] # otherwhite(h) /\ h.color[o] # "free" /\ h.color[o] \in Colors
            BY <4>0, <5>1, <1>0, <1>1, Fields DEF Sound, Shades, StaysGray, Heap, OpenIsInStack, Kept, isdead, Allocated
          <5>3. h.color[o] = "gray" \/ h.color[o] = h.white
            BY <5>2, <1>0, Fields DEF otherwhite, Colors
          <5> QED
            BY <5>1, <5>3, <4>0, <4>1, <2>4
        <4>2. CASE o \notin us
          <5>1. m.color[o] = h.color[o] /\ m.at[o] = h.at[o]
            BY <4>0, <4>2, <2>4, <1>0, <1>1
          <5> QED
            BY <5>1, <4>0, <2>4, <3>1 DEF Sweeping, IsOpen
        <4> QED
          BY <4>1, <4>2
      <3> QED
        BY <3>2, <3>3 DEF Sweeping
    <2>7. Phase(m)
      BY <2>4, <2>5, <2>6, <1>12 DEF Phase
    <2>8. Collects(h, m)
      BY <2>3, <2>4, <1>1, <1>9 DEF Collects
    <2> QED
      BY <2>3, <2>4, <2>7, <2>8, <1>1, <1>8 DEF IsOpen, m
  <1> QED
    BY <1>11, <1>12

\* A userdata's environment or a closed upvalue is assigned: a black one marks
\* what it was given, or waits to be swept as white.
LEMMA AssignedKeeps ==
  ASSUME NEW h, Sound(h), Phase(h), NEW u \in Kept(h), Kind[u] \in {"udata", "upval"}, ~IsOpen(h, u),
         NEW v, v = None \/ v \in Kept(h)
  PROVE  LET m == luaC_barrier([h EXCEPT !.val[u] = v], u, v) IN
         Sound(m) /\ Phase(m) /\ Kept(m) = Kept(h) /\ Allocated(m) = Allocated(h) /\ m.calls = h.calls
  <1> DEFINE w == [h EXCEPT !.val[u] = v]
             m == luaC_barrier(w, u, v)
  <1> SUFFICES Sound(m) /\ Phase(m) /\ Kept(m) = Kept(h) /\ Allocated(m) = Allocated(h) /\ m.calls = h.calls
    OBVIOUS
  <1>0. h \in GCState /\ u \in Objs /\ v \in Values /\ None \notin Objs /\ u \in Allocated(h)
        /\ Kept(h) \subseteq Objs
    BY GCAssumption DEF Sound, Kept, Allocated, Values
  <1>1. /\ SameShades(h, w) /\ w.key = h.key /\ w.stack = h.stack
        /\ \A o \in Objs : w.val[o] = IF o = u THEN v ELSE h.val[o]
    <2>1. w \in GCState
      BY <1>0 DEF GCState
    <2> QED
      BY <1>0, <2>1 DEF GCState, SameShades
  <1> HIDE DEF w
  <1>2. \A o \in Objs : o # u => AllRefs(w, o) = AllRefs(h, o) /\ Marks(w, o) = Marks(h, o)
    BY <1>1, SlotsAreSame DEF SameShades
  <1>3. \A o \in Objs : IsOpen(w, o) <=> IsOpen(h, o)
    BY <1>1 DEF IsOpen, SameShades
  <1>4. Marks(w, u) = {v} \ {None} /\ AllRefs(w, u) = {v} \ {None}
    BY <1>0, <1>1, <1>3 DEF Marks, AllRefs, UpvalValue
  <1>5. Heap(w)
    <2>1. FreeIsClean(w)
      BY <1>0, <1>1 DEF Sound, Heap, FreeIsClean, SameShades, Allocated
    <2>2. OpenIsInStack(w)
      BY <1>1, <1>3 DEF Sound, Heap, OpenIsInStack, SameShades, Allocated
    <2>3. FunctionsHaveUpvals(w)
      BY <1>1 DEF Sound, Heap, FunctionsHaveUpvals, SameShades, Allocated
    <2> QED
      BY <2>1, <2>2, <2>3 DEF Heap
  <1>6. \A o \in Kept(h) : AllRefs(w, o) \subseteq Kept(h)
    BY <1>0, <1>2, <1>4 DEF Sound, KeptIsClosed
  <1>7. /\ Sound(w) /\ Kept(w) = Kept(h) /\ Allocated(w) = Allocated(h) /\ Whites(w) = Whites(h)
        /\ Marked(w) = Marked(h)
        /\ (NoneDead(h) => NoneDead(w)) /\ (Listed(h) => Listed(w)) /\ (Clean(h) => Clean(w))
        /\ (Sweeping(h) => Sweeping(w))
    BY <1>1, <1>5, <1>6, RewrittenKeeps
  <1>8. w.calls = h.calls /\ w.phase = h.phase /\ w.color = h.color /\ w.tmudata = h.tmudata
    BY <1>1 DEF SameShades
  <1>9. CASE ~NeedsBarrier(w, u, v)
    <2>1. m = w
      BY <1>9 DEF luaC_barrier
    <2>2. \A o \in Objs \ h.tmudata : h.phase = "propagate" /\ h.color[o] = "black" => Marks(w, o) \cap Whites(h) = {}
      <3>1. SUFFICES ASSUME NEW o \in Objs \ h.tmudata, h.phase = "propagate", h.color[o] = "black"
                     PROVE  Marks(w, o) \cap Whites(h) = {}
        OBVIOUS
      <3>2. CASE o = u
        BY <3>1, <3>2, <1>4, <1>7, <1>8, <1>9 DEF NeedsBarrier, Whites
      <3>3. CASE o # u
        BY <3>1, <3>3, <1>2 DEF Phase, Marking, Tricolor
      <3> QED
        BY <3>2, <3>3
    <2>3. Phase(w)
      BY <2>2, <1>1, <1>5, <1>6, RewrittenPhase
    <2> QED
      BY <2>1, <2>3, <1>7, <1>8
  <1>10. CASE NeedsBarrier(w, u, v) /\ h.phase = "propagate"
    <2>1. m = markobjects(w, {v})
      BY <1>8, <1>10 DEF luaC_barrier, luaC_barrierf
    <2>2. NoneDead(w) /\ Listed(w) /\ Tricolor(h) /\ Main \in Marked(w)
      BY <1>7, <1>10 DEF Phase, Marking
    <2>3. \A o \in Objs \ w.tmudata : w.color[o] = "black" => Marks(w, o) \cap Whites(w) \subseteq {v}
      <3>1. SUFFICES ASSUME NEW o \in Objs \ h.tmudata, h.color[o] = "black"
                     PROVE  Marks(w, o) \cap Whites(h) \subseteq {v}
        BY <1>7, <1>8
      <3> QED
        BY <3>1, <2>2, <1>2, <1>4 DEF Tricolor
    <2>4. Sound(m) /\ Marking(m) /\ Recolored(w, m)
      BY <2>1, <2>2, <2>3, <1>7, BarrierMarks
    <2> HIDE DEF m
    <2>5. Allocated(m) = Allocated(h) /\ Main \in Marked(m) /\ m.calls = h.calls /\ m.phase = h.phase
      BY <2>2, <2>4, <1>7, <1>8, RecoloredGrows DEF Sound, Recolored, SameHeap
    <2>6. Kept(m) = Kept(h)
      BY <2>2, <2>4, <2>5, <1>7 DEF Kept, NoneDead, Marking, Allocated
    <2>7. Phase(m)
      BY <2>4, <2>5, <1>10 DEF Phase
    <2> QED
      BY <2>4, <2>5, <2>6, <2>7
  <1>11. CASE NeedsBarrier(w, u, v) /\ h.phase # "propagate"
    <2>1. m = Paint(w, {u}, w.white) /\ w \in GCState /\ w.white \in Colors
      BY <1>7, <1>8, <1>11, Fields DEF luaC_barrier, luaC_barrierf, Sound, Colors
    <2>2. PaintedBy(w, m, {u}, w.white)
      BY <2>1, PaintGives
    <2> HIDE DEF m
    <2>3. Sound(m) /\ Kept(m) = Kept(w) /\ Allocated(m) = Allocated(w) /\ (NoneDead(w) => NoneDead(m))
      BY <2>2, <1>7, WhitenedKeepsSound
    <2>4. /\ m.calls = h.calls /\ m.phase = h.phase /\ m.white = w.white /\ m.tmudata = w.tmudata
          /\ m.unswept = w.unswept /\ m.at = w.at
          /\ \A o \in Objs : m.color[o] = IF o = u THEN w.white ELSE w.color[o]
      BY <2>2, <1>8 DEF PaintedBy, SameHeap
    <2>5. Clean(h) => Clean(m)
      BY <2>3, <2>4, <1>7 DEF Clean, Allocated
    <2>6. Sweeping(h) => Sweeping(m)
      BY <2>3, <2>4, <1>7 DEF Sweeping, Allocated, IsOpen
    <2>7. Phase(m)
      BY <2>4, <2>5, <2>6, <1>8, <1>11 DEF Phase
    <2> QED
      BY <2>3, <2>4, <2>7, <1>7
  <1> QED
    BY <1>9, <1>10, <1>11

\* An entry is assigned: a black table is traversed again.
Entered(h, o, k, v) ==
  luaC_barriert(luaC_barriert([h EXCEPT !.key[o] = k, !.val[o] = v], o, k), o, v)

LEMMA EntryKeeps ==
  ASSUME NEW h, Sound(h), Phase(h), NEW o \in Kept(h), Kind[o] = "table",
         NEW k, k = None \/ k \in Kept(h), NEW v, v = None \/ v \in Kept(h)
  PROVE  LET m == Entered(h, o, k, v) IN
         Sound(m) /\ Phase(m) /\ Kept(m) = Kept(h) /\ Allocated(m) = Allocated(h) /\ m.calls = h.calls
  <1> DEFINE w == [h EXCEPT !.key[o] = k, !.val[o] = v]
             needs == NeedsBarrier(w, o, k) \/ NeedsBarrier(w, o, v)
             b == luaC_barrierback(w, o)
             m == luaC_barriert(luaC_barriert(w, o, k), o, v)
  <1> SUFFICES Sound(m) /\ Phase(m) /\ Kept(m) = Kept(h) /\ Allocated(m) = Allocated(h) /\ m.calls = h.calls
    BY DEF Entered
  <1>0. h \in GCState /\ o \in Objs /\ v \in Values /\ k \in Values /\ None \notin Objs /\ o \in Allocated(h)
        /\ Kept(h) \subseteq Objs
    BY GCAssumption DEF Sound, Kept, Allocated, Values
  <1>1. /\ SameShades(h, w) /\ w.stack = h.stack
        /\ \A x \in Objs : /\ w.val[x] = IF x = o THEN v ELSE h.val[x]
                           /\ w.key[x] = IF x = o THEN k ELSE h.key[x]
    <2>1. w \in GCState
      BY <1>0 DEF GCState
    <2> QED
      BY <1>0, <2>1 DEF GCState, SameShades
  <1> HIDE DEF w
  <1>2. \A x \in Objs : x # o => AllRefs(w, x) = AllRefs(h, x) /\ Marks(w, x) = Marks(h, x)
    BY <1>1, SlotsAreSame DEF SameShades
  <1>3. \A x \in Objs : IsOpen(w, x) <=> IsOpen(h, x)
    BY <1>1 DEF IsOpen, SameShades
  <1>4. Marks(w, o) \subseteq {k, v} \ {None} /\ AllRefs(w, o) \subseteq {k, v} \ {None}
    BY <1>0, <1>1 DEF Marks, AllRefs, EntryRefs, StrongRefs
  <1>5. Heap(w)
    <2>1. FreeIsClean(w)
      BY <1>0, <1>1 DEF Sound, Heap, FreeIsClean, SameShades, Allocated
    <2>2. OpenIsInStack(w)
      BY <1>1, <1>3 DEF Sound, Heap, OpenIsInStack, SameShades, Allocated
    <2>3. FunctionsHaveUpvals(w)
      BY <1>1 DEF Sound, Heap, FunctionsHaveUpvals, SameShades, Allocated
    <2> QED
      BY <2>1, <2>2, <2>3 DEF Heap
  <1>6. \A x \in Kept(h) : AllRefs(w, x) \subseteq Kept(h)
    BY <1>0, <1>2, <1>4 DEF Sound, KeptIsClosed
  <1>7. /\ Sound(w) /\ Kept(w) = Kept(h) /\ Allocated(w) = Allocated(h) /\ Whites(w) = Whites(h)
        /\ Marked(w) = Marked(h)
        /\ (NoneDead(h) => NoneDead(w)) /\ (Listed(h) => Listed(w)) /\ (Clean(h) => Clean(w))
        /\ (Sweeping(h) => Sweeping(w))
    BY <1>1, <1>5, <1>6, RewrittenKeeps
  <1>8. w.calls = h.calls /\ w.phase = h.phase /\ w.color = h.color /\ w.tmudata = h.tmudata
    BY <1>1 DEF SameShades
  <1>9. w \in GCState
    BY <1>7 DEF Sound
  <1>10. /\ PaintedBy(w, Paint(w, {o}, "gray"), {o}, "gray")
         /\ b = [Paint(w, {o}, "gray") EXCEPT !.grayagain = Paint(w, {o}, "gray").grayagain \cup {o}]
    BY <1>9, PaintGives DEF Colors, luaC_barrierback
  <1>11. m = IF needs THEN b ELSE w
    <2>1. w.color[o] = "black" => ~NeedsBarrier(b, o, v)
      <3>1. b.color[o] = "gray"
        BY <1>0, <1>9, <1>10 DEF PaintedBy, SameHeap, GCState
      <3> QED
        BY <3>1 DEF NeedsBarrier
    <2>2. NeedsBarrier(w, o, k) => w.color[o] = "black"
      BY DEF NeedsBarrier
    <2> HIDE DEF b
    <2> QED
      BY <2>1, <2>2 DEF luaC_barriert, b
  <1>12. CASE ~needs
    <2>1. m = w
      BY <1>11, <1>12
    <2>2. \A x \in Objs \ h.tmudata : h.phase = "propagate" /\ h.color[x] = "black" => Marks(w, x) \cap Whites(h) = {}
      <3>1. SUFFICES ASSUME NEW x \in Objs \ h.tmudata, h.phase = "propagate", h.color[x] = "black"
                     PROVE  Marks(w, x) \cap Whites(h) = {}
        OBVIOUS
      <3>2. CASE x = o
        BY <3>1, <3>2, <1>4, <1>7, <1>8, <1>12 DEF NeedsBarrier, Whites
      <3>3. CASE x # o
        BY <3>1, <3>3, <1>2 DEF Phase, Marking, Tricolor
      <3> QED
        BY <3>2, <3>3
    <2>3. Phase(w)
      BY <2>2, <1>1, <1>5, <1>6, RewrittenPhase
    <2> QED
      BY <2>1, <2>3, <1>7, <1>8
  <1>13. CASE needs
    <2> DEFINE p == Paint(w, {o}, "gray")
    <2>1. m = b /\ w.color[o] = "black"
      BY <1>11, <1>13 DEF NeedsBarrier
    <2>2. PaintedBy(w, p, {o}, "gray") /\ b = [p EXCEPT !.grayagain = p.grayagain \cup {o}]
      BY <1>10
    <2> HIDE DEF p, b, m, needs
    <2>3. {o} \in SUBSET Kept(w) /\ \A x \in {o} : Kind[x] # "udata"
      BY <1>7
    <2>4. Sound(p) /\ Kept(p) = Kept(w) /\ Allocated(p) = Allocated(w) /\ (NoneDead(w) => NoneDead(p))
      BY <2>2, <2>3, <1>7, PaintedKeepsSound
    <2>5. /\ p \in GCState /\ p.calls = w.calls /\ p.phase = w.phase /\ p.white = w.white /\ p.tmudata = w.tmudata
          /\ p.unswept = w.unswept /\ p.at = w.at /\ p.gray = w.gray /\ p.weak = w.weak /\ p.grayagain = w.grayagain
          /\ \A x \in Objs : p.color[x] = IF x = o THEN "gray" ELSE w.color[x]
          /\ SameRefs(w, p)
      BY <2>2 DEF PaintedBy, SameHeap, SameRefs
    <2>6. /\ SameObjects(p, b) /\ b.gray = w.gray /\ b.weak = w.weak /\ b.grayagain = w.grayagain \cup {o}
          /\ b.phase = w.phase /\ b.unswept = w.unswept
      <3>1. b \in GCState
        BY <1>0, <2>2, <2>5 DEF GCState
      <3> QED
        BY <3>1, <2>2, <2>5 DEF GCState, SameObjects
    <2>7. Sound(b) /\ SameRefs(p, b) /\ Allocated(b) = Allocated(h) /\ Kept(b) = Kept(h) /\ (NoneDead(p) => NoneDead(b))
      BY <2>4, <2>6, <1>7, SameObjectsSound
    <2>8. /\ b.color = p.color /\ b.white = w.white /\ b.tmudata = w.tmudata /\ b.at = w.at /\ b.calls = w.calls
      BY <2>5, <2>6 DEF SameObjects
    <2>9. \A x \in Objs : Marks(b, x) = Marks(w, x) /\ (IsOpen(b, x) <=> IsOpen(w, x))
      BY <2>5, <2>7, RefsAreSame
    <2>10. o \notin h.tmudata /\ Weak[o] = {} /\ ~IsOpen(h, o)
      BY <2>1, <1>0, <1>8 DEF Sound, Finalizers, Shades, StaysGray, Heap, OpenIsInStack
    <2>11. h.white \in {"w0", "w1"}
      BY <1>0, Fields
    <2>12. ~Clean(h)
      BY <2>1, <2>10, <2>11, <1>0, <1>8 DEF Clean
    <2>13. Sweeping(h) => Sweeping(b)
      <3>1. SUFFICES ASSUME Sweeping(w) PROVE Sweeping(b)
        BY <1>7
      <3>2. o \in w.unswept
        BY <3>1, <2>1, <2>10, <2>11, <1>0, <1>1, <1>3, <1>7 DEF Sweeping, SameShades
      <3>3. Allocated(b) = Allocated(w) /\ Allocated(w) \subseteq Objs
        BY <2>7, <1>7 DEF Allocated
      <3>4. \A x \in Objs : x # o => b.color[x] = w.color[x]
        BY <2>5, <2>8
      <3> QED
        BY <3>1, <3>2, <3>3, <3>4, <2>6, <2>8, <2>9 DEF Sweeping
    <2>14. Marking(h) => Marking(b)
      <3>1. SUFFICES ASSUME Marking(h) PROVE NoneDead(b) /\ Listed(b) /\ Tricolor(b)
        BY DEF Marking
      <3>2. NoneDead(w) /\ Listed(w) /\ Tricolor(h)
        BY <3>1, <1>7 DEF Marking
      <3>3. Marked(b) = Marked(w) /\ Whites(b) = Whites(w)
        BY <2>1, <2>5, <2>8 DEF Marked, Whites, IsWhite
      <3>4. o \in Marked(b)
        BY <2>5, <2>8, <1>0 DEF Marked
      <3>5. Listed(b)
        <4>1. ASSUME NEW x \in Objs, b.color[x] = "gray"
              PROVE  Kind[x] = "string" \/ IsOpen(b, x) \/ x \in b.gray \cup b.grayagain \cup b.weak
          <5>1. x # o => w.color[x] = "gray"
            BY <4>1, <2>5, <2>8
          <5> QED
            BY <5>1, <3>2, <2>6, <2>9, <4>1 DEF Listed
        <4>2. b.gray \cup b.grayagain \cup b.weak \subseteq Marked(b)
          BY <3>2, <3>3, <3>4, <2>6 DEF Listed
        <4>3. (\A x \in b.grayagain : Weak[x] = {}) /\ (\A x \in b.weak : Weak[x] # {})
          BY <3>2, <2>6, <2>10 DEF Listed
        <4> QED
          BY <4>1, <4>2, <4>3 DEF Listed
      <3>6. ASSUME NEW x \in Objs \ b.tmudata, b.color[x] = "black" PROVE Marks(b, x) \cap Whites(b) = {}
        <4>1. x # o /\ h.color[x] = "black" /\ x \notin h.tmudata
          BY <3>6, <2>5, <2>8, <1>8
        <4> QED
          BY <4>1, <3>2, <3>3, <2>9, <1>2, <1>7 DEF Tricolor
      <3> QED
        BY <3>2, <3>5, <3>6, <2>4, <2>7 DEF Tricolor
    <2>15. Phase(b)
      <3>1. Main \in Marked(h) => Main \in Marked(b)
        BY <2>5, <2>8, <1>8 DEF Marked
      <3> QED
        BY <3>1, <2>6, <2>12, <2>13, <2>14, <1>8 DEF Phase
    <2> QED
      BY <2>1, <2>7, <2>8, <2>15, <1>8 DEF m
  <1> QED
    BY <1>12, <1>13

-----------------------------------------------------------------------------
(* Stacks                                                                      *)

LEMMA AppendGives ==
  ASSUME NEW S, NEW s \in Seq(S), NEW v \in S
  PROVE  /\ Append(s, v) \in Seq(S) /\ Range(Append(s, v)) \subseteq Range(s) \cup {v}
         /\ \A i \in DOMAIN s : i \in DOMAIN Append(s, v) /\ Append(s, v)[i] = s[i]
  BY DEF Range

LEMMA FrontGives ==
  ASSUME NEW S, NEW s \in Seq(S), s # <<>>
  PROVE  /\ Front(s) \in Seq(S) /\ Range(Front(s)) \subseteq Range(s) /\ Last(s) \in Range(s)
         /\ Len(s) \in Nat \ {0}
         /\ \A i \in DOMAIN s : i < Len(s) => i \in DOMAIN Front(s) /\ Front(s)[i] = s[i]
  <1>1. Len(s) \in Nat \ {0} /\ DOMAIN s = 1 .. Len(s)
    OBVIOUS
  <1>2. /\ Front(s) \in Seq(S) /\ Len(Front(s)) = Len(s) - 1
        /\ \A i \in 1 .. Len(s) - 1 : Front(s)[i] = s[i]
    BY <1>1 DEF Front
  <1>3. DOMAIN Front(s) = 1 .. Len(s) - 1
    BY <1>1, <1>2
  <1>4. Last(s) \in Range(s)
    BY <1>1 DEF Last, Range
  <1> QED
    BY <1>1, <1>2, <1>3, <1>4 DEF Range

\* What is on the stack of a kept thread, and what its upvalues see.
LEMMA StackIsKept ==
  ASSUME NEW h, Sound(h), NEW th \in Threads
  PROVE  /\ h.stack[th] \in Seq(Values)
         /\ th \in Kept(h) => Range(h.stack[th]) \ {None} \subseteq Kept(h)
         /\ \A o \in Objs : IsOpen(h, o) /\ h.at[o][1] = th =>
              /\ h.at[o][2] \in DOMAIN h.stack[th]
              /\ o \in Kept(h) => h.stack[th][h.at[o][2]] = None \/ h.stack[th][h.at[o][2]] \in Kept(h)
  <1>1. h.stack[th] \in Seq(Values)
    BY Fields DEF Sound
  <1>2. th \in Kept(h) => Range(h.stack[th]) \ {None} \subseteq Kept(h)
    BY DEF Sound, KeptIsClosed, AllRefs, Marks, Threads
  <1>3. ASSUME NEW o \in Objs, IsOpen(h, o), h.at[o][1] = th
        PROVE  /\ h.at[o][2] \in DOMAIN h.stack[th]
               /\ o \in Kept(h) => h.stack[th][h.at[o][2]] = None \/ h.stack[th][h.at[o][2]] \in Kept(h)
    <2>1. Kind[o] = "upval" /\ h.at[o][2] \in DOMAIN h.stack[th]
      BY <1>3 DEF Sound, Heap, OpenIsInStack
    <2>2. UpvalValue(h, o) = h.stack[th][h.at[o][2]]
      BY <1>3 DEF UpvalValue
    <2> QED
      BY <2>1, <2>2, UpvalValueIsKept
  <1> QED
    BY <1>1, <1>2, <1>3

LEMMA PushKeeps ==
  ASSUME NEW h, Sound(h), Phase(h), NEW th \in Threads, th \in Kept(h), NEW v, v = None \/ v \in Kept(h)
  PROVE  LET m == PushObject(h, th, v) IN
         /\ Sound(m) /\ Phase(m) /\ Kept(m) = Kept(h) /\ Allocated(m) = Allocated(h) /\ m.calls = h.calls
  <1> DEFINE s == Append(h.stack[th], v)
             m == PushObject(h, th, v)
  <1>0. h \in GCState /\ th \in Allocated(h) /\ v \in Values
    BY DEF Sound, Kept, Allocated, Values
  <1>1. m = [h EXCEPT !.stack[th] = s]
    BY DEF PushObject
  <1>2. /\ s \in Seq(Values) /\ Range(s) \subseteq Range(h.stack[th]) \cup {v}
        /\ \A i \in DOMAIN h.stack[th] : i \in DOMAIN s /\ s[i] = h.stack[th][i]
    BY <1>0, StackIsKept, AppendGives
  <1> HIDE DEF s, m
  <1>3. th \in Kept(h) => Range(s) \ {None} \subseteq Kept(h)
    BY <1>2, StackIsKept
  <1>4. \A o \in Objs : IsOpen(h, o) /\ h.at[o][1] = th =>
          /\ h.at[o][2] \in DOMAIN s
          /\ o \in Kept(h) => s[h.at[o][2]] = None \/ s[h.at[o][2]] \in Kept(h)
    BY <1>2, StackIsKept
  <1>5. /\ SameShades(h, m) /\ m.key = h.key /\ m.val = h.val
        /\ \A t \in Threads : m.stack[t] = IF t = th THEN s ELSE h.stack[t]
    <2>1. m \in GCState
      BY <1>0, <1>1, <1>2 DEF GCState
    <2> QED
      BY <1>0, <1>1, <2>1 DEF GCState, SameShades
  <1>6. Sound(m) /\ Phase(m) /\ Kept(m) = Kept(h) /\ Allocated(m) = Allocated(h)
    BY <1>0, <1>2, <1>3, <1>4, <1>5, StackedKeeps
  <1> QED
    BY <1>5, <1>6 DEF SameShades, m

LEMMA PopKeeps ==
  ASSUME NEW h, Sound(h), Phase(h), NEW th \in Threads, th \in Kept(h), h.stack[th] # <<>>,
         \A o \in Objs : IsOpen(h, o) /\ h.at[o][1] = th => h.at[o][2] < Len(h.stack[th])
  PROVE  LET m == Pop(h, th) IN
         /\ Sound(m) /\ Phase(m) /\ Kept(m) = Kept(h) /\ Allocated(m) = Allocated(h) /\ m.calls = h.calls
  <1> DEFINE s == Front(h.stack[th])
             m == Pop(h, th)
  <1>0. h \in GCState /\ th \in Allocated(h)
    BY DEF Sound, Kept, Allocated
  <1>1. m = [h EXCEPT !.stack[th] = s]
    BY DEF Pop
  <1>2. /\ s \in Seq(Values) /\ Range(s) \subseteq Range(h.stack[th])
        /\ \A i \in DOMAIN h.stack[th] : i < Len(h.stack[th]) => i \in DOMAIN s /\ s[i] = h.stack[th][i]
    BY <1>0, StackIsKept, FrontGives
  <1> HIDE DEF s, m
  <1>3. th \in Kept(h) => Range(s) \ {None} \subseteq Kept(h)
    BY <1>2, StackIsKept
  <1>4. \A o \in Objs : IsOpen(h, o) /\ h.at[o][1] = th =>
          /\ h.at[o][2] \in DOMAIN s
          /\ o \in Kept(h) => s[h.at[o][2]] = None \/ s[h.at[o][2]] \in Kept(h)
    BY <1>2, StackIsKept
  <1>5. /\ SameShades(h, m) /\ m.key = h.key /\ m.val = h.val
        /\ \A t \in Threads : m.stack[t] = IF t = th THEN s ELSE h.stack[t]
    <2>1. m \in GCState
      BY <1>0, <1>1, <1>2 DEF GCState
    <2> QED
      BY <1>0, <1>1, <2>1 DEF GCState, SameShades
  <1>6. Sound(m) /\ Phase(m) /\ Kept(m) = Kept(h) /\ Allocated(m) = Allocated(h)
    BY <1>0, <1>2, <1>3, <1>4, <1>5, StackedKeeps
  <1> QED
    BY <1>5, <1>6 DEF SameShades, m

\* An open upvalue writes into the stack of its thread, which may be dead.
LEMMA OpenKeeps ==
  ASSUME NEW h, Sound(h), Phase(h), NEW u \in Kept(h), Kind[u] = "upval", IsOpen(h, u),
         NEW v, v = None \/ v \in Kept(h)
  PROVE  LET m == luaC_barrier(Assigned(h, u, v), u, v) IN
         /\ Sound(m) /\ Phase(m) /\ Kept(m) = Kept(h) /\ Allocated(m) = Allocated(h) /\ m.calls = h.calls
  <1> DEFINE th == h.at[u][1]
             level == h.at[u][2]
             s == [h.stack[th] EXCEPT ![level] = v]
             m == [h EXCEPT !.stack[th] = s]
  <1>0. h \in GCState /\ u \in Objs /\ v \in Values
    BY DEF Sound, Kept, Allocated, Values
  <1>1. th \in Threads /\ th \in Allocated(h) /\ level \in DOMAIN h.stack[th]
    BY <1>0, Fields DEF Sound, Heap, OpenIsInStack, IsOpen
  <1>2. h.stack[th] \in Seq(Values)
    BY <1>1, StackIsKept
  <1>3. Assigned(h, u, v) = m
    BY <1>0 DEF Assigned
  <1> HIDE DEF th, level
  <1>4. /\ s \in Seq(Values) /\ Range(s) \subseteq Range(h.stack[th]) \cup {v}
        /\ DOMAIN s = DOMAIN h.stack[th]
        /\ \A i \in DOMAIN h.stack[th] : s[i] = IF i = level THEN v ELSE h.stack[th][i]
    BY <1>0, <1>1, <1>2 DEF Range
  <1> HIDE DEF s, m
  <1>5. th \in Kept(h) => Range(s) \ {None} \subseteq Kept(h)
    BY <1>1, <1>4, StackIsKept
  <1>6. \A o \in Objs : IsOpen(h, o) /\ h.at[o][1] = th =>
          /\ h.at[o][2] \in DOMAIN s
          /\ o \in Kept(h) => s[h.at[o][2]] = None \/ s[h.at[o][2]] \in Kept(h)
    BY <1>1, <1>4, StackIsKept
  <1>7. /\ SameShades(h, m) /\ m.key = h.key /\ m.val = h.val
        /\ \A t \in Threads : m.stack[t] = IF t = th THEN s ELSE h.stack[t]
    <2>1. m \in GCState
      BY <1>0, <1>1, <1>4 DEF GCState, m
    <2> QED
      BY <1>0, <1>1, <2>1 DEF GCState, SameShades, m
  <1>8. Sound(m) /\ Phase(m) /\ Kept(m) = Kept(h) /\ Allocated(m) = Allocated(h) /\ m.calls = h.calls
    <2>1. Sound(m) /\ Phase(m) /\ Kept(m) = Kept(h) /\ Allocated(m) = Allocated(h)
      BY <1>1, <1>4, <1>5, <1>6, <1>7, StackedKeeps
    <2> QED
      BY <2>1, <1>7 DEF SameShades
  <1>9. luaC_barrier(m, u, v) = m
    <2>1. h.color[u] # "black"
      BY <1>0 DEF Sound, Shades, StaysGray
    <2> QED
      BY <2>1, <1>7 DEF SameShades, luaC_barrier, NeedsBarrier
  <1> QED
    BY <1>3, <1>8, <1>9

-----------------------------------------------------------------------------
(* Every step keeps the invariant                                              *)

\* The heap m may follow: it is sound, in the pool, and what it lacks was finalized.
Follows(m) ==
  /\ Sound(m) /\ Phase(m) /\ Allocated(m) \subseteq pool
  /\ \A o \in Allocated(g) \ Allocated(m) : Kind[o] = "udata" => m.calls[o] = 1

LEMMA CollectedFollows ==
  ASSUME GCInv, NEW m, Sound(m), Phase(m), Collects(g, m)
  PROVE  Follows(m)
  BY DEF GCInv, Follows, Collects

LEMMA KeptFollows ==
  ASSUME GCInv, NEW h, Allocated(g) \subseteq Allocated(h), Allocated(h) \subseteq pool,
         NEW m, Sound(m), Phase(m), Allocated(m) = Allocated(h)
  PROVE  Follows(m)
  BY DEF GCInv, Follows

\* The program runs on threads that are kept, with what is on their stacks.
LEMMA ProgramIsKept ==
  ASSUME GCInv
  PROVE  /\ Running \subseteq Threads \cap Kept(g) /\ Main \in Kept(g) /\ Main \in Threads
         /\ \A th \in Threads : th \in Kept(g) => OnStack(th) \subseteq Kept(g)
         /\ Kept(g) \subseteq Allocated(g) /\ Allocated(g) \subseteq Objs /\ None \notin Objs
         /\ Sound(g) /\ Phase(g) /\ g \in GCState /\ pool \subseteq Objs /\ Allocated(g) \subseteq pool
  <1>1. Sound(g) /\ Phase(g) /\ g \in GCState /\ pool \subseteq Objs /\ Allocated(g) \subseteq pool
    BY DEF GCInv, Sound
  <1>2. Main \in Threads /\ Main \in Kept(g) /\ None \notin Objs
    BY <1>1, GCAssumption DEF Sound, KeptIsClosed
  <1>3. \A th \in Threads : th \in Kept(g) => OnStack(th) \subseteq Kept(g)
    BY <1>1, StackIsKept DEF OnStack
  <1>4. Running \subseteq Threads \cap Kept(g)
    BY <1>2, <1>3 DEF Running
  <1> QED
    BY <1>1, <1>2, <1>3, <1>4 DEF Kept, Allocated

\* A new object is white and empty.
LEMMA LinkGives ==
  ASSUME NEW h, Sound(h), NEW o \in Objs, h.color[o] = "free"
  PROVE  LinkedBy(h, luaC_link(h, o), o, None, <<None, 0>>)
  <1> DEFINE m == luaC_link(h, o)
  <1>0. h \in GCState /\ h.white \in Colors
    BY Fields DEF Sound, Colors
  <1>1. m = [h EXCEPT !.color[o] = h.white, !.calls[o] = 0]
    BY DEF luaC_link
  <1>2. m \in GCState
    BY <1>0 DEF luaC_link, GCState
  <1> HIDE DEF m
  <1>3. h.val[o] = None /\ h.at[o] = <<None, 0>>
    BY DEF Sound, Heap, FreeIsClean
  <1>4. /\ m.key = h.key /\ m.val = h.val /\ m.at = h.at /\ m.fin = h.fin /\ m.stack = h.stack
        /\ m.phase = h.phase /\ m.white = h.white /\ m.gray = h.gray /\ m.grayagain = h.grayagain
        /\ m.weak = h.weak /\ m.tmudata = h.tmudata /\ m.unswept = h.unswept
        /\ \A x \in Objs : /\ m.color[x] = IF x = o THEN h.white ELSE h.color[x]
                           /\ m.calls[x] = IF x = o THEN 0 ELSE h.calls[x]
    BY <1>0, <1>1 DEF GCState
  <1> QED
    BY <1>2, <1>3, <1>4 DEF LinkedBy, m

\* A function with its upvalue, and an upvalue that is open.
LEMMA LinkSlotGives ==
  ASSUME NEW h, Sound(h), NEW o \in Objs, h.color[o] = "free"
  PROVE  /\ \A v \in Values : LinkedBy(h, [luaC_link(h, o) EXCEPT !.val[o] = v], o, v, <<None, 0>>)
         /\ \A a \in Threads \X Nat : LinkedBy(h, [luaC_link(h, o) EXCEPT !.at[o] = a], o, None, a)
  <1> DEFINE l == luaC_link(h, o)
  <1>1. LinkedBy(h, l, o, None, <<None, 0>>)
    BY LinkGives
  <1>2. l \in GCState
    BY <1>1 DEF LinkedBy
  <1> HIDE DEF l
  <1>3. ASSUME NEW v \in Values PROVE LinkedBy(h, [l EXCEPT !.val[o] = v], o, v, <<None, 0>>)
    <2> DEFINE m == [l EXCEPT !.val[o] = v]
    <2>1. m \in GCState
      BY <1>2 DEF GCState
    <2>2. /\ m.color = l.color /\ m.calls = l.calls /\ m.key = l.key /\ m.at = l.at /\ m.fin = l.fin
          /\ m.stack = l.stack
          /\ m.phase = l.phase /\ m.white = l.white /\ m.gray = l.gray /\ m.grayagain = l.grayagain
          /\ m.weak = l.weak /\ m.tmudata = l.tmudata /\ m.unswept = l.unswept
          /\ \A x \in Objs : m.val[x] = IF x = o THEN v ELSE l.val[x]
      BY <1>2 DEF GCState
    <2> HIDE DEF m
    <2>3. LinkedBy(h, m, o, v, <<None, 0>>)
      BY <2>1, <2>2, <1>1 DEF LinkedBy
    <2> QED
      BY <2>3 DEF m
  <1>4. ASSUME NEW a \in Threads \X Nat PROVE LinkedBy(h, [l EXCEPT !.at[o] = a], o, None, a)
    <2> DEFINE m == [l EXCEPT !.at[o] = a]
    <2>1. m \in GCState
      BY <1>2 DEF GCState
    <2>2. /\ m.color = l.color /\ m.calls = l.calls /\ m.key = l.key /\ m.val = l.val /\ m.fin = l.fin
          /\ m.stack = l.stack
          /\ m.phase = l.phase /\ m.white = l.white /\ m.gray = l.gray /\ m.grayagain = l.grayagain
          /\ m.weak = l.weak /\ m.tmudata = l.tmudata /\ m.unswept = l.unswept
          /\ \A x \in Objs : m.at[x] = IF x = o THEN a ELSE l.at[x]
      BY <1>2 DEF GCState
    <2> HIDE DEF m
    <2>3. LinkedBy(h, m, o, None, a)
      BY <2>1, <2>2, <1>1 DEF LinkedBy
    <2> QED
      BY <2>3 DEF m
  <1> QED
    BY <1>3, <1>4 DEF l

LEMMA NewObjectFollows ==
  ASSUME GCInv, NEW th \in Running, NEW o, Kind[o] \in {"table", "udata", "thread"},
         o \in pool \ Allocated(g), NewObject(th, o)
  PROVE  Follows(g')
  <1> DEFINE l == luaC_link(g, o)
  <1>1. th \in Threads /\ th \in Kept(g) /\ Sound(g) /\ Phase(g) /\ o \in Objs /\ Allocated(g) \subseteq pool
        /\ g.color[o] = "free"
    BY ProgramIsKept DEF Allocated
  <1>2. /\ Sound(l) /\ Phase(l) /\ Kept(l) = Kept(g) \cup {o} /\ Allocated(l) = Allocated(g) \cup {o}
    <2>1. LinkedBy(g, l, o, None, <<None, 0>>)
      BY <1>1, LinkGives
    <2> HIDE DEF l
    <2> QED
      BY <2>1, <1>1, LinkedKeeps
  <1>3. g' = PushObject(l, th, o)
    BY DEF NewObject
  <1> HIDE DEF l
  <1>4. Sound(g') /\ Phase(g') /\ Allocated(g') = Allocated(l)
    BY <1>1, <1>2, <1>3, PushKeeps
  <1> QED
    BY <1>1, <1>2, <1>4, KeptFollows

LEMMA StringFollows ==
  ASSUME GCInv, NEW th \in Running, NEW o \in pool, Kind[o] = "string", luaS_newlstr(th, o)
  PROVE  Follows(g')
  <1> DEFINE l == IF o \notin Allocated(g) THEN luaC_link(g, o)
                  ELSE IF isdead(g, o) THEN Paint(g, {o}, g.white) ELSE g
  <1>1. th \in Threads /\ th \in Kept(g) /\ Sound(g) /\ Phase(g) /\ o \in Objs /\ Allocated(g) \subseteq pool
        /\ g \in GCState /\ g.white \in Colors
    BY ProgramIsKept, Fields DEF Colors
  <1>2. /\ Sound(l) /\ Phase(l) /\ Kept(l) = Kept(g) \cup {o} /\ Allocated(l) = Allocated(g) \cup {o}
    <2>1. CASE o \notin Allocated(g)
      <3>1. g.color[o] = "free"
        BY <2>1, <1>1 DEF Allocated
      <3>2. LinkedBy(g, luaC_link(g, o), o, None, <<None, 0>>)
        BY <3>1, <1>1, LinkGives
      <3> HIDE DEF l
      <3>3. LinkedBy(g, l, o, None, <<None, 0>>)
        BY <2>1, <3>2 DEF l
      <3> QED
        BY <3>1, <3>3, <1>1, LinkedKeeps
    <2>2. CASE o \in Allocated(g) /\ isdead(g, o)
      <3>1. PaintedBy(g, Paint(g, {o}, g.white), {o}, g.white)
        BY <1>1, PaintGives
      <3>2. AllRefs(g, o) \subseteq Kept(g)
        BY DEF AllRefs, Marks
      <3> HIDE DEF l
      <3>3. PaintedBy(g, l, {o}, g.white)
        BY <2>2, <3>1 DEF l
      <3> QED
        BY <2>2, <3>2, <3>3, <1>1, RevivedKeeps
    <2>3. CASE o \in Allocated(g) /\ ~isdead(g, o)
      BY <2>3, <1>1 DEF Kept
    <2> QED
      BY <2>1, <2>2, <2>3
  <1>3. g' = PushObject(l, th, o)
    BY DEF luaS_newlstr
  <1> HIDE DEF l
  <1>4. Sound(g') /\ Phase(g') /\ Allocated(g') = Allocated(l)
    BY <1>1, <1>2, <1>3, PushKeeps
  <1> QED
    BY <1>1, <1>2, <1>4, KeptFollows

\* A function with an upvalue that is kept.
LEMMA FunctionFollows ==
  ASSUME GCInv, NEW th \in Running, NEW f \in pool \ Allocated(g), Kind[f] = "function",
         NEW h, Sound(h), Phase(h), Kept(g) \subseteq Kept(h), f \notin Allocated(h),
         Allocated(g) \subseteq Allocated(h), Allocated(h) \subseteq pool,
         NEW u \in Kept(h), Kind[u] = "upval"
  PROVE  Follows(PushObject([luaC_link(h, f) EXCEPT !.val[f] = u], th, f))
  <1> DEFINE l == [luaC_link(h, f) EXCEPT !.val[f] = u]
  <1>1. th \in Threads /\ th \in Kept(g) /\ f \in Objs /\ h.color[f] = "free" /\ u \in Values
    BY ProgramIsKept DEF Allocated, Kept, Values
  <1>2. LinkedBy(h, l, f, u, <<None, 0>>)
    BY <1>1, LinkSlotGives
  <1> HIDE DEF l
  <1>3. Sound(l) /\ Phase(l) /\ Kept(l) = Kept(h) \cup {f} /\ Allocated(l) = Allocated(h) \cup {f}
    BY <1>1, <1>2, LinkedKeeps
  <1>4. LET m == PushObject(l, th, f) IN Sound(m) /\ Phase(m) /\ Allocated(m) = Allocated(l)
    BY <1>1, <1>3, PushKeeps
  <1>5. Follows(PushObject(l, th, f))
    BY <1>3, <1>4, KeptFollows
  <1> QED
    BY <1>5 DEF l

LEMMA ClosureFollows ==
  ASSUME GCInv, NEW th \in Running, NEW f \in Fresh("function"), NEW level \in 1 .. MaxStack,
         NewClosure(th, f, level)
  PROVE  Follows(g')
  <1> DEFINE open == {o \in OpenUpvals(g, th, level) : g.at[o][2] = level}
             link(h, u) == PushObject([luaC_link(h, f) EXCEPT !.val[f] = u], th, f)
  <1>0. /\ th \in Threads /\ th \in Kept(g) /\ Sound(g) /\ Phase(g) /\ Allocated(g) \subseteq pool /\ pool \subseteq Objs
        /\ g \in GCState /\ g.white \in Colors /\ f \in pool \ Allocated(g) /\ Kind[f] = "function"
        /\ level \in DOMAIN g.stack[th] /\ level \in Nat
    BY ProgramIsKept, Fields, GCAssumption DEF Fresh, Colors, NewClosure
  <1>1. CASE \E u \in open : g' = link(IF isdead(g, u) THEN Paint(g, {u}, g.white) ELSE g, u)
    <2>1. PICK u \in open : g' = link(IF isdead(g, u) THEN Paint(g, {u}, g.white) ELSE g, u)
      BY <1>1
    <2>2. u \in Allocated(g) /\ Kind[u] = "upval" /\ g.at[u][1] = th /\ g.at[u][2] = level /\ u \in Objs
      BY DEF OpenUpvals, Allocated
    <2> DEFINE h == IF isdead(g, u) THEN Paint(g, {u}, g.white) ELSE g
    <2>3. Sound(h) /\ Phase(h) /\ Kept(h) = Kept(g) \cup {u} /\ Allocated(h) = Allocated(g)
      <3>1. CASE isdead(g, u)
        <4>1. PaintedBy(g, Paint(g, {u}, g.white), {u}, g.white)
          BY <1>0, PaintGives
        <4>2. AllRefs(g, u) \subseteq Kept(g)
          <5>1. AllRefs(g, u) = {UpvalValue(g, u)} \ {None}
            BY <2>2 DEF AllRefs, Marks
          <5>2. UpvalValue(g, u) = g.stack[th][level]
            BY <2>2, <1>0, GCAssumption DEF UpvalValue, IsOpen, Threads
          <5>3. g.stack[th][level] \in Range(g.stack[th])
            BY <1>0 DEF Range
          <5> QED
            BY <5>1, <5>2, <5>3, <1>0, StackIsKept
        <4> HIDE DEF h
        <4>3. PaintedBy(g, h, {u}, g.white)
          BY <3>1, <4>1 DEF h
        <4> QED
          BY <2>2, <3>1, <4>2, <4>3, <1>0, RevivedKeeps
      <3>2. CASE ~isdead(g, u)
        BY <3>2, <2>2, <1>0 DEF Kept
      <3> QED
        BY <3>1, <3>2
    <2>4. g' = PushObject([luaC_link(h, f) EXCEPT !.val[f] = u], th, f)
      BY <2>1
    <2> HIDE DEF h
    <2> QED
      BY <2>2, <2>3, <2>4, <1>0, FunctionFollows
  <1>2. CASE \E u \in Fresh("upval") : g' = link([luaC_link(g, u) EXCEPT !.at[u] = <<th, level>>], u)
    <2>1. PICK u \in Fresh("upval") : g' = link([luaC_link(g, u) EXCEPT !.at[u] = <<th, level>>], u)
      BY <1>2
    <2>2. u \in pool /\ u \in Objs /\ g.color[u] = "free" /\ Kind[u] = "upval" /\ <<th, level>> \in Threads \X Nat
      BY <1>0 DEF Fresh, Allocated
    <2> DEFINE h == [luaC_link(g, u) EXCEPT !.at[u] = <<th, level>>]
    <2>3. LinkedBy(g, h, u, None, <<th, level>>)
      BY <2>2, <1>0, LinkSlotGives
    <2>4. g' = PushObject([luaC_link(h, f) EXCEPT !.val[f] = u], th, f)
      BY <2>1
    <2> HIDE DEF h
    <2>5. Sound(h) /\ Phase(h) /\ Kept(h) = Kept(g) \cup {u} /\ Allocated(h) = Allocated(g) \cup {u}
      BY <2>2, <2>3, <1>0, LinkedKeeps
    <2> QED
      BY <2>2, <2>4, <2>5, <1>0, FunctionFollows
  <1> QED
    BY <1>1, <1>2 DEF NewClosure

LEMMA ReadFollows ==
  ASSUME GCInv, NEW th \in Running, NEW o \in OnStack(th), Read(th, o)
  PROVE  Follows(g')
  <1>1. PICK v \in FieldsOf(o) : g' = PushObject(g, th, v)
    BY DEF Read
  <1>2. th \in Threads /\ th \in Kept(g) /\ Sound(g) /\ Phase(g) /\ Allocated(g) \subseteq pool
        /\ o \in Kept(g) /\ o \in Objs /\ o \in Allocated(g) /\ None \notin Objs
    BY ProgramIsKept
  <1>3. AllRefs(g, o) \subseteq Kept(g)
    BY <1>2 DEF Sound, KeptIsClosed
  <1>4. v = None \/ v \in Kept(g)
    <2>1. CASE Kind[o] = "table"
      BY <2>1, <1>3 DEF FieldsOf, AllRefs
    <2>2. CASE Kind[o] = "udata"
      BY <2>2, <1>3 DEF FieldsOf, AllRefs, Marks
    <2>3. CASE Kind[o] = "function"
      <3>1. g.val[o] \in Kept(g) /\ Kind[g.val[o]] = "upval"
        BY <2>3, <1>2, <1>3 DEF AllRefs, Marks, Sound, Heap, FunctionsHaveUpvals
      <3> QED
        BY <2>3, <3>1, <1>2, UpvalValueIsKept DEF FieldsOf
    <2>4. CASE Kind[o] \in {"string", "upval", "thread"}
      BY <2>4 DEF FieldsOf
    <2> QED
      BY <2>1, <2>2, <2>3, <2>4, <1>2, GCAssumption
  <1>5. Sound(g') /\ Phase(g') /\ Allocated(g') = Allocated(g)
    BY <1>1, <1>2, <1>4, PushKeeps
  <1> QED
    BY <1>2, <1>5, KeptFollows

LEMMA WriteFollows ==
  ASSUME GCInv, NEW th \in Running, NEW o \in OnStack(th), NEW k \in OnStack(th) \cup {None},
         NEW v \in OnStack(th) \cup {None},
         \/ Kind[o] = "table" /\ SetTable(o, k, v)
         \/ Kind[o] = "udata" /\ SetEnv(o, v)
         \/ Kind[o] = "function" /\ SetUpval(o, v)
  PROVE  Follows(g')
  <1>1. /\ Sound(g) /\ Phase(g) /\ Allocated(g) \subseteq pool
        /\ o \in Kept(g) /\ o \in Objs /\ o \in Allocated(g) /\ None \notin Objs
        /\ k = None \/ k \in Kept(g)
        /\ v = None \/ v \in Kept(g)
    BY ProgramIsKept
  <1>2. SUFFICES Sound(g') /\ Phase(g') /\ Allocated(g') = Allocated(g)
    BY <1>1, KeptFollows
  <1>3. CASE Kind[o] = "table" /\ SetTable(o, k, v)
    <2>1. g' = Entered(g, o, k, v)
      BY <1>3 DEF SetTable, Entered
    <2> QED
      BY <2>1, <1>1, <1>3, EntryKeeps
  <1>4. CASE Kind[o] = "udata" /\ SetEnv(o, v)
    <2>1. ~IsOpen(g, o)
      BY <1>1, <1>4 DEF Sound, Heap, OpenIsInStack
    <2> QED
      BY <2>1, <1>1, <1>4, AssignedKeeps DEF SetEnv
  <1>5. CASE Kind[o] = "function" /\ SetUpval(o, v)
    <2>1. g.val[o] \in Objs /\ Kind[g.val[o]] = "upval"
      BY <1>1, <1>5 DEF Sound, Heap, FunctionsHaveUpvals
    <2>2. g.val[o] \in Kept(g)
      BY <2>1, <1>1, <1>5 DEF Sound, KeptIsClosed, AllRefs, Marks
    <2>3. CASE IsOpen(g, g.val[o])
      BY <2>1, <2>2, <2>3, <1>1, <1>5, OpenKeeps DEF SetUpval
    <2>4. CASE ~IsOpen(g, g.val[o])
      BY <2>1, <2>2, <2>4, <1>1, <1>5, AssignedKeeps DEF SetUpval, Assigned
    <2> QED
      BY <2>3, <2>4
  <1> QED
    BY <1>3, <1>4, <1>5

\* The top of a stack goes, and with it the upvalues that are open there.
LEMMA PoppedFollows ==
  ASSUME GCInv, NEW th \in Threads, th \in Kept(g), g.stack[th] # <<>>
  PROVE  LET m == Pop(luaF_close(g, th, Len(g.stack[th])), th) IN
         /\ Follows(m) /\ Kept(m) = Kept(g)
         /\ Last(g.stack[th]) = None \/ Last(g.stack[th]) \in Kept(g)
  <1> DEFINE n == Len(g.stack[th])
             c == luaF_close(g, th, n)
             m == Pop(c, th)
  <1>1. Sound(g) /\ Phase(g)
    BY ProgramIsKept
  <1>2. g.stack[th] \in Seq(Values) /\ Range(g.stack[th]) \ {None} \subseteq Kept(g)
    BY <1>1, StackIsKept
  <1>3. n \in Nat /\ (Last(g.stack[th]) = None \/ Last(g.stack[th]) \in Kept(g))
    <2>1. Last(g.stack[th]) \in Range(g.stack[th]) /\ Len(g.stack[th]) \in Nat \ {0}
      BY <1>2, FrontGives
    <2> QED
      BY <2>1, <1>2
  <1> HIDE DEF n
  <1>4. /\ Sound(c) /\ Phase(c) /\ Kept(c) = Kept(g) /\ Collects(g, c) /\ c.stack = g.stack
        /\ \A o \in Objs : IsOpen(c, o) /\ c.at[o][1] = th => c.at[o][2] < n
    BY <1>1, <1>3, ClosingKeeps
  <1> HIDE DEF c
  <1>5. Sound(m) /\ Phase(m) /\ Kept(m) = Kept(c) /\ Allocated(m) = Allocated(c) /\ m.calls = c.calls
    BY <1>4, PopKeeps DEF n
  <1> HIDE DEF m
  <1>6. Collects(g, m)
    BY <1>4, <1>5 DEF Collects
  <1>7. Follows(m)
    BY <1>5, <1>6, CollectedFollows
  <1> QED
    BY <1>3, <1>4, <1>5, <1>7 DEF n, c, m

LEMMA ReturnFollows ==
  ASSUME GCInv, NEW th \in Running, Return(th)
  PROVE  Follows(g')
  BY ProgramIsKept, PoppedFollows DEF Return

LEMMA XMoveFollows ==
  ASSUME GCInv, NEW to \in Running, XMove(to)
  PROVE  Follows(g')
  <1> DEFINE m == Pop(luaF_close(g, Main, Len(g.stack[Main])), Main)
             v == Last(g.stack[Main])
  <1>1. Main \in Threads /\ Main \in Kept(g) /\ to \in Threads /\ to \in Kept(g)
    BY ProgramIsKept
  <1>2. g.stack[Main] # <<>> /\ g' = PushObject(m, to, v)
    BY DEF XMove
  <1>3. Follows(m) /\ Kept(m) = Kept(g) /\ (v = None \/ v \in Kept(g))
    BY <1>1, <1>2, PoppedFollows
  <1> HIDE DEF m, v
  <1>4. Sound(g') /\ Phase(g') /\ Allocated(g') = Allocated(m) /\ g'.calls = m.calls
    BY <1>1, <1>2, <1>3, PushKeeps DEF Follows
  <1> QED
    BY <1>3, <1>4 DEF Follows

LEMMA MutateFollows ==
  ASSUME GCInv, NEW th \in Running, Mutate(th)
  PROVE  Follows(g')
  <1>1. ASSUME NEW kind \in {"table", "udata", "thread"}, NEW o \in Fresh(kind), NewObject(th, o)
        PROVE  Follows(g')
    BY <1>1, NewObjectFollows DEF Fresh
  <1>2. ASSUME NEW s \in pool, Kind[s] = "string", luaS_newlstr(th, s) PROVE Follows(g')
    BY <1>2, StringFollows
  <1>3. ASSUME NEW f \in Fresh("function"), NEW level \in 1 .. MaxStack, NewClosure(th, f, level)
        PROVE  Follows(g')
    BY <1>3, ClosureFollows DEF Fresh
  <1>4. ASSUME NEW o \in OnStack(th), Read(th, o) PROVE Follows(g')
    BY <1>4, ReadFollows
  <1>5. ASSUME NEW o \in OnStack(th), NEW k \in OnStack(th) \cup {None}, NEW v \in OnStack(th) \cup {None},
               Kind[o] = "table", SetTable(o, k, v)
        PROVE  Follows(g')
    BY <1>5, WriteFollows
  <1>6. ASSUME NEW u \in OnStack(th), NEW v \in OnStack(th), Kind[u] = "udata", SetEnv(u, v)
        PROVE  Follows(g')
    BY <1>6, WriteFollows
  <1>7. ASSUME NEW f \in OnStack(th), NEW v \in OnStack(th) \cup {None}, Kind[f] = "function", SetUpval(f, v)
        PROVE  Follows(g')
    BY <1>7, WriteFollows
  <1>8. CASE Return(th)
    BY <1>8, ReturnFollows
  <1> QED
    BY <1>1, <1>2, <1>3, <1>4, <1>5, <1>6, <1>7, <1>8 DEF Mutate

LEMMA NewStateIsState == lua_newstate \in GCState
  <1>1. [o \in Objs |-> IF o = Main THEN "w0" ELSE "free"] \in [Objs -> Colors]
    BY DEF Colors
  <1>2. [o \in Objs |-> None] \in [Objs -> Values] /\ [o \in Objs |-> FALSE] \in [Objs -> BOOLEAN]
        /\ [o \in Objs |-> 0] \in [Objs -> Nat]
    BY DEF Values
  <1>3. [o \in Objs |-> <<None, 0>>] \in [Objs -> (Threads \cup {None}) \X Nat]
    OBVIOUS
  <1>4. [o \in Threads |-> <<>>] \in [Threads -> Seq(Values)]
    OBVIOUS
  <1> QED
    BY <1>1, <1>2, <1>3, <1>4 DEF lua_newstate, GCState

\* A new state: its main thread, and of what was before only the calls that count.
LEMMA NewStateIsSound ==
  ASSUME NEW calls \in [Objs -> Nat], \A o \in Objs : Kind[o] = "udata" => calls[o] <= 1
  PROVE  LET m == [lua_newstate EXCEPT !.calls = calls] IN
         Sound(m) /\ Phase(m) /\ Allocated(m) = {Main} /\ m.calls = calls
  <1> DEFINE m == [lua_newstate EXCEPT !.calls = calls]
  <1>0. Main \in Objs /\ Main \in Threads /\ Kind[Main] = "thread" /\ None \notin Objs /\ Threads \subseteq Objs
    BY GCAssumption DEF Threads
  <1>1. /\ m.color = [o \in Objs |-> IF o = Main THEN "w0" ELSE "free"]
        /\ m.key = [o \in Objs |-> None] /\ m.val = [o \in Objs |-> None]
        /\ m.at = [o \in Objs |-> <<None, 0>>] /\ m.fin = [o \in Objs |-> FALSE]
        /\ m.stack = [o \in Threads |-> <<>>] /\ m.phase = "pause" /\ m.white = "w0"
        /\ m.tmudata = {} /\ m.calls = calls
    BY DEF lua_newstate
  <1>2. m \in GCState
    BY NewStateIsState DEF GCState
  <1> HIDE DEF m
  <1>3. otherwhite(m) = "w1"
    BY <1>1 DEF otherwhite
  <1>4. NoneDead(m) /\ Allocated(m) = {Main} /\ Kept(m) = {Main}
    BY <1>0, <1>1, <1>3 DEF NoneDead, isdead, Allocated, Kept
  <1>5. \A o \in Objs : ~IsOpen(m, o)
    BY <1>1 DEF IsOpen
  <1>6. FreeIsClean(m) /\ OpenIsInStack(m) /\ FunctionsHaveUpvals(m)
    BY <1>0, <1>1, <1>4, <1>5 DEF FreeIsClean, OpenIsInStack, FunctionsHaveUpvals
  <1>7. KeptIsClosed(m)
    <2>1. m.stack[Main] = <<>>
      BY <1>0, <1>1
    <2>2. AllRefs(m, Main) = {}
      BY <1>0, <2>1 DEF AllRefs, Marks, Range
    <2> QED
      BY <1>1, <1>4, <2>2 DEF KeptIsClosed
  <1>8. Finalizers(m)
    BY <1>0, <1>1, <1>4 DEF Finalizers
  <1>9. Shades(m)
    BY <1>1 DEF Shades
  <1>10. Phase(m)
    BY <1>0, <1>1, <1>4 DEF Phase, Clean
  <1> QED
    BY <1>1, <1>2, <1>4, <1>6, <1>7, <1>8, <1>9, <1>10 DEF Sound, Heap, m

LEMMA CloseFollows ==
  ASSUME GCInv, lua_close
  PROVE  Follows(g')
  <1> DEFINE c == luaF_close(g, Main, 1)
             e == [c EXCEPT !.stack[Main] = <<>>]
             h == luaC_separateudata(e, TRUE)
             due == {o \in Allocated(e) : Kind[o] = "udata" /\ ~e.fin[o]}
             calls == luaC_callGCTM(h).calls
  <1>0. Sound(g) /\ Phase(g) /\ Main \in Threads /\ Main \in Kept(g) /\ Allocated(g) \subseteq Objs /\ Kept(g) \subseteq Allocated(g)
        /\ Allocated(g) \subseteq pool
    BY ProgramIsKept
  <1>1. g' = [lua_newstate EXCEPT !.calls = calls]
    BY DEF lua_close
  <1>2. Sound(c) /\ Collects(g, c)
    BY <1>0, ClosingKeeps
  <1> HIDE DEF c
  <1>3. e \in GCState /\ e.color = c.color /\ e.calls = c.calls /\ e.fin = c.fin /\ e.tmudata = c.tmudata
    <2>1. c \in GCState /\ <<>> \in Seq(Values)
      BY <1>2 DEF Sound
    <2>2. e \in GCState
      BY <1>0, <2>1 DEF GCState
    <2> QED
      BY <2>1, <2>2 DEF GCState
  <1> HIDE DEF e
  <1> DEFINE h0 == Separate(e, due)
  <1>4. h = h0 /\ due \in SUBSET Objs
    BY DEF luaC_separateudata, Allocated
  <1> HIDE DEF due
  <1>5. SeparatedBy(e, h0, due)
    BY <1>3, <1>4, SeparateGives
  <1> HIDE DEF h0, h
  <1>6. h.calls = c.calls /\ h.tmudata = c.tmudata \cup due
    BY <1>3, <1>4, <1>5 DEF SeparatedBy
  <1>7. Allocated(e) = Allocated(c) /\ Allocated(c) \subseteq Objs
    BY <1>3 DEF Allocated
  <1>8. calls = [o \in Objs |-> IF o \in h.tmudata THEN h.calls[o] + 1 ELSE h.calls[o]]
    <2>1. h \in GCState
      BY <1>4, <1>5 DEF SeparatedBy
    <2>2. Paint(h, h.tmudata, h.white) \in GCState
      <3>1. h.white \in Colors
        BY <2>1, Fields DEF Colors
      <3> QED
        BY <2>1, <3>1, PaintGives DEF PaintedBy, SameHeap
    <2> QED
      BY <2>2 DEF luaC_callGCTM, GCState
  <1> HIDE DEF calls, h
  <1>9. \A o \in Objs : c.calls[o] \in Nat
    BY <1>2, Fields DEF Sound
  <1>10. calls \in [Objs -> Nat]
    BY <1>6, <1>8, <1>9
  <1>11. ASSUME NEW o \in Objs, Kind[o] = "udata"
        PROVE  calls[o] <= 1 /\ (o \in Allocated(g) => calls[o] = 1)
    <2>1. calls[o] = IF o \in c.tmudata \cup due THEN c.calls[o] + 1 ELSE c.calls[o]
      BY <1>6, <1>8
    <2>2. c.calls[o] \in Nat /\ c.calls[o] <= 1 /\ (o \in c.tmudata => c.fin[o] /\ o \in Allocated(c))
      BY <1>2, <1>9, <1>11 DEF Sound, Finalizers, KeptIsClosed, Kept
    <2>3. CASE o \in Allocated(c)
      <3>1. (c.calls[o] = 1 <=> (c.fin[o] /\ o \notin c.tmudata)) /\ (o \in due <=> ~c.fin[o])
        BY <1>2, <1>3, <1>7, <1>11, <2>3 DEF Sound, Finalizers, due
      <3>2. CASE o \in c.tmudata \cup due
        <4>1. c.calls[o] # 1
          BY <3>1, <3>2
        <4> QED
          BY <4>1, <3>2, <2>1, <2>2
      <3>3. CASE o \notin c.tmudata \cup due
        BY <3>1, <3>3, <2>1
      <3> QED
        BY <3>2, <3>3
    <2>4. CASE o \notin Allocated(c)
      <3>1. o \notin c.tmudata \cup due
        BY <2>2, <2>4, <1>7 DEF due
      <3>2. o \in Allocated(g) => c.calls[o] = 1
        BY <2>4, <1>2, <1>11 DEF Collects
      <3> QED
        BY <3>1, <3>2, <2>1, <2>2
    <2> QED
      BY <2>3, <2>4
  <1>12. Sound(g') /\ Phase(g') /\ Allocated(g') = {Main} /\ g'.calls = calls
    BY <1>1, <1>10, <1>11, NewStateIsSound
  <1> QED
    BY <1>0, <1>11, <1>12 DEF Follows

\* One step of the collector, in each of its phases.
LEMMA MarkFollows ==
  ASSUME GCInv
  PROVE  /\ g.phase = "pause" => Follows(markroot(g))
         /\ g.phase = "propagate" => \A o \in g.gray : Follows(propagatemark(g, o))
         /\ g.phase = "propagate" /\ g.gray = {} => Follows(atomic(g))
  <1>0. Sound(g) /\ Phase(g) /\ Allocated(g) \subseteq pool /\ g \in GCState
    BY ProgramIsKept
  <1>1. ASSUME g.phase = "pause" PROVE Follows(markroot(g))
    <2> DEFINE m == markroot(g)
    <2>1. /\ Sound(m) /\ Marking(m) /\ m.phase = "propagate" /\ Main \in Marked(m) /\ Allocated(m) = Allocated(g)
      BY <1>0, <1>1, MarkrootMarks DEF Phase
    <2> HIDE DEF m
    <2> QED
      BY <1>0, <2>1, KeptFollows DEF Phase, m
  <1>2. ASSUME g.phase = "propagate", NEW o \in g.gray PROVE Follows(propagatemark(g, o))
    <2> DEFINE m == propagatemark(g, o)
    <2>1. Marking(g) /\ Main \in Marked(g)
      BY <1>0, <1>2 DEF Phase
    <2>2. Sound(m) /\ Marking(m) /\ Recolored(g, m)
      BY <1>0, <2>1, PropagatemarkMarks
    <2> HIDE DEF m
    <2>3. Main \in Marked(m) /\ Allocated(m) = Allocated(g) /\ m.phase = "propagate"
      BY <1>0, <1>2, <2>1, <2>2, RecoloredGrows DEF Recolored, SameHeap
    <2> QED
      BY <1>0, <2>2, <2>3, KeptFollows DEF Phase, m
  <1>3. ASSUME g.phase = "propagate", g.gray = {} PROVE Follows(atomic(g))
    <2> DEFINE m == atomic(g)
    <2>1. Sound(m) /\ m.phase = "sweep" /\ Sweeping(m) /\ Allocated(m) = Allocated(g)
      BY <1>0, <1>3, AtomicSweeps DEF Phase
    <2> HIDE DEF m
    <2> QED
      BY <1>0, <2>1, KeptFollows DEF Phase, m
  <1> QED
    BY <1>1, <1>2, <1>3

LEMMA SweepFollows ==
  ASSUME GCInv, g.phase = "sweep", NEW os \in SweepChoice
  PROVE  Follows(sweepstep(g, os))
  <1> DEFINE m == sweepstep(g, os)
  <1>1. Sound(g) /\ Sweeping(g) /\ os \in SUBSET g.unswept
    BY ProgramIsKept DEF Phase, SweepChoice
  <1>2. /\ Sound(m) /\ Sweeping(m) /\ Collects(g, m) /\ m.unswept = g.unswept \ os
        /\ m.phase = IF g.unswept \subseteq os THEN "finalize" ELSE g.phase
    BY <1>1, SweepstepSweeps
  <1> HIDE DEF m
  <1>3. Phase(m)
    <2>1. CASE g.unswept \subseteq os
      BY <2>1, <1>2, SweptIsClean DEF Phase
    <2>2. CASE ~(g.unswept \subseteq os)
      BY <2>2, <1>2 DEF Phase
    <2> QED
      BY <2>1, <2>2
  <1> QED
    BY <1>2, <1>3, CollectedFollows DEF m

\* The collector calls one finalizer; it may keep its userdata.
LEMMA GCTMFollows ==
  ASSUME GCInv, g.phase = "finalize", NEW o \in g.tmudata, NEW keep \in BOOLEAN
  PROVE  Follows(GCTM(g, o, keep))
  <1> DEFINE p == Paint(g, {o}, g.white)
             k == [p EXCEPT !.tmudata = @ \ {o}, !.calls[o] = @ + 1]
             m == GCTM(g, o, keep)
  <1>0. /\ Sound(g) /\ Clean(g) /\ g \in GCState /\ Main \in Threads /\ Main \in Kept(g)
        /\ o \in Kept(g) /\ o \in Objs /\ g.white \in Colors
    BY ProgramIsKept, Fields DEF Phase, Sound, KeptIsClosed, Kept, Allocated, Colors
  <1>1. PaintedBy(g, p, {o}, g.white) /\ p \in GCState /\ p.phase = "finalize"
    BY <1>0, PaintGives DEF PaintedBy, SameHeap
  <1>2. m = [p EXCEPT !.tmudata = @ \ {o}, !.calls[o] = @ + 1, !.stack[Main] = IF keep THEN Append(@, o) ELSE @]
    BY DEF GCTM
  <1> HIDE DEF p
  <1>3. k \in GCState
    <2>1. p.calls[o] + 1 \in Nat /\ p.tmudata \ {o} \in SUBSET Objs
      BY <1>0, <1>1, Fields DEF GCState
    <2> QED
      BY <1>1, <2>1 DEF GCState
  <1>4. CalledBy(p, k, {o}) /\ k.phase = "finalize"
    <2>1. /\ k.color = p.color /\ k.key = p.key /\ k.val = p.val /\ k.at = p.at /\ k.fin = p.fin
          /\ k.stack = p.stack /\ k.white = p.white /\ k.phase = p.phase /\ k.tmudata = p.tmudata \ {o}
          /\ \A x \in Objs : k.calls[x] = IF x = o THEN p.calls[x] + 1 ELSE p.calls[x]
      BY <1>0, <1>1 DEF GCState
    <2> HIDE DEF k
    <2> QED
      BY <1>1, <1>3, <2>1 DEF CalledBy
  <1>5. m = IF keep THEN PushObject(k, Main, o) ELSE k
    <2>1. CASE keep
      BY <2>1, <1>0, <1>1, <1>2 DEF PushObject, GCState
    <2>2. CASE ~keep
      <3>1. m = [k EXCEPT !.stack[Main] = @]
        BY <2>2, <1>0, <1>1, <1>2 DEF GCState
      <3> HIDE DEF k, m
      <3>2. m = k
        BY <3>1, <1>0, <1>3 DEF GCState
      <3> QED
        BY <3>2, <2>2
    <2> QED
      BY <2>1, <2>2
  <1> HIDE DEF k, m
  <1>6. Sound(k) /\ Clean(k) /\ Kept(k) = Kept(g) /\ Collects(g, k)
    BY <1>0, <1>1, <1>4, PaintedAndCalled
  <1>7. Phase(k)
    BY <1>4, <1>6 DEF Phase
  <1>8. CASE keep
    <2>1. /\ Sound(m) /\ Phase(m) /\ Allocated(m) = Allocated(k) /\ m.calls = k.calls
      BY <1>0, <1>5, <1>6, <1>7, <1>8, PushKeeps
    <2>2. Collects(g, m)
      BY <2>1, <1>6 DEF Collects
    <2> QED
      BY <2>1, <2>2, CollectedFollows DEF m
  <1>9. CASE ~keep
    <2>1. Follows(k)
      BY <1>6, <1>7, CollectedFollows
    <2> QED
      BY <2>1, <1>5, <1>9 DEF m
  <1> QED
    BY <1>8, <1>9

LEMMA PauseFollows ==
  ASSUME GCInv, g.phase = "finalize", g.tmudata = {}
  PROVE  Follows([g EXCEPT !.phase = "pause"])
  <1> DEFINE m == [g EXCEPT !.phase = "pause"]
  <1>0. Sound(g) /\ Clean(g) /\ g \in GCState /\ Allocated(g) \subseteq pool
    BY ProgramIsKept DEF Phase
  <1>1. SameObjects(g, m) /\ m.phase = "pause"
    <2>1. m \in GCState
      BY <1>0 DEF GCState
    <2> QED
      BY <1>0, <2>1 DEF GCState, SameObjects
  <1> HIDE DEF m
  <1>2. Sound(m) /\ Allocated(m) = Allocated(g) /\ NoneDead(m)
    BY <1>0, <1>1, SameObjectsSound DEF Clean
  <1>3. Phase(m)
    BY <1>0, <1>1, <1>2 DEF Phase, Clean, SameObjects
  <1> QED
    BY <1>0, <1>2, <1>3, KeptFollows DEF m

LEMMA CollectorFollows ==
  ASSUME GCInv, CollectorStep
  PROVE  Follows(g')
  <1>1. CASE g.phase = "pause" /\ g' = markroot(g)
    BY <1>1, MarkFollows
  <1>2. ASSUME g.phase = "propagate", NEW o \in g.gray, g' = propagatemark(g, o) PROVE Follows(g')
    BY <1>2, MarkFollows
  <1>3. CASE g.phase = "propagate" /\ g.gray = {} /\ g' = atomic(g)
    BY <1>3, MarkFollows
  <1>4. ASSUME g.phase = "sweep", NEW os \in SweepChoice, g' = sweepstep(g, os) PROVE Follows(g')
    BY <1>4, SweepFollows
  <1>5. ASSUME g.phase = "finalize", NEW o \in g.tmudata, NEW keep \in BOOLEAN, g' = GCTM(g, o, keep)
        PROVE  Follows(g')
    BY <1>5, GCTMFollows
  <1>6. CASE g.phase = "finalize" /\ g.tmudata = {} /\ g' = [g EXCEPT !.phase = "pause"]
    BY <1>6, PauseFollows
  <1> QED
    BY <1>1, <1>2, <1>3, <1>4, <1>5, <1>6 DEF CollectorStep

LEMMA FullGCFollows ==
  ASSUME GCInv, FullGC
  PROVE  Follows(g')
  <1> DEFINE m == luaC_fullgc(g)
  <1>1. Sound(m) /\ Clean(m) /\ m.tmudata = {} /\ m.phase = "pause" /\ Collects(g, m)
    BY ProgramIsKept, FullGCCleans
  <1> HIDE DEF m
  <1>2. Phase(m)
    BY <1>1 DEF Phase
  <1> QED
    BY <1>1, <1>2, CollectedFollows DEF FullGC, m

LEMMA NextFollows ==
  ASSUME GCInv, GCNext
  PROVE  Follows(g') /\ GCInv'
  <1>1. Follows(g')
    <2>1. CASE CollectorStep
      BY <2>1, CollectorFollows
    <2>2. CASE FullGC
      BY <2>2, FullGCFollows
    <2>3. CASE lua_close
      BY <2>3, CloseFollows
    <2>4. ASSUME NEW th \in Running, Mutate(th) PROVE Follows(g')
      BY <2>4, MutateFollows
    <2>5. ASSUME NEW th \in Running \ {Main}, XMove(th) PROVE Follows(g')
      BY <2>5, XMoveFollows
    <2> QED
      BY <2>1, <2>2, <2>3, <2>4, <2>5 DEF GCNext
  <1>2. pool' = pool
    BY DEF GCNext
  <1>3. GCInv'
    BY <1>1, <1>2 DEF GCInv, Follows, Sound, Heap, FreeIsClean, OpenIsInStack, FunctionsHaveUpvals,
       KeptIsClosed, Finalizers, Shades, Phase, Clean, Marking, Sweeping, NoneDead, Listed, Tricolor
  <1> QED
    BY <1>1, <1>3

LEMMA InitIsSound == GCInit => GCInv
  <1> SUFFICES ASSUME GCInit PROVE GCInv
    OBVIOUS
  <1> DEFINE calls == [o \in Objs |-> 0]
             m == [lua_newstate EXCEPT !.calls = calls]
  <1>1. g = m
    <2>1. lua_newstate.calls = calls
      BY DEF lua_newstate
    <2> HIDE DEF calls
    <2> QED
      BY <2>1, NewStateIsState DEF GCInit, GCState
  <1>2. calls \in [Objs -> Nat] /\ \A o \in Objs : calls[o] <= 1
    OBVIOUS
  <1> HIDE DEF calls
  <1>3. Sound(m) /\ Phase(m) /\ Allocated(m) = {Main}
    BY <1>2, NewStateIsSound
  <1> HIDE DEF m
  <1> QED
    BY <1>1, <1>3 DEF GCInv, GCInit

LEMMA InvIsInductive == GCInv /\ [GCNext]_gcVars => GCInv'
  <1>1. ASSUME GCInv, GCNext PROVE GCInv'
    BY <1>1, NextFollows
  <1>2. ASSUME GCInv, UNCHANGED gcVars PROVE GCInv'
    BY <1>2 DEF gcVars, GCInv, Sound, Heap, FreeIsClean, OpenIsInStack, FunctionsHaveUpvals,
       KeptIsClosed, Finalizers, Shades, Phase, Clean, Marking, Sweeping, NoneDead, Listed, Tricolor
  <1> QED
    BY <1>1, <1>2

\* What is kept holds the roots and what its members refer to: all that is live.
LEMMA InvKeepsLive == GCInv => LiveIsKept
  <1> SUFFICES ASSUME GCInv PROVE LiveIsKept
    OBVIOUS
  <1>1. /\ Sound(g) /\ Kept(g) \subseteq Allocated(g) /\ Allocated(g) \subseteq pool /\ Allocated(g) \subseteq Objs
    BY ProgramIsKept
  <1>2. \A o \in Kept(g) : AllRefs(g, o) \subseteq Kept(g)
    BY <1>1 DEF Sound, KeptIsClosed
  <1>3. ASSUME NEW o \in Kept(g) PROVE Refs(g, o) \subseteq Kept(g)
    <2>1. Marks(g, o) \subseteq AllRefs(g, o)
      BY <1>1, <1>3, MarksAreRefs
    <2>2. Kind[o] = "table" => AllRefs(g, o) = EntryRefs(g, o)
      BY DEF AllRefs
    <2> QED
      BY <1>2, <1>3, <2>1, <2>2 DEF Refs
  <1>4. {Main} \cup g.tmudata \subseteq Kept(g)
    BY <1>1 DEF Sound, KeptIsClosed
  <1>5. Live(g) \subseteq Kept(g)
    <2>1. Kept(g) \in SUBSET pool
      BY <1>1
    <2> HIDE DEF Kept, Refs
    <2> QED
      BY <2>1, <1>3, <1>4 DEF Live, ReachFrom
  <1>6. ASSUME NEW o \in Live(g)
        PROVE  /\ o \in Kept(g)
               /\ Kind[o] = "table" => EntryRefs(g, o) \subseteq Kept(g)
    BY <1>2, <1>5, <1>6 DEF AllRefs
  <1>7. \A o : o \in Kept(g) <=> o \in Allocated(g) /\ ~isdead(g, o)
    BY DEF Kept
  <1> QED
    BY <1>6, <1>7 DEF LiveIsKept

-----------------------------------------------------------------------------
(* What a full collection leaves                                               *)

\* S holds the main thread, what is marked or waits, and what its members refer to.
Within(h, S) ==
  /\ h \in GCState /\ S \subseteq Objs /\ Main \in S
  /\ Marked(h) \subseteq S
  /\ h.gray \subseteq S /\ h.grayagain \subseteq S /\ h.weak \subseteq S /\ h.tmudata \subseteq S
  /\ \A o \in S : Refs(h, o) \subseteq S

\* m refers to nothing that h does not.
Fewer(h, m) == \A o \in Objs : Refs(m, o) \subseteq Refs(h, o)

LEMMA RefsOfSame ==
  ASSUME NEW h, NEW m, SameRefs(h, m), NEW o \in Objs
  PROVE  Refs(m, o) = Refs(h, o)
  <1>1. Marks(m, o) = Marks(h, o) /\ EntryRefs(m, o) = EntryRefs(h, o) /\ m.val = h.val
    BY RefsAreSame DEF SameRefs
  <1> QED
    BY <1>1 DEF Refs

LEMMA RefsHoldMarks ==
  ASSUME NEW h, NEW o
  PROVE  /\ Marks(h, o) \subseteq Refs(h, o)
         /\ Kind[o] = "table" /\ h.val[o] # None => {v \in EntryRefs(h, o) : Kind[v] = "string"} \subseteq Refs(h, o)
  BY DEF Refs

LEMMA ClosureWithin ==
  ASSUME NEW h, NEW os, NEW ks, NEW S, os \subseteq S, \A o \in S : Marks(h, o) \cap Whites(h) \subseteq S
  PROVE  Closure(h, os, ks) \subseteq S
  <1> DEFINE white == Whites(h)
             next == [o \in os \cup white |-> IF Kind[o] \in ks THEN Marks(h, o) \cap white ELSE {}]
             closed == {T \in {os \cup W : W \in SUBSET (white \ os)} : \A o \in T : next[o] \subseteq T}
             T == os \cup ((S \cap white) \ os)
  <1>1. T \subseteq S /\ S \cap white \subseteq T /\ T \subseteq os \cup white
    OBVIOUS
  <1>2. \A o \in T : next[o] \subseteq S \cap white
    <2> HIDE DEF white, T
    <2> QED
      BY <1>1 DEF white
  <1>3. T \in {os \cup W : W \in SUBSET (white \ os)}
    OBVIOUS
  <1>4. T \in closed
    <2> HIDE DEF T, next
    <2> QED
      BY <1>1, <1>2, <1>3
  <1>5. Closure(h, os, ks) = {o \in os \cup white : \A X \in closed : o \in X}
    BY DEF Closure
  <1> HIDE DEF closed
  <1>6. Closure(h, os, ks) \subseteq T
    BY <1>4, <1>5
  <1> QED
    BY <1>1, <1>6

\* Steps that only mark members of S, or move them between lists.
LEMMA StaysWithin ==
  ASSUME NEW h, NEW S, Within(h, S), NEW m \in GCState, SameRefs(h, m), Marked(m) \subseteq S,
         m.gray \subseteq S, m.grayagain \subseteq S, m.weak \subseteq S, m.tmudata \subseteq S
  PROVE  Within(m, S)
  BY RefsOfSame DEF Within

LEMMA MarkobjectsWithin ==
  ASSUME NEW h, NEW S, Within(h, S), NEW os, os \cap Whites(h) \subseteq S
  PROVE  Within(markobjects(h, os), S)
  <1> DEFINE M == Closure(h, os \cap Whites(h), {"udata", "upval"})
             m == markobjects(h, os)
  <1>0. h \in GCState
    BY DEF Within
  <1>1. M \subseteq S
    <2>1. \A o \in S : Marks(h, o) \cap Whites(h) \subseteq S
      BY RefsHoldMarks DEF Within
    <2> HIDE DEF M
    <2> QED
      BY <2>1, ClosureWithin DEF M
  <1>2. PICK M0 : MarkedBy(h, m, M0)
    BY <1>0, MarkobjectsGives
  <1>3. m = [h EXCEPT !.color = [o \in Objs |-> IF o \notin M THEN h.color[o]
                                          ELSE IF o \in Waits \/ StaysGray(h, o) THEN "gray" ELSE "black"],
                      !.gray = h.gray \cup (M \cap Waits)]
    BY <1>0 DEF markobjects, GCState
  <1> HIDE DEF M
  <1>4. m.gray = h.gray \cup (M \cap Waits) /\ \A o \in Objs : o \notin M => m.color[o] = h.color[o]
    BY <1>0, <1>3 DEF GCState
  <1> HIDE DEF m
  <1>5. Marked(m) \subseteq Marked(h) \cup M
    BY <1>4 DEF Marked
  <1>6. /\ m \in GCState /\ SameRefs(h, m)
        /\ m.grayagain = h.grayagain /\ m.weak = h.weak /\ m.tmudata = h.tmudata
    BY <1>2 DEF MarkedBy, SameHeap, SameRefs
  <1>7. /\ Marked(m) \subseteq S /\ m.gray \subseteq S
        /\ m.grayagain \subseteq S /\ m.weak \subseteq S /\ m.tmudata \subseteq S
    BY <1>1, <1>4, <1>5, <1>6 DEF Within
  <1>8. Within(m, S)
    BY <1>6, <1>7, StaysWithin
  <1> QED
    BY <1>8 DEF m

LEMMA PropagateallWithin ==
  ASSUME NEW h, NEW S, Within(h, S)
  PROVE  Within(propagateall(h), S)
  <1> DEFINE ks == {"table", "function", "thread", "udata", "upval"}
             T == Closure(h, h.gray, ks)
             m == propagateall(h)
  <1>0. h \in GCState /\ h.gray \subseteq S /\ S \subseteq Objs
    BY DEF Within
  <1>1. T \subseteq S
    <2>1. \A o \in S : Marks(h, o) \cap Whites(h) \subseteq S
      BY RefsHoldMarks DEF Within
    <2> HIDE DEF T, ks
    <2> QED
      BY <1>0, <2>1, ClosureWithin DEF T
  <1>2. TraversedBy(h, m, T)
    <2>1. T \in SUBSET Objs
      BY <1>0, <1>1
    <2>2. m = traverse(h, T)
      BY DEF propagateall
    <2> HIDE DEF T, m
    <2> QED
      BY <1>0, <2>1, <2>2, TraverseGives
  <1> HIDE DEF T, m
  <1>3. Marked(m) \subseteq Marked(h) \cup T
    BY <1>2 DEF Marked, TraversedBy
  <1>4. m \in GCState /\ SameRefs(h, m) /\ m.tmudata = h.tmudata
    BY <1>2 DEF TraversedBy, SameHeap, SameRefs
  <1>5. /\ Marked(m) \subseteq S /\ m.gray \subseteq S
        /\ m.grayagain \subseteq S /\ m.weak \subseteq S /\ m.tmudata \subseteq S
    BY <1>1, <1>2, <1>3, <1>4 DEF Within, TraversedBy
  <1>6. Within(m, S)
    BY <1>4, <1>5, StaysWithin
  <1> QED
    BY <1>6 DEF m

LEMMA RemarkedWithin ==
  ASSUME NEW h, NEW S, Within(h, S)
  PROVE  Within(Remarked(h), S)
  <1> DEFINE os == {UpvalValue(h, o) : o \in {u \in Objs : /\ Kind[u] = "upval" /\ IsOpen(h, u)
                                                         /\ h.color[u] = "gray"}}
             a1 == markobjects(h, os)
             a2 == propagateall(a1)
             a3 == FromWeak(a2)
             a4 == markobjects(a3, {Main})
             a5 == propagateall(a4)
             a6 == FromGrayAgain(a5)
             a7 == propagateall(a6)
  <1>1. os \cap Whites(h) \subseteq S
    <2> SUFFICES ASSUME NEW u \in Objs, Kind[u] = "upval", h.color[u] = "gray", UpvalValue(h, u) \in Whites(h)
                 PROVE  UpvalValue(h, u) \in S
      OBVIOUS
    <2>1. u \in S
      BY DEF Within, Marked
    <2>2. UpvalValue(h, u) # None
      BY GCAssumption DEF Whites
    <2>3. UpvalValue(h, u) \in Marks(h, u)
      BY <2>2 DEF Marks
    <2> QED
      BY <2>1, <2>3, RefsHoldMarks DEF Within
  <1> HIDE DEF os
  <1>2. Within(a2, S)
    BY <1>1, MarkobjectsWithin, PropagateallWithin
  <1> HIDE DEF a1, a2
  <1>3. Within(a3, S)
    <2>0. a2 \in GCState /\ a2.weak \in SUBSET Objs
      BY <1>2, Fields DEF Within
    <2>1. a3 = [a2 EXCEPT !.gray = a2.weak, !.weak = {}]
      BY DEF FromWeak
    <2> HIDE DEF a3
    <2>2. a3 \in GCState
      BY <2>0, <2>1 DEF GCState
    <2>3. /\ a3.color = a2.color /\ a3.key = a2.key /\ a3.val = a2.val /\ a3.at = a2.at /\ a3.stack = a2.stack
          /\ a3.gray = a2.weak /\ a3.grayagain = a2.grayagain /\ a3.weak = {} /\ a3.tmudata = a2.tmudata
      BY <2>0, <2>1 DEF GCState
    <2>4. SameRefs(a2, a3) /\ Marked(a3) = Marked(a2)
      BY <2>3 DEF SameRefs, Marked
    <2> QED
      BY <1>2, <2>2, <2>3, <2>4, StaysWithin DEF Within
  <1> HIDE DEF a3
  <1>4. Within(a5, S)
    <2>1. {Main} \cap Whites(a3) \subseteq S
      BY <1>3 DEF Within
    <2> QED
      BY <1>3, <2>1, MarkobjectsWithin, PropagateallWithin
  <1> HIDE DEF a4, a5
  <1>5. Within(a6, S)
    <2>0. a5 \in GCState /\ a5.grayagain \in SUBSET Objs
      BY <1>4, Fields DEF Within
    <2>1. a6 = [a5 EXCEPT !.gray = a5.grayagain, !.grayagain = {}]
      BY DEF FromGrayAgain
    <2> HIDE DEF a6
    <2>2. a6 \in GCState
      BY <2>0, <2>1 DEF GCState
    <2>3. /\ a6.color = a5.color /\ a6.key = a5.key /\ a6.val = a5.val /\ a6.at = a5.at /\ a6.stack = a5.stack
          /\ a6.gray = a5.grayagain /\ a6.grayagain = {} /\ a6.weak = a5.weak /\ a6.tmudata = a5.tmudata
      BY <2>0, <2>1 DEF GCState
    <2>4. SameRefs(a5, a6) /\ Marked(a6) = Marked(a5)
      BY <2>3 DEF SameRefs, Marked
    <2> QED
      BY <1>4, <2>2, <2>3, <2>4, StaysWithin DEF Within
  <1> HIDE DEF a6
  <1>6. Within(a7, S)
    BY <1>5, PropagateallWithin
  <1>7. Remarked(h) = a7
    BY DEF Remarked, remarkupvals, os, a1, a2, a3, a4, a5, a6
  <1> QED
    BY <1>6, <1>7

\* The userdata that will be finalized is marked with what it refers to.
LEMMA SeparatedWithin ==
  ASSUME NEW h, NEW S, Within(h, S), luaC_separateudata(h, FALSE).tmudata \subseteq S
  PROVE  Within(Separated(h), S)
  <1> DEFINE due == {o \in Allocated(h) : Kind[o] = "udata" /\ ~h.fin[o] /\ (FALSE \/ IsWhite(h, o))}
             s1 == luaC_separateudata(h, FALSE)
             s2 == Paint(s1, s1.tmudata, s1.white)
             s3 == markobjects(s2, s1.tmudata)
             s4 == propagateall(s3)
  <1>0. h \in GCState /\ due \in SUBSET Objs
    BY DEF Within, Allocated
  <1>1. SeparatedBy(h, s1, due) /\ SameRefs(h, s1)
    <2>1. s1 = Separate(h, due)
      BY DEF luaC_separateudata
    <2> HIDE DEF s1, due
    <2> QED
      BY <1>0, <2>1, SeparateGives
  <1>2. s1.tmudata \subseteq S
    OBVIOUS
  <1>3. Separated(h) = s4
    BY DEF Separated, marktmu
  <1> HIDE DEF due, s1
  <1>4. Within(s1, S)
    <2>1. /\ s1 \in GCState /\ Marked(s1) = Marked(h) /\ s1.gray = h.gray /\ s1.grayagain = h.grayagain
          /\ s1.weak = h.weak
      BY <1>1 DEF SeparatedBy, Marked
    <2> QED
      BY <1>1, <1>2, <2>1, StaysWithin DEF Within
  <1>5. PaintedBy(s1, s2, s1.tmudata, s1.white) /\ SameRefs(s1, s2) /\ s1.white \in {"w0", "w1"}
    <2>1. s1 \in GCState /\ s1.white \in {"w0", "w1"} /\ s1.white \in Colors
      BY <1>4, Fields DEF Within, Colors
    <2> QED
      BY <2>1, PaintGives
  <1> HIDE DEF s2
  <1>6. Within(s2, S)
    <2>1. /\ s2 \in GCState /\ s2.gray = s1.gray /\ s2.grayagain = s1.grayagain
          /\ s2.weak = s1.weak /\ s2.tmudata = s1.tmudata /\ Marked(s2) \subseteq Marked(s1)
      BY <1>5 DEF PaintedBy, SameHeap, Marked
    <2> QED
      BY <1>4, <1>5, <2>1, StaysWithin DEF Within
  <1>7. Within(s4, S)
    <2>1. s1.tmudata \cap Whites(s2) \subseteq S
      BY <1>2
    <2> QED
      BY <1>6, <2>1, MarkobjectsWithin, PropagateallWithin
  <1> QED
    BY <1>3, <1>7

\* Weak tables mark strings that they hold, and lose entries.
LEMMA CleartablesWithin ==
  ASSUME NEW h, NEW S, Within(h, S), \A o \in h.weak : Weak[o] # {}
  PROVE  Marked(cleartables(h)) \subseteq S
  <1> DEFINE entries == {o \in h.weak : h.val[o] # None}
             lost    == {o \in entries : iscleared(h, h.key[o], TRUE)}
             gone    == lost \cup {o \in entries : iscleared(h, h.val[o], FALSE)}
             strings == {v \in Objs : Kind[v] = "string" /\ \E o \in entries \ lost : v \in EntryRefs(h, o)}
             c == markobjects(h, strings)
             key == [o \in Objs |-> IF o \in gone THEN None ELSE h.key[o]]
             val == [o \in Objs |-> IF o \in gone THEN None ELSE h.val[o]]
             m == [c EXCEPT !.key = key, !.val = val]
  <1>1. cleartables(h) = m
    BY DEF cleartables
  <1>2. strings \subseteq S
    <2> SUFFICES ASSUME NEW v \in Objs, Kind[v] = "string", NEW o \in h.weak, h.val[o] # None, v \in EntryRefs(h, o)
                 PROVE  v \in S
      OBVIOUS
    <2>1. o \in S
      BY DEF Within
    <2>2. Kind[o] = "table"
      BY <2>1, GCAssumption DEF Within, Tables
    <2> QED
      BY <2>1, <2>2, RefsHoldMarks DEF Within
  <1> HIDE DEF strings, key, val
  <1>3. strings \cap Whites(h) \subseteq S
    BY <1>2
  <1>4. Within(c, S)
    BY <1>3, MarkobjectsWithin
  <1> HIDE DEF c
  <1>5. m.color = c.color
    BY <1>4 DEF Within, GCState
  <1> HIDE DEF m
  <1> QED
    BY <1>1, <1>4, <1>5 DEF Within, Marked

\* Marking does not change who waits.
LEMMA SeparatedWaits ==
  ASSUME NEW h \in GCState
  PROVE  /\ Separated(h).tmudata = luaC_separateudata(h, FALSE).tmudata
         /\ h.tmudata \subseteq luaC_separateudata(h, FALSE).tmudata
  <1> DEFINE due == {o \in Allocated(h) : Kind[o] = "udata" /\ ~h.fin[o] /\ (FALSE \/ IsWhite(h, o))}
             s1 == luaC_separateudata(h, FALSE)
             s2 == Paint(s1, s1.tmudata, s1.white)
             s3 == markobjects(s2, s1.tmudata)
             s4 == propagateall(s3)
  <1>1. SeparatedBy(h, s1, due)
    <2>1. s1 = Separate(h, due) /\ due \in SUBSET Objs
      BY DEF luaC_separateudata, Allocated
    <2> HIDE DEF s1, due
    <2> QED
      BY <2>1, SeparateGives
  <1>2. Separated(h) = s4
    BY DEF Separated, marktmu
  <1> HIDE DEF due, s1
  <1>3. s1 \in GCState /\ s1.white \in Colors /\ h.tmudata \subseteq s1.tmudata
    BY <1>1, Fields DEF SeparatedBy, Colors
  <1>4. PaintedBy(s1, s2, s1.tmudata, s1.white)
    BY <1>3, PaintGives
  <1> HIDE DEF s2
  <1>5. s2 \in GCState /\ s2.tmudata = s1.tmudata
    BY <1>4 DEF PaintedBy, SameHeap
  <1>6. PICK M : MarkedBy(s2, s3, M)
    BY <1>5, MarkobjectsGives
  <1> HIDE DEF s3
  <1>7. s3 \in GCState /\ s3.tmudata = s1.tmudata
    BY <1>5, <1>6 DEF MarkedBy, SameHeap
  <1>8. PICK T : TraversedBy(s3, s4, T)
    BY <1>7, PropagateallGives
  <1> QED
    BY <1>2, <1>3, <1>7, <1>8 DEF TraversedBy, SameHeap, s1

LEMMA CleartablesWaits ==
  ASSUME NEW h \in GCState
  PROVE  cleartables(h).tmudata = h.tmudata
  <1> DEFINE entries == {o \in h.weak : h.val[o] # None}
             lost    == {o \in entries : iscleared(h, h.key[o], TRUE)}
             gone    == lost \cup {o \in entries : iscleared(h, h.val[o], FALSE)}
             strings == {v \in Objs : Kind[v] = "string" /\ \E o \in entries \ lost : v \in EntryRefs(h, o)}
             c == markobjects(h, strings)
             key == [o \in Objs |-> IF o \in gone THEN None ELSE h.key[o]]
             val == [o \in Objs |-> IF o \in gone THEN None ELSE h.val[o]]
  <1>1. cleartables(h) = [c EXCEPT !.key = key, !.val = val]
    BY DEF cleartables
  <1> HIDE DEF strings, key, val
  <1>2. PICK M : MarkedBy(h, c, M)
    BY MarkobjectsGives
  <1> HIDE DEF c
  <1> QED
    BY <1>1, <1>2 DEF MarkedBy, SameHeap, GCState

\* What atomic leaves is marked, or dead; all that is marked is within S.
LEMMA AtomicWithin ==
  ASSUME NEW h, Sound(h), Marking(h), Main \in Marked(h), h.gray = {}
  PROVE  LET m == atomic(h) IN
         /\ h.tmudata \subseteq m.tmudata
         /\ \A o \in Allocated(m) : o \in Marked(m) \/ isdead(m, o)
         /\ \A S : Within(h, S) /\ m.tmudata \subseteq S => Marked(m) \subseteq S
  <1> DEFINE r == Remarked(h)
             s == Separated(r)
             c == cleartables(s)
             m == BeginSweep(c)
  <1>1. /\ Sound(r) /\ Marking(r) /\ Recolored(h, r) /\ r.gray = {}
        /\ \A o \in Marked(r) \ r.tmudata : Through(r, o)
    BY RemarkedThrough
  <1>2. Main \in Marked(r) /\ r.tmudata = h.tmudata /\ r \in GCState
    BY <1>1, RecoloredGrows DEF Sound, Recolored, SameHeap
  <1>3. \A S : Within(h, S) => Within(r, S)
    BY RemarkedWithin
  <1> HIDE DEF r
  <1>4. Ended(s)
    BY <1>1, <1>2, SeparatedEnds
  <1>5. h.tmudata \subseteq s.tmudata /\ s.tmudata = luaC_separateudata(r, FALSE).tmudata
    BY <1>2, SeparatedWaits
  <1>6. \A S : Within(r, S) /\ s.tmudata \subseteq S => Within(s, S)
    BY <1>5, SeparatedWithin
  <1> HIDE DEF s
  <1>7. s \in GCState /\ \A o \in s.weak : Weak[o] # {}
    BY <1>4 DEF Ended, Sound
  <1>8. Cleared(c) /\ c.tmudata = s.tmudata
    BY <1>4, <1>7, CleartablesClears, CleartablesWaits
  <1>9. \A S : Within(s, S) => Marked(c) \subseteq S
    BY <1>7, CleartablesWithin
  <1> HIDE DEF c
  <1>10. c \in GCState /\ NoneDead(c)
    BY <1>8 DEF Cleared
  <1>11. m.color = c.color /\ m.tmudata = c.tmudata /\ m.white = otherwhite(c)
    BY <1>10 DEF BeginSweep, GCState
  <1> HIDE DEF m
  <1>12. Marked(m) = Marked(c)
    BY <1>11 DEF Marked
  <1>13. ASSUME NEW o \in Allocated(m) PROVE o \in Marked(m) \/ isdead(m, o)
    <2>1. o \in Objs /\ m.color[o] # "free" /\ m.color[o] = c.color[o]
      BY <1>11, <1>13 DEF Allocated
    <2>2. c.color[o] \in Colors /\ c.white \in {"w0", "w1"} /\ c.color[o] # otherwhite(c)
      BY <1>10, <2>1, Fields DEF NoneDead, isdead
    <2>3. m.color[o] \in {"gray", "black"} \/ m.color[o] = otherwhite(m)
      BY <1>11, <2>1, <2>2 DEF Colors, otherwhite
    <2> QED
      BY <2>1, <2>3 DEF Marked, isdead
  <1>14. atomic(h) = m
    BY DEF atomic, m, c, s, r
  <1> QED
    BY <1>3, <1>5, <1>6, <1>8, <1>9, <1>11, <1>12, <1>13, <1>14

\* A sweep takes references away and adds none.
LEMMA SweptIsFewer ==
  ASSUME NEW h, Sound(h), NEW s, NEW os, NEW D, NEW L, NEW swept, SweptBy(h, s, os, D, L, swept)
  PROVE  Fewer(h, s)
  <1>0. /\ h \in GCState /\ ReleasedBy(h, s, D, L) /\ L \cap D = {}
        /\ \A o \in L : Kind[o] = "upval"
        /\ \A o \in Objs \ (D \cup L) : IsOpen(h, o) => h.at[o][1] \notin D
    BY DEF Sound, SweptBy
  <1>1. SUFFICES ASSUME NEW o \in Objs PROVE Refs(s, o) \subseteq Refs(h, o)
    BY DEF Fewer
  <1>2. CASE o \in D
    <2>1. s.val[o] = None /\ s.at[o] = <<None, 0>> /\ (o \in Threads => s.stack[o] = <<>>)
      BY <1>0, <1>2 DEF ReleasedBy
    <2>2. ~IsOpen(s, o) /\ UpvalValue(s, o) = None
      BY <2>1 DEF IsOpen, UpvalValue
    <2>3. Kind[o] = "thread" => Range(s.stack[o]) = {}
      BY <2>1 DEF Range, Threads
    <2>4. Marks(s, o) = {}
      BY <2>1, <2>2, <2>3, GCAssumption DEF Marks, StrongRefs
    <2> QED
      BY <2>1, <2>4 DEF Refs
  <1>3. CASE o \in L
    <2>1. s.val[o] = UpvalValue(h, o) /\ s.at[o] = <<None, 0>> /\ Kind[o] = "upval"
      BY <1>0, <1>3 DEF ReleasedBy
    <2>2. UpvalValue(s, o) = UpvalValue(h, o)
      BY <2>1 DEF IsOpen, UpvalValue
    <2> QED
      BY <2>1, <2>2 DEF Refs, Marks
  <1>4. CASE o \notin D \cup L
    <2>1. /\ s.key[o] = h.key[o] /\ s.val[o] = h.val[o] /\ s.at[o] = h.at[o]
          /\ o \in Threads => s.stack[o] = h.stack[o]
      BY <1>0, <1>4 DEF ReleasedBy
    <2>2. (IsOpen(s, o) <=> IsOpen(h, o)) /\ UpvalValue(s, o) = UpvalValue(h, o)
      <3>1. CASE IsOpen(h, o)
        <4>1. h.at[o][1] \in Threads /\ h.at[o][1] \notin D
          BY <1>0, <1>4, <3>1, Fields DEF IsOpen
        <4>2. s.stack[h.at[o][1]] = h.stack[h.at[o][1]]
          BY <1>0, <4>1 DEF ReleasedBy
        <4> QED
          BY <2>1, <3>1, <4>2 DEF IsOpen, UpvalValue
      <3>2. CASE ~IsOpen(h, o)
        BY <2>1, <3>2 DEF IsOpen, UpvalValue
      <3> QED
        BY <3>1, <3>2
    <2>3. EntryRefs(s, o) = EntryRefs(h, o) /\ StrongRefs(s, o) = StrongRefs(h, o)
      BY <2>1 DEF EntryRefs, StrongRefs
    <2>4. Marks(s, o) = Marks(h, o)
      BY <2>1, <2>2, <2>3 DEF Marks, Threads
    <2> QED
      BY <2>1, <2>3, <2>4 DEF Refs
  <1> QED
    BY <1>2, <1>3, <1>4

\* The whole sweep leaves nothing that was dead.
LEMMA SweepallFrees ==
  ASSUME NEW h, Sound(h), h.phase \in {"sweep", "finalize"}, Phase(h)
  PROVE  LET m == sweepall(h) IN
         /\ Fewer(h, m) /\ m.calls = h.calls /\ m.tmudata = h.tmudata
         /\ \A o \in Allocated(m) : o \in Allocated(h) /\ ~isdead(h, o)
  <1> DEFINE m == sweepall(h)
  <1>0. Sound(m) /\ Clean(m) /\ Collects(h, m)
    BY SweepallCleans
  <1>1. CASE h.phase = "finalize"
    <2>1. m = h
      BY <1>1 DEF sweepall
    <2> QED
      BY <1>0, <2>1 DEF Fewer, Clean, NoneDead, Allocated
  <1>2. CASE h.phase = "sweep"
    <2> DEFINE s == sweeplist(h, h.unswept)
    <2>0. Sweeping(h)
      BY <1>2 DEF Phase
    <2>1. PICK D, L, swept : SweptBy(h, s, h.unswept, D, L, swept)
      BY <2>0, SweptTogether
    <2>2. m = [s EXCEPT !.unswept = @ \ h.unswept, !.phase = IF h.unswept \subseteq h.unswept THEN "finalize" ELSE @]
      BY <1>2 DEF sweepall, sweepstep
    <2> HIDE DEF s, m
    <2>3. s \in GCState /\ s.calls = h.calls /\ s.white = h.white /\ s.tmudata = h.tmudata
      BY <2>1 DEF SweptBy, ReleasedBy
    <2>4. /\ m.color = s.color /\ m.key = s.key /\ m.val = s.val /\ m.at = s.at /\ m.stack = s.stack
          /\ m.calls = s.calls /\ m.white = s.white /\ m.tmudata = s.tmudata
      BY <2>2, <2>3 DEF GCState
    <2>5. Fewer(h, m)
      <3>1. Fewer(h, s)
        BY <2>1, SweptIsFewer
      <3>2. SameRefs(s, m)
        BY <2>4 DEF SameRefs
      <3> QED
        BY <3>1, <3>2, RefsOfSame DEF Fewer
    <2>6. ASSUME NEW o \in Allocated(m) PROVE o \in Allocated(h) /\ ~isdead(h, o)
      <3>1. o \in Objs /\ o \in Allocated(h) /\ ~isdead(m, o) /\ m.color[o] # "free"
        BY <1>0, <2>6 DEF Clean, NoneDead, Collects, Allocated
      <3>2. otherwhite(m) = otherwhite(h)
        BY <2>3, <2>4 DEF otherwhite
      <3>3. SUFFICES ASSUME isdead(h, o) PROVE FALSE
        BY <3>1
      <3>4. o \notin D
        BY <2>1, <2>4, <3>1 DEF SweptBy, ReleasedBy
      <3>5. o \notin swept
        BY <2>1, <3>3, <3>4 DEF SweptBy
      <3>6. m.color[o] = h.color[o]
        BY <2>1, <2>4, <3>1, <3>5 DEF SweptBy
      <3> QED
        BY <3>1, <3>2, <3>3, <3>6 DEF isdead
    <2> QED
      BY <2>3, <2>4, <2>5, <2>6 DEF m
  <1> QED
    BY <1>1, <1>2

\* A full collection calls the finalizers of what waits when it marks.
LEMMA CallGCTMCounts ==
  ASSUME NEW h \in GCState
  PROVE  \A o \in Objs : luaC_callGCTM(h).calls[o] = IF o \in h.tmudata THEN h.calls[o] + 1 ELSE h.calls[o]
  <1> DEFINE p == Paint(h, h.tmudata, h.white)
             calls == [o \in Objs |-> IF o \in h.tmudata THEN h.calls[o] + 1 ELSE h.calls[o]]
  <1>1. p \in GCState
    <2>1. h.white \in Colors
      BY Fields DEF Colors
    <2> QED
      BY <2>1, PaintGives DEF PaintedBy, SameHeap
  <1>2. luaC_callGCTM(h) = [p EXCEPT !.tmudata = {}, !.calls = calls]
    BY DEF luaC_callGCTM
  <1> HIDE DEF p
  <1>3. luaC_callGCTM(h).calls = calls
    BY <1>1, <1>2 DEF GCState
  <1> QED
    BY <1>3

\* A set that holds the main thread and what is finalized, and refers to
\* nothing else, holds all that is left.
LEMMA FullGCLeaves ==
  ASSUME NEW h, Sound(h), Phase(h), NEW S \in SUBSET Objs, Main \in S,
         {o \in Objs : luaC_fullgc(h).calls[o] > h.calls[o]} \subseteq S,
         \A x \in S : Refs(h, x) \subseteq S
  PROVE  Allocated(luaC_fullgc(h)) \subseteq S
  <1> DEFINE r == IF h.phase \in {"pause", "propagate"}
                  THEN [h EXCEPT !.gray = {}, !.grayagain = {}, !.weak = {}, !.phase = "sweep",
                                 !.unswept = SweepList(h)]
                  ELSE h
             s == sweepall(r)
             e == [s EXCEPT !.gray = {}, !.grayagain = {}, !.weak = {}, !.phase = "propagate"]
             k == markobjects(e, {Main})
             p == propagateall(k)
             a == atomic(p)
             t == sweepall(a)
             c == luaC_callGCTM(t)
             m == [c EXCEPT !.phase = "pause"]
  <1>0. h \in GCState /\ h.phase \in {"pause", "propagate", "sweep", "finalize"}
    BY Fields DEF Sound
  <1>1. luaC_fullgc(h) = m
    BY DEF luaC_fullgc, markroot
  <1>2. /\ Sound(r) /\ r.phase \in {"sweep", "finalize"} /\ Phase(r)
        /\ SameRefs(h, r) /\ r.calls = h.calls /\ r.tmudata = h.tmudata
    <2>1. CASE h.phase \in {"pause", "propagate"}
      <3>1. SweepList(h) \in SUBSET Objs
        BY DEF SweepList, Allocated
      <3>2. r \in GCState
        BY <1>0, <2>1, <3>1 DEF GCState
      <3>3. SameObjects(h, r) /\ r.unswept = SweepList(h) /\ r.phase = "sweep"
        BY <1>0, <2>1, <3>2 DEF GCState, SameObjects
      <3> HIDE DEF r
      <3>4. Sound(r) /\ Sweeping(r) /\ SameRefs(h, r)
        BY <3>3, SameObjectsSound, ResetSweeps
      <3> QED
        BY <3>3, <3>4 DEF Phase, SameObjects
    <2>2. CASE h.phase \notin {"pause", "propagate"}
      BY <1>0, <2>2 DEF SameRefs
    <2> QED
      BY <2>1, <2>2
  <1> HIDE DEF r
  <1>3. Sound(s) /\ Clean(s) /\ Fewer(r, s) /\ s.calls = h.calls /\ s.tmudata = h.tmudata
    BY <1>2, SweepallCleans, SweepallFrees
  <1>4. \A x \in S : Refs(s, x) \subseteq S
    <2>1. \A x \in Objs : Refs(s, x) \subseteq Refs(h, x)
      BY <1>2, <1>3, RefsOfSame DEF Fewer
    <2> QED
      BY <2>1
  <1> HIDE DEF s
  <1>5. /\ Sound(k) /\ Marking(k) /\ Main \in Marked(k) /\ k.calls = s.calls
    BY <1>3, MarkrootMarks DEF markroot
  <1>6. /\ e \in GCState /\ SameRefs(s, e) /\ e.color = s.color /\ e.tmudata = s.tmudata
        /\ e.gray = {} /\ e.grayagain = {} /\ e.weak = {}
    BY <1>3 DEF Sound, GCState, SameRefs
  <1> HIDE DEF e
  <1>7. k.tmudata = h.tmudata /\ (s.tmudata \subseteq S => Within(k, S))
    <2>1. PICK M : MarkedBy(e, k, M)
      BY <1>6, MarkobjectsGives
    <2>2. Marked(e) \subseteq s.tmudata
      <3>1. s.white \in {"w0", "w1"}
        BY <1>3, Fields DEF Sound
      <3> QED
        BY <1>3, <1>6, <3>1 DEF Marked, Clean, Allocated
    <2>3. \A x \in S : Refs(e, x) = Refs(s, x)
      BY <1>6, RefsOfSame
    <2>4. s.tmudata \subseteq S => Within(e, S)
      BY <1>4, <1>6, <2>2, <2>3 DEF Within
    <2>5. {Main} \cap Whites(e) \subseteq S
      OBVIOUS
    <2> QED
      BY <1>3, <1>6, <2>1, <2>4, <2>5, MarkobjectsWithin DEF MarkedBy, SameHeap
  <1> HIDE DEF k
  <1>8. Sound(p) /\ Marking(p) /\ Recolored(k, p) /\ p.gray = {}
    BY <1>5, PropagatingThrough
  <1>9. s.tmudata \subseteq S => Within(p, S)
    BY <1>7, PropagateallWithin
  <1> HIDE DEF p
  <1>10. Main \in Marked(p) /\ p.calls = h.calls /\ p.tmudata = h.tmudata
    BY <1>3, <1>5, <1>7, <1>8, RecoloredGrows DEF Sound, Recolored, SameHeap
  <1>11. Sound(a) /\ a.phase = "sweep" /\ Sweeping(a) /\ a.calls = p.calls
    BY <1>8, <1>10, AtomicSweeps
  <1>12. /\ p.tmudata \subseteq a.tmudata
         /\ \A o \in Allocated(a) : o \in Marked(a) \/ isdead(a, o)
         /\ Within(p, S) /\ a.tmudata \subseteq S => Marked(a) \subseteq S
    BY <1>8, <1>10, AtomicWithin
  <1> HIDE DEF a
  <1>13. /\ Sound(t) /\ Clean(t) /\ t.calls = a.calls /\ t.tmudata = a.tmudata
         /\ \A o \in Allocated(t) : o \in Allocated(a) /\ ~isdead(a, o)
    BY <1>11, SweepallCleans, SweepallFrees DEF Phase
  <1> HIDE DEF t
  <1>14. /\ c \in GCState /\ Allocated(c) \subseteq Allocated(t)
         /\ \A o \in Objs : c.calls[o] = IF o \in t.tmudata THEN t.calls[o] + 1 ELSE t.calls[o]
    BY <1>13, CallGCTMCalls, CallGCTMCounts DEF Collects, Sound
  <1> HIDE DEF c
  <1>15. m.calls = c.calls /\ m.color = c.color
    BY <1>14 DEF GCState
  <1> HIDE DEF m
  <1>16. a.tmudata \subseteq S
    <2>1. ASSUME NEW o \in a.tmudata PROVE o \in S
      <3>1. o \in Objs /\ h.calls[o] \in Nat
        BY <1>0, <1>11, <2>1, Fields DEF Sound
      <3>2. m.calls[o] = h.calls[o] + 1
        BY <1>10, <1>11, <1>13, <1>14, <1>15, <2>1, <3>1
      <3>3. m.calls[o] > h.calls[o]
        BY <3>1, <3>2
      <3> QED
        BY <1>1, <3>1, <3>3
    <2> QED
      BY <2>1
  <1>17. Marked(a) \subseteq S
    BY <1>3, <1>9, <1>10, <1>12, <1>16
  <1>18. Allocated(m) \subseteq Marked(a)
    BY <1>12, <1>13, <1>14, <1>15 DEF Allocated
  <1> QED
    BY <1>1, <1>17, <1>18

LEMMA InvCollects == GCInv => FullGCCollects
  <1> SUFFICES ASSUME GCInv PROVE FullGCCollects
    OBVIOUS
  <1> DEFINE h == luaC_fullgc(g)
             finalized == {o \in Objs : h.calls[o] > g.calls[o]}
  <1>1. Sound(g) /\ Phase(g) /\ pool \subseteq Objs
    BY DEF GCInv
  <1>2. ASSUME NEW o \in Allocated(h), NEW S \in SUBSET pool,
               {Main} \cup finalized \subseteq S, \A x \in S : Refs(g, x) \subseteq S
        PROVE  o \in S
    <2>1. S \in SUBSET Objs /\ Main \in S /\ finalized \subseteq S
      BY <1>1, <1>2
    <2>2. Allocated(h) \subseteq S
      BY <1>1, <1>2, <2>1, FullGCLeaves
    <2> QED
      BY <1>2, <2>2
  <1>3. Allocated(h) \subseteq Objs
    BY DEF Allocated
  <1> HIDE DEF h, finalized
  <1>4. Allocated(h) \subseteq ReachFrom(g, {Main} \cup finalized)
    BY <1>2, <1>3 DEF ReachFrom
  <1> QED
    BY <1>4 DEF FullGCCollects, h, finalized

\* The collector's state has its types, in every heap and whatever the program
\* does with it.
THEOREM GCTypes == GCSpec => []GCTypeOK
  <1>1. GCInv => GCTypeOK
    BY DEF GCInv, GCTypeOK, Sound
  <1> QED
    BY <1>1, InitIsSound, InvIsInductive, PTL DEF GCSpec

\* Nothing the program can reach, and nothing that waits for its finalizer, is
\* freed or condemned, for every set of objects, weak tables, stacks and pace
\* of the sweep: the barriers and atomic catch every reference the program
\* moves while the collector marks, and luaF_close and luaS_newlstr all it
\* moves while the collector sweeps (lgc.c, lfunc.c, lstring.c).
THEOREM LiveIsKeptAlways == GCSpec => []LiveIsKept
  BY InitIsSound, InvIsInductive, InvKeepsLive, PTL DEF GCSpec

\* A userdata is freed only when its __gc has run, once (luaC_separateudata,
\* GCTM, luaC_callGCTMudata).
THEOREM UserdataFinalizedOnce == GCSpec => FinalizedOnce
  <1> DEFINE Once == \A o \in Objs : Kind[o] = "udata" =>
                       /\ g'.calls[o] <= 1
                       /\ (o \in Allocated(g) /\ o \notin Allocated(g')) => g'.calls[o] = 1
  <1>1. GCInv /\ [GCNext]_gcVars => [Once]_gcVars
    <2>1. ASSUME GCInv, GCNext PROVE Once
      <3>1. Follows(g')
        BY <2>1, NextFollows
      <3>2. Finalizers(g')
        BY <3>1 DEF Follows, Sound
      <3> QED
        BY <3>1, <3>2 DEF Follows, Finalizers
    <2> QED
      BY <2>1
  <1> QED
    BY <1>1, InitIsSound, InvIsInductive, PTL DEF GCSpec, FinalizedOnce

\* A full collection, whatever cycle it interrupts, keeps nothing that neither
\* the main thread nor a userdata it finalizes reached (luaC_fullgc): neither
\* the marks of the interrupted cycle nor the lists of its threads, weak tables
\* and open upvalues hold garbage back.
THEOREM FullGCCollectsAll == GCSpec => []FullGCCollects
  BY InitIsSound, InvIsInductive, InvCollects, PTL DEF GCSpec

=============================================================================
