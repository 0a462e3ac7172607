---------------------------- MODULE LuaTableProofs ----------------------------
(* Proofs about LuaTable, for any finite set of string keys with any hash      *)
(* values and any positive integers: a table is a map, next traverses it, and  *)
(* the length luaH_getn finds is a border.                                     *)
EXTENDS LuaTable, DataLemmas, FiniteSetTheorems

-----------------------------------------------------------------------------
(* What a table is between two calls.                                         *)

Values == Keys \cup {nil}
Node == [key: Values, dead: BOOLEAN, val: Values, next: Nat]
Table == [array: Seq(Values), node: Seq(Node), lastfree: Nat]

Nodes(tab) == 1 .. Len(tab.node)
Keyed(tab) == {i \in Nodes(tab) : tab.node[i].key # nil}
Home(tab, i) == mainposition(tab, tab.node[i].key)
From(tab, i) == Chain(Links(tab), i)

\* Chains do not meet and have an end.
Chained(next) ==
  /\ \A i, j \in DOMAIN next : next[i] = next[j] /\ next[i] # 0 => i = j
  /\ \A i \in DOMAIN next : next[i] # 0 => i \notin Chain(next, next[i])

ArrayInv(tab) == \A i \in 1 .. Len(tab.array) : tab.array[i] # nil => i \in IntKeys /\ tab.array[i] = i

\* A node without a key was never used, and the nodes from lastfree on all were.
NodeInv(tab, i) ==
  LET n == tab.node[i] IN
  /\ n.val \in {nil, n.key}
  /\ n.dead => n.val = nil /\ n.key \in StrKeys
  /\ n.key \in IntKeys => n.key > Len(tab.array)
  /\ n.key = nil => n.next = 0 /\ i < tab.lastfree
  /\ n.next # 0 => n.next \in Keyed(tab)

\* A key is in the chain of its main position, and a main position that is
\* wanted has a key of its own.
HomeInv(tab, i) == /\ Home(tab, i) \in Keyed(tab)
                   /\ Home(tab, Home(tab, i)) = Home(tab, i)
                   /\ i \in From(tab, Home(tab, i))

\* A key has one node, apart from dead ones that come after it.
OneNode(tab) ==
  \A i, j \in Keyed(tab) :
    tab.node[i].key = tab.node[j].key /\ ~tab.node[i].dead /\ i # j => tab.node[j].dead /\ j \in From(tab, i)

TableInv(tab) ==
  /\ tab \in Table
  /\ Chained(Links(tab))
  /\ ArrayInv(tab)
  /\ \A i \in Nodes(tab) : NodeInv(tab, i)
  /\ \A i \in Keyed(tab) : HomeInv(tab, i)
  /\ OneNode(tab)

Places(tab) == 1 .. Len(tab.array) + Len(tab.node)

\* next has returned what is present up to the control key, and nothing else
\* that is present.
TraversalInv ==
  /\ running \in BOOLEAN /\ visited \in Seq(Keys) /\ key \in Values
  /\ ~running => key = nil
  /\ key = nil => visited = <<>>
  /\ key # nil => /\ findindex(t, key) \in Places(t)
                  /\ \A j \in Places(t) :
                       ValueAt(t, j) # nil => (ValueAt(t, j) \in Range(visited) <=> j <= findindex(t, key))

IInv == TableInv(t) /\ TraversalInv

-----------------------------------------------------------------------------
(* Powers of two and main positions.                                          *)

LEMMA TwotoSteps == /\ twoto \in [Nat -> Nat] /\ twoto[0] = 1
                    /\ \A e \in Nat : twoto[e + 1] = 2 * twoto[e]
  <1> DEFINE step == [p \in Nat \X Nat |-> 2 * p[2]]
  <1>1. step \in [Nat \X Nat -> Nat]
    OBVIOUS
  <1>2. PICK f : Runs(1, step, Nat, f)
    BY <1>1, NatRecursion
  <1>3. f \in [Nat -> Nat] /\ f[0] = 1 /\ \A e \in Nat : f[e + 1] = 2 * f[e]
    BY <1>2 DEF Runs
  <1>4. f = [e \in Nat |-> IF e = 0 THEN 1 ELSE 2 * f[e - 1]]
    <2>1. ASSUME NEW e \in Nat PROVE f[e] = IF e = 0 THEN 1 ELSE 2 * f[e - 1]
      <3>1. CASE e = 0
        BY <1>3, <3>1
      <3>2. CASE e # 0
        <4>1. e - 1 \in Nat /\ (e - 1) + 1 = e
          BY <3>2
        <4> QED
          BY <1>3, <3>2, <4>1
      <3> QED
        BY <3>1, <3>2
    <2> QED
      BY <1>3, <2>1
  <1>5. twoto = [e \in Nat |-> IF e = 0 THEN 1 ELSE 2 * twoto[e - 1]]
    BY <1>4, Zenon DEF twoto
  <1> DEFINE T == {e \in Nat : twoto[e] = f[e]}
  <1>6. 0 \in T
    BY <1>3, <1>5
  <1>7. ASSUME NEW e \in Nat, e \in T PROVE e + 1 \in T
    <2>1. e + 1 \in Nat /\ e + 1 # 0 /\ (e + 1) - 1 = e
      OBVIOUS
    <2>2. twoto[e + 1] = 2 * twoto[e]
      BY <1>5, <2>1
    <2> QED
      BY <1>3, <1>7, <2>1, <2>2
  <1>8. \A e \in Nat : twoto[e] = f[e]
    <2>1. Nat \subseteq T
      BY <1>6, <1>7, NatSetInduction
    <2> QED
      BY <2>1
  <1>9. twoto = f
    BY <1>3, <1>5, <1>8
  <1> QED
    BY <1>3, <1>9

LEMMA TwotoGrows == \A e \in Nat : twoto[e] \in Nat /\ twoto[e] >= e + 1
  <1> DEFINE T == {e \in Nat : twoto[e] >= e + 1}
  <1>1. 0 \in T
    BY TwotoSteps
  <1>2. ASSUME NEW e \in Nat, e \in T PROVE e + 1 \in T
    BY <1>2, TwotoSteps
  <1>3. Nat \subseteq T
    BY <1>1, <1>2, NatSetInduction
  <1> QED
    BY <1>3, TwotoSteps

LEMMA Ceillog2Above ==
  ASSUME NEW x \in Nat
  PROVE  ceillog2(x) \in Nat /\ twoto[ceillog2(x)] >= x
  <1> DEFINE T == {e \in Nat : twoto[e] >= x}
  <1>1. x \in T
    BY TwotoGrows
  <1>2. PICK e \in T : \A f \in T : e <= f
    BY <1>1, LeastNat
  <1>3. e \in 0 .. x /\ twoto[e] >= x /\ \A f \in 0 .. e - 1 : twoto[f] < x
    <2>1. e <= x
      BY <1>1, <1>2
    <2>2. ASSUME NEW f \in 0 .. e - 1 PROVE twoto[f] < x
      <3>1. f \in Nat /\ ~(e <= f)
        OBVIOUS
      <3>2. ~(twoto[f] >= x)
        BY <1>2, <3>1
      <3> QED
        BY <3>1, <3>2, TwotoGrows
    <2> QED
      BY <2>1, <2>2
  <1> DEFINE c == ceillog2(x)
  <1>4. c \in 0 .. x /\ twoto[c] >= x
    BY <1>3, Zenon DEF ceillog2
  <1> QED
    BY <1>4

LEMMA MaxIs ==
  ASSUME NEW n \in Nat, NEW T \in SUBSET (0 .. n), T # {}
  PROVE  Max(T) \in T /\ \A k \in T : k <= Max(T)
  <1>1. \E m \in T : \A k \in T : m >= k
    BY GreatestNat
  <1>2. Max(T) \in T /\ \A k \in T : Max(T) >= k
    BY <1>1, Zenon DEF Max
  <1> QED
    BY <1>2

LEMMA MinIs ==
  ASSUME NEW T \in SUBSET Nat, T # {}
  PROVE  Min(T) \in T /\ \A k \in T : Min(T) <= k
  <1>1. \E m \in T : \A k \in T : m <= k
    BY LeastNat
  <1> QED
    BY <1>1, Zenon DEF Min

LEMMA HashType == \A n \in Nat \ {0} : HashNum(n) \in Int
  <1> SUFFICES ASSUME NEW n \in Nat \ {0} PROVE HashNum(n) \in Int
    OBVIOUS
  <1> DEFINE T == {e \in 0 .. n : twoto[e] <= n}
  <1>1. 0 \in T
    BY TwotoSteps
  <1>2. log2(n) \in T
    BY <1>1, MaxIs DEF log2
  <1>3. log2(n) \in Nat /\ twoto[log2(n)] \in Nat \ {0}
    BY <1>2, TwotoGrows
  <1> QED
    BY <1>3 DEF HashNum

LEMMA MainType ==
  ASSUME NEW tab, Len(tab.node) \in Nat \ {0}, NEW k \in Keys
  PROVE  mainposition(tab, k) \in Nodes(tab)
  <1> DEFINE size == Len(tab.node)
  <1>1. CASE k \in IntKeys
    <2>1. HashNum(k) \in Int
      BY <1>1, HashType, TableAssumption
    <2>2. \A h \in Int, d \in Nat \ {0} : h % d \in 0 .. d - 1
      OBVIOUS
    <2> DEFINE d == IF size = 1 THEN 1 ELSE size - 1
    <2>3. d \in Nat \ {0} /\ d <= size
      OBVIOUS
    <2>4. HashNum(k) % d \in 0 .. d - 1
      BY <2>1, <2>2, <2>3
    <2>5. mainposition(tab, k) = 1 + (HashNum(k) % d)
      BY <1>1 DEF mainposition
    <2> HIDE DEF d
    <2> QED
      BY <2>3, <2>4, <2>5 DEF Nodes
  <1>2. CASE k \notin IntKeys
    <2>1. StrHash[k] \in Nat
      BY <1>2, TableAssumption DEF Keys
    <2>2. \A h, d \in Nat : d # 0 => h % d \in 0 .. d - 1
      OBVIOUS
    <2>3. StrHash[k] % size \in 0 .. size - 1
      BY <2>1, <2>2
    <2>4. mainposition(tab, k) = 1 + (StrHash[k] % size)
      BY <1>2 DEF mainposition
    <2> QED
      BY <2>3, <2>4 DEF Nodes
  <1> QED
    BY <1>1, <1>2

-----------------------------------------------------------------------------
(* Chains. next has, for each of L nodes, the next one of its chain, or 0.     *)

Walk(next, i) == LET at[n \in Nat] == IF n = 0 THEN i ELSE IF at[n - 1] = 0 THEN 0 ELSE next[at[n - 1]] IN at
Onward(next, j) == IF j = 0 THEN 0 ELSE next[j]
Closed(next, S) == \A n \in S : next[n] \in S \cup {0}

LEMMA WalkSteps ==
  ASSUME NEW L \in Nat, NEW next \in [1 .. L -> 0 .. L], NEW i \in 1 .. L
  PROVE  /\ Walk(next, i) \in [Nat -> 0 .. L]
         /\ Walk(next, i)[0] = i
         /\ \A n \in Nat : Walk(next, i)[n + 1] = Onward(next, Walk(next, i)[n])
  <1> DEFINE onward(j) == Onward(next, j)
             step == [p \in Nat \X (0 .. L) |-> onward(p[2])]
             W == Walk(next, i)
  <1>1. \A j \in 0 .. L : onward(j) \in 0 .. L
    BY DEF Onward
  <1>2. step \in [Nat \X (0 .. L) -> 0 .. L]
    BY <1>1
  <1>3. PICK f : Runs(i, step, 0 .. L, f)
    <2>1. i \in 0 .. L
      OBVIOUS
    <2> HIDE DEF step
    <2> QED
      BY <1>2, <2>1, NatRecursion, Zenon
  <1> HIDE DEF onward
  <1>4. f \in [Nat -> 0 .. L] /\ f[0] = i /\ \A n \in Nat : f[n + 1] = onward(f[n])
    BY <1>3 DEF Runs
  <1>5. f = [n \in Nat |-> IF n = 0 THEN i ELSE onward(f[n - 1])]
    <2>1. ASSUME NEW n \in Nat PROVE f[n] = IF n = 0 THEN i ELSE onward(f[n - 1])
      <3>1. CASE n = 0
        BY <1>4, <3>1
      <3>2. CASE n # 0
        <4>1. n - 1 \in Nat /\ (n - 1) + 1 = n
          BY <3>2
        <4> QED
          BY <1>4, <3>2, <4>1
      <3> QED
        BY <3>1, <3>2
    <2> QED
      BY <1>4, <2>1
  <1>6. W = [n \in Nat |-> IF n = 0 THEN i ELSE onward(W[n - 1])]
    BY <1>5, Zenon DEF Walk, onward, Onward
  <1> HIDE DEF W
  <1>7. W[0] = i /\ \A n \in Nat : W[n + 1] = onward(W[n])
    <2>1. ASSUME NEW n \in Nat PROVE W[n + 1] = onward(W[n])
      <3>1. n + 1 \in Nat /\ n + 1 # 0 /\ (n + 1) - 1 = n
        OBVIOUS
      <3> QED
        BY <1>6, <3>1
    <2> QED
      BY <1>6, <2>1
  <1> DEFINE T == {n \in Nat : W[n] \in 0 .. L}
  <1>8. 0 \in T
    <2>1. W[0] = i
      BY <1>7
    <2> QED
      BY <2>1
  <1>9. ASSUME NEW n \in Nat, n \in T PROVE n + 1 \in T
    <2>1. W[n + 1] = onward(W[n])
      BY <1>7
    <2> QED
      BY <1>1, <1>9, <2>1, SMTT(45)
  <1>10. \A n \in Nat : W[n] \in 0 .. L
    <2>1. Nat \subseteq T
      BY <1>8, <1>9, NatSetInduction
    <2> QED
      BY <2>1
  <1>11. W \in [Nat -> 0 .. L]
    BY <1>6, <1>10
  <1> QED
    BY <1>7, <1>11 DEF W, onward

LEMMA ChainIs ==
  ASSUME NEW L \in Nat, NEW next \in [1 .. L -> 0 .. L], NEW i
  PROVE  Chain(next, i) = {Walk(next, i)[n] : n \in 0 .. L - 1} \ {0}
  <1>1. Len(next) = L
    BY LenProperties
  <1> QED
    BY <1>1, Zenon DEF Chain, Walk

\* A walk of L + 1 steps comes back to a node it has been at, or has ended.
LEMMA WalkEnds ==
  ASSUME NEW L \in Nat, NEW next \in [1 .. L -> 0 .. L], NEW i \in 1 .. L
  PROVE  Walk(next, i)[L] \in Chain(next, i) \cup {0}
  <1> DEFINE W == Walk(next, i)
  <1>0. W[0] = i
    BY WalkSteps
  <1>1. \A n \in Nat : W[n] \in 0 .. L
    BY WalkSteps
  <1>9. \A n \in Nat : W[n + 1] = Onward(next, W[n])
    BY WalkSteps
  <1> HIDE DEF W
  <1>2. SUFFICES ASSUME W[L] # 0 PROVE \E n \in 0 .. L - 1 : W[n] = W[L]
    BY <1>2, ChainIs DEF W
  <1>3. \A n \in 0 .. L : W[n] # 0
    <2> DEFINE T == {k \in Nat : k <= L => W[L - k] # 0}
    <2>1. 0 \in T
      BY <1>2
    <2>2. ASSUME NEW k \in Nat, k \in T PROVE k + 1 \in T
      <3>1. CASE k + 1 <= L
        <4>1. L - (k + 1) \in Nat /\ (L - (k + 1)) + 1 = L - k
          BY <3>1
        <4>2. W[L - k] # 0
          BY <2>2, <3>1
        <4>3. W[(L - (k + 1)) + 1] = 0 \/ W[L - (k + 1)] # 0
          BY <1>9, <4>1, Zenon DEF Onward
        <4> QED
          BY <4>1, <4>2, <4>3
      <3> QED
        BY <3>1
    <2>3. Nat \subseteq T
      BY <2>1, <2>2, NatSetInduction
    <2>4. ASSUME NEW n \in 0 .. L PROVE W[n] # 0
      <3> DEFINE k == L - n
      <3>1. k \in Nat /\ k <= L /\ L - k = n
        OBVIOUS
      <3> HIDE DEF k
      <3>2. W[L - k] # 0
        BY <2>3, <3>1
      <3> QED
        BY <3>1, <3>2
    <2> QED
      BY <2>4
  <1>4. PICK a \in 0 .. L, b \in 0 .. L : a < b /\ W[a] = W[b]
    <2> DEFINE f == [n \in 0 .. L |-> W[n]]
    <2>1. f \in [0 .. L -> 1 .. L]
      BY <1>1, <1>3
    <2>2. IsFiniteSet(0 .. L) /\ Cardinality(0 .. L) = L + 1
      BY FS_Interval
    <2>3. IsFiniteSet(1 .. L) /\ Cardinality(1 .. L) = L
      BY FS_Interval
    <2> HIDE DEF f
    <2>4. \E x, y \in 0 .. L : x # y /\ f[x] = f[y]
      <3> DEFINE A == 0 .. L
                 B == 1 .. L
      <3>1. IsFiniteSet(A) /\ IsFiniteSet(B) /\ Cardinality(B) < Cardinality(A)
        BY <2>2, <2>3
      <3>2. f \in [A -> B]
        BY <2>1
      <3> HIDE DEF A, B
      <3>3. \E x, y \in A : x # y /\ f[x] = f[y]
        BY <3>1, <3>2, FS_PigeonHole, Zenon
      <3> QED
        BY <3>3 DEF A
    <2>5. PICK x \in 0 .. L, y \in 0 .. L : x # y /\ W[x] = W[y]
      BY <2>4 DEF f
    <2>6. x < y \/ y < x
      BY <2>5
    <2> QED
      BY <2>5, <2>6
  <1>5. \A k \in Nat : W[a + k] = W[b + k]
    <2> DEFINE T == {k \in Nat : W[a + k] = W[b + k]}
    <2>1. 0 \in T
      BY <1>4
    <2>2. ASSUME NEW k \in Nat, k \in T PROVE k + 1 \in T
      <3>1. a + k \in Nat /\ b + k \in Nat /\ a + (k + 1) = (a + k) + 1 /\ b + (k + 1) = (b + k) + 1
        OBVIOUS
      <3>2. W[a + k] = W[b + k]
        BY <2>2
      <3>3. W[(a + k) + 1] = W[(b + k) + 1]
        <4>1. \A m, n \in Nat : W[m] = W[n] => W[m + 1] = W[n + 1]
          BY <1>9, Zenon
        <4> QED
          BY <3>1, <3>2, <4>1, Zenon
      <3> QED
        BY <3>1, <3>3
    <2>3. Nat \subseteq T
      BY <2>1, <2>2, NatSetInduction
    <2> QED
      BY <2>3
  <1>6. L - b \in Nat /\ b + (L - b) = L /\ a + (L - b) \in 0 .. L - 1
    BY <1>4
  <1> QED
    BY <1>5, <1>6

\* The chain of i is the least set with i and the next of its nodes.
LEMMA ChainLeast ==
  ASSUME NEW L \in Nat, NEW next \in [1 .. L -> 0 .. L], NEW i \in 1 .. L
  PROVE  /\ Chain(next, i) \subseteq 1 .. L
         /\ i \in Chain(next, i)
         /\ Closed(next, Chain(next, i))
         /\ \A S : i \in S /\ Closed(next, S) => Chain(next, i) \subseteq S
  <1> DEFINE W == Walk(next, i)
             C == Chain(next, i)
  <1>0. W[0] = i
    BY WalkSteps
  <1>1. \A n \in Nat : W[n] \in 0 .. L
    BY WalkSteps
  <1>9. \A n \in Nat : W[n + 1] = Onward(next, W[n])
    BY WalkSteps
  <1>2. C = {W[n] : n \in 0 .. L - 1} \ {0}
    BY ChainIs
  <1>3. W[L] \in C \cup {0}
    BY WalkEnds
  <1> HIDE DEF W, C
  <1>4. C \subseteq 1 .. L
    BY <1>1, <1>2
  <1>5. i \in C
    <2>1. 0 \in 0 .. L - 1 /\ W[0] # 0
      BY <1>0
    <2> QED
      BY <1>0, <1>2, <2>1
  <1>6. Closed(next, C)
    <2> SUFFICES ASSUME NEW x \in C PROVE next[x] \in C \cup {0}
      BY DEF Closed
    <2>1. PICK n \in 0 .. L - 1 : x = W[n] /\ x # 0
      BY <1>2
    <2>2. next[x] = W[n + 1]
      <3>1. n \in Nat
        OBVIOUS
      <3> QED
        BY <1>9, <2>1, <3>1, Zenon DEF Onward
    <2>3. CASE n + 1 = L
      BY <1>3, <2>2, <2>3
    <2>4. CASE n + 1 # L
      <3>1. n + 1 \in 0 .. L - 1
        BY <2>4
      <3> QED
        BY <1>2, <2>2, <3>1
    <2> QED
      BY <2>3, <2>4
  <1>7. ASSUME NEW S, i \in S, Closed(next, S) PROVE C \subseteq S
    <2> DEFINE T == {n \in Nat : W[n] \in S \cup {0}}
    <2>1. 0 \in T
      BY <1>0, <1>7
    <2>2. ASSUME NEW n \in Nat, n \in T PROVE n + 1 \in T
      <3>1. W[n + 1] = Onward(next, W[n])
        BY <1>9
      <3>2. W[n] \in S \cup {0}
        BY <2>2
      <3>3. Onward(next, W[n]) \in S \cup {0}
        BY <1>7, <3>2, Zenon DEF Closed, Onward
      <3> QED
        BY <3>1, <3>3
    <2>3. Nat \subseteq T
      BY <2>1, <2>2, NatSetInduction
    <2> QED
      BY <1>2, <2>3
  <1> QED
    BY <1>4, <1>5, <1>6, <1>7 DEF C

LEMMA ChainTrans ==
  ASSUME NEW L \in Nat, NEW next \in [1 .. L -> 0 .. L], NEW i \in 1 .. L, NEW j \in Chain(next, i)
  PROVE  j \in 1 .. L /\ Chain(next, j) \subseteq Chain(next, i)
  <1>1. j \in 1 .. L
    BY ChainLeast
  <1>2. Closed(next, Chain(next, i))
    BY ChainLeast
  <1>3. \A S : j \in S /\ Closed(next, S) => Chain(next, j) \subseteq S
    BY <1>1, ChainLeast
  <1> QED
    BY <1>1, <1>2, <1>3, Zenon

\* What follows i is in the chain of its next.
LEMMA ChainUnfold ==
  ASSUME NEW L \in Nat, NEW next \in [1 .. L -> 0 .. L], NEW i \in 1 .. L, NEW j \in Chain(next, i), j # i
  PROVE  next[i] \in 1 .. L /\ j \in Chain(next, next[i])
  <1> DEFINE S == IF next[i] = 0 THEN {i} ELSE {i} \cup Chain(next, next[i])
  <1>1. next[i] # 0 => /\ next[i] \in 1 .. L
                       /\ next[i] \in Chain(next, next[i])
                       /\ Closed(next, Chain(next, next[i]))
    <2> SUFFICES ASSUME next[i] # 0 PROVE /\ next[i] \in 1 .. L
                                          /\ next[i] \in Chain(next, next[i])
                                          /\ Closed(next, Chain(next, next[i]))
      OBVIOUS
    <2>1. next[i] \in 1 .. L
      OBVIOUS
    <2> QED
      BY <2>1, ChainLeast
  <1>2. i \in S /\ Closed(next, S)
    BY <1>1, Zenon DEF Closed
  <1>3. j \in S
    <2>1. \A T : i \in T /\ Closed(next, T) => Chain(next, i) \subseteq T
      BY ChainLeast
    <2> HIDE DEF S
    <2> QED
      BY <1>2, <2>1, Zenon
  <1> QED
    BY <1>1, <1>3, Zenon

\* A node that is not the first of a chain has one before it.
LEMMA ChainPred ==
  ASSUME NEW L \in Nat, NEW next \in [1 .. L -> 0 .. L], NEW i \in 1 .. L, NEW j \in Chain(next, i), j # i
  PROVE  \E p \in Chain(next, i) : next[p] = j
  <1> SUFFICES ASSUME \A p \in Chain(next, i) : next[p] # j PROVE FALSE
    OBVIOUS
  <1> DEFINE S == Chain(next, i) \ {j}
  <1>1. i \in S /\ Closed(next, S)
    <2>1. i \in Chain(next, i) /\ Closed(next, Chain(next, i))
      BY ChainLeast
    <2> QED
      BY <2>1, Zenon DEF Closed
  <1>2. \A T : i \in T /\ Closed(next, T) => Chain(next, i) \subseteq T
    BY ChainLeast
  <1> QED
    BY <1>1, <1>2, Zenon

\* Some nodes of a chain: one of them comes first.
LEMMA ChainFirst ==
  ASSUME NEW L \in Nat, NEW next \in [1 .. L -> 0 .. L], NEW i \in 1 .. L, NEW H \in SUBSET Chain(next, i), H # {}
  PROVE  \E h \in H : H \subseteq Chain(next, h)
  <1> SUFFICES ASSUME \A h \in H : ~(H \subseteq Chain(next, h)) PROVE FALSE
    OBVIOUS
  <1> DEFINE S == {x \in 1 .. L : H \subseteq Chain(next, x)}
  <1>1. i \in S
    OBVIOUS
  <1>2. Closed(next, S)
    <2> SUFFICES ASSUME NEW x \in S PROVE next[x] \in S
      BY DEF Closed
    <2>1. x \in 1 .. L /\ H \subseteq Chain(next, x) /\ x \notin H
      OBVIOUS
    <2>2. \A h \in H : next[x] \in 1 .. L /\ h \in Chain(next, next[x])
      BY <2>1, ChainUnfold
    <2> QED
      BY <2>2
  <1>3. \A T : i \in T /\ Closed(next, T) => Chain(next, i) \subseteq T
    BY ChainLeast
  <1> HIDE DEF S
  <1>4. H \subseteq S
    BY <1>1, <1>2, <1>3, Zenon
  <1> QED
    BY <1>4 DEF S

\* No two nodes come after each other.
LEMMA ChainOrder ==
  ASSUME NEW L \in Nat, NEW next \in [1 .. L -> 0 .. L], Chained(next), NEW i \in 1 .. L,
         NEW j \in Chain(next, i), i \in Chain(next, j)
  PROVE  i = j
  <1> SUFFICES ASSUME i # j PROVE FALSE
    OBVIOUS
  <1>1. j \in 1 .. L
    BY ChainLeast
  <1>2. next[i] \in 1 .. L /\ j \in Chain(next, next[i])
    BY ChainUnfold
  <1>3. i \in Chain(next, next[i])
    BY <1>2, ChainTrans
  <1> QED
    BY <1>2, <1>3 DEF Chained

\* A free node n goes into a chain after m.
Inserts(L, next, m, n, new) ==
  /\ L \in Nat /\ next \in [1 .. L -> 0 .. L] /\ Chained(next)
  /\ m \in 1 .. L /\ n \in 1 .. L /\ m # n /\ next[n] = 0 /\ \A x \in 1 .. L : next[x] # n
  /\ new \in [1 .. L -> 0 .. L] /\ new[m] = n /\ new[n] = next[m]
  /\ \A x \in 1 .. L : x # m /\ x # n => new[x] = next[x]

Inserted(L, next, m, n, new) ==
  /\ Chained(new)
  /\ \A i \in 1 .. L : Chain(next, i) \subseteq Chain(new, i)
  /\ \A i \in 1 .. L : m \in Chain(next, i) => n \in Chain(new, i)
  /\ \A j \in Chain(next, m) : j # m => j \in Chain(new, n)

LEMMA ChainInsert ==
  ASSUME NEW L, NEW next, NEW m, NEW n, NEW new, Inserts(L, next, m, n, new)
  PROVE  Inserted(L, next, m, n, new)
  <1> USE DEF Inserts
  <1> SUFFICES /\ Chained(new)
               /\ \A i \in 1 .. L : Chain(next, i) \subseteq Chain(new, i)
               /\ \A i \in 1 .. L : m \in Chain(next, i) => n \in Chain(new, i)
               /\ \A j \in Chain(next, m) : j # m => j \in Chain(new, n)
    BY DEF Inserted
  <1>1. \A i \in 1 .. L : /\ Chain(next, i) \subseteq 1 .. L /\ i \in Chain(next, i)
                          /\ Closed(next, Chain(next, i))
                          /\ \A S : i \in S /\ Closed(next, S) => Chain(next, i) \subseteq S
    BY ChainLeast, ZenonT(60)
  <1>2. \A i \in 1 .. L : /\ Chain(new, i) \subseteq 1 .. L /\ i \in Chain(new, i)
                          /\ Closed(new, Chain(new, i))
                          /\ \A S : i \in S /\ Closed(new, S) => Chain(new, i) \subseteq S
    BY ChainLeast, ZenonT(60)
  <1>3. ASSUME NEW i \in 1 .. L PROVE Closed(next, Chain(new, i))
    <2> SUFFICES ASSUME NEW x \in Chain(new, i) PROVE next[x] \in Chain(new, i) \cup {0}
      BY DEF Closed
    <2>1. x \in 1 .. L /\ \A y \in Chain(new, i) : new[y] \in Chain(new, i) \cup {0}
      BY <1>2, Zenon DEF Closed
    <2>2. CASE x = m
      <3>1. n \in Chain(new, i)
        BY <2>1, <2>2
      <3> QED
        BY <2>1, <2>2, <3>1
    <2>3. CASE x = n
      BY <2>3
    <2>4. CASE x # m /\ x # n
      BY <2>1, <2>4
    <2> QED
      BY <2>2, <2>3, <2>4
  <1>4. \A i \in 1 .. L : Chain(next, i) \subseteq Chain(new, i)
    BY <1>1, <1>2, <1>3, Zenon
  <1>5. ASSUME NEW i \in 1 .. L, m \in Chain(next, i) PROVE n \in Chain(new, i)
    <2>1. m \in Chain(new, i) /\ Closed(new, Chain(new, i))
      BY <1>2, <1>4, <1>5
    <2>2. new[m] \in Chain(new, i) \cup {0}
      BY <2>1, Zenon DEF Closed
    <2> QED
      BY <2>2
  <1>6. ASSUME NEW j \in Chain(next, m), j # m PROVE j \in Chain(new, n)
    <2>1. next[m] \in 1 .. L /\ j \in Chain(next, next[m])
      BY <1>6, ChainUnfold
    <2>2. next[m] \in Chain(new, n)
      <3>1. n \in Chain(new, n) /\ Closed(new, Chain(new, n))
        BY <1>2
      <3>2. new[n] \in Chain(new, n) \cup {0}
        BY <3>1, Zenon DEF Closed
      <3> QED
        BY <2>1, <3>2
    <2>3. Chain(new, next[m]) \subseteq Chain(new, n)
      BY <2>2, ChainTrans
    <2> QED
      BY <1>4, <2>1, <2>3
  \* No other node has n in its old chain, and what m does not follow keeps its chain.
  <1>7. \A i \in 1 .. L : i # n => n \notin Chain(next, i)
    <2> SUFFICES ASSUME NEW i \in 1 .. L, i # n, n \in Chain(next, i) PROVE FALSE
      OBVIOUS
    <2>1. PICK p \in Chain(next, i) : next[p] = n
      BY ChainPred, SMTT(45)
    <2> QED
      BY <1>1, <2>1
  <1>8. ASSUME NEW i \in 1 .. L, i # n, m \notin Chain(next, i) PROVE Chain(new, i) \subseteq Chain(next, i)
    <2>1. \A x \in Chain(next, i) : new[x] = next[x]
      BY <1>1, <1>7, <1>8
    <2>2. Closed(new, Chain(next, i))
      <3>1. Closed(next, Chain(next, i))
        BY <1>1
      <3> QED
        BY <2>1, <3>1, Zenon DEF Closed
    <2> QED
      BY <1>1, <1>2, <2>2, Zenon
  <1>9. ASSUME NEW i \in 1 .. L, i # n PROVE Chain(new, i) \subseteq Chain(next, i) \cup {n}
    <2>1. CASE m \notin Chain(next, i)
      BY <1>8, <1>9, <2>1
    <2>2. CASE m \in Chain(next, i)
      <3> DEFINE S == Chain(next, i) \cup {n}
      <3>1. Closed(new, S)
        <4> SUFFICES ASSUME NEW x \in S PROVE new[x] \in S \cup {0}
          BY DEF Closed
        <4>1. \A y \in Chain(next, i) : y \in 1 .. L /\ next[y] \in Chain(next, i) \cup {0}
          BY <1>1, Zenon DEF Closed
        <4>2. CASE x = n \/ x = m
          BY <2>2, <4>1, <4>2
        <4>3. CASE x # n /\ x # m
          BY <4>1, <4>3
        <4> QED
          BY <4>2, <4>3
      <3>2. i \in S
        BY <1>1
      <3> HIDE DEF S
      <3>3. Chain(new, i) \subseteq S
        BY <1>2, <3>1, <3>2, Zenon
      <3> QED
        BY <3>3 DEF S
    <2> QED
      BY <2>1, <2>2
  <1>10. ASSUME NEW i \in 1 .. L, NEW j \in 1 .. L, new[i] = new[j], new[i] # 0 PROVE i = j
    <2>1. \A x, y \in 1 .. L : next[x] = next[y] /\ next[x] # 0 => x = y
      BY DEF Chained
    <2>2. \A x \in 1 .. L : new[x] = IF x = m THEN n ELSE IF x = n THEN next[m] ELSE next[x]
      OBVIOUS
    <2>3. /\ m \in 1 .. L /\ n \in 1 .. L /\ m # n /\ next[n] = 0 /\ n # 0
          /\ \A x \in 1 .. L : next[x] # n
      OBVIOUS
    <2> HIDE DEF Inserts
    <2> QED
      BY <1>10, <2>1, <2>2, <2>3
  <1>11. ASSUME NEW i \in 1 .. L, new[i] # 0 PROVE i \notin Chain(new, new[i])
    <2>0. \A x \in 1 .. L : next[x] # 0 => x \notin Chain(next, next[x])
      BY DEF Chained
    <2>1. CASE i = m
      <3> DEFINE S == IF next[m] = 0 THEN {n} ELSE {n} \cup Chain(next, next[m])
      <3>1. m \notin S
        BY <2>0
      <3>2. Closed(new, S)
        <4>1. CASE next[m] = 0
          BY <4>1 DEF Closed
        <4>2. CASE next[m] # 0
          <5>1. next[m] \in 1 .. L /\ next[m] # n /\ m \notin Chain(next, next[m])
            BY <2>0, <4>2
          <5>2. /\ next[m] \in Chain(next, next[m])
                /\ \A x \in Chain(next, next[m]) : x \in 1 .. L /\ next[x] \in Chain(next, next[m]) \cup {0}
            BY <1>1, <5>1, Zenon DEF Closed
          <5>3. n \notin Chain(next, next[m])
            BY <1>7, <5>1
          <5>4. \A x \in Chain(next, next[m]) : new[x] = next[x]
            BY <5>1, <5>2, <5>3
          <5> QED
            BY <4>2, <5>2, <5>4 DEF Closed
        <4> QED
          BY <4>1, <4>2
      <3>3. n \in S
        OBVIOUS
      <3> HIDE DEF S
      <3>4. Chain(new, n) \subseteq S
        BY <1>2, <3>2, <3>3, Zenon
      <3> QED
        BY <2>1, <3>1, <3>4
    <2>2. CASE i = n
      <3>1. next[m] \in 1 .. L /\ next[m] # n /\ m \notin Chain(next, next[m])
        BY <1>11, <2>0, <2>2
      <3>2. Chain(new, next[m]) \subseteq Chain(next, next[m]) /\ n \notin Chain(next, next[m])
        BY <1>7, <1>8, <3>1
      <3> QED
        BY <2>2, <3>2
    <2>3. CASE i # m /\ i # n
      <3>1. new[i] = next[i] /\ next[i] \in 1 .. L /\ next[i] # n /\ i \notin Chain(next, next[i])
        BY <1>11, <2>0, <2>3
      <3> QED
        BY <1>9, <2>3, <3>1
    <2> QED
      BY <2>1, <2>2, <2>3
  <1>12. Chained(new)
    <2>1. DOMAIN new = 1 .. L
      OBVIOUS
    <2> QED
      BY <1>10, <1>11, <2>1, Zenon DEF Chained
  <1> QED
    BY <1>4, <1>5, <1>6, <1>12

\* The nodes change their places by s, which is its own inverse.
LEMMA ChainRenamed ==
  ASSUME NEW L \in Nat, NEW next \in [1 .. L -> 0 .. L], NEW new \in [1 .. L -> 0 .. L],
         NEW s \in [0 .. L -> 0 .. L], s[0] = 0, \A x \in 0 .. L : s[s[x]] = x,
         \A x \in 1 .. L : new[s[x]] = s[next[x]],
         NEW i \in 1 .. L, NEW j \in Chain(next, i)
  PROVE  s[i] \in 1 .. L /\ s[j] \in Chain(new, s[i])
  <1>1. \A x \in 1 .. L : s[x] \in 1 .. L
    <2> SUFFICES ASSUME NEW x \in 1 .. L PROVE s[x] \in 1 .. L
      OBVIOUS
    <2>1. x \in 0 .. L /\ x # 0
      OBVIOUS
    <2>2. s[x] \in 0 .. L /\ s[s[x]] = x
      BY <2>1
    <2>3. s[x] # 0
      BY <2>1, <2>2, Zenon
    <2> QED
      BY <2>2, <2>3
  <1>2. /\ s[i] \in Chain(new, s[i])
        /\ \A y \in Chain(new, s[i]) : y \in 1 .. L /\ new[y] \in Chain(new, s[i]) \cup {0}
    <2>1. /\ s[i] \in Chain(new, s[i]) /\ Chain(new, s[i]) \subseteq 1 .. L
          /\ Closed(new, Chain(new, s[i]))
      BY <1>1, ChainLeast
    <2> QED
      BY <2>1, Zenon DEF Closed
  <1> DEFINE S == {x \in 1 .. L : s[x] \in Chain(new, s[i])}
  <1>3. i \in S
    BY <1>2
  <1>4. Closed(next, S)
    <2> SUFFICES ASSUME NEW x \in S, next[x] # 0 PROVE next[x] \in S
      BY DEF Closed
    <2>1. x \in 1 .. L /\ s[x] \in Chain(new, s[i])
      OBVIOUS
    <2>2. next[x] \in 1 .. L
      BY <2>1
    <2>3. s[next[x]] = new[s[x]] /\ s[next[x]] # 0
      <3>1. s[next[x]] \in 1 .. L
        BY <1>1, <2>2
      <3> QED
        BY <2>1, <3>1
    <2> QED
      BY <1>2, <2>1, <2>2, <2>3
  <1>5. \A T : i \in T /\ Closed(next, T) => Chain(next, i) \subseteq T
    BY ChainLeast
  <1> HIDE DEF S
  <1>6. j \in S
    BY <1>3, <1>4, <1>5, Zenon
  <1> QED
    BY <1>1, <1>6 DEF S

\* The free node n takes the place of m, which p comes before; m is free.
Moves(L, next, m, n, p, new) ==
  /\ L \in Nat /\ next \in [1 .. L -> 0 .. L] /\ Chained(next)
  /\ m \in 1 .. L /\ n \in 1 .. L /\ m # n /\ next[n] = 0 /\ \A x \in 1 .. L : next[x] # n
  /\ p \in 1 .. L /\ next[p] = m
  /\ new \in [1 .. L -> 0 .. L] /\ new[p] = n /\ new[n] = next[m] /\ new[m] = 0
  /\ \A x \in 1 .. L : x \notin {m, n, p} => new[x] = next[x]

Moved(L, next, m, n, new) ==
  LET s(x) == IF x = m THEN n ELSE IF x = n THEN m ELSE x IN
  /\ Chained(new)
  /\ \A i \in 1 .. L : \A j \in Chain(next, i) : s(j) \in Chain(new, s(i))
  /\ \A x \in 1 .. L : new[x] # m

LEMMA ChainMove ==
  ASSUME NEW L, NEW next, NEW m, NEW n, NEW p, NEW new, Moves(L, next, m, n, p, new)
  PROVE  Moved(L, next, m, n, new)
  <1> USE DEF Moves
  <1> DEFINE s(x) == IF x = m THEN n ELSE IF x = n THEN m ELSE x
             f == [x \in 0 .. L |-> s(x)]
  <1>0. /\ \A x, y \in 1 .. L : next[x] = next[y] /\ next[x] # 0 => x = y
        /\ \A x \in 1 .. L : next[x] # 0 => x \notin Chain(next, next[x])
    BY DEF Chained
  <1>1. \A x \in 1 .. L : next[x] # x
    <2> SUFFICES ASSUME NEW x \in 1 .. L, next[x] = x PROVE FALSE
      OBVIOUS
    <2>1. x \in Chain(next, x)
      BY ChainLeast
    <2> QED
      BY <1>0, <2>1
  <1>2. p # m /\ p # n
    BY <1>1
  <1>3. f \in [0 .. L -> 0 .. L] /\ f[0] = 0 /\ \A x \in 0 .. L : f[f[x]] = x
    OBVIOUS
  <1>4. \A x \in 0 .. L : f[x] = s(x)
    OBVIOUS
  <1>5. ASSUME NEW x \in 1 .. L PROVE new[f[x]] = f[next[x]]
    <2>1. f[x] = s(x) /\ next[x] \in 0 .. L /\ f[next[x]] = s(next[x])
      BY <1>4
    <2> HIDE DEF f
    <2>2. CASE x = m
      <3>1. next[m] # m /\ next[m] # n
        BY <1>1
      <3> QED
        BY <2>1, <2>2, <3>1
    <2>3. CASE x = n
      BY <2>1, <2>3
    <2>4. CASE x = p
      BY <1>2, <2>1, <2>4
    <2>5. CASE x # m /\ x # n /\ x # p
      <3>1. next[x] # m /\ next[x] # n /\ new[x] = next[x]
        BY <1>0, <2>5
      <3> QED
        BY <2>1, <2>5, <3>1
    <2> QED
      BY <2>2, <2>3, <2>4, <2>5
  <1>6. ASSUME NEW x \in 1 .. L PROVE f[x] \in 1 .. L /\ next[f[x]] = f[new[x]]
    <2>1. f[x] \in 1 .. L
      OBVIOUS
    <2> HIDE DEF f
    <2>2. new[f[f[x]]] = f[next[f[x]]] /\ f[f[x]] = x
      <3>1. x \in 0 .. L
        OBVIOUS
      <3> QED
        BY <1>3, <1>5, <2>1, <3>1, Zenon
    <2>3. next[f[x]] \in 0 .. L
      BY <2>1
    <2>4. f[new[x]] = f[f[next[f[x]]]]
      BY <2>2
    <2> QED
      BY <1>3, <2>1, <2>3, <2>4
  <1> HIDE DEF f
  <1>7. ASSUME NEW i \in 1 .. L, NEW j \in Chain(next, i) PROVE f[j] \in Chain(new, f[i])
    BY <1>3, <1>5, ChainRenamed
  <1>8. ASSUME NEW i \in 1 .. L, NEW j \in Chain(new, i) PROVE f[j] \in Chain(next, f[i])
    BY <1>3, <1>6, ChainRenamed
  <1>9. ASSUME NEW x \in 1 .. L, NEW y \in 1 .. L, new[x] = new[y], new[x] # 0 PROVE x = y
    <2>1. f[x] \in 1 .. L /\ f[y] \in 1 .. L /\ next[f[x]] = next[f[y]]
      <3>1. f[x] \in 1 .. L /\ f[y] \in 1 .. L /\ next[f[x]] = f[new[x]] /\ next[f[y]] = f[new[y]]
        BY <1>6, Zenon
      <3> QED
        BY <1>9, <3>1, Zenon
    <2>2. next[f[x]] # 0
      <3>1. new[x] \in 0 .. L /\ f[f[new[x]]] = new[x] /\ f[0] = 0 /\ next[f[x]] = f[new[x]]
        BY <1>3, <1>6, ZenonT(60)
      <3> QED
        BY <1>9, <3>1, Zenon
    <2>3. f[x] = f[y]
      BY <1>0, <2>1, <2>2, Zenon
    <2>4. x \in 0 .. L /\ y \in 0 .. L
      OBVIOUS
    <2>5. f[f[x]] = x /\ f[f[y]] = y
      BY <1>3, <2>4, Zenon
    <2> QED
      BY <2>3, <2>5, Zenon
  <1>10. ASSUME NEW x \in 1 .. L, new[x] # 0, x \in Chain(new, new[x]) PROVE FALSE
    <2>1. new[x] \in 1 .. L
      BY <1>10
    <2>2. f[x] \in Chain(next, f[new[x]])
      BY <1>8, <1>10, <2>1
    <2>3. f[x] \in 1 .. L /\ next[f[x]] = f[new[x]] /\ f[new[x]] \in 1 .. L
      BY <1>6, <2>1
    <2>4. next[f[x]] # 0
      BY <2>3
    <2> QED
      BY <1>0, <2>2, <2>3, <2>4, Zenon
  <1>11. Chained(new)
    <2>1. DOMAIN new = 1 .. L
      OBVIOUS
    <2> QED
      BY <1>9, <1>10, <2>1, Zenon DEF Chained
  <1>12. ASSUME NEW i \in 1 .. L, NEW j \in Chain(next, i) PROVE s(j) \in Chain(new, s(i))
    <2>1. j \in 1 .. L
      BY ChainTrans
    <2>2. f[j] = s(j) /\ f[i] = s(i)
      BY <1>4, <2>1
    <2> HIDE DEF s
    <2> QED
      BY <1>7, <2>2
  <1>13. ASSUME NEW x \in 1 .. L PROVE new[x] # m
    <2>1. x \notin {m, n, p} => next[x] # m
      BY <1>0
    <2> QED
      BY <1>1, <2>1, SMTT(45)
  <1> QED
    BY <1>11, <1>12, <1>13 DEF Moved

-----------------------------------------------------------------------------
(* Lookups.                                                                   *)

\* The nodes that hold a key; with a value, it is the key.
Holders(tab, k, evenDead) == {i \in Keyed(tab) : tab.node[i].key = k /\ (evenDead \/ ~tab.node[i].dead)}
Foremost(H, next) == CHOOSE i \in H : H \subseteq Chain(next, i)
NodeVals(tab) == {tab.node[i].val : i \in UsedNodes(tab)}

LEMMA TableFields ==
  ASSUME NEW tab \in Table
  PROVE  /\ Len(tab.node) \in Nat /\ tab.node \in [Nodes(tab) -> Node] /\ DOMAIN tab.node = Nodes(tab)
         /\ Len(tab.array) \in Nat /\ tab.array \in [1 .. Len(tab.array) -> Values]
         /\ tab.lastfree \in Nat
         /\ \A i \in Nodes(tab) : tab.node[i] \in Node
         /\ tab.node = <<>> <=> Len(tab.node) = 0
  <1>1. tab.node \in Seq(Node) /\ tab.array \in Seq(Values) /\ tab.lastfree \in Nat
    BY DEF Table
  <1>2. tab.node \in [1 .. Len(tab.node) -> Node] /\ tab.array \in [1 .. Len(tab.array) -> Values]
    BY <1>1, LenProperties
  <1> QED
    BY <1>1, <1>2, LenProperties, EmptySeq DEF Nodes

LEMMA LinksAre ==
  ASSUME NEW tab \in Table, \A i \in Nodes(tab) : NodeInv(tab, i)
  PROVE  /\ Links(tab) \in [1 .. Len(tab.node) -> 0 .. Len(tab.node)]
         /\ \A i \in Nodes(tab) : Links(tab)[i] = tab.node[i].next
  <1>1. \A i \in Nodes(tab) : Links(tab)[i] = tab.node[i].next
    BY TableFields DEF Links
  <1>2. ASSUME NEW i \in Nodes(tab) PROVE tab.node[i].next \in 0 .. Len(tab.node)
    <2>1. tab.node[i].next # 0 => tab.node[i].next \in Nodes(tab)
      BY DEF NodeInv, Keyed
    <2> QED
      BY <2>1, TableFields DEF Nodes
  <1> QED
    BY <1>1, <1>2, TableFields DEF Links, Nodes

LEMMA TableLinks ==
  ASSUME NEW tab, TableInv(tab)
  PROVE  /\ Len(tab.node) \in Nat /\ tab.node = <<>> <=> Len(tab.node) = 0
         /\ Links(tab) \in [1 .. Len(tab.node) -> 0 .. Len(tab.node)] /\ Chained(Links(tab))
         /\ \A i \in Nodes(tab) : Links(tab)[i] = tab.node[i].next
  BY LinksAre, TableFields DEF TableInv

\* A key is found in the chain of its main position.
LEMMA HoldersFound ==
  ASSUME NEW tab, TableInv(tab), NEW k \in Keys, NEW evenDead \in BOOLEAN
  PROVE  LET H == Holders(tab, k, evenDead) IN
         /\ NodeOf(tab, k, evenDead) = IF H = {} THEN 0 ELSE Foremost(H, Links(tab))
         /\ H # {} => \E i \in H : H \subseteq From(tab, i)
  <1> DEFINE H == Holders(tab, k, evenDead)
             mp == mainposition(tab, k)
             R == IF tab.node = <<>> THEN {}
                  ELSE {i \in Chain(Links(tab), mp) : tab.node[i].key = k /\ (evenDead \/ ~tab.node[i].dead)}
  <1>0. /\ tab \in Table /\ Len(tab.node) \in Nat /\ tab.node = <<>> <=> Len(tab.node) = 0
        /\ Links(tab) \in [1 .. Len(tab.node) -> 0 .. Len(tab.node)]
    BY TableLinks DEF TableInv
  <1>1. tab.node # <<>> => mp \in Nodes(tab) /\ Chain(Links(tab), mp) \subseteq Nodes(tab)
    <2> SUFFICES ASSUME tab.node # <<>> PROVE mp \in Nodes(tab) /\ Chain(Links(tab), mp) \subseteq Nodes(tab)
      OBVIOUS
    <2>1. mp \in Nodes(tab)
      BY <1>0, MainType
    <2> HIDE DEF mp
    <2> QED
      BY <1>0, <2>1, ChainLeast DEF Nodes
  <1>2. k # nil
    BY TableAssumption
  <1>3. R \subseteq H
    BY <1>1, <1>2 DEF Holders, Keyed
  <1>4. ASSUME NEW i \in H PROVE i \in R
    <2>1. i \in Keyed(tab) /\ tab.node[i].key = k /\ (evenDead \/ ~tab.node[i].dead)
      BY DEF Holders
    <2>2. i \in From(tab, mp)
      BY <2>1 DEF TableInv, HomeInv, Home
    <2>3. tab.node # <<>>
      BY <1>0, <2>1 DEF Keyed, Nodes
    <2> QED
      BY <2>1, <2>2, <2>3 DEF From
  <1>5. R = H
    BY <1>3, <1>4
  <1>6. NodeOf(tab, k, evenDead) = IF R = {} THEN 0 ELSE Foremost(R, Links(tab))
    BY Zenon DEF NodeOf, Foremost
  <1>7. ASSUME H # {} PROVE \E i \in H : H \subseteq From(tab, i)
    <2>1. tab.node # <<>> /\ H \subseteq Chain(Links(tab), mp)
      BY <1>5, <1>7
    <2>2. mp \in 1 .. Len(tab.node)
      BY <1>1, <2>1 DEF Nodes
    <2> HIDE DEF H, mp
    <2> QED
      BY <1>0, <1>7, <2>1, <2>2, ChainFirst DEF From
  <1> HIDE DEF R, H
  <1>8. NodeOf(tab, k, evenDead) = IF H = {} THEN 0 ELSE Foremost(H, Links(tab))
    BY <1>5, <1>6, Zenon
  <1> QED
    BY <1>7, <1>8, Zenon DEF H

LEMMA NodeOfIs ==
  ASSUME NEW tab, TableInv(tab), NEW k \in Keys, NEW evenDead \in BOOLEAN
  PROVE  /\ Holders(tab, k, evenDead) = {} => NodeOf(tab, k, evenDead) = 0
         /\ Holders(tab, k, evenDead) # {} => NodeOf(tab, k, evenDead) \in Holders(tab, k, evenDead)
         /\ \A i \in Holders(tab, k, FALSE) : NodeOf(tab, k, evenDead) = i
  <1> DEFINE H == Holders(tab, k, evenDead)
  <1>1. /\ NodeOf(tab, k, evenDead) = IF H = {} THEN 0 ELSE Foremost(H, Links(tab))
        /\ H # {} => \E i \in H : H \subseteq From(tab, i)
    BY HoldersFound, Zenon
  <1>2. H # {} => NodeOf(tab, k, evenDead) \in H /\ H \subseteq From(tab, NodeOf(tab, k, evenDead))
    <2> HIDE DEF H
    <2> QED
      BY <1>1, Zenon DEF Foremost, From
  <1>3. ASSUME NEW i \in Holders(tab, k, FALSE) PROVE NodeOf(tab, k, evenDead) = i
    <2> DEFINE j == NodeOf(tab, k, evenDead)
    <2>1. i \in H
      BY DEF Holders
    <2>2. j \in H /\ H \subseteq From(tab, j)
      BY <1>2, <2>1
    <2>3. i \in From(tab, j)
      BY <2>1, <2>2
    <2> HIDE DEF j
    <2>4. SUFFICES ASSUME i # j PROVE FALSE
      BY <2>4 DEF j
    <2>5. i \in Keyed(tab) /\ j \in Keyed(tab) /\ tab.node[i].key = tab.node[j].key /\ ~tab.node[i].dead
      BY <2>2 DEF Holders
    <2>6. j \in From(tab, i)
      BY <2>4, <2>5 DEF TableInv, OneNode
    <2> QED
      <3> DEFINE next == Links(tab)
                 L == Len(tab.node)
      <3>1. L \in Nat /\ next \in [1 .. L -> 0 .. L] /\ Chained(next)
        BY TableLinks
      <3>2. j \in 1 .. L /\ i \in 1 .. L /\ i \in Chain(next, j) /\ j \in Chain(next, i)
        BY <2>3, <2>5, <2>6, Zenon DEF From, Keyed, Nodes
      <3> HIDE DEF next, L
      <3>3. i = j
        BY <3>1, <3>2, ChainOrder
      <3> QED
        BY <2>4, <3>3
  <1> QED
    BY <1>1, <1>2, <1>3

\* What a table has: the places of the array with a value, and the keys of the
\* nodes with one.
LEMMA GetIs ==
  ASSUME NEW tab, TableInv(tab), NEW k \in Keys
  PROVE  /\ luaH_get(tab, k) = IF k \in UsedArray(tab) \/ k \in NodeVals(tab) THEN k ELSE nil
         /\ InArray(tab, k) => k \notin NodeVals(tab)
         /\ ~InArray(tab, k) => k \notin UsedArray(tab)
         /\ ~InArray(tab, k) => (k \in NodeVals(tab) <=> \E i \in Holders(tab, k, FALSE) : tab.node[i].val = k)
  <1>0. tab \in Table /\ DOMAIN tab.array = 1 .. Len(tab.array) /\ DOMAIN tab.node = Nodes(tab) /\ Len(tab.array) \in Nat
    BY TableFields DEF TableInv
  <1>1. k # nil
    BY TableAssumption
  <1>2. \A i \in Nodes(tab) : NodeInv(tab, i)
    BY DEF TableInv
  <1>3. \A i \in UsedNodes(tab) : i \in Keyed(tab) /\ tab.node[i].val = tab.node[i].key /\ ~tab.node[i].dead
    BY <1>0, <1>2 DEF UsedNodes, Keyed, NodeInv
  <1>4. \A i \in UsedArray(tab) : InArray(tab, i) /\ tab.array[i] = i
    BY <1>0 DEF UsedArray, TableInv, ArrayInv, InArray
  <1>5. k \in NodeVals(tab) <=> \E i \in Holders(tab, k, FALSE) : tab.node[i].val = k
    BY <1>0, <1>1, <1>3 DEF NodeVals, Holders, Keyed, UsedNodes
  <1>6. ASSUME InArray(tab, k) PROVE k \notin NodeVals(tab)
    BY <1>0, <1>2, <1>5, <1>6, TableAssumption DEF Holders, Keyed, NodeInv, InArray
  <1>7. CASE InArray(tab, k)
    <2>1. luaH_get(tab, k) = tab.array[k]
      BY <1>7 DEF luaH_get
    <2>2. k \in 1 .. Len(tab.array)
      BY <1>0, <1>7, TableAssumption DEF InArray
    <2> QED
      BY <1>0, <1>4, <1>6, <1>7, <2>1, <2>2 DEF UsedArray
  <1>8. CASE ~InArray(tab, k)
    <2>1. k \notin UsedArray(tab)
      BY <1>4, <1>8
    <2> DEFINE H == Holders(tab, k, FALSE)
               n == NodeOf(tab, k, FALSE)
    <2>2. luaH_get(tab, k) = IF n = 0 THEN nil ELSE tab.node[n].val
      BY <1>8 DEF luaH_get
    <2>3. CASE H = {}
      <3>1. n = 0
        BY <2>3, NodeOfIs
      <3> QED
        BY <1>5, <1>8, <2>1, <2>2, <2>3, <3>1
    <2>4. CASE H # {}
      <3>1. n \in H /\ \A i \in H : i = n
        BY <2>4, NodeOfIs
      <3>2. n # 0 /\ n \in Nodes(tab) /\ tab.node[n].key = k
        <4>1. n \in Keyed(tab) /\ tab.node[n].key = k
          BY <3>1, Zenon DEF Holders
        <4> HIDE DEF n, H
        <4>2. n \in Nodes(tab) /\ Len(tab.node) \in Nat
          BY <4>1, TableLinks DEF Keyed
        <4> QED
          BY <4>1, <4>2 DEF Nodes
      <3>3. tab.node[n].val \in {nil, k}
        BY <1>2, <3>2 DEF NodeInv
      <3> HIDE DEF n, H
      <3> QED
        BY <1>1, <1>5, <1>8, <2>1, <2>2, <3>1, <3>2, <3>3 DEF H
    <2> QED
      BY <2>3, <2>4
  <1> QED
    BY <1>4, <1>5, <1>6, <1>7, <1>8

-----------------------------------------------------------------------------
(* Stores.                                                                    *)

AllUsed(tab) == \A i \in Keyed(tab) : tab.node[i].val # nil

\* tab2 has what tab has, in the same parts, and v, in a new node.
Gains(tab, tab2, v) == /\ TableInv(tab2)
                       /\ tab2.array = tab.array /\ Len(tab2.node) = Len(tab.node)
                       /\ NodeVals(tab2) = NodeVals(tab) \cup ({v} \ {nil})
                       /\ AllUsed(tab) /\ v # nil => AllUsed(tab2)

\* The keys are no nil, integers are positive, strings no integers.
LEMMA KeyFacts == /\ \A k \in Keys : k # nil
                  /\ nil \notin StrKeys /\ nil \notin IntKeys
                  /\ \A k \in IntKeys : k \in Nat /\ k # 0 /\ k <= MAX_INT
                  /\ \A k \in StrKeys : k \notin Int
  <1>1. \A k \in IntKeys : k \in Nat /\ k # 0 /\ k <= MAX_INT
    <2>1. MAX_INT \in Nat /\ IntKeys \subseteq 1 .. MAX_INT
      BY TableAssumption, Zenon
    <2> QED
      BY <2>1
  <1> QED
    BY <1>1, TableAssumption DEF Keys

\* A table gets a node for k: the nodes Old of tab are at the places s of tab2.
Adds(tab, tab2, k, v, pos, Old, s) ==
  /\ TableInv(tab) /\ ~InArray(tab, k) /\ Holders(tab, k, FALSE) = {}
  /\ tab2 \in Table /\ tab2.array = tab.array /\ Len(tab2.node) = Len(tab.node) /\ Chained(Links(tab2))
  /\ \A j \in Keyed(tab2) : HomeInv(tab2, j)
  /\ pos \in Nodes(tab) /\ tab2.node[pos].key = k /\ ~tab2.node[pos].dead /\ tab2.node[pos].val = v
  /\ Old \subseteq Keyed(tab)
  /\ \A i \in Keyed(tab) \ Old : tab.node[i].val = nil
  /\ \A i \in Old : /\ s[i] \in Keyed(tab2)
                    /\ tab2.node[s[i]].key = tab.node[i].key
                    /\ tab2.node[s[i]].dead = tab.node[i].dead
                    /\ tab2.node[s[i]].val = tab.node[i].val
  /\ \A j \in Keyed(tab2) : j = pos \/ \E i \in Old : j = s[i]
  /\ \A i \in Nodes(tab) : tab2.node[i].next # 0 => tab2.node[i].next \in Keyed(tab2)
  /\ \A i \in Nodes(tab) \ Keyed(tab2) : /\ tab2.node[i].next = 0 /\ tab2.node[i].val = nil
                                         /\ ~tab2.node[i].dead /\ i < tab2.lastfree
  /\ \A i, j \in Old : j \in From(tab, i) => s[j] \in From(tab2, s[i])
  /\ \A j \in Old : tab.node[j].key = k => s[j] \in From(tab2, pos)

LEMMA Added ==
  ASSUME NEW tab, NEW tab2, NEW k \in Keys, NEW v \in {nil, k}, NEW pos, NEW Old, NEW s,
         Adds(tab, tab2, k, v, pos, Old, s)
  PROVE  Gains(tab, tab2, v)
  <1> USE DEF Adds
  <1>0. /\ tab \in Table /\ DOMAIN tab.node = Nodes(tab) /\ DOMAIN tab2.node = Nodes(tab) /\ Nodes(tab2) = Nodes(tab)
        /\ Keyed(tab) \subseteq Nodes(tab) /\ Keyed(tab2) \subseteq Nodes(tab)
    BY TableFields DEF TableInv, Nodes, Keyed
  <1>1. k # nil /\ nil \notin StrKeys /\ nil \notin IntKeys
    BY KeyFacts
  <1>2. \A i \in Nodes(tab) : NodeInv(tab, i)
    BY DEF TableInv
  <1>3. \A j \in Old : tab.node[j].key = k => tab.node[j].dead
    BY DEF Holders
  <1>4. ASSUME NEW j \in Nodes(tab2) PROVE NodeInv(tab2, j)
    <2>1. CASE j = pos
      <3>1. v \in {nil, tab2.node[j].key} /\ tab2.node[j].key # nil
        BY <1>1, <2>1
      <3>2. k \in IntKeys => k > Len(tab2.array)
        <4>1. Len(tab.array) \in Nat /\ (k \in IntKeys => k \in Nat)
          BY <1>0, TableFields, KeyFacts
        <4> QED
          BY <4>1 DEF InArray
      <3> QED
        BY <1>0, <2>1, <3>1, <3>2 DEF NodeInv
    <2>2. CASE j # pos /\ j \in Keyed(tab2)
      <3>1. PICK i \in Old : j = s[i]
        BY <2>2
      <3>2. NodeInv(tab, i) /\ tab.node[i].key # nil
        BY <1>0, <1>2 DEF Keyed
      <3> QED
        BY <1>0, <3>1, <3>2, Zenon DEF NodeInv
    <2>3. CASE j \notin Keyed(tab2)
      <3>1. tab2.node[j].key = nil
        BY <2>3 DEF Keyed
      <3> QED
        BY <1>0, <1>1, <2>3, <3>1 DEF NodeInv
    <2> QED
      BY <2>1, <2>2, <2>3
  <1>5. OneNode(tab2)
    <2> SUFFICES ASSUME NEW i \in Keyed(tab2), NEW j \in Keyed(tab2), tab2.node[i].key = tab2.node[j].key,
                        ~tab2.node[i].dead, i # j
                 PROVE  tab2.node[j].dead /\ j \in From(tab2, i)
      BY DEF OneNode
    <2>1. CASE i = pos
      <3>1. PICK b \in Old : j = s[b]
        BY <2>1
      <3> QED
        BY <1>3, <2>1, <3>1, ZenonT(60)
    <2>2. CASE i # pos
      <3>1. PICK a \in Old : i = s[a]
        BY <2>2
      <3>2. tab.node[a].key # k
        BY <1>3, <3>1
      <3>3. PICK b \in Old : j = s[b]
        BY <3>1, <3>2
      <3>4. tab.node[a].key = tab.node[b].key /\ ~tab.node[a].dead /\ a # b
        BY <3>1, <3>3, Zenon
      <3>5. tab.node[b].dead /\ b \in From(tab, a)
        BY <3>4 DEF TableInv, OneNode
      <3> QED
        BY <3>1, <3>3, <3>5, Zenon
    <2> QED
      BY <2>1, <2>2
  <1>6. TableInv(tab2)
    BY <1>0, <1>4, <1>5 DEF TableInv, ArrayInv
  <1>7. ASSUME NEW x PROVE x \in NodeVals(tab2) <=> x \in NodeVals(tab) \cup ({v} \ {nil})
    <2>1. x \in NodeVals(tab) <=> x # nil /\ \E i \in Nodes(tab) : tab.node[i].val = x
      BY <1>0 DEF NodeVals, UsedNodes
    <2>2. x \in NodeVals(tab2) <=> x # nil /\ \E i \in Nodes(tab) : tab2.node[i].val = x
      BY <1>0 DEF NodeVals, UsedNodes
    <2>3. ASSUME x # nil, NEW i \in Nodes(tab), tab2.node[i].val = x PROVE x = v \/ \E j \in Nodes(tab) : tab.node[j].val = x
      <3>1. i \in Keyed(tab2)
        BY <2>3
      <3>2. CASE i = pos
        BY <2>3, <3>2
      <3>3. CASE i # pos
        BY <1>0, <2>3, <3>1, <3>3
      <3> QED
        BY <3>2, <3>3
    <2>4. ASSUME x # nil, NEW i \in Nodes(tab), tab.node[i].val = x PROVE \E j \in Nodes(tab) : tab2.node[j].val = x
      <3>1. i \in Keyed(tab)
        BY <1>2, <2>4 DEF NodeInv, Keyed
      <3>2. i \in Old
        BY <2>4, <3>1
      <3> QED
        BY <1>0, <2>4, <3>2
    <2> QED
      BY <2>1, <2>2, <2>3, <2>4
  <1>8. ASSUME AllUsed(tab), v # nil, NEW j \in Keyed(tab2) PROVE tab2.node[j].val # nil
    BY <1>8 DEF AllUsed
  <1> QED
    BY <1>6, <1>7, <1>8 DEF AllUsed, Gains

\* Every node below the free position getfreepos finds may be free, none above.
LEMMA FreePos ==
  ASSUME NEW tab, TableInv(tab)
  PROVE  /\ getfreepos(tab) = 0 => Keyed(tab) = Nodes(tab)
         /\ getfreepos(tab) # 0 =>
              /\ getfreepos(tab) \in Nodes(tab) \ Keyed(tab)
              /\ tab.node[getfreepos(tab)].next = 0
              /\ \A i \in Nodes(tab) : tab.node[i].next # getfreepos(tab)
              /\ \A i \in Nodes(tab) \ Keyed(tab) : i <= getfreepos(tab)
  <1> DEFINE free == {i \in DOMAIN tab.node : i < tab.lastfree /\ tab.node[i].key = nil}
  <1>1. DOMAIN tab.node = Nodes(tab) /\ Len(tab.node) \in Nat
    BY TableFields DEF TableInv
  <1>2. \A i \in Nodes(tab) : NodeInv(tab, i)
    BY DEF TableInv
  <1>3. free = Nodes(tab) \ Keyed(tab)
    BY <1>1, <1>2 DEF Keyed, NodeInv
  <1>4. getfreepos(tab) = IF free = {} THEN 0 ELSE Max(free)
    BY Zenon DEF getfreepos
  <1>5. free \subseteq 0 .. Len(tab.node) /\ 0 \notin free
    BY <1>1 DEF Nodes
  <1> HIDE DEF free
  <1>6. free # {} => Max(free) \in free /\ \A i \in free : i <= Max(free)
    BY <1>1, <1>5, MaxIs
  <1>7. ASSUME free = {} PROVE getfreepos(tab) = 0 /\ Keyed(tab) = Nodes(tab)
    BY <1>3, <1>4, <1>7 DEF Keyed
  <1>8. ASSUME free # {} PROVE /\ getfreepos(tab) # 0
                               /\ getfreepos(tab) \in Nodes(tab) \ Keyed(tab)
                               /\ \A i \in Nodes(tab) \ Keyed(tab) : i <= getfreepos(tab)
    BY <1>3, <1>4, <1>5, <1>6, <1>8
  <1>9. ASSUME NEW n \in Nodes(tab) \ Keyed(tab)
        PROVE tab.node[n].next = 0 /\ \A i \in Nodes(tab) : tab.node[i].next # n
    <2>1. n # 0
      BY <1>1 DEF Nodes
    <2>2. tab.node[n].key = nil
      BY DEF Keyed
    <2> QED
      BY <1>2, <2>1, <2>2 DEF NodeInv
  <1> QED
    BY <1>7, <1>8, <1>9

PutMakes(tab, i, k, v, p) ==
  /\ p \in Table /\ p.array = tab.array /\ p.lastfree = tab.lastfree /\ Len(p.node) = Len(tab.node)
  /\ p.node[i] = [key |-> k, dead |-> FALSE, val |-> v, next |-> tab.node[i].next]
  /\ \A j \in Nodes(tab) : j # i => p.node[j] = tab.node[j]

LEMMA PutIs ==
  ASSUME NEW tab \in Table, NEW i \in Nodes(tab), NEW k \in Keys, NEW v \in {nil, k}
  PROVE  PutMakes(tab, i, k, v, Put(tab, i, k, v))
  <1> DEFINE p == Put(tab, i, k, v)
  <1> SUFFICES /\ p \in Table /\ p.array = tab.array /\ p.lastfree = tab.lastfree /\ Len(p.node) = Len(tab.node)
               /\ p.node[i] = [key |-> k, dead |-> FALSE, val |-> v, next |-> tab.node[i].next]
               /\ \A j \in Nodes(tab) : j # i => p.node[j] = tab.node[j]
    BY DEF PutMakes
  <1> DEFINE new == [key |-> k, dead |-> FALSE, val |-> v, next |-> tab.node[i].next]
             node == [tab.node EXCEPT ![i] = new]
  <1>0. /\ Len(tab.node) \in Nat /\ tab.node \in [Nodes(tab) -> Node] /\ tab.node[i] \in Node
        /\ tab \in [array: Seq(Values), node: Seq(Node), lastfree: Nat]
    BY TableFields DEF Table
  <1>1. [tab.node[i] EXCEPT !.key = k, !.dead = FALSE, !.val = v] = new
    <2> DEFINE r == tab.node[i]
    <2>1. r \in [key: Values, dead: BOOLEAN, val: Values, next: Nat]
      BY <1>0 DEF Node
    <2> HIDE DEF r
    <2>2. [r EXCEPT !.key = k, !.dead = FALSE, !.val = v] = [key |-> k, dead |-> FALSE, val |-> v, next |-> r.next]
      <3> DEFINE q == [r EXCEPT !.key = k]
                 q2 == [q EXCEPT !.dead = FALSE]
      <3>2. /\ q \in [key: Values, dead: BOOLEAN, val: Values, next: Nat]
            /\ q.key = k /\ q.dead = r.dead /\ q.val = r.val /\ q.next = r.next
        BY <2>1 DEF Values
      <3> HIDE DEF q
      <3>3. /\ q2 \in [key: Values, dead: BOOLEAN, val: Values, next: Nat]
            /\ q2.key = k /\ q2.dead = FALSE /\ q2.val = r.val /\ q2.next = r.next
        BY <3>2
      <3> HIDE DEF q2
      <3> DEFINE q3 == [q2 EXCEPT !.val = v]
      <3>4. /\ q3 \in [key: Values, dead: BOOLEAN, val: Values, next: Nat]
            /\ q3.key = k /\ q3.dead = FALSE /\ q3.val = v /\ q3.next = r.next
        BY <3>3 DEF Values
      <3> HIDE DEF q3
      <3>5. q3 = [key |-> k, dead |-> FALSE, val |-> v, next |-> r.next]
        BY <3>4
      <3> QED
        BY <3>5 DEF q3, q2, q
    <2> QED
      BY <2>2 DEF r
  <1>2. p = [tab EXCEPT !.node = node]
    BY <1>0, <1>1 DEF Put, Node
  <1>3. new \in Node
    BY <1>0 DEF Node, Values
  <1> HIDE DEF new
  <1>4. node \in [1 .. Len(tab.node) -> Node] /\ node[i] = new /\ \A j \in Nodes(tab) : j # i => node[j] = tab.node[j]
    BY <1>0, <1>3 DEF Nodes
  <1> HIDE DEF node, p
  <1>5. node \in Seq(Node) /\ Len(node) = Len(tab.node)
    BY <1>0, <1>4, LenProperties
  <1>6. p.node = node /\ p.array = tab.array /\ p.lastfree = tab.lastfree /\ p \in Table
    BY <1>0, <1>2, <1>5 DEF Table
  <1> QED
    BY <1>4, <1>5, <1>6 DEF new, p

\* The table with other nodes, as many as before.
NodesMake(tab, node, lf, p) ==
  /\ p \in Table /\ p.array = tab.array /\ p.lastfree = lf /\ p.node = node
  /\ Len(p.node) = Len(tab.node) /\ Nodes(p) = Nodes(tab)

LEMMA NodesSet ==
  ASSUME NEW tab \in Table, NEW node \in [Nodes(tab) -> Node], NEW lf \in Nat
  PROVE  NodesMake(tab, node, lf, [tab EXCEPT !.lastfree = lf, !.node = node])
  <1> DEFINE p == [tab EXCEPT !.lastfree = lf, !.node = node]
  <1>0. /\ Len(tab.node) \in Nat
        /\ tab \in [array: Seq(Values), node: Seq(Node), lastfree: Nat]
    BY TableFields DEF Table
  <1>1. node \in Seq(Node) /\ Len(node) = Len(tab.node)
    BY <1>0, LenProperties DEF Nodes
  <1>2. p.node = node /\ p.array = tab.array /\ p.lastfree = lf /\ p \in Table
    BY <1>0, <1>1 DEF Table
  <1> HIDE DEF p
  <1>3. NodesMake(tab, node, lf, p)
    BY <1>1, <1>2 DEF Nodes, NodesMake
  <1> QED
    BY <1>3 DEF p

\* The main position of the new key has no value.
LEMMA PutFree ==
  ASSUME NEW tab, TableInv(tab), NEW k \in Keys, NEW v \in {nil, k}, ~InArray(tab, k), Holders(tab, k, FALSE) = {},
         tab.node # <<>>, tab.node[mainposition(tab, k)].val = nil
  PROVE  Gains(tab, Put(tab, mainposition(tab, k), k, v), v)
  <1> DEFINE mp == mainposition(tab, k)
             tab2 == Put(tab, mp, k, v)
             Old == Keyed(tab) \ {mp}
             s == [i \in Old |-> i]
  <1>0. /\ tab \in Table /\ Len(tab.node) \in Nat /\ tab.node \in [Nodes(tab) -> Node]
        /\ Links(tab) \in [1 .. Len(tab.node) -> 0 .. Len(tab.node)] /\ Chained(Links(tab))
        /\ \A i \in Nodes(tab) : Links(tab)[i] = tab.node[i].next
    BY TableFields, TableLinks DEF TableInv
  <1>1. mp \in Nodes(tab)
    BY <1>0, TableLinks, MainType
  <1>2. k # nil
    BY TableAssumption
  <1>3. /\ tab2 \in Table /\ tab2.array = tab.array /\ tab2.lastfree = tab.lastfree /\ Len(tab2.node) = Len(tab.node)
        /\ tab2.node[mp] = [key |-> k, dead |-> FALSE, val |-> v, next |-> tab.node[mp].next]
        /\ \A j \in Nodes(tab) : j # mp => tab2.node[j] = tab.node[j]
    <2>1. PutMakes(tab, mp, k, v, tab2)
      BY <1>0, <1>1, PutIs, ZenonT(60)
    <2> QED
      BY <2>1 DEF PutMakes
  <1>4. mainposition(tab2, k) = mp /\ \A x : mainposition(tab2, x) = mainposition(tab, x)
    BY <1>3 DEF mainposition
  <1>5. \A i \in Nodes(tab) : NodeInv(tab, i)
    BY DEF TableInv
  <1>6. \A i \in Keyed(tab) : HomeInv(tab, i)
    BY DEF TableInv
  <1> HIDE DEF tab2, mp
  <1>7. Nodes(tab2) = Nodes(tab) /\ Keyed(tab2) = Keyed(tab) \cup {mp}
    BY <1>1, <1>2, <1>3 DEF Nodes, Keyed
  <1>8. Links(tab2) = Links(tab)
    <2>1. DOMAIN tab2.node = Nodes(tab) /\ DOMAIN tab.node = Nodes(tab)
      BY <1>0, <1>3, <1>7, TableFields
    <2>2. \A i \in Nodes(tab) : tab2.node[i].next = tab.node[i].next
      BY <1>3
    <2> QED
      BY <2>1, <2>2 DEF Links
  <1>9. \A i : From(tab2, i) = From(tab, i)
    BY <1>8 DEF From
  <1>10. ASSUME NEW j \in Keyed(tab2) PROVE HomeInv(tab2, j)
    <2>1. Home(tab2, mp) = mp
      BY <1>3, <1>4 DEF Home
    <2>2. \A i \in Nodes(tab) : i # mp => Home(tab2, i) = Home(tab, i)
      BY <1>3, <1>4 DEF Home
    <2>3. mp \in From(tab, mp)
      BY <1>0, <1>1, ChainLeast DEF From, Nodes
    <2>4. CASE j = mp
      BY <1>7, <1>9, <2>1, <2>3, <2>4 DEF HomeInv
    <2>5. CASE j # mp
      <3>1. j \in Keyed(tab) /\ j \in Nodes(tab)
        BY <1>7, <2>5 DEF Keyed
      <3>2. Home(tab, j) \in Keyed(tab) /\ Home(tab, Home(tab, j)) = Home(tab, j) /\ j \in From(tab, Home(tab, j))
        BY <1>6, <3>1 DEF HomeInv
      <3>3. Home(tab, j) \in Nodes(tab)
        BY <3>2 DEF Keyed
      <3>4. Home(tab2, j) = Home(tab, j)
        BY <2>2, <2>5, <3>1
      <3>5. Home(tab2, Home(tab, j)) = Home(tab, j)
        BY <2>1, <2>2, <3>2, <3>3
      <3> QED
        BY <1>7, <1>9, <3>2, <3>4, <3>5 DEF HomeInv
    <2> QED
      BY <2>4, <2>5
  <1>11. \A i \in Keyed(tab) \ Old : tab.node[i].val = nil
    BY DEF mp
  <1>12. \A j \in Old : tab.node[j].key = k => j \in From(tab2, mp)
    BY <1>6, <1>9 DEF HomeInv, Home, mp
  <1>13. \A i \in Nodes(tab) : tab2.node[i].next # 0 => tab2.node[i].next \in Keyed(tab2)
    BY <1>1, <1>3, <1>5, <1>7 DEF NodeInv
  <1>14. \A i \in Nodes(tab) \ Keyed(tab2) : /\ tab2.node[i].next = 0 /\ tab2.node[i].val = nil /\ ~tab2.node[i].dead
                                            /\ i < tab2.lastfree
    <2> SUFFICES ASSUME NEW i \in Nodes(tab) \ Keyed(tab2)
                 PROVE  tab2.node[i].next = 0 /\ tab2.node[i].val = nil /\ ~tab2.node[i].dead /\ i < tab2.lastfree
      OBVIOUS
    <2>1. tab2.node[i] = tab.node[i] /\ tab.node[i].key = nil
      BY <1>3, <1>7 DEF Keyed
    <2>2. nil \notin StrKeys
      BY TableAssumption DEF Keys
    <2> QED
      BY <1>3, <1>5, <2>1, <2>2 DEF NodeInv
  <1>15. \A i \in Old : /\ s[i] = i /\ s[i] \in Keyed(tab2)
                        /\ tab2.node[s[i]].key = tab.node[i].key
                        /\ tab2.node[s[i]].dead = tab.node[i].dead
                        /\ tab2.node[s[i]].val = tab.node[i].val
    BY <1>3, <1>7 DEF Keyed
  <1>16. \A j \in Keyed(tab2) : j = mp \/ \E i \in Old : j = s[i]
    BY <1>7
  <1>17. Old \in SUBSET Keyed(tab)
    OBVIOUS
  <1> HIDE DEF s, Old
  <1>18. \A i, j \in Old : j \in From(tab, i) => s[j] \in From(tab2, s[i])
    BY <1>9, <1>15
  <1>19. \A j \in Old : tab.node[j].key = k => s[j] \in From(tab2, mp)
    BY <1>12, <1>15
  <1>20. tab2.node[mp].key = k /\ ~tab2.node[mp].dead /\ tab2.node[mp].val = v /\ Chained(Links(tab2))
    BY <1>0, <1>3, <1>8
  <1>21. Gains(tab, tab2, v)
    <2>1. Adds(tab, tab2, k, v, mp, Old, s)
      BY <1>1, <1>3, <1>10, <1>11, <1>13, <1>14, <1>15, <1>16, <1>17, <1>18, <1>19, <1>20, Zenon DEF Adds
    <2> QED
      BY <2>1, Added
  <1> QED
    BY <1>21 DEF tab2, mp

NextMakes(tab, node, i, j, g) ==
  /\ g \in [Nodes(tab) -> Node]
  /\ g[i].next = j /\ g[i].key = node[i].key /\ g[i].dead = node[i].dead /\ g[i].val = node[i].val
  /\ \A x \in Nodes(tab) : x # i => g[x] = node[x]

LEMMA NextSet ==
  ASSUME NEW tab, NEW node \in [Nodes(tab) -> Node], NEW i \in Nodes(tab), NEW j \in Nat
  PROVE  NextMakes(tab, node, i, j, [node EXCEPT ![i].next = j])
  <1> DEFINE r == node[i]
             q == [r EXCEPT !.next = j]
             h == [node EXCEPT ![i] = q]
  <1>1. r \in [key: Values, dead: BOOLEAN, val: Values, next: Nat]
    BY DEF Node
  <1>2. q \in Node /\ q.next = j /\ q.key = r.key /\ q.dead = r.dead /\ q.val = r.val
    <2> HIDE DEF r
    <2> QED
      BY <1>1 DEF Node
  <1> HIDE DEF q
  <1>3. h \in [Nodes(tab) -> Node] /\ h[i] = q /\ \A x \in Nodes(tab) : x # i => h[x] = node[x]
    BY <1>2
  <1>4. h = [node EXCEPT ![i].next = j]
    BY Zenon DEF q
  <1> HIDE DEF h
  <1>5. NextMakes(tab, node, i, j, h)
    BY <1>2, <1>3 DEF NextMakes
  <1> QED
    BY <1>4, <1>5

\* The main position of k is taken by a node that is in its own: k goes to the
\* free node, after it.
LEMMA PutChained ==
  ASSUME NEW tab, TableInv(tab), NEW k \in Keys, NEW v \in {nil, k}, ~InArray(tab, k), Holders(tab, k, FALSE) = {},
         NEW n, n = getfreepos(tab), n # 0, NEW mp, mp = mainposition(tab, k), tab.node[mp].val # nil, Home(tab, mp) = mp
  PROVE  Gains(tab, Put(ChainFree([tab EXCEPT !.lastfree = n], mp, n), n, k, v), v)
  <1> DEFINE tab1 == ChainFree([tab EXCEPT !.lastfree = n], mp, n)
             tab2 == Put(tab1, n, k, v)
             g1 == [tab.node EXCEPT ![n].next = tab.node[mp].next]
             g2 == [g1 EXCEPT ![mp].next = n]
             s == [i \in Keyed(tab) |-> i]
             next == Links(tab)
             new == Links(tab2)
  <1>0. /\ tab \in Table /\ Len(tab.node) \in Nat /\ tab.node \in [Nodes(tab) -> Node]
        /\ Links(tab) \in [1 .. Len(tab.node) -> 0 .. Len(tab.node)] /\ Chained(Links(tab))
        /\ \A i \in Nodes(tab) : Links(tab)[i] = tab.node[i].next /\ tab.node[i].next \in 0 .. Len(tab.node)
    BY TableFields, TableLinks DEF TableInv, Nodes
  <1>1. /\ n \in Nodes(tab) \ Keyed(tab) /\ tab.node[n].next = 0
        /\ \A i \in Nodes(tab) : tab.node[i].next # n
        /\ \A i \in Nodes(tab) \ Keyed(tab) : i <= n
    BY FreePos
  <1>2. mp \in Nodes(tab) /\ n \in Nat /\ Nodes(tab) = 1 .. Len(tab.node)
    BY <1>0, <1>1, MainType DEF Nodes
  <1>3. \A i \in Nodes(tab) : NodeInv(tab, i)
    BY DEF TableInv
  <1>4. \A i \in Keyed(tab) : HomeInv(tab, i)
    BY DEF TableInv
  <1>5. mp \in Keyed(tab) /\ mp # n
    BY <1>1, <1>2, <1>3 DEF NodeInv, Keyed
  <1>6. /\ g1 \in [Nodes(tab) -> Node] /\ g1[n].next = tab.node[mp].next
        /\ \A x \in Nodes(tab) : x # n => g1[x] = tab.node[x]
    <2>1. tab.node[mp].next \in Nat /\ n \in Nodes(tab)
      BY <1>0, <1>1, <1>2
    <2>2. NextMakes(tab, tab.node, n, tab.node[mp].next, g1)
      BY <1>0, <2>1, NextSet, Zenon
    <2> QED
      BY <2>2 DEF NextMakes
  <1> HIDE DEF g1
  <1>7. /\ g2 \in [Nodes(tab) -> Node] /\ g2[mp].next = n
        /\ g2[mp].key = g1[mp].key /\ g2[mp].dead = g1[mp].dead /\ g2[mp].val = g1[mp].val
        /\ \A x \in Nodes(tab) : x # mp => g2[x] = g1[x]
    <2>1. NextMakes(tab, g1, mp, n, g2)
      BY <1>2, <1>6, NextSet, Zenon
    <2> QED
      BY <2>1 DEF NextMakes
  <1> HIDE DEF g2
  <1>8. tab1 = [tab EXCEPT !.lastfree = n, !.node = g2]
    <2>1. tab \in [array: Seq(Values), node: Seq(Node), lastfree: Nat]
      BY <1>0 DEF Table
    <2> QED
      BY <1>0, <2>1 DEF ChainFree, g1, g2
  <1>9. /\ tab1 \in Table /\ tab1.array = tab.array /\ tab1.lastfree = n /\ tab1.node = g2
        /\ Len(tab1.node) = Len(tab.node) /\ Nodes(tab1) = Nodes(tab)
    <2>1. NodesMake(tab, g2, n, tab1)
      <3> HIDE DEF tab1
      <3> QED
        BY <1>0, <1>2, <1>7, <1>8, NodesSet, Zenon
    <2> QED
      BY <2>1 DEF NodesMake
  <1> HIDE DEF tab1
  <1>10. /\ tab2 \in Table /\ tab2.array = tab.array /\ tab2.lastfree = n /\ Len(tab2.node) = Len(tab.node)
         /\ tab2.node[n] = [key |-> k, dead |-> FALSE, val |-> v, next |-> tab1.node[n].next]
         /\ \A j \in Nodes(tab) : j # n => tab2.node[j] = g2[j]
    <2>1. n \in Nodes(tab1) /\ tab1.node[n].next = g2[n].next
      BY <1>1, <1>9
    <2>2. PutMakes(tab1, n, k, v, tab2)
      BY <1>9, <2>1, PutIs, Zenon
    <2> QED
      BY <1>9, <2>2 DEF PutMakes
  <1> HIDE DEF tab2
  <1>11. /\ \A x \in Nodes(tab) : x # n => /\ tab2.node[x].key = tab.node[x].key
                                           /\ tab2.node[x].dead = tab.node[x].dead
                                           /\ tab2.node[x].val = tab.node[x].val
         /\ \A x \in Nodes(tab) : x # n /\ x # mp => tab2.node[x].next = tab.node[x].next
         /\ tab2.node[n].next = tab.node[mp].next /\ tab2.node[mp].next = n
    BY <1>1, <1>2, <1>5, <1>6, <1>7, <1>9, <1>10, SMTT(45)
  <1>12. k # nil
    BY KeyFacts
  <1>13. Nodes(tab2) = Nodes(tab) /\ Keyed(tab2) = Keyed(tab) \cup {n}
    BY <1>1, <1>10, <1>11, <1>12 DEF Nodes, Keyed
  <1>14. /\ DOMAIN new = Nodes(tab)
         /\ \A x \in Nodes(tab) : new[x] = tab2.node[x].next
    BY <1>10, <1>13, TableFields DEF Links
  <1>15. /\ new \in [1 .. Len(tab.node) -> 0 .. Len(tab.node)]
         /\ new[mp] = n /\ new[n] = next[mp]
         /\ \A x \in 1 .. Len(tab.node) : x # mp /\ x # n => new[x] = next[x]
    <2>1. \A x \in Nodes(tab) : tab2.node[x].next \in 0 .. Len(tab.node)
      BY <1>0, <1>1, <1>2, <1>11, SMTT(45)
    <2>2. \A x \in Nodes(tab) : new[x] \in 0 .. Len(tab.node)
      BY <1>14, <2>1
    <2>3. new = [x \in Nodes(tab) |-> new[x]]
      BY <1>14 DEF Links
    <2>4. new[mp] = n /\ new[n] = next[mp]
      BY <1>0, <1>1, <1>2, <1>11, <1>14
    <2>5. \A x \in Nodes(tab) : x # mp /\ x # n => new[x] = next[x]
      BY <1>0, <1>11, <1>14
    <2> HIDE DEF new, next
    <2> QED
      BY <1>2, <2>2, <2>3, <2>4, <2>5
  <1>16. next[n] = 0 /\ \A x \in 1 .. Len(tab.node) : next[x] # n
    BY <1>0, <1>1, <1>2
  <1>17. n \in 1 .. Len(tab.node) /\ mp \in 1 .. Len(tab.node)
    BY <1>1, <1>2
  <1>18. next \in [1 .. Len(tab.node) -> 0 .. Len(tab.node)] /\ Chained(next)
    BY <1>0
  <1> HIDE DEF new, next
  <1>19. /\ Chained(new)
         /\ \A i \in 1 .. Len(tab.node) : Chain(next, i) \subseteq Chain(new, i)
         /\ \A i \in 1 .. Len(tab.node) : mp \in Chain(next, i) => n \in Chain(new, i)
         /\ \A j \in Chain(next, mp) : j # mp => j \in Chain(new, n)
    <2>1. Inserts(Len(tab.node), next, mp, n, new)
      BY <1>0, <1>5, <1>15, <1>16, <1>17, <1>18, Zenon DEF Inserts
    <2> QED
      BY <2>1, ChainInsert DEF Inserted
  <1>20. /\ \A i \in Nodes(tab) : From(tab, i) \subseteq From(tab2, i)
         /\ n \in From(tab2, mp)
         /\ \A j \in From(tab, mp) : j # mp => j \in From(tab2, n)
    <2>1. mp \in Chain(next, mp)
      BY <1>0, <1>17, <1>18, ChainLeast
    <2> QED
      BY <1>2, <1>17, <1>19, <2>1 DEF From, new, next
  <1>21. mainposition(tab2, k) = mp /\ \A x : mainposition(tab2, x) = mainposition(tab, x)
    BY <1>10 DEF mainposition
  <1>22. \A i \in Keyed(tab) : /\ i \in Nodes(tab) /\ i # n /\ Home(tab2, i) = Home(tab, i)
    BY <1>1, <1>11, <1>21 DEF Home, Keyed
  <1>23. ASSUME NEW j \in Keyed(tab2) PROVE HomeInv(tab2, j)
    <2>1. CASE j = n
      <3>1. Home(tab2, n) = mp
        BY <1>10, <1>21 DEF Home
      <3>2. Home(tab2, mp) = mp
        BY <1>5, <1>22
      <3> QED
        BY <1>5, <1>13, <1>20, <2>1, <3>1, <3>2 DEF HomeInv
    <2>2. CASE j # n
      <3>1. j \in Keyed(tab)
        BY <1>13, <2>2
      <3>2. Home(tab, j) \in Keyed(tab) /\ Home(tab, Home(tab, j)) = Home(tab, j) /\ j \in From(tab, Home(tab, j))
        BY <1>4, <3>1 DEF HomeInv
      <3>3. Home(tab2, j) = Home(tab, j) /\ Home(tab2, Home(tab, j)) = Home(tab, j) /\ Home(tab, j) \in Nodes(tab)
        BY <1>22, <3>1, <3>2
      <3> QED
        BY <1>13, <1>20, <3>2, <3>3 DEF HomeInv
    <2> QED
      BY <2>1, <2>2
  <1>24. \A i \in Keyed(tab) : /\ s[i] = i /\ s[i] \in Keyed(tab2)
                               /\ tab2.node[s[i]].key = tab.node[i].key
                               /\ tab2.node[s[i]].dead = tab.node[i].dead
                               /\ tab2.node[s[i]].val = tab.node[i].val
    BY <1>11, <1>13, <1>22
  <1>25. \A j \in Keyed(tab2) : j = n \/ \E i \in Keyed(tab) : j = s[i]
    BY <1>13
  <1>26. \A j \in Keyed(tab) : tab.node[j].key = k => j \in From(tab2, n)
    <2> SUFFICES ASSUME NEW j \in Keyed(tab), tab.node[j].key = k PROVE j \in From(tab2, n)
      OBVIOUS
    <2>1. tab.node[j].dead /\ j \in Nodes(tab)
      BY <1>22 DEF Holders
    <2>2. j # mp
      BY <1>3, <2>1 DEF NodeInv
    <2>3. j \in From(tab, mp)
      BY <1>4 DEF HomeInv, Home
    <2> QED
      BY <1>20, <2>2, <2>3
  <1>27. \A i \in Nodes(tab) : tab2.node[i].next # 0 => tab2.node[i].next \in Keyed(tab2)
    BY <1>1, <1>2, <1>3, <1>11, <1>13, SMTT(45) DEF NodeInv
  <1>28. \A i \in Nodes(tab) \ Keyed(tab2) : /\ tab2.node[i].next = 0 /\ tab2.node[i].val = nil
                                            /\ ~tab2.node[i].dead /\ i < tab2.lastfree
    <2> SUFFICES ASSUME NEW i \in Nodes(tab) \ Keyed(tab2)
                 PROVE  tab2.node[i].next = 0 /\ tab2.node[i].val = nil /\ ~tab2.node[i].dead /\ i < tab2.lastfree
      OBVIOUS
    <2>1. i # n /\ i # mp /\ i \in Nodes(tab) \ Keyed(tab) /\ tab.node[i].key = nil
      BY <1>5, <1>13 DEF Keyed
    <2>2. i <= n /\ i \in Nat
      BY <1>1, <1>2, <2>1
    <2>3. nil \notin StrKeys /\ NodeInv(tab, i)
      BY <1>3, KeyFacts
    <2> QED
      BY <1>2, <1>10, <1>11, <2>1, <2>2, <2>3 DEF NodeInv
  <1> HIDE DEF s
  <1>29. \A i, j \in Keyed(tab) : j \in From(tab, i) => s[j] \in From(tab2, s[i])
    BY <1>20, <1>22, <1>24
  <1>30. \A j \in Keyed(tab) : tab.node[j].key = k => s[j] \in From(tab2, n)
    BY <1>24, <1>26
  <1>31. tab2.node[n].key = k /\ ~tab2.node[n].dead /\ tab2.node[n].val = v /\ Chained(Links(tab2))
    BY <1>10, <1>19 DEF new
  <1>32. Adds(tab, tab2, k, v, n, Keyed(tab), s)
    <2>1. Keyed(tab) \subseteq Keyed(tab) /\ (\A i \in Keyed(tab) \ Keyed(tab) : tab.node[i].val = nil) /\ n \in Nodes(tab)
      BY <1>1
    <2> QED
      BY <1>10, <1>23, <1>24, <1>25, <1>27, <1>28, <1>29, <1>30, <1>31, <2>1, Zenon DEF Adds
  <1>33. Gains(tab, tab2, v)
    BY <1>32, Added
  <1> QED
    BY <1>33 DEF tab2, tab1

\* The main position of k is taken by a node that is not in its own: that one
\* goes to the free node, and k to its main position.
LEMMA PutMoved ==
  ASSUME NEW tab, TableInv(tab), NEW k \in Keys, NEW v \in {nil, k}, ~InArray(tab, k), Holders(tab, k, FALSE) = {},
         NEW n, n = getfreepos(tab), n # 0, NEW mp, mp = mainposition(tab, k), tab.node[mp].val # nil, Home(tab, mp) # mp
  PROVE  Gains(tab, Put(MoveColliding([tab EXCEPT !.lastfree = n], mp, n), mp, k, v), v)
  <1> DEFINE tn == [tab EXCEPT !.lastfree = n]
             tab1 == MoveColliding(tn, mp, n)
             tab2 == Put(tab1, mp, k, v)
             h == Home(tab, mp)
             p == CHOOSE x \in From(tab, h) : Links(tab)[x] = mp
             g1 == [tab.node EXCEPT ![p].next = n]
             g2 == [g1 EXCEPT ![n] = tab.node[mp], ![mp] = FreeNode]
             s(x) == IF x = mp THEN n ELSE IF x = n THEN mp ELSE x
             f == [i \in Keyed(tab) |-> s(i)]
             next == Links(tab)
             new == Links(tab2)
  <1>0. /\ tab \in Table /\ Len(tab.node) \in Nat /\ tab.node \in [Nodes(tab) -> Node]
        /\ Links(tab) \in [1 .. Len(tab.node) -> 0 .. Len(tab.node)] /\ Chained(Links(tab))
        /\ \A i \in Nodes(tab) : Links(tab)[i] = tab.node[i].next /\ tab.node[i].next \in 0 .. Len(tab.node)
        /\ \A i \in Nodes(tab) : tab.node[i] \in Node
    BY TableFields, TableLinks, SMTT(45) DEF TableInv, Nodes
  <1>1. /\ n \in Nodes(tab) \ Keyed(tab) /\ tab.node[n].next = 0
        /\ \A i \in Nodes(tab) : tab.node[i].next # n
        /\ \A i \in Nodes(tab) \ Keyed(tab) : i <= n
    BY FreePos
  <1>2. mp \in Nodes(tab) /\ n \in Nat /\ Nodes(tab) = 1 .. Len(tab.node)
    BY <1>0, <1>1, MainType DEF Nodes
  <1>3. \A i \in Nodes(tab) : NodeInv(tab, i)
    BY DEF TableInv
  <1>4. \A i \in Keyed(tab) : HomeInv(tab, i)
    BY DEF TableInv
  <1>5. mp \in Keyed(tab) /\ mp # n
    BY <1>1, <1>2, <1>3 DEF NodeInv, Keyed
  <1>6. h \in Keyed(tab) /\ h \in Nodes(tab) /\ mp \in From(tab, h) /\ h # mp
    BY <1>4, <1>5 DEF HomeInv, Keyed
  <1>7. p \in Nodes(tab) /\ next[p] = mp
    <2>1. \E x \in From(tab, h) : next[x] = mp
      <3> HIDE DEF h
      <3> QED
        <4>1. h \in 1 .. Len(tab.node) /\ mp \in Chain(Links(tab), h) /\ mp # h
          BY <1>2, <1>6 DEF From
        <4>2. \E x \in Chain(Links(tab), h) : Links(tab)[x] = mp
          BY <1>0, <4>1, ChainPred
        <4> QED
          BY <4>2 DEF From
    <2>2. p \in From(tab, h) /\ next[p] = mp
      BY <2>1, Zenon
    <2>3. From(tab, h) \subseteq 1 .. Len(tab.node)
      <3> HIDE DEF h
      <3> QED
        BY <1>0, <1>2, <1>6, ChainLeast DEF From
    <2> QED
      BY <1>2, <2>2, <2>3
  <1>8. tn.node = tab.node /\ tn.array = tab.array /\ Links(tn) = Links(tab) /\ \A x : mainposition(tn, x) = mainposition(tab, x)
    <2>1. tab \in [array: Seq(Values), node: Seq(Node), lastfree: Nat]
      BY <1>0 DEF Table
    <2>2. tn.node = tab.node /\ tn.array = tab.array
      BY <2>1
    <2> HIDE DEF tn
    <2> QED
      BY <2>2 DEF Links, mainposition
  <1>9. p = CHOOSE x \in Chain(Links(tn), mainposition(tn, tn.node[mp].key)) : Links(tn)[x] = mp
    <2> HIDE DEF tn
    <2> QED
      BY <1>8, Zenon DEF From, Home
  <1>10. tab1 = [tn EXCEPT !.node = [[[@ EXCEPT ![p].next = n] EXCEPT ![n] = tn.node[mp]] EXCEPT ![mp] = FreeNode]]
    <2> HIDE DEF tn, p
    <2> QED
      BY <1>9, Zenon DEF MoveColliding
  <1> HIDE DEF p
  <1>11. /\ g1 \in [Nodes(tab) -> Node] /\ g1[p].next = n
         /\ g1[p].key = tab.node[p].key /\ g1[p].dead = tab.node[p].dead /\ g1[p].val = tab.node[p].val
         /\ \A x \in Nodes(tab) : x # p => g1[x] = tab.node[x]
    <2>1. NextMakes(tab, tab.node, p, n, g1)
      BY <1>0, <1>2, <1>7, NextSet, Zenon
    <2> QED
      BY <2>1 DEF NextMakes
  <1> HIDE DEF g1
  <1>12. FreeNode \in Node
    BY DEF FreeNode, Node, Values
  <1>13. /\ g2 \in [Nodes(tab) -> Node] /\ g2[n] = tab.node[mp] /\ g2[mp] = FreeNode
         /\ \A x \in Nodes(tab) : x # n /\ x # mp => g2[x] = g1[x]
    BY <1>0, <1>1, <1>2, <1>5, <1>11, <1>12
  <1>14. tab1 = [tab EXCEPT !.lastfree = n, !.node = g2]
    <2>1. tab \in [array: Seq(Values), node: Seq(Node), lastfree: Nat]
      BY <1>0 DEF Table
    <2>2. tab1 = [tn EXCEPT !.node = g2]
      <3>1. tab1 = [tn EXCEPT !.node = [[[tn.node EXCEPT ![p].next = n] EXCEPT ![n] = tn.node[mp]] EXCEPT ![mp] = FreeNode]]
        <4> HIDE DEF tn, tab1
        <4> QED
          BY <1>10
      <3> HIDE DEF tn, tab1
      <3> QED
        BY <1>8, <3>1 DEF g1
    <2> HIDE DEF g2, tab1
    <2> QED
      BY <2>1, <2>2
  <1> HIDE DEF g2
  <1>15. /\ tab1 \in Table /\ tab1.array = tab.array /\ tab1.lastfree = n /\ tab1.node = g2
         /\ Len(tab1.node) = Len(tab.node) /\ Nodes(tab1) = Nodes(tab)
    <2>1. NodesMake(tab, g2, n, tab1)
      <3> HIDE DEF tab1
      <3> QED
        BY <1>0, <1>2, <1>13, <1>14, NodesSet, Zenon
    <2> QED
      BY <2>1 DEF NodesMake
  <1> HIDE DEF tab1
  <1>16. /\ tab2 \in Table /\ tab2.array = tab.array /\ tab2.lastfree = n /\ Len(tab2.node) = Len(tab.node)
         /\ tab2.node[mp] = [key |-> k, dead |-> FALSE, val |-> v, next |-> 0]
         /\ \A j \in Nodes(tab) : j # mp => tab2.node[j] = g2[j]
    <2>1. mp \in Nodes(tab1) /\ tab1.node[mp].next = 0
      BY <1>2, <1>13, <1>15 DEF FreeNode
    <2>2. PutMakes(tab1, mp, k, v, tab2)
      BY <1>15, <2>1, PutIs, Zenon
    <2> QED
      BY <1>15, <2>1, <2>2 DEF PutMakes
  <1> HIDE DEF tab2
  <1>17. tab2.node[n] = tab.node[mp]
    BY <1>1, <1>5, <1>13, <1>16
  <1>18. p # mp /\ p # n /\ p \in Keyed(tab) /\ tab.node[p].next = mp
    <2>1. p \in Chain(next, p)
      BY <1>0, <1>2, <1>7, ChainLeast
    <2>2. tab.node[p].next = mp /\ mp # 0 /\ next[p] # 0 /\ p \in DOMAIN next
      BY <1>0, <1>2, <1>7
    <2>3. p \notin Chain(next, next[p])
      BY <1>0, <2>2 DEF Chained
    <2>4. p # mp
      BY <1>7, <2>1, <2>3
    <2>5. p # n
      BY <1>1, <2>2
    <2>6. p \in Keyed(tab)
      BY <1>3, <1>7, <2>2 DEF NodeInv, Keyed
    <2> QED
      BY <2>2, <2>4, <2>5, <2>6
  <1>19. /\ tab2.node[p].key = tab.node[p].key /\ tab2.node[p].dead = tab.node[p].dead
         /\ tab2.node[p].val = tab.node[p].val /\ tab2.node[p].next = n
         /\ \A x \in Nodes(tab) : x \notin {mp, n, p} => tab2.node[x] = tab.node[x]
    BY <1>7, <1>11, <1>13, <1>16, <1>18
  <1>20. k # nil
    BY KeyFacts
  <1>21. Nodes(tab2) = Nodes(tab)
    BY <1>16 DEF Nodes
  <1>22. Keyed(tab2) = Keyed(tab) \cup {n}
    <2>1. \A x \in Nodes(tab) : tab2.node[x].key # nil <=> tab.node[x].key # nil \/ x = n
      <3>1. tab.node[mp].key # nil /\ tab.node[p].key # nil
        BY <1>5, <1>18 DEF Keyed
      <3> QED
        BY <1>16, <1>17, <1>19, <1>20, <3>1
    <2> QED
      BY <1>1, <1>21, <2>1 DEF Keyed
  <1>23. /\ DOMAIN new = Nodes(tab)
         /\ \A x \in Nodes(tab) : new[x] = tab2.node[x].next
    BY <1>16, <1>21, TableFields DEF Links
  <1>24. Moves(Len(tab.node), next, mp, n, p, new)
    <2>1. new[p] = n /\ new[n] = next[mp] /\ new[mp] = 0
      BY <1>0, <1>1, <1>2, <1>7, <1>16, <1>17, <1>19, <1>23, SMTT(45)
    <2>2. \A x \in Nodes(tab) : x \notin {mp, n, p} => new[x] = next[x]
      BY <1>0, <1>19, <1>23
    <2>3. \A x \in Nodes(tab) : next[x] \in 0 .. Len(tab.node)
      BY <1>0, <1>2
    <2>4. \A x \in Nodes(tab) : new[x] \in 0 .. Len(tab.node)
      BY <1>1, <1>2, <2>1, <2>2, <2>3
    <2>5. new = [x \in Nodes(tab) |-> new[x]]
      BY <1>23 DEF Links
    <2>6. next[n] = 0 /\ \A x \in Nodes(tab) : next[x] # n
      BY <1>0, <1>1, <1>2
    <2>7. n \in Nodes(tab) /\ next[p] = mp
      BY <1>1, <1>7
    <2>8. next \in [1 .. Len(tab.node) -> 0 .. Len(tab.node)] /\ Chained(next)
      BY <1>0
    <2> HIDE DEF new, next
    <2>9. new \in [1 .. Len(tab.node) -> 0 .. Len(tab.node)]
      BY <1>2, <2>4, <2>5
    <2> QED
      BY <1>0, <1>2, <1>5, <1>7, <2>1, <2>2, <2>6, <2>7, <2>8, <2>9 DEF Moves
  <1>25. /\ Chained(new)
         /\ \A i \in Nodes(tab) : \A j \in From(tab, i) : s(j) \in From(tab2, s(i))
         /\ \A x \in Nodes(tab) : new[x] # mp
    <2>1. Moved(Len(tab.node), next, mp, n, new)
      BY <1>24, ChainMove, Zenon
    <2> QED
      BY <1>2, <2>1, Zenon DEF Moved, From
  <1>26. mainposition(tab2, k) = mp /\ \A x : mainposition(tab2, x) = mainposition(tab, x)
    BY <1>16 DEF mainposition
  <1>27. \A i \in Keyed(tab) : /\ i \in Nodes(tab) /\ i # n /\ s(i) \in Keyed(tab2)
                               /\ tab2.node[s(i)].key = tab.node[i].key
                               /\ tab2.node[s(i)].dead = tab.node[i].dead
                               /\ tab2.node[s(i)].val = tab.node[i].val
                               /\ Home(tab2, s(i)) = Home(tab, i)
    <2> SUFFICES ASSUME NEW i \in Keyed(tab)
                 PROVE  /\ i \in Nodes(tab) /\ i # n /\ s(i) \in Keyed(tab2)
                        /\ tab2.node[s(i)].key = tab.node[i].key
                        /\ tab2.node[s(i)].dead = tab.node[i].dead
                        /\ tab2.node[s(i)].val = tab.node[i].val
                        /\ Home(tab2, s(i)) = Home(tab, i)
      OBVIOUS
    <2>1. i \in Nodes(tab) /\ i # n
      BY <1>1 DEF Keyed
    <2>2. s(i) \in Keyed(tab2)
      BY <1>22, <2>1
    <2>3. /\ tab2.node[s(i)].key = tab.node[i].key /\ tab2.node[s(i)].dead = tab.node[i].dead
          /\ tab2.node[s(i)].val = tab.node[i].val
      BY <1>17, <1>19, <2>1
    <2> HIDE DEF s
    <2> QED
      BY <1>26, <2>1, <2>2, <2>3 DEF Home
  <1>28. ASSUME NEW j \in Keyed(tab2) PROVE HomeInv(tab2, j)
    <2>1. CASE j = mp
      <3>1. Home(tab2, mp) = mp
        BY <1>16, <1>26 DEF Home
      <3>2. new \in [1 .. Len(tab.node) -> 0 .. Len(tab.node)] /\ mp \in 1 .. Len(tab.node)
        BY <1>2, <1>24 DEF Moves
      <3> HIDE DEF new
      <3>3. mp \in Chain(new, mp)
        BY <1>0, <3>2, ChainLeast
      <3>4. mp \in From(tab2, mp)
        BY <3>3 DEF From, new
      <3> QED
        BY <1>5, <1>22, <2>1, <3>1, <3>4 DEF HomeInv
    <2>2. CASE j # mp
      <3>1. PICK i \in Keyed(tab) : j = s(i)
        BY <1>5, <1>22, <2>2
      <3>2. Home(tab, i) \in Keyed(tab) /\ Home(tab, Home(tab, i)) = Home(tab, i) /\ i \in From(tab, Home(tab, i))
        BY <1>4 DEF HomeInv
      <3>3. Home(tab, i) # mp
        BY <1>6, <3>2
      <3>4. s(Home(tab, i)) = Home(tab, i) /\ Home(tab, i) \in Nodes(tab)
        BY <1>27, <3>2, <3>3
      <3> HIDE DEF s
      <3>5. Home(tab2, j) = Home(tab, i) /\ Home(tab2, Home(tab, i)) = Home(tab, i)
        BY <1>27, <3>1, <3>2, <3>4
      <3>6. j \in From(tab2, Home(tab, i))
        BY <1>25, <3>1, <3>2, <3>4
      <3> QED
        BY <1>22, <3>2, <3>5, <3>6 DEF HomeInv
    <2> QED
      BY <2>1, <2>2
  <1>29. \A j \in Keyed(tab2) : j = mp \/ \E i \in Keyed(tab) : j = f[i]
    <2> SUFFICES ASSUME NEW j \in Keyed(tab2), j # mp PROVE \E i \in Keyed(tab) : j = f[i]
      OBVIOUS
    <2>1. CASE j = n
      <3>1. f[mp] = n
        BY <1>5
      <3> QED
        BY <1>5, <2>1, <3>1
    <2>2. CASE j # n
      <3>1. j \in Keyed(tab) /\ f[j] = j
        BY <1>22, <2>2
      <3> QED
        BY <3>1
    <2> QED
      BY <2>1, <2>2
  <1>30. \A i \in Keyed(tab) : f[i] = s(i)
    OBVIOUS
  <1> HIDE DEF f, s
  <1>31. \A i \in Keyed(tab) : /\ f[i] \in Keyed(tab2)
                               /\ tab2.node[f[i]].key = tab.node[i].key
                               /\ tab2.node[f[i]].dead = tab.node[i].dead
                               /\ tab2.node[f[i]].val = tab.node[i].val
    BY <1>27, <1>30
  <1>32. \A i, j \in Keyed(tab) : j \in From(tab, i) => f[j] \in From(tab2, f[i])
    BY <1>25, <1>27, <1>30
  <1>33. \A j \in Keyed(tab) : tab.node[j].key = k => f[j] \in From(tab2, mp)
    <2> SUFFICES ASSUME NEW j \in Keyed(tab), tab.node[j].key = k PROVE FALSE
      OBVIOUS
    <2>1. Home(tab, j) = mp
      BY DEF Home
    <2> QED
      BY <1>4, <1>6, <2>1 DEF HomeInv
  <1>34. \A i \in Nodes(tab) : tab2.node[i].next # 0 => tab2.node[i].next \in Keyed(tab2)
    <2> SUFFICES ASSUME NEW i \in Nodes(tab), tab2.node[i].next # 0 PROVE tab2.node[i].next \in Keyed(tab2)
      OBVIOUS
    <2>1. \A x \in Nodes(tab) : tab.node[x].next # 0 => tab.node[x].next \in Keyed(tab)
      BY <1>3 DEF NodeInv
    <2>2. i # mp
      BY <1>16
    <2>3. CASE i = p
      BY <1>19, <1>22, <2>3
    <2>4. CASE i = n
      BY <1>2, <1>17, <1>22, <2>1, <2>4
    <2>5. CASE i \notin {mp, n, p}
      BY <1>19, <1>22, <2>1, <2>5
    <2> QED
      BY <2>2, <2>3, <2>4, <2>5
  <1>35. \A i \in Nodes(tab) \ Keyed(tab2) : /\ tab2.node[i].next = 0 /\ tab2.node[i].val = nil
                                            /\ ~tab2.node[i].dead /\ i < tab2.lastfree
    <2> SUFFICES ASSUME NEW i \in Nodes(tab) \ Keyed(tab2)
                 PROVE  tab2.node[i].next = 0 /\ tab2.node[i].val = nil /\ ~tab2.node[i].dead /\ i < tab2.lastfree
      OBVIOUS
    <2>1. i \notin {mp, n, p} /\ i \in Nodes(tab) \ Keyed(tab) /\ tab.node[i].key = nil
      BY <1>5, <1>18, <1>22 DEF Keyed
    <2>2. i <= n /\ i \in Nat
      BY <1>1, <1>2, <2>1
    <2>3. nil \notin StrKeys /\ NodeInv(tab, i)
      BY <1>3, KeyFacts
    <2> QED
      BY <1>2, <1>16, <1>19, <2>1, <2>2, <2>3 DEF NodeInv
  <1>36. tab2.node[mp].key = k /\ ~tab2.node[mp].dead /\ tab2.node[mp].val = v /\ Chained(Links(tab2))
    BY <1>16, <1>25
  <1>37. Adds(tab, tab2, k, v, mp, Keyed(tab), f)
    <2>1. Keyed(tab) \subseteq Keyed(tab) /\ (\A i \in Keyed(tab) \ Keyed(tab) : tab.node[i].val = nil) /\ mp \in Nodes(tab)
      BY <1>2
    <2> QED
      BY <1>16, <1>28, <1>29, <1>31, <1>32, <1>33, <1>34, <1>35, <1>36, <2>1, Zenon DEF Adds
  <1>38. Gains(tab, tab2, v)
    BY <1>37, Added
  <1> QED
    BY <1>38 DEF tab2, tab1, tn

LEMMA NewKey ==
  ASSUME NEW tab, TableInv(tab), NEW k \in Keys, NEW v \in {nil, k}, ~InArray(tab, k), Holders(tab, k, FALSE) = {},
         (tab.node # <<>> /\ tab.node[mainposition(tab, k)].val = nil) \/ getfreepos(tab) # 0
  PROVE  Gains(tab, newkey(tab, k, v), v)
  <1> DEFINE mp == mainposition(tab, k)
             n == getfreepos(tab)
             tn == [tab EXCEPT !.lastfree = n]
  <1>1. tab.node # <<>> /\ Len(tab.node) \in Nat
    <2>1. Len(tab.node) \in Nat /\ (tab.node = <<>> <=> Len(tab.node) = 0)
      BY TableLinks
    <2>2. n # 0 => n \in Nodes(tab)
      BY FreePos
    <2> QED
      BY <2>1, <2>2 DEF Nodes
  <1>2. mp # 0
    <2>1. Len(tab.node) \in Nat \ {0}
      BY <1>1, TableLinks
    <2>2. mp \in Nodes(tab)
      BY <2>1, MainType
    <2> HIDE DEF mp
    <2> QED
      BY <1>1, <2>2 DEF Nodes
  <1>3. newkey(tab, k, v) = IF tab.node[mp].val = nil THEN Put(tab, mp, k, v)
                            ELSE IF n = 0 THEN tn
                            ELSE IF Home(tab, mp) # mp THEN Put(MoveColliding(tn, mp, n), mp, k, v)
                                                       ELSE Put(ChainFree(tn, mp, n), n, k, v)
    BY <1>1, <1>2, Zenon DEF newkey, Home
  <1>4. CASE tab.node[mp].val = nil
    BY <1>1, <1>3, <1>4, PutFree
  <1>5. CASE tab.node[mp].val # nil /\ Home(tab, mp) # mp
    <2>1. n # 0
      BY <1>5
    <2>2. Gains(tab, Put(MoveColliding(tn, mp, n), mp, k, v), v)
      BY <1>5, <2>1, PutMoved
    <2> QED
      BY <1>3, <1>5, <2>1, <2>2
  <1>6. CASE tab.node[mp].val # nil /\ Home(tab, mp) = mp
    <2>1. n # 0
      BY <1>6
    <2>2. Gains(tab, Put(ChainFree(tn, mp, n), n, k, v), v)
      BY <1>6, <2>1, PutChained
    <2> QED
      BY <1>3, <1>6, <2>1, <2>2
  <1> QED
    BY <1>4, <1>5, <1>6

\* The keys a table has.
Has(tab) == UsedArray(tab) \cup NodeVals(tab)

\* tab2 is tab with v for k.
Stores(tab, tab2, k, v) == /\ TableInv(tab2)
                           /\ Len(tab2.array) = Len(tab.array) /\ Len(tab2.node) = Len(tab.node)
                           /\ Has(tab2) = (Has(tab) \ {k}) \cup ({v} \ {nil})
                           /\ AllUsed(tab) /\ v # nil => AllUsed(tab2)

\* Nodes and places where they were, with the values they had or with none.
SamePlaces(tab, tab2) == /\ Len(tab2.array) = Len(tab.array) /\ Len(tab2.node) = Len(tab.node)
                         /\ \A i \in Nodes(tab) : tab2.node[i].key = tab.node[i].key
                         /\ Links(tab2) = Links(tab)
                         /\ \A j \in Places(tab) : ValueAt(tab2, j) \in {nil, ValueAt(tab, j)}

Sets(tab, tab2, k, v) == Stores(tab, tab2, k, v) /\ (k \in Has(tab) => SamePlaces(tab, tab2))

LEMMA StoreInArray ==
  ASSUME NEW tab, TableInv(tab), NEW k \in Keys, NEW v \in {nil, k}, InArray(tab, k)
  PROVE  Sets(tab, [tab EXCEPT !.array[k] = v], k, v)
  <1> DEFINE a == [tab.array EXCEPT ![k] = v]
             tab2 == [tab EXCEPT !.array = a]
  <1>0. /\ tab \in Table /\ tab \in [array: Seq(Values), node: Seq(Node), lastfree: Nat]
        /\ Len(tab.array) \in Nat /\ tab.array \in [1 .. Len(tab.array) -> Values]
        /\ DOMAIN tab.node = Nodes(tab) /\ Len(tab.node) \in Nat
    BY TableFields DEF TableInv, Table
  <1>1. k \in 1 .. Len(tab.array) /\ k \in IntKeys /\ k # nil
    BY <1>0, KeyFacts DEF InArray
  <1>2. /\ a \in [1 .. Len(tab.array) -> Values] /\ a[k] = v
        /\ \A i \in 1 .. Len(tab.array) : i # k => a[i] = tab.array[i]
    BY <1>0, <1>1 DEF Values
  <1>3. a \in Seq(Values) /\ Len(a) = Len(tab.array) /\ DOMAIN a = 1 .. Len(tab.array)
    <2> HIDE DEF a
    <2> QED
      BY <1>0, <1>2, LenProperties, SMTT(45)
  <1> HIDE DEF a
  <1>4. tab2.array = a /\ tab2.node = tab.node /\ tab2.lastfree = tab.lastfree /\ tab2 \in Table
    BY <1>0, <1>3 DEF Table
  <1>5. tab2 = [tab EXCEPT !.array[k] = v]
    BY <1>0 DEF a
  <1> HIDE DEF tab2
  <1>6. Links(tab2) = Links(tab) /\ Nodes(tab2) = Nodes(tab) /\ Keyed(tab2) = Keyed(tab) /\ NodeVals(tab2) = NodeVals(tab)
    BY <1>4 DEF Links, Nodes, Keyed, NodeVals, UsedNodes
  <1>7. \A x : From(tab2, x) = From(tab, x) /\ Home(tab2, x) = Home(tab, x)
    BY <1>4, <1>6 DEF From, Home, mainposition
  <1>8. ArrayInv(tab2)
    BY <1>1, <1>2, <1>3, <1>4 DEF TableInv, ArrayInv
  <1>9. \A i \in Nodes(tab2) : NodeInv(tab2, i)
    BY <1>3, <1>4, <1>6 DEF TableInv, NodeInv
  <1>10. \A i \in Keyed(tab2) : HomeInv(tab2, i)
    BY <1>6, <1>7 DEF TableInv, HomeInv
  <1>11. OneNode(tab2)
    BY <1>4, <1>6, <1>7 DEF TableInv, OneNode
  <1>12. TableInv(tab2)
    BY <1>4, <1>6, <1>8, <1>9, <1>10, <1>11 DEF TableInv
  <1>13. UsedArray(tab2) = (UsedArray(tab) \ {k}) \cup ({v} \ {nil})
    BY <1>0, <1>1, <1>2, <1>3, <1>4 DEF UsedArray
  <1>14. k \notin NodeVals(tab)
    BY GetIs
  <1>15. Stores(tab, tab2, k, v)
    BY <1>3, <1>4, <1>6, <1>12, <1>13, <1>14 DEF Stores, Has, AllUsed
  <1>16. ASSUME k \in Has(tab) PROVE SamePlaces(tab, tab2)
    <2>1. k \in UsedArray(tab)
      BY <1>14, <1>16 DEF Has
    <2>2. tab.array[k] = k
      BY <1>0, <1>1, <2>1 DEF UsedArray, TableInv, ArrayInv
    <2>3. ASSUME NEW j \in Places(tab) PROVE ValueAt(tab2, j) \in {nil, ValueAt(tab, j)}
      <3>1. CASE j <= Len(tab.array)
        <4>1. j \in 1 .. Len(tab.array)
          BY <1>0, <3>1 DEF Places
        <4> QED
          BY <1>2, <1>3, <1>4, <2>2, <3>1, <4>1 DEF ValueAt
      <3>2. CASE ~(j <= Len(tab.array))
        BY <1>3, <1>4, <3>2 DEF ValueAt
      <3> QED
        BY <3>1, <3>2
    <2> QED
      BY <1>3, <1>4, <1>6, <2>3 DEF SamePlaces
  <1> QED
    BY <1>5, <1>15, <1>16 DEF Sets

LEMMA StoreInNode ==
  ASSUME NEW tab, TableInv(tab), NEW k \in Keys, NEW v \in {nil, k}, ~InArray(tab, k), NEW n \in Holders(tab, k, FALSE)
  PROVE  Sets(tab, [tab EXCEPT !.node[n].val = v], k, v)
  <1> DEFINE r == tab.node[n]
             q == [r EXCEPT !.val = v]
             g == [tab.node EXCEPT ![n] = q]
             tab2 == [tab EXCEPT !.node = g]
  <1>0. /\ tab \in Table /\ tab \in [array: Seq(Values), node: Seq(Node), lastfree: Nat]
        /\ tab.node \in [Nodes(tab) -> Node] /\ Len(tab.node) \in Nat /\ DOMAIN tab.node = Nodes(tab)
        /\ \A i \in Nodes(tab) : tab.node[i] \in Node
    BY TableFields DEF TableInv, Table
  <1>1. n \in Nodes(tab) /\ r.key = k /\ ~r.dead /\ n \in Keyed(tab)
    BY DEF Holders, Keyed
  <1>2. k # nil
    BY KeyFacts
  <1>3. q \in Node /\ q.key = k /\ q.val = v /\ q.next = r.next /\ q.dead = r.dead
    <2>1. r \in [key: Values, dead: BOOLEAN, val: Values, next: Nat]
      BY <1>0, <1>1 DEF Node
    <2>2. r.key = k
      BY <1>1
    <2> HIDE DEF r
    <2> QED
      BY <2>1, <2>2 DEF Node, Values
  <1> HIDE DEF q
  <1>4. g \in [Nodes(tab) -> Node] /\ g[n] = q /\ \A i \in Nodes(tab) : i # n => g[i] = tab.node[i]
    BY <1>0, <1>1, <1>3
  <1> HIDE DEF g
  <1>5. g \in Seq(Node) /\ Len(g) = Len(tab.node)
    BY <1>0, <1>4, LenProperties, SMTT(45) DEF Nodes
  <1>6. tab2.node = g /\ tab2.array = tab.array /\ tab2.lastfree = tab.lastfree /\ tab2 \in Table
    BY <1>0, <1>5 DEF Table
  <1>7. tab2 = [tab EXCEPT !.node[n].val = v]
    BY <1>0 DEF g, q
  <1> HIDE DEF tab2
  <1>8. Nodes(tab2) = Nodes(tab) /\ DOMAIN tab2.node = Nodes(tab)
    BY <1>4, <1>5, <1>6 DEF Nodes
  <1>9. \A i \in Nodes(tab) : /\ tab2.node[i].key = tab.node[i].key /\ tab2.node[i].dead = tab.node[i].dead
                              /\ tab2.node[i].next = tab.node[i].next
                              /\ tab2.node[i].val = IF i = n THEN v ELSE tab.node[i].val
    BY <1>1, <1>3, <1>4, <1>6
  <1>10. Links(tab2) = Links(tab) /\ Keyed(tab2) = Keyed(tab)
    BY <1>0, <1>8, <1>9 DEF Links, Keyed
  <1>11. /\ \A x : From(tab2, x) = From(tab, x)
         /\ \A x : mainposition(tab2, x) = mainposition(tab, x)
         /\ \A x \in Nodes(tab) : Home(tab2, x) = Home(tab, x)
    BY <1>5, <1>6, <1>9, <1>10 DEF From, Home, mainposition
  <1>12. \A i \in Nodes(tab) : NodeInv(tab, i)
    BY DEF TableInv
  <1>13. ASSUME NEW i \in Nodes(tab2) PROVE NodeInv(tab2, i)
    <2>1. NodeInv(tab, i) /\ i \in Nodes(tab)
      BY <1>8, <1>12
    <2> QED
      BY <1>1, <1>6, <1>9, <1>10, <2>1 DEF NodeInv
  <1>14. ASSUME NEW i \in Keyed(tab2) PROVE HomeInv(tab2, i)
    <2>1. i \in Keyed(tab) /\ i \in Nodes(tab)
      BY <1>10 DEF Keyed
    <2>2. Home(tab, i) \in Keyed(tab) /\ Home(tab, Home(tab, i)) = Home(tab, i) /\ i \in From(tab, Home(tab, i))
      BY <2>1 DEF TableInv, HomeInv
    <2>3. Home(tab, i) \in Nodes(tab)
      BY <2>2 DEF Keyed
    <2> QED
      BY <1>10, <1>11, <2>1, <2>2, <2>3 DEF HomeInv
  <1>15. OneNode(tab2)
    <2>1. OneNode(tab)
      BY DEF TableInv
    <2>2. Keyed(tab) \subseteq Nodes(tab)
      BY DEF Keyed
    <2> QED
      BY <1>9, <1>10, <1>11, <2>1, <2>2 DEF OneNode
  <1>16. TableInv(tab2)
    <2>1. Chained(Links(tab2)) /\ ArrayInv(tab2)
      BY <1>6, <1>10 DEF TableInv, ArrayInv
    <2> QED
      BY <1>6, <1>13, <1>14, <1>15, <2>1 DEF TableInv
  <1>17. \A i \in Holders(tab, k, FALSE) : i = n
    BY NodeOfIs
  <1>18. ASSUME NEW x PROVE x \in NodeVals(tab2) <=> x \in (NodeVals(tab) \ {k}) \cup ({v} \ {nil})
    <2>1. x \in NodeVals(tab) <=> x # nil /\ \E i \in Nodes(tab) : tab.node[i].val = x
      BY <1>0 DEF NodeVals, UsedNodes
    <2>2. x \in NodeVals(tab2) <=> x # nil /\ \E i \in Nodes(tab) : tab2.node[i].val = x
      BY <1>8 DEF NodeVals, UsedNodes
    <2>3. \A i \in Nodes(tab) : tab.node[i].val = k => i = n
      <3> SUFFICES ASSUME NEW i \in Nodes(tab), tab.node[i].val = k PROVE i = n
        OBVIOUS
      <3>1. tab.node[i].key = k /\ ~tab.node[i].dead
        BY <1>2, <1>12 DEF NodeInv
      <3> QED
        BY <1>2, <1>17, <3>1 DEF Holders, Keyed
    <2>4. tab.node[n].val \in {nil, k}
      BY <1>1, <1>12 DEF NodeInv
    <2>5. CASE x = k
      <3>1. x \in NodeVals(tab2) <=> v = k
        BY <1>1, <1>2, <1>9, <2>2, <2>3, <2>5
      <3> QED
        BY <1>2, <2>5, <3>1
    <2>6. CASE x # k
      <3>1. x \in NodeVals(tab2) <=> x \in NodeVals(tab)
        BY <1>1, <1>9, <2>1, <2>2, <2>4, <2>6
      <3> QED
        BY <2>6, <3>1
    <2> QED
      BY <2>5, <2>6
  <1>19. NodeVals(tab2) = (NodeVals(tab) \ {k}) \cup ({v} \ {nil})
    BY <1>18
  <1>20. UsedArray(tab2) = UsedArray(tab) /\ k \notin UsedArray(tab)
    BY <1>6, GetIs DEF UsedArray
  <1>21. Stores(tab, tab2, k, v)
    <2>1. AllUsed(tab) /\ v # nil => AllUsed(tab2)
      <3>1. Keyed(tab) \subseteq Nodes(tab)
        BY DEF Keyed
      <3> QED
        BY <1>9, <1>10, <3>1 DEF AllUsed
    <2> QED
      BY <1>5, <1>6, <1>16, <1>19, <1>20, <2>1 DEF Stores, Has
  <1>22. ASSUME k \in Has(tab) PROVE SamePlaces(tab, tab2)
    <2>1. k \in NodeVals(tab)
      BY <1>20, <1>22, GetIs DEF Has, UsedArray
    <2>2. tab.node[n].val = k
      BY <1>17, <2>1, GetIs
    <2>3. ASSUME NEW j \in Places(tab) PROVE ValueAt(tab2, j) \in {nil, ValueAt(tab, j)}
      <3>0. Len(tab.array) \in Nat
        BY <1>0, TableFields
      <3>1. CASE j <= Len(tab.array)
        BY <1>6, <3>1 DEF ValueAt
      <3>2. CASE ~(j <= Len(tab.array))
        <4> DEFINE i == j - Len(tab.array)
        <4>1. i \in Nodes(tab)
          BY <1>0, <3>0, <3>2 DEF Places, Nodes
        <4>2. ValueAt(tab, j) = tab.node[i].val /\ ValueAt(tab2, j) = tab2.node[i].val
          BY <1>6, <3>2 DEF ValueAt
        <4> HIDE DEF i
        <4> QED
          BY <1>9, <2>2, <4>1, <4>2
      <3> QED
        BY <3>1, <3>2
    <2> QED
      BY <1>5, <1>6, <1>9, <1>10, <2>3 DEF SamePlaces
  <1> QED
    BY <1>7, <1>21, <1>22 DEF Sets

\* t[k] = v for a key that has a slot or room for one.
LEMMA SetGives ==
  ASSUME NEW tab, TableInv(tab), NEW k \in Keys, NEW v \in {nil, k}, ~NoRoom(tab, k)
  PROVE  Sets(tab, SetInPlace(tab, k, v), k, v)
  <1> DEFINE n == NodeOf(tab, k, FALSE)
  <1>1. CASE InArray(tab, k)
    <2>1. SetInPlace(tab, k, v) = [tab EXCEPT !.array[k] = v]
      BY <1>1 DEF SetInPlace
    <2>2. Sets(tab, [tab EXCEPT !.array[k] = v], k, v)
      BY <1>1, StoreInArray
    <2> QED
      BY <2>1, <2>2, Zenon
  <1>2. CASE ~InArray(tab, k) /\ Holders(tab, k, FALSE) # {}
    <2>1. n \in Holders(tab, k, FALSE)
      BY <1>2, NodeOfIs
    <2>2. n # 0
      <3>1. n \in Nodes(tab)
        BY <2>1, Zenon DEF Holders, Keyed
      <3>2. Len(tab.node) \in Nat
        BY TableLinks
      <3> HIDE DEF n
      <3> QED
        BY <3>1, <3>2 DEF Nodes
    <2>3. SetInPlace(tab, k, v) = [tab EXCEPT !.node[n].val = v]
      BY <1>2, <2>2 DEF SetInPlace
    <2> HIDE DEF n
    <2>4. Sets(tab, [tab EXCEPT !.node[n].val = v], k, v)
      BY <1>2, <2>1, StoreInNode
    <2> QED
      BY <2>3, <2>4, Zenon
  <1>3. CASE ~InArray(tab, k) /\ Holders(tab, k, FALSE) = {}
    <2>1. n = 0
      BY <1>3, NodeOfIs
    <2>2. SetInPlace(tab, k, v) = newkey(tab, k, v)
      BY <1>3, <2>1 DEF SetInPlace
    <2>3. (tab.node # <<>> /\ tab.node[mainposition(tab, k)].val = nil) \/ getfreepos(tab) # 0
      BY <1>3, <2>1 DEF NoRoom
    <2>4. Gains(tab, newkey(tab, k, v), v)
      BY <1>3, <2>3, NewKey
    <2>5. k \notin Has(tab)
      BY <1>3, GetIs DEF Has
    <2>6. UsedArray(newkey(tab, k, v)) = UsedArray(tab)
      BY <2>4 DEF Gains, UsedArray
    <2>7. Stores(tab, newkey(tab, k, v), k, v)
      BY <2>4, <2>5, <2>6 DEF Gains, Stores, Has
    <2> QED
      BY <2>2, <2>5, <2>7 DEF Sets
  <1> QED
    BY <1>1, <1>2, <1>3

-----------------------------------------------------------------------------
(* Room. Nodes that all have a value have different keys.                     *)

LEMMA HasRoom ==
  ASSUME NEW tab, TableInv(tab), AllUsed(tab), NEW P, IsFiniteSet(P), NEW k \in P, NodeVals(tab) \subseteq P \ {k},
         Cardinality(P) <= Len(tab.node)
  PROVE  ~NoRoom(tab, k)
  <1> SUFFICES ASSUME getfreepos(tab) = 0 PROVE FALSE
    BY DEF NoRoom
  <1>0. /\ tab \in Table /\ DOMAIN tab.node = Nodes(tab) /\ Len(tab.node) \in Nat
    BY TableFields DEF TableInv
  <1>1. Keyed(tab) = Nodes(tab)
    BY FreePos
  <1>2. \A i \in Nodes(tab) : NodeInv(tab, i) /\ tab.node[i].val # nil
    BY <1>1 DEF TableInv, AllUsed
  <1>3. \A i \in Nodes(tab) : tab.node[i].val = tab.node[i].key /\ ~tab.node[i].dead /\ tab.node[i].val \in P \ {k}
    BY <1>0, <1>2 DEF NodeInv, NodeVals, UsedNodes
  <1> DEFINE f == [i \in Nodes(tab) |-> tab.node[i].val]
             Q == P \ {k}
             N == Nodes(tab)
  <1>4. f \in [N -> Q]
    BY <1>3
  <1>5. \A i, j \in N : f[i] = f[j] => i = j
    BY <1>1, <1>3 DEF TableInv, OneNode
  <1>6. IsFiniteSet(Q) /\ Cardinality(Q) = Cardinality(P) - 1 /\ Cardinality(P) \in Nat
    BY FS_RemoveElement, FS_CardinalityType
  <1>7. IsFiniteSet(N) /\ Cardinality(N) = Len(tab.node)
    BY <1>0, FS_Interval DEF Nodes
  <1>8. Cardinality(Q) < Cardinality(N)
    BY <1>0, <1>6, <1>7
  <1> HIDE DEF f, Q, N
  <1>9. \E i, j \in N : i # j /\ f[i] = f[j]
    BY <1>4, <1>6, <1>7, <1>8, FS_PigeonHole
  <1> QED
    BY <1>5, <1>9

\* A fresh hash part of at least size nodes.
LEMMA FreshNodes ==
  ASSUME NEW tab \in Table, ArrayInv(tab), NEW size \in Nat, NEW tab2, tab2 = setnodevector(tab, size)
  PROVE  /\ TableInv(tab2) /\ AllUsed(tab2)
         /\ tab2.array = tab.array /\ Len(tab2.node) >= size /\ Len(tab2.node) \in Nat
         /\ Has(tab2) = UsedArray(tab)
         /\ \A i \in Nodes(tab2) : tab2.node[i] = FreeNode
  <1> DEFINE n == IF size = 0 THEN 0 ELSE twoto[ceillog2(size)]
             g == [i \in 1 .. n |-> FreeNode]
  <1>0. tab \in [array: Seq(Values), node: Seq(Node), lastfree: Nat]
    BY DEF Table
  <1>1. n \in Nat /\ n >= size
    BY Ceillog2Above, TwotoGrows
  <1>2. tab2 = [tab EXCEPT !.node = g, !.lastfree = n + 1]
    BY DEF setnodevector
  <1> HIDE DEF n
  <1>3. FreeNode \in Node
    BY DEF FreeNode, Node, Values
  <1>4. g \in [1 .. n -> Node] /\ \A i \in 1 .. n : g[i] = FreeNode
    BY <1>3
  <1> HIDE DEF g
  <1>5. g \in Seq(Node) /\ Len(g) = n
    BY <1>1, <1>4, LenProperties
  <1>6. tab2 \in Table /\ tab2.array = tab.array /\ tab2.node = g /\ tab2.lastfree = n + 1
    <2> DEFINE lf == n + 1
    <2>1. lf \in Nat
      BY <1>1
    <2> HIDE DEF lf
    <2>2. tab2 = [tab EXCEPT !.node = g, !.lastfree = lf]
      BY <1>2 DEF lf
    <2>3. tab2 \in Table /\ tab2.array = tab.array /\ tab2.node = g /\ tab2.lastfree = lf
      BY <1>0, <1>5, <2>1, <2>2 DEF Table
    <2> QED
      BY <2>3 DEF lf
  <1>7. Nodes(tab2) = 1 .. n /\ \A i \in 1 .. n : tab2.node[i] = FreeNode
    BY <1>4, <1>5, <1>6 DEF Nodes
  <1>8. Keyed(tab2) = {} /\ UsedNodes(tab2) = {} /\ NodeVals(tab2) = {}
    <2>1. DOMAIN tab2.node = 1 .. n
      BY <1>4, <1>6
    <2> QED
      BY <1>7, <2>1 DEF Keyed, UsedNodes, NodeVals, FreeNode
  <1>9. Chained(Links(tab2))
    <2>1. DOMAIN Links(tab2) = 1 .. n
      BY <1>4, <1>6 DEF Links
    <2>2. \A i \in 1 .. n : Links(tab2)[i] = 0
      BY <1>4, <1>6, <1>7 DEF Links, FreeNode
    <2> QED
      BY <2>1, <2>2, Zenon DEF Chained
  <1>10. \A i \in Nodes(tab2) : NodeInv(tab2, i)
    <2> SUFFICES ASSUME NEW i \in Nodes(tab2) PROVE NodeInv(tab2, i)
      OBVIOUS
    <2>1. tab2.node[i] = FreeNode /\ i < tab2.lastfree
      BY <1>1, <1>6, <1>7
    <2>2. nil \notin IntKeys
      BY KeyFacts
    <2> QED
      BY <2>1, <2>2 DEF NodeInv, FreeNode
  <1>11. TableInv(tab2) /\ AllUsed(tab2)
    BY <1>6, <1>8, <1>9, <1>10 DEF TableInv, ArrayInv, OneNode, AllUsed
  <1> QED
    BY <1>1, <1>5, <1>6, <1>7, <1>8, <1>11 DEF Has, UsedArray

LEMMA SetArray ==
  ASSUME NEW tab \in Table, ArrayInv(tab), NEW size \in Nat, NEW tab2, tab2 = setarrayvector(tab, size)
  PROVE  /\ tab2 \in Table /\ ArrayInv(tab2) /\ Len(tab2.array) = size
         /\ UsedArray(tab2) = UsedArray(tab) \cap 1 .. size
  <1> DEFINE a == [i \in 1 .. size |-> IF i <= Len(tab.array) THEN tab.array[i] ELSE nil]
  <1>0. /\ tab \in [array: Seq(Values), node: Seq(Node), lastfree: Nat]
        /\ Len(tab.array) \in Nat /\ tab.array \in [1 .. Len(tab.array) -> Values]
    BY TableFields DEF Table
  <1>1. tab2 = [tab EXCEPT !.array = a]
    BY <1>0 DEF setarrayvector
  <1>2. a \in [1 .. size -> Values]
    <2> SUFFICES ASSUME NEW i \in 1 .. size, i <= Len(tab.array) PROVE tab.array[i] \in Values
      BY DEF Values
    <2> QED
      BY <1>0
  <1>3. \A i \in 1 .. size : a[i] = IF i <= Len(tab.array) THEN tab.array[i] ELSE nil
    OBVIOUS
  <1> HIDE DEF a
  <1>4. a \in Seq(Values) /\ Len(a) = size
    BY <1>2, LenProperties
  <1>5. tab2 \in Table /\ tab2.array = a
    BY <1>0, <1>1, <1>4 DEF Table
  <1>6. ArrayInv(tab2)
    BY <1>0, <1>3, <1>4, <1>5 DEF ArrayInv
  <1>7. UsedArray(tab2) = UsedArray(tab) \cap 1 .. size
    BY <1>0, <1>2, <1>3, <1>5 DEF UsedArray
  <1> QED
    BY <1>4, <1>5, <1>6, <1>7

\* What resize sets again: the keys with their values, each of them once.
OldItems(tab, nasize) ==
  [i \in 1 .. Len(tab.array) - nasize |-> [key |-> nasize + i, val |-> tab.array[nasize + i]]] \o Reverse(tab.node)
Carried(old, n) == {old[j].key : j \in {i \in 1 .. Len(old) : i <= n /\ old[i].val # nil}}

LEMMA OldItemsAre ==
  ASSUME NEW tab, TableInv(tab), NEW nasize \in Nat, NEW old, old = OldItems(tab, nasize)
  PROVE  /\ Len(old) \in Nat
         /\ \A i \in 1 .. Len(old) : old[i].val # nil => old[i].val = old[i].key /\ old[i].key \in Keys
         /\ \A i, j \in 1 .. Len(old) : old[i].val # nil /\ old[j].val # nil /\ old[i].key = old[j].key => i = j
         /\ Has(tab) = (UsedArray(tab) \cap 1 .. nasize) \cup Carried(old, Len(old))
         /\ Carried(old, Len(old)) \cap UsedArray(tab) \cap 1 .. nasize = {}
  <1>0. /\ tab \in Table
        /\ Len(tab.array) \in Nat /\ tab.array \in [1 .. Len(tab.array) -> Values] /\ DOMAIN tab.array = 1 .. Len(tab.array)
        /\ tab.node \in [Nodes(tab) -> Node] /\ DOMAIN tab.node = Nodes(tab) /\ Len(tab.node) \in Nat
        /\ \A i \in Nodes(tab) : tab.node[i] \in Node
    BY TableFields DEF TableInv
  <1>1. \A i \in Nodes(tab) : NodeInv(tab, i)
    BY DEF TableInv
  <1> DEFINE a == IF Len(tab.array) > nasize THEN Len(tab.array) - nasize ELSE 0
             b == Len(tab.node)
             S == Node \cup {[key |-> nasize + i, val |-> tab.array[nasize + i]] : i \in 1 .. a}
             slice == [i \in 1 .. a |-> [key |-> nasize + i, val |-> tab.array[nasize + i]]]
             rev == [i \in 1 .. b |-> tab.node[(b - i) + 1]]
  <1>2. /\ a \in Nat /\ b \in Nat /\ 1 .. Len(tab.array) - nasize = 1 .. a /\ Nodes(tab) = 1 .. b
        /\ a > 0 => a + nasize = Len(tab.array)
        /\ Len(tab.array) <= nasize + a
    BY <1>0 DEF Nodes
  <1>3. old = slice \o rev
    BY <1>2 DEF OldItems, Reverse
  <1> HIDE DEF a, b
  <1>4. slice \in Seq(S) /\ Len(slice) = a
    <2>1. slice \in [1 .. a -> S]
      OBVIOUS
    <2> HIDE DEF slice, S
    <2> QED
      BY <1>2, <2>1, LenProperties
  <1>5. rev \in Seq(S) /\ Len(rev) = b
    <2>1. \A i \in 1 .. b : (b - i) + 1 \in Nodes(tab)
      BY <1>2
    <2>2. rev \in [1 .. b -> S]
      BY <1>0, <2>1
    <2> HIDE DEF rev, S
    <2> QED
      BY <1>2, <2>2, LenProperties
  <1>6. Len(old) = a + b /\ \A i \in 1 .. a + b : old[i] = IF i <= a THEN slice[i] ELSE rev[i - a]
    <2> HIDE DEF slice, rev, S
    <2> QED
      <3>1. /\ Len(slice \o rev) = Len(slice) + Len(rev)
            /\ \A i \in 1 .. Len(slice) + Len(rev) :
                 (slice \o rev)[i] = IF i <= Len(slice) THEN slice[i] ELSE rev[i - Len(slice)]
        BY <1>4, <1>5, ConcatProperties, Zenon
      <3> QED
        BY <1>3, <1>4, <1>5, <3>1, Zenon
  <1> DEFINE at(i) == (b - (i - a)) + 1
  <1>7. \A i \in 1 .. a + b : i <= a => /\ nasize + i \in 1 .. Len(tab.array) /\ nasize + i > nasize
                                        /\ old[i].key = nasize + i /\ old[i].val = tab.array[nasize + i]
    <2> SUFFICES ASSUME NEW i \in 1 .. a + b, i <= a
                 PROVE  /\ nasize + i \in 1 .. Len(tab.array) /\ nasize + i > nasize
                        /\ old[i].key = nasize + i /\ old[i].val = tab.array[nasize + i]
      OBVIOUS
    <2>1. i \in 1 .. a /\ nasize + i \in 1 .. Len(tab.array)
      BY <1>0, <1>2
    <2>2. old[i] = [key |-> nasize + i, val |-> tab.array[nasize + i]]
      BY <1>6, <2>1
    <2> QED
      BY <2>1, <2>2
  <1>8. \A i \in 1 .. a + b : ~(i <= a) => at(i) \in Nodes(tab) /\ old[i] = tab.node[at(i)]
    <2> SUFFICES ASSUME NEW i \in 1 .. a + b, ~(i <= a) PROVE at(i) \in Nodes(tab) /\ old[i] = tab.node[at(i)]
      OBVIOUS
    <2>1. i - a \in 1 .. b /\ at(i) \in Nodes(tab)
      BY <1>2
    <2>2. old[i] = rev[i - a]
      BY <1>6
    <2> QED
      BY <2>1, <2>2
  <1>9. \A x \in Nodes(tab) : \E i \in 1 .. a + b : ~(i <= a) /\ at(i) = x
    <2> SUFFICES ASSUME NEW x \in Nodes(tab) PROVE \E i \in 1 .. a + b : ~(i <= a) /\ at(i) = x
      OBVIOUS
    <2>1. x \in 1 .. b
      BY <1>2
    <2> DEFINE i == a + ((b - x) + 1)
    <2>2. i \in 1 .. a + b /\ ~(i <= a) /\ at(i) = x
      BY <1>2, <2>1
    <2> QED
      BY <2>2
  <1>10. \A i, j \in 1 .. a + b : at(i) = at(j) => i = j
    BY <1>2
  <1> HIDE DEF slice, rev, S, at
  <1>11. \A x \in Nodes(tab) : tab.node[x].val # nil => /\ tab.node[x].val = tab.node[x].key /\ ~tab.node[x].dead
                                                       /\ x \in Keyed(tab) /\ tab.node[x].key \in Keys
                                                       /\ (tab.node[x].key \in Int => tab.node[x].key > Len(tab.array))
    <2> SUFFICES ASSUME NEW x \in Nodes(tab), tab.node[x].val # nil
                 PROVE  /\ tab.node[x].val = tab.node[x].key /\ ~tab.node[x].dead
                        /\ x \in Keyed(tab) /\ tab.node[x].key \in Keys
                        /\ (tab.node[x].key \in Int => tab.node[x].key > Len(tab.array))
      OBVIOUS
    <2>1. tab.node[x].val = tab.node[x].key /\ ~tab.node[x].dead /\ x \in Keyed(tab)
      BY <1>1 DEF NodeInv, Keyed
    <2>2. tab.node[x].key \in Keys
      BY <1>0, <2>1 DEF Node, Values
    <2>3. tab.node[x].key \in Int => tab.node[x].key \in IntKeys
      BY <2>2, KeyFacts DEF Keys
    <2> QED
      BY <1>1, <2>1, <2>2, <2>3 DEF NodeInv
  <1>12. \A x \in 1 .. Len(tab.array) : tab.array[x] # nil => x \in IntKeys /\ tab.array[x] = x
    BY DEF TableInv, ArrayInv
  <1>13. ASSUME NEW i \in 1 .. a + b, old[i].val # nil PROVE old[i].val = old[i].key /\ old[i].key \in Keys
    <2>1. CASE i <= a
      BY <1>7, <1>12, <1>13, <2>1 DEF Keys
    <2>2. CASE ~(i <= a)
      BY <1>8, <1>11, <1>13, <2>2
    <2> QED
      BY <2>1, <2>2
  <1>14. ASSUME NEW i \in 1 .. a + b, NEW j \in 1 .. a + b, old[i].val # nil, old[j].val # nil, old[i].key = old[j].key
         PROVE  i = j
    <2>1. CASE i <= a /\ j <= a
      <3>1. nasize + i = nasize + j
        BY <1>7, <1>14, <2>1
      <3> QED
        BY <3>1
    <2>2. CASE i <= a /\ ~(j <= a)
      BY <1>0, <1>7, <1>8, <1>11, <1>14, <2>2, SMTT(45)
    <2>3. CASE ~(i <= a) /\ j <= a
      BY <1>0, <1>7, <1>8, <1>11, <1>14, <2>3, SMTT(45)
    <2>4. CASE ~(i <= a) /\ ~(j <= a)
      <3>1. /\ at(i) \in Keyed(tab) /\ at(j) \in Keyed(tab) /\ ~tab.node[at(i)].dead /\ ~tab.node[at(j)].dead
            /\ tab.node[at(i)].key = tab.node[at(j)].key
        BY <1>8, <1>11, <1>14, <2>4
      <3>2. at(i) = at(j)
        BY <3>1 DEF TableInv, OneNode
      <3> QED
        BY <1>10, <3>2
    <2> QED
      BY <2>1, <2>2, <2>3, <2>4
  <1>15. \A x : x \in Carried(old, Len(old)) <=> \E i \in 1 .. a + b : old[i].val # nil /\ old[i].key = x
    <2>1. 1 .. Len(old) = 1 .. a + b /\ \A i \in 1 .. a + b : i <= Len(old)
      BY <1>2, <1>6
    <2>2. Carried(old, Len(old)) = {old[j].key : j \in {i \in 1 .. a + b : old[i].val # nil}}
      BY <2>1, Zenon DEF Carried
    <2> QED
      BY <2>2
  <1>16. ASSUME NEW x PROVE x \in Has(tab) <=> x \in (UsedArray(tab) \cap 1 .. nasize) \cup Carried(old, Len(old))
    <2>1. x \in UsedArray(tab) <=> x \in 1 .. Len(tab.array) /\ tab.array[x] # nil
      BY <1>0 DEF UsedArray
    <2>2. x \in NodeVals(tab) <=> x # nil /\ \E i \in Nodes(tab) : tab.node[i].val = x
      BY <1>0 DEF NodeVals, UsedNodes
    <2>3. ASSUME x \in UsedArray(tab), x \notin 1 .. nasize PROVE x \in Carried(old, Len(old))
      <3>1. x \in 1 .. Len(tab.array) /\ x > nasize
        BY <1>0, <2>1, <2>3
      <3> DEFINE i == x - nasize
      <3>2. i \in 1 .. a + b /\ i <= a /\ nasize + i = x
        BY <1>0, <1>2, <3>1
      <3> HIDE DEF i
      <3>3. old[i].val # nil /\ old[i].key = x
        BY <1>7, <2>1, <2>3, <3>2
      <3> QED
        BY <1>15, <3>2, <3>3
    <2>4. ASSUME x \in NodeVals(tab) PROVE x \in Carried(old, Len(old))
      <3>1. PICK n \in Nodes(tab) : tab.node[n].val = x /\ x # nil
        BY <2>2, <2>4
      <3>2. PICK i \in 1 .. a + b : ~(i <= a) /\ at(i) = n
        BY <1>9
      <3> QED
        BY <1>8, <1>11, <1>15, <3>1, <3>2
    <2>5. ASSUME x \in Carried(old, Len(old)) PROVE x \in Has(tab)
      <3>1. PICK i \in 1 .. a + b : old[i].val # nil /\ old[i].key = x
        BY <1>15, <2>5
      <3>2. CASE i <= a
        BY <1>7, <2>1, <3>1, <3>2 DEF Has
      <3>3. CASE ~(i <= a)
        BY <1>8, <1>11, <2>2, <3>1, <3>3 DEF Has
      <3> QED
        BY <3>2, <3>3
    <2> QED
      BY <2>3, <2>4, <2>5 DEF Has
  <1>17. ASSUME NEW x \in Carried(old, Len(old)), x \in UsedArray(tab), x \in 1 .. nasize PROVE FALSE
    <2>1. PICK i \in 1 .. a + b : old[i].val # nil /\ old[i].key = x
      BY <1>15
    <2>2. CASE i <= a
      BY <1>7, <1>17, <2>1, <2>2
    <2>3. CASE ~(i <= a)
      <3>1. x \in 1 .. Len(tab.array)
        BY <1>0, <1>17 DEF UsedArray
      <3> QED
        BY <1>0, <1>8, <1>11, <2>1, <2>3, <3>1
    <2> QED
      BY <2>2, <2>3
  <1> QED
    BY <1>2, <1>6, <1>13, <1>14, <1>16, <1>17

-----------------------------------------------------------------------------
(* Resize.                                                                    *)

\* One turn of resize, and what a table is after n of them.
Turn(old, n, tab) == IF n > Len(old) \/ old[n].val = nil THEN tab ELSE SetInPlace(tab, old[n].key, old[n].val)
Turned(old, empty, n, tab) ==
  /\ TableInv(tab) /\ AllUsed(tab)
  /\ Len(tab.array) = Len(empty.array) /\ Len(tab.node) = Len(empty.node)
  /\ Has(tab) = Has(empty) \cup Carried(old, n)

\* old and empty come from a table with keys for which P has room.
Refills(old, empty, P) ==
  /\ Len(old) \in Nat /\ TableInv(empty) /\ AllUsed(empty)
  /\ \A i \in 1 .. Len(old) : old[i].val # nil => old[i].val = old[i].key /\ old[i].key \in Keys
  /\ \A i, j \in 1 .. Len(old) : old[i].val # nil /\ old[j].val # nil /\ old[i].key = old[j].key => i = j
  /\ IsFiniteSet(P) /\ Cardinality(P) <= Len(empty.node)
  /\ \A x \in Has(empty) \cup Carried(old, Len(old)) : x \in P \/ (x \in IntKeys /\ x <= Len(empty.array))
  /\ \A x \in Has(empty) : x \in IntKeys /\ x <= Len(empty.array)
  /\ Has(empty) \cap Carried(old, Len(old)) = {}

LEMMA TurnTaken ==
  ASSUME NEW old, NEW empty, NEW P, Refills(old, empty, P), NEW n \in Nat, NEW tab, Turned(old, empty, n, tab)
  PROVE  Turned(old, empty, n + 1, Turn(old, n + 1, tab))
  <1>0. Len(old) \in Nat /\ TableInv(tab) /\ AllUsed(tab) /\ Len(empty.array) \in Nat /\ Len(empty.node) \in Nat
    BY TableLinks, TableFields DEF Refills, Turned, TableInv
  <1>1. CASE n + 1 > Len(old) \/ old[n + 1].val = nil
    <2>1. Carried(old, n + 1) = Carried(old, n)
      <3>1. {i \in 1 .. Len(old) : i <= n + 1 /\ old[i].val # nil} = {i \in 1 .. Len(old) : i <= n /\ old[i].val # nil}
        <4>1. \A i \in 1 .. Len(old) : old[i].val # nil => (i <= n + 1 <=> i <= n)
          BY <1>0, <1>1
        <4> QED
          BY <4>1
      <3> QED
        BY <3>1, Zenon DEF Carried
    <2>2. Turn(old, n + 1, tab) = tab
      BY <1>1, Zenon DEF Turn
    <2> QED
      BY <2>1, <2>2 DEF Turned
  <1>2. CASE ~(n + 1 > Len(old)) /\ old[n + 1].val # nil
    <2> DEFINE m == n + 1
               k == old[m].key
    <2>0. m \in 1 .. Len(old) /\ ~(m > Len(old)) /\ old[m].val # nil
      BY <1>0, <1>2
    <2>1. old[m].val = k /\ k \in Keys /\ k # nil
      BY <2>0, KeyFacts DEF Refills
    <2>2. Turn(old, m, tab) = SetInPlace(tab, k, k)
      <3> HIDE DEF m
      <3> QED
        BY <2>0, <2>1, Zenon DEF Turn
    <2>3. Carried(old, m) = Carried(old, n) \cup {k}
      <3>1. \A i \in 1 .. Len(old) : i <= m <=> i <= n \/ i = m
        BY <1>0
      <3> HIDE DEF m
      <3> QED
        BY <2>0, <3>1 DEF Carried
    <2>4. k \notin Carried(old, n)
      <3> SUFFICES ASSUME NEW i \in 1 .. Len(old), i <= n, old[i].val # nil, old[i].key = k PROVE FALSE
        BY Zenon DEF Carried
      <3>1. i = m
        <4> HIDE DEF m
        <4> QED
          BY <2>0, Zenon DEF Refills
      <3> QED
        BY <1>0, <3>1
    <2>5. k \in Carried(old, Len(old)) /\ Carried(old, n) \subseteq Carried(old, Len(old))
      <3>1. \A i \in 1 .. Len(old) : i <= Len(old)
        BY <1>0
      <3> HIDE DEF m
      <3> QED
        BY <2>0, <3>1 DEF Carried
    <2>6. k \notin Has(tab)
      BY <2>4, <2>5 DEF Turned, Refills
    <2>7. ~NoRoom(tab, k)
      <3>1. CASE InArray(tab, k)
        BY <3>1 DEF NoRoom
      <3>2. CASE ~InArray(tab, k)
        <4>1. Len(tab.array) = Len(empty.array) /\ Cardinality(P) <= Len(tab.node) /\ IsFiniteSet(P)
          BY DEF Turned, Refills
        <4>2. k \in P
          BY <2>5, <3>2, <4>1 DEF Refills, InArray
        <4>3. NodeVals(tab) \subseteq P \ {k}
          <5> SUFFICES ASSUME NEW x \in NodeVals(tab) PROVE x \in P /\ x # k
            OBVIOUS
          <5>1. x \in Has(tab)
            BY DEF Has
          <5>2. x \in Has(empty) \cup Carried(old, Len(old))
            BY <2>5, <5>1 DEF Turned
          <5>3. x \in Keys
            <6>1. tab \in Table /\ DOMAIN tab.node = Nodes(tab) /\ \A i \in Nodes(tab) : tab.node[i] \in Node
              BY <1>0, TableFields DEF TableInv
            <6> QED
              BY <6>1 DEF NodeVals, UsedNodes, Node, Values
          <5>4. ~InArray(tab, x)
            BY <1>0, <5>3, GetIs
          <5>5. x \in P
            BY <4>1, <5>2, <5>4 DEF Refills, InArray
          <5> QED
            BY <2>6, <5>1, <5>5
        <4> QED
          BY <1>0, <4>1, <4>2, <4>3, HasRoom
      <3> QED
        BY <3>1, <3>2
    <2>8. Sets(tab, SetInPlace(tab, k, k), k, k)
      <3> HIDE DEF k
      <3> QED
        BY <1>0, <2>1, <2>7, SetGives
    <2>9. Turned(old, empty, m, SetInPlace(tab, k, k))
      <3> HIDE DEF m, k
      <3> QED
        BY <2>1, <2>3, <2>6, <2>8 DEF Turned, Sets, Stores
    <2> QED
      BY <2>2, <2>9
  <1> QED
    BY <1>1, <1>2

\* The function of resize, and what it gives.
After(old, empty) ==
  LET after[i \in Nat] == IF i = 0 THEN empty
                          ELSE IF i > Len(old) \/ old[i].val = nil THEN after[i - 1]
                          ELSE SetInPlace(after[i - 1], old[i].key, old[i].val)
  IN  after

LEMMA AfterTurns ==
  ASSUME NEW old, NEW empty, NEW P, Refills(old, empty, P)
  PROVE  \A n \in Nat : Turned(old, empty, n, After(old, empty)[n])
  <1> DEFINE turn(n, tab) == Turn(old, n, tab)
             guarded(n, tab) == IF turn(n + 1, tab) \in Table THEN turn(n + 1, tab) ELSE tab
             step == [p \in Nat \X Table |-> guarded(p[1], p[2])]
  <1>1. \A n \in Nat : \A tab \in Table : guarded(n, tab) \in Table
    OBVIOUS
  <1>2. step \in [Nat \X Table -> Table]
    <2> HIDE DEF guarded
    <2> QED
      BY <1>1
  <1>3. empty \in Table
    BY DEF Refills, TableInv
  <1>4. PICK f : Runs(empty, step, Table, f)
    <2> HIDE DEF step
    <2> QED
      BY <1>2, <1>3, NatRecursion, Zenon
  <1> HIDE DEF guarded
  <1>5. f \in [Nat -> Table] /\ f[0] = empty /\ \A n \in Nat : f[n + 1] = guarded(n, f[n])
    BY <1>4 DEF Runs
  <1>6. Turned(old, empty, 0, empty)
    <2>1. Len(old) \in Nat
      BY DEF Refills
    <2>2. Carried(old, 0) = {}
      BY <2>1 DEF Carried
    <2> QED
      BY <2>2 DEF Turned, Refills
  <1>7. \A n \in Nat : \A tab : Turned(old, empty, n, tab) => Turned(old, empty, n + 1, turn(n + 1, tab)) /\ guarded(n, tab) = turn(n + 1, tab)
    <2> SUFFICES ASSUME NEW n \in Nat, NEW tab, Turned(old, empty, n, tab)
                 PROVE  Turned(old, empty, n + 1, turn(n + 1, tab)) /\ guarded(n, tab) = turn(n + 1, tab)
      OBVIOUS
    <2>1. Turned(old, empty, n + 1, turn(n + 1, tab))
      BY TurnTaken
    <2>2. turn(n + 1, tab) \in Table
      BY <2>1 DEF Turned, TableInv
    <2> QED
      BY <2>1, <2>2 DEF guarded
  <1> HIDE DEF turn
  <1> DEFINE T == {n \in Nat : Turned(old, empty, n, f[n])}
  <1>8. \A n \in Nat : Turned(old, empty, n, f[n])
    <2>1. 0 \in T
      BY <1>5, <1>6
    <2>2. ASSUME NEW n \in Nat, n \in T PROVE n + 1 \in T
      <3>1. Turned(old, empty, n + 1, turn(n + 1, f[n])) /\ guarded(n, f[n]) = turn(n + 1, f[n])
        BY <1>7, <2>2
      <3>2. f[n + 1] = turn(n + 1, f[n])
        BY <1>5, <3>1
      <3> QED
        BY <3>1, <3>2
    <2>3. Nat \subseteq T
      BY <2>1, <2>2, NatSetInduction
    <2> QED
      BY <2>3
  <1>9. \A n \in Nat : f[n] = IF n = 0 THEN empty ELSE turn(n, f[n - 1])
    <2> SUFFICES ASSUME NEW n \in Nat PROVE f[n] = IF n = 0 THEN empty ELSE turn(n, f[n - 1])
      OBVIOUS
    <2>1. CASE n = 0
      BY <1>5, <2>1
    <2>2. CASE n # 0
      <3> DEFINE m == n - 1
      <3>1. m \in Nat /\ m + 1 = n
        BY <2>2
      <3>2. f[m + 1] = guarded(m, f[m]) /\ guarded(m, f[m]) = turn(m + 1, f[m])
        <4> HIDE DEF m
        <4> QED
          BY <1>5, <1>7, <1>8, <3>1, Zenon
      <3> QED
        BY <2>2, <3>1, <3>2
    <2> QED
      BY <2>1, <2>2
  <1>10. f = [i \in Nat |-> IF i = 0 THEN empty ELSE turn(i, f[i - 1])]
    BY <1>5, <1>9
  <1> DEFINE W == After(old, empty)
  <1>11. W = [i \in Nat |-> IF i = 0 THEN empty ELSE turn(i, W[i - 1])]
    BY <1>10, Zenon DEF After, turn, Turn
  <1> HIDE DEF W
  <1>12. W[0] = empty /\ \A n \in Nat : W[n + 1] = turn(n + 1, W[n])
    <2>1. ASSUME NEW n \in Nat PROVE W[n + 1] = turn(n + 1, W[n])
      <3>1. n + 1 \in Nat /\ n + 1 # 0 /\ (n + 1) - 1 = n
        OBVIOUS
      <3> QED
        BY <1>11, <3>1
    <2> QED
      BY <1>11, <2>1
  <1> DEFINE U == {n \in Nat : Turned(old, empty, n, W[n])}
  <1>13. 0 \in U
    BY <1>6, <1>12
  <1>14. ASSUME NEW n \in Nat, n \in U PROVE n + 1 \in U
    <2>1. Turned(old, empty, n + 1, turn(n + 1, W[n]))
      BY <1>7, <1>14
    <2> QED
      BY <1>12, <2>1
  <1>15. Nat \subseteq U
    BY <1>13, <1>14, NatSetInduction
  <1> QED
    BY <1>15 DEF W

Resized(tab, tab2, nasize, nhsize) ==
  /\ TableInv(tab2) /\ AllUsed(tab2)
  /\ Len(tab2.array) = nasize /\ Len(tab2.node) \in Nat /\ Len(tab2.node) >= nhsize
  /\ Has(tab2) = Has(tab)

LEMMA ResizeKeeps ==
  ASSUME NEW tab, TableInv(tab), NEW nasize \in Nat, NEW nhsize \in Nat,
         NEW P, IsFiniteSet(P), Cardinality(P) <= nhsize, \A x \in Has(tab) : x \in P \/ (x \in IntKeys /\ x <= nasize)
  PROVE  Resized(tab, resize(tab, nasize, nhsize), nasize, nhsize)
  <1> DEFINE cut == setarrayvector(tab, nasize)
             empty == setnodevector(cut, nhsize)
             old == OldItems(tab, nasize)
  <1>1. resize(tab, nasize, nhsize) = After(old, empty)[Len(old)]
    BY Zenon DEF resize, After, OldItems
  <1>2. tab \in Table /\ ArrayInv(tab) /\ DOMAIN tab.array = 1 .. Len(tab.array)
    BY TableFields DEF TableInv
  <1>3. cut \in Table /\ ArrayInv(cut) /\ Len(cut.array) = nasize /\ UsedArray(cut) = UsedArray(tab) \cap 1 .. nasize
    BY <1>2, SetArray
  <1> HIDE DEF cut
  <1>4. /\ TableInv(empty) /\ AllUsed(empty) /\ empty.array = cut.array /\ Len(empty.node) >= nhsize
        /\ Len(empty.node) \in Nat /\ Has(empty) = UsedArray(cut)
    BY <1>3, FreshNodes
  <1>5. /\ Len(old) \in Nat
        /\ \A i \in 1 .. Len(old) : old[i].val # nil => old[i].val = old[i].key /\ old[i].key \in Keys
        /\ \A i, j \in 1 .. Len(old) : old[i].val # nil /\ old[j].val # nil /\ old[i].key = old[j].key => i = j
        /\ Has(tab) = (UsedArray(tab) \cap 1 .. nasize) \cup Carried(old, Len(old))
        /\ Carried(old, Len(old)) \cap UsedArray(tab) \cap 1 .. nasize = {}
    BY OldItemsAre
  <1> HIDE DEF empty, old
  <1>6. \A x \in Has(empty) : x \in IntKeys /\ x <= Len(empty.array)
    BY <1>2, <1>3, <1>4 DEF UsedArray, ArrayInv
  <1>7. Has(tab) = Has(empty) \cup Carried(old, Len(old))
    BY <1>3, <1>4, <1>5
  <1>8. Cardinality(P) <= Len(empty.node)
    BY <1>4, FS_CardinalityType
  <1>9. Refills(old, empty, P)
    BY <1>3, <1>4, <1>5, <1>6, <1>7, <1>8 DEF Refills
  <1>10. Turned(old, empty, Len(old), After(old, empty)[Len(old)])
    BY <1>5, <1>9, AfterTurns
  <1> QED
    BY <1>1, <1>3, <1>4, <1>7, <1>10 DEF Turned, Resized

-----------------------------------------------------------------------------
(* Rehash.                                                                    *)

LEMMA SizesAre ==
  ASSUME NEW ks, IsFiniteSet(ks), ks \subseteq Nat \ {0}
  PROVE  /\ computesizes(ks).size \in Nat
         /\ computesizes(ks).uses = Cardinality({k \in ks : k <= computesizes(ks).size})
  <1> DEFINE upto(i) == Cardinality({k \in ks : k <= twoto[i]})
             good == {i \in 0 .. Cardinality(ks) : twoto[i] < 2 * Cardinality(ks) /\ Slice(ks, i) > 0
                                                    /\ 2 * upto(i) > twoto[i]}
             sizes == IF good = {} THEN [size |-> 0, uses |-> 0] ELSE [size |-> twoto[Max(good)], uses |-> upto(Max(good))]
  <1>1. computesizes(ks) = sizes
    BY Zenon DEF computesizes
  <1>2. good \subseteq 0 .. Cardinality(ks) /\ Cardinality(ks) \in Nat
    BY FS_CardinalityType
  <1> HIDE DEF good
  <1>3. CASE good = {}
    <2>1. sizes.size = 0 /\ sizes.uses = 0
      BY <1>3
    <2>2. {k \in ks : k <= 0} = {}
      <3>1. \A k \in ks : ~(k <= 0)
        <4>1. \A k \in Nat \ {0} : ~(k <= 0)
          OBVIOUS
        <4> QED
          BY <4>1, Zenon
      <3> QED
        BY <3>1, Zenon
    <2> HIDE DEF sizes
    <2> QED
      BY <1>1, <2>1, <2>2, FS_EmptySet
  <1>4. CASE good # {}
    <2>1. Max(good) \in good
      BY <1>2, <1>4, MaxIs
    <2>2. Max(good) \in Nat /\ twoto[Max(good)] \in Nat
      <3> DEFINE m == Max(good)
      <3>1. m \in Nat
        <4>1. \A c \in Nat : \A x \in 0 .. c : x \in Nat
          OBVIOUS
        <4>2. m \in 0 .. Cardinality(ks)
          BY <1>2, <2>1, Zenon
        <4> QED
          BY <1>2, <4>1, <4>2, Zenon
      <3> HIDE DEF m
      <3> QED
        BY <3>1, TwotoGrows DEF m
    <2>3. sizes.size = twoto[Max(good)] /\ sizes.uses = upto(Max(good))
      BY <1>4
    <2> HIDE DEF sizes
    <2> QED
      BY <1>1, <2>2, <2>3
  <1> QED
    BY <1>3, <1>4

\* The array part and the hash part have no key in common.
LEMMA HasParts ==
  ASSUME NEW tab, TableInv(tab)
  PROVE  /\ Has(tab) \subseteq Keys /\ UsedArray(tab) \subseteq IntKeys
         /\ IsFiniteSet(Has(tab))
         /\ Cardinality(Has(tab)) = Cardinality(UsedArray(tab)) + Cardinality(UsedNodes(tab))
         /\ NodeVals(tab) = {tab.node[i].key : i \in UsedNodes(tab)}
  <1>0. /\ tab \in Table /\ DOMAIN tab.array = 1 .. Len(tab.array) /\ DOMAIN tab.node = 1 .. Len(tab.node)
        /\ Len(tab.array) \in Nat /\ Len(tab.node) \in Nat /\ Nodes(tab) = 1 .. Len(tab.node)
        /\ \A i \in Nodes(tab) : tab.node[i] \in Node
    BY TableFields DEF TableInv, Nodes
  <1>1. \A i \in Nodes(tab) : NodeInv(tab, i)
    BY DEF TableInv
  <1>2. UsedArray(tab) \subseteq IntKeys /\ UsedArray(tab) \subseteq Keys
    BY <1>0 DEF UsedArray, TableInv, ArrayInv, Keys
  <1>3. \A i \in UsedNodes(tab) : i \in Keyed(tab) /\ tab.node[i].val = tab.node[i].key /\ ~tab.node[i].dead
    BY <1>0, <1>1 DEF UsedNodes, Keyed, NodeInv
  <1>4. NodeVals(tab) \subseteq Keys
    BY <1>0 DEF NodeVals, UsedNodes, Node, Values
  <1>5. IsFiniteSet(UsedArray(tab))
    <2>1. IsFiniteSet(1 .. Len(tab.array)) /\ UsedArray(tab) \in SUBSET (1 .. Len(tab.array))
      BY <1>0, FS_Interval, SMTT(45) DEF UsedArray
    <2> QED
      BY <2>1, FS_Subset
  <1>6. IsFiniteSet(UsedNodes(tab))
    <2>1. IsFiniteSet(1 .. Len(tab.node)) /\ UsedNodes(tab) \in SUBSET (1 .. Len(tab.node))
      BY <1>0, FS_Interval DEF UsedNodes
    <2> QED
      BY <2>1, FS_Subset
  <1>7. IsFiniteSet(NodeVals(tab)) /\ Cardinality(NodeVals(tab)) = Cardinality(UsedNodes(tab))
    <2> DEFINE f == [i \in UsedNodes(tab) |-> tab.node[i].val]
               U == UsedNodes(tab)
               V == NodeVals(tab)
    <2>1. f \in [U -> V] /\ \A v \in V : \E i \in U : f[i] = v
      BY DEF NodeVals
    <2>2. \A i, j \in U : f[i] = f[j] => i = j
      BY <1>3 DEF TableInv, OneNode
    <2>3. IsFiniteSet(U)
      BY <1>6
    <2> HIDE DEF f, U, V
    <2>4. f \in Surjection(U, V)
      BY <2>1, Zenon DEF Surjection
    <2>5. f \in Injection(U, V)
      BY <2>1, <2>2, Zenon DEF Injection, IsInjective
    <2>6. IsFiniteSet(V) /\ Cardinality(V) = Cardinality(U)
      BY <2>3, <2>4, <2>5, FS_Surjection
    <2> QED
      BY <2>6 DEF U, V
  <1>8. UsedArray(tab) \cap NodeVals(tab) = {}
    BY <1>2, GetIs
  <1>9. IsFiniteSet(Has(tab)) /\ Cardinality(Has(tab)) = Cardinality(UsedArray(tab)) + Cardinality(UsedNodes(tab))
    <2> DEFINE A == UsedArray(tab)
               B == NodeVals(tab)
    <2>1. IsFiniteSet(A) /\ IsFiniteSet(B) /\ A \cap B = {} /\ Cardinality(B) = Cardinality(UsedNodes(tab))
      BY <1>5, <1>7, <1>8
    <2>2. Cardinality(A) \in Nat /\ Cardinality(B) \in Nat /\ Cardinality({}) = 0
      BY <2>1, FS_CardinalityType, FS_EmptySet
    <2> HIDE DEF A, B
    <2>3. IsFiniteSet(A \cup B) /\ Cardinality(A \cup B) = Cardinality(A) + Cardinality(B)
      <3>1. IsFiniteSet(A \cup B) /\ Cardinality(A \cup B) = Cardinality(A) + Cardinality(B) - Cardinality(A \cap B)
        BY <2>1, FS_Union, Zenon
      <3>2. Cardinality(A \cap B) = 0
        BY <2>1, <2>2, Zenon
      <3> QED
        BY <2>2, <3>1, <3>2
    <2> QED
      BY <2>1, <2>3 DEF A, B, Has
  <1>10. NodeVals(tab) = {tab.node[i].key : i \in UsedNodes(tab)}
    BY <1>3 DEF NodeVals
  <1> QED
    BY <1>2, <1>4, <1>9, <1>10 DEF Has

\* After a rehash there is room for the key it was done for.
LEMMA RehashMakesRoom ==
  ASSUME NEW tab, TableInv(tab), NEW k \in Keys, k \notin Has(tab)
  PROVE  TableInv(rehash(tab, k)) /\ Has(rehash(tab, k)) = Has(tab) /\ ~NoRoom(rehash(tab, k), k)
  <1> DEFINE ints == UsedArray(tab) \cup {x \in ({tab.node[i].key : i \in UsedNodes(tab)} \cup {k}) \cap IntKeys : x <= MAXASIZE}
             all == Has(tab) \cup {k}
             sizes == computesizes(ints)
             low == {x \in ints : x <= sizes.size}
             P == all \ low
             total == Cardinality(UsedArray(tab)) + Cardinality(UsedNodes(tab)) + 1
             tab2 == resize(tab, sizes.size, total - sizes.uses)
  <1>1. rehash(tab, k) = tab2
    BY Zenon DEF rehash
  <1>2. /\ Has(tab) \subseteq Keys /\ UsedArray(tab) \subseteq IntKeys /\ IsFiniteSet(Has(tab))
        /\ Cardinality(Has(tab)) = Cardinality(UsedArray(tab)) + Cardinality(UsedNodes(tab))
        /\ NodeVals(tab) = {tab.node[i].key : i \in UsedNodes(tab)}
    BY HasParts
  <1>3. ints \subseteq all \cap IntKeys
    BY <1>2 DEF Has
  <1>4. IsFiniteSet(all) /\ Cardinality(all) = total /\ total \in Nat
    <2>1. IsFiniteSet(all) /\ Cardinality(all) = Cardinality(Has(tab)) + 1
      BY <1>2, FS_AddElement
    <2>2. Cardinality(all) \in Nat
      BY <2>1, FS_CardinalityType
    <2> QED
      BY <1>2, <2>1, <2>2
  <1> HIDE DEF total, all, ints
  <1>5. IsFiniteSet(ints) /\ ints \subseteq Nat \ {0} /\ ints \subseteq all
    <2>1. ints \in SUBSET all
      BY <1>3
    <2> QED
      BY <1>3, <1>4, <2>1, FS_Subset, KeyFacts
  <1>6. sizes.size \in Nat /\ sizes.uses = Cardinality(low)
    BY <1>5, SizesAre
  <1> HIDE DEF sizes
  <1>7. IsFiniteSet(P) /\ Cardinality(P) = total - sizes.uses /\ Cardinality(P) \in Nat
    <2>1. low \subseteq all
      BY <1>5
    <2> HIDE DEF low
    <2>2. all \cap low = low
      BY <2>1
    <2>3. IsFiniteSet(all \ low) /\ Cardinality(all \ low) = Cardinality(all) - Cardinality(all \cap low)
      BY <1>4, FS_Difference
    <2> QED
      BY <1>4, <1>6, <2>2, <2>3, FS_CardinalityType
  <1>8. \A x \in all : x \in P \/ (x \in IntKeys /\ x <= sizes.size)
    BY <1>3
  <1> HIDE DEF P, low
  <1>9. Resized(tab, tab2, sizes.size, total - sizes.uses)
    <2> DEFINE nhsize == total - sizes.uses
    <2>1. nhsize \in Nat /\ Cardinality(P) <= nhsize
      BY <1>7
    <2> HIDE DEF nhsize
    <2>2. \A x \in Has(tab) : x \in P \/ (x \in IntKeys /\ x <= sizes.size)
      BY <1>8 DEF all
    <2>3. Resized(tab, resize(tab, sizes.size, nhsize), sizes.size, nhsize)
      BY <1>6, <1>7, <2>1, <2>2, ResizeKeeps
    <2> QED
      BY <2>3 DEF nhsize
  <1> HIDE DEF tab2
  <1>10. /\ TableInv(tab2) /\ AllUsed(tab2) /\ Has(tab2) = Has(tab) /\ Len(tab2.array) = sizes.size
         /\ Cardinality(P) <= Len(tab2.node)
    BY <1>7, <1>9 DEF Resized
  <1>11. ~NoRoom(tab2, k)
    <2>1. CASE InArray(tab2, k)
      BY <2>1 DEF NoRoom
    <2>2. CASE ~InArray(tab2, k)
      <3>1. k \in P
        BY <1>8, <1>10, <2>2 DEF InArray, all
      <3>2. NodeVals(tab2) \subseteq P \ {k}
        <4> SUFFICES ASSUME NEW x \in NodeVals(tab2) PROVE x \in P /\ x # k
          OBVIOUS
        <4>1. x \in Has(tab) /\ x # k /\ x \in Keys
          BY <1>2, <1>10 DEF Has
        <4>2. ~InArray(tab2, x)
          BY <1>10, <4>1, GetIs
        <4>3. x \in all
          BY <4>1 DEF all
        <4> QED
          BY <1>8, <1>10, <4>1, <4>2, <4>3 DEF InArray
      <3> QED
        BY <1>7, <1>10, <3>1, <3>2, HasRoom
    <2> QED
      BY <2>1, <2>2
  <1> QED
    BY <1>1, <1>10, <1>11

\* luaH_set puts v for k, whatever grows, and moves nothing for a key that is there.
LEMMA SetIsStore ==
  ASSUME NEW tab, TableInv(tab), NEW k \in Keys, NEW v \in {nil, k}
  PROVE  /\ TableInv(luaH_set(tab, k, v))
         /\ Has(luaH_set(tab, k, v)) = (Has(tab) \ {k}) \cup ({v} \ {nil})
         /\ k \in Has(tab) => SamePlaces(tab, luaH_set(tab, k, v))
  <1>1. CASE ~NoRoom(tab, k)
    <2>1. luaH_set(tab, k, v) = SetInPlace(tab, k, v)
      BY <1>1, Zenon DEF luaH_set
    <2>2. Sets(tab, SetInPlace(tab, k, v), k, v)
      BY <1>1, SetGives
    <2> QED
      BY <2>1, <2>2 DEF Sets, Stores
  <1>2. CASE NoRoom(tab, k)
    <2> DEFINE tab1 == rehash(tab, k)
    <2>1. luaH_set(tab, k, v) = SetInPlace(tab1, k, v)
      BY <1>2, Zenon DEF luaH_set
    <2>2. k \notin Has(tab)
      <3>1. ~InArray(tab, k) /\ NodeOf(tab, k, FALSE) = 0
        BY <1>2 DEF NoRoom
      <3>2. Holders(tab, k, FALSE) = {}
        <4>1. \A i \in Holders(tab, k, FALSE) : i = 0 /\ i \in Nodes(tab)
          BY <3>1, NodeOfIs DEF Holders, Keyed
        <4>2. 0 \notin Nodes(tab)
          BY TableLinks DEF Nodes
        <4> QED
          BY <4>1, <4>2, Zenon
      <3> QED
        BY <3>1, <3>2, GetIs DEF Has
    <2>3. TableInv(tab1) /\ Has(tab1) = Has(tab) /\ ~NoRoom(tab1, k)
      BY <2>2, RehashMakesRoom
    <2> HIDE DEF tab1
    <2>4. Sets(tab1, SetInPlace(tab1, k, v), k, v)
      BY <2>3, SetGives
    <2> QED
      BY <2>1, <2>2, <2>3, <2>4 DEF Sets, Stores
  <1> QED
    BY <1>1, <1>2

-----------------------------------------------------------------------------
(* Traversal.                                                                 *)

\* The places of a table with a value: it is their key, and findindex finds them.
LEMMA PlaceIs ==
  ASSUME NEW tab, TableInv(tab), NEW j \in Places(tab), ValueAt(tab, j) # nil
  PROVE  /\ ValueAt(tab, j) = KeyAt(tab, j) /\ KeyAt(tab, j) \in Keys /\ KeyAt(tab, j) \in Has(tab)
         /\ findindex(tab, KeyAt(tab, j)) = j
  <1>0. /\ tab \in Table /\ DOMAIN tab.array = 1 .. Len(tab.array) /\ DOMAIN tab.node = Nodes(tab)
        /\ Len(tab.array) \in Nat /\ Len(tab.node) \in Nat /\ Nodes(tab) = 1 .. Len(tab.node)
        /\ \A i \in Nodes(tab) : tab.node[i] \in Node
    BY TableFields DEF TableInv, Nodes
  <1>1. j \in 1 .. Len(tab.array) + Len(tab.node)
    BY DEF Places
  <1>2. CASE j <= Len(tab.array)
    <2>1. j \in 1 .. Len(tab.array) /\ KeyAt(tab, j) = j /\ ValueAt(tab, j) = tab.array[j]
      BY <1>0, <1>1, <1>2 DEF KeyAt, ValueAt
    <2>2. tab.array[j] = j /\ j \in IntKeys /\ j \in UsedArray(tab)
      BY <1>0, <2>1 DEF TableInv, ArrayInv, UsedArray
    <2>3. findindex(tab, j) = j
      <3>1. j # nil /\ InArray(tab, j)
        BY <1>2, <2>2, KeyFacts DEF InArray
      <3> QED
        BY <3>1 DEF findindex
    <2> QED
      BY <2>1, <2>2, <2>3 DEF Has, Keys
  <1>3. CASE ~(j <= Len(tab.array))
    <2> DEFINE i == j - Len(tab.array)
    <2>1. i \in Nodes(tab) /\ Len(tab.array) + i = j
      <3>1. \A a, b \in Nat : \A x \in 1 .. a + b : ~(x <= a) => x - a \in 1 .. b /\ a + (x - a) = x
        OBVIOUS
      <3> QED
        BY <1>0, <1>1, <1>3, <3>1, Zenon
    <2>2. KeyAt(tab, j) = tab.node[i].key /\ ValueAt(tab, j) = tab.node[i].val
      BY <1>3 DEF KeyAt, ValueAt
    <2> HIDE DEF i
    <2>3. NodeInv(tab, i)
      BY <2>1 DEF TableInv
    <2>4. tab.node[i].val = tab.node[i].key /\ ~tab.node[i].dead /\ i \in Keyed(tab)
      BY <2>1, <2>2, <2>3 DEF NodeInv, Keyed
    <2> DEFINE k == tab.node[i].key
    <2>5. k \in Keys /\ k \in NodeVals(tab)
      BY <1>0, <2>1, <2>2, <2>4 DEF Node, Values, NodeVals, UsedNodes
    <2>6. i \in Holders(tab, k, FALSE)
      BY <2>4 DEF Holders
    <2> HIDE DEF k
    <2>7. ~InArray(tab, k) /\ NodeOf(tab, k, TRUE) = i /\ i # 0 /\ k # nil
      <3>1. ~InArray(tab, k)
        BY <2>5, GetIs
      <3>2. NodeOf(tab, k, TRUE) = i
        BY <2>5, <2>6, NodeOfIs
      <3>3. i # 0
        BY <1>0, <2>1
      <3>4. k # nil
        BY <2>5, KeyFacts
      <3> QED
        BY <3>1, <3>2, <3>3, <3>4
    <2>8. findindex(tab, k) = j
      BY <2>1, <2>7 DEF findindex
    <2> QED
      BY <2>2, <2>4, <2>5, <2>8 DEF Has, k
  <1> QED
    BY <1>2, <1>3

LEMMA PlaceExists ==
  ASSUME NEW tab, TableInv(tab), NEW k \in Has(tab)
  PROVE  \E j \in Places(tab) : ValueAt(tab, j) = k /\ k # nil
  <1>0. /\ tab \in Table /\ DOMAIN tab.array = 1 .. Len(tab.array) /\ DOMAIN tab.node = 1 .. Len(tab.node)
        /\ Len(tab.array) \in Nat /\ Len(tab.node) \in Nat
    BY TableFields DEF TableInv, Nodes
  <1>1. k # nil
    BY HasParts, KeyFacts
  <1>2. CASE k \in UsedArray(tab)
    <2>1. k \in 1 .. Len(tab.array) /\ tab.array[k] = k
      BY <1>0, <1>2 DEF UsedArray, TableInv, ArrayInv
    <2>2. k \in Places(tab) /\ ValueAt(tab, k) = k
      <3>1. \A a, b \in Nat : \A x \in 1 .. a : x \in 1 .. a + b /\ x <= a
        OBVIOUS
      <3>2. k \in Places(tab) /\ k <= Len(tab.array)
        BY <1>0, <2>1, <3>1, Zenon DEF Places
      <3> QED
        BY <2>1, <3>2 DEF ValueAt
    <2> QED
      BY <1>1, <2>2
  <1>3. CASE k \in NodeVals(tab)
    <2>1. PICK i \in 1 .. Len(tab.node) : tab.node[i].val = k
      BY <1>0, <1>3 DEF NodeVals, UsedNodes
    <2> DEFINE j == Len(tab.array) + i
    <2>2. j \in Places(tab) /\ ~(j <= Len(tab.array)) /\ j - Len(tab.array) = i
      <3>1. \A a, b \in Nat : \A x \in 1 .. b : a + x \in 1 .. a + b /\ ~(a + x <= a) /\ (a + x) - a = x
        OBVIOUS
      <3> QED
        BY <1>0, <3>1, Zenon DEF Places
    <2>3. ValueAt(tab, j) = k
      BY <2>1, <2>2 DEF ValueAt
    <2> QED
      BY <1>1, <2>2, <2>3
  <1> QED
    BY <1>2, <1>3 DEF Has

LEMMA FindSame ==
  ASSUME NEW tab, TableInv(tab), NEW tab2, TableInv(tab2), SamePlaces(tab, tab2), NEW k \in Values
  PROVE  findindex(tab2, k) = findindex(tab, k) /\ Places(tab2) = Places(tab)
  <1>1. /\ Len(tab2.array) = Len(tab.array) /\ Len(tab2.node) = Len(tab.node) /\ Links(tab2) = Links(tab)
        /\ \A i \in Nodes(tab) : tab2.node[i].key = tab.node[i].key
    BY DEF SamePlaces
  <1>2. CASE k = nil
    <2>1. findindex(tab, nil) = 0 /\ findindex(tab2, nil) = 0
      <3>1. ~InArray(tab, nil) /\ ~InArray(tab2, nil)
        BY KeyFacts DEF InArray
      <3> QED
        BY <3>1 DEF findindex
    <2> QED
      BY <1>1, <1>2, <2>1, Zenon DEF Places
  <1>3. CASE k # nil
    <2>1. k \in Keys
      BY <1>3 DEF Values
    <2>2. Holders(tab2, k, TRUE) = Holders(tab, k, TRUE)
      BY <1>1 DEF Holders, Keyed, Nodes
    <2> DEFINE H == Holders(tab, k, TRUE)
    <2>3. NodeOf(tab, k, TRUE) = IF H = {} THEN 0 ELSE Foremost(H, Links(tab))
      BY <2>1, HoldersFound, Zenon
    <2>4. NodeOf(tab2, k, TRUE) = IF H = {} THEN 0 ELSE Foremost(H, Links(tab2))
      BY <2>1, <2>2, HoldersFound, Zenon
    <2> HIDE DEF H
    <2>5. NodeOf(tab2, k, TRUE) = NodeOf(tab, k, TRUE)
      <3>1. Foremost(H, Links(tab2)) = Foremost(H, Links(tab))
        BY <1>1, Zenon
      <3>2. CASE H = {}
        BY <2>3, <2>4, <3>2, Zenon
      <3>3. CASE H # {}
        BY <2>3, <2>4, <3>1, <3>3, Zenon
      <3> QED
        BY <3>2, <3>3
    <2> QED
      BY <1>1, <1>3, <2>5 DEF findindex, Places, InArray
  <1> QED
    BY <1>2, <1>3

\* A store in place, or the collector, leaves a traversal where it is.
LEMMA TraversalStays ==
  ASSUME IInv, TableInv(t'), SamePlaces(t, t'), UNCHANGED <<key, running, visited>>
  PROVE  TraversalInv'
  <1>1. key \in Values
    BY DEF IInv, TraversalInv
  <1>2. findindex(t', key) = findindex(t, key) /\ Places(t') = Places(t)
    BY <1>1, FindSame DEF IInv
  <1>3. \A j \in Places(t) : ValueAt(t', j) # nil => ValueAt(t', j) = ValueAt(t, j)
    BY DEF SamePlaces
  <1> QED
    BY <1>2, <1>3 DEF IInv, TraversalInv

-----------------------------------------------------------------------------
(* The invariant of the specification.                                        *)

LEMMA KeysFinite == IsFiniteSet(Keys) /\ Cardinality(Keys) \in Nat
  <1>1. IsFiniteSet(1 .. MAX_INT)
    BY FS_Interval, TableAssumption
  <1>2. IsFiniteSet(IntKeys)
    BY <1>1, FS_Subset, TableAssumption
  <1>3. IsFiniteSet(Keys)
    BY <1>2, FS_Union, TableAssumption DEF Keys
  <1> QED
    BY <1>3, FS_CardinalityType

\* A new table is empty.
LEMMA NewTable ==
  ASSUME NEW size \in Nat, NEW tab, tab = luaH_new(0, size)
  PROVE  TableInv(tab) /\ Has(tab) = {}
  <1> DEFINE tab0 == [array |-> <<>>, node |-> <<>>, lastfree |-> 1]
             tab1 == setarrayvector(tab0, 0)
  <1>1. tab0 \in Table /\ tab0.array = <<>>
    BY DEF Table
  <1>2. ArrayInv(tab0)
    BY <1>1, EmptySeq DEF ArrayInv
  <1>3. tab = setnodevector(tab1, size)
    BY Zenon DEF luaH_new
  <1> HIDE DEF tab0
  <1>4. tab1 \in Table /\ ArrayInv(tab1) /\ Len(tab1.array) = 0 /\ UsedArray(tab1) = UsedArray(tab0) \cap 1 .. 0
    BY <1>1, <1>2, SetArray
  <1> HIDE DEF tab1
  <1>5. TableInv(tab) /\ Has(tab) = UsedArray(tab1)
    BY <1>3, <1>4, FreshNodes
  <1> QED
    BY <1>4, <1>5

LEMMA InitIInv == TableInit => IInv /\ Has(t) = {}
  <1> SUFFICES ASSUME TableInit PROVE IInv /\ Has(t) = {}
    OBVIOUS
  <1>1. PICK size \in 0 .. Cardinality(Keys) : t = luaH_new(0, size)
    BY DEF TableInit
  <1>2. size \in Nat
    BY KeysFinite
  <1>3. TableInv(t) /\ Has(t) = {}
    BY <1>1, <1>2, NewTable
  <1> QED
    BY <1>3, EmptySeq DEF TableInit, IInv, TraversalInv, Values

\* What every step but Traverse does to a table and to its traversal.
KeepsTo(has) == IInv' /\ TableInv(t') /\ Has(t') = has /\ visited' = visited

\* A traversal that does not run has no place to keep.
LEMMA NoTraversal ==
  ASSUME IInv, ~running, UNCHANGED <<key, visited>>, running' \in BOOLEAN, ~running' \/ key' = nil
  PROVE  TraversalInv'
  BY DEF IInv, TraversalInv

LEMMA SetKeyKeeps ==
  ASSUME IInv, NEW k \in Keys, NEW v \in {nil, k}, SetKey(k, v)
  PROVE  KeepsTo((Has(t) \ {k}) \cup ({v} \ {nil})) /\ (running => k \in Has(t))
  <1>1. TableInv(t) /\ t' = luaH_set(t, k, v) /\ UNCHANGED <<key, running, visited>>
    BY DEF IInv, SetKey
  <1>2. /\ TableInv(t') /\ Has(t') = (Has(t) \ {k}) \cup ({v} \ {nil})
        /\ k \in Has(t) => SamePlaces(t, t')
    BY <1>1, SetIsStore
  <1>3. running => k \in Has(t)
    BY <1>1, GetIs DEF SetKey, Has
  <1>4. TraversalInv'
    <2>1. CASE running
      BY <1>1, <1>2, <1>3, <2>1, TraversalStays
    <2>2. CASE ~running
      BY <1>1, <2>2, NoTraversal DEF IInv, TraversalInv
    <2> QED
      BY <2>1, <2>2
  <1> QED
    BY <1>1, <1>2, <1>3, <1>4 DEF IInv, KeepsTo

LEMMA SetListKeeps ==
  ASSUME IInv, NEW n \in 1 .. MaxArray, SetList(n)
  PROVE  KeepsTo(Has(t))
  <1>1. TableInv(t) /\ ~running /\ t' = resize(t, n, Len(t.node)) /\ UNCHANGED <<key, running, visited>> /\ n > Len(t.array)
    BY DEF IInv, SetList, luaH_resizearray
  <1>2. Len(t.node) \in Nat /\ n \in Nat /\ Len(t.array) \in Nat /\ DOMAIN t.node = 1 .. Len(t.node)
    BY <1>1, TableFields, TableAssumption DEF TableInv, Nodes
  <1>3. \A x \in Has(t) : x \in NodeVals(t) \/ (x \in IntKeys /\ x <= n)
    <2> SUFFICES ASSUME NEW x \in UsedArray(t) PROVE x \in IntKeys /\ x <= n
      BY DEF Has
    <2>1. x \in IntKeys /\ x \in 1 .. Len(t.array)
      BY <1>1, HasParts, TableFields DEF UsedArray, TableInv
    <2> QED
      BY <1>1, <1>2, <2>1
  <1>4. IsFiniteSet(UsedNodes(t)) /\ Cardinality(UsedNodes(t)) <= Len(t.node)
    <2>1. IsFiniteSet(1 .. Len(t.node)) /\ Cardinality(1 .. Len(t.node)) = Len(t.node)
      <3>1. \A m \in Nat : IsFiniteSet(1 .. m) /\ Cardinality(1 .. m) = m
        BY FS_Interval
      <3> QED
        BY <1>2, <3>1, Zenon
    <2>2. UsedNodes(t) \in SUBSET (1 .. Len(t.node))
      BY <1>2 DEF UsedNodes
    <2> QED
      BY <2>1, <2>2, FS_Subset
  <1>5. IsFiniteSet(NodeVals(t)) /\ Cardinality(NodeVals(t)) <= Cardinality(UsedNodes(t))
    <2>1. NodeVals(t) = {t.node[i].val : i \in UsedNodes(t)}
      BY DEF NodeVals
    <2> DEFINE f == [i \in UsedNodes(t) |-> t.node[i].val]
    <2>2. f \in Surjection(UsedNodes(t), NodeVals(t))
      BY <2>1 DEF Surjection
    <2> HIDE DEF f
    <2> QED
      BY <1>4, <2>2, FS_Surjection
  <1>6. IsFiniteSet(NodeVals(t)) /\ Cardinality(NodeVals(t)) <= Len(t.node)
    BY <1>2, <1>4, <1>5, FS_CardinalityType
  <1>7. Resized(t, resize(t, n, Len(t.node)), n, Len(t.node))
    <2> DEFINE P == NodeVals(t)
    <2>1. IsFiniteSet(P) /\ Cardinality(P) <= Len(t.node) /\ \A x \in Has(t) : x \in P \/ (x \in IntKeys /\ x <= n)
      BY <1>3, <1>6
    <2> HIDE DEF P
    <2> QED
      BY <1>1, <1>2, <2>1, ResizeKeeps
  <1>8. TableInv(t') /\ Has(t') = Has(t)
    BY <1>1, <1>7 DEF Resized
  <1>9. TraversalInv'
    BY <1>1, NoTraversal DEF IInv, TraversalInv
  <1> QED
    BY <1>1, <1>8, <1>9 DEF IInv, KeepsTo

\* The collector marks keys of nodes that have no value.
LEMMA CollectKeeps ==
  ASSUME IInv, Collect
  PROVE  KeepsTo(Has(t))
  <1> DEFINE dead(i) == t.node[i].dead \/ (t.node[i].val = nil /\ t.node[i].key \in StrKeys)
             q(i) == [t.node[i] EXCEPT !.dead = dead(i)]
             g == [i \in Nodes(t) |-> q(i)]
             tab2 == [t EXCEPT !.node = g]
  <1>0. /\ t \in [array: Seq(Values), node: Seq(Node), lastfree: Nat]
        /\ t.node \in [Nodes(t) -> Node] /\ Len(t.node) \in Nat /\ DOMAIN t.node = Nodes(t)
        /\ \A i \in Nodes(t) : t.node[i] \in Node
    BY TableFields DEF IInv, TableInv, Table
  <1>1. t' = tab2
    BY <1>0, Zenon DEF Collect
  <1>2. \A i \in Nodes(t) : dead(i) \in BOOLEAN
    BY <1>0 DEF Node
  <1>3. ASSUME NEW i \in Nodes(t)
        PROVE  /\ q(i) \in Node /\ q(i).dead = dead(i)
               /\ q(i).key = t.node[i].key /\ q(i).val = t.node[i].val /\ q(i).next = t.node[i].next
    <2> DEFINE d == dead(i)
               n == t.node[i]
    <2>1. d \in BOOLEAN /\ n \in Node
      BY <1>0, <1>2
    <2> HIDE DEF d, n
    <2>2. [n EXCEPT !.dead = d] \in Node /\ [n EXCEPT !.dead = d].dead = d
      BY <2>1 DEF Node
    <2>3. /\ [n EXCEPT !.dead = d].key = n.key /\ [n EXCEPT !.dead = d].val = n.val
          /\ [n EXCEPT !.dead = d].next = n.next
      BY <2>1 DEF Node
    <2> QED
      BY <2>2, <2>3 DEF d, n
  <1> HIDE DEF q
  <1>4. g \in [Nodes(t) -> Node] /\ \A i \in Nodes(t) : g[i] = q(i)
    BY <1>3
  <1> HIDE DEF g
  <1>5. g \in Seq(Node) /\ Len(g) = Len(t.node)
    BY <1>0, <1>4, LenProperties DEF Nodes
  <1>6. tab2 \in Table /\ tab2.array = t.array /\ tab2.node = g /\ tab2.lastfree = t.lastfree
    BY <1>0, <1>5 DEF Table
  <1>7. DOMAIN tab2.node = Nodes(t) /\ Nodes(tab2) = Nodes(t) /\ Len(tab2.node) = Len(t.node)
    BY <1>0, <1>4, <1>5, <1>6 DEF Nodes
  <1>8. /\ \A i \in Nodes(t) : /\ tab2.node[i].key = t.node[i].key /\ tab2.node[i].val = t.node[i].val
                               /\ tab2.node[i].next = t.node[i].next /\ tab2.node[i].dead = dead(i)
    BY <1>3, <1>4, <1>6
  <1> HIDE DEF tab2, dead
  <1>9. Keyed(tab2) = Keyed(t) /\ UsedNodes(tab2) = UsedNodes(t) /\ UsedArray(tab2) = UsedArray(t)
    BY <1>0, <1>6, <1>7, <1>8 DEF Keyed, UsedNodes, UsedArray
  <1>10. Links(tab2) = Links(t)
    BY <1>0, <1>7, <1>8 DEF Links
  <1>11. Keyed(t) \subseteq Nodes(t) /\ UsedNodes(t) \subseteq Nodes(t)
    BY <1>0 DEF Keyed, UsedNodes
  <1>12. Has(tab2) = Has(t)
    BY <1>8, <1>9, <1>11 DEF Has, NodeVals
  <1>13. \A k \in Keys : mainposition(tab2, k) = mainposition(t, k)
    BY <1>7, Zenon DEF mainposition
  <1>14. \A i \in Keyed(t) : Home(tab2, i) = Home(t, i)
    BY <1>7, <1>8, <1>11, Zenon DEF Home, mainposition
  <1>15. \A i : From(tab2, i) = From(t, i)
    BY <1>10, Zenon DEF From
  <1>16. SamePlaces(t, tab2)
    <2>1. \A j \in Places(t) : ValueAt(tab2, j) = ValueAt(t, j)
      <3> SUFFICES ASSUME NEW j \in Places(t) PROVE ValueAt(tab2, j) = ValueAt(t, j)
        OBVIOUS
      <3>1. CASE j <= Len(t.array)
        BY <1>6, <3>1 DEF ValueAt
      <3>2. CASE ~(j <= Len(t.array))
        <4>1. j - Len(t.array) \in Nodes(t)
          <5>1. \A a, b \in Nat : \A x \in 1 .. a + b : ~(x <= a) => x - a \in 1 .. b
            OBVIOUS
          <5>2. Len(t.array) \in Nat
            BY <1>0, LenProperties
          <5> QED
            BY <1>0, <3>2, <5>1, <5>2, Zenon DEF Places, Nodes
        <4> QED
          BY <1>6, <1>8, <3>2, <4>1 DEF ValueAt
      <3> QED
        BY <3>1, <3>2
    <2> QED
      BY <1>6, <1>7, <1>8, <1>10, <2>1 DEF SamePlaces
  <1>17. ASSUME NEW i \in Nodes(t) PROVE NodeInv(tab2, i)
    <2>1. NodeInv(t, i)
      BY DEF IInv, TableInv
    <2> QED
      BY <1>6, <1>8, <1>9, <2>1 DEF NodeInv, dead
  <1>18. ASSUME NEW i \in Keyed(t) PROVE HomeInv(tab2, i)
    <2>1. HomeInv(t, i)
      BY DEF IInv, TableInv
    <2>2. Home(t, i) \in Keyed(t)
      BY <2>1 DEF HomeInv
    <2> QED
      BY <1>9, <1>14, <1>15, <2>1, <2>2 DEF HomeInv
  <1>19. OneNode(tab2)
    <2> SUFFICES ASSUME NEW i \in Keyed(t), NEW j \in Keyed(t), t.node[i].key = t.node[j].key, ~dead(i), i # j
                 PROVE  dead(j) /\ j \in From(t, i)
      BY <1>8, <1>9, <1>11, <1>15 DEF OneNode
    <2>1. ~t.node[i].dead
      BY DEF dead
    <2>2. t.node[j].dead /\ j \in From(t, i)
      BY <2>1 DEF IInv, TableInv, OneNode
    <2> QED
      BY <2>2 DEF dead
  <1>20. TableInv(tab2)
    <2>1. Chained(Links(tab2)) /\ ArrayInv(tab2)
      BY <1>6, <1>10 DEF IInv, TableInv, ArrayInv
    <2> QED
      BY <1>6, <1>7, <1>9, <1>17, <1>18, <1>19, <2>1 DEF TableInv
  <1>21. TableInv(t') /\ Has(t') = Has(t) /\ SamePlaces(t, t') /\ UNCHANGED <<key, running, visited>>
    BY <1>1, <1>12, <1>16, <1>20 DEF Collect
  <1>22. TraversalInv'
    BY <1>21, TraversalStays
  <1> QED
    BY <1>21, <1>22 DEF IInv, KeepsTo

LEMMA StartKeeps ==
  ASSUME IInv, StartTraversal
  PROVE  KeepsTo(Has(t)) /\ ~running /\ running' /\ visited = <<>> /\ t' = t
  <1>1. t' = t /\ visited' = visited /\ key' = nil /\ running' = TRUE /\ ~running
    BY DEF StartTraversal
  <1>2. key = nil /\ visited = <<>> /\ TableInv(t)
    BY <1>1 DEF IInv, TraversalInv
  <1>3. TraversalInv'
    BY <1>1, <1>2, NoTraversal
  <1> QED
    BY <1>1, <1>2, <1>3 DEF IInv, KeepsTo

\* The place a traversal stands at.
LEMMA Standing ==
  ASSUME IInv, NEW i, i = findindex(t, key)
  PROVE  /\ Len(t.array) + Len(t.node) \in Nat /\ i \in 0 .. Len(t.array) + Len(t.node)
         /\ \A j \in Places(t) : ValueAt(t, j) # nil => (ValueAt(t, j) \in Range(visited) <=> j <= i)
  <1>0. Len(t.array) \in Nat /\ Len(t.node) \in Nat
    BY TableFields DEF IInv, TableInv
  <1>1. Len(t.array) + Len(t.node) \in Nat
    <2>1. \A a, b \in Nat : a + b \in Nat
      OBVIOUS
    <2> QED
      BY <1>0, <2>1, Zenon
  <1>2. CASE key = nil
    <2>1. i = 0
      <3>1. ~InArray(t, nil)
        BY KeyFacts DEF InArray
      <3> QED
        BY <1>2, <3>1 DEF findindex
    <2>2. visited = <<>>
      BY <1>2 DEF IInv, TraversalInv
    <2>3. Range(visited) = {}
      BY <2>2 DEF Range
    <2>4. \A j \in Places(t) : ~(j <= 0)
      <3>1. \A n \in Nat : \A j \in 1 .. n : ~(j <= 0)
        OBVIOUS
      <3> QED
        BY <1>1, <3>1, Zenon DEF Places
    <2>5. \A n \in Nat : 0 \in 0 .. n
      OBVIOUS
    <2> QED
      BY <1>1, <2>1, <2>3, <2>4, <2>5, Zenon
  <1>3. CASE key # nil
    <2>1. /\ i \in Places(t)
          /\ \A j \in Places(t) : ValueAt(t, j) # nil => (ValueAt(t, j) \in Range(visited) <=> j <= i)
      BY <1>3 DEF IInv, TraversalInv
    <2>2. \A n \in Nat : \A j \in 1 .. n : j \in 0 .. n
      OBVIOUS
    <2> QED
      BY <1>1, <2>1, <2>2, Zenon DEF Places
  <1> QED
    BY <1>2, <1>3

\* next returns the first place j with a value after place i, if there is one.
Follows(tab, i, j) ==
  \/ j = 0 /\ \A x \in Places(tab) : ValueAt(tab, x) # nil => x <= i
  \/ /\ j # 0 /\ j \in Places(tab) /\ ValueAt(tab, j) # nil /\ ~(j <= i)
     /\ \A x \in Places(tab) : ValueAt(tab, x) # nil => x <= i \/ j <= x

LEMMA NextIs ==
  ASSUME NEW tab, NEW i, NEW n \in Nat, n = Len(tab.array) + Len(tab.node), i \in 0 .. n, NEW j, j = luaH_next(tab, i)
  PROVE  Follows(tab, i, j)
  <1> DEFINE on == {x \in i + 1 .. n : ValueAt(tab, x) # nil}
  <1>1. j = IF on = {} THEN 0 ELSE Min(on)
    BY Zenon DEF luaH_next
  <1>2. \A x \in 1 .. n : x <= i \/ x \in i + 1 .. n
    <2>1. \A b \in Nat : \A a \in 0 .. b : \A x \in 1 .. b : x <= a \/ x \in a + 1 .. b
      OBVIOUS
    <2> QED
      BY <2>1, Zenon
  <1>3. \A x \in i + 1 .. n : x # 0 /\ x \in 1 .. n /\ ~(x <= i) /\ x \in Nat
    <2>1. \A b \in Nat : \A a \in 0 .. b : \A x \in a + 1 .. b : x # 0 /\ x \in 1 .. b /\ ~(x <= a) /\ x \in Nat
      OBVIOUS
    <2> QED
      BY <2>1, Zenon
  <1>4. Places(tab) = 1 .. n
    BY Zenon DEF Places
  <1>5. on \in SUBSET Nat
    BY <1>3
  <1>6. \A x \in Places(tab) : ValueAt(tab, x) # nil => x <= i \/ x \in on
    BY <1>2, <1>4
  <1>7. \A x \in on : x # 0 /\ x \in Places(tab) /\ ValueAt(tab, x) # nil /\ ~(x <= i)
    BY <1>3, <1>4
  <1> HIDE DEF on
  <1>8. CASE on = {}
    BY <1>1, <1>6, <1>8 DEF Follows
  <1>9. CASE on # {}
    <2>1. j \in on /\ \A x \in on : j <= x
      <3>1. j = Min(on)
        BY <1>1, <1>9, Zenon
      <3>2. Min(on) \in on /\ \A x \in on : Min(on) <= x
        BY <1>5, <1>9, MinIs, Zenon
      <3> QED
        BY <3>1, <3>2, Zenon
    <2> QED
      BY <1>6, <1>7, <2>1 DEF Follows
  <1> QED
    BY <1>8, <1>9

\* A traversal ends when it has returned what is there, and until then returns
\* a key that is there and that it has not returned.
Ends == running /\ ~running' /\ t' = t /\ visited' = <<>> /\ Has(t) \subseteq Range(visited)
Returns(k) == running /\ running' /\ t' = t /\ visited' = Append(visited, k) /\ k \in Has(t) \ Range(visited)

LEMMA TraverseKeeps ==
  ASSUME IInv, Traverse
  PROVE  IInv' /\ (Ends \/ \E k \in Keys : Returns(k))
  <1> DEFINE i == findindex(t, key)
             j == luaH_next(t, i)
             n == Len(t.array) + Len(t.node)
  <1>1. /\ running /\ t' = t
        /\ IF i < 0 \/ j = 0 THEN running' = FALSE /\ key' = nil /\ visited' = <<>>
           ELSE key' = KeyAt(t, j) /\ visited' = Append(visited, KeyAt(t, j)) /\ running' = TRUE
    BY Zenon DEF Traverse
  <1>2. /\ n \in Nat /\ i \in 0 .. n
        /\ \A x \in Places(t) : ValueAt(t, x) # nil => (ValueAt(t, x) \in Range(visited) <=> x <= i)
    BY Standing
  <1>3. Follows(t, i, j)
    <2>1. n = Len(t.array) + Len(t.node) /\ j = luaH_next(t, i)
      OBVIOUS
    <2> HIDE DEF n, j
    <2> HIDE DEF i
    <2> QED
      BY <1>2, <2>1, NextIs, Zenon
  <1>4. TableInv(t) /\ visited \in Seq(Keys)
    BY DEF IInv, TraversalInv
  <1>5. ~(i < 0) /\ i \in Int
    BY <1>2
  <1> HIDE DEF i, n
  <1> HIDE DEF j
  <1>6. CASE j = 0
    <2>1. running' = FALSE /\ key' = nil /\ visited' = <<>>
      BY <1>1, <1>6
    <2>2. Has(t) \subseteq Range(visited)
      BY <1>2, <1>3, <1>4, <1>6, PlaceExists DEF Follows
    <2>3. IInv'
      BY <1>1, <1>4, <2>1, EmptySeq DEF IInv, TraversalInv, Values
    <2> QED
      BY <1>1, <2>1, <2>2, <2>3 DEF Ends
  <1>7. CASE j # 0
    <2> DEFINE k == KeyAt(t, j)
    <2>1. key' = k /\ visited' = Append(visited, k) /\ running' = TRUE
      BY <1>1, <1>5, <1>7
    <2>2. /\ j \in Places(t) /\ ValueAt(t, j) # nil /\ ~(j <= i)
          /\ \A x \in Places(t) : ValueAt(t, x) # nil => x <= i \/ j <= x
      BY <1>3, <1>7 DEF Follows
    <2>3. ValueAt(t, j) = k /\ k \in Keys /\ k \in Has(t) /\ findindex(t, k) = j
      BY <1>4, <2>2, PlaceIs
    <2>4. \A x \in Places(t) : ValueAt(t, x) = k => x = j
      BY <1>4, <2>2, <2>3, PlaceIs
    <2> HIDE DEF k
    <2>5. k \notin Range(visited)
      BY <1>2, <2>2, <2>3
    <2>6. Range(visited') = Range(visited) \cup {k} /\ visited' \in Seq(Keys)
      BY <1>4, <2>1, <2>3, AppendRange, AppendProperties
    <2>7. \A x \in Places(t) : ValueAt(t, x) # nil => (ValueAt(t, x) \in Range(visited') <=> x <= j)
      <3> SUFFICES ASSUME NEW x \in Places(t), ValueAt(t, x) # nil PROVE ValueAt(t, x) \in Range(visited') <=> x <= j
        OBVIOUS
      <3>0. x \in Int /\ j \in Int
        BY <2>2 DEF Places
      <3>1. CASE x <= i
        <4>1. x <= j
          BY <1>5, <2>2, <3>0, <3>1
        <4> QED
          BY <1>2, <2>6, <3>1, <4>1
      <3>2. CASE ~(x <= i)
        <4>1. ValueAt(t, x) \in Range(visited') <=> ValueAt(t, x) = k
          BY <1>2, <2>6, <3>2
        <4>2. j <= x
          BY <2>2, <3>2
        <4>3. x <= j <=> x = j
          BY <3>0, <4>2
        <4> QED
          BY <2>3, <2>4, <4>1, <4>3
      <3> QED
        BY <3>1, <3>2
    <2>8. TraversalInv'
      <3>1. findindex(t', key') = j /\ Places(t') = Places(t) /\ k # nil /\ k \in Values
        BY <1>1, <2>1, <2>3, KeyFacts DEF Values
      <3> QED
        BY <1>1, <2>1, <2>2, <2>6, <2>7, <3>1 DEF TraversalInv
    <2>9. Returns(k) /\ k \in Keys
      BY <1>1, <2>1, <2>3, <2>5 DEF Returns
    <2> QED
      BY <1>1, <1>4, <2>8, <2>9 DEF IInv
  <1> QED
    BY <1>6, <1>7

\* The five operations keep the invariant.
LEMMA StepIInv == IInv /\ [TableNext]_tableVars => IInv'
  <1> SUFFICES ASSUME IInv, [TableNext]_tableVars PROVE IInv'
    OBVIOUS
  <1>1. CASE StartTraversal
    BY <1>1, StartKeeps DEF KeepsTo
  <1>2. CASE Traverse
    BY <1>2, TraverseKeeps
  <1>3. CASE Collect
    BY <1>3, CollectKeeps DEF KeepsTo
  <1>4. ASSUME NEW k \in Keys, NEW present \in BOOLEAN, SetKey(k, IF present THEN k ELSE nil) PROVE IInv'
    <2>1. PICK v \in {nil, k} : v = IF present THEN k ELSE nil
      OBVIOUS
    <2> QED
      BY <1>4, <2>1, SetKeyKeeps DEF KeepsTo
  <1>5. ASSUME NEW n \in 1 .. MaxArray, SetList(n) PROVE IInv'
    BY <1>5, SetListKeeps DEF KeepsTo
  <1>6. CASE UNCHANGED tableVars
    <2>1. t' = t /\ key' = key /\ running' = running /\ visited' = visited
      BY <1>6 DEF tableVars
    <2> QED
      BY <2>1 DEF IInv, TraversalInv
  <1> QED
    BY <1>1, <1>2, <1>3, <1>4, <1>5, <1>6 DEF TableNext

\* Whatever the program does with a table, its parts, its chains and its
\* traversal are in order.
THEOREM TableSound == TableSpec => []IInv
  <1> QED
    BY InitIInv, StepIInv, PTL DEF TableSpec

-----------------------------------------------------------------------------
(* A table is a map.                                                          *)

Fields(tab) == [k \in Keys |-> luaH_get(tab, k)]
FieldsOf(has) == [k \in Keys |-> IF k \in has THEN k ELSE nil]

LEMMA FieldsAre ==
  ASSUME NEW tab, TableInv(tab)
  PROVE  Fields(tab) = FieldsOf(Has(tab))
  BY GetIs DEF Fields, FieldsOf, Has

\* A store changes one field.
Changed(f, k, v) == [f EXCEPT ![k] = v]
LEMMA FieldSet ==
  ASSUME NEW has, NEW k \in Keys, NEW v \in {nil, k}
  PROVE  FieldsOf((has \ {k}) \cup ({v} \ {nil})) = Changed(FieldsOf(has), k, v)
  <1> DEFINE new == (has \ {k}) \cup ({v} \ {nil})
  <1>1. \A x \in Keys : x # k => (x \in new <=> x \in has)
    OBVIOUS
  <1>2. (IF k \in new THEN k ELSE nil) = v
    BY KeyFacts
  <1> HIDE DEF new
  <1>3. \A x \in Keys : (IF x \in new THEN x ELSE nil) = IF x = k THEN v ELSE IF x \in has THEN x ELSE nil
    BY <1>1, <1>2
  <1>4. Changed(FieldsOf(has), k, v) = [x \in Keys |-> IF x = k THEN v ELSE IF x \in has THEN x ELSE nil]
    BY DEF FieldsOf, Changed
  <1> QED
    BY <1>3, <1>4 DEF FieldsOf, new

\* The present fields of the map are the keys the table has.
LEMMA PresentIs == IInv => Map!Present = Has(t) /\ Map!Range(visited) = Range(visited)
  <1> SUFFICES ASSUME IInv PROVE Map!Present = Has(t) /\ Map!Range(visited) = Range(visited)
    OBVIOUS
  <1>1. TableInv(t) /\ Has(t) \subseteq Keys /\ Fields(t) = FieldsOf(Has(t))
    BY HasParts, FieldsAre DEF IInv
  <1>2. Map!Present = {k \in Keys : Fields(t)[k] # nil}
    BY Zenon DEF Map!Present, Fields
  <1>3. Map!Present = Has(t)
    BY <1>1, <1>2, KeyFacts DEF FieldsOf
  <1> QED
    BY <1>3 DEF Map!Range, Range

\* An empty table is a map with no field.
LEMMA InitMap == TableInit => Map!Init
  <1> SUFFICES ASSUME TableInit PROVE Map!Init
    OBVIOUS
  <1>1. Fields(t) = FieldsOf({})
    BY InitIInv, FieldsAre DEF IInv
  <1>2. FieldsOf({}) = [k \in Keys |-> nil]
    BY DEF FieldsOf
  <1> QED
    BY <1>1, <1>2 DEF TableInit, Map!Init, Fields

\* A step of a table is a step of the map or is not seen by it.
LEMMA StepMap == IInv /\ [TableNext]_tableVars => [Map!Next]_(Map!vars)
  <1> SUFFICES ASSUME IInv, [TableNext]_tableVars PROVE [Map!Next]_(Map!vars)
    OBVIOUS
  <1>0. TableInv(t) /\ Fields(t) = FieldsOf(Has(t)) /\ (TableInv(t') => Fields(t') = FieldsOf(Has(t')))
    BY FieldsAre DEF IInv
  <1>1. CASE StartTraversal
    <2>1. ~running /\ running' = TRUE /\ visited' = <<>> /\ t' = t
      BY <1>1, StartKeeps DEF KeepsTo, StartTraversal
    <2>2. Map!Start
      BY <2>1 DEF Map!Start
    <2> QED
      BY <2>2 DEF Map!Next
  <1>2. CASE Traverse
    <2>1. CASE Ends
      <3>1. running /\ running' = FALSE /\ t' = t /\ visited' = <<>> /\ Map!Present \subseteq Map!Range(visited)
        BY <1>2, <2>1, PresentIs, TraverseKeeps DEF Ends, IInv, TraversalInv
      <3>2. Map!Finish
        BY <3>1 DEF Map!Finish
      <3> QED
        BY <3>2 DEF Map!Next
    <2>2. ASSUME NEW k \in Keys, Returns(k) PROVE Map!Next
      <3>1. running /\ t' = t /\ visited' = Append(visited, k) /\ k \in Map!Present \ Map!Range(visited)
        BY <2>2, PresentIs DEF Returns
      <3>2. running' = running
        BY <1>2, <2>2, TraverseKeeps DEF Returns, IInv, TraversalInv
      <3>3. Map!Visit(k)
        BY <3>1, <3>2 DEF Map!Visit
      <3> QED
        BY <3>3 DEF Map!Next
    <2> QED
      BY <1>2, <2>1, <2>2, TraverseKeeps
  <1>3. CASE Collect
    <2>1. Fields(t') = Fields(t) /\ running' = running /\ visited' = visited
      BY <1>0, <1>3, CollectKeeps DEF KeepsTo, Collect
    <2> QED
      BY <2>1 DEF Map!vars, Fields
  <1>4. ASSUME NEW k \in Keys, NEW present \in BOOLEAN, SetKey(k, IF present THEN k ELSE nil) PROVE Map!Next
    <2> DEFINE v == IF present THEN k ELSE nil
    <2>1. v \in {nil, k} /\ SetKey(k, v)
      BY <1>4
    <2>2. UNCHANGED <<running, visited>> /\ (running => k \in Map!Present)
      BY <1>4, <2>1, SetKeyKeeps, PresentIs DEF SetKey
    <2> HIDE DEF v
    <2>3. Fields(t') = Changed(Fields(t), k, v)
      <3> DEFINE has == (Has(t) \ {k}) \cup ({v} \ {nil})
      <3>1. KeepsTo(has)
        BY <2>1, SetKeyKeeps, Zenon
      <3>2. FieldsOf(has) = Changed(FieldsOf(Has(t)), k, v)
        BY <2>1, FieldSet
      <3> HIDE DEF has
      <3>3. Fields(t') = FieldsOf(has)
        BY <1>0, <3>1, Zenon DEF KeepsTo
      <3> QED
        BY <1>0, <3>2, <3>3, Zenon
    <2>4. Map!Set
      <3>1. k \in IF running THEN Map!Present ELSE Keys
        BY <2>2
      <3>2. [x \in Keys |-> luaH_get(t, x)]' = [[x \in Keys |-> luaH_get(t, x)] EXCEPT ![k] = IF present THEN k ELSE nil]
        BY <2>3, Zenon DEF Fields, Changed, v
      <3> QED
        BY <2>2, <3>1, <3>2 DEF Map!Set
    <2> QED
      BY <2>4 DEF Map!Next
  <1>5. ASSUME NEW n \in 1 .. MaxArray, SetList(n) PROVE UNCHANGED Map!vars
    <2>1. Fields(t') = Fields(t) /\ running' = running /\ visited' = visited
      BY <1>0, <1>5, SetListKeeps DEF KeepsTo, SetList
    <2> QED
      BY <2>1 DEF Map!vars, Fields
  <1>6. CASE UNCHANGED tableVars
    BY <1>6 DEF tableVars, Map!vars
  <1> QED
    BY <1>1, <1>2, <1>3, <1>4, <1>5, <1>6 DEF TableNext

\* A table implements a map with a traversal, whatever chains collisions build,
\* whatever a rehash moves and whatever the collector frees.
THEOREM TableIsMap == TableSpec => IsMap
  <1> QED
    BY InitMap, InitIInv, StepIInv, StepMap, PTL DEF TableSpec, IsMap, Map!Spec

-----------------------------------------------------------------------------
(* The length.                                                                *)

Border(tab, n) == (n > 0 => IntAt(tab, n) # nil) /\ IntAt(tab, n + 1) = nil

\* One turn of the bisection, and what it keeps of the two indexes.
Halve(tab, p) ==
  IF p[2] - p[1] <= 1 THEN <<p[1], p[2]>>
  ELSE IF IntAt(tab, (p[1] + p[2]) \div 2) = nil THEN <<p[1], (p[1] + p[2]) \div 2>> ELSE <<(p[1] + p[2]) \div 2, p[2]>>
Around(tab, p) == /\ p \in Nat \X Nat /\ p[1] < p[2]
                  /\ p[1] = 0 \/ IntAt(tab, p[1]) # nil
                  /\ IntAt(tab, p[2]) = nil

LEMMA HalveKeeps ==
  ASSUME NEW tab, NEW p, Around(tab, p), NEW q, q = Halve(tab, p)
  PROVE  Around(tab, q) /\ (q[2] - q[1] <= 1 \/ q[2] - q[1] < p[2] - p[1])
  <1> DEFINE m == (p[1] + p[2]) \div 2
  <1>1. p[1] \in Nat /\ p[2] \in Nat /\ p = <<p[1], p[2]>>
    BY DEF Around
  <1>2. CASE p[2] - p[1] <= 1
    <2>1. q = p
      BY <1>1, <1>2, Zenon DEF Halve
    <2> QED
      BY <1>2, <2>1
  <1>3. CASE ~(p[2] - p[1] <= 1)
    <2>1. m \in Nat /\ p[1] < m /\ m < p[2] /\ m # 0 /\ p[2] - m < p[2] - p[1] /\ m - p[1] < p[2] - p[1]
      <3>1. \A a, b \in Nat : ~(b - a <= 1) => (a + b) \div 2 \in Nat /\ a < (a + b) \div 2 /\ (a + b) \div 2 < b
        OBVIOUS
      <3>2. m \in Nat /\ p[1] < m /\ m < p[2]
        BY <1>1, <1>3, <3>1, Zenon
      <3>3. \A a, b, c \in Nat : a < b /\ b < c => b # 0 /\ c - b < c - a /\ b - a < c - a
        OBVIOUS
      <3> QED
        BY <1>1, <3>2, <3>3, Zenon
    <2>2. CASE IntAt(tab, m) = nil
      <3>1. q = <<p[1], m>>
        BY <1>3, <2>2, Zenon DEF Halve
      <3> HIDE DEF m
      <3>2. q[1] = p[1] /\ q[2] = m /\ q \in Nat \X Nat
        BY <1>1, <2>1, <3>1
      <3> QED
        BY <2>1, <2>2, <3>2 DEF Around
    <2>3. CASE ~(IntAt(tab, m) = nil)
      <3>1. q = <<m, p[2]>>
        BY <1>3, <2>3, Zenon DEF Halve
      <3> HIDE DEF m
      <3>2. q[1] = m /\ q[2] = p[2] /\ q \in Nat \X Nat
        BY <1>1, <2>1, <3>1
      <3> QED
        BY <2>1, <2>3, <3>2 DEF Around
    <2> QED
      BY <2>2, <2>3
  <1> QED
    BY <1>2, <1>3

\* The function of Bisect.
Halving(tab, i, j) ==
  LET at[n \in Nat] == IF n = 0 THEN <<i, j>>
                       ELSE LET a == at[n - 1][1]
                                b == at[n - 1][2]
                                m == (a + b) \div 2
                            IN  IF b - a <= 1 THEN <<a, b>> ELSE IF IntAt(tab, m) = nil THEN <<a, m>> ELSE <<m, b>>
  IN  at

Halves(tab, i, j, at) == at[0] = <<i, j>> /\ \A n \in Nat : at[n + 1] = Halve(tab, at[n])

LEMMA HalvingSteps ==
  ASSUME NEW tab, NEW i \in Nat, NEW j \in Nat
  PROVE  Halves(tab, i, j, Halving(tab, i, j))
  <1> DEFINE halve(p) == Halve(tab, p)
             base == <<i, j>>
             S == Int \X Int
             step == [x \in Nat \X S |-> halve(x[2])]
             W == Halving(tab, i, j)
  <1>1. \A p \in S : halve(p) \in S
    <2> SUFFICES ASSUME NEW p \in S PROVE halve(p) \in S
      OBVIOUS
    <2> DEFINE m == (p[1] + p[2]) \div 2
    <2>1. p[1] \in Int /\ p[2] \in Int
      OBVIOUS
    <2>2. m \in Int
      <3>1. \A a, b \in Int : (a + b) \div 2 \in Int
        OBVIOUS
      <3> QED
        BY <2>1, <3>1, Zenon
    <2>3. halve(p) \in {<<p[1], p[2]>>, <<p[1], m>>, <<m, p[2]>>}
      BY Zenon DEF Halve
    <2> HIDE DEF m, halve
    <2> QED
      BY <2>1, <2>2, <2>3
  <1>2. base \in S
    OBVIOUS
  <1> HIDE DEF base, halve, S
  <1>3. step \in [Nat \X S -> S]
    BY <1>1
  <1>4. PICK f : Runs(base, step, S, f)
    <2> HIDE DEF step
    <2> QED
      BY <1>2, <1>3, NatRecursion, Zenon
  <1>5. f \in [Nat -> S] /\ f[0] = base /\ \A n \in Nat : f[n + 1] = halve(f[n])
    BY <1>4 DEF Runs
  <1>6. f = [n \in Nat |-> IF n = 0 THEN base ELSE halve(f[n - 1])]
    <2>1. ASSUME NEW n \in Nat PROVE f[n] = IF n = 0 THEN base ELSE halve(f[n - 1])
      <3>1. CASE n = 0
        BY <1>5, <3>1
      <3>2. CASE n # 0
        <4>1. n - 1 \in Nat /\ (n - 1) + 1 = n
          BY <3>2
        <4> QED
          BY <1>5, <3>2, <4>1
      <3> QED
        BY <3>1, <3>2
    <2> QED
      BY <1>5, <2>1
  <1>7. W = [n \in Nat |-> IF n = 0 THEN base ELSE halve(W[n - 1])]
    BY <1>6, Zenon DEF Halving, halve, base, Halve
  <1> HIDE DEF W
  <1>8. ASSUME NEW n \in Nat PROVE W[n + 1] = halve(W[n])
    <2>1. n + 1 \in Nat /\ n + 1 # 0 /\ (n + 1) - 1 = n
      OBVIOUS
    <2> QED
      BY <1>7, <2>1
  <1>9. W[0] = base
    BY <1>7
  <1> QED
    BY <1>8, <1>9, Zenon DEF Halves, W, halve, base

\* Between an index that is 0 or present and one that is absent, it finds a border.
LEMMA BisectFinds ==
  ASSUME NEW tab, NEW i \in Nat, NEW j \in Nat, Around(tab, <<i, j>>)
  PROVE  Border(tab, Bisect(tab, i, j))
  <1> DEFINE W == Halving(tab, i, j)
             d == j - i
             T == {n \in Nat : Around(tab, W[n]) /\ (W[n][2] - W[n][1] <= 1 \/ (W[n][2] - W[n][1]) + n <= d)}
  <1>1. W[0] = <<i, j>> /\ \A n \in Nat : W[n + 1] = Halve(tab, W[n])
    <2>1. Halves(tab, i, j, W)
      BY HalvingSteps, Zenon
    <2> HIDE DEF W
    <2> QED
      BY <2>1, Zenon DEF Halves
  <1>2. d \in Nat
    BY DEF Around
  <1> HIDE DEF W
  <1>3. 0 \in T
    BY <1>1
  <1>4. ASSUME NEW n \in Nat, n \in T PROVE n + 1 \in T
    <2> DEFINE p == W[n]
               q == W[n + 1]
    <2>1. q = Halve(tab, p)
      BY <1>1, Zenon
    <2>2. Around(tab, p) /\ (p[2] - p[1] <= 1 \/ (p[2] - p[1]) + n <= d)
      BY <1>4
    <2> HIDE DEF p, q, d
    <2>3. Around(tab, q) /\ (q[2] - q[1] <= 1 \/ q[2] - q[1] < p[2] - p[1])
      BY <2>1, <2>2, HalveKeeps, Zenon
    <2>4. p[1] \in Nat /\ p[2] \in Nat /\ q[1] \in Nat /\ q[2] \in Nat
      BY <2>2, <2>3 DEF Around
    <2>5. q[2] - q[1] <= 1 \/ (q[2] - q[1]) + (n + 1) <= d
      <3>1. \A a, b, x, y \in Nat : x < y /\ (y - x <= 1 \/ (y - x) + n <= d) /\ (b - a <= 1 \/ b - a < y - x)
              => (b - a <= 1 \/ (b - a) + (n + 1) <= d)
        BY <1>2
      <3>2. p[1] < p[2]
        BY <2>2 DEF Around
      <3> QED
        BY <2>2, <2>3, <2>4, <3>1, <3>2, Zenon
    <2> QED
      BY <2>3, <2>5 DEF q
  <1>5. d \in T
    BY <1>2, <1>3, <1>4, NatSetInduction
  <1> DEFINE p == W[d]
  <1>6. Around(tab, p) /\ (p[2] - p[1] <= 1 \/ (p[2] - p[1]) + d <= d)
    BY <1>5
  <1>7. Bisect(tab, i, j) = p[1]
    BY Zenon DEF Bisect, W, Halving
  <1> HIDE DEF p, d
  <1>8. p[2] = p[1] + 1 /\ p[1] \in Nat
    <2>1. p[1] \in Nat /\ p[2] \in Nat /\ p[1] < p[2]
      BY <1>6 DEF Around
    <2> QED
      BY <1>2, <1>6, <2>1
  <1>9. IntAt(tab, p[1] + 1) = nil /\ (p[1] = 0 \/ IntAt(tab, p[1]) # nil)
    BY <1>6, <1>8 DEF Around
  <1>10. p[1] > 0 => p[1] # 0
    BY <1>8
  <1> QED
    BY <1>7, <1>9, <1>10, Zenon DEF Border

\* The function of unbound_search.
Doubling(len) == LET at[n \in Nat] == IF n = 0 THEN <<len, len + 1>> ELSE <<at[n - 1][2], 2 * at[n - 1][2]>> IN at

LEMMA DoublingSteps ==
  ASSUME NEW len \in Nat
  PROVE  /\ Doubling(len)[0] = <<len, len + 1>>
         /\ \A n \in Nat : Doubling(len)[n + 1] = <<Doubling(len)[n][2], 2 * Doubling(len)[n][2]>>
  <1> DEFINE double(p) == <<p[2], 2 * p[2]>>
             base == <<len, len + 1>>
             S == Int \X Int
             step == [x \in Nat \X S |-> double(x[2])]
             W == Doubling(len)
  <1>1. \A p \in S : double(p) \in S
    OBVIOUS
  <1>2. base \in S
    OBVIOUS
  <1> HIDE DEF base, double, S
  <1>3. step \in [Nat \X S -> S]
    BY <1>1
  <1>4. PICK f : Runs(base, step, S, f)
    <2> HIDE DEF step
    <2> QED
      BY <1>2, <1>3, NatRecursion, Zenon
  <1>5. f \in [Nat -> S] /\ f[0] = base /\ \A n \in Nat : f[n + 1] = double(f[n])
    BY <1>4 DEF Runs
  <1>6. f = [n \in Nat |-> IF n = 0 THEN base ELSE double(f[n - 1])]
    <2>1. ASSUME NEW n \in Nat PROVE f[n] = IF n = 0 THEN base ELSE double(f[n - 1])
      <3>1. CASE n = 0
        BY <1>5, <3>1
      <3>2. CASE n # 0
        <4>1. n - 1 \in Nat /\ (n - 1) + 1 = n
          BY <3>2
        <4> QED
          BY <1>5, <3>2, <4>1
      <3> QED
        BY <3>1, <3>2
    <2> QED
      BY <1>5, <2>1
  <1>7. W = [n \in Nat |-> IF n = 0 THEN base ELSE double(W[n - 1])]
    BY <1>6, Zenon DEF Doubling, double, base
  <1> HIDE DEF W
  <1>8. ASSUME NEW n \in Nat PROVE W[n + 1] = double(W[n])
    <2>1. n + 1 \in Nat /\ n + 1 # 0 /\ (n + 1) - 1 = n
      OBVIOUS
    <2> QED
      BY <1>7, <2>1
  <1>9. W[0] = base
    BY <1>7
  <1> QED
    BY <1>8, <1>9 DEF W, double, base

\* Each turn the second index grows, and the first is the second of the turn before.
LEMMA DoublingGrows ==
  ASSUME NEW len \in Nat
  PROVE  \A n \in Nat : /\ Doubling(len)[n] \in Nat \X Nat /\ Doubling(len)[n][1] < Doubling(len)[n][2]
                        /\ Doubling(len)[n][2] >= n + 1
  <1> DEFINE W == Doubling(len)
             T == {n \in Nat : W[n] \in Nat \X Nat /\ W[n][1] < W[n][2] /\ W[n][2] >= n + 1}
  <1>1. W[0] = <<len, len + 1>>
    BY DoublingSteps, Zenon
  <1>2. \A n \in Nat : W[n + 1] = <<W[n][2], 2 * W[n][2]>>
    BY DoublingSteps, Zenon
  <1> HIDE DEF W
  <1>3. 0 \in T
    BY <1>1
  <1>4. ASSUME NEW n \in Nat, n \in T PROVE n + 1 \in T
    <2> DEFINE b == W[n][2]
    <2>1. b \in Nat /\ b >= n + 1
      BY <1>4
    <2>2. W[n + 1] = <<b, 2 * b>>
      BY <1>2, Zenon
    <2> HIDE DEF b
    <2>3. 2 * b \in Nat /\ b < 2 * b /\ 2 * b >= (n + 1) + 1
      BY <2>1
    <2> DEFINE c == 2 * b
               q == W[n + 1]
    <2>4. c \in Nat /\ b < c /\ c >= (n + 1) + 1 /\ q = <<b, c>>
      BY <2>2, <2>3
    <2> HIDE DEF c, q
    <2>5. q \in Nat \X Nat /\ q[1] < q[2] /\ q[2] >= (n + 1) + 1
      BY <2>1, <2>4
    <2> QED
      BY <2>5 DEF q
  <1>5. Nat \subseteq T
    BY <1>3, <1>4, NatSetInduction
  <1> QED
    BY <1>5 DEF W

\* No index beyond the largest int is a key.
LEMMA BeyondInts == \A tab : \A j \in Nat : j > MAX_INT => IntAt(tab, j) = nil
  <1>1. \A j \in Nat : j > MAX_INT => j \notin IntKeys
    BY TableAssumption
  <1> QED
    BY <1>1 DEF IntAt

\* The first index of a set, and what is not in it before.
LEMMA FirstIs ==
  ASSUME NEW n \in Nat, NEW T \in SUBSET (0 .. n), T # {}, NEW m, m = Min(T)
  PROVE  m \in T /\ m \in Nat /\ m <= n /\ (m > 0 => m - 1 \in 0 .. n /\ m - 1 \in Nat /\ m - 1 \notin T)
  <1>1. T \in SUBSET Nat
    OBVIOUS
  <1>2. m \in T /\ \A k \in T : m <= k
    BY <1>1, MinIs
  <1>3. m \in 0 .. n
    BY <1>2
  <1> QED
    BY <1>2, <1>3

LEMMA UnboundFinds ==
  ASSUME NEW tab, NEW len \in Nat, len = 0 \/ IntAt(tab, len) # nil
  PROVE  Border(tab, unbound_search(tab, len))
  <1> DEFINE W == Doubling(len)
             gone == {n \in 0 .. MAX_INT : IntAt(tab, W[n][2]) = nil}
             last == Min(gone)
             ends == {n \in 0 .. MAX_INT : IntAt(tab, n + 1) = nil}
  <1>0. MAX_INT \in Nat
    BY TableAssumption
  <1>1. W[0] = <<len, len + 1>>
    BY DoublingSteps, Zenon
  <1>2. \A n \in Nat : W[n + 1] = <<W[n][2], 2 * W[n][2]>>
    BY DoublingSteps, Zenon
  <1>3. \A n \in Nat : W[n] \in Nat \X Nat /\ W[n][1] < W[n][2] /\ W[n][2] >= n + 1
    BY DoublingGrows, Zenon
  <1>4. unbound_search(tab, len) = IF last > 0 /\ W[last][2] > MAX_INT THEN Min(ends) ELSE Bisect(tab, W[last][1], W[last][2])
    BY Zenon DEF unbound_search, Doubling
  <1> HIDE DEF W
  <1>5. MAX_INT \in gone
    <2> DEFINE j == W[MAX_INT][2]
    <2>1. j \in Nat /\ j >= MAX_INT + 1
      BY <1>0, <1>3
    <2> HIDE DEF j
    <2>2. j > MAX_INT
      BY <1>0, <2>1
    <2>3. IntAt(tab, j) = nil
      BY <2>1, <2>2, BeyondInts, Zenon
    <2> QED
      BY <1>0, <2>3 DEF j
  <1>6. gone \in SUBSET (0 .. MAX_INT) /\ gone # {}
    BY <1>5
  <1>7. \A n \in gone : IntAt(tab, W[n][2]) = nil
    OBVIOUS
  <1>8. \A n \in 0 .. MAX_INT : n \notin gone => IntAt(tab, W[n][2]) # nil
    OBVIOUS
  <1> HIDE DEF gone
  <1>9. /\ last \in gone /\ last \in Nat
        /\ last > 0 => last - 1 \in 0 .. MAX_INT /\ last - 1 \in Nat /\ last - 1 \notin gone
    BY <1>0, <1>6, FirstIs, Zenon
  <1> HIDE DEF last
  <1>10. CASE last > 0 /\ W[last][2] > MAX_INT
    <2> DEFINE m == Min(ends)
    <2>1. MAX_INT \in ends
      <3>1. MAX_INT + 1 \in Nat /\ MAX_INT + 1 > MAX_INT
        BY <1>0
      <3>2. IntAt(tab, MAX_INT + 1) = nil
        BY <3>1, BeyondInts, Zenon
      <3> QED
        BY <1>0, <3>2
    <2>2. ends \in SUBSET (0 .. MAX_INT) /\ ends # {}
      BY <2>1
    <2>3. \A n \in 0 .. MAX_INT : n \in ends <=> IntAt(tab, n + 1) = nil
      OBVIOUS
    <2> HIDE DEF ends
    <2>4. /\ m \in ends /\ m \in Nat
          /\ m > 0 => m - 1 \in 0 .. MAX_INT /\ m - 1 \in Nat /\ m - 1 \notin ends
      BY <1>0, <2>2, FirstIs, Zenon
    <2>5. unbound_search(tab, len) = m
      BY <1>4, <1>10, Zenon
    <2> HIDE DEF m
    <2>6. IntAt(tab, m + 1) = nil
      BY <2>2, <2>3, <2>4
    <2>7. m > 0 => IntAt(tab, m) # nil
      <3>1. m > 0 => (m - 1) + 1 = m
        BY <2>4
      <3> QED
        BY <2>3, <2>4, <3>1
    <2> QED
      BY <2>5, <2>6, <2>7, Zenon DEF Border
  <1>11. CASE ~(last > 0 /\ W[last][2] > MAX_INT)
    <2> DEFINE i == W[last][1]
               j == W[last][2]
    <2>1. i \in Nat /\ j \in Nat /\ i < j
      BY <1>3, <1>9
    <2>2. unbound_search(tab, len) = Bisect(tab, i, j)
      BY <1>4, <1>11, Zenon
    <2>3. IntAt(tab, j) = nil
      BY <1>7, <1>9, Zenon
    <2>4. i = 0 \/ IntAt(tab, i) # nil
      <3>1. CASE last > 0
        <4> DEFINE n == last - 1
        <4>1. n \in Nat /\ n + 1 = last /\ n \in 0 .. MAX_INT /\ n \notin gone
          BY <1>9, <3>1
        <4> HIDE DEF n
        <4>2. W[last] = <<W[n][2], 2 * W[n][2]>>
          BY <1>2, <4>1
        <4>3. i = W[n][2]
          BY <4>2
        <4> QED
          BY <1>8, <4>1, <4>3, Zenon
      <3>2. CASE ~(last > 0)
        <4>1. last = 0
          BY <1>9, <3>2
        <4>2. i = len
          BY <1>1, <4>1
        <4> QED
          BY <4>2
      <3> QED
        BY <3>1, <3>2
    <2> HIDE DEF i, j
    <2>5. Around(tab, <<i, j>>)
      BY <2>1, <2>3, <2>4 DEF Around
    <2> QED
      BY <2>1, <2>2, <2>5, BisectFinds
  <1> QED
    BY <1>10, <1>11

LEMMA GetnFinds ==
  ASSUME NEW tab, TableInv(tab)
  PROVE  Border(tab, luaH_getn(tab))
  <1> DEFINE j == Len(tab.array)
  <1>0. j \in Nat /\ tab.array \in [1 .. j -> Values]
    BY TableFields DEF TableInv
  <1>1. j > 0 => j \in 1 .. j /\ j \in Nat
    BY <1>0
  <1>2. j > 0 /\ tab.array[j] # nil => IntAt(tab, j) # nil
    <2> SUFFICES ASSUME j > 0, tab.array[j] # nil PROVE IntAt(tab, j) # nil
      OBVIOUS
    <2>1. j \in IntKeys
      BY <1>1 DEF TableInv, ArrayInv
    <2>2. InArray(tab, j)
      BY <1>0, <2>1 DEF InArray
    <2> QED
      BY <2>1, <2>2 DEF IntAt, luaH_get
  <1>3. CASE j > 0 /\ tab.array[j] = nil
    <2>1. IntAt(tab, j) = nil
      <3>1. j \in IntKeys => InArray(tab, j)
        BY <1>0 DEF InArray
      <3> QED
        BY <1>3, <3>1 DEF IntAt, luaH_get
    <2>2. luaH_getn(tab) = Bisect(tab, 0, j)
      BY <1>3, Zenon DEF luaH_getn
    <2> HIDE DEF j
    <2>3. Around(tab, <<0, j>>)
      BY <1>0, <1>3, <2>1 DEF Around
    <2>4. 0 \in Nat
      OBVIOUS
    <2> QED
      BY <1>0, <2>2, <2>3, <2>4, BisectFinds
  <1>4. CASE ~(j > 0 /\ tab.array[j] = nil) /\ tab.node = <<>>
    <2>1. luaH_getn(tab) = j
      BY <1>4, Zenon DEF luaH_getn
    <2>2. IntAt(tab, j + 1) = nil
      <3>1. ~InArray(tab, j + 1)
        <4>1. ~(j + 1 <= j)
          BY <1>0
        <4> QED
          BY <4>1, Zenon DEF InArray
      <3>2. NodeOf(tab, j + 1, FALSE) = 0
        BY <1>4, Zenon DEF NodeOf
      <3> QED
        BY <3>1, <3>2, Zenon DEF IntAt, luaH_get
    <2> QED
      BY <1>2, <1>4, <2>1, <2>2, Zenon DEF Border
  <1>5. CASE ~(j > 0 /\ tab.array[j] = nil) /\ tab.node # <<>>
    <2>1. luaH_getn(tab) = unbound_search(tab, j)
      BY <1>5, Zenon DEF luaH_getn
    <2>2. j = 0 \/ IntAt(tab, j) # nil
      <3>1. j = 0 \/ j > 0
        BY <1>0
      <3> QED
        BY <1>2, <1>5, <3>1
    <2> HIDE DEF j
    <2> QED
      BY <1>0, <2>1, <2>2, UnboundFinds
  <1> QED
    BY <1>3, <1>4, <1>5

\* The length of a table is a border, whatever holes its array has and however
\* far its integer keys go.
THEOREM LengthIsABorder == TableSpec => []LengthIsBorder
  <1>1. IInv => LengthIsBorder
    BY GetnFinds, Zenon DEF IInv, LengthIsBorder, Border
  <1> QED
    BY <1>1, TableSound, PTL
===============================================================================
