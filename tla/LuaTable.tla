------------------------------- MODULE LuaTable -------------------------------
(* A Lua table (ltable.c): an array part, a hash part of chained nodes with   *)
(* Brent's variation, the rehash that moves keys between the two, traversal   *)
(* by luaH_next and the border luaH_getn finds. The value of a present key is *)
(* the key itself, so that a lookup that ends at the wrong node shows.        *)
EXTENDS Integers, Sequences, SequencesExt, FiniteSetsExt

CONSTANTS
  IntKeys,   \* the integers used as keys, a set of positive numbers
  StrKeys,   \* the other keys: strings, collectable
  StrHash,   \* their hash values
  nil,       \* no value, no key
  MAX_INT,   \* the largest C int
  MAXASIZE,  \* the largest index a rehash moves to the array part
  MaxArray   \* bound: the sizes SETLIST asks for

Keys == IntKeys \cup StrKeys

ASSUME TableAssumption == /\ MAX_INT \in Nat /\ MAXASIZE \in Nat /\ MaxArray \in Nat
                          /\ IntKeys \subseteq 1 .. MAX_INT
                          /\ IsFiniteSet(StrKeys) /\ StrKeys \cap Int = {}
                          /\ StrHash \in [StrKeys -> Nat]
                          /\ nil \notin Keys

VARIABLES
  t,        \* the table: [array, node, lastfree]
  key,      \* the control key of a traversal: nil at its start
  running,  \* a traversal is running
  visited   \* history: the keys it has returned

tableVars == <<t, key, running, visited>>

\* A node has a key (dead: the collector has freed it), a value and the index
\* of the next node of its chain, 0 at the end. The dummy node is <<>>.
FreeNode == [key |-> nil, dead |-> FALSE, val |-> nil, next |-> 0]

\* The powers of two.
twoto[e \in Nat] == IF e = 0 THEN 1 ELSE 2 * twoto[e - 1]

ceillog2(x) == CHOOSE e \in 0 .. x : twoto[e] >= x /\ \A f \in 0 .. e - 1 : twoto[f] < x
log2(x) == Max({e \in 0 .. x : twoto[e] <= x})

\* The sum of the two ints of the double n: only its high word is not zero,
\* with the exponent above 2^20 = 1048576 and 20 bits of the fraction below.
HashNum(n) == LET e == log2(n) IN (1023 + e) * 1048576 + ((n - twoto[e]) * 1048576) \div twoto[e]

\* (size - 1) | 1 for numbers; the low bits of a string's hash.
mainposition(tab, k) ==
  LET size == Len(tab.node) IN
  IF k \in IntKeys THEN 1 + (HashNum(k) % (IF size = 1 THEN 1 ELSE size - 1))
                   ELSE 1 + (StrHash[k] % size)

\* The nodes of the chain that starts at i: n steps on from it, until 0.
Links(tab) == [i \in DOMAIN tab.node |-> tab.node[i].next]
Chain(next, i) ==
  LET at[n \in Nat] == IF n = 0 THEN i ELSE IF at[n - 1] = 0 THEN 0 ELSE next[at[n - 1]]
  IN  {at[n] : n \in 0 .. Len(next) - 1} \ {0}

\* The first node of its chain that holds k: the others come after it. 0 when
\* there is none. luaH_next finds dead keys too.
NodeOf(tab, k, evenDead) ==
  LET holders == IF tab.node = <<>> THEN {}
                 ELSE {i \in Chain(Links(tab), mainposition(tab, k)) :
                         tab.node[i].key = k /\ (evenDead \/ ~tab.node[i].dead)}
  IN  IF holders = {} THEN 0 ELSE CHOOSE i \in holders : holders \subseteq Chain(Links(tab), i)

InArray(tab, k) == k \in IntKeys /\ k <= Len(tab.array)

luaH_get(tab, k) ==
  IF InArray(tab, k) THEN tab.array[k]
  ELSE LET n == NodeOf(tab, k, FALSE) IN IF n = 0 THEN nil ELSE tab.node[n].val

-----------------------------------------------------------------------------
(* Rehash: the sizes of the two parts *)

\* How many of the integer keys ks lie in (2^(i-1), 2^i].
Slice(ks, i) == Cardinality({k \in ks : ceillog2(k) = i})

\* The largest size 2^i of which more than half would be in use.
computesizes(ks) ==
  LET upto(i) == Cardinality({k \in ks : k <= twoto[i]})
      good == {i \in 0 .. Cardinality(ks) : twoto[i] < 2 * Cardinality(ks) /\ Slice(ks, i) > 0
                                             /\ 2 * upto(i) > twoto[i]}
  IN  IF good = {} THEN [size |-> 0, uses |-> 0]
      ELSE [size |-> twoto[Max(good)], uses |-> upto(Max(good))]

UsedArray(tab) == {i \in DOMAIN tab.array : tab.array[i] # nil}
UsedNodes(tab) == {i \in DOMAIN tab.node : tab.node[i].val # nil}

setnodevector(tab, size) ==
  LET n == IF size = 0 THEN 0 ELSE twoto[ceillog2(size)]
  IN  [tab EXCEPT !.node = [i \in 1 .. n |-> FreeNode], !.lastfree = n + 1]

setarrayvector(tab, size) ==
  [tab EXCEPT !.array = [i \in 1 .. size |-> IF i <= Len(@) THEN @[i] ELSE nil]]

\* The last position below lastfree that was never given a key.
getfreepos(tab) ==
  LET free == {i \in DOMAIN tab.node : i < tab.lastfree /\ tab.node[i].key = nil}
  IN  IF free = {} THEN 0 ELSE Max(free)

Put(tab, i, k, v) == [tab EXCEPT !.node[i].key = k, !.node[i].dead = FALSE, !.node[i].val = v]

\* Fault: the node before the one that moves is not told.
MoveUnlinked(tab, mp, n) == [tab EXCEPT !.node = [@ EXCEPT ![n] = tab.node[mp], ![mp] = FreeNode]]

\* The colliding node is out of its main position: it moves to the free one.
MoveColliding(tab, mp, n) ==
  LET next == Links(tab)
      prev == CHOOSE p \in Chain(next, mainposition(tab, tab.node[mp].key)) : next[p] = mp
  IN  [tab EXCEPT !.node = [@ EXCEPT ![prev].next = n, ![n] = tab.node[mp], ![mp] = FreeNode]]

\* The colliding node is in its main position: the new key goes to the free one.
ChainFree(tab, mp, n) ==
  [tab EXCEPT !.node = [@ EXCEPT ![n].next = tab.node[mp].next, ![mp].next = n]]

\* The node for a new key, as long as there is room for it.
newkey(tab, k, v) ==
  LET mp == IF tab.node = <<>> THEN 0 ELSE mainposition(tab, k)
      n  == getfreepos(tab)
      tn == [tab EXCEPT !.lastfree = n]
  IN  IF mp # 0 /\ tab.node[mp].val = nil THEN Put(tab, mp, k, v)
      ELSE IF n = 0 THEN tn
      ELSE IF mainposition(tab, tab.node[mp].key) # mp
           THEN Put(MoveColliding(tn, mp, n), mp, k, v)
           ELSE Put(ChainFree(tn, mp, n), n, k, v)

\* t[k] = v in the slot that luaH_set returns when nothing needs to grow.
SetInPlace(tab, k, v) ==
  IF InArray(tab, k) THEN [tab EXCEPT !.array[k] = v]
  ELSE LET n == NodeOf(tab, k, FALSE) IN
       IF n # 0 THEN [tab EXCEPT !.node[n].val = v] ELSE newkey(tab, k, v)

\* The array part is cut or extended, the hash part is new; then what was in the
\* vanishing slice and in the old nodes, from the last one on, is set again. All
\* of it has room, so that no rehash begins in the middle of one.
resize(tab, nasize, nhsize) ==
  LET empty == setnodevector(setarrayvector(tab, nasize), nhsize)
      slice == [i \in 1 .. Len(tab.array) - nasize |-> [key |-> nasize + i, val |-> tab.array[nasize + i]]]
      old   == slice \o Reverse(tab.node)
      after[i \in Nat] == IF i = 0 THEN empty
                          ELSE IF i > Len(old) \/ old[i].val = nil THEN after[i - 1]
                          ELSE SetInPlace(after[i - 1], old[i].key, old[i].val)
  IN  after[Len(old)]

rehash(tab, k) ==
  LET hashKeys == {tab.node[i].key : i \in UsedNodes(tab)}
      ints  == UsedArray(tab) \cup {x \in (hashKeys \cup {k}) \cap IntKeys : x <= MAXASIZE}
      total == Cardinality(UsedArray(tab)) + Cardinality(UsedNodes(tab)) + 1
      sizes == computesizes(ints)
  IN  resize(tab, sizes.size, total - sizes.uses)

\* A new key finds its main position taken and no free place.
NoRoom(tab, k) == /\ ~InArray(tab, k) /\ NodeOf(tab, k, FALSE) = 0
                  /\ tab.node # <<>> => tab.node[mainposition(tab, k)].val # nil
                  /\ getfreepos(tab) = 0

\* t[k] = v: the slot luaH_set returns and the value its caller writes there.
luaH_set(tab, k, v) == SetInPlace(IF NoRoom(tab, k) THEN rehash(tab, k) ELSE tab, k, v)

luaH_resizearray(tab, nasize) == resize(tab, nasize, Len(tab.node))

-----------------------------------------------------------------------------
(* Traversal and border *)

\* The place of k in a traversal: array places, then nodes; -1: invalid key.
findindex(tab, k) ==
  CASE k = nil         -> 0
    [] InArray(tab, k) -> k
    [] OTHER -> LET n == NodeOf(tab, k, TRUE) IN IF n = 0 THEN -1 ELSE Len(tab.array) + n

KeyAt(tab, i) == IF i <= Len(tab.array) THEN i ELSE tab.node[i - Len(tab.array)].key
ValueAt(tab, i) ==
  IF i <= Len(tab.array) THEN tab.array[i] ELSE tab.node[i - Len(tab.array)].val

\* The next place with a value after place i, 0 when there is none.
luaH_next(tab, i) ==
  LET on == {j \in i + 1 .. Len(tab.array) + Len(tab.node) : ValueAt(tab, j) # nil}
  IN  IF on = {} THEN 0 ELSE Min(on)

IntAt(tab, j) == IF j \in IntKeys THEN luaH_get(tab, j) ELSE nil

\* i is a present index or 0, j is absent: the border between them. The two
\* after n turns of the loop; each turn halves what is between them.
Bisect(tab, i, j) ==
  LET at[n \in Nat] == IF n = 0 THEN <<i, j>>
                       ELSE LET a == at[n - 1][1]
                                b == at[n - 1][2]
                                m == (a + b) \div 2
                            IN  IF b - a <= 1 THEN <<a, b>> ELSE IF IntAt(tab, m) = nil THEN <<a, m>> ELSE <<m, b>>
  IN  at[j - i][1]

\* i and j after n turns: j is doubled until it is absent; beyond the largest
\* int the border is searched for from 1 on.
unbound_search(tab, len) ==
  LET at[n \in Nat] == IF n = 0 THEN <<len, len + 1>> ELSE <<at[n - 1][2], 2 * at[n - 1][2]>>
      last == Min({n \in 0 .. MAX_INT : IntAt(tab, at[n][2]) = nil})
  IN  IF last > 0 /\ at[last][2] > MAX_INT THEN Min({n \in 0 .. MAX_INT : IntAt(tab, n + 1) = nil})
      ELSE Bisect(tab, at[last][1], at[last][2])

\* Fault: an array part whose last place is empty is taken to be full.
GetnOfFull(tab) ==
  LET j == Len(tab.array) IN IF tab.node = <<>> THEN j ELSE unbound_search(tab, j)

luaH_getn(tab) ==
  LET j == Len(tab.array) IN
  IF j > 0 /\ tab.array[j] = nil THEN Bisect(tab, 0, j)
  ELSE IF tab.node = <<>> THEN j
  ELSE unbound_search(tab, j)

-----------------------------------------------------------------------------
luaH_new(narray, nhash) ==
  setnodevector(setarrayvector([array |-> <<>>, node |-> <<>>, lastfree |-> 1], narray), nhash)

TableInit == /\ t \in {luaH_new(0, nhash) : nhash \in 0 .. Cardinality(Keys)}
             /\ key = nil
             /\ running = FALSE
             /\ visited = <<>>

\* During a traversal the program changes only fields that are present.
SetKey(k, v) == /\ running => luaH_get(t, k) # nil
                /\ t' = luaH_set(t, k, v)
                /\ UNCHANGED <<key, running, visited>>

SetList(n) == /\ ~running
              /\ n > Len(t.array)
              /\ t' = luaH_resizearray(t, n)
              /\ UNCHANGED <<key, running, visited>>

\* The collector frees the strings no value hangs on: their nodes stay.
Collect == /\ t' = LET n == t.node IN
                    [t EXCEPT !.node = [i \in DOMAIN n |->
                       [n[i] EXCEPT !.dead = n[i].dead \/ (n[i].val = nil /\ n[i].key \in StrKeys)]]]
           /\ t' # t
           /\ UNCHANGED <<key, running, visited>>

StartTraversal == /\ ~running
                  /\ running' = TRUE
                  /\ key' = nil
                  /\ UNCHANGED <<t, visited>>

Traverse ==
  LET i == findindex(t, key)
      j == luaH_next(t, i)
  IN  /\ running
      /\ IF i < 0 \/ j = 0 THEN running' = FALSE /\ key' = nil /\ visited' = <<>>
                  ELSE /\ key' = KeyAt(t, j)
                       /\ visited' = Append(visited, KeyAt(t, j))
                       /\ running' = TRUE
      /\ UNCHANGED t

TableNext == \/ StartTraversal
             \/ Traverse
             \/ Collect
             \/ \E k \in Keys, present \in BOOLEAN : SetKey(k, IF present THEN k ELSE nil)
             \/ \E n \in 1 .. MaxArray : SetList(n)

TableSpec == TableInit /\ [][TableNext]_tableVars

-----------------------------------------------------------------------------
\* A table is a map and next a traversal of it: whatever chains collisions
\* build, whatever part a rehash moves a key to, and although the collector
\* frees keys of cleared fields while next stands on them (ltable.c).
Map == INSTANCE LuaMap WITH Nil <- nil, map <- [k \in Keys |-> luaH_get(t, k)]
IsMap == Map!Spec

\* The length luaH_getn finds is a border: the value before it is there and
\* the one after it is not, whatever holes the array has.
LengthIsBorder == LET n == luaH_getn(t) IN /\ n > 0 => IntAt(t, n) # nil
                                           /\ IntAt(t, n + 1) = nil
=============================================================================
