----------------------------- MODULE DataLemmas -----------------------------
(* Lemmas about numbers, sequences and queues that the proofs of several      *)
(* components need.                                                           *)
EXTENDS Integers, Sequences, SequencesExt, SequenceTheorems, WellFoundedInduction, TLAPS

-----------------------------------------------------------------------------
(* Induction over numbers, for a set in place of a predicate                  *)

\* A set of numbers that is not empty has a least one.
LEMMA LeastNat ==
  ASSUME NEW T \in SUBSET Nat, T # {}
  PROVE  \E n \in T : \A m \in T : n <= m
  <1> DEFINE Less == {ss \in Nat \X Nat : ss[1] < ss[2]}
  <1>1. IsWellFoundedOn(Less, Nat)
    BY NatLessThanWellFounded DEF OpToRel
  <1>2. PICK n \in T : \A m \in T : ~(<<m, n>> \in Less)
    BY <1>1, WFMin
  <1>3. ASSUME NEW m \in T PROVE n <= m
    <2>1. <<m, n>> \in Nat \X Nat /\ <<m, n>>[1] = m /\ <<m, n>>[2] = n
      OBVIOUS
    <2> QED
      BY <1>2, <2>1
  <1> QED
    BY <1>3

\* and one that has a bound has a greatest.
LEMMA GreatestNat ==
  ASSUME NEW n \in Nat, NEW T \in SUBSET (0..n), T # {}
  PROVE  \E m \in T : \A k \in T : k <= m
  <1> DEFINE D == {n - k : k \in T}
  <1>1. D \in SUBSET Nat /\ D # {}
    <2>1. \A k \in T : n - k \in Nat
      OBVIOUS
    <2>2. \A d \in D : \E k \in T : d = n - k
      OBVIOUS
    <2>3. D \subseteq Nat
      BY <2>1, <2>2
    <2>4. PICK k \in T : TRUE
      OBVIOUS
    <2>5. n - k \in D
      BY <2>4
    <2> QED
      BY <2>3, <2>5
  <1>2. PICK d \in D : \A e \in D : d <= e
    BY <1>1, LeastNat
  <1>3. PICK m \in T : d = n - m
    BY <1>2
  <1>4. ASSUME NEW k \in T PROVE k <= m
    <2>1. n - k \in D
      OBVIOUS
    <2>2. n - m <= n - k /\ m \in Nat /\ k \in Nat
      BY <1>2, <1>3, <2>1
    <2> QED
      BY <2>2
  <1> QED
    BY <1>4

\* A set that has 0, and with each number the next one, has them all.
LEMMA NatSetInduction ==
  ASSUME NEW S, 0 \in S, \A n \in Nat : n \in S => n + 1 \in S
  PROVE  Nat \subseteq S
  <1> SUFFICES ASSUME Nat \ S # {} PROVE FALSE
    OBVIOUS
  <1>1. PICK n \in Nat \ S : \A m \in Nat \ S : n <= m
    BY LeastNat
  <1>2. n # 0 /\ n - 1 \in Nat /\ n - 1 \in S
    BY <1>1
  <1> QED
    BY <1>1, <1>2

-----------------------------------------------------------------------------
(* A function on the numbers that gives each from the one before              *)

\* What such a function is up to n.
RunsTo(n, base, step, S, g) ==
  /\ g \in [0 .. n -> S]
  /\ g[0] = base
  /\ \A k \in 0 .. n - 1 : g[k + 1] = step[<<k, g[k]>>]

\* There is one for each bound,
LEMMA RunExists ==
  ASSUME NEW S, NEW base \in S, NEW step \in [Nat \X S -> S]
  PROVE  \A n \in Nat : \E g : RunsTo(n, base, step, S, g)
  <1> DEFINE T == {n \in Nat : \E g : RunsTo(n, base, step, S, g)}
  <1>1. 0 \in T
    <2>1. RunsTo(0, base, step, S, [k \in 0 .. 0 |-> base])
      BY DEF RunsTo
    <2> QED
      BY <2>1
  <1>2. ASSUME NEW n \in Nat, n \in T PROVE n + 1 \in T
    <2>1. PICK g : RunsTo(n, base, step, S, g)
      BY <1>2
    <2> DEFINE h == [k \in 0 .. n + 1 |-> IF k = n + 1 THEN step[<<n, g[n]>>] ELSE g[k]]
    <2>2. g[n] \in S /\ step[<<n, g[n]>>] \in S
      BY <2>1 DEF RunsTo
    <2>3. \A k \in 0 .. n : g[k] \in S /\ h[k] = g[k]
      BY <2>1 DEF RunsTo
    <2>4. h \in [0 .. n + 1 -> S] /\ h[0] = base /\ h[n + 1] = step[<<n, g[n]>>]
      BY <2>1, <2>2, <2>3 DEF RunsTo
    <2> HIDE DEF h
    <2>5. \A k \in 0 .. (n + 1) - 1 : h[k + 1] = step[<<k, h[k]>>]
      <3>1. SUFFICES ASSUME NEW k \in 0 .. n PROVE h[k + 1] = step[<<k, h[k]>>]
        OBVIOUS
      <3>2. CASE k = n
        BY <2>3, <2>4, <3>2
      <3>3. CASE k # n
        BY <2>1, <2>3, <3>3 DEF RunsTo
      <3> QED
        BY <3>2, <3>3
    <2>6. RunsTo(n + 1, base, step, S, h)
      BY <2>4, <2>5 DEF RunsTo
    <2> QED
      BY <2>6
  <1>3. Nat \subseteq T
    <2> HIDE DEF T
    <2> QED BY <1>1, <1>2, NatSetInduction
  <1> QED
    BY <1>3

\* and two of them agree where both are.
LEMMA RunsAgree ==
  ASSUME NEW S, NEW base, NEW step, NEW m \in Nat, NEW n \in Nat, m <= n, NEW g, NEW h,
         RunsTo(m, base, step, S, g), RunsTo(n, base, step, S, h)
  PROVE  \A k \in 0 .. m : g[k] = h[k]
  <1> DEFINE T == {k \in Nat : k <= m => g[k] = h[k]}
  <1>1. 0 \in T
    BY DEF RunsTo
  <1>2. ASSUME NEW k \in Nat, k \in T PROVE k + 1 \in T
    <2>1. SUFFICES ASSUME k + 1 <= m PROVE g[k + 1] = h[k + 1]
      OBVIOUS
    <2>2. k \in 0 .. m - 1 /\ k \in 0 .. n - 1 /\ g[k] = h[k]
      BY <1>2, <2>1
    <2> QED
      BY <2>2 DEF RunsTo
  <1>3. Nat \subseteq T
    <2> HIDE DEF T
    <2> QED BY <1>1, <1>2, NatSetInduction
  <1> QED
    BY <1>3

\* so that there is one for them all.
Runs(base, step, S, f) ==
  /\ f \in [Nat -> S]
  /\ f[0] = base
  /\ \A n \in Nat : f[n + 1] = step[<<n, f[n]>>]
LEMMA NatRecursion ==
  ASSUME NEW S, NEW base \in S, NEW step \in [Nat \X S -> S]
  PROVE  \E f : Runs(base, step, S, f)
  <1> DEFINE run(n) == CHOOSE g : RunsTo(n, base, step, S, g)
             f == [n \in Nat |-> run(n)[n]]
  <1>1. \A n \in Nat : RunsTo(n, base, step, S, run(n))
    BY RunExists
  <1>2. ASSUME NEW n \in Nat PROVE run(n) \in [0 .. n -> S] /\ run(n)[n] \in S
    BY <1>1, SMTT(45) DEF RunsTo
  <1> HIDE DEF run
  <1>3. f \in [Nat -> S]
    BY <1>2
  <1>4. f[0] = base
    BY <1>1 DEF RunsTo
  <1>5. ASSUME NEW n \in Nat PROVE f[n + 1] = step[<<n, f[n]>>]
    <2>1. RunsTo(n, base, step, S, run(n)) /\ RunsTo(n + 1, base, step, S, run(n + 1))
      BY <1>1
    <2>2. run(n)[n] = run(n + 1)[n]
      <3>1. \A k \in 0 .. n : run(n)[k] = run(n + 1)[k]
        BY <2>1, RunsAgree
      <3> QED
        BY <3>1
    <2>3. run(n + 1)[n + 1] = step[<<n, run(n + 1)[n]>>]
      BY <2>1 DEF RunsTo
    <2> QED
      BY <2>2, <2>3
  <1> HIDE DEF f
  <1>6. Runs(base, step, S, f)
    BY <1>3, <1>4, <1>5 DEF Runs
  <1> QED
    BY <1>6

-----------------------------------------------------------------------------
(* What add, poll and remove do to the values in a queue                      *)

\* Removing the i-th element keeps the others, in their order.
LEMMA RemoveAtLemma ==
  ASSUME NEW S, NEW s \in Seq(S), NEW i \in 1..Len(s)
  PROVE  /\ RemoveAt(s, i) \in Seq(S)
         /\ Len(RemoveAt(s, i)) = Len(s) - 1
         /\ \A k \in 1..(Len(s) - 1) :
              RemoveAt(s, i)[k] = IF k < i THEN s[k] ELSE s[k + 1]
  <1> DEFINE a == SubSeq(s, 1, i - 1)
             b == SubSeq(s, i + 1, Len(s))
  <1>1. /\ a \in Seq(S) /\ Len(a) = i - 1
        /\ \A k \in 1..(i - 1) : a[k] = s[k]
    BY SubSeqProperties
  <1>2. /\ b \in Seq(S) /\ Len(b) = Len(s) - i
        /\ \A k \in 1..(Len(s) - i) : b[k] = s[i + k]
    BY SubSeqProperties
  <1>3. RemoveAt(s, i) = a \o b
    BY DEF RemoveAt
  <1> HIDE DEF a, b
  <1>4. /\ a \o b \in Seq(S)
        /\ Len(a \o b) = Len(a) + Len(b)
        /\ \A k \in 1..(Len(a) + Len(b)) :
             (a \o b)[k] = IF k <= Len(a) THEN a[k] ELSE b[k - Len(a)]
    BY <1>1, <1>2, ConcatProperties
  <1>5. Len(s) \in Nat
    BY LenProperties
  <1>6. ASSUME NEW k \in 1..(Len(s) - 1)
        PROVE  (a \o b)[k] = IF k < i THEN s[k] ELSE s[k + 1]
    BY <1>1, <1>2, <1>4, <1>5, SMTT(45)
  <1>7. Len(a \o b) = Len(s) - 1
    BY <1>1, <1>2, <1>4, <1>5
  <1> QED
    BY <1>3, <1>4, <1>6, <1>7

\* The sequence has no value twice.
NoDup(s) == \A i, k \in 1..Len(s) : s[i] = s[k] => i = k

\* Append adds its element to the values of the sequence.
LEMMA AppendRange ==
  ASSUME NEW S, NEW s \in Seq(S), NEW x \in S
  PROVE  Range(Append(s, x)) = Range(s) \cup {x}
  <1>1. /\ Len(s) \in Nat /\ DOMAIN s = 1..Len(s)
        /\ DOMAIN Append(s, x) = 1..(Len(s) + 1)
        /\ \A k \in 1..Len(s) : Append(s, x)[k] = s[k]
        /\ Append(s, x)[Len(s) + 1] = x
    BY AppendProperties, LenProperties
  <1> QED
    BY <1>1 DEF Range

\* poll() takes the head out of a queue that has no value twice.
LEMMA TailRange ==
  ASSUME NEW S, NEW s \in Seq(S), Len(s) > 0, NoDup(s)
  PROVE  /\ Tail(s) \in Seq(S)
         /\ Head(s) \in S
         /\ Range(Tail(s)) = Range(s) \ {Head(s)}
         /\ Head(s) \in Range(s)
         /\ NoDup(Tail(s))
  <1>1. s # <<>>
    OBVIOUS
  <1>2. /\ Head(s) \in S /\ Head(s) = s[1]
        /\ Tail(s) \in Seq(S) /\ Len(Tail(s)) = Len(s) - 1
        /\ \A k \in 1..Len(Tail(s)) : Tail(s)[k] = s[k + 1]
    BY <1>1, HeadTailProperties
  <1>3. DOMAIN s = 1..Len(s) /\ DOMAIN Tail(s) = 1..(Len(s) - 1) /\ Len(s) \in Nat
    BY <1>2, LenProperties
  <1>4. NoDup(Tail(s))
    BY <1>2, <1>3 DEF NoDup
  <1>5. Range(Tail(s)) \subseteq Range(s) \ {Head(s)}
    BY <1>2, <1>3 DEF NoDup, Range
  <1>6. ASSUME NEW x \in Range(s) \ {Head(s)} PROVE x \in Range(Tail(s))
    <2>1. PICK k \in 1..Len(s) : x = s[k]
      BY <1>3 DEF Range
    <2>2. k # 1 /\ k - 1 \in 1..(Len(s) - 1) /\ Tail(s)[k - 1] = x
      BY <1>2, <1>3, <2>1, <1>6
    <2> QED
      BY <1>3, <2>2 DEF Range
  <1>7. Head(s) \in Range(s)
    BY <1>2, <1>3 DEF Range
  <1> QED
    BY <1>2, <1>4, <1>5, <1>6, <1>7

\* remove() takes the i-th value out of a queue that has no value twice.
LEMMA RemoveAtRange ==
  ASSUME NEW S, NEW s \in Seq(S), NEW i \in 1..Len(s), NoDup(s)
  PROVE  /\ Range(RemoveAt(s, i)) = Range(s) \ {s[i]}
         /\ NoDup(RemoveAt(s, i))
  <1> DEFINE r == RemoveAt(s, i)
  <1>1. /\ r \in Seq(S) /\ Len(r) = Len(s) - 1
        /\ \A k \in 1..(Len(s) - 1) : r[k] = IF k < i THEN s[k] ELSE s[k + 1]
    BY RemoveAtLemma
  <1>2. DOMAIN s = 1..Len(s) /\ DOMAIN r = 1..(Len(s) - 1) /\ Len(s) \in Nat
    BY <1>1, LenProperties
  <1> HIDE DEF r
  <1>3. NoDup(r)
    BY <1>1, <1>2, SMTT(45) DEF NoDup
  <1>4. Range(r) \subseteq Range(s) \ {s[i]}
    BY <1>1, <1>2, SMTT(45) DEF NoDup, Range
  <1>5. ASSUME NEW x \in Range(s) \ {s[i]} PROVE x \in Range(r)
    <2>1. PICK k \in 1..Len(s) : x = s[k]
      BY <1>2 DEF Range
    <2>2. CASE k < i
      <3>1. k \in 1..(Len(s) - 1) /\ r[k] = x
        BY <1>1, <1>2, <2>1, <2>2
      <3> QED BY <1>2, <3>1 DEF Range
    <2>3. CASE k > i
      <3>1. k - 1 \in 1..(Len(s) - 1) /\ r[k - 1] = x
        BY <1>1, <1>2, <2>1, <2>3
      <3> QED BY <1>2, <3>1 DEF Range
    <2> QED
      BY <1>5, <2>1, <2>2, <2>3
  <1> QED
    BY <1>3, <1>4, <1>5 DEF r
=============================================================================
