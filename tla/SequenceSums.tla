------------------------------ MODULE SequenceSums ------------------------------
(***************************************************************************)
(* Sums over sequences, as FoldLeft of SequencesExt computes them, and the *)
(* smallest of some numbers. A sum is a fold over the set of indices that  *)
(* takes the largest index first: Total is that fold for a given function  *)
(* of the index, and the lemmas say how it changes when an element is      *)
(* added at the end or removed from the front, and that it splits at any   *)
(* place. They are what the counters of the queues in NativeSerial and     *)
(* those of the queues in the toolbox rest on. Then the same for loops:    *)
(* what a recursive function over the rounds computes, and keeps. At the   *)
(* end, lemmas on prefixes and removals, and on texts of references that   *)
(* are the latest of a file: the log of the analyzer is such texts.        *)
(***************************************************************************)
EXTENDS Integers, Sequences, SequencesExt, WellFoundedInduction, SequenceTheorems, TLAPS

\* f is the fold's table for the sums of w over the subsets of 1..n.
Unfolds(f, w, n) ==
    f = [s \in SUBSET (1..n) |-> IF s = {} THEN 0 ELSE f[s \ {Max(s)}] + w[Max(s)]]

\* Two weights are the same up to n.
Agree(v, w, n) == \A i \in 1..n : v[i] = w[i]

Total(w, n) == (CHOOSE f : Unfolds(f, w, n))[1..n]

-----------------------------------------------------------------------------
\* Induction over the natural numbers, for the members of a set.
LEMMA NatInSet ==
    ASSUME NEW S, 0 \in S, \A n \in Nat : n \in S => n + 1 \in S
    PROVE  Nat \subseteq S
<1> DEFINE T == Nat \ S
<1> SUFFICES ASSUME T # {} PROVE FALSE
    OBVIOUS
<1>1. PICK x \in T : \A y \in T : ~ (<<y, x>> \in OpToRel(<, Nat))
      BY NatLessThanWellFounded, WFMin
<1>2. x # 0 /\ x - 1 \in Nat
      OBVIOUS
<1>3. x - 1 \notin T
  <2>1. <<x - 1, x>> \in OpToRel(<, Nat)
        BY <1>2 DEF OpToRel
  <2> QED BY <1>1, <2>1
<1> QED BY <1>2, <1>3

\* The largest index of a set that holds it.
LEMMA MaxIs ==
    ASSUME NEW n \in Nat, NEW s \in SUBSET (1..n), n \in s
    PROVE  Max(s) = n
<1>1. \A y \in s : n >= y
      OBVIOUS
<1>2. Max(s) \in s /\ \A y \in s : Max(s) >= y
      BY <1>1 DEF Max
<1> DEFINE m == Max(s)
<1>3. m \in 1..n /\ \A y \in s : m >= y
      BY <1>2
<1> HIDE DEF m
<1>4. m = n
      BY <1>3
<1> QED BY <1>4 DEF m

\* A set of indices that is not empty has a largest one.
LEMMA MaxIn ==
    ASSUME NEW n \in Nat, NEW s \in SUBSET (1..n), s # {}
    PROVE  Max(s) \in s
<1> DEFINE Holds == {k \in Nat : \A t \in SUBSET (1..k) :
                                     t # {} => \E m \in t : \A y \in t : m >= y}
<1>1. 0 \in Holds
  <2>1. \A t \in SUBSET (1..0) : t = {}
        OBVIOUS
  <2> QED BY <2>1
<1>2. ASSUME NEW k \in Nat, k \in Holds PROVE k + 1 \in Holds
  <2> SUFFICES ASSUME NEW t \in SUBSET (1..(k + 1)), t # {}
               PROVE  \E m \in t : \A y \in t : m >= y
      OBVIOUS
  <2>1. CASE k + 1 \in t
        BY <2>1
  <2>2. CASE k + 1 \notin t
    <3>1. t \in SUBSET (1..k)
          BY <2>2
    <3> QED BY <1>2, <3>1
  <2> QED BY <2>1, <2>2
<1>3. Nat \subseteq Holds
  <2> HIDE DEF Holds
  <2> QED BY <1>1, <1>2, NatInSet
<1>4. PICK m \in s : \A y \in s : m >= y
      BY <1>3
<1> QED BY <1>4 DEF Max

\* The table of a sum exists.
LEMMA UnfoldsExists ==
    ASSUME NEW w, NEW n \in Nat
    PROVE  \E f : Unfolds(f, w, n)
<1> DEFINE Done == {k \in Nat : \E f : Unfolds(f, w, k)}
<1>1. 0 \in Done
  <2> DEFINE f == [s \in SUBSET (1..0) |-> 0]
  <2>1. \A s \in SUBSET (1..0) : s = {}
        OBVIOUS
  <2>2. f = [s \in SUBSET (1..0) |-> IF s = {} THEN 0 ELSE f[s \ {Max(s)}] + w[Max(s)]]
        BY <2>1
  <2>3. Unfolds(f, w, 0)
        BY <2>2 DEF Unfolds
  <2> QED BY <2>3
<1>2. ASSUME NEW k \in Nat, k \in Done PROVE k + 1 \in Done
  <2>1. PICK f : Unfolds(f, w, k)
        BY <1>2
  <2> DEFINE g == [s \in SUBSET (1..(k + 1)) |->
                      IF k + 1 \in s THEN f[s \ {k + 1}] + w[k + 1] ELSE f[s]]
  <2>2. ASSUME NEW s \in SUBSET (1..(k + 1))
        PROVE  g[s] = IF s = {} THEN 0 ELSE g[s \ {Max(s)}] + w[Max(s)]
    <3>1. CASE k + 1 \in s
      <4>1. Max(s) = k + 1
            BY <3>1, MaxIs
      <4>2. s \ {k + 1} \in SUBSET (1..(k + 1)) /\ k + 1 \notin s \ {k + 1}
            OBVIOUS
      <4>3. g[s \ {k + 1}] = f[s \ {k + 1}]
            BY <4>2
      <4>4. g[s] = f[s \ {k + 1}] + w[k + 1]
            BY <3>1
      <4>5. s # {}
            BY <3>1
      <4> HIDE DEF g
      <4> QED BY <4>1, <4>3, <4>4, <4>5
    <3>2. CASE k + 1 \notin s
      <4>1. s \in SUBSET (1..k)
            BY <3>2
      <4>2. g[s] = f[s]
            BY <3>2
      <4>3. f[s] = IF s = {} THEN 0 ELSE f[s \ {Max(s)}] + w[Max(s)]
            BY <2>1, <4>1, Zenon DEF Unfolds
      <4>4. s \ {Max(s)} \in SUBSET (1..(k + 1)) /\ k + 1 \notin s \ {Max(s)}
            BY <3>2
      <4>5. g[s \ {Max(s)}] = f[s \ {Max(s)}]
            BY <4>4
      <4> HIDE DEF g
      <4> QED BY <4>2, <4>3, <4>5
    <3> QED BY <3>1, <3>2
  <2>3. g = [s \in SUBSET (1..(k + 1)) |-> g[s]]
        OBVIOUS
  <2>4. Unfolds(g, w, k + 1)
    <3> HIDE DEF g
    <3> QED BY <2>2, <2>3, Zenon DEF Unfolds
  <2> QED BY <2>4
<1>3. Nat \subseteq Done
  <2> HIDE DEF Done
  <2> QED BY <1>1, <1>2, NatInSet
<1> QED BY <1>3

\* All tables for the same weights agree on the sets they share.
LEMMA UnfoldsAgree ==
    ASSUME NEW v, NEW w, NEW m \in Nat, NEW n \in Nat, m <= n, Agree(v, w, m),
           NEW f, Unfolds(f, v, m), NEW g, Unfolds(g, w, n)
    PROVE  f[1..m] = g[1..m]
<1> DEFINE Same == {k \in Nat : k <= m => f[1..k] = g[1..k]}
<1>1. 0 \in Same
  <2>1. 1..0 = {}
        OBVIOUS
  <2>2. f[{}] = 0
        BY Zenon DEF Unfolds
  <2>3. g[{}] = 0
        BY Zenon DEF Unfolds
  <2> QED BY <2>1, <2>2, <2>3
<1>2. ASSUME NEW k \in Nat, k \in Same PROVE k + 1 \in Same
  <2> SUFFICES ASSUME k + 1 <= m PROVE f[1..(k + 1)] = g[1..(k + 1)]
      OBVIOUS
  <2> DEFINE s == 1..(k + 1)
  <2>1. s # {} /\ s \ {k + 1} = 1..k /\ k + 1 \in s
    <3>1. k + 1 \in s
          OBVIOUS
    <3>2. s \ {k + 1} = 1..k
          OBVIOUS
    <3> QED BY <3>1, <3>2
  <2>2. s \in SUBSET (1..m) /\ s \in SUBSET (1..n) /\ k + 1 \in 1..m
        OBVIOUS
  <2>3. Max(s) = k + 1
        BY <2>1, MaxIs
  <2>4. f[s] = f[s \ {Max(s)}] + v[Max(s)]
        BY <2>1, <2>2, Zenon DEF Unfolds
  <2>5. g[s] = g[s \ {Max(s)}] + w[Max(s)]
        BY <2>1, <2>2, Zenon DEF Unfolds
  <2>6. f[1..k] = g[1..k] /\ v[k + 1] = w[k + 1]
        BY <1>2, <2>2 DEF Agree
  <2> HIDE DEF s
  <2>7. f[s] = f[1..k] + v[k + 1] /\ g[s] = g[1..k] + w[k + 1]
        BY <2>1, <2>3, <2>4, <2>5
  <2> QED BY <2>2, <2>6, <2>7 DEF s
<1>3. Nat \subseteq Same
  <2> HIDE DEF Same
  <2> QED BY <1>1, <1>2, NatInSet
<1>4. m \in Same
      BY <1>3
<1> QED BY <1>4

\* A sum is what any table says of the whole set of indices.
LEMMA TotalIs ==
    ASSUME NEW w, NEW n \in Nat, NEW f, Unfolds(f, w, n)
    PROVE  Total(w, n) = f[1..n]
<1>1. PICK g : Unfolds(g, w, n) /\ Total(w, n) = g[1..n]
      BY UnfoldsExists, Zenon DEF Total
<1>2. n <= n /\ Agree(w, w, n)
      BY DEF Agree
<1>3. f[1..n] = g[1..n]
      BY <1>1, <1>2, UnfoldsAgree
<1> QED BY <1>1, <1>3

\* The sum of the first elements needs no more than them.
LEMMA TotalSame ==
    ASSUME NEW v, NEW w, NEW n \in Nat, Agree(v, w, n)
    PROVE  Total(v, n) = Total(w, n)
<1>1. PICK f : Unfolds(f, v, n)
      BY UnfoldsExists
<1>2. PICK g : Unfolds(g, w, n)
      BY UnfoldsExists
<1>3. f[1..n] = g[1..n]
  <2>1. n <= n
        OBVIOUS
  <2> QED BY <1>1, <1>2, <2>1, UnfoldsAgree
<1>4. Total(v, n) = f[1..n] /\ Total(w, n) = g[1..n]
      BY <1>1, <1>2, TotalIs
<1> QED BY <1>3, <1>4

\* The sum of nothing.
LEMMA TotalNone == ASSUME NEW w PROVE Total(w, 0) = 0
<1>1. PICK f : Unfolds(f, w, 0)
      BY UnfoldsExists
<1>2. 1..0 = {} /\ Total(w, 0) = f[1..0]
      BY <1>1, TotalIs
<1>3. f[{}] = 0
      BY <1>1, Zenon DEF Unfolds
<1> QED BY <1>2, <1>3

\* One more element adds its weight.
LEMMA TotalNext ==
    ASSUME NEW w, NEW n \in Nat
    PROVE  Total(w, n + 1) = Total(w, n) + w[n + 1]
<1>1. PICK f : Unfolds(f, w, n)
      BY UnfoldsExists
<1>2. PICK g : Unfolds(g, w, n + 1)
      BY UnfoldsExists
<1>3. f[1..n] = g[1..n]
  <2>1. n + 1 \in Nat /\ n <= n + 1 /\ Agree(w, w, n)
        BY DEF Agree
  <2> QED BY <1>1, <1>2, <2>1, UnfoldsAgree
<1> DEFINE s == 1..(n + 1)
<1>4. s # {} /\ s \ {n + 1} = 1..n /\ n + 1 \in s /\ s \in SUBSET (1..(n + 1))
      OBVIOUS
<1>5. Max(s) = n + 1
      BY <1>4, MaxIs
<1>6. g[s] = g[s \ {Max(s)}] + w[Max(s)]
      BY <1>2, <1>4, Zenon DEF Unfolds
<1>7. Total(w, n) = f[1..n] /\ Total(w, n + 1) = g[s]
      BY <1>1, <1>2, TotalIs
<1> QED BY <1>3, <1>4, <1>5, <1>6, <1>7

\* A sum of natural numbers is one.
LEMMA TotalNat ==
    ASSUME NEW w, NEW n \in Nat, \A i \in 1..n : w[i] \in Nat
    PROVE  Total(w, n) \in Nat
<1> DEFINE Sound == {k \in Nat : k <= n => Total(w, k) \in Nat}
<1>1. 0 \in Sound
      BY TotalNone
<1>2. ASSUME NEW k \in Nat, k \in Sound PROVE k + 1 \in Sound
  <2> SUFFICES ASSUME k + 1 <= n PROVE Total(w, k + 1) \in Nat
      OBVIOUS
  <2>1. w[k + 1] \in Nat /\ Total(w, k) \in Nat
        BY <1>2
  <2> QED BY <2>1, TotalNext
<1>3. Nat \subseteq Sound
  <2> HIDE DEF Sound
  <2> QED BY <1>1, <1>2, NatInSet
<1> QED BY <1>3

\* The first element, and the rest of them.
LEMMA TotalFirst ==
    ASSUME NEW v, NEW w, NEW n \in Nat, \A i \in 1..(n + 1) : v[i] \in Nat,
           \A i \in 1..n : w[i] = v[i + 1]
    PROVE  Total(v, n + 1) = v[1] + Total(w, n)
<1> DEFINE Shifts == {k \in Nat : k <= n => Total(v, k + 1) = v[1] + Total(w, k)}
<1>1. 0 \in Shifts
  <2>1. Total(v, 0 + 1) = Total(v, 0) + v[0 + 1]
        BY TotalNext
  <2>2. Total(v, 0) = 0 /\ Total(w, 0) = 0 /\ v[1] \in Nat
        BY TotalNone
  <2> QED BY <2>1, <2>2
<1>2. ASSUME NEW k \in Nat, k \in Shifts PROVE k + 1 \in Shifts
  <2> SUFFICES ASSUME k + 1 <= n PROVE Total(v, (k + 1) + 1) = v[1] + Total(w, k + 1)
      OBVIOUS
  <2>1. Total(v, (k + 1) + 1) = Total(v, k + 1) + v[(k + 1) + 1]
        BY TotalNext
  <2>2. Total(w, k + 1) = Total(w, k) + w[k + 1] /\ w[k + 1] = v[(k + 1) + 1]
        BY TotalNext
  <2>3. Total(w, k) \in Nat
        BY TotalNat
  <2>4. Total(v, k + 1) = v[1] + Total(w, k) /\ v[1] \in Nat /\ v[(k + 1) + 1] \in Nat
        BY <1>2
  <2> QED BY <2>1, <2>2, <2>3, <2>4
<1>3. Nat \subseteq Shifts
  <2> HIDE DEF Shifts
  <2> QED BY <1>1, <1>2, NatInSet
<1> QED BY <1>3

\* The elements up to a place, and those after it.
LEMMA TotalSplit ==
    ASSUME NEW v, NEW w, NEW m \in Nat, NEW n \in Nat, \A i \in 1..(m + n) : v[i] \in Nat,
           \A i \in 1..n : w[i] = v[m + i]
    PROVE  Total(v, m + n) = Total(v, m) + Total(w, n)
<1> DEFINE Splits == {k \in Nat : k <= n => Total(v, m + k) = Total(v, m) + Total(w, k)}
<1>1. 0 \in Splits
  <2>1. Total(v, m) \in Nat
        BY TotalNat
  <2>2. m + 0 = m /\ Total(w, 0) = 0
        BY TotalNone
  <2> QED BY <2>1, <2>2
<1>2. ASSUME NEW k \in Nat, k \in Splits PROVE k + 1 \in Splits
  <2> SUFFICES ASSUME k + 1 <= n
               PROVE  Total(v, m + (k + 1)) = Total(v, m) + Total(w, k + 1)
      OBVIOUS
  <2>1. m + (k + 1) = (m + k) + 1 /\ m + k \in Nat
        OBVIOUS
  <2>2. Total(v, m + (k + 1)) = Total(v, m + k) + v[m + (k + 1)]
        BY <2>1, TotalNext
  <2>3. Total(w, k + 1) = Total(w, k) + w[k + 1] /\ w[k + 1] = v[m + (k + 1)]
        BY TotalNext
  <2>4. Total(w, k) \in Nat /\ Total(v, m) \in Nat
        BY TotalNat
  <2>5. Total(v, m + k) = Total(v, m) + Total(w, k) /\ v[m + (k + 1)] \in Nat
        BY <1>2
  <2> QED BY <2>2, <2>3, <2>4, <2>5
<1>3. Nat \subseteq Splits
  <2> HIDE DEF Splits
  <2> QED BY <1>1, <1>2, NatInSet
<1> QED BY <1>3

\* The weights w are those of u, up to m, and then those of v, up to n.
Joins(u, m, v, n, w) ==
    /\ m \in Nat /\ n \in Nat
    /\ \A i \in 1..(m + n) : w[i] \in Nat
    /\ Agree(u, w, m)
    /\ \A i \in 1..n : v[i] = w[m + i]
LEMMA TotalJoined ==
    ASSUME NEW u, NEW m, NEW v, NEW n, NEW w, Joins(u, m, v, n, w)
    PROVE  Total(w, m + n) = Total(u, m) + Total(v, n)
<1>1. m \in Nat /\ n \in Nat /\ Agree(u, w, m)
      BY DEF Joins
<1>2. Total(w, m + n) = Total(w, m) + Total(v, n)
      BY <1>1, TotalSplit DEF Joins
<1>3. Total(u, m) = Total(w, m)
      BY <1>1, TotalSame
<1> QED BY <1>2, <1>3

\* A sum that is written as a fold is a total.
LEMMA FoldIsTotal ==
    ASSUME NEW s, NEW n \in Nat, DOMAIN s = 1..n
    PROVE  FoldLeft(LAMBDA sum, m : sum + m, 0, s) = Total(s, n)
<1> DEFINE P(f) == f = [t \in SUBSET (1..n) |->
                         IF t = {} THEN 0 ELSE f[t \ {Max(t)}] + s[Max(t)]]
<1>1. PICK h : Unfolds(h, s, n)
      BY UnfoldsExists
<1>2. \A g : P(g) <=> Unfolds(g, s, n)
      BY Zenon DEF Unfolds
<1>3. FoldLeft(LAMBDA sum, m : sum + m, 0, s) = (CHOOSE f : P(f))[1..n]
      BY DEF FoldLeft, MapThenFoldSet
<1>4. P(CHOOSE f : P(f))
      BY <1>1, <1>2, Zenon
<1> HIDE DEF P
<1>5. Unfolds(CHOOSE f : P(f), s, n)
      BY <1>2, <1>4, Zenon
<1>6. Total(s, n) = (CHOOSE f : P(f))[1..n]
      BY <1>5, TotalIs
<1> QED BY <1>3, <1>6

\* The smallest of some natural numbers is one of them.
LEMMA SmallestIs ==
    ASSUME NEW S \in SUBSET Nat, S # {}
    PROVE  Min(S) \in S /\ \A n \in S : Min(S) <= n
<1>1. PICK x \in S : \A y \in S : ~ (<<y, x>> \in OpToRel(<, Nat))
      BY NatLessThanWellFounded, WFMin
<1>2. \A y \in S : x <= y
  <2> SUFFICES ASSUME NEW y \in S, y < x PROVE FALSE
      OBVIOUS
  <2>1. <<y, x>> \in OpToRel(<, Nat)
        BY DEF OpToRel
  <2> QED BY <1>1, <2>1
<1> QED BY <1>1, <1>2 DEF Min

\* The least of two numbers.
LEMMA LeastOfTwo ==
    ASSUME NEW a \in Nat, NEW b \in Nat
    PROVE  Min({a, b}) = IF a <= b THEN a ELSE b
<1>1. Min({a, b}) \in {a, b} /\ \A n \in {a, b} : Min({a, b}) <= n
      BY SmallestIs
<1> QED BY <1>1

-----------------------------------------------------------------------------
\* g is what a loop of k rounds computes from x: the round i makes F[i][y] of y.
Iterates(g, F, x, k) == g = [i \in 0..k |-> IF i = 0 THEN x ELSE F[i][g[i - 1]]]

\* A loop with a body that stays in a set computes something, in the set.
LEMMA IteratesExist ==
    ASSUME NEW D, NEW x \in D, NEW k \in Nat, NEW F \in [1..k -> [D -> D]]
    PROVE  \E g \in [0..k -> D] : Iterates(g, F, x, k)
<1> DEFINE To(g, m) == \A i \in 0..m : g[i] = IF i = 0 THEN x ELSE F[i][g[i - 1]]
           Done == {m \in Nat : m <= k => \E g \in [0..m -> D] : To(g, m)}
<1>1. 0 \in Done
  <2> DEFINE g == [i \in 0..0 |-> x]
  <2>1. g \in [0..0 -> D] /\ To(g, 0)
        OBVIOUS
  <2> QED BY <2>1
<1>2. ASSUME NEW m \in Nat, m \in Done PROVE m + 1 \in Done
  <2> SUFFICES ASSUME m + 1 <= k PROVE \E g \in [0..(m + 1) -> D] : To(g, m + 1)
      OBVIOUS
  <2>1. PICK g \in [0..m -> D] : To(g, m)
        BY <1>2
  <2> DEFINE h == [i \in 0..(m + 1) |-> IF i <= m THEN g[i] ELSE F[m + 1][g[m]]]
  <2>2. g[m] \in D /\ m + 1 \in 1..k
        BY <2>1
  <2>3. F[m + 1][g[m]] \in D
        BY <2>2
  <2>4. h \in [0..(m + 1) -> D]
        BY <2>1, <2>3
  <2>5. ASSUME NEW i \in 0..(m + 1) PROVE h[i] = IF i = 0 THEN x ELSE F[i][h[i - 1]]
    <3>1. CASE i <= m
      <4>1. i \in 0..m /\ h[i] = g[i]
            BY <3>1
      <4>2. i # 0 => i - 1 \in 0..(m + 1) /\ h[i - 1] = g[i - 1]
            BY <3>1
      <4> HIDE DEF h
      <4> QED BY <2>1, <4>1, <4>2
    <3>2. CASE i = m + 1
      <4>1. h[i] = F[m + 1][g[m]] /\ h[i - 1] = g[m] /\ i # 0
            BY <3>2
      <4> HIDE DEF h
      <4> QED BY <4>1, <3>2
    <3> QED BY <3>1, <3>2
  <2> HIDE DEF h
  <2> QED BY <2>4, <2>5
<1>3. Nat \subseteq Done
  <2> HIDE DEF Done
  <2> QED BY <1>1, <1>2, NatInSet
<1>4. PICK g \in [0..k -> D] : To(g, k)
      BY <1>3
<1> QED BY <1>4 DEF Iterates

\* What holds at first and is kept by every round holds in all of them.
LEMMA IteratesStay ==
    ASSUME NEW D, NEW k \in Nat, NEW f, f[0] \in D,
           \A i \in 1..k : f[i - 1] \in D => f[i] \in D
    PROVE  \A i \in 0..k : f[i] \in D
<1> DEFINE Done == {m \in Nat : m <= k => f[m] \in D}
<1>1. 0 \in Done
      OBVIOUS
<1>2. ASSUME NEW m \in Nat, m \in Done PROVE m + 1 \in Done
  <2>1. ASSUME m + 1 <= k PROVE f[m + 1] \in D
    <3>1. m + 1 \in 1..k /\ (m + 1) - 1 = m /\ f[m] \in D
          BY <1>2, <2>1
    <3> QED BY <3>1
  <2> QED BY <2>1
<1>3. Nat \subseteq Done
  <2> HIDE DEF Done
  <2> QED BY <1>1, <1>2, NatInSet
<1> QED BY <1>3

-----------------------------------------------------------------------------
(* Ends, prefixes, and what is left when one is removed *)

\* The last element of a sequence.
LEMMA LastIs == ASSUME NEW R, NEW q \in Seq(R), q # <<>>
                PROVE  Last(q) = q[Len(q)] /\ q[Len(q)] \in R
BY DEF Last

\* What was written stays a prefix, of what is accepted and of itself.
LEMMA PrefixIs ==
    ASSUME NEW R, NEW r \in Seq(R), NEW q \in Seq(R)
    PROVE  IsPrefix(r, q) <=> Len(r) <= Len(q) /\ \A i \in 1..Len(r) : r[i] = q[i]
<1>1. CASE Len(r) <= Len(q)
  <2>1. SubSeq(r, 1, Len(r)) = r
        OBVIOUS
  <2>2. /\ SubSeq(q, 1, Len(r)) \in Seq(R) /\ Len(SubSeq(q, 1, Len(r))) = Len(r)
        /\ \A i \in 1..Len(r) : SubSeq(q, 1, Len(r))[i] = q[i]
        BY <1>1
  <2>3. r = SubSeq(q, 1, Len(r)) <=> \A i \in 1..Len(r) : r[i] = q[i]
        BY <2>2
  <2> QED BY <1>1, <2>1, <2>3 DEF IsPrefix
<1>2. CASE ~(Len(r) <= Len(q))
      BY <1>2 DEF IsPrefix
<1> QED BY <1>1, <1>2

\* The beginning of a sequence is a prefix of it.
LEMMA PrefixJoined ==
    ASSUME NEW R, NEW r \in Seq(R), NEW q \in Seq(R)
    PROVE  IsPrefix(r, r \o q)
<1>1. r \o q \in Seq(R) /\ Len(r) <= Len(r \o q) /\ \A i \in 1..Len(r) : (r \o q)[i] = r[i]
      OBVIOUS
<1> QED BY <1>1, PrefixIs

\* An element moved from the head of a sequence to the end of another
LEMMA MovedOver ==
    ASSUME NEW R, NEW r \in Seq(R), NEW q \in Seq(R), q # <<>>
    PROVE  r \o q = Append(r, q[1]) \o Tail(q) /\ (r \o q)[Len(r) + 1] = q[1]
<1>1. q[1] \in R /\ Tail(q) \in Seq(R) /\ q = <<q[1]>> \o Tail(q) /\ <<q[1]>> \in Seq(R)
      OBVIOUS
<1>2. Append(r, q[1]) = r \o <<q[1]>>
      BY <1>1, AppendIsConcat
<1>3. (r \o <<q[1]>>) \o Tail(q) = r \o (<<q[1]>> \o Tail(q))
      BY <1>1, ConcatAssociative
<1>4. (r \o q)[Len(r) + 1] = q[1]
      OBVIOUS
<1> QED BY <1>1, <1>2, <1>3, <1>4

\* t is s without the element in place i.
Lacks(t, s, R, i) == s \in Seq(R) /\ i \in 1..Len(s) /\ t = SubSeq(s, 1, i - 1) \o SubSeq(s, i + 1, Len(s))

\* A sequence without the one in a place is the others, in their order.
LEMMA RemovedIs ==
    ASSUME NEW R, NEW s, NEW i, NEW t, Lacks(t, s, R, i)
    PROVE  /\ t \in Seq(R) /\ Len(t) = Len(s) - 1 /\ DOMAIN t = 1..(Len(s) - 1)
           /\ \A j \in 1..(Len(s) - 1) : t[j] = s[IF j < i THEN j ELSE j + 1]
<1> DEFINE n == Len(s)
           place(j) == IF j < i THEN j ELSE j + 1
<1>1. n \in Nat /\ DOMAIN s = 1..n /\ i \in 1..n /\ s \in Seq(R)
      BY DEF Lacks
<1> DEFINE a == SubSeq(s, 1, i - 1)
           b == SubSeq(s, i + 1, n)
<1>2. a \in Seq(R) /\ Len(a) = i - 1 /\ \A j \in 1..(i - 1) : a[j] = s[j]
      BY <1>1
<1>3. b \in Seq(R) /\ Len(b) = n - i /\ \A j \in 1..(n - i) : b[j] = s[i + j]
  <2>1. b \in Seq(R) /\ Len(b) = n - i
    <3>1. i + 1 \in Int /\ n \in Int /\ \A k \in (i + 1)..n : s[k] \in R
          BY <1>1
    <3>2. b \in Seq(R) /\ Len(b) = IF i + 1 <= n THEN n - (i + 1) + 1 ELSE 0
          BY <3>1, SubSeqProperties
    <3> HIDE DEF b
    <3>3. n \in Nat /\ i \in 1..n
          BY <1>1
    <3> QED BY <3>2, <3>3
  <2>2. \A j \in 1..(n - i) : b[j] = s[i + j]
        BY <1>1
  <2> QED BY <2>1, <2>2
<1>4. t = a \o b
      BY DEF Lacks
<1> HIDE DEF a, b
<1>5. t \in Seq(R) /\ Len(t) = n - 1
  <2>1. t \in Seq(R)
        BY <1>2, <1>3, <1>4
  <2>2. a \in Seq(R) /\ b \in Seq(R)
        BY <1>2, <1>3
  <2>3. Len(a \o b) = Len(a) + Len(b)
        BY <2>2, ConcatProperties
  <2> QED BY <1>1, <1>2, <1>3, <1>4, <2>1, <2>3
<1>6. ASSUME NEW j \in 1..(n - 1)
      PROVE  t[j] = s[place(j)]
  <2>1. CASE j < i
        BY <1>1, <1>2, <1>3, <1>4, <2>1
  <2>2. CASE ~(j < i)
    <3>1. t[j] = b[j - (i - 1)] /\ j - (i - 1) \in 1..(n - i)
          BY <1>1, <1>2, <1>3, <1>4, <2>2
    <3> QED BY <1>1, <1>3, <2>2, <3>1
  <2> QED BY <2>1, <2>2
<1>7. DOMAIN t = 1..(n - 1)
      BY <1>5
<1> QED BY <1>5, <1>6, <1>7

\* The others stay.
LEMMA OthersStay ==
    ASSUME NEW R, NEW s, NEW i, NEW t, Lacks(t, s, R, i), NEW j \in DOMAIN s, j # i
    PROVE  s[j] \in ToSet(t)
<1> DEFINE k == IF j < i THEN j ELSE j - 1
<1>1. Len(s) \in Nat /\ DOMAIN s = 1..Len(s) /\ i \in 1..Len(s)
      BY DEF Lacks
<1>2. k \in 1..(Len(s) - 1) /\ s[j] = s[IF k < i THEN k ELSE k + 1]
      BY <1>1
<1>3. k \in DOMAIN t /\ t[k] = s[j]
      BY <1>2, RemovedIs
<1> QED BY <1>3 DEF ToSet

\* Adding at the end of the second of two sequences is adding at the end.
LEMMA AppendBehind ==
    ASSUME NEW R, NEW r \in Seq(R), NEW q \in Seq(R), NEW e \in R
    PROVE  r \o Append(q, e) = Append(r \o q, e)
<1>1. <<e>> \in Seq(R) /\ r \o q \in Seq(R) OBVIOUS
<1>2. Append(q, e) = q \o <<e>> /\ Append(r \o q, e) = (r \o q) \o <<e>> BY <1>1, AppendIsConcat
<1>3. (r \o q) \o <<e>> = r \o (q \o <<e>>) BY <1>1, ConcatAssociative
<1> QED BY <1>2, <1>3

\* A bag of single things is as its set.
LEMMA SingleBag ==
    ASSUME NEW S
    PROVE  /\ BagToSet(SetToBag(S)) = S
           /\ \A r : r \notin S => SetToBag(S) (+) SetToBag({r}) = SetToBag(S \cup {r})
           /\ \A r \in S : SetToBag(S) (-) SetToBag({r}) = SetToBag(S \ {r})
<1>1. BagToSet(SetToBag(S)) = S BY DEF BagToSet, SetToBag
<1>2. ASSUME NEW r, r \notin S PROVE SetToBag(S) (+) SetToBag({r}) = SetToBag(S \cup {r})
    BY <1>2 DEF SetToBag, (+)
<1>3. ASSUME NEW r \in S PROVE SetToBag(S) (-) SetToBag({r}) = SetToBag(S \ {r})
  <2> DEFINE B == [e \in S |-> IF e \in {r} THEN 1 - 1 ELSE 1]
  <2>1. SetToBag(S) (-) SetToBag({r}) = [e \in {d \in S : B[d] > 0} |-> B[e]] BY <1>3 DEF SetToBag, (-)
  <2>2. {d \in S : B[d] > 0} = S \ {r} OBVIOUS
  <2>3. \A e \in S \ {r} : B[e] = 1 OBVIOUS
  <2> HIDE DEF B
  <2> QED BY <2>1, <2>2, <2>3 DEF SetToBag
<1> QED BY <1>1, <1>2, <1>3

\* The remainders that the numbers of requests need.
LEMMA Remainder ==
    ASSUME NEW n \in Nat \ {0}, NEW a \in 0..(n - 1)
    PROVE  a % n = a /\ (a + n) % n = a
    OBVIOUS

\* What was sent before is the first to leave the history.
LEMMA FirstRemoved ==
    ASSUME NEW R, NEW s \in Seq(R), NEW e
    PROVE  \/ RemoveFirst(s, e) = s /\ \A i \in 1..Len(s) : s[i] # e
           \/ \E i \in 1..Len(s) : s[i] = e /\ RemoveFirst(s, e) = SubSeq(s, 1, i - 1) \o SubSeq(s, i + 1, Len(s))
<1> DEFINE same == {i \in 1..Len(s) : s[i] = e}
<1>1. CASE same = {}
      BY <1>1, Zenon DEF RemoveFirst
<1>2. CASE same # {}
  <2>1. same \subseteq Nat
        OBVIOUS
  <2> DEFINE k == CHOOSE x \in same : \A y \in same : x =< y
  <2>2. k \in same
    <3>1. \E x \in same : \A y \in same : x <= y
      <4> HIDE DEF same
      <4> QED BY <1>2, <2>1, SmallestIs
    <3> HIDE DEF same
    <3> QED BY <3>1
  <2>3. SelectInSeq(s, LAMBDA v : v = e) = k
        BY <1>2 DEF SelectInSeq, Min
  <2>4. \E i \in 1..Len(s) : s[i] = e
        BY <1>2
  <2> HIDE DEF k
  <2>5. RemoveFirst(s, e) = RemoveAt(s, k)
        BY <2>3, <2>4 DEF RemoveFirst
  <2> QED BY <2>2, <2>5 DEF RemoveAt
<1> QED BY <1>1, <1>2

-----------------------------------------------------------------------------
(* Texts of numbered references *)

\* Texts of references, each a file and a number: they are all of one file, up to n; those
\* in R, and the others, come in the order of their numbers, and none is missing from the
\* first of each to the last.
AllFrom(T, file, n) ==
    \A t \in 1..Len(T) : \A p \in 1..Len(T[t]) : \E i \in 1..n : T[t][p] = <<file, i>>
Ascending(T, R) ==
    \A t, u \in 1..Len(T) : \A p \in 1..Len(T[t]), q \in 1..Len(T[u]) :
        (T[t][p] \in R <=> T[u][q] \in R) /\ (t < u \/ (t = u /\ p < q)) => T[t][p][2] < T[u][q][2]
NoneMissing(T, file, n, R) ==
    \A t \in 1..Len(T) : \A p \in 1..Len(T[t]) : \A i \in T[t][p][2]..n :
        (<<file, i>> \in R <=> T[t][p] \in R) =>
            \E u \in 1..Len(T) : \E q \in 1..Len(T[u]) : T[u][q] = <<file, i>>
LatestIn(T, file, n, R) == AllFrom(T, file, n) /\ Ascending(T, R) /\ NoneMissing(T, file, n, R)

\* An index up to k + 1 is the last one, or one of those before.
LEMMA LastOrBefore ==
    \A k \in Nat : \A p \in 1..(k + 1) : p = k + 1 \/ (p \in 1..k /\ p < k + 1)
OBVIOUS

\* The next one goes to the end of the last text.
LEMMA LatestGrows ==
    ASSUME NEW S, NEW R, NEW T \in Seq(Seq(S)), NEW file, NEW n \in Nat, LatestIn(T, file, n, R), Len(T) > 0,
           NEW U \in Seq(Seq(S)), Len(U) = Len(T), \A t \in 1..(Len(T) - 1) : U[t] = T[t],
           U[Len(T)] = Append(T[Len(T)], <<file, n + 1>>)
    PROVE  LatestIn(U, file, n + 1, R)
<1> DEFINE N == Len(T)
           last == Len(T[N]) + 1
           r == <<file, n + 1>>
<1>1. AllFrom(T, file, n) /\ Ascending(T, R) /\ NoneMissing(T, file, n, R)
      BY DEF LatestIn
<1>2. N \in Nat /\ N \in 1..N /\ Len(U) = N /\ T[N] \in Seq(S) /\ Len(T[N]) \in Nat /\ last \in Nat
      OBVIOUS
<1>3. Len(U[N]) = last /\ U[N][last] = r /\ \A p \in 1..Len(T[N]) : U[N][p] = T[N][p]
      BY <1>2
<1>4. ASSUME NEW t \in 1..N, NEW p \in 1..Len(U[t])
      PROVE  \/ t = N /\ p = last /\ U[t][p] = r
             \/ p \in 1..Len(T[t]) /\ U[t][p] = T[t][p] /\ (t = N => p < last)
  <2>1. CASE t = N
    <3>1. U[t] = U[N] /\ T[t] = T[N]
          BY <2>1
    <3> DEFINE k == Len(T[N])
    <3>2. p \in 1..(k + 1) /\ k \in Nat
          BY <1>2, <1>3, <3>1
    <3> HIDE DEF k
    <3>3. p = k + 1 \/ (p \in 1..k /\ p < k + 1)
          BY <3>2, LastOrBefore
    <3>4. CASE p = k + 1
          BY <1>3, <2>1, <3>1, <3>4 DEF k
    <3>5. CASE p \in 1..k /\ p < k + 1
          BY <1>3, <2>1, <3>1, <3>5 DEF k
    <3> QED BY <3>3, <3>4, <3>5
  <2>2. CASE t # N
    <3>1. t \in 1..(N - 1)
          BY <1>2, <2>2
    <3> QED BY <2>2, <3>1
  <2> QED BY <2>1, <2>2
<1>5. \A t \in 1..N : \A p \in 1..Len(T[t]) : p \in 1..Len(U[t]) /\ U[t][p] = T[t][p]
  <2> SUFFICES ASSUME NEW t \in 1..N, NEW p \in 1..Len(T[t]) PROVE p \in 1..Len(U[t]) /\ U[t][p] = T[t][p]
      OBVIOUS
  <2>1. CASE t = N
    <3>1. U[t] = U[N] /\ T[t] = T[N]
          BY <2>1
    <3> DEFINE k == Len(T[N])
    <3>2. p \in 1..k /\ k \in Nat /\ Len(U[t]) = k + 1
          BY <1>2, <1>3, <3>1
    <3>3. U[t][p] = T[t][p]
          BY <1>3, <3>1, <3>2
    <3> HIDE DEF k
    <3> QED BY <3>2, <3>3
  <2>2. CASE t # N
    <3>1. t \in 1..(N - 1)
          BY <1>2, <2>2
    <3> QED BY <2>2, <3>1
  <2> QED BY <2>1, <2>2
<1>6. r[1] = file /\ r[2] = n + 1
      OBVIOUS
<1> HIDE DEF r, last
<1>7. AllFrom(U, file, n + 1)
  <2> SUFFICES ASSUME NEW t \in 1..N, NEW p \in 1..Len(U[t])
               PROVE  \E i \in 1..(n + 1) : U[t][p] = <<file, i>>
      BY <1>2 DEF AllFrom
  <2>1. CASE U[t][p] = r
        BY <2>1 DEF r
  <2>2. CASE p \in 1..Len(T[t]) /\ U[t][p] = T[t][p]
    <3>1. PICK i \in 1..n : T[t][p] = <<file, i>>
          BY <1>1, <2>2 DEF AllFrom
    <3> QED BY <2>2, <3>1
  <2> QED BY <1>4, <2>1, <2>2
<1>8. ASSUME NEW t \in 1..N, NEW p \in 1..Len(T[t]) PROVE T[t][p][2] \in 1..n
  <2>1. PICK i \in 1..n : T[t][p] = <<file, i>>
        BY <1>1, <1>8 DEF AllFrom
  <2> QED BY <2>1
<1>9. Ascending(U, R)
  <2> SUFFICES ASSUME NEW t \in 1..N, NEW u \in 1..N, NEW p \in 1..Len(U[t]), NEW q \in 1..Len(U[u]),
                      (U[t][p] \in R <=> U[u][q] \in R), t < u \/ (t = u /\ p < q)
               PROVE  U[t][p][2] < U[u][q][2]
      BY <1>2 DEF Ascending
  <2>1. ~(t = N /\ p = last)
    <3> SUFFICES ASSUME t = N, p = last PROVE FALSE
        OBVIOUS
    <3> QED BY <1>2, <1>3
  <2>2. p \in 1..Len(T[t]) /\ U[t][p] = T[t][p]
        BY <1>4, <2>1
  <2>3. CASE U[u][q] = r
    <3>1. U[u][q][2] = n + 1
          BY <1>6, <2>3
    <3>2. U[t][p][2] \in 1..n
          BY <1>8, <2>2
    <3> DEFINE a == U[t][p][2]
               b == U[u][q][2]
    <3>3. a \in 1..n /\ b = n + 1
          BY <3>1, <3>2
    <3> HIDE DEF a, b
    <3>4. a < b
          BY <3>3
    <3> QED BY <3>4 DEF a, b
  <2>4. CASE q \in 1..Len(T[u]) /\ U[u][q] = T[u][q]
        BY <1>1, <2>2, <2>4 DEF Ascending
  <2> QED BY <1>4, <2>3, <2>4
<1>10. NoneMissing(U, file, n + 1, R)
  <2> SUFFICES ASSUME NEW t \in 1..N, NEW p \in 1..Len(U[t]), NEW i \in U[t][p][2]..(n + 1),
                      <<file, i>> \in R <=> U[t][p] \in R
               PROVE  \E u \in 1..N : \E q \in 1..Len(U[u]) : U[u][q] = <<file, i>>
      BY <1>2 DEF NoneMissing
  <2>1. CASE i = n + 1
    <3>1. last \in 1..Len(U[N])
          BY <1>2, <1>3 DEF last
    <3> QED BY <1>2, <1>3, <2>1, <3>1 DEF r
  <2>2. CASE i # n + 1
    <3>1. U[t][p] # r
          BY <1>6, <2>2
    <3>2. p \in 1..Len(T[t]) /\ U[t][p] = T[t][p] /\ T[t][p][2] \in 1..n
          BY <1>4, <1>8, <3>1
    <3>3. i \in T[t][p][2]..n
          BY <2>2, <3>2
    <3>4. PICK u \in 1..N : \E q \in 1..Len(T[u]) : T[u][q] = <<file, i>>
          BY <1>1, <3>2, <3>3 DEF NoneMissing
    <3>5. PICK q \in 1..Len(T[u]) : T[u][q] = <<file, i>>
          BY <3>4
    <3> QED BY <1>5, <3>5
  <2> QED BY <2>1, <2>2
<1> QED BY <1>2, <1>7, <1>9, <1>10 DEF LatestIn

\* A new text, with nothing in it yet, comes last.
LEMMA LatestPadded ==
    ASSUME NEW S, NEW R, NEW T \in Seq(Seq(S)), NEW file, NEW n \in Nat, LatestIn(T, file, n, R),
           NEW U \in Seq(Seq(S)), Len(U) = Len(T) + 1, \A t \in 1..Len(T) : U[t] = T[t],
           U[Len(T) + 1] = <<>>
    PROVE  LatestIn(U, file, n, R)
<1>1. AllFrom(T, file, n) /\ Ascending(T, R) /\ NoneMissing(T, file, n, R)
      BY DEF LatestIn
<1>2. Len(T) \in Nat
      OBVIOUS
<1>3. ASSUME NEW t \in 1..Len(U), NEW p \in 1..Len(U[t])
      PROVE  t \in 1..Len(T) /\ p \in 1..Len(T[t]) /\ U[t] = T[t]
  <2>1. t # Len(T) + 1
    <3> SUFFICES ASSUME t = Len(T) + 1 PROVE FALSE
        OBVIOUS
    <3>1. U[t] = <<>>
          OBVIOUS
    <3>2. Len(U[t]) = 0
          BY <3>1
    <3> QED BY <3>2
  <2>2. t \in 1..Len(T)
        BY <1>2, <2>1
  <2> QED BY <2>2
<1>4. \A t \in 1..Len(T) : t \in 1..Len(U) /\ U[t] = T[t]
      BY <1>2
<1>5. AllFrom(U, file, n)
      BY <1>1, <1>3 DEF AllFrom
<1>6. Ascending(U, R)
      BY <1>1, <1>3 DEF Ascending
<1>7. NoneMissing(U, file, n, R)
  <2> SUFFICES ASSUME NEW t \in 1..Len(U), NEW p \in 1..Len(U[t]), NEW i \in U[t][p][2]..n,
                      <<file, i>> \in R <=> U[t][p] \in R
               PROVE  \E u \in 1..Len(U) : \E q \in 1..Len(U[u]) : U[u][q] = <<file, i>>
      BY DEF NoneMissing
  <2>1. PICK u \in 1..Len(T) : \E q \in 1..Len(T[u]) : T[u][q] = <<file, i>>
        BY <1>1, <1>3 DEF NoneMissing
  <2> QED BY <1>4, <2>1
<1> QED BY <1>5, <1>6, <1>7 DEF LatestIn

\* The first texts leave.
LEMMA LatestShifted ==
    ASSUME NEW S, NEW R, NEW T \in Seq(Seq(S)), NEW file, NEW n \in Nat, LatestIn(T, file, n, R), NEW k \in Nat,
           NEW U \in Seq(Seq(S)), Len(U) + k = Len(T), \A t \in 1..Len(U) : U[t] = T[k + t]
    PROVE  LatestIn(U, file, n, R)
<1>1. AllFrom(T, file, n) /\ Ascending(T, R) /\ NoneMissing(T, file, n, R)
      BY DEF LatestIn
<1>2. Len(T) \in Nat /\ Len(U) \in Nat
      OBVIOUS
<1>3. ASSUME NEW t \in 1..Len(U)
      PROVE  k + t \in 1..Len(T) /\ U[t] = T[k + t]
      BY <1>2
<1>4. AllFrom(U, file, n)
  <2> SUFFICES ASSUME NEW t \in 1..Len(U), NEW p \in 1..Len(U[t])
               PROVE  \E i \in 1..n : U[t][p] = <<file, i>>
      BY DEF AllFrom
  <2>1. k + t \in 1..Len(T) /\ U[t] = T[k + t] /\ p \in 1..Len(T[k + t])
        BY <1>3
  <2>2. \E i \in 1..n : T[k + t][p] = <<file, i>>
        BY <1>1, <2>1 DEF AllFrom
  <2> QED BY <2>1, <2>2
<1>5. Ascending(U, R)
  <2> SUFFICES ASSUME NEW t \in 1..Len(U), NEW u \in 1..Len(U), NEW p \in 1..Len(U[t]), NEW q \in 1..Len(U[u]),
                      (U[t][p] \in R <=> U[u][q] \in R), t < u \/ (t = u /\ p < q)
               PROVE  U[t][p][2] < U[u][q][2]
      BY DEF Ascending
  <2>1. k + t < k + u \/ (k + t = k + u /\ p < q)
        BY <1>2
  <2>2. /\ k + t \in 1..Len(T) /\ U[t] = T[k + t] /\ p \in 1..Len(T[k + t])
        /\ k + u \in 1..Len(T) /\ U[u] = T[k + u] /\ q \in 1..Len(T[k + u])
        BY <1>3
  <2> DEFINE a == k + t
             b == k + u
  <2> HIDE DEF a, b
  <2>3. a \in 1..Len(T) /\ b \in 1..Len(T) /\ p \in 1..Len(T[a]) /\ q \in 1..Len(T[b])
        /\ (a < b \/ (a = b /\ p < q)) /\ (T[a][p] \in R <=> T[b][q] \in R)
        BY <2>1, <2>2 DEF a, b
  <2>4. T[a][p][2] < T[b][q][2]
        BY <1>1, <2>3, Zenon DEF Ascending
  <2> QED BY <2>2, <2>4 DEF a, b
<1>6. NoneMissing(U, file, n, R)
  <2> SUFFICES ASSUME NEW t \in 1..Len(U), NEW p \in 1..Len(U[t]), NEW i \in U[t][p][2]..n,
                      <<file, i>> \in R <=> U[t][p] \in R
               PROVE  \E u \in 1..Len(U) : \E q \in 1..Len(U[u]) : U[u][q] = <<file, i>>
      BY DEF NoneMissing
  <2> DEFINE s == <<file, i>>
  <2>1. k + t \in 1..Len(T) /\ U[t] = T[k + t] /\ p \in 1..Len(T[k + t])
        BY <1>3
  <2>2. PICK u \in 1..Len(T) : \E q \in 1..Len(T[u]) : T[u][q] = s
        BY <1>1, <2>1 DEF NoneMissing
  <2>3. PICK q \in 1..Len(T[u]) : T[u][q] = s
        BY <2>2
  <2>4. CASE u > k
    <3>1. u - k \in 1..Len(U) /\ k + (u - k) = u
      <4> DEFINE lt == Len(T)
                 lu == Len(U)
      <4>1. lt \in Nat /\ lu \in Nat /\ lu + k = lt /\ u \in 1..lt
            BY <1>2
      <4> HIDE DEF lt, lu
      <4>2. u - k \in 1..lu /\ k + (u - k) = u
            BY <2>4, <4>1
      <4> QED BY <4>2 DEF lu
    <3>2. U[u - k] = T[u]
          BY <3>1, <1>3
    <3> QED BY <2>3, <3>1, <3>2
  <2>5. CASE ~(u > k)
    <3>1. u < k + t
          BY <1>2, <2>5
    <3>2. (T[u][q] \in R <=> T[k + t][p] \in R)
          BY <2>1, <2>3
    <3>3. T[u][q][2] < T[k + t][p][2]
          BY <1>1, <2>1, <3>1, <3>2 DEF Ascending
    <3>4. s[2] = i
          OBVIOUS
    <3>5. PICK j \in 1..n : T[k + t][p] = <<file, j>>
          BY <1>1, <2>1 DEF AllFrom
    <3>6. j <= i /\ i < j
          BY <2>1, <2>3, <3>3, <3>4, <3>5
    <3> QED BY <3>5, <3>6
  <2> QED BY <1>2, <2>4, <2>5
<1> QED BY <1>4, <1>5, <1>6 DEF LatestIn

\* The next one, that is not in R, becomes a text of its own before the last,
\* where all is in R.
LEMMA LatestInserted ==
    ASSUME NEW S, NEW R, NEW T \in Seq(Seq(S)), NEW file, NEW n \in Nat, LatestIn(T, file, n, R), Len(T) > 0,
           <<file, n + 1>> \notin R, \A p \in 1..Len(T[Len(T)]) : T[Len(T)][p] \in R,
           NEW U \in Seq(Seq(S)), Len(U) = Len(T) + 1, \A t \in 1..(Len(T) - 1) : U[t] = T[t],
           U[Len(T)] = <<<<file, n + 1>>>>, U[Len(T) + 1] = T[Len(T)]
    PROVE  LatestIn(U, file, n + 1, R)
<1> DEFINE N == Len(T)
           r == <<file, n + 1>>
           From(t) == IF t = N + 1 THEN N ELSE t
<1>1. AllFrom(T, file, n) /\ Ascending(T, R) /\ NoneMissing(T, file, n, R)
      BY DEF LatestIn
<1>2. N \in Nat /\ N \in 1..N /\ Len(U) = N + 1
      OBVIOUS
<1>3. U[N] = <<r>> /\ Len(U[N]) = 1 /\ U[N][1] = r /\ r[2] = n + 1 /\ r \notin R
      OBVIOUS
<1>4. U[N + 1] = T[N] /\ \A p \in 1..Len(T[N]) : T[N][p] \in R
      OBVIOUS
<1>5. \A t \in 1..(N - 1) : U[t] = T[t]
      OBVIOUS
<1> HIDE DEF r
<1>6. ASSUME NEW t \in 1..(N + 1), NEW p \in 1..Len(U[t])
      PROVE  \/ t = N /\ p = 1 /\ U[t][p] = r
             \/ t # N /\ From(t) \in 1..N /\ U[t] = T[From(t)] /\ p \in 1..Len(T[From(t)])
  <2>1. CASE t = N
    <3>1. U[t] = U[N]
          BY <2>1
    <3>2. p \in 1..1
          BY <1>3, <3>1
    <3>3. p = 1
          BY <3>2
    <3> QED BY <1>3, <2>1, <3>1, <3>3
  <2>2. CASE t = N + 1
        BY <1>2, <1>4, <2>2
  <2>3. CASE t # N /\ t # N + 1
    <3>1. t \in 1..(N - 1) /\ t \in 1..N
          BY <1>2, <2>3
    <3> QED BY <1>5, <2>3, <3>1
  <2> QED BY <2>1, <2>2, <2>3
<1>7. ASSUME NEW u \in 1..N PROVE \E t \in 1..(N + 1) : U[t] = T[u]
  <2>1. CASE u = N
    <3>1. N + 1 \in 1..(N + 1) /\ U[N + 1] = T[u]
          BY <1>2, <1>4, <2>1
    <3> QED BY <3>1
  <2>2. CASE u # N
    <3>1. u \in 1..(N - 1) /\ u \in 1..(N + 1)
          BY <1>2, <2>2
    <3> QED BY <1>5, <3>1
  <2> QED BY <2>1, <2>2
<1>8. ASSUME NEW t \in 1..N, NEW p \in 1..Len(T[t]) PROVE T[t][p][2] \in 1..n
  <2>1. PICK i \in 1..n : T[t][p] = <<file, i>>
        BY <1>1, <1>8 DEF AllFrom
  <2> QED BY <2>1
<1>9. AllFrom(U, file, n + 1)
  <2> SUFFICES ASSUME NEW t \in 1..(N + 1), NEW p \in 1..Len(U[t])
               PROVE  \E i \in 1..(n + 1) : U[t][p] = <<file, i>>
      BY <1>2 DEF AllFrom
  <2>1. CASE U[t][p] = r
        BY <2>1 DEF r
  <2>2. CASE From(t) \in 1..N /\ U[t] = T[From(t)] /\ p \in 1..Len(T[From(t)])
    <3>1. PICK i \in 1..n : T[From(t)][p] = <<file, i>>
          BY <1>1, <2>2 DEF AllFrom
    <3> QED BY <2>2, <3>1
  <2> QED BY <1>6, <2>1, <2>2
<1>10. Ascending(U, R)
  <2> SUFFICES ASSUME NEW t \in 1..(N + 1), NEW u \in 1..(N + 1), NEW p \in 1..Len(U[t]), NEW q \in 1..Len(U[u]),
                      (U[t][p] \in R <=> U[u][q] \in R), t < u \/ (t = u /\ p < q)
               PROVE  U[t][p][2] < U[u][q][2]
      BY <1>2 DEF Ascending
  <2>1. CASE t = N
    <3>1. U[t][p] = r /\ U[u][q] \notin R
          BY <1>3, <1>6, <2>1
    <3>2. u # N
          BY <1>2, <1>6, <2>1
    <3>3. u = N + 1
          BY <1>2, <2>1, <3>2
    <3> QED BY <1>4, <3>1, <3>3
  <2>2. CASE t # N
    <3>1. From(t) \in 1..N /\ U[t] = T[From(t)] /\ p \in 1..Len(T[From(t)])
          BY <1>6, <2>2
    <3>2. CASE u = N
      <4>1. U[u][q][2] = n + 1
            BY <1>3, <1>6, <3>2
      <4>2. U[t][p][2] \in 1..n
            BY <1>8, <3>1
      <4> DEFINE a == U[t][p][2]
                 b == U[u][q][2]
      <4>3. a \in 1..n /\ b = n + 1
            BY <4>1, <4>2
      <4> HIDE DEF a, b
      <4>4. a < b
            BY <4>3
      <4> QED BY <4>4 DEF a, b
    <3>3. CASE u # N
      <4>1. From(u) \in 1..N /\ U[u] = T[From(u)] /\ q \in 1..Len(T[From(u)])
            BY <1>6, <3>3
      <4>2. From(t) < From(u) \/ (From(t) = From(u) /\ p < q)
        <5>1. CASE t = u /\ p < q
              BY <5>1
        <5>2. CASE t < u
          <6>1. From(t) = (IF t = N + 1 THEN N ELSE t) /\ From(u) = (IF u = N + 1 THEN N ELSE u)
                OBVIOUS
          <6>2. N \in Nat /\ t \in 1..(N + 1) /\ u \in 1..(N + 1) /\ t # N /\ t < u
                BY <1>2, <2>2, <5>2
          <6> DEFINE a == From(t)
                     b == From(u)
          <6> HIDE DEF a, b, N
          <6>3. a = (IF t = N + 1 THEN N ELSE t) /\ b = (IF u = N + 1 THEN N ELSE u)
                BY <6>1 DEF a, b
          <6>4. a < b
                BY <6>2, <6>3
          <6> QED BY <6>4 DEF a, b
        <5> QED BY <5>1, <5>2
      <4> HIDE DEF From
      <4>3. T[From(t)][p][2] < T[From(u)][q][2]
            BY <1>1, <3>1, <4>1, <4>2 DEF Ascending
      <4> QED BY <3>1, <4>1, <4>3
    <3> QED BY <3>2, <3>3
  <2> QED BY <2>1, <2>2
<1>11. NoneMissing(U, file, n + 1, R)
  <2> SUFFICES ASSUME NEW t \in 1..(N + 1), NEW p \in 1..Len(U[t]), NEW i \in U[t][p][2]..(n + 1),
                      <<file, i>> \in R <=> U[t][p] \in R
               PROVE  \E u \in 1..(N + 1) : \E q \in 1..Len(U[u]) : U[u][q] = <<file, i>>
      BY <1>2 DEF NoneMissing
  <2>1. CASE i = n + 1
    <3>1. N \in 1..(N + 1) /\ 1 \in 1..Len(U[N])
          BY <1>2, <1>3
    <3> QED BY <1>3, <2>1, <3>1 DEF r
  <2>2. CASE i # n + 1
    <3>1. U[t][p] # r
          BY <1>3, <2>2
    <3>2. From(t) \in 1..N /\ U[t] = T[From(t)] /\ p \in 1..Len(T[From(t)])
          BY <1>6, <3>1
    <3> HIDE DEF From
    <3>3. T[From(t)][p][2] \in 1..n
          BY <1>8, <3>2
    <3>4. i \in T[From(t)][p][2]..n
          BY <2>2, <3>2, <3>3
    <3>5. PICK u \in 1..N : \E q \in 1..Len(T[u]) : T[u][q] = <<file, i>>
          BY <1>1, <3>2, <3>4 DEF NoneMissing
    <3>6. PICK w \in 1..(N + 1) : U[w] = T[u]
          BY <1>7
    <3> QED BY <3>5, <3>6
  <2> QED BY <2>1, <2>2
<1> QED BY <1>9, <1>10, <1>11, <1>2 DEF LatestIn
=============================================================================
