----------------------------- MODULE Induction -----------------------------
(***************************************************************************)
(* Induction over numbers and finite sets, stated with sets instead of     *)
(* predicates: a property is the set of the things that have it.  The      *)
(* library's induction theorems have an operator as parameter, which no    *)
(* prover here can instantiate; all of the lemmas below rest instead on    *)
(* its theorem that < is well founded on Nat.  With them, what is defined  *)
(* over a set or an interval by recursion (sums of sizes, the value of a   *)
(* tree after each of several entries) can be computed with.               *)
(***************************************************************************)
EXTENDS Integers, Sequences, SequencesExt, FiniteSets, FiniteSetsExt, Functions, Lists,
        FiniteSetTheorems, SequenceTheorems, WellFoundedInduction, TLAPS

\* A set of numbers that is not empty has a least element.
LEMMA LeastNumber ==
  ASSUME NEW S \in SUBSET Nat, S # {}
  PROVE  \E n \in S : \A m \in S : n <= m
<1>1. IsWellFoundedOn(OpToRel(<, Nat), Nat)
  BY NatLessThanWellFounded
<1>2. PICK n \in S : \A m \in S : ~ (<<m, n>> \in OpToRel(<, Nat))
  BY <1>1, WFMin
<1>3. \A m \in S : ~ (m < n)
  BY <1>2 DEF OpToRel
<1>4. QED  BY <1>3

\* A set with 0 and the successor of each number in it has all numbers.
LEMMA NatSetInduction ==
  ASSUME NEW S, 0 \in S, \A n \in Nat : n \in S => n + 1 \in S
  PROVE  Nat \subseteq S
<1>1. SUFFICES ASSUME Nat \ S # {}
               PROVE  FALSE
  OBVIOUS
<1>2. PICK n \in Nat \ S : \A m \in Nat \ S : n <= m
  BY <1>1, LeastNumber
<1>3. n # 0 /\ n - 1 \in Nat /\ n - 1 \notin S
  BY <1>2
<1>4. QED  BY <1>2, <1>3

\* A set of sets with {} in it, and with whatever one more element makes of a set
\* in it, has every finite set.
LEMMA FiniteSetInduction ==
  ASSUME NEW S, IsFiniteSet(S), NEW Q, {} \in Q,
         \A T \in SUBSET S : \A x \in S : T \in Q /\ x \notin T => T \union {x} \in Q
  PROVE  S \in Q
<1> DEFINE N == {n \in Nat : \A T \in SUBSET S : Cardinality(T) = n => T \in Q}
<1>1. \A T \in SUBSET S : IsFiniteSet(T) /\ Cardinality(T) \in Nat
  BY FS_Subset, FS_CardinalityType
<1>2. 0 \in N
  BY <1>1, FS_EmptySet
<1>3. ASSUME NEW n \in Nat, n \in N
      PROVE  n + 1 \in N
  <2>1. ASSUME NEW T \in SUBSET S, Cardinality(T) = n + 1
        PROVE  T \in Q
    <3>1. T # {} /\ IsFiniteSet(T)
      BY <1>1, <2>1, FS_EmptySet
    <3>2. PICK x \in T : TRUE
      BY <3>1
    <3>3. Cardinality(T \ {x}) = n
      <4>1. Cardinality(T \ {x}) = Cardinality(T) - 1
        BY <3>1, <3>2, FS_RemoveElement
      <4>2. QED  BY <2>1, <4>1
    <3>4. T \ {x} \in Q
      BY <1>3, <3>3
    <3>5. T = (T \ {x}) \union {x}
      BY <3>2
    <3>6. QED  BY <3>4, <3>5
  <2>2. QED  BY <2>1
<1>4. Nat \subseteq N
  <2> HIDE DEF N
  <2> QED BY <1>2, <1>3, NatSetInduction
<1>5. QED  BY <1>1, <1>4

-----------------------------------------------------------------------------
(* Recursion over an interval.                                             *)

\* What holds at 0, and at k when it holds at k - 1, holds up to n.
LEMMA IntervalInduction ==
  ASSUME NEW n \in Nat, NEW S, 0 \in S,
         \A k \in 1 .. n : k - 1 \in S => k \in S
  PROVE  0 .. n \subseteq S
<1> DEFINE N == {k \in Nat : k <= n => k \in S}
<1>1. 0 \in N
  OBVIOUS
<1>2. ASSUME NEW k \in Nat, k \in N
      PROVE  k + 1 \in N
  <2>1. k + 1 <= n => k \in S /\ k + 1 \in 1 .. n /\ (k + 1) - 1 = k
    BY <1>2
  <2>2. k + 1 <= n => k + 1 \in S
    BY <2>1
  <2>3. QED  BY <2>2
<1>3. Nat \subseteq N
  <2> HIDE DEF N
  <2> QED BY <1>1, <1>2, NatSetInduction
<1>4. QED  BY <1>3

\* What holds at i when it holds at all of D below i holds on all of D.
LEMMA StrongInduction ==
  ASSUME NEW D \in SUBSET Nat, NEW S,
         \A i \in D : (\A j \in D : j < i => j \in S) => i \in S
  PROVE  D \subseteq S
<1>1. SUFFICES ASSUME D \ S # {}
               PROVE  FALSE
  OBVIOUS
<1>2. PICK i \in D \ S : \A j \in D \ S : i <= j
  BY <1>1, LeastNumber
<1>3. \A j \in D : j < i => j \in S
  BY <1>2
<1>4. QED  BY <1>2, <1>3

\* g is a value and what each of n steps made of it; G has the steps.
Iteration(n, X, base, G, g) ==
  /\ g \in [0 .. n -> X]
  /\ g[0] = base
  /\ \A k \in 1 .. n : g[k] = G[k][g[k - 1]]

\* There is one for each value and steps.
LEMMA Iterates ==
  ASSUME NEW n, n \in Nat, NEW X, NEW base, base \in X,
         NEW G, G \in [1 .. n -> [X -> X]]
  PROVE  \E g : Iteration(n, X, base, G, g)
<1> DEFINE Upto(m) == \E g \in [0 .. m -> X] :
                       g[0] = base /\ \A k \in 1 .. m : g[k] = G[k][g[k - 1]]
           S == {m \in 0 .. n : Upto(m)}
<1>1. 0 \in S
  <2> DEFINE g == [k \in 0 .. 0 |-> base]
  <2>1. g \in [0 .. 0 -> X] /\ g[0] = base /\ \A k \in 1 .. 0 : g[k] = G[k][g[k - 1]]
    OBVIOUS
  <2>2. Upto(0)
    <3> HIDE DEF g
    <3> QED BY <2>1, Zenon
  <2>3. 0 \in 0 .. n
    OBVIOUS
  <2>4. QED  BY <2>2, <2>3, Zenon
<1>2. ASSUME NEW m \in 1 .. n, m - 1 \in S
      PROVE  m \in S
  <2>1. PICK g \in [0 .. m - 1 -> X] :
          g[0] = base /\ \A k \in 1 .. m - 1 : g[k] = G[k][g[k - 1]]
    BY <1>2
  <2> DEFINE h == [k \in 0 .. m |-> IF k = m THEN G[m][g[m - 1]] ELSE g[k]]
  <2>2. g[m - 1] \in X
    BY <2>1
  <2>3. G[m][g[m - 1]] \in X
    BY <2>2
  <2>4. h \in [0 .. m -> X]
    BY <2>1, <2>3
  <2>5. h[0] = base
    BY <2>1
  <2>6. ASSUME NEW k \in 1 .. m
        PROVE  h[k] = G[k][h[k - 1]]
    <3>1. h[k - 1] = g[k - 1] /\ k - 1 \in 0 .. m - 1
      OBVIOUS
    <3>2. CASE k = m
      BY <3>1, <3>2
    <3>3. CASE k # m
      BY <2>1, <3>1, <3>3
    <3>4. QED  BY <3>2, <3>3
  <2>7. Upto(m)
    <3> HIDE DEF h
    <3> QED BY <2>4, <2>5, <2>6, Zenon
  <2>8. m \in 0 .. n
    OBVIOUS
  <2>9. QED  BY <2>7, <2>8, Zenon
<1>3. 0 .. n \subseteq S
  <2> HIDE DEF S
  <2> QED BY <1>1, <1>2, IntervalInduction
<1>4. n \in S
  BY <1>3
<1>5. Upto(n)
  BY <1>4
<1>6. QED  BY <1>5, Zenon DEF Iteration

\* g is defined at each i of D as G says of i and the rest of g.
Recursive(D, X, G, g) == g \in [D -> X] /\ \A i \in D : g[i] = G[i][g]

\* What it is at i depends only on where the rank r is smaller.
Founded(D, X, G, r) ==
  \A i \in D : \A g, h \in [D -> X] :
    (\A j \in D : r[j] < r[i] => g[j] = h[j]) => G[i][g] = G[i][h]

\* Then there is one.
LEMMA Recursion ==
  ASSUME NEW D, NEW X, X # {}, NEW n \in Nat, NEW r \in [D -> 0 .. n],
         NEW G \in [D -> [[D -> X] -> X]], Founded(D, X, G, r)
  PROVE  \E g : Recursive(D, X, G, g)
<1> DEFINE Below(m) == \E g \in [D -> X] : \A i \in D : r[i] < m => g[i] = G[i][g]
           S == {m \in 0 .. n + 1 : Below(m)}
<1>1. 0 \in S
  <2>1. PICK x \in X : TRUE
    OBVIOUS
  <2>2. [i \in D |-> x] \in [D -> X]
    OBVIOUS
  <2>3. \A i \in D : ~(r[i] < 0)
    OBVIOUS
  <2>4. Below(0)
    BY <2>2, <2>3, Zenon
  <2>5. 0 \in 0 .. n + 1
    OBVIOUS
  <2>6. QED  BY <2>4, <2>5, Zenon
<1>2. ASSUME NEW m \in 1 .. n + 1, m - 1 \in S
      PROVE  m \in S
  <2>1. PICK g \in [D -> X] : \A i \in D : r[i] < m - 1 => g[i] = G[i][g]
    BY <1>2, Zenon
  <2> DEFINE h == [i \in D |-> IF r[i] = m - 1 THEN G[i][g] ELSE g[i]]
  <2>2. h \in [D -> X]
    OBVIOUS
  <2>3. \A i \in D : r[i] < m - 1 => h[i] = g[i]
    OBVIOUS
  <2>4. ASSUME NEW i \in D, r[i] < m
        PROVE  h[i] = G[i][h]
    <3>1. \A j \in D : r[j] < r[i] => r[j] < m - 1
      BY <2>4
    <3>2. \A j \in D : r[j] < r[i] => h[j] = g[j]
      BY <2>3, <3>1
    <3>3. G[i][h] = G[i][g]
      <4>1. \A j \in D : r[j] < r[i] => g[j] = h[j]
        BY <3>2
      <4> HIDE DEF h
      <4>2. \A a, b \in [D -> X] :
              (\A j \in D : r[j] < r[i] => a[j] = b[j]) => G[i][a] = G[i][b]
        BY Zenon DEF Founded
      <4>3. G[i][g] = G[i][h]
        BY <2>1, <2>2, <4>1, <4>2, Zenon
      <4>4. QED  BY <4>3
    <3>4. h[i] = G[i][g]
      <4>1. r[i] = m - 1 \/ r[i] < m - 1
        <5>1. \A a, b \in Int : a < b => a = b - 1 \/ a < b - 1
          OBVIOUS
        <5>2. r[i] \in 0 .. n /\ r[i] < m
          BY <2>4
        <5>3. r[i] \in Int /\ m \in Int
          BY <5>2
        <5>4. QED  BY <5>1, <5>2, <5>3, Zenon
      <4>2. CASE r[i] = m - 1
        BY <4>2
      <4>3. CASE r[i] < m - 1
        BY <2>1, <2>3, <4>3
      <4>4. QED  BY <4>1, <4>2, <4>3
    <3>5. QED  BY <3>3, <3>4
  <2>5. Below(m)
    <3> HIDE DEF h
    <3> QED BY <2>2, <2>4, Zenon
  <2>6. m \in 0 .. n + 1
    OBVIOUS
  <2>7. QED  BY <2>5, <2>6, Zenon
<1>3. 0 .. n + 1 \subseteq S
  <2>1. n + 1 \in Nat
    OBVIOUS
  <2> HIDE DEF S
  <2> QED BY <1>1, <1>2, <2>1, IntervalInduction
<1>4. Below(n + 1)
  <2>1. n + 1 \in 0 .. n + 1
    OBVIOUS
  <2>2. n + 1 \in S
    <3> HIDE DEF S
    <3> QED BY <1>3, <2>1
  <2>3. QED  BY <2>2, Zenon
<1>5. \A i \in D : r[i] < n + 1
  OBVIOUS
<1>6. QED
  <2>1. PICK g \in [D -> X] : \A i \in D : r[i] < n + 1 => g[i] = G[i][g]
    BY <1>4, Zenon
  <2>2. \A i \in D : g[i] = G[i][g]
    BY <1>5, <2>1, Zenon
  <2>3. QED  BY <2>2, Zenon DEF Recursive

-----------------------------------------------------------------------------
(* What Only leaves of a sequence.                                         *)

\* only has what is left of s after k elements.
Left(s, S, T, only) ==
  /\ only \in [0 .. Len(s) -> Seq(T)]
  /\ only[0] = <<>>
  /\ \A k \in 1 .. Len(s) :
       only[k] = IF s[k] \in S THEN Append(only[k - 1], s[k]) ELSE only[k - 1]

\* Only goes through a sequence element by element.
LEMMA OnlyIs ==
  ASSUME NEW T, NEW s \in Seq(T), NEW S
  PROVE  \E only : Left(s, S, T, only) /\ Only(s, S) = only[Len(s)]
<1> DEFINE n == Len(s)
           X == Seq(T)
           base == <<>>
           Step(v, k) == IF s[k] \in S THEN Append(v, s[k]) ELSE v
           G == [k \in 1 .. n |-> [v \in X |-> Step(v, k)]]
           Eq(f) == f = [k \in 0 .. n |-> IF k = 0 THEN base ELSE Step(f[k - 1], k)]
           only == CHOOSE f : Eq(f)
<1>1. Only(s, S) = only[n]
  BY DEF Only
<1>2. n \in Nat /\ base \in X
  OBVIOUS
<1>3. \A k \in 1 .. n : \A v \in X : Step(v, k) \in X
  OBVIOUS
<1>4. \A f, k : Step(f[k - 1], k) = IF s[k] \in S THEN Append(f[k - 1], s[k]) ELSE f[k - 1]
  OBVIOUS
<1> HIDE DEF n, X, Step
<1>5. \E g : Eq(g)
  <2>1. G \in [1 .. n -> [X -> X]]
    BY <1>3
  <2>2. PICK g : Iteration(n, X, base, G, g)
    <3> HIDE DEF G, base
    <3> QED BY <1>2, <2>1, Iterates
  <2>3. ASSUME NEW k \in 1 .. n
        PROVE  g[k] = Step(g[k - 1], k)
    <3>1. k - 1 \in 0 .. n
      BY <1>2
    <3>2. QED  BY <2>2, <3>1 DEF Iteration
  <2>4. \A k \in 0 .. n : k = 0 \/ k \in 1 .. n
    BY <1>2
  <2>5. \A k \in 0 .. n : g[k] = IF k = 0 THEN base ELSE Step(g[k - 1], k)
    BY <2>2, <2>3, <2>4 DEF Iteration
  <2>6. QED  BY <2>2, <2>5 DEF Iteration
<1>6. Eq(only)
  <2> HIDE DEF Eq
  <2> QED BY <1>5
<1>7. only[0] = base /\ \A k \in 1 .. n : only[k] = Step(only[k - 1], k)
  <2> HIDE DEF only
  <2> QED BY <1>2, <1>6
<1> HIDE DEF only
<1>8. \A k \in 0 .. n : only[k] \in X
  <2> DEFINE R == {k \in 0 .. n : only[k] \in X}
  <2>1. 0 \in R
    BY <1>2, <1>7
  <2>2. \A k \in 1 .. n : k - 1 \in R => k \in R
    BY <1>2, <1>3, <1>7
  <2>3. 0 .. n \subseteq R
    <3> HIDE DEF R
    <3> QED BY <1>2, <2>1, <2>2, IntervalInduction
  <2>4. QED  BY <2>3
<1>9. only \in [0 .. n -> X]
  BY <1>6, <1>8
<1>10. QED  BY <1>1, <1>4, <1>7, <1>9 DEF X, n, Left

\* pick has the positions in s of what is left of its first k elements.
Picks(s, S, o, k, pick) ==
  /\ pick \in [1 .. Len(o) -> 1 .. k]
  /\ \A i, j \in 1 .. Len(o) : i < j => pick[i] < pick[j]
  /\ \A i \in 1 .. Len(o) : o[i] = s[pick[i]]
  /\ \A i \in 1 .. k : s[i] \in S <=> \E j \in 1 .. Len(o) : pick[j] = i

\* What is left of a sequence are the elements that are in S, each once and in
\* their order.
LEMMA OnlyPicks ==
  ASSUME NEW T, NEW s \in Seq(T), NEW S
  PROVE  /\ Only(s, S) \in Seq(T)
         /\ \E pick : Picks(s, S, Only(s, S), Len(s), pick)
<1> DEFINE n == Len(s)
<1>0. PICK only : Left(s, S, T, only) /\ Only(s, S) = only[n]
  BY OnlyIs
<1>1. /\ only \in [0 .. n -> Seq(T)]
      /\ only[0] = <<>>
      /\ \A k \in 1 .. n :
           only[k] = IF s[k] \in S THEN Append(only[k - 1], s[k]) ELSE only[k - 1]
      /\ Only(s, S) = only[n]
  BY <1>0 DEF Left
<1>2. n \in Nat /\ \A k \in 1 .. n : s[k] \in T
  OBVIOUS
<1> HIDE DEF n
<1> DEFINE R == {k \in 0 .. n : \E pick : Picks(s, S, only[k], k, pick)}
<1>3. 0 \in R
  <2>1. Len(only[0]) = 0
    BY <1>1
  <2>2. [i \in 1 .. 0 |-> 0] \in [1 .. 0 -> 1 .. 0]
    OBVIOUS
  <2>3. Picks(s, S, only[0], 0, [i \in 1 .. 0 |-> 0])
    BY <2>1, <2>2 DEF Picks
  <2>4. 0 \in 0 .. n
    BY <1>2
  <2>5. QED  BY <2>3, <2>4, Zenon
<1>4. ASSUME NEW k \in 1 .. n, k - 1 \in R
      PROVE  k \in R
  <2>1. PICK pick : Picks(s, S, only[k - 1], k - 1, pick)
    BY <1>4, Zenon
  <2>2. k \in 0 .. n /\ k - 1 \in 0 .. n /\ k \in Nat
    BY <1>2
  <2>3. only[k - 1] \in Seq(T) /\ s[k] \in T
    BY <1>1, <1>2, <2>2
  <2> DEFINE o == only[k - 1]  m == Len(o)
  <2>4. m \in Nat
    BY <2>3
  <2>5. CASE s[k] \notin S
    <3>1. only[k] = o
      BY <1>1, <2>5
    <3>2. Picks(s, S, o, k, pick)
      <4>1. pick \in [1 .. m -> 1 .. k]
        BY <2>1, <2>2 DEF Picks
      <4>2. \A i \in 1 .. k : i = k \/ i \in 1 .. k - 1
        BY <2>2
      <4>3. \A j \in 1 .. m : pick[j] # k
        BY <2>1, <2>2 DEF Picks
      <4>4. QED  BY <2>1, <2>5, <4>1, <4>2, <4>3 DEF Picks
    <3>3. QED  BY <2>2, <3>1, <3>2, Zenon
  <2>6. CASE s[k] \in S
    <3> DEFINE u == Append(o, s[k])
               next == [i \in 1 .. m + 1 |-> IF i = m + 1 THEN k ELSE pick[i]]
    <3>1. only[k] = u
      BY <1>1, <2>6
    <3>2. Len(u) = m + 1 /\ u[m + 1] = s[k] /\ \A i \in 1 .. m : u[i] = o[i]
      BY <2>3
    <3>3. next \in [1 .. m + 1 -> 1 .. k]
      BY <2>1, <2>2, <2>4 DEF Picks
    <3>4. next[m + 1] = k /\ \A i \in 1 .. m : next[i] = pick[i]
      BY <2>4
    <3>5. \A i \in 1 .. m + 1 : i = m + 1 \/ i \in 1 .. m
      BY <2>4
    <3>6. \A i \in 1 .. m : pick[i] < k /\ o[i] = s[pick[i]]
      <4>1. ASSUME NEW i \in 1 .. m PROVE pick[i] \in 1 .. k - 1 /\ o[i] = s[pick[i]]
        BY <2>1, <2>2 DEF Picks
      <4>2. \A j \in 1 .. k - 1 : j < k
        BY <2>2
      <4>3. QED  BY <4>1, <4>2
    <3> HIDE DEF next, u, o
    <3>7. \A i, j \in 1 .. m + 1 : i < j => next[i] < next[j]
      <4>1. \A i, j \in 1 .. m : i < j => pick[i] < pick[j]
        BY <2>1 DEF Picks, o
      <4>2. QED  BY <2>4, <3>4, <3>5, <3>6, <4>1
    <3>8. \A i \in 1 .. m + 1 : u[i] = s[next[i]]
      BY <3>2, <3>4, <3>5, <3>6
    <3>9. ASSUME NEW i \in 1 .. k
          PROVE  s[i] \in S <=> \E j \in 1 .. m + 1 : next[j] = i
      <4>1. CASE i = k
        BY <2>4, <2>6, <3>4, <4>1
      <4>2. CASE i \in 1 .. k - 1
        <5>1. s[i] \in S <=> \E j \in 1 .. m : pick[j] = i
          BY <2>1, <4>2 DEF Picks, o
        <5>2. next[m + 1] # i
          BY <2>2, <3>4, <4>2
        <5>3. \A j \in 1 .. m : j \in 1 .. m + 1
          BY <2>4
        <5>4. QED  BY <3>4, <3>5, <5>1, <5>2, <5>3
      <4>3. QED  BY <2>2, <4>1, <4>2
    <3>10. Picks(s, S, u, k, next)
      BY <3>2, <3>3, <3>7, <3>8, <3>9 DEF Picks
    <3>11. QED  BY <2>2, <3>1, <3>10, Zenon
  <2>7. QED  BY <2>5, <2>6
<1>5. 0 .. n \subseteq R
  <2> HIDE DEF R
  <2> QED BY <1>2, <1>3, <1>4, IntervalInduction
<1>6. n \in 0 .. n
  BY <1>2
<1>7. \E pick : Picks(s, S, only[n], n, pick)
  BY <1>5, <1>6
<1>8. only[n] \in Seq(T)
  BY <1>1, <1>6
<1>9. QED  BY <1>1, <1>7, <1>8 DEF n

\* An element that is left has not moved on.
LEMMA PicksAdvance ==
  ASSUME NEW T, NEW s \in Seq(T), NEW o \in Seq(T), NEW S, NEW pick,
         Picks(s, S, o, Len(s), pick)
  PROVE  \A k \in 1 .. Len(o) : k <= pick[k]
<1> DEFINE R == {k \in 0 .. Len(o) : k = 0 \/ k <= pick[k]}
<1>1. Len(o) \in Nat /\ Len(s) \in Nat
  OBVIOUS
<1>2. 0 \in R
  BY <1>1
<1>3. \A k \in 1 .. Len(o) : pick[k] \in 1 .. Len(s)
  BY DEF Picks
<1>4. \A k \in 1 .. Len(o) : k - 1 = 0 \/ pick[k - 1] < pick[k]
  <2>1. \A i, j \in 1 .. Len(o) : i < j => pick[i] < pick[j]
    BY DEF Picks
  <2>2. \A k \in 1 .. Len(o) : k - 1 = 0 \/ (k - 1 \in 1 .. Len(o) /\ k - 1 < k)
    BY <1>1
  <2>3. QED  BY <2>1, <2>2
<1>5. \A k \in 1 .. Len(o) : k - 1 \in R => k \in R
  BY <1>1, <1>3, <1>4
<1>6. 0 .. Len(o) \subseteq R
  <2> HIDE DEF R
  <2> QED BY <1>1, <1>2, <1>5, IntervalInduction
<1>7. QED  BY <1>1, <1>6

\* What is left are the elements of s that are in S, and each at most as often
\* as in s.
LEMMA OnlyKeeps ==
  ASSUME NEW T, NEW s \in Seq(T), NEW S
  PROVE  /\ Only(s, S) \in Seq(T)
         /\ Range(Only(s, S)) = Range(s) \cap S
         /\ IsInjective(s) => IsInjective(Only(s, S))
         /\ Len(Only(s, S)) <= Len(s)
<1> DEFINE o == Only(s, S)
<1>1. o \in Seq(T)
  BY OnlyPicks
<1>2. PICK pick : Picks(s, S, o, Len(s), pick)
  BY OnlyPicks
<1> HIDE DEF o
<1>3. Len(o) \in Nat /\ Len(s) \in Nat /\ DOMAIN o = 1 .. Len(o) /\ DOMAIN s = 1 .. Len(s)
  BY <1>1
<1>4. Range(o) = Range(s) \cap S
  <2>1. ASSUME NEW x \in Range(o)
        PROVE  x \in Range(s) \cap S
    <3>1. PICK i \in 1 .. Len(o) : x = o[i]
      BY <1>3 DEF Range
    <3>2. pick[i] \in 1 .. Len(s) /\ x = s[pick[i]] /\ s[pick[i]] \in S
      BY <1>2, <3>1 DEF Picks
    <3>3. QED  BY <1>3, <3>2 DEF Range
  <2>2. ASSUME NEW x \in Range(s) \cap S
        PROVE  x \in Range(o)
    <3>1. PICK i \in 1 .. Len(s) : x = s[i]
      BY <1>3 DEF Range
    <3>2. PICK j \in 1 .. Len(o) : pick[j] = i
      BY <1>2, <2>2, <3>1 DEF Picks
    <3>3. o[j] = x
      BY <1>2, <3>1, <3>2 DEF Picks
    <3>4. QED  BY <1>3, <3>3 DEF Range
  <2>3. QED  BY <2>1, <2>2
<1>5. \A i, j \in 1 .. Len(o) : i # j => pick[i] # pick[j]
  <2>1. \A i, j \in 1 .. Len(o) : i < j => pick[i] < pick[j]
    BY <1>2 DEF Picks
  <2>2. \A i \in 1 .. Len(o) : pick[i] \in Nat
    BY <1>2, <1>3 DEF Picks
  <2>3. \A i, j \in 1 .. Len(o) : i # j => i < j \/ j < i
    BY <1>3
  <2>4. QED  BY <2>1, <2>2, <2>3
<1>6. IsInjective(s) => IsInjective(o)
  <2>1. \A i \in 1 .. Len(o) : pick[i] \in 1 .. Len(s) /\ o[i] = s[pick[i]]
    BY <1>2 DEF Picks
  <2>2. QED  BY <1>3, <1>5, <2>1 DEF IsInjective
<1>7. Len(o) <= Len(s)
  <2>1. \A k \in 1 .. Len(o) : k <= pick[k]
    BY <1>1, <1>2, PicksAdvance
  <2>2. \A k \in 1 .. Len(o) : pick[k] \in 1 .. Len(s)
    BY <1>2 DEF Picks
  <2>3. Len(o) = 0 \/ Len(o) \in 1 .. Len(o)
    BY <1>3
  <2>4. QED  BY <1>3, <2>1, <2>2, <2>3
<1>8. QED  BY <1>1, <1>4, <1>6, <1>7 DEF o

-----------------------------------------------------------------------------
(* Sums, as MapThenSumSet of the community modules defines them.           *)

\* The sum of the values of f over S.
SumOf(f, S) == MapThenSumSet(LAMBDA x : f[x], S)

\* The element the fold takes first.
TakenFirst(s) == CHOOSE x \in s : TRUE

\* g satisfies the equation of a sum of f at s.
Summed(f, g, s) == g[s] = IF s = {} THEN 0 ELSE f[TakenFirst(s)] + g[s \ {TakenFirst(s)}]

\* There is a function that satisfies the equations of a sum.
LEMMA SumExists ==
  ASSUME NEW S, IsFiniteSet(S), NEW f, \A x \in S : f[x] \in Nat
  PROVE  \E g \in [SUBSET S -> Nat] : \A s \in SUBSET S : Summed(f, g, s)
<1> DEFINE Upto(n) == {s \in SUBSET S : Cardinality(s) <= n}
           N == {n \in Nat : \E g \in [Upto(n) -> Nat] : \A s \in Upto(n) : Summed(f, g, s)}
<1>1. \A T \in SUBSET S : IsFiniteSet(T) /\ Cardinality(T) \in Nat
  BY FS_Subset, FS_CardinalityType
<1>2. \A T \in SUBSET S : T # {} => /\ TakenFirst(T) \in T
                                   /\ T \ {TakenFirst(T)} \in SUBSET S
                                   /\ Cardinality(T \ {TakenFirst(T)}) = Cardinality(T) - 1
  <2>1. ASSUME NEW T \in SUBSET S, T # {}
        PROVE  /\ TakenFirst(T) \in T
               /\ Cardinality(T \ {TakenFirst(T)}) = Cardinality(T) - 1
    <3>1. TakenFirst(T) \in T
      BY <2>1 DEF TakenFirst
    <3>2. QED  BY <1>1, <3>1, FS_RemoveElement
  <2>2. QED  BY <2>1
<1>3. 0 \in N
  <2>1. \A s \in Upto(0) : s = {}
    BY <1>1, FS_EmptySet
  <2>2. [s \in Upto(0) |-> 0] \in [Upto(0) -> Nat]
    OBVIOUS
  <2>3. \A s \in Upto(0) : Summed(f, [r \in Upto(0) |-> 0], s)
    BY <2>1 DEF Summed
  <2>4. QED  BY <2>2, <2>3
<1>4. ASSUME NEW n \in Nat, n \in N
      PROVE  n + 1 \in N
  <2>1. PICK g \in [Upto(n) -> Nat] : \A s \in Upto(n) : Summed(f, g, s)
    BY <1>4
  <2> DEFINE h == [s \in Upto(n + 1) |->
                     IF s = {} THEN 0 ELSE f[TakenFirst(s)] + g[s \ {TakenFirst(s)}]]
  <2>2. \A s \in Upto(n + 1) : s # {} => s \ {TakenFirst(s)} \in Upto(n) /\ TakenFirst(s) \in S
    BY <1>1, <1>2
  <2>3. h \in [Upto(n + 1) -> Nat]
    BY <2>1, <2>2
  <2>4. \A s \in Upto(n) : s \in Upto(n + 1) /\ h[s] = g[s]
    BY <1>1, <2>1 DEF Summed
  <2>5. \A s \in Upto(n + 1) : Summed(f, h, s)
    BY <2>2, <2>4 DEF Summed
  <2>6. n + 1 \in Nat
    OBVIOUS
  <2>7. QED  BY <2>3, <2>5, <2>6, Zenon
<1>5. Nat \subseteq N
  <2> HIDE DEF N
  <2> QED BY <1>3, <1>4, NatSetInduction
<1>6. Cardinality(S) \in N
  BY <1>1, <1>5
<1>7. Upto(Cardinality(S)) = SUBSET S
  BY FS_Subset, <1>1
<1>8. QED  BY <1>6, <1>7

\* Two functions that satisfy them are the same.
LEMMA SumUnique ==
  ASSUME NEW S, IsFiniteSet(S), NEW f, NEW g, NEW h,
         \A s \in SUBSET S : Summed(f, g, s) /\ Summed(f, h, s)
  PROVE  \A s \in SUBSET S : g[s] = h[s]
<1> DEFINE N == {n \in Nat : \A s \in SUBSET S : Cardinality(s) = n => g[s] = h[s]}
<1>1. \A T \in SUBSET S : IsFiniteSet(T) /\ Cardinality(T) \in Nat
  BY FS_Subset, FS_CardinalityType
<1>2. 0 \in N
  BY <1>1, FS_EmptySet DEF Summed
<1>3. ASSUME NEW n \in Nat, n \in N
      PROVE  n + 1 \in N
  <2>1. ASSUME NEW s \in SUBSET S, Cardinality(s) = n + 1
        PROVE  g[s] = h[s]
    <3>1. s # {} /\ IsFiniteSet(s)
      BY <1>1, <2>1, FS_EmptySet
    <3>2. TakenFirst(s) \in s
      BY <3>1 DEF TakenFirst
    <3>3. Cardinality(s \ {TakenFirst(s)}) = Cardinality(s) - 1
      BY <3>1, <3>2, FS_RemoveElement
    <3>4. g[s \ {TakenFirst(s)}] = h[s \ {TakenFirst(s)}]
      BY <1>3, <2>1, <3>3
    <3>5. QED  BY <3>1, <3>4 DEF Summed
  <2>2. QED  BY <2>1
<1>4. Nat \subseteq N
  <2> HIDE DEF N
  <2> QED BY <1>2, <1>3, NatSetInduction
<1>5. QED  BY <1>1, <1>4

\* The fold of the community modules is that function.
LEMMA SumIs ==
  ASSUME NEW S, IsFiniteSet(S), NEW f, NEW g \in [SUBSET S -> Nat],
         \A s \in SUBSET S : Summed(f, g, s)
  PROVE  SumOf(f, S) = g[S]
<1> DEFINE F(h) == [s \in SUBSET S |-> IF s = {} THEN 0
                      ELSE f[CHOOSE x \in s : TRUE] + h[s \ {CHOOSE x \in s : TRUE}]]
           iter == CHOOSE h : h = F(h)
<1>1. SumOf(f, S) = iter[S]
  BY DEF SumOf, MapThenSumSet, MapThenFoldSet
<1>2. g = F(g)
  BY DEF Summed, TakenFirst
<1>3. iter = F(iter)
  BY <1>2, Zenon
<1>4. \A s \in SUBSET S : Summed(f, iter, s)
  <2> HIDE DEF iter
  <2> QED BY <1>3 DEF Summed, TakenFirst
<1>5. \A s \in SUBSET S : iter[s] = g[s]
  <2> HIDE DEF iter
  <2>1. \A s \in SUBSET S : Summed(f, iter, s) /\ Summed(f, g, s)
    BY <1>4
  <2>2. QED  BY <2>1, SumUnique
<1>6. QED  BY <1>1, <1>5

\* The sums over the subsets of a finite set, as a function.
LEMMA SumIsFunction ==
  ASSUME NEW S, IsFiniteSet(S), NEW f, \A x \in S : f[x] \in Nat
  PROVE  \E g \in [SUBSET S -> Nat] :
           \A s \in SUBSET S : SumOf(f, s) = g[s] /\ Summed(f, g, s)
<1>1. PICK g \in [SUBSET S -> Nat] : \A s \in SUBSET S : Summed(f, g, s)
  BY SumExists
<1>2. ASSUME NEW T \in SUBSET S
      PROVE  SumOf(f, T) = g[T]
  <2> DEFINE h == [s \in SUBSET T |-> g[s]]
  <2>1. h \in [SUBSET T -> Nat] /\ h[T] = g[T]
    OBVIOUS
  <2>2. \A s \in SUBSET T : Summed(f, h, s)
    <3>1. \A s \in SUBSET T : h[s] = g[s] /\ h[s \ {TakenFirst(s)}] = g[s \ {TakenFirst(s)}]
      OBVIOUS
    <3>2. QED  BY <1>1, <3>1 DEF Summed
  <2>3. IsFiniteSet(T)
    BY FS_Subset
  <2> HIDE DEF h
  <2>4. QED  BY <2>1, <2>2, <2>3, SumIs
<1>3. QED  BY <1>1, <1>2

\* A sum of numbers is a number.
LEMMA SumType ==
  ASSUME NEW S, IsFiniteSet(S), NEW f, \A x \in S : f[x] \in Nat
  PROVE  SumOf(f, S) \in Nat
<1>1. PICK g \in [SUBSET S -> Nat] :
        \A s \in SUBSET S : SumOf(f, s) = g[s] /\ Summed(f, g, s)
  BY SumIsFunction
<1>2. QED  BY <1>1

\* The sum over the empty set.
LEMMA SumEmpty == \A f : SumOf(f, {}) = 0
<1>1. ASSUME NEW f
      PROVE  SumOf(f, {}) = 0
  <2>1. PICK g \in [SUBSET {} -> Nat] :
          \A s \in SUBSET {} : SumOf(f, s) = g[s] /\ Summed(f, g, s)
    BY SumIsFunction, FS_EmptySet
  <2>2. QED  BY <2>1 DEF Summed
<1>2. QED  BY <1>1

\* Any element may be taken out of a sum first.
LEMMA SumRemove ==
  ASSUME NEW S, IsFiniteSet(S), NEW f, \A x \in S : f[x] \in Nat, NEW y \in S
  PROVE  SumOf(f, S) = f[y] + SumOf(f, S \ {y})
<1>1. PICK g \in [SUBSET S -> Nat] :
        \A s \in SUBSET S : SumOf(f, s) = g[s] /\ Summed(f, g, s)
  BY SumIsFunction
<1> DEFINE Each(s) == \A x \in s : g[s] = f[x] + g[s \ {x}]
           N == {n \in Nat : \A s \in SUBSET S : Cardinality(s) = n => Each(s)}
<1>2. \A T \in SUBSET S : IsFiniteSet(T) /\ Cardinality(T) \in Nat
  BY FS_Subset, FS_CardinalityType
<1>3. 0 \in N
  BY <1>2, FS_EmptySet
<1>4. ASSUME NEW n \in Nat, n \in N
      PROVE  n + 1 \in N
  <2>1. ASSUME NEW s \in SUBSET S, Cardinality(s) = n + 1, NEW x \in s
        PROVE  g[s] = f[x] + g[s \ {x}]
    <3> DEFINE z == TakenFirst(s)
    <3>1. s # {} /\ IsFiniteSet(s)
      BY <1>2
    <3>2. z \in s
      BY <3>1 DEF TakenFirst
    <3>3. g[s] = f[z] + g[s \ {z}]
      BY <1>1, <3>1 DEF Summed
    <3>4. CASE x = z
      BY <3>3, <3>4
    <3>5. CASE x # z
      <4> HIDE DEF z
      <4>1. Cardinality(s \ {x}) = n /\ Cardinality(s \ {z}) = n
        <5>1. Cardinality(s \ {x}) = Cardinality(s) - 1
          BY <3>1, FS_RemoveElement
        <5>2. Cardinality(s \ {z}) = Cardinality(s) - 1
          BY <3>1, <3>2, FS_RemoveElement
        <5>3. QED  BY <2>1, <5>1, <5>2
      <4>2. Each(s \ {x}) /\ Each(s \ {z})
        <5>1. s \ {x} \in SUBSET S /\ s \ {z} \in SUBSET S
          BY <2>1
        <5>2. QED  BY <1>4, <4>1, <5>1
      <4>3. (s \ {x}) \ {z} = (s \ {z}) \ {x}
        OBVIOUS
      <4>4. g[s \ {x}] = f[z] + g[(s \ {x}) \ {z}]
        BY <3>2, <3>5, <4>2
      <4>5. g[s \ {z}] = f[x] + g[(s \ {x}) \ {z}]
        BY <2>1, <3>5, <4>2, <4>3
      <4>6. f[x] \in Nat /\ f[z] \in Nat /\ g[(s \ {x}) \ {z}] \in Nat
        BY <3>2
      <4>7. QED  BY <3>3, <4>4, <4>5, <4>6
    <3>6. QED  BY <3>4, <3>5
  <2>2. QED  BY <2>1
<1>5. Nat \subseteq N
  <2> HIDE DEF N
  <2> QED BY <1>3, <1>4, NatSetInduction
<1>6. Each(S)
  BY <1>2, <1>5
<1>7. QED  BY <1>1, <1>6

\* One element more.
LEMMA SumAdd ==
  ASSUME NEW S, IsFiniteSet(S), NEW f, \A x \in S : f[x] \in Nat,
         NEW y, y \notin S, f[y] \in Nat
  PROVE  SumOf(f, S \union {y}) = f[y] + SumOf(f, S)
<1> DEFINE T == S \union {y}
<1>1. IsFiniteSet(T) /\ y \in T /\ T \ {y} = S /\ \A x \in T : f[x] \in Nat
  BY FS_AddElement
<1> HIDE DEF T
<1>2. SumOf(f, T) = f[y] + SumOf(f, T \ {y})
  BY <1>1, SumRemove
<1>3. QED  BY <1>1, <1>2 DEF T

\* Functions that agree on a set have the same sum over it.
LEMMA SumSame ==
  ASSUME NEW S, IsFiniteSet(S), NEW f, NEW h,
         \A x \in S : f[x] \in Nat /\ h[x] = f[x]
  PROVE  SumOf(h, S) = SumOf(f, S)
<1>1. PICK g \in [SUBSET S -> Nat] :
        \A s \in SUBSET S : SumOf(f, s) = g[s] /\ Summed(f, g, s)
  BY SumIsFunction
<1>2. \A s \in SUBSET S : Summed(h, g, s)
  BY <1>1 DEF Summed, TakenFirst
<1>3. SumOf(h, S) = g[S]
  BY <1>2, SumIs
<1>4. QED  BY <1>1, <1>3

\* Fewer elements have a smaller sum.
LEMMA SumMonotone ==
  ASSUME NEW S, IsFiniteSet(S), NEW f, \A x \in S : f[x] \in Nat, NEW T \in SUBSET S
  PROVE  SumOf(f, T) <= SumOf(f, S)
<1> DEFINE Q == {U \in SUBSET S : SumOf(f, U \intersect T) <= SumOf(f, U)}
<1>1. \A U \in SUBSET S : IsFiniteSet(U) /\ SumOf(f, U) \in Nat
  <2>1. ASSUME NEW U \in SUBSET S
        PROVE  IsFiniteSet(U) /\ SumOf(f, U) \in Nat
    <3>1. IsFiniteSet(U) /\ \A x \in U : f[x] \in Nat
      BY FS_Subset
    <3>2. QED  BY <3>1, SumType
  <2>2. QED  BY <2>1
<1>2. {} \in Q
  <2>1. {} \intersect T = {}
    OBVIOUS
  <2>2. SumOf(f, {}) \in Nat
    BY <1>1
  <2>3. QED  BY <2>1, <2>2
<1>3. ASSUME NEW U \in SUBSET S, NEW x \in S, U \in Q, x \notin U
      PROVE  U \union {x} \in Q
  <2>1. SumOf(f, U \union {x}) = f[x] + SumOf(f, U)
    BY <1>1, <1>3, SumAdd
  <2>2. CASE x \in T
    <3>1. (U \union {x}) \intersect T = (U \intersect T) \union {x}
      BY <2>2
    <3>2. /\ IsFiniteSet(U \intersect T) /\ x \notin U \intersect T
          /\ \A y \in U \intersect T : f[y] \in Nat
      <4>1. U \intersect T \in SUBSET S
        OBVIOUS
      <4>2. QED  BY <1>1, <1>3, <4>1
    <3>3. SumOf(f, (U \intersect T) \union {x}) = f[x] + SumOf(f, U \intersect T)
      BY <3>2, SumAdd
    <3>4. f[x] \in Nat /\ SumOf(f, U) \in Nat /\ SumOf(f, U \intersect T) \in Nat
      <4>1. U \intersect T \in SUBSET S
        OBVIOUS
      <4>2. QED  BY <1>1, <4>1
    <3>5. SumOf(f, U \intersect T) <= SumOf(f, U)
      BY <1>3
    <3>6. SumOf(f, (U \union {x}) \intersect T) <= SumOf(f, U \union {x})
      BY <2>1, <3>1, <3>3, <3>4, <3>5
    <3>7. QED  BY <3>6
  <2>3. CASE x \notin T
    <3>1. (U \union {x}) \intersect T = U \intersect T
      BY <2>3
    <3>2. f[x] \in Nat /\ SumOf(f, U) \in Nat /\ SumOf(f, U \intersect T) \in Nat
      <4>1. U \intersect T \in SUBSET S
        OBVIOUS
      <4>2. QED  BY <1>1, <4>1
    <3>3. SumOf(f, U \intersect T) <= SumOf(f, U)
      BY <1>3
    <3>4. SumOf(f, U) <= SumOf(f, U \union {x})
      BY <2>1, <3>2
    <3>5. SumOf(f, (U \union {x}) \intersect T) = SumOf(f, U \intersect T)
      BY <3>1, Zenon
    <3>6. SumOf(f, (U \union {x}) \intersect T) <= SumOf(f, U \union {x})
      <4>1. f[x] + SumOf(f, U) >= SumOf(f, U \intersect T)
        BY <3>2, <3>3
      <4>2. QED  BY <2>1, <3>5, <4>1
    <3>7. QED  BY <3>6
  <2>4. QED  BY <2>2, <2>3
<1>4. S \in Q
  <2> HIDE DEF Q
  <2> QED BY <1>2, <1>3, FiniteSetInduction
<1>5. S \intersect T = T
  OBVIOUS
<1>6. QED  BY <1>4, <1>5

\* One value changed.
LEMMA SumChange ==
  ASSUME NEW S, IsFiniteSet(S), NEW f \in [S -> Nat], NEW h \in [S -> Nat],
         NEW y \in S, \A x \in S : x # y => h[x] = f[x]
  PROVE  SumOf(h, S) = (SumOf(f, S) - f[y]) + h[y]
<1> DEFINE R == S \ {y}
<1>1. \A x \in R : h[x] = f[x]
  OBVIOUS
<1>2. IsFiniteSet(R) /\ \A x \in R : f[x] \in Nat
  BY FS_Subset
<1>3. SumOf(f, S) = f[y] + SumOf(f, R)
  BY SumRemove
<1>4. SumOf(h, S) = h[y] + SumOf(h, R)
  BY <1>1, SumRemove
<1>5. SumOf(h, R) = SumOf(f, R)
  <2> HIDE DEF R
  <2> QED BY <1>1, <1>2, SumSame
<1>6. SumOf(f, R) \in Nat
  <2> HIDE DEF R
  <2> QED BY <1>2, SumType
<1>7. QED  BY <1>1, <1>3, <1>4, <1>5, <1>6

\* A sum of zeros.
LEMMA SumZero ==
  ASSUME NEW S, IsFiniteSet(S), NEW f, \A x \in S : f[x] = 0
  PROVE  SumOf(f, S) = 0
<1> DEFINE g == [s \in SUBSET S |-> 0]
<1>1. g \in [SUBSET S -> Nat] /\ g[S] = 0
  OBVIOUS
<1>2. ASSUME NEW s \in SUBSET S
      PROVE  Summed(f, g, s)
  <2>1. s # {} => TakenFirst(s) \in S /\ s \ {TakenFirst(s)} \in SUBSET S
    BY DEF TakenFirst
  <2>2. QED  BY <2>1 DEF Summed
<1> HIDE DEF g
<1>3. SumOf(f, S) = g[S]
  BY <1>1, <1>2, SumIs
<1>4. QED  BY <1>1, <1>3

-----------------------------------------------------------------------------
(* Sequences: what is before and after, put together and picked out.         *)

\* The least of a set of numbers.
LEMMA MinIs ==
  ASSUME NEW S \in SUBSET Nat, S # {}
  PROVE  Min(S) \in S /\ \A i \in S : Min(S) <= i
<1>1. \E i \in S : \A j \in S : i <= j
  BY LeastNumber
<1>2. QED  BY <1>1 DEF Min

\* Putting sequences one after the other, step by step.
Flattens(T, s, flat) ==
  /\ FlattenSeq(s) = flat[Len(s)]
  /\ \A i \in 1 .. Len(s) :
       flat[i] \in Seq(T) /\ flat[i] = IF i = 1 THEN s[i] ELSE flat[i - 1] \o s[i]

\* FlattenSeq's recursion.
LEMMA FlatSteps ==
  ASSUME NEW T, NEW s \in Seq(Seq(T)), Len(s) # 0
  PROVE  \E flat : Flattens(T, s, flat)
<1> DEFINE n == Len(s)
           D == 1 .. n
           X == Seq(T)
           Body(g, i) == IF i = 1 THEN s[i] ELSE g[i - 1] \o s[i]
           G == [i \in D |-> [g \in [D -> X] |-> Body(g, i)]]
           Eq(f) == f = [i \in D |-> Body(f, i)]
           flatten == CHOOSE f : Eq(f)
           r == [i \in D |-> i]
<1>1. FlattenSeq(s) = flatten[n]
  BY DEF FlattenSeq
<1>2. n \in Nat /\ \A i \in D : s[i] \in X
  OBVIOUS
<1>3. ASSUME NEW i \in D, NEW g, i = 1 \/ g[i - 1] \in X
      PROVE  Body(g, i) \in X
  BY <1>2, <1>3
<1>4. \A i \in D : i = 1 \/ (i - 1 \in D /\ i - 1 < i)
  BY <1>2
<1> HIDE DEF n, X
<1>5. G \in [D -> [[D -> X] -> X]]
  <2>1. \A i \in D : \A g \in [D -> X] : Body(g, i) \in X
    <3> HIDE DEF D, Body
    <3> QED BY <1>3, <1>4
  <2> HIDE DEF D, Body
  <2>2. QED  BY <2>1
<1>6. ASSUME NEW i \in D, NEW g \in [D -> X], NEW h \in [D -> X],
             \A j \in D : r[j] < r[i] => g[j] = h[j]
      PROVE  G[i][g] = G[i][h]
  <2>1. i = 1 \/ g[i - 1] = h[i - 1]
    BY <1>4, <1>6
  <2>2. Body(g, i) = Body(h, i)
    BY <2>1
  <2> HIDE DEF D, Body
  <2>3. QED  BY <2>2
<1>7. r \in [D -> 0 .. n]
  OBVIOUS
<1>8. PICK g : Recursive(D, X, G, g)
  <2>1. X # {}
    <3>1. <<>> \in X
      BY DEF X
    <3>2. QED  BY <3>1
  <2>2. Founded(D, X, G, r)
    <3> HIDE DEF G, D, r
    <3> QED BY <1>6, Zenon DEF Founded
  <2>3. n \in Nat
    BY <1>2
  <2> HIDE DEF G, D, r
  <2>4. QED  BY <1>5, <1>7, <2>1, <2>2, <2>3, Recursion
<1>9. Eq(g)
  <2> HIDE DEF D, Body
  <2> QED BY <1>8 DEF Recursive
<1>10. Eq(flatten)
  <2> HIDE DEF Eq
  <2> QED BY <1>9
<1>11. \A i \in D : flatten[i] = Body(flatten, i)
  <2> HIDE DEF flatten, D, Body
  <2> QED BY <1>10
<1>12. D \subseteq {i \in D : flatten[i] \in X}
  <2> DEFINE S == {i \in D : flatten[i] \in X}
  <2> HIDE DEF flatten
  <2>1. ASSUME NEW i \in D, \A j \in D : j < i => j \in S
        PROVE  i \in S
    <3>1. i = 1 \/ flatten[i - 1] \in X
      BY <1>4, <2>1
    <3>2. Body(flatten, i) \in X
      BY <1>3, <3>1
    <3>3. QED  BY <1>11, <3>2
  <2>2. D \in SUBSET Nat
    BY <1>2
  <2> HIDE DEF S, D
  <2>3. D \subseteq S
    BY <2>1, <2>2, StrongInduction
  <2>4. QED  BY <2>3 DEF S
<1>13. Flattens(T, s, flatten)
  <2> HIDE DEF flatten
  <2>1. \A i \in D : flatten[i] \in X
    BY <1>12
  <2>2. QED  BY <1>1, <1>11, <2>1 DEF Flattens, n, X
<1>14. QED
  <2> HIDE DEF flatten
  <2> QED BY <1>13

\* Sequences one after the other are a sequence of the same things.
LEMMA FlatType ==
  ASSUME NEW T, NEW s \in Seq(Seq(T))
  PROVE  FlattenSeq(s) \in Seq(T)
<1>1. CASE Len(s) = 0
  <2>1. FlattenSeq(s) = s
    BY <1>1 DEF FlattenSeq
  <2>2. s = <<>>
    BY <1>1
  <2>3. QED  BY <2>1, <2>2
<1>2. CASE Len(s) # 0
  <2>1. PICK flat : Flattens(T, s, flat)
    BY <1>2, FlatSteps
  <2>2. Len(s) \in 1 .. Len(s)
    BY <1>2
  <2>3. QED  BY <2>1, <2>2 DEF Flattens
<1>3. QED  BY <1>1, <1>2

\* What is in e after position a, up to b.
Span(e, a, b) == {e[k] : k \in {j \in 1 .. Len(e) : j > a /\ j <= b}}

\* m is s with that after it, and has nothing twice.
Followed(s, e, a, b) == s \o SubSeq(e, a + 1, b)

Widens(m, s, e, a, b) == IsInjective(m) /\ Range(m) = Range(s) \union Span(e, a, b)

\* What is appended to entries seen: those from one offset to another.
LEMMA MoreSeen ==
  ASSUME NEW T, NEW e \in Seq(T), IsInjective(e), NEW s \in Seq(T), IsInjective(s),
         NEW a \in Nat, NEW b \in Nat, a <= b, b <= Len(e),
         Span(e, a, Len(e)) \cap Range(s) = {}
  PROVE  Widens(Followed(s, e, a, b), s, e, a, b)
<1> DEFINE part == SubSeq(e, a + 1, b)
           more == Followed(s, e, a, b)
           m == Len(s)
           n == b - a
<1>1. /\ Len(e) \in Nat /\ DOMAIN e = 1 .. Len(e)
      /\ m \in Nat /\ DOMAIN s = 1 .. m
  OBVIOUS
<1>2. n \in Nat /\ a + n = b /\ n = b - (a + 1) + 1 /\ a + 1 \in Int /\ b \in Int
  OBVIOUS
<1>3. /\ part \in Seq(T) /\ Len(part) = n
      /\ \A k \in 1 .. n : part[k] = e[a + k]
  <2>1. \A k \in a + 1 .. b : e[k] \in T
    BY <1>1
  <2>2. /\ part \in Seq(T)
        /\ Len(part) = IF a + 1 <= b THEN b - (a + 1) + 1 ELSE 0
        /\ \A k \in 1 .. b - (a + 1) + 1 : part[k] = e[a + 1 + k - 1]
    BY <1>2, <2>1, SubSeqProperties
  <2>3. Len(part) = n
    BY <1>2, <2>2
  <2>4. \A k \in 1 .. n : a + 1 + k - 1 = a + k
    BY <1>2
  <2>5. QED  BY <1>2, <2>2, <2>3, <2>4
<1> HIDE DEF part
<1>4. /\ more \in Seq(T) /\ DOMAIN more = 1 .. m + n
      /\ \A k \in 1 .. m : more[k] = s[k]
      /\ \A k \in 1 .. n : more[m + k] = part[k]
  <2>1. more = s \o part
    BY DEF part, Followed
  <2> HIDE DEF more
  <2>2. s \o part \in Seq(T) /\ Len(s \o part) = Len(s) + Len(part)
    BY <1>3, ConcatProperties
  <2>3. /\ \A k \in 1 .. m : more[k] = s[k]
        /\ \A k \in 1 .. n : more[m + k] = part[k]
    BY <1>1, <1>2, <1>3, <2>1, ConcatProperties
  <2> HIDE DEF n
  <2>4. DOMAIN more = 1 .. m + n
    BY <1>3, <2>1, <2>2
  <2>5. QED  BY <1>3, <2>1, <2>2, <2>3, <2>4
<1> HIDE DEF more, m, n
<1>5. \A k \in 1 .. m + n : k \in 1 .. m \/ (k - m \in 1 .. n /\ m + (k - m) = k)
  BY <1>1, <1>2
<1>6. \A k \in 1 .. n : a + k \in 1 .. Len(e) /\ a + k > a /\ a + k <= b
  BY <1>1, <1>2
<1>7. \A k \in 1 .. m : more[k] = s[k] /\ s[k] \in Range(s)
  BY <1>1, <1>4 DEF Range
<1>8. \A k \in 1 .. m + n : k \notin 1 .. m =>
        /\ more[k] = e[a + (k - m)] /\ a + (k - m) \in 1 .. Len(e)
        /\ a + (k - m) > a /\ a + (k - m) <= b
  BY <1>3, <1>4, <1>5, <1>6
<1>9. ASSUME NEW x \in Range(more)
      PROVE  x \in Range(s) \union Span(e, a, b)
  <2>1. PICK k \in 1 .. m + n : x = more[k]
    BY <1>4 DEF Range
  <2>2. CASE k \in 1 .. m
    BY <1>7, <2>1, <2>2
  <2>3. CASE k \notin 1 .. m
    BY <1>8, <2>1, <2>3 DEF Span
  <2>4. QED  BY <2>2, <2>3
<1>10. \A k \in 1 .. Len(e) : k > a /\ k <= b => e[k] \in Range(more)
  <2>1. SUFFICES ASSUME NEW k \in 1 .. Len(e), k > a, k <= b
                 PROVE  e[k] \in Range(more)
    OBVIOUS
  <2>2. k - a \in 1 .. n /\ a + (k - a) = k /\ m + (k - a) \in 1 .. m + n
    BY <1>1, <1>2, <2>1
  <2>3. more[m + (k - a)] = e[k]
    BY <1>3, <1>4, <2>2
  <2>4. QED  BY <1>4, <2>2, <2>3 DEF Range
<1>11. Range(s) \subseteq Range(more)
  <2>1. 1 .. m \subseteq 1 .. m + n
    BY <1>1, <1>2
  <2>2. QED  BY <1>1, <1>4, <2>1 DEF Range
<1>15. \A k \in 1 .. Len(e) : k > a => e[k] \notin Range(s)
  BY <1>1 DEF Span
<1>12. IsInjective(more)
  <2>1. ASSUME NEW j \in 1 .. m + n, NEW k \in 1 .. m + n, more[j] = more[k]
        PROVE  j = k
    <3>1. CASE j \in 1 .. m /\ k \in 1 .. m
      BY <1>1, <1>7, <2>1, <3>1 DEF IsInjective
    <3>2. CASE j \in 1 .. m /\ k \notin 1 .. m
      BY <1>7, <1>8, <1>15, <2>1, <3>2
    <3>3. CASE j \notin 1 .. m /\ k \in 1 .. m
      BY <1>7, <1>8, <1>15, <2>1, <3>3
    <3>4. CASE j \notin 1 .. m /\ k \notin 1 .. m
      <4>1. /\ e[a + (j - m)] = e[a + (k - m)]
            /\ a + (j - m) \in DOMAIN e /\ a + (k - m) \in DOMAIN e
        BY <1>1, <1>8, <2>1, <3>4
      <4>2. a + (j - m) = a + (k - m)
        BY <4>1 DEF IsInjective
      <4>3. QED  BY <1>1, <1>2, <4>2
    <3>5. QED  BY <3>1, <3>2, <3>3, <3>4
  <2>2. QED  BY <1>4, <2>1 DEF IsInjective
<1>13. Span(e, a, b) \subseteq Range(more)
  BY <1>10 DEF Span
<1>14. QED  BY <1>9, <1>11, <1>12, <1>13 DEF more, Widens

\* What a longer sequence has.
LEMMA RangeAppend ==
  ASSUME NEW S, NEW s \in Seq(S), NEW e \in S
  PROVE  Range(Append(s, e)) = Range(s) \union {e}
<1> DEFINE a == Append(s, e)
           n == Len(s)
<1>1. /\ n \in Nat /\ DOMAIN s = 1 .. n /\ DOMAIN a = 1 .. n + 1
      /\ \A i \in 1 .. n : a[i] = s[i]
      /\ a[n + 1] = e
  BY AppendProperties
<1> HIDE DEF a, n
<1>2. 1 .. n + 1 = (1 .. n) \union {n + 1}
  BY <1>1
<1>3. \A y \in Range(a) : y \in Range(s) \union {e}
  BY <1>1, <1>2 DEF Range
<1>4. \A y \in Range(s) : y \in Range(a)
  BY <1>1, <1>2 DEF Range
<1>5. e \in Range(a)
  BY <1>1, <1>2 DEF Range
<1>6. QED  BY <1>3, <1>4, <1>5 DEF a

\* How a path begins.
LEMMA Beginning ==
  ASSUME NEW S, NEW s \in Seq(S), NEW a, NEW b, NEW c
  PROVE  Len(s) > Len(<<a, b, c>>) /\ SubSeq(s, 1, Len(<<a, b, c>>)) = <<a, b, c>>
           <=> Len(s) > 3 /\ s[1] = a /\ s[2] = b /\ s[3] = c
<1>1. Len(<<a, b, c>>) = 3 /\ Len(s) \in Nat
  OBVIOUS
<1>2. CASE Len(s) > 3
  <2> DEFINE u == SubSeq(s, 1, 3)
             v == <<a, b, c>>
  <2>1. u \in Seq(S) /\ Len(u) = 3 /\ \A i \in 1 .. 3 : u[i] = s[i]
    BY <1>2
  <2>2. v[1] = a /\ v[2] = b /\ v[3] = c /\ Len(v) = 3 /\ v \in Seq({a, b, c})
    OBVIOUS
  <2> HIDE DEF u, v
  <2>3. 1 \in 1 .. 3 /\ 2 \in 1 .. 3 /\ 3 \in 1 .. 3
    OBVIOUS
  <2>4. u = v => s[1] = a /\ s[2] = b /\ s[3] = c
    BY <2>1, <2>2, <2>3
  <2>5. ASSUME s[1] = a, s[2] = b, s[3] = c
        PROVE  u = v
    <3>1. \A i \in 1 .. 3 : i = 1 \/ i = 2 \/ i = 3
      OBVIOUS
    <3>2. \A i \in 1 .. 3 : u[i] = v[i]
      BY <2>1, <2>2, <2>5, <3>1
    <3> DEFINE T == S \union {a, b, c}
    <3> HIDE DEF T
    <3>3. u \in Seq(T) /\ v \in Seq(T)
      BY <2>1, <2>2 DEF T
    <3>4. QED  BY <2>1, <2>2, <3>2, <3>3, SeqEqual
  <2>6. QED  BY <1>1, <1>2, <2>4, <2>5 DEF u, v
<1>3. QED  BY <1>1, <1>2

\* All of a path but its last name.
LEMMA FrontIs ==
  ASSUME NEW S, NEW s \in Seq(S), Len(s) > 0
  PROVE  /\ Front(s) \in Seq(S) /\ Last(s) \in S /\ Len(Front(s)) = Len(s) - 1
         /\ Last(s) = s[Len(s)] /\ \A i \in 1 .. Len(s) - 1 : Front(s)[i] = s[i]
<1>1. /\ SubSeq(s, 1, Len(s) - 1) \in Seq(S)
      /\ Len(SubSeq(s, 1, Len(s) - 1)) = Len(s) - 1
      /\ \A i \in 1 .. Len(s) - 1 : SubSeq(s, 1, Len(s) - 1)[i] = s[i]
  <2> DEFINE m == Len(s) - 1
             u == SubSeq(s, 1, m)
  <2>1. m \in Nat /\ m < Len(s)
    OBVIOUS
  <2> HIDE DEF m
  <2>2. \A i \in 1 .. m : s[i] \in S
    BY <2>1
  <2>3. u \in Seq(S) /\ Len(u) = m
    BY <2>1, <2>2
  <2>4. \A i \in 1 .. m : u[i] = s[i]
    BY <2>1
  <2>5. QED  BY <2>3, <2>4 DEF m
<1>2. s[Len(s)] \in S
  OBVIOUS
<1>3. QED  BY <1>1, <1>2 DEF Front, Last

\* A path with a name more.
LEMMA OneName ==
  ASSUME NEW S, NEW s \in Seq(S), NEW n \in S
  PROVE  /\ Append(s, n) \in Seq(S) /\ Len(Append(s, n)) = Len(s) + 1 /\ Len(s) \in Nat
         /\ \A i \in 1 .. Len(s) : Append(s, n)[i] = s[i]
         /\ Append(s, n)[Len(s) + 1] = n
OBVIOUS

\* One name after one name.
LEMMA TwoNames == \A a, b : Append(<<a>>, b) = <<a, b>>
<1> SUFFICES ASSUME NEW a, NEW b PROVE Append(<<a>>, b) = <<a, b>>
  OBVIOUS
<1> DEFINE S == {a, b}
           u == Append(<<a>>, b)
           v == <<a, b>>
<1>1. <<a>> \in Seq(S) /\ b \in S /\ Len(<<a>>) = 1 /\ <<a>>[1] = a
  OBVIOUS
<1>2. v \in Seq(S) /\ Len(v) = 2 /\ v[1] = a /\ v[2] = b
  OBVIOUS
<1> DEFINE o == <<a>>
<1> HIDE DEF S, o, v
<1>3. o \in Seq(S) /\ b \in S /\ Len(o) = 1 /\ o[1] = a
  BY <1>1 DEF o
<1>4. /\ Append(o, b) \in Seq(S) /\ Len(Append(o, b)) = 2
      /\ Append(o, b)[1] = a /\ Append(o, b)[2] = b
  <2>0. \A s \in Seq(S), n \in S :
          /\ Append(s, n) \in Seq(S) /\ Len(Append(s, n)) = Len(s) + 1
          /\ \A i \in 1 .. Len(s) : Append(s, n)[i] = s[i]
          /\ Append(s, n)[Len(s) + 1] = n
    BY OneName
  <2>1. /\ Append(o, b) \in Seq(S) /\ Len(Append(o, b)) = Len(o) + 1
        /\ \A i \in 1 .. Len(o) : Append(o, b)[i] = o[i]
        /\ Append(o, b)[Len(o) + 1] = b
    BY <1>3, <2>0, Zenon
  <2>2. Len(o) + 1 = 2 /\ 1 \in 1 .. Len(o)
    BY <1>3
  <2>3. QED  BY <1>3, <2>1, <2>2
<1>5. \A i \in 1 .. 2 : Append(o, b)[i] = v[i]
  <2>1. \A i \in 1 .. 2 : i = 1 \/ i = 2
    OBVIOUS
  <2>2. QED  BY <1>2, <1>4, <2>1
<1>6. Append(o, b) = v
  BY <1>2, <1>4, <1>5, SeqEqual
<1>7. QED  BY <1>6 DEF o, v

\* A sequence has one last element, and what is before it.
LEMMA SameAppend ==
  ASSUME NEW S, NEW s \in Seq(S), NEW m \in S, NEW r \in Seq(S), NEW n \in S,
         Append(s, m) = Append(r, n)
  PROVE  s = r /\ m = n
<1>1. Len(s) = Len(r)
  BY OneName
<1>2. m = n
  BY <1>1, OneName
<1>3. \A i \in 1 .. Len(s) : s[i] = r[i]
  BY <1>1, OneName
<1>4. QED  BY <1>1, <1>2, <1>3

\* The beginnings of a sequence.
LEMMA PrefixIs ==
  ASSUME NEW S, NEW s \in Seq(S), NEW k \in 0 .. Len(s)
  PROVE  /\ SubSeq(s, 1, k) \in Seq(S) /\ Len(SubSeq(s, 1, k)) = k
         /\ \A i \in 1 .. k : SubSeq(s, 1, k)[i] = s[i]
<1> DEFINE u == SubSeq(s, 1, k)
<1>1. k \in Nat /\ k <= Len(s) /\ \A i \in 1 .. k : s[i] \in S
  OBVIOUS
<1>2. u \in Seq(S) /\ Len(u) = k
  BY <1>1
<1>3. \A i \in 1 .. k : u[i] = s[i]
  BY <1>1
<1>4. QED  BY <1>2, <1>3

\* The shortest is empty, the longest is all of it, each has one more than the
\* one before, and a beginning of a beginning is one.
LEMMA PrefixSteps ==
  ASSUME NEW S, NEW s \in Seq(S)
  PROVE  /\ SubSeq(s, 1, 0) = <<>> /\ SubSeq(s, 1, Len(s)) = s
         /\ \A k \in 1 .. Len(s) : SubSeq(s, 1, k) = Append(SubSeq(s, 1, k - 1), s[k])
         /\ \A k \in 0 .. Len(s) : \A j \in 0 .. k :
              SubSeq(SubSeq(s, 1, k), 1, j) = SubSeq(s, 1, j)
<1>1. Len(s) \in Nat /\ \A i \in 1 .. Len(s) : s[i] \in S
  OBVIOUS
<1>2. SubSeq(s, 1, 0) = <<>>
  BY <1>1, PrefixIs
<1>3. SubSeq(s, 1, Len(s)) = s
  <2> DEFINE u == SubSeq(s, 1, Len(s))
  <2>1. u \in Seq(S) /\ Len(u) = Len(s) /\ \A i \in 1 .. Len(s) : u[i] = s[i]
    BY <1>1, PrefixIs
  <2> HIDE DEF u
  <2>2. u = s
    BY <2>1
  <2>3. QED  BY <2>2 DEF u
<1>4. ASSUME NEW k \in 1 .. Len(s)
      PROVE  SubSeq(s, 1, k) = Append(SubSeq(s, 1, k - 1), s[k])
  <2> DEFINE u == SubSeq(s, 1, k)
             v == SubSeq(s, 1, k - 1)
             w == Append(v, s[k])
  <2>1. /\ k \in Nat /\ k - 1 \in 0 .. Len(s) /\ k \in 0 .. Len(s) /\ s[k] \in S
        /\ k - 1 + 1 = k
    BY <1>1
  <2>2. u \in Seq(S) /\ Len(u) = k /\ \A i \in 1 .. k : u[i] = s[i]
    BY <2>1, PrefixIs
  <2>3. v \in Seq(S) /\ Len(v) = k - 1 /\ \A i \in 1 .. k - 1 : v[i] = s[i]
    <3> DEFINE m == k - 1
    <3>1. m \in 0 .. Len(s)
      BY <2>1
    <3> HIDE DEF m
    <3>2. SubSeq(s, 1, m) \in Seq(S) /\ Len(SubSeq(s, 1, m)) = m
          /\ \A i \in 1 .. m : SubSeq(s, 1, m)[i] = s[i]
      BY <3>1, PrefixIs
    <3>3. QED  BY <3>2 DEF m
  <2> HIDE DEF u, v
  <2>4. /\ w \in Seq(S) /\ Len(w) = k
        /\ \A i \in 1 .. k - 1 : w[i] = v[i]
        /\ w[k] = s[k]
    BY <2>1, <2>3, OneName
  <2>5. \A i \in 1 .. k : w[i] = u[i]
    <3>1. \A i \in 1 .. k : i = k \/ i \in 1 .. k - 1
      BY <2>1
    <3> HIDE DEF w
    <3>2. QED  BY <2>1, <2>2, <2>3, <2>4, <3>1
  <2> HIDE DEF w
  <2>6. u = w
    BY <2>2, <2>4, <2>5
  <2>7. QED  BY <2>6 DEF u, v, w
<1>5. ASSUME NEW k \in 0 .. Len(s), NEW j \in 0 .. k
      PROVE  SubSeq(SubSeq(s, 1, k), 1, j) = SubSeq(s, 1, j)
  <2> DEFINE u == SubSeq(s, 1, k)
             v == SubSeq(s, 1, j)
             w == SubSeq(u, 1, j)
  <2>1. k \in Nat /\ j \in Nat /\ j \in 0 .. Len(s) /\ j <= k
    BY <1>1
  <2>2. u \in Seq(S) /\ Len(u) = k /\ \A i \in 1 .. k : u[i] = s[i]
    BY PrefixIs
  <2>3. v \in Seq(S) /\ Len(v) = j /\ \A i \in 1 .. j : v[i] = s[i]
    BY <2>1, PrefixIs
  <2> HIDE DEF u, v
  <2>4. w \in Seq(S) /\ Len(w) = j /\ \A i \in 1 .. j : w[i] = u[i]
    BY <2>2, PrefixIs
  <2> HIDE DEF w
  <2>5. w = v
    BY <2>1, <2>2, <2>3, <2>4
  <2>6. QED  BY <2>5 DEF u, v, w
<1>6. QED  BY <1>2, <1>3, <1>4, <1>5

\* What is in one of two sequences is in both together.
LEMMA BothRanges ==
  ASSUME NEW T, NEW r \in Seq(T), NEW s \in Seq(T)
  PROVE  Range(r) \subseteq Range(r \o s) /\ Range(s) \subseteq Range(r \o s)
<1>1. /\ Len(r) \in Nat /\ Len(s) \in Nat /\ DOMAIN r = 1 .. Len(r) /\ DOMAIN s = 1 .. Len(s)
      /\ DOMAIN (r \o s) = 1 .. Len(r) + Len(s)
      /\ \A i \in 1 .. Len(r) : (r \o s)[i] = r[i]
      /\ \A i \in 1 .. Len(s) : (r \o s)[Len(r) + i] = s[i]
  OBVIOUS
<1> DEFINE b == r \o s
<1> HIDE DEF b
<1>2. /\ \A i \in DOMAIN r : i \in DOMAIN b /\ b[i] = r[i]
      /\ \A i \in DOMAIN s : Len(r) + i \in DOMAIN b /\ b[Len(r) + i] = s[i]
  BY <1>1 DEF b
<1>3. QED  BY <1>2 DEF Range, b

\* Putting sequences one after the other loses nothing.
LEMMA FlatRange ==
  ASSUME NEW T, NEW s \in Seq(Seq(T)), NEW k \in 1 .. Len(s)
  PROVE  Range(s[k]) \subseteq Range(FlattenSeq(s))
<1> DEFINE n == Len(s)
<1>1. n \in Nat /\ n # 0 /\ \A i \in 1 .. n : s[i] \in Seq(T)
  OBVIOUS
<1>2. PICK flat : Flattens(T, s, flat)
  BY <1>1, FlatSteps
<1>3. /\ FlattenSeq(s) = flat[n]
      /\ \A i \in 1 .. n :
           flat[i] \in Seq(T) /\ flat[i] = IF i = 1 THEN s[i] ELSE flat[i - 1] \o s[i]
  BY <1>2 DEF Flattens
<1> HIDE DEF n
<1> DEFINE S == {m \in 0 .. n : k <= m => Range(s[k]) \subseteq Range(flat[m])}
<1>4. 0 \in S
  BY <1>1 DEF n
<1>5. ASSUME NEW m \in 1 .. n, m - 1 \in S
      PROVE  m \in S
  <2>1. ASSUME k <= m
        PROVE  Range(s[k]) \subseteq Range(flat[m])
    <3>1. CASE m = 1
      <4>1. k = 1 /\ flat[1] = s[1]
        BY <1>3, <2>1, <3>1 DEF n
      <4>2. QED  BY <3>1, <4>1
    <3>2. CASE m # 1
      <4>1. /\ m - 1 \in 1 .. n /\ flat[m - 1] \in Seq(T) /\ s[m] \in Seq(T)
            /\ flat[m] = flat[m - 1] \o s[m]
        <5>1. m - 1 \in 1 .. n
          BY <1>1, <3>2
        <5>2. \A i \in 1 .. n : s[i] \in Seq(T)
          BY <1>1 DEF n
        <5>3. QED  BY <1>3, <3>2, <5>1, <5>2
      <4>2. Range(flat[m - 1]) \subseteq Range(flat[m]) /\ Range(s[m]) \subseteq Range(flat[m])
        BY <4>1, BothRanges
      <4>3. k = m \/ Range(s[k]) \subseteq Range(flat[m - 1])
        BY <1>1, <1>5, <2>1 DEF n
      <4>4. QED  BY <4>2, <4>3
    <3>3. QED  BY <3>1, <3>2
  <2>2. m \in 0 .. n
    BY <1>1
  <2>3. QED  BY <2>1, <2>2
<1>6. n \in S
  <2> HIDE DEF S
  <2>1. 0 .. n \subseteq S
    BY <1>1, <1>4, <1>5, IntervalInduction
  <2>2. QED  BY <1>1, <2>1
<1>7. k <= n
  BY <1>1 DEF n
<1>8. QED  BY <1>3, <1>6, <1>7
=============================================================================
