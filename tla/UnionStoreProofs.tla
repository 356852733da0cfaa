-------------------------- MODULE UnionStoreProofs --------------------------
(***************************************************************************)
(* Theorems about UnionStore, for any clients, documents and limits: a     *)
(* find returns the first documents of all that it read, a save overwrites *)
(* only what its client had read, and every version is in the history,     *)
(* apart from the exceptions that the two properties name.                 *)
(*                                                                         *)
(* The merge of two lists is defined by recursion.  What it computes is    *)
(* shown by induction, and the library's induction theorems are about      *)
(* operators, which none of the backends can instantiate.  They are stated *)
(* here of sets and functions instead, from the well-foundedness of <.     *)
(***************************************************************************)
EXTENDS UnionStore, FiniteSetTheorems, SequenceTheorems, WellFoundedInduction, TLAPS

LEMMA Minimum ==
    ASSUME NEW T, T \subseteq Nat, T # {}
    PROVE  \E k \in T : \A j \in T : k <= j
<1> DEFINE R == {ss \in Nat \X Nat : ss[1] < ss[2]}
<1>1. IsWellFoundedOn(R, Nat)
  BY NatLessThanWellFounded DEF OpToRel
<1>2. \E k \in T : \A j \in T : ~(<<j, k>> \in R)
  <2> HIDE DEF R
  <2> QED
    BY <1>1, WFMin
<1>3. \A j, k \in T : ~(<<j, k>> \in R) => k <= j
  OBVIOUS
<1> HIDE DEF R
<1> QED
  BY <1>2, <1>3

LEMMA Maximum ==
    ASSUME NEW n \in Nat, NEW T, T \subseteq 1..n, T # {}
    PROVE  Max(T) \in T
<1> DEFINE U == {k \in Nat : n - k \in T}
<1>1. U # {}
  <2>1. PICK j \in T : TRUE
    OBVIOUS
  <2>2. n - j \in Nat /\ n - (n - j) = j
    BY <2>1
  <2> QED
    BY <2>1, <2>2
<1>2. PICK k \in U : \A j \in U : k <= j
  <2>1. U \subseteq Nat
    OBVIOUS
  <2> HIDE DEF U
  <2> QED
    BY <1>1, <2>1, Minimum
<1>3. n - k \in T /\ \A y \in T : n - k >= y
  <2> SUFFICES ASSUME NEW y \in T PROVE n - k >= y
    OBVIOUS
  <2>1. n - y \in Nat /\ n - (n - y) = y /\ y \in Nat
    OBVIOUS
  <2>2. k <= n - y
    BY <1>2, <2>1
  <2> QED
    BY <1>2, <2>1, <2>2
<1> QED
  BY <1>3 DEF Max

\* Induction over the numbers, for a set.
LEMMA SetInduction ==
    ASSUME NEW T, 0 \in T, \A k \in Nat : k \in T => k + 1 \in T
    PROVE  \A k \in Nat : k \in T
<1> DEFINE U == Nat \ T
<1> SUFFICES ASSUME U # {} PROVE FALSE
  OBVIOUS
<1>1. PICK k \in U : \A j \in U : k <= j
  <2>1. U \subseteq Nat
    OBVIOUS
  <2> HIDE DEF U
  <2> QED
    BY <2>1, Minimum
<1>2. k \in Nat /\ k # 0 /\ k \notin T
  BY <1>1
<1>3. k - 1 \in Nat /\ ~(k <= k - 1) /\ (k - 1) + 1 = k
  BY <1>2
<1>4. k - 1 \in T
  BY <1>1, <1>3
<1> QED
  BY <1>2, <1>3, <1>4

\* A function defined by recursion over the numbers up to n exists.
LEMMA Recursion ==
    ASSUME NEW n \in Nat, NEW step \in [Nat \X Nat -> Nat]
    PROVE  \E f \in [0..n -> Nat] :
              f[0] = 0 /\ \A k \in 1..n : f[k] = step[<<k, f[k - 1]>>]
<1> DEFINE Is(f, m) == f[0] = 0 /\ \A k \in 1..m : f[k] = step[<<k, f[k - 1]>>]
           T == {m \in Nat : \E f \in [0..m -> Nat] : Is(f, m)}
<1>1. 0 \in T
  <2> DEFINE zero == [k \in 0..0 |-> 0]
  <2>1. zero \in [0..0 -> Nat] /\ zero[0] = 0
    OBVIOUS
  <2>2. \A k \in 1..0 : FALSE
    OBVIOUS
  <2>3. Is(zero, 0)
    BY <2>1, <2>2
  <2> HIDE DEF zero, Is
  <2> QED
    BY <2>1, <2>3
<1>2. ASSUME NEW m \in Nat, m \in T PROVE m + 1 \in T
  <2>1. PICK f \in [0..m -> Nat] : Is(f, m)
    BY <1>2
  <2> DEFINE g == [k \in 0..(m + 1) |-> IF k <= m THEN f[k] ELSE step[<<m + 1, f[m]>>]]
  <2>2. f[m] \in Nat /\ step[<<m + 1, f[m]>>] \in Nat
    OBVIOUS
  <2>3. g \in [0..(m + 1) -> Nat]
    BY <2>2
  <2>4. \A k \in 1..m : g[k] = f[k] /\ g[k - 1] = f[k - 1]
    OBVIOUS
  <2>5. g[0] = f[0] /\ g[m + 1] = step[<<m + 1, f[m]>>] /\ g[m] = f[m] /\ (m + 1) - 1 = m
    OBVIOUS
  <2> HIDE DEF g
  <2>6. ASSUME NEW k \in 1..(m + 1) PROVE g[k] = step[<<k, g[k - 1]>>]
    <3>1. CASE k = m + 1
      BY <2>5, <3>1
    <3>2. CASE k # m + 1
      <4>1. k \in 1..m
        BY <3>2
      <4> QED
        BY <2>1, <2>4, <4>1
    <3> QED
      BY <3>1, <3>2
  <2>7. Is(g, m + 1)
    BY <2>1, <2>5, <2>6
  <2>8. m + 1 \in Nat
    OBVIOUS
  <2> HIDE DEF Is
  <2> QED
    BY <2>3, <2>7, <2>8, Zenon
<1> HIDE DEF T
<1>3. n \in T
  BY <1>1, <1>2, SetInduction
<1> QED
  BY <1>3 DEF T

-----------------------------------------------------------------------------
(* The merge *)

\* What the step k of the merge does, from i of the head's and j of the tail's.
TakesOne(a, b, o, k, i) == IF Takes(a, b, o, i, k - 1 - i) THEN i + 1 ELSE i

\* The recursive definition has a solution.
LEMMA TakenSteps ==
    ASSUME NEW D, NEW a \in Seq(D), NEW b \in Seq(D), NEW o
    PROVE  LET n == Len(a) + Len(b)
               t == Taken(a, b, o)
           IN  /\ t \in [0..n -> Nat]
               /\ t[0] = 0
               /\ \A k \in 1..n : t[k] = TakesOne(a, b, o, k, t[k - 1])
<1> DEFINE n == Len(a) + Len(b)
           Rule(f, k) == IF k = 0 THEN 0
                         ELSE LET i == f[k - 1]
                              IN  IF Takes(a, b, o, i, k - 1 - i) THEN i + 1 ELSE i
           Solves(f) == f = [k \in 0..n |-> Rule(f, k)]
           step == [at \in Nat \X Nat |-> TakesOne(a, b, o, at[1], at[2])]
<1>1. n \in Nat
  OBVIOUS
<1>2. step \in [Nat \X Nat -> Nat]
  BY DEF TakesOne
<1>3. PICK f \in [0..n -> Nat] : f[0] = 0 /\ \A k \in 1..n : f[k] = step[<<k, f[k - 1]>>]
  <2> HIDE DEF n, step
  <2> QED
    BY <1>1, <1>2, Recursion
<1>4. \A k \in 1..n : f[k] = Rule(f, k)
  <2> SUFFICES ASSUME NEW k \in 1..n PROVE f[k] = Rule(f, k)
    OBVIOUS
  <2>1. k \in Nat /\ k # 0 /\ k - 1 \in 0..n
    BY <1>1
  <2>2. f[k - 1] \in Nat
    BY <2>1, <1>3
  <2>3. f[k] = TakesOne(a, b, o, k, f[k - 1])
    BY <1>3, <2>1, <2>2
  <2> QED
    BY <2>1, <2>3 DEF TakesOne
<1>5. Solves(f)
  <2>1. \A k \in 0..n : f[k] = Rule(f, k)
    <3>1. \A k \in 0..n : k = 0 \/ k \in 1..n
      BY <1>1
    <3>2. f[0] = Rule(f, 0)
      BY <1>3
    <3> HIDE DEF n, Rule
    <3> QED
      BY <1>4, <3>1, <3>2
  <2> HIDE DEF n, Rule
  <2> QED
    BY <1>3, <2>1
<1>6. Taken(a, b, o) = CHOOSE g : Solves(g)
  BY DEF Taken
<1>7. Solves(Taken(a, b, o))
  <2> HIDE DEF Solves
  <2> QED
    BY <1>5, <1>6
<1>8. Taken(a, b, o) = [k \in 0..n |-> Rule(Taken(a, b, o), k)]
  BY <1>7
<1> DEFINE t == Taken(a, b, o)
<1>9. t[0] = 0
  <2>1. 0 \in 0..n
    BY <1>1
  <2> HIDE DEF n, t
  <2> QED
    BY <2>1, <1>8 DEF t
<1>10. \A k \in 1..n : t[k] = TakesOne(a, b, o, k, t[k - 1])
  <2> SUFFICES ASSUME NEW k \in 1..n PROVE t[k] = TakesOne(a, b, o, k, t[k - 1])
    OBVIOUS
  <2>1. k \in 0..n /\ k # 0
    BY <1>1
  <2>2. t[k] = Rule(t, k)
    <3> HIDE DEF n, Rule
    <3> QED
      BY <2>1, <1>8
  <2> QED
    BY <2>1, <2>2 DEF TakesOne
<1>11. t \in [0..n -> Nat]
  <2> DEFINE T == {k \in Nat : k <= n => t[k] \in Nat}
  <2>1. 0 \in T
    BY <1>9
  <2>2. ASSUME NEW k \in Nat, k \in T PROVE k + 1 \in T
    <3> SUFFICES ASSUME k + 1 <= n PROVE t[k + 1] \in Nat
      BY <2>2
    <3>1. k + 1 \in 1..n /\ (k + 1) - 1 = k /\ k <= n
      BY <1>1
    <3>2. t[k] \in Nat
      BY <2>2, <3>1
    <3>3. t[k + 1] = TakesOne(a, b, o, k + 1, t[k])
      <4> HIDE DEF t, n
      <4> QED
        BY <1>10, <3>1
    <3> HIDE DEF t, n
    <3> QED
      BY <3>2, <3>3 DEF TakesOne
  <2>3. \A k \in Nat : k \in T
    <3> HIDE DEF T
    <3> QED
      BY <2>1, <2>2, SetInduction
  <2>4. \A k \in 0..n : t[k] \in Nat
    BY <2>3, <1>1
  <2> HIDE DEF n, Rule
  <2> QED
    BY <1>8, <2>4
<1> QED
  BY <1>9, <1>10, <1>11

\* The merge never takes more than there is, and a step takes the next of one
\* of the two: the head's, if the tail's is not smaller.
LEMMA TakenBounds ==
    ASSUME NEW D, NEW a \in Seq(D), NEW b \in Seq(D), NEW o
    PROVE  LET n == Len(a) + Len(b)
               t == Taken(a, b, o)
           IN  /\ t[0] = 0
               /\ \A k \in 0..n : t[k] \in 0..Len(a) /\ k - t[k] \in 0..Len(b)
               /\ \A k \in 1..n :
                    LET i == t[k - 1]
                        j == k - 1 - i
                    IN  \/ /\ t[k] = i + 1 /\ i + 1 \in 1..Len(a)
                           /\ j < Len(b) => ~Less(o, b[j + 1], a[i + 1])
                        \/ /\ t[k] = i /\ j + 1 \in 1..Len(b)
                           /\ i < Len(a) => Less(o, b[j + 1], a[i + 1])
<1> DEFINE n == Len(a) + Len(b)
           t == Taken(a, b, o)
           Bounded(k) == t[k] \in 0..Len(a) /\ k - t[k] \in 0..Len(b)
           Step(k) ==
              LET i == t[k - 1]
                  j == k - 1 - i
              IN  \/ /\ t[k] = i + 1 /\ i + 1 \in 1..Len(a)
                     /\ j < Len(b) => ~Less(o, b[j + 1], a[i + 1])
                  \/ /\ t[k] = i /\ j + 1 \in 1..Len(b)
                     /\ i < Len(a) => Less(o, b[j + 1], a[i + 1])
<1>1. Len(a) \in Nat /\ Len(b) \in Nat /\ n \in Nat
  OBVIOUS
<1>2. t[0] = 0 /\ \A k \in 1..n : t[k] = TakesOne(a, b, o, k, t[k - 1])
  BY TakenSteps
<1> HIDE DEF t
<1>3. ASSUME NEW k \in 1..n, Bounded(k - 1) PROVE Bounded(k) /\ Step(k)
  <2>0. PICK i \in 0..Len(a) : i = t[k - 1]
    BY <1>3
  <2>1. PICK j \in 0..Len(b) : j = k - 1 - i /\ k = i + j + 1 /\ k <= Len(a) + Len(b)
    BY <1>1, <1>3, <2>0
  <2>2. t[k] = IF Takes(a, b, o, i, j) THEN i + 1 ELSE i
    BY <1>2, <2>0, <2>1 DEF TakesOne
  <2>3. CASE Takes(a, b, o, i, j)
    <3>1. t[k] = i + 1 /\ i < Len(a) /\ (j < Len(b) => ~Less(o, b[j + 1], a[i + 1]))
      BY <2>2, <2>3 DEF Takes
    <3>2. i + 1 \in 1..Len(a) /\ k - (i + 1) = j
      BY <2>1, <3>1, <1>1
    <3>3. Bounded(k)
      BY <2>1, <3>1, <3>2
    <3>4. Step(k)
      BY <2>0, <2>1, <3>1, <3>2, Zenon
    <3> QED
      BY <3>3, <3>4
  <2>4. CASE ~Takes(a, b, o, i, j)
    <3>1. t[k] = i /\ (i < Len(a) => j < Len(b) /\ Less(o, b[j + 1], a[i + 1]))
      BY <2>2, <2>4 DEF Takes
    <3>2. j + 1 \in 1..Len(b) /\ k - i = j + 1
      BY <2>1, <3>1, <1>1
    <3>3. Bounded(k)
      BY <2>1, <3>1, <3>2
    <3>4. Step(k)
      BY <2>0, <2>1, <3>1, <3>2, Zenon
    <3> QED
      BY <3>3, <3>4
  <2> QED
    BY <2>3, <2>4
<1>4. \A k \in 0..n : Bounded(k)
  <2> DEFINE T == {k \in Nat : k <= n => Bounded(k)}
  <2>1. 0 \in T
    BY <1>1, <1>2
  <2>2. ASSUME NEW k \in Nat, k \in T PROVE k + 1 \in T
    <3> SUFFICES ASSUME k + 1 <= n PROVE Bounded(k + 1)
      BY <2>2
    <3>1. k + 1 \in 1..n /\ (k + 1) - 1 = k /\ k <= n
      BY <1>1
    <3>2. Bounded(k)
      BY <2>2, <3>1
    <3> HIDE DEF Bounded, n
    <3> QED
      BY <1>3, <3>1, <3>2
  <2>3. \A k \in Nat : k \in T
    <3> HIDE DEF T
    <3> QED
      BY <2>1, <2>2, SetInduction
  <2> QED
    BY <2>3, <1>1
<1>5. \A k \in 1..n : Step(k)
  <2> SUFFICES ASSUME NEW k \in 1..n PROVE Step(k)
    OBVIOUS
  <2>1. k - 1 \in 0..n
    BY <1>1
  <2> QED
    BY <1>3, <1>4, <2>1
<1> QED
  BY <1>2, <1>4, <1>5 DEF t

\* Neither list is ever gone back in.
LEMMA TakenForward ==
    ASSUME NEW D, NEW a \in Seq(D), NEW b \in Seq(D), NEW o
    PROVE  LET n == Len(a) + Len(b)
               t == Taken(a, b, o)
           IN  \A k, l \in 0..n : k <= l => t[k] <= t[l] /\ k - t[k] <= l - t[l]
<1> DEFINE n == Len(a) + Len(b)
           t == Taken(a, b, o)
<1>1. Len(a) \in Nat /\ Len(b) \in Nat /\ n \in Nat
  OBVIOUS
<1>2. /\ \A k \in 0..n : t[k] \in Nat
      /\ \A k \in 1..n : t[k] = t[k - 1] + 1 \/ t[k] = t[k - 1]
  BY <1>1, TakenBounds
<1> HIDE DEF t, n
<1> SUFFICES ASSUME NEW k \in 0..n
             PROVE  \A l \in 0..n : k <= l => t[k] <= t[l] /\ k - t[k] <= l - t[l]
  BY DEF t, n
<1> DEFINE Ahead(l) == t[k] <= t[l] /\ k - t[k] <= l - t[l]
           T == {l \in Nat : l \in k..n => Ahead(l)}
<1>3. 0 \in T
  BY <1>1, <1>2
<1>4. ASSUME NEW l \in Nat, l \in T PROVE l + 1 \in T
  <2> SUFFICES ASSUME l + 1 \in k..n PROVE Ahead(l + 1)
    OBVIOUS
  <2>1. CASE k = l + 1
    BY <2>1, <1>1, <1>2
  <2>2. CASE k # l + 1
    <3>1. l \in k..n /\ l + 1 \in 1..n /\ (l + 1) - 1 = l /\ l \in 0..n /\ l + 1 \in 0..n
      BY <2>2, <1>1
    <3>2. Ahead(l)
      BY <1>4, <3>1
    <3>3. t[l + 1] = t[l] + 1 \/ t[l + 1] = t[l]
      BY <1>2, <3>1
    <3>4. t[l] \in Nat /\ t[k] \in Nat /\ t[l + 1] \in Nat
      BY <1>2, <3>1
    <3>5. PICK x \in Nat, y \in Nat, z \in Nat : x = t[k] /\ y = t[l] /\ z = t[l + 1]
      BY <3>4
    <3>6. x <= y /\ k - x <= l - y /\ (z = y + 1 \/ z = y)
      BY <3>2, <3>3, <3>5
    <3>7. x <= z /\ k - x <= (l + 1) - z
      BY <3>6
    <3> QED
      BY <3>5, <3>7
  <2> QED
    BY <2>1, <2>2
<1>5. \A l \in Nat : l \in T
  <2> HIDE DEF T
  <2> QED
    BY <1>3, <1>4, SetInduction
<1> QED
  BY <1>5, <1>1

\* What is at a place of the merge.
LEMMA MergedSteps ==
    ASSUME NEW D, NEW a \in Seq(D), NEW b \in Seq(D), NEW o
    PROVE  LET n == Len(a) + Len(b)
               t == Taken(a, b, o)
               m == Merged(a, b, o)
           IN  /\ m \in Seq(D) /\ Len(m) = n
               /\ \A k \in 1..n :
                    \/ t[k] = t[k - 1] + 1 /\ m[k] = a[t[k]] /\ t[k] \in 1..Len(a)
                    \/ t[k] = t[k - 1] /\ m[k] = b[k - t[k]] /\ k - t[k] \in 1..Len(b)
<1> DEFINE n == Len(a) + Len(b)
           t == Taken(a, b, o)
           m == Merged(a, b, o)
           At(k) == IF t[k] > t[k - 1] THEN a[t[k]] ELSE b[k - t[k]]
           Here(k) == \/ t[k] = t[k - 1] + 1 /\ m[k] = a[t[k]] /\ t[k] \in 1..Len(a)
                      \/ t[k] = t[k - 1] /\ m[k] = b[k - t[k]] /\ k - t[k] \in 1..Len(b)
<1>1. Len(a) \in Nat /\ Len(b) \in Nat /\ n \in Nat
  OBVIOUS
<1>2. m = [k \in 1..n |-> At(k)]
  BY DEF Merged
<1>3. /\ \A k \in 0..n : t[k] \in Nat
      /\ \A k \in 1..n : \/ t[k] = t[k - 1] + 1 /\ t[k - 1] + 1 \in 1..Len(a)
                         \/ t[k] = t[k - 1] /\ k - 1 - t[k - 1] + 1 \in 1..Len(b)
  BY TakenBounds
<1> HIDE DEF t, n, m
<1>4. ASSUME NEW k \in 1..n PROVE At(k) \in D /\ Here(k)
  <2>1. k \in 0..n /\ k - 1 \in 0..n
    BY <1>1
  <2>2. PICK p \in Nat : p = t[k - 1]
    BY <1>3, <2>1
  <2>3. m[k] = At(k)
    BY <1>2
  <2>4. CASE t[k] = t[k - 1] + 1 /\ t[k - 1] + 1 \in 1..Len(a)
    <3>1. t[k] = p + 1 /\ t[k] > t[k - 1]
      BY <2>2, <2>4
    <3>2. At(k) = a[t[k]]
      BY <3>1
    <3> QED
      BY <2>3, <2>4, <3>2
  <2>5. CASE t[k] = t[k - 1] /\ k - 1 - t[k - 1] + 1 \in 1..Len(b)
    <3>1. t[k] = p /\ ~(t[k] > t[k - 1]) /\ k - t[k] \in 1..Len(b)
      BY <2>2, <2>5
    <3>2. At(k) = b[k - t[k]]
      BY <3>1
    <3> QED
      BY <2>3, <2>5, <3>1, <3>2
  <2> QED
    BY <1>3, <2>4, <2>5
<1> HIDE DEF At, Here
<1>5. m \in [1..n -> D]
  BY <1>2, <1>4
<1>6. m \in Seq(D) /\ Len(m) = n
  BY <1>1, <1>5
<1> QED
  BY <1>4, <1>6 DEF Here, t, n, m

\* A count that goes up by one at most passes every number up to its last.
LEMMA Passes ==
    ASSUME NEW n \in Nat, NEW f \in [0..n -> Nat], f[0] = 0,
           \A k \in 1..n : f[k] = f[k - 1] + 1 \/ f[k] = f[k - 1],
           NEW i \in 1..f[n]
    PROVE  \E k \in 1..n : f[k] = i /\ f[k - 1] = i - 1
<1> DEFINE T == {k \in 1..n : f[k] >= i}
<1>0. f[n] \in Nat /\ i \in Nat /\ i >= 1
  OBVIOUS
<1>1. n \in T
  BY <1>0
<1>2. PICK k \in T : \A j \in T : k <= j
  <2>1. T \subseteq Nat
    OBVIOUS
  <2> HIDE DEF T
  <2> QED
    BY <1>1, <2>1, Minimum
<1>3. k \in 1..n /\ f[k] >= i /\ k - 1 \in 0..n /\ f[k] \in Nat
  BY <1>2
<1>4. f[k - 1] < i
  <2>1. f[k - 1] \in Nat
    BY <1>3
  <2>2. CASE k = 1
    BY <1>0, <2>2
  <2>3. CASE k # 1
    <3>1. k - 1 \in 1..n /\ ~(k <= k - 1)
      BY <1>3, <2>3
    <3>2. ~(f[k - 1] >= i)
      BY <1>2, <3>1
    <3> QED
      BY <1>0, <2>1, <3>2
  <2> QED
    BY <2>2, <2>3
<1>5. f[k - 1] \in Nat /\ (f[k] = f[k - 1] + 1 \/ f[k] = f[k - 1])
  BY <1>3
<1>6. PICK g \in Nat, h \in Nat : g = f[k - 1] /\ h = f[k]
  BY <1>3, <1>5
<1>7. h = i /\ g = i - 1
  BY <1>0, <1>3, <1>4, <1>5, <1>6
<1> QED
  BY <1>3, <1>6, <1>7

\* Every document of the two lists is in the merge, and not before its place in
\* its own list.
LEMMA MergedAll ==
    ASSUME NEW D, NEW a \in Seq(D), NEW b \in Seq(D), NEW o
    PROVE  LET n == Len(a) + Len(b)
               m == Merged(a, b, o)
           IN  /\ \A i \in 1..Len(a) : \E k \in 1..n : k >= i /\ m[k] = a[i]
               /\ \A j \in 1..Len(b) : \E k \in 1..n : k >= j /\ m[k] = b[j]
<1> DEFINE n == Len(a) + Len(b)
           t == Taken(a, b, o)
           m == Merged(a, b, o)
           s == [k \in 0..n |-> k - t[k]]
<1>1. Len(a) \in Nat /\ Len(b) \in Nat /\ n \in Nat
  OBVIOUS
<1>2. /\ t[0] = 0
      /\ \A k \in 0..n : t[k] \in 0..Len(a) /\ k - t[k] \in 0..Len(b)
  BY TakenBounds
<1>3. \A k \in 1..n :
         \/ t[k] = t[k - 1] + 1 /\ m[k] = a[t[k]]
         \/ t[k] = t[k - 1] /\ m[k] = b[k - t[k]]
  BY MergedSteps
<1>4. t \in [0..n -> Nat]
  BY TakenSteps
<1> HIDE DEF t, m
<1>5. t[n] = Len(a) /\ n - t[n] = Len(b)
  BY <1>1, <1>2
<1>6. ASSUME NEW i \in 1..Len(a) PROVE \E k \in 1..n : k >= i /\ m[k] = a[i]
  <2>1. \A k \in 1..n : t[k] = t[k - 1] + 1 \/ t[k] = t[k - 1]
    BY <1>3
  <2>2. i \in 1..t[n]
    BY <1>5
  <2>3. PICK k \in 1..n : t[k] = i /\ t[k - 1] = i - 1
    <3> HIDE DEF n
    <3> QED
      BY <1>1, <1>2, <1>4, <2>1, <2>2, Passes
  <2>4. t[k] # t[k - 1] /\ k \in 0..n
    BY <2>3, <1>1
  <2>5. m[k] = a[i]
    BY <1>3, <2>3, <2>4
  <2>6. k >= i
    <3>1. k - i \in 0..Len(b)
      BY <1>2, <2>3, <2>4
    <3> QED
      BY <1>1, <2>4, <3>1
  <2> QED
    BY <2>5, <2>6
<1>7. ASSUME NEW j \in 1..Len(b) PROVE \E k \in 1..n : k >= j /\ m[k] = b[j]
  <2>1. s \in [0..n -> Nat] /\ s[0] = 0 /\ s[n] = Len(b)
    BY <1>1, <1>2, <1>5
  <2>2. \A k \in 1..n : s[k] = s[k - 1] + 1 \/ s[k] = s[k - 1]
    <3> SUFFICES ASSUME NEW k \in 1..n PROVE s[k] = s[k - 1] + 1 \/ s[k] = s[k - 1]
      OBVIOUS
    <3>1. k \in 0..n /\ k - 1 \in 0..n
      BY <1>1
    <3>2. t[k] \in Nat /\ t[k - 1] \in Nat
      BY <3>1, <1>4
    <3>3. s[k] = k - t[k] /\ s[k - 1] = k - 1 - t[k - 1]
      BY <3>1
    <3>4. t[k] = t[k - 1] + 1 \/ t[k] = t[k - 1]
      BY <1>3
    <3> HIDE DEF s
    <3> QED
      BY <3>2, <3>3, <3>4
  <2>3. PICK k \in 1..n : s[k] = j /\ s[k - 1] = j - 1
    <3>1. j \in 1..s[n]
      BY <2>1
    <3> HIDE DEF n, s
    <3> QED
      BY <1>1, <2>1, <2>2, <3>1, Passes
  <2>4. k \in 0..n /\ k - 1 \in 0..n /\ t[k] \in 0..Len(a)
    BY <1>1, <1>2
  <2>5. k - t[k] = j /\ k - 1 - t[k - 1] = j - 1
    BY <2>3, <2>4
  <2>6. t[k] # t[k - 1] + 1
    BY <1>1, <1>2, <2>4, <2>5
  <2>7. m[k] = b[j]
    BY <1>3, <2>5, <2>6
  <2>8. k >= j
    BY <2>4, <2>5
  <2> QED
    BY <2>7, <2>8
<1> QED
  BY <1>6, <1>7 DEF m

-----------------------------------------------------------------------------
(* The order *)

\* What a find compares is a number.
Comparable(D, o) == \A d \in D : d[o.key] \in Int
InOrder(s, o) == \A i, j \in DOMAIN s : i < j => ~Less(o, s[j], s[i])

LEMMA LessIsAnOrder ==
    ASSUME NEW o, NEW D, Comparable(D, o), NEW x \in D, NEW y \in D, NEW z \in D
    PROVE  /\ ~Less(o, x, x)
           /\ Less(o, x, y) => ~Less(o, y, x)
           /\ ~Less(o, y, x) /\ ~Less(o, z, y) => ~Less(o, z, x)
  BY DEF Comparable, Less

\* Two ordered lists are merged into an ordered one.
LEMMA MergedInOrder ==
    ASSUME NEW D, NEW a \in Seq(D), NEW b \in Seq(D), NEW o, Comparable(D, o),
           InOrder(a, o), InOrder(b, o)
    PROVE  InOrder(Merged(a, b, o), o)
<1> DEFINE n == Len(a) + Len(b)
           t == Taken(a, b, o)
           m == Merged(a, b, o)
<1>1. Len(a) \in Nat /\ Len(b) \in Nat /\ n \in Nat
  OBVIOUS
<1>2. DOMAIN m = 1..n
  BY MergedSteps
<1>3. \A k \in 1..n : LET i == t[k - 1]
                          j == k - 1 - i
                      IN  \/ /\ t[k] = i + 1 /\ i + 1 \in 1..Len(a)
                             /\ j < Len(b) => ~Less(o, b[j + 1], a[i + 1])
                          \/ /\ t[k] = i /\ j + 1 \in 1..Len(b)
                             /\ i < Len(a) => Less(o, b[j + 1], a[i + 1])
  BY TakenBounds
<1>4. \A k \in 0..n : t[k] \in 0..Len(a) /\ k - t[k] \in 0..Len(b)
  BY TakenBounds
<1>5. \A k, l \in 0..n : k <= l => t[k] <= t[l] /\ k - t[k] <= l - t[l]
  BY TakenForward
<1>6. \A k \in 1..n :
         \/ t[k] = t[k - 1] + 1 /\ m[k] = a[t[k]]
         \/ t[k] = t[k - 1] /\ m[k] = b[k - t[k]]
  BY MergedSteps
<1>7. /\ \A i, j \in 1..Len(a) : i <= j => ~Less(o, a[j], a[i])
      /\ \A i, j \in 1..Len(b) : i <= j => ~Less(o, b[j], b[i])
  <2>1. \A x \in D : ~Less(o, x, x)
    BY LessIsAnOrder
  <2>2. /\ DOMAIN a = 1..Len(a) /\ DOMAIN b = 1..Len(b)
        /\ \A i \in 1..Len(a) : a[i] \in D
        /\ \A i \in 1..Len(b) : b[i] \in D
    OBVIOUS
  <2>3. \A i, j \in Nat : i <= j => i = j \/ i < j
    OBVIOUS
  <2> QED
    BY <2>1, <2>2, <2>3 DEF InOrder
<1>8. \A x, y, z \in D : /\ Less(o, x, y) => ~Less(o, y, x)
                         /\ ~Less(o, y, x) /\ ~Less(o, z, y) => ~Less(o, z, x)
  BY LessIsAnOrder
<1>9. /\ \A i \in 1..Len(a) : a[i] \in D
      /\ \A i \in 1..Len(b) : b[i] \in D
  OBVIOUS
<1> SUFFICES ASSUME NEW k \in 1..n, NEW l \in 1..n, k < l
             PROVE  ~Less(o, m[l], m[k])
  BY <1>2 DEF InOrder
<1> HIDE DEF t, m, n
<1>10. k \in 0..n /\ l \in 0..n /\ k - 1 \in 0..n /\ l - 1 \in 0..n /\ k <= l - 1
  BY <1>1
<1>11. PICK i \in 0..Len(a) : i = t[k - 1]
  BY <1>4, <1>10
<1>12. PICK j \in 0..Len(b) : j = k - 1 - i
  <2>1. k - 1 - t[k - 1] \in 0..Len(b)
    BY <1>4, <1>10
  <2> QED
    BY <1>11, <2>1
<1>13. PICK p \in 0..Len(a) : p = t[l - 1]
  BY <1>4, <1>10
<1>14. PICK q \in 0..Len(b) : q = l - 1 - p
  BY <1>4, <1>10, <1>13
<1>15. \/ /\ t[k] = i + 1 /\ i + 1 \in 1..Len(a)
          /\ j < Len(b) => ~Less(o, b[j + 1], a[i + 1])
       \/ /\ t[k] = i /\ j + 1 \in 1..Len(b)
          /\ i < Len(a) => Less(o, b[j + 1], a[i + 1])
  BY <1>3, <1>11, <1>12
<1>16. \/ /\ t[l] = p + 1 /\ p + 1 \in 1..Len(a)
       \/ /\ t[l] = p /\ q + 1 \in 1..Len(b)
  BY <1>3, <1>13, <1>14
<1>17. /\ t[k] = i + 1 => m[k] = a[i + 1]
       /\ t[k] = i => m[k] = b[j + 1]
  <2>1. t[k] = i + 1 => m[k] = a[i + 1]
    BY <1>6, <1>11
  <2>2. ASSUME t[k] = i PROVE m[k] = b[k - t[k]]
    BY <1>6, <1>11, <2>2
  <2>3. t[k] = i => k - t[k] = j + 1
    BY <1>12
  <2> QED
    BY <2>1, <2>2, <2>3
<1>18. /\ t[l] = p + 1 => m[l] = a[p + 1]
       /\ t[l] = p => m[l] = b[q + 1]
  <2>1. t[l] = p + 1 => m[l] = a[p + 1]
    BY <1>6, <1>13
  <2>2. ASSUME t[l] = p PROVE m[l] = b[l - t[l]]
    BY <1>6, <1>13, <2>2
  <2>3. t[l] = p => l - t[l] = q + 1
    BY <1>14
  <2> QED
    BY <2>1, <2>2, <2>3
<1>19. t[k] <= p /\ k - t[k] <= q
  BY <1>5, <1>10, <1>13, <1>14
<1>20. CASE t[k] = i + 1 /\ t[l] = p + 1
  <2>1. i + 1 \in 1..Len(a) /\ p + 1 \in 1..Len(a) /\ i + 1 <= p + 1
    BY <1>1, <1>15, <1>16, <1>19, <1>20
  <2> QED
    BY <1>7, <1>17, <1>18, <1>20, <2>1
<1>21. CASE t[k] = i + 1 /\ t[l] = p
  <2>1. i + 1 \in 1..Len(a) /\ q + 1 \in 1..Len(b) /\ j + 1 \in 1..Len(b)
        /\ j + 1 <= q + 1 /\ j < Len(b) /\ ~(i + 1 = i)
    BY <1>1, <1>12, <1>15, <1>16, <1>19, <1>21
  <2>2. ~Less(o, b[j + 1], a[i + 1])
    BY <1>15, <1>21, <2>1
  <2>3. ~Less(o, b[q + 1], b[j + 1])
    BY <1>7, <2>1
  <2> QED
    BY <1>8, <1>9, <1>17, <1>18, <1>21, <2>1, <2>2, <2>3
<1>22. CASE t[k] = i /\ t[l] = p + 1
  <2>1. i + 1 \in 1..Len(a) /\ p + 1 \in 1..Len(a) /\ j + 1 \in 1..Len(b)
        /\ i + 1 <= p + 1 /\ i < Len(a) /\ ~(i = i + 1)
    BY <1>1, <1>12, <1>15, <1>16, <1>19, <1>22
  <2>2. Less(o, b[j + 1], a[i + 1])
    BY <1>15, <1>22, <2>1
  <2>3. ~Less(o, a[i + 1], b[j + 1])
    BY <1>8, <1>9, <2>1, <2>2
  <2>4. ~Less(o, a[p + 1], a[i + 1])
    BY <1>7, <2>1
  <2> QED
    BY <1>8, <1>9, <1>17, <1>18, <1>22, <2>1, <2>3, <2>4
<1>23. CASE t[k] = i /\ t[l] = p
  <2>1. j + 1 \in 1..Len(b) /\ q + 1 \in 1..Len(b) /\ j + 1 <= q + 1
    BY <1>1, <1>12, <1>15, <1>16, <1>19, <1>23
  <2> QED
    BY <1>7, <1>17, <1>18, <1>23, <2>1
<1> QED
  BY <1>15, <1>16, <1>20, <1>21, <1>22, <1>23

\* Nothing is in the merge twice, if the two lists have nothing twice and share
\* nothing.
LEMMA MergedOnce ==
    ASSUME NEW D, NEW a \in Seq(D), NEW b \in Seq(D), NEW o,
           IsInjective(a), IsInjective(b), Range(a) \cap Range(b) = {}
    PROVE  /\ IsInjective(Merged(a, b, o))
           /\ Range(Merged(a, b, o)) = Range(a) \cup Range(b)
<1> DEFINE n == Len(a) + Len(b)
           t == Taken(a, b, o)
           m == Merged(a, b, o)
<1>1. /\ Len(a) \in Nat /\ Len(b) \in Nat /\ n \in Nat
      /\ DOMAIN a = 1..Len(a) /\ DOMAIN b = 1..Len(b)
  OBVIOUS
<1>2. DOMAIN m = 1..n
  BY MergedSteps
<1>3. \A k \in 1..n :
         \/ t[k] = t[k - 1] + 1 /\ m[k] = a[t[k]] /\ t[k] \in 1..Len(a)
         \/ t[k] = t[k - 1] /\ m[k] = b[k - t[k]] /\ k - t[k] \in 1..Len(b)
  BY MergedSteps
<1>4. \A k \in 0..n : t[k] \in 0..Len(a) /\ k - t[k] \in 0..Len(b)
  BY TakenBounds
<1>5. \A k, l \in 0..n : k <= l => t[k] <= t[l] /\ k - t[k] <= l - t[l]
  BY TakenForward
<1>6. /\ \A i \in 1..Len(a) : \E k \in 1..n : k >= i /\ m[k] = a[i]
      /\ \A j \in 1..Len(b) : \E k \in 1..n : k >= j /\ m[k] = b[j]
  BY MergedAll
<1>7. /\ \A i \in 1..Len(a) : a[i] \in Range(a)
      /\ \A j \in 1..Len(b) : b[j] \in Range(b)
      /\ \A k \in 1..n : m[k] \in Range(m)
  BY <1>1, <1>2 DEF Range
<1> HIDE DEF t, m, n
<1>8. ASSUME NEW k \in 1..n, NEW l \in 1..n, k < l PROVE m[k] # m[l]
  <2>1. k \in 0..n /\ l \in 0..n /\ l - 1 \in 0..n /\ k <= l - 1
    BY <1>1, <1>8
  <2>2. t[k] <= t[l - 1] /\ k - t[k] <= l - 1 - t[l - 1]
    BY <1>5, <2>1
  <2>3. t[k] \in Nat /\ t[l] \in Nat /\ t[l - 1] \in Nat
    BY <1>4, <2>1
  <2>4. CASE /\ m[k] = a[t[k]] /\ t[k] \in 1..Len(a)
             /\ t[l] = t[l - 1] + 1 /\ m[l] = a[t[l]] /\ t[l] \in 1..Len(a)
    <3>1. t[k] # t[l]
      BY <2>2, <2>3, <2>4
    <3> QED
      BY <2>4, <3>1, <1>1 DEF IsInjective
  <2>5. CASE /\ m[k] = b[k - t[k]] /\ k - t[k] \in 1..Len(b)
             /\ t[l] = t[l - 1] /\ m[l] = b[l - t[l]] /\ l - t[l] \in 1..Len(b)
    <3>1. k - t[k] # l - t[l]
      BY <2>2, <2>3, <2>5
    <3> QED
      BY <2>5, <3>1, <1>1 DEF IsInjective
  <2>6. CASE m[k] \in Range(a) /\ m[l] \in Range(b)
    BY <2>6
  <2>7. CASE m[k] \in Range(b) /\ m[l] \in Range(a)
    BY <2>7
  <2> QED
    BY <1>3, <1>7, <2>4, <2>5, <2>6, <2>7
<1>9. IsInjective(m)
  <2> SUFFICES ASSUME NEW k \in 1..n, NEW l \in 1..n, m[k] = m[l] PROVE k = l
    BY <1>2 DEF IsInjective
  <2>1. k < l \/ l < k \/ k = l
    BY <1>1
  <2> QED
    BY <1>8, <2>1
<1>10. Range(m) \subseteq Range(a) \cup Range(b)
  <2> SUFFICES ASSUME NEW k \in 1..n PROVE m[k] \in Range(a) \cup Range(b)
    BY <1>2 DEF Range
  <2> QED
    BY <1>3, <1>7
<1>11. Range(a) \subseteq Range(m)
  <2> SUFFICES ASSUME NEW i \in 1..Len(a) PROVE a[i] \in Range(m)
    BY <1>1 DEF Range
  <2> QED
    BY <1>6, <1>7
<1>12. Range(b) \subseteq Range(m)
  <2> SUFFICES ASSUME NEW j \in 1..Len(b) PROVE b[j] \in Range(m)
    BY <1>1 DEF Range
  <2> QED
    BY <1>6, <1>7
<1> QED
  BY <1>9, <1>10, <1>11, <1>12 DEF m

-----------------------------------------------------------------------------
(* The answer to a find *)

After(o, x, y) == o # None /\ Less(o, x, y)

\* s is the first n of the documents, or all of them, in the asked order.
Best(s, docs, o, n) ==
    LET size == Cardinality(docs)
    IN  /\ IsInjective(s) /\ Range(s) \subseteq docs
        /\ Len(s) = IF n \in 1..size THEN n ELSE size
        /\ \A i, j \in DOMAIN s : i < j => ~After(o, s[j], s[i])
        /\ \A d \in docs \ Range(s), i \in DOMAIN s : ~After(o, d, s[i])

\* A list as long as the set has all of it.
LEMMA AllListed ==
    ASSUME NEW docs, IsFiniteSet(docs), NEW s \in Seq(docs), IsInjective(s)
    PROVE  Len(s) <= Cardinality(docs) /\ (Len(s) = Cardinality(docs) => Range(s) = docs)
<1>1. Len(s) \in Nat /\ DOMAIN s = 1..Len(s) /\ s \in [1..Len(s) -> docs]
  OBVIOUS
<1>2. s \in Injection(1..Len(s), docs)
  BY <1>1 DEF Injection
<1>3. Cardinality(1..Len(s)) = Len(s)
  BY <1>1, FS_Interval
<1>4. /\ Cardinality(1..Len(s)) <= Cardinality(docs)
      /\ Cardinality(1..Len(s)) = Cardinality(docs) <=> s \in Surjection(1..Len(s), docs)
  BY <1>2, FS_Injection
<1>5. s \in Surjection(1..Len(s), docs) => Range(s) = docs
  BY <1>1 DEF Surjection, Range
<1> QED
  BY <1>3, <1>4, <1>5

\* The front of a list of everything in order.
LEMMA FrontIsBest ==
    ASSUME NEW docs, IsFiniteSet(docs), NEW f \in Seq(docs), IsInjective(f),
           Len(f) = Cardinality(docs), NEW o, NEW n \in Nat,
           \A i, j \in 1..Len(f) : i < j => ~After(o, f[j], f[i])
    PROVE  Limited(f, n) \in Seq(docs) /\ Best(Limited(f, n), docs, o, n)
<1> DEFINE s == Limited(f, n)
           size == Cardinality(docs)
<1>1. Len(f) \in Nat /\ DOMAIN f = 1..Len(f) /\ \A i \in 1..Len(f) : f[i] \in docs
  OBVIOUS
<1>2. Range(f) = docs
  BY AllListed
<1>3. PICK l \in 0..Len(f) : l = IF n \in 1..size THEN n ELSE size
  BY <1>1
<1>4. s \in Seq(docs) /\ Len(s) = l /\ DOMAIN s = 1..l /\ \A i \in 1..l : s[i] = f[i]
  <2>1. CASE n > 0 /\ n < Len(f)
    <3>1. s = SubSeq(f, 1, n) /\ l = n
      BY <2>1, <1>1, <1>3 DEF Limited
    <3>2. \A i \in 1..n : f[i] \in docs
      BY <1>1, <2>1
    <3> QED
      BY <3>1, <3>2, <2>1, SubSeqProperties
  <2>2. CASE ~(n > 0 /\ n < Len(f))
    <3>1. s = f /\ l = Len(f)
      BY <2>2, <1>1, <1>3 DEF Limited
    <3> QED
      BY <3>1, <1>1
  <2> QED
    BY <2>1, <2>2
<1> HIDE DEF s
<1>5. 1..l \subseteq 1..Len(f)
  BY <1>1
<1>6. IsInjective(s)
  BY <1>1, <1>4, <1>5 DEF IsInjective
<1>7. Range(s) \subseteq docs
  BY <1>1, <1>4, <1>5 DEF Range
<1>8. \A i, j \in DOMAIN s : i < j => ~After(o, s[j], s[i])
  BY <1>4, <1>5
<1>9. ASSUME NEW d \in docs \ Range(s), NEW i \in DOMAIN s PROVE ~After(o, d, s[i])
  <2>1. PICK k \in 1..Len(f) : d = f[k]
    BY <1>1, <1>2 DEF Range
  <2>2. k \notin 1..l
    BY <1>4, <2>1, <1>9 DEF Range
  <2>3. i < k /\ i \in 1..Len(f) /\ s[i] = f[i]
    BY <1>4, <1>5, <2>2
  <2> QED
    BY <2>1, <2>3
<1> QED
  BY <1>3, <1>4, <1>6, <1>7, <1>8, <1>9 DEF Best, s

\* One store's answer.
LEMMA FoundIsBest ==
    ASSUME NEW docs, IsFiniteSet(docs), NEW o, NEW n \in Nat, NEW s \in Found(docs, o, n)
    PROVE  s \in Seq(docs) /\ Best(s, docs, o, n)
<1> DEFINE size == Cardinality(docs)
<1>1. PICK f \in SetToSeqs(docs) :
         /\ s = Limited(f, n)
         /\ o # None => \A i, j \in DOMAIN f : i < j => ~Less(o, f[j], f[i])
  BY DEF Found
<1>2. size \in Nat
  BY FS_CardinalityType
<1>3. f \in [1..size -> docs] /\ \A i, j \in 1..size : i # j => f[i] # f[j]
  BY DEF SetToSeqs
<1>4. f \in Seq(docs) /\ Len(f) = size /\ IsInjective(f)
  BY <1>2, <1>3 DEF IsInjective
<1>5. \A i, j \in 1..Len(f) : i < j => ~After(o, f[j], f[i])
  BY <1>1, <1>3, <1>4 DEF After
<1> QED
  BY <1>1, <1>4, <1>5, FrontIsBest

\* A document that one of the stores left out comes before none of the answer:
\* that store returned as many as were asked for, and the last of them is not
\* before the end of the answer.
LEMMA LeftOut ==
    ASSUME NEW D, NEW o, Comparable(D, o), NEW docs, docs \subseteq D, IsFiniteSet(docs),
           NEW n \in Nat, NEW a \in Seq(docs), Best(a, docs, o, n), o # None,
           NEW m \in Seq(D), InOrder(m, o),
           \A i \in 1..Len(a) : \E k \in 1..Len(m) : k >= i /\ m[k] = a[i],
           NEW d \in docs, d \notin Range(m),
           NEW i \in 1..Len(m), n \in 1..Cardinality(docs) => i <= n
    PROVE  ~Less(o, d, m[i])
<1>1. Len(a) \in Nat /\ DOMAIN a = 1..Len(a) /\ \A k \in 1..Len(a) : a[k] \in docs
  OBVIOUS
<1>2. Len(m) \in Nat /\ DOMAIN m = 1..Len(m) /\ \A k \in 1..Len(m) : m[k] \in D
  OBVIOUS
<1>3. d \notin Range(a)
  BY <1>1, <1>2 DEF Range
<1>4. n \in 1..Cardinality(docs) /\ Len(a) = n
  <2>1. Len(a) # Cardinality(docs)
    BY <1>3, AllListed DEF Best
  <2> QED
    BY <2>1 DEF Best
<1>5. n \in 1..Len(a) /\ n \in Nat
  BY <1>1, <1>4
<1>6. PICK k \in 1..Len(m) : k >= n /\ m[k] = a[n]
  BY <1>5
<1>7. ~Less(o, d, m[k])
  BY <1>1, <1>3, <1>5, <1>6 DEF Best, After
<1>8. ~Less(o, m[k], m[i])
  <2>1. i <= k
    BY <1>2, <1>4, <1>5, <1>6
  <2>2. CASE i = k
    BY <1>2, <2>2, LessIsAnOrder
  <2>3. CASE i < k
    BY <1>2, <2>3 DEF InOrder
  <2> QED
    BY <1>2, <2>1, <2>2, <2>3
<1>9. d \in D /\ m[k] \in D /\ m[i] \in D
  BY <1>2
<1> QED
  BY <1>7, <1>8, <1>9, LessIsAnOrder

\* The answers of the two stores are merged into the answer of the union.
LEMMA MergedIsBest ==
    ASSUME NEW D, NEW A, A \subseteq D, IsFiniteSet(A), NEW B, B \subseteq D, IsFiniteSet(B),
           A \cap B = {}, NEW n \in Nat, NEW o, NEW order,
           o # None => order = o /\ Comparable(D, o),
           NEW a \in Seq(A), Best(a, A, o, n), NEW b \in Seq(B), Best(b, B, o, n)
    PROVE  LET s == Limited(Merged(a, b, order), n)
           IN  s \in Seq(A \cup B) /\ Best(s, A \cup B, o, n)
<1> DEFINE m == Merged(a, b, order)
           s == Limited(m, n)
           docs == A \cup B
           size == Cardinality(docs)
<1>1. IsFiniteSet(docs) /\ size = Cardinality(A) + Cardinality(B)
  <2>1. Cardinality(A \cap B) = 0
    BY FS_EmptySet
  <2>2. Cardinality(A) \in Nat /\ Cardinality(B) \in Nat
    BY FS_CardinalityType
  <2>3. /\ IsFiniteSet(A \cup B)
        /\ Cardinality(A \cup B) = Cardinality(A) + Cardinality(B) - Cardinality(A \cap B)
    BY FS_Union
  <2> QED
    BY <2>1, <2>2, <2>3
<1>2. Cardinality(A) \in Nat /\ Cardinality(B) \in Nat /\ size \in Nat
  BY <1>1, FS_CardinalityType
<1>3. a \in Seq(docs) /\ b \in Seq(docs) /\ a \in Seq(D) /\ b \in Seq(D)
  BY SeqMonotonic
<1>4. Len(a) \in Nat /\ Len(b) \in Nat /\ DOMAIN a = 1..Len(a) /\ DOMAIN b = 1..Len(b)
  OBVIOUS
<1>5. m \in Seq(docs) /\ m \in Seq(D) /\ Len(m) = Len(a) + Len(b)
  BY <1>3, MergedSteps
<1>6. IsInjective(m) /\ Range(m) = Range(a) \cup Range(b)
  <2>1. Range(a) \subseteq A /\ Range(b) \subseteq B /\ IsInjective(a) /\ IsInjective(b)
    BY DEF Best
  <2>2. Range(a) \cap Range(b) = {}
    BY <2>1
  <2> QED
    BY <1>3, <2>1, <2>2, MergedOnce
<1>7. o # None => InOrder(m, o)
  <2> SUFFICES ASSUME o # None PROVE InOrder(m, o)
    OBVIOUS
  <2>1. InOrder(a, o) /\ InOrder(b, o)
    BY DEF Best, After, InOrder
  <2>2. Comparable(D, o)
    OBVIOUS
  <2>3. InOrder(Merged(a, b, o), o)
    BY <1>3, <2>1, <2>2, MergedInOrder
  <2> QED
    BY <2>3
<1>8. /\ \A i \in 1..Len(a) : \E k \in 1..Len(m) : k >= i /\ m[k] = a[i]
      /\ \A j \in 1..Len(b) : \E k \in 1..Len(m) : k >= j /\ m[k] = b[j]
  BY <1>3, <1>5, MergedAll
<1>9. /\ Len(a) = IF n \in 1..Cardinality(A) THEN n ELSE Cardinality(A)
      /\ Len(b) = IF n \in 1..Cardinality(B) THEN n ELSE Cardinality(B)
  BY DEF Best
<1> HIDE DEF m, docs
<1>10. PICK l \in 0..Len(m) : /\ l = IF n \in 1..size THEN n ELSE size
                              /\ l = IF n > 0 /\ n < Len(m) THEN n ELSE Len(m)
  BY <1>1, <1>2, <1>4, <1>5, <1>9
<1>11. /\ s \in Seq(docs) /\ Len(s) = l /\ DOMAIN s = 1..l
       /\ \A i \in 1..l : s[i] = m[i]
  <2>1. Len(m) \in Nat /\ \A i \in 1..Len(m) : m[i] \in docs
    BY <1>5
  <2>2. CASE n > 0 /\ n < Len(m)
    <3>1. s = SubSeq(m, 1, n) /\ l = n
      BY <2>2, <1>10 DEF Limited
    <3>2. \A i \in 1..n : m[i] \in docs
      BY <2>1, <2>2
    <3> QED
      BY <3>1, <3>2, <2>2, SubSeqProperties
  <2>3. CASE ~(n > 0 /\ n < Len(m))
    <3>1. s = m /\ l = Len(m)
      BY <2>3, <1>10 DEF Limited
    <3> QED
      BY <3>1, <1>5
  <2> QED
    BY <2>2, <2>3
<1> HIDE DEF s
<1>12. /\ 1..l \subseteq 1..Len(m) /\ DOMAIN m = 1..Len(m)
       /\ \A i \in 1..Len(m) : m[i] \in docs /\ m[i] \in D
  BY <1>5
<1>13. IsInjective(s) /\ Range(s) \subseteq docs
  BY <1>6, <1>11, <1>12 DEF IsInjective, Range
<1>14. \A i, j \in DOMAIN s : i < j => ~After(o, s[j], s[i])
  BY <1>7, <1>11, <1>12 DEF After, InOrder
<1>15. ASSUME NEW d \in docs \ Range(s), NEW i \in DOMAIN s PROVE ~After(o, d, s[i])
  <2> SUFFICES ASSUME o # None PROVE ~Less(o, d, m[i])
    BY <1>11, <1>15 DEF After
  <2>0. i \in 1..l /\ i \in 1..Len(m) /\ Comparable(D, o) /\ InOrder(m, o)
    BY <1>7, <1>11, <1>12, <1>15
  <2>1. CASE d \in Range(m)
    <3>1. PICK k \in 1..Len(m) : d = m[k]
      BY <2>1, <1>12 DEF Range
    <3>2. k \notin 1..l
      BY <1>11, <3>1, <1>15 DEF Range
    <3>3. i < k
      BY <2>0, <3>2, <1>10
    <3> QED
      BY <2>0, <3>1, <3>3, <1>12 DEF InOrder
  <2>2. CASE d \notin Range(m) /\ d \in A
    <3>1. n \in 1..Cardinality(A) => i <= n
      BY <2>0, <1>1, <1>2, <1>10
    <3>2. \A j \in 1..Len(a) : \E k \in 1..Len(m) : k >= j /\ m[k] = a[j]
      BY <1>8
    <3>3. m \in Seq(D) /\ d \in A /\ d \notin Range(m)
      BY <1>5, <2>2
    <3> HIDE DEF size
    <3> QED
      BY <2>0, <3>1, <3>2, <3>3, LeftOut
  <2>3. CASE d \notin Range(m) /\ d \in B
    <3>1. n \in 1..Cardinality(B) => i <= n
      BY <2>0, <1>1, <1>2, <1>10
    <3>2. \A j \in 1..Len(b) : \E k \in 1..Len(m) : k >= j /\ m[k] = b[j]
      BY <1>8
    <3>3. m \in Seq(D) /\ d \in B /\ d \notin Range(m)
      BY <1>5, <2>3
    <3> HIDE DEF size
    <3> QED
      BY <2>0, <3>1, <3>2, <3>3, LeftOut
  <2> QED
    BY <2>1, <2>2, <2>3, <1>15 DEF docs
<1>16. s \in Seq(docs) /\ Best(s, docs, o, n)
  BY <1>10, <1>11, <1>13, <1>14, <1>15 DEF Best
<1> QED
  BY <1>16 DEF s, m, docs

-----------------------------------------------------------------------------
(* The stores, the copies and the calls *)

Docs == [id : Id, side : Side, rev : Nat \ {0}, val : Value, born : Nat]
Copies == [side : Side \cup {"none"}, rev : Nat, val : Value, born : Nat, base : Value]
Stores == [Id -> Docs \cup {None}]
Call == {Idle} \cup [step : {"load", "delete"}, id : Id]
               \cup [step : {"save"}, id : Id, exists : BOOLEAN]
               \cup [step : {"find", "found"}, order : Orders \cup {None}, limit : AtMost,
                     got : Seq(Docs), read : SUBSET Docs]

\* What a copy of revision rev of the insert `born` says of the document h that
\* the head has now, after n deletions: it is of this insert or of an earlier
\* one, and with the revision of h it has the content of h.
Behind(h, n, rev, born, val) ==
    /\ born <= n
    /\ h = None => born < n
    /\ h # None /\ born = h.born => rev <= h.rev /\ (rev = h.rev => val = h.val)

\* Where a copy is from: the tail still has the document, the head had it, or
\* the object is new and has no revision.
Traced(h, t, n, side, rev, born, val) ==
    /\ side = "tail" => t # None
    /\ side = "head" => Behind(h, n, rev, born, val)
    /\ side = "none" => rev = 0

TypeInv ==
    /\ head \in Stores /\ tail \in Stores
    /\ used \in [save : Nat, delete : Nat, tail : Nat, find : Nat]
    /\ obj \in [Client -> [Id -> Copies]]
    /\ op \in [Client -> Call]
    /\ \A i \in Id : head[i] # None =>
          head[i].id = i /\ head[i].side = "head" /\ head[i].born <= used.delete
    /\ \A i \in Id : tail[i] # None => tail[i].id = i /\ tail[i].side = "tail"

CopyInv ==
    \A c \in Client, i \in Id :
       LET x == obj[c][i]
       IN  Traced(head[i], tail[i], used.delete, x.side, x.rev, x.born, x.base)

GotInv ==
    \A c \in Client : In(c, "find") \/ In(c, "found") =>
       \A k \in DOMAIN op[c].got :
          LET d == op[c].got[k]
          IN  Traced(head[d.id], tail[d.id], used.delete, d.side, d.rev, d.born, d.val)

\* What a step does to the document h of the head, to t of the tail and to the
\* count n of the deletions.
Evolves(h, t, n, h2, t2, n2) ==
    /\ t # None => t2 # None
    /\ \/ h2 = h /\ n2 \in {n, n + 1}
       \/ n2 = n + 1 /\ h2 = None
       \/ n2 = n /\ h = None /\ h2 # None /\ h2.born = n
       \/ /\ n2 = n /\ h # None /\ h2 # None /\ h2.born = h.born
          /\ h2.rev = h.rev + 1 \/ (h2.rev = h.rev /\ h2.val = h.val)

\* The facts about the constants.
LEMMA Constants ==
    /\ Id \subseteq Nat /\ IsFiniteSet(Id) /\ Busy \subseteq Id /\ Value \subseteq Nat
    /\ Value # {} /\ AtMost \subseteq Nat
    /\ None \notin Docs
<1>1. None \notin [id : Id, side : {"head", "tail"}, rev : Nat, val : Value, born : Nat]
  BY UnionAssumption
<1> QED
  BY <1>1, UnionAssumption DEF Docs, Side

\* A copy stays traced.
LEMMA TracedStays ==
    ASSUME NEW h \in Docs \cup {None}, NEW h2 \in Docs \cup {None}, NEW t, NEW t2,
           NEW n \in Nat, NEW n2 \in Nat, h # None => h.born <= n,
           Evolves(h, t, n, h2, t2, n2),
           NEW side, NEW rev \in Nat, NEW born \in Nat, NEW val,
           Traced(h, t, n, side, rev, born, val)
    PROVE  Traced(h2, t2, n2, side, rev, born, val)
<1>1. side = "tail" => t2 # None
  BY DEF Traced, Evolves
<1>2. side = "none" => rev = 0
  BY DEF Traced
<1>3. ASSUME side = "head" PROVE Behind(h2, n2, rev, born, val)
  <2>1. Behind(h, n, rev, born, val)
    BY <1>3 DEF Traced
  <2>2. /\ h # None => h.rev \in Nat /\ h.born \in Nat
        /\ h2 # None => h2.rev \in Nat /\ h2.born \in Nat
    BY DEF Docs
  <2>3. CASE h2 = h /\ n2 \in {n, n + 1}
    BY <2>1, <2>3 DEF Behind
  <2>4. CASE n2 = n + 1 /\ h2 = None
    BY <2>1, <2>4 DEF Behind
  <2>5. CASE n2 = n /\ h = None /\ h2 # None /\ h2.born = n
    BY <2>1, <2>2, <2>5 DEF Behind
  <2>6. CASE /\ n2 = n /\ h # None /\ h2 # None /\ h2.born = h.born
             /\ h2.rev = h.rev + 1 \/ (h2.rev = h.rev /\ h2.val = h.val)
    BY <2>1, <2>2, <2>6 DEF Behind
  <2> QED
    BY <2>3, <2>4, <2>5, <2>6 DEF Evolves
<1> QED
  BY <1>1, <1>2, <1>3 DEF Traced

\* What is just read is traced.
LEMMA ReadIsTraced ==
    ASSUME NEW h, NEW t, NEW n \in Nat
    PROVE  /\ \A d \in Docs : d.side = "tail" /\ t # None =>
                 Traced(h, t, n, d.side, d.rev, d.born, d.val)
           /\ h \in Docs /\ h # None /\ h.side = "head" /\ h.born <= n =>
                 Traced(h, t, n, h.side, h.rev, h.born, h.val)
  BY DEF Traced, Behind, Docs

LEMMA CallIs ==
    ASSUME TypeInv, NEW c \in Client
    PROVE  /\ In(c, "load") \/ In(c, "delete") => op[c].id \in Id
           /\ In(c, "save") => op[c].id \in Id /\ op[c].exists \in BOOLEAN
           /\ In(c, "find") \/ In(c, "found") =>
                op[c] \in [step : {"find", "found"}, order : Orders \cup {None},
                           limit : AtMost, got : Seq(Docs), read : SUBSET Docs]
<1>1. op[c] \in Call
  BY DEF TypeInv
<1> QED
  BY <1>1 DEF In, Call

\* What the two stores have is finite.
LEMMA PresentIs ==
    ASSUME NEW s \in Stores
    PROVE  /\ Present(s) \subseteq Docs /\ IsFiniteSet(Present(s))
           /\ \A d \in Present(s) : \E i \in Id : d = s[i] /\ s[i] # None
<1>1. /\ Present(s) \subseteq Docs
      /\ \A d \in Present(s) : \E i \in Id : d = s[i] /\ s[i] # None
  BY DEF Present, Range, Stores
<1>2. s \in Surjection(Id, Range(s))
  BY DEF Surjection, Range, Stores
<1>3. IsFiniteSet(Range(s))
  BY <1>2, Constants, FS_Surjection
<1>4. IsFiniteSet(Present(s))
  BY <1>3, FS_Subset DEF Present
<1> QED
  BY <1>1, <1>4

LEMMA LimitedIs ==
    ASSUME NEW D, NEW s \in Seq(D), NEW n \in Nat
    PROVE  /\ Limited(s, n) \in Seq(D)
           /\ \A k \in DOMAIN Limited(s, n) : k \in DOMAIN s /\ Limited(s, n)[k] = s[k]
<1>1. Len(s) \in Nat /\ DOMAIN s = 1..Len(s) /\ \A k \in 1..Len(s) : s[k] \in D
  OBVIOUS
<1>2. CASE n > 0 /\ n < Len(s)
  <2>1. Limited(s, n) = SubSeq(s, 1, n) /\ \A k \in 1..n : s[k] \in D
    BY <1>1, <1>2 DEF Limited
  <2>2. /\ SubSeq(s, 1, n) \in Seq(D) /\ Len(SubSeq(s, 1, n)) = n
        /\ \A k \in 1..n : SubSeq(s, 1, n)[k] = s[k]
    BY <1>2, <2>1, SubSeqProperties
  <2>3. DOMAIN SubSeq(s, 1, n) = 1..n
    BY <2>2
  <2> QED
    BY <1>1, <1>2, <2>1, <2>2, <2>3
<1>3. CASE ~(n > 0 /\ n < Len(s))
  BY <1>3 DEF Limited
<1> QED
  BY <1>2, <1>3

\* An object of a client is changed.
LEMMA ObjectSet ==
    ASSUME TypeInv, NEW c \in Client, NEW i \in Id, NEW x \in Copies,
           obj' = [obj EXCEPT ![c][i] = x]
    PROVE  /\ obj' \in [Client -> [Id -> Copies]]
           /\ \A e \in Client, j \in Id :
                 obj'[e][j] = IF e = c /\ j = i THEN x ELSE obj[e][j]
<1>1. obj \in [Client -> [Id -> Copies]]
  BY DEF TypeInv
<1>2. obj' = [obj EXCEPT ![c] = [obj[c] EXCEPT ![i] = x]]
  BY <1>1
<1> QED
  BY <1>1, <1>2

\* A call begins, goes on or ends.
LEMMA CallSet ==
    ASSUME TypeInv, NEW c \in Client, NEW x \in Call, op' = [op EXCEPT ![c] = x]
    PROVE  op' \in [Client -> Call] /\ op'[c] = x /\ \A e \in Client \ {c} : op'[e] = op[e]
  BY DEF TypeInv

LEMMA CopyIs ==
    /\ \A d \in Docs : Copy(d) \in Copies
    /\ \A v \in Value : Fresh(v) \in Copies
  BY DEF Copy, Fresh, Docs, Copies

\* What a save leaves in the head.
LEMMA WrittenIs ==
    ASSUME TypeInv, NEW i \in Id, NEW o \in Copies, NEW exists \in BOOLEAN,
           NEW d \in Written(i, o, exists)
    PROVE  /\ d \in Docs /\ d # None /\ d.id = i /\ d.side = "head" /\ d.born <= used.delete
           /\ \/ head[i] = None /\ d.rev = 1 /\ d.born = used.delete
              \/ /\ o.rev > 0 /\ head[i] # None /\ head[i].rev = o.rev /\ d.born = head[i].born
                 /\ d.rev = head[i].rev + 1 \/ d = head[i]
<1>0. used.delete \in Nat
  BY DEF TypeInv
<1>1. CASE d \in SaveNew(i, o)
  <2>1. head[i] = None /\ d = Doc(i, "head", 1, o.val, used.delete)
    BY <1>1 DEF SaveNew
  <2>2. d \in Docs /\ d.id = i /\ d.side = "head" /\ d.rev = 1 /\ d.born = used.delete
    BY <1>0, <2>1 DEF Doc, Docs, Side, Copies
  <2> QED
    BY <1>0, <2>1, <2>2, Constants
<1>2. CASE d \in Update(i, o) /\ o.rev > 0
  <2>1. /\ head[i] # None /\ head[i].rev = o.rev
        /\ d = [head[i] EXCEPT !.val = o.val,
                               !.rev = IF head[i].val = o.val THEN @ ELSE @ + 1]
    BY <1>2 DEF Update
  <2>2. /\ head[i] \in Docs /\ head[i].id = i /\ head[i].side = "head"
        /\ head[i].born <= used.delete
    BY <2>1 DEF TypeInv, Stores
  <2>3. /\ d.id = head[i].id /\ d.side = head[i].side /\ d.born = head[i].born
        /\ d.rev = head[i].rev + 1 \/ (d.rev = head[i].rev /\ d.val = head[i].val)
        /\ d \in Docs
    <3>1. PICK h \in Docs, v \in Value :
             /\ h = head[i] /\ v = o.val
             /\ d = [h EXCEPT !.val = v, !.rev = IF h.val = v THEN h.rev ELSE h.rev + 1]
      BY <2>1, <2>2 DEF Copies
    <3>2. /\ d = [id |-> h.id, side |-> h.side, rev |-> d.rev, val |-> v, born |-> h.born]
          /\ h.rev \in Nat \ {0}
          /\ d.rev = IF h.val = v THEN h.rev ELSE h.rev + 1
      BY <3>1 DEF Docs
    <3>3. d.rev \in Nat \ {0}
      BY <3>2
    <3>4. d \in Docs
      BY <3>2, <3>3 DEF Docs
    <3> QED
      BY <3>1, <3>2, <3>4
  <2>4. d.rev = head[i].rev /\ d.val = head[i].val => d = head[i]
    BY <2>2, <2>3 DEF Docs
  <2> QED
    BY <1>2, <2>1, <2>2, <2>3, <2>4, Constants
<1> QED
  BY <1>1, <1>2 DEF Written

Evolution ==
    \A i \in Id : Evolves(head[i], tail[i], used.delete, head'[i], tail'[i], used'.delete)

\* A step that leaves the stores alone.
LEMMA StoresStay ==
    ASSUME TypeInv, UNCHANGED <<head, tail>>,
           used' \in [save : Nat, delete : Nat, tail : Nat, find : Nat],
           used'.delete = used.delete,
           obj' \in [Client -> [Id -> Copies]], op' \in [Client -> Call]
    PROVE  TypeInv' /\ Evolution
<1>1. TypeInv'
  BY DEF TypeInv
<1>2. Evolution
  BY DEF Evolution, Evolves
<1> QED
  BY <1>1, <1>2

LEMMA Spending ==
    ASSUME TypeInv, NEW what \in {"save", "delete", "tail", "find"}, NEW max, Spends(what, max)
    PROVE  /\ used' \in [save : Nat, delete : Nat, tail : Nat, find : Nat]
           /\ used'.delete = IF what = "delete" THEN used.delete + 1 ELSE used.delete
  BY DEF TypeInv, Spends

\* The answer of a find when the tail has answered too.
Both(c, s, order) == Limited(Merged(op[c].got, s, order), op[c].limit)

LEMMA MergedDocs ==
    ASSUME TypeInv, NEW c \in Client, In(c, "find"), NEW order,
           NEW s \in Found(Present(tail), op[c].order, op[c].limit)
    PROVE  LET l == Both(c, s, order)
           IN  /\ l \in Seq(Docs)
               /\ \A k \in DOMAIN l : \/ \E j \in DOMAIN op[c].got : l[k] = op[c].got[j]
                                     \/ \E j \in DOMAIN s : l[k] = s[j]
<1> DEFINE m == Merged(op[c].got, s, order)
           l == Limited(m, op[c].limit)
           a == op[c].got
<1>1. a \in Seq(Docs) /\ op[c].limit \in Nat
  BY CallIs, Constants
<1>2. s \in Seq(Docs)
  <2>1. Present(tail) \subseteq Docs /\ IsFiniteSet(Present(tail))
    BY PresentIs DEF TypeInv
  <2>2. s \in Seq(Present(tail))
    BY <1>1, <2>1, FoundIsBest
  <2> QED
    BY <2>1, <2>2, SeqMonotonic
<1>3. /\ m \in Seq(Docs) /\ Len(m) = Len(a) + Len(s)
      /\ \A k \in 1..(Len(a) + Len(s)) :
            \/ \E j \in 1..Len(a) : m[k] = a[j]
            \/ \E j \in 1..Len(s) : m[k] = s[j]
  <2> HIDE DEF a
  <2>1. m \in Seq(Docs) /\ Len(m) = Len(a) + Len(s)
    BY <1>1, <1>2, MergedSteps DEF a
  <2> DEFINE t == Taken(a, s, order)
  <2>2. \A k \in 1..(Len(a) + Len(s)) :
           \/ t[k] = t[k - 1] + 1 /\ m[k] = a[t[k]] /\ t[k] \in 1..Len(a)
           \/ t[k] = t[k - 1] /\ m[k] = s[k - t[k]] /\ k - t[k] \in 1..Len(s)
    BY <1>1, <1>2, MergedSteps DEF a
  <2> HIDE DEF t
  <2> HIDE DEF m
  <2> QED
    BY <2>1, <2>2
<1>4. DOMAIN m = 1..(Len(a) + Len(s)) /\ DOMAIN a = 1..Len(a) /\ DOMAIN s = 1..Len(s)
  BY <1>1, <1>2, <1>3
<1> HIDE DEF m, a
<1>5. l \in Seq(Docs) /\ \A k \in DOMAIN l : k \in DOMAIN m /\ l[k] = m[k]
  BY <1>1, <1>3, LimitedIs
<1> QED
  BY <1>3, <1>4, <1>5 DEF m, a, Both

LEMMA TypeStep ==
    ASSUME TypeInv, [Next]_vars
    PROVE  TypeInv' /\ Evolution
<1>0. /\ head \in Stores /\ tail \in Stores /\ obj \in [Client -> [Id -> Copies]]
      /\ op \in [Client -> Call] /\ Idle \in Call
      /\ used \in [save : Nat, delete : Nat, tail : Nat, find : Nat]
  BY DEF TypeInv, Call
<1>1. ASSUME NEW c \in Client, NEW i \in Busy, LoadHead(c, i) PROVE TypeInv' /\ Evolution
  <2>0. i \in Id /\ UNCHANGED <<head, tail, used>>
    BY <1>1, Constants DEF LoadHead
  <2>1. CASE head[i] # None
    <3>1. head[i] \in Docs /\ obj' = [obj EXCEPT ![c][i] = Copy(head[i])] /\ op' = op
      BY <1>0, <1>1, <2>0, <2>1 DEF LoadHead, Stores
    <3>2. Copy(head[i]) \in Copies
      BY <3>1, CopyIs
    <3>3. obj' \in [Client -> [Id -> Copies]]
      BY <2>0, <3>1, <3>2, ObjectSet
    <3> QED
      BY <1>0, <2>0, <3>1, <3>3, StoresStay
  <2>2. CASE head[i] = None
    <3>1. op' = [op EXCEPT ![c] = [step |-> "load", id |-> i]] /\ obj' = obj
      BY <1>1, <2>2 DEF LoadHead, Calls
    <3>2. [step |-> "load", id |-> i] \in Call
      BY <2>0 DEF Call
    <3>3. op' \in [Client -> Call]
      BY <3>1, <3>2, CallSet
    <3> QED
      BY <1>0, <2>0, <3>1, <3>3, StoresStay
  <2> QED
    BY <2>1, <2>2
<1>2. ASSUME NEW c \in Client, LoadTail(c) PROVE TypeInv' /\ Evolution
  <2>1. /\ UNCHANGED <<head, tail, used>> /\ op[c].id \in Id
        /\ op' = [op EXCEPT ![c] = Idle]
        /\ obj' = obj \/ (/\ tail[op[c].id] # None
                          /\ obj' = [obj EXCEPT ![c][op[c].id] = Copy(tail[op[c].id])])
    BY <1>2, CallIs DEF LoadTail, Returns
  <2>2. op' \in [Client -> Call]
    BY <1>0, <2>1, CallSet
  <2>3. obj' \in [Client -> [Id -> Copies]]
    <3>1. CASE obj' = obj
      BY <1>0, <3>1
    <3>2. CASE /\ tail[op[c].id] # None
               /\ obj' = [obj EXCEPT ![c][op[c].id] = Copy(tail[op[c].id])]
      <4>1. Copy(tail[op[c].id]) \in Copies
        BY <1>0, <2>1, <3>2, CopyIs DEF Stores
      <4> QED
        BY <2>1, <3>2, <4>1, ObjectSet
    <3> QED
      BY <2>1, <3>1, <3>2
  <2> QED
    BY <1>0, <2>1, <2>2, <2>3, StoresStay
<1>3. ASSUME NEW c \in Client, NEW i \in Busy, NEW v \in Value, SaveCheck(c, i, v)
      PROVE  TypeInv' /\ Evolution
  <2>0. i \in Id /\ UNCHANGED <<head, tail>>
    BY <1>3, Constants DEF SaveCheck
  <2>1. /\ op' = [op EXCEPT ![c] = [step |-> "save", id |-> i, exists |-> head[i] # None]]
        /\ obj' = [obj EXCEPT ![c][i].val = v]
    BY <1>3 DEF SaveCheck, Calls
  <2>2. op' \in [Client -> Call]
    <3>1. [step |-> "save", id |-> i, exists |-> head[i] # None] \in Call
      BY <2>0 DEF Call
    <3> QED
      BY <2>1, <3>1, CallSet
  <2>3. obj' \in [Client -> [Id -> Copies]]
    <3>1. obj[c][i] \in Copies
      BY <1>0, <2>0
    <3>2. [obj[c][i] EXCEPT !.val = v] \in Copies
      BY <3>1 DEF Copies
    <3>3. obj' = [obj EXCEPT ![c][i] = [obj[c][i] EXCEPT !.val = v]]
      BY <2>1
    <3> QED
      BY <2>0, <3>2, <3>3, ObjectSet
  <2>4. Spends("save", MaxSave)
    BY <1>3 DEF SaveCheck
  <2> QED
    BY <2>0, <2>2, <2>3, <2>4, Spending, StoresStay
<1>4. ASSUME NEW c \in Client, SaveWrite(c) PROVE TypeInv' /\ Evolution
  <2>1. op[c].id \in Id /\ op[c].exists \in BOOLEAN
    BY <1>4, CallIs DEF SaveWrite
  <2>2. PICK i \in Id, o \in Copies : i = op[c].id /\ o = obj[c][i]
    BY <1>0, <2>1
  <2>3. PICK d \in Written(i, o, op[c].exists) :
           head' = [head EXCEPT ![i] = d] /\ obj' = [obj EXCEPT ![c][i] = Copy(d)]
    BY <1>4, <2>2 DEF SaveWrite
  <2>4. /\ d \in Docs /\ d # None /\ d.id = i /\ d.side = "head" /\ d.born <= used.delete
        /\ \/ head[i] = None /\ d.rev = 1 /\ d.born = used.delete
           \/ /\ o.rev > 0 /\ head[i] # None /\ head[i].rev = o.rev /\ d.born = head[i].born
              /\ d.rev = head[i].rev + 1 \/ d = head[i]
    BY <2>1, <2>3, WrittenIs
  <2>5. op' \in [Client -> Call] /\ UNCHANGED <<tail, used>>
    BY <1>0, <1>4, CallSet DEF SaveWrite, Returns
  <2>6. obj' \in [Client -> [Id -> Copies]]
    BY <2>3, <2>4, CopyIs, ObjectSet
  <2>7. head' \in Stores /\ head'[i] = d /\ \A j \in Id \ {i} : head'[j] = head[j]
    BY <1>0, <2>3, <2>4 DEF Stores
  <2>8. TypeInv'
    <3>1. \A j \in Id : head'[j] # None =>
             head'[j].id = j /\ head'[j].side = "head" /\ head'[j].born <= used'.delete
      <4> SUFFICES ASSUME NEW j \in Id, head'[j] # None
                   PROVE  head'[j].id = j /\ head'[j].side = "head"
                          /\ head'[j].born <= used.delete
        BY <2>5
      <4>1. CASE j = i
        BY <2>4, <2>7, <4>1
      <4>2. CASE j # i
        BY <2>7, <4>2 DEF TypeInv
      <4> QED
        BY <4>1, <4>2
    <3> QED
      BY <1>0, <2>5, <2>6, <2>7, <3>1 DEF TypeInv
  <2>9. Evolution
    <3> SUFFICES ASSUME NEW j \in Id
                 PROVE  Evolves(head[j], tail[j], used.delete,
                                head'[j], tail'[j], used'.delete)
      BY DEF Evolution
    <3>1. CASE j = i
      BY <2>4, <2>5, <2>7, <3>1 DEF Evolves
    <3>2. CASE j # i
      BY <2>5, <2>7, <3>2 DEF Evolves
    <3> QED
      BY <3>1, <3>2
  <2> QED
    BY <2>8, <2>9
<1>5. ASSUME NEW c \in Client, SaveRefused(c) PROVE TypeInv' /\ Evolution
  BY <1>0, <1>5, CallSet, StoresStay DEF SaveRefused, Returns
<1>6. ASSUME NEW c \in Client, NEW i \in Busy, DeleteHead(c, i) PROVE TypeInv' /\ Evolution
  <2>0. i \in Id /\ UNCHANGED <<tail, obj>> /\ head' = [head EXCEPT ![i] = None]
    BY <1>6, Constants DEF DeleteHead
  <2>1. op' = op \/ op' = [op EXCEPT ![c] = [step |-> "delete", id |-> i]]
    BY <1>6 DEF DeleteHead, Calls
  <2>2. op' \in [Client -> Call]
    <3>1. [step |-> "delete", id |-> i] \in Call
      BY <2>0 DEF Call
    <3> QED
      BY <1>0, <2>1, <3>1, CallSet
  <2>3. /\ used' \in [save : Nat, delete : Nat, tail : Nat, find : Nat]
        /\ used'.delete = used.delete + 1
    BY <1>6, Spending DEF DeleteHead
  <2>4. head' \in Stores /\ \A j \in Id : head'[j] = None \/ head'[j] = head[j]
    BY <1>0, <2>0 DEF Stores
  <2>5. TypeInv'
    <3>1. \A j \in Id : head'[j] # None =>
             head'[j].id = j /\ head'[j].side = "head" /\ head'[j].born <= used'.delete
      <4> SUFFICES ASSUME NEW j \in Id, head'[j] # None
                   PROVE  head'[j].id = j /\ head'[j].side = "head"
                          /\ head'[j].born <= used'.delete
        OBVIOUS
      <4>1. head'[j] = head[j] /\ head[j] \in Docs
        BY <1>0, <2>4 DEF Stores
      <4>2. head[j].id = j /\ head[j].side = "head" /\ head[j].born <= used.delete
        BY <4>1 DEF TypeInv
      <4>3. head[j].born \in Nat /\ used.delete \in Nat
        BY <1>0, <4>1 DEF Docs
      <4> QED
        BY <2>3, <4>1, <4>2, <4>3
    <3> QED
      BY <1>0, <2>0, <2>2, <2>3, <2>4, <3>1 DEF TypeInv
  <2>6. Evolution
    BY <2>0, <2>3, <2>4 DEF Evolution, Evolves
  <2> QED
    BY <2>5, <2>6
<1>7. ASSUME NEW c \in Client, DeleteCheck(c) PROVE TypeInv' /\ Evolution
  <2>1. /\ UNCHANGED <<head, tail, used>> /\ op[c].id \in Id
        /\ op' = [op EXCEPT ![c] = Idle]
        /\ \/ obj' = obj
           \/ obj' = [obj EXCEPT ![c][op[c].id] = Fresh(obj[c][op[c].id].val)]
    BY <1>7, CallIs DEF DeleteCheck, Returns
  <2>2. op' \in [Client -> Call]
    BY <1>0, <2>1, CallSet
  <2>3. obj' \in [Client -> [Id -> Copies]]
    <3>1. obj[c][op[c].id].val \in Value
      BY <1>0, <2>1 DEF Copies
    <3>2. Fresh(obj[c][op[c].id].val) \in Copies
      BY <3>1, CopyIs
    <3> QED
      BY <1>0, <2>1, <3>2, ObjectSet
  <2> QED
    BY <1>0, <2>1, <2>2, <2>3, StoresStay
<1>8. ASSUME NEW c \in Client, NEW o \in Orders \cup {None}, NEW n \in AtMost, FindHead(c, o, n)
      PROVE  TypeInv' /\ Evolution
  <2>1. PICK s \in Found(Present(head), o, n) :
           op' = [op EXCEPT ![c] = [step |-> "find", order |-> o, limit |-> n, got |-> s,
                                    read |-> Present(head)]]
    BY <1>8 DEF FindHead, Calls
  <2>2. Present(head) \subseteq Docs /\ IsFiniteSet(Present(head)) /\ n \in Nat
    BY <1>0, PresentIs, Constants
  <2>3. s \in Seq(Docs)
    <3>1. s \in Seq(Present(head))
      BY <2>2, FoundIsBest
    <3> QED
      BY <2>2, <3>1, SeqMonotonic
  <2>4. [step |-> "find", order |-> o, limit |-> n, got |-> s, read |-> Present(head)] \in Call
    BY <2>2, <2>3 DEF Call
  <2>5. op' \in [Client -> Call]
    BY <2>1, <2>4, CallSet
  <2>6. UNCHANGED <<head, tail, obj>> /\ Spends("find", MaxFind)
    BY <1>8 DEF FindHead
  <2> QED
    BY <1>0, <2>5, <2>6, Spending, StoresStay
<1>9. ASSUME NEW c \in Client, FindTail(c) PROVE TypeInv' /\ Evolution
  <2> DEFINE order == IF op[c].order = None THEN ById ELSE op[c].order
             got(s) == Both(c, s, order)
  <2>1. PICK s \in Found(Present(tail), op[c].order, op[c].limit) :
           op' = [op EXCEPT ![c] =
                   [op[c] EXCEPT !.step = "found", !.read = @ \cup Present(tail),
                                 !.got = got(s)]]
    BY <1>9 DEF FindTail, Both
  <2>2. got(s) \in Seq(Docs)
    BY <1>9, MergedDocs DEF FindTail
  <2> HIDE DEF got, order
  <2>3. op[c] \in [step : {"find", "found"}, order : Orders \cup {None},
                   limit : AtMost, got : Seq(Docs), read : SUBSET Docs]
    BY <1>9, CallIs DEF FindTail
  <2>4. Present(tail) \subseteq Docs
    BY <1>0, PresentIs
  <2>5. [op[c] EXCEPT !.step = "found", !.read = @ \cup Present(tail), !.got = got(s)] \in Call
    BY <2>2, <2>3, <2>4 DEF Call
  <2>6. op' \in [Client -> Call]
    BY <2>1, <2>5, CallSet
  <2> QED
    BY <1>0, <1>9, <2>6, StoresStay DEF FindTail
<1>10. ASSUME NEW c \in Client, FindEnd(c) PROVE TypeInv' /\ Evolution
  <2> DEFINE got == op[c].got
             of(i) == {k \in DOMAIN got : got[k].id = i}
  <2>1. /\ obj' = [obj EXCEPT ![c] =
                      [i \in Id |-> IF of(i) = {} THEN @[i] ELSE Copy(got[Max(of(i))])]]
        /\ op' = [op EXCEPT ![c] = Idle] /\ UNCHANGED <<head, tail, used>>
    BY <1>10 DEF FindEnd, Returns
  <2>2. got \in Seq(Docs)
    BY <1>10, CallIs DEF FindEnd
  <2>3. \A i \in Id : of(i) # {} => Max(of(i)) \in DOMAIN got
    <3>1. Len(got) \in Nat /\ DOMAIN got = 1..Len(got)
      BY <2>2
    <3> QED
      BY <3>1, Maximum
  <2>4. \A i \in Id : of(i) # {} => Copy(got[Max(of(i))]) \in Copies
    BY <2>2, <2>3, CopyIs
  <2> HIDE DEF of, got
  <2>5. obj' \in [Client -> [Id -> Copies]]
    BY <1>0, <2>1, <2>4
  <2>6. op' \in [Client -> Call]
    BY <1>0, <2>1, CallSet
  <2> QED
    BY <1>0, <2>1, <2>5, <2>6, StoresStay
<1>11. ASSUME NEW i \in Busy, NEW v \in Value, TailWrite(i, v) PROVE TypeInv' /\ Evolution
  <2> DEFINE d == IF tail[i] = None THEN Doc(i, "tail", 1, v, 0)
                  ELSE [tail[i] EXCEPT !.rev = tail[i].rev + 1, !.val = v]
  <2>0. i \in Id /\ UNCHANGED <<head, obj, op>> /\ tail' = [tail EXCEPT ![i] = d]
    <3>1. i \in Id
      BY Constants
    <3>2. tail' = [tail EXCEPT ![i] = d]
      <4>1. CASE tail[i] = None
        BY <1>11, <4>1 DEF TailWrite
      <4>2. CASE tail[i] # None
        BY <1>11, <4>2 DEF TailWrite
      <4> QED
        BY <4>1, <4>2
    <3> QED
      BY <1>11, <3>1, <3>2 DEF TailWrite
  <2>1. /\ used' \in [save : Nat, delete : Nat, tail : Nat, find : Nat]
        /\ used'.delete = used.delete
    BY <1>11, Spending DEF TailWrite
  <2>2. d \in Docs /\ d.id = i /\ d.side = "tail"
    <3>1. CASE tail[i] = None
      BY <2>0, <3>1 DEF Doc, Docs, Side
    <3>2. CASE tail[i] # None
      <4>1. tail[i] \in Docs /\ tail[i].id = i /\ tail[i].side = "tail"
        BY <1>0, <2>0, <3>2 DEF TypeInv, Stores
      <4>2. PICK t \in Docs : t = tail[i]
        BY <4>1
      <4>3. t.rev + 1 \in Nat \ {0}
        BY DEF Docs
      <4>4. d = [t EXCEPT !.rev = t.rev + 1, !.val = v]
        BY <3>2, <4>2
      <4>5. d = [id |-> t.id, side |-> t.side, rev |-> t.rev + 1, val |-> v, born |-> t.born]
        <5> HIDE DEF d
        <5> QED
          BY <4>4 DEF Docs
      <4> HIDE DEF d
      <4> QED
        BY <4>1, <4>2, <4>3, <4>5 DEF Docs
    <3> QED
      BY <3>1, <3>2
  <2> HIDE DEF d
  <2>3. tail' \in Stores /\ tail'[i] = d /\ \A j \in Id \ {i} : tail'[j] = tail[j]
    BY <1>0, <2>0, <2>2 DEF Stores
  <2>4. TypeInv'
    BY <1>0, <2>0, <2>1, <2>2, <2>3 DEF TypeInv
  <2>5. Evolution
    BY <2>0, <2>1, <2>2, <2>3, Constants DEF Evolution, Evolves
  <2> QED
    BY <2>4, <2>5
<1>12. CASE UNCHANGED vars
  BY <1>0, <1>12, StoresStay DEF vars
<1> QED
  BY <1>1, <1>2, <1>3, <1>4, <1>5, <1>6, <1>7, <1>8, <1>9, <1>10, <1>11, <1>12 DEF Next

-----------------------------------------------------------------------------
(* Where the copies are from *)

\* A copy of the document i, after the step, and a document that was found.
CopyOK(i, x) ==
    Traced(head'[i], tail'[i], used'.delete, x.side, x.rev, x.born, x.base)
FoundOK(d) ==
    Traced(head'[d.id], tail'[d.id], used'.delete, d.side, d.rev, d.born, d.val)

LEMMA AfterStep ==
    ASSUME TypeInv, TypeInv', Evolution, CopyInv, GotInv
    PROVE  /\ \A c \in Client, i \in Id : CopyOK(i, obj[c][i])
           /\ \A c \in Client : In(c, "find") \/ In(c, "found") =>
                 \A k \in DOMAIN op[c].got : op[c].got[k] \in Docs /\ FoundOK(op[c].got[k])
           /\ \A i \in Id : head'[i] # None =>
                 head'[i] \in Docs /\ FoundOK(head'[i]) /\ CopyOK(i, Copy(head'[i]))
           /\ \A i \in Id : tail'[i] # None =>
                 tail'[i] \in Docs /\ FoundOK(tail'[i]) /\ CopyOK(i, Copy(tail'[i]))
           /\ \A i \in Id, v \in Value : CopyOK(i, Fresh(v))
<1>0. /\ \A i \in Id : head[i] \in Docs \cup {None} /\ tail[i] \in Docs \cup {None}
      /\ \A i \in Id : head'[i] \in Docs \cup {None} /\ tail'[i] \in Docs \cup {None}
      /\ used.delete \in Nat /\ used'.delete \in Nat
  BY DEF TypeInv, Stores
<1>1. ASSUME NEW i \in Id, NEW side, NEW rev \in Nat, NEW born \in Nat, NEW val,
             Traced(head[i], tail[i], used.delete, side, rev, born, val)
      PROVE  Traced(head'[i], tail'[i], used'.delete, side, rev, born, val)
  <2>1. head[i] # None => head[i].born <= used.delete
    BY DEF TypeInv
  <2>2. Evolves(head[i], tail[i], used.delete, head'[i], tail'[i], used'.delete)
    BY DEF Evolution
  <2>3. PICK h \in Docs \cup {None}, h2 \in Docs \cup {None}, n \in Nat, n2 \in Nat :
           h = head[i] /\ h2 = head'[i] /\ n = used.delete /\ n2 = used'.delete
    BY <1>0
  <2>4. PICK t, t2 : t = tail[i] /\ t2 = tail'[i]
    OBVIOUS
  <2>5. /\ h # None => h.born <= n
        /\ Evolves(h, t, n, h2, t2, n2) /\ Traced(h, t, n, side, rev, born, val)
    BY <1>1, <2>1, <2>2, <2>3, <2>4
  <2>6. Traced(h2, t2, n2, side, rev, born, val)
    BY <2>5, TracedStays
  <2> QED
    BY <2>3, <2>4, <2>6
<1>2. ASSUME NEW c \in Client, NEW i \in Id PROVE CopyOK(i, obj[c][i])
  <2>1. obj[c][i].rev \in Nat /\ obj[c][i].born \in Nat
    BY DEF TypeInv, Copies
  <2> QED
    BY <1>1, <2>1 DEF CopyInv, CopyOK
<1>3. ASSUME NEW c \in Client, In(c, "find") \/ In(c, "found"), NEW k \in DOMAIN op[c].got
      PROVE  op[c].got[k] \in Docs /\ FoundOK(op[c].got[k])
  <2>1. PICK d \in Docs : d = op[c].got[k]
    <3>1. op[c].got \in Seq(Docs)
      BY <1>3, CallIs
    <3> QED
      BY <3>1
  <2>2. Traced(head[d.id], tail[d.id], used.delete, d.side, d.rev, d.born, d.val)
    BY <1>3, <2>1 DEF GotInv
  <2>3. d.id \in Id /\ d.rev \in Nat /\ d.born \in Nat
    BY DEF Docs
  <2> QED
    BY <1>1, <2>1, <2>2, <2>3 DEF FoundOK
<1>4. ASSUME NEW i \in Id, head'[i] # None
      PROVE  head'[i] \in Docs /\ FoundOK(head'[i]) /\ CopyOK(i, Copy(head'[i]))
  <2>1. /\ head'[i] \in Docs /\ head'[i].id = i /\ head'[i].side = "head"
        /\ head'[i].born <= used'.delete
    BY <1>0, <1>4 DEF TypeInv
  <2>2. PICK d \in Docs : d = head'[i] /\ d.id = i /\ d.side = "head" /\ d.born <= used'.delete
    BY <2>1
  <2>3. Traced(head'[i], tail'[i], used'.delete, d.side, d.rev, d.born, d.val)
    BY <1>0, <1>4, <2>2, ReadIsTraced
  <2> QED
    BY <2>2, <2>3 DEF FoundOK, CopyOK, Copy
<1>5. ASSUME NEW i \in Id, tail'[i] # None
      PROVE  tail'[i] \in Docs /\ FoundOK(tail'[i]) /\ CopyOK(i, Copy(tail'[i]))
  <2>1. PICK d \in Docs : d = tail'[i] /\ d.id = i /\ d.side = "tail"
    BY <1>0, <1>5 DEF TypeInv
  <2>2. Traced(head'[i], tail'[i], used'.delete, d.side, d.rev, d.born, d.val)
    BY <1>0, <1>5, <2>1, ReadIsTraced
  <2> QED
    BY <2>1, <2>2 DEF FoundOK, CopyOK, Copy
<1>6. \A i \in Id, v \in Value : CopyOK(i, Fresh(v))
  BY DEF CopyOK, Fresh, Traced
<1> QED
  BY <1>2, <1>3, <1>4, <1>5, <1>6

LEMMA CopyStep ==
    ASSUME TypeInv, CopyInv, GotInv, [Next]_vars
    PROVE  CopyInv'
<1>0. /\ TypeInv' /\ Evolution /\ obj \in [Client -> [Id -> Copies]]
      /\ head \in Stores /\ tail \in Stores
  BY TypeStep DEF TypeInv
<1>1. /\ \A c \in Client, i \in Id : CopyOK(i, obj[c][i])
      /\ \A c \in Client : In(c, "find") \/ In(c, "found") =>
           \A k \in DOMAIN op[c].got : op[c].got[k] \in Docs /\ FoundOK(op[c].got[k])
      /\ \A i \in Id : head'[i] # None =>
           head'[i] \in Docs /\ FoundOK(head'[i]) /\ CopyOK(i, Copy(head'[i]))
      /\ \A i \in Id : tail'[i] # None =>
           tail'[i] \in Docs /\ FoundOK(tail'[i]) /\ CopyOK(i, Copy(tail'[i]))
      /\ \A i \in Id, v \in Value : CopyOK(i, Fresh(v))
  BY <1>0, AfterStep
<1> SUFFICES \A c \in Client, i \in Id : CopyOK(i, obj'[c][i])
  BY DEF CopyInv, CopyOK
<1> DEFINE Goal == \A c \in Client, i \in Id : CopyOK(i, obj'[c][i])
<1>2. ASSUME NEW c \in Client, NEW i \in Id, NEW x \in Copies,
             obj' = [obj EXCEPT ![c][i] = x], CopyOK(i, x)
      PROVE  Goal
  BY <1>1, <1>2, ObjectSet
<1>3. CASE UNCHANGED obj
  BY <1>1, <1>3
<1>4. ASSUME NEW c \in Client, NEW i \in Busy, LoadHead(c, i), head[i] # None PROVE Goal
  <2>1. /\ i \in Id /\ head' = head /\ head[i] \in Docs
        /\ obj' = [obj EXCEPT ![c][i] = Copy(head[i])]
    BY <1>0, <1>4, Constants DEF LoadHead, Stores
  <2>2. Copy(head[i]) \in Copies /\ CopyOK(i, Copy(head[i]))
    BY <1>1, <1>4, <2>1, CopyIs
  <2> QED
    BY <1>2, <2>1, <2>2
<1>5. ASSUME NEW c \in Client, LoadTail(c), tail[op[c].id] # None PROVE Goal
  <2>1. PICK i \in Id : i = op[c].id
    BY <1>5, CallIs DEF LoadTail
  <2>2. /\ tail' = tail /\ tail[i] \in Docs /\ tail[i] # None
        /\ obj' = [obj EXCEPT ![c][i] = Copy(tail[i])]
    BY <1>0, <1>5, <2>1 DEF LoadTail, Stores
  <2>3. Copy(tail[i]) \in Copies /\ CopyOK(i, Copy(tail[i]))
    BY <1>1, <2>2, CopyIs
  <2> QED
    BY <1>2, <2>2, <2>3
<1>6. ASSUME NEW c \in Client, NEW i \in Busy, NEW v \in Value, SaveCheck(c, i, v) PROVE Goal
  <2>1. PICK x \in Copies : x = obj[c][i] /\ CopyOK(i, x) /\ i \in Id
    BY <1>0, <1>1, Constants
  <2>2. obj' = [obj EXCEPT ![c][i] = [x EXCEPT !.val = v]]
    BY <1>6, <2>1 DEF SaveCheck
  <2>3. [x EXCEPT !.val = v] \in Copies /\ CopyOK(i, [x EXCEPT !.val = v])
    BY <2>1 DEF Copies, CopyOK
  <2> QED
    BY <1>2, <2>1, <2>2, <2>3
<1>7. ASSUME NEW c \in Client, SaveWrite(c) PROVE Goal
  <2>1. op[c].id \in Id /\ op[c].exists \in BOOLEAN
    BY <1>7, CallIs DEF SaveWrite
  <2>2. PICK i \in Id, o \in Copies : i = op[c].id /\ o = obj[c][i]
    BY <1>0, <2>1
  <2>3. PICK d \in Written(i, o, op[c].exists) :
           head' = [head EXCEPT ![i] = d] /\ obj' = [obj EXCEPT ![c][i] = Copy(d)]
    BY <1>7, <2>2 DEF SaveWrite
  <2>4. d \in Docs /\ d # None
    BY <2>1, <2>3, WrittenIs
  <2>5. head'[i] = d
    BY <1>0, <2>3 DEF Stores
  <2>6. Copy(d) \in Copies /\ CopyOK(i, Copy(d))
    BY <1>1, <2>4, <2>5, CopyIs
  <2> QED
    BY <1>2, <2>3, <2>6
<1>8. ASSUME NEW c \in Client, DeleteCheck(c), ~UNCHANGED obj PROVE Goal
  <2>1. PICK i \in Id : i = op[c].id
    BY <1>8, CallIs DEF DeleteCheck
  <2>2. obj' = [obj EXCEPT ![c][i] = Fresh(obj[c][i].val)]
    BY <1>8, <2>1 DEF DeleteCheck
  <2>3. obj[c][i].val \in Value
    BY <1>0 DEF Copies
  <2>4. Fresh(obj[c][i].val) \in Copies /\ CopyOK(i, Fresh(obj[c][i].val))
    BY <1>1, <2>3, CopyIs
  <2> QED
    BY <1>2, <2>2, <2>4
<1>9. ASSUME NEW c \in Client, FindEnd(c) PROVE Goal
  <2> DEFINE got == op[c].got
             of(i) == {k \in DOMAIN got : got[k].id = i}
  <2>1. obj' = [obj EXCEPT ![c] =
                  [i \in Id |-> IF of(i) = {} THEN @[i] ELSE Copy(got[Max(of(i))])]]
    BY <1>9 DEF FindEnd
  <2>2. got \in Seq(Docs) /\ \A k \in DOMAIN got : got[k] \in Docs /\ FoundOK(got[k])
    BY <1>1, <1>9, CallIs DEF FindEnd
  <2>3. ASSUME NEW i \in Id, of(i) # {} PROVE CopyOK(i, Copy(got[Max(of(i))]))
    <3>1. Len(got) \in Nat /\ DOMAIN got = 1..Len(got)
      BY <2>2
    <3>2. Max(of(i)) \in of(i)
      BY <2>3, <3>1, Maximum
    <3>3. PICK d \in Docs : d = got[Max(of(i))] /\ d.id = i /\ FoundOK(d)
      BY <2>2, <3>2
    <3> QED
      BY <3>3 DEF FoundOK, CopyOK, Copy
  <2> HIDE DEF of, got
  <2> SUFFICES ASSUME NEW e \in Client, NEW i \in Id PROVE CopyOK(i, obj'[e][i])
    OBVIOUS
  <2>4. obj'[e][i] = IF e # c \/ of(i) = {} THEN obj[e][i] ELSE Copy(got[Max(of(i))])
    BY <1>0, <2>1
  <2> QED
    BY <1>1, <2>3, <2>4
<1>10. UNCHANGED obj \/ \E c \in Client :
          \/ \E i \in Busy : LoadHead(c, i) /\ head[i] # None
          \/ LoadTail(c) /\ tail[op[c].id] # None
          \/ \E i \in Busy, v \in Value : SaveCheck(c, i, v)
          \/ SaveWrite(c)
          \/ DeleteCheck(c) /\ ~UNCHANGED obj
          \/ FindEnd(c)
  BY DEF Next, vars, LoadHead, LoadTail, SaveRefused, DeleteHead, DeleteCheck, FindHead,
         FindTail, TailWrite
<1> QED
  BY <1>3, <1>4, <1>5, <1>6, <1>7, <1>8, <1>9, <1>10

LEMMA GotStep ==
    ASSUME TypeInv, CopyInv, GotInv, [Next]_vars
    PROVE  GotInv'
<1>0. /\ TypeInv' /\ Evolution /\ head \in Stores /\ tail \in Stores
  BY TypeStep DEF TypeInv
<1>1. /\ \A c \in Client : In(c, "find") \/ In(c, "found") =>
           \A k \in DOMAIN op[c].got : op[c].got[k] \in Docs /\ FoundOK(op[c].got[k])
      /\ \A i \in Id : head'[i] # None => FoundOK(head'[i])
      /\ \A i \in Id : tail'[i] # None => FoundOK(tail'[i])
  BY <1>0, AfterStep
<1> DEFINE OK(call) == call # Idle /\ call.step \in {"find", "found"} =>
                          \A k \in DOMAIN call.got : FoundOK(call.got[k])
<1> SUFFICES \A c \in Client : OK(op'[c])
  BY DEF GotInv, FoundOK, In
<1>2. \A c \in Client : OK(op[c])
  BY <1>1 DEF In
<1>3. ASSUME NEW c \in Client, NEW x, op' = [op EXCEPT ![c] = x], OK(x)
      PROVE  \A e \in Client : OK(op'[e])
  BY <1>2, <1>3 DEF TypeInv
<1>4. CASE UNCHANGED op
  BY <1>2, <1>4
<1>5. CASE \E c \in Client : Returns(c)
  <2>1. OK(Idle)
    OBVIOUS
  <2> HIDE DEF OK
  <2> QED
    BY <1>3, <1>5, <2>1 DEF Returns
<1>6. CASE \E c \in Client, i \in Id : \/ op' = [op EXCEPT ![c] = [step |-> "load", id |-> i]]
                                       \/ op' = [op EXCEPT ![c] = [step |-> "delete", id |-> i]]
  <2>1. \A i \in Id : OK([step |-> "load", id |-> i]) /\ OK([step |-> "delete", id |-> i])
    OBVIOUS
  <2> HIDE DEF OK
  <2> QED
    BY <1>3, <1>6, <2>1
<1>7. ASSUME NEW c \in Client, NEW i \in Busy, NEW v \in Value, SaveCheck(c, i, v)
      PROVE  \A e \in Client : OK(op'[e])
  <2>1. op' = [op EXCEPT ![c] = [step |-> "save", id |-> i, exists |-> head[i] # None]]
    BY <1>7 DEF SaveCheck, Calls
  <2>2. OK([step |-> "save", id |-> i, exists |-> head[i] # None])
    OBVIOUS
  <2> HIDE DEF OK
  <2> QED
    BY <1>3, <2>1, <2>2
<1>8. ASSUME NEW c \in Client, NEW o \in Orders \cup {None}, NEW n \in AtMost, FindHead(c, o, n)
      PROVE  \A e \in Client : OK(op'[e])
  <2>1. PICK s \in Found(Present(head), o, n) :
           op' = [op EXCEPT ![c] = [step |-> "find", order |-> o, limit |-> n, got |-> s,
                                    read |-> Present(head)]]
    BY <1>8 DEF FindHead, Calls
  <2>2. /\ IsFiniteSet(Present(head)) /\ n \in Nat /\ head' = head
        /\ \A d \in Present(head) : \E i \in Id : d = head[i] /\ head[i] # None
    BY <1>0, <1>8, PresentIs, Constants DEF FindHead
  <2>3. s \in Seq(Present(head))
    BY <2>2, FoundIsBest
  <2>4. \A k \in DOMAIN s : FoundOK(s[k])
    BY <1>1, <2>2, <2>3
  <2>5. OK([step |-> "find", order |-> o, limit |-> n, got |-> s, read |-> Present(head)])
    BY <2>4
  <2> HIDE DEF OK
  <2> QED
    BY <1>3, <2>1, <2>5
<1>9. ASSUME NEW c \in Client, FindTail(c) PROVE \A e \in Client : OK(op'[e])
  <2> DEFINE order == IF op[c].order = None THEN ById ELSE op[c].order
             got(s) == Both(c, s, order)
  <2>1. PICK s \in Found(Present(tail), op[c].order, op[c].limit) :
           op' = [op EXCEPT ![c] =
                   [op[c] EXCEPT !.step = "found", !.read = @ \cup Present(tail),
                                 !.got = got(s)]]
    BY <1>9 DEF FindTail, Both
  <2>2. In(c, "find") /\ tail' = tail
    BY <1>9 DEF FindTail
  <2>3. /\ got(s) \in Seq(Docs)
        /\ \A k \in DOMAIN got(s) : \/ \E j \in DOMAIN op[c].got : got(s)[k] = op[c].got[j]
                                    \/ \E j \in DOMAIN s : got(s)[k] = s[j]
    BY <2>2, MergedDocs
  <2> HIDE DEF got, order
  <2>4. /\ op[c] \in [step : {"find", "found"}, order : Orders \cup {None},
                      limit : AtMost, got : Seq(Docs), read : SUBSET Docs]
        /\ op[c].limit \in Nat
    BY <2>2, CallIs, Constants
  <2>5. /\ IsFiniteSet(Present(tail))
        /\ \A d \in Present(tail) : \E i \in Id : d = tail[i] /\ tail[i] # None
    BY <1>0, PresentIs
  <2>6. s \in Seq(Present(tail))
    BY <2>4, <2>5, FoundIsBest
  <2>7. \A j \in DOMAIN s : FoundOK(s[j])
    BY <1>1, <2>2, <2>5, <2>6
  <2>8. \A j \in DOMAIN op[c].got : FoundOK(op[c].got[j])
    BY <1>1, <2>2
  <2>9. \A k \in DOMAIN got(s) : FoundOK(got(s)[k])
    BY <2>3, <2>7, <2>8
  <2>10. OK([op[c] EXCEPT !.step = "found", !.read = @ \cup Present(tail), !.got = got(s)])
    BY <2>4, <2>9
  <2> HIDE DEF OK
  <2> QED
    BY <1>3, <2>1, <2>10
<1>10. \/ UNCHANGED op \/ \E c \in Client : Returns(c)
       \/ \E c \in Client, i \in Id : \/ op' = [op EXCEPT ![c] = [step |-> "load", id |-> i]]
                                      \/ op' = [op EXCEPT ![c] = [step |-> "delete", id |-> i]]
       \/ \E c \in Client, i \in Busy, v \in Value : SaveCheck(c, i, v)
       \/ \E c \in Client, o \in Orders \cup {None}, n \in AtMost : FindHead(c, o, n)
       \/ \E c \in Client : FindTail(c)
  BY Constants DEF Next, vars, LoadHead, LoadTail, SaveWrite, SaveRefused, DeleteHead, DeleteCheck,
         FindEnd, TailWrite, Calls
<1> HIDE DEF OK
<1> QED
  BY <1>4, <1>5, <1>6, <1>7, <1>8, <1>9, <1>10

-----------------------------------------------------------------------------
(* The answers *)

\* A find that has asked the head has the head's answer; one that has asked both
\* has the answer of all that it read.
FindInv ==
    \A c \in Client :
       /\ In(c, "find") =>
            /\ IsFiniteSet(op[c].read) /\ \A d \in op[c].read : d.side = "head"
            /\ Best(op[c].got, op[c].read, op[c].order, op[c].limit)
       /\ In(c, "found") => Best(op[c].got, op[c].read, op[c].order, op[c].limit)

LEMMA FindStep ==
    ASSUME TypeInv, FindInv, [Next]_vars
    PROVE  FindInv'
<1>0. head \in Stores /\ tail \in Stores
  BY DEF TypeInv
<1> DEFINE Answer(call) == Best(call.got, call.read, call.order, call.limit)
           OK(call) ==
              /\ call # Idle /\ call.step = "find" =>
                   /\ IsFiniteSet(call.read) /\ \A d \in call.read : d.side = "head"
                   /\ Answer(call)
              /\ call # Idle /\ call.step = "found" => Answer(call)
<1> SUFFICES \A c \in Client : OK(op'[c])
  BY DEF FindInv, In
<1>2. \A c \in Client : OK(op[c])
  BY DEF FindInv, In
<1>3. ASSUME NEW c \in Client, NEW x, op' = [op EXCEPT ![c] = x], OK(x)
      PROVE  \A e \in Client : OK(op'[e])
  <2> HIDE DEF OK
  <2> QED
    BY <1>2, <1>3 DEF TypeInv
<1>4. CASE UNCHANGED op
  <2> HIDE DEF OK
  <2> QED
    BY <1>2, <1>4
<1>5. CASE \E c \in Client : Returns(c)
  <2>1. OK(Idle)
    OBVIOUS
  <2> HIDE DEF OK
  <2> QED
    BY <1>3, <1>5, <2>1 DEF Returns
<1>6. CASE \E c \in Client, i \in Id : \/ op' = [op EXCEPT ![c] = [step |-> "load", id |-> i]]
                                       \/ op' = [op EXCEPT ![c] = [step |-> "delete", id |-> i]]
  <2>1. \A i \in Id : OK([step |-> "load", id |-> i]) /\ OK([step |-> "delete", id |-> i])
    OBVIOUS
  <2> HIDE DEF OK
  <2> QED
    BY <1>3, <1>6, <2>1
<1>7. ASSUME NEW c \in Client, NEW i \in Busy, NEW v \in Value, SaveCheck(c, i, v)
      PROVE  \A e \in Client : OK(op'[e])
  <2>1. op' = [op EXCEPT ![c] = [step |-> "save", id |-> i, exists |-> head[i] # None]]
    BY <1>7 DEF SaveCheck, Calls
  <2>2. OK([step |-> "save", id |-> i, exists |-> head[i] # None])
    OBVIOUS
  <2> HIDE DEF OK
  <2> QED
    BY <1>3, <2>1, <2>2
<1>8. ASSUME NEW c \in Client, NEW o \in Orders \cup {None}, NEW n \in AtMost, FindHead(c, o, n)
      PROVE  \A e \in Client : OK(op'[e])
  <2> DEFINE x(s) == [step |-> "find", order |-> o, limit |-> n, got |-> s,
                      read |-> Present(head)]
  <2>1. PICK s \in Found(Present(head), o, n) : op' = [op EXCEPT ![c] = x(s)]
    BY <1>8 DEF FindHead, Calls
  <2>2. /\ IsFiniteSet(Present(head)) /\ n \in Nat
        /\ \A d \in Present(head) : \E i \in Id : d = head[i] /\ head[i] # None
    BY <1>0, PresentIs, Constants
  <2>3. \A d \in Present(head) : d.side = "head"
    BY <2>2 DEF TypeInv
  <2>4. Best(s, Present(head), o, n)
    BY <2>2, FoundIsBest
  <2>5. /\ x(s).step = "find" /\ x(s).read = Present(head) /\ x(s).got = s
        /\ x(s).order = o /\ x(s).limit = n
    OBVIOUS
  <2> HIDE DEF x
  <2>6. OK(x(s))
    BY <2>2, <2>3, <2>4, <2>5
  <2> HIDE DEF OK
  <2> QED
    BY <1>3, <2>1, <2>6
<1>9. ASSUME NEW c \in Client, FindTail(c) PROVE \A e \in Client : OK(op'[e])
  <2> DEFINE order == IF op[c].order = None THEN ById ELSE op[c].order
             x(s) == [op[c] EXCEPT !.step = "found", !.read = @ \cup Present(tail),
                                   !.got = Both(c, s, order)]
  <2>1. PICK s \in Found(Present(tail), op[c].order, op[c].limit) :
           op' = [op EXCEPT ![c] = x(s)]
    BY <1>9 DEF FindTail, Both
  <2>2. In(c, "find")
    BY <1>9 DEF FindTail
  <2>3. op[c] \in [step : {"find", "found"}, order : Orders \cup {None},
                   limit : AtMost, got : Seq(Docs), read : SUBSET Docs]
    BY <2>2, CallIs
  <2>4. PICK A \in SUBSET Docs, a \in Seq(Docs), o \in Orders \cup {None}, n \in Nat :
           A = op[c].read /\ a = op[c].got /\ o = op[c].order /\ n = op[c].limit
    BY <2>3, Constants
  <2>5. IsFiniteSet(A) /\ Best(a, A, o, n) /\ \A d \in A : d.side = "head"
    BY <2>2, <2>4 DEF FindInv
  <2>6. a \in Seq(A)
    <3>1. Range(a) \subseteq A
      BY <2>5 DEF Best
    <3>2. a \in Seq(Range(a))
      BY SeqOfRange
    <3> QED
      BY <3>1, <3>2, SeqMonotonic
  <2>7. PICK B \in SUBSET Docs : B = Present(tail)
    BY <1>0, PresentIs
  <2>8. IsFiniteSet(B) /\ \A d \in B : d.side = "tail"
    <3>1. /\ IsFiniteSet(B)
          /\ \A d \in B : \E i \in Id : d = tail[i] /\ tail[i] # None
      BY <1>0, <2>7, PresentIs
    <3> QED
      BY <3>1 DEF TypeInv
  <2>9. s \in Seq(B) /\ Best(s, B, o, n)
    BY <2>4, <2>7, <2>8, FoundIsBest
  <2>10. A \cap B = {}
    BY <2>5, <2>8
  <2>11. PICK p : p = order /\ (o # None => p = o /\ Comparable(Docs, o))
    <3>1. o # None => order = o
      BY <2>4
    <3>2. o # None => Comparable(Docs, o)
      <4>1. o # None => o.key = "val"
        BY DEF Orders
      <4>2. \A d \in Docs : d["val"] \in Int
        <5>1. \A d \in Docs : d.val \in Value
          BY DEF Docs
        <5>2. Value \subseteq Int
          BY Constants
        <5> QED
          BY <5>1, <5>2
      <4> QED
        BY <4>1, <4>2 DEF Comparable
    <3> QED
      BY <3>1, <3>2
  <2>12. Best(Limited(Merged(a, s, p), n), A \cup B, o, n)
    BY <2>5, <2>6, <2>8, <2>9, <2>10, <2>11, MergedIsBest
  <2>13. Both(c, s, order) = Limited(Merged(a, s, p), n)
    BY <2>4, <2>11 DEF Both
  <2>14. /\ x(s).step = "found" /\ x(s).read = A \cup B /\ x(s).order = o /\ x(s).limit = n
         /\ x(s).got = Both(c, s, order)
    <3> HIDE DEF order
    <3> QED
      BY <2>3, <2>4, <2>7
  <2> HIDE DEF x, order
  <2>15. OK(x(s))
    BY <2>12, <2>13, <2>14
  <2> HIDE DEF OK
  <2> QED
    BY <1>3, <2>1, <2>15
<1>10. \/ UNCHANGED op \/ \E c \in Client : Returns(c)
       \/ \E c \in Client, i \in Id : \/ op' = [op EXCEPT ![c] = [step |-> "load", id |-> i]]
                                      \/ op' = [op EXCEPT ![c] = [step |-> "delete", id |-> i]]
       \/ \E c \in Client, i \in Busy, v \in Value : SaveCheck(c, i, v)
       \/ \E c \in Client, o \in Orders \cup {None}, n \in AtMost : FindHead(c, o, n)
       \/ \E c \in Client : FindTail(c)
  BY Constants DEF Next, vars, LoadHead, LoadTail, SaveWrite, SaveRefused, DeleteHead, DeleteCheck,
         FindEnd, TailWrite, Calls
<1> HIDE DEF OK
<1> QED
  BY <1>4, <1>5, <1>6, <1>7, <1>8, <1>9, <1>10

-----------------------------------------------------------------------------
(* The theorems *)

IInv == TypeInv /\ CopyInv /\ GotInv

LEMMA InitHolds ==
    ASSUME Init
    PROVE  IInv /\ FindInv /\ Recorded
<1>1. PICK kept \in Stored :
         /\ head = [i \in Id |-> IF <<i, "head">> \in DOMAIN kept
                                 THEN Doc(i, "head", 1, kept[<<i, "head">>], 0) ELSE None]
         /\ tail = [i \in Id |-> IF <<i, "tail">> \in DOMAIN kept
                                 THEN Doc(i, "tail", 1, kept[<<i, "tail">>], 0) ELSE None]
  BY DEF Init
<1>2. \A there \in DOMAIN kept : kept[there] \in Value
  BY UnionAssumption
<1>3. \A i \in Id : /\ head[i] # None => /\ head[i] \in Docs /\ head[i].id = i
                                         /\ head[i].side = "head" /\ head[i].born = 0
                    /\ tail[i] # None => /\ tail[i] \in Docs /\ tail[i].id = i
                                         /\ tail[i].side = "tail"
  <2>1. ASSUME NEW i \in Id, NEW v \in Value, NEW side \in Side
        PROVE  /\ Doc(i, side, 1, v, 0) \in Docs /\ Doc(i, side, 1, v, 0).id = i
               /\ Doc(i, side, 1, v, 0).side = side /\ Doc(i, side, 1, v, 0).born = 0
    BY DEF Doc, Docs
  <2> SUFFICES ASSUME NEW i \in Id
               PROVE  /\ head[i] # None => /\ head[i] \in Docs /\ head[i].id = i
                                           /\ head[i].side = "head" /\ head[i].born = 0
                      /\ tail[i] # None => /\ tail[i] \in Docs /\ tail[i].id = i
                                           /\ tail[i].side = "tail"
    OBVIOUS
  <2>2. /\ head[i] # None => \E v \in Value : head[i] = Doc(i, "head", 1, v, 0)
        /\ tail[i] # None => \E v \in Value : tail[i] = Doc(i, "tail", 1, v, 0)
    BY <1>1, <1>2
  <2>3. "head" \in Side /\ "tail" \in Side
    BY DEF Side
  <2> QED
    BY <2>1, <2>2, <2>3
<1>4. head \in Stores /\ tail \in Stores
  BY <1>1, <1>3 DEF Stores
<1>5. PICK v \in Value : obj = [c \in Client |-> [i \in Id |-> Fresh(v)]]
  <2>1. (CHOOSE v \in Value : TRUE) \in Value
    BY Constants
  <2> QED
    BY <2>1, Zenon DEF Init
<1>6. obj \in [Client -> [Id -> Copies]]
  BY <1>5, CopyIs
<1>7. op = [c \in Client |-> Idle] /\ used = [save |-> 0, delete |-> 0, tail |-> 0, find |-> 0]
  BY DEF Init
<1>8. TypeInv
  BY <1>3, <1>4, <1>6, <1>7 DEF TypeInv, Call
<1>9. CopyInv
  BY <1>5 DEF CopyInv, Traced, Fresh
<1>10. GotInv /\ FindInv
  BY <1>7 DEF GotInv, FindInv, In
<1>11. Recorded
  <2> SUFFICES ASSUME NEW i \in Id, head[i] # None
               PROVE  [id |-> i, rev |-> head[i].rev, born |-> head[i].born] \in hist
    BY DEF Recorded
  <2>1. head[i] \in Range(head) \ {None} /\ head[i].id = i
    BY <1>3, <1>4 DEF Range, Stores
  <2>2. hist = {[id |-> d.id, rev |-> d.rev, born |-> d.born] : d \in Range(head) \ {None}}
    BY DEF Init
  <2> QED
    BY <2>1, <2>2
<1> QED
  BY <1>8, <1>9, <1>10, <1>11 DEF IInv

LEMMA Invariance == Spec => []IInv
<1>1. Init => IInv
  BY InitHolds
<1>2. IInv /\ [Next]_vars => IInv'
  BY TypeStep, CopyStep, GotStep DEF IInv
<1> QED
  BY <1>1, <1>2, PTL DEF Spec

\* A find returns as many documents as it may of all that it has read in the
\* two stores, in the asked order, and none that is left out comes before one
\* that is returned: whatever the limits, the orders and the equal keys, it is
\* enough to ask each store for its own first documents and to merge them.
THEOREM FindReturnsTheFirst == Spec => []FindMerged
<1>1. Init => IInv /\ FindInv
  BY InitHolds
<1>2. IInv /\ FindInv /\ [Next]_vars => (IInv /\ FindInv)'
  BY TypeStep, CopyStep, GotStep, FindStep DEF IInv
<1>3. IInv /\ FindInv => FindMerged
  BY DEF FindInv, FindMerged, Best, After
<1> QED
  BY <1>1, <1>2, <1>3, PTL DEF Spec

LEMMA OverwriteStep ==
    ASSUME TypeInv, CopyInv, [Next]_vars, NEW c \in Client, NEW i \in Id,
           In(c, "save"), op[c].id = i, op'[c] = Idle, head[i] # None, head'[i] # head[i]
    PROVE  LET copy == obj[c][i]
               old  == head[i]
           IN  \/ copy.base = old.val /\ copy.born = old.born
               \/ copy.side = "tail" \/ copy.born # old.born
<1>1. op[c] # Idle /\ op[c].step = "save" /\ op \in [Client -> Call]
  BY DEF In, TypeInv
<1>2. SaveWrite(c) \/ SaveRefused(c)
  <2>1. op' # op
    BY <1>1
  <2>2. ASSUME NEW e \in Client, e # c, NEW x, op' = [op EXCEPT ![e] = x] PROVE FALSE
    BY <1>1, <2>2
  <2>3. \E e \in Client :
           /\ \E x : op' = [op EXCEPT ![e] = x]
           /\ \/ op[e] = Idle \/ In(e, "load") \/ In(e, "delete") \/ In(e, "find")
              \/ In(e, "found") \/ SaveWrite(e) \/ SaveRefused(e)
    BY <2>1 DEF Next, vars, LoadHead, LoadTail, SaveCheck, SaveWrite, SaveRefused, DeleteHead,
                DeleteCheck, FindHead, FindTail, FindEnd, TailWrite, Calls, Returns
  <2>4. ~(op[c] = Idle \/ In(c, "load") \/ In(c, "delete") \/ In(c, "find") \/ In(c, "found"))
    BY <1>1 DEF In
  <2> QED
    BY <2>2, <2>3, <2>4
<1>3. ~SaveRefused(c)
  BY DEF SaveRefused
<1>4. op[c].exists \in BOOLEAN
  BY CallIs
<1>5. PICK o \in Copies : o = obj[c][i]
  BY DEF TypeInv
<1>6. PICK d \in Written(i, o, op[c].exists) : TRUE
  BY <1>2, <1>3, <1>5 DEF SaveWrite
<1>7. o.rev > 0 /\ head[i].rev = o.rev
  BY <1>4, <1>6, WrittenIs
<1>8. Traced(head[i], tail[i], used.delete, o.side, o.rev, o.born, o.base)
  BY <1>5 DEF CopyInv
<1>9. o.side \in {"head", "tail", "none"} /\ o.rev \in Nat
  BY DEF Copies, Side
<1>10. CASE o.side = "head"
  BY <1>5, <1>7, <1>8, <1>10 DEF Traced, Behind
<1>11. CASE o.side = "none"
  BY <1>7, <1>8, <1>9, <1>11 DEF Traced
<1>12. CASE o.side = "tail"
  BY <1>5, <1>12
<1> QED
  BY <1>9, <1>10, <1>11, <1>12

\* A save over a document of the head overwrites the content that the client
\* had read, unless its copy is one of the tail or of a deleted document.
THEOREM OverwritesWhatItRead == Spec => NoBlindOverwrite
<1>1. TypeInv /\ CopyInv /\ [Next]_vars =>
         \A c \in Client, i \in Id :
            In(c, "save") /\ op[c].id = i /\ op'[c] = Idle /\ head[i] # None
              /\ head'[i] # head[i] =>
                 \/ obj[c][i].base = head[i].val /\ obj[c][i].born = head[i].born
                 \/ obj[c][i].side = "tail" \/ obj[c][i].born # head[i].born
  BY OverwriteStep
<1>2. IInv /\ [Next]_vars =>
         [\A c \in Client, i \in Id :
            LET old       == head[i]
                copy      == obj[c][i]
                overwrote == /\ In(c, "save") /\ op[c].id = i /\ op'[c] = Idle
                             /\ old # None /\ head'[i] # old
            IN  overwrote => \/ copy.base = old.val /\ copy.born = old.born
                             \/ copy.side = "tail" \/ copy.born # old.born]_vars
  BY <1>1 DEF IInv
<1> QED
  BY <1>2, Invariance, PTL DEF Spec, NoBlindOverwrite

LEMMA RecordedStep ==
    ASSUME TypeInv, CopyInv, TypeInv', Evolution, Recorded, [Next]_vars
    PROVE  Recorded'
<1>1. hist \subseteq hist'
  BY DEF Next, vars, LoadHead, LoadTail, SaveCheck, SaveWrite, SaveRefused, DeleteHead,
         DeleteCheck, FindHead, FindTail, FindEnd, TailWrite
<1> SUFFICES ASSUME NEW i \in Id, head'[i] # None,
                    [id |-> i, rev |-> head'[i].rev, born |-> head'[i].born] \notin hist'
             PROVE  head'[i].rev = 1 /\ (tail'[i] # None \/ head'[i].born > 0)
  BY DEF Recorded
<1>2. tail[i] # None => tail'[i] # None
  BY DEF Evolution, Evolves
<1>3. CASE head'[i] = head[i]
  BY <1>1, <1>2, <1>3 DEF Recorded
<1>4. CASE head'[i] # head[i]
  <2>0. head \in Stores
    BY DEF TypeInv
  <2>1. PICK c \in Client : SaveWrite(c)
    <3>1. \A j \in Busy, c \in Client : ~DeleteHead(c, j)
      <4> SUFFICES ASSUME NEW j \in Busy, NEW c \in Client, DeleteHead(c, j) PROVE FALSE
        OBVIOUS
      <4>1. head' = [head EXCEPT ![j] = None]
        BY DEF DeleteHead
      <4> QED
        BY <1>4, <2>0, <4>1 DEF Stores
    <3> QED
      BY <1>4, <3>1 DEF Next, vars, LoadHead, LoadTail, SaveCheck, SaveRefused,
         DeleteCheck, FindHead, FindTail, FindEnd, TailWrite
  <2>2. op[c].id \in Id /\ op[c].exists \in BOOLEAN
    BY <2>1, CallIs DEF SaveWrite
  <2>3. PICK j \in Id, o \in Copies : j = op[c].id /\ o = obj[c][j]
    BY <2>2 DEF TypeInv
  <2>4. PICK d \in Written(j, o, op[c].exists) :
           /\ head' = [head EXCEPT ![j] = d] /\ tail' = tail
           /\ hist' = hist \cup (IF NewRevision(o, d)
                                 THEN {[id |-> j, rev |-> d.rev, born |-> d.born]} ELSE {})
    BY <2>1, <2>3 DEF SaveWrite
  <2>5. j = i /\ head'[i] = d
    BY <1>4, <2>0, <2>4 DEF Stores
  <2>6. /\ d \in Docs
        /\ \/ head[i] = None /\ d.rev = 1 /\ d.born = used.delete
           \/ /\ o.rev > 0 /\ head[i] # None /\ head[i].rev = o.rev /\ d.born = head[i].born
              /\ d.rev = head[i].rev + 1 \/ d = head[i]
    BY <2>2, <2>4, <2>5, WrittenIs
  <2>7. ~(d.rev > o.rev)
    BY <2>4, <2>5 DEF NewRevision
  <2>8. o.rev \in Nat /\ o.born \in Nat /\ o.side \in {"head", "tail", "none"}
    BY DEF Copies, Side
  <2>9. head[i] = None /\ d.rev = 1 /\ d.born = used.delete
    <3>1. d # head[i]
      BY <1>4, <2>5
    <3> QED
      BY <2>6, <2>7, <2>8, <3>1
  <2>10. Traced(None, tail[i], used.delete, o.side, o.rev, o.born, o.base)
    BY <2>3, <2>5, <2>9 DEF CopyInv
  <2>11. used.delete \in Nat
    BY DEF TypeInv
  <2>12. CASE o.side = "head"
    <3>1. o.born < used.delete
      BY <2>10, <2>12 DEF Traced, Behind
    <3> QED
      BY <2>5, <2>8, <2>9, <2>11, <3>1
  <2>13. CASE o.side = "tail"
    BY <2>4, <2>5, <2>9, <2>10, <2>13 DEF Traced
  <2>14. CASE o.side = "none"
    BY <2>7, <2>8, <2>9, <2>10, <2>14 DEF Traced
  <2> QED
    BY <2>8, <2>12, <2>13, <2>14
<1> QED
  BY <1>3, <1>4

\* Every version the head has is in the history, except the first one of an
\* object that was not new when the head got it.
THEOREM VersionsAreRecorded == Spec => []Recorded
<1>1. Init => IInv /\ Recorded
  BY InitHolds
<1>2. IInv /\ Recorded /\ [Next]_vars => (IInv /\ Recorded)'
  BY TypeStep, CopyStep, GotStep, RecordedStep DEF IInv
<1> QED
  BY <1>1, <1>2, PTL DEF Spec
=============================================================================
