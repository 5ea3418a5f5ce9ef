----------------------------- MODULE Induction -----------------------------
(***************************************************************************)
(* Induction over the natural numbers and what follows from it, stated     *)
(* with sets and functions so that the provers can use it: the library's   *)
(* theorems take the predicate as an operator.                             *)
(***************************************************************************)
EXTENDS Integers, Sequences, FiniteSetsExt, WellFoundedInduction, TLAPS

\* A set that holds 0, and n + 1 with n, holds every natural number.
LEMMA NatSetInduction ==
    ASSUME NEW S, 0 \in S, \A n \in Nat : n \in S => n + 1 \in S
    PROVE  Nat \subseteq S
  <1> SUFFICES ASSUME NEW m \in Nat, m \notin S PROVE FALSE
    OBVIOUS
  <1> DEFINE T == Nat \ S
             R == OpToRel(<, Nat)
  <1>1. T \subseteq Nat /\ T # {}
    OBVIOUS
  <1>2. IsWellFoundedOn(R, Nat)
    BY NatLessThanWellFounded
  <1> HIDE DEF T, R
  <1>3. PICK x \in T : \A y \in T : ~ (<<y, x>> \in R)
    BY <1>1, <1>2, WFMin
  <1>4. \A y \in Nat : y < x => <<y, x>> \in R
    BY <1>1, <1>3 DEF R, OpToRel
  <1>5. x \in Nat /\ x # 0 /\ x \notin S
    BY <1>3 DEF T
  <1>6. x - 1 \in Nat /\ x - 1 < x
    BY <1>5
  <1>7. x - 1 \in S
    BY <1>3, <1>4, <1>6 DEF T
  <1> QED BY <1>5, <1>6, <1>7

\* The same from m to n.
LEMMA IntervalInduction ==
    ASSUME NEW m \in Int, NEW n \in Int, NEW S, m \in S, \A i \in m .. (n - 1) : i \in S => i + 1 \in S
    PROVE  m .. n \subseteq S
  <1> DEFINE T == {k \in Nat : m + k <= n => m + k \in S}
  <1>1. 0 \in T
    OBVIOUS
  <1>2. ASSUME NEW k \in Nat, k \in T PROVE k + 1 \in T
    <2> SUFFICES ASSUME m + (k + 1) <= n PROVE m + (k + 1) \in S
      OBVIOUS
    <2>1. m + k \in m .. (n - 1) /\ m + k \in S
      BY <1>2
    <2>2. (m + k) + 1 \in S
      BY <2>1
    <2> QED BY <2>2
  <1> HIDE DEF T
  <1>3. Nat \subseteq T
    BY <1>1, <1>2, NatSetInduction
  <1> SUFFICES ASSUME NEW i \in m .. n PROVE i \in S
    OBVIOUS
  <1>4. i - m \in Nat /\ i - m \in T
    BY <1>3
  <1> QED BY <1>4 DEF T

\* A set of integers with an element, all from m up, has a least one.
LEMMA LeastExists ==
    ASSUME NEW m \in Int, NEW S, S \subseteq Int, S # {}, \A x \in S : m <= x
    PROVE  \E x \in S : \A y \in S : x <= y
  <1> SUFFICES ASSUME \A x \in S : \E y \in S : y < x PROVE FALSE
    OBVIOUS
  <1>1. PICK z \in S : TRUE
    OBVIOUS
  <1> DEFINE T == {i \in Int : \A x \in S : i <= x}
  <1>2. m \in T
    OBVIOUS
  <1>3. ASSUME NEW i \in m .. z, i \in T PROVE i + 1 \in T
    <2> SUFFICES ASSUME NEW x \in S PROVE i + 1 <= x
      OBVIOUS
    <2>1. PICK y \in S : y < x
      OBVIOUS
    <2>2. i <= y
      BY <1>3
    <2> QED BY <2>1, <2>2
  <1> HIDE DEF T
  <1>4. m .. (z + 1) \subseteq T
    BY <1>2, <1>3, IntervalInduction
  <1>5. z + 1 \in m .. (z + 1)
    BY <1>1
  <1>6. z + 1 \in T
    BY <1>4, <1>5
  <1> QED BY <1>1, <1>6 DEF T

\* And one that is bounded from above has a greatest one.
LEMMA GreatestExists ==
    ASSUME NEW m \in Int, NEW S, S \subseteq Int, S # {}, \A x \in S : x <= m
    PROVE  \E x \in S : \A y \in S : y <= x
  <1> DEFINE T == {t \in Int : m - t \in S}
  <1>1. T \subseteq Int /\ \A t \in T : 0 <= t
    OBVIOUS
  <1>2. \A x \in S : m - x \in T
    OBVIOUS
  <1>3. T # {}
    BY <1>2
  <1> HIDE DEF T
  <1>4. \E t \in T : \A u \in T : t <= u
    BY <1>1, <1>3, 0 \in Int, LeastExists, Zenon
  <1>5. PICK t \in T : \A u \in T : t <= u
    BY <1>4
  <1>6. m - t \in S /\ t \in Int
    BY <1>5 DEF T
  <1>7. ASSUME NEW y \in S PROVE y <= m - t
    <2>1. t <= m - y
      BY <1>2, <1>5
    <2> QED BY <1>6, <2>1
  <1> QED BY <1>6, <1>7

\* The greatest element of a set is the one that is.
LEMMA GreatestIs ==
    ASSUME NEW S, S \subseteq Int, NEW m \in S, \A x \in S : x <= m
    PROVE  Max(S) = m
  <1>1. \E x \in S : \A y \in S : x >= y
    OBVIOUS
  <1>2. Max(S) \in S /\ \A y \in S : Max(S) >= y
    BY <1>1 DEF Max
  <1>3. Max(S) \in Int /\ m \in Int /\ Max(S) >= m /\ Max(S) <= m
    BY <1>2
  <1> QED BY <1>3

\* So is the least.
LEMMA LeastIs ==
    ASSUME NEW S, S \subseteq Int, NEW m \in S, \A x \in S : m <= x
    PROVE  Min(S) = m
  <1>1. \E x \in S : \A y \in S : x =< y
    OBVIOUS
  <1>2. Min(S) \in S /\ \A y \in S : Min(S) =< y
    BY <1>1 DEF Min
  <1>3. Min(S) \in Int /\ m \in Int /\ Min(S) =< m /\ m <= Min(S)
    BY <1>2
  <1> QED BY <1>3

\* Of two numbers.
LEMMA OfTwo ==
    ASSUME NEW a \in Int, NEW b \in Int
    PROVE  /\ Max({a, b}) = IF a >= b THEN a ELSE b
           /\ Min({a, b}) = IF a <= b THEN a ELSE b
  <1>1. CASE a >= b
    <2>1. Max({a, b}) = a
      BY <1>1, GreatestIs
    <2>2. Min({a, b}) = b
      BY <1>1, LeastIs
    <2> QED BY <1>1, <2>1, <2>2
  <1>2. CASE a < b
    <2>1. Max({a, b}) = b
      BY <1>2, GreatestIs
    <2>2. Min({a, b}) = a
      BY <1>2, LeastIs
    <2> QED BY <1>2, <2>1, <2>2
  <1> QED BY <1>1, <1>2

\* Of two that are not negative.
LEMMA OfTwoNumbers ==
    ASSUME NEW a \in Nat, NEW b \in Nat
    PROVE  /\ Max({a, b}) \in Nat /\ a <= Max({a, b}) /\ b <= Max({a, b})
           /\ Min({a, b}) \in Nat /\ Min({a, b}) <= a /\ Min({a, b}) <= b
           /\ Max({a, b}) \in {a, b} /\ Min({a, b}) \in {a, b}
  <1>1. a \in Int /\ b \in Int
    OBVIOUS
  <1>2. /\ Max({a, b}) = IF a >= b THEN a ELSE b
        /\ Min({a, b}) = IF a <= b THEN a ELSE b
    BY <1>1, OfTwo, Zenon
  <1> QED BY <1>2

\* A set of numbers with an element has the least one in it.
LEMMA LeastIn ==
    ASSUME NEW S, S \subseteq Nat, S # {}
    PROVE  Min(S) \in S /\ \A x \in S : Min(S) <= x
  <1>0. 0 \in Int /\ S \subseteq Int /\ \A x \in S : 0 <= x
    OBVIOUS
  <1>1. \E m \in S : \A x \in S : m <= x
    BY <1>0, LeastExists, Zenon
  <1>2. PICK m \in S : \A x \in S : m <= x
    BY <1>1
  <1>3. Min(S) = m
    BY <1>0, <1>2, LeastIs
  <1> QED BY <1>2, <1>3

\* Running values: what a recursive function on 0 .. n is, from its first value and
\* the function each step applies.
Runs(f, base, step, n) ==
    f = [i \in 0 .. n |-> IF i = 0 THEN base ELSE step[i][f[i - 1]]]

LEMMA RunningValues ==
    ASSUME NEW V, NEW base \in V, NEW n \in Nat, NEW step, \A i \in 1 .. n : step[i] \in [V -> V]
    PROVE  \E f \in [0 .. n -> V] : Runs(f, base, step, n)
  <1> DEFINE S == {k \in 0 .. n : \E f \in [0 .. k -> V] : Runs(f, base, step, k)}
  <1>1. 0 \in S
    <2> DEFINE f == [i \in 0 .. 0 |-> base]
    <2>1. f \in [0 .. 0 -> V]
      OBVIOUS
    <2>2. f = [i \in 0 .. 0 |-> IF i = 0 THEN base ELSE step[i][f[i - 1]]]
      OBVIOUS
    <2> HIDE DEF f
    <2> QED BY <2>1, <2>2 DEF Runs
  <1>2. ASSUME NEW k \in 0 .. (n - 1), k \in S PROVE k + 1 \in S
    <2>1. PICK f \in [0 .. k -> V] : Runs(f, base, step, k)
      BY <1>2
    <2> DEFINE g == [i \in 0 .. (k + 1) |-> IF i <= k THEN f[i] ELSE step[k + 1][f[k]]]
    <2>2. g \in [0 .. (k + 1) -> V]
      <3>1. step[k + 1] \in [V -> V] /\ f[k] \in V
        OBVIOUS
      <3>2. \A i \in 0 .. (k + 1) : g[i] \in V
        BY <3>1
      <3> QED BY <3>2
    <2>3. ASSUME NEW i \in 0 .. (k + 1) PROVE g[i] = IF i = 0 THEN base ELSE step[i][g[i - 1]]
      <3>0. f = [j \in 0 .. k |-> IF j = 0 THEN base ELSE step[j][f[j - 1]]]
        BY <2>1 DEF Runs
      <3>1. CASE i = 0
        BY <3>0, <3>1
      <3>2. CASE i \in 1 .. k
        <4>1. f[i] = step[i][f[i - 1]]
          BY <3>0, <3>2
        <4>2. g[i] = f[i] /\ g[i - 1] = f[i - 1]
          BY <3>2
        <4> QED BY <3>2, <4>1, <4>2
      <3>3. CASE i = k + 1
        <4>1. g[i - 1] = f[k] /\ g[i] = step[k + 1][f[k]]
          BY <3>3
        <4> QED BY <3>3, <4>1
      <3> QED BY <3>1, <3>2, <3>3
    <2>4. g = [i \in 0 .. (k + 1) |-> IF i = 0 THEN base ELSE step[i][g[i - 1]]]
      <3> HIDE DEF g
      <3> QED BY <2>2, <2>3
    <2> HIDE DEF g
    <2>5. Runs(g, base, step, k + 1)
      BY <2>4 DEF Runs
    <2> QED BY <2>2, <2>5
  <1> HIDE DEF S
  <1>3. 0 .. n \subseteq S
    BY <1>1, <1>2, IntervalInduction
  <1>4. n \in S
    BY <1>3
  <1> QED BY <1>4 DEF S

\* Two that begin alike and take the same steps go the same way.
LEMMA SameRun ==
    ASSUME NEW base, NEW n \in Nat, NEW m \in Nat, n <= m, NEW step, NEW other,
           \A i \in 1 .. n : step[i] = other[i],
           NEW f, Runs(f, base, step, n), NEW g, Runs(g, base, other, m)
    PROVE  \A i \in 0 .. n : f[i] = g[i]
  <1> DEFINE S == {i \in 0 .. n : f[i] = g[i]}
  <1>1. f = [i \in 0 .. n |-> IF i = 0 THEN base ELSE step[i][f[i - 1]]]
    BY DEF Runs
  <1>2. g = [i \in 0 .. m |-> IF i = 0 THEN base ELSE other[i][g[i - 1]]]
    BY DEF Runs
  <1>3. 0 \in S
    BY <1>1, <1>2
  <1>4. ASSUME NEW i \in 0 .. (n - 1), i \in S PROVE i + 1 \in S
    <2>1. f[i + 1] = step[i + 1][f[i]]
      BY <1>1
    <2>2. g[i + 1] = other[i + 1][g[i]]
      BY <1>2
    <2> QED BY <1>4, <2>1, <2>2
  <1> HIDE DEF S
  <1>5. 0 .. n \subseteq S
    BY <1>3, <1>4, IntervalInduction
  <1> QED BY <1>5 DEF S

\* Values that depend on later ones only: there are such values, and a property that
\* each has when all later ones do is one they all have.
Later(f, i, n) == [j \in (i + 1) .. n |-> f[j]]
Backward(step, V, n) == \A i \in 1 .. n : step[i] \in [[(i + 1) .. n -> V] -> V]
RunsBack(f, step, n) == f = [i \in 1 .. n |-> step[i][Later(f, i, n)]]

LEMMA DownwardValues ==
    ASSUME NEW V, NEW n \in Nat, NEW step, Backward(step, V, n)
    PROVE  \E f \in [1 .. n -> V] : RunsBack(f, step, n)
  <1>0. \A i \in 1 .. n : step[i] \in [[(i + 1) .. n -> V] -> V]
    BY DEF Backward
  <1> DEFINE S == {k \in 0 .. n : \E f \in [(n - k + 1) .. n -> V] :
                       \A i \in (n - k + 1) .. n : f[i] = step[i][Later(f, i, n)]}
  <1>1. 0 \in S
    <2> DEFINE f == [i \in (n - 0 + 1) .. n |-> i]
    <2>1. (n - 0 + 1) .. n = {}
      OBVIOUS
    <2>2. f \in [(n - 0 + 1) .. n -> V] /\ \A i \in (n - 0 + 1) .. n : f[i] = step[i][Later(f, i, n)]
      BY <2>1
    <2> HIDE DEF f
    <2>3. 0 \in 0 .. n
      OBVIOUS
    <2> QED BY <2>2, <2>3
  <1>2. ASSUME NEW k \in 0 .. (n - 1), k \in S PROVE k + 1 \in S
    <2>1. PICK f \in [(n - k + 1) .. n -> V] :
              \A i \in (n - k + 1) .. n : f[i] = step[i][Later(f, i, n)]
      BY <1>2
    <2> DEFINE m == n - k
               g == [i \in m .. n |-> IF i = m THEN step[m][Later(f, m, n)] ELSE f[i]]
    <2>2. /\ m \in 1 .. n /\ n - k + 1 = m + 1 /\ n - (k + 1) + 1 = m
          /\ k + 1 \in 0 .. n
      OBVIOUS
    <2> HIDE DEF m
    <2>3. Later(f, m, n) \in [(m + 1) .. n -> V]
      BY <2>1, <2>2 DEF Later
    <2>4. step[m][Later(f, m, n)] \in V
      BY <1>0, <2>2, <2>3
    <2>5. \A i \in (m + 1) .. n : f[i] \in V /\ i \in m .. n /\ i # m
      BY <2>1, <2>2
    <2>6. \A i \in m .. n : i = m \/ i \in (m + 1) .. n
      BY <2>2
    <2>7. g \in [m .. n -> V]
      BY <2>4, <2>5, <2>6
    <2>8. ASSUME NEW i \in m .. n PROVE g[i] = step[i][Later(g, i, n)]
      <3>1. \A j \in (i + 1) .. n : g[j] = f[j]
        BY <2>2
      <3>2. Later(g, i, n) = Later(f, i, n)
        BY <3>1 DEF Later
      <3>3. CASE i = m
        BY <3>2, <3>3, <2>2
      <3>4. CASE i # m
        <4>1. i \in (m + 1) .. n
          BY <2>6, <3>4
        <4>2. f[i] = step[i][Later(f, i, n)]
          BY <2>1, <2>2, <4>1
        <4> QED BY <3>2, <3>4, <4>2
      <3> QED BY <3>3, <3>4
    <2> HIDE DEF g
    <2>9. \E h \in [(n - (k + 1) + 1) .. n -> V] :
             \A i \in (n - (k + 1) + 1) .. n : h[i] = step[i][Later(h, i, n)]
      BY <2>2, <2>7, <2>8
    <2> QED BY <2>2, <2>9
  <1>3. 0 .. n \subseteq S
    <2>1. 0 \in Int /\ n \in Int
      OBVIOUS
    <2> HIDE DEF S
    <2> QED BY <1>1, <1>2, <2>1, IntervalInduction, Zenon
  <1>4. n \in 0 .. n /\ n - n + 1 = 1
    OBVIOUS
  <1>5. PICK f \in [1 .. n -> V] : \A i \in 1 .. n : f[i] = step[i][Later(f, i, n)]
    BY <1>3, <1>4
  <1>6. RunsBack(f, step, n)
    BY <1>5 DEF RunsBack
  <1> QED BY <1>6

LEMMA DownwardHolds ==
    ASSUME NEW S, NEW n \in Nat, \A i \in 1 .. n : (\A j \in (i + 1) .. n : j \in S) => i \in S
    PROVE  1 .. n \subseteq S
  <1> DEFINE T == {k \in 0 .. n : \A j \in (n - k + 1) .. n : j \in S}
  <1>1. 0 \in T
    OBVIOUS
  <1>2. ASSUME NEW k \in 0 .. (n - 1), k \in T PROVE k + 1 \in T
    <2>1. n - k \in 1 .. n /\ \A j \in ((n - k) + 1) .. n : j \in S
      BY <1>2
    <2>2. n - k \in S
      BY <2>1
    <2>3. \A j \in (n - (k + 1) + 1) .. n : j = n - k \/ j \in (n - k + 1) .. n
      OBVIOUS
    <2> QED BY <2>1, <2>2, <2>3
  <1> HIDE DEF T
  <1>3. 0 .. n \subseteq T
    <2>1. 0 \in Int /\ n \in Int
      OBVIOUS
    <2> QED BY <1>1, <1>2, <2>1, IntervalInduction, Zenon
  <1>4. n \in T /\ n - n + 1 = 1
    BY <1>3
  <1> QED BY <1>4 DEF T
=============================================================================
