------------------------------ MODULE Induction ------------------------------
(***************************************************************************)
(* Induction over the natural numbers and definition by primitive          *)
(* recursion, for the proof modules.  Both are stated of sets and          *)
(* functions, not of operators: a property is the set of the numbers that  *)
(* have it, and the step of a recursion is a function.  What follows from  *)
(* them of the sums of Sums.tla comes last.                                *)
(***************************************************************************)
EXTENDS Integers, Sequences, Sums, FiniteSetTheorems, WellFoundedInduction, TLAPS

\* The elements of a sequence over a set are of the set.
LEMMA SeqElements ==
  ASSUME NEW S, NEW s \in Seq(S)
  PROVE  Len(s) \in Nat /\ \A i \in 1 .. Len(s) : s[i] \in S
OBVIOUS

\* A set with zero and the successor of each number in it has every number.
LEMMA SetInduction ==
  ASSUME NEW S, 0 \in S, \A n \in Nat : n \in S => n + 1 \in S
  PROVE  Nat \subseteq S
<1> SUFFICES ASSUME NEW n \in Nat, n \notin S PROVE FALSE
  OBVIOUS
<1> DEFINE Bad == {0 .. k : k \in (0 .. n) \ S}
           R == StrictSubsetOrdering(0 .. n)
<1>1. IsFiniteSet(0 .. n)
  BY FS_Interval
<1>2. IsWellFoundedOn(R, SUBSET (0 .. n))
  BY <1>1, FS_StrictSubsetOrderingWellFounded, FS_FiniteSubsetsOfFinite, Zenon
<1>3. Bad \subseteq SUBSET (0 .. n) /\ Bad # {}
  OBVIOUS
<1> HIDE DEF Bad, R
<1>4. PICK low \in Bad : \A x \in Bad : <<x, low>> \notin R
  BY <1>2, <1>3, WFMin
<1>5. PICK k \in (0 .. n) \ S : low = 0 .. k
  BY DEF Bad
<1>6. k \in Nat \ {0} /\ k - 1 \in 0 .. n
  OBVIOUS
<1>7. CASE k - 1 \in S
  BY <1>5, <1>6, <1>7
<1>8. CASE k - 1 \notin S
  <2>1. 0 .. k - 1 \in Bad
    BY <1>6, <1>8 DEF Bad
  <2>2. 0 .. k - 1 \subseteq 0 .. k /\ k \notin 0 .. k - 1 /\ k \in 0 .. k
    BY <1>6
  <2>3. <<0 .. k - 1, low>> \in R
    BY <1>3, <1>5, <2>1, <2>2 DEF R, StrictSubsetOrdering
  <2>4. QED
    BY <1>4, <2>1, <2>3
<1>9. QED
  BY <1>7, <1>8

\* The same up to a bound.
LEMMA IntervalInduction ==
  ASSUME NEW m \in Nat, NEW S, 0 \in S, \A n \in 0 .. m - 1 : n \in S => n + 1 \in S
  PROVE  0 .. m \subseteq S
<1> DEFINE T == {n \in Nat : n <= m => n \in S}
<1>1. 0 \in T
  OBVIOUS
<1>2. \A n \in Nat : n \in T => n + 1 \in T
  OBVIOUS
<1> HIDE DEF T
<1>3. Nat \subseteq T
  BY <1>1, <1>2, SetInduction
<1>4. QED
  BY <1>3 DEF T

\* A recursion with a start and a step defines a function.
LEMMA Recursion ==
  ASSUME NEW T, NEW c \in T, NEW m \in Nat, NEW step \in [1 .. m -> [T -> T]]
  PROVE  \E f \in [0 .. m -> T] : /\ f[0] = c
                                  /\ \A n \in 1 .. m : f[n] = step[n][f[n - 1]]
<1> DEFINE Upto(k, f) == /\ f \in [0 .. k -> T]
                         /\ f[0] = c
                         /\ \A n \in 1 .. k : f[n] = step[n][f[n - 1]]
           S == {k \in 0 .. m : \E f \in [0 .. k -> T] : Upto(k, f)}
<1>1. 0 \in S
  <2> DEFINE f0 == [i \in 0 .. 0 |-> c]
  <2>1. f0 \in [0 .. 0 -> T] /\ Upto(0, f0)
    OBVIOUS
  <2> HIDE DEF f0, Upto
  <2>2. QED
    BY <2>1
<1>2. ASSUME NEW k \in 0 .. m - 1, k \in S PROVE k + 1 \in S
  <2>1. PICK f \in [0 .. k -> T] : Upto(k, f)
    BY <1>2
  <2> DEFINE v == step[k + 1][f[k]]
             g == [i \in 0 .. k + 1 |-> IF i = k + 1 THEN v ELSE f[i]]
  <2>2. v \in T
    <3>1. f[k] \in T /\ step[k + 1] \in [T -> T]
      OBVIOUS
    <3>2. QED
      BY <3>1
  <2>3. g \in [0 .. k + 1 -> T] /\ g[k + 1] = v /\ \A i \in 0 .. k : g[i] = f[i]
    BY <2>2
  <2>4. \A n \in 1 .. k + 1 : g[n] = step[n][g[n - 1]]
    <3> HIDE DEF g
    <3>1. \A n \in 1 .. k : g[n] = step[n][g[n - 1]]
      BY <2>1, <2>3
    <3>2. g[k + 1] = step[k + 1][g[k]]
      BY <2>3
    <3>3. QED
      BY <3>1, <3>2
  <2> HIDE DEF g
  <2>5. Upto(k + 1, g)
    BY <2>1, <2>3, <2>4
  <2>6. k + 1 \in 0 .. m
    OBVIOUS
  <2> HIDE DEF Upto
  <2>7. QED
    BY <2>3, <2>5, <2>6
<1> HIDE DEF S
<1>3. 0 .. m \subseteq S
  BY <1>1, <1>2, IntervalInduction
<1>4. PICK f \in [0 .. m -> T] : Upto(m, f)
  BY <1>3 DEF S
<1>5. QED
  BY <1>4

\* The same over the natural numbers, from zero.  The existence is stated of
\* an operator, which keeps the numbers of the lemma apart from those below.
Recurses(f, T, c, m, step) == /\ f \in [0 .. m -> T] /\ f[0] = c
                              /\ \A n \in 1 .. m : f[n] = step[n][f[n - 1]]
Steps(T, m) == [1 .. m -> [T -> T]]

LEMMA RecursionExists ==
  ASSUME NEW T, NEW c \in T, NEW m \in Nat, NEW step \in Steps(T, m)
  PROVE  \E f : Recurses(f, T, c, m, step)
BY Recursion DEF Recurses, Steps

LEMMA NumberRecursion ==
  ASSUME NEW m \in Nat, NEW step \in [1 .. m -> [Nat -> Nat]]
  PROVE  \E f \in [0 .. m -> Nat] : f[0] = 0 /\ \A n \in 1 .. m : f[n] = step[n][f[n - 1]]
<1>1. step \in Steps(Nat, m) /\ 0 \in Nat
  BY DEF Steps
<1>2. \E f : Recurses(f, Nat, 0, m, step)
  BY <1>1, RecursionExists, Zenon
<1>3. QED
  BY <1>2 DEF Recurses

-----------------------------------------------------------------------------
(* Sums                                                                    *)

\* f sums up s: f[k] is the sum of the first k numbers.
SumsUp(f, s) == /\ f \in [0 .. Len(s) -> Nat]
                /\ f[0] = 0
                /\ \A k \in 1 .. Len(s) : f[k] = f[k - 1] + s[k]

\* The recursion in Total sums up its argument.
LEMMA TotalSums ==
  ASSUME NEW s \in Seq(Nat)
  PROVE  \E f : SumsUp(f, s) /\ Total(s) = f[Len(s)]
<1> DEFINE m == Len(s)
           step == [k \in 1 .. m |-> [x \in Nat |-> x + s[k]]]
           body(f) == [k \in 0 .. Len(s) |-> IF k = 0 THEN 0 ELSE f[k - 1] + s[k]]
           upTo == CHOOSE f : f = body(f)
<1>1. Total(s) = upTo[m]
  BY DEF Total
<1>2. m \in Nat
  OBVIOUS
<1>3. \A k \in 1 .. m : s[k] \in Nat
  OBVIOUS
<1> HIDE DEF m
<1>4. step \in [1 .. m -> [Nat -> Nat]]
  BY <1>3
<1> HIDE DEF step
<1>5. PICK f \in [0 .. m -> Nat] : f[0] = 0 /\ \A n \in 1 .. m : f[n] = step[n][f[n - 1]]
  <2>1. m \in Nat
    BY <1>2
  <2>2. QED
    BY ONLY <1>4, <2>1, NumberRecursion
<1>6. f = body(f)
  <2>1. ASSUME NEW n \in 1 .. m PROVE f[n] = f[n - 1] + s[n]
    <3>1. n - 1 \in 0 .. m
      BY <1>2
    <3>2. f[n] = step[n][f[n - 1]] /\ f[n - 1] \in Nat
      BY <1>5, <3>1
    <3>3. QED
      BY <3>2 DEF step
  <2>2. f[0] = 0 /\ f = [n \in 0 .. m |-> f[n]] /\ m \in Nat
    BY <1>2, <1>5
  <2>3. \A k \in 0 .. m : f[k] = IF k = 0 THEN 0 ELSE f[k - 1] + s[k]
    <3> SUFFICES ASSUME NEW k \in 0 .. m
                 PROVE  f[k] = IF k = 0 THEN 0 ELSE f[k - 1] + s[k]
      OBVIOUS
    <3>1. CASE k = 0
      BY <2>2, <3>1
    <3>2. CASE k # 0
      <4>1. k \in 1 .. m
        BY <1>2, <3>2
      <4>2. f[k] = f[k - 1] + s[k]
        BY <2>1, <4>1
      <4>3. QED
        BY <3>2, <4>2
    <3>3. QED
      BY <3>1, <3>2
  <2>4. f = [k \in 0 .. m |-> IF k = 0 THEN 0 ELSE f[k - 1] + s[k]]
    BY <2>2, <2>3, Zenon
  <2>5. QED
    BY <2>4 DEF m
<1>7. upTo = body(upTo)
  BY <1>6
<1> HIDE DEF upTo
<1>8. /\ upTo[0] = 0 /\ \A n \in 1 .. m : upTo[n] = upTo[n - 1] + s[n]
      /\ upTo = [n \in 0 .. m |-> upTo[n]]
  <2>1. upTo = [k \in 0 .. m |-> IF k = 0 THEN 0 ELSE upTo[k - 1] + s[k]]
    BY <1>7 DEF m
  <2> HIDE DEF body
  <2>2. \A k \in 0 .. m : upTo[k] = IF k = 0 THEN 0 ELSE upTo[k - 1] + s[k]
    BY <2>1, Zenon
  <2>3. 0 \in 0 .. m /\ \A n \in 1 .. m : n \in 0 .. m /\ n # 0
    BY <1>2
  <2>4. QED
    BY <2>1, <2>2, <2>3
<1> HIDE DEF body
<1> DEFINE S == {n \in 0 .. m : upTo[n] \in Nat}
<1>9. 0 \in S
  BY <1>2, <1>8
<1>10. ASSUME NEW n \in 0 .. m - 1, n \in S PROVE n + 1 \in S
  <2>1. n + 1 \in 1 .. m /\ n + 1 \in 0 .. m /\ upTo[n] \in Nat /\ (n + 1) - 1 = n
    BY <1>2, <1>10
  <2>2. upTo[n + 1] = upTo[n] + s[n + 1] /\ s[n + 1] \in Nat
    BY <1>3, <1>8, <2>1
  <2>3. QED
    BY <2>1, <2>2
<1> HIDE DEF S
<1>11. 0 .. m \subseteq S
  BY <1>2, <1>9, <1>10, IntervalInduction
<1>12. upTo \in [0 .. m -> Nat]
  BY <1>8, <1>11 DEF S
<1>13. SumsUp(upTo, s)
  BY <1>8, <1>12 DEF SumsUp, m
<1>14. QED
  BY <1>1, <1>13 DEF m

\* There is only one sum.
LEMMA SumUnique ==
  ASSUME NEW s \in Seq(Nat), NEW f, SumsUp(f, s)
  PROVE  Total(s) = f[Len(s)]
<1>1. PICK g : SumsUp(g, s) /\ Total(s) = g[Len(s)]
  BY TotalSums
<1> DEFINE m == Len(s)
           S == {n \in 0 .. m : f[n] = g[n]}
<1>2. m \in Nat
  OBVIOUS
<1>3. \A k \in 1 .. m : f[k] = f[k - 1] + s[k] /\ g[k] = g[k - 1] + s[k]
  BY <1>1 DEF SumsUp
<1>4. 0 \in S
  BY <1>1, <1>2 DEF SumsUp
<1> HIDE DEF m
<1>5. ASSUME NEW n \in 0 .. m - 1, n \in S PROVE n + 1 \in S
  <2>1. n + 1 \in 1 .. m /\ n + 1 \in 0 .. m /\ f[n] = g[n] /\ (n + 1) - 1 = n
    BY <1>2, <1>5
  <2>2. QED
    BY <1>3, <2>1
<1> HIDE DEF S
<1>6. 0 .. m \subseteq S
  BY <1>2, <1>4, <1>5, IntervalInduction
<1>7. m \in S
  BY <1>2, <1>6
<1>8. QED
  BY <1>1, <1>7 DEF S, m

LEMMA TotalNat ==
  ASSUME NEW s \in Seq(Nat)
  PROVE  Total(s) \in Nat
<1>1. PICK f : SumsUp(f, s) /\ Total(s) = f[Len(s)]
  BY TotalSums
<1>2. Len(s) \in 0 .. Len(s) /\ f \in [0 .. Len(s) -> Nat]
  BY <1>1 DEF SumsUp
<1>3. QED
  BY <1>1, <1>2

LEMMA TotalEmpty == Total(<<>>) = 0
<1> DEFINE f == [k \in 0 .. 0 |-> 0]
           none == <<>>
<1>1. none \in Seq(Nat) /\ Len(none) = 0
  OBVIOUS
<1> HIDE DEF none
<1>2. SumsUp(f, none)
  BY <1>1 DEF SumsUp
<1>3. Total(none) = f[0]
  BY <1>1, <1>2, SumUnique
<1>4. QED
  BY <1>3 DEF none

\* The sum of two sequences in a row.
LEMMA TotalConcat ==
  ASSUME NEW s \in Seq(Nat), NEW t \in Seq(Nat)
  PROVE  Total(s \o t) = Total(s) + Total(t)
<1>1. PICK f : SumsUp(f, s) /\ Total(s) = f[Len(s)]
  BY TotalSums
<1>2. PICK g : SumsUp(g, t) /\ Total(t) = g[Len(t)]
  BY TotalSums
<1> DEFINE m == Len(s)
           n == Len(t)
           h == [k \in 0 .. m + n |-> IF k <= m THEN f[k] ELSE f[m] + g[k - m]]
           both == s \o t
<1>3. /\ m \in Nat /\ n \in Nat /\ both \in Seq(Nat) /\ Len(both) = m + n
      /\ \A k \in 1 .. m : both[k] = s[k]
      /\ \A k \in m + 1 .. m + n : both[k] = t[k - m]
  OBVIOUS
<1>4. /\ f \in [0 .. m -> Nat] /\ g \in [0 .. n -> Nat] /\ f[0] = 0 /\ g[0] = 0
      /\ \A k \in 1 .. m : f[k] = f[k - 1] + s[k]
      /\ \A k \in 1 .. n : g[k] = g[k - 1] + t[k]
  BY <1>1, <1>2 DEF SumsUp
<1> HIDE DEF m, n, both
<1>5. h \in [0 .. m + n -> Nat] /\ h[0] = 0
  <2>1. ASSUME NEW k \in 0 .. m + n PROVE (IF k <= m THEN f[k] ELSE f[m] + g[k - m]) \in Nat
    <3>1. CASE k <= m
      BY <1>3, <1>4, <3>1
    <3>2. CASE ~(k <= m)
      <4>1. k - m \in 0 .. n /\ m \in 0 .. m
        BY <1>3, <3>2
      <4>2. g[k - m] \in Nat /\ f[m] \in Nat
        BY <1>4, <4>1
      <4>3. QED
        BY <3>2, <4>2
    <3>3. QED
      BY <3>1, <3>2
  <2>2. QED
    BY <1>3, <1>4, <2>1
<1>6. ASSUME NEW k \in 1 .. m + n PROVE h[k] = h[k - 1] + both[k]
  <2>1. k \in 0 .. m + n /\ k - 1 \in 0 .. m + n
    BY <1>3
  <2>2. CASE k <= m
    BY <1>3, <1>4, <2>1, <2>2
  <2>3. CASE k = m + 1
    <3>1. /\ ~(k <= m) /\ k - 1 <= m /\ k - 1 = m /\ k - m = 1 /\ 1 \in 1 .. n
          /\ k \in m + 1 .. m + n
      BY <1>3, <2>1, <2>3
    <3>2. h[k] = f[m] + g[1] /\ h[k - 1] = f[m]
      BY <2>1, <3>1, Zenon
    <3>3. both[k] = t[1] /\ g[1] = g[0] + t[1] /\ t[1] \in Nat
      <4>1. both[k] = t[k - m]
        BY <1>3, <3>1
      <4>2. t[1] \in Nat
        BY <3>1 DEF n
      <4>3. g[1] = g[1 - 1] + t[1]
        BY <1>4, <3>1
      <4>4. QED
        BY <3>1, <4>1, <4>2, <4>3
    <3>4. f[m] \in Nat
      BY <1>3, <1>4
    <3> HIDE DEF h
    <3>5. QED
      BY <1>4, <3>2, <3>3, <3>4
  <2>4. CASE k > m + 1
    <3>1. /\ ~(k <= m) /\ ~(k - 1 <= m) /\ k - m \in 1 .. n /\ (k - 1) - m = (k - m) - 1
          /\ (k - m) - 1 \in 0 .. n /\ k \in m + 1 .. m + n
      BY <1>3, <2>1, <2>4
    <3>2. h[k] = f[m] + g[k - m] /\ h[k - 1] = f[m] + g[(k - m) - 1]
      BY <2>1, <3>1, Zenon
    <3>3. both[k] = t[k - m]
      BY <1>3, <3>1
    <3>4. g[k - m] = g[(k - m) - 1] + t[k - m]
      BY <1>4, <3>1
    <3>5. t[k - m] \in Nat
      BY <3>1 DEF n
    <3>6. f[m] \in Nat /\ g[(k - m) - 1] \in Nat
      <4>1. m \in 0 .. m
        BY <1>3
      <4>2. QED
        BY <1>4, <3>1, <4>1
    <3> HIDE DEF h
    <3>7. QED
      BY <3>2, <3>3, <3>4, <3>5, <3>6
  <2>5. QED
    BY <1>3, <2>2, <2>3, <2>4
<1>7. h[m + n] = f[m] + g[n]
  <2>1. m + n \in 0 .. m + n /\ m \in 0 .. m /\ n \in 0 .. n
    BY <1>3
  <2>2. CASE n = 0
    <3>1. f[m] \in Nat
      BY <1>4, <2>1
    <3>2. QED
      BY <1>3, <1>4, <2>1, <2>2, <3>1
  <2>3. CASE n # 0
    BY <1>3, <2>1, <2>3
  <2>4. QED
    BY <2>2, <2>3
<1> HIDE DEF h
<1>8. SumsUp(h, both)
  BY <1>3, <1>5, <1>6 DEF SumsUp
<1>9. Total(both) = h[m + n]
  BY <1>3, <1>8, SumUnique
<1>10. QED
  BY <1>1, <1>2, <1>7, <1>9 DEF both, m, n

LEMMA TotalOne ==
  ASSUME NEW x \in Nat
  PROVE  Total(<<x>>) = x
<1> DEFINE f == [k \in 0 .. 1 |-> IF k = 0 THEN 0 ELSE x]
           one == <<x>>
<1>1. one \in Seq(Nat) /\ Len(one) = 1 /\ one[1] = x
  OBVIOUS
<1> HIDE DEF one
<1>2. f \in [0 .. 1 -> Nat] /\ f[0] = 0 /\ f[1] = x
  OBVIOUS
<1>3. \A k \in 1 .. 1 : f[k] = f[k - 1] + one[k]
  BY <1>1, <1>2
<1> HIDE DEF f
<1>4. SumsUp(f, one)
  BY <1>1, <1>2, <1>3 DEF SumsUp
<1>5. Total(one) = f[1]
  BY <1>1, <1>4, SumUnique
<1>6. QED
  BY <1>2, <1>5 DEF one

\* A sequence of the same length with no greater numbers has no greater sum.
LEMMA TotalMonotone ==
  ASSUME NEW s \in Seq(Nat), NEW t \in Seq(Nat), Len(s) = Len(t),
         \A k \in 1 .. Len(s) : s[k] <= t[k]
  PROVE  Total(s) <= Total(t)
<1>1. PICK f : SumsUp(f, s) /\ Total(s) = f[Len(s)]
  BY TotalSums
<1>2. PICK g : SumsUp(g, t) /\ Total(t) = g[Len(t)]
  BY TotalSums
<1> DEFINE m == Len(s)
           S == {k \in 0 .. m : f[k] <= g[k]}
<1>3. /\ m \in Nat /\ Len(t) = m
      /\ \A k \in 1 .. m : s[k] \in Nat /\ t[k] \in Nat /\ s[k] <= t[k]
  OBVIOUS
<1>4. /\ f \in [0 .. m -> Nat] /\ g \in [0 .. m -> Nat] /\ f[0] = 0 /\ g[0] = 0
      /\ \A k \in 1 .. m : f[k] = f[k - 1] + s[k] /\ g[k] = g[k - 1] + t[k]
  BY <1>1, <1>2, <1>3 DEF SumsUp
<1> HIDE DEF m
<1>5. 0 \in S
  BY <1>3, <1>4
<1>6. ASSUME NEW k \in 0 .. m - 1, k \in S PROVE k + 1 \in S
  <2>1. k + 1 \in 1 .. m /\ k + 1 \in 0 .. m /\ (k + 1) - 1 = k /\ f[k] <= g[k]
    BY <1>3, <1>6
  <2>2. f[k] \in Nat /\ g[k] \in Nat
    <3>1. k \in 0 .. m
      BY <1>3
    <3>2. QED
      BY <1>4, <3>1
  <2>3. f[k + 1] = f[k] + s[k + 1] /\ g[k + 1] = g[k] + t[k + 1]
    BY <1>4, <2>1
  <2>4. s[k + 1] \in Nat /\ t[k + 1] \in Nat /\ s[k + 1] <= t[k + 1]
    BY <1>3, <2>1
  <2>5. \A a, b, c, d \in Nat : a <= b /\ c <= d => a + c <= b + d
    OBVIOUS
  <2>6. f[k] + s[k + 1] <= g[k] + t[k + 1]
    BY ONLY <2>1, <2>2, <2>4, <2>5
  <2>7. f[k + 1] <= g[k + 1]
    BY <2>3, <2>6
  <2>8. QED
    BY <2>1, <2>7
<1> HIDE DEF S
<1>7. 0 .. m \subseteq S
  BY <1>3, <1>5, <1>6, IntervalInduction
<1>8. m \in S
  BY <1>3, <1>7
<1>9. QED
  BY <1>1, <1>2, <1>3, <1>8 DEF S, m

\* The first k members of a sequence.
First(s, k) == [i \in 1 .. k |-> s[i]]

LEMMA FirstFacts ==
  ASSUME NEW D, NEW s \in Seq(D), NEW k \in 0 .. Len(s)
  PROVE  /\ First(s, k) \in Seq(D) /\ Len(First(s, k)) = k /\ DOMAIN First(s, k) = 1 .. k
         /\ \A i \in 1 .. k : First(s, k)[i] = s[i]
         /\ k < Len(s) => First(s, k + 1) = First(s, k) \o <<s[k + 1]>> /\ s[k + 1] \in D
<1>1. Len(s) \in Nat /\ k \in Nat /\ \A i \in 1 .. Len(s) : s[i] \in D
  OBVIOUS
<1>2. First(s, k) \in Seq(D) /\ Len(First(s, k)) = k /\ DOMAIN First(s, k) = 1 .. k
  <2>1. First(s, k) \in [1 .. k -> D]
    BY <1>1 DEF First
  <2>2. QED
    BY <1>1, <2>1
<1>4. ASSUME k < Len(s)
      PROVE  First(s, k + 1) = First(s, k) \o <<s[k + 1]>> /\ s[k + 1] \in D
  <2>1. s[k + 1] \in D
    BY <1>1, <1>4
  <2> DEFINE p == First(s, k)
             q == First(s, k + 1)
             r == p \o <<s[k + 1]>>
  <2>2. r \in Seq(D) /\ Len(r) = k + 1 /\ r[k + 1] = s[k + 1] /\ \A i \in 1 .. k : r[i] = p[i]
    BY <1>1, <1>2, <2>1
  <2>3. q \in Seq(D) /\ Len(q) = k + 1
    <3>1. q \in [1 .. k + 1 -> D]
      BY <1>1, <1>4 DEF First
    <3>2. QED
      BY <1>1, <3>1
  <2>4. \A i \in 1 .. k + 1 : q[i] = s[i]
    BY DEF First
  <2>5. \A i \in 1 .. k : p[i] = s[i]
    BY DEF First
  <2> HIDE DEF p, q, r
  <2>6. \A i \in 1 .. k + 1 : q[i] = r[i]
    BY <1>1, <2>2, <2>4, <2>5
  <2>7. q = r
    BY <2>2, <2>3, <2>6
  <2>8. QED
    BY <2>1, <2>7 DEF p, q, r
<1>5. \A i \in 1 .. k : First(s, k)[i] = s[i]
  BY DEF First
<1>6. QED
  BY <1>2, <1>4, <1>5

LEMMA FirstWhole ==
  ASSUME NEW D, NEW s \in Seq(D)
  PROVE  First(s, Len(s)) = s /\ First(s, 0) = <<>>
BY DEF First

\* The sum of the first numbers grows by the next, up to the whole sum.
LEMMA TotalFirst ==
  ASSUME NEW s \in Seq(Nat), NEW k \in 0 .. Len(s)
  PROVE  /\ Total(First(s, k)) \in Nat /\ Total(First(s, k)) <= Total(s)
         /\ k < Len(s) => Total(First(s, k + 1)) = Total(First(s, k)) + s[k + 1]
<1>1. First(s, k) \in Seq(Nat)
  BY FirstFacts
<1> DEFINE rest == [i \in 1 .. Len(s) - k |-> s[i + k]]
<1>2. Len(s) \in Nat /\ k \in Nat /\ \A i \in 1 .. Len(s) : s[i] \in Nat
  OBVIOUS
<1>3. rest \in Seq(Nat) /\ Len(rest) = Len(s) - k
  <2> DEFINE n == Len(s) - k
  <2>1. rest \in [1 .. n -> Nat] /\ n \in Nat
    BY <1>2
  <2> HIDE DEF n, rest
  <2>2. rest \in Seq(Nat) /\ Len(rest) = n
    BY ONLY <2>1
  <2>3. QED
    BY <2>2 DEF n
<1>4. s = First(s, k) \o rest
  <2> DEFINE p == First(s, k)
             t == p \o rest
  <2>1. p \in Seq(Nat) /\ Len(p) = k /\ \A i \in 1 .. k : p[i] = s[i]
    BY FirstFacts DEF First
  <2>2. \A i \in 1 .. Len(s) - k : rest[i] = s[i + k]
    OBVIOUS
  <2> HIDE DEF p, rest
  <2>3. /\ t \in Seq(Nat) /\ Len(t) = Len(s)
        /\ \A i \in 1 .. k : t[i] = p[i]
        /\ \A i \in k + 1 .. Len(s) : t[i] = rest[i - k]
    <3>1. /\ t \in Seq(Nat) /\ Len(t) = Len(p) + Len(rest)
          /\ \A i \in 1 .. Len(t) : t[i] = IF i <= Len(p) THEN p[i] ELSE rest[i - Len(p)]
      <4>1. p \in Seq(Nat) /\ rest \in Seq(Nat)
        BY <1>3, <2>1
      <4>2. QED
        BY ONLY <4>1
    <3>2. Len(t) = Len(s)
      BY <1>2, <1>3, <2>1, <3>1
    <3> HIDE DEF t
    <3>3. ASSUME NEW i \in 1 .. k PROVE t[i] = p[i]
      <4>1. i \in 1 .. Len(t) /\ i <= Len(p)
        BY <1>2, <2>1, <3>2
      <4>2. QED
        BY <3>1, <4>1
    <3>4. ASSUME NEW i \in k + 1 .. Len(s) PROVE t[i] = rest[i - k]
      <4>1. i \in 1 .. Len(t) /\ ~(i <= Len(p))
        BY <1>2, <2>1, <3>2
      <4>2. QED
        BY <2>1, <3>1, <4>1
    <3>5. QED
      BY <3>1, <3>2, <3>3, <3>4
  <2> HIDE DEF t
  <2>4. \A i \in k + 1 .. Len(s) : rest[i - k] = s[i]
    <3> SUFFICES ASSUME NEW i \in k + 1 .. Len(s) PROVE rest[i - k] = s[i]
      OBVIOUS
    <3>1. i - k \in 1 .. Len(s) - k /\ (i - k) + k = i
      BY <1>2
    <3>2. QED
      BY <2>2, <3>1
  <2>5. \A i \in 1 .. Len(s) : t[i] = s[i]
    BY <1>2, <2>1, <2>3, <2>4
  <2>6. t = s
    BY <2>3, <2>5
  <2>7. QED
    BY <2>6 DEF t, p
<1> HIDE DEF rest
<1>5. Total(s) = Total(First(s, k)) + Total(rest)
  BY <1>1, <1>3, <1>4, TotalConcat
<1>6. Total(First(s, k)) \in Nat /\ Total(rest) \in Nat
  BY <1>1, <1>3, TotalNat
<1>7. ASSUME k < Len(s) PROVE Total(First(s, k + 1)) = Total(First(s, k)) + s[k + 1]
  <2>1. First(s, k + 1) = First(s, k) \o <<s[k + 1]>> /\ s[k + 1] \in Nat
    BY <1>7, FirstFacts
  <2>2. <<s[k + 1]>> \in Seq(Nat)
    BY <2>1
  <2>3. QED
    BY <1>1, <2>1, <2>2, TotalConcat, TotalOne
<1>8. QED
  BY <1>5, <1>6, <1>7

\* What f is at the members of a sequence.
Values(f, s) == [i \in DOMAIN s |-> f[s[i]]]

LEMMA ValuesTyped ==
  ASSUME NEW D, NEW f \in [D -> Nat], NEW s \in Seq(D)
  PROVE  /\ Values(f, s) \in Seq(Nat) /\ Len(Values(f, s)) = Len(s)
         /\ SumOf(f, s) = Total(Values(f, s)) /\ SumOf(f, s) \in Nat
         /\ \A i \in 1 .. Len(s) : Values(f, s)[i] = f[s[i]] /\ s[i] \in D /\ f[s[i]] \in Nat
<1>1. DOMAIN s = 1 .. Len(s) /\ Len(s) \in Nat /\ \A i \in 1 .. Len(s) : s[i] \in D
  OBVIOUS
<1>2. \A i \in 1 .. Len(s) : f[s[i]] \in Nat
  BY <1>1
<1>3. Values(f, s) \in [1 .. Len(s) -> Nat]
  BY <1>1, <1>2 DEF Values
<1>4. Values(f, s) \in Seq(Nat) /\ Len(Values(f, s)) = Len(s)
  BY <1>1, <1>3
<1>5. SumOf(f, s) = Total(Values(f, s))
  BY DEF SumOf, Values
<1>6. QED
  BY <1>1, <1>2, <1>4, <1>5, TotalNat DEF Values

LEMMA JoinFacts ==
  ASSUME NEW D, NEW s \in Seq(D), NEW t \in Seq(D), NEW c, c = s \o t
  PROVE  /\ c \in Seq(D) /\ Len(c) = Len(s) + Len(t) /\ Len(s) \in Nat /\ Len(t) \in Nat
         /\ \A i \in 1 .. Len(s) : c[i] = s[i]
         /\ \A i \in Len(s) + 1 .. Len(s) + Len(t) : c[i] = t[i - Len(s)]
OBVIOUS

LEMMA FunctionSequence ==
  ASSUME NEW D, NEW n \in Nat, NEW s \in [1 .. n -> D]
  PROVE  s \in Seq(D) /\ Len(s) = n /\ DOMAIN s = 1 .. n
OBVIOUS

LEMMA SameSequence ==
  ASSUME NEW D, NEW s \in Seq(D), NEW t \in Seq(D), Len(s) = Len(t),
         \A i \in 1 .. Len(s) : s[i] = t[i]
  PROVE  s = t
OBVIOUS

\* v lists them, and the sum is that of v.
Lists(v, f, s) == /\ v \in Seq(Nat) /\ Len(v) = Len(s) /\ SumOf(f, s) = Total(v)
                  /\ \A i \in 1 .. Len(s) : v[i] = f[s[i]]

LEMMA ValuesListed ==
  ASSUME NEW D, NEW f \in [D -> Nat], NEW s \in Seq(D)
  PROVE  \E v : Lists(v, f, s)
<1>1. Lists(Values(f, s), f, s)
  BY ValuesTyped DEF Lists
<1>2. QED
  BY <1>1

LEMMA SumOfConcat ==
  ASSUME NEW D, NEW f \in [D -> Nat], NEW s \in Seq(D), NEW t \in Seq(D)
  PROVE  SumOf(f, s \o t) = SumOf(f, s) + SumOf(f, t)
<1> DEFINE st == s \o t
<1>3. /\ st \in Seq(D) /\ Len(st) = Len(s) + Len(t) /\ Len(s) \in Nat /\ Len(t) \in Nat
      /\ \A i \in 1 .. Len(s) : st[i] = s[i]
      /\ \A i \in Len(s) + 1 .. Len(s) + Len(t) : st[i] = t[i - Len(s)]
  OBVIOUS
<1> HIDE DEF st
<1>1. PICK v : Lists(v, f, s)
  BY ValuesListed, Zenon
<1>2. PICK w : Lists(w, f, t)
  BY ValuesListed, Zenon
<1>4. PICK vw : Lists(vw, f, st)
  BY <1>3, ValuesListed, Zenon
<1> DEFINE c == v \o w
<1>m. Len(v) = Len(s) /\ v \in Seq(Nat) /\ w \in Seq(Nat) /\ Len(w) = Len(t)
  BY <1>1, <1>2 DEF Lists
<1>5. /\ c \in Seq(Nat) /\ Len(c) = Len(s) + Len(t)
      /\ \A i \in 1 .. Len(s) : c[i] = v[i]
      /\ \A i \in Len(s) + 1 .. Len(s) + Len(t) : c[i] = w[i - Len(s)]
  <2>1. v \in Seq(Nat) /\ w \in Seq(Nat) /\ c = v \o w
    BY <1>m
  <2> HIDE DEF c
  <2>2. /\ c \in Seq(Nat) /\ Len(c) = Len(v) + Len(w)
        /\ \A i \in 1 .. Len(v) : c[i] = v[i]
        /\ \A i \in Len(v) + 1 .. Len(v) + Len(w) : c[i] = w[i - Len(v)]
    BY ONLY <2>1, JoinFacts
  <2>3. QED
    BY <1>m, <2>2
<1> HIDE DEF c
<1>6. \A i \in 1 .. Len(s) : c[i] = vw[i]
  <2>1. \A i \in 1 .. Len(s) : i \in 1 .. Len(st)
    BY <1>3
  <2>2. QED
    BY <1>1, <1>3, <1>4, <1>5, <2>1 DEF Lists
<1>7. \A i \in Len(s) + 1 .. Len(s) + Len(t) : c[i] = vw[i]
  <2> SUFFICES ASSUME NEW i \in Len(s) + 1 .. Len(s) + Len(t) PROVE c[i] = vw[i]
    OBVIOUS
  <2>1. i \in 1 .. Len(st) /\ i - Len(s) \in 1 .. Len(t)
    BY <1>3
  <2>2. c[i] = f[t[i - Len(s)]]
    BY <1>2, <1>5, <2>1 DEF Lists
  <2>3. vw[i] = f[t[i - Len(s)]]
    BY <1>3, <1>4, <2>1 DEF Lists
  <2>4. QED
    BY <2>2, <2>3
<1>8. vw \in Seq(Nat) /\ Len(vw) = Len(s) + Len(t)
  BY <1>3, <1>4 DEF Lists
<1>9. \A i \in 1 .. Len(vw) : c[i] = vw[i]
  <2>1. \A i \in 1 .. Len(vw) : i \in 1 .. Len(s) \/ i \in Len(s) + 1 .. Len(s) + Len(t)
    BY <1>3, <1>8
  <2>2. QED
    BY <1>6, <1>7, <2>1
<1>10. c = vw
  <2>1. Len(c) = Len(vw) /\ \A i \in 1 .. Len(c) : c[i] = vw[i]
    BY <1>5, <1>8, <1>9
  <2>2. QED
    BY ONLY <1>5, <1>8, <2>1, SameSequence
<1>11. Total(c) = Total(v) + Total(w)
  BY <1>m, TotalConcat DEF c
<1>12. QED
  BY <1>1, <1>2, <1>4, <1>10, <1>11 DEF Lists, st

LEMMA SumOfOne ==
  ASSUME NEW D, NEW f \in [D -> Nat], NEW x \in D
  PROVE  SumOf(f, <<x>>) = f[x]
<1>1. Values(f, <<x>>) = <<f[x]>>
  BY DEF Values
<1>2. f[x] \in Nat
  OBVIOUS
<1>3. QED
  BY <1>1, <1>2, TotalOne DEF SumOf, Values

LEMMA SumOfEmpty == ASSUME NEW f PROVE SumOf(f, <<>>) = 0
<1>1. [i \in DOMAIN <<>> |-> f[<<>>[i]]] = <<>>
  OBVIOUS
<1>2. QED
  BY <1>1, TotalEmpty DEF SumOf

LEMMA SumOfSame ==
  ASSUME NEW s, NEW f, NEW g, \A i \in DOMAIN s : f[s[i]] = g[s[i]]
  PROVE  SumOf(f, s) = SumOf(g, s)
<1>1. [i \in DOMAIN s |-> f[s[i]]] = [i \in DOMAIN s |-> g[s[i]]]
  OBVIOUS
<1>2. QED
  BY <1>1 DEF SumOf

\* The sum over the first members grows by the next, up to the whole sum.
LEMMA SumOfFirst ==
  ASSUME NEW D, NEW f \in [D -> Nat], NEW s \in Seq(D), NEW k \in 0 .. Len(s)
  PROVE  /\ First(s, k) \in Seq(D) /\ SumOf(f, First(s, k)) \in Nat
         /\ SumOf(f, First(s, k)) <= SumOf(f, s)
         /\ k < Len(s) => SumOf(f, First(s, k + 1)) = SumOf(f, First(s, k)) + f[s[k + 1]]
<1>1. /\ Values(f, s) \in Seq(Nat) /\ Len(Values(f, s)) = Len(s)
      /\ SumOf(f, s) = Total(Values(f, s))
      /\ \A i \in 1 .. Len(s) : Values(f, s)[i] = f[s[i]]
  BY ValuesTyped
<1>2. Len(s) \in Nat
  OBVIOUS
<1>3. ASSUME NEW j \in 0 .. Len(s)
      PROVE  SumOf(f, First(s, j)) = Total(First(Values(f, s), j)) /\ First(s, j) \in Seq(D)
  <2>1. First(s, j) \in Seq(D) /\ DOMAIN First(s, j) = 1 .. j
    BY FirstFacts
  <2>2. \A i \in 1 .. j : First(s, j)[i] = s[i] /\ i \in 1 .. Len(s)
    BY <1>2 DEF First
  <2>3. [i \in DOMAIN First(s, j) |-> f[First(s, j)[i]]] = [i \in 1 .. j |-> Values(f, s)[i]]
    BY <1>1, <2>1, <2>2
  <2>4. QED
    BY <2>1, <2>3 DEF SumOf, First
<1>4. /\ Total(First(Values(f, s), k)) \in Nat
      /\ Total(First(Values(f, s), k)) <= Total(Values(f, s))
      /\ k < Len(s) => Total(First(Values(f, s), k + 1))
                         = Total(First(Values(f, s), k)) + Values(f, s)[k + 1]
  BY <1>1, TotalFirst
<1>5. ASSUME k < Len(s) PROVE k + 1 \in 0 .. Len(s) /\ k + 1 \in 1 .. Len(s)
  BY <1>2, <1>5
<1>6. QED
  BY <1>1, <1>3, <1>4, <1>5
=============================================================================
