---------------------------- MODULE IngestionProofs ----------------------------
(***************************************************************************)
(* Theorems of Ingestion.tla, for every set of inputs, every resources and *)
(* all limits.  The invariant follows the recursion: the frames are a path *)
(* from the innermost document to the input's own, each waits for the one  *)
(* before it, and what a frame has resolved is what it has gone through.   *)
(* A second one follows the list of the files of the input's own document, *)
(* and a third compares what is counted and charged on the way with what   *)
(* the whole tree of documents comes to.                                   *)
(***************************************************************************)
EXTENDS IngestionVerdict, Induction, TLAPS
-----------------------------------------------------------------------------
(* Listings                                                                *)

Distinct(s) == \A i, j \in DOMAIN s : s[i] = s[j] => i = j

\* A sequence without its k-th member.
Without(s, k) == [i \in 1 .. Len(s) - 1 |-> IF i < k THEN s[i] ELSE s[i + 1]]

LEMMA WithoutSum ==
  ASSUME NEW D, NEW f \in [D -> Nat], NEW s \in Seq(D), NEW k \in 1 .. Len(s)
  PROVE  /\ Without(s, k) \in Seq(D) /\ Len(Without(s, k)) = Len(s) - 1
         /\ SumOf(f, s) = SumOf(f, Without(s, k)) + f[s[k]]
<1> DEFINE a == First(s, k - 1)
           b == [i \in 1 .. Len(s) - k |-> s[i + k]]
           w == Without(s, k)
<1>1. Len(s) \in Nat /\ k \in Nat /\ k >= 1 /\ k <= Len(s) /\ \A i \in 1 .. Len(s) : s[i] \in D
  OBVIOUS
<1>2. a \in Seq(D) /\ Len(a) = k - 1 /\ \A i \in 1 .. k - 1 : a[i] = s[i]
  <2>1. k - 1 \in 0 .. Len(s)
    BY <1>1
  <2>2. QED
    BY ONLY <2>1, s \in Seq(D), FirstFacts
<1>3. b \in Seq(D) /\ Len(b) = Len(s) - k /\ \A i \in 1 .. Len(s) - k : b[i] = s[i + k]
  <2>1. b \in [1 .. Len(s) - k -> D] /\ Len(s) - k \in Nat
    BY <1>1
  <2>2. QED
    BY <2>1
<1>4. w \in Seq(D) /\ Len(w) = Len(s) - 1
  <2> DEFINE n == Len(s) - 1
  <2>1. w \in [1 .. n -> D]
    <3>1. \A i \in 1 .. n : i \in 1 .. Len(s) /\ i + 1 \in 1 .. Len(s)
      BY <1>1
    <3>2. QED
      BY <1>1, <3>1 DEF Without
  <2>2. n \in Nat
    BY <1>1
  <2> HIDE DEF n, w
  <2>3. w \in Seq(D) /\ Len(w) = n
    BY ONLY <2>1, <2>2, FunctionSequence
  <2>4. QED
    BY <2>3 DEF n
<1>5. \A i \in 1 .. Len(s) - 1 : w[i] = IF i < k THEN s[i] ELSE s[i + 1]
  BY DEF Without
<1>6. s[k] \in D
  BY <1>1
<1> HIDE DEF a, b, w
<1>7. w = a \o b
  <2> DEFINE c == a \o b
  <2>1. c = a \o b
    OBVIOUS
  <2>s. a \in Seq(D) /\ b \in Seq(D)
    BY <1>2, <1>3
  <2> HIDE DEF c
  <2>2. /\ c \in Seq(D) /\ Len(c) = Len(a) + Len(b)
        /\ \A i \in 1 .. Len(a) : c[i] = a[i]
        /\ \A i \in Len(a) + 1 .. Len(a) + Len(b) : c[i] = b[i - Len(a)]
    BY ONLY <2>1, <2>s, JoinFacts
  <2>3. Len(c) = Len(w)
    BY <1>1, <1>2, <1>3, <1>4, <2>2
  <2>4. ASSUME NEW i \in 1 .. Len(w) PROVE w[i] = c[i]
    <3>1. CASE i < k
      BY <1>1, <1>2, <1>4, <1>5, <2>2, <3>1
    <3>2. CASE ~(i < k)
      <4>1. i \in Len(a) + 1 .. Len(a) + Len(b) /\ i - Len(a) \in 1 .. Len(s) - k
            /\ (i - Len(a)) + k = i + 1 /\ i \in 1 .. Len(s) - 1
        BY <1>1, <1>2, <1>3, <1>4, <3>2
      <4>2. c[i] = b[i - Len(a)] /\ b[i - Len(a)] = s[i + 1]
        BY <1>3, <2>2, <4>1
      <4>3. w[i] = s[i + 1]
        BY <1>5, <3>2, <4>1
      <4>4. QED
        BY <4>2, <4>3
    <3>3. QED
      BY <3>1, <3>2
  <2>5. w = c
    BY ONLY <1>4, <2>2, <2>3, <2>4, SameSequence
  <2>6. QED
    BY <2>1, <2>5
<1> DEFINE p == First(s, k)
<1>8. p \in Seq(D) /\ Len(p) = k /\ (\A i \in 1 .. k : p[i] = s[i]) /\ p = a \o <<s[k]>>
  <2>1. k \in 0 .. Len(s) /\ k - 1 \in 0 .. Len(s) /\ k - 1 < Len(s) /\ (k - 1) + 1 = k
    BY <1>1
  <2>2. p \in Seq(D) /\ Len(p) = k /\ \A i \in 1 .. k : p[i] = s[i]
    BY ONLY <2>1, s \in Seq(D), FirstFacts
  <2>3. First(s, (k - 1) + 1) = First(s, k - 1) \o <<s[(k - 1) + 1]>>
    BY <2>1, FirstFacts
  <2>4. QED
    BY <2>1, <2>2, <2>3 DEF a
<1> HIDE DEF p
<1>9. s = p \o b
  <2> DEFINE c == p \o b
  <2>1. c = p \o b
    OBVIOUS
  <2>s. p \in Seq(D) /\ b \in Seq(D)
    BY <1>3, <1>8
  <2>t. Len(p) = k /\ Len(b) = Len(s) - k
    BY <1>3, <1>8
  <2> HIDE DEF c
  <2>2. /\ c \in Seq(D) /\ Len(c) = Len(p) + Len(b)
        /\ \A i \in 1 .. Len(p) : c[i] = p[i]
        /\ \A i \in Len(p) + 1 .. Len(p) + Len(b) : c[i] = b[i - Len(p)]
    BY ONLY <2>1, <2>s, JoinFacts
  <2>3. Len(c) = Len(s)
    BY ONLY <1>1, <2>t, <2>2
  <2>4. ASSUME NEW i \in 1 .. Len(s) PROVE s[i] = c[i]
    <3>1. CASE i <= k
      <4>1. i \in 1 .. k /\ i \in 1 .. Len(p)
        BY <1>1, <2>t, <3>1
      <4>2. QED
        BY <1>8, <2>2, <4>1
    <3>2. CASE ~(i <= k)
      <4>1. i \in Len(p) + 1 .. Len(p) + Len(b) /\ i - k \in 1 .. Len(s) - k /\ (i - k) + k = i
        BY <1>1, <1>3, <1>8, <3>2
      <4>2. QED
        BY <1>3, <1>8, <2>2, <4>1
    <3>3. QED
      BY <3>1, <3>2
  <2>5. s = c
    BY ONLY s \in Seq(D), <2>2, <2>3, <2>4, SameSequence
  <2>6. QED
    BY <2>1, <2>5
<1>10. SumOf(f, s) = SumOf(f, p) + SumOf(f, b)
  BY ONLY f \in [D -> Nat], <1>8, <1>3, <1>9, SumOfConcat
<1>11. SumOf(f, p) = SumOf(f, a) + SumOf(f, <<s[k]>>)
  <2>1. <<s[k]>> \in Seq(D)
    BY <1>6
  <2>2. QED
    BY ONLY f \in [D -> Nat], <1>2, <1>8, <2>1, SumOfConcat
<1>12. SumOf(f, w) = SumOf(f, a) + SumOf(f, b)
  BY ONLY f \in [D -> Nat], <1>2, <1>3, <1>7, SumOfConcat
<1>13. SumOf(f, <<s[k]>>) = f[s[k]] /\ f[s[k]] \in Nat
  BY <1>6, SumOfOne
<1>14. SumOf(f, a) \in Nat /\ SumOf(f, b) \in Nat
  BY <1>2, <1>3, ValuesTyped
<1>15. QED
  BY <1>4, <1>10, <1>11, <1>12, <1>13, <1>14 DEF w

LEMMA WithoutSet ==
  ASSUME NEW D, NEW s \in Seq(D), NEW k \in 1 .. Len(s), Distinct(s)
  PROVE  /\ Distinct(Without(s, k)) /\ ToSet(Without(s, k)) = ToSet(s) \ {s[k]}
<1> DEFINE w == Without(s, k)
<1>1. /\ Len(s) \in Nat /\ k \in Nat /\ k >= 1 /\ k <= Len(s) /\ DOMAIN s = 1 .. Len(s)
      /\ DOMAIN w = 1 .. Len(s) - 1
  BY DEF Without
<1>2. \A i \in 1 .. Len(s) - 1 : w[i] = IF i < k THEN s[i] ELSE s[i + 1]
  BY DEF Without
<1> HIDE DEF w
<1>3. \A i, j \in 1 .. Len(s) : s[i] = s[j] => i = j
  BY <1>1 DEF Distinct
<1>4. \A i \in 1 .. Len(s) - 1 : i \in 1 .. Len(s) /\ i + 1 \in 1 .. Len(s)
  BY <1>1
<1>5. ASSUME NEW i \in 1 .. Len(s) - 1, NEW j \in 1 .. Len(s) - 1, w[i] = w[j] PROVE i = j
  <2>1. (IF i < k THEN i ELSE i + 1) = (IF j < k THEN j ELSE j + 1)
    BY <1>2, <1>3, <1>4, <1>5
  <2>2. QED
    BY <1>1, <2>1
<1>6. ASSUME NEW x \in ToSet(w) PROVE x \in ToSet(s) \ {s[k]}
  <2>1. PICK i \in 1 .. Len(s) - 1 : x = w[i]
    BY <1>1 DEF ToSet
  <2>2. PICK j \in 1 .. Len(s) : x = s[j] /\ j # k
    <3>1. CASE i < k
      BY <1>1, <1>2, <1>4, <2>1, <3>1
    <3>2. CASE ~(i < k)
      <4>1. i + 1 # k /\ i + 1 \in 1 .. Len(s)
        BY <1>1, <3>2
      <4>2. x = s[i + 1]
        BY <1>2, <2>1, <3>2
      <4>3. QED
        BY <4>1, <4>2
    <3>3. QED
      BY <3>1, <3>2
  <2>3. QED
    BY <1>1, <1>3, <2>2 DEF ToSet
<1>7. ASSUME NEW x \in ToSet(s) \ {s[k]} PROVE x \in ToSet(w)
  <2>1. PICK j \in 1 .. Len(s) : x = s[j] /\ j # k
    BY <1>1 DEF ToSet
  <2>2. PICK i \in 1 .. Len(s) - 1 : x = w[i]
    <3>1. CASE j < k
      <4>1. j \in 1 .. Len(s) - 1
        BY <1>1, <3>1
      <4>2. QED
        BY <1>2, <2>1, <3>1, <4>1
    <3>2. CASE j > k
      <4>1. j - 1 \in 1 .. Len(s) - 1 /\ ~(j - 1 < k) /\ (j - 1) + 1 = j
        BY <1>1, <3>2
      <4>2. w[j - 1] = s[(j - 1) + 1]
        BY <1>2, <4>1
      <4>3. w[j - 1] = x
        BY <2>1, <4>1, <4>2
      <4>4. QED
        BY <4>1, <4>3
    <3>3. QED
      BY <1>1, <2>1, <3>1, <3>2
  <2>3. QED
    BY <1>1, <2>2 DEF ToSet
<1>8. QED
  BY <1>1, <1>5, <1>6, <1>7 DEF Distinct, w

\* Two listings of one set have one sum.
Listings(D, n) == {s \in Seq(D) : Distinct(s) /\ Len(s) = n}

LEMMA SameSum ==
  ASSUME NEW D, NEW f \in [D -> Nat], NEW s \in Seq(D), NEW t \in Seq(D),
         Distinct(s), Distinct(t), ToSet(s) = ToSet(t)
  PROVE  SumOf(f, s) = SumOf(f, t)
<1> DEFINE S == {n \in Nat : \A a \in Listings(D, n) : \A b \in Seq(D) :
                   Distinct(b) /\ ToSet(b) = ToSet(a) => SumOf(f, a) = SumOf(f, b)}
<1>1. 0 \in S
  <2> SUFFICES ASSUME NEW a \in Listings(D, 0), NEW b \in Seq(D), ToSet(b) = ToSet(a)
               PROVE  SumOf(f, a) = SumOf(f, b)
    OBVIOUS
  <2>1. a = <<>> /\ a \in Seq(D) /\ ToSet(a) = {}
    BY DEF Listings, ToSet
  <2>2. b = <<>>
    <3>0. DOMAIN b = 1 .. Len(b) /\ Len(b) \in Nat
      OBVIOUS
    <3>1. DOMAIN b = {} /\ DOMAIN b = 1 .. Len(b) /\ Len(b) \in Nat
      <4>1. ToSet(b) = {}
        BY <2>1
      <4>2. \A i \in DOMAIN b : b[i] \in ToSet(b)
        BY DEF ToSet
      <4>3. QED
        BY <3>0, <4>1, <4>2
    <3>2. ~(1 \in 1 .. Len(b))
      BY <3>1
    <3>3. Len(b) = 0
      BY <3>1, <3>2
    <3>4. QED
      BY <3>3
  <2>3. QED
    BY <2>1, <2>2
<1>2. ASSUME NEW n \in Nat, n \in S PROVE n + 1 \in S
  <2> SUFFICES ASSUME NEW a \in Listings(D, n + 1), NEW b \in Seq(D),
                      Distinct(b), ToSet(b) = ToSet(a)
               PROVE  SumOf(f, a) = SumOf(f, b)
    OBVIOUS
  <2>1. a \in Seq(D) /\ Distinct(a) /\ Len(a) = n + 1 /\ n + 1 \in 1 .. Len(a)
    BY DEF Listings
  <2> DEFINE v == Without(a, n + 1)
  <2>2. a[n + 1] \in ToSet(b)
    <3>1. n + 1 \in DOMAIN a
      BY <2>1
    <3>2. a[n + 1] \in ToSet(a)
      BY <3>1 DEF ToSet
    <3>3. QED
      BY <3>2
  <2>3. PICK k \in 1 .. Len(b) : b[k] = a[n + 1]
    <3>1. DOMAIN b = 1 .. Len(b)
      OBVIOUS
    <3>2. QED
      BY <2>2, <3>1 DEF ToSet
  <2> DEFINE w == Without(b, k)
  <2>4. /\ v \in Seq(D) /\ Len(v) = Len(a) - 1 /\ SumOf(f, a) = SumOf(f, v) + f[a[n + 1]]
    BY <2>1, WithoutSum
  <2>5. Distinct(v) /\ ToSet(v) = ToSet(a) \ {a[n + 1]}
    BY <2>1, WithoutSet
  <2>6. w \in Seq(D) /\ SumOf(f, b) = SumOf(f, w) + f[b[k]]
    BY WithoutSum
  <2>7. Distinct(w) /\ ToSet(w) = ToSet(b) \ {b[k]}
    BY WithoutSet
  <2> HIDE DEF v, w
  <2>8. v \in Listings(D, n)
    BY <2>1, <2>4, <2>5 DEF Listings
  <2>9. ToSet(w) = ToSet(v)
    BY <2>3, <2>5, <2>7
  <2>10. SumOf(f, v) = SumOf(f, w)
    BY <1>2, <2>6, <2>7, <2>8, <2>9
  <2>11. QED
    BY <2>3, <2>4, <2>6, <2>10
<1> HIDE DEF S
<1>3. Nat \subseteq S
  BY <1>1, <1>2, SetInduction
<1>4. s \in Listings(D, Len(s)) /\ Len(s) \in S
  BY <1>3 DEF Listings
<1>5. QED
  BY <1>4 DEF S

\* A finite set is listed by SetToSeq.
LEMMA SetListed ==
  ASSUME NEW S, IsFiniteSet(S)
  PROVE  SetToSeq(S) \in Seq(S) /\ Distinct(SetToSeq(S)) /\ ToSet(SetToSeq(S)) = S
<1> DEFINE n == Cardinality(S)
<1>1. n \in Nat /\ ExistsBijection(1 .. n, S)
  BY FS_CardinalityType
<1>2. PICK g : g \in Bijection(1 .. n, S)
  BY <1>1 DEF ExistsBijection
<1>3. g \in [1 .. n -> S] /\ IsInjective(g)
  BY <1>2 DEF Bijection, Injection, IsInjective
<1> DEFINE h == SetToSeq(S)
<1>4. h \in [1 .. n -> S] /\ IsInjective(h)
  BY <1>3 DEF SetToSeq
<1> HIDE DEF h, n
<1>5. h \in Injection(1 .. n, S)
  BY <1>4 DEF Injection, IsInjective
<1>6. IsFiniteSet(1 .. n) /\ Cardinality(1 .. n) = n
  BY <1>1, FS_Interval
<1>7. h \in Surjection(1 .. n, S)
  BY <1>5, <1>6, FS_Injection DEF n
<1>8. ToSet(h) = S
  BY <1>4, <1>7 DEF ToSet, Surjection
<1>9. h \in Seq(S)
  BY <1>1, <1>4
<1>10. Distinct(h)
  BY <1>4 DEF Distinct, IsInjective
<1>11. QED
  BY <1>8, <1>9, <1>10 DEF h

\* flat lists the sequences of seqs, one after the other.
Flattens(flat, seqs, D) ==
  /\ flat \in [0 .. Len(seqs) -> Seq(D)] /\ flat[0] = <<>>
  /\ \A k \in 1 .. Len(seqs) : flat[k] = flat[k - 1] \o seqs[k]

LEMMA FlatteningExists ==
  ASSUME NEW D, NEW seqs \in Seq(Seq(D))
  PROVE  \E flat : Flattens(flat, seqs, D) /\ FlattenSeq(seqs) = flat[Len(seqs)]
<1> DEFINE m == Len(seqs)
           T == Seq(D)
           step == [k \in 1 .. m |-> [x \in T |-> x \o seqs[k]]]
<1>1. m \in Nat /\ \A k \in 1 .. m : seqs[k] \in T
  OBVIOUS
<1> HIDE DEF m
<1>2. step \in Steps(T, m)
  <2>1. ASSUME NEW k \in 1 .. m, NEW x \in T PROVE x \o seqs[k] \in T
    BY <1>1
  <2>2. QED
    BY <2>1 DEF Steps
<1>3. <<>> \in T
  OBVIOUS
<1> HIDE DEF step
<1>4. PICK f : Recurses(f, T, <<>>, m, step)
  BY ONLY <1>1, <1>2, <1>3, RecursionExists
<1>5. /\ f \in [0 .. m -> T] /\ f[0] = <<>>
      /\ \A k \in 1 .. m : f[k] = f[k - 1] \o seqs[k]
  <2>1. f \in [0 .. m -> T] /\ f[0] = <<>>
    BY <1>4 DEF Recurses
  <2>2. ASSUME NEW k \in 1 .. m PROVE f[k] = f[k - 1] \o seqs[k]
    <3>1. k - 1 \in 0 .. m
      BY <1>1
    <3>2. f[k] = step[k][f[k - 1]] /\ f[k - 1] \in T
      BY <1>4, <3>1 DEF Recurses
    <3>3. QED
      BY <3>2 DEF step
  <2>3. QED
    BY <2>1, <2>2
<1>6. Flattens(f, seqs, D)
  BY <1>5 DEF Flattens, m
<1>7. CASE m = 0
  <2>1. seqs = <<>> /\ FlattenSeq(seqs) = seqs
    BY <1>7 DEF m, FlattenSeq
  <2>2. f[Len(seqs)] = <<>>
    BY <1>5, <1>7 DEF m
  <2>3. QED
    BY <1>6, <2>1, <2>2
<1>8. CASE m # 0
  <2> DEFINE body(g) == [i \in 1 .. Len(seqs) |-> IF i = 1 THEN seqs[i] ELSE g[i - 1] \o seqs[i]]
             flatten == CHOOSE g : g = body(g)
             h == [i \in 1 .. m |-> f[i]]
  <2>1. FlattenSeq(seqs) = flatten[m]
    BY <1>8 DEF FlattenSeq, m
  <2>2. h = body(h)
    <3>1. ASSUME NEW i \in 1 .. m
          PROVE  h[i] = IF i = 1 THEN seqs[i] ELSE h[i - 1] \o seqs[i]
      <4>1. CASE i = 1
        <5>1. f[1] = f[0] \o seqs[1]
          <6>1. 1 \in 1 .. m /\ 1 - 1 = 0
            BY <1>1, <4>1
          <6>2. f[1] = f[1 - 1] \o seqs[1]
            BY <1>5, <6>1
          <6>3. QED
            BY <6>1, <6>2
        <5>2. seqs[1] \in Seq(D)
          BY <1>1, <4>1
        <5>3. <<>> \o seqs[1] = seqs[1]
          BY <5>2
        <5>4. QED
          BY <1>5, <4>1, <5>1, <5>3
      <4>2. CASE i # 1
        <5>1. i - 1 \in 1 .. m
          BY <1>1, <4>2
        <5>2. QED
          BY <1>5, <4>2, <5>1
      <4>3. QED
        BY <4>1, <4>2
    <3>2. h = [i \in 1 .. m |-> h[i]]
      OBVIOUS
    <3> HIDE DEF h
    <3>3. h = [i \in 1 .. m |-> IF i = 1 THEN seqs[i] ELSE h[i - 1] \o seqs[i]]
      BY <3>1, <3>2, Zenon
    <3>4. QED
      BY <3>3 DEF m
  <2>3. flatten = body(flatten)
    BY <2>2
  <2> HIDE DEF flatten
  <2>4. \A i \in 1 .. m : flatten[i] = IF i = 1 THEN seqs[i] ELSE flatten[i - 1] \o seqs[i]
    <3>1. flatten = [i \in 1 .. m |-> IF i = 1 THEN seqs[i] ELSE flatten[i - 1] \o seqs[i]]
      BY <2>3 DEF m
    <3> HIDE DEF body
    <3>2. QED
      BY <3>1, Zenon
  <2> DEFINE S == {i \in 0 .. m : i # 0 => flatten[i] = f[i]}
  <2>5. 0 \in S
    BY <1>1
  <2>6. ASSUME NEW i \in 0 .. m - 1, i \in S PROVE i + 1 \in S
    <3>1. i + 1 \in 1 .. m /\ i + 1 \in 0 .. m /\ (i + 1) - 1 = i
      BY <1>1
    <3>2. f[i + 1] = f[i] \o seqs[i + 1]
      BY <1>5, <3>1
    <3>3. CASE i = 0
      <4>1. seqs[1] \in Seq(D) /\ i + 1 = 1
        BY <1>1, <3>1, <3>3
      <4>2. <<>> \o seqs[1] = seqs[1]
        BY <4>1
      <4>3. flatten[i + 1] = seqs[1]
        BY <2>4, <3>1, <4>1
      <4>4. f[i + 1] = seqs[1]
        BY <1>5, <3>2, <3>3, <4>1, <4>2
      <4>5. QED
        BY <3>1, <4>3, <4>4
    <3>4. CASE i # 0
      <4>1. flatten[i + 1] = flatten[i] \o seqs[i + 1]
        <5>1. i + 1 # 1
          BY <1>1, <3>4
        <5>2. QED
          BY <2>4, <3>1, <5>1
      <4>2. flatten[i] = f[i]
        BY <2>6, <3>4
      <4>3. QED
        BY <3>1, <3>2, <4>1, <4>2
    <3>5. QED
      BY <3>3, <3>4
  <2> HIDE DEF S
  <2>7. 0 .. m \subseteq S
    BY <1>1, <2>5, <2>6, IntervalInduction
  <2>8. m \in 0 .. m
    BY <1>1
  <2>9. flatten[m] = f[m]
    BY <1>8, <2>7, <2>8 DEF S
  <2>10. QED
    BY <1>6, <2>1, <2>9 DEF m
<1>9. QED
  BY <1>7, <1>8

LEMMA ToSetJoin ==
  ASSUME NEW D, NEW s \in Seq(D), NEW t \in Seq(D)
  PROVE  ToSet(s \o t) = ToSet(s) \cup ToSet(t)
<1> DEFINE c == s \o t
<1>1. c = s \o t
  OBVIOUS
<1> HIDE DEF c
<1>2. /\ c \in Seq(D) /\ Len(c) = Len(s) + Len(t) /\ Len(s) \in Nat /\ Len(t) \in Nat
      /\ \A i \in 1 .. Len(s) : c[i] = s[i]
      /\ \A i \in Len(s) + 1 .. Len(s) + Len(t) : c[i] = t[i - Len(s)]
  BY ONLY <1>1, s \in Seq(D), t \in Seq(D), JoinFacts
<1>3. DOMAIN c = 1 .. Len(c) /\ DOMAIN s = 1 .. Len(s) /\ DOMAIN t = 1 .. Len(t)
  BY <1>2
<1>4. ASSUME NEW x \in ToSet(c) PROVE x \in ToSet(s) \cup ToSet(t)
  <2>1. PICK i \in 1 .. Len(c) : x = c[i]
    BY <1>3 DEF ToSet
  <2>2. CASE i \in 1 .. Len(s)
    BY <1>2, <1>3, <2>1, <2>2 DEF ToSet
  <2>3. CASE i \notin 1 .. Len(s)
    <3>1. i \in Len(s) + 1 .. Len(s) + Len(t) /\ i - Len(s) \in 1 .. Len(t)
      BY <1>2, <2>3
    <3>2. x = t[i - Len(s)]
      BY <1>2, <2>1, <3>1
    <3>3. QED
      BY <1>3, <3>1, <3>2 DEF ToSet
  <2>4. QED
    BY <2>2, <2>3
<1>5. ASSUME NEW x \in ToSet(s) PROVE x \in ToSet(c)
  <2>1. PICK i \in 1 .. Len(s) : x = s[i]
    BY <1>3 DEF ToSet
  <2>2. i \in 1 .. Len(c)
    BY <1>2
  <2>3. QED
    BY <1>2, <1>3, <2>1, <2>2 DEF ToSet
<1>6. ASSUME NEW x \in ToSet(t) PROVE x \in ToSet(c)
  <2>1. PICK i \in 1 .. Len(t) : x = t[i]
    BY <1>3 DEF ToSet
  <2>2. i + Len(s) \in 1 .. Len(c) /\ i + Len(s) \in Len(s) + 1 .. Len(s) + Len(t)
        /\ (i + Len(s)) - Len(s) = i
    BY <1>2
  <2>3. c[i + Len(s)] = x
    BY <1>2, <2>1, <2>2
  <2>4. QED
    BY <1>3, <2>2, <2>3 DEF ToSet
<1>7. QED
  BY <1>1, <1>4, <1>5, <1>6

\* What is listed is what the sequences list, and so is the sum.
LEMMA FlattenFacts ==
  ASSUME NEW D, NEW seqs \in Seq(Seq(D)), NEW f \in [D -> Nat]
  PROVE  /\ FlattenSeq(seqs) \in Seq(D)
         /\ ToSet(FlattenSeq(seqs)) = UNION {ToSet(seqs[i]) : i \in 1 .. Len(seqs)}
         /\ SumOf(f, FlattenSeq(seqs)) = Total([i \in 1 .. Len(seqs) |-> SumOf(f, seqs[i])])
<1> DEFINE m == Len(seqs)
           sums == [i \in 1 .. m |-> SumOf(f, seqs[i])]
<1>1. PICK flat : Flattens(flat, seqs, D) /\ FlattenSeq(seqs) = flat[m]
  BY FlatteningExists
<1>2. m \in Nat /\ \A k \in 1 .. m : seqs[k] \in Seq(D)
  OBVIOUS
<1> HIDE DEF m
<1>3. /\ flat \in [0 .. m -> Seq(D)] /\ flat[0] = <<>>
      /\ \A k \in 1 .. m : flat[k] = flat[k - 1] \o seqs[k]
  BY <1>1 DEF Flattens, m
<1>4. sums \in Seq(Nat) /\ Len(sums) = m
  <2>1. \A k \in 1 .. m : SumOf(f, seqs[k]) \in Nat
    BY <1>2, ValuesTyped
  <2>2. sums \in [1 .. m -> Nat]
    BY <2>1
  <2>3. QED
    BY ONLY <1>2, <2>2, FunctionSequence
<1>5. \A k \in 1 .. m : sums[k] = SumOf(f, seqs[k])
  OBVIOUS
<1> HIDE DEF sums
<1> DEFINE S == {k \in 0 .. m :
                   /\ SumOf(f, flat[k]) = Total(First(sums, k))
                   /\ \A x : x \in ToSet(flat[k]) <=> \E i \in 1 .. k : x \in ToSet(seqs[i])}
<1>6. 0 \in S
  <2>1. First(sums, 0) = <<>>
    BY <1>4, FirstWhole
  <2>2. SumOf(f, flat[0]) = Total(First(sums, 0))
    BY <1>3, <2>1, SumOfEmpty, TotalEmpty
  <2>3. ToSet(flat[0]) = {}
    BY <1>3 DEF ToSet
  <2>4. \A i \in 1 .. 0 : FALSE
    OBVIOUS
  <2>5. QED
    BY <1>2, <2>2, <2>3, <2>4
<1>7. ASSUME NEW k \in 0 .. m - 1, k \in S PROVE k + 1 \in S
  <2>1. k + 1 \in 1 .. m /\ k + 1 \in 0 .. m /\ (k + 1) - 1 = k /\ k \in 0 .. Len(sums) /\ k < Len(sums)
        /\ k \in 0 .. m
    BY <1>2, <1>4
  <2>2. flat[k + 1] = flat[k] \o seqs[k + 1] /\ flat[k] \in Seq(D) /\ seqs[k + 1] \in Seq(D)
    BY <1>2, <1>3, <2>1
  <2>3. SumOf(f, flat[k + 1]) = SumOf(f, flat[k]) + SumOf(f, seqs[k + 1])
    BY <2>2, SumOfConcat
  <2>4. Total(First(sums, k + 1)) = Total(First(sums, k)) + sums[k + 1]
    BY <1>4, <2>1, TotalFirst
  <2>5. ToSet(flat[k + 1]) = ToSet(flat[k]) \cup ToSet(seqs[k + 1])
    BY <2>2, ToSetJoin
  <2>6. 1 .. k + 1 = (1 .. k) \cup {k + 1}
    BY <2>1
  <2>8. /\ SumOf(f, flat[k]) = Total(First(sums, k))
        /\ \A x : x \in ToSet(flat[k]) <=> \E i \in 1 .. k : x \in ToSet(seqs[i])
    BY <1>7
  <2>9. SumOf(f, flat[k + 1]) = Total(First(sums, k + 1))
    BY <1>5, <2>1, <2>3, <2>4, <2>8
  <2>10. ASSUME NEW x
         PROVE  x \in ToSet(flat[k + 1]) <=> \E i \in 1 .. k + 1 : x \in ToSet(seqs[i])
    <3>1. x \in ToSet(flat[k + 1])
            <=> (\E i \in 1 .. k : x \in ToSet(seqs[i])) \/ x \in ToSet(seqs[k + 1])
      BY <2>5, <2>8
    <3>2. (\E i \in 1 .. k + 1 : x \in ToSet(seqs[i]))
            <=> (\E i \in 1 .. k : x \in ToSet(seqs[i])) \/ x \in ToSet(seqs[k + 1])
      BY ONLY <2>6
    <3>3. QED
      BY <3>1, <3>2, Zenon
  <2>11. QED
    BY <2>1, <2>9, <2>10
<1> HIDE DEF S
<1>8. 0 .. m \subseteq S
  BY <1>2, <1>6, <1>7, IntervalInduction
<1>9. m \in 0 .. m
  BY <1>2
<1>10. /\ SumOf(f, flat[m]) = Total(First(sums, m))
       /\ \A x : x \in ToSet(flat[m]) <=> \E i \in 1 .. m : x \in ToSet(seqs[i])
  BY <1>8, <1>9 DEF S
<1>14. ToSet(flat[m]) = UNION {ToSet(seqs[i]) : i \in 1 .. m}
  BY <1>10
<1>11. First(sums, m) = sums
  BY <1>4, FirstWhole
<1>12. flat[m] \in Seq(D)
  BY <1>3, <1>9
<1>13. QED
  BY <1>1, <1>10, <1>11, <1>12, <1>14 DEF m, sums

-----------------------------------------------------------------------------
(* The invariant                                                           *)

Names == DOMAIN Resources \cup {Root}
Counts == [elements : Nat, attributes : Nat, text : Nat, references : Nat, images : Nat]

\* The data images of the document of a frame, doc being the input's own.
ImagesOf(name, doc) == DataImages(IF name = Root THEN doc ELSE Resources[name])

FrameWith(list) ==
  [name : Names, depth : Nat, stage : {"census", "images", "external"}, at : Nat \ {0},
   counts : Counts, external : {list}, resolved : SUBSET DOMAIN Resources]
FrameTyped(f) == f \in FrameWith(f.external)

FramesTyped == /\ frames \in Seq(ToSet(frames))
               /\ \A i \in DOMAIN frames : /\ FrameTyped(frames[i])
                                           /\ WithinDocument(frames[i].counts)

SharedTyped ==
  /\ input \in Inputs /\ inflated \in 0 .. input.inflated
  /\ stage \in {"check", "inflate", "parse", "documents", "paint", "ended"}
  /\ outcome \in Outcomes \cup {"none"} /\ (outcome # "none" <=> stage = "ended")
  /\ budget \in [bytes : 0 .. Limits.resources, elements : 0 .. Limits.elements,
                 references : 0 .. Limits.references]
  /\ paint \in [count : 0 .. Limits.paintNodes, trees : Seq(Names)]
  /\ loads \in Seq(LegalPaths) /\ cancelled \in BOOLEAN

\* What a frame waits for while a document nested in it is admitted.
Awaited(f, doc, loaded) == IF f.stage = "images" THEN ImagesOf(f.name, doc) ELSE loaded

\* The frames are a path of nested documents: only the outermost is the
\* input's own, and all but the innermost wait for the one before them.
Chain ==
  /\ Len(frames) <= Limits.nestedDepth + 1
  /\ Len(frames) > 1 => input.nested
  /\ stage = "documents" => frames # <<>>
  /\ stage \in {"check", "inflate", "parse"} => frames = <<>>
  /\ \A i \in DOMAIN frames :
       /\ frames[i].depth = Len(frames) - i
       /\ frames[i].name = Root <=> i = Len(frames)
       /\ frames[i].stage = "external" => i = Len(frames)
       /\ i > 1 => /\ frames[i].stage # "census"
                   /\ frames[i].at <= Len(Awaited(frames[i], input.document, loads))
                   /\ frames[i - 1].name = Awaited(frames[i], input.document, loads)[frames[i].at]

\* What a frame has gone through is in its store.
Gone(s, n) == {s[k] : k \in 1 .. n}
FrameResolved(f, doc, loaded) ==
  /\ f.stage = "census" => f.resolved = {}
  /\ f.stage = "images" => /\ f.at - 1 <= Len(ImagesOf(f.name, doc))
                           /\ f.resolved = Gone(ImagesOf(f.name, doc), f.at - 1)
  /\ f.stage = "external" => /\ f.at - 1 <= Len(loaded)
                             /\ f.resolved = ToSet(ImagesOf(f.name, doc)) \cup Gone(loaded, f.at - 1)
ResolvedSoFar == \A i \in DOMAIN frames : FrameResolved(frames[i], input.document, loads)

\* The provider is asked for the references of the input's own document in order.
RootFollows(root, loaded) ==
  /\ root.stage # "external" => loaded = <<>>
  /\ root.stage = "external" =>
       /\ Len(loaded) <= root.at
       /\ \A k \in DOMAIN loaded : loaded[k] = root.external[k]
       /\ Len(loaded) = root.at => root.at <= Len(root.external)
LoadsFollow == /\ frames = <<>> => loads = <<>>
               /\ frames # <<>> => RootFollows(frames[Len(frames)], loads)

\* The budget is charged from the census of the input's own document on.
BudgetStart ==
  frames = <<>> \/ frames[Len(frames)].stage = "census"
    => budget.elements = 0 /\ budget.references = 0

\* A tree is built of the input's own document when all is resolved.
AtPaint == stage = "paint" => /\ Len(frames) = 1 /\ frames[1].stage = "external"
                              /\ Len(loads) = frames[1].at - 1

FrameInv == FramesTyped /\ Chain /\ ResolvedSoFar /\ LoadsFollow
IngestInv == /\ SharedTyped /\ InflationBounded
             /\ FrameInv /\ BudgetStart /\ AtPaint

-----------------------------------------------------------------------------
(* Documents and sequences                                                 *)

\* Of what every document is made.
LEMMA DocumentsTyped ==
  ASSUME input \in Inputs, NEW name \in Names
  PROVE  /\ Document(name) \in Documents
         /\ ImagesOf(name, input.document) = DataImages(Document(name))
         /\ ImagesOf(name, input.document) \in Seq(DOMAIN Resources)
         /\ Shown(Document(name)) \in Seq(DOMAIN Resources)
         /\ Document(name).size \in Nat /\ Document(name).paints \in Nat
<1>1. Document(name) \in Documents
  BY DEF Document, Documents, Names
<1>2. ImagesOf(name, input.document) = DataImages(Document(name))
  BY DEF ImagesOf, Document
<1>3. QED
  BY <1>1, <1>2, DocumentsAssumption

\* A frame that goes on is a frame.
Counting(f, counts, list) == [f EXCEPT !.at = f.at + 1, !.counts = counts, !.external = list]
Turning(f, to) == [f EXCEPT !.stage = to, !.at = 1]

LEMMA FrameAt ==
  ASSUME NEW list, NEW f \in FrameWith(list)
  PROVE  f.at + 1 \in Nat \ {0} /\ f.resolved \in SUBSET DOMAIN Resources
<1>1. f.at \in Nat \ {0} /\ f.resolved \in SUBSET DOMAIN Resources
  BY DEF FrameWith
<1>2. QED
  BY <1>1

LEMMA FrameCounts ==
  ASSUME NEW f, FrameTyped(f), NEW counts \in Counts, NEW list
  PROVE  /\ Counting(f, counts, list).external = list
         /\ Counting(f, counts, list) \in FrameWith(list)
<1>1. PICK old : f \in FrameWith(old)
  BY DEF FrameTyped
<1>2. ASSUME NEW at \in Nat \ {0}
      PROVE  [f EXCEPT !.at = at, !.counts = counts, !.external = list] \in FrameWith(list)
  BY <1>1 DEF FrameWith
<1>3. Counting(f, counts, list) \in FrameWith(list)
  BY <1>1, <1>2, FrameAt DEF Counting
<1>4. QED
  BY <1>3 DEF FrameWith

LEMMA FrameStarts ==
  ASSUME NEW list, NEW f \in FrameWith(list), NEW to \in {"census", "images", "external"},
         NEW at \in Nat \ {0}
  PROVE  [f EXCEPT !.stage = to, !.at = at] \in FrameWith(list)
BY DEF FrameWith

LEMMA FrameTurns ==
  ASSUME NEW f, FrameTyped(f), NEW to \in {"images", "external"}
  PROVE  FrameTyped(Turning(f, to))
<1>1. f \in FrameWith(f.external)
  BY DEF FrameTyped
<1>2. to \in {"census", "images", "external"} /\ 1 \in Nat \ {0}
  OBVIOUS
<1>t. Turning(f, to) \in FrameWith(f.external)
  BY <1>1, <1>2, FrameStarts, Zenon DEF Turning
<1>3. Turning(f, to).external = f.external
  BY <1>t DEF FrameWith
<1>4. QED
  BY <1>t, <1>3 DEF FrameTyped

LEMMA FrameKeeps ==
  ASSUME NEW f, FrameTyped(f), NEW name \in DOMAIN Resources
  PROVE  FrameTyped(KeepTree(f, name))
<1>1. f \in FrameWith(f.external)
  BY DEF FrameTyped
<1>2. ASSUME NEW at \in Nat \ {0}, NEW more \in SUBSET DOMAIN Resources
      PROVE  [f EXCEPT !.at = at, !.resolved = more] \in FrameWith(f.external)
  BY <1>1 DEF FrameWith
<1>3. f.at + 1 \in Nat \ {0} /\ f.resolved \cup {name} \in SUBSET DOMAIN Resources
  BY <1>1, FrameAt
<1>4. KeepTree(f, name) \in FrameWith(f.external)
  BY <1>2, <1>3 DEF KeepTree
<1>5. KeepTree(f, name).external = f.external
  BY <1>4 DEF FrameWith
<1>6. QED
  BY <1>4, <1>5 DEF FrameTyped

LEMMA CountsGrow ==
  ASSUME NEW c \in Counts, NEW node, node.attributes \in Nat, node.text \in Nat,
         Len(node.refs) \in Nat
  PROVE  Counted(c, node) \in Counts
<1>1. /\ c.elements \in Nat /\ c.attributes \in Nat /\ c.text \in Nat
      /\ c.references \in Nat /\ c.images \in Nat
  BY DEF Counts
<1>2. /\ c.elements + (IF node.tag \in {"text", "style"} THEN 0 ELSE 1) \in Nat
      /\ c.images + (IF node.tag = "image" THEN 1 ELSE 0) \in Nat
  BY <1>1
<1>3. c.attributes + node.attributes \in Nat /\ c.text + node.text \in Nat
  BY <1>1
<1>4. c.references + Len(node.refs) \in Nat
  BY <1>1
<1>5. QED
  BY <1>2, <1>3, <1>4 DEF Counted, Counts

LEMMA SelfTyped == ASSUME NEW S, NEW s \in Seq(S) PROVE s \in Seq(ToSet(s))
BY DEF ToSet

\* The steps that change the frames: at the first, before it, at the second.
Replacing(s, x) == <<x>> \o Tail(s)
Pushing(s, x)   == <<x>> \o s
Popping(s, x)   == <<x>> \o Tail(Tail(s))

LEMMA Replaced ==
  ASSUME NEW s, s \in Seq(ToSet(s)), s # <<>>, NEW x, NEW t, t = Replacing(s, x)
  PROVE  /\ t \in Seq(ToSet(t)) /\ Len(t) = Len(s) /\ DOMAIN t = DOMAIN s
         /\ t[1] = x /\ \A i \in DOMAIN s : i # 1 => t[i] = s[i]
<1> DEFINE T == ToSet(s) \cup {x}
<1>t. t = <<x>> \o Tail(s)
  BY DEF Replacing
<1>1. s \in Seq(T) /\ x \in T
  OBVIOUS
<1>2. Tail(s) \in Seq(T) /\ <<x>> \in Seq(T)
  BY <1>1
<1>3. t \in Seq(T)
  BY <1>t, <1>2
<1>4. Len(t) = Len(s) /\ DOMAIN t = DOMAIN s /\ t[1] = x
  BY <1>t, <1>1, <1>2
<1>5. \A i \in DOMAIN s : i # 1 => t[i] = s[i]
  BY <1>t, <1>1, <1>2
<1>6. QED
  BY <1>3, <1>4, <1>5, SelfTyped

LEMMA Pushed ==
  ASSUME NEW s, s \in Seq(ToSet(s)), NEW x, NEW t, t = Pushing(s, x)
  PROVE  /\ t \in Seq(ToSet(t)) /\ Len(t) = Len(s) + 1
         /\ t[1] = x /\ \A i \in DOMAIN t : i # 1 => i - 1 \in DOMAIN s /\ t[i] = s[i - 1]
<1> DEFINE T == ToSet(s) \cup {x}
<1>t. t = <<x>> \o s
  BY DEF Pushing
<1>1. s \in Seq(T) /\ <<x>> \in Seq(T)
  OBVIOUS
<1>2. t \in Seq(T)
  BY <1>t, <1>1
<1>3. Len(t) = Len(s) + 1 /\ t[1] = x
  BY <1>t, <1>1
<1>4. \A i \in DOMAIN t : i # 1 => i - 1 \in DOMAIN s /\ t[i] = s[i - 1]
  BY <1>t, <1>1, <1>2, <1>3
<1>5. QED
  BY <1>2, <1>3, <1>4, SelfTyped

LEMMA Popped ==
  ASSUME NEW s, s \in Seq(ToSet(s)), Len(s) > 1,
         NEW x, NEW t, t = Popping(s, x)
  PROVE  /\ t \in Seq(ToSet(t)) /\ Len(t) = Len(s) - 1
         /\ t[1] = x /\ \A i \in DOMAIN t : i # 1 => t[i] = s[i + 1]
<1> DEFINE r == Tail(s)
<1>t. t = <<x>> \o Tail(r)
  BY DEF Popping
<1>1. r \in Seq(ToSet(s)) /\ Len(r) = Len(s) - 1
  OBVIOUS
<1>2. r # <<>>
  <2>1. Len(r) # 0 /\ Len(<<>>) = 0
    BY <1>1
  <2>2. QED
    BY <2>1
<1>3. \A i \in DOMAIN r : r[i] = s[i + 1]
  OBVIOUS
<1> HIDE DEF r
<1>4. \E T : r \in Seq(T) /\ x \in T
  <2>1. r \in Seq(ToSet(s) \cup {x}) /\ x \in ToSet(s) \cup {x}
    BY <1>1
  <2>2. QED
    BY <2>1
<1>5. PICK T : r \in Seq(T) /\ x \in T
  BY <1>4
<1>6. /\ t \in Seq(T) /\ Len(t) = Len(r)
      /\ t[1] = x /\ \A i \in DOMAIN r : i # 1 => t[i] = r[i]
  BY ONLY <1>2, <1>5, <1>t
<1>7. t \in Seq(ToSet(t))
  BY ONLY <1>6, SelfTyped
<1>8. DOMAIN t = 1 .. Len(t) /\ DOMAIN r = 1 .. Len(r)
  BY ONLY <1>5, <1>6
<1>9. \A i \in DOMAIN t : i # 1 => t[i] = s[i + 1]
  BY ONLY <1>3, <1>6, <1>8
<1>10. QED
  BY <1>1, <1>6, <1>7, <1>9

-----------------------------------------------------------------------------
(* Initial states                                                          *)

LEMMA IngestInit == Init => IngestInv
<1> SUFFICES ASSUME Init PROVE IngestInv
  OBVIOUS
<1>1. SharedTyped
  <2>1. /\ input \in Inputs /\ inflated \in 0 .. input.inflated
        /\ stage = "check" /\ outcome = "none" /\ cancelled = FALSE
    BY NumbersAssumption DEF Init
  <2>2. budget \in [bytes : 0 .. Limits.resources, elements : 0 .. Limits.elements,
                    references : 0 .. Limits.references]
    BY NumbersAssumption DEF Init
  <2>3. paint \in [count : 0 .. Limits.paintNodes, trees : Seq(Names)] /\ loads \in Seq(LegalPaths)
    BY NumbersAssumption DEF Init
  <2>4. QED
    BY <2>1, <2>2, <2>3 DEF SharedTyped, Outcomes
<1>5. InflationBounded
  <2>1. inflated = 0 /\ input.size \in Nat /\ Limits.expansionRatio \in Nat
    BY NumbersAssumption DEF Init
  <2>2. input.size * Limits.expansionRatio \in Nat
    BY <2>1
  <2>3. QED
    BY <2>1, <2>2, NumbersAssumption DEF InflationBounded
<1>2. FramesTyped /\ Chain /\ ResolvedSoFar
  BY NumbersAssumption DEF Init, FramesTyped, Chain, ResolvedSoFar
<1>3. LoadsFollow /\ BudgetStart /\ AtPaint
  BY DEF Init, LoadsFollow, BudgetStart, AtPaint
<1>4. QED
  BY <1>1, <1>2, <1>3, <1>5 DEF IngestInv, FrameInv

-----------------------------------------------------------------------------
(* Steps and what they touch                                               *)

\* A step that touches no frame and enters no stage of the documents.
LEMMA QuietKeeps ==
  ASSUME IngestInv, UNCHANGED <<input, frames, loads, budget>>,
         stage' \in {"documents", "paint"} => stage' = stage,
         stage' \in {"check", "inflate", "parse"} => stage \in {"check", "inflate", "parse"}
  PROVE  FrameInv' /\ BudgetStart' /\ AtPaint'
<1> USE DEF IngestInv, FrameInv
<1>1. FramesTyped' /\ ResolvedSoFar'
  BY DEF FramesTyped, ResolvedSoFar
<1>2. Chain'
  BY DEF Chain
<1>3. LoadsFollow' /\ BudgetStart' /\ AtPaint'
  BY DEF LoadsFollow, BudgetStart, AtPaint
<1>4. QED
  BY <1>1, <1>2, <1>3

\* The frame at work, in the stage of the documents.
LEMMA TopTyped ==
  ASSUME IngestInv, stage = "documents"
  PROVE  /\ Len(frames) \in Nat \ {0} /\ DOMAIN frames = 1 .. Len(frames)
         /\ frames # <<>> /\ Top = frames[1] /\ FrameTyped(Top) /\ Top.name \in Names
         /\ Top.at \in Nat \ {0} /\ WithinDocument(Top.counts)
         /\ Top.depth = Len(frames) - 1 /\ (Top.name = Root <=> Len(frames) = 1)
         /\ Top.stage = "external" => Len(frames) = 1
         /\ FrameResolved(Top, input.document, loads)
         /\ Len(frames) = 1 => RootFollows(Top, loads)
<1>1. frames \in Seq(ToSet(frames)) /\ frames # <<>>
  BY DEF IngestInv, FrameInv, FramesTyped, Chain
<1>2. Len(frames) \in Nat \ {0} /\ DOMAIN frames = 1 .. Len(frames) /\ Top = frames[1]
  BY <1>1 DEF Top
<1>3. FrameTyped(Top) /\ WithinDocument(Top.counts)
  BY <1>2 DEF IngestInv, FrameInv, FramesTyped
<1>4. Top.name \in Names /\ Top.at \in Nat \ {0}
  BY <1>3 DEF FrameTyped, FrameWith
<1>5. /\ Top.depth = Len(frames) - 1 /\ (Top.name = Root <=> Len(frames) = 1)
      /\ Top.stage = "external" => Len(frames) = 1
  BY <1>2 DEF IngestInv, FrameInv, Chain
<1>6. /\ FrameResolved(Top, input.document, loads)
      /\ Len(frames) = 1 => RootFollows(Top, loads)
  BY <1>1, <1>2 DEF IngestInv, FrameInv, ResolvedSoFar, LoadsFollow
<1>7. QED
  BY <1>1, <1>2, <1>3, <1>4, <1>5, <1>6

\* The frame at work goes on.
LEMMA TopUpdated ==
  ASSUME IngestInv, stage = "documents", NEW f, Update(f),
         FrameTyped(f), WithinDocument(f.counts), f.name = Top.name, f.depth = Top.depth,
         f.stage = "external" => Len(frames) = 1,
         FrameResolved(f, input.document, loads), Len(frames) = 1 => RootFollows(f, loads)
  PROVE  FrameInv' /\ AtPaint'
<1>1. frames \in Seq(ToSet(frames)) /\ frames # <<>>
  BY DEF IngestInv, FrameInv, FramesTyped, Chain
<1>2. /\ frames' \in Seq(ToSet(frames')) /\ Len(frames') = Len(frames)
      /\ DOMAIN frames' = DOMAIN frames
      /\ frames'[1] = f /\ \A i \in DOMAIN frames : i # 1 => frames'[i] = frames[i]
  <2>1. frames' = Replacing(frames, f)
    BY DEF Update, Rest, Replacing
  <2>2. QED
    BY <1>1, <2>1, Replaced
<1>3. /\ Len(frames) \in Nat \ {0} /\ DOMAIN frames = 1 .. Len(frames) /\ Top = frames[1]
  BY TopTyped
<1>4. UNCHANGED <<input, stage, loads>>
  BY DEF Update
<1>5. FramesTyped'
  <2>1. \A i \in DOMAIN frames : FrameTyped(frames'[i]) /\ WithinDocument(frames'[i].counts)
    BY <1>2 DEF IngestInv, FrameInv, FramesTyped
  <2>2. QED
    BY <1>2, <2>1 DEF FramesTyped, FrameTyped, WithinDocument
<1>6. Chain'
  <2>1. \A i \in DOMAIN frames : /\ frames'[i].depth = frames[i].depth
                                 /\ frames'[i].name = frames[i].name
    BY <1>2, <1>3
  <2>2. \A i \in DOMAIN frames : frames'[i].stage = "external" => i = Len(frames)
    BY <1>2, <1>3 DEF IngestInv, FrameInv, Chain
  <2>3. \A i \in DOMAIN frames : i > 1 =>
          /\ frames'[i] = frames[i] /\ frames'[i - 1].name = frames[i - 1].name
    BY <1>2, <1>3, <2>1
  <2>4. QED
    BY <1>2, <1>3, <1>4, <2>1, <2>2, <2>3 DEF IngestInv, FrameInv, Chain
<1>7. ResolvedSoFar'
  <2>1. \A i \in DOMAIN frames : FrameResolved(frames'[i], input.document, loads)
    BY <1>2 DEF IngestInv, FrameInv, ResolvedSoFar
  <2>2. QED
    BY <1>2, <1>4, <2>1 DEF ResolvedSoFar
<1>8. LoadsFollow'
  <2>1. RootFollows(frames'[Len(frames)], loads)
    BY <1>1, <1>2, <1>3 DEF IngestInv, FrameInv, LoadsFollow
  <2>2. frames' # <<>>
    BY <1>2, <1>3
  <2>3. QED
    BY <1>2, <1>4, <2>1, <2>2 DEF LoadsFollow
<1>9. AtPaint'
  BY <1>4 DEF AtPaint
<1>10. QED
  BY <1>5, <1>6, <1>7, <1>8, <1>9 DEF FrameInv

-----------------------------------------------------------------------------
(* Steps of the documents                                                  *)

LEMMA CountedTyped ==
  ASSUME IngestInv, InCensus
  PROVE  Counted(Top.counts, Document(Top.name).nodes[Top.at]) \in Counts
<1>1. stage = "documents" /\ Top.at <= Len(Document(Top.name).nodes)
  BY DEF InCensus, InStage
<1>2. Top.name \in Names /\ Top.at \in Nat \ {0} /\ FrameTyped(Top)
  BY <1>1, TopTyped
<1>3. Document(Top.name) \in Documents
  BY <1>2, DocumentsTyped DEF IngestInv, SharedTyped
<1> DEFINE nodes == Document(Top.name).nodes
           node  == nodes[Top.at]
<1>4. nodes \in Seq(ToSet(nodes))
  BY <1>3, DocumentsAssumption
<1>5. Top.at \in DOMAIN nodes
  BY <1>1, <1>2, <1>4
<1>6. node \in ToSet(nodes)
  BY <1>5 DEF ToSet
<1>7. {node.attributes, node.text} \subseteq Nat /\ node.refs \in Seq(ToSet(node.refs))
  BY <1>3, <1>6, DocumentsAssumption
<1>8. Len(node.refs) \in Nat
  BY <1>7
<1>9. Top.counts \in Counts
  BY <1>2 DEF FrameTyped, FrameWith
<1> HIDE DEF node
<1>10. Counted(Top.counts, node) \in Counts
  BY <1>7, <1>8, <1>9, CountsGrow
<1>11. QED
  BY <1>10 DEF node

LEMMA CensusKeeps ==
  ASSUME IngestInv, InCensus, NEW list, Bounded(Document(Top.name).nodes[Top.at]),
         NEW counts \in Counts, WithinDocument(counts),
         Update(Counting(Top, counts, list))
  PROVE  FrameInv' /\ AtPaint'
<1> DEFINE f == Counting(Top, counts, list)
<1>1. stage = "documents" /\ Top.stage = "census"
  BY DEF InCensus, InStage
<1>2. FrameTyped(Top) /\ Top.at \in Nat \ {0} /\ FrameResolved(Top, input.document, loads)
      /\ (Len(frames) = 1 => RootFollows(Top, loads))
  BY <1>1, TopTyped
<1>3. /\ f.name = Top.name /\ f.depth = Top.depth /\ f.stage = "census"
      /\ f.counts = counts /\ f.resolved = Top.resolved
  BY <1>1, <1>2 DEF FrameTyped, FrameWith, Counting
<1>t. FrameTyped(f)
  <2>1. f \in FrameWith(list) /\ f.external = list
    BY <1>2, FrameCounts
  <2>2. QED
    BY <2>1 DEF FrameTyped
<1>4. FrameResolved(f, input.document, loads) /\ (Len(frames) = 1 => RootFollows(f, loads))
  BY <1>1, <1>2, <1>3 DEF FrameResolved, RootFollows
<1> HIDE DEF f
<1>5. Update(f) /\ f.stage # "external" /\ WithinDocument(f.counts)
  BY <1>3 DEF f
<1>6. QED
  BY <1>1, <1>t, <1>3, <1>4, <1>5, TopUpdated

LEMMA AdmitKeeps ==
  ASSUME IngestInv, InStage("census"), Update(Turning(Top, "images"))
  PROVE  FrameInv' /\ AtPaint'
<1> DEFINE f == Turning(Top, "images")
<1>1. stage = "documents" /\ Top.stage = "census"
  BY DEF InStage
<1>2. /\ FrameTyped(Top) /\ FrameResolved(Top, input.document, loads)
      /\ WithinDocument(Top.counts) /\ (Len(frames) = 1 => RootFollows(Top, loads))
      /\ Top.name \in Names
  BY <1>1, TopTyped
<1>3. /\ f.name = Top.name /\ f.depth = Top.depth /\ f.stage = "images" /\ f.at = 1
      /\ f.counts = Top.counts /\ f.resolved = Top.resolved
  BY <1>1, <1>2 DEF FrameTyped, FrameWith, Turning
<1>t. FrameTyped(f)
  BY <1>2, FrameTurns
<1>4. Len(ImagesOf(f.name, input.document)) \in Nat
  BY <1>2, <1>3, DocumentsTyped DEF IngestInv, SharedTyped
<1>5. FrameResolved(f, input.document, loads) /\ (Len(frames) = 1 => RootFollows(f, loads))
  BY <1>1, <1>2, <1>3, <1>4 DEF FrameResolved, RootFollows, Gone
<1> HIDE DEF f
<1>6. Update(f) /\ f.stage # "external" /\ WithinDocument(f.counts)
  BY <1>2, <1>3 DEF f
<1>7. QED
  BY <1>1, <1>t, <1>3, <1>5, <1>6, TopUpdated

LEMMA BeginExternalKeeps ==
  ASSUME IngestInv, ImagesDone, Top.name = Root, Update(Turning(Top, "external"))
  PROVE  FrameInv' /\ AtPaint'
<1> DEFINE f == Turning(Top, "external")
           images == ImagesOf(Top.name, input.document)
<1>1. stage = "documents" /\ Top.stage = "images" /\ Top.at > Len(DataImages(Document(Top.name)))
  BY DEF ImagesDone, InStage
<1>2. /\ FrameTyped(Top) /\ FrameResolved(Top, input.document, loads)
      /\ WithinDocument(Top.counts) /\ Len(frames) = 1 /\ RootFollows(Top, loads)
      /\ Top.name \in Names /\ Top.at \in Nat \ {0}
  BY <1>1, TopTyped
<1>3. images \in Seq(DOMAIN Resources) /\ images = DataImages(Document(Top.name))
  BY <1>2, DocumentsTyped DEF IngestInv, SharedTyped
<1>4. /\ f.name = Top.name /\ f.depth = Top.depth /\ f.stage = "external" /\ f.at = 1
      /\ f.counts = Top.counts /\ f.resolved = Top.resolved
  BY <1>1, <1>2 DEF FrameTyped, FrameWith, Turning
<1>t. FrameTyped(f)
  BY <1>2, FrameTurns
<1>5. loads = <<>> /\ Len(loads) = 0
  BY <1>1, <1>2 DEF RootFollows
<1>6. f.resolved = ToSet(images)
  <2>1. Top.at - 1 = Len(images) /\ Top.resolved = Gone(images, Top.at - 1)
    BY <1>1, <1>2, <1>3 DEF FrameResolved
  <2>2. DOMAIN images = 1 .. Len(images)
    BY <1>3
  <2>3. QED
    BY <1>4, <2>1, <2>2 DEF Gone, ToSet
<1>7. FrameResolved(f, input.document, loads) /\ RootFollows(f, loads)
  BY <1>4, <1>5, <1>6 DEF FrameResolved, RootFollows, Gone
<1> HIDE DEF f
<1>8. Update(f) /\ WithinDocument(f.counts)
  BY <1>2, <1>4 DEF f
<1>9. QED
  BY <1>1, <1>t, <1>2, <1>4, <1>7, <1>8, TopUpdated

-----------------------------------------------------------------------------
(* Images and nested documents                                             *)

\* What the frame at work has reached, and what a frame is that keeps it.
Reached(f, doc, loaded, name) ==
  /\ f.stage # "census" /\ f.at <= Len(Awaited(f, doc, loaded))
  /\ name = Awaited(f, doc, loaded)[f.at]

LEMMA KeptFields ==
  ASSUME NEW f, FrameTyped(f), NEW name \in DOMAIN Resources
  PROVE  LET kept == KeepTree(f, name)
         IN /\ kept.name = f.name /\ kept.depth = f.depth /\ kept.stage = f.stage
            /\ kept.counts = f.counts /\ kept.external = f.external
            /\ kept.at = f.at + 1 /\ kept.resolved = f.resolved \cup {name}
BY DEF FrameTyped, FrameWith, KeepTree

LEMMA GoneNext ==
  ASSUME NEW s, NEW n \in Nat \ {0}
  PROVE  Gone(s, n) = Gone(s, n - 1) \cup {s[n]}
<1>1. 1 .. n = (1 .. (n - 1)) \cup {n}
  OBVIOUS
<1>2. QED
  BY <1>1 DEF Gone

LEMMA KeptResolves ==
  ASSUME NEW f, FrameTyped(f), NEW name \in DOMAIN Resources, NEW doc, NEW loaded,
         Reached(f, doc, loaded, name), FrameResolved(f, doc, loaded)
  PROVE  FrameResolved(KeepTree(f, name), doc, loaded)
<1> DEFINE kept == KeepTree(f, name)
<1>1. /\ kept.name = f.name /\ kept.stage = f.stage
      /\ kept.at = f.at + 1 /\ kept.resolved = f.resolved \cup {name}
  BY KeptFields
<1>2. f.at \in Nat \ {0}
  BY DEF FrameTyped, FrameWith
<1> HIDE DEF kept
<1>3. kept.at - 1 = f.at
  BY <1>1, <1>2
<1>4. CASE f.stage = "images"
  <2>1. f.at <= Len(ImagesOf(f.name, doc)) /\ name = ImagesOf(f.name, doc)[f.at]
    BY <1>4 DEF Reached, Awaited
  <2>2. f.resolved \cup {name} = Gone(ImagesOf(f.name, doc), f.at)
    BY <1>2, <1>4, <2>1, GoneNext DEF FrameResolved
  <2>3. QED
    BY <1>1, <1>3, <1>4, <2>1, <2>2 DEF FrameResolved, kept
<1>5. CASE f.stage = "external"
  <2>1. f.at <= Len(loaded) /\ name = loaded[f.at]
    BY <1>5 DEF Reached, Awaited
  <2>2. f.resolved = ToSet(ImagesOf(f.name, doc)) \cup Gone(loaded, f.at - 1)
    BY <1>5 DEF FrameResolved
  <2>3. Gone(loaded, f.at) = Gone(loaded, f.at - 1) \cup {name}
    BY <1>2, <2>1, GoneNext
  <2>4. f.resolved \cup {name} = ToSet(ImagesOf(f.name, doc)) \cup Gone(loaded, f.at)
    BY <2>2, <2>3
  <2>5. QED
    BY <1>1, <1>3, <1>5, <2>1, <2>4 DEF FrameResolved, kept
<1>6. f.stage \in {"census", "images", "external"}
  BY DEF FrameTyped, FrameWith
<1>7. QED
  BY <1>4, <1>5, <1>6 DEF Reached

LEMMA KeptFollows ==
  ASSUME NEW f, FrameTyped(f), NEW name \in DOMAIN Resources, NEW doc,
         NEW loaded \in Seq(LegalPaths), Reached(f, doc, loaded, name), RootFollows(f, loaded)
  PROVE  RootFollows(KeepTree(f, name), loaded)
<1> DEFINE kept == KeepTree(f, name)
<1>1. kept.stage = f.stage /\ kept.at = f.at + 1 /\ kept.external = f.external
  BY KeptFields
<1>2. f.at \in Nat \ {0} /\ Len(loaded) \in Nat
  BY DEF FrameTyped, FrameWith
<1> HIDE DEF kept
<1>3. f.stage = "external" => Len(loaded) = f.at
  BY <1>2 DEF Reached, Awaited, RootFollows
<1>4. RootFollows(kept, loaded)
  BY <1>1, <1>2, <1>3 DEF RootFollows
<1>5. QED
  BY <1>4 DEF kept

\* A raster image becomes one of the document at work at once.
LEMMA RasterKeeps ==
  ASSUME IngestInv, stage = "documents", NEW name \in DOMAIN Resources,
         Reached(Top, input.document, loads, name), Update(KeepTree(Top, name))
  PROVE  FrameInv' /\ AtPaint'
<1> DEFINE kept == KeepTree(Top, name)
<1>1. /\ FrameTyped(Top) /\ WithinDocument(Top.counts)
      /\ Top.stage = "external" => Len(frames) = 1
      /\ FrameResolved(Top, input.document, loads)
      /\ Len(frames) = 1 => RootFollows(Top, loads)
  BY TopTyped
<1>2. /\ kept.name = Top.name /\ kept.depth = Top.depth /\ kept.stage = Top.stage
      /\ kept.counts = Top.counts
  BY <1>1, KeptFields
<1>3. FrameTyped(kept) /\ FrameResolved(kept, input.document, loads)
  BY <1>1, FrameKeeps, KeptResolves
<1>4. loads \in Seq(LegalPaths)
  BY DEF IngestInv, SharedTyped
<1>5. Len(frames) = 1 => RootFollows(kept, loads)
  BY <1>1, <1>4, KeptFollows
<1> HIDE DEF kept
<1>6. Update(kept) /\ WithinDocument(kept.counts)
  BY <1>1, <1>2 DEF kept
<1>7. QED
  BY <1>1, <1>2, <1>3, <1>5, <1>6, TopUpdated

\* A nested document is begun: the one at work waits for it.
LEMMA SvgKeeps ==
  ASSUME IngestInv, stage = "documents", NEW name \in DOMAIN Resources,
         Reached(Top, input.document, loads, name), Nestable(Resources[name]),
         frames' = <<Frame(name, NestedDepth)>> \o frames, UNCHANGED <<input, stage, loads>>
  PROVE  FrameInv' /\ AtPaint'
<1> DEFINE f == Frame(name, NestedDepth)
<1>1. /\ Len(frames) \in Nat \ {0} /\ DOMAIN frames = 1 .. Len(frames)
      /\ frames # <<>> /\ Top = frames[1] /\ Top.depth = Len(frames) - 1
      /\ Top.stage = "external" => Len(frames) = 1
  BY TopTyped
<1>2. Top.stage \in {"images", "external"}
  <2>1. Top.stage \in {"census", "images", "external"}
    BY TopTyped DEF FrameTyped, FrameWith
  <2>2. QED
    BY <2>1 DEF Reached
<1>3. NestedDepth = Len(frames)
  <2>1. CASE Top.stage = "images"
    BY <1>1, <2>1 DEF NestedDepth
  <2>2. CASE Top.stage = "external"
    BY <1>1, <2>2 DEF NestedDepth
  <2>3. QED
    BY <1>2, <2>1, <2>2
<1>4. /\ f.name = name /\ f.depth = Len(frames) /\ f.stage = "census"
      /\ f.counts = NoCounts /\ f.resolved = {} /\ f.external = <<>> /\ f.at = 1
  BY <1>3 DEF Frame
<1>5. FrameTyped(f)
  BY <1>1, <1>3 DEF FrameTyped, FrameWith, Frame, NoCounts, Counts, Names
<1>6. WithinDocument(f.counts)
  BY <1>4, NumbersAssumption DEF NoCounts, WithinDocument
<1> HIDE DEF f
<1>7. frames \in Seq(ToSet(frames))
  BY DEF IngestInv, FrameInv, FramesTyped
<1>8. /\ frames' \in Seq(ToSet(frames')) /\ Len(frames') = Len(frames) + 1
      /\ frames'[1] = f
      /\ \A i \in DOMAIN frames' : i # 1 => i - 1 \in DOMAIN frames /\ frames'[i] = frames[i - 1]
  <2>1. frames' = Pushing(frames, f)
    BY DEF Pushing, f
  <2>2. QED
    BY ONLY <1>7, <2>1, Pushed
<1>9. DOMAIN frames' = 1 .. (Len(frames) + 1)
  BY <1>8
<1>10. FramesTyped'
  <2>1. \A i \in DOMAIN frames' : FrameTyped(frames'[i]) /\ WithinDocument(frames'[i].counts)
    BY <1>5, <1>6, <1>8 DEF IngestInv, FrameInv, FramesTyped
  <2>2. QED
    BY <1>8, <2>1 DEF FramesTyped, FrameTyped, WithinDocument
<1>11. name # Root
  BY DocumentsAssumption
<1>12. Chain'
  <2>1. Len(frames') <= Limits.nestedDepth + 1 /\ input'.nested
    BY <1>1, <1>3, <1>8, NumbersAssumption DEF Nestable
  <2>2. \A i \in DOMAIN frames' :
          /\ frames'[i].depth = Len(frames') - i
          /\ frames'[i].name = Root <=> i = Len(frames')
          /\ frames'[i].stage = "external" => i = Len(frames')
    <3> SUFFICES ASSUME NEW i \in DOMAIN frames'
                 PROVE  /\ frames'[i].depth = Len(frames') - i
                        /\ frames'[i].name = Root <=> i = Len(frames')
                        /\ frames'[i].stage = "external" => i = Len(frames')
      OBVIOUS
    <3>1. CASE i = 1
      BY <1>1, <1>4, <1>8, <1>9, <1>11, <3>1
    <3>2. CASE i # 1
      <4>1. i - 1 \in DOMAIN frames /\ frames'[i] = frames[i - 1] /\ i \in Nat
        BY <1>8, <1>9, <3>2
      <4>2. /\ frames[i - 1].depth = Len(frames) - (i - 1)
            /\ frames[i - 1].name = Root <=> i - 1 = Len(frames)
            /\ frames[i - 1].stage = "external" => i - 1 = Len(frames)
        BY <4>1 DEF IngestInv, FrameInv, Chain
      <4>3. QED
        BY <1>1, <1>8, <4>1, <4>2
    <3>3. QED
      BY <3>1, <3>2
  <2>3. \A i \in DOMAIN frames' : i > 1 =>
          Reached(frames'[i], input.document, loads, frames'[i - 1].name)
    <3> SUFFICES ASSUME NEW i \in DOMAIN frames', i > 1
                 PROVE  Reached(frames'[i], input.document, loads, frames'[i - 1].name)
      OBVIOUS
    <3>1. CASE i = 2
      <4>1. frames'[2] = Top /\ frames'[1].name = name
        BY <1>1, <1>4, <1>8, <1>9, <3>1
      <4>2. QED
        BY <3>1, <4>1
    <3>2. CASE i # 2
      <4>1. /\ i \in Nat /\ i - 1 \in DOMAIN frames /\ frames'[i] = frames[i - 1]
            /\ i - 1 > 1 /\ i - 1 \in DOMAIN frames' /\ i - 1 # 1
        BY <1>1, <1>8, <1>9, <3>2
      <4>2. frames'[i - 1] = frames[(i - 1) - 1]
        BY <1>8, <4>1
      <4>3. Reached(frames[i - 1], input.document, loads, frames[(i - 1) - 1].name)
        BY <4>1 DEF IngestInv, FrameInv, Chain, Reached
      <4>4. QED
        BY <4>1, <4>2, <4>3
    <3>3. QED
      BY <3>1, <3>2
  <2>4. frames' # <<>> /\ stage' = "documents"
    <3>1. Len(frames') # 0 /\ Len(<<>>) = 0
      BY <1>1, <1>8
    <3>2. QED
      BY <3>1
  <2>5. QED
    BY <2>1, <2>2, <2>3, <2>4 DEF Chain, Reached
<1>13. ResolvedSoFar'
  <2>1. FrameResolved(f, input.document, loads)
    BY <1>4 DEF FrameResolved
  <2>2. \A i \in DOMAIN frames' : FrameResolved(frames'[i], input.document, loads)
    BY <1>8, <2>1 DEF IngestInv, FrameInv, ResolvedSoFar
  <2>3. QED
    BY <2>2 DEF ResolvedSoFar
<1>14. LoadsFollow'
  <2>1. Len(frames') \in DOMAIN frames' /\ Len(frames') # 1 /\ Len(frames') - 1 = Len(frames)
    BY <1>1, <1>8, <1>9
  <2>2. frames'[Len(frames')] = frames[Len(frames)]
    BY <1>8, <2>1
  <2>3. RootFollows(frames[Len(frames)], loads)
    BY <1>1 DEF IngestInv, FrameInv, LoadsFollow
  <2>4. frames' # <<>>
    <3>1. Len(frames') # 0 /\ Len(<<>>) = 0
      BY <1>1, <1>8
    <3>2. QED
      BY <3>1
  <2>5. QED
    BY <2>2, <2>3, <2>4 DEF LoadsFollow
<1>15. QED
  BY <1>10, <1>12, <1>13, <1>14 DEF FrameInv, AtPaint

\* A nested document returns: the one that waited for it keeps its tree.
LEMMA ReturnKeeps ==
  ASSUME IngestInv, ReturnNested
  PROVE  FrameInv' /\ AtPaint'
<1> DEFINE below == frames[2]
           name == Top.name
           f == KeepTree(below, name)
<1>1. /\ stage = "documents" /\ Len(frames) \in Nat \ {0} /\ DOMAIN frames = 1 .. Len(frames)
      /\ Top = frames[1] /\ name \in Names /\ Len(frames) # 1 /\ name # Root
  BY TopTyped DEF ReturnNested, ImagesDone, InStage
<1>2. Len(frames) > 1 /\ 2 \in DOMAIN frames /\ 1 \in DOMAIN frames /\ name \in DOMAIN Resources
  BY <1>1 DEF Names
<1>3. /\ FrameTyped(below) /\ WithinDocument(below.counts)
      /\ FrameResolved(below, input.document, loads)
  BY <1>2 DEF IngestInv, FrameInv, FramesTyped, ResolvedSoFar
<1>4. /\ below.depth = Len(frames) - 2 /\ (below.name = Root <=> 2 = Len(frames))
      /\ below.stage = "external" => 2 = Len(frames)
      /\ Reached(below, input.document, loads, name)
  BY <1>1, <1>2 DEF IngestInv, FrameInv, Chain, Reached
<1>5. /\ f.name = below.name /\ f.depth = below.depth /\ f.stage = below.stage
      /\ f.counts = below.counts
  BY <1>2, <1>3, KeptFields
<1>6. FrameTyped(f) /\ FrameResolved(f, input.document, loads)
  BY <1>2, <1>3, <1>4, FrameKeeps, KeptResolves
<1>7. Len(frames) = 2 => RootFollows(f, loads)
  <2>1. loads \in Seq(LegalPaths)
    BY DEF IngestInv, SharedTyped
  <2>2. Len(frames) = 2 => RootFollows(below, loads)
    BY <1>1 DEF IngestInv, FrameInv, LoadsFollow, Chain
  <2>3. QED
    BY <1>2, <1>3, <1>4, <2>1, <2>2, KeptFollows
<1>8. frames \in Seq(ToSet(frames))
  BY DEF IngestInv, FrameInv, FramesTyped
<1>9. frames' = Popping(frames, f)
  BY <1>1, <1>2, <1>8 DEF ReturnNested, Popping, Rest, Top
<1> HIDE DEF f, below, name
<1>10. /\ frames' \in Seq(ToSet(frames')) /\ Len(frames') = Len(frames) - 1
       /\ frames'[1] = f /\ \A i \in DOMAIN frames' : i # 1 => frames'[i] = frames[i + 1]
  BY ONLY <1>2, <1>8, <1>9, Popped
<1>11. /\ DOMAIN frames' = 1 .. (Len(frames) - 1)
       /\ \A i \in DOMAIN frames' : i + 1 \in DOMAIN frames
  BY <1>1, <1>10
<1>12. UNCHANGED <<input, stage, loads>>
  BY DEF ReturnNested
<1>13. FramesTyped'
  <2>1. \A i \in DOMAIN frames' : FrameTyped(frames'[i]) /\ WithinDocument(frames'[i].counts)
    BY <1>3, <1>5, <1>6, <1>10, <1>11 DEF IngestInv, FrameInv, FramesTyped
  <2>2. QED
    BY <1>10, <2>1 DEF FramesTyped, FrameTyped, WithinDocument
<1>14. Chain'
  <2>1. Len(frames') <= Limits.nestedDepth + 1 /\ input'.nested
    BY <1>1, <1>2, <1>10, <1>12, NumbersAssumption DEF IngestInv, FrameInv, Chain
  <2>2. \A i \in DOMAIN frames' :
          /\ frames'[i].depth = Len(frames') - i
          /\ frames'[i].name = Root <=> i = Len(frames')
          /\ frames'[i].stage = "external" => i = Len(frames')
    <3> SUFFICES ASSUME NEW i \in DOMAIN frames'
                 PROVE  /\ frames'[i].depth = Len(frames') - i
                        /\ frames'[i].name = Root <=> i = Len(frames')
                        /\ frames'[i].stage = "external" => i = Len(frames')
      OBVIOUS
    <3>1. CASE i = 1
      BY <1>1, <1>4, <1>5, <1>10, <3>1
    <3>2. CASE i # 1
      <4>1. i + 1 \in DOMAIN frames /\ frames'[i] = frames[i + 1] /\ i \in Nat
        BY <1>10, <1>11, <3>2
      <4>2. /\ frames[i + 1].depth = Len(frames) - (i + 1)
            /\ frames[i + 1].name = Root <=> i + 1 = Len(frames)
            /\ frames[i + 1].stage = "external" => i + 1 = Len(frames)
        BY <4>1 DEF IngestInv, FrameInv, Chain
      <4>3. QED
        BY <1>1, <1>10, <4>1, <4>2
    <3>3. QED
      BY <3>1, <3>2
  <2>3. \A i \in DOMAIN frames' : i > 1 =>
          Reached(frames'[i], input.document, loads, frames'[i - 1].name)
    <3> SUFFICES ASSUME NEW i \in DOMAIN frames', i > 1
                 PROVE  Reached(frames'[i], input.document, loads, frames'[i - 1].name)
      OBVIOUS
    <3>1. i \in Nat /\ i + 1 \in DOMAIN frames /\ frames'[i] = frames[i + 1] /\ (i + 1) - 1 = i
      BY <1>10, <1>11
    <3>2. frames'[i - 1].name = frames[i].name
      <4>1. CASE i = 2
        BY <1>5, <1>10, <4>1 DEF below
      <4>2. CASE i # 2
        <5>1. i - 1 \in DOMAIN frames' /\ i - 1 # 1 /\ (i - 1) + 1 = i
          BY <1>1, <1>11, <3>1, <4>2
        <5>2. QED
          BY <1>10, <5>1
      <4>3. QED
        BY <4>1, <4>2
    <3>3. Reached(frames[i + 1], input.document, loads, frames[(i + 1) - 1].name)
      BY <3>1 DEF IngestInv, FrameInv, Chain, Reached
    <3>4. QED
      BY <3>1, <3>2, <3>3
  <2>4. frames' # <<>> /\ stage' = "documents"
    <3>1. Len(frames') # 0 /\ Len(<<>>) = 0
      BY <1>1, <1>2, <1>10
    <3>2. QED
      BY <1>1, <1>12, <3>1
  <2>5. QED
    BY <1>12, <2>1, <2>2, <2>3, <2>4 DEF Chain, Reached
<1>15. ResolvedSoFar'
  <2>1. \A i \in DOMAIN frames' : FrameResolved(frames'[i], input.document, loads)
    BY <1>6, <1>10, <1>11 DEF IngestInv, FrameInv, ResolvedSoFar
  <2>2. QED
    BY <1>12, <2>1 DEF ResolvedSoFar
<1>16. LoadsFollow'
  <2>1. frames' # <<>>
    <3>1. Len(frames') # 0 /\ Len(<<>>) = 0
      BY <1>1, <1>2, <1>10
    <3>2. QED
      BY <3>1
  <2>2. RootFollows(frames'[Len(frames')], loads)
    <3>1. CASE Len(frames) = 2
      BY <1>7, <1>10, <3>1
    <3>2. CASE Len(frames) # 2
      <4>1. Len(frames') \in DOMAIN frames' /\ Len(frames') # 1 /\ Len(frames') + 1 = Len(frames)
        BY <1>1, <1>2, <1>10, <1>11, <3>2
      <4>2. frames'[Len(frames')] = frames[Len(frames)]
        BY <1>10, <4>1
      <4>3. RootFollows(frames[Len(frames)], loads)
        BY <1>1 DEF IngestInv, FrameInv, LoadsFollow, Chain
      <4>4. QED
        BY <4>2, <4>3
    <3>3. QED
      BY <3>1, <3>2
  <2>3. QED
    BY <1>12, <2>1, <2>2 DEF LoadsFollow
<1>17. QED
  BY <1>1, <1>12, <1>13, <1>14, <1>15, <1>16 DEF FrameInv, AtPaint

-----------------------------------------------------------------------------
(* The input's own document begins, loads its files and ends               *)

LEMMA ParseKeeps ==
  ASSUME IngestInv, ParseRoot
  PROVE  FrameInv' /\ BudgetStart' /\ AtPaint'
<1> DEFINE f == Frame(Root, 0)
<1>1. frames = <<>> /\ loads = <<>> /\ frames' = <<f>>
      /\ UNCHANGED <<input, loads, budget>> /\ stage' = "documents"
  BY DEF IngestInv, FrameInv, Chain, LoadsFollow, ParseRoot
<1>2. /\ f.name = Root /\ f.depth = 0 /\ f.stage = "census"
      /\ f.counts = NoCounts /\ f.resolved = {} /\ f.external = <<>> /\ f.at = 1
  BY DEF Frame
<1>3. FrameTyped(f)
  BY DEF FrameTyped, FrameWith, Frame, NoCounts, Counts, Names
<1>4. WithinDocument(f.counts)
  BY <1>2, NumbersAssumption DEF NoCounts, WithinDocument
<1> HIDE DEF f
<1>5. /\ Len(frames') = 1 /\ DOMAIN frames' = {1} /\ frames'[1] = f /\ frames' # <<>>
      /\ frames' \in Seq(ToSet(frames'))
  BY <1>1 DEF ToSet
<1>6. FramesTyped'
  BY <1>3, <1>4, <1>5 DEF FramesTyped, FrameTyped, WithinDocument
<1>7. Chain'
  <2>1. Limits.nestedDepth \in Nat
    BY NumbersAssumption
  <2>2. QED
    BY <1>1, <1>2, <1>5, <2>1 DEF Chain
<1>8. ResolvedSoFar' /\ LoadsFollow'
  BY <1>1, <1>2, <1>5 DEF ResolvedSoFar, LoadsFollow, FrameResolved, RootFollows
<1>9. BudgetStart' /\ AtPaint'
  BY <1>1 DEF IngestInv, BudgetStart, AtPaint
<1>10. QED
  BY <1>6, <1>7, <1>8, <1>9 DEF FrameInv

\* In the stage of the files there is one frame, which has asked for all but at
\* most the next of them.
LEMMA AtExternal ==
  ASSUME IngestInv, InStage("external")
  PROVE  /\ stage = "documents" /\ Len(frames) = 1 /\ DOMAIN frames = {1}
         /\ Top = frames[1] /\ Top.stage = "external" /\ Top.at \in Nat \ {0}
         /\ Len(loads) \in {Top.at - 1, Top.at}
         /\ FrameResolved(Top, input.document, loads) /\ RootFollows(Top, loads)
<1>1. stage = "documents" /\ Top.stage = "external"
  BY DEF InStage
<1>2. /\ Len(frames) = 1 /\ DOMAIN frames = 1 .. Len(frames) /\ Top = frames[1]
      /\ Top.at \in Nat \ {0}
      /\ FrameResolved(Top, input.document, loads) /\ RootFollows(Top, loads)
  BY <1>1, TopTyped
<1>3. Len(loads) \in Nat /\ Top.at - 1 <= Len(loads) /\ Len(loads) <= Top.at
  BY <1>1, <1>2 DEF IngestInv, SharedTyped, FrameResolved, RootFollows
<1>4. QED
  BY <1>1, <1>2, <1>3

LEMMA LoadKeeps ==
  ASSUME IngestInv, AtLoad, Top.external[Top.at] \in LegalPaths,
         loads' = Append(loads, Top.external[Top.at]), UNCHANGED <<input, stage, frames, budget>>
  PROVE  FrameInv' /\ BudgetStart' /\ AtPaint'
<1>1. /\ stage = "documents" /\ Len(frames) = 1 /\ DOMAIN frames = {1}
      /\ Top = frames[1] /\ Top.stage = "external" /\ Top.at \in Nat \ {0}
      /\ FrameResolved(Top, input.document, loads) /\ RootFollows(Top, loads)
      /\ Len(loads) \in {Top.at - 1, Top.at}
  BY AtExternal DEF AtLoad
<1>2. Len(loads) = Top.at - 1 /\ Top.at <= Len(Top.external)
  BY <1>1 DEF AtLoad
<1>3. /\ Len(loads') = Top.at /\ DOMAIN loads' = 1 .. Top.at
      /\ loads'[Top.at] = Top.external[Top.at]
      /\ \A k \in 1 .. (Top.at - 1) : k \in DOMAIN loads /\ loads'[k] = loads[k]
  <2>1. loads \in Seq(LegalPaths)
    BY DEF IngestInv, SharedTyped
  <2>2. QED
    BY <1>1, <1>2, <2>1
<1>4. Gone(loads', Top.at - 1) = Gone(loads, Top.at - 1)
  BY <1>3 DEF Gone
<1>5. FrameResolved(Top, input.document, loads')
  BY <1>1, <1>3, <1>4 DEF FrameResolved
<1>6. RootFollows(Top, loads')
  <2>1. \A k \in 1 .. Top.at : loads'[k] = Top.external[k]
    BY <1>1, <1>3 DEF RootFollows
  <2>2. QED
    BY <1>1, <1>2, <1>3, <2>1 DEF RootFollows
<1>7. FramesTyped'
  BY DEF IngestInv, FrameInv, FramesTyped
<1>8. Chain'
  BY <1>1 DEF IngestInv, FrameInv, Chain
<1>9. ResolvedSoFar' /\ LoadsFollow'
  BY <1>1, <1>5, <1>6 DEF ResolvedSoFar, LoadsFollow, IngestInv, FrameInv, Chain
<1>10. BudgetStart' /\ AtPaint'
  BY <1>1 DEF IngestInv, BudgetStart, AtPaint
<1>11. QED
  BY <1>7, <1>8, <1>9, <1>10 DEF FrameInv

LEMMA BuildKeeps ==
  ASSUME IngestInv, BuildTree
  PROVE  FrameInv' /\ BudgetStart' /\ AtPaint'
<1>1. /\ stage = "documents" /\ Len(frames) = 1 /\ DOMAIN frames = {1}
      /\ Top = frames[1] /\ Top.stage = "external" /\ Top.at \in Nat \ {0}
      /\ RootFollows(Top, loads) /\ Len(loads) \in {Top.at - 1, Top.at}
  BY AtExternal DEF BuildTree, ExternalDone
<1>2. Len(loads) = Top.at - 1
  BY <1>1 DEF BuildTree, ExternalDone, RootFollows
<1>3. UNCHANGED <<input, frames, loads, budget>> /\ stage' = "paint"
  BY DEF BuildTree
<1>4. FramesTyped' /\ ResolvedSoFar' /\ LoadsFollow'
  BY <1>3 DEF IngestInv, FrameInv, FramesTyped, ResolvedSoFar, LoadsFollow
<1>5. Chain'
  BY <1>3 DEF IngestInv, FrameInv, Chain
<1>6. BudgetStart' /\ AtPaint'
  BY <1>1, <1>2, <1>3 DEF IngestInv, BudgetStart, AtPaint
<1>7. QED
  BY <1>4, <1>5, <1>6 DEF FrameInv

-----------------------------------------------------------------------------
(* What the documents share                                                *)

Budgets == [bytes : 0 .. Limits.resources, elements : 0 .. Limits.elements,
            references : 0 .. Limits.references]
PaintStates  == [count : 0 .. Limits.paintNodes, trees : Seq(Names)]

LEMMA StopKeeps ==
  ASSUME IngestInv, NEW why \in Outcomes, Stop(why)
  PROVE  IngestInv'
<1>1. UNCHANGED <<input, frames, loads, budget>> /\ stage' = "ended"
  BY DEF Stop
<1>2. FrameInv' /\ BudgetStart' /\ AtPaint'
  BY <1>1, QuietKeeps
<1>3. SharedTyped'
  <2>1. outcome' = why /\ why # "none" /\ UNCHANGED <<inflated, paint, cancelled>>
    BY DEF Stop, Outcomes
  <2>2. QED
    BY <1>1, <2>1 DEF IngestInv, SharedTyped
<1>4. InflationBounded'
  BY DEF Stop, IngestInv, InflationBounded
<1>5. QED
  BY <1>2, <1>3, <1>4 DEF IngestInv

LEMMA SharedKeeps ==
  ASSUME IngestInv, stage # "ended", UNCHANGED <<input, inflated, outcome, cancelled>>,
         stage' \in {"check", "inflate", "parse", "documents", "paint"},
         budget' \in Budgets, paint' \in PaintStates, loads' \in Seq(LegalPaths)
  PROVE  SharedTyped' /\ InflationBounded'
<1>1. InflationBounded'
  BY DEF IngestInv, InflationBounded
<1>2. outcome = "none"
  BY DEF IngestInv, SharedTyped
<1>3. stage' # "ended" /\ stage' \in {"check", "inflate", "parse", "documents", "paint", "ended"}
  OBVIOUS
<1>4. /\ input' \in Inputs /\ inflated' \in 0 .. input'.inflated
      /\ outcome' = "none" /\ cancelled' \in BOOLEAN
  BY <1>2 DEF IngestInv, SharedTyped
<1>5. /\ budget' \in [bytes : 0 .. Limits.resources, elements : 0 .. Limits.elements,
                      references : 0 .. Limits.references]
      /\ paint' \in [count : 0 .. Limits.paintNodes, trees : Seq(Names)]
  BY DEF Budgets, PaintStates
<1>6. SharedTyped'
  BY <1>3, <1>4, <1>5 DEF SharedTyped
<1>7. QED
  BY <1>1, <1>6

LEMMA SharedIn == ASSUME IngestInv
                  PROVE  /\ budget \in Budgets /\ paint \in PaintStates /\ loads \in Seq(LegalPaths)
                         /\ input \in Inputs /\ loads \in Seq(DOMAIN Resources)
<1>1. /\ budget \in Budgets /\ paint \in PaintStates /\ loads \in Seq(LegalPaths) /\ input \in Inputs
  BY DEF IngestInv, SharedTyped, Budgets, PaintStates
<1>2. QED
  BY <1>1, DocumentsAssumption

\* A step that leaves the shared state as it is, and the frame at work as it was.
LEMMA UpdateKeeps ==
  ASSUME IngestInv, stage = "documents", NEW f, Update(f), budget' \in Budgets
  PROVE  SharedTyped' /\ InflationBounded'
<1>1. UNCHANGED <<input, stage, inflated, loads, paint, outcome, cancelled>>
  BY DEF Update
<1>2. stage' \in {"check", "inflate", "parse", "documents", "paint"} /\ stage # "ended"
  BY <1>1
<1>3. paint' \in PaintStates /\ loads' \in Seq(LegalPaths)
  BY <1>1, SharedIn
<1>4. QED
  BY <1>1, <1>2, <1>3, SharedKeeps

LEMMA BudgetFields ==
  ASSUME NEW b \in Budgets
  PROVE  /\ b.bytes \in Nat /\ b.elements \in Nat /\ b.references \in Nat
         /\ b.elements <= Limits.elements /\ b.references <= Limits.references
BY DEF Budgets

LEMMA BudgetReserves ==
  ASSUME NEW b \in Budgets, NEW bytes \in 0 .. Limits.resources
  PROVE  LET after == [b EXCEPT !.bytes = bytes]
         IN after \in Budgets /\ after.elements = b.elements /\ after.references = b.references
BY DEF Budgets

LEMMA BudgetCharges ==
  ASSUME NEW b \in Budgets, NEW e \in 0 .. Limits.elements, NEW r \in 0 .. Limits.references
  PROVE  [b EXCEPT !.elements = e, !.references = r] \in Budgets
BY DEF Budgets

\* Bytes are reserved in the budget of all.
LEMMA ReserveKeeps ==
  ASSUME IngestInv, NEW name \in DOMAIN Resources, Reservable(Resources[name]),
         budget' = [budget EXCEPT !.bytes = Reserved(Resources[name])]
  PROVE  /\ budget' \in Budgets
         /\ budget'.elements = budget.elements /\ budget'.references = budget.references
<1>1. budget \in Budgets
  BY SharedIn
<1>2. Resources[name].size \in Nat
  BY DocumentsAssumption DEF Documents
<1>3. Reserved(Resources[name]) \in 0 .. Limits.resources
  <2>1. budget.bytes \in Nat /\ Limits.resources \in Nat
    BY <1>1, BudgetFields, NumbersAssumption
  <2>2. QED
    BY <1>2, <2>1 DEF Reservable, Reserved
<1>4. QED
  BY <1>1, <1>3, BudgetReserves

\* Nothing is charged before the census of the input's own document is over.
LEMMA AdmitBudget ==
  ASSUME IngestInv, InStage("census"), CensusOK,
         IF Top.name = Root THEN RootOK ELSE NestedOK
  PROVE  SharedBudget \in Budgets
<1>1. /\ stage = "documents" /\ Top.stage = "census" /\ Top = frames[1] /\ frames # <<>>
      /\ FrameTyped(Top) /\ WithinDocument(Top.counts) /\ (Top.name = Root <=> Len(frames) = 1)
  BY TopTyped DEF InStage
<1>2. Top.counts.elements \in Nat /\ Top.counts.references \in Nat
  BY <1>1 DEF FrameTyped, FrameWith, Counts
<1>3. budget \in Budgets
  BY SharedIn
<1>4. CASE Top.name = Root
  <2>1. budget.elements = 0 /\ budget.references = 0
    BY <1>1, <1>4 DEF IngestInv, BudgetStart
  <2>2. /\ budget.elements + Top.counts.elements \in 0 .. Limits.elements
        /\ budget.references + Top.counts.references \in 0 .. Limits.references
    <3>1. Limits.elements \in Nat /\ Limits.references \in Nat
      BY NumbersAssumption
    <3>2. /\ Top.counts.elements <= Limits.elements
          /\ Top.counts.references <= Limits.references
      BY <1>1 DEF WithinDocument, CensusOK
    <3>3. QED
      BY ONLY <1>2, <2>1, <3>1, <3>2
  <2>3. QED
    BY <1>3, <2>2, BudgetCharges DEF SharedBudget
<1>5. CASE Top.name # Root
  <2>1. /\ SharedBudget.elements = budget.elements + Top.counts.elements
        /\ SharedBudget.references = budget.references + Top.counts.references
    BY <1>3 DEF SharedBudget, Budgets
  <2>2. SharedBudget.elements <= Limits.elements /\ SharedBudget.references <= Limits.references
    BY <1>5 DEF NestedOK
  <2>3. /\ budget.elements + Top.counts.elements \in 0 .. Limits.elements
        /\ budget.references + Top.counts.references \in 0 .. Limits.references
    <3>1. /\ budget.elements \in Nat /\ budget.references \in Nat
          /\ Limits.elements \in Nat /\ Limits.references \in Nat
      BY <1>3, BudgetFields, NumbersAssumption
    <3>2. QED
      BY <1>2, <2>1, <2>2, <3>1
  <2>4. QED
    BY <1>3, <2>3, BudgetCharges DEF SharedBudget
<1>6. QED
  BY <1>4, <1>5

-----------------------------------------------------------------------------
(* Steps                                                                   *)

\* The census is charged, and its images are next.
LEMMA AdmitStep == ASSUME IngestInv, AdmitDocument PROVE IngestInv'
<1>1. CASE CensusOK /\ IF Top.name = Root THEN RootOK ELSE NestedOK
  <2>1. /\ Update(Turning(Top, "images")) /\ budget' = SharedBudget
        /\ InStage("census") /\ stage = "documents"
    BY <1>1 DEF AdmitDocument, Turning, InStage
  <2>2. budget' \in Budgets
    BY <1>1, <2>1, AdmitBudget
  <2>3. FrameInv' /\ AtPaint' /\ SharedTyped' /\ InflationBounded'
    BY <2>1, <2>2, AdmitKeeps, UpdateKeeps
  <2>4. BudgetStart'
    <3> DEFINE f == Turning(Top, "images")
    <3>1. /\ frames \in Seq(ToSet(frames)) /\ frames # <<>>
          /\ DOMAIN frames = 1 .. Len(frames) /\ Len(frames) \in Nat \ {0}
      BY <2>1, TopTyped DEF IngestInv, FrameInv, FramesTyped
    <3>2. frames' = Replacing(frames, f)
      BY <2>1 DEF Update, Rest, Replacing
    <3>3. f.stage = "images"
      <4>1. FrameTyped(Top)
        BY <2>1, TopTyped
      <4>2. QED
        BY <4>1 DEF FrameTyped, FrameWith, Turning
    <3> HIDE DEF f
    <3>4. /\ Len(frames') = Len(frames) /\ frames'[1] = f
          /\ \A i \in DOMAIN frames : i # 1 => frames'[i] = frames[i]
      BY ONLY <3>1, <3>2, Replaced
    <3>5. frames'[Len(frames')].stage # "census"
      <4>1. CASE Len(frames) = 1
        BY <3>3, <3>4, <4>1
      <4>2. CASE Len(frames) # 1
        <5>1. Len(frames) \in DOMAIN frames /\ Len(frames) > 1
          BY <3>1, <4>2
        <5>2. frames[Len(frames)].stage # "census"
          BY <5>1 DEF IngestInv, FrameInv, Chain
        <5>3. QED
          BY <3>4, <4>2, <5>1, <5>2
      <4>3. QED
        BY <4>1, <4>2
    <3>6. frames' # <<>>
      <4>1. Len(frames') # 0 /\ Len(<<>>) = 0
        BY <3>1, <3>4
      <4>2. QED
        BY <4>1
    <3>7. QED
      BY <3>5, <3>6 DEF BudgetStart
  <2>5. QED
    BY <2>3, <2>4 DEF IngestInv
<1>2. CASE ~(CensusOK /\ IF Top.name = Root THEN RootOK ELSE NestedOK)
  <2>1. Stop("rejected") /\ "rejected" \in Outcomes
    BY <1>2 DEF AdmitDocument, Outcomes
  <2>2. QED
    BY <2>1, StopKeeps
<1>3. QED
  BY <1>1, <1>2

\* The outermost frame goes on in a stage other than the census, or is no longer
\* the one at work: what was charged may stay charged.
LEMMA StartKeeps ==
  ASSUME IngestInv, frames # <<>>, frames' # <<>>,
         frames'[Len(frames')].stage = frames[Len(frames)].stage,
         budget'.elements = budget.elements, budget'.references = budget.references
  PROVE  BudgetStart'
BY DEF IngestInv, BudgetStart

LEMMA LastReplaced ==
  ASSUME IngestInv, stage = "documents", NEW f, Update(f), f.stage = Top.stage
  PROVE  frames # <<>> /\ frames' # <<>> /\ frames'[Len(frames')].stage = frames[Len(frames)].stage
<1>1. /\ frames \in Seq(ToSet(frames)) /\ frames # <<>> /\ Top = frames[1]
      /\ DOMAIN frames = 1 .. Len(frames) /\ Len(frames) \in Nat \ {0}
  BY TopTyped DEF IngestInv, FrameInv, FramesTyped
<1>2. frames' = Replacing(frames, f)
  BY DEF Update, Rest, Replacing
<1>3. /\ Len(frames') = Len(frames) /\ frames'[1] = f
      /\ \A i \in DOMAIN frames : i # 1 => frames'[i] = frames[i]
  BY ONLY <1>1, <1>2, Replaced
<1>4. Len(frames') # 0 /\ Len(<<>>) = 0 /\ Len(frames) \in DOMAIN frames
  BY <1>1, <1>3
<1>5. QED
  BY <1>1, <1>3, <1>4

\* A node of the census is counted.
LEMMA CensusStep == ASSUME IngestInv, CensusNode PROVE IngestInv'
<1> DEFINE node   == Document(Top.name).nodes[Top.at]
           counts == Counted(Top.counts, node)
           list   == Listed(Top.external, node.refs)
<1>1. InCensus /\ stage = "documents" /\ counts \in Counts
  BY CountedTyped DEF CensusNode, InCensus, InStage
<1>2. CASE Bounded(node) /\ WithinDocument(counts)
  <2>1. Update(Counting(Top, counts, list)) /\ budget' = budget
    BY <1>2 DEF CensusNode, Counting
  <2>2. Counting(Top, counts, list).stage = Top.stage
    <3>1. FrameTyped(Top)
      BY <1>1, TopTyped
    <3>2. QED
      BY <3>1 DEF FrameTyped, FrameWith, Counting
  <2> HIDE DEF counts, list
  <2>3. FrameInv' /\ AtPaint'
    BY <1>1, <1>2, <2>1, CensusKeeps
  <2>4. budget' \in Budgets
    BY <2>1, SharedIn
  <2>5. SharedTyped' /\ InflationBounded'
    BY <1>1, <2>1, <2>4, UpdateKeeps
  <2>6. BudgetStart'
    BY <1>1, <2>1, <2>2, LastReplaced, StartKeeps
  <2>7. QED
    BY <2>3, <2>5, <2>6 DEF IngestInv
<1>3. CASE ~(Bounded(node) /\ WithinDocument(counts))
  <2>1. Stop("limit") /\ "limit" \in Outcomes
    BY <1>3 DEF CensusNode, Outcomes
  <2>2. QED
    BY <2>1, StopKeeps
<1>4. QED
  BY <1>2, <1>3

\* An image is taken, whichever of the two ways it came.
LEMMA TakeStep ==
  ASSUME IngestInv, stage = "documents", NEW name \in DOMAIN Resources,
         Reached(Top, input.document, loads, name), TakeRaster(name) \/ TakeSvg(name)
  PROVE  IngestInv'
<1>1. /\ FrameTyped(Top) /\ frames # <<>> /\ DOMAIN frames = 1 .. Len(frames)
      /\ Len(frames) \in Nat \ {0}
  BY TopTyped
<1>2. CASE TakeRaster(name)
  <2>1. Update(KeepTree(Top, name))
    BY <1>2 DEF TakeRaster, KeepTree
  <2>2. /\ budget' \in Budgets
        /\ budget'.elements = budget.elements /\ budget'.references = budget.references
    BY <1>2, ReserveKeeps DEF TakeRaster
  <2>3. KeepTree(Top, name).stage = Top.stage
    BY <1>1, KeptFields
  <2>4. FrameInv' /\ AtPaint'
    BY <2>1, RasterKeeps
  <2>5. SharedTyped' /\ InflationBounded'
    BY <2>1, <2>2, UpdateKeeps
  <2>6. BudgetStart'
    BY <2>1, <2>2, <2>3, LastReplaced, StartKeeps
  <2>7. QED
    BY <2>4, <2>5, <2>6 DEF IngestInv
<1>3. CASE TakeSvg(name)
  <2>1. /\ frames' = <<Frame(name, NestedDepth)>> \o frames /\ Nestable(Resources[name])
        /\ UNCHANGED <<input, stage, inflated, loads, paint, outcome, cancelled>>
    BY <1>3 DEF TakeSvg
  <2>2. /\ budget' \in Budgets
        /\ budget'.elements = budget.elements /\ budget'.references = budget.references
    BY <1>3, ReserveKeeps DEF TakeSvg
  <2>3. FrameInv' /\ AtPaint'
    BY <2>1, SvgKeeps
  <2>4. SharedTyped' /\ InflationBounded'
    <3>1. paint' \in PaintStates /\ loads' \in Seq(LegalPaths)
      BY <2>1, SharedIn
    <3>2. stage' \in {"check", "inflate", "parse", "documents", "paint"} /\ stage # "ended"
      BY <2>1
    <3>3. QED
      BY <2>1, <2>2, <3>1, <3>2, SharedKeeps
  <2>5. BudgetStart'
    <3>1. frames \in Seq(ToSet(frames)) /\ frames' = Pushing(frames, Frame(name, NestedDepth))
      BY <2>1 DEF IngestInv, FrameInv, FramesTyped, Pushing
    <3>2. /\ Len(frames') = Len(frames) + 1 /\ frames' \in Seq(ToSet(frames'))
          /\ \A i \in DOMAIN frames' : i # 1 => i - 1 \in DOMAIN frames /\ frames'[i] = frames[i - 1]
      BY ONLY <3>1, Pushed
    <3>3. /\ Len(frames') \in DOMAIN frames' /\ Len(frames') # 1 /\ Len(frames') - 1 = Len(frames)
          /\ Len(frames') # 0 /\ Len(<<>>) = 0
      BY <1>1, <3>2
    <3>4. frames' # <<>> /\ frames'[Len(frames')] = frames[Len(frames)]
      BY <3>2, <3>3
    <3>5. QED
      BY <1>1, <2>2, <3>4, StartKeeps
  <2>6. QED
    BY <2>3, <2>4, <2>5 DEF IngestInv
<1>4. QED
  BY <1>2, <1>3

LEMMA RefusedStep == ASSUME IngestInv, Stop("rejected") PROVE IngestInv'
<1>1. "rejected" \in Outcomes
  BY DEF Outcomes
<1>2. QED
  BY <1>1, StopKeeps

LEMMA DataStep == ASSUME IngestInv, DataImage PROVE IngestInv'
<1> DEFINE images == DataImages(Document(Top.name))
           name   == images[Top.at]
<1>1. stage = "documents" /\ Top.stage = "images" /\ Top.at <= Len(images)
  BY DEF DataImage, InStage
<1>2. Top.name \in Names /\ Top.at \in Nat \ {0} /\ input \in Inputs
  BY <1>1, TopTyped, SharedIn
<1>3. images = ImagesOf(Top.name, input.document) /\ images \in Seq(DOMAIN Resources)
  BY <1>2, DocumentsTyped
<1>4. Reached(Top, input.document, loads, name)
  BY <1>1, <1>3 DEF Reached, Awaited
<1>5. name \in DOMAIN Resources
  <2>1. Top.at \in 1 .. Len(images)
    BY <1>1, <1>2, <1>3
  <2> HIDE DEF images
  <2>2. QED
    BY <1>3, <2>1
<1>6. TakeRaster(name) \/ TakeSvg(name) \/ Stop("rejected")
  BY DEF DataImage
<1> HIDE DEF name
<1>7. QED
  BY <1>1, <1>4, <1>5, <1>6, TakeStep, RefusedStep

LEMMA ExternalStep == ASSUME IngestInv, ExternalImage PROVE IngestInv'
<1> DEFINE name == Top.external[Top.at]
<1>1. InStage("external") /\ Len(loads) = Top.at
  BY DEF ExternalImage, Loaded
<1>2. /\ stage = "documents" /\ Top.stage = "external" /\ Top.at \in Nat \ {0}
      /\ RootFollows(Top, loads) /\ loads \in Seq(DOMAIN Resources)
  BY <1>1, AtExternal, SharedIn
<1>3. Top.at \in DOMAIN loads /\ loads[Top.at] \in DOMAIN Resources
  BY <1>1, <1>2
<1>4. loads[Top.at] = name
  BY <1>2, <1>3 DEF RootFollows
<1>5. Reached(Top, input.document, loads, name) /\ name \in DOMAIN Resources
  BY <1>1, <1>2, <1>3, <1>4 DEF Reached, Awaited
<1>6. TakeRaster(name) \/ TakeSvg(name) \/ Stop("rejected")
  BY DEF ExternalImage
<1> HIDE DEF name
<1>7. QED
  BY <1>2, <1>5, <1>6, TakeStep, RefusedStep

LEMMA ReturnStep == ASSUME IngestInv, ReturnNested PROVE IngestInv'
<1>1. FrameInv' /\ AtPaint'
  BY ReturnKeeps
<1>2. /\ stage = "documents"
      /\ UNCHANGED <<input, stage, inflated, budget, loads, paint, outcome, cancelled>>
      /\ Len(frames) # 1 /\ Len(frames) \in Nat \ {0} /\ DOMAIN frames = 1 .. Len(frames)
  BY TopTyped DEF ReturnNested, ImagesDone, InStage
<1>3. SharedTyped' /\ InflationBounded'
  <2>1. budget' \in Budgets /\ paint' \in PaintStates /\ loads' \in Seq(LegalPaths)
    BY <1>2, SharedIn
  <2>2. stage' \in {"check", "inflate", "parse", "documents", "paint"} /\ stage # "ended"
    BY <1>2
  <2>3. QED
    BY <1>2, <2>1, <2>2, SharedKeeps
<1>4. BudgetStart'
  <2>1. frames # <<>> /\ frames[Len(frames)].stage # "census"
    <3>1. Len(frames) \in DOMAIN frames /\ Len(frames) > 1
      BY <1>2
    <3>2. QED
      BY <1>2, <3>1, TopTyped DEF IngestInv, FrameInv, Chain
  <2>2. frames' # <<>> /\ frames'[Len(frames')].stage = frames[Len(frames)].stage
    <3> DEFINE f == KeepTree(frames[2], Top.name)
    <3>1. /\ frames \in Seq(ToSet(frames)) /\ Len(frames) > 1
          /\ 2 \in DOMAIN frames /\ Top = frames[1]
      BY <1>2, TopTyped DEF IngestInv, FrameInv, FramesTyped
    <3>2. frames' = Popping(frames, f)
      BY <3>1 DEF ReturnNested, Popping, Rest, Top
    <3>3. f.stage = frames[2].stage
      <4>1. Top.name \in DOMAIN Resources
        BY <1>2, TopTyped DEF Names, ReturnNested
      <4>2. FrameTyped(frames[2])
        BY <3>1 DEF IngestInv, FrameInv, FramesTyped
      <4>3. QED
        BY <4>1, <4>2, KeptFields
    <3> HIDE DEF f
    <3>4. /\ frames' \in Seq(ToSet(frames')) /\ Len(frames') = Len(frames) - 1
          /\ frames'[1] = f /\ \A i \in DOMAIN frames' : i # 1 => frames'[i] = frames[i + 1]
      BY ONLY <3>1, <3>2, Popped
    <3>5. CASE Len(frames) = 2
      <4>1. Len(frames') = 1 /\ Len(<<>>) = 0
        BY <3>4, <3>5
      <4>2. QED
        BY <3>3, <3>4, <3>5, <4>1
    <3>6. CASE Len(frames) # 2
      <4>1. /\ Len(frames') \in DOMAIN frames' /\ Len(frames') # 1 /\ Len(frames') + 1 = Len(frames)
            /\ Len(frames') # 0 /\ Len(<<>>) = 0
        BY <1>2, <3>1, <3>4, <3>6
      <4>2. QED
        BY <3>4, <4>1
    <3>7. QED
      BY <3>5, <3>6
  <2>3. QED
    BY <1>2, <2>1, <2>2, StartKeeps
<1>5. QED
  BY <1>1, <1>3, <1>4 DEF IngestInv

LEMMA BeginStep == ASSUME IngestInv, BeginExternal PROVE IngestInv'
<1>1. ImagesDone /\ Top.name = Root /\ stage = "documents" /\ Top.stage = "images"
  BY DEF BeginExternal, ImagesDone, InStage
<1>2. CASE Top.external = <<>> \/ input.provider
  <2>1. Update(Turning(Top, "external")) /\ budget' = budget
    BY <1>2 DEF BeginExternal, Turning
  <2>2. FrameInv' /\ AtPaint'
    BY <1>1, <2>1, BeginExternalKeeps
  <2>3. budget' \in Budgets
    BY <2>1, SharedIn
  <2>4. SharedTyped' /\ InflationBounded'
    BY <1>1, <2>1, <2>3, UpdateKeeps
  <2>5. BudgetStart'
    <3> DEFINE f == Turning(Top, "external")
    <3>1. /\ frames \in Seq(ToSet(frames)) /\ frames # <<>> /\ Len(frames) = 1 /\ FrameTyped(Top)
      BY <1>1, TopTyped DEF IngestInv, FrameInv, FramesTyped
    <3>2. f.stage = "external"
      BY <3>1 DEF FrameTyped, FrameWith, Turning
    <3>3. frames' = Replacing(frames, f)
      BY <2>1 DEF Update, Rest, Replacing
    <3> HIDE DEF f
    <3>4. Len(frames') = Len(frames) /\ frames'[1] = f
      BY ONLY <3>1, <3>3, Replaced
    <3>5. frames' # <<>> /\ frames'[Len(frames')].stage # "census"
      <4>1. Len(<<>>) = 0 /\ Len(frames') = 1
        BY <3>1, <3>4
      <4>2. QED
        BY <3>2, <3>4, <4>1
    <3>6. QED
      BY <3>5 DEF BudgetStart
  <2>6. QED
    BY <2>2, <2>4, <2>5 DEF IngestInv
<1>3. CASE ~(Top.external = <<>> \/ input.provider)
  <2>1. Stop("rejected")
    BY <1>3 DEF BeginExternal
  <2>2. QED
    BY <2>1, RefusedStep
<1>4. QED
  BY <1>2, <1>3

LEMMA LoadStep == ASSUME IngestInv, LoadExternal PROVE IngestInv'
<1>1. AtLoad /\ stage = "documents" /\ stage # "ended"
  BY DEF LoadExternal, AtLoad, InStage
<1>2. CASE Top.external[Top.at] \in LegalPaths
  <2>1. /\ loads' = Append(loads, Top.external[Top.at])
        /\ UNCHANGED <<input, stage, inflated, frames, budget, paint, outcome, cancelled>>
    BY <1>2 DEF LoadExternal
  <2>2. FrameInv' /\ BudgetStart' /\ AtPaint'
    BY <1>1, <1>2, <2>1, LoadKeeps
  <2>3. budget' \in Budgets /\ paint' \in PaintStates /\ loads' \in Seq(LegalPaths)
    BY <1>2, <2>1, SharedIn
  <2>4. stage' \in {"check", "inflate", "parse", "documents", "paint"}
    BY <1>1, <2>1
  <2>5. SharedTyped' /\ InflationBounded'
    BY <1>1, <2>1, <2>3, <2>4, SharedKeeps
  <2>6. QED
    BY <2>2, <2>5 DEF IngestInv
<1>3. CASE Top.external[Top.at] \notin LegalPaths
  <2>1. Stop("rejected")
    BY <1>3 DEF LoadExternal
  <2>2. QED
    BY <2>1, RefusedStep
<1>4. QED
  BY <1>2, <1>3

LEMMA BuildStep == ASSUME IngestInv, BuildTree PROVE IngestInv'
<1>1. FrameInv' /\ BudgetStart' /\ AtPaint'
  BY BuildKeeps
<1>2. /\ stage # "ended" /\ stage' \in {"check", "inflate", "parse", "documents", "paint"}
      /\ UNCHANGED <<input, inflated, frames, budget, loads, outcome, cancelled>>
  BY DEF BuildTree, ExternalDone, InStage
<1>3. budget' \in Budgets /\ loads' \in Seq(LegalPaths)
  BY <1>2, SharedIn
<1>4. paint' \in PaintStates
  <2>1. 1 \in 0 .. Limits.paintNodes
    <3>1. Limits.paintNodes \in Nat \ {0}
      BY NumbersAssumption
    <3>2. QED
      BY ONLY <3>1
  <2>2. <<Root>> \in Seq(Names)
    BY DEF Names
  <2>3. QED
    BY <2>1, <2>2 DEF BuildTree, PaintStates
<1>5. QED
  BY <1>1, <1>2, <1>3, <1>4, SharedKeeps DEF IngestInv

\* The trees still to count stay names of documents.
LEMMA CountStep == ASSUME IngestInv, CountTree PROVE IngestInv'
<1> DEFINE doc   == Document(Head(paint.trees))
           count == paint.count + doc.paints
           left  == Shown(doc) \o Tail(paint.trees)
<1>1. /\ stage = "paint" /\ paint.trees # <<>> /\ paint.trees \in Seq(Names)
      /\ paint.count \in 0 .. Limits.paintNodes
  BY DEF CountTree, IngestInv, SharedTyped
<1>2. Head(paint.trees) \in Names /\ Tail(paint.trees) \in Seq(Names) /\ input \in Inputs
  BY <1>1, SharedIn
<1>3. doc.paints \in Nat /\ Shown(doc) \in Seq(DOMAIN Resources)
  BY <1>2, DocumentsTyped
<1>4. left \in Seq(Names) /\ count \in Nat
  <2>1. Shown(doc) \in Seq(Names)
    BY <1>3 DEF Names
  <2>2. paint.count \in Nat
    BY <1>1
  <2>3. count \in Nat
    BY <1>3, <2>2
  <2>4. QED
    BY <1>2, <2>1, <2>3
<1>5. CASE count <= Limits.paintNodes
  <2>1. /\ paint' = [count |-> count, trees |-> left]
        /\ UNCHANGED <<input, stage, inflated, frames, budget, loads, outcome, cancelled>>
    BY <1>5 DEF CountTree
  <2> HIDE DEF left, count
  <2>2. paint' \in PaintStates
    BY <1>4, <1>5, <2>1, NumbersAssumption DEF PaintStates
  <2>3. budget' \in Budgets /\ loads' \in Seq(LegalPaths)
    BY <2>1, SharedIn
  <2>4. stage' \in {"check", "inflate", "parse", "documents", "paint"} /\ stage # "ended"
    BY <1>1, <2>1
  <2>5. SharedTyped' /\ InflationBounded'
    BY <2>1, <2>2, <2>3, <2>4, SharedKeeps
  <2>6. FrameInv' /\ BudgetStart' /\ AtPaint'
    BY <1>1, <2>1, QuietKeeps
  <2>7. QED
    BY <2>5, <2>6 DEF IngestInv
<1>6. CASE ~(count <= Limits.paintNodes)
  <2>1. Stop("limit") /\ "limit" \in Outcomes
    BY <1>6 DEF CountTree, Outcomes
  <2>2. QED
    BY <2>1, StopKeeps
<1>7. QED
  BY <1>5, <1>6

\* The expansion: every read stays within the limit, which is within the ratio.
LEMMA InflateStep == ASSUME IngestInv, Inflate PROVE IngestInv'
<1>1. PICK read \in Reads : inflated + read <= ByteLimit /\ inflated' = inflated + read
  BY DEF Inflate
<1>2. /\ stage = "inflate"
      /\ UNCHANGED <<input, stage, frames, budget, loads, paint, outcome, cancelled>>
  BY DEF Inflate
<1>3. /\ input \in Inputs /\ input.size \in Nat /\ input.inflated \in Nat
      /\ inflated \in 0 .. input.inflated
      /\ Limits.expansionRatio \in Nat /\ Limits.decompressedBytes \in Nat /\ Buffer \in Nat
  BY NumbersAssumption DEF IngestInv, SharedTyped
<1>4. read \in Nat /\ read <= input.inflated - inflated
  BY <1>3 DEF Reads
<1>5. inflated' \in 0 .. input'.inflated
  BY <1>1, <1>2, <1>3, <1>4
<1>6. InflationBounded'
  <2> DEFINE ratio == input.size * Limits.expansionRatio
  <2>1. ratio \in Nat
    BY <1>3
  <2>2. ByteLimit = IF ratio < Limits.decompressedBytes THEN ratio ELSE Limits.decompressedBytes
    BY DEF ByteLimit
  <2> HIDE DEF ratio
  <2>3. inflated' <= Limits.decompressedBytes /\ inflated' <= ratio
    BY <1>1, <1>3, <1>4, <2>1, <2>2
  <2>4. QED
    BY <1>2, <2>3 DEF InflationBounded, ratio
<1>7. SharedTyped'
  BY <1>2, <1>5 DEF IngestInv, SharedTyped
<1>8. FrameInv' /\ BudgetStart' /\ AtPaint'
  BY <1>2, QuietKeeps
<1>9. QED
  BY <1>6, <1>7, <1>8 DEF IngestInv

\* The steps before the documents that touch nothing but the stage or the flag.
LEMMA EarlyStep ==
  ASSUME IngestInv, CheckInput \/ InflateEnds PROVE IngestInv'
<1>1. /\ stage \in {"check", "inflate"} /\ stage' \in {"inflate", "parse"}
      /\ UNCHANGED <<input, inflated, frames, budget, loads, paint, outcome, cancelled>>
  BY DEF CheckInput, InflateEnds
<1>2. budget' \in Budgets /\ paint' \in PaintStates /\ loads' \in Seq(LegalPaths)
  BY <1>1, SharedIn
<1>3. SharedTyped' /\ InflationBounded'
  BY <1>1, <1>2, SharedKeeps
<1>4. FrameInv' /\ BudgetStart' /\ AtPaint'
  BY <1>1, QuietKeeps
<1>5. QED
  BY <1>3, <1>4 DEF IngestInv

LEMMA CancelStep == ASSUME IngestInv, Cancel PROVE IngestInv'
<1>1. /\ cancelled' = TRUE
      /\ UNCHANGED <<input, stage, inflated, frames, budget, loads, paint, outcome>>
  BY DEF Cancel
<1>2. FrameInv' /\ BudgetStart' /\ AtPaint'
  BY <1>1, QuietKeeps
<1>3. SharedTyped' /\ InflationBounded'
  BY <1>1 DEF IngestInv, SharedTyped, InflationBounded
<1>4. QED
  BY <1>2, <1>3 DEF IngestInv

LEMMA ParseStep == ASSUME IngestInv, ParseRoot PROVE IngestInv'
<1>1. /\ stage # "ended" /\ stage' \in {"check", "inflate", "parse", "documents", "paint"}
      /\ UNCHANGED <<input, inflated, budget, loads, paint, outcome, cancelled>>
  BY DEF ParseRoot
<1>2. budget' \in Budgets /\ paint' \in PaintStates /\ loads' \in Seq(LegalPaths)
  BY <1>1, SharedIn
<1>3. SharedTyped' /\ InflationBounded'
  BY <1>1, <1>2, SharedKeeps
<1>4. QED
  BY <1>3, ParseKeeps DEF IngestInv

\* The steps that only end the admission.
LEMMA EndStep ==
  ASSUME IngestInv,
         \/ NoticeCancel \/ RejectInput \/ InflateTooFar \/ InflateCorrupt \/ RejectRoot
         \/ ProviderFails \/ TreeFails \/ Accept
  PROVE  IngestInv'
<1>1. \E why \in Outcomes : Stop(why)
  BY DEF NoticeCancel, RejectInput, InflateTooFar, InflateCorrupt, RejectRoot,
         ProviderFails, TreeFails, Accept, Outcomes
<1>2. QED
  BY <1>1, StopKeeps

LEMMA IngestNext == IngestInv /\ [Next]_vars => IngestInv'
<1> SUFFICES ASSUME IngestInv, [Next]_vars PROVE IngestInv'
  OBVIOUS
<1>1. CASE Cancel
  BY <1>1, CancelStep
<1>2. CASE CheckInput \/ InflateEnds
  BY <1>2, EarlyStep
<1>3. CASE Inflate
  BY <1>3, InflateStep
<1>4. CASE ParseRoot
  BY <1>4, ParseStep
<1>5. CASE CensusNode
  BY <1>5, CensusStep
<1>6. CASE AdmitDocument
  BY <1>6, AdmitStep
<1>7. CASE DataImage
  BY <1>7, DataStep
<1>8. CASE ReturnNested
  BY <1>8, ReturnStep
<1>9. CASE BeginExternal
  BY <1>9, BeginStep
<1>10. CASE LoadExternal
  BY <1>10, LoadStep
<1>11. CASE ExternalImage
  BY <1>11, ExternalStep
<1>12. CASE BuildTree
  BY <1>12, BuildStep
<1>13. CASE CountTree
  BY <1>13, CountStep
<1>14. CASE \/ NoticeCancel \/ RejectInput \/ InflateTooFar \/ InflateCorrupt \/ RejectRoot
            \/ ProviderFails \/ TreeFails \/ Accept
  BY <1>14, EndStep
<1>15. CASE UNCHANGED vars
  BY <1>15 DEF vars, IngestInv, SharedTyped, InflationBounded, FrameInv, FramesTyped, Chain,
               ResolvedSoFar, LoadsFollow, BudgetStart, AtPaint
<1>16. QED
  BY <1>1, <1>2, <1>3, <1>4, <1>5, <1>6, <1>7, <1>8, <1>9, <1>10, <1>11, <1>12, <1>13,
     <1>14, <1>15 DEF Next

-----------------------------------------------------------------------------
(* Theorems                                                                *)

\* The invariant of the admission of nested documents: what waits for what, and
\* what has been resolved and charged so far.
THEOREM IngestInvariant == Spec => []IngestInv
<1>1. Init => IngestInv
  BY IngestInit
<1>2. IngestInv /\ [Next]_vars => IngestInv'
  BY IngestNext
<1>3. QED
  BY <1>1, <1>2, PTL DEF Spec

\* What the documents share - bytes, elements, references, paint nodes - stays
\* within the limits, and every document within its own, whatever is nested
\* in whatever.
THEOREM AdmissionTyped == Spec => []TypeOK
<1>1. IngestInv => TypeOK
  <2> SUFFICES ASSUME IngestInv PROVE TypeOK
    OBVIOUS
  <2>1. \A i \in DOMAIN frames : /\ frames[i].name \in DOMAIN Resources \cup {Root}
                                 /\ frames[i].stage \in {"census", "images", "external"}
                                 /\ WithinDocument(frames[i].counts)
    BY DEF IngestInv, FrameInv, FramesTyped, FrameTyped, FrameWith, Names
  <2>2. QED
    BY <2>1 DEF IngestInv, SharedTyped, TypeOK
<1>2. QED
  BY <1>1, IngestInvariant, PTL

\* The expansion of an SVGZ input is never held beyond the byte limit or the
\* ratio to what came in.
THEOREM InflationStaysBounded == Spec => []InflationBounded
<1>1. IngestInv => InflationBounded
  BY DEF IngestInv
<1>2. QED
  BY <1>1, IngestInvariant, PTL

\* Nested documents are admitted only within the depth limit and only if the
\* option allows it, each one level below the document it is an image of.
THEOREM NestingStaysBounded == Spec => []NestingBounded
<1>1. IngestInv => NestingBounded
  BY DEF IngestInv, FrameInv, Chain, NestingBounded
<1>2. QED
  BY <1>1, IngestInvariant, PTL

\* When usvg builds the tree of a document, the store its resolvers look images
\* up in holds all of them, and nothing that was not admitted.
THEOREM StoresComplete == Spec => []ImagesResolved
<1>1. IngestInv => ImagesResolved
  <2> SUFFICES ASSUME IngestInv PROVE ImagesResolved
    OBVIOUS
  <2>1. ASSUME ImagesDone PROVE Top.resolved = ToSet(DataImages(Document(Top.name)))
    <3> DEFINE images == DataImages(Document(Top.name))
    <3>1. stage = "documents" /\ Top.stage = "images" /\ Top.at > Len(images)
      BY <2>1 DEF ImagesDone, InStage
    <3>2. /\ Top.name \in Names /\ Top.at \in Nat \ {0} /\ input \in Inputs
          /\ FrameResolved(Top, input.document, loads)
      BY <3>1, TopTyped, SharedIn
    <3>3. images = ImagesOf(Top.name, input.document) /\ images \in Seq(DOMAIN Resources)
      BY <3>2, DocumentsTyped
    <3>4. Top.at - 1 = Len(images) /\ Top.resolved = Gone(images, Top.at - 1)
      <4> HIDE DEF images
      <4>1. QED
        BY <3>1, <3>2, <3>3 DEF FrameResolved
    <3>5. DOMAIN images = 1 .. Len(images)
      BY <3>3
    <3> HIDE DEF images
    <3>6. Top.resolved = ToSet(images)
      BY <3>4, <3>5 DEF Gone, ToSet
    <3>7. QED
      BY <3>6 DEF images
  <2>2. ASSUME stage = "paint"
        PROVE  Top.resolved = ToSet(DataImages(Document(Root))) \cup ToSet(loads)
    <3>1. /\ Len(frames) = 1 /\ frames[1].stage = "external" /\ Len(loads) = frames[1].at - 1
          /\ frames \in Seq(ToSet(frames)) /\ loads \in Seq(LegalPaths)
      BY <2>2, SharedIn DEF IngestInv, AtPaint, FrameInv, FramesTyped
    <3>2. Top = frames[1] /\ 1 \in DOMAIN frames
      BY <3>1 DEF Top
    <3>3. Top.name = Root /\ FrameResolved(Top, input.document, loads)
      BY <3>1, <3>2 DEF IngestInv, FrameInv, Chain, ResolvedSoFar
    <3>4. ImagesOf(Root, input.document) = DataImages(Document(Root))
      BY DEF ImagesOf, Document
    <3>5. Top.resolved = ToSet(DataImages(Document(Root))) \cup Gone(loads, Len(loads))
      BY <3>1, <3>2, <3>3, <3>4 DEF FrameResolved
    <3>6. Gone(loads, Len(loads)) = ToSet(loads)
      BY <3>1 DEF Gone, ToSet
    <3>7. QED
      BY <3>5, <3>6
  <2>3. QED
    BY <2>1, <2>2 DEF ImagesResolved
<1>2. QED
  BY <1>1, IngestInvariant, PTL

-----------------------------------------------------------------------------
(* The files of a document.  The list of a frame has each file once; that  *)
(* of the input's own document, whose files alone are loaded, has no file  *)
(* the document does not refer to.                                         *)

IsFile(ref) == ref.kind \notin {"local", "data"}

RootLists(root) ==
  /\ root.external \in Seq(Files(input.document)) /\ Distinct(root.external)
  /\ root.stage = "external" => /\ root.external = <<>> \/ input.provider
                                /\ Len(loads) <= Len(root.external)
ListInv == frames # <<>> => RootLists(frames[Len(frames)])

\* One reference is listed if it is new.
LEMMA AppendNewDistinct ==
  ASSUME NEW X, NEW s \in Seq(X), Distinct(s), NEW ref, IsFile(ref) => ref.target \in X
  PROVE  /\ AppendNew(s, ref) \in Seq(X) /\ Distinct(AppendNew(s, ref))
         /\ \A x : x \in ToSet(AppendNew(s, ref)) <=>
                   x \in ToSet(s) \/ (IsFile(ref) /\ ref.target = x)
<1>1. CASE ~IsFile(ref)
  BY <1>1 DEF AppendNew, IsFile
<1>3. CASE IsFile(ref) /\ Contains(s, ref.target)
  <2>1. AppendNew(s, ref) = s
    BY <1>3 DEF AppendNew, IsFile
  <2>2. ref.target \in ToSet(s)
    BY <1>3 DEF Contains, ToSet
  <2>3. QED
    BY <2>1, <2>2
<1>2. CASE IsFile(ref) /\ ~Contains(s, ref.target)
  <2> DEFINE e == ref.target
             t == Append(s, e)
  <2>1. AppendNew(s, ref) = t /\ e \in X
    BY <1>2 DEF AppendNew, IsFile
  <2>2. \A i \in 1 .. Len(s) : s[i] # e
    BY <1>2 DEF Contains
  <2>h. e = ref.target
    OBVIOUS
  <2> HIDE DEF e
  <2>3. /\ t \in Seq(X) /\ DOMAIN t = 1 .. Len(s) + 1 /\ t[Len(s) + 1] = e
        /\ \A i \in 1 .. Len(s) : t[i] = s[i] /\ i \in DOMAIN s
        /\ Len(s) \in Nat /\ DOMAIN s = 1 .. Len(s)
    BY <2>1
  <2> HIDE DEF t
  <2>4. ASSUME NEW i \in DOMAIN t, NEW j \in DOMAIN t, t[i] = t[j] PROVE i = j
    BY <2>2, <2>3, <2>4 DEF Distinct
  <2>5. ASSUME NEW x PROVE x \in ToSet(t) <=> x \in ToSet(s) \/ e = x
    <3>1. DOMAIN t = DOMAIN s \cup {Len(s) + 1}
      BY <2>3
    <3>2. QED
      BY <2>3, <3>1 DEF ToSet
  <2>6. QED
    BY <1>2, <2>1, <2>h, <2>3, <2>4, <2>5 DEF Distinct
<1>4. QED
  BY <1>1, <1>2, <1>3

\* So are the references of a node, one after the other.
LEMMA ListedDistinct ==
  ASSUME NEW X, NEW list \in Seq(X), Distinct(list), NEW refs, refs \in Seq(ToSet(refs)),
         \A k \in DOMAIN refs : IsFile(refs[k]) => refs[k].target \in X
  PROVE  /\ Listed(list, refs) \in Seq(X) /\ Distinct(Listed(list, refs))
         /\ \A x : x \in ToSet(Listed(list, refs)) <=>
                   \/ x \in ToSet(list)
                   \/ \E k \in DOMAIN refs : IsFile(refs[k]) /\ refs[k].target = x
<1> DEFINE T == {s \in Seq(X) : Distinct(s)}
           m == Len(refs)
           step == [k \in 1 .. m |-> [s \in T |-> AppendNew(s, refs[k])]]
           body(f) == [k \in 0 .. Len(refs) |->
                         IF k = 0 THEN list ELSE AppendNew(f[k - 1], refs[k])]
           upTo == CHOOSE f : f = body(f)
<1>1. Listed(list, refs) = upTo[m]
  BY DEF Listed
<1>2. m \in Nat /\ DOMAIN refs = 1 .. m
  OBVIOUS
<1>3. list \in T
  OBVIOUS
<1>4. \A k \in 1 .. m : \A s \in T :
        /\ AppendNew(s, refs[k]) \in T
        /\ \A x : x \in ToSet(AppendNew(s, refs[k])) <=>
                  x \in ToSet(s) \/ (IsFile(refs[k]) /\ refs[k].target = x)
  <2> SUFFICES ASSUME NEW k \in 1 .. m, NEW s \in T
               PROVE  /\ AppendNew(s, refs[k]) \in T
                      /\ \A x : x \in ToSet(AppendNew(s, refs[k])) <=>
                                x \in ToSet(s) \/ (IsFile(refs[k]) /\ refs[k].target = x)
    OBVIOUS
  <2>1. s \in Seq(X) /\ Distinct(s) /\ (IsFile(refs[k]) => refs[k].target \in X)
    BY <1>2
  <2> HIDE DEF m
  <2>2. QED
    BY <2>1, AppendNewDistinct
<1> HIDE DEF T, m
<1>5. step \in [1 .. m -> [T -> T]]
  BY <1>4
<1> HIDE DEF step
<1>6. PICK f \in [0 .. m -> T] :
        f[0] = list /\ \A n \in 1 .. m : f[n] = step[n][f[n - 1]]
  <2>1. m \in Nat
    BY <1>2
  <2>2. step \in Steps(T, m)
    BY <1>5 DEF Steps
  <2>3. \E f : Recurses(f, T, list, m, step)
    BY ONLY <1>3, <2>1, <2>2, RecursionExists
  <2>4. QED
    BY <2>3 DEF Recurses
<1>7. f = body(f)
  <2>1. ASSUME NEW n \in 1 .. m PROVE f[n] = AppendNew(f[n - 1], refs[n])
    <3>1. n - 1 \in 0 .. m
      BY <1>2
    <3>2. f[n] = step[n][f[n - 1]] /\ f[n - 1] \in T
      BY <1>6, <3>1
    <3>3. QED
      BY <3>2 DEF step
  <2>2. f[0] = list /\ f = [n \in 0 .. m |-> f[n]] /\ m \in Nat
    BY <1>2, <1>6
  <2>3. \A k \in 0 .. m : f[k] = IF k = 0 THEN list ELSE AppendNew(f[k - 1], refs[k])
    <3> SUFFICES ASSUME NEW k \in 0 .. m
                 PROVE  f[k] = IF k = 0 THEN list ELSE AppendNew(f[k - 1], refs[k])
      OBVIOUS
    <3>1. k # 0 => k \in 1 .. m
      BY <2>2
    <3>2. QED
      BY <2>1, <2>2, <3>1
  <2>4. f = [k \in 0 .. m |-> IF k = 0 THEN list ELSE AppendNew(f[k - 1], refs[k])]
    BY <2>2, <2>3, Zenon
  <2>5. QED
    BY <2>4 DEF m
<1>8. upTo = body(upTo)
  BY <1>7
<1> HIDE DEF upTo
<1>9. upTo[0] = list /\ \A n \in 1 .. m : upTo[n] = AppendNew(upTo[n - 1], refs[n])
  <2>1. upTo = [k \in 0 .. m |-> IF k = 0 THEN list ELSE AppendNew(upTo[k - 1], refs[k])]
    BY <1>8 DEF m
  <2> HIDE DEF body
  <2>2. \A k \in 0 .. m : upTo[k] = IF k = 0 THEN list ELSE AppendNew(upTo[k - 1], refs[k])
    BY <2>1, Zenon
  <2>3. 0 \in 0 .. m /\ \A n \in 1 .. m : n \in 0 .. m /\ n # 0
    BY <1>2
  <2>4. QED
    BY <2>2, <2>3
<1> HIDE DEF body
<1> DEFINE Has(n, x) == \/ x \in ToSet(list)
                        \/ \E k \in 1 .. n : IsFile(refs[k]) /\ refs[k].target = x
           S == {n \in 0 .. m : upTo[n] \in T /\ \A x : x \in ToSet(upTo[n]) <=> Has(n, x)}
<1>10. 0 \in S
  <2>1. \A x : Has(0, x) <=> x \in ToSet(list)
    OBVIOUS
  <2> HIDE DEF Has
  <2>2. QED
    BY <1>2, <1>3, <1>9, <2>1
<1>11. ASSUME NEW n \in 0 .. m - 1, n \in S PROVE n + 1 \in S
  <2>1. n + 1 \in 1 .. m /\ n + 1 \in 0 .. m /\ upTo[n] \in T /\ (n + 1) - 1 = n
    BY <1>2, <1>11
  <2>2. upTo[n + 1] = AppendNew(upTo[n], refs[n + 1])
    BY <1>9, <2>1
  <2>3. /\ upTo[n + 1] \in T
        /\ \A x : x \in ToSet(upTo[n + 1]) <=>
                  x \in ToSet(upTo[n]) \/ (IsFile(refs[n + 1]) /\ refs[n + 1].target = x)
    BY <1>4, <2>1, <2>2
  <2>4. 1 .. n + 1 = (1 .. n) \cup {n + 1}
    BY <2>1
  <2>5. \A x : Has(n + 1, x) <=> Has(n, x) \/ (IsFile(refs[n + 1]) /\ refs[n + 1].target = x)
    BY ONLY <2>4
  <2>6. \A x : x \in ToSet(upTo[n]) <=> Has(n, x)
    BY <1>11
  <2> HIDE DEF Has
  <2>7. QED
    BY <2>1, <2>3, <2>5, <2>6
<1> HIDE DEF S
<1>12. 0 .. m \subseteq S /\ m \in Nat
  BY <1>2, <1>10, <1>11, IntervalInduction
<1>13. upTo[m] \in T /\ \A x : x \in ToSet(upTo[m]) <=> Has(m, x)
  <2>1. m \in S
    BY <1>12
  <2> HIDE DEF Has
  <2>2. QED
    BY <2>1 DEF S
<1>14. QED
  BY <1>1, <1>2, <1>13 DEF T

\* The frame at work is replaced: the last one is too if there is no other.
LEMMA LastUpdated ==
  ASSUME IngestInv, stage = "documents", NEW f, Update(f)
  PROVE  /\ UNCHANGED <<input, loads>> /\ frames # <<>> /\ frames' # <<>>
         /\ frames'[Len(frames')] = IF Len(frames) = 1 THEN f ELSE frames[Len(frames)]
         /\ Len(frames) = 1 => frames[Len(frames)] = Top
<1>1. /\ frames \in Seq(ToSet(frames)) /\ frames # <<>> /\ Top = frames[1]
      /\ DOMAIN frames = 1 .. Len(frames) /\ Len(frames) \in Nat \ {0}
  BY TopTyped DEF IngestInv, FrameInv, FramesTyped
<1>2. frames' = Replacing(frames, f)
  BY DEF Update, Rest, Replacing
<1>3. /\ Len(frames') = Len(frames) /\ frames'[1] = f
      /\ \A i \in DOMAIN frames : i # 1 => frames'[i] = frames[i]
  BY ONLY <1>1, <1>2, Replaced
<1>4. Len(frames') # 0 /\ Len(<<>>) = 0 /\ Len(frames) \in DOMAIN frames
  BY <1>1, <1>3
<1>5. QED
  BY <1>1, <1>3, <1>4 DEF Update

\* A frame that keeps its list and does not begin with its files.
LEMMA ListStands ==
  ASSUME NEW f, NEW g, RootLists(f), g.external = f.external,
         \/ g.stage = "external" => f.stage = "external"
         \/ loads = <<>> /\ (f.external = <<>> \/ input.provider)
  PROVE  RootLists(g)
BY DEF RootLists

\* The frame at work goes on with the list it has.
LEMMA UpdatedLists ==
  ASSUME IngestInv, ListInv, stage = "documents", NEW f, Update(f), f.external = Top.external,
         \/ f.stage = Top.stage \/ f.stage # "external"
         \/ Top.stage # "external" /\ (Top.external = <<>> \/ input.provider)
  PROVE  ListInv'
<1>1. /\ UNCHANGED <<input, loads>> /\ frames # <<>> /\ frames' # <<>>
      /\ frames'[Len(frames')] = IF Len(frames) = 1 THEN f ELSE frames[Len(frames)]
      /\ Len(frames) = 1 => frames[Len(frames)] = Top
  BY LastUpdated
<1>2. RootLists(frames[Len(frames)])
  BY <1>1 DEF ListInv
<1>3. RootLists(frames'[Len(frames')])
  <2>1. CASE Len(frames) = 1
    <3>1. Top.stage # "external" => loads = <<>>
      BY <2>1, TopTyped DEF RootFollows
    <3>2. frames'[Len(frames')] = f /\ RootLists(Top)
      BY <1>1, <1>2, <2>1
    <3>3. QED
      BY <3>1, <3>2, ListStands
  <2>2. CASE Len(frames) # 1
    BY <1>1, <1>2, <2>2
  <2>3. QED
    BY <2>1, <2>2
<1>4. QED
  BY <1>1, <1>3 DEF ListInv, RootLists

\* A census lists the files of the document only, each once.
LEMMA CensusLists == ASSUME IngestInv, ListInv, CensusNode PROVE ListInv'
<1> DEFINE doc    == Document(Top.name)
           node   == doc.nodes[Top.at]
           counts == Counted(Top.counts, node)
           list   == Listed(Top.external, node.refs)
           f      == Counting(Top, counts, list)
<1>1. /\ stage = "documents" /\ Top.stage = "census" /\ counts \in Counts
      /\ Top.at <= Len(doc.nodes)
  BY CountedTyped DEF CensusNode, InCensus, InStage
<1>2. CASE Update(f)
  <2>1. FrameTyped(Top) /\ Top.name \in Names /\ Top.at \in Nat \ {0}
        /\ (Top.name = Root <=> Len(frames) = 1) /\ input \in Inputs
    BY <1>1, TopTyped, SharedIn
  <2>2. f.external = list /\ f.stage = "census"
    <3>1. f.external = list
      BY <1>1, <2>1, FrameCounts
    <3>2. f.stage = Top.stage
      BY <2>1 DEF FrameTyped, FrameWith, Counting
    <3>3. QED
      BY <1>1, <3>1, <3>2
  <2> HIDE DEF f
  <2>3. /\ UNCHANGED <<input, loads>> /\ frames # <<>> /\ frames' # <<>>
        /\ frames'[Len(frames')] = IF Len(frames) = 1 THEN f ELSE frames[Len(frames)]
        /\ Len(frames) = 1 => frames[Len(frames)] = Top
    BY <1>1, <1>2, LastUpdated
  <2>4. RootLists(frames[Len(frames)])
    BY <2>3 DEF ListInv
  <2>5. CASE Len(frames) = 1
    <3>1. doc = input.document /\ doc \in Documents
      BY <2>1, <2>5 DEF Document, Documents
    <3>2. doc.nodes \in Seq(ToSet(doc.nodes))
      BY <3>1, DocumentsAssumption
    <3>3. node \in ToSet(doc.nodes)
      <4>1. Top.at \in DOMAIN doc.nodes
        BY <1>1, <2>1, <3>2
      <4>2. QED
        BY <4>1 DEF ToSet
    <3>4. node.refs \in Seq(ToSet(node.refs))
      BY <3>1, <3>3, DocumentsAssumption
    <3> DEFINE X == Files(doc)
    <3>5. \A k \in DOMAIN node.refs : IsFile(node.refs[k]) => node.refs[k].target \in X
      BY <3>3 DEF Files, IsFile, ToSet
    <3>6. Top.external \in Seq(X) /\ Distinct(Top.external)
      BY <2>3, <2>4, <2>5, <3>1 DEF RootLists
    <3> HIDE DEF X
    <3>7. list \in Seq(X) /\ Distinct(list)
      BY <3>4, <3>5, <3>6, ListedDistinct
    <3>8. RootLists(f)
      BY <2>2, <3>1, <3>7 DEF RootLists, X
    <3>9. QED
      BY <2>3, <2>5, <3>8 DEF ListInv, RootLists
  <2>6. CASE Len(frames) # 1
    BY <2>3, <2>4, <2>6 DEF ListInv, RootLists
  <2>7. QED
    BY <2>5, <2>6
<1>3. CASE Stop("limit")
  BY <1>3 DEF Stop, ListInv, RootLists
<1>4. Update(f) \/ Stop("limit")
  BY DEF CensusNode, Counting
<1>5. QED
  BY <1>2, <1>3, <1>4

\* An image that is taken leaves the lists alone.
LEMMA TakeLists ==
  ASSUME IngestInv, ListInv, stage = "documents", NEW name \in DOMAIN Resources,
         TakeRaster(name) \/ TakeSvg(name)
  PROVE  ListInv'
<1>1. /\ FrameTyped(Top) /\ frames # <<>> /\ DOMAIN frames = 1 .. Len(frames)
      /\ Len(frames) \in Nat \ {0}
  BY TopTyped
<1>2. CASE TakeRaster(name)
  <2>1. Update(KeepTree(Top, name))
    BY <1>2 DEF TakeRaster, KeepTree
  <2>2. KeepTree(Top, name).stage = Top.stage /\ KeepTree(Top, name).external = Top.external
    BY <1>1, KeptFields
  <2>3. QED
    BY <2>1, <2>2, UpdatedLists
<1>3. CASE TakeSvg(name)
  <2>1. UNCHANGED <<input, loads>> /\ frames \in Seq(ToSet(frames))
        /\ frames' = Pushing(frames, Frame(name, NestedDepth))
    BY <1>3 DEF TakeSvg, IngestInv, FrameInv, FramesTyped, Pushing
  <2>2. /\ Len(frames') = Len(frames) + 1 /\ frames' \in Seq(ToSet(frames'))
        /\ \A i \in DOMAIN frames' : i # 1 => i - 1 \in DOMAIN frames /\ frames'[i] = frames[i - 1]
    BY ONLY <2>1, Pushed
  <2>3. Len(frames') \in DOMAIN frames' /\ Len(frames') # 1 /\ Len(frames') - 1 = Len(frames)
    BY <1>1, <2>2
  <2>4. frames'[Len(frames')] = frames[Len(frames)]
    BY <2>2, <2>3
  <2>5. QED
    BY <1>1, <2>1, <2>4 DEF ListInv, RootLists
<1>4. QED
  BY <1>2, <1>3

\* So does the return of a nested document.
LEMMA ReturnLists == ASSUME IngestInv, ListInv, ReturnNested PROVE ListInv'
<1> DEFINE f == KeepTree(frames[2], Top.name)
<1>1. /\ stage = "documents" /\ UNCHANGED <<input, loads>>
      /\ Len(frames) # 1 /\ Len(frames) \in Nat \ {0} /\ DOMAIN frames = 1 .. Len(frames)
      /\ Top.name \in DOMAIN Resources
  BY TopTyped DEF ReturnNested, ImagesDone, InStage, Names
<1>2. /\ frames \in Seq(ToSet(frames)) /\ Len(frames) > 1
      /\ 2 \in DOMAIN frames /\ Top = frames[1] /\ frames # <<>>
  BY <1>1, TopTyped DEF IngestInv, FrameInv, FramesTyped
<1>3. frames' = Popping(frames, f)
  BY <1>2 DEF ReturnNested, Popping, Rest, Top
<1>4. f.stage = frames[2].stage /\ f.external = frames[2].external
  <2>1. FrameTyped(frames[2])
    BY <1>2 DEF IngestInv, FrameInv, FramesTyped
  <2>2. QED
    BY <1>1, <2>1, KeptFields
<1> HIDE DEF f
<1>5. /\ frames' \in Seq(ToSet(frames')) /\ Len(frames') = Len(frames) - 1
      /\ frames'[1] = f /\ \A i \in DOMAIN frames' : i # 1 => frames'[i] = frames[i + 1]
  BY ONLY <1>2, <1>3, Popped
<1>6. RootLists(frames[Len(frames)])
  BY <1>2 DEF ListInv
<1>7. RootLists(frames'[Len(frames')])
  <2>1. CASE Len(frames) = 2
    <3>1. frames'[Len(frames')] = f
      BY <1>5, <2>1
    <3>2. QED
      BY <1>4, <1>6, <2>1, <3>1, ListStands
  <2>2. CASE Len(frames) # 2
    <3>1. Len(frames') \in DOMAIN frames' /\ Len(frames') # 1 /\ Len(frames') + 1 = Len(frames)
      BY <1>1, <1>2, <1>5, <2>2
    <3>2. QED
      BY <1>5, <1>6, <3>1
  <2>3. QED
    BY <2>1, <2>2
<1>8. QED
  BY <1>1, <1>7 DEF ListInv, RootLists

\* The files of the input's own document are begun with only if there is a
\* provider or none of them.
LEMMA TurnLists == ASSUME IngestInv, ListInv, AdmitDocument \/ BeginExternal PROVE ListInv'
<1>1. stage = "documents"
  BY DEF AdmitDocument, BeginExternal, ImagesDone, InStage
<1>2. FrameTyped(Top)
  BY <1>1, TopTyped
<1>3. \A to \in {"images", "external"} :
        Turning(Top, to).stage = to /\ Turning(Top, to).external = Top.external
  BY <1>2 DEF Turning, FrameTyped, FrameWith
<1>4. CASE AdmitDocument
  <2>1. Update(Turning(Top, "images")) \/ Stop("rejected")
    BY <1>4 DEF AdmitDocument, Turning
  <2>2. CASE Update(Turning(Top, "images"))
    BY <1>1, <1>3, <2>2, UpdatedLists
  <2>3. CASE Stop("rejected")
    BY <2>3 DEF Stop, ListInv, RootLists
  <2>4. QED
    BY <2>1, <2>2, <2>3
<1>5. CASE BeginExternal
  <2>1. \/ Update(Turning(Top, "external")) /\ (Top.external = <<>> \/ input.provider)
        \/ Stop("rejected")
    BY <1>5 DEF BeginExternal, Turning
  <2>2. CASE Update(Turning(Top, "external")) /\ (Top.external = <<>> \/ input.provider)
    BY <1>1, <1>3, <2>2, UpdatedLists
  <2>3. CASE Stop("rejected")
    BY <2>3 DEF Stop, ListInv, RootLists
  <2>4. QED
    BY <2>1, <2>2, <2>3
<1>6. QED
  BY <1>4, <1>5

LEMMA ImageLists == ASSUME IngestInv, ListInv, DataImage \/ ExternalImage PROVE ListInv'
<1>1. ASSUME NEW name, TakeRaster(name) \/ TakeSvg(name), name \in DOMAIN Resources,
             stage = "documents"
      PROVE  ListInv'
  BY <1>1, TakeLists
<1>2. CASE Stop("rejected")
  BY <1>2 DEF Stop, ListInv, RootLists
<1>3. CASE DataImage
  <2> DEFINE images == DataImages(Document(Top.name))
  <2>1. stage = "documents" /\ Top.at <= Len(images)
    BY <1>3 DEF DataImage, InStage
  <2>2. Top.name \in Names /\ Top.at \in Nat \ {0} /\ input \in Inputs
    BY <2>1, TopTyped, SharedIn
  <2>3. images \in Seq(DOMAIN Resources)
    BY <2>2, DocumentsTyped
  <2>4. images[Top.at] \in DOMAIN Resources
    <3>1. Top.at \in 1 .. Len(images)
      BY <2>1, <2>2, <2>3
    <3> HIDE DEF images
    <3>2. QED
      BY <2>3, <3>1
  <2>5. \/ TakeRaster(images[Top.at]) \/ TakeSvg(images[Top.at]) \/ Stop("rejected")
    BY <1>3 DEF DataImage
  <2> HIDE DEF images
  <2>6. QED
    BY <1>1, <1>2, <2>1, <2>4, <2>5
<1>4. CASE ExternalImage
  <2>1. InStage("external") /\ Len(loads) = Top.at
    BY <1>4 DEF ExternalImage, Loaded
  <2>2. /\ stage = "documents" /\ Top.at \in Nat \ {0}
        /\ Top.stage = "external"
        /\ RootFollows(Top, loads) /\ loads \in Seq(DOMAIN Resources)
    BY <2>1, AtExternal, SharedIn
  <2>3. Top.at \in DOMAIN loads /\ loads[Top.at] \in DOMAIN Resources
    BY <2>1, <2>2
  <2>4. Top.external[Top.at] \in DOMAIN Resources
    BY <2>2, <2>3 DEF RootFollows
  <2>5. \/ TakeRaster(Top.external[Top.at]) \/ TakeSvg(Top.external[Top.at]) \/ Stop("rejected")
    BY <1>4 DEF ExternalImage
  <2>6. QED
    BY <1>1, <1>2, <2>2, <2>4, <2>5
<1>5. QED
  BY <1>3, <1>4

\* Every step keeps the list of the input's own document.
LEMMA ListsNext == ASSUME IngestInv, ListInv, [Next]_vars PROVE ListInv'
<1>1. CASE UNCHANGED <<input, frames, loads>>
  BY <1>1 DEF ListInv, RootLists
<1>2. CASE ParseRoot
  <2>1. UNCHANGED <<input, loads>> /\ frames' = <<Frame(Root, 0)>>
    BY <1>2 DEF ParseRoot
  <2>2. Frame(Root, 0).external = <<>> /\ Frame(Root, 0).stage = "census"
    BY DEF Frame
  <2>3. Len(frames') = 1 /\ frames'[1] = Frame(Root, 0)
    BY <2>1
  <2>4. <<>> \in Seq(Files(input.document)) /\ Distinct(<<>>)
    BY DEF Distinct
  <2>5. QED
    BY <2>1, <2>2, <2>3, <2>4 DEF ListInv, RootLists
<1>3. CASE CensusNode
  BY <1>3, CensusLists
<1>4. CASE AdmitDocument \/ BeginExternal
  BY <1>4, TurnLists
<1>5. CASE DataImage \/ ExternalImage
  BY <1>5, ImageLists
<1>6. CASE ReturnNested
  BY <1>6, ReturnLists
<1>7. CASE LoadExternal
  <2>1. CASE Stop("rejected")
    BY <1>1, <2>1 DEF Stop
  <2>2. CASE UNCHANGED <<input, frames>> /\ loads' = Append(loads, Top.external[Top.at])
    <3>1. stage = "documents" /\ Top.stage = "external" /\ Top.at <= Len(Top.external)
          /\ Len(loads) < Top.at
      BY <1>7 DEF LoadExternal, AtLoad, InStage
    <3>2. /\ Len(frames) = 1 /\ frames # <<>> /\ Top = frames[1] /\ Top.at \in Nat
          /\ loads \in Seq(LegalPaths)
      BY <3>1, TopTyped, SharedIn
    <3>3. RootLists(Top)
      BY <3>2 DEF ListInv
    <3>4. Len(loads') = Len(loads) + 1 /\ Len(loads) \in Nat
      BY <2>2, <3>2
    <3>5. Len(Top.external) \in Nat
      BY <3>3 DEF RootLists
    <3>6. Len(loads') <= Len(Top.external)
      BY <3>1, <3>2, <3>4, <3>5
    <3>7. QED
      BY <2>2, <3>2, <3>3, <3>6 DEF ListInv, RootLists
  <2>3. QED
    BY <1>7, <2>1, <2>2 DEF LoadExternal
<1>8. UNCHANGED <<input, frames, loads>> \/ ParseRoot \/ CensusNode \/ AdmitDocument
        \/ BeginExternal \/ DataImage \/ ExternalImage \/ ReturnNested \/ LoadExternal
  BY DEF Next, vars, Cancel, NoticeCancel, CheckInput, RejectInput, Inflate, InflateTooFar,
         InflateCorrupt, InflateEnds, RejectRoot, ProviderFails, TreeFails,
         BuildTree, CountTree, Accept, Stop
<1>9. QED
  BY <1>1, <1>2, <1>3, <1>4, <1>5, <1>6, <1>7, <1>8

\* What a document has listed are files of its own, each of them once.
THEOREM FilesListed == Spec => []ListInv
<1>1. Init => ListInv
  BY DEF Init, ListInv
<1>2. IngestInv /\ ListInv /\ [Next]_vars => ListInv'
  BY ListsNext
<1>3. QED
  BY <1>1, <1>2, IngestInvariant, PTL DEF Spec

\* The provider is asked only when there is one, only for legal paths the
\* input's own document refers to, and for each at most once: a file is listed
\* once however often it is referred to, and loaded in the order of the list.
THEOREM EachLoadedOnce == Spec => []LoadedOnce
<1>1. ASSUME IngestInv, ListInv PROVE LoadedOnce
  <2> SUFFICES ASSUME loads # <<>> PROVE LoadedOnce
    BY DEF LoadedOnce
  <2> DEFINE root == frames[Len(frames)]
             doc  == input.document
  <2>1. frames # <<>> /\ RootFollows(root, loads) /\ RootLists(root)
    BY <1>1 DEF IngestInv, FrameInv, LoadsFollow, ListInv
  <2>2. loads \in Seq(LegalPaths) /\ input \in Inputs
    BY <1>1, SharedIn
  <2> HIDE DEF root
  <2>3. root.stage = "external"
    BY <2>1 DEF RootFollows
  <2>4. /\ \A k \in DOMAIN loads : loads[k] = root.external[k] /\ k \in DOMAIN root.external
        /\ root.external \in Seq(Files(doc))
    <3>1. /\ \A k \in DOMAIN loads : loads[k] = root.external[k]
          /\ root.external \in Seq(Files(doc)) /\ Len(loads) <= Len(root.external)
      BY <2>1, <2>3 DEF RootFollows, RootLists
    <3>2. \A k \in DOMAIN loads : k \in DOMAIN root.external
      BY <2>2, <3>1
    <3>3. QED
      BY <3>1, <3>2
  <2>5. \A i, j \in DOMAIN loads : loads[i] = loads[j] => i = j
    BY <2>1, <2>4 DEF RootLists, Distinct
  <2>6. ASSUME NEW i \in DOMAIN loads
        PROVE  /\ loads[i] \in LegalPaths
               /\ \E k \in DOMAIN doc.nodes : \E r \in DOMAIN doc.nodes[k].refs :
                    doc.nodes[k].refs[r].kind = "external" /\ doc.nodes[k].refs[r].target = loads[i]
    <3>1. loads[i] \in LegalPaths
      BY <2>2
    <3>2. loads[i] \in Files(doc)
      BY <2>4
    <3>3. PICK node \in ToSet(doc.nodes) : \E ref \in ToSet(node.refs) :
            IsFile(ref) /\ loads[i] = ref.target
      BY <3>2 DEF Files, IsFile
    <3>4. PICK ref \in ToSet(node.refs) : IsFile(ref) /\ loads[i] = ref.target
      BY <3>3
    <3>5. ref.kind = "external"
      <4>1. doc \in Documents
        BY <2>2 DEF Documents
      <4>2. /\ ref.kind \in {"local", "data", "shouted", "external"}
            /\ ref.kind = "shouted" => ref.target \notin LegalPaths
        BY <3>3, <3>4, <4>1, DocumentsAssumption
      <4>3. QED
        BY <3>1, <3>4, <4>2 DEF IsFile
    <3>6. QED
      BY <3>1, <3>3, <3>4, <3>5 DEF ToSet
  <2>7. input.provider
    <3>1. root.external # <<>>
      <4>1. Len(loads) # 0 /\ Len(loads) \in Nat /\ Len(<<>>) = 0
        BY <2>2
      <4>2. Len(loads) <= Len(root.external) /\ Len(root.external) \in Nat
        BY <2>1, <2>3, <2>4 DEF RootLists
      <4>3. QED
        BY <4>1, <4>2
    <3>2. QED
      BY <2>1, <2>3, <3>1 DEF RootLists
  <2>8. QED
    BY <2>3, <2>5, <2>6, <2>7 DEF LoadedOnce, root
<1>2. QED
  BY <1>1, IngestInvariant, FilesListed, PTL

-----------------------------------------------------------------------------
(* What a document refers to                                               *)

LEMMA FlattenRange ==
  ASSUME NEW D, NEW seqs \in Seq(Seq(D))
  PROVE  /\ FlattenSeq(seqs) \in Seq(D)
         /\ ToSet(FlattenSeq(seqs)) = UNION {ToSet(seqs[i]) : i \in 1 .. Len(seqs)}
<1>1. [x \in D |-> 0] \in [D -> Nat]
  OBVIOUS
<1>2. QED
  BY <1>1, FlattenFacts

\* Some image of the document refers to x, by a reference of the kinds.
Refers(doc, kinds, x) ==
  \E i \in DOMAIN doc.nodes : \E j \in DOMAIN doc.nodes[i].refs :
    /\ doc.nodes[i].tag = "image" /\ doc.nodes[i].refs[j].kind \in kinds
    /\ doc.nodes[i].refs[j].target = x

LEMMA OptionalOf ==
  ASSUME NEW D, NEW c \in BOOLEAN, NEW x, c => x \in D
  PROVE  /\ (IF c THEN <<x>> ELSE <<>>) \in Seq(D)
         /\ ToSet(IF c THEN <<x>> ELSE <<>>) = IF c THEN {x} ELSE {}
<1>1. CASE c
  BY <1>1 DEF ToSet
<1>2. CASE ~c
  BY <1>2 DEF ToSet
<1>3. QED
  BY <1>1, <1>2

LEMMA ImageHrefsOf ==
  ASSUME NEW D, NEW node, NEW kinds, node.refs \in Seq(ToSet(node.refs)),
         \A j \in DOMAIN node.refs :
           node.tag = "image" /\ node.refs[j].kind \in kinds => node.refs[j].target \in D
  PROVE  /\ ImageHrefs(node, kinds) \in Seq(D)
         /\ \A x : x \in ToSet(ImageHrefs(node, kinds)) <=>
              \E j \in DOMAIN node.refs :
                node.tag = "image" /\ node.refs[j].kind \in kinds /\ node.refs[j].target = x
<1> DEFINE m == Len(node.refs)
           c(j) == node.tag = "image" /\ node.refs[j].kind \in kinds
           one(j) == IF c(j) THEN <<node.refs[j].target>> ELSE <<>>
           seqs == [j \in DOMAIN node.refs |-> one(j)]
<1>1. m \in Nat /\ DOMAIN node.refs = 1 .. m
  OBVIOUS
<1> HIDE DEF m
<1>2. ASSUME NEW j \in 1 .. m
      PROVE  one(j) \in Seq(D) /\ ToSet(one(j)) = IF c(j) THEN {node.refs[j].target} ELSE {}
  <2>1. c(j) \in BOOLEAN /\ (c(j) => node.refs[j].target \in D)
    BY <1>1
  <2> HIDE DEF c
  <2>2. QED
    BY <2>1, OptionalOf
<1>3. seqs \in Seq(Seq(D)) /\ Len(seqs) = m
  <2>1. seqs \in [1 .. m -> Seq(D)]
    BY <1>1, <1>2
  <2>2. QED
    BY ONLY <1>1, <2>1, FunctionSequence
<1>4. \A j \in 1 .. m : seqs[j] = one(j)
  BY <1>1
<1>5. ImageHrefs(node, kinds) = FlattenSeq(seqs)
  BY DEF ImageHrefs
<1> HIDE DEF seqs, one
<1>6. /\ FlattenSeq(seqs) \in Seq(D)
      /\ ToSet(FlattenSeq(seqs)) = UNION {ToSet(seqs[j]) : j \in 1 .. Len(seqs)}
  BY <1>3, FlattenRange
<1>7. ASSUME NEW x
      PROVE  x \in ToSet(FlattenSeq(seqs)) <=> \E j \in 1 .. m : c(j) /\ node.refs[j].target = x
  <2>1. x \in ToSet(FlattenSeq(seqs)) <=> \E j \in 1 .. m : x \in ToSet(seqs[j])
    BY <1>3, <1>6
  <2>2. \A j \in 1 .. m : x \in ToSet(seqs[j]) <=> c(j) /\ node.refs[j].target = x
    <3> HIDE DEF c
    <3>1. QED
      BY <1>2, <1>4
  <2>3. QED
    BY <2>1, <2>2, Zenon
<1>8. QED
  BY <1>1, <1>5, <1>6, <1>7

LEMMA HrefsOf ==
  ASSUME NEW doc \in Documents, NEW kinds, NEW D,
         \A x : Refers(doc, kinds, x) => x \in D
  PROVE  /\ Hrefs(doc, kinds) \in Seq(D)
         /\ \A x : x \in ToSet(Hrefs(doc, kinds)) <=> Refers(doc, kinds, x)
<1> DEFINE nodes == doc.nodes
           m == Len(nodes)
           seqs == [i \in DOMAIN nodes |-> ImageHrefs(nodes[i], kinds)]
           Has(i, x) == \E j \in DOMAIN nodes[i].refs :
                          /\ nodes[i].tag = "image" /\ nodes[i].refs[j].kind \in kinds
                          /\ nodes[i].refs[j].target = x
<1>1. /\ nodes \in Seq(ToSet(nodes))
      /\ \A node \in ToSet(nodes) : node.refs \in Seq(ToSet(node.refs))
  BY DocumentsAssumption
<1>2. m \in Nat /\ DOMAIN nodes = 1 .. m /\ \A i \in 1 .. m : nodes[i] \in ToSet(nodes)
  BY <1>1 DEF ToSet
<1> HIDE DEF m
<1>r. \A x : Refers(doc, kinds, x) <=> \E i \in 1 .. m : Has(i, x)
  BY <1>2 DEF Refers
<1> HIDE DEF nodes
<1>3. ASSUME NEW i \in 1 .. m
      PROVE  /\ ImageHrefs(nodes[i], kinds) \in Seq(D)
             /\ \A x : x \in ToSet(ImageHrefs(nodes[i], kinds)) <=> Has(i, x)
  <2> DEFINE node == nodes[i]
  <2>1. node.refs \in Seq(ToSet(node.refs))
    BY <1>1, <1>2
  <2>2. \A j \in DOMAIN node.refs :
          node.tag = "image" /\ node.refs[j].kind \in kinds => node.refs[j].target \in D
    BY <1>r
  <2> HIDE DEF node
  <2>3. /\ ImageHrefs(node, kinds) \in Seq(D)
        /\ \A x : x \in ToSet(ImageHrefs(node, kinds)) <=>
              \E j \in DOMAIN node.refs :
                node.tag = "image" /\ node.refs[j].kind \in kinds /\ node.refs[j].target = x
    BY ONLY <2>1, <2>2, ImageHrefsOf
  <2>4. QED
    BY <2>3 DEF node
<1>4. seqs \in Seq(Seq(D)) /\ Len(seqs) = m /\ \A i \in 1 .. m : seqs[i] = ImageHrefs(nodes[i], kinds)
  <2>1. seqs \in [1 .. m -> Seq(D)]
    BY <1>2, <1>3
  <2>2. seqs \in Seq(Seq(D)) /\ Len(seqs) = m
    BY ONLY <1>2, <2>1, FunctionSequence
  <2>3. QED
    BY <1>2, <2>2
<1>5. Hrefs(doc, kinds) = FlattenSeq(seqs)
  BY DEF Hrefs, nodes
<1> HIDE DEF seqs
<1>6. /\ FlattenSeq(seqs) \in Seq(D)
      /\ ToSet(FlattenSeq(seqs)) = UNION {ToSet(seqs[i]) : i \in 1 .. Len(seqs)}
  BY <1>4, FlattenRange
<1>7. ASSUME NEW x
      PROVE  x \in ToSet(FlattenSeq(seqs)) <=> \E i \in 1 .. m : Has(i, x)
  <2>1. x \in ToSet(FlattenSeq(seqs)) <=> \E i \in 1 .. m : x \in ToSet(seqs[i])
    BY <1>4, <1>6
  <2>2. \A i \in 1 .. m : x \in ToSet(seqs[i]) <=> Has(i, x)
    <3> HIDE DEF Has
    <3>1. QED
      BY <1>3, <1>4
  <2> HIDE DEF Has
  <2>3. QED
    BY <2>1, <2>2, Zenon
<1> HIDE DEF Has
<1>8. QED
  BY <1>r, <1>5, <1>6, <1>7

\* x is a file of the document.
IsFileOf(doc, x) ==
  \E i \in DOMAIN doc.nodes : \E j \in DOMAIN doc.nodes[i].refs :
    IsFile(doc.nodes[i].refs[j]) /\ doc.nodes[i].refs[j].target = x

LEMMA FileOf ==
  ASSUME NEW doc \in Documents, NEW x
  PROVE  x \in Files(doc) <=> IsFileOf(doc, x)
<1> DEFINE Of(node) == {ref.target : ref \in {r \in ToSet(node.refs) : r.kind \notin {"local", "data"}}}
<1>1. x \in Files(doc) <=> \E node \in ToSet(doc.nodes) : x \in Of(node)
  BY DEF Files
<1>2. \A node : x \in Of(node) <=>
        \E ref \in ToSet(node.refs) : ref.kind \notin {"local", "data"} /\ ref.target = x
  OBVIOUS
<1> HIDE DEF Of
<1>3. \A node : x \in Of(node) <=>
        \E j \in DOMAIN node.refs : IsFile(node.refs[j]) /\ node.refs[j].target = x
  BY <1>2 DEF ToSet, IsFile
<1>4. (\E node \in ToSet(doc.nodes) : x \in Of(node)) <=>
        \E i \in DOMAIN doc.nodes : x \in Of(doc.nodes[i])
  BY DEF ToSet
<1>5. QED
  BY <1>1, <1>3, <1>4 DEF IsFileOf

\* A document with no files shows its data images.
LEMMA FilelessHrefs ==
  ASSUME NEW doc \in Documents, Files(doc) = {}
  PROVE  Hrefs(doc, Shows) = DataImages(doc)
<1>1. /\ doc.nodes \in Seq(ToSet(doc.nodes))
      /\ \A node \in ToSet(doc.nodes) : node.refs \in Seq(ToSet(node.refs))
  BY DocumentsAssumption
<1>2. \A i \in DOMAIN doc.nodes : \A j \in DOMAIN doc.nodes[i].refs :
        doc.nodes[i].refs[j].kind \in {"local", "data"}
  <2> SUFFICES ASSUME NEW i \in DOMAIN doc.nodes, NEW j \in DOMAIN doc.nodes[i].refs
               PROVE  ~IsFile(doc.nodes[i].refs[j])
    BY DEF IsFile
  <2>1. ~IsFileOf(doc, doc.nodes[i].refs[j].target)
    BY FileOf
  <2>2. QED
    BY <2>1 DEF IsFileOf
<1>3. \A i \in DOMAIN doc.nodes :
        ImageHrefs(doc.nodes[i], Shows) = ImageHrefs(doc.nodes[i], {"data", "shouted"})
  <2> SUFFICES ASSUME NEW i \in DOMAIN doc.nodes
               PROVE  ImageHrefs(doc.nodes[i], Shows) = ImageHrefs(doc.nodes[i], {"data", "shouted"})
    OBVIOUS
  <2> DEFINE node == doc.nodes[i]
             Seqs(kinds) == [j \in DOMAIN node.refs |->
                               IF node.tag = "image" /\ node.refs[j].kind \in kinds
                               THEN <<node.refs[j].target>> ELSE <<>>]
  <2>1. \A j \in DOMAIN node.refs :
          node.refs[j].kind \in Shows <=> node.refs[j].kind \in {"data", "shouted"}
    BY <1>2 DEF Shows
  <2>2. Seqs(Shows) = Seqs({"data", "shouted"})
    BY <2>1
  <2>3. QED
    BY <2>2 DEF ImageHrefs
<1>4. QED
  BY <1>3 DEF Hrefs, DataImages

\* What a document shows are the documents among its images.
LEMMA ShownOf ==
  ASSUME NEW doc, Hrefs(doc, Shows) \in Seq(DOMAIN Resources),
         NEW f \in [DOMAIN Resources -> Nat],
         \A name \in DOMAIN Resources : ~Resources[name].svg => f[name] = 0
  PROVE  /\ Shown(doc) \in Seq(DOMAIN Resources)
         /\ \A x \in ToSet(Shown(doc)) : x \in ToSet(Hrefs(doc, Shows)) /\ Resources[x].svg
         /\ SumOf(f, Shown(doc)) = SumOf(f, Hrefs(doc, Shows))
<1> DEFINE hrefs == Hrefs(doc, Shows)
           D == DOMAIN Resources
           m == Len(hrefs)
           one(i) == IF Resources[hrefs[i]].svg THEN <<hrefs[i]>> ELSE <<>>
           seqs == [i \in DOMAIN hrefs |-> one(i)]
<1>1. m \in Nat /\ DOMAIN hrefs = 1 .. m /\ \A i \in 1 .. m : hrefs[i] \in D
  OBVIOUS
<1>2. Shown(doc) = FlattenSeq(seqs)
  BY DEF Shown
<1> HIDE DEF hrefs, m
<1>3. ASSUME NEW i \in 1 .. m
      PROVE  /\ one(i) \in Seq(D)
             /\ \A x \in ToSet(one(i)) : x = hrefs[i] /\ Resources[x].svg
             /\ SumOf(f, one(i)) = f[hrefs[i]]
  <2>1. CASE Resources[hrefs[i]].svg
    <3>1. one(i) = <<hrefs[i]>>
      BY <2>1
    <3>2. hrefs[i] \in D
      BY <1>1
    <3>3. SumOf(f, <<hrefs[i]>>) = f[hrefs[i]]
      BY <3>2, SumOfOne
    <3>4. QED
      BY <2>1, <3>1, <3>2, <3>3 DEF ToSet
  <2>2. CASE ~Resources[hrefs[i]].svg
    <3>1. one(i) = <<>>
      BY <2>2
    <3>2. f[hrefs[i]] = 0
      BY <1>1, <2>2
    <3>3. <<>> \in Seq(D) /\ ToSet(<<>>) = {}
      BY DEF ToSet
    <3>4. SumOf(f, <<>>) = 0
      BY SumOfEmpty
    <3> HIDE DEF one
    <3>5. QED
      BY <3>1, <3>2, <3>3, <3>4
  <2>3. QED
    BY <2>1, <2>2
<1>4. seqs \in Seq(Seq(D)) /\ Len(seqs) = m /\ \A i \in 1 .. m : seqs[i] = one(i)
  <2>1. seqs \in [1 .. m -> Seq(D)]
    BY <1>1, <1>3
  <2>2. seqs \in Seq(Seq(D)) /\ Len(seqs) = m
    BY ONLY <1>1, <2>1, FunctionSequence
  <2>3. QED
    BY <1>1, <2>2
<1> HIDE DEF seqs, one
<1>5. /\ FlattenSeq(seqs) \in Seq(D)
      /\ ToSet(FlattenSeq(seqs)) = UNION {ToSet(seqs[i]) : i \in 1 .. Len(seqs)}
      /\ SumOf(f, FlattenSeq(seqs)) = Total([i \in 1 .. Len(seqs) |-> SumOf(f, seqs[i])])
  BY <1>4, FlattenFacts
<1>6. [i \in 1 .. Len(seqs) |-> SumOf(f, seqs[i])] = [i \in DOMAIN hrefs |-> f[hrefs[i]]]
  BY <1>1, <1>3, <1>4
<1>7. SumOf(f, FlattenSeq(seqs)) = SumOf(f, hrefs)
  BY <1>5, <1>6 DEF SumOf
<1>8. \A x \in ToSet(FlattenSeq(seqs)) : x \in ToSet(hrefs) /\ Resources[x].svg
  <2> SUFFICES ASSUME NEW x \in ToSet(FlattenSeq(seqs))
               PROVE  x \in ToSet(hrefs) /\ Resources[x].svg
    OBVIOUS
  <2>1. PICK i \in 1 .. m : x \in ToSet(seqs[i])
    BY <1>4, <1>5
  <2>2. x = hrefs[i] /\ Resources[x].svg
    BY <1>3, <1>4, <2>1
  <2>3. QED
    BY <1>1, <2>2 DEF ToSet
<1>9. QED
  BY <1>2, <1>5, <1>7, <1>8 DEF hrefs

\* What a document refers to is finite.
LEMMA RangeFinite ==
  ASSUME NEW n \in Nat, NEW g
  PROVE  IsFiniteSet({g[i] : i \in 1 .. n})
<1> DEFINE h == [i \in 1 .. n |-> g[i]]
           T == {g[i] : i \in 1 .. n}
<1>1. IsFiniteSet(1 .. n)
  BY FS_Interval
<1>2. h \in Surjection(1 .. n, T)
  BY DEF Surjection
<1>3. IsFiniteSet(T)
  BY <1>1, <1>2, FS_Surjection
<1>4. QED
  BY <1>3

LEMMA FiniteUnion ==
  ASSUME NEW m \in Nat, NEW g, \A i \in 1 .. m : IsFiniteSet(g[i])
  PROVE  IsFiniteSet(UNION {g[i] : i \in 1 .. m})
<1> DEFINE Upto(k) == UNION {g[i] : i \in 1 .. k}
           S == {k \in 0 .. m : IsFiniteSet(Upto(k))}
<1>1. 0 \in S
  <2>1. Upto(0) = {} /\ 0 \in 0 .. m
    OBVIOUS
  <2>2. IsFiniteSet({})
    BY FS_EmptySet
  <2>3. QED
    BY <2>1, <2>2
<1>2. ASSUME NEW k \in 0 .. m - 1, k \in S PROVE k + 1 \in S
  <2>1. k + 1 \in 1 .. m /\ k + 1 \in 0 .. m /\ 1 .. k + 1 = (1 .. k) \cup {k + 1}
    OBVIOUS
  <2>2. Upto(k + 1) = Upto(k) \cup g[k + 1]
    BY <2>1
  <2>3. IsFiniteSet(Upto(k)) /\ IsFiniteSet(g[k + 1])
    BY <1>2, <2>1
  <2> HIDE DEF Upto
  <2>4. IsFiniteSet(Upto(k) \cup g[k + 1])
    BY <2>3, FS_Union
  <2>5. QED
    BY <2>1, <2>2, <2>4
<1>3. m \in S
  <2> HIDE DEF S
  <2>1. 0 .. m \subseteq S
    BY <1>1, <1>2, IntervalInduction
  <2>2. QED
    BY <2>1
<1>4. QED
  BY <1>3

LEMMA FilesFinite ==
  ASSUME NEW doc \in Documents
  PROVE  IsFiniteSet(Files(doc))
<1> DEFINE nodes == doc.nodes
           m == Len(nodes)
           Of(node) == {node.refs[j].target : j \in 1 .. Len(node.refs)}
           g == [i \in 1 .. m |-> Of(nodes[i])]
<1>1. /\ nodes \in Seq(ToSet(nodes))
      /\ \A node \in ToSet(nodes) : node.refs \in Seq(ToSet(node.refs))
  BY DocumentsAssumption
<1>2. m \in Nat /\ DOMAIN nodes = 1 .. m /\ \A i \in 1 .. m : nodes[i] \in ToSet(nodes)
  BY <1>1 DEF ToSet
<1>3. ASSUME NEW i \in 1 .. m PROVE /\ IsFiniteSet(g[i]) /\ Len(nodes[i].refs) \in Nat
                                   /\ DOMAIN nodes[i].refs = 1 .. Len(nodes[i].refs)
  <2> DEFINE refs == nodes[i].refs
             h == [j \in DOMAIN refs |-> refs[j].target]
  <2>1. refs \in Seq(ToSet(refs))
    BY <1>1, <1>2
  <2>2. Len(refs) \in Nat /\ DOMAIN refs = 1 .. Len(refs)
    BY <2>1
  <2>3. Of(nodes[i]) = {h[j] : j \in 1 .. Len(refs)}
    BY <2>2
  <2> HIDE DEF h
  <2>4. IsFiniteSet({h[j] : j \in 1 .. Len(refs)})
    BY <2>2, RangeFinite
  <2>5. QED
    BY <2>2, <2>3, <2>4
<1>4. ASSUME NEW x \in Files(doc) PROVE \E i \in 1 .. m : x \in g[i]
  <2>1. PICK i \in 1 .. m : \E j \in DOMAIN nodes[i].refs : nodes[i].refs[j].target = x
    BY <1>2, FileOf DEF IsFileOf
  <2>2. QED
    BY <1>3, <2>1
<1> HIDE DEF g, m, nodes
<1>5. IsFiniteSet(UNION {g[i] : i \in 1 .. m})
  BY <1>2, <1>3, FiniteUnion
<1>6. Files(doc) \subseteq UNION {g[i] : i \in 1 .. m}
  BY <1>4
<1>7. QED
  BY <1>5, <1>6, FS_Subset

-----------------------------------------------------------------------------
(* Levels of documents                                                     *)

Depths == 0 .. Limits.nestedDepth
Held(name) == DataImages(Resources[name])

LEMMA HeldTyped ==
  ASSUME NEW name \in DOMAIN Resources
  PROVE  /\ Resources[name] \in Documents /\ Held(name) \in Seq(DOMAIN Resources)
         /\ Len(Held(name)) \in Nat /\ DOMAIN Held(name) = 1 .. Len(Held(name))
<1>1. Resources[name] \in Documents
  BY DEF Documents
<1>2. Held(name) \in Seq(DOMAIN Resources)
  BY <1>1, DocumentsAssumption DEF Held
<1>3. QED
  BY <1>1, <1>2

\* The recursion of Sound.
LEMMA SoundLevels ==
  /\ Sound \in [Depths -> SUBSET DOMAIN Resources]
  /\ Sound[0] = {name \in Decodable({}) : ~Resources[name].svg}
  /\ \A n \in 1 .. Limits.nestedDepth : Sound[n] = Decodable(Sound[n - 1])
<1> DEFINE m == Limits.nestedDepth
           T == SUBSET DOMAIN Resources
           c == {name \in Decodable({}) : ~Resources[name].svg}
           step == [n \in 1 .. m |-> [s \in T |-> Decodable(s)]]
           body(f) == [n \in 0 .. m |-> IF n = 0 THEN c ELSE Decodable(f[n - 1])]
<1>1. Sound = CHOOSE f : f = body(f)
  BY DEF Sound
<1>2. m \in Nat
  BY NumbersAssumption
<1>3. c \in T /\ \A s \in T : Decodable(s) \in T
  BY DEF Decodable
<1> HIDE DEF m, T, c
<1>4. step \in [1 .. m -> [T -> T]]
  BY <1>3
<1> HIDE DEF step
<1>5. PICK f \in [0 .. m -> T] : f[0] = c /\ \A n \in 1 .. m : f[n] = step[n][f[n - 1]]
  <2>1. c \in T
    BY <1>3
  <2>2. QED
    BY ONLY <1>2, <1>4, <2>1, Recursion
<1>6. f = body(f)
  <2>1. ASSUME NEW n \in 1 .. m PROVE f[n] = Decodable(f[n - 1])
    <3>1. n - 1 \in 0 .. m
      BY <1>2
    <3>2. f[n] = step[n][f[n - 1]] /\ f[n - 1] \in T
      BY <1>5, <3>1
    <3>3. QED
      BY <3>2 DEF step
  <2>2. f[0] = c /\ f = [n \in 0 .. m |-> f[n]] /\ m \in Nat
    BY <1>2, <1>5
  <2>3. \A k \in 0 .. m : f[k] = IF k = 0 THEN c ELSE Decodable(f[k - 1])
    <3> SUFFICES ASSUME NEW k \in 0 .. m PROVE f[k] = IF k = 0 THEN c ELSE Decodable(f[k - 1])
      OBVIOUS
    <3>1. k # 0 => k \in 1 .. m
      BY <1>2
    <3>2. QED
      BY <2>1, <2>2, <3>1
  <2>4. QED
    BY <2>2, <2>3, Zenon
<1>7. Sound = body(Sound)
  BY <1>1, <1>6
<1>8. /\ Sound[0] = c /\ \A n \in 1 .. m : Sound[n] = Decodable(Sound[n - 1])
      /\ Sound = [n \in 0 .. m |-> Sound[n]]
  <2>1. Sound = [k \in 0 .. m |-> IF k = 0 THEN c ELSE Decodable(Sound[k - 1])]
    BY <1>7
  <2>2. \A k \in 0 .. m : Sound[k] = IF k = 0 THEN c ELSE Decodable(Sound[k - 1])
    BY <2>1, Zenon
  <2>3. 0 \in 0 .. m /\ \A n \in 1 .. m : n \in 0 .. m /\ n # 0
    BY <1>2
  <2>4. Sound = [n \in 0 .. m |-> Sound[n]]
    BY <2>1
  <2>5. QED
    BY <2>2, <2>3, <2>4
<1> HIDE DEF body
<1> DEFINE S == {n \in 0 .. m : Sound[n] \in T}
<1>9. 0 \in S
  BY <1>2, <1>3, <1>8
<1>10. ASSUME NEW n \in 0 .. m - 1, n \in S PROVE n + 1 \in S
  <2>1. n + 1 \in 1 .. m /\ n + 1 \in 0 .. m /\ Sound[n] \in T /\ (n + 1) - 1 = n
    BY <1>2, <1>10
  <2>2. Sound[n + 1] = Decodable(Sound[n])
    BY <1>8, <2>1
  <2>3. QED
    BY <1>3, <2>1, <2>2
<1> HIDE DEF S
<1>11. 0 .. m \subseteq S
  BY <1>2, <1>9, <1>10, IntervalInduction
<1>12. Sound \in [0 .. m -> T]
  BY <1>8, <1>11 DEF S
<1>13. QED
  BY <1>8, <1>12 DEF Depths, m, T, c

\* Each level holds the one below.
LEMMA DecodableGrows ==
  ASSUME NEW s, NEW t, s \subseteq t PROVE Decodable(s) \subseteq Decodable(t)
BY DEF Decodable

LEMMA SoundGrows ==
  ASSUME NEW n \in Nat, n + 1 \in Depths PROVE Sound[n] \subseteq Sound[n + 1]
<1> DEFINE m == Limits.nestedDepth
           S == {k \in 0 .. m - 1 : Sound[k] \subseteq Sound[k + 1]}
<1>1. m \in Nat /\ n \in 0 .. m - 1 /\ m - 1 \in Nat
  BY NumbersAssumption DEF Depths
<1>2. 0 \in S
  <2>1. Sound[0] \subseteq Decodable({})
    BY SoundLevels
  <2>2. Decodable({}) \subseteq Decodable(Sound[0])
    BY DecodableGrows
  <2>3. Sound[1] = Decodable(Sound[0])
    <3>1. 1 \in 1 .. m /\ 1 - 1 = 0
      BY <1>1
    <3>2. Sound[1] = Decodable(Sound[1 - 1])
      BY <3>1, SoundLevels
    <3>3. QED
      BY <3>1, <3>2
  <2>4. QED
    BY <1>1, <2>1, <2>2, <2>3
<1>3. ASSUME NEW k \in 0 .. (m - 1) - 1, k \in S PROVE k + 1 \in S
  <2>1. k + 1 \in 1 .. m /\ k + 2 \in 1 .. m /\ (k + 1) - 1 = k /\ (k + 2) - 1 = k + 1
        /\ k + 1 \in 0 .. m - 1 /\ (k + 1) + 1 = k + 2
    BY <1>1
  <2>2. Sound[k + 1] = Decodable(Sound[(k + 1) - 1]) /\ Sound[k + 2] = Decodable(Sound[(k + 2) - 1])
    BY <2>1, SoundLevels
  <2>3. Decodable(Sound[k]) \subseteq Decodable(Sound[k + 1])
    BY <1>3, DecodableGrows
  <2>4. QED
    BY <2>1, <2>2, <2>3
<1> HIDE DEF S
<1>4. 0 .. m - 1 \subseteq S
  BY <1>1, <1>2, <1>3, IntervalInduction
<1>5. QED
  BY <1>1, <1>4 DEF S

\* What an image of a level is.
Alone(res) == /\ res.size <= Limits.resource /\ res.valid
              /\ res.svg => Fits(res) /\ Files(res) = {}
              /\ ~res.svg => res.pixels <= Limits.pixels

LEMMA SoundOf ==
  ASSUME NEW n \in Depths, NEW name \in DOMAIN Resources
  PROVE  name \in Sound[n] <=>
           /\ Alone(Resources[name])
           /\ Resources[name].svg => n # 0 /\ ToSet(Held(name)) \subseteq Sound[n - 1]
<1>1. Limits.nestedDepth \in Nat /\ n \in Nat
  BY NumbersAssumption DEF Depths
<1>2. CASE n = 0
  <2>1. name \in Sound[0] <=> name \in Decodable({}) /\ ~Resources[name].svg
    BY SoundLevels
  <2>2. QED
    BY <1>2, <2>1 DEF Decodable, Alone
<1>3. CASE n # 0
  <2>1. n \in 1 .. Limits.nestedDepth
    BY <1>1, <1>3 DEF Depths
  <2>2. Sound[n] = Decodable(Sound[n - 1])
    BY <2>1, SoundLevels
  <2>3. QED
    BY <1>3, <2>2 DEF Decodable, Alone, Held
<1>4. QED
  BY <1>2, <1>3

-----------------------------------------------------------------------------
(* What decoding costs                                                     *)

LEMMA OneMoreTyped ==
  ASSUME NEW count \in [DOMAIN Resources -> Nat], NEW sums \in [DOMAIN Resources -> Nat]
  PROVE  /\ OneMore(count, sums) \in [DOMAIN Resources -> Nat]
         /\ \A name \in DOMAIN Resources : OneMore(count, sums)[name] =
              count[name] + IF Resources[name].svg THEN SumOf(sums, Held(name)) ELSE 0
<1>1. \A name \in DOMAIN Resources : SumOf(sums, Held(name)) \in Nat /\ count[name] \in Nat
  BY HeldTyped, ValuesTyped
<1>2. \A name \in DOMAIN Resources :
        count[name] + (IF Resources[name].svg THEN SumOf(sums, Held(name)) ELSE 0) \in Nat
  BY <1>1
<1>3. QED
  BY <1>2 DEF OneMore, Held

\* The levels of Decoding: what a level finds of an image, it finds on any.
Levels(f, count) == /\ f \in [Depths -> [DOMAIN Resources -> Nat]]
                  /\ f[0] = count
                  /\ \A n \in 1 .. Limits.nestedDepth : f[n] = OneMore(count, f[n - 1])

LEMMA DecodingLevels ==
  ASSUME NEW count \in [DOMAIN Resources -> Nat]
  PROVE  \E f : Levels(f, count) /\ Decoding(count) = f[Limits.nestedDepth]
<1> DEFINE m == Limits.nestedDepth
           T == [DOMAIN Resources -> Nat]
           step == [n \in 1 .. m |-> [s \in T |-> OneMore(count, s)]]
           body(f) == [n \in 0 .. m |-> IF n = 0 THEN count ELSE OneMore(count, f[n - 1])]
           upTo == CHOOSE f : f = body(f)
<1>1. Decoding(count) = upTo[m]
  BY DEF Decoding
<1>2. m \in Nat
  BY NumbersAssumption
<1>3. count \in T /\ \A s \in T : OneMore(count, s) \in T
  BY OneMoreTyped
<1> HIDE DEF m, T
<1>4. step \in [1 .. m -> [T -> T]]
  BY <1>3
<1> HIDE DEF step
<1>5. PICK f \in [0 .. m -> T] : f[0] = count /\ \A n \in 1 .. m : f[n] = step[n][f[n - 1]]
  <2>1. count \in T
    BY <1>3
  <2>2. step \in Steps(T, m)
    BY <1>4 DEF Steps
  <2>3. \E f : Recurses(f, T, count, m, step)
    BY ONLY <1>2, <2>1, <2>2, RecursionExists
  <2>4. QED
    BY <2>3 DEF Recurses
<1>6. f = body(f)
  <2>1. ASSUME NEW n \in 1 .. m PROVE f[n] = OneMore(count, f[n - 1])
    <3>1. n - 1 \in 0 .. m
      BY <1>2
    <3>2. f[n] = step[n][f[n - 1]] /\ f[n - 1] \in T
      BY <1>5, <3>1
    <3>3. QED
      BY <3>2 DEF step
  <2>2. f[0] = count /\ f = [n \in 0 .. m |-> f[n]] /\ m \in Nat
    BY <1>2, <1>5
  <2>3. \A k \in 0 .. m : f[k] = IF k = 0 THEN count ELSE OneMore(count, f[k - 1])
    <3> SUFFICES ASSUME NEW k \in 0 .. m PROVE f[k] = IF k = 0 THEN count ELSE OneMore(count, f[k - 1])
      OBVIOUS
    <3>1. k # 0 => k \in 1 .. m
      BY <1>2
    <3>2. QED
      BY <2>1, <2>2, <3>1
  <2>4. QED
    BY <2>2, <2>3, Zenon
<1>7. upTo = body(upTo)
  BY <1>6
<1> HIDE DEF upTo
<1>8. /\ upTo[0] = count /\ \A n \in 1 .. m : upTo[n] = OneMore(count, upTo[n - 1])
      /\ upTo = [n \in 0 .. m |-> upTo[n]]
  <2>1. upTo = [k \in 0 .. m |-> IF k = 0 THEN count ELSE OneMore(count, upTo[k - 1])]
    BY <1>7
  <2>2. \A k \in 0 .. m : upTo[k] = IF k = 0 THEN count ELSE OneMore(count, upTo[k - 1])
    BY <2>1, Zenon
  <2>3. 0 \in 0 .. m /\ \A n \in 1 .. m : n \in 0 .. m /\ n # 0
    BY <1>2
  <2>4. upTo = [n \in 0 .. m |-> upTo[n]]
    BY <2>1
  <2>5. QED
    BY <2>2, <2>3, <2>4
<1> HIDE DEF body
<1> DEFINE S == {n \in 0 .. m : upTo[n] \in T}
<1>9. 0 \in S
  BY <1>2, <1>3, <1>8
<1>10. ASSUME NEW n \in 0 .. m - 1, n \in S PROVE n + 1 \in S
  <2>1. n + 1 \in 1 .. m /\ n + 1 \in 0 .. m /\ upTo[n] \in T /\ (n + 1) - 1 = n
    BY <1>2, <1>10
  <2>2. upTo[n + 1] = OneMore(count, upTo[n])
    BY <1>8, <2>1
  <2>3. QED
    BY <1>3, <2>1, <2>2
<1> HIDE DEF S
<1>11. 0 .. m \subseteq S
  BY <1>2, <1>9, <1>10, IntervalInduction
<1>12. upTo \in [0 .. m -> T]
  BY <1>8, <1>11 DEF S
<1>13. Levels(upTo, count)
  BY <1>8, <1>12 DEF Levels, Depths, m, T
<1>14. QED
  BY <1>1, <1>13 DEF m

\* On an image of a level, all the levels from it on agree.
LEMMA LevelsAgree ==
  ASSUME NEW count \in [DOMAIN Resources -> Nat], NEW f, Levels(f, count),
         NEW n \in Nat, n + 1 \in Depths
  PROVE  \A name \in Sound[n] : f[n + 1][name] = f[n][name]
<1> DEFINE m == Limits.nestedDepth
           S == {k \in 0 .. m - 1 : \A name \in Sound[k] : f[k + 1][name] = f[k][name]}
<1>1. m \in Nat /\ n \in 0 .. m - 1 /\ m - 1 \in Nat
  BY NumbersAssumption DEF Depths
<1>2. ASSUME NEW k \in 0 .. m - 1
      PROVE  /\ f[k] \in [DOMAIN Resources -> Nat] /\ f[k + 1] \in [DOMAIN Resources -> Nat]
             /\ f[k + 1] = OneMore(count, f[k]) /\ k \in Depths
             /\ \A name \in DOMAIN Resources : f[k + 1][name] =
                  count[name] + IF Resources[name].svg THEN SumOf(f[k], Held(name)) ELSE 0
  <2>1. k + 1 \in 1 .. m /\ (k + 1) - 1 = k /\ k \in 0 .. m /\ k + 1 \in 0 .. m
    BY <1>1
  <2>2. f[k + 1] = OneMore(count, f[(k + 1) - 1])
    BY <2>1 DEF Levels
  <2>3. f[k] \in [DOMAIN Resources -> Nat] /\ f[k + 1] \in [DOMAIN Resources -> Nat]
    BY <2>1 DEF Levels, Depths
  <2>4. QED
    BY <2>1, <2>2, <2>3, OneMoreTyped DEF Depths
<1>3. 0 \in S
  <2>1. 0 \in 0 .. m - 1 /\ 0 + 1 = 1
    BY <1>1
  <2>2. ASSUME NEW name \in Sound[0] PROVE f[1][name] = f[0][name]
    <3>1. name \in DOMAIN Resources /\ ~Resources[name].svg
      BY SoundLevels DEF Decodable
    <3>2. f[0] = count /\ count[name] \in Nat
      BY <3>1 DEF Levels
    <3>3. f[0 + 1][name] = count[name] + 0
      BY <1>2, <2>1, <3>1
    <3>4. QED
      BY <2>1, <3>2, <3>3
  <2>3. QED
    BY <2>1, <2>2
<1>4. ASSUME NEW k \in 0 .. (m - 1) - 1, k \in S PROVE k + 1 \in S
  <2>1. k + 1 \in 0 .. m - 1 /\ k \in 0 .. m - 1 /\ k + 1 # 0 /\ (k + 1) - 1 = k
    BY <1>1
  <2>2. ASSUME NEW name \in Sound[k + 1] PROVE f[(k + 1) + 1][name] = f[k + 1][name]
    <3>1. k + 1 \in Depths
      BY <1>2, <2>1
    <3>2. name \in DOMAIN Resources
      BY <3>1, SoundLevels
    <3>3. Resources[name].svg => ToSet(Held(name)) \subseteq Sound[k]
      BY <2>1, <3>1, <3>2, SoundOf
    <3>4. /\ f[(k + 1) + 1][name] =
               count[name] + IF Resources[name].svg THEN SumOf(f[k + 1], Held(name)) ELSE 0
          /\ f[k + 1][name] =
               count[name] + IF Resources[name].svg THEN SumOf(f[k], Held(name)) ELSE 0
      BY <1>2, <2>1, <3>2
    <3>5. ASSUME Resources[name].svg PROVE SumOf(f[k + 1], Held(name)) = SumOf(f[k], Held(name))
      <4>1. \A i \in DOMAIN Held(name) : Held(name)[i] \in Sound[k]
        BY <3>3, <3>5 DEF ToSet
      <4>2. \A i \in DOMAIN Held(name) : f[k + 1][Held(name)[i]] = f[k][Held(name)[i]]
        BY <1>4, <4>1
      <4>3. QED
        BY <4>2, SumOfSame
    <3>6. QED
      BY <3>4, <3>5
  <2>3. QED
    BY <2>1, <2>2
<1> HIDE DEF S
<1>5. 0 .. m - 1 \subseteq S
  BY <1>1, <1>3, <1>4, IntervalInduction
<1>6. QED
  BY <1>1, <1>5 DEF S

LEMMA DecodingTyped ==
  ASSUME NEW count \in [DOMAIN Resources -> Nat]
  PROVE  Decoding(count) \in [DOMAIN Resources -> Nat]
<1>1. Limits.nestedDepth \in Depths
  BY NumbersAssumption DEF Depths
<1>2. QED
  BY <1>1, DecodingLevels DEF Levels

\* The cost of an image is its own and that of the images it holds.
LEMMA CostOf ==
  ASSUME NEW count \in [DOMAIN Resources -> Nat], NEW name \in Sound[Limits.nestedDepth]
  PROVE  Decoding(count)[name] =
           count[name] + IF Resources[name].svg THEN SumOf(Decoding(count), Held(name)) ELSE 0
<1> DEFINE m == Limits.nestedDepth
<1>1. m \in Nat /\ m \in Depths /\ name \in DOMAIN Resources
  BY NumbersAssumption, SoundLevels DEF Depths
<1>2. PICK f : Levels(f, count) /\ Decoding(count) = f[m]
  BY DecodingLevels
<1>3. f[m] \in [DOMAIN Resources -> Nat]
  BY <1>1, <1>2 DEF Levels
<1>4. CASE m = 0
  <2>1. ~Resources[name].svg
    BY <1>1, <1>4, SoundOf
  <2>2. f[m] = count /\ count[name] \in Nat
    BY <1>1, <1>2, <1>4 DEF Levels
  <2>3. QED
    BY <1>2, <1>3, <2>1, <2>2
<1>5. CASE m # 0
  <2>1. m \in 1 .. Limits.nestedDepth /\ m - 1 \in Depths /\ m - 1 \in Nat /\ (m - 1) + 1 = m
    BY <1>1, <1>5 DEF Depths
  <2>2. f[m] = OneMore(count, f[m - 1]) /\ f[m - 1] \in [DOMAIN Resources -> Nat]
    BY <1>2, <2>1 DEF Levels
  <2>3. f[m][name] =
          count[name] + IF Resources[name].svg THEN SumOf(f[m - 1], Held(name)) ELSE 0
    BY <1>1, <2>2, OneMoreTyped
  <2>4. ASSUME Resources[name].svg PROVE SumOf(f[m - 1], Held(name)) = SumOf(f[m], Held(name))
    <3>1. ToSet(Held(name)) \subseteq Sound[m - 1]
      BY <1>1, <2>4, SoundOf
    <3>2. \A x \in Sound[m - 1] : f[(m - 1) + 1][x] = f[m - 1][x]
      BY <1>1, <1>2, <2>1, LevelsAgree
    <3>3. \A i \in DOMAIN Held(name) : f[m - 1][Held(name)[i]] = f[m][Held(name)[i]]
      BY <2>1, <3>1, <3>2 DEF ToSet
    <3>4. QED
      BY <3>3, SumOfSame
  <2>5. QED
    BY <1>2, <1>3, <2>3, <2>4
<1>6. QED
  BY <1>4, <1>5

-----------------------------------------------------------------------------
(* The census                                                              *)

\* What each node adds to the counters, and the counters of the first nodes.
ElementsOf(doc)   == [i \in DOMAIN doc.nodes |-> IF doc.nodes[i].tag \in {"text", "style"} THEN 0 ELSE 1]
AttributesOf(doc) == [i \in DOMAIN doc.nodes |-> doc.nodes[i].attributes]
TextOf(doc)       == [i \in DOMAIN doc.nodes |-> doc.nodes[i].text]
ReferencesOf(doc) == [i \in DOMAIN doc.nodes |-> Len(doc.nodes[i].refs)]
ImageTagsOf(doc)  == [i \in DOMAIN doc.nodes |-> IF doc.nodes[i].tag = "image" THEN 1 ELSE 0]
CensusUpTo(doc, k) ==
  [elements   |-> Total(First(ElementsOf(doc), k)),
   attributes |-> Total(First(AttributesOf(doc), k)),
   text       |-> Total(First(TextOf(doc), k)),
   references |-> Total(First(ReferencesOf(doc), k)),
   images     |-> Total(First(ImageTagsOf(doc), k))]

LEMMA NodesTyped ==
  ASSUME NEW doc \in Documents
  PROVE  /\ Len(doc.nodes) \in Nat /\ DOMAIN doc.nodes = 1 .. Len(doc.nodes)
         /\ \A i \in DOMAIN doc.nodes :
              /\ doc.nodes[i].attributes \in Nat /\ doc.nodes[i].text \in Nat
              /\ doc.nodes[i].refs \in Seq(ToSet(doc.nodes[i].refs))
              /\ Len(doc.nodes[i].refs) \in Nat
<1>1. doc.nodes \in Seq(ToSet(doc.nodes))
  BY DocumentsAssumption
<1>2. \A i \in DOMAIN doc.nodes : doc.nodes[i] \in ToSet(doc.nodes)
  BY DEF ToSet
<1>3. ASSUME NEW i \in DOMAIN doc.nodes
      PROVE  /\ doc.nodes[i].attributes \in Nat /\ doc.nodes[i].text \in Nat
             /\ doc.nodes[i].refs \in Seq(ToSet(doc.nodes[i].refs))
             /\ Len(doc.nodes[i].refs) \in Nat
  <2> DEFINE node == doc.nodes[i]
  <2>1. {node.attributes, node.text} \subseteq Nat /\ node.refs \in Seq(ToSet(node.refs))
    BY <1>2, DocumentsAssumption
  <2> HIDE DEF node
  <2>2. Len(node.refs) \in Nat
    BY <2>1
  <2>3. QED
    BY <2>1, <2>2 DEF node
<1>4. QED
  BY <1>1, <1>3

LEMMA AdditionsTyped ==
  ASSUME NEW doc \in Documents
  PROVE  LET m == Len(doc.nodes)
         IN /\ ElementsOf(doc) \in Seq(Nat) /\ Len(ElementsOf(doc)) = m
            /\ AttributesOf(doc) \in Seq(Nat) /\ Len(AttributesOf(doc)) = m
            /\ TextOf(doc) \in Seq(Nat) /\ Len(TextOf(doc)) = m
            /\ ReferencesOf(doc) \in Seq(Nat) /\ Len(ReferencesOf(doc)) = m
            /\ ImageTagsOf(doc) \in Seq(Nat) /\ Len(ImageTagsOf(doc)) = m
<1> DEFINE m == Len(doc.nodes)
<1>1. m \in Nat /\ DOMAIN doc.nodes = 1 .. m
  BY NodesTyped
<1> HIDE DEF m
<1>2. \A i \in 1 .. m : /\ doc.nodes[i].attributes \in Nat /\ doc.nodes[i].text \in Nat
                        /\ Len(doc.nodes[i].refs) \in Nat
  BY <1>1, NodesTyped
<1>3. ElementsOf(doc) \in [1 .. m -> Nat]
  BY <1>1 DEF ElementsOf
<1>4. AttributesOf(doc) \in [1 .. m -> Nat]
  BY <1>1, <1>2 DEF AttributesOf
<1>5. TextOf(doc) \in [1 .. m -> Nat]
  BY <1>1, <1>2 DEF TextOf
<1>6. ReferencesOf(doc) \in [1 .. m -> Nat]
  BY <1>1, <1>2 DEF ReferencesOf
<1>7. ImageTagsOf(doc) \in [1 .. m -> Nat]
  BY <1>1 DEF ImageTagsOf
<1>8. \A s \in [1 .. m -> Nat] : s \in Seq(Nat) /\ Len(s) = m
  BY <1>1
<1>9. QED
  BY <1>3, <1>4, <1>5, <1>6, <1>7, <1>8 DEF m

LEMMA CensusEnds ==
  ASSUME NEW doc \in Documents
  PROVE  /\ CensusUpTo(doc, 0) = NoCounts
         /\ CensusUpTo(doc, Len(doc.nodes)) = Census(doc)
<1>1. \A s \in Seq(Nat) : First(s, 0) = <<>> /\ First(s, Len(s)) = s
  BY FirstWhole
<1>2. CensusUpTo(doc, 0) = NoCounts
  BY <1>1, AdditionsTyped, TotalEmpty DEF CensusUpTo, NoCounts
<1>3. /\ First(ElementsOf(doc), Len(doc.nodes)) = ElementsOf(doc)
      /\ First(AttributesOf(doc), Len(doc.nodes)) = AttributesOf(doc)
      /\ First(TextOf(doc), Len(doc.nodes)) = TextOf(doc)
      /\ First(ReferencesOf(doc), Len(doc.nodes)) = ReferencesOf(doc)
      /\ First(ImageTagsOf(doc), Len(doc.nodes)) = ImageTagsOf(doc)
  BY <1>1, AdditionsTyped
<1>4. CensusUpTo(doc, Len(doc.nodes)) = Census(doc)
  BY <1>3 DEF CensusUpTo, Census, ElementsOf, AttributesOf, TextOf, ReferencesOf, ImageTagsOf
<1>5. QED
  BY <1>2, <1>4

\* A node is counted as the census counts it.
LEMMA CensusNext ==
  ASSUME NEW doc \in Documents, NEW k \in Nat, k + 1 \in DOMAIN doc.nodes
  PROVE  CensusUpTo(doc, k + 1) = Counted(CensusUpTo(doc, k), doc.nodes[k + 1])
<1> DEFINE m == Len(doc.nodes)
<1>1. m \in Nat /\ DOMAIN doc.nodes = 1 .. m
  BY NodesTyped
<1>2. k \in 0 .. m /\ k < m
  BY <1>1
<1> HIDE DEF m
<1>3. \A s \in Seq(Nat) : Len(s) = m => Total(First(s, k + 1)) = Total(First(s, k)) + s[k + 1]
  BY <1>2, TotalFirst
<1>4. /\ ElementsOf(doc)[k + 1] = IF doc.nodes[k + 1].tag \in {"text", "style"} THEN 0 ELSE 1
      /\ AttributesOf(doc)[k + 1] = doc.nodes[k + 1].attributes
      /\ TextOf(doc)[k + 1] = doc.nodes[k + 1].text
      /\ ReferencesOf(doc)[k + 1] = Len(doc.nodes[k + 1].refs)
      /\ ImageTagsOf(doc)[k + 1] = IF doc.nodes[k + 1].tag = "image" THEN 1 ELSE 0
  BY DEF ElementsOf, AttributesOf, TextOf, ReferencesOf, ImageTagsOf
<1>5. /\ ElementsOf(doc) \in Seq(Nat) /\ Len(ElementsOf(doc)) = m
      /\ AttributesOf(doc) \in Seq(Nat) /\ Len(AttributesOf(doc)) = m
      /\ TextOf(doc) \in Seq(Nat) /\ Len(TextOf(doc)) = m
      /\ ReferencesOf(doc) \in Seq(Nat) /\ Len(ReferencesOf(doc)) = m
      /\ ImageTagsOf(doc) \in Seq(Nat) /\ Len(ImageTagsOf(doc)) = m
  BY AdditionsTyped DEF m
<1>6. /\ Total(First(ElementsOf(doc), k + 1)) = Total(First(ElementsOf(doc), k)) + ElementsOf(doc)[k + 1]
      /\ Total(First(AttributesOf(doc), k + 1)) = Total(First(AttributesOf(doc), k)) + AttributesOf(doc)[k + 1]
      /\ Total(First(TextOf(doc), k + 1)) = Total(First(TextOf(doc), k)) + TextOf(doc)[k + 1]
      /\ Total(First(ReferencesOf(doc), k + 1)) = Total(First(ReferencesOf(doc), k)) + ReferencesOf(doc)[k + 1]
      /\ Total(First(ImageTagsOf(doc), k + 1)) = Total(First(ImageTagsOf(doc), k)) + ImageTagsOf(doc)[k + 1]
  BY <1>3, <1>5
<1>7. QED
  BY <1>4, <1>6 DEF CensusUpTo, Counted

\* The counters never fall, so that they stay within what the whole is within.
LEMMA CensusWithin ==
  ASSUME NEW doc \in Documents, NEW k \in 0 .. Len(doc.nodes), WithinDocument(Census(doc))
  PROVE  WithinDocument(CensusUpTo(doc, k))
<1>1. \A s \in Seq(Nat) : Len(s) = Len(doc.nodes) =>
        /\ Total(First(s, k)) \in Nat /\ Total(s) \in Nat /\ Total(First(s, k)) <= Total(s)
  BY TotalFirst, TotalNat
<1>2. /\ Total(First(ElementsOf(doc), k)) \in Nat /\ Total(ElementsOf(doc)) \in Nat
      /\ Total(First(ElementsOf(doc), k)) <= Total(ElementsOf(doc))
      /\ Total(First(AttributesOf(doc), k)) \in Nat /\ Total(AttributesOf(doc)) \in Nat
      /\ Total(First(AttributesOf(doc), k)) <= Total(AttributesOf(doc))
      /\ Total(First(TextOf(doc), k)) \in Nat /\ Total(TextOf(doc)) \in Nat
      /\ Total(First(TextOf(doc), k)) <= Total(TextOf(doc))
      /\ Total(First(ImageTagsOf(doc), k)) \in Nat /\ Total(ImageTagsOf(doc)) \in Nat
      /\ Total(First(ImageTagsOf(doc), k)) <= Total(ImageTagsOf(doc))
  BY <1>1, AdditionsTyped
<1>3. /\ Total(ElementsOf(doc)) <= Limits.elements /\ Total(AttributesOf(doc)) <= Limits.attributes
      /\ Total(TextOf(doc)) <= Limits.totalText /\ Total(ImageTagsOf(doc)) <= Limits.images
  BY DEF WithinDocument, Census, ElementsOf, AttributesOf, TextOf, ImageTagsOf
<1>4. /\ Limits.elements \in Nat /\ Limits.attributes \in Nat /\ Limits.totalText \in Nat
      /\ Limits.images \in Nat
  BY NumbersAssumption
<1>5. /\ Total(First(ElementsOf(doc), k)) <= Limits.elements
      /\ Total(First(AttributesOf(doc), k)) <= Limits.attributes
      /\ Total(First(TextOf(doc), k)) <= Limits.totalText
      /\ Total(First(ImageTagsOf(doc), k)) <= Limits.images
  <2>1. \A a, b, c \in Nat : a <= b /\ b <= c => a <= c
    OBVIOUS
  <2>2. Total(First(ElementsOf(doc), k)) <= Limits.elements
    BY ONLY <1>2, <1>3, <1>4, <2>1
  <2>3. Total(First(AttributesOf(doc), k)) <= Limits.attributes
    BY ONLY <1>2, <1>3, <1>4, <2>1
  <2>4. Total(First(TextOf(doc), k)) <= Limits.totalText
    BY ONLY <1>2, <1>3, <1>4, <2>1
  <2>5. Total(First(ImageTagsOf(doc), k)) <= Limits.images
    BY ONLY <1>2, <1>3, <1>4, <2>1
  <2>6. QED
    BY <2>2, <2>3, <2>4, <2>5
<1>6. QED
  BY <1>5 DEF WithinDocument, CensusUpTo

LEMMA CensusTyped ==
  ASSUME NEW doc \in Documents
  PROVE  Census(doc).elements \in Nat /\ Census(doc).references \in Nat
<1>1. Total(ElementsOf(doc)) \in Nat /\ Total(ReferencesOf(doc)) \in Nat
  BY AdditionsTyped, TotalNat
<1>2. QED
  BY <1>1 DEF Census, ElementsOf, ReferencesOf

\* The first k nodes of a document refer to a file.
FileBefore(doc, k, x) ==
  \E i \in 1 .. k : \E j \in DOMAIN doc.nodes[i].refs :
    IsFile(doc.nodes[i].refs[j]) /\ doc.nodes[i].refs[j].target = x

\* What a census has found: the counters, the bounds and the files so far.
Found(doc, k, counts, list) ==
  /\ k \in 0 .. Len(doc.nodes) /\ counts = CensusUpTo(doc, k)
  /\ \A i \in 1 .. k : Bounded(doc.nodes[i])
  /\ list \in Seq(Files(doc)) /\ Distinct(list)
  /\ \A x : x \in ToSet(list) <=> FileBefore(doc, k, x)

LEMMA FoundNothing ==
  ASSUME NEW doc \in Documents
  PROVE  Found(doc, 0, NoCounts, <<>>)
<1>1. 0 \in 0 .. Len(doc.nodes)
  BY NodesTyped
<1>2. ToSet(<<>>) = {} /\ <<>> \in Seq(Files(doc)) /\ Distinct(<<>>)
  BY DEF ToSet, Distinct
<1>3. QED
  BY <1>1, <1>2, CensusEnds DEF Found, FileBefore

LEMMA FoundNext ==
  ASSUME NEW doc \in Documents, NEW k \in Nat, k + 1 <= Len(doc.nodes),
         NEW counts, NEW list, Found(doc, k, counts, list), Bounded(doc.nodes[k + 1])
  PROVE  Found(doc, k + 1, Counted(counts, doc.nodes[k + 1]), Listed(list, doc.nodes[k + 1].refs))
<1> DEFINE refs == doc.nodes[k + 1].refs
           next == Listed(list, refs)
<1>1. /\ Len(doc.nodes) \in Nat /\ k + 1 \in DOMAIN doc.nodes /\ k + 1 \in 0 .. Len(doc.nodes)
      /\ 1 .. k + 1 = (1 .. k) \cup {k + 1} /\ DOMAIN doc.nodes = 1 .. Len(doc.nodes)
  BY NodesTyped
<1>2. refs \in Seq(ToSet(refs))
  BY <1>1, NodesTyped
<1>3. \A j \in DOMAIN refs : IsFile(refs[j]) => refs[j].target \in Files(doc)
  BY <1>1, FileOf DEF IsFileOf
<1>4. list \in Seq(Files(doc)) /\ Distinct(list)
  BY DEF Found
<1> HIDE DEF refs
<1>5. /\ next \in Seq(Files(doc)) /\ Distinct(next)
      /\ \A x : x \in ToSet(next) <=>
           x \in ToSet(list) \/ \E j \in DOMAIN refs : IsFile(refs[j]) /\ refs[j].target = x
  BY <1>2, <1>3, <1>4, ListedDistinct
<1> HIDE DEF next
<1>6. Counted(counts, doc.nodes[k + 1]) = CensusUpTo(doc, k + 1)
  BY <1>1, CensusNext DEF Found
<1>7. \A i \in 1 .. k + 1 : Bounded(doc.nodes[i])
  BY <1>1 DEF Found
<1>8. \A x : x \in ToSet(next) <=> FileBefore(doc, k + 1, x)
  <2>1. \A x : FileBefore(doc, k + 1, x) <=>
          FileBefore(doc, k, x) \/ \E j \in DOMAIN refs : IsFile(refs[j]) /\ refs[j].target = x
    BY <1>1 DEF FileBefore, refs
  <2>2. \A x : x \in ToSet(list) <=> FileBefore(doc, k, x)
    BY DEF Found
  <2>3. QED
    BY <1>5, <2>1, <2>2
<1>9. QED
  BY <1>1, <1>5, <1>6, <1>7, <1>8 DEF Found, refs, next

\* A census that has come to its end.
LEMMA FoundAll ==
  ASSUME NEW doc \in Documents, NEW counts, NEW list, Found(doc, Len(doc.nodes), counts, list)
  PROVE  /\ counts = Census(doc) /\ \A i \in DOMAIN doc.nodes : Bounded(doc.nodes[i])
         /\ list \in Seq(Files(doc)) /\ Distinct(list) /\ ToSet(list) = Files(doc)
<1>1. DOMAIN doc.nodes = 1 .. Len(doc.nodes)
  BY NodesTyped
<1>2. \A x : x \in ToSet(list) <=> x \in Files(doc)
  BY <1>1, FileOf DEF Found, FileBefore, IsFileOf
<1>3. QED
  BY <1>1, <1>2, CensusEnds DEF Found

-----------------------------------------------------------------------------
(* The three budgets                                                       *)

Measures == {"bytes", "elements", "references"}

\* What a measure is of a budget, of a census and of an image on its own, what
\* decoding costs, what all costs, and the limit.
Spent(m, spent) == IF m = "bytes" THEN spent.bytes
                   ELSE IF m = "elements" THEN spent.elements ELSE spent.references
OfCensus(m, counts) == IF m = "bytes" THEN 0
                       ELSE IF m = "elements" THEN counts.elements ELSE counts.references
OfImage(m, name) == IF m = "bytes" THEN Resources[name].size
                    ELSE IF Resources[name].svg THEN OfCensus(m, Census(Resources[name])) ELSE 0
Cost(m) == IF m = "bytes" THEN Bytes ELSE IF m = "elements" THEN Elements ELSE References
Grand(m) == OfCensus(m, Census(input.document)) + SumOf(Cost(m), Images)
Limit(m) == IF m = "bytes" THEN Limits.resources
            ELSE IF m = "elements" THEN Limits.elements ELSE Limits.references

LEMMA OfImageTyped ==
  ASSUME NEW m \in Measures, NEW name \in DOMAIN Resources
  PROVE  OfImage(m, name) \in Nat
<1>1. Resources[name] \in Documents
  BY HeldTyped
<1>2. {Resources[name].size, Resources[name].paints} \subseteq Nat
  BY <1>1, DocumentsAssumption
<1>3. Census(Resources[name]).elements \in Nat /\ Census(Resources[name]).references \in Nat
  BY <1>1, CensusTyped
<1>4. QED
  BY <1>2, <1>3 DEF Measures, OfImage, OfCensus

LEMMA CostTyped ==
  ASSUME NEW m \in Measures
  PROVE  /\ Cost(m) \in [DOMAIN Resources -> Nat]
         /\ \A name \in Sound[Limits.nestedDepth] :
              Cost(m)[name] =
                OfImage(m, name) + IF Resources[name].svg THEN SumOf(Cost(m), Held(name)) ELSE 0
<1> DEFINE count == [name \in DOMAIN Resources |-> OfImage(m, name)]
<1>1. count \in [DOMAIN Resources -> Nat]
  BY OfImageTyped
<1>2. Cost(m) = Decoding(count)
  <2>1. CASE m = "bytes"
    <3>1. count = [name \in DOMAIN Resources |-> Resources[name].size]
      BY <2>1 DEF OfImage
    <3> HIDE DEF count
    <3>2. QED
      BY <2>1, <3>1 DEF Cost, Bytes
  <2>2. CASE m = "elements"
    <3>1. count = OfDocuments([name \in DOMAIN Resources |-> Census(Resources[name]).elements])
      BY <2>2 DEF OfImage, OfCensus, OfDocuments
    <3> HIDE DEF count
    <3>2. QED
      BY <2>2, <3>1 DEF Cost, Elements
  <2>3. CASE m = "references"
    <3>1. count = OfDocuments([name \in DOMAIN Resources |-> Census(Resources[name]).references])
      BY <2>3 DEF OfImage, OfCensus, OfDocuments
    <3> HIDE DEF count
    <3>2. QED
      BY <2>3, <3>1 DEF Cost, References
  <2>4. QED
    BY <2>1, <2>2, <2>3 DEF Measures
<1>3. \A name \in DOMAIN Resources : count[name] = OfImage(m, name)
  OBVIOUS
<1> HIDE DEF count
<1>4. Cost(m) \in [DOMAIN Resources -> Nat]
  BY <1>1, <1>2, DecodingTyped
<1>5. ASSUME NEW name \in Sound[Limits.nestedDepth]
      PROVE  Cost(m)[name] =
               OfImage(m, name) + IF Resources[name].svg THEN SumOf(Cost(m), Held(name)) ELSE 0
  <2>1. Decoding(count)[name] =
          count[name] + IF Resources[name].svg THEN SumOf(Decoding(count), Held(name)) ELSE 0
    BY <1>1, CostOf
  <2>2. name \in DOMAIN Resources
    <3>1. Limits.nestedDepth \in Depths
      BY NumbersAssumption DEF Depths
    <3>2. QED
      BY <3>1, SoundLevels
  <2>3. QED
    BY <1>2, <1>3, <2>1, <2>2
<1>6. QED
  BY <1>4, <1>5

LEMMA PaintsTyped ==
  /\ Paints \in [DOMAIN Resources -> Nat]
  /\ \A name \in DOMAIN Resources : ~Resources[name].svg => Paints[name] = 0
  /\ \A name \in Sound[Limits.nestedDepth] : Resources[name].svg =>
       Paints[name] = Resources[name].paints + SumOf(Paints, Held(name))
<1> DEFINE count == [name \in DOMAIN Resources |-> IF Resources[name].svg THEN Resources[name].paints ELSE 0]
<1>1. count \in [DOMAIN Resources -> Nat]
  <2>1. \A name \in DOMAIN Resources : Resources[name].paints \in Nat
    <3> SUFFICES ASSUME NEW name \in DOMAIN Resources PROVE Resources[name].paints \in Nat
      OBVIOUS
    <3>1. {Resources[name].size, Resources[name].paints} \subseteq Nat
      BY HeldTyped, DocumentsAssumption
    <3>2. QED
      BY <3>1
  <2>2. QED
    BY <2>1
<1>2. Paints = Decoding(count)
  <2>1. count = OfDocuments([name \in DOMAIN Resources |-> Resources[name].paints])
    BY DEF OfDocuments
  <2> HIDE DEF count
  <2>2. QED
    BY <2>1 DEF Paints
<1>3. \A name \in DOMAIN Resources :
        count[name] = IF Resources[name].svg THEN Resources[name].paints ELSE 0
  OBVIOUS
<1> HIDE DEF count
<1>4. Paints \in [DOMAIN Resources -> Nat]
  BY <1>1, <1>2, DecodingTyped
<1>5. Limits.nestedDepth \in Depths
  BY NumbersAssumption DEF Depths
<1>6. ASSUME NEW name \in Sound[Limits.nestedDepth], Resources[name].svg
      PROVE  Paints[name] = Resources[name].paints + SumOf(Paints, Held(name))
  <2>1. Decoding(count)[name] =
          count[name] + IF Resources[name].svg THEN SumOf(Decoding(count), Held(name)) ELSE 0
    BY <1>1, CostOf
  <2>2. name \in DOMAIN Resources
    BY <1>5, SoundLevels
  <2>3. QED
    BY <1>2, <1>3, <1>6, <2>1, <2>2
<1>7. ASSUME NEW name \in DOMAIN Resources, ~Resources[name].svg PROVE Paints[name] = 0
  <2>1. PICK f : Levels(f, count) /\ Decoding(count) = f[Limits.nestedDepth]
    BY <1>1, DecodingLevels
  <2>2. count[name] = 0
    BY <1>3, <1>7
  <2>3. CASE Limits.nestedDepth = 0
    BY <1>2, <2>1, <2>2, <2>3 DEF Levels
  <2>4. CASE Limits.nestedDepth # 0
    <3>1. Limits.nestedDepth \in 1 .. Limits.nestedDepth /\ Limits.nestedDepth - 1 \in Depths
      BY <1>5, <2>4 DEF Depths
    <3>2. /\ f[Limits.nestedDepth] = OneMore(count, f[Limits.nestedDepth - 1])
          /\ f[Limits.nestedDepth - 1] \in [DOMAIN Resources -> Nat]
      BY <2>1, <3>1 DEF Levels
    <3>3. OneMore(count, f[Limits.nestedDepth - 1])[name] = count[name] + 0
      BY <1>1, <1>7, <3>2, OneMoreTyped
    <3>4. QED
      BY <1>2, <2>1, <2>2, <3>2, <3>3
  <2>5. QED
    BY <2>3, <2>4
<1>8. QED
  BY <1>4, <1>6, <1>7

-----------------------------------------------------------------------------
(* What a frame has gone through, and what it was charged for              *)

Behind(f, doc) ==
  IF f.stage = "census" THEN <<>>
  ELSE IF f.stage = "images" THEN First(ImagesOf(f.name, doc), f.at - 1)
  ELSE ImagesOf(f.name, doc) \o First(f.external, f.at - 1)

Own(m, f) == IF m = "bytes" THEN IF f.name = Root THEN 0 ELSE Resources[f.name].size
             ELSE IF f.stage = "census" THEN 0 ELSE OfCensus(m, f.counts)
Charge(m, f, doc) == Own(m, f) + SumOf(Cost(m), Behind(f, doc))

\* The charges of the frames, added up from the outermost to the innermost.
Ledger(sums, m, fs, doc, total) ==
  /\ sums \in [1 .. Len(fs) + 1 -> Nat] /\ sums[Len(fs) + 1] = 0
  /\ \A i \in 1 .. Len(fs) : sums[i] = Charge(m, fs[i], doc) + sums[i + 1]
  /\ sums[1] = total
Balanced(m, fs, doc, total) == \E sums : Ledger(sums, m, fs, doc, total)

LEMMA BalancedEmpty ==
  ASSUME NEW m, NEW doc PROVE Balanced(m, <<>>, doc, 0)
<1> DEFINE sums == [i \in 1 .. 1 |-> 0]
<1>1. Len(<<>>) = 0 /\ sums \in [1 .. 0 + 1 -> Nat] /\ sums[0 + 1] = 0 /\ sums[1] = 0
  OBVIOUS
<1> HIDE DEF sums
<1>2. Ledger(sums, m, <<>>, doc, 0)
  BY <1>1 DEF Ledger
<1>3. QED
  BY <1>2 DEF Balanced

\* The innermost frame is charged for more, is put before the others, or is
\* taken away when the one that waits for it is charged for it.
LEMMA BalancedReplaced ==
  ASSUME NEW m, NEW doc, NEW s, s \in Seq(ToSet(s)), s # <<>>, NEW total, Balanced(m, s, doc, total),
         NEW x, NEW t, t = Replacing(s, x), NEW more \in Nat, Charge(m, s[1], doc) \in Nat,
         Charge(m, x, doc) = Charge(m, s[1], doc) + more
  PROVE  Balanced(m, t, doc, total + more)
<1>1. PICK old : Ledger(old, m, s, doc, total)
  BY DEF Balanced
<1>2. Len(t) = Len(s) /\ t[1] = x /\ \A i \in DOMAIN s : i # 1 => t[i] = s[i]
  BY Replaced
<1>3. Len(s) \in Nat \ {0} /\ DOMAIN s = 1 .. Len(s)
  OBVIOUS
<1> DEFINE n == Len(s)
           new == [old EXCEPT ![1] = @ + more]
<1>4. /\ old \in [1 .. n + 1 -> Nat] /\ old[n + 1] = 0 /\ old[1] = total
      /\ \A i \in 1 .. n : old[i] = Charge(m, s[i], doc) + old[i + 1]
  BY <1>1 DEF Ledger
<1>5. /\ n \in Nat \ {0} /\ 1 \in 1 .. n /\ 1 \in 1 .. n + 1
      /\ \A i \in 1 .. n : i + 1 # 1 /\ i + 1 \in 1 .. n + 1 /\ i \in 1 .. n + 1
  BY <1>3
<1> HIDE DEF n
<1>6. /\ new \in [1 .. n + 1 -> Nat] /\ new[1] = total + more
      /\ \A i \in 1 .. n + 1 : i # 1 => new[i] = old[i]
  BY <1>4, <1>5
<1> HIDE DEF new
<1>7. new[n + 1] = 0
  BY <1>4, <1>5, <1>6
<1>8. ASSUME NEW i \in 1 .. n PROVE new[i] = Charge(m, t[i], doc) + new[i + 1]
  <2>1. new[i + 1] = old[i + 1] /\ old[i + 1] \in Nat
    BY <1>4, <1>5, <1>6
  <2>2. old[i] = Charge(m, s[i], doc) + old[i + 1]
    BY <1>4
  <2>3. CASE i = 1
    <3>1. t[i] = x /\ new[i] = old[i] + more
      BY <1>2, <1>4, <1>6, <2>3
    <3>2. QED
      BY <2>1, <2>2, <2>3, <3>1
  <2>4. CASE i # 1
    <3>1. t[i] = s[i] /\ new[i] = old[i]
      BY <1>2, <1>3, <1>5, <1>6, <2>4 DEF n
    <3>2. QED
      BY <2>1, <2>2, <3>1
  <2>5. QED
    BY <2>3, <2>4
<1>9. Ledger(new, m, t, doc, total + more)
  BY <1>2, <1>6, <1>7, <1>8 DEF Ledger, n
<1>10. QED
  BY <1>9 DEF Balanced

LEMMA BalancedPushed ==
  ASSUME NEW m, NEW doc, NEW s, s \in Seq(ToSet(s)), NEW total, Balanced(m, s, doc, total),
         NEW x, NEW t, t = Pushing(s, x), Charge(m, x, doc) \in Nat
  PROVE  Balanced(m, t, doc, total + Charge(m, x, doc))
<1>1. PICK old : Ledger(old, m, s, doc, total)
  BY DEF Balanced
<1>2. /\ t \in Seq(ToSet(t)) /\ Len(t) = Len(s) + 1 /\ t[1] = x
      /\ \A i \in DOMAIN t : i # 1 => t[i] = s[i - 1]
  BY Pushed
<1> DEFINE n == Len(s)
           c == Charge(m, x, doc)
           new == [i \in 1 .. n + 2 |-> IF i = 1 THEN total + c ELSE old[i - 1]]
<1>3. n \in Nat /\ DOMAIN t = 1 .. n + 1
  BY <1>2
<1>4. /\ old \in [1 .. n + 1 -> Nat] /\ old[n + 1] = 0 /\ old[1] = total
      /\ \A i \in 1 .. n : old[i] = Charge(m, s[i], doc) + old[i + 1]
  BY <1>1 DEF Ledger
<1> HIDE DEF n
<1>5. /\ \A i \in 1 .. n + 2 : i # 1 => i - 1 \in 1 .. n + 1
      /\ \A i \in 1 .. n + 1 : i + 1 \in 1 .. n + 2 /\ i + 1 # 1 /\ (i + 1) - 1 = i /\ i \in 1 .. n + 2
      /\ \A i \in 1 .. n + 1 : i # 1 => i - 1 \in 1 .. n /\ (i - 1) + 1 = i
      /\ 1 \in 1 .. n + 1 /\ n + 2 \in 1 .. n + 2 /\ n + 2 # 1 /\ (n + 2) - 1 = n + 1
      /\ (n + 1) + 1 = n + 2
  BY <1>3
<1>6. total \in Nat /\ c \in Nat
  BY <1>4, <1>5
<1>7. /\ new \in [1 .. n + 2 -> Nat] /\ new[1] = total + c
      /\ \A i \in 1 .. n + 2 : i # 1 => new[i] = old[i - 1]
  <2>1. \A i \in 1 .. n + 2 : (IF i = 1 THEN total + c ELSE old[i - 1]) \in Nat
    <3> SUFFICES ASSUME NEW i \in 1 .. n + 2
                 PROVE  (IF i = 1 THEN total + c ELSE old[i - 1]) \in Nat
      OBVIOUS
    <3>1. total + c \in Nat
      BY <1>6
    <3>2. i # 1 => old[i - 1] \in Nat
      BY <1>4, <1>5
    <3>3. QED
      BY <3>1, <3>2
  <2>2. QED
    BY <1>5, <2>1
<1> HIDE DEF new
<1>8. new[n + 2] = 0
  BY <1>4, <1>5, <1>7
<1>9. ASSUME NEW i \in 1 .. n + 1 PROVE new[i] = Charge(m, t[i], doc) + new[i + 1]
  <2>1. new[i + 1] = old[i] /\ old[i] \in Nat
    BY <1>4, <1>5, <1>7
  <2>2. CASE i = 1
    <3>1. t[i] = x /\ new[i] = total + c /\ old[i] = total
      BY <1>2, <1>4, <1>7, <2>2
    <3>2. QED
      BY <1>6, <2>1, <3>1
  <2>3. CASE i # 1
    <3>1. t[i] = s[i - 1] /\ new[i] = old[i - 1] /\ i - 1 \in 1 .. n /\ (i - 1) + 1 = i
      BY <1>2, <1>3, <1>5, <1>7, <2>3
    <3>2. old[i - 1] = Charge(m, s[i - 1], doc) + old[(i - 1) + 1]
      BY <1>4, <3>1
    <3>3. QED
      BY <2>1, <3>1, <3>2
  <2>4. QED
    BY <2>2, <2>3
<1>10. Len(t) = n + 1 /\ Len(t) + 1 = n + 2
  BY <1>2, <1>3, <1>5 DEF n
<1>11. Ledger(new, m, t, doc, total + c)
  BY <1>7, <1>8, <1>9, <1>10 DEF Ledger
<1>12. QED
  BY <1>11 DEF Balanced

LEMMA BalancedPopped ==
  ASSUME NEW m, NEW doc, NEW s, s \in Seq(ToSet(s)), Len(s) > 1, NEW total,
         Balanced(m, s, doc, total), NEW x, NEW t, t = Popping(s, x),
         Charge(m, s[1], doc) \in Nat, Charge(m, s[2], doc) \in Nat,
         Charge(m, x, doc) = Charge(m, s[2], doc) + Charge(m, s[1], doc)
  PROVE  Balanced(m, t, doc, total)
<1>1. PICK old : Ledger(old, m, s, doc, total)
  BY DEF Balanced
<1>2. /\ t \in Seq(ToSet(t)) /\ Len(t) = Len(s) - 1 /\ t[1] = x
      /\ \A i \in DOMAIN t : i # 1 => t[i] = s[i + 1]
  BY Popped
<1> DEFINE n == Len(s) - 1
           new == [i \in 1 .. n + 1 |-> IF i = 1 THEN total ELSE old[i + 1]]
<1>3. n \in Nat \ {0} /\ DOMAIN t = 1 .. n /\ Len(s) = n + 1 /\ Len(s) + 1 = n + 2 /\ Len(t) = n
  <2>1. Len(s) \in Nat
    OBVIOUS
  <2>2. QED
    BY <1>2, <2>1
<1> HIDE DEF n
<1>4. /\ old \in [1 .. n + 2 -> Nat] /\ old[n + 2] = 0 /\ old[1] = total
      /\ \A i \in 1 .. n + 1 : old[i] = Charge(m, s[i], doc) + old[i + 1]
  BY <1>1, <1>3 DEF Ledger
<1>5. /\ 1 \in 1 .. n /\ 1 \in 1 .. n + 1 /\ 2 \in 1 .. n + 1 /\ 3 \in 1 .. n + 2 /\ 1 \in 1 .. n + 2
      /\ 1 + 1 = 2 /\ 2 + 1 = 3
      /\ \A i \in 1 .. n + 1 : i + 1 \in 1 .. n + 2
      /\ \A i \in 1 .. n : i + 1 # 1 /\ i + 1 \in 1 .. n + 1
      /\ n + 1 \in 1 .. n + 1 /\ n + 1 # 1 /\ (n + 1) + 1 = n + 2
  BY <1>3
<1>6. total \in Nat
  BY <1>4, <1>5
<1>7. /\ new \in [1 .. n + 1 -> Nat] /\ new[1] = total
      /\ \A i \in 1 .. n + 1 : i # 1 => new[i] = old[i + 1]
  <2>1. \A i \in 1 .. n + 1 : (IF i = 1 THEN total ELSE old[i + 1]) \in Nat
    BY <1>4, <1>5, <1>6
  <2>2. QED
    BY <1>5, <2>1
<1> HIDE DEF new
<1>8. new[n + 1] = 0
  BY <1>4, <1>5, <1>7
<1>9. ASSUME NEW i \in 1 .. n PROVE new[i] = Charge(m, t[i], doc) + new[i + 1]
  <2>1. CASE i = 1
    <3>1. old[1] = Charge(m, s[1], doc) + old[1 + 1] /\ old[2] = Charge(m, s[2], doc) + old[2 + 1]
      BY <1>4, <1>5
    <3>2. old[3] \in Nat /\ new[2] = old[2 + 1] /\ new[1] = old[1]
      <4>1. 2 # 1
        OBVIOUS
      <4>2. QED
        BY <1>4, <1>5, <1>7, <4>1
    <3>3. new[1] = Charge(m, x, doc) + new[2]
      BY <1>5, <3>1, <3>2
    <3>4. QED
      BY <1>2, <2>1, <3>3
  <2>2. CASE i # 1
    <3>1. t[i] = s[i + 1] /\ new[i] = old[i + 1] /\ new[i + 1] = old[(i + 1) + 1] /\ i + 1 \in 1 .. n + 1
      <4>1. i + 1 # 1 /\ i + 1 \in 1 .. n + 1 /\ i \in 1 .. n + 1
        BY <1>3, <1>5
      <4>2. new[i] = old[i + 1] /\ new[i + 1] = old[(i + 1) + 1]
        BY <1>7, <2>2, <4>1
      <4>3. t[i] = s[i + 1]
        BY <1>2, <1>3, <2>2
      <4>4. QED
        BY <4>1, <4>2, <4>3
    <3>2. old[i + 1] = Charge(m, s[i + 1], doc) + old[(i + 1) + 1]
      BY <1>4, <3>1
    <3>3. QED
      BY <3>1, <3>2
  <2>3. QED
    BY <2>1, <2>2
<1>10. Ledger(new, m, t, doc, total)
  BY <1>3, <1>7, <1>8, <1>9 DEF Ledger
<1>11. QED
  BY <1>10 DEF Balanced

-----------------------------------------------------------------------------
(* What is known of a frame                                                *)

LEMMA SoundWithin ==
  ASSUME NEW n \in Depths, NEW k \in Depths, n <= k
  PROVE  Sound[n] \subseteq Sound[k] /\ Sound[k] \subseteq DOMAIN Resources
<1> DEFINE m == k - n
           S == {j \in 0 .. m : Sound[n] \subseteq Sound[n + j]}
<1>1. n \in Nat /\ k \in Nat /\ m \in Nat /\ Limits.nestedDepth \in Nat /\ n + m = k /\ n + 0 = n
      /\ k <= Limits.nestedDepth
  BY NumbersAssumption DEF Depths
<1> HIDE DEF m
<1>2. 0 \in S
  BY <1>1
<1>3. ASSUME NEW j \in 0 .. m - 1, j \in S PROVE j + 1 \in S
  <2>1. n + j \in Nat /\ (n + j) + 1 \in Depths /\ n + (j + 1) = (n + j) + 1 /\ j + 1 \in 0 .. m
    BY <1>1 DEF Depths
  <2>2. Sound[n + j] \subseteq Sound[(n + j) + 1]
    BY <2>1, SoundGrows
  <2>3. QED
    BY <1>3, <2>1, <2>2
<1> HIDE DEF S
<1>4. 0 .. m \subseteq S
  BY <1>1, <1>2, <1>3, IntervalInduction
<1>5. m \in S
  BY <1>1, <1>4
<1>6. QED
  BY <1>1, <1>5, SoundLevels DEF S

OfName(name, doc) == IF name = Root THEN doc ELSE Resources[name]
Level(f) == Limits.nestedDepth - f.depth

LEMMA NamedTyped ==
  ASSUME NEW in \in Inputs, NEW name \in Names
  PROVE  /\ OfName(name, in.document) \in Documents
         /\ ImagesOf(name, in.document) = DataImages(OfName(name, in.document))
         /\ ImagesOf(name, in.document) \in Seq(DOMAIN Resources)
         /\ Len(ImagesOf(name, in.document)) \in Nat
<1>1. OfName(name, in.document) \in Documents
  BY DEF OfName, Documents, Names
<1>2. ImagesOf(name, in.document) = DataImages(OfName(name, in.document))
  BY DEF ImagesOf, OfName
<1>3. ImagesOf(name, in.document) \in Seq(DOMAIN Resources)
  BY <1>1, <1>2, DocumentsAssumption
<1>4. QED
  BY <1>1, <1>2, <1>3

\* A document is of the input or of an image that may be decoded; its census is
\* what was found so far, its end is met with, and what is behind is sound.
FrameSound(f, in) ==
  LET doc == OfName(f.name, in.document)
  IN /\ f.stage = "census" => Found(doc, f.at - 1, f.counts, f.external)
     /\ f.stage # "census" =>
          /\ Found(doc, Len(doc.nodes), f.counts, f.external)
          /\ ~doc.deep /\ f.counts.references <= Limits.references
          /\ f.name = Root => in.candidates <= Limits.candidates
          /\ f.name # Root => f.external = <<>>
     /\ f.name # Root => doc.svg /\ doc.size <= Limits.resource /\ doc.valid
     /\ Behind(f, in.document) \in Seq(Sound[Level(f)])
     /\ \A x \in ToSet(Behind(f, in.document)) : Resources[x].svg => in.nested

\* A frame faces an image when it is the next that it goes through.
Facing(f, doc, name) ==
  \/ /\ f.stage = "images" /\ f.at <= Len(ImagesOf(f.name, doc))
     /\ name = ImagesOf(f.name, doc)[f.at]
  \/ f.stage = "external" /\ f.at <= Len(f.external) /\ name = f.external[f.at]

LEMMA BehindNext ==
  ASSUME NEW in \in Inputs, NEW f, FrameTyped(f), FrameSound(f, in), NEW name \in DOMAIN Resources,
         Facing(f, in.document, name)
  PROVE  Behind(KeepTree(f, name), in.document) = Behind(f, in.document) \o <<name>>
<1> DEFINE kept == KeepTree(f, name)
           images == ImagesOf(f.name, in.document)
<1>1. /\ kept.name = f.name /\ kept.stage = f.stage /\ kept.external = f.external
      /\ kept.at = f.at + 1
  BY KeptFields
<1>2. f.at \in Nat \ {0} /\ f.name \in Names
  BY DEF FrameTyped, FrameWith
<1>3. images \in Seq(DOMAIN Resources)
  BY <1>2, NamedTyped
<1> HIDE DEF kept, images
<1>4. kept.at - 1 = f.at /\ (f.at - 1) + 1 = f.at /\ f.at - 1 \in Nat
  BY <1>1, <1>2
<1>5. CASE f.stage = "images"
  <2>1. f.at <= Len(images) /\ name = images[f.at]
    BY <1>5 DEF Facing, images
  <2>2. f.at - 1 \in 0 .. Len(images) /\ f.at - 1 < Len(images)
    BY <1>2, <1>3, <2>1
  <2>3. First(images, (f.at - 1) + 1) = First(images, f.at - 1) \o <<images[(f.at - 1) + 1]>>
    BY <1>3, <2>2, FirstFacts
  <2>4. QED
    BY <1>1, <1>4, <1>5, <2>1, <2>3 DEF Behind, kept, images
<1>6. CASE f.stage = "external"
  <2> DEFINE list == f.external
             X == Files(OfName(f.name, in.document))
  <2>1. f.at <= Len(list) /\ name = list[f.at]
    BY <1>6 DEF Facing
  <2>2. list \in Seq(X)
    BY <1>6 DEF FrameSound, Found
  <2> HIDE DEF list, X
  <2>3. f.at - 1 \in 0 .. Len(list) /\ f.at - 1 < Len(list)
    BY <1>2, <2>1, <2>2
  <2>4. /\ First(list, (f.at - 1) + 1) = First(list, f.at - 1) \o <<list[(f.at - 1) + 1]>>
        /\ First(list, f.at - 1) \in Seq(X) /\ list[(f.at - 1) + 1] \in X
    BY ONLY <2>2, <2>3, FirstFacts
  <2> DEFINE a == First(list, f.at - 1)
             b == <<name>>
  <2>5. First(list, f.at) = a \o b /\ a \in Seq(X) /\ b \in Seq(X)
    BY <1>4, <2>1, <2>4
  <2> HIDE DEF a, b
  <2>6. images \o (a \o b) = (images \o a) \o b
    <3>1. \E D : images \in Seq(D) /\ a \in Seq(D) /\ b \in Seq(D)
      <4> DEFINE D == X \cup DOMAIN Resources
      <4>1. images \in Seq(D) /\ a \in Seq(D) /\ b \in Seq(D)
        BY <1>3, <2>5
      <4> HIDE DEF D
      <4>2. QED
        BY <4>1
    <3>2. PICK D : images \in Seq(D) /\ a \in Seq(D) /\ b \in Seq(D)
      BY <3>1
    <3>3. QED
      BY ONLY <3>2
  <2>7. QED
    BY <1>1, <1>4, <1>6, <2>5, <2>6 DEF Behind, kept, images, a, b, list
<1>7. QED
  BY <1>5, <1>6 DEF Facing

LEMMA LevelTyped ==
  ASSUME NEW f, FrameTyped(f), f.depth <= Limits.nestedDepth
  PROVE  /\ Level(f) \in Depths /\ f.depth \in Nat /\ Limits.nestedDepth \in Nat
         /\ Level(f) <= Limits.nestedDepth /\ Limits.nestedDepth \in Depths
         /\ Sound[Level(f)] \subseteq Sound[Limits.nestedDepth]
         /\ Sound[Level(f)] \subseteq DOMAIN Resources
<1>1. f.depth \in Nat /\ Limits.nestedDepth \in Nat
  BY NumbersAssumption DEF FrameTyped, FrameWith
<1>2. Level(f) \in Depths /\ Limits.nestedDepth \in Depths /\ Level(f) <= Limits.nestedDepth
  BY <1>1 DEF Level, Depths
<1>3. QED
  BY <1>1, <1>2, SoundWithin

LEMMA ChargeTyped ==
  ASSUME NEW in \in Inputs, NEW f, FrameTyped(f), f.depth <= Limits.nestedDepth, FrameSound(f, in),
         NEW m \in Measures
  PROVE  /\ Own(m, f) \in Nat /\ Behind(f, in.document) \in Seq(DOMAIN Resources)
         /\ SumOf(Cost(m), Behind(f, in.document)) \in Nat /\ Charge(m, f, in.document) \in Nat
<1>1. Behind(f, in.document) \in Seq(Sound[Level(f)]) /\ Sound[Level(f)] \subseteq DOMAIN Resources
  BY LevelTyped DEF FrameSound
<1>2. Behind(f, in.document) \in Seq(DOMAIN Resources)
  BY <1>1
<1>3. SumOf(Cost(m), Behind(f, in.document)) \in Nat
  BY <1>2, CostTyped, ValuesTyped
<1>4. Own(m, f) \in Nat
  <2>1. f.name \in Names /\ f.counts.elements \in Nat /\ f.counts.references \in Nat
    BY DEF FrameTyped, FrameWith, Counts
  <2>2. f.name # Root => Resources[f.name].size \in Nat
    <3>1. ASSUME NEW name \in DOMAIN Resources PROVE Resources[name].size \in Nat
      <4>1. {Resources[name].size, Resources[name].paints} \subseteq Nat
        BY HeldTyped, DocumentsAssumption
      <4>2. QED
        BY <4>1
    <3>2. QED
      BY <2>1, <3>1 DEF Names
  <2>3. QED
    BY <2>1, <2>2 DEF Own, OfCensus
<1>5. QED
  BY <1>2, <1>3, <1>4 DEF Charge

\* Taking an image charges its cost.
LEMMA ChargeNext ==
  ASSUME NEW in \in Inputs, NEW f, FrameTyped(f), f.depth <= Limits.nestedDepth, FrameSound(f, in),
         NEW m \in Measures, NEW name \in DOMAIN Resources, Facing(f, in.document, name)
  PROVE  /\ Charge(m, KeepTree(f, name), in.document) = Charge(m, f, in.document) + Cost(m)[name]
         /\ Cost(m)[name] \in Nat
<1>1. Behind(KeepTree(f, name), in.document) = Behind(f, in.document) \o <<name>>
  BY BehindNext
<1>2. /\ Own(m, f) \in Nat /\ Behind(f, in.document) \in Seq(DOMAIN Resources)
      /\ SumOf(Cost(m), Behind(f, in.document)) \in Nat
  BY ChargeTyped
<1>3. Cost(m) \in [DOMAIN Resources -> Nat] /\ Cost(m)[name] \in Nat
  BY CostTyped
<1>4. <<name>> \in Seq(DOMAIN Resources)
  OBVIOUS
<1>5. SumOf(Cost(m), Behind(f, in.document) \o <<name>>)
        = SumOf(Cost(m), Behind(f, in.document)) + SumOf(Cost(m), <<name>>)
  BY <1>2, <1>3, <1>4, SumOfConcat
<1>6. SumOf(Cost(m), <<name>>) = Cost(m)[name]
  BY <1>3, SumOfOne
<1>7. Own(m, KeepTree(f, name)) = Own(m, f)
  <2>1. /\ KeepTree(f, name).name = f.name /\ KeepTree(f, name).stage = f.stage
        /\ KeepTree(f, name).counts = f.counts
    BY KeptFields
  <2>2. QED
    BY <2>1 DEF Own
<1>8. QED
  BY <1>1, <1>2, <1>3, <1>5, <1>6, <1>7 DEF Charge

-----------------------------------------------------------------------------
(* The images of the input's own document                                  *)

LEMMA ImagesTyped ==
  ASSUME input \in Inputs, Files(input.document) \subseteq LegalPaths
  PROVE  /\ input.document \in Documents /\ Files(input.document) \subseteq DOMAIN Resources
         /\ DataImages(input.document) \in Seq(DOMAIN Resources) /\ Images \in Seq(DOMAIN Resources)
         /\ ToSet(Images) = ToSet(DataImages(input.document)) \cup Files(input.document)
<1> DEFINE doc == input.document
<1>1. doc \in Documents
  BY DEF Documents
<1>2. Files(doc) \subseteq DOMAIN Resources
  BY DocumentsAssumption
<1>3. DataImages(doc) \in Seq(DOMAIN Resources)
  BY <1>1, DocumentsAssumption
<1> DEFINE listed == SetToSeq(Files(doc))
<1>4. listed \in Seq(Files(doc)) /\ ToSet(listed) = Files(doc)
  BY <1>1, FilesFinite, SetListed
<1>5. listed \in Seq(DOMAIN Resources)
  BY <1>2, <1>4
<1>6. Images = DataImages(doc) \o listed
  BY DEF Images
<1> HIDE DEF listed
<1>7. ToSet(Images) = ToSet(DataImages(doc)) \cup ToSet(listed)
  BY <1>3, <1>5, <1>6, ToSetJoin
<1>8. Images \in Seq(DOMAIN Resources)
  BY <1>3, <1>5, <1>6
<1>9. QED
  BY <1>1, <1>2, <1>3, <1>4, <1>7, <1>8

\* Whatever the order the files are listed in, they cost the same.
LEMMA ImagesCost ==
  ASSUME input \in Inputs, Files(input.document) \subseteq LegalPaths,
         NEW list \in Seq(Files(input.document)), Distinct(list), ToSet(list) = Files(input.document),
         NEW m \in Measures
  PROVE  /\ list \in Seq(DOMAIN Resources)
         /\ SumOf(Cost(m), DataImages(input.document)) \in Nat /\ SumOf(Cost(m), list) \in Nat
         /\ SumOf(Cost(m), Images) =
              SumOf(Cost(m), DataImages(input.document)) + SumOf(Cost(m), list)
<1> DEFINE doc == input.document
           listed == SetToSeq(Files(doc))
           D == DOMAIN Resources
           f == Cost(m)
<1>1. doc \in Documents /\ Files(doc) \subseteq D /\ DataImages(doc) \in Seq(D)
  BY ImagesTyped
<1>2. f \in [D -> Nat]
  BY CostTyped
<1>3. listed \in Seq(Files(doc)) /\ Distinct(listed) /\ ToSet(listed) = Files(doc)
  BY <1>1, FilesFinite, SetListed
<1>4. listed \in Seq(D) /\ list \in Seq(D)
  BY <1>1, <1>3
<1>5. Images = DataImages(doc) \o listed
  BY DEF Images
<1> HIDE DEF listed, f, D
<1>6. SumOf(f, Images) = SumOf(f, DataImages(doc)) + SumOf(f, listed)
  BY <1>1, <1>2, <1>4, <1>5, SumOfConcat
<1>7. SumOf(f, listed) = SumOf(f, list)
  <2>1. Distinct(listed) /\ Distinct(list) /\ ToSet(listed) = ToSet(list)
    BY <1>3
  <2>2. QED
    BY ONLY <1>2, <1>4, <2>1, SameSum
<1>8. SumOf(f, DataImages(doc)) \in Nat /\ SumOf(f, list) \in Nat
  BY <1>1, <1>2, <1>4, ValuesTyped
<1>9. QED
  BY <1>4, <1>6, <1>7, <1>8 DEF f, D

-----------------------------------------------------------------------------
(* An input that nothing is wrong with                                     *)

\* Admissible but for the paint nodes, with the three budgets as one.
Ready ==
  /\ SizeOK
  /\ input.gzip => /\ input.intact /\ input.inflated <= Limits.decompressedBytes
                   /\ input.inflated <= input.size * Limits.expansionRatio
  /\ input.document.valid /\ Fits(input.document) /\ input.candidates <= Limits.candidates
  /\ Files(input.document) \subseteq LegalPaths
  /\ Files(input.document) # {} => input.provider
  /\ \A name \in ToSet(Images) : Resources[name].svg => input.nested
  /\ ToSet(Images) \subseteq Sound[Limits.nestedDepth]
  /\ \A m \in Measures : Grand(m) <= Limit(m)

LEMMA GrandTyped ==
  ASSUME input \in Inputs, Files(input.document) \subseteq LegalPaths, NEW m \in Measures
  PROVE  Grand(m) \in Nat /\ Limit(m) \in Nat
<1>1. input.document \in Documents /\ Images \in Seq(DOMAIN Resources)
  BY ImagesTyped
<1>2. SumOf(Cost(m), Images) \in Nat
  BY <1>1, CostTyped, ValuesTyped
<1>3. OfCensus(m, Census(input.document)) \in Nat
  BY <1>1, CensusTyped DEF OfCensus
<1>4. QED
  BY <1>2, <1>3, NumbersAssumption DEF Grand, Limit

LEMMA AdmissibleReady ==
  ASSUME input \in Inputs
  PROVE  Admissible <=> Ready /\ Painted <= Limits.paintNodes
<1>1. ASSUME Files(input.document) \subseteq LegalPaths
      PROVE  (\A m \in Measures : Grand(m) <= Limit(m)) <=>
               /\ SumOf(Bytes, Images) <= Limits.resources
               /\ Census(input.document).elements + SumOf(Elements, Images) <= Limits.elements
               /\ Census(input.document).references + SumOf(References, Images) <= Limits.references
  <2>1. /\ Grand("bytes") = SumOf(Bytes, Images)
        /\ Grand("elements") = Census(input.document).elements + SumOf(Elements, Images)
        /\ Grand("references") = Census(input.document).references + SumOf(References, Images)
    <3>1. Images \in Seq(DOMAIN Resources)
      BY <1>1, ImagesTyped
    <3>2. SumOf(Cost("bytes"), Images) \in Nat
      BY <3>1, CostTyped, ValuesTyped DEF Measures
    <3>3. /\ Cost("bytes") = Bytes /\ Cost("elements") = Elements /\ Cost("references") = References
          /\ \A c : OfCensus("bytes", c) = 0
          /\ \A c : OfCensus("elements", c) = c.elements /\ OfCensus("references", c) = c.references
      BY DEF Cost, OfCensus
    <3>4. QED
      BY <3>2, <3>3 DEF Grand
  <2>2. /\ Limit("bytes") = Limits.resources /\ Limit("elements") = Limits.elements
        /\ Limit("references") = Limits.references
    BY DEF Limit
  <2>3. QED
    BY <2>1, <2>2 DEF Measures
<1>2. QED
  BY <1>1 DEF Admissible, Ready

\* What a document may cost in all, and the level it is of.
House(m, f) == IF f.name = Root THEN Grand(m) ELSE Cost(m)[f.name]
Settled(f) == f.name # Root => f.name \in Sound[Level(f) + 1]

\* A frame of the chain, on its own.
FrameWell(f) == /\ FrameTyped(f) /\ f.depth <= Limits.nestedDepth /\ (f.name = Root <=> f.depth = 0)
                /\ FrameSound(f, input)

LEMMA OwnOf ==
  ASSUME input \in Inputs, NEW f, FrameWell(f), f.stage # "census", NEW m \in Measures
  PROVE  Own(m, f) = IF f.name = Root THEN OfCensus(m, Census(input.document)) ELSE OfImage(m, f.name)
<1> DEFINE doc == OfName(f.name, input.document)
<1>1. f.name \in Names
  BY DEF FrameWell, FrameTyped, FrameWith
<1>2. doc \in Documents /\ Found(doc, Len(doc.nodes), f.counts, f.external)
  BY <1>1, NamedTyped DEF FrameWell, FrameSound
<1>3. f.name # Root => doc.svg
  BY DEF FrameWell, FrameSound
<1> HIDE DEF doc
<1>4. f.counts = Census(doc)
  BY <1>2, FoundAll
<1>5. doc = IF f.name = Root THEN input.document ELSE Resources[f.name]
  BY DEF doc, OfName
<1>6. QED
  BY <1>3, <1>4, <1>5 DEF Own, OfImage, OfCensus

\* What a sound frame faces.
LEMMA FacingNamed ==
  ASSUME input \in Inputs, Ready, NEW f, FrameWell(f), NEW name, Facing(f, input.document, name)
  PROVE  /\ f.stage # "census" /\ f.at \in Nat \ {0}
         /\ f.name # Root => /\ f.stage = "images" /\ f.name \in DOMAIN Resources
                             /\ f.at <= Len(Held(f.name)) /\ name = Held(f.name)[f.at]
                             /\ name \in ToSet(Held(f.name)) /\ name \in DOMAIN Resources
         /\ f.name = Root => name \in ToSet(Images) /\ name \in DOMAIN Resources
<1>1. f.at \in Nat \ {0} /\ f.name \in Names
  BY DEF FrameWell, FrameTyped, FrameWith
<1>2. f.stage # "census"
  BY DEF Facing
<1>3. ASSUME f.name # Root
      PROVE  /\ f.stage = "images" /\ f.name \in DOMAIN Resources
             /\ f.at <= Len(Held(f.name)) /\ name = Held(f.name)[f.at]
             /\ name \in ToSet(Held(f.name)) /\ name \in DOMAIN Resources
  <2>1. f.external = <<>>
    BY <1>2, <1>3 DEF FrameWell, FrameSound
  <2>2. f.stage = "images"
    <3>1. Len(f.external) = 0
      BY <2>1
    <3>2. ~(f.at <= Len(f.external))
      BY <1>1, <3>1
    <3>3. QED
      BY <3>2 DEF Facing
  <2>3. f.name \in DOMAIN Resources /\ ImagesOf(f.name, input.document) = Held(f.name)
    BY <1>1, <1>3 DEF Names, ImagesOf, Held
  <2>4. f.at <= Len(Held(f.name)) /\ name = Held(f.name)[f.at]
    BY <2>2, <2>3 DEF Facing
  <2>5. /\ Held(f.name) \in Seq(DOMAIN Resources) /\ DOMAIN Held(f.name) = 1 .. Len(Held(f.name))
        /\ f.at \in 1 .. Len(Held(f.name))
    BY <1>1, <2>3, <2>4, HeldTyped
  <2>6. name \in ToSet(Held(f.name)) /\ name \in DOMAIN Resources
    BY <2>4, <2>5 DEF ToSet
  <2>7. QED
    BY <2>2, <2>3, <2>4, <2>6
<1>4. ASSUME f.name = Root PROVE name \in ToSet(Images) /\ name \in DOMAIN Resources
  <2>1. /\ DataImages(input.document) \in Seq(DOMAIN Resources) /\ Images \in Seq(DOMAIN Resources)
        /\ ToSet(Images) = ToSet(DataImages(input.document)) \cup Files(input.document)
        /\ input.document \in Documents /\ Files(input.document) \subseteq DOMAIN Resources
    BY ImagesTyped DEF Ready
  <2>2. CASE f.stage = "images"
    <3>1. f.at <= Len(DataImages(input.document)) /\ name = DataImages(input.document)[f.at]
      BY <1>4, <2>2 DEF Facing, ImagesOf
    <3>2. f.at \in DOMAIN DataImages(input.document)
      BY <1>1, <2>1, <3>1
    <3>3. name \in ToSet(DataImages(input.document)) /\ name \in DOMAIN Resources
      BY <2>1, <3>1, <3>2 DEF ToSet
    <3>4. QED
      BY <2>1, <3>3
  <2>3. CASE f.stage = "external"
    <3>1. f.at <= Len(f.external) /\ name = f.external[f.at]
      BY <2>3 DEF Facing
    <3>2. f.external \in Seq(Files(input.document))
      BY <1>4, <2>3 DEF FrameWell, FrameSound, Found, OfName
    <3>3. f.at \in 1 .. Len(f.external)
      BY <1>1, <3>1, <3>2
    <3>4. name \in Files(input.document)
      BY <3>1, <3>2, <3>3
    <3>5. QED
      BY <2>1, <3>4
  <2>4. QED
    BY <2>2, <2>3 DEF Facing
<1>5. QED
  BY <1>1, <1>2, <1>3, <1>4

\* What a frame has been charged for and what it faces are within its house.
LEMMA Room ==
  ASSUME input \in Inputs, Ready, NEW f, FrameWell(f), Settled(f), NEW m \in Measures,
         NEW name, Facing(f, input.document, name)
  PROVE  /\ name \in Sound[Level(f)] /\ name \in DOMAIN Resources
         /\ f.name = Root /\ Resources[name].svg => input.nested
         /\ Charge(m, f, input.document) \in Nat /\ Cost(m)[name] \in Nat /\ House(m, f) \in Nat
         /\ Charge(m, f, input.document) + Cost(m)[name] <= House(m, f)
<1> DEFINE charge == Charge(m, f, input.document)
           kept == KeepTree(f, name)
<1>1. /\ f.stage # "census" /\ f.at \in Nat \ {0} /\ name \in DOMAIN Resources
  BY FacingNamed
<1>2. FrameTyped(f) /\ f.depth <= Limits.nestedDepth /\ FrameSound(f, input)
  BY DEF FrameWell
<1>3. Charge(m, kept, input.document) = charge + Cost(m)[name] /\ Cost(m)[name] \in Nat
  BY <1>1, <1>2, ChargeNext
<1>4. charge \in Nat /\ Own(m, f) \in Nat
  BY <1>2, ChargeTyped
<1>5. Own(m, f) = IF f.name = Root THEN OfCensus(m, Census(input.document)) ELSE OfImage(m, f.name)
  BY <1>1, OwnOf
<1>6. Charge(m, kept, input.document) = Own(m, f) + SumOf(Cost(m), Behind(kept, input.document))
  <2>1. kept.name = f.name /\ kept.stage = f.stage /\ kept.counts = f.counts
    BY <1>1, <1>2, KeptFields
  <2>2. Own(m, kept) = Own(m, f)
    BY <2>1 DEF Own
  <2>3. QED
    BY <2>2 DEF Charge
<1>7. kept.name = f.name /\ kept.stage = f.stage /\ kept.external = f.external /\ kept.at - 1 = f.at
  <2>1. kept.name = f.name /\ kept.stage = f.stage /\ kept.external = f.external /\ kept.at = f.at + 1
    BY <1>1, <1>2, KeptFields
  <2>2. QED
    BY <1>1, <2>1
<1> HIDE DEF charge, kept
<1>8. Cost(m) \in [DOMAIN Resources -> Nat]
  BY CostTyped
<1>9. CASE f.name # Root
  <2> DEFINE held == Held(f.name)
  <2>1. /\ f.stage = "images" /\ f.name \in DOMAIN Resources /\ f.at <= Len(held)
        /\ name = held[f.at] /\ name \in ToSet(held)
    BY <1>9, FacingNamed
  <2>2. held \in Seq(DOMAIN Resources) /\ f.at \in 0 .. Len(held)
    BY <1>1, <2>1, HeldTyped
  <2>3. ImagesOf(f.name, input.document) = held
    BY <1>9 DEF ImagesOf, Held
  <2> HIDE DEF held
  <2>4. Behind(kept, input.document) = First(held, f.at)
    BY <1>7, <2>1, <2>3 DEF Behind
  <2>5. SumOf(Cost(m), First(held, f.at)) <= SumOf(Cost(m), held) /\ SumOf(Cost(m), First(held, f.at)) \in Nat
    BY <1>8, <2>2, SumOfFirst
  <2>6. SumOf(Cost(m), held) \in Nat
    BY <1>8, <2>2, ValuesTyped
  <2>7. f.name \in Sound[Level(f) + 1] /\ Level(f) \in Depths /\ Level(f) + 1 \in Depths
        /\ Level(f) + 1 # 0 /\ (Level(f) + 1) - 1 = Level(f)
        /\ Limits.nestedDepth \in Depths /\ Level(f) + 1 <= Limits.nestedDepth
    <3>1. Level(f) \in Depths /\ f.depth \in Nat /\ Limits.nestedDepth \in Nat /\ f.depth # 0
      BY <1>2, <1>9, LevelTyped DEF FrameWell
    <3>2. QED
      BY <1>9, <3>1 DEF Settled, Level, Depths
  <2>8. f.name \in Sound[Limits.nestedDepth]
    BY <2>7, SoundWithin
  <2>9. Resources[f.name].svg
    BY <1>2, <1>9 DEF FrameSound, OfName
  <2>10. Cost(m)[f.name] = OfImage(m, f.name) + SumOf(Cost(m), held)
    BY <2>8, <2>9, CostTyped DEF held
  <2>11. ToSet(held) \subseteq Sound[Level(f)]
    BY <2>1, <2>7, <2>9, SoundOf DEF held
  <2>12. OfImage(m, f.name) \in Nat
    BY <2>1, OfImageTyped
  <2>13. charge + Cost(m)[name] <= Cost(m)[f.name] /\ Cost(m)[f.name] \in Nat
    BY <1>3, <1>4, <1>5, <1>6, <1>9, <2>4, <2>5, <2>6, <2>10, <2>12
  <2>14. QED
    BY <1>1, <1>3, <1>4, <1>9, <2>1, <2>11, <2>13 DEF House, charge
<1>10. CASE f.name = Root
  <2> DEFINE images == DataImages(input.document)
             list == f.external
  <2>1. /\ input.document \in Documents /\ images \in Seq(DOMAIN Resources)
        /\ Files(input.document) \subseteq LegalPaths
    BY ImagesTyped DEF Ready
  <2>2. Found(input.document, Len(input.document.nodes), f.counts, list)
    BY <1>1, <1>2, <1>10 DEF FrameSound, OfName
  <2>3. list \in Seq(Files(input.document)) /\ Distinct(list) /\ ToSet(list) = Files(input.document)
    BY <2>1, <2>2, FoundAll
  <2> HIDE DEF images, list
  <2>4. /\ list \in Seq(DOMAIN Resources)
        /\ SumOf(Cost(m), images) \in Nat /\ SumOf(Cost(m), list) \in Nat
        /\ SumOf(Cost(m), Images) = SumOf(Cost(m), images) + SumOf(Cost(m), list)
    BY <2>1, <2>3, ImagesCost DEF images
  <2>5. ImagesOf(f.name, input.document) = images
    BY <1>10 DEF ImagesOf, images
  <2>6. SumOf(Cost(m), Behind(kept, input.document)) \in Nat
        /\ SumOf(Cost(m), Behind(kept, input.document)) <= SumOf(Cost(m), Images)
    <3>1. CASE f.stage = "images"
      <4>1. f.at \in 0 .. Len(images)
        BY <1>1, <2>1, <2>5, <3>1 DEF Facing, images
      <4>2. Behind(kept, input.document) = First(images, f.at)
        BY <1>7, <2>5, <3>1 DEF Behind
      <4>3. SumOf(Cost(m), First(images, f.at)) \in Nat
            /\ SumOf(Cost(m), First(images, f.at)) <= SumOf(Cost(m), images)
        BY <1>8, <2>1, <4>1, SumOfFirst DEF images
      <4>4. QED
        BY <2>4, <4>2, <4>3
    <3>2. CASE f.stage = "external"
      <4>1. f.at \in 0 .. Len(list)
        BY <1>1, <2>3, <3>2 DEF Facing, list
      <4>2. Behind(kept, input.document) = images \o First(list, f.at)
        BY <1>7, <2>5, <3>2 DEF Behind, list
      <4>3. /\ First(list, f.at) \in Seq(DOMAIN Resources)
            /\ SumOf(Cost(m), First(list, f.at)) \in Nat
            /\ SumOf(Cost(m), First(list, f.at)) <= SumOf(Cost(m), list)
        BY <1>8, <2>4, <4>1, SumOfFirst
      <4>4. images \in Seq(DOMAIN Resources)
        BY <2>1 DEF images
      <4>5. SumOf(Cost(m), images \o First(list, f.at))
              = SumOf(Cost(m), images) + SumOf(Cost(m), First(list, f.at))
        BY <1>8, <4>3, <4>4, SumOfConcat
      <4>6. QED
        BY <2>4, <4>2, <4>3, <4>5
    <3>3. QED
      BY <3>1, <3>2 DEF Facing
  <2>7. charge + Cost(m)[name] <= Grand(m) /\ Grand(m) \in Nat
    <3>1. Own(m, f) = OfCensus(m, Census(input.document))
      BY <1>5, <1>10
    <3>2. Grand(m) = OfCensus(m, Census(input.document)) + SumOf(Cost(m), Images)
      BY DEF Grand
    <3>3. Grand(m) \in Nat
      BY <2>1, GrandTyped
    <3>4. SumOf(Cost(m), Images) \in Nat
      BY <2>4
    <3>5. QED
      BY <1>3, <1>4, <1>6, <2>6, <3>1, <3>2, <3>3, <3>4
  <2>8. name \in ToSet(Images)
    BY <1>10, FacingNamed
  <2>9. name \in Sound[Limits.nestedDepth] /\ (Resources[name].svg => input.nested)
    BY <2>8 DEF Ready
  <2>10. Level(f) = Limits.nestedDepth
    <3>1. f.depth = 0
      BY <1>10 DEF FrameWell
    <3>2. QED
      BY <3>1, NumbersAssumption DEF Level
  <2>11. QED
    BY <1>1, <1>3, <1>4, <1>10, <2>7, <2>9, <2>10 DEF House, charge
<1>11. QED
  BY <1>9, <1>10

-----------------------------------------------------------------------------
(* The frames of a chain                                                   *)

\* Every frame is sound, and the budget is what they were charged for.
SoundInv == \A i \in DOMAIN frames : FrameSound(frames[i], input)
DuesInv  == \A m \in Measures : Balanced(m, frames, input.document, Spent(m, budget))

LEMMA FramesWell ==
  ASSUME IngestInv, SoundInv
  PROVE  /\ Len(frames) \in Nat /\ DOMAIN frames = 1 .. Len(frames) /\ frames \in Seq(ToSet(frames))
         /\ \A i \in DOMAIN frames : FrameWell(frames[i])
<1>1. /\ Len(frames) \in Nat /\ DOMAIN frames = 1 .. Len(frames) /\ frames \in Seq(ToSet(frames))
      /\ \A i \in DOMAIN frames : FrameTyped(frames[i])
  BY DEF IngestInv, FrameInv, FramesTyped
<1>2. ASSUME NEW i \in DOMAIN frames PROVE FrameWell(frames[i])
  <2>1. /\ frames[i].depth = Len(frames) - i /\ (frames[i].name = Root <=> i = Len(frames))
        /\ Len(frames) <= Limits.nestedDepth + 1
    BY DEF IngestInv, FrameInv, Chain
  <2>2. i \in 1 .. Len(frames) /\ Limits.nestedDepth \in Nat
    BY <1>1, NumbersAssumption
  <2>3. frames[i].depth <= Limits.nestedDepth /\ (frames[i].name = Root <=> frames[i].depth = 0)
    BY <1>1, <2>1, <2>2
  <2>4. QED
    BY <1>1, <2>3 DEF SoundInv, FrameWell
<1>3. QED
  BY <1>1, <1>2

LEMMA ReachedFacing ==
  ASSUME IngestInv, NEW i \in DOMAIN frames, NEW name,
         Reached(frames[i], input.document, loads, name)
  PROVE  Facing(frames[i], input.document, name)
<1> DEFINE f == frames[i]
<1>1. /\ Len(frames) \in Nat /\ DOMAIN frames = 1 .. Len(frames) /\ FrameTyped(f)
      /\ (f.stage = "external" => i = Len(frames)) /\ frames # <<>> /\ loads \in Seq(LegalPaths)
  BY SharedIn DEF IngestInv, FrameInv, FramesTyped, Chain
<1>2. f.at \in Nat \ {0} /\ f.stage \in {"census", "images", "external"}
  BY <1>1 DEF FrameTyped, FrameWith
<1>3. /\ f.stage # "census" /\ f.at <= Len(Awaited(f, input.document, loads))
      /\ name = Awaited(f, input.document, loads)[f.at]
  BY DEF Reached
<1>4. CASE f.stage = "images"
  BY <1>3, <1>4 DEF Facing, Awaited
<1>5. CASE f.stage = "external"
  <2>1. RootFollows(f, loads)
    BY <1>1, <1>5 DEF IngestInv, FrameInv, LoadsFollow
  <2>2. f.at <= Len(loads) /\ name = loads[f.at]
    BY <1>3, <1>5 DEF Awaited
  <2> HIDE DEF f
  <2>3. /\ Len(loads) <= f.at /\ (\A k \in DOMAIN loads : loads[k] = f.external[k])
        /\ (Len(loads) = f.at => f.at <= Len(f.external))
    BY <1>5, <2>1 DEF RootFollows
  <2>4. Len(loads) = f.at /\ f.at \in DOMAIN loads
    BY <1>1, <1>2, <2>2, <2>3
  <2>5. f.at <= Len(f.external) /\ name = f.external[f.at]
    BY <2>2, <2>3, <2>4
  <2>6. QED
    BY <1>5, <2>5 DEF Facing, f
<1>6. QED
  BY <1>2, <1>3, <1>4, <1>5

\* Each frame but the innermost faces the one before it.
LEMMA FrameFaces ==
  ASSUME IngestInv, NEW i \in DOMAIN frames, i # 1
  PROVE  Facing(frames[i], input.document, frames[i - 1].name)
<1>1. i > 1
  BY DEF IngestInv, FrameInv, FramesTyped
<1>2. Reached(frames[i], input.document, loads, frames[i - 1].name)
  BY <1>1 DEF IngestInv, FrameInv, Chain, Reached
<1>3. QED
  BY <1>2, ReachedFacing

\* Whatever the depth of the frame at work, its house stands within the limit
\* next to what the frames that wait for it were charged for.
LEMMA TopRoom ==
  ASSUME IngestInv, SoundInv, DuesInv, Ready, stage = "documents", NEW m \in Measures
  PROVE  /\ FrameWell(Top) /\ Settled(Top) /\ House(m, Top) \in Nat
         /\ Charge(m, Top, input.document) \in Nat
         /\ \E rest \in Nat : /\ Spent(m, budget) = Charge(m, Top, input.document) + rest
                              /\ House(m, Top) + rest <= Limit(m)
<1> DEFINE n == Len(frames)
           doc == input.document
<1>1. PICK sums : Ledger(sums, m, frames, doc, Spent(m, budget))
  BY DEF DuesInv, Balanced
<1>2. /\ n \in Nat \ {0} /\ DOMAIN frames = 1 .. n /\ Top = frames[1] /\ input \in Inputs
      /\ \A i \in 1 .. n : FrameWell(frames[i])
  BY TopTyped, FramesWell, SharedIn
<1>3. /\ sums \in [1 .. n + 1 -> Nat] /\ sums[n + 1] = 0
      /\ \A i \in 1 .. n : sums[i] = Charge(m, frames[i], doc) + sums[i + 1]
      /\ sums[1] = Spent(m, budget)
  BY <1>1 DEF Ledger
<1>4. Grand(m) \in Nat /\ Limit(m) \in Nat /\ Grand(m) <= Limit(m)
  BY <1>2, GrandTyped DEF Ready
<1>5. \A i \in 1 .. n : (frames[i].name = Root <=> i = n) /\ frames[i].depth = n - i
  BY <1>2 DEF IngestInv, FrameInv, Chain
<1>6. \A i \in 1 .. n : i # 1 => Facing(frames[i], doc, frames[i - 1].name)
  BY <1>2, FrameFaces
<1> DEFINE Holds(i) == /\ Settled(frames[i]) /\ House(m, frames[i]) \in Nat
                       /\ House(m, frames[i]) + sums[i + 1] <= Limit(m)
           S == {k \in 0 .. n - 1 : Holds(n - k)}
<1> HIDE DEF n
<1>7. 0 \in S
  <2>1. n \in 1 .. n /\ n - 0 = n /\ 0 \in 0 .. n - 1
    BY <1>2
  <2>2. frames[n].name = Root
    BY <1>5, <2>1
  <2>3. Holds(n)
    BY <1>3, <1>4, <2>2 DEF Settled, House
  <2>4. QED
    BY <2>1, <2>3
<1>8. ASSUME NEW k \in 0 .. (n - 1) - 1, k \in S PROVE k + 1 \in S
  <2>1. n - k \in 1 .. n /\ n - k # 1 /\ n - (k + 1) = (n - k) - 1 /\ k + 1 \in 0 .. n - 1
        /\ (n - k) - 1 \in 1 .. n /\ (n - k) - 1 # n /\ ((n - k) - 1) + 1 = n - k
        /\ (n - k) + 1 \in 1 .. n + 1
    BY <1>2
  <2>2. Holds(n - k)
    BY <1>8
  <2> DEFINE j == n - k
             f == frames[j]
             g == frames[j - 1]
  <2>3. /\ j \in 1 .. n /\ j # 1 /\ j - 1 \in 1 .. n /\ j - 1 # n /\ (j - 1) + 1 = j
        /\ j + 1 \in 1 .. n + 1 /\ n - (k + 1) = j - 1
    BY <2>1
  <2>4. Settled(f) /\ House(m, f) \in Nat /\ House(m, f) + sums[j + 1] <= Limit(m)
    BY <2>2
  <2> HIDE DEF j
  <2>5. FrameWell(f) /\ FrameWell(g) /\ Facing(f, doc, g.name) /\ g.name # Root
        /\ f.depth = n - j /\ g.depth = n - (j - 1)
    BY <1>2, <1>5, <1>6, <2>3
  <2>6. sums[j] = Charge(m, f, doc) + sums[j + 1] /\ sums[j + 1] \in Nat
    BY <1>3, <2>3
  <2> HIDE DEF f, g
  <2>7. /\ g.name \in Sound[Level(f)]
        /\ Charge(m, f, doc) \in Nat /\ Cost(m)[g.name] \in Nat
        /\ Charge(m, f, doc) + Cost(m)[g.name] <= House(m, f)
    BY <1>2, <2>4, <2>5, Room
  <2>8. Level(f) = Level(g) + 1
    <3>1. Limits.nestedDepth \in Nat /\ n \in Nat /\ j \in Nat
      BY <1>2, <2>3, NumbersAssumption
    <3>2. QED
      BY <2>5, <3>1 DEF Level
  <2>9. Settled(g)
    BY <2>7, <2>8 DEF Settled
  <2>10. House(m, g) = Cost(m)[g.name]
    BY <2>5 DEF House
  <2>11. House(m, g) \in Nat /\ House(m, g) + sums[j] <= Limit(m)
    BY <1>4, <2>4, <2>6, <2>7, <2>10
  <2>12. Holds(j - 1)
    BY <2>3, <2>9, <2>11 DEF g
  <2>13. QED
    BY <2>1, <2>3, <2>12
<1> HIDE DEF S
<1>9. 0 .. n - 1 \subseteq S
  <2>1. n - 1 \in Nat
    BY <1>2
  <2>2. QED
    BY <1>7, <1>8, <2>1, IntervalInduction
<1>10. Holds(1)
  <2>1. n - 1 \in 0 .. n - 1 /\ n - (n - 1) = 1
    BY <1>2
  <2>2. QED
    BY <1>9, <2>1 DEF S
<1>11. sums[2] \in Nat /\ Spent(m, budget) = Charge(m, Top, doc) + sums[2]
  BY <1>2, <1>3
<1>12. Charge(m, Top, doc) \in Nat
  <2>1. FrameTyped(Top) /\ Top.depth <= Limits.nestedDepth /\ FrameSound(Top, input)
    BY <1>2 DEF FrameWell
  <2>2. QED
    BY <1>2, <2>1, ChargeTyped
<1>13. QED
  BY <1>2, <1>10, <1>11, <1>12

-----------------------------------------------------------------------------
(* The invariant of the verdict                                            *)

\* What was found before the documents.
EarlyInv ==
  /\ stage \in {"inflate", "parse", "documents", "paint"} => SizeOK
  /\ stage = "inflate" => input.gzip
  /\ stage \in {"parse", "documents", "paint"} /\ input.gzip =>
       input.intact /\ inflated = input.inflated
  /\ stage \in {"documents", "paint"} => input.document.valid

\* A tree is built of what nothing else is wrong with; the paint nodes counted
\* and those of the trees to count are those of the whole tree.
Trees == {name \in Sound[Limits.nestedDepth] : Resources[name].svg}
PaintInv ==
  stage = "paint" =>
    /\ Ready
    /\ \/ paint = [count |-> 1, trees |-> <<Root>>]
       \/ /\ paint.trees \in Seq(Trees)
          /\ paint.count + SumOf(Paints, paint.trees) = Painted

VerdictInv == SoundInv /\ DuesInv /\ EarlyInv /\ PaintInv /\ VerdictExact /\ PaintCounted

LEMMA SameVerdict ==
  ASSUME UNCHANGED input
  PROVE  (Admissible' <=> Admissible) /\ Painted' = Painted /\ (Ready' <=> Ready)
<1>1. Painted' = Painted /\ Images' = Images /\ (SizeOK' <=> SizeOK)
  BY DEF Painted, Images, SizeOK
<1>2. Admissible' <=> Admissible
  BY <1>1 DEF Admissible
<1>3. (\A m \in Measures : Grand(m) <= Limit(m))' <=> (\A m \in Measures : Grand(m) <= Limit(m))
  BY <1>1 DEF Grand
<1>4. Ready' <=> Ready
  BY <1>1, <1>3 DEF Ready
<1>5. QED
  BY <1>1, <1>2, <1>4

\* An end is a verdict.
Rejections == {"limit", "invalid", "rejected"}
LEMMA StopVerdict ==
  ASSUME VerdictInv, NEW why, Stop(why), why \in Rejections => ~Admissible,
         why = "accepted" => Admissible /\ paint.count = Painted
  PROVE  VerdictInv'
<1>1. /\ stage' = "ended" /\ outcome' = why
      /\ UNCHANGED <<input, inflated, frames, budget, loads, paint, cancelled>>
  BY DEF Stop
<1>2. SoundInv' /\ DuesInv'
  BY <1>1 DEF VerdictInv, SoundInv, DuesInv
<1>3. EarlyInv' /\ PaintInv'
  BY <1>1 DEF EarlyInv, PaintInv
<1>4. VerdictExact' /\ PaintCounted'
  BY <1>1, SameVerdict DEF VerdictExact, PaintCounted, Rejections
<1>5. QED
  BY <1>2, <1>3, <1>4 DEF VerdictInv

\* An admission that goes on has none.
LEMMA GoesOn ==
  ASSUME IngestInv, UNCHANGED outcome, stage # "ended"
  PROVE  VerdictExact' /\ PaintCounted'
<1>1. outcome' = "none"
  BY DEF IngestInv, SharedTyped
<1>2. QED
  BY <1>1 DEF VerdictExact, PaintCounted

-----------------------------------------------------------------------------
(* Rejections                                                              *)

\* What is rejected before the documents is not admissible.
LEMMA EarlyRejections ==
  ASSUME IngestInv, EarlyInv, RejectInput \/ InflateTooFar \/ InflateCorrupt \/ RejectRoot
  PROVE  ~Admissible
<1>1. CASE RejectInput
  BY <1>1 DEF RejectInput, Admissible
<1>2. CASE InflateCorrupt
  BY <1>2 DEF InflateCorrupt, EarlyInv, Admissible
<1>3. CASE RejectRoot
  BY <1>3 DEF RejectRoot, Admissible
<1>4. CASE InflateTooFar
  <2>1. stage = "inflate" /\ \E read \in Reads : inflated + read > ByteLimit
    BY <1>4 DEF InflateTooFar
  <2>2. PICK read \in Reads : inflated + read > ByteLimit
    BY <2>1
  <2>3. input.gzip
    BY <2>1 DEF EarlyInv
  <2>4. /\ input \in Inputs /\ input.size \in Nat /\ input.inflated \in Nat
        /\ inflated \in 0 .. input.inflated
        /\ Limits.expansionRatio \in Nat /\ Limits.decompressedBytes \in Nat /\ Buffer \in Nat
    BY NumbersAssumption DEF IngestInv, SharedTyped
  <2>5. read \in Nat /\ read <= input.inflated - inflated
    BY <2>4 DEF Reads
  <2> DEFINE ratio == input.size * Limits.expansionRatio
  <2>6. ratio \in Nat
    BY <2>4
  <2>7. ByteLimit = IF ratio < Limits.decompressedBytes THEN ratio ELSE Limits.decompressedBytes
    BY DEF ByteLimit
  <2>8. Admissible => input.inflated <= Limits.decompressedBytes /\ input.inflated <= ratio
    BY <2>3 DEF Admissible
  <2> HIDE DEF ratio
  <2>9. QED
    BY <2>2, <2>4, <2>5, <2>6, <2>7, <2>8
<1>5. QED
  BY <1>1, <1>2, <1>3, <1>4

\* The document at work, if nothing is wrong with the input.
LEMMA TopFits ==
  ASSUME IngestInv, SoundInv, DuesInv, Ready, stage = "documents"
  PROVE  /\ Document(Top.name) \in Documents /\ Document(Top.name) = OfName(Top.name, input.document)
         /\ Fits(Document(Top.name)) /\ FrameWell(Top) /\ Settled(Top) /\ input \in Inputs
         /\ Top.at \in Nat \ {0}
         /\ Top.name # Root => Top.name \in Sound[Limits.nestedDepth] /\ Files(Document(Top.name)) = {}
<1>1. FrameWell(Top) /\ Settled(Top) /\ input \in Inputs /\ Top.name \in Names /\ Top.at \in Nat \ {0}
  BY TopRoom, TopTyped, SharedIn DEF Measures
<1>2. Document(Top.name) = OfName(Top.name, input.document)
  BY DEF Document, OfName
<1>3. Document(Top.name) \in Documents
  BY <1>1, <1>2, NamedTyped
<1>4. CASE Top.name = Root
  BY <1>1, <1>2, <1>3, <1>4 DEF Ready, OfName
<1>5. CASE Top.name # Root
  <2>1. /\ Level(Top) \in Depths /\ Top.depth \in Nat \ {0} /\ Limits.nestedDepth \in Depths
        /\ Limits.nestedDepth \in Nat
    BY <1>1, <1>5, LevelTyped DEF FrameWell
  <2>2. Level(Top) + 1 \in Depths /\ Level(Top) + 1 <= Limits.nestedDepth
    BY <2>1 DEF Level, Depths
  <2>3. Top.name \in Sound[Level(Top) + 1]
    BY <1>1, <1>5 DEF Settled
  <2>4. Top.name \in Sound[Limits.nestedDepth] /\ Top.name \in DOMAIN Resources
    BY <2>1, <2>2, <2>3, SoundWithin
  <2>5. Resources[Top.name].svg
    BY <1>1, <1>5 DEF FrameWell, FrameSound, OfName
  <2>6. Alone(Resources[Top.name])
    BY <2>1, <2>4, SoundOf
  <2>7. Document(Top.name) = Resources[Top.name]
    BY <1>5 DEF Document
  <2>8. QED
    BY <1>1, <1>2, <1>3, <2>4, <2>5, <2>6, <2>7 DEF Alone
<1>6. QED
  BY <1>4, <1>5

\* No node of it is beyond a limit.
LEMMA CensusRejects ==
  ASSUME IngestInv, SoundInv, DuesInv, Ready, InCensus
  PROVE  /\ Bounded(Document(Top.name).nodes[Top.at])
         /\ WithinDocument(Counted(Top.counts, Document(Top.name).nodes[Top.at]))
<1> DEFINE doc == Document(Top.name)
           k == Top.at - 1
<1>1. stage = "documents" /\ Top.stage = "census" /\ Top.at <= Len(doc.nodes)
  BY DEF InCensus, InStage
<1>2. doc \in Documents /\ doc = OfName(Top.name, input.document) /\ Fits(doc) /\ FrameWell(Top)
      /\ Top.at \in Nat \ {0}
  BY <1>1, TopFits
<1>3. Found(doc, k, Top.counts, Top.external)
  BY <1>1, <1>2 DEF FrameWell, FrameSound
<1> HIDE DEF doc
<1>4. Len(doc.nodes) \in Nat /\ DOMAIN doc.nodes = 1 .. Len(doc.nodes)
  BY <1>2, NodesTyped
<1>5. k \in Nat /\ k + 1 = Top.at /\ k + 1 \in DOMAIN doc.nodes /\ k + 1 \in 0 .. Len(doc.nodes)
  BY <1>1, <1>2, <1>4
<1>6. Bounded(doc.nodes[Top.at]) /\ WithinDocument(Census(doc))
  BY <1>2, <1>5 DEF Fits
<1>7. Top.counts = CensusUpTo(doc, k)
  BY <1>3 DEF Found
<1> HIDE DEF k
<1>8. CensusUpTo(doc, k + 1) = Counted(Top.counts, doc.nodes[Top.at])
  BY <1>2, <1>5, <1>7, CensusNext
<1>9. WithinDocument(CensusUpTo(doc, k + 1))
  BY <1>2, <1>5, <1>6, CensusWithin
<1>10. QED
  BY <1>6, <1>8, <1>9 DEF doc

LEMMA HrefsListed ==
  ASSUME NEW doc \in Documents, NEW kinds
  PROVE  \A x : x \in ToSet(Hrefs(doc, kinds)) <=> Refers(doc, kinds, x)
<1> DEFINE D == UNION {{ref.target : ref \in ToSet(node.refs)} : node \in ToSet(doc.nodes)}
<1>1. ASSUME NEW x, Refers(doc, kinds, x) PROVE x \in D
  <2>1. PICK i \in DOMAIN doc.nodes : \E j \in DOMAIN doc.nodes[i].refs : doc.nodes[i].refs[j].target = x
    BY <1>1 DEF Refers
  <2>2. PICK j \in DOMAIN doc.nodes[i].refs : doc.nodes[i].refs[j].target = x
    BY <2>1
  <2>3. doc.nodes[i] \in ToSet(doc.nodes) /\ doc.nodes[i].refs[j] \in ToSet(doc.nodes[i].refs)
    BY DEF ToSet
  <2>4. x \in {ref.target : ref \in ToSet(doc.nodes[i].refs)}
    BY <2>2, <2>3
  <2>5. QED
    BY <2>3, <2>4
<1> HIDE DEF D
<1>2. QED
  BY <1>1, HrefsOf

\* What an image costs is no less than what it is.
LEMMA CostAtLeast ==
  ASSUME NEW m \in Measures, NEW name \in Sound[Limits.nestedDepth]
  PROVE  /\ Cost(m)[name] \in Nat /\ OfImage(m, name) \in Nat /\ OfImage(m, name) <= Cost(m)[name]
         /\ name \in DOMAIN Resources
<1>1. Limits.nestedDepth \in Depths
  BY NumbersAssumption DEF Depths
<1>2. name \in DOMAIN Resources
  BY <1>1, SoundLevels
<1>3. Cost(m) \in [DOMAIN Resources -> Nat] /\ OfImage(m, name) \in Nat
  BY <1>2, CostTyped, OfImageTyped
<1>4. SumOf(Cost(m), Held(name)) \in Nat
  BY <1>2, <1>3, HeldTyped, ValuesTyped
<1>5. Cost(m)[name] = OfImage(m, name) + IF Resources[name].svg THEN SumOf(Cost(m), Held(name)) ELSE 0
  BY CostTyped
<1>6. QED
  BY <1>2, <1>3, <1>4, <1>5

\* A census that is over is charged for.
LEMMA AdmitRejects ==
  ASSUME IngestInv, SoundInv, DuesInv, Ready, InStage("census"),
         Top.at > Len(Document(Top.name).nodes)
  PROVE  CensusOK /\ IF Top.name = Root THEN RootOK ELSE NestedOK
<1> DEFINE doc == Document(Top.name)
           counts == Top.counts
<1>1. stage = "documents" /\ Top.stage = "census"
  BY DEF InStage
<1>2. /\ doc \in Documents /\ doc = OfName(Top.name, input.document) /\ Fits(doc) /\ FrameWell(Top)
      /\ Top.at \in Nat \ {0} /\ input \in Inputs /\ Settled(Top)
      /\ Top.name # Root => Top.name \in Sound[Limits.nestedDepth] /\ Files(doc) = {}
  BY <1>1, TopFits
<1>3. Found(doc, Top.at - 1, counts, Top.external)
  BY <1>1, <1>2 DEF FrameWell, FrameSound
<1>4. Top.at - 1 = Len(doc.nodes)
  BY <1>2, <1>3, NodesTyped DEF Found
<1>5. counts = Census(doc) /\ Top.external \in Seq(Files(doc))
  BY <1>2, <1>3, <1>4, FoundAll
<1> HIDE DEF doc, counts
<1>6. CensusOK
  BY <1>2, <1>5 DEF CensusOK, Fits, doc, counts
<1>7. ASSUME Top.name = Root PROVE RootOK
  <2>1. doc = input.document /\ doc = Document(Root)
    BY <1>7 DEF doc, Document
  <2>2. ASSUME NestedImages(doc) PROVE input.nested
    <3>0. PICK i \in DOMAIN doc.nodes :
            /\ doc.nodes[i].tag = "image"
            /\ \E j \in DOMAIN doc.nodes[i].refs : ClaimsSvg(doc.nodes[i].refs[j])
      BY <2>2 DEF NestedImages
    <3>1. PICK j \in DOMAIN doc.nodes[i].refs :
            doc.nodes[i].tag = "image" /\ ClaimsSvg(doc.nodes[i].refs[j])
      BY <3>0
    <3> DEFINE x == doc.nodes[i].refs[j].target
    <3>2. doc.nodes[i].refs[j].kind \in {"data", "shouted"} /\ Resources[x].svg
      BY <3>1 DEF ClaimsSvg
    <3>3. Refers(doc, {"data", "shouted"}, x)
      BY <3>1, <3>2 DEF Refers
    <3> HIDE DEF x
    <3>4. x \in ToSet(Hrefs(doc, {"data", "shouted"}))
      BY <1>2, <3>3, HrefsListed
    <3>5. x \in ToSet(Images)
      BY <1>2, <2>1, <3>4, ImagesTyped DEF Ready, DataImages
    <3>6. QED
      BY <3>2, <3>5 DEF Ready
  <2>3. input.candidates <= Limits.candidates
    BY DEF Ready
  <2>4. QED
    BY <2>1, <2>2, <2>3 DEF RootOK
<1>8. ASSUME Top.name # Root PROVE NestedOK
  <2>1. Top.external = <<>>
    BY <1>2, <1>5, <1>8
  <2>2. Resources[Top.name].svg /\ doc = Resources[Top.name]
    BY <1>2, <1>8 DEF FrameWell, FrameSound, OfName
  <2>3. /\ budget.elements \in Nat /\ budget.references \in Nat /\ budget \in Budgets
    BY SharedIn, BudgetFields
  <2>4. ASSUME NEW m \in {"elements", "references"}
        PROVE  Spent(m, budget) + OfCensus(m, counts) <= Limit(m)
    <3>1. m \in Measures
      BY DEF Measures
    <3>2. /\ Charge(m, Top, input.document) \in Nat /\ House(m, Top) \in Nat
          /\ \E rest \in Nat : /\ Spent(m, budget) = Charge(m, Top, input.document) + rest
                               /\ House(m, Top) + rest <= Limit(m)
      BY <1>1, <3>1, TopRoom
    <3>3. Charge(m, Top, input.document) = 0
      <4>1. Behind(Top, input.document) = <<>>
        BY <1>1 DEF Behind
      <4>2. Own(m, Top) = 0
        BY <1>1 DEF Own
      <4>3. QED
        BY <4>1, <4>2, SumOfEmpty DEF Charge
    <3>4. House(m, Top) = Cost(m)[Top.name]
      BY <1>8 DEF House
    <3>5. OfImage(m, Top.name) <= Cost(m)[Top.name] /\ OfImage(m, Top.name) \in Nat
      BY <1>2, <1>8, <3>1, CostAtLeast
    <3>6. OfImage(m, Top.name) = OfCensus(m, counts)
      BY <1>5, <2>2 DEF OfImage
    <3>7. PICK rest \in Nat : /\ Spent(m, budget) = Charge(m, Top, input.document) + rest
                              /\ House(m, Top) + rest <= Limit(m)
      BY <3>2
    <3>8. Limit(m) \in Nat
      BY <1>2, <3>1, GrandTyped DEF Ready
    <3>9. QED
      BY <3>2, <3>3, <3>4, <3>5, <3>6, <3>7, <3>8
  <2>5. /\ budget.elements + counts.elements <= Limits.elements
        /\ budget.references + counts.references <= Limits.references
    <3>1. /\ Spent("elements", budget) + OfCensus("elements", counts) <= Limit("elements")
          /\ Spent("references", budget) + OfCensus("references", counts) <= Limit("references")
      BY <2>4
    <3>2. QED
      BY <3>1 DEF Spent, OfCensus, Limit
  <2>6. /\ SharedBudget.elements = budget.elements + counts.elements
        /\ SharedBudget.references = budget.references + counts.references
    BY <2>3 DEF SharedBudget, Budgets, counts
  <2>7. QED
    BY <2>1, <2>5, <2>6 DEF NestedOK
<1>9. QED
  BY <1>6, <1>7, <1>8

\* So is an image.
LEMMA ImageRejects ==
  ASSUME IngestInv, SoundInv, DuesInv, Ready, stage = "documents",
         NEW name, Facing(Top, input.document, name)
  PROVE  ~Refused(name)
<1> DEFINE res == Resources[name]
<1>1. FrameWell(Top) /\ Settled(Top) /\ input \in Inputs
  BY TopFits
<1>2. "bytes" \in Measures
  BY DEF Measures
<1>3. /\ name \in Sound[Level(Top)] /\ name \in DOMAIN Resources
      /\ (Top.name = Root /\ res.svg => input.nested)
      /\ Charge("bytes", Top, input.document) + Cost("bytes")[name] <= House("bytes", Top)
  BY <1>1, <1>2, Room
<1>4. /\ Level(Top) \in Depths /\ Top.depth \in Nat /\ Limits.nestedDepth \in Nat
      /\ Sound[Level(Top)] \subseteq Sound[Limits.nestedDepth]
  BY <1>1, LevelTyped DEF FrameWell
<1>5. /\ Alone(res) /\ (res.svg => Level(Top) # 0)
  BY <1>3, <1>4, SoundOf
<1>6. Reservable(res)
  <2>1. /\ Charge("bytes", Top, input.document) \in Nat /\ House("bytes", Top) \in Nat
        /\ \E rest \in Nat : /\ Spent("bytes", budget) = Charge("bytes", Top, input.document) + rest
                             /\ House("bytes", Top) + rest <= Limit("bytes")
    BY <1>2, TopRoom
  <2>2. PICK rest \in Nat : /\ Spent("bytes", budget) = Charge("bytes", Top, input.document) + rest
                            /\ House("bytes", Top) + rest <= Limit("bytes")
    BY <2>1
  <2>3. Spent("bytes", budget) = budget.bytes /\ Limit("bytes") = Limits.resources
    BY DEF Spent, Limit
  <2>4. Cost("bytes")[name] \in Nat /\ OfImage("bytes", name) \in Nat
        /\ OfImage("bytes", name) <= Cost("bytes")[name]
    BY <1>2, <1>3, <1>4, CostAtLeast
  <2>5. OfImage("bytes", name) = res.size
    BY DEF OfImage
  <2>6. Limits.resources \in Nat
    BY NumbersAssumption
  <2>7. budget.bytes + res.size <= Limits.resources
    BY <1>3, <2>1, <2>2, <2>3, <2>4, <2>5, <2>6
  <2>8. QED
    BY <1>5, <2>7 DEF Reservable, Reserved, Alone
<1>7. ASSUME res.svg PROVE Nestable(res)
  <2>1. input.nested
    <3>1. CASE Top.name = Root
      BY <1>3, <1>7, <3>1
    <3>2. CASE Top.name # Root
      <4>1. Len(frames) > 1
        BY <3>2, TopTyped
      <4>2. QED
        BY <4>1 DEF IngestInv, FrameInv, Chain
    <3>3. QED
      BY <3>1, <3>2
  <2>2. Top.depth + 1 <= Limits.nestedDepth /\ 1 <= Limits.nestedDepth
    BY <1>4, <1>5, <1>7 DEF Level, Depths
  <2>3. NestedDepth <= Limits.nestedDepth
    BY <2>2 DEF NestedDepth
  <2>4. QED
    BY <1>5, <2>1, <2>3 DEF Nestable, Alone
<1>8. ~res.svg => res.valid /\ res.pixels <= Limits.pixels
  BY <1>5 DEF Alone
<1> HIDE DEF res
<1>9. QED
  BY <1>6, <1>7, <1>8 DEF Refused, res

-----------------------------------------------------------------------------
(* Steps keep the frames sound and the budget balanced                     *)

LEMMA QuietFrames ==
  ASSUME SoundInv, DuesInv, UNCHANGED <<input, frames, budget>>
  PROVE  SoundInv' /\ DuesInv'
BY DEF SoundInv, DuesInv

LEMMA TopWell ==
  ASSUME IngestInv, SoundInv, stage = "documents"
  PROVE  /\ Top = frames[1] /\ FrameWell(Top) /\ frames # <<>> /\ frames \in Seq(ToSet(frames))
         /\ FrameTyped(Top) /\ Top.depth <= Limits.nestedDepth /\ FrameSound(Top, input)
         /\ input \in Inputs /\ Len(frames) \in Nat \ {0} /\ DOMAIN frames = 1 .. Len(frames)
         /\ \A m \in Measures : Charge(m, Top, input.document) \in Nat
<1>1. /\ Top = frames[1] /\ frames # <<>> /\ Len(frames) \in Nat \ {0} /\ DOMAIN frames = 1 .. Len(frames)
      /\ input \in Inputs /\ frames \in Seq(ToSet(frames))
  BY TopTyped, SharedIn, FramesWell
<1>2. FrameWell(Top)
  BY <1>1, FramesWell
<1>3. FrameTyped(Top) /\ Top.depth <= Limits.nestedDepth /\ FrameSound(Top, input)
  BY <1>2 DEF FrameWell
<1>4. QED
  BY <1>1, <1>2, <1>3, ChargeTyped

\* The frame at work goes on, and is charged for what is spent.
LEMMA UpdateSound ==
  ASSUME IngestInv, SoundInv, DuesInv, stage = "documents", NEW f, Update(f), FrameSound(f, input),
         NEW more \in [Measures -> Nat],
         \A m \in Measures :
           /\ Charge(m, f, input.document) = Charge(m, Top, input.document) + more[m]
           /\ Spent(m, budget') = Spent(m, budget) + more[m]
  PROVE  SoundInv' /\ DuesInv'
<1>1. /\ Top = frames[1] /\ frames # <<>> /\ frames \in Seq(ToSet(frames)) /\ DOMAIN frames = 1 .. Len(frames)
      /\ \A m \in Measures : Charge(m, Top, input.document) \in Nat
  BY TopWell
<1>2. frames' = Replacing(frames, f) /\ input' = input
  BY DEF Update, Rest, Replacing
<1>3. /\ DOMAIN frames' = DOMAIN frames /\ frames'[1] = f
      /\ \A i \in DOMAIN frames : i # 1 => frames'[i] = frames[i]
  BY ONLY <1>1, <1>2, Replaced
<1>4. SoundInv'
  <2>1. ASSUME NEW i \in DOMAIN frames PROVE FrameSound(frames'[i], input)
    BY <1>3 DEF SoundInv
  <2>2. QED
    BY <1>2, <1>3, <2>1 DEF SoundInv
<1>5. ASSUME NEW m \in Measures PROVE Balanced(m, frames', input.document, Spent(m, budget'))
  <2>1. /\ Balanced(m, frames, input.document, Spent(m, budget)) /\ more[m] \in Nat
        /\ Charge(m, f, input.document) = Charge(m, frames[1], input.document) + more[m]
        /\ Charge(m, frames[1], input.document) \in Nat
    BY <1>1 DEF DuesInv
  <2>2. Balanced(m, frames', input.document, Spent(m, budget) + more[m])
    BY ONLY <1>1, <1>2, <2>1, BalancedReplaced
  <2>3. QED
    BY <2>2
<1>6. DuesInv'
  BY <1>2, <1>5 DEF DuesInv
<1>7. QED
  BY <1>4, <1>6

\* A document is begun with, and is charged for what is spent.
LEMMA PushSound ==
  ASSUME SoundInv, DuesInv, frames \in Seq(ToSet(frames)), NEW f, frames' = <<f>> \o frames,
         input' = input, FrameSound(f, input),
         \A m \in Measures : /\ Charge(m, f, input.document) \in Nat
                             /\ Spent(m, budget') = Spent(m, budget) + Charge(m, f, input.document)
  PROVE  SoundInv' /\ DuesInv'
<1>1. frames' = Pushing(frames, f) /\ frames \in Seq(ToSet(frames))
  BY DEF Pushing
<1>2. /\ frames'[1] = f
      /\ \A i \in DOMAIN frames' : i # 1 => i - 1 \in DOMAIN frames /\ frames'[i] = frames[i - 1]
  BY ONLY <1>1, Pushed
<1>3. SoundInv'
  <2>1. ASSUME NEW i \in DOMAIN frames' PROVE FrameSound(frames'[i], input)
    BY <1>2 DEF SoundInv
  <2>2. QED
    BY <2>1 DEF SoundInv
<1>4. ASSUME NEW m \in Measures PROVE Balanced(m, frames', input.document, Spent(m, budget'))
  <2>1. /\ Balanced(m, frames, input.document, Spent(m, budget)) /\ Charge(m, f, input.document) \in Nat
    BY DEF DuesInv
  <2>2. Balanced(m, frames', input.document, Spent(m, budget) + Charge(m, f, input.document))
    BY ONLY <1>1, <2>1, BalancedPushed
  <2>3. QED
    BY <2>2
<1>5. DuesInv'
  BY <1>4 DEF DuesInv
<1>6. QED
  BY <1>3, <1>5

\* A document is done with, and the one that waits for it takes over its charge.
LEMMA PopSound ==
  ASSUME IngestInv, SoundInv, DuesInv, stage = "documents", Len(frames) > 1,
         NEW f, frames' = <<f>> \o Tail(Tail(frames)), UNCHANGED <<input, budget>>,
         FrameSound(f, input),
         \A m \in Measures : /\ Charge(m, frames[2], input.document) \in Nat
                             /\ Charge(m, f, input.document) =
                                  Charge(m, frames[2], input.document) + Charge(m, Top, input.document)
  PROVE  SoundInv' /\ DuesInv'
<1>1. /\ Top = frames[1] /\ frames \in Seq(ToSet(frames)) /\ Len(frames) > 1
      /\ DOMAIN frames = 1 .. Len(frames)
  BY TopWell
<1>2. frames' = Popping(frames, f)
  BY DEF Popping
<1>3. /\ frames' \in Seq(ToSet(frames')) /\ Len(frames') = Len(frames) - 1 /\ frames'[1] = f
      /\ \A i \in DOMAIN frames' : i # 1 => frames'[i] = frames[i + 1]
  <2>1. frames \in Seq(ToSet(frames)) /\ Len(frames) > 1
    BY <1>1
  <2>2. QED
    BY ONLY <1>2, <2>1, Popped
<1>4. SoundInv'
  <2>1. ASSUME NEW i \in DOMAIN frames' PROVE FrameSound(frames'[i], input)
    <3>1. DOMAIN frames' = 1 .. Len(frames')
      BY <1>3
    <3>2. Len(frames) \in Nat
      BY <1>1
    <3>3. i \in 1 .. Len(frames) - 1 /\ DOMAIN frames = 1 .. Len(frames)
      BY <1>1, <1>3, <3>1
    <3>4. i \in Nat /\ i + 1 \in DOMAIN frames
      BY ONLY <3>2, <3>3
    <3>5. QED
      BY <1>3, <3>4 DEF SoundInv
  <2>2. QED
    BY <2>1 DEF SoundInv
<1>5. ASSUME NEW m \in Measures PROVE Balanced(m, frames', input.document, Spent(m, budget'))
  <2>1. /\ Balanced(m, frames, input.document, Spent(m, budget))
        /\ Charge(m, frames[1], input.document) \in Nat /\ Charge(m, frames[2], input.document) \in Nat
        /\ Charge(m, f, input.document) =
             Charge(m, frames[2], input.document) + Charge(m, frames[1], input.document)
    BY <1>1, TopWell DEF DuesInv
  <2>2. Balanced(m, frames', input.document, Spent(m, budget))
    BY ONLY <1>1, <1>2, <2>1, BalancedPopped
  <2>3. QED
    BY <2>2
<1>6. DuesInv'
  BY <1>5 DEF DuesInv
<1>7. QED
  BY <1>4, <1>6

\* What a frame is that turns, counts or keeps.
LEMMA TurnedFields ==
  ASSUME NEW f, FrameTyped(f), NEW to
  PROVE  LET turned == Turning(f, to)
         IN /\ turned.name = f.name /\ turned.depth = f.depth /\ turned.stage = to
            /\ turned.counts = f.counts /\ turned.external = f.external /\ turned.at = 1
BY DEF FrameTyped, FrameWith, Turning

LEMMA CountingFields ==
  ASSUME NEW f, FrameTyped(f), NEW counts, NEW list
  PROVE  LET counting == Counting(f, counts, list)
         IN /\ counting.name = f.name /\ counting.depth = f.depth /\ counting.stage = f.stage
            /\ counting.counts = counts /\ counting.external = list /\ counting.at = f.at + 1
BY DEF FrameTyped, FrameWith, Counting

\* A frame stays sound when it takes an image that is.
LEMMA KeptSound ==
  ASSUME input \in Inputs, NEW f, FrameWell(f), NEW name \in Sound[Level(f)],
         Facing(f, input.document, name), Resources[name].svg => input.nested
  PROVE  FrameSound(KeepTree(f, name), input) /\ name \in DOMAIN Resources
<1> DEFINE kept == KeepTree(f, name)
           behind == Behind(f, input.document)
<1>1. FrameTyped(f) /\ f.depth <= Limits.nestedDepth /\ FrameSound(f, input)
  BY DEF FrameWell
<1>2. name \in DOMAIN Resources
  BY <1>1, LevelTyped
<1>3. /\ kept.name = f.name /\ kept.depth = f.depth /\ kept.stage = f.stage
      /\ kept.counts = f.counts /\ kept.external = f.external
  BY <1>1, <1>2, KeptFields
<1>4. Behind(kept, input.document) = behind \o <<name>>
  BY <1>1, <1>2, BehindNext
<1>5. behind \in Seq(Sound[Level(f)]) /\ \A x \in ToSet(behind) : Resources[x].svg => input.nested
  BY <1>1 DEF FrameSound
<1> HIDE DEF kept, behind
<1>6. <<name>> \in Seq(Sound[Level(f)]) /\ ToSet(<<name>>) = {name}
  <2>1. <<name>> \in Seq(Sound[Level(f)])
    <3>1. ASSUME NEW S, NEW x \in S PROVE <<x>> \in Seq(S)
      OBVIOUS
    <3>2. QED
      BY <3>1
  <2>2. ToSet(<<name>>) = {name}
    BY DEF ToSet
  <2>3. QED
    BY <2>1, <2>2
<1>7. behind \o <<name>> \in Seq(Sound[Level(f)]) /\ ToSet(behind \o <<name>>) = ToSet(behind) \cup {name}
  BY <1>5, <1>6, ToSetJoin
<1>8. Level(kept) = Level(f)
  BY <1>3 DEF Level
<1>9. f.stage # "census"
  BY DEF Facing
<1>10. /\ Behind(kept, input.document) \in Seq(Sound[Level(kept)])
       /\ \A x \in ToSet(Behind(kept, input.document)) : Resources[x].svg => input.nested
  BY <1>4, <1>5, <1>7, <1>8
<1>11. FrameSound(kept, input)
  BY <1>1, <1>3, <1>9, <1>10 DEF FrameSound
<1>12. QED
  BY <1>2, <1>11 DEF kept

\* A census goes on: it is charged for when it is over.
LEMMA CensusSound ==
  ASSUME IngestInv, SoundInv, DuesInv, InCensus,
         NEW node, node = Document(Top.name).nodes[Top.at], Bounded(node),
         Update(Counting(Top, Counted(Top.counts, node), Listed(Top.external, node.refs))),
         budget' = budget
  PROVE  SoundInv' /\ DuesInv'
<1> DEFINE f == Counting(Top, Counted(Top.counts, node), Listed(Top.external, node.refs))
           doc == OfName(Top.name, input.document)
           k == Top.at - 1
           more == [m \in Measures |-> 0]
<1>1. stage = "documents" /\ Top.stage = "census" /\ Top.at <= Len(doc.nodes) /\ node = doc.nodes[Top.at]
  BY DEF InCensus, InStage, Document, OfName
<1>2. /\ FrameTyped(Top) /\ FrameSound(Top, input) /\ input \in Inputs
      /\ \A m \in Measures : Charge(m, Top, input.document) \in Nat
  BY <1>1, TopWell
<1>3. Top.name \in Names /\ Top.at \in Nat \ {0}
  BY <1>2 DEF FrameTyped, FrameWith
<1>4. doc \in Documents
  BY <1>2, <1>3, NamedTyped
<1>5. /\ Found(doc, k, Top.counts, Top.external)
      /\ (Top.name # Root => doc.svg /\ doc.size <= Limits.resource /\ doc.valid)
  BY <1>1, <1>2 DEF FrameSound
<1>6. k \in Nat /\ k + 1 = Top.at
  BY <1>3
<1>7. /\ f.name = Top.name /\ f.depth = Top.depth /\ f.stage = "census" /\ f.at - 1 = k + 1
      /\ f.counts = Counted(Top.counts, node) /\ f.external = Listed(Top.external, node.refs)
  <2>1. f.at = Top.at + 1
    BY <1>2, CountingFields
  <2>2. f.at - 1 = k + 1
    BY <1>3, <1>6, <2>1
  <2>3. FrameTyped(Top)
    BY <1>2
  <2>4. /\ f.name = Top.name /\ f.depth = Top.depth /\ f.stage = Top.stage
        /\ f.counts = Counted(Top.counts, node) /\ f.external = Listed(Top.external, node.refs)
    BY ONLY <2>3, CountingFields
  <2>5. QED
    BY <1>1, <2>2, <2>4
<1>8. Update(f)
  OBVIOUS
<1> HIDE DEF f, doc, k
<1>9. Found(doc, k + 1, f.counts, f.external)
  BY <1>1, <1>4, <1>5, <1>6, <1>7, FoundNext
<1>10. Behind(f, input.document) = <<>> /\ Behind(Top, input.document) = <<>>
  BY <1>1, <1>7 DEF Behind
<1>11. FrameSound(f, input)
  <2>1. doc = OfName(f.name, input.document)
    BY <1>7 DEF doc
  <2>2. Behind(f, input.document) \in Seq(Sound[Level(f)]) /\ ToSet(Behind(f, input.document)) = {}
    BY <1>10 DEF ToSet
  <2>3. QED
    BY <1>5, <1>7, <1>9, <2>1, <2>2 DEF FrameSound
<1>12. ASSUME NEW m \in Measures
       PROVE  Charge(m, f, input.document) = Charge(m, Top, input.document)
  <2>1. Own(m, f) = Own(m, Top)
    BY <1>1, <1>7 DEF Own
  <2>2. QED
    BY <1>10, <2>1 DEF Charge
<1>13. ASSUME NEW m \in Measures
       PROVE  /\ Charge(m, f, input.document) = Charge(m, Top, input.document) + more[m]
              /\ Spent(m, budget') = Spent(m, budget) + more[m]
  <2>1. Spent(m, budget) \in Nat
    BY SharedIn, BudgetFields DEF Spent
  <2>2. more[m] = 0
    OBVIOUS
  <2>3. QED
    BY <1>2, <1>12, <2>1, <2>2
<1>14. more \in [Measures -> Nat]
  OBVIOUS
<1> HIDE DEF more
<1>15. QED
  BY <1>1, <1>8, <1>11, <1>13, <1>14, UpdateSound

\* It is over.
LEMMA AdmitSound ==
  ASSUME IngestInv, SoundInv, DuesInv, InStage("census"), Top.at > Len(Document(Top.name).nodes),
         CensusOK, IF Top.name = Root THEN RootOK ELSE NestedOK,
         Update(Turning(Top, "images")), budget' = SharedBudget
  PROVE  SoundInv' /\ DuesInv'
<1> DEFINE f == Turning(Top, "images")
           doc == OfName(Top.name, input.document)
           more == [m \in Measures |-> OfCensus(m, Top.counts)]
<1>1. stage = "documents" /\ Top.stage = "census" /\ doc = Document(Top.name)
  BY DEF InStage, Document, OfName
<1>2. /\ FrameTyped(Top) /\ FrameSound(Top, input) /\ input \in Inputs
      /\ \A m \in Measures : Charge(m, Top, input.document) \in Nat
  BY <1>1, TopWell
<1>3. /\ Top.name \in Names /\ Top.at \in Nat \ {0}
      /\ Top.counts.elements \in Nat /\ Top.counts.references \in Nat
  BY <1>2 DEF FrameTyped, FrameWith, Counts
<1>4. doc \in Documents /\ ImagesOf(Top.name, input.document) \in Seq(DOMAIN Resources)
  BY <1>2, <1>3, NamedTyped
<1>5. /\ Found(doc, Top.at - 1, Top.counts, Top.external)
      /\ (Top.name # Root => doc.svg /\ doc.size <= Limits.resource /\ doc.valid)
  BY <1>1, <1>2 DEF FrameSound
<1>6. Top.at - 1 = Len(doc.nodes)
  BY <1>1, <1>3, <1>4, <1>5, NodesTyped DEF Found
<1>7. /\ f.name = Top.name /\ f.depth = Top.depth /\ f.stage = "images" /\ f.at = 1
      /\ f.counts = Top.counts /\ f.external = Top.external
  BY <1>2, TurnedFields
<1>8. Update(f)
  OBVIOUS
<1> HIDE DEF f, doc
<1>9. Behind(f, input.document) = <<>> /\ Behind(Top, input.document) = <<>>
  <2>1. f.at - 1 = 0
    BY <1>7
  <2>2. First(ImagesOf(Top.name, input.document), 0) = <<>>
    BY <1>4, FirstWhole
  <2>3. QED
    BY <1>1, <1>7, <2>1, <2>2 DEF Behind
<1>10. FrameSound(f, input)
  <2>1. doc = OfName(f.name, input.document)
    BY <1>7 DEF doc
  <2>2. Behind(f, input.document) \in Seq(Sound[Level(f)]) /\ ToSet(Behind(f, input.document)) = {}
    BY <1>9 DEF ToSet
  <2>3. ~doc.deep /\ f.counts.references <= Limits.references
    BY <1>1, <1>7 DEF CensusOK
  <2>4. (f.name = Root => input.candidates <= Limits.candidates) /\ (f.name # Root => f.external = <<>>)
    BY <1>7 DEF RootOK, NestedOK
  <2>5. Found(doc, Len(doc.nodes), f.counts, f.external)
    BY <1>5, <1>6, <1>7
  <2>6. QED
    BY <1>5, <1>7, <2>1, <2>2, <2>3, <2>4, <2>5 DEF FrameSound
<1>11. ASSUME NEW m \in Measures
       PROVE  /\ Charge(m, f, input.document) = Charge(m, Top, input.document) + more[m]
              /\ Spent(m, budget') = Spent(m, budget) + more[m]
  <2>1. more[m] = OfCensus(m, Top.counts)
    OBVIOUS
  <2> HIDE DEF more
  <2>2. Own(m, f) = Own(m, Top) + more[m]
    <3>1. CASE m = "bytes"
      <4>1. Own(m, f) = Own(m, Top) /\ more[m] = 0
        BY <1>7, <2>1, <3>1 DEF Own, OfCensus
      <4>2. Own(m, Top) \in Nat
        BY <1>2, <1>1, TopWell, ChargeTyped
      <4>3. QED
        BY <4>1, <4>2
    <3>2. CASE m # "bytes"
      <4>1. Own(m, Top) = 0 /\ Own(m, f) = OfCensus(m, Top.counts) /\ OfCensus(m, Top.counts) \in Nat
        BY <1>1, <1>3, <1>7, <3>2 DEF Own, OfCensus
      <4>2. QED
        BY <2>1, <4>1
    <3>3. QED
      BY <3>1, <3>2
  <2>3. SumOf(Cost(m), <<>>) = 0
    BY SumOfEmpty
  <2>4. Own(m, Top) \in Nat /\ more[m] \in Nat
    BY <1>1, <1>3, <2>1, TopWell, ChargeTyped DEF OfCensus
  <2>5. Charge(m, f, input.document) = Charge(m, Top, input.document) + more[m]
    BY <1>9, <2>2, <2>3, <2>4 DEF Charge
  <2>6. /\ SharedBudget.bytes = budget.bytes /\ budget.bytes \in Nat
        /\ SharedBudget.elements = budget.elements + Top.counts.elements
        /\ SharedBudget.references = budget.references + Top.counts.references
    <3>1. budget \in Budgets
      BY SharedIn
    <3>2. QED
      BY <3>1, BudgetFields DEF SharedBudget, Budgets
  <2>7. Spent(m, budget') = Spent(m, budget) + more[m]
    BY <2>1, <2>6 DEF Spent, OfCensus
  <2>8. QED
    BY <2>5, <2>7
<1>12. more \in [Measures -> Nat]
  BY <1>3 DEF OfCensus
<1> HIDE DEF more
<1>13. QED
  BY <1>1, <1>8, <1>10, <1>11, <1>12, UpdateSound

\* What a raster image costs, and which there are.
LEMMA RasterSound ==
  ASSUME IngestInv, SoundInv, DuesInv, stage = "documents", NEW name \in DOMAIN Resources,
         Facing(Top, input.document, name), TakeRaster(name)
  PROVE  SoundInv' /\ DuesInv'
<1> DEFINE f == KeepTree(Top, name)
           more == [m \in Measures |-> Cost(m)[name]]
<1>1. /\ FrameTyped(Top) /\ FrameSound(Top, input) /\ input \in Inputs /\ FrameWell(Top)
      /\ Top.depth <= Limits.nestedDepth
  BY TopWell
<1>2. Update(f)
  BY DEF TakeRaster, KeepTree
<1>3. /\ ~Resources[name].svg /\ Resources[name].valid /\ Resources[name].pixels <= Limits.pixels
      /\ Resources[name].size <= Limits.resource
      /\ budget' = [budget EXCEPT !.bytes = budget.bytes + Resources[name].size]
  BY DEF TakeRaster, Reservable, Reserved
<1> HIDE DEF f
<1>4. /\ Level(Top) \in Depths /\ Limits.nestedDepth \in Depths
      /\ Sound[Level(Top)] \subseteq Sound[Limits.nestedDepth]
  BY <1>1, LevelTyped
<1>5. name \in Sound[Level(Top)]
  BY <1>3, <1>4, SoundOf DEF Alone
<1>6. FrameSound(f, input)
  BY <1>1, <1>3, <1>5, KeptSound DEF f
<1>7. ASSUME NEW m \in Measures
      PROVE  /\ Charge(m, f, input.document) = Charge(m, Top, input.document) + more[m]
             /\ Spent(m, budget') = Spent(m, budget) + more[m] /\ more[m] \in Nat
  <2>1. more[m] = Cost(m)[name]
    OBVIOUS
  <2> HIDE DEF more
  <2>2. Charge(m, f, input.document) = Charge(m, Top, input.document) + Cost(m)[name]
        /\ Cost(m)[name] \in Nat
    BY <1>1, ChargeNext DEF f
  <2>3. Cost(m)[name] = OfImage(m, name) /\ OfImage(m, name) \in Nat
    <3>1. name \in Sound[Limits.nestedDepth]
      BY <1>4, <1>5
    <3>2. Cost(m)[name] = OfImage(m, name) + 0
      BY <1>3, <3>1, CostTyped
    <3>3. OfImage(m, name) \in Nat
      BY OfImageTyped
    <3>4. QED
      BY <3>2, <3>3
  <2>4. Spent(m, budget') = Spent(m, budget) + OfImage(m, name)
    <3>1. budget \in Budgets /\ budget.elements \in Nat /\ budget.references \in Nat
      BY SharedIn, BudgetFields
    <3>2. /\ budget'.bytes = budget.bytes + Resources[name].size
          /\ budget'.elements = budget.elements /\ budget'.references = budget.references
      BY <1>3, <3>1 DEF Budgets
    <3>3. QED
      BY <1>3, <3>1, <3>2 DEF Spent, OfImage
  <2>5. QED
    BY <2>1, <2>2, <2>3, <2>4
<1>8. more \in [Measures -> Nat]
  BY <1>7
<1> HIDE DEF more
<1>9. QED
  BY <1>2, <1>6, <1>7, <1>8, UpdateSound

\* A document that is begun with is sound, and charged for its bytes only.
LEMMA BegunSound ==
  ASSUME NEW in \in Inputs, NEW name \in Names, NEW depth,
         name # Root => /\ Resources[name].svg /\ Resources[name].size <= Limits.resource
                        /\ Resources[name].valid
  PROVE  LET f == Frame(name, depth)
         IN /\ FrameSound(f, in)
            /\ \A m \in Measures :
                 Charge(m, f, in.document) =
                   IF m = "bytes" /\ name # Root THEN Resources[name].size ELSE 0
<1> DEFINE f == Frame(name, depth)
           doc == OfName(name, in.document)
<1>1. f.name = name /\ f.stage = "census" /\ f.at = 1 /\ f.counts = NoCounts /\ f.external = <<>>
  BY DEF Frame
<1>2. doc \in Documents
  BY NamedTyped
<1>3. name # Root => doc = Resources[name]
  BY DEF OfName
<1> HIDE DEF f, doc
<1>4. f.at - 1 = 0
  BY <1>1
<1>5. Found(doc, f.at - 1, f.counts, f.external)
  BY <1>1, <1>2, <1>4, FoundNothing
<1>6. Behind(f, in.document) = <<>>
  BY <1>1 DEF Behind
<1>7. FrameSound(f, in)
  <2>1. doc = OfName(f.name, in.document)
    BY <1>1 DEF doc
  <2>2. Behind(f, in.document) \in Seq(Sound[Level(f)]) /\ ToSet(Behind(f, in.document)) = {}
    BY <1>6 DEF ToSet
  <2>3. QED
    BY <1>1, <1>3, <1>5, <2>1, <2>2 DEF FrameSound
<1>8. ASSUME NEW m \in Measures
      PROVE  Charge(m, f, in.document) = IF m = "bytes" /\ name # Root THEN Resources[name].size ELSE 0
  <2>1. Own(m, f) = IF m = "bytes" /\ name # Root THEN Resources[name].size ELSE 0
    BY <1>1 DEF Own
  <2>2. name # Root => Resources[name].size \in Nat
    <3>1. ASSUME name # Root PROVE Resources[name].size \in Nat
      <4>1. name \in DOMAIN Resources
        BY <3>1 DEF Names
      <4>2. OfImage("bytes", name) \in Nat
        BY <4>1, OfImageTyped DEF Measures
      <4>3. QED
        BY <4>2 DEF OfImage
    <3>2. QED
      BY <3>1
  <2>3. Charge(m, f, in.document) = Own(m, f) + 0
    BY <1>6, SumOfEmpty DEF Charge
  <2>4. QED
    BY <2>1, <2>2, <2>3
<1>9. QED
  BY <1>7, <1>8 DEF f

\* An image that is a document is charged for its bytes when it is begun with.
LEMMA SvgSound ==
  ASSUME IngestInv, SoundInv, DuesInv, stage = "documents", NEW name \in DOMAIN Resources,
         TakeSvg(name)
  PROVE  SoundInv' /\ DuesInv'
<1> DEFINE f == Frame(name, NestedDepth)
<1>1. /\ Resources[name].svg /\ Resources[name].size <= Limits.resource /\ Resources[name].valid
      /\ budget' = [budget EXCEPT !.bytes = budget.bytes + Resources[name].size]
      /\ frames' = <<f>> \o frames /\ input' = input
  BY DEF TakeSvg, Reservable, Reserved, Nestable
<1>2. frames \in Seq(ToSet(frames)) /\ input \in Inputs
  BY TopWell
<1>3. name \in Names /\ name # Root
  BY DocumentsAssumption DEF Names
<1>4. /\ FrameSound(f, input)
      /\ \A m \in Measures :
           Charge(m, f, input.document) = IF m = "bytes" THEN Resources[name].size ELSE 0
  BY <1>1, <1>2, <1>3, BegunSound
<1> HIDE DEF f
<1>5. Resources[name].size \in Nat
  <2>1. OfImage("bytes", name) \in Nat
    BY OfImageTyped DEF Measures
  <2>2. QED
    BY <2>1 DEF OfImage
<1>6. ASSUME NEW m \in Measures
      PROVE  /\ Charge(m, f, input.document) \in Nat
             /\ Spent(m, budget') = Spent(m, budget) + Charge(m, f, input.document)
  <2>1. budget \in Budgets /\ budget.elements \in Nat /\ budget.references \in Nat
    BY SharedIn, BudgetFields
  <2>2. /\ budget'.bytes = budget.bytes + Resources[name].size
        /\ budget'.elements = budget.elements /\ budget'.references = budget.references
    BY <1>1, <2>1 DEF Budgets
  <2>3. Charge(m, f, input.document) = IF m = "bytes" THEN Resources[name].size ELSE 0
    BY <1>4
  <2>4. QED
    BY <1>5, <2>1, <2>2, <2>3 DEF Spent
<1>7. QED
  BY <1>1, <1>2, <1>4, <1>6, PushSound

\* The input's own document is not charged for its bytes.
LEMMA ParseSound ==
  ASSUME IngestInv, SoundInv, DuesInv, ParseRoot
  PROVE  SoundInv' /\ DuesInv'
<1> DEFINE f == Frame(Root, 0)
<1>1. frames = <<>> /\ frames' = <<f>> /\ input' = input /\ budget' = budget /\ input \in Inputs
  BY SharedIn DEF ParseRoot, IngestInv, FrameInv, Chain
<1>2. Root \in Names
  BY DEF Names
<1>3. FrameSound(f, input) /\ \A m \in Measures : Charge(m, f, input.document) = 0
  BY <1>1, <1>2, BegunSound
<1> HIDE DEF f
<1>4. frames \in Seq(ToSet(frames)) /\ frames' = <<f>> \o frames
  <2>1. <<f>> \o <<>> = <<f>>
    OBVIOUS
  <2>2. QED
    BY <1>1, <2>1
<1>5. ASSUME NEW m \in Measures
      PROVE  /\ Charge(m, f, input.document) \in Nat
             /\ Spent(m, budget') = Spent(m, budget) + Charge(m, f, input.document)
  <2>1. budget.bytes \in Nat /\ budget.elements \in Nat /\ budget.references \in Nat
    BY SharedIn, BudgetFields
  <2>2. Spent(m, budget) \in Nat
    BY <2>1 DEF Spent
  <2>3. QED
    BY <1>1, <1>3, <2>2
<1>6. QED
  BY <1>1, <1>3, <1>4, <1>5, PushSound

\* A document whose images are done with has gone through them all.
LEMMA DoneBehind ==
  ASSUME IngestInv, SoundInv, ImagesDone
  PROVE  /\ stage = "documents" /\ Top.stage = "images"
         /\ ImagesOf(Top.name, input.document) \in Seq(DOMAIN Resources)
         /\ Behind(Top, input.document) = ImagesOf(Top.name, input.document)
<1> DEFINE images == ImagesOf(Top.name, input.document)
<1>1. stage = "documents" /\ Top.stage = "images" /\ Top.at > Len(DataImages(Document(Top.name)))
  BY DEF ImagesDone, InStage
<1>2. /\ Top.name \in Names /\ Top.at \in Nat \ {0} /\ input \in Inputs
      /\ FrameResolved(Top, input.document, loads)
  BY <1>1, TopTyped, SharedIn
<1>3. images = DataImages(Document(Top.name)) /\ images \in Seq(DOMAIN Resources)
  BY <1>2, DocumentsTyped
<1>4. Top.at - 1 <= Len(images)
  BY <1>1, <1>2 DEF FrameResolved
<1> HIDE DEF images
<1>5. Top.at - 1 = Len(images)
  BY <1>1, <1>2, <1>3, <1>4
<1>6. First(images, Len(images)) = images
  BY <1>3, FirstWhole
<1>7. QED
  BY <1>1, <1>3, <1>5, <1>6 DEF Behind, images

\* A document that returns is an image of the level above, and its cost is what
\* it was charged for.
LEMMA ReturnedSound ==
  ASSUME IngestInv, SoundInv, ImagesDone, Top.name # Root
  PROVE  /\ Top.name \in DOMAIN Resources /\ Level(Top) + 1 \in Depths
         /\ Top.name \in Sound[Level(Top) + 1]
         /\ \A m \in Measures : Charge(m, Top, input.document) = Cost(m)[Top.name]
<1> DEFINE name == Top.name
           res == Resources[name]
           T == Limits.nestedDepth
<1>1. /\ stage = "documents" /\ Top.stage = "images"
      /\ Behind(Top, input.document) = ImagesOf(name, input.document)
  BY DoneBehind
<1>2. /\ FrameWell(Top) /\ FrameTyped(Top) /\ Top.depth <= T /\ FrameSound(Top, input)
      /\ input \in Inputs /\ name \in Names /\ WithinDocument(Top.counts)
  BY <1>1, TopWell, TopTyped
<1>3. name \in DOMAIN Resources /\ ImagesOf(name, input.document) = Held(name)
      /\ OfName(name, input.document) = res
  BY <1>2 DEF Names, ImagesOf, Held, OfName
<1>4. res \in Documents /\ Held(name) \in Seq(DOMAIN Resources)
  BY <1>3, HeldTyped
<1>5. /\ Found(res, Len(res.nodes), Top.counts, Top.external)
      /\ ~res.deep /\ Top.counts.references <= Limits.references /\ Top.external = <<>>
      /\ res.svg /\ res.size <= Limits.resource /\ res.valid
      /\ Behind(Top, input.document) \in Seq(Sound[Level(Top)])
  BY <1>1, <1>2, <1>3 DEF FrameSound
<1> HIDE DEF res, name
<1>6. /\ Top.counts = Census(res) /\ (\A i \in DOMAIN res.nodes : Bounded(res.nodes[i]))
      /\ ToSet(Top.external) = Files(res)
  BY <1>4, <1>5, FoundAll
<1>7. Files(res) = {}
  BY <1>5, <1>6 DEF ToSet
<1>8. Fits(res)
  BY <1>2, <1>5, <1>6 DEF Fits
<1>9. Alone(res)
  BY <1>5, <1>7, <1>8 DEF Alone
<1>10. ToSet(Held(name)) \subseteq Sound[Level(Top)]
  <2>1. ASSUME NEW S, NEW s \in Seq(S) PROVE ToSet(s) \subseteq S
    BY DEF ToSet
  <2>2. QED
    BY <1>1, <1>3, <1>5, <2>1
<1>11. /\ Level(Top) + 1 \in Depths /\ Level(Top) + 1 # 0 /\ (Level(Top) + 1) - 1 = Level(Top)
       /\ Level(Top) + 1 <= T /\ T \in Depths
  <2>1. Level(Top) \in Depths /\ Top.depth \in Nat /\ Top.depth # 0 /\ T \in Nat
    BY <1>2, LevelTyped DEF FrameWell
  <2>2. QED
    BY <2>1 DEF Level, Depths
<1>12. name \in Sound[Level(Top) + 1]
  BY <1>3, <1>9, <1>10, <1>11, SoundOf DEF res
<1>13. name \in Sound[T]
  BY <1>11, <1>12, SoundWithin
<1>14. ASSUME NEW m \in Measures PROVE Charge(m, Top, input.document) = Cost(m)[name]
  <2>1. Cost(m)[name] = OfImage(m, name) + SumOf(Cost(m), Held(name))
    BY <1>5, <1>13, CostTyped DEF res
  <2>2. Own(m, Top) = OfImage(m, name)
    BY <1>1, <1>2, OwnOf DEF name
  <2>3. QED
    BY <1>1, <1>3, <2>1, <2>2 DEF Charge
<1>15. QED
  BY <1>3, <1>11, <1>12, <1>14 DEF name

LEMMA ReturnSound ==
  ASSUME IngestInv, SoundInv, DuesInv, ReturnNested
  PROVE  SoundInv' /\ DuesInv'
<1> DEFINE below == frames[2]
           f == KeepTree(below, Top.name)
<1>1. ImagesDone /\ Top.name # Root /\ stage = "documents" /\ UNCHANGED <<input, budget>>
  BY DEF ReturnNested, ImagesDone, InStage
<1>2. /\ Len(frames) > 1 /\ Len(frames) \in Nat \ {0} /\ DOMAIN frames = 1 .. Len(frames)
      /\ 2 \in DOMAIN frames /\ Top = frames[1] /\ input \in Inputs /\ 2 # 1 /\ 2 - 1 = 1
  BY <1>1, TopTyped, TopWell
<1>3. frames' = <<f>> \o Tail(Tail(frames))
  <2>1. Head(Rest) = frames[2]
    BY <1>2, TopWell, <1>1 DEF Rest
  <2>2. QED
    BY <2>1 DEF ReturnNested, Rest
<1>4. FrameWell(below)
  BY <1>2, FramesWell
<1>5. Facing(below, input.document, Top.name)
  BY <1>2, FrameFaces
<1>6. /\ Top.name \in DOMAIN Resources /\ Top.name \in Sound[Level(Top) + 1]
      /\ \A m \in Measures : Charge(m, Top, input.document) = Cost(m)[Top.name]
  BY <1>1, ReturnedSound
<1>7. Level(below) = Level(Top) + 1
  <2>1. Top.depth = Len(frames) - 1 /\ below.depth = Len(frames) - 2
    BY <1>2 DEF IngestInv, FrameInv, Chain
  <2>2. Limits.nestedDepth \in Nat
    BY NumbersAssumption
  <2>3. QED
    BY <1>2, <2>1, <2>2 DEF Level
<1>8. input.nested
  BY <1>2 DEF IngestInv, FrameInv, Chain
<1> HIDE DEF below
<1>9. FrameSound(f, input)
  BY <1>2, <1>4, <1>5, <1>6, <1>7, <1>8, KeptSound
<1>10. ASSUME NEW m \in Measures
       PROVE  /\ Charge(m, below, input.document) \in Nat
              /\ Charge(m, f, input.document) =
                   Charge(m, below, input.document) + Charge(m, Top, input.document)
  <2>1. FrameTyped(below) /\ below.depth <= Limits.nestedDepth /\ FrameSound(below, input)
    BY <1>4 DEF FrameWell
  <2>2. Charge(m, f, input.document) = Charge(m, below, input.document) + Cost(m)[Top.name]
    BY <1>2, <1>5, <1>6, <2>1, ChargeNext
  <2>3. QED
    BY <1>2, <1>6, <2>1, <2>2, ChargeTyped
<1> HIDE DEF f
<1>11. QED
  BY <1>1, <1>2, <1>3, <1>9, <1>10, PopSound DEF below

\* The files come next.
LEMMA BeginSound ==
  ASSUME IngestInv, SoundInv, DuesInv, ImagesDone, Top.name = Root,
         Update(Turning(Top, "external")), budget' = budget
  PROVE  SoundInv' /\ DuesInv'
<1> DEFINE f == Turning(Top, "external")
           images == ImagesOf(Top.name, input.document)
           doc == OfName(Top.name, input.document)
           more == [m \in Measures |-> 0]
<1>1. /\ stage = "documents" /\ Top.stage = "images" /\ images \in Seq(DOMAIN Resources)
      /\ Behind(Top, input.document) = images
  BY DoneBehind
<1>2. /\ FrameTyped(Top) /\ FrameSound(Top, input) /\ input \in Inputs
      /\ \A m \in Measures : Charge(m, Top, input.document) \in Nat
  BY <1>1, TopWell
<1>3. /\ f.name = Top.name /\ f.depth = Top.depth /\ f.stage = "external" /\ f.at = 1
      /\ f.counts = Top.counts /\ f.external = Top.external
  BY <1>2, TurnedFields
<1>4. Update(f)
  OBVIOUS
<1>5. /\ Found(doc, Len(doc.nodes), Top.counts, Top.external) /\ ~doc.deep
      /\ Top.counts.references <= Limits.references
      /\ (Top.name = Root => input.candidates <= Limits.candidates)
      /\ Behind(Top, input.document) \in Seq(Sound[Level(Top)])
      /\ \A x \in ToSet(Behind(Top, input.document)) : Resources[x].svg => input.nested
  BY <1>1, <1>2 DEF FrameSound
<1> HIDE DEF f, doc, images
<1>6. Behind(f, input.document) = images
  <2>1. f.at - 1 = 0 /\ Top.external \in Seq(Files(doc))
    BY <1>3, <1>5 DEF Found
  <2>2. First(f.external, f.at - 1) = <<>>
    BY <1>3, <2>1, FirstWhole
  <2>3. images \o <<>> = images
    BY <1>1
  <2>4. QED
    BY <1>3, <2>2, <2>3 DEF Behind, images
<1>7. FrameSound(f, input)
  <2>1. doc = OfName(f.name, input.document) /\ Level(f) = Level(Top)
    BY <1>3 DEF doc, Level
  <2>2. QED
    BY <1>1, <1>3, <1>5, <1>6, <2>1 DEF FrameSound
<1>8. ASSUME NEW m \in Measures
      PROVE  /\ Charge(m, f, input.document) = Charge(m, Top, input.document) + more[m]
             /\ Spent(m, budget') = Spent(m, budget) + more[m]
  <2>1. Own(m, f) = Own(m, Top)
    BY <1>1, <1>3 DEF Own
  <2>2. Charge(m, f, input.document) = Charge(m, Top, input.document)
    BY <1>1, <1>6, <2>1 DEF Charge
  <2>3. Spent(m, budget) \in Nat
    BY SharedIn, BudgetFields DEF Spent
  <2>4. more[m] = 0
    OBVIOUS
  <2>5. QED
    BY <1>2, <2>2, <2>3, <2>4
<1>9. more \in [Measures -> Nat]
  OBVIOUS
<1> HIDE DEF more
<1>10. QED
  BY <1>1, <1>4, <1>7, <1>8, <1>9, UpdateSound

-----------------------------------------------------------------------------
(* The tree is built                                                       *)

LEMMA BalancedOne ==
  ASSUME NEW m, NEW doc, NEW fs, Len(fs) = 1, NEW total, Balanced(m, fs, doc, total),
         Charge(m, fs[1], doc) \in Nat
  PROVE  total = Charge(m, fs[1], doc)
<1>1. PICK sums : Ledger(sums, m, fs, doc, total)
  BY DEF Balanced
<1>2. sums[1 + 1] = 0 /\ sums[1] = Charge(m, fs[1], doc) + sums[1 + 1] /\ sums[1] = total
  BY <1>1 DEF Ledger
<1>3. QED
  BY <1>2

\* All files of the input's own document are loaded and gone through.
LEMMA FilesDone ==
  ASSUME IngestInv, ListInv, SoundInv, ExternalDone
  PROVE  /\ stage = "documents" /\ Top.stage = "external" /\ Top.name = Root /\ Len(frames) = 1
         /\ Top = frames[1] /\ Top.external \in Seq(Files(input.document)) /\ Distinct(Top.external)
         /\ Top.counts = Census(input.document)
         /\ ToSet(Top.external) = Files(input.document) /\ Files(input.document) \subseteq LegalPaths
         /\ Files(input.document) # {} => input.provider
         /\ Behind(Top, input.document) = DataImages(input.document) \o Top.external
<1> DEFINE list == Top.external
           doc == input.document
<1>1. InStage("external") /\ ~(Top.at <= Len(list))
  BY DEF ExternalDone
<1>2. /\ stage = "documents" /\ Len(frames) = 1 /\ Top = frames[1] /\ Top.stage = "external"
      /\ Top.at \in Nat \ {0} /\ Len(loads) \in {Top.at - 1, Top.at} /\ RootFollows(Top, loads)
  BY <1>1, AtExternal
<1>3. Top.name = Root /\ frames # <<>> /\ input \in Inputs /\ loads \in Seq(LegalPaths)
  BY <1>2, TopTyped, SharedIn
<1>4. FrameSound(Top, input)
  BY <1>2, TopWell
<1>5. doc \in Documents /\ OfName(Top.name, input.document) = doc
  BY <1>3 DEF Documents, OfName
<1>6. /\ list \in Seq(Files(doc)) /\ Distinct(list) /\ (list = <<>> \/ input.provider)
      /\ Len(loads) <= Len(list)
  BY <1>2, <1>3 DEF ListInv, RootLists
<1>7. Found(doc, Len(doc.nodes), Top.counts, list)
  BY <1>2, <1>4, <1>5 DEF FrameSound
<1>8. \A k \in DOMAIN loads : loads[k] = list[k]
  BY <1>2 DEF RootFollows
<1>9. ImagesOf(Top.name, input.document) = DataImages(doc)
  BY <1>3 DEF ImagesOf
<1> HIDE DEF list, doc
<1>10. Top.counts = Census(doc) /\ ToSet(list) = Files(doc)
  BY <1>5, <1>7, FoundAll
<1>11. Len(list) \in Nat /\ Len(loads) \in Nat /\ DOMAIN list = 1 .. Len(list)
       /\ DOMAIN loads = 1 .. Len(loads)
  BY <1>3, <1>6
<1>12. Len(loads) = Len(list) /\ Top.at - 1 = Len(list)
  BY <1>1, <1>2, <1>6, <1>11 DEF list
<1>13. Files(doc) \subseteq LegalPaths
  <2>1. ASSUME NEW k \in DOMAIN list PROVE list[k] \in LegalPaths
    <3>1. k \in DOMAIN loads
      BY <1>11, <1>12
    <3>2. loads[k] = list[k] /\ loads[k] \in LegalPaths
      BY <1>3, <1>8, <3>1
    <3>3. QED
      BY <3>2
  <2>2. QED
    BY <1>10, <2>1 DEF ToSet
<1>14. Files(doc) # {} => input.provider
  <2>1. list = <<>> => ToSet(list) = {}
    BY DEF ToSet
  <2>2. QED
    BY <1>6, <1>10, <2>1
<1>15. Behind(Top, input.document) = DataImages(doc) \o list
  <2>1. First(list, Top.at - 1) = list
    BY <1>6, <1>12, FirstWhole
  <2>2. QED
    BY <1>2, <1>9, <2>1 DEF Behind, list
<1>16. QED
  BY <1>2, <1>3, <1>6, <1>10, <1>13, <1>14, <1>15 DEF list, doc

\* Then nothing is wrong with the input but, perhaps, its paint nodes.
LEMMA BuildReady ==
  ASSUME IngestInv, ListInv, SoundInv, DuesInv, EarlyInv, ExternalDone
  PROVE  Ready
<1> DEFINE list == Top.external
           doc == input.document
           images == DataImages(doc)
<1>1. /\ stage = "documents" /\ Top.stage = "external" /\ Top.name = Root /\ Len(frames) = 1
      /\ Top = frames[1] /\ list \in Seq(Files(doc)) /\ Distinct(list) /\ Top.counts = Census(doc)
      /\ ToSet(list) = Files(doc) /\ Files(doc) \subseteq LegalPaths
      /\ (Files(doc) # {} => input.provider)
      /\ Behind(Top, input.document) = images \o list
  BY FilesDone
<1>2. /\ FrameWell(Top) /\ FrameSound(Top, input) /\ input \in Inputs
      /\ \A m \in Measures : Charge(m, Top, input.document) \in Nat
  BY <1>1, TopWell
<1>3. /\ Files(doc) \subseteq DOMAIN Resources /\ images \in Seq(DOMAIN Resources)
      /\ ToSet(Images) = ToSet(images) \cup Files(doc) /\ doc \in Documents
  BY <1>1, <1>2, ImagesTyped
<1>4. list \in Seq(DOMAIN Resources)
  BY <1>1, <1>3
<1>5. OfName(Top.name, input.document) = doc /\ WithinDocument(Top.counts)
  BY <1>1, TopTyped DEF OfName
<1>6. /\ Found(doc, Len(doc.nodes), Top.counts, list) /\ ~doc.deep
      /\ Top.counts.references <= Limits.references /\ input.candidates <= Limits.candidates
      /\ Behind(Top, input.document) \in Seq(Sound[Level(Top)])
      /\ \A x \in ToSet(Behind(Top, input.document)) : Resources[x].svg => input.nested
  BY <1>1, <1>2, <1>5 DEF FrameSound
<1> HIDE DEF list, doc, images
<1>7. ToSet(Images) = ToSet(Behind(Top, input.document))
  BY <1>1, <1>3, <1>4, ToSetJoin
<1>8. Level(Top) = Limits.nestedDepth
  <2>1. Top.depth = 0
    BY <1>1, <1>2 DEF FrameWell
  <2>2. QED
    BY <2>1, NumbersAssumption DEF Level
<1>9. ToSet(Images) \subseteq Sound[Limits.nestedDepth]
  <2>1. ASSUME NEW S, NEW s \in Seq(S) PROVE ToSet(s) \subseteq S
    BY DEF ToSet
  <2>2. QED
    BY <1>6, <1>7, <1>8, <2>1
<1>10. Fits(doc)
  <2>1. \A i \in DOMAIN doc.nodes : Bounded(doc.nodes[i])
    BY <1>3, <1>6, FoundAll
  <2>2. QED
    BY <1>1, <1>5, <1>6, <2>1 DEF Fits
<1>11. ASSUME NEW m \in Measures PROVE Grand(m) <= Limit(m)
  <2>1. /\ SumOf(Cost(m), images) \in Nat /\ SumOf(Cost(m), list) \in Nat
        /\ SumOf(Cost(m), Images) = SumOf(Cost(m), images) + SumOf(Cost(m), list)
    BY <1>1, <1>2, ImagesCost DEF images, doc
  <2>2. Cost(m) \in [DOMAIN Resources -> Nat]
    BY CostTyped
  <2>3. SumOf(Cost(m), images \o list) = SumOf(Cost(m), images) + SumOf(Cost(m), list)
    BY <1>3, <1>4, <2>2, SumOfConcat
  <2>4. Own(m, Top) = OfCensus(m, Census(doc))
    BY <1>1, <1>2, OwnOf DEF doc
  <2>5. Charge(m, Top, input.document) = Grand(m)
    BY <1>1, <2>1, <2>3, <2>4 DEF Charge, Grand, doc
  <2>6. Spent(m, budget) = Charge(m, Top, input.document)
    <3>1. Balanced(m, frames, input.document, Spent(m, budget))
      BY DEF DuesInv
    <3>2. QED
      BY <1>1, <1>2, <3>1, BalancedOne
  <2>7. Spent(m, budget) <= Limit(m)
    <3>1. budget \in Budgets
      BY SharedIn
    <3>2. QED
      BY <3>1, NumbersAssumption DEF Budgets, Spent, Limit
  <2>8. QED
    BY <2>5, <2>6, <2>7
<1>12. /\ SizeOK /\ doc.valid
       /\ input.gzip => /\ input.intact /\ input.inflated <= Limits.decompressedBytes
                        /\ input.inflated <= input.size * Limits.expansionRatio
  BY <1>1 DEF EarlyInv, IngestInv, InflationBounded, doc
<1>13. QED
  BY <1>1, <1>6, <1>7, <1>9, <1>10, <1>11, <1>12 DEF Ready, doc

-----------------------------------------------------------------------------
(* The trees are counted                                                   *)

\* What the input's own document shows are its images.
LEMMA RootShows ==
  ASSUME input \in Inputs, Ready
  PROVE  /\ Shown(input.document) \in Seq(Trees)
         /\ input.document.paints \in Nat /\ SumOf(Paints, Shown(input.document)) \in Nat
         /\ 1 + input.document.paints + SumOf(Paints, Shown(input.document)) = Painted
<1> DEFINE doc == input.document
           hrefs == Hrefs(doc, Shows)
<1>1. /\ doc \in Documents /\ Images \in Seq(DOMAIN Resources)
      /\ ToSet(Images) = ToSet(DataImages(doc)) \cup Files(doc)
  BY ImagesTyped DEF Ready
<1>2. ASSUME NEW x, Refers(doc, Shows, x) PROVE x \in ToSet(Images)
  <2>1. PICK i \in DOMAIN doc.nodes :
          \E j \in DOMAIN doc.nodes[i].refs :
            /\ doc.nodes[i].tag = "image" /\ doc.nodes[i].refs[j].kind \in Shows
            /\ doc.nodes[i].refs[j].target = x
    BY <1>2 DEF Refers
  <2>2. PICK j \in DOMAIN doc.nodes[i].refs :
            /\ doc.nodes[i].tag = "image" /\ doc.nodes[i].refs[j].kind \in Shows
            /\ doc.nodes[i].refs[j].target = x
    BY <2>1
  <2>3. CASE doc.nodes[i].refs[j].kind \in {"data", "shouted"}
    <3>1. Refers(doc, {"data", "shouted"}, x)
      BY <2>2, <2>3 DEF Refers
    <3>2. x \in ToSet(DataImages(doc))
      BY <1>1, <3>1, HrefsListed DEF DataImages
    <3>3. QED
      BY <1>1, <3>2
  <2>4. CASE doc.nodes[i].refs[j].kind = "external"
    <3>1. IsFileOf(doc, x)
      BY <2>2, <2>4 DEF IsFileOf, IsFile
    <3>2. QED
      BY <1>1, <3>1, FileOf
  <2>5. QED
    BY <2>2, <2>3, <2>4 DEF Shows
<1>3. ToSet(Images) \subseteq DOMAIN Resources
  <2>1. ASSUME NEW S, NEW s \in Seq(S) PROVE ToSet(s) \subseteq S
    BY DEF ToSet
  <2>2. QED
    BY <1>1, <2>1
<1>4. hrefs \in Seq(DOMAIN Resources)
  BY <1>1, <1>2, <1>3, HrefsOf
<1>5. \A x \in ToSet(hrefs) : x \in ToSet(Images)
  BY <1>1, <1>2, HrefsListed
<1> HIDE DEF doc
<1>6. /\ Shown(doc) \in Seq(DOMAIN Resources)
      /\ \A x \in ToSet(Shown(doc)) : x \in ToSet(hrefs) /\ Resources[x].svg
      /\ SumOf(Paints, Shown(doc)) = SumOf(Paints, hrefs)
  BY <1>4, PaintsTyped, ShownOf
<1> HIDE DEF hrefs
<1>7. Shown(doc) \in Seq(Trees)
  <2>1. ToSet(Shown(doc)) \subseteq Trees
    BY <1>5, <1>6 DEF Ready, Trees
  <2>2. Shown(doc) \in Seq(ToSet(Shown(doc)))
    BY <1>6, SelfTyped
  <2>3. QED
    BY <2>1, <2>2
<1>8. SumOf(Paints, Shown(doc)) \in Nat
  BY <1>6, PaintsTyped, ValuesTyped
<1>9. doc.paints \in Nat
  <2>1. {doc.size, doc.paints} \subseteq Nat
    BY <1>1, DocumentsAssumption
  <2>2. QED
    BY <2>1
<1>10. Painted = 1 + doc.paints + SumOf(Paints, Shown(doc))
  BY <1>6 DEF Painted, hrefs, doc
<1>11. QED
  BY <1>7, <1>8, <1>9, <1>10 DEF doc

\* What a nested one shows are the images it holds.
LEMMA TreeShows ==
  ASSUME NEW name \in Trees
  PROVE  /\ name \in DOMAIN Resources /\ Shown(Resources[name]) \in Seq(Trees)
         /\ Resources[name].paints \in Nat /\ SumOf(Paints, Shown(Resources[name])) \in Nat
         /\ Paints[name] = Resources[name].paints + SumOf(Paints, Shown(Resources[name]))
<1> DEFINE res == Resources[name]
           held == Held(name)
           T == Limits.nestedDepth
<1>1. T \in Depths /\ T \in Nat /\ name \in Sound[T] /\ res.svg
  BY NumbersAssumption DEF Depths, Trees
<1>2. name \in DOMAIN Resources
  BY <1>1, SoundLevels
<1>3. Alone(res) /\ T # 0 /\ ToSet(held) \subseteq Sound[T - 1]
  BY <1>1, <1>2, SoundOf
<1>4. ToSet(held) \subseteq Sound[T]
  <2>1. T - 1 \in Depths /\ T - 1 <= T
    BY <1>1, <1>3 DEF Depths
  <2>2. QED
    BY <1>1, <1>3, <2>1, SoundWithin
<1>5. Files(res) = {} /\ res \in Documents /\ held \in Seq(DOMAIN Resources)
  BY <1>1, <1>2, <1>3, HeldTyped DEF Alone
<1>6. Hrefs(res, Shows) = held
  BY <1>5, FilelessHrefs DEF Held
<1>7. Paints[name] = res.paints + SumOf(Paints, held)
  BY <1>1, PaintsTyped
<1> HIDE DEF res, held, T
<1>8. /\ Shown(res) \in Seq(DOMAIN Resources)
      /\ \A x \in ToSet(Shown(res)) : x \in ToSet(held) /\ Resources[x].svg
      /\ SumOf(Paints, Shown(res)) = SumOf(Paints, held)
  BY <1>5, <1>6, PaintsTyped, ShownOf
<1>9. Shown(res) \in Seq(Trees)
  <2>1. ToSet(Shown(res)) \subseteq Trees
    BY <1>4, <1>8 DEF Trees, T
  <2>2. Shown(res) \in Seq(ToSet(Shown(res)))
    BY <1>8, SelfTyped
  <2>3. QED
    BY <2>1, <2>2
<1>10. SumOf(Paints, Shown(res)) \in Nat
  BY <1>8, PaintsTyped, ValuesTyped
<1>11. res.paints \in Nat
  <2>1. {res.size, res.paints} \subseteq Nat
    BY <1>5, DocumentsAssumption
  <2>2. QED
    BY <2>1
<1>12. QED
  BY <1>2, <1>7, <1>8, <1>9, <1>10, <1>11 DEF res

\* Counting a tree leaves the whole count: it is no more than what is counted
\* and what is left.
LEMMA CountPaints ==
  ASSUME IngestInv, PaintInv, stage = "paint", paint.trees # <<>>
  PROVE  LET doc   == Document(Head(paint.trees))
             count == paint.count + doc.paints
             left  == Shown(doc) \o Tail(paint.trees)
         IN /\ left \in Seq(Trees) /\ count + SumOf(Paints, left) = Painted
            /\ count <= Painted
<1> DEFINE trees == paint.trees
           doc   == Document(Head(trees))
           count == paint.count + doc.paints
           left  == Shown(doc) \o Tail(trees)
<1>1. /\ Ready /\ input \in Inputs /\ paint.count \in Nat /\ trees \in Seq(Names)
      /\ \/ paint = [count |-> 1, trees |-> <<Root>>]
         \/ trees \in Seq(Trees) /\ paint.count + SumOf(Paints, trees) = Painted
  <2>1. Limits.paintNodes \in Nat /\ paint \in PaintStates /\ input \in Inputs
    BY SharedIn, NumbersAssumption
  <2>2. QED
    BY <2>1 DEF PaintInv, PaintStates
<1>2. Paints \in [DOMAIN Resources -> Nat] /\ Trees \subseteq DOMAIN Resources
  BY PaintsTyped, TreeShows
<1>3. CASE paint = [count |-> 1, trees |-> <<Root>>]
  <2>1. Head(trees) = Root /\ Tail(trees) = <<>> /\ paint.count = 1
    BY <1>3
  <2>2. doc = input.document
    BY <2>1 DEF Document
  <2> HIDE DEF trees, doc
  <2>3. /\ Shown(doc) \in Seq(Trees) /\ doc.paints \in Nat /\ SumOf(Paints, Shown(doc)) \in Nat
        /\ 1 + doc.paints + SumOf(Paints, Shown(doc)) = Painted
    BY <1>1, <2>2, RootShows
  <2>4. left = Shown(doc)
    <3>1. \A s \in Seq(Trees) : s \o <<>> = s
      OBVIOUS
    <3>2. QED
      BY <2>1, <2>3, <3>1
  <2> HIDE DEF left
  <2>5. left \in Seq(Trees) /\ count + SumOf(Paints, left) = Painted /\ count <= Painted
    BY <2>1, <2>3, <2>4
  <2>6. QED
    BY <2>5 DEF left, doc, trees
<1>4. CASE trees \in Seq(Trees) /\ paint.count + SumOf(Paints, trees) = Painted
  <2> DEFINE name == Head(trees)
             rest == Tail(trees)
  <2>1. name \in Trees /\ rest \in Seq(Trees) /\ trees = <<name>> \o rest
    BY <1>4
  <2>2. /\ name \in DOMAIN Resources /\ Shown(Resources[name]) \in Seq(Trees)
        /\ Resources[name].paints \in Nat /\ SumOf(Paints, Shown(Resources[name])) \in Nat
        /\ Paints[name] = Resources[name].paints + SumOf(Paints, Shown(Resources[name]))
    BY <2>1, TreeShows
  <2>3. doc = Resources[name]
    BY <2>2, DocumentsAssumption DEF Document
  <2>4. left = Shown(Resources[name]) \o rest
    BY <2>3
  <2>5. count = paint.count + Resources[name].paints
    BY <2>3
  <2> HIDE DEF trees, doc, name, rest, count, left
  <2>6. rest \in Seq(DOMAIN Resources) /\ Shown(Resources[name]) \in Seq(DOMAIN Resources)
        /\ <<name>> \in Seq(DOMAIN Resources)
    BY <1>2, <2>1, <2>2
  <2>7. SumOf(Paints, trees) = SumOf(Paints, <<name>>) + SumOf(Paints, rest)
    BY <1>2, <2>1, <2>6, SumOfConcat
  <2>8. SumOf(Paints, <<name>>) = Paints[name] /\ SumOf(Paints, rest) \in Nat
    BY <1>2, <2>2, <2>6, SumOfOne, ValuesTyped
  <2>9. SumOf(Paints, left) = SumOf(Paints, Shown(Resources[name])) + SumOf(Paints, rest)
    BY <1>2, <2>4, <2>6, SumOfConcat
  <2>10. left \in Seq(Trees)
    BY <2>1, <2>2, <2>4
  <2>11. count + SumOf(Paints, left) = Painted /\ count <= Painted
    <3>1. paint.count \in Nat
      BY <1>1
    <3>2. paint.count + SumOf(Paints, trees) = Painted
      BY <1>4
    <3>3. SumOf(Paints, trees) = Resources[name].paints + SumOf(Paints, Shown(Resources[name])) + SumOf(Paints, rest)
      BY <2>2, <2>7, <2>8
    <3>4. /\ Resources[name].paints \in Nat /\ SumOf(Paints, Shown(Resources[name])) \in Nat
          /\ SumOf(Paints, rest) \in Nat
      BY <2>2, <2>8
    <3>5. QED
      BY ONLY <2>5, <2>9, <3>1, <3>2, <3>3, <3>4
  <2>12. QED
    BY <2>10, <2>11 DEF left, count, doc, trees
<1>5. QED
  BY <1>1, <1>3, <1>4

-----------------------------------------------------------------------------
(* Every step keeps the invariant of the verdict                           *)

LEMMA VerdictInit == Init => VerdictInv
<1> SUFFICES ASSUME Init PROVE VerdictInv
  OBVIOUS
<1>1. /\ frames = <<>> /\ budget = [bytes |-> 0, elements |-> 0, references |-> 0]
      /\ stage = "check" /\ outcome = "none"
  BY DEF Init
<1>2. SoundInv /\ EarlyInv /\ PaintInv /\ VerdictExact /\ PaintCounted
  BY <1>1 DEF SoundInv, EarlyInv, PaintInv, VerdictExact, PaintCounted
<1>3. ASSUME NEW m \in Measures PROVE Balanced(m, frames, input.document, Spent(m, budget))
  <2>1. Spent(m, budget) = 0
    BY <1>1 DEF Spent
  <2>2. QED
    BY <1>1, <2>1, BalancedEmpty
<1>4. QED
  BY <1>2, <1>3 DEF DuesInv, VerdictInv

\* The documents go on.
LEMMA DocumentsGoOn ==
  ASSUME IngestInv, VerdictInv, stage = "documents", UNCHANGED <<input, stage, inflated, outcome>>,
         SoundInv' /\ DuesInv'
  PROVE  VerdictInv'
<1>1. EarlyInv' /\ PaintInv'
  BY DEF VerdictInv, EarlyInv, PaintInv, SizeOK
<1>2. VerdictExact' /\ PaintCounted'
  BY GoesOn
<1>3. QED
  BY <1>1, <1>2 DEF VerdictInv

\* Or are rejected.
LEMMA RejectedWell ==
  ASSUME IngestInv, VerdictInv, NEW why \in Rejections, Stop(why), ~Ready
  PROVE  VerdictInv'
<1>1. ~Admissible /\ why # "accepted"
  BY SharedIn, AdmissibleReady DEF Rejections
<1>2. QED
  BY <1>1, StopVerdict

\* Before the documents there are no frames.
LEMMA EarlyVerdict ==
  ASSUME IngestInv, VerdictInv, Cancel \/ CheckInput \/ Inflate \/ InflateEnds
  PROVE  VerdictInv'
<1>1. /\ UNCHANGED <<input, frames, budget, paint, outcome>>
      /\ stage # "ended"
  BY DEF Cancel, CheckInput, Inflate, InflateEnds
<1>2. SoundInv' /\ DuesInv' /\ VerdictExact' /\ PaintCounted'
  BY <1>1, QuietFrames, GoesOn DEF VerdictInv
<1>3. CASE Cancel
  <2>1. UNCHANGED <<stage, inflated>>
    BY <1>3 DEF Cancel
  <2>2. EarlyInv'
    BY <1>1, <2>1 DEF VerdictInv, EarlyInv, SizeOK
  <2>3. PaintInv'
    BY <1>1, <2>1, SameVerdict DEF VerdictInv, PaintInv
  <2>4. QED
    BY <1>2, <2>2, <2>3 DEF VerdictInv
<1>4. CASE CheckInput
  <2>1. SizeOK /\ stage' = IF input.gzip THEN "inflate" ELSE "parse"
    BY <1>4 DEF CheckInput
  <2>2. EarlyInv' /\ PaintInv'
    BY <1>1, <2>1 DEF EarlyInv, PaintInv, SizeOK
  <2>3. QED
    BY <1>2, <2>2 DEF VerdictInv
<1>5. CASE Inflate
  <2>1. stage = "inflate" /\ stage' = stage
    BY <1>5 DEF Inflate
  <2>2. EarlyInv' /\ PaintInv'
    BY <1>1, <2>1 DEF VerdictInv, EarlyInv, PaintInv, SizeOK
  <2>3. QED
    BY <1>2, <2>2 DEF VerdictInv
<1>6. CASE InflateEnds
  <2>1. stage = "inflate" /\ stage' = "parse" /\ inflated' = inflated /\ inflated = input.inflated /\ input.intact
    BY <1>6 DEF InflateEnds
  <2>2. EarlyInv' /\ PaintInv'
    BY <1>1, <2>1 DEF VerdictInv, EarlyInv, PaintInv, SizeOK
  <2>3. QED
    BY <1>2, <2>2 DEF VerdictInv
<1>7. QED
  BY <1>3, <1>4, <1>5, <1>6

LEMMA ParseVerdict == ASSUME IngestInv, VerdictInv, ParseRoot PROVE VerdictInv'
<1>1. /\ stage = "parse" /\ input.document.valid /\ stage' = "documents"
      /\ UNCHANGED <<input, inflated, outcome>>
  BY DEF ParseRoot
<1>2. SoundInv' /\ DuesInv'
  BY ParseSound DEF VerdictInv
<1>3. EarlyInv' /\ PaintInv'
  BY <1>1 DEF VerdictInv, EarlyInv, PaintInv, SizeOK
<1>4. VerdictExact' /\ PaintCounted'
  BY <1>1, GoesOn
<1>5. QED
  BY <1>2, <1>3, <1>4 DEF VerdictInv

LEMMA CensusVerdict == ASSUME IngestInv, VerdictInv, CensusNode PROVE VerdictInv'
<1> DEFINE node   == Document(Top.name).nodes[Top.at]
           counts == Counted(Top.counts, node)
<1>1. InCensus /\ stage = "documents" /\ SoundInv /\ DuesInv
  BY DEF CensusNode, InCensus, InStage, VerdictInv
<1>2. CASE Bounded(node) /\ WithinDocument(counts)
  <2>1. Update(Counting(Top, counts, Listed(Top.external, node.refs))) /\ budget' = budget
    BY <1>2 DEF CensusNode, Counting
  <2>2. SoundInv' /\ DuesInv'
    BY <1>1, <1>2, <2>1, CensusSound
  <2>3. UNCHANGED <<input, stage, inflated, outcome>>
    BY <2>1 DEF Update
  <2>4. QED
    BY <1>1, <2>2, <2>3, DocumentsGoOn
<1>3. CASE ~(Bounded(node) /\ WithinDocument(counts))
  <2>1. Stop("limit") /\ "limit" \in Rejections
    BY <1>3 DEF CensusNode, Rejections
  <2>2. ~Ready
    BY <1>1, <1>3, CensusRejects
  <2>3. QED
    BY <2>1, <2>2, RejectedWell
<1>4. QED
  BY <1>2, <1>3

LEMMA AdmitVerdict == ASSUME IngestInv, VerdictInv, AdmitDocument PROVE VerdictInv'
<1>1. /\ InStage("census") /\ stage = "documents" /\ SoundInv /\ DuesInv
      /\ Top.at > Len(Document(Top.name).nodes)
  BY DEF AdmitDocument, InStage, VerdictInv
<1>2. CASE CensusOK /\ IF Top.name = Root THEN RootOK ELSE NestedOK
  <2>1. Update(Turning(Top, "images")) /\ budget' = SharedBudget
    BY <1>2 DEF AdmitDocument, Turning
  <2>2. SoundInv' /\ DuesInv'
    BY <1>1, <1>2, <2>1, AdmitSound
  <2>3. UNCHANGED <<input, stage, inflated, outcome>>
    BY <2>1 DEF Update
  <2>4. QED
    BY <1>1, <2>2, <2>3, DocumentsGoOn
<1>3. CASE ~(CensusOK /\ IF Top.name = Root THEN RootOK ELSE NestedOK)
  <2>1. Stop("rejected") /\ "rejected" \in Rejections
    BY <1>3 DEF AdmitDocument, Rejections
  <2>2. ~Ready
    BY <1>1, <1>3, AdmitRejects
  <2>3. QED
    BY <2>1, <2>2, RejectedWell
<1>4. QED
  BY <1>2, <1>3

\* An image, whichever of the two ways it came.
LEMMA ImageVerdict ==
  ASSUME IngestInv, VerdictInv, stage = "documents", NEW name \in DOMAIN Resources,
         Reached(Top, input.document, loads, name),
         TakeRaster(name) \/ TakeSvg(name) \/ (Refused(name) /\ Stop("rejected"))
  PROVE  VerdictInv'
<1>1. SoundInv /\ DuesInv
  BY DEF VerdictInv
<1>2. Facing(Top, input.document, name)
  <2>1. Top = frames[1] /\ 1 \in DOMAIN frames
    BY TopTyped
  <2>2. QED
    BY <2>1, ReachedFacing
<1>3. CASE TakeRaster(name) \/ TakeSvg(name)
  <2>1. SoundInv' /\ DuesInv'
    BY <1>1, <1>2, <1>3, RasterSound, SvgSound
  <2>2. UNCHANGED <<input, stage, inflated, outcome>>
    BY <1>3 DEF TakeRaster, TakeSvg, Update
  <2>3. QED
    BY <2>1, <2>2, DocumentsGoOn
<1>4. CASE Refused(name) /\ Stop("rejected")
  <2>1. ~Ready
    BY <1>1, <1>2, <1>4, ImageRejects
  <2>2. "rejected" \in Rejections
    BY DEF Rejections
  <2>3. QED
    BY <1>4, <2>1, <2>2, RejectedWell
<1>5. QED
  BY <1>3, <1>4

LEMMA DataVerdict == ASSUME IngestInv, VerdictInv, DataImage PROVE VerdictInv'
<1> DEFINE images == DataImages(Document(Top.name))
           name   == images[Top.at]
<1>1. stage = "documents" /\ Top.stage = "images" /\ Top.at <= Len(images)
  BY DEF DataImage, InStage
<1>2. Top.name \in Names /\ Top.at \in Nat \ {0} /\ input \in Inputs
  BY <1>1, TopTyped, SharedIn
<1>3. images = ImagesOf(Top.name, input.document) /\ images \in Seq(DOMAIN Resources)
  BY <1>2, DocumentsTyped
<1>4. Reached(Top, input.document, loads, name)
  BY <1>1, <1>3 DEF Reached, Awaited
<1>5. name \in DOMAIN Resources
  <2>1. Top.at \in 1 .. Len(images)
    BY <1>1, <1>2, <1>3
  <2> HIDE DEF images
  <2>2. QED
    BY <1>3, <2>1
<1>6. TakeRaster(name) \/ TakeSvg(name) \/ (Refused(name) /\ Stop("rejected"))
  BY DEF DataImage
<1> HIDE DEF name
<1>7. QED
  BY <1>1, <1>4, <1>5, <1>6, ImageVerdict

LEMMA ExternalVerdict == ASSUME IngestInv, VerdictInv, ExternalImage PROVE VerdictInv'
<1> DEFINE name == Top.external[Top.at]
<1>1. InStage("external") /\ Len(loads) = Top.at
  BY DEF ExternalImage, Loaded
<1>2. /\ stage = "documents" /\ Top.stage = "external" /\ Top.at \in Nat \ {0}
      /\ RootFollows(Top, loads) /\ loads \in Seq(DOMAIN Resources)
  BY <1>1, AtExternal, SharedIn
<1>3. Top.at \in DOMAIN loads /\ loads[Top.at] \in DOMAIN Resources
  BY <1>1, <1>2
<1>4. loads[Top.at] = name
  BY <1>2, <1>3 DEF RootFollows
<1>5. Reached(Top, input.document, loads, name) /\ name \in DOMAIN Resources
  BY <1>1, <1>2, <1>3, <1>4 DEF Reached, Awaited
<1>6. TakeRaster(name) \/ TakeSvg(name) \/ (Refused(name) /\ Stop("rejected"))
  BY DEF ExternalImage
<1> HIDE DEF name
<1>7. QED
  BY <1>2, <1>5, <1>6, ImageVerdict

LEMMA ReturnVerdict == ASSUME IngestInv, VerdictInv, ReturnNested PROVE VerdictInv'
<1>1. stage = "documents" /\ UNCHANGED <<input, stage, inflated, outcome>>
  BY DEF ReturnNested, ImagesDone, InStage
<1>2. SoundInv' /\ DuesInv'
  BY ReturnSound DEF VerdictInv
<1>3. QED
  BY <1>1, <1>2, DocumentsGoOn

\* What the list of the input's own document has are its files.
LEMMA RootList ==
  ASSUME IngestInv, SoundInv, stage = "documents", Top.name = Root, Top.stage # "census"
  PROVE  Top.external \in Seq(Files(input.document))
<1>1. FrameSound(Top, input)
  BY TopWell
<1>2. Found(input.document, Len(input.document.nodes), Top.counts, Top.external)
  BY <1>1 DEF FrameSound, OfName
<1>3. QED
  BY <1>2 DEF Found

LEMMA BeginVerdict == ASSUME IngestInv, VerdictInv, BeginExternal PROVE VerdictInv'
<1>1. /\ ImagesDone /\ Top.name = Root /\ stage = "documents" /\ Top.stage = "images"
      /\ SoundInv /\ DuesInv
  BY DEF BeginExternal, ImagesDone, InStage, VerdictInv
<1>2. CASE Top.external = <<>> \/ input.provider
  <2>1. Update(Turning(Top, "external")) /\ budget' = budget
    BY <1>2 DEF BeginExternal, Turning
  <2>2. SoundInv' /\ DuesInv'
    BY <1>1, <2>1, BeginSound
  <2>3. UNCHANGED <<input, stage, inflated, outcome>>
    BY <2>1 DEF Update
  <2>4. QED
    BY <1>1, <2>2, <2>3, DocumentsGoOn
<1>3. CASE ~(Top.external = <<>> \/ input.provider)
  <2>1. Stop("rejected") /\ "rejected" \in Rejections
    BY <1>3 DEF BeginExternal, Rejections
  <2>2. Top.external \in Seq(Files(input.document))
    BY <1>1, RootList
  <2>3. Files(input.document) # {}
    <3>1. ASSUME NEW S, NEW s \in Seq(S), s # <<>> PROVE S # {}
      BY <3>1
    <3>2. QED
      BY <1>3, <2>2, <3>1
  <2>4. ~Ready
    BY <1>3, <2>3 DEF Ready
  <2>5. QED
    BY <2>1, <2>4, RejectedWell
<1>4. QED
  BY <1>2, <1>3

LEMMA LoadVerdict == ASSUME IngestInv, VerdictInv, LoadExternal PROVE VerdictInv'
<1>1. /\ InStage("external") /\ stage = "documents" /\ SoundInv /\ DuesInv
      /\ Top.stage = "external" /\ Top.at <= Len(Top.external)
  BY DEF LoadExternal, AtLoad, InStage, VerdictInv
<1>2. CASE Top.external[Top.at] \in LegalPaths
  <2>1. UNCHANGED <<input, stage, inflated, outcome, frames, budget>>
    BY <1>2 DEF LoadExternal
  <2>2. SoundInv' /\ DuesInv'
    BY <1>1, <2>1, QuietFrames
  <2>3. QED
    BY <1>1, <2>1, <2>2, DocumentsGoOn
<1>3. CASE Top.external[Top.at] \notin LegalPaths
  <2>1. Stop("rejected") /\ "rejected" \in Rejections
    BY <1>3 DEF LoadExternal, Rejections
  <2>2. Top.name = Root /\ Top.at \in Nat \ {0}
    BY <1>1, AtExternal, TopTyped
  <2>3. Top.external \in Seq(Files(input.document))
    BY <1>1, <2>2, RootList
  <2>4. Top.external[Top.at] \in Files(input.document)
    BY <1>1, <2>2, <2>3
  <2>5. ~Ready
    BY <1>3, <2>4 DEF Ready
  <2>6. QED
    BY <2>1, <2>5, RejectedWell
<1>4. QED
  BY <1>2, <1>3

LEMMA BuildVerdict == ASSUME IngestInv, ListInv, VerdictInv, BuildTree PROVE VerdictInv'
<1>1. /\ ExternalDone /\ stage = "documents" /\ stage' = "paint"
      /\ paint' = [count |-> 1, trees |-> <<Root>>]
      /\ UNCHANGED <<input, inflated, frames, budget, outcome>>
  BY DEF BuildTree, ExternalDone, InStage
<1>2. SoundInv' /\ DuesInv' /\ VerdictExact' /\ PaintCounted'
  BY <1>1, QuietFrames, GoesOn DEF VerdictInv
<1>3. EarlyInv'
  BY <1>1 DEF VerdictInv, EarlyInv, SizeOK
<1>4. Ready
  BY <1>1, BuildReady DEF VerdictInv
<1>5. PaintInv'
  BY <1>1, <1>4, SameVerdict DEF PaintInv
<1>6. QED
  BY <1>2, <1>3, <1>5 DEF VerdictInv

LEMMA CountVerdict == ASSUME IngestInv, VerdictInv, CountTree PROVE VerdictInv'
<1> DEFINE doc   == Document(Head(paint.trees))
           count == paint.count + doc.paints
           left  == Shown(doc) \o Tail(paint.trees)
<1>1. stage = "paint" /\ paint.trees # <<>> /\ PaintInv
  BY DEF CountTree, VerdictInv
<1>2. left \in Seq(Trees) /\ count + SumOf(Paints, left) = Painted /\ count <= Painted
  BY <1>1, CountPaints
<1>3. CASE count <= Limits.paintNodes
  <2>1. /\ paint' = [count |-> count, trees |-> left]
        /\ UNCHANGED <<input, stage, inflated, frames, budget, outcome>>
    BY <1>3 DEF CountTree
  <2>2. SoundInv' /\ DuesInv' /\ VerdictExact' /\ PaintCounted'
    BY <1>1, <2>1, QuietFrames, GoesOn DEF VerdictInv
  <2>3. EarlyInv'
    BY <2>1 DEF VerdictInv, EarlyInv, SizeOK
  <2> HIDE DEF count, left
  <2>4. Ready /\ (Ready' <=> Ready) /\ Painted' = Painted
    BY <1>1, <2>1, SameVerdict DEF PaintInv
  <2>5. paint'.trees = left /\ paint'.count = count
    BY <2>1
  <2>6. paint'.trees \in Seq(Trees) /\ paint'.count + SumOf(Paints, paint'.trees) = Painted'
    BY <1>2, <2>4, <2>5
  <2>7. PaintInv'
    BY <2>4, <2>6 DEF PaintInv
  <2>8. QED
    BY <2>2, <2>3, <2>7 DEF VerdictInv
<1>4. CASE ~(count <= Limits.paintNodes)
  <2>1. Stop("limit")
    BY <1>4 DEF CountTree
  <2>2. input \in Inputs /\ Limits.paintNodes \in Nat /\ Ready
    BY <1>1, SharedIn, NumbersAssumption DEF PaintInv
  <2>3. count \in Nat /\ Painted \in Nat
    <3>1. paint.count \in Nat /\ paint.trees \in Seq(Names)
      BY SharedIn, NumbersAssumption DEF PaintStates
    <3>2. Head(paint.trees) \in Names
      BY <1>1, <3>1
    <3>3. doc.paints \in Nat
      BY <2>2, <3>2, DocumentsTyped
    <3>4. SumOf(Paints, left) \in Nat
      <4>1. Paints \in [DOMAIN Resources -> Nat] /\ Trees \subseteq DOMAIN Resources
        BY PaintsTyped, TreeShows
      <4> HIDE DEF left
      <4>2. left \in Seq(DOMAIN Resources)
        BY <1>2, <4>1
      <4>3. QED
        BY <4>1, <4>2, ValuesTyped
    <3>5. count \in Nat
      BY <3>1, <3>3
    <3> HIDE DEF count, left
    <3>6. QED
      BY <1>2, <3>4, <3>5
  <2> HIDE DEF count, left
  <2>4. ~(Painted <= Limits.paintNodes)
    BY <1>2, <1>4, <2>2, <2>3
  <2>5. ~Admissible
    BY <2>2, <2>4, AdmissibleReady
  <2>6. QED
    BY <2>1, <2>5, StopVerdict
<1>5. QED
  BY <1>3, <1>4

\* Nothing is left to count.
LEMMA AcceptVerdict == ASSUME IngestInv, VerdictInv, Accept PROVE VerdictInv'
<1>1. stage = "paint" /\ paint.trees = <<>> /\ Stop("accepted")
  BY DEF Accept
<1>2. /\ Ready /\ paint.count + SumOf(Paints, paint.trees) = Painted
  <2>1. paint # [count |-> 1, trees |-> <<Root>>]
    BY <1>1
  <2>2. QED
    BY <1>1, <2>1 DEF VerdictInv, PaintInv
<1>3. input \in Inputs /\ paint.count \in Nat /\ paint.count <= Limits.paintNodes
  BY SharedIn, NumbersAssumption DEF PaintStates
<1>4. paint.count = Painted
  <2>1. SumOf(Paints, paint.trees) = 0
    BY <1>1, SumOfEmpty
  <2>2. QED
    BY <1>2, <1>3, <2>1
<1>5. Admissible
  BY <1>2, <1>3, <1>4, AdmissibleReady
<1>6. "accepted" \notin Rejections
  BY DEF Rejections
<1>7. QED
  BY <1>1, <1>4, <1>5, <1>6, StopVerdict

\* The other ends.
LEMMA EndVerdict ==
  ASSUME IngestInv, VerdictInv,
         \/ NoticeCancel \/ RejectInput \/ InflateTooFar \/ InflateCorrupt \/ RejectRoot
         \/ ProviderFails \/ TreeFails
  PROVE  VerdictInv'
<1>1. CASE RejectInput \/ InflateTooFar \/ InflateCorrupt \/ RejectRoot
  <2>1. ~Admissible
    BY <1>1, EarlyRejections DEF VerdictInv
  <2>2. Stop("limit") \/ Stop("invalid")
    BY <1>1 DEF RejectInput, InflateTooFar, InflateCorrupt, RejectRoot
  <2>3. QED
    BY <2>1, <2>2, StopVerdict
<1>2. CASE NoticeCancel \/ ProviderFails \/ TreeFails
  <2>1. Stop("cancelled") \/ Stop("provider") \/ Stop("normalization")
    BY <1>2 DEF NoticeCancel, ProviderFails, TreeFails
  <2>2. QED
    BY <2>1, StopVerdict DEF Rejections
<1>3. QED
  BY <1>1, <1>2

LEMMA VerdictNext == ASSUME IngestInv, ListInv, VerdictInv, [Next]_vars PROVE VerdictInv'
<1>1. CASE Cancel \/ CheckInput \/ Inflate \/ InflateEnds
  BY <1>1, EarlyVerdict
<1>2. CASE ParseRoot
  BY <1>2, ParseVerdict
<1>3. CASE CensusNode
  BY <1>3, CensusVerdict
<1>4. CASE AdmitDocument
  BY <1>4, AdmitVerdict
<1>5. CASE DataImage
  BY <1>5, DataVerdict
<1>6. CASE ReturnNested
  BY <1>6, ReturnVerdict
<1>7. CASE BeginExternal
  BY <1>7, BeginVerdict
<1>8. CASE LoadExternal
  BY <1>8, LoadVerdict
<1>9. CASE ExternalImage
  BY <1>9, ExternalVerdict
<1>10. CASE BuildTree
  BY <1>10, BuildVerdict
<1>11. CASE CountTree
  BY <1>11, CountVerdict
<1>12. CASE Accept
  BY <1>12, AcceptVerdict
<1>13. CASE \/ NoticeCancel \/ RejectInput \/ InflateTooFar \/ InflateCorrupt \/ RejectRoot
            \/ ProviderFails \/ TreeFails
  BY <1>13, EndVerdict
<1>14. CASE UNCHANGED vars
  <2>1. UNCHANGED <<input, stage, inflated, frames, budget, paint, outcome>>
    BY <1>14 DEF vars
  <2>2. SoundInv' /\ DuesInv'
    BY <2>1, QuietFrames DEF VerdictInv
  <2>3. EarlyInv'
    BY <2>1 DEF VerdictInv, EarlyInv, SizeOK
  <2>4. PaintInv' /\ VerdictExact' /\ PaintCounted'
    BY <2>1, SameVerdict DEF VerdictInv, PaintInv, VerdictExact, PaintCounted
  <2>5. QED
    BY <2>2, <2>3, <2>4 DEF VerdictInv
<1>15. QED
  BY <1>1, <1>2, <1>3, <1>4, <1>5, <1>6, <1>7, <1>8, <1>9, <1>10, <1>11, <1>12, <1>13,
     <1>14 DEF Next

\* The frames are sound, the budgets are what they were charged for, and the
\* paint nodes counted and to count are those of the whole tree: the verdict is
\* that of the definition, whatever is nested in whatever.
THEOREM VerdictInvariant == Spec => []VerdictInv
<1>1. Init => VerdictInv
  BY VerdictInit
<1>2. IngestInv /\ ListInv /\ VerdictInv /\ [Next]_vars => VerdictInv'
  BY VerdictNext
<1>3. Spec => []IngestInv /\ []ListInv
  BY IngestInvariant, FilesListed
<1>4. QED
  BY <1>1, <1>2, <1>3, PTL DEF Spec

\* VerdictExact: an input is accepted exactly when its documents fit, each on its
\* own and all together.
THEOREM VerdictIsExact == Spec => []VerdictExact
<1>1. VerdictInv => VerdictExact
  BY DEF VerdictInv
<1>2. QED
  BY <1>1, VerdictInvariant, PTL

\* PaintCounted: count_paint_nodes counts the tree with every image opened.
THEOREM PaintNodesCounted == Spec => []PaintCounted
<1>1. VerdictInv => PaintCounted
  BY DEF VerdictInv
<1>2. QED
  BY <1>1, VerdictInvariant, PTL
=============================================================================
