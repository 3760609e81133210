---------------------------- MODULE DataInduction ----------------------------
(***************************************************************************)
(* Induction for the recursive functions of the models (the maps, texts,   *)
(* files and digits that the code builds in a loop). It is stated of sets, *)
(* not of formulas: a proof names the set of numbers its claim holds of    *)
(* and shows that it has every number.                                     *)
(***************************************************************************)
EXTENDS Integers, Sequences, FiniteSetsExt, WellFoundedInduction, TLAPS

LEMMA LeastOf ==
  ASSUME NEW S \in SUBSET Nat, S # {}
  PROVE  \E n \in S : \A m \in S : n <= m
  <1>1. PICK n \in S : \A m \in S : ~ (<<m, n>> \in OpToRel(<, Nat))
    BY WFMin, NatLessThanWellFounded
  <1>2. \A m \in S : m \in Nat /\ n \in Nat /\ ~ (m < n)
    BY <1>1 DEF OpToRel
  <1>3. \A m \in S : n <= m
    BY <1>2
  <1> QED
    BY <1>3

LEMMA GreatestOf ==
  ASSUME NEW S \in SUBSET Int, S # {}, NEW b \in Int, \A m \in S : m <= b
  PROVE  \E n \in S : \A m \in S : m <= n
  <1> DEFINE T == {b - m : m \in S}
  <1>1. T \in SUBSET Nat /\ T # {}
    <2>1. \A m \in S : b - m \in Nat
      OBVIOUS
    <2> QED
      BY <2>1
  <1>2. PICK t \in T : \A m \in T : t <= m
    BY <1>1, LeastOf
  <1>3. PICK n \in S : t = b - n
    OBVIOUS
  <1>4. \A m \in S : b - m \in T /\ m \in Int
    OBVIOUS
  <1>5. \A m \in S : m <= n
    BY <1>2, <1>3, <1>4
  <1> QED
    BY <1>5

(* Min and Max of FiniteSetsExt, of sets that have one.                    *)
LEMMA MinIs ==
  ASSUME NEW S \in SUBSET Nat, S # {}
  PROVE  Min(S) \in S /\ \A m \in S : Min(S) <= m
  <1>1. \E n \in S : \A m \in S : n <= m
    BY LeastOf
  <1> QED
    BY <1>1 DEF Min

LEMMA MaxIs ==
  ASSUME NEW S \in SUBSET Int, S # {}, NEW b \in Int, \A m \in S : m <= b
  PROVE  Max(S) \in S /\ \A m \in S : m <= Max(S)
  <1>1. \E n \in S : \A m \in S : m <= n
    BY GreatestOf
  <1>2. \E n \in S : \A m \in S : n >= m
    BY <1>1
  <1>3. Max(S) \in S /\ \A m \in S : Max(S) >= m
    BY <1>2 DEF Max
  <1> QED
    BY <1>3

(* Induction from first to last.                                           *)
LEMMA IntervalInduction ==
  ASSUME NEW first \in Int, NEW last \in Int, NEW S, first \in S,
         \A n \in first..last - 1 : n \in S => n + 1 \in S
  PROVE  first..last \subseteq S
  <1> DEFINE Left == {n \in Nat : first + n <= last /\ first + n \notin S}
  <1> SUFFICES ASSUME NEW m \in first..last, m \notin S PROVE FALSE
    OBVIOUS
  <1>1. m - first \in Left
    OBVIOUS
  <1>2. PICK n \in Left : \A k \in Left : n <= k
    BY <1>1, LeastOf
  <1>3. n # 0
    BY <1>2
  <1>4. n - 1 \in Nat /\ n - 1 \notin Left
    BY <1>2, <1>3
  <1>5. first + (n - 1) \in S
    BY <1>4, <1>2
  <1>6. (first + (n - 1)) + 1 \in S
    BY <1>5, <1>2, <1>3
  <1> QED
    BY <1>6, <1>2

LEMMA NatInductionOnSets ==
  ASSUME NEW S, 0 \in S, \A n \in Nat : n \in S => n + 1 \in S
  PROVE  Nat \subseteq S
  <1> SUFFICES ASSUME NEW m \in Nat PROVE m \in S
    OBVIOUS
  <1>1. 0..m \subseteq S
    BY IntervalInduction
  <1> QED
    BY <1>1

(* A claim that holds of a value whenever it holds of all smaller ones.    *)
Smaller(D, size, v) == {u \in D : size[u] < size[v]}
Inherited(D, size, S) == \A v \in D : Smaller(D, size, v) \subseteq S => v \in S

LEMMA SizeInduction ==
  ASSUME NEW D, NEW size \in [D -> Nat], NEW S, Inherited(D, size, S)
  PROVE  D \subseteq S
  <1> DEFINE Good == {n \in Nat : \A v \in D : size[v] < n => v \in S}
  <1>1. 0 \in Good
    <2>1. \A v \in D : size[v] \in Nat
      OBVIOUS
    <2> QED
      BY <2>1
  <1>2. ASSUME NEW n \in Nat, n \in Good PROVE n + 1 \in Good
    <2>1. ASSUME NEW v \in D, size[v] < n + 1 PROVE v \in S
      <3>1. size[v] \in Nat /\ \A u \in D : size[u] \in Nat
        OBVIOUS
      <3>2. \A u \in D : size[u] < size[v] => size[u] < n
        BY <2>1, <3>1
      <3>3. Smaller(D, size, v) \subseteq S
        BY <1>2, <3>2 DEF Smaller
      <3> QED
        BY <3>3 DEF Inherited
    <2>2. n + 1 \in Nat
      OBVIOUS
    <2> QED
      BY <2>1, <2>2
  <1>3. Nat \subseteq Good
    <2> HIDE DEF Good
    <2> QED
      BY <1>1, <1>2, NatInductionOnSets
  <1>4. ASSUME NEW v \in D PROVE v \in S
    <2>1. size[v] \in Nat /\ size[v] + 1 \in Nat /\ size[v] < size[v] + 1
      OBVIOUS
    <2> QED
      BY <1>3, <2>1
  <1> QED
    BY <1>4

(* A function that has the value base at first, and that step takes from   *)
(* each of its values to the next.                                         *)
Unfolds(f, first, last, base, step) ==
  \A k \in first..last : f[k] = IF k = first THEN base ELSE step[<<f[k - 1], k>>]

(* There is one, and its values are where base and step lead.              *)
LEMMA Recursion ==
  ASSUME NEW A, NEW first \in Int, NEW last \in Int,
         NEW base \in A, NEW step \in [A \X (first + 1..last) -> A]
  PROVE  \E f \in [first..last -> A] : Unfolds(f, first, last, base, step)
  <1> DEFINE Good == {n \in Int : \E f \in [first..n -> A] : Unfolds(f, first, n, base, step)}
  <1>1. first \in Good
    <2> DEFINE f == [k \in first..first |-> base]
    <2>1. f \in [first..first -> A] /\ Unfolds(f, first, first, base, step)
      BY DEF Unfolds
    <2> QED
      BY <2>1
  <1>2. ASSUME NEW n \in first..last - 1, n \in Good PROVE n + 1 \in Good
    <2>1. PICK g \in [first..n -> A] : Unfolds(g, first, n, base, step)
      BY <1>2
    <2> DEFINE f == [k \in first..n + 1 |-> IF k = n + 1 THEN step[<<g[n], n + 1>>] ELSE g[k]]
    <2>2. f \in [first..n + 1 -> A]
      OBVIOUS
    <2>3. ASSUME NEW k \in first..n + 1
          PROVE  f[k] = IF k = first THEN base ELSE step[<<f[k - 1], k>>]
      <3>1. CASE k = n + 1
        <4>1. f[n] = g[n] /\ k # first /\ k - 1 = n
          BY <3>1
        <4> QED
          BY <4>1, <3>1
      <3>2. CASE k # n + 1
        <4>1. k \in first..n /\ f[k] = g[k]
          BY <3>2
        <4>2. k # first => f[k - 1] = g[k - 1]
          BY <4>1
        <4>3. g[k] = IF k = first THEN base ELSE step[<<g[k - 1], k>>]
          BY <2>1, <4>1 DEF Unfolds
        <4> QED
          BY <4>1, <4>2, <4>3
      <3> QED
        BY <3>1, <3>2
    <2>4. Unfolds(f, first, n + 1, base, step)
      <3> HIDE DEF f
      <3> QED
        BY <2>3 DEF Unfolds
    <2> HIDE DEF f
    <2> QED
      BY <2>2, <2>4
  <1>3. first..last \subseteq Good
    <2> HIDE DEF Good
    <2> QED
      BY <1>1, <1>2, IntervalInduction
  <1>4. CASE first <= last
    BY <1>3, <1>4
  <1>5. CASE last < first
    <2> DEFINE f == [k \in first..last |-> base]
    <2>1. first..last = {}
      BY <1>5
    <2>2. f \in [first..last -> A] /\ Unfolds(f, first, last, base, step)
      BY <2>1 DEF Unfolds
    <2> HIDE DEF f
    <2> QED
      BY <2>2
  <1> QED
    BY <1>4, <1>5

(* Two functions with the same first value and the same steps.             *)
SameSteps(f, g, first, last) ==
  f[first] = g[first] /\ \A n \in first..last - 1 : f[n] = g[n] => f[n + 1] = g[n + 1]
SameValues(f, g, first, last) == \A n \in first..last : f[n] = g[n]

LEMMA SameStepsSameValues ==
  ASSUME NEW first \in Int, NEW last \in Int, NEW f, NEW g, SameSteps(f, g, first, last)
  PROVE  SameValues(f, g, first, last)
  <1> DEFINE Same == {n \in Int : f[n] = g[n]}
  <1>1. first \in Same
    BY DEF SameSteps
  <1>2. ASSUME NEW n \in first..last - 1, n \in Same PROVE n + 1 \in Same
    BY <1>2 DEF SameSteps
  <1>3. first..last \subseteq Same
    <2> HIDE DEF Same
    <2> QED
      BY <1>1, <1>2, IntervalInduction
  <1> QED
    BY <1>3 DEF SameValues

(* A claim that holds of the empty sequence, and of a sequence that is one  *)
(* longer when it holds of the shorter one, holds of all.                  *)
LEMMA SequenceInduction ==
  ASSUME NEW D, NEW S, <<>> \in S,
         \A s \in Seq(D) : s \in S => \A d \in D : Append(s, d) \in S
  PROVE  Seq(D) \subseteq S
  <1> DEFINE Good == {n \in Nat : \A s \in Seq(D) : Len(s) = n => s \in S}
  <1>1. 0 \in Good
    <2>1. \A s \in Seq(D) : Len(s) = 0 => s = <<>>
      OBVIOUS
    <2> QED
      BY <2>1
  <1>2. ASSUME NEW n \in Nat, n \in Good PROVE n + 1 \in Good
    <2>1. ASSUME NEW s \in Seq(D), Len(s) = n + 1 PROVE s \in S
      <3> DEFINE front == SubSeq(s, 1, n)
      <3>1. front \in Seq(D) /\ Len(front) = n /\ s[n + 1] \in D
        BY <2>1
      <3>2. s = Append(front, s[n + 1])
        BY <2>1, <3>1
      <3> HIDE DEF front
      <3>3. front \in S
        BY <1>2, <3>1
      <3>4. Append(front, s[n + 1]) \in S
        BY <3>1, <3>3
      <3> QED
        BY <3>2, <3>4
    <2> QED
      BY <2>1
  <1>3. Nat \subseteq Good
    <2> HIDE DEF Good
    <2> QED
      BY <1>1, <1>2, NatInductionOnSets
  <1>4. \A s \in Seq(D) : Len(s) \in Nat
    OBVIOUS
  <1> QED
    BY <1>3, <1>4

(* The recursion of Recursion, without a last value.                       *)
Iterates(h, base, step) == h[0] = base /\ \A k \in Nat : h[k + 1] = step[h[k]]

LEMMA UnboundedRecursion ==
  ASSUME NEW A, NEW base \in A, NEW step \in [A -> A]
  PROVE  \E h \in [Nat -> A] : Iterates(h, base, step)
  <1> DEFINE upTo(n) == [p \in A \X (0 + 1..n) |-> step[p[1]]]
             Is(f, n) == f \in [0..n -> A] /\ f[0] = base /\ \A k \in 1..n : f[k] = step[f[k - 1]]
             G(n) == CHOOSE f : Is(f, n)
             h == [n \in Nat |-> G(n)[n]]
  <1>1. ASSUME NEW n \in Nat PROVE Is(G(n), n)
    <2>1. upTo(n) \in [A \X (0 + 1..n) -> A]
      OBVIOUS
    <2>2. \A a \in A, k \in 1..n : upTo(n)[<<a, k>>] = step[a]
      OBVIOUS
    <2>3. PICK f \in [0..n -> A] : Unfolds(f, 0, n, base, upTo(n))
      <3> HIDE DEF upTo
      <3>1. n \in Int /\ 0 \in Int
        OBVIOUS
      <3> QED
        BY <2>1, <3>1, Recursion
    <2>4. \A k \in 0..n : f[k] = IF k = 0 THEN base ELSE upTo(n)[<<f[k - 1], k>>]
      BY <2>3 DEF Unfolds
    <2>5. \A k \in 1..n : f[k - 1] \in A /\ k \in 0..n /\ k # 0
      OBVIOUS
    <2> HIDE DEF upTo
    <2>6. f[0] = base
      <3>1. 0 \in 0..n
        OBVIOUS
      <3> QED
        BY <2>4, <3>1
    <2>7. ASSUME NEW k \in 1..n PROVE f[k] = step[f[k - 1]]
      <3>1. f[k] = upTo(n)[<<f[k - 1], k>>] /\ f[k - 1] \in A
        BY <2>4, <2>5
      <3> QED
        BY <2>2, <3>1
    <2>8. Is(f, n)
      BY <2>6, <2>7
    <2> HIDE DEF Is
    <2> QED
      BY <2>8
  <1> HIDE DEF G
  <1>2. ASSUME NEW n \in Nat PROVE G(n + 1)[n] = G(n)[n]
    <2> DEFINE f == G(n)
               g == G(n + 1)
               Same == {k \in 0..n : g[k] = f[k]}
    <2>1. Is(f, n) /\ Is(g, n + 1)
      BY <1>1
    <2> HIDE DEF f, g
    <2>2. 0 \in Same
      BY <2>1
    <2>3. ASSUME NEW k \in 0..n - 1, k \in Same PROVE k + 1 \in Same
      <3>1. k + 1 \in 1..n /\ k + 1 \in 1..n + 1 /\ (k + 1) - 1 = k /\ k + 1 \in 0..n
        OBVIOUS
      <3>2. f[k + 1] = step[f[k]] /\ g[k + 1] = step[g[k]]
        BY <2>1, <3>1
      <3> QED
        BY <2>3, <3>1, <3>2
    <2>4. 0..n \subseteq Same
      <3> HIDE DEF Same
      <3> QED
        BY <2>2, <2>3, IntervalInduction
    <2>5. g[n] = f[n]
      BY <2>4
    <2> QED
      BY <2>5 DEF f, g
  <1> HIDE DEF Is
  <1>3. ASSUME NEW n \in Nat
        PROVE  G(n)[n] \in A /\ G(0)[0] = base /\ G(n + 1)[n + 1] = step[G(n + 1)[n]]
    <2>1. Is(G(n), n) /\ Is(G(0), 0) /\ Is(G(n + 1), n + 1)
      BY <1>1
    <2> USE DEF Is
    <2>2. n \in 0..n /\ n + 1 \in 1..n + 1 /\ (n + 1) - 1 = n
      OBVIOUS
    <2> QED
      BY <2>1, <2>2
  <1>4. h \in [Nat -> A] /\ h[0] = base
    BY <1>3
  <1>5. ASSUME NEW k \in Nat PROVE h[k + 1] = step[h[k]]
    BY <1>2, <1>3
  <1> HIDE DEF h
  <1> QED
    BY <1>4, <1>5 DEF Iterates

(* A function that recurs to an argument of smaller size.                  *)
SizedFunction(f, D, size, back, start, step) ==
  \A v \in D : f[v] = IF size[v] = 0 THEN start[v] ELSE step[<<v, f[back[v]]>>]

LEMMA SizedRecursion ==
  ASSUME NEW D, NEW A, NEW size \in [D -> Nat], NEW back \in [D -> D],
         NEW start \in [D -> A], NEW step \in [D \X A -> A],
         \A v \in D : size[v] # 0 => size[back[v]] < size[v]
  PROVE  \E f \in [D -> A] : SizedFunction(f, D, size, back, start, step)
  <1>0. PICK F : F = [D -> A]
    OBVIOUS
  <1> DEFINE once == [g \in F |-> [v \in D |-> IF size[v] = 0 THEN start[v] ELSE step[<<v, g[back[v]]>>]]]
  <1>1. once \in [F -> F]
    <2> SUFFICES ASSUME NEW g \in F, NEW v \in D
                 PROVE  (IF size[v] = 0 THEN start[v] ELSE step[<<v, g[back[v]]>>]) \in A
      BY <1>0
    <2>1. g[back[v]] \in A
      BY <1>0
    <2> QED
      BY <2>1
  <1>2. \A g \in F : \A v \in D : once[g][v] = IF size[v] = 0 THEN start[v] ELSE step[<<v, g[back[v]]>>]
    OBVIOUS
  <1>3. start \in F
    BY <1>0
  <1> HIDE DEF once
  <1>4. PICK h \in [Nat -> F] : h[0] = start /\ \A k \in Nat : h[k + 1] = once[h[k]]
    <2>1. \E h \in [Nat -> F] : Iterates(h, start, once)
      BY <1>1, <1>3, UnboundedRecursion
    <2> QED
      BY <2>1 DEF Iterates
  <1>5. ASSUME NEW k \in Nat \ {0}, NEW v \in D
        PROVE  h[k][v] = IF size[v] = 0 THEN start[v] ELSE step[<<v, h[k - 1][back[v]]>>]
    <2>1. k - 1 \in Nat /\ (k - 1) + 1 = k /\ h[k - 1] \in F
      OBVIOUS
    <2>2. h[k] = once[h[k - 1]]
      BY <1>4, <2>1
    <2> QED
      BY <1>2, <2>1, <2>2
  <1> DEFINE Stable(v) == \A j, k \in Nat : (j > size[v] /\ k > size[v]) => h[j][v] = h[k][v]
             Good == {n \in Nat : \A v \in D : size[v] <= n => Stable(v)}
  <1>6. 0 \in Good
    <2> SUFFICES ASSUME NEW v \in D, size[v] <= 0, NEW j \in Nat, NEW k \in Nat, j > size[v], k > size[v]
                 PROVE  h[j][v] = h[k][v]
      OBVIOUS
    <2>1. size[v] = 0 /\ j \in Nat \ {0} /\ k \in Nat \ {0}
      OBVIOUS
    <2>2. h[j][v] = start[v] /\ h[k][v] = start[v]
      BY <1>5, <2>1
    <2> QED
      BY <2>2
  <1>7. ASSUME NEW n \in Nat, n \in Good PROVE n + 1 \in Good
    <2> SUFFICES ASSUME NEW v \in D, size[v] <= n + 1, NEW j \in Nat, NEW k \in Nat, j > size[v], k > size[v]
                 PROVE  h[j][v] = h[k][v]
      OBVIOUS
    <2>1. j \in Nat \ {0} /\ k \in Nat \ {0} /\ j - 1 \in Nat /\ k - 1 \in Nat
      OBVIOUS
    <2>2. CASE size[v] = 0
      <3>1. h[j][v] = start[v] /\ h[k][v] = start[v]
        BY <1>5, <2>1, <2>2
      <3> QED
        BY <3>1
    <2>3. CASE size[v] # 0
      <3>1. back[v] \in D /\ size[back[v]] < size[v] /\ size[back[v]] \in Nat
        BY <2>3
      <3>2. size[back[v]] <= n /\ j - 1 > size[back[v]] /\ k - 1 > size[back[v]]
        BY <3>1
      <3>3. h[j - 1][back[v]] = h[k - 1][back[v]]
        BY <1>7, <2>1, <3>1, <3>2
      <3>4. h[j][v] = step[<<v, h[j - 1][back[v]]>>] /\ h[k][v] = step[<<v, h[k - 1][back[v]]>>]
        BY <1>5, <2>1, <2>3
      <3> QED
        BY <3>3, <3>4
    <2> QED
      BY <2>2, <2>3
  <1>8. Nat \subseteq Good
    <2> HIDE DEF Good
    <2> QED
      BY <1>6, <1>7, NatInductionOnSets
  <1>9. ASSUME NEW v \in D PROVE Stable(v)
    <2>1. size[v] \in Good
      BY <1>8
    <2> QED
      BY <2>1
  <1> DEFINE f == [v \in D |-> h[size[v] + 1][v]]
  <1>10. f \in [D -> A]
    <2>1. \A v \in D : h[size[v] + 1] \in F
      OBVIOUS
    <2> QED
      BY <1>0, <2>1
  <1>11. ASSUME NEW v \in D
         PROVE  f[v] = IF size[v] = 0 THEN start[v] ELSE step[<<v, f[back[v]]>>]
    <2>1. size[v] + 1 \in Nat \ {0} /\ (size[v] + 1) - 1 = size[v]
      OBVIOUS
    <2>2. f[v] = IF size[v] = 0 THEN start[v] ELSE step[<<v, h[size[v]][back[v]]>>]
      BY <1>5, <2>1
    <2>3. ASSUME size[v] # 0 PROVE h[size[v]][back[v]] = f[back[v]]
      <3>1. back[v] \in D /\ size[back[v]] < size[v] /\ size[back[v]] \in Nat
        BY <2>3
      <3>2. Stable(back[v])
        BY <1>9, <3>1
      <3>3. size[v] \in Nat /\ size[back[v]] + 1 \in Nat /\ size[v] > size[back[v]] /\ size[back[v]] + 1 > size[back[v]]
        BY <3>1
      <3>4. h[size[v]][back[v]] = h[size[back[v]] + 1][back[v]]
        BY <3>2, <3>3
      <3> QED
        BY <3>1, <3>4
    <2> HIDE DEF f
    <2> QED
      BY <2>2, <2>3
  <1> HIDE DEF f
  <1> QED
    BY <1>10, <1>11 DEF SizedFunction
=============================================================================
