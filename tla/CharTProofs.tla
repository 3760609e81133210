----------------------------- MODULE CharTProofs -----------------------------
(***************************************************************************)
(* Proofs about CharT for every set of trials: every text of Unicode       *)
(* scalar values, of any length, through either codec.                     *)
(***************************************************************************)
EXTENDS CharT, DataInduction, SequenceTheorems, FiniteSetTheorems

(* The trits of a tryte add up to a number from -6 to 6.                   *)
LEMMA BalancedSumIs ==
  ASSUME NEW t \in Tryte
  PROVE  BalancedSum(t) \in Int
  BY DEF BalancedSum, Tryte, Trit, TryteLength

-----------------------------------------------------------------------------
(* The recursion of ExtractTrits, unfolded once and for all.               *)
LEMMA RestUnfolds ==
  ASSUME NEW value \in Nat, NEW count \in Nat
  PROVE  \E R \in [0..count -> Nat] :
           /\ ExtractTrits(value, count) = [j \in 1..count |-> (R[count - j] % 3) - 1]
           /\ R[0] = value
           /\ \A k \in 1..count : R[k] = R[k - 1] \div 3
  <1> DEFINE n == count
             A == Nat
             next(s, k) == s \div 3
             step == [p \in A \X (0 + 1..n) |-> next(p[1], p[2])]
             Is(f) == f = [k \in 0..n |-> IF k = 0 THEN value ELSE next(f[k - 1], k)]
             R == CHOOSE f : Is(f)
  <1>1. n \in Nat /\ n \in Int /\ 0 \in Int /\ value \in A
    OBVIOUS
  <1>2. \A a \in A, k \in 1..n : next(a, k) \in A
    <2>1. \A a \in Nat : a \div 3 \in Nat
      OBVIOUS
    <2> QED
      BY <2>1
  <1>3. ExtractTrits(value, count) = [j \in 1..count |-> (R[count - j] % 3) - 1]
    BY DEF ExtractTrits
  <1> HIDE DEF A, n, next
  <1>4. step \in [A \X (0 + 1..n) -> A]
    <2> SUFFICES ASSUME NEW p \in A \X (0 + 1..n) PROVE next(p[1], p[2]) \in A
      OBVIOUS
    <2>1. p[1] \in A /\ p[2] \in 1..n
      BY <1>1
    <2> QED
      BY <1>2, <2>1
  <1>5. ASSUME NEW a \in A, NEW k \in 0..n, k # 0 PROVE step[<<a, k>>] = next(a, k)
    <2>1. <<a, k>> \in A \X (0 + 1..n)
      BY <1>1, <1>5
    <2> QED
      BY <2>1
  <1>6. PICK f \in [0..n -> A] : Unfolds(f, 0, n, value, step)
    <2> HIDE DEF step
    <2> QED
      BY <1>1, <1>4, Recursion
  <1>7. \A k \in 0..n : f[k] = IF k = 0 THEN value ELSE next(f[k - 1], k)
    <2> HIDE DEF step
    <2>1. \A k \in 0..n : k # 0 => f[k - 1] \in A
      BY <1>1
    <2> QED
      BY <1>5, <1>6, <2>1 DEF Unfolds
  <1>8. Is(f)
    BY <1>7
  <1>9. R = [k \in 0..n |-> IF k = 0 THEN value ELSE next(R[k - 1], k)]
    <2> HIDE DEF Is
    <2>1. Is(R)
      BY <1>8
    <2> QED
      BY <2>1 DEF Is
  <1> HIDE DEF R
  <1>10. R[0] = value /\ \A k \in 1..n : R[k] = next(R[k - 1], k)
    BY <1>9, <1>1
  <1>11. \A k \in 0..n : R[k] \in A
    <2> DEFINE Good == {k \in 0..n : R[k] \in A}
    <2>1. 0 \in Good
      BY <1>1, <1>10
    <2>2. ASSUME NEW k \in 0..n - 1, k \in Good PROVE k + 1 \in Good
      <3>1. k + 1 \in 1..n /\ k + 1 \in 0..n /\ (k + 1) - 1 = k
        BY <1>1
      <3>2. R[k + 1] = next(R[k], k + 1) /\ R[k] \in A
        BY <1>10, <2>2, <3>1
      <3> QED
        BY <1>2, <3>1, <3>2
    <2>3. 0..n \subseteq Good
      <3> HIDE DEF Good
      <3> QED
        BY <1>1, <2>1, <2>2, IntervalInduction
    <2> QED
      BY <2>3
  <1>12. R \in [0..n -> A]
    BY <1>9, <1>11
  <1> QED
    BY <1>3, <1>10, <1>12 DEF A, n, next

(* The recursion of PayloadToOffset, likewise.                             *)
LEMMA OffsetUnfolds ==
  ASSUME NEW trits \in Seq(Trit)
  PROVE  \E R \in [0..Len(trits) -> Nat] :
           /\ PayloadToOffset(trits) = R[Len(trits)]
           /\ R[0] = 0
           /\ \A k \in 1..Len(trits) : R[k] = 3 * R[k - 1] + (trits[k] + 1)
  <1> DEFINE n == Len(trits)
             A == Nat
             next(s, k) == 3 * s + (trits[k] + 1)
             step == [p \in A \X (0 + 1..n) |-> next(p[1], p[2])]
             Is(f) == f = [k \in 0..n |-> IF k = 0 THEN 0 ELSE next(f[k - 1], k)]
             R == CHOOSE f : Is(f)
  <1>1. n \in Nat /\ n \in Int /\ 0 \in Int /\ 0 \in A
    OBVIOUS
  <1>2. \A a \in A, k \in 1..n : next(a, k) \in A
    <2>1. \A k \in 1..Len(trits) : trits[k] + 1 \in Nat
      BY DEF Trit
    <2> QED
      BY <2>1
  <1>3. PayloadToOffset(trits) = R[Len(trits)]
    BY DEF PayloadToOffset
  <1> HIDE DEF A, n, next
  <1>4. step \in [A \X (0 + 1..n) -> A]
    <2> SUFFICES ASSUME NEW p \in A \X (0 + 1..n) PROVE next(p[1], p[2]) \in A
      OBVIOUS
    <2>1. p[1] \in A /\ p[2] \in 1..n
      BY <1>1
    <2> QED
      BY <1>2, <2>1
  <1>5. ASSUME NEW a \in A, NEW k \in 0..n, k # 0 PROVE step[<<a, k>>] = next(a, k)
    <2>1. <<a, k>> \in A \X (0 + 1..n)
      BY <1>1, <1>5
    <2> QED
      BY <2>1
  <1>6. PICK f \in [0..n -> A] : Unfolds(f, 0, n, 0, step)
    <2> HIDE DEF step
    <2> QED
      BY <1>1, <1>4, Recursion
  <1>7. \A k \in 0..n : f[k] = IF k = 0 THEN 0 ELSE next(f[k - 1], k)
    <2> HIDE DEF step
    <2>1. \A k \in 0..n : k # 0 => f[k - 1] \in A
      BY <1>1
    <2> QED
      BY <1>5, <1>6, <2>1 DEF Unfolds
  <1>8. Is(f)
    BY <1>7
  <1>9. R = [k \in 0..n |-> IF k = 0 THEN 0 ELSE next(R[k - 1], k)]
    <2> HIDE DEF Is
    <2>1. Is(R)
      BY <1>8
    <2> QED
      BY <2>1 DEF Is
  <1> HIDE DEF R
  <1>10. R[0] = 0 /\ \A k \in 1..n : R[k] = next(R[k - 1], k)
    BY <1>9, <1>1
  <1>11. \A k \in 0..n : R[k] \in A
    <2> DEFINE Good == {k \in 0..n : R[k] \in A}
    <2>1. 0 \in Good
      BY <1>1, <1>10
    <2>2. ASSUME NEW k \in 0..n - 1, k \in Good PROVE k + 1 \in Good
      <3>1. k + 1 \in 1..n /\ k + 1 \in 0..n /\ (k + 1) - 1 = k
        BY <1>1
      <3>2. R[k + 1] = next(R[k], k + 1) /\ R[k] \in A
        BY <1>10, <2>2, <3>1
      <3> QED
        BY <1>2, <3>1, <3>2
    <2>3. 0..n \subseteq Good
      <3> HIDE DEF Good
      <3> QED
        BY <1>1, <2>1, <2>2, IntervalInduction
    <2> QED
      BY <2>3
  <1>12. R \in [0..n -> A]
    BY <1>9, <1>11
  <1> QED
    BY <1>3, <1>10, <1>12 DEF A, n, next

(* The recursion of SymbolSum, likewise.                                   *)
LEMMA SumUnfolds ==
  ASSUME NEW symbol \in Seq(Tryte)
  PROVE  \E R \in [0..Len(symbol) -> Int] :
           /\ SymbolSum(symbol) = R[Len(symbol)]
           /\ R[0] = 0
           /\ \A k \in 1..Len(symbol) : R[k] = R[k - 1] + BalancedSum(symbol[k])
  <1> DEFINE n == Len(symbol)
             A == Int
             next(s, k) == s + BalancedSum(symbol[k])
             step == [p \in A \X (0 + 1..n) |-> next(p[1], p[2])]
             Is(f) == f = [k \in 0..n |-> IF k = 0 THEN 0 ELSE next(f[k - 1], k)]
             R == CHOOSE f : Is(f)
  <1>1. n \in Nat /\ n \in Int /\ 0 \in Int /\ 0 \in A
    OBVIOUS
  <1>2. \A a \in A, k \in 1..n : next(a, k) \in A
    <2>1. \A k \in 1..Len(symbol) : BalancedSum(symbol[k]) \in Int
      BY BalancedSumIs
    <2> QED
      BY <2>1
  <1>3. SymbolSum(symbol) = R[Len(symbol)]
    BY DEF SymbolSum
  <1> HIDE DEF A, n, next
  <1>4. step \in [A \X (0 + 1..n) -> A]
    <2> SUFFICES ASSUME NEW p \in A \X (0 + 1..n) PROVE next(p[1], p[2]) \in A
      OBVIOUS
    <2>1. p[1] \in A /\ p[2] \in 1..n
      BY <1>1
    <2> QED
      BY <1>2, <2>1
  <1>5. ASSUME NEW a \in A, NEW k \in 0..n, k # 0 PROVE step[<<a, k>>] = next(a, k)
    <2>1. <<a, k>> \in A \X (0 + 1..n)
      BY <1>1, <1>5
    <2> QED
      BY <2>1
  <1>6. PICK f \in [0..n -> A] : Unfolds(f, 0, n, 0, step)
    <2> HIDE DEF step
    <2> QED
      BY <1>1, <1>4, Recursion
  <1>7. \A k \in 0..n : f[k] = IF k = 0 THEN 0 ELSE next(f[k - 1], k)
    <2> HIDE DEF step
    <2>1. \A k \in 0..n : k # 0 => f[k - 1] \in A
      BY <1>1
    <2> QED
      BY <1>5, <1>6, <2>1 DEF Unfolds
  <1>8. Is(f)
    BY <1>7
  <1>9. R = [k \in 0..n |-> IF k = 0 THEN 0 ELSE next(R[k - 1], k)]
    <2> HIDE DEF Is
    <2>1. Is(R)
      BY <1>8
    <2> QED
      BY <2>1 DEF Is
  <1> HIDE DEF R
  <1>10. R[0] = 0 /\ \A k \in 1..n : R[k] = next(R[k - 1], k)
    BY <1>9, <1>1
  <1>11. \A k \in 0..n : R[k] \in A
    <2> DEFINE Good == {k \in 0..n : R[k] \in A}
    <2>1. 0 \in Good
      BY <1>1, <1>10
    <2>2. ASSUME NEW k \in 0..n - 1, k \in Good PROVE k + 1 \in Good
      <3>1. k + 1 \in 1..n /\ k + 1 \in 0..n /\ (k + 1) - 1 = k
        BY <1>1
      <3>2. R[k + 1] = next(R[k], k + 1) /\ R[k] \in A
        BY <1>10, <2>2, <3>1
      <3> QED
        BY <1>2, <3>1, <3>2
    <2>3. 0..n \subseteq Good
      <3> HIDE DEF Good
      <3> QED
        BY <1>1, <2>1, <2>2, IntervalInduction
    <2> QED
      BY <2>3
  <1>12. R \in [0..n -> A]
    BY <1>9, <1>11
  <1> QED
    BY <1>3, <1>10, <1>12 DEF A, n, next

(* The recursion of Joined, likewise.                                      *)
LEMMA JoinedUnfolds ==
  ASSUME NEW D, NEW symbols \in Seq(Seq(D))
  PROVE  \E R \in [0..Len(symbols) -> Seq(D)] :
           /\ Joined(symbols) = R[Len(symbols)]
           /\ R[0] = <<>>
           /\ \A k \in 1..Len(symbols) : R[k] = R[k - 1] \o symbols[k]
  <1> DEFINE n == Len(symbols)
             A == Seq(D)
             next(s, k) == s \o symbols[k]
             step == [p \in A \X (0 + 1..n) |-> next(p[1], p[2])]
             Is(f) == f = [k \in 0..n |-> IF k = 0 THEN <<>> ELSE next(f[k - 1], k)]
             R == CHOOSE f : Is(f)
  <1>1. n \in Nat /\ n \in Int /\ 0 \in Int /\ <<>> \in A
    OBVIOUS
  <1>2. \A a \in A, k \in 1..n : next(a, k) \in A
    OBVIOUS
  <1>3. Joined(symbols) = R[Len(symbols)]
    BY DEF Joined
  <1> HIDE DEF A, n, next
  <1>4. step \in [A \X (0 + 1..n) -> A]
    <2> SUFFICES ASSUME NEW p \in A \X (0 + 1..n) PROVE next(p[1], p[2]) \in A
      OBVIOUS
    <2>1. p[1] \in A /\ p[2] \in 1..n
      BY <1>1
    <2> QED
      BY <1>2, <2>1
  <1>5. ASSUME NEW a \in A, NEW k \in 0..n, k # 0 PROVE step[<<a, k>>] = next(a, k)
    <2>1. <<a, k>> \in A \X (0 + 1..n)
      BY <1>1, <1>5
    <2> QED
      BY <2>1
  <1>6. PICK f \in [0..n -> A] : Unfolds(f, 0, n, <<>>, step)
    <2> HIDE DEF step
    <2> QED
      BY <1>1, <1>4, Recursion
  <1>7. \A k \in 0..n : f[k] = IF k = 0 THEN <<>> ELSE next(f[k - 1], k)
    <2> HIDE DEF step
    <2>1. \A k \in 0..n : k # 0 => f[k - 1] \in A
      BY <1>1
    <2> QED
      BY <1>5, <1>6, <2>1 DEF Unfolds
  <1>8. Is(f)
    BY <1>7
  <1>9. R = [k \in 0..n |-> IF k = 0 THEN <<>> ELSE next(R[k - 1], k)]
    <2> HIDE DEF Is
    <2>1. Is(R)
      BY <1>8
    <2> QED
      BY <2>1 DEF Is
  <1> HIDE DEF R
  <1>10. R[0] = <<>> /\ \A k \in 1..n : R[k] = next(R[k - 1], k)
    BY <1>9, <1>1
  <1>11. \A k \in 0..n : R[k] \in A
    <2> DEFINE Good == {k \in 0..n : R[k] \in A}
    <2>1. 0 \in Good
      BY <1>1, <1>10
    <2>2. ASSUME NEW k \in 0..n - 1, k \in Good PROVE k + 1 \in Good
      <3>1. k + 1 \in 1..n /\ k + 1 \in 0..n /\ (k + 1) - 1 = k
        BY <1>1
      <3>2. R[k + 1] = next(R[k], k + 1) /\ R[k] \in A
        BY <1>10, <2>2, <3>1
      <3> QED
        BY <1>2, <3>1, <3>2
    <2>3. 0..n \subseteq Good
      <3> HIDE DEF Good
      <3> QED
        BY <1>1, <2>1, <2>2, IntervalInduction
    <2> QED
      BY <2>3
  <1>12. R \in [0..n -> A]
    BY <1>9, <1>11
  <1> QED
    BY <1>3, <1>10, <1>12 DEF A, n, next

-----------------------------------------------------------------------------
(* Sums and concatenations.                                                *)

LEMMA SumOfNone == SymbolSum(<<>>) = 0
  <1>1. <<>> \in Seq(Tryte) /\ Len(<<>>) = 0
    OBVIOUS
  <1>2. PICK R \in [0..Len(<<>>) -> Int] : SymbolSum(<<>>) = R[Len(<<>>)] /\ R[0] = 0
    BY <1>1, SumUnfolds
  <1> QED
    BY <1>1, <1>2

(* One tryte more adds its sum.                                            *)
LEMMA SumOfAppend ==
  ASSUME NEW s \in Seq(Tryte), NEW t \in Tryte
  PROVE  /\ SymbolSum(s) \in Int /\ SymbolSum(Append(s, t)) \in Int
         /\ SymbolSum(Append(s, t)) = SymbolSum(s) + BalancedSum(t)
  <1>1. PICK n \in Nat : n = Len(s)
    <2>1. Len(s) \in Nat
      OBVIOUS
    <2> QED
      BY <2>1
  <1>2. PICK a \in Seq(Tryte) : a = Append(s, t)
    <2>1. Append(s, t) \in Seq(Tryte)
      BY AppendProperties
    <2> QED
      BY <2>1
  <1>3. Len(a) = n + 1 /\ a[n + 1] = t /\ \A k \in 1..n : a[k] = s[k]
    BY <1>1, <1>2
  <1>4. PICK f \in [0..n -> Int] :
          /\ SymbolSum(s) = f[n] /\ f[0] = 0
          /\ \A k \in 1..n : f[k] = f[k - 1] + BalancedSum(s[k])
    BY <1>1, SumUnfolds
  <1>5. PICK g \in [0..n + 1 -> Int] :
          /\ SymbolSum(a) = g[n + 1] /\ g[0] = 0
          /\ \A k \in 1..n + 1 : g[k] = g[k - 1] + BalancedSum(a[k])
    BY <1>3, SumUnfolds
  <1>6. ASSUME NEW k \in 0..n - 1, f[k] = g[k] PROVE f[k + 1] = g[k + 1]
    <2>1. k + 1 \in 1..n /\ k + 1 \in 1..n + 1 /\ (k + 1) - 1 = k
      OBVIOUS
    <2> QED
      BY <1>3, <1>4, <1>5, <1>6, <2>1
  <1>7. SameSteps(f, g, 0, n)
    BY <1>4, <1>5, <1>6 DEF SameSteps
  <1>8. SameValues(f, g, 0, n)
    <2>1. 0 \in Int /\ n \in Int
      OBVIOUS
    <2> QED
      BY <1>7, <2>1, SameStepsSameValues
  <1>9. n \in 0..n /\ n + 1 \in 1..n + 1 /\ (n + 1) - 1 = n /\ n + 1 \in 0..n + 1
    OBVIOUS
  <1>10. f[n] = g[n]
    BY <1>8, <1>9 DEF SameValues
  <1> QED
    BY <1>2, <1>3, <1>4, <1>5, <1>9, <1>10

(* The sum of two sequences of trytes, one after the other.                *)
LEMMA SumOfConcat ==
  ASSUME NEW s \in Seq(Tryte), NEW u \in Seq(Tryte)
  PROVE  /\ SymbolSum(s) \in Int /\ SymbolSum(u) \in Int
         /\ SymbolSum(s \o u) = SymbolSum(s) + SymbolSum(u)
  <1> DEFINE Good == {w \in Seq(Tryte) : /\ SymbolSum(s) \in Int /\ SymbolSum(w) \in Int
                                         /\ SymbolSum(s \o w) = SymbolSum(s) + SymbolSum(w)}
  <1>1. <<>> \in Good
    <2>1. PICK e \in Seq(Tryte) : e = <<>>
      <3>1. <<>> \in Seq(Tryte)
        BY EmptySeq
      <3> QED
        BY <3>1
    <2>2. SymbolSum(e) = 0 /\ s \o e = s
      BY <2>1, SumOfNone
    <2>3. SymbolSum(s) \in Int
      <3>1. PICK R \in [0..Len(s) -> Int] : SymbolSum(s) = R[Len(s)]
        BY SumUnfolds
      <3> QED
        BY <3>1
    <2> QED
      BY <2>1, <2>2, <2>3
  <1>2. ASSUME NEW w \in Seq(Tryte), w \in Good, NEW t \in Tryte PROVE Append(w, t) \in Good
    <2>1. PICK a \in Seq(Tryte) : a = Append(w, t)
      <3>1. Append(w, t) \in Seq(Tryte)
        BY AppendProperties
      <3> QED
        BY <3>1
    <2>2. PICK b \in Seq(Tryte) : b = s \o w
      <3>1. s \o w \in Seq(Tryte)
        BY ConcatProperties
      <3> QED
        BY <3>1
    <2>3. s \o a = Append(b, t)
      BY <2>1, <2>2
    <2>4. SymbolSum(a) = SymbolSum(w) + BalancedSum(t) /\ SymbolSum(a) \in Int
      BY <2>1, SumOfAppend
    <2>5. SymbolSum(Append(b, t)) = SymbolSum(b) + BalancedSum(t)
      BY SumOfAppend
    <2>6. SymbolSum(b) = SymbolSum(s) + SymbolSum(w) /\ SymbolSum(s) \in Int /\ SymbolSum(w) \in Int
      BY <1>2, <2>2
    <2>7. BalancedSum(t) \in Int
      BY BalancedSumIs
    <2>8. SymbolSum(s \o a) = SymbolSum(s) + SymbolSum(a)
      BY <2>3, <2>4, <2>5, <2>6, <2>7
    <2> QED
      BY <2>1, <2>4, <2>6, <2>8
  <1>3. Seq(Tryte) \subseteq Good
    <2> HIDE DEF Good
    <2> QED
      BY <1>1, <1>2, SequenceInduction
  <1> QED
    BY <1>3

LEMMA JoinedOfNone == Joined(<<>>) = <<>>
  <1>1. <<>> \in Seq(Seq({})) /\ Len(<<>>) = 0
    OBVIOUS
  <1>2. PICK R \in [0..Len(<<>>) -> Seq({})] : Joined(<<>>) = R[Len(<<>>)] /\ R[0] = <<>>
    BY <1>1, JoinedUnfolds
  <1> QED
    BY <1>1, <1>2

(* One line more.                                                          *)
LEMMA JoinedOfAppend ==
  ASSUME NEW D, NEW ss \in Seq(Seq(D)), NEW s \in Seq(D)
  PROVE  /\ Joined(ss) \in Seq(D)
         /\ Joined(Append(ss, s)) = Joined(ss) \o s
  <1>1. PICK n \in Nat : n = Len(ss)
    <2>1. Len(ss) \in Nat
      OBVIOUS
    <2> QED
      BY <2>1
  <1>2. PICK a \in Seq(Seq(D)) : a = Append(ss, s)
    <2>1. Append(ss, s) \in Seq(Seq(D))
      BY AppendProperties
    <2> QED
      BY <2>1
  <1>3. Len(a) = n + 1 /\ a[n + 1] = s /\ \A k \in 1..n : a[k] = ss[k]
    BY <1>1, <1>2
  <1>4. PICK f \in [0..n -> Seq(D)] :
          /\ Joined(ss) = f[n] /\ f[0] = <<>>
          /\ \A k \in 1..n : f[k] = f[k - 1] \o ss[k]
    BY <1>1, JoinedUnfolds
  <1>5. PICK g \in [0..n + 1 -> Seq(D)] :
          /\ Joined(a) = g[n + 1] /\ g[0] = <<>>
          /\ \A k \in 1..n + 1 : g[k] = g[k - 1] \o a[k]
    <2>1. \E R \in [0..Len(a) -> Seq(D)] :
            /\ Joined(a) = R[Len(a)] /\ R[0] = <<>>
            /\ \A k \in 1..Len(a) : R[k] = R[k - 1] \o a[k]
      BY JoinedUnfolds
    <2>2. PICK m \in Nat : m = Len(a) /\ m = n + 1
      BY <1>3
    <2>3. \E R \in [0..m -> Seq(D)] :
            /\ Joined(a) = R[m] /\ R[0] = <<>>
            /\ \A k \in 1..m : R[k] = R[k - 1] \o a[k]
      BY <2>1, <2>2
    <2> QED
      BY <2>2, <2>3
  <1>6. ASSUME NEW k \in 0..n - 1, f[k] = g[k] PROVE f[k + 1] = g[k + 1]
    <2>1. k + 1 \in 1..n /\ k + 1 \in 1..n + 1 /\ (k + 1) - 1 = k
      OBVIOUS
    <2> QED
      BY <1>3, <1>4, <1>5, <1>6, <2>1
  <1>7. SameSteps(f, g, 0, n)
    BY <1>4, <1>5, <1>6 DEF SameSteps
  <1>8. SameValues(f, g, 0, n)
    <2>1. 0 \in Int /\ n \in Int
      OBVIOUS
    <2> QED
      BY <1>7, <2>1, SameStepsSameValues
  <1>9. n \in 0..n /\ n + 1 \in 1..n + 1 /\ (n + 1) - 1 = n /\ n + 1 \in 0..n + 1
    OBVIOUS
  <1>10. f[n] = g[n]
    BY <1>8, <1>9 DEF SameValues
  <1> QED
    BY <1>2, <1>3, <1>4, <1>5, <1>9, <1>10

(* Lines in front of lines.                                                *)
LEMMA JoinedOfConcat ==
  ASSUME NEW D, NEW ss \in Seq(Seq(D)), NEW us \in Seq(Seq(D))
  PROVE  /\ Joined(ss) \in Seq(D) /\ Joined(us) \in Seq(D)
         /\ Joined(ss \o us) = Joined(ss) \o Joined(us)
  <1> DEFINE Good == {ws \in Seq(Seq(D)) : /\ Joined(ss) \in Seq(D) /\ Joined(ws) \in Seq(D)
                                           /\ Joined(ss \o ws) = Joined(ss) \o Joined(ws)}
  <1>0. \A ws \in Seq(Seq(D)) : Joined(ws) \in Seq(D)
    <2>1. PICK s \in Seq(D) : s = <<>>
      <3>1. <<>> \in Seq(D)
        BY EmptySeq
      <3> QED
        BY <3>1
    <2> QED
      BY JoinedOfAppend
  <1>1. <<>> \in Good
    <2>1. PICK e \in Seq(Seq(D)) : e = <<>>
      <3>1. <<>> \in Seq(Seq(D))
        BY EmptySeq
      <3> QED
        BY <3>1
    <2>2. Joined(e) = <<>> /\ ss \o e = ss
      BY <2>1, JoinedOfNone
    <2>3. Joined(ss) \o Joined(e) = Joined(ss)
      BY <1>0, <2>2
    <2> QED
      BY <1>0, <2>1, <2>2, <2>3
  <1>2. ASSUME NEW ws \in Seq(Seq(D)), ws \in Good, NEW s \in Seq(D) PROVE Append(ws, s) \in Good
    <2>1. PICK a \in Seq(Seq(D)) : a = Append(ws, s)
      <3>1. Append(ws, s) \in Seq(Seq(D))
        BY AppendProperties
      <3> QED
        BY <3>1
    <2>2. PICK b \in Seq(Seq(D)) : b = ss \o ws
      <3>1. ss \o ws \in Seq(Seq(D))
        BY ConcatProperties
      <3> QED
        BY <3>1
    <2>3. ss \o a = Append(b, s)
      BY SMTT(30), <2>1, <2>2
    <2>4. Joined(a) = Joined(ws) \o s
      BY <2>1, JoinedOfAppend
    <2>5. Joined(Append(b, s)) = Joined(b) \o s
      BY JoinedOfAppend
    <2>6. Joined(b) = Joined(ss) \o Joined(ws)
      BY <1>2, <2>2
    <2>7. PICK x \in Seq(D), y \in Seq(D) : x = Joined(ss) /\ y = Joined(ws)
      BY <1>0
    <2>8. (x \o y) \o s = x \o (y \o s)
      BY ConcatAssociative, SMTT(30)
    <2>9. Joined(ss \o a) = Joined(ss) \o Joined(a)
      BY <2>3, <2>4, <2>5, <2>6, <2>7, <2>8
    <2> QED
      BY <1>0, <2>1, <2>9
  <1>3. Seq(Seq(D)) \subseteq Good
    <2> HIDE DEF Good
    <2> QED
      BY <1>1, <1>2, SequenceInduction
  <1> QED
    BY <1>3

-----------------------------------------------------------------------------
(* The layout of a symbol.                                                 *)

TritsOfMarker(n, k) == IF k = 1 THEN n ELSE IF n = 4 /\ k = 2 THEN 2 ELSE 1
TritAt(n, k, j) == IF k = 1 THEN (IF j = n THEN -1 ELSE 1) ELSE IF k = n THEN -1 ELSE 0

(* The trits of the markers, by place.                                     *)
LEMMA MarkerIs ==
  ASSUME NEW n \in 2..4, NEW k \in 1..n
  PROVE  /\ Marker(n, k) \in Seq(Trit)
         /\ Len(Marker(n, k)) = TritsOfMarker(n, k)
         /\ \A j \in 1..TritsOfMarker(n, k) : Marker(n, k)[j] = TritAt(n, k, j)
  <1>1. CASE k = 1
    <2>1. PICK m : m = [j \in 1..n |-> IF j = n THEN -1 ELSE 1]
      OBVIOUS
    <2>2. Marker(n, k) = m
      BY <1>1, <2>1 DEF Marker
    <2>3. m \in [1..n -> Trit]
      BY <2>1 DEF Trit
    <2>4. m \in Seq(Trit) /\ Len(m) = n
      BY <2>3
    <2> QED
      BY <1>1, <2>1, <2>2, <2>4 DEF TritsOfMarker, TritAt
  <1>2. CASE k > 1 /\ k = n
    <2>1. Marker(n, k) = <<-1>>
      BY <1>2 DEF Marker
    <2>2. <<-1>> \in Seq(Trit) /\ Len(<<-1>>) = 1 /\ <<-1>>[1] = -1
      BY DEF Trit
    <2>3. TritsOfMarker(n, k) = 1 /\ TritAt(n, k, 1) = -1
      BY <1>2 DEF TritsOfMarker, TritAt
    <2> QED
      BY <2>1, <2>2, <2>3
  <1>3. CASE n = 4 /\ k = 2
    <2>1. Marker(n, k) = <<0, 0>>
      BY <1>3 DEF Marker
    <2>2. <<0, 0>> \in Seq(Trit) /\ Len(<<0, 0>>) = 2 /\ <<0, 0>>[1] = 0 /\ <<0, 0>>[2] = 0
      BY DEF Trit
    <2>3. TritsOfMarker(n, k) = 2 /\ TritAt(n, k, 1) = 0 /\ TritAt(n, k, 2) = 0
      BY <1>3 DEF TritsOfMarker, TritAt
    <2>4. 1..2 = {1, 2}
      OBVIOUS
    <2> QED
      BY <2>1, <2>2, <2>3, <2>4
  <1>4. CASE k # 1 /\ k # n /\ ~(n = 4 /\ k = 2)
    <2>1. Marker(n, k) = <<0>>
      BY <1>4 DEF Marker
    <2>2. <<0>> \in Seq(Trit) /\ Len(<<0>>) = 1 /\ <<0>>[1] = 0
      BY DEF Trit
    <2>3. TritsOfMarker(n, k) = 1 /\ TritAt(n, k, 1) = 0
      BY <1>4 DEF TritsOfMarker, TritAt
    <2> QED
      BY <2>1, <2>2, <2>3
  <1> QED
    BY <1>1, <1>2, <1>3, <1>4

(* What a tryte has left for the payload.                                  *)
LEMMA RoomIs ==
  ASSUME NEW checked \in BOOLEAN, NEW n \in 2..4, NEW k \in 1..n
  PROVE  /\ CheckTrits(checked) \in {0, 1}
         /\ Room(checked, n, k) = 6 - TritsOfMarker(n, k) - (IF k = 1 THEN CheckTrits(checked) ELSE 0)
         /\ Room(checked, n, k) \in 1..5
  <1>1. CheckTrits(checked) \in {0, 1}
    BY DEF CheckTrits
  <1>2. Len(Marker(n, k)) = TritsOfMarker(n, k)
    BY MarkerIs
  <1>3. Room(checked, n, k) = 6 - TritsOfMarker(n, k) - (IF k = 1 THEN CheckTrits(checked) ELSE 0)
    BY <1>2 DEF Room, TryteLength
  <1>4. TritsOfMarker(n, k) \in 1..4 /\ (k # 1 => TritsOfMarker(n, k) \in 1..2)
    BY DEF TritsOfMarker
  <1> QED
    BY <1>1, <1>3, <1>4

(* The recursion of RoomUpTo, likewise.                                    *)
LEMMA RoomUnfolds ==
  ASSUME NEW checked \in BOOLEAN, NEW form \in 2..4, NEW last \in 0..form
  PROVE  \E R \in [0..last -> Int] :
           /\ RoomUpTo(checked, form, last) = R[last]
           /\ R[0] = 0
           /\ \A k \in 1..last : R[k] = R[k - 1] + Room(checked, form, k)
  <1> DEFINE n == last
             A == Int
             next(s, k) == s + Room(checked, form, k)
             step == [p \in A \X (0 + 1..n) |-> next(p[1], p[2])]
             Is(f) == f = [k \in 0..n |-> IF k = 0 THEN 0 ELSE next(f[k - 1], k)]
             R == CHOOSE f : Is(f)
  <1>1. n \in Nat /\ n \in Int /\ 0 \in Int /\ 0 \in A
    OBVIOUS
  <1>2. \A a \in A, k \in 1..n : next(a, k) \in A
    <2>1. ASSUME NEW a \in Int, NEW k \in 1..last PROVE a + Room(checked, form, k) \in Int
      <3>1. k \in 1..form
        OBVIOUS
      <3>2. Room(checked, form, k) \in 1..5
        BY <3>1, RoomIs
      <3> QED
        BY <3>2
    <2> QED
      BY <2>1
  <1>3. RoomUpTo(checked, form, last) = R[last]
    BY DEF RoomUpTo
  <1> HIDE DEF A, n, next
  <1>4. step \in [A \X (0 + 1..n) -> A]
    <2> SUFFICES ASSUME NEW p \in A \X (0 + 1..n) PROVE next(p[1], p[2]) \in A
      OBVIOUS
    <2>1. p[1] \in A /\ p[2] \in 1..n
      BY <1>1
    <2> QED
      BY <1>2, <2>1
  <1>5. ASSUME NEW a \in A, NEW k \in 0..n, k # 0 PROVE step[<<a, k>>] = next(a, k)
    <2>1. <<a, k>> \in A \X (0 + 1..n)
      BY <1>1, <1>5
    <2> QED
      BY <2>1
  <1>6. PICK f \in [0..n -> A] : Unfolds(f, 0, n, 0, step)
    <2> HIDE DEF step
    <2> QED
      BY <1>1, <1>4, Recursion
  <1>7. \A k \in 0..n : f[k] = IF k = 0 THEN 0 ELSE next(f[k - 1], k)
    <2> HIDE DEF step
    <2>1. \A k \in 0..n : k # 0 => f[k - 1] \in A
      BY <1>1
    <2> QED
      BY <1>5, <1>6, <2>1 DEF Unfolds
  <1>8. Is(f)
    BY <1>7
  <1>9. R = [k \in 0..n |-> IF k = 0 THEN 0 ELSE next(R[k - 1], k)]
    <2> HIDE DEF Is
    <2>1. Is(R)
      BY <1>8
    <2> QED
      BY <2>1 DEF Is
  <1> HIDE DEF R
  <1>10. R[0] = 0 /\ \A k \in 1..n : R[k] = next(R[k - 1], k)
    BY <1>9, <1>1
  <1>11. \A k \in 0..n : R[k] \in A
    <2> DEFINE Good == {k \in 0..n : R[k] \in A}
    <2>1. 0 \in Good
      BY <1>1, <1>10
    <2>2. ASSUME NEW k \in 0..n - 1, k \in Good PROVE k + 1 \in Good
      <3>1. k + 1 \in 1..n /\ k + 1 \in 0..n /\ (k + 1) - 1 = k
        BY <1>1
      <3>2. R[k + 1] = next(R[k], k + 1) /\ R[k] \in A
        BY <1>10, <2>2, <3>1
      <3> QED
        BY <1>2, <3>1, <3>2
    <2>3. 0..n \subseteq Good
      <3> HIDE DEF Good
      <3> QED
        BY <1>1, <2>1, <2>2, IntervalInduction
    <2> QED
      BY <2>3
  <1>12. R \in [0..n -> A]
    BY <1>9, <1>11
  <1> QED
    BY <1>3, <1>10, <1>12 DEF A, n, next

(* The payload trits of the first k trytes of a symbol of n.               *)
RoomSum(checked, n, k) ==
  IF k = 0 THEN 0
  ELSE ((1 - n) - CheckTrits(checked)) + 5 * k - (IF n = 4 /\ k >= 2 THEN 1 ELSE 0)

(* The rooms of a symbol, in a closed form, and that they follow on one    *)
(* another.                                                                *)
LEMMA RoomUpToIs ==
  ASSUME NEW checked \in BOOLEAN, NEW n \in 2..4
  PROVE  /\ \A k \in 0..n : RoomUpTo(checked, n, k) = RoomSum(checked, n, k)
         /\ \A k \in 0..n : RoomSum(checked, n, k) \in 0..RoomSum(checked, n, n)
         /\ \A k \in 1..n : RoomSum(checked, n, k) = RoomSum(checked, n, k - 1) + Room(checked, n, k)
  <1>1. CheckTrits(checked) \in {0, 1}
    BY DEF CheckTrits
  <1>2. \A k \in 1..n :
          Room(checked, n, k) = 6 - TritsOfMarker(n, k) - (IF k = 1 THEN CheckTrits(checked) ELSE 0)
    BY RoomIs
  <1>3. ASSUME NEW k \in 1..n
        PROVE  RoomSum(checked, n, k) = RoomSum(checked, n, k - 1) + Room(checked, n, k)
    BY <1>1, <1>2 DEF RoomSum, TritsOfMarker
  <1>4. \A k \in 0..n : RoomSum(checked, n, k) \in 0..RoomSum(checked, n, n)
    BY <1>1 DEF RoomSum
  <1>5. ASSUME NEW last \in 0..n PROVE RoomUpTo(checked, n, last) = RoomSum(checked, n, last)
    <2>1. PICK R \in [0..last -> Int] :
            /\ RoomUpTo(checked, n, last) = R[last] /\ R[0] = 0
            /\ \A k \in 1..last : R[k] = R[k - 1] + Room(checked, n, k)
      BY RoomUnfolds
    <2> DEFINE Good == {k \in 0..last : R[k] = RoomSum(checked, n, k)}
    <2>2. 0 \in Good
      <3>1. 0 \in 0..last
        OBVIOUS
      <3> QED
        BY <2>1, <3>1 DEF RoomSum
    <2>3. ASSUME NEW k \in 0..last - 1, k \in Good PROVE k + 1 \in Good
      <3>1. k + 1 \in 1..last /\ k + 1 \in 1..n /\ k + 1 \in 0..last /\ (k + 1) - 1 = k
        OBVIOUS
      <3>2. R[k + 1] = R[k] + Room(checked, n, k + 1)
        BY <2>1, <3>1
      <3>3. RoomSum(checked, n, k + 1) = RoomSum(checked, n, k) + Room(checked, n, k + 1)
        BY <1>3, <3>1
      <3> QED
        BY <2>3, <3>1, <3>2, <3>3
    <2>4. 0..last \subseteq Good
      <3> HIDE DEF Good
      <3>1. 0 \in Int /\ last \in Int
        OBVIOUS
      <3> QED
        BY <2>2, <2>3, <3>1, IntervalInduction
    <2> QED
      BY <2>1, <2>4
  <1> QED
    BY <1>3, <1>4, <1>5

(* The digits taken one by one, the last first.                            *)
Rests(rest, value, count) ==
  /\ rest \in [0..count -> Nat] /\ rest[0] = value
  /\ \A k \in 1..count : rest[k] = rest[k - 1] \div 3

(* ExtractTrits gives as many trits as it is asked for.                    *)
LEMMA ExtractTritsIs ==
  ASSUME NEW value \in Nat, NEW count \in Nat
  PROVE  /\ ExtractTrits(value, count) \in Seq(Trit)
         /\ Len(ExtractTrits(value, count)) = count
         /\ \E rest : /\ Rests(rest, value, count)
                      /\ \A j \in 1..count : ExtractTrits(value, count)[j] = (rest[count - j] % 3) - 1
  <1>1. PICK R \in [0..count -> Nat] :
          /\ ExtractTrits(value, count) = [j \in 1..count |-> (R[count - j] % 3) - 1]
          /\ R[0] = value /\ \A k \in 1..count : R[k] = R[k - 1] \div 3
    BY RestUnfolds
  <1>2. PICK x : x = ExtractTrits(value, count)
    OBVIOUS
  <1>3. ASSUME NEW j \in 1..count PROVE (R[count - j] % 3) - 1 \in Trit
    <2>1. count - j \in 0..count
      OBVIOUS
    <2>2. PICK r \in Nat : r = R[count - j]
      BY <2>1
    <2>3. (r % 3) - 1 \in {-1, 0, 1}
      OBVIOUS
    <2> QED
      BY <2>2, <2>3 DEF Trit
  <1>4. x = [j \in 1..count |-> (R[count - j] % 3) - 1]
    BY <1>1, <1>2
  <1>5. x \in [1..count -> Trit]
    BY <1>3, <1>4
  <1>6. x \in Seq(Trit) /\ Len(x) = count
    BY <1>5
  <1>7. Rests(R, value, count)
    BY <1>1 DEF Rests
  <1>8. \A j \in 1..count : x[j] = (R[count - j] % 3) - 1
    BY <1>4
  <1> QED
    BY <1>2, <1>6, <1>7, <1>8

-----------------------------------------------------------------------------
(* The check trit.                                                         *)

(* The check trit makes a sum divisible by three.                          *)
LEMMA CheckTritIs ==
  ASSUME NEW p \in Int
  PROVE  ComputeCrcBalanced(p) \in Trit /\ (p + ComputeCrcBalanced(p)) % 3 = 0
  <1>1. <<0, 1, -1>>[1] = 0 /\ <<0, 1, -1>>[2] = 1 /\ <<0, 1, -1>>[3] = -1
    OBVIOUS
  <1>2. (-p) % 3 \in {0, 1, 2}
    OBVIOUS
  <1>3. CASE (-p) % 3 = 0
    <2>1. ComputeCrcBalanced(p) = 0
      BY <1>1, <1>3 DEF ComputeCrcBalanced
    <2>2. (p + 0) % 3 = 0
      BY <1>3
    <2> QED
      BY <2>1, <2>2 DEF Trit
  <1>4. CASE (-p) % 3 = 1
    <2>1. ComputeCrcBalanced(p) = 1
      BY <1>1, <1>4 DEF ComputeCrcBalanced
    <2>2. (p + 1) % 3 = 0
      BY <1>4
    <2> QED
      BY <2>1, <2>2 DEF Trit
  <1>5. CASE (-p) % 3 = 2
    <2>1. ComputeCrcBalanced(p) = -1
      BY <1>1, <1>5 DEF ComputeCrcBalanced
    <2>2. (p + (-1)) % 3 = 0
      BY <1>5
    <2> QED
      BY <2>1, <2>2 DEF Trit
  <1> QED
    BY <1>2, <1>3, <1>4, <1>5

(* A sequence about one of its elements.                                   *)
IsSplit(s, k, a, b, D) ==
  /\ a \in Seq(D) /\ b \in Seq(D) /\ Len(a) = k - 1 /\ Len(b) = Len(s) - k
  /\ \A j \in 1..k - 1 : a[j] = s[j]
  /\ \A j \in 1..Len(s) - k : b[j] = s[k + j]
  /\ s = Append(a, s[k]) \o b

(* Every sequence is one about any of its elements.                        *)
LEMMA SplitAt ==
  ASSUME NEW D, NEW s \in Seq(D), NEW k \in 1..Len(s)
  PROVE  IsSplit(s, k, SubSeq(s, 1, k - 1), SubSeq(s, k + 1, Len(s)), D)
  <1>1. PICK n \in Nat : n = Len(s)
    OBVIOUS
  <1>2. PICK a \in Seq(D) : /\ a = SubSeq(s, 1, k - 1) /\ Len(a) = k - 1
                            /\ \A j \in 1..k - 1 : a[j] = s[j]
    <2>1. \A j \in 1..k - 1 : s[j] \in D
      OBVIOUS
    <2>2. /\ SubSeq(s, 1, k - 1) \in Seq(D) /\ Len(SubSeq(s, 1, k - 1)) = k - 1
          /\ \A j \in 1..k - 1 : SubSeq(s, 1, k - 1)[j] = s[j]
      BY <2>1, SubSeqProperties
    <2> QED
      BY <2>2
  <1>3. PICK b \in Seq(D) : /\ b = SubSeq(s, k + 1, n) /\ Len(b) = n - k
                            /\ \A j \in 1..n - k : b[j] = s[k + j]
    <2>1. \A j \in k + 1..n : s[j] \in D
      BY <1>1
    <2>2. /\ SubSeq(s, k + 1, n) \in Seq(D) /\ Len(SubSeq(s, k + 1, n)) = n - k
          /\ \A j \in 1..n - k : SubSeq(s, k + 1, n)[j] = s[k + j]
      BY <1>1, <2>1, SubSeqProperties
    <2> QED
      BY <2>2
  <1>4. PICK c \in Seq(D) : /\ c = Append(a, s[k]) /\ Len(c) = k /\ c[k] = s[k]
                            /\ \A j \in 1..k - 1 : c[j] = a[j]
    <2>1. s[k] \in D
      OBVIOUS
    <2>2. /\ Append(a, s[k]) \in Seq(D) /\ Len(Append(a, s[k])) = k
          /\ \A j \in 1..k - 1 : Append(a, s[k])[j] = a[j]
          /\ Append(a, s[k])[k] = s[k]
      BY <1>2, <2>1, AppendProperties
    <2> QED
      BY <2>2
  <1>5. PICK d \in Seq(D) : /\ d = c \o b /\ Len(d) = n
                            /\ \A j \in 1..n : d[j] = IF j <= k THEN c[j] ELSE b[j - k]
    <2>1. /\ c \o b \in Seq(D) /\ Len(c \o b) = Len(c) + Len(b)
          /\ \A j \in 1..Len(c) + Len(b) : (c \o b)[j] = IF j <= Len(c) THEN c[j] ELSE b[j - Len(c)]
      BY ConcatProperties
    <2>2. Len(c) = k /\ Len(c) + Len(b) = n
      BY <1>1, <1>3, <1>4
    <2> QED
      BY <2>1, <2>2
  <1>6. \A j \in 1..n : d[j] = s[j]
    <2> SUFFICES ASSUME NEW j \in 1..n PROVE d[j] = s[j]
      OBVIOUS
    <2>1. CASE j < k
      BY <1>1, <1>2, <1>4, <1>5, <2>1
    <2>2. CASE j = k
      BY <1>1, <1>4, <1>5, <2>2
    <2>3. CASE j > k
      <3>1. j - k \in 1..n - k /\ k + (j - k) = j
        BY <1>1, <2>3
      <3>2. d[j] = b[j - k]
        BY <1>5, <2>3
      <3>3. b[j - k] = s[k + (j - k)]
        BY <1>3, <3>1
      <3> QED
        BY <3>1, <3>2, <3>3
    <2> QED
      BY <1>1, <2>1, <2>2, <2>3
  <1>7. d = s
    BY <1>1, <1>5, <1>6, SeqEqual
  <1> QED
    BY <1>1, <1>2, <1>3, <1>4, <1>5, <1>7 DEF IsSplit

(* The sum of a symbol with one tryte exchanged.                           *)
LEMMA SumOfReplaced ==
  ASSUME NEW s \in Seq(Tryte), NEW k \in 1..Len(s), NEW t \in Tryte
  PROVE  /\ [s EXCEPT ![k] = t] \in Seq(Tryte)
         /\ SymbolSum(s) \in Int
         /\ SymbolSum([s EXCEPT ![k] = t]) = (SymbolSum(s) - BalancedSum(s[k])) + BalancedSum(t)
  <1>1. PICK n \in Nat : n = Len(s)
    OBVIOUS
  <1>2. PICK u \in Seq(Tryte) : u = [s EXCEPT ![k] = t]
    <2>1. [s EXCEPT ![k] = t] \in Seq(Tryte)
      BY ExceptSeq
    <2> QED
      BY <2>1
  <1>3. Len(u) = n /\ u[k] = t /\ \A j \in 1..n : j # k => u[j] = s[j]
    BY <1>1, <1>2
  <1>4. PICK a \in Seq(Tryte), b \in Seq(Tryte) :
          /\ Len(a) = k - 1 /\ Len(b) = n - k /\ s = Append(a, s[k]) \o b
          /\ \A j \in 1..k - 1 : a[j] = s[j]
          /\ \A j \in 1..n - k : b[j] = s[k + j]
    <2>1. IsSplit(s, k, SubSeq(s, 1, k - 1), SubSeq(s, k + 1, Len(s)), Tryte)
      BY SplitAt
    <2> QED
      BY <1>1, <2>1 DEF IsSplit
  <1>5. PICK c \in Seq(Tryte), d \in Seq(Tryte) :
          /\ Len(c) = k - 1 /\ Len(d) = n - k /\ u = Append(c, u[k]) \o d
          /\ \A j \in 1..k - 1 : c[j] = u[j]
          /\ \A j \in 1..n - k : d[j] = u[k + j]
    <2>1. k \in 1..Len(u)
      BY <1>1, <1>3
    <2>2. IsSplit(u, k, SubSeq(u, 1, k - 1), SubSeq(u, k + 1, Len(u)), Tryte)
      BY <2>1, SplitAt
    <2> QED
      BY <1>3, <2>2 DEF IsSplit
  <1>6. a = c
    <2>1. \A j \in 1..k - 1 : j \in 1..n /\ j # k
      BY <1>1
    <2>2. \A j \in 1..k - 1 : a[j] = c[j]
      BY <1>3, <1>4, <1>5, <2>1
    <2> QED
      BY <1>4, <1>5, <2>2, SeqEqual
  <1>7. b = d
    <2>1. \A j \in 1..n - k : k + j \in 1..n /\ k + j # k
      BY <1>1
    <2>2. \A j \in 1..n - k : b[j] = d[j]
      BY <1>3, <1>4, <1>5, <2>1
    <2> QED
      BY <1>4, <1>5, <2>2, SeqEqual
  <1>8. s[k] \in Tryte
    OBVIOUS
  <1>9. PICK e \in Seq(Tryte), f \in Seq(Tryte) : e = Append(a, s[k]) /\ f = Append(a, t)
    <2>1. Append(a, s[k]) \in Seq(Tryte) /\ Append(a, t) \in Seq(Tryte)
      BY <1>8, AppendProperties
    <2> QED
      BY <2>1
  <1>10. /\ SymbolSum(e) = SymbolSum(a) + BalancedSum(s[k])
         /\ SymbolSum(f) = SymbolSum(a) + BalancedSum(t) /\ SymbolSum(a) \in Int
    BY <1>8, <1>9, SumOfAppend
  <1>11. SymbolSum(e \o b) = SymbolSum(e) + SymbolSum(b) /\ SymbolSum(b) \in Int
    BY SumOfConcat
  <1>12. SymbolSum(f \o b) = SymbolSum(f) + SymbolSum(b)
    BY SumOfConcat
  <1>13. s = e \o b /\ u = f \o b
    BY <1>3, <1>4, <1>5, <1>6, <1>7, <1>9
  <1>14. BalancedSum(s[k]) \in Int /\ BalancedSum(t) \in Int
    BY <1>8, BalancedSumIs
  <1>15. SymbolSum(s) = SymbolSum(e) + SymbolSum(b) /\ SymbolSum(u) = SymbolSum(f) + SymbolSum(b)
    BY <1>11, <1>12, <1>13
  <1> QED
    BY SMTT(30), <1>2, <1>10, <1>11, <1>14, <1>15

(* A symbol and its check trit.                                            *)
IsCompleted(w, s, checked, n) ==
  /\ w \in Seq(Tryte) /\ Len(w) = n /\ CrcHolds(checked, w)
  /\ \A k \in 1..n : \A j \in 1..Len(s[k]) : w[k][j] = s[k][j]

(* Six trits are a tryte.                                                  *)
LEMMA TryteOfTrits ==
  ASSUME NEW t \in Seq(Trit), Len(t) = 6
  PROVE  t \in Tryte
  <1>1. t \in [1..Len(t) -> Trit]
    BY LenProperties
  <1> QED
    BY <1>1 DEF Tryte, TryteLength

(* WithCheckTrit adds nothing but the trit that completes the sum.         *)
LEMMA CheckTritCompletes ==
  ASSUME NEW checked \in BOOLEAN, NEW n \in Nat \ {0}, NEW s \in [1..n -> Seq(Trit)],
         \A k \in 2..n : Len(s[k]) = 6, Len(s[1]) = 6 - CheckTrits(checked)
  PROVE  IsCompleted(WithCheckTrit(checked, s), s, checked, n)
  <1>1. \A k \in 2..n : s[k] \in Tryte
    BY TryteOfTrits
  <1>2. 1 \in 1..n /\ s[1] \in Seq(Trit) /\ \A k \in 1..n : k # 1 => k \in 2..n
    OBVIOUS
  <1>3. CASE ~checked
    <2>1. WithCheckTrit(checked, s) = s
      BY <1>3 DEF WithCheckTrit
    <2>2. s[1] \in Tryte
      BY <1>2, <1>3, TryteOfTrits DEF CheckTrits
    <2>3. \A k \in 1..n : s[k] \in Tryte
      BY <1>1, <1>2, <2>2
    <2>4. s \in [1..n -> Tryte]
      BY <2>3
    <2>5. s \in Seq(Tryte) /\ Len(s) = n
      BY <2>4
    <2> QED
      BY <1>3, <2>1, <2>5 DEF IsCompleted, CrcHolds
  <1>4. CASE checked
    <2>1. PICK first \in Seq(Trit) : first = s[1] /\ Len(first) = 5
      <3>1. CheckTrits(checked) = 1
        BY <1>4 DEF CheckTrits
      <3>2. Len(s[1]) = 5
        BY <3>1
      <3> QED
        BY <1>2, <3>2
    <2>2. PICK zeroed \in Tryte : /\ zeroed = Append(first, 0) /\ zeroed[6] = 0
                                  /\ \A j \in 1..5 : zeroed[j] = first[j]
      <3>1. 0 \in Trit
        BY DEF Trit
      <3>2. PICK z \in Seq(Trit) : /\ z = Append(first, 0) /\ Len(z) = Len(first) + 1
                                   /\ \A j \in 1..Len(first) : z[j] = first[j]
                                   /\ z[Len(first) + 1] = 0
        <4>1. /\ Append(first, 0) \in Seq(Trit) /\ Len(Append(first, 0)) = Len(first) + 1
              /\ \A j \in 1..Len(first) : Append(first, 0)[j] = first[j]
              /\ Append(first, 0)[Len(first) + 1] = 0
          BY <3>1, AppendProperties
        <4> QED
          BY <4>1
      <3>3. Len(z) = 6 /\ z[6] = 0 /\ \A j \in 1..5 : z[j] = first[j]
        BY <2>1, <3>2
      <3>4. z \in Tryte
        BY <3>3, TryteOfTrits
      <3> QED
        BY <3>2, <3>3, <3>4
    <2>3. PICK blank : blank = [s EXCEPT ![1] = Append(@, 0)]
      OBVIOUS
    <2>4. blank = [s EXCEPT ![1] = zeroed]
      BY <1>2, <2>1, <2>2, <2>3
    <2>5. blank[1] = zeroed /\ \A k \in 2..n : blank[k] = s[k]
      BY <1>2, <2>4
    <2>6. blank \in [1..n -> Tryte]
      BY <1>1, <1>2, <2>4
    <2>7. blank \in Seq(Tryte) /\ Len(blank) = n
      BY <2>6
    <2>8. SymbolSum(blank) \in Int
      BY <1>2, <2>2, <2>7, SumOfReplaced
    <2>9. PICK c \in Trit : c = ComputeCrcBalanced(SymbolSum(blank)) /\ (SymbolSum(blank) + c) % 3 = 0
      BY <2>8, CheckTritIs
    <2>10. PICK checkedFirst \in Tryte : checkedFirst = [zeroed EXCEPT ![6] = c]
      <3>1. [zeroed EXCEPT ![6] = c] \in Tryte
        BY DEF Tryte, TryteLength
      <3> QED
        BY <3>1
    <2>11. checkedFirst[6] = c /\ \A j \in 1..5 : checkedFirst[j] = zeroed[j]
      BY <2>10 DEF Tryte, TryteLength
    <2>12. PICK w : w = WithCheckTrit(checked, s)
      OBVIOUS
    <2>13. w = [blank EXCEPT ![1] = checkedFirst]
      <3>1. w = [blank EXCEPT ![1][6] = c]
        BY <1>4, <2>3, <2>9, <2>12 DEF WithCheckTrit, TryteLength
      <3>2. 1 \in DOMAIN blank /\ blank[1] = zeroed
        BY <1>2, <2>5, <2>6
      <3> QED
        BY <2>10, <3>1, <3>2
    <2>14. /\ w \in Seq(Tryte)
           /\ SymbolSum(w) = (SymbolSum(blank) - BalancedSum(blank[1])) + BalancedSum(checkedFirst)
      <3>1. 1 \in 1..Len(blank)
        BY <1>2, <2>7
      <3> QED
        BY <2>7, <2>13, <3>1, SumOfReplaced
    <2>15. BalancedSum(checkedFirst) = BalancedSum(zeroed) + c /\ BalancedSum(zeroed) \in Int
      <3>1. \A j \in 1..6 : zeroed[j] \in Int
        BY DEF Tryte, TryteLength, Trit
      <3>2. c \in Int
        BY DEF Trit
      <3>3. PICK z1 \in Int, z2 \in Int, z3 \in Int, z4 \in Int, z5 \in Int :
              z1 = zeroed[1] /\ z2 = zeroed[2] /\ z3 = zeroed[3] /\ z4 = zeroed[4] /\ z5 = zeroed[5]
        <4>1. /\ zeroed[1] \in Int /\ zeroed[2] \in Int /\ zeroed[3] \in Int
              /\ zeroed[4] \in Int /\ zeroed[5] \in Int
          BY <3>1
        <4> QED
          BY <4>1
      <3>4. /\ checkedFirst[1] = z1 /\ checkedFirst[2] = z2 /\ checkedFirst[3] = z3
            /\ checkedFirst[4] = z4 /\ checkedFirst[5] = z5 /\ checkedFirst[6] = c
        BY <2>11, <3>3
      <3>5. BalancedSum(zeroed) = z1 + z2 + z3 + z4 + z5 + 0
        BY <2>2, <3>3 DEF BalancedSum
      <3>6. BalancedSum(checkedFirst) = z1 + z2 + z3 + z4 + z5 + c
        BY <3>4 DEF BalancedSum
      <3> QED
        BY <3>2, <3>5, <3>6
    <2>16. SymbolSum(w) = SymbolSum(blank) + c
      <3>1. c \in Int
        BY DEF Trit
      <3> QED
        BY <2>5, <2>8, <2>14, <2>15, <3>1
    <2>17. CrcHolds(checked, w)
      BY <2>9, <2>16 DEF CrcHolds
    <2>18. Len(w) = n /\ w[1] = checkedFirst /\ \A k \in 2..n : w[k] = s[k]
      BY <1>2, <2>5, <2>7, <2>13
    <2>19. \A j \in 1..Len(s[1]) : w[1][j] = s[1][j]
      BY <2>1, <2>2, <2>11, <2>18
    <2>20. \A k \in 1..n : \A j \in 1..Len(s[k]) : w[k][j] = s[k][j]
      BY <1>2, <2>18, <2>19
    <2> QED
      BY <2>12, <2>14, <2>17, <2>18, <2>20 DEF IsCompleted
  <1> QED
    BY <1>3, <1>4

(* Where the payload trits of a symbol stand.                              *)
IsForm(s, checked, n, payload) ==
  /\ s \in Seq(Tryte) /\ Len(s) = n /\ CrcHolds(checked, s)
  /\ \A k \in 1..n : \A j \in 1..TritsOfMarker(n, k) : s[k][j] = TritAt(n, k, j)
  /\ \A k \in 1..n : \A j \in 1..Room(checked, n, k) :
       s[k][TritsOfMarker(n, k) + j] = payload[RoomSum(checked, n, k - 1) + j]

(* What EncodeForm makes: markers, payload, check.                         *)
LEMMA FormEncodes ==
  ASSUME NEW checked \in BOOLEAN, NEW n \in 2..4, NEW offset \in Nat
  PROVE  IsForm(EncodeForm(checked, n, offset), checked, n, ExtractTrits(offset, RoomSum(checked, n, n)))
  <1> DEFINE RS(k) == RoomSum(checked, n, k)
  <1>1. /\ \A k \in 0..n : RoomUpTo(checked, n, k) = RS(k)
        /\ \A k \in 0..n : RS(k) \in 0..RS(n)
        /\ \A k \in 1..n : RS(k) = RS(k - 1) + Room(checked, n, k)
    BY RoomUpToIs
  <1>2. \A k \in 1..n : k \in 0..n /\ k - 1 \in 0..n
    OBVIOUS
  <1>3. n \in 0..n /\ RS(n) \in Nat
    BY <1>1 DEF RoomSum
  <1> HIDE DEF RS
  <1>4. PICK payload \in Seq(Trit) : payload = ExtractTrits(offset, RS(n)) /\ Len(payload) = RS(n)
    BY <1>3, ExtractTritsIs
  <1> DEFINE slice(k) == SubSeq(payload, RS(k - 1) + 1, RS(k))
             raw == [k \in 1..n |-> Marker(n, k) \o slice(k)]
  <1>5. ASSUME NEW k \in 1..n
        PROVE  /\ slice(k) \in Seq(Trit) /\ Len(slice(k)) = Room(checked, n, k)
               /\ \A j \in 1..Room(checked, n, k) : slice(k)[j] = payload[RS(k - 1) + j]
    <2>1. PICK a \in Nat, b \in Nat, r \in Nat :
            a = RS(k - 1) /\ b = RS(k) /\ r = Room(checked, n, k) /\ b = a + r /\ b <= Len(payload)
      <3>1. Room(checked, n, k) \in 1..5
        BY RoomIs
      <3>2. RS(k - 1) \in 0..RS(n) /\ RS(k) \in 0..RS(n) /\ RS(k) = RS(k - 1) + Room(checked, n, k)
        BY <1>1, <1>2
      <3> QED
        BY <1>3, <1>4, <3>1, <3>2
    <2>2. \A j \in a + 1..b : payload[j] \in Trit
      BY <2>1
    <2>3. PICK c : c = SubSeq(payload, a + 1, b)
      OBVIOUS
    <2>4. /\ c \in Seq(Trit) /\ Len(c) = IF a + 1 <= b THEN b - (a + 1) + 1 ELSE 0
          /\ \A j \in 1..b - (a + 1) + 1 : c[j] = payload[a + 1 + j - 1]
      BY <2>2, <2>3, SubSeqProperties
    <2>5. b - (a + 1) + 1 = r /\ \A j \in 1..r : a + 1 + j - 1 = a + j
      BY <2>1
    <2>6. Len(c) = r
      BY SMTT(30), <2>1, <2>4, <2>5
    <2>7. \A j \in 1..r : c[j] = payload[a + j]
      BY <2>4, <2>5
    <2> QED
      BY <2>1, <2>3, <2>4, <2>6, <2>7
  <1>6. ASSUME NEW k \in 1..n
        PROVE  /\ raw[k] \in Seq(Trit)
               /\ Len(raw[k]) = TritsOfMarker(n, k) + Room(checked, n, k)
               /\ \A j \in 1..TritsOfMarker(n, k) : raw[k][j] = TritAt(n, k, j)
               /\ \A j \in 1..Room(checked, n, k) : raw[k][TritsOfMarker(n, k) + j] = payload[RS(k - 1) + j]
    <2>1. PICK m \in Seq(Trit) : /\ m = Marker(n, k) /\ Len(m) = TritsOfMarker(n, k)
                                 /\ \A j \in 1..TritsOfMarker(n, k) : m[j] = TritAt(n, k, j)
      BY MarkerIs
    <2>2. PICK c \in Seq(Trit) : /\ c = slice(k) /\ Len(c) = Room(checked, n, k)
                                 /\ \A j \in 1..Room(checked, n, k) : c[j] = payload[RS(k - 1) + j]
      BY <1>5
    <2>3. raw[k] = m \o c
      BY <2>1, <2>2
    <2> HIDE DEF slice, raw
    <2>4. PICK p \in Nat, r \in Nat : p = TritsOfMarker(n, k) /\ r = Room(checked, n, k) /\ p = Len(m) /\ r = Len(c)
      BY <2>1, <2>2
    <2>5. /\ m \o c \in Seq(Trit) /\ Len(m \o c) = p + r
          /\ \A j \in 1..p + r : (m \o c)[j] = IF j <= p THEN m[j] ELSE c[j - p]
      <3>1. /\ m \o c \in Seq(Trit) /\ Len(m \o c) = Len(m) + Len(c)
            /\ \A j \in 1..Len(m) + Len(c) : (m \o c)[j] = IF j <= Len(m) THEN m[j] ELSE c[j - Len(m)]
        BY ConcatProperties
      <3> QED
        BY <2>4, <3>1
    <2>6. \A j \in 1..p : raw[k][j] = m[j]
      BY <2>3, <2>5
    <2>7. \A j \in 1..r : raw[k][p + j] = c[j]
      <3>1. \A j \in 1..r : p + j \in 1..p + r /\ ~(p + j <= p) /\ (p + j) - p = j
        OBVIOUS
      <3> QED
        BY <2>3, <2>5, <3>1
    <2> QED
      BY <2>1, <2>2, <2>3, <2>4, <2>5, <2>6, <2>7
  <1>7. ASSUME NEW k \in 1..n
        PROVE  Len(raw[k]) = IF k = 1 THEN 6 - CheckTrits(checked) ELSE 6
    <2>1. /\ CheckTrits(checked) \in {0, 1}
          /\ Room(checked, n, k) = 6 - TritsOfMarker(n, k) - (IF k = 1 THEN CheckTrits(checked) ELSE 0)
      BY RoomIs
    <2>2. TritsOfMarker(n, k) \in Int
      BY DEF TritsOfMarker
    <2>3. Len(raw[k]) = TritsOfMarker(n, k) + Room(checked, n, k)
      BY <1>6
    <2> HIDE DEF raw
    <2> QED
      BY <2>1, <2>2, <2>3
  <1>8. raw \in [1..n -> Seq(Trit)]
    <2>1. \A k \in 1..n : raw[k] \in Seq(Trit)
      BY <1>6
    <2> QED
      BY <2>1
  <1>9. PICK w : w = WithCheckTrit(checked, raw)
    OBVIOUS
  <1>10. IsCompleted(w, raw, checked, n)
    <2> HIDE DEF raw
    <2>1. n \in Nat \ {0} /\ \A k \in 2..n : k \in 1..n /\ k # 1
      OBVIOUS
    <2>2. \A k \in 2..n : Len(raw[k]) = 6
      BY <1>7, <2>1
    <2>3. Len(raw[1]) = 6 - CheckTrits(checked)
      <3>1. 1 \in 1..n
        OBVIOUS
      <3> QED
        BY <1>7, <3>1
    <2> QED
      BY <1>8, <1>9, <2>1, <2>2, <2>3, CheckTritCompletes
  <1>11. EncodeForm(checked, n, offset) = w
    <2>1. RoomUpTo(checked, n, n) = RS(n)
      BY <1>1, <1>3
    <2>2. ASSUME NEW k \in 1..n
          PROVE  SubSeq(payload, RoomUpTo(checked, n, k - 1) + 1, RoomUpTo(checked, n, k)) = slice(k)
      BY <1>1, <1>2
    <2>3. raw = [k \in 1..n |-> Marker(n, k) \o SubSeq(payload, RoomUpTo(checked, n, k - 1) + 1, RoomUpTo(checked, n, k))]
      <3> HIDE DEF slice
      <3> QED
        BY <2>2
    <2> HIDE DEF raw
    <2> QED
      BY <1>4, <1>9, <2>1, <2>3 DEF EncodeForm
  <1>12. ASSUME NEW k \in 1..n, NEW j \in 1..TritsOfMarker(n, k) PROVE w[k][j] = TritAt(n, k, j)
    <2>1. TritsOfMarker(n, k) \in 1..4 /\ Room(checked, n, k) \in 1..5
      BY RoomIs DEF TritsOfMarker
    <2>2. Len(raw[k]) = TritsOfMarker(n, k) + Room(checked, n, k) /\ raw[k][j] = TritAt(n, k, j)
      BY <1>6
    <2> HIDE DEF raw
    <2>3. j \in 1..Len(raw[k])
      BY SMTT(30), <2>1, <2>2
    <2> QED
      BY <1>10, <2>2, <2>3 DEF IsCompleted
  <1>13. ASSUME NEW k \in 1..n, NEW j \in 1..Room(checked, n, k)
         PROVE  w[k][TritsOfMarker(n, k) + j] = payload[RS(k - 1) + j]
    <2>1. TritsOfMarker(n, k) \in 1..4 /\ Room(checked, n, k) \in 1..5
      BY RoomIs DEF TritsOfMarker
    <2>2. /\ Len(raw[k]) = TritsOfMarker(n, k) + Room(checked, n, k)
          /\ raw[k][TritsOfMarker(n, k) + j] = payload[RS(k - 1) + j]
      BY <1>6
    <2> HIDE DEF raw
    <2>3. TritsOfMarker(n, k) + j \in 1..Len(raw[k])
      BY SMTT(30), <2>1, <2>2
    <2> QED
      BY <1>10, <2>2, <2>3 DEF IsCompleted
  <1>14. w \in Seq(Tryte) /\ Len(w) = n /\ CrcHolds(checked, w)
    BY <1>10 DEF IsCompleted
  <1>15. IsForm(w, checked, n, payload)
    <2> HIDE DEF raw, slice
    <2> QED
      BY <1>12, <1>13, <1>14 DEF IsForm, RS
  <1> QED
    BY <1>4, <1>11, <1>15 DEF RS

-----------------------------------------------------------------------------
(* Offsets and their digits.                                               *)

ThreeTo == <<1, 3, 9, 27, 81, 243, 729, 2187, 6561, 19683, 59049, 177147,
             531441, 1594323, 4782969, 14348907, 43046721>>

LEMMA ThreeTimes ==
  ASSUME NEW m \in 1..16
  PROVE  ThreeTo[m] \in Nat /\ ThreeTo[m + 1] = 3 * ThreeTo[m]
  <1>1. /\ ThreeTo[1] = 1 /\ ThreeTo[2] = 3 /\ ThreeTo[3] = 9 /\ ThreeTo[4] = 27
        /\ ThreeTo[5] = 81 /\ ThreeTo[6] = 243 /\ ThreeTo[7] = 729 /\ ThreeTo[8] = 2187
        /\ ThreeTo[9] = 6561 /\ ThreeTo[10] = 19683 /\ ThreeTo[11] = 59049
        /\ ThreeTo[12] = 177147 /\ ThreeTo[13] = 531441 /\ ThreeTo[14] = 1594323
        /\ ThreeTo[15] = 4782969 /\ ThreeTo[16] = 14348907 /\ ThreeTo[17] = 43046721
    BY DEF ThreeTo
  <1>2. m \in 1..4 \/ m \in 5..8 \/ m \in 9..12 \/ m \in 13..16
    OBVIOUS
  <1>3. CASE m \in 1..4
    BY <1>1, <1>3
  <1>4. CASE m \in 5..8
    BY <1>1, <1>4
  <1>5. CASE m \in 9..12
    BY <1>1, <1>5
  <1>6. CASE m \in 13..16
    BY <1>1, <1>6
  <1> QED
    BY <1>2, <1>3, <1>4, <1>5, <1>6

(* A number of count digits has no more.                                   *)
LEMMA RestVanishes ==
  ASSUME NEW count \in 0..16, NEW value \in Nat, value < ThreeTo[count + 1],
         NEW rest, Rests(rest, value, count)
  PROVE  rest[count] = 0
  <1> DEFINE Good == {k \in 0..count : rest[k] < ThreeTo[(count - k) + 1]}
  <1>1. 0 \in Good
    <2>1. 0 \in 0..count /\ (count - 0) + 1 = count + 1 /\ rest[0] = value
      BY DEF Rests
    <2> QED
      BY <2>1
  <1>2. ASSUME NEW k \in 0..count - 1, k \in Good PROVE k + 1 \in Good
    <2>1. k + 1 \in 1..count /\ k + 1 \in 0..count /\ (k + 1) - 1 = k /\ k \in 0..count
      OBVIOUS
    <2>2. PICK r \in Nat : r = rest[k] /\ rest[k + 1] = r \div 3
      BY <2>1 DEF Rests
    <2>3. PICK m \in 1..16 : m = (count - (k + 1)) + 1 /\ m + 1 = (count - k) + 1
      OBVIOUS
    <2>4. PICK p \in Nat : p = ThreeTo[m] /\ ThreeTo[m + 1] = 3 * p
      BY ThreeTimes
    <2>5. r < 3 * p
      BY <1>2, <2>2, <2>3, <2>4
    <2>6. r \div 3 < p
      BY <2>5
    <2> QED
      BY <2>1, <2>2, <2>3, <2>4, <2>6
  <1>3. 0..count \subseteq Good
    <2> HIDE DEF Good
    <2>1. 0 \in Int /\ count \in Int
      OBVIOUS
    <2> QED
      BY <1>1, <1>2, <2>1, IntervalInduction
  <1>4. count \in 0..count /\ (count - count) + 1 = 1
    OBVIOUS
  <1>5. rest[count] < ThreeTo[1] /\ rest[count] \in Nat
    BY <1>3, <1>4 DEF Rests
  <1>6. ThreeTo[1] = 1
    BY DEF ThreeTo
  <1> QED
    BY <1>5, <1>6

(* The digits of a number, read as a number again.                         *)
LEMMA OffsetReadsBack ==
  ASSUME NEW count \in 0..16, NEW value \in Nat, value < ThreeTo[count + 1]
  PROVE  PayloadToOffset(ExtractTrits(value, count)) = value
  <1>0. count \in Nat
    OBVIOUS
  <1>1. PICK t \in Seq(Trit) : t = ExtractTrits(value, count) /\ Len(t) = count
    BY <1>0, ExtractTritsIs
  <1>2. PICK rest : /\ Rests(rest, value, count)
                    /\ \A j \in 1..count : t[j] = (rest[count - j] % 3) - 1
    BY <1>0, <1>1, ExtractTritsIs
  <1>3. rest[count] = 0
    BY <1>2, RestVanishes
  <1>4. PICK f \in [0..count -> Nat] :
          /\ PayloadToOffset(t) = f[count] /\ f[0] = 0
          /\ \A j \in 1..count : f[j] = 3 * f[j - 1] + (t[j] + 1)
    <2>1. \E R \in [0..Len(t) -> Nat] :
            /\ PayloadToOffset(t) = R[Len(t)] /\ R[0] = 0
            /\ \A k \in 1..Len(t) : R[k] = 3 * R[k - 1] + (t[k] + 1)
      BY OffsetUnfolds
    <2> QED
      BY <1>1, <2>1
  <1> DEFINE Good == {j \in 0..count : f[j] = rest[count - j]}
  <1>5. 0 \in Good
    <2>1. 0 \in 0..count /\ count - 0 = count
      OBVIOUS
    <2> QED
      BY <1>3, <1>4, <2>1
  <1>6. ASSUME NEW j \in 0..count - 1, j \in Good PROVE j + 1 \in Good
    <2>1. /\ j + 1 \in 1..count /\ j + 1 \in 0..count /\ (j + 1) - 1 = j
          /\ count - (j + 1) \in 0..count /\ count - j \in 1..count /\ (count - j) - 1 = count - (j + 1)
      OBVIOUS
    <2>2. PICK r \in Nat : r = rest[count - (j + 1)] /\ rest[count - j] = r \div 3
      BY <1>2, <2>1 DEF Rests
    <2>3. t[j + 1] = (r % 3) - 1
      BY <1>2, <2>1, <2>2
    <2>4. f[j + 1] = 3 * (r \div 3) + ((r % 3) - 1 + 1)
      BY <1>4, <1>6, <2>1, <2>2, <2>3
    <2>5. 3 * (r \div 3) + ((r % 3) - 1 + 1) = r
      OBVIOUS
    <2> QED
      BY <2>1, <2>2, <2>4, <2>5
  <1>7. 0..count \subseteq Good
    <2> HIDE DEF Good
    <2>1. 0 \in Int /\ count \in Int
      OBVIOUS
    <2> QED
      BY <1>5, <1>6, <2>1, IntervalInduction
  <1>8. f[count] = rest[0]
    <2>1. count \in 0..count /\ count - count = 0
      OBVIOUS
    <2> QED
      BY <1>7, <2>1
  <1> QED
    BY <1>1, <1>2, <1>4, <1>8 DEF Rests

(* And the number that trits read as has these trits for its digits.       *)
LEMMA DigitsReadBack ==
  ASSUME NEW trits \in Seq(Trit)
  PROVE  /\ PayloadToOffset(trits) \in Nat
         /\ ExtractTrits(PayloadToOffset(trits), Len(trits)) = trits
  <1>1. PICK count \in Nat : count = Len(trits)
    OBVIOUS
  <1>2. PICK f \in [0..count -> Nat] :
          /\ PayloadToOffset(trits) = f[count] /\ f[0] = 0
          /\ \A j \in 1..count : f[j] = 3 * f[j - 1] + (trits[j] + 1)
    BY <1>1, OffsetUnfolds
  <1>3. PICK value \in Nat : value = PayloadToOffset(trits) /\ value = f[count]
    <2>1. count \in 0..count
      OBVIOUS
    <2> QED
      BY <1>2, <2>1
  <1>4. PICK t \in Seq(Trit) : t = ExtractTrits(value, count) /\ Len(t) = count
    BY ExtractTritsIs
  <1>5. PICK rest : /\ Rests(rest, value, count)
                    /\ \A j \in 1..count : t[j] = (rest[count - j] % 3) - 1
    BY SMTT(30), <1>4, ExtractTritsIs
  <1>6. ASSUME NEW j \in 1..count
        PROVE  f[j] \div 3 = f[j - 1] /\ (f[j] % 3) - 1 = trits[j]
    <2>1. PICK g \in Nat : g = f[j - 1]
      <3>1. j - 1 \in 0..count
        OBVIOUS
      <3> QED
        BY <3>1
    <2>2. PICK d \in {-1, 0, 1} : d = trits[j]
      <3>1. trits[j] \in Trit
        BY <1>1
      <3> QED
        BY <3>1 DEF Trit
    <2>3. f[j] = 3 * g + (d + 1)
      BY <1>2, <2>1, <2>2
    <2>4. (3 * g + (d + 1)) \div 3 = g /\ ((3 * g + (d + 1)) % 3) - 1 = d
      <3>1. PICK e \in 0..2 : e = d + 1
        BY <2>2
      <3>2. (3 * g + e) \div 3 = g
        OBVIOUS
      <3>3. (3 * g + e) % 3 = e
        BY SMTT(30)
      <3> QED
        BY <3>1, <3>2, <3>3
    <2> QED
      BY <2>1, <2>2, <2>3, <2>4
  <1> DEFINE Good == {k \in 0..count : rest[k] = f[count - k]}
  <1>7. 0 \in Good
    <2>1. 0 \in 0..count /\ count - 0 = count
      OBVIOUS
    <2> QED
      BY <1>3, <1>5, <2>1 DEF Rests
  <1>8. ASSUME NEW k \in 0..count - 1, k \in Good PROVE k + 1 \in Good
    <2>1. /\ k + 1 \in 1..count /\ k + 1 \in 0..count /\ (k + 1) - 1 = k
          /\ count - k \in 1..count /\ (count - k) - 1 = count - (k + 1)
      OBVIOUS
    <2>2. rest[k + 1] = rest[k] \div 3
      BY <1>5, <2>1 DEF Rests
    <2>3. f[count - k] \div 3 = f[count - (k + 1)]
      BY <1>6, <2>1
    <2> QED
      BY <1>8, <2>1, <2>2, <2>3
  <1>9. 0..count \subseteq Good
    <2> HIDE DEF Good
    <2>1. 0 \in Int /\ count \in Int
      OBVIOUS
    <2> QED
      BY <1>7, <1>8, <2>1, IntervalInduction
  <1>10. ASSUME NEW j \in 1..count PROVE t[j] = trits[j]
    <2>1. count - j \in 0..count /\ count - (count - j) = j
      OBVIOUS
    <2>2. rest[count - j] = f[j]
      BY <1>9, <2>1
    <2> QED
      BY <1>5, <1>6, <2>2
  <1>11. t = trits
    BY <1>1, <1>4, <1>10, SeqEqual
  <1> QED
    BY <1>1, <1>3, <1>4, <1>11

-----------------------------------------------------------------------------
(* Roles. *)

Trits4(t) == t[1] \in Trit /\ t[2] \in Trit /\ t[3] \in Trit /\ t[4] \in Trit

(* GetRole looks at the first four trits.                                  *)
LEMMA RoleIs ==
  ASSUME NEW t, Trits4(t)
  PROVE  GetRole(t) =
           IF t[1] = -1 THEN "final"
           ELSE IF t[1] = 0 THEN (IF t[2] = 0 THEN "middle2" ELSE "middle1")
           ELSE IF t[2] = -1 THEN "lead2"
           ELSE IF t[2] = 1 /\ t[3] = -1 THEN "lead3"
           ELSE IF t[2] = 1 /\ t[3] = 1 /\ t[4] = -1 THEN "lead4"
           ELSE "single"
  <1> USE DEF Trits4, Trit
  <1>1. CASE t[1] = -1
    BY <1>1 DEF GetRole
  <1>2. CASE t[1] = 0 /\ t[2] = 0
    BY <1>2 DEF GetRole
  <1>3. CASE t[1] = 0 /\ t[2] # 0
    BY <1>3 DEF GetRole
  <1>4. CASE t[1] = 1 /\ t[2] = -1
    BY <1>4 DEF GetRole
  <1>5. CASE t[1] = 1 /\ t[2] = 1 /\ t[3] = -1
    BY <1>5 DEF GetRole
  <1>6. CASE t[1] = 1 /\ t[2] = 1 /\ t[3] = 1 /\ t[4] = -1
    BY <1>6 DEF GetRole
  <1>7. CASE /\ t[1] = 1 /\ t[2] # -1 /\ ~(t[2] = 1 /\ t[3] = -1)
             /\ ~(t[2] = 1 /\ t[3] = 1 /\ t[4] = -1)
    BY <1>7 DEF GetRole
  <1> QED
    BY <1>1, <1>2, <1>3, <1>4, <1>5, <1>6, <1>7

LEMMA TryteHasTrits ==
  ASSUME NEW t \in Tryte
  PROVE  Trits4(t) /\ \A j \in 1..6 : t[j] \in Trit
  BY DEF Trits4, Tryte, TryteLength

(* And so does what the decoder expects.                                   *)
LEMMA LengthIs ==
  ASSUME NEW t \in Tryte
  PROVE  SequenceLength(t) =
           IF t[1] # 1 THEN 0
           ELSE IF t[2] = -1 THEN 2
           ELSE IF t[2] = 1 /\ t[3] = -1 THEN 3
           ELSE IF t[2] = 1 /\ t[3] = 1 /\ t[4] = -1 THEN 4
           ELSE 1
  <1>1. Trits4(t)
    BY TryteHasTrits
  <1>2. PICK role : role = GetRole(t)
    OBVIOUS
  <1>3. SequenceLength(t) =
          CASE role = "single" -> 1 [] role = "lead2" -> 2 [] role = "lead3" -> 3
            [] role = "lead4" -> 4  [] OTHER -> 0
    BY <1>2 DEF SequenceLength
  <1>4. role = IF t[1] = -1 THEN "final"
               ELSE IF t[1] = 0 THEN (IF t[2] = 0 THEN "middle2" ELSE "middle1")
               ELSE IF t[2] = -1 THEN "lead2"
               ELSE IF t[2] = 1 /\ t[3] = -1 THEN "lead3"
               ELSE IF t[2] = 1 /\ t[3] = 1 /\ t[4] = -1 THEN "lead4"
               ELSE "single"
    BY <1>1, <1>2, RoleIs
  <1>5. CASE role = "single"
    <2>1. SequenceLength(t) = 1
      BY <1>3, <1>5
    <2>2. t[1] = 1 /\ t[2] # -1 /\ ~(t[2] = 1 /\ t[3] = -1) /\ ~(t[2] = 1 /\ t[3] = 1 /\ t[4] = -1)
      BY <1>1, <1>4, <1>5 DEF Trits4, Trit
    <2> QED
      BY <2>1, <2>2
  <1>6. CASE role = "lead2"
    <2>1. SequenceLength(t) = 2
      BY <1>3, <1>6
    <2>2. t[1] = 1 /\ t[2] = -1
      BY <1>1, <1>4, <1>6 DEF Trits4, Trit
    <2> QED
      BY <2>1, <2>2
  <1>7. CASE role = "lead3"
    <2>1. SequenceLength(t) = 3
      BY <1>3, <1>7
    <2>2. t[1] = 1 /\ t[2] = 1 /\ t[3] = -1
      BY <1>1, <1>4, <1>7 DEF Trits4, Trit
    <2> QED
      BY <2>1, <2>2
  <1>8. CASE role = "lead4"
    <2>1. SequenceLength(t) = 4
      BY <1>3, <1>8
    <2>2. t[1] = 1 /\ t[2] = 1 /\ t[3] = 1 /\ t[4] = -1
      BY <1>1, <1>4, <1>8 DEF Trits4, Trit
    <2> QED
      BY <2>1, <2>2
  <1>9. CASE role \in {"final", "middle1", "middle2"}
    <2>1. t[1] # 1
      BY <1>4, <1>9
    <2>2. role # "single" /\ role # "lead2" /\ role # "lead3" /\ role # "lead4"
      BY <1>9
    <2> QED
      BY <1>3, <2>1, <2>2
  <1>10. role \in {"final", "middle1", "middle2", "lead2", "lead3", "lead4", "single"}
    BY <1>4
  <1> QED
    BY <1>5, <1>6, <1>7, <1>8, <1>9, <1>10

-----------------------------------------------------------------------------
(* The table of one-tryte symbols.                                         *)

PatternTrits(checked) == TryteLength - 1 - CheckTrits(checked)
Raws(checked) == 0..(IF checked THEN 80 ELSE 242)
PatternOf(checked, raw) == <<1>> \o ExtractTrits(raw, PatternTrits(checked))
FreeRaws(checked) == {raw \in Raws(checked) : GetRole(PatternOf(checked, raw)) = "single"}
RankOf(checked, raw) == Cardinality({r \in FreeRaws(checked) : r <= raw})
TryteOf(checked, raw) == WithCheckTrit(checked, <<PatternOf(checked, raw)>>)[1]
EntryOf(checked, raw) ==
  [cp |-> SingleChars(checked)[RankOf(checked, raw)], tryte |-> TryteOf(checked, raw)]

(* The table, entry by entry.                                              *)
LEMMA TableIs ==
  ASSUME NEW checked \in BOOLEAN
  PROVE  SingleTryteTable[checked] = {EntryOf(checked, raw) : raw \in FreeRaws(checked)}
  BY DEF SingleTryteTable, EntryOf, TryteOf, RankOf, FreeRaws, PatternOf, Raws, PatternTrits

IsPattern(p, raw, count) ==
  /\ p \in Seq(Trit) /\ Len(p) = count + 1 /\ p[1] = 1
  /\ \A j \in 1..count : p[1 + j] = ExtractTrits(raw, count)[j]

(* A pattern has the digits of its number behind a leading one.            *)
LEMMA PatternIs ==
  ASSUME NEW checked \in BOOLEAN, NEW raw \in Nat
  PROVE  /\ PatternTrits(checked) = IF checked THEN 4 ELSE 5
         /\ IsPattern(PatternOf(checked, raw), raw, PatternTrits(checked))
  <1>1. PatternTrits(checked) = IF checked THEN 4 ELSE 5
    BY DEF PatternTrits, TryteLength, CheckTrits
  <1>2. PICK c \in Nat : c = PatternTrits(checked)
    BY <1>1
  <1>3. PICK d \in Seq(Trit) : d = ExtractTrits(raw, c) /\ Len(d) = c
    BY ExtractTritsIs
  <1>4. PICK o \in Seq(Trit) : o = <<1>> /\ Len(o) = 1 /\ o[1] = 1
    <2>1. <<1>> \in Seq(Trit) /\ Len(<<1>>) = 1 /\ <<1>>[1] = 1
      BY DEF Trit
    <2> QED
      BY <2>1
  <1>5. PICK p : p = o \o d
    OBVIOUS
  <1>6. /\ p \in Seq(Trit) /\ Len(p) = Len(o) + Len(d)
        /\ \A j \in 1..Len(o) + Len(d) : p[j] = IF j <= Len(o) THEN o[j] ELSE d[j - Len(o)]
    BY <1>5, ConcatProperties
  <1>7. Len(p) = 1 + c /\ \A j \in 1..1 + c : p[j] = IF j <= 1 THEN o[j] ELSE d[j - 1]
    BY <1>3, <1>4, <1>6
  <1>8. \A j \in 1..c : 1 + j \in 1..1 + c /\ ~(1 + j <= 1) /\ (1 + j) - 1 = j
    OBVIOUS
  <1>9. p[1] = 1 /\ \A j \in 1..c : p[1 + j] = d[j]
    BY <1>4, <1>7, <1>8
  <1>10. p = PatternOf(checked, raw)
    BY <1>2, <1>3, <1>4, <1>5 DEF PatternOf
  <1>11. IsPattern(p, raw, c)
    BY <1>3, <1>6, <1>7, <1>9 DEF IsPattern
  <1> QED
    BY <1>1, <1>2, <1>10, <1>11

FreeIs(checked) ==
  IF checked THEN (27..53 \cup 63..71) \cup 75..80 ELSE (81..161 \cup 189..215) \cup 225..242

(* The numbers whose patterns lead nothing are three intervals.            *)
LEMMA FreeRawsAre ==
  ASSUME NEW checked \in BOOLEAN
  PROVE  FreeRaws(checked) = FreeIs(checked)
  <1>1. ASSUME NEW raw \in Raws(checked)
        PROVE  GetRole(PatternOf(checked, raw)) = "single" <=> raw \in FreeIs(checked)
    <2>1. PICK p : p = PatternOf(checked, raw)
      OBVIOUS
    <2>2. raw \in Nat
      BY DEF Raws
    <2>3. PICK c \in Nat : c = PatternTrits(checked) /\ (c = IF checked THEN 4 ELSE 5) /\ IsPattern(p, raw, c)
      BY <2>1, <2>2, PatternIs
    <2>4. PICK rest : /\ Rests(rest, raw, c)
                      /\ \A j \in 1..c : ExtractTrits(raw, c)[j] = (rest[c - j] % 3) - 1
      BY <2>2, ExtractTritsIs
    <2>5. p[1] = 1 /\ \A j \in 1..c : p[1 + j] = (rest[c - j] % 3) - 1
      BY <2>3, <2>4 DEF IsPattern
    <2>6. \A j \in 0..c : rest[j] \in Nat
      BY <2>4 DEF Rests
    <2>7. PICK a \in Nat, b \in Nat, d \in Nat :
            /\ a = rest[c - 1] /\ b = rest[c - 2] /\ d = rest[c - 3]
            /\ a = b \div 3 /\ b = d \div 3
      <3>1. /\ c - 1 \in 1..c /\ c - 2 \in 1..c /\ c - 3 \in 0..c
            /\ (c - 1) - 1 = c - 2 /\ (c - 2) - 1 = c - 3 /\ c - 2 \in 0..c /\ c - 1 \in 0..c
        BY <2>3
      <3>2. rest[c - 1] = rest[c - 2] \div 3 /\ rest[c - 2] = rest[c - 3] \div 3
        BY <2>4, <3>1 DEF Rests
      <3>3. rest[c - 1] \in Nat /\ rest[c - 2] \in Nat /\ rest[c - 3] \in Nat
        BY <2>6, <3>1
      <3> QED
        BY <3>2, <3>3
    <2>8. p[2] = (a % 3) - 1 /\ p[3] = (b % 3) - 1 /\ p[4] = (d % 3) - 1
      <3>1. 1 \in 1..c /\ 2 \in 1..c /\ 3 \in 1..c
        BY <2>3
      <3>2. p[1 + 1] = (rest[c - 1] % 3) - 1 /\ p[1 + 2] = (rest[c - 2] % 3) - 1 /\ p[1 + 3] = (rest[c - 3] % 3) - 1
        BY <2>5, <3>1
      <3> QED
        BY <2>7, <3>2
    <2>9. d = IF checked THEN raw \div 3 ELSE (raw \div 3) \div 3
      <3>1. rest[0] = raw /\ \A k \in 1..c : rest[k] = rest[k - 1] \div 3
        BY <2>4 DEF Rests
      <3>2. CASE checked
        <4>1. c = 4
          BY <2>3, <3>2
        <4>2. d = rest[1] /\ rest[1] = rest[0] \div 3
          BY <2>7, <3>1, <4>1
        <4> QED
          BY <3>1, <3>2, <4>2
      <3>3. CASE ~checked
        <4>1. c = 5
          BY <2>3, <3>3
        <4>2. d = rest[2] /\ rest[2] = rest[1] \div 3 /\ rest[1] = rest[0] \div 3
          BY <2>7, <3>1, <4>1
        <4> QED
          BY <3>1, <3>3, <4>2
      <3> QED
        BY <3>2, <3>3
    <2>10. d \in 0..26
      BY <2>9 DEF Raws
    <2>11. b \in 0..8 /\ a \in 0..2 /\ a % 3 = a
      <3>1. b \in 0..8
        BY <2>7, <2>10
      <3>2. a \in 0..2
        BY <2>7, <3>1
      <3>3. a % 3 = a
        BY <3>2
      <3> QED
        BY <3>1, <3>2, <3>3
    <2>12. Trits4(p)
      <3>1. (a % 3) - 1 \in Trit /\ (b % 3) - 1 \in Trit /\ (d % 3) - 1 \in Trit /\ 1 \in Trit
        BY <2>10, <2>11 DEF Trit
      <3> QED
        BY <2>5, <2>8, <3>1 DEF Trits4
    <2>13. GetRole(p) = "single" <=> /\ p[2] # -1 /\ ~(p[2] = 1 /\ p[3] = -1)
                                     /\ ~(p[2] = 1 /\ p[3] = 1 /\ p[4] = -1)
      BY <2>5, <2>12, RoleIs
    <2>14. GetRole(p) = "single" <=> /\ a # 0 /\ ~(a = 2 /\ b % 3 = 0)
                                     /\ ~(a = 2 /\ b % 3 = 2 /\ d % 3 = 0)
      BY <2>8, <2>11, <2>13
    <2>15. GetRole(p) = "single" <=> /\ b >= 3 /\ b # 6 /\ ~(b = 8 /\ d % 3 = 0)
      <3>1. (a # 0 <=> b >= 3) /\ (a = 2 <=> b >= 6)
        BY <2>7, <2>11
      <3>2. b >= 6 => (b % 3 = 0 <=> b = 6) /\ (b % 3 = 2 <=> b = 8)
        BY <2>11
      <3> QED
        BY <2>14, <3>1, <3>2
    <2>16. GetRole(p) = "single" <=> d \in (9..17 \cup 21..23) \cup 25..26
      <3>1. (b >= 3 <=> d >= 9) /\ (b = 6 <=> d \in 18..20) /\ (b = 8 <=> d \in 24..26)
        BY <2>7, <2>10
      <3>2. d \in 24..26 => (d % 3 = 0 <=> d = 24)
        OBVIOUS
      <3> QED
        BY <2>10, <2>15, <3>1, <3>2
    <2>17. CASE checked
      <3>1. d = raw \div 3 /\ raw \in 0..80
        BY <2>9, <2>17 DEF Raws
      <3>2. d \in (9..17 \cup 21..23) \cup 25..26 <=> raw \in (27..53 \cup 63..71) \cup 75..80
        BY <3>1
      <3> QED
        BY <2>1, <2>16, <2>17, <3>2 DEF FreeIs
    <2>18. CASE ~checked
      <3>1. PICK e \in Nat : e = raw \div 3 /\ d = e \div 3 /\ raw \in 0..242
        <4>1. raw \in 0..242 /\ d = (raw \div 3) \div 3
          BY <2>9, <2>18 DEF Raws
        <4>2. raw \div 3 \in Nat
          BY <4>1
        <4> QED
          BY <4>1, <4>2
      <3>2. d \in (9..17 \cup 21..23) \cup 25..26 <=> e \in (27..53 \cup 63..71) \cup 75..80
        BY <3>1
      <3>3. e \in (27..53 \cup 63..71) \cup 75..80 <=> raw \in (81..161 \cup 189..215) \cup 225..242
        BY <3>1
      <3> QED
        BY <2>1, <2>16, <2>18, <3>2, <3>3 DEF FreeIs
    <2> QED
      BY <2>17, <2>18
  <1>2. FreeIs(checked) \subseteq Raws(checked)
    BY DEF FreeIs, Raws
  <1> QED
    BY <1>1, <1>2 DEF FreeRaws

LEMMA IntervalSize ==
  ASSUME NEW a \in Int, NEW b \in Int, a <= b + 1
  PROVE  IsFiniteSet(a..b) /\ Cardinality(a..b) = b - a + 1
  BY FS_Interval

LEMMA DisjointSize ==
  ASSUME NEW S, IsFiniteSet(S), NEW T, IsFiniteSet(T), S \cap T = {}
  PROVE  IsFiniteSet(S \cup T) /\ Cardinality(S \cup T) = Cardinality(S) + Cardinality(T)
  <1>1. IsFiniteSet(S \cup T) /\ Cardinality(S \cup T) = Cardinality(S) + Cardinality(T) - Cardinality(S \cap T)
    BY FS_Union
  <1>2. Cardinality(S \cap T) = 0
    BY FS_EmptySet
  <1>3. Cardinality(S) \in Nat /\ Cardinality(T) \in Nat
    BY FS_CardinalityType
  <1> QED
    BY <1>1, <1>2, <1>3

(* The members of three intervals that are no greater than one of them.    *)
NoneGreater(S, m) == {r \in S : r <= m}

IsThree(S, a, b, c, d, e, f) == S = (a..b \cup c..d) \cup e..f

PlaceInThree(m, a, b, c, d, e) ==
  IF m <= b THEN m - a + 1
  ELSE IF m <= d THEN (b - a + 1) + (m - c + 1)
  ELSE (b - a + 1) + (d - c + 1) + (m - e + 1)

(* How many members of three intervals are no greater than one of them.    *)
LEMMA RankInThree ==
  ASSUME NEW S, NEW a \in Int, NEW b \in Int, NEW c \in Int, NEW d \in Int, NEW e \in Int, NEW f \in Int,
         a <= b, b < c, c <= d, d < e, e <= f, IsThree(S, a, b, c, d, e, f), NEW m \in S
  PROVE  Cardinality(NoneGreater(S, m)) = PlaceInThree(m, a, b, c, d, e)
  <1> USE DEF IsThree, PlaceInThree
  <1>1. m \in Int
    OBVIOUS
  <1>2. PICK T : T = NoneGreater(S, m) /\ T = {r \in S : r <= m}
    BY DEF NoneGreater
  <1>3. CASE m <= b
    <2>1. T = a..m
      <3>1. \A r : r \in T <=> r \in a..m
        BY <1>1, <1>2, <1>3
      <3> QED
        BY <3>1
    <2>2. Cardinality(a..m) = m - a + 1
      BY <1>1, IntervalSize
    <2>3. Cardinality(T) = m - a + 1
      BY <2>1, <2>2
    <2> QED
      BY <1>2, <1>3, <2>3
  <1>4. CASE b < m /\ m <= d
    <2>1. T = a..b \cup c..m
      BY <1>2, <1>4
    <2>2. IsFiniteSet(a..b) /\ Cardinality(a..b) = b - a + 1
      BY IntervalSize
    <2>3. IsFiniteSet(c..m) /\ Cardinality(c..m) = m - c + 1
      BY <1>1, <1>4, IntervalSize
    <2>4. a..b \cap c..m = {}
      OBVIOUS
    <2>5. Cardinality(a..b \cup c..m) = Cardinality(a..b) + Cardinality(c..m)
      BY <2>2, <2>3, <2>4, DisjointSize
    <2>6. Cardinality(T) = (b - a + 1) + (m - c + 1)
      BY <2>1, <2>2, <2>3, <2>5
    <2>7. ~(m <= b)
      BY <1>1, <1>4
    <2> QED
      BY <1>2, <1>4, <2>6, <2>7
  <1>5. CASE d < m
    <2>1. T = (a..b \cup c..d) \cup e..m
      BY <1>2, <1>5
    <2>2. IsFiniteSet(a..b) /\ Cardinality(a..b) = b - a + 1
      BY IntervalSize
    <2>3. IsFiniteSet(c..d) /\ Cardinality(c..d) = d - c + 1
      BY IntervalSize
    <2>4. IsFiniteSet(e..m) /\ Cardinality(e..m) = m - e + 1
      BY <1>1, <1>5, IntervalSize
    <2>5. a..b \cap c..d = {} /\ (a..b \cup c..d) \cap e..m = {}
      OBVIOUS
    <2>6. IsFiniteSet(a..b \cup c..d) /\ Cardinality(a..b \cup c..d) = Cardinality(a..b) + Cardinality(c..d)
      BY <2>2, <2>3, <2>5, DisjointSize
    <2>7. Cardinality((a..b \cup c..d) \cup e..m) = Cardinality(a..b \cup c..d) + Cardinality(e..m)
      BY <2>4, <2>5, <2>6, DisjointSize
    <2>8. Cardinality(T) = (b - a + 1) + (d - c + 1) + (m - e + 1)
      BY <2>1, <2>2, <2>3, <2>4, <2>6, <2>7
    <2>9. ~(m <= b) /\ ~(m <= d)
      BY <1>1, <1>5
    <2> QED
      BY <1>2, <2>8, <2>9
  <1>6. b \in Int /\ d \in Int /\ b < d
    OBVIOUS
  <1> QED
    BY <1>1, <1>3, <1>4, <1>5, <1>6

RankIs(checked, raw) ==
  IF checked THEN (IF raw <= 53 THEN raw - 26 ELSE IF raw <= 71 THEN raw - 35 ELSE raw - 38)
  ELSE (IF raw <= 161 THEN raw - 80 ELSE IF raw <= 215 THEN raw - 107 ELSE raw - 116)

(* The rank of each free number.                                           *)
LEMMA RanksAre ==
  ASSUME NEW checked \in BOOLEAN, NEW raw \in FreeRaws(checked)
  PROVE  RankOf(checked, raw) = RankIs(checked, raw)
  <1>1. CASE checked
    <2>1. FreeRaws(checked) = (27..53 \cup 63..71) \cup 75..80
      BY ZenonT(30), <1>1, FreeRawsAre DEF FreeIs
    <2>2. PICK a \in Int, b \in Int, c \in Int, d \in Int, e \in Int, f \in Int :
            a = 27 /\ b = 53 /\ c = 63 /\ d = 71 /\ e = 75 /\ f = 80
      OBVIOUS
    <2>3. PICK S : S = FreeRaws(checked) /\ S = (a..b \cup c..d) \cup e..f
      BY <2>1, <2>2
    <2>4. Cardinality(NoneGreater(S, raw)) = PlaceInThree(raw, a, b, c, d, e)
      <3>1. a <= b /\ b < c /\ c <= d /\ d < e /\ e <= f /\ raw \in S
        BY <2>2, <2>3
      <3>2. IsThree(S, a, b, c, d, e, f)
        BY <2>3 DEF IsThree
      <3> QED
        BY <3>1, <3>2, RankInThree
    <2>5. raw \in Int
      BY <2>1
    <2>6. RankOf(checked, raw) = Cardinality(NoneGreater(S, raw))
      BY <2>3 DEF RankOf, NoneGreater
    <2>7. RankOf(checked, raw) = PlaceInThree(raw, 27, 53, 63, 71, 75)
      BY <2>2, <2>4, <2>6
    <2>8. PlaceInThree(raw, 27, 53, 63, 71, 75) =
            IF raw <= 53 THEN raw - 26 ELSE IF raw <= 71 THEN raw - 35 ELSE raw - 38
      BY <2>5 DEF PlaceInThree
    <2> QED
      BY <1>1, <2>7, <2>8 DEF RankIs
  <1>2. CASE ~checked
    <2>1. FreeRaws(checked) = (81..161 \cup 189..215) \cup 225..242
      BY <1>2, FreeRawsAre DEF FreeIs
    <2>2. PICK a \in Int, b \in Int, c \in Int, d \in Int, e \in Int, f \in Int :
            a = 81 /\ b = 161 /\ c = 189 /\ d = 215 /\ e = 225 /\ f = 242
      OBVIOUS
    <2>3. PICK S : S = FreeRaws(checked) /\ S = (a..b \cup c..d) \cup e..f
      BY <2>1, <2>2
    <2>4. Cardinality(NoneGreater(S, raw)) = PlaceInThree(raw, a, b, c, d, e)
      <3>1. a <= b /\ b < c /\ c <= d /\ d < e /\ e <= f /\ raw \in S
        BY <2>2, <2>3
      <3>2. IsThree(S, a, b, c, d, e, f)
        BY <2>3 DEF IsThree
      <3> QED
        BY <3>1, <3>2, RankInThree
    <2>5. raw \in Int
      BY <2>1
    <2>6. RankOf(checked, raw) = Cardinality(NoneGreater(S, raw))
      BY <2>3 DEF RankOf, NoneGreater
    <2>7. RankOf(checked, raw) = PlaceInThree(raw, 81, 161, 189, 215, 225)
      BY <2>2, <2>4, <2>6
    <2> QED
      BY <1>2, <2>5, <2>7 DEF RankIs, PlaceInThree
  <1> QED
    BY <1>1, <1>2

(* No two have the same.                                                   *)
LEMMA RanksDiffer ==
  ASSUME NEW checked \in BOOLEAN, NEW raw \in FreeRaws(checked), NEW other \in FreeRaws(checked),
         RankOf(checked, raw) = RankOf(checked, other)
  PROVE  raw = other
  <1>1. RankIs(checked, raw) = RankIs(checked, other)
    BY RanksAre
  <1>2. raw \in FreeIs(checked) /\ other \in FreeIs(checked)
    BY FreeRawsAre
  <1>3. CASE checked
    <2>1. raw \in (27..53 \cup 63..71) \cup 75..80 /\ other \in (27..53 \cup 63..71) \cup 75..80
      BY <1>2, <1>3 DEF FreeIs
    <2> QED
      BY <1>1, <1>3, <2>1 DEF RankIs
  <1>4. CASE ~checked
    <2>1. raw \in (81..161 \cup 189..215) \cup 225..242 /\ other \in (81..161 \cup 189..215) \cup 225..242
      BY <1>2, <1>4 DEF FreeIs
    <2> QED
      BY <1>1, <1>4, <2>1 DEF RankIs
  <1> QED
    BY <1>3, <1>4

TableSize(checked) == IF checked THEN 42 ELSE 126

(* And none is beyond the characters of the table.                         *)
LEMMA RankInTable ==
  ASSUME NEW checked \in BOOLEAN, NEW raw \in FreeRaws(checked)
  PROVE  RankOf(checked, raw) \in 1..TableSize(checked)
  <1>1. RankOf(checked, raw) = RankIs(checked, raw)
    BY RanksAre
  <1>2. raw \in FreeIs(checked)
    BY FreeRawsAre
  <1> QED
    BY <1>1, <1>2 DEF FreeIs, RankIs, TableSize

(* A sequence after another.                                               *)
IsConcat(w, s, m, t, n, D) ==
  /\ w \in Seq(D) /\ Len(w) = m + n
  /\ \A j \in 1..m : w[j] = s[j]
  /\ \A j \in 1..n : w[m + j] = t[j]

(* Where the elements of a concatenation come from.                        *)
LEMMA ConcatIs ==
  ASSUME NEW D, NEW s \in Seq(D), NEW t \in Seq(D), NEW m \in Nat, m = Len(s), NEW n \in Nat, n = Len(t)
  PROVE  IsConcat(s \o t, s, m, t, n, D)
  <1>1. PICK w : w = s \o t
    OBVIOUS
  <1>2. /\ w \in Seq(D) /\ Len(w) = Len(s) + Len(t)
        /\ \A j \in 1..Len(s) + Len(t) : w[j] = IF j <= Len(s) THEN s[j] ELSE t[j - Len(s)]
    BY <1>1, ConcatProperties
  <1>3. /\ Len(w) = m + n
        /\ \A j \in 1..m + n : w[j] = IF j <= m THEN s[j] ELSE t[j - m]
    BY <1>2
  <1>4. \A j \in 1..m : w[j] = s[j]
    BY <1>3
  <1>5. \A j \in 1..n : w[m + j] = t[j]
    <2>1. \A j \in 1..n : m + j \in 1..m + n /\ ~(m + j <= m) /\ (m + j) - m = j
      OBVIOUS
    <2> QED
      BY <1>3, <2>1
  <1> QED
    BY <1>1, <1>2, <1>3, <1>4, <1>5 DEF IsConcat

CheckedChar(r) ==
  IF r = 1 THEN 0 ELSE IF r = 2 THEN 9 ELSE IF r = 3 THEN 10 ELSE IF r = 4 THEN 13 ELSE IF r = 5 THEN 32
  ELSE IF r <= 31 THEN r + 91 ELSE IF r <= 41 THEN r + 16 ELSE 46

(* The characters of the tables.                                           *)
LEMMA CharsAre ==
  ASSUME NEW checked \in BOOLEAN, NEW r \in 1..TableSize(checked)
  PROVE  SingleChars(checked)[r] = IF checked THEN CheckedChar(r) ELSE r - 1
  <1>1. CASE ~checked
    <2>1. SingleChars(checked) = [n \in 1..(125 - 0 + 1) |-> 0 + n - 1]
      BY <1>1 DEF SingleChars
    <2>2. r \in 1..126
      BY <1>1 DEF TableSize
    <2> QED
      BY <1>1, <2>1, <2>2
  <1>2. CASE checked
    <2> DEFINE a == <<0, 9, 10, 13, 32>>
               b == [n \in 1..(122 - 97 + 1) |-> 97 + n - 1]
               c == [n \in 1..(57 - 48 + 1) |-> 48 + n - 1]
               d == <<46>>
    <2>1. SingleChars(checked) = ((a \o b) \o c) \o d
      BY <1>2 DEF SingleChars
    <2>2. a \in Seq(Int) /\ Len(a) = 5 /\ a[1] = 0 /\ a[2] = 9 /\ a[3] = 10 /\ a[4] = 13 /\ a[5] = 32
      <3>1. a \in Seq(Int)
        OBVIOUS
      <3>2. Len(a) = 5
        OBVIOUS
      <3>3. a[1] = 0 /\ a[2] = 9 /\ a[3] = 10 /\ a[4] = 13 /\ a[5] = 32
        OBVIOUS
      <3> QED
        BY <3>1, <3>2, <3>3
    <2>3. b \in Seq(Int) /\ Len(b) = 26 /\ \A n \in 1..26 : b[n] = n + 96
      <3>1. b \in [1..26 -> Int]
        OBVIOUS
      <3>2. b \in Seq(Int) /\ Len(b) = 26
        BY <3>1
      <3>3. \A n \in 1..26 : b[n] = n + 96
        OBVIOUS
      <3> QED
        BY <3>2, <3>3
    <2>4. c \in Seq(Int) /\ Len(c) = 10 /\ \A n \in 1..10 : c[n] = n + 47
      <3>1. c \in [1..10 -> Int]
        OBVIOUS
      <3>2. c \in Seq(Int) /\ Len(c) = 10
        BY <3>1
      <3>3. \A n \in 1..10 : c[n] = n + 47
        OBVIOUS
      <3> QED
        BY <3>2, <3>3
    <2>5. d \in Seq(Int) /\ Len(d) = 1 /\ d[1] = 46
      OBVIOUS
    <2> HIDE DEF a, b, c, d
    <2>6. PICK ab : ab \in Seq(Int) /\ ab = a \o b /\ IsConcat(ab, a, 5, b, 26, Int)
      <3>1. PICK p \in Nat, q \in Nat : p = 5 /\ q = 26 /\ p = Len(a) /\ q = Len(b)
        BY <2>2, <2>3
      <3>2. IsConcat(a \o b, a, p, b, q, Int)
        BY <2>2, <2>3, <3>1, ConcatIs
      <3>3. a \o b \in Seq(Int)
        BY <3>2 DEF IsConcat
      <3> QED
        BY <3>1, <3>2, <3>3
    <2>7. /\ Len(ab) = 31 /\ \A j \in 1..5 : ab[j] = a[j]
          /\ \A j \in 1..26 : ab[5 + j] = b[j]
      <3>1. Len(ab) = 31
        BY <2>6 DEF IsConcat
      <3>2. \A j \in 1..5 : ab[j] = a[j]
        BY <2>6 DEF IsConcat
      <3>3. \A j \in 1..26 : ab[5 + j] = b[j]
        BY <2>6 DEF IsConcat
      <3> QED
        BY <3>1, <3>2, <3>3
    <2>8. PICK abc : abc \in Seq(Int) /\ abc = ab \o c /\ IsConcat(abc, ab, 31, c, 10, Int)
      <3>1. PICK p \in Nat, q \in Nat : p = 31 /\ q = 10 /\ p = Len(ab) /\ q = Len(c)
        BY <2>4, <2>6, <2>7
      <3>2. IsConcat(ab \o c, ab, p, c, q, Int)
        BY <2>4, <2>6, <3>1, ConcatIs
      <3>3. ab \o c \in Seq(Int)
        BY <3>2 DEF IsConcat
      <3> QED
        BY <3>1, <3>2, <3>3
    <2>9. /\ Len(abc) = 41 /\ \A j \in 1..31 : abc[j] = ab[j]
          /\ \A j \in 1..10 : abc[31 + j] = c[j]
      <3>1. Len(abc) = 41
        BY <2>8 DEF IsConcat
      <3>2. \A j \in 1..31 : abc[j] = ab[j]
        BY <2>8 DEF IsConcat
      <3>3. \A j \in 1..10 : abc[31 + j] = c[j]
        BY <2>8 DEF IsConcat
      <3> QED
        BY <3>1, <3>2, <3>3
    <2>10. PICK s : s \in Seq(Int) /\ s = abc \o d /\ IsConcat(s, abc, 41, d, 1, Int)
      <3>1. PICK p \in Nat, q \in Nat : p = 41 /\ q = 1 /\ p = Len(abc) /\ q = Len(d)
        BY <2>5, <2>8, <2>9
      <3>2. IsConcat(abc \o d, abc, p, d, q, Int)
        BY <2>5, <2>8, <3>1, ConcatIs
      <3>3. abc \o d \in Seq(Int)
        BY <3>2 DEF IsConcat
      <3> QED
        BY <3>1, <3>2, <3>3
    <2>11. /\ Len(s) = 42 /\ \A j \in 1..41 : s[j] = abc[j]
          /\ \A j \in 1..1 : s[41 + j] = d[j]
      <3>1. Len(s) = 42
        BY <2>10 DEF IsConcat
      <3>2. \A j \in 1..41 : s[j] = abc[j]
        BY <2>10 DEF IsConcat
      <3>3. \A j \in 1..1 : s[41 + j] = d[j]
        BY <2>10 DEF IsConcat
      <3> QED
        BY <3>1, <3>2, <3>3
    <2>12. SingleChars(checked)[r] = s[r] /\ r \in 1..42
      BY <1>2, <2>1, <2>6, <2>8, <2>10 DEF TableSize
    <2>13. CASE r <= 5
      <3>0. r \in 1..5 /\ r \in 1..31 /\ r \in 1..41
        BY <2>12, <2>13
      <3>1. s[r] = a[r]
        <4>1. s[r] = abc[r] /\ abc[r] = ab[r] /\ ab[r] = a[r]
          BY <2>7, <2>9, <2>11, <3>0
        <4> QED
          BY <4>1
      <3>2. r = 1 \/ r = 2 \/ r = 3 \/ r = 4 \/ r = 5
        BY <2>12, <2>13
      <3>3. s[r] = CheckedChar(r)
        BY <2>2, <3>1, <3>2 DEF CheckedChar
      <3> QED
        BY <1>2, <2>12, <3>3
    <2>14. CASE 5 < r /\ r <= 31
      <3>1. r - 5 \in 1..26 /\ 5 + (r - 5) = r
        BY <2>12, <2>14
      <3>2. s[r] = b[r - 5]
        <4>1. r \in 1..31 /\ r \in 1..41
          BY <2>12, <2>14
        <4>2. s[r] = abc[r] /\ abc[r] = ab[r]
          BY <2>9, <2>11, <4>1
        <4>3. ab[5 + (r - 5)] = b[r - 5]
          BY <2>7, <3>1
        <4> QED
          BY <3>1, <4>2, <4>3
      <3>3. s[r] = CheckedChar(r)
        <4>0. b[r - 5] = (r - 5) + 96
          BY <2>3, <3>1
        <4>1. s[r] = r + 91
          BY <2>12, <3>2, <4>0
        <4>2. CheckedChar(r) = r + 91
          BY <2>12, <2>14 DEF CheckedChar
        <4> QED
          BY <4>1, <4>2
      <3> QED
        BY <1>2, <2>12, <3>3
    <2>15. CASE 31 < r /\ r <= 41
      <3>1. r - 31 \in 1..10 /\ 31 + (r - 31) = r
        BY <2>12, <2>15
      <3>2. s[r] = c[r - 31]
        <4>1. r \in 1..41
          BY <2>12, <2>15
        <4>2. s[r] = abc[r]
          BY <2>11, <4>1
        <4>3. abc[31 + (r - 31)] = c[r - 31]
          BY <2>9, <3>1
        <4> QED
          BY <3>1, <4>2, <4>3
      <3>3. s[r] = CheckedChar(r)
        <4>1. s[r] = r + 16
          BY SMTT(30), <2>4, <2>12, <3>1, <3>2
        <4>2. CheckedChar(r) = r + 16
          BY <2>12, <2>15 DEF CheckedChar
        <4> QED
          BY <4>1, <4>2
      <3> QED
        BY <1>2, <2>12, <3>3
    <2>16. CASE r = 42
      <3>1. s[r] = d[1]
        <4>1. 1 \in 1..1 /\ 41 + 1 = r
          BY <2>16
        <4>2. s[41 + 1] = d[1]
          BY <2>11, <4>1
        <4> QED
          BY <4>1, <4>2
      <3>2. s[r] = CheckedChar(r)
        BY <2>5, <2>16, <3>1 DEF CheckedChar
      <3> QED
        BY <1>2, <2>12, <3>2
    <2> QED
      BY <2>12, <2>13, <2>14, <2>15, <2>16
  <1> QED
    BY <1>1, <1>2

(* None is there twice.                                                    *)
LEMMA CharsDiffer ==
  ASSUME NEW checked \in BOOLEAN, NEW r \in 1..TableSize(checked),
         NEW q \in 1..TableSize(checked), SingleChars(checked)[r] = SingleChars(checked)[q]
  PROVE  r = q
  <1>1. CASE checked
    <2>1. CheckedChar(r) = CheckedChar(q) /\ r \in 1..42 /\ q \in 1..42
      BY <1>1, CharsAre DEF TableSize
    <2> QED
      BY <2>1 DEF CheckedChar
  <1>2. CASE ~checked
    <2>1. r - 1 = q - 1 /\ r \in 1..126 /\ q \in 1..126
      BY <1>2, CharsAre DEF TableSize
    <2> QED
      BY <2>1
  <1> QED
    BY <1>1, <1>2

(* So many trits, and no greater number.                                   *)
LEMMA OffsetBounded ==
  ASSUME NEW trits \in Seq(Trit), Len(trits) \in 0..16
  PROVE  PayloadToOffset(trits) < ThreeTo[Len(trits) + 1]
  <1>1. PICK count \in 0..16 : count = Len(trits)
    OBVIOUS
  <1>2. PICK f \in [0..count -> Nat] :
          /\ PayloadToOffset(trits) = f[count] /\ f[0] = 0
          /\ \A j \in 1..count : f[j] = 3 * f[j - 1] + (trits[j] + 1)
    BY <1>1, OffsetUnfolds
  <1> DEFINE Good == {j \in 0..count : f[j] < ThreeTo[j + 1]}
  <1>3. 0 \in Good
    <2>1. ThreeTo[0 + 1] = 1 /\ 0 \in 0..count
      BY DEF ThreeTo
    <2> QED
      BY <1>2, <2>1
  <1>4. ASSUME NEW j \in 0..count - 1, j \in Good PROVE j + 1 \in Good
    <2>1. j + 1 \in 1..count /\ j + 1 \in 0..count /\ (j + 1) - 1 = j /\ j + 1 \in 1..16
      OBVIOUS
    <2>2. PICK p \in Nat : p = ThreeTo[j + 1] /\ ThreeTo[(j + 1) + 1] = 3 * p
      BY <2>1, ThreeTimes
    <2>3. PICK g \in Nat : g = f[j] /\ g < p
      <3>1. f[j] \in Nat
        BY <1>2
      <3> QED
        BY <1>4, <2>2, <3>1
    <2>4. PICK e \in 0..2 : e = trits[j + 1] + 1
      <3>1. trits[j + 1] \in Trit
        BY <1>1, <2>1
      <3>2. trits[j + 1] + 1 \in 0..2
        BY <3>1 DEF Trit
      <3> QED
        BY <3>2
    <2>5. f[j + 1] = 3 * g + e
      BY <1>2, <2>1, <2>3, <2>4
    <2>6. 3 * g + e < 3 * p
      BY SMTT(30), <2>3
    <2> QED
      BY <2>1, <2>2, <2>5, <2>6
  <1>5. 0..count \subseteq Good
    <2> HIDE DEF Good
    <2>1. 0 \in Int /\ count \in Int
      OBVIOUS
    <2> QED
      BY <1>3, <1>4, <2>1, IntervalInduction
  <1>6. count \in Good
    <2>1. count \in 0..count
      OBVIOUS
    <2> QED
      BY <1>5, <2>1
  <1> QED
    BY <1>1, <1>2, <1>6

(* An entry's tryte: a whole tryte, of the role that stands alone.         *)
IsAlone(t, checked) ==
  /\ t \in Tryte /\ SequenceLength(t) = 1 /\ GetRole(t) = "single" /\ CrcHolds(checked, <<t>>)

(* To stand alone is to be expected alone.                                 *)
LEMMA AloneIs ==
  ASSUME NEW t \in Tryte
  PROVE  SequenceLength(t) = 1 <=> GetRole(t) = "single"
  <1>1. Trits4(t)
    BY TryteHasTrits
  <1>2. GetRole(t) = "single" <=> /\ t[1] = 1 /\ t[2] # -1 /\ ~(t[2] = 1 /\ t[3] = -1)
                                  /\ ~(t[2] = 1 /\ t[3] = 1 /\ t[4] = -1)
    BY <1>1, RoleIs DEF Trits4, Trit
  <1>3. SequenceLength(t) = 1 <=> /\ t[1] = 1 /\ t[2] # -1 /\ ~(t[2] = 1 /\ t[3] = -1)
                                  /\ ~(t[2] = 1 /\ t[3] = 1 /\ t[4] = -1)
    BY LengthIs
  <1> QED
    BY <1>2, <1>3

(* Every entry of the table stands alone, and its check holds.             *)
LEMMA EntryIsAlone ==
  ASSUME NEW checked \in BOOLEAN, NEW raw \in FreeRaws(checked)
  PROVE  /\ IsAlone(TryteOf(checked, raw), checked)
         /\ \A j \in 1..PatternTrits(checked) :
              TryteOf(checked, raw)[1 + j] = ExtractTrits(raw, PatternTrits(checked))[j]
  <1>1. raw \in Nat
    BY DEF FreeRaws, Raws
  <1>2. PICK c \in Nat : c = PatternTrits(checked) /\ c \in 4..5
    BY <1>1, PatternIs
  <1>3. c + 1 = 6 - CheckTrits(checked)
    BY <1>2 DEF PatternTrits, TryteLength, CheckTrits
  <1>4. PICK p : p = PatternOf(checked, raw) /\ IsPattern(p, raw, c)
    BY <1>1, <1>2, PatternIs
  <1>5. /\ p \in Seq(Trit) /\ Len(p) = c + 1 /\ p[1] = 1
        /\ \A j \in 1..c : p[1 + j] = ExtractTrits(raw, c)[j]
    BY <1>4 DEF IsPattern
  <1>6. PICK s : s = <<p>>
    OBVIOUS
  <1>7. s \in [1..1 -> Seq(Trit)] /\ s[1] = p
    BY <1>5, <1>6
  <1>8. PICK w : w = WithCheckTrit(checked, s)
    OBVIOUS
  <1>9. IsCompleted(w, s, checked, 1)
    <2>1. \A k \in 2..1 : Len(s[k]) = 6
      OBVIOUS
    <2>2. Len(s[1]) = 6 - CheckTrits(checked)
      BY <1>3, <1>5, <1>7
    <2>3. PICK n \in Nat \ {0} : n = 1
      OBVIOUS
    <2>4. IsCompleted(WithCheckTrit(checked, s), s, checked, n)
      <3>1. s \in [1..n -> Seq(Trit)] /\ \A k \in 2..n : Len(s[k]) = 6
        BY <1>7, <2>1, <2>3
      <3> QED
        BY <2>2, <3>1, CheckTritCompletes
    <2> QED
      BY <1>8, <2>3, <2>4
  <1>10. PICK t : t = w[1]
    OBVIOUS
  <1>11. w \in Seq(Tryte) /\ Len(w) = 1 /\ CrcHolds(checked, w) /\ \A j \in 1..c + 1 : t[j] = p[j]
    BY <1>5, <1>7, <1>9, <1>10 DEF IsCompleted
  <1>12. t \in Tryte /\ w = <<t>>
    BY <1>10, <1>11
  <1>13. t = TryteOf(checked, raw)
    BY <1>4, <1>6, <1>8, <1>10 DEF TryteOf
  <1>14. GetRole(p) = "single"
    BY <1>4 DEF FreeRaws
  <1>15. GetRole(t) = "single"
    <2>1. t[1] = p[1] /\ t[2] = p[2] /\ t[3] = p[3] /\ t[4] = p[4]
      <3>1. 1 \in 1..c + 1 /\ 2 \in 1..c + 1 /\ 3 \in 1..c + 1 /\ 4 \in 1..c + 1
        BY <1>2
      <3> QED
        BY <1>11, <3>1
    <2>2. Trits4(t)
      BY <1>12, TryteHasTrits
    <2>3. Trits4(p)
      BY <2>1, <2>2 DEF Trits4
    <2> QED
      BY <1>14, <2>1, <2>2, <2>3, RoleIs
  <1>16. IsAlone(t, checked)
    BY <1>11, <1>12, <1>15, AloneIs DEF IsAlone
  <1>17. \A j \in 1..c : t[1 + j] = ExtractTrits(raw, c)[j]
    <2>1. \A j \in 1..c : 1 + j \in 1..c + 1
      OBVIOUS
    <2> QED
      BY <1>5, <1>11, <2>1
  <1> QED
    BY <1>2, <1>13, <1>16, <1>17

(* The numbers of the patterns fit their trits.                            *)
LEMMA RawsFit ==
  ASSUME NEW checked \in BOOLEAN, NEW raw \in Raws(checked)
  PROVE  /\ PatternTrits(checked) \in 0..16 /\ raw \in Nat
         /\ raw < ThreeTo[PatternTrits(checked) + 1]
  <1>1. ThreeTo[4 + 1] = 81 /\ ThreeTo[5 + 1] = 243
    BY DEF ThreeTo
  <1>2. CASE checked
    <2>1. PatternTrits(checked) = 4 /\ raw \in 0..80
      BY <1>2 DEF PatternTrits, TryteLength, CheckTrits, Raws
    <2> QED
      BY <1>1, <2>1
  <1>3. CASE ~checked
    <2>1. PatternTrits(checked) = 5 /\ raw \in 0..242
      BY <1>3 DEF PatternTrits, TryteLength, CheckTrits, Raws
    <2> QED
      BY <1>1, <2>1
  <1> QED
    BY <1>2, <1>3

(* No two entries have the same tryte.                                     *)
LEMMA TrytesDiffer ==
  ASSUME NEW checked \in BOOLEAN, NEW raw \in FreeRaws(checked), NEW other \in FreeRaws(checked),
         TryteOf(checked, raw) = TryteOf(checked, other)
  PROVE  raw = other
  <1>1. raw \in Raws(checked) /\ other \in Raws(checked)
    BY DEF FreeRaws
  <1>2. PICK c \in 0..16 : /\ c = PatternTrits(checked) /\ raw \in Nat /\ other \in Nat
                           /\ raw < ThreeTo[c + 1] /\ other < ThreeTo[c + 1]
    BY <1>1, RawsFit
  <1>3. PICK x : x = ExtractTrits(raw, c)
    OBVIOUS
  <1>4. PICK y : y = ExtractTrits(other, c)
    OBVIOUS
  <1>5. x \in Seq(Trit) /\ Len(x) = c /\ y \in Seq(Trit) /\ Len(y) = c
    <2>1. c \in Nat
      OBVIOUS
    <2> QED
      BY <1>2, <1>3, <1>4, <2>1, ExtractTritsIs
  <1>6. \A j \in 1..c : x[j] = y[j]
    BY <1>2, <1>3, <1>4, EntryIsAlone
  <1>7. x = y
    BY <1>5, <1>6, SeqEqual
  <1>8. PayloadToOffset(x) = raw /\ PayloadToOffset(y) = other
    BY <1>2, <1>3, <1>4, OffsetReadsBack
  <1> QED
    BY <1>7, <1>8

(* The table pairs code points and trytes one to one.                      *)
LEMMA TablePairs ==
  ASSUME NEW checked \in BOOLEAN, NEW entry \in SingleTryteTable[checked]
  PROVE  /\ IsAlone(entry.tryte, checked)
         /\ \A other \in SingleTryteTable[checked] :
              entry.cp = other.cp \/ entry.tryte = other.tryte => entry = other
  <1>1. SingleTryteTable[checked] = {EntryOf(checked, raw) : raw \in FreeRaws(checked)}
    BY TableIs
  <1>2. \A raw \in FreeRaws(checked) :
          /\ EntryOf(checked, raw).cp = SingleChars(checked)[RankOf(checked, raw)]
          /\ EntryOf(checked, raw).tryte = TryteOf(checked, raw)
    BY DEF EntryOf
  <1>3. PICK raw \in FreeRaws(checked) : entry = EntryOf(checked, raw)
    BY <1>1
  <1>4. IsAlone(entry.tryte, checked)
    BY <1>2, <1>3, EntryIsAlone
  <1>5. ASSUME NEW other \in SingleTryteTable[checked],
               entry.cp = other.cp \/ entry.tryte = other.tryte
        PROVE  entry = other
    <2>1. PICK r \in FreeRaws(checked) : other = EntryOf(checked, r)
      BY <1>1
    <2>2. CASE entry.cp = other.cp
      <3>1. SingleChars(checked)[RankOf(checked, raw)] = SingleChars(checked)[RankOf(checked, r)]
        BY <1>2, <1>3, <2>1, <2>2
      <3>2. RankOf(checked, raw) \in 1..TableSize(checked) /\ RankOf(checked, r) \in 1..TableSize(checked)
        BY RankInTable
      <3>3. RankOf(checked, raw) = RankOf(checked, r)
        BY <3>1, <3>2, CharsDiffer
      <3>4. raw = r
        BY <3>3, RanksDiffer
      <3> QED
        BY <1>3, <2>1, <3>4
    <2>3. CASE entry.tryte = other.tryte
      <3>1. TryteOf(checked, raw) = TryteOf(checked, r)
        BY <1>2, <1>3, <2>1, <2>3
      <3>2. raw = r
        BY <3>1, TrytesDiffer
      <3> QED
        BY <1>3, <2>1, <3>2
    <2> QED
      BY <1>5, <2>2, <2>3
  <1> QED
    BY <1>4, <1>5

(* What charT_u8's table holds: code points 0 to 125, and every tryte that *)
(* stands alone.                                                           *)
LEMMA U8Singles ==
  ASSUME NEW cp
  PROVE  IsSingle(FALSE, cp) <=> cp \in 0..125
  <1>0. PICK checked \in BOOLEAN : checked = FALSE
    OBVIOUS
  <1>1. SingleTryteTable[checked] = {EntryOf(checked, raw) : raw \in FreeRaws(checked)}
    BY TableIs
  <1>2. TableSize(checked) = 126 /\ FreeRaws(checked) = (81..161 \cup 189..215) \cup 225..242
    BY <1>0, FreeRawsAre DEF TableSize, FreeIs
  <1>3. ASSUME NEW raw \in FreeRaws(checked)
        PROVE  EntryOf(checked, raw).cp = RankIs(checked, raw) - 1 /\ RankIs(checked, raw) \in 1..126
    <2>1. RankOf(checked, raw) = RankIs(checked, raw) /\ RankOf(checked, raw) \in 1..TableSize(checked)
      BY RanksAre, RankInTable
    <2>2. SingleChars(checked)[RankOf(checked, raw)] = RankOf(checked, raw) - 1
      BY <1>0, <2>1, CharsAre
    <2> QED
      BY <1>2, <2>1, <2>2 DEF EntryOf
  <1>4. ASSUME IsSingle(checked, cp) PROVE cp \in 0..125
    <2>1. PICK entry \in SingleTryteTable[checked] : entry.cp = cp
      BY <1>4 DEF IsSingle
    <2>2. PICK raw \in FreeRaws(checked) : entry = EntryOf(checked, raw)
      BY <1>1, <2>1
    <2>3. cp = RankIs(checked, raw) - 1 /\ RankIs(checked, raw) \in 1..126
      BY <1>3, <2>1, <2>2
    <2> QED
      BY <2>3
  <1>5. ASSUME cp \in 0..125 PROVE IsSingle(checked, cp)
    <2> DEFINE raw == IF cp <= 80 THEN cp + 81 ELSE IF cp <= 107 THEN cp + 108 ELSE cp + 117
    <2>1. raw \in FreeRaws(checked) /\ RankIs(checked, raw) - 1 = cp
      <3>1. CASE cp <= 80
        <4>1. raw \in 81..161 /\ raw = cp + 81
          BY <1>5, <3>1
        <4> QED
          BY <1>0, <1>2, <1>5, <4>1 DEF RankIs
      <3>2. CASE 80 < cp /\ cp <= 107
        <4>1. raw \in 189..215 /\ raw = cp + 108
          BY <1>5, <3>2
        <4> QED
          BY <1>0, <1>2, <1>5, <4>1 DEF RankIs
      <3>3. CASE 107 < cp
        <4>1. raw \in 225..242 /\ raw = cp + 117
          BY <1>5, <3>3
        <4> QED
          BY <1>0, <1>2, <1>5, <4>1 DEF RankIs
      <3> QED
        BY <1>5, <3>1, <3>2, <3>3
    <2> HIDE DEF raw
    <2>2. EntryOf(checked, raw) \in SingleTryteTable[checked] /\ EntryOf(checked, raw).cp = cp
      BY <1>1, <1>3, <2>1
    <2> QED
      BY <2>2 DEF IsSingle
  <1> QED
    BY <1>0, <1>4, <1>5

LEMMA TryteSeq ==
  ASSUME NEW t \in Tryte
  PROVE  t \in Seq(Trit) /\ Len(t) = 6
  <1>1. PICK n \in Nat : n = 6
    OBVIOUS
  <1>2. t \in [1..n -> Trit]
    BY <1>1 DEF Tryte, TryteLength
  <1>3. t \in Seq(Trit) /\ Len(t) = n
    BY <1>2
  <1> QED
    BY <1>1, <1>3

(* Every tryte that stands alone is in the table of charT_u8.              *)
LEMMA U8Patterns ==
  ASSUME NEW t \in Tryte, SequenceLength(t) = 1
  PROVE  KnownPattern(FALSE, t)
  <1>0. PICK checked \in BOOLEAN : checked = FALSE
    OBVIOUS
  <1>1. SingleTryteTable[checked] = {EntryOf(checked, raw) : raw \in FreeRaws(checked)}
    BY TableIs
  <1>2. PICK d : d = [j \in 1..5 |-> t[j + 1]]
    OBVIOUS
  <1>3. d \in [1..5 -> Trit]
    <2>1. \A j \in 1..5 : t[j + 1] \in Trit
      BY DEF Tryte, TryteLength
    <2> QED
      BY <1>2, <2>1
  <1>4. d \in Seq(Trit) /\ Len(d) = 5
    <2>1. PICK n \in Nat : n = 5
      OBVIOUS
    <2>2. d \in [1..n -> Trit]
      BY <1>3, <2>1
    <2>3. d \in Seq(Trit) /\ Len(d) = n
      BY <2>2
    <2> QED
      BY <2>1, <2>3
  <1>5. PICK raw \in Nat : raw = PayloadToOffset(d) /\ ExtractTrits(raw, 5) = d /\ raw < 243
    <2>1. PayloadToOffset(d) \in Nat /\ ExtractTrits(PayloadToOffset(d), Len(d)) = d
      BY <1>4, DigitsReadBack
    <2>2. PayloadToOffset(d) < ThreeTo[Len(d) + 1]
      <3>1. Len(d) \in 0..16
        BY <1>4
      <3> QED
        BY <1>4, <3>1, OffsetBounded
    <2>3. ThreeTo[5 + 1] = 243
      BY DEF ThreeTo
    <2> QED
      BY <1>4, <2>1, <2>2, <2>3
  <1>6. PatternTrits(checked) = 5 /\ CheckTrits(checked) = 0
    BY <1>0 DEF PatternTrits, TryteLength, CheckTrits
  <1>7. PICK p : p = PatternOf(checked, raw) /\ IsPattern(p, raw, 5)
    BY <1>6, PatternIs
  <1>8. p \in Seq(Trit) /\ Len(p) = 6 /\ p[1] = 1 /\ \A j \in 1..5 : p[1 + j] = d[j]
    BY <1>5, <1>7 DEF IsPattern
  <1>9. GetRole(t) = "single"
    BY AloneIs
  <1>10. t[1] = 1
    <2>1. Trits4(t)
      BY TryteHasTrits
    <2> QED
      BY <1>9, <2>1, RoleIs DEF Trits4, Trit
  <1>11. p = t
    <2>1. t \in Seq(Trit) /\ Len(t) = 6
      BY TryteSeq
    <2>2. ASSUME NEW k \in 1..6 PROVE p[k] = t[k]
      <3>1. CASE k = 1
        BY <1>8, <1>10, <3>1
      <3>2. CASE k # 1
        <4>1. k - 1 \in 1..5 /\ 1 + (k - 1) = k /\ (k - 1) + 1 = k
          BY <3>2
        <4>2. p[k] = d[k - 1] /\ d[k - 1] = t[k]
          BY <1>2, <1>8, <4>1
        <4> QED
          BY <4>2
      <3> QED
        BY <3>1, <3>2
    <2> QED
      BY <1>8, <2>1, <2>2, SeqEqual
  <1>12. raw \in FreeRaws(checked)
    <2>1. raw \in Raws(checked)
      BY <1>0, <1>5 DEF Raws
    <2>2. GetRole(PatternOf(checked, raw)) = "single"
      BY <1>7, <1>9, <1>11
    <2> QED
      BY <2>1, <2>2 DEF FreeRaws
  <1>13. WithCheckTrit(checked, <<p>>) = <<p>>
    BY <1>0 DEF WithCheckTrit
  <1>14. TryteOf(checked, raw) = t
    BY <1>7, <1>11, <1>13 DEF TryteOf
  <1>15. EntryOf(checked, raw) \in SingleTryteTable[checked] /\ EntryOf(checked, raw).tryte = t
    BY <1>1, <1>12, <1>14 DEF EntryOf
  <1> QED
    BY <1>0, <1>15 DEF KnownPattern

-----------------------------------------------------------------------------
(* What Payload takes from a symbol is what EncodeForm put there.          *)

RoomsFilled(p, s, checked, n, last) ==
  \A k \in 1..last : \A j \in 1..Room(checked, n, k) :
    p[RoomSum(checked, n, k - 1) + j] = s[k][TritsOfMarker(n, k) + j]

(* Payload collects the rooms of a symbol.                                 *)
LEMMA PayloadIs ==
  ASSUME NEW checked \in BOOLEAN, NEW n \in 2..4, NEW s \in Seq(Tryte), Len(s) = n
  PROVE  /\ Payload(checked, s) \in Seq(Trit)
         /\ Len(Payload(checked, s)) = RoomSum(checked, n, n)
         /\ RoomsFilled(Payload(checked, s), s, checked, n, n)
  <1> DEFINE RS(k) == RoomSum(checked, n, k)
  <1>1. /\ \A k \in 0..n : RS(k) \in 0..RS(n)
        /\ \A k \in 1..n : RS(k) = RS(k - 1) + Room(checked, n, k)
    BY RoomUpToIs
  <1>2. RS(n) \in Nat /\ RS(0) = 0
    BY <1>1 DEF RoomSum
  <1> HIDE DEF RS
  <1> DEFINE slice(k) == SubSeq(s[k], Len(Marker(n, k)) + 1, Len(Marker(n, k)) + Room(checked, n, k))
  <1>3. ASSUME NEW k \in 1..n
        PROVE  /\ slice(k) \in Seq(Trit) /\ Len(slice(k)) = Room(checked, n, k)
               /\ \A j \in 1..Room(checked, n, k) : slice(k)[j] = s[k][TritsOfMarker(n, k) + j]
    <2>1. PICK m \in Nat : m = TritsOfMarker(n, k) /\ m = Len(Marker(n, k))
      <3>1. TritsOfMarker(n, k) = Len(Marker(n, k))
        BY MarkerIs
      <3>2. TritsOfMarker(n, k) \in Nat
        BY DEF TritsOfMarker
      <3> QED
        BY <3>1, <3>2
    <2>2. PICK e \in Nat, r \in Nat : r = Room(checked, n, k) /\ e = m + r /\ r \in 1..5 /\ e \in 1..6
      <3>1. /\ CheckTrits(checked) \in {0, 1} /\ Room(checked, n, k) \in 1..5
            /\ Room(checked, n, k) = 6 - TritsOfMarker(n, k) - (IF k = 1 THEN CheckTrits(checked) ELSE 0)
        BY RoomIs
      <3>2. PICK z \in {0, 1} : z = IF k = 1 THEN CheckTrits(checked) ELSE 0
        BY <3>1
      <3>3. PICK r \in 1..5 : r = Room(checked, n, k) /\ r = 6 - m - z
        BY <2>1, <3>1, <3>2
      <3>4. m + r \in 1..6 /\ m + r \in Nat
        BY <3>2, <3>3
      <3> QED
        BY <3>3, <3>4
    <2>3. PICK t \in Tryte : t = s[k]
      <3>1. s[k] \in Tryte
        OBVIOUS
      <3> QED
        BY <3>1
    <2>4. t \in Seq(Trit) /\ Len(t) = 6 /\ \A j \in 1..6 : t[j] \in Trit
      BY TryteSeq, TryteHasTrits
    <2>5. \A j \in m + 1..e : t[j] \in Trit
      <3>1. \A j \in m + 1..e : j \in 1..6
        BY <2>2
      <3> QED
        BY <2>4, <3>1
    <2>6. PICK c : c = SubSeq(t, m + 1, e)
      OBVIOUS
    <2>7. /\ c \in Seq(Trit) /\ Len(c) = IF m + 1 <= e THEN e - (m + 1) + 1 ELSE 0
          /\ \A j \in 1..e - (m + 1) + 1 : c[j] = t[m + 1 + j - 1]
      BY <2>5, <2>6, SubSeqProperties
    <2>8. e - (m + 1) + 1 = r /\ \A j \in 1..r : m + 1 + j - 1 = m + j
      BY <2>2
    <2>9. Len(c) = r
      BY <2>2, <2>7, <2>8
    <2>10. \A j \in 1..r : c[j] = t[m + j]
      BY <2>7, <2>8
    <2> QED
      BY <2>1, <2>2, <2>3, <2>6, <2>7, <2>9, <2>10
  <1> DEFINE parts == [k \in 1..n |-> slice(k)]
  <1>4. Payload(checked, s) = Joined(parts)
    BY DEF Payload
  <1>5. parts \in Seq(Seq(Trit)) /\ Len(parts) = n /\ \A k \in 1..n : parts[k] = slice(k)
    <2>1. \A k \in 1..n : slice(k) \in Seq(Trit)
      BY <1>3
    <2> HIDE DEF slice
    <2> QED
      BY <2>1
  <1> HIDE DEF parts
  <1>6. PICK R \in [0..n -> Seq(Trit)] :
          /\ Joined(parts) = R[n] /\ R[0] = <<>>
          /\ \A k \in 1..n : R[k] = R[k - 1] \o parts[k]
    <2>1. \E R \in [0..Len(parts) -> Seq(Trit)] :
            /\ Joined(parts) = R[Len(parts)] /\ R[0] = <<>>
            /\ \A k \in 1..Len(parts) : R[k] = R[k - 1] \o parts[k]
      BY <1>5, JoinedUnfolds
    <2> QED
      BY <1>5, <2>1
  <1> DEFINE Good == {k \in 0..n : Len(R[k]) = RS(k) /\ RoomsFilled(R[k], s, checked, n, k)}
  <1>7. 0 \in Good
    <2>1. RoomsFilled(R[0], s, checked, n, 0)
      BY DEF RoomsFilled
    <2>2. Len(R[0]) = 0
      BY <1>6
    <2>3. 0 \in 0..n
      OBVIOUS
    <2> QED
      BY <1>2, <2>1, <2>2, <2>3
  <1>8. ASSUME NEW m \in 0..n - 1, m \in Good PROVE m + 1 \in Good
    <2>1. m + 1 \in 1..n /\ m \in 0..n /\ m + 1 \in 0..n /\ (m + 1) - 1 = m
      OBVIOUS
    <2>2. PICK a \in Nat, b \in Nat : a = RS(m) /\ b = Room(checked, n, m + 1) /\ RS(m + 1) = a + b
      <3>1. Room(checked, n, m + 1) \in 1..5
        BY <2>1, RoomIs
      <3>2. RS(m) \in 0..RS(n) /\ RS(m + 1) = RS(m) + Room(checked, n, m + 1)
        BY <1>1, <2>1
      <3> QED
        BY <1>2, <3>1, <3>2
    <2>3. PICK f \in Seq(Trit) : f = R[m] /\ Len(f) = a /\ RoomsFilled(f, s, checked, n, m)
      <3>1. R[m] \in Seq(Trit)
        BY <2>1
      <3> QED
        BY <1>8, <2>2, <3>1
    <2>4. PICK c \in Seq(Trit) : /\ c = parts[m + 1] /\ Len(c) = b
                                 /\ \A j \in 1..b : c[j] = s[m + 1][TritsOfMarker(n, m + 1) + j]
      <3>1. /\ slice(m + 1) \in Seq(Trit) /\ Len(slice(m + 1)) = Room(checked, n, m + 1)
            /\ \A j \in 1..Room(checked, n, m + 1) : slice(m + 1)[j] = s[m + 1][TritsOfMarker(n, m + 1) + j]
        BY <1>3, <2>1
      <3>2. parts[m + 1] = slice(m + 1)
        BY <1>5, <2>1
      <3> HIDE DEF slice
      <3> QED
        BY <2>2, <3>1, <3>2
    <2>5. R[m + 1] = f \o c
      BY <1>6, <2>1, <2>3, <2>4
    <2>6. PICK g : g = R[m + 1] /\ IsConcat(g, f, a, c, b, Trit)
      BY <2>2, <2>3, <2>4, <2>5, ConcatIs
    <2>7. Len(g) = a + b /\ (\A j \in 1..a : g[j] = f[j]) /\ \A j \in 1..b : g[a + j] = c[j]
      BY <2>6 DEF IsConcat
    <2>8. ASSUME NEW k \in 1..m + 1, NEW j \in 1..Room(checked, n, k)
          PROVE  g[RS(k - 1) + j] = s[k][TritsOfMarker(n, k) + j]
      <3>1. CASE k = m + 1
        <4>1. j \in 1..b /\ RS(k - 1) = a
          BY <2>1, <2>2, <3>1
        <4> QED
          BY <2>4, <2>7, <3>1, <4>1
      <3>2. CASE k # m + 1
        <4>1. k \in 1..m /\ k \in 1..n
          BY <3>2
        <4>2. RS(k - 1) + j \in 1..a
          <5>1. Room(checked, n, k) \in 1..5
            BY <4>1, RoomIs
          <5>2. RS(k) = RS(k - 1) + Room(checked, n, k) /\ RS(k - 1) \in 0..RS(n)
            <6>1. k - 1 \in 0..n
              BY <4>1
            <6> QED
              BY <1>1, <4>1, <6>1
          <5>3. RS(k) <= RS(m)
            <6>1. CheckTrits(checked) \in {0, 1}
              BY DEF CheckTrits
            <6> QED
              BY SMTT(30), <4>1, <6>1 DEF RS, RoomSum
          <5>4. PICK u \in Nat, v \in 1..5 : u = RS(k - 1) /\ v = Room(checked, n, k) /\ u + v <= a
            <6>1. RS(k - 1) \in Nat
              BY <1>2, <5>2
            <6>2. RS(k - 1) + Room(checked, n, k) <= a
              BY <2>2, <5>2, <5>3
            <6> QED
              BY <5>1, <6>1, <6>2
          <5>5. u + j \in 1..a
            BY SMTT(30), <5>4
          <5> QED
            BY <5>4, <5>5
        <4>3. f[RS(k - 1) + j] = s[k][TritsOfMarker(n, k) + j]
          BY <2>3, <4>1 DEF RoomsFilled, RS
        <4> QED
          BY <2>7, <4>2, <4>3
      <3> QED
        BY <3>1, <3>2
    <2>9. RoomsFilled(g, s, checked, n, m + 1)
      BY <2>8 DEF RoomsFilled, RS
    <2> QED
      BY <2>1, <2>2, <2>6, <2>7, <2>9
  <1>9. n \in Good
    <2>1. 0..n \subseteq Good
      <3> HIDE DEF Good
      <3>1. 0 \in Int /\ n \in Int
        OBVIOUS
      <3> QED
        BY <1>7, <1>8, <3>1, IntervalInduction
    <2>2. n \in 0..n
      OBVIOUS
    <2> QED
      BY <2>1, <2>2
  <1>10. R[n] \in Seq(Trit)
    <2>1. n \in 0..n
      OBVIOUS
    <2> QED
      BY <2>1
  <1> QED
    BY <1>4, <1>6, <1>9, <1>10 DEF RS

(* Every trit of a payload has its room.                                   *)
HasRoom(q, checked, n) ==
  \E k \in 1..n : \E j \in 1..Room(checked, n, k) : q = RoomSum(checked, n, k - 1) + j

(* No payload trit is without a room.                                      *)
LEMMA RoomForAll ==
  ASSUME NEW checked \in BOOLEAN, NEW n \in 2..4, NEW q \in 1..RoomSum(checked, n, n)
  PROVE  HasRoom(q, checked, n)
  <1> DEFINE RS(k) == RoomSum(checked, n, k)
             Good == {k \in 0..n : \A r \in 1..RS(k) : HasRoom(r, checked, n)}
  <1>1. /\ \A k \in 0..n : RS(k) \in 0..RS(n)
        /\ \A k \in 1..n : RS(k) = RS(k - 1) + Room(checked, n, k)
    BY RoomUpToIs
  <1>2. RS(n) \in Nat /\ RS(0) = 0
    BY <1>1 DEF RoomSum
  <1> HIDE DEF RS
  <1>3. 0 \in Good
    BY <1>2
  <1>4. ASSUME NEW m \in 0..n - 1, m \in Good PROVE m + 1 \in Good
    <2>1. m + 1 \in 1..n /\ m \in 0..n /\ m + 1 \in 0..n /\ (m + 1) - 1 = m
      OBVIOUS
    <2>2. Room(checked, n, m + 1) \in 1..5 /\ RS(m) \in Nat /\ RS(m + 1) = RS(m) + Room(checked, n, m + 1)
      <3>1. RS(m) \in 0..RS(n)
        BY <1>1, <2>1
      <3>2. RS(m + 1) = RS((m + 1) - 1) + Room(checked, n, m + 1)
        BY <1>1, <2>1
      <3>3. Room(checked, n, m + 1) \in 1..5
        BY <2>1, RoomIs
      <3> QED
        BY <1>2, <2>1, <3>1, <3>2, <3>3
    <2>3. ASSUME NEW r \in 1..RS(m + 1) PROVE HasRoom(r, checked, n)
      <3>1. CASE r <= RS(m)
        <4>1. r \in 1..RS(m)
          BY <2>2, <3>1
        <4> QED
          BY <1>4, <4>1
      <3>2. CASE ~(r <= RS(m))
        <4>1. PICK j \in 1..Room(checked, n, m + 1) : r = RS(m) + j
          <5>1. r - RS(m) \in 1..Room(checked, n, m + 1) /\ r = RS(m) + (r - RS(m))
            BY <2>2, <3>2
          <5> QED
            BY <5>1
        <4>2. r = RS((m + 1) - 1) + j
          BY <2>1, <4>1
        <4> QED
          BY <2>1, <4>1, <4>2 DEF HasRoom, RS
      <3> QED
        BY <3>1, <3>2
    <2> QED
      BY <2>1, <2>3
  <1>5. n \in Good
    <2>1. 0..n \subseteq Good
      <3> HIDE DEF Good
      <3>1. 0 \in Int /\ n \in Int
        OBVIOUS
      <3> QED
        BY <1>3, <1>4, <3>1, IntervalInduction
    <2>2. n \in 0..n
      OBVIOUS
    <2> QED
      BY <2>1, <2>2
  <1> QED
    BY <1>5 DEF RS

(* The payload that was put into a form is the one that is taken out.      *)
LEMMA PayloadReadsBack ==
  ASSUME NEW checked \in BOOLEAN, NEW n \in 2..4, NEW payload \in Seq(Trit),
         Len(payload) = RoomSum(checked, n, n), NEW s, IsForm(s, checked, n, payload)
  PROVE  Payload(checked, s) = payload
  <1>1. s \in Seq(Tryte) /\ Len(s) = n
    BY DEF IsForm
  <1>2. PICK p \in Seq(Trit) : p = Payload(checked, s) /\ Len(p) = RoomSum(checked, n, n)
                               /\ RoomsFilled(p, s, checked, n, n)
    BY <1>1, PayloadIs
  <1>3. ASSUME NEW q \in 1..Len(p) PROVE p[q] = payload[q]
    <2>1. HasRoom(q, checked, n)
      BY <1>2, <1>3, RoomForAll
    <2>2. PICK k \in 1..n : \E j \in 1..Room(checked, n, k) : q = RoomSum(checked, n, k - 1) + j
      BY <2>1 DEF HasRoom
    <2>3. PICK j \in 1..Room(checked, n, k) : q = RoomSum(checked, n, k - 1) + j
      BY <2>2
    <2>4. p[q] = s[k][TritsOfMarker(n, k) + j]
      BY <1>2, <2>3 DEF RoomsFilled
    <2>5. s[k][TritsOfMarker(n, k) + j] = payload[q]
      BY <2>3 DEF IsForm
    <2> QED
      BY <2>4, <2>5
  <1>4. Len(p) = Len(payload)
    BY <1>2
  <1> QED
    BY <1>2, <1>3, <1>4, SeqEqual

-----------------------------------------------------------------------------
(* Symbols: what Encode makes of a code point, Decode takes for it.        *)

InForm(checked, n, cp) == cp \in MinCp(checked)[n]..MaxCp(checked)[n]

(* The offsets of a form are exactly those its payload can hold.           *)
LEMMA FormFits ==
  ASSUME NEW checked \in BOOLEAN, NEW n \in 2..4
  PROVE  /\ RoomSum(checked, n, n) \in 0..16 /\ MinCp(checked)[n] \in Nat /\ MaxCp(checked)[n] \in Nat
         /\ MaxCp(checked)[n] - MinCp(checked)[n] < ThreeTo[RoomSum(checked, n, n) + 1]
         /\ MaxCp(checked)[n] - MinCp(checked)[n] + 1 = ThreeTo[RoomSum(checked, n, n) + 1]
  <1>1. ThreeTo[8 + 1] = 6561 /\ ThreeTo[12 + 1] = 531441 /\ ThreeTo[15 + 1] = 14348907
        /\ ThreeTo[9 + 1] = 19683 /\ ThreeTo[13 + 1] = 1594323 /\ ThreeTo[16 + 1] = 43046721
    BY SMT DEF ThreeTo
  <1>2. CASE checked
    <2>1. RoomSum(checked, n, n) = IF n = 2 THEN 8 ELSE IF n = 3 THEN 12 ELSE 15
      BY SMT, <1>2 DEF RoomSum, CheckTrits
    <2>2. /\ MinCp(checked)[n] = IF n = 2 THEN 0 ELSE IF n = 3 THEN 6561 ELSE 538002
          /\ MaxCp(checked)[n] = IF n = 2 THEN 6560 ELSE IF n = 3 THEN 538001 ELSE 14886908
      BY SMT, <1>2 DEF MinCp, MaxCp
    <2> QED
      BY SMT, <1>1, <2>1, <2>2
  <1>3. CASE ~checked
    <2>1. RoomSum(checked, n, n) = IF n = 2 THEN 9 ELSE IF n = 3 THEN 13 ELSE 16
      BY SMT, <1>3 DEF RoomSum, CheckTrits
    <2>2. /\ MinCp(checked)[n] = IF n = 2 THEN 126 ELSE IF n = 3 THEN 19809 ELSE 1614132
          /\ MaxCp(checked)[n] = IF n = 2 THEN 19808 ELSE IF n = 3 THEN 1614131 ELSE 44660852
      BY SMT, <1>3 DEF MinCp, MaxCp
    <2> QED
      BY SMT, <1>1, <2>1, <2>2
  <1> QED
    BY <1>2, <1>3

(* A scalar value that no table holds has one form.                        *)
LEMMA OneForm ==
  ASSUME NEW checked \in BOOLEAN, NEW cp, IsScalar(cp), ~IsSingle(checked, cp)
  PROVE  /\ CpFormLength(checked, cp) \in 2..4 /\ InForm(checked, CpFormLength(checked, cp), cp)
         /\ \A n \in 2..4 : InForm(checked, n, cp) => n = CpFormLength(checked, cp)
  <1>n. LastScalar \in Nat
    BY SMT DEF LastScalar
  <1>0. LastScalar = 1114111
    BY SMT DEF LastScalar
  <1>1. PICK c \in Nat : c = cp
    BY SMT, <1>n DEF IsScalar
  <1>a. c <= LastScalar
    BY SMT, <1>n, <1>1 DEF IsScalar
  <1>2. ~checked => c > 125
    <2>1. ASSUME ~checked PROVE ~(c \in 0..125)
      <3>1. checked = FALSE
        BY <2>1
      <3> QED
        BY <1>1, <3>1, U8Singles
    <2>2. c \in 0..125 \/ c > 125
      BY SMT
    <2> QED
      BY <2>1, <2>2
  <1> DEFINE min(n) == MinCp(checked)[n]
             max(n) == MaxCp(checked)[n]
  <1>3. /\ min(2) \in Nat /\ min(3) \in Nat /\ min(4) \in Nat
        /\ max(2) \in Nat /\ max(3) \in Nat /\ max(4) \in Nat
        /\ (checked => min(2) = 0) /\ (~checked => min(2) = 126) /\ max(2) = min(3) - 1
        /\ max(3) = min(4) - 1 /\ max(4) > LastScalar /\ min(3) < min(4) /\ min(2) < min(3)
    <2>1. CASE checked
      <3>1. min(2) = 0 /\ min(3) = 6561 /\ min(4) = 538002
        BY SMT, <2>1 DEF MinCp
      <3>2. max(2) = 6560 /\ max(3) = 538001 /\ max(4) = 14886908
        BY SMT, <2>1 DEF MaxCp
      <3> HIDE DEF min, max
      <3> QED
        BY SMT, <1>0, <2>1, <3>1, <3>2
    <2>2. CASE ~checked
      <3>1. min(2) = 126 /\ min(3) = 19809 /\ min(4) = 1614132
        BY SMT, <2>2 DEF MinCp
      <3>2. max(2) = 19808 /\ max(3) = 1614131 /\ max(4) = 44660852
        BY SMT, <2>2 DEF MaxCp
      <3> HIDE DEF min, max
      <3> QED
        BY SMT, <1>0, <2>2, <3>1, <3>2
    <2> QED
      BY <2>1, <2>2
  <1>4. \A n \in 2..4 : InForm(checked, n, cp) <=> min(n) <= c /\ c <= max(n)
    <2>1. \A n \in 2..4 : min(n) \in Nat /\ max(n) \in Nat
      BY <1>3
    <2> HIDE DEF min, max
    <2>2. \A n \in 2..4 : c \in min(n)..max(n) <=> min(n) <= c /\ c <= max(n)
      BY <2>1
    <2> QED
      BY <1>1, <2>2 DEF InForm, min, max
  <1> HIDE DEF min, max
  <1>5. \E n \in 2..4 : InForm(checked, n, cp) /\ \A m \in 2..4 : InForm(checked, m, cp) => m = n
    <2>1. min(2) <= c
      BY SMT, <1>2, <1>3
    <2>2. CASE c <= max(2)
      <3>1. InForm(checked, 2, cp) /\ ~InForm(checked, 3, cp) /\ ~InForm(checked, 4, cp)
        BY SMT, <1>3, <1>4, <2>1, <2>2
      <3> QED
        BY <3>1
    <2>3. CASE ~(c <= max(2)) /\ c <= max(3)
      <3>1. ~InForm(checked, 2, cp) /\ InForm(checked, 3, cp) /\ ~InForm(checked, 4, cp)
        BY SMT, <1>3, <1>4, <2>3
      <3> QED
        BY <3>1
    <2>4. CASE ~(c <= max(2)) /\ ~(c <= max(3))
      <3>1. ~InForm(checked, 2, cp) /\ ~InForm(checked, 3, cp) /\ InForm(checked, 4, cp)
        <4>1. c <= max(4)
          BY SMT, <1>1, <1>n, <1>a, <1>3
        <4>2. min(4) <= c
          BY SMT, <1>3, <2>4
        <4> QED
          BY SMT, <1>4, <2>4, <4>1, <4>2
      <3> QED
        BY <3>1
    <2> QED
      BY <2>2, <2>3, <2>4
  <1>6. CpFormLength(checked, cp) = CHOOSE n \in 2..4 : InForm(checked, n, cp)
    BY Zenon DEF CpFormLength, InForm
  <1> QED
    BY Zenon, <1>5, <1>6

(* The markers tell how many trytes a symbol has, and which place each has.*)
LEMMA MarkersAreRead ==
  ASSUME NEW n \in 2..4, NEW s \in Seq(Tryte), Len(s) = n,
         \A k \in 1..n : \A j \in 1..TritsOfMarker(n, k) : s[k][j] = TritAt(n, k, j)
  PROVE  SequenceLength(s[1]) = n /\ ContinuationsValid(s)
  <1>1. ASSUME NEW k \in 1..n PROVE s[k] \in Tryte
    OBVIOUS
  <1>2. SequenceLength(s[1]) = n
    <2>1. 1 \in 1..n /\ s[1] \in Tryte
      OBVIOUS
    <2>2. \A j \in 1..n : s[1][j] = IF j = n THEN -1 ELSE 1
      BY <2>1 DEF TritsOfMarker, TritAt
    <2>3. PICK t \in Tryte : t = s[1]
      BY <2>1
    <2>4. CASE n = 2
      BY <2>2, <2>3, <2>4, LengthIs
    <2>5. CASE n = 3
      BY <2>2, <2>3, <2>5, LengthIs
    <2>6. CASE n = 4
      BY <2>2, <2>3, <2>6, LengthIs
    <2> QED
      BY <2>4, <2>5, <2>6
  <1>3. ASSUME NEW k \in 2..n
        PROVE  GetRole(s[k]) \in (IF k = n THEN {"final"} ELSE {"middle1", "middle2"})
    <2>1. k \in 1..n /\ s[k] \in Tryte /\ 1 \in 1..TritsOfMarker(n, k)
      BY DEF TritsOfMarker
    <2>2. s[k][1] = IF k = n THEN -1 ELSE 0
      BY <2>1 DEF TritAt
    <2>3. PICK t \in Tryte : t = s[k]
      BY <2>1
    <2>4. Trits4(t)
      BY TryteHasTrits
    <2> QED
      BY <2>2, <2>3, <2>4, RoleIs
  <1> QED
    BY <1>2, <1>3 DEF ContinuationsValid

(* A whole symbol that stands for the code point cp.                       *)
IsSymbol(s, checked, cp) ==
  /\ s \in Seq(Tryte) /\ Len(s) \in 1..4
  /\ SequenceLength(s[1]) = Len(s) /\ ContinuationsValid(s) /\ CrcHolds(checked, s)
  /\ Accepted(checked, s) /\ DecodeCodePoint(checked, s) = cp

(* A one-tryte symbol is read back.                                        *)
LEMMA SingleDecodes ==
  ASSUME NEW checked \in BOOLEAN, NEW cp, IsScalar(cp), IsSingle(checked, cp)
  PROVE  IsSymbol(EncodeCodePoint(checked, cp), checked, cp)
  <1>1. CpFormLength(checked, cp) = 1
    BY DEF CpFormLength
  <1>2. PICK entry \in SingleTryteTable[checked] :
          /\ entry = CHOOSE e \in SingleTryteTable[checked] : e.cp = cp
          /\ entry.cp = cp
    BY DEF IsSingle
  <1>3. PICK t : t = entry.tryte
    OBVIOUS
  <1>4. IsAlone(t, checked)
    BY <1>3, TablePairs
  <1>5. PICK s : s = <<t>>
    OBVIOUS
  <1>6. t \in Tryte /\ SequenceLength(t) = 1 /\ CrcHolds(checked, s)
    BY <1>4, <1>5 DEF IsAlone
  <1>7. s \in Seq(Tryte) /\ Len(s) = 1 /\ s[1] = t
    BY <1>5, <1>6
  <1>8. EncodeCodePoint(checked, cp) = s
    BY <1>1, <1>2, <1>3, <1>5 DEF EncodeCodePoint
  <1>9. DecodeCodePoint(checked, s) = cp
    <2>1. \A e \in SingleTryteTable[checked] : e.tryte = t => e = entry
      BY <1>3, TablePairs
    <2>2. (CHOOSE e \in SingleTryteTable[checked] : e.tryte = t) = entry
      BY <1>3, <2>1
    <2> QED
      BY <1>2, <1>7, <2>2 DEF DecodeCodePoint
  <1>10. KnownPattern(checked, t)
    BY <1>3 DEF KnownPattern
  <1>11. Accepted(checked, s)
    BY <1>7, <1>9, <1>10 DEF Accepted
  <1>12. ContinuationsValid(s)
    <2>1. \A k \in 2..1 : FALSE
      OBVIOUS
    <2> QED
      BY <1>7, <2>1 DEF ContinuationsValid
  <1>13. Len(s) \in 1..4 /\ SequenceLength(s[1]) = Len(s)
    BY <1>6, <1>7
  <1>14. IsSymbol(s, checked, cp)
    BY <1>6, <1>7, <1>9, <1>11, <1>12, <1>13 DEF IsSymbol
  <1> QED
    BY <1>8, <1>14

(* And so is a longer one.                                                 *)
LEMMA FormDecodes ==
  ASSUME NEW checked \in BOOLEAN, NEW cp, IsScalar(cp), ~IsSingle(checked, cp)
  PROVE  /\ IsSymbol(EncodeCodePoint(checked, cp), checked, cp)
         /\ Len(EncodeCodePoint(checked, cp)) = CpFormLength(checked, cp)
  <1>1. PICK n \in 2..4 : n = CpFormLength(checked, cp) /\ InForm(checked, n, cp)
    BY OneForm
  <1>2. PICK r \in 0..16, low \in Nat, high \in Nat :
          /\ r = RoomSum(checked, n, n) /\ low = MinCp(checked)[n] /\ high = MaxCp(checked)[n]
          /\ high - low < ThreeTo[r + 1]
    BY FormFits
  <1>3. cp \in low..high
    BY <1>1, <1>2 DEF InForm
  <1>4. PICK offset \in Nat : offset = cp - low /\ cp = low + offset /\ offset < ThreeTo[r + 1]
    <2>1. cp - low \in Nat /\ cp = low + (cp - low) /\ cp - low <= high - low
      BY <1>3
    <2>2. ThreeTo[r + 1] \in Nat
      <3>1. CASE r = 0
        BY <3>1 DEF ThreeTo
      <3>2. CASE r # 0
        <4>1. r \in 1..16
          BY <3>2
        <4>2. ThreeTo[r] \in Nat /\ ThreeTo[r + 1] = 3 * ThreeTo[r]
          BY <4>1, ThreeTimes
        <4> QED
          BY <4>2
      <3> QED
        BY <3>1, <3>2
    <2>3. cp - low < ThreeTo[r + 1]
      BY <1>2, <2>1, <2>2
    <2> QED
      BY <2>1, <2>3
  <1>5. PICK s : s = EncodeForm(checked, n, offset)
    OBVIOUS
  <1>6. PICK payload \in Seq(Trit) : payload = ExtractTrits(offset, r) /\ Len(payload) = r
    <2>1. r \in Nat
      OBVIOUS
    <2> QED
      BY <2>1, ExtractTritsIs
  <1>7. IsForm(s, checked, n, payload)
    BY <1>2, <1>5, <1>6, FormEncodes
  <1>8. EncodeCodePoint(checked, cp) = s
    <2>1. n # 1
      OBVIOUS
    <2> QED
      BY <1>1, <1>2, <1>4, <1>5, <2>1 DEF EncodeCodePoint
  <1>9. s \in Seq(Tryte) /\ Len(s) = n /\ CrcHolds(checked, s)
    BY <1>7 DEF IsForm
  <1>10. SequenceLength(s[1]) = n /\ ContinuationsValid(s)
    <2>1. \A k \in 1..n : \A j \in 1..TritsOfMarker(n, k) : s[k][j] = TritAt(n, k, j)
      BY <1>7 DEF IsForm
    <2> QED
      BY <1>9, <2>1, MarkersAreRead
  <1>11. Payload(checked, s) = payload
    BY <1>2, <1>6, <1>7, PayloadReadsBack
  <1>12. PayloadToOffset(payload) = offset
    BY <1>4, <1>6, OffsetReadsBack
  <1>13. DecodeCodePoint(checked, s) = cp
    <2>1. n # 1
      OBVIOUS
    <2> QED
      BY <1>2, <1>4, <1>9, <1>11, <1>12, <2>1 DEF DecodeCodePoint
  <1>14. Accepted(checked, s)
    <2>1. n # 1 /\ cp <= high
      BY <1>3
    <2> QED
      BY <1>2, <1>9, <1>13, <2>1 DEF Accepted
  <1>15. Len(s) \in 1..4
    BY <1>9
  <1>16. IsSymbol(s, checked, cp)
    BY <1>9, <1>10, <1>13, <1>14, <1>15 DEF IsSymbol
  <1> QED
    BY <1>1, <1>8, <1>9, <1>16

(* Every code point's symbol is read back.                                 *)
LEMMA SymbolDecodes ==
  ASSUME NEW checked \in BOOLEAN, NEW cp, IsScalar(cp)
  PROVE  IsSymbol(EncodeCodePoint(checked, cp), checked, cp)
  BY SingleDecodes, FormDecodes

-----------------------------------------------------------------------------
(* Lines, as they are sent and as they arrive, and where each of them      *)
(* begins in what TokenizeTrytes makes of them.                            *)

Start(ls, m) == Len(Joined(SubSeq(ls, 1, m)))

(* The line n of ls is u in us, and all others are the same.               *)
Differ(us, ls, n, u) ==
  /\ us \in Seq(Seq(Tryte)) /\ Len(us) = Len(ls)
  /\ us[n] = u /\ \A m \in 1..Len(ls) : m # n => us[m] = ls[m]

LEMMA ReplacedLine ==
  ASSUME NEW ls \in Seq(Seq(Tryte)), NEW n \in 1..Len(ls), NEW u \in Seq(Tryte)
  PROVE  Differ([ls EXCEPT ![n] = u], ls, n, u)
  <1>1. PICK D : D = Seq(Tryte)
    OBVIOUS
  <1>2. PICK us : us = [ls EXCEPT ![n] = u]
    OBVIOUS
  <1>3. us \in Seq(D) /\ Len(us) = Len(ls) /\ \A m \in 1..Len(ls) : us[m] = IF m = n THEN u ELSE ls[m]
    <2>1. ls \in Seq(D) /\ u \in D
      BY <1>1
    <2> QED
      BY <1>2, <2>1, ExceptSeq
  <1>4. us[n] = u /\ \A m \in 1..Len(ls) : m # n => us[m] = ls[m]
    BY <1>3
  <1> QED
    BY <1>1, <1>2, <1>3, <1>4 DEF Differ

LEMMA ChangedTrit ==
  ASSUME NEW t \in Tryte, NEW j \in 1..TryteLength, NEW e \in Trit
  PROVE  /\ [t EXCEPT ![j] = e] \in Tryte /\ t[j] \in Trit
         /\ BalancedSum([t EXCEPT ![j] = e]) = (BalancedSum(t) - t[j]) + e
  <1>1. PICK u : u = [t EXCEPT ![j] = e]
    OBVIOUS
  <1>2. j \in 1..6 /\ \A m \in 1..6 : t[m] \in Trit
    BY DEF Tryte, TryteLength
  <1>3. u \in Tryte /\ \A m \in 1..6 : u[m] = IF m = j THEN e ELSE t[m]
    BY <1>1 DEF Tryte, TryteLength
  <1>4. \A a \in Trit : a \in Int
    BY DEF Trit
  <1>5. PICK a \in Int, b \in Int, c \in Int, d \in Int, f \in Int, g \in Int :
          a = t[1] /\ b = t[2] /\ c = t[3] /\ d = t[4] /\ f = t[5] /\ g = t[6]
    <2>1. \A m \in 1..6 : t[m] \in Int
      BY <1>2, <1>4
    <2>2. t[1] \in Int /\ t[2] \in Int /\ t[3] \in Int /\ t[4] \in Int /\ t[5] \in Int /\ t[6] \in Int
      BY <2>1
    <2> QED
      BY <2>2
  <1>6. PICK x \in Int : x = e
    BY <1>4
  <1>7. BalancedSum(t) = a + b + c + d + f + g
    BY <1>5 DEF BalancedSum
  <1>8. BalancedSum(u) = u[1] + u[2] + u[3] + u[4] + u[5] + u[6]
    BY DEF BalancedSum
  <1>9. BalancedSum(u) = (BalancedSum(t) - t[j]) + e
    <2>1. CASE j = 1
      <3>1. u[1] = x /\ u[2] = b /\ u[3] = c /\ u[4] = d /\ u[5] = f /\ u[6] = g
        BY <1>3, <1>5, <1>6, <2>1
      <3>2. BalancedSum(u) = x + b + c + d + f + g
        BY <1>8, <3>1
      <3>3. t[j] = a /\ e = x
        BY <1>5, <1>6, <2>1
      <3> QED
        BY <1>7, <3>2, <3>3
    <2>2. CASE j = 2
      <3>1. u[1] = a /\ u[2] = x /\ u[3] = c /\ u[4] = d /\ u[5] = f /\ u[6] = g
        BY <1>3, <1>5, <1>6, <2>2
      <3>2. BalancedSum(u) = a + x + c + d + f + g
        BY <1>8, <3>1
      <3>3. t[j] = b /\ e = x
        BY <1>5, <1>6, <2>2
      <3> QED
        BY <1>7, <3>2, <3>3
    <2>3. CASE j = 3
      <3>1. u[1] = a /\ u[2] = b /\ u[3] = x /\ u[4] = d /\ u[5] = f /\ u[6] = g
        BY <1>3, <1>5, <1>6, <2>3
      <3>2. BalancedSum(u) = a + b + x + d + f + g
        BY <1>8, <3>1
      <3>3. t[j] = c /\ e = x
        BY <1>5, <1>6, <2>3
      <3> QED
        BY <1>7, <3>2, <3>3
    <2>4. CASE j = 4
      <3>1. u[1] = a /\ u[2] = b /\ u[3] = c /\ u[4] = x /\ u[5] = f /\ u[6] = g
        BY <1>3, <1>5, <1>6, <2>4
      <3>2. BalancedSum(u) = a + b + c + x + f + g
        BY <1>8, <3>1
      <3>3. t[j] = d /\ e = x
        BY <1>5, <1>6, <2>4
      <3> QED
        BY <1>7, <3>2, <3>3
    <2>5. CASE j = 5
      <3>1. u[1] = a /\ u[2] = b /\ u[3] = c /\ u[4] = d /\ u[5] = x /\ u[6] = g
        BY <1>3, <1>5, <1>6, <2>5
      <3>2. BalancedSum(u) = a + b + c + d + x + g
        BY <1>8, <3>1
      <3>3. t[j] = f /\ e = x
        BY <1>5, <1>6, <2>5
      <3> QED
        BY <1>7, <3>2, <3>3
    <2>6. CASE j = 6
      <3>1. u[1] = a /\ u[2] = b /\ u[3] = c /\ u[4] = d /\ u[5] = f /\ u[6] = x
        BY <1>3, <1>5, <1>6, <2>6
      <3>2. BalancedSum(u) = a + b + c + d + f + x
        BY <1>8, <3>1
      <3>3. t[j] = g /\ e = x
        BY <1>5, <1>6, <2>6
      <3> QED
        BY <1>7, <3>2, <3>3
    <2> QED
      BY <1>2, <2>1, <2>2, <2>3, <2>4, <2>5, <2>6
  <1> QED
    BY <1>1, <1>2, <1>3, <1>9

(* A line with one of its trits changed.                                   *)
MisreadLine(s, k, j, t) == [s EXCEPT ![k] = [s[k] EXCEPT ![j] = t]]

(* Its other trytes, and its sum.                                          *)
LEMMA MisreadLineIs ==
  ASSUME NEW s \in Seq(Tryte), NEW k \in 1..Len(s), NEW j \in 1..TryteLength, NEW t \in Trit
  PROVE  /\ MisreadLine(s, k, j, t) \in Seq(Tryte) /\ Len(MisreadLine(s, k, j, t)) = Len(s)
         /\ \A m \in 1..Len(s) : m # k => MisreadLine(s, k, j, t)[m] = s[m]
         /\ s[k][j] \in Trit /\ SymbolSum(s) \in Int
         /\ SymbolSum(MisreadLine(s, k, j, t)) = (SymbolSum(s) - s[k][j]) + t
  <1>1. PICK e \in Tryte : e = s[k]
    <2>1. s[k] \in Tryte
      OBVIOUS
    <2> QED
      BY <2>1
  <1>2. PICK f : f = [e EXCEPT ![j] = t]
    OBVIOUS
  <1>3. f \in Tryte /\ e[j] \in Trit /\ BalancedSum(f) = (BalancedSum(e) - e[j]) + t
    BY <1>2, ChangedTrit
  <1>4. MisreadLine(s, k, j, t) = [s EXCEPT ![k] = f]
    BY <1>1, <1>2 DEF MisreadLine
  <1>5. /\ [s EXCEPT ![k] = f] \in Seq(Tryte) /\ Len([s EXCEPT ![k] = f]) = Len(s)
        /\ \A m \in 1..Len(s) : [s EXCEPT ![k] = f][m] = IF m = k THEN f ELSE s[m]
    BY <1>3, ExceptSeq
  <1>6. SymbolSum(s) \in Int /\ SymbolSum([s EXCEPT ![k] = f]) = (SymbolSum(s) - BalancedSum(s[k])) + BalancedSum(f)
    BY <1>3, SumOfReplaced
  <1>7. PICK p \in Int, q \in Int, x \in Int, y \in Int :
          p = SymbolSum(s) /\ q = BalancedSum(e) /\ x = e[j] /\ y = t
    <2>1. BalancedSum(e) \in Int /\ e[j] \in Int /\ t \in Int
      BY <1>3, BalancedSumIs DEF Trit
    <2> QED
      BY <1>6, <2>1
  <1>8. SymbolSum([s EXCEPT ![k] = f]) = (p - q) + ((q - x) + y)
    BY <1>1, <1>3, <1>6, <1>7
  <1>9. SymbolSum([s EXCEPT ![k] = f]) = (p - x) + y
    BY <1>8
  <1>10. \A m \in 1..Len(s) : m # k => [s EXCEPT ![k] = f][m] = s[m]
    BY <1>5
  <1> QED
    BY <1>1, <1>3, <1>4, <1>5, <1>6, <1>7, <1>9, <1>10

(* A line with one of its trytes left out.                                 *)
IsShortened(u, s, k) ==
  /\ u \in Seq(Tryte) /\ Len(u) = Len(s) - 1
  /\ \A m \in 1..k - 1 : u[m] = s[m]
  /\ \A m \in k..Len(s) - 1 : u[m] = s[m + 1]

(* RemoveAt leaves the others as they are.                                 *)
LEMMA ShortenedLine ==
  ASSUME NEW s \in Seq(Tryte), NEW k \in 1..Len(s)
  PROVE  IsShortened(RemoveAt(s, k), s, k)
  <1>1. PICK a : a = SubSeq(s, 1, k - 1)
    OBVIOUS
  <1>2. PICK b : b = SubSeq(s, k + 1, Len(s))
    OBVIOUS
  <1>3. IsSplit(s, k, a, b, Tryte)
    BY <1>1, <1>2, SplitAt
  <1>4. PICK n \in Nat : n = Len(s)
    OBVIOUS
  <1>5. PICK p \in Nat, q \in Nat : p = k - 1 /\ q = n - k
    <2>1. k - 1 \in Nat /\ n - k \in Nat
      BY <1>4
    <2> QED
      BY <2>1
  <1>6. /\ a \in Seq(Tryte) /\ b \in Seq(Tryte) /\ p = Len(a) /\ q = Len(b)
        /\ \A m \in 1..p : a[m] = s[m]
        /\ \A m \in 1..q : b[m] = s[k + m]
    BY <1>3, <1>4, <1>5 DEF IsSplit
  <1>7. PICK u : u = a \o b
    OBVIOUS
  <1>8. IsConcat(u, a, p, b, q, Tryte)
    BY <1>6, <1>7, ConcatIs
  <1>9. u \in Seq(Tryte) /\ Len(u) = p + q /\ (\A m \in 1..p : u[m] = a[m]) /\ \A m \in 1..q : u[p + m] = b[m]
    BY <1>8 DEF IsConcat
  <1>10. \A m \in 1..k - 1 : u[m] = s[m]
    BY <1>5, <1>6, <1>9
  <1>11. ASSUME NEW m \in k..n - 1 PROVE u[m] = s[m + 1]
    <2>1. PICK r \in 1..q : m = p + r /\ m + 1 = k + r
      <3>1. m - p \in 1..q /\ m = p + (m - p) /\ m + 1 = k + (m - p)
        BY <1>5
      <3> QED
        BY <3>1
    <2> QED
      BY <1>6, <1>9, <2>1
  <1>12. Len(u) = n - 1
    BY <1>5, <1>9
  <1>13. IsShortened(u, s, k)
    BY <1>4, <1>9, <1>10, <1>11, <1>12 DEF IsShortened
  <1> QED
    BY <1>1, <1>2, <1>7, <1>13 DEF RemoveAt

(* Where line m stands among the trytes.                                   *)
LineAt(ts, at, s) ==
  /\ at + Len(s) <= Len(ts) /\ \A k \in 1..Len(s) : ts[at + k] = s[k]

(* Line m stands behind all lines before it.                               *)
LEMMA LinesAt ==
  ASSUME NEW ls \in Seq(Seq(Tryte)), NEW m \in 1..Len(ls)
  PROVE  /\ Joined(ls) \in Seq(Tryte) /\ ls[m] \in Seq(Tryte)
         /\ Start(ls, m - 1) \in Nat /\ Start(ls, m) = Start(ls, m - 1) + Len(ls[m])
         /\ LineAt(Joined(ls), Start(ls, m - 1), ls[m])
         /\ SymbolSum(Joined(SubSeq(ls, 1, m - 1))) \in Int /\ SymbolSum(ls[m]) \in Int
         /\ SymbolSum(Joined(SubSeq(ls, 1, m))) = SymbolSum(Joined(SubSeq(ls, 1, m - 1))) + SymbolSum(ls[m])
  <1>1. PICK D : D = Seq(Tryte)
    OBVIOUS
  <1>2. PICK a : a = SubSeq(ls, 1, m - 1)
    OBVIOUS
  <1>3. PICK b : b = SubSeq(ls, m + 1, Len(ls))
    OBVIOUS
  <1>4. IsSplit(ls, m, a, b, D)
    BY <1>1, <1>2, <1>3, SplitAt
  <1>5. PICK s \in D : s = ls[m]
    <2>1. ls[m] \in D
      BY <1>1
    <2> QED
      BY <2>1
  <1>6. a \in Seq(D) /\ b \in Seq(D) /\ ls = Append(a, s) \o b
    BY <1>4, <1>5 DEF IsSplit
  <1>7. PICK c : c = Append(a, s)
    OBVIOUS
  <1>8. c \in Seq(D)
    BY <1>6, <1>7, AppendProperties
  <1>9. SubSeq(ls, 1, m) = c
    <2>1. /\ Len(c) = Len(a) + 1 /\ (\A j \in 1..Len(a) : c[j] = a[j]) /\ c[Len(a) + 1] = s
      BY <1>6, <1>7, AppendProperties
    <2>2. Len(a) = m - 1 /\ \A j \in 1..m - 1 : a[j] = ls[j]
      BY <1>4 DEF IsSplit
    <2>3. Len(c) = m /\ \A j \in 1..m : c[j] = ls[j]
      <3>1. PICK p \in Nat : p = m - 1 /\ p = Len(a) /\ p + 1 = m
        BY <2>2
      <3>2. Len(c) = m
        BY <2>1, <3>1
      <3>3. ASSUME NEW j \in 1..m PROVE c[j] = ls[j]
        <4>1. CASE j = m
          BY <1>5, <2>1, <3>1, <4>1
        <4>2. CASE j # m
          <5>1. j \in 1..p
            BY <3>1, <4>2
          <5> QED
            BY <2>1, <2>2, <3>1, <5>1
        <4> QED
          BY <4>1, <4>2
      <3> QED
        BY <3>2, <3>3
    <2>4. \A j \in 1..m : ls[j] \in D
      BY <1>1
    <2>5. PICK d : d = SubSeq(ls, 1, m)
      OBVIOUS
    <2>6. d \in Seq(D) /\ Len(d) = m /\ \A j \in 1..m : d[j] = ls[j]
      <3>1. /\ d \in Seq(D) /\ Len(d) = IF 1 <= m THEN m - 1 + 1 ELSE 0
            /\ \A j \in 1..m - 1 + 1 : d[j] = ls[1 + j - 1]
        BY <2>4, <2>5, SubSeqProperties
      <3>2. m - 1 + 1 = m /\ \A j \in 1..m : 1 + j - 1 = j
        OBVIOUS
      <3> QED
        BY <3>1, <3>2
    <2>7. d = c
      BY <1>8, <2>3, <2>6, SeqEqual
    <2> QED
      BY <2>5, <2>7
  <1>10. PICK x \in Seq(Tryte), y \in Seq(Tryte) :
           x = Joined(a) /\ y = Joined(b) /\ Joined(c) = x \o s /\ Joined(ls) = Joined(c) \o y
    <2>1. Joined(a) \in Seq(Tryte) /\ Joined(c) = Joined(a) \o s
      BY <1>1, <1>6, <1>7, JoinedOfAppend
    <2>2. Joined(b) \in Seq(Tryte) /\ Joined(c \o b) = Joined(c) \o Joined(b)
      BY <1>1, <1>6, <1>8, JoinedOfConcat
    <2> QED
      BY <1>6, <1>7, <2>1, <2>2
  <1>11. PICK p \in Nat, q \in Nat, r \in Nat : p = Len(x) /\ q = Len(s) /\ r = Len(y)
    <2>1. Len(x) \in Nat /\ Len(s) \in Nat /\ Len(y) \in Nat
      BY <1>1
    <2> QED
      BY <2>1
  <1>12. PICK z : z = x \o s
    OBVIOUS
  <1>13. IsConcat(z, x, p, s, q, Tryte)
    BY <1>1, <1>11, <1>12, ConcatIs
  <1>14. z \in Seq(Tryte) /\ Len(z) = p + q /\ \A k \in 1..q : z[p + k] = s[k]
    BY <1>13 DEF IsConcat
  <1>15. PICK w : w = z \o y
    OBVIOUS
  <1>16. PICK e \in Nat : e = p + q
    BY <1>11
  <1>17. IsConcat(w, z, e, y, r, Tryte)
    BY <1>11, <1>14, <1>15, <1>16, ConcatIs
  <1>18. w \in Seq(Tryte) /\ Len(w) = e + r /\ \A k \in 1..e : w[k] = z[k]
    BY <1>17 DEF IsConcat
  <1>19. w = Joined(ls)
    BY <1>10, <1>12, <1>15
  <1>20. Start(ls, m - 1) = p /\ Start(ls, m) = p + q
    BY <1>2, <1>9, <1>10, <1>11, <1>12, <1>14 DEF Start
  <1>21. LineAt(w, p, s)
    <2>1. p + Len(s) <= Len(w)
      BY <1>11, <1>16, <1>18
    <2>2. \A k \in 1..q : p + k \in 1..e
      BY <1>16
    <2>3. \A k \in 1..q : w[p + k] = s[k]
      BY <1>14, <1>18, <2>2
    <2> QED
      BY <1>11, <2>1, <2>3 DEF LineAt
  <1>22. SymbolSum(x) \in Int /\ SymbolSum(s) \in Int /\ SymbolSum(x \o s) = SymbolSum(x) + SymbolSum(s)
    BY <1>1, SumOfConcat
  <1>23. /\ SymbolSum(Joined(SubSeq(ls, 1, m - 1))) = SymbolSum(x)
         /\ SymbolSum(Joined(SubSeq(ls, 1, m))) = SymbolSum(x \o s)
    BY <1>2, <1>9, <1>10
  <1>24. /\ Joined(ls) \in Seq(Tryte) /\ ls[m] \in Seq(Tryte)
         /\ Start(ls, m - 1) \in Nat /\ Start(ls, m) = Start(ls, m - 1) + Len(ls[m])
         /\ LineAt(Joined(ls), Start(ls, m - 1), ls[m])
    BY <1>1, <1>5, <1>11, <1>18, <1>19, <1>20, <1>21
  <1> QED
    BY <1>5, <1>22, <1>23, <1>24

(* Before the first line, and after the last.                              *)
LEMMA StartsAndEnds ==
  ASSUME NEW ls \in Seq(Seq(Tryte))
  PROVE  /\ Joined(ls) \in Seq(Tryte) /\ Len(ls) \in Nat
         /\ SubSeq(ls, 1, 0) = <<>> /\ Start(ls, 0) = 0 /\ SymbolSum(Joined(SubSeq(ls, 1, 0))) = 0
         /\ SubSeq(ls, 1, Len(ls)) = ls /\ Start(ls, Len(ls)) = Len(Joined(ls))
  <1>1. Joined(ls) \in Seq(Tryte)
    <2>1. PICK us \in Seq(Seq(Tryte)), u \in Seq(Tryte) : us = ls /\ u = <<>>
      <3>1. <<>> \in Seq(Tryte)
        OBVIOUS
      <3> QED
        BY <3>1
    <2> QED
      BY <2>1, JoinedOfAppend
  <1>2. SubSeq(ls, 1, 0) = <<>>
    BY SubSeqEmpty
  <1>3. SubSeq(ls, 1, Len(ls)) = ls
    BY SubSeqFull
  <1>4. Len(<<>>) = 0
    OBVIOUS
  <1>5. Len(ls) \in Nat
    OBVIOUS
  <1>6. Start(ls, 0) = 0
    BY <1>2, <1>4, JoinedOfNone DEF Start
  <1>7. Start(ls, Len(ls)) = Len(Joined(ls))
    BY <1>3 DEF Start
  <1>8. SymbolSum(Joined(SubSeq(ls, 1, 0))) = 0
    BY <1>2, JoinedOfNone, SumOfNone
  <1> QED
    BY <1>1, <1>2, <1>3, <1>5, <1>6, <1>7, <1>8

-----------------------------------------------------------------------------
(* The types of the state.                                                 *)

Scalars == {cp \in 0..LastScalar : IsScalar(cp)}

LEMMA ScalarsAre ==
  ASSUME NEW cp
  PROVE  cp \in Scalars <=> IsScalar(cp)
  <1>1. IsScalar(cp) => cp \in 0..LastScalar
    BY DEF IsScalar
  <1> QED
    BY <1>1 DEF Scalars

Encoded(ls, checked, cps) ==
  /\ ls \in Seq(Seq(Tryte)) /\ Len(ls) = Len(cps)
  /\ \A m \in 1..Len(cps) : ls[m] = EncodeCodePoint(checked, cps[m]) /\ IsSymbol(ls[m], checked, cps[m])

(* Encode writes a symbol for each code point.                             *)
LEMMA EncodeIs ==
  ASSUME NEW checked \in BOOLEAN, NEW cps \in Seq(Scalars)
  PROVE  Encoded(Encode(checked, cps), checked, cps)
  <1>1. PICK ls : ls = Encode(checked, cps)
    OBVIOUS
  <1>2. PICK n \in Nat : n = Len(cps)
    OBVIOUS
  <1>3. DOMAIN cps = 1..n /\ \A m \in 1..n : IsScalar(cps[m])
    <2>1. \A m \in 1..n : cps[m] \in Scalars
      BY <1>2
    <2> QED
      BY <1>2, <2>1, ScalarsAre
  <1>4. ls = [m \in 1..n |-> EncodeCodePoint(checked, cps[m])]
    BY <1>1, <1>3 DEF Encode
  <1>5. \A m \in 1..n : IsSymbol(EncodeCodePoint(checked, cps[m]), checked, cps[m])
    BY <1>3, SymbolDecodes
  <1>6. \A m \in 1..n : EncodeCodePoint(checked, cps[m]) \in Seq(Tryte)
    BY <1>5 DEF IsSymbol
  <1>7. ls \in Seq(Seq(Tryte)) /\ Len(ls) = n
    BY <1>4, <1>6
  <1> QED
    BY <1>1, <1>2, <1>4, <1>5, <1>7 DEF Encoded

Reports(n) == [at : 0..n, why : {"format", "continuation", "incomplete", "role", "crc", "rejected"}]

TextTyped == /\ trial \in Trials /\ trial.checked \in BOOLEAN /\ text \in Seq(Scalars)
             /\ lines \in Seq(Seq(Tryte)) /\ Len(lines) = Len(text)
             /\ changes \in 0..trial.changes /\ trial.changes \in Nat
             /\ hit \subseteq 1..Len(text) /\ lost \in {"nothing", "tryte", "trit"}
DecodeTyped == /\ trytes \in Seq(Tryte) /\ i \in 1..Len(trytes) + 1
               /\ output \in Seq(Scalars) /\ errors \in Seq(Reports(Len(trytes)))
               /\ pc \in {"transit", "decode", "done"}
Untouched == pc = "transit" => i = 1 /\ output = <<>> /\ errors = <<>> /\ trytes = <<>>
Typed == TextTyped /\ DecodeTyped /\ Untouched

LEMMA InitTyped ==
  ASSUME Init
  PROVE  Typed
  <1>1. /\ trial \in Trials /\ text \in BoundedSeq(trial.sample, trial.length)
        /\ lines = Encode(trial.checked, text) /\ trytes = <<>>
        /\ changes = 0 /\ hit = {} /\ lost = "nothing"
        /\ pc = "transit" /\ i = 1 /\ output = <<>> /\ errors = <<>>
    BY DEF Init
  <1>2. /\ trial.checked \in BOOLEAN /\ trial.changes \in Nat
        /\ \A cp \in trial.sample : cp \in Scalars
    BY <1>1, ConstantsAssumption, ScalarsAre
  <1>3. text \in Seq(Scalars)
    <2>1. PICK m \in 0..trial.length : text \in [1..m -> trial.sample]
      BY <1>1 DEF BoundedSeq, SeqOf
    <2>2. PICK n \in Nat : n = m
      <3>1. trial.length \in Nat
        BY <1>1, ConstantsAssumption
      <3>2. m \in Nat
        BY <3>1
      <3> QED
        BY <3>2
    <2>3. text \in [1..n -> Scalars]
      BY <1>2, <2>1, <2>2
    <2> QED
      BY <2>3
  <1>4. lines \in Seq(Seq(Tryte)) /\ Len(lines) = Len(text)
    BY <1>1, <1>2, <1>3, EncodeIs DEF Encoded
  <1>5. TextTyped
    BY <1>1, <1>2, <1>3, <1>4 DEF TextTyped
  <1>6. DecodeTyped
    <2>1. trytes \in Seq(Tryte) /\ i \in 1..Len(trytes) + 1
      BY <1>1
    <2>2. output \in Seq(Scalars) /\ errors \in Seq(Reports(Len(trytes)))
      BY <1>1
    <2> QED
      BY <1>1, <2>1, <2>2 DEF DecodeTyped
  <1>7. Untouched
    BY <1>1 DEF Untouched
  <1> QED
    BY <1>5, <1>6, <1>7 DEF Typed

(* What a misread trit makes of the lines.                                 *)
LEMMA ChangedLine ==
  ASSUME Typed, NEW n \in DOMAIN lines, NEW k \in DOMAIN lines[n], NEW j \in 1..TryteLength,
         NEW t \in Trit, ChangeTrit(n, k, j, t)
  PROVE  /\ n \in 1..Len(lines) /\ lines[n] \in Seq(Tryte) /\ k \in 1..Len(lines[n])
         /\ Differ(lines', lines, n, MisreadLine(lines[n], k, j, t))
  <1>1. lines \in Seq(Seq(Tryte))
    BY DEF Typed, TextTyped
  <1>2. n \in 1..Len(lines) /\ lines[n] \in Seq(Tryte)
    BY <1>1
  <1>3. k \in 1..Len(lines[n])
    BY <1>2
  <1>4. MisreadLine(lines[n], k, j, t) \in Seq(Tryte)
    BY <1>2, <1>3, MisreadLineIs
  <1>5. lines' = [lines EXCEPT ![n][k][j] = t]
    BY DEF ChangeTrit
  <1>6. lines' = [lines EXCEPT ![n] = MisreadLine(lines[n], k, j, t)]
    BY <1>1, <1>2, <1>5 DEF MisreadLine
  <1>7. Differ([lines EXCEPT ![n] = MisreadLine(lines[n], k, j, t)], lines, n, MisreadLine(lines[n], k, j, t))
    BY <1>1, <1>2, <1>4, ReplacedLine
  <1> QED
    BY <1>2, <1>3, <1>6, <1>7

(* What a lost tryte makes of them.                                        *)
LEMMA LostLine ==
  ASSUME Typed, NEW n \in DOMAIN lines, NEW k \in DOMAIN lines[n], LoseTryte(n, k)
  PROVE  /\ n \in 1..Len(lines) /\ lines[n] \in Seq(Tryte) /\ k \in 1..Len(lines[n])
         /\ Differ(lines', lines, n, RemoveAt(lines[n], k))
         /\ IsShortened(RemoveAt(lines[n], k), lines[n], k)
  <1>1. lines \in Seq(Seq(Tryte))
    BY DEF Typed, TextTyped
  <1>2. n \in 1..Len(lines) /\ lines[n] \in Seq(Tryte)
    BY <1>1
  <1>3. k \in 1..Len(lines[n])
    BY <1>2
  <1>4. IsShortened(RemoveAt(lines[n], k), lines[n], k)
    BY <1>2, <1>3, ShortenedLine
  <1>5. RemoveAt(lines[n], k) \in Seq(Tryte)
    BY <1>4 DEF IsShortened
  <1>6. lines' = [lines EXCEPT ![n] = RemoveAt(lines[n], k)]
    BY <1>1 DEF LoseTryte
  <1> QED
    BY <1>1, <1>2, <1>3, <1>4, <1>5, <1>6, ReplacedLine

(* Each part of Next keeps the types.                                      *)
LEMMA TransitTyped ==
  ASSUME Typed, Transit
  PROVE  Typed'
  <1>0. PICK n \in DOMAIN lines :
          \/ \E k \in DOMAIN lines[n] :
               \/ \E j \in 1..TryteLength, t \in Trit : ChangeTrit(n, k, j, t)
               \/ LoseTryte(n, k)
          \/ LoseTrit(n)
    BY DEF Transit
  <1>1. n \in 1..Len(text) /\ n \in 1..Len(lines)
    BY DEF Typed, TextTyped
  <1>2. ASSUME NEW k \in DOMAIN lines[n], NEW j \in 1..TryteLength, NEW t \in Trit, ChangeTrit(n, k, j, t)
        PROVE  Typed'
    <2>1. Differ(lines', lines, n, MisreadLine(lines[n], k, j, t))
      BY <1>2, ChangedLine
    <2>2. lines' \in Seq(Seq(Tryte)) /\ Len(lines') = Len(lines)
      BY <2>1 DEF Differ
    <2>3. /\ UNCHANGED <<trial, text, trytes, lost, pc, i, output, errors>>
          /\ changes < trial.changes /\ changes' = changes + 1 /\ hit' = hit \cup {n}
      BY <1>2 DEF ChangeTrit
    <2>4. TextTyped'
      <3>1. changes' \in 0..trial'.changes
        BY <2>3 DEF Typed, TextTyped
      <3>2. hit' \subseteq 1..Len(text')
        BY <1>1, <2>3 DEF Typed, TextTyped
      <3> QED
        BY <2>2, <2>3, <3>1, <3>2 DEF Typed, TextTyped
    <2> QED
      BY <2>3, <2>4 DEF Typed, DecodeTyped, Untouched
  <1>3. ASSUME NEW k \in DOMAIN lines[n], LoseTryte(n, k)
        PROVE  Typed'
    <2>1. Differ(lines', lines, n, RemoveAt(lines[n], k))
      BY <1>3, LostLine
    <2>2. lines' \in Seq(Seq(Tryte)) /\ Len(lines') = Len(lines)
      BY <2>1 DEF Differ
    <2>3. /\ UNCHANGED <<trial, text, trytes, changes, pc, i, output, errors>>
          /\ lost' = "tryte" /\ hit' = {n}
      BY <1>3 DEF LoseTryte
    <2>4. TextTyped'
      BY <1>1, <2>2, <2>3 DEF Typed, TextTyped
    <2> QED
      BY <2>3, <2>4 DEF Typed, DecodeTyped, Untouched
  <1>4. ASSUME LoseTrit(n) PROVE Typed'
    <2>1. /\ UNCHANGED <<trial, text, lines, trytes, changes, pc, i, output, errors>>
          /\ lost' = "trit" /\ hit' = {n}
      BY <1>4 DEF LoseTrit
    <2>2. TextTyped'
      BY <1>1, <2>1 DEF Typed, TextTyped
    <2> QED
      BY <2>1, <2>2 DEF Typed, DecodeTyped, Untouched
  <1> QED
    BY <1>0, <1>2, <1>3, <1>4

LEMMA TokenizeTyped ==
  ASSUME Typed, Tokenize
  PROVE  Typed'
  <1>1. pc = "transit" /\ UNCHANGED <<trial, text, lines, changes, hit, lost, i, output>>
    BY DEF Tokenize
  <1>2. TextTyped'
    BY <1>1 DEF Typed, TextTyped
  <1>3. i = 1 /\ output = <<>> /\ errors = <<>> /\ trytes = <<>>
    BY <1>1 DEF Typed, Untouched
  <1>4. CASE lost = "trit"
    <2>1. pc' = "done" /\ errors' = <<[at |-> 0, why |-> "format"]>> /\ trytes' = trytes
      BY <1>4 DEF Tokenize
    <2>2. errors' \in Seq(Reports(Len(trytes')))
      <3>1. PICK n \in Nat : n = Len(trytes')
        BY <1>3, <2>1
      <3>2. PICK r \in Reports(n) : r = [at |-> 0, why |-> "format"]
        <4>1. [at |-> 0, why |-> "format"] \in Reports(n)
          BY DEF Reports
        <4> QED
          BY <4>1
      <3>3. errors' = <<r>>
        BY <2>1, <3>2
      <3> QED
        BY <3>1, <3>3
    <2>3. DecodeTyped'
      BY <1>1, <2>1, <2>2 DEF Typed, DecodeTyped
    <2>4. Untouched'
      BY <2>1 DEF Untouched
    <2> QED
      BY <1>2, <2>3, <2>4 DEF Typed
  <1>5. CASE lost # "trit"
    <2>1. pc' = "decode" /\ trytes' = Joined(lines) /\ errors' = errors
      BY <1>5 DEF Tokenize
    <2>2. trytes' \in Seq(Tryte)
      BY <2>1, StartsAndEnds DEF Typed, TextTyped
    <2>3. i' \in 1..Len(trytes') + 1
      <3>1. Len(trytes') \in Nat
        BY <2>2
      <3> QED
        BY <1>1, <1>3, <3>1
    <2>4. errors' \in Seq(Reports(Len(trytes'))) /\ output' \in Seq(Scalars)
      BY <1>1, <1>3, <2>1
    <2>5. DecodeTyped'
      BY <2>1, <2>2, <2>3, <2>4 DEF DecodeTyped
    <2>6. Untouched'
      BY <2>1 DEF Untouched
    <2> QED
      BY <1>2, <2>5, <2>6 DEF Typed
  <1> QED
    BY <1>4, <1>5

(* The tryte at Decode's index, and the symbol that it leads.              *)
LEMMA AtTryteIs ==
  ASSUME Typed, AtTryte
  PROVE  /\ pc = "decode" /\ Len(trytes) \in Nat /\ i \in 1..Len(trytes) /\ trytes[i] \in Tryte
         /\ Expected \in 0..4
  <1>1. pc = "decode" /\ trytes \in Seq(Tryte) /\ i \in 1..Len(trytes) + 1 /\ i <= Len(trytes)
    BY DEF Typed, DecodeTyped, AtTryte
  <1>2. Len(trytes) \in Nat /\ i \in 1..Len(trytes)
    BY <1>1
  <1>3. trytes[i] \in Tryte
    BY <1>1, <1>2
  <1>4. Expected \in 0..4
    BY <1>3, LengthIs DEF Expected
  <1> QED
    BY <1>1, <1>2, <1>3, <1>4

SymbolIsRead(s, n) ==
  /\ s \in Seq(Tryte) /\ Len(s) = n
  /\ \A k \in 1..n : s[k] = trytes[i + k - 1]

(* A complete symbol is inside the input.                                  *)
LEMMA CompleteIs ==
  ASSUME Typed, Complete
  PROVE  /\ AtTryte /\ Expected \in 1..4 /\ i + Expected - 1 \in 1..Len(trytes)
         /\ SymbolIsRead(Symbol, Expected)
  <1>1. PICK n \in Nat : n = Expected /\ n \in 1..4 /\ i + n - 1 <= Len(trytes)
    BY AtTryteIs DEF Complete
  <1>2. AtTryte /\ trytes \in Seq(Tryte) /\ i \in 1..Len(trytes) /\ Len(trytes) \in Nat
    BY AtTryteIs DEF Complete, Typed, DecodeTyped
  <1>3. PICK e \in Nat : e = i + n - 1 /\ e \in 1..Len(trytes) /\ e - i + 1 = n
    <2>1. i + n - 1 \in 1..Len(trytes) /\ (i + n - 1) - i + 1 = n
      BY <1>1, <1>2
    <2>2. i + n - 1 \in Nat
      BY <1>1, <1>2
    <2> QED
      BY <2>1, <2>2
  <1>4. \A k \in i..e : trytes[k] \in Tryte
    <2>1. \A k \in i..e : k \in 1..Len(trytes)
      BY <1>2, <1>3
    <2> QED
      BY <1>2, <2>1
  <1>5. PICK s : s = SubSeq(trytes, i, e)
    OBVIOUS
  <1>6. /\ s \in Seq(Tryte) /\ Len(s) = IF i <= e THEN e - i + 1 ELSE 0
        /\ \A k \in 1..e - i + 1 : s[k] = trytes[i + k - 1]
    BY <1>2, <1>4, <1>5, SubSeqProperties
  <1>7. SymbolIsRead(s, n)
    BY <1>1, <1>2, <1>3, <1>6 DEF SymbolIsRead
  <1>8. Symbol = s
    BY <1>1, <1>3, <1>5 DEF Symbol
  <1> QED
    BY <1>1, <1>2, <1>3, <1>7, <1>8

(* How a step of Decode moves on: what it reports, and what it puts out.   *)
Reported(more) == more \in Seq(Reports(Len(trytes))) /\ errors' = errors \o more

LEMMA ReportIs ==
  ASSUME Typed, AtTryte, NEW why \in {"format", "continuation", "incomplete", "role", "crc", "rejected"}
  PROVE  /\ [at |-> i, why |-> why] \in Reports(Len(trytes))
         /\ Report(why) => /\ errors' \in Seq(Reports(Len(trytes))) /\ errors' # <<>>
  <1>1. [at |-> i, why |-> why] \in Reports(Len(trytes))
    BY AtTryteIs DEF Reports
  <1>2. errors \in Seq(Reports(Len(trytes)))
    BY DEF Typed, DecodeTyped
  <1>3. PICK r \in Reports(Len(trytes)) : r = [at |-> i, why |-> why]
    BY <1>1
  <1>4. Append(errors, r) \in Seq(Reports(Len(trytes))) /\ Append(errors, r) # <<>>
    BY <1>2, AppendProperties
  <1> QED
    BY <1>1, <1>3, <1>4 DEF Report

LEMMA CrcErrorsIs ==
  ASSUME Typed, AtTryte
  PROVE  CrcErrors \in Seq(Reports(Len(trytes))) /\ (CrcErrors = <<>> <=> CrcHolds(trial.checked, Symbol))
  <1>1. PICK r \in Reports(Len(trytes)) : r = [at |-> i, why |-> "crc"]
    BY ReportIs
  <1>2. CASE CrcHolds(trial.checked, Symbol)
    BY <1>2 DEF CrcErrors
  <1>3. CASE ~CrcHolds(trial.checked, Symbol)
    <2>1. CrcErrors = <<r>>
      BY <1>1, <1>3 DEF CrcErrors
    <2> QED
      BY <1>3, <2>1
  <1> QED
    BY <1>2, <1>3

LEMMA DecodeStepTyped ==
  ASSUME Typed, DecodeStep
  PROVE  Typed'
  <1>1. /\ UNCHANGED <<trial, text, lines, trytes, changes, hit, lost>>
        /\ pc = "decode" /\ (pc' = "decode" \/ pc' = "done")
    BY DEF DecodeStep, SkipContinuation, IncompleteSequence, UnexpectedRole, RejectSymbol, AppendRune,
           EndOfInput, AtTryte, Complete
  <1>2. TextTyped' /\ Untouched'
    BY <1>1 DEF Typed, TextTyped, Untouched
  <1>3. /\ i \in 1..Len(trytes) + 1 /\ output \in Seq(Scalars) /\ errors \in Seq(Reports(Len(trytes)))
        /\ Len(trytes) \in Nat
    BY DEF Typed, DecodeTyped
  <1>4. /\ i' \in 1..Len(trytes) + 1 /\ output' \in Seq(Scalars) /\ errors' \in Seq(Reports(Len(trytes)))
    <2>1. CASE SkipContinuation
      <3>1. AtTryte /\ Report("continuation") /\ i' = i + 1 /\ output' = output
        BY <2>1 DEF SkipContinuation
      <3>2. i \in 1..Len(trytes) /\ errors' \in Seq(Reports(Len(trytes)))
        BY <3>1, AtTryteIs, ReportIs
      <3> QED
        BY <1>3, <3>1, <3>2
    <2>2. CASE IncompleteSequence
      <3>1. AtTryte /\ Report("incomplete") /\ i' = Len(trytes) + 1 /\ output' = output
        BY <2>2 DEF IncompleteSequence
      <3>2. errors' \in Seq(Reports(Len(trytes)))
        BY <3>1, ReportIs
      <3> QED
        BY <1>3, <3>1, <3>2
    <2>3. CASE UnexpectedRole
      <3>1. AtTryte /\ Report("role") /\ i' = i + 1 /\ output' = output
        BY <2>3 DEF UnexpectedRole, Complete
      <3>2. i \in 1..Len(trytes) /\ errors' \in Seq(Reports(Len(trytes)))
        BY <3>1, AtTryteIs, ReportIs
      <3> QED
        BY <1>3, <3>1, <3>2
    <2>4. CASE RejectSymbol
      <3>1. /\ Complete /\ errors' = errors \o CrcErrors \o <<[at |-> i, why |-> "rejected"]>>
            /\ i' = i + Expected /\ output' = output
        BY <2>4 DEF RejectSymbol
      <3>2. AtTryte /\ i' \in 1..Len(trytes) + 1
        BY SMTT(30), <1>3, <3>1, CompleteIs
      <3>3. PICK r \in Reports(Len(trytes)) : r = [at |-> i, why |-> "rejected"]
        BY <3>2, ReportIs
      <3>4. CrcErrors \in Seq(Reports(Len(trytes)))
        BY <3>2, CrcErrorsIs
      <3>5. errors' = errors \o CrcErrors \o <<r>>
        BY <3>1, <3>3
      <3>6. <<r>> \in Seq(Reports(Len(trytes)))
        OBVIOUS
      <3>7. errors \o CrcErrors \in Seq(Reports(Len(trytes)))
        BY <1>3, <3>4, ConcatProperties
      <3>8. (errors \o CrcErrors) \o <<r>> \in Seq(Reports(Len(trytes)))
        BY <3>6, <3>7, ConcatProperties
      <3> QED
        BY <1>3, <3>1, <3>2, <3>5, <3>8
    <2>5. CASE AppendRune
      <3>1. /\ Complete /\ Accepted(trial.checked, Symbol) /\ errors' = errors \o CrcErrors
            /\ i' = i + Expected /\ output' = Append(output, DecodeCodePoint(trial.checked, Symbol))
        BY <2>5 DEF AppendRune
      <3>2. AtTryte /\ i' \in 1..Len(trytes) + 1
        BY SMTT(30), <1>3, <3>1, CompleteIs
      <3>3. CrcErrors \in Seq(Reports(Len(trytes)))
        BY <3>2, CrcErrorsIs
      <3>4. errors' \in Seq(Reports(Len(trytes)))
        BY <1>3, <3>1, <3>3, ConcatProperties
      <3>5. PICK cp \in Scalars : cp = DecodeCodePoint(trial.checked, Symbol)
        <4>1. IsScalar(DecodeCodePoint(trial.checked, Symbol))
          BY <3>1 DEF Accepted
        <4> QED
          BY <4>1, ScalarsAre
      <3>6. output' \in Seq(Scalars)
        BY <1>3, <3>1, <3>5, AppendProperties
      <3> QED
        BY <3>2, <3>4, <3>6
    <2>6. CASE EndOfInput
      BY <1>3, <2>6 DEF EndOfInput
    <2> QED
      BY <2>1, <2>2, <2>3, <2>4, <2>5, <2>6 DEF DecodeStep
  <1>5. DecodeTyped'
    BY <1>1, <1>4 DEF Typed, DecodeTyped
  <1> QED
    BY <1>2, <1>5 DEF Typed

LEMMA StutterTyped ==
  ASSUME Typed, UNCHANGED vars
  PROVE  Typed'
  BY DEF vars, Typed, TextTyped, DecodeTyped, Untouched

LEMMA NextTyped ==
  ASSUME Typed, [Next]_vars
  PROVE  Typed'
  <1>1. CASE Transit
    BY <1>1, TransitTyped
  <1>2. CASE Tokenize
    BY <1>2, TokenizeTyped
  <1>3. CASE DecodeStep
    BY <1>3, DecodeStepTyped
  <1>4. CASE Finished \/ UNCHANGED vars
    BY <1>4, StutterTyped DEF Finished
  <1> QED
    BY <1>1, <1>2, <1>3, <1>4 DEF Next

LEMMA AlwaysTyped == Spec => []Typed
  <1>1. Init => Typed
    BY InitTyped
  <1>2. Typed /\ [Next]_vars => Typed'
    BY NextTyped
  <1> QED
    BY <1>1, <1>2, PTL DEF Spec

(* Decode stays inside its input, what it puts out is text, and what it    *)
(* reports is somewhere in its input (CharTu8Codec.Decode, for every text).*)
THEOREM TypeCorrect == Spec => []TypeOK
  <1>1. Typed => TypeOK
    <2> SUFFICES ASSUME Typed PROVE TypeOK
      OBVIOUS
    <2>1. \A p \in DOMAIN trytes : trytes[p] \in Tryte
      BY DEF Typed, DecodeTyped
    <2>2. trial \in Trials /\ changes \in 0..trial.changes /\ hit \subseteq DOMAIN text
      BY DEF Typed, TextTyped
    <2>3. pc \in {"transit", "decode", "done"} /\ i \in 1..(Len(trytes) + 1)
      BY DEF Typed, DecodeTyped
    <2>4. \A n \in DOMAIN output : IsScalar(output[n])
      <3>1. \A n \in DOMAIN output : output[n] \in Scalars
        BY DEF Typed, DecodeTyped
      <3> QED
        BY <3>1, ScalarsAre
    <2>5. \A n \in DOMAIN errors : errors[n].at \in 0..Len(trytes)
      <3>1. \A n \in DOMAIN errors : errors[n] \in Reports(Len(trytes))
        BY DEF Typed, DecodeTyped
      <3> QED
        BY <3>1 DEF Reports
    <2> QED
      BY <2>1, <2>2, <2>3, <2>4, <2>5 DEF TypeOK
  <1> QED
    BY <1>1, AlwaysTyped, PTL

-----------------------------------------------------------------------------
(* One misread trit: the sum of all that arrives is no longer divisible by *)
(* three, and Decode, as long as it reports nothing, has read what is.     *)

SumTo(ls, m) == SymbolSum(Joined(SubSeq(ls, 1, m)))
Total(ls) == SymbolSum(Joined(ls))
Divisible(s) == SymbolSum(s) % 3 = 0

(* The sums of the lines add up.                                           *)
LEMMA SumsOfLines ==
  ASSUME NEW ls \in Seq(Seq(Tryte))
  PROVE  /\ SumTo(ls, 0) = 0 /\ SumTo(ls, Len(ls)) = Total(ls) /\ Len(ls) \in Nat
         /\ \A m \in 1..Len(ls) : /\ SumTo(ls, m - 1) \in Int /\ SymbolSum(ls[m]) \in Int
                                  /\ SumTo(ls, m) = SumTo(ls, m - 1) + SymbolSum(ls[m])
         /\ Total(ls) \in Int
  <1>1. SumTo(ls, 0) = 0
    BY StartsAndEnds DEF SumTo
  <1>2. SumTo(ls, Len(ls)) = Total(ls) /\ Len(ls) \in Nat
    BY StartsAndEnds DEF SumTo, Total
  <1>3. ASSUME NEW m \in 1..Len(ls)
        PROVE  /\ SumTo(ls, m - 1) \in Int /\ SymbolSum(ls[m]) \in Int
               /\ SumTo(ls, m) = SumTo(ls, m - 1) + SymbolSum(ls[m])
    BY LinesAt DEF SumTo
  <1>4. Total(ls) \in Int
    <2>1. CASE Len(ls) = 0
      BY <1>1, <1>2, <2>1
    <2>2. CASE Len(ls) # 0
      <3>1. Len(ls) \in 1..Len(ls)
        BY <1>2, <2>2
      <3>2. /\ SumTo(ls, Len(ls) - 1) \in Int /\ SymbolSum(ls[Len(ls)]) \in Int
            /\ SumTo(ls, Len(ls)) = SumTo(ls, Len(ls) - 1) + SymbolSum(ls[Len(ls)])
        BY <1>3, <3>1
      <3> QED
        BY <1>2, <3>2
    <2> QED
      BY <2>1, <2>2
  <1> QED
    BY <1>1, <1>2, <1>3, <1>4

(* Lines whose checks hold have a sum that is divisible.                   *)
LEMMA AllDivisible ==
  ASSUME NEW ls \in Seq(Seq(Tryte)), \A m \in 1..Len(ls) : Divisible(ls[m])
  PROVE  Total(ls) % 3 = 0
  <1>1. PICK n \in Nat : n = Len(ls)
    OBVIOUS
  <1> DEFINE Good == {m \in 0..n : SumTo(ls, m) \in Int /\ SumTo(ls, m) % 3 = 0}
  <1>2. 0 \in Good
    <2>1. SumTo(ls, 0) = 0 /\ 0 \in 0..n
      BY SumsOfLines
    <2> QED
      BY <2>1
  <1>3. ASSUME NEW m \in 0..n - 1, m \in Good PROVE m + 1 \in Good
    <2>1. m + 1 \in 1..n /\ (m + 1) - 1 = m /\ m + 1 \in 0..n
      OBVIOUS
    <2>2. PICK p \in Int, q \in Int : /\ p = SumTo(ls, m) /\ q = SymbolSum(ls[m + 1])
                                      /\ SumTo(ls, m + 1) = p + q
      BY <1>1, <2>1, SumsOfLines
    <2>3. p % 3 = 0 /\ q % 3 = 0
      BY <1>1, <1>3, <2>1, <2>2 DEF Divisible
    <2>4. p + q \in Int /\ (p + q) % 3 = 0
      BY <2>3
    <2> QED
      BY <2>1, <2>2, <2>4
  <1>4. 0..n \subseteq Good
    <2> HIDE DEF Good
    <2>1. 0 \in Int /\ n \in Int
      OBVIOUS
    <2> QED
      BY <1>2, <1>3, <2>1, IntervalInduction
  <1>5. n \in Good
    <2>1. n \in 0..n
      OBVIOUS
    <2> QED
      BY <1>4, <2>1
  <1>6. Total(ls) = SumTo(ls, n)
    BY <1>1, SumsOfLines
  <1> QED
    BY <1>5, <1>6

(* A line that differs makes a total that differs as much.                 *)
LEMMA TotalsDiffer ==
  ASSUME NEW ls \in Seq(Seq(Tryte)), NEW n \in 1..Len(ls), NEW u \in Seq(Tryte), NEW us, Differ(us, ls, n, u),
         NEW delta \in Int, SymbolSum(u) = SymbolSum(ls[n]) + delta
  PROVE  Total(us) = Total(ls) + delta
  <1>1. PICK l \in Nat : l = Len(ls) /\ l = Len(us) /\ n \in 1..l
    BY DEF Differ
  <1>2. us \in Seq(Seq(Tryte)) /\ us[n] = u /\ \A m \in 1..l : m # n => us[m] = ls[m]
    BY <1>1 DEF Differ
  <1>3. /\ SumTo(ls, 0) = 0 /\ SumTo(us, 0) = 0 /\ SumTo(ls, l) = Total(ls) /\ SumTo(us, l) = Total(us)
        /\ \A m \in 1..l : /\ SumTo(ls, m - 1) \in Int /\ SymbolSum(ls[m]) \in Int
                           /\ SumTo(ls, m) = SumTo(ls, m - 1) + SymbolSum(ls[m])
        /\ \A m \in 1..l : /\ SumTo(us, m - 1) \in Int /\ SymbolSum(us[m]) \in Int
                           /\ SumTo(us, m) = SumTo(us, m - 1) + SymbolSum(us[m])
    BY <1>1, <1>2, SumsOfLines
  <1> DEFINE Good == {m \in 0..l : SumTo(us, m) = SumTo(ls, m) + (IF m < n THEN 0 ELSE delta)}
  <1>4. 0 \in Good
    <2>1. 0 \in 0..l /\ 0 < n
      OBVIOUS
    <2> QED
      BY <1>3, <2>1
  <1>5. ASSUME NEW m \in 0..l - 1, m \in Good PROVE m + 1 \in Good
    <2>1. m + 1 \in 1..l /\ (m + 1) - 1 = m /\ m + 1 \in 0..l
      OBVIOUS
    <2>2. PICK p \in Int, q \in Int : /\ p = SumTo(ls, m) /\ q = SymbolSum(ls[m + 1])
                                      /\ SumTo(ls, m + 1) = p + q
      BY <1>3, <2>1
    <2>3. SumTo(us, m + 1) = SumTo(us, m) + SymbolSum(us[m + 1])
      BY <1>3, <2>1
    <2>4. CASE m + 1 < n
      <3>1. us[m + 1] = ls[m + 1] /\ SumTo(us, m) = p + 0
        BY <1>2, <1>5, <2>1, <2>2, <2>4
      <3>2. SumTo(us, m + 1) = (p + q) + 0
        BY <2>2, <2>3, <3>1
      <3> QED
        BY <2>1, <2>2, <2>4, <3>2
    <2>5. CASE m + 1 = n
      <3>1. us[m + 1] = u /\ SumTo(us, m) = p + 0 /\ SymbolSum(u) = q + delta
        BY SMTT(30), <1>2, <1>5, <2>1, <2>2, <2>5
      <3>2. SumTo(us, m + 1) = (p + q) + delta
        BY <2>2, <2>3, <3>1
      <3> QED
        BY <2>1, <2>2, <2>5, <3>2
    <2>6. CASE m + 1 > n
      <3>1. us[m + 1] = ls[m + 1] /\ SumTo(us, m) = p + delta
        BY <1>2, <1>5, <2>1, <2>2, <2>6
      <3>2. SumTo(us, m + 1) = (p + q) + delta
        BY <2>2, <2>3, <3>1
      <3> QED
        BY <2>1, <2>2, <2>6, <3>2
    <2> QED
      BY <2>4, <2>5, <2>6
  <1>6. 0..l \subseteq Good
    <2> HIDE DEF Good
    <2>1. 0 \in Int /\ l \in Int
      OBVIOUS
    <2> QED
      BY <1>4, <1>5, <2>1, IntervalInduction
  <1>7. l \in Good
    <2>1. l \in 0..l
      OBVIOUS
    <2> QED
      BY <1>6, <2>1
  <1>8. SumTo(us, l) = SumTo(ls, l) + delta
    BY <1>1, <1>7
  <1> QED
    BY <1>3, <1>8

(* What has been read, once the symbol at i is.                            *)
LEMMA ReadOn ==
  ASSUME Typed, Complete
  PROVE  /\ SubSeq(trytes, 1, i - 1) \in Seq(Tryte) /\ Len(SubSeq(trytes, 1, i - 1)) = i - 1
         /\ SubSeq(trytes, 1, (i + Expected) - 1) = SubSeq(trytes, 1, i - 1) \o Symbol
  <1>1. PICK n \in Nat : n = Expected /\ n \in 1..4 /\ i + n - 1 \in 1..Len(trytes)
    BY CompleteIs
  <1>2. trytes \in Seq(Tryte) /\ Len(trytes) \in Nat /\ i \in 1..Len(trytes) /\ i \in Nat
    BY CompleteIs, AtTryteIs DEF Typed, DecodeTyped
  <1>3. PICK s : s = Symbol /\ s \in Seq(Tryte) /\ Len(s) = n /\ \A k \in 1..n : s[k] = trytes[i + k - 1]
    BY <1>1, CompleteIs DEF SymbolIsRead
  <1>4. PICK p \in Nat : p = i - 1
    <2>1. i - 1 \in Nat
      BY <1>2
    <2> QED
      BY <2>1
  <1>5. PICK a : a = SubSeq(trytes, 1, p)
    OBVIOUS
  <1>6. a \in Seq(Tryte) /\ Len(a) = p /\ \A k \in 1..p : a[k] = trytes[k]
    <2>1. \A k \in 1..p : trytes[k] \in Tryte
      BY <1>2, <1>4
    <2>2. /\ a \in Seq(Tryte) /\ Len(a) = IF 1 <= p THEN p - 1 + 1 ELSE 0
          /\ \A k \in 1..p - 1 + 1 : a[k] = trytes[1 + k - 1]
      BY <1>5, <2>1, SubSeqProperties
    <2>3. p - 1 + 1 = p /\ \A k \in 1..p : 1 + k - 1 = k
      OBVIOUS
    <2> QED
      BY <2>2, <2>3
  <1>7. PICK e \in Nat : e = (i + n) - 1 /\ e = p + n /\ e \in 1..Len(trytes)
    <2>1. (i + n) - 1 = p + n /\ p + n \in Nat /\ (i + n) - 1 \in 1..Len(trytes)
      BY <1>1, <1>2, <1>4
    <2> QED
      BY <2>1
  <1>8. PICK b : b = SubSeq(trytes, 1, e)
    OBVIOUS
  <1>9. b \in Seq(Tryte) /\ Len(b) = e /\ \A k \in 1..e : b[k] = trytes[k]
    <2>1. \A k \in 1..e : trytes[k] \in Tryte
      BY <1>2, <1>7
    <2>2. /\ b \in Seq(Tryte) /\ Len(b) = IF 1 <= e THEN e - 1 + 1 ELSE 0
          /\ \A k \in 1..e - 1 + 1 : b[k] = trytes[1 + k - 1]
      BY <1>8, <2>1, SubSeqProperties
    <2>3. e - 1 + 1 = e /\ \A k \in 1..e : 1 + k - 1 = k
      OBVIOUS
    <2> QED
      BY <1>7, <2>2, <2>3
  <1>10. PICK c : c = a \o s
    OBVIOUS
  <1>11. IsConcat(c, a, p, s, n, Tryte)
    BY <1>3, <1>6, <1>10, ConcatIs
  <1>12. /\ c \in Seq(Tryte) /\ Len(c) = p + n
         /\ \A k \in 1..p : c[k] = a[k]
         /\ \A k \in 1..n : c[p + k] = s[k]
    BY <1>11 DEF IsConcat
  <1>13. ASSUME NEW k \in 1..e PROVE c[k] = b[k]
    <2>1. CASE k <= p
      BY <1>6, <1>9, <1>12, <2>1
    <2>2. CASE ~(k <= p)
      <3>1. PICK m \in 1..n : k = p + m /\ i + m - 1 = k
        <4>1. k - p \in 1..n /\ k = p + (k - p) /\ i + (k - p) - 1 = k
          BY <1>2, <1>4, <1>7, <2>2
        <4> QED
          BY <4>1
      <3>2. c[k] = s[m]
        BY <1>12, <3>1
      <3>3. s[m] = trytes[k]
        BY <1>3, <3>1
      <3> QED
        BY <1>9, <3>2, <3>3
    <2> QED
      BY <2>1, <2>2
  <1>14. Len(b) = Len(c)
    BY <1>7, <1>9, <1>12
  <1>15. b = c
    BY <1>9, <1>12, <1>13, <1>14, SeqEqual
  <1> QED
    BY <1>1, <1>3, <1>4, <1>5, <1>6, <1>7, <1>8, <1>10, <1>15

(* What TokenizeTrytes passes on, and when Decode stops.                   *)
Received ==
  /\ pc # "transit" /\ lost = "trit" => pc = "done" /\ errors # <<>>
  /\ pc # "transit" /\ lost # "trit" => trytes = Joined(lines)
  /\ pc = "done" /\ lost # "trit" => i = Len(trytes) + 1

(* Holds from the end of transit on.                                       *)
LEMMA AlwaysReceived == Spec => []Received
  <1>1. Init => Received
    BY DEF Init, Received
  <1>2. ASSUME Typed, Received, [Next]_vars PROVE Received'
    <2>1. CASE Transit
      <3>1. pc = "transit" /\ pc' = pc
        BY <2>1 DEF Transit, ChangeTrit, LoseTryte, LoseTrit
      <3> QED
        BY <3>1 DEF Received
    <2>2. CASE Tokenize
      <3>1. pc = "transit" /\ lost' = lost /\ lines' = lines
        BY <2>2 DEF Tokenize
      <3>2. CASE lost = "trit"
        <4>1. pc' = "done" /\ errors' = <<[at |-> 0, why |-> "format"]>>
          BY <2>2, <3>2 DEF Tokenize
        <4>2. errors' # <<>>
          BY <4>1
        <4> QED
          BY <3>1, <3>2, <4>1, <4>2 DEF Received
      <3>3. CASE lost # "trit"
        <4>1. pc' = "decode" /\ trytes' = Joined(lines)
          BY <2>2, <3>3 DEF Tokenize
        <4> QED
          BY <3>1, <3>3, <4>1 DEF Received
      <3> QED
        BY <3>2, <3>3
    <2>3. CASE DecodeStep
      <3>1. /\ UNCHANGED <<lines, trytes, lost>> /\ pc = "decode"
            /\ (pc' = "decode" \/ (pc' = "done" /\ i > Len(trytes) /\ i' = i))
        BY <2>3 DEF DecodeStep, SkipContinuation, IncompleteSequence, UnexpectedRole, RejectSymbol,
                    AppendRune, EndOfInput, AtTryte, Complete
      <3>2. i > Len(trytes) => i = Len(trytes) + 1
        <4>1. i \in 1..Len(trytes) + 1 /\ trytes \in Seq(Tryte)
          BY <1>2 DEF Typed, DecodeTyped
        <4>2. Len(trytes) \in Nat
          BY <4>1
        <4> QED
          BY <4>1, <4>2
      <3> QED
        BY <1>2, <3>1, <3>2 DEF Received
    <2>4. CASE Finished \/ UNCHANGED vars
      BY <1>2, <2>4 DEF Finished, vars, Received
    <2> QED
      BY <1>2, <2>1, <2>2, <2>3, <2>4 DEF Next
  <1> QED
    BY <1>1, <1>2, AlwaysTyped, PTL DEF Spec

(* The sum of what is sent, and of what arrives with one trit misread.     *)
DamageShows ==
  /\ lost # "nothing" => changes = 0
  /\ trial.checked /\ changes = 0 /\ lost = "nothing" => Total(lines) % 3 = 0
  /\ trial.checked /\ changes = 1 => ~(Total(lines) % 3 = 0)

(* What charTC_u8 encodes has a sum that is divisible.                     *)
LEMMA EncodedDivisible ==
  ASSUME NEW ls, NEW cps \in Seq(Scalars), Encoded(ls, TRUE, cps)
  PROVE  Total(ls) % 3 = 0
  <1>1. ls \in Seq(Seq(Tryte)) /\ Len(ls) = Len(cps)
    BY DEF Encoded
  <1>2. \A m \in 1..Len(ls) : Divisible(ls[m])
    BY <1>1 DEF Encoded, IsSymbol, CrcHolds, Divisible
  <1> QED
    BY <1>1, <1>2, AllDivisible

(* Another trit in the place of one is not a multiple of three away.       *)
LEMMA OtherTrit ==
  ASSUME NEW total \in Int, total % 3 = 0, NEW t \in Trit, NEW e \in Trit, e # t
  PROVE  t - e \in Int /\ ~((total + (t - e)) % 3 = 0)
  <1>1. PICK d \in {-2, -1, 1, 2} : d = t - e
    BY DEF Trit
  <1>2. ~((total + d) % 3 = 0)
    <2>1. CASE d = -2
      BY <2>1
    <2>2. CASE d = -1
      BY <2>2
    <2>3. CASE d = 1
      BY <2>3
    <2>4. CASE d = 2
      BY <2>4
    <2> QED
      BY <2>1, <2>2, <2>3, <2>4
  <1> QED
    BY <1>1, <1>2

LEMMA InitShows ==
  ASSUME Init
  PROVE  DamageShows
  <1>1. Typed /\ lines = Encode(trial.checked, text) /\ changes = 0 /\ lost = "nothing"
    BY InitTyped DEF Init
  <1>2. ASSUME trial.checked PROVE Total(lines) % 3 = 0
    <2>1. text \in Seq(Scalars) /\ trial.checked = TRUE
      BY <1>1, <1>2 DEF Typed, TextTyped
    <2>2. Encoded(lines, TRUE, text)
      BY <1>1, <2>1, EncodeIs
    <2> QED
      BY <2>1, <2>2, EncodedDivisible
  <1> QED
    BY <1>1, <1>2 DEF DamageShows

(* One misread trit breaks the sum.                                        *)
LEMMA TransitShows ==
  ASSUME Typed, DamageShows, Transit
  PROVE  DamageShows'
  <1>0. PICK n \in DOMAIN lines :
          \/ \E k \in DOMAIN lines[n] :
               \/ \E j \in 1..TryteLength, t \in Trit : ChangeTrit(n, k, j, t)
               \/ LoseTryte(n, k)
          \/ LoseTrit(n)
    BY DEF Transit
  <1>1. ASSUME NEW k \in DOMAIN lines[n], NEW j \in 1..TryteLength, NEW t \in Trit, ChangeTrit(n, k, j, t)
        PROVE  DamageShows'
    <2>1. /\ lost = "nothing" /\ lost' = lost /\ trial' = trial /\ changes' = changes + 1
          /\ lines[n][k][j] # t /\ changes \in Nat
      BY <1>1 DEF ChangeTrit, Typed, TextTyped
    <2>2. PICK u : u = MisreadLine(lines[n], k, j, t)
      OBVIOUS
    <2>3. /\ n \in 1..Len(lines) /\ lines[n] \in Seq(Tryte) /\ k \in 1..Len(lines[n])
          /\ Differ(lines', lines, n, u)
      BY <1>1, <2>2, ChangedLine
    <2>4. ASSUME trial.checked, changes = 0 PROVE ~(Total(lines') % 3 = 0)
      <3>1. PICK total \in Int : total = Total(lines) /\ total % 3 = 0
        <4>1. Total(lines) \in Int
          BY SumsOfLines DEF Typed, TextTyped
        <4>2. Total(lines) % 3 = 0
          BY <2>1, <2>4 DEF DamageShows
        <4> QED
          BY <4>1, <4>2
      <3>2. /\ u \in Seq(Tryte) /\ lines[n][k][j] \in Trit /\ SymbolSum(lines[n]) \in Int
            /\ SymbolSum(u) = (SymbolSum(lines[n]) - lines[n][k][j]) + t
        BY <2>2, <2>3, MisreadLineIs
      <3>3. PICK e \in Trit : e = lines[n][k][j]
        BY <3>2
      <3>4. PICK d \in Int : d = t - e /\ ~((total + d) % 3 = 0)
        BY <2>1, <3>1, <3>3, OtherTrit
      <3>5. SymbolSum(u) = SymbolSum(lines[n]) + d
        <4>1. t \in Int /\ e \in Int
          BY DEF Trit
        <4> QED
          BY <3>2, <3>3, <3>4, <4>1
      <3>6. Total(lines') = total + d
        <4>1. lines \in Seq(Seq(Tryte))
          BY DEF Typed, TextTyped
        <4> QED
          BY ZenonT(30), <2>3, <3>1, <3>2, <3>5, <4>1, TotalsDiffer
      <3> QED
        BY <3>4, <3>6
    <2>5. changes' = 1 => changes = 0
      BY <2>1
    <2> QED
      BY <2>1, <2>4, <2>5 DEF DamageShows
  <1>2. ASSUME NEW k \in DOMAIN lines[n], LoseTryte(n, k)
        PROVE  DamageShows'
    BY <1>2 DEF LoseTryte, DamageShows
  <1>3. ASSUME LoseTrit(n) PROVE DamageShows'
    BY <1>3 DEF LoseTrit, DamageShows
  <1> QED
    BY <1>0, <1>1, <1>2, <1>3

LEMMA NextShows ==
  ASSUME Typed, DamageShows, [Next]_vars
  PROVE  DamageShows'
  <1>1. CASE Transit
    BY <1>1, TransitShows
  <1>2. CASE ~Transit
    <2>1. UNCHANGED <<trial, lines, changes, lost>>
      BY <1>2 DEF Next, Tokenize, DecodeStep, SkipContinuation, IncompleteSequence, UnexpectedRole,
                  RejectSymbol, AppendRune, EndOfInput, Finished, vars
    <2> QED
      BY <2>1 DEF DamageShows
  <1> QED
    BY <1>1, <1>2

(* What Decode has read without a report.                                  *)
ReadDivisible ==
  trial.checked /\ pc # "transit" /\ errors = <<>> => Divisible(SubSeq(trytes, 1, i - 1))

(* Whatever is reported stays.                                             *)
LEMMA NoReport ==
  ASSUME Typed, AtTryte, errors' = <<>>
  PROVE  /\ \A why \in {"format", "continuation", "incomplete", "role", "crc", "rejected"} : ~Report(why)
         /\ errors' # errors \o CrcErrors \o <<[at |-> i, why |-> "rejected"]>>
         /\ errors' = errors \o CrcErrors => errors = <<>> /\ CrcHolds(trial.checked, Symbol)
  <1>1. errors \in Seq(Reports(Len(trytes)))
    BY DEF Typed, DecodeTyped
  <1>2. CrcErrors \in Seq(Reports(Len(trytes))) /\ (CrcErrors = <<>> <=> CrcHolds(trial.checked, Symbol))
    BY CrcErrorsIs
  <1>3. \A why \in {"format", "continuation", "incomplete", "role", "crc", "rejected"} : ~Report(why)
    BY ReportIs
  <1>4. PICK r \in Reports(Len(trytes)) : r = [at |-> i, why |-> "rejected"]
    BY ReportIs
  <1>5. errors \o CrcErrors \in Seq(Reports(Len(trytes)))
    BY <1>1, <1>2, ConcatProperties
  <1>6. (errors \o CrcErrors) \o <<r>> # <<>>
    <2>1. <<r>> \in Seq(Reports(Len(trytes))) /\ <<r>> # <<>>
      OBVIOUS
    <2> QED
      BY <1>5, <2>1, ConcatEqualIffEmpty
  <1>7. errors \o CrcErrors = <<>> => errors = <<>> /\ CrcErrors = <<>>
    BY <1>1, <1>2, ConcatEqualIffEmpty
  <1> QED
    BY <1>2, <1>3, <1>4, <1>6, <1>7

(* The one step that reports nothing.                                      *)
LEMMA QuietStep ==
  ASSUME Typed, DecodeStep, errors' = <<>>
  PROVE  /\ errors = <<>>
         /\ \/ EndOfInput
            \/ AppendRune /\ CrcHolds(trial.checked, Symbol)
  <1>1. CASE SkipContinuation
    BY <1>1, NoReport DEF SkipContinuation
  <1>2. CASE IncompleteSequence
    BY <1>2, NoReport DEF IncompleteSequence
  <1>3. CASE UnexpectedRole
    BY <1>3, NoReport DEF UnexpectedRole, Complete
  <1>4. CASE RejectSymbol
    BY <1>4, NoReport DEF RejectSymbol, Complete
  <1>5. CASE AppendRune
    BY <1>5, NoReport DEF AppendRune, Complete
  <1>6. CASE EndOfInput
    BY <1>6 DEF EndOfInput
  <1> QED
    BY <1>1, <1>2, <1>3, <1>4, <1>5, <1>6 DEF DecodeStep

(* What is taken without a report has a sum that is divisible.             *)
LEMMA NextDivisible ==
  ASSUME Typed, ReadDivisible, [Next]_vars
  PROVE  ReadDivisible'
  <1> SUFFICES ASSUME trial'.checked, pc' # "transit", errors' = <<>>
               PROVE  Divisible(SubSeq(trytes', 1, i' - 1))
    BY DEF ReadDivisible
  <1>1. CASE Transit
    <2>1. pc' = "transit"
      BY <1>1 DEF Transit, ChangeTrit, LoseTryte, LoseTrit
    <2> QED
      BY <2>1
  <1>2. CASE Tokenize
    <2>1. i' = 1
      BY <1>2 DEF Tokenize, Typed, Untouched
    <2>2. SubSeq(trytes', 1, i' - 1) = <<>>
      <3>1. i' - 1 = 0
        BY <2>1
      <3> QED
        BY <3>1, SubSeqEmpty
    <2>3. SymbolSum(SubSeq(trytes', 1, i' - 1)) = 0
      BY <2>2, SumOfNone
    <2> QED
      BY <2>3 DEF Divisible
  <1>3. CASE DecodeStep
    <2>1. trial' = trial /\ trytes' = trytes /\ pc = "decode"
      BY <1>3 DEF DecodeStep, SkipContinuation, IncompleteSequence, UnexpectedRole, RejectSymbol,
                  AppendRune, EndOfInput, AtTryte, Complete
    <2>2. errors = <<>> /\ (EndOfInput \/ (AppendRune /\ CrcHolds(trial.checked, Symbol)))
      BY <1>3, QuietStep
    <2>3. Divisible(SubSeq(trytes, 1, i - 1))
      BY <2>1, <2>2 DEF ReadDivisible
    <2>4. CASE EndOfInput
      BY <2>1, <2>3, <2>4 DEF EndOfInput
    <2>5. CASE AppendRune /\ CrcHolds(trial.checked, Symbol)
      <3>1. Complete /\ i' = i + Expected
        BY <2>5 DEF AppendRune
      <3>2. PICK a \in Seq(Tryte) : a = SubSeq(trytes, 1, i - 1) /\ SubSeq(trytes, 1, i' - 1) = a \o Symbol
        BY <3>1, ReadOn
      <3>3. Symbol \in Seq(Tryte)
        BY <3>1, CompleteIs DEF SymbolIsRead
      <3>4. PICK p \in Int, q \in Int : /\ p = SymbolSum(a) /\ q = SymbolSum(Symbol)
                                        /\ SymbolSum(a \o Symbol) = p + q
        BY <3>3, SumOfConcat
      <3>5. p % 3 = 0 /\ q % 3 = 0
        BY <2>1, <2>3, <2>5, <3>2, <3>4 DEF Divisible, CrcHolds
      <3>6. (p + q) % 3 = 0
        BY <3>5
      <3> QED
        BY <2>1, <3>2, <3>4, <3>6 DEF Divisible
    <2> QED
      BY <2>2, <2>4, <2>5
  <1>4. CASE Finished \/ UNCHANGED vars
    BY <1>4 DEF Finished, vars, ReadDivisible
  <1> QED
    BY <1>1, <1>2, <1>3, <1>4 DEF Next

(* charTC_u8 reports every single misread trit (CharTCu8Codec.Decode), in  *)
(* a text of any length: whatever symbols the decoder takes it for, the    *)
(* trits of all that it takes without a report add up to a multiple of 3.  *)
THEOREM SingleErrorsAreReported == Spec => []SingleErrorReported
  <1>1. Init => DamageShows /\ ReadDivisible
    <2>1. Init => DamageShows
      BY InitShows
    <2>2. Init => ReadDivisible
      BY DEF Init, ReadDivisible
    <2> QED
      BY <2>1, <2>2
  <1>2. Typed /\ DamageShows /\ ReadDivisible /\ [Next]_vars => DamageShows' /\ ReadDivisible'
    BY NextShows, NextDivisible
  <1>3. ASSUME Typed, Received, DamageShows, ReadDivisible, trial.checked, pc = "done", changes = 1, errors = <<>>
        PROVE  FALSE
    <2>1. lost = "nothing" /\ ~(Total(lines) % 3 = 0)
      BY <1>3 DEF DamageShows
    <2>2. trytes = Joined(lines) /\ i = Len(trytes) + 1
      BY <1>3, <2>1 DEF Received
    <2>3. Divisible(SubSeq(trytes, 1, i - 1))
      BY <1>3 DEF ReadDivisible
    <2>4. trytes \in Seq(Tryte) /\ i - 1 = Len(trytes)
      BY <1>3, <2>2 DEF Typed, DecodeTyped
    <2>5. SubSeq(trytes, 1, Len(trytes)) = trytes
      BY <2>4, SubSeqFull
    <2> QED
      BY <2>1, <2>2, <2>3, <2>4, <2>5 DEF Divisible, Total
  <1>4. Typed /\ Received /\ DamageShows /\ ReadDivisible => SingleErrorReported
    BY <1>3 DEF SingleErrorReported
  <1> QED
    BY <1>1, <1>2, <1>4, AlwaysTyped, AlwaysReceived, PTL DEF Spec

-----------------------------------------------------------------------------
(* In step: as long as no damage is met, Decode stands where a line begins.*)

Sent(m) == EncodeCodePoint(trial.checked, text[m])

LinesAre ==
  /\ \A m \in 1..Len(text) : m \notin hit => lines[m] = Sent(m)
  /\ (changes = 0 /\ lost = "nothing") <=> hit = {}
  /\ lost = "tryte" => \E s \in 1..Len(text) :
                         hit = {s} /\ \E k \in 1..Len(Sent(s)) : IsShortened(lines[s], Sent(s), k)

(* The lines as they were sent.                                            *)
LEMMA SentIs ==
  ASSUME Typed, NEW m \in 1..Len(text)
  PROVE  /\ IsSymbol(Sent(m), trial.checked, text[m]) /\ text[m] \in Scalars
         /\ Sent(m) \in Seq(Tryte) /\ Len(Sent(m)) \in 1..4
  <1>1. text \in Seq(Scalars) /\ trial.checked \in BOOLEAN
    BY DEF Typed, TextTyped
  <1>2. text[m] \in Scalars
    BY <1>1
  <1>3. IsSymbol(Sent(m), trial.checked, text[m])
    BY <1>1, <1>2, ScalarsAre, SymbolDecodes DEF Sent
  <1> QED
    BY <1>2, <1>3 DEF IsSymbol

LEMMA TransitLines ==
  ASSUME Typed, LinesAre, Transit
  PROVE  LinesAre'
  <1>0. PICK n \in DOMAIN lines :
          \/ \E k \in DOMAIN lines[n] :
               \/ \E j \in 1..TryteLength, t \in Trit : ChangeTrit(n, k, j, t)
               \/ LoseTryte(n, k)
          \/ LoseTrit(n)
    BY DEF Transit
  <1>1. Len(lines) = Len(text) /\ n \in 1..Len(text)
    BY DEF Typed, TextTyped
  <1>2. ASSUME NEW k \in DOMAIN lines[n], NEW j \in 1..TryteLength, NEW t \in Trit, ChangeTrit(n, k, j, t)
        PROVE  LinesAre'
    <2>1. /\ lost = "nothing" /\ lost' = lost /\ UNCHANGED <<trial, text>> /\ changes' = changes + 1
          /\ hit' = hit \cup {n} /\ changes \in Nat
      BY <1>2 DEF ChangeTrit, Typed, TextTyped
    <2>2. PICK u : Differ(lines', lines, n, u)
      BY <1>2, ChangedLine
    <2>3. \A m \in 1..Len(text) : m # n => lines'[m] = lines[m]
      BY <1>1, <2>2 DEF Differ
    <2>4. \A m \in 1..Len(text') : m \notin hit' => lines'[m] = Sent(m)'
      BY <2>1, <2>3 DEF LinesAre, Sent
    <2>5. changes' # 0 /\ hit' # {}
      BY <2>1
    <2> QED
      BY <2>1, <2>4, <2>5 DEF LinesAre
  <1>3. ASSUME NEW k \in DOMAIN lines[n], LoseTryte(n, k)
        PROVE  LinesAre'
    <2>1. /\ lost = "nothing" /\ changes = 0 /\ lost' = "tryte" /\ UNCHANGED <<trial, text>> /\ hit' = {n}
      BY <1>3 DEF LoseTryte
    <2>2. hit = {}
      BY <2>1 DEF LinesAre
    <2>3. lines[n] = Sent(n)
      BY <1>1, <2>2 DEF LinesAre
    <2>4. PICK u : /\ k \in 1..Len(lines[n]) /\ Differ(lines', lines, n, u) /\ IsShortened(u, lines[n], k)
      BY <1>3, LostLine
    <2>5. lines'[n] = u /\ \A m \in 1..Len(text) : m # n => lines'[m] = lines[m]
      BY <1>1, <2>4 DEF Differ
    <2>6. \A m \in 1..Len(text') : m \notin hit' => lines'[m] = Sent(m)'
      BY <2>1, <2>2, <2>5 DEF LinesAre, Sent
    <2>7. Sent(n)' = Sent(n)
      BY <2>1 DEF Sent
    <2>8. k \in 1..Len(Sent(n)') /\ IsShortened(lines'[n], Sent(n)', k)
      BY <2>3, <2>4, <2>5, <2>7
    <2>9. \E s \in 1..Len(text') : hit' = {s} /\ \E q \in 1..Len(Sent(s)') : IsShortened(lines'[s], Sent(s)', q)
      BY <1>1, <2>1, <2>8
    <2> QED
      BY <2>1, <2>6, <2>9 DEF LinesAre
  <1>4. ASSUME LoseTrit(n) PROVE LinesAre'
    <2>1. lost' = "trit" /\ hit' = {n} /\ UNCHANGED <<trial, text, lines>> /\ lost = "nothing" /\ changes = 0
      BY <1>4 DEF LoseTrit
    <2>2. hit = {}
      BY <2>1 DEF LinesAre
    <2>3. \A m \in 1..Len(text') : m \notin hit' => lines'[m] = Sent(m)'
      BY <2>1, <2>2 DEF LinesAre, Sent
    <2> QED
      BY <2>1, <2>3 DEF LinesAre
  <1> QED
    BY <1>0, <1>2, <1>3, <1>4

(* Undamaged lines are as they were sent, and a loss has shortened one.    *)
LEMMA AlwaysLines == Spec => []LinesAre
  <1>1. ASSUME Init PROVE LinesAre
    <2>1. Typed /\ lines = Encode(trial.checked, text) /\ changes = 0 /\ lost = "nothing" /\ hit = {}
      BY <1>1, InitTyped DEF Init
    <2>2. Encoded(lines, trial.checked, text)
      BY <2>1, EncodeIs DEF Typed, TextTyped
    <2>3. \A m \in 1..Len(text) : lines[m] = Sent(m)
      BY <2>2 DEF Encoded, Sent
    <2> QED
      BY <2>1, <2>3 DEF LinesAre
  <1>2. ASSUME Typed, LinesAre, [Next]_vars PROVE LinesAre'
    <2>1. CASE Transit
      BY <1>2, <2>1, TransitLines
    <2>2. CASE ~Transit
      <3>1. UNCHANGED <<trial, text, lines, changes, hit, lost>>
        BY <1>2, <2>2 DEF Next, Tokenize, DecodeStep, SkipContinuation, IncompleteSequence, UnexpectedRole,
                    RejectSymbol, AppendRune, EndOfInput, Finished, vars
      <3> QED
        BY <1>2, <3>1 DEF LinesAre, Sent
    <2> QED
      BY <2>1, <2>2
  <1> QED
    BY <1>1, <1>2, AlwaysTyped, PTL DEF Spec

(* A tryte that continues a symbol leads none.                             *)
LEMMA NoLead ==
  ASSUME NEW t \in Tryte
  PROVE  GetRole(t) \in {"final", "middle1", "middle2"} <=> SequenceLength(t) = 0
  <1>1. Trits4(t)
    BY TryteHasTrits
  <1>2. GetRole(t) \in {"final", "middle1", "middle2"} <=> t[1] # 1
    BY <1>1, RoleIs DEF Trits4, Trit
  <1>3. SequenceLength(t) = 0 <=> t[1] # 1
    BY LengthIs
  <1> QED
    BY <1>2, <1>3

(* Line m of what arrived, where Decode reads it.                          *)
LEMMA LineIsRead ==
  ASSUME Typed, Received, pc # "transit", lost # "trit", NEW m \in 1..Len(text)
  PROVE  /\ lines[m] \in Seq(Tryte) /\ Len(lines[m]) \in Nat
         /\ Start(lines, m - 1) \in Nat /\ Start(lines, m) = Start(lines, m - 1) + Len(lines[m])
         /\ LineAt(trytes, Start(lines, m - 1), lines[m])
  <1>1. lines \in Seq(Seq(Tryte)) /\ m \in 1..Len(lines)
    BY DEF Typed, TextTyped
  <1>2. trytes = Joined(lines)
    BY DEF Received
  <1>3. lines[m] \in Seq(Tryte)
    BY <1>1
  <1>4. Len(lines[m]) \in Nat
    BY <1>3
  <1> QED
    BY <1>1, <1>2, <1>3, <1>4, LinesAt

(* At a whole symbol, there is one thing Decode can do.                    *)
LEMMA SymbolStep ==
  ASSUME Typed, Received, LinesAre, pc = "decode", lost # "trit", NEW m \in 1..Len(text), m \notin hit,
         i = Start(lines, m - 1) + 1
  PROVE  /\ DecodeStep => /\ errors' = errors /\ output' = Append(output, text[m])
                          /\ i' = Start(lines, m) + 1 /\ pc' = pc
         /\ SequenceLength(trytes[i]) > 0 /\ i <= Len(trytes)
  <1>1. PICK s \in Seq(Tryte) : s = lines[m] /\ IsSymbol(s, trial.checked, text[m])
    BY SentIs DEF LinesAre
  <1>2. PICK n \in 1..4 : /\ n = Len(s) /\ SequenceLength(s[1]) = n /\ ContinuationsValid(s)
                          /\ CrcHolds(trial.checked, s) /\ Accepted(trial.checked, s)
                          /\ DecodeCodePoint(trial.checked, s) = text[m]
    BY <1>1 DEF IsSymbol
  <1>3. PICK p \in Nat : /\ p = Start(lines, m - 1) /\ Start(lines, m) = p + n /\ i = p + 1
                         /\ p + n <= Len(trytes) /\ \A k \in 1..n : trytes[p + k] = s[k]
    BY <1>1, <1>2, LineIsRead DEF LineAt
  <1>4. Len(trytes) \in Nat /\ i \in 1..Len(trytes)
    <2>1. Len(trytes) \in Nat
      BY DEF Typed, DecodeTyped
    <2> QED
      BY <1>3, <2>1
  <1>5. trytes[i] = s[1]
    <2>1. 1 \in 1..n
      OBVIOUS
    <2> QED
      BY <1>3, <2>1
  <1>6. AtTryte /\ Expected = n
    BY <1>2, <1>4, <1>5 DEF AtTryte, Expected
  <1>7. i + n - 1 <= Len(trytes)
    BY <1>3
  <1>8. Complete
    BY <1>6, <1>7 DEF Complete
  <1>9. Symbol = s
    <2>1. Symbol \in Seq(Tryte) /\ Len(Symbol) = n /\ \A k \in 1..n : Symbol[k] = trytes[i + k - 1]
      BY <1>6, <1>8, CompleteIs DEF SymbolIsRead
    <2>2. \A k \in 1..n : i + k - 1 = p + k
      BY <1>3
    <2>3. \A k \in 1..n : Symbol[k] = s[k]
      BY <1>3, <2>1, <2>2
    <2> QED
      BY <1>2, <2>1, <2>3, SeqEqual
  <1>10. CrcErrors = <<>>
    BY <1>2, <1>9 DEF CrcErrors
  <1>11. ASSUME DecodeStep
         PROVE  /\ errors' = errors /\ output' = Append(output, text[m])
                /\ i' = Start(lines, m) + 1 /\ pc' = pc
    <2>1. ~SkipContinuation
      BY <1>6 DEF SkipContinuation
    <2>2. ~IncompleteSequence
      BY <1>3, <1>4, <1>6, <1>7 DEF IncompleteSequence
    <2>3. ~UnexpectedRole /\ ~RejectSymbol
      BY <1>2, <1>9 DEF UnexpectedRole, RejectSymbol
    <2>4. ~EndOfInput
      BY <1>4 DEF EndOfInput
    <2>5. /\ errors' = errors \o CrcErrors /\ i' = i + Expected /\ pc' = pc
          /\ output' = Append(output, DecodeCodePoint(trial.checked, Symbol))
      BY <1>11, <2>1, <2>2, <2>3, <2>4 DEF DecodeStep, AppendRune
    <2>6. errors' = errors
      <3>1. errors \in Seq(Reports(Len(trytes)))
        BY DEF Typed, DecodeTyped
      <3> QED
        BY <1>10, <2>5, <3>1, ConcatEmptySeq
    <2>7. i' = (p + n) + 1
      BY <1>3, <1>6, <2>5
    <2> QED
      BY <1>2, <1>3, <1>9, <2>5, <2>6, <2>7
  <1> QED
    BY <1>2, <1>4, <1>5, <1>11

(* At a symbol that lost one of its trytes, Decode has something to report.*)
LEMMA LossStep ==
  ASSUME Typed, Received, LinesAre, pc = "decode", lost = "tryte", NEW h \in 1..Len(text), hit = {h},
         Len(Sent(h)) > 1, i = Start(lines, h - 1) + 1, DecodeStep
  PROVE  errors' # <<>>
  <1> SUFFICES ASSUME errors' = <<>> PROVE FALSE
    OBVIOUS
  <1>1. PICK k \in 1..Len(Sent(h)) : IsShortened(lines[h], Sent(h), k)
    BY DEF LinesAre
  <1>2. PICK e \in Seq(Tryte) : e = Sent(h) /\ IsSymbol(e, trial.checked, text[h])
    BY SentIs
  <1>3. PICK n \in 2..4 : n = Len(e) /\ SequenceLength(e[1]) = n /\ ContinuationsValid(e)
    <2>1. /\ Len(e) \in 1..4 /\ Len(e) > 1
          /\ SequenceLength(e[1]) = Len(e) /\ ContinuationsValid(e)
      BY <1>2 DEF IsSymbol
    <2>2. Len(e) \in 2..4
      <3>1. PICK l \in 1..4 : l = Len(e) /\ l > 1
        BY <2>1
      <3>2. l \in 2..4
        BY <3>1
      <3> QED
        BY <3>1, <3>2
    <2> QED
      BY <2>1, <2>2
  <1>4. PICK s \in Seq(Tryte) : /\ s = lines[h] /\ Len(s) = n - 1
                                /\ \A q \in 1..k - 1 : s[q] = e[q]
                                /\ \A q \in k..n - 1 : s[q] = e[q + 1]
    BY <1>1, <1>2, <1>3 DEF IsShortened
  <1>5. PICK p \in Nat : /\ p = Start(lines, h - 1) /\ Start(lines, h) = p + (n - 1) /\ i = p + 1
                         /\ p + (n - 1) <= Len(trytes) /\ \A q \in 1..n - 1 : trytes[p + q] = s[q]
    BY <1>3, <1>4, LineIsRead DEF LineAt
  <1>6. trytes \in Seq(Tryte) /\ Len(trytes) \in Nat
    BY DEF Typed, DecodeTyped
  <1>7. i <= Len(trytes) /\ trytes[i] = s[1]
    <2>1. 1 \in 1..n - 1
      OBVIOUS
    <2> QED
      BY SMTT(30), <1>3, <1>5, <1>6, <2>1
  <1>8. AppendRune
    <2>1. ~EndOfInput
      BY <1>5, <1>6, <1>7 DEF EndOfInput
    <2> QED
      BY <2>1, QuietStep
  <1>9. Complete /\ ContinuationsValid(Symbol)
    BY <1>8 DEF AppendRune
  <1>10. CASE k = 1
    <2>1. s[1] = e[2]
      <3>1. 1 \in k..n - 1
        BY <1>3, <1>10
      <3> QED
        BY <1>4, <1>10, <3>1
    <2>2. e[2] \in Tryte /\ GetRole(e[2]) \in {"final", "middle1", "middle2"}
      <3>1. 2 \in 2..Len(e) /\ 2 \in 1..Len(e)
        BY <1>3
      <3>2. GetRole(e[2]) \in (IF 2 = Len(e) THEN {"final"} ELSE {"middle1", "middle2"})
        BY <1>3, <3>1 DEF ContinuationsValid
      <3> QED
        BY <3>1, <3>2
    <2>3. SequenceLength(e[2]) = 0
      BY <2>2, NoLead
    <2>4. Expected = 0
      BY <1>7, <2>1, <2>3 DEF Expected
    <2> QED
      BY <1>9, <2>4 DEF Complete
  <1>11. CASE k # 1
    <2>1. s[1] = e[1]
      <3>1. 1 \in 1..k - 1
        BY <1>2, <1>3, <1>11
      <3> QED
        BY <1>4, <3>1
    <2>2. Expected = n
      BY <1>3, <1>7, <2>1 DEF Expected
    <2>3. Len(Symbol) = n /\ Symbol[n] = trytes[i + n - 1] /\ i + n - 1 <= Len(trytes)
      BY <1>9, <2>2, CompleteIs DEF SymbolIsRead
    <2>4. i + n - 1 = Start(lines, h) + 1
      BY <1>5
    <2>5. GetRole(Symbol[n]) = "final"
      <3>1. n \in 2..Len(Symbol)
        BY <2>3
      <3> QED
        BY <1>9, <2>3, <3>1 DEF ContinuationsValid
    <2>6. h + 1 \in 1..Len(text)
      <3>1. Len(text) \in Nat /\ Len(text) = Len(lines) /\ lines \in Seq(Seq(Tryte))
        BY DEF Typed, TextTyped
      <3>2. CASE h = Len(text)
        <4>1. Start(lines, h) = Len(trytes)
          BY <3>1, <3>2, StartsAndEnds DEF Received
        <4> QED
          BY <1>6, <2>3, <2>4, <4>1
      <3> QED
        BY <3>1, <3>2
    <2>7. h + 1 \notin hit /\ (h + 1) - 1 = h
      OBVIOUS
    <2>8. PICK u \in Seq(Tryte) : u = lines[h + 1] /\ IsSymbol(u, trial.checked, text[h + 1])
      BY <2>6, <2>7, SentIs DEF LinesAre
    <2>9. PICK l \in 1..4 : l = Len(u) /\ SequenceLength(u[1]) = l
      BY <2>8 DEF IsSymbol
    <2>10. trytes[Start(lines, h) + 1] = u[1]
      <3>1. LineAt(trytes, Start(lines, h), u)
        BY <2>6, <2>7, <2>8, LineIsRead
      <3>2. 1 \in 1..Len(u)
        BY <2>9
      <3> QED
        BY <3>1, <3>2 DEF LineAt
    <2>11. u[1] \in Tryte
      <3>1. 1 \in 1..Len(u)
        BY <2>9
      <3> QED
        BY <3>1
    <2>12. SequenceLength(u[1]) = 0
      BY <2>3, <2>4, <2>5, <2>10, <2>11, NoLead
    <2> QED
      BY <2>9, <2>12
  <1> QED
    BY <1>10, <1>11

(* What is known of the output: it is the text so far, up to the damage.   *)
InStep(m) == output = SubSeq(text, 1, m) /\ errors = <<>> /\ i = Start(lines, m) + 1

HasBefore(out, h) == h - 1 <= Len(out) /\ \A q \in 1..h - 1 : out[q] = text[q]
LossHeard(h) == lost = "tryte" /\ Len(Sent(h)) > 1 => errors # <<>>

PastDamage == hit # {} /\ \A h \in hit : hit = {h} => HasBefore(output, h) /\ LossHeard(h)
BeforeDamage == \E m \in 0..Len(text) : (\A h \in hit : m < h) /\ InStep(m)
InStepUntilDamage == pc # "transit" /\ lost # "trit" => BeforeDamage \/ PastDamage

(* The first m elements of a sequence.                                     *)
LEMMA TextTo ==
  ASSUME NEW D, NEW s \in Seq(D), NEW m \in 0..Len(s)
  PROVE  /\ SubSeq(s, 1, m) \in Seq(D) /\ Len(SubSeq(s, 1, m)) = m
         /\ \A q \in 1..m : SubSeq(s, 1, m)[q] = s[q]
         /\ m < Len(s) => SubSeq(s, 1, m + 1) = Append(SubSeq(s, 1, m), s[m + 1])
  <1>1. ASSUME NEW l \in 0..Len(s)
        PROVE  /\ SubSeq(s, 1, l) \in Seq(D) /\ Len(SubSeq(s, 1, l)) = l
               /\ \A q \in 1..l : SubSeq(s, 1, l)[q] = s[q]
    <2>1. \A q \in 1..l : s[q] \in D
      OBVIOUS
    <2>2. PICK d : d = SubSeq(s, 1, l)
      OBVIOUS
    <2>3. /\ d \in Seq(D) /\ Len(d) = IF 1 <= l THEN l - 1 + 1 ELSE 0
          /\ \A q \in 1..l - 1 + 1 : d[q] = s[1 + q - 1]
      BY <2>1, <2>2, SubSeqProperties
    <2>4. l - 1 + 1 = l /\ \A q \in 1..l : 1 + q - 1 = q
      OBVIOUS
    <2>5. Len(d) = l /\ \A q \in 1..l : d[q] = s[q]
      BY <2>3, <2>4
    <2> QED
      BY <2>2, <2>3, <2>5
  <1>2. ASSUME m < Len(s) PROVE SubSeq(s, 1, m + 1) = Append(SubSeq(s, 1, m), s[m + 1])
    <2>1. m + 1 \in 0..Len(s) /\ s[m + 1] \in D
      BY <1>2
    <2>2. PICK a \in Seq(D) : a = SubSeq(s, 1, m) /\ Len(a) = m /\ \A q \in 1..m : a[q] = s[q]
      BY <1>1
    <2>3. PICK b \in Seq(D) : b = SubSeq(s, 1, m + 1) /\ Len(b) = m + 1 /\ \A q \in 1..m + 1 : b[q] = s[q]
      BY <1>1, <2>1
    <2>4. PICK c : c = Append(a, s[m + 1])
      OBVIOUS
    <2>5. c \in Seq(D) /\ Len(c) = m + 1 /\ (\A q \in 1..m : c[q] = a[q]) /\ c[m + 1] = s[m + 1]
      <3>1. /\ c \in Seq(D) /\ Len(c) = Len(a) + 1 /\ (\A q \in 1..Len(a) : c[q] = a[q])
            /\ c[Len(a) + 1] = s[m + 1]
        BY <2>1, <2>4, AppendProperties
      <3> QED
        BY <2>2, <3>1
    <2>6. \A q \in 1..m + 1 : q \in 1..m \/ q = m + 1
      OBVIOUS
    <2>7. \A q \in 1..m + 1 : c[q] = b[q]
      BY <2>2, <2>3, <2>5, <2>6
    <2>8. c = b
      BY <2>3, <2>5, <2>7, SeqEqual
    <2> QED
      BY <2>2, <2>3, <2>4, <2>8
  <1> QED
    BY <1>1, <1>2

(* Nothing that was put out is taken back.                                 *)
LEMMA OutputGrows ==
  ASSUME Typed, DecodeStep
  PROVE  output' = output \/ \E cp \in Scalars : output' = Append(output, cp)
  <1>1. CASE AppendRune
    <2>1. output' = Append(output, DecodeCodePoint(trial.checked, Symbol)) /\ Accepted(trial.checked, Symbol)
      BY <1>1 DEF AppendRune
    <2>2. IsScalar(DecodeCodePoint(trial.checked, Symbol))
      BY <2>1 DEF Accepted
    <2>3. DecodeCodePoint(trial.checked, Symbol) \in Scalars
      BY <2>2, ScalarsAre
    <2> QED
      BY <2>1, <2>3
  <1>2. CASE ~AppendRune
    BY <1>2 DEF DecodeStep, SkipContinuation, IncompleteSequence, UnexpectedRole, RejectSymbol, EndOfInput
  <1> QED
    BY <1>1, <1>2

(* So that the text before the damage stays,                               *)
LEMMA BeforeStays ==
  ASSUME Typed, DecodeStep, NEW h \in 1..Len(text), HasBefore(output, h)
  PROVE  HasBefore(output', h)
  <1>1. CASE output' = output
    BY <1>1 DEF HasBefore
  <1>2. CASE output' # output
    <2>1. PICK cp \in Scalars : output' = Append(output, cp)
      BY <1>2, OutputGrows
    <2>2. PICK l \in Nat : l = Len(output) /\ output \in Seq(Scalars)
      BY DEF Typed, DecodeTyped
    <2>3. Len(output') = l + 1 /\ \A q \in 1..l : output'[q] = output[q]
      <3>1. Len(Append(output, cp)) = Len(output) + 1 /\ \A q \in 1..Len(output) : Append(output, cp)[q] = output[q]
        BY <2>2, AppendProperties
      <3> QED
        BY <2>1, <2>2, <3>1
    <2>4. h \in Nat /\ h - 1 <= l /\ \A q \in 1..h - 1 : output[q] = text[q]
      <3>1. h \in Nat
        BY DEF Typed, TextTyped
      <3> QED
        BY <2>2, <3>1 DEF HasBefore
    <2>5. h - 1 <= l + 1 /\ \A q \in 1..h - 1 : q \in 1..l
      BY <2>4
    <2>6. \A q \in 1..h - 1 : output'[q] = text[q]
      BY <2>3, <2>4, <2>5
    <2> QED
      BY <2>3, <2>5, <2>6 DEF HasBefore
  <1> QED
    BY <1>1, <1>2

(* and a report of the loss, too.                                          *)
LEMMA PastStays ==
  ASSUME Typed, DecodeStep, PastDamage
  PROVE  PastDamage'
  <1>1. UNCHANGED <<trial, text, lost, hit>>
    BY DEF DecodeStep, SkipContinuation, IncompleteSequence, UnexpectedRole, RejectSymbol, AppendRune, EndOfInput
  <1>2. ASSUME NEW h \in hit, hit = {h} PROVE HasBefore(output', h) /\ LossHeard(h)'
    <2>1. h \in 1..Len(text) /\ HasBefore(output, h) /\ LossHeard(h)
      BY <1>2 DEF Typed, TextTyped, PastDamage
    <2>2. errors # <<>> => errors' # <<>>
      BY QuietStep
    <2>3. LossHeard(h)'
      BY <1>1, <2>1, <2>2 DEF LossHeard, Sent
    <2> QED
      BY <2>1, <2>3, BeforeStays
  <1>3. \A h : HasBefore(output, h)' <=> HasBefore(output', h)
    BY <1>1 DEF HasBefore
  <1> QED
    BY <1>1, <1>2, <1>3 DEF PastDamage

(* A step that meets no damage, or is the first that does.                 *)
LEMMA BeforeStep ==
  ASSUME Typed, Received, LinesAre, pc = "decode", lost # "trit", BeforeDamage, DecodeStep
  PROVE  BeforeDamage' \/ PastDamage'
  <1>1. UNCHANGED <<trial, text, lines, trytes, lost, hit>>
    BY DEF DecodeStep, SkipContinuation, IncompleteSequence, UnexpectedRole, RejectSymbol, AppendRune, EndOfInput
  <1>2. PICK m \in 0..Len(text) : (\A h \in hit : m < h) /\ InStep(m)
    BY DEF BeforeDamage
  <1>3. /\ text \in Seq(Scalars) /\ Len(text) \in Nat /\ lines \in Seq(Seq(Tryte)) /\ Len(lines) = Len(text)
        /\ hit \subseteq 1..Len(text) /\ trytes \in Seq(Tryte) /\ Len(trytes) \in Nat
    BY DEF Typed, TextTyped, DecodeTyped
  <1>4. output = SubSeq(text, 1, m) /\ errors = <<>> /\ i = Start(lines, m) + 1
    BY <1>2 DEF InStep
  <1>5. CASE m = Len(text)
    <2>1. i = Len(trytes) + 1
      BY <1>3, <1>4, <1>5, StartsAndEnds DEF Received
    <2>2. ~AtTryte
      BY <1>3, <2>1 DEF AtTryte
    <2>3. EndOfInput
      BY <2>2 DEF DecodeStep, SkipContinuation, IncompleteSequence, UnexpectedRole, RejectSymbol,
                  AppendRune, Complete
    <2>4. InStep(m)'
      BY <1>1, <1>2, <2>3 DEF EndOfInput, InStep
    <2> QED
      BY <1>1, <1>2, <2>4 DEF BeforeDamage
  <1>6. CASE m # Len(text) /\ m + 1 \notin hit
    <2>1. m + 1 \in 1..Len(text) /\ m + 1 \in 0..Len(text) /\ (m + 1) - 1 = m /\ m < Len(text)
      BY <1>3, <1>6
    <2>2. errors' = errors /\ output' = Append(output, text[m + 1]) /\ i' = Start(lines, m + 1) + 1
      BY <1>4, <1>6, <2>1, SymbolStep
    <2>3. SubSeq(text, 1, m + 1) = Append(SubSeq(text, 1, m), text[m + 1])
      BY <1>3, <2>1, TextTo
    <2>4. InStep(m + 1)'
      BY <1>1, <1>4, <2>2, <2>3 DEF InStep
    <2>5. \A h \in hit : m + 1 < h
      BY <1>2, <1>3, <1>6
    <2> QED
      BY <1>1, <2>1, <2>4, <2>5 DEF BeforeDamage
  <1>7. CASE m + 1 \in hit
    <2>1. ASSUME NEW h \in hit, hit = {h} PROVE HasBefore(output', h) /\ LossHeard(h)'
      <3>1. h = m + 1 /\ h \in 1..Len(text) /\ h - 1 = m
        BY <1>3, <1>7, <2>1
      <3>2. HasBefore(output, h)
        <4>1. Len(SubSeq(text, 1, m)) = m /\ \A q \in 1..m : SubSeq(text, 1, m)[q] = text[q]
          BY <1>3, TextTo
        <4>2. m <= Len(output)
          BY <1>4, <4>1
        <4> QED
          BY <1>4, <3>1, <4>1, <4>2 DEF HasBefore
      <3>3. HasBefore(output', h)
        BY <3>1, <3>2, BeforeStays
      <3>4. ASSUME lost = "tryte", Len(Sent(h)) > 1 PROVE errors' # <<>>
        BY <1>4, <2>1, <3>1, <3>4, LossStep
      <3>5. LossHeard(h)'
        BY <1>1, <3>4 DEF LossHeard, Sent
      <3> QED
        BY <3>3, <3>5
    <2>2. \A h : HasBefore(output, h)' <=> HasBefore(output', h)
      BY <1>1 DEF HasBefore
    <2> QED
      BY <1>1, <1>7, <2>1, <2>2 DEF PastDamage
  <1> QED
    BY <1>5, <1>6, <1>7

(* The text so far, up to the damage.                                      *)
LEMMA AlwaysInStep == Spec => []InStepUntilDamage
  <1>1. Init => InStepUntilDamage
    BY DEF Init, InStepUntilDamage
  <1>2. ASSUME Typed, Received, LinesAre, InStepUntilDamage, [Next]_vars PROVE InStepUntilDamage'
    <2> SUFFICES ASSUME pc' # "transit", lost' # "trit" PROVE BeforeDamage' \/ PastDamage'
      BY DEF InStepUntilDamage
    <2>1. CASE Transit
      <3>1. pc' = "transit"
        BY <2>1 DEF Transit, ChangeTrit, LoseTryte, LoseTrit
      <3> QED
        BY <3>1
    <2>2. CASE Tokenize
      <3>1. /\ pc = "transit" /\ lost = lost' /\ UNCHANGED <<text, lines, hit, i, output>>
        BY <2>2 DEF Tokenize
      <3>2. errors' = errors
        BY <2>2, <3>1 DEF Tokenize
      <3>3. i = 1 /\ output = <<>> /\ errors = <<>> /\ lines \in Seq(Seq(Tryte)) /\ hit \subseteq 1..Len(text)
            /\ Len(text) \in Nat
        BY <1>2, <3>1 DEF Typed, TextTyped, Untouched
      <3>4. SubSeq(text, 1, 0) = <<>>
        BY SubSeqEmpty
      <3>5. Start(lines, 0) = 0
        BY <3>3, StartsAndEnds
      <3>6. InStep(0)'
        BY <3>1, <3>2, <3>3, <3>4, <3>5 DEF InStep
      <3>7. 0 \in 0..Len(text) /\ \A h \in hit : 0 < h
        BY <3>3
      <3> QED
        BY <3>1, <3>6, <3>7 DEF BeforeDamage
    <2>3. CASE DecodeStep
      <3>1. pc = "decode" /\ lost # "trit"
        BY <2>3 DEF DecodeStep, SkipContinuation, IncompleteSequence, UnexpectedRole, RejectSymbol,
                    AppendRune, EndOfInput, AtTryte, Complete
      <3>2. BeforeDamage \/ PastDamage
        BY <1>2, <3>1 DEF InStepUntilDamage
      <3> QED
        BY <1>2, <2>3, <3>1, <3>2, BeforeStep, PastStays
    <2>4. CASE Finished \/ UNCHANGED vars
      <3>1. UNCHANGED vars
        BY <2>4 DEF Finished
      <3>2. BeforeDamage \/ PastDamage
        BY <1>2, <3>1 DEF vars, InStepUntilDamage
      <3> QED
        BY <3>1, <3>2 DEF vars, BeforeDamage, PastDamage, InStep, HasBefore, LossHeard, Sent
    <2> QED
      BY <1>2, <2>1, <2>2, <2>3, <2>4 DEF Next
  <1> QED
    BY <1>1, <1>2, AlwaysTyped, AlwaysReceived, AlwaysLines, PTL DEF Spec

(* At the end nothing is left to read.                                     *)
LEMMA NothingLeft ==
  ASSUME Typed, Received, LinesAre, pc = "done", lost # "trit", NEW m \in 0..Len(text), InStep(m),
         m < Len(text)
  PROVE  Len(lines[m + 1]) = 0 /\ m + 1 \in hit
  <1>1. m + 1 \in 1..Len(text) /\ (m + 1) - 1 = m
    BY DEF Typed, TextTyped
  <1>2. i = Len(trytes) + 1 /\ i = Start(lines, m) + 1
    BY DEF Received, InStep
  <1>3. /\ lines[m + 1] \in Seq(Tryte) /\ Len(lines[m + 1]) \in Nat /\ Start(lines, m) \in Nat
        /\ Start(lines, m) + Len(lines[m + 1]) <= Len(trytes)
    BY <1>1, LineIsRead DEF LineAt
  <1>4. Len(trytes) \in Nat
    BY DEF Typed, DecodeTyped
  <1>5. Len(lines[m + 1]) = 0
    BY <1>2, <1>3, <1>4
  <1>6. m + 1 \notin hit => Len(lines[m + 1]) \in 1..4
    BY <1>1, SentIs DEF LinesAre
  <1> QED
    BY <1>5, <1>6

(* What Encode writes of any text, Decode reads back without a report      *)
(* (CharTu8Codec and CharTCu8Codec; the round-trip tests try some texts).  *)
THEOREM TextsComeBack == Spec => []RoundTrip
  <1>1. ASSUME Typed, Received, LinesAre, InStepUntilDamage, pc = "done", hit = {}
        PROVE  output = text /\ errors = <<>>
    <2>1. lost # "trit"
      BY <1>1 DEF LinesAre
    <2>2. PICK m \in 0..Len(text) : InStep(m)
      BY <1>1, <2>1 DEF InStepUntilDamage, BeforeDamage, PastDamage
    <2>3. text \in Seq(Scalars) /\ Len(text) \in Nat
      BY <1>1 DEF Typed, TextTyped
    <2>4. m = Len(text)
      <3>1. ~(m < Len(text))
        BY <1>1, <2>1, <2>2, NothingLeft
      <3> QED
        BY <2>3, <3>1
    <2>5. SubSeq(text, 1, Len(text)) = text
      BY <2>3, SubSeqFull
    <2> QED
      BY <2>2, <2>4, <2>5 DEF InStep
  <1>2. Typed /\ Received /\ LinesAre /\ InStepUntilDamage => RoundTrip
    BY <1>1 DEF RoundTrip
  <1> QED
    BY <1>2, AlwaysTyped, AlwaysReceived, AlwaysLines, AlwaysInStep, PTL

(* A tryte that is missing from a symbol of several never goes unnoticed,  *)
(* whatever precedes the symbol and follows it.                            *)
THEOREM LossesAreReported == Spec => []LossReported
  <1>1. ASSUME Typed, Received, LinesAre, InStepUntilDamage, pc = "done", lost = "tryte",
               NEW s \in hit, Len(EncodeCodePoint(trial.checked, text[s])) > 1
        PROVE  errors # <<>>
    <2>1. hit = {s} /\ s \in 1..Len(text) /\ \E k \in 1..Len(Sent(s)) : IsShortened(lines[s], Sent(s), k)
      BY <1>1 DEF LinesAre
    <2>2. Len(Sent(s)) > 1
      BY <1>1 DEF Sent
    <2>3. BeforeDamage \/ PastDamage
      BY <1>1 DEF InStepUntilDamage
    <2>4. ASSUME BeforeDamage PROVE FALSE
      <3>1. PICK m \in 0..Len(text) : m < s /\ InStep(m)
        BY <2>4 DEF BeforeDamage
      <3>2. m < Len(text)
        BY <1>1, <2>1, <3>1 DEF Typed, TextTyped
      <3>3. Len(lines[m + 1]) = 0 /\ m + 1 \in hit
        BY <1>1, <3>1, <3>2, NothingLeft
      <3>4. Len(lines[s]) = 0
        BY <2>1, <3>3
      <3>5. Len(lines[s]) = Len(Sent(s)) - 1 /\ Len(Sent(s)) \in 1..4
        BY <1>1, <2>1, SentIs DEF IsShortened
      <3> QED
        BY <2>2, <3>4, <3>5
    <2>5. ASSUME PastDamage PROVE errors # <<>>
      BY <1>1, <2>1, <2>2, <2>5 DEF PastDamage, LossHeard
    <2> QED
      BY <2>3, <2>4, <2>5
  <1>2. Typed /\ Received /\ LinesAre /\ InStepUntilDamage => LossReported
    BY <1>1 DEF LossReported
  <1> QED
    BY <1>2, AlwaysTyped, AlwaysReceived, AlwaysLines, AlwaysInStep, PTL

-----------------------------------------------------------------------------
(* One clean encoding: what Decode takes without a report is what Encode   *)
(* makes of the code point it takes it for, but for the trit that is       *)
(* neither role nor payload, and the check trit that has to follow it.     *)

(* The trytes a were sent, where a clean encoding has b.                   *)
Agrees(a, b) ==
  /\ Len(a) = Len(b)
  /\ \A p \in 1..Len(b) : \A j \in 1..6 :
       \/ a[p][j] = b[p][j]
       \/ j = 2 /\ p > 1 /\ GetRole(b[p - 1]) = "lead4"
       \/ j = 6 /\ GetRole(b[p]) = "lead4"

(* A one-tryte symbol is its table's.                                      *)
LEMMA SingleCanonical ==
  ASSUME NEW checked \in BOOLEAN, NEW s \in Seq(Tryte), Len(s) = 1, SequenceLength(s[1]) = 1,
         Accepted(checked, s)
  PROVE  EncodeCodePoint(checked, DecodeCodePoint(checked, s)) = s
  <1>1. PICK t \in Tryte : t = s[1]
    <2>1. 1 \in 1..Len(s)
      OBVIOUS
    <2>2. s[1] \in Tryte
      BY <2>1, ElementOfSeq
    <2> QED
      BY <2>2
  <1>2. KnownPattern(checked, t)
    <2>1. CASE checked
      BY <1>1, <2>1 DEF Accepted
    <2>2. CASE ~checked
      <3>1. checked = FALSE
        BY <2>2
      <3> QED
        BY <1>1, <3>1, U8Patterns
    <2> QED
      BY <2>1, <2>2
  <1>3. PICK entry \in SingleTryteTable[checked] : entry.tryte = t
    BY <1>2 DEF KnownPattern
  <1>4. \A other \in SingleTryteTable[checked] : entry.cp = other.cp \/ entry.tryte = other.tryte => entry = other
    BY TablePairs
  <1>5. (CHOOSE e \in SingleTryteTable[checked] : e.tryte = t) = entry
    BY <1>3, <1>4
  <1>6. DecodeCodePoint(checked, s) = entry.cp
    BY <1>1, <1>5 DEF DecodeCodePoint
  <1>7. PICK cp : cp = entry.cp
    OBVIOUS
  <1>8. (CHOOSE e \in SingleTryteTable[checked] : e.cp = cp) = entry
    BY <1>4, <1>7
  <1>9. CpFormLength(checked, cp) = 1
    <2>1. IsSingle(checked, cp)
      BY <1>7 DEF IsSingle
    <2> QED
      BY <2>1 DEF CpFormLength
  <1>10. EncodeCodePoint(checked, cp) = <<t>>
    BY <1>3, <1>8, <1>9 DEF EncodeCodePoint
  <1>11. s = <<t>>
    BY <1>1
  <1> QED
    BY <1>6, <1>7, <1>10, <1>11

(* Markers that are read as those of a symbol of n trytes are its markers, *)
(* but for the second trit of a second tryte of four.                      *)
LEMMA MarkersAre ==
  ASSUME NEW n \in 2..4, NEW s \in Seq(Tryte), Len(s) = n, SequenceLength(s[1]) = n, ContinuationsValid(s),
         NEW k \in 1..n, NEW j \in 1..TritsOfMarker(n, k), ~(n = 4 /\ k = 2 /\ j = 2)
  PROVE  s[k][j] = TritAt(n, k, j)
  <1>1. PICK t \in Tryte : t = s[k]
    <2>1. s[k] \in Tryte
      OBVIOUS
    <2> QED
      BY <2>1
  <1>2. Trits4(t) /\ \A q \in 1..6 : t[q] \in Trit
    BY TryteHasTrits
  <1>3. CASE k = 1
    <2>1. SequenceLength(t) = n /\ j \in 1..n
      BY <1>1, <1>3 DEF TritsOfMarker
    <2>2. CASE n = 2
      <3>1. t[1] = 1 /\ t[2] = -1
        BY <1>2, <2>1, <2>2, LengthIs DEF Trits4, Trit
      <3> QED
        BY <1>1, <1>3, <2>1, <2>2, <3>1 DEF TritAt
    <2>3. CASE n = 3
      <3>1. t[1] = 1 /\ t[2] = 1 /\ t[3] = -1
        BY <1>2, <2>1, <2>3, LengthIs DEF Trits4, Trit
      <3> QED
        BY <1>1, <1>3, <2>1, <2>3, <3>1 DEF TritAt
    <2>4. CASE n = 4
      <3>1. t[1] = 1 /\ t[2] = 1 /\ t[3] = 1 /\ t[4] = -1
        BY <1>2, <2>1, <2>4, LengthIs DEF Trits4, Trit
      <3> QED
        BY <1>1, <1>3, <2>1, <2>4, <3>1 DEF TritAt
    <2> QED
      BY <2>2, <2>3, <2>4
  <1>4. CASE k # 1
    <2>1. j = 1 /\ k \in 2..n
      BY <1>4 DEF TritsOfMarker
    <2>2. GetRole(t) \in (IF k = n THEN {"final"} ELSE {"middle1", "middle2"})
      BY <1>1, <2>1 DEF ContinuationsValid
    <2>3. t[1] = IF k = n THEN -1 ELSE 0
      BY <1>2, <2>2, RoleIs
    <2> QED
      BY <1>1, <1>4, <2>1, <2>3 DEF TritAt
  <1> QED
    BY <1>3, <1>4

(* A symbol whose trits but one are those of another with the same check:  *)
(* that one is the same too.                                               *)
LEMMA CheckTritFollows ==
  ASSUME NEW s \in Seq(Tryte), NEW e \in Seq(Tryte), NEW n \in 2..4, Len(s) = n, Len(e) = n,
         SymbolSum(s) % 3 = 0, SymbolSum(e) % 3 = 0,
         \A k \in 1..n : \A j \in 1..6 : (k = 1 /\ j = 6) \/ s[k][j] = e[k][j]
  PROVE  s[1][6] = e[1][6]
  <1>1. PICK one \in 1..Len(s), six \in 1..TryteLength : one = 1 /\ six = 6
    BY DEF TryteLength
  <1>2. PICK t \in Trit : t = e[1][6]
    <2>1. e[1] \in Tryte
      OBVIOUS
    <2>2. e[1][6] \in Trit
      BY <2>1, TryteHasTrits
    <2> QED
      BY <2>2
  <1>3. PICK u : u = MisreadLine(s, one, six, t)
    OBVIOUS
  <1>4. /\ u \in Seq(Tryte) /\ Len(u) = n
        /\ \A m \in 1..n : m # 1 => u[m] = s[m]
        /\ s[1][6] \in Trit /\ SymbolSum(s) \in Int
        /\ SymbolSum(u) = (SymbolSum(s) - s[1][6]) + t
    <2>1. /\ u \in Seq(Tryte) /\ Len(u) = Len(s)
          /\ \A m \in 1..Len(s) : m # one => u[m] = s[m]
          /\ s[one][six] \in Trit /\ SymbolSum(s) \in Int
          /\ SymbolSum(u) = (SymbolSum(s) - s[one][six]) + t
      BY ZenonT(30), <1>3, MisreadLineIs
    <2> QED
      BY <1>1, <2>1
  <1>5. PICK d \in Trit : d = s[1][6]
    BY <1>4
  <1>6. u[1] = [s[1] EXCEPT ![6] = t]
    <2>1. 1 \in DOMAIN s
      OBVIOUS
    <2> QED
      BY <1>1, <1>3, <2>1 DEF MisreadLine
  <1>7. ASSUME NEW k \in 1..n PROVE u[k] = e[k]
    <2>1. u[k] \in Tryte /\ e[k] \in Tryte /\ s[k] \in Tryte
      BY <1>4
    <2>2. ASSUME NEW j \in 1..6 PROVE u[k][j] = e[k][j]
      <3>1. CASE k # 1
        BY <1>4, <3>1
      <3>2. CASE k = 1
        <4>1. PICK v \in Tryte : v = s[1]
          BY <2>1, <3>2
        <4>2. u[1][j] = IF j = 6 THEN t ELSE v[j]
          BY <1>6, <4>1 DEF Tryte, TryteLength
        <4> QED
          BY <1>2, <3>2, <4>1, <4>2
      <3> QED
        BY <3>1, <3>2
    <2>3. PICK v \in Tryte, w \in Tryte : v = u[k] /\ w = e[k]
      BY <2>1
    <2>4. \A j \in 1..6 : v[j] = w[j]
      BY <2>2, <2>3
    <2>5. v = w
      BY SMTT(30), <2>4 DEF Tryte, TryteLength
    <2> QED
      BY <2>3, <2>5
  <1>8. u = e
    BY <1>4, <1>7, SeqEqual
  <1>9. PICK total \in Int : total = SymbolSum(s) /\ total % 3 = 0
    BY <1>4
  <1>10. SymbolSum(e) = total + (t - d)
    <2>1. t \in Int /\ d \in Int
      BY DEF Trit
    <2> QED
      BY <1>4, <1>5, <1>8, <1>9, <2>1
  <1>11. d = t
    <2>1. d # t => ~((total + (t - d)) % 3 = 0)
      BY <1>9, OtherTrit
    <2> QED
      BY <1>10, <2>1
  <1> QED
    BY <1>2, <1>5, <1>11

(* A longer symbol is the one Encode makes of its code point.              *)
LEMMA FormCanonical ==
  ASSUME NEW checked \in BOOLEAN, NEW n \in 2..4, NEW s \in Seq(Tryte), Len(s) = n,
         SequenceLength(s[1]) = n, ContinuationsValid(s), CrcHolds(checked, s), Accepted(checked, s)
  PROVE  /\ EncodeCodePoint(checked, DecodeCodePoint(checked, s)) \in Seq(Tryte)
         /\ Agrees(s, EncodeCodePoint(checked, DecodeCodePoint(checked, s)))
  <1>1. PICK r \in 0..16, low \in Nat, high \in Nat :
          r = RoomSum(checked, n, n) /\ low = MinCp(checked)[n] /\ high = MaxCp(checked)[n]
    BY FormFits
  <1>2. PICK payload \in Seq(Trit) : /\ payload = Payload(checked, s) /\ Len(payload) = r
                                     /\ RoomsFilled(payload, s, checked, n, n)
    BY <1>1, PayloadIs
  <1>3. PICK offset \in Nat : offset = PayloadToOffset(payload) /\ ExtractTrits(offset, r) = payload
    <2>1. PayloadToOffset(payload) \in Nat /\ ExtractTrits(PayloadToOffset(payload), Len(payload)) = payload
      BY DigitsReadBack
    <2> QED
      BY <1>2, <2>1
  <1>4. PICK cp \in Nat : cp = DecodeCodePoint(checked, s) /\ cp = low + offset
    <2>1. DecodeCodePoint(checked, s) = low + offset
      <3>1. Len(s) # 1
        OBVIOUS
      <3> QED
        BY <1>1, <1>2, <1>3, <3>1 DEF DecodeCodePoint
    <2>2. low + offset \in Nat
      OBVIOUS
    <2> QED
      BY <2>1, <2>2
  <1>5. ~IsSingle(checked, cp) /\ cp <= high /\ IsScalar(cp)
    <2>1. Len(s) > 1
      OBVIOUS
    <2> QED
      BY <1>1, <1>4, <2>1 DEF Accepted
  <1>6. CpFormLength(checked, cp) = n
    <2>1. InForm(checked, n, cp)
      <3>1. cp \in low..high
        BY <1>4, <1>5
      <3> QED
        BY <1>1, <3>1 DEF InForm
    <2> QED
      BY <1>5, <2>1, OneForm
  <1>7. PICK e : e = EncodeForm(checked, n, offset)
    OBVIOUS
  <1>8. EncodeCodePoint(checked, cp) = e
    <2>1. n # 1 /\ cp - low = offset
      BY <1>4
    <2> QED
      BY <1>1, <1>6, <1>7, <2>1 DEF EncodeCodePoint
  <1>9. IsForm(e, checked, n, payload)
    BY <1>1, <1>3, <1>7, FormEncodes
  <1>10. e \in Seq(Tryte) /\ Len(e) = n /\ CrcHolds(checked, e)
    BY <1>9 DEF IsForm
  <1>11. ASSUME NEW k \in 1..n, NEW j \in 1..TritsOfMarker(n, k), ~(n = 4 /\ k = 2 /\ j = 2)
         PROVE  s[k][j] = e[k][j]
    <2>1. s[k][j] = TritAt(n, k, j)
      BY <1>11, MarkersAre
    <2>2. e[k][j] = TritAt(n, k, j)
      BY <1>9 DEF IsForm
    <2> QED
      BY <2>1, <2>2
  <1>12. ASSUME NEW k \in 1..n, NEW j \in 1..Room(checked, n, k)
         PROVE  s[k][TritsOfMarker(n, k) + j] = e[k][TritsOfMarker(n, k) + j]
    <2>1. e[k][TritsOfMarker(n, k) + j] = payload[RoomSum(checked, n, k - 1) + j]
      BY <1>9 DEF IsForm
    <2>2. payload[RoomSum(checked, n, k - 1) + j] = s[k][TritsOfMarker(n, k) + j]
      BY <1>2 DEF RoomsFilled
    <2> QED
      BY <2>1, <2>2
  <1>13. ASSUME NEW k \in 1..n, NEW j \in 1..6, ~(n = 4 /\ k = 2 /\ j = 2), ~(checked /\ k = 1 /\ j = 6)
         PROVE  s[k][j] = e[k][j]
    <2>1. PICK m \in 1..4, q \in 1..5 :
            /\ m = TritsOfMarker(n, k) /\ q = Room(checked, n, k)
            /\ q = 6 - m - (IF k = 1 THEN CheckTrits(checked) ELSE 0)
      <3>1. TritsOfMarker(n, k) \in 1..4
        BY DEF TritsOfMarker
      <3> QED
        BY <3>1, RoomIs
    <2>2. CASE j <= m
      BY <1>11, <1>13, <2>1, <2>2
    <2>3. CASE ~(j <= m)
      <3>1. j - m \in 1..q /\ m + (j - m) = j
        <4>1. j <= m + q
          <5>1. CASE k = 1 /\ checked
            BY <1>13, <2>1, <5>1 DEF CheckTrits
          <5>2. CASE ~(k = 1 /\ checked)
            BY <2>1, <5>2 DEF CheckTrits
          <5> QED
            BY <5>1, <5>2
        <4> QED
          BY <2>3, <4>1
      <3>2. s[k][m + (j - m)] = e[k][m + (j - m)]
        BY <1>12, <2>1, <3>1
      <3> QED
        BY <3>1, <3>2
    <2> QED
      BY <2>2, <2>3
  <1>14. ASSUME n = 4 PROVE GetRole(e[1]) = "lead4"
    <2>1. 1 \in 1..n
      OBVIOUS
    <2>2. PICK t \in Tryte : t = e[1]
      BY <1>10, <2>1, ElementOfSeq
    <2>3. TritsOfMarker(n, 1) = 4
      BY <1>14 DEF TritsOfMarker
    <2>4. t[1] = 1 /\ t[2] = 1 /\ t[3] = 1 /\ t[4] = -1
      <3>1. \A j \in 1..4 : t[j] = TritAt(n, 1, j)
        BY <1>9, <2>1, <2>2, <2>3 DEF IsForm
      <3> QED
        BY <1>14, <3>1 DEF TritAt
    <2>5. Trits4(t)
      BY TryteHasTrits
    <2> QED
      BY <2>2, <2>4, <2>5, RoleIs
  <1>15. ASSUME checked, n # 4 PROVE s[1][6] = e[1][6]
    <2>1. SymbolSum(s) % 3 = 0 /\ SymbolSum(e) % 3 = 0
      BY <1>10, <1>15 DEF CrcHolds
    <2>2. \A k \in 1..n : \A j \in 1..6 : (k = 1 /\ j = 6) \/ s[k][j] = e[k][j]
      BY <1>13, <1>15
    <2> QED
      BY <1>10, <2>1, <2>2, CheckTritFollows
  <1>16. Agrees(s, e)
    <2>1. ASSUME NEW p \in 1..n, NEW j \in 1..6
          PROVE  \/ s[p][j] = e[p][j]
                 \/ j = 2 /\ p > 1 /\ GetRole(e[p - 1]) = "lead4"
                 \/ j = 6 /\ GetRole(e[p]) = "lead4"
      <3>1. CASE n = 4 /\ p = 2 /\ j = 2
        <4>1. p - 1 = 1 /\ p > 1
          BY <3>1
        <4> QED
          BY <1>14, <3>1, <4>1
      <3>2. CASE checked /\ p = 1 /\ j = 6
        BY <1>14, <1>15, <3>2
      <3> QED
        BY <1>13, <3>1, <3>2
    <2> QED
      BY <1>10, <2>1 DEF Agrees
  <1> QED
    BY <1>4, <1>8, <1>10, <1>16

(* What is sent as it is agrees.                                           *)
LEMMA AgreesWithItself ==
  ASSUME NEW s
  PROVE  Agrees(s, s)
  BY DEF Agrees

(* Every symbol that is taken without a report.                            *)
LEMMA SymbolCanonical ==
  ASSUME NEW checked \in BOOLEAN, NEW s \in Seq(Tryte), Len(s) \in 1..4, SequenceLength(s[1]) = Len(s),
         ContinuationsValid(s), CrcHolds(checked, s), Accepted(checked, s)
  PROVE  /\ EncodeCodePoint(checked, DecodeCodePoint(checked, s)) \in Seq(Tryte)
         /\ Agrees(s, EncodeCodePoint(checked, DecodeCodePoint(checked, s)))
  <1>1. CASE Len(s) = 1
    <2>1. EncodeCodePoint(checked, DecodeCodePoint(checked, s)) = s
      BY <1>1, SingleCanonical
    <2> QED
      BY <2>1, AgreesWithItself
  <1>2. CASE Len(s) # 1
    <2>1. PICK n \in 2..4 : n = Len(s)
      BY <1>2
    <2> QED
      BY <2>1, FormCanonical
  <1> QED
    BY <1>1, <1>2

(* And so do sequences of which the parts do.                              *)
LEMMA AgreementJoins ==
  ASSUME NEW a \in Seq(Tryte), NEW b \in Seq(Tryte), NEW s \in Seq(Tryte), NEW e \in Seq(Tryte),
         Agrees(a, b), Agrees(s, e)
  PROVE  Agrees(a \o s, b \o e)
  <1>1. PICK m \in Nat, n \in Nat : m = Len(a) /\ m = Len(b) /\ n = Len(s) /\ n = Len(e)
    BY DEF Agrees
  <1>2. PICK u, v : u = a \o s /\ v = b \o e
    OBVIOUS
  <1>3. IsConcat(u, a, m, s, n, Tryte)
    BY <1>1, <1>2, ConcatIs
  <1>4. IsConcat(v, b, m, e, n, Tryte)
    BY <1>1, <1>2, ConcatIs
  <1>5. ASSUME NEW p \in 1..m + n, NEW j \in 1..6
        PROVE  \/ u[p][j] = v[p][j]
               \/ j = 2 /\ p > 1 /\ GetRole(v[p - 1]) = "lead4"
               \/ j = 6 /\ GetRole(v[p]) = "lead4"
    <2>1. CASE p <= m
      <3>1. p \in 1..m
        BY <2>1
      <3>2. u[p] = a[p] /\ v[p] = b[p]
        BY <1>3, <1>4, <3>1 DEF IsConcat
      <3>3. p > 1 => v[p - 1] = b[p - 1]
        <4>1. p > 1 => p - 1 \in 1..m
          BY <3>1
        <4> QED
          BY <1>4, <4>1 DEF IsConcat
      <3>4. \/ a[p][j] = b[p][j]
            \/ j = 2 /\ p > 1 /\ GetRole(b[p - 1]) = "lead4"
            \/ j = 6 /\ GetRole(b[p]) = "lead4"
        BY <1>1, <3>1 DEF Agrees
      <3> QED
        BY <3>2, <3>3, <3>4
    <2>2. CASE ~(p <= m)
      <3>1. PICK q \in 1..n : p = m + q
        <4>1. p - m \in 1..n /\ p = m + (p - m)
          BY <2>2
        <4> QED
          BY <4>1
      <3>2. u[p] = s[q] /\ v[p] = e[q]
        BY <1>3, <1>4, <3>1 DEF IsConcat
      <3>3. q > 1 => p > 1 /\ v[p - 1] = e[q - 1]
        <4>1. q > 1 => q - 1 \in 1..n /\ p - 1 = m + (q - 1) /\ p > 1
          BY <3>1
        <4> QED
          BY <1>4, <4>1 DEF IsConcat
      <3>4. \/ s[q][j] = e[q][j]
            \/ j = 2 /\ q > 1 /\ GetRole(e[q - 1]) = "lead4"
            \/ j = 6 /\ GetRole(e[q]) = "lead4"
        BY <1>1 DEF Agrees
      <3> QED
        BY <3>2, <3>3, <3>4
    <2> QED
      BY <2>1, <2>2
  <1>6. Len(u) = m + n /\ Len(v) = m + n
    BY <1>3, <1>4 DEF IsConcat
  <1> QED
    BY <1>2, <1>5, <1>6 DEF Agrees

(* The encoding of no text.                                                *)
LEMMA EncodeOfNone ==
  ASSUME NEW checked \in BOOLEAN
  PROVE  Joined(Encode(checked, <<>>)) = <<>>
  <1>1. PICK cps : cps = <<>>
    OBVIOUS
  <1>2. cps \in Seq(Scalars) /\ Len(cps) = 0
    BY <1>1
  <1>3. Encoded(Encode(checked, cps), checked, cps)
    BY <1>2, EncodeIs
  <1>4. Encode(checked, cps) \in Seq(Seq(Tryte)) /\ Len(Encode(checked, cps)) = 0
    BY <1>2, <1>3 DEF Encoded
  <1>5. Encode(checked, cps) = <<>>
    BY <1>4
  <1> QED
    BY <1>1, <1>5, JoinedOfNone

(* One code point more is one symbol more.                                 *)
LEMMA EncodeOfMore ==
  ASSUME NEW checked \in BOOLEAN, NEW cps \in Seq(Scalars), NEW cp \in Scalars,
         NEW e \in Seq(Tryte), e = EncodeCodePoint(checked, cp)
  PROVE  /\ Joined(Encode(checked, cps)) \in Seq(Tryte)
         /\ Joined(Encode(checked, Append(cps, cp))) = Joined(Encode(checked, cps)) \o e
  <1>1. PICK all : all = Append(cps, cp)
    OBVIOUS
  <1>2. PICK n \in Nat : n = Len(cps)
    OBVIOUS
  <1>3. /\ all \in Seq(Scalars) /\ Len(all) = n + 1
        /\ \A m \in 1..n : all[m] = cps[m]
        /\ all[n + 1] = cp
    BY <1>1, <1>2, AppendProperties
  <1>4. PICK ls, us : ls = Encode(checked, cps) /\ us = Encode(checked, all)
    OBVIOUS
  <1>5. Encoded(ls, checked, cps)
    BY <1>4, EncodeIs
  <1>6. Encoded(us, checked, all)
    BY <1>3, <1>4, EncodeIs
  <1>7. ls \in Seq(Seq(Tryte)) /\ Len(ls) = n /\ \A m \in 1..n : ls[m] = EncodeCodePoint(checked, cps[m])
    BY <1>2, <1>5 DEF Encoded
  <1>8. us \in Seq(Seq(Tryte)) /\ Len(us) = n + 1
        /\ \A m \in 1..n + 1 : us[m] = EncodeCodePoint(checked, all[m])
    BY <1>3, <1>6 DEF Encoded
  <1>9. PICK D : D = Seq(Tryte)
    OBVIOUS
  <1>10. PICK w : w = Append(ls, e)
    OBVIOUS
  <1>11. /\ w \in Seq(D) /\ Len(w) = n + 1 /\ w[n + 1] = e
         /\ \A m \in 1..n : w[m] = ls[m]
    <2>1. ls \in Seq(D) /\ e \in D
      BY <1>7, <1>9
    <2> QED
      BY <1>7, <1>10, <2>1, AppendProperties
  <1>12. ASSUME NEW m \in 1..n + 1 PROVE us[m] = w[m]
    <2>1. CASE m = n + 1
      BY <1>3, <1>8, <1>11, <2>1
    <2>2. CASE m # n + 1
      <3>1. m \in 1..n
        BY <2>2
      <3> QED
        BY <1>3, <1>7, <1>8, <1>11, <3>1
    <2> QED
      BY <2>1, <2>2
  <1>13. us = w
    <2>1. us \in Seq(D)
      BY <1>8, <1>9
    <2> QED
      BY <1>8, <1>11, <1>12, <2>1, SeqEqual
  <1>14. Joined(ls) \in Seq(Tryte) /\ Joined(Append(ls, e)) = Joined(ls) \o e
    BY <1>7, JoinedOfAppend
  <1> QED
    BY <1>1, <1>4, <1>10, <1>13, <1>14

(* What Decode has read without a report.                                  *)
ReadCanonical ==
  pc # "transit" /\ errors = <<>>
    => Agrees(SubSeq(trytes, 1, i - 1), Joined(Encode(trial.checked, output)))

(* The one step that reports nothing keeps the agreement.                  *)
LEMMA NextCanonical ==
  ASSUME Typed, ReadCanonical, [Next]_vars
  PROVE  ReadCanonical'
  <1> SUFFICES ASSUME pc' # "transit", errors' = <<>>
               PROVE  Agrees(SubSeq(trytes', 1, i' - 1), Joined(Encode(trial'.checked, output')))
    BY DEF ReadCanonical
  <1>0. trial.checked \in BOOLEAN /\ output \in Seq(Scalars)
    BY DEF Typed, TextTyped, DecodeTyped
  <1>1. CASE Transit
    <2>1. pc' = "transit"
      BY <1>1 DEF Transit, ChangeTrit, LoseTryte, LoseTrit
    <2> QED
      BY <2>1
  <1>2. CASE Tokenize
    <2>1. i' = 1 /\ output' = <<>> /\ trial' = trial
      BY <1>2 DEF Tokenize, Typed, Untouched
    <2>2. SubSeq(trytes', 1, i' - 1) = <<>>
      <3>1. i' - 1 = 0
        BY <2>1
      <3> QED
        BY <3>1, SubSeqEmpty
    <2>3. Joined(Encode(trial'.checked, output')) = <<>>
      BY <1>0, <2>1, EncodeOfNone
    <2> QED
      BY <2>2, <2>3, AgreesWithItself
  <1>3. CASE DecodeStep
    <2>1. trial' = trial /\ trytes' = trytes /\ pc = "decode"
      BY <1>3 DEF DecodeStep, SkipContinuation, IncompleteSequence, UnexpectedRole, RejectSymbol,
                  AppendRune, EndOfInput, AtTryte, Complete
    <2>2. errors = <<>> /\ (EndOfInput \/ (AppendRune /\ CrcHolds(trial.checked, Symbol)))
      BY <1>3, QuietStep
    <2>3. PICK a : a = SubSeq(trytes, 1, i - 1)
      OBVIOUS
    <2>4. PICK b : b = Joined(Encode(trial.checked, output))
      OBVIOUS
    <2>5. Agrees(a, b)
      BY <2>1, <2>2, <2>3, <2>4 DEF ReadCanonical
    <2>6. CASE EndOfInput
      <3>1. i' = i /\ output' = output
        BY <2>6 DEF EndOfInput
      <3> QED
        BY <2>1, <2>3, <2>4, <2>5, <3>1
    <2>7. CASE AppendRune /\ CrcHolds(trial.checked, Symbol)
      <3>1. /\ Complete /\ ContinuationsValid(Symbol) /\ Accepted(trial.checked, Symbol)
            /\ i' = i + Expected /\ output' = Append(output, DecodeCodePoint(trial.checked, Symbol))
        BY <2>7 DEF AppendRune
      <3>2. PICK n \in 1..4 : n = Expected /\ SymbolIsRead(Symbol, n)
        BY <3>1, CompleteIs
      <3>3. PICK s \in Seq(Tryte) : s = Symbol /\ Len(s) = n /\ s[1] = trytes[i]
        <4>1. Symbol \in Seq(Tryte) /\ Len(Symbol) = n /\ Symbol[1] = trytes[i + 1 - 1]
          BY <3>2 DEF SymbolIsRead
        <4>2. i + 1 - 1 = i
          BY DEF Typed, DecodeTyped
        <4> QED
          BY <4>1, <4>2
      <3>4. SequenceLength(s[1]) = Len(s)
        BY <3>2, <3>3 DEF Expected
      <3>5. PICK cp : cp = DecodeCodePoint(trial.checked, s)
        OBVIOUS
      <3>6. cp \in Scalars
        <4>1. IsScalar(cp)
          BY <3>1, <3>3, <3>5 DEF Accepted
        <4> QED
          BY <4>1, ScalarsAre
      <3>7. PICK e : e = EncodeCodePoint(trial.checked, cp)
        OBVIOUS
      <3>8. e \in Seq(Tryte) /\ Agrees(s, e)
        <4>1. /\ ContinuationsValid(s) /\ CrcHolds(trial.checked, s) /\ Accepted(trial.checked, s)
              /\ Len(s) \in 1..4
          BY <2>7, <3>1, <3>3
        <4>2. /\ EncodeCodePoint(trial.checked, DecodeCodePoint(trial.checked, s)) \in Seq(Tryte)
              /\ Agrees(s, EncodeCodePoint(trial.checked, DecodeCodePoint(trial.checked, s)))
          BY <1>0, <3>4, <4>1, SymbolCanonical
        <4> QED
          BY <3>5, <3>7, <4>2
      <3>9. b \in Seq(Tryte) /\ Joined(Encode(trial.checked, Append(output, cp))) = b \o e
        BY <1>0, <2>4, <3>6, <3>7, <3>8, EncodeOfMore
      <3>10. a \in Seq(Tryte) /\ SubSeq(trytes, 1, i' - 1) = a \o s
        BY <2>3, <3>1, <3>3, ReadOn
      <3>11. Agrees(a \o s, b \o e)
        BY <2>5, <3>8, <3>9, <3>10, AgreementJoins
      <3>12. output' = Append(output, cp)
        BY <3>1, <3>3, <3>5
      <3> QED
        BY <2>1, <3>9, <3>10, <3>11, <3>12
    <2> QED
      BY <2>2, <2>6, <2>7
  <1>4. CASE Finished \/ UNCHANGED vars
    BY <1>4 DEF Finished, vars, ReadCanonical
  <1> QED
    BY <1>1, <1>2, <1>3, <1>4 DEF Next

(* No text has two clean encodings (CharTu8Codec.Decode and                *)
(* CharTCu8Codec.Decode reject over-long forms): input of any length that  *)
(* is decoded without a report is the encoding of what it is decoded to,   *)
(* the unread trit of a four-tryte symbol, and its check, excepted.        *)
THEOREM EncodingIsCanonical == Spec => []Canonical
  <1>1. Init => ReadCanonical
    BY DEF Init, ReadCanonical
  <1>2. Spec => []ReadCanonical
    BY <1>1, AlwaysTyped, NextCanonical, PTL DEF Spec
  <1>3. Typed /\ Received /\ ReadCanonical => Canonical
    <2> SUFFICES ASSUME Typed, Received, ReadCanonical, pc = "done", errors = <<>>
                 PROVE  LET clean == Joined(Encode(trial.checked, output))
                        IN  /\ Len(trytes) = Len(clean)
                            /\ \A p \in DOMAIN clean, j \in 1..TryteLength :
                                 \/ trytes[p][j] = clean[p][j]
                                 \/ j = 2 /\ p > 1 /\ GetRole(clean[p - 1]) = "lead4"
                                 \/ j = TryteLength /\ GetRole(clean[p]) = "lead4"
      BY DEF Canonical
    <2>1. trytes \in Seq(Tryte) /\ trial.checked \in BOOLEAN /\ output \in Seq(Scalars)
      BY DEF Typed, TextTyped, DecodeTyped
    <2>2. i = Len(trytes) + 1
      BY DEF Received
    <2>3. SubSeq(trytes, 1, i - 1) = trytes
      <3>1. i - 1 = Len(trytes)
        BY <2>1, <2>2
      <3> QED
        BY <2>1, <3>1, SubSeqFull
    <2>4. PICK clean : clean = Joined(Encode(trial.checked, output))
      OBVIOUS
    <2>5. Agrees(trytes, clean)
      BY <2>3, <2>4 DEF ReadCanonical
    <2>6. DOMAIN clean = 1..Len(clean)
      <3>1. Encoded(Encode(trial.checked, output), trial.checked, output)
        BY <2>1, EncodeIs
      <3>2. Encode(trial.checked, output) \in Seq(Seq(Tryte))
        BY <3>1 DEF Encoded
      <3>3. clean \in Seq(Tryte)
        BY <2>4, <3>2, StartsAndEnds
      <3> QED
        BY <3>3
    <2> QED
      BY <2>4, <2>5, <2>6 DEF Agrees, TryteLength
  <1> QED
    BY <1>2, <1>3, AlwaysTyped, AlwaysReceived, PTL

-----------------------------------------------------------------------------
(* Damage to one symbol: Decode is still at it, or stands where one of the *)
(* lines that follow begins and has put out all that lie between, or has   *)
(* less left to read than a symbol may have.                               *)
HasAfter(out, h, m) == m - h <= Len(out) /\ \A q \in 1..m - h : out[Len(out) - (m - h) + q] = text[h + q]
BackInStep(h) == \E m \in h..Len(text) : i = Start(lines, m) + 1 /\ HasAfter(output, h, m)
FewLeft(h) == Len(trytes) - Start(lines, h) <= 2
Resynced(h) == i <= Start(lines, h) \/ BackInStep(h) \/ FewLeft(h)
ResyncsAfterDamage == pc # "transit" /\ lost # "trit" => \A h \in hit : hit = {h} => Resynced(h)

(* Where the damaged line ends: the tryte behind it leads a symbol.        *)
LEMMA LineEnds ==
  ASSUME Typed, Received, LinesAre, pc # "transit", lost # "trit", NEW h \in 1..Len(text), hit = {h}
  PROVE  /\ Start(lines, h) \in Nat /\ Start(lines, h) <= Len(trytes) /\ Len(trytes) \in Nat
         /\ Start(lines, h) < Len(trytes) => SequenceLength(trytes[Start(lines, h) + 1]) > 0
  <1>1. /\ text \in Seq(Scalars) /\ Len(text) \in Nat /\ lines \in Seq(Seq(Tryte)) /\ Len(lines) = Len(text)
        /\ trytes \in Seq(Tryte) /\ Len(trytes) \in Nat
    BY DEF Typed, TextTyped, DecodeTyped
  <1>2. PICK b \in Nat : b = Start(lines, h) /\ b <= Len(trytes)
    <2>1. /\ Start(lines, h - 1) \in Nat /\ Len(lines[h]) \in Nat
          /\ Start(lines, h) = Start(lines, h - 1) + Len(lines[h])
          /\ Start(lines, h - 1) + Len(lines[h]) <= Len(trytes)
      BY LineIsRead DEF LineAt
    <2>2. Start(lines, h) \in Nat /\ Start(lines, h) <= Len(trytes)
      BY <2>1
    <2> QED
      BY <2>2
  <1>3. ASSUME b < Len(trytes) PROVE SequenceLength(trytes[b + 1]) > 0
    <2>1. h # Len(text)
      <3>1. Start(lines, Len(lines)) = Len(Joined(lines))
        BY <1>1, StartsAndEnds
      <3> QED
        BY <1>1, <1>2, <1>3, <3>1 DEF Received
    <2>2. h + 1 \in 1..Len(text) /\ (h + 1) - 1 = h /\ h + 1 \notin hit
      BY <1>1, <2>1
    <2>3. lines[h + 1] = Sent(h + 1)
      BY <2>2 DEF LinesAre
    <2>4. LineAt(trytes, b, Sent(h + 1))
      BY <1>2, <2>2, <2>3, LineIsRead
    <2>5. PICK s : s = Sent(h + 1) /\ IsSymbol(s, trial.checked, text[h + 1])
      BY <2>2, SentIs
    <2>6. Len(s) \in 1..4 /\ SequenceLength(s[1]) = Len(s)
      BY <2>5 DEF IsSymbol
    <2>7. trytes[b + 1] = s[1]
      <3>1. 1 \in 1..Len(s)
        BY <2>6
      <3> QED
        BY <2>4, <2>5, <3>1 DEF LineAt
    <2> QED
      BY <2>6, <2>7
  <1> QED
    BY <1>1, <1>2, <1>3

(* A symbol whose continuations are valid does not reach beyond the        *)
(* damaged line.                                                           *)
LEMMA StaysInLine ==
  ASSUME Typed, Received, LinesAre, pc = "decode", lost # "trit", NEW h \in 1..Len(text), hit = {h},
         i <= Start(lines, h), Complete, ContinuationsValid(Symbol)
  PROVE  i + Expected <= Start(lines, h) + 1
  <1>1. PICK n \in 1..4 : n = Expected /\ SymbolIsRead(Symbol, n) /\ i + n - 1 \in 1..Len(trytes)
    BY CompleteIs
  <1>2. PICK s \in Seq(Tryte) : s = Symbol /\ Len(s) = n /\ \A k \in 1..n : s[k] = trytes[i + k - 1]
    BY <1>1 DEF SymbolIsRead
  <1>3. i \in Nat /\ Len(trytes) \in Nat
    BY DEF Typed, DecodeTyped
  <1>4. PICK b \in Nat : /\ b = Start(lines, h)
                         /\ b < Len(trytes) => SequenceLength(trytes[b + 1]) > 0
    BY LineEnds
  <1>5. ASSUME ~(i + n <= b + 1) PROVE FALSE
    <2>1. PICK k \in 2..n : i + k - 1 = b + 1
      <3>1. (b + 1) - i + 1 \in 2..n /\ i + ((b + 1) - i + 1) - 1 = b + 1
        BY <1>3, <1>4, <1>5
      <3> QED
        BY <3>1
    <2>2. b < Len(trytes)
      BY <1>1, <1>3, <1>5
    <2>3. s[k] = trytes[b + 1] /\ s[k] \in Tryte
      <3>1. k \in 1..n
        OBVIOUS
      <3> QED
        BY <1>2, <2>1, <3>1
    <2>4. GetRole(s[k]) \in {"final", "middle1", "middle2"}
      <3>1. k \in 2..Len(s)
        BY <1>2
      <3>2. GetRole(s[k]) \in (IF k = Len(s) THEN {"final"} ELSE {"middle1", "middle2"})
        BY <1>2, <3>1 DEF ContinuationsValid
      <3> QED
        BY <3>2
    <2>5. SequenceLength(trytes[b + 1]) = 0
      BY <2>3, <2>4, NoLead
    <2> QED
      BY <1>4, <2>2, <2>5
  <1> QED
    BY <1>1, <1>4, <1>5

(* Behind the damaged line nothing is missing yet.                         *)
LEMMA JustBack ==
  ASSUME Typed, NEW h \in 1..Len(text), NEW out \in Seq(Scalars)
  PROVE  h \in h..Len(text) /\ HasAfter(out, h, h)
  <1>1. h \in Nat /\ Len(text) \in Nat /\ Len(out) \in Nat /\ h - h = 0
    BY DEF Typed, TextTyped
  <1>2. \A q \in 1..h - h : FALSE
    BY <1>1
  <1> QED
    BY <1>1, <1>2 DEF HasAfter

(* A step from within the damaged line.                                    *)
LEMMA DamagedStep ==
  ASSUME Typed, Received, LinesAre, pc = "decode", lost # "trit", NEW h \in 1..Len(text), hit = {h},
         i <= Start(lines, h), DecodeStep
  PROVE  i' <= Start(lines, h) + 1 \/ FewLeft(h)
  <1>1. i \in Nat /\ i <= Len(trytes) /\ Len(trytes) \in Nat
        /\ Start(lines, h) \in Nat /\ Start(lines, h) <= Len(trytes)
    BY LineEnds DEF Typed, DecodeTyped
  <1>2. AtTryte
    BY <1>1 DEF AtTryte
  <1>3. Expected \in 0..4
    BY <1>2, AtTryteIs
  <1>4. CASE SkipContinuation \/ UnexpectedRole
    <2>1. i' = i + 1
      BY <1>4 DEF SkipContinuation, UnexpectedRole
    <2> QED
      BY <1>1, <2>1
  <1>5. CASE IncompleteSequence
    <2>1. i + Expected - 1 > Len(trytes)
      BY <1>5 DEF IncompleteSequence
    <2>2. Len(trytes) - Start(lines, h) <= 2
      BY <1>1, <1>3, <2>1
    <2> QED
      BY <2>2 DEF FewLeft
  <1>6. CASE RejectSymbol \/ AppendRune
    <2>1. Complete /\ ContinuationsValid(Symbol) /\ i' = i + Expected
      BY <1>6 DEF RejectSymbol, AppendRune
    <2> QED
      BY <2>1, StaysInLine
  <1>7. CASE EndOfInput
    <2>1. i > Len(trytes)
      BY <1>7 DEF EndOfInput
    <2> QED
      BY <1>1, <2>1
  <1> QED
    BY <1>4, <1>5, <1>6, <1>7 DEF DecodeStep

(* A step behind it.                                                       *)
LEMMA BackStep ==
  ASSUME Typed, Received, LinesAre, pc = "decode", lost # "trit", NEW h \in 1..Len(text), hit = {h},
         BackInStep(h), DecodeStep
  PROVE  \E m \in h..Len(text) : i' = Start(lines, m) + 1 /\ HasAfter(output', h, m)
  <1>1. PICK m \in h..Len(text) : i = Start(lines, m) + 1 /\ HasAfter(output, h, m)
    BY DEF BackInStep
  <1>2. /\ text \in Seq(Scalars) /\ Len(text) \in Nat /\ lines \in Seq(Seq(Tryte)) /\ Len(lines) = Len(text)
        /\ trytes \in Seq(Tryte) /\ Len(trytes) \in Nat /\ output \in Seq(Scalars) /\ Len(output) \in Nat
    BY DEF Typed, TextTyped, DecodeTyped
  <1>3. CASE m = Len(text)
    <2>1. i = Len(trytes) + 1
      BY <1>1, <1>2, <1>3, StartsAndEnds DEF Received
    <2>2. ~AtTryte
      BY <1>2, <2>1 DEF AtTryte
    <2>3. EndOfInput
      BY <2>2 DEF DecodeStep, SkipContinuation, IncompleteSequence, UnexpectedRole, RejectSymbol,
                  AppendRune, Complete
    <2>4. i' = i /\ output' = output
      BY <2>3 DEF EndOfInput
    <2> QED
      BY <1>1, <2>4
  <1>4. CASE m # Len(text)
    <2>1. m + 1 \in 1..Len(text) /\ m + 1 \in h..Len(text) /\ (m + 1) - 1 = m /\ m + 1 \notin hit
      BY <1>2, <1>4
    <2>2. output' = Append(output, text[m + 1]) /\ i' = Start(lines, m + 1) + 1
      BY <1>1, <2>1, SymbolStep
    <2>3. PICK n \in Nat, d \in Nat : n = Len(output) /\ d = m - h /\ d <= n /\ (m + 1) - h = d + 1
      <3>1. m - h \in Nat /\ (m + 1) - h = (m - h) + 1 /\ m - h <= Len(output)
        BY <1>1 DEF HasAfter
      <3> QED
        BY <1>2, <3>1
    <2>4. \A q \in 1..d : output[n - d + q] = text[h + q]
      BY <1>1, <2>3 DEF HasAfter
    <2>5. text[m + 1] \in Scalars
      BY <1>2, <2>1, ElementOfSeq
    <2>6. PICK out : out = output'
      OBVIOUS
    <2>7. /\ Len(out) = n + 1 /\ out[n + 1] = text[m + 1]
          /\ \A q \in 1..n : out[q] = output[q]
      BY <1>2, <2>2, <2>3, <2>5, <2>6, AppendProperties
    <2>8. ASSUME NEW q \in 1..d + 1 PROVE out[(n + 1) - (d + 1) + q] = text[h + q]
      <3>1. CASE q = d + 1
        <4>1. (n + 1) - (d + 1) + q = n + 1 /\ h + q = m + 1
          BY <2>3, <3>1
        <4> QED
          BY <2>7, <4>1
      <3>2. CASE q # d + 1
        <4>1. q \in 1..d /\ (n + 1) - (d + 1) + q = n - d + q /\ n - d + q \in 1..n
          BY <2>3, <3>2
        <4> QED
          BY <2>4, <2>7, <4>1
      <3> QED
        BY <3>1, <3>2
    <2>9. HasAfter(out, h, m + 1)
      <3>1. d + 1 <= n + 1
        BY <2>3
      <3> QED
        BY <2>3, <2>7, <2>8, <3>1 DEF HasAfter
    <2> QED
      BY <2>1, <2>2, <2>6, <2>9
  <1> QED
    BY <1>3, <1>4

(* Decode gets back in step.                                               *)
LEMMA AlwaysResyncs == Spec => []ResyncsAfterDamage
  <1>1. Init => ResyncsAfterDamage
    BY DEF Init, ResyncsAfterDamage
  <1>2. ASSUME Typed, Received, LinesAre, ResyncsAfterDamage, [Next]_vars PROVE ResyncsAfterDamage'
    <2> SUFFICES ASSUME pc' # "transit", lost' # "trit", NEW h \in hit', hit' = {h} PROVE Resynced(h)'
      BY DEF ResyncsAfterDamage
    <2>1. CASE Transit
      <3>1. pc' = "transit"
        BY <2>1 DEF Transit, ChangeTrit, LoseTryte, LoseTrit
      <3> QED
        BY <3>1
    <2>2. CASE Tokenize
      <3>1. /\ pc = "transit" /\ UNCHANGED <<text, lines, hit, i, output>>
        BY <2>2 DEF Tokenize
      <3>2. i = 1 /\ output \in Seq(Scalars) /\ hit \subseteq 1..Len(text)
        BY <1>2, <3>1 DEF Typed, TextTyped, DecodeTyped, Untouched
      <3>3. h \in 1..Len(text)
        BY <3>1, <3>2
      <3>4. Start(lines, h) \in Nat
        <4>1. (h + 1) - 1 = h /\ lines \in Seq(Seq(Tryte)) /\ h \in 1..Len(lines)
          BY <1>2, <3>3 DEF Typed, TextTyped
        <4>2. Start(lines, h - 1) \in Nat /\ lines[h] \in Seq(Tryte) /\ Start(lines, h) = Start(lines, h - 1) + Len(lines[h])
          BY <4>1, LinesAt
        <4>3. Len(lines[h]) \in Nat
          BY <4>2
        <4> QED
          BY <4>2, <4>3
      <3>5. CASE Start(lines, h) = 0
        <4>1. i = Start(lines, h) + 1
          BY <3>2, <3>5
        <4>2. h \in h..Len(text) /\ HasAfter(output, h, h)
          BY <1>2, <3>2, <3>3, JustBack
        <4>3. BackInStep(h)
          BY <4>1, <4>2 DEF BackInStep
        <4> QED
          BY <3>1, <4>3 DEF Resynced, BackInStep, HasAfter
      <3>6. CASE Start(lines, h) # 0
        <4>1. i <= Start(lines, h)
          BY <3>2, <3>4, <3>6
        <4> QED
          BY <3>1, <4>1 DEF Resynced
      <3> QED
        BY <3>5, <3>6
    <2>3. CASE DecodeStep
      <3>1. pc = "decode" /\ UNCHANGED <<trial, text, lines, trytes, lost, hit>>
        BY <2>3 DEF DecodeStep, SkipContinuation, IncompleteSequence, UnexpectedRole, RejectSymbol,
                    AppendRune, EndOfInput, AtTryte, Complete
      <3>2. h \in 1..Len(text) /\ h \in hit /\ hit = {h} /\ lost # "trit"
        BY <1>2, <3>1 DEF Typed, TextTyped
      <3>3. Resynced(h)
        BY <1>2, <3>1, <3>2 DEF ResyncsAfterDamage
      <3>4. output' \in Seq(Scalars) /\ i' \in Nat
        <4>1. Typed'
          BY <1>2, NextTyped
        <4> QED
          BY <4>1 DEF Typed, DecodeTyped
      <3>5. CASE i <= Start(lines, h)
        <4>1. i' <= Start(lines, h) + 1 \/ FewLeft(h)
          BY <1>2, <2>3, <3>1, <3>2, <3>5, DamagedStep
        <4>2. CASE i' = Start(lines, h) + 1
          <5>1. h \in h..Len(text) /\ HasAfter(output', h, h)
            BY <1>2, <3>2, <3>4, JustBack
          <5>2. \E m \in h..Len(text) : i' = Start(lines, m) + 1 /\ HasAfter(output', h, m)
            BY <4>2, <5>1
          <5> QED
            BY <3>1, <5>2 DEF Resynced, BackInStep, HasAfter
        <4>3. CASE FewLeft(h)
          BY <3>1, <4>3 DEF Resynced, FewLeft
        <4>4. CASE i' # Start(lines, h) + 1 /\ ~FewLeft(h)
          <5>1. Start(lines, h) \in Nat
            BY <1>2, <3>1, <3>2, LineEnds
          <5>2. i' <= Start(lines, h)
            BY <3>4, <4>1, <4>4, <5>1
          <5> QED
            BY <3>1, <5>2 DEF Resynced
        <4> QED
          BY <4>2, <4>3, <4>4
      <3>6. CASE BackInStep(h)
        <4>1. \E m \in h..Len(text) : i' = Start(lines, m) + 1 /\ HasAfter(output', h, m)
          BY <1>2, <2>3, <3>1, <3>2, <3>6, BackStep
        <4> QED
          BY <3>1, <4>1 DEF Resynced, BackInStep, HasAfter
      <3>7. CASE FewLeft(h)
        BY <3>1, <3>7 DEF Resynced, FewLeft
      <3> QED
        BY <3>3, <3>5, <3>6, <3>7 DEF Resynced
    <2>4. CASE Finished \/ UNCHANGED vars
      <3>1. UNCHANGED vars
        BY <2>4 DEF Finished
      <3>2. Resynced(h)
        BY <1>2, <3>1 DEF vars, ResyncsAfterDamage
      <3> QED
        BY <3>1, <3>2 DEF vars, Resynced, BackInStep, HasAfter, FewLeft
    <2> QED
      BY <1>2, <2>1, <2>2, <2>3, <2>4 DEF Next
  <1> QED
    BY <1>1, <1>2, AlwaysTyped, AlwaysReceived, AlwaysLines, PTL DEF Spec

(* The trytes behind the damaged line are those of what follows it.        *)
LEMMA RestIs ==
  ASSUME Typed, Received, LinesAre, pc # "transit", lost # "trit", NEW h \in 1..Len(text), hit = {h}
  PROVE  Len(Joined(Encode(trial.checked, SubSeq(text, h + 1, Len(text))))) = Len(trytes) - Start(lines, h)
  <1>1. /\ text \in Seq(Scalars) /\ lines \in Seq(Seq(Tryte)) /\ Len(lines) = Len(text)
        /\ trial.checked \in BOOLEAN /\ trytes = Joined(lines)
    BY DEF Typed, TextTyped, Received
  <1>2. PICK n \in Nat : n = Len(text) /\ n = Len(lines)
    BY <1>1
  <1>3. PICK D : D = Seq(Tryte)
    OBVIOUS
  <1>4. PICK after : after = SubSeq(text, h + 1, n)
    OBVIOUS
  <1>5. PICK before : before = SubSeq(text, 1, h - 1)
    OBVIOUS
  <1>6. IsSplit(text, h, before, after, Scalars)
    BY <1>1, <1>2, <1>4, <1>5, SplitAt
  <1>7. after \in Seq(Scalars) /\ Len(after) = n - h /\ \A j \in 1..n - h : after[j] = text[h + j]
    BY <1>2, <1>6 DEF IsSplit
  <1>8. PICK b : b = SubSeq(lines, h + 1, n)
    OBVIOUS
  <1>9. PICK a : a = SubSeq(lines, 1, h - 1)
    OBVIOUS
  <1>10. IsSplit(lines, h, a, b, D)
    <2>1. lines \in Seq(D) /\ h \in 1..Len(lines)
      BY <1>1, <1>3
    <2> QED
      BY <1>2, <1>8, <1>9, <2>1, SplitAt
  <1>11. /\ a \in Seq(D) /\ b \in Seq(D) /\ Len(b) = n - h /\ lines = Append(a, lines[h]) \o b
         /\ \A j \in 1..n - h : b[j] = lines[h + j]
    BY <1>2, <1>10 DEF IsSplit
  <1>12. PICK e : e = Encode(trial.checked, after)
    OBVIOUS
  <1>13. e \in Seq(D) /\ Len(e) = n - h /\ \A j \in 1..n - h : e[j] = EncodeCodePoint(trial.checked, after[j])
    <2>1. Encoded(e, trial.checked, after)
      BY <1>1, <1>7, <1>12, EncodeIs
    <2> QED
      BY <1>3, <1>7, <2>1 DEF Encoded
  <1>14. b = e
    <2>1. ASSUME NEW j \in 1..n - h PROVE b[j] = e[j]
      <3>1. h + j \in 1..n /\ h + j # h
        BY <1>2
      <3>2. lines[h + j] = Sent(h + j)
        BY <1>2, <3>1 DEF LinesAre
      <3>3. e[j] = Sent(h + j)
        BY <1>7, <1>13 DEF Sent
      <3> QED
        BY <1>11, <3>2, <3>3
    <2> QED
      BY <1>11, <1>13, <2>1, SeqEqual
  <1>15. PICK f : f = Append(a, lines[h])
    OBVIOUS
  <1>16. f \in Seq(D)
    <2>1. lines \in Seq(D) /\ h \in 1..Len(lines)
      BY <1>1, <1>3
    <2>2. lines[h] \in D
      BY <2>1, ElementOfSeq
    <2> QED
      BY <1>11, <1>15, <2>2, AppendProperties
  <1>17. SubSeq(lines, 1, h) = f
    <2>1. PICK g : g = SubSeq(lines, 1, h)
      OBVIOUS
    <2>2. lines \in Seq(D) /\ h \in 0..Len(lines)
      BY <1>1, <1>2, <1>3
    <2>3. g \in Seq(D) /\ Len(g) = h /\ \A q \in 1..h : g[q] = lines[q]
      BY <2>1, <2>2, TextTo
    <2>4. /\ Len(a) = h - 1 /\ \A q \in 1..h - 1 : a[q] = lines[q]
      BY <1>10 DEF IsSplit
    <2>5. lines[h] \in D
      <3>1. h \in 1..Len(lines)
        BY <1>1
      <3> QED
        BY <2>2, <3>1, ElementOfSeq
    <2>6. /\ Len(f) = Len(a) + 1 /\ f[Len(a) + 1] = lines[h] /\ \A q \in 1..Len(a) : f[q] = a[q]
      BY <1>11, <1>15, <2>5, AppendProperties
    <2>7. PICK p \in Nat : p = h - 1 /\ p = Len(a) /\ h = p + 1
      BY <2>4
    <2>8. ASSUME NEW q \in 1..h PROVE g[q] = f[q]
      <3>1. CASE q = h
        BY <2>3, <2>6, <2>7, <3>1
      <3>2. CASE q # h
        <4>1. q \in 1..p
          BY <2>7, <3>2
        <4> QED
          BY <2>3, <2>4, <2>6, <2>7, <4>1
      <3> QED
        BY <3>1, <3>2
    <2>9. Len(g) = Len(f)
      BY <2>3, <2>6, <2>7
    <2> QED
      BY <1>16, <2>1, <2>3, <2>8, <2>9, SeqEqual
  <1>18. /\ Joined(f) \in Seq(Tryte) /\ Joined(b) \in Seq(Tryte)
         /\ Joined(f \o b) = Joined(f) \o Joined(b)
    <2>1. f \in Seq(Seq(Tryte)) /\ b \in Seq(Seq(Tryte))
      BY <1>3, <1>11, <1>16
    <2> QED
      BY <2>1, JoinedOfConcat
  <1>19. Len(Joined(f) \o Joined(b)) = Len(Joined(f)) + Len(Joined(b))
    BY <1>18, ConcatProperties
  <1>20. Len(trytes) = Start(lines, h) + Len(Joined(b))
    <2>1. trytes = Joined(f) \o Joined(b)
      BY <1>1, <1>11, <1>15, <1>18
    <2> QED
      BY <1>17, <1>19, <2>1 DEF Start
  <1>21. Len(Joined(b)) \in Nat /\ Start(lines, h) \in Nat
    BY <1>17, <1>18 DEF Start
  <1>22. Len(Joined(b)) = Len(trytes) - Start(lines, h)
    BY <1>20, <1>21
  <1> QED
    BY <1>2, <1>4, <1>12, <1>14, <1>22

(* IsPrefix, element by element.                                           *)
LEMMA PrefixIs ==
  ASSUME NEW D, NEW s \in Seq(D), NEW t \in Seq(D), Len(s) <= Len(t), \A q \in 1..Len(s) : s[q] = t[q]
  PROVE  IsPrefix(s, t)
  <1>1. PICK m \in Nat : m = Len(s) /\ m \in 0..Len(s) /\ m \in 0..Len(t)
    OBVIOUS
  <1>2. PICK a, b : a = SubSeq(s, 1, m) /\ b = SubSeq(t, 1, m)
    OBVIOUS
  <1>3. a \in Seq(D) /\ Len(a) = m /\ \A q \in 1..m : a[q] = s[q]
    BY <1>1, <1>2, TextTo
  <1>4. b \in Seq(D) /\ Len(b) = m /\ \A q \in 1..m : b[q] = t[q]
    BY <1>1, <1>2, TextTo
  <1>5. \A q \in 1..m : a[q] = b[q]
    BY <1>1, <1>3, <1>4
  <1>6. a = b
    BY <1>3, <1>4, <1>5, SeqEqual
  <1> QED
    BY <1>1, <1>2, <1>6 DEF IsPrefix

(* Reverse, element by element.                                            *)
LEMMA ReverseIs ==
  ASSUME NEW D, NEW s \in Seq(D)
  PROVE  /\ Reverse(s) \in Seq(D) /\ Len(Reverse(s)) = Len(s)
         /\ \A q \in 1..Len(s) : Reverse(s)[q] = s[(Len(s) - q) + 1]
  <1>1. PICK n \in Nat : n = Len(s)
    OBVIOUS
  <1>2. \A q \in 1..n : s[(n - q) + 1] \in D
    <2>1. ASSUME NEW q \in 1..n PROVE s[(n - q) + 1] \in D
      <3>1. (n - q) + 1 \in 1..Len(s)
        BY <1>1
      <3> QED
        BY <3>1, ElementOfSeq
    <2> QED
      BY <2>1
  <1>3. PICK r : r = [q \in 1..n |-> s[(n - q) + 1]]
    OBVIOUS
  <1>4. r \in [1..n -> D]
    BY <1>2, <1>3
  <1>5. r \in Seq(D) /\ Len(r) = n
    BY <1>4
  <1>6. \A q \in 1..n : r[q] = s[(n - q) + 1]
    BY <1>3
  <1>7. Reverse(s) = r
    BY <1>1, <1>3 DEF Reverse
  <1> QED
    BY <1>1, <1>5, <1>6, <1>7

(* IsSuffix, element by element.                                           *)
LEMMA SuffixIs ==
  ASSUME NEW D, NEW s \in Seq(D), NEW t \in Seq(D), Len(s) <= Len(t),
         \A q \in 1..Len(s) : t[Len(t) - Len(s) + q] = s[q]
  PROVE  IsSuffix(s, t)
  <1>1. PICK m \in Nat, n \in Nat : m = Len(s) /\ n = Len(t) /\ m <= n
    OBVIOUS
  <1>2. PICK a, b : a = Reverse(s) /\ b = Reverse(t)
    OBVIOUS
  <1>3. a \in Seq(D) /\ Len(a) = m /\ \A q \in 1..m : a[q] = s[(m - q) + 1]
    BY <1>1, <1>2, ReverseIs
  <1>4. b \in Seq(D) /\ Len(b) = n /\ \A q \in 1..n : b[q] = t[(n - q) + 1]
    BY <1>1, <1>2, ReverseIs
  <1>5. ASSUME NEW q \in 1..m PROVE a[q] = b[q]
    <2>1. PICK r \in 1..m : r = (m - q) + 1 /\ (n - m) + r = (n - q) + 1
      <3>1. (m - q) + 1 \in 1..m /\ (n - m) + ((m - q) + 1) = (n - q) + 1
        BY <1>1
      <3> QED
        BY <3>1
    <2>2. t[(n - m) + r] = s[r]
      BY <1>1
    <2>3. q \in 1..n
      BY <1>1
    <2> QED
      BY <1>3, <1>4, <2>1, <2>2, <2>3
  <1>6. IsPrefix(a, b)
    BY <1>1, <1>3, <1>4, <1>5, PrefixIs
  <1> QED
    BY <1>2, <1>6 DEF IsSuffix

(* At the end, with one symbol damaged, the output begins with what        *)
(* precedes it.                                                            *)
LEMMA BeforeAtEnd ==
  ASSUME Typed, Received, LinesAre, InStepUntilDamage, pc = "done", lost # "trit",
         NEW h \in 1..Len(text), hit = {h}
  PROVE  HasBefore(output, h)
  <1>1. text \in Seq(Scalars) /\ Len(text) \in Nat
    BY DEF Typed, TextTyped
  <1>2. CASE PastDamage
    BY <1>2 DEF PastDamage
  <1>3. CASE BeforeDamage
    <2>1. PICK m \in 0..Len(text) : m < h /\ InStep(m)
      BY <1>3 DEF BeforeDamage
    <2>2. m + 1 \in hit
      <3>1. m < Len(text)
        BY <1>1, <2>1
      <3> QED
        BY <2>1, <3>1, NothingLeft
    <2>3. m = h - 1
      BY <2>2
    <2>4. output = SubSeq(text, 1, m)
      BY <2>1 DEF InStep
    <2>5. Len(SubSeq(text, 1, m)) = m /\ \A q \in 1..m : SubSeq(text, 1, m)[q] = text[q]
      BY <1>1, TextTo
    <2>6. h - 1 <= Len(output)
      BY <2>3, <2>4, <2>5
    <2> QED
      BY <2>3, <2>4, <2>5, <2>6 DEF HasBefore
  <1> QED
    BY <1>2, <1>3 DEF InStepUntilDamage

(* And it ends with what follows it, if Decode was back in step.           *)
LEMMA AfterAtEnd ==
  ASSUME Typed, Received, LinesAre, ResyncsAfterDamage, pc = "done", lost # "trit",
         NEW h \in 1..Len(text), hit = {h}
  PROVE  HasAfter(output, h, Len(text)) \/ FewLeft(h)
  <1>1. text \in Seq(Scalars) /\ Len(text) \in Nat /\ trytes \in Seq(Tryte) /\ Len(trytes) \in Nat
    BY DEF Typed, TextTyped, DecodeTyped
  <1>2. i = Len(trytes) + 1
    BY DEF Received
  <1>3. ~(i <= Start(lines, h))
    <2>1. Start(lines, h) \in Nat /\ Start(lines, h) <= Len(trytes)
      BY LineEnds
    <2> QED
      BY <1>1, <1>2, <2>1
  <1>4. CASE BackInStep(h)
    <2>1. PICK m \in h..Len(text) : i = Start(lines, m) + 1 /\ HasAfter(output, h, m)
      BY <1>4 DEF BackInStep
    <2>2. ASSUME m # Len(text) PROVE FALSE
      <3>1. m + 1 \in 1..Len(text) /\ (m + 1) - 1 = m /\ m + 1 \notin hit
        BY <1>1, <2>2
      <3>2. Len(lines[m + 1]) \in 1..4
        BY <3>1, SentIs DEF LinesAre
      <3>3. Start(lines, m) \in Nat /\ Start(lines, m) + Len(lines[m + 1]) <= Len(trytes)
        BY <3>1, LineIsRead DEF LineAt
      <3>4. PICK a \in Nat, b \in 1..4, c \in Nat : /\ a = Start(lines, m) /\ b = Len(lines[m + 1])
                                                 /\ c = Len(trytes) /\ a + b <= c
        BY <1>1, <3>2, <3>3
      <3>5. a = c
        <4>1. c + 1 = a + 1
          BY <1>2, <2>1, <3>4
        <4> QED
          BY <4>1
      <3>6. a + b <= a
        BY <3>4, <3>5
      <3>7. ~(a + b <= a)
        OBVIOUS
      <3> QED
        BY <3>6, <3>7
    <2> QED
      BY <2>1, <2>2
  <1> QED
    BY <1>3, <1>4 DEF ResyncsAfterDamage, Resynced

(* Damage to one symbol of a text of any length, trits misread or a tryte  *)
(* left out, spares every other (CharTu8Codec.Decode goes on at the next   *)
(* leading tryte), unless less than a symbol's length follows it.          *)
THEOREM DamageStaysLocal == Spec => []DamageIsLocal
  <1>1. ASSUME Typed, Received, LinesAre, InStepUntilDamage, ResyncsAfterDamage, DamagedOne
        PROVE  /\ IsPrefix(Before, output)
               /\ IsSuffix(After, output) \/ Len(Joined(Encode(trial.checked, After))) <= 2
    <2>1. /\ text \in Seq(Scalars) /\ Len(text) \in Nat /\ output \in Seq(Scalars) /\ Len(output) \in Nat
          /\ hit \subseteq 1..Len(text) /\ pc = "done" /\ lost # "trit"
      BY <1>1 DEF Typed, TextTyped, DecodeTyped, DamagedOne
    <2>2. PICK h \in 1..Len(text) : hit = {h}
      <3>1. IsFiniteSet(hit)
        <4>1. PICK l \in Nat : l = Len(text)
          BY <2>1
        <4>2. IsFiniteSet(1..l)
          BY FS_Interval
        <4> QED
          BY <2>1, <4>1, <4>2, FS_Subset
      <3>2. Cardinality(hit) = 1
        BY <1>1 DEF DamagedOne
      <3>3. \E x : hit = {x}
        BY <3>1, <3>2, FS_Singleton
      <3> QED
        BY <2>1, <3>3
    <2>3. (CHOOSE s \in hit : TRUE) = h
      BY <2>2
    <2>4. PICK before, after : before = SubSeq(text, 1, h - 1) /\ after = SubSeq(text, h + 1, Len(text))
      OBVIOUS
    <2>5. Before = before /\ After = after
      BY <2>3, <2>4 DEF Before, After
    <2>6. IsSplit(text, h, before, after, Scalars)
      BY <2>1, <2>4, SplitAt
    <2>7. PICK l \in Nat, n \in Nat : l = Len(text) /\ n = Len(output)
      BY <2>1
    <2>8. IsPrefix(before, output)
      <3>1. HasBefore(output, h)
        BY <1>1, <2>1, <2>2, BeforeAtEnd
      <3>2. before \in Seq(Scalars) /\ Len(before) = h - 1 /\ \A q \in 1..h - 1 : before[q] = text[q]
        BY <2>6 DEF IsSplit
      <3>3. Len(before) <= Len(output) /\ \A q \in 1..Len(before) : before[q] = output[q]
        BY <3>1, <3>2 DEF HasBefore
      <3> QED
        BY <2>1, <3>2, <3>3, PrefixIs
    <2>9. CASE HasAfter(output, h, Len(text))
      <3>1. after \in Seq(Scalars) /\ Len(after) = l - h /\ \A q \in 1..l - h : after[q] = text[h + q]
        BY <2>6, <2>7 DEF IsSplit
      <3>2. l - h <= n /\ \A q \in 1..l - h : output[n - (l - h) + q] = text[h + q]
        BY <2>7, <2>9 DEF HasAfter
      <3>3. Len(after) <= Len(output) /\ \A q \in 1..Len(after) : output[Len(output) - Len(after) + q] = after[q]
        BY <2>7, <3>1, <3>2
      <3>4. IsSuffix(after, output)
        BY <2>1, <3>1, <3>3, SuffixIs
      <3> QED
        BY <2>5, <2>8, <3>4
    <2>10. CASE FewLeft(h)
      <3>1. pc # "transit"
        BY <2>1
      <3>2. Len(Joined(Encode(trial.checked, after))) = Len(trytes) - Start(lines, h)
        BY <1>1, <2>1, <2>2, <2>4, <3>1, RestIs
      <3> QED
        BY <2>5, <2>8, <2>10, <3>2 DEF FewLeft
    <2> QED
      BY <1>1, <2>1, <2>2, <2>9, <2>10, AfterAtEnd
  <1>2. Typed /\ Received /\ LinesAre /\ InStepUntilDamage /\ ResyncsAfterDamage => DamageIsLocal
    BY <1>1 DEF DamageIsLocal
  <1> QED
    BY <1>2, AlwaysTyped, AlwaysReceived, AlwaysLines, AlwaysInStep, AlwaysResyncs, PTL

=============================================================================
