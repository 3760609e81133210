------------------------- MODULE RadixConverterProofs -------------------------
(***************************************************************************)
(* Proofs about the conversions of RadixConverter for every text, value,   *)
(* fixed length and precision of a double: what is formatted reads back as *)
(* the value it was formatted from, and is as long as the value needs.     *)
(***************************************************************************)
EXTENDS RadixConverter, DataInduction

-----------------------------------------------------------------------------
(* Powers.                                                                 *)

(* The recursion of Power, unfolded once and for all.                      *)
LEMMA PowerUnfolds ==
  ASSUME NEW b \in Nat, NEW e \in Nat
  PROVE  \E R \in [0..e -> Nat] :
           /\ Power(b, e) = R[e]
           /\ R[0] = 1
           /\ \A k \in 1..e : R[k] = R[k - 1] * b
  <1> DEFINE n == e
             A == Nat
             next(s, k) == s * b
             step == [p \in A \X (0 + 1..n) |-> next(p[1], p[2])]
             Is(f) == f = [k \in 0..n |-> IF k = 0 THEN 1 ELSE next(f[k - 1], k)]
             R == CHOOSE f : Is(f)
  <1>1. n \in Nat /\ n \in Int /\ 0 \in Int /\ 1 \in A
    OBVIOUS
  <1>2. \A a \in A, k \in 1..n : next(a, k) \in A
    OBVIOUS
  <1>3. Power(b, e) = R[n]
    BY DEF Power
  <1> HIDE DEF A, n, next
  <1>4. step \in [A \X (0 + 1..n) -> A]
    <2> SUFFICES ASSUME NEW p \in A \X (0 + 1..n) PROVE next(p[1], p[2]) \in A
      OBVIOUS
    <2>1. p[1] \in A /\ p[2] \in 1..n
      BY <1>1
    <2> QED
      BY <1>2, <2>1
  <1>5. ASSUME NEW a \in A, NEW k \in 0..n, k # 0 PROVE step[<<a, k>>] = next(a, k)
    <2>1. <<a, k>> \in A \X (0 + 1..n)
      BY <1>1, <1>5
    <2> QED
      BY <2>1
  <1>6. PICK f \in [0..n -> A] : Unfolds(f, 0, n, 1, step)
    <2> HIDE DEF step
    <2> QED
      BY <1>1, <1>4, Recursion
  <1>7. \A k \in 0..n : f[k] = IF k = 0 THEN 1 ELSE next(f[k - 1], k)
    <2> HIDE DEF step
    <2>1. \A k \in 0..n : k # 0 => f[k - 1] \in A
      BY <1>1
    <2> QED
      BY <1>5, <1>6, <2>1 DEF Unfolds
  <1>8. Is(f)
    BY <1>7
  <1>9. R = [k \in 0..n |-> IF k = 0 THEN 1 ELSE next(R[k - 1], k)]
    <2> HIDE DEF Is
    <2>1. Is(R)
      BY <1>8
    <2> QED
      BY <2>1 DEF Is
  <1> HIDE DEF R
  <1>10. R[0] = 1 /\ \A k \in 1..n : R[k] = next(R[k - 1], k)
    BY <1>9, <1>1
  <1>11. \A k \in 0..n : R[k] \in A
    <2> DEFINE Good == {k \in 0..n : R[k] \in A}
    <2>1. 0 \in Good
      BY <1>1, <1>10
    <2>2. ASSUME NEW k \in 0..n - 1, k \in Good PROVE k + 1 \in Good
      <3>1. k + 1 \in 1..n /\ k + 1 \in 0..n /\ (k + 1) - 1 = k
        BY <1>1
      <3>2. R[k + 1] = next(R[k], k + 1) /\ R[k] \in A
        BY <1>10, <2>2, <3>1
      <3> QED
        BY <1>2, <3>1, <3>2
    <2>3. 0..n \subseteq Good
      <3> HIDE DEF Good
      <3> QED
        BY <1>1, <2>1, <2>2, IntervalInduction
    <2> QED
      BY <2>3
  <1>12. R \in [0..n -> A]
    BY <1>9, <1>11
  <1> QED
    BY <1>3, <1>10, <1>12 DEF A, n, next

(* A power is a number, and the next one is the base times it.             *)
LEMMA PowerSteps ==
  ASSUME NEW b \in Nat, NEW e \in Nat
  PROVE  /\ Power(b, e) \in Nat
         /\ Power(b, 0) = 1
         /\ Power(b, e + 1) = Power(b, e) * b
  <1>1. PICK f \in [0..e -> Nat] : /\ Power(b, e) = f[e] /\ f[0] = 1
                                   /\ \A k \in 1..e : f[k] = f[k - 1] * b
    BY PowerUnfolds
  <1>2. PICK g \in [0..e + 1 -> Nat] : /\ Power(b, e + 1) = g[e + 1] /\ g[0] = 1
                                       /\ \A k \in 1..e + 1 : g[k] = g[k - 1] * b
    <2>1. e + 1 \in Nat
      OBVIOUS
    <2> QED
      BY <2>1, PowerUnfolds
  <1>3. PICK h \in [0..0 -> Nat] : Power(b, 0) = h[0] /\ h[0] = 1
    <2>1. 0 \in Nat
      OBVIOUS
    <2> QED
      BY <2>1, PowerUnfolds
  <1>4. \A k \in 0..e : f[k] = g[k]
    <2>1. ASSUME NEW k \in 0..e - 1, f[k] = g[k] PROVE f[k + 1] = g[k + 1]
      <3>1. k + 1 \in 1..e /\ k + 1 \in 1..e + 1 /\ (k + 1) - 1 = k
        OBVIOUS
      <3> QED
        BY <1>1, <1>2, <2>1, <3>1
    <2>2. SameSteps(f, g, 0, e)
      BY <1>1, <1>2, <2>1 DEF SameSteps
    <2>3. SameValues(f, g, 0, e)
      <3>1. 0 \in Int /\ e \in Int
        OBVIOUS
      <3> QED
        BY <2>2, <3>1, SameStepsSameValues
    <2> QED
      BY <2>3 DEF SameValues
  <1>5. e \in 0..e /\ e + 1 \in 1..e + 1 /\ (e + 1) - 1 = e /\ f[e] \in Nat
    OBVIOUS
  <1> QED
    BY <1>1, <1>2, <1>3, <1>4, <1>5

(* Products of numbers, which the provers do not compare by themselves.    *)
LEMMA ProductsGrow ==
  ASSUME NEW a \in Nat, NEW b \in Nat, NEW c \in Nat, a <= b
  PROVE  a * c \in Nat /\ b * c \in Nat /\ a * c <= b * c
  <1>1. PICK d \in Nat : b = a + d
    <2>1. b - a \in Nat /\ b = a + (b - a)
      OBVIOUS
    <2> QED
      BY <2>1
  <1>2. b * c = a * c + d * c
    BY <1>1
  <1>3. a * c \in Nat /\ d * c \in Nat
    OBVIOUS
  <1> QED
    BY <1>2, <1>3

(* A power of a base of two or more is above its exponent, so every value  *)
(* is below some power.                                                    *)
LEMMA PowersGrow ==
  ASSUME NEW b \in Nat, b >= 2, NEW e \in Nat
  PROVE  Power(b, e) \in Nat /\ Power(b, e) >= e + 1
  <1> DEFINE Good == {n \in Nat : Power(b, n) \in Nat /\ Power(b, n) >= n + 1}
  <1>1. 0 \in Good
    BY PowerSteps
  <1>2. ASSUME NEW n \in Nat, n \in Good PROVE n + 1 \in Good
    <2>1. PICK p \in Nat : p = Power(b, n) /\ p >= n + 1 /\ Power(b, n + 1) = p * b
      BY <1>2, PowerSteps
    <2>2. 2 * p <= b * p
      BY ProductsGrow
    <2>3. p * b = b * p /\ p * b \in Nat
      OBVIOUS
    <2>4. p * b >= 2 * p
      BY <2>2, <2>3
    <2>5. p * b >= (n + 1) + 1
      BY <2>1, <2>3, <2>4
    <2> QED
      BY <2>1, <2>3, <2>5
  <1>3. Nat \subseteq Good
    <2> HIDE DEF Good
    <2> QED
      BY <1>1, <1>2, NatInductionOnSets
  <1> QED
    BY <1>3

(* Powers grow with the exponent: by the base for each digit more.         *)
LEMMA PowersMonotone ==
  ASSUME NEW b \in Nat, b >= 2, NEW m \in Nat, NEW n \in Nat, m <= n
  PROVE  Power(b, m) <= Power(b, n) /\ (m < n => b * Power(b, m) <= Power(b, n))
  <1> DEFINE Good == {k \in Nat : Power(b, m) <= Power(b, m + k)}
  <1>1. 0 \in Good
    BY PowerSteps
  <1>2. ASSUME NEW k \in Nat, k \in Good PROVE k + 1 \in Good
    <2>1. PICK p \in Nat : p = Power(b, m + k) /\ Power(b, (m + k) + 1) = p * b
      <3>1. m + k \in Nat
        OBVIOUS
      <3> QED
        BY <3>1, PowerSteps
    <2>2. 1 * p <= b * p /\ b * p \in Nat
      BY ProductsGrow
    <2>3. p <= p * b /\ p * b \in Nat
      BY <2>2
    <2>4. Power(b, m) \in Nat /\ Power(b, m) <= p
      BY <1>2, <2>1, PowerSteps
    <2>5. Power(b, m) <= p * b
      BY <2>3, <2>4
    <2> QED
      BY <2>1, <2>5
  <1>3. Nat \subseteq Good
    <2> HIDE DEF Good
    <2> QED
      BY <1>1, <1>2, NatInductionOnSets
  <1>4. Power(b, m) <= Power(b, n)
    <2>1. n - m \in Nat /\ m + (n - m) = n
      OBVIOUS
    <2> QED
      BY <1>3, <2>1
  <1>5. ASSUME m < n PROVE b * Power(b, m) <= Power(b, n)
    <2>1. n - 1 - m \in Nat /\ m + (n - 1 - m) = n - 1 /\ n - 1 \in Nat /\ (n - 1) + 1 = n
      BY <1>5
    <2>2. Power(b, m) <= Power(b, n - 1)
      BY <1>3, <2>1
    <2>3. PICK p \in Nat, q \in Nat : /\ p = Power(b, m) /\ q = Power(b, n - 1) /\ Power(b, n) = q * b
      BY <2>1, PowerSteps
    <2>4. p * b <= q * b
      BY <2>2, <2>3, ProductsGrow
    <2>5. p * b = b * p
      OBVIOUS
    <2> QED
      BY <2>3, <2>4, <2>5
  <1> QED
    BY <1>4, <1>5

-----------------------------------------------------------------------------
(* What digits weigh.                                                      *)

(* The recursion of Weigh, unfolded once and for all.                      *)
LEMMA WeighUnfolds ==
  ASSUME NEW b \in Nat, NEW digits \in Seq(Int)
  PROVE  \E R \in [0..Len(digits) -> Int] :
           /\ Weigh(digits, b) = R[Len(digits)]
           /\ R[0] = 0
           /\ \A k \in 1..Len(digits) : R[k] = R[k - 1] * b + digits[k]
  <1> DEFINE n == Len(digits)
             A == Int
             next(s, k) == s * b + digits[k]
             step == [p \in A \X (0 + 1..n) |-> next(p[1], p[2])]
             Is(f) == f = [k \in 0..n |-> IF k = 0 THEN 0 ELSE next(f[k - 1], k)]
             R == CHOOSE f : Is(f)
  <1>1. n \in Nat /\ n \in Int /\ 0 \in Int /\ 0 \in A
    OBVIOUS
  <1>2. \A a \in A, k \in 1..n : next(a, k) \in A
    <2>1. ASSUME NEW a \in Int, NEW k \in 1..Len(digits) PROVE a * b + digits[k] \in Int
      <3>1. digits[k] \in Int /\ a * b \in Int
        OBVIOUS
      <3> QED
        BY <3>1
    <2> QED
      BY <2>1
  <1>3. Weigh(digits, b) = R[n]
    BY DEF Weigh
  <1> HIDE DEF A, n, next
  <1>4. step \in [A \X (0 + 1..n) -> A]
    <2> SUFFICES ASSUME NEW p \in A \X (0 + 1..n) PROVE next(p[1], p[2]) \in A
      OBVIOUS
    <2>1. p[1] \in A /\ p[2] \in 1..n
      BY <1>1
    <2> QED
      BY <1>2, <2>1
  <1>5. ASSUME NEW a \in A, NEW k \in 0..n, k # 0 PROVE step[<<a, k>>] = next(a, k)
    <2>1. <<a, k>> \in A \X (0 + 1..n)
      BY <1>1, <1>5
    <2> QED
      BY <2>1
  <1>6. PICK f \in [0..n -> A] : Unfolds(f, 0, n, 0, step)
    <2> HIDE DEF step
    <2> QED
      BY <1>1, <1>4, Recursion
  <1>7. \A k \in 0..n : f[k] = IF k = 0 THEN 0 ELSE next(f[k - 1], k)
    <2> HIDE DEF step
    <2>1. \A k \in 0..n : k # 0 => f[k - 1] \in A
      BY <1>1
    <2> QED
      BY <1>5, <1>6, <2>1 DEF Unfolds
  <1>8. Is(f)
    BY <1>7
  <1>9. R = [k \in 0..n |-> IF k = 0 THEN 0 ELSE next(R[k - 1], k)]
    <2> HIDE DEF Is
    <2>1. Is(R)
      BY <1>8
    <2> QED
      BY <2>1 DEF Is
  <1> HIDE DEF R
  <1>10. R[0] = 0 /\ \A k \in 1..n : R[k] = next(R[k - 1], k)
    BY <1>9, <1>1
  <1>11. \A k \in 0..n : R[k] \in A
    <2> DEFINE Good == {k \in 0..n : R[k] \in A}
    <2>1. 0 \in Good
      BY <1>1, <1>10
    <2>2. ASSUME NEW k \in 0..n - 1, k \in Good PROVE k + 1 \in Good
      <3>1. k + 1 \in 1..n /\ k + 1 \in 0..n /\ (k + 1) - 1 = k
        BY <1>1
      <3>2. R[k + 1] = next(R[k], k + 1) /\ R[k] \in A
        BY <1>10, <2>2, <3>1
      <3> QED
        BY <1>2, <3>1, <3>2
    <2>3. 0..n \subseteq Good
      <3> HIDE DEF Good
      <3> QED
        BY <1>1, <2>1, <2>2, IntervalInduction
    <2> QED
      BY <2>3
  <1>12. R \in [0..n -> A]
    BY <1>9, <1>11
  <1> QED
    BY <1>3, <1>10, <1>12 DEF A, n, next

(* One digit more.                                                         *)
LEMMA WeighSteps ==
  ASSUME NEW b \in Nat, NEW digits \in Seq(Int), NEW x \in Int
  PROVE  /\ Weigh(digits, b) \in Int
         /\ Weigh(<<>>, b) = 0
         /\ Append(digits, x) \in Seq(Int)
         /\ Weigh(Append(digits, x), b) = Weigh(digits, b) * b + x
  <1> DEFINE n == Len(digits)
             longer == Append(digits, x)
  <1>1. /\ n \in Nat /\ longer \in Seq(Int) /\ Len(longer) = n + 1 /\ longer[n + 1] = x
        /\ \A k \in 1..n : longer[k] = digits[k]
    OBVIOUS
  <1>2. PICK f \in [0..n -> Int] : /\ Weigh(digits, b) = f[n] /\ f[0] = 0
                                   /\ \A k \in 1..n : f[k] = f[k - 1] * b + digits[k]
    BY WeighUnfolds
  <1>3. PICK g \in [0..Len(longer) -> Int] :
          /\ Weigh(longer, b) = g[Len(longer)] /\ g[0] = 0
          /\ \A k \in 1..Len(longer) : g[k] = g[k - 1] * b + longer[k]
    BY <1>1, WeighUnfolds
  <1>4. PICK h \in [0..Len(<<>>) -> Int] : Weigh(<<>>, b) = h[Len(<<>>)] /\ h[0] = 0
    <2>1. <<>> \in Seq(Int)
      OBVIOUS
    <2> QED
      BY <2>1, WeighUnfolds
  <1> HIDE DEF n, longer
  <1>5. SameSteps(f, g, 0, n)
    <2>1. ASSUME NEW k \in 0..n - 1, f[k] = g[k] PROVE f[k + 1] = g[k + 1]
      <3>1. k + 1 \in 1..n /\ k + 1 \in 1..Len(longer) /\ (k + 1) - 1 = k
        BY <1>1
      <3>2. f[k + 1] = f[k] * b + digits[k + 1] /\ g[k + 1] = g[k] * b + longer[k + 1]
        BY <1>2, <1>3, <3>1
      <3> QED
        BY <1>1, <2>1, <3>1, <3>2
    <2> QED
      BY <1>2, <1>3, <2>1 DEF SameSteps
  <1>6. SameValues(f, g, 0, n)
    <2>1. 0 \in Int /\ n \in Int
      BY <1>1
    <2> QED
      BY <1>5, <2>1, SameStepsSameValues
  <1>7. f[n] = g[n] /\ f[n] \in Int
    BY <1>1, <1>6 DEF SameValues
  <1>8. g[n + 1] = g[n] * b + x
    <2>1. n + 1 \in 1..Len(longer) /\ (n + 1) - 1 = n
      BY <1>1
    <2> QED
      BY <1>1, <1>3, <2>1
  <1>9. Weigh(<<>>, b) = 0
    BY <1>4
  <1>10. Weigh(longer, b) = Weigh(digits, b) * b + x
    BY <1>1, <1>2, <1>3, <1>7, <1>8
  <1>11. Weigh(digits, b) \in Int
    BY <1>2, <1>7
  <1> QED
    BY <1>1, <1>9, <1>10, <1>11 DEF longer

(* A text of one alphabet is one of every alphabet that includes it.       *)
LEMMA WiderAlphabet ==
  ASSUME NEW D, NEW E, \A c \in D : c \in E, NEW s \in Seq(D)
  PROVE  s \in Seq(E)
  OBVIOUS

(* A digit appended to the second of two texts is appended to both         *)
(* together.                                                               *)
LEMMA AppendToConcat ==
  ASSUME NEW D, NEW s \in Seq(D), NEW t \in Seq(D), NEW x \in D
  PROVE  s \o Append(t, x) = Append(s \o t, x) /\ s \o t \in Seq(D)
  OBVIOUS

(* Digits before others weigh as many powers as the others are long.       *)
LEMMA WeighConcat ==
  ASSUME NEW b \in Nat, NEW s \in Seq(Int), NEW t \in Seq(Int)
  PROVE  Weigh(s \o t, b) = Weigh(s, b) * Power(b, Len(t)) + Weigh(t, b)
  <1> DEFINE Good == {d \in Seq(Int) : Weigh(s \o d, b) = Weigh(s, b) * Power(b, Len(d)) + Weigh(d, b)}
  <1>0. Weigh(s, b) \in Int
    <2>1. 0 \in Int
      OBVIOUS
    <2> QED
      BY <2>1, WeighSteps
  <1>1. <<>> \in Good
    <2>1. s \o <<>> = s /\ Len(<<>>) = 0 /\ <<>> \in Seq(Int)
      OBVIOUS
    <2>2. Weigh(<<>>, b) = 0 /\ Power(b, 0) = 1
      <3>1. 0 \in Int /\ 0 \in Nat
        OBVIOUS
      <3> QED
        BY <3>1, WeighSteps, PowerSteps
    <2> QED
      BY <1>0, <2>1, <2>2
  <1>2. ASSUME NEW d \in Seq(Int), d \in Good, NEW x \in Int PROVE Append(d, x) \in Good
    <2>1. s \o d \in Seq(Int) /\ s \o Append(d, x) = Append(s \o d, x)
      BY AppendToConcat
    <2>2. Len(d) \in Nat /\ Len(Append(d, x)) = Len(d) + 1
      OBVIOUS
    <2>3. PICK p \in Nat : Power(b, Len(d)) = p /\ Power(b, Len(d) + 1) = p * b
      BY <2>2, PowerSteps
    <2>4. PICK w \in Int, v \in Int, u \in Int :
            /\ Weigh(s \o d, b) = w /\ Weigh(s \o Append(d, x), b) = w * b + x
            /\ Weigh(d, b) = v /\ Weigh(Append(d, x), b) = v * b + x
            /\ Weigh(s, b) = u
      <3>1. /\ Weigh(s \o d, b) \in Int
            /\ Weigh(s \o Append(d, x), b) = Weigh(s \o d, b) * b + x
        BY <2>1, WeighSteps
      <3>2. Weigh(d, b) \in Int /\ Weigh(Append(d, x), b) = Weigh(d, b) * b + x
        BY WeighSteps
      <3> QED
        BY <1>0, <3>1, <3>2
    <2>5. w = u * p + v
      BY <1>2, <2>3, <2>4
    <2>6. (u * p + v) * b = u * (p * b) + v * b
      OBVIOUS
    <2>7. w * b + x = u * (p * b) + (v * b + x)
      <3>1. u * (p * b) \in Int /\ v * b \in Int
        OBVIOUS
      <3> QED
        BY <2>5, <2>6, <3>1
    <2>8. Append(d, x) \in Seq(Int)
      OBVIOUS
    <2> QED
      BY <2>2, <2>3, <2>4, <2>7, <2>8
  <1>3. Seq(Int) \subseteq Good
    <2> HIDE DEF Good
    <2> QED
      BY <1>1, <1>2, SequenceInduction
  <1> QED
    BY <1>3

(* Leading zeros weigh nothing.                                            *)
Repeated(c, n) == [k \in 1..n |-> c]

(* Zeros weigh nothing.                                                    *)
LEMMA ZerosWeighNothing ==
  ASSUME NEW b \in Nat, NEW n \in Nat
  PROVE  Repeated(0, n) \in Seq(Int) /\ Weigh(Repeated(0, n), b) = 0
  <1> DEFINE Good == {m \in Nat : Weigh(Repeated(0, m), b) = 0}
  <1>0. \A m \in Nat : Repeated(0, m) \in Seq(Int)
    BY DEF Repeated
  <1>1. 0 \in Good
    <2>1. Repeated(0, 0) = <<>> /\ <<>> \in Seq(Int) /\ 0 \in Int
      BY DEF Repeated
    <2> QED
      BY <2>1, WeighSteps
  <1>2. ASSUME NEW m \in Nat, m \in Good PROVE m + 1 \in Good
    <2>1. Repeated(0, m + 1) = Append(Repeated(0, m), 0)
      BY DEF Repeated
    <2>2. Weigh(Append(Repeated(0, m), 0), b) = 0 * b + 0
      <3>1. 0 \in Int
        OBVIOUS
      <3> QED
        BY <1>0, <1>2, <3>1, WeighSteps
    <2>3. 0 * b + 0 = 0 /\ m + 1 \in Nat
      OBVIOUS
    <2>4. Weigh(Repeated(0, m + 1), b) = Weigh(Append(Repeated(0, m), 0), b)
      BY ONLY <2>1
    <2> QED
      BY <2>2, <2>3, <2>4
  <1>3. Nat \subseteq Good
    <2> HIDE DEF Good
    <2> QED
      BY <1>1, <1>2, NatInductionOnSets
  <1> QED
    BY <1>0, <1>3

(* Leading zeros do not change what digits weigh: what padding with zeros  *)
(* rests on.                                                               *)
LEMMA LeadingZeros ==
  ASSUME NEW b \in Nat, NEW n \in Nat, NEW d \in Seq(Int)
  PROVE  Weigh(Repeated(0, n) \o d, b) = Weigh(d, b)
  <1>1. Repeated(0, n) \in Seq(Int) /\ Weigh(Repeated(0, n), b) = 0
    BY ZerosWeighNothing
  <1>2. Weigh(d, b) \in Int /\ Power(b, Len(d)) \in Nat
    <2>1. 0 \in Int /\ Len(d) \in Nat
      OBVIOUS
    <2> QED
      BY <2>1, WeighSteps, PowerSteps
  <1>3. Weigh(Repeated(0, n) \o d, b) = 0 * Power(b, Len(d)) + Weigh(d, b)
    BY <1>1, WeighConcat
  <1> QED
    BY <1>2, <1>3

(* A first digit.                                                          *)
LEMMA WeighFirst ==
  ASSUME NEW b \in Nat, NEW x \in Int, NEW d \in Seq(Int)
  PROVE  Weigh(<<x>> \o d, b) = x * Power(b, Len(d)) + Weigh(d, b)
  <1>1. <<>> \in Seq(Int) /\ <<x>> \in Seq(Int) /\ <<x>> = Append(<<>>, x)
    OBVIOUS
  <1>2. Weigh(Append(<<>>, x), b) = Weigh(<<>>, b) * b + x /\ Weigh(<<>>, b) = 0
    BY <1>1, WeighSteps
  <1>3. Weigh(<<x>>, b) = x
    BY <1>1, <1>2
  <1> QED
    BY <1>1, <1>3, WeighConcat

(* Digits of a base weigh less than the power of their number.             *)
LEMMA WeighBounds ==
  ASSUME NEW b \in Nat, b >= 2, NEW d \in Seq(0..b - 1)
  PROVE  Weigh(d, b) \in Nat /\ Weigh(d, b) < Power(b, Len(d)) /\ d \in Seq(Int)
  <1> DEFINE Good == {e \in Seq(0..b - 1) : Weigh(e, b) \in Nat /\ Weigh(e, b) + 1 <= Power(b, Len(e))}
  <1>0. \A e \in Seq(0..b - 1) : e \in Seq(Int) /\ Len(e) \in Nat
    OBVIOUS
  <1>1. <<>> \in Good
    <2>1. Len(<<>>) = 0 /\ <<>> \in Seq(Int) /\ <<>> \in Seq(0..b - 1) /\ 0 \in Int /\ 0 \in Nat
      OBVIOUS
    <2>2. Weigh(<<>>, b) = 0 /\ Power(b, 0) = 1
      BY <2>1, WeighSteps, PowerSteps
    <2> QED
      BY <2>1, <2>2
  <1>2. ASSUME NEW e \in Seq(0..b - 1), e \in Good, NEW x \in 0..b - 1 PROVE Append(e, x) \in Good
    <2>1. Append(e, x) \in Seq(0..b - 1) /\ Len(Append(e, x)) = Len(e) + 1 /\ x \in Int
      OBVIOUS
    <2>2. PICK p \in Nat : Power(b, Len(e)) = p /\ Power(b, Len(e) + 1) = p * b
      BY <1>0, PowerSteps
    <2>3. PICK w \in Nat : /\ Weigh(e, b) = w /\ w + 1 <= p
                           /\ Weigh(Append(e, x), b) = w * b + x
      BY <1>0, <1>2, <2>1, <2>2, WeighSteps
    <2>4. (w + 1) * b <= p * b /\ p * b \in Nat
      BY <2>3, ProductsGrow
    <2>5. (w + 1) * b = w * b + b /\ w * b \in Nat
      OBVIOUS
    <2>6. PICK v \in Nat, q \in Nat : v = w * b /\ q = p * b /\ v + b <= q
      BY <2>4, <2>5
    <2>7. v + b <= q /\ x + 1 <= b /\ x \in Nat
      BY <2>6
    <2>8. v + x \in Nat /\ v + x + 1 <= q
      BY <2>7
    <2> QED
      BY <2>1, <2>2, <2>3, <2>6, <2>8
  <1>3. Seq(0..b - 1) \subseteq Good
    <2> HIDE DEF Good
    <2> QED
      BY <1>1, <1>2, SequenceInduction
  <1>4. Weigh(d, b) \in Nat /\ Weigh(d, b) + 1 <= Power(b, Len(d))
    BY <1>3
  <1>5. Power(b, Len(d)) \in Nat
    BY <1>0, PowerSteps
  <1> QED
    BY <1>0, <1>4, <1>5

-----------------------------------------------------------------------------
(* The digits of a number.                                                 *)

(* Quotient and remainder, as BigInteger.DivRem gives them for a value     *)
(* that is not negative.                                                   *)
LEMMA DivMod ==
  ASSUME NEW b \in Nat \ {0}, NEW x \in Int
  PROVE  /\ x \div b \in Int /\ x % b \in 0..b - 1
         /\ x = b * (x \div b) + (x % b)
  OBVIOUS

(* A quotient is a smaller number.                                         *)
LEMMA Quotient ==
  ASSUME NEW b \in Nat, b >= 2, NEW v \in Nat
  PROVE  /\ v \div b \in Nat /\ v % b \in 0..b - 1
         /\ v = (v \div b) * b + (v % b)
         /\ v # 0 => v \div b < v
         /\ \A p \in Nat : v < p * b => v \div b < p
  <1>1. PICK q \in Int, r \in 0..b - 1 : q = v \div b /\ r = v % b /\ v = b * q + r
    BY DivMod
  <1>2. q >= 0
    <2> SUFFICES ASSUME q < 0 PROVE FALSE
      OBVIOUS
    <2>1. PICK m \in Nat : q = -1 - m
      <3>1. -1 - q \in Nat /\ q = -1 - (-1 - q)
        OBVIOUS
      <3> QED
        BY <3>1
    <2>2. b * q = -b - b * m /\ b * m \in Nat
      BY <2>1
    <2> QED
      BY <1>1, <2>2
  <1>3. q \in Nat /\ b * q = q * b
    BY <1>2
  <1>4. v # 0 => q < v
    <2>1. 2 * q <= b * q /\ b * q \in Nat
      BY <1>3, ProductsGrow
    <2>2. 2 * q <= v
      BY <1>1, <2>1
    <2> QED
      BY <1>3, <2>2
  <1>5. ASSUME NEW p \in Nat, v < p * b PROVE q < p
    <2> SUFFICES ASSUME p <= q PROVE FALSE
      BY <1>3
    <2>1. p * b <= q * b /\ p * b \in Nat /\ q * b \in Nat
      BY <1>3, ProductsGrow
    <2>2. q * b <= v
      BY <1>1, <1>3, <2>1
    <2> QED
      BY <1>5, <2>1, <2>2
  <1> QED
    BY <1>1, <1>3, <1>4, <1>5

(* The recursion of Expand, unfolded once and for all.                     *)
LEMMA ExpandUnfolds ==
  ASSUME NEW b \in Nat, b >= 2
  PROVE  \E R \in [Nat -> Seq(0..b - 1)] :
           /\ \A v \in Nat : Expand(v, b) = IF v = 0 THEN <<0>> ELSE R[v]
           /\ R[0] = <<>>
           /\ \A v \in Nat \ {0} : R[v] = Append(R[v \div b], v % b)
  <1> DEFINE A == Seq(0..b - 1)
             Is(f) == f = [v \in Nat |-> IF v = 0 THEN <<>> ELSE Append(f[v \div b], v % b)]
             R == CHOOSE f : Is(f)
             size == [v \in Nat |-> v]
             back == [v \in Nat |-> v \div b]
             start == [v \in Nat |-> <<>>]
             step == [p \in Nat \X A |-> Append(p[2], p[1] % b)]
  <1>1. \A v \in Nat : Expand(v, b) = IF v = 0 THEN <<0>> ELSE R[v]
    BY DEF Expand
  <1> HIDE DEF R
  <1>2. \A v \in Nat : v \div b \in Nat /\ v % b \in 0..b - 1 /\ (v # 0 => v \div b < v)
    BY Quotient
  <1>3. /\ size \in [Nat -> Nat] /\ back \in [Nat -> Nat] /\ start \in [Nat -> A]
        /\ \A v \in Nat : size[v] # 0 => size[back[v]] < size[v]
    BY <1>2
  <1>4. step \in [Nat \X A -> A]
    <2> SUFFICES ASSUME NEW v \in Nat, NEW s \in A PROVE Append(s, v % b) \in A
      OBVIOUS
    <2>1. v % b \in 0..b - 1
      BY <1>2
    <2> QED
      BY <2>1
  <1>5. PICK f \in [Nat -> A] : SizedFunction(f, Nat, size, back, start, step)
    <2> HIDE DEF A, size, back, start, step
    <2> QED
      BY <1>3, <1>4, SizedRecursion
  <1>6. ASSUME NEW v \in Nat PROVE f[v] = IF v = 0 THEN <<>> ELSE Append(f[v \div b], v % b)
    <2>1. f[v] = IF size[v] = 0 THEN start[v] ELSE step[<<v, f[back[v]]>>]
      BY <1>5 DEF SizedFunction
    <2>2. size[v] = v /\ back[v] = v \div b /\ start[v] = <<>> /\ f[v \div b] \in A
      BY <1>2
    <2>3. step[<<v, f[v \div b]>>] = Append(f[v \div b], v % b)
      BY <2>2
    <2> QED
      BY <2>1, <2>2, <2>3
  <1>7. Is(f)
    BY <1>6
  <1>8. R = [v \in Nat |-> IF v = 0 THEN <<>> ELSE Append(R[v \div b], v % b)]
    <2> HIDE DEF Is
    <2>1. Is(R)
      BY <1>7 DEF R
    <2> QED
      BY <2>1 DEF Is
  <1>9. R[0] = <<>> /\ \A v \in Nat \ {0} : R[v] = Append(R[v \div b], v % b)
    BY <1>8
  <1>10. ASSUME NEW v \in Nat PROVE R[v] \in A
    <2> DEFINE Good == {n \in Nat : R[n] \in A}
    <2>1. ASSUME NEW n \in Nat, Smaller(Nat, size, n) \subseteq Good PROVE n \in Good
      <3>1. CASE n = 0
        <4>1. R[n] = <<>> /\ <<>> \in A
          BY <1>9, <3>1
        <4> HIDE DEF A
        <4> QED
          BY <4>1
      <3>2. CASE n # 0
        <4>1. PICK q \in Nat, r \in 0..b - 1 : q = n \div b /\ r = n % b /\ q < n
          BY <1>2, <3>2
        <4>2. R[q] \in A
          BY <2>1, <4>1 DEF Smaller
        <4>3. R[n] = Append(R[q], r)
          BY <1>9, <3>2, <4>1
        <4>4. Append(R[q], r) \in A
          BY <4>2
        <4> HIDE DEF A
        <4> QED
          BY <4>3, <4>4
      <3> QED
        BY <3>1, <3>2
    <2>2. Nat \subseteq Good
      <3> HIDE DEF Good, size
      <3>1. Inherited(Nat, size, Good)
        BY <2>1 DEF Inherited
      <3> QED
        BY <1>3, <3>1, SizeInduction
    <2> QED
      BY <2>2
  <1>11. R \in [Nat -> A]
    BY <1>8, <1>10
  <1> QED
    BY <1>1, <1>9, <1>11

(* The digits of a number weigh that number, and there are no more of them *)
(* than it needs.                                                          *)
DigitsOf(R, b) ==
  /\ R[0] = <<>>
  /\ \A v \in Nat \ {0} : R[v] = Append(R[v \div b], v % b)
  /\ \A v \in Nat : R[v] \in Seq(0..b - 1) /\ R[v] \in Seq(Int) /\ Len(R[v]) \in Nat
  /\ \A v \in Nat \ {0} : Len(R[v]) # 0

(* A text of at most n digits that weighs v.                               *)
Weighs(text, v, n, b) == Len(text) <= n /\ Weigh(text, b) = v

(* No digits weigh nothing.                                                *)
LEMMA EmptyWeighs ==
  ASSUME NEW b \in Nat
  PROVE  Weigh(<<>>, b) = 0 /\ Power(b, 0) = 1 /\ <<>> \in Seq(Int) /\ Len(<<>>) = 0
  <1>1. 0 \in Nat /\ 0 \in Int /\ <<>> \in Seq(Int) /\ Len(<<>>) = 0
    OBVIOUS
  <1> QED
    BY <1>1, PowerSteps, WeighSteps

(* The digits that the recursion of Expand gives for v weigh v, and are at *)
(* most n where v is below the n-th power: induction on n, over all v at   *)
(* once.                                                                   *)
LEMMA DigitsWeigh ==
  ASSUME NEW b \in Nat, b >= 2, NEW R, DigitsOf(R, b), NEW n \in Nat, NEW v \in Nat, v < Power(b, n)
  PROVE  Weighs(R[v], v, n, b)
  <1> DEFINE Good == {m \in Nat : \A u \in Nat : u < Power(b, m) => Weighs(R[u], u, m, b)}
  <1>1. 0 \in Good
    <2>1. ASSUME NEW u \in Nat, u < Power(b, 0) PROVE Weighs(R[u], u, 0, b)
      <3>1. u = 0
        BY <2>1, EmptyWeighs
      <3>2. R[u] = <<>>
        BY <3>1 DEF DigitsOf
      <3> QED
        BY <3>1, <3>2, EmptyWeighs DEF Weighs
    <2> QED
      BY <2>1
  <1>2. ASSUME NEW m \in Nat, m \in Good PROVE m + 1 \in Good
    <2>1. ASSUME NEW u \in Nat, u < Power(b, m + 1) PROVE Weighs(R[u], u, m + 1, b)
      <3>1. CASE u = 0
        <4>1. R[u] = <<>> /\ 0 <= m + 1
          BY <3>1 DEF DigitsOf
        <4> QED
          BY <3>1, <4>1, EmptyWeighs DEF Weighs
      <3>2. CASE u # 0
        <4>1. Power(b, m) \in Nat /\ Power(b, m + 1) = Power(b, m) * b
          BY PowerSteps
        <4>2. PICK p \in Nat : p = Power(b, m) /\ u < p * b
          BY <2>1, <4>1
        <4>3. PICK q \in Nat, r \in 0..b - 1 : q = u \div b /\ r = u % b /\ u = q * b + r /\ q < p
          BY <4>2, Quotient
        <4>4. Weighs(R[q], q, m, b)
          BY <1>2, <4>2, <4>3
        <4>5. R[u] = Append(R[q], r) /\ R[q] \in Seq(Int) /\ Len(R[q]) \in Nat
          BY <3>2, <4>3 DEF DigitsOf
        <4>6. r \in Int
          OBVIOUS
        <4>7. Weigh(Append(R[q], r), b) = Weigh(R[q], b) * b + r /\ Len(Append(R[q], r)) = Len(R[q]) + 1
          BY <4>5, <4>6, WeighSteps
        <4>8. Weigh(R[u], b) = q * b + r /\ Len(R[u]) <= m + 1
          BY <4>4, <4>5, <4>7 DEF Weighs
        <4> QED
          BY <4>3, <4>8 DEF Weighs
      <3> QED
        BY <3>1, <3>2
    <2>2. m + 1 \in Nat
      OBVIOUS
    <2> QED
      BY <2>1, <2>2
  <1>3. Nat \subseteq Good
    <2> HIDE DEF Good
    <2> QED
      BY <1>1, <1>2, NatInductionOnSets
  <1> QED
    BY <1>3

(* Expand is inverse to Weigh, and gives as few digits as the value        *)
(* allows.                                                                 *)
LEMMA ExpandWeighs ==
  ASSUME NEW b \in Nat, b >= 2, NEW v \in Nat
  PROVE  /\ Expand(v, b) \in Seq(0..b - 1) /\ Expand(v, b) \in Seq(Int)
         /\ Len(Expand(v, b)) \in Nat \ {0}
         /\ Weigh(Expand(v, b), b) = v
         /\ \A n \in Nat \ {0} : Len(Expand(v, b)) <= n <=> v < Power(b, n)
  <1>1. PICK R : /\ \A u \in Nat : Expand(u, b) = IF u = 0 THEN <<0>> ELSE R[u]
                 /\ DigitsOf(R, b)
    <2>1. PICK f \in [Nat -> Seq(0..b - 1)] :
            /\ \A u \in Nat : Expand(u, b) = IF u = 0 THEN <<0>> ELSE f[u]
            /\ f[0] = <<>>
            /\ \A u \in Nat \ {0} : f[u] = Append(f[u \div b], u % b)
      BY ExpandUnfolds
    <2>2. \A u \in Nat : f[u] \in Seq(0..b - 1)
      OBVIOUS
    <2>3. ASSUME NEW s \in Seq(0..b - 1) PROVE s \in Seq(Int) /\ Len(s) \in Nat
      <3>1. \A d \in 0..b - 1 : d \in Int
        OBVIOUS
      <3>2. s \in Seq(Int)
        BY <3>1, WiderAlphabet
      <3> QED
        BY <3>2
    <2>4. ASSUME NEW u \in Nat \ {0} PROVE Len(f[u]) # 0
      <3>1. u \div b \in Nat /\ u % b \in 0..b - 1
        BY Quotient
      <3>2. PICK s \in Seq(0..b - 1), r \in 0..b - 1 : f[u] = Append(s, r)
        BY <2>1, <2>2, <3>1
      <3> QED
        BY <3>2
    <2> QED
      BY <2>1, <2>2, <2>3, <2>4 DEF DigitsOf
  <1>2. PICK e : e = Expand(v, b)
    OBVIOUS
  <1>3. /\ e \in Seq(0..b - 1) /\ e \in Seq(Int) /\ Len(e) \in Nat \ {0} /\ Weigh(e, b) = v
        /\ \A n \in Nat \ {0} : v < Power(b, n) => Len(e) <= n
    <2>1. CASE v = 0
      <3>1. e = <<0>>
        BY <1>1, <1>2, <2>1
      <3>2. e \in Seq(0..b - 1) /\ e \in Seq(Int) /\ Len(e) = 1 /\ e = Append(<<>>, 0)
        BY <3>1
      <3>3. Weigh(e, b) = 0 * b + 0
        <4>1. 0 \in Int
          OBVIOUS
        <4>2. Weigh(Append(<<>>, 0), b) = Weigh(<<>>, b) * b + 0
          BY <4>1, EmptyWeighs, WeighSteps
        <4> QED
          BY <3>2, <4>2, EmptyWeighs
      <3>4. 0 * b + 0 = 0
        OBVIOUS
      <3> QED
        BY <2>1, <3>2, <3>3, <3>4
    <2>2. CASE v # 0
      <3>1. e = R[v]
        BY <1>1, <1>2, <2>2
      <3>2. e \in Seq(0..b - 1) /\ e \in Seq(Int) /\ Len(e) \in Nat \ {0}
        BY <1>1, <2>2, <3>1 DEF DigitsOf
      <3>3. v < Power(b, v)
        <4>1. Power(b, v) \in Nat /\ Power(b, v) >= v + 1
          BY PowersGrow
        <4> QED
          BY <4>1
      <3>4. Weigh(e, b) = v
        BY <1>1, <3>1, <3>3, DigitsWeigh DEF Weighs
      <3>5. ASSUME NEW n \in Nat \ {0}, v < Power(b, n) PROVE Len(e) <= n
        BY <1>1, <3>1, <3>5, DigitsWeigh DEF Weighs
      <3> QED
        BY <3>2, <3>4, <3>5
    <2> QED
      BY <2>1, <2>2
  <1>4. ASSUME NEW n \in Nat \ {0}, Len(e) <= n PROVE v < Power(b, n)
    <2>1. v < Power(b, Len(e))
      BY <1>3, WeighBounds
    <2>2. Power(b, Len(e)) <= Power(b, n) /\ Power(b, n) \in Nat /\ Power(b, Len(e)) \in Nat
      BY <1>3, <1>4, PowersMonotone, PowerSteps
    <2> QED
      BY <2>1, <2>2
  <1> QED
    BY <1>2, <1>3, <1>4

-----------------------------------------------------------------------------
(* The trits of a number.                                                  *)

(* The characters of balanced trits.                                       *)
TritChars == {Minus, 0, Plus}

(* One step of FormatBalancedTernary: what is left of a value, and the     *)
(* trit it gives.                                                          *)
Third(v) == IF v % 3 = 0 THEN v \div 3 ELSE IF v % 3 = 1 THEN (v - 1) \div 3 ELSE (v + 1) \div 3
LastTrit(v) == IF v % 3 = 0 THEN 0 ELSE IF v % 3 = 1 THEN Plus ELSE Minus

(* The values of a text of trits.                                          *)
TritsOf(text) == [k \in DOMAIN text |-> TritOf(text[k])]

(* The three trits, and their values.                                      *)
LEMMA TritOfChar ==
  TritOf(Plus) = 1 /\ TritOf(Minus) = -1 /\ TritOf(0) = 0 /\ Plus # Minus /\ Plus # 0 /\ Minus # 0
  BY DEF TritOf, Plus, Minus

(* A number is three times its third and a trit.                           *)
LEMMA Thirds ==
  ASSUME NEW v \in Int
  PROVE  /\ v % 3 \in 0..2
         /\ Third(v) \in Int /\ LastTrit(v) \in TritChars
         /\ TritOf(LastTrit(v)) \in {-1, 0, 1}
         /\ v = Third(v) * 3 + TritOf(LastTrit(v))
         /\ v # 0 => Magnitude(Third(v)) < Magnitude(v)
  <1>1. /\ v % 3 \in 0..2
        /\ v % 3 = 0 => v = (v \div 3) * 3 /\ v \div 3 \in Int
        /\ v % 3 = 1 => v - 1 = ((v - 1) \div 3) * 3 /\ (v - 1) \div 3 \in Int
        /\ v % 3 = 2 => v + 1 = ((v + 1) \div 3) * 3 /\ (v + 1) \div 3 \in Int
    OBVIOUS
  <1>2. PICK w \in Int, t \in {-1, 0, 1} :
          w = Third(v) /\ t = TritOf(LastTrit(v)) /\ v = w * 3 + t /\ LastTrit(v) \in TritChars
    BY <1>1, TritOfChar DEF Third, LastTrit, TritChars
  <1>3. v # 0 => Magnitude(w) < Magnitude(v)
    BY <1>2 DEF Magnitude
  <1> QED
    BY <1>1, <1>2, <1>3

(* The recursion of FormatBalancedTernary, unfolded once and for all.      *)
LEMMA BalancedUnfolds ==
  \E R \in [Int -> Seq(TritChars)] :
    /\ \A v \in Int : FormatBalancedTernary(v) = IF v = 0 THEN <<0>> ELSE R[v]
    /\ R[0] = <<>>
    /\ \A v \in Int \ {0} : R[v] = Append(R[Third(v)], LastTrit(v))
  <1> DEFINE A == Seq(TritChars)
             next(f, v) == CASE v % 3 = 0 -> Append(f[v \div 3], 0)
                             [] v % 3 = 1 -> Append(f[(v - 1) \div 3], Plus)
                             [] v % 3 = 2 -> Append(f[(v + 1) \div 3], Minus)
             Is(f) == f = [v \in Int |-> IF v = 0 THEN <<>> ELSE next(f, v)]
             R == CHOOSE f : Is(f)
             size == [v \in Int |-> Magnitude(v)]
             back == [v \in Int |-> Third(v)]
             start == [v \in Int |-> <<>>]
             step == [p \in Int \X A |-> Append(p[2], LastTrit(p[1]))]
  <1>1. \A v \in Int : FormatBalancedTernary(v) = IF v = 0 THEN <<0>> ELSE R[v]
    BY DEF FormatBalancedTernary
  <1> HIDE DEF R
  <1>2. ASSUME NEW v \in Int, NEW f PROVE next(f, v) = Append(f[Third(v)], LastTrit(v))
    <2>1. v % 3 = 0 \/ v % 3 = 1 \/ v % 3 = 2
      BY Thirds
    <2>2. CASE v % 3 = 0
      BY <2>2 DEF Third, LastTrit
    <2>3. CASE v % 3 = 1
      BY <2>3 DEF Third, LastTrit
    <2>4. CASE v % 3 = 2
      BY <2>4 DEF Third, LastTrit
    <2> QED
      BY <2>1, <2>2, <2>3, <2>4
  <1> HIDE DEF next
  <1>3. \A v \in Int : Third(v) \in Int /\ LastTrit(v) \in TritChars /\ Magnitude(v) \in Nat
                       /\ (Magnitude(v) = 0 <=> v = 0)
                       /\ (v # 0 => Magnitude(Third(v)) < Magnitude(v))
    <2>1. \A v \in Int : Magnitude(v) \in Nat /\ (Magnitude(v) = 0 <=> v = 0)
      BY DEF Magnitude
    <2> QED
      BY <2>1, Thirds
  <1>4. /\ size \in [Int -> Nat] /\ back \in [Int -> Int] /\ start \in [Int -> A]
        /\ \A v \in Int : size[v] # 0 => size[back[v]] < size[v]
    BY <1>3
  <1>5. step \in [Int \X A -> A]
    <2> SUFFICES ASSUME NEW v \in Int, NEW s \in A PROVE Append(s, LastTrit(v)) \in A
      OBVIOUS
    <2>1. LastTrit(v) \in TritChars
      BY <1>3
    <2> QED
      BY <2>1
  <1>6. PICK f \in [Int -> A] : SizedFunction(f, Int, size, back, start, step)
    <2> HIDE DEF A, size, back, start, step
    <2> QED
      BY <1>4, <1>5, SizedRecursion
  <1>7. ASSUME NEW v \in Int PROVE f[v] = IF v = 0 THEN <<>> ELSE next(f, v)
    <2>1. f[v] = IF size[v] = 0 THEN start[v] ELSE step[<<v, f[back[v]]>>]
      BY <1>6 DEF SizedFunction
    <2>2. (size[v] = 0 <=> v = 0) /\ back[v] = Third(v) /\ start[v] = <<>> /\ f[Third(v)] \in A
      BY <1>3
    <2>3. step[<<v, f[Third(v)]>>] = Append(f[Third(v)], LastTrit(v))
      BY <2>2
    <2> QED
      BY <1>2, <2>1, <2>2, <2>3
  <1>8. Is(f)
    BY <1>7
  <1>9. R = [v \in Int |-> IF v = 0 THEN <<>> ELSE next(R, v)]
    <2> HIDE DEF Is
    <2>1. Is(R)
      BY <1>8 DEF R
    <2> QED
      BY <2>1 DEF Is
  <1>10. R[0] = <<>> /\ \A v \in Int \ {0} : R[v] = Append(R[Third(v)], LastTrit(v))
    <2>1. R[0] = <<>>
      BY <1>9
    <2>2. ASSUME NEW v \in Int, v # 0 PROVE R[v] = Append(R[Third(v)], LastTrit(v))
      <3>1. R[v] = next(R, v)
        BY <1>9, <2>2
      <3> QED
        BY <1>2, <3>1
    <2> QED
      BY <2>1, <2>2
  <1>11. ASSUME NEW v \in Int PROVE R[v] \in A
    <2> DEFINE Good == {n \in Int : R[n] \in A}
    <2>1. ASSUME NEW n \in Int, Smaller(Int, size, n) \subseteq Good PROVE n \in Good
      <3>1. CASE n = 0
        <4>1. R[n] = <<>> /\ <<>> \in A
          BY <1>10, <3>1
        <4> HIDE DEF A
        <4> QED
          BY <4>1
      <3>2. CASE n # 0
        <4>1. PICK q \in Int, r \in TritChars : q = Third(n) /\ r = LastTrit(n) /\ Magnitude(q) < Magnitude(n)
          BY <1>3, <3>2
        <4>2. R[q] \in A
          BY <2>1, <4>1 DEF Smaller
        <4>3. R[n] = Append(R[q], r)
          BY <1>10, <3>2, <4>1
        <4>4. Append(R[q], r) \in A
          BY <4>2
        <4> HIDE DEF A
        <4> QED
          BY <4>3, <4>4
      <3> QED
        BY <3>1, <3>2
    <2>2. Int \subseteq Good
      <3> HIDE DEF Good, size
      <3>1. Inherited(Int, size, Good)
        BY <2>1 DEF Inherited
      <3> QED
        BY <1>4, <3>1, SizeInduction
    <2> QED
      BY <2>2
  <1>12. R \in [Int -> A]
    BY <1>9, <1>11
  <1> QED
    BY <1>1, <1>10, <1>12

(* The trits of a longer text.                                             *)
LEMMA TritsOfAppend ==
  ASSUME NEW s \in Seq(TritChars), NEW c \in TritChars
  PROVE  /\ TritsOf(s) \in Seq(Int) /\ TritOf(c) \in {-1, 0, 1} /\ Len(TritsOf(s)) = Len(s)
         /\ TritsOf(Append(s, c)) = Append(TritsOf(s), TritOf(c))
         /\ TritsOf(<<>>) = <<>>
         /\ Append(s, c) \in Seq(TritChars) /\ Len(Append(s, c)) = Len(s) + 1 /\ Len(s) \in Nat
  <1>1. \A d \in TritChars : TritOf(d) \in {-1, 0, 1}
    BY TritOfChar DEF TritChars
  <1>2. \A k \in 1..Len(s) : s[k] \in TritChars
    OBVIOUS
  <1> HIDE DEF TritChars
  <1>3. TritsOf(s) \in Seq(Int) /\ Len(TritsOf(s)) = Len(s)
    BY <1>1, <1>2 DEF TritsOf
  <1>4. TritsOf(Append(s, c)) = Append(TritsOf(s), TritOf(c))
    BY DEF TritsOf
  <1>5. TritsOf(<<>>) = <<>>
    BY DEF TritsOf
  <1> QED
    BY <1>1, <1>3, <1>4, <1>5

(* A trit appended triples what was there and adds its value.              *)
LEMMA TritSteps ==
  ASSUME NEW digits \in Seq(Int), NEW x \in Int
  PROVE  Weigh(Append(digits, x), 3) = Weigh(digits, 3) * 3 + x /\ Weigh(digits, 3) \in Int
         /\ Weigh(<<>>, 3) = 0 /\ Weigh(Append(<<>>, 0), 3) = 0
  <1>1. PICK b \in Nat : b = 3
    OBVIOUS
  <1>2. /\ Weigh(Append(digits, x), b) = Weigh(digits, b) * b + x
        /\ Weigh(digits, b) \in Int /\ Weigh(<<>>, b) = 0
    BY WeighSteps
  <1>3. Weigh(Append(<<>>, 0), b) = Weigh(<<>>, b) * b + 0
    <2>1. <<>> \in Seq(Int) /\ 0 \in Int
      OBVIOUS
    <2> QED
      BY <2>1, WeighSteps
  <1>4. Weigh(Append(<<>>, 0), b) = 0
    BY <1>2, <1>3
  <1> QED
    BY <1>1, <1>2, <1>4

(* Twice a value is below 3^(n + 1) exactly when twice its third is below  *)
(* 3^n.                                                                    *)
LEMMA ThirdFits ==
  ASSUME NEW w \in Int, NEW t \in {-1, 0, 1}, NEW h \in Nat
  PROVE  2 * Magnitude(w * 3 + t) < 2 * (3 * h + 1) + 1 <=> 2 * Magnitude(w) < 2 * h + 1
  BY DEF Magnitude

(* A power of three is odd.                                                *)
LEMMA HalfPower ==
  ASSUME NEW n \in Nat
  PROVE  \E h \in Nat : Power(3, n) = 2 * h + 1 /\ Power(3, n + 1) = 2 * (3 * h + 1) + 1
  <1> DEFINE Good == {m \in Nat : \E h \in Nat : Power(3, m) = 2 * h + 1}
  <1>1. 0 \in Good
    <2>1. Power(3, 0) = 2 * 0 + 1
      BY PowerSteps
    <2> QED
      BY <2>1
  <1>2. ASSUME NEW m \in Nat, m \in Good PROVE m + 1 \in Good
    <2>1. PICK h \in Nat : Power(3, m) = 2 * h + 1
      BY <1>2
    <2>2. Power(3, m + 1) = Power(3, m) * 3
      BY PowerSteps
    <2>3. Power(3, m + 1) = 2 * (3 * h + 1) + 1 /\ 3 * h + 1 \in Nat /\ m + 1 \in Nat
      BY <2>1, <2>2
    <2> QED
      BY <2>3
  <1>3. Nat \subseteq Good
    <2> HIDE DEF Good
    <2> QED
      BY <1>1, <1>2, NatInductionOnSets
  <1>4. PICK h \in Nat : Power(3, n) = 2 * h + 1
    BY <1>3
  <1>5. Power(3, n + 1) = Power(3, n) * 3
    BY PowerSteps
  <1> QED
    BY <1>4, <1>5

(* Trits weigh less than half the power of their number.                   *)
LEMMA TritsBound ==
  ASSUME NEW text \in Seq(TritChars)
  PROVE  /\ Weigh(TritsOf(text), 3) \in Int
         /\ 2 * Magnitude(Weigh(TritsOf(text), 3)) < Power(3, Len(text))
  <1> DEFINE W(t) == Weigh(TritsOf(t), 3)
             Good == {t \in Seq(TritChars) : W(t) \in Int /\ 2 * Magnitude(W(t)) < Power(3, Len(t))}
  <1>1. <<>> \in Good
    <2>1. TritsOf(<<>>) = <<>> /\ <<>> \in Seq(TritChars)
      BY DEF TritsOf
    <2>2. W(<<>>) = 0 /\ Power(3, Len(<<>>)) = 1
      BY <2>1, EmptyWeighs
    <2>3. 2 * Magnitude(0) < 1
      BY DEF Magnitude
    <2> QED
      BY <2>1, <2>2, <2>3
  <1>2. ASSUME NEW s \in Seq(TritChars), s \in Good, NEW c \in TritChars PROVE Append(s, c) \in Good
    <2>1. PICK w \in Int, t \in {-1, 0, 1} : w = W(s) /\ t = TritOf(c) /\ W(Append(s, c)) = w * 3 + t
      <3>1. TritsOf(s) \in Seq(Int) /\ TritOf(c) \in {-1, 0, 1} /\ TritsOf(Append(s, c)) = Append(TritsOf(s), TritOf(c))
        BY TritsOfAppend
      <3>2. Weigh(Append(TritsOf(s), TritOf(c)), 3) = Weigh(TritsOf(s), 3) * 3 + TritOf(c) /\ TritOf(c) \in Int
        <4>1. TritOf(c) \in Int
          BY <3>1
        <4> QED
          BY <3>1, <4>1, TritSteps
      <3> QED
        BY <1>2, <3>1, <3>2
    <2>2. Append(s, c) \in Seq(TritChars) /\ Len(Append(s, c)) = Len(s) + 1 /\ Len(s) \in Nat
      BY TritsOfAppend
    <2>3. PICK h \in Nat : Power(3, Len(s)) = 2 * h + 1 /\ Power(3, Len(s) + 1) = 2 * (3 * h + 1) + 1
      BY <2>2, HalfPower
    <2>4. 2 * Magnitude(w) < 2 * h + 1
      BY <1>2, <2>1, <2>3
    <2>5. w * 3 + t \in Int
      OBVIOUS
    <2>6. 2 * Magnitude(w * 3 + t) < 2 * (3 * h + 1) + 1
      BY <2>4, ThirdFits
    <2> HIDE DEF W
    <2> QED
      BY <2>1, <2>2, <2>3, <2>5, <2>6
  <1>3. Seq(TritChars) \subseteq Good
    <2> HIDE DEF Good
    <2> QED
      BY <1>1, <1>2, SequenceInduction
  <1> QED
    BY <1>3

(* The trits of a number weigh that number, and there are no more of them  *)
(* than it needs.                                                          *)
LEMMA TritsWeigh ==
  ASSUME NEW R \in [Int -> Seq(TritChars)], R[0] = <<>>,
         \A v \in Int \ {0} : R[v] = Append(R[Third(v)], LastTrit(v)),
         NEW n \in Nat, NEW v \in Int, 2 * Magnitude(v) < Power(3, n)
  PROVE  Weigh(TritsOf(R[v]), 3) = v /\ Len(R[v]) <= n
  <1> DEFINE Fits(u, m) == Weigh(TritsOf(R[u]), 3) = u /\ Len(R[u]) <= m
             Good == {m \in Nat : \A u \in Int : 2 * Magnitude(u) < Power(3, m) => Fits(u, m)}
  <1>0. ASSUME NEW m \in Nat PROVE Fits(0, m)
    <2>1. R[0] = <<>> /\ TritsOf(<<>>) = <<>>
      BY DEF TritsOf
    <2> QED
      BY <2>1, EmptyWeighs
  <1>1. 0 \in Good
    <2>1. ASSUME NEW u \in Int, 2 * Magnitude(u) < Power(3, 0) PROVE u = 0
      <3>1. Power(3, 0) = 1
        BY EmptyWeighs
      <3> QED
        BY <2>1, <3>1 DEF Magnitude
    <2> HIDE DEF Fits
    <2> QED
      BY <1>0, <2>1
  <1>2. ASSUME NEW m \in Nat, m \in Good PROVE m + 1 \in Good
    <2>1. ASSUME NEW u \in Int, 2 * Magnitude(u) < Power(3, m + 1) PROVE Fits(u, m + 1)
      <3>1. CASE u = 0
        <4>1. m + 1 \in Nat
          OBVIOUS
        <4>2. Fits(0, m + 1)
          BY <1>0, <4>1
        <4> HIDE DEF Fits
        <4> QED
          BY <3>1, <4>2
      <3>2. CASE u # 0
        <4>1. PICK w \in Int, c \in TritChars, t \in {-1, 0, 1} :
                w = Third(u) /\ c = LastTrit(u) /\ t = TritOf(c) /\ u = w * 3 + t
          BY Thirds
        <4>2. PICK h \in Nat : Power(3, m) = 2 * h + 1 /\ Power(3, m + 1) = 2 * (3 * h + 1) + 1
          BY HalfPower
        <4>3. 2 * Magnitude(u) < 2 * (3 * h + 1) + 1
          BY <2>1, <4>2
        <4>4. 2 * Magnitude(w) < 2 * h + 1
          BY <4>1, <4>3, ThirdFits
        <4>5. Fits(w, m)
          BY <1>2, <4>2, <4>4
        <4>6. R[u] = Append(R[w], c) /\ R[w] \in Seq(TritChars)
          BY <3>2, <4>1
        <4>7. /\ TritsOf(R[w]) \in Seq(Int) /\ Len(R[u]) = Len(R[w]) + 1 /\ Len(R[w]) \in Nat
              /\ TritsOf(R[u]) = Append(TritsOf(R[w]), TritOf(c))
          BY <4>6, TritsOfAppend
        <4>8. t \in Int
          OBVIOUS
        <4>9. Weigh(TritsOf(R[u]), 3) = Weigh(TritsOf(R[w]), 3) * 3 + t
          <5>1. Weigh(Append(TritsOf(R[w]), t), 3) = Weigh(TritsOf(R[w]), 3) * 3 + t
            BY <4>7, <4>8, TritSteps
          <5> QED
            BY <4>1, <4>7, <5>1
        <4>10. Weigh(TritsOf(R[u]), 3) = w * 3 + t
          BY <4>5, <4>9
        <4>11. Len(R[u]) <= m + 1
          BY <4>5, <4>7
        <4> QED
          BY <4>1, <4>10, <4>11
      <3> QED
        BY <3>1, <3>2
    <2>2. m + 1 \in Nat
      OBVIOUS
    <2> HIDE DEF Fits
    <2> QED
      BY <2>1, <2>2
  <1>3. Nat \subseteq Good
    <2> HIDE DEF Good
    <2> QED
      BY <1>1, <1>2, NatInductionOnSets
  <1> QED
    BY <1>3

(* FormatBalancedTernary gives trits that weigh the value, as few as it    *)
(* allows.                                                                 *)
LEMMA BalancedWeighs ==
  ASSUME NEW v \in Int
  PROVE  LET text == FormatBalancedTernary(v)
         IN  /\ text \in Seq(TritChars) /\ Len(text) \in Nat \ {0}
             /\ Weigh(TritsOf(text), 3) = v
             /\ \A n \in Nat \ {0} : Len(text) <= n <=> 2 * Magnitude(v) < Power(3, n)
  <1>1. PICK R \in [Int -> Seq(TritChars)] :
          /\ \A u \in Int : FormatBalancedTernary(u) = IF u = 0 THEN <<0>> ELSE R[u]
          /\ R[0] = <<>>
          /\ \A u \in Int \ {0} : R[u] = Append(R[Third(u)], LastTrit(u))
    BY BalancedUnfolds
  <1>2. PICK e : e = FormatBalancedTernary(v)
    OBVIOUS
  <1>3. /\ e \in Seq(TritChars) /\ Len(e) \in Nat \ {0} /\ Weigh(TritsOf(e), 3) = v
        /\ \A n \in Nat \ {0} : 2 * Magnitude(v) < Power(3, n) => Len(e) <= n
    <2>1. CASE v = 0
      <3>1. e = <<0>> /\ 0 \in TritChars /\ <<>> \in Seq(TritChars)
        BY <1>1, <1>2, <2>1 DEF TritChars
      <3>2. e = Append(<<>>, 0) /\ e \in Seq(TritChars) /\ Len(e) = 1
        BY <3>1
      <3>3. TritsOf(Append(<<>>, 0)) = Append(<<>>, 0)
        BY <3>1, TritsOfAppend, TritOfChar
      <3>4. Weigh(Append(<<>>, 0), 3) = 0
        <4>1. 0 \in Int
          OBVIOUS
        <4> QED
          BY <4>1, EmptyWeighs, TritSteps
      <3>5. Weigh(TritsOf(e), 3) = v
        BY <2>1, <3>2, <3>3, <3>4
      <3> QED
        BY <3>2, <3>5
    <2>2. CASE v # 0
      <3>1. e = R[v] /\ e \in Seq(TritChars)
        BY <1>1, <1>2, <2>2
      <3>2. Len(e) \in Nat \ {0}
        <4>1. Third(v) \in Int /\ LastTrit(v) \in TritChars /\ e = Append(R[Third(v)], LastTrit(v))
          BY <1>1, <2>2, <3>1, Thirds
        <4>2. R[Third(v)] \in Seq(TritChars)
          BY <4>1
        <4>3. Len(e) = Len(R[Third(v)]) + 1 /\ Len(R[Third(v)]) \in Nat
          BY <4>1, <4>2, TritsOfAppend
        <4> QED
          BY <4>3
      <3>3. PICK n \in Nat : 2 * Magnitude(v) < Power(3, n)
        <4>1. 2 * Magnitude(v) \in Nat
          BY DEF Magnitude
        <4>2. PICK n \in Nat, b \in Nat : n = 2 * Magnitude(v) /\ b = 3 /\ b >= 2
          BY <4>1
        <4>3. Power(b, n) \in Nat /\ Power(b, n) >= n + 1
          BY <4>2, PowersGrow
        <4> QED
          BY <4>2, <4>3
      <3>4. Weigh(TritsOf(e), 3) = v
        BY <1>1, <3>1, <3>3, TritsWeigh
      <3>5. ASSUME NEW m \in Nat \ {0}, 2 * Magnitude(v) < Power(3, m) PROVE Len(e) <= m
        BY <1>1, <3>1, <3>5, TritsWeigh
      <3> QED
        BY <3>1, <3>2, <3>4, <3>5
    <2> QED
      BY <2>1, <2>2
  <1>4. ASSUME NEW n \in Nat \ {0}, Len(e) <= n PROVE 2 * Magnitude(v) < Power(3, n)
    <2>1. 2 * Magnitude(v) < Power(3, Len(e))
      BY <1>3, TritsBound
    <2>2. Power(3, Len(e)) <= Power(3, n) /\ Power(3, n) \in Nat /\ Power(3, Len(e)) \in Nat
      BY <1>3, <1>4, PowersMonotone, PowerSteps
    <2>3. 2 * Magnitude(v) \in Nat
      BY DEF Magnitude
    <2> QED
      BY <2>1, <2>2, <2>3
  <1> QED
    BY <1>2, <1>3, <1>4

-----------------------------------------------------------------------------
(* Texts.                                                                  *)

(* An element of a text is of the text's alphabet.                         *)
LEMMA ElementIs ==
  ASSUME NEW D, NEW s \in Seq(D), NEW k \in DOMAIN s
  PROVE  s[k] \in D
  OBVIOUS

(* A text is no error.                                                     *)
LEMMA TextIsNotThrown ==
  ASSUME NEW text \in Seq(Characters), text # <<>>
  PROVE  text # Thrown
  <1>1. 1 \in DOMAIN text
    OBVIOUS
  <1>2. text[1] \in Characters
    BY <1>1
  <1>3. \A c \in Characters : c # -1
    BY DEF Characters
  <1>4. Thrown[1] = -1
    BY DEF Thrown
  <1> QED
    BY <1>2, <1>3, <1>4

(* Texts with the same characters are the same.                            *)
LEMMA SameText ==
  ASSUME NEW D, NEW s \in Seq(D), NEW E, NEW t \in Seq(E), Len(s) = Len(t),
         \A k \in 1..Len(s) : s[k] = t[k]
  PROVE  s = t
  OBVIOUS

(* A text with n characters c before it.                                   *)
Padded(c, n, s) == Repeated(c, n) \o s

(* p is s with n characters c before it, character by character.           *)
IsPadded(p, c, n, s, D) ==
  /\ p \in Seq(D) /\ Len(p) = n + Len(s) /\ Len(s) \in Nat
  /\ \A k \in 1..n + Len(s) : p[k] = IF k <= n THEN c ELSE s[k - n]

(* Padded gives what IsPadded says.                                        *)
LEMMA PaddedIs ==
  ASSUME NEW D, NEW c \in D, NEW s \in Seq(D), NEW n \in Nat
  PROVE  IsPadded(Padded(c, n, s), c, n, s, D)
  <1>1. Repeated(c, n) \in Seq(D) /\ Len(Repeated(c, n)) = n /\ \A k \in 1..n : Repeated(c, n)[k] = c
    BY DEF Repeated
  <1> QED
    BY <1>1 DEF Padded, IsPadded

(* PadLeft pads with the characters that are missing.                      *)
LEMMA PadLeftIs ==
  ASSUME NEW D, NEW c, NEW s \in Seq(D), NEW n
  PROVE  PadLeft(s, n, c) = Padded(c, n - Len(s), s)
  BY DEF PadLeft, Padded, Repeated

(* Digits padded with zeros weigh what they did.                           *)
LEMMA PaddedWeighs ==
  ASSUME NEW b \in Nat, NEW n \in Nat, NEW d \in Seq(Int)
  PROVE  Weigh(Padded(0, n, d), b) = Weigh(d, b)
  BY LeadingZeros DEF Padded

-----------------------------------------------------------------------------
(* Digits as characters, in the radices without a sign.                    *)

(* A text that is read, and what as.                                       *)
Reads(text, radix, value) ==
  /\ text \in Seq(Characters) /\ text # <<>>
  /\ Parses(text, radix) /\ Parse(text, radix) = value

(* The values of a text of digits.                                         *)
ValuesOf(text, radix) == [k \in DOMAIN text |-> ValueOfDigit(text[k], radix)]

(* The bases of the unsigned radices.                                      *)
LEMMA Bases ==
  ASSUME NEW radix \in Unsigned
  PROVE  /\ Base(radix) \in Nat /\ Base(radix) >= 2 /\ Base(radix) <= 64
         /\ radix # "Base64Rfc4648" => Base(radix) <= 27
         /\ radix = "Base64Rfc4648" => Base(radix) = 64
         /\ radix = "Base16Unsigned" => Base(radix) = 16
  BY DEF Unsigned, Base

(* Each digit of Base64 has a character, which has the digit's value.      *)
LEMMA Digits64 ==
  ASSUME NEW d \in 0..63
  PROVE  CharOfDigit(d, "Base64Rfc4648") \in 0..63 /\ ValueOf64(CharOfDigit(d, "Base64Rfc4648")) = d
  <1> DEFINE c == CHOOSE c \in 0..63 : ValueOf64(c) = d
  <1>1. \E e \in 0..63 : ValueOf64(e) = d
    <2>1. CASE d <= 51
      <3>1. d + 10 \in 0..63 /\ ValueOf64(d + 10) = d
        BY <2>1 DEF ValueOf64
      <3> QED
        BY <3>1
    <2>2. CASE d > 51 /\ d <= 61
      <3>1. d - 52 \in 0..63 /\ ValueOf64(d - 52) = d
        BY <2>2 DEF ValueOf64
      <3> QED
        BY <3>1
    <2>3. CASE d > 61
      <3>1. ValueOf64(d) = d
        BY <2>3 DEF ValueOf64
      <3> QED
        BY <3>1
    <2> QED
      BY <2>1, <2>2, <2>3
  <1>2. c \in 0..63 /\ ValueOf64(c) = d
    BY <1>1
  <1>3. CharOfDigit(d, "Base64Rfc4648") = c
    BY DEF CharOfDigit
  <1> HIDE DEF c
  <1> QED
    BY <1>2, <1>3

(* The character of a digit is read as that digit.                         *)
LEMMA DigitReads ==
  ASSUME NEW radix \in Unsigned, NEW d \in 0..Base(radix) - 1
  PROVE  /\ CharOfDigit(d, radix) \in Characters
         /\ ValueOfDigit(CharOfDigit(d, radix), radix) = d /\ d # NoDigit
         /\ radix # "Base64Rfc4648" => CharOfDigit(d, radix) = d
  <1>1. CASE radix = "Base64Rfc4648"
    <2>1. d \in 0..63 /\ Base(radix) = 64
      BY <1>1, Bases
    <2>2. PICK c \in 0..63 : c = CharOfDigit(d, radix) /\ ValueOf64(c) = d
      BY <1>1, <2>1, Digits64
    <2>3. ValueOfDigit(c, radix) = d
      BY <1>1, <2>1, <2>2 DEF ValueOfDigit
    <2> QED
      BY <1>1, <2>1, <2>2, <2>3 DEF Characters, NoDigit
  <1>2. CASE radix # "Base64Rfc4648"
    <2>1. CharOfDigit(d, radix) = d /\ Base(radix) \in Nat /\ Base(radix) <= 27
      BY <1>2, Bases DEF CharOfDigit
    <2>2. ValueOfDigit(d, radix) = d
      <3>1. CASE radix = "Base16Unsigned"
        <4>1. Base(radix) = 16
          BY <3>1, Bases
        <4> QED
          BY <3>1, <4>1 DEF ValueOfDigit, ValueOfHex
      <3>2. CASE radix # "Base16Unsigned"
        BY <1>2, <2>1, <3>2 DEF ValueOfDigit
      <3> QED
        BY <3>1, <3>2
    <2> QED
      BY <1>2, <2>1, <2>2 DEF Characters, NoDigit
  <1> QED
    BY <1>1, <1>2

(* A text reads as the weight of its digits.                               *)
LEMMA UnsignedReads ==
  ASSUME NEW radix \in Unsigned, NEW text \in Seq(Characters), text # <<>>,
         ValuesOf(text, radix) \in Seq(0..Base(radix) - 1)
  PROVE  Reads(text, radix, Weigh(ValuesOf(text, radix), Base(radix)))
  <1>1. Parse(text, radix) = Weigh(ValuesOf(text, radix), Base(radix))
    BY DEF Parse, ValuesOf, Unsigned
  <1>2. ASSUME NEW k \in DOMAIN text PROVE ValueOfDigit(text[k], radix) # NoDigit
    <2>1. k \in DOMAIN ValuesOf(text, radix) /\ ValuesOf(text, radix)[k] = ValueOfDigit(text[k], radix)
      BY DEF ValuesOf
    <2>2. ValuesOf(text, radix)[k] \in 0..Base(radix) - 1
      BY <2>1, ElementIs
    <2>3. Base(radix) \in Nat /\ Base(radix) <= 64
      BY Bases
    <2> QED
      BY <2>1, <2>2, <2>3 DEF NoDigit
  <1>3. Parses(text, radix)
    BY <1>2 DEF Parses, HasDigits, Unsigned
  <1> QED
    BY <1>1, <1>3 DEF Reads

(* A number without a sign, and zeros before it.                           *)
LEMMA UnsignedFormats ==
  ASSUME NEW radix \in Unsigned, NEW v \in Nat, NEW n \in Nat, n = 0 \/ radix # "Base64Rfc4648"
  PROVE  LET text == Formatted(v, radix)
         IN  /\ Reads(Padded(0, n, text), radix, v)
             /\ text \in Seq(Characters) /\ Len(text) \in Nat \ {0} /\ text # Thrown
             /\ \A m \in Nat \ {0} : Len(text) <= m <=> v < Power(Base(radix), m)
  <1>1. PICK b \in Nat : b = Base(radix) /\ b >= 2 /\ b <= 64
    BY Bases
  <1>2. PICK d \in Seq(0..b - 1) :
          /\ d = Expand(v, b) /\ d \in Seq(Int) /\ Len(d) \in Nat \ {0} /\ Weigh(d, b) = v
          /\ \A m \in Nat \ {0} : Len(d) <= m <=> v < Power(b, m)
    BY <1>1, ExpandWeighs
  <1>3. PICK text : text = [k \in DOMAIN d |-> CharOfDigit(d[k], radix)]
    OBVIOUS
  <1>4. Formatted(v, radix) = text
    BY <1>1, <1>2, <1>3 DEF Formatted, Unsigned
  <1>5. \A k \in DOMAIN d : d[k] \in 0..b - 1
    BY <1>2
  <1>6. /\ \A k \in DOMAIN d : CharOfDigit(d[k], radix) \in Characters
        /\ \A k \in DOMAIN d : ValueOfDigit(CharOfDigit(d[k], radix), radix) = d[k]
    BY <1>1, <1>5, DigitReads
  <1>7. text \in Seq(Characters) /\ Len(text) = Len(d) /\ DOMAIN text = DOMAIN d
    BY <1>3, <1>6
  <1>8. PICK padded : padded = Padded(0, n, text)
    OBVIOUS
  <1>9. /\ padded \in Seq(Characters) /\ Len(padded) = n + Len(d) /\ n + Len(d) \in Nat \ {0}
        /\ padded # <<>>
        /\ \A k \in 1..n + Len(d) : padded[k] = IF k <= n THEN 0 ELSE text[k - n]
    <2>1. 0 \in Characters
      BY DEF Characters
    <2>2. /\ padded \in Seq(Characters) /\ Len(padded) = n + Len(d)
          /\ \A k \in 1..n + Len(d) : padded[k] = IF k <= n THEN 0 ELSE text[k - n]
      <3>1. IsPadded(padded, 0, n, text, Characters)
        BY <1>7, <1>8, <2>1, PaddedIs
      <3> QED
        BY <1>7, <3>1 DEF IsPadded
    <2>3. n + Len(d) \in Nat \ {0}
      BY <1>2
    <2> QED
      BY <2>2, <2>3
  <1>10. n > 0 => ValueOfDigit(0, radix) = 0
    <2>1. ASSUME n > 0 PROVE ValueOfDigit(0, radix) = 0
      <3>1. radix # "Base64Rfc4648" /\ 0 \in 0..Base(radix) - 1
        BY <1>1, <2>1
      <3> QED
        BY <3>1, DigitReads
    <2> QED
      BY <2>1
  <1>11. PICK e : e = Padded(0, n, d)
    OBVIOUS
  <1>12. /\ e \in Seq(0..b - 1) /\ Len(e) = n + Len(d)
         /\ \A k \in 1..n + Len(d) : e[k] = IF k <= n THEN 0 ELSE d[k - n]
    <2>1. 0 \in 0..b - 1
      BY <1>1
    <2>2. IsPadded(e, 0, n, d, 0..b - 1)
      BY <1>11, <2>1, PaddedIs
    <2> QED
      BY <2>2 DEF IsPadded
  <1>16. ValuesOf(padded, radix) = e
    <2>1. ASSUME NEW k \in 1..n + Len(d) PROVE ValueOfDigit(padded[k], radix) = e[k]
      <3>1. CASE k <= n
        <4>1. padded[k] = 0 /\ e[k] = 0 /\ n > 0
          BY <1>9, <1>12, <3>1
        <4> QED
          BY <1>10, <4>1
      <3>2. CASE ~(k <= n)
        <4>1. k - n \in DOMAIN d
          BY <1>2, <3>2
        <4>2. padded[k] = text[k - n] /\ e[k] = d[k - n]
          BY <1>9, <1>12, <3>2
        <4> QED
          BY <1>3, <1>6, <4>1, <4>2
      <3> QED
        BY <3>1, <3>2
    <2>2. DOMAIN padded = 1..n + Len(d) /\ DOMAIN e = 1..n + Len(d)
      BY <1>9, <1>12
    <2>3. ValuesOf(padded, radix) = [k \in 1..n + Len(d) |-> e[k]]
      BY <2>1, <2>2 DEF ValuesOf
    <2>4. e = [k \in DOMAIN e |-> e[k]]
      BY <1>12
    <2> QED
      BY <2>2, <2>3, <2>4
  <1>13. Reads(padded, radix, Weigh(e, b))
    BY <1>1, <1>9, <1>12, <1>16, UnsignedReads
  <1>14. Weigh(e, b) = v
    BY <1>2, <1>11, PaddedWeighs
  <1>15. text # Thrown
    <2>1. 1 \in DOMAIN text
      BY <1>2, <1>7
    <2>2. text[1] \in Characters
      BY <1>7, <2>1, ElementIs
    <2>3. Thrown[1] = -1
      BY DEF Thrown
    <2>4. text[1] # -1
      <3>1. \A c \in Characters : c # -1
        BY DEF Characters
      <3> QED
        BY <2>2, <3>1
    <2> QED
      BY <2>3, <2>4
  <1> QED
    BY <1>1, <1>2, <1>4, <1>7, <1>8, <1>13, <1>14, <1>15

-----------------------------------------------------------------------------
(* Complements of the digits.                                              *)

(* Where the digits are the first characters.                              *)
LEMMA PlainDigits ==
  ASSUME NEW radix, radix # "Base64Rfc4648", radix # "Base16Unsigned",
         NEW b \in Nat, b = Base(radix), b <= 64, NEW text \in Seq(0..b - 1), text # <<>>
  PROVE  HasDigits(text, radix) /\ text \in Seq(Characters)
  <1>1. ASSUME NEW c \in 0..b - 1 PROVE ValueOfDigit(c, radix) = c /\ c # NoDigit /\ c \in Characters
    <2>1. ValueOfDigit(c, radix) = c
      BY DEF ValueOfDigit
    <2>2. c # NoDigit /\ c \in Characters
      BY DEF NoDigit, Characters
    <2> QED
      BY <2>1, <2>2
  <1>2. \A k \in DOMAIN text : text[k] \in 0..b - 1
    OBVIOUS
  <1>3. \A k \in DOMAIN text : ValueOfDigit(text[k], radix) # NoDigit
    BY <1>1, <1>2
  <1>4. \A k \in DOMAIN text : text[k] \in Characters
    BY <1>1, <1>2
  <1>5. text \in Seq(Characters)
    BY <1>4
  <1> QED
    BY <1>3, <1>5 DEF HasDigits

(* A first digit before others.                                            *)
IsFirst(t, s, d, D) ==
  /\ t \in Seq(D) /\ t # <<>> /\ Len(t) = Len(d) + 1 /\ Len(d) \in Nat
  /\ t[1] = s /\ \A k \in 1..Len(d) : t[k + 1] = d[k]
  /\ Tail(t) = d

(* A character put before a text is its first, and the text the rest.      *)
LEMMA FirstIs ==
  ASSUME NEW D, NEW s \in D, NEW d \in Seq(D)
  PROVE  IsFirst(<<s>> \o d, s, d, D)
  <1>1. <<s>> \o d \in Seq(D)
    OBVIOUS
  <1>2. Len(<<s>> \o d) = Len(d) + 1 /\ Len(d) \in Nat
    OBVIOUS
  <1>3. (<<s>> \o d)[1] = s
    OBVIOUS
  <1>4. \A k \in 1..Len(d) : (<<s>> \o d)[k + 1] = d[k]
    OBVIOUS
  <1>5. Tail(<<s>> \o d) = d
    OBVIOUS
  <1>6. <<s>> \o d # <<>>
    OBVIOUS
  <1> QED
    BY <1>1, <1>2, <1>3, <1>4, <1>5, <1>6 DEF IsFirst

(* A sign repeated before a signed text goes on between the sign and the   *)
(* digits.                                                                 *)
LEMMA FirstPadded ==
  ASSUME NEW D, NEW s \in D, NEW d \in Seq(D), NEW n \in Nat
  PROVE  Padded(s, n, <<s>> \o d) = <<s>> \o Padded(s, n, d)
  <1>1. PICK t : t = <<s>> \o d /\ t \in Seq(D) /\ Len(t) = Len(d) + 1 /\ Len(d) \in Nat
                 /\ t[1] = s /\ \A k \in 1..Len(d) : t[k + 1] = d[k]
    <2>1. IsFirst(<<s>> \o d, s, d, D)
      BY FirstIs
    <2> QED
      BY <2>1 DEF IsFirst
  <1>2. PICK p : p = Padded(s, n, t) /\ IsPadded(p, s, n, t, D)
    BY <1>1, PaddedIs
  <1>3. PICK q : q = Padded(s, n, d) /\ IsPadded(q, s, n, d, D)
    BY PaddedIs
  <1>4. /\ q \in Seq(D) /\ Len(q) = n + Len(d)
        /\ \A k \in 1..n + Len(d) : q[k] = IF k <= n THEN s ELSE d[k - n]
    BY <1>3 DEF IsPadded
  <1>5. /\ p \in Seq(D) /\ Len(p) = n + Len(d) + 1
        /\ \A k \in 1..n + Len(d) + 1 : p[k] = IF k <= n THEN s ELSE t[k - n]
    BY <1>1, <1>2 DEF IsPadded
  <1>6. PICK r : r = <<s>> \o q /\ r \in Seq(D) /\ Len(r) = n + Len(d) + 1 /\ r[1] = s
                 /\ \A k \in 1..n + Len(d) : r[k + 1] = q[k]
    <2>1. IsFirst(<<s>> \o q, s, q, D)
      BY <1>4, FirstIs
    <2> QED
      BY <1>4, <2>1 DEF IsFirst
  <1>7. ASSUME NEW k \in 1..n + Len(d) + 1 PROVE p[k] = r[k]
    <2>1. CASE k = 1
      <3>1. p[1] = s
        BY <1>1, <1>5
      <3> QED
        BY <1>6, <2>1, <3>1
    <2>2. CASE k # 1
      <3>0. k - 1 \in 1..n + Len(d) /\ (k - 1) + 1 = k
        BY <1>1, <2>2
      <3>1. r[k] = q[k - 1] /\ k - 1 \in 1..n + Len(d)
        BY <1>6, <3>0
      <3>2. q[k - 1] = IF k - 1 <= n THEN s ELSE d[k - 1 - n]
        BY <1>4, <3>1
      <3>3. p[k] = IF k <= n THEN s ELSE t[k - n]
        BY <1>5
      <3>4. k > n + 1 => t[k - n] = d[k - 1 - n]
        <4>1. k > n + 1 => k - 1 - n \in 1..Len(d) /\ (k - 1 - n) + 1 = k - n
          BY <1>1
        <4> QED
          BY <1>1, <4>1
      <3>5. k = n + 1 => t[k - n] = s
        BY <1>1
      <3> QED
        BY <3>1, <3>2, <3>3, <3>4, <3>5
    <2> QED
      BY <2>1, <2>2
  <1>8. p = r
    BY <1>5, <1>6, <1>7, SameText
  <1> QED
    BY <1>1, <1>2, <1>3, <1>6, <1>8

(* The digits that Flip gives.                                             *)
LEMMA FlipStep ==
  ASSUME NEW b \in Nat, NEW d \in Seq(0..b - 1)
  PROVE  /\ Flip(d, b) \in Seq(0..b - 1) /\ Len(Flip(d, b)) = Len(d)
         /\ \A k \in 1..Len(d) : Flip(d, b)[k] = b - 1 - d[k]
  <1>1. \A k \in 1..Len(d) : b - 1 - d[k] \in 0..b - 1
    <2>1. \A k \in 1..Len(d) : d[k] \in 0..b - 1
      OBVIOUS
    <2> QED
      BY <2>1
  <1>2. Flip(d, b) = [k \in 1..Len(d) |-> b - 1 - d[k]]
    BY DEF Flip
  <1>3. Len(d) \in Nat
    OBVIOUS
  <1>4. \A e : e = [k \in 1..Len(d) |-> b - 1 - d[k]] =>
                 e \in Seq(0..b - 1) /\ Len(e) = Len(d) /\ \A k \in 1..Len(d) : e[k] = b - 1 - d[k]
    BY <1>1, <1>3
  <1> QED
    BY <1>2, <1>4

(* Flipping twice gives the digits back.                                   *)
LEMMA FlipIs ==
  ASSUME NEW b \in Nat, NEW d \in Seq(0..b - 1)
  PROVE  Flip(d, b) \in Seq(0..b - 1) /\ Len(Flip(d, b)) = Len(d) /\ Flip(Flip(d, b), b) = d
  <1>1. \A k \in 1..Len(d) : d[k] \in 0..b - 1 /\ b - 1 - d[k] \in 0..b - 1 /\ b - 1 - (b - 1 - d[k]) = d[k]
    OBVIOUS
  <1>2. PICK e : e = Flip(d, b) /\ e \in Seq(0..b - 1) /\ Len(e) = Len(d)
                 /\ \A k \in 1..Len(d) : e[k] = b - 1 - d[k]
    BY FlipStep
  <1>3. PICK f : f = Flip(e, b) /\ f \in Seq(0..b - 1) /\ Len(f) = Len(d)
                 /\ \A k \in 1..Len(d) : f[k] = b - 1 - e[k]
    BY <1>2, FlipStep
  <1>4. \A k \in 1..Len(d) : f[k] = d[k]
    BY <1>1, <1>2, <1>3
  <1>5. f = d
    BY <1>3, <1>4, SameText
  <1> QED
    BY <1>2, <1>3, <1>5

(* Flipped digits of the sign become zeros.                                *)
LEMMA FlipPadded ==
  ASSUME NEW b \in Nat \ {0}, NEW d \in Seq(0..b - 1), NEW n \in Nat
  PROVE  Flip(Padded(b - 1, n, d), b) = Padded(0, n, Flip(d, b))
  <1>0. b - 1 \in 0..b - 1 /\ 0 \in 0..b - 1
    OBVIOUS
  <1>1. PICK p : p = Padded(b - 1, n, d) /\ IsPadded(p, b - 1, n, d, 0..b - 1)
    BY <1>0, PaddedIs
  <1>2. PICK e : e = Flip(d, b) /\ e \in Seq(0..b - 1) /\ Len(e) = Len(d)
    BY FlipIs
  <1>3. PICK q : q = Padded(0, n, e) /\ IsPadded(q, 0, n, e, 0..b - 1)
    BY <1>0, <1>2, PaddedIs
  <1>4. PICK f : f = Flip(p, b) /\ f \in Seq(0..b - 1) /\ Len(f) = Len(p)
    <2>1. p \in Seq(0..b - 1)
      BY <1>1 DEF IsPadded
    <2> QED
      BY <2>1, FlipIs
  <1>5. Len(p) = n + Len(d) /\ Len(q) = n + Len(d) /\ q \in Seq(0..b - 1) /\ Len(d) \in Nat
    BY <1>1, <1>2, <1>3 DEF IsPadded
  <1>6. ASSUME NEW k \in 1..n + Len(d) PROVE f[k] = q[k]
    <2>1. f[k] = b - 1 - p[k]
      BY <1>4, <1>5 DEF Flip
    <2>2. p[k] = IF k <= n THEN b - 1 ELSE d[k - n]
      BY <1>1, <1>5 DEF IsPadded
    <2>3. q[k] = IF k <= n THEN 0 ELSE e[k - n]
      BY <1>2, <1>3, <1>5 DEF IsPadded
    <2>4. k > n => k - n \in 1..Len(d)
      BY <1>5
    <2>5. \A j \in 1..Len(d) : e[j] = b - 1 - d[j]
      BY <1>2 DEF Flip
    <2> QED
      BY <2>1, <2>2, <2>3, <2>4, <2>5
  <1>7. f = q
    BY <1>4, <1>5, <1>6, SameText
  <1> QED
    BY <1>1, <1>2, <1>3, <1>4, <1>7

(* The radices of FormatComplement.                                        *)
Complements == {"Base2Signed1C", "Base3Signed2C"}

(* What a sign and digits in complement are read as.                       *)
LEMMA ComplementReads ==
  ASSUME NEW radix \in Complements, NEW b \in Nat, b = Base(radix),
         NEW s \in {0, b - 1}, NEW d \in Seq(0..b - 1)
  PROVE  Reads(<<s>> \o d, radix, IF s = 0 THEN Weigh(d, b) ELSE -Weigh(Flip(d, b), b))
  <1>1. b \in {2, 3} /\ (radix = "Base2Signed1C" => b = 2) /\ (radix = "Base3Signed2C" => b = 3)
    BY DEF Complements, Base
  <1>2. s \in 0..b - 1
    BY <1>1
  <1>3. PICK text \in Seq(0..b - 1) :
          text = <<s>> \o d /\ text # <<>> /\ text[1] = s /\ Tail(text) = d
    <2>1. IsFirst(<<s>> \o d, s, d, 0..b - 1)
      BY <1>2, FirstIs
    <2> QED
      BY <2>1 DEF IsFirst
  <1>4. HasDigits(text, radix) /\ text \in Seq(Characters)
    <2>1. radix # "Base64Rfc4648" /\ radix # "Base16Unsigned" /\ b <= 64
      BY <1>1 DEF Complements
    <2> QED
      BY <1>3, <2>1, PlainDigits
  <1>5. s # 1 \/ radix = "Base2Signed1C"
    BY <1>1 DEF Complements
  <1>6. Parses(text, radix)
    BY <1>3, <1>4, <1>5 DEF Parses, Complements
  <1>7. Parse(text, radix) = ParseComplement(text, b)
    BY <1>1 DEF Parse, Unsigned, Complements
  <1>8. ParseComplement(text, b) = IF s = 0 THEN Weigh(d, b) ELSE -Weigh(Flip(d, b), b)
    BY <1>3 DEF ParseComplement
  <1> QED
    BY <1>3, <1>4, <1>6, <1>7, <1>8 DEF Reads

(* FormatComplement gives a text that reads as its value however often its *)
(* sign is repeated before it, and whose length tells which values a       *)
(* length holds.                                                           *)
LEMMA ComplementFormats ==
  ASSUME NEW radix \in Complements, NEW v \in Int, NEW n \in Nat
  PROVE  LET text == Formatted(v, radix)
         IN  /\ Reads(Padded(text[1], n, text), radix, v)
             /\ text \in Seq(Characters) /\ Len(text) \in Nat \ {0} /\ text # Thrown
             /\ \A m \in Nat \ {0} : Len(text) <= m <=> Magnitude(v) < Power(Base(radix), m - 1)
  <1>1. PICK b \in Nat : b = Base(radix) /\ b \in {2, 3} /\ b >= 2
    BY DEF Complements, Base
  <1>2. PICK s \in {0, b - 1}, d \in Seq(0..b - 1) :
          /\ FormatComplement(v, b) = <<s>> \o d
          /\ v = (IF s = 0 THEN Weigh(d, b) ELSE -Weigh(Flip(d, b), b))
          /\ \A m \in Nat \ {0} : Len(d) + 1 <= m <=> Magnitude(v) < Power(b, m - 1)
    <2>0. \A m \in Nat : Power(b, m) \in Nat /\ Power(b, m) >= 1
      <3>1. ASSUME NEW m \in Nat PROVE Power(b, m) \in Nat /\ Power(b, m) >= 1
        <4>1. Power(b, m) \in Nat /\ Power(b, m) >= m + 1
          BY <1>1, PowersGrow
        <4> QED
          BY <4>1
      <3> QED
        BY <3>1
    <2>1. CASE v = 0
      <3>1. 0 \in {0, b - 1} /\ <<>> \in Seq(0..b - 1) /\ Len(<<>>) = 0 /\ <<0>> \o <<>> = <<0>>
        OBVIOUS
      <3>2. Weigh(<<>>, b) = 0
        BY EmptyWeighs
      <3>3. FormatComplement(v, b) = <<0>>
        BY <2>1 DEF FormatComplement
      <3>4. ASSUME NEW m \in Nat \ {0} PROVE 0 + 1 <= m /\ Magnitude(v) < Power(b, m - 1)
        <4>1. m - 1 \in Nat /\ Magnitude(v) = 0
          BY <2>1 DEF Magnitude
        <4>2. Power(b, m - 1) \in Nat /\ Power(b, m - 1) >= 1
          BY <2>0, <4>1
        <4> QED
          BY <4>1, <4>2
      <3>5. PICK e : e = <<>> /\ e \in Seq(0..b - 1) /\ Len(e) = 0 /\ <<0>> \o e = <<0>> /\ Weigh(e, b) = 0
        BY <3>1, <3>2
      <3>6. FormatComplement(v, b) = <<0>> \o e /\ v = Weigh(e, b)
        BY <2>1, <3>3, <3>5
      <3>7. \A m \in Nat \ {0} : Len(e) + 1 <= m <=> Magnitude(v) < Power(b, m - 1)
        BY <3>4, <3>5
      <3> QED
        BY <3>1, <3>5, <3>6, <3>7
    <2>2. CASE v # 0
      <3>1. PICK u \in Nat : u = Magnitude(v) /\ u = IF v > 0 THEN v ELSE -v
        BY <2>2 DEF Magnitude
      <3>2. PICK e \in Seq(0..b - 1) :
              /\ e = Expand(u, b) /\ Len(e) \in Nat \ {0} /\ Weigh(e, b) = u
              /\ \A m \in Nat \ {0} : Len(e) <= m <=> u < Power(b, m)
        BY <1>1, ExpandWeighs
      <3>3. ASSUME NEW m \in Nat \ {0} PROVE Len(e) + 1 <= m <=> Magnitude(v) < Power(b, m - 1)
        <4>1. CASE m = 1
          <5>1. m - 1 = 0 /\ Power(b, 0) = 1 /\ u >= 1
            BY <2>2, <3>1, <4>1, EmptyWeighs
          <5> QED
            BY <3>1, <3>2, <4>1, <5>1
        <4>2. CASE m # 1
          <5>1. m - 1 \in Nat \ {0}
            BY <4>2
          <5>2. Len(e) <= m - 1 <=> u < Power(b, m - 1)
            BY <3>2, <5>1
          <5> QED
            BY <3>1, <3>2, <5>2
        <4> QED
          BY <4>1, <4>2
      <3>4. CASE v > 0
        <4>1. FormatComplement(v, b) = <<0>> \o e
          BY <2>2, <3>1, <3>2, <3>4 DEF FormatComplement
        <4>2. v = Weigh(e, b) /\ 0 \in {0, b - 1}
          BY <3>1, <3>2, <3>4
        <4> QED
          BY <3>3, <4>1, <4>2
      <3>5. CASE ~(v > 0)
        <4>1. PICK f \in Seq(0..b - 1) : f = Flip(e, b) /\ Len(f) = Len(e) /\ Flip(f, b) = e
          BY FlipIs
        <4>2. FormatComplement(v, b) = <<b - 1>> \o f
          BY <2>2, <3>1, <3>2, <3>5, <4>1 DEF FormatComplement
        <4>3. v = -Weigh(Flip(f, b), b) /\ b - 1 \in {0, b - 1} /\ b - 1 # 0
          BY <1>1, <3>1, <3>2, <3>5, <4>1
        <4>4. \A m \in Nat \ {0} : Len(f) + 1 <= m <=> Magnitude(v) < Power(b, m - 1)
          BY <3>3, <4>1
        <4> QED
          BY <4>2, <4>3, <4>4
      <3> QED
        BY <3>4, <3>5
    <2> QED
      BY <2>1, <2>2
  <1>3. s \in 0..b - 1 /\ 0 \in 0..b - 1 /\ b \in Nat \ {0}
    BY <1>1
  <1>4. PICK text \in Seq(0..b - 1) :
          /\ text = <<s>> \o d /\ text # <<>> /\ text[1] = s /\ Len(text) = Len(d) + 1 /\ Len(d) \in Nat
    <2>1. IsFirst(<<s>> \o d, s, d, 0..b - 1)
      BY <1>3, FirstIs
    <2> QED
      BY <2>1 DEF IsFirst
  <1>5. Formatted(v, radix) = text
    BY <1>1, <1>2, <1>4 DEF Formatted, Unsigned, Complements, Base
  <1>6. PICK p \in Seq(0..b - 1) : p = Padded(s, n, d)
    <2>1. IsPadded(Padded(s, n, d), s, n, d, 0..b - 1)
      BY <1>3, PaddedIs
    <2> QED
      BY <2>1 DEF IsPadded
  <1>7. Padded(text[1], n, text) = <<s>> \o p
    <2>1. Padded(s, n, <<s>> \o d) = <<s>> \o Padded(s, n, d)
      BY <1>3, FirstPadded
    <2> QED
      BY <1>4, <1>6, <2>1
  <1>8. Reads(<<s>> \o p, radix, IF s = 0 THEN Weigh(p, b) ELSE -Weigh(Flip(p, b), b))
    BY <1>1, ComplementReads
  <1>9. (IF s = 0 THEN Weigh(p, b) ELSE -Weigh(Flip(p, b), b)) = v
    <2>1. CASE s = 0
      <3>1. d \in Seq(Int)
        BY <1>1, WeighBounds
      <3>2. Weigh(Padded(0, n, d), b) = Weigh(d, b)
        BY <3>1, PaddedWeighs
      <3> QED
        BY <1>2, <1>6, <2>1, <3>2
    <2>2. CASE s # 0
      <3>1. s = b - 1
        BY <2>2
      <3>2. Flip(p, b) = Padded(0, n, Flip(d, b))
        BY <1>3, <1>6, <3>1, FlipPadded
      <3>3. Flip(d, b) \in Seq(0..b - 1)
        BY FlipIs
      <3>4. Flip(d, b) \in Seq(Int)
        BY <1>1, <3>3, WeighBounds
      <3>5. Weigh(Padded(0, n, Flip(d, b)), b) = Weigh(Flip(d, b), b)
        BY <3>4, PaddedWeighs
      <3> QED
        BY <1>2, <2>2, <3>2, <3>5
    <2> QED
      BY <2>1, <2>2
  <1>10. text \in Seq(Characters)
    <2>1. radix # "Base64Rfc4648" /\ radix # "Base16Unsigned" /\ b <= 64
      BY <1>1 DEF Complements
    <2> QED
      BY <1>1, <1>4, <2>1, PlainDigits
  <1>11. text # Thrown
    <2>1. text[1] # -1 /\ Thrown[1] = -1
      BY <1>3, <1>4 DEF Thrown
    <2> QED
      BY <2>1
  <1>12. \A m \in Nat \ {0} : Len(text) <= m <=> Magnitude(v) < Power(Base(radix), m - 1)
    BY <1>1, <1>2, <1>4
  <1>13. Len(text) \in Nat \ {0}
    BY <1>4
  <1>14. Reads(Padded(text[1], n, text), radix, v)
    BY <1>7, <1>8, <1>9
  <1> QED
    BY <1>5, <1>10, <1>11, <1>12, <1>13, <1>14

-----------------------------------------------------------------------------
(* Binary 2's complement.                                                  *)

(* One character more of padding.                                          *)
LEMMA PaddedStep ==
  ASSUME NEW D, NEW c \in D, NEW d \in Seq(D), NEW n \in Nat
  PROVE  Padded(c, n + 1, d) = <<c>> \o Padded(c, n, d) /\ Padded(c, 0, d) = d
  <1>1. n + 1 \in Nat /\ 0 \in Nat
    OBVIOUS
  <1>2. PICK p : p = Padded(c, n + 1, d) /\ IsPadded(p, c, n + 1, d, D)
    BY <1>1, PaddedIs
  <1>3. PICK q : q = Padded(c, n, d) /\ IsPadded(q, c, n, d, D)
    BY PaddedIs
  <1>4. PICK z : z = Padded(c, 0, d) /\ IsPadded(z, c, 0, d, D)
    BY <1>1, PaddedIs
  <1>5. /\ p \in Seq(D) /\ Len(p) = n + 1 + Len(d) /\ Len(d) \in Nat
        /\ \A k \in 1..n + 1 + Len(d) : p[k] = IF k <= n + 1 THEN c ELSE d[k - (n + 1)]
    BY <1>2 DEF IsPadded
  <1>6. /\ q \in Seq(D) /\ Len(q) = n + Len(d)
        /\ \A k \in 1..n + Len(d) : q[k] = IF k <= n THEN c ELSE d[k - n]
    BY <1>3 DEF IsPadded
  <1>7. /\ z \in Seq(D) /\ Len(z) = Len(d)
        /\ \A k \in 1..Len(d) : z[k] = d[k]
    BY <1>4 DEF IsPadded
  <1>8. z = d
    BY <1>7, SameText
  <1>9. PICK r : /\ r = <<c>> \o q /\ r \in Seq(D) /\ Len(r) = n + 1 + Len(d) /\ r[1] = c
                 /\ \A k \in 1..n + Len(d) : r[k + 1] = q[k]
    <2>1. IsFirst(<<c>> \o q, c, q, D)
      BY <1>6, FirstIs
    <2>2. PICK r : /\ r = <<c>> \o q /\ r \in Seq(D) /\ Len(r) = Len(q) + 1 /\ r[1] = c
                   /\ \A k \in 1..Len(q) : r[k + 1] = q[k]
      BY <2>1 DEF IsFirst
    <2>3. Len(q) = n + Len(d) /\ Len(q) + 1 = n + 1 + Len(d)
      BY <1>5, <1>6
    <2> QED
      BY <2>2, <2>3
  <1>10. ASSUME NEW k \in 1..n + 1 + Len(d) PROVE p[k] = r[k]
    <2>1. CASE k = 1
      BY <1>5, <1>9, <2>1
    <2>2. CASE k # 1
      <3>1. k - 1 \in 1..n + Len(d) /\ (k - 1) + 1 = k /\ k - (n + 1) = (k - 1) - n
        BY <1>5, <2>2
      <3>2. r[k] = q[k - 1]
        BY <1>9, <3>1
      <3>3. p[k] = IF k <= n + 1 THEN c ELSE d[(k - 1) - n]
        BY <1>5, <3>1
      <3>4. q[k - 1] = IF k - 1 <= n THEN c ELSE d[(k - 1) - n]
        BY <1>6, <3>1
      <3>5. k <= n + 1 <=> k - 1 <= n
        BY <1>5
      <3> QED
        BY <3>2, <3>3, <3>4, <3>5
    <2> QED
      BY <2>1, <2>2
  <1>11. p = r
    BY <1>5, <1>9, <1>10, SameText
  <1> QED
    BY <1>2, <1>3, <1>4, <1>8, <1>9, <1>11

(* The alphabet and the length of a padded text.                           *)
LEMMA PaddedHas ==
  ASSUME NEW D, NEW c \in D, NEW s \in Seq(D), NEW n \in Nat
  PROVE  Padded(c, n, s) \in Seq(D) /\ Len(Padded(c, n, s)) = n + Len(s) /\ Len(s) \in Nat
  BY PaddedIs DEF IsPadded

(* A one before bits adds the power of two of their number.                *)
LEMMA BitWeighs ==
  ASSUME NEW d \in Seq(0..1)
  PROVE  /\ Weigh(<<1>> \o d, 2) = Power(2, Len(d)) + Weigh(d, 2)
         /\ Power(2, Len(d) + 1) = Power(2, Len(d)) * 2
         /\ Power(2, Len(d)) \in Nat /\ Weigh(d, 2) \in Nat /\ Len(d) \in Nat
  <1>1. PICK b \in Nat : b = 2 /\ b >= 2 /\ d \in Seq(0..b - 1)
    OBVIOUS
  <1>2. Weigh(d, b) \in Nat /\ d \in Seq(Int)
    BY <1>1, WeighBounds
  <1>3. 1 \in Int /\ Len(d) \in Nat
    OBVIOUS
  <1>4. Weigh(<<1>> \o d, b) = 1 * Power(b, Len(d)) + Weigh(d, b)
    BY <1>2, <1>3, WeighFirst
  <1>5. Power(b, Len(d)) \in Nat /\ Power(b, Len(d) + 1) = Power(b, Len(d)) * b
    BY <1>3, PowerSteps
  <1>6. 1 * Power(b, Len(d)) = Power(b, Len(d))
    BY <1>5
  <1> QED
    BY <1>1, <1>2, <1>3, <1>4, <1>5, <1>6

(* A sign bit of 1 may be repeated.                                        *)
LEMMA OnesWeigh ==
  ASSUME NEW d \in Seq(0..1), NEW n \in Nat
  PROVE  Weigh(Padded(1, n, d), 2) - Power(2, Len(Padded(1, n, d))) = Weigh(d, 2) - Power(2, Len(d))
  <1> DEFINE W(m) == Weigh(Padded(1, m, d), 2) - Power(2, Len(Padded(1, m, d)))
             Good == {m \in Nat : W(m) = Weigh(d, 2) - Power(2, Len(d))}
  <1>0. 1 \in 0..1 /\ 0 \in Nat
    OBVIOUS
  <1>1. 0 \in Good
    <2>1. Padded(1, 0, d) = d
      BY <1>0, PaddedStep, ZenonT(30)
    <2> QED
      BY <2>1
  <1>2. ASSUME NEW m \in Nat, m \in Good PROVE m + 1 \in Good
    <2>1. PICK p \in Seq(0..1) : p = Padded(1, m, d)
      BY <1>0, PaddedHas
    <2>2. Padded(1, m + 1, d) = <<1>> \o p
      BY <1>0, <2>1, PaddedStep, ZenonT(30)
    <2>3. Len(<<1>> \o p) = Len(p) + 1
      OBVIOUS
    <2>4. PICK x \in Nat, w \in Nat : x = Power(2, Len(p)) /\ w = Weigh(p, 2) /\ Weigh(<<1>> \o p, 2) = x + w
                                     /\ Power(2, Len(p) + 1) = x * 2
      BY BitWeighs
    <2>5. W(m + 1) = (x + w) - x * 2
      BY <2>2, <2>3, <2>4
    <2>6. W(m) = w - x
      BY <2>1, <2>4
    <2>7. (x + w) - x * 2 = w - x /\ m + 1 \in Nat
      OBVIOUS
    <2>8. W(m) = Weigh(d, 2) - Power(2, Len(d))
      BY <1>2
    <2> HIDE DEF W
    <2> QED
      BY <2>5, <2>6, <2>7, <2>8
  <1>3. Nat \subseteq Good
    <2> HIDE DEF Good
    <2> QED
      BY <1>1, <1>2, NatInductionOnSets
  <1> QED
    BY <1>3

(* What a sign bit and bits in two's complement are read as.               *)
LEMMA TwosReads ==
  ASSUME NEW s \in {0, 1}, NEW d \in Seq(0..1)
  PROVE  Reads(<<s>> \o d, "Base2Signed2C",
               IF s = 0 THEN Weigh(d, 2) ELSE Weigh(d, 2) - Power(2, Len(d)))
  <1>1. PICK b \in Nat, radix \in {"Base2Signed2C"} : b = 2 /\ radix = "Base2Signed2C" /\ b = Base(radix)
    BY DEF Base
  <1>2. s \in 0..b - 1 /\ d \in Seq(0..b - 1)
    BY <1>1
  <1>3. PICK text \in Seq(0..b - 1) :
          /\ text = <<s>> \o d /\ text # <<>> /\ text[1] = s /\ Tail(text) = d
          /\ Len(text) = Len(d) + 1
    <2>1. IsFirst(<<s>> \o d, s, d, 0..b - 1)
      BY <1>2, FirstIs
    <2> QED
      BY <2>1 DEF IsFirst
  <1>4. HasDigits(text, radix) /\ text \in Seq(Characters)
    <2>1. radix # "Base64Rfc4648" /\ radix # "Base16Unsigned" /\ b <= 64
      BY <1>1
    <2> QED
      BY <1>1, <1>3, <2>1, PlainDigits
  <1>5. Parses(text, radix)
    BY <1>1, <1>4 DEF Parses
  <1>6. Parse(text, radix) = IF s = 0 THEN Weigh(d, 2) ELSE Weigh(text, 2) - Power(2, Len(text))
    BY <1>1, <1>3 DEF Parse, Unsigned
  <1>7. s # 0 => Weigh(text, 2) - Power(2, Len(text)) = Weigh(d, 2) - Power(2, Len(d))
    <2>1. ASSUME s # 0 PROVE Weigh(text, 2) - Power(2, Len(text)) = Weigh(d, 2) - Power(2, Len(d))
      <3>1. text = <<1>> \o d
        BY <1>3, <2>1
      <3>2. PICK x \in Nat, w \in Nat : x = Power(2, Len(d)) /\ w = Weigh(d, 2) /\ Weigh(text, 2) = x + w
                                       /\ Power(2, Len(d) + 1) = x * 2
        BY <3>1, BitWeighs
      <3>3. (x + w) - x * 2 = w - x
        OBVIOUS
      <3> QED
        BY <1>3, <3>2, <3>3
    <2> QED
      BY <2>1
  <1> QED
    BY <1>1, <1>3, <1>4, <1>5, <1>6, <1>7 DEF Reads

(* The bits of a number, and what BigInteger.Log makes of their count.     *)
LEMMA LogLengthIs ==
  ASSUME NEW u \in Nat
  PROVE  /\ BitLength(u) \in Nat \ {0} /\ LogLength(u) \in {BitLength(u), BitLength(u) + 1}
         /\ \A m \in Nat \ {0} : BitLength(u) <= m <=> u < Power(2, m)
         /\ LogLength(u) = BitLength(u) + 1 =>
              /\ BitLength(u) >= ExactLog
              /\ Power(2, BitLength(u)) - u <= Power(2, BitLength(u) - ExactLog)
  <1>1. PICK b \in Nat : b = 2 /\ b >= 2
    OBVIOUS
  <1>2. /\ Len(Expand(u, b)) \in Nat \ {0}
        /\ \A m \in Nat \ {0} : Len(Expand(u, b)) <= m <=> u < Power(b, m)
    BY <1>1, ExpandWeighs
  <1>3. /\ BitLength(u) \in Nat \ {0}
        /\ \A m \in Nat \ {0} : BitLength(u) <= m <=> u < Power(2, m)
    BY <1>1, <1>2 DEF BitLength
  <1>4. \/ LogLength(u) = BitLength(u)
        \/ /\ LogLength(u) = BitLength(u) + 1
           /\ BitLength(u) >= ExactLog
           /\ Power(2, BitLength(u)) - u <= Power(2, BitLength(u) - ExactLog)
    BY DEF LogLength
  <1>5. BitLength(u) # BitLength(u) + 1
    BY <1>3
  <1> QED
    BY <1>3, <1>4, <1>5

(* What FormatTwosComplement gives a digit too many.                       *)
TooLong(u, m) ==
  m - 1 >= ExactLog /\ Power(2, m - 1) - u \in 0..Power(2, m - 1 - ExactLog)

(* A power of two is one at least.                                         *)
LEMMA TwosPowers ==
  ASSUME NEW m \in Nat
  PROVE  Power(2, m) \in Nat /\ Power(2, m) >= 1
  <1>1. PICK b \in Nat : b = 2 /\ b >= 2
    OBVIOUS
  <1>2. Power(b, m) \in Nat /\ Power(b, m) >= m + 1
    BY <1>1, PowersGrow
  <1> QED
    BY <1>1, <1>2

(* Expand(w, b) and the zeros to a length that it fits.                    *)
LEMMA PaddedDigits ==
  ASSUME NEW b \in Nat, b >= 2, NEW w \in Nat, NEW length \in Nat \ {0}, w < Power(b, length)
  PROVE  LET d == PadLeft(Expand(w, b), length, 0)
         IN  d \in Seq(0..b - 1) /\ Len(d) = length /\ Weigh(d, b) = w
  <1>1. PICK e : /\ e = Expand(w, b) /\ e \in Seq(0..b - 1) /\ e \in Seq(Int) /\ Len(e) \in Nat \ {0}
                 /\ Weigh(e, b) = w /\ Len(e) <= length
    BY ExpandWeighs
  <1>2. PICK n \in Nat : n = length - Len(e)
    <2>1. PICK digits \in Nat : digits = Len(e) /\ digits <= length
      BY <1>1
    <2>2. length - digits \in Nat
      BY <2>1
    <2> QED
      BY <2>1, <2>2
  <1>3. PadLeft(e, length, 0) = Padded(0, n, e)
    BY <1>1, <1>2, PadLeftIs
  <1>4. 0 \in 0..b - 1
    OBVIOUS
  <1>5. Padded(0, n, e) \in Seq(0..b - 1) /\ Len(Padded(0, n, e)) = n + Len(e)
    <2>1. IsPadded(Padded(0, n, e), 0, n, e, 0..b - 1)
      BY <1>1, <1>4, PaddedIs
    <2> QED
      BY <2>1 DEF IsPadded
  <1>6. Weigh(Padded(0, n, e), b) = w
    BY <1>1, PaddedWeighs
  <1> QED
    BY <1>1, <1>2, <1>3, <1>5, <1>6

(* Bits padded to a length that holds the value.                           *)
LEMMA PaddedBits ==
  ASSUME NEW w \in Nat, NEW length \in Nat \ {0}, w < Power(2, length)
  PROVE  LET d == PadLeft(Expand(w, 2), length, 0)
         IN  d \in Seq(0..1) /\ Len(d) = length /\ Weigh(d, 2) = w
  <1>1. PICK b \in Nat : b = 2 /\ b >= 2
    OBVIOUS
  <1>2. w < Power(b, length)
    BY <1>1
  <1>3. LET d == PadLeft(Expand(w, b), length, 0)
        IN  d \in Seq(0..b - 1) /\ Len(d) = length /\ Weigh(d, b) = w
    BY <1>1, <1>2, PaddedDigits
  <1> QED
    BY <1>1, <1>3

(* FormatTwosComplement gives a text that reads as its value however often *)
(* its sign is repeated before it. A text no longer than m says that m     *)
(* bits hold the value; a longer one, that they do not, or that the value  *)
(* is one of the gap.                                                      *)
LEMMA TwosFormats ==
  ASSUME NEW v \in Int, NEW n \in Nat
  PROVE  LET text == Formatted(v, "Base2Signed2C")
         IN  /\ Reads(Padded(text[1], n, text), "Base2Signed2C", v)
             /\ text \in Seq(Characters) /\ Len(text) \in Nat \ {0} /\ text # Thrown
             /\ \A m \in Nat \ {0} : Len(text) <= m => Magnitude(v) < Power(2, m - 1)
             /\ \A m \in Nat \ {0} :
                  m < Len(text) => Magnitude(v) >= Power(2, m - 1) \/ TooLong(Magnitude(v), m)
  <1>1. PICK s \in {0, 1}, d \in Seq(0..1) :
          /\ FormatTwosComplement(v) = <<s>> \o d
          /\ v = (IF s = 0 THEN Weigh(d, 2) ELSE Weigh(d, 2) - Power(2, Len(d)))
          /\ Len(d) = IF v = 0 THEN 0 ELSE LogLength(Magnitude(v))
    <2>1. CASE v = 0
      <3>0. Weigh(<<>>, 2) = 0
        <4>1. PICK b \in Nat : b = 2
          OBVIOUS
        <4> QED
          BY <4>1, EmptyWeighs
      <3>3. <<>> \in Seq(0..1) /\ Len(<<>>) = 0 /\ <<0>> \o <<>> = <<0>>
        OBVIOUS
      <3>1. PICK e : e = <<>> /\ e \in Seq(0..1) /\ Len(e) = 0 /\ <<0>> \o e = <<0>> /\ Weigh(e, 2) = 0
        BY <3>0, <3>3
      <3>2. FormatTwosComplement(v) = <<0>> \o e
        BY <2>1, <3>1 DEF FormatTwosComplement
      <3> QED
        BY <2>1, <3>1, <3>2
    <2>2. CASE v # 0
      <3>1. PICK u \in Nat : u = Magnitude(v) /\ u = (IF v > 0 THEN v ELSE -v) /\ u > 0
        BY <2>2 DEF Magnitude
      <3>2. PICK length \in Nat \ {0} : length = LogLength(u) /\ u < Power(2, length)
        <4>1. /\ BitLength(u) \in Nat \ {0} /\ LogLength(u) \in {BitLength(u), BitLength(u) + 1}
              /\ \A m \in Nat \ {0} : BitLength(u) <= m <=> u < Power(2, m)
          BY LogLengthIs
        <4>2. LogLength(u) \in Nat \ {0} /\ BitLength(u) <= LogLength(u)
          BY <4>1
        <4> QED
          BY <4>1, <4>2
      <3>3. CASE v > 0
        <4>1. v = u /\ v \in Nat
          BY <3>1, <3>3
        <4>2. PICK d \in Seq(0..1) : d = PadLeft(Expand(u, 2), length, 0) /\ Len(d) = length /\ Weigh(d, 2) = u
          BY <3>2, PaddedBits
        <4>3. FormatTwosComplement(v) = <<0>> \o d
          BY <2>2, <3>1, <3>2, <3>3, <4>1, <4>2 DEF FormatTwosComplement
        <4> QED
          BY <2>2, <3>1, <3>2, <4>1, <4>2, <4>3
      <3>4. CASE ~(v > 0)
        <4>1. v = -u
          BY <3>1, <3>4
        <4>2. PICK x \in Nat : x = Power(2, length) /\ u < x
          BY <3>2, TwosPowers
        <4>3. PICK w \in Nat : w = v + x /\ w < x
          BY <3>1, <4>1, <4>2
        <4>4. PICK d \in Seq(0..1) : d = PadLeft(Expand(w, 2), length, 0) /\ Len(d) = length /\ Weigh(d, 2) = w
          BY <4>2, <4>3, PaddedBits
        <4>5. FormatTwosComplement(v) = <<1>> \o d
          BY <2>2, <3>1, <3>2, <3>4, <4>2, <4>3, <4>4 DEF FormatTwosComplement
        <4>6. v = Weigh(d, 2) - Power(2, Len(d)) /\ 1 \in {0, 1} /\ 1 # 0
          BY <4>2, <4>3, <4>4
        <4> QED
          BY <2>2, <3>1, <3>2, <4>4, <4>5, <4>6
      <3> QED
        BY <3>3, <3>4
    <2> QED
      BY <2>1, <2>2
  <1>2. s \in 0..1
    OBVIOUS
  <1>3. PICK text \in Seq(0..1) :
          /\ text = <<s>> \o d /\ text # <<>> /\ text[1] = s /\ Len(text) = Len(d) + 1 /\ Len(d) \in Nat
    <2>1. IsFirst(<<s>> \o d, s, d, 0..1)
      BY <1>2, FirstIs
    <2> QED
      BY <2>1 DEF IsFirst
  <1>4. Formatted(v, "Base2Signed2C") = text
    BY <1>1, <1>3 DEF Formatted, Unsigned
  <1>5. PICK p \in Seq(0..1) : p = Padded(s, n, d)
    BY <1>2, PaddedHas
  <1>6. Padded(text[1], n, text) = <<s>> \o p
    <2>1. Padded(s, n, <<s>> \o d) = <<s>> \o Padded(s, n, d)
      BY <1>2, FirstPadded
    <2> QED
      BY <1>3, <1>5, <2>1
  <1>7. Reads(<<s>> \o p, "Base2Signed2C", IF s = 0 THEN Weigh(p, 2) ELSE Weigh(p, 2) - Power(2, Len(p)))
    BY TwosReads
  <1>8. (IF s = 0 THEN Weigh(p, 2) ELSE Weigh(p, 2) - Power(2, Len(p))) = v
    <2>1. CASE s = 0
      <3>1. PICK b \in Nat : b = 2 /\ b >= 2 /\ d \in Seq(0..b - 1)
        OBVIOUS
      <3>2. d \in Seq(Int)
        BY <3>1, WeighBounds
      <3>3. Weigh(Padded(0, n, d), b) = Weigh(d, b)
        BY <3>2, PaddedWeighs
      <3> QED
        BY <1>1, <1>5, <2>1, <3>1, <3>3
    <2>2. CASE s # 0
      <3>1. s = 1
        BY <2>2
      <3>2. Weigh(Padded(1, n, d), 2) - Power(2, Len(Padded(1, n, d))) = Weigh(d, 2) - Power(2, Len(d))
        BY OnesWeigh
      <3> QED
        BY <1>1, <1>5, <2>2, <3>1, <3>2
    <2> QED
      BY <2>1, <2>2
  <1>9. text \in Seq(Characters)
    <2>1. \A c \in 0..1 : c \in Characters
      BY DEF Characters
    <2> QED
      BY <2>1, WiderAlphabet
  <1>10. text # Thrown
    <2>1. text[1] # -1 /\ Thrown[1] = -1
      BY <1>2, <1>3 DEF Thrown
    <2> QED
      BY <2>1
  <1>11. PICK u \in Nat : u = Magnitude(v)
    BY DEF Magnitude
  <1>12. PICK bits \in Nat \ {0} :
           /\ bits = BitLength(u) /\ LogLength(u) \in {bits, bits + 1}
           /\ \A m \in Nat \ {0} : bits <= m <=> u < Power(2, m)
           /\ LogLength(u) = bits + 1 => bits >= ExactLog /\ Power(2, bits) - u <= Power(2, bits - ExactLog)
    BY LogLengthIs
  <1>13. ASSUME NEW m \in Nat \ {0}, Len(text) <= m PROVE u < Power(2, m - 1)
    <2>1. PICK j \in Nat : j = m - 1
      OBVIOUS
    <2>2. CASE v = 0
      <3>1. u = 0
        BY <1>11, <2>2 DEF Magnitude
      <3> QED
        BY <2>1, <3>1, TwosPowers
    <2>3. CASE v # 0
      <3>1. j # 0 /\ bits <= j
        BY <1>1, <1>3, <1>11, <1>12, <1>13, <2>1, <2>3
      <3> QED
        BY <1>12, <2>1, <3>1
    <2> QED
      BY <2>2, <2>3
  <1>14. ASSUME NEW m \in Nat \ {0}, m < Len(text) PROVE u >= Power(2, m - 1) \/ TooLong(u, m)
    <2>1. PICK j \in Nat : j = m - 1
      OBVIOUS
    <2>2. v # 0 /\ Len(text) \in {bits + 1, bits + 2} /\ (Len(text) = bits + 2 => LogLength(u) = bits + 1)
      BY <1>1, <1>3, <1>11, <1>12, <1>14
    <2>3. Power(2, j) \in Nat
      BY TwosPowers
    <2>4. CASE j = 0
      <3>1. u >= 1 /\ Power(2, j) = 1
        BY <1>11, <2>2, <2>4, EmptyWeighs DEF Magnitude
      <3> QED
        BY <2>1, <3>1
    <2>5. CASE j # 0 /\ j < bits
      <3>1. ~(u < Power(2, j))
        BY <1>12, <2>5
      <3> QED
        BY <2>1, <2>3, <3>1
    <2>6. CASE j # 0 /\ ~(j < bits)
      <3>1. j = bits /\ LogLength(u) = bits + 1
        BY <1>14, <2>1, <2>2, <2>6
      <3>2. u < Power(2, j) /\ j >= ExactLog /\ Power(2, j) - u <= Power(2, j - ExactLog)
        BY <1>12, <3>1
      <3>3. Power(2, j - ExactLog) \in Nat
        <4>1. j - ExactLog \in Nat
          BY <3>2, ExactLogAssumption
        <4> QED
          BY <4>1, TwosPowers
      <3>4. Power(2, j) - u \in 0..Power(2, j - ExactLog)
        BY <2>3, <3>2, <3>3
      <3> QED
        BY <2>1, <3>2, <3>4 DEF TooLong
    <2> QED
      BY <2>4, <2>5, <2>6
  <1>15. Len(text) \in Nat \ {0}
    BY <1>3
  <1>16. Reads(Padded(text[1], n, text), "Base2Signed2C", v)
    BY <1>6, <1>7, <1>8
  <1> QED
    BY <1>4, <1>9, <1>10, <1>11, <1>13, <1>14, <1>15, <1>16

-----------------------------------------------------------------------------
(* Ternary 3's complement.                                                 *)

(* The radix of FormatTernary3C.                                           *)
Signed3C == "Base3Signed3C"

(* Trits padded to a length that holds the value.                          *)
LEMMA PaddedTernary ==
  ASSUME NEW w \in Nat, NEW length \in Nat \ {0}, w < Power(3, length)
  PROVE  LET d == PadLeft(Expand(w, 3), length, 0)
         IN  d \in Seq(0..2) /\ Len(d) = length /\ Weigh(d, 3) = w
  <1>1. PICK b \in Nat : b = 3 /\ b >= 2
    OBVIOUS
  <1>2. w < Power(b, length)
    BY <1>1
  <1>3. LET d == PadLeft(Expand(w, b), length, 0)
        IN  d \in Seq(0..b - 1) /\ Len(d) = length /\ Weigh(d, b) = w
    BY <1>1, <1>2, PaddedDigits
  <1> QED
    BY <1>1, <1>3

(* A power of three is above its exponent.                                 *)
LEMMA TernaryPowers ==
  ASSUME NEW m \in Nat
  PROVE  Power(3, m) \in Nat /\ Power(3, m) >= m + 1
  <1>1. PICK b \in Nat : b = 3 /\ b >= 2
    OBVIOUS
  <1>2. Power(b, m) \in Nat /\ Power(b, m) >= m + 1
    BY <1>1, PowersGrow
  <1> QED
    BY <1>1, <1>2

(* Powers of three grow with the exponent.                                 *)
LEMMA TernaryMonotone ==
  ASSUME NEW m \in Nat, NEW n \in Nat, m <= n
  PROVE  Power(3, m) <= Power(3, n)
  <1>1. PICK b \in Nat : b = 3 /\ b >= 2
    OBVIOUS
  <1>2. Power(b, m) <= Power(b, n)
    BY <1>1, PowersMonotone
  <1> QED
    BY <1>1, <1>2

(* What a sign trit and trits in three's complement are read as.           *)
LEMMA ThreesReads ==
  ASSUME NEW s \in {0, 1}, NEW d \in Seq(0..2)
  PROVE  /\ Reads(<<s>> \o d, Signed3C,
                  IF s = 0 THEN Weigh(d, 3) ELSE Weigh(d, 3) - Power(3, Len(d)))
         /\ Len(<<s>> \o d) = Len(d) + 1 /\ Len(d) \in Nat
         /\ (<<s>> \o d)[1] = s
  <1>1. PICK b \in Nat, radix \in {Signed3C} : b = 3 /\ b >= 2 /\ radix = Signed3C /\ b = Base(radix)
    BY DEF Base, Signed3C
  <1>2. s \in 0..b - 1 /\ d \in Seq(0..b - 1)
    BY <1>1
  <1>3. PICK text \in Seq(0..b - 1) :
          /\ text = <<s>> \o d /\ text # <<>> /\ text[1] = s /\ Tail(text) = d
          /\ Len(text) = Len(d) + 1 /\ Len(d) \in Nat
    <2>1. IsFirst(<<s>> \o d, s, d, 0..b - 1)
      BY <1>2, FirstIs
    <2> QED
      BY <2>1 DEF IsFirst
  <1>4. HasDigits(text, radix) /\ text \in Seq(Characters)
    <2>1. radix # "Base64Rfc4648" /\ radix # "Base16Unsigned" /\ b <= 64
      BY <1>1 DEF Signed3C
    <2> QED
      BY <1>1, <1>3, <2>1, PlainDigits
  <1>5. Parses(text, radix)
    BY <1>1, <1>4 DEF Parses, Signed3C
  <1>6. Parse(text, radix) = Weigh(d, 3) - s * Power(3, Len(d))
    BY <1>1, <1>3 DEF Parse, Unsigned, Signed3C
  <1>7. PICK w \in Nat, x \in Nat : w = Weigh(d, 3) /\ x = Power(3, Len(d))
    <2>1. Weigh(d, b) \in Nat
      BY <1>1, <1>2, WeighBounds
    <2> QED
      BY <1>1, <1>3, <2>1, TernaryPowers
  <1>8. w - s * x = IF s = 0 THEN w ELSE w - x
    <2>1. CASE s = 0
      BY <2>1
    <2>2. CASE s # 0
      <3>1. s = 1
        BY <2>2
      <3> QED
        BY <2>2, <3>1
    <2> QED
      BY <2>1, <2>2
  <1> QED
    BY <1>1, <1>3, <1>4, <1>5, <1>6, <1>7, <1>8 DEF Reads

(* Ternary3C gives a text of one trit more than its length that reads as   *)
(* the value, if the length holds it.                                      *)
LEMMA Ternary3CReads ==
  ASSUME NEW v \in Int, NEW length \in Nat,
         v >= 0 => length # 0 /\ v < Power(3, length), v < 0 => -v <= Power(3, length)
  PROVE  Reads(Ternary3C(v, length), Signed3C, v) /\ Len(Ternary3C(v, length)) = length + 1
  <1>1. PICK s \in {0, 1}, d \in Seq(0..2) :
          /\ Ternary3C(v, length) = <<s>> \o d /\ Len(d) = length
          /\ v = (IF s = 0 THEN Weigh(d, 3) ELSE Weigh(d, 3) - Power(3, Len(d)))
    <2>1. CASE v >= 0
      <3>1. PICK d \in Seq(0..2) : d = PadLeft(Expand(v, 3), length, 0) /\ Len(d) = length /\ Weigh(d, 3) = v
        BY <2>1, PaddedTernary
      <3>2. Ternary3C(v, length) = <<0>> \o d
        BY <2>1, <3>1 DEF Ternary3C
      <3> QED
        BY <3>1, <3>2
    <2>2. CASE ~(v >= 0)
      <3>1. PICK x \in Nat : x = Power(3, length) /\ -v <= x
        BY <2>2, TernaryPowers
      <3>2. CASE length = 0
        <4>1. Power(3, 0) = 1 /\ Weigh(<<>>, 3) = 0
          <5>1. PICK b \in Nat : b = 3
            OBVIOUS
          <5> QED
            BY <5>1, EmptyWeighs
        <4>2. v = -1
          BY <2>2, <3>1, <3>2, <4>1
        <4>3. <<>> \in Seq(0..2) /\ Len(<<>>) = 0
          OBVIOUS
        <4>4. Ternary3C(v, length) = <<1>> \o <<>>
          BY <2>2, <3>2 DEF Ternary3C
        <4>5. PICK d \in Seq(0..2) : d = <<>> /\ Len(d) = 0 /\ Weigh(d, 3) = 0
          BY <4>1, <4>3
        <4>6. Weigh(d, 3) - Power(3, Len(d)) = -1 /\ Ternary3C(v, length) = <<1>> \o d
          BY <4>1, <4>4, <4>5
        <4>7. v = Weigh(d, 3) - Power(3, Len(d)) /\ Len(d) = length /\ 1 # 0 /\ 1 \in {0, 1}
          BY <3>2, <4>2, <4>5, <4>6
        <4> QED
          BY <4>6, <4>7
      <3>3. CASE length # 0
        <4>1. PICK w \in Nat : w = v + x /\ w < x
          BY <2>2, <3>1
        <4>2. PICK d \in Seq(0..2) : d = PadLeft(Expand(w, 3), length, 0) /\ Len(d) = length /\ Weigh(d, 3) = w
          BY <3>1, <3>3, <4>1, PaddedTernary
        <4>3. Ternary3C(v, length) = <<1>> \o d
          BY <2>2, <3>1, <3>3, <4>1, <4>2 DEF Ternary3C
        <4>4. v = Weigh(d, 3) - Power(3, Len(d)) /\ 1 # 0
          BY <3>1, <4>1, <4>2
        <4> QED
          BY <4>2, <4>3, <4>4
      <3> QED
        BY <3>2, <3>3
    <2> QED
      BY <2>1, <2>2
  <1>2. Reads(<<s>> \o d, Signed3C, IF s = 0 THEN Weigh(d, 3) ELSE Weigh(d, 3) - Power(3, Len(d)))
        /\ Len(<<s>> \o d) = Len(d) + 1
    BY ThreesReads
  <1> QED
    BY <1>1, <1>2

(* The length of a negative number is the least that will do.              *)
LEMMA NegativeLength ==
  ASSUME NEW u \in Nat \ {0}
  PROVE  \E M \in Nat : /\ FormatTernary3C(-u) = Ternary3C(-u, M)
                        /\ \A m \in Nat : M <= m <=> Power(3, m) >= u
  <1> DEFINE Enough(k) == Power(3, k) >= -(-u)
             Is(f) == f = [k \in Nat |-> IF Enough(k) THEN k ELSE f[k + 1]]
             f == CHOOSE f : Is(f)
  <1>1. \A m \in Nat : Enough(m) <=> Power(3, m) >= u
    OBVIOUS
  <1>2. FormatTernary3C(-u) = Ternary3C(-u, f[0])
    BY DEF FormatTernary3C
  <1> HIDE DEF f
  <1>3. PICK M \in Nat : \A m \in Nat : M <= m <=> Enough(m)
    <2> DEFINE S == {m \in Nat : Enough(m)}
    <2>1. u \in S
      <3>1. Power(3, u) \in Nat /\ Power(3, u) >= u + 1
        BY TernaryPowers
      <3> QED
        BY <3>1
    <2>2. PICK M \in S : \A m \in S : M <= m
      <3>1. S \in SUBSET Nat /\ S # {}
        BY <2>1
      <3> HIDE DEF S
      <3> QED
        BY <3>1, LeastOf
    <2>3. ASSUME NEW m \in Nat, M <= m PROVE Enough(m)
      <3>1. Power(3, M) <= Power(3, m) /\ Power(3, M) >= u /\ Power(3, M) \in Nat /\ Power(3, m) \in Nat
        BY <1>1, <2>2, <2>3, TernaryMonotone, TernaryPowers
      <3> QED
        BY <3>1
    <2>4. ASSUME NEW m \in Nat, Enough(m) PROVE M <= m
      BY <2>2, <2>4
    <2> HIDE DEF Enough
    <2> QED
      BY <2>2, <2>3, <2>4
  <1> HIDE DEF Enough
  <1>4. Is([k \in Nat |-> IF k <= M THEN M ELSE k])
    <2> DEFINE g == [k \in Nat |-> IF k <= M THEN M ELSE k]
    <2>1. ASSUME NEW k \in Nat PROVE g[k] = IF Enough(k) THEN k ELSE g[k + 1]
      <3>1. k + 1 \in Nat /\ (M <= k <=> Enough(k))
        BY <1>3
      <3>2. g[k] = (IF k <= M THEN M ELSE k) /\ g[k + 1] = IF k + 1 <= M THEN M ELSE k + 1
        BY <3>1
      <3>3. CASE M <= k
        BY <3>1, <3>2, <3>3
      <3>4. CASE ~(M <= k)
        <4>1. k <= M /\ k + 1 <= M
          BY <3>4
        <4> QED
          BY <3>1, <3>2, <3>4, <4>1
      <3> QED
        BY <3>3, <3>4
    <2> QED
      BY <2>1
  <1>5. f = [k \in Nat |-> IF Enough(k) THEN k ELSE f[k + 1]]
    <2> HIDE DEF Is
    <2>1. Is(f)
      BY <1>4 DEF f
    <2> QED
      BY <2>1 DEF Is
  <1>6. f[0] = M
    <2> DEFINE Good == {j \in 0..M : f[M - j] = M}
    <2>1. 0 \in Good
      <3>1. M - 0 \in Nat /\ M - 0 = M /\ Enough(M)
        BY <1>3
      <3>2. f[M] = M
        BY <1>5, <3>1
      <3> QED
        BY <3>1, <3>2
    <2>2. ASSUME NEW j \in 0..M - 1, j \in Good PROVE j + 1 \in Good
      <3>1. PICK k \in Nat : k = M - (j + 1) /\ k + 1 = M - j /\ ~(M <= k)
        OBVIOUS
      <3>2. ~Enough(k)
        BY <1>3, <3>1
      <3>3. f[k] = f[k + 1]
        BY <1>5, <3>2
      <3>4. f[M - (j + 1)] = M /\ j + 1 \in 0..M
        BY <2>2, <3>1, <3>3
      <3> QED
        BY <3>4
    <2>3. 0..M \subseteq Good
      <3>1. 0 \in Int /\ M \in Int
        OBVIOUS
      <3> HIDE DEF Good
      <3> QED
        BY <2>1, <2>2, <3>1, IntervalInduction
    <2>4. f[M - M] = M /\ M - M = 0
      BY <2>3
    <2> QED
      BY <2>4
  <1> QED
    BY <1>1, <1>2, <1>3, <1>6

(* The values that m trits hold in three's complement.                     *)
Holds3C(v, m) == v >= -Power(3, m - 1) /\ v < Power(3, m - 1)

(* FormatTernary3C gives a text that reads as its value, as short as the   *)
(* value allows.                                                           *)
LEMMA ThreesFormats ==
  ASSUME NEW v \in Int
  PROVE  LET text == Formatted(v, Signed3C)
         IN  /\ Reads(text, Signed3C, v) /\ Len(text) \in Nat \ {0} /\ text # Thrown
             /\ \A m \in Nat \ {0} : Len(text) <= m <=> Holds3C(v, m)
  <1>1. PICK text : text = FormatTernary3C(v) /\ Formatted(v, Signed3C) = text
    BY DEF Formatted, Signed3C, Unsigned
  <1>2. /\ Reads(text, Signed3C, v) /\ Len(text) \in Nat \ {0}
        /\ \A m \in Nat \ {0} : Len(text) <= m <=> Holds3C(v, m)
    <2>1. CASE v = 0
      <3>1. PICK d \in Seq(0..2) : d = <<>> /\ Len(d) = 0 /\ <<0>> \o d = <<0>> /\ Weigh(d, 3) = 0
        <4>1. <<>> \in Seq(0..2) /\ Len(<<>>) = 0 /\ <<0>> \o <<>> = <<0>>
          OBVIOUS
        <4>2. PICK b \in Nat : b = 3
          OBVIOUS
        <4>3. Weigh(<<>>, 3) = 0
          BY <4>2, EmptyWeighs
        <4> QED
          BY <4>1, <4>3
      <3>2. text = <<0>> \o d
        BY <1>1, <2>1, <3>1 DEF FormatTernary3C
      <3>3. Reads(<<0>> \o d, Signed3C, Weigh(d, 3)) /\ Len(<<0>> \o d) = Len(d) + 1
        BY ThreesReads
      <3>4. ASSUME NEW m \in Nat \ {0} PROVE 1 <= m /\ Holds3C(v, m)
        <4>1. m - 1 \in Nat
          OBVIOUS
        <4>2. Power(3, m - 1) \in Nat /\ Power(3, m - 1) >= m - 1 + 1
          BY <4>1, TernaryPowers
        <4> QED
          BY <2>1, <4>2 DEF Holds3C
      <3> QED
        BY <2>1, <3>1, <3>2, <3>3, <3>4
    <2>2. CASE v > 0
      <3>1. PICK b \in Nat : b = 3 /\ b >= 2
        OBVIOUS
      <3>2. PICK d : /\ d = Expand(v, b) /\ d \in Seq(0..b - 1) /\ Len(d) \in Nat \ {0} /\ Weigh(d, b) = v
                     /\ \A m \in Nat \ {0} : Len(d) <= m <=> v < Power(b, m)
        <4>1. v \in Nat
          BY <2>2
        <4> QED
          BY <3>1, <4>1, ExpandWeighs
      <3>3. text = <<0>> \o d /\ d \in Seq(0..2)
        BY <1>1, <2>2, <3>1, <3>2 DEF FormatTernary3C
      <3>4. Reads(<<0>> \o d, Signed3C, Weigh(d, 3)) /\ Len(<<0>> \o d) = Len(d) + 1
        BY <3>3, ThreesReads
      <3>5. ASSUME NEW m \in Nat \ {0} PROVE Len(d) + 1 <= m <=> Holds3C(v, m)
        <4>0. m - 1 \in Nat
          OBVIOUS
        <4>1. Power(3, m - 1) \in Nat
          BY <4>0, TernaryPowers
        <4>2. CASE m = 1
          <5>1. Power(3, 0) = 1 /\ m - 1 = 0
            BY <3>1, <4>2, EmptyWeighs
          <5> QED
            BY <2>2, <3>2, <4>2, <5>1 DEF Holds3C
        <4>3. CASE m # 1
          <5>1. m - 1 \in Nat \ {0}
            BY <4>3
          <5>2. Len(d) <= m - 1 <=> v < Power(3, m - 1)
            BY <3>1, <3>2, <5>1
          <5> QED
            BY <2>2, <3>2, <4>1, <5>2 DEF Holds3C
        <4> QED
          BY <4>2, <4>3
      <3> QED
        BY <3>1, <3>2, <3>3, <3>4, <3>5
    <2>3. CASE v < 0
      <3>1. PICK u \in Nat \ {0} : v = -u /\ u = -v
        <4>1. -v \in Nat \ {0} /\ v = -(-v)
          BY <2>3
        <4> QED
          BY <4>1
      <3>2. PICK M \in Nat : FormatTernary3C(-u) = Ternary3C(-u, M) /\ \A m \in Nat : M <= m <=> Power(3, m) >= u
        BY NegativeLength
      <3>3. -v <= Power(3, M)
        <4>1. Power(3, M) >= u /\ Power(3, M) \in Nat
          BY <3>2, TernaryPowers
        <4> QED
          BY <3>1, <4>1
      <3>4. Reads(Ternary3C(v, M), Signed3C, v) /\ Len(Ternary3C(v, M)) = M + 1
        BY <2>3, <3>3, Ternary3CReads
      <3>5. text = Ternary3C(v, M)
        BY <1>1, <3>1, <3>2
      <3>6. ASSUME NEW m \in Nat \ {0} PROVE M + 1 <= m <=> Holds3C(v, m)
        <4>1. m - 1 \in Nat
          OBVIOUS
        <4>2. PICK x \in Nat : x = Power(3, m - 1) /\ (M <= m - 1 <=> x >= u)
          BY <3>2, <4>1, TernaryPowers
        <4> QED
          BY <2>3, <3>1, <4>2 DEF Holds3C
      <3> QED
        BY <3>4, <3>5, <3>6
    <2> QED
      BY <2>1, <2>2, <2>3
  <1>3. text # Thrown
    <2>1. text \in Seq(Characters) /\ text # <<>>
      BY <1>2 DEF Reads
    <2> QED
      BY <2>1, TextIsNotThrown
  <1> QED
    BY <1>1, <1>2, <1>3

(* Formatted again, to a length that holds it.                             *)
LEMMA ThreesFixed ==
  ASSUME NEW v \in Int, NEW n \in Nat, Len(Formatted(v, Signed3C)) < n
  PROVE  Reads(Ternary3C(v, n - 1), Signed3C, v) /\ Len(Ternary3C(v, n - 1)) = n
  <1>1. /\ Len(Formatted(v, Signed3C)) \in Nat \ {0}
        /\ \A m \in Nat \ {0} : Len(Formatted(v, Signed3C)) <= m <=> Holds3C(v, m)
    BY ThreesFormats
  <1>2. PICK j \in Nat \ {0} : j = n - 1 /\ n = j + 1
    BY <1>1
  <1>3. Holds3C(v, n) /\ Power(3, j) \in Nat
    <2>1. n \in Nat \ {0} /\ Len(Formatted(v, Signed3C)) <= n
      BY <1>1
    <2> QED
      BY <1>1, <2>1, TernaryPowers
  <1>4. (v >= 0 => j # 0 /\ v < Power(3, j)) /\ (v < 0 => -v <= Power(3, j))
    BY <1>2, <1>3 DEF Holds3C
  <1>5. Reads(Ternary3C(v, j), Signed3C, v) /\ Len(Ternary3C(v, j)) = j + 1
    BY <1>4, Ternary3CReads
  <1> QED
    BY <1>2, <1>5

-----------------------------------------------------------------------------
(* Balanced trits, and their pairs of bits.                                *)

(* What a text of balanced trits is read as.                               *)
LEMMA TritsRead ==
  ASSUME NEW text \in Seq(TritChars), text # <<>>
  PROVE  Reads(text, "Base3Balanced", Weigh(TritsOf(text), 3))
  <1>1. \A c \in TritChars : c \in Characters /\ c \in {Minus, 0, Plus}
    BY DEF TritChars, Characters, Minus, Plus
  <1>2. text \in Seq(Characters)
    BY <1>1, WiderAlphabet
  <1>3. \A k \in DOMAIN text : text[k] \in {Minus, 0, Plus}
    BY <1>1, ElementIs
  <1>4. Parses(text, "Base3Balanced")
    BY <1>3 DEF Parses
  <1>5. Parse(text, "Base3Balanced") = Weigh(TritsOf(text), 3)
    BY DEF Parse, Unsigned, TritsOf
  <1> QED
    BY <1>2, <1>4, <1>5 DEF Reads

(* The values of a text of trits, one by one.                              *)
LEMMA TritsHave ==
  ASSUME NEW text \in Seq(TritChars)
  PROVE  /\ TritsOf(text) \in Seq(Int) /\ Len(TritsOf(text)) = Len(text) /\ Len(text) \in Nat
         /\ \A k \in 1..Len(text) : TritsOf(text)[k] = TritOf(text[k]) /\ text[k] \in TritChars
  <1>1. \A d \in TritChars : TritOf(d) \in Int
    BY TritOfChar DEF TritChars
  <1>2. \A k \in 1..Len(text) : text[k] \in TritChars
    OBVIOUS
  <1>3. TritsOf(text) \in Seq(Int) /\ Len(TritsOf(text)) = Len(text)
    BY <1>1, <1>2 DEF TritsOf
  <1>4. \A k \in 1..Len(text) : TritsOf(text)[k] = TritOf(text[k])
    BY DEF TritsOf
  <1> QED
    BY <1>2, <1>3, <1>4

(* Zeros before trits.                                                     *)
LEMMA TritsPadded ==
  ASSUME NEW e \in Seq(TritChars), NEW n \in Nat
  PROVE  TritsOf(Padded(0, n, e)) = Padded(0, n, TritsOf(e))
  <1>0. 0 \in TritChars /\ 0 \in Int
    BY DEF TritChars
  <1>1. PICK p : p = Padded(0, n, e) /\ IsPadded(p, 0, n, e, TritChars)
    BY <1>0, PaddedIs
  <1>2. PICK t : t = TritsOf(e) /\ t \in Seq(Int) /\ Len(t) = Len(e) /\ Len(e) \in Nat
                 /\ \A k \in 1..Len(e) : t[k] = TritOf(e[k])
    BY TritsHave
  <1>3. PICK q : q = Padded(0, n, t) /\ IsPadded(q, 0, n, t, Int)
    BY <1>0, <1>2, PaddedIs
  <1>4. /\ p \in Seq(TritChars) /\ Len(p) = n + Len(e)
        /\ \A k \in 1..n + Len(e) : p[k] = IF k <= n THEN 0 ELSE e[k - n]
    BY <1>1 DEF IsPadded
  <1>5. /\ q \in Seq(Int) /\ Len(q) = n + Len(e)
        /\ \A k \in 1..n + Len(e) : q[k] = IF k <= n THEN 0 ELSE t[k - n]
    BY <1>2, <1>3 DEF IsPadded
  <1>6. PICK r : r = TritsOf(p) /\ r \in Seq(Int) /\ Len(r) = n + Len(e)
                 /\ \A k \in 1..n + Len(e) : r[k] = TritOf(p[k])
    BY <1>4, TritsHave, ZenonT(30)
  <1>7. ASSUME NEW k \in 1..n + Len(e) PROVE r[k] = q[k]
    <2>1. CASE k <= n
      BY <1>4, <1>5, <1>6, <2>1, TritOfChar
    <2>2. CASE ~(k <= n)
      <3>1. k - n \in 1..Len(e)
        BY <1>2, <2>2
      <3> QED
        BY <1>2, <1>4, <1>5, <1>6, <2>2, <3>1
    <2> QED
      BY <2>1, <2>2
  <1>8. r = q
    BY <1>5, <1>6, <1>7, SameText
  <1> QED
    BY <1>1, <1>2, <1>3, <1>6, <1>8

(* FormatBalancedTernary gives trits that weigh the value whatever zeros   *)
(* are put before them, and whose length tells which values a length       *)
(* holds.                                                                  *)
LEMMA BalancedFormats ==
  ASSUME NEW v \in Int, NEW n \in Nat
  PROVE  LET text == FormatBalancedTernary(v)
         IN  /\ Padded(0, n, text) \in Seq(TritChars) /\ Padded(0, n, text) # <<>>
             /\ Weigh(TritsOf(Padded(0, n, text)), 3) = v
             /\ Len(Padded(0, n, text)) = n + Len(text)
             /\ text \in Seq(TritChars) /\ Len(text) \in Nat \ {0}
             /\ \A m \in Nat \ {0} : Len(text) <= m <=> 2 * Magnitude(v) < Power(3, m)
  <1>1. PICK e \in Seq(TritChars) :
          /\ e = FormatBalancedTernary(v) /\ Len(e) \in Nat \ {0} /\ Weigh(TritsOf(e), 3) = v
          /\ \A m \in Nat \ {0} : Len(e) <= m <=> 2 * Magnitude(v) < Power(3, m)
    BY BalancedWeighs
  <1>2. 0 \in TritChars
    BY DEF TritChars
  <1>3. PICK p \in Seq(TritChars) : p = Padded(0, n, e) /\ Len(p) = n + Len(e)
    <2>1. Padded(0, n, e) \in Seq(TritChars) /\ Len(Padded(0, n, e)) = n + Len(e)
      BY <1>2, PaddedHas
    <2> QED
      BY <2>1
  <1>4. p # <<>>
    BY <1>1, <1>3
  <1>5. TritsOf(p) = Padded(0, n, TritsOf(e))
    BY <1>3, TritsPadded
  <1>6. Weigh(Padded(0, n, TritsOf(e)), 3) = Weigh(TritsOf(e), 3)
    <2>1. PICK b \in Nat : b = 3
      OBVIOUS
    <2>2. TritsOf(e) \in Seq(Int)
      BY TritsHave
    <2>3. Weigh(Padded(0, n, TritsOf(e)), b) = Weigh(TritsOf(e), b)
      BY <2>2, PaddedWeighs
    <2> QED
      BY <2>1, <2>3
  <1> QED
    BY <1>1, <1>3, <1>4, <1>5, <1>6

(* The bits of a trit.                                                     *)
LEMMA BitsHave ==
  ASSUME NEW p \in Seq(TritChars)
  PROVE  /\ BitsOf(p) \in Seq({0, 1}) /\ Len(BitsOf(p)) = 2 * Len(p) /\ Len(p) \in Nat
         /\ \A k \in 1..Len(p) :
              /\ 2 * k - 1 \in 1..2 * Len(p) /\ 2 * k \in 1..2 * Len(p)
              /\ BitsOf(p)[2 * k - 1] = (IF p[k] = Minus THEN 0 ELSE 1)
              /\ BitsOf(p)[2 * k] = (IF p[k] = Plus THEN 0 ELSE 1)
  <1> DEFINE bit(j) == IF p[(j + 1) \div 2] = (IF j % 2 = 1 THEN Minus ELSE Plus) THEN 0 ELSE 1
  <1>1. BitsOf(p) = [j \in 1..2 * Len(p) |-> bit(j)]
    BY DEF BitsOf
  <1>2. Len(p) \in Nat /\ 2 * Len(p) \in Nat
    OBVIOUS
  <1>3. \A j \in 1..2 * Len(p) : bit(j) \in {0, 1}
    OBVIOUS
  <1>4. ASSUME NEW k \in 1..Len(p)
        PROVE  /\ 2 * k - 1 \in 1..2 * Len(p) /\ 2 * k \in 1..2 * Len(p)
               /\ bit(2 * k - 1) = (IF p[k] = Minus THEN 0 ELSE 1)
               /\ bit(2 * k) = (IF p[k] = Plus THEN 0 ELSE 1)
    <2>1. 2 * k - 1 \in 1..2 * Len(p) /\ 2 * k \in 1..2 * Len(p)
      BY <1>2
    <2>2. ((2 * k - 1) + 1) \div 2 = k /\ (2 * k - 1) % 2 = 1
      OBVIOUS
    <2>3. (2 * k + 1) \div 2 = k /\ (2 * k) % 2 = 0
      OBVIOUS
    <2> QED
      BY <2>1, <2>2, <2>3
  <1> HIDE DEF bit
  <1>5. BitsOf(p) \in Seq({0, 1}) /\ Len(BitsOf(p)) = 2 * Len(p)
    BY <1>1, <1>2, <1>3
  <1>6. \A j \in 1..2 * Len(p) : BitsOf(p)[j] = bit(j)
    BY <1>1
  <1> QED
    BY <1>2, <1>4, <1>5, <1>6

(* A text of two elements is the pair of them.                             *)
LEMMA TwoElements ==
  ASSUME NEW D, NEW x \in D, NEW y \in D, NEW q \in Seq(D), Len(q) = 2, q[1] = x, q[2] = y
  PROVE  q = <<x, y>>
  <1>1. q \in [1..2 -> D]
    OBVIOUS
  <1>2. \A k \in 1..2 : k = 1 \/ k = 2
    OBVIOUS
  <1>3. <<x, y>> \in Seq(D) /\ Len(<<x, y>>) = 2
    OBVIOUS
  <1>4. \A k \in 1..2 : q[k] = <<x, y>>[k]
    BY <1>2
  <1> QED
    BY <1>3, <1>4, SameText

(* The k-th pair of a text of bits.                                        *)
LEMMA PairIs ==
  ASSUME NEW text \in Seq({0, 1}), NEW n \in Nat, Len(text) = 2 * n, NEW k \in 1..n
  PROVE  Pairs(text)[k] = <<text[2 * k - 1], text[2 * k]>> /\ DOMAIN Pairs(text) = 1..n
  <1>1. Len(text) \div 2 = n
    OBVIOUS
  <1>2. Pairs(text)[k] = SubSeq(text, 2 * k - 1, 2 * k) /\ DOMAIN Pairs(text) = 1..n
    BY <1>1 DEF Pairs
  <1>3. 2 * k - 1 \in 1..Len(text) /\ 2 * k \in 1..Len(text)
    OBVIOUS
  <1>4. SubSeq(text, 2 * k - 1, 2 * k) = <<text[2 * k - 1], text[2 * k]>>
    <2>1. PICK i \in 1..Len(text), j \in 1..Len(text) : i = 2 * k - 1 /\ j = 2 * k /\ j = i + 1
      BY <1>3
    <2>2. SubSeq(text, i, j) \in Seq({0, 1}) /\ Len(SubSeq(text, i, j)) = 2
      BY <2>1
    <2>3. SubSeq(text, i, j)[1] = text[i] /\ SubSeq(text, i, j)[2] = text[j]
      BY <2>1
    <2>4. SubSeq(text, i, j) = <<text[i], text[j]>>
      <3>1. PICK x \in {0, 1}, y \in {0, 1} : x = text[i] /\ y = text[j]
        BY <2>1
      <3>2. PICK q \in Seq({0, 1}) : q = SubSeq(text, i, j) /\ Len(q) = 2 /\ q[1] = x /\ q[2] = y
        BY <2>2, <2>3, <3>1
      <3>3. q = <<x, y>>
        BY <3>2, TwoElements
      <3> QED
        BY <3>1, <3>2, <3>3
    <2> QED
      BY <2>1, <2>4
  <1> QED
    BY <1>2, <1>4

(* What the bits of a text of trits are read as: BitsOf is inverse to the  *)
(* pairs that Parse reads.                                                 *)
LEMMA BitsRead ==
  ASSUME NEW p \in Seq(TritChars), p # <<>>
  PROVE  /\ Reads(BitsOf(p), "Base3BsdPnx", Weigh(TritsOf(p), 3))
         /\ DigitCount(BitsOf(p), "Base3BsdPnx") = Len(p)
         /\ Len(BitsOf(p)) % 2 = 0
  <1>1. PICK text \in Seq({0, 1}), n \in Nat \ {0} :
          /\ text = BitsOf(p) /\ n = Len(p) /\ Len(text) = 2 * n
          /\ \A k \in 1..n : /\ text[2 * k - 1] = (IF p[k] = Minus THEN 0 ELSE 1)
                             /\ text[2 * k] = (IF p[k] = Plus THEN 0 ELSE 1)
    <2>1. Len(p) \in Nat \ {0}
      OBVIOUS
    <2> QED
      BY <2>1, BitsHave
  <1>2. (2 * n) % 2 = 0 /\ (2 * n) \div 2 = n
    OBVIOUS
  <1>3. text # <<>> /\ Len(text) % 2 = 0 /\ Len(text) \div 2 = n
    BY <1>1, <1>2
  <1>4. ASSUME NEW k \in 1..n
        PROVE  /\ Pairs(text)[k] \in {<<1, 0>>, <<0, 1>>, <<1, 1>>}
               /\ Pairs(text)[k][1] - Pairs(text)[k][2] = TritOf(p[k])
    <2>1. p[k] \in TritChars
      BY <1>1, TritsHave
    <2>2. Pairs(text)[k] = <<text[2 * k - 1], text[2 * k]>>
      BY <1>1, PairIs
    <2>3. text[2 * k - 1] = (IF p[k] = Minus THEN 0 ELSE 1) /\ text[2 * k] = (IF p[k] = Plus THEN 0 ELSE 1)
      BY <1>1
    <2>4. CASE p[k] = Minus
      BY <2>2, <2>3, <2>4, TritOfChar
    <2>5. CASE p[k] = Plus
      BY <2>2, <2>3, <2>5, TritOfChar
    <2>6. CASE p[k] = 0
      BY <2>2, <2>3, <2>6, TritOfChar
    <2> QED
      BY <2>1, <2>4, <2>5, <2>6 DEF TritChars
  <1>5. DOMAIN Pairs(text) = 1..n
    BY <1>3 DEF Pairs
  <1>6. [k \in DOMAIN Pairs(text) |-> Pairs(text)[k][1] - Pairs(text)[k][2]] = TritsOf(p)
    <2>1. TritsOf(p) = [k \in 1..n |-> TritOf(p[k])]
      BY <1>1 DEF TritsOf
    <2> QED
      BY <1>4, <1>5, <2>1
  <1>7. Parses(text, "Base3BsdPnx")
    BY <1>3, <1>4, <1>5 DEF Parses
  <1>8. Parse(text, "Base3BsdPnx") = Weigh(TritsOf(p), 3)
    <2>1. Parse(text, "Base3BsdPnx") =
            Weigh([k \in DOMAIN Pairs(text) |-> Pairs(text)[k][1] - Pairs(text)[k][2]], 3)
      BY DEF Parse, Unsigned
    <2> QED
      BY <1>6, <2>1
  <1>9. text \in Seq(Characters)
    <2>1. \A c \in {0, 1} : c \in Characters
      BY DEF Characters
    <2> QED
      BY <2>1, WiderAlphabet
  <1>10. DigitCount(text, "Base3BsdPnx") = n
    BY <1>3 DEF DigitCount
  <1> QED
    BY <1>1, <1>3, <1>7, <1>8, <1>9, <1>10 DEF Reads

(* Two bits 1 are the trit 0.                                              *)
LEMMA BitsPadded ==
  ASSUME NEW e \in Seq(TritChars), NEW n \in Nat
  PROVE  BitsOf(Padded(0, n, e)) = Padded(1, 2 * n, BitsOf(e))
  <1>0. 0 \in TritChars /\ 1 \in {0, 1} /\ 2 * n \in Nat
    BY DEF TritChars
  <1>1. PICK p : p = Padded(0, n, e) /\ IsPadded(p, 0, n, e, TritChars)
    BY <1>0, PaddedIs
  <1>2. /\ p \in Seq(TritChars) /\ Len(p) = n + Len(e) /\ Len(e) \in Nat
        /\ \A k \in 1..n + Len(e) : p[k] = IF k <= n THEN 0 ELSE e[k - n]
    BY <1>1 DEF IsPadded
  <1>3. PICK t \in Seq({0, 1}) :
          /\ t = BitsOf(e) /\ Len(t) = 2 * Len(e)
          /\ \A k \in 1..Len(e) : /\ t[2 * k - 1] = (IF e[k] = Minus THEN 0 ELSE 1)
                                  /\ t[2 * k] = (IF e[k] = Plus THEN 0 ELSE 1)
    BY BitsHave
  <1>4. PICK q : q = Padded(1, 2 * n, t) /\ IsPadded(q, 1, 2 * n, t, {0, 1})
    BY <1>0, PaddedIs
  <1>5. /\ q \in Seq({0, 1}) /\ Len(q) = 2 * n + 2 * Len(e)
        /\ \A j \in 1..2 * n + 2 * Len(e) : q[j] = IF j <= 2 * n THEN 1 ELSE t[j - 2 * n]
    BY <1>3, <1>4 DEF IsPadded
  <1>6. PICK r \in Seq({0, 1}) :
          /\ r = BitsOf(p) /\ Len(r) = 2 * (n + Len(e))
          /\ \A k \in 1..n + Len(e) : /\ r[2 * k - 1] = (IF p[k] = Minus THEN 0 ELSE 1)
                                      /\ r[2 * k] = (IF p[k] = Plus THEN 0 ELSE 1)
    <2>1. PICK r \in Seq({0, 1}) :
            /\ r = BitsOf(p) /\ Len(r) = 2 * Len(p)
            /\ \A k \in 1..Len(p) : /\ r[2 * k - 1] = (IF p[k] = Minus THEN 0 ELSE 1)
                                    /\ r[2 * k] = (IF p[k] = Plus THEN 0 ELSE 1)
      BY <1>2, BitsHave
    <2> QED
      BY <1>2, <2>1
  <1>7. 2 * (n + Len(e)) = 2 * n + 2 * Len(e)
    BY <1>2
  <1>8. ASSUME NEW k \in 1..n + Len(e) PROVE r[2 * k - 1] = q[2 * k - 1] /\ r[2 * k] = q[2 * k]
    <2>0. 2 * k - 1 \in 1..2 * n + 2 * Len(e) /\ 2 * k \in 1..2 * n + 2 * Len(e)
      BY <1>2
    <2>1. CASE k <= n
      <3>1. p[k] = 0 /\ 2 * k - 1 <= 2 * n /\ 2 * k <= 2 * n
        BY <1>2, <2>1
      <3>2. r[2 * k - 1] = 1 /\ r[2 * k] = 1
        BY <1>6, <3>1, TritOfChar
      <3> QED
        BY <1>5, <2>0, <3>1, <3>2
    <2>2. CASE ~(k <= n)
      <3>1. PICK j \in 1..Len(e) : j = k - n /\ 2 * k - 1 - 2 * n = 2 * j - 1 /\ 2 * k - 2 * n = 2 * j
        <4>1. k - n \in 1..Len(e) /\ 2 * k - 1 - 2 * n = 2 * (k - n) - 1 /\ 2 * k - 2 * n = 2 * (k - n)
          BY <1>2, <2>2
        <4> QED
          BY <4>1
      <3>2. p[k] = e[j]
        BY <1>2, <2>2, <3>1
      <3>3. ~(2 * k - 1 <= 2 * n) /\ ~(2 * k <= 2 * n)
        BY <1>2, <2>2
      <3>4. q[2 * k - 1] = t[2 * j - 1] /\ q[2 * k] = t[2 * j]
        BY <1>5, <2>0, <3>1, <3>3
      <3> QED
        BY <1>3, <1>6, <3>2, <3>4
    <2> QED
      BY <2>1, <2>2
  <1>9. ASSUME NEW j \in 1..2 * (n + Len(e)) PROVE r[j] = q[j]
    <2>1. PICK k \in 1..n + Len(e) : j = 2 * k - 1 \/ j = 2 * k
      <3>1. (j + 1) \div 2 \in 1..n + Len(e)
            /\ (j = 2 * ((j + 1) \div 2) - 1 \/ j = 2 * ((j + 1) \div 2))
        BY <1>2
      <3> QED
        BY <3>1
    <2> QED
      BY <1>8, <2>1
  <1>10. r = q
    BY <1>5, <1>6, <1>7, <1>9, SameText
  <1> QED
    BY <1>1, <1>3, <1>4, <1>6, <1>10

-----------------------------------------------------------------------------
(* Decimals.                                                               *)

(* What decimal digits are read as, with a minus and without.              *)
LEMMA DecimalReads ==
  ASSUME NEW d \in Seq(0..9), d # <<>>
  PROVE  Reads(d, "Base10", Weigh(d, 10)) /\ Reads(<<Minus>> \o d, "Base10", -Weigh(d, 10))
  <1>1. PICK b \in Nat, radix \in {"Base10"} : b = 10 /\ b >= 2 /\ radix = "Base10" /\ b = Base(radix) /\ b <= 64
    BY DEF Base
  <1>2. HasDigits(d, radix) /\ d \in Seq(Characters)
    <2>1. radix # "Base64Rfc4648" /\ radix # "Base16Unsigned" /\ d \in Seq(0..b - 1)
      BY <1>1
    <2> QED
      BY <1>1, <2>1, PlainDigits
  <1>3. d[1] \notin {Plus, Minus} /\ Len(d) \in Nat \ {0}
    <2>1. 1 \in DOMAIN d /\ Len(d) \in Nat \ {0}
      OBVIOUS
    <2>2. d[1] \in 0..9
      BY <2>1
    <2> QED
      BY <2>1, <2>2 DEF Plus, Minus
  <1>4. Unsign(d) = d
    BY <1>3 DEF Unsign
  <1>5. PICK w \in Int : w = Weigh(d, 10)
    <2>1. Weigh(d, b) \in Nat
      BY <1>1, WeighBounds
    <2> QED
      BY <1>1, <2>1
  <1>6. Reads(d, "Base10", w)
    <2>1. Parses(d, "Base10")
      BY <1>1, <1>2, <1>4 DEF Parses
    <2>2. Parse(d, "Base10") = 1 * w
      BY <1>3, <1>4, <1>5 DEF Parse, Unsigned
    <2> QED
      BY <1>2, <2>1, <2>2 DEF Reads
  <1>7. PICK t \in Seq(Characters) : t = <<Minus>> \o d /\ t # <<>> /\ t[1] = Minus /\ Tail(t) = d
    <2>1. Minus \in Characters
      BY DEF Minus, Characters
    <2>2. IsFirst(<<Minus>> \o d, Minus, d, Characters)
      BY <1>2, <2>1, FirstIs
    <2> QED
      BY <2>2 DEF IsFirst
  <1>8. Unsign(t) = d
    BY <1>7 DEF Unsign
  <1>9. Reads(t, "Base10", -w)
    <2>1. Parses(t, "Base10")
      BY <1>1, <1>2, <1>8 DEF Parses
    <2>2. Parse(t, "Base10") = (-1) * w
      BY <1>5, <1>7, <1>8 DEF Parse, Unsigned
    <2>3. (-1) * w = -w
      OBVIOUS
    <2> QED
      BY <1>7, <2>1, <2>2, <2>3 DEF Reads
  <1> QED
    BY <1>5, <1>6, <1>7, <1>9

(* A decimal number reads as its value.                                    *)
LEMMA DecimalFormats ==
  ASSUME NEW v \in Int
  PROVE  LET text == Formatted(v, "Base10")
         IN  Reads(text, "Base10", v) /\ Len(text) \in Nat \ {0} /\ text # Thrown
  <1>1. PICK b \in Nat : b = 10 /\ b >= 2
    OBVIOUS
  <1>2. PICK u \in Nat : u = IF v < 0 THEN -v ELSE v
    OBVIOUS
  <1>3. PICK d \in Seq(0..9) : d = Expand(u, 10) /\ d # <<>> /\ Weigh(d, 10) = u
    <2>1. PICK d \in Seq(0..b - 1) : d = Expand(u, b) /\ Len(d) \in Nat \ {0} /\ Weigh(d, b) = u
      BY <1>1, ExpandWeighs
    <2>2. d # <<>>
      BY <2>1
    <2> QED
      BY <1>1, <2>1, <2>2
  <1>4. Reads(d, "Base10", u) /\ Reads(<<Minus>> \o d, "Base10", -u)
    BY <1>3, DecimalReads
  <1>5. PICK text : text = Formatted(v, "Base10") /\ text = IF v < 0 THEN <<Minus>> \o d ELSE d
    BY <1>2, <1>3 DEF Formatted, Unsigned
  <1>6. Reads(text, "Base10", v)
    <2>1. CASE v < 0
      <3>1. -u = v
        BY <1>2, <2>1
      <3> QED
        BY <1>4, <1>5, <2>1, <3>1
    <2>2. CASE ~(v < 0)
      BY <1>2, <1>4, <1>5, <2>2
    <2> QED
      BY <2>1, <2>2
  <1>7. text \in Seq(Characters) /\ text # <<>>
    BY <1>6 DEF Reads
  <1>8. text # Thrown /\ Len(text) \in Nat \ {0}
    <2>1. text # Thrown
      BY <1>7, TextIsNotThrown
    <2>2. Len(text) \in Nat \ {0}
      BY <1>7
    <2> QED
      BY <2>1, <2>2
  <1> QED
    BY <1>5, <1>6, <1>8

-----------------------------------------------------------------------------
(* A fixed length.                                                         *)

(* A formatted value at a fixed length, before the digits are put in       *)
(* order.                                                                  *)
Fixed(v, radix, n) ==
  IF Formatted(v, radix) = Thrown THEN Thrown
  ELSE ApplyFixedOutputLength(Formatted(v, radix), v, radix, n)

(* The radix of trits in two bits.                                         *)
BsdPnx == "Base3BsdPnx"

(* What a text of a fixed length is, once its radix and its number of      *)
(* digits are known.                                                       *)
LEMMA FixedIs ==
  ASSUME NEW v \in Int, NEW radix \in Radices, NEW n \in Nat, NEW text,
         text = Formatted(v, radix), text # Thrown, NEW digits \in Nat,
         digits = DigitCount(text, radix)
  PROVE  /\ n = 0 \/ digits = n => Fixed(v, radix, n) = text
         /\ n > 0 /\ digits > n => Fixed(v, radix, n) = Thrown
         /\ n > 0 /\ digits < n =>
              /\ radix = BsdPnx => Fixed(v, radix, n) = PadLeft(text, 2 * n, 1)
              /\ radix = Signed3C => Fixed(v, radix, n) = Ternary3C(v, n - 1)
              /\ radix \in {"Base2Signed1C", "Base2Signed2C", "Base3Signed2C"} =>
                   Fixed(v, radix, n) = PadLeft(text, n, text[1])
              /\ radix \in Unsigned \cup {"Base3Balanced", "Base10"} =>
                   Fixed(v, radix, n) = PadLeft(text, n, 0)
  <1>1. Fixed(v, radix, n) = ApplyFixedOutputLength(text, v, radix, n)
    BY DEF Fixed
  <1>2. n = 0 \/ digits = n => ApplyFixedOutputLength(text, v, radix, n) = text
    BY DEF ApplyFixedOutputLength
  <1>3. n > 0 /\ digits > n => ApplyFixedOutputLength(text, v, radix, n) = Thrown
    BY DEF ApplyFixedOutputLength
  <1>4. ASSUME n > 0, digits < n
        PROVE  ApplyFixedOutputLength(text, v, radix, n) =
                 CASE radix = "Base3BsdPnx" -> PadLeft(text, 2 * n, 1)
                   [] radix = "Base3Signed3C" -> Ternary3C(v, n - 1)
                   [] radix \in {"Base2Signed1C", "Base2Signed2C", "Base3Signed2C"} ->
                        PadLeft(text, n, text[1])
                   [] OTHER -> PadLeft(text, n, 0)
    <2>1. ~(n = 0 \/ digits = n) /\ ~(n > 0 /\ digits > n)
      BY <1>4
    <2> QED
      BY <2>1 DEF ApplyFixedOutputLength
  <1>5. ASSUME n > 0, digits < n
        PROVE  /\ radix = BsdPnx => Fixed(v, radix, n) = PadLeft(text, 2 * n, 1)
               /\ radix = Signed3C => Fixed(v, radix, n) = Ternary3C(v, n - 1)
               /\ radix \in {"Base2Signed1C", "Base2Signed2C", "Base3Signed2C"} =>
                    Fixed(v, radix, n) = PadLeft(text, n, text[1])
               /\ radix \in Unsigned \cup {"Base3Balanced", "Base10"} =>
                    Fixed(v, radix, n) = PadLeft(text, n, 0)
    BY <1>1, <1>4, <1>5 DEF BsdPnx, Signed3C, Unsigned
  <1> QED
    BY <1>1, <1>2, <1>3, <1>5

(* Padding keeps the value, in the radices where it repeats one character. *)
Pads(text, c, radix, v) ==
  /\ text \in Seq(Characters) /\ Len(text) \in Nat \ {0} /\ c \in Characters
  /\ Reads(text, radix, v)
  /\ radix \notin {"Base64Rfc4648", "Base10"} => \A j \in Nat : Reads(Padded(c, j, text), radix, v)

(* Every formatted text reads as its value when it is padded as            *)
(* ApplyFixedOutputLength pads it: with its sign, or with zeros.           *)
LEMMA Padding ==
  ASSUME NEW v \in Int, NEW radix \in Radices \ {BsdPnx, Signed3C}, Formatted(v, radix) # Thrown
  PROVE  LET text == Formatted(v, radix)
         IN  Pads(text, IF radix \in {"Base2Signed1C", "Base2Signed2C", "Base3Signed2C"} THEN text[1] ELSE 0,
                  radix, v)
  <1>1. PICK text : text = Formatted(v, radix)
    OBVIOUS
  <1>0. 0 \in Characters
    BY DEF Characters
  <1>2. ASSUME text \in Seq(Characters), Len(text) \in Nat \ {0}
        PROVE  text[1] \in Characters /\ \A c \in Characters : Padded(c, 0, text) = text
    <2>1. text[1] \in Characters
      BY <1>2
    <2>2. ASSUME NEW c \in Characters PROVE Padded(c, 0, text) = text
      <3>1. 0 \in Nat
        OBVIOUS
      <3> QED
        BY <1>2, <3>1, PaddedStep, ZenonT(30)
    <2> QED
      BY <2>1, <2>2
  <1>3. CASE radix \in Unsigned
    <2>1. v \in Nat
      BY <1>3 DEF Formatted, Unsigned
    <2>2. text \in Seq(Characters) /\ Len(text) \in Nat \ {0}
      <3>1. 0 \in Nat
        OBVIOUS
      <3> QED
        BY <1>1, <1>3, <2>1, <3>1, UnsignedFormats
    <2>3. ASSUME NEW j \in Nat, j = 0 \/ radix # "Base64Rfc4648" PROVE Reads(Padded(0, j, text), radix, v)
      BY <1>1, <1>3, <2>1, <2>3, UnsignedFormats
    <2>4. Reads(text, radix, v)
      <3>1. 0 \in Nat
        OBVIOUS
      <3>2. Reads(Padded(0, 0, text), radix, v)
        BY <2>3, <3>1
      <3> QED
        BY <1>0, <1>2, <2>2, <3>2
    <2>5. radix \notin {"Base2Signed1C", "Base2Signed2C", "Base3Signed2C"}
      BY <1>3 DEF Unsigned
    <2> QED
      BY <1>0, <1>1, <2>2, <2>3, <2>4, <2>5 DEF Pads
  <1>4. CASE radix \in Complements \cup {"Base2Signed2C"}
    <2>1. text \in Seq(Characters) /\ Len(text) \in Nat \ {0}
      <3>1. 0 \in Nat
        OBVIOUS
      <3> QED
        BY <1>1, <1>4, <3>1, ComplementFormats, TwosFormats
    <2>2. ASSUME NEW j \in Nat PROVE Reads(Padded(text[1], j, text), radix, v)
      BY <1>1, <1>4, ComplementFormats, TwosFormats
    <2>3. Reads(text, radix, v) /\ text[1] \in Characters
      <3>1. Reads(Padded(text[1], 0, text), radix, v)
        BY <2>2
      <3> QED
        BY <1>2, <2>1, <3>1
    <2>4. radix \in {"Base2Signed1C", "Base2Signed2C", "Base3Signed2C"}
      BY <1>4 DEF Complements
    <2> QED
      BY <1>1, <2>1, <2>2, <2>3, <2>4 DEF Pads
  <1>5. CASE radix = "Base3Balanced"
    <2>1. text = FormatBalancedTernary(v)
      BY <1>1, <1>5 DEF Formatted, Unsigned
    <2>2. ASSUME NEW j \in Nat PROVE Reads(Padded(0, j, text), radix, v)
      <3>1. /\ Padded(0, j, text) \in Seq(TritChars) /\ Padded(0, j, text) # <<>>
            /\ Weigh(TritsOf(Padded(0, j, text)), 3) = v
        BY <2>1, BalancedFormats
      <3> QED
        BY <1>5, <3>1, TritsRead
    <2>3. text \in Seq(Characters) /\ Len(text) \in Nat \ {0}
      <3>1. text \in Seq(TritChars) /\ Len(text) \in Nat \ {0}
        BY <2>1, BalancedWeighs
      <3>2. \A c \in TritChars : c \in Characters
        BY DEF TritChars, Characters, Minus, Plus
      <3> QED
        BY <3>1, <3>2, WiderAlphabet
    <2>4. Reads(text, radix, v)
      <3>1. Reads(Padded(0, 0, text), radix, v)
        BY <2>2
      <3> QED
        BY <1>0, <1>2, <2>3, <3>1
    <2>5. radix \notin {"Base2Signed1C", "Base2Signed2C", "Base3Signed2C"}
      BY <1>5
    <2> QED
      BY <1>0, <1>1, <2>2, <2>3, <2>4, <2>5 DEF Pads
  <1>6. CASE radix = "Base10"
    <2>1. Reads(text, radix, v) /\ Len(text) \in Nat \ {0}
      BY <1>1, <1>6, DecimalFormats
    <2>2. text \in Seq(Characters)
      BY <2>1 DEF Reads
    <2>3. radix \notin {"Base2Signed1C", "Base2Signed2C", "Base3Signed2C"}
      BY <1>6
    <2> QED
      BY <1>0, <1>1, <1>6, <2>1, <2>2, <2>3 DEF Pads
  <1>7. radix \in Unsigned \/ radix \in Complements \cup {"Base2Signed2C"} \/ radix = "Base3Balanced" \/ radix = "Base10"
    BY DEF Radices, Unsigned, Complements, BsdPnx, Signed3C
  <1> QED
    BY <1>3, <1>4, <1>5, <1>6, <1>7

(* A number of a fixed length reads as it was, or does not fit.            *)
LEMMA FixedReads ==
  ASSUME NEW v \in Int, NEW radix \in Radices, NEW n \in Nat,
         Formatted(v, radix) # Thrown, n = 0 \/ radix \notin {"Base64Rfc4648", "Base10"}
  PROVE  LET digits == DigitCount(Formatted(v, radix), radix)
         IN  /\ digits \in Nat \ {0}
             /\ n = 0 \/ digits <= n =>
                  /\ Reads(Fixed(v, radix, n), radix, v)
                  /\ n > 0 => DigitCount(Fixed(v, radix, n), radix) = n
                  /\ radix = BsdPnx => Len(Fixed(v, radix, n)) % 2 = 0
             /\ n > 0 /\ digits > n => Fixed(v, radix, n) = Thrown
  <1>1. PICK text : text = Formatted(v, radix) /\ text # Thrown
    OBVIOUS
  <1>2. CASE radix \in Radices \ {BsdPnx, Signed3C}
    <2>1. PICK c : Pads(text, c, radix, v)
                   /\ c = IF radix \in {"Base2Signed1C", "Base2Signed2C", "Base3Signed2C"} THEN text[1] ELSE 0
      BY <1>1, <1>2, Padding
    <2>2. PICK digits \in Nat \ {0} : digits = Len(text) /\ digits = DigitCount(text, radix)
      BY <1>2, <2>1 DEF Pads, DigitCount, BsdPnx
    <2>3. ASSUME n > 0, digits < n
          PROVE  Reads(Fixed(v, radix, n), radix, v) /\ Len(Fixed(v, radix, n)) = n
      <3>1. PICK j \in Nat : j = n - digits
        BY <2>3
      <3>2. Fixed(v, radix, n) = PadLeft(text, n, c)
        <4>1. CASE radix \in {"Base2Signed1C", "Base2Signed2C", "Base3Signed2C"}
          BY <1>1, <2>1, <2>2, <2>3, <4>1, FixedIs
        <4>2. CASE radix \notin {"Base2Signed1C", "Base2Signed2C", "Base3Signed2C"}
          <5>1. radix \in Unsigned \cup {"Base3Balanced", "Base10"}
            BY <1>2, <4>2 DEF Radices, BsdPnx, Signed3C
          <5> QED
            BY <1>1, <2>1, <2>2, <2>3, <4>2, <5>1, FixedIs
        <4> QED
          BY <4>1, <4>2
      <3>3. text \in Seq(Characters) /\ c \in Characters
        BY <2>1 DEF Pads
      <3>4. PadLeft(text, n, c) = Padded(c, j, text)
        BY <2>2, <3>1, <3>3, PadLeftIs
      <3>5. Reads(Padded(c, j, text), radix, v)
        BY <2>1, <2>3 DEF Pads
      <3>6. Len(Padded(c, j, text)) = j + Len(text)
        <4>1. IsPadded(Padded(c, j, text), c, j, text, Characters)
          BY <3>3, PaddedIs
        <4> QED
          BY <4>1 DEF IsPadded
      <3> QED
        BY <2>2, <3>1, <3>2, <3>4, <3>5, <3>6
    <2>4. (n = 0 \/ digits = n) => Fixed(v, radix, n) = text
      BY <1>1, <2>2, FixedIs
    <2>5. n > 0 /\ digits > n => Fixed(v, radix, n) = Thrown
      BY <1>1, <2>2, FixedIs
    <2>6. Reads(text, radix, v)
      BY <2>1 DEF Pads
    <2>7. ASSUME n = 0 \/ digits <= n
          PROVE  /\ Reads(Fixed(v, radix, n), radix, v)
                 /\ n > 0 => DigitCount(Fixed(v, radix, n), radix) = n
      <3>1. CASE n = 0 \/ digits = n
        BY <2>2, <2>4, <2>6, <3>1
      <3>2. CASE ~(n = 0 \/ digits = n)
        <4>1. n > 0 /\ digits < n
          BY <2>7, <3>2
        <4> QED
          BY <1>2, <2>3, <4>1 DEF DigitCount, BsdPnx
      <3> QED
        BY <3>1, <3>2
    <2>8. radix # BsdPnx
      BY <1>2
    <2> QED
      BY <1>1, <2>2, <2>5, <2>7, <2>8
  <1>3. CASE radix = Signed3C
    <2>1. Reads(text, radix, v) /\ Len(text) \in Nat \ {0}
      BY <1>1, <1>3, ThreesFormats
    <2>2. PICK digits \in Nat \ {0} : digits = Len(text) /\ digits = DigitCount(text, radix)
      BY <1>3, <2>1 DEF DigitCount, Signed3C
    <2>3. ASSUME n > 0, digits < n
          PROVE  Reads(Fixed(v, radix, n), radix, v) /\ Len(Fixed(v, radix, n)) = n
      <3>1. Fixed(v, radix, n) = Ternary3C(v, n - 1)
        BY <1>1, <1>3, <2>2, <2>3, FixedIs
      <3>2. Reads(Ternary3C(v, n - 1), Signed3C, v) /\ Len(Ternary3C(v, n - 1)) = n
        BY <1>1, <1>3, <2>2, <2>3, ThreesFixed
      <3> QED
        BY <1>3, <3>1, <3>2
    <2>4. (n = 0 \/ digits = n) => Fixed(v, radix, n) = text
      BY <1>1, <2>2, FixedIs
    <2>5. n > 0 /\ digits > n => Fixed(v, radix, n) = Thrown
      BY <1>1, <2>2, FixedIs
    <2>7. ASSUME n = 0 \/ digits <= n
          PROVE  /\ Reads(Fixed(v, radix, n), radix, v)
                 /\ n > 0 => DigitCount(Fixed(v, radix, n), radix) = n
      <3>1. CASE n = 0 \/ digits = n
        BY <2>1, <2>2, <2>4, <3>1
      <3>2. CASE ~(n = 0 \/ digits = n)
        <4>1. n > 0 /\ digits < n
          BY <2>7, <3>2
        <4> QED
          BY <1>3, <2>3, <4>1 DEF DigitCount, Signed3C
      <3> QED
        BY <3>1, <3>2
    <2>8. radix # BsdPnx
      BY <1>3 DEF BsdPnx, Signed3C
    <2> QED
      BY <1>1, <2>2, <2>5, <2>7, <2>8
  <1>4. CASE radix = BsdPnx
    <2>1. PICK e \in Seq(TritChars) : e = FormatBalancedTernary(v) /\ Len(e) \in Nat \ {0}
      BY BalancedWeighs
    <2>2. text = BitsOf(e)
      BY <1>1, <1>4, <2>1 DEF Formatted, Unsigned, BsdPnx
    <2>3. ASSUME NEW j \in Nat
          PROVE  /\ Reads(BitsOf(Padded(0, j, e)), radix, v)
                 /\ DigitCount(BitsOf(Padded(0, j, e)), radix) = j + Len(e)
                 /\ Len(BitsOf(Padded(0, j, e))) % 2 = 0
      <3>1. PICK p \in Seq(TritChars) : /\ p = Padded(0, j, e) /\ p # <<>> /\ Weigh(TritsOf(p), 3) = v
                                        /\ Len(p) = j + Len(e)
        BY <2>1, BalancedFormats
      <3>2. /\ Reads(BitsOf(p), "Base3BsdPnx", Weigh(TritsOf(p), 3))
            /\ DigitCount(BitsOf(p), "Base3BsdPnx") = Len(p)
            /\ Len(BitsOf(p)) % 2 = 0
        BY <3>1, BitsRead
      <3> QED
        BY <1>4, <3>1, <3>2 DEF BsdPnx
    <2>4. Reads(text, radix, v) /\ DigitCount(text, radix) = Len(e) /\ Len(text) % 2 = 0
      <3>1. 0 \in Nat /\ 0 \in TritChars /\ 0 + Len(e) = Len(e)
        BY <2>1 DEF TritChars
      <3>2. Padded(0, 0, e) = e
        BY <3>1, PaddedStep
      <3> QED
        BY <2>2, <2>3, <3>1, <3>2
    <2>5. PICK digits \in Nat \ {0} : digits = Len(e) /\ digits = DigitCount(text, radix)
      BY <2>1, <2>4
    <2>6. ASSUME n > 0, digits < n
          PROVE  /\ Reads(Fixed(v, radix, n), radix, v) /\ DigitCount(Fixed(v, radix, n), radix) = n
                 /\ Len(Fixed(v, radix, n)) % 2 = 0
      <3>1. PICK j \in Nat : j = n - digits /\ j + Len(e) = n
        BY <2>5, <2>6
      <3>2. Fixed(v, radix, n) = PadLeft(text, 2 * n, 1)
        BY <1>1, <1>4, <2>5, <2>6, FixedIs
      <3>3. text \in Seq({0, 1}) /\ Len(text) = 2 * Len(e)
        BY <2>2, BitsHave
      <3>4. 2 * n - Len(text) = 2 * j
        <4>1. 2 * n - 2 * digits = 2 * j
          BY <3>1
        <4>2. Len(text) = 2 * digits
          BY <2>5, <3>3
        <4> QED
          BY <4>1, <4>2
      <3>5. PadLeft(text, 2 * n, 1) = Padded(1, 2 * j, text)
        BY <3>3, <3>4, PadLeftIs
      <3>6. BitsOf(Padded(0, j, e)) = Padded(1, 2 * j, BitsOf(e))
        BY BitsPadded
      <3>7. Fixed(v, radix, n) = BitsOf(Padded(0, j, e))
        BY <2>2, <3>2, <3>5, <3>6
      <3> QED
        BY <2>3, <3>1, <3>7
    <2>7. (n = 0 \/ digits = n) => Fixed(v, radix, n) = text
      BY <1>1, <2>5, FixedIs
    <2>8. n > 0 /\ digits > n => Fixed(v, radix, n) = Thrown
      BY <1>1, <2>5, FixedIs
    <2>9. ASSUME n = 0 \/ digits <= n
          PROVE  /\ Reads(Fixed(v, radix, n), radix, v)
                 /\ n > 0 => DigitCount(Fixed(v, radix, n), radix) = n
                 /\ Len(Fixed(v, radix, n)) % 2 = 0
      <3>1. CASE n = 0 \/ digits = n
        BY <2>4, <2>5, <2>7, <3>1
      <3>2. CASE ~(n = 0 \/ digits = n)
        <4>1. n > 0 /\ digits < n
          BY <2>9, <3>2
        <4> QED
          BY <2>6, <4>1
      <3> QED
        BY <3>1, <3>2
    <2> QED
      BY <1>1, <2>5, <2>8, <2>9
  <1> QED
    BY <1>2, <1>3, <1>4

-----------------------------------------------------------------------------
(* What a text is read as is a number.                                     *)

(* What digits weigh is a number.                                          *)
LEMMA WeighIsInt ==
  ASSUME NEW b \in Nat, NEW d \in Seq(Int)
  PROVE  Weigh(d, b) \in Int
  <1>1. 0 \in Int
    OBVIOUS
  <1> QED
    BY <1>1, WeighSteps

(* In each of the bases that have a sign.                                  *)
LEMMA WeighIsIntIn ==
  ASSUME NEW d \in Seq(Int), NEW n \in Nat
  PROVE  /\ Weigh(d, 2) \in Int /\ Weigh(d, 3) \in Int /\ Weigh(d, 10) \in Int
         /\ Power(2, n) \in Int /\ Power(3, n) \in Int
  <1>1. PICK b \in Nat : b = 2
    OBVIOUS
  <1>2. PICK c \in Nat : c = 3
    OBVIOUS
  <1>3. PICK e \in Nat : e = 10
    OBVIOUS
  <1>4. Weigh(d, b) \in Int /\ Weigh(d, c) \in Int /\ Weigh(d, e) \in Int
    BY WeighIsInt
  <1>5. Power(2, n) \in Nat /\ Power(3, n) \in Nat
    BY TwosPowers, TernaryPowers
  <1> QED
    BY <1>1, <1>2, <1>3, <1>4, <1>5

(* What a text that parses is read as is a number.                         *)
LEMMA ParseIsInt ==
  ASSUME NEW text \in Seq(Characters), text # <<>>, NEW radix \in Radices, Parses(text, radix)
  PROVE  Parse(text, radix) \in Int
  <1>1. Len(text) \in Nat \ {0} /\ \A k \in DOMAIN text : text[k] \in Characters
    BY ElementIs
  <1>2. \A c \in Characters : c \in Int
    BY DEF Characters
  <1>3. text \in Seq(Int)
    BY <1>2, WiderAlphabet
  <1>4. Tail(text) \in Seq(Int) /\ text[1] \in Int
    <2>1. 1 \in DOMAIN text
      BY <1>1
    <2> QED
      BY <1>3, <2>1
  <1>5. CASE radix \in Unsigned
    <2>1. ASSUME NEW k \in DOMAIN text PROVE ValueOfDigit(text[k], radix) \in Int
      <3>1. PICK c \in Int : c = text[k]
        BY <1>1, <1>2
      <3>2. ValueOf64(c) \in Int /\ ValueOfHex(c) \in Int /\ NoDigit \in Int
        BY DEF ValueOf64, ValueOfHex, NoDigit
      <3>3. ValueOfDigit(c, radix) \in {ValueOf64(c), ValueOfHex(c), c, NoDigit}
        BY DEF ValueOfDigit
      <3> QED
        BY <3>1, <3>2, <3>3
    <2>2. ValuesOf(text, radix) \in Seq(Int)
      BY <2>1 DEF ValuesOf
    <2>3. Base(radix) \in Nat
      BY <1>5, Bases
    <2>4. Weigh(ValuesOf(text, radix), Base(radix)) \in Int
      BY <2>2, <2>3, WeighIsInt
    <2>5. Parse(text, radix) = Weigh(ValuesOf(text, radix), Base(radix))
      BY <1>5 DEF Parse, ValuesOf, Unsigned
    <2> QED
      BY <2>4, <2>5
  <1>6. CASE radix \in Complements
    <2>1. PICK b \in {2, 3} : Parse(text, radix) = ParseComplement(text, b)
      <3>1. Parse(text, radix) = ParseComplement(text, IF radix = "Base2Signed1C" THEN 2 ELSE 3)
        BY <1>6 DEF Parse, Unsigned, Complements
      <3> QED
        BY <3>1
    <2>2. PICK rest \in Seq(Int) : rest = Tail(text)
      BY <1>4
    <2>3. Flip(rest, b) \in Seq(Int)
      BY <2>2 DEF Flip
    <2>4. Weigh(rest, b) \in Int /\ Weigh(Flip(rest, b), b) \in Int
      BY <2>3, WeighIsInt
    <2>5. ParseComplement(text, b) \in {Weigh(rest, b), -Weigh(Flip(rest, b), b)}
      BY <2>2 DEF ParseComplement
    <2>6. -Weigh(Flip(rest, b), b) \in Int
      BY <2>4
    <2> QED
      BY <2>1, <2>4, <2>5, <2>6
  <1>7. CASE radix = "Base2Signed2C"
    <2>1. Parse(text, radix) \in {Weigh(Tail(text), 2), Weigh(text, 2) - Power(2, Len(text))}
      BY <1>7 DEF Parse, Unsigned
    <2>2. Weigh(Tail(text), 2) \in Int /\ Weigh(text, 2) \in Int /\ Power(2, Len(text)) \in Int
      BY <1>1, <1>3, <1>4, WeighIsIntIn
    <2> QED
      BY <2>1, <2>2
  <1>8. CASE radix = "Base3Signed3C"
    <2>1. PICK rest \in Seq(Int) : rest = Tail(text)
      BY <1>4
    <2>2. Parse(text, radix) = Weigh(rest, 3) - text[1] * Power(3, Len(rest))
      BY <1>8, <2>1 DEF Parse, Unsigned
    <2>3. Len(rest) \in Nat
      OBVIOUS
    <2>4. PICK w \in Int, x \in Int : w = Weigh(rest, 3) /\ x = Power(3, Len(rest))
      BY <2>3, WeighIsIntIn
    <2>5. text[1] * x \in Int
      BY <1>4
    <2> QED
      BY <2>2, <2>4, <2>5
  <1>9. CASE radix = "Base3Balanced"
    <2>1. Parse(text, radix) = Weigh([k \in DOMAIN text |-> TritOf(text[k])], 3)
      BY <1>9 DEF Parse, Unsigned
    <2>2. \A k \in DOMAIN text : TritOf(text[k]) \in Int
      BY DEF TritOf
    <2>3. [k \in DOMAIN text |-> TritOf(text[k])] \in Seq(Int)
      BY <2>2
    <2> QED
      BY <1>1, <2>1, <2>3, WeighIsIntIn
  <1>10. CASE radix = "Base3BsdPnx"
    <2>1. Parse(text, radix) = Weigh([k \in DOMAIN Pairs(text) |-> Pairs(text)[k][1] - Pairs(text)[k][2]], 3)
      BY <1>10 DEF Parse, Unsigned
    <2>2. \A k \in DOMAIN Pairs(text) : Pairs(text)[k] \in {<<1, 0>>, <<0, 1>>, <<1, 1>>}
      BY <1>10 DEF Parses
    <2>3. \A k \in DOMAIN Pairs(text) : Pairs(text)[k][1] - Pairs(text)[k][2] \in Int
      BY <2>2
    <2>4. DOMAIN Pairs(text) = 1..Len(text) \div 2 /\ Len(text) \div 2 \in Nat
      BY <1>1 DEF Pairs
    <2>5. [k \in DOMAIN Pairs(text) |-> Pairs(text)[k][1] - Pairs(text)[k][2]] \in Seq(Int)
      BY <2>3, <2>4
    <2> QED
      BY <1>1, <2>1, <2>5, WeighIsIntIn
  <1>11. CASE radix = "Base10"
    <2>1. Unsign(text) \in Seq(Int)
      BY <1>3, <1>4 DEF Unsign
    <2>2. PICK w \in Int : w = Weigh(Unsign(text), 10)
      BY <1>1, <2>1, WeighIsIntIn
    <2>3. Parse(text, radix) = (IF text[1] = Minus THEN -1 ELSE 1) * w
      BY <1>11, <2>2 DEF Parse, Unsigned
    <2> QED
      BY <2>2, <2>3
  <1>12. \/ radix \in Unsigned \/ radix \in Complements
         \/ radix \in {"Base2Signed2C", "Base3Signed3C", "Base3Balanced", "Base3BsdPnx", "Base10"}
    BY DEF Radices, Complements
  <1> QED
    BY <1>5, <1>6, <1>7, <1>8, <1>9, <1>10, <1>11, <1>12

-----------------------------------------------------------------------------
(* The order of the digits.                                                *)

(* LsdFirst is its own inverse.                                            *)
IsMirror(m, text, radix) ==
  m \in Seq(Characters) /\ m # <<>> /\ Len(m) = Len(text) /\ LsdFirst(m, radix) = text

(* A function of 1..n is a text of n characters.                           *)
LEMMA TextOf ==
  ASSUME NEW D, NEW n \in Nat, NEW f \in [1..n -> D]
  PROVE  f \in Seq(D) /\ Len(f) = n
  OBVIOUS

(* A text rearranged by a permutation that is its own inverse.             *)
LEMMA Rearranged ==
  ASSUME NEW D, NEW n \in Nat, NEW s \in Seq(D), Len(s) = n, NEW at, at \in [1..n -> 1..n],
         \A k \in 1..n : at[at[k]] = k,
         NEW r, r = [k \in 1..n |-> s[at[k]]], NEW t, t = [k \in 1..n |-> r[at[k]]]
  PROVE  r \in Seq(D) /\ Len(r) = n /\ t = s /\ \A k \in 1..n : r[k] = s[at[k]]
  <1>1. \A k \in 1..n : at[k] \in 1..n /\ s[k] \in D
    OBVIOUS
  <1>2. \A k \in 1..n : r[k] = s[at[k]] /\ r[k] \in D
    BY <1>1
  <1>3. r \in [1..n -> D]
    BY <1>2
  <1>4. r \in Seq(D) /\ Len(r) = n
    BY <1>3, TextOf
  <1>5. \A k \in 1..n : t[k] = s[k]
    BY <1>1, <1>2
  <1>6. t \in [1..n -> D]
    BY <1>1, <1>2
  <1>7. t \in Seq(D) /\ Len(t) = n
    BY <1>6, TextOf
  <1>8. t = s
    BY <1>5, <1>7, SameText
  <1> QED
    BY <1>2, <1>4, <1>8

(* Reversing twice gives the text back.                                    *)
LEMMA ReverseIs ==
  ASSUME NEW D, NEW s \in Seq(D)
  PROVE  Reverse(s) \in Seq(D) /\ Len(Reverse(s)) = Len(s) /\ Reverse(Reverse(s)) = s /\ Len(s) \in Nat
         /\ \A k \in 1..Len(s) : Reverse(s)[k] = s[(Len(s) - k) + 1]
  <1>1. PICK n \in Nat : n = Len(s)
    OBVIOUS
  <1> DEFINE at == [k \in 1..n |-> (n - k) + 1]
  <1>2. \A k \in 1..n : (n - k) + 1 \in 1..n /\ (n - ((n - k) + 1)) + 1 = k
    OBVIOUS
  <1>3. at \in [1..n -> 1..n] /\ (\A k \in 1..n : at[at[k]] = k) /\ \A k \in 1..n : at[k] = (n - k) + 1
    BY <1>2
  <1> HIDE DEF at
  <1>4. PICK r : r = Reverse(s) /\ r = [k \in 1..n |-> s[at[k]]]
    BY <1>1, <1>3 DEF Reverse
  <1>5. \A t : t = [k \in 1..n |-> r[at[k]]] => r \in Seq(D) /\ Len(r) = n /\ t = s /\ \A k \in 1..n : r[k] = s[at[k]]
    BY <1>1, <1>3, <1>4, Rearranged
  <1>6. r \in Seq(D) /\ Len(r) = n /\ \A k \in 1..n : r[k] = s[at[k]]
    BY <1>5
  <1>7. Reverse(r) = [k \in 1..n |-> r[at[k]]]
    BY <1>3, <1>6 DEF Reverse
  <1>8. Reverse(r) = s
    BY <1>5, <1>7
  <1> QED
    BY <1>1, <1>3, <1>4, <1>6, <1>8

(* So does reversing the pairs twice.                                      *)
LEMMA ReversePairsIs ==
  ASSUME NEW D, NEW s \in Seq(D), Len(s) % 2 = 0
  PROVE  ReversePairs(s) \in Seq(D) /\ Len(ReversePairs(s)) = Len(s) /\ ReversePairs(ReversePairs(s)) = s
  <1>1. PICK n \in Nat : n = Len(s) /\ n % 2 = 0
    OBVIOUS
  <1> DEFINE back(j) == IF j % 2 = 1 THEN n - j ELSE n - j + 2
             at == [j \in 1..n |-> back(j)]
  <1>2. ASSUME NEW j \in 1..n PROVE back(j) \in 1..n /\ back(back(j)) = j
    <2>1. CASE j % 2 = 1
      <3>1. n - j \in 1..n /\ (n - j) % 2 = 1 /\ n - (n - j) = j
        BY <1>1, <2>1
      <3> QED
        BY <2>1, <3>1
    <2>2. CASE j % 2 # 1
      <3>1. j >= 2 /\ (n - j + 2) % 2 = 0 /\ n - (n - j + 2) + 2 = j
        BY <1>1, <2>2
      <3>2. n - j + 2 \in 1..n
        BY <3>1
      <3> QED
        BY <2>2, <3>1, <3>2
    <2> QED
      BY <2>1, <2>2
  <1>3. \A t : Len(t) = n /\ DOMAIN t = 1..n => ReversePairs(t) = [j \in 1..n |-> t[back(j)]]
    BY DEF ReversePairs
  <1> HIDE DEF back
  <1>4. at \in [1..n -> 1..n] /\ (\A k \in 1..n : at[at[k]] = k) /\ \A k \in 1..n : at[k] = back(k)
    BY <1>2
  <1> HIDE DEF at
  <1>5. PICK r : r = ReversePairs(s) /\ r = [k \in 1..n |-> s[at[k]]]
    BY <1>1, <1>3, <1>4
  <1>6. \A t : t = [k \in 1..n |-> r[at[k]]] => r \in Seq(D) /\ Len(r) = n /\ t = s
    BY <1>1, <1>4, <1>5, Rearranged
  <1>7. r \in Seq(D) /\ Len(r) = n
    BY <1>6
  <1>8. ReversePairs(r) = [k \in 1..n |-> r[at[k]]]
    BY <1>3, <1>4, <1>7
  <1>9. ReversePairs(r) = s
    BY <1>6, <1>8
  <1> QED
    BY <1>1, <1>5, <1>7, <1>9

(* A decimal has no minus but its first character.                         *)
LEMMA DecimalDigits ==
  ASSUME NEW text \in Seq(Characters), text # <<>>, Parses(text, "Base10"), NEW k \in 2..Len(text)
  PROVE  text[k] # Minus
  <1>1. PICK u : u = Unsign(text) /\ \A j \in DOMAIN u : ValueOfDigit(u[j], "Base10") # NoDigit
    BY DEF Parses, HasDigits
  <1>2. ValueOfDigit(Minus, "Base10") = NoDigit
    BY DEF ValueOfDigit, Minus, NoDigit, Base
  <1>3. CASE text[1] \in {Plus, Minus}
    <2>1. u = Tail(text)
      BY <1>1, <1>3 DEF Unsign
    <2>2. k - 1 \in DOMAIN u /\ u[k - 1] = text[k]
      BY <2>1
    <2> QED
      BY <1>1, <1>2, <2>2
  <1>4. CASE text[1] \notin {Plus, Minus}
    <2>1. u = text
      BY <1>1, <1>4 DEF Unsign
    <2>2. k \in DOMAIN u
      BY <2>1
    <2> QED
      BY <1>1, <1>2, <2>1, <2>2
  <1> QED
    BY <1>3, <1>4

(* Putting the least significant digit first is its own inverse, in every  *)
(* radix.                                                                  *)
LEMMA Mirrors ==
  ASSUME NEW text \in Seq(Characters), text # <<>>, NEW radix \in Radices,
         radix = BsdPnx => Len(text) % 2 = 0, Parses(text, radix)
  PROVE  IsMirror(LsdFirst(text, radix), text, radix)
  <1>0. Len(text) \in Nat \ {0}
    OBVIOUS
  <1>1. CASE radix = BsdPnx
    <2>1. \A t : LsdFirst(t, radix) = ReversePairs(t)
      BY <1>1 DEF LsdFirst, BsdPnx
    <2>2. PICK m \in Seq(Characters) : m = ReversePairs(text) /\ Len(m) = Len(text) /\ ReversePairs(m) = text
      BY <1>1, ReversePairsIs
    <2>3. m # <<>>
      BY <1>0, <2>2
    <2> QED
      BY <2>1, <2>2, <2>3 DEF IsMirror
  <1>2. CASE radix = "Base10" /\ text[1] = Minus
    <2>1. \A t : t[1] = Minus => LsdFirst(t, radix) = <<Minus>> \o Reverse(Tail(t))
      BY <1>2 DEF LsdFirst
    <2>2. PICK rest \in Seq(Characters) : rest = Tail(text) /\ Len(rest) = Len(text) - 1
      <3>1. Tail(text) \in Seq(Characters)
        OBVIOUS
      <3>2. Len(Tail(text)) = Len(text) - 1
        OBVIOUS
      <3> QED
        BY <3>1, <3>2
    <2>3. PICK back \in Seq(Characters) : back = Reverse(rest) /\ Len(back) = Len(rest) /\ Reverse(back) = rest
      BY ReverseIs
    <2>4. Minus \in Characters
      BY DEF Minus, Characters
    <2>5. PICK m \in Seq(Characters) : m = <<Minus>> \o back /\ m # <<>> /\ Len(m) = Len(back) + 1
                                       /\ m[1] = Minus /\ Tail(m) = back
      <3>1. IsFirst(<<Minus>> \o back, Minus, back, Characters)
        BY <2>4, FirstIs
      <3> QED
        BY <3>1 DEF IsFirst
    <2>6. LsdFirst(text, radix) = m /\ LsdFirst(m, radix) = <<Minus>> \o rest
      BY <1>2, <2>1, <2>2, <2>3, <2>5
    <2>7. <<Minus>> \o rest = text
      <3>1. IsFirst(<<Minus>> \o rest, Minus, rest, Characters)
        BY <2>4, FirstIs
      <3>2. PICK t \in Seq(Characters) : t = <<Minus>> \o rest /\ Len(t) = Len(rest) + 1 /\ t[1] = Minus
                                         /\ \A k \in 1..Len(rest) : t[k + 1] = rest[k]
        BY <3>1 DEF IsFirst
      <3>3. ASSUME NEW k \in 1..Len(t) PROVE t[k] = text[k]
        <4>1. CASE k = 1
          BY <1>2, <3>2, <4>1
        <4>2. CASE k # 1
          <5>1. PICK j \in 1..Len(rest) : k = j + 1
            <6>1. k - 1 \in 1..Len(rest) /\ k = (k - 1) + 1
              BY <1>0, <2>2, <3>2, <4>2
            <6> QED
              BY <6>1
          <5>2. rest[j] = text[j + 1]
            BY <2>2
          <5> QED
            BY <3>2, <5>1, <5>2
        <4> QED
          BY <4>1, <4>2
      <3>4. Len(t) = Len(text)
        BY <1>0, <2>2, <3>2
      <3>5. t = text
        BY <3>3, <3>4, SameText
      <3> QED
        BY <3>2, <3>5
    <2>8. Len(m) = Len(text)
      <3>1. \A n \in Nat : (n - 1) + 1 = n
        OBVIOUS
      <3> QED
        BY <1>0, <2>2, <2>3, <2>5, <3>1
    <2> QED
      BY <2>5, <2>6, <2>7, <2>8 DEF IsMirror
  <1>3. CASE radix # BsdPnx /\ ~(radix = "Base10" /\ text[1] = Minus)
    <2>1. \A t : ~(radix = "Base10" /\ t[1] = Minus) => LsdFirst(t, radix) = Reverse(t)
      BY <1>3 DEF LsdFirst, BsdPnx
    <2>2. PICK m \in Seq(Characters) : /\ m = Reverse(text) /\ Len(m) = Len(text) /\ Reverse(m) = text
                                       /\ \A k \in 1..Len(text) : m[k] = text[(Len(text) - k) + 1]
      BY ReverseIs
    <2>3. m # <<>>
      BY <1>0, <2>2
    <2>4. ~(radix = "Base10" /\ m[1] = Minus)
      <3>1. SUFFICES ASSUME radix = "Base10" PROVE m[1] # Minus
        OBVIOUS
      <3>2. m[1] = text[Len(text)]
        <4>1. 1 \in 1..Len(text) /\ (Len(text) - 1) + 1 = Len(text)
          BY <1>0
        <4> QED
          BY <2>2, <4>1
      <3>3. CASE Len(text) = 1
        BY <1>3, <3>1, <3>2, <3>3
      <3>4. CASE Len(text) # 1
        <4>1. Len(text) \in 2..Len(text)
          <5>1. \A n \in Nat \ {0} : n # 1 => n \in 2..n
            OBVIOUS
          <5> QED
            BY <1>0, <3>4, <5>1
        <4> QED
          BY <3>1, <3>2, <4>1, DecimalDigits
      <3> QED
        BY <3>3, <3>4
    <2>5. LsdFirst(text, radix) = m /\ LsdFirst(m, radix) = text
      BY <1>3, <2>1, <2>2, <2>4
    <2> QED
      BY <2>2, <2>3, <2>5 DEF IsMirror
  <1> QED
    BY <1>1, <1>2, <1>3 DEF BsdPnx

-----------------------------------------------------------------------------
(* Conversions.                                                            *)

(* A text with its most significant digit first.                           *)
FirstDigitFirst(text, radix, lsdFirst) == IF lsdFirst THEN LsdFirst(text, radix) ELSE text

(* A value that has no text of n digits.                                   *)
Misfit(v, radix, n) ==
  \/ Formatted(v, radix) = Thrown
  \/ n > 0 /\ DigitCount(Formatted(v, radix), radix) > n

(* What Format returns reads as the value, and has the length asked for.   *)
LEMMA FormatReads ==
  ASSUME NEW v \in Int, NEW radix \in Radices, NEW options, NEW n \in Nat, n = options.output,
         NEW lsdFirst \in BOOLEAN, lsdFirst = options.lsdFirst,
         n = 0 \/ radix \notin {"Base64Rfc4648", "Base10"}
  PROVE  LET out == Format(v, radix, options)
         IN  /\ Misfit(v, radix, n) => out = Thrown
             /\ ~Misfit(v, radix, n) =>
                  /\ out \in Seq(Characters) /\ out # <<>> /\ out # Thrown
                  /\ Reads(FirstDigitFirst(out, radix, lsdFirst), radix, v)
                  /\ n > 0 => DigitCount(out, radix) = n
  <1>1. PICK fixed : fixed = Fixed(v, radix, n)
    OBVIOUS
  <1>2. Format(v, radix, options) = IF fixed = Thrown \/ ~lsdFirst THEN fixed ELSE LsdFirst(fixed, radix)
    BY <1>1 DEF Format, Fixed
  <1>3. CASE Formatted(v, radix) = Thrown
    <2>1. fixed = Thrown
      BY <1>1, <1>3 DEF Fixed
    <2> QED
      BY <1>2, <1>3, <2>1 DEF Misfit
  <1>4. CASE Formatted(v, radix) # Thrown
    <2>1. PICK digits \in Nat \ {0} :
            /\ digits = DigitCount(Formatted(v, radix), radix)
            /\ n = 0 \/ digits <= n =>
                 /\ Reads(fixed, radix, v)
                 /\ n > 0 => DigitCount(fixed, radix) = n
                 /\ radix = BsdPnx => Len(fixed) % 2 = 0
            /\ n > 0 /\ digits > n => fixed = Thrown
      BY <1>1, <1>4, FixedReads
    <2>2. CASE n > 0 /\ digits > n
      BY <1>2, <2>1, <2>2 DEF Misfit
    <2>3. CASE ~(n > 0 /\ digits > n)
      <3>1. n = 0 \/ digits <= n
        BY <2>3
      <3>2. ~Misfit(v, radix, n)
        BY <1>4, <2>1, <2>3 DEF Misfit
      <3>3. /\ fixed \in Seq(Characters) /\ fixed # <<>> /\ Parses(fixed, radix) /\ Reads(fixed, radix, v)
            /\ n > 0 => DigitCount(fixed, radix) = n
            /\ radix = BsdPnx => Len(fixed) % 2 = 0
        BY <2>1, <3>1 DEF Reads
      <3>4. fixed # Thrown
        BY <3>3, TextIsNotThrown
      <3>5. CASE ~lsdFirst
        <4>1. Format(v, radix, options) = fixed
          BY <1>2, <3>5
        <4>2. FirstDigitFirst(fixed, radix, lsdFirst) = fixed
          BY <3>5 DEF FirstDigitFirst
        <4> QED
          BY <3>2, <3>3, <3>4, <4>1, <4>2
      <3>6. CASE lsdFirst
        <4>1. PICK m : m = LsdFirst(fixed, radix) /\ IsMirror(m, fixed, radix)
          BY <3>3, Mirrors
        <4>2. m \in Seq(Characters) /\ m # <<>> /\ Len(m) = Len(fixed) /\ LsdFirst(m, radix) = fixed
          BY <4>1 DEF IsMirror
        <4>3. Format(v, radix, options) = m
          BY <1>2, <3>4, <3>6, <4>1
        <4>4. FirstDigitFirst(m, radix, lsdFirst) = fixed
          BY <3>6, <4>2 DEF FirstDigitFirst
        <4>5. DigitCount(m, radix) = DigitCount(fixed, radix)
          BY <4>2 DEF DigitCount
        <4>6. m # Thrown
          BY <4>2, TextIsNotThrown
        <4> QED
          BY <3>2, <3>3, <4>2, <4>3, <4>4, <4>5, <4>6
      <3> QED
        BY <3>5, <3>6
    <2> QED
      BY <2>2, <2>3
  <1> QED
    BY <1>3, <1>4

(* An input that is converted.                                             *)
Accepted(text, from, options) ==
  Parses(text, from) /\ (options.input = 0 \/ DigitCount(text, from) <= options.input)

(* Convert of a text that is not empty: what it accepts, and what it       *)
(* gives.                                                                  *)
LEMMA Converts ==
  ASSUME NEW text \in Seq(Characters), text # <<>>, NEW from \in Radices, NEW to, NEW options,
         options.input \in Nat
  PROVE  Convert(text, from, to, options) =
           IF Accepted(text, from, options) THEN Format(Parse(text, from), to, options) ELSE Thrown
  <1>1. DigitCount(text, from) \in Nat
    <2>1. Len(text) \in Nat /\ Len(text) \div 2 \in Nat
      OBVIOUS
    <2> QED
      BY <2>1 DEF DigitCount
  <1>2. (options.input > 0 /\ DigitCount(text, from) > options.input) <=>
          ~(options.input = 0 \/ DigitCount(text, from) <= options.input)
    BY <1>1
  <1> QED
    BY <1>2 DEF Convert, Accepted

(* Format and Parse are inverse: what an input was converted to reads as   *)
(* what the input reads as, in each of the fourteen radices, in either     *)
(* order of the digits and at every fixed length, but where "0" is not a   *)
(* leading zero (RadixConverter.cs:22-131, 433-601).                       *)
THEOREM ConversionReadsBack ==
  ASSUME NEW text \in Seq(Characters), NEW from \in Radices, NEW to \in Radices, NEW options,
         NEW lsdFirst \in BOOLEAN, NEW n \in Nat,
         options.input \in Nat, lsdFirst = options.lsdFirst, n = options.output,
         ~(n > 0 /\ to \in {"Base64Rfc4648", "Base10"}),
         NEW out, out = Convert(text, from, to, options), out \notin {<<>>, Thrown}
  PROVE  Reads(FirstDigitFirst(out, to, lsdFirst), to, Parse(text, from))
  <1>1. text # <<>>
    BY DEF Convert
  <1>2. out = IF Accepted(text, from, options) THEN Format(Parse(text, from), to, options) ELSE Thrown
    BY <1>1, Converts
  <1>3. Accepted(text, from, options) /\ out = Format(Parse(text, from), to, options)
    BY <1>2
  <1>4. PICK v \in Int : v = Parse(text, from)
    BY <1>1, <1>3, ParseIsInt DEF Accepted
  <1>5. n = 0 \/ to \notin {"Base64Rfc4648", "Base10"}
    OBVIOUS
  <1>6. /\ Misfit(v, to, n) => out = Thrown
        /\ ~Misfit(v, to, n) => Reads(FirstDigitFirst(out, to, lsdFirst), to, v)
    BY <1>3, <1>4, <1>5, FormatReads
  <1> QED
    BY <1>4, <1>6

=============================================================================
