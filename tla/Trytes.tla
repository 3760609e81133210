------------------------------- MODULE Trytes -------------------------------
(***************************************************************************)
(* Trits, trytes and their roles (CharTStringConverter: Trit.cs, Tryte.cs, *)
(* TryteRole.cs). A tryte is a sequence of six trits, the most significant *)
(* first; TritHelper's positional digit of a trit t is t + 1.              *)
(***************************************************************************)
EXTENDS Integers, Sequences

Trit == {-1, 0, 1}
TryteLength == 6   \* Tryte.Length
Tryte == [1..TryteLength -> Trit]

BalancedSum(t) == t[1] + t[2] + t[3] + t[4] + t[5] + t[6]

(* The role a tryte's leading trits give it.                               *)
GetRole(t) ==
  CASE t[1] = -1                                         -> "final"
    [] t[1] = 0 /\ t[2] = 0                              -> "middle2"
    [] t[1] = 0 /\ t[2] # 0                              -> "middle1"
    [] t[1] = 1 /\ t[2] = -1                             -> "lead2"
    [] t[1] = 1 /\ t[2] = 1 /\ t[3] = -1                 -> "lead3"
    [] t[1] = 1 /\ t[2] = 1 /\ t[3] = 1 /\ t[4] = -1     -> "lead4"
    [] OTHER                                             -> "single"

(* The last count digits of value in base 3, as trits.                     *)
ExtractTrits(value, count) ==
  LET rest[k \in 0..count] == IF k = 0 THEN value ELSE rest[k - 1] \div 3
  IN  [j \in 1..count |-> (rest[count - j] % 3) - 1]

(* The number whose base-3 digits, as trits, are given.                    *)
PayloadToOffset(trits) ==
  LET offset[j \in 0..Len(trits)] ==
        IF j = 0 THEN 0 ELSE 3 * offset[j - 1] + (trits[j] + 1)
  IN  offset[Len(trits)]
=============================================================================
