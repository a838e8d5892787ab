-------------------------- MODULE Conditions_proofs --------------------------
(* Facts about JVM Int arithmetic, for every width of an Int.              *)
EXTENDS Conditions, TLAPS

(* Any integer is wrapped into the range of a JVM Int.                     *)
LEMMA WrapType == \A x \in Int : Wrap(x) \in JInt
<1> SUFFICES ASSUME NEW x \in Int PROVE Wrap(x) \in JInt
  OBVIOUS
<1>1. 2 * IntHalf \in Nat \ {0}
  BY IntHalfAssumption
<1>2. \A y \in Int, n \in Nat \ {0} : y % n \in 0 .. n - 1
  OBVIOUS
<1>3. (x + IntHalf) % (2 * IntHalf) \in 0 .. 2 * IntHalf - 1
  BY <1>1, <1>2, IntHalfAssumption
<1> QED
  BY <1>3, IntHalfAssumption DEF Wrap, JInt

(* Wrapping changes nothing that already fits.                             *)
LEMMA WrapIdentity == \A x \in JInt : Wrap(x) = x
<1> SUFFICES ASSUME NEW x \in JInt PROVE Wrap(x) = x
  OBVIOUS
<1>1. \A n \in Nat \ {0} : \A y \in 0 .. n - 1 : y % n = y
  OBVIOUS
<1>2. x + IntHalf \in 0 .. 2 * IntHalf - 1
  BY IntHalfAssumption DEF JInt
<1>3. (x + IntHalf) % (2 * IntHalf) = x + IntHalf
  BY <1>1, <1>2, IntHalfAssumption
<1> QED
  BY <1>3, IntHalfAssumption DEF Wrap, JInt

(* Truncating division keeps a quotient within the bounds of its terms.    *)
LEMMA QuotientBounds ==
    ASSUME NEW a \in Int, NEW n \in Nat \ {0}, NEW lo \in Int, NEW hi \in Int,
           lo <= 0, 0 <= hi, n * lo <= a, a <= n * hi
    PROVE  Quotient(a, n) \in lo .. hi
<1>1. CASE a >= 0
  <2>1. a \div n \in Int /\ n * (a \div n) <= a /\ 0 <= a \div n
    BY <1>1
  <2>2. a \div n <= hi
    BY <2>1
  <2> QED BY <1>1, <2>1, <2>2 DEF Quotient
<1>2. CASE a < 0
  <2>1. (-a) \div n \in Int /\ n * ((-a) \div n) <= -a /\ 0 <= (-a) \div n
    BY <1>2
  <2>2. (-a) \div n <= -lo
    BY <2>1
  <2> QED BY <1>2, <2>1, <2>2 DEF Quotient
<1> QED BY <1>1, <1>2

(* Dividing an Int by the size of a queue yields an Int.                   *)
LEMMA QuotientType ==
    ASSUME NEW a \in JInt, NEW n \in Nat \ {0}
    PROVE  Quotient(a, n) \in JInt
<1>1. n * (-IntHalf) <= -IntHalf /\ IntHalf - 1 <= n * (IntHalf - 1)
  BY IntHalfAssumption
<1>2. /\ n * (-IntHalf) <= a /\ a <= n * (IntHalf - 1) /\ a \in Int
      /\ -IntHalf \in Int /\ IntHalf - 1 \in Int /\ -IntHalf <= 0 /\ 0 <= IntHalf - 1
  BY <1>1, IntHalfAssumption DEF JInt
<1> QED BY <1>2, QuotientBounds DEF JInt
==============================================================================
