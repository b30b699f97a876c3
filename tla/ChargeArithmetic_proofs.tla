------------------------ MODULE ChargeArithmetic_proofs ------------------------
(* Rounding rounds to the nearest whole peso and every charge is consistent,  *)
(* for every scale, amount, quantity, basis and rate.                         *)
EXTENDS ChargeArithmetic, TLAPS

(* A product by a positive number is monotone.                                *)
LEMMA ProductIsMonotone ==
  ASSUME NEW d \in Nat \ {0}, NEW a \in Int, NEW b \in Int, a <= b
  PROVE  d * a <= d * b
OBVIOUS

(* Division with remainder, by a positive number.                             *)
LEMMA QuotientBounds ==
  ASSUME NEW n \in Nat, NEW d \in Nat \ {0}
  PROVE  n \div d \in Nat /\ d * (n \div d) <= n /\ n < d * (n \div d) + d
OBVIOUS

(* halfUp rounds to the nearest whole number, upwards when two are as near:   *)
(* what one rounding per charge (arithmetic.ts:30) rests on.                  *)
THEOREM HalfUpIsNearest ==
  ASSUME NEW n \in Nat, NEW d \in Nat \ {0}
  PROVE  HalfUp(n, d) \in Nat /\ Nearest(n, d, HalfUp(n, d))
<1> DEFINE m == HalfUp(n, d)
<1>1. 2 * n + d \in Nat /\ 2 * d \in Nat \ {0}
  OBVIOUS
<1>2. m \in Nat /\ (2 * d) * m <= 2 * n + d /\ 2 * n + d < (2 * d) * m + 2 * d
  BY <1>1, QuotientBounds DEF HalfUp
<1>3. 2 * d * (m + 1) = (2 * d) * m + 2 * d
  BY <1>2
<1> QED
  BY <1>2, <1>3 DEF Nearest

(* Rounding n / d up cannot pass a whole number that n / d does not exceed.   *)
LEMMA HalfUpIsBounded ==
  ASSUME NEW n \in Nat, NEW d \in Nat \ {0}, NEW k \in Nat, n <= d * k
  PROVE  HalfUp(n, d) <= k
<1> DEFINE m == HalfUp(n, d)
<1>1. m \in Nat /\ 2 * d * m <= 2 * n + d
  BY HalfUpIsNearest DEF Nearest
<1>2. SUFFICES ASSUME m >= k + 1 PROVE FALSE
  BY <1>1
<1>3. (2 * d) * (k + 1) <= (2 * d) * m
  BY <1>1, <1>2, ProductIsMonotone
<1>4. (2 * d) * (k + 1) = 2 * (d * k) + 2 * d /\ d * k \in Nat
  OBVIOUS
<1>5. 2 * (d * k) + 2 * d <= 2 * n + d
  BY <1>1, <1>3, <1>4
<1> QED
  BY <1>4, <1>5

(* Every charge the owner computes has whole non-negative amounts that add    *)
(* up, and no tax when exempt: what the amounts checks of quote_lines and     *)
(* quote_shipping require, for every unit amount, quantity, basis and rate.   *)
THEOREM ChargesAreConsistent ==
  ASSUME NEW unit \in Nat, NEW quantity \in Nat, NEW basis \in Bases, NEW rate \in Nat
  PROVE  Consistent(ChargeAmounts(unit, quantity, basis, rate), basis)
<1> DEFINE ext == HalfUp(unit * quantity, Micro)
           net == HalfUp(ext * Micro, Micro + rate)
           tax == HalfUp(ext * rate, Micro)
<1>1. Micro \in Nat \ {0} /\ Micro + rate \in Nat \ {0}
  BY ArithmeticAssumption DEF ArithmeticAssumption
<1>2. unit * quantity \in Nat
  OBVIOUS
<1>3. ext \in Nat
  BY <1>1, <1>2, HalfUpIsNearest
<1>4. ext * Micro \in Nat /\ ext * rate \in Nat
  BY <1>1, <1>3
<1>5. net \in Nat /\ tax \in Nat
  BY <1>1, <1>4, HalfUpIsNearest
<1>6. ext * Micro <= (Micro + rate) * ext
  BY <1>1, <1>3
<1>7. net <= ext
  BY <1>1, <1>3, <1>4, <1>6, HalfUpIsBounded
<1> HIDE DEF ext, net, tax
<1>8. CASE basis = "exempt"
  <2>1. ChargeAmounts(unit, quantity, basis, rate) = [net |-> ext, tax |-> 0, gross |-> ext]
    BY <1>8 DEF ChargeAmounts, ext
  <2> QED
    BY <2>1, <1>3 DEF Consistent
<1>9. CASE basis = "included"
  <2>1. ChargeAmounts(unit, quantity, basis, rate) = [net |-> net, tax |-> ext - net, gross |-> ext]
    BY <1>9 DEF ChargeAmounts, ext, net
  <2> QED
    BY <2>1, <1>3, <1>5, <1>7, <1>9 DEF Consistent
<1>10. CASE basis = "excluded"
  <2>1. ChargeAmounts(unit, quantity, basis, rate) = [net |-> ext, tax |-> tax, gross |-> ext + tax]
    BY <1>10 DEF ChargeAmounts, ext, tax
  <2> QED
    BY <2>1, <1>3, <1>5, <1>10 DEF Consistent
<1> QED
  BY <1>8, <1>9, <1>10 DEF Bases
=============================================================================
