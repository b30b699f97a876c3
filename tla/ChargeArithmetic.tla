--------------------------- MODULE ChargeArithmetic ---------------------------
(* The owner's arithmetic (application/quote-v2/arithmetic.ts): whole pesos,  *)
(* quantities and tax rates as integers scaled by 10^6, half-up rounding once *)
(* per charge, totals as sums of rounded charges.                             *)
EXTENDS Integers, Functions

CONSTANTS
    Micro,    \* SCALE, 10^6 in the code
    MaxClp    \* MAX_CLP_AMOUNT, 2^53 - 1 in the code

ASSUME ArithmeticAssumption == Micro \in Nat \ {0} /\ MaxClp \in Nat

Bases == {"included", "excluded", "exempt"}

HalfUp(n, d) == (2 * n + d) \div (2 * d)

(* quantity and rate are scaled; an exempt charge has no rate.               *)
ChargeAmounts(unitAmount, quantity, basis, rate) ==
  LET extension == HalfUp(unitAmount * quantity, Micro)
      net == HalfUp(extension * Micro, Micro + rate)
      tax == HalfUp(extension * rate, Micro)
  IN CASE basis = "exempt"   -> [net |-> extension, tax |-> 0, gross |-> extension]
       [] basis = "included" -> [net |-> net, tax |-> extension - net, gross |-> extension]
       [] basis = "excluded" -> [net |-> extension, tax |-> tax, gross |-> extension + tax]

Sum(f) == FoldFunction(+, 0, f)

(* charges is a function to records of amounts and their basis.              *)
SumTotals(charges) ==
  [net   |-> Sum([c \in DOMAIN charges |-> charges[c].net]),
   tax   |-> Sum([c \in DOMAIN charges |-> charges[c].tax]),
   gross |-> Sum([c \in DOMAIN charges |-> charges[c].gross]),
   exemptNet |-> Sum([c \in DOMAIN charges |->
                        IF charges[c].basis = "exempt" THEN charges[c].net ELSE 0])]

(* computeSnapshot: what the charges of a snapshot come to (the shipping one   *)
(* has quantity 1, that is Micro), and when it is rejected with 422 because    *)
(* an amount is out of range.                                                 *)
Priced(snapshot) ==
  [c \in DOMAIN snapshot |->
     LET s == snapshot[c]
         a == ChargeAmounts(s.amount, s.quantity, s.basis, s.rate)
     IN [net |-> a.net, tax |-> a.tax, gross |-> a.gross, basis |-> s.basis]]

Overflows(snapshot) ==
  \/ \E c \in DOMAIN snapshot : Priced(snapshot)[c].gross > MaxClp
  \/ SumTotals(Priced(snapshot)).gross > MaxClp

-----------------------------------------------------------------------------
(* What the contract requires of the amounts of one charge.                  *)
Consistent(a, basis) ==
  /\ a.net \in Nat /\ a.tax \in Nat /\ a.gross \in Nat
  /\ a.net + a.tax = a.gross
  /\ basis = "exempt" => a.tax = 0

(* The nearest whole number, the larger one of two equally near.             *)
Nearest(n, d, m) == 2 * d * m <= 2 * n + d /\ 2 * n + d < 2 * d * (m + 1)
=============================================================================
