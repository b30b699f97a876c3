----------------------------- MODULE MC_Issuance -----------------------------
(* Instances of IssuanceOperations: one quote with one operation, or with  *)
(* an operation and its operator retry; two processes.                     *)
EXTENDS IssuanceOperations, TLC

CONSTANTS q1, o1, o2, p1, p2, r1

MCQuotes == {q1}
MCOps == {o1, o2}
MCOneOp == {o1}
MCProcs == {p1, p2}
MCRenderings == {r1}
MCQuoteOf == [o \in MCOps |-> q1]
MCOneQuoteOf == [o \in MCOneOp |-> q1]
MCBackoff == <<1>>
MCSymmetry == Permutations(MCProcs) \cup Permutations(MCOps)
=============================================================================
