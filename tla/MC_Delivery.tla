----------------------------- MODULE MC_Delivery -----------------------------
(* Instances of DeliveryExecution: one quote with one delivery, one or two *)
(* processes.                                                              *)
EXTENDS DeliveryExecution, TLC

CONSTANTS q1, d1, p1, p2

MCQuotes == {q1}
MCDeliveries == {d1}
MCProcs == {p1, p2}
MCOneProc == {p1}
MCQuoteOf == [d \in MCDeliveries |-> q1]
MCValidUntil == [q \in MCQuotes |-> 4]
MCShortValidity == [q \in MCQuotes |-> 2]
MCDelays == <<1>>
MCProcSymmetry == Permutations(MCProcs)
=============================================================================
