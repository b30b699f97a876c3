--------------------------- MODULE QuoteLifecycle ---------------------------
(***************************************************************************)
(* The life of a quote, as its readers may rely on it: the transitions     *)
(* T1-T12 of the state machine on the status, the outcome of the current   *)
(* issuance operation, the document and the version of each quote.         *)
(*                                                                         *)
(* How many requests, workers, leases, retries and jobs it takes to make   *)
(* one of these steps is the business of the modules that implement them.  *)
(***************************************************************************)
EXTENDS Naturals

CONSTANT Quotes

VARIABLES
    phase,      \* absent, draft, issuing, issued, cancelled, expired
    outcome,    \* of the current operation: none, running, failed, succeeded
    document,   \* whether the quote has its document
    version

vars == <<phase, outcome, document, version>>

Init ==
    /\ \/ phase = [q \in Quotes |-> "absent"] /\ version = [q \in Quotes |-> 0]
       \/ phase = [q \in Quotes |-> "draft"] /\ version = [q \in Quotes |-> 1]
    /\ outcome = [q \in Quotes |-> "none"]
    /\ document = [q \in Quotes |-> FALSE]

Step(q, newPhase, newOutcome, newDocument, increment) ==
    /\ phase' = [phase EXCEPT ![q] = newPhase]
    /\ outcome' = [outcome EXCEPT ![q] = newOutcome]
    /\ document' = [document EXCEPT ![q] = newDocument]
    /\ version' = [version EXCEPT ![q] = version[q] + increment]

Create(q) == phase[q] = "absent" /\ Step(q, "draft", "none", FALSE, 1)              \* T1
CreateIssuing(q) == phase[q] = "absent" /\ Step(q, "issuing", "running", FALSE, 1)  \* T4
Edit(q) == phase[q] = "draft" /\ Step(q, "draft", "none", FALSE, 1)                 \* T2
Issue(q) == phase[q] = "draft" /\ Step(q, "issuing", "running", FALSE, 1)           \* T3

IssuingWith(q, o) == phase[q] = "issuing" /\ outcome[q] = o

(* T5: the status, the outcome and the document change together.           *)
Complete(q) == IssuingWith(q, "running") /\ Step(q, "issued", "succeeded", TRUE, 1)
Fail(q) == IssuingWith(q, "running") /\ Step(q, "issuing", "failed", FALSE, 0)      \* T6, T12
Retry(q) == IssuingWith(q, "failed") /\ Step(q, "issuing", "running", FALSE, 1)     \* T10

(* T7, T8, T11: never while an operation may still run.                    *)
Cancel(q) ==
    /\ phase[q] \in {"draft", "issued"} \/ IssuingWith(q, "failed")
    /\ Step(q, "cancelled", outcome[q], document[q], 1)

Expire(q) == phase[q] = "issued" /\ Step(q, "expired", outcome[q], document[q], 1)  \* T9

Next == \E q \in Quotes :
    \/ Create(q) \/ CreateIssuing(q) \/ Edit(q) \/ Issue(q)
    \/ Complete(q) \/ Fail(q) \/ Retry(q) \/ Cancel(q) \/ Expire(q)

Spec == Init /\ [][Next]_vars
=============================================================================
