----------------------- MODULE DeliveryExecution_proofs -----------------------
(***************************************************************************)
(* Proofs about DeliveryExecution, for every set of quotes, deliveries and *)
(* processes, every lease, budget and retry policy, and every horizon.     *)
(*                                                                         *)
(* A step is first summarised by what it does to one row and its audit     *)
(* events (RowStep), to one quote (QuoteStep) and to one slot together     *)
(* with what the provider did (SlotStep); each part of the inductive       *)
(* invariant IInv is then proved from the summaries it needs.              *)
(***************************************************************************)
EXTENDS DeliveryExecution, TLAPS

(* A row accounts for its attempts, was requested while its quote was      *)
(* valid, and waits no longer than the retry window.                       *)
RowHolds(d, row) ==
    /\ row.attempts <= MaxAttempts
    /\ row.generation - row.attempts \in {0, 1}
    /\ row.status # "unknown" => row.generation = row.attempts
    /\ row.status = "absent" => row.generation = 0
    /\ row.status # "absent" => row.requested < ValidUntil[QuoteOf[d]]
    /\ row.status = "pending" =>
          row.attempts < MaxAttempts /\ row.next <= row.requested + Window
    /\ row.status = "sending" => row.attempts >= 1 /\ row.owner \in Procs

RowsHold == \A d \in Deliveries : RowHolds(d, delivery[d])

(* Attempts started while the quote was issued, and not later than now.    *)
AttemptTimely(d) ==
    LET row == delivery[d]
        q == QuoteOf[d] IN
    row.lastAttempt # NoTime =>
        /\ row.lastAttempt < ValidUntil[q]
        /\ row.lastAttempt <= now
        /\ quote[q].status = "cancelled" => row.lastAttempt <= quote[q].ended

AttemptsTimely == \A d \in Deliveries : AttemptTimely(d)

(* An attempt under way is the only one of its delivery.  The row is being *)
(* sent under its token, or was given up by the sweep; in no other case is *)
(* any attempt left.                                                       *)
HolderHolds(p) ==
    LET d == slot[p].delivery IN
    /\ delivery[d].status \in {"sending", "unknown"}
    /\ slot[p].generation <= delivery[d].generation
    /\ delivery[d].status = "sending" =>
          slot[p].generation = delivery[d].generation /\ delivery[d].owner = p
    /\ \A r \in Procs \ {p} : Working(r) => slot[r].delivery # d

HoldersHold == \A p \in Procs : Working(p) => HolderHolds(p)

(* No token of the future has been used.                                   *)
CallsArePast == \A d \in Deliveries, g \in Nat : <<d, g>> \in called => g <= delivery[d].generation

(* What the provider has accepted of a delivery that was not readopted, as *)
(* its row and as the attempt under way tell it.                           *)
RowTells(d) ==
    LET status == delivery[d].status IN
    /\ accepted[d] <= 1
    /\ status \in {"absent", "pending", "failed"} => accepted[d] = 0
    /\ status = "sent" => accepted[d] = 1
    /\ status = "sending" /\ <<d, delivery[d].generation>> \notin called => accepted[d] = 0

SlotTells(p) ==
    LET s == slot[p] IN
    /\ s.stage \in {"preparing", "token"} =>
          accepted[s.delivery] = 0 /\ <<s.delivery, s.generation>> \notin called
    /\ s.stage = "transmitting" =>
          accepted[s.delivery] = 0 /\ <<s.delivery, s.generation>> \in called
    /\ s.stage = "taken" => accepted[s.delivery] = 1
    /\ s.stage = "completing" /\ s.outcome \in {"retryable", "permanent"} =>
          accepted[s.delivery] = 0
    /\ s.stage = "completing" /\ s.outcome = "accepted" => accepted[s.delivery] = 1

AcceptancesTold ==
    /\ \A d \in Deliveries \ readopted : RowTells(d)
    /\ \A p \in Procs : Working(p) /\ slot[p].delivery \notin readopted => SlotTells(p)

IInv ==
    /\ TypeOK
    /\ RowsHold
    /\ OutcomeAuditedOnce
    /\ AttemptsTimely
    /\ HoldersHold
    /\ CallsArePast
    /\ AcceptancesTold

-----------------------------------------------------------------------------
(* What a step does to one row and its audit events.                       *)

Unchanged(d) == delivery'[d] = delivery[d] /\ audit'[d] = audit[d]

Requested(d) ==
    /\ delivery[d].status = "absent" /\ Effective(QuoteOf[d]) = "issued"
    /\ delivery'[d] = PendingDelivery
    /\ audit'[d] = audit[d]

Claimed(p, d) ==
    /\ MayClaim(p) /\ Due(d) /\ Eligible(d)
    /\ delivery'[d] = [status |-> "sending", generation |-> delivery[d].generation + 1,
                       attempts |-> delivery[d].attempts + 1, owner |-> p, lease |-> now + Lease,
                       next |-> NoTime, requested |-> delivery[d].requested, lastAttempt |-> now]
    /\ audit'[d] = audit[d]

(* The row ends with this status, by the step of whoever may end it.       *)
Ended(d, generation, status) ==
    /\ delivery'[d] = Unleased(d, status, generation, NoTime)
    /\ audit'[d] = audit[d] + 1

Dropped(d) == delivery[d].status = "pending" /\ Ended(d, delivery[d].generation, "failed")
Swept(d) == Expired(d) /\ Ended(d, delivery[d].generation + 1, "unknown")

(* The holder of the row reports the outcome of its attempt.               *)
Reporting(p, d) ==
    /\ AtStage(p, "completing") /\ slot[p].delivery = d
    /\ delivery[d].status = "sending" /\ delivery[d].owner = p
    /\ delivery[d].generation = slot[p].generation
    /\ Release(p)

Requeued(p, d) ==
    /\ Reporting(p, d) /\ slot[p].outcome = "retryable"
    /\ MayRetry(delivery[d].attempts, delivery[d].requested)
    /\ delivery'[d] = Unleased(d, "pending", delivery[d].generation, RetryAt(delivery[d].attempts))
    /\ audit'[d] = audit[d]

Reported(p, d, status) ==
    /\ Reporting(p, d)
    /\ status = "sent" => slot[p].outcome = "accepted"
    /\ status = "failed" => slot[p].outcome \in {"retryable", "permanent"}
    /\ Ended(d, delivery[d].generation, status)

RowStep(d) ==
    \/ Unchanged(d)
    \/ Requested(d)
    \/ Dropped(d)
    \/ Swept(d)
    \/ \E p \in Procs :
          Claimed(p, d) \/ Requeued(p, d) \/ \E status \in TerminalStatus : Reported(p, d, status)

(* Every step is a row step for every row.                                 *)
RowStepsAll ==
    /\ delivery' = [d \in Deliveries |-> delivery'[d]]
    /\ audit' = [d \in Deliveries |-> audit'[d]]
    /\ \A d \in Deliveries : RowStep(d)

LEMMA SameRows == ASSUME TypeOK, UNCHANGED <<delivery, audit>> PROVE RowStepsAll
  BY DEF TypeOK, RowStepsAll, RowStep, Unchanged

(* A step that writes one row, as an EXCEPT of both functions.             *)
LEMMA OneRow ==
    ASSUME TypeOK, NEW d \in Deliveries, NEW row, NEW events,
           delivery' = [delivery EXCEPT ![d] = row], audit' = [audit EXCEPT ![d] = events],
           delivery'[d] = row /\ audit'[d] = events => RowStep(d)
    PROVE  RowStepsAll
  <1>1. /\ delivery' = [e \in Deliveries |-> IF e = d THEN row ELSE delivery[e]]
        /\ audit' = [e \in Deliveries |-> IF e = d THEN events ELSE audit[e]]
    BY DEF TypeOK
  <1>2. \A e \in Deliveries \ {d} : Unchanged(e)
    BY <1>1 DEF Unchanged
  <1>3. RowStep(d)
    BY <1>1
  <1> QED BY <1>1, <1>2, <1>3 DEF RowStep, RowStepsAll

LEMMA SameAudit ==
    ASSUME TypeOK, NEW d \in Deliveries, UNCHANGED audit
    PROVE  audit' = [audit EXCEPT ![d] = audit[d]]
  BY DEF TypeOK

LEMMA FailRows ==
    ASSUME TypeOK, NEW d \in Deliveries, NEW generation, NEW status,
           Fail(d, generation, status),
           Ended(d, generation, status) => RowStep(d)
    PROVE  RowStepsAll
  BY OneRow DEF Fail, Ended

LEMMA LeaseRows ==
    ASSUME TypeOK, NEW p \in Procs, NEW d \in Deliveries,
           MayClaim(p), Due(d), Eligible(d), LeaseRow(p, d)
    PROVE  RowStepsAll
  <1>1. Claimed(p, d) => RowStep(d)
    BY DEF RowStep
  <1> QED BY <1>1, OneRow, SameAudit DEF LeaseRow, Claimed

LEMMA DropRows ==
    ASSUME TypeOK, NEW d \in Deliveries, Due(d), Fail(d, delivery[d].generation, "failed")
    PROVE  RowStepsAll
  BY FailRows DEF RowStep, Dropped, Due

LEMMA CommandRows == ASSUME TypeOK, Command PROVE RowStepsAll
  <1>1. ASSUME NEW d \in Deliveries, RequestDelivery(d) PROVE RowStepsAll
    <2>1. Requested(d) => RowStep(d)
      BY DEF RowStep
    <2> QED BY <1>1, <2>1, OneRow, SameAudit DEF RequestDelivery, Requested
  <1>2. ASSUME NEW q \in Quotes, CancelQuote(q) PROVE RowStepsAll
    <2>1. \A d \in QueuedOf(q) : Dropped(d)
      BY <1>2 DEF CancelQuote, Dropped, Ended, QueuedOf
    <2>2. \A d \in Deliveries \ QueuedOf(q) : Unchanged(d)
      BY <1>2 DEF CancelQuote, Unchanged
    <2> QED BY <1>2, <2>1, <2>2 DEF CancelQuote, RowStep, RowStepsAll
  <1> QED BY <1>1, <1>2 DEF Command

LEMMA CompleteRows == ASSUME TypeOK, NEW p \in Procs, Complete(p) PROVE RowStepsAll
  <1> DEFINE d == slot[p].delivery
  <1>1. d \in Deliveries /\ Reporting(p, d)
    BY DEF Complete, FenceHolds, Reporting
  <1>2. ASSUME NEW status \in TerminalStatus, Fail(d, delivery[d].generation, status),
               status = "sent" => slot[p].outcome = "accepted",
               status = "failed" => slot[p].outcome \in {"retryable", "permanent"}
        PROVE  RowStepsAll
    <2>1. Ended(d, delivery[d].generation, status) => Reported(p, d, status)
      BY <1>1, <1>2 DEF Reported
    <2> HIDE DEF d
    <2> QED BY <1>1, <1>2, <2>1, FailRows DEF RowStep
  <1>3. ASSUME slot[p].outcome = "retryable",
               MayRetry(delivery[d].attempts, delivery[d].requested),
               delivery' = [delivery EXCEPT ![d] =
                  Unleased(d, "pending", delivery[d].generation, RetryAt(delivery[d].attempts))],
               UNCHANGED audit
        PROVE  RowStepsAll
    <2>1. Requeued(p, d) => RowStep(d)
      BY <1>1 DEF RowStep
    <2> HIDE DEF d
    <2> QED BY <1>1, <1>3, <2>1, OneRow, SameAudit DEF Requeued
  <1> QED BY <1>2, <1>3 DEF Complete, TerminalStatus

LEMMA AttemptRows == ASSUME TypeOK, NEW p \in Procs, Attempt(p) PROVE RowStepsAll
  <1>1. CASE ClaimNext(p)
    BY <1>1, LeaseRows, DropRows DEF ClaimNext, Claim, ClaimIneligible
  <1>2. CASE ClaimOutcomeUnknown(p)
    BY <1>2, LeaseRows, DropRows, SameRows DEF ClaimOutcomeUnknown
  <1>3. CASE Complete(p)
    BY <1>3, CompleteRows
  <1>4. \/ AdoptClaim(p) \/ Prepare(p) \/ PrepareFails(p) \/ ObtainToken(p)
        \/ ProviderAccepts(p) \/ CompleteNotApplied(p)
        \/ \E outcome \in Outcomes : TokenFails(p, outcome) \/ SendAnswered(p, outcome)
        => UNCHANGED <<delivery, audit>>
    BY DEF AdoptClaim, Prepare, PrepareFails, ObtainToken, ProviderAccepts, CompleteNotApplied,
           TokenFails, SendAnswered
  <1> QED BY <1>1, <1>2, <1>3, <1>4, SameRows DEF Attempt, Proceeds

LEMMA SweepRows == ASSUME TypeOK, Sweep PROVE RowStepsAll
  <1>1. ASSUME NEW d \in Deliveries, SweepDelivery(d), Expired(d) PROVE RowStepsAll
    BY <1>1, FailRows DEF SweepDelivery, RowStep, Swept
  <1> QED BY <1>1, SameRows DEF Sweep, SweepSelect, SweepDelivery

LEMMA RowSteps == ASSUME TypeOK, [Next]_vars PROVE RowStepsAll
  <1>1. ASSUME NEW p \in Procs, Lifecycle(p) PROVE RowStepsAll
    BY <1>1, SameRows DEF Lifecycle, StartProcess, StopProcess, EndProcess
  <1>2. CASE Tick \/ UNCHANGED vars
    BY <1>2, SameRows DEF Tick, vars
  <1> QED BY <1>1, <1>2, CommandRows, AttemptRows, SweepRows DEF Next

-----------------------------------------------------------------------------
(* The rows.                                                               *)

AuditHolds(row, events) == events = IF row.status \in TerminalStatus THEN 1 ELSE 0

RowGood(d, row, events) ==
    row \in DeliveryRow /\ RowHolds(d, row) /\ AuditHolds(row, events)

(* An instant at which a quote is effectively issued leaves room for a     *)
(* lease and for the retry window.                                         *)
LEMMA IssuedLeavesRoom ==
    ASSUME TypeOK, NEW d \in Deliveries, Effective(QuoteOf[d]) = "issued"
    PROVE  /\ quote[QuoteOf[d]].status = "issued"
           /\ now \in Nat /\ now < ValidUntil[QuoteOf[d]]
           /\ now \in Instants /\ now + Lease \in Instants
  <1>1. QuoteOf[d] \in Quotes /\ ValidUntil[QuoteOf[d]] \in Nat
    BY ConstantsAssumption DEF ConstantsAssumption
  <1>2. ValidUntil[QuoteOf[d]] + Lease < MaxNow /\ Lease \in Nat /\ MaxNow \in Nat
    BY <1>1, ConstantsAssumption, HorizonAssumption DEF ConstantsAssumption, HorizonAssumption
  <1>3. quote[QuoteOf[d]].status = "issued" /\ ~(now >= ValidUntil[QuoteOf[d]])
    BY DEF Effective
  <1> QED BY <1>1, <1>2, <1>3 DEF TypeOK, Instants

(* A retry that is allowed is an instant of the horizon.                   *)
LEMMA RetryInstant ==
    ASSUME TypeOK, NEW d \in Deliveries, RowGood(d, delivery[d], audit[d]),
           delivery[d].status = "sending",
           MayRetry(delivery[d].attempts, delivery[d].requested)
    PROVE  /\ RetryAt(delivery[d].attempts) \in Instants
           /\ RetryAt(delivery[d].attempts) <= delivery[d].requested + Window
           /\ delivery[d].attempts < MaxAttempts
  <1> DEFINE n == delivery[d].attempts
             requested == delivery[d].requested
  <1>1. n \in Nat /\ n >= 1 /\ requested \in Nat /\ requested < ValidUntil[QuoteOf[d]]
    BY DEF RowGood, RowHolds, DeliveryRow, Instants
  <1>2. \A i \in 1..Len(Delays) : Delays[i] \in Nat
    BY ConstantsAssumption DEF ConstantsAssumption
  <1>3. Len(Delays) \in Nat /\ Len(Delays) > 0
    BY ConstantsAssumption DEF ConstantsAssumption
  <1> HIDE DEF n
  <1>4. (IF n <= Len(Delays) THEN Delays[n] ELSE Delays[Len(Delays)]) \in Nat
    BY <1>1, <1>2, <1>3
  <1>5. now \in Nat /\ RetryAt(n) \in Nat
    BY <1>4 DEF RetryAt, TypeOK, Instants
  <1>6. RetryAt(n) <= requested + Window /\ n < MaxAttempts
    BY DEF MayRetry, n
  <1>7. /\ QuoteOf[d] \in Quotes /\ ValidUntil[QuoteOf[d]] \in Nat
        /\ Window \in Nat /\ MaxNow \in Nat
    BY ConstantsAssumption DEF ConstantsAssumption
  <1>8. ValidUntil[QuoteOf[d]] + Window <= MaxNow
    BY <1>7, HorizonAssumption DEF HorizonAssumption
  <1>9. RetryAt(n) \in 0..MaxNow
    BY <1>1, <1>5, <1>6, <1>7, <1>8
  <1> QED BY <1>6, <1>9 DEF n, Instants

(* A row that is no longer leased.                                         *)
LEMMA UnleasedRow ==
    ASSUME TypeOK, NEW d \in Deliveries,
           NEW status \in {"pending"} \cup TerminalStatus, NEW generation \in Nat,
           NEW next \in Instants \cup {NoTime}
    PROVE  LET row == Unleased(d, status, generation, next) IN
           /\ row \in DeliveryRow
           /\ row.status = status /\ row.generation = generation /\ row.next = next
           /\ row.attempts = delivery[d].attempts /\ row.requested = delivery[d].requested
           /\ row.lastAttempt = delivery[d].lastAttempt /\ row.owner = NoProc
  BY DEF Unleased, TypeOK, DeliveryRow, TerminalStatus

(* A live row that ends.                                                   *)
LEMMA EndedGood ==
    ASSUME TypeOK, NEW d \in Deliveries, RowGood(d, delivery[d], audit[d]),
           delivery[d].status \in {"pending", "sending"},
           NEW status \in TerminalStatus,
           \/ Ended(d, delivery[d].generation, status)
           \/ status = "unknown" /\ Ended(d, delivery[d].generation + 1, status)
    PROVE  RowGood(d, delivery'[d], audit'[d])
  <1> DEFINE row == delivery[d]
  <1>1. /\ row.generation \in Nat /\ row.attempts \in Nat
        /\ row.generation = row.attempts
        /\ row.attempts <= MaxAttempts
        /\ row.requested < ValidUntil[QuoteOf[d]]
    BY DEF RowGood, RowHolds, DeliveryRow
  <1> DEFINE generation == delivery'[d].generation
  <1>2. /\ Ended(d, generation, status)
        /\ generation \in Nat
        /\ generation - row.attempts \in {0, 1}
        /\ status # "unknown" => generation = row.attempts
    <2>1. CASE Ended(d, row.generation, status)
      <3>1. generation = row.generation
        BY <2>1 DEF Ended, Unleased
      <3> QED BY <1>1, <2>1, <3>1
    <2>2. CASE status = "unknown" /\ Ended(d, row.generation + 1, status)
      <3>1. generation = row.generation + 1
        BY <2>2 DEF Ended, Unleased
      <3> QED BY <1>1, <2>2, <3>1
    <2> QED BY <2>1, <2>2
  <1> HIDE DEF generation
  <1> DEFINE new == Unleased(d, status, generation, NoTime)
  <1>3. status \in {"pending"} \cup TerminalStatus /\ NoTime \in Instants \cup {NoTime}
    OBVIOUS
  <1>4. /\ new \in DeliveryRow /\ new.status = status /\ new.generation = generation
        /\ new.attempts = row.attempts /\ new.requested = row.requested
    BY <1>2, <1>3, UnleasedRow
  <1>5. delivery'[d] = new /\ audit'[d] = 1
    <2>1. audit[d] = 0
      BY DEF RowGood, AuditHolds, TerminalStatus
    <2> QED BY <1>2, <2>1 DEF Ended
  <1> HIDE DEF new
  <1>6. RowHolds(d, new)
    BY <1>1, <1>2, <1>4 DEF RowHolds, TerminalStatus
  <1> QED BY <1>4, <1>5, <1>6 DEF RowGood, AuditHolds

LEMMA RowPreserved ==
    ASSUME TypeOK, NEW d \in Deliveries, RowGood(d, delivery[d], audit[d]), RowStep(d)
    PROVE  RowGood(d, delivery'[d], audit'[d])
  <1> DEFINE row == delivery[d]
             Good == RowGood(d, delivery'[d], audit'[d])
  <1> USE ConstantsAssumption DEF ConstantsAssumption
  <1>1. /\ row.generation \in Nat /\ row.attempts \in Nat /\ row.requested \in Instants
        /\ row.generation - row.attempts \in {0, 1}
        /\ row.status # "unknown" => row.generation = row.attempts
        /\ row.attempts <= MaxAttempts
        /\ row.status # "absent" => row.requested < ValidUntil[QuoteOf[d]]
    BY DEF RowGood, RowHolds, DeliveryRow
  <1>2. CASE Unchanged(d)
    BY <1>2 DEF Unchanged
  <1>3. CASE Requested(d)
    <2>1. delivery'[d] = PendingDelivery /\ now \in Instants /\ now < ValidUntil[QuoteOf[d]]
      BY <1>3, IssuedLeavesRoom DEF Requested
    <2>2. PendingDelivery \in DeliveryRow
      BY <2>1 DEF PendingDelivery, DeliveryRow
    <2>3. RowHolds(d, PendingDelivery)
      BY <2>1 DEF RowHolds, PendingDelivery, Instants
    <2>4. AuditHolds(PendingDelivery, audit'[d])
      BY <1>3 DEF Requested, RowGood, AuditHolds, PendingDelivery, TerminalStatus
    <2> QED BY <2>1, <2>2, <2>3, <2>4 DEF RowGood
  <1>5. CASE Dropped(d)
    BY <1>5, EndedGood DEF Dropped, TerminalStatus
  <1>6. CASE Swept(d)
    BY <1>6, EndedGood DEF Swept, Expired, TerminalStatus
  <1>7. ASSUME NEW p \in Procs, NEW status \in TerminalStatus, Reported(p, d, status)
        PROVE  Good
    BY <1>7, EndedGood DEF Reported, Reporting
  <1>8. ASSUME NEW p \in Procs, Requeued(p, d) PROVE Good
    <2> DEFINE next == RetryAt(row.attempts)
               new == Unleased(d, "pending", row.generation, next)
    <2>1. row.status = "sending" /\ delivery'[d] = new /\ audit'[d] = audit[d]
      BY <1>8 DEF Requeued, Reporting
    <2>2. next \in Instants /\ next <= row.requested + Window /\ row.attempts < MaxAttempts
      BY <1>8, <2>1, RetryInstant DEF Requeued
    <2> HIDE DEF next
    <2>3. /\ new \in DeliveryRow /\ new.status = "pending" /\ new.generation = row.generation
          /\ new.attempts = row.attempts /\ new.requested = row.requested /\ new.next = next
      BY <1>1, <2>2, UnleasedRow
    <2> HIDE DEF new
    <2>4. RowHolds(d, new)
      BY <1>1, <2>1, <2>2, <2>3 DEF RowHolds
    <2>5. AuditHolds(new, audit'[d])
      BY <2>1, <2>3 DEF RowGood, AuditHolds, TerminalStatus
    <2> QED BY <2>1, <2>3, <2>4, <2>5 DEF RowGood
  <1>9. ASSUME NEW p \in Procs, Claimed(p, d) PROVE Good
    <2>1. /\ row.status = "pending" /\ row.attempts < MaxAttempts
          /\ now \in Instants /\ now + Lease \in Instants
      BY <1>9, IssuedLeavesRoom DEF Claimed, Due, Eligible, RowGood, RowHolds
    <2> DEFINE new == [status |-> "sending", generation |-> row.generation + 1,
                       attempts |-> row.attempts + 1, owner |-> p, lease |-> now + Lease,
                       next |-> NoTime, requested |-> row.requested, lastAttempt |-> now]
    <2>2. delivery'[d] = new /\ audit'[d] = audit[d]
      BY <1>9 DEF Claimed
    <2>3. /\ new.status = "sending" /\ new.generation = row.generation + 1
          /\ new.attempts = row.attempts + 1 /\ new.requested = row.requested /\ new.owner = p
      OBVIOUS
    <2>4. new \in DeliveryRow
      BY <1>1, <2>1 DEF DeliveryRow
    <2> HIDE DEF new
    <2>5. RowHolds(d, new)
      BY <1>1, <2>1, <2>3 DEF RowHolds
    <2>6. AuditHolds(new, audit'[d])
      BY <2>1, <2>2, <2>3 DEF RowGood, AuditHolds, TerminalStatus
    <2> QED BY <2>2, <2>4, <2>5, <2>6 DEF RowGood
  <1> QED BY <1>2, <1>3, <1>5, <1>6, <1>7, <1>8, <1>9 DEF RowStep

RowsInvariant == RowsHold /\ OutcomeAuditedOnce

LEMMA RowsAreGood ==
    TypeOK /\ RowsInvariant <=>
        TypeOK /\ \A d \in Deliveries : RowGood(d, delivery[d], audit[d])
  BY DEF TypeOK, RowsInvariant, RowsHold, OutcomeAuditedOnce, RowGood, AuditHolds

LEMMA RowsStep ==
    ASSUME TypeOK, RowsInvariant, [Next]_vars
    PROVE  /\ delivery' \in [Deliveries -> DeliveryRow]
           /\ audit' \in [Deliveries -> Nat]
           /\ RowsInvariant'
  <1>1. \A d \in Deliveries : RowGood(d, delivery[d], audit[d])
    BY RowsAreGood
  <1>2. RowStepsAll
    BY RowSteps
  <1>3. \A d \in Deliveries : RowGood(d, delivery'[d], audit'[d])
    BY <1>1, <1>2, RowPreserved DEF RowStepsAll
  <1>4. delivery' = [d \in Deliveries |-> delivery'[d]] /\ audit' = [d \in Deliveries |-> audit'[d]]
    BY <1>2 DEF RowStepsAll
  <1>5. \A d \in Deliveries : audit'[d] \in Nat /\ delivery'[d] \in DeliveryRow
    BY <1>3 DEF RowGood, AuditHolds
  <1> QED BY <1>3, <1>4, <1>5 DEF RowsInvariant, RowsHold, OutcomeAuditedOnce, RowGood, AuditHolds

-----------------------------------------------------------------------------
(* What a step does to the slots and to the provider: at most one slot     *)
(* changes, and it waits (idle, or for the answer of a claim), starts an   *)
(* attempt on a row leased to its process, or advances with its attempt.   *)

SlotSet(p, s) == slot' = [slot EXCEPT ![p] = s]

Waits(p) ==
    /\ \E s \in SlotState : s.stage \in {"idle", "claim_unknown"} /\ SlotSet(p, s)
    /\ UNCHANGED <<provider, readopted>>

Started(d, generation) ==
    [stage |-> "preparing", delivery |-> d, generation |-> generation,
     outcome |-> "none", started |-> now]

StartsClaimed(p, d) ==
    /\ Claimed(p, d)
    /\ SlotSet(p, Started(d, delivery[d].generation + 1))
    /\ UNCHANGED <<provider, readopted>>

Adopts(p, d) ==
    /\ slot[p].stage = "claim_unknown"
    /\ d \in LeasedTo(p)
    /\ SlotSet(p, Started(d, delivery[d].generation))
    /\ readopted' = IF <<d, delivery[d].generation>> \in called THEN readopted \cup {d} ELSE readopted
    /\ UNCHANGED <<delivery, audit, provider>>

(* The stages an attempt goes through, and what the provider learns.       *)
Moves(p, s) ==
    LET old == slot[p] IN
    \/ /\ old.stage = "preparing" /\ s.stage = "token"
       /\ UNCHANGED provider
    \/ /\ old.stage = "token" /\ s.stage = "transmitting"
       /\ called' = called \cup {<<old.delivery, old.generation>>}
       /\ UNCHANGED accepted
    \/ /\ old.stage = "transmitting" /\ s.stage = "taken"
       /\ accepted' = [accepted EXCEPT ![old.delivery] = IF @ < AcceptanceCap THEN @ + 1 ELSE @]
       /\ UNCHANGED called
    \/ /\ old.stage # "completing" /\ s.stage = "completing"
       /\ s.outcome = "accepted" => old.stage = "taken"
       /\ s.outcome \in {"retryable", "permanent"} =>
             old.stage \in {"preparing", "token", "transmitting"}
       /\ UNCHANGED provider

Advances(p) ==
    /\ Working(p)
    /\ \E s \in SlotState : /\ s.stage \in AttemptStages
                            /\ s.delivery = slot[p].delivery
                            /\ s.generation = slot[p].generation
                            /\ SlotSet(p, s)
                            /\ Moves(p, s)
    /\ UNCHANGED <<delivery, audit, readopted>>

SlotStep(p) ==
    \/ Waits(p)
    \/ \E d \in Deliveries : StartsClaimed(p, d) \/ Adopts(p, d)
    \/ Advances(p)

SlotSteps == UNCHANGED <<slot, provider, readopted>> \/ \E p \in Procs : SlotStep(p)

LEMMA SlotFacts ==
    ASSUME TypeOK, NEW p \in Procs
    PROVE  /\ slot[p] \in SlotState
           /\ slot[p].generation \in Nat
           /\ Working(p) => slot[p].delivery \in Deliveries
           /\ slot[p].stage = "completing" => slot[p].outcome \in Outcomes
  BY DEF TypeOK, SlotState, SlotRecord, Working

LEMMA FreeSlotType == FreeSlot \in SlotState /\ FreeSlot.stage = "idle"
  BY ConstantsAssumption
  DEF ConstantsAssumption, FreeSlot, SlotState, SlotRecord, Stages, AttemptStages, Instants

LEMMA ReleaseWaits ==
    ASSUME NEW p \in Procs, Release(p), UNCHANGED <<provider, readopted>>
    PROVE  Waits(p)
  BY FreeSlotType DEF Release, Waits, SlotSet

LEMMA StartedType ==
    ASSUME TypeOK, NEW d \in Deliveries, NEW g \in Nat
    PROVE  Started(d, g) \in SlotState
  BY DEF Started, TypeOK, SlotState, SlotRecord, Stages, AttemptStages

LEMMA ProceedAdvances ==
    ASSUME TypeOK, NEW p \in Procs, NEW stage \in AttemptStages,
           NEW outcome \in Outcomes \cup {"none"}, stage = "completing" => outcome \in Outcomes,
           Working(p), Proceed(p, stage, outcome), UNCHANGED <<delivery, audit, readopted>>,
           \A s : s.stage = stage /\ s.outcome = outcome => Moves(p, s)
    PROVE  SlotStep(p)
  <1> DEFINE s == [stage |-> stage, delivery |-> slot[p].delivery,
                   generation |-> slot[p].generation, outcome |-> outcome,
                   started |-> slot[p].started]
  <1>1. slot[p].delivery \in Deliveries /\ slot[p].generation \in Nat /\ slot[p].started \in Instants
    BY SlotFacts DEF SlotState, SlotRecord
  <1>2. s \in SlotState
    BY <1>1 DEF SlotState, SlotRecord, Stages
  <1>3. SlotSet(p, s)
    BY DEF SlotSet, Proceed
  <1>4. /\ s.stage = stage /\ s.outcome = outcome
        /\ s.delivery = slot[p].delivery /\ s.generation = slot[p].generation
    OBVIOUS
  <1> HIDE DEF s
  <1>5. Moves(p, s)
    BY <1>4
  <1> QED BY <1>2, <1>3, <1>4, <1>5 DEF SlotStep, Advances

LEMMA AttemptAdvances ==
    ASSUME TypeOK, NEW p \in Procs, NEW outcome \in Outcomes,
           \/ Prepare(p) \/ PrepareFails(p) \/ ObtainToken(p) \/ ProviderAccepts(p)
           \/ TokenFails(p, outcome) \/ SendAnswered(p, outcome)
    PROVE  SlotStep(p)
  <1> USE DEF AtStage, Working, AttemptStages, Outcomes, provider
  <1>1. CASE Prepare(p) \/ PrepareFails(p)
    <2>1. CASE Proceed(p, "token", "none")
      <3>1. \A s : s.stage = "token" /\ s.outcome = "none" => Moves(p, s)
        BY <1>1 DEF Prepare, PrepareFails, Moves
      <3> QED BY <1>1, <2>1, <3>1, ProceedAdvances DEF Prepare, PrepareFails
    <2>2. CASE Proceed(p, "completing", "retryable")
      <3>1. \A s : s.stage = "completing" /\ s.outcome = "retryable" => Moves(p, s)
        BY <1>1 DEF Prepare, PrepareFails, Moves
      <3> QED BY <1>1, <2>2, <3>1, ProceedAdvances DEF Prepare, PrepareFails
    <2> QED BY <1>1, <2>1, <2>2 DEF Prepare, PrepareFails
  <1>2. CASE ObtainToken(p)
    <2>1. \A s : s.stage = "transmitting" /\ s.outcome = "none" => Moves(p, s)
      BY <1>2 DEF ObtainToken, Moves
    <2> QED BY <1>2, <2>1, ProceedAdvances DEF ObtainToken
  <1>3. CASE ProviderAccepts(p)
    <2>1. \A s : s.stage = "taken" /\ s.outcome = "none" => Moves(p, s)
      BY <1>3 DEF ProviderAccepts, Moves
    <2> QED BY <1>3, <2>1, ProceedAdvances DEF ProviderAccepts
  <1>4. CASE TokenFails(p, outcome) \/ SendAnswered(p, outcome)
    <2>1. \A s : s.stage = "completing" /\ s.outcome = outcome => Moves(p, s)
      BY <1>4 DEF TokenFails, SendAnswered, Moves
    <2> QED BY <1>4, <2>1, ProceedAdvances DEF TokenFails, SendAnswered
  <1> QED BY <1>1, <1>2, <1>3, <1>4

LEMMA AttemptSlot == ASSUME TypeOK, NEW p \in Procs, Attempt(p) PROVE SlotSteps
  <1>1. ASSUME NEW d \in Deliveries, Claim(p, d) PROVE SlotStep(p)
    <2>1. Claimed(p, d)
      BY <1>1 DEF Claim, LeaseRow, Claimed, TypeOK
    <2> QED BY <1>1, <2>1 DEF Claim, StartAttempt, StartsClaimed, Started, SlotSet, SlotStep
  <1>2. CASE ClaimOutcomeUnknown(p)
    <2> DEFINE s == [stage |-> "claim_unknown", delivery |-> NoDelivery, generation |-> 0,
                     outcome |-> "none", started |-> 0]
    <2>1. s \in SlotState /\ s.stage = "claim_unknown"
      BY ConstantsAssumption
      DEF ConstantsAssumption, SlotState, SlotRecord, Stages, AttemptStages, Instants
    <2>2. SlotSet(p, s) /\ UNCHANGED <<provider, readopted>>
      BY <1>2 DEF ClaimOutcomeUnknown, SlotSet
    <2> HIDE DEF s
    <2> QED BY <2>1, <2>2 DEF Waits, SlotSteps, SlotStep
  <1>3. CASE AdoptClaim(p)
    <2>1. ASSUME NEW d \in LeasedTo(p), StartAttempt(p, d, delivery[d].generation),
                 readopted' = IF <<d, delivery[d].generation>> \in called
                              THEN readopted \cup {d} ELSE readopted
          PROVE  SlotStep(p)
      <3>1. d \in Deliveries /\ Adopts(p, d)
        BY <1>3, <2>1 DEF AdoptClaim, LeasedTo, Adopts, StartAttempt, Started, SlotSet
      <3> QED BY <3>1 DEF SlotStep
    <2> QED BY <1>3, <2>1, ReleaseWaits DEF AdoptClaim, SlotStep, SlotSteps
  <1>4. ASSUME \/ Prepare(p) \/ PrepareFails(p) \/ ObtainToken(p) \/ ProviderAccepts(p)
               \/ \E outcome \in Outcomes : TokenFails(p, outcome) \/ SendAnswered(p, outcome)
        PROVE  SlotStep(p)
    <2>1. "accepted" \in Outcomes
      BY DEF Outcomes
    <2> QED BY <1>4, <2>1, AttemptAdvances
  <1>5. CASE Complete(p) \/ CompleteNotApplied(p)
    BY <1>5, ReleaseWaits DEF Complete, CompleteNotApplied, SlotStep, SlotSteps
  <1>6. ASSUME NEW d \in Deliveries, ClaimIneligible(p, d)
        PROVE  UNCHANGED <<slot, provider, readopted>>
    BY <1>6 DEF ClaimIneligible
  <1> QED BY <1>1, <1>2, <1>3, <1>4, <1>5, <1>6 DEF Attempt, Proceeds, ClaimNext, SlotSteps

LEMMA SlotStepsHold == ASSUME TypeOK, [Next]_vars PROVE SlotSteps
  <1>1. CASE Command
    BY <1>1 DEF Command, RequestDelivery, CancelQuote, SlotSteps
  <1>2. ASSUME NEW p \in Procs, Lifecycle(p) PROVE SlotSteps
    BY <1>2, ReleaseWaits DEF Lifecycle, StartProcess, StopProcess, EndProcess, SlotSteps, SlotStep
  <1>3. CASE Sweep \/ Tick \/ UNCHANGED vars
    BY <1>3 DEF Sweep, SweepSelect, SweepDelivery, Tick, vars, provider, SlotSteps
  <1> QED BY <1>1, <1>2, <1>3, AttemptSlot DEF Next

(* The clock and the quotes: time does not go back, and a quote changes    *)
(* only when it is cancelled, while it is issued, at this very instant.    *)
QuoteStep(q) ==
    \/ quote'[q] = quote[q]
    \/ quote[q].status = "issued" /\ quote'[q] = [status |-> "cancelled", ended |-> now]

QuoteSteps ==
    /\ now' \in Instants /\ now <= now'
    /\ quote' \in [Quotes -> [status : {"issued", "cancelled"}, ended : Instants \cup {NoTime}]]
    /\ \A q \in Quotes : QuoteStep(q)

LEMMA QuoteStepsHold == ASSUME TypeOK, [Next]_vars PROVE QuoteSteps
  <1> USE DEF TypeOK, QuoteSteps, QuoteStep
  <1>0. now \in Instants /\ MaxNow \in Nat
    BY ConstantsAssumption DEF ConstantsAssumption
  <1>1. UNCHANGED <<now, quote>> => QuoteSteps
    BY <1>0 DEF Instants
  <1>2. ASSUME NEW q \in Quotes, CancelQuote(q) PROVE QuoteSteps
    <2>1. now' = now /\ quote[q].status = "issued"
      BY <1>2 DEF CancelQuote, Effective
    <2>2. quote' = [quote EXCEPT ![q] = [status |-> "cancelled", ended |-> now]]
      BY <1>2 DEF CancelQuote
    <2> QED BY <1>0, <2>1, <2>2 DEF Instants
  <1>3. CASE Tick
    BY <1>0, <1>3 DEF Tick, Instants
  <1>4. ASSUME NEW d \in Deliveries,
               RequestDelivery(d) \/ SweepSelect(d) \/ SweepDelivery(d)
        PROVE  UNCHANGED <<now, quote>>
    BY <1>4 DEF RequestDelivery, SweepSelect, SweepDelivery
  <1>5. ASSUME NEW p \in Procs, Attempt(p) \/ Lifecycle(p) PROVE UNCHANGED <<now, quote>>
    BY <1>5
    DEF Attempt, ClaimNext, Claim, ClaimIneligible, ClaimOutcomeUnknown, Proceeds, AdoptClaim,
        Prepare, PrepareFails, ObtainToken, TokenFails, SendAnswered, Complete, CompleteNotApplied,
        ProviderAccepts, Lifecycle, StartProcess, StopProcess, EndProcess
  <1>6. CASE UNCHANGED vars
    BY <1>1, <1>6 DEF vars
  <1> QED BY <1>1, <1>2, <1>3, <1>4, <1>5, <1>6 DEF Next, Command, Sweep

LEMMA OthersTyped ==
    ASSUME TypeOK, [Next]_vars
    PROVE  /\ life' \in [Procs -> {"off", "up", "stopping", "dead"}]
           /\ selected' \in SUBSET Deliveries
  <1> USE DEF TypeOK
  <1>1. CASE Command
    BY <1>1 DEF Command, RequestDelivery, CancelQuote
  <1>2. ASSUME NEW p \in Procs, Attempt(p) PROVE UNCHANGED <<life, selected>>
    BY <1>2
    DEF Attempt, ClaimNext, Claim, ClaimIneligible, ClaimOutcomeUnknown, Proceeds, AdoptClaim,
        Prepare, PrepareFails, ObtainToken, TokenFails, SendAnswered, Complete, CompleteNotApplied,
        ProviderAccepts
  <1>3. ASSUME NEW p \in Procs, Lifecycle(p)
        PROVE  /\ life' \in [Procs -> {"off", "up", "stopping", "dead"}]
               /\ selected' \in SUBSET Deliveries
    BY <1>3 DEF Lifecycle, StartProcess, StopProcess, EndProcess
  <1>4. CASE Sweep
    BY <1>4 DEF Sweep, SweepSelect, SweepDelivery
  <1>5. CASE Tick \/ UNCHANGED vars
    BY <1>5 DEF Tick, vars
  <1> QED BY <1>1, <1>2, <1>3, <1>4, <1>5 DEF Next

LEMMA SlotsTyped ==
    ASSUME TypeOK, SlotSteps
    PROVE  /\ slot' \in [Procs -> SlotState]
           /\ accepted' \in [Deliveries -> Nat]
           /\ called' \in SUBSET (Deliveries \X Nat)
           /\ readopted' \in SUBSET Deliveries
  <1> USE DEF TypeOK, provider
  <1>1. ASSUME NEW p \in Procs, NEW s \in SlotState, SlotSet(p, s)
        PROVE  slot' \in [Procs -> SlotState]
    BY <1>1 DEF SlotSet
  <1>2. ASSUME NEW p \in Procs, NEW d \in Deliveries, StartsClaimed(p, d) \/ Adopts(p, d)
        PROVE  /\ slot' \in [Procs -> SlotState]
               /\ UNCHANGED provider
               /\ readopted' \in SUBSET Deliveries
    <2>1. delivery[d].generation \in Nat /\ delivery[d].generation + 1 \in Nat
      BY DEF DeliveryRow
    <2> QED BY <1>1, <1>2, <2>1, StartedType DEF StartsClaimed, Adopts
  <1>3. ASSUME NEW p \in Procs, Advances(p)
        PROVE  /\ slot' \in [Procs -> SlotState]
               /\ accepted' \in [Deliveries -> Nat]
               /\ called' \in SUBSET (Deliveries \X Nat)
               /\ UNCHANGED readopted
    <2>1. slot[p].delivery \in Deliveries /\ slot[p].generation \in Nat
      BY <1>3, SlotFacts DEF Advances
    <2>2. PICK s \in SlotState : SlotSet(p, s) /\ Moves(p, s)
      BY <1>3 DEF Advances
    <2>3. /\ accepted' \in [Deliveries -> Nat]
          /\ called' \in SUBSET (Deliveries \X Nat)
      BY <2>1, <2>2 DEF Moves
    <2> QED BY <1>1, <1>3, <2>2, <2>3 DEF Advances
  <1> QED BY <1>1, <1>2, <1>3 DEF SlotSteps, SlotStep, Waits

LEMMA TypeStep == ASSUME TypeOK, RowsInvariant, [Next]_vars PROVE TypeOK'
  BY RowsStep, SlotStepsHold, SlotsTyped, QuoteStepsHold, OthersTyped DEF TypeOK, QuoteSteps

-----------------------------------------------------------------------------
(* Attempts are started while the quote is issued.                         *)

LEMMA TimelyStep ==
    ASSUME TypeOK, AttemptsTimely, [Next]_vars
    PROVE  AttemptsTimely'
  <1> SUFFICES ASSUME NEW d \in Deliveries, delivery'[d].lastAttempt # NoTime
               PROVE  AttemptTimely(d)'
    BY DEF AttemptsTimely, AttemptTimely
  <1> DEFINE q == QuoteOf[d]
             last == delivery'[d].lastAttempt
  <1>1. q \in Quotes /\ QuoteSteps /\ RowStep(d)
    BY ConstantsAssumption, QuoteStepsHold, RowSteps DEF ConstantsAssumption, RowStepsAll
  <1>2. /\ now \in Nat /\ now' \in Nat /\ now <= now'
        /\ QuoteStep(q) /\ delivery[d].lastAttempt \in Instants \cup {NoTime}
        /\ ValidUntil[q] \in Nat
    BY <1>1, ConstantsAssumption
    DEF ConstantsAssumption, QuoteSteps, TypeOK, Instants, DeliveryRow
  <1>3. CASE last = delivery[d].lastAttempt
    <2>1. last \in Nat /\ last < ValidUntil[q] /\ last <= now
      BY <1>2, <1>3 DEF AttemptsTimely, AttemptTimely, Instants
    <2>2. quote'[q].status = "cancelled" => last <= quote'[q].ended
      BY <1>2, <1>3, <2>1 DEF AttemptsTimely, AttemptTimely, QuoteStep
    <2>3. last <= now'
      BY <1>2, <2>1
    <2> QED BY <2>1, <2>2, <2>3 DEF AttemptTimely
  <1>4. ASSUME NEW p \in Procs, Claimed(p, d) PROVE AttemptTimely(d)'
    <2>1. last = now /\ now < ValidUntil[q] /\ quote[q].status = "issued"
      BY <1>4, IssuedLeavesRoom DEF Claimed, Eligible
    <2>2. quote'[q].status = "cancelled" => last <= quote'[q].ended
      BY <1>2, <2>1 DEF QuoteStep
    <2> QED BY <1>2, <2>1, <2>2 DEF AttemptTimely
  <1>5. Requested(d) => last = NoTime
    BY DEF Requested, PendingDelivery
  <1>6. \A status, generation, next :
           delivery'[d] = Unleased(d, status, generation, next) => last = delivery[d].lastAttempt
    BY DEF Unleased
  <1>7. Unchanged(d) => last = delivery[d].lastAttempt
    BY DEF Unchanged
  <1> QED BY <1>1, <1>3, <1>4, <1>5, <1>6, <1>7
         DEF RowStep, Dropped, Swept, Requeued, Reported, Ended

-----------------------------------------------------------------------------
(* Attempts hold their rows.                                               *)

(* A row that an attempt holds, and whose holder does not report now, is   *)
(* left alone or given up by the sweep.                                    *)
LEMMA HeldRow ==
    ASSUME TypeOK, NEW p \in Procs, Working(p), HolderHolds(p), [Next]_vars, slot'[p] = slot[p]
    PROVE  LET d == slot[p].delivery IN
           /\ d \in Deliveries
           /\ Unchanged(d) \/ Swept(d)
  <1> DEFINE d == slot[p].delivery
  <1>1. d \in Deliveries /\ RowStep(d)
    BY SlotFacts, RowSteps DEF RowStepsAll
  <1>2. delivery[d].status \in {"sending", "unknown"}
    BY DEF HolderHolds
  <1>3. ~Requested(d) /\ ~Dropped(d) /\ \A r \in Procs : ~Claimed(r, d)
    BY <1>2 DEF Requested, Dropped, Claimed, Due
  <1>4. ASSUME NEW r \in Procs, Reporting(r, d) PROVE FALSE
    <2>1. r = p
      BY <1>4 DEF Reporting, HolderHolds
    <2>2. slot'[p].stage = "idle"
      BY <1>4, <2>1 DEF Reporting, Release, TypeOK, FreeSlot
    <2> QED BY <2>2 DEF Working, AttemptStages
  <1> QED BY <1>1, <1>3, <1>4 DEF RowStep, Requeued, Reported

(* The other slots, when one changes.                                      *)
LEMMA OtherSlots ==
    ASSUME TypeOK, NEW p \in Procs, NEW s, SlotSet(p, s)
    PROVE  slot'[p] = s /\ \A r \in Procs \ {p} : slot'[r] = slot[r]
  BY DEF TypeOK, SlotSet

(* The attempt in a slot that does not change.                             *)
LEMMA HolderStays ==
    ASSUME TypeOK, RowsHold, HoldersHold, [Next]_vars, NEW p \in Procs, Working(p),
           slot'[p] = slot[p]
    PROVE  HolderHolds(p)'
  <1> DEFINE d == slot[p].delivery
  <1>1. HolderHolds(p)
    BY DEF HoldersHold
  <1>2. d \in Deliveries /\ (Unchanged(d) \/ Swept(d))
    BY <1>1, HeldRow
  <1>3. delivery[d].generation \in Nat /\ slot[p].generation \in Nat
    BY <1>2, SlotFacts DEF TypeOK, DeliveryRow
  <1>4. /\ delivery'[d].status \in {"sending", "unknown"}
        /\ slot[p].generation <= delivery'[d].generation
        /\ delivery'[d].status = "sending" =>
              slot[p].generation = delivery'[d].generation /\ delivery'[d].owner = p
    BY <1>1, <1>2, <1>3 DEF HolderHolds, Unchanged, Swept, Ended, Unleased
  <1>5. ASSUME NEW r \in Procs \ {p}, Working(r)', slot'[r].delivery = d PROVE FALSE
    <2>1. CASE slot'[r] = slot[r]
      BY <1>1, <1>5, <2>1 DEF HolderHolds, Working
    <2>2. CASE slot'[r] # slot[r]
      <3>1. SlotStep(r)
        <4>1. PICK x \in Procs : SlotStep(x)
          BY <2>2, SlotStepsHold DEF SlotSteps
        <4>2. \E s : SlotSet(x, s)
          BY <4>1 DEF SlotStep, Waits, StartsClaimed, Adopts, Advances
        <4> QED BY <2>2, <4>1, <4>2, OtherSlots
      <3>2. ~Waits(r)
        BY <1>5, OtherSlots DEF Waits, Working, AttemptStages
      <3>3. ASSUME NEW e \in Deliveries, StartsClaimed(r, e) PROVE FALSE
        <4>1. d = e
          BY <1>5, <3>3, OtherSlots DEF StartsClaimed, Started
        <4> QED BY <1>1, <3>3, <4>1 DEF StartsClaimed, Claimed, Due, HolderHolds
      <3>4. ASSUME NEW e \in Deliveries, Adopts(r, e) PROVE FALSE
        <4>1. d = e
          BY <1>5, <3>4, OtherSlots DEF Adopts, Started
        <4> QED BY <1>1, <3>4, <4>1 DEF Adopts, LeasedTo, HolderHolds
      <3>5. ~Advances(r)
        BY <1>1, <1>5, OtherSlots DEF Advances, HolderHolds
      <3> QED BY <3>1, <3>2, <3>3, <3>4, <3>5 DEF SlotStep
    <2> QED BY <2>1, <2>2
  <1> QED BY <1>4, <1>5 DEF HolderHolds

(* The attempt in the slot that changes.                                   *)
LEMMA HolderMoves ==
    ASSUME TypeOK, RowsHold, HoldersHold, NEW p \in Procs, SlotStep(p), Working(p)'
    PROVE  HolderHolds(p)'
  <1>1. ~Waits(p)
    BY OtherSlots DEF Waits, Working, AttemptStages
  <1>2. ASSUME NEW d \in Deliveries, StartsClaimed(p, d) PROVE HolderHolds(p)'
    <2>1. slot'[p] = Started(d, delivery[d].generation + 1)
          /\ \A r \in Procs \ {p} : slot'[r] = slot[r]
      BY <1>2, OtherSlots DEF StartsClaimed
    <2>2. /\ slot'[p].delivery = d /\ slot'[p].generation = delivery[d].generation + 1
          /\ delivery[d].generation + 1 \in Nat
      BY <2>1 DEF Started, TypeOK, DeliveryRow
    <2>3. /\ delivery'[d].status = "sending" /\ delivery'[d].owner = p
          /\ delivery'[d].generation = delivery[d].generation + 1
          /\ delivery[d].status = "pending"
      BY <1>2 DEF StartsClaimed, Claimed, Due
    <2>4. \A r \in Procs \ {p} : Working(r)' => slot'[r].delivery # d
      BY <2>1, <2>3 DEF HoldersHold, HolderHolds, Working
    <2> QED BY <2>2, <2>3, <2>4 DEF HolderHolds
  <1>3. ASSUME NEW d \in Deliveries, Adopts(p, d) PROVE HolderHolds(p)'
    <2>1. slot'[p] = Started(d, delivery[d].generation)
          /\ \A r \in Procs \ {p} : slot'[r] = slot[r]
      BY <1>3, OtherSlots DEF Adopts
    <2>2. /\ slot'[p].delivery = d /\ slot'[p].generation = delivery[d].generation
          /\ delivery[d].generation \in Nat
      BY <2>1 DEF Started, TypeOK, DeliveryRow
    <2>3. /\ delivery' = delivery
          /\ delivery[d].status = "sending" /\ delivery[d].owner = p
      BY <1>3 DEF Adopts, LeasedTo
    <2>4. \A r \in Procs \ {p} : Working(r)' => slot'[r].delivery # d
      BY <2>1, <2>3 DEF HoldersHold, HolderHolds, Working
    <2> QED BY <2>2, <2>3, <2>4 DEF HolderHolds
  <1>4. CASE Advances(p)
    <2>1. /\ slot'[p].delivery = slot[p].delivery /\ slot'[p].generation = slot[p].generation
          /\ \A r \in Procs \ {p} : slot'[r] = slot[r]
          /\ HolderHolds(p) /\ delivery' = delivery
      BY <1>4, OtherSlots DEF Advances, HoldersHold
    <2> QED BY <2>1 DEF HolderHolds, Working
  <1> QED BY <1>1, <1>2, <1>3, <1>4 DEF SlotStep

LEMMA HoldersStep ==
    ASSUME TypeOK, RowsHold, HoldersHold, [Next]_vars
    PROVE  HoldersHold'
  <1> SUFFICES ASSUME NEW p \in Procs, Working(p)' PROVE HolderHolds(p)'
    BY DEF HoldersHold
  <1>1. CASE slot'[p] = slot[p]
    BY <1>1, HolderStays DEF Working
  <1>2. CASE slot'[p] # slot[p]
    <2>1. PICK x \in Procs : SlotStep(x)
      BY <1>2, SlotStepsHold DEF SlotSteps
    <2>2. \E s : SlotSet(x, s)
      BY <2>1 DEF SlotStep, Waits, StartsClaimed, Adopts, Advances
    <2>3. x = p
      BY <1>2, <2>2, OtherSlots
    <2> QED BY <2>1, <2>3, HolderMoves
  <1> QED BY <1>1, <1>2

-----------------------------------------------------------------------------
(* What the provider was asked and what it accepted.                       *)

LEMMA GenerationGrows ==
    ASSUME TypeOK, RowsInvariant, [Next]_vars, NEW d \in Deliveries
    PROVE  delivery[d].generation <= delivery'[d].generation
  <1>1. RowStep(d) /\ delivery[d].generation \in Nat
    BY RowSteps DEF RowStepsAll, TypeOK, DeliveryRow
  <1>2. Requested(d) => delivery[d].generation = 0 /\ delivery'[d].generation = 0
    BY DEF Requested, PendingDelivery, RowsInvariant, RowsHold, RowHolds
  <1>3. \A status, generation, next :
           delivery'[d] = Unleased(d, status, generation, next) =>
               delivery'[d].generation = generation
    BY DEF Unleased
  <1>4. ASSUME NEW p \in Procs, Claimed(p, d)
        PROVE  delivery'[d].generation = delivery[d].generation + 1
    BY <1>4 DEF Claimed
  <1>5. CASE Requested(d) \/ Unchanged(d)
    BY <1>1, <1>2, <1>5 DEF Unchanged
  <1>6. CASE Swept(d) \/ Dropped(d)
    BY <1>1, <1>3, <1>6 DEF Swept, Dropped, Ended
  <1>7. ASSUME NEW p \in Procs,
               Requeued(p, d) \/ \E status \in TerminalStatus : Reported(p, d, status)
        PROVE  delivery'[d].generation = delivery[d].generation
    BY <1>3, <1>7 DEF Requeued, Reported, Ended
  <1> QED BY <1>1, <1>4, <1>5, <1>6, <1>7 DEF RowStep

(* The provider learns of one delivery at most, from its attempt.          *)
ProviderLeaves(d) ==
    /\ accepted'[d] = accepted[d]
    /\ \A g \in Nat : <<d, g>> \in called' <=> <<d, g>> \in called

LEMMA ProviderSteps ==
    ASSUME TypeOK, [Next]_vars, NEW d \in Deliveries
    PROVE  ProviderLeaves(d) \/ \E p \in Procs : Advances(p) /\ slot[p].delivery = d
  <1>1. UNCHANGED provider => ProviderLeaves(d)
    BY DEF provider, ProviderLeaves
  <1>2. ASSUME NEW p \in Procs, Advances(p), slot[p].delivery # d PROVE ProviderLeaves(d)
    <2>1. PICK s \in SlotState : Moves(p, s)
      BY <1>2 DEF Advances
    <2> QED BY <1>1, <1>2, <2>1 DEF Moves, ProviderLeaves, TypeOK
  <1>3. \/ UNCHANGED provider \/ \E p \in Procs : Advances(p)
    BY SlotStepsHold DEF SlotSteps, SlotStep, Waits, StartsClaimed, Adopts
  <1> QED BY <1>1, <1>2, <1>3

LEMMA CallsStep ==
    ASSUME TypeOK, RowsInvariant, HoldersHold, CallsArePast, [Next]_vars
    PROVE  CallsArePast'
  <1> SUFFICES ASSUME NEW d \in Deliveries, NEW g \in Nat, <<d, g>> \in called'
               PROVE  g <= delivery'[d].generation
    BY DEF CallsArePast
  <1>1. /\ delivery[d].generation \in Nat /\ delivery'[d].generation \in Nat
        /\ delivery[d].generation <= delivery'[d].generation
    BY GenerationGrows, RowsStep DEF TypeOK, DeliveryRow
  <1>2. CASE <<d, g>> \in called
    BY <1>1, <1>2 DEF CallsArePast
  <1>3. CASE <<d, g>> \notin called
    <2>1. PICK p \in Procs : Advances(p) /\ slot[p].delivery = d
      BY <1>3, ProviderSteps DEF ProviderLeaves
    <2>2. PICK s \in SlotState : Moves(p, s)
      BY <2>1 DEF Advances
    <2>3. g = slot[p].generation
      BY <1>3, <2>2 DEF Moves, provider
    <2>4. slot[p].generation <= delivery[d].generation
      BY <2>1 DEF Advances, HoldersHold, HolderHolds
    <2> QED BY <1>1, <2>3, <2>4
  <1> QED BY <1>2, <1>3

LEMMA ReadoptedGrows == ASSUME TypeOK, [Next]_vars PROVE readopted \subseteq readopted'
  BY SlotStepsHold DEF SlotSteps, SlotStep, Waits, StartsClaimed, Adopts, Advances

(* What the row tells, when the provider learns nothing.                   *)
LEMMA RowTellsQuietly ==
    ASSUME TypeOK, AcceptancesTold, [Next]_vars, NEW d \in Deliveries \ readopted,
           ProviderLeaves(d)
    PROVE  RowTells(d)'
  <1>1. RowStep(d) /\ RowTells(d)
    BY RowSteps DEF RowStepsAll, AcceptancesTold
  <1>2. accepted'[d] = accepted[d] /\ accepted[d] \in Nat
    BY DEF ProviderLeaves, TypeOK
  <1>3. CASE Unchanged(d)
    <2>1. delivery[d].generation \in Nat
      BY DEF TypeOK, DeliveryRow
    <2> QED BY <1>1, <1>3, <2>1 DEF Unchanged, RowTells, ProviderLeaves
  <1>4. ASSUME delivery[d].status = "absent" \/ delivery[d].status = "pending",
               delivery'[d].status \in {"pending", "sending", "failed"}
        PROVE  RowTells(d)'
    BY <1>1, <1>2, <1>4 DEF RowTells
  <1>5. \A status, generation, next :
           delivery'[d] = Unleased(d, status, generation, next) => delivery'[d].status = status
    BY DEF Unleased
  <1>6. CASE Requested(d)
    BY <1>4, <1>6 DEF Requested, PendingDelivery
  <1>7. CASE Dropped(d)
    BY <1>4, <1>5, <1>7 DEF Dropped, Ended
  <1>8. ASSUME NEW p \in Procs, Claimed(p, d) PROVE RowTells(d)'
    BY <1>4, <1>8 DEF Claimed, Due
  <1>9. CASE Swept(d)
    BY <1>1, <1>2, <1>5, <1>9 DEF Swept, Ended, RowTells
  <1>10. ASSUME NEW p \in Procs, Requeued(p, d) PROVE RowTells(d)'
    <2>1. accepted[d] = 0
      BY <1>10 DEF Requeued, Reporting, AtStage, AcceptancesTold, SlotTells, Working, AttemptStages
    <2>2. delivery'[d].status = "pending"
      BY <1>5, <1>10 DEF Requeued
    <2> QED BY <1>2, <2>1, <2>2 DEF RowTells
  <1>11. ASSUME NEW p \in Procs, NEW status \in TerminalStatus, Reported(p, d, status)
         PROVE  RowTells(d)'
    <2>1. /\ status = "sent" => accepted[d] = 1
          /\ status = "failed" => accepted[d] = 0
      BY <1>11
      DEF Reported, Reporting, AtStage, AcceptancesTold, SlotTells, Working, AttemptStages
    <2>2. delivery'[d].status = status
      BY <1>5, <1>11 DEF Reported, Ended
    <2> QED BY <1>1, <1>2, <2>1, <2>2 DEF RowTells, TerminalStatus
  <1> QED BY <1>1, <1>3, <1>6, <1>7, <1>8, <1>9, <1>10, <1>11 DEF RowStep

(* What the row tells, when its attempt deals with the provider.           *)
LEMMA RowTellsOnAdvance ==
    ASSUME TypeOK, HoldersHold, AcceptancesTold, NEW p \in Procs,
           NEW d \in Deliveries \ readopted, Advances(p), slot[p].delivery = d
    PROVE  RowTells(d)'
  <1>1. /\ d \in Deliveries /\ accepted[d] \in Nat /\ delivery' = delivery
        /\ RowTells(d) /\ SlotTells(p) /\ HolderHolds(p)
    BY DEF Advances, AcceptancesTold, HoldersHold, TypeOK
  <1>2. PICK s \in SlotState : Moves(p, s)
    BY DEF Advances
  <1>3. CASE UNCHANGED accepted /\ called \subseteq called'
    BY <1>1, <1>3 DEF RowTells
  <1>4. ASSUME slot[p].stage = "transmitting", UNCHANGED called,
               accepted' = [accepted EXCEPT ![d] = IF @ < AcceptanceCap THEN @ + 1 ELSE @]
        PROVE  RowTells(d)'
    <2>1. accepted[d] = 0 /\ <<d, slot[p].generation>> \in called
      BY <1>1, <1>4 DEF SlotTells
    <2>2. accepted'[d] = 1
      BY <1>1, <1>4, <2>1 DEF AcceptanceCap, TypeOK
    <2>3. /\ delivery[d].status \in {"sending", "unknown"}
          /\ delivery[d].status = "sending" => <<d, delivery[d].generation>> \in called
      BY <1>1, <2>1 DEF HolderHolds
    <2> QED BY <1>1, <1>4, <2>2, <2>3 DEF RowTells
  <1> QED BY <1>2, <1>3, <1>4 DEF Moves, provider

(* What an attempt tells that waits for another step.                      *)
LEMMA SlotTellsQuietly ==
    ASSUME TypeOK, HoldersHold, AcceptancesTold, [Next]_vars, NEW p \in Procs,
           slot'[p] = slot[p], Working(p), slot[p].delivery \notin readopted
    PROVE  SlotTells(p)'
  <1> DEFINE d == slot[p].delivery
  <1>1. d \in Deliveries /\ slot[p].generation \in Nat /\ SlotTells(p) /\ HolderHolds(p)
    BY SlotFacts DEF AcceptancesTold, HoldersHold
  <1>2. ~ \E r \in Procs : Advances(r) /\ slot[r].delivery = d
    <2> SUFFICES ASSUME NEW r \in Procs, Advances(r), slot[r].delivery = d PROVE FALSE
      OBVIOUS
    <2>1. r = p
      BY <1>1 DEF HolderHolds, Advances
    <2>2. PICK s \in SlotState : SlotSet(p, s) /\ Moves(p, s)
      BY <2>1 DEF Advances
    <2>3. s = slot[p]
      BY <2>2, OtherSlots
    <2> QED BY <2>2, <2>3 DEF Moves
  <1>3. ProviderLeaves(d)
    BY <1>1, <1>2, ProviderSteps
  <1> QED BY <1>1, <1>3 DEF SlotTells, ProviderLeaves

(* What an attempt tells that starts or advances.                          *)
LEMMA SlotTellsOnMove ==
    ASSUME TypeOK, CallsArePast, AcceptancesTold, NEW p \in Procs, SlotStep(p),
           Working(p)', slot'[p].delivery \notin readopted', readopted \subseteq readopted'
    PROVE  SlotTells(p)'
  <1>1. ~Waits(p)
    BY OtherSlots DEF Waits, Working, AttemptStages
  <1>2. ASSUME NEW d \in Deliveries, StartsClaimed(p, d) PROVE SlotTells(p)'
    <2> DEFINE g == delivery[d].generation + 1
    <2>1. delivery[d].generation \in Nat /\ g \in Nat /\ ~(g <= delivery[d].generation)
      BY DEF TypeOK, DeliveryRow
    <2> HIDE DEF g
    <2>2. slot'[p] = Started(d, g)
      BY <1>2, OtherSlots DEF StartsClaimed, g
    <2>3. /\ slot'[p].stage = "preparing" /\ slot'[p].delivery = d /\ slot'[p].generation = g
      BY <2>2 DEF Started
    <2>4. <<d, g>> \notin called
      BY <2>1 DEF CallsArePast
    <2>5. accepted[d] = 0
      BY <1>2, <2>3 DEF StartsClaimed, Claimed, Due, AcceptancesTold, RowTells
    <2> QED BY <1>2, <2>3, <2>4, <2>5 DEF StartsClaimed, provider, SlotTells
  <1>3. ASSUME NEW d \in Deliveries, Adopts(p, d) PROVE SlotTells(p)'
    <2> DEFINE g == delivery[d].generation
    <2>1. slot'[p] = Started(d, g)
      BY <1>3, OtherSlots DEF Adopts
    <2>2. /\ slot'[p].stage = "preparing" /\ slot'[p].delivery = d /\ slot'[p].generation = g
      BY <2>1 DEF Started
    <2>3. <<d, g>> \notin called /\ d \notin readopted
      BY <1>3, <2>2 DEF Adopts
    <2>4. accepted[d] = 0
      BY <1>3, <2>3 DEF Adopts, LeasedTo, AcceptancesTold, RowTells
    <2> QED BY <1>3, <2>2, <2>3, <2>4 DEF Adopts, provider, SlotTells
  <1>4. CASE Advances(p)
    <2> DEFINE d == slot[p].delivery
    <2>1. PICK s \in SlotState : /\ s.stage \in AttemptStages /\ s.delivery = d
                                 /\ s.generation = slot[p].generation
                                 /\ SlotSet(p, s) /\ Moves(p, s)
      BY <1>4 DEF Advances
    <2>2. slot'[p] = s
      BY <2>1, OtherSlots
    <2>3. d \in Deliveries /\ accepted[d] \in Nat /\ SlotTells(p)
      BY <1>4, <2>1, <2>2, SlotFacts DEF Advances, AcceptancesTold, TypeOK
    <2> HIDE DEF d
    <2>4. CASE s.stage = "token" /\ slot[p].stage = "preparing" /\ UNCHANGED provider
      BY <2>1, <2>2, <2>3, <2>4 DEF SlotTells, provider, d
    <2>5. CASE /\ s.stage = "transmitting" /\ slot[p].stage = "token"
               /\ called' = called \cup {<<slot[p].delivery, slot[p].generation>>}
               /\ UNCHANGED accepted
      BY <2>1, <2>2, <2>3, <2>5 DEF SlotTells, d
    <2>6. CASE /\ s.stage = "taken" /\ slot[p].stage = "transmitting"
               /\ accepted' = [accepted EXCEPT ![d] = IF @ < AcceptanceCap THEN @ + 1 ELSE @]
      <3>1. accepted[d] = 0
        BY <2>3, <2>6 DEF SlotTells, d
      <3>2. accepted'[d] = 1
        BY <2>3, <2>6, <3>1 DEF AcceptanceCap, TypeOK
      <3> QED BY <2>1, <2>2, <2>6, <3>2 DEF SlotTells
    <2>7. CASE /\ s.stage = "completing" /\ UNCHANGED provider
               /\ s.outcome = "accepted" => slot[p].stage = "taken"
               /\ s.outcome \in {"retryable", "permanent"} =>
                     slot[p].stage \in {"preparing", "token", "transmitting"}
      BY <2>1, <2>2, <2>3, <2>7 DEF SlotTells, provider, d
    <2> QED BY <2>1, <2>4, <2>5, <2>6, <2>7 DEF Moves, d
  <1> QED BY <1>1, <1>2, <1>3, <1>4 DEF SlotStep

LEMMA ToldStep ==
    ASSUME TypeOK, HoldersHold, CallsArePast, AcceptancesTold, [Next]_vars
    PROVE  AcceptancesTold'
  <1>1. readopted \subseteq readopted'
    BY ReadoptedGrows
  <1>2. ASSUME NEW d \in Deliveries \ readopted' PROVE RowTells(d)'
    BY <1>1, ProviderSteps, RowTellsQuietly, RowTellsOnAdvance
  <1>3. ASSUME NEW p \in Procs, Working(p)', slot'[p].delivery \notin readopted'
        PROVE  SlotTells(p)'
    <2>1. CASE slot'[p] = slot[p]
      BY <1>1, <1>3, <2>1, SlotTellsQuietly DEF Working
    <2>2. CASE slot'[p] # slot[p]
      <3>1. PICK x \in Procs : SlotStep(x)
        BY <2>2, SlotStepsHold DEF SlotSteps
      <3>2. \E s : SlotSet(x, s)
        BY <3>1 DEF SlotStep, Waits, StartsClaimed, Adopts, Advances
      <3>3. x = p
        BY <2>2, <3>2, OtherSlots
      <3> QED BY <1>1, <1>3, <3>1, <3>3, SlotTellsOnMove
    <2> QED BY <2>1, <2>2
  <1> QED BY <1>2, <1>3 DEF AcceptancesTold

-----------------------------------------------------------------------------
(* The theorems.                                                           *)

LEMMA InitIInv == Init => IInv
  <1> SUFFICES ASSUME Init PROVE IInv
    OBVIOUS
  <1> USE ConstantsAssumption DEF ConstantsAssumption
  <1>1. /\ AbsentDelivery \in DeliveryRow
        /\ AbsentDelivery.status = "absent" /\ AbsentDelivery.generation = 0
        /\ AbsentDelivery.attempts = 0 /\ AbsentDelivery.lastAttempt = NoTime
    BY DEF AbsentDelivery, DeliveryRow, Instants
  <1>2. TypeOK
    BY <1>1, FreeSlotType DEF Init, TypeOK, Instants
  <1>3. \A d \in Deliveries : delivery[d] = AbsentDelivery /\ accepted[d] = 0
    BY DEF Init
  <1>4. \A p \in Procs : ~Working(p)
    BY FreeSlotType DEF Init, Working, AttemptStages
  <1>5. RowsHold /\ OutcomeAuditedOnce
    BY <1>1, <1>3 DEF Init, RowsHold, RowHolds, OutcomeAuditedOnce, TerminalStatus
  <1>6. AttemptsTimely
    BY <1>1, <1>3 DEF AttemptsTimely, AttemptTimely
  <1>7. HoldersHold /\ CallsArePast
    BY <1>4 DEF HoldersHold, CallsArePast, Init
  <1>8. AcceptancesTold
    BY <1>1, <1>3, <1>4 DEF AcceptancesTold, RowTells
  <1> QED BY <1>2, <1>5, <1>6, <1>7, <1>8 DEF IInv

LEMMA NextIInv == IInv /\ [Next]_vars => IInv'
  <1> SUFFICES ASSUME IInv, [Next]_vars PROVE IInv'
    OBVIOUS
  <1>1. RowsInvariant
    BY DEF IInv, RowsInvariant
  <1>2. TypeOK' /\ RowsHold' /\ OutcomeAuditedOnce'
    BY <1>1, TypeStep, RowsStep DEF IInv, RowsInvariant
  <1>3. AttemptsTimely' /\ HoldersHold' /\ CallsArePast' /\ AcceptancesTold'
    BY <1>1, TimelyStep, HoldersStep, CallsStep, ToldStep DEF IInv
  <1> QED BY <1>2, <1>3 DEF IInv

(* Every reachable state of the delivery queue, its workers and its sweep  *)
(* satisfies the inductive invariant.                                      *)
THEOREM InvariantHolds == Spec => []IInv
  BY InitIInv, NextIInv, PTL DEF Spec

(* The rows, the slots and the clock keep their types: no lease and no     *)
(* retry that the service schedules is outside the horizon.                *)
THEOREM TypeCorrect == Spec => []TypeOK
  <1>1. IInv => TypeOK
    BY DEF IInv
  <1> QED BY <1>1, InvariantHolds, PTL

(* The provider accepts a delivery at most once, whatever workers crash,   *)
(* stall past their lease or lose answers, unless a lost claim was adopted *)
(* after it had been sent.                                                 *)
THEOREM AcceptedOnceHolds == Spec => []AcceptedOnce
  <1>1. IInv => AcceptedOnce
    BY DEF IInv, AcceptancesTold, RowTells, AcceptedOnce
  <1> QED BY <1>1, InvariantHolds, PTL

(* A delivery recorded as sent was accepted, one recorded as failed or     *)
(* back in the queue was not.                                              *)
THEOREM OutcomeIsTruthfulHolds == Spec => []OutcomeIsTruthful
  <1>1. IInv => OutcomeIsTruthful
    BY DEF IInv, AcceptancesTold, RowTells, OutcomeIsTruthful
  <1> QED BY <1>1, InvariantHolds, PTL

(* No claim starts an attempt on a quote that was cancelled or is past its *)
(* validity, whatever was queued or retried before.                        *)
THEOREM AttemptedWhileIssuedHolds == Spec => []AttemptedWhileIssued
  <1>1. IInv => AttemptedWhileIssued
    BY DEF IInv, AttemptsTimely, AttemptTimely, AttemptedWhileIssued
  <1> QED BY <1>1, InvariantHolds, PTL

(* The pair of delivery and claim generation identifies one attempt: no    *)
(* two processes work under the same token, and the row of a current token *)
(* is leased to the process that works under it.                           *)
THEOREM TokensIdentifyHoldersHolds == Spec => []TokensIdentifyHolders
  <1>1. IInv => TokensIdentifyHolders
    BY DEF IInv, HoldersHold, HolderHolds, TokensIdentifyHolders
  <1> QED BY <1>1, InvariantHolds, PTL

(* A delivery that ended has exactly one terminal audit event, a live one  *)
(* has none.                                                               *)
THEOREM OutcomeAuditedOnceHolds == Spec => []OutcomeAuditedOnce
  <1>1. IInv => OutcomeAuditedOnce
    BY DEF IInv
  <1> QED BY <1>1, InvariantHolds, PTL

(* At most MaxAttempts attempts, each counted by a generation, and no      *)
(* retry after the window that the request opened.                         *)
THEOREM RetriesBoundedHolds == Spec => []RetriesBounded
  <1>1. IInv => RetriesBounded
    <2> SUFFICES ASSUME IInv, NEW d \in Deliveries
                 PROVE  /\ delivery[d].attempts <= MaxAttempts
                        /\ delivery[d].generation - delivery[d].attempts \in
                              IF delivery[d].status = "unknown" THEN {0, 1} ELSE {0}
                        /\ delivery[d].status = "pending" =>
                              delivery[d].next <= delivery[d].requested + Window
      BY DEF RetriesBounded
    <2>1. RowHolds(d, delivery[d]) /\ delivery[d].generation \in Nat /\ delivery[d].attempts \in Nat
      BY DEF IInv, RowsHold, TypeOK, DeliveryRow
    <2>2. CASE delivery[d].status = "unknown"
      BY <2>1, <2>2 DEF RowHolds
    <2>3. CASE delivery[d].status # "unknown"
      <3>1. delivery[d].generation - delivery[d].attempts = 0
        BY <2>1, <2>3 DEF RowHolds
      <3> QED BY <2>1, <2>3, <3>1 DEF RowHolds
    <2> QED BY <2>2, <2>3
  <1> QED BY <1>1, InvariantHolds, PTL

(* No step claims a row that is being sent, or changes one that has ended: *)
(* a row leaves sending by the report of the process that holds its lease, *)
(* with the generation it claimed, or by the sweep, to unknown.            *)
LEMMA NeverReclaimedStep ==
    ASSUME TypeOK, [Next]_vars, NEW d \in Deliveries
    PROVE  EndsByHolderOrSweep(d)
  <1> USE DEF EndsByHolderOrSweep
  <1>1. RowStep(d)
    BY RowSteps DEF RowStepsAll
  <1>2. \A status, generation, next :
           delivery'[d] = Unleased(d, status, generation, next) =>
               delivery'[d].status = status /\ delivery'[d].generation = generation
    BY DEF Unleased
  <1>3. CASE Unchanged(d)
    BY <1>3 DEF Unchanged
  <1>4. CASE Requested(d) \/ Dropped(d) \/ \E p \in Procs : Claimed(p, d)
    BY <1>4 DEF Requested, Dropped, Claimed, Due, TerminalStatus
  <1>5. CASE Swept(d)
    BY <1>2, <1>5 DEF Swept, Ended, Expired, TerminalStatus
  <1>6. ASSUME NEW p \in Procs,
               Requeued(p, d) \/ \E status \in TerminalStatus : Reported(p, d, status)
        PROVE  /\ delivery[d].status = "sending"
               /\ delivery'[d].status \in {"pending"} \cup TerminalStatus
               /\ delivery'[d].generation = delivery[d].generation
               /\ delivery[d].owner = p /\ slot[p].delivery = d /\ slot[p].stage = "completing"
    BY <1>2, <1>6 DEF Requeued, Reported, Reporting, AtStage, Ended
  <1> QED BY <1>1, <1>3, <1>4, <1>5, <1>6 DEF RowStep, TerminalStatus

(* The action property of every step of the specification.                 *)
THEOREM NeverReclaimedHolds == Spec => NeverReclaimed
  <1>1. TypeOK /\ [Next]_vars => [\A d \in Deliveries : EndsByHolderOrSweep(d)]_vars
    BY NeverReclaimedStep
  <1> QED BY <1>1, TypeCorrect, PTL DEF Spec, NeverReclaimed
=============================================================================
