-------------------------- MODULE DeliveryExecution --------------------------
(***************************************************************************)
(* E-mail deliveries: the queue in quote_deliveries, the workers that send *)
(* them through the mail provider, the sweep of expired leases, and the    *)
(* commands on the quote that race with them.                              *)
(*                                                                         *)
(* As in IssuanceOperations, each transaction of                           *)
(* quote-v2-delivery-execution.ts is one action and an attempt goes        *)
(* through the stages of its process's single slot between transactions.   *)
(* The provider is external: it may accept a transmitted message whether   *)
(* or not the answer reaches the process.  What it accepted is counted in  *)
(* `accepted`, which no code reads; `called` and `readopted` are history.  *)
(*                                                                         *)
(* Bounds: the clock stops at MaxNow, late enough for every lease, retry   *)
(* and validity period to end before (HorizonAssumption).                  *)
(***************************************************************************)
EXTENDS Integers, Sequences

CONSTANTS
    Quotes, Deliveries, Procs,
    QuoteOf,                      \* the quote each delivery id belongs to
    NoDelivery, NoProc,           \* SQL null
    ValidUntil,                   \* valid_until_exclusive of each quote
    Lease,                        \* delivery leaseMs
    SendBudget,                   \* provider budget plus completion margin
    MaxAttempts, Delays, Window,  \* delivery-policy.ts
    MaxNow                        \* bound: where the clock stops

ASSUME ConstantsAssumption ==
    /\ QuoteOf \in [Deliveries -> Quotes]
    /\ NoDelivery \notin Deliveries
    /\ NoProc \notin Procs
    /\ ValidUntil \in [Quotes -> Nat]
    /\ Lease \in Nat \ {0}
    /\ SendBudget \in Nat /\ SendBudget < Lease
    /\ MaxAttempts \in Nat \ {0}
    /\ Delays \in Seq(Nat) /\ Len(Delays) > 0
    /\ Window \in Nat
    /\ MaxNow \in Nat

ASSUME HorizonAssumption ==
    \A q \in Quotes : ValidUntil[q] + Lease < MaxNow /\ ValidUntil[q] + Window <= MaxNow

VARIABLES
    now,        \* the database clock
    quote,      \* each quote: status, and the instant it was cancelled
    delivery,   \* quote_deliveries, one row per id
    audit,      \* number of terminal audit events written for each delivery
    life,       \* of each process
    slot,       \* the single attempt slot of each process
    selected,   \* candidates of a lease sweep in progress
    accepted,   \* how often the provider accepted each delivery
    called,     \* history: the tokens under which the provider was called
    readopted   \* history: deliveries adopted after such a call

vars == <<now, quote, delivery, audit, life, slot, selected, accepted, called, readopted>>
provider == <<accepted, called>>

-----------------------------------------------------------------------------
NoTime == -1

AbsentDelivery ==
    [status |-> "absent", generation |-> 0, attempts |-> 0, owner |-> NoProc,
     lease |-> NoTime, next |-> NoTime, requested |-> 0, lastAttempt |-> NoTime]

PendingDelivery ==
    [status |-> "pending", generation |-> 0, attempts |-> 0, owner |-> NoProc,
     lease |-> NoTime, next |-> now, requested |-> now, lastAttempt |-> NoTime]

FreeSlot == [stage |-> "idle", delivery |-> NoDelivery, generation |-> 0,
             outcome |-> "none", started |-> 0]

AttemptStages == {"preparing", "token", "transmitting", "taken", "completing"}
Stages == AttemptStages \cup {"idle", "claim_unknown"}
Outcomes == {"accepted", "ambiguous", "retryable", "permanent"}
TerminalStatus == {"sent", "failed", "unknown"}

(* Mutant: expiry counts only once it is materialized.                     *)
StoredStatus(q) == quote[q].status

(* effectiveExpiry: the stored status, expired from valid_until on.        *)
Effective(q) ==
    IF quote[q].status = "issued" /\ now >= ValidUntil[q] THEN "expired" ELSE quote[q].status

(* nextRetry, after a safe failure of attempt n.                           *)
RetryAt(n) ==
    now + (IF n <= Len(Delays) THEN Delays[n] ELSE Delays[Len(Delays)])
(* Mutant: one attempt too many.                                           *)
MayRetryOnceMore(n, requested) == n <= MaxAttempts /\ RetryAt(n) <= requested + Window

MayRetry(n, requested) == n < MaxAttempts /\ RetryAt(n) <= requested + Window

(* fenceHolds, of the attempt in p's slot.                                 *)
FenceHolds(p) ==
    LET s == slot[p] IN
    /\ s.delivery \in Deliveries
    /\ delivery[s.delivery].status = "sending"
    /\ delivery[s.delivery].generation = s.generation
    /\ delivery[s.delivery].owner = p

Alive(p) == life[p] \in {"up", "stopping"}

Init ==
    /\ now = 0
    /\ quote = [q \in Quotes |-> [status |-> "issued", ended |-> NoTime]]
    /\ delivery = [d \in Deliveries |-> AbsentDelivery]
    /\ audit = [d \in Deliveries |-> 0]
    /\ life = [p \in Procs |-> "off"]
    /\ slot = [p \in Procs |-> FreeSlot]
    /\ selected = {}
    /\ accepted = [d \in Deliveries |-> 0]
    /\ called = {}
    /\ readopted = {}

-----------------------------------------------------------------------------
(* Commands on the quote row.                                              *)

(* requestEmailDelivery, of an effectively issued quote.                   *)
RequestDelivery(d) ==
    /\ delivery[d].status = "absent"
    /\ Effective(QuoteOf[d]) = "issued"
    /\ delivery' = [delivery EXCEPT ![d] = PendingDelivery]
    /\ UNCHANGED <<now, quote, audit, life, slot, selected, provider, readopted>>

(* Mutant: a cancel fails whatever is not being sent right now.            *)
NotSendingOf(q) ==
    {d \in Deliveries : QuoteOf[d] = q /\ delivery[d].status \notin {"absent", "sending"}}

QueuedOf(q) == {d \in Deliveries : QuoteOf[d] = q /\ delivery[d].status = "pending"}

(* A row that is no longer leased.                                         *)
Unleased(d, status, generation, next) ==
    [status |-> status, generation |-> generation, attempts |-> delivery[d].attempts,
     owner |-> NoProc, lease |-> NoTime, next |-> next,
     requested |-> delivery[d].requested, lastAttempt |-> delivery[d].lastAttempt]

(* cancelQuote of an issued quote (T8): its queued deliveries fail in the  *)
(* same transaction.                                                       *)
CancelQuote(q) ==
    /\ Effective(q) = "issued"
    /\ quote' = [quote EXCEPT ![q] = [status |-> "cancelled", ended |-> now]]
    /\ delivery' = [d \in Deliveries |->
          IF d \in QueuedOf(q) THEN Unleased(d, "failed", delivery[d].generation, NoTime)
          ELSE delivery[d]]
    /\ audit' = [d \in Deliveries |-> IF d \in QueuedOf(q) THEN audit[d] + 1 ELSE audit[d]]
    /\ UNCHANGED <<now, life, slot, selected, provider, readopted>>

-----------------------------------------------------------------------------
(* Claiming.                                                               *)

Due(d) == delivery[d].status = "pending" /\ delivery[d].next <= now

LeaseRow(p, d) ==
    /\ delivery' = [delivery EXCEPT ![d] =
          [status |-> "sending", generation |-> delivery[d].generation + 1,
           attempts |-> delivery[d].attempts + 1, owner |-> p, lease |-> now + Lease,
           next |-> NoTime, requested |-> delivery[d].requested, lastAttempt |-> now]]
    /\ UNCHANGED audit

Fail(d, generation, status) ==
    /\ delivery' = [delivery EXCEPT ![d] = Unleased(d, status, generation, NoTime)]
    /\ audit' = [audit EXCEPT ![d] = audit[d] + 1]

(* Mutant: the quote was issued when the delivery was requested.           *)
EligibleOnceRequested(d) == delivery[d].status # "absent"

Eligible(d) == Effective(QuoteOf[d]) = "issued"

StartAttempt(p, d, generation) ==
    slot' = [slot EXCEPT ![p] =
        [stage |-> "preparing", delivery |-> d, generation |-> generation,
         outcome |-> "none", started |-> now]]

Release(p) == slot' = [slot EXCEPT ![p] = FreeSlot]

MayClaim(p) == life[p] = "up" /\ slot[p].stage = "idle"

(* claimNext; skip locked lets it take any due delivery.                   *)
Claim(p, d) ==
    /\ MayClaim(p)
    /\ Due(d)
    /\ Eligible(d)
    /\ LeaseRow(p, d)
    /\ StartAttempt(p, d, delivery[d].generation + 1)
    /\ UNCHANGED <<now, quote, life, selected, provider, readopted>>

(* Mutant: a delivery that is no longer eligible is passed over.           *)
SkipIneligible(p, d) ==
    /\ MayClaim(p)
    /\ Due(d)
    /\ ~Eligible(d)
    /\ UNCHANGED vars

(* A6.1: no longer issued, so it fails and the provider is never called.   *)
ClaimIneligible(p, d) ==
    /\ MayClaim(p)
    /\ Due(d)
    /\ ~Eligible(d)
    /\ Fail(d, delivery[d].generation, "failed")
    /\ UNCHANGED <<now, quote, life, slot, selected, provider, readopted>>

(* The COMMIT of claimNext has no answer, whatever it did.                 *)
ClaimOutcomeUnknown(p) ==
    /\ MayClaim(p)
    /\ \/ UNCHANGED <<delivery, audit>>
       \/ \E d \in Deliveries : Due(d) /\ Eligible(d) /\ LeaseRow(p, d)
       \/ \E d \in Deliveries : Due(d) /\ ~Eligible(d) /\ Fail(d, delivery[d].generation, "failed")
    /\ slot' = [slot EXCEPT ![p] =
          [stage |-> "claim_unknown", delivery |-> NoDelivery, generation |-> 0,
           outcome |-> "none", started |-> 0]]
    /\ UNCHANGED <<now, quote, life, selected, provider, readopted>>

(* Mutant: a delivery being sent is adopted whoever holds its lease.       *)
LeasedToAnyone(p) == {d \in Deliveries : delivery[d].status = "sending"}

LeasedTo(p) == {d \in Deliveries : delivery[d].status = "sending" /\ delivery[d].owner = p}

(* Reconciling it: adopt the delivery leased to us that was attempted      *)
(* last.  The slot is released when there is none or the read fails.       *)
AdoptClaim(p) ==
    /\ Alive(p)
    /\ slot[p].stage = "claim_unknown"
    /\ \/ Release(p) /\ UNCHANGED readopted
       \/ \E d \in LeasedTo(p) :
          /\ \A other \in LeasedTo(p) : delivery[other].lastAttempt <= delivery[d].lastAttempt
          /\ StartAttempt(p, d, delivery[d].generation)
          /\ readopted' = IF <<d, delivery[d].generation>> \in called
                          THEN readopted \cup {d} ELSE readopted
    /\ UNCHANGED <<now, quote, delivery, audit, life, selected, provider>>

-----------------------------------------------------------------------------
(* The attempt: prepare, obtain an access token, transmit, complete.       *)

AtStage(p, stage) == Alive(p) /\ slot[p].stage = stage

Proceed(p, stage, outcome) ==
    slot' = [slot EXCEPT ![p] =
        [stage |-> stage, delivery |-> slot[p].delivery, generation |-> slot[p].generation,
         outcome |-> outcome, started |-> slot[p].started]]

BudgetLeft(p) == now - slot[p].started + SendBudget < Lease

(* Content loaded, document verified, envelope built: the send begins      *)
(* unless the process is stopping or too little of the lease is left.      *)
Prepare(p) ==
    /\ AtStage(p, "preparing")
    /\ IF life[p] = "up" /\ BudgetLeft(p)
       THEN Proceed(p, "token", "none")
       ELSE Proceed(p, "completing", "retryable")
    /\ UNCHANGED <<now, quote, delivery, audit, life, selected, provider, readopted>>

(* Any failure before the send is provably not sent.                       *)
PrepareFails(p) ==
    /\ AtStage(p, "preparing")
    /\ Proceed(p, "completing", "retryable")
    /\ UNCHANGED <<now, quote, delivery, audit, life, selected, provider, readopted>>

(* Message built and access token obtained.                                *)
ObtainToken(p) ==
    /\ AtStage(p, "token")
    /\ Proceed(p, "transmitting", "none")
    /\ called' = called \cup {<<slot[p].delivery, slot[p].generation>>}
    /\ UNCHANGED <<now, quote, delivery, audit, life, selected, accepted, readopted>>

(* An unbuildable message is refused for good, a token phase that fails in *)
(* any way is retryable, and an error thrown by the sender is ambiguous.   *)
TokenFails(p, outcome) ==
    /\ AtStage(p, "token")
    /\ outcome \in {"permanent", "retryable", "ambiguous"}
    /\ Proceed(p, "completing", outcome)
    /\ UNCHANGED <<now, quote, delivery, audit, life, selected, provider, readopted>>

(* External: the provider accepts the transmitted message.  Acceptances    *)
(* are counted up to AcceptanceCap: one too many is as wrong as several.   *)
AcceptanceCap == 2

ProviderAccepts(p) ==
    /\ AtStage(p, "transmitting")
    /\ Proceed(p, "taken", "none")
    /\ accepted' = [accepted EXCEPT ![slot[p].delivery] =
          IF @ < AcceptanceCap THEN @ + 1 ELSE @]
    /\ UNCHANGED <<now, quote, delivery, audit, life, selected, called, readopted>>

(* Mutant: a 5xx is retried.                                               *)
ServerErrorRetried(p, outcome) ==
    /\ \/ AtStage(p, "transmitting") /\ outcome \in {"retryable", "permanent", "ambiguous"}
       \/ AtStage(p, "taken") /\ outcome \in {"accepted", "ambiguous", "retryable"}
    /\ Proceed(p, "completing", outcome)
    /\ UNCHANGED <<now, quote, delivery, audit, life, selected, provider, readopted>>

(* sendRaw: 2xx is accepted; a proven pre-transmission failure, 401, 403   *)
(* and 429 are retryable; the permanent statuses are permanent; 5xx,       *)
(* timeouts, resets and anything else are ambiguous.                       *)
SendAnswered(p, outcome) ==
    /\ \/ AtStage(p, "transmitting") /\ outcome \in {"retryable", "permanent", "ambiguous"}
       \/ AtStage(p, "taken") /\ outcome \in {"accepted", "ambiguous"}
    /\ Proceed(p, "completing", outcome)
    /\ UNCHANGED <<now, quote, delivery, audit, life, selected, provider, readopted>>

(* complete: the outcome is recorded while the row still carries our       *)
(* fence.  A COMMIT whose answer is lost is only read back, never replayed.*)
Complete(p) ==
    LET d == slot[p].delivery
        row == delivery[d]
        outcome == slot[p].outcome IN
    /\ AtStage(p, "completing")
    /\ FenceHolds(p)
    /\ \/ outcome = "accepted" /\ Fail(d, row.generation, "sent")
       \/ outcome = "ambiguous" /\ Fail(d, row.generation, "unknown")
       \/ /\ outcome = "retryable"
          /\ MayRetry(row.attempts, row.requested)
          /\ delivery' = [delivery EXCEPT ![d] =
                Unleased(d, "pending", row.generation, RetryAt(row.attempts))]
          /\ UNCHANGED audit
       \/ /\ outcome = "permanent" \/ ~MayRetry(row.attempts, row.requested)
          /\ outcome \in {"retryable", "permanent"}
          /\ Fail(d, row.generation, "failed")
    /\ Release(p)
    /\ UNCHANGED <<now, quote, life, selected, provider, readopted>>

(* Stale fence, a transaction that failed, or a COMMIT lost before it      *)
(* applied: the row may stay sending under this process's lease.           *)
CompleteNotApplied(p) ==
    /\ AtStage(p, "completing")
    /\ Release(p)
    /\ UNCHANGED <<now, quote, delivery, audit, life, selected, provider, readopted>>

-----------------------------------------------------------------------------
(* sweepExpiredLeases: candidates are read without a lock, then each is    *)
(* re-checked under the quote and delivery locks.                          *)

Expired(d) == delivery[d].status = "sending" /\ delivery[d].lease < now

SweepSelect(d) ==
    /\ \E p \in Procs : life[p] = "up"
    /\ d \notin selected
    /\ Expired(d)
    /\ selected' = selected \cup {d}
    /\ UNCHANGED <<now, quote, delivery, audit, life, slot, provider, readopted>>

(* Mutant: an expired lease puts the delivery back into the queue.         *)
SweepRequeues(d) ==
    /\ \E p \in Procs : Alive(p)
    /\ d \in selected
    /\ selected' = selected \ {d}
    /\ delivery' = IF Expired(d)
          THEN [delivery EXCEPT ![d] = Unleased(d, "pending", delivery[d].generation, now)]
          ELSE delivery
    /\ UNCHANGED <<now, quote, audit, life, slot, provider, readopted>>

(* Mutant: a candidate is resolved without looking at it again.            *)
SweepUnchecked(d) ==
    /\ \E p \in Procs : Alive(p)
    /\ d \in selected
    /\ selected' = selected \ {d}
    /\ Fail(d, delivery[d].generation + 1, "unknown")
    /\ UNCHANGED <<now, quote, life, slot, provider, readopted>>

SweepDelivery(d) ==
    /\ \E p \in Procs : Alive(p)
    /\ d \in selected
    /\ selected' = selected \ {d}
    /\ IF Expired(d) THEN Fail(d, delivery[d].generation + 1, "unknown")
       ELSE UNCHANGED <<delivery, audit>>
    /\ UNCHANGED <<now, quote, life, slot, provider, readopted>>

-----------------------------------------------------------------------------
(* Processes and time.                                                     *)

StartProcess(p) ==
    /\ life[p] = "off"
    /\ life' = [life EXCEPT ![p] = "up"]
    /\ UNCHANGED <<now, quote, delivery, audit, slot, selected, provider, readopted>>

(* Graceful shutdown: no new claim, no new send.                           *)
StopProcess(p) ==
    /\ life[p] = "up"
    /\ life' = [life EXCEPT ![p] = "stopping"]
    /\ UNCHANGED <<now, quote, delivery, audit, slot, selected, provider, readopted>>

(* The process exits or crashes, at whatever stage its attempt is.         *)
EndProcess(p) ==
    /\ Alive(p)
    /\ life' = [life EXCEPT ![p] = "dead"]
    /\ Release(p)
    /\ UNCHANGED <<now, quote, delivery, audit, selected, provider, readopted>>

Tick ==
    /\ now < MaxNow
    /\ now' = now + 1
    /\ UNCHANGED <<quote, delivery, audit, life, slot, selected, provider, readopted>>

-----------------------------------------------------------------------------
Command ==
    \/ \E d \in Deliveries : RequestDelivery(d)
    \/ \E q \in Quotes : CancelQuote(q)

ClaimNext(p) == \E d \in Deliveries : Claim(p, d) \/ ClaimIneligible(p, d)

(* The steps an attempt takes once it runs.                                *)
Proceeds(p) ==
    \/ AdoptClaim(p)
    \/ Prepare(p)
    \/ PrepareFails(p)
    \/ ObtainToken(p)
    \/ \E outcome \in Outcomes : TokenFails(p, outcome) \/ SendAnswered(p, outcome)
    \/ Complete(p)
    \/ CompleteNotApplied(p)

Attempt(p) ==
    \/ ClaimNext(p)
    \/ ClaimOutcomeUnknown(p)
    \/ Proceeds(p)
    \/ ProviderAccepts(p)

Sweep == \E d \in Deliveries : SweepSelect(d) \/ SweepDelivery(d)

Lifecycle(p) == StartProcess(p) \/ StopProcess(p) \/ EndProcess(p)

Next ==
    \/ Command
    \/ \E p \in Procs : Attempt(p) \/ Lifecycle(p)
    \/ Sweep
    \/ Tick

Spec == Init /\ [][Next]_vars

(* Time passes; awaits settle (each has a timeout); the worker and the     *)
(* sweep are periodic jobs; not every COMMIT of a claim loses its answer.  *)
FairSpec ==
    /\ Spec
    /\ WF_vars(Tick)
    /\ WF_vars(Sweep)
    /\ \A p \in Procs : SF_vars(ClaimNext(p)) /\ WF_vars(Proceeds(p))

-----------------------------------------------------------------------------
(* Properties.                                                             *)

Instants == 0..MaxNow

DeliveryRow ==
    [status : {"absent", "pending", "sending"} \cup TerminalStatus,
     generation : Nat, attempts : Nat, owner : Procs \cup {NoProc},
     lease : Instants \cup {NoTime}, next : Instants \cup {NoTime},
     requested : Instants, lastAttempt : Instants \cup {NoTime}]

SlotRecord ==
    [stage : Stages, delivery : Deliveries \cup {NoDelivery}, generation : Nat,
     outcome : Outcomes \cup {"none"}, started : Instants]

SlotState ==
    {s \in SlotRecord :
        /\ s.stage \in AttemptStages => s.delivery \in Deliveries
        /\ s.stage = "completing" => s.outcome \in Outcomes}

(* Every variable keeps its type; leases and retries stay in the horizon.  *)
TypeOK ==
    /\ now \in Instants
    /\ quote \in [Quotes -> [status : {"issued", "cancelled"}, ended : Instants \cup {NoTime}]]
    /\ delivery \in [Deliveries -> DeliveryRow]
    /\ audit \in [Deliveries -> Nat]
    /\ life \in [Procs -> {"off", "up", "stopping", "dead"}]
    /\ slot \in [Procs -> SlotState]
    /\ selected \in SUBSET Deliveries
    /\ accepted \in [Deliveries -> Nat]
    /\ called \in SUBSET (Deliveries \X Nat)
    /\ readopted \in SUBSET Deliveries

(* The provider accepts a delivery at most once, unless a claim whose      *)
(* COMMIT got lost adopted a delivery it had already sent.                 *)
AcceptedOnce == \A d \in Deliveries \ readopted : accepted[d] <= 1

(* The recorded outcome is the truth: sent means accepted, failed or still *)
(* queued means never accepted.  unknown promises nothing.                 *)
OutcomeIsTruthful ==
    \A d \in Deliveries \ readopted :
        /\ delivery[d].status = "sent" => accepted[d] = 1
        /\ delivery[d].status \in {"pending", "failed"} => accepted[d] = 0

(* Every attempt was started on a quote neither cancelled nor past its     *)
(* validity, also a retry of a delivery that was being sent when the quote *)
(* ended.                                                                  *)
AttemptedWhileIssued ==
    \A d \in Deliveries :
        LET q == QuoteOf[d] IN
        delivery[d].lastAttempt # NoTime =>
            /\ delivery[d].lastAttempt < ValidUntil[q]
            /\ quote[q].status = "cancelled" => delivery[d].lastAttempt <= quote[q].ended

(* What a step may do to a row that is being sent, or that has ended.      *)
EndsByHolderOrSweep(d) ==
    /\ delivery[d].status = "sending" /\ delivery'[d] # delivery[d] =>
          \/ delivery'[d].status = "unknown"
          \/ /\ delivery'[d].status \in {"sent", "pending", "failed"}
             /\ delivery'[d].generation = delivery[d].generation
             /\ \E p \in Procs : /\ delivery[d].owner = p
                                  /\ slot[p].delivery = d
                                  /\ slot[p].stage = "completing"
    /\ delivery[d].status \in TerminalStatus => delivery'[d] = delivery[d]

(* A row being sent is never claimed again: it leaves sending by its       *)
(* holder's report of an outcome, or by the sweep, to unknown.  No trigger *)
(* of the database guards a terminal row; the code alone keeps it.         *)
NeverReclaimed == [][\A d \in Deliveries : EndsByHolderOrSweep(d)]_vars

Working(p) == slot[p].stage \in AttemptStages

(* Fencing tokens identify attempts, as for issuance.                      *)
TokensIdentifyHolders ==
    \A p \in Procs : Working(p) =>
        LET d == slot[p].delivery IN
        /\ slot[p].generation <= delivery[d].generation
        /\ slot[p].generation = delivery[d].generation /\ delivery[d].status = "sending"
              => delivery[d].owner = p
        /\ \A r \in Procs \ {p} :
              Working(r) /\ slot[r].delivery = d => slot[r].generation # slot[p].generation

(* One terminal audit event per delivery that ended, none before.          *)
OutcomeAuditedOnce ==
    \A d \in Deliveries :
        audit[d] = IF delivery[d].status \in TerminalStatus THEN 1 ELSE 0

(* The delivery guarantee of the retry policy: attempts are counted, at    *)
(* most MaxAttempts, and none is scheduled past the retry window.          *)
RetriesBounded ==
    \A d \in Deliveries :
        /\ delivery[d].attempts <= MaxAttempts
        /\ delivery[d].generation - delivery[d].attempts \in
              IF delivery[d].status = "unknown" THEN {0, 1} ELSE {0}
        /\ delivery[d].status = "pending" =>
              delivery[d].next <= delivery[d].requested + Window

(* Every requested delivery ends, through crashes, lost answers and lost   *)
(* completions, if from some time on a process is up.                      *)
EventuallyResolved ==
    (\E p \in Procs : <>[](life[p] = "up")) =>
        \A d \in Deliveries :
            delivery[d].status \in {"pending", "sending"} ~> delivery[d].status \in TerminalStatus

(* What the recovery document promises: at most one automatic provider     *)
(* acceptance per delivery.                                                *)
AtMostOneAcceptance == \A d \in Deliveries : accepted[d] <= 1
=============================================================================
