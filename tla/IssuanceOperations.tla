------------------------- MODULE IssuanceOperations -------------------------
(***************************************************************************)
(* The durable issuance operation and the processes that drive it.         *)
(*                                                                         *)
(* PostgreSQL is the only coordinator.  Every database transaction of      *)
(* issuance-operations.ts is one action: it locks the rows it decides on,  *)
(* reads the database clock under those locks and commits.  What a process *)
(* does between two transactions (load, render, publish, commit) is spread *)
(* over the stages of its single attempt slot, so every other transaction, *)
(* a lease expiry, a crash or a shutdown can fall between any two of them. *)
(*                                                                         *)
(* A COMMIT whose answer is lost leaves the process in a stage of its own, *)
(* with the transaction applied or not, until it re-reads durable state.   *)
(*                                                                         *)
(* Bounds: the clock stops at MaxNow, and an operation is only created     *)
(* when its deadline lies before MaxNow, so that every deadline can pass.  *)
(* Operation ids are fresh identifiers: QuoteOf fixes beforehand the quote *)
(* each id will be used for, which loses no behaviour.                     *)
(***************************************************************************)
EXTENDS Integers, Sequences

CONSTANTS
    Quotes, Ops, Procs, Renderings,
    QuoteOf,                      \* the quote each operation id belongs to
    NoOp, NoProc, NoRendering,    \* SQL null
    Lease,                        \* issuanceLeaseMs
    Deadline,                     \* issuanceDeadline, of an acceptance or a retry
    Backoff, BackoffCeiling,      \* the retry schedule and its last value
    MaxNow                        \* bound: where the clock stops

ASSUME ConstantsAssumption ==
    /\ QuoteOf \in [Ops -> Quotes]
    /\ NoOp \notin Ops
    /\ NoProc \notin Procs
    /\ NoRendering \notin Renderings
    /\ Lease \in Nat \ {0}
    /\ Deadline \in Nat \ {0}
    /\ Backoff \in Seq(Nat)
    /\ BackoffCeiling \in Nat
    /\ MaxNow \in Nat

VARIABLES
    now,        \* the database clock
    quote,      \* quotes: status, version, current_operation_id
    op,         \* issuance_operations, one row per id
    manifest,   \* quote_documents, at most one row per quote
    store,      \* the published artifacts
    audit,      \* number of terminal audit events written for each operation
    life,       \* of each process
    slot,       \* the single attempt slot of each process
    selected    \* candidates of a deadline sweep in progress

vars == <<now, quote, op, manifest, store, audit, life, slot, selected>>
database == <<quote, op, manifest, audit>>

-----------------------------------------------------------------------------
NoTime == -1

AbsentOp == [status |-> "absent", generation |-> 0, attempts |-> 0,
             owner |-> NoProc, lease |-> NoTime, next |-> NoTime,
             deadline |-> 0, lastAttempt |-> NoTime]

PendingOp == [status |-> "pending", generation |-> 0, attempts |-> 0,
              owner |-> NoProc, lease |-> NoTime, next |-> now,
              deadline |-> now + Deadline, lastAttempt |-> NoTime]

NoManifest == [op |-> NoOp, rendering |-> NoRendering]

FreeSlot == [stage |-> "idle", op |-> NoOp, generation |-> 0,
             rendering |-> NoRendering, lease |-> "held"]

(* Stages at which the attempt body runs and its lease is being renewed.   *)
BodyStages == {"loading", "rendering", "publishing", "committing",
               "commit_unknown", "recommitting", "recommit_unknown"}
FailStages == {"failing_retryable", "failing_final"}
RenderedStages == {"publishing", "committing", "commit_unknown",
                   "recommitting", "recommit_unknown"}
Stages == BodyStages \cup FailStages \cup {"idle", "claim_unknown"}

(* Mutant: the cap is forgotten.                                           *)
Uncapped(a, b) == a

Earlier(a, b) == IF a <= b THEN a ELSE b

(* issuanceBackoffMs: the wait after failed attempt n.                     *)
BackoffAfter(n) == IF n \in 1..Len(Backoff) THEN Backoff[n] ELSE BackoffCeiling

Active(o) == op[o].status \in {"pending", "running"}
Terminal(o) == op[o].status \in {"succeeded", "failed"}

(* fenceHolds, of the attempt in p's slot.                                 *)
FenceHolds(p) ==
    LET s == slot[p] IN
    /\ s.op \in Ops
    /\ op[s.op].status = "running"
    /\ op[s.op].generation = s.generation
    /\ op[s.op].owner = p

(* The attempt's AbortSignal.                                              *)
Aborted(p) == slot[p].lease # "held" \/ life[p] = "stopping"

Alive(p) == life[p] \in {"up", "stopping"}

Init ==
    /\ now = 0
    /\ quote = [q \in Quotes |-> [status |-> "draft", version |-> 1, current |-> NoOp]]
    /\ op = [o \in Ops |-> AbsentOp]
    /\ manifest = [q \in Quotes |-> NoManifest]
    /\ store = {}
    /\ audit = [o \in Ops |-> [issued |-> 0, failed |-> 0]]
    /\ life = [p \in Procs |-> "off"]
    /\ slot = [p \in Procs |-> FreeSlot]
    /\ selected = {}

-----------------------------------------------------------------------------
(* Commands on the quote row.                                              *)

(* A fresh operation id may be created now.                                *)
Creatable(o) == op[o].status = "absent" /\ now + Deadline < MaxNow

(* Acceptance of a draft (T3): the quote is frozen, its operation pending. *)
Accept(o) ==
    LET q == QuoteOf[o] IN
    /\ Creatable(o)
    /\ quote[q].status = "draft"
    /\ op' = [op EXCEPT ![o] = PendingOp]
    /\ quote' = [quote EXCEPT ![q] =
          [status |-> "issuing", version |-> quote[q].version + 1, current |-> o]]
    /\ UNCHANGED <<now, manifest, store, audit, life, slot, selected>>

(* Mutant: a retry on top of any current operation.                        *)
RetryAnyOperation(f, o) ==
    LET q == QuoteOf[o] IN
    /\ Creatable(o)
    /\ quote[q].status = "issuing"
    /\ quote[q].current = f
    /\ op' = [op EXCEPT ![o] = PendingOp]
    /\ quote' = [quote EXCEPT ![q] =
          [status |-> "issuing", version |-> quote[q].version + 1, current |-> o]]
    /\ UNCHANGED <<now, manifest, store, audit, life, slot, selected>>

(* createOperatorRetry (T10): only on top of the failed current operation. *)
OperatorRetry(f, o) ==
    LET q == QuoteOf[o] IN
    /\ Creatable(o)
    /\ quote[q].status = "issuing"
    /\ quote[q].current = f
    /\ op[f].status = "failed"
    /\ op' = [op EXCEPT ![o] = PendingOp]
    /\ quote' = [quote EXCEPT ![q] =
          [status |-> "issuing", version |-> quote[q].version + 1, current |-> o]]
    /\ UNCHANGED <<now, manifest, store, audit, life, slot, selected>>

(* Mutant: an issuing quote is cancelled whatever its operation does.      *)
CancelAnyQuote(q) ==
    /\ quote[q].status \in {"draft", "issuing", "issued"}
    /\ quote' = [quote EXCEPT ![q] =
          [status |-> "cancelled", version |-> quote[q].version + 1,
           current |-> quote[q].current]]
    /\ UNCHANGED <<now, op, manifest, store, audit, life, slot, selected>>

(* A principal cancels a draft, an issuing quote whose current operation   *)
(* failed (T11), or an issued quote (validity lies beyond the horizon).    *)
CancelQuote(q) ==
    /\ \/ quote[q].status \in {"draft", "issued"}
       \/ /\ quote[q].status = "issuing"
          /\ \E f \in Ops : quote[q].current = f /\ op[f].status = "failed"
    /\ quote' = [quote EXCEPT ![q] =
          [status |-> "cancelled", version |-> quote[q].version + 1,
           current |-> quote[q].current]]
    /\ UNCHANGED <<now, op, manifest, store, audit, life, slot, selected>>

-----------------------------------------------------------------------------
(* Claiming.                                                               *)

(* Mutant: a running operation is taken over at once.                      *)
ClaimableWhileLeased(o) ==
    /\ quote[QuoteOf[o]].status = "issuing"
    /\ quote[QuoteOf[o]].current = o
    /\ now < op[o].deadline
    /\ \/ op[o].status = "pending" /\ op[o].next <= now
       \/ op[o].status = "running"

Claimable(o) ==
    /\ quote[QuoteOf[o]].status = "issuing"
    /\ quote[QuoteOf[o]].current = o
    /\ now < op[o].deadline
    /\ \/ op[o].status = "pending" /\ op[o].next <= now
       \/ op[o].status = "running" /\ op[o].lease < now

(* Mutant: only claims of pending operations count as attempts.            *)
ClaimRowUncounted(p, o) ==
    op' = [op EXCEPT ![o] =
        [status |-> "running", generation |-> op[o].generation + 1,
         attempts |-> op[o].attempts + (IF op[o].status = "pending" THEN 1 ELSE 0),
         owner |-> p, lease |-> Earlier(now + Lease, op[o].deadline),
         next |-> NoTime, deadline |-> op[o].deadline, lastAttempt |-> now]]

ClaimRow(p, o) ==
    op' = [op EXCEPT ![o] =
        [status |-> "running",
         generation |-> op[o].generation + 1, attempts |-> op[o].attempts + 1,
         owner |-> p, lease |-> Earlier(now + Lease, op[o].deadline),
         next |-> NoTime, deadline |-> op[o].deadline, lastAttempt |-> now]]

StartAttempt(p, o, generation) ==
    slot' = [slot EXCEPT ![p] =
        [stage |-> "loading", op |-> o, generation |-> generation,
         rendering |-> NoRendering, lease |-> "held"]]

Release(p) == slot' = [slot EXCEPT ![p] = FreeSlot]
Await(p, stage) == slot' = [slot EXCEPT ![p] = [slot[p] EXCEPT !.stage = stage]]

MayClaim(p) == life[p] = "up" /\ slot[p].stage = "idle"

(* claimNext and claimOperation; skip locked lets either take any eligible *)
(* operation.                                                              *)
Claim(p, o) ==
    /\ MayClaim(p)
    /\ Claimable(o)
    /\ ClaimRow(p, o)
    /\ StartAttempt(p, o, op[o].generation + 1)
    /\ UNCHANGED <<now, quote, manifest, store, audit, life, selected>>

(* The COMMIT of a claim has no answer: the claim of o was applied, or     *)
(* nothing was.  target is the operation an inline request asked for, NoOp *)
(* for the periodic worker.                                                *)
ClaimOutcomeUnknown(p, target) ==
    /\ MayClaim(p)
    /\ \/ UNCHANGED op
       \/ \E o \in Ops : /\ target \in {NoOp, o}
                         /\ Claimable(o)
                         /\ ClaimRow(p, o)
    /\ slot' = [slot EXCEPT ![p] =
          [stage |-> "claim_unknown", op |-> target, generation |-> 0,
           rendering |-> NoRendering, lease |-> "held"]]
    /\ UNCHANGED <<now, quote, manifest, store, audit, life, selected>>

(* Mutant: a running operation is adopted whoever holds its lease.         *)
LeasedToAnyone(p, target) ==
    {o \in Ops : op[o].status = "running" /\ target \in {NoOp, o}}

LeasedTo(p, target) ==
    {o \in Ops : /\ op[o].status = "running"
                 /\ op[o].owner = p
                 /\ target \in {NoOp, o}}

(* Reconciling an unknown claim: adopt the running operation leased to us  *)
(* that was attempted last.  The slot is released when there is none, or   *)
(* when the read fails.                                                    *)
AdoptClaim(p) ==
    /\ Alive(p)
    /\ slot[p].stage = "claim_unknown"
    /\ LET mine == LeasedTo(p, slot[p].op) IN
       \/ Release(p)
       \/ \E o \in mine :
          /\ \A other \in mine : op[other].lastAttempt <= op[o].lastAttempt
          /\ StartAttempt(p, o, op[o].generation)
    /\ UNCHANGED <<now, database, store, life, selected>>

-----------------------------------------------------------------------------
(* The lease renewal that runs beside the body.                            *)
Renew(p) ==
    LET s == slot[p] IN
    /\ Alive(p)
    /\ s.stage \in BodyStages
    /\ s.lease = "held"
    /\ \/ /\ FenceHolds(p)
          /\ now < op[s.op].deadline
          /\ op' = [op EXCEPT ![s.op] =
                [op[s.op] EXCEPT !.lease = Earlier(now + Lease, op[s.op].deadline)]]
          /\ UNCHANGED slot
       \/ /\ ~FenceHolds(p)
          /\ slot' = [slot EXCEPT ![p] = [s EXCEPT !.lease = "lost"]]
          /\ UNCHANGED op
       \/ /\ FenceHolds(p)
          /\ now >= op[s.op].deadline
          /\ slot' = [slot EXCEPT ![p] = [s EXCEPT !.lease = "deadline"]]
          /\ UNCHANGED op
    /\ UNCHANGED <<now, quote, manifest, store, audit, life, selected>>

-----------------------------------------------------------------------------
(* The attempt body: load, render, publish, commit, with the signal        *)
(* checked after each await.                                               *)

AtStage(p, stage) == Alive(p) /\ slot[p].stage = stage

(* On to the next stage, or abandoned (no durable write) once aborted.     *)
ProceedTo(p, stage, rendering) ==
    slot' = [slot EXCEPT ![p] =
        IF Aborted(p) THEN FreeSlot
        ELSE [stage |-> stage, op |-> slot[p].op, generation |-> slot[p].generation,
              rendering |-> rendering, lease |-> slot[p].lease]]

LoadSnapshot(p) ==
    /\ AtStage(p, "loading")
    /\ ProceedTo(p, "rendering", NoRendering)
    /\ UNCHANGED <<now, database, store, life, selected>>

RenderPdf(p) ==
    /\ AtStage(p, "rendering")
    /\ \E r \in Renderings : ProceedTo(p, "publishing", r)
    /\ UNCHANGED <<now, database, store, life, selected>>

Artifact(p) == <<QuoteOf[slot[p].op], slot[p].rendering>>

Publish(p) ==
    /\ AtStage(p, "publishing")
    /\ store' = store \cup {Artifact(p)}
    /\ ProceedTo(p, "committing", slot[p].rendering)
    /\ UNCHANGED <<now, database, life, selected>>

(* Mutant: the commit does not check the fencing token.                    *)
CommitUnfenced(p) ==
    LET o == slot[p].op
        q == QuoteOf[o] IN
    /\ quote[q].status = "issuing"
    /\ quote[q].current = o
    /\ manifest[q] = NoManifest

(* commitIssuedTx (T5), under the quote and the operation lock.            *)
CommitAllowed(p) ==
    LET o == slot[p].op
        q == QuoteOf[o] IN
    /\ FenceHolds(p)
    /\ quote[q].status = "issuing"
    /\ quote[q].current = o
    /\ manifest[q] = NoManifest

(* The row of an operation that ends, or is scheduled again.               *)
Unleased(o, status, generation, next) ==
    [status |-> status, generation |-> generation, attempts |-> op[o].attempts,
     owner |-> NoProc, lease |-> NoTime, next |-> next,
     deadline |-> op[o].deadline, lastAttempt |-> op[o].lastAttempt]

CommitWrites(p) ==
    LET o == slot[p].op
        q == QuoteOf[o] IN
    /\ manifest' = [manifest EXCEPT ![q] =
          [op |-> o, rendering |-> slot[p].rendering]]
    /\ op' = [op EXCEPT ![o] =
          Unleased(o, "succeeded", op[o].generation, NoTime)]
    /\ quote' = [quote EXCEPT ![q] =
          [status |-> "issued", version |-> quote[q].version + 1,
           current |-> quote[q].current]]
    /\ audit' = [audit EXCEPT ![o] =
          [audit[o] EXCEPT !.issued = audit[o].issued + 1]]

Commits == {"committing", "recommitting"}

AfterUnknownCommit(stage) ==
    IF stage = "committing" THEN "commit_unknown" ELSE "recommit_unknown"

(* Applied: the answer arrives, or the outcome of the COMMIT is unknown.   *)
CommitIssued(p) ==
    /\ Alive(p)
    /\ slot[p].stage \in Commits
    /\ CommitAllowed(p)
    /\ CommitWrites(p)
    /\ Release(p) \/ Await(p, AfterUnknownCommit(slot[p].stage))
    /\ UNCHANGED <<now, store, life, selected>>

(* Mutant: the manifest is inserted outside the transaction, which leaves  *)
(* it behind when the rest is fenced out or rolled back.                   *)
ManifestOutlivesRollback(p) ==
    LET q == QuoteOf[slot[p].op] IN
    /\ Alive(p)
    /\ slot[p].stage \in Commits
    /\ \/ ~CommitAllowed(p) /\ Release(p)
       \/ Await(p, AfterUnknownCommit(slot[p].stage))
    /\ manifest[q] = NoManifest
    /\ manifest' = [manifest EXCEPT ![q] =
          [op |-> slot[p].op, rendering |-> slot[p].rendering]]
    /\ UNCHANGED <<now, quote, op, audit, store, life, selected>>

(* Zero effect: fenced out, or the COMMIT got lost before it applied.      *)
CommitNotApplied(p) ==
    /\ Alive(p)
    /\ slot[p].stage \in Commits
    /\ \/ ~CommitAllowed(p) /\ Release(p)
       \/ Await(p, AfterUnknownCommit(slot[p].stage))
    /\ UNCHANGED <<now, database, store, life, selected>>

(* Unknown outcome, re-read: still ours and untouched is tried once more,  *)
(* anything else ends the attempt.                                         *)
ReconcileCommit(p) ==
    LET o == slot[p].op IN
    /\ Alive(p)
    /\ slot[p].stage \in {"commit_unknown", "recommit_unknown"}
    /\ IF /\ slot[p].stage = "commit_unknown"
          /\ FenceHolds(p)
          /\ manifest[QuoteOf[o]] = NoManifest
       THEN Await(p, "recommitting")
       ELSE Release(p)
    /\ UNCHANGED <<now, database, store, life, selected>>

-----------------------------------------------------------------------------
(* A failed attempt.                                                       *)

(* An error leaves the body: loading, rendering and publishing may fail    *)
(* either way, a database error around the commit is always retryable.     *)
(* Nothing is written once the lease is lost or the process is stopping.   *)
AttemptFails(p, retryable) ==
    /\ Alive(p)
    /\ slot[p].stage \in BodyStages
    /\ retryable \/ slot[p].stage \in {"loading", "rendering", "publishing"}
    /\ IF slot[p].lease = "lost" \/ life[p] = "stopping"
       THEN Release(p)
       ELSE Await(p, IF retryable THEN "failing_retryable" ELSE "failing_final")
    /\ UNCHANGED <<now, database, store, life, selected>>

OpFailed(o, bump) ==
    /\ op' = [op EXCEPT ![o] =
          Unleased(o, "failed", op[o].generation + bump, NoTime)]
    /\ audit' = [audit EXCEPT ![o] =
          [audit[o] EXCEPT !.failed = audit[o].failed + 1]]

(* failAttempt: terminal, or back to pending with backoff.                 *)
FailAttempt(p) ==
    LET o == slot[p].op IN
    /\ Alive(p)
    /\ slot[p].stage \in FailStages
    /\ FenceHolds(p)
    /\ \/ /\ slot[p].stage = "failing_final" \/ now >= op[o].deadline
          /\ OpFailed(o, 0)
       \/ /\ slot[p].stage = "failing_retryable"
          /\ now < op[o].deadline
          /\ op' = [op EXCEPT ![o] = Unleased(o, "pending", op[o].generation,
                Earlier(now + BackoffAfter(op[o].attempts), op[o].deadline))]
          /\ UNCHANGED audit
    /\ Release(p)
    /\ UNCHANGED <<now, quote, manifest, store, life, selected>>

(* Fenced out, or the transaction failed or got lost before it applied:    *)
(* the row may stay running under this process's lease.                    *)
FailAttemptNotApplied(p) ==
    /\ Alive(p)
    /\ slot[p].stage \in FailStages
    /\ Release(p)
    /\ UNCHANGED <<now, database, store, life, selected>>

-----------------------------------------------------------------------------
(* failDeadlineExceeded: candidates are read without a lock, then each is  *)
(* re-checked in a transaction of its own.                                 *)

(* Mutant: the sweep forgets operations whose holder died.                 *)
PendingDue(o) == now >= op[o].deadline /\ op[o].status = "pending"

DeadlineDue(o) ==
    /\ now >= op[o].deadline
    /\ \/ op[o].status = "pending"
       \/ op[o].status = "running" /\ op[o].lease < now

SomeProcessUp == \E p \in Procs : life[p] = "up"

SweepSelect(o) ==
    /\ SomeProcessUp
    /\ o \notin selected
    /\ DeadlineDue(o)
    /\ selected' = selected \cup {o}
    /\ UNCHANGED <<now, database, store, life, slot>>

(* Mutant: a candidate is failed without looking at it again.              *)
SweepUnchecked(o) == op[o].status # "absent"

SweepDue(o) == DeadlineDue(o)

SweepOperation(o) ==
    /\ \E p \in Procs : Alive(p)
    /\ o \in selected
    /\ selected' = selected \ {o}
    /\ IF SweepDue(o) THEN OpFailed(o, 1) ELSE UNCHANGED <<op, audit>>
    /\ UNCHANGED <<now, quote, manifest, store, life, slot>>

-----------------------------------------------------------------------------
(* Processes and time.                                                     *)

StartProcess(p) ==
    /\ life[p] = "off"
    /\ life' = [life EXCEPT ![p] = "up"]
    /\ UNCHANGED <<now, database, store, slot, selected>>

(* Graceful shutdown: no new claims, the attempt's signal is aborted.      *)
StopProcess(p) ==
    /\ life[p] = "up"
    /\ life' = [life EXCEPT ![p] = "stopping"]
    /\ UNCHANGED <<now, database, store, slot, selected>>

(* The process exits or crashes; its successor has another lease owner id. *)
EndProcess(p) ==
    /\ Alive(p)
    /\ life' = [life EXCEPT ![p] = "dead"]
    /\ slot' = [slot EXCEPT ![p] = FreeSlot]
    /\ UNCHANGED <<now, database, store, selected>>

Tick ==
    /\ now < MaxNow
    /\ now' = now + 1
    /\ UNCHANGED <<database, store, life, slot, selected>>

-----------------------------------------------------------------------------
Command ==
    \/ \E o \in Ops : Accept(o)
    \/ \E f, o \in Ops : OperatorRetry(f, o)
    \/ \E q \in Quotes : CancelQuote(q)

Attempt(p) ==
    \/ \E o \in Ops : Claim(p, o)
    \/ \E target \in Ops \cup {NoOp} : ClaimOutcomeUnknown(p, target)
    \/ AdoptClaim(p)
    \/ Renew(p)
    \/ LoadSnapshot(p)
    \/ RenderPdf(p)
    \/ Publish(p)
    \/ CommitIssued(p)
    \/ CommitNotApplied(p)
    \/ ReconcileCommit(p)
    \/ \E retryable \in BOOLEAN : AttemptFails(p, retryable)
    \/ FailAttempt(p)
    \/ FailAttemptNotApplied(p)

Sweep == \E o \in Ops : SweepSelect(o) \/ SweepOperation(o)

Lifecycle(p) == StartProcess(p) \/ StopProcess(p) \/ EndProcess(p)

Next ==
    \/ Command
    \/ \E p \in Procs : Attempt(p) \/ Lifecycle(p)
    \/ Sweep
    \/ Tick

Spec == Init /\ [][Next]_vars

(* Time passes, and while a process is up its deadline sweep runs.         *)
FairSpec == Spec /\ WF_vars(Tick) /\ WF_vars(Sweep)
-----------------------------------------------------------------------------
(* Row predicates the database itself enforces.                            *)

(* CHECK constraints of issuance_operations.                               *)
OperationChecks(row) ==
    /\ row.generation >= row.attempts
    /\ (row.status = "running") <=> (row.owner # NoProc /\ row.lease # NoTime)
    /\ row.status = "pending" => row.next # NoTime
    /\ row.status \in {"running", "succeeded"} => row.attempts >= 1

(* CHECK constraints of quotes: acceptance sets the current operation.     *)
QuoteChecks(row) ==
    /\ row.status = "draft" => row.current = NoOp
    /\ row.status \in {"issuing", "issued", "expired"} => row.current # NoOp

(* Trigger quotes_guard: the quote state machine.                          *)
QuotesGuard(old, new) ==
    /\ \/ old.status = "draft" /\ new.status \in {"draft", "issuing", "cancelled"}
       \/ old.status = "issuing" /\ new.status \in {"issuing", "issued", "cancelled"}
       \/ old.status = "issued" /\ new.status \in {"issued", "cancelled", "expired"}
       \/ old.status = new.status /\ old.status \in {"expired", "cancelled"}
    /\ new.version >= old.version

(* Trigger issuance_operations_guard: terminal rows are immutable, the     *)
(* deadline is frozen, generation and attempts never decrease.             *)
OperationsGuard(old, new) ==
    /\ old.status \notin {"succeeded", "failed"}
    /\ new.deadline = old.deadline
    /\ new.generation >= old.generation
    /\ new.attempts >= old.attempts

-----------------------------------------------------------------------------
(* Properties.                                                             *)

Instants == 0..MaxNow

OperationRow ==
    [status : {"absent", "pending", "running", "succeeded", "failed"},
     generation : Nat, attempts : Nat, owner : Procs \cup {NoProc},
     lease : Instants \cup {NoTime}, next : Instants \cup {NoTime},
     deadline : Instants, lastAttempt : Instants \cup {NoTime}]

QuoteRow == [status : {"draft", "issuing", "issued", "cancelled"},
             version : Nat, current : Ops \cup {NoOp}]

SlotRecord == [stage : Stages, op : Ops \cup {NoOp}, generation : Nat,
               rendering : Renderings \cup {NoRendering},
               lease : {"held", "lost", "deadline"}]

(* An attempt names its operation, and from rendering on its rendering.    *)
SlotState ==
    {s \in SlotRecord :
        /\ s.stage \in BodyStages \cup FailStages => s.op \in Ops
        /\ s.stage \in RenderedStages => s.rendering \in Renderings}

(* Every variable keeps its type; no stored instant lies past the clock's  *)
(* horizon, because leases and retries are capped by the deadline.         *)
TypeOK ==
    /\ now \in Instants
    /\ quote \in [Quotes -> QuoteRow]
    /\ op \in [Ops -> OperationRow]
    /\ manifest \in [Quotes -> [op : Ops \cup {NoOp}, rendering : Renderings \cup {NoRendering}]]
    /\ store \in SUBSET (Quotes \X Renderings)
    /\ audit \in [Ops -> [issued : Nat, failed : Nat]]
    /\ life \in [Procs -> {"off", "up", "stopping", "dead"}]
    /\ slot \in [Procs -> SlotState]
    /\ selected \in SUBSET Ops

(* No transaction of the service ever runs into a CHECK constraint, a      *)
(* unique index or the deferred document trigger: rows satisfy all of them *)
(* because of the service's own guards (two active operations would need a *)
(* retry or an acceptance racing a claim).                                 *)
SchemaHolds ==
    /\ \A o \in Ops : op[o].status # "absent" => OperationChecks(op[o])
    /\ \A q \in Quotes : QuoteChecks(quote[q])
    /\ \A a, b \in Ops : a # b /\ QuoteOf[a] = QuoteOf[b] =>
          /\ ~(Active(a) /\ Active(b))
          /\ ~(op[a].status = "succeeded" /\ op[b].status = "succeeded")
    /\ \A q \in Quotes : quote[q].status = "issued" => manifest[q] # NoManifest

(* No step is one the update triggers would reject: terminal operations,   *)
(* manifests and cancelled quotes never change, fencing tokens only grow.  *)
GuardsNeverFire ==
    [][/\ \A q \in Quotes : quote'[q] # quote[q] => QuotesGuard(quote[q], quote'[q])
       /\ \A o \in Ops : op'[o] # op[o] /\ op[o].status # "absent"
                             => OperationsGuard(op[o], op'[o])
       /\ \A q \in Quotes : manifest[q] # NoManifest => manifest'[q] = manifest[q]
      ]_vars

(* A manifest belongs to an operation of its quote that succeeded, and it  *)
(* names bytes that were published; a succeeded operation has the manifest *)
(* of its quote, is its current one, and the quote was issued; an issued   *)
(* quote has a manifest.  So no race of holders, no cancel or retry and no *)
(* lost answer leaves a document without its operation, an issued quote    *)
(* without its document, or a manifest naming missing bytes.               *)
ManifestMatchesOutcome ==
    /\ \A q \in Quotes :
          /\ manifest[q] # NoManifest =>
                /\ manifest[q].op \in Ops /\ QuoteOf[manifest[q].op] = q
                /\ <<q, manifest[q].rendering>> \in store
          /\ quote[q].status = "issued" => manifest[q] # NoManifest
    /\ \A o \in Ops :
          LET q == QuoteOf[o] IN
          /\ manifest[q].op = o <=> op[o].status = "succeeded"
          /\ op[o].status = "succeeded" =>
                quote[q].current = o /\ quote[q].status \in {"issued", "cancelled"}

(* An operation that may still run belongs to an issuing quote and is its  *)
(* current one.  The claim relies on it: it locks the operation row only,  *)
(* and the quote row it joins may be read before a concurrent commit.      *)
ActiveIsCurrent ==
    \A o \in Ops : Active(o) =>
        quote[QuoteOf[o]].status = "issuing" /\ quote[QuoteOf[o]].current = o

(* A holder with a live lease is never pre-empted: while the lease runs,   *)
(* the row leaves running, or changes holder, only by a step of its owner  *)
(* working on that very generation.                                        *)
LiveLeaseRespected ==
    [][\A o \in Ops :
        /\ op[o].status = "running"
        /\ op[o].lease >= now
        /\ op'[o].status # "running" \/ op'[o].generation # op[o].generation
        => /\ op'[o].generation = op[o].generation
           /\ \E p \in Procs : /\ op[o].owner = p
                                /\ slot[p].op = o
                                /\ slot[p].generation = op[o].generation
                                /\ slot'[p] # slot[p]
      ]_vars

Working(p) == slot[p].stage \in BodyStages \cup FailStages

(* Fencing tokens identify attempts: no two processes work under the same  *)
(* token, none is ahead of the row, and whoever carries the token of a     *)
(* running row is its owner.                                               *)
TokensIdentifyHolders ==
    \A p \in Procs : Working(p) =>
        LET o == slot[p].op IN
        /\ slot[p].generation <= op[o].generation
        /\ slot[p].generation = op[o].generation /\ op[o].status = "running"
              => op[o].owner = p
        /\ \A r \in Procs \ {p} :
              Working(r) /\ slot[r].op = o => slot[r].generation # slot[p].generation

(* The terminal audit event of an operation is written exactly once, with  *)
(* its outcome, whatever commit answers were lost and retried.             *)
OutcomeAuditedOnce ==
    \A o \in Ops :
        /\ audit[o].issued = (IF op[o].status = "succeeded" THEN 1 ELSE 0)
        /\ audit[o].failed = (IF op[o].status = "failed" THEN 1 ELSE 0)

(* A lease or a scheduled retry never outlives the operation's deadline,   *)
(* which is what lets the sweep end every operation.                       *)
DeadlineCapsSchedule ==
    \A o \in Ops :
        /\ op[o].status = "running" => op[o].lease <= op[o].deadline
        /\ op[o].status = "pending" => op[o].next <= op[o].deadline

(* The generation counts the attempts, plus one for a sweep: no claim goes *)
(* uncounted (the backoff depends on it) and no other step burns a token.  *)
AttemptsAccounted ==
    \A o \in Ops :
        IF op[o].status = "failed"
        THEN op[o].generation - op[o].attempts \in {0, 1}
        ELSE op[o].generation = op[o].attempts

OutcomeOf(q) ==
    IF quote[q].current = NoOp THEN "none"
    ELSE IF Active(quote[q].current) THEN "running" ELSE op[quote[q].current].status

QuoteLife == INSTANCE QuoteLifecycle WITH
    phase <- [q \in Quotes |-> quote[q].status],
    outcome <- [q \in Quotes |-> OutcomeOf(q)],
    document <- [q \in Quotes |-> manifest[q] # NoManifest],
    version <- [q \in Quotes |-> quote[q].version]

(* Seen from the quotes, all the claims, leases, retries, lost answers and *)
(* takeovers of the holders come down to the transitions of the state      *)
(* machine: a quote, its operation's outcome and its document change only  *)
(* together, and never back.                                               *)
ImplementsLifecycle == QuoteLife!Spec

(* Every accepted operation ends, through crashes, lost answers and        *)
(* abandoned attempts, if from some time on a process is up to sweep.      *)
EventuallyTerminal ==
    <>[]SomeProcessUp => \A o \in Ops : Active(o) ~> Terminal(o)

(* What the recovery document says of a holder: it commits or fails before *)
(* its lease expires.                                                      *)
CommitsUnderLiveLease ==
    [][\A o \in Ops : op[o].status = "running" /\ op'[o].status = "succeeded"
          => now <= op[o].lease]_vars

(* What the recovery document says of a graceful shutdown: an in-flight    *)
(* attempt finishes, it is not given up while its lease is still held.     *)
ShutdownLetsAttemptsFinish ==
    [][\A p \in Procs :
          /\ life[p] = "stopping" /\ life'[p] = "stopping"
          /\ slot[p].stage \in {"loading", "rendering", "publishing"}
          /\ slot[p].lease = "held"
          => slot'[p].stage # "idle"]_vars
=============================================================================
