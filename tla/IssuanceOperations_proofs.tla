---------------------- MODULE IssuanceOperations_proofs ----------------------
(***************************************************************************)
(* Proofs about IssuanceOperations, for every set of quotes, operations    *)
(* and processes, every lease, deadline and backoff schedule, and every    *)
(* horizon of the clock.                                                   *)
(***************************************************************************)
EXTENDS IssuanceOperations, TLAPS

(* issuanceBackoffMs always answers a wait.                                *)
LEMMA BackoffType == ASSUME NEW n PROVE BackoffAfter(n) \in Nat
  BY ConstantsAssumption DEF ConstantsAssumption, BackoffAfter

(* A lease or a retry capped by a deadline is an instant of the horizon,   *)
(* no later than that deadline.                                            *)
LEMMA CappedInstant ==
    ASSUME NEW t \in Instants, NEW a \in Nat, NEW d \in Instants
    PROVE  Earlier(t + a, d) \in Instants /\ Earlier(t + a, d) <= d
  BY ConstantsAssumption DEF ConstantsAssumption, Earlier, Instants

(* A free slot, a started attempt, and a slot that changed its stage or    *)
(* its view of the lease, are slots.                                       *)
LEMMA FreeSlotType == FreeSlot \in SlotState
  BY DEF FreeSlot, SlotState, SlotRecord, Stages, BodyStages, FailStages, RenderedStages

LEMMA LoadingSlotType ==
    ASSUME NEW o \in Ops, NEW g \in Nat
    PROVE  [stage |-> "loading", op |-> o, generation |-> g,
            rendering |-> NoRendering, lease |-> "held"] \in SlotState
  BY DEF SlotState, SlotRecord, Stages, BodyStages, FailStages, RenderedStages

LEMMA StageType ==
    ASSUME NEW s \in SlotState, NEW stage \in Stages, s.op \in Ops,
           stage \in RenderedStages => s.rendering \in Renderings
    PROVE  [s EXCEPT !.stage = stage] \in SlotState
  BY DEF SlotState, SlotRecord

LEMMA SlotLeaseType ==
    ASSUME NEW s \in SlotState, NEW l \in {"held", "lost", "deadline"}
    PROVE  [s EXCEPT !.lease = l] \in SlotState
  BY DEF SlotState, SlotRecord

LEMMA SlotUpdateType ==
    ASSUME TypeOK, NEW p \in Procs, NEW s \in SlotState, slot' = [slot EXCEPT ![p] = s]
    PROVE  slot' \in [Procs -> SlotState]
  BY DEF TypeOK

LEMMA ReleaseType ==
    ASSUME TypeOK, NEW p \in Procs, Release(p)
    PROVE  slot' \in [Procs -> SlotState]
  BY SlotUpdateType, FreeSlotType DEF Release

LEMMA AwaitType ==
    ASSUME TypeOK, NEW p \in Procs, NEW stage \in Stages, Await(p, stage),
           slot[p].op \in Ops,
           stage \in RenderedStages => slot[p].rendering \in Renderings
    PROVE  slot' \in [Procs -> SlotState]
  <1>1. slot[p] \in SlotState
    BY DEF TypeOK
  <1> QED BY <1>1, SlotUpdateType, StageType DEF Await

(* What a slot's stage says of its operation and its rendering.            *)
LEMMA StageFacts ==
    ASSUME TypeOK, NEW p \in Procs
    PROVE  /\ slot[p] \in SlotState
           /\ slot[p].stage \in Stages
           /\ slot[p].generation \in Nat
           /\ slot[p].stage \in BodyStages \cup FailStages => slot[p].op \in Ops
           /\ slot[p].stage \in RenderedStages => slot[p].rendering \in Renderings
  BY DEF TypeOK, SlotState, SlotRecord

(* So does an attempt that proceeds, or is abandoned because aborted.      *)
LEMMA ProceedType ==
    ASSUME TypeOK, NEW p \in Procs, NEW stage \in BodyStages,
           NEW r \in Renderings \cup {NoRendering},
           stage \in RenderedStages => r \in Renderings,
           slot[p].op \in Ops,
           ProceedTo(p, stage, r)
    PROVE  slot' \in [Procs -> SlotState]
  <1>1. [stage |-> stage, op |-> slot[p].op, generation |-> slot[p].generation,
         rendering |-> r, lease |-> slot[p].lease] \in SlotState
    BY DEF TypeOK, SlotState, SlotRecord, Stages
  <1> QED BY <1>1, FreeSlotType, SlotUpdateType DEF ProceedTo

(* A claimed row is a row.                                                 *)
LEMMA ClaimRowType ==
    ASSUME TypeOK, NEW p \in Procs, NEW o \in Ops, ClaimRow(p, o)
    PROVE  op' \in [Ops -> OperationRow]
  <1>1. Earlier(now + Lease, op[o].deadline) \in Instants
    BY CappedInstant, ConstantsAssumption DEF ConstantsAssumption, TypeOK, OperationRow
  <1> QED BY <1>1 DEF ClaimRow, TypeOK, OperationRow

(* So is a row whose lease was extended.                                   *)
LEMMA LeaseType ==
    ASSUME NEW row \in OperationRow, NEW t \in Instants
    PROVE  [row EXCEPT !.lease = t] \in OperationRow
  BY DEF OperationRow

(* So is the row of an operation that ended or is scheduled again.         *)
LEMMA UnleasedType ==
    ASSUME TypeOK, NEW o \in Ops,
           NEW status \in {"pending", "succeeded", "failed"},
           NEW generation \in Nat, NEW next \in Instants \cup {NoTime},
           op' = [op EXCEPT ![o] = Unleased(o, status, generation, next)]
    PROVE  op' \in [Ops -> OperationRow]
  BY DEF Unleased, TypeOK, OperationRow

(* Counting one more terminal event keeps the counts.                      *)
LEMMA AuditType ==
    ASSUME NEW a \in [issued : Nat, failed : Nat]
    PROVE  /\ [a EXCEPT !.issued = a.issued + 1] \in [issued : Nat, failed : Nat]
           /\ [a EXCEPT !.failed = a.failed + 1] \in [issued : Nat, failed : Nat]
  OBVIOUS

LEMMA OpFailedType ==
    ASSUME TypeOK, NEW o \in Ops, NEW bump \in {0, 1}, OpFailed(o, bump)
    PROVE  /\ op' \in [Ops -> OperationRow]
           /\ audit' \in [Ops -> [issued : Nat, failed : Nat]]
  <1>1. op[o].generation + bump \in Nat
    BY DEF TypeOK, OperationRow
  <1>2. [audit[o] EXCEPT !.failed = audit[o].failed + 1] \in [issued : Nat, failed : Nat]
    BY AuditType DEF TypeOK
  <1> QED BY <1>1, <1>2, UnleasedType DEF OpFailed, TypeOK

(* Commands keep the types.                                                *)
LEMMA CommandType == ASSUME TypeOK, Command PROVE TypeOK'
  <1>1. ASSUME NEW o \in Ops, Creatable(o), op' = [op EXCEPT ![o] = PendingOp],
               NEW v \in Nat,
               quote' = [quote EXCEPT ![QuoteOf[o]] =
                            [status |-> "issuing", version |-> v, current |-> o]]
        PROVE  op' \in [Ops -> OperationRow] /\ quote' \in [Quotes -> QuoteRow]
    <2>1. PendingOp \in OperationRow
      BY <1>1, ConstantsAssumption
      DEF ConstantsAssumption, Creatable, PendingOp, OperationRow, Instants, TypeOK, NoTime
    <2> QED BY <1>1, <2>1 DEF TypeOK, QuoteRow
  <1>2. ASSUME NEW q \in Quotes PROVE quote[q].version + 1 \in Nat
    BY DEF TypeOK, QuoteRow
  <1>3. ASSUME NEW o \in Ops, Accept(o) PROVE TypeOK'
    BY <1>1, <1>2, <1>3, ConstantsAssumption DEF ConstantsAssumption, Accept, TypeOK
  <1>4. ASSUME NEW f \in Ops, NEW o \in Ops, OperatorRetry(f, o) PROVE TypeOK'
    BY <1>1, <1>2, <1>4, ConstantsAssumption DEF ConstantsAssumption, OperatorRetry, TypeOK
  <1>5. ASSUME NEW q \in Quotes, CancelQuote(q) PROVE TypeOK'
    BY <1>5 DEF CancelQuote, TypeOK, QuoteRow
  <1> QED BY <1>3, <1>4, <1>5 DEF Command

(* Every step of an attempt keeps the types.                               *)
LEMMA AttemptType == ASSUME TypeOK, NEW p \in Procs, Attempt(p) PROVE TypeOK'
  <1> USE ConstantsAssumption DEF ConstantsAssumption, database
  <1> DEFINE s == slot[p]
  <1>1. ASSUME NEW o \in Ops, Claim(p, o) PROVE TypeOK'
    <2>1. op[o].generation + 1 \in Nat
      BY DEF TypeOK, OperationRow
    <2>2. slot' \in [Procs -> SlotState]
      BY <1>1, <2>1, LoadingSlotType, SlotUpdateType DEF Claim, StartAttempt
    <2> QED BY <1>1, <2>2, ClaimRowType DEF Claim, TypeOK
  <1>2. ASSUME NEW target \in Ops \cup {NoOp}, ClaimOutcomeUnknown(p, target) PROVE TypeOK'
    <2>1. op' \in [Ops -> OperationRow]
      BY <1>2, ClaimRowType DEF ClaimOutcomeUnknown, TypeOK
    <2>2. [stage |-> "claim_unknown", op |-> target, generation |-> 0,
           rendering |-> NoRendering, lease |-> "held"] \in SlotState
      BY DEF SlotState, SlotRecord, Stages, BodyStages, FailStages, RenderedStages
    <2>3. slot' \in [Procs -> SlotState]
      BY <1>2, <2>2, SlotUpdateType DEF ClaimOutcomeUnknown
    <2> QED BY <1>2, <2>1, <2>3 DEF ClaimOutcomeUnknown, TypeOK
  <1>3. CASE AdoptClaim(p)
    <2>1. ASSUME NEW o \in Ops, StartAttempt(p, o, op[o].generation)
          PROVE  slot' \in [Procs -> SlotState]
      <3>1. op[o].generation \in Nat
        BY DEF TypeOK, OperationRow
      <3> QED BY <2>1, <3>1, LoadingSlotType, SlotUpdateType DEF StartAttempt
    <2>2. slot' \in [Procs -> SlotState]
      BY <1>3, <2>1, ReleaseType DEF AdoptClaim, LeasedTo
    <2> QED BY <1>3, <2>2 DEF AdoptClaim, TypeOK
  <1>4. CASE Renew(p)
    <2>1. ASSUME NEW l \in {"lost", "deadline"}, slot' = [slot EXCEPT ![p] = [s EXCEPT !.lease = l]]
          PROVE  slot' \in [Procs -> SlotState]
      BY <2>1, SlotUpdateType, SlotLeaseType, StageFacts
    <2>2. CASE /\ FenceHolds(p)
               /\ op' = [op EXCEPT ![s.op] = [op[s.op] EXCEPT
                           !.lease = Earlier(now + Lease, op[s.op].deadline)]]
               /\ UNCHANGED slot
      <3>1. s.op \in Ops
        BY <2>2 DEF FenceHolds
      <3>2. Earlier(now + Lease, op[s.op].deadline) \in Instants
        BY <3>1, CappedInstant DEF TypeOK, OperationRow
      <3>3. op' \in [Ops -> OperationRow]
        BY <2>2, <3>1, <3>2, LeaseType DEF TypeOK
      <3> QED BY <1>4, <2>2, <3>3 DEF Renew, TypeOK
    <2> QED BY <1>4, <2>1, <2>2 DEF Renew, TypeOK
  <1>5. CASE LoadSnapshot(p)
    <2>1. slot' \in [Procs -> SlotState]
      BY <1>5, ProceedType, StageFacts DEF LoadSnapshot, AtStage, BodyStages, RenderedStages
    <2> QED BY <1>5, <2>1 DEF LoadSnapshot, TypeOK
  <1>6. CASE RenderPdf(p)
    <2>1. slot' \in [Procs -> SlotState]
      BY <1>6, ProceedType, StageFacts DEF RenderPdf, AtStage, BodyStages
    <2> QED BY <1>6, <2>1 DEF RenderPdf, TypeOK
  <1>7. CASE Publish(p)
    <2>1. s.op \in Ops /\ s.rendering \in Renderings
      BY <1>7, StageFacts DEF Publish, AtStage, BodyStages, RenderedStages
    <2>2. slot' \in [Procs -> SlotState]
      BY <1>7, <2>1, ProceedType DEF Publish, BodyStages
    <2>3. Artifact(p) \in Quotes \X Renderings
      BY <2>1 DEF Artifact
    <2> QED BY <1>7, <2>2, <2>3 DEF Publish, TypeOK
  <1>8. CASE CommitIssued(p)
    <2>1. s.op \in Ops /\ s.rendering \in Renderings
      BY <1>8, StageFacts DEF CommitIssued, Commits, BodyStages, RenderedStages
    <2>2. slot' \in [Procs -> SlotState]
      BY <1>8, <2>1, ReleaseType, AwaitType
      DEF CommitIssued, AfterUnknownCommit, Stages, BodyStages
    <2>3. op' \in [Ops -> OperationRow]
      BY <1>8, <2>1, UnleasedType DEF CommitIssued, CommitWrites, TypeOK, OperationRow
    <2>4. /\ quote' \in [Quotes -> QuoteRow]
          /\ manifest' \in [Quotes -> [op : Ops \cup {NoOp}, rendering : Renderings \cup {NoRendering}]]
      BY <1>8, <2>1 DEF CommitIssued, CommitWrites, TypeOK, QuoteRow
    <2>5. audit' \in [Ops -> [issued : Nat, failed : Nat]]
      <3>1. audit[s.op] \in [issued : Nat, failed : Nat]
        BY <2>1 DEF TypeOK
      <3>2. [audit[s.op] EXCEPT !.issued = audit[s.op].issued + 1] \in [issued : Nat, failed : Nat]
        BY <3>1, AuditType
      <3> QED BY <1>8, <2>1, <3>2 DEF CommitIssued, CommitWrites, TypeOK
    <2> QED BY <1>8, <2>2, <2>3, <2>4, <2>5 DEF CommitIssued, TypeOK
  <1>9. CASE CommitNotApplied(p)
    <2>1. s.op \in Ops /\ s.rendering \in Renderings
      BY <1>9, StageFacts DEF CommitNotApplied, Commits, BodyStages, RenderedStages
    <2>2. slot' \in [Procs -> SlotState]
      BY <1>9, <2>1, ReleaseType, AwaitType
      DEF CommitNotApplied, AfterUnknownCommit, Stages, BodyStages
    <2> QED BY <1>9, <2>2 DEF CommitNotApplied, TypeOK
  <1>10. CASE ReconcileCommit(p)
    <2>1. s.op \in Ops /\ s.rendering \in Renderings
      BY <1>10, StageFacts DEF ReconcileCommit, BodyStages, RenderedStages
    <2>2. slot' \in [Procs -> SlotState]
      BY <1>10, <2>1, ReleaseType, AwaitType DEF ReconcileCommit, Stages, BodyStages
    <2> QED BY <1>10, <2>2 DEF ReconcileCommit, TypeOK
  <1>11. ASSUME NEW retryable \in BOOLEAN, AttemptFails(p, retryable) PROVE TypeOK'
    <2>1. s.op \in Ops
      BY <1>11, StageFacts DEF AttemptFails
    <2>2. slot' \in [Procs -> SlotState]
      BY <1>11, <2>1, ReleaseType, AwaitType
      DEF AttemptFails, Stages, BodyStages, FailStages, RenderedStages
    <2> QED BY <1>11, <2>2 DEF AttemptFails, TypeOK
  <1>12. CASE FailAttempt(p)
    <2>1. s.op \in Ops
      BY <1>12 DEF FailAttempt, FenceHolds
    <2>2. CASE OpFailed(s.op, 0)
      BY <1>12, <2>1, <2>2, OpFailedType, ReleaseType DEF FailAttempt, TypeOK
    <2>3. CASE /\ op' = [op EXCEPT ![s.op] = Unleased(s.op, "pending", op[s.op].generation,
                       Earlier(now + BackoffAfter(op[s.op].attempts), op[s.op].deadline))]
               /\ UNCHANGED audit
      <3>1. Earlier(now + BackoffAfter(op[s.op].attempts), op[s.op].deadline) \in Instants
        BY <2>1, BackoffType, CappedInstant DEF TypeOK, OperationRow
      <3>2. op[s.op].generation \in Nat
        BY <2>1 DEF TypeOK, OperationRow
      <3>3. op' \in [Ops -> OperationRow]
        BY <2>1, <2>3, <3>1, <3>2, UnleasedType
      <3> QED BY <1>12, <2>3, <3>3, ReleaseType DEF FailAttempt, TypeOK
    <2> QED BY <1>12, <2>2, <2>3 DEF FailAttempt
  <1>13. CASE FailAttemptNotApplied(p)
    BY <1>13, ReleaseType DEF FailAttemptNotApplied, TypeOK
  <1> QED BY <1>1, <1>2, <1>3, <1>4, <1>5, <1>6, <1>7, <1>8, <1>9, <1>10, <1>11, <1>12, <1>13
          DEF Attempt

(* The sweep, the life of processes and the clock keep the types.          *)
LEMMA SweepType == ASSUME TypeOK, Sweep PROVE TypeOK'
  <1>1. ASSUME NEW o \in Ops, SweepSelect(o) PROVE TypeOK'
    BY <1>1 DEF SweepSelect, TypeOK, database
  <1>2. ASSUME NEW o \in Ops, SweepOperation(o) PROVE TypeOK'
    BY <1>2, OpFailedType DEF SweepOperation, TypeOK
  <1> QED BY <1>1, <1>2 DEF Sweep

LEMMA LifecycleType == ASSUME TypeOK, NEW p \in Procs, Lifecycle(p) PROVE TypeOK'
  <1>1. CASE StartProcess(p) \/ StopProcess(p)
    BY <1>1 DEF StartProcess, StopProcess, TypeOK, database
  <1>2. CASE EndProcess(p)
    BY <1>2, SlotUpdateType, FreeSlotType DEF EndProcess, TypeOK, database
  <1> QED BY <1>1, <1>2 DEF Lifecycle

LEMMA TickType == ASSUME TypeOK, Tick PROVE TypeOK'
  BY ConstantsAssumption DEF ConstantsAssumption, Tick, TypeOK, Instants, database

LEMMA TypeInit == Init => TypeOK
  <1>1. AbsentOp \in OperationRow
    BY ConstantsAssumption DEF ConstantsAssumption, AbsentOp, OperationRow, Instants
  <1>2. Init => slot \in [Procs -> SlotState]
    BY FreeSlotType DEF Init
  <1> QED BY <1>1, <1>2, ConstantsAssumption
          DEF ConstantsAssumption, Init, TypeOK, Instants, QuoteRow, NoManifest

LEMMA TypeStep == TypeOK /\ [Next]_vars => TypeOK'
  <1>1. CASE UNCHANGED vars
    BY <1>1 DEF vars, TypeOK
  <1> QED BY <1>1, CommandType, AttemptType, SweepType, LifecycleType, TickType DEF Next

(* Type correctness: every variable keeps its type, every slot names what  *)
(* its stage needs, and no lease or retry is ever scheduled past the       *)
(* horizon.                                                                *)
THEOREM TypeCorrect == Spec => []TypeOK
  BY TypeInit, TypeStep, PTL DEF Spec

-----------------------------------------------------------------------------
(***************************************************************************)
(* The safety invariants are consequences of one inductive invariant,      *)
(* IInv.  Its proof never looks at an action twice: a step is first        *)
(* summarised by what it does to one row (RowStep), to the set of live     *)
(* operations (Quiet) and to one slot (SlotStep), and each part of the     *)
(* invariant is then proved from the summary it needs.                     *)
(***************************************************************************)

(* Every row satisfies the constraints of its table.                       *)
RowsHold == \A o \in Ops : op[o].status # "absent" => OperationChecks(op[o])

(* A quote's current operation is an existing operation of that quote; an  *)
(* issued quote has its manifest.                                          *)
QuotesHold ==
    \A q \in Quotes :
        /\ QuoteChecks(quote[q])
        /\ quote[q].current \in Ops =>
              QuoteOf[quote[q].current] = q /\ op[quote[q].current].status # "absent"
        /\ quote[q].status = "issued" => manifest[q] # NoManifest

(* A manifest belongs to a succeeded operation of its quote and names      *)
(* published bytes.                                                        *)
ManifestsHold ==
    \A q \in Quotes : manifest[q] # NoManifest =>
        /\ manifest[q].op \in Ops
        /\ QuoteOf[manifest[q].op] = q
        /\ op[manifest[q].op].status = "succeeded"
        /\ <<q, manifest[q].rendering>> \in store

(* A succeeded operation is current, has the manifest of its quote, and    *)
(* that quote was issued.                                                  *)
SuccessesHold ==
    \A o \in Ops : op[o].status = "succeeded" =>
        /\ manifest[QuoteOf[o]].op = o
        /\ quote[QuoteOf[o]].current = o
        /\ quote[QuoteOf[o]].status \in {"issued", "cancelled"}

(* An attempt that reached its commit published its rendering before.      *)
CommitStages == {"committing", "commit_unknown", "recommitting", "recommit_unknown"}
PublishedFirst ==
    \A p \in Procs : slot[p].stage \in CommitStages => Artifact(p) \in store

(* An attempt works on an operation that exists.                           *)
AttemptsExist == \A p \in Procs : Working(p) => op[slot[p].op].status # "absent"

IInv ==
    /\ TypeOK
    /\ RowsHold
    /\ DeadlineCapsSchedule
    /\ AttemptsAccounted
    /\ OutcomeAuditedOnce
    /\ ActiveIsCurrent
    /\ QuotesHold
    /\ ManifestsHold
    /\ SuccessesHold
    /\ PublishedFirst
    /\ AttemptsExist
    /\ TokensIdentifyHolders

-----------------------------------------------------------------------------
(* What a step does to one operation row and its audit events.             *)

Unchanged(o) == op'[o] = op[o] /\ audit'[o] = audit[o]

Created(o) ==
    /\ op[o].status = "absent"
    /\ op'[o] = PendingOp
    /\ audit'[o] = audit[o]

Claimed(p, o) ==
    /\ Claimable(o)
    /\ op'[o] = [status |-> "running",
                 generation |-> op[o].generation + 1, attempts |-> op[o].attempts + 1,
                 owner |-> p, lease |-> Earlier(now + Lease, op[o].deadline),
                 next |-> NoTime, deadline |-> op[o].deadline, lastAttempt |-> now]
    /\ audit'[o] = audit[o]

Renewed(p, o) ==
    /\ op[o].status = "running"
    /\ op'[o] = [op[o] EXCEPT !.lease = Earlier(now + Lease, op[o].deadline)]
    /\ audit'[o] = audit[o]

(* The holder's own step: it carries the token of the row.                 *)
Held(p, o) ==
    /\ FenceHolds(p)
    /\ slot[p].op = o
    /\ slot'[p] # slot[p]

Rescheduled(p, o) ==
    /\ Held(p, o)
    /\ op'[o] = Unleased(o, "pending", op[o].generation,
                   Earlier(now + BackoffAfter(op[o].attempts), op[o].deadline))
    /\ audit'[o] = audit[o]

Succeeded(p, o) ==
    /\ Held(p, o)
    /\ op'[o] = Unleased(o, "succeeded", op[o].generation, NoTime)
    /\ audit'[o] = [audit[o] EXCEPT !.issued = audit[o].issued + 1]

FailedBy(o, bump) ==
    /\ op'[o] = Unleased(o, "failed", op[o].generation + bump, NoTime)
    /\ audit'[o] = [audit[o] EXCEPT !.failed = audit[o].failed + 1]

RowStep(o) ==
    \/ Unchanged(o)
    \/ Created(o)
    \/ \E p \in Procs : \/ Claimed(p, o)
                        \/ Renewed(p, o)
                        \/ Rescheduled(p, o)
                        \/ Succeeded(p, o)
                        \/ Held(p, o) /\ FailedBy(o, 0)
    \/ DeadlineDue(o) /\ FailedBy(o, 1)

(* A slot that is released or goes on to another stage has changed.        *)
LEMMA SlotMoves ==
    ASSUME TypeOK, NEW p \in Procs, NEW stage \in Stages \ {slot[p].stage},
           slot[p].stage # "idle", Release(p) \/ Await(p, stage)
    PROVE  slot'[p] # slot[p]
  <1>1. slot[p] \in SlotRecord
    BY DEF TypeOK, SlotState
  <1>2. [slot[p] EXCEPT !.stage = stage].stage = stage
    BY <1>1 DEF SlotRecord
  <1>3. CASE Release(p)
    <2>1. slot'[p] = FreeSlot
      BY <1>3 DEF Release, TypeOK
    <2> QED BY <2>1 DEF FreeSlot
  <1>4. CASE Await(p, stage)
    <2>1. slot'[p] = [slot[p] EXCEPT !.stage = stage]
      BY <1>4 DEF Await, TypeOK
    <2> QED BY <2>1, <1>2
  <1> QED BY <1>3, <1>4

(* Every step is a row step for every row.                                 *)
LEMMA CommandRows == ASSUME TypeOK, Command PROVE \A o \in Ops : RowStep(o)
  BY DEF Command, Accept, OperatorRetry, CancelQuote, Creatable, TypeOK,
         RowStep, Unchanged, Created

LEMMA ClaimRows ==
    ASSUME TypeOK, NEW p \in Procs, NEW o \in Ops, Claimable(o), ClaimRow(p, o),
           UNCHANGED audit
    PROVE  \A a \in Ops : RowStep(a)
  <1>1. Claimed(p, o)
    BY DEF ClaimRow, Claimed, TypeOK
  <1>2. \A a \in Ops \ {o} : Unchanged(a)
    BY DEF ClaimRow, Unchanged, TypeOK
  <1> QED BY <1>1, <1>2 DEF RowStep

LEMMA RenewRows ==
    ASSUME TypeOK, NEW p \in Procs, Renew(p) PROVE \A o \in Ops : RowStep(o)
  <1>1. CASE UNCHANGED op
    BY <1>1 DEF Renew, RowStep, Unchanged
  <1>2. CASE /\ FenceHolds(p)
             /\ op' = [op EXCEPT ![slot[p].op] = [op[slot[p].op] EXCEPT
                         !.lease = Earlier(now + Lease, op[slot[p].op].deadline)]]
    <2>1. slot[p].op \in Ops /\ Renewed(p, slot[p].op)
      BY <1>2 DEF FenceHolds, Renew, Renewed, TypeOK
    <2>2. \A o \in Ops \ {slot[p].op} : Unchanged(o)
      BY <1>2, <2>1 DEF Renew, Unchanged, TypeOK
    <2> QED BY <2>1, <2>2 DEF RowStep
  <1> QED BY <1>1, <1>2 DEF Renew

LEMMA CommitRows ==
    ASSUME TypeOK, NEW p \in Procs, CommitIssued(p) PROVE \A o \in Ops : RowStep(o)
  <1> DEFINE a == slot[p].op
  <1>1. FenceHolds(p) /\ a \in Ops
    BY DEF CommitIssued, CommitAllowed, FenceHolds
  <1>2. Succeeded(p, a)
    <2>1. slot'[p] # slot[p]
      BY SlotMoves DEF CommitIssued, Commits, AfterUnknownCommit, Stages, BodyStages
    <2> QED BY <1>1, <2>1 DEF CommitIssued, CommitWrites, Succeeded, Held, TypeOK
  <1>3. \A o \in Ops \ {a} : Unchanged(o)
    BY <1>1 DEF CommitIssued, CommitWrites, Unchanged, TypeOK
  <1> QED BY <1>1, <1>2, <1>3 DEF RowStep

LEMMA FailRows ==
    ASSUME TypeOK, NEW p \in Procs, FailAttempt(p) PROVE \A o \in Ops : RowStep(o)
  <1> DEFINE a == slot[p].op
  <1>1. FenceHolds(p) /\ a \in Ops
    BY DEF FailAttempt, FenceHolds
  <1>2. Held(p, a)
    BY <1>1, SlotMoves, StageFacts DEF FailAttempt, Held, FailStages, Stages, BodyStages
  <1>3. \/ Rescheduled(p, a)
        \/ Held(p, a) /\ FailedBy(a, 0)
    BY <1>1, <1>2 DEF FailAttempt, OpFailed, Rescheduled, FailedBy, TypeOK
  <1>4. \A o \in Ops \ {a} : Unchanged(o)
    BY <1>1 DEF FailAttempt, OpFailed, Unchanged, TypeOK
  <1> QED BY <1>1, <1>3, <1>4 DEF RowStep

LEMMA SweepRows == ASSUME TypeOK, Sweep PROVE \A o \in Ops : RowStep(o)
  <1>1. ASSUME NEW a \in Ops, SweepSelect(a) PROVE \A o \in Ops : RowStep(o)
    BY <1>1 DEF SweepSelect, database, RowStep, Unchanged
  <1>2. ASSUME NEW a \in Ops, SweepOperation(a) PROVE \A o \in Ops : RowStep(o)
    <2>1. \A o \in Ops \ {a} : Unchanged(o)
      BY <1>2 DEF SweepOperation, OpFailed, Unchanged, TypeOK
    <2>2. Unchanged(a) \/ (DeadlineDue(a) /\ FailedBy(a, 1))
      BY <1>2 DEF SweepOperation, SweepDue, OpFailed, Unchanged, FailedBy, TypeOK
    <2> QED BY <2>1, <2>2 DEF RowStep
  <1> QED BY <1>1, <1>2 DEF Sweep

LEMMA AttemptRows ==
    ASSUME TypeOK, NEW p \in Procs, Attempt(p) PROVE \A o \in Ops : RowStep(o)
  <1>1. ASSUME NEW o \in Ops, Claim(p, o) PROVE \A a \in Ops : RowStep(a)
    BY <1>1, ClaimRows DEF Claim
  <1>2. ASSUME NEW target \in Ops \cup {NoOp}, ClaimOutcomeUnknown(p, target)
        PROVE  \A a \in Ops : RowStep(a)
    <2>1. CASE UNCHANGED op
      BY <1>2, <2>1 DEF ClaimOutcomeUnknown, RowStep, Unchanged
    <2> QED BY <1>2, <2>1, ClaimRows DEF ClaimOutcomeUnknown
  <1>3. ASSUME UNCHANGED <<op, audit>> PROVE \A a \in Ops : RowStep(a)
    BY <1>3 DEF RowStep, Unchanged
  <1>4. AdoptClaim(p) \/ LoadSnapshot(p) \/ RenderPdf(p) \/ Publish(p) \/ CommitNotApplied(p)
        \/ ReconcileCommit(p) \/ FailAttemptNotApplied(p)
        \/ (\E retryable \in BOOLEAN : AttemptFails(p, retryable))
        => UNCHANGED <<op, audit>>
    BY DEF AdoptClaim, LoadSnapshot, RenderPdf, Publish, CommitNotApplied, ReconcileCommit,
           FailAttemptNotApplied, AttemptFails, database
  <1> QED BY <1>1, <1>2, <1>3, <1>4, RenewRows, CommitRows, FailRows DEF Attempt

LEMMA RowSteps == ASSUME TypeOK, [Next]_vars PROVE \A o \in Ops : RowStep(o)
  <1>1. CASE UNCHANGED vars
    BY <1>1 DEF vars, RowStep, Unchanged
  <1>2. ASSUME NEW p \in Procs, Lifecycle(p) PROVE \A o \in Ops : RowStep(o)
    BY <1>2 DEF Lifecycle, StartProcess, StopProcess, EndProcess, database, RowStep, Unchanged
  <1>3. CASE Tick
    BY <1>3 DEF Tick, database, RowStep, Unchanged
  <1> QED BY <1>1, <1>2, <1>3, CommandRows, AttemptRows, SweepRows DEF Next

-----------------------------------------------------------------------------
(* The rows.                                                               *)

RowsInvariant == RowsHold /\ DeadlineCapsSchedule /\ AttemptsAccounted /\ OutcomeAuditedOnce

(* What each of these says of one operation.                               *)
RowHolds(row) ==
    /\ row.status # "absent" => OperationChecks(row)
    /\ row.status = "running" => row.lease <= row.deadline
    /\ row.status = "pending" => row.next <= row.deadline
    /\ IF row.status = "failed"
       THEN row.generation - row.attempts \in {0, 1}
       ELSE row.generation = row.attempts

AuditHolds(row, events) ==
    /\ events.issued = (IF row.status = "succeeded" THEN 1 ELSE 0)
    /\ events.failed = (IF row.status = "failed" THEN 1 ELSE 0)

LEMMA RowsAreRows ==
    RowsInvariant <=> \A o \in Ops : RowHolds(op[o]) /\ AuditHolds(op[o], audit[o])
  BY DEF RowsInvariant, RowsHold, DeadlineCapsSchedule, AttemptsAccounted,
         OutcomeAuditedOnce, RowHolds, AuditHolds

(* A live row accounts for its attempts.                                   *)
LEMMA LiveRow ==
    ASSUME TypeOK, NEW o \in Ops, Active(o), RowHolds(op[o])
    PROVE  /\ op[o].generation = op[o].attempts
           /\ op[o].generation \in Nat
           /\ op[o].status = "running" => op[o].attempts >= 1
  <1>1. op[o] \in OperationRow
    BY DEF TypeOK
  <1>2. op[o].generation \in Nat
    BY <1>1 DEF OperationRow
  <1>3. op[o].status # "failed" /\ op[o].status # "absent"
    BY DEF Active
  <1>4. op[o].generation = op[o].attempts
    BY <1>3 DEF RowHolds
  <1>5. op[o].status = "running" => op[o].attempts >= 1
    BY <1>3 DEF RowHolds, OperationChecks
  <1> QED BY <1>2, <1>4, <1>5

(* A live row that is scheduled again, that succeeds, or that fails.       *)
LEMMA RescheduledHolds ==
    ASSUME TypeOK, NEW o \in Ops, Active(o), RowHolds(op[o]),
           NEW next \in Instants, next <= op[o].deadline
    PROVE  RowHolds(Unleased(o, "pending", op[o].generation, next))
  <1>1. op[o].generation = op[o].attempts /\ op[o].generation \in Nat
    BY LiveRow
  <1>2. next # NoTime
    BY DEF NoTime, Instants
  <1> QED BY <1>1, <1>2 DEF RowHolds, Unleased, OperationChecks

LEMMA SucceededHolds ==
    ASSUME TypeOK, NEW o \in Ops, op[o].status = "running", RowHolds(op[o])
    PROVE  RowHolds(Unleased(o, "succeeded", op[o].generation, NoTime))
  <1>1. Active(o)
    BY DEF Active
  <1>2. op[o].generation = op[o].attempts /\ op[o].generation \in Nat /\ op[o].attempts >= 1
    BY <1>1, LiveRow
  <1> QED BY <1>2 DEF RowHolds, Unleased, OperationChecks

LEMMA FailedHolds ==
    ASSUME TypeOK, NEW o \in Ops, Active(o), RowHolds(op[o]), NEW bump \in {0, 1}
    PROVE  RowHolds(Unleased(o, "failed", op[o].generation + bump, NoTime))
  <1> DEFINE row == Unleased(o, "failed", op[o].generation + bump, NoTime)
  <1>1. op[o].generation = op[o].attempts /\ op[o].generation \in Nat
    BY LiveRow
  <1>2. /\ row.status = "failed" /\ row.owner = NoProc /\ row.lease = NoTime
        /\ row.generation = op[o].generation + bump
        /\ row.attempts = op[o].attempts
    BY DEF Unleased
  <1>3. row.generation >= row.attempts /\ row.generation - row.attempts \in {0, 1}
    <2> HIDE DEF row
    <2> QED BY <1>1, <1>2
  <1>4. OperationChecks(row)
    <2> HIDE DEF row
    <2> QED BY <1>2, <1>3 DEF OperationChecks
  <1> HIDE DEF row
  <1>5. RowHolds(row)
    BY <1>2, <1>3, <1>4 DEF RowHolds
  <1> QED BY <1>5 DEF row

LEMMA RowPreserved ==
    ASSUME TypeOK, NEW o \in Ops, RowStep(o), RowHolds(op[o]), AuditHolds(op[o], audit[o])
    PROVE  RowHolds(op'[o]) /\ AuditHolds(op'[o], audit'[o])
  <1> USE ConstantsAssumption DEF ConstantsAssumption
  <1>1. op[o] \in OperationRow /\ audit[o] \in [issued : Nat, failed : Nat] /\ now \in Instants
    BY DEF TypeOK
  <1>2. CASE Unchanged(o)
    BY <1>2 DEF Unchanged
  <1>3. CASE Created(o)
    BY <1>1, <1>3
    DEF Created, PendingOp, RowHolds, AuditHolds, OperationChecks, NoTime, Instants
  <1>4. ASSUME NEW p \in Procs, Claimed(p, o)
        PROVE  RowHolds(op'[o]) /\ AuditHolds(op'[o], audit'[o])
    <2>1. op[o].status \in {"pending", "running"} /\ op[o].generation = op[o].attempts
      BY <1>4 DEF Claimed, Claimable, RowHolds
    <2>2. /\ Earlier(now + Lease, op[o].deadline) \in Instants
          /\ Earlier(now + Lease, op[o].deadline) <= op[o].deadline
      BY <1>1, CappedInstant DEF OperationRow
    <2>3. /\ op'[o].status = "running" /\ op'[o].owner = p
          /\ op'[o].generation = op[o].generation + 1
          /\ op'[o].attempts = op[o].attempts + 1
          /\ op'[o].lease = Earlier(now + Lease, op[o].deadline)
          /\ op'[o].deadline = op[o].deadline
      BY <1>4 DEF Claimed
    <2>4. op[o].generation \in Nat /\ op[o].attempts \in Nat
      BY <1>1 DEF OperationRow
    <2>5. OperationChecks(op'[o])
      BY <2>1, <2>2, <2>3, <2>4 DEF OperationChecks, NoTime, Instants
    <2>6. RowHolds(op'[o])
      BY <2>1, <2>2, <2>3, <2>4, <2>5 DEF RowHolds
    <2> QED BY <1>4, <2>1, <2>3, <2>6 DEF Claimed, AuditHolds
  <1>5. ASSUME NEW p \in Procs, Renewed(p, o)
        PROVE  RowHolds(op'[o]) /\ AuditHolds(op'[o], audit'[o])
    <2>1. /\ Earlier(now + Lease, op[o].deadline) \in Instants
          /\ Earlier(now + Lease, op[o].deadline) <= op[o].deadline
      BY <1>1, CappedInstant DEF OperationRow
    <2>2. /\ op'[o].lease = Earlier(now + Lease, op[o].deadline)
          /\ op'[o].status = op[o].status /\ op'[o].owner = op[o].owner
          /\ op'[o].generation = op[o].generation /\ op'[o].attempts = op[o].attempts
          /\ op'[o].next = op[o].next /\ op'[o].deadline = op[o].deadline
      BY <1>1, <1>5 DEF Renewed, OperationRow
    <2>3. RowHolds(op'[o])
      BY <1>5, <2>1, <2>2 DEF Renewed, RowHolds, OperationChecks, NoTime, Instants
    <2> QED BY <1>5, <2>2, <2>3 DEF Renewed, AuditHolds
  <1>6. ASSUME NEW p \in Procs, Rescheduled(p, o)
        PROVE  RowHolds(op'[o]) /\ AuditHolds(op'[o], audit'[o])
    <2>1. op[o].status = "running"
      BY <1>6 DEF Rescheduled, Held, FenceHolds
    <2> DEFINE next == Earlier(now + BackoffAfter(op[o].attempts), op[o].deadline)
    <2>2. next \in Instants /\ next <= op[o].deadline
      BY <1>1, BackoffType, CappedInstant DEF OperationRow
    <2>3. Active(o)
      BY <2>1 DEF Active
    <2>4. RowHolds(Unleased(o, "pending", op[o].generation, next))
      BY <2>2, <2>3, RescheduledHolds
    <2>5. op'[o].status = "pending"
      BY <1>6 DEF Rescheduled, Unleased
    <2> QED BY <1>6, <2>1, <2>4, <2>5 DEF Rescheduled, AuditHolds
  <1>7. ASSUME NEW p \in Procs, Succeeded(p, o)
        PROVE  RowHolds(op'[o]) /\ AuditHolds(op'[o], audit'[o])
    <2>1. op[o].status = "running"
      BY <1>7 DEF Succeeded, Held, FenceHolds
    <2>3. RowHolds(Unleased(o, "succeeded", op[o].generation, NoTime))
      BY <2>1, SucceededHolds
    <2>4. op'[o].status = "succeeded"
      BY <1>7 DEF Succeeded, Unleased
    <2>5. audit'[o].issued = audit[o].issued + 1 /\ audit'[o].failed = audit[o].failed
      BY <1>1, <1>7 DEF Succeeded
    <2> QED BY <1>1, <1>7, <2>1, <2>3, <2>4, <2>5 DEF Succeeded, AuditHolds
  <1>8. ASSUME NEW bump \in {0, 1}, FailedBy(o, bump), Active(o)
        PROVE  RowHolds(op'[o]) /\ AuditHolds(op'[o], audit'[o])
    <2>1. RowHolds(Unleased(o, "failed", op[o].generation + bump, NoTime))
      BY <1>8, FailedHolds
    <2>2. op'[o].status = "failed"
      BY <1>8 DEF FailedBy, Unleased
    <2>3. audit'[o].failed = audit[o].failed + 1 /\ audit'[o].issued = audit[o].issued
      BY <1>1, <1>8 DEF FailedBy
    <2> QED BY <1>1, <1>8, <2>1, <2>2, <2>3 DEF FailedBy, AuditHolds, Active
  <1>9. ASSUME NEW p \in Procs, Held(p, o) PROVE Active(o)
    BY <1>9 DEF Held, FenceHolds, Active
  <1>10. DeadlineDue(o) => Active(o)
    BY DEF DeadlineDue, Active
  <1> QED BY <1>2, <1>3, <1>4, <1>5, <1>6, <1>7, <1>8, <1>9, <1>10 DEF RowStep

LEMMA RowsInit == Init => RowsInvariant
  BY ConstantsAssumption, RowsAreRows
  DEF ConstantsAssumption, Init, AbsentOp, RowHolds, AuditHolds

LEMMA RowsStep == TypeOK /\ RowsInvariant /\ [Next]_vars => RowsInvariant'
  <1> SUFFICES ASSUME TypeOK, RowsInvariant, [Next]_vars PROVE RowsInvariant'
    OBVIOUS
  <1>1. \A o \in Ops : RowHolds(op'[o]) /\ AuditHolds(op'[o], audit'[o])
    BY RowsAreRows, RowSteps, RowPreserved
  <1> QED BY <1>1 DEF RowsInvariant, RowsHold, DeadlineCapsSchedule, AttemptsAccounted,
                     OutcomeAuditedOnce, RowHolds, AuditHolds

-----------------------------------------------------------------------------
(* Quotes and manifests.                                                   *)

(* A step that creates no operation, ends none in success and writes no    *)
(* manifest.                                                               *)
StatusKept(o) ==
    /\ op'[o].status \in {"pending", "running"} => op[o].status \in {"pending", "running"}
    /\ op'[o].status = "succeeded" <=> op[o].status = "succeeded"
    /\ op'[o].status = "absent" <=> op[o].status = "absent"

Quiet ==
    /\ manifest' = manifest
    /\ store \subseteq store'
    /\ \A o \in Ops : StatusKept(o)

LEMMA UnchangedRowsQuiet ==
    ASSUME op' = op, manifest' = manifest, store \subseteq store' PROVE Quiet
  BY DEF Quiet, StatusKept

LEMMA OneRowQuiet ==
    ASSUME TypeOK, NEW o \in Ops, NEW row, op' = [op EXCEPT ![o] = row],
           Active(o), row.status \in {"pending", "running", "failed"},
           manifest' = manifest, store \subseteq store'
    PROVE  Quiet
  BY DEF Quiet, StatusKept, Active, TypeOK

LEMMA ClaimQuiet ==
    ASSUME TypeOK, NEW p \in Procs, NEW o \in Ops, Claimable(o), ClaimRow(p, o),
           manifest' = manifest, store' = store
    PROVE  Quiet
  BY OneRowQuiet DEF ClaimRow, Claimable, Active

LEMMA AttemptQuiet ==
    ASSUME TypeOK, NEW p \in Procs, Attempt(p), ~CommitIssued(p)
    PROVE  Quiet /\ quote' = quote
  <1>1. ASSUME NEW o \in Ops, Claim(p, o) PROVE Quiet /\ quote' = quote
    BY <1>1, ClaimQuiet DEF Claim
  <1>2. ASSUME NEW target \in Ops \cup {NoOp}, ClaimOutcomeUnknown(p, target)
        PROVE  Quiet /\ quote' = quote
    BY <1>2, ClaimQuiet, UnchangedRowsQuiet DEF ClaimOutcomeUnknown
  <1>3. ASSUME Renew(p) PROVE Quiet /\ quote' = quote
    <2>1. CASE op' = op
      BY <1>3, <2>1, UnchangedRowsQuiet DEF Renew
    <2>2. CASE /\ FenceHolds(p)
               /\ op' = [op EXCEPT ![slot[p].op] = [op[slot[p].op] EXCEPT
                           !.lease = Earlier(now + Lease, op[slot[p].op].deadline)]]
      <3>1. slot[p].op \in Ops /\ op[slot[p].op].status = "running"
        BY <2>2 DEF FenceHolds
      <3>2. [op[slot[p].op] EXCEPT
               !.lease = Earlier(now + Lease, op[slot[p].op].deadline)].status = "running"
        BY <3>1 DEF TypeOK, OperationRow
      <3> QED BY <1>3, <2>2, <3>1, <3>2, OneRowQuiet DEF Renew, Active
    <2> QED BY <1>3, <2>1, <2>2 DEF Renew
  <1>4. ASSUME FailAttempt(p) PROVE Quiet /\ quote' = quote
    <2>1. slot[p].op \in Ops /\ Active(slot[p].op)
      BY <1>4 DEF FailAttempt, FenceHolds, Active
    <2> QED BY <1>4, <2>1, OneRowQuiet DEF FailAttempt, OpFailed, Unleased
  <1>5. ASSUME Publish(p) PROVE Quiet /\ quote' = quote
    BY <1>5, UnchangedRowsQuiet DEF Publish, database
  <1>6. AdoptClaim(p) \/ LoadSnapshot(p) \/ RenderPdf(p) \/ CommitNotApplied(p)
        \/ ReconcileCommit(p) \/ FailAttemptNotApplied(p)
        \/ (\E retryable \in BOOLEAN : AttemptFails(p, retryable))
        => UNCHANGED <<op, manifest, store, quote>>
    BY DEF AdoptClaim, LoadSnapshot, RenderPdf, CommitNotApplied, ReconcileCommit,
           FailAttemptNotApplied, AttemptFails, database
  <1> QED BY <1>1, <1>2, <1>3, <1>4, <1>5, <1>6, UnchangedRowsQuiet DEF Attempt

LEMMA SweepQuiet == ASSUME TypeOK, Sweep PROVE Quiet /\ quote' = quote
  <1>1. ASSUME NEW o \in Ops, SweepSelect(o) PROVE Quiet /\ quote' = quote
    BY <1>1, UnchangedRowsQuiet DEF SweepSelect, database
  <1>2. ASSUME NEW o \in Ops, SweepOperation(o) PROVE Quiet /\ quote' = quote
    <2>1. SweepDue(o) => Active(o)
      BY DEF SweepDue, DeadlineDue, Active
    <2>2. CASE SweepDue(o)
      BY <1>2, <2>1, <2>2, OneRowQuiet DEF SweepOperation, OpFailed, Unleased
    <2> QED BY <1>2, <2>2, UnchangedRowsQuiet DEF SweepOperation
  <1> QED BY <1>1, <1>2 DEF Sweep

(* The steps on quotes: four kinds.                                        *)
LEMMA QuoteSteps ==
    ASSUME TypeOK, [Next]_vars
    PROVE  \/ \E o \in Ops : Accept(o)
           \/ \E f, o \in Ops : OperatorRetry(f, o)
           \/ \E q \in Quotes : CancelQuote(q)
           \/ \E p \in Procs : CommitIssued(p)
           \/ Quiet /\ quote' = quote
  <1>1. CASE UNCHANGED vars
    BY <1>1, UnchangedRowsQuiet DEF vars
  <1>2. ASSUME NEW p \in Procs, Lifecycle(p) PROVE Quiet /\ quote' = quote
    BY <1>2, UnchangedRowsQuiet DEF Lifecycle, StartProcess, StopProcess, EndProcess, database
  <1>3. CASE Tick
    BY <1>3, UnchangedRowsQuiet DEF Tick, database
  <1> QED BY <1>1, <1>2, <1>3, AttemptQuiet, SweepQuiet DEF Next, Command

QuotesInvariant == ActiveIsCurrent /\ QuotesHold /\ ManifestsHold /\ SuccessesHold

(* A new operation: nothing of its quote was active or had succeeded.      *)
LEMMA CreationPreserves ==
    ASSUME TypeOK, QuotesInvariant, NEW o \in Ops, op[o].status = "absent",
           quote[QuoteOf[o]].status \in {"draft", "issuing"},
           \A a \in Ops : QuoteOf[a] = QuoteOf[o] => ~Active(a),
           op' = [op EXCEPT ![o] = PendingOp],
           NEW v, quote' = [quote EXCEPT ![QuoteOf[o]] =
                      [status |-> "issuing", version |-> v, current |-> o]],
           UNCHANGED <<manifest, store>>
    PROVE  QuotesInvariant'
  <1> USE ConstantsAssumption DEF ConstantsAssumption
  <1>1. \A a \in Ops : QuoteOf[a] \in Quotes
    OBVIOUS
  <1>2. op'[o].status = "pending" /\ \A a \in Ops \ {o} : op'[a] = op[a]
    BY DEF TypeOK, PendingOp
  <1>3. /\ quote'[QuoteOf[o]] = [status |-> "issuing", version |-> v, current |-> o]
        /\ \A q \in Quotes \ {QuoteOf[o]} : quote'[q] = quote[q]
    BY <1>1 DEF TypeOK
  <1>4. ActiveIsCurrent'
    BY <1>1, <1>2, <1>3 DEF QuotesInvariant, ActiveIsCurrent, Active
  <1>5. QuotesHold'
    BY <1>1, <1>2, <1>3 DEF QuotesInvariant, QuotesHold, QuoteChecks
  <1>6. ManifestsHold'
    BY <1>2 DEF QuotesInvariant, ManifestsHold
  <1>7. SuccessesHold'
    BY <1>1, <1>2, <1>3 DEF QuotesInvariant, SuccessesHold
  <1> QED BY <1>4, <1>5, <1>6, <1>7 DEF QuotesInvariant

LEMMA QuotesStep == TypeOK /\ PublishedFirst /\ QuotesInvariant /\ [Next]_vars => QuotesInvariant'
  <1> SUFFICES ASSUME TypeOK, PublishedFirst, QuotesInvariant, [Next]_vars
               PROVE  QuotesInvariant'
    OBVIOUS
  <1> USE ConstantsAssumption DEF ConstantsAssumption
  <1>1. \A a \in Ops : QuoteOf[a] \in Quotes
    OBVIOUS
  <1>2. ASSUME NEW o \in Ops, Accept(o) PROVE QuotesInvariant'
    <2>1. \A a \in Ops : QuoteOf[a] = QuoteOf[o] => ~Active(a)
      BY <1>2 DEF Accept, QuotesInvariant, ActiveIsCurrent
    <2> QED BY <1>2, <2>1, CreationPreserves DEF Accept, Creatable
  <1>3. ASSUME NEW f \in Ops, NEW o \in Ops, OperatorRetry(f, o) PROVE QuotesInvariant'
    <2>1. \A a \in Ops : QuoteOf[a] = QuoteOf[o] => ~Active(a)
      BY <1>3 DEF OperatorRetry, QuotesInvariant, ActiveIsCurrent, Active
    <2> QED BY <1>3, <2>1, CreationPreserves DEF OperatorRetry, Creatable
  <1>4. ASSUME NEW q \in Quotes, CancelQuote(q) PROVE QuotesInvariant'
    <2>1. /\ op' = op /\ manifest' = manifest /\ store' = store
          /\ quote'[q].status = "cancelled" /\ quote'[q].current = quote[q].current
          /\ \A r \in Quotes \ {q} : quote'[r] = quote[r]
      BY <1>4 DEF CancelQuote, TypeOK
    <2>2. \A o \in Ops : QuoteOf[o] = q => ~Active(o)
      BY <1>4 DEF CancelQuote, QuotesInvariant, ActiveIsCurrent, Active
    <2>3. ActiveIsCurrent'
      BY <1>1, <2>1, <2>2 DEF QuotesInvariant, ActiveIsCurrent, Active
    <2>4. QuotesHold'
      BY <2>1 DEF QuotesInvariant, QuotesHold, QuoteChecks
    <2>5. ManifestsHold'
      BY <2>1 DEF QuotesInvariant, ManifestsHold
    <2>6. SuccessesHold'
      BY <1>1, <2>1 DEF QuotesInvariant, SuccessesHold
    <2> QED BY <2>3, <2>4, <2>5, <2>6 DEF QuotesInvariant
  <1>5. ASSUME NEW p \in Procs, CommitIssued(p) PROVE QuotesInvariant'
    <2> DEFINE o == slot[p].op
    <2> DEFINE q == QuoteOf[o]
    <2>1. /\ o \in Ops /\ q \in Quotes
          /\ op[o].status = "running"
          /\ quote[q].status = "issuing" /\ quote[q].current = o
          /\ manifest[q] = NoManifest
      BY <1>5 DEF CommitIssued, CommitAllowed, FenceHolds
    <2>2. <<q, slot[p].rendering>> \in store
      BY <1>5 DEF CommitIssued, Commits, PublishedFirst, CommitStages, Artifact
    <2>3. /\ op'[o].status = "succeeded"
          /\ \A a \in Ops \ {o} : op'[a] = op[a]
      BY <1>5, <2>1 DEF CommitIssued, CommitWrites, Unleased, TypeOK
    <2>4. /\ quote'[q].status = "issued" /\ quote'[q].current = o
          /\ \A r \in Quotes \ {q} : quote'[r] = quote[r]
      BY <1>5, <2>1 DEF CommitIssued, CommitWrites, TypeOK
    <2>5. /\ manifest'[q] = [op |-> o, rendering |-> slot[p].rendering]
          /\ \A r \in Quotes \ {q} : manifest'[r] = manifest[r]
      BY <1>5, <2>1 DEF CommitIssued, CommitWrites, TypeOK
    <2>6. manifest'[q] # NoManifest
      BY <2>1, <2>5 DEF NoManifest
    <2>7. store' = store
      BY <1>5 DEF CommitIssued
    <2>8. ActiveIsCurrent'
      BY <1>1, <2>1, <2>3, <2>4 DEF QuotesInvariant, ActiveIsCurrent, Active
    <2>9. QuotesHold'
      BY <2>1, <2>3, <2>4, <2>5, <2>6 DEF QuotesInvariant, QuotesHold, QuoteChecks
    <2>10. ManifestsHold'
      <3>1. ASSUME NEW r \in Quotes \ {q}, manifest'[r] # NoManifest
            PROVE  /\ manifest'[r].op \in Ops
                   /\ QuoteOf[manifest'[r].op] = r
                   /\ op'[manifest'[r].op].status = "succeeded"
                   /\ <<r, manifest'[r].rendering>> \in store'
        BY <2>3, <2>5, <2>7, <3>1 DEF QuotesInvariant, ManifestsHold
      <3>2. /\ manifest'[q].op = o
            /\ <<q, manifest'[q].rendering>> \in store'
        BY <2>2, <2>5, <2>7
      <3> QED BY <2>1, <2>3, <3>1, <3>2 DEF ManifestsHold
    <2>11. SuccessesHold'
      BY <1>1, <2>1, <2>3, <2>4, <2>5 DEF QuotesInvariant, SuccessesHold
    <2> QED BY <2>8, <2>9, <2>10, <2>11 DEF QuotesInvariant
  <1>6. ASSUME Quiet, quote' = quote PROVE QuotesInvariant'
    <2>1. ActiveIsCurrent'
      BY <1>1, <1>6 DEF QuotesInvariant, ActiveIsCurrent, Active, Quiet, StatusKept
    <2>2. QuotesHold'
      BY <1>6 DEF QuotesInvariant, QuotesHold, Quiet, StatusKept
    <2>3. ManifestsHold'
      BY <1>6 DEF QuotesInvariant, ManifestsHold, Quiet, StatusKept
    <2>4. SuccessesHold'
      BY <1>6 DEF QuotesInvariant, SuccessesHold, Quiet, StatusKept
    <2> QED BY <2>1, <2>2, <2>3, <2>4 DEF QuotesInvariant
  <1> QED BY <1>2, <1>3, <1>4, <1>5, <1>6, QuoteSteps

LEMMA QuotesInit == Init => QuotesInvariant
  BY ConstantsAssumption
  DEF ConstantsAssumption, Init, AbsentOp, NoManifest, QuotesInvariant, ActiveIsCurrent, Active,
      QuotesHold, QuoteChecks, ManifestsHold, SuccessesHold

-----------------------------------------------------------------------------
(* Slots and fencing tokens.                                               *)

(* What a step does to one slot: it ends or does not start an attempt,     *)
(* keeps its token, or starts under the token of a row it owns.            *)
Kept(p) ==
    /\ Working(p)
    /\ slot'[p].op = slot[p].op
    /\ slot'[p].generation = slot[p].generation
    /\ slot'[p].stage \in CommitStages =>
          /\ slot'[p].rendering = slot[p].rendering
          /\ slot[p].stage \in CommitStages \/ Artifact(p) \in store'

Started(p) ==
    LET o == slot'[p].op IN
    /\ slot'[p].stage = "loading"
    /\ o \in Ops
    /\ op'[o].status = "running"
    /\ op'[o].owner = p
    /\ op'[o].generation = slot'[p].generation

SlotStep(p) ==
    \/ slot'[p].stage \notin BodyStages \cup FailStages
    \/ Kept(p)
    \/ Started(p)

LEMMA SameSlot == ASSUME TypeOK, NEW p \in Procs, slot'[p] = slot[p] PROVE SlotStep(p)
  BY DEF SlotStep, Kept, Working, CommitStages

LEMMA ReleasedSlot == ASSUME TypeOK, NEW p \in Procs, Release(p) PROVE SlotStep(p)
  BY DEF Release, FreeSlot, SlotStep, BodyStages, FailStages, TypeOK

(* A stage after the commit stages were entered, or a failing stage.       *)
LEMMA AwaitedSlot ==
    ASSUME TypeOK, NEW p \in Procs, NEW stage \in Stages, Await(p, stage), Working(p),
           stage \in CommitStages => slot[p].stage \in CommitStages
    PROVE  SlotStep(p)
  <1>1. slot[p] \in SlotRecord
    BY DEF TypeOK, SlotState
  <1>2. slot'[p] = [slot[p] EXCEPT !.stage = stage]
    BY DEF Await, TypeOK
  <1>3. /\ slot'[p].stage = stage /\ slot'[p].op = slot[p].op
        /\ slot'[p].generation = slot[p].generation /\ slot'[p].rendering = slot[p].rendering
    BY <1>1, <1>2 DEF SlotRecord
  <1> QED BY <1>3 DEF SlotStep, Kept

LEMMA ProceededSlot ==
    ASSUME TypeOK, NEW p \in Procs, NEW stage \in BodyStages, NEW r, ProceedTo(p, stage, r),
           Working(p),
           stage \in CommitStages => r = slot[p].rendering /\ Artifact(p) \in store'
    PROVE  SlotStep(p)
  <1>1. CASE slot'[p] = FreeSlot
    BY <1>1 DEF FreeSlot, SlotStep, BodyStages, FailStages
  <1>2. CASE slot'[p] = [stage |-> stage, op |-> slot[p].op, generation |-> slot[p].generation,
                         rendering |-> r, lease |-> slot[p].lease]
    BY <1>2 DEF SlotStep, Kept
  <1> QED BY <1>1, <1>2 DEF ProceedTo, TypeOK

LEMMA StartedSlot ==
    ASSUME TypeOK, NEW p \in Procs, NEW o \in Ops, NEW g, StartAttempt(p, o, g),
           op'[o].status = "running", op'[o].owner = p, op'[o].generation = g
    PROVE  SlotStep(p)
  BY DEF StartAttempt, SlotStep, Started, TypeOK

(* The renewal's own slot update.                                          *)
LEMMA LeaseSlot ==
    ASSUME TypeOK, NEW p \in Procs, NEW l \in {"held", "lost", "deadline"},
           slot' = [slot EXCEPT ![p] = [slot[p] EXCEPT !.lease = l]]
    PROVE  SlotStep(p)
  <1>1. slot[p] \in SlotRecord
    BY DEF TypeOK, SlotState
  <1>2. /\ slot'[p].stage = slot[p].stage /\ slot'[p].op = slot[p].op
        /\ slot'[p].generation = slot[p].generation /\ slot'[p].rendering = slot[p].rendering
    BY <1>1 DEF SlotRecord, TypeOK
  <1> QED BY <1>2 DEF SlotStep, Kept, Working, CommitStages

(* The attempt's own process.                                              *)
LEMMA AttemptSlot == ASSUME TypeOK, NEW p \in Procs, Attempt(p) PROVE SlotStep(p)
  <1>1. ASSUME NEW o \in Ops, Claim(p, o) PROVE SlotStep(p)
    <2>1. /\ op'[o].status = "running" /\ op'[o].owner = p
          /\ op'[o].generation = op[o].generation + 1
      BY <1>1 DEF Claim, ClaimRow, TypeOK
    <2> QED BY <1>1, <2>1, StartedSlot DEF Claim
  <1>2. ASSUME NEW target \in Ops \cup {NoOp}, ClaimOutcomeUnknown(p, target) PROVE SlotStep(p)
    <2>1. slot'[p].stage = "claim_unknown"
      BY <1>2 DEF ClaimOutcomeUnknown, TypeOK
    <2> QED BY <2>1 DEF SlotStep, BodyStages, FailStages
  <1>3. ASSUME AdoptClaim(p) PROVE SlotStep(p)
    <2>1. op' = op
      BY <1>3 DEF AdoptClaim, database
    <2>2. ASSUME NEW o \in LeasedTo(p, slot[p].op), StartAttempt(p, o, op[o].generation)
          PROVE  SlotStep(p)
      <3>1. o \in Ops /\ op'[o].status = "running" /\ op'[o].owner = p
        BY <2>1, <2>2 DEF LeasedTo
      <3> QED BY <2>1, <2>2, <3>1, StartedSlot
    <2> QED BY <1>3, <2>2, ReleasedSlot DEF AdoptClaim
  <1>4. ASSUME Renew(p) PROVE SlotStep(p)
    BY <1>4, LeaseSlot, SameSlot DEF Renew
  <1>5. ASSUME LoadSnapshot(p) PROVE SlotStep(p)
    BY <1>5, ProceededSlot DEF LoadSnapshot, AtStage, Working, BodyStages, CommitStages
  <1>6. ASSUME RenderPdf(p) PROVE SlotStep(p)
    BY <1>6, ProceededSlot DEF RenderPdf, AtStage, Working, BodyStages, CommitStages
  <1>7. ASSUME Publish(p) PROVE SlotStep(p)
    BY <1>7, ProceededSlot DEF Publish, AtStage, Working, BodyStages, CommitStages
  <1>8. ASSUME CommitIssued(p) \/ CommitNotApplied(p) PROVE SlotStep(p)
    <2>1. Working(p) /\ slot[p].stage \in CommitStages
      BY <1>8 DEF CommitIssued, CommitNotApplied, Commits, Working, BodyStages, CommitStages
    <2>2. AfterUnknownCommit(slot[p].stage) \in Stages
      BY DEF AfterUnknownCommit, Stages, BodyStages
    <2> QED BY <1>8, <2>1, <2>2, ReleasedSlot, AwaitedSlot DEF CommitIssued, CommitNotApplied
  <1>9. ASSUME ReconcileCommit(p) PROVE SlotStep(p)
    <2>1. Working(p) /\ slot[p].stage \in CommitStages
      BY <1>9 DEF ReconcileCommit, Working, BodyStages, CommitStages
    <2>2. "recommitting" \in Stages
      BY DEF Stages, BodyStages
    <2> QED BY <1>9, <2>1, <2>2, ReleasedSlot, AwaitedSlot DEF ReconcileCommit
  <1>10. ASSUME NEW retryable \in BOOLEAN, AttemptFails(p, retryable) PROVE SlotStep(p)
    <2>1. Working(p)
      BY <1>10 DEF AttemptFails, Working
    <2>2. /\ {"failing_retryable", "failing_final"} \subseteq Stages
          /\ "failing_retryable" \notin CommitStages /\ "failing_final" \notin CommitStages
      BY DEF Stages, FailStages, CommitStages
    <2> QED BY <1>10, <2>1, <2>2, ReleasedSlot, AwaitedSlot DEF AttemptFails
  <1>11. ASSUME FailAttempt(p) \/ FailAttemptNotApplied(p) PROVE SlotStep(p)
    BY <1>11, ReleasedSlot DEF FailAttempt, FailAttemptNotApplied
  <1> QED BY <1>1, <1>2, <1>3, <1>4, <1>5, <1>6, <1>7, <1>8, <1>9, <1>10, <1>11 DEF Attempt

(* A process's step leaves the other slots alone.                          *)
LEMMA OtherSlots ==
    ASSUME TypeOK, NEW p \in Procs, Attempt(p), NEW r \in Procs \ {p}
    PROVE  slot'[r] = slot[r]
  <1>1. \/ slot' = slot
        \/ \E s : slot' = [slot EXCEPT ![p] = s]
    <2>1. ASSUME NEW o \in Ops, Claim(p, o) PROVE \E s : slot' = [slot EXCEPT ![p] = s]
      BY <2>1 DEF Claim, StartAttempt
    <2>2. ASSUME NEW target \in Ops \cup {NoOp}, ClaimOutcomeUnknown(p, target)
          PROVE  \E s : slot' = [slot EXCEPT ![p] = s]
      BY <2>2 DEF ClaimOutcomeUnknown
    <2>3. ASSUME AdoptClaim(p) PROVE \E s : slot' = [slot EXCEPT ![p] = s]
      BY <2>3 DEF AdoptClaim, Release, StartAttempt
    <2>4. ASSUME Renew(p) PROVE slot' = slot \/ \E s : slot' = [slot EXCEPT ![p] = s]
      BY <2>4 DEF Renew
    <2>5. ASSUME LoadSnapshot(p) \/ RenderPdf(p) \/ Publish(p)
          PROVE  \E s : slot' = [slot EXCEPT ![p] = s]
      BY <2>5 DEF LoadSnapshot, RenderPdf, Publish, ProceedTo
    <2>6. ASSUME CommitIssued(p) \/ CommitNotApplied(p) \/ ReconcileCommit(p)
          PROVE  \E s : slot' = [slot EXCEPT ![p] = s]
      BY <2>6 DEF CommitIssued, CommitNotApplied, ReconcileCommit, Release, Await
    <2>7. ASSUME NEW retryable \in BOOLEAN, AttemptFails(p, retryable)
          PROVE  \E s : slot' = [slot EXCEPT ![p] = s]
      BY <2>7 DEF AttemptFails, Release, Await
    <2>8. ASSUME FailAttempt(p) \/ FailAttemptNotApplied(p)
          PROVE  \E s : slot' = [slot EXCEPT ![p] = s]
      BY <2>8 DEF FailAttempt, FailAttemptNotApplied, Release
    <2> QED BY <2>1, <2>2, <2>3, <2>4, <2>5, <2>6, <2>7, <2>8 DEF Attempt
  <1> QED BY <1>1 DEF TypeOK

LEMMA SlotSteps == ASSUME TypeOK, [Next]_vars PROVE \A p \in Procs : SlotStep(p)
  <1>1. ASSUME slot' = slot PROVE \A p \in Procs : SlotStep(p)
    BY <1>1, SameSlot
  <1>2. ASSUME NEW p \in Procs, Attempt(p) PROVE \A r \in Procs : SlotStep(r)
    BY <1>2, AttemptSlot, OtherSlots, SameSlot
  <1>3. ASSUME NEW p \in Procs, EndProcess(p) PROVE \A r \in Procs : SlotStep(r)
    <2>1. SlotStep(p)
      BY <1>3, ReleasedSlot DEF EndProcess, Release
    <2>2. \A r \in Procs \ {p} : slot'[r] = slot[r]
      BY <1>3 DEF EndProcess, TypeOK
    <2> QED BY <2>1, <2>2, SameSlot
  <1>4. Command \/ Sweep \/ Tick \/ UNCHANGED vars
        \/ (\E p \in Procs : StartProcess(p) \/ StopProcess(p)) => slot' = slot
    BY DEF Command, Accept, OperatorRetry, CancelQuote, Sweep, SweepSelect, SweepOperation,
           Tick, vars, StartProcess, StopProcess
  <1> QED BY <1>1, <1>2, <1>3, <1>4 DEF Next, Lifecycle

(* A row only goes on to a later token, and keeps its owner until then.    *)
TokenStep(o) ==
    op[o].status # "absent" =>
        /\ op'[o].status # "absent"
        /\ op[o].generation <= op'[o].generation
        /\ op'[o].status = "running" /\ op'[o].generation = op[o].generation
              => op[o].status = "running" /\ op'[o].owner = op[o].owner

LEMMA TokenSteps == ASSUME TypeOK, NEW o \in Ops, RowStep(o) PROVE TokenStep(o)
  <1>1. op[o] \in OperationRow /\ op[o].generation \in Nat
    BY DEF TypeOK, OperationRow
  <1>2. CASE Unchanged(o) \/ Created(o)
    BY <1>1, <1>2 DEF Unchanged, Created, TokenStep
  <1>3. ASSUME NEW p \in Procs, Claimed(p, o) PROVE TokenStep(o)
    BY <1>1, <1>3 DEF Claimed, TokenStep
  <1>4. ASSUME NEW p \in Procs, Renewed(p, o) PROVE TokenStep(o)
    <2>1. /\ op'[o].status = op[o].status /\ op'[o].generation = op[o].generation
          /\ op'[o].owner = op[o].owner
      BY <1>1, <1>4 DEF Renewed, OperationRow
    <2> QED BY <1>1, <1>4, <2>1 DEF Renewed, TokenStep
  <1>5. ASSUME NEW p \in Procs, Rescheduled(p, o) \/ Succeeded(p, o) PROVE TokenStep(o)
    BY <1>1, <1>5 DEF Rescheduled, Succeeded, Unleased, TokenStep
  <1>6. ASSUME NEW bump \in {0, 1}, FailedBy(o, bump) PROVE TokenStep(o)
    BY <1>1, <1>6 DEF FailedBy, Unleased, TokenStep
  <1> QED BY <1>2, <1>3, <1>4, <1>5, <1>6 DEF RowStep

TokensInvariant == AttemptsExist /\ TokensIdentifyHolders

LEMMA TokensStep == TypeOK /\ TokensInvariant /\ [Next]_vars => TokensInvariant'
  <1> SUFFICES ASSUME TypeOK, TokensInvariant, [Next]_vars PROVE TokensInvariant'
    OBVIOUS
  <1> DEFINE W(p) == slot'[p].stage \in BodyStages \cup FailStages
  <1> DEFINE g(p) == slot'[p].generation
  <1> DEFINE o(p) == slot'[p].op
  <1>1. \A p \in Procs : SlotStep(p)
    BY SlotSteps
  <1>2. \A a \in Ops : TokenStep(a)
    BY RowSteps, TokenSteps
  <1>3. TypeOK'
    BY TypeStep
  <1>4. ASSUME NEW p \in Procs, W(p)
        PROVE  /\ o(p) \in Ops
               /\ op'[o(p)].status # "absent"
               /\ g(p) <= op'[o(p)].generation
               /\ g(p) = op'[o(p)].generation /\ op'[o(p)].status = "running"
                     => op'[o(p)].owner = p
    <2>1. op'[slot'[p].op].generation \in Nat /\ slot'[p].op \in Ops
      BY <1>3, <1>4 DEF TypeOK, OperationRow, SlotState, SlotRecord
    <2>2. CASE Kept(p)
      <3>1. slot[p].op \in Ops /\ slot[p].generation \in Nat /\ op[slot[p].op].generation \in Nat
        BY <2>2, StageFacts DEF Kept, Working, TypeOK, OperationRow
      <3>2. /\ op[slot[p].op].status # "absent"
            /\ slot[p].generation <= op[slot[p].op].generation
            /\ slot[p].generation = op[slot[p].op].generation /\ op[slot[p].op].status = "running"
                  => op[slot[p].op].owner = p
        BY <2>2 DEF Kept, TokensInvariant, AttemptsExist, TokensIdentifyHolders
      <3>3. TokenStep(slot[p].op)
        BY <1>2, <3>1
      <3> QED BY <2>1, <2>2, <3>1, <3>2, <3>3 DEF Kept, TokenStep
    <2>3. CASE Started(p)
      BY <2>1, <2>3 DEF Started
    <2> QED BY <1>1, <1>4, <2>2, <2>3 DEF SlotStep
  <1>5. ASSUME NEW p \in Procs, NEW r \in Procs \ {p}, W(p), W(r), o(r) = o(p), Started(p)
        PROVE  g(r) # g(p)
    BY <1>4, <1>5 DEF Started
  <1>6. ASSUME NEW p \in Procs, NEW r \in Procs \ {p}, W(p), W(r), o(r) = o(p)
        PROVE  g(r) # g(p)
    <2>1. CASE Kept(p) /\ Kept(r)
      BY <1>6, <2>1 DEF Kept, TokensInvariant, TokensIdentifyHolders
    <2> QED BY <1>1, <1>5, <1>6, <2>1 DEF SlotStep
  <1>7. AttemptsExist'
    BY <1>4 DEF AttemptsExist, Working
  <1>8. TokensIdentifyHolders'
    BY <1>4, <1>6 DEF TokensIdentifyHolders, Working
  <1> QED BY <1>7, <1>8 DEF TokensInvariant

LEMMA PublishedStep == TypeOK /\ PublishedFirst /\ [Next]_vars => PublishedFirst'
  <1> SUFFICES ASSUME TypeOK, PublishedFirst, [Next]_vars, NEW p \in Procs,
                      slot'[p].stage \in CommitStages
               PROVE  Artifact(p)' \in store'
    BY DEF PublishedFirst
  <1>1. store \subseteq store'
    <2>1. CASE Quiet
      BY <2>1 DEF Quiet
    <2>2. (\E o \in Ops : Accept(o)) \/ (\E f, o \in Ops : OperatorRetry(f, o))
          \/ (\E q \in Quotes : CancelQuote(q)) \/ (\E r \in Procs : CommitIssued(r))
          => store' = store
      BY DEF Accept, OperatorRetry, CancelQuote, CommitIssued
    <2> QED BY <2>1, <2>2, QuoteSteps
  <1>2. Kept(p)
    BY SlotSteps DEF SlotStep, Started, CommitStages, BodyStages
  <1> QED BY <1>1, <1>2 DEF Kept, PublishedFirst, Artifact

LEMMA SlotsInit == Init => PublishedFirst /\ TokensInvariant
  BY DEF Init, FreeSlot, PublishedFirst, CommitStages, TokensInvariant, AttemptsExist,
         TokensIdentifyHolders, Working, BodyStages, FailStages

-----------------------------------------------------------------------------
(* The inductive invariant and its consequences.                           *)

LEMMA InvariantParts ==
    IInv <=> TypeOK /\ RowsInvariant /\ QuotesInvariant /\ PublishedFirst /\ TokensInvariant
  BY DEF IInv, RowsInvariant, QuotesInvariant, TokensInvariant

LEMMA InvariantInit == Init => IInv
  BY InvariantParts, TypeInit, RowsInit, QuotesInit, SlotsInit

LEMMA InvariantStep == IInv /\ [Next]_vars => IInv'
  <1> SUFFICES ASSUME IInv, [Next]_vars PROVE IInv'
    OBVIOUS
  <1>1. TypeOK' /\ RowsInvariant' /\ QuotesInvariant' /\ PublishedFirst' /\ TokensInvariant'
    BY InvariantParts, TypeStep, RowsStep, QuotesStep, PublishedStep, TokensStep
  <1> QED BY <1>1 DEF IInv, RowsInvariant, QuotesInvariant, TokensInvariant

(* The inductive invariant holds in every reachable state.                 *)
THEOREM InvariantHolds == Spec => []IInv
  BY InvariantInit, InvariantStep, PTL DEF Spec

(* No transaction ever runs into a CHECK constraint, a unique index or the *)
(* document trigger.                                                       *)
THEOREM SchemaIsNeverViolated == Spec => []SchemaHolds
  <1>1. IInv => SchemaHolds
    BY ConstantsAssumption
    DEF ConstantsAssumption, IInv, SchemaHolds, RowsHold, QuotesHold, ActiveIsCurrent, SuccessesHold
  <1> QED BY <1>1, InvariantHolds, PTL

(* Every manifest belongs to a succeeded operation of its quote and names  *)
(* published bytes, every succeeded operation is current and has the       *)
(* manifest of its quote, which was issued, and every issued quote has one.*)
THEOREM OneOutcomePerQuote == Spec => []ManifestMatchesOutcome
  <1>1. ASSUME IInv, NEW q \in Quotes
        PROVE  /\ manifest[q] # NoManifest =>
                     /\ manifest[q].op \in Ops /\ QuoteOf[manifest[q].op] = q
                     /\ <<q, manifest[q].rendering>> \in store
               /\ quote[q].status = "issued" => manifest[q] # NoManifest
    BY <1>1 DEF IInv, ManifestsHold, QuotesHold
  <1>2. ASSUME IInv, NEW o \in Ops, manifest[QuoteOf[o]].op = o
        PROVE  op[o].status = "succeeded"
    <2>1. QuoteOf[o] \in Quotes /\ manifest[QuoteOf[o]] # NoManifest
      BY <1>2, ConstantsAssumption DEF ConstantsAssumption, NoManifest
    <2> QED BY <1>2, <2>1 DEF IInv, ManifestsHold
  <1>3. ASSUME IInv, NEW o \in Ops, op[o].status = "succeeded"
        PROVE  /\ manifest[QuoteOf[o]].op = o
               /\ quote[QuoteOf[o]].current = o
               /\ quote[QuoteOf[o]].status \in {"issued", "cancelled"}
    BY <1>3 DEF IInv, SuccessesHold
  <1>4. IInv => ManifestMatchesOutcome
    BY <1>1, <1>2, <1>3 DEF ManifestMatchesOutcome
  <1> QED BY <1>4, InvariantHolds, PTL

(* An operation that may still run is the current one of an issuing quote. *)
THEOREM OnlyCurrentOperationsRun == Spec => []ActiveIsCurrent
  <1>1. IInv => ActiveIsCurrent
    BY DEF IInv
  <1> QED BY <1>1, InvariantHolds, PTL

(* No two attempts ever work under the same fencing token.                 *)
THEOREM FencingIsExclusive == Spec => []TokensIdentifyHolders
  <1>1. IInv => TokensIdentifyHolders
    BY DEF IInv
  <1> QED BY <1>1, InvariantHolds, PTL

(* Every outcome is audited once, whatever answers were lost.              *)
THEOREM EachOutcomeIsAuditedOnce == Spec => []OutcomeAuditedOnce
  <1>1. IInv => OutcomeAuditedOnce
    BY DEF IInv
  <1> QED BY <1>1, InvariantHolds, PTL

(* Leases and retries never outlive the deadline.                          *)
THEOREM ScheduleIsBounded == Spec => []DeadlineCapsSchedule
  <1>1. IInv => DeadlineCapsSchedule
    BY DEF IInv
  <1> QED BY <1>1, InvariantHolds, PTL

(* Every claim is counted as an attempt, and only a sweep adds a token.    *)
THEOREM ClaimsAreCounted == Spec => []AttemptsAccounted
  <1>1. IInv => AttemptsAccounted
    BY DEF IInv
  <1> QED BY <1>1, InvariantHolds, PTL

(* No update ever meets an update trigger that rejects it.                 *)
THEOREM TriggersNeverFire == Spec => GuardsNeverFire
  <1> DEFINE Guarded ==
        /\ \A q \in Quotes : quote'[q] # quote[q] => QuotesGuard(quote[q], quote'[q])
        /\ \A o \in Ops : op'[o] # op[o] /\ op[o].status # "absent"
                              => OperationsGuard(op[o], op'[o])
        /\ \A q \in Quotes : manifest[q] # NoManifest => manifest'[q] = manifest[q]
  <1>1. ASSUME IInv, [Next]_vars PROVE Guarded
    <2>1. TypeOK
      BY <1>1 DEF IInv
    <2>2. \A q \in Quotes : quote'[q] # quote[q] => QuotesGuard(quote[q], quote'[q])
      <3>1. \A q \in Quotes : quote[q].version \in Nat
        BY <2>1 DEF TypeOK, QuoteRow
      <3>2. ASSUME NEW o \in Ops, Accept(o) \/ \E f \in Ops : OperatorRetry(f, o), NEW q \in Quotes,
                   quote'[q] # quote[q]
            PROVE  QuotesGuard(quote[q], quote'[q])
        <4>1. q = QuoteOf[o]
          BY <2>1, <3>2 DEF Accept, OperatorRetry, TypeOK
        <4>2. /\ quote[q].status \in {"draft", "issuing"}
              /\ quote'[q] = [status |-> "issuing", version |-> quote[q].version + 1, current |-> o]
          BY <2>1, <3>2, <4>1 DEF Accept, OperatorRetry, TypeOK
        <4> QED BY <3>1, <4>2 DEF QuotesGuard
      <3>3. ASSUME NEW c \in Quotes, CancelQuote(c), NEW q \in Quotes, quote'[q] # quote[q]
            PROVE  QuotesGuard(quote[q], quote'[q])
        <4>1. q = c
          BY <2>1, <3>3 DEF CancelQuote, TypeOK
        <4>2. /\ quote[q].status \in {"draft", "issuing", "issued"}
              /\ quote'[q] = [status |-> "cancelled", version |-> quote[q].version + 1,
                              current |-> quote[q].current]
          BY <2>1, <3>3, <4>1 DEF CancelQuote, TypeOK
        <4> QED BY <3>1, <4>2 DEF QuotesGuard
      <3>4. ASSUME NEW p \in Procs, CommitIssued(p), NEW q \in Quotes, quote'[q] # quote[q]
            PROVE  QuotesGuard(quote[q], quote'[q])
        <4>1. q = QuoteOf[slot[p].op]
          BY <2>1, <3>4 DEF CommitIssued, CommitWrites, TypeOK
        <4>2. /\ quote[q].status = "issuing"
              /\ quote'[q] = [status |-> "issued", version |-> quote[q].version + 1,
                              current |-> quote[q].current]
          BY <2>1, <3>4, <4>1 DEF CommitIssued, CommitAllowed, CommitWrites, TypeOK
        <4> QED BY <3>1, <4>2 DEF QuotesGuard
      <3> QED BY <1>1, <2>1, <3>2, <3>3, <3>4, QuoteSteps
    <2>3. ASSUME NEW o \in Ops, op'[o] # op[o], op[o].status # "absent"
          PROVE  OperationsGuard(op[o], op'[o])
      <3>1. RowStep(o)
        BY <1>1, <2>1, RowSteps
      <3>2. op[o] \in OperationRow /\ op[o].generation \in Nat /\ op[o].attempts \in Nat
        BY <2>1 DEF TypeOK, OperationRow
      <3>3. ASSUME NEW p \in Procs, Claimed(p, o) PROVE OperationsGuard(op[o], op'[o])
        BY <3>2, <3>3 DEF Claimed, Claimable, OperationsGuard
      <3>4. ASSUME NEW p \in Procs, Renewed(p, o) PROVE OperationsGuard(op[o], op'[o])
        <4>1. /\ op'[o].generation = op[o].generation /\ op'[o].attempts = op[o].attempts
              /\ op'[o].deadline = op[o].deadline
          BY <3>2, <3>4 DEF Renewed, OperationRow
        <4> QED BY <3>2, <3>4, <4>1 DEF Renewed, OperationsGuard
      <3>5. ASSUME NEW p \in Procs, Held(p, o),
                   Rescheduled(p, o) \/ Succeeded(p, o) \/ FailedBy(o, 0)
            PROVE  OperationsGuard(op[o], op'[o])
        BY <3>2, <3>5 DEF Held, FenceHolds, Rescheduled, Succeeded, FailedBy, Unleased,
                          OperationsGuard
      <3>6. ASSUME DeadlineDue(o), FailedBy(o, 1) PROVE OperationsGuard(op[o], op'[o])
        BY <3>2, <3>6 DEF DeadlineDue, FailedBy, Unleased, OperationsGuard
      <3> QED BY <2>3, <3>1, <3>3, <3>4, <3>5, <3>6
              DEF RowStep, Unchanged, Created, Rescheduled, Succeeded
    <2>4. ASSUME NEW q \in Quotes, manifest[q] # NoManifest PROVE manifest'[q] = manifest[q]
      <3>1. ASSUME NEW p \in Procs, CommitIssued(p) PROVE manifest'[q] = manifest[q]
        BY <2>1, <2>4, <3>1 DEF CommitIssued, CommitAllowed, CommitWrites, TypeOK
      <3> QED BY <1>1, <2>1, <3>1, QuoteSteps DEF Quiet, Accept, OperatorRetry, CancelQuote
    <2> QED BY <2>2, <2>3, <2>4
  <1> QED BY <1>1, InvariantHolds, PTL DEF Spec, GuardsNeverFire

(* While its lease runs, a holder is pre-empted by nobody.                 *)
THEOREM HoldersAreNotPreempted == Spec => LiveLeaseRespected
  <1> DEFINE Respected(o) ==
        /\ op[o].status = "running"
        /\ op[o].lease >= now
        /\ op'[o].status # "running" \/ op'[o].generation # op[o].generation
        => /\ op'[o].generation = op[o].generation
           /\ \E p \in Procs : /\ op[o].owner = p
                                /\ slot[p].op = o
                                /\ slot[p].generation = op[o].generation
                                /\ slot'[p] # slot[p]
  <1>1. ASSUME IInv, [Next]_vars, NEW o \in Ops PROVE Respected(o)
    <2>1. TypeOK /\ op[o] \in OperationRow /\ now \in Instants /\ op[o].generation \in Nat
      BY <1>1 DEF IInv, TypeOK, OperationRow
    <2>2. RowStep(o)
      BY <1>1, <2>1, RowSteps
    <2>3. op[o].lease \in Int /\ now \in Int
      BY <2>1, ConstantsAssumption DEF ConstantsAssumption, OperationRow, Instants, NoTime
    <2>4. CASE Unchanged(o) \/ Created(o)
      BY <2>4 DEF Unchanged, Created
    <2>5. ASSUME NEW p \in Procs, Claimed(p, o) PROVE Respected(o)
      BY <2>3, <2>5 DEF Claimed, Claimable
    <2>6. ASSUME NEW p \in Procs, Renewed(p, o) PROVE Respected(o)
      <3>1. op'[o].status = op[o].status /\ op'[o].generation = op[o].generation
        BY <2>1, <2>6 DEF Renewed, OperationRow
      <3> QED BY <3>1
    <2>7. ASSUME NEW p \in Procs, Held(p, o),
                 Rescheduled(p, o) \/ Succeeded(p, o) \/ FailedBy(o, 0)
          PROVE  Respected(o)
      <3>1. op'[o].generation = op[o].generation
        BY <2>1, <2>7 DEF Rescheduled, Succeeded, FailedBy, Unleased
      <3> QED BY <2>7, <3>1 DEF Held, FenceHolds
    <2>8. CASE DeadlineDue(o)
      BY <2>3, <2>8 DEF DeadlineDue
    <2> QED BY <2>2, <2>4, <2>5, <2>6, <2>7, <2>8 DEF RowStep, Rescheduled, Succeeded
  <1>2. IInv /\ [Next]_vars => [\A o \in Ops : Respected(o)]_vars
    BY <1>1
  <1> QED BY <1>2, InvariantHolds, PTL DEF Spec, LiveLeaseRespected

-----------------------------------------------------------------------------
(* The refinement: what the quotes show of all this is their state machine.*)

Phases == [q \in Quotes |-> quote[q].status]
Outcomes == [q \in Quotes |-> OutcomeOf(q)]
Documents == [q \in Quotes |-> manifest[q] # NoManifest]
Versions == [q \in Quotes |-> quote[q].version]

(* A step that touches one quote, its operation's outcome and its document *)
(* is one step of the state machine.                                       *)
LEMMA OneQuoteSteps ==
    ASSUME NEW q \in Quotes, NEW status, NEW outcome, NEW document \in BOOLEAN, NEW increment,
           \A r \in Quotes \ {q} : /\ quote'[r] = quote[r] /\ OutcomeOf(r)' = OutcomeOf(r)
                                   /\ manifest'[r] = manifest[r],
           quote'[q].status = status, OutcomeOf(q)' = outcome,
           (manifest'[q] # NoManifest) = document,
           quote'[q].version = quote[q].version + increment
    PROVE  QuoteLife!Step(q, status, outcome, document, increment)
  <1>1. Phases' = [Phases EXCEPT ![q] = status]
    BY DEF Phases
  <1>2. Outcomes' = [Outcomes EXCEPT ![q] = outcome]
    BY DEF Outcomes
  <1>3. Documents' = [Documents EXCEPT ![q] = document]
    <2>1. \A r \in Quotes \ {q} : (manifest'[r] # NoManifest) = (manifest[r] # NoManifest)
      OBVIOUS
    <2>2. Documents' = [r \in Quotes |-> manifest'[r] # NoManifest]
      BY DEF Documents, NoManifest
    <2> QED BY <2>1, <2>2 DEF Documents
  <1>4. Versions' = [Versions EXCEPT ![q] = Versions[q] + increment]
    BY DEF Versions
  <1> QED BY <1>1, <1>2, <1>3, <1>4 DEF QuoteLife!Step, Phases, Outcomes, Documents, Versions

(* The current operation of a quote is one of its own.                     *)
LEMMA CurrentIsOwn ==
    ASSUME IInv, NEW q \in Quotes
    PROVE  /\ quote[q].current \in Ops \cup {NoOp}
           /\ quote[q].current \in Ops => QuoteOf[quote[q].current] = q
           /\ OutcomeOf(q) \in {"none", "running", "failed", "succeeded"}
  <1>1. quote[q].current \in Ops \cup {NoOp}
    BY DEF IInv, TypeOK, QuoteRow
  <1>2. quote[q].current \in Ops => /\ QuoteOf[quote[q].current] = q
                                    /\ op[quote[q].current].status # "absent"
    BY DEF IInv, QuotesHold
  <1>3. \A o \in Ops : op[o].status \in {"absent", "pending", "running", "succeeded", "failed"}
    BY DEF IInv, TypeOK, OperationRow
  <1> QED BY <1>1, <1>2, <1>3 DEF OutcomeOf, Active

(* A step on the row of one operation leaves the other quotes' outcomes.   *)
LEMMA OtherOutcomes ==
    ASSUME IInv, NEW o \in Ops, NEW row, op' = [op EXCEPT ![o] = row],
           NEW r \in Quotes \ {QuoteOf[o]}, quote'[r] = quote[r]
    PROVE  OutcomeOf(r)' = OutcomeOf(r)
  <1>1. quote[r].current \in Ops => QuoteOf[quote[r].current] = r
    BY CurrentIsOwn
  <1>2. \A a \in Ops \ {o} : op'[a] = op[a]
    BY DEF IInv, TypeOK
  <1>3. quote[r].current \in Ops \cup {NoOp} /\ quote[r].current # o
    BY <1>1, CurrentIsOwn, ConstantsAssumption DEF ConstantsAssumption
  <1> QED BY <1>2, <1>3 DEF OutcomeOf, Active

(* A quote that is not issued has no document.                             *)
LEMMA NoDocumentYet ==
    ASSUME IInv, NEW q \in Quotes, quote[q].status \in {"draft", "issuing"}
    PROVE  manifest[q] = NoManifest
  <1> SUFFICES ASSUME manifest[q] # NoManifest PROVE FALSE
    OBVIOUS
  <1>1. PICK o \in Ops : o = manifest[q].op /\ QuoteOf[o] = q /\ op[o].status = "succeeded"
    BY DEF IInv, ManifestsHold
  <1>2. quote[QuoteOf[o]].status \in {"issued", "cancelled"}
    BY <1>1 DEF IInv, SuccessesHold
  <1> QED BY <1>1, <1>2

(* T3 and T10: a fresh operation becomes the current one.                  *)
LEMMA CreationInLife ==
    ASSUME IInv, NEW o \in Ops, NEW q, q = QuoteOf[o], quote[q].status \in {"draft", "issuing"},
           op' = [op EXCEPT ![o] = PendingOp], manifest' = manifest,
           quote' = [quote EXCEPT ![q] =
              [status |-> "issuing", version |-> quote[q].version + 1, current |-> o]]
    PROVE  q \in Quotes /\ QuoteLife!Step(q, "issuing", "running", FALSE, 1)
  <1>1. q \in Quotes
    BY ConstantsAssumption DEF ConstantsAssumption
  <1>2. /\ quote'[q] = [status |-> "issuing", version |-> quote[q].version + 1, current |-> o]
        /\ \A r \in Quotes \ {q} : quote'[r] = quote[r]
    BY <1>1 DEF IInv, TypeOK
  <1>3. \A r \in Quotes \ {q} : OutcomeOf(r)' = OutcomeOf(r)
    BY <1>2, OtherOutcomes
  <1>4. OutcomeOf(q)' = "running"
    <2>1. op'[o].status = "pending"
      BY DEF IInv, TypeOK, PendingOp
    <2>2. o # NoOp
      BY ConstantsAssumption DEF ConstantsAssumption
    <2> QED BY <1>2, <2>1, <2>2 DEF OutcomeOf, Active
  <1>5. (manifest'[q] # NoManifest) = FALSE
    BY <1>1, NoDocumentYet
  <1>6. quote'[q].status = "issuing" /\ quote'[q].version = quote[q].version + 1
    BY <1>2
  <1> QED BY <1>1, <1>2, <1>3, <1>4, <1>5, <1>6, OneQuoteSteps

LEMMA CommandInLife == ASSUME IInv, Command PROVE QuoteLife!Next
  <1>1. ASSUME NEW o \in Ops, Accept(o) PROVE QuoteLife!Next
    <2>1. PICK q : q = QuoteOf[o]
      OBVIOUS
    <2>2. quote[q].status = "draft" /\ q \in Quotes /\ QuoteLife!Step(q, "issuing", "running", FALSE, 1)
      BY <1>1, <2>1, CreationInLife DEF Accept
    <2>3. QuoteLife!Issue(q)
      BY <2>2 DEF QuoteLife!Issue
    <2> QED BY <2>2, <2>3 DEF QuoteLife!Next
  <1>2. ASSUME NEW f \in Ops, NEW o \in Ops, OperatorRetry(f, o) PROVE QuoteLife!Next
    <2>1. PICK q : q = QuoteOf[o]
      OBVIOUS
    <2>2. /\ quote[q].status = "issuing" /\ quote[q].current = f /\ op[f].status = "failed"
          /\ q \in Quotes /\ QuoteLife!Step(q, "issuing", "running", FALSE, 1)
      BY <1>2, <2>1, CreationInLife DEF OperatorRetry
    <2>3. OutcomeOf(q) = "failed"
      BY <2>2, ConstantsAssumption DEF ConstantsAssumption, OutcomeOf, Active
    <2>4. QuoteLife!Retry(q)
      BY <2>2, <2>3 DEF QuoteLife!Retry, QuoteLife!IssuingWith
    <2> QED BY <2>2, <2>4 DEF QuoteLife!Next
  <1>3. ASSUME NEW q \in Quotes, CancelQuote(q) PROVE QuoteLife!Next
    <2>1. /\ \/ quote[q].status \in {"draft", "issued"}
             \/ /\ quote[q].status = "issuing"
                /\ \E f \in Ops : quote[q].current = f /\ op[f].status = "failed"
          /\ op' = op /\ manifest' = manifest
          /\ quote'[q].status = "cancelled" /\ quote'[q].version = quote[q].version + 1
          /\ quote'[q].current = quote[q].current
          /\ \A r \in Quotes \ {q} : quote'[r] = quote[r]
      BY <1>3 DEF CancelQuote, IInv, TypeOK
    <2>2. \A r \in Quotes : OutcomeOf(r)' = OutcomeOf(r)
      BY <2>1 DEF OutcomeOf, Active
    <2>3. PICK outcome : outcome = OutcomeOf(q)
      OBVIOUS
    <2>0. PICK document \in BOOLEAN : document = (manifest[q] # NoManifest)
      OBVIOUS
    <2>4. (manifest'[q] # NoManifest) = document
      BY <2>0, <2>1 DEF NoManifest
    <2>5. QuoteLife!Step(q, "cancelled", outcome, document, 1)
      BY <2>1, <2>2, <2>3, <2>4, OneQuoteSteps
    <2>6. quote[q].status = "issuing" => OutcomeOf(q) = "failed"
      BY <2>1, ConstantsAssumption DEF ConstantsAssumption, OutcomeOf, Active
    <2>7. Outcomes[q] = outcome /\ Documents[q] = document
      BY <2>0, <2>3 DEF Outcomes, Documents
    <2>8. QuoteLife!Cancel(q)
      BY <2>1, <2>5, <2>6, <2>7
      DEF QuoteLife!Cancel, QuoteLife!IssuingWith, Outcomes, Documents
    <2> QED BY <2>8 DEF QuoteLife!Next
  <1> QED BY <1>1, <1>2, <1>3 DEF Command

(* T5: the commit that issues.                                             *)
LEMMA CommitInLife ==
    ASSUME IInv, NEW p \in Procs, CommitIssued(p)
    PROVE  QuoteLife!Next
  <1>1. PICK o, q : o = slot[p].op /\ q = QuoteOf[o]
    OBVIOUS
  <1>2. /\ o \in Ops /\ q \in Quotes /\ op[o].status = "running"
        /\ quote[q].status = "issuing" /\ quote[q].current = o
    BY <1>1, ConstantsAssumption
    DEF ConstantsAssumption, CommitIssued, CommitAllowed, FenceHolds
  <1>3. PICK row : row.status = "succeeded" /\ op' = [op EXCEPT ![o] = row]
    BY <1>1 DEF CommitIssued, CommitWrites, Unleased
  <1>4. /\ quote'[q] = [status |-> "issued", version |-> quote[q].version + 1, current |-> o]
        /\ \A r \in Quotes \ {q} : quote'[r] = quote[r]
    BY <1>1, <1>2 DEF CommitIssued, CommitWrites, IInv, TypeOK
  <1>5. manifest'[q].op = o /\ \A r \in Quotes \ {q} : manifest'[r] = manifest[r]
    BY <1>1, <1>2 DEF CommitIssued, CommitWrites, IInv, TypeOK
  <1>6. o # NoOp
    BY <1>2, ConstantsAssumption DEF ConstantsAssumption
  <1>7. (manifest'[q] # NoManifest) = TRUE
    BY <1>5, <1>6 DEF NoManifest
  <1>8. \A r \in Quotes \ {q} : OutcomeOf(r)' = OutcomeOf(r)
    BY <1>1, <1>2, <1>3, <1>4, OtherOutcomes
  <1>9. OutcomeOf(q) = "running" /\ OutcomeOf(q)' = "succeeded"
    <2>1. op'[o].status = "succeeded"
      BY <1>2, <1>3 DEF IInv, TypeOK
    <2> QED BY <1>2, <1>4, <1>6, <2>1 DEF OutcomeOf, Active
  <1>10. quote'[q].status = "issued" /\ quote'[q].version = quote[q].version + 1
    BY <1>4
  <1>11. QuoteLife!Step(q, "issued", "succeeded", TRUE, 1)
    BY <1>2, <1>4, <1>5, <1>7, <1>8, <1>9, <1>10, OneQuoteSteps
  <1>12. QuoteLife!Complete(q)
    BY <1>2, <1>9, <1>11 DEF QuoteLife!Complete, QuoteLife!IssuingWith
  <1> QED BY <1>2, <1>12 DEF QuoteLife!Next

(* A claim, a reschedule or the end of an operation touches one row.       *)
LEMMA OneRowChanges ==
    ASSUME TypeOK, [Next]_vars
    PROVE  op' = op \/ \E o \in Ops : \E row : op' = [op EXCEPT ![o] = row]
  <1>1. ASSUME NEW p \in Procs, Attempt(p)
        PROVE  op' = op \/ \E o \in Ops : \E row : op' = [op EXCEPT ![o] = row]
    <2>1. CASE CommitIssued(p)
      BY <2>1 DEF CommitIssued, CommitAllowed, FenceHolds, CommitWrites
    <2>2. CASE Renew(p)
      BY <2>2 DEF Renew, FenceHolds
    <2>3. CASE FailAttempt(p)
      BY <2>3 DEF FailAttempt, FenceHolds, OpFailed
    <2>4. CASE \/ \E o \in Ops : Claim(p, o)
               \/ \E target \in Ops \cup {NoOp} : ClaimOutcomeUnknown(p, target)
      BY <2>4 DEF Claim, ClaimOutcomeUnknown, ClaimRow
    <2>5. \/ op' = op \/ CommitIssued(p) \/ Renew(p) \/ FailAttempt(p)
          \/ \E o \in Ops : Claim(p, o)
          \/ \E target \in Ops \cup {NoOp} : ClaimOutcomeUnknown(p, target)
      BY <1>1
      DEF Attempt, AdoptClaim, LoadSnapshot, RenderPdf, Publish, CommitNotApplied, ReconcileCommit,
          AttemptFails, FailAttemptNotApplied, database
    <2> QED BY <2>1, <2>2, <2>3, <2>4, <2>5
  <1>2. CASE Command
    BY <1>2 DEF Command, Accept, OperatorRetry, CancelQuote
  <1>3. CASE Sweep
    BY <1>3 DEF Sweep, SweepSelect, SweepOperation, OpFailed, database
  <1>4. ASSUME NEW p \in Procs, Lifecycle(p) PROVE op' = op
    BY <1>4 DEF Lifecycle, StartProcess, StopProcess, EndProcess, database
  <1>5. CASE Tick
    BY <1>5 DEF Tick, database
  <1>6. CASE UNCHANGED vars
    BY <1>6 DEF vars
  <1> QED BY <1>1, <1>2, <1>3, <1>4, <1>5, <1>6 DEF Next

(* T6 and T12, or nothing a reader of the quotes can see.                  *)
LEMMA QuietInLife ==
    ASSUME IInv, [Next]_vars, Quiet, quote' = quote
    PROVE  QuoteLife!Next \/ UNCHANGED QuoteLife!vars
  <1> DEFINE Same == UNCHANGED QuoteLife!vars
  <1>1. ASSUME \A q \in Quotes : OutcomeOf(q)' = OutcomeOf(q) PROVE Same
    <2>1. Phases' = Phases /\ Versions' = Versions /\ Outcomes' = Outcomes
      BY <1>1 DEF Phases, Versions, Outcomes
    <2>2. Documents' = Documents
      BY DEF Quiet, Documents, NoManifest
    <2> QED BY <2>1, <2>2 DEF QuoteLife!vars, Phases, Outcomes, Documents, Versions
  <1>2. CASE op' = op
    BY <1>1, <1>2 DEF OutcomeOf, Active
  <1>3. ASSUME NEW o \in Ops, NEW row, op' = [op EXCEPT ![o] = row]
        PROVE  QuoteLife!Next \/ Same
    <2>1. PICK q \in Quotes : q = QuoteOf[o]
      BY ConstantsAssumption DEF ConstantsAssumption
    <2>2. \A r \in Quotes \ {q} : OutcomeOf(r)' = OutcomeOf(r)
      BY <1>3, <2>1, OtherOutcomes
    <2>3. StatusKept(o) /\ \A a \in Ops \ {o} : op'[a] = op[a]
      BY <1>3 DEF Quiet, IInv, TypeOK
    <2>4. TypeOK'
      BY TypeStep DEF IInv
    <2>5. /\ op[o].status \in {"absent", "pending", "running", "succeeded", "failed"}
          /\ op'[o].status \in {"absent", "pending", "running", "succeeded", "failed"}
      BY <2>4 DEF IInv, TypeOK, OperationRow
    <2>6. CASE Active(o) /\ op'[o].status = "failed"
      <3>1. quote[q].status = "issuing" /\ quote[q].current = o /\ o # NoOp
        BY <2>1, <2>6, ConstantsAssumption DEF ConstantsAssumption, IInv, ActiveIsCurrent
      <3>2. OutcomeOf(q) = "running" /\ OutcomeOf(q)' = "failed"
        BY <2>6, <3>1 DEF OutcomeOf, Active
      <3>3. (manifest'[q] # NoManifest) = FALSE
        BY <3>1, NoDocumentYet DEF Quiet, NoManifest
      <3>4. quote'[q].version = quote[q].version + 0 /\ quote'[q].status = "issuing"
        BY <3>1 DEF IInv, TypeOK, QuoteRow
      <3>5. QuoteLife!Step(q, "issuing", "failed", FALSE, 0)
        BY <2>2, <3>2, <3>3, <3>4, OneQuoteSteps DEF Quiet
      <3>6. QuoteLife!Fail(q)
        BY <3>1, <3>2, <3>5 DEF QuoteLife!Fail, QuoteLife!IssuingWith
      <3> QED BY <3>6 DEF QuoteLife!Next
    <2>7. CASE ~(Active(o) /\ op'[o].status = "failed")
      <3>1. \/ Active(o) /\ Active(o)'
            \/ ~Active(o) /\ ~Active(o)' /\ op'[o].status = op[o].status
        BY <2>3, <2>5, <2>7 DEF StatusKept, Active
      <3>2. \A a \in Ops \ {o} : Active(a)' = Active(a) /\ op'[a].status = op[a].status
        BY <2>3 DEF Active
      <3>3. OutcomeOf(q)' = OutcomeOf(q)
        <4>1. quote[q].current \in Ops \cup {NoOp}
          BY CurrentIsOwn
        <4>2. CASE quote[q].current = NoOp
          BY <4>2 DEF OutcomeOf
        <4>3. CASE quote[q].current = o
          BY <3>1, <4>3 DEF OutcomeOf
        <4>4. CASE quote[q].current \in Ops \ {o}
          BY <3>2, <4>4 DEF OutcomeOf
        <4> QED BY <4>1, <4>2, <4>3, <4>4
      <3> QED BY <1>1, <2>2, <3>3
    <2> QED BY <2>6, <2>7
  <1> QED BY <1>2, <1>3, OneRowChanges DEF IInv

(* Seen from the quotes, all the claims, leases, retries, lost answers and *)
(* takeovers of the holders come down to the state machine's transitions.  *)
THEOREM LifecycleHolds == Spec => ImplementsLifecycle
  <1>1. Init => QuoteLife!Init
    <2> SUFFICES ASSUME Init PROVE QuoteLife!Init
      OBVIOUS
    <2>1. /\ Phases = [q \in Quotes |-> "draft"] /\ Versions = [q \in Quotes |-> 1]
          /\ Outcomes = [q \in Quotes |-> "none"]
      BY DEF Init, Phases, Versions, Outcomes, OutcomeOf
    <2>2. Documents = [q \in Quotes |-> FALSE]
      BY DEF Init, Documents
    <2> QED BY <2>1, <2>2 DEF QuoteLife!Init, Phases, Outcomes, Documents, Versions
  <1>2. IInv /\ [Next]_vars => [QuoteLife!Next]_(QuoteLife!vars)
    <2> SUFFICES ASSUME IInv, [Next]_vars PROVE [QuoteLife!Next]_(QuoteLife!vars)
      OBVIOUS
    <2>1. TypeOK
      BY DEF IInv
    <2>2. Quiet /\ quote' = quote => QuoteLife!Next \/ UNCHANGED QuoteLife!vars
      BY QuietInLife
    <2>3. ASSUME NEW p \in Procs, CommitIssued(p) PROVE QuoteLife!Next
      BY <2>3, CommitInLife
    <2>4. (\E o \in Ops : Accept(o)) \/ (\E f, o \in Ops : OperatorRetry(f, o))
          \/ (\E q \in Quotes : CancelQuote(q)) => QuoteLife!Next
      BY CommandInLife DEF Command
    <2> QED BY <2>1, <2>2, <2>3, <2>4, QuoteSteps
  <1> QED BY <1>1, <1>2, InvariantHolds, PTL DEF Spec, ImplementsLifecycle, QuoteLife!Spec
=============================================================================
