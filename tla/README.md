# A TLA+ verification of the quote service

The service issues quotes: it accepts a quote, freezes it, renders its PDF in the
background, commits the document and, on request, e-mails it. Several identical
processes run against one PostgreSQL database and one artifact directory. Nothing else
coordinates them: leases, fencing tokens, row locks and unique constraints do. A process
may crash between any two transactions, a COMMIT may lose its answer, and a lease may run
out under a holder that is still working. These modules model that coordination.

## 1. Inventory

| Part | State | Operations | What makes it correct |
|---|---|---|---|
| Durable issuance operations (`issuance-operations.ts`) | `issuance_operations`, `quotes`, `quote_documents`, audit events | claim, renew, fail, commit, deadline sweep, operator retry | one outcome per quote, a holder with a live lease is not pre-empted, every operation ends |
| Issuance worker and attempt (`issuance-worker.ts`, `issuance-attempt.ts`) | one slot per process, lease state, abort signal | tick, run one operation, stages of the attempt, stop | no durable write of an attempt that was fenced out |
| Delivery execution (`quote-v2-delivery-execution.ts`, `delivery-policy.ts`) | `quote_deliveries` | claim, complete, sweep | a delivery is sent at most once, recorded outcomes are true |
| Delivery worker and sender (`delivery-worker.ts`, `gmail-mail-sender.ts`) | one slot per process | prepare, token, transmit, classify, complete | only provably unsent mails are retried |
| Commands (`quote-v2-acceptance.ts`, `-drafts.ts`, `-cancel.ts`, `-deliveries.ts`, `inline-issuance.ts`) | quotes, bindings, number sequence, requests in flight | create, update, issue, cancel, request a delivery, wait for the issuance | one effect per idempotency key, one mutation per version, truthful answers |
| Expiry and validity (`quote-v2-expiry.ts`, `expiry.ts`, `validity.ts`) | `quotes.status` | materialize expiry, resolve validity | stored and effective status agree, a quote is valid to the end of a civil day |
| Artifact store (`content-addressed-artifact-store.ts`, `document-artifact-verifier.ts`, `document-repair.ts`) | files, directories, temporary files | publish, read verified, temp sweep, verify, repair | a manifest's bytes exist and are the bytes it names |
| Runtime (`dependency-monitor.ts`, `readiness-gate.ts`, `periodic-job-runner.ts`, `app.ts`, `server.ts`) | published states, probes in flight, timers, shutdown | probe cycle, hint, gate, job iteration, the steps of the close | nothing is published from a stale answer, recovery without restart, an orderly end |
| Migrator and schema head (`migrator.ts`, `schema-head.ts`) | applied migrations, recorded checksums | migrate, record, evaluate | a service serves only its own schema |
| V1 to V2 migration (`000007_quote_v2_persistence.cjs`) | V1 tables, V2 tables | one transaction | nothing is lost, every V2 check is met |
| Schema (the same file) | constraints, triggers | | last line of defence |
| Arithmetic, reads | none that changes | charges and totals; views and pages | consistent amounts; no row skipped or repeated |
| Principals, rendering, configuration | none that changes | | pure or read only |

Parts interact through the database. A command locks its idempotency scope, then the quote row
and then its children; issuance and delivery transactions take the same order, except for the
issuance claim, which locks the operation row alone. An attempt calls the renderer, the artifact
store and the mail provider between its transactions.

What is hard: two holders of one operation or delivery; a commit that lands after its lease; a
lost COMMIT answer at every write; a retry under the same key racing its first attempt; a sweep
that acts on rows it read without locks; a cancel, a retry or the end of validity falling between
any two steps; a power failure between link and sync; answers of probes that had timed out;
shutdown in the middle of anything. `PROJECT.json` lists these hazards with their lines and the
properties aimed at them.

## 2. Modules

### IssuanceOperations

One action per transaction, one stage of a process's slot per await.

| Model | Code |
|---|---|
| `op[o]` (status, generation, attempts, owner, lease, next, deadline, lastAttempt) | row of `issuance_operations` |
| `quote[q]` (status, version, current) | row of `quotes` |
| `manifest[q]`, `store` | row of `quote_documents`, published artifacts |
| `audit[o]` | number of `quote.issued` and `quote.issue.failed` events of the operation |
| `slot[p]` | the worker's slot, its fence, `LeaseRenewal` state, attempt stage |
| `selected` | candidates of a running `failDeadlineExceeded` |
| `Accept`, `OperatorRetry`, `CancelQuote` | `issueDraft` and `createIssuanceOperation`, `createOperatorRetry`, `cancelQuote` |
| `Claim`, `ClaimOutcomeUnknown`, `AdoptClaim` | `claim`, with its catch branch split into the lost COMMIT and the read that follows |
| `Renew` | `renewLease` and `LeaseRenewal.renew`; renewed, stale or at the deadline |
| `LoadSnapshot`, `RenderPdf`, `Publish` | the attempt body; each stage looks at the signal when it resumes |
| `CommitIssued`, `CommitNotApplied`, `ReconcileCommit` | `commitIssued`: T5, zero effect, unknown outcome and the one further try |
| `AttemptFails`, `FailAttempt`, `FailAttemptNotApplied` | end of `runAttempt` and `failAttempt` |
| `SweepSelect`, `SweepOperation` | the unlocked select and the transaction per candidate |
| `StartProcess`, `StopProcess`, `EndProcess` | start, `stop()`, exit or crash |

A COMMIT without an answer has two outcomes, applied or not. One that lands even later than the
read that follows is covered too: it looks like an applied claim whose process abandoned it.
`failAttempt`'s reconciliation decides only what is logged, so its two outcomes are the two
actions. Create-and-issue (T4) inserts a draft and freezes it in one transaction; the module has
the freeze, on a draft that exists. The claim's clock is a CTE evaluated before the row lock; the
model reads the clock and the row in one step, which differs only by the wait for a lock
that `skip locked` never waits for. A cancel of an issued quote is always possible here: the
end of validity lies beyond the horizon, and DeliveryExecution models it.

The comment at `issuance-operations.ts:153-157` says that a row leased to this process and unknown
to it can only be the claim just made. It may also be a row that an earlier attempt failed to
release. Here that is harmless: the adopted token is the current one and the commit is fenced.

### DeliveryExecution

The same structure for `quote_deliveries`, with the end of validity, the cancel and its cascade
(T8), the A6.1 check at claim, the send budget, and the provider as an external action:
`ProviderAccepts` may happen for a transmitted message whether or not an answer arrives.
`accepted` counts what the provider accepted; no code reads it. `called` and `readopted` are
history that names the deliveries of the finding below. The sender's outcomes are the classes of
`gmail-mail-sender.ts`: a 2xx is accepted; a proven connection failure, 401, 403 and 429 are taken
to mean that nothing was accepted; 5xx, timeouts and resets are ambiguous. Stored expiry is left
out since every reader goes through the effective status. Operations of both modules meet in the
quote row only, so each module keeps the part of the row that it reads.

### QuoteCommands

One READ COMMITTED transaction per command, one stage of a session for each lock it may wait for:
begun, scoped (advisory lock held, binding read), decided (quote row locked, clock read, checks
passed), then driving or answered. Locks are read off the sessions (`ScopeLocked`, `RowLocked`),
and a session's writes are applied when it commits.

| Model | Code |
|---|---|
| `quote[q]` (status, version, content, creator, number, until, ended, operation) | row of `quotes` with its lines and shipping, and the status of the current operation |
| `binding[sc]` | `idempotency_bindings`, by scope (principal, operation, key hash) |
| `drawn` | `quote_number_seq`, which a rollback does not undo |
| `session[s]` | a request handler and its transaction |
| `effects[sc]` | history: how often a command of the scope took effect |
| `Begin`, `LockScope`, `AnswerFromBinding` | `withIdempotency`: lock, `find`, replay or conflict |
| `Decide`, `Checks` | the checks of each command in the order the code makes them |
| `CreateDraft`, `CreateAndIssue`, `UpdateDraft`, `IssueDraft`, `CancelQuote`, `RequestDelivery`, `Bind` | what each command writes |
| `Commit`, `CommitOutcomeUnknown`, `Reject`, `DatabaseFails` | `withTransaction` and the error handler |
| `AnswerIssuance`, `AnswerReadFails` | `issueInline`, `readIssuanceResult`, the answer |
| `CommitIssued`, `OperationFails`, `OperatorRetry`, `MaterializeExpiry`, `ClaimDelivery` | the other writers of the same rows, each one a transaction |

A quote's content is two parts, lines and shipping, each a value or nothing: enough to tell a
partial edit from a replacement. What the commit of the issuance or the delivery worker does in
detail is in the first two modules; here they only change the row.

`IdempotentCommands` is the abstract promise of a key: one request takes effect under it, once,
and no answer contradicts that. `QuoteLifecycle` is the state machine T1 to T12 on status,
outcome, document and version. QuoteCommands implements both, IssuanceOperations the second;
the refinement mappings are at the end of the modules.

### ArtifactStore

The store on one POSIX file system, one file system call of a client per action: write and sync a
temporary file, make the directories, link, compare what is there, sync the two directories, read
back. Clients are attempts, which then commit a manifest, operator repairs, and verifications,
which scan the manifests by document id in batches. Any call may fail, a client may end
between any two, something else may damage a file, the power may fail. What was not synced may then
be missing: a file's data until its fsync, a directory entry until the fsync of that directory.
Journaling file systems usually keep more; POSIX promises no more. `promised` is history: the
addresses confirmed and not damaged from outside since.

`WriteOnceStore` is the abstract store: an address is empty or holds exactly its bytes, what was
confirmed stays, a manifest names only what was confirmed.

### ServiceRuntime

One process and its surroundings. `up`, `applied`, `recorded` and `migrator` are outside:
dependencies that fail and return, and the migration command of this or another build.
`monitor`, `answer`, `late`, `record` and `schema` are the dependency monitor: its chain of timer
and cycle, the bounded probes of the cycle in flight, the abandoned ones that may still answer, and
what is published. `job` and `request` are the work the gates admit, `shutdown` the steps of the
ordered close. Time is no number: a timer that is set may fire at any moment, so every order of
timers, answers and timeouts is covered and backoff delays are not told apart. The database probe is
two statements, one action each, with migrations in between.

### LegacyMigration, ChargeArithmetic, QuoteReads, ValidityPolicy

Pure algorithms, as operators. LegacyMigration is migration 000007 as a function from V1 tables
(rows as the V1 checks and columns admit) to V2 tables: the staged rows, the ten kinds of
exception that abort it, what it writes and derives, its post-conditions, and the V2 checks and
the trigger that the rows have to meet. A text column is the class of its value (null, fits the V2
contract, odd). Sums are whole pesos; quantities and rates are scaled by `Micro`. `CivilDate` is
any calendar that does not go back. Derived events are told apart from V1's by their origin and come first
among equals; the 24-hour deadline of a migrated operation is one instant later.

ChargeArithmetic is `arithmetic.ts` and the overflow check. QuoteReads has every read of
`quote-v2-reads.ts` as an operator on the snapshot it selects from: visibility, projected expiry,
filters, keyset cursors, pages. The database's ORDER BY is a sequence chosen by what it promises.
ValidityPolicy is `validity.ts`, with the bisection as a recursive function over any calendar.

### Modules for TLC and for proofs

`MC_*` give model values and narrow what the surroundings do (section 3). `MigrationSamples` and
`ReadSamples` compute samples in named ASSUMEs, which TLC evaluates before the runs of MC_Runtime
and MC_Commands, whose modules extend them. `*_proofs` hold theorems. Definitions whose comment
begins with "Mutant" are plausible bugs, used in place of the definition that follows them to see
that each property notices.

## 3. Runs

| Run | Instance | Result |
|---|---|---|
| `issuance_safety` | 1 quote, an operation and a retry, 2 processes, lease 1, deadline 3, clock to 5 | 8 invariants, 2 action properties and the refinement of QuoteLifecycle hold, 0.84 million states |
| `issuance_liveness` | 1 operation, 2 processes | `EventuallyTerminal` holds |
| `issuance_late_commit` | same | `CommitsUnderLiveLease` violated |
| `issuance_shutdown` | same | `ShutdownLetsAttemptsFinish` violated |
| `delivery_safety` | 1 delivery, 2 processes, lease 2, budget 1, 2 attempts, validity 4, clock to 7 | 7 invariants and 1 action property hold, 1.8 million states |
| `delivery_liveness` | 1 delivery, 2 processes, lease 1, validity 2, clock to 4 | `EventuallyResolved` holds |
| `delivery_resend` | 1 process, 3 attempts | `AtMostOneAcceptance` violated |
| `commands_safety` | 2 quotes, 7 keys, 2 sessions, validity 1, clock to 2, 2 numbers | 7 invariants and 2 refinements hold, 0.43 million states |
| `commands_misreported` | same | `NothingCommittedIsTrue` violated |
| `artifact_store` | 2 quotes and a migrated one, 2 addresses under one top directory, 2 clients, batches of 1 | 3 invariants and the refinement of WriteOnceStore hold, 1.2 million states |
| `artifact_power_loss` | same, without the top directory at first | `ManifestsNameBytesThatExist` violated |
| `service_runtime` | database and file store, 2 jobs, 2 builds with 2 and 3 migrations | 2 invariants, 2 action and 2 liveness properties hold, 0.56 million states |

Bounds. Two processes are a holder and its successor; a third adds no new relation between
tokens. An operation and its retry are the longest chain in which both kinds of creation occur.
The deadline must exceed the lease by two for a takeover to happen before it, and the clock must
pass the deadline for the sweep. In the safety run the retry's own deadline is not passed after a
sweep of the first operation; a run with the clock to 7 (8 million states) was checked as well, and
the proofs have no bound. The delivery clock passes validity, leases and retry window, and
validity exceeds the lease by two so that an expired lease could be claimed again if the
code let it. The schedules are short: one delay, then the ceiling.

Two sessions are two requests of one key or of two; the keys are one of each kind of command and a second
edit. `Narrow` in MC_Commands makes the instance the union of two: the life of a
draft, created, edited twice, issued and cancelled, at one instant and without mail; and the life
of a quote created and issued at once, mailed and cancelled, as time passes its validity. In
MC_Artifacts damage hits one of the two published documents, which is the one repairs are for, and a verification
runs beside an attempt only. Two documents share a top directory but no inner one, so one's syncs may or
may not cover the other. In MC_Runtime one dependency fails at a time and leaves at most one
abandoned probe, a migration starts when the service is quiet and ready, and nothing arrives
until its traces have settled. What is narrowed are steps without fairness.

Deadlock is not checked where the system may stop: when the clock has stopped and everything has
ended, and when the process has exited. The liveness runs say that it does not stop before.
The artifact store never stops and its deadlock check is on.

Fairness. Issuance needs only that time passes and that, from some time on, one process is up, whose
sweep runs: `issuanceDeadlineSweep` is a periodic job of every process and needs the database only.
No attempt has to make progress. Deliveries have no deadline, so a process must claim and finish: awaits settle
(each has a timeout), and strong fairness of the claim says that not every COMMIT of a claim loses
its answer. Both assume that the database is reachable often enough for the jobs' gate to be open,
and the delivery run assumes a configured mail sender: without one no send job exists and queued
deliveries wait, as intended. The runtime's fairness is the event loop's: timers fire, a bounded
probe settles (by its answer, its failure or its timeout), jobs and requests end by the timeouts
of their statements, the close takes its next step. Nothing is assumed of dependencies, migrations,
signals or the shutdown deadline. `RecoversByItself` speaks of dependencies that stay good, and a good dependency
is taken to answer before the probe's timeout.

## 4. Where code and documents differ

* Late commit. The recovery document says that a holder commits or fails before its lease expires. The
  commit checks the fence but not the clock; a slow holder commits after lease and deadline
  unless the sweep or another claim came first. Nothing breaks: the same row locks order the two,
  and all invariants hold with late commits included.
* Shutdown. The document says that in-flight attempts finish within the shutdown timeout. The
  worker aborts them; a rendered document is dropped and the lease has to expire before another
  process takes over. `app.ts` and the worker's own comment describe the code.
* Re-sent delivery. A completion that was not recorded leaves the row `sending` under the
  process's lease owner. If the COMMIT of a later claim by that process loses its answer, the
  reconciliation adopts any `sending` row of that owner, so also this one, and sends it again. The
  run shows it within one lease. `AcceptedOnce` and `OutcomeIsTruthful` hold for all other
  deliveries.

* "Nothing was committed". After an acceptance has committed, the answer is built from a further
  read. If the database fails there, the error handler answers 503 with "nothing was committed".
  A client that replays with the same key gets the truth; one that believes the message and sends a
  new key has two quotes.
* Unsynced directory. `publish` syncs `<aa>/<bb>` and `<aa>`. When it has just created `<aa>`, the entry
  of `<aa>` in the root of the store is not synced, and a power failure may drop it after the manifest
  was committed. With `<aa>` on disk, as after the first power cycle, `ManifestsNameBytesThatExist`
  holds, repairs, sweeps and races included.

Smaller differences that no run is about, found by reading:

* A cancel that decided before `validUntil` may commit after it; the state machine calls the
  expired status terminal. The stored instants stay consistent (`EndedHonestly`).
* The documents describe publication as temp file, fsync and atomic rename; the code links.
* The database probe reads migrations and checksums in two statements without a snapshot. Each half
  is true of some instant of the cycle (`NoStaleRecovery`), the pair may be of none.
* `recordChecksums` backfills this build's checksum for a migration that another build applied
  before it crashed.
* Probes that timed out go on in the background, so they are not single-flight as
  `dependency-monitor.ts` says of probes; how many there may be depends on the pool.
* An inline attempt that outlives its request is not awaited by the shutdown.
* Migration 000007 stages the V1 tables one statement at a time without locks, so V1 has to be
  stopped first; no document says so. Some columns reach V2 unvalidated (`display_order`, long
  recipients and provider ids, the characters of `storage_key`, an empty renderer version, V1
  operation names): a value the V2 check refuses then aborts with the raw constraint error and no
  exception report. The document says that a missing file is an exception; SQL cannot see files, the
  verifier does later.
* A migrated `valid_until` has microseconds. The SQL status filter compares them, the projection
  cuts them off, so for less than a millisecond the two differ (`StatusFilterAgrees` has the hypothesis).

## 5. Proofs

Eight modules hold theorems; `PROJECT.json` lists the results. Every safety invariant, action property
and refinement that a passing run checks is also a theorem, for every value of the constants.
Assumptions on constants are named where the constants are declared: that nulls are not members,
that leases and deadlines are positive, that schedules are natural numbers and that tables name what
exists. TLC evaluates them in every run.

Properties are seldom inductive one by one. Each module collects what they need in an inductive
invariant `IInv`, proved once (`InvariantHolds`), and reads its theorems off it. Proofs that a step
keeps `IInv` go through summaries of a step (what may happen to a row, to a slot, to a quote),
each proved once by cases over the actions; conjuncts then follow from the summaries.

* `IssuanceOperations_proofs`. `ManifestMatchesOutcome` goes both ways: a manifest, which names
  published bytes, belongs to a succeeded operation of its quote; a succeeded operation is current
  and has the manifest of its quote, which was issued; an issued quote has one. It needs that a running operation
  has no manifest yet, which needs that a quote with a manifest is no longer issuing, which
  needs that only the current operation may run; and that a rendering at the commit stage was
  published. `IInv` collects these: row checks, schedule, accounting, audit, quotes, manifests,
  successes, `PublishedFirst`, `AttemptsExist` and the tokens. The summaries are `RowStep`, `Quiet`,
  the quote steps and `SlotStep`. TLC checked this `IInv` on the safety run before it was proved.
  `LifecycleHolds` is the refinement of QuoteLifecycle: a step changes the row of one quote at most
  (`OneQuoteSteps`) and each such change is one transition; all others are stutters (`QuietInLife`).
* `DeliveryExecution_proofs`. `IInv` relates the stage of a slot, its token and what the provider
  accepted: before transmission nothing was accepted under the row; a slot that knows an outcome
  knows a true one; a row that is `sending` belongs to its holder or to nobody (`RowsHold`,
  `AttemptsTimely`, `HoldersHold`, `CallsArePast`, `AcceptancesTold`, the audit).
  `AcceptedOnce` and `OutcomeIsTruthful` follow, for all but the deliveries of the finding
  in section 4. `HorizonAssumption` says that the clock goes on past every validity, lease and
  retry window; it bounds the model's clock and nothing else.
* `QuoteCommands_proofs`. What a session decided still holds when it commits: its scope lock and
  its row lock exclude every other writer (`Exclusive`), so the row it read is the row it changes
  (`SessionsHold`), its binding is still missing (`BindingsHold`) and its number is nobody's
  (`NumbersHold`). Both refinements are proved action by action from it. `IssuedAsSeen` also needs
  the past: the content of a version is defined by recursion on the commands bound up to it. That
  this history exists and is the only one (`HistoryExists`, `HistoriesAgree`) is a least-number
  argument (`Least`); that later commands leave it alone is `PastIsKept`.
* `ArtifactStore_proofs`. `Typed`, `DiskHolds` (no file without its directories, after a power
  failure either) and `ClientsHold` (what a client may rely on at its stage) hold without any
  hypothesis, and so does `VerificationMissesNothing`: a batch is the next stretch of the committed
  ids in order (`BatchIsNext`), so the cursor leaves nothing behind. `PromisesHold` (what was confirmed
  is intact and its entries are on disk), `ManifestsNameBytesThatExist` and the refinement of
  WriteOnceStore have the hypothesis `Tops \subseteq TopsAtStart`: the directories `<aa>` are on disk
  from the start. Run `artifact_power_loss` violates the property without it, so it is not
  an artefact of the proof. A store is in that state once all 256 directories have outlived a sync.
* `ServiceRuntime_proofs`. `MonitorHolds` says that what an answer in flight claims was seen since its
  cycle began (`Evidence`), which is `NoStaleRecovery` once it is published; `WorkHolds` says that no work
  is admitted before the bind or left once the pool closes. `RuntimeAssumption` asks that a build's
  manifest is a sequence with a checksum for each migration and contains the one that creates the
  checksum table.
* `ChargeArithmetic_proofs`: the code's integer division is rounding to the nearest, ties upwards, and
  the parts of a charge add up on every basis.
* `LegacyMigration_proofs`: the SQL charge equals the owner's; of any V1 database (`V1Database`, rows
  the V1 tables admit) that the exception report accepts (`Accepted`), the post-conditions hold, and, if
  V1's own code wrote the unvalidated columns (`AsV1Wrote`), every V2 check holds of every migrated
  row. The argument goes table by table from the absence of each exception.
* `QuoteReads_proofs`: pages follow from one lemma on the listing as a sequence in strict order: a row
  is on the page or after its last row, never both. It holds between any two snapshots, since id,
  creation and sequence never change. That the database can order its rows is the hypothesis
  `IsListing`. The same module has the theorems about ValidityPolicy: one turn of the bisection keeps
  the bracket and narrows it, and a bracket of width one ends at the first instant of the date; given the
  result, a quote is valid at exactly the instants of its civil dates.

Model-checked only:

* Liveness (`EventuallyTerminal`, `EventuallyResolved`, `RecoversByItself`, `ShutdownEnds`): fairness and
  ENABLED are outside the prover's reach.
* The refuted claims of section 4: each is a counterexample.
* What a recursive computation yields: that the bisection repeats its turn, and the bound on the sums of
  a quote's lines, need an induction scheme over data. Both are evaluated on the samples.

## 6. Not modelled

* Rendering, MIME and file names, canonical JSON and hashes: text and layout; a rendering is a model value,
  a hash stands for what it hashes.
* Provider health and metrics: nothing decides on them. Principals and configuration: parsed once.
* HTTP headers and body schemas, the delivery and health routes, the glue of scripts and commands.
* The connection pool and the try-lock around maintenance jobs; the guards of lines and shipping
  in migrations 000007 and 000009, which no code path reaches; migrations other than 000007.
* Stored V1 rows that change while the migration reads them (section 4).

What could follow: the guards of lines and shipping with the statements that meet them, a
migration that reads V1 statement by statement beside a V1 writer, and a composition of the
commands with the delivery queue over one quote row.
