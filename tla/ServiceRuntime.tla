--------------------------- MODULE ServiceRuntime ---------------------------
(***************************************************************************)
(* One process of the service and what it depends on: the dependency       *)
(* monitor and the probes it bounds, the schema head and the recorded      *)
(* checksums the database probe compares, the migration command that moves *)
(* them, the readiness gate in front of routes and jobs, the periodic job  *)
(* runners, and the ordered shutdown.                                      *)
(*                                                                         *)
(* Time is not a number here: a timer that is set may fire at any moment,  *)
(* so every order of a timer, an answer and a timeout is covered, and the  *)
(* retry backoff (which only chooses a delay below its maximum) is not     *)
(* told apart from the regular interval.                                   *)
(***************************************************************************)
EXTENDS Naturals, Sequences, SequencesExt

CONSTANTS
  Local,       \* which of artifactStorage and renderer the process probes
  Jobs,        \* the periodic jobs that are composed
  Builds,      \* builds whose migration command an operator may run
  Ours,        \* the build of this process
  Manifest,    \* the ordered migration names packaged with each build
  Checksum,    \* the checksum each build packages for each of its migrations
  Integrity    \* the migration that creates the checksum table

Capability == [issuance |-> "ISSUANCE", emailDelivery |-> "DELIVERY_SEND",
               documentIntegrity |-> "DOCUMENT_READ", expiry |-> "PERSISTENCE",
               issuanceDeadlineSweep |-> "DEADLINE_SWEEP",
               deliveryOutcomeSweep |-> "PERSISTENCE"]

Needs == [PERSISTENCE |-> {}, DEADLINE_SWEEP |-> {}, DELIVERY_REQUEST |-> {},
          DOCUMENT_READ |-> {"artifactStorage"}, DELIVERY_SEND |-> {"artifactStorage"},
          ISSUANCE |-> {"artifactStorage", "renderer"}]

ASSUME RuntimeAssumption ==
  /\ Local \subseteq {"artifactStorage", "renderer"}
  /\ Jobs \subseteq DOMAIN Capability
  /\ Ours \in Builds
  /\ \A b \in Builds : /\ Manifest[b] \in Seq(Range(Manifest[b]))
                       /\ Integrity \in Range(Manifest[b])
                       /\ DOMAIN Checksum[b] = Range(Manifest[b])

VARIABLES
  up,         \* the outside: "up", "down", or "denied" (database: no privilege)
  applied,    \* the migrations applied to the database, in order
  recorded,   \* the checksums recorded for them
  migrator,   \* the migration command: its build and how far it is
  phase,      \* "boot" (first probe cycle), "ready" (may bind), "listening"
  shutdown,   \* how far the ordered shutdown is
  monitor,    \* started, and the chain of timer and cycle that keeps it going
  answer,     \* the cycle in flight: what each bounded probe has come to
  late,       \* dependencies with an abandoned probe that may still answer
  record,     \* the published status of each dependency
  schema,     \* the published state of the schema
  jobsStarted,
  job,        \* each runner: "idle", "timer" or "running"
  request,    \* one request in a handler: "none" or "running"
  seen        \* history: what was so at some instant since the cycle began

outside == <<up, applied, recorded, migrator>>
monitoring == <<monitor, answer, late, record, schema>>
working == <<jobsStarted, job, request>>
vars == <<outside, phase, shutdown, monitoring, working, seen>>

Probed == {"database"} \cup Local
HeadStates == {"SCHEMA_MISSING", "SCHEMA_BEHIND", "SCHEMA_AHEAD_OR_UNKNOWN", "READY"}
IntegrityStates == {"SCHEMA_INTEGRITY_UNVERIFIED", "SCHEMA_INTEGRITY_MISMATCH"}
SchemaStates == HeadStates \cup IntegrityStates
Unanswered == {"asked", "atHead", "stuck"}

NoCycle == [d \in Probed |-> "none"]
InFlight == answer # NoCycle
ShuttingDown == shutdown # "none"
Alive == shutdown # "exited"
NoMigration == [at |-> "idle", build |-> Ours]

(***************************************************************************)
(* The schema head.                                                        *)
(***************************************************************************)

ChecksumTable == Integrity \in Range(applied)

EvaluateSchemaHead ==
  CASE applied = <<>> -> "SCHEMA_MISSING"
    [] applied # <<>> /\ ~IsPrefix(applied, Manifest[Ours]) -> "SCHEMA_AHEAD_OR_UNKNOWN"
    [] applied # <<>> /\ IsStrictPrefix(applied, Manifest[Ours]) -> "SCHEMA_BEHIND"
    [] OTHER -> "READY"

Matches(b, n) == n \in DOMAIN Checksum[b] /\ recorded[n] = Checksum[b][n]

EvaluateMigrationIntegrity ==
  LET names == Range(Manifest[Ours]) IN
  CASE ~ChecksumTable -> "SCHEMA_INTEGRITY_UNVERIFIED"
    [] ChecksumTable /\ \E n \in names \cap DOMAIN recorded : ~Matches(Ours, n)
         -> "SCHEMA_INTEGRITY_MISMATCH"
    [] OTHER -> IF names \subseteq DOMAIN recorded THEN "READY" ELSE "SCHEMA_INTEGRITY_UNVERIFIED"

AtHead == applied = Manifest[Ours]
SumsMatch == \A n \in Range(Manifest[Ours]) : n \in DOMAIN recorded /\ Matches(Ours, n)

(* What is so at this instant, for the history of a cycle. *)
Facts == {d \in Probed : up[d] # "down"} \cup {f \in {"head"} : AtHead} \cup {f \in {"sums"} : SumsMatch}

Observe == seen' = CASE answer' = NoCycle -> {}
                     [] answer' # NoCycle /\ answer = NoCycle -> Facts'
                     [] OTHER -> seen \cup Facts'

(***************************************************************************)
(* The outside: dependencies come and go, an operator runs the migration   *)
(* command of some build, which may be killed between any two of its       *)
(* statements.                                                             *)
(***************************************************************************)

Turns(d, status) ==
  /\ up[d] # status /\ (status = "denied" => d = "database")
  /\ up' = [up EXCEPT ![d] = status]
  /\ UNCHANGED <<applied, recorded, migrator, phase, shutdown, monitoring, working>>

Migrating(at) == migrator.at = at /\ up["database"] = "up"

StartMigration(b) ==
  /\ Migrating("idle")
  /\ ChecksumTable => \A n \in DOMAIN recorded : Matches(b, n)
  /\ migrator' = [at |-> "asserted", build |-> b]
  /\ UNCHANGED <<up, applied, recorded, phase, shutdown, monitoring, working>>

InOrder == \A i \in DOMAIN applied \cap DOMAIN Manifest[migrator.build] :
              applied[i] = Manifest[migrator.build][i]

MigrateUp ==
  /\ Migrating("asserted") /\ InOrder
  /\ applied' = IF Len(applied) < Len(Manifest[migrator.build]) THEN Manifest[migrator.build] ELSE applied
  /\ migrator' = [migrator EXCEPT !.at = "recording"]
  /\ UNCHANGED <<up, recorded, phase, shutdown, monitoring, working>>

MigrateDown ==
  /\ Migrating("asserted") /\ InOrder
  /\ applied # <<>> /\ Last(applied) \in Range(Manifest[migrator.build])
  /\ applied' = Front(applied)
  /\ recorded' = IF Last(applied) = Integrity THEN <<>> ELSE recorded
  /\ migrator' = NoMigration
  /\ UNCHANGED <<up, phase, shutdown, monitoring, working>>

Unrecorded == IF ChecksumTable THEN SelectSeq(applied, LAMBDA n : n \notin DOMAIN recorded) ELSE <<>>

RecordChecksum ==
  /\ Migrating("recording") /\ Unrecorded # <<>>
  /\ LET n == Head(Unrecorded) IN
     /\ n \in DOMAIN Checksum[migrator.build]
     /\ recorded' = [m \in DOMAIN recorded \cup {n} |->
                       IF m = n THEN Checksum[migrator.build][n] ELSE recorded[m]]
  /\ UNCHANGED <<up, applied, migrator, phase, shutdown, monitoring, working>>

(* The command ends: all recorded, refused at a check, or killed. *)
MigratorEnds ==
  /\ migrator.at # "idle" /\ migrator' = NoMigration
  /\ UNCHANGED <<up, applied, recorded, phase, shutdown, monitoring, working>>

(***************************************************************************)
(* The probes. A probe of a dependency that is up answers before its       *)
(* timeout unless it got stuck while the dependency was not (assumption).  *)
(***************************************************************************)

Answers(d, a) == /\ answer' = [answer EXCEPT ![d] = a]
                 /\ UNCHANGED <<outside, phase, shutdown, monitor, late, record, schema, working>>

LocalProbe(d) == /\ d # "database" /\ answer[d] = "asked" /\ up[d] = "up"
                 /\ Answers(d, "ok")

ReadAppliedMigrations ==
  /\ answer["database"] = "asked" /\ up["database"] = "up"
  /\ Answers("database", IF EvaluateSchemaHead = "READY" THEN "atHead" ELSE EvaluateSchemaHead)

ReadRecordedChecksums ==
  /\ answer["database"] = "atHead" /\ up["database"] = "up"
  /\ Answers("database", EvaluateMigrationIntegrity)

PermissionDenied == /\ answer["database"] \in {"asked", "atHead"} /\ up["database"] = "denied"
                    /\ Answers("database", "SCHEMA_AHEAD_OR_UNKNOWN")

ProbeFails(d) == /\ answer[d] \in {"asked", "atHead"} /\ up[d] = "down"
                 /\ Answers(d, "failed")

ProbeHangs(d) == /\ answer[d] \in {"asked", "atHead"} /\ up[d] = "down"
                 /\ Answers(d, "stuck")

(* Mutant: the bound covers only the first wait, not a probe that hangs. *)
BoundsTheConnect(d) ==
  /\ answer[d] = "asked" /\ up[d] = "down"
  /\ answer' = [answer EXCEPT ![d] = "failed"]
  /\ late' = late \cup {d}
  /\ UNCHANGED <<outside, phase, shutdown, monitor, record, schema, working>>

ProbeTimesOut(d) ==
  /\ answer[d] = "stuck"
  /\ answer' = [answer EXCEPT ![d] = "failed"]
  /\ late' = late \cup {d}
  /\ UNCHANGED <<outside, phase, shutdown, monitor, record, schema, working>>

(* Mutant: the answer of an abandoned probe is published. *)
LateAnswerApplied(d) ==
  /\ d \in late /\ late' = late \ {d}
  /\ record' = [record EXCEPT ![d] = "up"]
  /\ UNCHANGED <<outside, phase, shutdown, monitor, answer, schema, working>>

(* Promise.race has settled: whatever an abandoned probe answers is dropped. *)
LateAnswer(d) ==
  /\ d \in late /\ late' = late \ {d}
  /\ UNCHANGED <<outside, phase, shutdown, monitor, answer, record, schema, working>>

(***************************************************************************)
(* The monitor: cycles are single-flight, whoever asks for one joins it.   *)
(***************************************************************************)

ProbeNow == answer' = IF InFlight THEN answer ELSE [d \in Probed |-> "asked"]

Start == /\ monitor' = [started |-> TRUE, chain |-> "timer"]
         /\ jobsStarted' = TRUE
         /\ job' = [j \in Jobs |-> "timer"]

(* Mutant: a timer that finds a cycle in flight gives way, and sets no other. *)
TimerGivesWay ==
  /\ Alive /\ monitor.chain = "timer"
  /\ monitor' = [monitor EXCEPT !.chain = IF InFlight THEN "none" ELSE "waiting"]
  /\ ProbeNow
  /\ UNCHANGED <<outside, phase, shutdown, late, record, schema, working>>

TimerFires ==
  /\ Alive /\ monitor.chain = "timer"
  /\ monitor' = [monitor EXCEPT !.chain = "waiting"]
  /\ ProbeNow
  /\ UNCHANGED <<outside, phase, shutdown, late, record, schema, working>>

ScheduleNext == [monitor EXCEPT !.chain = IF @ # "waiting" THEN @
                                          ELSE IF monitor.started THEN "timer" ELSE "none"]

Published(d) == CASE answer[d] = "failed" -> "down" [] OTHER -> "up"

StopJobs == /\ jobsStarted' = FALSE
            /\ job' = [j \in Jobs |-> IF job[j] = "timer" THEN "idle" ELSE job[j]]

(* runCycle ends: the outcomes are applied together and, in the same turn  *)
(* of the event loop, whoever awaited the cycle goes on: the boot hook,    *)
(* the timer chain, and the shutdown that was waiting for it.              *)
EndCycle ==
  /\ Alive /\ InFlight /\ \A d \in Probed : answer[d] \notin Unanswered
  /\ record' = [d \in Probed |-> Published(d)]
  /\ schema' = IF answer["database"] = "failed" THEN "DB_UNAVAILABLE" ELSE answer["database"]
  /\ answer' = NoCycle
  /\ monitor' = ScheduleNext
  /\ phase' = IF phase = "boot" THEN "ready" ELSE phase
  /\ IF shutdown = "monitor"
     THEN shutdown' = "jobs" /\ StopJobs
     ELSE UNCHANGED <<shutdown, jobsStarted, job>>
  /\ UNCHANGED <<outside, late, request>>

(* Mutant: the gate looks at the dependencies only. *)
GateWithoutLifecycle(c) ==
  CASE record["database"] # "up" -> "database"
    [] record["database"] = "up" /\ schema # "READY" -> "schema"
    [] OTHER -> IF \E d \in Needs[c] \cap Local : record[d] # "up" THEN "dependency" ELSE "open"

(* The first failing requirement, in the order of the code. *)
Gate(c) ==
  CASE ShuttingDown -> "lifecycle"
    [] ~ShuttingDown /\ record["database"] # "up" -> "database"
    [] ~ShuttingDown /\ record["database"] = "up" /\ schema # "READY" -> "schema"
    [] OTHER -> IF \E d \in Needs[c] \cap Local : record[d] # "up" THEN "dependency" ELSE "open"

Ready == /\ ~ShuttingDown /\ schema = "READY"
         /\ \A d \in Probed : record[d] = "up"

(***************************************************************************)
(* The jobs and the requests.                                              *)
(***************************************************************************)

(* A runner's timer fires: one gated iteration, or a skip and the next timer. *)
JobTimerFires(j) ==
  /\ Alive /\ job[j] = "timer" /\ Gate(Capability[j]) = "open"
  /\ job' = [job EXCEPT ![j] = "running"]
  /\ UNCHANGED <<outside, phase, shutdown, monitoring, jobsStarted, request>>

JobEnds(j) ==
  /\ Alive /\ job[j] = "running"
  /\ job' = [job EXCEPT ![j] = IF jobsStarted THEN "timer" ELSE "idle"]
  /\ UNCHANGED <<outside, phase, shutdown, monitoring, jobsStarted, request>>

Serving == Alive /\ phase = "listening" /\ shutdown \notin {"draining", "closed"}

RequestAdmitted(c) ==
  /\ Serving /\ request = "none" /\ Gate(c) = "open"
  /\ request' = "running"
  /\ UNCHANGED <<outside, phase, shutdown, monitoring, jobsStarted, job>>

RequestEnds ==
  /\ Alive /\ request = "running" /\ request' = "none"
  /\ UNCHANGED <<outside, phase, shutdown, monitoring, jobsStarted, job>>

(* requestProbe (throttled, so it may also do nothing): after an answer    *)
(* dependency_unavailable, or when a pooled connection breaks.             *)
RequestProbe ==
  /\ ~InFlight /\ ProbeNow
  /\ UNCHANGED <<outside, phase, shutdown, monitor, late, record, schema, jobsStarted, job>>

RefusalHints(c) == /\ Serving /\ Gate(c) \notin {"open", "schema"}
                   /\ RequestProbe /\ UNCHANGED request

RequestFails == /\ Alive /\ request = "running" /\ up["database"] = "down"
                /\ RequestProbe /\ request' = "none"

ConnectionBreaks == /\ Alive /\ phase # "boot" /\ shutdown # "closed" /\ up["database"] = "down"
                    /\ RequestProbe /\ UNCHANGED request

(***************************************************************************)
(* Start and ordered shutdown.                                             *)
(***************************************************************************)

(* onListen starts the monitor and the jobs. The framework may complete a  *)
(* bind that was under way when the close began.                           *)
Listen ==
  /\ Alive /\ phase = "ready"
  /\ phase' = "listening"
  /\ Start
  /\ UNCHANGED <<outside, shutdown, answer, late, record, schema, request>>

(* A signal, a programmer error, or a bind that failed: terminate(). *)
Terminate ==
  /\ shutdown = "none" /\ shutdown' = "flagged"
  /\ UNCHANGED <<outside, phase, monitoring, working>>

(* Mutant: the monitor is marked stopped and its timer left set. *)
StopsWithoutClearing == [monitor EXCEPT !.started = FALSE]

StopMonitor == [started |-> FALSE, chain |-> IF monitor.chain = "timer" THEN "none" ELSE monitor.chain]

(* preClose: stop the workers, stop the monitor and wait for its cycle, then stop the jobs. *)
PreClose ==
  /\ shutdown = "flagged" /\ phase # "boot"
  /\ monitor' = StopMonitor
  /\ IF InFlight THEN shutdown' = "monitor" /\ UNCHANGED <<jobsStarted, job>>
                 ELSE shutdown' = "jobs" /\ StopJobs
  /\ UNCHANGED <<outside, phase, answer, late, record, schema, request>>

(* Mutant: the timers are stopped, the iterations under way are not awaited. *)
JobsAbandoned ==
  /\ shutdown = "jobs" /\ shutdown' = "draining"
  /\ UNCHANGED <<outside, phase, monitoring, working>>

JobsStopped ==
  /\ shutdown = "jobs" /\ \A j \in Jobs : job[j] # "running"
  /\ shutdown' = "draining"
  /\ UNCHANGED <<outside, phase, monitoring, working>>

(* The HTTP server has drained; onClose closes the pool. *)
OnClose ==
  /\ shutdown = "draining" /\ request = "none"
  /\ shutdown' = "closed"
  /\ UNCHANGED <<outside, phase, monitoring, working>>

Exit ==
  /\ shutdown = "closed" /\ shutdown' = "exited"
  /\ UNCHANGED <<outside, phase, monitoring, working>>

DeadlinePasses ==
  /\ shutdown \notin {"none", "closed", "exited"} /\ shutdown' = "exited"
  /\ UNCHANGED <<outside, phase, monitoring, working>>

(***************************************************************************)
(* The specification.                                                      *)
(***************************************************************************)

Init ==
  /\ up \in [Probed -> {"up", "down"}]
  /\ \/ applied = <<>> /\ recorded = <<>>
     \/ applied = Manifest[Ours] /\ recorded = Checksum[Ours]
  /\ migrator = NoMigration
  /\ phase = "boot" /\ shutdown = "none"
  /\ monitor = [started |-> FALSE, chain |-> "none"]
  /\ answer = [d \in Probed |-> "asked"] /\ late = {}
  /\ record = [d \in Probed |-> "unknown"] /\ schema = "UNKNOWN"
  /\ jobsStarted = FALSE /\ job = [j \in Jobs |-> "idle"]
  /\ request = "none"
  /\ seen = Facts

Outside == \/ \E d \in Probed, status \in {"up", "down", "denied"} : Turns(d, status)
           \/ \E b \in Builds : StartMigration(b)
           \/ MigrateUp \/ MigrateDown \/ RecordChecksum \/ MigratorEnds

ProbeSettles(d) == /\ Alive
                   /\ \/ LocalProbe(d) \/ ProbeFails(d) \/ ProbeTimesOut(d)
                      \/ d = "database" /\ (ReadAppliedMigrations \/ ReadRecordedChecksums \/ PermissionDenied)

Monitoring == \/ \E d \in Probed : ProbeSettles(d)
              \/ \E d \in Probed : Alive /\ (ProbeHangs(d) \/ LateAnswer(d))
              \/ TimerFires \/ EndCycle

Working == \/ \E j \in Jobs : JobTimerFires(j) \/ JobEnds(j)
           \/ \E c \in DOMAIN Needs : RequestAdmitted(c) \/ RefusalHints(c)
           \/ RequestEnds \/ RequestFails \/ ConnectionBreaks

Closing == PreClose \/ JobsStopped \/ OnClose \/ Exit

Next == /\ Outside \/ Monitoring \/ Working \/ Listen \/ Terminate \/ Closing \/ DeadlinePasses
        /\ Observe

(* Timers fire, bounded probes settle, statements and requests are bounded *)
(* by their timeouts, and the event loop runs what is due. Nothing is      *)
(* assumed of the outside, of the signal or of the shutdown deadline.      *)
Fairness ==
  /\ \A d \in Probed : WF_vars(ProbeSettles(d) /\ Observe)
  /\ WF_vars(EndCycle /\ Observe) /\ WF_vars(TimerFires /\ Observe)
  /\ \A j \in Jobs : WF_vars(JobTimerFires(j) /\ Observe) /\ WF_vars(JobEnds(j) /\ Observe)
  /\ WF_vars(RequestEnds /\ Observe) /\ WF_vars(Listen /\ Observe) /\ WF_vars(Closing /\ Observe)

Spec == Init /\ [][Next]_vars /\ Fairness

(***************************************************************************)
(* Properties.                                                             *)
(***************************************************************************)

(* Types, and how the parts go together: a timer is only set while its     *)
(* owner is started, and work is only under way once the socket is bound.  *)
TypeOK ==
  /\ up \in [Probed -> {"up", "down", "denied"}]
  /\ DOMAIN recorded \subseteq UNION {Range(Manifest[b]) : b \in Builds}
  /\ ~ChecksumTable => recorded = <<>>
  /\ migrator \in [at : {"idle", "asserted", "recording"}, build : Builds]
  /\ phase \in {"boot", "ready", "listening"}
  /\ shutdown \in {"none", "flagged", "monitor", "jobs", "draining", "closed", "exited"}
  /\ monitor \in [started : BOOLEAN, chain : {"none", "timer", "waiting"}]
  /\ answer \in [Probed -> {"none", "ok", "failed"} \cup Unanswered \cup SchemaStates]
  /\ (\E d \in Probed : answer[d] = "none") => ~InFlight
  /\ late \subseteq Probed
  /\ record \in [Probed -> {"unknown", "up", "down"}]
  /\ schema \in SchemaStates \cup {"UNKNOWN", "DB_UNAVAILABLE"}
  /\ job \in [Jobs -> {"idle", "timer", "running"}]
  /\ request \in {"none", "running"}
  /\ monitor.chain = "timer" => monitor.started
  /\ monitor.chain = "waiting" => InFlight
  /\ \A j \in Jobs : job[j] = "timer" => jobsStarted
  /\ phase # "listening" => request = "none" /\ \A j \in Jobs : job[j] = "idle"

(* A status is never published from a stale answer: whenever the monitor   *)
(* changes or confirms what it publishes, a dependency it calls up was     *)
(* reachable, and a schema it calls READY was at this build's head and     *)
(* recorded with this build's checksums, at some instant since that cycle  *)
(* began, although probes hang, time out and answer late, and migrations   *)
(* run between the probe's two reads.                                      *)
NoStaleRecovery ==
  [][record' # record \/ schema' # schema \/ (InFlight /\ ~InFlight')
       => /\ {d \in Probed : record'[d] = "up"} \subseteq seen
          /\ schema' = "READY" => {"head", "sums"} \subseteq seen]_vars

Busy == {j \in Jobs : job[j] = "running"} \cup {r \in {"request"} : request = "running"}

(* Once shutdown has been asked for, no job iteration and no request is    *)
(* ever admitted again, even when the bind completes after the close began *)
(* and starts the timers anew.                                             *)
QuietAfterShutdown == [][ShuttingDown => Busy' \subseteq Busy]_vars

(* The pool is closed only after every iteration and every request that    *)
(* was under way has ended: none loses its connection to an orderly close. *)
NothingRunsAfterClose == shutdown = "closed" => Busy = {}

Healthy == /\ \A d \in Probed : up[d] = "up"
           /\ AtHead /\ SumsMatch

(* Recovery needs no restart: if the dependencies and the schema are good  *)
(* from some point on and nobody stops the process, it becomes ready, and  *)
(* every job runs again and again.                                         *)
RecoversByItself ==
  <>[](Healthy /\ ~ShuttingDown) => <>[]Ready /\ \A j \in Jobs : []<>(job[j] = "running")

(* A shutdown that was asked for ends by its own steps: nothing it waits   *)
(* for (the cycle in flight, iterations, requests) can hold it up for      *)
(* ever, so the deadline is a bound and not what ends it.                  *)
ShutdownEnds == shutdown = "flagged" ~> shutdown = "exited"
=============================================================================
