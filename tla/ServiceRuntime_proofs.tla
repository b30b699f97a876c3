------------------------ MODULE ServiceRuntime_proofs ------------------------
(***************************************************************************)
(* Proofs about ServiceRuntime, for every choice of probed dependencies,   *)
(* jobs, builds, migrations and checksums.                                 *)
(*                                                                         *)
(* The inductive invariant has a part for the database and its migration   *)
(* command, one for the monitor, with the evidence every answer of the     *)
(* cycle in flight rests on, and one for the work and the shutdown.        *)
(***************************************************************************)
EXTENDS ServiceRuntime, SequenceTheorems, TLAPS

Names == UNION {Range(Manifest[b]) : b \in Builds}

(* The database: migrations are applied in a sequence, checksums recorded  *)
(* in their table.                                                         *)
OutsideHolds ==
  /\ up \in [Probed -> {"up", "down", "denied"}]
  /\ applied \in Seq(Names)
  /\ DOMAIN recorded \subseteq Names
  /\ ~ChecksumTable => recorded = <<>>
  /\ migrator \in [at : {"idle", "asserted", "recording"}, build : Builds]

(* What a probe has come to, and what must have been so for it.            *)
Outcomes == {"ok", "failed"} \cup Unanswered \cup SchemaStates
Reached == {"ok", "atHead"} \cup SchemaStates

Evidence ==
  /\ \A d \in Probed : answer[d] \in Reached => d \in seen
  /\ answer["database"] \in {"atHead", "READY"} => "head" \in seen
  /\ answer["database"] = "READY" => "sums" \in seen

AnswersHold ==
  /\ answer = NoCycle \/ answer \in [Probed -> Outcomes]
  /\ answer["database"] # "ok"
  /\ Evidence

MonitorHolds ==
  /\ AnswersHold
  /\ late \subseteq Probed
  /\ record \in [Probed -> {"unknown", "up", "down"}]
  /\ schema \in SchemaStates \cup {"UNKNOWN", "DB_UNAVAILABLE"}
  /\ monitor \in [started : BOOLEAN, chain : {"none", "timer", "waiting"}]
  /\ monitor.chain = "timer" => monitor.started
  /\ monitor.chain = "waiting" => InFlight

(* The work: none before the bind, none left once the process goes on to   *)
(* close what it uses.                                                     *)
WorkHolds ==
  /\ phase \in {"boot", "ready", "listening"}
  /\ shutdown \in {"none", "flagged", "monitor", "jobs", "draining", "closed", "exited"}
  /\ jobsStarted \in BOOLEAN
  /\ job \in [Jobs -> {"idle", "timer", "running"}]
  /\ request \in {"none", "running"}
  /\ \A j \in Jobs : job[j] = "timer" => jobsStarted
  /\ phase # "listening" => request = "none" /\ \A j \in Jobs : job[j] = "idle"
  /\ shutdown \in {"draining", "closed"} => \A j \in Jobs : job[j] # "running"
  /\ shutdown = "closed" => request = "none"

IInv == OutsideHolds /\ MonitorHolds /\ WorkHolds

-----------------------------------------------------------------------------
(* The database.                                                           *)

LEMMA NamesFacts ==
    ASSUME NEW b \in Builds
    PROVE  /\ Manifest[b] \in Seq(Names)
           /\ Integrity \in Range(Manifest[b])
           /\ DOMAIN Checksum[b] \subseteq Names
  <1>1. Range(Manifest[b]) \subseteq Names
    BY DEF Names
  <1>2. Seq(Range(Manifest[b])) \subseteq Seq(Names)
    BY <1>1, SeqMonotonic
  <1> QED BY <1>1, <1>2, RuntimeAssumption DEF RuntimeAssumption

(* Taking the last migration off leaves the others.                        *)
LEMMA FrontKeeps ==
    ASSUME NEW S, NEW s \in Seq(S), s # <<>>
    PROVE  /\ Front(s) \in Seq(S)
           /\ Range(s) \subseteq Range(Front(s)) \cup {Last(s)}
  <1>1. Len(s) \in Nat \ {0} /\ DOMAIN s = 1..Len(s)
    BY EmptySeq, LenProperties
  <1>2. /\ Front(s) \in Seq(S) /\ DOMAIN Front(s) = 1..(Len(s) - 1)
        /\ \A i \in 1..(Len(s) - 1) : Front(s)[i] = s[i]
    BY <1>1 DEF Front
  <1> QED BY <1>1, <1>2 DEF Range, Last

LEMMA OutsideStep == ASSUME OutsideHolds, [Next]_vars PROVE OutsideHolds'
  <1>1. CASE UNCHANGED outside
    BY <1>1 DEF OutsideHolds, ChecksumTable, outside
  <1>2. CASE \E d \in Probed, status \in {"up", "down", "denied"} : Turns(d, status)
    BY <1>2 DEF OutsideHolds, ChecksumTable, Turns
  <1>3. ASSUME NEW b \in Builds, StartMigration(b) PROVE OutsideHolds'
    BY <1>3 DEF OutsideHolds, ChecksumTable, StartMigration
  <1>4. CASE MigrateUp
    <2>1. PICK b \in Builds : b = migrator.build
      BY DEF OutsideHolds
    <2>2. applied' \in {applied, Manifest[b]} /\ UNCHANGED <<up, recorded>>
          /\ migrator' = [migrator EXCEPT !.at = "recording"]
      BY <1>4, <2>1 DEF MigrateUp
    <2>3. applied' \in Seq(Names) /\ (ChecksumTable => Integrity \in Range(applied'))
      BY <2>2, NamesFacts DEF OutsideHolds, ChecksumTable
    <2> QED BY <2>2, <2>3 DEF OutsideHolds, ChecksumTable
  <1>5. CASE MigrateDown
    <2>1. applied' \in Seq(Names) /\ Range(applied) \subseteq Range(applied') \cup {Last(applied)}
      BY <1>5, FrontKeeps DEF OutsideHolds, MigrateDown
    <2>2. ~ChecksumTable' => recorded' = <<>>
      BY <1>5, <2>1 DEF OutsideHolds, ChecksumTable, MigrateDown
    <2>3. DOMAIN recorded' \subseteq Names
      BY <1>5 DEF OutsideHolds, MigrateDown
    <2>4. migrator' = [at |-> "idle", build |-> Ours] /\ up' = up
      BY <1>5 DEF MigrateDown, NoMigration
    <2> QED BY <2>1, <2>2, <2>3, <2>4, RuntimeAssumption DEF OutsideHolds, RuntimeAssumption
  <1>6. CASE RecordChecksum
    <2>1. ChecksumTable /\ UNCHANGED <<up, applied, migrator>>
      BY <1>6 DEF RecordChecksum, Unrecorded
    <2>2. PICK n \in DOMAIN Checksum[migrator.build] : DOMAIN recorded' = DOMAIN recorded \cup {n}
      BY <1>6 DEF RecordChecksum
    <2>3. DOMAIN recorded' \subseteq Names
      BY <2>2, NamesFacts DEF OutsideHolds
    <2> QED BY <2>1, <2>3 DEF OutsideHolds, ChecksumTable
  <1>7. CASE MigratorEnds
    BY <1>7, RuntimeAssumption
    DEF OutsideHolds, ChecksumTable, MigratorEnds, NoMigration, RuntimeAssumption
  <1>8. \/ UNCHANGED outside \/ Outside
    BY DEF Next, vars, Monitoring, ProbeSettles, LocalProbe, ProbeFails, ProbeTimesOut,
           ReadAppliedMigrations, ReadRecordedChecksums, PermissionDenied, Answers, ProbeHangs,
           LateAnswer, TimerFires, EndCycle, Working, JobTimerFires, JobEnds, RequestAdmitted,
           RefusalHints, RequestProbe, RequestEnds, RequestFails, ConnectionBreaks, Listen,
           Terminate, Closing, PreClose, JobsStopped, OnClose, Exit, DeadlinePasses
  <1> QED BY <1>1, <1>2, <1>3, <1>4, <1>5, <1>6, <1>7, <1>8 DEF Outside

-----------------------------------------------------------------------------
(* The monitor.                                                            *)

LEMMA Databases == "database" \in Probed
  BY DEF Probed

(* What a step sees is added to what its cycle saw.                        *)
LEMMA Observed ==
    ASSUME Observe, answer' # NoCycle
    PROVE  /\ Facts' \subseteq seen'
           /\ answer # NoCycle => seen \subseteq seen'
  <1>1. CASE answer = NoCycle
    BY <1>1 DEF Observe
  <1>2. CASE answer # NoCycle
    BY <1>2 DEF Observe
  <1> QED BY <1>1, <1>2

(* A cycle in flight that nobody answers keeps its evidence; a new one has *)
(* nothing to account for.                                                 *)
LEMMA EvidenceKept ==
    ASSUME AnswersHold, Observe, answer' \in {answer, NoCycle}
    PROVE  AnswersHold'
  <1>1. CASE answer' = NoCycle
    BY <1>1, Databases
    DEF AnswersHold, Evidence, NoCycle, Probed, Reached, SchemaStates, HeadStates, IntegrityStates
  <1>2. CASE answer' = answer /\ answer # NoCycle
    <2>1. seen \subseteq seen'
      BY <1>2, Observed
    <2> QED BY <1>2, <2>1 DEF AnswersHold, Evidence
  <1> QED BY <1>1, <1>2

LEMMA CycleBegins ==
    ASSUME AnswersHold, Observe, ProbeNow
    PROVE  AnswersHold' /\ InFlight'
  <1>1. CASE InFlight
    BY <1>1, EvidenceKept DEF ProbeNow, InFlight, NoCycle, Probed
  <1>2. CASE ~InFlight
    <2>1. answer' = [d \in Probed |-> "asked"]
      BY <1>2 DEF ProbeNow
    <2>2. \A d \in Probed : answer'[d] = "asked"
      BY <2>1
    <2>3. answer' # NoCycle
      BY <2>2, Databases DEF NoCycle
    <2>4. NoCycle' = NoCycle
      BY DEF NoCycle, Probed
    <2>5. "asked" \in Outcomes \ Reached
      BY DEF Outcomes, Reached, Unanswered, SchemaStates, HeadStates, IntegrityStates
    <2> QED BY <2>1, <2>2, <2>3, <2>4, <2>5, Databases DEF AnswersHold, Evidence, InFlight
  <1> QED BY <1>1, <1>2

LEMMA AnswerKept ==
    ASSUME AnswersHold, Observe, NEW d \in Probed, NEW a \in Outcomes,
           answer[d] # "none", answer' = [answer EXCEPT ![d] = a],
           a \in Reached => d \in Facts',
           d = "database" => a # "ok",
           d = "database" /\ a \in {"atHead", "READY"} =>
              "head" \in Facts' \/ answer[d] = "atHead",
           a = "READY" => "sums" \in Facts'
    PROVE  AnswersHold' /\ InFlight'
  <1>1. answer \in [Probed -> Outcomes] /\ answer # NoCycle
    BY DEF AnswersHold, NoCycle
  <1>2. answer' \in [Probed -> Outcomes] /\ answer'[d] = a
        /\ \A e \in Probed \ {d} : answer'[e] = answer[e]
    BY <1>1
  <1>3. "none" \notin Outcomes /\ NoCycle' = NoCycle
    BY DEF Outcomes, Unanswered, SchemaStates, HeadStates, IntegrityStates, NoCycle, Probed
  <1>4. answer' # NoCycle
    BY <1>2, <1>3 DEF NoCycle
  <1>5. Facts' \subseteq seen' /\ seen \subseteq seen'
    BY <1>1, <1>4, Observed
  <1>6. \A e \in Probed : answer'[e] \in Reached => e \in seen'
    BY <1>2, <1>5 DEF AnswersHold, Evidence
  <1>7. answer'["database"] \in {"atHead", "READY"} => "head" \in seen'
    BY <1>2, <1>5, Databases DEF AnswersHold, Evidence
  <1>8. answer'["database"] = "READY" => "sums" \in seen'
    BY <1>2, <1>5, Databases DEF AnswersHold, Evidence
  <1>9. answer'["database"] # "ok"
    BY <1>2, Databases DEF AnswersHold
  <1> QED BY <1>2, <1>3, <1>4, <1>6, <1>7, <1>8, <1>9 DEF AnswersHold, Evidence, InFlight

LEMMA HeadEvaluated ==
    /\ EvaluateSchemaHead \in HeadStates
    /\ EvaluateSchemaHead = "READY" => AtHead
  <1>1. CASE applied = <<>>
    BY <1>1 DEF EvaluateSchemaHead, HeadStates
  <1>2. CASE applied # <<>> /\ ~IsPrefix(applied, Manifest[Ours])
    BY <1>2 DEF EvaluateSchemaHead, HeadStates
  <1>3. CASE applied # <<>> /\ IsPrefix(applied, Manifest[Ours]) /\ applied # Manifest[Ours]
    BY <1>3 DEF EvaluateSchemaHead, HeadStates, IsStrictPrefix
  <1>4. CASE applied # <<>> /\ applied = Manifest[Ours]
    <2>1. EvaluateSchemaHead \in HeadStates
      BY <1>4 DEF EvaluateSchemaHead, HeadStates
    <2> QED BY <1>4, <2>1 DEF AtHead
  <1> QED BY <1>1, <1>2, <1>3, <1>4

LEMMA IntegrityEvaluated ==
    /\ EvaluateMigrationIntegrity \in IntegrityStates \cup {"READY"}
    /\ EvaluateMigrationIntegrity = "READY" => SumsMatch
  <1> DEFINE names == Range(Manifest[Ours])
             mismatch == \E n \in names \cap DOMAIN recorded : ~Matches(Ours, n)
  <1>1. EvaluateMigrationIntegrity =
          CASE ~ChecksumTable -> "SCHEMA_INTEGRITY_UNVERIFIED"
            [] ChecksumTable /\ mismatch -> "SCHEMA_INTEGRITY_MISMATCH"
            [] OTHER -> IF names \subseteq DOMAIN recorded THEN "READY" ELSE "SCHEMA_INTEGRITY_UNVERIFIED"
    BY DEF EvaluateMigrationIntegrity
  <1>2. ~mismatch /\ names \subseteq DOMAIN recorded => SumsMatch
    BY DEF SumsMatch
  <1> HIDE DEF mismatch, names
  <1>3. CASE ~ChecksumTable
    BY <1>1, <1>3 DEF IntegrityStates
  <1>4. CASE ChecksumTable /\ mismatch
    BY <1>1, <1>4 DEF IntegrityStates
  <1>5. CASE ChecksumTable /\ ~mismatch
    BY <1>1, <1>2, <1>5 DEF IntegrityStates
  <1> QED BY <1>3, <1>4, <1>5

(* The answers of the cycle in flight, one probe at a time.                *)
LEMMA ProbeStep ==
    ASSUME AnswersHold, Observe, NEW d \in Probed,
           \/ LocalProbe(d) \/ ProbeFails(d) \/ ProbeHangs(d) \/ ProbeTimesOut(d)
           \/ d = "database" /\ (ReadAppliedMigrations \/ ReadRecordedChecksums \/ PermissionDenied)
    PROVE  AnswersHold' /\ InFlight'
  <1> USE DEF Outcomes, Reached, Unanswered, SchemaStates, HeadStates, IntegrityStates
  <1>1. CASE LocalProbe(d)
    <2>1. /\ d # "database" /\ answer[d] = "asked" /\ answer' = [answer EXCEPT ![d] = "ok"]
          /\ up'[d] = "up"
      BY <1>1 DEF LocalProbe, Answers, outside
    <2>2. d \in Facts'
      BY <2>1 DEF Facts
    <2> QED BY <2>1, <2>2, AnswerKept
  <1>2. CASE ProbeFails(d) \/ ProbeTimesOut(d)
    <2>1. answer[d] \in {"asked", "atHead", "stuck"} /\ answer' = [answer EXCEPT ![d] = "failed"]
      BY <1>2 DEF ProbeFails, ProbeTimesOut, Answers
    <2> QED BY <2>1, AnswerKept
  <1>3. CASE ProbeHangs(d)
    <2>1. answer[d] \in {"asked", "atHead"} /\ answer' = [answer EXCEPT ![d] = "stuck"]
      BY <1>3 DEF ProbeHangs, Answers
    <2> QED BY <2>1, AnswerKept
  <1>4. CASE d = "database" /\ ReadAppliedMigrations
    <2> DEFINE a == IF EvaluateSchemaHead = "READY" THEN "atHead" ELSE EvaluateSchemaHead
    <2>1. /\ answer[d] = "asked" /\ answer' = [answer EXCEPT ![d] = a]
          /\ up'[d] = "up" /\ applied' = applied
      BY <1>4 DEF ReadAppliedMigrations, Answers, outside
    <2>2. d \in Facts' /\ (EvaluateSchemaHead = "READY" => "head" \in Facts')
      BY <2>1, HeadEvaluated DEF Facts, AtHead
    <2>3. a \in Outcomes /\ a \notin {"ok", "READY"}
          /\ (a = "atHead" => EvaluateSchemaHead = "READY")
      BY HeadEvaluated
    <2> HIDE DEF a
    <2> QED BY <2>1, <2>2, <2>3, AnswerKept
  <1>5. CASE d = "database" /\ ReadRecordedChecksums
    <2> DEFINE a == EvaluateMigrationIntegrity
    <2>1. /\ answer[d] = "atHead" /\ answer' = [answer EXCEPT ![d] = a]
          /\ up'[d] = "up" /\ recorded' = recorded
      BY <1>5 DEF ReadRecordedChecksums, Answers, outside
    <2>2. d \in Facts' /\ (a = "READY" => "sums" \in Facts')
      BY <2>1, IntegrityEvaluated DEF Facts, SumsMatch, Matches
    <2>3. a \in IntegrityStates \cup {"READY"}
      BY IntegrityEvaluated
    <2> HIDE DEF a
    <2> QED BY <2>1, <2>2, <2>3, AnswerKept
  <1>6. CASE d = "database" /\ PermissionDenied
    <2>1. /\ answer[d] \in {"asked", "atHead"} /\ up'[d] = "denied"
          /\ answer' = [answer EXCEPT ![d] = "SCHEMA_AHEAD_OR_UNKNOWN"]
      BY <1>6 DEF PermissionDenied, Answers, outside
    <2>2. d \in Facts'
      BY <2>1 DEF Facts
    <2> QED BY <2>1, <2>2, AnswerKept
  <1> QED BY <1>1, <1>2, <1>3, <1>4, <1>5, <1>6

(* Whatever is not the monitor's leaves what it publishes; a step ends a   *)
(* cycle or lets it go on.                                                 *)
LEMMA MonitorCases ==
    ASSUME [Next]_vars
    PROVE  \/ UNCHANGED <<monitoring, seen>>
           \/ /\ Observe
              /\ \/ UNCHANGED monitoring
                 \/ \E d \in Probed :
                       /\ \/ LocalProbe(d) \/ ProbeFails(d) \/ ProbeHangs(d) \/ ProbeTimesOut(d)
                          \/ d = "database"
                             /\ (ReadAppliedMigrations \/ ReadRecordedChecksums \/ PermissionDenied)
                 \/ \E d \in Probed : LateAnswer(d)
                 \/ TimerFires \/ EndCycle \/ Listen \/ PreClose
                 \/ RequestProbe
  <1>1. CASE Outside \/ Terminate \/ DeadlinePasses \/ JobsStopped \/ OnClose \/ Exit
    BY <1>1
    DEF Next, vars, Outside, Turns, StartMigration, MigrateUp, MigrateDown, RecordChecksum,
        MigratorEnds, Terminate, DeadlinePasses, JobsStopped, OnClose, Exit
  <1>2. CASE Monitoring
    BY <1>2 DEF Next, vars, Monitoring, ProbeSettles
  <1>3. CASE Working
    BY <1>3
    DEF Next, vars, Working, JobTimerFires, JobEnds, RequestAdmitted, RefusalHints, RequestEnds,
        RequestFails, ConnectionBreaks
  <1>4. CASE UNCHANGED vars
    BY <1>4 DEF vars
  <1> QED BY <1>1, <1>2, <1>3, <1>4 DEF Next, Closing

LEMMA MonitorStep ==
    ASSUME MonitorHolds, [Next]_vars
    PROVE  MonitorHolds'
  <1>1. CASE UNCHANGED <<monitoring, seen>>
    BY <1>1 DEF MonitorHolds, AnswersHold, Evidence, monitoring, InFlight, NoCycle, Probed
  <1>2. CASE Observe /\ UNCHANGED monitoring
    <2>1. AnswersHold'
      BY <1>2, EvidenceKept DEF MonitorHolds, monitoring
    <2> QED BY <1>2, <2>1 DEF MonitorHolds, monitoring, InFlight, NoCycle, Probed
  <1>3. ASSUME NEW d \in Probed, Observe,
               \/ LocalProbe(d) \/ ProbeFails(d) \/ ProbeHangs(d) \/ ProbeTimesOut(d)
               \/ d = "database"
                  /\ (ReadAppliedMigrations \/ ReadRecordedChecksums \/ PermissionDenied)
        PROVE  MonitorHolds'
    <2>1. AnswersHold' /\ InFlight'
      BY <1>3, ProbeStep DEF MonitorHolds
    <2>2. UNCHANGED <<monitor, record, schema>> /\ late' \subseteq late \cup {d}
      BY <1>3
      DEF LocalProbe, ProbeFails, ProbeHangs, ProbeTimesOut, ReadAppliedMigrations,
          ReadRecordedChecksums, PermissionDenied, Answers
    <2> QED BY <2>1, <2>2 DEF MonitorHolds, Probed
  <1>4. ASSUME NEW d \in Probed, Observe, LateAnswer(d) PROVE MonitorHolds'
    <2>1. AnswersHold'
      BY <1>4, EvidenceKept DEF MonitorHolds, LateAnswer
    <2> QED BY <1>4, <2>1 DEF MonitorHolds, LateAnswer, InFlight, NoCycle, Probed
  <1>5. CASE Observe /\ TimerFires
    <2>1. AnswersHold' /\ InFlight'
      BY <1>5, CycleBegins DEF MonitorHolds, TimerFires
    <2>2. monitor' = [started |-> monitor.started, chain |-> "waiting"]
      BY <1>5 DEF MonitorHolds, TimerFires
    <2> QED BY <1>5, <2>1, <2>2 DEF MonitorHolds, TimerFires, Probed
  <1>6. CASE Observe /\ EndCycle
    <2>1. AnswersHold'
      BY <1>6, EvidenceKept DEF MonitorHolds, EndCycle
    <2>2. record' \in [Probed -> {"unknown", "up", "down"}]
      BY <1>6 DEF EndCycle, Published
    <2>3. schema' \in SchemaStates \cup {"UNKNOWN", "DB_UNAVAILABLE"}
      <3>1. /\ answer["database"] \in Outcomes /\ answer["database"] \notin Unanswered
            /\ answer["database"] # "ok"
        BY <1>6, Databases DEF MonitorHolds, AnswersHold, EndCycle, InFlight
      <3> QED BY <1>6, <3>1 DEF EndCycle, Outcomes
    <2>4. /\ monitor' \in [started : BOOLEAN, chain : {"none", "timer", "waiting"}]
          /\ monitor'.chain = "timer" => monitor'.started
          /\ monitor'.chain # "waiting"
      <3>1. monitor' = [started |-> monitor.started,
                        chain |-> IF monitor.chain # "waiting" THEN monitor.chain
                                  ELSE IF monitor.started THEN "timer" ELSE "none"]
        BY <1>6 DEF MonitorHolds, EndCycle, ScheduleNext
      <3> QED BY <3>1 DEF MonitorHolds
    <2>5. late' = late
      BY <1>6 DEF EndCycle
    <2> QED BY <2>1, <2>2, <2>3, <2>4, <2>5 DEF MonitorHolds, Probed
  <1>7. CASE Observe /\ Listen
    <2>1. AnswersHold'
      BY <1>7, EvidenceKept DEF MonitorHolds, Listen
    <2> QED BY <1>7, <2>1 DEF MonitorHolds, Listen, Start, Probed
  <1>8. CASE Observe /\ PreClose
    <2>1. AnswersHold'
      BY <1>8, EvidenceKept DEF MonitorHolds, PreClose
    <2> QED BY <1>8, <2>1
            DEF MonitorHolds, PreClose, StopMonitor, InFlight, NoCycle, Probed
  <1>9. CASE Observe /\ RequestProbe
    <2>1. AnswersHold' /\ InFlight'
      BY <1>9, CycleBegins DEF MonitorHolds, RequestProbe
    <2> QED BY <1>9, <2>1 DEF MonitorHolds, RequestProbe, Probed
  <1> QED BY <1>1, <1>2, <1>3, <1>4, <1>5, <1>6, <1>7, <1>8, <1>9, MonitorCases

-----------------------------------------------------------------------------
(* The work and the shutdown.                                              *)

LEMMA GateClosed == ASSUME NEW c, ShuttingDown PROVE Gate(c) # "open"
  BY DEF Gate

(* Stopping the jobs' timers lets the iterations under way run.            *)
LEMMA JobsStop ==
    ASSUME WorkHolds, StopJobs
    PROVE  /\ jobsStarted' = FALSE
           /\ job' \in [Jobs -> {"idle", "running"}]
           /\ \A j \in Jobs : job'[j] = "running" <=> job[j] = "running"
           /\ (\A j \in Jobs : job[j] = "idle") => \A j \in Jobs : job'[j] = "idle"
  BY DEF WorkHolds, StopJobs

LEMMA WorkStep ==
    ASSUME WorkHolds, [Next]_vars
    PROVE  WorkHolds'
  <1>1. CASE UNCHANGED <<phase, shutdown, working>>
    BY <1>1 DEF WorkHolds, working
  <1>2. CASE EndCycle
    <2>1. /\ phase' \in {phase, "ready"} /\ (phase' # phase => phase = "boot") /\ request' = request
      BY <1>2 DEF EndCycle
    <2>2. CASE shutdown = "monitor"
      <3>1. shutdown' = "jobs" /\ StopJobs
        BY <1>2, <2>2 DEF EndCycle
      <3> QED BY <2>1, <3>1, JobsStop DEF WorkHolds
    <2>3. CASE shutdown # "monitor"
      <3>1. UNCHANGED <<shutdown, jobsStarted, job>>
        BY <1>2, <2>3 DEF EndCycle
      <3> QED BY <2>1, <3>1 DEF WorkHolds
    <2> QED BY <2>2, <2>3
  <1>3. ASSUME NEW j \in Jobs, JobTimerFires(j) PROVE WorkHolds'
    <2>1. /\ job[j] = "timer" /\ job' = [job EXCEPT ![j] = "running"] /\ ~ShuttingDown
          /\ UNCHANGED <<phase, shutdown, jobsStarted, request>>
      BY <1>3, GateClosed DEF JobTimerFires
    <2> QED BY <2>1 DEF WorkHolds, ShuttingDown
  <1>4. ASSUME NEW j \in Jobs, JobEnds(j) PROVE WorkHolds'
    <2>1. /\ job[j] = "running" /\ job' = [job EXCEPT ![j] = IF jobsStarted THEN "timer" ELSE "idle"]
          /\ UNCHANGED <<phase, shutdown, jobsStarted, request>>
      BY <1>4 DEF JobEnds
    <2>2. job'[j] = (IF jobsStarted THEN "timer" ELSE "idle") /\ \A k \in Jobs \ {j} : job'[k] = job[k]
      BY <2>1 DEF WorkHolds
    <2>3. job' \in [Jobs -> {"idle", "timer", "running"}]
      BY <2>1 DEF WorkHolds
    <2> QED BY <2>1, <2>2, <2>3 DEF WorkHolds
  <1>5. CASE Working /\ ~\E j \in Jobs : JobTimerFires(j) \/ JobEnds(j)
    <2>1. ASSUME NEW c, RequestAdmitted(c) PROVE WorkHolds'
      <3>1. /\ phase = "listening" /\ ~ShuttingDown /\ request' = "running"
            /\ UNCHANGED <<phase, shutdown, jobsStarted, job>>
        BY <2>1, GateClosed DEF RequestAdmitted, Serving
      <3> QED BY <3>1 DEF WorkHolds, ShuttingDown
    <2>2. ASSUME UNCHANGED <<phase, shutdown, jobsStarted, job>>, request' \in {request, "none"}
          PROVE  WorkHolds'
      BY <2>2 DEF WorkHolds
    <2> QED BY <1>5, <2>1, <2>2
            DEF Working, RefusalHints, RequestProbe, RequestEnds, RequestFails, ConnectionBreaks
  <1>6. CASE Listen
    <2>1. /\ phase = "ready" /\ phase' = "listening" /\ jobsStarted' = TRUE
          /\ job' = [j \in Jobs |-> "timer"] /\ UNCHANGED <<shutdown, request>>
      BY <1>6 DEF Listen, Start
    <2> QED BY <2>1 DEF WorkHolds
  <1>7. CASE Terminate \/ DeadlinePasses \/ Exit
    BY <1>7 DEF WorkHolds, Terminate, DeadlinePasses, Exit, working
  <1>8. CASE PreClose
    <2>1. phase' = phase /\ request' = request
      BY <1>8 DEF PreClose
    <2>2. CASE InFlight
      BY <1>8, <2>1, <2>2 DEF PreClose, WorkHolds
    <2>3. CASE ~InFlight
      <3>1. shutdown' = "jobs" /\ StopJobs
        BY <1>8, <2>3 DEF PreClose
      <3> QED BY <2>1, <3>1, JobsStop DEF WorkHolds
    <2> QED BY <2>2, <2>3
  <1>9. CASE JobsStopped
    BY <1>9 DEF WorkHolds, JobsStopped, working
  <1>10. CASE OnClose
    BY <1>10 DEF WorkHolds, OnClose, working
  <1>11. Outside \/ (Monitoring /\ ~EndCycle) \/ UNCHANGED vars => UNCHANGED <<phase, shutdown, working>>
    BY DEF Outside, Turns, StartMigration, MigrateUp, MigrateDown, RecordChecksum, MigratorEnds,
           Monitoring, ProbeSettles, LocalProbe, ProbeFails, ProbeTimesOut, ReadAppliedMigrations,
           ReadRecordedChecksums, PermissionDenied, Answers, ProbeHangs, LateAnswer, TimerFires, vars
  <1> QED BY <1>1, <1>2, <1>3, <1>4, <1>5, <1>6, <1>7, <1>8, <1>9, <1>10, <1>11
          DEF Next, Monitoring, Working, Closing

-----------------------------------------------------------------------------
LEMMA InitIInv == Init => IInv
  <1> SUFFICES ASSUME Init PROVE IInv
    OBVIOUS
  <1>1. OutsideHolds
    <2>1. applied \in Seq(Names) /\ DOMAIN recorded \subseteq Names
          /\ (~ChecksumTable => recorded = <<>>)
      <3>1. CASE applied = <<>> /\ recorded = <<>>
        BY <3>1
      <3>2. CASE applied = Manifest[Ours] /\ recorded = Checksum[Ours]
        BY <3>2, NamesFacts, RuntimeAssumption DEF RuntimeAssumption, ChecksumTable
      <3> QED BY <3>1, <3>2 DEF Init
    <2>2. up \in [Probed -> {"up", "down", "denied"}]
      BY DEF Init
    <2> QED BY <2>1, <2>2, RuntimeAssumption DEF Init, OutsideHolds, NoMigration, RuntimeAssumption
  <1>2. MonitorHolds
    <2>1. answer \in [Probed -> {"asked"}]
      BY DEF Init
    <2>2. "asked" \in Outcomes \ Reached /\ "asked" # "ok"
      BY DEF Outcomes, Reached, Unanswered, SchemaStates, HeadStates, IntegrityStates
    <2>3. AnswersHold
      BY <2>1, <2>2, Databases DEF AnswersHold, Evidence
    <2> QED BY <2>3 DEF Init, MonitorHolds
  <1>3. WorkHolds
    BY DEF Init, WorkHolds
  <1> QED BY <1>1, <1>2, <1>3 DEF IInv

(* The inductive invariant holds in every reachable state.                 *)
THEOREM InvariantHolds == Spec => []IInv
  <1>1. IInv /\ [Next]_vars => IInv'
    BY OutsideStep, MonitorStep, WorkStep DEF IInv
  <1> QED BY <1>1, InitIInv, PTL DEF Spec

(* Every variable keeps its type, a timer is only set while its owner is   *)
(* started, and work is only under way once the socket is bound.           *)
THEOREM TypeCorrect == Spec => []TypeOK
  <1>1. IInv => TypeOK
    <2> SUFFICES ASSUME IInv PROVE TypeOK
      OBVIOUS
    <2>1. answer \in [Probed -> {"none", "ok", "failed"} \cup Unanswered \cup SchemaStates]
      BY DEF IInv, MonitorHolds, AnswersHold, NoCycle, Outcomes
    <2>2. (\E d \in Probed : answer[d] = "none") => ~InFlight
      <3>1. "none" \notin Outcomes
        BY DEF Outcomes, Unanswered, SchemaStates, HeadStates, IntegrityStates
      <3> QED BY <3>1 DEF IInv, MonitorHolds, AnswersHold, InFlight
    <2> QED BY <2>1, <2>2 DEF IInv, OutsideHolds, MonitorHolds, WorkHolds, TypeOK, Names
  <1> QED BY <1>1, InvariantHolds, PTL

(* The pool is closed only after every iteration and every request that    *)
(* was under way has ended: none loses its connection to an orderly close. *)
THEOREM NothingRunsAfterCloseHolds == Spec => []NothingRunsAfterClose
  <1>1. IInv => NothingRunsAfterClose
    BY DEF IInv, WorkHolds, NothingRunsAfterClose, Busy
  <1> QED BY <1>1, InvariantHolds, PTL

(* Once shutdown has been asked for, no job iteration and no request is    *)
(* ever admitted again, even when the bind completes after the close began *)
(* and starts the timers anew.                                             *)
THEOREM QuietAfterShutdownHolds == Spec => QuietAfterShutdown
  <1>1. IInv /\ [Next]_vars => [ShuttingDown => Busy' \subseteq Busy]_vars
    <2> SUFFICES ASSUME IInv, Next, ShuttingDown PROVE Busy' \subseteq Busy
      OBVIOUS
    <2>1. ASSUME request' \in {request, "none"}, \A j \in Jobs : job'[j] = "running" => job[j] = "running"
          PROVE  Busy' \subseteq Busy
      BY <2>1 DEF Busy
    <2>2. request' \in {request, "none"}
      <3>1. \A c : ~RequestAdmitted(c)
        BY GateClosed DEF RequestAdmitted
      <3> QED BY <3>1
          DEF Next, Outside, Turns, StartMigration, MigrateUp, MigrateDown, RecordChecksum,
              MigratorEnds, Monitoring, ProbeSettles, LocalProbe, ProbeFails, ProbeTimesOut,
              ReadAppliedMigrations, ReadRecordedChecksums, PermissionDenied, Answers, ProbeHangs,
              LateAnswer, TimerFires, EndCycle, Working, JobTimerFires, JobEnds, RefusalHints,
              RequestProbe, RequestEnds, RequestFails, ConnectionBreaks, Listen, Terminate,
              Closing, PreClose, JobsStopped, OnClose, Exit, DeadlinePasses, working
    <2>3. \A j \in Jobs : job'[j] = "running" => job[j] = "running"
      <3>1. \A j \in Jobs : ~JobTimerFires(j)
        BY GateClosed DEF JobTimerFires
      <3>2. \/ job' = job \/ StopJobs \/ job' = [j \in Jobs |-> "timer"]
            \/ \E j \in Jobs : JobEnds(j)
        BY <3>1
        DEF Next, Outside, Turns, StartMigration, MigrateUp, MigrateDown, RecordChecksum,
            MigratorEnds, Monitoring, ProbeSettles, LocalProbe, ProbeFails, ProbeTimesOut,
            ReadAppliedMigrations, ReadRecordedChecksums, PermissionDenied, Answers, ProbeHangs,
            LateAnswer, TimerFires, EndCycle, Working, RequestAdmitted, RefusalHints,
            RequestProbe, RequestEnds, RequestFails, ConnectionBreaks, Listen, Start, Terminate,
            Closing, PreClose, JobsStopped, OnClose, Exit, DeadlinePasses, working
      <3>3. ASSUME NEW j \in Jobs, JobEnds(j)
            PROVE  \A k \in Jobs : job'[k] = "running" => job[k] = "running"
        BY <3>3 DEF JobEnds, IInv, WorkHolds
      <3> QED BY <3>2, <3>3, JobsStop DEF IInv
    <2> QED BY <2>1, <2>2, <2>3
  <1> QED BY <1>1, InvariantHolds, PTL DEF Spec, QuietAfterShutdown

(* A status is never published from a stale answer: a dependency called up *)
(* was reachable, and a schema called READY was at this build's head with  *)
(* this build's checksums, at some instant since the cycle began that      *)
(* publishes them.                                                         *)
THEOREM NoStaleRecoveryHolds == Spec => NoStaleRecovery
  <1>1. IInv /\ [Next]_vars =>
          [record' # record \/ schema' # schema \/ (InFlight /\ ~InFlight')
           => /\ {d \in Probed : record'[d] = "up"} \subseteq seen
              /\ schema' = "READY" => {"head", "sums"} \subseteq seen]_vars
    <2> SUFFICES ASSUME IInv, [Next]_vars
                 PROVE  record' # record \/ schema' # schema \/ (InFlight /\ ~InFlight')
                        => /\ {d \in Probed : record'[d] = "up"} \subseteq seen
                           /\ schema' = "READY" => {"head", "sums"} \subseteq seen
      OBVIOUS
    <2>1. CASE EndCycle
      <3>1. \A d \in Probed : answer[d] \in Outcomes /\ answer[d] \notin Unanswered
        BY <2>1 DEF EndCycle, IInv, MonitorHolds, AnswersHold, InFlight
      <3>2. ASSUME NEW d \in Probed, record'[d] = "up" PROVE d \in seen
        <4>1. answer[d] # "failed"
          BY <2>1, <3>2 DEF EndCycle, Published
        <4> QED BY <3>1, <4>1 DEF Outcomes, Reached, IInv, MonitorHolds, AnswersHold, Evidence
      <3>3. schema' = "READY" => answer["database"] = "READY"
        BY <2>1 DEF EndCycle
      <3> QED BY <3>2, <3>3 DEF IInv, MonitorHolds, AnswersHold, Evidence
    <2>2. CASE ~EndCycle
      <3>1. UNCHANGED <<record, schema>>
        BY <2>2, MonitorCases
        DEF monitoring, LocalProbe, ProbeFails, ProbeHangs, ProbeTimesOut, ReadAppliedMigrations,
            ReadRecordedChecksums, PermissionDenied, Answers, LateAnswer, TimerFires, Listen,
            PreClose, RequestProbe
      <3>2. InFlight => InFlight'
        <4>1. ASSUME Observe, NEW d \in Probed,
                     \/ LocalProbe(d) \/ ProbeFails(d) \/ ProbeHangs(d) \/ ProbeTimesOut(d)
                     \/ d = "database"
                        /\ (ReadAppliedMigrations \/ ReadRecordedChecksums \/ PermissionDenied)
              PROVE  InFlight'
          BY <4>1, ProbeStep DEF IInv, MonitorHolds
        <4>2. UNCHANGED answer => (InFlight => InFlight')
          BY DEF InFlight, NoCycle, Probed
        <4>3. InFlight /\ ProbeNow => UNCHANGED answer
          BY DEF ProbeNow
        <4> QED BY <2>2, <4>1, <4>2, <4>3, MonitorCases
                DEF monitoring, LateAnswer, TimerFires, Listen, PreClose, RequestProbe
      <3> QED BY <3>1, <3>2
    <2> QED BY <2>1, <2>2
  <1> QED BY <1>1, InvariantHolds, PTL DEF Spec, NoStaleRecovery
=============================================================================
