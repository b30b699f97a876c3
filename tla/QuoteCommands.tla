---------------------------- MODULE QuoteCommands ----------------------------
(***************************************************************************)
(* The idempotent commands on a quote: create, edit, issue, cancel, queue  *)
(* an e-mail; and the jobs that change the same rows.                      *)
(*                                                                         *)
(* A command is one READ COMMITTED transaction.  It takes the advisory     *)
(* lock of its idempotency scope, reads the scope's binding, takes the row *)
(* lock of its quote, reads the clock, decides, writes, binds and commits. *)
(* The rows it decides on stay locked until then, so a session goes        *)
(* through one stage for each lock it may wait for, and its writes are     *)
(* applied when it commits.  `session` holds no more than the transaction  *)
(* and the request handler around it: locks are read off it.               *)
(*                                                                         *)
(* A client may send any request again under the same scope, or another    *)
(* one.  The database may fail at any point, the COMMIT may get no answer, *)
(* the server may die.                                                     *)
(*                                                                         *)
(* Bounds: the clock stops at MaxNow, the number sequence at MaxNumber     *)
(* (rollbacks consume numbers), operator retries at MaxVersion.            *)
(***************************************************************************)
EXTENDS Integers

CONSTANTS
    Scopes,       \* idempotency scopes: (principal, operation, key hash)
    Operation,    \* of each scope
    Principal,    \* of each scope
    Requests,     \* the bodies and path parameters sent under each scope
    Readers,      \* the principals holding quotes:read:any
    Quotes,
    Sessions,     \* requests being handled, in any process
    Values,       \* what a part of a quote's content may be
    NoQuote, NoScope, NoRequest, NoPrincipal,     \* null
    Validity,     \* validity period of an issued quote
    MaxNow, MaxNumber, MaxVersion

Operations == {"create_and_issue", "draft_create", "draft_update", "issue",
               "cancel", "delivery_email"}
Parts == {"lines", "shipping"}
Nothing == "nothing"      \* no lines, no shipping
Contents == [Parts -> Values \cup {Nothing}]
Unstated == [p \in {} |-> Nothing]

(* A request: its path parameter and expectedVersion where it has them,    *)
(* the parts its body gives, expectedTotals as the content they were       *)
(* computed from, and whether the rest of the body is valid.               *)
RequestRecord ==
    [quote : Quotes \cup {NoQuote}, expected : Nat,
     parts : UNION {[P -> Values \cup {Nothing}] : P \in SUBSET Parts},
     totals : Contents \cup {Unstated}, valid : BOOLEAN]

ASSUME ConstantsAssumption ==
    /\ Operation \in [Scopes -> Operations]
    /\ \A sc \in Scopes : Requests[sc] \subseteq RequestRecord
    /\ \A sc \in Scopes : NoRequest \notin Requests[sc]
    /\ NoQuote \notin Quotes
    /\ NoScope \notin Scopes
    /\ NoPrincipal \notin {Principal[sc] : sc \in Scopes}
    /\ Nothing \notin Values
    /\ {Validity, MaxNow, MaxNumber, MaxVersion} \subseteq Nat

VARIABLES
    now,        \* the database clock
    quote,      \* the quotes rows, with the status of the current operation
    binding,    \* idempotency_bindings, by scope
    delivery,   \* the delivery a scope has queued
    drawn,      \* last value of quote_number_seq; a rollback does not undo it
    session,    \* the requests being handled
    effects     \* history: how often a command of each scope took effect

vars == <<now, quote, binding, delivery, drawn, session, effects>>
database == <<quote, binding, delivery, drawn, effects>>

-----------------------------------------------------------------------------
NoTime == -1
NoNumber == 0

AbsentQuote ==
    [status |-> "absent", version |-> 0, content |-> [p \in Parts |-> Nothing],
     creator |-> NoPrincipal, number |-> NoNumber, until |-> NoTime,
     ended |-> NoTime, operation |-> "none"]

NoBinding == [request |-> NoRequest, quote |-> NoQuote]
NoDelivery == [status |-> "none", at |-> NoTime]

IdleSession ==
    [stage |-> "idle", scope |-> NoScope, request |-> NoRequest,
     started |-> NoTime, clock |-> NoTime, quote |-> NoQuote,
     number |-> NoNumber, verdict |-> "none", committed |-> FALSE]

Init ==
    /\ now = 0
    /\ quote = [q \in Quotes |-> AbsentQuote]
    /\ binding = [sc \in Scopes |-> NoBinding]
    /\ delivery = [sc \in Scopes |-> NoDelivery]
    /\ drawn = 0
    /\ session = [s \in Sessions |-> IdleSession]
    /\ effects = [sc \in Scopes |-> 0]

Bound(sc) == binding[sc] # NoBinding
OperationOf(s) == Operation[session[s].scope]
PrincipalOf(s) == Principal[session[s].scope]
Creates(operation) == operation \in {"create_and_issue", "draft_create"}
Issues(operation) == operation \in {"create_and_issue", "issue"}

(* Mutant: two requests of one scope run side by side.                     *)
NeverLocked(sc) == sc = NoScope

(* pg_advisory_xact_lock of the scope: held until the transaction ends.    *)
ScopeLocked(sc) ==
    \E s \in Sessions : session[s].scope = sc /\ session[s].stage \in {"scoped", "decided"}

(* FOR UPDATE on the quote row, when there is one.                         *)
RowLocked(q) ==
    quote[q].status # "absent" /\ \E s \in Sessions : session[s].quote = q /\ session[s].stage = "decided"

(* Mutant: expiry counts only once it is materialized.                     *)
StoredStatus(row, t) == row.status

(* effectiveExpiry of a row at t.                                          *)
Effective(row, t) ==
    IF row.status = "issued" /\ t >= row.until THEN "expired" ELSE row.status

-----------------------------------------------------------------------------
(* Evaluation order of the checks on an unbound key: the first that fails  *)
(* rejects the command and rolls its transaction back.                     *)
FirstFailing(checks) ==
    LET failing == {i \in DOMAIN checks : checks[i][2]} IN
    IF failing = {} THEN "accepted"
    ELSE checks[CHOOSE i \in failing : \A j \in failing : i <= j][1]

(* The complete snapshot that results from replacing the parts given.      *)
Patched(content, parts) ==
    [p \in Parts |-> IF p \in DOMAIN parts THEN parts[p] ELSE content[p]]

(* What insertLines and insertShipping write for a new quote.              *)
Snapshot(parts) == Patched(AbsentQuote.content, parts)

(* assertExpectedTotals, against the owner's arithmetic on the content.    *)
TotalsDiffer(r, content) == r.totals # Unstated /\ r.totals # content

CreateChecks(operation, r) ==
    << <<"unprocessable", ~r.valid>>,
       <<"unprocessable", operation = "create_and_issue" /\ r.parts["lines"] = Nothing>>,
       <<"arithmetic_mismatch", TotalsDiffer(r, Snapshot(r.parts))>> >>

(* lockOwnQuote: missing and not the creator's are answered alike.         *)
NotOwned(row, principal) == row.creator # principal

(* Mutant: a draft is edited or issued whatever its version.               *)
AnyVersionChecks(row, principal, operation, r) ==
    << <<"not_found", NotOwned(row, principal)>>,
       <<"unprocessable", ~r.valid>>,
       <<"in_progress", row.status = "issuing">>,
       <<"invalid_state", row.status # "draft">>,
       <<"unprocessable", operation = "issue" /\ row.content["lines"] = Nothing>>,
       <<"arithmetic_mismatch", operation = "issue" /\ TotalsDiffer(r, row.content)>> >>

(* updateDraft and issueDraft, with assertDraftAtVersion.                  *)
DraftChecks(row, principal, operation, r) ==
    << <<"not_found", NotOwned(row, principal)>>,
       <<"unprocessable", ~r.valid>>,
       <<"in_progress", row.status = "issuing">>,
       <<"invalid_state", row.status # "draft">>,
       <<"version_conflict", row.version # r.expected>>,
       <<"unprocessable", operation = "issue" /\ row.content["lines"] = Nothing>>,
       <<"arithmetic_mismatch", operation = "issue" /\ TotalsDiffer(r, row.content)>> >>

(* Mutant: an issuing quote is cancelled whatever its operation does.      *)
CancelAnyChecks(row, principal, r, t) ==
    << <<"not_found", NotOwned(row, principal)>>,
       <<"unprocessable", ~r.valid>>,
       <<"invalid_state", Effective(row, t) \notin {"draft", "issuing", "issued"}>>,
       <<"version_conflict", row.version # r.expected>> >>

(* cancelQuote, at the instant t its row lock is held.                     *)
CancelChecks(row, principal, r, t) ==
    << <<"not_found", NotOwned(row, principal)>>,
       <<"unprocessable", ~r.valid>>,
       <<"in_progress", row.status = "issuing" /\ row.operation # "failed">>,
       <<"invalid_state", Effective(row, t) \notin {"draft", "issuing", "issued"}>>,
       <<"version_conflict", row.version # r.expected>> >>

Visible(row, principal) ==
    row.status # "absent" /\ (row.creator = principal \/ principal \in Readers)

(* requestEmailDelivery; r.valid also stands for a usable recipient.       *)
DeliveryChecks(row, principal, r, t, enabled) ==
    << <<"provider_disabled", ~enabled>>,
       <<"not_found", ~Visible(row, principal)>>,
       <<"unprocessable", ~r.valid>>,
       <<"invalid_state", Effective(row, t) # "issued">> >>

Checks(s, t, enabled) ==
    LET r == session[s].request
        row == IF r.quote = NoQuote THEN AbsentQuote ELSE quote[r.quote]
        operation == OperationOf(s) IN
    IF Creates(operation) THEN CreateChecks(operation, r)
    ELSE IF operation = "cancel" THEN CancelChecks(row, PrincipalOf(s), r, t)
    ELSE IF operation = "delivery_email"
         THEN DeliveryChecks(row, PrincipalOf(s), r, t, enabled)
    ELSE DraftChecks(row, PrincipalOf(s), operation, r)

-----------------------------------------------------------------------------
(* The transaction of a command.                                           *)

At(s, stage) == session[s].stage = stage
Become(s, next) == session' = [session EXCEPT ![s] = next]

(* The request passed the gates; BEGIN fixes the transaction's now(),      *)
(* which only an acceptance of an issue puts to use.                       *)
Begin(s, sc, r) ==
    /\ At(s, "idle")
    /\ Become(s, [IdleSession EXCEPT !.stage = "begun", !.scope = sc, !.request = r,
                       !.started = IF Issues(Operation[sc]) THEN now ELSE NoTime])
    /\ UNCHANGED <<now, database>>

LockScope(s) ==
    /\ At(s, "begun")
    /\ ~ScopeLocked(session[s].scope)
    /\ Become(s, [session[s] EXCEPT !.stage = "scoped"])
    /\ UNCHANGED <<now, database>>

(* A bound key is answered before anything else is looked at.              *)
BoundVerdict(sc, r) ==
    IF binding[sc].request = r THEN "replayed" ELSE "conflict"

(* answerFromBinding; its audit event locks the bound quote.               *)
AnswerFromBinding(s) ==
    LET bound == binding[session[s].scope] IN
    /\ At(s, "scoped")
    /\ Bound(session[s].scope)
    /\ ~RowLocked(bound.quote)
    /\ Become(s, [session[s] EXCEPT !.stage = "decided", !.quote = bound.quote,
          !.verdict = BoundVerdict(session[s].scope, session[s].request)])
    /\ UNCHANGED <<now, database>>

(* The quote a command is about: a fresh id, or its path parameter.        *)
Target(s) ==
    IF Creates(OperationOf(s))
    THEN {q \in Quotes : quote[q].status = "absent" /\ ~\E other \in Sessions :
              session[other].quote = q /\ Creates(OperationOf(other))}
    ELSE {session[s].request.quote}

(* Mutant: an e-mail is queued without locking the quote.                  *)
WaitsUnlessMailing(s, q) == OperationOf(s) # "delivery_email" /\ RowLocked(q)

Waits(s, q) == RowLocked(q)

(* Mutant: the next number is one more than the largest issued.            *)
NumberAfterLargest ==
    1 + CHOOSE n \in 0..MaxNumber :
          /\ n = 0 \/ \E q \in Quotes : quote[q].number = n
          /\ \A q \in Quotes : quote[q].number <= n

(* nextval('quote_number_seq').                                            *)
NextNumber == drawn + 1

(* An unbound key: lock the quote, read the clock, check, and draw a       *)
(* number for the acceptance of an issue.                                  *)
Decide(s, q, enabled) ==
    LET verdict == FirstFailing(Checks(s, now, enabled))
        draws == verdict = "accepted" /\ Issues(OperationOf(s)) IN
    /\ At(s, "scoped")
    /\ ~Bound(session[s].scope)
    /\ q \in Target(s)
    /\ ~Waits(s, q)
    /\ draws => NextNumber <= MaxNumber
    /\ drawn' = IF draws THEN drawn + 1 ELSE drawn
    /\ Become(s, [session[s] EXCEPT !.stage = "decided", !.quote = q,
          !.clock = IF OperationOf(s) \in {"cancel", "delivery_email"} THEN now ELSE NoTime,
          !.verdict = verdict,
          !.number = IF draws THEN NextNumber ELSE NoNumber])
    /\ UNCHANGED <<now, quote, binding, delivery, effects>>

-----------------------------------------------------------------------------
(* What each command writes.                                               *)

DraftRow(s) ==
    [AbsentQuote EXCEPT !.status = "draft", !.version = 1,
        !.content = Snapshot(session[s].request.parts),
        !.creator = PrincipalOf(s)]

(* allocateIssue, freezeIssue and the pending operation: the validity runs *)
(* from the transaction's now().                                           *)
Frozen(s, row, increment) ==
    [row EXCEPT !.status = "issuing", !.version = row.version + increment,
        !.number = session[s].number, !.until = session[s].started + Validity,
        !.operation = "pending"]

Writes(s, operation) == OperationOf(s) = operation
SetQuote(q, row) == quote' = [quote EXCEPT ![q] = row]

CreateDraft(s) ==
    /\ Writes(s, "draft_create")
    /\ SetQuote(session[s].quote, DraftRow(s))
    /\ UNCHANGED delivery

CreateAndIssue(s) ==
    /\ Writes(s, "create_and_issue")
    /\ SetQuote(session[s].quote, Frozen(s, DraftRow(s), 0))
    /\ UNCHANGED delivery

(* Mutant: what the body does not give is removed.                         *)
ReplaceDraft(s) ==
    LET q == session[s].quote IN
    /\ Writes(s, "draft_update")
    /\ SetQuote(q, [quote[q] EXCEPT !.version = quote[q].version + 1,
          !.content = Snapshot(session[s].request.parts)])
    /\ UNCHANGED delivery

UpdateDraft(s) ==
    LET q == session[s].quote IN
    /\ Writes(s, "draft_update")
    /\ SetQuote(q, [quote[q] EXCEPT !.version = quote[q].version + 1,
          !.content = Patched(quote[q].content, session[s].request.parts)])
    /\ UNCHANGED delivery

IssueDraft(s) ==
    LET q == session[s].quote IN
    /\ Writes(s, "issue")
    /\ SetQuote(q, Frozen(s, quote[q], 1))
    /\ UNCHANGED delivery

DeliveriesOf(q) == {sc \in Scopes : Operation[sc] = "delivery_email" /\ binding[sc].quote = q}

(* T8 also fails the deliveries still queued for the quote.                *)
CancelQuote(s) ==
    LET q == session[s].quote IN
    /\ Writes(s, "cancel")
    /\ SetQuote(q, [quote[q] EXCEPT !.status = "cancelled",
          !.version = quote[q].version + 1, !.ended = session[s].clock])
    /\ delivery' = [sc \in Scopes |->
          IF quote[q].status = "issued" /\ sc \in DeliveriesOf(q)
             /\ delivery[sc].status = "pending"
          THEN [status |-> "failed", at |-> session[s].clock] ELSE delivery[sc]]

RequestDelivery(s) ==
    /\ Writes(s, "delivery_email")
    /\ delivery' = [delivery EXCEPT ![session[s].scope] =
          [status |-> "pending", at |-> session[s].clock]]
    /\ UNCHANGED quote

Effect(s) ==
    \/ CreateDraft(s)
    \/ CreateAndIssue(s)
    \/ UpdateDraft(s)
    \/ IssueDraft(s)
    \/ CancelQuote(s)
    \/ RequestDelivery(s)

(* Mutant: the path parameter is bound, which a create does not have.      *)
BindPathParameter(s) ==
    LET sc == session[s].scope IN
    binding' = IF Bound(sc) THEN binding
               ELSE [binding EXCEPT ![sc] =
                        [request |-> session[s].request, quote |-> session[s].request.quote]]

(* bind, with `on conflict do nothing`.                                    *)
Bind(s) ==
    LET sc == session[s].scope IN
    binding' = IF Bound(sc) THEN binding
               ELSE [binding EXCEPT ![sc] =
                        [request |-> session[s].request, quote |-> session[s].quote]]

(* The transaction commits what it decided: an acceptance its effect and   *)
(* its binding, an answer from the binding an audit event only.            *)
Apply(s) ==
    /\ At(s, "decided")
    /\ session[s].verdict \in {"accepted", "replayed", "conflict"}
    /\ IF session[s].verdict = "accepted"
       THEN /\ Effect(s)
            /\ Bind(s)
            /\ effects' = [effects EXCEPT ![session[s].scope] = effects[session[s].scope] + 1]
       ELSE UNCHANGED <<quote, binding, delivery, effects>>
    /\ UNCHANGED <<now, drawn>>

-----------------------------------------------------------------------------
(* Answers.                                                                *)

Answer(s, verdict, committed) ==
    Become(s, [IdleSession EXCEPT !.stage = "answered", !.verdict = verdict,
        !.committed = committed, !.quote = IF committed THEN session[s].quote ELSE NoQuote])

(* A new acceptance of an issue goes on to the inline attempt.             *)
Drives(s) == session[s].verdict = "accepted" /\ Issues(OperationOf(s))

Commit(s) ==
    /\ Apply(s)
    /\ IF Drives(s)
       THEN Become(s, [session[s] EXCEPT !.stage = "driving", !.committed = TRUE])
       ELSE Answer(s, session[s].verdict, session[s].verdict = "accepted")

(* CommitOutcomeUnknownError: applied or not, the answer says so.          *)
CommitOutcomeUnknown(s) ==
    \/ Apply(s) /\ Answer(s, "unknown", session[s].verdict = "accepted")
    \/ /\ At(s, "decided")
       /\ session[s].verdict \in {"accepted", "replayed", "conflict"}
       /\ Answer(s, "unknown", FALSE)
       /\ UNCHANGED <<now, database>>

(* A failed check throws: rollback, and the rejection is the answer.       *)
Reject(s) ==
    /\ At(s, "decided")
    /\ session[s].verdict \notin {"accepted", "replayed", "conflict"}
    /\ Answer(s, session[s].verdict, FALSE)
    /\ UNCHANGED <<now, database>>

(* A query fails, or waits for a lock past its timeout: rolled back.       *)
DatabaseFails(s) ==
    /\ session[s].stage \in {"begun", "scoped", "decided"}
    /\ Answer(s, "nothing_committed", FALSE)
    /\ UNCHANGED <<now, database>>

(* Mutant: the answer is taken from the acceptance, not from the database. *)
AssumeIssued(s) == "issued"

ReadBack(s) == Effective(quote[session[s].quote], now)

(* issueInline: the attempt is driven for as long as the budget lasts (the *)
(* jobs below), then the answer is read back from durable state.           *)
AnswerIssuance(s) ==
    /\ At(s, "driving")
    /\ Answer(s, IF ReadBack(s) = "issuing" THEN "issuing" ELSE "done", TRUE)
    /\ UNCHANGED <<now, database>>

(* That read fails too: the route has only one answer for a database that  *)
(* is unavailable.                                                         *)
AnswerReadFails(s) ==
    /\ At(s, "driving")
    /\ Answer(s, "nothing_committed", TRUE)
    /\ UNCHANGED <<now, database>>

(* The answer reaches the client, or the server dies first: PostgreSQL     *)
(* rolls an open transaction back.                                         *)
EndSession(s) ==
    /\ ~At(s, "idle")
    /\ Become(s, IdleSession)
    /\ UNCHANGED <<now, database>>

-----------------------------------------------------------------------------
(* The jobs and the operator, each in a transaction that locks the quote.  *)

Job(q, status, operation, increment) ==
    /\ ~RowLocked(q)
    /\ SetQuote(q, [quote[q] EXCEPT !.status = status, !.operation = operation,
                                    !.version = quote[q].version + increment])
    /\ UNCHANGED <<now, binding, delivery, drawn, session, effects>>

OperationIs(q, operation) == quote[q].status = "issuing" /\ quote[q].operation = operation

CommitIssued(q) == OperationIs(q, "pending") /\ Job(q, "issued", "succeeded", 1)

OperationFails(q) == OperationIs(q, "pending") /\ Job(q, "issuing", "failed", 0)

OperatorRetry(q) ==
    /\ OperationIs(q, "failed")
    /\ quote[q].version < MaxVersion
    /\ Job(q, "issuing", "pending", 1)

(* materializeExpiredQuotes: rows that are locked are skipped.             *)
MaterializeExpiry(q) ==
    /\ ~RowLocked(q)
    /\ quote[q].status = "issued" /\ quote[q].until <= now
    /\ SetQuote(q, [quote[q] EXCEPT !.status = "expired", !.ended = quote[q].until,
                                    !.version = quote[q].version + 1])
    /\ UNCHANGED <<now, binding, delivery, drawn, session, effects>>

(* The delivery worker claims a queued delivery, or fails it (A6.1).       *)
ClaimDelivery(sc) ==
    LET q == binding[sc].quote IN
    /\ delivery[sc].status = "pending"
    /\ ~RowLocked(q)
    /\ delivery' = [delivery EXCEPT ![sc] =
          [status |-> IF Effective(quote[q], now) = "issued" THEN "taken" ELSE "failed",
           at |-> now]]
    /\ UNCHANGED <<now, quote, binding, drawn, session, effects>>

Tick ==
    /\ now < MaxNow
    /\ now' = now + 1
    /\ UNCHANGED <<database, session>>

-----------------------------------------------------------------------------
Handle(s) ==
    \/ \E sc \in Scopes : \E r \in Requests[sc] : Begin(s, sc, r)
    \/ LockScope(s)
    \/ AnswerFromBinding(s)
    \/ \E q \in Quotes, enabled \in BOOLEAN : Decide(s, q, enabled)
    \/ Commit(s)
    \/ CommitOutcomeUnknown(s)
    \/ Reject(s)
    \/ DatabaseFails(s)
    \/ AnswerIssuance(s)
    \/ AnswerReadFails(s)
    \/ EndSession(s)

Jobs ==
    \/ \E q \in Quotes :
          CommitIssued(q) \/ OperationFails(q) \/ OperatorRetry(q) \/ MaterializeExpiry(q)
    \/ \E sc \in Scopes : ClaimDelivery(sc)

Next == (\E s \in Sessions : Handle(s)) \/ Jobs \/ Tick

Spec == Init /\ [][Next]_vars
-----------------------------------------------------------------------------
(* Properties.                                                             *)

QuoteRow ==
    [status : {"absent", "draft", "issuing", "issued", "cancelled", "expired"},
     version : Nat, content : Contents,
     creator : {Principal[sc] : sc \in Scopes} \cup {NoPrincipal},
     number : 0..MaxNumber, until : {NoTime} \cup 0..MaxNow + Validity,
     ended : {NoTime} \cup 0..MaxNow,
     operation : {"none", "pending", "failed", "succeeded"}]

(* Every variable keeps its type.                                          *)
TypeOK ==
    /\ now \in 0..MaxNow
    /\ quote \in [Quotes -> QuoteRow]
    /\ \A sc \in Scopes : Bound(sc) =>
          binding[sc].request \in Requests[sc] /\ binding[sc].quote \in Quotes
    /\ delivery \in [Scopes -> [status : {"none", "pending", "taken", "failed"},
                                at : {NoTime} \cup 0..MaxNow]]
    /\ drawn \in 0..MaxNumber
    /\ \A s \in Sessions :
          /\ session[s].stage \in {"idle", "begun", "scoped", "decided", "driving", "answered"}
          /\ session[s].stage = "decided" => session[s].quote \in Quotes

BoundTo(q) == {sc \in Scopes : binding[sc].quote = q}
Expected(sc) == binding[sc].request.expected
Changing == {"draft_update", "issue", "cancel"}

(* "Exactly one mutation can succeed from a given version": no two of the  *)
(* commands that took effect on a quote had been sent against the same     *)
(* version of it, however they were interleaved and retried.               *)
OneMutationPerVersion ==
    \A q \in Quotes : \A a, b \in BoundTo(q) :
        a # b /\ Operation[a] \in Changing /\ Operation[b] \in Changing
        => Expected(a) # Expected(b)

(* The content a client knows under version v: what the quote was created  *)
(* with, and the edits accepted since, each applied to the version its     *)
(* client had seen.                                                        *)
ContentAt(q, version) ==
    LET edits(v) == {sc \in BoundTo(q) :
                        Operation[sc] = "draft_update" /\ Expected(sc) = v}
        created == {sc \in BoundTo(q) : Creates(Operation[sc])}
        parts(scopes) == binding[CHOOSE sc \in scopes : TRUE].request.parts
        at[v \in 1..version] ==
            IF v = 1
            THEN IF created = {} THEN AbsentQuote.content
                 ELSE Snapshot(parts(created))
            ELSE IF edits(v - 1) = {} THEN at[v - 1] ELSE Patched(at[v - 1], parts(edits(v - 1)))
    IN at[version]

(* No edit is lost and none sneaks in: a draft's content is that of its    *)
(* version, and what was issued is exactly the content of the version its  *)
(* client asked to issue, whatever edits raced with it.                    *)
IssuedAsSeen ==
    \A q \in Quotes :
        /\ quote[q].status = "draft" => quote[q].content = ContentAt(q, quote[q].version)
        /\ \A sc \in BoundTo(q) : Operation[sc] = "issue" =>
              quote[q].content = ContentAt(q, Expected(sc))

(* How a quote ended, by the instants it stores: an issued quote is        *)
(* cancelled only before its validity ends and expires only from then on,  *)
(* never both, although the expiry job, the cancel and the commit of its   *)
(* document race for the row.                                              *)
EndedHonestly ==
    \A q \in Quotes :
        /\ quote[q].status = "cancelled" /\ quote[q].operation = "succeeded" =>
              quote[q].ended < quote[q].until
        /\ quote[q].status = "expired" =>
              quote[q].ended = quote[q].until /\ quote[q].until <= now
        /\ quote[q].ended # NoTime <=> quote[q].status \in {"cancelled", "expired"}

(* Quote numbers are never reused, not even after a rollback: two quotes   *)
(* never carry the same one, no session holds one a quote already carries, *)
(* and a quote has a number if and only if it was accepted for issuance.   *)
NumberedOnce ==
    /\ \A q \in Quotes :
          /\ quote[q].number # NoNumber <=> quote[q].operation # "none"
          /\ \A other \in Quotes \ {q} :
                quote[q].number = quote[other].number => quote[q].number = NoNumber
          /\ \A s \in Sessions : At(s, "decided") /\ session[s].number # NoNumber =>
                session[s].number # quote[q].number

(* No e-mail leaves for a quote that ended: a delivery is claimed for      *)
(* sending only while its quote is valid and not cancelled, and none stays *)
(* queued behind a cancel, although requests, cancels and the delivery     *)
(* worker race for the quote.                                              *)
NoMailAfterEnd ==
    \A q \in Quotes : \A sc \in DeliveriesOf(q) :
        /\ delivery[sc].status = "taken" =>
              /\ delivery[sc].at < quote[q].until
              /\ quote[q].status = "cancelled" => delivery[sc].at <= quote[q].ended
        /\ quote[q].status = "cancelled" => delivery[sc].status # "pending"

(* A 201 or 200 is only given for a quote whose issuance ended, whatever   *)
(* became of the inline attempt, the budget and the other workers.         *)
InlineAnswerIsDurable ==
    \A s \in Sessions : At(s, "answered") /\ session[s].verdict = "done" =>
        quote[session[s].quote].status \in {"issued", "cancelled", "expired"}

(* What the sessions tell their clients.                                   *)
Replied(s) == IF At(s, "answered") THEN session[s].verdict ELSE "none"

Idempotent == INSTANCE IdempotentCommands WITH
    Clients <- Sessions,
    done <- [sc \in Scopes |-> binding[sc].request],
    count <- effects,
    asked <- [s \in Sessions |-> [scope |-> session[s].scope, request |-> session[s].request]],
    reply <- [s \in Sessions |-> Replied(s)]

(* The commands implement the promise of their idempotency keys.           *)
ImplementsIdempotence == Idempotent!Spec

OutcomeOf(q) ==
    IF quote[q].operation = "pending" THEN "running" ELSE quote[q].operation

QuoteLife == INSTANCE QuoteLifecycle WITH
    phase <- [q \in Quotes |-> quote[q].status],
    outcome <- [q \in Quotes |-> OutcomeOf(q)],
    document <- [q \in Quotes |-> quote[q].operation = "succeeded"],
    version <- [q \in Quotes |-> quote[q].version]

(* Every transaction that changes a quote makes one transition of the      *)
(* state machine.                                                          *)
ImplementsLifecycle == QuoteLife!Spec

(* What errors.ts says of itself and the recovery document of a 503: no    *)
(* answer claims that nothing was committed when the request took effect.  *)
NothingCommittedIsTrue ==
    \A s \in Sessions : At(s, "answered") /\ session[s].verdict = "nothing_committed" =>
        ~session[s].committed
=============================================================================
