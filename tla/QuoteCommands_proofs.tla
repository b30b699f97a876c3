------------------------- MODULE QuoteCommands_proofs -------------------------
(***************************************************************************)
(* Proofs about QuoteCommands, for every set of scopes, requests, quotes   *)
(* and sessions, every content and every bound.                            *)
(*                                                                         *)
(* The inductive invariant says what a session knows while it holds its    *)
(* locks: the checks it decided on still hold when it commits, because the *)
(* scope's lock keeps its key unbound and the row's lock keeps the quote   *)
(* as it was read.                                                         *)
(***************************************************************************)
EXTENDS QuoteCommands, WellFoundedInduction, TLAPS

Rejections == {"not_found", "unprocessable", "arithmetic_mismatch", "in_progress",
               "invalid_state", "version_conflict", "provider_disabled"}
Committing == {"accepted", "replayed", "conflict"}
Verdicts == Rejections \cup Committing
                \cup {"none", "unknown", "nothing_committed", "issuing", "done"}

Handling == {"begun", "scoped", "decided", "driving"}
Open == {"absent", "draft"}
Ends == {"issued", "cancelled", "expired"}

DeliveryRecord == [status : {"none", "pending", "taken", "failed"}, at : {NoTime} \cup 0..MaxNow]

BindingRecord == [request : RequestRecord \cup {NoRequest}, quote : Quotes \cup {NoQuote}]

SessionRecord ==
    [stage : Handling \cup {"idle", "answered"},
     scope : Scopes \cup {NoScope}, request : RequestRecord \cup {NoRequest},
     started : {NoTime} \cup 0..MaxNow, clock : {NoTime} \cup 0..MaxNow,
     quote : Quotes \cup {NoQuote}, number : 0..MaxNumber, verdict : Verdicts,
     committed : BOOLEAN]

Typed ==
    /\ now \in 0..MaxNow
    /\ quote \in [Quotes -> QuoteRow]
    /\ binding \in [Scopes -> BindingRecord]
    /\ delivery \in [Scopes -> DeliveryRecord]
    /\ drawn \in 0..MaxNumber
    /\ session \in [Sessions -> SessionRecord]

(* A row accounts for its operation, its number and its end; t is the      *)
(* clock and n the last number drawn.                                      *)
RowGood(row, n, t) ==
    /\ row.status = "absent" => row = AbsentQuote
    /\ row.status \in Open => row.operation = "none"
    /\ row.status = "issuing" => row.operation \in {"pending", "failed"}
    /\ row.status \in {"issued", "expired"} => row.operation = "succeeded"
    /\ row.number # NoNumber <=> row.operation # "none"
    /\ row.operation # "none" => row.until # NoTime
    /\ row.number <= n
    /\ row.ended # NoTime <=> row.status \in {"cancelled", "expired"}
    /\ row.status = "cancelled" /\ row.operation = "succeeded" => row.ended < row.until
    /\ row.status = "expired" => row.ended = row.until /\ row.until <= t

RowHolds(q) == RowGood(quote[q], drawn, now)

(* A delivery of a quote, as NoMailAfterEnd says.                          *)
MailHolds(sc) ==
    LET row == quote[binding[sc].quote] IN
    /\ row.status \in Ends
    /\ delivery[sc].status = "taken" =>
          /\ delivery[sc].at < row.until
          /\ row.status = "cancelled" => delivery[sc].at <= row.ended
    /\ row.status = "cancelled" => delivery[sc].status # "pending"

(* A bound key: its request, and what its effect left on the quote.        *)
BindingHolds(sc) ==
    LET row == quote[binding[sc].quote] IN
    /\ Bound(sc) =>
          /\ binding[sc].request \in Requests[sc]
          /\ binding[sc].quote \in Quotes
          /\ row.status # "absent"
          /\ Operation[sc] \in Changing => Expected(sc) < row.version
          /\ Issues(Operation[sc]) => row.status \notin Open
          /\ Operation[sc] = "delivery_email" => MailHolds(sc)
    /\ delivery[sc].status # "none" => Bound(sc) /\ Operation[sc] = "delivery_email"
    /\ delivery[sc].at <= now

Accepting(s) == At(s, "decided") /\ session[s].verdict = "accepted"

(* The checks an acceptance rests on hold until it commits.                *)
Accepts(s) ==
    LET row == quote[session[s].quote]
        r == session[s].request
        t == session[s].clock IN
    /\ Creates(OperationOf(s)) => row.status = "absent"
    /\ OperationOf(s) \in {"draft_update", "issue"} =>
          row.status = "draft" /\ row.version = r.expected
    /\ OperationOf(s) = "cancel" =>
          /\ t \in 0..now
          /\ Effective(row, t) \in {"draft", "issuing", "issued"}
          /\ row.status = "issuing" => row.operation = "failed"
          /\ row.version = r.expected
          /\ \A sc \in DeliveriesOf(session[s].quote) :
                delivery[sc].status = "taken" => delivery[sc].at <= t
    /\ OperationOf(s) = "delivery_email" => t \in 0..now /\ Effective(row, t) = "issued"
    /\ Issues(OperationOf(s)) => session[s].number # NoNumber

Decided(s) ==
    LET sc == session[s].scope
        r == session[s].request IN
    /\ session[s].quote \in Quotes
    /\ session[s].verdict \in Rejections \cup Committing
    /\ session[s].verdict = "replayed" => Bound(sc) /\ binding[sc].request = r
    /\ session[s].verdict = "conflict" => Bound(sc) /\ binding[sc].request # r
    /\ session[s].verdict \notin {"replayed", "conflict"} => ~Bound(sc)
    /\ session[s].verdict = "accepted" => Accepts(s)

SessionHolds(s) ==
    LET x == session[s] IN
    /\ x.stage \in {"idle", "answered"} => x.scope = NoScope /\ x.request = NoRequest
    /\ x.stage \in Handling =>
          /\ x.scope \in Scopes
          /\ x.request \in Requests[x.scope]
          /\ Issues(OperationOf(s)) => x.started # NoTime
    /\ x.stage \in {"begun", "scoped"} => x.number = NoNumber
    /\ x.stage = "decided" => Decided(s)
    /\ x.stage = "driving" =>
          /\ x.quote \in Quotes
          /\ binding[x.scope] = [request |-> x.request, quote |-> x.quote]
          /\ Issues(OperationOf(s))
    /\ x.stage = "answered" /\ x.verdict = "done" =>
          x.quote \in Quotes /\ quote[x.quote].status \in Ends

(* One session at a time holds a scope, one acceptance at a time a quote.  *)
HoldsScope(s) == session[s].stage \in {"scoped", "decided"}

Exclusive ==
    \A s, t \in Sessions : s # t =>
        /\ HoldsScope(s) /\ HoldsScope(t) => session[s].scope # session[t].scope
        /\ Accepting(s) /\ Accepting(t) => session[s].quote # session[t].quote

(* A number drawn by a session is not any other's, nor any quote's.        *)
Numbered(s) == At(s, "decided") /\ session[s].number # NoNumber

NumbersHold ==
    /\ \A p, q \in Quotes : p # q /\ quote[p].number = quote[q].number => quote[p].number = NoNumber
    /\ \A s \in Sessions : Numbered(s) =>
          /\ session[s].number <= drawn
          /\ \A q \in Quotes : session[s].number # quote[q].number
          /\ \A t \in Sessions : Numbered(t) /\ s # t => session[s].number # session[t].number

RowsHold == \A q \in Quotes : RowHolds(q)
BindingsHold == \A sc \in Scopes : BindingHolds(sc)
SessionsHold == \A s \in Sessions : SessionHolds(s)

IInv ==
    /\ Typed
    /\ RowsHold
    /\ BindingsHold
    /\ SessionsHold
    /\ Exclusive
    /\ NumbersHold

-----------------------------------------------------------------------------
(* The checks: a command is accepted when none of them fails, and rejected *)
(* by the first that does.                                                 *)

LEMMA LeastOfFew ==
    ASSUME NEW F \in SUBSET (1..7), F # {}
    PROVE  \E i \in F : \A j \in F : i <= j
  <1>1. \A n \in 1..7 : n \in F /\ (\A m \in F : ~(m < n)) => \E i \in F : \A j \in F : i <= j
    OBVIOUS
  <1>2. \E n \in {1, 2, 3, 4, 5, 6, 7} :
            n \in F /\ \A m \in {1, 2, 3, 4, 5, 6, 7} : m < n => m \notin F
    <2>1. \E n \in {1, 2, 3, 4, 5, 6, 7} : n \in F
      <3>1. PICK n \in F : n \in 1..7
        OBVIOUS
      <3>2. n \in {1, 2, 3, 4, 5, 6, 7}
        BY <3>1
      <3> QED BY <3>1, <3>2
    <2> QED BY <2>1, Z3
  <1> QED BY <1>1, <1>2

LEMMA FirstFailingRejects ==
    ASSUME NEW checks, DOMAIN checks \in SUBSET (1..7),
           \A i \in DOMAIN checks : checks[i][1] \in Rejections
    PROVE  \/ FirstFailing(checks) \in Rejections
           \/ FirstFailing(checks) = "accepted" /\ \A i \in DOMAIN checks : ~checks[i][2]
  <1> DEFINE failing == {i \in DOMAIN checks : checks[i][2]}
  <1>1. CASE failing = {}
    BY <1>1 DEF FirstFailing
  <1>2. CASE failing # {}
    <2> DEFINE least == CHOOSE i \in failing : \A j \in failing : i <= j
    <2>1. least \in failing
      <3>1. failing \in SUBSET (1..7)
        OBVIOUS
      <3>2. \E i \in failing : \A j \in failing : i <= j
        BY <1>2, <3>1, LeastOfFew
      <3> QED BY <3>2
    <2>2. FirstFailing(checks) = checks[least][1]
      BY <1>2 DEF FirstFailing
    <2> QED BY <2>1, <2>2
  <1> QED BY <1>1, <1>2

LEMMA CreateChecked ==
    ASSUME NEW operation, NEW r
    PROVE  FirstFailing(CreateChecks(operation, r)) \in Rejections \cup {"accepted"}
  <1> DEFINE checks == CreateChecks(operation, r)
  <1>1. DOMAIN checks = 1..3 /\ \A i \in 1..3 : checks[i][1] \in Rejections
    BY DEF CreateChecks, Rejections
  <1> HIDE DEF checks
  <1>2. FirstFailing(checks) \in Rejections \cup {"accepted"}
    BY <1>1, FirstFailingRejects
  <1> QED BY <1>2 DEF checks

LEMMA DraftChecked ==
    ASSUME NEW row, NEW principal, NEW operation, NEW r
    PROVE  LET verdict == FirstFailing(DraftChecks(row, principal, operation, r)) IN
           \/ verdict \in Rejections
           \/ /\ verdict = "accepted"
              /\ row.status = "draft" /\ row.version = r.expected
  <1> DEFINE checks == DraftChecks(row, principal, operation, r)
  <1>1. /\ DOMAIN checks = 1..7
        /\ \A i \in 1..7 : checks[i][1] \in Rejections
        /\ checks[4][2] = (row.status # "draft")
        /\ checks[5][2] = (row.version # r.expected)
    BY DEF DraftChecks, Rejections
  <1> HIDE DEF checks
  <1>2. \/ FirstFailing(checks) \in Rejections
        \/ FirstFailing(checks) = "accepted" /\ \A i \in 1..7 : ~checks[i][2]
     BY <1>1, FirstFailingRejects
  <1>3. ASSUME \A i \in 1..7 : ~checks[i][2] PROVE ~checks[4][2] /\ ~checks[5][2]
    BY <1>3
  <1>4. ASSUME ~checks[4][2] PROVE row.status = "draft"
    BY <1>1, <1>4
  <1>5. ASSUME ~checks[5][2] PROVE row.version = r.expected
    BY <1>1, <1>5
  <1> QED BY <1>2, <1>3, <1>4, <1>5 DEF checks

LEMMA CancelChecked ==
    ASSUME NEW row, NEW principal, NEW r, NEW t
    PROVE  LET verdict == FirstFailing(CancelChecks(row, principal, r, t)) IN
           \/ verdict \in Rejections
           \/ /\ verdict = "accepted"
              /\ Effective(row, t) \in {"draft", "issuing", "issued"}
              /\ row.status = "issuing" => row.operation = "failed"
              /\ row.version = r.expected
  <1> DEFINE checks == CancelChecks(row, principal, r, t)
  <1>1. /\ DOMAIN checks = 1..5
        /\ \A i \in 1..5 : checks[i][1] \in Rejections
        /\ checks[3][2] = (row.status = "issuing" /\ row.operation # "failed")
        /\ checks[4][2] = (Effective(row, t) \notin {"draft", "issuing", "issued"})
        /\ checks[5][2] = (row.version # r.expected)
    BY DEF CancelChecks, Rejections
  <1> HIDE DEF checks
  <1>2. \/ FirstFailing(checks) \in Rejections
        \/ FirstFailing(checks) = "accepted" /\ \A i \in 1..5 : ~checks[i][2]
     BY <1>1, FirstFailingRejects
  <1>3. ASSUME \A i \in 1..5 : ~checks[i][2]
        PROVE  ~checks[3][2] /\ ~checks[4][2] /\ ~checks[5][2]
    BY <1>3
  <1>5. ASSUME ~checks[3][2] PROVE row.status = "issuing" => row.operation = "failed"
    BY <1>1, <1>5
  <1>6. ASSUME ~checks[4][2] PROVE Effective(row, t) \in {"draft", "issuing", "issued"}
    BY <1>1, <1>6
  <1>7. ASSUME ~checks[5][2] PROVE row.version = r.expected
    BY <1>1, <1>7
  <1> QED BY <1>2, <1>3, <1>5, <1>6, <1>7 DEF checks

LEMMA DeliveryChecked ==
    ASSUME NEW row, NEW principal, NEW r, NEW t, NEW enabled \in BOOLEAN
    PROVE  LET verdict == FirstFailing(DeliveryChecks(row, principal, r, t, enabled)) IN
           \/ verdict \in Rejections
           \/ verdict = "accepted" /\ Effective(row, t) = "issued"
  <1> DEFINE checks == DeliveryChecks(row, principal, r, t, enabled)
  <1>1. /\ DOMAIN checks = 1..4
        /\ \A i \in 1..4 : checks[i][1] \in Rejections
        /\ checks[4][2] = (Effective(row, t) # "issued")
    BY DEF DeliveryChecks, Rejections
  <1> HIDE DEF checks
  <1>2. \/ FirstFailing(checks) \in Rejections
        \/ FirstFailing(checks) = "accepted" /\ \A i \in 1..4 : ~checks[i][2]
     BY <1>1, FirstFailingRejects
  <1>3. ASSUME ~checks[4][2] PROVE Effective(row, t) = "issued"
    BY <1>1, <1>3
  <1> QED BY <1>2, <1>3 DEF checks

-----------------------------------------------------------------------------
(* What a step leaves of what the other sessions know.                     *)

QuoteGrows(q) ==
    /\ quote[q].status # "absent" => quote'[q].status # "absent"
    /\ quote[q].status \notin Open => quote'[q].status \notin Open
    /\ quote[q].status \in Ends => quote'[q].status \in Ends
    /\ quote[q].version <= quote'[q].version

KeysKept == \A sc \in Scopes : Bound(sc) => binding'[sc] = binding[sc]

QuoteKept(q) ==
    /\ quote'[q] = quote[q]
    /\ \A sc \in Scopes :
          Operation[sc] = "delivery_email" /\ binding'[sc].quote = q
             /\ delivery'[sc].status = "taken"
          => binding[sc].quote = q /\ delivery'[sc] = delivery[sc]

LEMMA BoundByQuote == \A sc : binding[sc].quote \in Quotes => Bound(sc)
  BY ConstantsAssumption DEF ConstantsAssumption, Bound, NoBinding

LEMMA SessionKept ==
    ASSUME Typed, now' \in 0..MaxNow, now <= now',
           NEW t \in Sessions, SessionHolds(t), session'[t] = session[t],
           \A q \in Quotes : QuoteGrows(q), KeysKept,
           At(t, "decided") => binding'[session[t].scope] = binding[session[t].scope],
           Accepting(t) => QuoteKept(session[t].quote)
    PROVE  SessionHolds(t)'
  <1> DEFINE x == session[t]
  <1>1. x.stage = "decided" => Decided(t)'
    <2> SUFFICES ASSUME x.stage = "decided" PROVE Decided(t)'
      OBVIOUS
    <2>1. Decided(t) /\ binding'[x.scope] = binding[x.scope]
      BY DEF SessionHolds, At
    <2>2. x.verdict = "accepted" => Accepts(t)'
      <3> SUFFICES ASSUME x.verdict = "accepted" PROVE Accepts(t)'
        OBVIOUS
      <3>1. Accepts(t) /\ QuoteKept(x.quote)
        BY <2>1 DEF Decided, Accepting, At
      <3>2. x.clock \in 0..now => x.clock \in 0..now'
        BY DEF Typed
      <3> QED BY <3>1, <3>2 DEF Accepts, QuoteKept, DeliveriesOf, OperationOf
    <2> QED BY <2>1, <2>2 DEF Decided, Bound
  <1>2. x.stage = "driving" => binding'[x.scope] = [request |-> x.request, quote |-> x.quote]
    <2> SUFFICES ASSUME x.stage = "driving"
                 PROVE  binding'[x.scope] = [request |-> x.request, quote |-> x.quote]
      OBVIOUS
    <2>1. /\ x.scope \in Scopes /\ x.quote \in Quotes
          /\ binding[x.scope] = [request |-> x.request, quote |-> x.quote]
      BY DEF SessionHolds, Handling
    <2> QED BY <2>1, BoundByQuote DEF KeysKept
  <1>3. x.stage = "answered" /\ x.verdict = "done" =>
          x.quote \in Quotes /\ quote'[x.quote].status \in Ends
    BY DEF SessionHolds, QuoteGrows
  <1> QED BY <1>1, <1>2, <1>3 DEF SessionHolds, OperationOf

-----------------------------------------------------------------------------
(* Steps of one session that write nothing but, perhaps, draw a number.    *)

LEMMA SessionStep ==
    ASSUME IInv, NEW s \in Sessions, NEW x \in SessionRecord, Become(s, x),
           UNCHANGED <<now, quote, binding, delivery>>,
           drawn' \in 0..MaxNumber, drawn <= drawn',
           SessionHolds(s)',
           HoldsScope(s)' => \/ HoldsScope(s) /\ x.scope = session[s].scope
                             \/ ~ScopeLocked(x.scope),
           Accepting(s)' => \A t \in Sessions \ {s} :
                                Accepting(t) => session[t].quote # x.quote,
           Numbered(s)' => x.number = drawn' /\ drawn < drawn'
    PROVE  IInv'
  <1>1. session'[s] = x /\ \A t \in Sessions \ {s} : session'[t] = session[t]
    BY DEF IInv, Typed, Become
  <1>2. Typed'
    BY DEF IInv, Typed, Become
  <1>3. RowsHold'
    BY <1>2 DEF IInv, RowsHold, RowHolds, RowGood, Typed, QuoteRow
  <1>4. BindingsHold'
    BY DEF IInv, BindingsHold, BindingHolds, MailHolds, Bound, Expected
  <1>5. SessionsHold'
    <2> SUFFICES ASSUME NEW t \in Sessions \ {s} PROVE SessionHolds(t)'
      BY DEF SessionsHold
    <2>1. \A q \in Quotes : QuoteGrows(q) /\ QuoteKept(q)
      BY DEF QuoteGrows, QuoteKept, IInv, Typed, QuoteRow
    <2>2. Accepting(t) => session[t].quote \in Quotes
      BY DEF IInv, SessionsHold, SessionHolds, Decided, Accepting, At
    <2> QED BY <1>1, <2>1, <2>2, SessionKept DEF IInv, Typed, SessionsHold, KeysKept
  <1>6. Exclusive'
    <2>1. ASSUME NEW t \in Sessions \ {s}
          PROVE  /\ HoldsScope(s)' /\ HoldsScope(t)' => x.scope # session[t].scope
                 /\ Accepting(s)' /\ Accepting(t)' => x.quote # session[t].quote
      BY <1>1 DEF IInv, Exclusive, HoldsScope, ScopeLocked, Accepting, At
    <2> QED BY <1>1, <2>1 DEF IInv, Exclusive, HoldsScope, Accepting, At
  <1>7. NumbersHold'
    <2>1. /\ drawn \in Nat /\ drawn' \in Nat
          /\ \A q \in Quotes : quote[q].number \in Nat /\ quote[q].number <= drawn
          /\ \A t \in Sessions : session[t].number \in Nat
          /\ \A t \in Sessions : Numbered(t) => session[t].number <= drawn
      BY DEF IInv, Typed, QuoteRow, RowsHold, RowHolds, RowGood, NumbersHold, SessionRecord
    <2>2. ASSUME NEW t \in Sessions, Numbered(t)'
          PROVE  /\ session'[t].number <= drawn'
                 /\ \A q \in Quotes : session'[t].number # quote[q].number
                 /\ \A r \in Sessions : Numbered(r)' /\ t # r =>
                       session'[t].number # session'[r].number
      <3>1. CASE t = s
        BY <1>1, <2>1, <2>2, <3>1 DEF Numbered, At
      <3>2. CASE t # s
        <4>1. Numbered(t) /\ session'[t] = session[t] /\ session[t].number <= drawn
          BY <1>1, <2>1, <2>2, <3>2 DEF Numbered, At
        <4>2. ASSUME NEW r \in Sessions, Numbered(r)', t # r
              PROVE  session'[t].number # session'[r].number
          <5>1. CASE r = s
            BY <1>1, <2>1, <4>1, <4>2, <5>1
          <5>2. CASE r # s
            BY <1>1, <4>1, <4>2, <5>2 DEF IInv, NumbersHold, Numbered, At
          <5> QED BY <5>1, <5>2
        <4>3. \A q \in Quotes : session[t].number # quote[q].number
          BY <4>1 DEF IInv, NumbersHold
        <4> QED BY <2>1, <4>1, <4>2, <4>3
      <3> QED BY <3>1, <3>2
    <2> QED BY <2>2 DEF IInv, NumbersHold
  <1> QED BY <1>2, <1>3, <1>4, <1>5, <1>6, <1>7 DEF IInv

LEMMA SessionFacts ==
    ASSUME IInv, NEW s \in Sessions
    PROVE  /\ session[s] \in SessionRecord /\ SessionHolds(s)
           /\ \A x \in SessionRecord : Become(s, x) => session'[s] = x
  BY DEF IInv, Typed, SessionsHold, Become

LEMMA IdleType ==
    /\ IdleSession \in SessionRecord
    /\ IdleSession.stage = "idle" /\ IdleSession.scope = NoScope
    /\ IdleSession.request = NoRequest
  BY ConstantsAssumption
  DEF ConstantsAssumption, IdleSession, SessionRecord, Verdicts, NoNumber

(* What a client is told.                                                  *)
AnswerRecord(s, verdict, committed) ==
    [IdleSession EXCEPT !.stage = "answered", !.verdict = verdict,
        !.committed = committed, !.quote = IF committed THEN session[s].quote ELSE NoQuote]

LEMMA AnswerType ==
    ASSUME IInv, NEW s \in Sessions, NEW verdict \in Verdicts, NEW committed \in BOOLEAN
    PROVE  LET x == AnswerRecord(s, verdict, committed) IN
           /\ x \in SessionRecord
           /\ x.stage = "answered" /\ x.scope = NoScope /\ x.request = NoRequest
           /\ x.verdict = verdict /\ (committed => x.quote = session[s].quote)
  <1> DEFINE quoted == IF committed THEN session[s].quote ELSE NoQuote
             x == [IdleSession EXCEPT !.stage = "answered", !.verdict = verdict,
                       !.committed = committed, !.quote = quoted]
  <1>1. quoted \in Quotes \cup {NoQuote} /\ (committed => quoted = session[s].quote)
    BY SessionFacts DEF SessionRecord
  <1>2. AnswerRecord(s, verdict, committed) = x
    BY DEF AnswerRecord
  <1> HIDE DEF quoted
  <1>3. x \in SessionRecord
    BY <1>1, IdleType DEF SessionRecord
  <1>4. /\ x.stage = "answered" /\ x.scope = NoScope /\ x.request = NoRequest
        /\ x.verdict = verdict /\ x.quote = quoted
    BY <1>1, IdleType DEF SessionRecord
  <1> QED BY <1>1, <1>2, <1>3, <1>4

LEMMA AnswerStep ==
    ASSUME IInv, NEW s \in Sessions, NEW verdict \in Verdicts, NEW committed \in BOOLEAN,
           Answer(s, verdict, committed), UNCHANGED <<now, quote, binding, delivery, drawn>>,
           verdict = "done" => /\ committed /\ session[s].quote \in Quotes
                               /\ quote[session[s].quote].status \in Ends
    PROVE  IInv'
  <1> DEFINE x == AnswerRecord(s, verdict, committed)
  <1>1. Become(s, x)
    BY DEF Answer, AnswerRecord
  <1>2. /\ x \in SessionRecord /\ x.stage = "answered" /\ x.scope = NoScope
        /\ x.request = NoRequest /\ x.verdict = verdict /\ (committed => x.quote = session[s].quote)
    BY AnswerType
  <1> HIDE DEF x
  <1>3. session'[s] = x
    BY <1>1, <1>2, SessionFacts
  <1>4. SessionHolds(s)'
    BY <1>2, <1>3 DEF SessionHolds, Handling
  <1>5. ~HoldsScope(s)' /\ ~Accepting(s)' /\ ~Numbered(s)'
    BY <1>2, <1>3 DEF HoldsScope, Accepting, Numbered, At
  <1>6. drawn' \in 0..MaxNumber /\ drawn <= drawn'
    BY DEF IInv, Typed
  <1> QED BY <1>1, <1>2, <1>4, <1>5, <1>6, SessionStep

LEMMA EndSessionStep == ASSUME IInv, NEW s \in Sessions, EndSession(s) PROVE IInv'
  <1>1. Become(s, IdleSession) /\ session'[s] = IdleSession
    BY IdleType, SessionFacts DEF EndSession
  <1>2. SessionHolds(s)'
    BY <1>1, IdleType DEF SessionHolds, Handling
  <1>3. ~HoldsScope(s)' /\ ~Accepting(s)' /\ ~Numbered(s)'
    BY <1>1, IdleType DEF HoldsScope, Accepting, Numbered, At
  <1>4. drawn' \in 0..MaxNumber /\ drawn <= drawn' /\ UNCHANGED <<now, quote, binding, delivery>>
    BY DEF IInv, Typed, EndSession, database
  <1> QED BY <1>1, <1>2, <1>3, <1>4, IdleType, SessionStep

LEMMA BeginStep ==
    ASSUME IInv, NEW s \in Sessions, NEW sc \in Scopes, NEW r \in Requests[sc], Begin(s, sc, r)
    PROVE  IInv'
  <1> DEFINE x == [IdleSession EXCEPT !.stage = "begun", !.scope = sc, !.request = r,
                       !.started = IF Issues(Operation[sc]) THEN now ELSE NoTime]
  <1>1. Become(s, x)
    BY DEF Begin
  <1>2. x \in SessionRecord
    BY IdleType, ConstantsAssumption
    DEF ConstantsAssumption, IdleSession, SessionRecord, Handling, IInv, Typed
  <1>3. /\ x.stage = "begun" /\ x.scope = sc /\ x.request = r
        /\ x.number = NoNumber /\ (Issues(Operation[sc]) => x.started = now)
    BY DEF IdleSession
  <1> HIDE DEF x
  <1>4. session'[s] = x
    BY <1>1, <1>2, SessionFacts
  <1>5. SessionHolds(s)'
    BY <1>3, <1>4 DEF SessionHolds, Handling, OperationOf, IInv, Typed, NoTime
  <1>6. ~HoldsScope(s)' /\ ~Accepting(s)' /\ ~Numbered(s)'
    BY <1>3, <1>4 DEF HoldsScope, Accepting, Numbered, At
  <1>7. drawn' \in 0..MaxNumber /\ drawn <= drawn' /\ UNCHANGED <<now, quote, binding, delivery>>
    BY DEF IInv, Typed, Begin, database
  <1> QED BY <1>1, <1>2, <1>5, <1>6, <1>7, SessionStep

LEMMA LockScopeStep == ASSUME IInv, NEW s \in Sessions, LockScope(s) PROVE IInv'
  <1> DEFINE x == [session[s] EXCEPT !.stage = "scoped"]
  <1>1. Become(s, x) /\ At(s, "begun") /\ ~ScopeLocked(session[s].scope)
    BY DEF LockScope
  <1>2. /\ x \in SessionRecord /\ x.stage = "scoped" /\ x.scope = session[s].scope
        /\ x.request = session[s].request /\ x.started = session[s].started
        /\ x.number = session[s].number
    BY SessionFacts DEF SessionRecord, Handling
  <1> HIDE DEF x
  <1>3. session'[s] = x
    BY <1>1, <1>2, SessionFacts
  <1>4. SessionHolds(s)'
    BY <1>1, <1>2, <1>3, SessionFacts DEF SessionHolds, Handling, OperationOf, At
  <1>5. ~Accepting(s)' /\ ~Numbered(s)'
    BY <1>2, <1>3 DEF Accepting, Numbered, At
  <1>6. drawn' \in 0..MaxNumber /\ drawn <= drawn' /\ UNCHANGED <<now, quote, binding, delivery>>
    BY DEF IInv, Typed, LockScope, database
  <1> QED BY <1>1, <1>2, <1>4, <1>5, <1>6, SessionStep

LEMMA AnswerFromBindingStep == ASSUME IInv, NEW s \in Sessions, AnswerFromBinding(s) PROVE IInv'
  <1> DEFINE sc == session[s].scope
             r == session[s].request
             x == [session[s] EXCEPT !.stage = "decided", !.quote = binding[sc].quote,
                       !.verdict = BoundVerdict(sc, r)]
  <1>1. Become(s, x) /\ At(s, "scoped") /\ Bound(sc)
    BY DEF AnswerFromBinding
  <1>2. sc \in Scopes /\ binding[sc].quote \in Quotes /\ session[s].number \in 0..MaxNumber
    BY <1>1, SessionFacts
    DEF SessionHolds, SessionRecord, Handling, At, IInv, BindingsHold, BindingHolds
  <1>3. BoundVerdict(sc, r) \in Verdicts /\ BoundVerdict(sc, r) \in {"replayed", "conflict"}
    BY DEF BoundVerdict, Verdicts, Committing
  <1>4. /\ x \in SessionRecord /\ x.stage = "decided" /\ x.scope = sc /\ x.request = r
        /\ x.started = session[s].started /\ x.quote = binding[sc].quote
        /\ x.verdict = BoundVerdict(sc, r) /\ x.number = session[s].number
    BY <1>2, <1>3, SessionFacts DEF SessionRecord, Handling
  <1> HIDE DEF x
  <1>5. session'[s] = x /\ UNCHANGED <<now, quote, binding, delivery, drawn>>
    BY <1>1, <1>4, SessionFacts DEF AnswerFromBinding, database
  <1>6. SessionHolds(s)'
    <2>1. Decided(s)'
      BY <1>1, <1>2, <1>3, <1>4, <1>5 DEF Decided, Bound, BoundVerdict, Committing
    <2> QED BY <1>1, <1>4, <1>5, <2>1, SessionFacts DEF SessionHolds, Handling, OperationOf, At
  <1>7. ~Accepting(s)' /\ HoldsScope(s)
    BY <1>1, <1>3, <1>4, <1>5 DEF Accepting, HoldsScope, At
  <1>8. drawn' \in 0..MaxNumber /\ drawn <= drawn'
    BY <1>5 DEF IInv, Typed
  <1>9. ~Numbered(s)'
    BY <1>1, <1>4, <1>5, SessionFacts DEF Numbered, At, SessionHolds
  <1> QED BY <1>1, <1>4, <1>5, <1>6, <1>7, <1>8, <1>9, SessionStep

(* What a command that is accepted has found, under its locks.             *)
Found(s, q) ==
    LET row == quote[q]
        r == session[s].request
        operation == OperationOf(s) IN
    /\ Creates(operation) =>
          /\ row.status = "absent"
          /\ \A other \in Sessions : session[other].quote = q => ~Creates(OperationOf(other))
    /\ operation \in {"draft_update", "issue"} => row.status = "draft" /\ row.version = r.expected
    /\ operation = "cancel" =>
          /\ Effective(row, now) \in {"draft", "issuing", "issued"}
          /\ row.status = "issuing" => row.operation = "failed"
          /\ row.version = r.expected
    /\ operation = "delivery_email" => Effective(row, now) = "issued"

LEMMA CheckedFound ==
    ASSUME IInv, NEW s \in Sessions, At(s, "scoped"), NEW q \in Quotes, q \in Target(s),
           NEW enabled \in BOOLEAN
    PROVE  LET verdict == FirstFailing(Checks(s, now, enabled)) IN
           verdict \in Rejections \/ (verdict = "accepted" /\ Found(s, q))
  <1> DEFINE verdict == FirstFailing(Checks(s, now, enabled))
             r == session[s].request
             operation == OperationOf(s)
             row == IF r.quote = NoQuote THEN AbsentQuote ELSE quote[r.quote]
  <1>1. operation \in Operations
    BY SessionFacts, ConstantsAssumption
    DEF ConstantsAssumption, SessionHolds, Handling, At, OperationOf
  <1>2. CASE Creates(operation)
    <2>1. Checks(s, now, enabled) = CreateChecks(operation, r)
      BY <1>2 DEF Checks
    <2>2. verdict \in Rejections \cup {"accepted"}
      BY <2>1, CreateChecked
    <2>3. /\ quote[q].status = "absent"
          /\ \A other \in Sessions : session[other].quote = q => ~Creates(OperationOf(other))
      BY <1>2 DEF Target
    <2> QED BY <1>2, <2>2, <2>3 DEF Found, Creates
  <1>3. CASE ~Creates(operation)
    <2>1. row = quote[q]
      BY <1>3, ConstantsAssumption DEF ConstantsAssumption, Target
    <2>2. CASE operation = "cancel"
      <3>1. Checks(s, now, enabled) = CancelChecks(quote[q], PrincipalOf(s), r, now)
        BY <1>3, <2>1, <2>2 DEF Checks
      <3>2. \/ verdict \in Rejections
            \/ /\ verdict = "accepted"
               /\ Effective(quote[q], now) \in {"draft", "issuing", "issued"}
               /\ quote[q].status = "issuing" => quote[q].operation = "failed"
               /\ quote[q].version = r.expected
        BY <3>1, CancelChecked
      <3> QED BY <2>2, <3>2 DEF Found, Creates
    <2>3. CASE operation = "delivery_email"
      <3>1. Checks(s, now, enabled) = DeliveryChecks(quote[q], PrincipalOf(s), r, now, enabled)
        BY <1>3, <2>1, <2>3 DEF Checks
      <3>2. verdict \in Rejections \/ (verdict = "accepted" /\ Effective(quote[q], now) = "issued")
        BY <3>1, DeliveryChecked
      <3> QED BY <2>3, <3>2 DEF Found, Creates
    <2>4. CASE operation \in {"draft_update", "issue"}
      <3>1. Checks(s, now, enabled) = DraftChecks(quote[q], PrincipalOf(s), operation, r)
        BY <1>3, <2>1, <2>4 DEF Checks
      <3>2. \/ verdict \in Rejections
            \/ /\ verdict = "accepted"
               /\ quote[q].status = "draft" /\ quote[q].version = r.expected
        BY <3>1, DraftChecked
      <3> QED BY <2>4, <3>2 DEF Found, Creates
    <2> QED BY <1>1, <1>3, <2>2, <2>3, <2>4 DEF Operations, Creates
  <1> QED BY <1>2, <1>3

LEMMA DecideStep ==
    ASSUME IInv, NEW s \in Sessions, NEW q \in Quotes, NEW enabled \in BOOLEAN,
           Decide(s, q, enabled)
    PROVE  IInv'
  <1> DEFINE verdict == FirstFailing(Checks(s, now, enabled))
             draws == verdict = "accepted" /\ Issues(OperationOf(s))
             clock == IF OperationOf(s) \in {"cancel", "delivery_email"} THEN now ELSE NoTime
             number == IF draws THEN NextNumber ELSE NoNumber
             x == [session[s] EXCEPT !.stage = "decided", !.quote = q, !.clock = clock,
                       !.verdict = verdict, !.number = number]
  <1>1. /\ At(s, "scoped") /\ ~Bound(session[s].scope) /\ q \in Target(s) /\ ~Waits(s, q)
        /\ draws => NextNumber <= MaxNumber
        /\ drawn' = IF draws THEN drawn + 1 ELSE drawn
        /\ Become(s, x) /\ UNCHANGED <<now, quote, binding, delivery>>
    BY DEF Decide
  <1>2. verdict \in Rejections \/ (verdict = "accepted" /\ Found(s, q))
    BY <1>1, CheckedFound
  <1> HIDE DEF verdict
  <1>3. /\ drawn \in Nat /\ drawn' \in 0..MaxNumber /\ drawn <= drawn' /\ number \in 0..MaxNumber
        /\ number # NoNumber => number = drawn' /\ drawn < drawn'
        /\ draws => number # NoNumber
    BY <1>1, ConstantsAssumption DEF ConstantsAssumption, IInv, Typed, NextNumber, NoNumber
  <1>4. clock \in {NoTime} \cup 0..MaxNow
        /\ (OperationOf(s) \in {"cancel", "delivery_email"} => clock = now)
    BY DEF IInv, Typed
  <1> HIDE DEF number, clock
  <1>5. verdict \in Verdicts /\ verdict \in Rejections \cup Committing
    BY <1>2 DEF Verdicts, Committing
  <1>6. x \in SessionRecord
    BY <1>3, <1>4, <1>5, SessionFacts DEF SessionRecord, Handling
  <1>7. /\ x.stage = "decided" /\ x.quote = q /\ x.clock = clock /\ x.verdict = verdict
        /\ x.number = number /\ x.scope = session[s].scope /\ x.request = session[s].request
        /\ x.started = session[s].started
    BY SessionFacts DEF SessionRecord
  <1> HIDE DEF x
  <1>8. session'[s] = x
    BY <1>1, <1>6, SessionFacts
  <1>9. verdict = "accepted" => Accepts(s)'
    <2> SUFFICES ASSUME verdict = "accepted" PROVE Accepts(s)'
      OBVIOUS
    <2>1. Found(s, q) /\ (Issues(OperationOf(s)) => number # NoNumber)
      BY <1>2, <1>3 DEF Rejections
    <2>2. now \in 0..now /\ \A sc \in Scopes : delivery[sc].at <= now
      BY DEF IInv, Typed, BindingsHold, BindingHolds
    <2>3. OperationOf(s)' = OperationOf(s)
      BY <1>7, <1>8 DEF OperationOf
    <2> QED BY <1>1, <1>4, <1>7, <1>8, <2>1, <2>2, <2>3 DEF Accepts, Found, DeliveriesOf
  <1>10. SessionHolds(s)'
    <2>1. Decided(s)'
      BY <1>1, <1>2, <1>5, <1>7, <1>8, <1>9 DEF Decided, Bound, Rejections
    <2> QED BY <1>1, <1>7, <1>8, <2>1, SessionFacts DEF SessionHolds, Handling, OperationOf, At
  <1>11. Accepting(s)' => \A t \in Sessions \ {s} : Accepting(t) => session[t].quote # x.quote
    <2> SUFFICES ASSUME verdict = "accepted", NEW t \in Sessions \ {s}, Accepting(t),
                        session[t].quote = q
                 PROVE  FALSE
      BY <1>7, <1>8 DEF Accepting, At
    <2>1. quote[q].status = "absent"
      BY <1>1 DEF Waits, RowLocked, Accepting, At
    <2>2. OperationOf(t) \in Operations /\ OperationOf(s) \in Operations
      BY <1>1, SessionFacts, ConstantsAssumption
      DEF ConstantsAssumption, SessionHolds, Handling, At, Accepting, OperationOf
    <2>3. Creates(OperationOf(t))
      <3>1. Accepts(t)
        BY SessionFacts DEF SessionHolds, Decided, Accepting, At
      <3> QED BY <2>1, <2>2, <3>1 DEF Accepts, Operations, Creates, Effective
    <2>4. Creates(OperationOf(s))
      BY <1>2, <2>1, <2>2 DEF Found, Operations, Creates, Effective, Rejections
    <2> QED BY <1>2, <2>3, <2>4 DEF Found, Rejections
  <1>12. HoldsScope(s) /\ x.scope = session[s].scope
    BY <1>1, <1>7 DEF HoldsScope, At
  <1>13. Numbered(s)' => x.number = drawn' /\ drawn < drawn'
    BY <1>3, <1>7, <1>8 DEF Numbered
  <1> QED BY <1>1, <1>3, <1>6, <1>10, <1>11, <1>12, <1>13, SessionStep

(* The steps of a session that answer without an effect.                   *)
LEMMA AnsweringStep ==
    ASSUME IInv, NEW s \in Sessions, ~Accepting(s),
           \/ Commit(s) \/ CommitOutcomeUnknown(s) \/ Reject(s) \/ DatabaseFails(s)
           \/ AnswerIssuance(s) \/ AnswerReadFails(s)
    PROVE  IInv'
  <1> DEFINE verdict == session[s].verdict
  <1> USE DEF Verdicts, Rejections, Committing, database
  <1>1. At(s, "decided") => verdict \in Verdicts /\ verdict # "done"
    BY SessionFacts DEF SessionHolds, Decided, At
  <1>2. CASE Commit(s)
    BY <1>1, <1>2, AnswerStep DEF Commit, Apply, Drives, Accepting
  <1>3. CASE CommitOutcomeUnknown(s)
    BY <1>1, <1>3, AnswerStep DEF CommitOutcomeUnknown, Apply, Accepting
  <1>4. CASE Reject(s) \/ DatabaseFails(s)
    BY <1>1, <1>4, AnswerStep DEF Reject, DatabaseFails
  <1>5. CASE AnswerReadFails(s)
    BY <1>5, AnswerStep DEF AnswerReadFails
  <1>6. CASE AnswerIssuance(s)
    <2> DEFINE q == session[s].quote
               answer == IF ReadBack(s) = "issuing" THEN "issuing" ELSE "done"
    <2>1. q \in Quotes /\ quote[q].status \notin Open
      <3>1. /\ q \in Quotes /\ session[s].scope \in Scopes
            /\ binding[session[s].scope].quote = q /\ Issues(OperationOf(s))
        <4>1. session[s].stage = "driving" /\ SessionHolds(s)
          BY <1>6, SessionFacts DEF AnswerIssuance, At
        <4>2. /\ q \in Quotes /\ session[s].scope \in Scopes /\ Issues(OperationOf(s))
              /\ binding[session[s].scope] = [request |-> session[s].request, quote |-> q]
          BY <4>1 DEF SessionHolds, Handling
        <4> QED BY <4>2
      <3>2. Bound(session[s].scope) /\ BindingHolds(session[s].scope)
        BY <3>1, BoundByQuote DEF IInv, BindingsHold
      <3> QED BY <3>1, <3>2 DEF BindingHolds, OperationOf
    <2>2. answer = "done" => quote[q].status \in Ends
      <3>1. quote[q].status \in {"absent", "draft", "issuing", "issued", "cancelled", "expired"}
        BY <2>1 DEF IInv, Typed, QuoteRow
      <3> QED BY <2>1, <3>1 DEF ReadBack, Effective, Ends, Open
    <2>3. answer \in Verdicts /\ Answer(s, answer, TRUE)
          /\ UNCHANGED <<now, quote, binding, delivery, drawn>>
      BY <1>6 DEF AnswerIssuance
    <2> HIDE DEF answer
    <2> QED BY <2>1, <2>2, <2>3, AnswerStep
  <1> QED BY <1>2, <1>3, <1>4, <1>5, <1>6

-----------------------------------------------------------------------------
(* The effect of a command.                                                *)

LEMMA PatchedType ==
    ASSUME NEW content \in Contents, NEW r \in RequestRecord
    PROVE  Patched(content, r.parts) \in Contents
  <1>1. PICK P \in SUBSET Parts : r.parts \in [P -> Values \cup {Nothing}]
    BY DEF RequestRecord
  <1> QED BY <1>1 DEF Patched, Contents

LEMMA AbsentType ==
    /\ AbsentQuote \in QuoteRow
    /\ AbsentQuote.status = "absent" /\ AbsentQuote.operation = "none"
    /\ AbsentQuote.number = NoNumber /\ AbsentQuote.ended = NoTime /\ AbsentQuote.version = 0
    /\ AbsentQuote.until = NoTime
  <1>1. AbsentQuote.content \in Contents
    BY DEF AbsentQuote, Contents
  <1> QED BY <1>1, ConstantsAssumption
          DEF ConstantsAssumption, AbsentQuote, QuoteRow, NoNumber

(* The session that commits, and the quote it commits to.                  *)
LEMMA AcceptingFacts ==
    ASSUME IInv, NEW s \in Sessions, Accepting(s)
    PROVE  /\ session[s].scope \in Scopes
           /\ OperationOf(s) \in Operations
           /\ session[s].request \in Requests[session[s].scope]
           /\ session[s].request \in RequestRecord
           /\ session[s].quote \in Quotes
           /\ ~Bound(session[s].scope)
           /\ Accepts(s)
           /\ PrincipalOf(s) \in {Principal[sc] : sc \in Scopes}
           /\ Issues(OperationOf(s)) => session[s].started \in 0..MaxNow
           /\ session[s].clock \in {NoTime} \cup 0..MaxNow
           /\ session[s].number \in 0..MaxNumber
           /\ quote[session[s].quote] \in QuoteRow /\ RowHolds(session[s].quote)
  <1>1. session[s] \in SessionRecord /\ SessionHolds(s) /\ Decided(s)
    BY SessionFacts DEF SessionHolds, Accepting, At
  <1>2. session[s].scope \in Scopes /\ session[s].request \in Requests[session[s].scope]
    BY <1>1 DEF SessionHolds, Accepting, At, Handling
  <1>3. /\ OperationOf(s) \in Operations /\ session[s].request \in RequestRecord
        /\ PrincipalOf(s) \in {Principal[sc] : sc \in Scopes}
    BY <1>2, ConstantsAssumption DEF ConstantsAssumption, OperationOf, PrincipalOf
  <1>4. /\ session[s].quote \in Quotes /\ ~Bound(session[s].scope) /\ Accepts(s)
    BY <1>1 DEF Decided, Accepting
  <1>5. Issues(OperationOf(s)) => session[s].started \in 0..MaxNow
    BY <1>1 DEF SessionHolds, SessionRecord, Accepting, At, Handling
  <1>6. session[s].clock \in {NoTime} \cup 0..MaxNow /\ session[s].number \in 0..MaxNumber
    BY <1>1 DEF SessionRecord
  <1>7. quote[session[s].quote] \in QuoteRow /\ RowHolds(session[s].quote)
    BY <1>4 DEF IInv, Typed, RowsHold
  <1> QED BY <1>2, <1>3, <1>4, <1>5, <1>6, <1>7

(* The row of a new draft.                                                 *)
LEMMA DraftRowType ==
    ASSUME IInv, NEW s \in Sessions, Accepting(s)
    PROVE  LET row == DraftRow(s) IN
           /\ row \in QuoteRow
           /\ row.status = "draft" /\ row.version = 1 /\ row.operation = "none"
           /\ row.number = NoNumber /\ row.ended = NoTime /\ row.until = NoTime
  <1> DEFINE content == Snapshot(session[s].request.parts)
             principal == PrincipalOf(s)
             row == [AbsentQuote EXCEPT !.status = "draft", !.version = 1,
                         !.content = content, !.creator = principal]
  <1>1. content \in Contents /\ principal \in {Principal[sc] : sc \in Scopes} \cup {NoPrincipal}
    BY AcceptingFacts, AbsentType, PatchedType DEF Snapshot, QuoteRow
  <1>2. DraftRow(s) = row
    BY DEF DraftRow
  <1> HIDE DEF content, principal
  <1>3. row \in QuoteRow
    BY <1>1, AbsentType DEF QuoteRow
  <1>4. /\ row.status = "draft" /\ row.version = 1 /\ row.operation = "none"
        /\ row.number = NoNumber /\ row.ended = NoTime /\ row.until = NoTime
    BY AbsentType DEF QuoteRow
  <1> QED BY <1>2, <1>3, <1>4

(* A row frozen for issuance.                                              *)
LEMMA FrozenType ==
    ASSUME IInv, NEW s \in Sessions, Accepting(s), Issues(OperationOf(s)),
           NEW row \in QuoteRow, NEW increment \in Nat
    PROVE  LET new == Frozen(s, row, increment) IN
           /\ new \in QuoteRow
           /\ new.status = "issuing" /\ new.version = row.version + increment
           /\ new.operation = "pending" /\ new.number = session[s].number
           /\ new.ended = row.ended /\ new.until # NoTime
  <1> DEFINE until == session[s].started + Validity
  <1>1. until \in 0..(MaxNow + Validity) /\ session[s].number \in 0..MaxNumber
        /\ row.version + increment \in Nat
    BY AcceptingFacts, ConstantsAssumption DEF ConstantsAssumption, QuoteRow
  <1>2. until # NoTime
    BY <1>1, ConstantsAssumption DEF ConstantsAssumption, NoTime
  <1> HIDE DEF until
  <1>3. Frozen(s, row, increment) =
          [row EXCEPT !.status = "issuing", !.version = row.version + increment,
              !.number = session[s].number, !.until = until, !.operation = "pending"]
    BY DEF Frozen, until
  <1> QED BY <1>1, <1>2, <1>3 DEF QuoteRow

(* What an effect makes of the row of its quote.                           *)
Written(s) ==
    LET q == session[s].quote
        row == quote[q]
        new == quote'[q]
        operation == OperationOf(s) IN
    /\ quote' \in [Quotes -> QuoteRow]
    /\ \A p \in Quotes \ {q} : quote'[p] = quote[p]
    /\ QuoteGrows(q) /\ new.status # "absent"
    /\ operation \in Changing => session[s].request.expected < new.version
    /\ Issues(operation) => new.status \notin Open
    /\ \/ new.number = row.number
       \/ Issues(operation) /\ new.number = session[s].number
    /\ row.status \in Ends => new.until = row.until
    /\ \/ new.status # "cancelled"
       \/ new = row
       \/ operation = "cancel" /\ new.ended = session[s].clock
    /\ operation = "delivery_email" => new = row /\ row.status = "issued"
    /\ RowGood(new, drawn, now)

LEMMA RowSet ==
    ASSUME IInv, NEW q \in Quotes, NEW new \in QuoteRow, SetQuote(q, new)
    PROVE  /\ quote' \in [Quotes -> QuoteRow]
           /\ quote'[q] = new
           /\ \A p \in Quotes \ {q} : quote'[p] = quote[p]
  BY DEF IInv, Typed, SetQuote

LEMMA CreateWritten ==
    ASSUME IInv, NEW s \in Sessions, Accepting(s), CreateDraft(s) \/ CreateAndIssue(s),
           UNCHANGED <<now, drawn>>
    PROVE  Written(s)
  <1> DEFINE q == session[s].quote
  <1>1. /\ q \in Quotes /\ quote[q] \in QuoteRow /\ RowHolds(q) /\ Accepts(s)
        /\ session[s].number \in 0..MaxNumber
    BY AcceptingFacts
  <1>2. quote[q] = AbsentQuote
    BY <1>1 DEF CreateDraft, CreateAndIssue, Writes, Accepts, Creates, RowHolds, RowGood
  <1>3. CASE CreateDraft(s)
    <2> DEFINE new == DraftRow(s)
    <2>1. /\ new \in QuoteRow /\ new.status = "draft" /\ new.version = 1
          /\ new.operation = "none" /\ new.number = NoNumber /\ new.ended = NoTime
      BY DraftRowType
    <2>2. SetQuote(q, new) /\ OperationOf(s) = "draft_create"
      BY <1>3 DEF CreateDraft, Writes
    <2> HIDE DEF new
    <2>3. /\ quote' \in [Quotes -> QuoteRow] /\ quote'[q] = new
          /\ \A p \in Quotes \ {q} : quote'[p] = quote[p]
      BY <1>1, <2>1, <2>2, RowSet
    <2>4. QuoteGrows(q)
      BY <1>2, <2>1, <2>3, AbsentType DEF QuoteGrows, Open, Ends
    <2>5. RowGood(quote'[q], drawn, now)
      BY <2>1, <2>3 DEF RowHolds, RowGood, NoNumber, IInv, Typed
    <2> QED BY <1>2, <2>1, <2>2, <2>3, <2>4, <2>5, AbsentType DEF Written, Changing, Issues, Ends
  <1>4. CASE CreateAndIssue(s)
    <2> DEFINE draft == DraftRow(s)
               new == Frozen(s, draft, 0)
    <2>1. OperationOf(s) = "create_and_issue" /\ SetQuote(q, new)
      BY <1>4 DEF CreateAndIssue, Writes
    <2>2. draft \in QuoteRow /\ draft.version = 1 /\ draft.ended = NoTime
      BY DraftRowType
    <2>3. /\ new \in QuoteRow /\ new.status = "issuing" /\ new.version = draft.version + 0
          /\ new.operation = "pending" /\ new.number = session[s].number
          /\ new.ended = NoTime /\ new.until # NoTime
      <3> HIDE DEF draft
      <3>1. Issues(OperationOf(s)) /\ 0 \in Nat
        BY <2>1 DEF Issues
      <3>2. /\ new \in QuoteRow /\ new.status = "issuing" /\ new.version = draft.version + 0
            /\ new.operation = "pending" /\ new.number = session[s].number
            /\ new.ended = draft.ended /\ new.until # NoTime
        BY <2>2, <3>1, FrozenType
      <3> QED BY <2>2, <3>2
    <2> HIDE DEF new, draft
    <2>4. /\ quote' \in [Quotes -> QuoteRow] /\ quote'[q] = new
          /\ \A p \in Quotes \ {q} : quote'[p] = quote[p]
      BY <1>1, <2>1, <2>3, RowSet
    <2>5. QuoteGrows(q)
      BY <1>2, <2>2, <2>3, <2>4, AbsentType DEF QuoteGrows, Open, Ends
    <2>6. session[s].number # NoNumber /\ session[s].number <= drawn
      BY <1>1, <2>1 DEF Accepts, Issues, Accepting, IInv, NumbersHold, Numbered
    <2>7. RowGood(quote'[q], drawn, now)
      BY <2>3, <2>4, <2>6 DEF RowHolds, RowGood, Open
    <2> QED BY <1>2, <2>1, <2>3, <2>4, <2>5, <2>7, AbsentType
            DEF Written, Changing, Issues, Open, Ends
  <1> QED BY <1>3, <1>4

LEMMA DraftWritten ==
    ASSUME IInv, NEW s \in Sessions, Accepting(s), UpdateDraft(s) \/ IssueDraft(s),
           UNCHANGED <<now, drawn>>
    PROVE  Written(s)
  <1> DEFINE q == session[s].quote
             row == quote[q]
             r == session[s].request
  <1>1. /\ q \in Quotes /\ row \in QuoteRow /\ RowHolds(q) /\ Accepts(s) /\ r \in RequestRecord
    BY AcceptingFacts
  <1>2. row.status = "draft" /\ row.version = r.expected /\ row.version \in Nat
    BY <1>1 DEF UpdateDraft, IssueDraft, Writes, Accepts, QuoteRow
  <1>3. /\ row.operation = "none" /\ row.number = NoNumber /\ row.ended = NoTime
        /\ row.number \in 0..MaxNumber
    BY <1>1, <1>2 DEF RowHolds, RowGood, Open, QuoteRow
  <1>4. CASE UpdateDraft(s)
    <2> DEFINE content == Patched(row.content, r.parts)
               version == row.version + 1
               new == [row EXCEPT !.version = version, !.content = content]
    <2>1. content \in Contents /\ version \in Nat /\ version = row.version + 1
      BY <1>1, <1>2, PatchedType DEF QuoteRow
    <2>2. SetQuote(q, new) /\ OperationOf(s) = "draft_update"
      BY <1>4 DEF UpdateDraft, Writes
    <2> HIDE DEF content, version, row
    <2>3. /\ new \in QuoteRow /\ new.status = "draft" /\ new.version = version
          /\ new.operation = "none" /\ new.number = NoNumber /\ new.ended = NoTime
      BY <1>1, <1>2, <1>3, <2>1 DEF QuoteRow
    <2> HIDE DEF new
    <2> USE DEF row
    <2>4. /\ quote' \in [Quotes -> QuoteRow] /\ quote'[q] = new
          /\ \A p \in Quotes \ {q} : quote'[p] = quote[p]
      BY <1>1, <2>2, <2>3, RowSet
    <2>5. QuoteGrows(q)
      BY <1>2, <2>1, <2>3, <2>4 DEF QuoteGrows, Open, Ends
    <2>6. RowGood(quote'[q], drawn, now)
      BY <2>3, <2>4 DEF RowHolds, RowGood, NoNumber, IInv, Typed
    <2> QED BY <1>2, <1>3, <2>1, <2>2, <2>3, <2>4, <2>5, <2>6 DEF Written, Changing, Issues, Ends
  <1>5. CASE IssueDraft(s)
    <2> DEFINE new == Frozen(s, row, 1)
    <2>1. OperationOf(s) = "issue" /\ SetQuote(q, new)
      BY <1>5 DEF IssueDraft, Writes
    <2>2. /\ new \in QuoteRow /\ new.status = "issuing" /\ new.version = row.version + 1
          /\ new.operation = "pending" /\ new.number = session[s].number
          /\ new.ended = NoTime /\ new.until # NoTime
      BY <1>1, <1>3, <2>1, FrozenType DEF Issues
    <2> HIDE DEF new
    <2>3. /\ quote' \in [Quotes -> QuoteRow] /\ quote'[q] = new
          /\ \A p \in Quotes \ {q} : quote'[p] = quote[p]
      BY <1>1, <2>1, <2>2, RowSet
    <2>4. QuoteGrows(q)
      BY <1>2, <2>2, <2>3 DEF QuoteGrows, Open, Ends
    <2>5. session[s].number # NoNumber /\ session[s].number <= drawn
      BY <1>1, <2>1 DEF Accepts, Issues, Accepting, IInv, NumbersHold, Numbered
    <2>6. RowGood(quote'[q], drawn, now)
      BY <2>2, <2>3, <2>5 DEF RowHolds, RowGood, Open
    <2> QED BY <1>2, <2>1, <2>2, <2>3, <2>4, <2>6 DEF Written, Changing, Issues, Open, Ends
  <1> QED BY <1>4, <1>5

LEMMA CancelWritten ==
    ASSUME IInv, NEW s \in Sessions, Accepting(s), CancelQuote(s), UNCHANGED <<now, drawn>>
    PROVE  Written(s)
  <1> DEFINE q == session[s].quote
             row == quote[q]
             r == session[s].request
             clock == session[s].clock
             version == row.version + 1
             new == [row EXCEPT !.status = "cancelled", !.version = version, !.ended = clock]
  <1>1. /\ q \in Quotes /\ row \in QuoteRow /\ RowHolds(q) /\ Accepts(s)
        /\ OperationOf(s) = "cancel" /\ SetQuote(q, new)
    BY AcceptingFacts DEF CancelQuote, Writes
  <1>2. /\ clock \in 0..now /\ Effective(row, clock) \in {"draft", "issuing", "issued"}
        /\ row.version = r.expected /\ row.version \in Nat /\ row.number <= drawn
        /\ now \in 0..MaxNow
    BY <1>1 DEF Accepts, QuoteRow, RowHolds, RowGood, IInv, Typed
  <1>3. /\ row.status \in {"draft", "issuing", "issued"}
        /\ row.status = "issued" => ~(clock >= row.until)
    BY <1>2 DEF Effective
  <1>4. clock \in 0..MaxNow /\ clock # NoTime /\ clock \in {NoTime} \cup 0..MaxNow
    BY <1>2, ConstantsAssumption DEF ConstantsAssumption, NoTime
  <1>5. /\ row.operation = "succeeded" => row.status = "issued" /\ row.until # NoTime
        /\ row.number # NoNumber <=> row.operation # "none"
        /\ row.operation # "none" => row.until # NoTime
        /\ row.until \in {NoTime} \cup 0..(MaxNow + Validity)
    BY <1>1, <1>3 DEF RowHolds, RowGood, Open, QuoteRow
  <1>6. row.operation = "succeeded" => clock < row.until
    BY <1>3, <1>4, <1>5, ConstantsAssumption DEF ConstantsAssumption
  <1>7a. version \in Nat /\ version = row.version + 1
    BY <1>2
  <1> HIDE DEF clock, version, row
  <1>7. /\ new \in QuoteRow /\ new.status = "cancelled" /\ new.version = version
        /\ new.operation = row.operation /\ new.number = row.number /\ new.ended = clock
        /\ new.until = row.until
    BY <1>1, <1>4, <1>7a DEF QuoteRow
  <1> HIDE DEF new
  <1> USE DEF row
  <1>8. /\ quote' \in [Quotes -> QuoteRow] /\ quote'[q] = new
        /\ \A p \in Quotes \ {q} : quote'[p] = quote[p]
    BY <1>1, <1>7, RowSet
  <1>9. QuoteGrows(q)
    BY <1>2, <1>3, <1>7, <1>8, <1>7a DEF QuoteGrows, Open, Ends
  <1>10. RowGood(quote'[q], drawn, now)
    BY <1>2, <1>4, <1>5, <1>6, <1>7, <1>8 DEF RowHolds, RowGood, Open
  <1> QED BY <1>1, <1>2, <1>7, <1>8, <1>9, <1>10, <1>7a DEF Written, Changing, Issues, Open, Ends, clock

LEMMA MailWritten ==
    ASSUME IInv, NEW s \in Sessions, Accepting(s), RequestDelivery(s), UNCHANGED <<now, drawn>>
    PROVE  Written(s)
  <1> DEFINE q == session[s].quote
  <1>1. q \in Quotes /\ RowHolds(q) /\ Accepts(s) /\ OperationOf(s) = "delivery_email"
    BY AcceptingFacts DEF RequestDelivery, Writes
  <1>2. quote' = quote /\ quote \in [Quotes -> QuoteRow] /\ quote[q].version \in Nat
    BY <1>1 DEF RequestDelivery, IInv, Typed, QuoteRow
  <1>3. quote[q].status = "issued"
    BY <1>1 DEF Accepts, Effective
  <1>4. RowGood(quote'[q], drawn, now)
    BY <1>1, <1>2 DEF RowHolds, RowGood
  <1> QED BY <1>1, <1>2, <1>3, <1>4 DEF Written, QuoteGrows, Changing, Issues

LEMMA EffectWritten ==
    ASSUME IInv, NEW s \in Sessions, Accepting(s), Effect(s), UNCHANGED <<now, drawn>>
    PROVE  Written(s)
  BY CreateWritten, DraftWritten, CancelWritten, MailWritten DEF Effect

(* What an effect makes of the deliveries.                                 *)
Mailed(s) ==
    LET q == session[s].quote
        own == session[s].scope
        operation == OperationOf(s) IN
    /\ delivery' \in [Scopes -> DeliveryRecord]
    /\ \A sc \in Scopes :
          \/ delivery'[sc] = delivery[sc]
          \/ sc = own /\ operation = "delivery_email"
          \/ /\ sc \in DeliveriesOf(q)
             /\ delivery'[sc].status = "failed" /\ delivery'[sc].at <= now
    /\ operation = "delivery_email" =>
          delivery'[own].status = "pending" /\ delivery'[own].at <= now
    /\ operation = "cancel" => \A sc \in DeliveriesOf(q) : delivery'[sc].status # "pending"

(* Only an ended or issued quote has deliveries.                           *)
LEMMA MailOfQuote ==
    ASSUME IInv, NEW q \in Quotes, NEW sc \in DeliveriesOf(q)
    PROVE  sc \in Scopes /\ Bound(sc) /\ quote[q].status \in Ends
  <1>1. sc \in Scopes /\ binding[sc].quote = q /\ Operation[sc] = "delivery_email"
    BY DEF DeliveriesOf
  <1>2. Bound(sc) /\ BindingHolds(sc)
    BY <1>1, BoundByQuote DEF IInv, BindingsHold
  <1> QED BY <1>1, <1>2 DEF BindingHolds, MailHolds

LEMMA EffectMails ==
    ASSUME IInv, NEW s \in Sessions, Accepting(s), Effect(s)
    PROVE  Mailed(s)
  <1> DEFINE q == session[s].quote
             own == session[s].scope
             clock == session[s].clock
  <1>1. /\ own \in Scopes /\ q \in Quotes /\ Accepts(s) /\ clock \in {NoTime} \cup 0..MaxNow
        /\ delivery \in [Scopes -> DeliveryRecord] /\ now \in 0..MaxNow
    BY AcceptingFacts DEF IInv, Typed
  <1>2. CASE CancelQuote(s)
    <2> DEFINE lost(sc) == /\ quote[q].status = "issued" /\ sc \in DeliveriesOf(q)
                           /\ delivery[sc].status = "pending"
    <2>1. /\ OperationOf(s) = "cancel"
          /\ delivery' = [sc \in Scopes |->
                IF lost(sc) THEN [status |-> "failed", at |-> clock] ELSE delivery[sc]]
      BY <1>2 DEF CancelQuote, Writes
    <2>2. clock \in 0..now /\ Effective(quote[q], clock) \in {"draft", "issuing", "issued"}
      BY <1>1, <2>1 DEF Accepts
    <2>3. quote[q].status \in {"draft", "issuing", "issued"}
      BY <2>2 DEF Effective
    <2>4. \A sc \in DeliveriesOf(q) : sc \in Scopes /\ quote[q].status = "issued"
      BY <1>1, <2>3, MailOfQuote DEF Ends
    <2> HIDE DEF clock
    <2>5. ASSUME NEW sc \in Scopes
          PROVE  /\ delivery'[sc] \in DeliveryRecord
                 /\ \/ delivery'[sc] = delivery[sc]
                    \/ /\ sc \in DeliveriesOf(q)
                       /\ delivery'[sc].status = "failed" /\ delivery'[sc].at <= now
                 /\ sc \in DeliveriesOf(q) => delivery'[sc].status # "pending"
      <3>1. CASE lost(sc)
        <4>1. delivery'[sc] = [status |-> "failed", at |-> clock]
          BY <2>1, <3>1
        <4>2. clock <= now
          BY <1>1, <2>2
        <4> QED BY <1>1, <3>1, <4>1, <4>2 DEF DeliveryRecord
      <3>2. CASE ~lost(sc)
        <4>1. delivery'[sc] = delivery[sc]
          BY <2>1, <3>2
        <4> QED BY <1>1, <2>4, <3>2, <4>1
      <3> QED BY <3>1, <3>2
    <2>6. DOMAIN delivery' = Scopes /\ delivery' \in [Scopes -> DeliveryRecord]
      BY <2>1, <2>5
    <2> QED BY <2>1, <2>4, <2>5, <2>6 DEF Mailed
  <1>3. CASE RequestDelivery(s)
    <2>1. /\ OperationOf(s) = "delivery_email"
          /\ delivery' = [delivery EXCEPT ![own] = [status |-> "pending", at |-> clock]]
      BY <1>3 DEF RequestDelivery, Writes
    <2>2. clock <= now
      BY <1>1, <2>1 DEF Accepts
    <2> QED BY <1>1, <2>1, <2>2 DEF Mailed, DeliveryRecord
  <1>4. CASE CreateDraft(s) \/ CreateAndIssue(s) \/ UpdateDraft(s) \/ IssueDraft(s)
    <2>1. /\ delivery' = delivery
          /\ OperationOf(s) \in {"draft_create", "create_and_issue", "draft_update", "issue"}
      BY <1>4 DEF CreateDraft, CreateAndIssue, UpdateDraft, IssueDraft, Writes
    <2> QED BY <1>1, <2>1 DEF Mailed
  <1> QED BY <1>2, <1>3, <1>4 DEF Effect

LEMMA EffectBindings ==
    ASSUME IInv, NEW s \in Sessions, Accepting(s), Written(s), Mailed(s), Bind(s), now' = now
    PROVE  /\ binding' \in [Scopes -> BindingRecord]
           /\ binding'[session[s].scope] = [request |-> session[s].request, quote |-> session[s].quote]
           /\ \A sc \in Scopes \ {session[s].scope} : binding'[sc] = binding[sc]
           /\ BindingsHold'
  <1>0. PICK own \in Scopes, q \in Quotes, r \in RequestRecord :
            own = session[s].scope /\ q = session[s].quote /\ r = session[s].request
    BY AcceptingFacts
  <1>1. r \in Requests[own] /\ ~Bound(own) /\ Accepts(s)
    BY <1>0, AcceptingFacts
  <1>2. /\ binding' = [binding EXCEPT ![own] = [request |-> r, quote |-> q]]
        /\ binding \in [Scopes -> BindingRecord]
    BY <1>0, <1>1 DEF Bind, IInv, Typed
  <1>3. /\ binding' \in [Scopes -> BindingRecord]
        /\ binding'[own] = [request |-> r, quote |-> q]
        /\ \A sc \in Scopes \ {own} : binding'[sc] = binding[sc]
    BY <1>1, <1>2 DEF BindingRecord
  <1>4. BindingHolds(own)'
    <2>1. /\ delivery[own].status = "none" /\ delivery[own].at <= now /\ own \notin DeliveriesOf(q)
      BY <1>1, MailOfQuote DEF IInv, BindingsHold, BindingHolds
    <2>2. /\ quote'[q].status # "absent"
          /\ Operation[own] \in Changing => r.expected < quote'[q].version
          /\ Issues(Operation[own]) => quote'[q].status \notin Open
          /\ Operation[own] = "delivery_email" => quote'[q].status = "issued"
      BY <1>0 DEF Written, OperationOf
    <2>3. /\ \/ delivery'[own] = delivery[own]
             \/ Operation[own] = "delivery_email" /\ delivery'[own].status = "pending"
          /\ Operation[own] = "delivery_email" => delivery'[own].status = "pending"
          /\ delivery'[own].at <= now
      BY <1>0, <1>1, <2>1 DEF Mailed, OperationOf
    <2>4. Bound(own)'
      BY <1>1, <1>3, ConstantsAssumption DEF ConstantsAssumption, Bound, NoBinding
    <2>5. Operation[own] = "delivery_email" => MailHolds(own)'
      BY <1>3, <2>2, <2>3 DEF MailHolds, Ends
    <2> QED BY <1>1, <1>3, <2>1, <2>2, <2>3, <2>4, <2>5 DEF BindingHolds, Expected
  <1>5. ASSUME NEW sc \in Scopes \ {own} PROVE BindingHolds(sc)'
    <2> DEFINE p == binding[sc].quote
    <2>1. /\ BindingHolds(sc) /\ binding'[sc] = binding[sc] /\ (Bound(sc)' <=> Bound(sc))
      BY <1>3 DEF IInv, BindingsHold, Bound
    <2>2. /\ \/ delivery'[sc] = delivery[sc]
             \/ /\ sc \in DeliveriesOf(q)
                /\ delivery'[sc].status = "failed" /\ delivery'[sc].at <= now
          /\ OperationOf(s) = "cancel" /\ sc \in DeliveriesOf(q) => delivery'[sc].status # "pending"
      BY <1>0 DEF Mailed
    <2>3. Bound(sc) => /\ p \in Quotes /\ QuoteGrows(p)
                       /\ quote[p].version \in Nat /\ quote'[p].version \in Nat
                       /\ quote[p].status \in Ends => quote'[p].until = quote[p].until
      <3> SUFFICES ASSUME Bound(sc)
                   PROVE  /\ p \in Quotes /\ QuoteGrows(p)
                          /\ quote[p].version \in Nat /\ quote'[p].version \in Nat
                          /\ quote[p].status \in Ends => quote'[p].until = quote[p].until
        OBVIOUS
      <3>1. p \in Quotes
        BY <2>1 DEF BindingHolds
      <3>2. quote[p].version \in Nat /\ quote'[p].version \in Nat
        BY <3>1 DEF IInv, Typed, Written, QuoteRow
      <3>3. CASE p = q
        BY <1>0, <3>1, <3>2, <3>3 DEF Written
      <3>4. CASE p # q
        BY <1>0, <3>1, <3>2, <3>4 DEF Written, QuoteGrows
      <3> QED BY <3>1, <3>2, <3>3, <3>4
    <2>4. ASSUME Bound(sc), Operation[sc] = "delivery_email" PROVE MailHolds(sc)'
      <3>1. MailHolds(sc) /\ p \in Quotes /\ QuoteGrows(p) /\ quote[p].status \in Ends
        BY <2>1, <2>3, <2>4 DEF BindingHolds, MailHolds
      <3>2. sc \in DeliveriesOf(q) <=> p = q
        BY <2>4 DEF DeliveriesOf
      <3>3. quote'[p].status \in Ends /\ quote'[p].until = quote[p].until
        BY <2>3, <2>4, <3>1 DEF QuoteGrows
      <3>4. delivery'[sc].status \in {"taken", "pending"} => delivery'[sc] = delivery[sc]
        BY <2>2
      <3>5. CASE quote'[p].status # "cancelled"
        BY <2>1, <3>1, <3>3, <3>4, <3>5 DEF MailHolds
      <3>6. CASE quote'[p] = quote[p]
        BY <2>1, <3>1, <3>4, <3>6 DEF MailHolds
      <3>7. CASE p = q /\ OperationOf(s) = "cancel" /\ quote'[p].ended = session[s].clock
        <4>1. delivery[sc].status = "taken" => delivery[sc].at <= quote'[p].ended
          BY <1>0, <1>1, <3>2, <3>7 DEF Accepts
        <4>2. delivery'[sc].status # "pending"
          BY <2>2, <3>2, <3>7
        <4> QED BY <2>1, <3>1, <3>3, <3>4, <4>1, <4>2 DEF MailHolds
      <3>8. \/ quote'[p].status # "cancelled"
            \/ quote'[p] = quote[p]
            \/ p = q /\ OperationOf(s) = "cancel" /\ quote'[p].ended = session[s].clock
        BY <1>0, <3>1 DEF Written
      <3> QED BY <3>5, <3>6, <3>7, <3>8
    <2>5. /\ delivery'[sc].status # "none" => Bound(sc) /\ Operation[sc] = "delivery_email"
          /\ delivery'[sc].at <= now
      BY <1>1, <2>1, <2>2, MailOfQuote DEF BindingHolds, DeliveriesOf
    <2>6. Bound(sc) =>
            /\ quote'[p].status # "absent"
            /\ Operation[sc] \in Changing => Expected(sc) < quote'[p].version
            /\ Issues(Operation[sc]) => quote'[p].status \notin Open
      <3> SUFFICES ASSUME Bound(sc)
                   PROVE  /\ quote'[p].status # "absent"
                          /\ Operation[sc] \in Changing => Expected(sc) < quote'[p].version
                          /\ Issues(Operation[sc]) => quote'[p].status \notin Open
        OBVIOUS
      <3>1. Operation[sc] \in Changing => Expected(sc) < quote'[p].version
        <4>1. Expected(sc) \in Nat
          BY <2>1, ConstantsAssumption DEF ConstantsAssumption, BindingHolds, Expected, RequestRecord
        <4> QED BY <2>1, <2>3, <4>1 DEF BindingHolds, QuoteGrows
      <3> QED BY <2>1, <2>3, <3>1 DEF BindingHolds, QuoteGrows
    <2> QED BY <2>1, <2>4, <2>5, <2>6 DEF BindingHolds, Expected
  <1>6. BindingsHold'
    BY <1>4, <1>5 DEF BindingsHold
  <1> QED BY <1>0, <1>3, <1>6

(* An acceptance commits, whatever its client is told.                     *)
LEMMA EffectStep ==
    ASSUME IInv, NEW s \in Sessions, Accepting(s), Apply(s),
           NEW x \in SessionRecord, Become(s, x), x.stage \in {"driving", "answered"},
           binding'[session[s].scope] =
               [request |-> session[s].request, quote |-> session[s].quote] => SessionHolds(s)'
    PROVE  IInv'
  <1>0. PICK own \in Scopes, q \in Quotes : own = session[s].scope /\ q = session[s].quote
    BY AcceptingFacts
  <1>1. /\ Effect(s) /\ Bind(s) /\ UNCHANGED <<now, drawn>>
        /\ Accepts(s) /\ OperationOf(s) \in Operations
    BY AcceptingFacts DEF Apply, Accepting
  <1>2. Written(s) /\ Mailed(s)
    BY <1>1, EffectWritten, EffectMails
  <1>3. /\ binding' \in [Scopes -> BindingRecord]
        /\ binding'[own] = [request |-> session[s].request, quote |-> q]
        /\ \A sc \in Scopes \ {own} : binding'[sc] = binding[sc]
        /\ BindingsHold'
    BY <1>0, <1>1, <1>2, EffectBindings
  <1>4. /\ quote' \in [Quotes -> QuoteRow] /\ \A p \in Quotes \ {q} : quote'[p] = quote[p]
        /\ QuoteGrows(q) /\ RowGood(quote'[q], drawn, now)
        /\ \/ quote'[q].number = quote[q].number
           \/ Issues(OperationOf(s)) /\ quote'[q].number = session[s].number
    BY <1>0, <1>2 DEF Written
  <1>5. session'[s] = x /\ \A t \in Sessions \ {s} : session'[t] = session[t]
    BY DEF IInv, Typed, Become
  <1>6. ~HoldsScope(s)' /\ ~Accepting(s)' /\ ~Numbered(s)'
    BY <1>5 DEF HoldsScope, Accepting, Numbered, At
  <1>7. Typed'
    BY <1>1, <1>2, <1>3, <1>4 DEF IInv, Typed, Mailed, Become
  <1>8. RowsHold'
    <2>1. ASSUME NEW p \in Quotes PROVE RowHolds(p)'
      BY <1>1, <1>4 DEF IInv, RowsHold, RowHolds
    <2> QED BY <2>1 DEF RowsHold
  <1>9. SessionsHold'
    <2> SUFFICES ASSUME NEW t \in Sessions \ {s} PROVE SessionHolds(t)'
      BY <1>0, <1>3 DEF SessionsHold
    <2>1. SessionHolds(t) /\ session'[t] = session[t]
      BY <1>5 DEF IInv, SessionsHold
    <2>2. \A p \in Quotes : QuoteGrows(p)
      <3>1. \A p \in Quotes : quote[p].version \in Nat
        BY DEF IInv, Typed, QuoteRow
      <3> QED BY <1>4, <3>1 DEF QuoteGrows
    <2>3. KeysKept
      BY <1>0, <1>3, AcceptingFacts DEF KeysKept
    <2>4. At(t, "decided") => binding'[session[t].scope] = binding[session[t].scope]
      <3>1. At(t, "decided") => session[t].scope \in Scopes
        BY <2>1 DEF SessionHolds, Handling, At
      <3>2. At(t, "decided") => session[t].scope # own
        BY <1>0 DEF IInv, Exclusive, HoldsScope, Accepting, At
      <3> QED BY <1>3, <3>1, <3>2
    <2>5. Accepting(t) => QuoteKept(session[t].quote)
      <3> SUFFICES ASSUME Accepting(t) PROVE QuoteKept(session[t].quote)
        OBVIOUS
      <3>1. PICK p \in Quotes : p = session[t].quote
        BY AcceptingFacts
      <3>2. p # q
        BY <1>0, <3>1 DEF IInv, Exclusive
      <3>3. quote'[p] = quote[p]
        BY <1>4, <3>2
      <3>4. ASSUME NEW sc \in Scopes, binding'[sc].quote = p, delivery'[sc].status = "taken",
                   Operation[sc] = "delivery_email"
            PROVE  binding[sc].quote = p /\ delivery'[sc] = delivery[sc]
        <4>1. sc # own
          BY <1>3, <3>2, <3>4
        <4>2. binding'[sc] = binding[sc]
          BY <1>3, <4>1
        <4> QED BY <1>0, <1>2, <3>4, <4>1, <4>2 DEF Mailed
      <3> QED BY <3>1, <3>3, <3>4 DEF QuoteKept
    <2>6. now' \in 0..MaxNow /\ now <= now'
      BY <1>1 DEF IInv, Typed
    <2> QED BY <2>1, <2>2, <2>3, <2>4, <2>5, <2>6, SessionKept DEF IInv
  <1>10. Exclusive'
    BY <1>5, <1>6 DEF IInv, Exclusive, HoldsScope, Accepting, At
  <1>11. NumbersHold'
    <2>1. \/ quote'[q].number = quote[q].number
          \/ Numbered(s) /\ quote'[q].number = session[s].number
      BY <1>1, <1>4 DEF Numbered, Accepting, Accepts
    <2>2. \A p \in Quotes, r \in Quotes :
              p # r /\ quote'[p].number = quote'[r].number => quote'[p].number = NoNumber
      BY <1>4, <2>1 DEF IInv, NumbersHold
    <2>3. ASSUME NEW t \in Sessions, Numbered(t)'
          PROVE  /\ session'[t].number <= drawn'
                 /\ \A p \in Quotes : session'[t].number # quote'[p].number
                 /\ \A r \in Sessions : Numbered(r)' /\ t # r =>
                       session'[t].number # session'[r].number
      <3>1. t # s /\ session'[t] = session[t] /\ Numbered(t)
        BY <1>5, <1>6, <2>3 DEF Numbered, At
      <3>2. session[t].number <= drawn /\ \A p \in Quotes : session[t].number # quote[p].number
        BY <3>1 DEF IInv, NumbersHold
      <3>3. \A r \in Sessions : Numbered(r) /\ t # r => session[t].number # session[r].number
        BY <3>1 DEF IInv, NumbersHold
      <3>4. \A p \in Quotes : session[t].number # quote'[p].number
        BY <1>4, <2>1, <3>1, <3>2, <3>3
      <3>5. ASSUME NEW r \in Sessions, Numbered(r)', t # r
            PROVE  session'[t].number # session'[r].number
        <4>1. r # s /\ session'[r] = session[r] /\ Numbered(r)
          BY <1>5, <1>6, <3>5 DEF Numbered, At
        <4> QED BY <3>1, <3>3, <3>5, <4>1
      <3> QED BY <1>1, <3>1, <3>2, <3>4, <3>5
    <2> QED BY <2>2, <2>3 DEF NumbersHold
  <1> QED BY <1>3, <1>7, <1>8, <1>9, <1>10, <1>11 DEF IInv

LEMMA CommitStep ==
    ASSUME IInv, NEW s \in Sessions, Commit(s) \/ CommitOutcomeUnknown(s), Accepting(s)
    PROVE  IInv'
  <1>1. CASE Commit(s) /\ Drives(s)
    <2> DEFINE x == [session[s] EXCEPT !.stage = "driving", !.committed = TRUE]
    <2>1. Apply(s) /\ Become(s, x)
      BY <1>1 DEF Commit
    <2>2. /\ x \in SessionRecord /\ x.stage = "driving" /\ x.scope = session[s].scope
          /\ x.request = session[s].request /\ x.quote = session[s].quote
          /\ x.started = session[s].started
      BY SessionFacts DEF SessionRecord, Handling
    <2> HIDE DEF x
    <2>3. session'[s] = x
      BY <2>1, <2>2, SessionFacts
    <2>4. ASSUME binding'[session[s].scope] =
                     [request |-> session[s].request, quote |-> session[s].quote]
          PROVE  SessionHolds(s)'
      <3>1. /\ session[s].scope \in Scopes /\ session[s].request \in Requests[session[s].scope]
            /\ session[s].quote \in Quotes /\ Issues(OperationOf(s))
            /\ session[s].started \in 0..MaxNow
        BY <1>1, AcceptingFacts DEF Drives
      <3> QED BY <2>2, <2>3, <2>4, <3>1 DEF SessionHolds, Handling, OperationOf, NoTime
    <2> QED BY <2>1, <2>2, <2>4, EffectStep
  <1>2. CASE \/ Commit(s) /\ ~Drives(s)
             \/ Apply(s) /\ Answer(s, "unknown", session[s].verdict = "accepted")
    <2>1. PICK verdict \in {"accepted", "unknown"} : Apply(s) /\ Answer(s, verdict, TRUE)
      <3>1. session[s].verdict = "accepted" /\ (session[s].verdict = "accepted") = TRUE
        BY DEF Accepting
      <3>2. CASE Commit(s) /\ ~Drives(s)
        <4>1. Apply(s) /\ Answer(s, "accepted", TRUE)
          BY <3>1, <3>2 DEF Commit
        <4> QED BY <4>1
      <3>3. CASE Apply(s) /\ Answer(s, "unknown", session[s].verdict = "accepted")
        <4>1. Answer(s, "unknown", TRUE)
          BY <3>1, <3>3
        <4> QED BY <3>3, <4>1
      <3> QED BY <1>2, <3>2, <3>3
    <2> DEFINE x == AnswerRecord(s, verdict, TRUE)
    <2>2. verdict \in Verdicts /\ verdict # "done"
      BY DEF Verdicts, Committing
    <2>3. /\ x \in SessionRecord /\ x.stage = "answered" /\ x.scope = NoScope
          /\ x.request = NoRequest /\ x.verdict = verdict
      BY <2>2, AnswerType
    <2>4. Become(s, x)
      BY <2>1 DEF Answer, AnswerRecord
    <2> HIDE DEF x
    <2>5. session'[s] = x
      BY <2>3, <2>4, SessionFacts
    <2>6. SessionHolds(s)'
      BY <2>2, <2>3, <2>5 DEF SessionHolds, Handling
    <2> QED BY <2>1, <2>3, <2>4, <2>6, EffectStep
  <1>3. CASE Answer(s, "unknown", FALSE) /\ UNCHANGED <<now, database>>
    BY <1>3, AnswerStep DEF Verdicts, database
  <1> QED BY <1>1, <1>2, <1>3 DEF CommitOutcomeUnknown

(* Rejections and failures of a session that was about to commit.          *)
LEMMA FailingStep ==
    ASSUME IInv, NEW s \in Sessions, Reject(s) \/ DatabaseFails(s)
    PROVE  IInv'
  <1>1. At(s, "decided") => session[s].verdict \in Verdicts /\ session[s].verdict # "done"
    BY SessionFacts DEF SessionHolds, Decided, At, Verdicts, Rejections, Committing
  <1> QED BY <1>1, AnswerStep DEF Reject, DatabaseFails, database, Verdicts

LEMMA HandleStep == ASSUME IInv, NEW s \in Sessions, Handle(s) PROVE IInv'
  <1>1. CASE \E sc \in Scopes : \E r \in Requests[sc] : Begin(s, sc, r)
    BY <1>1, BeginStep
  <1>2. CASE LockScope(s) \/ AnswerFromBinding(s) \/ EndSession(s)
    BY <1>2, LockScopeStep, AnswerFromBindingStep, EndSessionStep
  <1>3. CASE \E q \in Quotes, enabled \in BOOLEAN : Decide(s, q, enabled)
    BY <1>3, DecideStep
  <1>4. CASE Commit(s) \/ CommitOutcomeUnknown(s)
    BY <1>4, CommitStep, AnsweringStep
  <1>5. CASE Reject(s) \/ DatabaseFails(s)
    BY <1>5, FailingStep
  <1>6. CASE AnswerIssuance(s) \/ AnswerReadFails(s)
    BY <1>6, AnsweringStep DEF AnswerIssuance, AnswerReadFails, Accepting, At
  <1> QED BY <1>1, <1>2, <1>3, <1>4, <1>5, <1>6 DEF Handle

-----------------------------------------------------------------------------
(* The jobs, which change no row that a session holds, and the clock.      *)

(* What a step that leaves the sessions alone must leave them.             *)
LEMMA UnattendedStep ==
    ASSUME IInv, Typed', RowsHold', BindingsHold', now <= now',
           UNCHANGED <<binding, drawn, session>>,
           \A q \in Quotes : QuoteGrows(q) /\ quote'[q].number = quote[q].number,
           \A t \in Sessions : Accepting(t) => QuoteKept(session[t].quote)
    PROVE  IInv'
  <1>1. SessionsHold'
    <2> SUFFICES ASSUME NEW t \in Sessions PROVE SessionHolds(t)'
      BY DEF SessionsHold
    <2>1. SessionHolds(t) /\ session'[t] = session[t] /\ Typed /\ now' \in 0..MaxNow
      BY DEF IInv, SessionsHold, Typed
    <2> QED BY <2>1, SessionKept DEF KeysKept
  <1>2. Exclusive'
    BY DEF IInv, Exclusive, HoldsScope, Accepting, At
  <1>3. NumbersHold'
    BY DEF IInv, NumbersHold, Numbered, At
  <1> QED BY <1>1, <1>2, <1>3 DEF IInv

LEMMA RowStep ==
    ASSUME IInv, NEW q \in Quotes, quote[q].status # "absent", ~RowLocked(q),
           NEW new \in QuoteRow, SetQuote(q, new),
           UNCHANGED <<now, binding, delivery, drawn, session>>,
           RowGood(new, drawn, now), new.number = quote[q].number,
           new.until = quote[q].until, new.status \notin Open \cup {"cancelled"},
           quote[q].version <= new.version, quote[q].status \in Ends => new.status \in Ends
    PROVE  IInv'
  <1>1. /\ quote' \in [Quotes -> QuoteRow] /\ quote'[q] = new
        /\ \A p \in Quotes \ {q} : quote'[p] = quote[p]
    BY RowSet
  <1>2. \A p \in Quotes : quote[p].version \in Nat /\ quote'[p].version \in Nat
    BY <1>1 DEF IInv, Typed, QuoteRow
  <1>3. \A p \in Quotes : QuoteGrows(p) /\ quote'[p].number = quote[p].number
    BY <1>1, <1>2 DEF QuoteGrows, Open
  <1>4. Typed'
    BY <1>1 DEF IInv, Typed
  <1>5. RowsHold'
    BY <1>1 DEF IInv, RowsHold, RowHolds
  <1>6. BindingsHold'
    <2> SUFFICES ASSUME NEW sc \in Scopes PROVE BindingHolds(sc)'
      BY DEF BindingsHold
    <2> DEFINE p == binding[sc].quote
    <2>1. BindingHolds(sc) /\ (Bound(sc) => p \in Quotes)
      BY DEF IInv, BindingsHold, BindingHolds
    <2>2. ASSUME Bound(sc), Operation[sc] \in Changing PROVE Expected(sc) < quote'[p].version
      <3>1. Expected(sc) \in Nat
        BY <2>1, <2>2, ConstantsAssumption
        DEF ConstantsAssumption, BindingHolds, Expected, RequestRecord
      <3> QED BY <1>2, <1>3, <2>1, <2>2, <3>1 DEF BindingHolds, QuoteGrows
    <2>3. ASSUME Bound(sc), Operation[sc] = "delivery_email" PROVE MailHolds(sc)'
      <3>1. MailHolds(sc) /\ p \in Quotes
        BY <2>1, <2>3 DEF BindingHolds
      <3>2. quote'[p].status \in Ends
        BY <1>3, <3>1 DEF MailHolds, QuoteGrows
      <3>3. quote'[p] = quote[p] \/ (quote'[p].until = quote[p].until /\ quote'[p].status # "cancelled")
        BY <1>1, <3>1
      <3>4. UNCHANGED <<binding, delivery>>
        OBVIOUS
      <3> QED BY <3>1, <3>2, <3>3, <3>4 DEF MailHolds
    <2> QED BY <1>3, <2>1, <2>2, <2>3 DEF BindingHolds, Bound, Expected, QuoteGrows
  <1>7. ASSUME NEW t \in Sessions, Accepting(t) PROVE QuoteKept(session[t].quote)
    <2>1. session[t].quote \in Quotes \ {q}
      BY <1>7, AcceptingFacts DEF RowLocked, Accepting, At
    <2> QED BY <1>1, <2>1 DEF QuoteKept
  <1>8. now <= now'
    BY DEF IInv, Typed
  <1> QED BY <1>3, <1>4, <1>5, <1>6, <1>7, <1>8, UnattendedStep

LEMMA OperationJobStep ==
    ASSUME IInv, NEW q \in Quotes, CommitIssued(q) \/ OperationFails(q) \/ OperatorRetry(q)
    PROVE  IInv'
  <1> DEFINE row == quote[q]
  <1>1. row \in QuoteRow /\ RowHolds(q) /\ row.version \in Nat /\ row.status = "issuing"
    BY DEF IInv, Typed, RowsHold, QuoteRow, CommitIssued, OperationFails, OperatorRetry, OperationIs
  <1>2. PICK status \in {"issuing", "issued"}, operation \in {"pending", "failed", "succeeded"},
              increment \in 0..1 :
          /\ Job(q, status, operation, increment)
          /\ operation = "succeeded" <=> status = "issued"
    BY DEF CommitIssued, OperationFails, OperatorRetry
  <1> DEFINE version == row.version + increment
             new == [row EXCEPT !.status = status, !.operation = operation, !.version = version]
  <1>3. /\ SetQuote(q, new) /\ ~RowLocked(q)
        /\ UNCHANGED <<now, binding, delivery, drawn, session>>
    BY <1>2 DEF Job
  <1>4. version \in Nat /\ row.version <= version
    BY <1>1
  <1> HIDE DEF version, row
  <1>5. /\ new \in QuoteRow /\ new.status = status /\ new.operation = operation
        /\ new.version = version /\ new.number = row.number /\ new.until = row.until
        /\ new.ended = row.ended
    BY <1>1, <1>4 DEF QuoteRow
  <1> HIDE DEF new
  <1> USE DEF row
  <1>6. RowGood(new, drawn, now)
    BY <1>1, <1>2, <1>5 DEF RowHolds, RowGood, Open
  <1>7. new.status \notin Open \cup {"cancelled"} /\ row.status \notin Ends
    BY <1>1, <1>5 DEF Open, Ends
  <1> QED BY <1>1, <1>3, <1>4, <1>5, <1>6, <1>7, RowStep

LEMMA ExpiryStep == ASSUME IInv, NEW q \in Quotes, MaterializeExpiry(q) PROVE IInv'
  <1> DEFINE row == quote[q]
             version == row.version + 1
             until == row.until
             new == [row EXCEPT !.status = "expired", !.ended = until, !.version = version]
  <1>1. row \in QuoteRow /\ RowHolds(q) /\ version \in Nat /\ row.version <= version
    BY DEF IInv, Typed, RowsHold, QuoteRow
  <1>2. /\ SetQuote(q, new) /\ ~RowLocked(q) /\ row.status = "issued" /\ until <= now
        /\ UNCHANGED <<now, binding, delivery, drawn, session>>
    BY DEF MaterializeExpiry
  <1>3. row.operation = "succeeded" /\ until # NoTime
    BY <1>1, <1>2 DEF RowHolds, RowGood
  <1>4. until \in {NoTime} \cup 0..MaxNow
    <2>1. until \in {NoTime} \cup 0..(MaxNow + Validity) /\ now \in 0..MaxNow
      BY <1>1 DEF QuoteRow, IInv, Typed
    <2> QED BY <1>2, <2>1, ConstantsAssumption DEF ConstantsAssumption
  <1> HIDE DEF version, row, until
  <1>5. /\ new \in QuoteRow /\ new.status = "expired" /\ new.operation = row.operation
        /\ new.version = version /\ new.number = row.number /\ new.until = row.until
        /\ new.ended = until
    BY <1>1, <1>4 DEF QuoteRow
  <1> HIDE DEF new
  <1> USE DEF row, until
  <1>6. RowGood(new, drawn, now)
    BY <1>1, <1>2, <1>3, <1>5 DEF RowHolds, RowGood, Open
  <1>7. new.status \notin Open \cup {"cancelled"} /\ new.status \in Ends
    BY <1>5 DEF Open, Ends
  <1> QED BY <1>1, <1>2, <1>5, <1>6, <1>7, RowStep

LEMMA ClaimStep == ASSUME IInv, NEW sc \in Scopes, ClaimDelivery(sc) PROVE IInv'
  <1>1. /\ Bound(sc) /\ Operation[sc] = "delivery_email" /\ BindingHolds(sc)
        /\ binding[sc].quote \in Quotes /\ MailHolds(sc)
    BY DEF ClaimDelivery, IInv, BindingsHold, BindingHolds
  <1>2. PICK q \in Quotes : q = binding[sc].quote
    BY <1>1
  <1>3. PICK status \in {"taken", "failed"} :
          /\ delivery' = [delivery EXCEPT ![sc] = [status |-> status, at |-> now]]
          /\ status = "taken" => Effective(quote[q], now) = "issued"
    BY <1>2 DEF ClaimDelivery
  <1>4. UNCHANGED <<now, quote, binding, drawn, session>> /\ ~RowLocked(q)
    BY <1>2 DEF ClaimDelivery
  <1>5. quote[q].status \in Ends /\ quote[q] \in QuoteRow /\ RowHolds(q) /\ now \in 0..MaxNow
    BY <1>1, <1>2 DEF MailHolds, IInv, Typed, RowsHold
  <1>6. /\ delivery' \in [Scopes -> DeliveryRecord]
        /\ delivery'[sc] = [status |-> status, at |-> now]
        /\ \A other \in Scopes \ {sc} : delivery'[other] = delivery[other]
    BY <1>3, <1>5 DEF IInv, Typed, DeliveryRecord
  <1>7. Typed'
    BY <1>4, <1>6 DEF IInv, Typed
  <1>8. RowsHold'
    BY <1>4 DEF IInv, RowsHold, RowHolds
  <1>9. BindingsHold'
    <2>1. BindingHolds(sc)'
      <3>1. status = "taken" => quote[q].status = "issued" /\ now < quote[q].until
        <4> SUFFICES ASSUME status = "taken" PROVE quote[q].status = "issued" /\ now < quote[q].until
          OBVIOUS
        <4>1. quote[q].status = "issued" /\ ~(now >= quote[q].until)
          BY <1>3 DEF Effective
        <4>2. quote[q].until \in {NoTime} \cup 0..(MaxNow + Validity)
          BY <1>5 DEF QuoteRow
        <4> QED BY <1>5, <4>1, <4>2, ConstantsAssumption DEF ConstantsAssumption, NoTime
      <3>2. MailHolds(sc)'
        BY <1>2, <1>4, <1>5, <1>6, <3>1 DEF MailHolds
      <3>3. Bound(sc)' /\ delivery'[sc].at <= now'
        BY <1>1, <1>4, <1>5, <1>6 DEF Bound
      <3> QED BY <1>1, <1>4, <3>2, <3>3 DEF BindingHolds, Expected
    <2>2. ASSUME NEW other \in Scopes \ {sc} PROVE BindingHolds(other)'
      BY <1>4, <1>6 DEF IInv, BindingsHold, BindingHolds, MailHolds, Bound, Expected
    <2> QED BY <2>1, <2>2 DEF BindingsHold
  <1>10. \A p \in Quotes : QuoteGrows(p) /\ quote'[p].number = quote[p].number
    BY <1>4 DEF QuoteGrows, IInv, Typed, QuoteRow
  <1>11. ASSUME NEW t \in Sessions, Accepting(t) PROVE QuoteKept(session[t].quote)
    <2>1. session[t].quote \in Quotes \ {q}
      BY <1>4, <1>5, <1>11, AcceptingFacts DEF RowLocked, Accepting, At, Ends
    <2> QED BY <1>2, <1>4, <1>6, <2>1 DEF QuoteKept
  <1>12. now <= now'
    BY <1>4, <1>5
  <1> QED BY <1>4, <1>7, <1>8, <1>9, <1>10, <1>11, <1>12, UnattendedStep

LEMMA TickStep == ASSUME IInv, Tick PROVE IInv'
  <1>1. /\ now' \in 0..MaxNow /\ now <= now' /\ now \in 0..MaxNow
        /\ UNCHANGED <<quote, binding, delivery, drawn, session>>
    BY ConstantsAssumption DEF ConstantsAssumption, Tick, database, IInv, Typed
  <1>2. Typed'
    BY <1>1 DEF IInv, Typed
  <1>3. RowsHold'
    <2> SUFFICES ASSUME NEW q \in Quotes PROVE RowHolds(q)'
      BY DEF RowsHold
    <2>1. RowHolds(q) /\ quote[q].until \in {NoTime} \cup 0..(MaxNow + Validity)
      BY DEF IInv, Typed, RowsHold, QuoteRow
    <2>2. quote[q].until <= now => quote[q].until <= now'
      BY <1>1, <2>1, ConstantsAssumption DEF ConstantsAssumption, NoTime
    <2> QED BY <1>1, <2>1, <2>2 DEF RowHolds, RowGood
  <1>4. BindingsHold'
    <2> SUFFICES ASSUME NEW sc \in Scopes PROVE BindingHolds(sc)'
      BY DEF BindingsHold
    <2>1. BindingHolds(sc) /\ delivery[sc].at \in {NoTime} \cup 0..MaxNow
      BY DEF IInv, Typed, BindingsHold, DeliveryRecord
    <2>2. delivery[sc].at <= now'
      BY <1>1, <2>1 DEF BindingHolds, NoTime
    <2> QED BY <1>1, <2>1, <2>2 DEF BindingHolds, MailHolds, Bound, Expected
  <1>5. \A q \in Quotes : QuoteGrows(q) /\ quote'[q].number = quote[q].number
    BY <1>1 DEF QuoteGrows, IInv, Typed, QuoteRow
  <1>6. \A t \in Sessions : Accepting(t) => QuoteKept(session[t].quote)
    BY <1>1 DEF QuoteKept
  <1> QED BY <1>1, <1>2, <1>3, <1>4, <1>5, <1>6, UnattendedStep

LEMMA IdleStep == ASSUME IInv, UNCHANGED vars PROVE IInv'
  <1>1. UNCHANGED <<now, quote, binding, delivery, drawn, session>> /\ now \in 0..MaxNow
    BY DEF vars, IInv, Typed
  <1>2. Typed' /\ RowsHold' /\ BindingsHold'
    BY <1>1 DEF IInv, Typed, RowsHold, RowHolds, BindingsHold, BindingHolds, MailHolds, Bound, Expected
  <1>3. \A q \in Quotes : QuoteGrows(q) /\ quote'[q].number = quote[q].number
    BY <1>1 DEF QuoteGrows, IInv, Typed, QuoteRow
  <1>4. \A t \in Sessions : Accepting(t) => QuoteKept(session[t].quote)
    BY <1>1 DEF QuoteKept
  <1>5. now <= now'
    BY <1>1
  <1> QED BY <1>1, <1>2, <1>3, <1>4, <1>5, UnattendedStep

-----------------------------------------------------------------------------

LEMMA InitIInv == Init => IInv
  <1> SUFFICES ASSUME Init PROVE IInv
    OBVIOUS
  <1>1. Typed
    BY IdleType, AbsentType, ConstantsAssumption
    DEF ConstantsAssumption, Init, Typed, BindingRecord, NoBinding, DeliveryRecord, NoDelivery
  <1>2. RowsHold
    BY AbsentType DEF Init, RowsHold, RowHolds, RowGood, Open, NoNumber
  <1>3. BindingsHold
    <2> SUFFICES ASSUME NEW sc \in Scopes PROVE BindingHolds(sc)
      BY DEF BindingsHold
    <2>1. ~Bound(sc) /\ delivery[sc] = NoDelivery /\ now = 0
      BY DEF Init, Bound
    <2>2. NoDelivery.status = "none" /\ NoDelivery.at <= 0
      BY DEF NoDelivery, NoTime
    <2> QED BY <2>1, <2>2 DEF BindingHolds
  <1>4. \A s \in Sessions : session[s] = IdleSession
    BY DEF Init
  <1>5. SessionsHold
    BY <1>4, IdleType DEF SessionsHold, SessionHolds, Handling
  <1>6. Exclusive
    BY <1>4, IdleType DEF Exclusive, HoldsScope, Accepting, At
  <1>7. NumbersHold
    <2>1. \A q \in Quotes : quote[q].number = NoNumber
      BY AbsentType DEF Init
    <2>2. \A s \in Sessions : ~Numbered(s)
      BY <1>4, IdleType DEF Numbered, At
    <2> QED BY <2>1, <2>2 DEF NumbersHold
  <1> QED BY <1>1, <1>2, <1>3, <1>5, <1>6, <1>7 DEF IInv

LEMMA NextIInv == IInv /\ [Next]_vars => IInv'
  <1> SUFFICES ASSUME IInv, [Next]_vars PROVE IInv'
    OBVIOUS
  <1>1. CASE \E s \in Sessions : Handle(s)
    BY <1>1, HandleStep
  <1>2. CASE Jobs
    <2>1. ASSUME NEW q \in Quotes, CommitIssued(q) \/ OperationFails(q) \/ OperatorRetry(q)
          PROVE  IInv'
      BY <2>1, OperationJobStep
    <2> QED BY <1>2, <2>1, ExpiryStep, ClaimStep DEF Jobs
  <1>3. CASE Tick
    BY <1>3, TickStep
  <1>4. CASE UNCHANGED vars
    BY <1>4, IdleStep
  <1> QED BY <1>1, <1>2, <1>3, <1>4 DEF Next

(* Every reachable state satisfies the inductive invariant: a session that *)
(* is about to commit still finds the quote as it checked it, however the  *)
(* other requests, the jobs and the clock moved meanwhile.                 *)
THEOREM InvariantHolds == Spec => []IInv
  BY InitIInv, NextIInv, PTL DEF Spec

(* Every variable keeps its type.                                          *)
THEOREM TypeCorrect == Spec => []TypeOK
  <1>1. IInv => TypeOK
    <2> SUFFICES ASSUME IInv PROVE TypeOK
      OBVIOUS
    <2>1. ASSUME NEW s \in Sessions
          PROVE  /\ session[s].stage \in {"idle", "begun", "scoped", "decided", "driving", "answered"}
                 /\ session[s].stage = "decided" => session[s].quote \in Quotes
      BY SessionFacts DEF SessionRecord, Handling, SessionHolds, Decided
    <2>2. \A sc \in Scopes : Bound(sc) =>
            binding[sc].request \in Requests[sc] /\ binding[sc].quote \in Quotes
      BY DEF IInv, BindingsHold, BindingHolds
    <2> QED BY <2>1, <2>2 DEF IInv, Typed, TypeOK, DeliveryRecord
  <1> QED BY <1>1, InvariantHolds, PTL

(* How a quote ended: an issued quote is cancelled only before its         *)
(* validity ends and expires only from then on, although the expiry job,   *)
(* the cancel and the commit of its document race for the row.             *)
THEOREM EndedHonestlyHolds == Spec => []EndedHonestly
  <1>1. IInv => EndedHonestly
    BY DEF IInv, RowsHold, RowHolds, RowGood, EndedHonestly
  <1> QED BY <1>1, InvariantHolds, PTL

(* A quote number is never used twice, not even after a rollback, and a    *)
(* quote has one if and only if it was accepted for issuance.              *)
THEOREM NumberedOnceHolds == Spec => []NumberedOnce
  <1>1. IInv => NumberedOnce
    BY DEF IInv, RowsHold, RowHolds, RowGood, NumbersHold, Numbered, NumberedOnce
  <1> QED BY <1>1, InvariantHolds, PTL

(* No e-mail leaves for a quote that ended, and none stays queued behind a *)
(* cancel, although requests, cancels and the delivery worker race.        *)
THEOREM NoMailAfterEndHolds == Spec => []NoMailAfterEnd
  <1>1. IInv => NoMailAfterEnd
    <2> SUFFICES ASSUME IInv, NEW q \in Quotes, NEW sc \in DeliveriesOf(q)
                 PROVE  MailHolds(sc) /\ binding[sc].quote = q
      BY DEF NoMailAfterEnd, MailHolds
    <2> QED BY MailOfQuote DEF DeliveriesOf, IInv, BindingsHold, BindingHolds
  <1> QED BY <1>1, InvariantHolds, PTL

(* A 201 or 200 is only given for a quote whose issuance ended, whatever   *)
(* became of the inline attempt.                                           *)
THEOREM InlineAnswerIsDurableHolds == Spec => []InlineAnswerIsDurable
  <1>1. IInv => InlineAnswerIsDurable
    BY DEF IInv, SessionsHold, SessionHolds, InlineAnswerIsDurable, At, Ends
  <1> QED BY <1>1, InvariantHolds, PTL

-----------------------------------------------------------------------------
(* What the transactions do, one effect at a time.                         *)

(* A key is bound by the commit of an acceptance, and by nothing else.     *)
LEMMA OnlyAcceptancesBind ==
    ASSUME IInv, [Next]_vars
    PROVE  \/ UNCHANGED <<binding, effects>>
           \/ \E s \in Sessions : Accepting(s) /\ Apply(s)
  <1>1. ASSUME NEW s \in Sessions, Handle(s), ~(Accepting(s) /\ Apply(s))
        PROVE  UNCHANGED <<binding, effects>>
    <2> USE DEF database
    <2>1. Apply(s) => UNCHANGED <<binding, effects>>
      BY <1>1 DEF Apply, Accepting
    <2>2. CASE Commit(s) \/ CommitOutcomeUnknown(s)
      BY <2>1, <2>2 DEF Commit, CommitOutcomeUnknown
    <2>3. CASE ~(Commit(s) \/ CommitOutcomeUnknown(s))
      BY <1>1, <2>3
      DEF Handle, Begin, LockScope, AnswerFromBinding, Decide, Reject, DatabaseFails,
          AnswerIssuance, AnswerReadFails, EndSession
    <2> QED BY <2>2, <2>3
  <1>2. Jobs \/ Tick \/ UNCHANGED vars => UNCHANGED <<binding, effects>>
    BY DEF Jobs, CommitIssued, OperationFails, OperatorRetry, Job, MaterializeExpiry,
           ClaimDelivery, Tick, vars, database
  <1> QED BY <1>1, <1>2 DEF Next

(* "Exactly one mutation can succeed from a given version": no two of the  *)
(* commands that took effect on a quote had been sent against the same     *)
(* version of it.                                                          *)
THEOREM OneMutationPerVersionHolds == Spec => []OneMutationPerVersion
  <1>1. Init => OneMutationPerVersion
    BY ConstantsAssumption
    DEF ConstantsAssumption, Init, OneMutationPerVersion, BoundTo, NoBinding
  <1>2. IInv /\ OneMutationPerVersion /\ [Next]_vars => OneMutationPerVersion'
    <2> SUFFICES ASSUME IInv, OneMutationPerVersion, [Next]_vars PROVE OneMutationPerVersion'
      OBVIOUS
    <2>1. CASE UNCHANGED binding
      BY <2>1 DEF OneMutationPerVersion, BoundTo, Expected
    <2>2. ASSUME NEW s \in Sessions, Accepting(s), Apply(s) PROVE OneMutationPerVersion'
      <3>0. PICK own \in Scopes, q \in Quotes, r \in RequestRecord :
                own = session[s].scope /\ q = session[s].quote /\ r = session[s].request
        BY <2>2, AcceptingFacts
      <3>1. Effect(s) /\ Bind(s) /\ UNCHANGED <<now, drawn>> /\ Accepts(s)
        BY <2>2, AcceptingFacts DEF Apply, Accepting
      <3>2. Written(s) /\ Mailed(s)
        BY <2>2, <3>1, EffectWritten, EffectMails
      <3>3. /\ binding'[own] = [request |-> r, quote |-> q]
            /\ \A sc \in Scopes \ {own} : binding'[sc] = binding[sc]
        BY <2>2, <3>0, <3>1, <3>2, EffectBindings
      <3>4. Operation[own] \in Changing => r.expected = quote[q].version
        BY <3>0, <3>1 DEF Accepts, OperationOf, Changing
      <3>5. ASSUME NEW sc \in Scopes \ {own}, Operation[sc] \in Changing, binding[sc].quote = q
            PROVE  Expected(sc) < quote[q].version /\ Expected(sc) \in Nat
        <4>1. Bound(sc) /\ BindingHolds(sc)
          BY <3>5, BoundByQuote DEF IInv, BindingsHold
        <4> QED BY <3>5, <4>1, ConstantsAssumption
                DEF ConstantsAssumption, BindingHolds, Expected, RequestRecord
      <3>6. quote[q].version \in Nat
        BY DEF IInv, Typed, QuoteRow
      <3> SUFFICES ASSUME NEW p \in Quotes, NEW a \in Scopes, NEW b \in Scopes, a # b,
                          binding'[a].quote = p, binding'[b].quote = p,
                          Operation[a] \in Changing, Operation[b] \in Changing
                   PROVE  binding'[a].request.expected # binding'[b].request.expected
        BY DEF OneMutationPerVersion, BoundTo, Expected
      <3>7. CASE a # own /\ b # own
        BY <3>3, <3>7 DEF OneMutationPerVersion, BoundTo, Expected
      <3>8. CASE a = own
        BY <3>3, <3>4, <3>5, <3>6, <3>8 DEF Expected
      <3>9. CASE b = own
        BY <3>3, <3>4, <3>5, <3>6, <3>9 DEF Expected
      <3> QED BY <3>7, <3>8, <3>9
    <2> QED BY <2>1, <2>2, OnlyAcceptancesBind
  <1> QED BY <1>1, <1>2, InvariantHolds, PTL DEF Spec

-----------------------------------------------------------------------------
(* The commands implement the promise of their idempotency keys.           *)

(* The variables of the promise, read off the database and the sessions.   *)
Done == [sc \in Scopes |-> binding[sc].request]
Asked == [s \in Sessions |-> [scope |-> session[s].scope, request |-> session[s].request]]
Reply == [s \in Sessions |-> Replied(s)]

RepliedBy(x) == IF x.stage = "answered" THEN x.verdict ELSE "none"

LEMMA SessionSeen ==
    ASSUME IInv, NEW s \in Sessions, NEW x \in SessionRecord, Become(s, x)
    PROVE  /\ Asked' = [Asked EXCEPT ![s] = [scope |-> x.scope, request |-> x.request]]
           /\ Reply' = [Reply EXCEPT ![s] = RepliedBy(x)]
  <1>1. session'[s] = x /\ \A t \in Sessions \ {s} : session'[t] = session[t]
    BY DEF IInv, Typed, Become
  <1>2. Asked' = [Asked EXCEPT ![s] = [scope |-> x.scope, request |-> x.request]]
    BY <1>1 DEF Asked
  <1>3. Reply' = [Reply EXCEPT ![s] = RepliedBy(x)]
    BY <1>1 DEF Reply, Replied, RepliedBy, At
  <1> QED BY <1>2, <1>3

(* A step that gives a client no answer and asks nothing new.              *)
LEMMA SessionUnseen ==
    ASSUME IInv, NEW s \in Sessions, NEW x \in SessionRecord, Become(s, x),
           x.scope = session[s].scope, x.request = session[s].request,
           x.stage # "answered", ~At(s, "answered")
    PROVE  UNCHANGED <<Asked, Reply>>
  <1>1. session'[s] = x /\ \A t \in Sessions \ {s} : session'[t] = session[t]
    BY DEF IInv, Typed, Become
  <1>2. UNCHANGED Asked
    BY <1>1 DEF Asked
  <1>3. UNCHANGED Reply
    BY <1>1 DEF Reply, Replied, At
  <1> QED BY <1>2, <1>3

LEMMA AskStep ==
    ASSUME IInv, NEW s \in Sessions, NEW sc \in Scopes, NEW r \in Requests[sc], Begin(s, sc, r)
    PROVE  Idempotent!Next
  <1> DEFINE x == [IdleSession EXCEPT !.stage = "begun", !.scope = sc, !.request = r,
                       !.started = IF Issues(Operation[sc]) THEN now ELSE NoTime]
  <1>1. Become(s, x) /\ At(s, "idle") /\ UNCHANGED <<binding, effects>>
    BY DEF Begin, database
  <1>2. x \in SessionRecord
    BY IdleType, ConstantsAssumption
    DEF ConstantsAssumption, IdleSession, SessionRecord, Handling, IInv, Typed
  <1>3. x.stage = "begun" /\ x.scope = sc /\ x.request = r
    BY DEF IdleSession
  <1> HIDE DEF x
  <1>4. /\ Asked' = [Asked EXCEPT ![s] = [scope |-> sc, request |-> r]]
        /\ Reply' = [Reply EXCEPT ![s] = "none"]
    BY <1>1, <1>2, <1>3, SessionSeen DEF RepliedBy
  <1>5. Asked[s] = [scope |-> NoScope, request |-> NoRequest] /\ Reply[s] = "none"
    BY <1>1, SessionFacts DEF Asked, Reply, Replied, At, SessionHolds
  <1>6. Reply' = Reply /\ Done' = Done
    BY <1>1, <1>4, <1>5 DEF Reply, Done
  <1>7. Idempotent!Ask(s, sc, r)
    BY <1>1, <1>4, <1>5, <1>6
    DEF Idempotent!Ask, Idempotent!Nothing, Idempotent!NoReply, Asked, Reply, Done
  <1> QED BY <1>7 DEF Idempotent!Next

(* An answer, given with or without an effect in the same step.            *)
LEMMA GivesAnswer ==
    ASSUME IInv, NEW s \in Sessions, NEW verdict \in Verdicts \ {"none"},
           NEW committed \in BOOLEAN, Answer(s, verdict, committed),
           session[s].stage \in Handling,
           verdict \in {"accepted", "replayed", "issuing", "done"} =>
               binding'[session[s].scope].request = session[s].request,
           verdict = "conflict" =>
               binding'[session[s].scope].request \notin {NoRequest, session[s].request},
           verdict \in Rejections => binding'[session[s].scope].request = NoRequest
    PROVE  Idempotent!Answered(s)
  <1> DEFINE x == AnswerRecord(s, verdict, committed)
  <1>1. Become(s, x)
    BY DEF Answer, AnswerRecord
  <1>2. /\ x \in SessionRecord /\ x.stage = "answered" /\ x.scope = NoScope
        /\ x.request = NoRequest /\ x.verdict = verdict
    BY AnswerType
  <1> HIDE DEF x
  <1>3. /\ Asked' = [Asked EXCEPT ![s] = [scope |-> NoScope, request |-> NoRequest]]
        /\ Reply' = [Reply EXCEPT ![s] = verdict]
    BY <1>1, <1>2, SessionSeen DEF RepliedBy
  <1>4. PICK sc \in Scopes : sc = session[s].scope
    BY SessionFacts DEF SessionHolds
  <1>5. /\ Asked[s].scope = sc /\ Asked[s].request = session[s].request
        /\ Done'[sc] = binding'[sc].request
    BY <1>4 DEF Asked, Done
  <1>6. verdict \in Idempotent!Replies
    BY DEF Idempotent!Replies, Idempotent!Affirmative, Idempotent!Rejection,
           Verdicts, Rejections, Committing
  <1>7. /\ verdict \in Idempotent!Affirmative => Done'[Asked[s].scope] = Asked[s].request
        /\ verdict = "conflict" => Done'[Asked[s].scope] \notin {NoRequest, Asked[s].request}
        /\ verdict \in Idempotent!Rejection => Done'[Asked[s].scope] = NoRequest
    BY <1>4, <1>5 DEF Idempotent!Affirmative, Idempotent!Rejection, Rejections
  <1> QED BY <1>3, <1>6, <1>7
          DEF Idempotent!Answered, Idempotent!Nothing, Asked, Reply, Done

LEMMA IsAnsweredStep ==
    ASSUME IInv, NEW s \in Sessions, NEW verdict \in Verdicts \ {"none"},
           NEW committed \in BOOLEAN, Answer(s, verdict, committed),
           session[s].stage \in Handling, UNCHANGED <<binding, effects>>,
           verdict \in {"accepted", "replayed", "issuing", "done"} =>
               binding[session[s].scope].request = session[s].request,
           verdict = "conflict" =>
               binding[session[s].scope].request \notin {NoRequest, session[s].request},
           verdict \in Rejections => binding[session[s].scope].request = NoRequest
    PROVE  Idempotent!Next
  <1>1. Idempotent!Answered(s)
    BY GivesAnswer
  <1>2. session[s].scope \in Scopes
    BY SessionFacts DEF SessionHolds
  <1>3. Asked[s] # Idempotent!Nothing
    BY <1>2, ConstantsAssumption DEF ConstantsAssumption, Asked, Idempotent!Nothing
  <1>4. Done' = Done
    BY DEF Done
  <1> QED BY <1>1, <1>3, <1>4 DEF Idempotent!Next, Idempotent!IsAnswered, Asked, Done

LEMMA TakesEffectStep ==
    ASSUME IInv, NEW s \in Sessions, Accepting(s), Apply(s),
           Idempotent!Answered(s) \/ UNCHANGED <<Asked, Reply>>
    PROVE  Idempotent!Next
  <1>0. PICK own \in Scopes : own = session[s].scope
    BY AcceptingFacts
  <1>1. /\ Effect(s) /\ Bind(s) /\ UNCHANGED <<now, drawn>> /\ ~Bound(own)
        /\ effects' = [effects EXCEPT ![own] = effects[own] + 1]
    BY <1>0, AcceptingFacts DEF Apply, Accepting
  <1>2. Written(s) /\ Mailed(s)
    BY <1>1, EffectWritten, EffectMails
  <1>3. /\ binding'[own] = [request |-> session[s].request, quote |-> session[s].quote]
        /\ \A sc \in Scopes \ {own} : binding'[sc] = binding[sc]
    BY <1>0, <1>1, <1>2, EffectBindings
  <1>4. Asked[s] = [scope |-> own, request |-> session[s].request]
    BY <1>0 DEF Asked
  <1>5. Asked[s] # Idempotent!Nothing
    BY <1>4, ConstantsAssumption DEF ConstantsAssumption, Idempotent!Nothing
  <1>6. Done[own] = NoRequest /\ Done' = [Done EXCEPT ![own] = Asked[s].request]
    <2>1. Done[own] = NoRequest
      BY <1>1 DEF Done, Bound, NoBinding
    <2>2. Done'[own] = Asked[s].request /\ \A sc \in Scopes \ {own} : Done'[sc] = Done[sc]
      BY <1>3, <1>4 DEF Done
    <2>3. Done' = [sc \in Scopes |-> Done'[sc]] /\ Done = [sc \in Scopes |-> Done[sc]]
      BY DEF Done
    <2> HIDE DEF Done
    <2> QED BY <2>1, <2>2, <2>3
  <1>7. Asked[s].scope = own
    BY <1>4
  <1>8. Idempotent!TakesEffect(s)
    BY <1>1, <1>5, <1>6, <1>7 DEF Idempotent!TakesEffect, Asked, Done, Reply
  <1> QED BY <1>8 DEF Idempotent!Next

LEMMA EffectIsPromised ==
    ASSUME IInv, NEW s \in Sessions, Accepting(s), Commit(s) \/ CommitOutcomeUnknown(s)
    PROVE  Idempotent!Next
  <1>0. PICK own \in Scopes : own = session[s].scope
    BY AcceptingFacts
  <1>1. /\ session[s].verdict = "accepted" /\ (session[s].verdict = "accepted") = TRUE
        /\ session[s].stage \in Handling /\ ~At(s, "answered") /\ ~Bound(own)
    BY <1>0, AcceptingFacts DEF Accepting, At, Handling
  <1>2. ASSUME Apply(s) PROVE binding'[own].request = session[s].request
    <2>1. Effect(s) /\ Bind(s) /\ UNCHANGED <<now, drawn>>
      BY <1>2 DEF Apply, Accepting
    <2>2. Written(s) /\ Mailed(s) /\ now' = now
      BY <2>1, EffectWritten, EffectMails
    <2>3. binding'[session[s].scope] =
              [request |-> session[s].request, quote |-> session[s].quote]
      BY <2>1, <2>2, EffectBindings
    <2> QED BY <1>0, <2>3
  <1>3. CASE Commit(s) /\ Drives(s)
    <2> DEFINE x == [session[s] EXCEPT !.stage = "driving", !.committed = TRUE]
    <2>1. Apply(s) /\ Become(s, x)
      BY <1>3 DEF Commit
    <2>2. /\ x \in SessionRecord /\ x.stage = "driving" /\ x.scope = session[s].scope
          /\ x.request = session[s].request
      BY SessionFacts DEF SessionRecord, Handling
    <2> HIDE DEF x
    <2>3. UNCHANGED <<Asked, Reply>>
      BY <1>1, <2>1, <2>2, SessionUnseen
    <2> QED BY <2>1, <2>3, TakesEffectStep
  <1>4. CASE Commit(s) /\ ~Drives(s)
    <2>1. Apply(s) /\ Answer(s, "accepted", TRUE)
      BY <1>1, <1>4 DEF Commit
    <2>2. Idempotent!Answered(s)
      BY <1>0, <1>1, <1>2, <2>1, GivesAnswer DEF Verdicts, Committing, Rejections
    <2> QED BY <2>1, <2>2, TakesEffectStep
  <1>5. CASE Apply(s) /\ Answer(s, "unknown", session[s].verdict = "accepted")
    <2>1. Answer(s, "unknown", TRUE)
      BY <1>1, <1>5
    <2>2. Idempotent!Answered(s)
      BY <1>1, <2>1, GivesAnswer DEF Verdicts, Rejections
    <2> QED BY <1>5, <2>2, TakesEffectStep
  <1>6. CASE Answer(s, "unknown", FALSE) /\ UNCHANGED <<now, database>>
    BY <1>1, <1>6, IsAnsweredStep DEF Verdicts, Rejections, database
  <1> QED BY <1>3, <1>4, <1>5, <1>6 DEF CommitOutcomeUnknown

(* The answers of a session that leaves no effect agree with the key.      *)
LEMMA AnswerIsPromised ==
    ASSUME IInv, NEW s \in Sessions, ~Accepting(s),
           \/ Commit(s) \/ CommitOutcomeUnknown(s) \/ Reject(s) \/ DatabaseFails(s)
           \/ AnswerIssuance(s) \/ AnswerReadFails(s)
    PROVE  Idempotent!Next
  <1> DEFINE verdict == session[s].verdict
             sc == session[s].scope
             r == session[s].request
  <1>1. SessionHolds(s) /\ session[s] \in SessionRecord
    BY SessionFacts
  <1>2. At(s, "decided") =>
          /\ sc \in Scopes /\ verdict \in Rejections \cup Committing
          /\ verdict = "replayed" => binding[sc].request = r
          /\ verdict = "conflict" => binding[sc].request \notin {NoRequest, r}
          /\ verdict \in Rejections => binding[sc].request = NoRequest
    <2> SUFFICES ASSUME At(s, "decided")
                 PROVE  /\ sc \in Scopes /\ verdict \in Rejections \cup Committing
                        /\ verdict = "replayed" => binding[sc].request = r
                        /\ verdict = "conflict" => binding[sc].request \notin {NoRequest, r}
                        /\ verdict \in Rejections => binding[sc].request = NoRequest
      OBVIOUS
    <2>1. sc \in Scopes /\ Decided(s)
      BY <1>1 DEF SessionHolds, Handling, At
    <2>2. Bound(sc) => binding[sc].request # NoRequest
      BY <2>1, ConstantsAssumption DEF ConstantsAssumption, IInv, BindingsHold, BindingHolds
    <2>3. ~Bound(sc) => binding[sc].request = NoRequest
      BY DEF Bound, NoBinding
    <2> QED BY <2>1, <2>2, <2>3 DEF Decided, Rejections
  <1>3. CASE Commit(s)
    <2>1. /\ At(s, "decided") /\ verdict \in {"replayed", "conflict"}
          /\ UNCHANGED <<binding, effects>> /\ session[s].stage \in Handling
      BY <1>3 DEF Commit, Apply, Accepting, At, Handling
    <2>2. Answer(s, verdict, FALSE)
      <3>1. Answer(s, verdict, verdict = "accepted") /\ (verdict = "accepted") = FALSE
        BY <1>3, <2>1 DEF Commit, Drives
      <3> QED BY <3>1
    <2>3. verdict \in Verdicts \ {"none"} /\ verdict \notin Rejections
      BY <2>1 DEF Verdicts, Committing, Rejections
    <2> HIDE DEF verdict
    <2> QED BY <1>2, <2>1, <2>2, <2>3, IsAnsweredStep
  <1>4. CASE CommitOutcomeUnknown(s)
    <2>1. At(s, "decided") /\ UNCHANGED <<binding, effects>> /\ session[s].stage \in Handling
      BY <1>4 DEF CommitOutcomeUnknown, Apply, Accepting, At, Handling, database
    <2>2. PICK committed \in BOOLEAN : Answer(s, "unknown", committed)
      BY <1>4 DEF CommitOutcomeUnknown
    <2> QED BY <2>1, <2>2, IsAnsweredStep DEF Verdicts, Rejections
  <1>5. CASE Reject(s)
    <2>1. /\ At(s, "decided") /\ verdict \notin Committing /\ Answer(s, verdict, FALSE)
          /\ UNCHANGED <<binding, effects>> /\ session[s].stage \in Handling
      BY <1>5 DEF Reject, At, Handling, Committing, database
    <2>2. verdict \in Rejections /\ verdict \in Verdicts \ {"none"}
      BY <1>2, <2>1 DEF Verdicts, Rejections
    <2>3. verdict \notin {"accepted", "replayed", "issuing", "done", "conflict"}
      BY <2>2 DEF Rejections
    <2> HIDE DEF verdict
    <2> QED BY <1>2, <2>1, <2>2, <2>3, IsAnsweredStep
  <1>6. CASE DatabaseFails(s) \/ AnswerReadFails(s)
    <2>1. PICK committed \in BOOLEAN : Answer(s, "nothing_committed", committed)
      BY <1>6 DEF DatabaseFails, AnswerReadFails
    <2>2. UNCHANGED <<binding, effects>> /\ session[s].stage \in Handling
      BY <1>6 DEF DatabaseFails, AnswerReadFails, At, Handling, database
    <2> QED BY <2>1, <2>2, IsAnsweredStep DEF Verdicts, Rejections
  <1>7. CASE AnswerIssuance(s)
    <2>1. PICK answer \in {"issuing", "done"} : Answer(s, answer, TRUE)
      BY <1>7 DEF AnswerIssuance
    <2>2. UNCHANGED <<binding, effects>> /\ session[s].stage = "driving"
      BY <1>7 DEF AnswerIssuance, At, database
    <2>3. binding[sc].request = r
      BY <1>1, <2>2 DEF SessionHolds
    <2> QED BY <2>1, <2>2, <2>3, IsAnsweredStep DEF Verdicts, Rejections, Handling
  <1> QED BY <1>3, <1>4, <1>5, <1>6, <1>7

(* Taking a lock and deciding show nothing to the clients.                 *)
LEMMA DecidingIsUnseen ==
    ASSUME IInv, NEW s \in Sessions,
           \/ LockScope(s) \/ AnswerFromBinding(s)
           \/ \E q \in Quotes, enabled \in BOOLEAN : Decide(s, q, enabled)
    PROVE  UNCHANGED <<Done, effects, Asked, Reply>>
  <1>1. UNCHANGED <<binding, effects>>
    BY DEF LockScope, AnswerFromBinding, Decide, database
  <1>2. PICK x : /\ Become(s, x) /\ x.scope = session[s].scope /\ x.request = session[s].request
                 /\ x.stage # "answered" /\ ~At(s, "answered")
    <2>1. session[s] \in SessionRecord
      BY SessionFacts
    <2>2. CASE LockScope(s)
      BY <2>1, <2>2 DEF LockScope, At, SessionRecord
    <2>3. CASE AnswerFromBinding(s)
      BY <2>1, <2>3 DEF AnswerFromBinding, At, SessionRecord
    <2>4. ASSUME NEW q \in Quotes, NEW enabled \in BOOLEAN, Decide(s, q, enabled)
          PROVE  \E x : /\ Become(s, x) /\ x.scope = session[s].scope
                        /\ x.request = session[s].request
                        /\ x.stage # "answered" /\ ~At(s, "answered")
      BY <2>1, <2>4 DEF Decide, At, SessionRecord
    <2> QED BY <2>2, <2>3, <2>4
  <1>3. session'[s] = x /\ \A t \in Sessions \ {s} : session'[t] = session[t]
    BY <1>2 DEF IInv, Typed, Become
  <1>4. UNCHANGED Asked
    BY <1>2, <1>3 DEF Asked
  <1>5. UNCHANGED Reply
    BY <1>2, <1>3 DEF Reply, Replied, At
  <1>6. UNCHANGED Done
    BY <1>1 DEF Done
  <1> QED BY <1>1, <1>4, <1>5, <1>6

(* The client goes on, or its server dies.                                 *)
LEMMA LeaveStep == ASSUME IInv, NEW s \in Sessions, EndSession(s) PROVE Idempotent!Next
  <1>1. Become(s, IdleSession) /\ UNCHANGED <<binding, effects>>
    BY DEF EndSession, database
  <1>2. /\ Asked' = [Asked EXCEPT ![s] = [scope |-> NoScope, request |-> NoRequest]]
        /\ Reply' = [Reply EXCEPT ![s] = "none"]
    BY <1>1, IdleType, SessionSeen DEF RepliedBy
  <1>3. Idempotent!Leave(s)
    BY <1>1, <1>2
    DEF Idempotent!Leave, Idempotent!Nothing, Idempotent!NoReply, Asked, Reply, Done
  <1> QED BY <1>3 DEF Idempotent!Next

LEMMA StepIsPromised ==
    ASSUME IInv, [Next]_vars
    PROVE  Idempotent!Next \/ UNCHANGED <<Done, effects, Asked, Reply>>
  <1>1. ASSUME NEW s \in Sessions, Handle(s)
        PROVE  Idempotent!Next \/ UNCHANGED <<Done, effects, Asked, Reply>>
    <2>1. CASE \E sc \in Scopes : \E r \in Requests[sc] : Begin(s, sc, r)
      BY <2>1, AskStep
    <2>2. CASE \/ LockScope(s) \/ AnswerFromBinding(s)
               \/ \E q \in Quotes, enabled \in BOOLEAN : Decide(s, q, enabled)
      BY <2>2, DecidingIsUnseen
    <2>3. CASE Commit(s) \/ CommitOutcomeUnknown(s)
      BY <2>3, EffectIsPromised, AnswerIsPromised
    <2>4. CASE DatabaseFails(s) /\ Accepting(s)
      <3>1. /\ Answer(s, "nothing_committed", FALSE) /\ UNCHANGED <<binding, effects>>
            /\ session[s].stage \in Handling
        BY <2>4 DEF DatabaseFails, Handling, database
      <3> QED BY <3>1, IsAnsweredStep DEF Verdicts, Rejections
    <2>5. CASE \/ Reject(s) \/ AnswerIssuance(s) \/ AnswerReadFails(s)
               \/ DatabaseFails(s) /\ ~Accepting(s)
      <3>1. ~Accepting(s)
        BY <2>5 DEF Reject, AnswerIssuance, AnswerReadFails, Accepting, At
      <3> QED BY <2>5, <3>1, AnswerIsPromised
    <2>6. CASE EndSession(s)
      BY <2>6, LeaveStep
    <2> QED BY <1>1, <2>1, <2>2, <2>3, <2>4, <2>5, <2>6 DEF Handle
  <1>2. ASSUME Jobs \/ Tick \/ UNCHANGED vars
        PROVE  UNCHANGED <<Done, effects, Asked, Reply>>
    <2>1. UNCHANGED <<binding, effects, session>>
      BY <1>2
      DEF Jobs, CommitIssued, OperationFails, OperatorRetry, Job, MaterializeExpiry,
          ClaimDelivery, Tick, vars, database
    <2> QED BY <2>1 DEF Done, Asked, Reply, Replied, At
  <1> QED BY <1>1, <1>2 DEF Next

(* The first request that takes effect under a scope is the only one that  *)
(* ever does, and no answer contradicts it, whatever is retried, lost or   *)
(* rolled back: the commands refine the promise of their idempotency keys. *)
THEOREM IdempotenceHolds == Spec => ImplementsIdempotence
  <1>1. Init => Idempotent!Init
    <2> SUFFICES ASSUME Init PROVE Idempotent!Init
      OBVIOUS
    <2>1. Done = [sc \in Scopes |-> NoRequest] /\ effects = [sc \in Scopes |-> 0]
      BY DEF Init, Done, NoBinding
    <2>2. Asked = [s \in Sessions |-> [scope |-> NoScope, request |-> NoRequest]]
      BY IdleType DEF Init, Asked
    <2>3. Reply = [s \in Sessions |-> "none"]
      BY IdleType DEF Init, Reply, Replied, At
    <2> QED BY <2>1, <2>2, <2>3
            DEF Idempotent!Init, Idempotent!Nothing, Idempotent!NoReply, Done, Asked, Reply
  <1>2. IInv /\ [Next]_vars => [Idempotent!Next]_(Idempotent!vars)
    <2> SUFFICES ASSUME IInv, [Next]_vars PROVE [Idempotent!Next]_(Idempotent!vars)
      OBVIOUS
    <2>1. Idempotent!vars = <<Done, effects, Asked, Reply>>
      BY DEF Idempotent!vars, Done, Asked, Reply
    <2>2. Idempotent!Next \/ UNCHANGED <<Done, effects, Asked, Reply>>
      BY StepIsPromised
    <2> QED BY <2>1, <2>2 DEF Idempotent!vars, Done, Asked, Reply
  <1> QED BY <1>1, <1>2, InvariantHolds, PTL DEF Spec, ImplementsIdempotence, Idempotent!Spec

-----------------------------------------------------------------------------
(* The quotes live as the state machine says.                              *)

Phases == [q \in Quotes |-> quote[q].status]
Outcomes == [q \in Quotes |-> OutcomeOf(q)]
Documents == [q \in Quotes |-> quote[q].operation = "succeeded"]
Versions == [q \in Quotes |-> quote[q].version]

Outcome(operation) == IF operation = "pending" THEN "running" ELSE operation

(* A row that is set is one step of the state machine.                     *)
LEMMA RowIsStep ==
    ASSUME IInv, NEW q \in Quotes, NEW new \in QuoteRow, SetQuote(q, new),
           NEW increment \in Nat, new.version = quote[q].version + increment
    PROVE  QuoteLife!Step(q, new.status, Outcome(new.operation),
                          new.operation = "succeeded", increment)
  <1>1. quote'[q] = new /\ \A p \in Quotes \ {q} : quote'[p] = quote[p]
    BY RowSet
  <1>2. Phases' = [Phases EXCEPT ![q] = new.status]
    BY <1>1 DEF Phases
  <1>3. Outcomes' = [Outcomes EXCEPT ![q] = Outcome(new.operation)]
    BY <1>1 DEF Outcomes, OutcomeOf, Outcome
  <1>4. Documents' = [Documents EXCEPT ![q] = (new.operation = "succeeded")]
    BY <1>1 DEF Documents
  <1>5. Versions' = [Versions EXCEPT ![q] = Versions[q] + increment]
    BY <1>1 DEF Versions
  <1> QED BY <1>2, <1>3, <1>4, <1>5 DEF QuoteLife!Step, Phases, Outcomes, Documents, Versions

LEMMA RowFacts ==
    ASSUME IInv, NEW q \in Quotes
    PROVE  /\ quote[q] \in QuoteRow /\ RowHolds(q) /\ quote[q].version \in Nat
           /\ Phases[q] = quote[q].status
           /\ Outcomes[q] = Outcome(quote[q].operation)
           /\ Documents[q] = (quote[q].operation = "succeeded")
  BY DEF IInv, Typed, RowsHold, QuoteRow, Phases, Outcomes, OutcomeOf, Outcome, Documents

LEMMA CreatesInLife ==
    ASSUME IInv, NEW s \in Sessions, Accepting(s), CreateDraft(s) \/ CreateAndIssue(s)
    PROVE  QuoteLife!Next
  <1>0. PICK q \in Quotes : q = session[s].quote
    BY AcceptingFacts
  <1>1. Accepts(s) /\ RowHolds(q)
    BY <1>0, AcceptingFacts
  <1>2. quote[q].status = "absent" /\ quote[q] = AbsentQuote /\ quote[q].version = 0
    BY <1>0, <1>1, AbsentType
    DEF CreateDraft, CreateAndIssue, Writes, Accepts, Creates, RowHolds, RowGood
  <1>3. CASE CreateDraft(s)
    <2> DEFINE new == DraftRow(s)
    <2>1. new \in QuoteRow /\ new.status = "draft" /\ new.version = 1 /\ new.operation = "none"
      BY DraftRowType
    <2>2. SetQuote(q, new)
      BY <1>0, <1>3 DEF CreateDraft
    <2> HIDE DEF new
    <2>3. new.version = quote[q].version + 1
      BY <1>2, <2>1
    <2>4. QuoteLife!Step(q, new.status, Outcome(new.operation), new.operation = "succeeded", 1)
      BY <2>1, <2>2, <2>3, RowIsStep
    <2>5. QuoteLife!Step(q, "draft", "none", FALSE, 1)
      <3>1. Outcome(new.operation) = "none" /\ (new.operation = "succeeded") = FALSE
        BY <2>1 DEF Outcome
      <3> QED BY <2>1, <2>4, <3>1
    <2>6. QuoteLife!Create(q)
      BY <1>2, <2>5, RowFacts DEF QuoteLife!Create, Phases
    <2> QED BY <2>6 DEF QuoteLife!Next
  <1>4. CASE CreateAndIssue(s)
    <2> DEFINE draft == DraftRow(s)
               new == Frozen(s, draft, 0)
    <2>1. OperationOf(s) = "create_and_issue" /\ SetQuote(q, new)
      BY <1>0, <1>4 DEF CreateAndIssue, Writes
    <2>2. draft \in QuoteRow /\ draft.version = 1
      BY DraftRowType
    <2>3. /\ new \in QuoteRow /\ new.status = "issuing" /\ new.version = draft.version + 0
          /\ new.operation = "pending"
      <3> HIDE DEF draft
      <3>1. Issues(OperationOf(s)) /\ 0 \in Nat
        BY <2>1 DEF Issues
      <3>2. /\ new \in QuoteRow /\ new.status = "issuing" /\ new.version = draft.version + 0
            /\ new.operation = "pending" /\ new.number = session[s].number
            /\ new.ended = draft.ended /\ new.until # NoTime
        BY <2>2, <3>1, FrozenType
      <3> QED BY <2>2, <3>2
    <2> HIDE DEF new, draft
    <2>4. new.version = quote[q].version + 1
      BY <1>2, <2>2, <2>3
    <2>5. QuoteLife!Step(q, new.status, Outcome(new.operation), new.operation = "succeeded", 1)
      BY <2>1, <2>3, <2>4, RowIsStep
    <2>6. QuoteLife!Step(q, "issuing", "running", FALSE, 1)
      <3>1. Outcome(new.operation) = "running" /\ (new.operation = "succeeded") = FALSE
        BY <2>3 DEF Outcome
      <3> QED BY <2>3, <2>5, <3>1
    <2>7. QuoteLife!CreateIssuing(q)
      BY <1>2, <2>6, RowFacts DEF QuoteLife!CreateIssuing, Phases
    <2> QED BY <2>7 DEF QuoteLife!Next
  <1> QED BY <1>3, <1>4

LEMMA EditsInLife ==
    ASSUME IInv, NEW s \in Sessions, Accepting(s), UpdateDraft(s) \/ IssueDraft(s)
    PROVE  QuoteLife!Next
  <1>0. PICK q \in Quotes : q = session[s].quote
    BY AcceptingFacts
  <1> DEFINE row == quote[q]
             r == session[s].request
  <1>1. Accepts(s) /\ RowHolds(q) /\ row \in QuoteRow /\ row.version \in Nat /\ r \in RequestRecord
    BY <1>0, AcceptingFacts, RowFacts
  <1>2. row.status = "draft" /\ row.operation = "none"
    BY <1>0, <1>1 DEF UpdateDraft, IssueDraft, Writes, Accepts, RowHolds, RowGood, Open
  <1>3. CASE UpdateDraft(s)
    <2> DEFINE content == Patched(row.content, r.parts)
               version == row.version + 1
               new == [row EXCEPT !.version = version, !.content = content]
    <2>1. content \in Contents /\ version \in Nat /\ version = row.version + 1
      BY <1>1, PatchedType DEF QuoteRow
    <2>2. SetQuote(q, new)
      BY <1>0, <1>3 DEF UpdateDraft
    <2> HIDE DEF content, version, row
    <2>3. /\ new \in QuoteRow /\ new.status = "draft" /\ new.version = version
          /\ new.operation = "none"
      BY <1>1, <1>2, <2>1 DEF QuoteRow
    <2> HIDE DEF new
    <2> USE DEF row
    <2>4. QuoteLife!Step(q, new.status, Outcome(new.operation), new.operation = "succeeded", 1)
      BY <2>1, <2>2, <2>3, RowIsStep
    <2>5. QuoteLife!Step(q, "draft", "none", FALSE, 1)
      <3>1. Outcome(new.operation) = "none" /\ (new.operation = "succeeded") = FALSE
        BY <2>3 DEF Outcome
      <3> QED BY <2>3, <2>4, <3>1
    <2>6. QuoteLife!Edit(q)
      BY <1>2, <2>5, RowFacts DEF QuoteLife!Edit, Phases
    <2> QED BY <2>6 DEF QuoteLife!Next
  <1>4. CASE IssueDraft(s)
    <2> DEFINE new == Frozen(s, row, 1)
    <2>1. OperationOf(s) = "issue" /\ SetQuote(q, new)
      BY <1>0, <1>4 DEF IssueDraft, Writes
    <2>2. /\ new \in QuoteRow /\ new.status = "issuing" /\ new.version = row.version + 1
          /\ new.operation = "pending"
      <3> HIDE DEF row
      <3> QED BY <1>1, <2>1, FrozenType DEF Issues
    <2> HIDE DEF new
    <2>3. QuoteLife!Step(q, new.status, Outcome(new.operation), new.operation = "succeeded", 1)
      BY <2>1, <2>2, RowIsStep
    <2>4. QuoteLife!Step(q, "issuing", "running", FALSE, 1)
      <3>1. Outcome(new.operation) = "running" /\ (new.operation = "succeeded") = FALSE
        BY <2>2 DEF Outcome
      <3> QED BY <2>2, <2>3, <3>1
    <2>5. QuoteLife!Issue(q)
      BY <1>2, <2>4, RowFacts DEF QuoteLife!Issue, Phases
    <2> QED BY <2>5 DEF QuoteLife!Next
  <1> QED BY <1>3, <1>4

LEMMA CancelInLife ==
    ASSUME IInv, NEW s \in Sessions, Accepting(s), CancelQuote(s)
    PROVE  QuoteLife!Next
  <1>0. PICK q \in Quotes : q = session[s].quote
    BY AcceptingFacts
  <1> DEFINE row == quote[q]
             clock == session[s].clock
             version == row.version + 1
             new == [row EXCEPT !.status = "cancelled", !.version = version, !.ended = clock]
  <1>1. /\ Accepts(s) /\ row \in QuoteRow /\ version \in Nat /\ version = row.version + 1
        /\ clock \in {NoTime} \cup 0..MaxNow /\ OperationOf(s) = "cancel" /\ SetQuote(q, new)
    BY <1>0, AcceptingFacts, RowFacts DEF CancelQuote, Writes
  <1>2. /\ Effective(row, clock) \in {"draft", "issuing", "issued"}
        /\ row.status = "issuing" => row.operation = "failed"
    BY <1>0, <1>1 DEF Accepts
  <1>3. /\ row.status \in {"draft", "issued", "issuing"}
        /\ row.status \notin {"draft", "issued"} => row.status = "issuing" /\ row.operation = "failed"
    BY <1>2 DEF Effective
  <1> HIDE DEF clock, version, row
  <1>4. /\ new \in QuoteRow /\ new.status = "cancelled" /\ new.version = version
        /\ new.operation = row.operation
    BY <1>1 DEF QuoteRow
  <1> HIDE DEF new
  <1> USE DEF row
  <1>5. QuoteLife!Step(q, new.status, Outcome(new.operation), new.operation = "succeeded", 1)
    BY <1>1, <1>4, RowIsStep
  <1>6. QuoteLife!Step(q, "cancelled", Outcomes[q], Documents[q], 1)
    BY <1>4, <1>5, RowFacts
  <1>7. Phases[q] \in {"draft", "issued"} \/ (Phases[q] = "issuing" /\ Outcomes[q] = "failed")
    BY <1>3, RowFacts DEF Outcome
  <1>8. QuoteLife!Cancel(q)
    BY <1>6, <1>7 DEF QuoteLife!Cancel, QuoteLife!IssuingWith, Phases, Outcomes, Documents
  <1> QED BY <1>8 DEF QuoteLife!Next

LEMMA OperationJobInLife ==
    ASSUME IInv, NEW q \in Quotes, CommitIssued(q) \/ OperationFails(q) \/ OperatorRetry(q)
    PROVE  QuoteLife!Next
  <1> DEFINE row == quote[q]
  <1>1. row \in QuoteRow /\ row.version \in Nat /\ row.status = "issuing"
    BY RowFacts DEF CommitIssued, OperationFails, OperatorRetry, OperationIs
  <1>2. ASSUME NEW status \in {"issuing", "issued"}, NEW increment \in {0, 1},
               NEW operation \in {"pending", "failed", "succeeded"},
               Job(q, status, operation, increment)
        PROVE  QuoteLife!Step(q, status, Outcome(operation), operation = "succeeded", increment)
    <2> DEFINE version == row.version + increment
               new == [row EXCEPT !.status = status, !.operation = operation, !.version = version]
    <2>1. SetQuote(q, new) /\ version \in Nat /\ version = row.version + increment
      BY <1>1, <1>2 DEF Job
    <2> HIDE DEF version, row
    <2>2. /\ new \in QuoteRow /\ new.status = status /\ new.operation = operation
          /\ new.version = version
      BY <1>1, <2>1 DEF QuoteRow
    <2> HIDE DEF new
    <2> USE DEF row
    <2>3. QuoteLife!Step(q, new.status, Outcome(new.operation),
                         new.operation = "succeeded", increment)
      BY <2>1, <2>2, RowIsStep
    <2> QED BY <2>2, <2>3
  <1>3. CASE CommitIssued(q)
    <2>1. row.operation = "pending" /\ Job(q, "issued", "succeeded", 1)
      BY <1>3 DEF CommitIssued, OperationIs
    <2>2. QuoteLife!Step(q, "issued", Outcome("succeeded"), "succeeded" = "succeeded", 1)
      BY <1>2, <2>1
    <2>3. QuoteLife!Step(q, "issued", "succeeded", TRUE, 1)
      BY <2>2 DEF Outcome
    <2>4. QuoteLife!Complete(q)
      BY <1>1, <2>1, <2>3, RowFacts
      DEF QuoteLife!Complete, QuoteLife!IssuingWith, Phases, Outcomes, Outcome
    <2> QED BY <2>4 DEF QuoteLife!Next
  <1>4. CASE OperationFails(q)
    <2>1. row.operation = "pending" /\ Job(q, "issuing", "failed", 0)
      BY <1>4 DEF OperationFails, OperationIs
    <2>2. QuoteLife!Step(q, "issuing", Outcome("failed"), "failed" = "succeeded", 0)
      BY <1>2, <2>1
    <2>3. QuoteLife!Step(q, "issuing", "failed", FALSE, 0)
      BY <2>2 DEF Outcome
    <2>4. QuoteLife!Fail(q)
      BY <1>1, <2>1, <2>3, RowFacts
      DEF QuoteLife!Fail, QuoteLife!IssuingWith, Phases, Outcomes, Outcome
    <2> QED BY <2>4 DEF QuoteLife!Next
  <1>5. CASE OperatorRetry(q)
    <2>1. row.operation = "failed" /\ Job(q, "issuing", "pending", 1)
      BY <1>5 DEF OperatorRetry, OperationIs
    <2>2. QuoteLife!Step(q, "issuing", Outcome("pending"), "pending" = "succeeded", 1)
      BY <1>2, <2>1
    <2>3. QuoteLife!Step(q, "issuing", "running", FALSE, 1)
      BY <2>2 DEF Outcome
    <2>4. QuoteLife!Retry(q)
      BY <1>1, <2>1, <2>3, RowFacts
      DEF QuoteLife!Retry, QuoteLife!IssuingWith, Phases, Outcomes, Outcome
    <2> QED BY <2>4 DEF QuoteLife!Next
  <1> QED BY <1>3, <1>4, <1>5

LEMMA ExpiryInLife == ASSUME IInv, NEW q \in Quotes, MaterializeExpiry(q) PROVE QuoteLife!Next
  <1> DEFINE row == quote[q]
             version == row.version + 1
             until == row.until
             new == [row EXCEPT !.status = "expired", !.ended = until, !.version = version]
  <1>1. /\ row \in QuoteRow /\ version \in Nat /\ version = row.version + 1
        /\ SetQuote(q, new) /\ row.status = "issued" /\ until <= now
    BY RowFacts DEF MaterializeExpiry
  <1>2. until \in {NoTime} \cup 0..MaxNow
    <2>1. until \in {NoTime} \cup 0..(MaxNow + Validity) /\ now \in 0..MaxNow
      BY <1>1 DEF QuoteRow, IInv, Typed
    <2> QED BY <1>1, <2>1, ConstantsAssumption DEF ConstantsAssumption
  <1> HIDE DEF version, row, until
  <1>3. /\ new \in QuoteRow /\ new.status = "expired" /\ new.version = version
        /\ new.operation = row.operation
    BY <1>1, <1>2 DEF QuoteRow
  <1> HIDE DEF new
  <1> USE DEF row
  <1>4. QuoteLife!Step(q, new.status, Outcome(new.operation), new.operation = "succeeded", 1)
    BY <1>1, <1>3, RowIsStep
  <1>5. QuoteLife!Step(q, "expired", Outcomes[q], Documents[q], 1)
    BY <1>3, <1>4, RowFacts
  <1>6. QuoteLife!Expire(q)
    BY <1>1, <1>5, RowFacts DEF QuoteLife!Expire, Phases, Outcomes, Documents
  <1> QED BY <1>6 DEF QuoteLife!Next

LEMMA StepInLife == ASSUME IInv, [Next]_vars PROVE QuoteLife!Next \/ UNCHANGED quote
  <1>1. ASSUME NEW s \in Sessions, Accepting(s), Effect(s)
        PROVE  QuoteLife!Next \/ UNCHANGED quote
    BY <1>1, CreatesInLife, EditsInLife, CancelInLife DEF Effect, RequestDelivery
  <1>2. ASSUME NEW s \in Sessions, Apply(s) PROVE QuoteLife!Next \/ UNCHANGED quote
    BY <1>1, <1>2 DEF Apply, Accepting
  <1>3. ASSUME NEW s \in Sessions, Handle(s) PROVE QuoteLife!Next \/ UNCHANGED quote
    <2>1. CASE Commit(s) \/ CommitOutcomeUnknown(s)
      BY <1>2, <2>1 DEF Commit, CommitOutcomeUnknown, database
    <2>2. CASE ~(Commit(s) \/ CommitOutcomeUnknown(s))
      BY <1>3, <2>2
      DEF Handle, Begin, LockScope, AnswerFromBinding, Decide, Reject, DatabaseFails,
          AnswerIssuance, AnswerReadFails, EndSession, database
    <2> QED BY <2>1, <2>2
  <1>4. CASE Jobs
    <2>1. ASSUME NEW q \in Quotes, CommitIssued(q) \/ OperationFails(q) \/ OperatorRetry(q)
          PROVE  QuoteLife!Next
      BY <2>1, OperationJobInLife
    <2> QED BY <1>4, <2>1, ExpiryInLife DEF Jobs, ClaimDelivery
  <1>5. CASE Tick \/ UNCHANGED vars
    BY <1>5 DEF Tick, vars, database
  <1> QED BY <1>3, <1>4, <1>5 DEF Next

(* Every transaction that changes a quote makes one transition of the      *)
(* state machine, whichever command or job it belongs to.                  *)
THEOREM LifecycleHolds == Spec => ImplementsLifecycle
  <1>1. Init => QuoteLife!Init
    <2> SUFFICES ASSUME Init PROVE QuoteLife!Init
      OBVIOUS
    <2>1. /\ Phases = [q \in Quotes |-> "absent"] /\ Versions = [q \in Quotes |-> 0]
          /\ Outcomes = [q \in Quotes |-> "none"] /\ Documents = [q \in Quotes |-> FALSE]
      BY AbsentType DEF Init, Phases, Versions, Outcomes, OutcomeOf, Documents
    <2> QED BY <2>1 DEF QuoteLife!Init, Phases, Versions, Outcomes, Documents
  <1>2. IInv /\ [Next]_vars => [QuoteLife!Next]_(QuoteLife!vars)
    <2> SUFFICES ASSUME IInv, [Next]_vars PROVE [QuoteLife!Next]_(QuoteLife!vars)
      OBVIOUS
    <2>1. QuoteLife!Next \/ UNCHANGED quote
      BY StepInLife
    <2>2. UNCHANGED quote => UNCHANGED QuoteLife!vars
      BY DEF QuoteLife!vars, OutcomeOf
    <2> QED BY <2>1, <2>2
  <1> QED BY <1>1, <1>2, InvariantHolds, PTL DEF Spec, ImplementsLifecycle, QuoteLife!Spec
-----------------------------------------------------------------------------
(* The content under a version is defined by recursion on the versions.    *)

Below == {p \in Nat \X Nat : p[1] < p[2]}

(* A set of natural numbers has a least one.                               *)
LEMMA Least ==
    ASSUME NEW T, T \subseteq Nat, T # {}
    PROVE  \E x \in T : \A y \in T : x <= y
  <1>1. IsWellFoundedOn(Below, Nat)
    BY NatLessThanWellFounded, Zenon DEF OpToRel, Below
  <1>2. PICK x \in T : \A y \in T : ~(<<y, x>> \in Below)
    BY <1>1, WFMin
  <1>3. \A y \in T : y < x => <<y, x>> \in Below
    BY DEF Below
  <1>4. \A y \in T : ~(y < x)
    BY <1>2, <1>3
  <1> QED BY <1>2, <1>4

(* ContentAt, as a function of the bindings.                               *)
EditsIn(b, q, v) ==
    {sc \in Scopes : b[sc].quote = q /\ Operation[sc] = "draft_update" /\ b[sc].request.expected = v}
CreatedIn(b, q) == {sc \in Scopes : b[sc].quote = q /\ Creates(Operation[sc])}
PartsIn(b, scopes) == b[CHOOSE sc \in scopes : TRUE].request.parts

FirstIn(b, q) ==
    IF CreatedIn(b, q) = {} THEN AbsentQuote.content ELSE Snapshot(PartsIn(b, CreatedIn(b, q)))
NextIn(b, q, v, content) ==
    IF EditsIn(b, q, v) = {} THEN content ELSE Patched(content, PartsIn(b, EditsIn(b, q, v)))

(* g gives the content of every version up to n.                           *)
IsHistory(b, q, n, g) ==
    g = [v \in 1..n |-> IF v = 1 THEN FirstIn(b, q) ELSE NextIn(b, q, v - 1, g[v - 1])]

ContentIn(b, q, n) ==
    LET at[v \in 1..n] == IF v = 1 THEN FirstIn(b, q) ELSE NextIn(b, q, v - 1, at[v - 1])
    IN at[n]

(* Every quote has a history, and only one: by the least version at which  *)
(* it had none, or two that differ.                                        *)
LEMMA HistoryExists ==
    ASSUME NEW b, NEW q, NEW n \in Nat
    PROVE  \E g : IsHistory(b, q, n, g)
  <1> DEFINE T == {m \in Nat : ~\E g : IsHistory(b, q, m, g)}
  <1>1. CASE T = {}
    BY <1>1
  <1>2. CASE T # {}
    <2>1. PICK m \in T : \A k \in T : m <= k
      BY <1>2, Least
    <2>2. m # 0
      <3>1. IsHistory(b, q, 0, [v \in 1..0 |-> 0])
        BY DEF IsHistory
      <3> QED BY <3>1
    <2>3. m - 1 \in Nat /\ m - 1 \notin T
      BY <2>1, <2>2
    <2>4. PICK g : IsHistory(b, q, m - 1, g)
      BY <2>3
    <2> DEFINE step(v, c) == IF v = 1 THEN FirstIn(b, q) ELSE NextIn(b, q, v - 1, c)
               h == [v \in 1..m |-> IF v = m THEN step(v, g[v - 1]) ELSE g[v]]
    <2>5. ASSUME NEW v \in 1..m PROVE h[v] = step(v, h[v - 1])
      <3>1. CASE v = m
        <4>1. h[v] = step(v, g[v - 1])
          BY <3>1
        <4>2. v # 1 => h[v - 1] = g[v - 1]
          BY <3>1, <2>3
        <4> QED BY <4>1, <4>2
      <3>2. CASE v # m
        <4>1. v \in 1..(m - 1) /\ h[v] = g[v]
          BY <3>2, <2>3
        <4>2. g[v] = IF v = 1 THEN FirstIn(b, q) ELSE NextIn(b, q, v - 1, g[v - 1])
          BY <4>1, <2>4 DEF IsHistory
        <4>3. v # 1 => h[v - 1] = g[v - 1]
          BY <3>2, <2>3
        <4> QED BY <4>1, <4>2, <4>3
      <3> QED BY <3>1, <3>2
    <2>6. h = [v \in 1..m |-> h[v]]
      OBVIOUS
    <2> HIDE DEF h
    <2>7. IsHistory(b, q, m, h)
      BY <2>5, <2>6 DEF IsHistory
    <2> QED BY <2>1, <2>7
  <1> QED BY <1>1, <1>2

LEMMA HistoriesAgree ==
    ASSUME NEW b, NEW q, NEW n \in Nat, NEW m \in Nat, n <= m, NEW g, NEW h,
           IsHistory(b, q, n, g), IsHistory(b, q, m, h)
    PROVE  \A v \in 1..n : g[v] = h[v]
  <1> DEFINE T == {v \in 1..n : g[v] # h[v]}
  <1>1. CASE T = {}
    BY <1>1
  <1>2. CASE T # {}
    <2>1. PICK v \in T : \A k \in T : v <= k
      <3>1. T \subseteq Nat
        OBVIOUS
      <3> HIDE DEF T
      <3> QED BY <1>2, <3>1, Least
    <2>2. v # 1 => v - 1 \in 1..n /\ v - 1 \notin T
      BY <2>1
    <2>3. v # 1 => g[v - 1] = h[v - 1]
      BY <2>2
    <2>4. v \in 1..n /\ v \in 1..m
      OBVIOUS
    <2>5. /\ g[v] = IF v = 1 THEN FirstIn(b, q) ELSE NextIn(b, q, v - 1, g[v - 1])
          /\ h[v] = IF v = 1 THEN FirstIn(b, q) ELSE NextIn(b, q, v - 1, h[v - 1])
      BY <2>4 DEF IsHistory
    <2> QED BY <2>1, <2>3, <2>5
  <1> QED BY <1>1, <1>2

LEMMA ContentIsHistory ==
    ASSUME NEW b, NEW q, NEW n \in Nat \ {0}
    PROVE  \E g : IsHistory(b, q, n, g) /\ ContentIn(b, q, n) = g[n]
  <1> DEFINE at == CHOOSE g : IsHistory(b, q, n, g)
  <1>1. IsHistory(b, q, n, at)
    BY HistoryExists
  <1>2. ContentIn(b, q, n) = at[n]
    BY DEF ContentIn, IsHistory
  <1> QED BY <1>1, <1>2

LEMMA ContentUnfolds ==
    ASSUME NEW b, NEW q, NEW n \in Nat \ {0}
    PROVE  ContentIn(b, q, n) = IF n = 1 THEN FirstIn(b, q)
                                ELSE NextIn(b, q, n - 1, ContentIn(b, q, n - 1))
  <1>1. PICK g : IsHistory(b, q, n, g) /\ ContentIn(b, q, n) = g[n]
    BY ContentIsHistory
  <1>2. g[n] = IF n = 1 THEN FirstIn(b, q) ELSE NextIn(b, q, n - 1, g[n - 1])
    BY <1>1 DEF IsHistory
  <1>3. ASSUME n # 1 PROVE g[n - 1] = ContentIn(b, q, n - 1)
    <2>1. n - 1 \in Nat \ {0} /\ n - 1 <= n /\ n - 1 \in 1..(n - 1)
      BY <1>3
    <2>2. PICK h : IsHistory(b, q, n - 1, h) /\ ContentIn(b, q, n - 1) = h[n - 1]
      BY <2>1, ContentIsHistory
    <2> QED BY <1>1, <2>1, <2>2, HistoriesAgree
  <1> QED BY <1>1, <1>2, <1>3

LEMMA ContentAtIs ==
    ASSUME NEW q, NEW n
    PROVE  /\ ContentAt(q, n) = ContentIn(binding, q, n)
           /\ ContentAt(q, n)' = ContentIn(binding', q, n)
  <1> USE DEF FirstIn, NextIn, PartsIn, CreatedIn, EditsIn, BoundTo, Expected
  <1>1. ContentAt(q, n) = ContentIn(binding, q, n)
    BY DEF ContentAt, ContentIn
  <1>2. ContentAt(q, n)' = ContentIn(binding', q, n)
    BY DEF ContentAt, ContentIn
  <1> QED BY <1>1, <1>2

(* What is bound to a quote later than version n leaves the content that   *)
(* was its content at n.                                                   *)
BoundLater(b, c, q, n) ==
    /\ \A sc \in Scopes : b[sc].quote = q => c[sc] = b[sc]
    /\ \A sc \in Scopes : c[sc].quote = q /\ b[sc].quote # q =>
          /\ ~Creates(Operation[sc])
          /\ Operation[sc] = "draft_update" =>
                c[sc].request.expected \in Nat /\ n <= c[sc].request.expected

LEMMA PastIsKept ==
    ASSUME NEW b, NEW c, NEW q, NEW n \in Nat \ {0}, BoundLater(b, c, q, n)
    PROVE  ContentIn(c, q, n) = ContentIn(b, q, n)
  <1>1. ASSUME NEW T, T \subseteq {sc \in Scopes : b[sc].quote = q}, T # {}
        PROVE  PartsIn(c, T) = PartsIn(b, T)
    BY <1>1 DEF BoundLater, PartsIn
  <1>2. CreatedIn(c, q) = CreatedIn(b, q)
    BY DEF BoundLater, CreatedIn
  <1>3. FirstIn(c, q) = FirstIn(b, q)
    <2>1. CreatedIn(b, q) \subseteq {sc \in Scopes : b[sc].quote = q}
      BY DEF CreatedIn
    <2> QED BY <1>1, <1>2, <2>1 DEF FirstIn
  <1>4. ASSUME NEW v \in 1..n, v # 1, NEW content
        PROVE  NextIn(c, q, v - 1, content) = NextIn(b, q, v - 1, content)
    <2>1. EditsIn(c, q, v - 1) = EditsIn(b, q, v - 1)
      <3>1. ASSUME NEW sc \in Scopes, c[sc].quote = q, c[sc].request.expected = v - 1,
                   Operation[sc] = "draft_update"
            PROVE  b[sc].quote = q
        BY <1>4, <3>1 DEF BoundLater
      <3> QED BY <3>1 DEF BoundLater, EditsIn
    <2>2. EditsIn(b, q, v - 1) \subseteq {sc \in Scopes : b[sc].quote = q}
      BY DEF EditsIn
    <2> QED BY <1>1, <2>1, <2>2 DEF NextIn
  <1>5. PICK g : IsHistory(b, q, n, g) /\ ContentIn(b, q, n) = g[n]
    BY ContentIsHistory
  <1>6. IsHistory(c, q, n, g)
    BY <1>3, <1>4, <1>5 DEF IsHistory
  <1>7. PICK h : IsHistory(c, q, n, h) /\ ContentIn(c, q, n) = h[n]
    BY ContentIsHistory
  <1> QED BY <1>5, <1>6, <1>7, HistoriesAgree

(* The parts that one request gave.                                        *)
LEMMA PartsOfOne ==
    ASSUME NEW b, NEW sc
    PROVE  PartsIn(b, {sc}) = b[sc].request.parts
  <1>1. (CHOOSE x \in {sc} : TRUE) = sc
    OBVIOUS
  <1> QED BY <1>1 DEF PartsIn

(* Only an acceptance changes the content of a quote, or opens a draft.    *)
LEMMA ContentKept ==
    ASSUME IInv, [Next]_vars, ~\E s \in Sessions : Accepting(s) /\ Apply(s), NEW q \in Quotes
    PROVE  /\ quote'[q].content = quote[q].content
           /\ quote'[q].status = "draft" => quote'[q] = quote[q]
  <1>1. ASSUME NEW s \in Sessions, Handle(s) PROVE UNCHANGED quote
    <2> USE DEF database
    <2>1. Apply(s) => UNCHANGED quote
      BY <1>1 DEF Apply, Accepting
    <2>2. CASE Commit(s) \/ CommitOutcomeUnknown(s)
      BY <2>1, <2>2 DEF Commit, CommitOutcomeUnknown
    <2>3. CASE ~(Commit(s) \/ CommitOutcomeUnknown(s))
      BY <1>1, <2>3
      DEF Handle, Begin, LockScope, AnswerFromBinding, Decide, Reject, DatabaseFails,
          AnswerIssuance, AnswerReadFails, EndSession
    <2> QED BY <2>2, <2>3
  <1>2. Tick \/ UNCHANGED vars \/ (\E sc \in Scopes : ClaimDelivery(sc)) => UNCHANGED quote
    BY DEF ClaimDelivery, Tick, vars, database
  <1>3. ASSUME NEW p \in Quotes, NEW row, SetQuote(p, row), row.status # "draft",
               row.content = quote[p].content
        PROVE  /\ quote'[q].content = quote[q].content
               /\ quote'[q].status = "draft" => quote'[q] = quote[q]
    BY <1>3 DEF SetQuote, IInv, Typed
  <1>4. ASSUME NEW p \in Quotes, NEW status \in {"issuing", "issued"}, NEW operation,
               NEW increment, Job(p, status, operation, increment)
        PROVE  \E row : SetQuote(p, row) /\ row.status # "draft" /\ row.content = quote[p].content
    <2> DEFINE version == quote[p].version + increment
               row == [quote[p] EXCEPT !.status = status, !.operation = operation,
                                       !.version = version]
    <2>1. SetQuote(p, row)
      BY <1>4 DEF Job
    <2> HIDE DEF version
    <2>2. row.status = status /\ row.content = quote[p].content
      BY DEF IInv, Typed, QuoteRow
    <2> QED BY <2>1, <2>2
  <1>5. ASSUME NEW p \in Quotes, MaterializeExpiry(p)
        PROVE  \E row : SetQuote(p, row) /\ row.status # "draft" /\ row.content = quote[p].content
    <2> DEFINE version == quote[p].version + 1
               row == [quote[p] EXCEPT !.status = "expired", !.ended = quote[p].until,
                                       !.version = version]
    <2>1. SetQuote(p, row)
      BY <1>5 DEF MaterializeExpiry
    <2> HIDE DEF version
    <2>2. row.status = "expired" /\ row.content = quote[p].content
      BY DEF IInv, Typed, QuoteRow
    <2> QED BY <2>1, <2>2
  <1>6. ASSUME NEW p \in Quotes, CommitIssued(p) \/ OperationFails(p) \/ OperatorRetry(p)
        PROVE  \E row : SetQuote(p, row) /\ row.status # "draft" /\ row.content = quote[p].content
    BY <1>4, <1>6 DEF CommitIssued, OperationFails, OperatorRetry
  <1> QED BY <1>1, <1>2, <1>3, <1>5, <1>6 DEF Next, Jobs

(* What an acceptance makes of the content.                                *)
LEMMA EffectContent ==
    ASSUME IInv, NEW s \in Sessions, Accepting(s), Effect(s)
    PROVE  LET row == quote[session[s].quote]
               new == quote'[session[s].quote]
               parts == session[s].request.parts
               operation == OperationOf(s) IN
           /\ Creates(operation) => new.content = Snapshot(parts)
           /\ operation = "draft_create" => new.version = 1
           /\ operation = "draft_update" =>
                 new.content = Patched(row.content, parts) /\ new.version = row.version + 1
           /\ ~Creates(operation) /\ operation # "draft_update" => new.content = row.content
           /\ operation \in {"create_and_issue", "issue", "cancel"} => new.status # "draft"
           /\ operation = "delivery_email" => new = row
  <1> DEFINE row == quote[session[s].quote]
             new == quote'[session[s].quote]
             parts == session[s].request.parts
  <1>1. PICK q \in Quotes : q = session[s].quote
    BY AcceptingFacts
  <1>2. row \in QuoteRow /\ quote \in [Quotes -> QuoteRow]
    BY <1>1 DEF IInv, Typed
  <1>3. ASSUME NEW x, SetQuote(q, x) PROVE new = x
    BY <1>1, <1>2, <1>3 DEF SetQuote
  <1>4. DraftRow(s).content = Snapshot(parts) /\ DraftRow(s).version = 1
    BY DEF DraftRow, AbsentQuote
  <1>5. ASSUME NEW draft, NEW increment, new = Frozen(s, draft, increment), draft \in QuoteRow
        PROVE  new.content = draft.content /\ new.status = "issuing"
    <2> DEFINE version == draft.version + increment
               until == session[s].started + Validity
    <2>1. new = [draft EXCEPT !.status = "issuing", !.version = version,
                    !.number = session[s].number, !.until = until, !.operation = "pending"]
      BY <1>5 DEF Frozen
    <2> HIDE DEF version, until, new
    <2> QED BY <1>5, <2>1 DEF QuoteRow
  <1>6. CASE CreateDraft(s)
    <2>1. OperationOf(s) = "draft_create" /\ new = DraftRow(s)
      BY <1>1, <1>3, <1>6 DEF CreateDraft, Writes
    <2> QED BY <1>4, <2>1 DEF Creates
  <1>7. CASE CreateAndIssue(s)
    <2>1. OperationOf(s) = "create_and_issue" /\ new = Frozen(s, DraftRow(s), 0)
      BY <1>1, <1>3, <1>7 DEF CreateAndIssue, Writes
    <2>2. DraftRow(s) \in QuoteRow
      BY DraftRowType
    <2>3. new.content = DraftRow(s).content /\ new.status = "issuing"
      <3> HIDE DEF new
      <3> QED BY <1>5, <2>1, <2>2
    <2> QED BY <1>4, <2>1, <2>3 DEF Creates
  <1>8. CASE UpdateDraft(s)
    <2> DEFINE version == row.version + 1
               content == Patched(row.content, parts)
    <2>1. /\ OperationOf(s) = "draft_update"
          /\ new = [row EXCEPT !.version = version, !.content = content]
      BY <1>1, <1>3, <1>8 DEF UpdateDraft, Writes
    <2>2. new.version = version /\ new.content = content
      <3> HIDE DEF version, content, new, row
      <3> QED BY <1>2, <2>1 DEF QuoteRow
    <2> QED BY <2>1, <2>2 DEF Creates
  <1>9. CASE IssueDraft(s)
    <2>1. OperationOf(s) = "issue" /\ new = Frozen(s, row, 1)
      BY <1>1, <1>3, <1>9 DEF IssueDraft, Writes
    <2>2. new.content = row.content /\ new.status = "issuing"
      <3> HIDE DEF new, row
      <3> QED BY <1>2, <1>5, <2>1
    <2> QED BY <2>1, <2>2 DEF Creates
  <1>10. CASE CancelQuote(s)
    <2> DEFINE version == row.version + 1
               ended == session[s].clock
    <2>1. /\ OperationOf(s) = "cancel"
          /\ new = [row EXCEPT !.status = "cancelled", !.version = version, !.ended = ended]
      BY <1>1, <1>3, <1>10 DEF CancelQuote, Writes
    <2>2. new.status = "cancelled" /\ new.content = row.content
      <3> HIDE DEF version, ended, new, row
      <3> QED BY <1>2, <2>1 DEF QuoteRow
    <2> QED BY <2>1, <2>2 DEF Creates
  <1>11. CASE RequestDelivery(s)
    BY <1>11 DEF RequestDelivery, Writes, Creates
  <1> QED BY <1>6, <1>7, <1>8, <1>9, <1>10, <1>11 DEF Effect

(* IssuedAsSeen, by the bindings, and what it needs to be inductive.       *)
AsSeen(q) ==
    /\ quote[q].status = "draft" =>
          /\ quote[q].version # 0
          /\ quote[q].content = ContentIn(binding, q, quote[q].version)
    /\ \A sc \in Scopes : binding[sc].quote = q /\ Operation[sc] = "issue" =>
          /\ binding[sc].request.expected # 0
          /\ quote[q].content = ContentIn(binding, q, binding[sc].request.expected)

(* An acceptance leaves the content its version says.                      *)
LEMMA AcceptanceAsSeen ==
    ASSUME IInv, \A q \in Quotes : AsSeen(q), NEW s \in Sessions, Accepting(s), Apply(s)
    PROVE  \A q \in Quotes : AsSeen(q)'
  <1>0. PICK own \in Scopes, q \in Quotes, r \in RequestRecord, op \in Operations :
            /\ own = session[s].scope /\ q = session[s].quote /\ r = session[s].request
            /\ op = OperationOf(s)
    BY AcceptingFacts
  <1>1. Effect(s) /\ Bind(s) /\ UNCHANGED <<now, drawn>> /\ Accepts(s) /\ op = Operation[own]
    BY <1>0, AcceptingFacts DEF Apply, Accepting, OperationOf
  <1>2. Written(s) /\ Mailed(s)
    BY <1>1, EffectWritten, EffectMails
  <1>3. /\ binding'[own] = [request |-> r, quote |-> q]
        /\ \A sc \in Scopes \ {own} : binding'[sc] = binding[sc]
    BY <1>0, <1>1, <1>2, EffectBindings
  <1>4. /\ binding[own] = NoBinding /\ binding[own].quote \notin Quotes
    BY <1>0, AcceptingFacts, ConstantsAssumption DEF ConstantsAssumption, Bound, NoBinding
  <1>5. ASSUME NEW p \in Quotes, p # q PROVE AsSeen(p)'
    <2>1. quote'[p] = quote[p] /\ quote[p] \in QuoteRow
      BY <1>0, <1>2, <1>5 DEF Written, IInv, Typed
    <2>2. \A sc \in Scopes : binding'[sc].quote = p <=> binding[sc].quote = p
      BY <1>3, <1>4, <1>5
    <2>3. ASSUME NEW n \in Nat \ {0} PROVE ContentIn(binding', p, n) = ContentIn(binding, p, n)
      <3>1. BoundLater(binding, binding', p, n)
        BY <1>3, <1>4, <2>2 DEF BoundLater
      <3> QED BY <3>1, PastIsKept
    <2>4. ASSUME NEW sc \in Scopes, binding'[sc].quote = p, Operation[sc] = "issue"
          PROVE  /\ binding'[sc].request.expected # 0
                 /\ quote'[p].content = ContentIn(binding', p, binding'[sc].request.expected)
      <3>1. binding'[sc] = binding[sc] /\ binding[sc].quote = p /\ BindingHolds(sc) /\ Bound(sc)
        BY <1>3, <1>5, <2>4, BoundByQuote DEF IInv, BindingsHold
      <3>2. binding[sc].request.expected \in Nat
        BY <3>1, ConstantsAssumption DEF ConstantsAssumption, BindingHolds, RequestRecord
      <3> QED BY <2>1, <2>3, <2>4, <3>1, <3>2 DEF AsSeen
    <2>5. quote'[p].status = "draft" =>
             /\ quote'[p].version # 0
             /\ quote'[p].content = ContentIn(binding', p, quote'[p].version)
      BY <2>1, <2>3 DEF AsSeen, QuoteRow
    <2> QED BY <2>4, <2>5 DEF AsSeen
  <1> DEFINE row == quote[q]
             new == quote'[q]
  <1>6. /\ row \in QuoteRow /\ row.version \in Nat /\ new \in QuoteRow /\ new.version \in Nat
    BY <1>0, <1>2 DEF IInv, Typed, Written, QuoteRow
  <1>7. ASSUME NEW sc \in Scopes, binding[sc].quote = q
        PROVE  /\ BindingHolds(sc) /\ sc # own /\ binding'[sc] = binding[sc]
               /\ row.status # "absent"
               /\ binding[sc].request.expected \in Nat
               /\ Operation[sc] \in Changing => binding[sc].request.expected < row.version
               /\ Operation[sc] = "issue" => row.status \notin Open
    <2>1. Bound(sc) /\ BindingHolds(sc) /\ sc # own
      BY <1>4, <1>7, BoundByQuote DEF IInv, BindingsHold
    <2>2. binding[sc].request \in RequestRecord
      BY <2>1, ConstantsAssumption DEF ConstantsAssumption, BindingHolds
    <2>3. Operation[sc] = "issue" => row.status \notin Open
      BY <1>7, <2>1 DEF BindingHolds, Issues
    <2>4. row.status # "absent" /\ (Operation[sc] \in Changing => binding[sc].request.expected < row.version)
      BY <1>7, <2>1 DEF BindingHolds, Expected
    <2> QED BY <1>3, <2>1, <2>2, <2>3, <2>4 DEF RequestRecord
  <1>8. /\ Creates(op) => new.content = Snapshot(r.parts)
        /\ op = "draft_create" => new.version = 1
        /\ op = "draft_update" =>
              new.content = Patched(row.content, r.parts) /\ new.version = row.version + 1
        /\ ~Creates(op) /\ op # "draft_update" => new.content = row.content
        /\ op \in {"create_and_issue", "issue", "cancel"} => new.status # "draft"
        /\ op = "delivery_email" => new = row
    BY <1>0, <1>1, EffectContent
  <1>9. /\ Creates(op) => row.status = "absent"
        /\ op \in {"draft_update", "issue"} => row.status = "draft" /\ row.version = r.expected
        /\ op = "cancel" => row.status # "draft" \/ row.version = r.expected
    BY <1>0, <1>1 DEF Accepts
  <1>10. ASSUME NEW n \in Nat \ {0}, ~Creates(op), op = "draft_update" => n <= row.version
         PROVE  ContentIn(binding', q, n) = ContentIn(binding, q, n)
    <2>1. op = "draft_update" => r.expected \in Nat /\ n <= r.expected
      BY <1>9, <1>10 DEF RequestRecord
    <2>2. BoundLater(binding, binding', q, n)
      BY <1>1, <1>3, <1>7, <1>10, <2>1 DEF BoundLater
    <2> QED BY <2>2, PastIsKept
  <1>11. CASE Creates(op)
    <2>1. \A sc \in Scopes : binding[sc].quote # q
      BY <1>7, <1>9, <1>11
    <2>2. \A sc \in Scopes : binding'[sc].quote = q <=> sc = own
      BY <1>3, <2>1
    <2>3. CreatedIn(binding', q) = {own}
      BY <1>1, <1>11, <2>2 DEF CreatedIn
    <2>4. ContentIn(binding', q, 1) = Snapshot(r.parts)
      <3>1. ContentIn(binding', q, 1) = FirstIn(binding', q)
        BY ContentUnfolds
      <3>2. PartsIn(binding', {own}) = r.parts
        <4>1. PartsIn(binding', {own}) = binding'[own].request.parts
          BY PartsOfOne, Zenon
        <4>2. binding'[own].request.parts = r.parts
          BY <1>3
        <4> QED BY <4>1, <4>2
      <3>3. CreatedIn(binding', q) # {}
        BY <2>3
      <3>4. FirstIn(binding', q) = Snapshot(PartsIn(binding', CreatedIn(binding', q)))
        BY <3>3 DEF FirstIn
      <3> QED BY <2>3, <3>1, <3>2, <3>4
    <2>5. new.status = "draft" => new.version = 1 /\ new.content = Snapshot(r.parts)
      BY <1>8, <1>11 DEF Creates
    <2>6. Operation[own] # "issue"
      BY <1>1, <1>11 DEF Creates
    <2> QED BY <1>5, <2>2, <2>4, <2>5, <2>6 DEF AsSeen
  <1>12. CASE op = "draft_update"
    <2>1. ~Creates(op) /\ row.status = "draft" /\ row.version = r.expected
      BY <1>9, <1>12 DEF Creates
    <2>2. row.version # 0 /\ row.content = ContentIn(binding, q, row.version)
      BY <2>1 DEF AsSeen
    <2>3. ContentIn(binding', q, row.version) = row.content
      BY <1>6, <1>10, <2>1, <2>2
    <2>4. EditsIn(binding', q, row.version) = {own}
      <3>1. ASSUME NEW sc \in Scopes, binding'[sc].quote = q, Operation[sc] = "draft_update",
                   binding'[sc].request.expected = row.version
            PROVE  sc = own
        <4> SUFFICES ASSUME sc # own PROVE FALSE
          OBVIOUS
        <4>1. binding[sc].quote = q /\ binding[sc].request.expected = row.version
          BY <1>3, <3>1
        <4>2. row.version < row.version
          BY <1>7, <3>1, <4>1 DEF Changing
        <4> QED BY <1>6, <4>2
      <3>2. own \in EditsIn(binding', q, row.version)
        <4>1. /\ Operation[own] = "draft_update" /\ binding'[own].quote = q
              /\ binding'[own].request.expected = row.version
          BY <1>1, <1>3, <1>12, <2>1
        <4> QED BY <4>1 DEF EditsIn
      <3> QED BY <3>1, <3>2 DEF EditsIn
    <2>5. PartsIn(binding', {own}) = r.parts
      <3>1. PartsIn(binding', {own}) = binding'[own].request.parts
        BY PartsOfOne, Zenon
      <3>2. binding'[own].request.parts = r.parts
        BY <1>3
      <3> QED BY <3>1, <3>2
    <2>6. NextIn(binding', q, row.version, row.content) = Patched(row.content, r.parts)
      BY <2>4, <2>5 DEF NextIn
    <2>7. ContentIn(binding', q, row.version + 1) = Patched(row.content, r.parts)
      <3> DEFINE next == row.version + 1
      <3>1. next \in Nat \ {0} /\ next # 1 /\ next - 1 = row.version
        BY <1>6, <2>2
      <3>2. ContentIn(binding', q, next) = NextIn(binding', q, next - 1, ContentIn(binding', q, next - 1))
        BY <3>1, ContentUnfolds
      <3> QED BY <2>3, <2>6, <3>1, <3>2
    <2>8. new.version # 0 /\ new.content = ContentIn(binding', q, new.version)
      BY <1>6, <1>8, <1>12, <2>7
    <2>9. \A sc \in Scopes : binding'[sc].quote = q => Operation[sc] # "issue"
      BY <1>1, <1>3, <1>7, <1>12, <2>1 DEF Open
    <2> QED BY <1>5, <2>8, <2>9 DEF AsSeen
  <1>13. CASE op \in {"issue", "cancel", "delivery_email"}
    <2>1. ~Creates(op) /\ op # "draft_update" /\ new.content = row.content
      BY <1>8, <1>13 DEF Creates
    <2>2. \A n \in Nat \ {0} : ContentIn(binding', q, n) = ContentIn(binding, q, n)
      BY <1>10, <2>1
    <2>3. new.status = "draft" =>
             new.version # 0 /\ new.content = ContentIn(binding', q, new.version)
      BY <1>6, <1>8, <1>13, <2>2 DEF AsSeen
    <2>4. ASSUME NEW sc \in Scopes, binding'[sc].quote = q, Operation[sc] = "issue"
          PROVE  /\ binding'[sc].request.expected # 0
                 /\ new.content = ContentIn(binding', q, binding'[sc].request.expected)
      <3>1. CASE sc = own
        <4>1. /\ row.status = "draft" /\ binding'[sc].request.expected = row.version
          BY <1>1, <1>3, <1>9, <2>4, <3>1
        <4>2. row.version # 0 /\ row.content = ContentIn(binding, q, row.version)
          BY <4>1 DEF AsSeen
        <4> QED BY <1>6, <2>1, <2>2, <4>1, <4>2
      <3>2. CASE sc # own
        <4>1. binding'[sc] = binding[sc] /\ binding[sc].quote = q
          BY <1>3, <2>4, <3>2
        <4>2. /\ binding[sc].request.expected \in Nat \ {0}
              /\ row.content = ContentIn(binding, q, binding[sc].request.expected)
          BY <1>7, <2>4, <4>1 DEF AsSeen
        <4> QED BY <2>1, <2>2, <4>1, <4>2
      <3> QED BY <3>1, <3>2
    <2> QED BY <1>5, <2>3, <2>4 DEF AsSeen
  <1> QED BY <1>11, <1>12, <1>13 DEF Operations, Creates

(* No edit is lost and none sneaks in: a draft's content is that of its    *)
(* version, and what was issued is exactly the content of the version its  *)
(* client asked to issue, whatever edits raced with it.                    *)
THEOREM IssuedAsSeenHolds == Spec => []IssuedAsSeen
  <1> DEFINE Seen == \A q \in Quotes : AsSeen(q)
  <1>1. Init => Seen
    BY ConstantsAssumption
    DEF ConstantsAssumption, Init, AsSeen, NoBinding, AbsentQuote
  <1>2. IInv /\ Seen /\ [Next]_vars => Seen'
    <2> SUFFICES ASSUME IInv, Seen, [Next]_vars PROVE Seen'
      OBVIOUS
    <2>1. ASSUME NEW s \in Sessions, Accepting(s), Apply(s) PROVE Seen'
      BY <2>1, AcceptanceAsSeen
    <2>2. CASE ~\E s \in Sessions : Accepting(s) /\ Apply(s)
      <3>1. binding' = binding
        BY <2>2, OnlyAcceptancesBind
      <3> SUFFICES ASSUME NEW q \in Quotes PROVE AsSeen(q)'
        OBVIOUS
      <3>2. /\ quote'[q].content = quote[q].content
            /\ quote'[q].status = "draft" => quote'[q] = quote[q]
        BY <2>2, ContentKept
      <3> QED BY <3>1, <3>2 DEF AsSeen
    <2> QED BY <2>1, <2>2
  <1>3. Seen => IssuedAsSeen
    BY ContentAtIs DEF AsSeen, IssuedAsSeen, BoundTo, Expected
  <1> HIDE DEF Seen
  <1> QED BY <1>1, <1>2, <1>3, InvariantHolds, PTL DEF Spec
=============================================================================
