----------------------------- MODULE QuoteReads -----------------------------
(***************************************************************************)
(* The reads: what a principal is shown of the quotes, their documents,    *)
(* operations, history and idempotency keys.                               *)
(*                                                                         *)
(* Every read is one repeatable-read snapshot, here the record `db` of the *)
(* tables it selects from, so a read is an operator on it.  A listing is   *)
(* read page by page and every page from a snapshot of its own.            *)
(*                                                                         *)
(* Instants are whole microseconds, as the database keeps them; one that   *)
(* reaches the program becomes whole milliseconds.  Identifiers are        *)
(* integers: only their order and their equality count.                    *)
(***************************************************************************)
EXTENDS Integers, Sequences, FiniteSets

Millisecond == 1000
NoInstant == -1
NoCursor == [v |-> 0]
Any == "any"               \* a filter the query does not state

(* A timestamptz read into a Date. *)
Date(t) == IF t = NoInstant THEN NoInstant ELSE (t \div Millisecond) * Millisecond

-----------------------------------------------------------------------------
(* The status of a quote, as the program shows it and as the database      *)
(* filters by it.                                                          *)

IsPastValidity(until, now) == until # NoInstant /\ now >= until

EffectiveExpiry(q, now) ==
    IF q.status = "issued" /\ IsPastValidity(Date(q.validUntil), now)
    THEN [status |-> "expired", expiredAt |-> Date(q.validUntil)]
    ELSE [status |-> q.status, expiredAt |-> Date(q.expiredAt)]

EffectiveStatusSql(q, now) ==
    IF q.status = "issued" /\ q.validUntil # NoInstant /\ q.validUntil <= now
    THEN "expired" ELSE q.status

-----------------------------------------------------------------------------
(* One resource.  A quote that is not visible is answered as a missing one. *)

Visible(principal, q) == principal.readsAny \/ q.owner = principal.id

VisibleQuotes(db, principal, quoteId) ==
    {q \in db.quotes : q.id = quoteId /\ Visible(principal, q)}

The(rows) == CHOOSE r \in rows : TRUE
DocumentsOf(db, quoteId) == {d \in db.documents : d.quote = quoteId}

QuoteView(db, q, now) ==
    [id |-> q.id, createdAt |-> Date(q.createdAt),
     status |-> EffectiveExpiry(q, now).status,
     expiredAt |-> EffectiveExpiry(q, now).expiredAt,
     available |-> DocumentsOf(db, q.id) # {}]

GetVisibleQuote(db, principal, quoteId, now) ==
    LET rows == VisibleQuotes(db, principal, quoteId) IN
    IF rows = {} THEN "quote_not_found" ELSE QuoteView(db, The(rows), now)

GetVisibleOperation(db, principal, operationId) ==
    LET rows == {o \in db.operations :
                    o.id = operationId /\ VisibleQuotes(db, principal, o.quote) # {}} IN
    IF rows = {} THEN "operation_not_found" ELSE The(rows)

(* The document route serves the committed manifest's bytes once they are  *)
(* verified, whatever the quote's status is now; `intact` are the manifests *)
(* whose stored bytes are those recorded.                                  *)
GetDocument(db, principal, quoteId, intact) ==
    IF VisibleQuotes(db, principal, quoteId) = {} THEN "quote_not_found"
    ELSE IF DocumentsOf(db, quoteId) = {} THEN "document_not_available"
    ELSE IF The(DocumentsOf(db, quoteId)) \notin intact THEN "document_storage_failed"
    ELSE The(DocumentsOf(db, quoteId)).pdf

(* The scope holds the caller's own principal: no other key can be asked for. *)
LookupIdempotencyBinding(db, principal, operation, keyHash, now) ==
    LET bound == {b \in db.bindings : b.scope = <<principal.id, operation, keyHash>>} IN
    IF bound = {} THEN "not_found"
    ELSE LET found == The(bound)
             q == The({q \in db.quotes : q.id = found.quote})
         IN [quote |-> found.quote, fingerprint |-> found.fingerprint,
             status |-> EffectiveExpiry(q, now).status]

-----------------------------------------------------------------------------
(* A page.  The database puts the rows of a query in order and returns one *)
(* more than the limit; an order is the set of the pairs it puts so.       *)

IsListing(s, rows, order) ==
    /\ s \in Seq(rows)
    /\ \A i, j \in 1..Len(s) : i < j => <<s[i], s[j]>> \in order
    /\ \A r \in rows : \E i \in 1..Len(s) : s[i] = r

Listing(rows, order) ==
    CHOOSE s \in [1..Cardinality(rows) -> rows] : IsListing(s, rows, order)

Fetched(s, limit) == SubSeq(s, 1, IF Len(s) <= limit THEN Len(s) ELSE limit + 1)
PageRows(s, limit) ==
    LET rows == Fetched(s, limit)
    IN SubSeq(rows, 1, IF Len(rows) <= limit THEN Len(rows) ELSE limit)
HasNext(s, limit) == Len(Fetched(s, limit)) > limit
LastOf(rows) == rows[Len(rows)]

-----------------------------------------------------------------------------
(* The list of quotes: newest first, by a cursor of microsecond precision. *)

Newer(t, id, q) == t > q.createdAt \/ (t = q.createdAt /\ id > q.id)
NewestFirst(rows) == {p \in rows \X rows : Newer(p[1].createdAt, p[1].id, p[2])}

FilterFingerprint(query) == <<query.source, query.reference, query.status>>

CursorAccepted(query, cursor) ==
    cursor = NoCursor \/ (cursor.v = 1 /\ cursor.f = FilterFingerprint(query))

Matching(db, principal, query, now) ==
    {q \in db.quotes :
        /\ q.source = query.source
        /\ query.reference \in {Any, q.reference}
        /\ Visible(principal, q)
        /\ query.status \in {Any, EffectiveStatusSql(q, now)}}

After(cursor, rows) == {q \in rows : cursor = NoCursor \/ Newer(cursor.t, cursor.id, q)}

CursorAt(query, q) == [v |-> 1, f |-> FilterFingerprint(query), t |-> q.createdAt, id |-> q.id]

QuotePage(s, query, limit) ==
    [rows |-> PageRows(s, limit),
     next |-> IF HasNext(s, limit) THEN CursorAt(query, LastOf(PageRows(s, limit))) ELSE NoCursor]

ListVisibleQuotes(db, principal, query, cursor, limit, now) ==
    LET rows == After(cursor, Matching(db, principal, query, now))
        page == QuotePage(Listing(rows, NewestFirst(rows)), query, limit)
    IN IF ~CursorAccepted(query, cursor) THEN "invalid_request"
       ELSE [items |-> [i \in DOMAIN page.rows |-> QuoteView(db, page.rows[i], now)],
             next |-> page.next]

-----------------------------------------------------------------------------
(* The history of a quote, in the order of its sequence numbers.           *)

InSequence(events) == {p \in events \X events : p[1].sequence < p[2].sequence}

AuditAccepted(quoteId, cursor) ==
    cursor = NoCursor \/ (cursor.v = 1 /\ cursor.q = quoteId /\ cursor.s >= 1)

EventsAfter(db, quoteId, cursor) ==
    {e \in db.events : e.quote = quoteId /\ (cursor = NoCursor \/ e.sequence > cursor.s)}

AuditPage(s, quoteId, limit) ==
    [rows |-> PageRows(s, limit),
     next |-> IF HasNext(s, limit)
              THEN [v |-> 1, q |-> quoteId, s |-> LastOf(PageRows(s, limit)).sequence]
              ELSE NoCursor]

ListVisibleAudit(db, principal, quoteId, cursor, limit) ==
    LET events == EventsAfter(db, quoteId, cursor) IN
    IF ~AuditAccepted(quoteId, cursor) THEN "invalid_request"
    ELSE IF VisibleQuotes(db, principal, quoteId) = {} THEN "quote_not_found"
    ELSE AuditPage(Listing(events, InSequence(events)), quoteId, limit)
=============================================================================
