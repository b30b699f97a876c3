----------------------------- MODULE ReadSamples -----------------------------
(* Samples of the reads and of the validity policy, computed before a run   *)
(* that extends this module.                                                *)
EXTENDS Integers, Sequences, FiniteSets

LOCAL R == INSTANCE QuoteReads

SampleQuote(id, who, from, created, state, until) ==
    [id |-> id, owner |-> who, source |-> from, reference |-> "ref", createdAt |-> created,
     status |-> state, validUntil |-> until, expiredAt |-> R!NoInstant]

(* Two quotes created in the same microsecond and a third in the same       *)
(* millisecond; one whose validity has passed unnoticed; another's quote,   *)
(* and one of another source system.                                        *)
SampleQuotes ==
    {SampleQuote(1, "ann", "crm", 5001, "draft", R!NoInstant),
     SampleQuote(2, "ann", "crm", 5001, "issued", 6000),
     SampleQuote(3, "ann", "crm", 5002, "issued", 9000),
     SampleQuote(4, "bob", "crm", 7000, "issuing", 9000),
     SampleQuote(5, "ann", "web", 7000, "draft", R!NoInstant)}
SampleDatabase ==
    [quotes |-> SampleQuotes,
     documents |-> {[quote |-> 2, pdf |-> "two"], [quote |-> 3, pdf |-> "three"]},
     operations |-> {[id |-> 1, quote |-> 4, status |-> "running"]},
     events |-> {[quote |-> 3, sequence |-> i] : i \in 1..3},
     bindings |-> {[scope |-> <<"ann", "issue", "k">>, quote |-> 2, fingerprint |-> "f"]}]
(* The same, after a draft was issued and newer quotes were created.        *)
LaterDatabase ==
    [SampleDatabase EXCEPT !.quotes =
        {q \in @ : q.id # 1} \cup {SampleQuote(1, "ann", "crm", 5001, "issued", 9000),
                                   SampleQuote(6, "ann", "crm", 8000, "draft", R!NoInstant)}]

Ann == [id |-> "ann", readsAny |-> FALSE]
Auditor == [id |-> "zoe", readsAny |-> TRUE]
SampleQuery(state) == [source |-> "crm", reference |-> R!Any, status |-> state]

(* The ids on every page, the first read from one database, the rest from   *)
(* another.                                                                 *)
IdsListed(who, query, limit, first, rest) ==
    LET Pages[n \in Nat, cursor \in {R!NoCursor} \cup [v : {1}, f : {R!FilterFingerprint(query)}, t : Nat, id : Nat]] ==
          LET page == R!ListVisibleQuotes(IF n = 1 THEN first ELSE rest, who, query, cursor, limit, 6000)
              ids == [i \in DOMAIN page.items |-> page.items[i].id]
          IN IF page.next = R!NoCursor THEN ids ELSE ids \o Pages[n + 1, page.next]
    IN Pages[1, R!NoCursor]

(* Ties on createdAt are stable, and the pages together are the listing,    *)
(* whatever the limit and although the table changes after the first page.  *)
ASSUME PagesAreTheListing ==
    \A limit \in 1..4 :
        /\ IdsListed(Ann, SampleQuery(R!Any), limit, SampleDatabase, SampleDatabase) = <<3, 2, 1>>
        /\ IdsListed(Ann, SampleQuery(R!Any), limit, SampleDatabase, LaterDatabase) = <<3, 2, 1>>
        /\ IdsListed(Auditor, SampleQuery(R!Any), limit, SampleDatabase, LaterDatabase) = <<4, 3, 2, 1>>
        /\ IdsListed(Ann, SampleQuery("expired"), limit, SampleDatabase, SampleDatabase) = <<2>>

(* A cursor serves the query it was issued for only.                        *)
ASSUME CursorsAreBound ==
    LET page == R!ListVisibleQuotes(SampleDatabase, Ann, SampleQuery(R!Any), R!NoCursor, 1, 6000) IN
    R!ListVisibleQuotes(SampleDatabase, Ann, SampleQuery("draft"), page.next, 1, 6000) = "invalid_request"

(* Every read answers for another's quote as for none, and shows one state  *)
(* of a quote: the expiry is projected wherever its status is told.         *)
ASSUME ReadsAgree ==
    /\ R!GetVisibleQuote(SampleDatabase, Ann, 4, 6000) = R!GetVisibleQuote(SampleDatabase, Ann, 9, 6000)
    /\ R!GetVisibleOperation(SampleDatabase, Ann, 1) = R!GetVisibleOperation(SampleDatabase, Ann, 2)
    /\ R!GetVisibleOperation(SampleDatabase, Auditor, 1).status = "running"
    /\ R!GetVisibleQuote(SampleDatabase, Ann, 2, 6000).status = "expired"
    /\ R!LookupIdempotencyBinding(SampleDatabase, Ann, "issue", "k", 6000).status = "expired"
    /\ R!LookupIdempotencyBinding(SampleDatabase, Auditor, "issue", "k", 6000) = "not_found"
    /\ \A q \in SampleQuotes :
         /\ R!EffectiveStatusSql(q, 6000) = R!EffectiveExpiry(q, 6000).status
         /\ LET d == R!GetDocument(SampleDatabase, Auditor, q.id, SampleDatabase.documents) IN
            IF R!GetVisibleQuote(SampleDatabase, Auditor, q.id, 6000).available
            THEN d \in {"two", "three"} ELSE d = "document_not_available"
    /\ R!GetDocument(SampleDatabase, Ann, 2, {}) = "document_storage_failed"

(* The history in pages of one and of two.                                  *)
ASSUME HistoryIsPaged ==
    LET first(limit) == R!ListVisibleAudit(SampleDatabase, Ann, 3, R!NoCursor, limit)
        second(limit) == R!ListVisibleAudit(SampleDatabase, Ann, 3, first(limit).next, limit)
    IN /\ \A limit \in 1..2 : LET both == first(limit).rows \o second(limit).rows IN
            \A i \in DOMAIN both : both[i].sequence = i
       /\ second(2).next = R!NoCursor /\ second(1).next # R!NoCursor

-----------------------------------------------------------------------------
(* A zone like the issuer's, in hours: clocks go back an hour at the        *)
(* midnight before date 3 and skip the midnight before date 8.              *)
SampleZone == [t \in Int |-> (t + (IF t < 75 THEN -3 ELSE IF t < 196 THEN -4 ELSE -3)) \div 24]
LOCAL V == INSTANCE ValidityPolicy WITH CivilDate <- SampleZone, Day <- 24, Reach <- 14

(* The bisection finds the beginning of every date, and a quote is valid    *)
(* for four to five days and a repeated hour.                               *)
ASSUME DatesBegin ==
    /\ \A d \in -2..14 : LET start == V!StartOfLocalDate(d) IN
         SampleZone[start] = d /\ SampleZone[start - 1] = d - 1
    /\ V!StartOfLocalDate(3) = 76 /\ V!StartOfLocalDate(8) = 196
    /\ \A t \in 0..200 : LET v == V!ResolveValidity(t, V!NoOverride) IN
         /\ v.validUntilExclusive - t \in 96..121
         /\ SampleZone[v.validUntilExclusive] = SampleZone[t] + 5

(* An override may end with the day of the issue, and with the same day a   *)
(* year later, not before and not after.                                    *)
ASSUME OverridesAreBounded ==
    \A t \in {0, 76, 196} : \A days \in {-1, 0, 365, 366} :
        LET v == V!ResolveValidity(t, [through |-> SampleZone[t] + days]) IN
        IF days \in 0..365 THEN v.validUntilExclusive > t ELSE v = "override_out_of_range"
=============================================================================
