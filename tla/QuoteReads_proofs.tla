-------------------------- MODULE QuoteReads_proofs --------------------------
(* Pages taken one after the other, each from its own snapshot of a table   *)
(* that goes on changing, neither skip a row nor repeat one; the filter by  *)
(* status agrees with the status shown; and a quote is valid from its issue *)
(* to the end of a civil date, whatever the clocks do in between.           *)
EXTENDS QuoteReads, ValidityPolicy, TLAPS

(* LIMIT limit + 1 and slice(0, limit) make a page of the first `limit`     *)
(* rows, with a next page exactly when rows are left.                       *)
LEMMA PageIsAPrefix ==
    ASSUME NEW R, NEW s \in Seq(R), NEW limit \in Nat \ {0}
    PROVE  /\ HasNext(s, limit) <=> Len(s) > limit
           /\ Len(PageRows(s, limit)) = IF Len(s) <= limit THEN Len(s) ELSE limit
           /\ \A i \in 1..Len(PageRows(s, limit)) : PageRows(s, limit)[i] = s[i]
<1> DEFINE f == Fetched(s, limit)
<1>1. /\ f \in Seq(R)
      /\ Len(f) = IF Len(s) <= limit THEN Len(s) ELSE limit + 1
      /\ \A i \in 1..Len(f) : f[i] = s[i]
  BY DEF Fetched
<1>2. HasNext(s, limit) <=> Len(s) > limit
  BY <1>1 DEF HasNext
<1>3. /\ Len(PageRows(s, limit)) = IF Len(f) <= limit THEN Len(f) ELSE limit
      /\ \A i \in 1..Len(PageRows(s, limit)) : PageRows(s, limit)[i] = f[i]
  <2> HIDE DEF f
  <2>1. PageRows(s, limit) = SubSeq(f, 1, IF Len(f) <= limit THEN Len(f) ELSE limit)
    BY DEF PageRows, f
  <2> QED  BY <1>1, <2>1
<1> HIDE DEF f
<1> QED  BY <1>1, <1>2, <1>3

(* In a strict order, a row is either on the page or after its last row;    *)
(* without a next page every row is on it.                                  *)
LEMMA PageSplitsTheRows ==
    ASSUME NEW R, NEW order, NEW s, IsListing(s, R, order), NEW limit \in Nat \ {0},
           \A a, b \in R : ~(<<a, b>> \in order /\ <<b, a>> \in order),
           \A a \in R : <<a, a>> \notin order,
           NEW r \in R
    PROVE  LET page == PageRows(s, limit)
               onPage == \E i \in 1..Len(page) : page[i] = r
           IN IF HasNext(s, limit)
              THEN Len(page) >= 1 /\ LastOf(page) \in R /\ (onPage <=> <<LastOf(page), r>> \notin order)
              ELSE onPage
<1> DEFINE page == PageRows(s, limit)
<1>1. /\ s \in Seq(R) /\ Len(s) \in Nat
      /\ \A i \in 1..Len(s) : s[i] \in R
      /\ \A i, j \in 1..Len(s) : i < j => <<s[i], s[j]>> \in order
  BY DEF IsListing
<1>2. PICK k \in 1..Len(s) : s[k] = r
  BY DEF IsListing
<1>3. /\ HasNext(s, limit) <=> Len(s) > limit
      /\ Len(page) = IF Len(s) <= limit THEN Len(s) ELSE limit
      /\ \A i \in 1..Len(page) : page[i] = s[i]
  BY <1>1, PageIsAPrefix
<1> HIDE DEF page
<1>4. CASE ~HasNext(s, limit)
  <2>1. k \in 1..Len(page) /\ page[k] = r
    BY <1>1, <1>2, <1>3, <1>4
  <2> QED  BY <1>4, <2>1 DEF page
<1>5. CASE HasNext(s, limit)
  <2>1. Len(page) = limit /\ limit \in 1..Len(s) /\ LastOf(page) = s[limit]
    BY <1>1, <1>3, <1>5 DEF LastOf
  <2>2. LastOf(page) \in R
    BY <1>1, <2>1
  <2>3. CASE k <= limit
    <3>1. k \in 1..Len(page) /\ page[k] = r
      BY <1>2, <1>3, <2>1, <2>3
    <3>2. <<LastOf(page), r>> \notin order
      <4>1. CASE k = limit
        BY <1>2, <2>1, <2>2, <4>1
      <4>2. CASE k < limit
        <5>1. <<r, LastOf(page)>> \in order
          BY <1>1, <1>2, <2>1, <4>2
        <5> QED  BY <2>2, <5>1
      <4> QED  BY <1>2, <2>3, <4>1, <4>2
    <3> QED  BY <1>5, <2>1, <2>2, <3>1, <3>2 DEF page
  <2>4. CASE k > limit
    <3>1. <<LastOf(page), r>> \in order
      BY <1>1, <1>2, <2>1, <2>4
    <3>2. ASSUME NEW i \in 1..Len(page), page[i] = r
          PROVE  FALSE
      <4>1. i \in 1..Len(s) /\ s[i] = r /\ i < k
        BY <1>1, <1>3, <2>1, <2>4, <3>2
      <4>2. <<r, r>> \in order
        BY <1>1, <1>2, <4>1
      <4> QED  BY <4>2
    <3> QED  BY <1>5, <2>1, <2>2, <3>1, <3>2 DEF page
  <2> QED  BY <1>2, <2>1, <2>3, <2>4
<1> QED  BY <1>4, <1>5

Row(q) == q.createdAt \in Int /\ q.id \in Int

LEMMA NewestFirstIsStrict ==
    ASSUME NEW R, \A q \in R : Row(q)
    PROVE  /\ \A a, b \in R : ~(<<a, b>> \in NewestFirst(R) /\ <<b, a>> \in NewestFirst(R))
           /\ \A a \in R : <<a, a>> \notin NewestFirst(R)
<1>1. \A a, b \in R : <<a, b>> \in NewestFirst(R) => Newer(a.createdAt, a.id, b)
  BY DEF NewestFirst
<1>2. ASSUME NEW a \in R, NEW b \in R, Newer(a.createdAt, a.id, b), Newer(b.createdAt, b.id, a)
      PROVE  FALSE
  BY <1>2 DEF Newer, Row
<1> QED  BY <1>1, <1>2

(* A quote that matches when a page is read and still does when the next    *)
(* one is (row q then, row p now: what has changed is neither its id nor    *)
(* its creation), is on that page or among the rows the next page is taken  *)
(* from, never both: whatever was created or has expired in between.        *)
THEOREM PagesNeitherSkipNorRepeat ==
    ASSUME NEW R, \A q \in R : Row(q), NEW later, NEW query, NEW limit \in Nat \ {0},
           NEW s, IsListing(s, R, NewestFirst(R)), NEW q \in R,
           NEW p \in later, p.createdAt = q.createdAt, p.id = q.id
    PROVE  LET page == QuotePage(s, query, limit)
               onPage == \E i \in 1..Len(page.rows) : page.rows[i] = q
           IN IF page.next = NoCursor THEN onPage
              ELSE onPage <=> p \notin After(page.next, later)
<1> DEFINE rows == PageRows(s, limit)
           onPage == \E i \in 1..Len(rows) : rows[i] = q
           last == LastOf(rows)
<1>1. IF HasNext(s, limit)
      THEN Len(rows) >= 1 /\ last \in R /\ (onPage <=> <<last, q>> \notin NewestFirst(R))
      ELSE onPage
  BY NewestFirstIsStrict, PageSplitsTheRows
<1>2. CursorAt(query, last) # NoCursor
  <2>1. CursorAt(query, last).v = 1 /\ NoCursor.v = 0
    BY DEF CursorAt, NoCursor
  <2> QED  BY <2>1
<1>3. CASE ~HasNext(s, limit)
  BY <1>1, <1>3 DEF QuotePage
<1>4. CASE HasNext(s, limit)
  <2> DEFINE c == CursorAt(query, last)
  <2>1. QuotePage(s, query, limit).next = c /\ QuotePage(s, query, limit).rows = rows
    BY <1>4 DEF QuotePage
  <2>2. <<last, q>> \in NewestFirst(R) <=> Newer(last.createdAt, last.id, q)
    BY <1>1, <1>4 DEF NewestFirst
  <2>3. c.t = last.createdAt /\ c.id = last.id
    BY DEF CursorAt
  <2> HIDE DEF c, rows, last
  <2>4. p \in After(c, later) <=> Newer(last.createdAt, last.id, q)
    BY <1>2, <2>3 DEF After, Newer, c
  <2> QED  BY <1>1, <1>2, <1>4, <2>1, <2>2, <2>4 DEF c, rows
<1> QED  BY <1>3, <1>4

(* The same of a quote's history, which only grows.                         *)
THEOREM HistoryIsReadOnce ==
    ASSUME NEW db, NEW laterDb, NEW quoteId, NEW cursor, NEW limit \in Nat \ {0}, NEW s,
           \A e \in db.events : e.sequence \in Int,
           IsListing(s, EventsAfter(db, quoteId, cursor), InSequence(EventsAfter(db, quoteId, cursor))),
           NEW e \in EventsAfter(db, quoteId, cursor), e \in laterDb.events
    PROVE  LET page == AuditPage(s, quoteId, limit)
               onPage == \E i \in 1..Len(page.rows) : page.rows[i] = e
           IN IF page.next = NoCursor THEN onPage
              ELSE onPage <=> e \notin EventsAfter(laterDb, quoteId, page.next)
<1> DEFINE R == EventsAfter(db, quoteId, cursor)
           rows == PageRows(s, limit)
           onPage == \E i \in 1..Len(rows) : rows[i] = e
           last == LastOf(rows)
           c == [v |-> 1, q |-> quoteId, s |-> last.sequence]
<1>1. \A d \in R : d.sequence \in Int /\ d.quote = quoteId
  BY DEF EventsAfter
<1>2. /\ \A a, b \in R : ~(<<a, b>> \in InSequence(R) /\ <<b, a>> \in InSequence(R))
      /\ \A a \in R : <<a, a>> \notin InSequence(R)
  <2> HIDE DEF R
  <2> QED  BY <1>1 DEF InSequence
<1>3. IF HasNext(s, limit)
      THEN Len(rows) >= 1 /\ last \in R /\ (onPage <=> <<last, e>> \notin InSequence(R))
      ELSE onPage
  <2> HIDE DEF R
  <2>1. IsListing(s, R, InSequence(R)) /\ e \in R
    BY DEF R
  <2> QED  BY <1>2, <2>1, PageSplitsTheRows
<1>4. c # NoCursor
  <2>1. c.v = 1 /\ NoCursor.v = 0
    BY DEF NoCursor
  <2> QED  BY <2>1
<1>5. CASE ~HasNext(s, limit)
  BY <1>3, <1>5 DEF AuditPage
<1>6. CASE HasNext(s, limit)
  <2>1. AuditPage(s, quoteId, limit).next = c /\ AuditPage(s, quoteId, limit).rows = rows
    BY <1>6 DEF AuditPage
  <2>2. e \in R
    OBVIOUS
  <2> HIDE DEF R, rows, last
  <2>3. <<last, e>> \in InSequence(R) <=> last.sequence < e.sequence
    BY <1>3, <1>6, <2>2 DEF InSequence
  <2>4. c.s = last.sequence
    OBVIOUS
  <2> HIDE DEF c
  <2>5. e \in EventsAfter(laterDb, quoteId, c) <=> e.sequence > last.sequence
    BY <1>1, <1>4, <2>2, <2>4 DEF EventsAfter
  <2>6. last.sequence \in Int /\ e.sequence \in Int
    BY <1>1, <1>3, <1>6, <2>2
  <2>7. onPage <=> e \notin EventsAfter(laterDb, quoteId, c)
    BY <1>3, <1>6, <2>3, <2>5, <2>6
  <2> QED  BY <1>4, <2>1, <2>7 DEF rows
<1> QED  BY <1>5, <1>6

(* Of a quote whose instants are whole milliseconds, as this service writes *)
(* them, the filter by status and the representation say the same.          *)
THEOREM StatusFilterAgrees ==
    ASSUME NEW q, NEW now \in Nat, q.validUntil = NoInstant \/ q.validUntil \in Nat,
           q.validUntil % Millisecond = 0 \/ q.validUntil = NoInstant
    PROVE  EffectiveStatusSql(q, now) = EffectiveExpiry(q, now).status
<1>1. Date(q.validUntil) = q.validUntil
  BY DEF Date, Millisecond, NoInstant
<1> QED  BY <1>1 DEF EffectiveStatusSql, EffectiveExpiry, IsPastValidity, NoInstant

-----------------------------------------------------------------------------
(* Civil dates follow time: the clocks may jump, the date does not go back. *)
IsCalendar ==
    /\ CivilDate \in [Int -> Int]
    /\ \A i, j \in Int : i <= j => CivilDate[i] <= CivilDate[j]

(* The date begins in the window. *)
Brackets(w, date) ==
    /\ w.low \in Int /\ w.high \in Int /\ w.low < w.high
    /\ CivilDate[w.low] < date /\ CivilDate[w.high] >= date

(* Every turn keeps the beginning of the date in the window and narrows it; *)
(* the window the loop stops with ends at the first instant of the date.    *)
THEOREM BisectionFindsTheStart ==
    ASSUME IsCalendar, NEW date \in Int, NEW w, Brackets(w, date)
    PROVE  /\ w.high - w.low > 1 =>
                LET v == Halve(date, w) IN
                Brackets(v, date) /\ v.high - v.low < w.high - w.low
           /\ ~(w.high - w.low > 1) => IsStartOf(date, w.high)
<1>1. ASSUME w.high - w.low > 1
      PROVE  LET v == Halve(date, w) IN
             Brackets(v, date) /\ v.high - v.low < w.high - w.low
  <2> DEFINE middle == (w.low + w.high) \div 2
  <2>1. middle \in Int /\ w.low < middle /\ middle < w.high
    BY <1>1 DEF Brackets
  <2>2. CASE CivilDate[middle] >= date
    BY <2>1, <2>2 DEF Halve, Brackets
  <2>3. CASE ~(CivilDate[middle] >= date)
    <3>1. CivilDate[middle] < date
      BY <2>1, <2>3 DEF IsCalendar
    <3> QED  BY <2>1, <2>3, <3>1 DEF Halve, Brackets
  <2> QED  BY <2>2, <2>3
<1>2. ASSUME ~(w.high - w.low > 1)
      PROVE  IsStartOf(date, w.high)
  <2>1. w.low \in Int /\ w.high = w.low + 1
    BY <1>2 DEF Brackets
  <2>2. ASSUME NEW i \in Int, i < w.high
        PROVE  CivilDate[i] < date
    <3>1. CivilDate[i] <= CivilDate[w.low] /\ CivilDate[i] \in Int /\ CivilDate[w.low] \in Int
      BY <2>1, <2>2 DEF IsCalendar
    <3> QED  BY <3>1 DEF Brackets
  <2>3. ASSUME NEW i \in Int, ~(i < w.high)
        PROVE  ~(CivilDate[i] < date)
    <3>1. w.high \in Int /\ CivilDate[w.high] <= CivilDate[i] /\ CivilDate[i] \in Int /\ CivilDate[w.high] \in Int
      BY <2>1, <2>3 DEF IsCalendar
    <3> QED  BY <3>1 DEF Brackets
  <2> QED  BY <2>1, <2>2, <2>3 DEF IsStartOf
<1> QED  BY <1>1, <1>2

(* A quote is valid when it is issued, and at exactly the instants whose    *)
(* civil date is not past the last valid one: five calendar dates, or up to *)
(* the one an accepted override names.                                      *)
THEOREM ValidToTheEndOfTheDay ==
    ASSUME IsCalendar, NEW issuedAt \in Int, NEW override,
           override = NoOverride \/ override.through \in Int,
           \A d \in Int : IsStartOf(d, StartOfLocalDate(d)),
           ~OutOfRange(issuedAt, override)
    PROVE  LET v == ResolveValidity(issuedAt, override) IN
           /\ issuedAt < v.validUntilExclusive
           /\ \A t \in Int : t < v.validUntilExclusive <=> CivilDate[t] <= v.validThroughLocalDate
           /\ override = NoOverride => v.validThroughLocalDate = v.issueLocalDate + 4
<1> DEFINE through == Through(issuedAt, override)
           until == StartOfLocalDate(AddDays(through, 1))
<1>1. CivilDate[issuedAt] \in Int
  BY DEF IsCalendar
<1>2. /\ through \in Int /\ CivilDate[issuedAt] <= through
      /\ override = NoOverride => through = CivilDate[issuedAt] + 4
  BY <1>1 DEF Through, OutOfRange, AddDays, PolicyDays, MaxOverrideDays
<1> HIDE DEF through
<1>3. IsStartOf(through + 1, until)
  BY <1>2 DEF AddDays
<1>4. ASSUME NEW t \in Int
      PROVE  t < until <=> CivilDate[t] <= through
  <2>1. CivilDate[t] \in Int
    BY DEF IsCalendar
  <2>2. t < until <=> CivilDate[t] < through + 1
    BY <1>3 DEF IsStartOf
  <2> HIDE DEF until
  <2> QED  BY <1>2, <2>1, <2>2
<1>5. issuedAt < until
  BY <1>1, <1>2, <1>4
<1>6. LET v == ResolveValidity(issuedAt, override) IN
      /\ v.validUntilExclusive = until
      /\ v.validThroughLocalDate = through
      /\ v.issueLocalDate = CivilDate[issuedAt]
  BY DEF ResolveValidity, through
<1> HIDE DEF until
<1> QED  BY <1>2, <1>4, <1>5, <1>6
=============================================================================
