---------------------------- MODULE MigrationSamples ----------------------------
(* Small V1 databases on which TLC evaluates migration 000007: one quote 7    *)
(* with two events, one delivery 9 and one idempotency key, each varied in    *)
(* turn over everything its tables admit that the migration tells apart.      *)
(* About four in ten of them pass the validation.                             *)
EXTENDS LegacyMigration, TLC

MCCivilDate == [t \in 0..Now |-> t \div 2]

-----------------------------------------------------------------------------
(* Lines with the amounts V1 would have stored: the arithmetic is the same.   *)
V1Line(type, source, price, quantity, included, rate) ==
  LET l == [type |-> type, source |-> source, product |-> Null, variant |-> Null, sku |-> "fits",
            description |-> "fits", quantity |-> quantity, unitPrice |-> price,
            taxIncluded |-> included, taxRate |-> rate]
      c == ChargeOf(l)
  IN l @@ [subtotal |-> c.net, tax |-> c.tax, total |-> c.gross]

Stock == V1Line("product", "fits", 3, 15, TRUE, 2)
Freight == V1Line("shipping", Null, 1, 10, FALSE, 0)
StockAndFreight == [o \in 0..1 |-> IF o = 0 THEN Stock ELSE Freight]

SampleLines ==
  {V1Line(t, s, p, n, i, r) :
     t \in {"product", "shipping"}, s \in Texts, p \in {0, 3},
     n \in {1, 15, MaxQuantity * Micro - 1, MaxQuantity * Micro}, i \in BOOLEAN,
     r \in {0, 2, Micro, Micro + 1}}
  \cup {[Stock EXCEPT ![f] = "odd"] : f \in {"product", "variant", "sku", "description"}}
  \cup {[Stock EXCEPT !.tax = 0]}

-----------------------------------------------------------------------------
Person == [f \in {"name", "businessName", "email", "phone", "address", "district", "region", "id"} |->
             IF f = "businessName" THEN Null ELSE "fits"]
SampleCustomers ==
  {[Person EXCEPT ![f] = a, ![g] = b] : f, g \in DOMAIN Person, a, b \in Texts}

NoDocument == [hash |-> Null, pdf |-> Null, key |-> Null, render |-> Null, generatedAt |-> NoInstant]
Document == [hash |-> "fits", pdf |-> "fits", key |-> "fits", render |-> "fits", generatedAt |-> 2]
SampleDocuments ==
  {NoDocument, [Document EXCEPT !.render = "blank"], [Document EXCEPT !.generatedAt = NoInstant]}
  \cup {[Document EXCEPT ![f] = c] : f \in {"hash", "pdf", "key", "render"}, c \in Texts}

(* A quote of the lines StockAndFreight.                                      *)
Row(status, issuedAt, cancelledAt, expiredAt, validUntil, paidAt, number, customer, document) ==
  LET t == TotalsOf(StockAndFreight) IN
  [status |-> status, number |-> number, version |-> 1, opportunity |-> "fits", source |-> "api",
   customer |-> customer, document |-> document, subtotal |-> t.net, tax |-> t.tax, total |-> t.gross,
   validUntil |-> validUntil, issuedAt |-> issuedAt, acceptedAt |-> NoInstant, paidAt |-> paidAt,
   cancelledAt |-> cancelledAt, expiredAt |-> expiredAt]

Paid == Row("paid", 1, NoInstant, NoInstant, 3, 2, "fits", Person, Document)
Statuses == {"draft", "issued", "accepted", "paid", "cancelled", "expired"}
SampleQuotes ==
  {Row(s, i, c, e, u, p, n, Person, d) :
     s \in Statuses, i \in {NoInstant, 1}, c, e, p \in {NoInstant, 2}, u \in {1, 3},
     n \in Given, d \in {NoDocument, Document}}
  \cup {[Paid EXCEPT !.customer = c] : c \in SampleCustomers}
  \cup {Row(s, 1, 2, 2, 3, 2, "fits", Person, d) : s \in Statuses, d \in SampleDocuments}

(* Two events of one instant; the second one tells of the acceptance.         *)
Events == [e \in 1..2 |-> [action |-> IF e = 1 THEN "issued" ELSE "accepted", at |-> 2,
                           correlation |-> "odd", keyed |-> TRUE]]

SampleDeliveries ==
  [quote : {7}, status : {"pending", "processing", "sent", "failed"}, recipient : {"fits"},
   provider : {Null, "fits"}, failure : Texts, attempts : {0, 1}, createdAt : {1},
   processingAt : {2}, sentAt : {NoInstant, 2}, failedAt : {2}]
Pending == CHOOSE d \in SampleDeliveries : d.status = "pending"

SampleKeys ==
  [operation : {"fits"}, hash : Given, status : {"in_progress", "completed"},
   resourceType : {"quote", "quote_delivery", "null"}, resource : {NoInstant, 7, 9}, updatedAt : {1}]
Bound == CHOOSE k \in SampleKeys : /\ k.hash = "fits" /\ k.status = "completed"
                                   /\ k.resourceType = "quote_delivery" /\ k.resource = 9

-----------------------------------------------------------------------------
Database(q, lines, delivery, key) ==
  [quotes |-> [i \in {7} |-> q], lines |-> [i \in {7} |-> lines], events |-> [i \in {7} |-> Events],
   deliveries |-> [d \in {9} |-> delivery], keys |-> [k \in {1} |-> key]]

SampleDatabases ==
  {Database(q, StockAndFreight, Pending, Bound) : q \in SampleQuotes}
  \cup {Database([Paid EXCEPT !.subtotal = l.subtotal, !.tax = l.tax, !.total = l.total],
                 [o \in {0} |-> l], Pending, Bound) : l \in SampleLines}
  \cup {Database(Paid, StockAndFreight, d, k) : d \in SampleDeliveries, k \in SampleKeys}

MigrationSound(v1) ==
  LET v2 == Migrate(v1) IN
  /\ V1Database(v1)
  /\ Accepted(v1) =>
       /\ PostConditions(v1, v2)
       /\ NothingLost(v1, v2)
       /\ \A i \in DOMAIN v2.quotes : V2AmountChecks(v2.quotes[i].totals)
       /\ AsV1Wrote(v1) => V2Holds(v2)

(* Of every sample the validation accepts, the post-conditions hold, nothing  *)
(* V1 knew is lost, the totals fit, and the V2 tables admit every row.        *)
ASSUME SamplesMigrate == \A v \in SampleDatabases : MigrationSound(v)

(* Both verdicts of the validation occur among the samples.                   *)
ASSUME SamplesAreMixed ==
  /\ \E v \in SampleDatabases : Accepted(v)
  /\ \E v \in SampleDatabases : ~Accepted(v)

(* Half-up rounding is the nearest whole number.                              *)
ASSUME RoundingIsNearest ==
  \A n \in 0..20, d \in 1..8 : Nearest(n, d, HalfUp(n, d))

(* The SQL function charges what the owner's arithmetic does, consistently.   *)
ASSUME ChargesAgree ==
  \A unit \in 0..6, quantity \in 0..25, rate \in 0..Micro, basis \in Bases :
    /\ Consistent(ChargeAmounts(unit, quantity, basis, rate), basis)
    /\ ChargeAmounts(unit, quantity, basis, rate) = V2Charge(unit, quantity, basis, rate)
=============================================================================
