---------------------------- MODULE LegacyMigration ----------------------------
(* Migration 000007: the V1 rows become V2 rows in one transaction, once and  *)
(* one-way.  The rows are staged, validated, transformed, checked; any        *)
(* violation aborts the transaction and nothing has happened.  The triggers   *)
(* that guard V2 rows are installed after it, so what they require of the     *)
(* migrated rows is up to the validation.                                     *)
(*                                                                            *)
(* The migration is a function of the V1 rows.  A text column is the class of *)
(* its value; sums are whole pesos, quantities and rates are scaled by Micro. *)
EXTENDS ChargeArithmetic, FiniteSets

CONSTANTS
    MaxQuantity,  \* 10,000 units in the code
    MaxUnit,      \* unit amounts, 10^9 in the code
    MaxLines,     \* 100 in the code
    Now,          \* instants are 0..Now
    CivilDate     \* the civil date of an instant in America/Santiago

ASSUME MigrationAssumption ==
    /\ {MaxQuantity, MaxUnit, MaxLines, Now} \subseteq Nat
    /\ CivilDate \in [0..Now -> Nat]
    /\ \A s, t \in 0..Now : s <= t => CivilDate[s] <= CivilDate[t]

Null == "null"
NoInstant == -1
Instants == 0..Now \cup {NoInstant}

(* pg_temp.is_text, is_opaque_ref, ...: a value fits the contract's pattern   *)
(* of its column or it is odd.  Where the migration reads a column through    *)
(* blank_to_null, a blank value is null.                                      *)
Texts == {Null, "fits", "odd"}
Given == Texts \ {Null}

-----------------------------------------------------------------------------
(* V1 rows: what the V1 tables admit.                                         *)

V1Customers == [{"name", "businessName", "email", "phone", "address", "district",
                 "region", "id"} -> Texts]

(* issued_* columns; "blank" is a renderer version of no characters.          *)
V1Documents == [hash : Texts, pdf : Texts, key : Texts, render : Texts \cup {"blank"},
                generatedAt : Instants]

V1LineColumns ==
  [type : STRING, source : Texts, product : Texts, variant : Texts, sku : Texts,
   description : Given, quantity : Int, unitPrice : Int, taxIncluded : BOOLEAN,
   taxRate : Int, subtotal : Int, tax : Int, total : Int]

V1LineChecks(l) ==
  /\ l.type \in {"product", "service", "shipping"}
  /\ l.quantity > 0
  /\ l.unitPrice >= 0 /\ l.taxRate >= 0
  /\ l.subtotal >= 0 /\ l.tax >= 0 /\ l.total >= 0

V1Lines == {l \in V1LineColumns : V1LineChecks(l)}

(* action is all the migration reads of an event besides its instant, its     *)
(* correlation and whether there is a key.                                    *)
V1Events == [action : STRING, at : 0..Now, correlation : Texts, keyed : BOOLEAN]

V1QuoteColumns ==
  [status : STRING, number : Given, version : Int, opportunity : Given, source : STRING,
   customer : V1Customers, document : V1Documents, subtotal : Int, tax : Int, total : Int,
   validUntil : 0..Now, issuedAt : Instants, acceptedAt : Instants, paidAt : Instants,
   cancelledAt : Instants, expiredAt : Instants]

V1QuoteChecks(q) ==
  /\ q.status \in {"draft", "issued", "accepted", "paid", "cancelled", "expired"}
  /\ q.source \in {"crm_customer_360", "manual", "api", "scheduler"}
  /\ q.version > 0
  /\ q.subtotal >= 0 /\ q.tax >= 0 /\ q.total >= 0

V1Quotes == {q \in V1QuoteColumns : V1QuoteChecks(q)}

V1DeliveryColumns ==
  [quote : Nat, status : STRING, recipient : Given, provider : Texts, failure : Texts,
   attempts : Int, createdAt : 0..Now, processingAt : Instants, sentAt : Instants,
   failedAt : Instants]

V1DeliveryChecks(d) ==
  /\ d.status \in {"pending", "processing", "sent", "failed"}
  /\ d.attempts >= 0

V1Deliveries == {d \in V1DeliveryColumns : V1DeliveryChecks(d)}

V1Keys == [operation : Given, hash : Given, status : {"in_progress", "completed", "failed"},
           resourceType : STRING, resource : Nat \cup {NoInstant}, updatedAt : 0..Now]

-----------------------------------------------------------------------------
(* What the migration derives from a V1 row before it validates.              *)

(* A formal issue happened.  A cancelled quote that was never issued was a    *)
(* cancelled draft.                                                           *)
Committed(q) == q.status # "draft" /\ q.issuedAt # NoInstant

V2Status(q) ==
  IF q.status \in {"accepted", "paid"} THEN "issued" ELSE q.status

V2Source(q) ==
  IF q.source = "crm_customer_360" THEN "crm_customer_360" ELSE "legacy-v1"

Company(c) == c.businessName # Null

Basis(l) ==
  IF l.taxRate = 0 THEN "exempt" ELSE IF l.taxIncluded THEN "included" ELSE "excluded"

(* pg_temp.v2_charge, as SQL writes it; a rate of an exempt charge is 0.      *)
V2Charge(unit, quantity, basis, rate) ==
  LET ext == (2 * unit * quantity + Micro) \div (2 * Micro)
      net == (2 * ext * Micro + (Micro + rate)) \div (2 * (Micro + rate))
      tax == (2 * ext * rate + Micro) \div (2 * Micro)
  IN CASE basis = "exempt"   -> [net |-> ext, tax |-> 0, gross |-> ext]
       [] basis = "included" -> [net |-> net, tax |-> ext - net, gross |-> ext]
       [] basis = "excluded" -> [net |-> ext, tax |-> tax, gross |-> ext + tax]

ChargeOf(l) == V2Charge(l.unitPrice, l.quantity, Basis(l), l.taxRate)

(* order is display_order.  A line without a source is "legacy-v1", one of    *)
(* V1's shipping lines "legacy-v1-shipping": both fit.                        *)
MigratedLine(l, order) ==
  LET c == ChargeOf(l) IN
  [position |-> order + 1,
   kind |-> IF l.type = "shipping" THEN "service" ELSE l.type,
   source |-> IF l.type = "shipping" \/ l.source = Null THEN "fits" ELSE l.source,
   product |-> l.product, variant |-> l.variant, sku |-> l.sku, description |-> l.description,
   quantity |-> l.quantity, unitAmount |-> l.unitPrice,
   basis |-> Basis(l), rate |-> l.taxRate,
   net |-> c.net, tax |-> c.tax, gross |-> c.gross]

TotalsOf(lines) == SumTotals([o \in DOMAIN lines |-> MigratedLine(lines[o], o)])

-----------------------------------------------------------------------------
(* Validation.  The exceptions of a row, by code; one is enough to abort.     *)

QuoteExceptions(q) ==
  LET d == q.document IN
  [issued_without_issued_at |->
     q.status \in {"issued", "accepted", "paid", "expired"} /\ q.issuedAt = NoInstant,
   document_missing |-> Committed(q) /\ d.pdf = Null,
   document_metadata_invalid |->
     /\ Committed(q) /\ d.pdf # Null
     /\ ~ /\ d.pdf = "fits" /\ d.hash = "fits" /\ d.key # Null
          /\ d.render \in {"fits", "blank"} /\ d.generatedAt # NoInstant,
   cancelled_without_cancelled_at |-> q.status = "cancelled" /\ q.cancelledAt = NoInstant,
   expired_without_expired_at |-> q.status = "expired" /\ q.expiredAt = NoInstant,
   validity_not_after_issue |-> Committed(q) /\ q.validUntil <= q.issuedAt,
   quote_number_invalid |-> Committed(q) /\ q.number # "fits",
   external_reference_invalid |-> q.opportunity # "fits"]

CustomerExceptions(c) ==
  [customer_field_invalid |->
     \/ c["name"] = "odd" \/ (c["name"] = Null /\ ~Company(c))
     \/ \E f \in {"businessName", "address", "district", "region"} : c[f] = "odd"]

LineExceptions(l) ==
  LET m == MigratedLine(l, 0) IN
  [line_description_invalid |-> l.description # "fits",
   line_sku_invalid |-> l.sku = "odd",
   line_source_system_invalid |-> m.source # "fits",
   line_item_reference_invalid |-> l.product = "odd" \/ l.variant = "odd",
   line_quantity_out_of_range |-> ~(l.quantity > 0 /\ l.quantity < MaxQuantity * Micro),
   line_unit_amount_out_of_range |-> l.unitPrice \notin 0..MaxUnit,
   line_tax_rate_out_of_range |-> m.basis # "exempt" /\ ~(m.rate > 0 /\ m.rate <= Micro),
   line_arithmetic_mismatch |->
     m.net # l.subtotal \/ m.tax # l.tax \/ m.gross # l.total]

TotalsExceptions(q, lines) ==
  LET t == TotalsOf(lines) IN
  [totals_arithmetic_mismatch |->
     t.net # q.subtotal \/ t.tax # q.tax \/ t.gross # q.total,
   totals_out_of_range |-> t.gross > MaxClp,
   line_count_out_of_range |-> Cardinality(DOMAIN lines) > MaxLines]

DeliveryExceptions(d, q) ==
  [delivery_without_document |-> q.document.pdf # "fits",
   delivery_sent_without_sent_at |-> d.status = "sent" /\ d.sentAt = NoInstant]

(* quotes and deliveries are the ids there are.                               *)
KeyExceptions(k, quotes, deliveries) ==
  [idempotency_request_hash_invalid |-> k.status = "completed" /\ k.hash # "fits",
   idempotency_resource_unresolved |->
     /\ k.status = "completed"
     /\ \/ k.resource = NoInstant
        \/ k.resourceType = "quote" /\ k.resource \notin quotes
        \/ k.resourceType = "quote_delivery" /\ k.resource \notin deliveries
        \/ k.resourceType \notin {"quote", "quote_delivery"}]

Valid(exceptions) == \A code \in DOMAIN exceptions : ~exceptions[code]

(* A V1 database: rows by id, lines and events by quote, lines by             *)
(* display_order.  The migration goes on from here only if no row is an       *)
(* exception.                                                                 *)
Accepted(v1) ==
  /\ \A i \in DOMAIN v1.quotes :
       /\ Valid(QuoteExceptions(v1.quotes[i]))
       /\ Valid(CustomerExceptions(v1.quotes[i].customer))
       /\ \A o \in DOMAIN v1.lines[i] : Valid(LineExceptions(v1.lines[i][o]))
       /\ Valid(TotalsExceptions(v1.quotes[i], v1.lines[i]))
  /\ \A i \in DOMAIN v1.deliveries :
       Valid(DeliveryExceptions(v1.deliveries[i], v1.quotes[v1.deliveries[i].quote]))
  /\ \A k \in DOMAIN v1.keys :
       Valid(KeyExceptions(v1.keys[k], DOMAIN v1.quotes, DOMAIN v1.deliveries))

-----------------------------------------------------------------------------
(* The transformed rows.                                                      *)

OnlyIf(condition, value, otherwise) == IF condition THEN value ELSE otherwise

(* Fields absent from the snapshot (jsonb_strip_nulls) are Null; an address   *)
(* is there when it has a line or a commune.  An e-mail, telephone or         *)
(* customer id that does not fit goes to the evidence only.                   *)
MigratedCustomer(c) ==
  LET Fitting(f) == OnlyIf(c[f] = "fits", "fits", Null) IN
  [kind |-> IF Company(c) THEN "company" ELSE "person",
   displayName |-> OnlyIf(~Company(c), c["name"], Null),
   legalName |-> OnlyIf(Company(c), c["businessName"], Null),
   contactName |-> OnlyIf(Company(c), c["name"], Null),
   email |-> Fitting("email"), phone |-> Fitting("phone"), reference |-> Fitting("id"),
   hasAddress |-> c["address"] # Null \/ c["district"] # Null,
   lines |-> c["address"], commune |-> c["district"], region |-> c["region"]]

(* operation: current_operation_id is the synthetic operation's.              *)
MigratedQuote(q, totals) ==
  LET issued == Committed(q) IN
  [status |-> V2Status(q), version |-> q.version,
   number |-> OnlyIf(issued, q.number, Null),
   source |-> V2Source(q), reference |-> q.opportunity,
   customer |-> MigratedCustomer(q.customer), totals |-> totals,
   issuedAt |-> OnlyIf(issued, q.issuedAt, NoInstant),
   issuer |-> OnlyIf(issued, "pesaschile-cl-v1", Null),
   operation |-> OnlyIf(issued, "synthetic", Null),
   validity |-> OnlyIf(issued, "legacy_caller_supplied", Null),
   issueDate |-> OnlyIf(issued, CivilDate[q.issuedAt], NoInstant),
   throughDate |-> OnlyIf(issued, CivilDate[q.validUntil - 1], NoInstant),
   validUntil |-> OnlyIf(issued, q.validUntil, NoInstant),
   cancelledAt |-> OnlyIf(q.status = "cancelled", q.cancelledAt, NoInstant),
   cancelReason |-> OnlyIf(q.status = "cancelled", "legacy_v1", Null),
   expiredAt |-> OnlyIf(q.status = "expired", q.expiredAt, NoInstant)]

(* One synthetic operation per committed quote; the deadline is 24 h later.   *)
MigratedOperation(q) ==
  [origin |-> "legacy_v1_migration", status |-> "succeeded", generation |-> 0,
   leaseOwner |-> Null, attempts |-> 0, lastError |-> Null, acceptedAt |-> q.issuedAt,
   deadlineAt |-> q.issuedAt + 1, completedAt |-> q.document.generatedAt,
   hash |-> q.document.hash]

MigratedDocument(q) ==
  [origin |-> "legacy_v1", hash |-> q.document.hash, pdf |-> q.document.pdf,
   length |-> Null, render |-> q.document.render, key |-> q.document.key,
   generatedAt |-> q.document.generatedAt]

(* Facts of the quote row that no V1 event of the quote tells become events   *)
(* too.  Event ids are ordered; those of the derived events (an md5 of the    *)
(* quote's id) are taken to come first.                                       *)
Derived == [accepted |-> -2, paid |-> -1]

DerivedEvents(q, events) ==
  {Derived[a] : a \in {a \in {"accepted", "paid"} :
     /\ OnlyIf(a = "accepted", q.acceptedAt, q.paidAt) # NoInstant
     /\ \A e \in DOMAIN events : events[e].action # a}}

MigratedEvents(q, events) ==
  LET ids == DOMAIN events \cup DerivedEvents(q, events)
      IsV1(e) == e \in DOMAIN events
      At(e) == IF IsV1(e) THEN events[e].at
               ELSE OnlyIf(e = Derived["accepted"], q.acceptedAt, q.paidAt)
      UpTo(e) == {f \in ids : At(f) < At(e) \/ (At(f) = At(e) /\ f <= e)}
  IN [e \in ids |->
        [sequence |-> Cardinality(UpTo(e)), at |-> At(e), v1 |-> IsV1(e),
         action |-> IF IsV1(e) THEN events[e].action
                    ELSE OnlyIf(e = Derived["accepted"], "accepted", "paid"),
         correlation |-> OnlyIf(IsV1(e) /\ events[e].correlation = "fits", "fits", Null),
         keyHashed |-> IsV1(e) /\ events[e].keyed]]

MigratedDelivery(d, q) ==
  [status |-> CASE d.status = "sent" -> "sent"
                [] d.status = "processing" -> "unknown"
                [] d.status \in {"failed", "pending"} -> "failed",
   recipient |-> d.recipient, document |-> q.document.pdf, generation |-> 0,
   leaseOwner |-> Null, attempts |-> d.attempts,
   lastError |-> CASE d.status = "pending" -> "superseded_by_v2_migration"
                   [] d.status = "failed" ->
                        OnlyIf(d.failure = "fits", "fits", "legacy_v1_delivery_failed")
                   [] d.status \in {"sent", "processing"} -> Null,
   nextAttemptAt |-> NoInstant, provider |-> d.provider,
   sentAt |-> OnlyIf(d.status = "sent", d.sentAt, NoInstant)]

(* An in-progress or failed key bound nothing and is dropped.                 *)
MigratedBinding(k, deliveries) ==
  LET delivery == k.resourceType = "quote_delivery" IN
  [operation |-> k.operation, fingerprint |-> k.hash, snapshot |-> Null,
   resourceType |-> IF delivery THEN "delivery" ELSE "quote",
   quote |-> IF delivery THEN deliveries[k.resource].quote ELSE k.resource,
   delivery |-> IF delivery THEN k.resource ELSE NoInstant, boundAt |-> k.updatedAt]

(* The evidence keeps the V1 rows whole, but for idempotency keys, and names  *)
(* what has no place in V2.                                                   *)
Evidence(q, lines) ==
  [status |-> q.status, number |-> OnlyIf(~Committed(q), q.number, Null),
   source |-> q.source, acceptedAt |-> q.acceptedAt, paidAt |-> q.paidAt,
   validUntil |-> q.validUntil,
   hashAlgorithm |-> OnlyIf(Committed(q), "v1-canonical-json", Null),
   invalid |-> {f \in {"email", "phone", "id"} : q.customer[f] = "odd"},
   shippingLines |-> {o \in DOMAIN lines : lines[o].type = "shipping"},
   quote |-> q, lines |-> lines]

Migrate(v1) ==
  LET committed == {i \in DOMAIN v1.quotes : Committed(v1.quotes[i])} IN
  [quotes |-> [i \in DOMAIN v1.quotes |-> MigratedQuote(v1.quotes[i], TotalsOf(v1.lines[i]))],
   lines |-> [i \in DOMAIN v1.quotes |->
                [o \in DOMAIN v1.lines[i] |-> MigratedLine(v1.lines[i][o], o)]],
   operations |-> [i \in committed |-> MigratedOperation(v1.quotes[i])],
   documents |-> [i \in committed |-> MigratedDocument(v1.quotes[i])],
   events |-> [i \in DOMAIN v1.quotes |-> MigratedEvents(v1.quotes[i], v1.events[i])],
   deliveries |-> [d \in DOMAIN v1.deliveries |->
                     MigratedDelivery(v1.deliveries[d], v1.quotes[v1.deliveries[d].quote])],
   bindings |-> [k \in {k \in DOMAIN v1.keys : v1.keys[k].status = "completed"} |->
                   MigratedBinding(v1.keys[k], v1.deliveries)],
   evidence |-> [i \in DOMAIN v1.quotes |-> Evidence(v1.quotes[i], v1.lines[i])]]

-----------------------------------------------------------------------------
(* What the V2 tables require (checks, not null, and the deferred trigger     *)
(* that an issued quote has a document), of what the migration can vary.  A   *)
(* text that fits the contract fits its column.                               *)

V2QuoteChecks(v) ==
  LET accepted == v.number # Null IN
  /\ v.status \in {"draft", "issuing", "issued", "expired", "cancelled"}
  /\ v.version >= 1
  /\ v.number \in {Null, "fits"} /\ v.reference \in {Null, "fits"}
  /\ v.customer.kind \in {"guest", "person", "company"}
  /\ v.issuedAt # NoInstant <=> accepted
  /\ v.issuer # Null <=> accepted
  /\ v.operation # Null <=> accepted
  /\ v.validity # Null <=> accepted
  /\ v.issueDate # NoInstant <=> accepted
  /\ v.throughDate # NoInstant <=> accepted
  /\ v.validUntil # NoInstant <=> accepted
  /\ v.status \in {"issuing", "issued", "expired"} => accepted
  /\ v.status = "draft" => ~accepted
  /\ v.throughDate # NoInstant => v.throughDate >= v.issueDate
  /\ v.validUntil # NoInstant => v.validUntil > v.issuedAt
  /\ v.status = "cancelled" <=> v.cancelledAt # NoInstant
  /\ v.cancelledAt # NoInstant <=> v.cancelReason # Null
  /\ v.status = "expired" <=> v.expiredAt # NoInstant

V2AmountChecks(t) ==
  /\ t.net >= 0 /\ t.tax >= 0 /\ t.exemptNet >= 0 /\ t.exemptNet <= t.net
  /\ t.gross = t.net + t.tax /\ t.gross <= MaxClp

V2LineChecks(m) ==
  /\ m.position \in 1..MaxLines
  /\ m.kind \in {"product", "service"}
  /\ m.source = "fits" /\ m.description = "fits"
  /\ {m.product, m.variant, m.sku} \subseteq {Null, "fits"}
  /\ m.quantity > 0 /\ m.quantity < MaxQuantity * Micro
  /\ m.unitAmount \in 0..MaxUnit
  /\ m.basis \in Bases
  /\ IF m.basis = "exempt" THEN m.rate = 0 ELSE m.rate > 0 /\ m.rate <= Micro
  /\ m.net >= 0 /\ m.tax >= 0 /\ m.gross = m.net + m.tax
  /\ m.basis = "exempt" => m.tax = 0

V2OperationChecks(o) ==
  /\ o.generation >= 0 /\ o.attempts >= 0 /\ o.generation >= o.attempts
  /\ o.hash = "fits"
  /\ o.deadlineAt > o.acceptedAt /\ o.acceptedAt # NoInstant
  /\ o.leaseOwner # Null <=> o.status = "running"
  /\ o.completedAt # NoInstant <=> o.status \in {"succeeded", "failed"}
  /\ o.status = "failed" => o.lastError # Null
  /\ o.status \in {"running", "succeeded"} => o.attempts >= 1 \/ o.origin = "legacy_v1_migration"

V2DocumentChecks(d) ==
  /\ d.hash = "fits" /\ d.pdf = "fits"
  /\ d.render = "fits" /\ d.key = "fits" /\ d.generatedAt # NoInstant
  /\ d.origin = "legacy_v1" \/ d.length # Null

V2DeliveryChecks(v) ==
  /\ v.status \in {"pending", "sending", "sent", "failed", "unknown"}
  /\ v.recipient = "fits" /\ v.document = "fits" /\ v.provider # "odd"
  /\ v.generation >= 0 /\ v.attempts >= 0
  /\ v.status = "sent" <=> v.sentAt # NoInstant
  /\ v.status = "failed" => v.lastError # Null
  /\ v.leaseOwner # Null <=> v.status = "sending"
  /\ v.status = "pending" => v.nextAttemptAt # NoInstant

V2BindingChecks(b, quotes, deliveries) ==
  /\ b.operation = "fits" /\ b.fingerprint = "fits" /\ b.snapshot = Null
  /\ b.resourceType = "delivery" <=> b.delivery # NoInstant
  /\ b.quote \in quotes
  /\ b.delivery # NoInstant => b.delivery \in deliveries

(* Unique sequences from 1: the next event of the quote takes the next one.   *)
V2EventChecks(events) ==
  /\ \A e \in DOMAIN events : events[e].sequence >= 1
  /\ \A e, f \in DOMAIN events : events[e].sequence = events[f].sequence => e = f

RequiresDocument(v2) ==
  \A i \in DOMAIN v2.quotes :
    v2.quotes[i].status \in {"issued", "expired"} => i \in DOMAIN v2.documents

ToldByV1(events) == {e \in DOMAIN events : events[e].v1}

(* The post-conditions of the migration, counts per quote where a quote has   *)
(* the rows.                                                                  *)
PostConditions(v1, v2) ==
  LET Count(f) == Cardinality(DOMAIN f)
      completed == {k \in DOMAIN v1.keys : v1.keys[k].status = "completed"}
  IN
  /\ Count(v2.quotes) = Count(v1.quotes) /\ Count(v2.evidence) = Count(v1.quotes)
  /\ \A i \in DOMAIN v1.quotes :
       /\ Count(v2.lines[i]) = Count(v1.lines[i])
       /\ Committed(v1.quotes[i]) =>
            /\ v2.quotes[i].number = v1.quotes[i].number
            /\ i \in DOMAIN v2.documents
            /\ v2.documents[i].pdf = v1.quotes[i].document.pdf
            /\ v2.documents[i].key = v1.quotes[i].document.key
       /\ Cardinality(ToldByV1(v2.events[i])) = Count(v1.events[i])
       /\ v2.quotes[i].status \notin {"accepted", "paid"}
  /\ Count(v2.deliveries) = Count(v1.deliveries)
  /\ \A d \in DOMAIN v2.deliveries : v2.deliveries[d].status \notin {"pending", "sending"}
  /\ Count(v2.bindings) = Cardinality(completed)

-----------------------------------------------------------------------------
(* What the request schema admits (create-quote-request.ts): a migrated draft *)
(* is edited and issued as one that came in by a request.                     *)

CustomerContract(c) ==
  /\ c.kind = "person" => c.displayName = "fits" /\ {c.legalName, c.contactName} = {Null}
  /\ c.kind = "company" => c.legalName = "fits" /\ c.displayName = Null
  /\ {c.contactName, c.email, c.phone, c.reference} \subseteq {Null, "fits"}
  /\ c.hasAddress => /\ {c.lines, c.commune, c.region} \subseteq {Null, "fits"}
                     /\ c.lines # Null \/ c.commune # Null

ChargeContract(amount, basis, rate) ==
  /\ amount \in 0..MaxUnit
  /\ basis \in Bases
  /\ IF basis = "exempt" THEN rate = 0 ELSE rate \in 1..Micro

LineContract(m) ==
  /\ m.kind \in {"product", "service"}
  /\ m.source = "fits" /\ m.description = "fits"
  /\ {m.product, m.variant, m.sku} \subseteq {Null, "fits"}
  /\ m.quantity \in 1..MaxQuantity * Micro - 1
  /\ ChargeContract(m.unitAmount, m.basis, m.rate)

-----------------------------------------------------------------------------
(* A V1 database: rows its tables admit, and its foreign keys.                *)
V1Database(v1) ==
  /\ \A i \in DOMAIN v1.quotes :
       /\ v1.quotes[i] \in V1Quotes
       /\ \A o \in DOMAIN v1.lines[i] : o \in Int /\ v1.lines[i][o] \in V1Lines
       /\ DOMAIN v1.events[i] \in SUBSET Nat /\ IsFiniteSet(DOMAIN v1.events[i])
       /\ \A e \in DOMAIN v1.events[i] : v1.events[i][e] \in V1Events
  /\ \A d \in DOMAIN v1.deliveries :
       /\ d \in Nat /\ v1.deliveries[d] \in V1Deliveries
       /\ v1.deliveries[d].quote \in DOMAIN v1.quotes
  /\ \A k \in DOMAIN v1.keys : v1.keys[k] \in V1Keys

(* Columns the validation does not look at and a V2 check may refuse: then    *)
(* the migration aborts on that check, with no exception report.  V1 wrote    *)
(* nothing else.                                                              *)
AsV1Wrote(v1) ==
  /\ \A i \in DOMAIN v1.quotes :
       /\ DOMAIN v1.lines[i] \subseteq 0..MaxLines - 1
       /\ v1.quotes[i].document.key # "odd" /\ v1.quotes[i].document.render # "blank"
  /\ \A d \in DOMAIN v1.deliveries :
       v1.deliveries[d].recipient = "fits" /\ v1.deliveries[d].provider # "odd"
  /\ \A k \in DOMAIN v1.keys : v1.keys[k].operation = "fits"

V2Holds(v2) ==
  /\ \A i \in DOMAIN v2.quotes :
       /\ V2QuoteChecks(v2.quotes[i])
       /\ CustomerContract(v2.quotes[i].customer)
       /\ \A o \in DOMAIN v2.lines[i] : V2LineChecks(v2.lines[i][o]) /\ LineContract(v2.lines[i][o])
       /\ \A o, p \in DOMAIN v2.lines[i] :
            v2.lines[i][o].position = v2.lines[i][p].position => o = p
       /\ V2EventChecks(v2.events[i])
  /\ \A i \in DOMAIN v2.operations : V2OperationChecks(v2.operations[i])
  /\ \A i \in DOMAIN v2.documents :
       V2DocumentChecks(v2.documents[i]) /\ i \in DOMAIN v2.operations
  /\ \A d \in DOMAIN v2.deliveries : V2DeliveryChecks(v2.deliveries[d])
  /\ \A k \in DOMAIN v2.bindings :
       V2BindingChecks(v2.bindings[k], DOMAIN v2.quotes, DOMAIN v2.deliveries)
  /\ RequiresDocument(v2)

(* Nothing V1 knew is lost: a number is on the quote or in the evidence, a    *)
(* customer value on the quote or in the evidence, and acceptance and payment *)
(* in the history.                                                            *)
NothingLost(v1, v2) ==
  \A i \in DOMAIN v1.quotes :
    LET q == v1.quotes[i]  v == v2.quotes[i]  e == v2.evidence[i] IN
    /\ {v.number, e.number} = {q.number, Null}
    /\ \A f \in {"email", "phone", "id"} : q.customer[f] # Null =>
         (f \in e.invalid) # ((IF f = "id" THEN v.customer.reference ELSE v.customer[f]) = "fits")
    /\ q.acceptedAt # NoInstant => \E x \in DOMAIN v2.events[i] : v2.events[i][x].action = "accepted"
    /\ q.paidAt # NoInstant => \E x \in DOMAIN v2.events[i] : v2.events[i][x].action = "paid"
=============================================================================
