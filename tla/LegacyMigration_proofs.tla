------------------------- MODULE LegacyMigration_proofs -------------------------
(* The V1 rows the validation of migration 000007 accepts become rows every   *)
(* check of the V2 tables admits, whatever they are.                          *)
EXTENDS LegacyMigration, ChargeArithmetic_proofs, FiniteSetTheorems

(* pg_temp.v2_charge and the owner's chargeAmounts are two pieces of code in  *)
(* two languages: they charge the same, so that a migrated draft does not     *)
(* change its amounts when the service issues it.                             *)
THEOREM MigrationChargesAsTheOwner ==
  ASSUME NEW unit \in Nat, NEW quantity \in Nat, NEW basis \in Bases, NEW rate \in Nat
  PROVE  V2Charge(unit, quantity, basis, rate) = ChargeAmounts(unit, quantity, basis, rate)
<1> DEFINE ext == HalfUp(unit * quantity, Micro)
<1>1. Micro \in Nat \ {0} /\ Micro + rate \in Nat \ {0}
  BY ArithmeticAssumption DEF ArithmeticAssumption
<1>2. 2 * unit * quantity = 2 * (unit * quantity) /\ unit * quantity \in Nat
  OBVIOUS
<1>3. (2 * unit * quantity + Micro) \div (2 * Micro) = ext
  BY <1>2 DEF HalfUp
<1>4. ext \in Nat
  BY <1>1, <1>2, HalfUpIsNearest
<1> HIDE DEF ext
<1>5. 2 * ext * Micro = 2 * (ext * Micro) /\ 2 * ext * rate = 2 * (ext * rate)
  BY <1>1, <1>4
<1>6. /\ (2 * ext * Micro + (Micro + rate)) \div (2 * (Micro + rate)) = HalfUp(ext * Micro, Micro + rate)
      /\ (2 * ext * rate + Micro) \div (2 * Micro) = HalfUp(ext * rate, Micro)
  BY <1>5 DEF HalfUp
<1>7. ext = HalfUp(unit * quantity, Micro)
  BY DEF ext
<1> QED
  BY <1>3, <1>6, <1>7 DEF V2Charge, ChargeAmounts

-----------------------------------------------------------------------------
(* An accepted line, at a position the table admits.                          *)

LEMMA LineAmounts ==
  ASSUME NEW l \in V1Lines
  PROVE  ChargeOf(l) = [net |-> ChargeOf(l).net, tax |-> ChargeOf(l).tax, gross |-> ChargeOf(l).gross]
         /\ Consistent(ChargeOf(l), Basis(l))
<1>1. l.unitPrice \in Nat /\ l.quantity \in Nat /\ l.taxRate \in Nat /\ Basis(l) \in Bases
  BY DEF V1Lines, V1LineColumns, V1LineChecks, Basis, Bases
<1>2. ChargeOf(l) = ChargeAmounts(l.unitPrice, l.quantity, Basis(l), l.taxRate)
  BY <1>1, MigrationChargesAsTheOwner DEF ChargeOf
<1>3. Consistent(ChargeOf(l), Basis(l))
  BY <1>1, <1>2, ChargesAreConsistent
<1>4. ChargeOf(l) = [net |-> ChargeOf(l).net, tax |-> ChargeOf(l).tax, gross |-> ChargeOf(l).gross]
  BY <1>1, <1>2 DEF ChargeAmounts, Bases
<1> QED
  BY <1>3, <1>4

LEMMA AcceptedLinesFit ==
  ASSUME NEW l \in V1Lines, NEW o \in 0..MaxLines - 1, Valid(LineExceptions(l))
  PROVE  V2LineChecks(MigratedLine(l, o)) /\ LineContract(MigratedLine(l, o))
<1> DEFINE m == MigratedLine(l, o)
<1>1. MaxLines \in Nat /\ MaxQuantity \in Nat /\ MaxUnit \in Nat /\ Micro \in Nat \ {0}
  BY MigrationAssumption, ArithmeticAssumption DEF MigrationAssumption, ArithmeticAssumption
<1>2. /\ l.description = "fits" /\ l.sku # "odd" /\ l.product # "odd" /\ l.variant # "odd"
      /\ m.source = "fits"
      /\ l.quantity > 0 /\ l.quantity < MaxQuantity * Micro
      /\ l.unitPrice \in 0..MaxUnit
      /\ Basis(l) # "exempt" => l.taxRate > 0 /\ l.taxRate <= Micro
  BY DEF Valid, LineExceptions, MigratedLine
<1>3. /\ l.type \in {"product", "service", "shipping"} /\ l.quantity \in Int /\ l.taxRate \in Int
      /\ {l.product, l.variant, l.sku} \subseteq {Null, "fits"}
  BY <1>2 DEF V1Lines, V1LineColumns, V1LineChecks, Texts
<1>4. m.kind \in {"product", "service"}
  BY <1>3 DEF MigratedLine
<1>5. m.position \in 1..MaxLines
  BY <1>1 DEF MigratedLine
<1>6. /\ m.description = "fits" /\ {m.product, m.variant, m.sku} \subseteq {Null, "fits"}
      /\ m.quantity = l.quantity /\ m.unitAmount = l.unitPrice
      /\ m.basis = Basis(l) /\ m.rate = l.taxRate
      /\ m.net = ChargeOf(l).net /\ m.tax = ChargeOf(l).tax /\ m.gross = ChargeOf(l).gross
  BY <1>2, <1>3 DEF MigratedLine
<1>7. Basis(l) \in Bases /\ (Basis(l) = "exempt" => l.taxRate = 0)
  BY DEF Basis, Bases
<1>8. /\ m.net >= 0 /\ m.tax >= 0 /\ m.gross = m.net + m.tax
      /\ m.basis = "exempt" => m.tax = 0
  BY <1>6, LineAmounts DEF Consistent
<1>9. m.quantity > 0 /\ m.quantity < MaxQuantity * Micro /\ m.quantity \in 1..MaxQuantity * Micro - 1
  BY <1>1, <1>2, <1>3, <1>6
<1>10. IF m.basis = "exempt" THEN m.rate = 0 ELSE m.rate > 0 /\ m.rate <= Micro /\ m.rate \in 1..Micro
  BY <1>1, <1>2, <1>3, <1>6, <1>7
<1> HIDE DEF m
<1>11. V2LineChecks(m)
  BY <1>2, <1>4, <1>5, <1>6, <1>7, <1>8, <1>9, <1>10 DEF V2LineChecks, m
<1>12. LineContract(m)
  BY <1>2, <1>4, <1>6, <1>7, <1>9, <1>10 DEF LineContract, ChargeContract, m
<1> QED
  BY <1>11, <1>12 DEF m

-----------------------------------------------------------------------------
(* An accepted quote with its document and its synthetic operation.           *)

LEMMA QuoteAccepted ==
  ASSUME NEW q \in V1Quotes, Valid(QuoteExceptions(q))
  PROVE  /\ q.status \in {"issued", "accepted", "paid", "expired"} => q.issuedAt # NoInstant
         /\ q.status = "cancelled" => q.cancelledAt # NoInstant
         /\ q.status = "expired" => q.expiredAt # NoInstant
         /\ q.opportunity = "fits"
         /\ Committed(q) =>
              /\ q.document.pdf = "fits" /\ q.document.hash = "fits" /\ q.document.key # Null
              /\ q.document.render \in {"fits", "blank"}
              /\ q.document.generatedAt # NoInstant
              /\ ~(q.validUntil <= q.issuedAt) /\ q.number = "fits"
BY DEF Valid, QuoteExceptions, Null

LEMMA CommittedInstants ==
  ASSUME NEW q \in V1Quotes, Valid(QuoteExceptions(q)), Committed(q)
  PROVE  /\ q.issuedAt \in 0..Now /\ q.validUntil \in 0..Now /\ q.validUntil > q.issuedAt
         /\ CivilDate[q.issuedAt] \in Nat /\ CivilDate[q.validUntil - 1] \in Nat
         /\ CivilDate[q.validUntil - 1] >= CivilDate[q.issuedAt]
<1>1. Now \in Nat
  BY MigrationAssumption DEF MigrationAssumption
<1>2. q.issuedAt \in 0..Now /\ q.validUntil \in 0..Now
  BY DEF V1Quotes, V1QuoteColumns, Committed, Instants
<1>3. q.validUntil > q.issuedAt
  BY <1>1, <1>2, QuoteAccepted
<1>4. q.validUntil - 1 \in 0..Now /\ q.issuedAt <= q.validUntil - 1
  BY <1>1, <1>2, <1>3
<1>5. CivilDate[q.issuedAt] \in Nat /\ CivilDate[q.validUntil - 1] \in Nat
  BY <1>2, <1>4, MigrationAssumption DEF MigrationAssumption
<1>6. CivilDate[q.issuedAt] <= CivilDate[q.validUntil - 1]
  BY <1>2, <1>4, MigrationAssumption DEF MigrationAssumption
<1> QED
  BY <1>2, <1>3, <1>5, <1>6

LEMMA AcceptedQuotesFit ==
  ASSUME NEW q \in V1Quotes, Valid(QuoteExceptions(q)), NEW t
  PROVE  V2QuoteChecks(MigratedQuote(q, t))
<1> DEFINE v == MigratedQuote(q, t)
<1>1. /\ q.status \in {"draft", "issued", "accepted", "paid", "cancelled", "expired"}
      /\ q.version > 0 /\ q.version \in Int /\ q.number \in Given
      /\ q.issuedAt \in Instants /\ q.cancelledAt \in Instants /\ q.expiredAt \in Instants
  BY DEF V1Quotes, V1QuoteColumns, V1QuoteChecks
<1>2. /\ v.status = V2Status(q) /\ v.version = q.version /\ v.reference = "fits"
      /\ v.customer.kind \in {"person", "company"}
  BY QuoteAccepted DEF MigratedQuote, MigratedCustomer
<1>3. v.status \in {"draft", "issued", "expired", "cancelled"}
  BY <1>1, <1>2 DEF V2Status
<1>4. v.status \in {"issued", "expired"} => Committed(q)
  BY <1>1, <1>2, QuoteAccepted DEF V2Status, Committed
<1>5. v.status = "draft" => ~Committed(q)
  BY <1>1, <1>2 DEF V2Status, Committed
<1>6. /\ v.status = "cancelled" <=> v.cancelledAt # NoInstant
      /\ v.cancelledAt # NoInstant <=> v.cancelReason # Null
      /\ v.status = "expired" <=> v.expiredAt # NoInstant
  BY <1>1, <1>2, QuoteAccepted DEF V2Status, MigratedQuote, OnlyIf, Null
<1>7. CASE Committed(q)
  <2>1. /\ v.number = "fits" /\ v.issuedAt = q.issuedAt /\ v.issuer = "pesaschile-cl-v1"
        /\ v.operation = "synthetic" /\ v.validity = "legacy_caller_supplied"
        /\ v.issueDate = CivilDate[q.issuedAt] /\ v.throughDate = CivilDate[q.validUntil - 1]
        /\ v.validUntil = q.validUntil
    BY <1>7, QuoteAccepted DEF MigratedQuote, OnlyIf
  <2>2. /\ v.issuedAt \in Nat /\ v.issueDate \in Nat /\ v.throughDate \in Nat /\ v.validUntil \in Nat
        /\ v.throughDate >= v.issueDate /\ v.validUntil > v.issuedAt
    BY <1>7, <2>1, CommittedInstants
  <2>3. v.number # Null /\ v.issuer # Null /\ v.validity # Null /\ v.operation # Null
    BY <2>1 DEF Null
  <2>4. /\ v.issuedAt # NoInstant /\ v.issueDate # NoInstant
        /\ v.throughDate # NoInstant /\ v.validUntil # NoInstant
    BY <2>2 DEF NoInstant
  <2> HIDE DEF v
  <2>5. V2QuoteChecks(v)
    BY <1>1, <1>2, <1>3, <1>5, <1>6, <1>7, <2>1, <2>2, <2>3, <2>4 DEF V2QuoteChecks
  <2> QED
    BY <2>5 DEF v
<1>8. CASE ~Committed(q)
  <2>1. /\ v.number = Null /\ v.issuedAt = NoInstant /\ v.issuer = Null
        /\ v.operation = Null /\ v.validity = Null
        /\ v.issueDate = NoInstant /\ v.throughDate = NoInstant
        /\ v.validUntil = NoInstant
    BY <1>8 DEF MigratedQuote, OnlyIf
  <2> HIDE DEF v
  <2>2. V2QuoteChecks(v)
    BY <1>1, <1>2, <1>3, <1>4, <1>6, <1>8, <2>1 DEF V2QuoteChecks
  <2> QED
    BY <2>2 DEF v
<1> QED
  BY <1>7, <1>8

LEMMA AcceptedCustomersFit ==
  ASSUME NEW c \in V1Customers, Valid(CustomerExceptions(c))
  PROVE  CustomerContract(MigratedCustomer(c))
<1> DEFINE m == MigratedCustomer(c)
<1>1. /\ c["name"] # "odd" /\ (c["name"] = Null => Company(c))
      /\ \A f \in {"businessName", "address", "district", "region"} : c[f] # "odd"
  BY DEF Valid, CustomerExceptions
<1>2. /\ {c["name"], c["address"], c["district"], c["region"], c["businessName"]} \subseteq {Null, "fits"}
      /\ (c["name"] = Null => Company(c)) /\ (Company(c) => c["businessName"] = "fits")
  BY <1>1 DEF V1Customers, Texts, Company
<1>3. /\ m.kind = "person" => m.displayName = "fits" /\ {m.legalName, m.contactName} = {Null}
      /\ m.kind = "company" => m.legalName = "fits" /\ m.displayName = Null
  BY <1>2 DEF MigratedCustomer, OnlyIf
<1>4. {m.contactName, m.email, m.phone, m.reference} \subseteq {Null, "fits"}
  BY <1>2 DEF MigratedCustomer, OnlyIf
<1>5. m.hasAddress => /\ {m.lines, m.commune, m.region} \subseteq {Null, "fits"}
                      /\ m.lines # Null \/ m.commune # Null
  BY <1>2 DEF MigratedCustomer
<1> HIDE DEF m
<1>6. CustomerContract(m)
  BY <1>3, <1>4, <1>5 DEF CustomerContract
<1> QED
  BY <1>6 DEF m

LEMMA AcceptedDocumentsFit ==
  ASSUME NEW q \in V1Quotes, Valid(QuoteExceptions(q)), Committed(q),
         q.document.key # "odd", q.document.render # "blank"
  PROVE  V2DocumentChecks(MigratedDocument(q)) /\ V2OperationChecks(MigratedOperation(q))
<1> DEFINE d == MigratedDocument(q)
           op == MigratedOperation(q)
<1>1. /\ q.document.hash = "fits" /\ q.document.pdf = "fits" /\ q.document.key = "fits"
      /\ q.document.render = "fits" /\ q.document.generatedAt # NoInstant
  BY QuoteAccepted DEF V1Quotes, V1QuoteColumns, V1Documents, Texts
<1>2. /\ d.origin = "legacy_v1" /\ d.hash = "fits" /\ d.pdf = "fits" /\ d.key = "fits"
      /\ d.render = "fits" /\ d.generatedAt # NoInstant
  BY <1>1 DEF MigratedDocument
<1>3. q.issuedAt \in Nat /\ q.issuedAt # NoInstant
  BY CommittedInstants DEF Committed
<1>4. /\ op.status = "succeeded" /\ op.origin = "legacy_v1_migration" /\ op.hash = "fits"
      /\ op.generation = 0 /\ op.attempts = 0 /\ op.leaseOwner = Null
      /\ op.acceptedAt = q.issuedAt /\ op.deadlineAt = q.issuedAt + 1
      /\ op.completedAt # NoInstant
  BY <1>1 DEF MigratedOperation
<1>5. op.deadlineAt > op.acceptedAt /\ op.acceptedAt # NoInstant
  BY <1>3, <1>4
<1> HIDE DEF d, op
<1>6. V2DocumentChecks(d)
  BY <1>2 DEF V2DocumentChecks
<1>7. V2OperationChecks(op)
  BY <1>4, <1>5 DEF V2OperationChecks
<1> QED
  BY <1>6, <1>7 DEF d, op

LEMMA AcceptedDeliveriesFit ==
  ASSUME NEW d \in V1Deliveries, NEW q \in V1Quotes, Valid(DeliveryExceptions(d, q)),
         d.recipient = "fits", d.provider # "odd"
  PROVE  /\ V2DeliveryChecks(MigratedDelivery(d, q))
         /\ MigratedDelivery(d, q).status \notin {"pending", "sending"}
<1> DEFINE v == MigratedDelivery(d, q)
<1>1. /\ d.status \in {"pending", "processing", "sent", "failed"} /\ d.attempts \in Int /\ d.attempts >= 0
      /\ q.document.pdf = "fits" /\ (d.status = "sent" => d.sentAt # NoInstant)
  BY DEF V1Deliveries, V1DeliveryColumns, V1DeliveryChecks, Valid, DeliveryExceptions
<1>2. /\ v.recipient = "fits" /\ v.document = "fits" /\ v.provider # "odd"
      /\ v.generation = 0 /\ v.attempts = d.attempts /\ v.leaseOwner = Null
  BY <1>1 DEF MigratedDelivery
<1>3. /\ v.status \in {"sent", "unknown", "failed"}
      /\ v.status = "sent" <=> d.status = "sent"
      /\ v.status = "failed" => v.lastError # Null
  BY <1>1 DEF MigratedDelivery, OnlyIf, Null
<1>4. v.status = "sent" <=> v.sentAt # NoInstant
  BY <1>1, <1>3 DEF MigratedDelivery, OnlyIf
<1> HIDE DEF v
<1>5. V2DeliveryChecks(v)
  BY <1>1, <1>2, <1>3, <1>4 DEF V2DeliveryChecks
<1> QED
  BY <1>3, <1>5 DEF v

(* A completed key names a quote, or a delivery and through it its quote.     *)
LEMMA AcceptedKeysFit ==
  ASSUME NEW k \in V1Keys, NEW quotes, NEW deliveries, k.status = "completed", k.operation = "fits",
         Valid(KeyExceptions(k, quotes, DOMAIN deliveries)),
         \A d \in DOMAIN deliveries : d \in Nat /\ deliveries[d].quote \in quotes
  PROVE  V2BindingChecks(MigratedBinding(k, deliveries), quotes, DOMAIN deliveries)
<1> DEFINE b == MigratedBinding(k, deliveries)
<1>1. /\ k.hash = "fits" /\ k.resource # NoInstant
      /\ k.resourceType \in {"quote", "quote_delivery"}
      /\ k.resourceType = "quote" => k.resource \in quotes
      /\ k.resourceType = "quote_delivery" => k.resource \in DOMAIN deliveries
  BY DEF Valid, KeyExceptions
<1>2. /\ b.operation = "fits" /\ b.fingerprint = "fits" /\ b.snapshot = Null
      /\ k.resourceType = "quote_delivery" =>
           b.resourceType = "delivery" /\ b.quote = deliveries[k.resource].quote /\ b.delivery = k.resource
      /\ k.resourceType # "quote_delivery" =>
           b.resourceType = "quote" /\ b.quote = k.resource /\ b.delivery = NoInstant
  BY <1>1 DEF MigratedBinding
<1>3. /\ b.resourceType = "delivery" <=> b.delivery # NoInstant
      /\ b.quote \in quotes /\ (b.delivery # NoInstant => b.delivery \in DOMAIN deliveries)
  BY <1>1, <1>2
<1> HIDE DEF b
<1>4. V2BindingChecks(b, quotes, DOMAIN deliveries)
  BY <1>2, <1>3 DEF V2BindingChecks
<1> QED
  BY <1>4 DEF b

-----------------------------------------------------------------------------
(* The events of a quote are numbered by their rank in (instant, id), which    *)
(* is a total order: no two have the same rank.                               *)
LEMMA MigratedEventsFit ==
  ASSUME NEW q \in V1Quotes, NEW events, DOMAIN events \in SUBSET Nat, IsFiniteSet(DOMAIN events),
         \A e \in DOMAIN events : events[e] \in V1Events
  PROVE  /\ V2EventChecks(MigratedEvents(q, events))
         /\ ToldByV1(MigratedEvents(q, events)) = DOMAIN events
<1> DEFINE ids == DOMAIN events \cup DerivedEvents(q, events)
           IsV1(e) == e \in DOMAIN events
           At(e) == IF IsV1(e) THEN events[e].at
                    ELSE OnlyIf(e = Derived["accepted"], q.acceptedAt, q.paidAt)
           UpTo(e) == {f \in ids : At(f) < At(e) \/ (At(f) = At(e) /\ f <= e)}
           M == MigratedEvents(q, events)
<1>1. DerivedEvents(q, events) \in SUBSET {-2, -1}
  BY DEF DerivedEvents, Derived
<1>2. IsFiniteSet(ids) /\ ids \subseteq Int
  <2>1. -2..(-1) = {-2, -1} /\ IsFiniteSet(-2..(-1))
    <3>1. -2 \in Int /\ -1 \in Int
      OBVIOUS
    <3>2. IsFiniteSet(-2..(-1))
      BY ONLY <3>1, FS_Interval
    <3>3. -2..(-1) = {-2, -1}
      OBVIOUS
    <3> QED
      BY <3>2, <3>3
  <2>2. IsFiniteSet(DerivedEvents(q, events))
    BY <1>1, <2>1, FS_Subset
  <2>3. IsFiniteSet(ids)
    BY <2>2, FS_Union
  <2> QED
    BY <1>1, <2>3
<1>3. \A e \in ids : At(e) \in Int
  <2>1. \A e \in DOMAIN events : events[e].at \in Int
    BY DEF V1Events
  <2>2. q.acceptedAt \in Int /\ q.paidAt \in Int
    BY DEF V1Quotes, V1QuoteColumns, Instants, NoInstant
  <2> QED
    BY <2>1, <2>2 DEF OnlyIf
<1>4. /\ DOMAIN M = ids
      /\ \A e \in ids : M[e].sequence = Cardinality(UpTo(e))
  BY DEF MigratedEvents
<1>12. \A e \in ids : M[e].v1 = IsV1(e)
  BY DEF MigratedEvents
<1> HIDE DEF At, M, ids
<1>5. \A e \in ids : e \in UpTo(e) /\ IsFiniteSet(UpTo(e)) /\ Cardinality(UpTo(e)) \in Nat
  <2> TAKE e \in ids
  <2>1. e \in Int /\ At(e) \in Int /\ UpTo(e) \in SUBSET ids
    BY <1>2, <1>3
  <2>2. IsFiniteSet(UpTo(e))
    BY <1>2, <2>1, FS_Subset
  <2> QED
    BY <2>1, <2>2, FS_CardinalityType
<1>6. \A e, f \in ids : UpTo(e) \subseteq UpTo(f) /\ Cardinality(UpTo(e)) = Cardinality(UpTo(f)) => e = f
  <2> SUFFICES ASSUME NEW e \in ids, NEW f \in ids, UpTo(e) \subseteq UpTo(f),
                      Cardinality(UpTo(e)) = Cardinality(UpTo(f))
               PROVE  e = f
    OBVIOUS
  <2>1. UpTo(e) = UpTo(f)
    BY <1>5, FS_Subset
  <2>2. e \in UpTo(f) /\ f \in UpTo(e)
    BY <1>5, <2>1
  <2>3. e \in Int /\ f \in Int /\ At(e) \in Int /\ At(f) \in Int
    BY <1>2, <1>3
  <2> QED
    BY <2>2, <2>3
<1>7. \A e, f \in ids : UpTo(e) \subseteq UpTo(f) \/ UpTo(f) \subseteq UpTo(e)
  <2> SUFFICES ASSUME NEW e \in ids, NEW f \in ids
               PROVE  UpTo(e) \subseteq UpTo(f) \/ UpTo(f) \subseteq UpTo(e)
    OBVIOUS
  <2>1. e \in Int /\ f \in Int /\ At(e) \in Int /\ At(f) \in Int
        /\ \A g \in ids : g \in Int /\ At(g) \in Int
    BY <1>2, <1>3
  <2>2. CASE At(e) < At(f) \/ (At(e) = At(f) /\ e <= f)
    <3>1. ASSUME NEW g \in ids, At(g) < At(e) \/ (At(g) = At(e) /\ g <= e)
          PROVE  At(g) < At(f) \/ (At(g) = At(f) /\ g <= f)
      BY <2>1, <2>2, <3>1
    <3> QED
      BY <3>1
  <2>3. CASE At(f) < At(e) \/ (At(f) = At(e) /\ f <= e)
    <3>1. ASSUME NEW g \in ids, At(g) < At(f) \/ (At(g) = At(f) /\ g <= f)
          PROVE  At(g) < At(e) \/ (At(g) = At(e) /\ g <= e)
      BY <2>1, <2>3, <3>1
    <3> QED
      BY <3>1
  <2> QED
    BY <2>1, <2>2, <2>3
<1> HIDE DEF UpTo
<1>8. \A e \in ids : M[e].sequence >= 1
  <2> TAKE e \in ids
  <2>1. Cardinality(UpTo(e)) # 0
    BY <1>5, FS_EmptySet
  <2> QED
    BY <1>4, <1>5, <2>1
<1>9. \A e, f \in ids : M[e].sequence = M[f].sequence => e = f
  <2> SUFFICES ASSUME NEW e \in ids, NEW f \in ids, M[e].sequence = M[f].sequence PROVE e = f
    OBVIOUS
  <2>1. Cardinality(UpTo(e)) = Cardinality(UpTo(f))
    BY <1>4
  <2>2. CASE UpTo(e) \subseteq UpTo(f)
    BY <1>6, <2>1, <2>2
  <2>3. CASE UpTo(f) \subseteq UpTo(e)
    BY <1>6, <2>1, <2>3
  <2> QED
    BY <1>7, <2>2, <2>3
<1>10. V2EventChecks(M)
  BY <1>4, <1>8, <1>9 DEF V2EventChecks
<1>11. ToldByV1(M) = DOMAIN events
  BY <1>4, <1>12 DEF ids, ToldByV1
<1> QED
  BY <1>10, <1>11 DEF M

-----------------------------------------------------------------------------
(* Of a V1 database the validation accepts, whose other columns V1 wrote,      *)
(* every migrated row passes the checks of its table, a document is there      *)
(* where one is required, and quotes and lines are ones a request could have   *)
(* made: the transaction does not abort and no migrated draft is stuck.        *)
THEOREM MigrationFitsV2 ==
  ASSUME NEW v1, V1Database(v1), Accepted(v1), AsV1Wrote(v1)
  PROVE  V2Holds(Migrate(v1))
<1> DEFINE v2 == Migrate(v1)
           committed == {i \in DOMAIN v1.quotes : Committed(v1.quotes[i])}
           completed == {k \in DOMAIN v1.keys : v1.keys[k].status = "completed"}
<1>1. /\ v2.quotes = [i \in DOMAIN v1.quotes |-> MigratedQuote(v1.quotes[i], TotalsOf(v1.lines[i]))]
      /\ v2.lines = [i \in DOMAIN v1.quotes |->
                       [o \in DOMAIN v1.lines[i] |-> MigratedLine(v1.lines[i][o], o)]]
      /\ v2.operations = [i \in committed |-> MigratedOperation(v1.quotes[i])]
      /\ v2.documents = [i \in committed |-> MigratedDocument(v1.quotes[i])]
      /\ v2.events = [i \in DOMAIN v1.quotes |-> MigratedEvents(v1.quotes[i], v1.events[i])]
      /\ v2.deliveries = [d \in DOMAIN v1.deliveries |->
                            MigratedDelivery(v1.deliveries[d], v1.quotes[v1.deliveries[d].quote])]
      /\ v2.bindings = [k \in completed |-> MigratedBinding(v1.keys[k], v1.deliveries)]
  BY DEF Migrate
<1> HIDE DEF v2
<1>2. ASSUME NEW i \in DOMAIN v2.quotes
      PROVE  V2QuoteChecks(v2.quotes[i]) /\ CustomerContract(v2.quotes[i].customer)
  <2>1. /\ i \in DOMAIN v1.quotes /\ v1.quotes[i] \in V1Quotes
        /\ Valid(QuoteExceptions(v1.quotes[i])) /\ Valid(CustomerExceptions(v1.quotes[i].customer))
    BY <1>1 DEF V1Database, Accepted
  <2>2. /\ v2.quotes[i] = MigratedQuote(v1.quotes[i], TotalsOf(v1.lines[i]))
        /\ v2.quotes[i].customer = MigratedCustomer(v1.quotes[i].customer)
    <3>1. v2.quotes[i] = MigratedQuote(v1.quotes[i], TotalsOf(v1.lines[i]))
      BY <1>1, <2>1
    <3>2. \A q, t : MigratedQuote(q, t).customer = MigratedCustomer(q.customer)
      BY DEF MigratedQuote
    <3> QED
      BY <3>1, <3>2
  <2>3. v1.quotes[i].customer \in V1Customers
    BY <2>1 DEF V1Quotes, V1QuoteColumns
  <2> QED
    BY <2>1, <2>2, <2>3, AcceptedQuotesFit, AcceptedCustomersFit
<1>3. ASSUME NEW i \in DOMAIN v2.quotes, NEW o \in DOMAIN v2.lines[i]
      PROVE  V2LineChecks(v2.lines[i][o]) /\ LineContract(v2.lines[i][o])
  <2>1. /\ i \in DOMAIN v1.quotes /\ o \in DOMAIN v1.lines[i]
        /\ v2.lines[i][o] = MigratedLine(v1.lines[i][o], o)
    BY <1>1
  <2>2. /\ v1.lines[i][o] \in V1Lines /\ Valid(LineExceptions(v1.lines[i][o]))
        /\ o \in 0..MaxLines - 1
    BY <2>1 DEF V1Database, Accepted, AsV1Wrote
  <2> QED
    BY <2>1, <2>2, AcceptedLinesFit
<1>4. ASSUME NEW i \in DOMAIN v2.quotes, NEW o \in DOMAIN v2.lines[i], NEW p \in DOMAIN v2.lines[i],
             v2.lines[i][o].position = v2.lines[i][p].position
      PROVE  o = p
  <2>1. i \in DOMAIN v1.quotes /\ o \in DOMAIN v1.lines[i] /\ p \in DOMAIN v1.lines[i]
    BY <1>1
  <2>2. v2.lines[i][o].position = o + 1 /\ v2.lines[i][p].position = p + 1
    <3>1. /\ v2.lines[i][o] = MigratedLine(v1.lines[i][o], o)
          /\ v2.lines[i][p] = MigratedLine(v1.lines[i][p], p)
      BY <1>1, <2>1
    <3>2. \A l, n : MigratedLine(l, n).position = n + 1
      BY DEF MigratedLine
    <3> QED
      BY <3>1, <3>2
  <2>3. o \in Int /\ p \in Int
    BY <2>1 DEF V1Database
  <2>4. o + 1 = p + 1
    BY <1>4, <2>2
  <2> QED
    BY <2>3, <2>4
<1>5. ASSUME NEW i \in DOMAIN v2.quotes
      PROVE  V2EventChecks(v2.events[i])
  <2>1. /\ i \in DOMAIN v1.quotes /\ v1.quotes[i] \in V1Quotes
        /\ DOMAIN v1.events[i] \in SUBSET Nat /\ IsFiniteSet(DOMAIN v1.events[i])
        /\ \A e \in DOMAIN v1.events[i] : v1.events[i][e] \in V1Events
    BY <1>1 DEF V1Database
  <2>2. v2.events[i] = MigratedEvents(v1.quotes[i], v1.events[i])
    BY <1>1, <2>1
  <2> QED
    BY <2>1, <2>2, MigratedEventsFit
<1>6. ASSUME NEW i \in committed
      PROVE  V2OperationChecks(v2.operations[i]) /\ V2DocumentChecks(v2.documents[i])
  <2>1. /\ i \in DOMAIN v1.quotes /\ v1.quotes[i] \in V1Quotes /\ Committed(v1.quotes[i])
        /\ Valid(QuoteExceptions(v1.quotes[i]))
        /\ v1.quotes[i].document.key # "odd" /\ v1.quotes[i].document.render # "blank"
    BY DEF V1Database, Accepted, AsV1Wrote
  <2>2. /\ v2.operations[i] = MigratedOperation(v1.quotes[i])
        /\ v2.documents[i] = MigratedDocument(v1.quotes[i])
    BY <1>1
  <2> QED
    BY <2>1, <2>2, AcceptedDocumentsFit
<1>7. ASSUME NEW d \in DOMAIN v2.deliveries
      PROVE  V2DeliveryChecks(v2.deliveries[d])
  <2> DEFINE q == v1.quotes[v1.deliveries[d].quote]
  <2>1. /\ d \in DOMAIN v1.deliveries /\ v1.deliveries[d] \in V1Deliveries
        /\ q \in V1Quotes /\ Valid(DeliveryExceptions(v1.deliveries[d], q))
        /\ v1.deliveries[d].recipient = "fits" /\ v1.deliveries[d].provider # "odd"
    BY <1>1 DEF V1Database, Accepted, AsV1Wrote
  <2>2. v2.deliveries[d] = MigratedDelivery(v1.deliveries[d], q)
    BY <1>1, <2>1
  <2> HIDE DEF q
  <2> QED
    BY <2>1, <2>2, AcceptedDeliveriesFit
<1>8. ASSUME NEW k \in DOMAIN v2.bindings
      PROVE  V2BindingChecks(v2.bindings[k], DOMAIN v2.quotes, DOMAIN v2.deliveries)
  <2>1. /\ k \in DOMAIN v1.keys /\ v1.keys[k] \in V1Keys /\ v1.keys[k].status = "completed"
        /\ v1.keys[k].operation = "fits"
        /\ Valid(KeyExceptions(v1.keys[k], DOMAIN v1.quotes, DOMAIN v1.deliveries))
        /\ \A d \in DOMAIN v1.deliveries : d \in Nat /\ v1.deliveries[d].quote \in DOMAIN v1.quotes
    BY <1>1 DEF V1Database, Accepted, AsV1Wrote
  <2>2. /\ v2.bindings[k] = MigratedBinding(v1.keys[k], v1.deliveries)
        /\ DOMAIN v2.quotes = DOMAIN v1.quotes /\ DOMAIN v2.deliveries = DOMAIN v1.deliveries
    BY <1>1
  <2> QED
    BY <2>1, <2>2, AcceptedKeysFit
<1>9. RequiresDocument(v2)
  <2> SUFFICES ASSUME NEW i \in DOMAIN v2.quotes, v2.quotes[i].status \in {"issued", "expired"}
               PROVE  i \in DOMAIN v2.documents
    BY DEF RequiresDocument
  <2>1. /\ i \in DOMAIN v1.quotes /\ v1.quotes[i] \in V1Quotes /\ Valid(QuoteExceptions(v1.quotes[i]))
        /\ V2Status(v1.quotes[i]) \in {"issued", "expired"}
    <3>1. v2.quotes[i] = MigratedQuote(v1.quotes[i], TotalsOf(v1.lines[i])) /\ i \in DOMAIN v1.quotes
      BY <1>1
    <3>2. \A q, t : MigratedQuote(q, t).status = V2Status(q)
      BY DEF MigratedQuote
    <3> QED
      BY <3>1, <3>2 DEF V1Database, Accepted
  <2>2. v1.quotes[i].status \in {"issued", "accepted", "paid", "expired"}
    BY <2>1 DEF V2Status
  <2>3. Committed(v1.quotes[i])
    BY <2>1, <2>2, QuoteAccepted DEF Committed
  <2> QED
    BY <1>1, <2>1, <2>3
<1>10. DOMAIN v2.operations = committed /\ DOMAIN v2.documents = committed
  BY <1>1
<1>11. V2Holds(v2)
  BY <1>2, <1>3, <1>4, <1>5, <1>6, <1>7, <1>8, <1>9, <1>10 DEF V2Holds
<1> QED
  BY <1>11 DEF v2

(* The post-conditions, which the migration checks before it commits, never    *)
(* abort a migration the validation accepted: rows, numbers and documents are  *)
(* all there, and nothing is left for a worker to send.                       *)
THEOREM PostConditionsHold ==
  ASSUME NEW v1, V1Database(v1), Accepted(v1)
  PROVE  PostConditions(v1, Migrate(v1))
<1> DEFINE v2 == Migrate(v1)
           committed == {i \in DOMAIN v1.quotes : Committed(v1.quotes[i])}
           completed == {k \in DOMAIN v1.keys : v1.keys[k].status = "completed"}
<1>1. /\ v2.quotes = [i \in DOMAIN v1.quotes |-> MigratedQuote(v1.quotes[i], TotalsOf(v1.lines[i]))]
      /\ v2.lines = [i \in DOMAIN v1.quotes |->
                       [o \in DOMAIN v1.lines[i] |-> MigratedLine(v1.lines[i][o], o)]]
      /\ v2.documents = [i \in committed |-> MigratedDocument(v1.quotes[i])]
      /\ v2.events = [i \in DOMAIN v1.quotes |-> MigratedEvents(v1.quotes[i], v1.events[i])]
      /\ v2.deliveries = [d \in DOMAIN v1.deliveries |->
                            MigratedDelivery(v1.deliveries[d], v1.quotes[v1.deliveries[d].quote])]
      /\ DOMAIN v2.bindings = completed
      /\ DOMAIN v2.evidence = DOMAIN v1.quotes
  BY DEF Migrate
<1> HIDE DEF v2
<1>2. ASSUME NEW i \in DOMAIN v1.quotes
      PROVE  /\ DOMAIN v2.lines[i] = DOMAIN v1.lines[i]
             /\ ToldByV1(v2.events[i]) = DOMAIN v1.events[i]
             /\ v2.quotes[i].status \notin {"accepted", "paid"}
             /\ Committed(v1.quotes[i]) =>
                  /\ v2.quotes[i].number = v1.quotes[i].number
                  /\ i \in DOMAIN v2.documents
                  /\ v2.documents[i].pdf = v1.quotes[i].document.pdf
                  /\ v2.documents[i].key = v1.quotes[i].document.key
  <2>1. /\ v1.quotes[i] \in V1Quotes
        /\ DOMAIN v1.events[i] \in SUBSET Nat /\ IsFiniteSet(DOMAIN v1.events[i])
        /\ \A e \in DOMAIN v1.events[i] : v1.events[i][e] \in V1Events
    BY DEF V1Database
  <2>2. ToldByV1(v2.events[i]) = DOMAIN v1.events[i]
    <3>1. v2.events[i] = MigratedEvents(v1.quotes[i], v1.events[i])
      BY <1>1
    <3> QED
      BY <2>1, <3>1, MigratedEventsFit
  <2>3. /\ v2.quotes[i].status \notin {"accepted", "paid"}
        /\ Committed(v1.quotes[i]) => v2.quotes[i].number = v1.quotes[i].number
    <3>1. v2.quotes[i] = MigratedQuote(v1.quotes[i], TotalsOf(v1.lines[i]))
      BY <1>1
    <3>2. \A q, t : MigratedQuote(q, t).status \notin {"accepted", "paid"}
      BY DEF MigratedQuote, V2Status
    <3>3. \A q, t : Committed(q) => MigratedQuote(q, t).number = q.number
      BY DEF MigratedQuote, OnlyIf
    <3> QED
      BY <3>1, <3>2, <3>3
  <2>4. Committed(v1.quotes[i]) => /\ i \in DOMAIN v2.documents
                                   /\ v2.documents[i].pdf = v1.quotes[i].document.pdf
                                   /\ v2.documents[i].key = v1.quotes[i].document.key
    <3>1. ASSUME Committed(v1.quotes[i])
          PROVE  i \in DOMAIN v2.documents /\ v2.documents[i] = MigratedDocument(v1.quotes[i])
      BY <1>1, <3>1
    <3>2. \A q : /\ MigratedDocument(q).pdf = q.document.pdf
                 /\ MigratedDocument(q).key = q.document.key
      BY DEF MigratedDocument
    <3> QED
      BY <3>1, <3>2
  <2>5. DOMAIN v2.lines[i] = DOMAIN v1.lines[i]
    BY <1>1
  <2> QED
    BY <2>2, <2>3, <2>4, <2>5
<1>3. ASSUME NEW d \in DOMAIN v2.deliveries
      PROVE  v2.deliveries[d].status \notin {"pending", "sending"}
  <2>1. /\ d \in DOMAIN v1.deliveries /\ v1.deliveries[d] \in V1Deliveries
        /\ v2.deliveries[d] = MigratedDelivery(v1.deliveries[d], v1.quotes[v1.deliveries[d].quote])
    BY <1>1 DEF V1Database
  <2>2. v1.deliveries[d].status \in {"pending", "processing", "sent", "failed"}
    BY <2>1 DEF V1Deliveries, V1DeliveryChecks
  <2> QED
    BY <2>1, <2>2 DEF MigratedDelivery
<1>4. PostConditions(v1, v2)
  BY <1>1, <1>2, <1>3 DEF PostConditions
<1> QED
  BY <1>4 DEF v2
=============================================================================
