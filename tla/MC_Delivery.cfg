CONSTANTS
    q1 = q1
    d1 = d1
    p1 = p1
    p2 = p2
    NoDelivery = NoDelivery
    NoProc = NoProc
    Quotes <- MCQuotes
    Deliveries <- MCDeliveries
    Procs <- MCProcs
    QuoteOf <- MCQuoteOf
    ValidUntil <- MCValidUntil
    Lease = 2
    SendBudget = 1
    MaxAttempts = 2
    Delays <- MCDelays
    Window = 2
    MaxNow = 7
SYMMETRY MCProcSymmetry
SPECIFICATION Spec
CHECK_DEADLOCK FALSE
INVARIANTS
    TypeOK
    AcceptedOnce
    OutcomeIsTruthful
    AttemptedWhileIssued
    TokensIdentifyHolders
    OutcomeAuditedOnce
    RetriesBounded
PROPERTIES
    NeverReclaimed
