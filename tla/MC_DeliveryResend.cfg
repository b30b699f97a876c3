CONSTANTS
    q1 = q1
    d1 = d1
    p1 = p1
    p2 = p2
    NoDelivery = NoDelivery
    NoProc = NoProc
    Quotes <- MCQuotes
    Deliveries <- MCDeliveries
    Procs <- MCOneProc
    QuoteOf <- MCQuoteOf
    ValidUntil <- MCValidUntil
    Lease = 2
    SendBudget = 1
    MaxAttempts = 3
    Delays <- MCDelays
    Window = 2
    MaxNow = 7
SPECIFICATION Spec
CHECK_DEADLOCK FALSE
INVARIANT AtMostOneAcceptance
