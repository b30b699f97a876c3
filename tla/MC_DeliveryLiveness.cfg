CONSTANTS
    q1 = q1
    d1 = d1
    p1 = p1
    p2 = p2
    NoDelivery = NoDelivery
    NoProc = NoProc
    Quotes <- MCQuotes
    Deliveries <- MCDeliveries
    Procs <- MCProcs
    QuoteOf <- MCQuoteOf
    ValidUntil <- MCShortValidity
    Lease = 1
    SendBudget = 0
    MaxAttempts = 2
    Delays <- MCDelays
    Window = 2
    MaxNow = 4
SPECIFICATION FairSpec
CHECK_DEADLOCK FALSE
PROPERTY EventuallyResolved
