CONSTANTS
    q1 = q1
    o1 = o1
    o2 = o2
    p1 = p1
    p2 = p2
    r1 = r1
    NoOp = NoOp
    NoProc = NoProc
    NoRendering = NoRendering
    Quotes <- MCQuotes
    Ops <- MCOneOp
    Procs <- MCProcs
    Renderings <- MCRenderings
    QuoteOf <- MCOneQuoteOf
    Backoff <- MCBackoff
    BackoffCeiling = 3
    Lease = 1
    Deadline = 3
    MaxNow = 5
SPECIFICATION FairSpec
CHECK_DEADLOCK FALSE
PROPERTY EventuallyTerminal
