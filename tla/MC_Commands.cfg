CONSTANTS
    q1 = q1
    q2 = q2
    s1 = s1
    s2 = s2
    create = create
    issueNew = issueNew
    edit = edit
    ship = ship
    issue = issue
    cancel = cancel
    mail = mail
    owner = owner
    reader = reader
    a = a
    b = b
    NoQuote = NoQuote
    NoScope = NoScope
    NoRequest = NoRequest
    NoPrincipal = NoPrincipal
    Quotes <- MCTwoQuotes
    Sessions <- MCSessions
    Scopes <- MCScopes
    Operation <- MCOperation
    Principal <- MCPrincipal
    Readers <- MCReaders
    Requests <- MCRequests
    Values <- MCValues
    Validity = 1
    MaxNow = 2
    MaxNumber = 2
    MaxVersion = 4
SYMMETRY MCSymmetry
SPECIFICATION MCSpec
CHECK_DEADLOCK FALSE
INVARIANTS
    TypeOK
    OneMutationPerVersion
    IssuedAsSeen
    EndedHonestly
    NumberedOnce
    NoMailAfterEnd
    InlineAnswerIsDurable
PROPERTIES
    ImplementsIdempotence
    ImplementsLifecycle
