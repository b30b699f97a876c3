CONSTANTS
    x = x
    y = y
    c1 = c1
    c2 = c2
    aa = aa
    bb1 = bb1
    bb2 = bb2
    LegacyKey = LegacyKey
    NoManifest = NoManifest
    NoBytes = NoBytes
    Bytes <- MCBytes
    Quotes <- MCQuotes
    Legacy <- MCLegacy
    Rendered <- MCRendered
    Clients <- MCClients
    Inner <- MCInner
    Top <- MCTop
    TopsAtStart <- NoTops
    Damages <- MCDamages
    BatchSize = 1
SYMMETRY MCSymmetry
SPECIFICATION Spec
INVARIANT ManifestsNameBytesThatExist
