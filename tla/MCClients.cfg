CONSTANTS
    Handlers = {h1, h2}
    Factory <- FactorySet
    Posted <- SomePosted
    FirstStored <- SomeStored
    UserAgents <- SomeAgents
    Previews = {99, 3}
    ForceEpoch = 99
    Sheets <- SomeSheets
    MaxRules = 4
    MaxTiers = 3
    ProbeVersions <- SomeVersions
    MaxAsked = 2
    Phones = {s1, s2, s3}
    Hosts = {"site"}
    PageNames = {"p"}
    TableSize = 2
    RateLimit = 1
    Window = 2
    MaxRedirects = 1
    MaxReceived = 4
    MaxClock = 3
    NoHost = "none"
    NoSource = NoSource
    SomeDecks <- MCDeckSet
    PageBytes = 22
    NavCost = 6
    CardCost = 4
    NumberCost = 1
    MinLimit = 6
    MinHead = 6
    Sources <- MCSources
    MaxDepth = 2
SPECIFICATION MCSpec
INVARIANTS   DecksInv
SYMMETRY MCSym
CHECK_DEADLOCK FALSE
