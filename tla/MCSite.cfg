CONSTANTS
    Threads = {p1, p2}
    Servers = {k1, k2}
    Codes = {en, es}
    English = en
    FallbackLang = en
    Fields = {f1, f2}
    MaxDocs = 3
    MaxRequests = 4
    OldUsers <- ThreeUsers
    Legacy <- TwoCommenters
    EmailOf <- Addresses
    PrefixOf <- NamesOfAddresses
    Hits <- Directories
    Verified = {"old1"}
    Blocked = {"old2"}
    BatchLimit = 2
    MaxFaults = 2
    MaxCrashes = 2
    AccountThreads = {p1, p2}
    UserIds = {k1, k2, u3, u4}
    FirstAdmins = {k1, k2}
    Commenter = u3
    MaxTokens = 2
    MaxAccountRequests = 4
    MaxTime = 2
    SessionTtl = 1
    EditThreads = {p1, p2}
    Managers = {adm}
    Authors = {ana}
    EntryIds = {k1, k2}
    Links = {none, a, b}
    NoLink = none
    Shadowed = {b}
    MaxBlocks = 2
    MaxPics = 2
    MaxIds = 3
    MaxEdits = 3
SPECIFICATION MCSpec
SYMMETRY Symmetry
INVARIANTS LanguagesInv SettingsInv MigrationInv AccountsInv EditsKept 
PROPERTIES UsernameStable GateIsCurrent 
CHECK_DEADLOCK FALSE
