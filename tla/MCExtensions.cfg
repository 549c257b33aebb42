CONSTANTS
    Admins = {a1}
    Dirs <- AnyDir
    Grace = 2
    CrashLimit = 2
    CrashWindow = 1
SPECIFICATION FairSpec
INVARIANT NoStray
PROPERTIES FailedSound ExtLive
CHECK_DEADLOCK FALSE
