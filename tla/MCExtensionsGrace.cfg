CONSTANTS
    Admins = {a1}
    Dirs = {"good"}
    Grace = 2
    CrashLimit = 2
    CrashWindow = 1
SPECIFICATION Spec
INVARIANTS GraceGiven
CHECK_DEADLOCK FALSE
