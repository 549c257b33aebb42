CONSTANTS
    AccountThreads = {p1, p2}
    UserIds = {u1, u2, u3}
    FirstAdmins = {u1, u2}
    Commenter = u3
    MaxTokens = 2
    MaxAccountRequests = 4
    MaxTime = 2
    SessionTtl = 1
SPECIFICATION AccountsSpec
INVARIANT AdminKept
CHECK_DEADLOCK FALSE
