CONSTANTS
    Threads = {p1, p2}
    Emails = {e1, e2, e3}
    AuthorEmail = e2
    Names = {n1}
    Nonces = {k1, k2, k3}
    CommentIds = {1, 2, 3}
    MaxTokens = 3
    MaxRequests = 3
    MaxTime = 2
    CaptchaMin = 0
    CaptchaTtl = 0
    CaptchaGrace = 1
    VerifyTime = 1
    IpWindow = 0
    IpLimit = 1
    EmailLimit = 2
SPECIFICATION Spec
SYMMETRY Symmetry
INVARIANTS AdmissionInv  
PROPERTIES ModeratedStays
CHECK_DEADLOCK FALSE
