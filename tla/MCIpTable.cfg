CONSTANTS
    Ips = {a, b, c}
    Callers = {t1, t2}
    MaxIps = 2
    RateLimit = 1
    Window = 1
    StaleSecs = 2
    MaxLag = 1
    MaxTime = 3
SPECIFICATION Spec
SYMMETRY Symmetry
INVARIANT IInv
PROPERTIES BanHolds LimitHolds
