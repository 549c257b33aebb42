CONSTANTS
    Conns = {c1}
    Kinds <- PlainKinds
    MaxConnections = 2
    Tls = FALSE
    ProxyProtocol = TRUE
SPECIFICATION Spec
INVARIANT TableSafe
CHECK_DEADLOCK FALSE
