CONSTANTS
    Conns = {c1, c2}
    Kinds <- MCKinds
    MaxConnections = 1
    Tls = TRUE
    ProxyProtocol = TRUE
    HeadRoom = 6
    MaxHeads = 4
    BodyCap = 2
    MaxBody = 3
    MaxChanges = 3
SPECIFICATION MCSpec
INVARIANTS CounterExact ClosedOnce CountedOnce DrainedBeforeFree SplitIndependent GatesInv
  
CHECK_DEADLOCK FALSE
