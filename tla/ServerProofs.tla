---------------------------- MODULE ServerProofs ----------------------------
(***************************************************************************)
(* For any number of connections and any cap: active_connections counts    *)
(* the connections in flight exactly, every connection's socket is closed  *)
(* exactly once and its visitor counted once, whatever path it takes, and  *)
(* ssl_ctx outlives the connections unless the drain times out.  However   *)
(* the network cuts a request, what http_route() takes from it is what the *)
(* client sent.  And the gates of the routes let everybody where they      *)
(* belong, and nobody elsewhere.  A phone's deck is read as it nests and    *)
(* shown whole, on pages that fit, however long its texts.                  *)
(***************************************************************************)
EXTENDS Server, Requests, Pages, Decks, FiniteSetTheorems, SequenceTheorems,
        WellFoundedInduction, TLAPS

\* unregister_connection() keeps the count and the condition well typed.
LEMMA UnregisterType ==
    ASSUME TypeOK, UnregisterConnection
    PROVE  active' \in Nat /\ drain' \in [signalled : BOOLEAN, timedout : BOOLEAN]
  <1>1. active' \in Nat
    BY DEF UnregisterConnection, TypeOK
  <1>2. PICK b \in BOOLEAN : drain' = [drain EXCEPT !.signalled = b]
    BY Zenon DEF UnregisterConnection
  <1>3. drain' \in [signalled : BOOLEAN, timedout : BOOLEAN]
    BY <1>2 DEF TypeOK
  <1> QED
    BY <1>1, <1>3

\* Every step keeps the state well typed.
LEMMA NextType == TypeOK /\ [Next]_vars => TypeOK'
  <1> SUFFICES ASSUME TypeOK, [Next]_vars PROVE TypeOK'
    OBVIOUS
  <1> USE DEF connVars, mainVars, cleanVars
  <1>1. ASSUME NEW c \in Conns, NEW k \in Kinds, Connect(c, k) PROVE TypeOK'
    BY <1>1, ServerAssumption DEF Connect, TypeOK
  <1>2. CASE AcceptThread
    <2>1. CASE AcceptTest
      BY <2>1 DEF AcceptTest, TypeOK, AccPcs
    <2>2. CASE AcceptFdSet
      <3>1. acc' \in [pc : AccPcs, polled : SUBSET Listeners, ready : SUBSET Listeners]
        BY <2>2 DEF AcceptFdSet, TypeOK, AccPcs
      <3> QED
        BY <2>2, <3>1, Zenon DEF AcceptFdSet, TypeOK
    <2>3. CASE AcceptSelect
      <3>1. acc' \in [pc : AccPcs, polled : SUBSET Listeners, ready : SUBSET Listeners]
        BY <2>3 DEF AcceptSelect, TypeOK, AccPcs
      <3> QED
        BY <2>3, <3>1, Zenon DEF AcceptSelect, TypeOK
    <2>4. CASE AcceptWoken
      BY <2>4 DEF AcceptWoken, TypeOK, AccPcs
    <2>5. CASE AcceptNext
      BY <2>5 DEF AcceptNext, TypeOK, AccPcs
    <2>6. ASSUME NEW c \in Conns, AcceptConn(c) PROVE TypeOK'
      BY <2>6 DEF AcceptConn, TypeOK
    <2>7. ASSUME NEW c \in Conns, RateLimitedAtAccept(c) PROVE TypeOK'
      BY <2>7 DEF RateLimitedAtAccept, Reject, TypeOK
    <2>8. ASSUME NEW c \in Conns, TryRegisterConnection(c) PROVE TypeOK'
      BY <2>8 DEF TryRegisterConnection, Reject, TypeOK
    <2>9. ASSUME NEW c \in Conns, SpawnThread(c) PROVE TypeOK'
      <3>1. CASE Reject(c) /\ UnregisterConnection /\ UNCHANGED ssl
        BY <2>9, <3>1, UnregisterType DEF SpawnThread, Reject, TypeOK, InThread
      <3>2. CASE UNCHANGED <<sock, closes, active, drain>>
        BY <2>9, <3>2 DEF SpawnThread, Reject, TypeOK, InThread
      <3> QED
        BY <2>9, <3>1, <3>2 DEF SpawnThread
    <2> QED
      BY <1>2, <2>1, <2>2, <2>3, <2>4, <2>5, <2>6, <2>7, <2>8, <2>9 DEF AcceptThread
  <1>3. ASSUME NEW c \in Conns, ConnThread(c) PROVE TypeOK'
    <2>1. CASE Start(c)
      BY <2>1 DEF Start, Goto, AfterHeader, CloseRest, TypeOK, InThread
    <2>2. CASE ReadProxyHeader(c)
      <3>1. HeaderVerdict(c) \in InThread
        BY DEF HeaderVerdict, AfterHeader, InThread
      <3> QED
        BY <2>2, <3>1 DEF ReadProxyHeader, Goto, TypeOK, InThread
    <2>3. CASE RateLimitedVisitor(c)
      BY <2>3 DEF RateLimitedVisitor, Goto, AfterHeader, TypeOK, InThread
    <2>4. CASE Handshake(c)
      BY <2>4 DEF Handshake, Goto, TypeOK, InThread
    <2>5. CASE Route(c)
      BY <2>5 DEF Route, Goto, CloseRest, TypeOK, InThread
    <2>6. CASE Cleanup(c)
      BY <2>6 DEF Cleanup, Goto, CloseRest, TypeOK, InThread
    <2>7. CASE Unregister(c)
      BY <2>7, UnregisterType DEF Unregister, Goto, TypeOK, InThread
    <2> QED
      BY <1>3, <2>1, <2>2, <2>3, <2>4, <2>5, <2>6, <2>7 DEF ConnThread
  <1>4. CASE CleanerThread
    BY <1>4, Zenon DEF CleanerThread, CleanerTest, CleanerWait, CleanerWake, CleanerRetest,
                CleanerSweep, CleanerGoto, TypeOK
  <1>5. CASE StopRunning
    BY <1>5, Zenon DEF StopRunning, StopGoto, TypeOK, StopPcs
  <1>6. CASE Stopping
    <2>1. CASE StopClose
      BY <2>1 DEF StopClose, StopGoto, TypeOK, StopPcs, Listeners
    <2>2. CASE StopJoinAccept \/ StopDrainWake
      BY <2>2 DEF StopJoinAccept, StopDrainWake, StopGoto, TypeOK, StopPcs
    <2>4. CASE StopDrain \/ StopDrainTimeout
      <3>1. drain' \in [signalled : BOOLEAN, timedout : BOOLEAN]
        BY <2>4 DEF StopDrain, StopDrainTimeout, TypeOK
      <3>2. stop' \in StopPcs
        BY <2>4 DEF StopDrain, StopDrainTimeout, StopGoto, StopPcs
      <3>3. UNCHANGED <<running, fd, acc, active, connVars, ctx, table, cleanVars>>
        BY <2>4 DEF StopDrain, StopDrainTimeout
      <3> QED
        BY <3>1, <3>2, <3>3, Zenon DEF TypeOK
    <2>3. CASE StopFreeCtx \/ StopCleanup \/ StopSignal \/ StopJoinCleanup \/ StopFreeTable
      <3>1. stop' \in StopPcs
        BY <2>3 DEF StopFreeCtx, StopCleanup, StopSignal, StopJoinCleanup, StopFreeTable, StopGoto, StopPcs
      <3>2. ctx' \in {"none", "live", "freed"} /\ table' \in {"live", "freed"}
        BY <2>3 DEF StopFreeCtx, StopCleanup, StopSignal, StopJoinCleanup, StopFreeTable, TypeOK
      <3>3. cleanup_running' \in BOOLEAN /\ notified' \in BOOLEAN
        BY <2>3, Zenon DEF StopFreeCtx, StopCleanup, StopSignal, StopJoinCleanup, StopFreeTable, TypeOK
      <3>4. UNCHANGED <<running, fd, acc, active, connVars, drain, cleaner>>
        BY <2>3 DEF StopFreeCtx, StopCleanup, StopSignal, StopJoinCleanup, StopFreeTable
      <3> QED
        BY <3>1, <3>2, <3>3, <3>4, Zenon DEF TypeOK
    <2> QED
      BY <1>6, <2>1, <2>2, <2>3, <2>4 DEF Stopping
  <1>7. CASE UNCHANGED vars
    BY <1>7 DEF vars, TypeOK
  <1> QED
    BY <1>1, <1>2, <1>3, <1>4, <1>5, <1>6, <1>7 DEF Next

\* The state is well typed throughout.
THEOREM TypeCorrect == Spec => []TypeOK
  <1>1. Init => TypeOK
    <2> SUFFICES ASSUME Init PROVE TypeOK
      OBVIOUS
    <2>1. kind \in [Conns -> Kind]
      BY ServerAssumption DEF Init
    <2>2. /\ acc \in [pc : AccPcs, polled : SUBSET Listeners, ready : SUBSET Listeners]
          /\ drain \in [signalled : BOOLEAN, timedout : BOOLEAN]
      BY DEF Init, AccPcs
    <2>3. fd \in [Listeners -> {"open", "none"}] /\ active \in Nat
      BY DEF Init
    <2>4. /\ thread \in [Conns -> {"away", "backlog", "check", "register", "spawn", "gone"}
                                  \cup InThread]
          /\ sock \in [Conns -> {"none", "open", "closed"}]
          /\ closes \in [Conns -> Nat]
          /\ ssl \in [Conns -> {"none", "live", "freed"}]
          /\ counted \in [Conns -> SUBSET {"peer", "visitor"}]
      BY DEF Init
    <2>5. /\ running \in BOOLEAN /\ cleanup_running \in BOOLEAN /\ notified \in BOOLEAN
          /\ ctx \in {"none", "live", "freed"} /\ table \in {"live", "freed"}
          /\ stop \in StopPcs
          /\ cleaner \in {"test", "to_wait", "waiting", "retest", "sweep", "done"}
      BY Zenon DEF Init, StopPcs
    <2> QED
      BY <2>1, <2>2, <2>3, <2>4, <2>5, Zenon DEF TypeOK
  <1> QED
    BY <1>1, NextType, PTL DEF Spec

-----------------------------------------------------------------------------
InFlight == {c \in Conns : Registered(c)}

\* How a step changes who is in flight: not at all, one connection more within
\* the cap, or one less.
CountStep ==
    \/ InFlight' = InFlight /\ active' = active
    \/ \E c \in Conns \ InFlight :
          InFlight' = InFlight \cup {c} /\ active < MaxConnections /\ active' = active + 1
    \/ \E c \in InFlight :
          InFlight' = InFlight \ {c} /\ active' = IF active > 0 THEN active - 1 ELSE active

\* Every step is such a step.
LEMMA EveryCountStep == ASSUME TypeOK, [Next]_vars PROVE CountStep
  <1> USE DEF connVars, mainVars, cleanVars
  <1>1. ASSUME UNCHANGED <<thread, active>> PROVE CountStep
    BY <1>1 DEF CountStep, InFlight, Registered
  <1>2. ASSUME NEW c \in Conns, NEW there, Goto(c, there), UNCHANGED active,
               Registered(c) <=> there \in {"spawn"} \cup InThread
        PROVE  CountStep
    <2>1. \A d \in Conns : Registered(d)' <=> Registered(d)
      BY <1>2 DEF Goto, Registered, TypeOK
    <2> QED
      BY <1>2, <2>1 DEF CountStep, InFlight
  <1>3. ASSUME NEW c \in Conns, Goto(c, "spawn"), ~Registered(c),
               active < MaxConnections, active' = active + 1
        PROVE  CountStep
    <2>1. \A d \in Conns : Registered(d)' <=> Registered(d) \/ d = c
      BY <1>3 DEF Goto, Registered, TypeOK
    <2> QED
      BY <1>3, <2>1 DEF CountStep, InFlight
  <1>4. ASSUME NEW c \in Conns, Goto(c, "gone"), Registered(c), UnregisterConnection
        PROVE  CountStep
    <2>1. \A d \in Conns : Registered(d)' <=> Registered(d) /\ d # c
      BY <1>4 DEF Goto, Registered, InThread, TypeOK
    <2>2. InFlight' = InFlight \ {c} /\ c \in InFlight
      BY <1>4, <2>1 DEF InFlight
    <2> QED
      BY <1>4, <2>2 DEF CountStep, UnregisterConnection
  <1>5. ASSUME NEW c \in Conns, NEW k \in Kinds, Connect(c, k) PROVE CountStep
    BY <1>2, <1>5 DEF Connect, Goto, Registered, InThread
  <1>6. CASE AcceptThread
    <2>1. CASE AcceptTest \/ AcceptFdSet \/ AcceptSelect \/ AcceptWoken \/ AcceptNext
      BY <1>1, <2>1 DEF AcceptTest, AcceptFdSet, AcceptSelect, AcceptWoken, AcceptNext
    <2>2. ASSUME NEW c \in Conns, AcceptConn(c) PROVE CountStep
      BY <1>2, <2>2 DEF AcceptConn, Goto, Registered, InThread
    <2>3. ASSUME NEW c \in Conns, RateLimitedAtAccept(c) PROVE CountStep
      BY <1>2, <2>3 DEF RateLimitedAtAccept, Reject, Goto, Registered, InThread
    <2>4. ASSUME NEW c \in Conns, TryRegisterConnection(c) PROVE CountStep
      BY <1>2, <1>3, <2>4 DEF TryRegisterConnection, Reject, Goto, Registered, InThread
    <2>5. ASSUME NEW c \in Conns, SpawnThread(c) PROVE CountStep
      <3>1. Registered(c)
        BY <2>5 DEF SpawnThread, Registered
      <3>2. CASE Goto(c, "start") /\ UNCHANGED active
        BY <1>2, <3>1, <3>2 DEF InThread
      <3>3. CASE Goto(c, "gone") /\ UnregisterConnection
        BY <1>4, <3>1, <3>3
      <3> QED
        BY <2>5, <3>2, <3>3 DEF SpawnThread, Reject, Goto
    <2> QED
      BY <1>6, <2>1, <2>2, <2>3, <2>4, <2>5 DEF AcceptThread
  <1>7. ASSUME NEW c \in Conns, ConnThread(c) PROVE CountStep
    <2>1. CASE Unregister(c)
      BY <1>4, <2>1 DEF Unregister, Registered, InThread
    <2>2. CASE Start(c) \/ ReadProxyHeader(c) \/ RateLimitedVisitor(c)
      <3>1. Registered(c) /\ UNCHANGED active
        BY <2>2 DEF Start, ReadProxyHeader, RateLimitedVisitor, Registered, InThread
      <3>2. PICK there \in InThread : Goto(c, there)
        BY <2>2 DEF Start, ReadProxyHeader, RateLimitedVisitor, HeaderVerdict,
                    AfterHeader, InThread
      <3> QED
        BY <1>2, <3>1, <3>2
    <2>3. CASE Handshake(c) \/ Route(c) \/ Cleanup(c)
      <3>1. Registered(c) /\ UNCHANGED active
        BY <2>3 DEF Handshake, Route, Cleanup, Registered, InThread
      <3>2. PICK there \in InThread : Goto(c, there)
        BY <2>3 DEF Handshake, Route, Cleanup, InThread
      <3> QED
        BY <1>2, <3>1, <3>2
    <2> QED
      BY <1>7, <2>1, <2>2, <2>3 DEF ConnThread
  <1>8. CASE CleanerThread
    BY <1>1, <1>8 DEF CleanerThread, CleanerTest, CleanerWait, CleanerWake, CleanerRetest,
                      CleanerSweep, CleanerGoto
  <1>9. CASE StopRunning \/ Stopping
    BY <1>1, <1>9 DEF StopRunning, Stopping, StopClose, StopJoinAccept, StopDrain,
                      StopDrainWake, StopDrainTimeout, StopFreeCtx, StopCleanup, StopSignal,
                      StopJoinCleanup, StopFreeTable
  <1>10. CASE UNCHANGED vars
    BY <1>1, <1>10 DEF vars
  <1> QED
    BY <1>5, <1>6, <1>7, <1>8, <1>9, <1>10 DEF Next

\* active_connections is exact and within the cap in every reachable state.
THEOREM CounterExactThm == Spec => []CounterExact
  <1> USE ServerAssumption
  <1>1. Init => CounterExact
    <2> SUFFICES ASSUME Init PROVE CounterExact
      OBVIOUS
    <2>1. {c \in Conns : Registered(c)} = {}
      BY DEF Init, Registered, InThread
    <2> QED
      BY <2>1, FS_EmptySet DEF Init, CounterExact
  <1>2. TypeOK /\ CounterExact /\ [Next]_vars => CounterExact'
    <2> SUFFICES ASSUME TypeOK, CounterExact, [Next]_vars PROVE CounterExact'
      OBVIOUS
    <2>0. CountStep
      BY EveryCountStep
    <2>1. /\ active = Cardinality(InFlight) /\ active <= MaxConnections /\ active \in Nat
          /\ IsFiniteSet(InFlight)
      BY FS_Subset DEF CounterExact, InFlight, TypeOK
    <2>2. CASE InFlight' = InFlight /\ active' = active
      BY <2>1, <2>2 DEF CounterExact, InFlight
    <2>3. CASE \E c \in Conns \ InFlight :
                  InFlight' = InFlight \cup {c} /\ active < MaxConnections /\ active' = active + 1
      <3>1. PICK c \in Conns \ InFlight :
                  InFlight' = InFlight \cup {c} /\ active < MaxConnections /\ active' = active + 1
        BY <2>3
      <3>2. Cardinality(InFlight \cup {c}) = Cardinality(InFlight) + 1
        BY <2>1, <3>1, FS_AddElement
      <3>3. active' = Cardinality(InFlight') /\ active' <= MaxConnections
        BY <2>1, <3>1, <3>2
      <3> QED
        BY <3>3 DEF CounterExact, InFlight
    <2>4. CASE \E c \in InFlight :
                  InFlight' = InFlight \ {c} /\ active' = IF active > 0 THEN active - 1 ELSE active
      <3>1. PICK c \in InFlight :
                  InFlight' = InFlight \ {c} /\ active' = IF active > 0 THEN active - 1 ELSE active
        BY <2>4
      <3>2. Cardinality(InFlight \ {c}) = Cardinality(InFlight) - 1
        BY <2>1, <3>1, FS_RemoveElement
      <3>3. Cardinality(InFlight) > 0
        BY <2>1, <3>1, FS_EmptySet
      <3>4. active' = Cardinality(InFlight') /\ active' <= MaxConnections
        BY <2>1, <3>1, <3>2, <3>3
      <3> QED
        BY <3>4 DEF CounterExact, InFlight
    <2> QED
      BY <2>0, <2>2, <2>3, <2>4 DEF CountStep
  <1> QED
    BY <1>1, <1>2, TypeCorrect, PTL DEF Spec

-----------------------------------------------------------------------------
\* The life of one connection, the conjuncts of SocketInv.
SocketOK(c) ==
    /\ sock[c] \in {"none", "open"} => closes[c] = 0
    /\ sock[c] = "closed" => closes[c] = 1
    /\ thread[c] \in {"away", "backlog"} => sock[c] = "none"
    /\ Held(c) => sock[c] = "open"
    /\ thread[c] \in {"start", "header", "limit", "handshake", "route"} => sock[c] = "open"
    /\ thread[c] = "cleanup" => sock[c] # "none"
    /\ thread[c] \in {"unregister", "gone"} => sock[c] = "closed" /\ ssl[c] # "live"
    /\ thread[c] \in {"away", "backlog"} \/ Held(c) => ssl[c] = "none"

\* A step touches one connection at most and keeps that one in order.
LEMMA NextSocket == TypeOK /\ SocketInv /\ [Next]_vars => SocketInv'
  <1> SUFFICES ASSUME TypeOK, SocketInv, [Next]_vars PROVE SocketInv'
    OBVIOUS
  <1> USE DEF connVars, mainVars, cleanVars
  <1>0. \A c \in Conns : SocketOK(c)
    BY DEF SocketInv, SocketOK
  <1>1. ASSUME UNCHANGED <<thread, sock, closes, ssl>> PROVE SocketInv'
    BY <1>1 DEF SocketInv, Held
  <1>2. ASSUME NEW c \in Conns, SocketOK(c)',
               \A d \in Conns \ {c} : /\ thread'[d] = thread[d] /\ sock'[d] = sock[d]
                                      /\ closes'[d] = closes[d] /\ ssl'[d] = ssl[d]
        PROVE  SocketInv'
    <2>1. \A d \in Conns \ {c} : SocketOK(d)'
      BY <1>0, <1>2 DEF SocketOK, Held
    <2>2. \A d \in Conns : SocketOK(d)'
      BY <1>2, <2>1
    <2> QED
      BY <2>2 DEF SocketInv, SocketOK
  <1>3. ASSUME NEW c \in Conns, NEW k \in Kinds, Connect(c, k) PROVE SocketInv'
    <2>1. SocketOK(c)'
      BY <1>0, <1>3 DEF Connect, SocketOK, Held, TypeOK
    <2> QED
      BY <1>2, <1>3, <2>1 DEF Connect, TypeOK
  <1>4. CASE AcceptThread
    <2>1. CASE AcceptTest \/ AcceptFdSet \/ AcceptSelect \/ AcceptWoken \/ AcceptNext
      BY <1>1, <2>1 DEF AcceptTest, AcceptFdSet, AcceptSelect, AcceptWoken, AcceptNext
    <2>2. ASSUME NEW c \in Conns, AcceptConn(c) PROVE SocketInv'
      <3>1. closes[c] = 0
        BY <1>0, <2>2 DEF AcceptConn, SocketOK, SocketInv, TypeOK
      <3>2. SocketOK(c)'
        BY <1>0, <2>2, <3>1 DEF AcceptConn, SocketOK, Held, TypeOK
      <3> QED
        BY <1>2, <2>2, <3>2 DEF AcceptConn, TypeOK
    <2>3. ASSUME NEW c \in Conns, RateLimitedAtAccept(c) PROVE SocketInv'
      <3>1. SocketOK(c)'
        BY <1>0, <2>3 DEF RateLimitedAtAccept, Reject, SocketOK, Held, TypeOK
      <3> QED
        BY <1>2, <2>3, <3>1 DEF RateLimitedAtAccept, Reject, TypeOK
    <2>4. ASSUME NEW c \in Conns, TryRegisterConnection(c) PROVE SocketInv'
      <3>1. SocketOK(c)'
        BY <1>0, <2>4 DEF TryRegisterConnection, Reject, SocketOK, Held, TypeOK
      <3> QED
        BY <1>2, <2>4, <3>1 DEF TryRegisterConnection, Reject, TypeOK
    <2>5. ASSUME NEW c \in Conns, SpawnThread(c) PROVE SocketInv'
      <3>1. SocketOK(c)'
        BY <1>0, <2>5 DEF SpawnThread, Reject, SocketOK, Held, TypeOK
      <3> QED
        BY <1>2, <2>5, <3>1 DEF SpawnThread, Reject, TypeOK
    <2> QED
      BY <1>4, <2>1, <2>2, <2>3, <2>4, <2>5 DEF AcceptThread
  <1>5. ASSUME NEW c \in Conns, ConnThread(c) PROVE SocketInv'
    <2>1. CASE Start(c)
      <3>1. SocketOK(c)'
        BY <1>0, <2>1 DEF Start, Goto, AfterHeader, CloseRest, SocketOK, Held, TypeOK
      <3> QED
        BY <1>2, <2>1, <3>1 DEF Start, Goto, CloseRest, TypeOK
    <2>2. CASE ReadProxyHeader(c)
      <3>1. HeaderVerdict(c) \in {"limit", "handshake", "route", "cleanup"}
        BY DEF HeaderVerdict, AfterHeader
      <3>2. SocketOK(c)'
        BY <1>0, <2>2, <3>1 DEF ReadProxyHeader, Goto, SocketOK, Held, TypeOK
      <3> QED
        BY <1>2, <2>2, <3>2 DEF ReadProxyHeader, Goto, TypeOK
    <2>3. CASE RateLimitedVisitor(c)
      <3>1. SocketOK(c)'
        BY <1>0, <2>3 DEF RateLimitedVisitor, Goto, AfterHeader, SocketOK, Held, TypeOK
      <3> QED
        BY <1>2, <2>3, <3>1 DEF RateLimitedVisitor, Goto, TypeOK
    <2>4. CASE Handshake(c)
      <3>1. SocketOK(c)'
        BY <1>0, <2>4 DEF Handshake, Goto, SocketOK, Held, TypeOK
      <3> QED
        BY <1>2, <2>4, <3>1 DEF Handshake, Goto, TypeOK
    <2>5. CASE Route(c) \/ Cleanup(c)
      <3>1. SocketOK(c)'
        BY <1>0, <2>5 DEF Route, Cleanup, Goto, CloseRest, SocketOK, Held, TypeOK
      <3> QED
        BY <1>2, <2>5, <3>1 DEF Route, Cleanup, Goto, CloseRest, TypeOK
    <2>6. CASE Unregister(c)
      <3>1. SocketOK(c)'
        BY <1>0, <2>6 DEF Unregister, Goto, SocketOK, Held, TypeOK
      <3> QED
        BY <1>2, <2>6, <3>1 DEF Unregister, Goto, TypeOK
    <2> QED
      BY <1>5, <2>1, <2>2, <2>3, <2>4, <2>5, <2>6 DEF ConnThread
  <1>6. CASE CleanerThread
    BY <1>1, <1>6 DEF CleanerThread, CleanerTest, CleanerWait, CleanerWake, CleanerRetest,
                      CleanerSweep, CleanerGoto
  <1>7. CASE StopRunning \/ Stopping
    BY <1>1, <1>7 DEF StopRunning, Stopping, StopClose, StopJoinAccept, StopDrain,
                      StopDrainWake, StopDrainTimeout, StopFreeCtx, StopCleanup, StopSignal,
                      StopJoinCleanup, StopFreeTable
  <1>8. CASE UNCHANGED vars
    BY <1>1, <1>8 DEF vars
  <1> QED
    BY <1>3, <1>4, <1>5, <1>6, <1>7, <1>8 DEF Next

\* The socket of a connection is closed once, on every path through the accept
\* loop and the connection thread.
THEOREM ClosedOnceThm == Spec => []ClosedOnce
  <1>1. Init => SocketInv
    BY DEF Init, SocketInv, Held
  <1>2. TypeOK /\ SocketInv => ClosedOnce
    BY DEF SocketInv, ClosedOnce, TypeOK
  <1> QED
    BY <1>1, <1>2, NextSocket, TypeCorrect, PTL DEF Spec

-----------------------------------------------------------------------------
\* What the limiter has counted at each point of a connection's life.
ByPeer(c) == IF RateLimitAfterHeader(c) THEN {} ELSE {"peer"}
CountedOK(c) ==
    /\ thread[c] \in {"away", "backlog", "check"} => counted[c] = {}
    /\ thread[c] \in {"register", "spawn", "start", "header", "limit"} => counted[c] = ByPeer(c)
    /\ thread[c] \in {"header", "limit"} => ProxyProtocol
    /\ thread[c] = "limit" => kind[c].trusted /\ kind[c].header = "source"
    /\ thread[c] \in {"handshake", "route"} =>
          counted[c] = IF ~ProxyProtocol \/ ~kind[c].trusted THEN {"peer"}
                       ELSE IF kind[c].header = "source" THEN {"visitor"} ELSE {}
CountedInv == \A c \in Conns : CountedOK(c)

LEMMA NextCounted == TypeOK /\ CountedInv /\ [Next]_vars => CountedInv'
  <1> SUFFICES ASSUME TypeOK, CountedInv, [Next]_vars PROVE CountedInv'
    OBVIOUS
  <1> USE DEF connVars, mainVars, cleanVars
  <1>0. \A c \in Conns : CountedOK(c)
    BY DEF CountedInv
  <1>1. ASSUME UNCHANGED <<thread, kind, counted>> PROVE CountedInv'
    BY <1>0, <1>1 DEF CountedInv, CountedOK, ByPeer, RateLimitAfterHeader
  <1>2. ASSUME NEW c \in Conns, CountedOK(c)',
               \A d \in Conns \ {c} : /\ thread'[d] = thread[d] /\ kind'[d] = kind[d]
                                      /\ counted'[d] = counted[d]
        PROVE  CountedInv'
    <2>1. \A d \in Conns \ {c} : CountedOK(d)'
      BY <1>0, <1>2 DEF CountedOK, ByPeer, RateLimitAfterHeader
    <2> QED
      BY <1>2, <2>1 DEF CountedInv
  \* A connection that moves on and is not counted again.
  <1>3. ASSUME NEW c \in Conns, NEW there, Goto(c, there), UNCHANGED <<kind, counted>>,
               there \in {"gone", "cleanup", "unregister"}
        PROVE  CountedInv'
    <2>1. CountedOK(c)'
      BY <1>3 DEF Goto, TypeOK, CountedOK
    <2> QED
      BY <1>2, <1>3, <2>1 DEF Goto, TypeOK
  <1>4. ASSUME NEW c \in Conns, NEW k \in Kinds, Connect(c, k) PROVE CountedInv'
    <2>1. CountedOK(c)'
      BY <1>0, <1>4 DEF Connect, CountedOK, TypeOK
    <2> QED
      BY <1>2, <1>4, <2>1 DEF Connect, TypeOK
  <1>5. CASE AcceptThread
    <2>1. CASE AcceptTest \/ AcceptFdSet \/ AcceptSelect \/ AcceptWoken \/ AcceptNext
      BY <1>1, <2>1 DEF AcceptTest, AcceptFdSet, AcceptSelect, AcceptWoken, AcceptNext
    <2>2. ASSUME NEW c \in Conns, AcceptConn(c) PROVE CountedInv'
      <3>1. CountedOK(c)'
        BY <1>0, <2>2 DEF AcceptConn, CountedOK, TypeOK
      <3> QED
        BY <1>2, <2>2, <3>1 DEF AcceptConn, TypeOK
    <2>3. ASSUME NEW c \in Conns, RateLimitedAtAccept(c) PROVE CountedInv'
      <3>0. counted[c] = {} /\ UNCHANGED kind
        BY <1>0, <2>3 DEF RateLimitedAtAccept, CountedOK
      <3>1. counted'[c] = ByPeer(c)' /\ thread'[c] \in {"register", "gone"}
        <4>1. counted'[c] = IF RateLimitAfterHeader(c) THEN counted[c] ELSE counted[c] \cup {"peer"}
          BY <2>3 DEF RateLimitedAtAccept, TypeOK
        <4>2. counted'[c] = ByPeer(c)
          BY <3>0, <4>1 DEF ByPeer
        <4>3. ByPeer(c)' = ByPeer(c)
          BY <3>0 DEF ByPeer, RateLimitAfterHeader
        <4>4. thread'[c] \in {"register", "gone"}
          BY <2>3 DEF RateLimitedAtAccept, Reject, TypeOK
        <4> QED
          BY <4>2, <4>3, <4>4
      <3>2. CountedOK(c)'
        BY <3>1 DEF CountedOK
      <3> QED
        BY <1>2, <2>3, <3>2 DEF RateLimitedAtAccept, Reject, TypeOK
    <2>4. ASSUME NEW c \in Conns, TryRegisterConnection(c) \/ SpawnThread(c) PROVE CountedInv'
      <3>1. /\ thread[c] \in {"register", "spawn"} /\ UNCHANGED <<kind, counted>>
            /\ Goto(c, "spawn") \/ Goto(c, "start") \/ Goto(c, "gone")
        BY <2>4 DEF TryRegisterConnection, SpawnThread, Reject, Goto
      <3>2. CountedOK(c)'
        BY <1>0, <3>1 DEF Goto, CountedOK, ByPeer, RateLimitAfterHeader, TypeOK
      <3> QED
        BY <1>2, <3>1, <3>2 DEF Goto, TypeOK
    <2> QED
      BY <1>5, <2>1, <2>2, <2>3, <2>4 DEF AcceptThread
  <1>6. ASSUME NEW c \in Conns, ConnThread(c) PROVE CountedInv'
    <2>1. CASE Start(c)
      <3>1. /\ thread[c] = "start" /\ UNCHANGED <<kind, counted>>
            /\ Goto(c, IF ProxyProtocol THEN "header" ELSE AfterHeader(c)) \/ Goto(c, "unregister")
        BY <2>1 DEF Start
      <3>2. CountedOK(c)'
        BY <1>0, <3>1 DEF Goto, AfterHeader, CountedOK, ByPeer, RateLimitAfterHeader, TypeOK
      <3> QED
        BY <1>2, <3>1, <3>2 DEF Goto, TypeOK
    <2>2. CASE ReadProxyHeader(c)
      <3>1. /\ thread[c] = "header" /\ UNCHANGED <<kind, counted>> /\ Goto(c, HeaderVerdict(c))
            /\ ProxyProtocol /\ counted[c] = ByPeer(c)
        BY <1>0, <2>2 DEF ReadProxyHeader, CountedOK
      <3>2. CASE HeaderVerdict(c) = "cleanup"
        BY <1>3, <3>1, <3>2
      <3>3. CASE HeaderVerdict(c) = "limit" /\ kind[c].header = "source" /\ kind[c].trusted
        <4>1. CountedOK(c)'
          BY <3>1, <3>3 DEF Goto, CountedOK, ByPeer, RateLimitAfterHeader, TypeOK
        <4> QED
          BY <1>2, <3>1, <4>1 DEF Goto, TypeOK
      <3>4. CASE HeaderVerdict(c) = AfterHeader(c) /\ kind[c].header # "source"
        <4>1. CountedOK(c)'
          BY <3>1, <3>4 DEF Goto, AfterHeader, CountedOK, ByPeer, RateLimitAfterHeader, TypeOK
        <4> QED
          BY <1>2, <3>1, <4>1 DEF Goto, TypeOK
      <3> QED
        BY <3>2, <3>3, <3>4 DEF HeaderVerdict
    <2>3. CASE RateLimitedVisitor(c)
      <3>1. /\ thread[c] = "limit" /\ UNCHANGED kind
            /\ Goto(c, "cleanup") \/ Goto(c, AfterHeader(c))
            /\ counted' = [counted EXCEPT ![c] = @ \cup {"visitor"}]
        BY <2>3 DEF RateLimitedVisitor
      <3>2. counted[c] = {} /\ ProxyProtocol /\ kind[c].trusted /\ kind[c].header = "source"
        BY <1>0, <3>1 DEF CountedOK, ByPeer, RateLimitAfterHeader
      <3>3. counted'[c] = {"visitor"}
        BY <3>1, <3>2 DEF TypeOK
      <3>4. CountedOK(c)'
        BY <3>1, <3>2, <3>3 DEF Goto, AfterHeader, CountedOK, TypeOK
      <3> QED
        BY <1>2, <3>1, <3>4 DEF Goto, TypeOK
    <2>4. CASE Handshake(c)
      <3>1. /\ thread[c] = "handshake" /\ UNCHANGED <<kind, counted>>
            /\ Goto(c, "cleanup") \/ Goto(c, "route")
        BY <2>4 DEF Handshake
      <3>2. CountedOK(c)'
        BY <1>0, <3>1 DEF Goto, CountedOK, TypeOK
      <3> QED
        BY <1>2, <3>1, <3>2 DEF Goto, TypeOK
    <2>5. CASE Route(c) \/ Cleanup(c) \/ Unregister(c)
      BY <1>3, <2>5 DEF Route, Cleanup, Unregister
    <2> QED
      BY <1>6, <2>1, <2>2, <2>3, <2>4, <2>5 DEF ConnThread
  <1>7. CASE CleanerThread
    BY <1>1, <1>7 DEF CleanerThread, CleanerTest, CleanerWait, CleanerWake, CleanerRetest,
                      CleanerSweep, CleanerGoto
  <1>8. CASE StopRunning \/ Stopping
    BY <1>1, <1>8 DEF StopRunning, Stopping, StopClose, StopJoinAccept, StopDrain,
                      StopDrainWake, StopDrainTimeout, StopFreeCtx, StopCleanup, StopSignal,
                      StopJoinCleanup, StopFreeTable
  <1>9. CASE UNCHANGED vars
    BY <1>1, <1>9 DEF vars
  <1> QED
    BY <1>4, <1>5, <1>6, <1>7, <1>8, <1>9 DEF Next

\* A connection that is served was counted once, under its visitor's address,
\* whoever its peer is and whatever PROXY header it sent.
THEOREM CountedOnceThm == Spec => []CountedOnce
  <1>1. Init => CountedInv
    BY DEF Init, CountedInv, CountedOK
  <1>2. CountedInv => CountedOnce
    BY DEF CountedInv, CountedOK, CountedOnce
  <1> QED
    BY <1>1, <1>2, NextCounted, TypeCorrect, PTL DEF Spec

-----------------------------------------------------------------------------
\* The accept thread has an accepted connection in its hands only between
\* accept() and the next listener, and server_stop() has joined it before the
\* drain: from then on nobody registers a connection.
HeldInv == \A c \in Conns : Held(c) => acc.pc \in {"http", "https"}
BeforeJoin == {"serving", "close_http", "close_https", "join_accept"}
JoinInv == stop \notin BeforeJoin => acc.pc = "done"

\* Once the drain is over the count is 0 for good, unless it timed out.
DrainInv ==
    /\ stop = "free_ctx" \/ ctx = "freed" => drain.timedout \/ active = 0
    /\ ctx = "freed" => stop \notin BeforeJoin

LEMMA NextHeld == TypeOK /\ HeldInv /\ [Next]_vars => HeldInv'
  <1> SUFFICES ASSUME TypeOK, HeldInv, [Next]_vars PROVE HeldInv'
    OBVIOUS
  <1> USE DEF connVars, mainVars, cleanVars
  <1>1. ASSUME UNCHANGED acc, \A c \in Conns : Held(c)' => \E d \in Conns : Held(d) PROVE HeldInv'
    BY <1>1 DEF HeldInv
  <1>2. ASSUME UNCHANGED acc, NEW c \in Conns, NEW there, Goto(c, there),
               there \notin {"check", "register", "spawn"} \/ Held(c)
        PROVE  HeldInv'
    <2>1. \A d \in Conns : Held(d)' => Held(d) \/ (d = c /\ Held(c))
      BY <1>2 DEF Goto, Held, TypeOK
    <2> QED
      BY <1>1, <1>2, <2>1
  <1>3. ASSUME NEW c \in Conns, NEW k \in Kinds, Connect(c, k) PROVE HeldInv'
    BY <1>2, <1>3 DEF Connect, Goto
  <1>4. CASE AcceptThread
    <2>1. CASE AcceptTest \/ AcceptFdSet \/ AcceptSelect \/ AcceptWoken \/ AcceptNext
      <3>1. UNCHANGED thread /\ \A c \in Conns : ~Held(c)
        BY <2>1 DEF AcceptTest, AcceptFdSet, AcceptSelect, AcceptWoken, AcceptNext, HeldInv
      <3> QED
        BY <3>1 DEF HeldInv, Held
    <2>2. ASSUME NEW c \in Conns, AcceptConn(c) PROVE HeldInv'
      <3>1. acc'.pc = acc.pc /\ acc.pc \in {"http", "https"}
        BY <2>2 DEF AcceptConn, Listener, TypeOK
      <3> QED
        BY <3>1 DEF HeldInv
    <2>3. ASSUME NEW c \in Conns,
                 RateLimitedAtAccept(c) \/ TryRegisterConnection(c) \/ SpawnThread(c)
          PROVE  HeldInv'
      <3>1. Held(c) /\ UNCHANGED acc
        BY <2>3 DEF RateLimitedAtAccept, TryRegisterConnection, SpawnThread, Held
      <3>2. PICK there : Goto(c, there)
        BY <2>3 DEF RateLimitedAtAccept, TryRegisterConnection, SpawnThread, Reject, Goto
      <3> QED
        BY <1>2, <3>1, <3>2
    <2> QED
      BY <1>4, <2>1, <2>2, <2>3 DEF AcceptThread
  <1>5. ASSUME NEW c \in Conns, ConnThread(c) PROVE HeldInv'
    <2>1. UNCHANGED acc
      BY <1>5 DEF ConnThread, Start, ReadProxyHeader, RateLimitedVisitor, Handshake, Route,
                  Cleanup, Unregister
    <2>2. PICK there \in InThread \cup {"gone"} : Goto(c, there)
      BY <1>5 DEF ConnThread, Start, ReadProxyHeader, RateLimitedVisitor, Handshake, Route,
                  Cleanup, Unregister, HeaderVerdict, AfterHeader, InThread
    <2>3. there \notin {"check", "register", "spawn"}
      BY <2>2 DEF InThread
    <2> QED
      BY <1>2, <2>1, <2>2, <2>3
  <1>6. CASE CleanerThread
    BY <1>6 DEF CleanerThread, CleanerTest, CleanerWait, CleanerWake, CleanerRetest,
                CleanerSweep, CleanerGoto, HeldInv, Held
  <1>7. CASE StopRunning \/ Stopping
    BY <1>7 DEF StopRunning, Stopping, StopClose, StopJoinAccept, StopDrain, StopDrainWake,
                StopDrainTimeout, StopFreeCtx, StopCleanup, StopSignal, StopJoinCleanup,
                StopFreeTable, HeldInv, Held
  <1>8. CASE UNCHANGED vars
    BY <1>8 DEF vars, HeldInv, Held
  <1> QED
    BY <1>3, <1>4, <1>5, <1>6, <1>7, <1>8 DEF Next

LEMMA NextJoin == TypeOK /\ HeldInv /\ JoinInv /\ [Next]_vars => JoinInv'
  <1> SUFFICES ASSUME TypeOK, HeldInv, JoinInv, [Next]_vars PROVE JoinInv'
    OBVIOUS
  <1> USE DEF connVars, mainVars, cleanVars, JoinInv
  <1>1. ASSUME NEW c \in Conns, NEW k \in Kinds, Connect(c, k) PROVE JoinInv'
    BY <1>1 DEF Connect
  <1>2. CASE AcceptThread
    <2>1. UNCHANGED stop /\ (acc' = acc \/ acc.pc # "done")
      BY <1>2 DEF AcceptThread, AcceptTest, AcceptFdSet, AcceptSelect, AcceptWoken, AcceptNext,
                  AcceptConn, Listener, RateLimitedAtAccept, TryRegisterConnection, SpawnThread
    <2> QED
      BY <2>1
  <1>3. ASSUME NEW c \in Conns, ConnThread(c) PROVE JoinInv'
    BY <1>3 DEF ConnThread, Start, ReadProxyHeader, RateLimitedVisitor, Handshake, Route,
                Cleanup, Unregister
  <1>4. CASE CleanerThread
    BY <1>4 DEF CleanerThread, CleanerTest, CleanerWait, CleanerWake, CleanerRetest,
                CleanerSweep, CleanerGoto
  <1>5. CASE StopRunning \/ Stopping
    BY <1>5 DEF StopRunning, Stopping, StopClose, StopJoinAccept, StopDrain, StopDrainWake,
                StopDrainTimeout, StopFreeCtx, StopCleanup, StopSignal, StopJoinCleanup,
                StopFreeTable, StopGoto, BeforeJoin
  <1>6. CASE UNCHANGED vars
    BY <1>6 DEF vars
  <1> QED
    BY <1>1, <1>2, <1>3, <1>4, <1>5, <1>6 DEF Next

LEMMA NextDrain == TypeOK /\ HeldInv /\ JoinInv /\ DrainInv /\ [Next]_vars => DrainInv'
  <1> SUFFICES ASSUME TypeOK, HeldInv, JoinInv, DrainInv, [Next]_vars PROVE DrainInv'
    OBVIOUS
  <1> USE DEF connVars, mainVars, cleanVars, DrainInv
  <1>0. stop = "free_ctx" \/ ctx = "freed" => \A c \in Conns : ~Held(c)
    BY DEF JoinInv, HeldInv, BeforeJoin
  <1>1. ASSUME UNCHANGED <<ctx, stop>>, drain.timedout => drain'.timedout,
               stop = "free_ctx" \/ ctx = "freed" => (active = 0 => active' = 0)
        PROVE  DrainInv'
    BY <1>1
  <1>2. ASSUME UnregisterConnection
        PROVE  (drain.timedout => drain'.timedout) /\ (active = 0 => active' = 0)
    <2>1. drain'.timedout = drain.timedout
      <3>1. PICK b : drain' = [drain EXCEPT !.signalled = b]
        BY <1>2, Zenon DEF UnregisterConnection
      <3> QED
        BY <3>1 DEF TypeOK
    <2>2. active = 0 => active' = 0
      BY <1>2 DEF UnregisterConnection
    <2> QED
      BY <2>1, <2>2
  <1>3. ASSUME NEW c \in Conns, NEW k \in Kinds, Connect(c, k) PROVE DrainInv'
    BY <1>1, <1>3 DEF Connect
  <1>4. CASE AcceptThread
    <2>1. CASE UNCHANGED <<active, drain, ctx, stop>>
      BY <1>1, <2>1
    <2>2. ASSUME NEW c \in Conns, TryRegisterConnection(c) \/ SpawnThread(c) PROVE DrainInv'
      <3>1. UNCHANGED <<ctx, stop>> /\ Held(c)
        BY <2>2 DEF TryRegisterConnection, SpawnThread, Held
      <3>2. ~(stop = "free_ctx" \/ ctx = "freed")
        BY <1>0, <3>1
      <3> QED
        BY <3>1, <3>2
    <2> QED
      BY <1>4, <2>1, <2>2 DEF AcceptThread, AcceptTest, AcceptFdSet, AcceptSelect, AcceptWoken,
                              AcceptNext, AcceptConn, RateLimitedAtAccept
  <1>5. ASSUME NEW c \in Conns, ConnThread(c) PROVE DrainInv'
    <2>1. CASE Unregister(c)
      BY <1>1, <1>2, <2>1 DEF Unregister
    <2>2. CASE UNCHANGED <<active, drain, ctx, stop>>
      BY <1>1, <2>2
    <2> QED
      BY <1>5, <2>1, <2>2 DEF ConnThread, Start, ReadProxyHeader, RateLimitedVisitor, Handshake,
                              Route, Cleanup
  <1>6. CASE CleanerThread
    BY <1>1, <1>6 DEF CleanerThread, CleanerTest, CleanerWait, CleanerWake, CleanerRetest,
                      CleanerSweep, CleanerGoto
  <1>7. CASE StopDrain
    <2>1. active \in Nat /\ UNCHANGED <<active, ctx>> /\ drain'.timedout = drain.timedout
      BY <1>7 DEF StopDrain, TypeOK
    <2>2. stop = "drain" /\ stop' \in {"drain_wait", "free_ctx"} /\ (stop' = "free_ctx" => ~(active > 0))
      BY <1>7 DEF StopDrain, StopGoto
    <2> QED
      BY <2>1, <2>2 DEF BeforeJoin
  <1>8. CASE StopDrainTimeout
    <2>1. drain'.timedout = TRUE /\ stop' = "free_ctx" /\ ctx' = ctx
      BY <1>8 DEF StopDrainTimeout, StopGoto, TypeOK
    <2> QED
      BY <2>1 DEF BeforeJoin
  <1>9. CASE StopRunning \/ StopClose \/ StopJoinAccept \/ StopDrainWake \/ StopFreeCtx
             \/ StopCleanup \/ StopSignal \/ StopJoinCleanup \/ StopFreeTable
    BY <1>9 DEF StopRunning, StopClose, StopJoinAccept, StopDrainWake, StopFreeCtx, StopCleanup,
                StopSignal, StopJoinCleanup, StopFreeTable, StopGoto, BeforeJoin
  <1>10. CASE UNCHANGED vars
    BY <1>1, <1>10 DEF vars
  <1> QED
    BY <1>3, <1>4, <1>5, <1>6, <1>7, <1>8, <1>9, <1>10 DEF Next, Stopping

\* ssl_ctx is freed only when no connection is counted and none has an SSL
\* object, or after the drain timed out: the accept thread, which could add
\* one, has been joined, and a connection with an SSL object is counted.
THEOREM DrainedBeforeFreeThm == Spec => []DrainedBeforeFree
  <1>1. Init => HeldInv /\ JoinInv /\ DrainInv /\ SocketInv
    <2> SUFFICES ASSUME Init PROVE HeldInv /\ JoinInv /\ DrainInv /\ SocketInv
      OBVIOUS
    <2>1. HeldInv /\ SocketInv
      BY DEF Init, HeldInv, SocketInv, Held
    <2>2. JoinInv /\ DrainInv
      BY DEF Init, JoinInv, DrainInv, BeforeJoin
    <2> QED
      BY <2>1, <2>2
  <1>2. TypeOK /\ SocketInv /\ CounterExact /\ DrainInv => DrainedBeforeFree
    <2> SUFFICES ASSUME TypeOK, SocketInv, CounterExact, DrainInv, ctx = "freed", active = 0
                 PROVE  \A c \in Conns : ssl[c] # "live"
      BY DEF DrainedBeforeFree, DrainInv
    <2>1. IsFiniteSet(InFlight) /\ Cardinality(InFlight) = 0
      BY ServerAssumption, FS_Subset DEF InFlight, CounterExact
    <2>2. InFlight = {}
      BY <2>1, FS_EmptySet
    <2>3. TAKE c \in Conns
    <2>4. thread[c] \in {"away", "backlog", "check", "register", "gone"}
      BY <2>2 DEF InFlight, Registered, TypeOK
    <2> QED
      BY <2>4 DEF SocketInv, Held
  <1> QED
    BY <1>1, <1>2, NextHeld, NextJoin, NextDrain, NextSocket, TypeCorrect, CounterExactThm, PTL DEF Spec
-----------------------------------------------------------------------------
(* SplitIndependent: the reading of one request.                           *)

Stages == {"head", "poll", "length", "body", "parse", "end"}

\* The whole stream of m, and what its n-th unit is.
StreamLen(m) == m.heads + IF m.ends = "never" THEN 2 ELSE 3 + m.body
Unit(m, i) ==
    CASE i = 1            -> "text"
      [] i = 2            -> "eol"
      [] i \in 3 .. 2 + m.heads -> "head"
      [] i = 3 + m.heads  -> "blank"
      [] OTHER            -> "body"

\* The blank line is among the first n units.
BlankRead(n) == message.ends # "never" /\ HeadSize(message) <= n

\* Why the header loop may have ended: the client is done with the header, or the
\* server with waiting for it.
HeadOver ==
    /\ read \in 2 .. HeadRoom
    /\ \/ paused \/ BlankRead(read) \/ message.line = "simple"
       \/ Versioned(message) /\ ~secure /\ (read = HeadRoom \/ read = StreamLen(message))

BodyTaken ==
    /\ BlankRead(read) /\ message.ends = "crlf" /\ HeadSize(message) <= HeadRoom
    /\ message.length <= BodyCap
    /\ message.length > NoLength => read = HeadSize(message) + message.length

ReqIInv ==
    /\ message \in Messages /\ secure \in BOOLEAN /\ paused \in BOOLEAN
    /\ read \in 0 .. StreamLen(message) /\ stage \in Stages
    /\ stage # "end" => answer = Pending
    /\ stage \in {"head", "poll"} =>
          read <= HeadRoom /\ ~BlankRead(read) /\ ~(message.line = "simple" /\ read >= 2)
    /\ stage = "poll" => Versioned(message) /\ ~secure /\ read >= 2
    /\ stage = "length" => HeadOver
    /\ stage = "body" =>
          /\ BlankRead(read) /\ message.ends = "crlf" /\ HeadSize(message) <= HeadRoom
          /\ message.length \in 1 .. BodyCap /\ read < HeadSize(message) + message.length
    /\ stage = "parse" => BodyTaken \/ (HeadOver /\ ~HasHeadEnd)
    /\ stage = "end" => SplitIndependent

Units == {"text", "eol", "head", "blank", "body"}

LEMMA UnitsAre == "text" \in Units /\ "eol" \in Units /\ "head" \in Units /\ "blank" \in Units /\ "body" \in Units
  BY DEF Units

LEMMA RepeatSeq ==
  ASSUME NEW u \in Units, NEW n \in Nat
  PROVE  Repeat(u, n) \in Seq(Units) /\ Len(Repeat(u, n)) = n /\ \A i \in 1 .. n : Repeat(u, n)[i] = u
  <1>1. PICK r : r = Repeat(u, n)
    OBVIOUS
  <1>2. r \in [1 .. n -> Units] /\ \A i \in 1 .. n : r[i] = u
    BY <1>1 DEF Repeat
  <1>3. r \in Seq(Units)
    BY <1>2, SeqDef
  <1>4. Len(r) = n
    BY <1>2, <1>3, LenProperties
  <1> QED
    BY <1>1, <1>2, <1>3, <1>4

LEMMA MessageParts ==
  ASSUME NEW m \in Messages
  PROVE  /\ m.heads \in Nat /\ m.body \in Nat /\ m.length \in Int /\ m.length >= NoLength
         /\ m.ends \in {"crlf", "lf", "never"} /\ m.line \in {"http", "simple", "other", "word"} /\ m.lines \in BOOLEAN
         /\ HeadSize(m) = 3 + m.heads /\ StreamLen(m) \in Nat /\ StreamLen(m) >= 2
         /\ m.ends = "never" \/ m.line = "simple" => m.body = 0 /\ m.length = NoLength
         /\ StreamLen(m) = m.heads + (IF m.ends = "never" THEN 2 ELSE 3 + m.body)
  BY RequestsAssumption DEF Messages, HeadSize, StreamLen, NoLength

\* What the stream of a message is, unit by unit.
LEMMA StreamUnits ==
  ASSUME NEW m \in Messages
  PROVE  Len(Stream(m)) = StreamLen(m) /\ \A i \in 1 .. StreamLen(m) : Stream(m)[i] = Unit(m, i)
  <1>1. PICK heads, rest : heads = Repeat("head", m.heads) /\ rest = Repeat("body", m.body)
    OBVIOUS
  <1>2. PICK blank : blank = (IF m.ends = "never" THEN <<>> ELSE <<"blank">>)
    OBVIOUS
  <1>3. heads \in Seq(Units) /\ Len(heads) = m.heads /\ \A i \in 1 .. m.heads : heads[i] = "head"
    <2>1. m.heads \in Nat
      BY MessageParts
    <2> QED
      BY <1>1, <2>1, RepeatSeq, UnitsAre
  <1>4. rest \in Seq(Units) /\ Len(rest) = m.body /\ \A i \in 1 .. m.body : rest[i] = "body"
    <2>1. m.body \in Nat
      BY MessageParts
    <2> QED
      BY <1>1, <2>1, RepeatSeq, UnitsAre
  <1>5. blank \in Seq(Units) /\ Len(blank) = (IF m.ends = "never" THEN 0 ELSE 1) /\ (m.ends # "never" => blank[1] = "blank")
    <2>1. <<>> \in Seq(Units) /\ Len(<<>>) = 0
      BY EmptySeq
    <2>2. <<"blank">> \in Seq(Units) /\ Len(<<"blank">>) = 1 /\ <<"blank">>[1] = "blank"
      BY UnitsAre
    <2> QED
      BY <1>2, <2>1, <2>2
  <1>6. Stream(m) = <<"text", "eol">> \o heads \o blank \o rest
    BY <1>1, <1>2 DEF Stream
  <1>7. PICK s1 \in Seq(Units) : s1 = <<"text", "eol">> \o heads
    <2>1. <<"text", "eol">> \in Seq(Units)
      BY UnitsAre
    <2> QED
      BY <1>3, <2>1, ConcatProperties
  <1>8. Len(s1) = 2 + m.heads /\ \A i \in 1 .. 2 + m.heads : s1[i] = Unit(m, i)
    <2>1. PICK two \in Seq(Units) : two = <<"text", "eol">>
      <3>1. <<"text", "eol">> \in Seq(Units)
        BY UnitsAre
      <3> QED
        BY <3>1
    <2>2. Len(two) = 2 /\ two[1] = "text" /\ two[2] = "eol"
      BY <2>1
    <2>3. /\ Len(s1) = 2 + m.heads
          /\ \A i \in 1 .. 2 + m.heads : s1[i] = IF i <= 2 THEN two[i] ELSE heads[i - 2]
      BY <1>3, <1>7, <2>1, <2>2, ConcatProperties
    <2>4. m.heads \in Nat
      BY MessageParts
    <2>5. ASSUME NEW i \in 1 .. 2 + m.heads PROVE s1[i] = Unit(m, i)
      <3>1. CASE i <= 2
        BY <2>2, <2>3, <2>4, <3>1 DEF Unit
      <3>2. CASE i > 2
        <4>1. i - 2 \in 1 .. m.heads /\ i \in 3 .. 2 + m.heads
          BY <2>4, <3>2
        <4>2. s1[i] = heads[i - 2]
          BY <2>3, <3>2, <4>1
        <4>3. heads[i - 2] = "head"
          BY <1>3, <4>1
        <4>4. i # 1 /\ i # 2 /\ i \in 3 .. 2 + m.heads /\ i # 3 + m.heads
          BY <2>4, <4>1
        <4>5. Unit(m, i) = "head"
          BY <4>4 DEF Unit
        <4> QED
          BY <4>2, <4>3, <4>5
      <3> QED
        BY <2>4, <3>1, <3>2
    <2> QED
      BY <2>3, <2>5
  <1>9. PICK s2 \in Seq(Units) : s2 = s1 \o blank
    BY <1>5, ConcatProperties
  <1>10. Len(s2) = 2 + m.heads + (IF m.ends = "never" THEN 0 ELSE 1) /\ \A i \in 1 .. Len(s2) : s2[i] = Unit(m, i)
    <2>1. /\ Len(s2) = Len(s1) + Len(blank)
          /\ \A i \in 1 .. Len(s1) + Len(blank) : s2[i] = IF i <= Len(s1) THEN s1[i] ELSE blank[i - Len(s1)]
      BY <1>5, <1>9, ConcatProperties
    <2>2. m.ends # "never" => Unit(m, 3 + m.heads) = "blank"
      BY MessageParts DEF Unit
    <2>3. m.heads \in Nat
      BY MessageParts
    <2>4. Len(s1) = 2 + m.heads
      BY <1>8
    <2>5. CASE m.ends = "never"
      BY <1>5, <1>8, <2>1, <2>3, <2>5
    <2>6. CASE m.ends # "never"
      <3>1. Len(s2) = 3 + m.heads
        BY <1>5, <2>1, <2>3, <2>4, <2>6
      <3>2. s2[3 + m.heads] = "blank"
        BY <1>5, <2>1, <2>3, <2>4, <2>6
      <3>3. \A i \in 1 .. 2 + m.heads : s2[i] = Unit(m, i)
        BY <1>5, <1>8, <2>1, <2>3, <2>4, <2>6
      <3>4. \A i \in 1 .. 3 + m.heads : i = 3 + m.heads \/ i \in 1 .. 2 + m.heads
        BY <2>3
      <3> QED
        BY <2>2, <2>3, <2>6, <3>1, <3>2, <3>3, <3>4
    <2> QED
      BY <2>5, <2>6
  <1>11. m.ends = "never" => m.body = 0
    BY MessageParts
  <1>12. Stream(m) = s2 \o rest
    BY <1>6, <1>7, <1>9
  <1>13. /\ Len(Stream(m)) = Len(s2) + m.body
         /\ \A i \in 1 .. Len(s2) + m.body : Stream(m)[i] = IF i <= Len(s2) THEN s2[i] ELSE rest[i - Len(s2)]
    BY <1>4, <1>12, ConcatProperties
  <1>14. Len(s2) + m.body = StreamLen(m)
    <2>1. m.heads \in Nat /\ m.body \in Nat
      BY MessageParts
    <2>2. CASE m.ends = "never"
      BY <1>10, <1>11, <2>1, <2>2 DEF StreamLen
    <2>3. CASE m.ends # "never"
      <3>1. StreamLen(m) = m.heads + (3 + m.body)
        BY <2>3 DEF StreamLen
      <3>2. Len(s2) = 2 + m.heads + 1
        BY <1>10, <2>3
      <3>3. PICK h \in Nat, b \in Nat : h = m.heads /\ b = m.body
        BY <2>1
      <3>4. (2 + h + 1) + b = h + (3 + b)
        OBVIOUS
      <3> QED
        BY <3>1, <3>2, <3>3, <3>4
    <2> QED
      BY <2>2, <2>3
  <1>15. ASSUME NEW i \in 1 .. StreamLen(m), i > Len(s2) PROVE Stream(m)[i] = Unit(m, i)
    <2>1. i - Len(s2) \in 1 .. m.body
      BY <1>10, <1>14, <1>15, MessageParts
    <2>2. Unit(m, i) = "body"
      BY <1>10, <1>11, <1>15, <2>1, MessageParts DEF Unit
    <2> QED
      BY <1>4, <1>13, <1>14, <1>15, <2>1, <2>2
  <1> QED
    BY <1>10, <1>13, <1>14, <1>15

LEMMA SeesUnits ==
  ASSUME message \in Messages, NEW n \in 0 .. StreamLen(message)
  PROVE  (Sees("eol", n) <=> n >= 2) /\ (Sees("blank", n) <=> BlankRead(n))
  <1>1. \A i \in 1 .. n : Stream(message)[i] = Unit(message, i)
    BY StreamUnits, MessageParts
  <1>2. ASSUME NEW i \in 1 .. n PROVE (Unit(message, i) = "eol" <=> i = 2) /\ (Unit(message, i) = "blank" => i = 3 + message.heads)
    BY <1>2, MessageParts DEF Unit
  <1>3. Unit(message, 3 + message.heads) = "blank"
    BY MessageParts DEF Unit
  <1>4. Sees("eol", n) <=> n >= 2
    BY <1>1, <1>2, MessageParts DEF Sees
  <1>5. message.ends = "never" => n <= 2 + message.heads
    BY MessageParts
  <1>6. Sees("blank", n) <=> BlankRead(n)
    BY <1>1, <1>2, <1>3, <1>5, MessageParts DEF Sees, BlankRead
  <1> QED
    BY <1>4, <1>6

\* How many header lines, and whether body lines, the parser finds.
LEMMA HeadersFound ==
  ASSUME message \in Messages, read \in 2 .. StreamLen(message)
  PROVE  /\ HeadersIn("head") = IF read <= 2 + message.heads THEN read - 2 ELSE message.heads
         /\ HeadersIn("body") > 0 <=> read > HeadSize(message)
  <1>1. \A i \in 1 .. read : Stream(message)[i] = Unit(message, i)
    BY StreamUnits, MessageParts
  <1>2. PICK h : h = IF read <= 2 + message.heads THEN read ELSE 2 + message.heads
    OBVIOUS
  <1>3. h \in Int /\ h >= 2
    BY <1>2, MessageParts
  <1>4. {i \in 1 .. read : Stream(message)[i] = "head"} = 3 .. h
    <2>1. \A i \in 1 .. read : Unit(message, i) = "head" <=> i \in 3 .. 2 + message.heads
      BY MessageParts DEF Unit
    <2> QED
      BY <1>1, <1>2, <2>1, MessageParts
  <1>5. HeadersIn("head") = h - 2
    <2>1. HeadersIn("head") = Cardinality(3 .. h)
      BY <1>4 DEF HeadersIn
    <2>2. Cardinality(3 .. h) = IF 3 > h THEN 0 ELSE h - 3 + 1
      BY <1>3, FS_Interval
    <2> QED
      BY <1>3, <2>1, <2>2
  <1>6. {i \in 1 .. read : Stream(message)[i] = "body"} = 4 + message.heads .. read
    <2>1. \A i \in 1 .. read : Unit(message, i) = "body" <=> i >= 4 + message.heads
      BY MessageParts DEF Unit
    <2> QED
      BY <1>1, <2>1, MessageParts
  <1>7. HeadersIn("body") > 0 <=> read > HeadSize(message)
    <2>1. 4 + message.heads \in Int /\ read \in Int
      BY MessageParts
    <2>2. Cardinality(4 + message.heads .. read) = IF 4 + message.heads > read THEN 0 ELSE read - (4 + message.heads) + 1
      BY <2>1, FS_Interval
    <2>3. HeadersIn("body") = Cardinality(4 + message.heads .. read)
      BY <1>6 DEF HeadersIn
    <2> QED
      BY <2>1, <2>2, <2>3, MessageParts
  <1> QED
    BY <1>2, <1>5, <1>7, MessageParts

LEMMA ReqInitially == ReqInit => ReqIInv
  <1>1. SUFFICES ASSUME ReqInit PROVE ReqIInv
    OBVIOUS
  <1>2. message \in Messages /\ read = 0 /\ stage = "head" /\ answer = Pending /\ paused = FALSE /\ secure \in BOOLEAN
    BY <1>1 DEF ReqInit
  <1>3. 0 \in 0 .. StreamLen(message) /\ ~BlankRead(0) /\ 0 <= HeadRoom
    BY <1>2, MessageParts, RequestsAssumption DEF BlankRead
  <1>4. read \in 0 .. StreamLen(message) /\ ~BlankRead(read) /\ read <= HeadRoom /\ ~(read >= 2)
    BY <1>2, <1>3
  <1>5. paused \in BOOLEAN
    BY <1>2
  <1> QED
    BY <1>2, <1>4, <1>5 DEF ReqIInv, Stages

LEMMA ReadHeadKept ==
  ASSUME ReqIInv, ReadHead
  PROVE  ReqIInv'
  <1>1. /\ message \in Messages /\ secure \in BOOLEAN /\ paused \in BOOLEAN /\ read \in 0 .. StreamLen(message) /\ answer = Pending
        /\ stage = "head" /\ read < HeadRoom /\ UNCHANGED <<message, secure, paused>>
    BY DEF ReqIInv, ReadHead
  <1>2. PICK n \in read + 1 .. HeadRoom :
            /\ n <= Len(Stream(message)) /\ read' = n
            /\ stage' = IF AfterRead(n) = "431" THEN "end" ELSE AfterRead(n)
            /\ answer' = IF AfterRead(n) = "431" THEN Status("431") ELSE answer
    BY DEF ReadHead
  <1>3. n \in 1 .. StreamLen(message) /\ n <= HeadRoom /\ n \in 0 .. StreamLen(message)
    BY <1>1, <1>2, StreamUnits, MessageParts, RequestsAssumption
  <1>4. (Sees("eol", n) <=> n >= 2) /\ (Sees("blank", n) <=> BlankRead(n))
    BY <1>1, <1>3, SeesUnits
  <1>5. BlankRead(n)' <=> BlankRead(n)
    BY <1>1 DEF BlankRead
  <1>6. BlankRead(n) => n >= 3
    BY <1>1, <1>3, MessageParts DEF BlankRead
  <1>7. CASE AfterRead(n) = "length"
    <2>1. n >= 2 /\ (BlankRead(n) \/ message.line = "simple")
      BY <1>4, <1>6, <1>7 DEF AfterRead
    <2>2. HeadOver'
      BY <1>1, <1>2, <1>3, <2>1 DEF HeadOver, BlankRead
    <2> QED
      BY <1>1, <1>2, <1>3, <1>7, <2>2 DEF ReqIInv, Stages, StreamLen
  <1>8. CASE AfterRead(n) = "poll"
    <2>1. Sees("eol", n) /\ ~Sees("blank", n) /\ Versioned(message) /\ ~secure
      BY <1>8 DEF AfterRead
    <2>2. n >= 2 /\ ~BlankRead(n) /\ message.line # "simple"
      BY <1>4, <2>1 DEF Versioned
    <2> QED
      BY <1>1, <1>2, <1>3, <1>5, <1>8, <2>1, <2>2 DEF ReqIInv, Stages, StreamLen, BlankRead, Versioned
  <1>9. CASE AfterRead(n) = "head"
    <2>1. ~BlankRead(n) /\ ~(message.line = "simple" /\ n >= 2)
      BY <1>4, <1>9 DEF AfterRead
    <2> QED
      BY <1>1, <1>2, <1>3, <1>5, <1>9, <2>1 DEF ReqIInv, Stages, StreamLen, BlankRead
  <1>10. CASE AfterRead(n) = "431"
    <2>1. n = HeadRoom /\ ~BlankRead(n) /\ ~(message.line = "simple" /\ n >= 2) /\ ~(Versioned(message) /\ ~secure /\ n >= 2)
      <3>1. /\ n >= HeadRoom /\ ~Sees("blank", n) /\ ~(Sees("eol", n) /\ message.line = "simple")
            /\ ~(Sees("eol", n) /\ Versioned(message) /\ ~secure)
        BY <1>10 DEF AfterRead
      <3> QED
        BY <1>3, <1>4, <3>1, RequestsAssumption
    <2>2. message.line = "word" \/ (Versioned(message) /\ secure)
      BY <1>1, <2>1, MessageParts, RequestsAssumption DEF Versioned
    <2>3. HeadSize(message) > HeadRoom
      BY <1>1, <1>3, <2>1, MessageParts DEF BlankRead
    <2>4. Meaning(message, secure) = Status("431")
      BY <2>2, <2>3 DEF Meaning
    <2>5. SplitIndependent'
      BY <1>1, <1>2, <1>10, <2>4 DEF SplitIndependent, Meaning, CutByTheNetwork, Versioned, HeadSize
    <2> QED
      BY <1>1, <1>2, <1>3, <1>10, <2>5 DEF ReqIInv, Stages, StreamLen
  <1> QED
    BY <1>7, <1>8, <1>9, <1>10 DEF AfterRead

LEMMA PollKept ==
  ASSUME ReqIInv, PollIdle \/ PollMore
  PROVE  ReqIInv'
  <1>1. /\ message \in Messages /\ secure \in BOOLEAN /\ paused \in BOOLEAN /\ read \in 0 .. StreamLen(message) /\ answer = Pending
        /\ stage = "poll" /\ UNCHANGED <<message, secure, read, answer>>
        /\ read <= HeadRoom /\ ~BlankRead(read) /\ message.line # "simple" /\ Versioned(message) /\ ~secure /\ read >= 2
    BY DEF ReqIInv, PollIdle, PollMore, Versioned
  <1>2. Len(Stream(message)) = StreamLen(message) /\ read \in 2 .. HeadRoom
    BY <1>1, StreamUnits, MessageParts, RequestsAssumption
  <1>3. CASE PollIdle
    <2>1. stage' = "length" /\ paused' = (paused \/ read < StreamLen(message))
      BY <1>2, <1>3 DEF PollIdle
    <2>2. HeadOver'
      <3>0. StreamLen(message) \in Nat
        BY <1>1, MessageParts
      <3>1. paused' \/ read = StreamLen(message)
        <4>1. read < StreamLen(message) \/ read = StreamLen(message)
          BY <1>1, <3>0
        <4> QED
          BY <2>1, <4>1, Zenon
      <3>2. StreamLen(message)' = StreamLen(message) /\ Versioned(message)' /\ ~secure' /\ read' \in 2 .. HeadRoom
        BY <1>1, <1>2 DEF StreamLen, Versioned
      <3> QED
        BY <1>1, <3>1, <3>2 DEF HeadOver
    <2>3. paused' \in BOOLEAN
      BY <1>1, <2>1
    <2> QED
      BY <1>1, <2>1, <2>2, <2>3 DEF ReqIInv, Stages, StreamLen
  <1>4. CASE PollMore
    <2>1. stage' = (IF read < HeadRoom THEN "head" ELSE "length") /\ paused' = paused
      BY <1>4 DEF PollMore
    <2>2. CASE read < HeadRoom
      BY <1>1, <2>1, <2>2 DEF ReqIInv, Stages, StreamLen, BlankRead
    <2>3. CASE ~(read < HeadRoom)
      <3>1. HeadOver'
        BY <1>1, <1>2, <2>1, <2>3, RequestsAssumption DEF HeadOver, Versioned
      <3> QED
        BY <1>1, <2>1, <2>3, <3>1 DEF ReqIInv, Stages, StreamLen
    <2> QED
      BY <2>2, <2>3
  <1> QED
    BY <1>3, <1>4

LEMMA ReadFailsKept ==
  ASSUME ReqIInv, ReadFails
  PROVE  ReqIInv'
  <1>1. SplitIndependent'
    BY DEF ReadFails, SplitIndependent, Status, Pending
  <1> QED
    BY <1>1 DEF ReqIInv, ReadFails, Stages, StreamLen

LEMMA BlankIs ==
  ASSUME message \in Messages, read \in 0 .. StreamLen(message)
  PROVE  HasHeadEnd <=> message.ends = "crlf" /\ BlankRead(read)
  BY SeesUnits DEF HasHeadEnd

LEMMA TakeLengthKept ==
  ASSUME ReqIInv, TakeLength
  PROVE  ReqIInv'
  <1>1. /\ message \in Messages /\ secure \in BOOLEAN /\ paused \in BOOLEAN /\ read \in 0 .. StreamLen(message) /\ answer = Pending
        /\ stage = "length" /\ UNCHANGED <<message, secure, paused>> /\ HeadOver
    BY DEF ReqIInv, TakeLength
  <1>2. read \in 2 .. HeadRoom
    BY <1>1 DEF HeadOver
  <1>3. CASE ~HasHeadEnd
    <2>1. stage' = "parse" /\ UNCHANGED <<read, answer>>
      BY <1>3 DEF TakeLength
    <2>2. HeadOver' /\ ~HasHeadEnd'
      BY <1>1, <1>3, <2>1 DEF HeadOver, HasHeadEnd, BlankRead, Versioned, StreamLen, Sees
    <2> QED
      BY <1>1, <2>1, <2>2 DEF ReqIInv, Stages, StreamLen
  <1>4. CASE HasHeadEnd
    <2>1. message.ends = "crlf" /\ BlankRead(read) /\ HeadSize(message) <= read /\ HeadSize(message) <= HeadRoom
      BY <1>1, <1>2, <1>4, BlankIs, MessageParts, RequestsAssumption DEF BlankRead
    <2>2. /\ read' = Kept
          /\ IF message.length > BodyCap
             THEN stage' = "end" /\ answer' = Status("413")
             ELSE /\ stage' = IF message.length > 0 /\ message.length > read - HeadSize(message) THEN "body" ELSE "parse"
                  /\ UNCHANGED answer
      BY <1>4 DEF TakeLength
    <2>3. PICK k : k = Kept
      OBVIOUS
    <2>4. /\ k \in HeadSize(message) .. read /\ k \in 0 .. StreamLen(message)
          /\ message.length > NoLength /\ read - HeadSize(message) > message.length => k = HeadSize(message) + message.length
          /\ ~(message.length > NoLength /\ read - HeadSize(message) > message.length) => k = read
      BY <1>1, <2>1, <2>3, MessageParts DEF Kept, NoLength
    <2>5. BlankRead(k)
      BY <2>1, <2>4 DEF BlankRead
    <2>6. CASE message.length > BodyCap
      <3>1. Meaning(message, secure) = Status("413")
        BY <2>1, <2>6, MessageParts, <1>1, RequestsAssumption DEF Meaning
      <3>2. SplitIndependent'
        BY <1>1, <2>2, <2>6, <3>1 DEF SplitIndependent, Meaning, CutByTheNetwork, Versioned, HeadSize
      <3> QED
        BY <1>1, <2>2, <2>3, <2>4, <2>6, <3>2 DEF ReqIInv, Stages, StreamLen
    <2>7. CASE ~(message.length > BodyCap) /\ message.length > 0 /\ message.length > read - HeadSize(message)
      <3>1. stage' = "body" /\ read' = k /\ answer' = Pending
        BY <1>1, <2>2, <2>3, <2>7
      <3>2. k = read /\ message.length \in 1 .. BodyCap /\ k < HeadSize(message) + message.length
        BY <1>1, <2>1, <2>4, <2>7, MessageParts, RequestsAssumption
      <3> QED
        BY <1>1, <2>1, <2>4, <2>5, <3>1, <3>2 DEF ReqIInv, Stages, StreamLen, BlankRead, HeadSize
    <2>8. CASE ~(message.length > BodyCap) /\ ~(message.length > 0 /\ message.length > read - HeadSize(message))
      <3>1. stage' = "parse" /\ read' = k /\ answer' = Pending
        BY <1>1, <2>2, <2>3, <2>8
      <3>2. message.length <= BodyCap
        BY <1>1, <2>8, MessageParts, RequestsAssumption
      <3>3. message.length > NoLength => k = HeadSize(message) + message.length
        BY <1>1, <2>1, <2>4, <2>8, MessageParts DEF NoLength
      <3>4. BodyTaken'
        BY <1>1, <2>1, <2>5, <3>1, <3>2, <3>3 DEF BodyTaken, BlankRead, HeadSize
      <3> QED
        BY <1>1, <2>4, <3>1, <3>4 DEF ReqIInv, Stages, StreamLen
    <2> QED
      BY <2>6, <2>7, <2>8
  <1> QED
    BY <1>3, <1>4

LEMMA ReadBodyKept ==
  ASSUME ReqIInv, ReadBody
  PROVE  ReqIInv'
  <1>1. /\ message \in Messages /\ secure \in BOOLEAN /\ paused \in BOOLEAN /\ read \in 0 .. StreamLen(message) /\ answer = Pending
        /\ stage = "body" /\ UNCHANGED <<message, secure, answer, paused>>
        /\ BlankRead(read) /\ message.ends = "crlf" /\ HeadSize(message) <= HeadRoom
        /\ message.length \in 1 .. BodyCap /\ read < HeadSize(message) + message.length
    BY DEF ReqIInv, ReadBody
  <1>2. PICK n \in read + 1 .. HeadSize(message) + message.length :
          /\ n <= Len(Stream(message)) /\ read' = n
          /\ stage' = IF n = HeadSize(message) + message.length THEN "parse" ELSE "body"
    BY DEF ReadBody
  <1>3. n \in 0 .. StreamLen(message) /\ BlankRead(n) /\ n <= HeadSize(message) + message.length /\ message.length <= BodyCap
    BY <1>1, <1>2, StreamUnits, MessageParts, RequestsAssumption DEF BlankRead
  <1>4. CASE n = HeadSize(message) + message.length
    <2>1. BodyTaken'
      BY <1>1, <1>2, <1>3, <1>4 DEF BodyTaken, BlankRead, HeadSize
    <2> QED
      BY <1>1, <1>2, <1>3, <1>4, <2>1 DEF ReqIInv, Stages, StreamLen
  <1>5. CASE n # HeadSize(message) + message.length
    <2>1. n < HeadSize(message) + message.length
      <3>1. HeadSize(message) + message.length \in Int /\ n \in Int
        BY <1>1, <1>3, MessageParts
      <3> QED
        BY <1>3, <1>5, <3>1
    <2> QED
      BY <1>1, <1>2, <1>3, <1>5, <2>1 DEF ReqIInv, Stages, StreamLen, BlankRead, HeadSize
  <1> QED
    BY <1>4, <1>5


\* What the parser makes of a request whose reading is over.
LEMMA ParsedIs ==
  ASSUME ReqIInv, stage = "parse", ~paused, ~CutByTheNetwork(message)
  PROVE  (IF Parsed.status = "400" THEN Status("400") ELSE Parsed) = Meaning(message, secure)
  <1>1. /\ message \in Messages /\ secure \in BOOLEAN /\ read \in 0 .. StreamLen(message)
        /\ BodyTaken \/ (HeadOver /\ ~HasHeadEnd)
    BY DEF ReqIInv
  <1>2. PICK m \in Messages : m = message
    BY <1>1
  <1>3. /\ m.heads \in Nat /\ m.body \in Nat /\ m.length \in Int /\ m.length >= NoLength /\ m.lines \in BOOLEAN
        /\ m.ends \in {"crlf", "lf", "never"} /\ m.line \in {"http", "simple", "other", "word"}
        /\ HeadSize(m) = 3 + m.heads
        /\ m.ends = "never" \/ m.line = "simple" => m.body = 0 /\ m.length = NoLength
        /\ StreamLen(m) = m.heads + (IF m.ends = "never" THEN 2 ELSE 3 + m.body)
    BY <1>2, MessageParts
  <1>4. read \in 2 .. StreamLen(m)
    BY <1>1, <1>2, <1>3 DEF BodyTaken, HeadOver, BlankRead
  <1>5. PICK hs, bs : hs = HeadersIn("head") /\ bs = HeadersIn("body")
    OBVIOUS
  <1>6. hs = (IF read <= 2 + m.heads THEN read - 2 ELSE m.heads) /\ (bs > 0 <=> read > HeadSize(m))
    BY <1>2, <1>4, <1>5, HeadersFound
  <1>7. HasHeadEnd <=> m.ends = "crlf" /\ HeadSize(m) <= read
    BY <1>1, <1>2, BlankIs DEF BlankRead
  <1>8. ~(m.line = "simple" /\ m.heads > 0) /\ ~(m.body > 0 /\ (m.length = NoLength \/ m.ends = "lf"))
    BY <1>2 DEF CutByTheNetwork
  <1>9. PICK b : b = IF HasHeadEnd THEN read - HeadSize(m) ELSE 0
    OBVIOUS
  <1>10. PICK s : s = IF m.lines /\ bs > 0 THEN 1 ELSE 0
    OBVIOUS
  <1>11. Parsed = [status |-> IF m.line \in {"http", "simple"} THEN "routed" ELSE "400", heads |-> hs, strays |-> s, body |-> b]
    BY <1>2, <1>5, <1>9, <1>10 DEF Parsed
  <1>12. PICK g : g = Status("routed")
    OBVIOUS
  <1>16. g = [status |-> "routed", heads |-> 0, strays |-> 0, body |-> 0]
    BY <1>12 DEF Status, Pending
  <1>13. HeadRoom \in Nat /\ BodyCap \in Nat /\ HeadRoom >= 3
    BY RequestsAssumption
  <1>14. CASE BodyTaken
    <2>1. /\ m.ends = "crlf" /\ HeadSize(m) <= read /\ HeadSize(m) <= HeadRoom /\ m.length <= BodyCap
          /\ m.length > NoLength => read = HeadSize(m) + m.length
      BY <1>2, <1>14 DEF BodyTaken, BlankRead
    <2>2. m.length = NoLength => read = HeadSize(m)
      BY <1>3, <1>4, <1>8, <2>1
    <2>3. b = (IF m.length > 0 THEN m.length ELSE 0) /\ hs = m.heads /\ s = (IF m.lines /\ m.length > 0 THEN 1 ELSE 0)
      BY <1>3, <1>4, <1>6, <1>7, <1>9, <1>10, <2>1, <2>2 DEF NoLength
    <2>4. CASE m.line \in {"other", "word"}
      <3>1. Meaning(m, secure) = Status("400")
        BY <1>3, <1>13, <2>1, <2>4 DEF Meaning
      <3> QED
        BY <1>2, <1>11, <2>4, <3>1
    <2>5. CASE m.line \in {"http", "simple"}
      <3>1. Meaning(m, secure) = [Status("routed") EXCEPT !.heads = m.heads,
                                  !.body = IF m.length > 0 THEN m.length ELSE 0,
                                  !.strays = IF m.lines /\ m.length > 0 THEN 1 ELSE 0]
        BY <1>3, <1>13, <2>1, <2>5 DEF Meaning
      <3>2. Meaning(m, secure) = [Status("routed") EXCEPT !.heads = hs, !.body = b, !.strays = s]
        BY <2>3, <3>1
      <3>3. Meaning(m, secure) = [status |-> "routed", heads |-> hs, strays |-> s, body |-> b]
        BY <3>2 DEF Status, Pending
      <3> QED
        BY <1>2, <1>11, <2>5, <3>3
    <2> QED
      BY <1>3, <2>4, <2>5
  <1>15. CASE HeadOver /\ ~HasHeadEnd
    <2>1. /\ read \in 2 .. HeadRoom
          /\ \/ m.ends # "never" /\ HeadSize(m) <= read
             \/ m.line = "simple"
             \/ Versioned(m) /\ ~secure /\ (read = HeadRoom \/ read = StreamLen(m))
      BY <1>2, <1>15 DEF HeadOver, BlankRead
    <2>2. b = 0 /\ ~(m.ends = "crlf" /\ HeadSize(m) <= read)
      BY <1>7, <1>9, <1>15
    <2>3. ~(HeadSize(m) > HeadRoom /\ (m.line = "word" \/ (Versioned(m) /\ secure)))
      BY <1>3, <1>8, <1>13, <2>1 DEF Versioned
    <2>4. ~(HeadSize(m) <= HeadRoom /\ m.ends = "crlf" /\ m.length > BodyCap)
      BY <1>3, <1>4, <1>13, <2>1, <2>2 DEF NoLength
    <2>5. CASE m.line \in {"other", "word"}
      <3>1. Meaning(m, secure) = Status("400")
        BY <2>3, <2>4, <2>5 DEF Meaning
      <3> QED
        BY <1>2, <1>11, <2>5, <3>1
    <2>6. CASE m.line \in {"http", "simple"}
      <3>1. s = 0
        <4>1. read <= HeadSize(m)
          BY <1>3, <1>4, <1>8, <2>1, <2>2
        <4> QED
          BY <1>3, <1>4, <1>6, <1>10, <4>1
      <3>2. CASE HeadSize(m) > HeadRoom /\ m.line = "http"
        <4>1. Meaning(m, secure) = [Status("routed") EXCEPT !.heads = HeadRoom - 2]
          BY <2>3, <2>4, <2>6, <3>2 DEF Meaning
        <4>2. read = HeadRoom
          BY <1>3, <1>4, <1>13, <2>1, <3>2
        <4>3. hs = HeadRoom - 2
          BY <1>3, <1>6, <1>13, <3>2, <4>2
        <4>4. Meaning(m, secure) = [status |-> "routed", heads |-> hs, strays |-> s, body |-> b]
          BY <1>12, <1>16, <2>2, <3>1, <4>1, <4>3
        <4> QED
          BY <1>2, <1>11, <2>6, <4>4
      <3>3. CASE ~(HeadSize(m) > HeadRoom /\ m.line = "http")
        <4>1. hs = m.heads
          BY <1>3, <1>4, <1>6, <1>8, <1>13, <2>1, <2>6, <3>3
        <4>2. Meaning(m, secure) = IF m.ends # "crlf" THEN [Status("routed") EXCEPT !.heads = m.heads]
                  ELSE [Status("routed") EXCEPT !.heads = m.heads,
                                  !.body = IF m.length > 0 THEN m.length ELSE 0,
                                  !.strays = IF m.lines /\ m.length > 0 THEN 1 ELSE 0]
          BY <2>3, <2>4, <2>6, <3>3 DEF Meaning
        <4>3. m.ends = "crlf" => m.length = NoLength
          BY <1>3, <1>4, <1>13, <2>1, <2>2, <2>6, <3>3
        <4>4. Meaning(m, secure) = [status |-> "routed", heads |-> hs, strays |-> s, body |-> b]
          <5>1. CASE m.ends # "crlf"
            BY <1>12, <1>16, <2>2, <3>1, <4>1, <4>2, <5>1
          <5>2. CASE m.ends = "crlf"
            <6>1. ~(m.length > 0)
              BY <4>3, <5>2 DEF NoLength
            <6>2. Meaning(m, secure) = [Status("routed") EXCEPT !.heads = hs, !.body = 0, !.strays = 0]
              BY <4>1, <4>2, <5>2, <6>1
            <6>3. Meaning(m, secure) = [status |-> "routed", heads |-> hs, strays |-> 0, body |-> 0]
              BY <6>2 DEF Status, Pending
            <6> QED
              BY <2>2, <3>1, <6>3
          <5> QED
            BY <5>1, <5>2
        <4> QED
          BY <1>2, <1>11, <2>6, <4>4
      <3> QED
        BY <3>2, <3>3
    <2> QED
      BY <1>3, <2>5, <2>6
  <1> QED
    BY <1>1, <1>14, <1>15

LEMMA ParseKept ==
  ASSUME ReqIInv, Parse
  PROVE  ReqIInv'
  <1>1. /\ message \in Messages /\ secure \in BOOLEAN /\ paused \in BOOLEAN /\ read \in 0 .. StreamLen(message)
        /\ stage = "parse" /\ stage' = "end" /\ UNCHANGED <<message, secure, read, paused>>
        /\ answer' = IF Parsed.status = "400" THEN Status("400") ELSE Parsed
    BY DEF ReqIInv, Parse
  <1>2. ~paused /\ ~CutByTheNetwork(message) => answer' = Meaning(message, secure)
    BY <1>1, ParsedIs
  <1>3. PICK m, tls : m = message /\ tls = secure
    OBVIOUS
  <1>4. SplitIndependent'
    <2>1. ~paused /\ ~CutByTheNetwork(m) => answer' = Meaning(m, tls)
      BY <1>2, <1>3
    <2>2. ~paused' /\ ~CutByTheNetwork(m)' => answer' = Meaning(m, tls)'
      BY <1>1, <2>1 DEF CutByTheNetwork, Meaning, Versioned, HeadSize
    <2>3. message' = m /\ secure' = tls
      BY <1>1, <1>3
    <2> QED
      BY <1>1, <2>2, <2>3 DEF SplitIndependent, CutByTheNetwork, Meaning, Versioned, HeadSize
  <1> QED
    BY <1>1, <1>4 DEF ReqIInv, Stages, StreamLen

LEMMA ReqStays ==
  ASSUME ReqIInv, UNCHANGED reqVars
  PROVE  ReqIInv'
  <1>1. UNCHANGED <<message, secure, read, stage, answer, paused>>
    BY DEF reqVars
  <1>2. (HeadOver' <=> HeadOver) /\ (BodyTaken' <=> BodyTaken) /\ (HasHeadEnd' <=> HasHeadEnd) /\ (BlankRead(read)' <=> BlankRead(read))
    BY <1>1 DEF HeadOver, BodyTaken, HasHeadEnd, BlankRead, Sees, Versioned, HeadSize, StreamLen
  <1>3. SplitIndependent' <=> SplitIndependent
    BY <1>1 DEF SplitIndependent, CutByTheNetwork, Meaning, Versioned, HeadSize
  <1> QED
    BY <1>1, <1>2, <1>3 DEF ReqIInv, StreamLen, Versioned, HeadSize

LEMMA ReqInductive == ReqSpec => []ReqIInv
  <1>1. ReqInit => ReqIInv
    BY ReqInitially
  <1>2. ReqIInv /\ [ReqNext]_reqVars => ReqIInv'
    BY ReadHeadKept, PollKept, ReadFailsKept, TakeLengthKept, ReadBodyKept, ParseKept, ReqStays DEF ReqNext
  <1> QED
    BY <1>1, <1>2, PTL DEF ReqSpec

\* However the network cuts a request into reads, however large the buffer, the body's
\* limit and the header: what http_route() takes from a connection and
\* parse_http_request() makes of it is what the client sent means, but for a plain
\* request that pauses within its headers and the messages of CutByTheNetwork.
THEOREM SplitIndependentThm == ReqSpec => []SplitIndependent
  <1>1. ReqIInv => SplitIndependent
    BY DEF ReqIInv, SplitIndependent, Stages, Pending
  <1> QED
    BY <1>1, ReqInductive, PTL

-----------------------------------------------------------------------------
(* GatesInv: the pages a visitor is shown.                                  *)

\* A member of the team with a browser that has the dashboard.
Member == signed /\ browser = "granted" /\ ready /\ account \notin {"gone", "commenter"}

PageIInv ==
    /\ browser \in {"granted", "modern", "old", "wap"} /\ preview \in BOOLEAN /\ closedSite \in BOOLEAN
    /\ url \in DOMAIN Routes \cup {"none"}
    /\ url # "none" /\ steady /\ asked /\ Member => url \in DOMAIN Dashboard \cup {"dashboard"}
    /\ GatesInv

LEMMA Joined == ASSUME NEW f, NEW g, NEW h, h = f ++ g PROVE DOMAIN h = DOMAIN f \cup DOMAIN g
  BY DEF ++

LEMMA DashboardRoutes ==
    DOMAIN Dashboard = {"entries", "entry_edit", "categories", "category_new", "category_edit", "languages", "menu_admin",
                        "menu_new", "menu_edit", "settings", "banner", "footer", "logo", "css_editor", "preview", "browsers",
                        "updates", "updates_progress", "extensions", "fonts", "themes", "customize", "theme", "theme_assets",
                        "users", "analytics", "user_new", "user_edit", "media", "media_contents", "media_directory",
                        "media_modal", "comments", "comment_reply", "extension"}
  <1>1. DOMAIN EntryPages = {"entries", "entry_edit"}
    BY DEF EntryPages
  <1>2. DOMAIN CategoryPages = {"categories", "category_new", "category_edit"}
    BY DEF CategoryPages
  <1>3. DOMAIN MenuPages = {"languages", "menu_admin", "menu_new", "menu_edit"}
    BY DEF MenuPages
  <1>4. DOMAIN SettingsPages = {"settings"}
    BY DEF SettingsPages
  <1>5. DOMAIN ThemeParts = {"banner", "footer", "logo", "css_editor"}
    BY DEF ThemeParts
  <1>6. DOMAIN MaintenancePages = {"preview", "browsers", "updates", "updates_progress", "extensions", "fonts"}
    BY DEF MaintenancePages
  <1>7. DOMAIN ThemePages = {"themes", "customize", "theme", "theme_assets"}
    BY DEF ThemePages
  <1>8. DOMAIN UserPages = {"users", "analytics", "user_new", "user_edit"}
    BY DEF UserPages
  <1>9. DOMAIN MediaPages = {"media", "media_contents", "media_directory", "media_modal"}
    BY DEF MediaPages
  <1>10. DOMAIN CommentPages = {"comments", "comment_reply"}
    BY DEF CommentPages
  <1>11. DOMAIN ExtensionPages = {"extension"}
    BY DEF ExtensionPages
  <1>12. DOMAIN Dashboard = DOMAIN EntryPages \cup DOMAIN CategoryPages \cup DOMAIN MenuPages \cup DOMAIN SettingsPages
            \cup DOMAIN ThemeParts \cup DOMAIN MaintenancePages \cup DOMAIN ThemePages \cup DOMAIN UserPages
            \cup DOMAIN MediaPages \cup DOMAIN CommentPages \cup DOMAIN ExtensionPages
    <2>1. PICK t1 : t1 = EntryPages ++ CategoryPages
      OBVIOUS
    <2>2. DOMAIN t1 = DOMAIN EntryPages \cup DOMAIN CategoryPages
      BY <2>1, Joined
    <2>3. PICK t2 : t2 = t1 ++ MenuPages
      OBVIOUS
    <2>4. DOMAIN t2 = DOMAIN t1 \cup DOMAIN MenuPages
      BY <2>3, Joined
    <2>5. PICK t3 : t3 = t2 ++ SettingsPages
      OBVIOUS
    <2>6. DOMAIN t3 = DOMAIN t2 \cup DOMAIN SettingsPages
      BY <2>5, Joined
    <2>7. PICK t4 : t4 = t3 ++ ThemeParts
      OBVIOUS
    <2>8. DOMAIN t4 = DOMAIN t3 \cup DOMAIN ThemeParts
      BY <2>7, Joined
    <2>9. PICK t5 : t5 = t4 ++ MaintenancePages
      OBVIOUS
    <2>10. DOMAIN t5 = DOMAIN t4 \cup DOMAIN MaintenancePages
      BY <2>9, Joined
    <2>11. PICK t6 : t6 = t5 ++ ThemePages
      OBVIOUS
    <2>12. DOMAIN t6 = DOMAIN t5 \cup DOMAIN ThemePages
      BY <2>11, Joined
    <2>13. PICK t7 : t7 = t6 ++ UserPages
      OBVIOUS
    <2>14. DOMAIN t7 = DOMAIN t6 \cup DOMAIN UserPages
      BY <2>13, Joined
    <2>15. PICK t8 : t8 = t7 ++ MediaPages
      OBVIOUS
    <2>16. DOMAIN t8 = DOMAIN t7 \cup DOMAIN MediaPages
      BY <2>15, Joined
    <2>17. PICK t9 : t9 = t8 ++ CommentPages
      OBVIOUS
    <2>18. DOMAIN t9 = DOMAIN t8 \cup DOMAIN CommentPages
      BY <2>17, Joined
    <2>19. PICK t10 : t10 = t9 ++ ExtensionPages
      OBVIOUS
    <2>20. DOMAIN t10 = DOMAIN t9 \cup DOMAIN ExtensionPages
      BY <2>19, Joined
    <2>21. Dashboard = t10
      BY <2>1, <2>3, <2>5, <2>7, <2>9, <2>11, <2>13, <2>15, <2>17, <2>19 DEF Dashboard
    <2> QED
      BY <2>2, <2>4, <2>6, <2>8, <2>10, <2>12, <2>14, <2>16, <2>18, <2>20, <2>21
  <1> QED
    BY <1>1, <1>2, <1>3, <1>4, <1>5, <1>6, <1>7, <1>8, <1>9, <1>10, <1>11, <1>12

LEMMA PublicRoutes ==
    /\ DOMAIN PublicPages = {"captcha", "verify", "language", "theme_list"}
    /\ DOMAIN QrPages = {"qr_page"} /\ DOMAIN GalleryPages = {"gallery"} /\ DOMAIN Files = {"theme_css", "file"}
    /\ DOMAIN Redirects = {"language_set", "theme_set", "short_link", "comment_form"}
    /\ DOMAIN SiteContent = {"home", "page", "blog", "category", "category_list", "post", "menu_page", "search", "comment_form"}
    /\ DOMAIN Routes = DOMAIN Dashboard \cup DOMAIN PublicPages \cup DOMAIN QrPages \cup DOMAIN GalleryPages
                           \cup DOMAIN Files \cup DOMAIN Redirects \cup DOMAIN SiteContent
                           \cup {"login", "dashboard", "logout", "site_list"}
  <1>1. DOMAIN PublicPages = {"captcha", "verify", "language", "theme_list"}
    BY DEF PublicPages
  <1>2. DOMAIN QrPages = {"qr_page"} /\ DOMAIN GalleryPages = {"gallery"} /\ DOMAIN Files = {"theme_css", "file"}
    BY DEF QrPages, GalleryPages, Files
  <1>3. DOMAIN Redirects = {"language_set", "theme_set", "short_link", "comment_form"}
    BY DEF Redirects
  <1>4. DOMAIN SiteContent = {"home", "page", "blog", "category", "category_list", "post", "menu_page", "search", "comment_form"}
    BY DEF SiteContent
  <1>5. DOMAIN Routes = DOMAIN Dashboard \cup DOMAIN PublicPages \cup DOMAIN QrPages \cup DOMAIN GalleryPages
                           \cup DOMAIN Files \cup DOMAIN Redirects \cup DOMAIN SiteContent
                           \cup {"login", "dashboard", "logout", "site_list"}
    <2> DEFINE own == [login |-> Open, dashboard |-> Open, logout |-> Open, site_list |-> Open]
    <2>16. DOMAIN own = {"login", "dashboard", "logout", "site_list"}
      OBVIOUS
    <2>1. PICK t1 : t1 = Dashboard ++ PublicPages
      OBVIOUS
    <2>2. DOMAIN t1 = DOMAIN Dashboard \cup DOMAIN PublicPages
      BY <2>1, Joined
    <2>3. PICK t2 : t2 = t1 ++ QrPages
      OBVIOUS
    <2>4. DOMAIN t2 = DOMAIN t1 \cup DOMAIN QrPages
      BY <2>3, Joined
    <2>5. PICK t3 : t3 = t2 ++ GalleryPages
      OBVIOUS
    <2>6. DOMAIN t3 = DOMAIN t2 \cup DOMAIN GalleryPages
      BY <2>5, Joined
    <2>7. PICK t4 : t4 = t3 ++ Files
      OBVIOUS
    <2>8. DOMAIN t4 = DOMAIN t3 \cup DOMAIN Files
      BY <2>7, Joined
    <2>9. PICK t5 : t5 = t4 ++ Redirects
      OBVIOUS
    <2>10. DOMAIN t5 = DOMAIN t4 \cup DOMAIN Redirects
      BY <2>9, Joined
    <2>11. PICK t6 : t6 = t5 ++ SiteContent
      OBVIOUS
    <2>12. DOMAIN t6 = DOMAIN t5 \cup DOMAIN SiteContent
      BY <2>11, Joined
    <2>13. PICK t7 : t7 = t6 ++ own
      OBVIOUS
    <2>14. DOMAIN t7 = DOMAIN t6 \cup DOMAIN own
      BY <2>13, Joined
    <2>15. Routes = t7
      BY <2>1, <2>3, <2>5, <2>7, <2>9, <2>11, <2>13 DEF Routes
    <2> QED
      BY <2>2, <2>4, <2>6, <2>8, <2>10, <2>12, <2>14, <2>15, <2>16
  <1> QED
    BY <1>1, <1>2, <1>3, <1>4, <1>5

\* What a member who asked for the dashboard may be shown, and the visitors of a
\* closed site may not.
MemberPages == DOMAIN Dashboard \cup {"nothing", "dashboard", "403", "404", "502", "503"}
ClosedPages == DOMAIN SiteContent \cup DOMAIN Dashboard \cup {"dashboard"}
EveryPage   == DOMAIN PublicPages \cup DOMAIN QrPages \cup DOMAIN GalleryPages \cup DOMAIN Files \cup {"site_list"}
Notices     == {"nothing", "403", "404", "405", "502", "503", "login_form", "login_unavailable", "locked_out", "under_construction"}

LEMMA RouteSets ==
    /\ "none" \notin DOMAIN Routes /\ DOMAIN Dashboard \cup DOMAIN SiteContent \cup {"login", "dashboard", "gallery", "file"} \subseteq DOMAIN Routes
    /\ {"comments", "customize", "themes", "extension", "theme"} \subseteq DOMAIN Dashboard /\ {"home", "post"} \subseteq DOMAIN SiteContent
    /\ \A p \in EveryPage \cup Notices : p \notin ClosedPages
    /\ \A p \in EveryPage \cup DOMAIN SiteContent \cup {"login", "logout", "language_set", "theme_set", "short_link", "comment_form"} :
           p \notin DOMAIN Dashboard /\ p # "dashboard"
  <1>1. "none" \notin DOMAIN Routes
    BY DashboardRoutes, PublicRoutes
  <1>2. DOMAIN Dashboard \cup DOMAIN SiteContent \cup {"login", "dashboard", "gallery", "file"} \subseteq DOMAIN Routes
    BY PublicRoutes
  <1>3. {"comments", "customize", "themes", "extension", "theme"} \subseteq DOMAIN Dashboard
    BY DashboardRoutes
  <1>4. {"home", "post"} \subseteq DOMAIN SiteContent
    BY PublicRoutes
  <1>5. \A p \in EveryPage \cup Notices : p \notin DOMAIN Dashboard /\ p \notin DOMAIN SiteContent /\ p # "dashboard"
    BY DashboardRoutes, PublicRoutes DEF EveryPage, Notices
  <1>6. \A p \in DOMAIN SiteContent \cup {"login", "logout", "language_set", "theme_set", "short_link", "comment_form"} :
           p \notin DOMAIN Dashboard /\ p # "dashboard"
    BY DashboardRoutes, PublicRoutes
  <1> QED
    BY <1>1, <1>2, <1>3, <1>4, <1>5, <1>6 DEF ClosedPages

\* What a request may come to.
Shows(p) ==
    /\ Show(p)
    /\ asked /\ Member => p \in MemberPages
    /\ closedSite /\ ~AdminVisits => p \notin ClosedPages
Leads(to) ==
    /\ Redirect(to) /\ to \in DOMAIN Routes
    /\ asked /\ Member => to \in DOMAIN Dashboard \cup {"dashboard"}
Outcome == ShowLockout \/ (\E p : Shows(p)) \/ (\E to : Leads(to))

LEMMA OutcomeKept ==
  ASSUME PageIInv, url # "none", Same, Outcome
  PROVE  PageIInv'
  <1>1. /\ browser \in {"granted", "modern", "old", "wap"} /\ preview \in BOOLEAN /\ closedSite \in BOOLEAN
        /\ url \in DOMAIN Routes /\ UNCHANGED <<asked, steady, browser, ready, account, closedSite, changes>>
    BY DEF PageIInv, Same, world
  <1>2. CASE ShowLockout
    <2>1. signed' = FALSE /\ url' = "none" /\ shown' = "locked_out" /\ preview' = preview
      BY <1>2 DEF ShowLockout
    <2>2. "locked_out" \notin ClosedPages
      BY RouteSets DEF Notices
    <2>3. GatesInv'
      BY <1>1, <2>1, <2>2 DEF GatesInv, MemberStaysIn, ClosedMeansClosed, ClosedPages
    <2> QED
      BY <1>1, <2>1, <2>3 DEF PageIInv
  <1>3. ASSUME NEW p, Shows(p) PROVE PageIInv'
    <2>1. url' = "none" /\ shown' = p /\ signed' = signed /\ preview' = preview
      BY <1>3 DEF Shows, Show
    <2>2. (asked /\ Member => p \in MemberPages) /\ (closedSite /\ ~AdminVisits => p \notin ClosedPages)
      BY <1>3 DEF Shows
    <2>3. MemberStaysIn'
      BY <1>1, <2>1, <2>2 DEF MemberStaysIn, Member, MemberPages
    <2>4. ClosedMeansClosed'
      BY <1>1, <2>1, <2>2 DEF ClosedMeansClosed, AdminVisits, ClosedPages
    <2> QED
      BY <1>1, <2>1, <2>3, <2>4 DEF PageIInv, GatesInv
  <1>4. ASSUME NEW to, Leads(to) PROVE PageIInv'
    <2>1. url' = to /\ shown' = shown /\ signed' = signed /\ preview' = FALSE /\ to \in DOMAIN Routes /\ to # "none"
      BY <1>4, RouteSets DEF Leads, Redirect
    <2>2. asked /\ Member => to \in DOMAIN Dashboard \cup {"dashboard"}
      BY <1>4 DEF Leads
    <2>3. GatesInv'
      BY <2>1 DEF GatesInv, MemberStaysIn, ClosedMeansClosed
    <2>4. url' # "none" /\ steady' /\ asked' /\ Member' => url' \in DOMAIN Dashboard \cup {"dashboard"}
      BY <1>1, <2>1, <2>2 DEF Member
    <2> QED
      BY <1>1, <2>1, <2>3, <2>4 DEF PageIInv
  <1> QED
    BY <1>2, <1>3, <1>4 DEF Outcome

LEMMA LoginOutcome ==
  ASSUME PageIInv, Login, steady
  PROVE  Outcome
  <1>1. url = "login" /\ ~(asked /\ Member)
    BY RouteSets DEF PageIInv, Login
  <1>2. CASE ready /\ signed
    <2>1. Leads("dashboard")
      BY <1>1, <1>2, RouteSets DEF Login, Leads
    <2> QED
      BY <2>1 DEF Outcome
  <1>3. CASE ~(ready /\ signed)
    <2>1. PICK p \in {"login_form", "login_unavailable"} : Show(p)
      BY <1>3 DEF Login
    <2>2. p \notin ClosedPages
      BY RouteSets DEF Notices
    <2>3. Shows(p)
      BY <1>1, <2>1, <2>2 DEF Shows
    <2> QED
      BY <2>3 DEF Outcome
  <1> QED
    BY <1>2, <1>3

LEMMA HomeOutcome ==
  ASSUME PageIInv, DashboardHome
  PROVE  Outcome
  <1>1. CASE ~ready
    <2>1. Show("503") /\ "503" \notin ClosedPages
      BY <1>1, RouteSets DEF DashboardHome, Notices
    <2>2. Shows("503")
      BY <2>1 DEF Shows, MemberPages
    <2> QED
      BY <2>2 DEF Outcome
  <1>2. CASE ready /\ (~signed \/ account \in {"gone", "commenter"})
    <2>1. Leads("login")
      BY <1>2, RouteSets DEF DashboardHome, Leads, Member
    <2> QED
      BY <2>1 DEF Outcome
  <1>3. CASE ready /\ signed /\ account \notin {"gone", "commenter"} /\ LockedOut
    BY <1>3 DEF DashboardHome, Outcome
  <1>4. CASE ready /\ signed /\ account \notin {"gone", "commenter"} /\ ~LockedOut
    <2>1. Show(IF Epoch = "modern" /\ ~Allowed THEN "login_unavailable" ELSE "dashboard")
      BY <1>4 DEF DashboardHome
    <2>2. ~(closedSite /\ ~AdminVisits)
      BY <1>4 DEF LockedOut, AdminVisits
    <2>3. CASE Epoch = "modern" /\ ~Allowed
      <3>1. ~Member
        BY <2>3 DEF Allowed, Member
      <3>2. Shows("login_unavailable")
        BY <2>1, <2>2, <2>3, <3>1 DEF Shows
      <3> QED
        BY <3>2 DEF Outcome
    <2>4. CASE ~(Epoch = "modern" /\ ~Allowed)
      <3>1. Shows("dashboard")
        BY <2>1, <2>2, <2>4 DEF Shows, MemberPages
      <3> QED
        BY <3>1 DEF Outcome
    <2> QED
      BY <2>3, <2>4
  <1> QED
    BY <1>1, <1>2, <1>3, <1>4

\* Who has passed the gate of r, and what becomes of the others.
Passed(r) ==
    /\ Allowed /\ ready /\ signed /\ ~LockedOut /\ account # "gone" /\ MayOpen(r)
    /\ ~(Routes[r].gate = "admins" /\ account \notin {"admin", "viewer"})
Refused(r) ==
    \/ ~Allowed /\ (Show("403") \/ Redirect("dashboard"))
    \/ Allowed /\ ~ready /\ Show("503")
    \/ (~signed \/ account = "gone") /\ Redirect("login")
    \/ ShowLockout
    \/ ~MayOpen(r) /\ Redirect(Elsewhere)
    \/ Redirect("dashboard")

LEMMA RefusedOutcome ==
  ASSUME NEW r, PageIInv, Refused(r)
  PROVE  Outcome
  <1>1. \A p \in {"403", "503"} : Show(p) => Outcome
    <2>1. \A p \in {"403", "503"} : p \notin ClosedPages /\ p \in MemberPages
      BY RouteSets DEF Notices, MemberPages
    <2> QED
      BY <2>1 DEF Outcome, Shows
  <1>2. Redirect("dashboard") => Outcome
    BY RouteSets DEF Outcome, Leads
  <1>3. (~signed \/ account = "gone") /\ Redirect("login") => Outcome
    BY RouteSets DEF Outcome, Leads, Member
  <1>4. ~MayOpen(r) /\ Redirect(Elsewhere) => Outcome
    <2>1. CASE account = "moderator"
      BY <1>2, <2>1 DEF Elsewhere
    <2>2. CASE account # "moderator" /\ ~MayOpen(r) /\ Redirect(Elsewhere)
      <3>1. account = "commenter"
        BY <2>2 DEF MayOpen
      <3>2. Redirect("home") /\ "home" \in DOMAIN Routes /\ ~Member
        BY <2>2, <3>1, RouteSets DEF Elsewhere, Member
      <3> QED
        BY <3>2 DEF Outcome, Leads
    <2> QED
      BY <2>1, <2>2
  <1> QED
    BY <1>1, <1>2, <1>3, <1>4 DEF Refused, Outcome

\* Who has passed is shown what the handler answers, even on a closed site.
LEMMA PassedOutcome ==
  ASSUME NEW r, Passed(r)
  PROVE  ~(closedSite /\ ~AdminVisits)
  BY DEF Passed, LockedOut, AdminVisits

LEMMA DashboardPageOutcome ==
  ASSUME PageIInv, DashboardPage
  PROVE  Outcome
  <1>1. PICK r : r = url /\ r \in DOMAIN Dashboard
    BY DEF DashboardPage
  <1>2. r \in DOMAIN Routes /\ r \in MemberPages
    BY <1>1, RouteSets DEF MemberPages
  <1>3. \/ Refused(r)
        \/ Passed(r) /\ (Show(r) \/ Show("404") \/ Redirect("dashboard") \/ Redirect("comments"))
    BY <1>1 DEF DashboardPage, Gated, Refused, Passed
  <1>4. CASE Passed(r) /\ (Show(r) \/ Show("404"))
    <2>1. PICK p \in {r, "404"} : Show(p)
      BY <1>4
    <2>2. Shows(p)
      BY <1>2, <1>4, <2>1, PassedOutcome DEF Shows, MemberPages
    <2> QED
      BY <2>2 DEF Outcome
  <1>5. CASE Redirect("dashboard") \/ Redirect("comments")
    <2>1. PICK to \in {"dashboard", "comments"} : Redirect(to)
      BY <1>5
    <2>2. Leads(to)
      BY <2>1, RouteSets DEF Leads
    <2> QED
      BY <2>2 DEF Outcome
  <1> QED
    BY <1>3, <1>4, <1>5, RefusedOutcome

LEMMA ExtensionOutcome ==
  ASSUME PageIInv, Extension
  PROVE  Outcome
  <1>1. PICK page \in {url, "404", "502", "503"} : Gated(url, Show(page))
    BY DEF Extension
  <1>2. page \in MemberPages
    BY RouteSets DEF Extension, MemberPages
  <1>3. Refused(url) \/ (Passed(url) /\ Show(page))
    BY <1>1 DEF Gated, Refused, Passed
  <1>4. CASE Passed(url) /\ Show(page)
    <2>1. Shows(page)
      BY <1>2, <1>4, PassedOutcome DEF Shows
    <2> QED
      BY <2>1 DEF Outcome
  <1> QED
    BY <1>3, <1>4, RefusedOutcome

LEMMA OldThemeOutcome ==
  ASSUME OldThemePage
  PROVE  Outcome
  <1>1. PICK to \in {"customize", "themes"} : Redirect(to)
    BY DEF OldThemePage
  <1>2. Leads(to)
    BY <1>1, RouteSets DEF Leads
  <1> QED
    BY <1>2 DEF Outcome

\* A route that is not of the dashboard is not one a member is led to.
LEMMA PublicAsked ==
  ASSUME PageIInv, steady, url # "none", url \notin DOMAIN Dashboard, url # "dashboard"
  PROVE  ~(asked /\ Member)
  BY DEF PageIInv

LEMMA PublicOutcome ==
  ASSUME PageIInv, PublicPage, steady
  PROVE  Outcome
  <1>1. url \in EveryPage \cup DOMAIN SiteContent
    BY DEF PublicPage, EveryPage
  <1>2. url \notin DOMAIN Dashboard /\ url # "dashboard" /\ url # "none"
    <2>1. url \notin DOMAIN Dashboard /\ url # "dashboard"
      BY <1>1, RouteSets
    <2>2. url # "none"
      BY <1>1, DashboardRoutes, PublicRoutes DEF EveryPage
    <2> QED
      BY <2>1, <2>2
  <1>3. ~(asked /\ Member)
    BY <1>2, PublicAsked
  <1>4. CASE Show("under_construction") \/ Show("404")
    <2>1. PICK p \in {"under_construction", "404"} : Show(p)
      BY <1>4
    <2>2. p \notin ClosedPages
      BY RouteSets DEF Notices
    <2>3. Shows(p)
      BY <1>3, <2>1, <2>2 DEF Shows
    <2> QED
      BY <2>3 DEF Outcome
  <1>5. CASE ~StandsIn(url) /\ Show(url)
    <2>1. closedSite /\ ~AdminVisits => url \in EveryPage
      BY <1>1, <1>5 DEF StandsIn
    <2>2. closedSite /\ ~AdminVisits => url \notin ClosedPages
      BY <2>1, RouteSets
    <2>3. PICK p : p = url
      OBVIOUS
    <2>4. Shows(p)
      BY <1>3, <1>5, <2>2, <2>3 DEF Shows
    <2> QED
      BY <2>4 DEF Outcome
  <1> QED
    BY <1>4, <1>5 DEF PublicPage

LEMMA LogoutOutcome ==
  ASSUME PageIInv, LogoutPage, steady
  PROVE  Outcome
  <1>1. ~(asked /\ Member)
    BY RouteSets, PublicAsked DEF LogoutPage
  <1>2. Shows("405")
    BY <1>1, RouteSets DEF LogoutPage, Shows, Notices
  <1> QED
    BY <1>2 DEF Outcome

LEMMA RedirectOutcome ==
  ASSUME PageIInv, RedirectPage, steady
  PROVE  Outcome
  <1>1. url \in {"language_set", "theme_set", "short_link", "comment_form"}
    BY DEF RedirectPage
  <1>2. ~(asked /\ Member)
    BY <1>1, RouteSets, PublicAsked
  <1>3. ASSUME NEW to \in DOMAIN Routes, Redirect(to) PROVE Outcome
    BY <1>2, <1>3 DEF Outcome, Leads
  <1>4. CASE Show("404") \/ Show("under_construction")
    <2>1. PICK p \in {"under_construction", "404"} : Show(p)
      BY <1>4
    <2>2. p \notin ClosedPages
      BY RouteSets DEF Notices
    <2>3. Shows(p)
      BY <1>2, <2>1, <2>2 DEF Shows
    <2> QED
      BY <2>3 DEF Outcome
  <1>5. CASE url = "comment_form" /\ ~StandsIn(url) /\ Show("comment_form")
    <2>1. "comment_form" \in DOMAIN SiteContent
      BY PublicRoutes
    <2>2. ~(closedSite /\ ~AdminVisits)
      BY <1>5, <2>1 DEF StandsIn
    <2>3. Shows("comment_form")
      BY <1>2, <1>5, <2>2 DEF Shows
    <2> QED
      BY <2>3 DEF Outcome
  <1>6. CASE url \in {"language_set", "theme_set"}
    <2>1. PICK to \in DOMAIN Routes : Redirect(to)
      BY <1>6 DEF RedirectPage
    <2> QED
      BY <1>3, <2>1
  <1>7. CASE url = "short_link"
    <2>1. Show("404") \/ \E to \in {"gallery", "file"} : Redirect(to)
      BY <1>7 DEF RedirectPage
    <2> QED
      BY <1>3, <1>4, <2>1, RouteSets
  <1>8. CASE url = "comment_form"
    <2>1. Show("under_construction") \/ Redirect("post") \/ Show("404") \/ (~StandsIn(url) /\ Show("comment_form"))
      BY <1>8 DEF RedirectPage
    <2> QED
      BY <1>3, <1>4, <1>5, <1>8, <2>1, RouteSets
  <1> QED
    BY <1>1, <1>6, <1>7, <1>8

\* A request that was under way when something changed, which no property is about.
LEMMA UnsteadyKept ==
  ASSUME PageIInv, ~steady, Answer
  PROVE  PageIInv'
  <1>1. /\ browser \in {"granted", "modern", "old", "wap"} /\ preview \in BOOLEAN /\ closedSite \in BOOLEAN
        /\ UNCHANGED <<asked, steady, browser, ready, account, closedSite, changes>>
    <2>1. Same
      BY DEF Answer, Login, DashboardHome, DashboardPage, Extension, OldThemePage, PublicPage, LogoutPage, RedirectPage
    <2> QED
      BY <2>1 DEF PageIInv, Same, world
  <1>2. (\E p : Show(p)) \/ (\E to \in DOMAIN Routes : Redirect(to)) \/ ShowLockout
    <2> DEFINE Ends == (\E p : Show(p)) \/ (\E to \in DOMAIN Routes : Redirect(to)) \/ ShowLockout
    <2>1. \A p : Show(p) => Ends
      OBVIOUS
    <2>2. \A to \in DOMAIN Routes : Redirect(to) => Ends
      OBVIOUS
    <2>3. ShowLockout => Ends
      OBVIOUS
    <2>4. /\ "dashboard" \in DOMAIN Routes /\ "login" \in DOMAIN Routes /\ "comments" \in DOMAIN Routes /\ "post" \in DOMAIN Routes
          /\ "customize" \in DOMAIN Routes /\ "themes" \in DOMAIN Routes /\ "gallery" \in DOMAIN Routes /\ "file" \in DOMAIN Routes
          /\ "home" \in DOMAIN Routes /\ Elsewhere \in DOMAIN Routes
      BY RouteSets DEF Elsewhere
    <2> HIDE DEF Ends
    <2>5. Login \/ DashboardHome => Ends
      BY <2>1, <2>2, <2>3, <2>4 DEF Login, DashboardHome
    <2>6. DashboardPage => Ends
      BY <2>1, <2>2, <2>3, <2>4 DEF DashboardPage, Gated
    <2>7. Extension => Ends
      BY <2>1, <2>2, <2>3, <2>4 DEF Extension, Gated
    <2>8. OldThemePage \/ LogoutPage => Ends
      BY <2>1, <2>2, <2>4 DEF OldThemePage, LogoutPage
    <2>9. PublicPage => Ends
      BY <2>1 DEF PublicPage
    <2>10. RedirectPage => Ends
      BY <2>1, <2>2, <2>4 DEF RedirectPage
    <2> QED
      BY <2>5, <2>6, <2>7, <2>8, <2>9, <2>10 DEF Answer, Ends
  <1>3. url' \in DOMAIN Routes \cup {"none"} /\ preview' \in BOOLEAN
    BY <1>1, <1>2 DEF Show, Redirect, ShowLockout
  <1>4. ~steady'
    BY <1>1
  <1> QED
    BY <1>1, <1>3, <1>4 DEF PageIInv, GatesInv, MemberStaysIn, ClosedMeansClosed

LEMMA AnswerKept ==
  ASSUME PageIInv, Answer
  PROVE  PageIInv'
  <1>1. Same /\ url # "none"
    <2>1. "none" \notin DOMAIN Dashboard \cup EveryPage \cup DOMAIN SiteContent
      BY DashboardRoutes, PublicRoutes DEF EveryPage
    <2> QED
      BY <2>1 DEF Answer, Login, DashboardHome, DashboardPage, Extension, OldThemePage, PublicPage, LogoutPage, RedirectPage, EveryPage
  <1>2. steady => Outcome
    BY LoginOutcome, HomeOutcome, DashboardPageOutcome, ExtensionOutcome, OldThemeOutcome, PublicOutcome, LogoutOutcome, RedirectOutcome DEF Answer
  <1> QED
    BY <1>1, <1>2, OutcomeKept, UnsteadyKept

LEMMA PageInitially == PageInit => PageIInv
  <1>1. SUFFICES ASSUME PageInit PROVE PageIInv
    OBVIOUS
  <1>2. /\ browser \in {"granted", "modern", "old", "wap"} /\ closedSite \in BOOLEAN
        /\ signed = FALSE /\ asked = FALSE /\ url = "none" /\ shown = "nothing" /\ preview = FALSE
    BY <1>1 DEF PageInit
  <1>3. "nothing" \notin ClosedPages
    BY RouteSets DEF Notices
  <1>4. MemberStaysIn
    BY <1>2 DEF MemberStaysIn
  <1>5. ClosedMeansClosed
    BY <1>2, <1>3 DEF ClosedMeansClosed, ClosedPages
  <1>6. preview \in BOOLEAN /\ url \in DOMAIN Routes \cup {"none"}
    BY <1>2
  <1> QED
    BY <1>2, <1>4, <1>5, <1>6 DEF PageIInv, GatesInv

LEMMA VisitKept ==
  ASSUME PageIInv, \/ \E r \in DOMAIN Routes : Ask(r)
                   \/ Leave \/ SignsIn
  PROVE  PageIInv'
  <1>1. "nothing" \notin ClosedPages /\ "dashboard" \in DOMAIN Routes /\ "none" \notin DOMAIN Routes
    BY RouteSets DEF Notices
  <1>2. ASSUME NEW r \in DOMAIN Routes, Ask(r) PROVE PageIInv'
    BY <1>1, <1>2 DEF Ask, PageIInv, GatesInv, MemberStaysIn, ClosedMeansClosed
  <1>3. CASE Leave
    BY <1>1, <1>3 DEF Leave, world, PageIInv, GatesInv, MemberStaysIn, ClosedMeansClosed, ClosedPages
  <1>4. CASE SignsIn
    BY <1>1, <1>4 DEF SignsIn, PageIInv, GatesInv, MemberStaysIn, ClosedMeansClosed
  <1> QED
    BY <1>2, <1>3, <1>4

LEMMA ChangedKept ==
  ASSUME PageIInv, AccountChanges \/ SiteSwitches \/ SessionEnds \/ UNCHANGED pageVars
  PROVE  PageIInv'
  <1>1. ASSUME NEW r, NEW closed \in BOOLEAN, NEW session, Changed(r, closed, session) PROVE PageIInv'
    BY <1>1 DEF Changed, PageIInv, GatesInv, MemberStaysIn, ClosedMeansClosed
  <1>2. closedSite \in BOOLEAN
    BY DEF PageIInv
  <1>3. CASE UNCHANGED pageVars
    <2>1. MemberStaysIn'
      BY <1>3 DEF pageVars, PageIInv, GatesInv, MemberStaysIn
    <2>2. ClosedMeansClosed'
      BY <1>3 DEF pageVars, PageIInv, GatesInv, ClosedMeansClosed, AdminVisits
    <2> QED
      BY <1>3, <2>1, <2>2 DEF pageVars, PageIInv, Member, GatesInv
  <1> QED
    BY <1>1, <1>2, <1>3 DEF AccountChanges, SiteSwitches, SessionEnds

\* Every member of the team finds the dashboard they asked for, and a closed site is
\* closed to everybody else, through any run of requests, redirects, previews and
\* changes of the account, the session and the maintenance mode: the gates of
\* http_route() agree with one another.
THEOREM GatesThm == PageSpec => []GatesInv
  <1>1. PageIInv /\ [PageNext]_pageVars => PageIInv'
    BY AnswerKept, VisitKept, ChangedKept DEF PageNext
  <1>2. PageIInv => GatesInv
    BY DEF PageIInv
  <1> QED
    BY <1>1, <1>2, PageInitially, PTL DEF PageSpec

-----------------------------------------------------------------------------
(* WML decks.  What a card shows, weighs and counts in pieces are folds over *)
(* its blocks; each goes through a concatenation, so every turn of the       *)
(* packing is an equation between concatenations.                            *)

\* A set of numbers has a least one.
LEMMA LeastExists ==
  ASSUME NEW S \in SUBSET Nat, S # {}
  PROVE  \E m \in S : \A k \in S : m <= k
  <1> DEFINE R == OpToRel(<, Nat)
  <1>1. IsWellFoundedOn(R, Nat)
    BY NatLessThanWellFounded
  <1>2. PICK m \in S : \A k \in S : <<k, m>> \notin R
    <2> HIDE DEF R
    <2> QED
      BY <1>1, WFMin
  <1>3. ASSUME NEW k \in S PROVE m <= k
    <2>1. ~(k < m)
      BY <1>2 DEF OpToRel
    <2> QED
      BY <2>1
  <1> QED
    BY <1>3

-----------------------------------------------------------------------------
(* The two folds: totals of sizes, and what is shown one after another.     *)

\* The running total of the first l members of s.
IsTotal(f, s, l) == f = [k \in 0 .. l |-> IF k = 0 THEN 0 ELSE f[k - 1] + s[k]]

\* The recursive function Total stands for exists.
LEMMA TotalExists ==
  ASSUME NEW s, NEW l \in Nat
  PROVE  \E f : IsTotal(f, s, l)
  <1> DEFINE Bad == {n \in Nat : ~\E f : IsTotal(f, s, n)}
  <1>1. SUFFICES ASSUME Bad # {} PROVE FALSE
    OBVIOUS
  <1>2. PICK n \in Bad : \A k \in Bad : n <= k
    <2>1. Bad \in SUBSET Nat
      OBVIOUS
    <2> HIDE DEF Bad
    <2> QED
      BY <1>1, <2>1, LeastExists
  <1>3. n # 0
    <2>1. IsTotal([k \in 0 .. 0 |-> 0], s, 0)
      BY DEF IsTotal
    <2>2. 0 \notin Bad
      BY <2>1
    <2> QED
      BY <2>2
  <1>4. n \in Nat /\ n - 1 \in Nat /\ n - 1 \notin Bad
    BY <1>2, <1>3
  <1>5. PICK f : IsTotal(f, s, n - 1)
    BY <1>4
  <1> DEFINE g == [k \in 0 .. n |-> IF k < n THEN f[k] ELSE f[n - 1] + s[n]]
  <1>6. \A k \in 0 .. n - 1 : g[k] = f[k]
    BY <1>4
  <1>7. g[n] = g[n - 1] + s[n]
    BY <1>4, <1>6
  <1>8. \A k \in 0 .. n - 1 : g[k] = IF k = 0 THEN 0 ELSE g[k - 1] + s[k]
    <2>1. TAKE k \in 0 .. n - 1
    <2>2. f[k] = IF k = 0 THEN 0 ELSE f[k - 1] + s[k]
      <3>1. f[k] = [i \in 0 .. n - 1 |-> IF i = 0 THEN 0 ELSE f[i - 1] + s[i]][k]
        BY <1>5 DEF IsTotal
      <3> QED
        BY <3>1
    <2>3. k # 0 => k - 1 \in 0 .. n - 1
      BY <1>4
    <2> HIDE DEF g
    <2> QED
      BY <1>6, <2>2, <2>3
  <1>9. IsTotal(g, s, n)
    <2>1. g = [k \in 0 .. n |-> g[k]]
      OBVIOUS
    <2> HIDE DEF g
    <2>2. \A k \in 0 .. n : g[k] = IF k = 0 THEN 0 ELSE g[k - 1] + s[k]
      BY <1>3, <1>4, <1>7, <1>8
    <2> QED
      BY <2>1, <2>2 DEF IsTotal
  <1> QED
    BY <1>4, <1>9

TotalUpto(f, s) == f[0] = 0 /\ \A k \in 1 .. Len(s) : f[k] = f[k - 1] + s[k]

\* Total is where the running total ends, and every running total is a number.
LEMMA TotalSteps ==
  ASSUME NEW s \in Seq(Nat)
  PROVE  \E f : Total(s) = f[Len(s)] /\ TotalUpto(f, s) /\ \A k \in 0 .. Len(s) : f[k] \in Nat
  <1>0. Len(s) \in Nat /\ \A k \in 1 .. Len(s) : s[k] \in Nat
    OBVIOUS
  <1>1. PICK f : f = CHOOSE h : IsTotal(h, s, Len(s))
    OBVIOUS
  <1>2. IsTotal(f, s, Len(s))
    BY <1>0, <1>1, TotalExists
  <1>3. Total(s) = f[Len(s)]
    BY <1>1 DEF Total, IsTotal
  <1>4. \A k \in 0 .. Len(s) : f[k] = IF k = 0 THEN 0 ELSE f[k - 1] + s[k]
    <2>1. TAKE k \in 0 .. Len(s)
    <2>2. f[k] = [i \in 0 .. Len(s) |-> IF i = 0 THEN 0 ELSE f[i - 1] + s[i]][k]
      BY <1>2 DEF IsTotal
    <2> QED
      BY <2>2
  <1>5. TotalUpto(f, s)
    BY <1>0, <1>4 DEF TotalUpto
  <1> DEFINE Bad == {n \in 0 .. Len(s) : f[n] \notin Nat}
  <1>6. Bad = {}
    <2>1. SUFFICES ASSUME Bad # {} PROVE FALSE
      OBVIOUS
    <2>2. PICK n \in Bad : \A k \in Bad : n <= k
      <3>1. Bad \in SUBSET Nat
        BY <1>0
      <3> HIDE DEF Bad
      <3> QED
        BY <2>1, <3>1, LeastExists
    <2>3. n # 0
      BY <1>5 DEF TotalUpto
    <2>4. n \in 1 .. Len(s) /\ n - 1 \in 0 .. Len(s) /\ n - 1 \notin Bad
      <3>1. n \in 0 .. Len(s)
        OBVIOUS
      <3>2. n \in 1 .. Len(s) /\ n - 1 \in 0 .. Len(s) /\ ~(n <= n - 1)
        BY <1>0, <2>3, <3>1
      <3> HIDE DEF Bad
      <3> QED
        BY <2>2, <3>2
    <2>5. f[n] = f[n - 1] + s[n] /\ f[n - 1] \in Nat /\ s[n] \in Nat
      BY <1>0, <1>5, <2>4 DEF TotalUpto
    <2> QED
      BY <2>5
  <1> QED
    BY <1>3, <1>5, <1>6

\* Whatever runs like the total ends where it does.
LEMMA TotalIs ==
  ASSUME NEW s \in Seq(Nat), NEW g, TotalUpto(g, s)
  PROVE  Total(s) = g[Len(s)]
  <1>0. Len(s) \in Nat
    OBVIOUS
  <1>1. PICK f : Total(s) = f[Len(s)] /\ TotalUpto(f, s)
    BY TotalSteps
  <1> DEFINE Bad == {n \in 0 .. Len(s) : f[n] # g[n]}
  <1>2. Bad = {}
    <2>1. SUFFICES ASSUME Bad # {} PROVE FALSE
      OBVIOUS
    <2>2. PICK n \in Bad : \A k \in Bad : n <= k
      <3>1. Bad \in SUBSET Nat
        BY <1>0
      <3> HIDE DEF Bad
      <3> QED
        BY <2>1, <3>1, LeastExists
    <2>3. n # 0
      BY <1>1 DEF TotalUpto
    <2>4. n \in 1 .. Len(s) /\ n - 1 \in 0 .. Len(s) /\ n - 1 \notin Bad
      <3>1. n \in 0 .. Len(s)
        OBVIOUS
      <3>2. n \in 1 .. Len(s) /\ n - 1 \in 0 .. Len(s) /\ ~(n <= n - 1)
        BY <1>0, <2>3, <3>1
      <3> HIDE DEF Bad
      <3> QED
        BY <2>2, <3>2
    <2> QED
      BY <1>1, <2>2, <2>4 DEF TotalUpto
  <1> QED
    BY <1>0, <1>1, <1>2

LEMMA TotalLaws ==
  ASSUME NEW s \in Seq(Nat)
  PROVE  Total(s) \in Nat /\ (s = << >> => Total(s) = 0)
  <1>1. PICK f : Total(s) = f[Len(s)] /\ TotalUpto(f, s) /\ \A k \in 0 .. Len(s) : f[k] \in Nat
    BY TotalSteps
  <1> QED
    BY <1>1 DEF TotalUpto

LEMMA TotalOne ==
  ASSUME NEW x \in Nat
  PROVE  Total(<<x>>) = x
  <1> DEFINE g == [k \in 0 .. 1 |-> IF k = 0 THEN 0 ELSE x]
  <1>1. TotalUpto(g, <<x>>)
    <2>1. g[0] = 0 /\ g[1] = x /\ g[1 - 1] = 0
      OBVIOUS
    <2>2. 0 + x = x
      OBVIOUS
    <2>3. Len(<<x>>) = 1 /\ <<x>>[1] = x
      OBVIOUS
    <2>4. \A k \in 1 .. Len(<<x>>) : k = 1
      BY <2>3
    <2> HIDE DEF g
    <2> QED
      BY <2>1, <2>2, <2>3, <2>4 DEF TotalUpto
  <1>2. <<x>> \in Seq(Nat) /\ Len(<<x>>) = 1 /\ g[1] = x
    OBVIOUS
  <1> HIDE DEF g
  <1> QED
    BY <1>1, <1>2, TotalIs

\* The total of two sequences, one after the other, is the sum of theirs.
LEMMA TotalCat ==
  ASSUME NEW s \in Seq(Nat), NEW t \in Seq(Nat)
  PROVE  Total(s \o t) = Total(s) + Total(t)
  <1>0. Len(s) \in Nat /\ Len(t) \in Nat
    OBVIOUS
  <1>1. PICK f : Total(s) = f[Len(s)] /\ TotalUpto(f, s) /\ \A k \in 0 .. Len(s) : f[k] \in Nat
    BY TotalSteps
  <1>2. PICK g : Total(t) = g[Len(t)] /\ TotalUpto(g, t) /\ \A k \in 0 .. Len(t) : g[k] \in Nat
    BY TotalSteps
  <1>3. PICK m \in Nat : m = Len(s)
    BY <1>0
  <1>4. PICK n \in Nat : n = Len(t)
    BY <1>0
  <1>5. PICK st \in Seq(Nat) : st = s \o t
    BY ConcatProperties
  <1>6. /\ Len(st) = m + n
        /\ \A k \in 1 .. m : st[k] = s[k]
        /\ \A k \in 1 .. n : st[m + k] = t[k]
    <2>1. Len(st) = m + n
      BY <1>3, <1>4, <1>5
    <2>2. \A k \in 1 .. m : st[k] = s[k]
      BY <1>3, <1>4, <1>5
    <2>3. \A k \in 1 .. n : st[m + k] = t[k]
      BY <1>3, <1>4, <1>5
    <2> QED
      BY <2>1, <2>2, <2>3
  <1> DEFINE h == [k \in 0 .. m + n |-> IF k <= m THEN f[k] ELSE f[m] + g[k - m]]
  <1>7. \A k \in 0 .. m : h[k] = f[k]
    OBVIOUS
  <1>8. \A k \in 0 .. n : h[m + k] = f[m] + g[k]
    <2>1. TAKE k \in 0 .. n
    <2>2. CASE k = 0
      <3>1. g[0] = 0 /\ f[m] \in Nat
        BY <1>1, <1>2, <1>3 DEF TotalUpto
      <3>2. h[m + k] = f[m]
        BY <2>2
      <3> HIDE DEF h
      <3> QED
        BY <2>2, <3>1, <3>2
    <2>3. CASE k # 0
      <3>1. m + k \in 0 .. m + n /\ ~(m + k <= m) /\ (m + k) - m = k
        BY <2>3
      <3> QED
        BY <3>1
    <2> QED
      BY <2>2, <2>3
  <1> HIDE DEF h
  <1>9. TotalUpto(h, st)
    <2>1. h[0] = 0
      BY <1>1, <1>7 DEF TotalUpto
    <2>2. ASSUME NEW k \in 1 .. Len(st) PROVE h[k] = h[k - 1] + st[k]
      <3>1. CASE k <= m
        <4>1. k \in 1 .. m /\ k - 1 \in 0 .. m /\ k \in 0 .. m
          BY <1>6, <3>1
        <4> QED
          BY <1>1, <1>3, <1>6, <1>7, <4>1 DEF TotalUpto
      <3>2. CASE ~(k <= m)
        <4>1. PICK i \in 1 .. n : k = m + i
          <5>1. k - m \in 1 .. n /\ k = m + (k - m)
            BY <1>6, <3>2
          <5> QED
            BY <5>1
        <4>2. i \in 0 .. n /\ i - 1 \in 0 .. n /\ k - 1 = m + (i - 1)
          BY <4>1
        <4>3. h[k] = f[m] + g[i] /\ h[k - 1] = f[m] + g[i - 1]
          BY <1>8, <4>1, <4>2
        <4>4. g[i] = g[i - 1] + t[i] /\ st[k] = t[i]
          BY <1>2, <1>4, <1>6, <4>1 DEF TotalUpto
        <4>5. f[m] \in Nat /\ g[i - 1] \in Nat /\ t[i] \in Nat
          BY <1>1, <1>2, <1>3, <1>4, <4>1, <4>2
        <4>6. PICK a \in Nat, b \in Nat, c \in Nat : a = f[m] /\ b = g[i - 1] /\ c = t[i]
          BY <4>5
        <4>7. a + (b + c) = (a + b) + c
          OBVIOUS
        <4> QED
          BY <4>3, <4>4, <4>6, <4>7
      <3> QED
        BY <3>1, <3>2
    <2> QED
      BY <2>1, <2>2 DEF TotalUpto
  <1>10. Total(st) = h[m + n]
    BY <1>5, <1>6, <1>9, TotalIs
  <1> QED
    BY <1>1, <1>2, <1>3, <1>4, <1>5, <1>8, <1>10

\* Concatenation, by a name the proofs can leave unexpanded.
NoItems == << >>
Join(a, b) == a \o b

\* Nothing before or after changes nothing.
LEMMA JoinLaws ==
  ASSUME NEW X, NEW a \in Seq(X), NEW b \in Seq(X)
  PROVE  NoItems \in Seq(X) /\ Join(a, b) \in Seq(X) /\ Join(NoItems, a) = a /\ Join(a, NoItems) = a
  BY ConcatProperties, ConcatEmptySeq DEF NoItems, Join

LEMMA JoinAssociative ==
  ASSUME NEW X, NEW a \in Seq(X), NEW b \in Seq(X), NEW c \in Seq(X)
  PROVE  Join(a, Join(b, c)) = Join(Join(a, b), c)
  BY ConcatAssociative DEF Join

\* The running concatenation of the first l members of s.
IsFlat(f, s, l) == f = [k \in 0 .. l |-> IF k = 0 THEN NoItems ELSE Join(f[k - 1], s[k])]

\* The same of Flat.
LEMMA FlatExists ==
  ASSUME NEW s, NEW l \in Nat
  PROVE  \E f : IsFlat(f, s, l)
  <1> DEFINE Bad == {n \in Nat : ~\E f : IsFlat(f, s, n)}
  <1>1. SUFFICES ASSUME Bad # {} PROVE FALSE
    OBVIOUS
  <1>2. PICK n \in Bad : \A k \in Bad : n <= k
    <2>1. Bad \in SUBSET Nat
      OBVIOUS
    <2> HIDE DEF Bad
    <2> QED
      BY <1>1, <2>1, LeastExists
  <1>3. n # 0
    <2>1. IsFlat([k \in 0 .. 0 |-> NoItems], s, 0)
      BY DEF IsFlat
    <2>2. 0 \notin Bad
      BY <2>1
    <2> QED
      BY <2>2
  <1>4. n \in Nat /\ n - 1 \in Nat /\ n - 1 \notin Bad
    BY <1>2, <1>3
  <1>5. PICK f : IsFlat(f, s, n - 1)
    BY <1>4
  <1> DEFINE g == [k \in 0 .. n |-> IF k < n THEN f[k] ELSE Join(f[n - 1], s[n])]
  <1>6. \A k \in 0 .. n - 1 : g[k] = f[k]
    BY <1>4
  <1>7. g[n] = Join(g[n - 1], s[n])
    BY <1>4, <1>6
  <1>8. \A k \in 0 .. n - 1 : g[k] = IF k = 0 THEN NoItems ELSE Join(g[k - 1], s[k])
    <2>1. TAKE k \in 0 .. n - 1
    <2>2. f[k] = IF k = 0 THEN NoItems ELSE Join(f[k - 1], s[k])
      <3>1. f[k] = [i \in 0 .. n - 1 |-> IF i = 0 THEN NoItems ELSE Join(f[i - 1], s[i])][k]
        BY <1>5 DEF IsFlat
      <3> QED
        BY <3>1
    <2>3. k # 0 => k - 1 \in 0 .. n - 1
      BY <1>4
    <2> HIDE DEF g
    <2> QED
      BY <1>6, <2>2, <2>3
  <1>9. IsFlat(g, s, n)
    <2>1. g = [k \in 0 .. n |-> g[k]]
      OBVIOUS
    <2> HIDE DEF g
    <2>2. \A k \in 0 .. n : g[k] = IF k = 0 THEN NoItems ELSE Join(g[k - 1], s[k])
      BY <1>3, <1>4, <1>7, <1>8
    <2> QED
      BY <2>1, <2>2 DEF IsFlat
  <1> QED
    BY <1>4, <1>9

FlatUpto(f, s) == f[0] = NoItems /\ \A k \in 1 .. Len(s) : f[k] = Join(f[k - 1], s[k])

LEMMA FlatSteps ==
  ASSUME NEW X, NEW s \in Seq(Seq(X))
  PROVE  \E f : Flat(s) = f[Len(s)] /\ FlatUpto(f, s) /\ \A k \in 0 .. Len(s) : f[k] \in Seq(X)
  <1>0. Len(s) \in Nat /\ \A k \in 1 .. Len(s) : s[k] \in Seq(X)
    OBVIOUS
  <1>1. PICK f : f = CHOOSE h : IsFlat(h, s, Len(s))
    OBVIOUS
  <1>2. IsFlat(f, s, Len(s))
    BY <1>0, <1>1, FlatExists
  <1>3. Flat(s) = f[Len(s)]
    BY <1>1 DEF Flat, IsFlat, Join, NoItems
  <1>4. \A k \in 0 .. Len(s) : f[k] = IF k = 0 THEN NoItems ELSE Join(f[k - 1], s[k])
    <2>1. TAKE k \in 0 .. Len(s)
    <2>2. f[k] = [i \in 0 .. Len(s) |-> IF i = 0 THEN NoItems ELSE Join(f[i - 1], s[i])][k]
      BY <1>2 DEF IsFlat
    <2> QED
      BY <2>2
  <1>5. FlatUpto(f, s)
    BY <1>0, <1>4 DEF FlatUpto
  <1> DEFINE Bad == {n \in 0 .. Len(s) : f[n] \notin Seq(X)}
  <1>6. Bad = {}
    <2>1. SUFFICES ASSUME Bad # {} PROVE FALSE
      OBVIOUS
    <2>2. PICK n \in Bad : \A k \in Bad : n <= k
      <3>1. Bad \in SUBSET Nat
        BY <1>0
      <3> HIDE DEF Bad
      <3> QED
        BY <2>1, <3>1, LeastExists
    <2>3. n # 0
      BY <1>5, EmptySeq DEF FlatUpto, NoItems
    <2>4. n \in 1 .. Len(s) /\ n - 1 \in 0 .. Len(s) /\ n - 1 \notin Bad
      <3>1. n \in 0 .. Len(s)
        OBVIOUS
      <3>2. n \in 1 .. Len(s) /\ n - 1 \in 0 .. Len(s) /\ ~(n <= n - 1)
        BY <1>0, <2>3, <3>1
      <3> HIDE DEF Bad
      <3> QED
        BY <2>2, <3>2
    <2>5. f[n] = Join(f[n - 1], s[n]) /\ f[n - 1] \in Seq(X) /\ s[n] \in Seq(X)
      BY <1>0, <1>5, <2>4 DEF FlatUpto
    <2> QED
      BY <2>4, <2>5, JoinLaws
  <1> QED
    BY <1>3, <1>5, <1>6

LEMMA FlatIs ==
  ASSUME NEW X, NEW s \in Seq(Seq(X)), NEW g, FlatUpto(g, s)
  PROVE  Flat(s) = g[Len(s)]
  <1>0. Len(s) \in Nat
    OBVIOUS
  <1>1. PICK f : Flat(s) = f[Len(s)] /\ FlatUpto(f, s)
    BY FlatSteps
  <1> DEFINE Bad == {n \in 0 .. Len(s) : f[n] # g[n]}
  <1>2. Bad = {}
    <2>1. SUFFICES ASSUME Bad # {} PROVE FALSE
      OBVIOUS
    <2>2. PICK n \in Bad : \A k \in Bad : n <= k
      <3>1. Bad \in SUBSET Nat
        BY <1>0
      <3> HIDE DEF Bad
      <3> QED
        BY <2>1, <3>1, LeastExists
    <2>3. n # 0
      BY <1>1 DEF FlatUpto
    <2>4. n \in 1 .. Len(s) /\ n - 1 \in 0 .. Len(s) /\ n - 1 \notin Bad
      <3>1. n \in 0 .. Len(s)
        OBVIOUS
      <3>2. n \in 1 .. Len(s) /\ n - 1 \in 0 .. Len(s) /\ ~(n <= n - 1)
        BY <1>0, <2>3, <3>1
      <3> HIDE DEF Bad
      <3> QED
        BY <2>2, <3>2
    <2> QED
      BY <1>1, <2>2, <2>4 DEF FlatUpto
  <1> QED
    BY <1>0, <1>1, <1>2

LEMMA FlatLaws ==
  ASSUME NEW X, NEW s \in Seq(Seq(X))
  PROVE  Flat(s) \in Seq(X) /\ (s = << >> => Flat(s) = NoItems)
  <1>1. PICK f : Flat(s) = f[Len(s)] /\ FlatUpto(f, s) /\ \A k \in 0 .. Len(s) : f[k] \in Seq(X)
    BY FlatSteps
  <1> QED
    BY <1>1 DEF FlatUpto

LEMMA FlatOne ==
  ASSUME NEW X, NEW x \in Seq(X)
  PROVE  Flat(<<x>>) = x
  <1> DEFINE g == [k \in 0 .. 1 |-> IF k = 0 THEN NoItems ELSE x]
  <1>1. FlatUpto(g, <<x>>)
    <2>1. g[0] = NoItems /\ g[1] = x /\ g[1 - 1] = NoItems
      OBVIOUS
    <2>2. Join(NoItems, x) = x
      BY JoinLaws
    <2>3. Len(<<x>>) = 1 /\ <<x>>[1] = x
      OBVIOUS
    <2>4. \A k \in 1 .. Len(<<x>>) : k = 1
      BY <2>3
    <2> HIDE DEF g
    <2> QED
      BY <2>1, <2>2, <2>3, <2>4 DEF FlatUpto
  <1>2. <<x>> \in Seq(Seq(X)) /\ Len(<<x>>) = 1 /\ g[1] = x
    OBVIOUS
  <1> HIDE DEF g
  <1> QED
    BY <1>1, <1>2, FlatIs

\* What is shown of two sequences, one after the other.
LEMMA FlatCat ==
  ASSUME NEW X, NEW s \in Seq(Seq(X)), NEW t \in Seq(Seq(X))
  PROVE  Flat(s \o t) = Join(Flat(s), Flat(t))
  <1>0. Len(s) \in Nat /\ Len(t) \in Nat
    OBVIOUS
  <1>1. PICK f : Flat(s) = f[Len(s)] /\ FlatUpto(f, s) /\ \A k \in 0 .. Len(s) : f[k] \in Seq(X)
    BY FlatSteps
  <1>2. PICK g : Flat(t) = g[Len(t)] /\ FlatUpto(g, t) /\ \A k \in 0 .. Len(t) : g[k] \in Seq(X)
    BY FlatSteps
  <1>3. PICK m \in Nat : m = Len(s)
    BY <1>0
  <1>4. PICK n \in Nat : n = Len(t)
    BY <1>0
  <1>5. PICK st \in Seq(Seq(X)) : st = s \o t
    BY ConcatProperties
  <1>6. /\ Len(st) = m + n
        /\ \A k \in 1 .. m : st[k] = s[k]
        /\ \A k \in 1 .. n : st[m + k] = t[k]
    <2>1. Len(st) = m + n
      BY <1>3, <1>4, <1>5
    <2>2. \A k \in 1 .. m : st[k] = s[k]
      BY <1>3, <1>4, <1>5
    <2>3. \A k \in 1 .. n : st[m + k] = t[k]
      BY <1>3, <1>4, <1>5
    <2> QED
      BY <2>1, <2>2, <2>3
  <1> DEFINE h == [k \in 0 .. m + n |-> IF k <= m THEN f[k] ELSE Join(f[m], g[k - m])]
  <1>7. \A k \in 0 .. m : h[k] = f[k]
    OBVIOUS
  <1>8. \A k \in 0 .. n : h[m + k] = Join(f[m], g[k])
    <2>1. TAKE k \in 0 .. n
    <2>2. CASE k = 0
      <3>1. g[0] = NoItems /\ f[m] \in Seq(X)
        BY <1>1, <1>2, <1>3 DEF FlatUpto
      <3>2. h[m + k] = f[m]
        BY <2>2
      <3> HIDE DEF h
      <3> QED
        BY <2>2, <3>1, <3>2, JoinLaws
    <2>3. CASE k # 0
      <3>1. m + k \in 0 .. m + n /\ ~(m + k <= m) /\ (m + k) - m = k
        BY <2>3
      <3> QED
        BY <3>1
    <2> QED
      BY <2>2, <2>3
  <1> HIDE DEF h
  <1>9. FlatUpto(h, st)
    <2>1. h[0] = NoItems
      BY <1>1, <1>7 DEF FlatUpto
    <2>2. ASSUME NEW k \in 1 .. Len(st) PROVE h[k] = Join(h[k - 1], st[k])
      <3>1. CASE k <= m
        <4>1. k \in 1 .. m /\ k - 1 \in 0 .. m /\ k \in 0 .. m
          BY <1>6, <3>1
        <4> QED
          BY <1>1, <1>3, <1>6, <1>7, <4>1 DEF FlatUpto
      <3>2. CASE ~(k <= m)
        <4>1. PICK i \in 1 .. n : k = m + i
          <5>1. k - m \in 1 .. n /\ k = m + (k - m)
            BY <1>6, <3>2
          <5> QED
            BY <5>1
        <4>2. i \in 0 .. n /\ i - 1 \in 0 .. n /\ k - 1 = m + (i - 1)
          BY <4>1
        <4>3. h[k] = Join(f[m], g[i]) /\ h[k - 1] = Join(f[m], g[i - 1])
          BY <1>8, <4>1, <4>2
        <4>4. g[i] = Join(g[i - 1], t[i]) /\ st[k] = t[i]
          BY <1>2, <1>4, <1>6, <4>1 DEF FlatUpto
        <4>5. f[m] \in Seq(X) /\ g[i - 1] \in Seq(X) /\ t[i] \in Seq(X)
          BY <1>1, <1>2, <1>3, <1>4, <4>1, <4>2
        <4>6. PICK a \in Seq(X), b \in Seq(X), c \in Seq(X) : a = f[m] /\ b = g[i - 1] /\ c = t[i]
          BY <4>5
        <4>7. Join(a, Join(b, c)) = Join(Join(a, b), c)
          BY JoinAssociative
        <4> QED
          BY <4>3, <4>4, <4>6, <4>7
      <3> QED
        BY <3>1, <3>2
    <2> QED
      BY <2>1, <2>2 DEF FlatUpto
  <1>10. Flat(st) = h[m + n]
    BY <1>5, <1>6, <1>9, FlatIs
  <1> QED
    BY <1>1, <1>2, <1>3, <1>4, <1>5, <1>8, <1>10

-----------------------------------------------------------------------------
(* Folds of what a sequence's members are worth.                            *)

Maps(g, S, R) == g \in [S -> R]
Mapped(g, s) == [i \in DOMAIN s |-> g[s[i]]]

\* What Mapped is, and that it goes through a concatenation.
LEMMA MappedIs ==
  ASSUME NEW S, NEW R, NEW g, Maps(g, S, R), NEW u \in Seq(S)
  PROVE  /\ Mapped(g, u) \in Seq(R) /\ Len(Mapped(g, u)) = Len(u)
         /\ \A i \in 1 .. Len(u) : Mapped(g, u)[i] = g[u[i]]
         /\ u = << >> => Mapped(g, u) = << >>
  <1>1. DOMAIN u = 1 .. Len(u) /\ Len(u) \in Nat /\ \A i \in 1 .. Len(u) : u[i] \in S
    OBVIOUS
  <1>2. Mapped(g, u) \in [1 .. Len(u) -> R]
    BY <1>1 DEF Mapped, Maps
  <1>3. Mapped(g, u) \in Seq(R)
    BY <1>1, <1>2, IsASeq
  <1>4. DOMAIN Mapped(g, u) = 1 .. Len(u)
    BY <1>2
  <1>5. Len(Mapped(g, u)) = Len(u)
    BY <1>1, <1>3, <1>4, LenProperties
  <1>6. u = << >> => Mapped(g, u) = << >>
    BY <1>3, <1>5, EmptySeq
  <1> QED
    BY <1>1, <1>3, <1>5, <1>6 DEF Mapped

LEMMA MappedCat ==
  ASSUME NEW S, NEW R, NEW g, Maps(g, S, R), NEW s \in Seq(S), NEW t \in Seq(S)
  PROVE  Mapped(g, s \o t) = Mapped(g, s) \o Mapped(g, t)
  <1>0. PICK m \in Nat, n \in Nat : m = Len(s) /\ n = Len(t)
    BY LenProperties
  <1>2. PICK st \in Seq(S) : st = s \o t
    BY ConcatProperties
  <1>3. /\ Len(st) = m + n /\ \A i \in 1 .. m : st[i] = s[i]
        /\ \A i \in m + 1 .. m + n : st[i] = t[i - m]
    BY <1>0, <1>2, ConcatProperties
  <1>4. PICK ms \in Seq(R), mt \in Seq(R), mst \in Seq(R) : ms = Mapped(g, s) /\ mt = Mapped(g, t) /\ mst = Mapped(g, st)
    BY MappedIs
  <1>1. /\ Len(ms) = m /\ Len(mt) = n /\ Len(mst) = m + n
        /\ \A i \in 1 .. m : ms[i] = g[s[i]]
        /\ \A i \in 1 .. n : mt[i] = g[t[i]]
        /\ \A i \in 1 .. m + n : mst[i] = g[st[i]]
    BY <1>0, <1>3, <1>4, MappedIs
  <1>5. PICK c \in Seq(R) : c = ms \o mt
    BY ConcatProperties
  <1>6. Len(c) = m + n /\ (\A i \in 1 .. m : c[i] = ms[i]) /\ \A i \in m + 1 .. m + n : c[i] = mt[i - m]
    <2>1. Len(c) = m + n
      BY <1>1, <1>5, ConcatProperties
    <2>2. \A i \in 1 .. m + n : c[i] = IF i <= m THEN ms[i] ELSE mt[i - m]
      BY <1>1, <1>5, ConcatProperties
    <2> QED
      BY <2>1, <2>2
  <1>7. \A i \in 1 .. m + n : mst[i] = c[i]
    <2>1. TAKE i \in 1 .. m + n
    <2>3. CASE i <= m
      <3>1. i \in 1 .. m
        BY <2>3
      <3>2. mst[i] = g[st[i]] /\ st[i] = s[i] /\ ms[i] = g[s[i]] /\ c[i] = ms[i]
        BY <1>1, <1>3, <1>6, <3>1
      <3> QED
        BY <3>2
    <2>4. CASE ~(i <= m)
      <3>1. i \in m + 1 .. m + n /\ i - m \in 1 .. n
        BY <2>4
      <3> QED
        <4>1. mst[i] = g[st[i]] /\ st[i] = t[i - m] /\ c[i] = mt[i - m]
          BY <1>1, <1>3, <1>6, <3>1
        <4>2. mt[i - m] = g[t[i - m]]
          BY <1>1, <3>1
        <4> QED
          BY <4>1, <4>2
    <2> QED
      BY <2>3, <2>4
  <1>8. mst = c
    BY <1>1, <1>6, <1>7, SeqEqual
  <1> QED
    BY <1>2, <1>4, <1>5, <1>8

LEMMA MappedOne ==
  ASSUME NEW S, NEW R, NEW g, Maps(g, S, R), NEW x \in S
  PROVE  Mapped(g, <<x>>) = <<g[x]>>
  BY DEF Mapped, Maps

ShownItem == DeckWord \cup DeckKid

\* A text child with words, and what a child may be.
LEMMA TextIs ==
  ASSUME NEW ws \in Seq(DeckWord), ws # << >>
  PROVE  Text(ws) \in DeckKid /\ Text(ws).kind = "text" /\ Text(ws).words = ws
  BY DEF Text, DeckKid, DeckText

LEMMA KidIs ==
  ASSUME NEW k \in DeckKid
  PROVE  /\ k.kind = "text" => k.words \in Seq(DeckWord) /\ k.words # << >> /\ k = Text(k.words)
         /\ k.kind # "text" => k \in DeckElement /\ k.size \in Nat
  <1>1. CASE k \in DeckText
    <2>1. k.kind = "text" /\ k.words \in Seq(DeckWord) /\ k.words # << >> /\ k = [kind |-> "text", words |-> k.words]
      BY <1>1 DEF DeckText
    <2> QED
      BY <2>1 DEF Text
  <1>2. CASE k \in DeckElement
    BY <1>2 DEF DeckElement
  <1> QED
    BY <1>1, <1>2 DEF DeckKid

WordsLen(ws) == Total([i \in DOMAIN ws |-> ws[i].len])

\* The words of a text weigh the total of theirs.
LEMMA WordsLenMap ==
  \E g : /\ Maps(g, DeckWord, Nat) /\ \A y \in DeckWord : g[y] = y.len /\ g[y] \in Nat
         /\ \A s \in Seq(DeckWord) : WordsLen(s) = Total(Mapped(g, s))
  <1>1. \A y \in DeckWord : y.len \in Nat
    BY DEF DeckWord
  <1>2. PICK g \in [DeckWord -> Nat] : \A y \in DeckWord : g[y] = y.len
    <2>1. [y \in DeckWord |-> y.len] \in [DeckWord -> Nat]
      BY <1>1
    <2> QED
      BY <2>1
  <1>3. ASSUME NEW s \in Seq(DeckWord) PROVE WordsLen(s) = Total(Mapped(g, s))
    <2>1. \A i \in DOMAIN s : s[i] \in DeckWord
      OBVIOUS
    <2>2. Mapped(g, s) = [i \in DOMAIN s |-> s[i].len]
      BY <1>2, <2>1 DEF Mapped
    <2> QED
      BY <2>2 DEF WordsLen
  <1>4. Maps(g, DeckWord, Nat)
    BY <1>2 DEF Maps
  <1> QED
    BY <1>1, <1>2, <1>3, <1>4

LEMMA WordsLenLaws ==
  ASSUME NEW a \in Seq(DeckWord)
  PROVE  WordsLen(a) \in Nat /\ (a = << >> => WordsLen(a) = 0)
  <1>1. PICK g : Maps(g, DeckWord, Nat) /\ WordsLen(a) = Total(Mapped(g, a))
    BY WordsLenMap
  <1>2. Mapped(g, a) \in Seq(Nat) /\ (a = << >> => Mapped(g, a) = << >>)
    BY <1>1, MappedIs
  <1> QED
    BY <1>1, <1>2, TotalLaws

LEMMA WordsLenOne ==
  ASSUME NEW x \in DeckWord
  PROVE  WordsLen(<<x>>) = x.len
  <1>0. PICK s \in Seq(DeckWord) : s = <<x>>
    <2>1. <<x>> \in Seq(DeckWord)
      OBVIOUS
    <2> QED
      BY <2>1
  <1>1. PICK g : Maps(g, DeckWord, Nat) /\ g[x] = x.len /\ g[x] \in Nat /\ WordsLen(s) = Total(Mapped(g, s))
    BY WordsLenMap
  <1>2. Mapped(g, <<x>>) = <<g[x]>>
    BY <1>1, MappedOne
  <1>3. Total(<<g[x]>>) = g[x]
    BY <1>1, TotalOne
  <1> QED
    BY <1>0, <1>1, <1>2, <1>3

LEMMA WordsLenCat ==
  ASSUME NEW a \in Seq(DeckWord), NEW b \in Seq(DeckWord)
  PROVE  WordsLen(a \o b) = WordsLen(a) + WordsLen(b)
  <1>0. a \o b \in Seq(DeckWord)
    BY ConcatProperties
  <1>1. PICK g : Maps(g, DeckWord, Nat) /\ \A s \in Seq(DeckWord) : WordsLen(s) = Total(Mapped(g, s))
    BY WordsLenMap
  <1>2. /\ Mapped(g, a) \in Seq(Nat) /\ Mapped(g, b) \in Seq(Nat)
        /\ Mapped(g, a \o b) = Mapped(g, a) \o Mapped(g, b)
    BY <1>1, MappedIs, MappedCat
  <1>3. Total(Mapped(g, a) \o Mapped(g, b)) = Total(Mapped(g, a)) + Total(Mapped(g, b))
    BY <1>2, TotalCat
  <1> QED
    BY <1>0, <1>1, <1>2, <1>3

\* A text with words weighs at least nothing.
LEMMA TextBytesIs ==
  ASSUME NEW ws \in Seq(DeckWord), ws # << >>
  PROVE  TextBytes(ws) = WordsLen(ws) + (Len(ws) - 1) /\ TextBytes(ws) \in Nat
  <1>1. TextBytes(ws) = WordsLen(ws) + (Len(ws) - 1)
    BY DEF TextBytes, WordsLen
  <1>2. Len(ws) \in Nat \ {0}
    BY EmptySeq
  <1>3. ws[1] \in DeckWord
    BY <1>2
  <1>4. WordsLen(ws) \in Nat
    BY <1>3, WordsLenLaws
  <1> QED
    BY <1>1, <1>2, <1>4

LEMMA KidSizeNat ==
  ASSUME NEW k \in DeckKid
  PROVE  KidSize(k) \in Nat
  <1>1. CASE k.kind = "text"
    BY <1>1, KidIs, TextBytesIs DEF KidSize
  <1>2. CASE k.kind # "text"
    BY <1>2, KidIs DEF KidSize
  <1> QED
    BY <1>1, <1>2

KidsSize(b) == Total([i \in DOMAIN b |-> KidSize(b[i])])

\* The children of a block weigh the total of theirs.
LEMMA KidsSizeMap ==
  \E g : /\ Maps(g, DeckKid, Nat) /\ \A y \in DeckKid : g[y] = KidSize(y) /\ g[y] \in Nat
         /\ \A s \in Seq(DeckKid) : KidsSize(s) = Total(Mapped(g, s))
  <1>1. \A y \in DeckKid : KidSize(y) \in Nat
    BY KidSizeNat
  <1>2. PICK g \in [DeckKid -> Nat] : \A y \in DeckKid : g[y] = KidSize(y)
    <2>1. [y \in DeckKid |-> KidSize(y)] \in [DeckKid -> Nat]
      BY <1>1
    <2> QED
      BY <2>1
  <1>3. ASSUME NEW s \in Seq(DeckKid) PROVE KidsSize(s) = Total(Mapped(g, s))
    <2>1. \A i \in DOMAIN s : s[i] \in DeckKid
      OBVIOUS
    <2>2. Mapped(g, s) = [i \in DOMAIN s |-> KidSize(s[i])]
      BY <1>2, <2>1 DEF Mapped
    <2> QED
      BY <2>2 DEF KidsSize
  <1>4. Maps(g, DeckKid, Nat)
    BY <1>2 DEF Maps
  <1> QED
    BY <1>1, <1>2, <1>3, <1>4

LEMMA KidsSizeLaws ==
  ASSUME NEW a \in Seq(DeckKid)
  PROVE  KidsSize(a) \in Nat /\ (a = << >> => KidsSize(a) = 0)
  <1>1. PICK g : Maps(g, DeckKid, Nat) /\ KidsSize(a) = Total(Mapped(g, a))
    BY KidsSizeMap
  <1>2. Mapped(g, a) \in Seq(Nat) /\ (a = << >> => Mapped(g, a) = << >>)
    BY <1>1, MappedIs
  <1> QED
    BY <1>1, <1>2, TotalLaws

LEMMA KidsSizeOne ==
  ASSUME NEW x \in DeckKid
  PROVE  KidsSize(<<x>>) = KidSize(x)
  <1>0. PICK s \in Seq(DeckKid) : s = <<x>>
    <2>1. <<x>> \in Seq(DeckKid)
      OBVIOUS
    <2> QED
      BY <2>1
  <1>1. PICK g : Maps(g, DeckKid, Nat) /\ g[x] = KidSize(x) /\ g[x] \in Nat /\ KidsSize(s) = Total(Mapped(g, s))
    BY KidsSizeMap
  <1>2. Mapped(g, <<x>>) = <<g[x]>>
    BY <1>1, MappedOne
  <1>3. Total(<<g[x]>>) = g[x]
    BY <1>1, TotalOne
  <1> QED
    BY <1>0, <1>1, <1>2, <1>3

LEMMA KidsSizeCat ==
  ASSUME NEW a \in Seq(DeckKid), NEW b \in Seq(DeckKid)
  PROVE  KidsSize(a \o b) = KidsSize(a) + KidsSize(b)
  <1>0. a \o b \in Seq(DeckKid)
    BY ConcatProperties
  <1>1. PICK g : Maps(g, DeckKid, Nat) /\ \A s \in Seq(DeckKid) : KidsSize(s) = Total(Mapped(g, s))
    BY KidsSizeMap
  <1>2. /\ Mapped(g, a) \in Seq(Nat) /\ Mapped(g, b) \in Seq(Nat)
        /\ Mapped(g, a \o b) = Mapped(g, a) \o Mapped(g, b)
    BY <1>1, MappedIs, MappedCat
  <1>3. Total(Mapped(g, a) \o Mapped(g, b)) = Total(Mapped(g, a)) + Total(Mapped(g, b))
    BY <1>2, TotalCat
  <1> QED
    BY <1>0, <1>1, <1>2, <1>3

LEMMA BlockSizeIs ==
  ASSUME NEW b \in DeckBlock
  PROVE  BlockSize(b) \in Nat /\ BlockSize(b) = IF b = << >> THEN 1 ELSE 2 + KidsSize(b)
  <1>1. BlockSize(b) = IF b = << >> THEN 1 ELSE 2 + KidsSize(b)
    BY DEF BlockSize, KidsSize
  <1>2. b # << >> => KidsSize(b) \in Nat
    <2>1. SUFFICES ASSUME b # << >> PROVE KidsSize(b) \in Nat
      OBVIOUS
    <2>2. b \in Seq(DeckKid)
      BY DEF DeckBlock
    <2>3. b[1] \in DeckKid
      BY <2>1, <2>2, EmptySeq
    <2> QED
      BY <2>2, <2>3, KidsSizeLaws
  <1> QED
    BY <1>1, <1>2

BlocksSize(bs) == Total([i \in DOMAIN bs |-> BlockSize(bs[i])])

\* The blocks of a card weigh the total of theirs.
LEMMA BlocksSizeMap ==
  \E g : /\ Maps(g, DeckBlock, Nat) /\ \A y \in DeckBlock : g[y] = BlockSize(y) /\ g[y] \in Nat
         /\ \A s \in Seq(DeckBlock) : BlocksSize(s) = Total(Mapped(g, s))
  <1>1. \A y \in DeckBlock : BlockSize(y) \in Nat
    BY BlockSizeIs
  <1>2. PICK g \in [DeckBlock -> Nat] : \A y \in DeckBlock : g[y] = BlockSize(y)
    <2>1. [y \in DeckBlock |-> BlockSize(y)] \in [DeckBlock -> Nat]
      BY <1>1
    <2> QED
      BY <2>1
  <1>3. ASSUME NEW s \in Seq(DeckBlock) PROVE BlocksSize(s) = Total(Mapped(g, s))
    <2>1. \A i \in DOMAIN s : s[i] \in DeckBlock
      OBVIOUS
    <2>2. Mapped(g, s) = [i \in DOMAIN s |-> BlockSize(s[i])]
      BY <1>2, <2>1 DEF Mapped
    <2> QED
      BY <2>2 DEF BlocksSize
  <1>4. Maps(g, DeckBlock, Nat)
    BY <1>2 DEF Maps
  <1> QED
    BY <1>1, <1>2, <1>3, <1>4

LEMMA BlocksSizeLaws ==
  ASSUME NEW a \in Seq(DeckBlock)
  PROVE  BlocksSize(a) \in Nat /\ (a = << >> => BlocksSize(a) = 0)
  <1>1. PICK g : Maps(g, DeckBlock, Nat) /\ BlocksSize(a) = Total(Mapped(g, a))
    BY BlocksSizeMap
  <1>2. Mapped(g, a) \in Seq(Nat) /\ (a = << >> => Mapped(g, a) = << >>)
    BY <1>1, MappedIs
  <1> QED
    BY <1>1, <1>2, TotalLaws

LEMMA BlocksSizeOne ==
  ASSUME NEW x \in DeckBlock
  PROVE  BlocksSize(<<x>>) = BlockSize(x)
  <1>0. PICK s \in Seq(DeckBlock) : s = <<x>>
    <2>1. <<x>> \in Seq(DeckBlock)
      OBVIOUS
    <2> QED
      BY <2>1
  <1>1. PICK g : Maps(g, DeckBlock, Nat) /\ g[x] = BlockSize(x) /\ g[x] \in Nat /\ BlocksSize(s) = Total(Mapped(g, s))
    BY BlocksSizeMap
  <1>2. Mapped(g, <<x>>) = <<g[x]>>
    BY <1>1, MappedOne
  <1>3. Total(<<g[x]>>) = g[x]
    BY <1>1, TotalOne
  <1> QED
    BY <1>0, <1>1, <1>2, <1>3

LEMMA BlocksSizeCat ==
  ASSUME NEW a \in Seq(DeckBlock), NEW b \in Seq(DeckBlock)
  PROVE  BlocksSize(a \o b) = BlocksSize(a) + BlocksSize(b)
  <1>0. a \o b \in Seq(DeckBlock)
    BY ConcatProperties
  <1>1. PICK g : Maps(g, DeckBlock, Nat) /\ \A s \in Seq(DeckBlock) : BlocksSize(s) = Total(Mapped(g, s))
    BY BlocksSizeMap
  <1>2. /\ Mapped(g, a) \in Seq(Nat) /\ Mapped(g, b) \in Seq(Nat)
        /\ Mapped(g, a \o b) = Mapped(g, a) \o Mapped(g, b)
    BY <1>1, MappedIs, MappedCat
  <1>3. Total(Mapped(g, a) \o Mapped(g, b)) = Total(Mapped(g, a)) + Total(Mapped(g, b))
    BY <1>2, TotalCat
  <1> QED
    BY <1>0, <1>1, <1>2, <1>3

\* Every child has a piece.
LEMMA KidPiecesIs ==
  ASSUME NEW k \in DeckKid
  PROVE  KidPieces(k) \in Nat /\ KidPieces(k) >= 1
  <1>1. CASE k.kind = "text"
    <2>1. k.words \in Seq(DeckWord) /\ k.words # << >> /\ KidPieces(k) = Len(k.words)
      BY <1>1, KidIs DEF KidPieces
    <2> QED
      BY <2>1, EmptySeq
  <1>2. CASE k.kind # "text"
    BY <1>2 DEF KidPieces
  <1> QED
    BY <1>1, <1>2

KidsPieces(b) == Total([i \in DOMAIN b |-> KidPieces(b[i])])

\* The children of a block have the pieces of each.
LEMMA KidsPiecesMap ==
  \E g : /\ Maps(g, DeckKid, Nat) /\ \A y \in DeckKid : g[y] = KidPieces(y) /\ g[y] \in Nat
         /\ \A s \in Seq(DeckKid) : KidsPieces(s) = Total(Mapped(g, s))
  <1>1. \A y \in DeckKid : KidPieces(y) \in Nat
    BY KidPiecesIs
  <1>2. PICK g \in [DeckKid -> Nat] : \A y \in DeckKid : g[y] = KidPieces(y)
    <2>1. [y \in DeckKid |-> KidPieces(y)] \in [DeckKid -> Nat]
      BY <1>1
    <2> QED
      BY <2>1
  <1>3. ASSUME NEW s \in Seq(DeckKid) PROVE KidsPieces(s) = Total(Mapped(g, s))
    <2>1. \A i \in DOMAIN s : s[i] \in DeckKid
      OBVIOUS
    <2>2. Mapped(g, s) = [i \in DOMAIN s |-> KidPieces(s[i])]
      BY <1>2, <2>1 DEF Mapped
    <2> QED
      BY <2>2 DEF KidsPieces
  <1>4. Maps(g, DeckKid, Nat)
    BY <1>2 DEF Maps
  <1> QED
    BY <1>1, <1>2, <1>3, <1>4

LEMMA KidsPiecesLaws ==
  ASSUME NEW a \in Seq(DeckKid)
  PROVE  KidsPieces(a) \in Nat /\ (a = << >> => KidsPieces(a) = 0)
  <1>1. PICK g : Maps(g, DeckKid, Nat) /\ KidsPieces(a) = Total(Mapped(g, a))
    BY KidsPiecesMap
  <1>2. Mapped(g, a) \in Seq(Nat) /\ (a = << >> => Mapped(g, a) = << >>)
    BY <1>1, MappedIs
  <1> QED
    BY <1>1, <1>2, TotalLaws

LEMMA KidsPiecesOne ==
  ASSUME NEW x \in DeckKid
  PROVE  KidsPieces(<<x>>) = KidPieces(x)
  <1>0. PICK s \in Seq(DeckKid) : s = <<x>>
    <2>1. <<x>> \in Seq(DeckKid)
      OBVIOUS
    <2> QED
      BY <2>1
  <1>1. PICK g : Maps(g, DeckKid, Nat) /\ g[x] = KidPieces(x) /\ g[x] \in Nat /\ KidsPieces(s) = Total(Mapped(g, s))
    BY KidsPiecesMap
  <1>2. Mapped(g, <<x>>) = <<g[x]>>
    BY <1>1, MappedOne
  <1>3. Total(<<g[x]>>) = g[x]
    BY <1>1, TotalOne
  <1> QED
    BY <1>0, <1>1, <1>2, <1>3

LEMMA KidsPiecesCat ==
  ASSUME NEW a \in Seq(DeckKid), NEW b \in Seq(DeckKid)
  PROVE  KidsPieces(a \o b) = KidsPieces(a) + KidsPieces(b)
  <1>0. a \o b \in Seq(DeckKid)
    BY ConcatProperties
  <1>1. PICK g : Maps(g, DeckKid, Nat) /\ \A s \in Seq(DeckKid) : KidsPieces(s) = Total(Mapped(g, s))
    BY KidsPiecesMap
  <1>2. /\ Mapped(g, a) \in Seq(Nat) /\ Mapped(g, b) \in Seq(Nat)
        /\ Mapped(g, a \o b) = Mapped(g, a) \o Mapped(g, b)
    BY <1>1, MappedIs, MappedCat
  <1>3. Total(Mapped(g, a) \o Mapped(g, b)) = Total(Mapped(g, a)) + Total(Mapped(g, b))
    BY <1>2, TotalCat
  <1> QED
    BY <1>0, <1>1, <1>2, <1>3

LEMMA BlockPiecesIs ==
  ASSUME NEW b \in DeckBlock
  PROVE  BlockPieces(b) = 1 + KidsPieces(b) /\ KidsPieces(b) \in Nat
  <1>1. BlockPieces(b) = 1 + KidsPieces(b)
    BY DEF BlockPieces, KidsPieces
  <1>2. b \in Seq(DeckKid)
    BY DEF DeckBlock
  <1>3. CASE b = << >>
    <2>1. [i \in DOMAIN b |-> KidPieces(b[i])] = << >>
      BY <1>3, EmptySeq
    <2>2. << >> \in Seq(Nat)
      BY EmptySeq
    <2> QED
      BY <1>1, <2>1, <2>2, TotalLaws DEF KidsPieces
  <1>4. CASE b # << >>
    <2>1. b[1] \in DeckKid
      BY <1>2, <1>4, EmptySeq
    <2> QED
      BY <1>1, <1>2, <2>1, KidsPiecesLaws
  <1> QED
    BY <1>3, <1>4

\* The blocks of a card have the pieces of each.
LEMMA PiecesMap ==
  \E g : /\ Maps(g, DeckBlock, Nat) /\ \A y \in DeckBlock : g[y] = BlockPieces(y) /\ g[y] \in Nat
         /\ \A s \in Seq(DeckBlock) : Pieces(s) = Total(Mapped(g, s))
  <1>1. \A y \in DeckBlock : BlockPieces(y) \in Nat
    BY BlockPiecesIs
  <1>2. PICK g \in [DeckBlock -> Nat] : \A y \in DeckBlock : g[y] = BlockPieces(y)
    <2>1. [y \in DeckBlock |-> BlockPieces(y)] \in [DeckBlock -> Nat]
      BY <1>1
    <2> QED
      BY <2>1
  <1>3. ASSUME NEW s \in Seq(DeckBlock) PROVE Pieces(s) = Total(Mapped(g, s))
    <2>1. \A i \in DOMAIN s : s[i] \in DeckBlock
      OBVIOUS
    <2>2. Mapped(g, s) = [i \in DOMAIN s |-> BlockPieces(s[i])]
      BY <1>2, <2>1 DEF Mapped
    <2> QED
      BY <2>2 DEF Pieces
  <1>4. Maps(g, DeckBlock, Nat)
    BY <1>2 DEF Maps
  <1> QED
    BY <1>1, <1>2, <1>3, <1>4

LEMMA PiecesLaws ==
  ASSUME NEW a \in Seq(DeckBlock)
  PROVE  Pieces(a) \in Nat /\ (a = << >> => Pieces(a) = 0)
  <1>1. PICK g : Maps(g, DeckBlock, Nat) /\ Pieces(a) = Total(Mapped(g, a))
    BY PiecesMap
  <1>2. Mapped(g, a) \in Seq(Nat) /\ (a = << >> => Mapped(g, a) = << >>)
    BY <1>1, MappedIs
  <1> QED
    BY <1>1, <1>2, TotalLaws

LEMMA PiecesOne ==
  ASSUME NEW x \in DeckBlock
  PROVE  Pieces(<<x>>) = BlockPieces(x)
  <1>0. PICK s \in Seq(DeckBlock) : s = <<x>>
    <2>1. <<x>> \in Seq(DeckBlock)
      OBVIOUS
    <2> QED
      BY <2>1
  <1>1. PICK g : Maps(g, DeckBlock, Nat) /\ g[x] = BlockPieces(x) /\ g[x] \in Nat /\ Pieces(s) = Total(Mapped(g, s))
    BY PiecesMap
  <1>2. Mapped(g, <<x>>) = <<g[x]>>
    BY <1>1, MappedOne
  <1>3. Total(<<g[x]>>) = g[x]
    BY <1>1, TotalOne
  <1> QED
    BY <1>0, <1>1, <1>2, <1>3

LEMMA PiecesCat ==
  ASSUME NEW a \in Seq(DeckBlock), NEW b \in Seq(DeckBlock)
  PROVE  Pieces(a \o b) = Pieces(a) + Pieces(b)
  <1>0. a \o b \in Seq(DeckBlock)
    BY ConcatProperties
  <1>1. PICK g : Maps(g, DeckBlock, Nat) /\ \A s \in Seq(DeckBlock) : Pieces(s) = Total(Mapped(g, s))
    BY PiecesMap
  <1>2. /\ Mapped(g, a) \in Seq(Nat) /\ Mapped(g, b) \in Seq(Nat)
        /\ Mapped(g, a \o b) = Mapped(g, a) \o Mapped(g, b)
    BY <1>1, MappedIs, MappedCat
  <1>3. Total(Mapped(g, a) \o Mapped(g, b)) = Total(Mapped(g, a)) + Total(Mapped(g, b))
    BY <1>2, TotalCat
  <1> QED
    BY <1>0, <1>1, <1>2, <1>3

\* A text shows what its words show, one after the other.
LEMMA WordsShownMap ==
  \E g : /\ Maps(g, DeckWord, Seq(ShownItem)) /\ \A y \in DeckWord : g[y] = (IF y.kind = "sep" THEN << >> ELSE <<y>>) /\ g[y] \in Seq(ShownItem)
         /\ \A s \in Seq(DeckWord) : WordsShown(s) = Flat(Mapped(g, s))
  <1>1. \A y \in DeckWord : (IF y.kind = "sep" THEN << >> ELSE <<y>>) \in Seq(ShownItem)
    <2>1. TAKE y \in DeckWord
    <2>2. y \in ShownItem
      BY DEF ShownItem
    <2>3. << >> \in Seq(ShownItem) /\ <<y>> \in Seq(ShownItem)
      BY <2>2
    <2>4. CASE y.kind = "sep"
      BY <2>3, <2>4
    <2>5. CASE y.kind # "sep"
      BY <2>3, <2>5
    <2> QED
      BY <2>4, <2>5
  <1>2. PICK g \in [DeckWord -> Seq(ShownItem)] : \A y \in DeckWord : g[y] = (IF y.kind = "sep" THEN << >> ELSE <<y>>)
    <2>1. [y \in DeckWord |-> (IF y.kind = "sep" THEN << >> ELSE <<y>>)] \in [DeckWord -> Seq(ShownItem)]
      BY <1>1
    <2> QED
      BY <2>1
  <1>3. ASSUME NEW s \in Seq(DeckWord) PROVE WordsShown(s) = Flat(Mapped(g, s))
    <2>1. \A i \in DOMAIN s : s[i] \in DeckWord
      OBVIOUS
    <2>2. Mapped(g, s) = [i \in DOMAIN s |-> (IF s[i].kind = "sep" THEN << >> ELSE <<s[i]>>)]
      BY <1>2, <2>1 DEF Mapped
    <2> QED
      BY <2>2 DEF WordsShown
  <1>4. Maps(g, DeckWord, Seq(ShownItem))
    BY <1>2 DEF Maps
  <1> QED
    BY <1>1, <1>2, <1>3, <1>4

LEMMA WordsShownLaws ==
  ASSUME NEW a \in Seq(DeckWord)
  PROVE  WordsShown(a) \in Seq(ShownItem) /\ (a = << >> => WordsShown(a) = NoItems)
  <1>1. PICK g : Maps(g, DeckWord, Seq(ShownItem)) /\ WordsShown(a) = Flat(Mapped(g, a))
    BY WordsShownMap
  <1>2. Mapped(g, a) \in Seq(Seq(ShownItem)) /\ (a = << >> => Mapped(g, a) = << >>)
    BY <1>1, MappedIs
  <1> QED
    BY <1>1, <1>2, FlatLaws

LEMMA WordsShownOne ==
  ASSUME NEW x \in DeckWord
  PROVE  WordsShown(<<x>>) = (IF x.kind = "sep" THEN << >> ELSE <<x>>)
  <1>0. PICK s \in Seq(DeckWord) : s = <<x>>
    <2>1. <<x>> \in Seq(DeckWord)
      OBVIOUS
    <2> QED
      BY <2>1
  <1>1. PICK g : Maps(g, DeckWord, Seq(ShownItem)) /\ g[x] = (IF x.kind = "sep" THEN << >> ELSE <<x>>) /\ g[x] \in Seq(ShownItem) /\ WordsShown(s) = Flat(Mapped(g, s))
    BY WordsShownMap
  <1>2. Mapped(g, <<x>>) = <<g[x]>>
    BY <1>1, MappedOne
  <1>3. Flat(<<g[x]>>) = g[x]
    BY <1>1, FlatOne
  <1> QED
    BY <1>0, <1>1, <1>2, <1>3

LEMMA WordsShownCat ==
  ASSUME NEW a \in Seq(DeckWord), NEW b \in Seq(DeckWord)
  PROVE  WordsShown(a \o b) = Join(WordsShown(a), WordsShown(b))
  <1>0. a \o b \in Seq(DeckWord)
    BY ConcatProperties
  <1>1. PICK g : Maps(g, DeckWord, Seq(ShownItem)) /\ \A s \in Seq(DeckWord) : WordsShown(s) = Flat(Mapped(g, s))
    BY WordsShownMap
  <1>2. /\ Mapped(g, a) \in Seq(Seq(ShownItem)) /\ Mapped(g, b) \in Seq(Seq(ShownItem))
        /\ Mapped(g, a \o b) = Mapped(g, a) \o Mapped(g, b)
    BY <1>1, MappedIs, MappedCat
  <1>3. Flat(Mapped(g, a) \o Mapped(g, b)) = Join(Flat(Mapped(g, a)), Flat(Mapped(g, b)))
    BY <1>2, FlatCat
  <1> QED
    BY <1>0, <1>1, <1>2, <1>3

LEMMA KidShownType ==
  ASSUME NEW k \in DeckKid
  PROVE  KidShown(k) \in Seq(ShownItem)
  <1>1. CASE k.kind = "text"
    <2>1. k.words \in Seq(DeckWord) /\ k.words # << >> /\ KidShown(k) = WordsShown(k.words)
      BY <1>1, KidIs DEF KidShown
    <2>2. k.words[1] \in DeckWord
      BY <2>1, EmptySeq
    <2> QED
      BY <2>1, <2>2, WordsShownLaws
  <1>2. CASE k.kind # "text"
    BY <1>2 DEF KidShown, ShownItem
  <1> QED
    BY <1>1, <1>2

\* A block shows what its children show, one after the other.
LEMMA BlockShownMap ==
  \E g : /\ Maps(g, DeckKid, Seq(ShownItem)) /\ \A y \in DeckKid : g[y] = KidShown(y) /\ g[y] \in Seq(ShownItem)
         /\ \A s \in Seq(DeckKid) : BlockShown(s) = Flat(Mapped(g, s))
  <1>1. \A y \in DeckKid : KidShown(y) \in Seq(ShownItem)
    BY KidShownType
  <1>2. PICK g \in [DeckKid -> Seq(ShownItem)] : \A y \in DeckKid : g[y] = KidShown(y)
    <2>1. [y \in DeckKid |-> KidShown(y)] \in [DeckKid -> Seq(ShownItem)]
      BY <1>1
    <2> QED
      BY <2>1
  <1>3. ASSUME NEW s \in Seq(DeckKid) PROVE BlockShown(s) = Flat(Mapped(g, s))
    <2>1. \A i \in DOMAIN s : s[i] \in DeckKid
      OBVIOUS
    <2>2. Mapped(g, s) = [i \in DOMAIN s |-> KidShown(s[i])]
      BY <1>2, <2>1 DEF Mapped
    <2> QED
      BY <2>2 DEF BlockShown
  <1>4. Maps(g, DeckKid, Seq(ShownItem))
    BY <1>2 DEF Maps
  <1> QED
    BY <1>1, <1>2, <1>3, <1>4

LEMMA BlockShownLaws ==
  ASSUME NEW a \in Seq(DeckKid)
  PROVE  BlockShown(a) \in Seq(ShownItem) /\ (a = << >> => BlockShown(a) = NoItems)
  <1>1. PICK g : Maps(g, DeckKid, Seq(ShownItem)) /\ BlockShown(a) = Flat(Mapped(g, a))
    BY BlockShownMap
  <1>2. Mapped(g, a) \in Seq(Seq(ShownItem)) /\ (a = << >> => Mapped(g, a) = << >>)
    BY <1>1, MappedIs
  <1> QED
    BY <1>1, <1>2, FlatLaws

LEMMA BlockShownOne ==
  ASSUME NEW x \in DeckKid
  PROVE  BlockShown(<<x>>) = KidShown(x)
  <1>0. PICK s \in Seq(DeckKid) : s = <<x>>
    <2>1. <<x>> \in Seq(DeckKid)
      OBVIOUS
    <2> QED
      BY <2>1
  <1>1. PICK g : Maps(g, DeckKid, Seq(ShownItem)) /\ g[x] = KidShown(x) /\ g[x] \in Seq(ShownItem) /\ BlockShown(s) = Flat(Mapped(g, s))
    BY BlockShownMap
  <1>2. Mapped(g, <<x>>) = <<g[x]>>
    BY <1>1, MappedOne
  <1>3. Flat(<<g[x]>>) = g[x]
    BY <1>1, FlatOne
  <1> QED
    BY <1>0, <1>1, <1>2, <1>3

LEMMA BlockShownCat ==
  ASSUME NEW a \in Seq(DeckKid), NEW b \in Seq(DeckKid)
  PROVE  BlockShown(a \o b) = Join(BlockShown(a), BlockShown(b))
  <1>0. a \o b \in Seq(DeckKid)
    BY ConcatProperties
  <1>1. PICK g : Maps(g, DeckKid, Seq(ShownItem)) /\ \A s \in Seq(DeckKid) : BlockShown(s) = Flat(Mapped(g, s))
    BY BlockShownMap
  <1>2. /\ Mapped(g, a) \in Seq(Seq(ShownItem)) /\ Mapped(g, b) \in Seq(Seq(ShownItem))
        /\ Mapped(g, a \o b) = Mapped(g, a) \o Mapped(g, b)
    BY <1>1, MappedIs, MappedCat
  <1>3. Flat(Mapped(g, a) \o Mapped(g, b)) = Join(Flat(Mapped(g, a)), Flat(Mapped(g, b)))
    BY <1>2, FlatCat
  <1> QED
    BY <1>0, <1>1, <1>2, <1>3

LEMMA BlockShownType ==
  ASSUME NEW b \in DeckBlock
  PROVE  BlockShown(b) \in Seq(ShownItem)
  <1>1. b \in Seq(DeckKid)
    BY DEF DeckBlock
  <1>2. CASE b = << >>
    <2>1. [i \in DOMAIN b |-> KidShown(b[i])] = << >>
      BY <1>2, EmptySeq
    <2>2. << >> \in Seq(Seq(ShownItem))
      BY EmptySeq
    <2> QED
      BY <2>1, <2>2, FlatLaws DEF BlockShown
  <1>3. CASE b # << >>
    <2>1. b[1] \in DeckKid
      BY <1>1, <1>3, EmptySeq
    <2> QED
      BY <1>1, <2>1, BlockShownLaws
  <1> QED
    BY <1>2, <1>3

\* A card shows what its blocks show, one after the other.
LEMMA CardShownMap ==
  \E g : /\ Maps(g, DeckBlock, Seq(ShownItem)) /\ \A y \in DeckBlock : g[y] = BlockShown(y) /\ g[y] \in Seq(ShownItem)
         /\ \A s \in Seq(DeckBlock) : CardShown(s) = Flat(Mapped(g, s))
  <1>1. \A y \in DeckBlock : BlockShown(y) \in Seq(ShownItem)
    BY BlockShownType
  <1>2. PICK g \in [DeckBlock -> Seq(ShownItem)] : \A y \in DeckBlock : g[y] = BlockShown(y)
    <2>1. [y \in DeckBlock |-> BlockShown(y)] \in [DeckBlock -> Seq(ShownItem)]
      BY <1>1
    <2> QED
      BY <2>1
  <1>3. ASSUME NEW s \in Seq(DeckBlock) PROVE CardShown(s) = Flat(Mapped(g, s))
    <2>1. \A i \in DOMAIN s : s[i] \in DeckBlock
      OBVIOUS
    <2>2. Mapped(g, s) = [i \in DOMAIN s |-> BlockShown(s[i])]
      BY <1>2, <2>1 DEF Mapped
    <2> QED
      BY <2>2 DEF CardShown
  <1>4. Maps(g, DeckBlock, Seq(ShownItem))
    BY <1>2 DEF Maps
  <1> QED
    BY <1>1, <1>2, <1>3, <1>4

LEMMA CardShownLaws ==
  ASSUME NEW a \in Seq(DeckBlock)
  PROVE  CardShown(a) \in Seq(ShownItem) /\ (a = << >> => CardShown(a) = NoItems)
  <1>1. PICK g : Maps(g, DeckBlock, Seq(ShownItem)) /\ CardShown(a) = Flat(Mapped(g, a))
    BY CardShownMap
  <1>2. Mapped(g, a) \in Seq(Seq(ShownItem)) /\ (a = << >> => Mapped(g, a) = << >>)
    BY <1>1, MappedIs
  <1> QED
    BY <1>1, <1>2, FlatLaws

LEMMA CardShownOne ==
  ASSUME NEW x \in DeckBlock
  PROVE  CardShown(<<x>>) = BlockShown(x)
  <1>0. PICK s \in Seq(DeckBlock) : s = <<x>>
    <2>1. <<x>> \in Seq(DeckBlock)
      OBVIOUS
    <2> QED
      BY <2>1
  <1>1. PICK g : Maps(g, DeckBlock, Seq(ShownItem)) /\ g[x] = BlockShown(x) /\ g[x] \in Seq(ShownItem) /\ CardShown(s) = Flat(Mapped(g, s))
    BY CardShownMap
  <1>2. Mapped(g, <<x>>) = <<g[x]>>
    BY <1>1, MappedOne
  <1>3. Flat(<<g[x]>>) = g[x]
    BY <1>1, FlatOne
  <1> QED
    BY <1>0, <1>1, <1>2, <1>3

LEMMA CardShownCat ==
  ASSUME NEW a \in Seq(DeckBlock), NEW b \in Seq(DeckBlock)
  PROVE  CardShown(a \o b) = Join(CardShown(a), CardShown(b))
  <1>0. a \o b \in Seq(DeckBlock)
    BY ConcatProperties
  <1>1. PICK g : Maps(g, DeckBlock, Seq(ShownItem)) /\ \A s \in Seq(DeckBlock) : CardShown(s) = Flat(Mapped(g, s))
    BY CardShownMap
  <1>2. /\ Mapped(g, a) \in Seq(Seq(ShownItem)) /\ Mapped(g, b) \in Seq(Seq(ShownItem))
        /\ Mapped(g, a \o b) = Mapped(g, a) \o Mapped(g, b)
    BY <1>1, MappedIs, MappedCat
  <1>3. Flat(Mapped(g, a) \o Mapped(g, b)) = Join(Flat(Mapped(g, a)), Flat(Mapped(g, b)))
    BY <1>2, FlatCat
  <1> QED
    BY <1>0, <1>1, <1>2, <1>3

-----------------------------------------------------------------------------
(* Cutting a sequence, and the cut of a block.                              *)

\* A non-empty set of numbers up to n has a greatest, which Max finds.
LEMMA MaxIs ==
  ASSUME NEW n \in Nat, NEW S \in SUBSET (0 .. n), S # {}
  PROVE  Max(S) \in S /\ \A y \in S : Max(S) >= y
  <1> DEFINE Gaps == {k \in Nat : \E y \in S : k = n - y}
  <1>1. Gaps \in SUBSET Nat
    OBVIOUS
  <1>2. Gaps # {}
    <2>1. PICK y \in S : TRUE
      OBVIOUS
    <2>2. n - y \in Nat
      OBVIOUS
    <2> QED
      BY <2>2
  <1>3. PICK k \in Gaps : \A g \in Gaps : k <= g
    <2> HIDE DEF Gaps
    <2> QED
      BY <1>1, <1>2, LeastExists
  <1>4. PICK x \in S : k = n - x
    OBVIOUS
  <1>5. ASSUME NEW y \in S PROVE x >= y
    <2>1. n - y \in Gaps
      OBVIOUS
    <2>2. k <= n - y
      BY <1>3, <2>1
    <2>3. x \in 0 .. n /\ y \in 0 .. n
      OBVIOUS
    <2> QED
      BY <1>4, <2>2, <2>3
  <1> QED
    BY <1>4, <1>5 DEF Max

LEMMA SingleSeq ==
  ASSUME NEW X, NEW x \in X
  PROVE  <<x>> \in Seq(X) /\ Len(<<x>>) = 1 /\ <<x>> # << >> /\ <<x>>[1] = x
  OBVIOUS

\* A sequence cut after m members, and cut around its member m + 1.
LEMMA SeqCut ==
  ASSUME NEW X, NEW s \in Seq(X), NEW m \in 0 .. Len(s)
  PROVE  /\ SubSeq(s, 1, m) \in Seq(X) /\ SubSeq(s, m + 1, Len(s)) \in Seq(X)
         /\ Len(SubSeq(s, 1, m)) = m /\ Len(SubSeq(s, m + 1, Len(s))) = Len(s) - m
         /\ s = SubSeq(s, 1, m) \o SubSeq(s, m + 1, Len(s))
  <1>0. Len(s) \in Nat
    OBVIOUS
  <1>1. PICK l \in Nat : l = Len(s)
    BY <1>0
  <1>2. \A i \in 1 .. l : s[i] \in X
    BY <1>1
  <1>3. SubSeq(s, 1, m) \in Seq(X) /\ Len(SubSeq(s, 1, m)) = m
    <2>1. \A i \in 1 .. m : s[i] \in X
      BY <1>1, <1>2
    <2>2. 1 \in Int /\ m \in Int /\ (1 <= m \/ m = 0)
      BY <1>1
    <2> QED
      BY <2>1, <2>2, SubSeqProperties
  <1>4. SubSeq(s, m + 1, l) \in Seq(X) /\ Len(SubSeq(s, m + 1, l)) = l - m
    <2>1. \A i \in m + 1 .. l : s[i] \in X
      BY <1>1, <1>2
    <2>2. m + 1 \in Int /\ l \in Int /\ (m + 1 <= l \/ m = l)
      BY <1>1
    <2> QED
      BY <2>1, <2>2, SubSeqProperties
  <1>5. SubSeq(s, 1, m) \o SubSeq(s, m + 1, Len(s)) = SubSeq(s, 1, Len(s))
    <2>1. 1 \in 1 .. Len(s) + 1 /\ m \in 1 - 1 .. Len(s) /\ Len(s) \in m .. Len(s)
      BY <1>0
    <2> QED
      BY <2>1, ConcatAdjacentSubSeq
  <1>6. SubSeq(s, 1, Len(s)) = s
    BY SubSeqFull
  <1> QED
    BY <1>1, <1>3, <1>4, <1>5, <1>6

LEMMA SeqSplitAt ==
  ASSUME NEW X, NEW s \in Seq(X), NEW m \in Nat, m < Len(s)
  PROVE  /\ SubSeq(s, 1, m) \in Seq(X) /\ SubSeq(s, m + 2, Len(s)) \in Seq(X) /\ s[m + 1] \in X
         /\ s = SubSeq(s, 1, m) \o (<<s[m + 1]>> \o SubSeq(s, m + 2, Len(s)))
  <1>0. Len(s) \in Nat /\ m \in 0 .. Len(s) /\ m + 1 \in 0 .. Len(s) /\ m + 1 \in 1 .. Len(s)
    OBVIOUS
  <1>1. /\ SubSeq(s, 1, m) \in Seq(X) /\ s = SubSeq(s, 1, m) \o SubSeq(s, m + 1, Len(s))
    BY <1>0, SeqCut
  <1>2. SubSeq(s, (m + 1) + 1, Len(s)) \in Seq(X)
    BY <1>0, SeqCut
  <1>3. SubSeq(s, m + 1, Len(s)) = <<s[m + 1]>> \o SubSeq(s, (m + 1) + 1, Len(s))
    <2>1. Len(s) \in m + 1 .. Len(s)
      BY <1>0
    <2> QED
      BY <1>0, <2>1, SubSeqRecursiveFirst
  <1>4. (m + 1) + 1 = m + 2
    OBVIOUS
  <1>5. s[m + 1] \in X
    BY <1>0
  <1> QED
    BY <1>1, <1>2, <1>3, <1>4, <1>5

\* Bare separators show nothing.
LEMMA SepsShowNothing ==
  ASSUME NEW ws \in Seq(DeckWord), \A i \in 1 .. Len(ws) : ws[i].kind = "sep"
  PROVE  WordsShown(ws) = NoItems
  <1> DEFINE s == [i \in DOMAIN ws |-> IF ws[i].kind = "sep" THEN << >> ELSE <<ws[i]>>]
  <1> DEFINE g == [k \in 0 .. Len(ws) |-> NoItems]
  <1>0. DOMAIN ws = 1 .. Len(ws) /\ Len(ws) \in Nat
    OBVIOUS
  <1>1. \A i \in 1 .. Len(ws) : s[i] = NoItems
    BY <1>0 DEF NoItems
  <1>2. NoItems \in Seq(ShownItem)
    BY EmptySeq DEF NoItems
  <1>3. s \in Seq(Seq(ShownItem)) /\ Len(s) = Len(ws)
    <2>1. s = [i \in 1 .. Len(ws) |-> NoItems]
      BY <1>0, <1>1
    <2>2. s \in [1 .. Len(ws) -> Seq(ShownItem)] /\ DOMAIN s = 1 .. Len(ws)
      BY <1>2, <2>1
    <2> HIDE DEF s
    <2>3. s \in Seq(Seq(ShownItem))
      BY <1>0, <2>2, IsASeq
    <2> QED
      BY <1>0, <2>2, <2>3, LenProperties
  <1>4. WordsShown(ws) = Flat(s)
    BY DEF WordsShown
  <1> HIDE DEF s
  <1>5. FlatUpto(g, s)
    <2>1. g[0] = NoItems /\ \A k \in 1 .. Len(s) : g[k] = NoItems /\ g[k - 1] = NoItems
      BY <1>0, <1>3
    <2>2. Join(NoItems, NoItems) = NoItems
      BY <1>2, JoinLaws
    <2> HIDE DEF g
    <2> QED
      BY <1>1, <1>3, <2>1, <2>2 DEF FlatUpto
  <1>6. Flat(s) = g[Len(s)]
    <2> HIDE DEF g
    <2> QED
      BY <1>3, <1>5, FlatIs
  <1> QED
    BY <1>0, <1>3, <1>4, <1>6

\* skip_leading_separators() loses nothing that shows.
LEMMA SkippedShowsAll ==
  ASSUME NEW ws \in Seq(DeckWord)
  PROVE  /\ SkippedSeparators(ws) \in Seq(DeckWord)
         /\ WordsShown(SkippedSeparators(ws)) = WordsShown(ws)
         /\ Len(SkippedSeparators(ws)) <= Len(ws)
  <1>0. Len(ws) \in Nat
    OBVIOUS
  <1> DEFINE I == {i \in 1 .. Len(ws) : ws[i].kind # "sep"}
  <1>1. SkippedSeparators(ws) = LET n == IF I # {} THEN Min(I) ELSE 0
                                IN IF n = 0 THEN << >> ELSE SubSeq(ws, n, Len(ws))
    BY DEF SkippedSeparators, SelectInSeq
  <1>2. CASE I = {}
    <2>1. SkippedSeparators(ws) = << >>
      BY <1>1, <1>2
    <2>2. \A i \in 1 .. Len(ws) : ws[i].kind = "sep"
      BY <1>2
    <2>3. WordsShown(ws) = NoItems
      BY <2>2, SepsShowNothing
    <2>4. << >> \in Seq(DeckWord) /\ Len(<< >>) = 0
      OBVIOUS
    <2>5. WordsShown(<< >>) = NoItems
      BY <2>4, WordsShownLaws
    <2> QED
      BY <1>0, <2>1, <2>3, <2>4, <2>5
  <1>3. CASE I # {}
    <2>1. PICK n \in I : \A k \in I : n <= k
      <3>1. I \in SUBSET Nat
        BY <1>0
      <3> HIDE DEF I
      <3> QED
        BY <1>3, <3>1, LeastExists
    <2>2. Min(I) = n
      <3>1. I \in SUBSET Nat
        BY <1>0
      <3> HIDE DEF I
      <3>2. Min(I) \in I /\ \A y \in I : Min(I) <= y
        BY <2>1 DEF Min
      <3>3. Min(I) <= n /\ n <= Min(I)
        BY <2>1, <3>2
      <3>4. PICK x \in Nat : x = Min(I)
        BY <3>1, <3>2
      <3> QED
        BY <2>1, <3>1, <3>3, <3>4
    <2>3. n \in 1 .. Len(ws) /\ ws[n].kind # "sep"
      OBVIOUS
    <2>4. \A i \in 1 .. n - 1 : ws[i].kind = "sep"
      BY <1>0, <2>1, <2>3
    <2> HIDE DEF I
    <2>5. SkippedSeparators(ws) = SubSeq(ws, n, Len(ws))
      BY <1>1, <1>3, <2>2, <2>3
    <2>6. PICK m \in Nat : n = m + 1
      <3>1. n - 1 \in Nat /\ n = (n - 1) + 1
        BY <1>0, <2>3
      <3> QED
        BY <3>1
    <2>7. m \in 0 .. Len(ws)
      BY <1>0, <2>3, <2>6
    <2>8. PICK a \in Seq(DeckWord), z \in Seq(DeckWord) :
            a = SubSeq(ws, 1, m) /\ z = SubSeq(ws, m + 1, Len(ws)) /\ Len(a) = m /\ Len(z) = Len(ws) - m
      <3>1. /\ SubSeq(ws, 1, m) \in Seq(DeckWord) /\ SubSeq(ws, m + 1, Len(ws)) \in Seq(DeckWord)
            /\ Len(SubSeq(ws, 1, m)) = m /\ Len(SubSeq(ws, m + 1, Len(ws))) = Len(ws) - m
            /\ ws = SubSeq(ws, 1, m) \o SubSeq(ws, m + 1, Len(ws))
        BY <2>7, SeqCut
      <3> QED
        BY <3>1
    <2>12. ws = a \o z
      <3>1. ws = SubSeq(ws, 1, m) \o SubSeq(ws, m + 1, Len(ws))
        BY <2>7, SeqCut
      <3> QED
        BY <2>8, <3>1
    <2>13. PICK l \in Nat : l = Len(ws)
      BY <1>0
    <2>9. \A i \in 1 .. Len(a) : a[i].kind = "sep"
      <3>1. \A i \in 1 .. m : a[i] = ws[i]
        <4>1. \A i \in 1 .. m : ws[i] \in DeckWord
          BY <2>7, <2>13
        <4>2. \A i \in 1 .. m - 1 + 1 : SubSeq(ws, 1, m)[i] = ws[1 + i - 1]
          BY <2>6, <4>1, SubSeqProperties
        <4>3. \A i \in 1 .. m : i \in 1 .. m - 1 + 1 /\ 1 + i - 1 = i
          BY <2>6
        <4> QED
          BY <2>8, <4>2, <4>3
      <3> QED
        BY <2>4, <2>6, <2>8, <3>1, <2>13
    <2>10. WordsShown(a) = NoItems
      BY <2>9, SepsShowNothing
    <2>11. WordsShown(ws) = Join(WordsShown(a), WordsShown(z)) /\ WordsShown(z) \in Seq(ShownItem)
      BY <2>8, <2>12, WordsShownCat, WordsShownLaws
    <2> QED
      <3>1. SkippedSeparators(ws) = z
        BY <2>5, <2>6, <2>8
      <3>2. WordsShown(ws) = WordsShown(z)
        BY <2>10, <2>11, JoinLaws
      <3>3. Len(z) <= Len(ws)
        BY <2>7, <2>8, <2>13
      <3> QED
        BY <2>8, <3>1, <3>2, <3>3
  <1> QED
    BY <1>2, <1>3

\* A cut of block b after m children and c words of the next.
CutOK(b, m, c) ==
    /\ m \in 0 .. Len(b) /\ c \in Nat
    /\ c > 0 => IsText(b, m + 1) /\ c <= Len(b[m + 1].words)

RestAt(b, m, c) ==
    IF ~IsText(b, m + 1) THEN SubSeq(b, m + 1, Len(b))
    ELSE LET after == SkippedSeparators(SubSeq(b[m + 1].words, c + 1, Len(b[m + 1].words)))
         IN (IF after = << >> THEN << >> ELSE <<Text(after)>>) \o SubSeq(b, m + 2, Len(b))

\* The head and the rest, and what they are made of.
BetweenParts(b, m, c, p, q) ==
    /\ Len(p) = m /\ c = 0 /\ b = p \o q /\ PrefixOf(b, m, c) = p /\ RestAt(b, m, c) = q

\* A cut between two children splits the block into its head and its rest.
LEMMA CutBetween ==
  ASSUME NEW b \in Seq(DeckKid), NEW m, NEW c, CutOK(b, m, c), ~IsText(b, m + 1)
  PROVE  \E p \in Seq(DeckKid), q \in Seq(DeckKid) : BetweenParts(b, m, c, p, q)
  <1>1. m \in 0 .. Len(b) /\ c = 0
    BY DEF CutOK
  <1>2. /\ SubSeq(b, 1, m) \in Seq(DeckKid) /\ SubSeq(b, m + 1, Len(b)) \in Seq(DeckKid)
        /\ Len(SubSeq(b, 1, m)) = m
        /\ b = SubSeq(b, 1, m) \o SubSeq(b, m + 1, Len(b))
    BY <1>1, SeqCut
  <1>3. PrefixOf(b, m, c) = SubSeq(b, 1, m) \o << >>
    BY <1>1 DEF PrefixOf
  <1>4. SubSeq(b, 1, m) \o << >> = SubSeq(b, 1, m)
    BY <1>2, ConcatEmptySeq
  <1>5. RestAt(b, m, c) = SubSeq(b, m + 1, Len(b))
    BY DEF RestAt
  <1>6. BetweenParts(b, m, c, SubSeq(b, 1, m), SubSeq(b, m + 1, Len(b)))
    BY <1>1, <1>2, <1>3, <1>4, <1>5, Zenon DEF BetweenParts
  <1> QED
    BY <1>2, <1>6, Zenon

\* A piece of a text, none when it has no words.
TextOf(ws) == IF ws = << >> THEN << >> ELSE <<Text(ws)>>

LEMMA TextOfIs ==
  ASSUME NEW ws \in Seq(DeckWord)
  PROVE  /\ TextOf(ws) \in Seq(DeckKid)
         /\ BlockShown(TextOf(ws)) = WordsShown(ws)
         /\ KidsPieces(TextOf(ws)) = Len(ws)
  <1>1. CASE ws = << >>
    <2>1. TextOf(ws) = << >> /\ << >> \in Seq(DeckKid) /\ Len(ws) = 0
      BY <1>1 DEF TextOf
    <2> QED
      BY <1>1, <2>1, BlockShownLaws, WordsShownLaws, KidsPiecesLaws
  <1>2. CASE ws # << >>
    <2>1. PICK k \in DeckKid : k = Text(ws) /\ k.kind = "text" /\ k.words = ws
      BY <1>2, TextIs
    <2>2. TextOf(ws) = <<k>>
      BY <1>2, <2>1 DEF TextOf
    <2>3. KidShown(k) = WordsShown(ws) /\ KidPieces(k) = Len(ws)
      BY <2>1 DEF KidShown, KidPieces
    <2>4. <<k>> \in Seq(DeckKid)
      BY SingleSeq
    <2> QED
      BY <2>2, <2>3, <2>4, BlockShownOne, KidsPiecesOne
  <1> QED
    BY <1>1, <1>2

InsideParts(b, m, c, p, k, q, u, v) ==
    /\ p = SubSeq(b, 1, m) /\ Len(p) = m /\ k.kind = "text" /\ k = b[m + 1]
    /\ b = p \o (<<k>> \o q)
    /\ k.words = u \o v /\ Len(u) = c
    /\ PrefixOf(b, m, c) = p \o TextOf(u)
    /\ RestAt(b, m, c) = TextOf(SkippedSeparators(v)) \o q

\* So does a cut inside a text, but for the separators the rest would open with.
LEMMA CutInside ==
  ASSUME NEW b \in Seq(DeckKid), NEW m, NEW c, CutOK(b, m, c), IsText(b, m + 1)
  PROVE  \E p \in Seq(DeckKid), k \in DeckKid, q \in Seq(DeckKid), u \in Seq(DeckWord), v \in Seq(DeckWord) :
           InsideParts(b, m, c, p, k, q, u, v)
  <1>1. m \in Nat /\ m < Len(b) /\ c \in Nat
    <2>1. m \in 0 .. Len(b) /\ m + 1 \in DOMAIN b /\ c \in Nat
      BY DEF CutOK, IsText
    <2> QED
      BY <2>1
  <1>2. /\ SubSeq(b, 1, m) \in Seq(DeckKid) /\ SubSeq(b, m + 2, Len(b)) \in Seq(DeckKid) /\ b[m + 1] \in DeckKid
        /\ b = SubSeq(b, 1, m) \o (<<b[m + 1]>> \o SubSeq(b, m + 2, Len(b)))
    BY <1>1, SeqSplitAt
  <1>3. PICK p \in Seq(DeckKid) : p = SubSeq(b, 1, m) /\ Len(p) = m
    <2>1. m \in 0 .. Len(b)
      BY DEF CutOK
    <2>2. SubSeq(b, 1, m) \in Seq(DeckKid) /\ Len(SubSeq(b, 1, m)) = m
      BY <2>1, SeqCut
    <2> QED
      BY <2>2, Zenon
  <1>4. PICK k \in DeckKid : k = b[m + 1]
    BY <1>2
  <1>5. PICK q \in Seq(DeckKid) : q = SubSeq(b, m + 2, Len(b))
    BY <1>2
  <1>6. k.kind = "text" /\ k.words \in Seq(DeckWord) /\ k.words # << >>
    BY <1>4, KidIs DEF IsText
  <1>7. PICK ws \in Seq(DeckWord) : ws = k.words
    BY <1>6
  <1>8. c \in 0 .. Len(ws)
    <2>1. Len(ws) \in Nat
      OBVIOUS
    <2> QED
      BY <1>1, <1>4, <1>7, <2>1 DEF CutOK
  <1>9. /\ SubSeq(ws, 1, c) \in Seq(DeckWord) /\ SubSeq(ws, c + 1, Len(ws)) \in Seq(DeckWord)
        /\ Len(SubSeq(ws, 1, c)) = c /\ ws = SubSeq(ws, 1, c) \o SubSeq(ws, c + 1, Len(ws))
    BY <1>8, SeqCut
  <1>10. PICK u \in Seq(DeckWord) : u = SubSeq(ws, 1, c) /\ Len(u) = c
    BY <1>9
  <1>11. PICK v \in Seq(DeckWord) : v = SubSeq(ws, c + 1, Len(ws))
    BY <1>9
  <1>12. PrefixOf(b, m, c) = p \o TextOf(u)
    <2>1. PrefixOf(b, m, c) = p \o (IF c > 0 THEN <<Text(u)>> ELSE << >>)
      BY <1>3, <1>4, <1>7, <1>10 DEF PrefixOf
    <2>2. c > 0 <=> u # << >>
      <3>1. u = << >> <=> Len(u) = 0
        BY EmptySeq
      <3>2. Len(u) = c
        BY <1>10
      <3> QED
        BY <1>1, <3>1, <3>2
    <2>3. CASE c > 0
      BY <2>1, <2>2, <2>3, Zenon DEF TextOf
    <2>4. CASE ~(c > 0)
      BY <2>1, <2>2, <2>4, Zenon DEF TextOf
    <2> QED
      BY <2>3, <2>4
  <1>13. RestAt(b, m, c) = TextOf(SkippedSeparators(v)) \o q
    <2>1. PICK after : after = SkippedSeparators(v)
      OBVIOUS
    <2>2. RestAt(b, m, c) = (IF after = << >> THEN << >> ELSE <<Text(after)>>) \o q
      BY <1>4, <1>5, <1>7, <1>11, <2>1 DEF RestAt
    <2> QED
      BY <2>1, <2>2 DEF TextOf
  <1> QED
    <2>1. b = p \o (<<k>> \o q)
      BY <1>2, <1>3, <1>4, <1>5, Zenon
    <2>2. k.words = u \o v
      BY <1>7, <1>9, <1>10, <1>11, Zenon
    <2>3. InsideParts(b, m, c, p, k, q, u, v)
      BY <1>3, <1>4, <1>6, <1>10, <1>12, <1>13, <2>1, <2>2, Zenon DEF InsideParts
    <2> QED
      BY <2>3, Zenon

\* Whatever the cut, the head and the rest show what the block shows.
LEMMA CutShowsAll ==
  ASSUME NEW b \in Seq(DeckKid), NEW m, NEW c, CutOK(b, m, c)
  PROVE  /\ PrefixOf(b, m, c) \in Seq(DeckKid) /\ RestAt(b, m, c) \in Seq(DeckKid)
         /\ BlockShown(b) = Join(BlockShown(PrefixOf(b, m, c)), BlockShown(RestAt(b, m, c)))
  <1>1. CASE ~IsText(b, m + 1)
    <2>1. PICK p \in Seq(DeckKid), q \in Seq(DeckKid) : BetweenParts(b, m, c, p, q)
      BY <1>1, CutBetween
    <2>2. BlockShown(p \o q) = Join(BlockShown(p), BlockShown(q))
      BY BlockShownCat
    <2> QED
      BY <2>1, <2>2, Zenon DEF BetweenParts
  <1>2. CASE IsText(b, m + 1)
    <2>1. PICK p \in Seq(DeckKid), k \in DeckKid, q \in Seq(DeckKid), u \in Seq(DeckWord), v \in Seq(DeckWord) :
            InsideParts(b, m, c, p, k, q, u, v)
      BY <1>2, CutInside
    <2>2. PICK w \in Seq(DeckWord) : w = SkippedSeparators(v) /\ WordsShown(w) = WordsShown(v)
      BY SkippedShowsAll
    <2>3. /\ TextOf(u) \in Seq(DeckKid) /\ TextOf(w) \in Seq(DeckKid)
          /\ BlockShown(TextOf(u)) = WordsShown(u) /\ BlockShown(TextOf(w)) = WordsShown(w)
      BY TextOfIs
    <2>4. <<k>> \in Seq(DeckKid) /\ <<k>> \o q \in Seq(DeckKid)
      BY SingleSeq, ConcatProperties
    <2>5. PICK sp \in Seq(ShownItem) : sp = BlockShown(p)
      BY BlockShownLaws
    <2>6. PICK sq \in Seq(ShownItem) : sq = BlockShown(q)
      BY BlockShownLaws
    <2>7. PICK su \in Seq(ShownItem) : su = WordsShown(u)
      BY WordsShownLaws
    <2>8. PICK sv \in Seq(ShownItem) : sv = WordsShown(v)
      BY WordsShownLaws
    <2>9. BlockShown(b) = Join(sp, Join(Join(su, sv), sq))
      <3>1. KidShown(k) = Join(su, sv)
        <4>1. WordsShown(u \o v) = Join(su, sv)
          BY <2>7, <2>8, WordsShownCat
        <4>2. KidShown(k) = WordsShown(u \o v)
          BY <2>1, Zenon DEF KidShown, InsideParts
        <4> QED
          BY <4>1, <4>2, Zenon
      <3>2. BlockShown(<<k>> \o q) = Join(Join(su, sv), sq)
        <4>1. BlockShown(<<k>> \o q) = Join(BlockShown(<<k>>), BlockShown(q))
          BY <2>4, BlockShownCat
        <4>2. BlockShown(<<k>>) = KidShown(k)
          BY BlockShownOne
        <4> QED
          BY <2>6, <3>1, <4>1, <4>2, Zenon
      <3>3. BlockShown(p \o (<<k>> \o q)) = Join(sp, Join(Join(su, sv), sq))
        <4>1. BlockShown(p \o (<<k>> \o q)) = Join(BlockShown(p), BlockShown(<<k>> \o q))
          BY <2>4, BlockShownCat
        <4> QED
          BY <2>5, <3>2, <4>1, Zenon
      <3> QED
        BY <2>1, <3>3, Zenon DEF InsideParts
    <2>10. BlockShown(PrefixOf(b, m, c)) = Join(sp, su)
      <3>1. BlockShown(p \o TextOf(u)) = Join(BlockShown(p), BlockShown(TextOf(u)))
        BY <2>3, BlockShownCat
      <3> QED
        BY <2>1, <2>3, <2>5, <2>7, <3>1, Zenon DEF InsideParts
    <2>11. BlockShown(RestAt(b, m, c)) = Join(sv, sq)
      <3>1. BlockShown(TextOf(w) \o q) = Join(BlockShown(TextOf(w)), BlockShown(q))
        BY <2>3, BlockShownCat
      <3> QED
        BY <2>1, <2>2, <2>3, <2>6, <2>8, <3>1, Zenon DEF InsideParts
    <2>12. Join(sp, Join(Join(su, sv), sq)) = Join(Join(sp, su), Join(sv, sq))
      <3>1. Join(Join(su, sv), sq) = Join(su, Join(sv, sq))
        BY JoinAssociative
      <3>2. PICK t \in Seq(ShownItem) : t = Join(sv, sq)
        BY JoinLaws
      <3>3. Join(sp, Join(su, t)) = Join(Join(sp, su), t)
        BY JoinAssociative
      <3> QED
        BY <3>1, <3>2, <3>3
    <2>13. PrefixOf(b, m, c) \in Seq(DeckKid) /\ RestAt(b, m, c) \in Seq(DeckKid)
      <3>1. p \o TextOf(u) \in Seq(DeckKid) /\ TextOf(w) \o q \in Seq(DeckKid)
        BY <2>3, ConcatProperties
      <3> QED
        BY <2>1, <2>2, <3>1, Zenon DEF InsideParts
    <2> QED
      BY <2>9, <2>10, <2>11, <2>12, <2>13
  <1> QED
    BY <1>1, <1>2

\* A block with children has pieces.
LEMMA PiecesPositive ==
  ASSUME NEW b \in Seq(DeckKid), b # << >>
  PROVE  KidsPieces(b) >= 1
  <1>1. 0 \in Nat /\ 0 < Len(b)
    BY EmptySeq
  <1>2. /\ SubSeq(b, 1, 0) \in Seq(DeckKid) /\ SubSeq(b, 0 + 2, Len(b)) \in Seq(DeckKid) /\ b[0 + 1] \in DeckKid
        /\ b = SubSeq(b, 1, 0) \o (<<b[0 + 1]>> \o SubSeq(b, 0 + 2, Len(b)))
    BY <1>1, SeqSplitAt
  <1>3. PICK p \in Seq(DeckKid) : p = SubSeq(b, 1, 0)
    BY <1>2
  <1>4. PICK q \in Seq(DeckKid) : q = SubSeq(b, 0 + 2, Len(b))
    BY <1>2
  <1>5. PICK k \in DeckKid : k = b[0 + 1]
    BY <1>2
  <1>6. PICK r \in Seq(DeckKid) : r = <<k>> \o q /\ KidsPieces(r) = KidPieces(k) + KidsPieces(q)
    <2>1. <<k>> \in Seq(DeckKid) /\ <<k>> \o q \in Seq(DeckKid)
      BY SingleSeq, ConcatProperties
    <2> QED
      BY <2>1, KidsPiecesCat, KidsPiecesOne
  <1>7. KidsPieces(p \o r) = KidsPieces(p) + KidsPieces(r)
    BY KidsPiecesCat
  <1>8. KidsPieces(b) = KidsPieces(p) + KidsPieces(r)
    <2>1. b = p \o r
      BY <1>2, <1>3, <1>4, <1>5, <1>6, Zenon
    <2> QED
      BY <1>7, <2>1, Zenon
  <1>9. KidPieces(k) \in Nat /\ KidPieces(k) >= 1 /\ KidsPieces(q) \in Nat /\ KidsPieces(p) \in Nat
    BY KidPiecesIs, KidsPiecesLaws
  <1> QED
    <2>1. PICK x \in Nat, y \in Nat, z \in Nat : x = KidPieces(k) /\ y = KidsPieces(q) /\ z = KidsPieces(p)
      BY <1>9
    <2>2. KidsPieces(b) = z + (x + y) /\ x >= 1
      <3>1. KidsPieces(r) = x + y
        BY <1>6, <2>1, Zenon
      <3> QED
        BY <1>8, <1>9, <2>1, <3>1, Zenon
    <2> QED
      BY <2>2

\* The head takes a piece from the rest.
LEMMA CutTakesPiece ==
  ASSUME NEW b \in Seq(DeckKid), NEW m, NEW c, CutOK(b, m, c), m > 0 \/ c > 0
  PROVE  KidsPieces(RestAt(b, m, c)) < KidsPieces(b) /\ PrefixOf(b, m, c) # << >>
  <1>0. m \in Nat /\ c \in Nat
    BY DEF CutOK
  <1>1. CASE ~IsText(b, m + 1)
    <2>1. PICK p \in Seq(DeckKid), q \in Seq(DeckKid) : BetweenParts(b, m, c, p, q)
      BY <1>1, CutBetween
    <2>2. p # << >>
      <3>1. Len(p) = m /\ c = 0
        BY <2>1, Zenon DEF BetweenParts
      <3> QED
        BY <1>0, <3>1, EmptySeq
    <2>3. PICK x \in Nat, y \in Nat : x = KidsPieces(p) /\ y = KidsPieces(q)
      BY KidsPiecesLaws
    <2>4. x >= 1
      BY <2>2, <2>3, PiecesPositive
    <2>5. KidsPieces(p \o q) = x + y
      BY <2>3, KidsPiecesCat
    <2>6. KidsPieces(b) = x + y /\ KidsPieces(RestAt(b, m, c)) = y
      BY <2>1, <2>3, <2>5, Zenon DEF BetweenParts
    <2>7. PrefixOf(b, m, c) # << >>
      BY <2>1, <2>2, Zenon DEF BetweenParts
    <2> QED
      BY <2>4, <2>6, <2>7
  <1>2. CASE IsText(b, m + 1)
    <2>1. PICK p \in Seq(DeckKid), k \in DeckKid, q \in Seq(DeckKid), u \in Seq(DeckWord), v \in Seq(DeckWord) :
            InsideParts(b, m, c, p, k, q, u, v)
      BY <1>2, CutInside
    <2>2. PICK w \in Seq(DeckWord) : w = SkippedSeparators(v) /\ Len(w) <= Len(v)
      BY SkippedShowsAll
    <2>3. /\ TextOf(u) \in Seq(DeckKid) /\ TextOf(w) \in Seq(DeckKid)
          /\ KidsPieces(TextOf(u)) = Len(u) /\ KidsPieces(TextOf(w)) = Len(w)
      BY TextOfIs
    <2>4. PICK lu \in Nat, lv \in Nat, lw \in Nat : lu = Len(u) /\ lv = Len(v) /\ lw = Len(w)
      OBVIOUS
    <2>5. PICK x \in Nat, y \in Nat : x = KidsPieces(p) /\ y = KidsPieces(q)
      BY KidsPiecesLaws
    <2>6. lu = c /\ lw <= lv
      BY <2>1, <2>2, <2>4 DEF InsideParts
    <2>7. m > 0 => x >= 1
      <3>1. Len(p) = m
        BY <2>1, Zenon DEF InsideParts
      <3>2. m > 0 => p # << >>
        BY <1>0, <3>1, EmptySeq
      <3> QED
        BY <2>5, <3>2, PiecesPositive
    <2>8. KidsPieces(b) = x + ((lu + lv) + y)
      <3>1. KidPieces(k) = Len(u \o v)
        BY <2>1, Zenon DEF KidPieces, InsideParts
      <3>2. Len(u \o v) = lu + lv
        BY <2>4, ConcatProperties
      <3>3. <<k>> \in Seq(DeckKid) /\ <<k>> \o q \in Seq(DeckKid)
        BY SingleSeq, ConcatProperties
      <3>4. KidsPieces(<<k>> \o q) = KidsPieces(<<k>>) + KidsPieces(q)
        BY <3>3, KidsPiecesCat
      <3>5. KidsPieces(<<k>>) = KidPieces(k)
        BY KidsPiecesOne
      <3>6. KidsPieces(p \o (<<k>> \o q)) = KidsPieces(p) + KidsPieces(<<k>> \o q)
        BY <3>3, KidsPiecesCat
      <3>7. b = p \o (<<k>> \o q)
        BY <2>1, Zenon DEF InsideParts
      <3> QED
        BY <2>5, <3>1, <3>2, <3>4, <3>5, <3>6, <3>7, Zenon
    <2>9. KidsPieces(RestAt(b, m, c)) = lw + y
      <3>1. KidsPieces(TextOf(w) \o q) = KidsPieces(TextOf(w)) + KidsPieces(q)
        BY <2>3, KidsPiecesCat
      <3> QED
        BY <2>1, <2>2, <2>3, <2>4, <2>5, <3>1, Zenon DEF InsideParts
    <2>10. PrefixOf(b, m, c) # << >>
      <3>1. KidsPieces(p \o TextOf(u)) = x + lu
        BY <2>3, <2>4, <2>5, KidsPiecesCat
      <3>2. KidsPieces(<< >>) = 0
        BY EmptySeq, KidsPiecesLaws
      <3>3. x + lu # 0
        BY <1>0, <2>6, <2>7
      <3> QED
        BY <2>1, <3>1, <3>2, <3>3, Zenon DEF InsideParts
    <2> QED
      BY <1>0, <2>6, <2>7, <2>8, <2>9, <2>10
  <1> QED
    BY <1>1, <1>2

-----------------------------------------------------------------------------
(* What a cut weighs, and that a page closed by one fits.                   *)

\* The sizes are numbers.
LEMMA LimitIs ==
  Limit \in Nat /\ CardCost \in Nat /\ NavCost \in Nat /\ PageBytes \in Nat /\ MinLimit \in Nat /\ MaxDepth \in Nat
  BY DeckAssumption DEF Limit

LEMMA CardSizeIs ==
  ASSUME NEW bs \in Seq(DeckBlock), bs # << >>
  PROVE  CardSize(bs) = CardCost + BlocksSize(bs)
  BY DEF CardSize, BlocksSize

\* A page weighs its blocks.
LEMMA SizeWith ==
  ASSUME NEW page \in Seq(DeckBlock), NEW b \in DeckBlock
  PROVE  /\ PageSizeWith(page, b) = CardCost + (BlocksSize(page) + BlockSize(b))
         /\ BlocksSize(page) \in Nat /\ BlockSize(b) \in Nat
  <1>1. Append(page, b) \in Seq(DeckBlock) /\ Append(page, b) # << >> /\ Append(page, b) = page \o <<b>>
    BY AppendProperties, AppendIsConcat
  <1>2. <<b>> \in Seq(DeckBlock)
    BY SingleSeq
  <1>3. BlocksSize(page \o <<b>>) = BlocksSize(page) + BlocksSize(<<b>>)
    BY <1>2, BlocksSizeCat
  <1>4. BlocksSize(<<b>>) = BlockSize(b)
    BY BlocksSizeOne
  <1>5. CardSize(Append(page, b)) = CardCost + BlocksSize(Append(page, b))
    BY <1>1, CardSizeIs
  <1>6. PageSizeWith(page, b) = CardCost + (BlocksSize(page) + BlockSize(b))
    BY <1>1, <1>3, <1>4, <1>5, Zenon DEF PageSizeWith
  <1> QED
    BY <1>6, BlocksSizeLaws, BlockSizeIs

\* A cut that backs up into the last child it kept whole weighs no more.
LEMMA BackedUpWeighsLess ==
  ASSUME NEW b \in Seq(DeckKid), NEW m \in Nat, NEW c \in Nat, c > 0, CutOK(b, m, c)
  PROVE  BlockSize(PrefixOf(b, m, c)) <= BlockSize(PrefixOf(b, m + 1, 0))
  <1>1. PICK p \in Seq(DeckKid), k \in DeckKid, q \in Seq(DeckKid), u \in Seq(DeckWord), v \in Seq(DeckWord) :
            InsideParts(b, m, c, p, k, q, u, v)
    BY CutInside DEF CutOK
  <1>2. p = SubSeq(b, 1, m) /\ k.kind = "text" /\ k = b[m + 1] /\ k.words = u \o v /\ Len(u) = c
    BY <1>1, Zenon DEF InsideParts
  <1>3. u # << >>
    BY <1>2, EmptySeq
  <1>4. PICK t \in DeckKid : t = Text(u) /\ t.kind = "text" /\ t.words = u
    BY <1>3, TextIs
  <1>5. PrefixOf(b, m, c) = p \o <<t>>
    BY <1>1, <1>3, <1>4, Zenon DEF InsideParts, TextOf
  <1>6. PrefixOf(b, m + 1, 0) = p \o <<k>>
    <2>1. m + 1 \in 1 .. Len(b)
      BY DEF CutOK, IsText
    <2>2. m + 1 \in 0 .. Len(b)
      BY <2>1
    <2>3. SubSeq(b, 1, m + 1) \in Seq(DeckKid)
      BY <2>2, SeqCut
    <2>4. PrefixOf(b, m + 1, 0) = SubSeq(b, 1, m + 1) \o << >>
      BY DEF PrefixOf
    <2>5. SubSeq(b, 1, m + 1) \o << >> = SubSeq(b, 1, m + 1)
      BY <2>3, ConcatEmptySeq
    <2>6. SubSeq(b, 1, m + 1) = SubSeq(b, 1, m + 1 - 1) \o <<b[m + 1]>>
      <3>1. Len(b) \in Nat
        OBVIOUS
      <3>2. 1 \in 1 .. Len(b) /\ m + 1 \in 1 .. Len(b)
        BY <2>1, <3>1
      <3> QED
        BY <3>2, SubSeqRecursiveSecond
    <2>7. m + 1 - 1 = m
      OBVIOUS
    <2> QED
      BY <1>2, <2>4, <2>5, <2>6, <2>7, Zenon
  <1>7. KidSize(t) <= KidSize(k) /\ KidSize(t) \in Nat /\ KidSize(k) \in Nat
    <2>1. PICK lu \in Nat, lv \in Nat : lu = Len(u) /\ lv = Len(v)
      OBVIOUS
    <2>2. PICK x \in Nat, y \in Nat : x = WordsLen(u) /\ y = WordsLen(v)
      BY WordsLenLaws
    <2>3. PICK uv \in Seq(DeckWord) : uv = u \o v /\ Len(uv) = lu + lv /\ uv # << >>
      <3>1. u \o v \in Seq(DeckWord) /\ Len(u \o v) = lu + lv
        BY <2>1, ConcatProperties
      <3>2. lu > 0
        BY <1>2, <2>1
      <3>3. u \o v # << >>
        BY <3>1, <3>2, <2>1, EmptySeq
      <3> QED
        BY <3>1, <3>3
    <2>4. WordsLen(uv) = x + y
      BY <2>2, <2>3, WordsLenCat
    <2>5. TextBytes(u) = x + (lu - 1)
      BY <1>3, <2>1, <2>2, TextBytesIs
    <2>6. TextBytes(uv) = (x + y) + ((lu + lv) - 1)
      BY <2>3, <2>4, TextBytesIs
    <2>7. KidSize(t) = 2 + TextBytes(u)
      BY <1>4, Zenon DEF KidSize
    <2>8. KidSize(k) = 2 + TextBytes(uv)
      BY <1>2, <2>3, Zenon DEF KidSize
    <2> QED
      BY <2>5, <2>6, <2>7, <2>8, KidSizeNat
  <1>8. ASSUME NEW z \in DeckKid
        PROVE  p \o <<z>> \in Seq(DeckKid) /\ BlockSize(p \o <<z>>) = 2 + (KidsSize(p) + KidSize(z))
    <2>1. <<z>> \in Seq(DeckKid) /\ Len(<<z>>) = 1
      BY SingleSeq
    <2>2. p \o <<z>> \in Seq(DeckKid) /\ Len(p \o <<z>>) = Len(p) + 1
      BY <2>1, ConcatProperties
    <2>3. p \o <<z>> # << >>
      <3>1. Len(p) \in Nat
        OBVIOUS
      <3> QED
        BY <2>2, <3>1, EmptySeq
    <2>4. KidsSize(p \o <<z>>) = KidsSize(p) + KidsSize(<<z>>)
      BY <2>1, KidsSizeCat
    <2>5. KidsSize(<<z>>) = KidSize(z)
      BY KidsSizeOne
    <2>6. p \o <<z>> \in DeckBlock
      BY <2>2 DEF DeckBlock
    <2>7. BlockSize(p \o <<z>>) = 2 + KidsSize(p \o <<z>>)
      BY <2>3, <2>6, BlockSizeIs
    <2> QED
      BY <2>2, <2>4, <2>5, <2>7, Zenon
  <1>9. BlockSize(p \o <<t>>) = 2 + (KidsSize(p) + KidSize(t)) /\ BlockSize(p \o <<k>>) = 2 + (KidsSize(p) + KidSize(k))
    BY <1>8
  <1>10. PICK x \in Nat, y \in Nat, z \in Nat : x = KidsSize(p) /\ y = KidSize(t) /\ z = KidSize(k)
    BY <1>7, KidsSizeLaws
  <1>11. BlockSize(PrefixOf(b, m, c)) = 2 + (x + y) /\ BlockSize(PrefixOf(b, m + 1, 0)) = 2 + (x + z)
    BY <1>5, <1>6, <1>9, <1>10, Zenon
  <1> QED
    BY <1>7, <1>10, <1>11

\* Every head up to the children that fit does fit.
LEMMA FittingKidsIs ==
  ASSUME NEW page, NEW b \in Seq(DeckKid)
  PROVE  /\ FittingKids(page, b) \in 0 .. Len(b)
         /\ \A n \in 1 .. FittingKids(page, b) : PageSizeWith(page, PrefixOf(b, n, 0)) <= Limit
  <1> DEFINE S == {m \in 0 .. Len(b) : \A n \in 1 .. m : PageSizeWith(page, PrefixOf(b, n, 0)) <= Limit}
  <1>1. Len(b) \in Nat
    OBVIOUS
  <1>2. 0 \in S /\ S \in SUBSET (0 .. Len(b))
    BY <1>1
  <1>3. FittingKids(page, b) = Max(S)
    BY DEF FittingKids
  <1>4. Max(S) \in S
    <2> HIDE DEF S
    <2> QED
      BY <1>1, <1>2, MaxIs
  <1>5. PICK x \in S : x = Max(S)
    BY <1>4
  <1> QED
    BY <1>3, <1>5

\* And every one up to the words that fit.
LEMMA FittingWordsIs ==
  ASSUME NEW page, NEW b \in Seq(DeckKid), NEW m \in 0 .. Len(b)
  PROVE  /\ FittingWords(page, b, m) \in Nat
         /\ FittingWords(page, b, m) > 0 =>
              /\ IsText(b, m + 1) /\ FittingWords(page, b, m) <= Len(b[m + 1].words)
              /\ PageSizeWith(page, PrefixOf(b, m, FittingWords(page, b, m))) <= Limit
  <1>1. CASE ~IsText(b, m + 1)
    BY <1>1 DEF FittingWords
  <1>2. CASE IsText(b, m + 1)
    <2> DEFINE S == {c \in 0 .. Len(b[m + 1].words) :
                       c = 0 \/ PageSizeWith(page, PrefixOf(b, m, c)) <= Limit}
    <2>1. b[m + 1] \in DeckKid /\ b[m + 1].kind = "text"
      BY <1>2 DEF IsText
    <2>2. Len(b[m + 1].words) \in Nat
      <3>1. b[m + 1].words \in Seq(DeckWord)
        BY <2>1, KidIs
      <3> QED
        BY <3>1, LenProperties
    <2>3. 0 \in S /\ S \in SUBSET (0 .. Len(b[m + 1].words))
      BY <2>2
    <2>4. FittingWords(page, b, m) = Max(S)
      BY <1>2 DEF FittingWords
    <2>5. Max(S) \in S
      <3> HIDE DEF S
      <3> QED
        BY <2>2, <2>3, MaxIs
    <2>6. PICK x \in S : x = Max(S)
      BY <2>5
    <2>7. x \in 0 .. Len(b[m + 1].words) /\ (x = 0 \/ PageSizeWith(page, PrefixOf(b, m, x)) <= Limit)
      OBVIOUS
    <2> HIDE DEF S
    <2>8. FittingWords(page, b, m) = x
      BY <2>4, <2>6
    <2>9. x \in Nat /\ x <= Len(b[m + 1].words)
      BY <2>2, <2>7
    <2> QED
      BY <1>2, <2>7, <2>8, <2>9
  <1> QED
    BY <1>1, <1>2

LEMMA TrimmedTailIs ==
  ASSUME NEW ws \in Seq(DeckWord)
  PROVE  TrimmedTail(ws) \in 0 .. Len(ws)
  <1> DEFINE S == {0} \cup {i \in DOMAIN ws : ws[i].kind = "word"}
  <1>1. Len(ws) \in Nat /\ S \in SUBSET (0 .. Len(ws)) /\ S # {}
    OBVIOUS
  <1>2. TrimmedTail(ws) = Max(S)
    BY DEF TrimmedTail
  <1> HIDE DEF S
  <1>3. Max(S) \in S
    BY <1>1, MaxIs
  <1> QED
    BY <1>1, <1>2, <1>3

\* What split_to_fit() decides when it splits.
LEMMA CutIs ==
  ASSUME NEW page \in Seq(DeckBlock), NEW b \in Seq(DeckKid), CanSplit(page, b)
  PROVE  \E m, c : /\ CutOK(b, m, c) /\ (m > 0 \/ c > 0)
                   /\ PageSizeWith(page, PrefixOf(b, m, c)) <= Limit
                   /\ HeadOf(page, b) = PrefixOf(b, m, c) /\ Rest(page, b) = RestAt(b, m, c)
  <1>1. PICK m \in Nat : m = FittingKids(page, b)
    <2>1. Len(b) \in Nat
      OBVIOUS
    <2> QED
      BY <2>1, FittingKidsIs
  <1>2. m \in 0 .. Len(b) /\ \A n \in 1 .. m : PageSizeWith(page, PrefixOf(b, n, 0)) <= Limit
    BY <1>1, FittingKidsIs
  <1>3. PICK c \in Nat : c = FittingWords(page, b, m)
    BY <1>2, FittingWordsIs
  <1>4. c > 0 => IsText(b, m + 1) /\ c <= Len(b[m + 1].words) /\ PageSizeWith(page, PrefixOf(b, m, c)) <= Limit
    BY <1>2, <1>3, FittingWordsIs
  <1>5. Cut(page, b) # <<0, 0>>
    BY DEF CanSplit
  <1>6. ASSUME NEW x, NEW y, Cut(page, b) = <<x, y>>
        PROVE  HeadOf(page, b) = PrefixOf(b, x, y) /\ Rest(page, b) = RestAt(b, x, y)
    BY <1>6 DEF HeadOf, Rest, RestAt
  <1>7. CASE Cut(page, b) = <<m, c>> /\ ~(c = 0 /\ m > 0 /\ IsText(b, m) /\ TrimmedTail(b[m].words) < Len(b[m].words))
    <2>1. m > 0 \/ c > 0
      BY <1>5, <1>7
    <2>2. CutOK(b, m, c)
      BY <1>2, <1>4 DEF CutOK
    <2>3. PageSizeWith(page, PrefixOf(b, m, c)) <= Limit
      <3>1. CASE c > 0
        BY <1>4, <3>1
      <3>2. CASE ~(c > 0)
        <4>1. c = 0 /\ m \in 1 .. m
          BY <2>1, <3>2
        <4> QED
          BY <1>2, <4>1
      <3> QED
        BY <3>1, <3>2
    <2> QED
      BY <1>6, <1>7, <2>1, <2>2, <2>3, Zenon
  <1>8. CASE /\ c = 0 /\ m > 0 /\ IsText(b, m) /\ TrimmedTail(b[m].words) < Len(b[m].words)
             /\ Cut(page, b) = <<m - 1, TrimmedTail(b[m].words)>>
    <2>1. PICK n \in Nat : m = n + 1
      <3>1. m - 1 \in Nat /\ m = (m - 1) + 1
        BY <1>8
      <3> QED
        BY <3>1
    <2>2. m - 1 = n /\ n \in 0 .. Len(b) /\ IsText(b, n + 1)
      BY <1>2, <1>8, <2>1
    <2>3. b[n + 1].words \in Seq(DeckWord)
      <3>1. b[n + 1] \in DeckKid /\ b[n + 1].kind = "text"
        BY <2>2 DEF IsText
      <3> QED
        BY <3>1, KidIs
    <2>4. PICK keep \in Nat : keep = TrimmedTail(b[n + 1].words) /\ keep <= Len(b[n + 1].words)
      <3>1. TrimmedTail(b[n + 1].words) \in 0 .. Len(b[n + 1].words) /\ Len(b[n + 1].words) \in Nat
        BY <2>3, TrimmedTailIs, LenProperties
      <3> QED
        BY <3>1
    <2>5. Cut(page, b) = <<n, keep>>
      BY <1>8, <2>1, <2>2, <2>4
    <2>6. n > 0 \/ keep > 0
      BY <1>5, <2>5
    <2>7. CutOK(b, n, keep)
      BY <2>2, <2>4 DEF CutOK
    <2>8. PageSizeWith(page, PrefixOf(b, n, keep)) <= Limit
      <3>1. CASE keep = 0
        <4>1. n \in 1 .. m
          BY <2>1, <2>6, <3>1
        <4> QED
          BY <1>2, <3>1, <4>1
      <3>2. CASE keep # 0
        <4>1. keep > 0
          BY <3>2
        <4>2. BlockSize(PrefixOf(b, n, keep)) <= BlockSize(PrefixOf(b, n + 1, 0))
          BY <2>7, <4>1, BackedUpWeighsLess
        <4>3. CutOK(b, n + 1, 0)
          BY <1>2, <2>1 DEF CutOK
        <4>4. PrefixOf(b, n, keep) \in DeckBlock /\ PrefixOf(b, n + 1, 0) \in DeckBlock
          BY <2>7, <4>3, CutShowsAll DEF DeckBlock
        <4>5. PICK x \in Nat, y \in Nat, z \in Nat :
                x = BlocksSize(page) /\ y = BlockSize(PrefixOf(b, n, keep)) /\ z = BlockSize(PrefixOf(b, n + 1, 0))
          BY <4>4, SizeWith
        <4>6. /\ PageSizeWith(page, PrefixOf(b, n, keep)) = CardCost + (x + y)
              /\ PageSizeWith(page, PrefixOf(b, n + 1, 0)) = CardCost + (x + z)
          BY <4>4, <4>5, SizeWith
        <4>7. PageSizeWith(page, PrefixOf(b, n + 1, 0)) <= Limit
          <5>1. n + 1 \in 1 .. m
            BY <2>1
          <5> QED
            BY <1>2, <5>1
        <4> QED
          <5>1. PICK l \in Nat, cc \in Nat : l = Limit /\ cc = CardCost
            BY LimitIs
          <5>2. y <= z /\ cc + (x + z) <= l
            BY <4>2, <4>5, <4>6, <4>7, <5>1, Zenon
          <5>3. cc + (x + y) <= l
            BY <5>2
          <5> QED
            BY <4>6, <5>1, <5>3, Zenon
      <3> QED
        BY <3>1, <3>2
    <2> QED
      BY <1>6, <2>5, <2>6, <2>7, <2>8, Zenon
  <1>9. Cut(page, b) = IF c = 0 /\ m > 0 /\ IsText(b, m) /\ TrimmedTail(b[m].words) < Len(b[m].words)
                       THEN <<m - 1, TrimmedTail(b[m].words)>> ELSE <<m, c>>
    BY <1>1, <1>3, Zenon DEF Cut
  <1> QED
    BY <1>7, <1>8, <1>9

-----------------------------------------------------------------------------
(* The invariant of the packing: of a card d, what is queued (q), on the    *)
(* page being filled (c) and on the pages done (p).                         *)

ShownOf(p, c, q) == CardShown(Flat(p) \o c \o q)

PageOK(g) ==
    \/ CardSize(g) <= Limit
    \/ Len(g) = 1 /\ ~CanSplit(<< >>, g[1])

\* Where each ph of the packing stands.
Staged(d, q, c, p, ph) ==
    /\ ph \in {"read", "fit", "pack", "done"}
    /\ ph \in {"read", "fit"} => q = d /\ c = << >> /\ p = << >>
    /\ ph = "read" => d = << >>
    /\ ph = "pack" => d # << >> /\ (p = << >> /\ c = << >> => q # << >>)
    /\ ph = "done" => q = << >> /\ c = << >>

\* A block is one of the card's or a piece that shows something.
BlockOK(b, d) == b # << >> \/ b \in Range(d)

WholeBlocks(d, q, c, p) ==
    /\ \A i \in DOMAIN q : BlockOK(q[i], d)
    /\ \A i \in DOMAIN c : BlockOK(c[i], d)
    /\ \A n \in DOMAIN p : \A i \in DOMAIN p[n] : BlockOK(p[n][i], d)

Room(c, p, ph) ==
    /\ c # << >> => CardSize(c) <= Limit
    /\ \/ \A n \in DOMAIN p : PageOK(p[n])
       \/ ph = "done" /\ Len(p) = 1 /\ WholeSize(p[1]) <= PageBytes

\* Every page took a piece of the card.
PiecesTold(d, q, c, p) ==
    d # << >> =>
        /\ \A n \in DOMAIN p : p[n] # << >>
        /\ Len(p) + (IF c = << >> THEN 0 ELSE 1) + Pieces(q) <= Pieces(d)

PackOK(d, q, c, p, ph) ==
    /\ d \in Seq(DeckBlock) /\ q \in Seq(DeckBlock) /\ c \in Seq(DeckBlock) /\ p \in Seq(Seq(DeckBlock))
    /\ Staged(d, q, c, p, ph)
    /\ ShownOf(p, c, q) = CardShown(d)
    /\ WholeBlocks(d, q, c, p)
    /\ Room(c, p, ph)
    /\ PiecesTold(d, q, c, p)

PackInv == PackOK(deck, queue, cur, pages, phase)

-----------------------------------------------------------------------------
(* What is queued, on the page being filled and on the pages done.         *)

\* What shows: the pages done, the page being filled, the queue, in this order.
LEMMA ShownParts ==
  ASSUME NEW p \in Seq(Seq(DeckBlock)), NEW c \in Seq(DeckBlock), NEW q \in Seq(DeckBlock)
  PROVE  /\ ShownOf(p, c, q) = Join(Join(CardShown(Flat(p)), CardShown(c)), CardShown(q))
         /\ CardShown(Flat(p)) \in Seq(ShownItem) /\ CardShown(c) \in Seq(ShownItem)
         /\ CardShown(q) \in Seq(ShownItem)
  <1>1. PICK f \in Seq(DeckBlock) : f = Flat(p)
    BY FlatLaws
  <1>2. PICK fc \in Seq(DeckBlock) : fc = f \o c
    BY ConcatProperties
  <1>3. CardShown(fc) = Join(CardShown(f), CardShown(c))
    BY <1>2, CardShownCat
  <1>4. CardShown(fc \o q) = Join(CardShown(fc), CardShown(q))
    BY CardShownCat
  <1>5. CardShown(f) \in Seq(ShownItem) /\ CardShown(c) \in Seq(ShownItem) /\ CardShown(q) \in Seq(ShownItem)
    BY CardShownLaws
  <1> QED
    BY <1>1, <1>2, <1>3, <1>4, <1>5, Zenon DEF ShownOf

LEMMA HeadTailIs ==
  ASSUME NEW X, NEW q \in Seq(X), q # << >>
  PROVE  Head(q) \in X /\ Tail(q) \in Seq(X) /\ q = <<Head(q)>> \o Tail(q)
  <1>1. Head(q) \in X /\ Tail(q) \in Seq(X) /\ Len(Tail(q)) = Len(q) - 1 /\ Len(q) \in Nat \ {0}
    BY HeadTailProperties, EmptySeq
  <1>2. PICK s \in Seq(X) : s = <<Head(q)>> /\ Len(s) = 1 /\ s[1] = Head(q)
    BY <1>1, SingleSeq
  <1>3. PICK r \in Seq(X) : r = s \o Tail(q)
    BY <1>1, ConcatProperties
  <1>4. Len(r) = Len(q) /\ \A i \in 1 .. Len(r) : r[i] = q[i]
    <2>1. Len(r) = 1 + Len(Tail(q))
      BY <1>1, <1>2, <1>3, ConcatProperties
    <2>2. Len(r) = Len(q)
      BY <1>1, <2>1
    <2>3. r[1] = q[1]
      BY <1>1, <1>2, <1>3
    <2>4. \A i \in 2 .. Len(q) : r[i] = q[i]
      <3>1. TAKE i \in 2 .. Len(q)
      <3>2. i - 1 \in 1 .. Len(q) - 1 /\ i \in 2 .. 1 + Len(Tail(q))
        BY <1>1
      <3>3. r[i] = Tail(q)[i - 1]
        BY <1>1, <1>2, <1>3, <3>2
      <3>4. Tail(q)[i - 1] = q[i]
        BY <1>1, <3>2
      <3> QED
        BY <3>3, <3>4
    <2>5. \A i \in 1 .. Len(q) : i = 1 \/ i \in 2 .. Len(q)
      BY <1>1
    <2> QED
      BY <2>2, <2>3, <2>4, <2>5
  <1>5. r = q
    BY <1>4, SeqEqual
  <1> QED
    BY <1>1, <1>2, <1>3, <1>5, Zenon

\* A queue is its first block and the others.
LEMMA ConsIs ==
  ASSUME NEW q \in Seq(DeckBlock), q # << >>
  PROVE  /\ Head(q) \in DeckBlock /\ Tail(q) \in Seq(DeckBlock)
         /\ CardShown(q) = Join(BlockShown(Head(q)), CardShown(Tail(q)))
         /\ Pieces(q) = BlockPieces(Head(q)) + Pieces(Tail(q))
  <1>1. PICK b \in DeckBlock, t \in Seq(DeckBlock) : b = Head(q) /\ t = Tail(q) /\ q = <<b>> \o t
    <2>1. Head(q) \in DeckBlock /\ Tail(q) \in Seq(DeckBlock) /\ q = <<Head(q)>> \o Tail(q)
      BY HeadTailIs
    <2> QED
      BY <2>1, Zenon
  <1>2. <<b>> \in Seq(DeckBlock)
    BY SingleSeq
  <1>3. CardShown(<<b>> \o t) = Join(CardShown(<<b>>), CardShown(t)) /\ Pieces(<<b>> \o t) = Pieces(<<b>>) + Pieces(t)
    BY <1>2, CardShownCat, PiecesCat
  <1>4. CardShown(<<b>>) = BlockShown(b) /\ Pieces(<<b>>) = BlockPieces(b)
    BY CardShownOne, PiecesOne
  <1> QED
    BY <1>1, <1>3, <1>4, Zenon

\* A page takes a block.
LEMMA AppendIs ==
  ASSUME NEW c \in Seq(DeckBlock), NEW b \in DeckBlock
  PROVE  /\ Append(c, b) \in Seq(DeckBlock) /\ Append(c, b) # << >>
         /\ CardShown(Append(c, b)) = Join(CardShown(c), BlockShown(b))
  <1>1. Append(c, b) \in Seq(DeckBlock) /\ Append(c, b) # << >> /\ Append(c, b) = c \o <<b>>
    BY AppendProperties, AppendIsConcat
  <1>2. <<b>> \in Seq(DeckBlock)
    BY SingleSeq
  <1>3. CardShown(c \o <<b>>) = Join(CardShown(c), CardShown(<<b>>))
    BY <1>2, CardShownCat
  <1>4. CardShown(<<b>>) = BlockShown(b)
    BY CardShownOne
  <1> QED
    BY <1>1, <1>3, <1>4, Zenon

\* A page is added to those done.
LEMMA PageAdded ==
  ASSUME NEW p \in Seq(Seq(DeckBlock)), NEW g \in Seq(DeckBlock)
  PROVE  /\ Append(p, g) \in Seq(Seq(DeckBlock))
         /\ CardShown(Flat(Append(p, g))) = Join(CardShown(Flat(p)), CardShown(g))
  <1>1. Append(p, g) \in Seq(Seq(DeckBlock)) /\ Append(p, g) = p \o <<g>>
    BY AppendProperties, AppendIsConcat
  <1>2. PICK s \in Seq(Seq(DeckBlock)) : s = <<g>>
    <2>1. <<g>> \in Seq(Seq(DeckBlock))
      BY SingleSeq
    <2> QED
      BY <2>1
  <1>3. Flat(p \o s) = Join(Flat(p), Flat(s))
    BY FlatCat
  <1>4. Flat(<<g>>) = g
    BY FlatOne
  <1>5. PICK f \in Seq(DeckBlock) : f = Flat(p)
    BY FlatLaws
  <1>6. CardShown(f \o g) = Join(CardShown(f), CardShown(g))
    BY CardShownCat
  <1>7. Flat(Append(p, g)) = f \o g
    BY <1>1, <1>2, <1>3, <1>4, <1>5, Zenon DEF Join
  <1> QED
    BY <1>1, <1>5, <1>6, <1>7, Zenon

\* What a split leaves to queue.
RestQueue(r, t) == (IF r = << >> THEN << >> ELSE <<r>>) \o t

\* The rest shows and weighs what is left of the block, and opens no empty block.
LEMMA RestQueueIs ==
  ASSUME NEW r \in DeckBlock, NEW t \in Seq(DeckBlock)
  PROVE  /\ RestQueue(r, t) \in Seq(DeckBlock)
         /\ CardShown(RestQueue(r, t)) = Join(BlockShown(r), CardShown(t))
         /\ Pieces(RestQueue(r, t)) <= (1 + KidsPieces(r)) + Pieces(t)
         /\ \A i \in DOMAIN RestQueue(r, t) :
              (r # << >> /\ RestQueue(r, t)[i] = r) \/ \E j \in DOMAIN t : RestQueue(r, t)[i] = t[j]
  <1>1. PICK x \in Nat, y \in Nat : x = KidsPieces(r) /\ y = Pieces(t)
    BY BlockPiecesIs, PiecesLaws
  <1>2. CASE r = << >>
    <2>1. << >> \o t = t
      BY ConcatEmptySeq
    <2>2. RestQueue(r, t) = t
      BY <1>2, <2>1, Zenon DEF RestQueue
    <2>3. BlockShown(r) = NoItems
      BY <1>2, BlockShownLaws DEF DeckBlock
    <2>4. Join(NoItems, CardShown(t)) = CardShown(t)
      BY CardShownLaws, JoinLaws
    <2>5. y <= (1 + x) + y
      OBVIOUS
    <2>6. Pieces(t) <= (1 + KidsPieces(r)) + Pieces(t)
      BY <1>1, <2>5, Zenon
    <2>7. CardShown(t) = Join(BlockShown(r), CardShown(t))
      BY <2>3, <2>4, Zenon
    <2>8. \A i \in DOMAIN t : \E j \in DOMAIN t : t[i] = t[j]
      OBVIOUS
    <2> QED
      BY <2>2, <2>6, <2>7, <2>8, Zenon
  <1>3. CASE r # << >>
    <2>1. PICK s \in Seq(DeckBlock) : s = <<r>> /\ Len(s) = 1 /\ s[1] = r
      BY SingleSeq
    <2>2. PICK u \in Seq(DeckBlock) : u = s \o t
      BY ConcatProperties
    <2>3. RestQueue(r, t) = u
      BY <1>3, <2>1, <2>2, Zenon DEF RestQueue
    <2>4. CardShown(u) = Join(CardShown(s), CardShown(t)) /\ Pieces(u) = Pieces(s) + Pieces(t)
      BY <2>2, CardShownCat, PiecesCat
    <2>5. CardShown(s) = BlockShown(r) /\ Pieces(s) = BlockPieces(r)
      <3>1. CardShown(<<r>>) = BlockShown(r) /\ Pieces(<<r>>) = BlockPieces(r)
        BY CardShownOne, PiecesOne
      <3> QED
        BY <2>1, <3>1, Zenon
    <2>6. Pieces(s) = 1 + x
      BY <1>1, <2>5, BlockPiecesIs
    <2>7. Pieces(u) = (1 + x) + y
      BY <1>1, <2>4, <2>6, Zenon
    <2>8. Pieces(u) <= (1 + x) + y
      BY <2>7
    <2>9. \A i \in DOMAIN u : u[i] = r \/ \E j \in DOMAIN t : u[i] = t[j]
      <3>1. TAKE i \in DOMAIN u
      <3>2. PICK n \in Nat : n = Len(t)
        OBVIOUS
      <3>3. Len(u) = 1 + n
        BY <2>1, <2>2, <3>2, ConcatProperties
      <3>4. i \in 1 .. 1 + n
        BY <3>3
      <3>5. CASE i = 1
        BY <2>1, <2>2, <3>5
      <3>6. CASE i # 1
        <4>1. i - 1 \in 1 .. n /\ i \in 2 .. 1 + n
          BY <3>4, <3>6
        <4>2. u[i] = t[i - 1]
          BY <2>1, <2>2, <3>2, <4>1
        <4>3. i - 1 \in DOMAIN t
          BY <3>2, <4>1
        <4> QED
          BY <4>2, <4>3
      <3> QED
        BY <3>5, <3>6
    <2>10. Pieces(u) <= (1 + KidsPieces(r)) + Pieces(t) /\ CardShown(u) = Join(BlockShown(r), CardShown(t))
      BY <1>1, <2>4, <2>5, <2>8, Zenon
    <2> QED
      BY <1>3, <2>3, <2>9, <2>10, Zenon
  <1> QED
    BY <1>2, <1>3

\* A block that fits moves from the queue to the page.
LEMMA PlaceShows ==
  ASSUME NEW p \in Seq(Seq(DeckBlock)), NEW c \in Seq(DeckBlock), NEW q \in Seq(DeckBlock), q # << >>
  PROVE  ShownOf(p, Append(c, Head(q)), Tail(q)) = ShownOf(p, c, q)
  <1>1. PICK b \in DeckBlock, t \in Seq(DeckBlock) :
          b = Head(q) /\ t = Tail(q) /\ CardShown(q) = Join(BlockShown(b), CardShown(t))
    BY ConsIs
  <1>2. Append(c, b) \in Seq(DeckBlock) /\ CardShown(Append(c, b)) = Join(CardShown(c), BlockShown(b))
    BY AppendIs
  <1>3. PICK P \in Seq(ShownItem), C \in Seq(ShownItem), B \in Seq(ShownItem), T \in Seq(ShownItem) :
          P = CardShown(Flat(p)) /\ C = CardShown(c) /\ B = BlockShown(b) /\ T = CardShown(t)
    BY ShownParts, BlockShownType
  <1>4. ShownOf(p, c, q) = Join(Join(P, C), Join(B, T))
    BY <1>1, <1>3, ShownParts
  <1>5. ShownOf(p, Append(c, b), t) = Join(Join(P, Join(C, B)), T)
    <2>1. ShownOf(p, Append(c, b), t) = Join(Join(CardShown(Flat(p)), CardShown(Append(c, b))), CardShown(t))
      BY <1>2, ShownParts
    <2> QED
      BY <2>1, <1>2, <1>3, Zenon
  <1>6. Join(P, C) \in Seq(ShownItem)
    BY JoinLaws
  <1>7. Join(Join(P, C), Join(B, T)) = Join(Join(Join(P, C), B), T)
    BY <1>6, JoinAssociative
  <1>8. Join(P, Join(C, B)) = Join(Join(P, C), B)
    BY JoinAssociative
  <1> QED
    BY <1>1, <1>4, <1>5, <1>7, <1>8, Zenon

\* A page that closes as it is.
LEMMA TurnShows ==
  ASSUME NEW p \in Seq(Seq(DeckBlock)), NEW c \in Seq(DeckBlock), NEW q \in Seq(DeckBlock)
  PROVE  ShownOf(Append(p, c), << >>, q) = ShownOf(p, c, q)
  <1>1. PICK p2 \in Seq(Seq(DeckBlock)) : p2 = Append(p, c) /\ CardShown(Flat(p2)) = Join(CardShown(Flat(p)), CardShown(c))
    BY PageAdded
  <1>2. PICK e \in Seq(DeckBlock) : e = << >>
    BY EmptySeq
  <1>3. PICK P \in Seq(ShownItem), C \in Seq(ShownItem), Q \in Seq(ShownItem) :
          P = CardShown(Flat(p)) /\ C = CardShown(c) /\ Q = CardShown(q)
    BY ShownParts
  <1>4. CardShown(e) = NoItems
    BY <1>2, CardShownLaws
  <1>5. ShownOf(p2, e, q) = Join(Join(Join(P, C), NoItems), Q)
    <2>1. ShownOf(p2, e, q) = Join(Join(CardShown(Flat(p2)), CardShown(e)), CardShown(q))
      BY ShownParts
    <2> QED
      BY <2>1, <1>1, <1>3, <1>4, Zenon
  <1>6. ShownOf(p, c, q) = Join(Join(P, C), Q)
    BY <1>3, ShownParts
  <1>7. Join(Join(P, C), NoItems) = Join(P, C)
    <2>1. Join(P, C) \in Seq(ShownItem)
      BY JoinLaws
    <2> QED
      BY <2>1, JoinLaws
  <1> QED
    BY <1>1, <1>2, <1>5, <1>6, <1>7, Zenon

\* A page that closes with the head of a block.
LEMMA SplitShows ==
  ASSUME NEW p \in Seq(Seq(DeckBlock)), NEW c \in Seq(DeckBlock), NEW q \in Seq(DeckBlock), q # << >>,
         NEW h \in DeckBlock, NEW r \in DeckBlock, BlockShown(Head(q)) = Join(BlockShown(h), BlockShown(r))
  PROVE  ShownOf(Append(p, Append(c, h)), << >>, RestQueue(r, Tail(q))) = ShownOf(p, c, q)
  <1>1. PICK b \in DeckBlock, t \in Seq(DeckBlock) :
          b = Head(q) /\ t = Tail(q) /\ CardShown(q) = Join(BlockShown(b), CardShown(t))
    BY ConsIs
  <1>2. PICK g \in Seq(DeckBlock) : g = Append(c, h) /\ CardShown(g) = Join(CardShown(c), BlockShown(h))
    BY AppendIs
  <1>3. PICK s \in Seq(DeckBlock) : s = RestQueue(r, t) /\ CardShown(s) = Join(BlockShown(r), CardShown(t))
    BY RestQueueIs
  <1>4. ShownOf(Append(p, g), << >>, s) = ShownOf(p, g, s)
    BY TurnShows
  <1>5. PICK P \in Seq(ShownItem), C \in Seq(ShownItem), T \in Seq(ShownItem) :
          P = CardShown(Flat(p)) /\ C = CardShown(c) /\ T = CardShown(t)
    BY ShownParts
  <1>6. PICK H \in Seq(ShownItem), R \in Seq(ShownItem) : H = BlockShown(h) /\ R = BlockShown(r)
    BY BlockShownType
  <1>7. ShownOf(p, g, s) = Join(Join(P, Join(C, H)), Join(R, T))
    <2>1. ShownOf(p, g, s) = Join(Join(CardShown(Flat(p)), CardShown(g)), CardShown(s))
      BY ShownParts
    <2> QED
      BY <2>1, <1>2, <1>3, <1>5, <1>6, Zenon
  <1>8. ShownOf(p, c, q) = Join(Join(P, C), Join(Join(H, R), T))
    BY <1>1, <1>5, <1>6, ShownParts
  <1>9. Join(P, C) \in Seq(ShownItem) /\ Join(R, T) \in Seq(ShownItem)
    BY JoinLaws
  <1>10. Join(Join(H, R), T) = Join(H, Join(R, T)) /\ Join(P, Join(C, H)) = Join(Join(P, C), H)
    BY JoinAssociative
  <1>11. Join(Join(P, C), Join(H, Join(R, T))) = Join(Join(Join(P, C), H), Join(R, T))
    BY <1>9, JoinAssociative
  <1> QED
    BY <1>1, <1>2, <1>3, <1>4, <1>7, <1>8, <1>10, <1>11, Zenon

\* An unsplittable block alone on its page.
LEMMA AloneShows ==
  ASSUME NEW p \in Seq(Seq(DeckBlock)), NEW q \in Seq(DeckBlock), q # << >>
  PROVE  ShownOf(Append(p, <<Head(q)>>), << >>, Tail(q)) = ShownOf(p, << >>, q)
  <1>1. Head(q) \in DeckBlock /\ Tail(q) \in Seq(DeckBlock)
    BY ConsIs
  <1>2. PICK e \in Seq(DeckBlock) : e = << >>
    BY EmptySeq
  <1>3. PICK g \in Seq(DeckBlock) : g = Append(e, Head(q))
    BY <1>1, AppendIs
  <1>4. g = <<Head(q)>>
    <2>1. << >> \o <<Head(q)>> = <<Head(q)>>
      BY <1>1, SingleSeq, ConcatEmptySeq
    <2>2. Append(e, Head(q)) = e \o <<Head(q)>>
      BY <1>1, AppendIsConcat
    <2> QED
      BY <1>2, <1>3, <2>1, <2>2, Zenon
  <1>5. ShownOf(p, Append(e, Head(q)), Tail(q)) = ShownOf(p, e, q)
    BY PlaceShows
  <1>6. ShownOf(Append(p, g), << >>, Tail(q)) = ShownOf(p, g, Tail(q))
    BY <1>1, TurnShows
  <1> QED
    BY <1>2, <1>3, <1>4, <1>5, <1>6, Zenon

\* Before the first turn, and when a card goes out whole.
LEMMA WholeShows ==
  ASSUME NEW d \in Seq(DeckBlock)
  PROVE  /\ ShownOf(<< >>, << >>, d) = CardShown(d)
         /\ ShownOf(<<d>>, << >>, << >>) = CardShown(d)
  <1>1. PICK e \in Seq(DeckBlock) : e = << >> /\ CardShown(e) = NoItems
    BY EmptySeq, CardShownLaws
  <1>2. PICK z \in Seq(Seq(DeckBlock)) : z = << >> /\ Flat(z) = e
    BY <1>1, EmptySeq, FlatLaws DEF NoItems
  <1>3. PICK D \in Seq(ShownItem) : D = CardShown(d)
    BY CardShownLaws
  <1>4. ShownOf(z, e, d) = Join(Join(NoItems, NoItems), D)
    <2>1. ShownOf(z, e, d) = Join(Join(CardShown(Flat(z)), CardShown(e)), CardShown(d))
      BY ShownParts
    <2> QED
      BY <2>1, <1>1, <1>2, <1>3, Zenon
  <1>5. PICK s \in Seq(Seq(DeckBlock)) : s = <<d>>
    <2>1. <<d>> \in Seq(Seq(DeckBlock))
      BY SingleSeq
    <2> QED
      BY <2>1
  <1>6. Flat(s) = d
    BY <1>5, FlatOne
  <1>7. ShownOf(s, e, e) = Join(Join(D, NoItems), NoItems)
    BY <1>1, <1>3, <1>6, ShownParts
  <1>8. Join(Join(NoItems, NoItems), D) = D /\ Join(Join(D, NoItems), NoItems) = D
    <2>1. NoItems \in Seq(ShownItem) /\ Join(D, NoItems) = D /\ Join(NoItems, D) = D
      BY JoinLaws
    <2>2. Join(NoItems, NoItems) = NoItems
      BY <2>1, JoinLaws
    <2> QED
      BY <2>1, <2>2, Zenon
  <1> QED
    BY <1>1, <1>2, <1>3, <1>4, <1>5, <1>7, <1>8, Zenon

LEMMA AppendEach ==
  ASSUME NEW X, NEW s \in Seq(X), NEW x \in X
  PROVE  /\ Append(s, x) \in Seq(X) /\ Append(s, x) # << >> /\ Len(Append(s, x)) = Len(s) + 1
         /\ \A n \in DOMAIN Append(s, x) :
              (n \in DOMAIN s /\ Append(s, x)[n] = s[n]) \/ Append(s, x)[n] = x
  <1>1. Append(s, x) \in Seq(X) /\ Append(s, x) # << >> /\ Len(Append(s, x)) = Len(s) + 1
    BY AppendProperties
  <1>2. ASSUME NEW n \in DOMAIN Append(s, x)
        PROVE  (n \in DOMAIN s /\ Append(s, x)[n] = s[n]) \/ Append(s, x)[n] = x
    <2>1. n \in 1 .. Len(s) + 1 /\ Len(s) \in Nat
      BY <1>1
    <2>2. CASE n = Len(s) + 1
      BY <2>2, AppendProperties
    <2>3. CASE n # Len(s) + 1
      <3>1. n \in 1 .. Len(s)
        BY <2>1, <2>3
      <3> QED
        BY <3>1, AppendProperties
    <2> QED
      BY <2>2, <2>3
  <1> QED
    BY <1>1, <1>2

LEMMA HeadTailEach ==
  ASSUME NEW X, NEW q \in Seq(X), q # << >>
  PROVE  /\ \E i \in DOMAIN q : Head(q) = q[i]
         /\ \A j \in DOMAIN Tail(q) : \E i \in DOMAIN q : Tail(q)[j] = q[i]
  <1>1. Head(q) = q[1] /\ 1 \in DOMAIN q
    BY EmptySeq
  <1>2. ASSUME NEW j \in DOMAIN Tail(q)
        PROVE  \E i \in DOMAIN q : Tail(q)[j] = q[i]
    <2>1. Tail(q) \in Seq(X) /\ Len(Tail(q)) = Len(q) - 1 /\ Len(q) \in Nat \ {0}
      BY HeadTailProperties, EmptySeq
    <2>2. j \in 1 .. Len(q) - 1 /\ j + 1 \in 1 .. Len(q)
      BY <2>1
    <2>3. Tail(q)[j] = q[j + 1]
      BY <2>1, <2>2
    <2> QED
      BY <2>2, <2>3
  <1> QED
    BY <1>1, <1>2

\* The turns of the loop keep the invariant: a block placed whole.
LEMMA PlaceKeeps ==
  ASSUME NEW d, NEW q, NEW c, NEW p, PackOK(d, q, c, p, "pack"), q # << >>,
         PageSizeWith(c, Head(q)) <= Limit
  PROVE  PackOK(d, Tail(q), Append(c, Head(q)), p, "pack")
  <1>1. /\ d \in Seq(DeckBlock) /\ q \in Seq(DeckBlock) /\ c \in Seq(DeckBlock)
        /\ p \in Seq(Seq(DeckBlock))
    BY DEF PackOK
  <1>2. PICK b \in DeckBlock, t \in Seq(DeckBlock) : b = Head(q) /\ t = Tail(q)
    BY <1>1, ConsIs
  <1>3. PICK g \in Seq(DeckBlock) : g = Append(c, b) /\ g # << >>
    BY <1>1, AppendIs
  <1>4. Staged(d, t, g, p, "pack")
    BY <1>3, Zenon DEF PackOK, Staged
  <1>5. ShownOf(p, g, t) = CardShown(d)
    <2>1. ShownOf(p, Append(c, Head(q)), Tail(q)) = ShownOf(p, c, q)
      BY <1>1, PlaceShows
    <2> QED
      BY <1>2, <1>3, <2>1, Zenon DEF PackOK
  <1>6. WholeBlocks(d, t, g, p)
    <2>1. WholeBlocks(d, q, c, p)
      BY DEF PackOK
    <2>2. BlockOK(b, d)
      BY <1>1, <1>2, <2>1, HeadTailEach, Zenon DEF WholeBlocks
    <2>3. \A i \in DOMAIN t : BlockOK(t[i], d)
      BY <1>1, <1>2, <2>1, HeadTailEach, Zenon DEF WholeBlocks
    <2>4. \A i \in DOMAIN g : (i \in DOMAIN c /\ g[i] = c[i]) \/ g[i] = b
      BY <1>1, <1>3, AppendEach
    <2>5. \A i \in DOMAIN g : BlockOK(g[i], d)
      BY <2>1, <2>2, <2>4, Zenon DEF WholeBlocks
    <2> QED
      BY <2>1, <2>3, <2>5, Zenon DEF WholeBlocks
  <1>7. Room(g, p, "pack")
    <2>1. CardSize(g) <= Limit
      BY <1>2, <1>3, Zenon DEF PageSizeWith
    <2> QED
      BY <2>1, Zenon DEF PackOK, Room
  <1>8. PiecesTold(d, t, g, p)
    <2>1. PiecesTold(d, q, c, p)
      BY DEF PackOK
    <2>2. PICK l \in Nat, x \in Nat, y \in Nat, z \in Nat, w \in Nat :
            l = Len(p) /\ x = Pieces(q) /\ y = Pieces(t) /\ z = KidsPieces(b) /\ w = Pieces(d)
      BY <1>1, PiecesLaws, BlockPiecesIs, LenProperties
    <2>3. x = (1 + z) + y
      BY <1>1, <1>2, <2>2, ConsIs, BlockPiecesIs
    <2>4. d # << >> => l + (IF c = << >> THEN 0 ELSE 1) + x <= w
      BY <2>1, <2>2 DEF PiecesTold
    <2>5. d # << >> => l + 1 + y <= w
      BY <2>3, <2>4
    <2> QED
      BY <1>3, <2>1, <2>2, <2>5 DEF PiecesTold
  <1> QED
    BY <1>1, <1>2, <1>3, <1>4, <1>5, <1>6, <1>7, <1>8, Zenon DEF PackOK

\* A page that closes with what it has: before a block that goes on the next, or
\* at the end of the card.
LEMMA TurnKeeps ==
  ASSUME NEW d, NEW q, NEW c, NEW p, PackOK(d, q, c, p, "pack"), c # << >>,
         NEW s, s = "pack" \/ (s = "done" /\ q = << >>)
  PROVE  PackOK(d, q, << >>, Append(p, c), s)
  <1>1. /\ d \in Seq(DeckBlock) /\ q \in Seq(DeckBlock) /\ c \in Seq(DeckBlock)
        /\ p \in Seq(Seq(DeckBlock))
    BY DEF PackOK
  <1>2. PICK p2 \in Seq(Seq(DeckBlock)) : /\ p2 = Append(p, c) /\ p2 # << >> /\ Len(p2) = Len(p) + 1
                                          /\ \A n \in DOMAIN p2 : (n \in DOMAIN p /\ p2[n] = p[n]) \/ p2[n] = c
    <2>1. /\ Append(p, c) \in Seq(Seq(DeckBlock)) /\ Append(p, c) # << >> /\ Len(Append(p, c)) = Len(p) + 1
          /\ \A n \in DOMAIN Append(p, c) :
               (n \in DOMAIN p /\ Append(p, c)[n] = p[n]) \/ Append(p, c)[n] = c
      BY <1>1, AppendEach, Zenon
    <2> QED
      BY <2>1, Zenon
  <1>3. PICK e \in Seq(DeckBlock) : e = << >> /\ \A i \in DOMAIN e : FALSE
    <2>1. << >> \in Seq(DeckBlock) /\ DOMAIN << >> = {}
      OBVIOUS
    <2>2. \A i \in DOMAIN << >> : FALSE
      BY <2>1, Zenon
    <2> QED
      BY <2>1, <2>2, Zenon
  <1>4. Staged(d, q, e, p2, s)
    <2>1. d # << >>
      BY Zenon DEF PackOK, Staged
    <2>2. CASE s = "pack"
      BY <1>2, <2>1, <2>2 DEF Staged
    <2>3. CASE s = "done" /\ q = << >>
      BY <1>3, <2>3 DEF Staged
    <2> QED
      BY <2>2, <2>3
  <1>5. ShownOf(p2, e, q) = CardShown(d)
    BY <1>1, <1>2, <1>3, TurnShows, Zenon DEF PackOK
  <1>6. WholeBlocks(d, q, e, p2)
    <2>1. WholeBlocks(d, q, c, p)
      BY DEF PackOK
    <2> QED
      BY <1>2, <1>3, <2>1, Zenon DEF WholeBlocks
  <1>7. Room(e, p2, s)
    <2>1. Room(c, p, "pack")
      BY DEF PackOK
    <2>2. PageOK(c) /\ \A n \in DOMAIN p : PageOK(p[n])
      BY <2>1 DEF Room, PageOK
    <2>3. \A n \in DOMAIN p2 : PageOK(p2[n])
      BY <1>2, <2>2, Zenon
    <2> QED
      BY <1>3, <2>3, Zenon DEF Room
  <1>8. PiecesTold(d, q, e, p2)
    <2>1. PiecesTold(d, q, c, p)
      BY DEF PackOK
    <2>2. PICK l \in Nat, x \in Nat, w \in Nat : l = Len(p) /\ x = Pieces(q) /\ w = Pieces(d)
      BY <1>1, PiecesLaws, LenProperties
    <2>3. d # << >> => l + 1 + x <= w
      BY <2>1, <2>2 DEF PiecesTold
    <2>4. d # << >> => (l + 1) + 0 + x <= w
      BY <2>3
    <2>5. d # << >> => \A n \in DOMAIN p2 : p2[n] # << >>
      BY <1>2, <2>1, Zenon DEF PiecesTold
    <2>6. Len(p2) = l + 1
      BY <1>2, <2>2
    <2> QED
      BY <1>3, <2>2, <2>4, <2>5, <2>6 DEF PiecesTold
  <1> QED
    BY <1>1, <1>2, <1>3, <1>4, <1>5, <1>6, <1>7, <1>8, Zenon DEF PackOK

\* A page that closes with the head of a block: the head fits, the rest has fewer
\* pieces, and neither is empty.
LEMMA SplitKeeps ==
  ASSUME NEW d, NEW q, NEW c, NEW p, PackOK(d, q, c, p, "pack"), q # << >>, CanSplit(c, Head(q))
  PROVE  PackOK(d, RestQueue(Rest(c, Head(q)), Tail(q)), << >>, Append(p, Append(c, HeadOf(c, Head(q)))), "pack")
  <1>1. /\ d \in Seq(DeckBlock) /\ q \in Seq(DeckBlock) /\ c \in Seq(DeckBlock)
        /\ p \in Seq(Seq(DeckBlock))
    BY DEF PackOK
  <1>2. PICK b \in DeckBlock, t \in Seq(DeckBlock) : b = Head(q) /\ t = Tail(q)
    BY <1>1, ConsIs
  <1>3. b \in Seq(DeckKid)
    BY DEF DeckBlock
  <1>4. PICK m, k : /\ CutOK(b, m, k) /\ (m > 0 \/ k > 0)
                    /\ PageSizeWith(c, PrefixOf(b, m, k)) <= Limit
                    /\ HeadOf(c, b) = PrefixOf(b, m, k) /\ Rest(c, b) = RestAt(b, m, k)
    BY <1>1, <1>2, <1>3, CutIs
  <1>5. PICK h \in DeckBlock, r \in DeckBlock : h = PrefixOf(b, m, k) /\ r = RestAt(b, m, k)
    BY <1>3, <1>4, CutShowsAll DEF DeckBlock
  <1>6. BlockShown(b) = Join(BlockShown(h), BlockShown(r)) /\ h # << >> /\ KidsPieces(r) < KidsPieces(b)
    BY <1>3, <1>4, <1>5, CutShowsAll, CutTakesPiece
  <1>7. PICK g \in Seq(DeckBlock) : /\ g = Append(c, h) /\ g # << >>
                                    /\ \A i \in DOMAIN g : (i \in DOMAIN c /\ g[i] = c[i]) \/ g[i] = h
    <2>1. /\ Append(c, h) \in Seq(DeckBlock) /\ Append(c, h) # << >>
          /\ \A i \in DOMAIN Append(c, h) : (i \in DOMAIN c /\ Append(c, h)[i] = c[i]) \/ Append(c, h)[i] = h
      BY <1>1, AppendEach, Zenon
    <2> QED
      BY <2>1, Zenon
  <1>8. PICK p2 \in Seq(Seq(DeckBlock)) : /\ p2 = Append(p, g) /\ p2 # << >> /\ Len(p2) = Len(p) + 1
                                          /\ \A n \in DOMAIN p2 : (n \in DOMAIN p /\ p2[n] = p[n]) \/ p2[n] = g
    <2>1. /\ Append(p, g) \in Seq(Seq(DeckBlock)) /\ Append(p, g) # << >> /\ Len(Append(p, g)) = Len(p) + 1
          /\ \A n \in DOMAIN Append(p, g) :
               (n \in DOMAIN p /\ Append(p, g)[n] = p[n]) \/ Append(p, g)[n] = g
      BY <1>1, AppendEach, Zenon
    <2> QED
      BY <2>1, Zenon
  <1>9. PICK s \in Seq(DeckBlock) : s = RestQueue(r, t)
    BY RestQueueIs
  <1>10. PICK e \in Seq(DeckBlock) : e = << >> /\ \A i \in DOMAIN e : FALSE
    <2>1. << >> \in Seq(DeckBlock) /\ DOMAIN << >> = {}
      OBVIOUS
    <2>2. \A i \in DOMAIN << >> : FALSE
      BY <2>1, Zenon
    <2> QED
      BY <2>1, <2>2, Zenon
  <1>11. Staged(d, s, e, p2, "pack")
    <2>1. d # << >>
      BY Zenon DEF PackOK, Staged
    <2> QED
      BY <1>8, <2>1 DEF Staged
  <1>12. ShownOf(p2, e, s) = CardShown(d)
    <2>1. BlockShown(Head(q)) = Join(BlockShown(h), BlockShown(r))
      BY <1>2, <1>6, Zenon
    <2>2. ShownOf(Append(p, Append(c, h)), << >>, RestQueue(r, Tail(q))) = ShownOf(p, c, q)
      BY <1>1, <2>1, SplitShows
    <2> QED
      BY <1>2, <1>7, <1>8, <1>9, <1>10, <2>2, Zenon DEF PackOK
  <1>13. WholeBlocks(d, s, e, p2)
    <2>1. WholeBlocks(d, q, c, p)
      BY DEF PackOK
    <2>2. BlockOK(h, d) /\ (r # << >> => BlockOK(r, d))
      BY <1>6 DEF BlockOK
    <2>3. \A i \in DOMAIN t : BlockOK(t[i], d)
      BY <1>1, <1>2, <2>1, HeadTailEach, Zenon DEF WholeBlocks
    <2>4. \A i \in DOMAIN s : (r # << >> /\ s[i] = r) \/ \E j \in DOMAIN t : s[i] = t[j]
      BY <1>9, RestQueueIs, Zenon
    <2>5. \A i \in DOMAIN s : BlockOK(s[i], d)
      BY <2>2, <2>3, <2>4, Zenon
    <2>6. \A i \in DOMAIN g : BlockOK(g[i], d)
      BY <1>7, <2>1, <2>2, Zenon DEF WholeBlocks
    <2>7. \A n \in DOMAIN p2 : \A i \in DOMAIN p2[n] : BlockOK(p2[n][i], d)
      BY <1>8, <2>1, <2>6, Zenon DEF WholeBlocks
    <2> QED
      BY <1>10, <2>5, <2>7, Zenon DEF WholeBlocks
  <1>14. Room(e, p2, "pack")
    <2>1. Room(c, p, "pack")
      BY DEF PackOK
    <2>2. \A n \in DOMAIN p : PageOK(p[n])
      BY <2>1 DEF Room
    <2>3. PageOK(g)
      BY <1>4, <1>5, <1>7, Zenon DEF PageOK, PageSizeWith
    <2>4. \A n \in DOMAIN p2 : PageOK(p2[n])
      BY <1>8, <2>2, <2>3, Zenon
    <2> QED
      BY <1>10, <2>4, Zenon DEF Room
  <1>15. PiecesTold(d, s, e, p2)
    <2>1. PiecesTold(d, q, c, p)
      BY DEF PackOK
    <2>2. PICK l \in Nat, x \in Nat, y \in Nat, z \in Nat, w \in Nat, v \in Nat, u \in Nat :
            /\ l = Len(p) /\ x = Pieces(q) /\ y = Pieces(t) /\ z = KidsPieces(b) /\ w = Pieces(d)
            /\ v = KidsPieces(r) /\ u = Pieces(s)
      BY <1>1, PiecesLaws, BlockPiecesIs, LenProperties
    <2>3. x = (1 + z) + y
      BY <1>1, <1>2, <2>2, ConsIs, BlockPiecesIs
    <2>4. u <= (1 + v) + y
      BY <1>9, <2>2, RestQueueIs
    <2>5. d # << >> => l + (IF c = << >> THEN 0 ELSE 1) + x <= w
      BY <2>1, <2>2 DEF PiecesTold
    <2>6. v < z
      BY <1>6, <2>2
    <2>7. d # << >> => (l + 1) + 0 + u <= w
      BY <2>3, <2>4, <2>5, <2>6
    <2>8. d # << >> => \A n \in DOMAIN p2 : p2[n] # << >>
      BY <1>7, <1>8, <2>1, Zenon DEF PiecesTold
    <2>9. Len(p2) = l + 1
      BY <1>8, <2>2
    <2> QED
      BY <1>10, <2>2, <2>7, <2>8, <2>9 DEF PiecesTold
  <1>16. PackOK(d, s, e, p2, "pack")
    BY <1>1, <1>11, <1>12, <1>13, <1>14, <1>15, Zenon DEF PackOK
  <1> QED
    BY <1>2, <1>4, <1>5, <1>7, <1>8, <1>9, <1>10, <1>16, Zenon

\* A block that cannot be split, alone on its page.
LEMMA AloneKeeps ==
  ASSUME NEW d, NEW q, NEW p, PackOK(d, q, << >>, p, "pack"), q # << >>, ~CanSplit(<< >>, Head(q))
  PROVE  PackOK(d, Tail(q), << >>, Append(p, <<Head(q)>>), "pack")
  <1>1. /\ d \in Seq(DeckBlock) /\ q \in Seq(DeckBlock) /\ p \in Seq(Seq(DeckBlock))
    BY DEF PackOK
  <1>2. PICK b \in DeckBlock, t \in Seq(DeckBlock) : b = Head(q) /\ t = Tail(q)
    BY <1>1, ConsIs
  <1>3. PICK g \in Seq(DeckBlock) : g = <<b>> /\ Len(g) = 1 /\ g # << >> /\ g[1] = b
    BY SingleSeq
  <1>4. PICK p2 \in Seq(Seq(DeckBlock)) : /\ p2 = Append(p, g) /\ p2 # << >> /\ Len(p2) = Len(p) + 1
                                          /\ \A n \in DOMAIN p2 : (n \in DOMAIN p /\ p2[n] = p[n]) \/ p2[n] = g
    <2>1. /\ Append(p, g) \in Seq(Seq(DeckBlock)) /\ Append(p, g) # << >> /\ Len(Append(p, g)) = Len(p) + 1
          /\ \A n \in DOMAIN Append(p, g) :
               (n \in DOMAIN p /\ Append(p, g)[n] = p[n]) \/ Append(p, g)[n] = g
      BY <1>1, AppendEach, Zenon
    <2> QED
      BY <2>1, Zenon
  <1>5. PICK e \in Seq(DeckBlock) : e = << >> /\ \A i \in DOMAIN e : FALSE
    <2>1. << >> \in Seq(DeckBlock) /\ DOMAIN << >> = {}
      OBVIOUS
    <2>2. \A i \in DOMAIN << >> : FALSE
      BY <2>1, Zenon
    <2> QED
      BY <2>1, <2>2, Zenon
  <1>6. Staged(d, t, e, p2, "pack")
    <2>1. d # << >>
      BY Zenon DEF PackOK, Staged
    <2> QED
      BY <1>4, <2>1 DEF Staged
  <1>7. ShownOf(p2, e, t) = CardShown(d)
    <2>1. ShownOf(Append(p, <<Head(q)>>), << >>, Tail(q)) = ShownOf(p, << >>, q)
      BY <1>1, AloneShows
    <2> QED
      BY <1>2, <1>3, <1>4, <1>5, <2>1, Zenon DEF PackOK
  <1>8. WholeBlocks(d, t, e, p2)
    <2>1. WholeBlocks(d, q, << >>, p)
      BY DEF PackOK
    <2>2. BlockOK(b, d)
      BY <1>1, <1>2, <2>1, HeadTailEach, Zenon DEF WholeBlocks
    <2>3. \A i \in DOMAIN t : BlockOK(t[i], d)
      BY <1>1, <1>2, <2>1, HeadTailEach, Zenon DEF WholeBlocks
    <2>4. \A i \in DOMAIN g : i = 1
      BY <1>3
    <2>5. \A i \in DOMAIN g : BlockOK(g[i], d)
      BY <1>3, <2>2, <2>4, Zenon
    <2>6. \A n \in DOMAIN p2 : \A i \in DOMAIN p2[n] : BlockOK(p2[n][i], d)
      BY <1>4, <2>1, <2>5, Zenon DEF WholeBlocks
    <2> QED
      BY <1>5, <2>3, <2>6, Zenon DEF WholeBlocks
  <1>9. Room(e, p2, "pack")
    <2>1. Room(<< >>, p, "pack")
      BY DEF PackOK
    <2>2. \A n \in DOMAIN p : PageOK(p[n])
      BY <2>1 DEF Room
    <2>3. PageOK(g)
      BY <1>2, <1>3, Zenon DEF PageOK
    <2>4. \A n \in DOMAIN p2 : PageOK(p2[n])
      BY <1>4, <2>2, <2>3, Zenon
    <2> QED
      BY <1>5, <2>4, Zenon DEF Room
  <1>10. PiecesTold(d, t, e, p2)
    <2>1. PiecesTold(d, q, << >>, p)
      BY DEF PackOK
    <2>2. PICK l \in Nat, x \in Nat, y \in Nat, z \in Nat, w \in Nat :
            l = Len(p) /\ x = Pieces(q) /\ y = Pieces(t) /\ z = KidsPieces(b) /\ w = Pieces(d)
      BY <1>1, PiecesLaws, BlockPiecesIs, LenProperties
    <2>3. x = (1 + z) + y
      BY <1>1, <1>2, <2>2, ConsIs, BlockPiecesIs
    <2>4. d # << >> => l + 0 + x <= w
      BY <2>1, <2>2 DEF PiecesTold
    <2>5. d # << >> => (l + 1) + 0 + y <= w
      BY <2>3, <2>4
    <2>6. d # << >> => \A n \in DOMAIN p2 : p2[n] # << >>
      BY <1>3, <1>4, <2>1, Zenon DEF PiecesTold
    <2>7. Len(p2) = l + 1
      BY <1>4, <2>2
    <2> QED
      BY <1>5, <2>2, <2>5, <2>6, <2>7 DEF PiecesTold
  <1>11. PackOK(d, t, e, p2, "pack")
    BY <1>1, <1>6, <1>7, <1>8, <1>9, <1>10, Zenon DEF PackOK
  <1> QED
    BY <1>2, <1>3, <1>4, <1>5, <1>11, Zenon

\* At the end a page was done.
LEMMA DoneKeeps ==
  ASSUME NEW d, NEW p, PackOK(d, << >>, << >>, p, "pack")
  PROVE  p # << >> /\ PackOK(d, << >>, << >>, p, "done")
  <1>1. p # << >> /\ Staged(d, << >>, << >>, p, "done")
    BY DEF PackOK, Staged
  <1>2. Room(<< >>, p, "done")
    BY DEF PackOK, Room
  <1> QED
    BY <1>1, <1>2, Zenon DEF PackOK

\* The test for a card that fits whole: one that does not has blocks.
LEMMA WholeKeeps ==
  ASSUME NEW d, NEW q, NEW c, NEW p, PackOK(d, q, c, p, "fit")
  PROVE  /\ WholeSize(q) <= PageBytes => PackOK(d, << >>, c, <<q>>, "done")
         /\ ~(WholeSize(q) <= PageBytes) => PackOK(d, q, c, p, "pack")
  <1>1. d \in Seq(DeckBlock) /\ q = d /\ c = << >> /\ p = << >>
    BY DEF PackOK, Staged
  <1>2. PICK e \in Seq(DeckBlock) : e = << >> /\ \A i \in DOMAIN e : FALSE
    <2>1. << >> \in Seq(DeckBlock) /\ DOMAIN << >> = {}
      OBVIOUS
    <2>2. \A i \in DOMAIN << >> : FALSE
      BY <2>1, Zenon
    <2> QED
      BY <2>1, <2>2, Zenon
  <1>3. ASSUME WholeSize(q) <= PageBytes PROVE PackOK(d, << >>, c, <<q>>, "done")
    <2>1. PICK p2 \in Seq(Seq(DeckBlock)) : p2 = <<d>> /\ Len(p2) = 1 /\ p2[1] = d
      BY <1>1, SingleSeq
    <2>2. \A n \in DOMAIN p2 : n = 1
      BY <2>1
    <2>3. Staged(d, e, e, p2, "done")
      BY <1>2 DEF Staged
    <2>4. ShownOf(p2, e, e) = CardShown(d)
      BY <1>1, <1>2, <2>1, WholeShows, Zenon
    <2>5. WholeBlocks(d, e, e, p2)
      <3>1. \A i \in DOMAIN d : BlockOK(d[i], d)
        BY <1>1 DEF BlockOK, Range
      <3> QED
        BY <1>2, <2>1, <2>2, <3>1, Zenon DEF WholeBlocks
    <2>6. Room(e, p2, "done")
      BY <1>1, <1>2, <1>3, <2>1, Zenon DEF Room
    <2>7. PiecesTold(d, e, e, p2)
      <3>1. Pieces(e) = 0 /\ Pieces(d) \in Nat
        BY <1>1, <1>2, PiecesLaws
      <3>2. d # << >> => Pieces(d) >= 1
        <4>1. SUFFICES ASSUME d # << >> PROVE Pieces(d) >= 1
          OBVIOUS
        <4>2. PICK b \in DeckBlock, t \in Seq(DeckBlock) : b = Head(d) /\ t = Tail(d)
          BY <1>1, <4>1, ConsIs
        <4>3. PICK x \in Nat, y \in Nat : x = KidsPieces(b) /\ y = Pieces(t)
          BY BlockPiecesIs, PiecesLaws
        <4>4. Pieces(d) = (1 + x) + y
          BY <1>1, <4>1, <4>2, <4>3, ConsIs, BlockPiecesIs
        <4> QED
          BY <4>4
      <3>3. \A n \in DOMAIN p2 : p2[n] = d
        BY <2>1, <2>2, Zenon
      <3> QED
        BY <1>2, <2>1, <3>1, <3>2, <3>3 DEF PiecesTold
    <2>8. PackOK(d, e, e, p2, "done")
      BY <1>1, <2>3, <2>4, <2>5, <2>6, <2>7, Zenon DEF PackOK
    <2> QED
      BY <1>1, <1>2, <2>1, <2>8, Zenon
  <1>4. ASSUME ~(WholeSize(q) <= PageBytes) PROVE PackOK(d, q, c, p, "pack")
    <2>1. d # << >>
      <3>1. WholeSize(<< >>) = (CardCost + Filler) - NumberCost
        BY DEF WholeSize, CardSize
      <3>2. (CardCost + Filler) - NumberCost <= PageBytes
        BY DeckAssumption DEF Filler
      <3> QED
        BY <1>1, <1>4, <3>1, <3>2, Zenon
    <2>2. Staged(d, q, c, p, "pack")
      BY <1>1, <2>1 DEF Staged
    <2>3. Room(c, p, "pack")
      BY <1>1, <1>2, Zenon DEF Room
    <2> QED
      BY <2>2, <2>3, Zenon DEF PackOK
  <1> QED
    BY <1>3, <1>4

\* A card starts with all its blocks queued.
LEMMA PackStart ==
  ASSUME NEW d \in Seq(DeckBlock), NEW s, s = "fit" \/ (s = "read" /\ d = << >>)
  PROVE  PackOK(d, d, << >>, << >>, s)
  <1>1. PICK e \in Seq(DeckBlock) : e = << >> /\ \A i \in DOMAIN e : FALSE
    <2>1. << >> \in Seq(DeckBlock) /\ DOMAIN << >> = {}
      OBVIOUS
    <2>2. \A i \in DOMAIN << >> : FALSE
      BY <2>1, Zenon
    <2> QED
      BY <2>1, <2>2, Zenon
  <1>2. << >> \in Seq(Seq(DeckBlock))
    OBVIOUS
  <1>3. Staged(d, d, e, e, s)
    BY <1>1 DEF Staged
  <1>4. ShownOf(e, e, d) = CardShown(d)
    BY <1>1, WholeShows, Zenon
  <1>5. WholeBlocks(d, d, e, e)
    <2>1. \A i \in DOMAIN d : BlockOK(d[i], d)
      BY DEF BlockOK, Range
    <2> QED
      BY <1>1, <2>1, Zenon DEF WholeBlocks
  <1>6. Room(e, e, s)
    BY <1>1, Zenon DEF Room
  <1>7. PiecesTold(d, d, e, e)
    <2>1. Len(e) = 0 /\ Pieces(d) \in Nat
      BY <1>1, PiecesLaws
    <2>2. Len(e) + (IF e = << >> THEN 0 ELSE 1) + Pieces(d) <= Pieces(d)
      BY <1>1, <2>1
    <2> QED
      BY <1>1, <2>2, Zenon DEF PiecesTold
  <1> QED
    BY <1>1, <1>2, <1>3, <1>4, <1>5, <1>6, <1>7, Zenon DEF PackOK

LEMMA PackInit == DeckInit => PackInv
  <1>1. SUFFICES ASSUME DeckInit PROVE PackInv
    OBVIOUS
  <1>2. deck \in Seq(DeckBlock) /\ (phase = "fit" \/ (phase = "read" /\ deck = << >>))
    <2>1. << >> \in Seq(DeckBlock)
      OBVIOUS
    <2> QED
      BY <1>1, <2>1, DeckAssumption DEF DeckInit
  <1>3. queue = deck /\ cur = << >> /\ pages = << >>
    BY <1>1 DEF DeckInit
  <1>4. PackOK(deck, deck, << >>, << >>, phase)
    BY <1>2, PackStart
  <1> QED
    BY <1>3, <1>4, Zenon DEF PackInv

\* The steps, each from what it does to deck, queue, cur, pages and phase.
LEMMA FitsWholeKeeps == PackInv /\ FitsWhole => PackInv'
  <1>1. SUFFICES ASSUME PackInv, FitsWhole PROVE PackInv'
    OBVIOUS
  <1>2. PackOK(deck, queue, cur, pages, "fit") /\ deck' = deck /\ cur' = cur
    BY <1>1 DEF PackInv, FitsWhole
  <1>3. CASE WholeSize(queue) <= PageBytes
    <2>1. PackOK(deck, << >>, cur, <<queue>>, "done")
      BY <1>2, <1>3, WholeKeeps
    <2>2. pages' = <<queue>> /\ queue' = << >> /\ phase' = "done"
      BY <1>1, <1>3, Zenon DEF FitsWhole
    <2> QED
      BY <1>2, <2>1, <2>2, Zenon DEF PackInv
  <1>4. CASE ~(WholeSize(queue) <= PageBytes)
    <2>1. PackOK(deck, queue, cur, pages, "pack")
      BY <1>2, <1>4, WholeKeeps
    <2>2. pages' = pages /\ queue' = queue /\ phase' = "pack"
      BY <1>1, <1>4, Zenon DEF FitsWhole
    <2> QED
      BY <1>2, <2>1, <2>2, Zenon DEF PackInv
  <1> QED
    BY <1>3, <1>4

LEMMA PlaceWholeKeeps == PackInv /\ PlaceWhole => PackInv'
  <1>1. SUFFICES ASSUME PackInv, PlaceWhole PROVE PackInv'
    OBVIOUS
  <1>2. PackOK(deck, queue, cur, pages, "pack") /\ queue # << >> /\ PageSizeWith(cur, Head(queue)) <= Limit
    BY <1>1, Zenon DEF PackInv, PlaceWhole
  <1>3. PackOK(deck, Tail(queue), Append(cur, Head(queue)), pages, "pack")
    BY <1>2, PlaceKeeps
  <1>4. /\ deck' = deck /\ pages' = pages /\ phase' = "pack"
        /\ queue' = Tail(queue) /\ cur' = Append(cur, Head(queue))
    BY <1>1, Zenon DEF PlaceWhole
  <1> QED
    BY <1>3, <1>4, Zenon DEF PackInv

LEMMA ClosePageKeeps == PackInv /\ ClosePage => PackInv'
  <1>1. SUFFICES ASSUME PackInv, ClosePage PROVE PackInv'
    OBVIOUS
  <1>2. PackOK(deck, queue, cur, pages, "pack") /\ queue # << >>
    BY <1>1, Zenon DEF PackInv, ClosePage
  <1>3. deck' = deck /\ phase' = "pack" /\ cur' = << >>
    BY <1>1, Zenon DEF ClosePage
  <1>4. CASE CanSplit(cur, Head(queue)) /\ WorthIt(cur, Head(queue))
    <2>1. /\ pages' = Append(pages, Append(cur, HeadOf(cur, Head(queue))))
          /\ queue' = RestQueue(Rest(cur, Head(queue)), Tail(queue))
      BY <1>1, <1>4, Zenon DEF ClosePage, RestQueue
    <2>2. PackOK(deck, RestQueue(Rest(cur, Head(queue)), Tail(queue)), << >>,
                 Append(pages, Append(cur, HeadOf(cur, Head(queue)))), "pack")
      BY <1>2, <1>4, SplitKeeps
    <2> QED
      BY <1>3, <2>1, <2>2, Zenon DEF PackInv
  <1>5. CASE ~(CanSplit(cur, Head(queue)) /\ WorthIt(cur, Head(queue))) /\ cur = << >>
    <2>1. pages' = Append(pages, <<Head(queue)>>) /\ queue' = Tail(queue)
      BY <1>1, <1>5, Zenon DEF ClosePage
    <2>2. ~CanSplit(<< >>, Head(queue))
      BY <1>5, Zenon DEF WorthIt
    <2>3. PackOK(deck, queue, << >>, pages, "pack")
      BY <1>2, <1>5, Zenon
    <2>4. PackOK(deck, Tail(queue), << >>, Append(pages, <<Head(queue)>>), "pack")
      BY <1>2, <2>2, <2>3, AloneKeeps
    <2> QED
      BY <1>3, <2>1, <2>4, Zenon DEF PackInv
  <1>6. CASE ~(CanSplit(cur, Head(queue)) /\ WorthIt(cur, Head(queue))) /\ cur # << >>
    <2>1. pages' = Append(pages, cur) /\ queue' = queue
      BY <1>1, <1>6, Zenon DEF ClosePage
    <2>2. PackOK(deck, queue, << >>, Append(pages, cur), "pack")
      BY <1>2, <1>6, TurnKeeps
    <2> QED
      BY <1>3, <2>1, <2>2, Zenon DEF PackInv
  <1> QED
    BY <1>4, <1>5, <1>6

LEMMA LastPageKeeps == PackInv /\ LastPage => PackInv'
  <1>1. SUFFICES ASSUME PackInv, LastPage PROVE PackInv'
    OBVIOUS
  <1>2. PackOK(deck, queue, cur, pages, "pack") /\ queue = << >>
    BY <1>1, Zenon DEF PackInv, LastPage
  <1>3. deck' = deck /\ phase' = "done" /\ cur' = << >> /\ queue' = queue
    BY <1>1, Zenon DEF LastPage
  <1>4. CASE cur # << >>
    <2>1. pages' = Append(pages, cur)
      BY <1>1, <1>4, Zenon DEF LastPage
    <2>2. PackOK(deck, queue, << >>, Append(pages, cur), "done")
      BY <1>2, <1>4, TurnKeeps
    <2> QED
      BY <1>3, <2>1, <2>2, Zenon DEF PackInv
  <1>5. CASE cur = << >>
    <2>1. PackOK(deck, << >>, << >>, pages, "pack")
      BY <1>2, <1>5, Zenon
    <2>2. pages # << >> /\ PackOK(deck, << >>, << >>, pages, "done")
      BY <2>1, DoneKeeps
    <2>3. pages' = pages
      BY <1>1, <1>5, <2>2, Zenon DEF LastPage
    <2> QED
      BY <1>2, <1>3, <2>2, <2>3, Zenon DEF PackInv
  <1> QED
    BY <1>4, <1>5

\* What the packing's invariant says of the card shown.
LEMMA PackShows == PackInv => NothingLost /\ PagesFit /\ NoEmptyPage
  <1>1. SUFFICES ASSUME PackInv PROVE NothingLost /\ PagesFit /\ NoEmptyPage
    OBVIOUS
  <1>2. /\ deck \in Seq(DeckBlock) /\ queue \in Seq(DeckBlock) /\ pages \in Seq(Seq(DeckBlock))
        /\ ShownOf(pages, cur, queue) = CardShown(deck)
        /\ WholeBlocks(deck, queue, cur, pages) /\ Room(cur, pages, phase) /\ PiecesTold(deck, queue, cur, pages)
    BY <1>1, Zenon DEF PackInv, PackOK
  <1>3. NothingLost
    BY <1>2, Zenon DEF NothingLost, ShownOf
  <1>4. PagesFit
    <2>1. ASSUME NEW i \in DOMAIN pages
          PROVE  \/ CardSize(pages[i]) + NavCost <= PageBytes
                 \/ Len(pages) = 1 /\ WholeSize(pages[i]) <= PageBytes
                 \/ Len(pages[i]) = 1 /\ ~CanSplit(<< >>, pages[i][1])
                 \/ PageBytes <= NavCost + MinLimit /\ CardSize(pages[i]) <= MinLimit
      <3>1. CASE Len(pages) = 1 /\ WholeSize(pages[1]) <= PageBytes
        <4>1. i = 1
          BY <1>2, <3>1
        <4> QED
          BY <3>1, <4>1
      <3>2. CASE PageOK(pages[i])
        <4>1. CASE CardSize(pages[i]) <= Limit
          <5>1. PICK w \in Nat, n \in Nat, m \in Nat : w = PageBytes /\ n = NavCost /\ m = MinLimit
            BY LimitIs
          <5>2. PICK z \in Nat : z = CardSize(pages[i])
            <6>1. PICK g \in Seq(DeckBlock) : g = pages[i]
              BY <1>2
            <6>2. CASE g = << >>
              <7>1. CardSize(g) = CardCost + 3
                BY <6>2 DEF CardSize, Filler
              <7> QED
                BY <6>1, <7>1, LimitIs
            <6>3. CASE g # << >>
              <7>1. CardSize(g) = CardCost + BlocksSize(g)
                BY <6>3, CardSizeIs
              <7> QED
                BY <6>1, <7>1, LimitIs, BlocksSizeLaws
            <6> QED
              BY <6>2, <6>3
          <5>3. CASE w > n + m
            <6>1. Limit = w - n
              BY <5>1, <5>3 DEF Limit
            <6>2. z + n <= w
              BY <4>1, <5>2, <6>1
            <6> QED
              BY <5>1, <5>2, <6>2, Zenon
          <5>4. CASE ~(w > n + m)
            <6>1. Limit = m /\ w <= n + m
              BY <5>1, <5>4 DEF Limit
            <6> QED
              BY <4>1, <5>1, <6>1, Zenon
          <5> QED
            BY <5>3, <5>4
        <4>2. CASE Len(pages[i]) = 1 /\ ~CanSplit(<< >>, pages[i][1])
          BY <4>2
        <4> QED
          BY <3>2, <4>1, <4>2, Zenon DEF PageOK
      <3> QED
        BY <1>2, <3>1, <3>2, Zenon DEF Room
    <2> QED
      BY <2>1, Zenon DEF PagesFit
  <1>5. NoEmptyPage
    <2>1. SUFFICES ASSUME deck # << >>
                   PROVE  /\ \A i \in DOMAIN pages : pages[i] # << >> /\ << >> \notin Range(pages[i]) \ Range(deck)
                          /\ Len(pages) <= Pieces(deck)
      BY Zenon DEF NoEmptyPage
    <2>2. \A i \in DOMAIN pages : pages[i] # << >>
      BY <1>2, <2>1, Zenon DEF PiecesTold
    <2>3. \A i \in DOMAIN pages : << >> \notin Range(pages[i]) \ Range(deck)
      <3>1. \A i \in DOMAIN pages : \A j \in DOMAIN pages[i] : pages[i][j] # << >> \/ pages[i][j] \in Range(deck)
        BY <1>2, Zenon DEF WholeBlocks, BlockOK
      <3>2. \A s : Range(s) = {s[j] : j \in DOMAIN s}
        BY DEF Range
      <3>3. TAKE i \in DOMAIN pages
      <3>4. ASSUME << >> \in Range(pages[i]) PROVE << >> \in Range(deck)
        <4>1. PICK j \in DOMAIN pages[i] : << >> = pages[i][j]
          BY <3>2, <3>4
        <4> QED
          BY <3>1, <4>1, Zenon
      <3> QED
        BY <3>4
    <2>4. Len(pages) <= Pieces(deck)
      <3>1. PICK l \in Nat, x \in Nat, w \in Nat : l = Len(pages) /\ x = Pieces(queue) /\ w = Pieces(deck)
        BY <1>2, PiecesLaws, LenProperties
      <3>2. l + (IF cur = << >> THEN 0 ELSE 1) + x <= w
        BY <1>2, <2>1, <3>1 DEF PiecesTold
      <3>3. l <= w
        BY <3>2
      <3> QED
        BY <3>1, <3>3
    <2> QED
      BY <2>2, <2>3, <2>4
  <1> QED
    BY <1>3, <1>4, <1>5

\* Every text it holds has words.
LEMMA PackTypes ==
  ASSUME PackInv, Len(stack) <= MaxDepth
  PROVE  DeckTypeOK
  <1>1. /\ queue \in Seq(DeckBlock) /\ cur \in Seq(DeckBlock) /\ pages \in Seq(Seq(DeckBlock))
        /\ phase \in {"read", "fit", "pack", "done"}
    BY Zenon DEF PackInv, PackOK, Staged
  <1>2. \A X : \A s \in Seq(X) : \A x \in Range(s) : x \in X
    <2>1. TAKE X
    <2>2. TAKE s \in Seq(X)
    <2>3. TAKE x \in Range(s)
    <2>4. PICK j \in DOMAIN s : x = s[j]
      BY DEF Range
    <2> QED
      BY <2>4
  <1>3. ASSUME NEW b \in Range(queue) \cup Range(cur) \cup UNION {Range(p) : p \in Range(pages)}
        PROVE  b \in Seq(DeckKid)
    <2>1. CASE b \in Range(queue)
      BY <1>1, <1>2, <2>1, Zenon DEF DeckBlock
    <2>2. CASE b \in Range(cur)
      BY <1>1, <1>2, <2>2, Zenon DEF DeckBlock
    <2>3. CASE b \in UNION {Range(p) : p \in Range(pages)}
      <3>1. PICK p \in Range(pages) : b \in Range(p)
        BY <2>3, Zenon
      <3>2. p \in Seq(DeckBlock)
        BY <1>1, <1>2, Zenon
      <3> QED
        BY <1>2, <3>1, <3>2, Zenon DEF DeckBlock
    <2> QED
      BY <1>3, <2>1, <2>2, <2>3
  <1>4. ASSUME NEW b \in Range(queue) \cup Range(cur) \cup UNION {Range(p) : p \in Range(pages)},
               NEW k \in Range(b), k.kind = "text"
        PROVE  k.words # << >>
    <2>1. k \in DeckKid
      BY <1>2, <1>3, Zenon
    <2> QED
      BY <1>4, <2>1, KidIs, Zenon
  <1> QED
    BY <1>1, <1>4, Zenon DEF DeckTypeOK

-----------------------------------------------------------------------------
(* The invariant of the reader: of p tokens read of s, what is open on its   *)
(* stack st, from the outermost, and what is in its tree.                    *)

Opens(s, a, p) == {x \in a .. p : s[x].kind = "open"}
Closes(s, a, p) == {x \in a .. p : s[x].kind = "close"}
Balance(s, a, p) == Cardinality(Opens(s, a, p)) - Cardinality(Closes(s, a, p))

\* Around(i), NestsTo and ReadAsNested of a source s.
NotClosed(s, j, p) ==
    \A k \in j + 1 .. p : Cardinality(Closes(s, j + 1, k)) <= Cardinality(Opens(s, j + 1, k))

AroundIn(s, i) == {j \in 1 .. i - 1 : s[j].kind = "open" /\ NotClosed(s, j, i - 1)}

NestsTo(s, p) ==
    \A i \in 1 .. p :
        /\ s[i].kind = "open" => Cardinality(AroundIn(s, i)) < MaxDepth
        /\ s[i].kind = "close" =>
              AroundIn(s, i) # {} /\ s[Max(AroundIn(s, i))].name = s[i].name

InTree(s, p, tr) == \A i \in 1 .. p : s[i].kind # "close" => <<i, Max({0} \cup AroundIn(s, i))>> \in tr

HasOpen(s, p, st) ==
    /\ \A d \in DOMAIN st :
        /\ s[st[d]].kind = "open"
        /\ Balance(s, st[d] + 1, p) = Len(st) - d
        /\ \A k \in st[d] + 1 .. p : Balance(s, st[d] + 1, k) >= 0
    /\ \A d, e \in DOMAIN st : d < e => st[d] < st[e]
    /\ \A j \in 1 .. p : s[j].kind = "open" /\ (\A d \in DOMAIN st : st[d] # j)
                         => \E k \in j + 1 .. p : Balance(s, j + 1, k) < 0

ReadOK(s, p, st, tr) ==
    /\ s \in Seq(Token) /\ p \in 0 .. Len(s)
    /\ st \in Seq(1 .. p) /\ Len(st) <= MaxDepth
    /\ NestsTo(s, p) => HasOpen(s, p, st) /\ InTree(s, p, tr)

ReadInv == ReadOK(source, pos, stack, tree)

DeckIInv == PackInv /\ ReadInv

\* Opening tags less closing tags, from a to p.
LEMMA BalanceIs ==
  ASSUME NEW s, NEW a \in Nat, NEW p \in Nat
  PROVE  /\ IsFiniteSet(Opens(s, a, p)) /\ IsFiniteSet(Closes(s, a, p))
         /\ Cardinality(Opens(s, a, p)) \in Nat /\ Cardinality(Closes(s, a, p)) \in Nat
         /\ Balance(s, a, p) \in Int
         /\ Cardinality(Closes(s, a, p)) <= Cardinality(Opens(s, a, p)) <=> Balance(s, a, p) >= 0
         /\ a > p => Balance(s, a, p) = 0
  <1>1. IsFiniteSet(a .. p)
    BY FS_Interval
  <1>2. Opens(s, a, p) \in SUBSET (a .. p) /\ Closes(s, a, p) \in SUBSET (a .. p)
    BY DEF Opens, Closes
  <1>3. IsFiniteSet(Opens(s, a, p)) /\ IsFiniteSet(Closes(s, a, p))
    BY <1>1, <1>2, FS_Subset
  <1>4. PICK x \in Nat, y \in Nat : x = Cardinality(Opens(s, a, p)) /\ y = Cardinality(Closes(s, a, p))
    BY <1>3, FS_CardinalityType
  <1>5. Balance(s, a, p) = x - y
    BY <1>4 DEF Balance
  <1>6. a > p => Opens(s, a, p) = {} /\ Closes(s, a, p) = {}
    BY DEF Opens, Closes
  <1>7. a > p => x = 0 /\ y = 0
    BY <1>4, <1>6, FS_EmptySet, Zenon
  <1>8. (y <= x <=> x - y >= 0) /\ x - y \in Int
    OBVIOUS
  <1>9. a > p => x - y = 0
    BY <1>7
  <1> QED
    BY <1>3, <1>4, <1>5, <1>8, <1>9, Zenon

\* A token more.
LEMMA BalanceNext ==
  ASSUME NEW s, NEW a \in Nat, NEW p \in Nat, a <= p + 1
  PROVE  /\ s[p + 1].kind = "open" => Balance(s, a, p + 1) = Balance(s, a, p) + 1
         /\ s[p + 1].kind = "close" => Balance(s, a, p + 1) = Balance(s, a, p) - 1
         /\ s[p + 1].kind \notin {"open", "close"} => Balance(s, a, p + 1) = Balance(s, a, p)
  <1>1. PICK n \in Nat : n = p + 1 /\ n \notin a .. p /\ \A x : x \in a .. n <=> (x \in a .. p \/ x = n)
    <2>1. p + 1 \in Nat /\ p + 1 \notin a .. p /\ \A x : x \in a .. p + 1 <=> (x \in a .. p \/ x = p + 1)
      OBVIOUS
    <2> QED
      BY <2>1, Zenon
  <1>2. PICK x \in Nat, y \in Nat : x = Cardinality(Opens(s, a, p)) /\ y = Cardinality(Closes(s, a, p))
    BY BalanceIs
  <1>3. IsFiniteSet(Opens(s, a, p)) /\ IsFiniteSet(Closes(s, a, p))
    BY BalanceIs
  <1>4. n \notin Opens(s, a, p) /\ n \notin Closes(s, a, p)
    BY <1>1, Zenon DEF Opens, Closes
  <1>5. s[n].kind = "open" => Opens(s, a, n) = Opens(s, a, p) \cup {n} /\ Closes(s, a, n) = Closes(s, a, p)
    BY <1>1 DEF Opens, Closes
  <1>6. s[n].kind = "close" => Opens(s, a, n) = Opens(s, a, p) /\ Closes(s, a, n) = Closes(s, a, p) \cup {n}
    BY <1>1 DEF Opens, Closes
  <1>7. s[n].kind \notin {"open", "close"} => Opens(s, a, n) = Opens(s, a, p) /\ Closes(s, a, n) = Closes(s, a, p)
    BY <1>1 DEF Opens, Closes
  <1>8. Cardinality(Opens(s, a, p) \cup {n}) = x + 1 /\ Cardinality(Closes(s, a, p) \cup {n}) = y + 1
    BY <1>2, <1>3, <1>4, FS_AddElement
  <1>9. Balance(s, a, p) = x - y
    BY <1>2 DEF Balance
  <1>10. CASE s[n].kind = "open"
    <2>1. Balance(s, a, n) = (x + 1) - y
      BY <1>2, <1>5, <1>8, <1>10, Zenon DEF Balance
    <2>2. (x + 1) - y = (x - y) + 1
      OBVIOUS
    <2> QED
      BY <1>1, <1>9, <1>10, <2>1, <2>2
  <1>11. CASE s[n].kind = "close"
    <2>1. Balance(s, a, n) = x - (y + 1)
      BY <1>2, <1>6, <1>8, <1>11, Zenon DEF Balance
    <2>2. x - (y + 1) = (x - y) - 1
      OBVIOUS
    <2> QED
      BY <1>1, <1>9, <1>11, <2>1, <2>2
  <1>12. CASE s[n].kind \notin {"open", "close"}
    <2>1. Balance(s, a, n) = x - y
      BY <1>2, <1>7, <1>12, Zenon DEF Balance
    <2> QED
      BY <1>1, <1>9, <1>12, <2>1
  <1> QED
    BY <1>1, <1>10, <1>11, <1>12

\* The stack holds what is open around the next token.
LEMMA AroundIs ==
  ASSUME NEW s, NEW p \in Nat, NEW st \in Seq(1 .. p), HasOpen(s, p, st)
  PROVE  /\ AroundIn(s, p + 1) = {st[d] : d \in DOMAIN st}
         /\ IsFiniteSet(AroundIn(s, p + 1)) /\ Len(st) <= Cardinality(AroundIn(s, p + 1))
         /\ Cardinality(AroundIn(s, p + 1)) \in Nat
  <1>1. DOMAIN st = 1 .. Len(st) /\ Len(st) \in Nat /\ \A d \in DOMAIN st : st[d] \in 1 .. p
    OBVIOUS
  <1>2. \A j : j \in AroundIn(s, p + 1) <=> j \in 1 .. p /\ s[j].kind = "open" /\ NotClosed(s, j, p)
    <2>1. p + 1 - 1 = p
      OBVIOUS
    <2> QED
      BY <2>1 DEF AroundIn
  <1>3. ASSUME NEW d \in DOMAIN st
        PROVE  st[d] \in AroundIn(s, p + 1)
    <2>1. PICK j \in 1 .. p : j = st[d]
      BY <1>1
    <2>2. s[j].kind = "open" /\ \A k \in j + 1 .. p : Balance(s, j + 1, k) >= 0
      BY <2>1, Zenon DEF HasOpen
    <2>3. NotClosed(s, j, p)
      <3>1. SUFFICES \A k \in j + 1 .. p : Cardinality(Closes(s, j + 1, k)) <= Cardinality(Opens(s, j + 1, k))
        BY Zenon DEF NotClosed
      <3>3. TAKE k \in j + 1 .. p
      <3>2. j + 1 \in Nat /\ k \in Nat
        OBVIOUS
      <3> QED
        BY <2>2, <3>2, BalanceIs
    <2> QED
      BY <1>2, <2>1, <2>2, <2>3, Zenon
  <1>4. ASSUME NEW j \in AroundIn(s, p + 1)
        PROVE  \E d \in DOMAIN st : st[d] = j
    <2>1. /\ j \in 1 .. p /\ s[j].kind = "open"
          /\ \A k \in j + 1 .. p : Cardinality(Closes(s, j + 1, k)) <= Cardinality(Opens(s, j + 1, k))
      BY <1>2, Zenon DEF NotClosed
    <2>2. \A k \in j + 1 .. p : ~(Balance(s, j + 1, k) < 0)
      <3>1. TAKE k \in j + 1 .. p
      <3>2. j + 1 \in Nat /\ k \in Nat
        BY <2>1
      <3>3. Balance(s, j + 1, k) >= 0 /\ Balance(s, j + 1, k) \in Int
        BY <2>1, <3>2, BalanceIs
      <3> QED
        BY <3>3
    <2> QED
      BY <2>1, <2>2, Zenon DEF HasOpen
  <1>5. AroundIn(s, p + 1) = {st[d] : d \in DOMAIN st}
    BY <1>3, <1>4
  <1>6. AroundIn(s, p + 1) \in SUBSET (1 .. p)
    BY <1>1, <1>5
  <1>7. IsFiniteSet(AroundIn(s, p + 1))
    <2>1. IsFiniteSet(1 .. p)
      BY FS_Interval
    <2> QED
      BY <1>6, <2>1, FS_Subset
  <1>8. Len(st) <= Cardinality(AroundIn(s, p + 1))
    <2>1. PICK n \in Nat : n = Len(st)
      BY <1>1
    <2>2. st \in [1 .. n -> AroundIn(s, p + 1)]
      BY <1>1, <1>3, <2>1
    <2>3. \A d, e \in 1 .. n : st[d] = st[e] => d = e
      <3>1. TAKE d, e \in 1 .. n
      <3>2. st[d] \in 1 .. p /\ st[e] \in 1 .. p
        BY <1>1, <2>1
      <3>3. (d < e => st[d] < st[e]) /\ (e < d => st[e] < st[d])
        BY <1>1, <2>1, Zenon DEF HasOpen
      <3> QED
        BY <3>2, <3>3
    <2>4. st \in Injection(1 .. n, AroundIn(s, p + 1))
      BY <1>1, <2>1, <2>2, <2>3 DEF Injection, IsInjective
    <2>5. Cardinality(1 .. n) <= Cardinality(AroundIn(s, p + 1))
      BY <1>7, <2>4, FS_Injection
    <2>6. Cardinality(1 .. n) = n
      BY FS_Interval
    <2> QED
      BY <2>1, <2>5, <2>6
  <1> QED
    BY <1>5, <1>7, <1>8, FS_CardinalityType

\* The element on top of the stack is the innermost open one.
LEMMA TopIs ==
  ASSUME NEW s, NEW p \in Nat, NEW st \in Seq(1 .. p), HasOpen(s, p, st)
  PROVE  /\ st = << >> => AroundIn(s, p + 1) = {} /\ Max({0} \cup AroundIn(s, p + 1)) = 0
         /\ st # << >> => /\ Max(AroundIn(s, p + 1)) = st[Len(st)]
                          /\ Max({0} \cup AroundIn(s, p + 1)) = st[Len(st)]
  <1>1. PICK A \in SUBSET (1 .. p) : A = AroundIn(s, p + 1) /\ A = {st[d] : d \in DOMAIN st}
    <2>1. {st[d] : d \in DOMAIN st} \in SUBSET (1 .. p)
      OBVIOUS
    <2> QED
      BY <2>1, AroundIs
  <1>2. A \in SUBSET (0 .. p) /\ {0} \cup A \in SUBSET (0 .. p)
    OBVIOUS
  <1>3. CASE st = << >>
    <2>1. A = {}
      BY <1>1, <1>3
    <2>2. Max({0} \cup A) \in {0} \cup A
      <3>1. {0} \cup A # {}
        OBVIOUS
      <3> QED
        BY <1>2, <3>1, MaxIs
    <2> QED
      BY <1>1, <1>3, <2>1, <2>2
  <1>4. CASE st # << >>
    <2>1. PICK n \in Nat : n = Len(st) /\ n \in DOMAIN st /\ st[n] \in A
      <3>1. Len(st) \in Nat /\ Len(st) \in DOMAIN st
        BY <1>4, EmptySeq
      <3>2. st[Len(st)] \in A
        BY <1>1, <3>1
      <3> QED
        BY <3>1, <3>2
    <2>2. \A x \in A : x <= st[n]
      <3>1. TAKE x \in A
      <3>2. PICK d \in DOMAIN st : st[d] = x
        BY <1>1
      <3>3. d \in 1 .. n
        BY <2>1
      <3>4. d < n => st[d] < st[n]
        BY <2>1, Zenon DEF HasOpen
      <3>5. d = n \/ d < n
        BY <3>3
      <3>6. x \in 1 .. p /\ st[n] \in 1 .. p
        BY <2>1
      <3> QED
        BY <3>2, <3>4, <3>5, <3>6
    <2>3. ASSUME NEW B \in SUBSET (0 .. p), st[n] \in B, \A x \in B : x <= st[n]
          PROVE  Max(B) = st[n]
      <3>1. Max(B) \in B /\ Max(B) >= st[n]
        BY <2>3, MaxIs
      <3>2. Max(B) <= st[n] /\ Max(B) \in 0 .. p /\ st[n] \in 0 .. p
        BY <2>3, <3>1
      <3> QED
        BY <3>1, <3>2
    <2>4. Max(A) = st[n]
      BY <1>2, <2>1, <2>2, <2>3
    <2>5. Max({0} \cup A) = st[n]
      <3>1. \A x \in {0} \cup A : x <= st[n]
        <4>1. st[n] \in 1 .. p
          BY <2>1
        <4>2. 0 <= st[n]
          BY <4>1
        <4> QED
          BY <2>2, <4>2
      <3>2. st[n] \in {0} \cup A
        BY <2>1
      <3> QED
        BY <1>2, <2>3, <3>1, <3>2
    <2> QED
      BY <1>1, <1>4, <2>1, <2>4, <2>5
  <1> QED
    BY <1>3, <1>4

\* A token that neither opens nor closes.
LEMMA OpenAfterLeaf ==
  ASSUME NEW s, NEW p \in Nat, NEW st \in Seq(1 .. p), HasOpen(s, p, st),
         s[p + 1].kind \notin {"open", "close"}
  PROVE  HasOpen(s, p + 1, st)
  <1>0. PICK n \in Nat : n = p + 1 /\ n > p
    <2>1. p + 1 \in Nat /\ p + 1 > p
      OBVIOUS
    <2> QED
      BY <2>1
  <1>1. ASSUME NEW d \in DOMAIN st
        PROVE  /\ s[st[d]].kind = "open" /\ Balance(s, st[d] + 1, n) = Len(st) - d
               /\ \A k \in st[d] + 1 .. n : Balance(s, st[d] + 1, k) >= 0
    <2>1. PICK j \in 1 .. p : j = st[d]
      OBVIOUS
    <2>2. s[j].kind = "open" /\ Balance(s, j + 1, p) = Len(st) - d /\ \A k \in j + 1 .. p : Balance(s, j + 1, k) >= 0
      BY <2>1, Zenon DEF HasOpen
    <2>3. Balance(s, j + 1, n) = Balance(s, j + 1, p)
      <3>1. j + 1 \in Nat /\ j + 1 <= p + 1
        OBVIOUS
      <3> QED
        BY <1>0, <3>1, BalanceNext
    <2>4. \A k \in j + 1 .. n : Balance(s, j + 1, k) >= 0
      <3>1. TAKE k \in j + 1 .. n
      <3>2. k \in j + 1 .. p \/ k = n
        BY <1>0
      <3>3. d \in 1 .. Len(st) /\ Len(st) \in Nat
        OBVIOUS
      <3>4. Len(st) - d >= 0
        BY <3>3
      <3> QED
        BY <2>2, <2>3, <3>2, <3>4, Zenon
    <2> QED
      BY <2>1, <2>2, <2>3, <2>4, Zenon
  <1>2. ASSUME NEW j \in 1 .. n, s[j].kind = "open", \A d \in DOMAIN st : st[d] # j
        PROVE  \E k \in j + 1 .. n : Balance(s, j + 1, k) < 0
    <2>1. j # n
      BY <1>0, <1>2
    <2>2. j \in 1 .. p
      BY <1>0, <2>1
    <2>3. PICK k \in j + 1 .. p : Balance(s, j + 1, k) < 0
      BY <1>2, <2>2, Zenon DEF HasOpen
    <2>4. k \in j + 1 .. n
      BY <1>0, <2>2
    <2> QED
      BY <2>3, <2>4
  <1>3. \A d, e \in DOMAIN st : d < e => st[d] < st[e]
    BY Zenon DEF HasOpen
  <1>4. HasOpen(s, n, st)
    BY <1>1, <1>2, <1>3, Zenon DEF HasOpen
  <1> QED
    BY <1>0, <1>4, Zenon

\* An opening tag that goes on the stack.
LEMMA OpenAfterOpen ==
  ASSUME NEW s, NEW p \in Nat, NEW st \in Seq(1 .. p), HasOpen(s, p, st), s[p + 1].kind = "open"
  PROVE  HasOpen(s, p + 1, Append(st, p + 1))
  <1>0. PICK n \in Nat : n = p + 1 /\ n > p
    <2>1. p + 1 \in Nat /\ p + 1 > p
      OBVIOUS
    <2> QED
      BY <2>1
  <1>1. PICK l \in Nat : l = Len(st)
    OBVIOUS
  <1>2. PICK t \in Seq(1 .. n) : /\ t = Append(st, n) /\ Len(t) = l + 1 /\ t[l + 1] = n
                                 /\ \A d \in 1 .. l : t[d] = st[d] /\ st[d] \in 1 .. p
    <2>1. st \in Seq(1 .. n)
      <3>1. 1 .. p \subseteq 1 .. n
        BY <1>0
      <3> QED
        BY <3>1, SeqMonotonic
    <2>2. /\ Append(st, n) \in Seq(1 .. n) /\ Len(Append(st, n)) = l + 1 /\ Append(st, n)[l + 1] = n
          /\ \A d \in 1 .. l : Append(st, n)[d] = st[d]
      BY <1>0, <1>1, <2>1, AppendProperties
    <2>3. \A d \in 1 .. l : st[d] \in 1 .. p
      BY <1>1
    <2> QED
      BY <2>2, <2>3, Zenon
  <1>3. DOMAIN st = 1 .. l /\ DOMAIN t = 1 .. l + 1 /\ \A d \in 1 .. l + 1 : d \in 1 .. l \/ d = l + 1
    BY <1>1, <1>2
  <1>4. ASSUME NEW d \in DOMAIN t
        PROVE  /\ s[t[d]].kind = "open" /\ Balance(s, t[d] + 1, n) = Len(t) - d
               /\ \A k \in t[d] + 1 .. n : Balance(s, t[d] + 1, k) >= 0
    <2>1. CASE d \in 1 .. l
      <3>1. PICK j \in 1 .. p : j = st[d] /\ j = t[d]
        BY <1>2, <2>1
      <3>2. s[j].kind = "open" /\ Balance(s, j + 1, p) = l - d /\ \A k \in j + 1 .. p : Balance(s, j + 1, k) >= 0
        BY <1>1, <1>3, <2>1, <3>1, Zenon DEF HasOpen
      <3>3. Balance(s, j + 1, n) = Balance(s, j + 1, p) + 1
        <4>1. j + 1 \in Nat /\ j + 1 <= p + 1
          OBVIOUS
        <4> QED
          BY <1>0, <4>1, BalanceNext
      <3>4. Balance(s, j + 1, n) = (l + 1) - d /\ (l + 1) - d >= 0
        <4>1. (l - d) + 1 = (l + 1) - d /\ (l + 1) - d >= 0
          BY <2>1
        <4> QED
          BY <3>2, <3>3, <4>1
      <3>5. \A k \in j + 1 .. n : Balance(s, j + 1, k) >= 0
        <4>1. TAKE k \in j + 1 .. n
        <4>2. k \in j + 1 .. p \/ k = n
          BY <1>0
        <4> QED
          BY <3>2, <3>4, <4>2, Zenon
      <3> QED
        BY <1>2, <3>1, <3>2, <3>4, <3>5, Zenon
    <2>2. CASE d = l + 1
      <3>1. t[d] = n /\ s[n].kind = "open"
        BY <1>0, <1>2, <2>2
      <3>2. Balance(s, n + 1, n) = 0
        <4>1. n + 1 \in Nat /\ n + 1 > n
          OBVIOUS
        <4> QED
          BY <4>1, BalanceIs
      <3>3. Len(t) - d = 0
        BY <1>2, <2>2
      <3>4. \A k \in n + 1 .. n : FALSE
        OBVIOUS
      <3> QED
        BY <3>1, <3>2, <3>3, <3>4, Zenon
    <2> QED
      BY <1>3, <2>1, <2>2
  <1>5. ASSUME NEW d \in DOMAIN t, NEW e \in DOMAIN t, d < e
        PROVE  t[d] < t[e]
    <2>1. d \in 1 .. l
      BY <1>3, <1>5
    <2>2. CASE e \in 1 .. l
      <3>1. st[d] < st[e]
        BY <1>3, <1>5, <2>1, <2>2, Zenon DEF HasOpen
      <3> QED
        BY <1>2, <2>1, <2>2, <3>1
    <2>3. CASE e = l + 1
      BY <1>0, <1>2, <2>1, <2>3
    <2> QED
      BY <1>3, <2>2, <2>3
  <1>6. ASSUME NEW j \in 1 .. n, s[j].kind = "open", \A d \in DOMAIN t : t[d] # j
        PROVE  \E k \in j + 1 .. n : Balance(s, j + 1, k) < 0
    <2>1. j # n
      <3>1. l + 1 \in DOMAIN t
        BY <1>3
      <3> QED
        BY <1>2, <1>6, <3>1
    <2>2. j \in 1 .. p
      BY <1>0, <2>1
    <2>3. \A d \in DOMAIN st : st[d] # j
      BY <1>2, <1>3, <1>6
    <2>4. PICK k \in j + 1 .. p : Balance(s, j + 1, k) < 0
      BY <1>6, <2>2, <2>3, Zenon DEF HasOpen
    <2>5. k \in j + 1 .. n
      BY <1>0, <2>2
    <2> QED
      BY <2>4, <2>5
  <1>7. HasOpen(s, n, t)
    BY <1>4, <1>5, <1>6, Zenon DEF HasOpen
  <1> QED
    BY <1>0, <1>2, <1>7, Zenon

\* A closing tag that closes the element on top.
LEMMA OpenAfterClose ==
  ASSUME NEW s, NEW p \in Nat, NEW st \in Seq(1 .. p), HasOpen(s, p, st), st # << >>, s[p + 1].kind = "close"
  PROVE  HasOpen(s, p + 1, SubSeq(st, 1, Len(st) - 1))
  <1>0. PICK n \in Nat : n = p + 1 /\ n > p
    <2>1. p + 1 \in Nat /\ p + 1 > p
      OBVIOUS
    <2> QED
      BY <2>1
  <1>1. PICK l \in Nat : Len(st) = l + 1
    <2>1. Len(st) \in Nat \ {0}
      BY EmptySeq
    <2>2. Len(st) - 1 \in Nat /\ Len(st) = (Len(st) - 1) + 1
      BY <2>1
    <2> QED
      BY <2>2
  <1>2. PICK t \in Seq(1 .. p) : /\ t = SubSeq(st, 1, Len(st) - 1) /\ Len(t) = l
                                 /\ \A d \in 1 .. l : t[d] = st[d] /\ st[d] \in 1 .. p
    <2>1. Len(st) - 1 = l /\ l \in 0 .. Len(st)
      BY <1>1
    <2>2. SubSeq(st, 1, l) \in Seq(1 .. p) /\ Len(SubSeq(st, 1, l)) = l
      BY <2>1, SeqCut
    <2>3. \A d \in 1 .. l : SubSeq(st, 1, l)[d] = st[d] /\ st[d] \in 1 .. p
      BY <1>1, <2>1
    <2> QED
      BY <2>1, <2>2, <2>3, Zenon
  <1>3. /\ DOMAIN st = 1 .. l + 1 /\ DOMAIN t = 1 .. l /\ \A d \in 1 .. l + 1 : d \in 1 .. l \/ d = l + 1
        /\ \A d \in 1 .. l : d \in 1 .. l + 1
    BY <1>1, <1>2
  <1>4. ASSUME NEW d \in DOMAIN t
        PROVE  /\ s[t[d]].kind = "open" /\ Balance(s, t[d] + 1, n) = Len(t) - d
               /\ \A k \in t[d] + 1 .. n : Balance(s, t[d] + 1, k) >= 0
    <2>1. d \in 1 .. l /\ d \in DOMAIN st
      BY <1>3
    <2>2. PICK j \in 1 .. p : j = st[d] /\ j = t[d]
      BY <1>2, <2>1
    <2>3. s[j].kind = "open" /\ Balance(s, j + 1, p) = (l + 1) - d /\ \A k \in j + 1 .. p : Balance(s, j + 1, k) >= 0
      BY <1>1, <2>1, <2>2, Zenon DEF HasOpen
    <2>4. Balance(s, j + 1, n) = Balance(s, j + 1, p) - 1
      <3>1. j + 1 \in Nat /\ j + 1 <= p + 1
        OBVIOUS
      <3> QED
        BY <1>0, <3>1, BalanceNext
    <2>5. Balance(s, j + 1, n) = l - d /\ l - d >= 0
      <3>1. ((l + 1) - d) - 1 = l - d /\ l - d >= 0
        BY <2>1
      <3> QED
        BY <2>3, <2>4, <3>1
    <2>6. \A k \in j + 1 .. n : Balance(s, j + 1, k) >= 0
      <3>1. TAKE k \in j + 1 .. n
      <3>2. k \in j + 1 .. p \/ k = n
        BY <1>0
      <3> QED
        BY <2>3, <2>5, <3>2, Zenon
    <2> QED
      BY <1>2, <2>2, <2>3, <2>5, <2>6, Zenon
  <1>5. ASSUME NEW d \in DOMAIN t, NEW e \in DOMAIN t, d < e
        PROVE  t[d] < t[e]
    <2>1. d \in 1 .. l /\ e \in 1 .. l /\ d \in DOMAIN st /\ e \in DOMAIN st
      BY <1>3
    <2>2. st[d] < st[e]
      BY <1>5, <2>1, Zenon DEF HasOpen
    <2> QED
      BY <1>2, <2>1, <2>2
  <1>6. ASSUME NEW j \in 1 .. n, s[j].kind = "open", \A d \in DOMAIN t : t[d] # j
        PROVE  \E k \in j + 1 .. n : Balance(s, j + 1, k) < 0
    <2>1. j # n
      BY <1>0, <1>6
    <2>2. j \in 1 .. p /\ j + 1 \in Nat /\ j + 1 <= p + 1 /\ n \in j + 1 .. n
      BY <1>0, <2>1
    <2>3. CASE j = st[l + 1]
      <3>1. l + 1 \in DOMAIN st
        BY <1>3
      <3>2. Balance(s, j + 1, p) = (l + 1) - (l + 1)
        BY <1>1, <2>3, <3>1, Zenon DEF HasOpen
      <3>3. Balance(s, j + 1, n) = Balance(s, j + 1, p) - 1
        BY <1>0, <2>2, BalanceNext
      <3>4. Balance(s, j + 1, n) < 0
        BY <3>2, <3>3
      <3> QED
        BY <2>2, <3>4
    <2>4. CASE j # st[l + 1]
      <3>1. \A d \in DOMAIN st : st[d] # j
        BY <1>2, <1>3, <1>6, <2>4
      <3>2. PICK k \in j + 1 .. p : Balance(s, j + 1, k) < 0
        BY <1>6, <2>2, <3>1, Zenon DEF HasOpen
      <3>3. k \in j + 1 .. n
        BY <1>0, <2>2
      <3> QED
        BY <3>2, <3>3
    <2> QED
      BY <2>3, <2>4
  <1>7. HasOpen(s, n, t)
    BY <1>4, <1>5, <1>6, Zenon DEF HasOpen
  <1> QED
    BY <1>0, <1>2, <1>7, Zenon

\* Read, of any source.
TopOf(st) == IF st = << >> THEN 0 ELSE Last(st)

InnermostIn(s, st, name) == Max({0} \cup {d \in DOMAIN st : s[st[d]].name = name})

PoppedIn(s, st, name) ==
    IF InnermostIn(s, st, name) = 0 THEN st ELSE SubSeq(st, 1, InnermostIn(s, st, name) - 1)

\* The search finds the top of the stack when that is what the tag names.
LEMMA InnermostIs ==
  ASSUME NEW s, NEW X, NEW st \in Seq(X), NEW name
  PROVE  /\ InnermostIn(s, st, name) \in 0 .. Len(st)
         /\ st # << >> /\ s[st[Len(st)]].name = name => InnermostIn(s, st, name) = Len(st)
  <1> DEFINE S == {0} \cup {d \in DOMAIN st : s[st[d]].name = name}
  <1>1. PICK l \in Nat : l = Len(st) /\ DOMAIN st = 1 .. l
    OBVIOUS
  <1>2. S \in SUBSET (0 .. l) /\ S # {}
    BY <1>1
  <1>3. st # << >> /\ s[st[l]].name = name => l \in S
    <2>1. st # << >> => l \in DOMAIN st
      BY <1>1, EmptySeq
    <2> QED
      BY <2>1
  <1>4. InnermostIn(s, st, name) = Max(S)
    BY DEF InnermostIn
  <1> HIDE DEF S
  <1>5. PICK x \in 0 .. l : x = Max(S) /\ \A y \in S : x >= y
    <2>1. Max(S) \in S /\ \A y \in S : Max(S) >= y
      BY <1>2, MaxIs
    <2> QED
      BY <1>2, <2>1
  <1>6. l \in S => x = l
    BY <1>5
  <1> QED
    BY <1>1, <1>3, <1>4, <1>5, <1>6, Zenon

LEMMA PoppedIs ==
  ASSUME NEW s, NEW X, NEW st \in Seq(X), NEW name
  PROVE  PoppedIn(s, st, name) \in Seq(X) /\ Len(PoppedIn(s, st, name)) <= Len(st)
  <1>1. PICK l \in Nat : l = Len(st)
    OBVIOUS
  <1>2. PICK n \in 0 .. l : n = InnermostIn(s, st, name)
    BY <1>1, InnermostIs
  <1>3. CASE n = 0
    <2>1. PoppedIn(s, st, name) = st
      BY <1>2, <1>3, Zenon DEF PoppedIn
    <2> QED
      BY <1>1, <2>1
  <1>4. CASE n # 0
    <2>1. PICK m \in 0 .. l : m = n - 1
      <3>1. n - 1 \in 0 .. l
        BY <1>4
      <3> QED
        BY <3>1
    <2>2. PoppedIn(s, st, name) = SubSeq(st, 1, m)
      BY <1>2, <1>4, <2>1, Zenon DEF PoppedIn
    <2>3. SubSeq(st, 1, m) \in Seq(X) /\ Len(SubSeq(st, 1, m)) = m
      BY <1>1, SeqCut
    <2> QED
      BY <1>1, <2>2, <2>3
  <1> QED
    BY <1>3, <1>4

LEMMA StackWidens ==
  ASSUME NEW p \in Nat, NEW st \in Seq(1 .. p)
  PROVE  st \in Seq(1 .. p + 1)
  <1>1. 1 .. p \subseteq 1 .. p + 1
    OBVIOUS
  <1> QED
    BY <1>1, SeqMonotonic

\* A source that nests up to a token nests before it.
LEMMA NestedBefore ==
  ASSUME NEW s, NEW p \in Nat, NestsTo(s, p + 1)
  PROVE  /\ NestsTo(s, p)
         /\ s[p + 1].kind = "open" => Cardinality(AroundIn(s, p + 1)) < MaxDepth
         /\ s[p + 1].kind = "close" =>
              AroundIn(s, p + 1) # {} /\ s[Max(AroundIn(s, p + 1))].name = s[p + 1].name
  <1>1. p + 1 \in 1 .. p + 1 /\ \A i \in 1 .. p : i \in 1 .. p + 1
    OBVIOUS
  <1> QED
    BY <1>1, Zenon DEF NestsTo

\* A tag or leaf added under what is open.
LEMMA AddKeeps ==
  ASSUME NEW s, NEW p, NEW st, NEW tr, ReadOK(s, p, st, tr), p < Len(s), s[p + 1].kind # "close",
         NEW st2, st2 = IF s[p + 1].kind = "open" /\ Len(st) < MaxDepth THEN Append(st, p + 1) ELSE st
  PROVE  ReadOK(s, p + 1, st2, tr \cup {<<p + 1, TopOf(st)>>})
  <1>1. s \in Seq(Token) /\ p \in 0 .. Len(s) /\ st \in Seq(1 .. p) /\ Len(st) <= MaxDepth
    BY DEF ReadOK
  <1>2. Len(s) \in Nat /\ p \in Nat
    BY <1>1
  <1>3. p + 1 \in 0 .. Len(s)
    BY <1>2
  <1>4. st \in Seq(1 .. p + 1)
    BY <1>1, <1>2, StackWidens
  <1>5. PICK l \in Nat : l = Len(st)
    BY <1>1
  <1>6. st2 \in Seq(1 .. p + 1) /\ Len(st2) <= MaxDepth
    <2>1. CASE s[p + 1].kind = "open" /\ Len(st) < MaxDepth
      <3>1. p + 1 \in 1 .. p + 1
        BY <1>2
      <3>2. Append(st, p + 1) \in Seq(1 .. p + 1) /\ Len(Append(st, p + 1)) = l + 1
        BY <1>4, <1>5, <3>1, AppendProperties
      <3>3. st2 = Append(st, p + 1)
        BY <2>1
      <3>4. l + 1 <= MaxDepth
        BY <1>5, <2>1, LimitIs
      <3> QED
        BY <3>2, <3>3, <3>4
    <2>2. CASE ~(s[p + 1].kind = "open" /\ Len(st) < MaxDepth)
      BY <1>1, <1>4, <2>2
    <2> QED
      BY <2>1, <2>2
  <1>7. ASSUME NestsTo(s, p + 1)
        PROVE  HasOpen(s, p + 1, st2) /\ InTree(s, p + 1, tr \cup {<<p + 1, TopOf(st)>>})
    <2>1. HasOpen(s, p, st) /\ InTree(s, p, tr)
      BY <1>2, <1>7, NestedBefore, Zenon DEF ReadOK
    <2>2. TopOf(st) = Max({0} \cup AroundIn(s, p + 1))
      BY <1>1, <1>2, <2>1, TopIs DEF TopOf, Last
    <2>3. InTree(s, p + 1, tr \cup {<<p + 1, TopOf(st)>>})
      <3>1. ASSUME NEW i \in 1 .. p + 1, s[i].kind # "close"
            PROVE  <<i, Max({0} \cup AroundIn(s, i))>> \in tr \cup {<<p + 1, TopOf(st)>>}
        <4>1. CASE i = p + 1
          BY <2>2, <4>1, Zenon
        <4>2. CASE i # p + 1
          <5>1. i \in 1 .. p
            BY <1>2, <4>2
          <5> QED
            BY <2>1, <3>1, <5>1, Zenon DEF InTree
        <4> QED
          BY <4>1, <4>2
      <3> QED
        BY <3>1, Zenon DEF InTree
    <2>4. HasOpen(s, p + 1, st2)
      <3>1. CASE s[p + 1].kind = "open"
        <4>1. Cardinality(AroundIn(s, p + 1)) < MaxDepth
          BY <1>2, <1>7, <3>1, NestedBefore
        <4>2. l <= Cardinality(AroundIn(s, p + 1)) /\ Cardinality(AroundIn(s, p + 1)) \in Nat
          BY <1>1, <1>2, <1>5, <2>1, AroundIs
        <4>3. l < MaxDepth
          BY <4>1, <4>2, LimitIs
        <4>4. st2 = Append(st, p + 1)
          BY <1>5, <3>1, <4>3
        <4> QED
          BY <1>1, <1>2, <2>1, <3>1, <4>4, OpenAfterOpen
      <3>2. CASE s[p + 1].kind # "open"
        <4>1. st2 = st /\ s[p + 1].kind \notin {"open", "close"}
          BY <3>2
        <4> QED
          BY <1>1, <1>2, <2>1, <4>1, OpenAfterLeaf
      <3> QED
        BY <3>1, <3>2
    <2> QED
      BY <2>3, <2>4
  <1> QED
    BY <1>1, <1>3, <1>6, <1>7, Zenon DEF ReadOK

\* A closing tag: of a source that nests it closes the innermost element.
LEMMA CloseKeeps ==
  ASSUME NEW s, NEW p, NEW st, NEW tr, ReadOK(s, p, st, tr), p < Len(s), s[p + 1].kind = "close"
  PROVE  ReadOK(s, p + 1, PoppedIn(s, st, s[p + 1].name), tr)
  <1>1. s \in Seq(Token) /\ p \in 0 .. Len(s) /\ st \in Seq(1 .. p) /\ Len(st) <= MaxDepth
    BY DEF ReadOK
  <1>2. Len(s) \in Nat /\ p \in Nat
    BY <1>1
  <1>3. p + 1 \in 0 .. Len(s)
    BY <1>2
  <1>4. st \in Seq(1 .. p + 1)
    BY <1>1, <1>2, StackWidens
  <1>5. PICK st2 \in Seq(1 .. p + 1) : st2 = PoppedIn(s, st, s[p + 1].name) /\ Len(st2) <= Len(st)
    BY <1>4, PoppedIs
  <1>6. Len(st2) <= MaxDepth
    <2>1. PICK l \in Nat, k \in Nat : l = Len(st) /\ k = Len(st2)
      BY <1>1, <1>5, LenProperties
    <2>2. MaxDepth \in Nat
      BY LimitIs
    <2> QED
      BY <1>1, <1>5, <2>1, <2>2
  <1>7. ASSUME NestsTo(s, p + 1)
        PROVE  HasOpen(s, p + 1, st2) /\ InTree(s, p + 1, tr)
    <2>1. HasOpen(s, p, st) /\ InTree(s, p, tr)
      BY <1>2, <1>7, NestedBefore, Zenon DEF ReadOK
    <2>2. AroundIn(s, p + 1) # {} /\ s[Max(AroundIn(s, p + 1))].name = s[p + 1].name
      BY <1>2, <1>7, NestedBefore
    <2>3. st # << >> /\ Max(AroundIn(s, p + 1)) = st[Len(st)]
      BY <1>1, <1>2, <2>1, <2>2, TopIs
    <2>4. InnermostIn(s, st, s[p + 1].name) = Len(st)
      <3>1. s[st[Len(st)]].name = s[p + 1].name
        BY <2>2, <2>3, Zenon
      <3> QED
        BY <1>1, <2>3, <3>1, InnermostIs
    <2>5. st2 = SubSeq(st, 1, Len(st) - 1)
      <3>1. Len(st) # 0
        BY <1>1, <2>3, EmptySeq
      <3> QED
        BY <1>5, <2>4, <3>1, Zenon DEF PoppedIn
    <2>6. HasOpen(s, p + 1, st2)
      BY <1>1, <1>2, <2>1, <2>3, <2>5, OpenAfterClose
    <2>7. InTree(s, p + 1, tr)
      <3>1. \A i \in 1 .. p + 1 : i = p + 1 \/ i \in 1 .. p
        BY <1>2
      <3> QED
        BY <2>1, <3>1, Zenon DEF InTree
    <2> QED
      BY <2>6, <2>7
  <1> QED
    BY <1>1, <1>3, <1>5, <1>6, <1>7, Zenon DEF ReadOK

LEMMA ReadInit == DeckInit => ReadInv
  <1>1. SUFFICES ASSUME DeckInit PROVE ReadInv
    OBVIOUS
  <1>2. source \in Seq(Token) /\ pos = 0 /\ stack = << >>
    <2>1. << >> \in Seq(Token)
      OBVIOUS
    <2> QED
      BY <1>1, <2>1, DeckAssumption DEF DeckInit
  <1>3. pos \in 0 .. Len(source) /\ stack \in Seq(1 .. pos) /\ Len(stack) <= MaxDepth
    <2>1. Len(source) \in Nat
      BY <1>2
    <2>2. << >> \in Seq(1 .. pos) /\ Len(<< >>) = 0
      OBVIOUS
    <2> QED
      BY <1>2, <2>1, <2>2, LimitIs
  <1>4. HasOpen(source, pos, stack)
    <2>1. DOMAIN stack = {} /\ 1 .. pos = {}
      BY <1>2
    <2> QED
      BY <2>1 DEF HasOpen
  <1>5. InTree(source, pos, tree)
    <2>1. 1 .. pos = {}
      BY <1>2
    <2> QED
      BY <2>1 DEF InTree
  <1> QED
    BY <1>2, <1>3, <1>4, <1>5, Zenon DEF ReadInv, ReadOK

\* The step of the reader, from what it does to pos, stack and tree.
LEMMA ReadKeeps == ReadInv /\ Read => ReadInv'
  <1>1. SUFFICES ASSUME ReadInv, Read PROVE ReadInv'
    OBVIOUS
  <1>2. ReadOK(source, pos, stack, tree) /\ pos < Len(source)
    BY <1>1, Zenon DEF ReadInv, Read
  <1>3. source' = source /\ pos' = pos + 1
    BY <1>1, Zenon DEF Read
  <1>4. CASE /\ source[pos + 1].kind # "close"
             /\ tree' = tree \cup {<<pos + 1, Top>>}
             /\ stack' = IF source[pos + 1].kind = "open" /\ Len(stack) < MaxDepth
                         THEN Append(stack, pos + 1) ELSE stack
    <2>1. Top = TopOf(stack)
      BY DEF Top, TopOf
    <2>2. ReadOK(source, pos + 1, stack', tree \cup {<<pos + 1, TopOf(stack)>>})
      BY <1>2, <1>4, AddKeeps
    <2> QED
      BY <1>3, <1>4, <2>1, <2>2, Zenon DEF ReadInv
  <1>5. CASE /\ source[pos + 1].kind = "close" /\ tree' = tree
             /\ stack' = Popped(source[pos + 1].name)
    <2>1. Popped(source[pos + 1].name) = PoppedIn(source, stack, source[pos + 1].name)
      BY DEF Popped, PoppedIn, Innermost, InnermostIn
    <2>2. ReadOK(source, pos + 1, PoppedIn(source, stack, source[pos + 1].name), tree)
      BY <1>2, <1>5, CloseKeeps
    <2> QED
      BY <1>3, <1>5, <2>1, <2>2, Zenon DEF ReadInv
  <1> QED
    BY <1>1, <1>4, <1>5, Zenon DEF Read

LEMMA ReadShows == ReadInv => ReadAsNested /\ Len(stack) <= MaxDepth
  <1>1. SUFFICES ASSUME ReadInv PROVE ReadAsNested /\ Len(stack) <= MaxDepth
    OBVIOUS
  <1>2. \A i : Around(i) = AroundIn(source, i)
    BY DEF Around, AroundIn, NotClosed, Opens, Closes
  <1>3. Nests => NestsTo(source, pos)
    BY <1>2, Zenon DEF Nests, NestsTo
  <1>4. Nests => InTree(source, pos, tree)
    BY <1>1, <1>3, Zenon DEF ReadInv, ReadOK
  <1>5. ReadAsNested
    BY <1>2, <1>4, Zenon DEF ReadAsNested, InTree
  <1> QED
    BY <1>1, <1>5, Zenon DEF ReadInv, ReadOK

\* Each part of the invariant is kept by the steps that touch it.
LEMMA DeckStep == DeckIInv /\ [DeckNext]_deckVars => DeckIInv'
  <1>1. SUFFICES ASSUME DeckIInv, [DeckNext]_deckVars PROVE DeckIInv'
    OBVIOUS
  <1>2. PackInv /\ ReadInv
    BY <1>1, Zenon DEF DeckIInv
  <1>3. UNCHANGED <<deck, queue, cur, pages, phase>> => PackInv'
    BY <1>2, Zenon DEF PackInv
  <1>4. UNCHANGED <<source, pos, stack, tree>> => ReadInv'
    BY <1>2, Zenon DEF ReadInv
  <1>5. CASE FitsWhole
    <2>1. UNCHANGED <<source, pos, stack, tree>>
      BY <1>5, Zenon DEF FitsWhole
    <2> QED
      BY <1>2, <1>4, <1>5, <2>1, FitsWholeKeeps, Zenon DEF DeckIInv
  <1>6. CASE PlaceWhole
    <2>1. UNCHANGED <<source, pos, stack, tree>>
      BY <1>6, Zenon DEF PlaceWhole
    <2> QED
      BY <1>2, <1>4, <1>6, <2>1, PlaceWholeKeeps, Zenon DEF DeckIInv
  <1>7. CASE ClosePage
    <2>1. UNCHANGED <<source, pos, stack, tree>>
      BY <1>7, Zenon DEF ClosePage
    <2> QED
      BY <1>2, <1>4, <1>7, <2>1, ClosePageKeeps, Zenon DEF DeckIInv
  <1>8. CASE LastPage
    <2>1. UNCHANGED <<source, pos, stack, tree>>
      BY <1>8, Zenon DEF LastPage
    <2> QED
      BY <1>2, <1>4, <1>8, <2>1, LastPageKeeps, Zenon DEF DeckIInv
  <1>9. CASE Read
    <2>1. UNCHANGED <<deck, queue, cur, pages, phase>>
      BY <1>9, Zenon DEF Read
    <2> QED
      BY <1>2, <1>3, <1>9, <2>1, ReadKeeps, Zenon DEF DeckIInv
  <1>10. CASE UNCHANGED deckVars
    <2>1. UNCHANGED <<deck, queue, cur, pages, phase>> /\ UNCHANGED <<source, pos, stack, tree>>
      BY <1>10, Zenon DEF deckVars
    <2> QED
      BY <1>3, <1>4, <2>1, Zenon DEF DeckIInv
  <1> QED
    BY <1>1, <1>5, <1>6, <1>7, <1>8, <1>9, <1>10, Zenon DEF DeckNext

LEMMA DeckShows == DeckIInv => DecksInv
  <1>1. SUFFICES ASSUME DeckIInv PROVE DecksInv
    OBVIOUS
  <1>2. PackInv /\ ReadInv
    BY <1>1, Zenon DEF DeckIInv
  <1>3. NothingLost /\ PagesFit /\ NoEmptyPage
    BY <1>2, PackShows, Zenon
  <1>4. ReadAsNested /\ Len(stack) <= MaxDepth
    BY <1>2, ReadShows, Zenon
  <1>5. DeckTypeOK
    BY <1>2, <1>4, PackTypes, Zenon
  <1> QED
    BY <1>3, <1>4, <1>5, Zenon DEF DecksInv

\* Whatever card is paginated and however it has to be cut, its pages show its
\* words, brackets and elements once each and in order, fit their datagrams and
\* are never empty; whatever source is read, one that nests is read as it nests
\* (paged_build, split_to_fit, skip_leading_separators and parse_wml in
\* wap_gateway/wbxml.c).
THEOREM DecksInvThm == DeckSpec => []DecksInv
  <1>1. DeckInit => DeckIInv
    BY PackInit, ReadInit, Zenon DEF DeckIInv
  <1>2. DeckIInv /\ [DeckNext]_deckVars => DeckIInv'
    BY DeckStep
  <1>3. DeckIInv => DecksInv
    BY DeckShows
  <1> QED
    BY <1>1, <1>2, <1>3, PTL DEF DeckSpec
=============================================================================
