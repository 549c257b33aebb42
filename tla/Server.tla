------------------------------- MODULE Server -------------------------------
(***************************************************************************)
(* The threads of web_server/server_listener.c and connection_thread.c:    *)
(* the accept loop, one detached thread per connection, the cleanup thread *)
(* of the IP table, and main()'s server_stop() running against all of      *)
(* them.  The verdicts of the rate limiter (module IpTable) are chosen     *)
(* freely here; what matters is who reaches the table, and when.           *)
(*                                                                         *)
(* A step is a critical section, a system call or an access to a variable  *)
(* shared between threads.                                                 *)
(***************************************************************************)
EXTENDS Naturals, FiniteSets

CONSTANTS Conns,            \* the connections clients may open
          Kinds,            \* what they may be, a subset of Kind
          MaxConnections,   \* ddos_max_connections
          Tls,              \* g_ssl_enabled
          ProxyProtocol     \* proxy_protocol

(***************************************************************************)
(* A connection: its listener, whether its peer is in trusted_proxies and  *)
(* whether it is a loopback address, and what proxy_protocol_read() makes  *)
(* of its first bytes: "source", a header with the visitor's address;      *)
(* "local", one without (LOCAL, UNKNOWN); "none"; "invalid".               *)
(***************************************************************************)
Kind == [tls : BOOLEAN, trusted : BOOLEAN, loopback : BOOLEAN,
         header : {"source", "local", "none", "invalid"}]

ASSUME ServerAssumption ==
    /\ IsFiniteSet(Conns)
    /\ Kinds \subseteq Kind
    /\ Kinds # {}
    /\ MaxConnections \in Nat
    /\ Tls \in BOOLEAN
    /\ ProxyProtocol \in BOOLEAN
    /\ \A k \in Kinds : k.tls => Tls

Listeners == {"http"} \cup (IF Tls THEN {"https"} ELSE {})

VARIABLES
    running,    \* server_listener.c's own flag
    fd,         \* server_fd_http, server_fd_https: "open" or "none" (-1)
    acc,        \* the accept thread: where it is, what it polls, what is ready
    active,     \* active_connections
    kind,       \* what each connection is
    thread,     \* where each connection is
    sock,       \* its client_socket: "none", "open", or "closed" (-1)
    closes,     \* how often close() was called on it
    ssl,        \* its SSL object
    counted,    \* the addresses the rate limiter counted for it
    ctx,        \* ssl_ctx
    table,      \* ip_table
    stop,       \* where main() is in server_stop()
    drain,      \* the wait for connections: conn_cond signalled, timed out
    cleaner,    \* where the cleanup thread is
    cleanup_running,
    notified    \* cleanup_wait_cond was signalled while the thread waited

connVars == <<kind, thread, sock, closes, ssl, counted>>
mainVars == <<ctx, stop>>
cleanVars == <<cleaner, cleanup_running, notified>>
vars == <<running, fd, acc, active, connVars, table, mainVars, drain, cleanVars>>

\* An accepted connection the accept thread still has in its hands.
Held(c) == thread[c] \in {"check", "register", "spawn"}

\* A connection counted in active_connections.
InThread == {"start", "header", "limit", "handshake", "route", "cleanup", "unregister"}
Registered(c) == thread[c] \in {"spawn"} \cup InThread

Listener(c) == IF kind[c].tls THEN "https" ELSE "http"
Backlog(l)  == {c \in Conns : thread[c] = "backlog" /\ Listener(c) = l}

-----------------------------------------------------------------------------
\* A client connects; the kernel queues it while the listener is open.
Connect(c, k) ==
    /\ thread[c] = "away"
    /\ fd[IF k.tls THEN "https" ELSE "http"] = "open"
    /\ kind' = [kind EXCEPT ![c] = k]
    /\ thread' = [thread EXCEPT ![c] = "backlog"]
    /\ UNCHANGED <<running, fd, acc, active, sock, closes, ssl, counted, table,
                   mainVars, drain, cleanVars>>

-----------------------------------------------------------------------------
(* The accept thread: accept_loop_thread().                                *)

AcceptTest ==
    /\ acc.pc = "test"
    /\ acc' = [acc EXCEPT !.pc = IF running THEN "fdset" ELSE "done"]
    /\ UNCHANGED <<running, fd, active, connVars, table, mainVars, drain, cleanVars>>

\* server_stop() may have stored -1 meanwhile; FD_SET(-1) sets a bit that
\* select() does not look at.
AcceptFdSet ==
    /\ acc.pc = "fdset"
    /\ acc' = [acc EXCEPT !.pc = "select", !.polled = {l \in Listeners : fd[l] = "open"}]
    /\ UNCHANGED <<running, fd, active, connVars, table, mainVars, drain, cleanVars>>

\* select() returns what is ready, or nothing: its 1 s timeout, or an error.
AcceptSelect ==
    /\ acc.pc = "select"
    /\ \E r \in SUBSET {l \in acc.polled : fd[l] = "open" /\ Backlog(l) # {}} :
          acc' = [acc EXCEPT !.pc = "woken", !.ready = r]
    /\ UNCHANGED <<running, fd, active, connVars, table, mainVars, drain, cleanVars>>

AcceptWoken ==
    /\ acc.pc = "woken"
    /\ acc' = [acc EXCEPT !.pc = IF ~running THEN "done"
                                 ELSE IF acc.ready = {} THEN "test" ELSE "http"]
    /\ UNCHANGED <<running, fd, active, connVars, table, mainVars, drain, cleanVars>>

AcceptConn(c) ==
    /\ acc.pc = Listener(c)
    /\ acc.pc \in acc.ready
    /\ fd[acc.pc] = "open"
    /\ thread[c] = "backlog"
    /\ thread' = [thread EXCEPT ![c] = "check"]
    /\ sock' = [sock EXCEPT ![c] = "open"]
    /\ acc' = [acc EXCEPT !.ready = @ \ {acc.pc}]
    /\ UNCHANGED <<running, fd, active, kind, closes, ssl, counted, table,
                   mainVars, drain, cleanVars>>

\* On to the next listener: this one was not ready, accept() failed, or its
\* connection has been dealt with.
AcceptNext ==
    /\ acc.pc \in {"http", "https"}
    /\ \A c \in Conns : ~Held(c)
    /\ acc' = [acc EXCEPT !.pc = IF acc.pc = "http" /\ Tls THEN "https" ELSE "test"]
    /\ UNCHANGED <<running, fd, active, connVars, table, mainVars, drain, cleanVars>>

\* The socket is closed and the connection is gone: what every rejection does.
Reject(c) ==
    /\ thread' = [thread EXCEPT ![c] = "gone"]
    /\ sock' = [sock EXCEPT ![c] = "closed"]
    /\ closes' = [closes EXCEPT ![c] = @ + 1]

\* The front, whose address stands for every visitor, is not counted here.
RateLimitAfterHeader(c) == ProxyProtocol /\ kind[c].trusted

RateLimitedAtAccept(c) ==
    /\ thread[c] = "check"
    /\ counted' = [counted EXCEPT ![c] =
                     IF RateLimitAfterHeader(c) THEN @ ELSE @ \cup {"peer"}]
    /\ \/ /\ thread' = [thread EXCEPT ![c] = "register"]
          /\ UNCHANGED <<sock, closes>>
       \/ ~RateLimitAfterHeader(c) /\ Reject(c)
    /\ UNCHANGED <<running, fd, acc, active, kind, ssl, table, mainVars, drain, cleanVars>>

\* Mutant: the cap is tested with <= and admits one connection too many.
TryRegisterOneMore(c) ==
    /\ thread[c] = "register"
    /\ \/ /\ active <= MaxConnections
          /\ active' = active + 1
          /\ thread' = [thread EXCEPT ![c] = "spawn"]
          /\ UNCHANGED <<sock, closes>>
       \/ /\ active > MaxConnections
          /\ Reject(c)
          /\ UNCHANGED active
    /\ UNCHANGED <<running, fd, acc, kind, ssl, counted, table, mainVars, drain, cleanVars>>

TryRegisterConnection(c) ==
    /\ thread[c] = "register"
    /\ \/ /\ active < MaxConnections
          /\ active' = active + 1
          /\ thread' = [thread EXCEPT ![c] = "spawn"]
          /\ UNCHANGED <<sock, closes>>
       \/ /\ ~(active < MaxConnections)
          /\ Reject(c)
          /\ UNCHANGED active
    /\ UNCHANGED <<running, fd, acc, kind, ssl, counted, table, mainVars, drain, cleanVars>>

\* unregister_connection(): the last one wakes server_stop().
UnregisterConnection ==
    /\ active' = IF active > 0 THEN active - 1 ELSE active
    /\ drain' = [drain EXCEPT !.signalled =
                   @ \/ (active' = 0 /\ stop = "drain_wait")]

\* SSL_new() and spawn_thread(), which may run out of memory or threads.
SpawnThread(c) ==
    /\ thread[c] = "spawn"
    /\ \/ /\ thread' = [thread EXCEPT ![c] = "start"]
          /\ ssl' = [ssl EXCEPT ![c] = IF kind[c].tls THEN "live" ELSE "none"]
          /\ UNCHANGED <<sock, closes, active, drain>>
       \/ /\ Reject(c)
          /\ UnregisterConnection
          /\ UNCHANGED ssl
    /\ UNCHANGED <<running, fd, acc, kind, counted, table, mainVars, cleanVars>>

-----------------------------------------------------------------------------
(* A connection thread: connection_thread().                               *)

Goto(c, there) == thread' = [thread EXCEPT ![c] = there]

\* What comes once the PROXY header, if any, is dealt with.
AfterHeader(c) == IF kind[c].tls THEN "handshake" ELSE "route"

\* close() and SSL_free() of what the connection still holds.
CloseRest(c) ==
    /\ sock' = [sock EXCEPT ![c] = "closed"]
    /\ closes' = [closes EXCEPT ![c] = IF sock[c] = "open" THEN @ + 1 ELSE @]
    /\ ssl' = [ssl EXCEPT ![c] = IF @ = "live" THEN "freed" ELSE @]

Start(c) ==
    /\ thread[c] = "start"
    /\ \/ /\ Goto(c, IF ProxyProtocol THEN "header" ELSE AfterHeader(c))
          /\ UNCHANGED <<sock, closes, ssl>>
       \/ /\ Goto(c, "unregister")              \* malloc failed
          /\ CloseRest(c)
    /\ UNCHANGED <<running, fd, acc, active, kind, counted, table, mainVars, drain, cleanVars>>

\* Mutant: a header is believed whoever sent it.
HeaderFromAnyone(c) ==
    CASE kind[c].header = "source" -> "limit"
      [] kind[c].header = "local"  -> AfterHeader(c)
      [] kind[c].header = "none" /\ kind[c].loopback -> AfterHeader(c)
      [] OTHER -> "cleanup"

\* read_proxy_header(), and where the thread goes on.
HeaderVerdict(c) ==
    CASE kind[c].header = "source" /\ kind[c].trusted -> "limit"
      [] kind[c].header = "local"  /\ kind[c].trusted -> AfterHeader(c)
      [] kind[c].header = "none"   /\ kind[c].loopback -> AfterHeader(c)
      [] OTHER -> "cleanup"

ReadProxyHeader(c) ==
    /\ thread[c] = "header"
    /\ Goto(c, HeaderVerdict(c))
    /\ UNCHANGED <<running, fd, acc, active, kind, sock, closes, ssl, counted, table,
                   mainVars, drain, cleanVars>>

\* server_ip_rate_limited() on the visitor's address.
RateLimitedVisitor(c) ==
    /\ thread[c] = "limit"
    /\ counted' = [counted EXCEPT ![c] = @ \cup {"visitor"}]
    /\ Goto(c, "cleanup") \/ Goto(c, AfterHeader(c))
    /\ UNCHANGED <<running, fd, acc, active, kind, sock, closes, ssl, table,
                   mainVars, drain, cleanVars>>

Handshake(c) ==
    /\ thread[c] = "handshake"
    /\ Goto(c, "cleanup") \/ Goto(c, "route")
    /\ UNCHANGED <<running, fd, acc, active, kind, sock, closes, ssl, counted, table,
                   mainVars, drain, cleanVars>>

\* Mutant: connection_close() leaves client_socket as it was.
RouteKeepsFd(c) ==
    /\ thread[c] = "route"
    /\ Goto(c, "cleanup")
    /\ closes' = [closes EXCEPT ![c] = @ + 1]
    /\ UNCHANGED <<running, fd, acc, active, kind, sock, ssl, counted, table,
                   mainVars, drain, cleanVars>>

\* http_route() answers and ends with connection_close().
Route(c) ==
    /\ thread[c] = "route"
    /\ Goto(c, "cleanup")
    /\ CloseRest(c)
    /\ UNCHANGED <<running, fd, acc, active, kind, counted, table, mainVars, drain, cleanVars>>

Cleanup(c) ==
    /\ thread[c] = "cleanup"
    /\ Goto(c, "unregister")
    /\ CloseRest(c)
    /\ UNCHANGED <<running, fd, acc, active, kind, counted, table, mainVars, drain, cleanVars>>

Unregister(c) ==
    /\ thread[c] = "unregister"
    /\ Goto(c, "gone")
    /\ UnregisterConnection
    /\ UNCHANGED <<running, fd, acc, kind, sock, closes, ssl, counted, table,
                   mainVars, cleanVars>>

ConnThread(c) ==
    \/ Start(c) \/ ReadProxyHeader(c) \/ RateLimitedVisitor(c) \/ Handshake(c)
    \/ Route(c) \/ Cleanup(c) \/ Unregister(c)

AcceptThread ==
    \/ AcceptTest \/ AcceptFdSet \/ AcceptSelect \/ AcceptWoken \/ AcceptNext
    \/ \E c \in Conns : \/ AcceptConn(c) \/ RateLimitedAtAccept(c)
                        \/ TryRegisterConnection(c) \/ SpawnThread(c)

-----------------------------------------------------------------------------
(* The cleanup thread: ip_table_cleanup_thread().                          *)

CleanerGoto(there) ==
    /\ cleaner' = there
    /\ UNCHANGED <<running, fd, acc, active, connVars, table, mainVars, drain,
                   cleanup_running>>

CleanerTest ==
    /\ cleaner = "test"
    /\ CleanerGoto(IF cleanup_running THEN "to_wait" ELSE "done")
    /\ UNCHANGED notified

\* The mutex is taken and released into the wait: nothing is tested between.
CleanerWait ==
    /\ cleaner = "to_wait"
    /\ CleanerGoto("waiting")
    /\ notified' = FALSE

\* Mutant: a wait with no time limit.
CleanerWakeIfNotified ==
    /\ cleaner = "waiting"
    /\ notified
    /\ CleanerGoto("retest")
    /\ UNCHANGED notified

\* pthread_cond_timedwait() returns: signalled, or the interval is over.
CleanerWake ==
    /\ cleaner = "waiting"
    /\ CleanerGoto("retest")
    /\ UNCHANGED notified

CleanerRetest ==
    /\ cleaner = "retest"
    /\ CleanerGoto(IF cleanup_running THEN "sweep" ELSE "done")
    /\ UNCHANGED notified

CleanerSweep ==
    /\ cleaner = "sweep"
    /\ CleanerGoto("test")
    /\ UNCHANGED notified

CleanerThread ==
    CleanerTest \/ CleanerWait \/ CleanerWake \/ CleanerRetest \/ CleanerSweep

-----------------------------------------------------------------------------
(* server_stop(), called by main() after SIGTERM or SIGINT.                *)

StopGoto(here, there) == stop = here /\ stop' = there

StopRunning ==
    /\ StopGoto("serving", "close_http")
    /\ running' = FALSE
    /\ UNCHANGED <<fd, acc, active, connVars, ctx, table, drain, cleanVars>>

StopClose ==
    /\ \/ StopGoto("close_http", "close_https") /\ fd' = [fd EXCEPT !["http"] = "none"]
       \/ /\ StopGoto("close_https", "join_accept")
          /\ fd' = [l \in Listeners |-> IF l = "https" THEN "none" ELSE fd[l]]
    /\ UNCHANGED <<running, acc, active, connVars, ctx, table, drain, cleanVars>>

\* Mutant: the accept thread is not joined before ssl_ctx is given up.
StopNoJoin ==
    /\ StopGoto("join_accept", IF ctx = "live" THEN "drain" ELSE "end_cleanup")
    /\ UNCHANGED <<running, fd, acc, active, connVars, ctx, table, drain, cleanVars>>

StopJoinAccept ==
    /\ StopGoto("join_accept", IF ctx = "live" THEN "drain" ELSE "end_cleanup")
    /\ acc.pc = "done"
    /\ UNCHANGED <<running, fd, acc, active, connVars, ctx, table, drain, cleanVars>>

\* The loop over active_connections, conn_mutex held except while it waits.
StopDrain ==
    /\ StopGoto("drain", IF active > 0 THEN "drain_wait" ELSE "free_ctx")
    /\ drain' = [drain EXCEPT !.signalled = FALSE]
    /\ UNCHANGED <<running, fd, acc, active, connVars, ctx, table, cleanVars>>

StopDrainWake ==
    /\ StopGoto("drain_wait", "drain")
    /\ drain.signalled
    /\ UNCHANGED <<running, fd, acc, active, connVars, ctx, table, drain, cleanVars>>

StopDrainTimeout ==
    /\ StopGoto("drain_wait", "free_ctx")
    /\ drain' = [drain EXCEPT !.timedout = TRUE]
    /\ UNCHANGED <<running, fd, acc, active, connVars, ctx, table, cleanVars>>

StopFreeCtx ==
    /\ StopGoto("free_ctx", "end_cleanup")
    /\ ctx' = "freed"
    /\ UNCHANGED <<running, fd, acc, active, connVars, table, drain, cleanVars>>

StopCleanup ==
    /\ StopGoto("end_cleanup", "signal")
    /\ cleanup_running' = FALSE
    /\ UNCHANGED <<running, fd, acc, active, connVars, ctx, table, drain, cleaner, notified>>

StopSignal ==
    /\ StopGoto("signal", "join_cleanup")
    /\ notified' = (cleaner = "waiting")
    /\ UNCHANGED <<running, fd, acc, active, connVars, ctx, table, drain,
                   cleaner, cleanup_running>>

StopJoinCleanup ==
    /\ StopGoto("join_cleanup", "free_table")
    /\ cleaner = "done"
    /\ UNCHANGED <<running, fd, acc, active, connVars, ctx, table, drain, cleanVars>>

StopFreeTable ==
    /\ StopGoto("free_table", "stopped")
    /\ table' = "freed"
    /\ UNCHANGED <<running, fd, acc, active, connVars, ctx, drain, cleanVars>>

Stopping ==
    \/ StopClose \/ StopJoinAccept \/ StopDrain \/ StopDrainWake \/ StopDrainTimeout
    \/ StopFreeCtx \/ StopCleanup \/ StopSignal \/ StopJoinCleanup \/ StopFreeTable

-----------------------------------------------------------------------------
\* server_start() has returned 0.
Init ==
    /\ running = TRUE
    /\ fd = [l \in Listeners |-> "open"]
    /\ acc = [pc |-> "test", polled |-> {}, ready |-> {}]
    /\ active = 0
    /\ kind = [c \in Conns |-> CHOOSE k \in Kinds : TRUE]
    /\ thread = [c \in Conns |-> "away"]
    /\ sock = [c \in Conns |-> "none"]
    /\ closes = [c \in Conns |-> 0]
    /\ ssl = [c \in Conns |-> "none"]
    /\ counted = [c \in Conns |-> {}]
    /\ ctx = IF Tls THEN "live" ELSE "none"
    /\ table = "live"
    /\ stop = "serving"
    /\ drain = [signalled |-> FALSE, timedout |-> FALSE]
    /\ cleaner = "test"
    /\ cleanup_running = TRUE
    /\ notified = FALSE

Next ==
    \/ \E c \in Conns, k \in Kinds : Connect(c, k)
    \/ AcceptThread
    \/ \E c \in Conns : ConnThread(c)
    \/ CleanerThread
    \/ StopRunning
    \/ Stopping

Spec == Init /\ [][Next]_vars

(***************************************************************************)
(* Every thread goes on running.  A connection thread gets to its end: its *)
(* reads and writes time out (connection_io_timeout_secs) and the request  *)
(* it reads is bounded.  select() and both timed waits return.  No client  *)
(* has to connect and no signal has to arrive.                             *)
(***************************************************************************)
Fairness ==
    /\ WF_vars(AcceptThread)
    /\ WF_vars(CleanerThread)
    /\ WF_vars(Stopping)
    /\ \A c \in Conns : WF_vars(ConnThread(c))

FairSpec == Spec /\ Fairness

-----------------------------------------------------------------------------
AccPcs == {"test", "fdset", "select", "woken", "http", "https", "done"}
StopPcs == {"serving", "close_http", "close_https", "join_accept", "drain", "drain_wait",
            "free_ctx", "end_cleanup", "signal", "join_cleanup", "free_table", "stopped"}

TypeOK ==
    /\ running \in BOOLEAN
    /\ fd \in [Listeners -> {"open", "none"}]
    /\ acc \in [pc : AccPcs, polled : SUBSET Listeners, ready : SUBSET Listeners]
    /\ active \in Nat
    /\ kind \in [Conns -> Kind]
    /\ thread \in [Conns -> {"away", "backlog", "check", "register", "spawn", "gone"}
                            \cup InThread]
    /\ sock \in [Conns -> {"none", "open", "closed"}]
    /\ closes \in [Conns -> Nat]
    /\ ssl \in [Conns -> {"none", "live", "freed"}]
    /\ counted \in [Conns -> SUBSET {"peer", "visitor"}]
    /\ ctx \in {"none", "live", "freed"}
    /\ table \in {"live", "freed"}
    /\ stop \in StopPcs
    /\ drain \in [signalled : BOOLEAN, timedout : BOOLEAN]
    /\ cleaner \in {"test", "to_wait", "waiting", "retest", "sweep", "done"}
    /\ cleanup_running \in BOOLEAN
    /\ notified \in BOOLEAN

\* active_connections is exactly the number of connections that were let in
\* and have not left, on every path (a failed spawn, a refused header, a
\* failed handshake), and stays within the cap.
CounterExact ==
    /\ active = Cardinality({c \in Conns : Registered(c)})
    /\ active <= MaxConnections

\* Whatever path it took, a connection that is over had its socket closed
\* once (a second close() could hit a descriptor of another thread) and its
\* SSL object freed.
ClosedOnce ==
    \A c \in Conns : /\ closes[c] <= 1
                     /\ thread[c] = "gone" => closes[c] = 1 /\ ssl[c] # "live"

\* Why: at every point of its life, what a connection still holds.
SocketInv ==
    \A c \in Conns :
        /\ sock[c] \in {"none", "open"} => closes[c] = 0
        /\ sock[c] = "closed" => closes[c] = 1
        /\ thread[c] \in {"away", "backlog"} => sock[c] = "none"
        /\ Held(c) => sock[c] = "open"
        /\ thread[c] \in {"start", "header", "limit", "handshake", "route"} => sock[c] = "open"
        /\ thread[c] = "cleanup" => sock[c] # "none"
        /\ thread[c] \in {"unregister", "gone"} => sock[c] = "closed" /\ ssl[c] # "live"
        /\ thread[c] \in {"away", "backlog"} \/ Held(c) => ssl[c] = "none"

\* ssl_ctx is freed with no connection in flight, unless the 10 s ran out.
DrainedBeforeFree ==
    ctx = "freed" => drain.timedout \/ (active = 0 /\ \A c \in Conns : ssl[c] # "live")

\* A connection that is served was counted by the rate limiter once, against
\* its visitor's address: never against the front's, never twice.  Not at all
\* only when a trusted peer names no visitor.
CountedOnce ==
    \A c \in Conns : thread[c] \in {"handshake", "route"} =>
        counted[c] = IF ~ProxyProtocol \/ ~kind[c].trusted THEN {"peer"}
                     ELSE IF kind[c].header = "source" THEN {"visitor"} ELSE {}

\* No thread is about to use ip_table once server_stop() has freed it.
TableInUse ==
    \/ cleaner = "sweep"
    \/ \E c \in Conns : thread[c] \in {"check", "limit"}
TableSafe == table = "freed" => ~TableInUse

\* server_stop() returns.
StopTerminates == (stop # "serving") ~> (stop = "stopped")

\* Every connection let in leaves the count again, unless main() returns first.
ConnectionsEnd ==
    \A c \in Conns : Registered(c) ~> (thread[c] = "gone" \/ stop = "stopped")

\* Both: the shutdown gets through every wait it makes, and no path of a
\* connection keeps its slot for ever.
ServerLive == StopTerminates /\ ConnectionsEnd
=============================================================================
