------------------------------- MODULE IpTable -------------------------------
(***************************************************************************)
(* The per-IP rate limiter of web_server/server_listener.c: ip_table, the  *)
(* check too_many_connections() made by the accept thread and by every     *)
(* connection thread that read a PROXY header, and the sweep of            *)
(* ip_table_cleanup_thread().                                              *)
(*                                                                         *)
(* Both the check and the sweep read time(NULL) BEFORE they lock           *)
(* ip_table_mutex, so the reading may be old when the table is updated and *)
(* readings reach the table out of order.  A check is therefore two steps: *)
(* Enter reads the clock, TooManyConnections is the critical section.      *)
(***************************************************************************)
EXTENDS Integers

CONSTANTS Ips,         \* the 16-byte keys of the clients
          Callers,     \* the threads that may be inside the check at once
          MaxIps,      \* ddos_max_ips
          RateLimit,   \* ddos_rate_limit
          Window,      \* ddos_rate_window_secs
          StaleSecs,   \* ddos_ip_stale_secs
          MaxLag,      \* longest wait, in seconds, between reading the clock
                       \* and holding the mutex
          MaxTime      \* bound on the clock

(***************************************************************************)
(* StaleSecs >= Window + MaxLag: the sweep may only forget an address that *)
(* has been quiet for longer than the window (the shipped configuration    *)
(* has 300 s against a window of 5 s; the code does not compare the two).  *)
(***************************************************************************)
ASSUME IpTableAssumption ==
    /\ MaxIps \in Nat \ {0}
    /\ RateLimit \in Nat \ {0}
    /\ Window \in Nat \ {0}
    /\ MaxLag \in Nat
    /\ StaleSecs \in Nat
    /\ StaleSecs >= Window + MaxLag
    /\ MaxTime \in Nat

NoIp == "none"          \* the zeroed key of an empty slot
Never == -1             \* no such moment yet

ASSUME NoIpAssumption == NoIp \notin Ips

Slots == 1..MaxIps

EmptyEntry == [used |-> FALSE, ip |-> NoIp, last_conn |-> 0,
               last_rejected |-> 0, count |-> 0, blocked |-> FALSE]

\* ip_entry_t: a slot in use, or a zeroed one.
UsedEntry == [used : {TRUE}, ip : Ips, last_conn : Nat, last_rejected : Nat,
              count : Nat, blocked : BOOLEAN]
Entry == UsedEntry \cup {EmptyEntry}

FreshEntry(ip, now) == [EmptyEntry EXCEPT !.used = TRUE, !.ip = ip,
                                          !.last_conn = now, !.count = 1]

VARIABLES
    clock,   \* time(NULL)
    table,   \* ip_table
    calls,   \* what each thread is doing in too_many_connections()
    sweep,   \* the clock reading of a sweep waiting for the mutex, or Never
    hist     \* history of each address, kept by no code: see History

vars == <<clock, table, calls, sweep, hist>>

Idle == [pc |-> "idle"]
CallStates == [pc : {"idle", "admitted", "rejected"}]
              \cup [pc : {"locking"}, ip : Ips, now : Nat]

(***************************************************************************)
(* History of an address, independent of the table: `last' is the reading  *)
(* of its last counted connection, `streak' how many counted connections   *)
(* have followed one another at less than Window (it stops counting above  *)
(* RateLimit), `bannedAt' when it last exceeded the limit, and `forgot'    *)
(* whether its entry was evicted since, until a gap of Window starts the   *)
(* count anew with no ban running.                                         *)
(***************************************************************************)
History == [last : Nat \cup {Never}, streak : 0..(RateLimit + 1),
            bannedAt : Nat \cup {Never}, forgot : BOOLEAN]

Within(h, now) == h.last # Never /\ now - h.last < Window

NewStreak(h, now) ==
    IF Within(h, now)
    THEN IF h.streak > RateLimit THEN h.streak ELSE h.streak + 1
    ELSE 1

BanOver(h, now) == h.bannedAt = Never \/ now - h.bannedAt > Window * 2

\* The history once a connection read at `now' has been counted.
Counted(h, now) ==
    LET s == NewStreak(h, now)
    IN  [last     |-> now,
         streak   |-> s,
         bannedAt |-> IF s > RateLimit /\ ~h.forgot THEN now ELSE h.bannedAt,
         forgot   |-> h.forgot /\ (Within(h, now) \/ ~BanOver(h, clock))]

-----------------------------------------------------------------------------
Matches(i, ip) == table[i].used /\ table[i].ip = ip
Known(ip)      == \E i \in Slots : Matches(i, ip)

\* The slot at which a loop over ip_table stops, S the slots it looks for.
IsFirst(i, S) == i \in S /\ \A j \in S : i <= j

\* Mutant: the ban ends with the window, not after twice the window.
BanExpiredEarly(e, now) == now - e.last_rejected > Window

BanExpired(e, now) == now - e.last_rejected > Window * 2

Enter(c, ip) ==
    /\ calls[c].pc # "locking"
    /\ calls' = [calls EXCEPT ![c] = [pc |-> "locking", ip |-> ip, now |-> clock]]
    /\ UNCHANGED <<clock, table, sweep, hist>>

Answer(c, verdict) == calls' = [calls EXCEPT ![c] = [pc |-> verdict]]

\* A banned address, the ban not over: rejected, nothing recorded.
RejectBanned(c, i) ==
    /\ table[i].blocked
    /\ ~BanExpired(table[i], calls[c].now)
    /\ Answer(c, "rejected")
    /\ UNCHANGED <<table, hist>>

\* Mutant: the count is compared before it is incremented.
OverLimitLate(n) == n - 1 > RateLimit

OverLimit(n) == n > RateLimit

Lifted(e) == IF e.blocked THEN [e EXCEPT !.blocked = FALSE, !.count = 0] ELSE e

\* The entry once a connection read at `now' is counted: towards the limit,
\* or as the first after a gap of Window.
Bumped(e, now) ==
    LET n == e.count + 1
    IN  IF now - e.last_conn >= Window
        THEN [e EXCEPT !.count = 1, !.last_conn = now]
        ELSE IF ~OverLimit(n)
        THEN [e EXCEPT !.count = n, !.last_conn = now]
        ELSE [e EXCEPT !.count = n, !.last_conn = now,
                       !.blocked = TRUE, !.last_rejected = now]

\* A known address: an expired ban is lifted, then the connection counts.
CountKnown(c, i) ==
    LET now == calls[c].now
        e   == Bumped(Lifted(table[i]), now)
    IN  /\ table[i].blocked => BanExpired(table[i], now)
        /\ hist' = [hist EXCEPT ![calls[c].ip] = Counted(@, now)]
        /\ table' = [table EXCEPT ![i] = e]
        /\ Answer(c, IF e.blocked THEN "rejected" ELSE "admitted")

\* Mutant: the slot is filled without looking the address up.
InsertUnchecked(c, i) ==
    /\ IsFirst(i, {j \in Slots : ~table[j].used})
    /\ table' = [table EXCEPT ![i] = FreshEntry(calls[c].ip, calls[c].now)]
    /\ hist' = [hist EXCEPT ![calls[c].ip] = Counted(@, calls[c].now)]
    /\ Answer(c, "admitted")

\* A new address takes the first empty slot.
InsertNew(c, i) ==
    /\ ~Known(calls[c].ip)
    /\ IsFirst(i, {j \in Slots : ~table[j].used})
    /\ table' = [table EXCEPT ![i] = FreshEntry(calls[c].ip, calls[c].now)]
    /\ hist' = [hist EXCEPT ![calls[c].ip] = Counted(@, calls[c].now)]
    /\ Answer(c, "admitted")

\* A new address and no empty slot: the entry with the oldest last_conn goes,
\* banned or not.
Oldest(i) == \A j \in Slots : table[i].last_conn <= table[j].last_conn

EvictOldest(c, i) ==
    /\ ~Known(calls[c].ip)
    /\ \A j \in Slots : table[j].used
    /\ IsFirst(i, {j \in Slots : Oldest(j)})
    /\ table' = [table EXCEPT ![i] = FreshEntry(calls[c].ip, calls[c].now)]
    /\ hist' = [ip \in Ips |->
                  IF ip = calls[c].ip THEN Counted(hist[ip], calls[c].now)
                  ELSE IF ip = table[i].ip THEN [hist[ip] EXCEPT !.forgot = TRUE]
                  ELSE hist[ip]]
    /\ Answer(c, "admitted")

TooManyConnections(c) ==
    /\ calls[c].pc = "locking"
    /\ \E i \in Slots :
          \/ /\ IsFirst(i, {j \in Slots : Matches(j, calls[c].ip)})
             /\ RejectBanned(c, i) \/ CountKnown(c, i)
          \/ InsertNew(c, i)
          \/ EvictOldest(c, i)
    /\ UNCHANGED <<clock, sweep>>

-----------------------------------------------------------------------------
SweepEnter ==
    /\ sweep = Never
    /\ sweep' = clock
    /\ UNCHANGED <<clock, table, calls, hist>>

\* One pass of ip_table_cleanup_thread() over an entry.
Swept(e) ==
    LET banned == e.blocked /\ ~BanExpired(e, sweep)
    IN  IF ~e.used THEN e
        ELSE IF ~banned /\ sweep - e.last_conn > StaleSecs THEN EmptyEntry
        ELSE [e EXCEPT !.blocked = banned]

Sweep ==
    /\ sweep # Never
    /\ table' = [i \in Slots |-> Swept(table[i])]
    /\ sweep' = Never
    /\ UNCHANGED <<clock, calls, hist>>

\* A second passes; no thread waits longer than MaxLag for the mutex.
Tick ==
    /\ clock < MaxTime
    /\ \A c \in Callers : calls[c].pc = "locking" => clock + 1 - calls[c].now <= MaxLag
    /\ clock' = clock + 1
    /\ UNCHANGED <<table, calls, sweep, hist>>

-----------------------------------------------------------------------------
Init ==
    /\ clock = 0
    /\ table = [i \in Slots |-> EmptyEntry]
    /\ calls = [c \in Callers |-> Idle]
    /\ sweep = Never
    /\ hist = [ip \in Ips |-> [last |-> Never, streak |-> 0,
                               bannedAt |-> Never, forgot |-> FALSE]]

Next ==
    \/ \E c \in Callers, ip \in Ips : Enter(c, ip)
    \/ \E c \in Callers : TooManyConnections(c)
    \/ SweepEnter \/ Sweep
    \/ Tick

Spec == Init /\ [][Next]_vars

-----------------------------------------------------------------------------
TypeOK ==
    /\ clock \in Nat
    /\ table \in [Slots -> Entry]
    /\ calls \in [Callers -> CallStates]
    /\ sweep \in Nat \cup {Never}
    /\ hist \in [Ips -> History]

\* An address has one entry: the check looks for it, looks for a slot and
\* fills the slot under one hold of ip_table_mutex.
OneEntryPerIp ==
    \A i, j \in Slots :
        table[i].used /\ table[j].used /\ table[i].ip = table[j].ip => i = j

Admits(c) == calls[c].pc = "locking" /\ calls'[c].pc = "admitted"

\* "A blocked IP stays blocked for 2 x this window": whatever the order in
\* which threads and the sweep reach the table, no connection of a banned
\* address is admitted before the ban is over, unless its entry was evicted.
BanHolds ==
    [][\A c \in Callers :
          Admits(c) => LET h == hist[calls[c].ip] IN h.forgot \/ BanOver(h, clock)]_vars

\* Of the connections of one address less than Window apart, no more than
\* RateLimit are admitted, although the sweep frees entries meanwhile; again
\* unless the entry was evicted.
LimitHolds ==
    [][\A c \in Callers :
          Admits(c) => LET ip == calls[c].ip
                       IN  hist[ip].forgot \/ hist'[ip].streak <= RateLimit]_vars

-----------------------------------------------------------------------------
\* Why the two properties hold: what the table remembers of an address that
\* was not evicted.
Remembered(ip, e) ==
    /\ e.last_conn <= clock
    /\ e.count > RateLimit <=> hist[ip].streak > RateLimit
    /\ e.count <= RateLimit => e.count = hist[ip].streak
    /\ e.blocked => /\ hist[ip].bannedAt = e.last_rejected
                    /\ e.last_rejected = e.last_conn
    /\ ~e.blocked => BanOver(hist[ip], clock)

Forgettable(h) ==
    /\ h.last # Never => clock - h.last > Window + MaxLag
    /\ BanOver(h, clock)

TableInv ==
    \A ip \in Ips :
        /\ \A i \in Slots : Matches(i, ip) => hist[ip].last = table[i].last_conn
        /\ ~hist[ip].forgot =>
              /\ \A i \in Slots : Matches(i, ip) => Remembered(ip, table[i])
              /\ ~Known(ip) => Forgettable(hist[ip])

ClockInv ==
    /\ \A c \in Callers : calls[c].pc = "locking" =>
          calls[c].now <= clock /\ clock - calls[c].now <= MaxLag
    /\ sweep # Never => sweep <= clock

\* What relates the table, the callers' old clock readings and the history of
\* every address, at every step of the checks and the sweep; the inductive
\* invariant behind BanHolds and LimitHolds.
IInv == TypeOK /\ OneEntryPerIp /\ ClockInv /\ TableInv
=============================================================================
