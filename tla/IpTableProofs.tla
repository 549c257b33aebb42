---------------------------- MODULE IpTableProofs ----------------------------
(***************************************************************************)
(* For every number of addresses, threads and slots, and every limit,      *)
(* window and lag the assumptions of IpTable allow: the table never holds  *)
(* an address twice, a ban lasts twice the window and the limit holds, in  *)
(* the sense of BanHolds and LimitHolds.                                   *)
(***************************************************************************)
EXTENDS IpTable, TLAPS

\* The history stays well typed when a connection is counted.
LEMMA CountedType ==
    ASSUME NEW h \in History, NEW now \in Nat, clock \in Nat
    PROVE  Counted(h, now) \in History
  BY IpTableAssumption
     DEF History, Counted, NewStreak, Within, BanOver, Never

\* A connection that is counted leaves the address in slot i, used, with the
\* reading of the clock as its last connection.
LEMMA FreshEntryType ==
    ASSUME NEW ip \in Ips, NEW now \in Nat
    PROVE  /\ FreshEntry(ip, now) \in UsedEntry
           /\ FreshEntry(ip, now).used
           /\ FreshEntry(ip, now).ip = ip
           /\ FreshEntry(ip, now).last_conn = now
           /\ FreshEntry(ip, now).count = 1
           /\ ~FreshEntry(ip, now).blocked
  BY DEF FreshEntry, EmptyEntry, UsedEntry

\* A slot marked used holds an address; the others are zeroed.
LEMMA EntryCases ==
    ASSUME NEW e \in Entry
    PROVE  /\ e.used => e \in UsedEntry
           /\ ~e.used => e = EmptyEntry
  <1>1. EmptyEntry.used = FALSE
    BY DEF EmptyEntry
  <1>2. \A f \in UsedEntry : f.used = TRUE
    BY DEF UsedEntry
  <1>3. e \in UsedEntry \/ e = EmptyEntry
    BY DEF Entry
  <1> QED
    BY <1>1, <1>2, <1>3, Zenon

\* Lifting a ban resets the count and nothing else that the check reads.
LEMMA LiftedEntry ==
    ASSUME NEW e \in UsedEntry
    PROVE  /\ Lifted(e) \in UsedEntry
           /\ Lifted(e).blocked = FALSE
           /\ Lifted(e).ip = e.ip
           /\ Lifted(e).last_conn = e.last_conn
           /\ Lifted(e).count = IF e.blocked THEN 0 ELSE e.count
  <1>1. CASE e.blocked
    BY <1>1 DEF Lifted, UsedEntry
  <1>2. CASE ~e.blocked
    <2>1. e.blocked = FALSE
      BY <1>2 DEF UsedEntry
    <2> QED
      BY <1>2, <2>1 DEF Lifted
  <1> QED
    BY <1>1, <1>2

\* Counting a connection keeps the entry well typed.
LEMMA BumpedType ==
    ASSUME NEW e \in UsedEntry, NEW now \in Nat
    PROVE  Bumped(e, now) \in UsedEntry
  <1>1. ASSUME NEW n \in Nat
        PROVE  [e EXCEPT !.count = n, !.last_conn = now] \in UsedEntry
    BY DEF UsedEntry
  <1>2. ASSUME NEW n \in Nat
        PROVE  [e EXCEPT !.count = n, !.last_conn = now,
                         !.blocked = TRUE, !.last_rejected = now] \in UsedEntry
    BY DEF UsedEntry
  <1>3. e.count + 1 \in Nat
    BY DEF UsedEntry
  <1> QED
    BY <1>1, <1>2, <1>3 DEF Bumped

\* What counting a connection leaves in the entry.
LEMMA BumpedEntry ==
    ASSUME NEW e \in UsedEntry, e.blocked = FALSE, NEW now \in Nat
    PROVE  /\ Bumped(e, now) \in UsedEntry
           /\ Bumped(e, now).ip = e.ip
           /\ Bumped(e, now).last_conn = now
           /\ now - e.last_conn >= Window =>
                 /\ Bumped(e, now).count = 1
                 /\ Bumped(e, now).blocked = FALSE
           /\ now - e.last_conn < Window =>
                 /\ Bumped(e, now).count = e.count + 1
                 /\ e.count + 1 > RateLimit => Bumped(e, now).blocked = TRUE
                 /\ e.count + 1 <= RateLimit => Bumped(e, now).blocked = FALSE
           /\ Bumped(e, now).blocked => Bumped(e, now).last_rejected = now
  <1> USE IpTableAssumption
  <1>0. e.count \in Nat /\ e.last_conn \in Nat
    BY DEF UsedEntry
  <1> DEFINE f == Bumped(e, now)
  <1>1. CASE now - e.last_conn >= Window
    <2>1. f = [e EXCEPT !.count = 1, !.last_conn = now]
      BY <1>1 DEF Bumped
    <2>2. f \in UsedEntry
      BY BumpedType
    <2>3. f.ip = e.ip /\ f.last_conn = now /\ f.count = 1
      BY <2>1 DEF UsedEntry
    <2>4. f.blocked = FALSE
      BY <2>1 DEF UsedEntry
    <2>5. ~(now - e.last_conn < Window)
      BY <1>0, <1>1
    <2> QED
      BY <2>2, <2>3, <2>4, <2>5, Zenon
  <1>2. CASE now - e.last_conn < Window /\ e.count + 1 > RateLimit
    <2>1. ~(now - e.last_conn >= Window) /\ ~(e.count + 1 <= RateLimit)
      BY <1>0, <1>2
    <2>2. f = [e EXCEPT !.count = e.count + 1, !.last_conn = now,
                        !.blocked = TRUE, !.last_rejected = now]
      BY <1>2, <2>1 DEF Bumped, OverLimit
    <2>3. f \in UsedEntry
      BY BumpedType
    <2>4. /\ f.ip = e.ip /\ f.last_conn = now
          /\ f.count = e.count + 1 /\ f.last_rejected = now
      BY <2>2 DEF UsedEntry
    <2>5. f.blocked = TRUE
      BY <2>2 DEF UsedEntry
    <2> QED
      BY <2>1, <2>3, <2>4, <2>5, Zenon
  <1>3. CASE now - e.last_conn < Window /\ e.count + 1 <= RateLimit
    <2>1. ~(now - e.last_conn >= Window) /\ ~(e.count + 1 > RateLimit)
      BY <1>0, <1>3
    <2>2. f = [e EXCEPT !.count = e.count + 1, !.last_conn = now]
      BY <1>3, <2>1 DEF Bumped, OverLimit
    <2>3. f \in UsedEntry
      BY BumpedType
    <2>4. f.ip = e.ip /\ f.last_conn = now /\ f.count = e.count + 1
      BY <2>2 DEF UsedEntry
    <2>5. f.blocked = FALSE
      BY <2>2 DEF UsedEntry
    <2> QED
      BY <2>1, <2>3, <2>4, <2>5, Zenon
  <1>4. \/ now - e.last_conn >= Window
        \/ now - e.last_conn < Window /\ e.count + 1 > RateLimit
        \/ now - e.last_conn < Window /\ e.count + 1 <= RateLimit
    BY <1>0
  <1> QED
    BY <1>1, <1>2, <1>3, <1>4

\* A thread that waits for the mutex holds an address and a clock reading.
LEMMA CallType ==
    ASSUME TypeOK, NEW c \in Callers, calls[c].pc = "locking"
    PROVE  calls[c].ip \in Ips /\ calls[c].now \in Nat
  <1>1. calls[c] \in CallStates
    BY DEF TypeOK
  <1>2. calls[c] \in [pc : {"locking"}, ip : Ips, now : Nat]
    BY <1>1 DEF CallStates
  <1> QED
    BY <1>2

\* The state stays well typed in a critical section.
LEMMA CheckType ==
    ASSUME TypeOK, NEW c \in Callers, TooManyConnections(c)
    PROVE  TypeOK'
  <1>1. PICK i \in Slots :
            \/ Matches(i, calls[c].ip) /\ RejectBanned(c, i)
            \/ Matches(i, calls[c].ip) /\ CountKnown(c, i)
            \/ InsertNew(c, i)
            \/ EvictOldest(c, i)
    BY DEF TooManyConnections, IsFirst
  <1>2. /\ calls[c].ip \in Ips
        /\ calls[c].now \in Nat
        /\ table[i] \in Entry
    BY CallType DEF TypeOK, TooManyConnections
  <1>3. ASSUME NEW v \in {"admitted", "rejected"}, Answer(c, v)
        PROVE  calls' \in [Callers -> CallStates]
    BY <1>3 DEF TypeOK, CallStates, Answer
  <1>4. \A ip \in Ips : Counted(hist[ip], calls[c].now) \in History
    BY <1>2, CountedType DEF TypeOK
  <1>5. CASE RejectBanned(c, i)
    BY <1>5, <1>3 DEF RejectBanned, TypeOK, TooManyConnections
  <1>6. CASE Matches(i, calls[c].ip) /\ CountKnown(c, i)
    <2>1. hist' \in [Ips -> History]
      BY <1>6, <1>2, <1>4 DEF CountKnown, TypeOK
    <2>2. calls' \in [Callers -> CallStates]
      BY <1>6, <1>3 DEF CountKnown
    <2>3. table[i] \in UsedEntry
      BY <1>6, <1>2, EntryCases DEF Matches
    <2>4. table' \in [Slots -> Entry]
      BY <1>6, <1>2, <2>3, LiftedEntry, BumpedEntry DEF CountKnown, TypeOK, Entry
    <2> QED
      BY <2>1, <2>2, <2>4 DEF TypeOK, TooManyConnections
  <1>7. CASE InsertNew(c, i)
    BY <1>7, <1>2, <1>3, <1>4, FreshEntryType
       DEF InsertNew, TypeOK, Entry, TooManyConnections
  <1>8. CASE EvictOldest(c, i)
    <2>1. hist' \in [Ips -> History]
      <3>1. \A ip \in Ips : [hist[ip] EXCEPT !.forgot = TRUE] \in History
        BY DEF TypeOK, History
      <3> QED
        BY <1>8, <3>1, <1>4 DEF EvictOldest, TypeOK
    <2> QED
      BY <2>1, <1>8, <1>2, <1>3, FreshEntryType
         DEF EvictOldest, TypeOK, Entry, TooManyConnections
  <1> QED
    BY <1>1, <1>5, <1>6, <1>7, <1>8

\* Every step keeps the state well typed.
LEMMA NextType == TypeOK /\ [Next]_vars => TypeOK'
  <1> SUFFICES ASSUME TypeOK, [Next]_vars PROVE TypeOK'
    OBVIOUS
  <1>1. ASSUME NEW c \in Callers, NEW ip \in Ips, Enter(c, ip) PROVE TypeOK'
    BY <1>1 DEF Enter, TypeOK, CallStates
  <1>2. ASSUME NEW c \in Callers, TooManyConnections(c) PROVE TypeOK'
    BY <1>2, CheckType
  <1>3. CASE SweepEnter
    BY <1>3 DEF SweepEnter, TypeOK
  <1>4. CASE Sweep
    <2>1. ASSUME NEW e \in Entry PROVE Swept(e) \in Entry
      <3>1. CASE e \in UsedEntry
        BY <3>1 DEF Swept, UsedEntry, Entry
      <3>2. CASE e = EmptyEntry
        BY <3>2 DEF Swept, EmptyEntry, Entry
      <3> QED
        BY <2>1, <3>1, <3>2 DEF Entry
    <2> QED
      BY <1>4, <2>1 DEF Sweep, TypeOK
  <1>5. CASE Tick
    BY <1>5 DEF Tick, TypeOK
  <1>6. CASE UNCHANGED vars
    BY <1>6 DEF vars, TypeOK
  <1> QED
    BY <1>1, <1>2, <1>3, <1>4, <1>5, <1>6 DEF Next

\* The initial state is well typed.
LEMMA InitType == ASSUME Init PROVE TypeOK
  <1>1. table \in [Slots -> Entry]
    BY DEF Init, Entry
  <1>2. hist \in [Ips -> History]
    BY IpTableAssumption DEF Init, History
  <1>3. calls \in [Callers -> CallStates]
    BY DEF Init, Idle, CallStates
  <1> QED
    BY <1>1, <1>2, <1>3 DEF Init, TypeOK

\* The type invariant holds in every reachable state.
THEOREM TypeCorrect == Spec => []TypeOK
  <1>1. Init => TypeOK
    BY InitType
  <1> QED
    BY <1>1, NextType, PTL DEF Spec

-----------------------------------------------------------------------------
\* A check either changes nothing (a banned address), or leaves its address in
\* exactly one slot, which held that address, was empty, or loses its entry.
Recorded(c, i, e) ==
    /\ e \in UsedEntry
    /\ e.ip = calls[c].ip
    /\ e.last_conn = calls[c].now
    /\ table' = [table EXCEPT ![i] = e]
    /\ \A j \in Slots : Matches(j, calls[c].ip) => j = i
    /\ hist'[calls[c].ip] = Counted(hist[calls[c].ip], calls[c].now)
    /\ \A ip \in Ips \ {calls[c].ip} :
          /\ hist'[ip].last = hist[ip].last
          /\ \/ hist'[ip] = hist[ip] /\ ~Matches(i, ip)
             \/ hist'[ip].forgot

\* A known address is recorded in its slot.
LEMMA RecordedKnown ==
    ASSUME TypeOK, OneEntryPerIp, NEW c \in Callers, calls[c].pc = "locking",
           NEW i \in Slots, Matches(i, calls[c].ip), CountKnown(c, i)
    PROVE  LET e == Bumped(Lifted(table[i]), calls[c].now)
           IN  e \in UsedEntry /\ Recorded(c, i, e)
  <1>0. calls[c].ip \in Ips /\ calls[c].now \in Nat
    BY CallType
  <1> DEFINE e == Bumped(Lifted(table[i]), calls[c].now)
  <1>1. table[i] \in UsedEntry /\ table[i].ip = calls[c].ip
    BY EntryCases DEF Matches, TypeOK
  <1>2. /\ Lifted(table[i]) \in UsedEntry
        /\ Lifted(table[i]).blocked = FALSE
        /\ Lifted(table[i]).ip = calls[c].ip
    BY <1>1, LiftedEntry, Zenon
  <1>3. e \in UsedEntry /\ e.ip = calls[c].ip /\ e.last_conn = calls[c].now
    BY <1>2, <1>0, BumpedEntry, Zenon
  <1>4. \A j \in Slots : Matches(j, calls[c].ip) => j = i
    BY DEF OneEntryPerIp, Matches
  <1>5. /\ table' = [table EXCEPT ![i] = e]
        /\ hist' = [hist EXCEPT ![calls[c].ip] = Counted(@, calls[c].now)]
    BY DEF CountKnown
  <1>6. \A ip \in Ips \ {calls[c].ip} : hist'[ip] = hist[ip] /\ ~Matches(i, ip)
    BY <1>1, <1>5 DEF TypeOK, Matches
  <1> QED
    BY <1>3, <1>4, <1>5, <1>6, <1>0 DEF Recorded, TypeOK

\* A new address is recorded in an empty slot or in that of another address,
\* which is then forgotten.
LEMMA RecordedFresh ==
    ASSUME TypeOK, NEW c \in Callers, calls[c].pc = "locking",
           NEW i \in Slots, InsertNew(c, i) \/ EvictOldest(c, i)
    PROVE  LET e == FreshEntry(calls[c].ip, calls[c].now)
           IN  e \in UsedEntry /\ Recorded(c, i, e)
  <1>0. calls[c].ip \in Ips /\ calls[c].now \in Nat
    BY CallType
  <1> DEFINE e == FreshEntry(calls[c].ip, calls[c].now)
  <1>1. e \in UsedEntry /\ e.ip = calls[c].ip /\ e.last_conn = calls[c].now
    BY <1>0, FreshEntryType
  <1>2. CASE InsertNew(c, i)
    <2>1. /\ table' = [table EXCEPT ![i] = e]
          /\ hist' = [hist EXCEPT ![calls[c].ip] = Counted(@, calls[c].now)]
          /\ ~Known(calls[c].ip)
          /\ ~table[i].used
      BY <1>2 DEF InsertNew, IsFirst
    <2> QED
      BY <1>1, <2>1, <1>0 DEF Recorded, Known, Matches, TypeOK
  <1>3. CASE EvictOldest(c, i)
    <2>1. table' = [table EXCEPT ![i] = e] /\ ~Known(calls[c].ip)
      BY <1>3 DEF EvictOldest
    <2>2. hist'[calls[c].ip] = Counted(hist[calls[c].ip], calls[c].now)
      BY <1>3, <1>0 DEF EvictOldest
    <2>3. ASSUME NEW ip \in Ips \ {calls[c].ip}
          PROVE  /\ hist'[ip].last = hist[ip].last
                 /\ (hist'[ip] = hist[ip] /\ ~Matches(i, ip)) \/ hist'[ip].forgot
      <3>1. CASE ip = table[i].ip
        <4>1. hist'[ip] = [hist[ip] EXCEPT !.forgot = TRUE]
          BY <1>3, <3>1 DEF EvictOldest
        <4> QED
          BY <4>1 DEF TypeOK, History
      <3>2. CASE ip # table[i].ip
        BY <1>3, <3>2 DEF EvictOldest, Matches
      <3> QED
        BY <3>1, <3>2
    <2> QED
      BY <1>1, <2>1, <2>2, <2>3 DEF Recorded, Known
  <1> QED
    BY <1>2, <1>3

\* A check changes nothing or records its address.
LEMMA CheckEffect ==
    ASSUME TypeOK, OneEntryPerIp, NEW c \in Callers, TooManyConnections(c)
    PROVE  \/ UNCHANGED <<table, hist>>
           \/ \E i \in Slots, e \in UsedEntry : Recorded(c, i, e)
  <1>1. PICK i \in Slots :
            \/ Matches(i, calls[c].ip) /\ RejectBanned(c, i)
            \/ Matches(i, calls[c].ip) /\ CountKnown(c, i)
            \/ InsertNew(c, i)
            \/ EvictOldest(c, i)
    BY DEF TooManyConnections, IsFirst
  <1>2. CASE RejectBanned(c, i)
    BY <1>2 DEF RejectBanned
  <1> QED
    BY <1>1, <1>2, RecordedKnown, RecordedFresh DEF TooManyConnections

\* No step puts an address into a second slot.
LEMMA NextOneEntry == TypeOK /\ OneEntryPerIp /\ [Next]_vars => OneEntryPerIp'
  <1> SUFFICES ASSUME TypeOK, OneEntryPerIp, [Next]_vars PROVE OneEntryPerIp'
    OBVIOUS
  <1>1. CASE UNCHANGED table
    BY <1>1 DEF OneEntryPerIp
  <1>2. ASSUME NEW c \in Callers, TooManyConnections(c) PROVE OneEntryPerIp'
    <2>1. CASE \E i \in Slots, e \in UsedEntry : Recorded(c, i, e)
      <3>1. PICK i \in Slots, e \in UsedEntry : Recorded(c, i, e)
        BY <2>1
      <3>2. \A j \in Slots \ {i} : table'[j] = table[j] /\ ~Matches(j, calls[c].ip)
        BY <3>1 DEF Recorded, TypeOK
      <3>3. table'[i] = e /\ e.ip = calls[c].ip
        BY <3>1 DEF Recorded, TypeOK
      <3> QED
        BY <3>2, <3>3 DEF OneEntryPerIp, Matches
    <2> QED
      BY <1>1, <1>2, <2>1, CheckEffect
  <1>3. CASE Sweep
    <2>1. \A i \in Slots : table'[i].used => table[i].used /\ table'[i].ip = table[i].ip
      <3> SUFFICES ASSUME NEW i \in Slots, Swept(table[i]).used
                   PROVE  table[i].used /\ Swept(table[i]).ip = table[i].ip
        BY <1>3 DEF Sweep
      <3>1. EmptyEntry.used = FALSE
        BY DEF EmptyEntry
      <3>2. CASE table[i].used
        <4>1. table[i] \in UsedEntry
          BY <3>2, EntryCases DEF TypeOK
        <4> QED
          BY <3>1, <3>2, <4>1 DEF Swept, UsedEntry
      <3>3. CASE ~table[i].used
        BY <3>3 DEF Swept
      <3> QED
        BY <3>2, <3>3
    <2> QED
      BY <2>1 DEF OneEntryPerIp
  <1> QED
    BY <1>1, <1>2, <1>3 DEF Next, Enter, SweepEnter, Tick, vars

\* Every address has at most one entry (too_many_connections() holds
\* ip_table_mutex from the lookup to the insertion).
THEOREM OneEntryHolds == Spec => []OneEntryPerIp
  <1>1. Init => OneEntryPerIp
    <2>1. EmptyEntry.used = FALSE
      BY DEF EmptyEntry
    <2> QED
      BY <2>1 DEF Init, OneEntryPerIp
  <1> QED
    BY <1>1, NextOneEntry, TypeCorrect, PTL DEF Spec

-----------------------------------------------------------------------------
\* Clock readings are never ahead of the clock, nor more than MaxLag behind.
LEMMA NextClock == TypeOK /\ ClockInv /\ [Next]_vars => ClockInv'
  <1> SUFFICES ASSUME TypeOK, ClockInv, [Next]_vars PROVE ClockInv'
    OBVIOUS
  <1> USE IpTableAssumption
  <1>1. ASSUME NEW c \in Callers, NEW ip \in Ips, Enter(c, ip) PROVE ClockInv'
    BY <1>1 DEF Enter, ClockInv, TypeOK
  <1>2. ASSUME NEW c \in Callers, TooManyConnections(c) PROVE ClockInv'
    <2>1. PICK v \in {"admitted", "rejected"} : Answer(c, v)
      BY <1>2 DEF TooManyConnections, RejectBanned, CountKnown, InsertNew, EvictOldest
    <2>2. UNCHANGED <<clock, sweep>>
      BY <1>2 DEF TooManyConnections
    <2>3. \A d \in Callers : calls'[d].pc = "locking" => calls'[d] = calls[d]
      BY <2>1 DEF Answer, TypeOK
    <2> QED
      BY <2>2, <2>3 DEF ClockInv
  <1>3. CASE SweepEnter
    BY <1>3 DEF SweepEnter, ClockInv, TypeOK
  <1>4. CASE Sweep
    BY <1>4 DEF Sweep, ClockInv
  <1>5. CASE Tick
    <2>1. ASSUME NEW c \in Callers, calls[c].pc = "locking"
          PROVE  calls[c].now <= clock' /\ clock' - calls[c].now <= MaxLag
      <3>1. calls[c].now \in Nat
        BY <2>1, CallType
      <3> QED
        BY <1>5, <2>1, <3>1 DEF Tick, ClockInv, TypeOK
    <2> QED
      BY <1>5, <2>1 DEF Tick, ClockInv, TypeOK, Never
  <1>6. CASE UNCHANGED vars
    BY <1>6 DEF vars, ClockInv
  <1> QED
    BY <1>1, <1>2, <1>3, <1>4, <1>5, <1>6 DEF Next

\* What the history holds once a connection is counted.
LEMMA CountedHistory ==
    ASSUME NEW h \in History, NEW now \in Nat, clock \in Nat
    PROVE  /\ Counted(h, now).last = now
           /\ Within(h, now) /\ h.streak > RateLimit => Counted(h, now).streak = h.streak
           /\ Within(h, now) /\ h.streak <= RateLimit => Counted(h, now).streak = h.streak + 1
           /\ ~Within(h, now) => Counted(h, now).streak = 1
           /\ Counted(h, now).streak > RateLimit /\ ~h.forgot => Counted(h, now).bannedAt = now
           /\ Counted(h, now).streak <= RateLimit => Counted(h, now).bannedAt = h.bannedAt
           /\ ~Counted(h, now).forgot =>
                 ~h.forgot \/ (~Within(h, now) /\ BanOver(h, clock))
  <1> USE IpTableAssumption
  <1> DEFINE g == Counted(h, now)
  <1>1. g.last = now /\ g.streak = NewStreak(h, now)
    BY DEF Counted
  <1>2. g.bannedAt = IF NewStreak(h, now) > RateLimit /\ ~h.forgot THEN now ELSE h.bannedAt
    BY DEF Counted
  <1>3. ~g.forgot => ~h.forgot \/ (~Within(h, now) /\ BanOver(h, clock))
    BY DEF Counted
  <1>4. h.streak \in 0..(RateLimit + 1) /\ NewStreak(h, now) \in 0..(RateLimit + 1)
    BY DEF History, NewStreak
  <1>5. /\ Within(h, now) /\ h.streak > RateLimit => g.streak = h.streak
        /\ Within(h, now) /\ h.streak <= RateLimit => g.streak = h.streak + 1
        /\ ~Within(h, now) => g.streak = 1
    BY <1>1, <1>4 DEF NewStreak
  <1>6. /\ g.streak > RateLimit /\ ~h.forgot => g.bannedAt = now
        /\ g.streak <= RateLimit => g.bannedAt = h.bannedAt
    BY <1>1, <1>2, <1>4
  <1> QED
    BY <1>1, <1>3, <1>5, <1>6

\* A known address counted: the table goes on remembering its history, no ban
\* of it was running, and it is not let in above the limit.
LEMMA CountKnownRemembers ==
    ASSUME TypeOK, ClockInv, TableInv,
           NEW c \in Callers, calls[c].pc = "locking", UNCHANGED clock,
           NEW ip \in Ips, ip = calls[c].ip,
           NEW i \in Slots, Matches(i, ip), CountKnown(c, i)
    PROVE  /\ ~hist'[ip].forgot => Remembered(ip, table[i])'
           /\ ~hist[ip].forgot =>
                 /\ BanOver(hist[ip], clock)
                 /\ ~table'[i].blocked => hist'[ip].streak <= RateLimit
  <1> USE IpTableAssumption
  <1> DEFINE now == calls[c].now
             d == table[i]
             h == hist[ip]
             l == Lifted(d)
             e == Bumped(l, now)
             g == Counted(h, now)
  <1>0. now \in Nat /\ now <= clock /\ clock \in Nat
    BY CallType DEF ClockInv, TypeOK
  <1>1. d \in UsedEntry /\ h \in History
    BY <1>0, EntryCases DEF TypeOK, Matches
  <1>a. d.last_conn \in Nat /\ d.count \in Nat /\ d.last_rejected \in Nat
    BY <1>1 DEF UsedEntry
  <1>b. h.last = d.last_conn
    BY DEF TableInv
  <1>c. h.streak \in 0..(RateLimit + 1) /\ h.bannedAt \in Nat \cup {Never}
    BY <1>1 DEF History
  <1>2. /\ d.last_conn \in Nat /\ d.count \in Nat /\ d.last_rejected \in Nat
        /\ h.last = d.last_conn
        /\ Within(h, now) <=> now - d.last_conn < Window
        /\ h.streak \in 0..(RateLimit + 1)
        /\ h.bannedAt \in Nat \cup {Never}
    BY <1>0, <1>a, <1>b, <1>c DEF Within, Never
  <1>3. table'[i] = e /\ hist'[ip] = g
    BY DEF CountKnown, TypeOK
  <1>4. /\ l \in UsedEntry /\ l.blocked = FALSE /\ l.last_conn = d.last_conn
        /\ l.count = IF d.blocked THEN 0 ELSE d.count
    BY <1>1, LiftedEntry, Zenon
  <1>5. /\ e.last_conn = now
        /\ now - l.last_conn >= Window => e.count = 1 /\ e.blocked = FALSE
        /\ now - l.last_conn < Window =>
              /\ e.count = l.count + 1
              /\ l.count + 1 > RateLimit => e.blocked = TRUE
              /\ l.count + 1 <= RateLimit => e.blocked = FALSE
        /\ e.blocked => e.last_rejected = now
    BY <1>4, <1>0, BumpedEntry, Zenon
  <1>6. /\ g.last = now
        /\ Within(h, now) /\ h.streak > RateLimit => g.streak = h.streak
        /\ Within(h, now) /\ h.streak <= RateLimit => g.streak = h.streak + 1
        /\ ~Within(h, now) => g.streak = 1
        /\ g.streak > RateLimit /\ ~h.forgot => g.bannedAt = now
        /\ g.streak <= RateLimit => g.bannedAt = h.bannedAt
        /\ ~g.forgot => ~h.forgot \/ (~Within(h, now) /\ BanOver(h, clock))
    BY <1>1, <1>0, CountedHistory, Zenon
  <1>7. ~h.forgot => Remembered(ip, d)
    BY DEF TableInv
  <1>8. ~h.forgot => BanOver(h, clock)
    <2>1. CASE d.blocked
      BY <1>0, <1>2, <1>7, <2>1 DEF CountKnown, BanExpired, BanOver, Remembered
    <2>2. CASE ~d.blocked
      BY <1>7, <2>2 DEF Remembered
    <2> QED
      BY <2>1, <2>2
  <1>9. CASE ~Within(h, now)
    <2>1. e.count = 1 /\ e.blocked = FALSE /\ g.streak = 1 /\ g.bannedAt = h.bannedAt
      BY <1>9, <1>2, <1>4, <1>5, <1>6, <1>0
    <2>2. ~g.forgot => BanOver(h, clock)
      BY <1>6, <1>8
    <2>3. ~g.forgot => BanOver(g, clock)
      BY <2>1, <2>2 DEF BanOver
    <2>4. ~g.forgot => Remembered(ip, table[i])'
      BY <2>1, <2>3, <1>0, <1>3, <1>5 DEF Remembered
    <2> QED
      BY <2>1, <2>4, <1>3, <1>8
  <1>10. CASE Within(h, now)
    <2>1. SUFFICES ASSUME ~h.forgot
                   PROVE  /\ Remembered(ip, table[i])'
                          /\ ~e.blocked => g.streak <= RateLimit
      BY <1>3, <1>6, <1>8, <1>10
    <2>2. ~d.blocked
      BY <1>0, <1>2, <1>7, <1>10, <2>1 DEF CountKnown, BanExpired, Remembered
    <2>3. l.count = d.count
      BY <1>4, <2>2
    <2>4. /\ d.count > RateLimit <=> h.streak > RateLimit
          /\ d.count <= RateLimit => d.count = h.streak
      BY <1>7, <2>1 DEF Remembered
    <2>5. /\ e.count = d.count + 1
          /\ d.count + 1 > RateLimit => e.blocked = TRUE
          /\ d.count + 1 <= RateLimit => e.blocked = FALSE
      BY <1>2, <1>4, <1>5, <1>10, <2>3
    <2>6. CASE d.count + 1 > RateLimit
      <3>1. g.streak > RateLimit /\ g.bannedAt = now
        BY <1>2, <1>6, <1>10, <2>1, <2>4, <2>6
      <3>2. e.count > RateLimit /\ e.blocked = TRUE /\ e.last_rejected = now
        BY <1>2, <1>5, <2>5, <2>6
      <3> QED
        BY <3>1, <3>2, <1>0, <1>3, <1>5, <1>2, <2>5 DEF Remembered
    <2>7. CASE d.count + 1 <= RateLimit
      <3>1. g.streak = d.count + 1 /\ g.bannedAt = h.bannedAt
        BY <1>2, <1>6, <1>10, <2>4, <2>7
      <3>2. BanOver(g, clock)
        BY <3>1, <1>8, <2>1 DEF BanOver
      <3> QED
        BY <3>1, <3>2, <1>0, <1>2, <1>3, <1>5, <2>5, <2>7 DEF Remembered
    <2> QED
      BY <1>2, <2>6, <2>7
  <1> QED
    BY <1>9, <1>10

\* A new address counted, in an empty slot or in the place of another: the
\* same three facts.
LEMMA FreshRemembers ==
    ASSUME TypeOK, ClockInv, TableInv,
           NEW c \in Callers, calls[c].pc = "locking", UNCHANGED clock,
           NEW ip \in Ips, ip = calls[c].ip, NEW i \in Slots, ~Known(ip),
           table' = [table EXCEPT ![i] = FreshEntry(ip, calls[c].now)],
           hist'[ip] = Counted(hist[ip], calls[c].now)
    PROVE  /\ ~hist'[ip].forgot => Remembered(ip, table[i])'
           /\ ~hist[ip].forgot =>
                 /\ BanOver(hist[ip], clock)
                 /\ hist'[ip].streak <= RateLimit
  <1> USE IpTableAssumption
  <1> DEFINE now == calls[c].now
             h == hist[ip]
             e == table'[i]
             g == Counted(h, now)
  <1>0. /\ now \in Nat /\ now <= clock /\ clock \in Nat
        /\ clock - now <= MaxLag
    BY CallType DEF ClockInv, TypeOK
  <1>1. h \in History
    BY <1>0 DEF TypeOK
  <1>2. e.last_conn = now /\ e.count = 1 /\ ~e.blocked
    BY <1>0, FreshEntryType DEF TypeOK
  <1>3. /\ ~Within(h, now) => g.streak = 1
        /\ g.streak <= RateLimit => g.bannedAt = h.bannedAt
        /\ ~g.forgot => ~h.forgot \/ (~Within(h, now) /\ BanOver(h, clock))
    BY <1>1, <1>0, CountedHistory, Zenon
  <1>4. ~h.forgot => ~Within(h, now) /\ BanOver(h, clock)
    <2>1. ~h.forgot => Forgettable(h)
      BY <1>0 DEF TableInv
    <2>2. h.last \in Nat \cup {Never}
      BY <1>1 DEF History
    <2> QED
      BY <2>1, <2>2, <1>0 DEF Forgettable, Within, Never
  <1>5. ~g.forgot => ~Within(h, now) /\ BanOver(h, clock)
    BY <1>3, <1>4
  <1>6. ~Within(h, now) => g.streak = 1 /\ g.bannedAt = h.bannedAt
    BY <1>3
  <1>7. ~g.forgot => Remembered(ip, table[i])'
    <2>1. ~g.forgot => BanOver(g, clock)
      BY <1>5, <1>6 DEF BanOver
    <2> QED
      BY <2>1, <1>0, <1>2, <1>5, <1>6 DEF Remembered
  <1> QED
    BY <1>4, <1>6, <1>7

-----------------------------------------------------------------------------
\* The two lemmas together: of a check, what the table remembers of its
\* address afterwards and, when it lets the connection in, why it may.
LEMMA CheckRemembers ==
    ASSUME TypeOK, OneEntryPerIp, ClockInv, TableInv,
           NEW c \in Callers, TooManyConnections(c),
           NEW ip \in Ips, ip = calls[c].ip
    PROVE  \/ UNCHANGED <<table, hist>> /\ calls'[c].pc = "rejected"
           \/ \E i \in Slots, e \in UsedEntry :
                 /\ Recorded(c, i, e)
                 /\ ~hist'[ip].forgot => Remembered(ip, table[i])'
                 /\ ~hist[ip].forgot =>
                       /\ BanOver(hist[ip], clock)
                       /\ calls'[c].pc = "admitted" => hist'[ip].streak <= RateLimit
  <1>0. calls[c].pc = "locking" /\ UNCHANGED clock
    BY DEF TooManyConnections
  <1>1. PICK i \in Slots :
            \/ Matches(i, ip) /\ RejectBanned(c, i)
            \/ Matches(i, ip) /\ CountKnown(c, i)
            \/ InsertNew(c, i)
            \/ EvictOldest(c, i)
    BY DEF TooManyConnections, IsFirst
  <1>2. CASE RejectBanned(c, i)
    BY <1>2 DEF RejectBanned, Answer, TypeOK
  <1>3. CASE Matches(i, ip) /\ CountKnown(c, i)
    <2> DEFINE e == Bumped(Lifted(table[i]), calls[c].now)
    <2>1. e \in UsedEntry /\ Recorded(c, i, e)
      BY <1>0, <1>3, RecordedKnown
    <2>2. /\ ~hist'[ip].forgot => Remembered(ip, table[i])'
          /\ ~hist[ip].forgot =>
                /\ BanOver(hist[ip], clock)
                /\ ~table'[i].blocked => hist'[ip].streak <= RateLimit
      BY <1>0, <1>3, CountKnownRemembers
    <2>3. calls'[c].pc = "admitted" => ~table'[i].blocked
      BY <1>3 DEF CountKnown, Answer, TypeOK
    <2> QED
      BY <2>1, <2>2, <2>3
  <1>4. CASE InsertNew(c, i) \/ EvictOldest(c, i)
    <2> DEFINE e == FreshEntry(ip, calls[c].now)
    <2>1. e \in UsedEntry /\ Recorded(c, i, e)
      BY <1>0, <1>4, RecordedFresh
    <2>2. ~Known(ip)
      BY <1>4 DEF InsertNew, EvictOldest
    <2>3. table' = [table EXCEPT ![i] = e] /\ hist'[ip] = Counted(hist[ip], calls[c].now)
      BY <2>1 DEF Recorded
    <2> QED
      BY <1>0, <2>1, <2>2, <2>3, FreshRemembers
  <1> QED
    BY <1>1, <1>2, <1>3, <1>4

\* Every step leaves what the table remembers true.
LEMMA NextTable == IInv /\ [Next]_vars => TableInv'
  <1> SUFFICES ASSUME IInv, [Next]_vars PROVE TableInv'
    OBVIOUS
  <1> USE IpTableAssumption
  <1>0. TypeOK /\ OneEntryPerIp /\ ClockInv /\ TableInv
    BY DEF IInv
  <1>1. CASE UNCHANGED <<clock, table, hist>>
    BY <1>0, <1>1 DEF TableInv, Known, Matches, Remembered, Forgettable, BanOver
  <1>2. ASSUME NEW c \in Callers, TooManyConnections(c) PROVE TableInv'
    <2>0. UNCHANGED clock /\ calls[c].ip \in Ips /\ calls[c].now \in Nat
      BY <1>0, <1>2, CallType DEF TooManyConnections
    <2>1. PICK me \in Ips : me = calls[c].ip
      BY <2>0
    <2>2. CASE UNCHANGED <<table, hist>>
      BY <1>1, <2>0, <2>2
    <2>3. CASE \E i \in Slots, e \in UsedEntry :
                  /\ Recorded(c, i, e)
                  /\ ~hist'[me].forgot => Remembered(me, table[i])'
      <3>1. PICK i \in Slots, e \in UsedEntry :
                  /\ Recorded(c, i, e)
                  /\ ~hist'[me].forgot => Remembered(me, table[i])'
        BY <2>3
      <3>2. /\ table'[i] = e /\ e.ip = me /\ e.last_conn = calls[c].now
            /\ \A j \in Slots \ {i} : table'[j] = table[j] /\ ~Matches(j, me)
        BY <1>0, <2>1, <3>1 DEF Recorded, TypeOK
      <3>3. e.used = TRUE
        BY DEF UsedEntry
      <3>4. ASSUME NEW ip \in Ips, ip = me
            PROVE  /\ \A j \in Slots : Matches(j, ip)' => hist'[ip].last = table'[j].last_conn
                   /\ ~hist'[ip].forgot =>
                         /\ \A j \in Slots : Matches(j, ip)' => Remembered(ip, table[j])'
                         /\ Known(ip)'
        <4>1. \A j \in Slots : Matches(j, ip)' <=> j = i
          BY <3>2, <3>3, <3>4 DEF Matches
        <4>2. hist'[ip].last = calls[c].now
          BY <1>0, <2>0, <2>1, <3>1, <3>4, CountedHistory DEF Recorded, TypeOK
        <4> QED
          BY <4>1, <4>2, <3>1, <3>2, <3>4 DEF Known
      <3>5. ASSUME NEW ip \in Ips, ip # me
            PROVE  /\ \A j \in Slots : Matches(j, ip)' => hist'[ip].last = table'[j].last_conn
                   /\ ~hist'[ip].forgot =>
                         /\ \A j \in Slots : Matches(j, ip)' => Remembered(ip, table[j])'
                         /\ ~Known(ip)' => Forgettable(hist[ip])'
        <4>1. \A j \in Slots : Matches(j, ip)' => Matches(j, ip) /\ table'[j] = table[j]
          BY <3>2, <3>5 DEF Matches
        <4>2. hist'[ip].last = hist[ip].last
          BY <2>1, <3>1, <3>5 DEF Recorded
        <4>3. ~hist'[ip].forgot => hist'[ip] = hist[ip] /\ ~Matches(i, ip)
          BY <2>1, <3>1, <3>5 DEF Recorded
        <4>4. ~hist'[ip].forgot /\ ~Known(ip)' => ~Known(ip)
          BY <3>2, <4>3 DEF Known, Matches
        <4>5. \A j \in Slots : Matches(j, ip)' => hist'[ip].last = table'[j].last_conn
          BY <1>0, <4>1, <4>2 DEF TableInv
        <4>6. ASSUME ~hist'[ip].forgot, NEW j \in Slots, Matches(j, ip)'
              PROVE  Remembered(ip, table[j])'
          BY <1>0, <2>0, <4>1, <4>3, <4>6 DEF TableInv, Remembered, BanOver
        <4>7. ASSUME ~hist'[ip].forgot, ~Known(ip)'
              PROVE  Forgettable(hist[ip])'
          BY <1>0, <2>0, <4>3, <4>4, <4>7 DEF TableInv, Forgettable, BanOver
        <4> QED
          BY <4>5, <4>6, <4>7
      <3> QED
        BY <3>4, <3>5 DEF TableInv
    <2> QED
      BY <1>0, <1>2, <2>1, <2>2, <2>3, CheckRemembers
  <1>3. CASE Sweep
    <2>0. sweep \in Nat /\ sweep <= clock /\ clock \in Nat /\ UNCHANGED <<clock, hist>>
      BY <1>0, <1>3 DEF Sweep, ClockInv, TypeOK
    <2>1. ASSUME NEW ip \in Ips, NEW i \in Slots, Matches(i, ip)
          PROVE  \/ /\ table'[i] = EmptyEntry
                    /\ ~(table[i].blocked /\ ~BanExpired(table[i], sweep))
                    /\ sweep - table[i].last_conn > StaleSecs
                 \/ table'[i] = [table[i] EXCEPT !.blocked =
                                   table[i].blocked /\ ~BanExpired(table[i], sweep)]
      <3>1. table'[i] = Swept(table[i]) /\ table[i].used
        BY <1>3, <2>1 DEF Sweep, Matches
      <3> QED
        BY <3>1, Zenon DEF Swept
    <2>2. \A i \in Slots : ~table[i].used => table'[i] = table[i]
      BY <1>3 DEF Sweep, Swept
    <2>3. EmptyEntry.used = FALSE
      BY DEF EmptyEntry
    <2>4. ASSUME NEW ip \in Ips, NEW i \in Slots, Matches(i, ip)'
          PROVE  /\ Matches(i, ip)
                 /\ table'[i].last_conn = table[i].last_conn
                 /\ table'[i].last_rejected = table[i].last_rejected
                 /\ table'[i].count = table[i].count
                 /\ table'[i].blocked <=> table[i].blocked /\ ~BanExpired(table[i], sweep)
      <3>1. table[i].used
        BY <2>2, <2>4 DEF Matches
      <3>2. table[i] \in UsedEntry
        BY <1>0, <3>1, EntryCases DEF TypeOK
      <3>3. table[i].ip \in Ips /\ Matches(i, table[i].ip)
        BY <3>1, <3>2 DEF UsedEntry, Matches
      <3>4. table'[i] # EmptyEntry
        BY <2>3, <2>4 DEF Matches
      <3>5. table'[i] = [table[i] EXCEPT !.blocked =
                            table[i].blocked /\ ~BanExpired(table[i], sweep)]
        BY <2>1, <3>3, <3>4
      <3>6. table'[i].ip = table[i].ip
        BY <3>5, <3>2 DEF UsedEntry
      <3>7. Matches(i, ip)
        BY <2>4, <3>1, <3>6 DEF Matches
      <3>8. table'[i].blocked <=> table[i].blocked /\ ~BanExpired(table[i], sweep)
        BY <3>5, <3>2 DEF UsedEntry
      <3>9. /\ table'[i].last_conn = table[i].last_conn
            /\ table'[i].last_rejected = table[i].last_rejected
            /\ table'[i].count = table[i].count
        BY <3>5, <3>2 DEF UsedEntry
      <3> QED
        BY <3>7, <3>8, <3>9
    <2>5. ASSUME NEW ip \in Ips, ~hist[ip].forgot, NEW i \in Slots, Matches(i, ip)
          PROVE  /\ Remembered(ip, table[i]) /\ hist[ip].last = table[i].last_conn
                 /\ table[i].last_conn \in Nat /\ table[i].last_rejected \in Nat
                 /\ ~(table[i].blocked /\ ~BanExpired(table[i], sweep)) => BanOver(hist[ip], clock)
      <3>1. Remembered(ip, table[i]) /\ hist[ip].last = table[i].last_conn
        BY <1>0, <2>5 DEF TableInv
      <3>2. table[i] \in UsedEntry
        BY <1>0, <2>5, EntryCases DEF TypeOK, Matches
      <3>3. table[i].last_conn \in Nat /\ table[i].last_rejected \in Nat
        BY <3>2 DEF UsedEntry
      <3> QED
        BY <2>0, <3>1, <3>3 DEF Remembered, BanExpired, BanOver
    <2>6. ASSUME NEW ip \in Ips, NEW i \in Slots, Matches(i, ip)'
          PROVE  /\ hist'[ip].last = table'[i].last_conn
                 /\ ~hist'[ip].forgot => Remembered(ip, table[i])'
      <3>1. hist'[ip].last = table'[i].last_conn
        BY <1>0, <2>0, <2>4, <2>6 DEF TableInv
      <3>2. ASSUME ~hist'[ip].forgot PROVE Remembered(ip, table[i])'
        BY <2>0, <2>4, <2>5, <2>6, <3>2 DEF Remembered, BanOver
      <3> QED
        BY <3>1, <3>2
    <2>7. ASSUME NEW ip \in Ips, ~hist'[ip].forgot, ~Known(ip)'
          PROVE  Forgettable(hist[ip])'
      <3>1. CASE Known(ip)
        <4>1. PICK i \in Slots : Matches(i, ip)
          BY <3>1 DEF Known
        <4>2. /\ ~(table[i].blocked /\ ~BanExpired(table[i], sweep))
              /\ sweep - table[i].last_conn > StaleSecs
          <5>1. table[i] \in UsedEntry
            BY <1>0, <4>1, EntryCases DEF TypeOK, Matches
          <5>2. ~(table'[i].used /\ table'[i].ip = ip)
            BY <2>7 DEF Known, Matches
          <5>3. CASE table'[i] = [table[i] EXCEPT !.blocked =
                                    table[i].blocked /\ ~BanExpired(table[i], sweep)]
            <6>1. table'[i].used = TRUE /\ table'[i].ip = table[i].ip
              BY <5>1, <5>3 DEF UsedEntry
            <6> QED
              BY <5>2, <6>1, <4>1 DEF Matches
          <5> QED
            BY <2>1, <4>1, <5>3
        <4>3. BanOver(hist[ip], clock) /\ sweep - table[i].last_conn > StaleSecs
          BY <2>0, <2>1, <2>5, <2>7, <4>1, <4>2
        <4> QED
          BY <2>0, <2>5, <2>7, <4>1, <4>3 DEF Forgettable, BanOver
      <3>2. CASE ~Known(ip)
        BY <1>0, <2>0, <2>7, <3>2 DEF TableInv, Forgettable, BanOver
      <3> QED
        BY <3>1, <3>2
    <2> QED
      BY <2>6, <2>7 DEF TableInv
  <1>4. CASE Tick
    <2>1. clock' = clock + 1 /\ clock \in Nat /\ UNCHANGED <<table, hist>>
      BY <1>0, <1>4 DEF Tick, TypeOK
    <2>2. ASSUME NEW ip \in Ips, BanOver(hist[ip], clock)
          PROVE  BanOver(hist[ip], clock)'
      <3>1. hist[ip].bannedAt \in Nat \cup {Never}
        BY <1>0 DEF TypeOK, History
      <3> QED
        BY <2>1, <2>2, <3>1 DEF BanOver, Never
    <2>3. ASSUME NEW ip \in Ips, NEW i \in Slots, Matches(i, ip), Remembered(ip, table[i])
          PROVE  Remembered(ip, table[i])'
      <3>1. table[i] \in UsedEntry
        BY <1>0, <2>3, EntryCases DEF TypeOK, Matches
      <3>2. table[i].last_conn \in Nat
        BY <3>1 DEF UsedEntry
      <3> QED
        BY <2>1, <2>2, <2>3, <3>2 DEF Remembered
    <2>4. ASSUME NEW ip \in Ips, Forgettable(hist[ip])
          PROVE  Forgettable(hist[ip])'
      <3>1. hist[ip].last \in Nat \cup {Never}
        BY <1>0 DEF TypeOK, History
      <3> QED
        BY <2>1, <2>2, <2>4, <3>1 DEF Forgettable, Never
    <2> QED
      BY <1>0, <2>1, <2>3, <2>4 DEF TableInv, Known, Matches
  <1> QED
    BY <1>1, <1>2, <1>3, <1>4 DEF Next, Enter, SweepEnter, vars

-----------------------------------------------------------------------------
\* IInv is inductive.
THEOREM Inductive == Spec => []IInv
  <1>1. Init => IInv
    <2> SUFFICES ASSUME Init PROVE IInv
      OBVIOUS
    <2>1. TypeOK
      BY InitType
    <2>2. \A i \in Slots : ~table[i].used
      <3>1. EmptyEntry.used = FALSE
        BY DEF EmptyEntry
      <3> QED
        BY <3>1 DEF Init
    <2>3. ClockInv
      BY DEF Init, ClockInv, Idle
    <2>4. \A ip \in Ips : Forgettable(hist[ip])
      BY DEF Init, Forgettable, BanOver
    <2> QED
      BY <2>1, <2>2, <2>3, <2>4 DEF IInv, OneEntryPerIp, TableInv, Known, Matches
  <1>2. IInv /\ [Next]_vars => IInv'
    BY NextType, NextOneEntry, NextClock, NextTable DEF IInv
  <1> QED
    BY <1>1, <1>2, PTL DEF Spec

\* A connection that is let in is the step of its own thread.
LEMMA AdmitsStep ==
    ASSUME TypeOK, [Next]_vars, NEW c \in Callers, Admits(c)
    PROVE  TooManyConnections(c)
  <1>1. ASSUME NEW d \in Callers, NEW ip \in Ips, Enter(d, ip) PROVE FALSE
    BY <1>1 DEF Enter, Admits, TypeOK
  <1>2. ASSUME NEW d \in Callers, TooManyConnections(d), d # c PROVE FALSE
    <2>1. PICK v \in {"admitted", "rejected"} : Answer(d, v)
      BY <1>2 DEF TooManyConnections, RejectBanned, CountKnown, InsertNew, EvictOldest
    <2> QED
      BY <1>2, <2>1 DEF Answer, Admits, TypeOK
  <1>3. ~UNCHANGED calls
    BY DEF Admits
  <1> QED
    BY <1>1, <1>2, <1>3 DEF Next, SweepEnter, Sweep, Tick, vars

\* What too_many_connections() promises of every connection it lets in.
LEMMA AdmitsAllowed ==
    ASSUME IInv, [Next]_vars, NEW c \in Callers, Admits(c)
    PROVE  LET h == hist[calls[c].ip]
           IN  ~h.forgot => /\ BanOver(h, clock)
                            /\ hist'[calls[c].ip].streak <= RateLimit
  <1>0. TypeOK /\ OneEntryPerIp /\ ClockInv /\ TableInv
    BY DEF IInv
  <1>1. TooManyConnections(c)
    BY <1>0, AdmitsStep
  <1>2. PICK ip \in Ips : ip = calls[c].ip
    BY <1>0, CallType DEF Admits
  <1>3. calls'[c].pc = "admitted"
    BY DEF Admits
  <1> QED
    BY <1>0, <1>1, <1>2, <1>3, CheckRemembers

\* No connection of a banned address is let in before the ban is over, unless
\* its entry was evicted.
THEOREM BanHoldsThm == Spec => BanHolds
  <1>1. IInv /\ [Next]_vars =>
          [\A c \in Callers :
             Admits(c) => LET h == hist[calls[c].ip] IN h.forgot \/ BanOver(h, clock)]_vars
    BY AdmitsAllowed
  <1> QED
    BY <1>1, Inductive, PTL DEF Spec, BanHolds

\* No more than RateLimit connections of one address, less than Window apart,
\* are let in, unless its entry was evicted.
THEOREM LimitHoldsThm == Spec => LimitHolds
  <1>1. IInv /\ [Next]_vars =>
          [\A c \in Callers :
             Admits(c) => LET ip == calls[c].ip
                          IN  hist[ip].forgot \/ hist'[ip].streak <= RateLimit]_vars
    BY AdmitsAllowed
  <1> QED
    BY <1>1, Inductive, PTL DEF Spec, LimitHolds
=============================================================================
