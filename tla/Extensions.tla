----------------------------- MODULE Extensions -----------------------------
(***************************************************************************)
(* extensions/extensions.c: the life of one extension.  Its directory is   *)
(* found by scans, an admin enables or disables it, the supervisor thread  *)
(* starts, watches, restarts and stops its process, and extensions_stop()  *)
(* ends it with the server.  Extensions share nothing but the room in      *)
(* g_ext, so one is modelled; whether there is room for it is left open.   *)
(*                                                                         *)
(* Everything under g_lock is one step.  Moments are kept as ages, in      *)
(* seconds, up to the longest one that is ever compared.                   *)
(***************************************************************************)
EXTENDS Integers, Sequences

CONSTANTS Admins,        \* threads serving POST .../extensions/<name>
          Dirs,          \* what a scan may find: "absent", "good", "bad"
          Grace,         \* STOP_GRACE_SECONDS
          CrashLimit,    \* CRASH_LIMIT
          CrashWindow    \* CRASH_WINDOW_SECONDS

ASSUME ExtensionsAssumption ==
    /\ Dirs \subseteq {"absent", "good", "bad"}
    /\ Grace \in Nat \ {0}
    /\ CrashLimit \in Nat \ {0}
    /\ CrashWindow \in Nat

No == -1      \* no such moment

VARIABLES
    db,           \* the extension is enabled in the collection
    known,        \* it has an entry in g_ext; the fields of the entry:
    present, enabled, state, pid,
    term,         \*   age of term_sent, No when 0
    startIn,      \*   seconds to next_start, 0 when it is past
    crashes,
    window,       \*   age of crash_window
    proc,         \* the process itself: "none", "up", or "listening"
    termed,       \* how long ago it got its first SIGTERM, or No
    strays,       \* live processes no entry knows of
    abrupt,       \* a process was killed without its SIGTERM and grace
    recent,       \* ages of the last exits the supervisor saw
    main,         \* the server: "off", "up", and the stages of extensions_stop()
    waited,       \* how long extensions_stop() has waited for the process
    supervisor,   \* the thread: in a "turn" of its loop, asleep or done
    req           \* what each admin's request is doing

entryVars == <<known, present, enabled, state, pid, term, startIn, crashes, window>>
procVars == <<proc, termed, strays, abrupt>>
serverVars == <<main, waited, supervisor>>
vars == <<db, entryVars, procVars, recent, serverVars, req>>

Alive == proc # "none"

\* g_lock is free: extensions_stop() keeps it while it waits for processes.
Unlocked == main \in {"up", "join"}

Capped(age, max) == IF age = No THEN No ELSE IF age < max THEN age + 1 ELSE max

-----------------------------------------------------------------------------
(* The world: the process and time.                                        *)

Listen ==
    /\ proc = "up"
    /\ proc' = "listening"
    /\ UNCHANGED <<db, entryVars, termed, strays, abrupt, recent, serverVars, req>>

\* The process ends by itself, and is reaped at once by main()'s SIGCHLD handler.
ProcExit ==
    /\ Alive
    /\ proc' = "none"
    /\ termed' = No
    /\ UNCHANGED <<db, entryVars, strays, abrupt, recent, serverVars, req>>

Tick ==
    /\ term' = Capped(term, Grace)
    /\ termed' = Capped(termed, Grace)
    /\ startIn' = IF startIn > 0 THEN startIn - 1 ELSE 0
    /\ window' = Capped(window, CrashWindow + 1)
    /\ recent' = [i \in DOMAIN recent |-> Capped(recent[i], CrashWindow + 1)]
    /\ waited' = IF main = "wait" THEN Capped(waited, Grace) ELSE waited
    /\ UNCHANGED <<db, known, present, enabled, state, pid, crashes, proc, strays, abrupt,
                   main, supervisor, req>>

-----------------------------------------------------------------------------
(* scan_locked().                                                          *)

NoEntry ==
    /\ known' = FALSE
    /\ present' = FALSE
    /\ enabled' = FALSE
    /\ state' = "disabled"
    /\ pid' = 0
    /\ term' = No
    /\ startIn' = 0
    /\ crashes' = 0
    /\ window' = CrashWindow + 1
    /\ recent' = <<>>

\* Mutant: an entry whose directory is gone is dropped at once.
DroppedAtOnce == TRUE

\* The entry of a directory that is gone stays until its process has stopped.
Dropped == pid = 0

\* read_manifest(); a running or failed extension keeps its state.
StateAfterScan(manifest) ==
    IF manifest = "bad" THEN "invalid"
    ELSE IF pid # 0 \/ state = "failed" THEN state ELSE "disabled"

\* The directory may change between two scans.  "absent" is also what a scan
\* sees when opendir() fails or a new extension finds no room in g_ext.
Scan(seen) ==
    \/ /\ seen = "absent" /\ known /\ ~Dropped
       /\ present' = FALSE
       /\ UNCHANGED <<known, enabled, state, pid, term, startIn, crashes, window, recent>>
    \/ /\ seen = "absent" /\ (known => Dropped)
       /\ NoEntry
    \/ /\ seen # "absent"
       /\ known' = TRUE
       /\ present' = TRUE
       /\ state' = StateAfterScan(seen)
       /\ UNCHANGED <<enabled, pid, term, startIn, crashes, window, recent>>

\* The admin page was loaded.
Rescan ==
    /\ Unlocked
    /\ \E seen \in Dirs : Scan(seen)
    /\ UNCHANGED <<db, procVars, serverVars, req>>

-----------------------------------------------------------------------------
(* extensions_set_enabled(): check, store, apply, with g_lock given up     *)
(* while the choice is stored.                                             *)

CheckRequest(a, want) ==
    /\ Unlocked
    /\ req[a].pc = "idle"
    /\ known /\ present /\ state # "invalid"
    /\ req' = [req EXCEPT ![a] = [pc |-> "store", want |-> want]]
    /\ UNCHANGED <<db, entryVars, procVars, recent, serverVars>>

\* A database error ends the request.
StoreRequest(a) ==
    /\ main # "off"
    /\ req[a].pc = "store"
    /\ \/ /\ db' = req[a].want
          /\ req' = [req EXCEPT ![a].pc = "apply"]
       \/ /\ UNCHANGED db
          /\ req' = [req EXCEPT ![a].pc = "idle"]
    /\ UNCHANGED <<entryVars, procVars, recent, serverVars>>

ApplyRequest(a) ==
    /\ Unlocked
    /\ req[a].pc = "apply"
    /\ req' = [req EXCEPT ![a].pc = "idle"]
    /\ IF known
       THEN /\ enabled' = req[a].want
            /\ crashes' = IF req[a].want THEN 0 ELSE crashes
            /\ startIn' = IF req[a].want THEN 0 ELSE startIn
            /\ state' = IF req[a].want /\ state = "failed" THEN "disabled" ELSE state
            /\ recent' = IF req[a].want THEN <<>> ELSE recent
       ELSE UNCHANGED <<enabled, crashes, startIn, state, recent>>
    /\ UNCHANGED <<db, known, present, pid, term, window, procVars, serverVars>>

-----------------------------------------------------------------------------
(* The supervisor thread: reconcile().                                     *)

Wanted == known /\ enabled /\ state # "invalid" /\ present

\* Mutant: the process is asked to stop and asked again, never killed.
RequestStopPolitely ==
    \/ pid = 0 /\ UNCHANGED <<pid, term, procVars>>
    \/ pid # 0 /\ ~Alive /\ pid' = 0 /\ term' = No /\ UNCHANGED procVars
    \/ /\ pid # 0 /\ Alive
       /\ term' = 0
       /\ termed' = IF termed = No THEN 0 ELSE termed
       /\ UNCHANGED <<pid, proc, strays, abrupt>>

RequestStop ==
    \/ pid = 0 /\ UNCHANGED <<pid, term, procVars>>
    \/ /\ pid # 0 /\ ~Alive
       /\ pid' = 0
       /\ term' = No
       /\ UNCHANGED procVars
    \/ /\ pid # 0 /\ Alive /\ term = No                   \* SIGTERM
       /\ term' = 0
       /\ termed' = IF termed = No THEN 0 ELSE termed
       /\ UNCHANGED <<pid, proc, strays, abrupt>>
    \/ /\ pid # 0 /\ Alive /\ term \in 0..(Grace - 1)
       /\ UNCHANGED <<pid, term, procVars>>
    \/ /\ pid # 0 /\ Alive /\ term >= Grace               \* SIGKILL
       /\ proc' = "none"
       /\ abrupt' = (abrupt \/ termed < Grace)
       /\ termed' = No
       /\ UNCHANGED <<pid, term, strays>>

Unwanted ==
    /\ known /\ ~Wanted
    /\ RequestStop
    /\ state' = IF state = "invalid" THEN "invalid" ELSE "disabled"
    /\ UNCHANGED <<db, known, present, enabled, startIn, crashes, window, recent, main, waited, req>>

LastExits(s) == SubSeq(s, IF Len(s) > CrashLimit THEN Len(s) - CrashLimit + 1 ELSE 1, Len(s))

\* Mutant: the count is never started anew.
WindowOverNever == FALSE

WindowOver == window > CrashWindow

\* The process is gone: it is restarted later, or given up.  Counts past the
\* limit are alike.
NoticeExit ==
    LET n == IF WindowOver THEN 1 ELSE IF crashes < CrashLimit THEN crashes + 1 ELSE crashes
    IN  /\ Wanted
        /\ pid # 0 /\ ~Alive
        /\ pid' = 0
        /\ window' = IF WindowOver THEN 0 ELSE window
        /\ crashes' = n
        /\ recent' = LastExits(Append(recent, 0))
        /\ IF n >= CrashLimit
           THEN state' = "failed" /\ UNCHANGED startIn
           ELSE state' = "starting" /\ startIn' = n
        /\ UNCHANGED <<db, known, present, enabled, term, procVars, main, waited, req>>

MayStart == pid = 0 /\ state # "failed" /\ startIn = 0

\* spawn(); fork() may fail.
Launch ==
    /\ Wanted
    /\ MayStart
    /\ \/ /\ pid' = 1
          /\ strays' = IF Alive THEN strays + 1 ELSE strays
          /\ proc' = "up"
          /\ termed' = No
          /\ state' = "starting"
       \/ /\ state' = "failed"
          /\ UNCHANGED <<pid, strays, proc, termed>>
    /\ UNCHANGED <<db, known, present, enabled, term, startIn, crashes, window, abrupt, recent,
                   main, waited, req>>

Watch ==
    /\ Wanted
    /\ pid # 0 /\ Alive
    /\ state' = IF proc = "listening" THEN "running" ELSE "starting"
    /\ UNCHANGED <<db, known, present, enabled, pid, term, startIn, crashes, window, procVars,
                   recent, main, waited, req>>

\* Nothing to do: no entry, given up until re-enabled, or not yet the time.
NothingToDo ==
    /\ ~known \/ (Wanted /\ pid = 0 /\ ~MayStart)
    /\ UNCHANGED <<db, entryVars, procVars, recent, main, waited, req>>

\* One turn of the loop, then a sleep of a second.
Reconcile ==
    /\ supervisor = "turn"
    /\ Unlocked
    /\ supervisor' = "sleep"
    /\ Unwanted \/ NoticeExit \/ Launch \/ Watch \/ NothingToDo

\* The loop goes on while g_running.  PR_SET_PDEATHSIG: a process gets SIGTERM
\* when the thread that forked it ends.
Wake ==
    /\ supervisor = "sleep"
    /\ main \in {"up", "join"}
    /\ IF main = "up"
       THEN supervisor' = "turn" /\ UNCHANGED termed
       ELSE /\ supervisor' = "done"
            /\ termed' = IF Alive /\ termed = No THEN 0 ELSE termed
    /\ UNCHANGED <<db, entryVars, proc, strays, abrupt, recent, main, waited, req>>

-----------------------------------------------------------------------------
(* main(): extensions_start(), extensions_stop().                          *)

\* Which ones are enabled is read first; without MongoDB none is.
Start ==
    /\ main = "off"
    /\ main' = "up"
    /\ supervisor' = "turn"
    /\ \E seen \in Dirs, on \in {db, FALSE} :
          IF seen = "absent" THEN NoEntry
          ELSE /\ known' = TRUE
               /\ present' = TRUE
               /\ enabled' = on
               /\ state' = IF seen = "bad" THEN "invalid" ELSE "disabled"
               /\ UNCHANGED <<pid, term, startIn, crashes, window, recent>>
    /\ UNCHANGED <<db, procVars, waited, req>>

Stop ==
    /\ main = "up"
    /\ main' = "join"
    /\ UNCHANGED <<db, entryVars, procVars, recent, waited, supervisor, req>>

\* The supervisor is joined, g_lock taken, SIGTERM sent.
StopTerm ==
    /\ main = "join"
    /\ supervisor = "done"
    /\ main' = "wait"
    /\ termed' = IF pid # 0 /\ Alive /\ termed = No THEN 0 ELSE termed
    /\ UNCHANGED <<db, entryVars, proc, strays, abrupt, recent, waited, supervisor, req>>

\* The process is gone or the grace is over; then the server itself ends, and
\* with it what it had in memory and the requests it was serving.
StopKill ==
    /\ main = "wait"
    /\ pid = 0 \/ ~Alive \/ waited >= Grace
    /\ main' = "off"
    /\ waited' = 0
    /\ proc' = IF pid # 0 THEN "none" ELSE proc
    /\ termed' = IF pid # 0 THEN No ELSE termed
    /\ abrupt' = (abrupt \/ (pid # 0 /\ Alive /\ termed < Grace))
    /\ NoEntry
    /\ req' = [a \in Admins |-> [pc |-> "idle", want |-> FALSE]]
    /\ UNCHANGED <<db, strays, supervisor>>

-----------------------------------------------------------------------------
Init ==
    /\ db = FALSE
    /\ known = FALSE
    /\ present = FALSE
    /\ enabled = FALSE
    /\ state = "disabled"
    /\ pid = 0
    /\ term = No
    /\ startIn = 0
    /\ crashes = 0
    /\ window = CrashWindow + 1
    /\ proc = "none"
    /\ termed = No
    /\ strays = 0
    /\ abrupt = FALSE
    /\ recent = <<>>
    /\ main = "off"
    /\ waited = 0
    /\ supervisor = "done"
    /\ req = [a \in Admins |-> [pc |-> "idle", want |-> FALSE]]

Request(a) == \/ \E want \in BOOLEAN : CheckRequest(a, want)
              \/ StoreRequest(a) \/ ApplyRequest(a)

Stopping == StopTerm \/ StopKill

Next ==
    \/ Listen \/ ProcExit \/ Tick
    \/ Rescan
    \/ \E a \in Admins : Request(a)
    \/ Reconcile \/ Wake
    \/ Start \/ Stop \/ Stopping

Spec == Init /\ [][Next]_vars

(***************************************************************************)
(* Time passes, the supervisor's loop goes on, and so does                 *)
(* extensions_stop().  A process need not listen, exit or obey SIGTERM; no *)
(* admin has to come.                                                      *)
(***************************************************************************)
Fairness ==
    /\ WF_vars(Tick)
    /\ WF_vars(Reconcile) /\ WF_vars(Wake)
    /\ WF_vars(Stopping)

FairSpec == Spec /\ Fairness

-----------------------------------------------------------------------------
TypeOK ==
    /\ db \in BOOLEAN
    /\ known \in BOOLEAN /\ present \in BOOLEAN /\ enabled \in BOOLEAN
    /\ state \in {"disabled", "starting", "running", "failed", "invalid"}
    /\ pid \in {0, 1}
    /\ term \in No..Grace
    /\ startIn \in 0..CrashLimit
    /\ crashes \in 0..CrashLimit
    /\ window \in 0..(CrashWindow + 1)
    /\ proc \in {"none", "up", "listening"}
    /\ termed \in No..Grace
    /\ strays \in Nat
    /\ abrupt \in BOOLEAN
    /\ main \in {"off", "up", "join", "wait"}
    /\ waited \in 0..Grace
    /\ supervisor \in {"turn", "sleep", "done"}
    /\ req \in [Admins -> [pc : {"idle", "store", "apply"}, want : BOOLEAN]]

\* The entry always knows the process: none is ever started beside another
\* that still runs, and none is left behind when the entry goes (a directory
\* that vanishes and comes back, a scan in the middle of a stop, the end of
\* the server).
NoStray == strays = 0 /\ (Alive => known /\ pid # 0)

\* An extension is given up for its exits only after CrashLimit of them
\* within CrashWindow since it was last enabled.
FailedJustified ==
    [][state # "failed" /\ state' = "failed" =>
          \/ pid = 0
          \/ Len(recent') = CrashLimit /\ \A i \in DOMAIN recent' : recent'[i] <= CrashWindow]_vars

\* "until re-enabled": only an admin, or a change of the extension itself,
\* brings back one that failed.
FailedStays ==
    [][main = "up" /\ state = "failed" /\ state' # "failed" =>
          \/ \E a \in Admins : req[a].pc = "apply" /\ req'[a].pc = "idle" /\ req[a].want
          \/ ~enabled \/ ~present
          \/ state' = "invalid" \/ ~known']_vars

\* Both: an extension is marked failed for a reason, and for as long as said.
FailedSound == FailedJustified /\ FailedStays

\* "stops it with SIGTERM (then SIGKILL after 3 s)".
GraceGiven == ~abrupt

\* A process that is no longer wanted is stopped, whether it obeys or not.
StoppedWhenUnwanted == (Alive /\ ~Wanted) ~> (~Alive \/ Wanted)

\* An extension that is wanted gets its process, or is reported failed.
StartedWhenWanted == Wanted ~> (Alive \/ state = "failed" \/ ~Wanted)

\* extensions_stop() returns and leaves no process.
StopEnds == (main = "join") ~> (main = "off" /\ ~Alive)

\* All three: the supervisor brings the process to what is wanted of it,
\* whatever exits, ignored signals, scans and stops come in between.
ExtLive == StoppedWhenUnwanted /\ StartedWhenWanted /\ StopEnds
=============================================================================
