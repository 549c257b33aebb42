------------------------------ MODULE Updates -------------------------------
(***************************************************************************)
(* Updating an installed site: the dashboard's page and its requests       *)
(* (modules/updates_admin/updates_admin.c and the updates routes of        *)
(* http_router.c), and scripts/boat-rudder-update, which the server starts *)
(* as a systemd unit of its own and which an administrator may also run by *)
(* hand.  The two speak through files under .boat-rudder/: request.json,   *)
(* progress.json, VERSION, manifest.sha256 and the backups.                *)
(*                                                                         *)
(* The installed tree is a function from paths to contents.  A release is  *)
(* the tree its signed package ships.  Downloads, signatures, builds and   *)
(* health checks succeed or fail; the updater may be killed between any    *)
(* two steps, and in the middle of copying files.  The tree is edited by   *)
(* hand before the first update only.                                      *)
(***************************************************************************)
EXTENDS Naturals, Sequences, FiniteSets, TLC

CONSTANTS Handlers,      \* requests the server handles at the same time
          Package,       \* the tree each version's official package ships
          Binary,        \* the path of the program itself
          FirstTrees,    \* trees the site may start from
          FirstManifest, \* what its manifest lists: the tree install.sh ran from
          KeepBackups,   \* backups kept, 5 in the script
          MaxRuns,       \* bound on the runs of the updater
          MaxKills       \* bound on the times it is killed

Versions == DOMAIN Package

ASSUME UpdatesAssumption ==
    /\ Versions \subseteq Nat \ {0} /\ 1 \in Versions
    /\ \A v \in Versions : Binary \in DOMAIN Package[v]
    \* a binary is of one version
    /\ \A v, w \in Versions : Package[v][Binary] = Package[w][Binary] => v = w
    \* a site starts from all of version 1, the program as shipped; a file that
    \* differs was edited after install.sh had listed it
    /\ \A t \in FirstTrees : t = [p \in DOMAIN t |-> t[p]]
    /\ \A t \in FirstTrees, p \in DOMAIN Package[1] :
          /\ p \in DOMAIN t
          /\ t[p] = Package[1][p] \/ (p \in DOMAIN FirstManifest \ {Binary} /\ FirstManifest[p] = Package[1][p])
    /\ KeepBackups \in Nat \ {0} /\ MaxRuns \in Nat /\ MaxKills \in Nat

Agents == {"unit", "cli"}
NoRun == [pc |-> "off", action |-> "none", want |-> 0, to |-> 0, bk |-> 0,
          replace |-> {}, add |-> {}, delete |-> {}, unowned |-> {}]
NoAsk == [pc |-> "idle", action |-> "none", version |-> 0]
NoProgress == [state |-> "none", stale |-> FALSE]

VARIABLES
    disk,       \* the installed tree
    manifest,   \* manifest.sha256: path to content
    version,    \* the VERSION file
    served,     \* the version of the server running, 0 while the service is stopped
    backups,    \* the backups, oldest first
    request,    \* request.json, NoAsk when there is none
    progress,   \* progress.json; stale when it has not been written for too long
    ask,        \* what each handler is doing
    run,        \* the updater as the dashboard's unit and as a command
    lock,       \* the holder of update.lock
    cache,      \* the installable releases the server knows
    runs, kills,
    torn,       \* history: a run was killed with half of the files copied
    muddled     \* history: two requests overlapped, or a run outlived its timeout

updVars == <<disk, manifest, version, served, backups, request, progress, ask, run, lock, cache, runs, kills, torn, muddled>>

UpdInit ==
    /\ disk \in FirstTrees /\ manifest = FirstManifest /\ version = 1 /\ served = 1
    /\ backups = <<>> /\ request = NoAsk /\ progress = NoProgress
    /\ ask = [h \in Handlers |-> NoAsk] /\ run = [a \in Agents |-> NoRun] /\ lock = "none"
    /\ cache = {} /\ runs = 0 /\ kills = 0 /\ torn = FALSE /\ muddled = FALSE

----------------------------------------------------------------------------
\* The server.

\* Mutant: the age of the last report is not looked at.
ActiveForever == progress.state \in {"queued", "running"}

\* read_progress(): a run that stopped reporting long ago counts as failed.
Active == progress.state \in {"queued", "running"} /\ ~progress.stale

\* The newest backup without a rolled-back marker, 0 if none.
Unmarked == {i \in DOMAIN backups : ~backups[i].marked}
NewestUnmarked == IF Unmarked = {} THEN 0 ELSE CHOOSE i \in Unmarked : \A j \in Unmarked : j <= i

\* Mutant: the newest backup is offered, whatever it was of.
RollbackTargetAny == NewestUnmarked

\* rollback_target(): that backup, when it is of the update that installed the
\* version running.
RollbackTarget == IF NewestUnmarked # 0 /\ backups[NewestUnmarked].to = served THEN NewestUnmarked ELSE 0

\* refresh_cache(): the releases found installable, none when GitHub does not answer.
Fetched == {{}, Versions}

\* The button, and the page when the last check is an hour old.
Check ==
    /\ served # 0 /\ cache' \in Fetched
    /\ UNCHANGED <<disk, manifest, version, served, backups, request, progress, ask, run, lock, runs, kills, torn, muddled>>

\* updates_admin_request(): the checks, the two files and the launch.
Admissible(action, v) ==
    /\ ~Active
    /\ \/ action = "install" /\ v \in cache /\ v > served
       \/ action = "rollback" /\ v = 0 /\ RollbackTarget # 0

Ask(h, action, v) ==
    /\ served # 0 /\ ask[h].pc = "idle" /\ runs < MaxRuns /\ Admissible(action, v)
    /\ ask' = [ask EXCEPT ![h] = [pc |-> "request", action |-> action, version |-> v]]
    /\ runs' = runs + 1
    /\ muddled' = (muddled \/ (\E g \in Handlers : ask[g].pc # "idle") \/ run["unit"].pc # "off")
    /\ UNCHANGED <<disk, manifest, version, served, backups, request, progress, run, lock, cache, kills, torn>>

WriteRequest(h) ==
    /\ ask[h].pc = "request"
    /\ request' = ask[h]
    /\ ask' = [ask EXCEPT ![h].pc = "progress"]
    /\ UNCHANGED <<disk, manifest, version, served, backups, progress, run, lock, cache, runs, kills, torn, muddled>>

WriteProgress(h) ==
    /\ ask[h].pc = "progress"
    /\ progress' = [state |-> "queued", stale |-> FALSE]
    /\ ask' = [ask EXCEPT ![h].pc = "launch"]
    /\ UNCHANGED <<disk, manifest, version, served, backups, request, run, lock, cache, runs, kills, torn, muddled>>

\* launch_updater(): systemd-run refuses a second unit of the name, or fails.
Launch(h) ==
    /\ ask[h].pc = "launch"
    /\ ask' = [ask EXCEPT ![h] = NoAsk]
    /\ \/ /\ run["unit"].pc = "off"
          /\ run' = [run EXCEPT !["unit"].pc = "launched"]
          /\ UNCHANGED <<request, progress>>
       \/ request' = NoAsk /\ progress' = NoProgress /\ UNCHANGED run
    /\ UNCHANGED <<disk, manifest, version, served, backups, lock, cache, runs, kills, torn, muddled>>

\* Time passes without a report.
Age ==
    /\ Active
    /\ progress' = [progress EXCEPT !.stale = TRUE]
    /\ muddled' = (muddled \/ run["unit"].pc # "off")
    /\ UNCHANGED <<disk, manifest, version, served, backups, request, ask, run, lock, cache, runs, kills, torn>>

----------------------------------------------------------------------------
\* The updater.
Go(a, pc) == run' = [run EXCEPT ![a].pc = pc]
Report(a, state) == progress' = IF a = "unit" THEN [state |-> state, stale |-> FALSE] ELSE progress

\* The run ends and the lock goes with its process.
Leave(a) == run' = [run EXCEPT ![a] = NoRun] /\ lock' = IF lock = a THEN "none" ELSE lock
End(a, state) == Leave(a) /\ Report(a, state)

\* cmd_run_request(): the request is removed before it is carried out.
ReadRequest ==
    /\ run["unit"].pc = "launched"
    /\ request' = NoAsk
    /\ IF request = NoAsk
       THEN run' = [run EXCEPT !["unit"] = NoRun] /\ UNCHANGED progress
       ELSE /\ run' = [run EXCEPT !["unit"] = [NoRun EXCEPT !.pc = "lock", !.action = request.action, !.want = request.version]]
            /\ Report("unit", "running")
    /\ UNCHANGED <<disk, manifest, version, served, backups, ask, lock, cache, runs, kills, torn, muddled>>

Command(action, v) ==
    /\ run["cli"].pc = "off" /\ runs < MaxRuns
    /\ action = "rollback" <=> v = 0
    /\ run' = [run EXCEPT !["cli"] = [NoRun EXCEPT !.pc = "lock", !.action = action, !.want = v]]
    /\ runs' = runs + 1
    /\ UNCHANGED <<disk, manifest, version, served, backups, request, progress, ask, lock, cache, kills, torn, muddled>>

\* flock -n
LockFree == lock = "none"

TakeLock(a) ==
    /\ run[a].pc = "lock"
    /\ \/ /\ LockFree /\ run[a].action = "install"
          /\ lock' = a /\ Go(a, "package") /\ Report(a, "running")
       \/ /\ LockFree /\ run[a].action = "rollback" /\ NewestUnmarked # 0
          /\ lock' = a /\ run' = [run EXCEPT ![a].pc = "stop", ![a].bk = NewestUnmarked] /\ Report(a, "running")
       \/ /\ ~LockFree \/ (run[a].action = "rollback" /\ NewestUnmarked = 0)
          /\ End(a, "failed")
    /\ UNCHANGED <<disk, manifest, version, served, backups, request, ask, cache, runs, kills, torn, muddled>>

\* Package and Build: fetched, verified, newer than the installed one, compiled;
\* or the run dies there.
Prepare(a) ==
    /\ run[a].pc = "package"
    /\ \/ /\ run[a].want > version
          /\ run' = [run EXCEPT ![a].pc = "plan", ![a].to = run[a].want] /\ UNCHANGED lock
          /\ Report(a, "running")
       \/ End(a, "failed")
    /\ UNCHANGED <<disk, manifest, version, served, backups, request, ask, cache, runs, kills, torn, muddled>>

\* make_plan()
Has(p) == p \in DOMAIN disk
Replaced(new) ==
    {p \in DOMAIN new \cap DOMAIN manifest : Has(p) /\ disk[p] # new[p] /\ (manifest[p] # new[p] \/ p = Binary)}
Added(new) == {p \in DOMAIN new : p \in DOMAIN manifest => ~Has(p)}
Unowned(new) == {p \in DOMAIN new \ DOMAIN manifest : Has(p)}
Dropped(new) == {p \in DOMAIN manifest \ DOMAIN new : Has(p)}

\* Mutant: what the manifest names is deleted without asking the package.
ConfirmedAll(dropped) == {dropped}

\* confirm_deletions(): only what the installed version's package shipped, and
\* nothing when that package cannot be had.
Confirmed(dropped) == {dropped \cap DOMAIN Package[version], {}}

Plan(a) ==
    LET new == Package[run[a].to] IN
    /\ run[a].pc = "plan"
    /\ \E gone \in Confirmed(Dropped(new)) :
         run' = [run EXCEPT ![a].pc = "backup", ![a].replace = Replaced(new), ![a].add = Added(new),
                            ![a].unowned = Unowned(new), ![a].delete = gone]
    /\ Report(a, "running")
    /\ UNCHANGED <<disk, manifest, version, served, backups, request, ask, lock, cache, runs, kills, torn, muddled>>

\* Mutant: files of the site that the release writes over are not saved.
SavedReplaced(r) == r.replace \cup r.delete

\* make_backup(): what the update is about to replace or delete, and the paths it
\* adds.  A run that dies here, or is killed, leaves the directory behind.
Saved(r) == r.replace \cup r.delete \cup r.unowned
BackupOf(r, whole) ==
    [from |-> version, to |-> r.to, marked |-> FALSE, complete |-> whole,
     files |-> [p \in Saved(r) |-> disk[p]], added |-> r.add \ r.unowned, manifest |-> manifest, before |-> disk]

Backup(a) ==
    /\ run[a].pc = "backup"
    /\ \/ /\ backups' = Append(backups, BackupOf(run[a], TRUE))
          /\ run' = [run EXCEPT ![a].pc = "stop", ![a].bk = Len(backups) + 1]
          /\ Report(a, "running") /\ UNCHANGED lock
       \/ /\ backups' = Append(backups, BackupOf(run[a], FALSE))
          /\ End(a, "failed")
    /\ UNCHANGED <<disk, manifest, version, served, request, ask, cache, runs, kills, torn, muddled>>

\* The service stops, and with it the requests it was handling.
Stop(a) ==
    /\ run[a].pc = "stop"
    /\ served' = 0 /\ ask' = [h \in Handlers |-> NoAsk]
    /\ Go(a, IF run[a].action = "install" THEN "apply" ELSE "restore")
    /\ UNCHANGED <<disk, manifest, version, backups, request, progress, lock, cache, runs, kills, torn, muddled>>

\* apply_files(), of which the paths in done were reached.
Applied(r, done) ==
    LET new == Package[r.to]
        put == (r.replace \cup r.add) \cap done IN
    [p \in (DOMAIN disk \cup put) \ (r.delete \cap done) |-> IF p \in put THEN new[p] ELSE disk[p]]

Apply(a) ==
    LET r == run[a]
        all == r.replace \cup r.add \cup r.delete IN
    /\ r.pc = "apply"
    /\ \/ /\ disk' = Applied(r, all) /\ manifest' = Package[r.to] /\ version' = r.to
          /\ Go(a, "start")
       \/ /\ \E done \in SUBSET all : disk' = Applied(r, done)
          /\ Go(a, "undo") /\ UNCHANGED <<manifest, version>>
    /\ UNCHANGED <<served, backups, request, progress, ask, lock, cache, runs, kills, torn, muddled>>

\* Starting the service runs the binary on disk.
BinaryVersion == CHOOSE v \in Versions : Package[v][Binary] = disk[Binary]

Begin(a) ==
    /\ run[a].pc \in {"start", "start old"}
    /\ served' = BinaryVersion
    /\ Go(a, IF run[a].pc = "start" THEN "health" ELSE "health old")
    /\ UNCHANGED <<disk, manifest, version, backups, request, progress, ask, lock, cache, runs, kills, torn, muddled>>

\* prune_backups()
Pruned == IF Len(backups) > KeepBackups THEN SubSeq(backups, Len(backups) - KeepBackups + 1, Len(backups)) ELSE backups

Health(a) ==
    /\ run[a].pc = "health"
    /\ \/ backups' = Pruned /\ End(a, "done")
       \/ Go(a, "undo") /\ UNCHANGED <<backups, lock, progress>>
    /\ UNCHANGED <<disk, manifest, version, served, request, ask, cache, runs, kills, torn, muddled>>

\* Rolling back: the service is stopped again.
Undo(a) ==
    /\ run[a].pc = "undo"
    /\ served' = 0 /\ ask' = [h \in Handlers |-> NoAsk]
    /\ Go(a, "restore") /\ Report(a, "running")
    /\ UNCHANGED <<disk, manifest, version, backups, request, lock, cache, runs, kills, torn, muddled>>

\* restore_backup(), of which the paths in done were reached.
RestoredTree(b, done) ==
    LET back == DOMAIN b.files \cap done IN
    [p \in (DOMAIN disk \ (b.added \cap done)) \cup back |-> IF p \in back THEN b.files[p] ELSE disk[p]]
Touched(b) == DOMAIN b.files \cup b.added

Restore(a) ==
    LET b == backups[run[a].bk] IN
    /\ run[a].pc = "restore"
    /\ disk' = RestoredTree(b, Touched(b)) /\ manifest' = b.manifest /\ version' = b.from
    /\ Go(a, "mark")
    /\ UNCHANGED <<served, backups, request, progress, ask, lock, cache, runs, kills, torn, muddled>>

\* touch rolled-back
Mark(a) ==
    /\ run[a].pc = "mark"
    /\ backups' = [backups EXCEPT ![run[a].bk].marked = TRUE]
    /\ Go(a, "start old")
    /\ UNCHANGED <<disk, manifest, version, served, request, progress, ask, lock, cache, runs, kills, torn, muddled>>

HealthOld(a) ==
    /\ run[a].pc = "health old"
    /\ \/ End(a, IF run[a].action = "install" THEN "rolled-back" ELSE "done")
       \/ End(a, "failed")
    /\ UNCHANGED <<disk, manifest, version, served, backups, request, ask, cache, runs, kills, torn, muddled>>

\* The updater is killed: by a signal on_exit() still reports, or by one it cannot.
Kill(a) ==
    LET r == run[a] IN
    /\ r.pc # "off" /\ kills < MaxKills
    /\ kills' = kills + 1
    /\ Leave(a)
    /\ UNCHANGED progress \/ (r.action # "none" /\ Report(a, "failed"))
    /\ \/ /\ r.pc = "restore"
          /\ \E done \in SUBSET Touched(backups[r.bk]) : disk' = RestoredTree(backups[r.bk], done)
       \/ UNCHANGED disk
    /\ torn' = (torn \/ r.pc \in {"apply", "start", "undo", "restore", "mark", "start old"})
    /\ UNCHANGED <<manifest, version, served, backups, request, ask, cache, runs, muddled>>

----------------------------------------------------------------------------
RunStep(a) ==
    \/ TakeLock(a) \/ Prepare(a) \/ Plan(a) \/ Backup(a) \/ Stop(a) \/ Apply(a) \/ Begin(a)
    \/ Health(a) \/ Undo(a) \/ Restore(a) \/ Mark(a) \/ HealthOld(a)

UpdNext ==
    \/ Check \/ Age \/ ReadRequest
    \/ \E h \in Handlers :
        \/ \E action \in {"install", "rollback"}, v \in Versions \cup {0} : Ask(h, action, v)
        \/ WriteRequest(h) \/ WriteProgress(h) \/ Launch(h)
    \/ \E action \in {"install", "rollback"}, v \in Versions \cup {0} : Command(action, v)
    \/ \E a \in Agents : RunStep(a) \/ Kill(a)

UpdSpec == UpdInit /\ [][UpdNext]_updVars

\* The updater's steps go on by themselves, and so does the clock.
UpdFairness ==
    /\ WF_updVars(Age) /\ WF_updVars(ReadRequest) /\ \A a \in Agents : WF_updVars(RunStep(a))
    /\ \A h \in Handlers : WF_updVars(WriteRequest(h) \/ WriteProgress(h) \/ Launch(h))

UpdFairSpec == UpdSpec /\ UpdFairness

----------------------------------------------------------------------------
\* Every variable holds what its file or process can hold; only a live service
\* handles requests, and a run past its lock holds it.
UpdTypeOK ==
    /\ version \in Versions /\ served \in Versions \cup {0} /\ cache \subseteq Versions
    /\ lock \in Agents \cup {"none"}
    /\ \A h \in Handlers : ask[h].pc # "idle" => served # 0
    /\ \A a \in Agents : run[a].pc \notin {"off", "launched", "lock"} => lock = a
    /\ progress.state \in {"none", "queued", "running", "done", "failed", "rolled-back"}
    /\ runs \in 0..MaxRuns /\ kills \in 0..MaxKills

\* A site that is up runs the version its VERSION and manifest name, with every
\* file that version ships: from the package, or edited by hand and left alone
\* because the version does not change it.  So a half-applied update is never
\* served, whatever failed.
Coherent ==
    served # 0 /\ ~torn =>
        /\ served = version /\ manifest \in {FirstManifest, Package[version]}
        /\ \A p \in DOMAIN Package[version] :
              \/ p \in DOMAIN disk /\ disk[p] = Package[version][p]
              \/ /\ p \in DOMAIN FirstManifest \ {Binary} /\ Package[version][p] = FirstManifest[p]
                 /\ \E t \in FirstTrees : p \in DOMAIN t /\ p \in DOMAIN disk /\ disk[p] = t[p]

\* Everything a rollback needs was saved before anything was touched: from any
\* point of an update on, killed in the middle or not, restoring the newest backup
\* gives back the tree as it was.
Undoable ==
    NewestUnmarked # 0 =>
        LET b == backups[NewestUnmarked] IN b.complete => RestoredTree(b, Touched(b)) = b.before

\* The rollback the dashboard offers, outside a run, leads from the version served to
\* an older one, from a backup that is whole.
OfferReal ==
    served # 0 /\ lock = "none" /\ ~torn /\ RollbackTarget # 0 =>
        LET b == backups[RollbackTarget] IN b.complete /\ b.from < served

\* Files no release ships are the site's own and are never deleted or replaced.
SiteFilesKept ==
    [][\A p \in DOMAIN disk : (\A v \in Versions : p \notin DOMAIN Package[v]) =>
          p \in DOMAIN disk' /\ disk'[p] = disk[p]]_updVars

\* While the dashboard's run is under way the page shows it, unless requests
\* overlapped or the run outlived its timeout.
RunShown == run["unit"].action # "none" /\ ~muddled => Active

\* The site's files at every point of an update, killed or not: coherent while
\* served, and never past undoing.
UpdatesInv == UpdTypeOK /\ Coherent /\ Undoable

\* What the updates page shows and offers is so.
PageInv == OfferReal /\ RunShown

\* A run never blocks the page for ever: one that was killed times out.
RunEnds == Active ~> ~Active
=============================================================================
