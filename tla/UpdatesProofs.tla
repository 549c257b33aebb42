---------------------------- MODULE UpdatesProofs ----------------------------
(***************************************************************************)
(* Proofs about the two parts that change trees of files on the disk.  The *)
(* updater (module Updates): what it serves is coherent, what it did can   *)
(* be undone, it never touches the site's own files, and the page shows    *)
(* and offers what is so.  The media library (module Media): an author's   *)
(* request changes nobody else's directories, pictures or files, and what  *)
(* the collections list is what is on disk.                                *)
(***************************************************************************)
EXTENDS Updates, Media, FiniteSetTheorems, SequenceTheorems, WellFoundedInduction, TLAPS

-----------------------------------------------------------------------------
(* What the variables hold.                                                *)

Shipped == UNION {DOMAIN Package[v] : v \in Versions}
Paths == Shipped \cup (UNION {DOMAIN t : t \in FirstTrees})
Contents ==
    (UNION {{Package[v][p] : p \in DOMAIN Package[v]} : v \in Versions})
    \cup (UNION {{t[p] : p \in DOMAIN t} : t \in FirstTrees})
Trees == UNION {[S -> Contents] : S \in SUBSET Paths}
Manifests == {FirstManifest} \cup {Package[v] : v \in Versions}
NoVersion == Versions \cup {0}
Actions == {"none", "install", "rollback"}

Asks == [pc : {"idle", "request", "progress", "launch"}, action : Actions, version : NoVersion]
Reports == [state : {"none", "queued", "running", "done", "failed", "rolled-back"}, stale : BOOLEAN]
Steps == {"off", "launched", "lock", "package", "plan", "backup", "stop", "apply", "start", "health",
          "undo", "restore", "mark", "start old", "health old"}
Runs == [pc : Steps, action : Actions, want : NoVersion, to : NoVersion, bk : Nat,
         replace : SUBSET Shipped, add : SUBSET Shipped, delete : SUBSET Shipped, unowned : SUBSET Shipped]
Backups == [from : Versions, to : Versions, marked : BOOLEAN, complete : BOOLEAN,
            files : Trees, added : SUBSET Shipped, manifest : Manifests, before : Trees]

FileType ==
    /\ disk \in Trees /\ manifest \in Manifests /\ version \in Versions /\ served \in NoVersion
    /\ backups \in Seq(Backups) /\ lock \in Agents \cup {"none"} /\ run \in [Agents -> Runs] /\ torn \in BOOLEAN

PageType ==
    /\ request \in Asks /\ progress \in Reports /\ ask \in [Handlers -> Asks] /\ cache \subseteq Versions
    /\ runs \in 0 .. MaxRuns /\ kills \in 0 .. MaxKills /\ muddled \in BOOLEAN

-----------------------------------------------------------------------------
(* The files.                                                              *)

\* The tree and the version its VERSION and manifest name: the first ones, or
\* those of a release installed over them.
FilesOK(t, v) ==
    \A p \in DOMAIN Package[v] :
        \/ p \in DOMAIN t /\ t[p] = Package[v][p]
        \/ /\ p \in DOMAIN FirstManifest \ {Binary} /\ Package[v][p] = FirstManifest[p]
           /\ \E f \in FirstTrees : p \in DOMAIN f /\ p \in DOMAIN t /\ t[p] = f[p]

StateOK(t, m, v) ==
    \/ v = 1 /\ m = FirstManifest /\ t \in FirstTrees
    \/ v # 1 /\ m = Package[v] /\ FilesOK(t, v)

\* The binary of a tree is that of a release.
BinaryOK(t) == Binary \in DOMAIN t /\ \E v \in Versions : t[Binary] = Package[v][Binary]

\* A backup has, of the tree as it was, what its update touches.
BackupOK(b) ==
    /\ b.from < b.to /\ BinaryOK(b.before)
    /\ DOMAIN b.files \subseteq DOMAIN b.before
    /\ \A p \in DOMAIN b.files : b.files[p] = b.before[p]
    /\ b.added \cap DOMAIN b.before = {}
    /\ Touched(b) \subseteq Shipped

\* The tree t of version v may be what followed the backup b: they differ where
\* the update touches, and only a whole backup was followed by its update.
Follows(t, v, b) ==
    /\ DOMAIN t \ Touched(b) = DOMAIN b.before \ Touched(b)
    /\ \A p \in DOMAIN t \ Touched(b) : t[p] = b.before[p]
    /\ v = b.from \/ (v = b.to /\ b.complete)

Newest(i) == i \in Unmarked /\ \A j \in Unmarked : j <= i

\* The disk follows the newest backup, and the tree a backup was made of follows
\* the one before.
ChainOK ==
    /\ \A i \in Unmarked : Newest(i) => Follows(disk, version, backups[i])
    /\ \A i, j \in Unmarked :
          i < j /\ (\A k \in Unmarked : k <= i \/ j <= k)
            => Follows(backups[j].before, backups[j].from, backups[i])

\* While a run that is to touch the files holds the lock, its plan is of the files
\* as they are.
PlanOK(r) ==
    LET new == Package[r.to] IN
    /\ r.to # 0 /\ version < r.to
    /\ r.replace = Replaced(new) /\ r.add = Added(new) /\ r.unowned = Unowned(new)
    /\ r.delete \subseteq Dropped(new) \cap DOMAIN Package[version]

\* The backup of the update about to be applied.
OwnBackup(r) ==
    LET b == backups[r.bk] IN
    b.complete /\ b.to = r.to /\ b.from = version /\ r.replace \cup r.add \cup r.delete \subseteq Touched(b)

RunOK(a) ==
    LET r == run[a] IN
    /\ r.pc \notin {"off", "launched", "lock"} => lock = a
    /\ r.pc = "plan" => r.to # 0 /\ version < r.to
    /\ r.pc \in {"backup", "apply"} \/ (r.pc = "stop" /\ r.action = "install") => PlanOK(r)
    /\ r.pc = "apply" \/ (r.pc = "stop" /\ r.action = "install") => OwnBackup(r)
    /\ r.pc \in {"stop", "apply", "start", "health", "undo", "restore", "mark"} => Newest(r.bk)
    /\ r.pc \in {"apply", "start", "restore", "mark", "start old"} => served = 0
    /\ r.pc = "mark" => disk = backups[r.bk].before /\ version = backups[r.bk].from

\* Without a kill in the middle of the files, they are whole whenever the service
\* is up, and whenever no run is putting them back.
WholeOK ==
    ~torn =>
        /\ \A i \in DOMAIN backups : StateOK(backups[i].before, backups[i].manifest, backups[i].from)
        /\ served # 0 \/ (\A a \in Agents : run[a].pc \notin {"undo", "restore"}) => StateOK(disk, manifest, version)
        /\ served # 0 => served = version

FilesInv ==
    /\ FileType /\ BinaryOK(disk) /\ (\A i \in DOMAIN backups : BackupOK(backups[i]))
    /\ ChainOK /\ (\A a \in Agents : RunOK(a)) /\ WholeOK

-----------------------------------------------------------------------------
(* The page.                                                               *)

\* Only a live service handles requests.  Unless requests overlapped, one is
\* handled at a time, none while the unit runs; and then a run under way shows.
UnitOK ==
    /\ \A h \in Handlers : ask[h].pc # "idle" => served # 0
    /\ run["unit"].pc \in {"off", "launched"} => run["unit"].action = "none"
    /\ ~muddled =>
          /\ \A h \in Handlers : ask[h].pc # "idle" =>
                run["unit"].pc = "off" /\ \A g \in Handlers : g # h => ask[g].pc = "idle"
          /\ run["unit"].action # "none" => Active

UpdIInv == FilesInv /\ PageType /\ UnitOK

-----------------------------------------------------------------------------
(* Steps of a run.                                                         *)

Others(a) == \A b \in Agents : b # a => run'[b] = run[b]
Waiting(r) == r.pc \in {"off", "launched", "lock"}

LEMMA GoMoves ==
  ASSUME FileType, NEW a \in Agents, NEW pc \in Steps, Go(a, pc)
  PROVE  /\ run' \in [Agents -> Runs] /\ Others(a) /\ run'[a].pc = pc
         /\ run'[a].action = run[a].action /\ run'[a].want = run[a].want /\ run'[a].to = run[a].to
         /\ run'[a].bk = run[a].bk /\ run'[a].replace = run[a].replace /\ run'[a].add = run[a].add
         /\ run'[a].delete = run[a].delete /\ run'[a].unowned = run[a].unowned
  <1>1. run \in [Agents -> Runs] /\ run' = [run EXCEPT ![a].pc = pc]
    BY DEF FileType, Go
  <1> QED
    BY <1>1 DEF Runs, Others

LEMMA NoRunOK == NoRun \in Runs /\ NoRun.pc = "off" /\ NoRun.action = "none"
  BY DEF NoRun, Runs, Steps, Actions, NoVersion

LEMMA LeaveMoves ==
  ASSUME FileType, NEW a \in Agents, Leave(a)
  PROVE  /\ run' \in [Agents -> Runs] /\ Others(a) /\ run'[a] = NoRun /\ Waiting(run'[a])
         /\ lock' \in Agents \cup {"none"} /\ \A b \in Agents : b # a /\ lock = b => lock' = b
  <1>1. /\ run \in [Agents -> Runs] /\ run' = [run EXCEPT ![a] = NoRun]
        /\ lock \in Agents \cup {"none"}
        /\ lock' = IF lock = a THEN "none" ELSE lock
    BY DEF FileType, Leave
  <1> QED
    BY <1>1, NoRunOK DEF Others, Waiting

\* A run that waits for the lock holds nothing of the files.
LEMMA WaitingOK ==
  ASSUME NEW a \in Agents, Waiting(run'[a])
  PROVE  RunOK(a)'
  BY DEF RunOK, Waiting

\* A run that holds the lock is the only one that does not wait.
LEMMA HolderAlone ==
  ASSUME FilesInv, NEW a \in Agents, lock \in {a, "none"}, NEW b \in Agents, b # a
  PROVE  Waiting(run[b])
  <1>1. RunOK(b)
    BY DEF FilesInv
  <1>2. lock # b
    BY DEF Agents
  <1> QED
    BY <1>1, <1>2 DEF RunOK, Waiting

LEMMA RunsOfHolder ==
  ASSUME FilesInv, NEW a \in Agents, lock \in {a, "none"}, Others(a), RunOK(a)'
  PROVE  \A b \in Agents : RunOK(b)'
  <1>1. ASSUME NEW b \in Agents, b # a PROVE RunOK(b)'
    BY <1>1, HolderAlone, WaitingOK DEF Others
  <1> QED
    BY <1>1

fileVars == <<disk, manifest, version, served, backups, torn>>

\* A step of a run that leaves the files alone.
LEMMA RunKept ==
  ASSUME NEW b \in Agents, RunOK(b), run'[b] = run[b], lock = b => lock' = b, UNCHANGED fileVars
  PROVE  RunOK(b)'
  <1>1. disk' = disk /\ manifest' = manifest /\ version' = version /\ served' = served /\ backups' = backups
    BY DEF fileVars
  <1>2. CASE Waiting(run[b])
    BY <1>2, WaitingOK
  <1>3. CASE ~Waiting(run[b])
    <2>1. lock' = b
      BY <1>3 DEF RunOK, Waiting
    <2>2. \A i : Newest(i)' <=> Newest(i)
      BY <1>1 DEF Newest, Unmarked
    <2>3. PlanOK(run[b]) => PlanOK(run[b])'
      BY <1>1 DEF PlanOK, Replaced, Added, Unowned, Dropped, Has
    <2>4. OwnBackup(run[b]) => OwnBackup(run[b])'
      BY <1>1 DEF OwnBackup, Touched
    <2>5. /\ run[b].pc = "plan" => run[b].to # 0 /\ version < run[b].to
          /\ run[b].pc \in {"backup", "apply"} \/ (run[b].pc = "stop" /\ run[b].action = "install") => PlanOK(run[b])
          /\ run[b].pc = "apply" \/ (run[b].pc = "stop" /\ run[b].action = "install") => OwnBackup(run[b])
          /\ run[b].pc \in {"stop", "apply", "start", "health", "undo", "restore", "mark"} => Newest(run[b].bk)
          /\ run[b].pc \in {"apply", "start", "restore", "mark", "start old"} => served = 0
          /\ run[b].pc = "mark" => disk = backups[run[b].bk].before /\ version = backups[run[b].bk].from
      BY DEF RunOK
    <2> QED
      BY <2>1, <2>2, <2>3, <2>4, <2>5, <1>1 DEF RunOK
  <1> QED
    BY <1>2, <1>3

LEMMA FilesKept ==
  ASSUME FilesInv, UNCHANGED fileVars, run' \in [Agents -> Runs], lock' \in Agents \cup {"none"},
         \A b \in Agents : RunOK(b)',
         \A b \in Agents : run[b].pc \in {"undo", "restore"} => run'[b].pc \in {"undo", "restore"}
  PROVE  FilesInv'
  <1>1. disk' = disk /\ manifest' = manifest /\ version' = version /\ served' = served /\ backups' = backups /\ torn' = torn
    BY DEF fileVars
  <1>2. FileType'
    BY <1>1 DEF FilesInv, FileType
  <1>3. BinaryOK(disk)' /\ (\A i \in DOMAIN backups : BackupOK(backups[i]))'
    BY <1>1 DEF FilesInv, BinaryOK, BackupOK, Touched
  <1>4. ChainOK'
    BY <1>1 DEF FilesInv, ChainOK, Newest, Unmarked, Follows, Touched
  <1>5. WholeOK'
    <2>1. (\A a \in Agents : run'[a].pc \notin {"undo", "restore"}) => (\A a \in Agents : run[a].pc \notin {"undo", "restore"})
      OBVIOUS
    <2> QED
      BY <1>1, <2>1 DEF FilesInv, WholeOK
  <1> QED
    BY <1>2, <1>3, <1>4, <1>5 DEF FilesInv

\* The same, for a run that waits before and after.
LEMMA FilesQuiet ==
  ASSUME FilesInv, UNCHANGED fileVars, NEW a \in Agents, run' \in [Agents -> Runs], lock' \in Agents \cup {"none"},
         Others(a), Waiting(run'[a]), run[a].pc \notin {"undo", "restore"},
         \A b \in Agents : b # a /\ lock = b => lock' = b
  PROVE  FilesInv'
  <1>1. ASSUME NEW b \in Agents PROVE RunOK(b)'
    <2>1. CASE b = a
      BY <2>1, WaitingOK
    <2>2. CASE b # a
      BY <2>2, RunKept DEF Others, FilesInv
    <2> QED
      BY <2>1, <2>2
  <1>2. ASSUME NEW b \in Agents, run[b].pc \in {"undo", "restore"} PROVE run'[b].pc \in {"undo", "restore"}
    BY <1>2 DEF Others
  <1> QED
    BY <1>1, <1>2, FilesKept

-----------------------------------------------------------------------------
(* The newest backup.                                                      *)

\* A set of numbers that is not empty has a least.
LEMMA LeastExists ==
  ASSUME NEW S \in SUBSET Nat, S # {}
  PROVE  \E m \in S : \A k \in S : m <= k
  <1> DEFINE R == OpToRel(<, Nat)
  <1>1. IsWellFoundedOn(R, Nat)
    BY NatLessThanWellFounded
  <1>2. PICK m \in S : \A k \in S : <<k, m>> \notin R
    <2> HIDE DEF R
    <2> QED
      BY <1>1, WFMin
  <1>3. ASSUME NEW k \in S PROVE m <= k
    <2>1. ~(k < m)
      BY <1>2 DEF OpToRel
    <2> QED
      BY <2>1
  <1> QED
    BY <1>3

\* And a greatest, if it is bounded.
LEMMA GreatestExists ==
  ASSUME NEW n \in Nat, NEW S \in SUBSET (1 .. n), S # {}
  PROVE  \E m \in S : \A k \in S : k <= m
  <1> DEFINE T == {i \in 0 .. n : n - i \in S}
  <1>1. T \in SUBSET Nat /\ T # {}
    <2>1. PICK k \in S : TRUE
      OBVIOUS
    <2>2. n - k \in 0 .. n /\ n - (n - k) = k
      OBVIOUS
    <2>3. n - k \in T
      BY <2>2
    <2>4. \A i \in T : i \in Nat
      OBVIOUS
    <2> HIDE DEF T
    <2> QED
      BY <2>3, <2>4
  <1>2. PICK i \in T : \A j \in T : i <= j
    <2> HIDE DEF T
    <2> QED
      BY <1>1, LeastExists
  <1>3. ASSUME NEW k \in S PROVE k <= n - i
    <2>1. n - k \in 0 .. n /\ n - (n - k) = k
      OBVIOUS
    <2>2. n - k \in T
      BY <2>1
    <2>3. i <= n - k
      BY <1>2, <2>2
    <2> QED
      BY <2>3
  <1>4. n - i \in S
    OBVIOUS
  <1> QED
    BY <1>3, <1>4

LEMMA NewestIs ==
  ASSUME FileType
  PROVE  /\ Unmarked \subseteq DOMAIN backups /\ DOMAIN backups = 1 .. Len(backups) /\ Len(backups) \in Nat
         /\ NewestUnmarked # 0 => Newest(NewestUnmarked)
         /\ \A i : Newest(i) => i = NewestUnmarked /\ i \in DOMAIN backups /\ i \in Nat
  <1>1. Unmarked \subseteq DOMAIN backups /\ DOMAIN backups = 1 .. Len(backups) /\ Len(backups) \in Nat
    BY DEF Unmarked, FileType
  <1>2. ASSUME Unmarked # {} PROVE Newest(NewestUnmarked)
    <2>1. \E i \in Unmarked : \A j \in Unmarked : j <= i
      BY <1>1, <1>2, GreatestExists
    <2>2. NewestUnmarked = CHOOSE i \in Unmarked : \A j \in Unmarked : j <= i
      BY <1>2 DEF NewestUnmarked
    <2> QED
      BY <2>1, <2>2 DEF Newest
  <1>3. NewestUnmarked # 0 => Newest(NewestUnmarked)
    BY <1>2 DEF NewestUnmarked
  <1>4. ASSUME NEW i, Newest(i) PROVE i = NewestUnmarked /\ i \in DOMAIN backups /\ i \in Nat
    <2>1. Newest(NewestUnmarked)
      BY <1>2, <1>4 DEF Newest
    <2>2. i \in Unmarked /\ NewestUnmarked \in Unmarked /\ i <= NewestUnmarked /\ NewestUnmarked <= i
      BY <1>4, <2>1 DEF Newest
    <2> QED
      BY <1>1, <2>2
  <1> QED
    BY <1>1, <1>3, <1>4

-----------------------------------------------------------------------------
(* Trees.                                                                  *)

LEMMA TreeParts ==
  ASSUME NEW t \in Trees
  PROVE  DOMAIN t \subseteq Paths /\ t \in [DOMAIN t -> Contents]
  BY DEF Trees

LEMMA PackageParts ==
  ASSUME NEW v \in Versions
  PROVE  /\ DOMAIN Package[v] \subseteq Shipped /\ Binary \in DOMAIN Package[v]
         /\ \A p \in DOMAIN Package[v] : Package[v][p] \in Contents
         /\ Package[v] \in Manifests /\ v \in Nat /\ v # 0
  <1>1. Binary \in DOMAIN Package[v] /\ v \in Nat /\ v # 0
    BY UpdatesAssumption
  <1>2. DOMAIN Package[v] \subseteq Shipped /\ Package[v] \in Manifests
    BY DEF Shipped, Manifests
  <1>3. \A p \in DOMAIN Package[v] : Package[v][p] \in Contents
    BY DEF Contents
  <1> QED
    BY <1>1, <1>2, <1>3

\* Restoring a backup gives back the tree as it was.
LEMMA RestoredIs ==
  ASSUME NEW b \in Backups, BackupOK(b), NEW v, Follows(disk, v, b)
  PROVE  RestoredTree(b, Touched(b)) = b.before
  <1>1. b.before \in [DOMAIN b.before -> Contents]
    BY TreeParts DEF Backups
  <1> DEFINE T == RestoredTree(b, Touched(b))
             D == (DOMAIN disk \ (b.added \cap Touched(b))) \cup (DOMAIN b.files \cap Touched(b))
  <1>2. T = [p \in D |-> IF p \in DOMAIN b.files \cap Touched(b) THEN b.files[p] ELSE disk[p]]
    BY DEF RestoredTree
  <1>3. D = DOMAIN b.before
    BY DEF Follows, BackupOK, Touched
  <1>4. ASSUME NEW p \in D PROVE T[p] = b.before[p]
    <2>1. CASE p \in DOMAIN b.files
      BY <1>2, <2>1 DEF BackupOK, Touched
    <2>2. CASE p \notin DOMAIN b.files
      <3>1. p \in DOMAIN disk \ Touched(b)
        BY <2>2, <1>3 DEF Touched, BackupOK
      <3>2. T[p] = disk[p]
        BY <1>2, <2>2
      <3> QED
        BY <3>1, <3>2 DEF Follows
    <2> QED
      BY <2>1, <2>2
  <1> HIDE DEF T, D
  <1>5. T \in [D -> Contents]
    BY <1>1, <1>2, <1>3, <1>4
  <1>6. T = b.before
    BY <1>1, <1>3, <1>4, <1>5
  <1> QED
    BY <1>6 DEF T

\* A tree that differs from the disk only where b's update touches, having there
\* contents of releases or of before.
LEMMA TouchedOnly ==
  ASSUME NEW b \in Backups, NEW v, Follows(disk, v, b), NEW t,
         DOMAIN t \ Touched(b) = DOMAIN disk \ Touched(b),
         \A p \in DOMAIN t \ Touched(b) : t[p] = disk[p]
  PROVE  Follows(t, v, b)
  <1>1. /\ DOMAIN disk \ Touched(b) = DOMAIN b.before \ Touched(b)
        /\ \A p \in DOMAIN disk \ Touched(b) : disk[p] = b.before[p]
        /\ v = b.from \/ (v = b.to /\ b.complete)
    BY DEF Follows
  <1>2. DOMAIN t \ Touched(b) = DOMAIN b.before \ Touched(b)
    BY <1>1
  <1>3. \A p \in DOMAIN t \ Touched(b) : t[p] = b.before[p]
    <2> SUFFICES ASSUME NEW p \in DOMAIN t \ Touched(b) PROVE t[p] = b.before[p]
      OBVIOUS
    <2>1. p \in DOMAIN disk \ Touched(b)
      OBVIOUS
    <2> QED
      BY <2>1, <1>1
  <1> QED
    BY <1>1, <1>2, <1>3 DEF Follows

\* What a run of restore_backup() leaves, however far it went.
LEMMA RestoredPartly ==
  ASSUME NEW b \in Backups, BackupOK(b), disk \in Trees, BinaryOK(disk), NEW done \in SUBSET Touched(b)
  PROVE  LET t == RestoredTree(b, done) IN
         /\ t \in Trees /\ BinaryOK(t)
         /\ \A v : Follows(disk, v, b) => Follows(t, v, b)
         /\ \A p \in DOMAIN disk \ Shipped : p \in DOMAIN t /\ t[p] = disk[p]
  <1> DEFINE t == RestoredTree(b, done)
             back == DOMAIN b.files \cap done
             D == (DOMAIN disk \ (b.added \cap done)) \cup back
  <1>1. t = [p \in D |-> IF p \in back THEN b.files[p] ELSE disk[p]]
    BY DEF RestoredTree
  <1>2. /\ DOMAIN disk \subseteq Paths /\ disk \in [DOMAIN disk -> Contents]
        /\ DOMAIN b.files \subseteq Paths /\ b.files \in [DOMAIN b.files -> Contents]
    BY TreeParts DEF Backups
  <1>3. t \in Trees
    <2>1. D \in SUBSET Paths
      BY <1>2
    <2>2. t \in [D -> Contents]
      BY <1>1, <1>2
    <2> HIDE DEF t, D
    <2> QED
      BY <2>1, <2>2 DEF Trees
  <1>4. DOMAIN t = D /\ (\A p \in back : t[p] = b.files[p]) /\ (\A p \in D \ back : t[p] = disk[p])
    BY <1>1
  <1>5. BinaryOK(t)
    <2>1. Binary \notin b.added /\ Binary \in D
      BY DEF BackupOK, BinaryOK
    <2>2. CASE Binary \in back
      <3>1. t[Binary] = b.before[Binary]
        BY <1>4, <2>2 DEF BackupOK
      <3> HIDE DEF t, D, back
      <3> QED
        BY <1>4, <2>1, <3>1 DEF BackupOK, BinaryOK
    <2>3. CASE Binary \notin back
      <3>1. t[Binary] = disk[Binary]
        BY <1>4, <2>1, <2>3
      <3> HIDE DEF t, D, back
      <3> QED
        BY <1>4, <2>1, <3>1 DEF BinaryOK
    <2> QED
      BY <2>2, <2>3
  <1>6. ASSUME NEW v, Follows(disk, v, b) PROVE Follows(t, v, b)
    <2>1. back \subseteq Touched(b) /\ b.added \cap done \subseteq Touched(b)
      OBVIOUS
    <2>2. D \ Touched(b) = DOMAIN disk \ Touched(b)
      BY <2>1
    <2>3. \A p \in D \ Touched(b) : t[p] = disk[p]
      BY <2>1, <1>4
    <2> HIDE DEF t, D, back
    <2> QED
      BY <1>4, <1>6, <2>2, <2>3, TouchedOnly
  <1>7. ASSUME NEW p \in DOMAIN disk \ Shipped PROVE p \in DOMAIN t /\ t[p] = disk[p]
    <2>1. p \notin Touched(b)
      BY DEF BackupOK
    <2> QED
      BY <2>1, <1>4
  <1> HIDE DEF t
  <1> QED
    BY <1>3, <1>5, <1>6, <1>7 DEF t

-----------------------------------------------------------------------------
(* Plans and updates.                                                      *)

LEMMA PlanParts ==
  ASSUME FileType, NEW r \in Runs, PlanOK(r)
  PROVE  /\ r.to \in Versions /\ version < r.to
         /\ r.replace \subseteq DOMAIN disk \cap DOMAIN Package[r.to]
         /\ r.unowned \subseteq DOMAIN disk \cap DOMAIN Package[r.to]
         /\ r.add \subseteq DOMAIN Package[r.to]
         /\ r.delete \subseteq (DOMAIN disk \cap DOMAIN Package[version]) \ DOMAIN Package[r.to]
         /\ (r.add \ r.unowned) \cap DOMAIN disk = {}
         /\ r.replace \cup r.add \cup r.delete \subseteq Shipped
  <1>1. r.to \in Versions /\ version < r.to /\ version \in Versions
    BY DEF PlanOK, Runs, NoVersion, FileType
  <1>2. /\ r.replace \subseteq DOMAIN disk \cap DOMAIN Package[r.to]
        /\ r.unowned \subseteq DOMAIN disk \cap DOMAIN Package[r.to]
        /\ r.add \subseteq DOMAIN Package[r.to]
    BY DEF PlanOK, Replaced, Added, Unowned, Has
  <1>3. r.delete \subseteq (DOMAIN disk \cap DOMAIN Package[version]) \ DOMAIN Package[r.to]
    BY DEF PlanOK, Dropped, Has
  <1>4. (r.add \ r.unowned) \cap DOMAIN disk = {}
    BY DEF PlanOK, Added, Unowned, Has
  <1>5. DOMAIN Package[r.to] \subseteq Shipped /\ DOMAIN Package[version] \subseteq Shipped
    BY <1>1, PackageParts
  <1> QED
    BY <1>1, <1>2, <1>3, <1>4, <1>5

\* What a run of apply_files() leaves, however far it went.
LEMMA AppliedPartly ==
  ASSUME FileType, BinaryOK(disk), NEW r \in Runs, PlanOK(r), NEW done
  PROVE  LET t == Applied(r, done) IN
         /\ t \in Trees /\ BinaryOK(t)
         /\ \A b \in Backups : r.replace \cup r.add \cup r.delete \subseteq Touched(b) =>
                \A v : Follows(disk, v, b) => Follows(t, v, b)
         /\ \A p \in DOMAIN disk \ Shipped : p \in DOMAIN t /\ t[p] = disk[p]
  <1> DEFINE t == Applied(r, done)
             new == Package[r.to]
             put == (r.replace \cup r.add) \cap done
             D == (DOMAIN disk \cup put) \ (r.delete \cap done)
  <1>1. t = [p \in D |-> IF p \in put THEN new[p] ELSE disk[p]]
    BY DEF Applied
  <1>2. /\ DOMAIN disk \subseteq Paths /\ disk \in [DOMAIN disk -> Contents]
    BY TreeParts DEF FileType
  <1>3. /\ r.to \in Versions /\ put \subseteq DOMAIN new /\ DOMAIN new \subseteq Shipped /\ Binary \in DOMAIN new
        /\ \A p \in DOMAIN new : new[p] \in Contents
        /\ r.delete \subseteq Shipped \ DOMAIN new
    BY PlanParts, PackageParts
  <1>4. t \in Trees
    <2>1. D \in SUBSET Paths
      BY <1>2, <1>3 DEF Paths
    <2>2. t \in [D -> Contents]
      BY <1>1, <1>2, <1>3
    <2> HIDE DEF t, D
    <2> QED
      BY <2>1, <2>2 DEF Trees
  <1>5. DOMAIN t = D /\ (\A p \in put : t[p] = new[p]) /\ (\A p \in D \ put : t[p] = disk[p])
    <2>1. put \cap r.delete = {}
      BY <1>3
    <2> QED
      BY <1>1, <2>1
  <1>6. BinaryOK(t)
    <2>1. Binary \in D
      BY <1>3 DEF BinaryOK
    <2>2. CASE Binary \in put
      <3>1. t[Binary] = Package[r.to][Binary]
        BY <1>5, <2>2
      <3> HIDE DEF t, D, put, new
      <3> QED
        BY <1>3, <1>5, <2>1, <3>1 DEF BinaryOK
    <2>3. CASE Binary \notin put
      <3>1. t[Binary] = disk[Binary]
        BY <1>5, <2>1, <2>3
      <3> HIDE DEF t, D, put, new
      <3> QED
        BY <1>5, <2>1, <3>1 DEF BinaryOK
    <2> QED
      BY <2>2, <2>3
  <1>7. ASSUME NEW b \in Backups, r.replace \cup r.add \cup r.delete \subseteq Touched(b), NEW v, Follows(disk, v, b)
        PROVE  Follows(t, v, b)
    <2>1. put \subseteq Touched(b) /\ r.delete \subseteq Touched(b)
      BY <1>7
    <2>2. D \ Touched(b) = DOMAIN disk \ Touched(b)
      BY <2>1
    <2>3. \A p \in D \ Touched(b) : t[p] = disk[p]
      BY <2>1, <1>5
    <2> HIDE DEF t, D, put
    <2> QED
      BY <1>5, <1>7, <2>2, <2>3, TouchedOnly
  <1>8. ASSUME NEW p \in DOMAIN disk \ Shipped PROVE p \in DOMAIN t /\ t[p] = disk[p]
    <2>1. p \notin put /\ p \notin r.delete
      BY <1>3
    <2> QED
      BY <2>1, <1>5
  <1> HIDE DEF t
  <1> QED
    BY <1>4, <1>6, <1>7, <1>8 DEF t

\* An update that is applied to the end leaves the release whole.
LEMMA AppliedWhole ==
  ASSUME FileType, NEW r \in Runs, PlanOK(r), StateOK(disk, manifest, version)
  PROVE  StateOK(Applied(r, r.replace \cup r.add \cup r.delete), Package[r.to], r.to)
  <1> DEFINE all == r.replace \cup r.add \cup r.delete
             t == Applied(r, all)
             new == Package[r.to]
             put == r.replace \cup r.add
             D == (DOMAIN disk \cup put) \ r.delete
  <1>1. t = [p \in D |-> IF p \in put THEN new[p] ELSE disk[p]]
    <2>1. put \cap all = put /\ r.delete \cap all = r.delete
      OBVIOUS
    <2> QED
      BY <2>1 DEF Applied
  <1>2. r.to \in Versions /\ version < r.to /\ version \in Versions /\ put \subseteq DOMAIN new
        /\ r.delete \cap DOMAIN new = {}
    BY PlanParts DEF FileType
  <1>3. r.to # 1
    BY <1>2, UpdatesAssumption
  <1>4. DOMAIN t = D /\ (\A p \in put : t[p] = new[p]) /\ (\A p \in D \ put : t[p] = disk[p])
    BY <1>1, <1>2
  <1>5. ASSUME NEW p \in DOMAIN new
        PROVE  \/ p \in DOMAIN t /\ t[p] = new[p]
               \/ /\ p \in DOMAIN FirstManifest \ {Binary} /\ new[p] = FirstManifest[p]
                  /\ \E f \in FirstTrees : p \in DOMAIN f /\ p \in DOMAIN t /\ t[p] = f[p]
    <2>1. CASE p \in put
      BY <2>1, <1>2, <1>4
    <2>2. CASE p \notin put
      <3>1. p \in DOMAIN manifest /\ p \in DOMAIN disk
        BY <2>2 DEF PlanOK, Added, Has
      <3>2. p \in DOMAIN t /\ t[p] = disk[p]
        BY <2>2, <3>1, <1>2, <1>4
      <3>3. disk[p] = new[p] \/ (manifest[p] = new[p] /\ p # Binary)
        BY <2>2, <3>1 DEF PlanOK, Replaced, Has
      <3>4. CASE disk[p] = new[p]
        BY <3>2, <3>4
      <3>5. CASE disk[p] # new[p] /\ manifest[p] = new[p] /\ p # Binary
        <4>1. CASE version = 1 /\ manifest = FirstManifest /\ disk \in FirstTrees
          BY <3>1, <3>2, <3>5, <4>1
        <4>2. CASE manifest = Package[version] /\ FilesOK(disk, version)
          <5>1. p \in DOMAIN Package[version] /\ disk[p] # Package[version][p]
            BY <3>1, <3>5, <4>2
          <5>2. /\ p \in DOMAIN FirstManifest \ {Binary} /\ Package[version][p] = FirstManifest[p]
                /\ \E f \in FirstTrees : p \in DOMAIN f /\ p \in DOMAIN disk /\ disk[p] = f[p]
            BY <5>1, <4>2 DEF FilesOK
          <5> QED
            BY <5>2, <3>2, <3>5, <4>2
        <4> QED
          BY <4>1, <4>2 DEF StateOK
      <3> QED
        BY <3>3, <3>4, <3>5
    <2> QED
      BY <2>1, <2>2
  <1> HIDE DEF t
  <1>6. FilesOK(t, r.to)
    BY <1>5 DEF FilesOK
  <1>7. StateOK(t, Package[r.to], r.to)
    BY <1>3, <1>6 DEF StateOK
  <1> QED
    BY <1>7 DEF t

\* A tree that is whole has the binary of its version.
LEMMA StateBinary ==
  ASSUME NEW t, NEW m, NEW v \in Versions, StateOK(t, m, v)
  PROVE  FilesOK(t, v) /\ Binary \in DOMAIN t /\ t[Binary] = Package[v][Binary] /\ m \in {FirstManifest, Package[v]}
  <1>1. Binary \in DOMAIN Package[v]
    BY PackageParts
  <1>2. FilesOK(t, v) /\ m \in {FirstManifest, Package[v]}
    <2>1. CASE v = 1 /\ m = FirstManifest /\ t \in FirstTrees
      <3>1. \A p \in DOMAIN Package[1] :
              /\ p \in DOMAIN t
              /\ t[p] = Package[1][p] \/ (p \in DOMAIN FirstManifest \ {Binary} /\ FirstManifest[p] = Package[1][p])
        BY <2>1, UpdatesAssumption
      <3> QED
        BY <2>1, <3>1 DEF FilesOK
    <2> QED
      BY <2>1 DEF StateOK
  <1> QED
    BY <1>1, <1>2 DEF FilesOK

-----------------------------------------------------------------------------
(* Every step, and the files.                                              *)

\* A step of the server that starts no run.
LEMMA ServerFiles ==
  ASSUME FilesInv, UNCHANGED fileVars, run' = run, lock' = lock
  PROVE  FilesInv'
  <1>1. run' \in [Agents -> Runs] /\ lock' \in Agents \cup {"none"}
    BY DEF FilesInv, FileType
  <1>2. ASSUME NEW b \in Agents PROVE RunOK(b)'
    BY RunKept DEF FilesInv
  <1> QED
    BY <1>1, <1>2, FilesKept

\* The steps of a run before it takes the lock.
LEMMA BeforeLockFiles ==
  ASSUME FilesInv, UNCHANGED fileVars, lock' = lock, NEW a \in Agents, NEW r \in Runs, run' = [run EXCEPT ![a] = r],
         Waiting(run[a]), Waiting(r)
  PROVE  FilesInv'
  <1>1. run \in [Agents -> Runs] /\ lock' \in Agents \cup {"none"}
    BY DEF FilesInv, FileType
  <1>2. run' \in [Agents -> Runs] /\ Others(a) /\ run'[a] = r
    BY <1>1 DEF Others
  <1>3. run[a].pc \notin {"undo", "restore"}
    BY DEF Waiting
  <1> QED
    BY <1>1, <1>2, <1>3, FilesQuiet

LEMMA EndFiles ==
  ASSUME FilesInv, UNCHANGED fileVars, NEW a \in Agents, Leave(a), run[a].pc \notin {"undo", "restore"}
  PROVE  FilesInv'
  <1>1. FileType
    BY DEF FilesInv
  <1> QED
    BY <1>1, LeaveMoves, FilesQuiet

LEMMA LaunchFiles ==
  ASSUME FilesInv, NEW h \in Handlers, Launch(h)
  PROVE  FilesInv'
  <1>1. UNCHANGED fileVars /\ lock' = lock
    BY DEF Launch, fileVars
  <1>2. CASE run["unit"].pc = "off" /\ run' = [run EXCEPT !["unit"].pc = "launched"]
    <2> DEFINE r == [run["unit"] EXCEPT !.pc = "launched"]
    <2>1. "unit" \in Agents /\ run["unit"] \in Runs
      BY DEF Agents, FilesInv, FileType
    <2>2. r \in Runs /\ r.pc = "launched"
      BY <2>1 DEF Runs, Steps
    <2>3. run' = [run EXCEPT !["unit"] = r]
      BY <1>2
    <2> HIDE DEF r
    <2> QED
      BY <1>1, <1>2, <2>1, <2>2, <2>3, BeforeLockFiles DEF Waiting
  <1>3. CASE run' = run
    BY <1>1, <1>3, ServerFiles
  <1> QED
    BY <1>2, <1>3 DEF Launch

\* A run that is to take the lock.
LEMMA AtLock ==
  ASSUME NEW action \in Actions, NEW v \in NoVersion
  PROVE  LET r == [NoRun EXCEPT !.pc = "lock", !.action = action, !.want = v]
         IN  r \in Runs /\ r.pc = "lock" /\ r.action = action /\ r.want = v
  BY DEF NoRun, Runs, Steps, NoVersion

LEMMA ReadRequestFiles ==
  ASSUME FilesInv, PageType, ReadRequest
  PROVE  FilesInv'
  <1>1. UNCHANGED fileVars /\ lock' = lock /\ "unit" \in Agents /\ Waiting(run["unit"])
    BY DEF ReadRequest, fileVars, Agents, Waiting
  <1>2. CASE run' = [run EXCEPT !["unit"] = NoRun]
    BY <1>1, <1>2, NoRunOK, BeforeLockFiles DEF Waiting
  <1>3. CASE run' = [run EXCEPT !["unit"] = [NoRun EXCEPT !.pc = "lock", !.action = request.action, !.want = request.version]]
    <2> DEFINE r == [NoRun EXCEPT !.pc = "lock", !.action = request.action, !.want = request.version]
    <2>1. request.action \in Actions /\ request.version \in NoVersion
      BY DEF PageType, Asks
    <2>2. r \in Runs /\ r.pc = "lock"
      BY <2>1, AtLock
    <2> HIDE DEF r
    <2>3. run' = [run EXCEPT !["unit"] = r]
      BY <1>3 DEF r
    <2> QED
      BY <1>1, <2>2, <2>3, BeforeLockFiles DEF Waiting
  <1> QED
    BY <1>2, <1>3 DEF ReadRequest

LEMMA CommandFiles ==
  ASSUME FilesInv, NEW action \in {"install", "rollback"}, NEW v \in NoVersion, Command(action, v)
  PROVE  FilesInv'
  <1> DEFINE r == [NoRun EXCEPT !.pc = "lock", !.action = action, !.want = v]
  <1>1. UNCHANGED fileVars /\ lock' = lock /\ "cli" \in Agents /\ Waiting(run["cli"]) /\ action \in Actions
    BY DEF Command, fileVars, Agents, Waiting, Actions
  <1>2. r \in Runs /\ r.pc = "lock"
    BY <1>1, AtLock
  <1>3. run' = [run EXCEPT !["cli"] = r]
    BY DEF Command
  <1> HIDE DEF r
  <1> QED
    BY <1>1, <1>2, <1>3, BeforeLockFiles DEF Waiting

\* A step of the run that holds the lock, or takes it, which leaves the files.
LEMMA HolderFiles ==
  ASSUME FilesInv, UNCHANGED fileVars, NEW a \in Agents, lock \in {a, "none"}, lock' = a, run' \in [Agents -> Runs],
         Others(a), RunOK(a)', run[a].pc \notin {"undo", "restore"} \/ run'[a].pc \in {"undo", "restore"}
  PROVE  FilesInv'
  <1>1. \A b \in Agents : RunOK(b)'
    BY RunsOfHolder
  <1>2. \A b \in Agents : run[b].pc \in {"undo", "restore"} => run'[b].pc \in {"undo", "restore"}
    BY DEF Others
  <1> QED
    BY <1>1, <1>2, FilesKept

LEMMA TakeLockFiles ==
  ASSUME FilesInv, NEW a \in Agents, TakeLock(a)
  PROVE  FilesInv'
  <1>1. UNCHANGED fileVars /\ run[a].pc = "lock" /\ FileType
    BY DEF TakeLock, fileVars, FilesInv
  <1>2. CASE LockFree /\ lock' = a /\ Go(a, "package")
    <2>1. "package" \in Steps
      BY DEF Steps
    <2>2. run' \in [Agents -> Runs] /\ Others(a) /\ run'[a].pc = "package"
      BY <1>1, <1>2, <2>1, GoMoves
    <2>3. RunOK(a)'
      BY <1>2, <2>2 DEF RunOK
    <2> QED
      BY <1>1, <1>2, <2>2, <2>3, HolderFiles DEF LockFree
  <1>3. CASE /\ LockFree /\ run[a].action = "rollback" /\ NewestUnmarked # 0
             /\ lock' = a /\ run' = [run EXCEPT ![a].pc = "stop", ![a].bk = NewestUnmarked]
    <2>1. Newest(NewestUnmarked) /\ NewestUnmarked \in Nat
      BY <1>1, <1>3, NewestIs
    <2>2. run \in [Agents -> Runs]
      BY <1>1 DEF FileType
    <2>0. PICK k \in Nat : k = NewestUnmarked
      BY <2>1
    <2> DEFINE r == [[run[a] EXCEPT !.pc = "stop"] EXCEPT !.bk = k]
    <2>3. run' = [run EXCEPT ![a] = r]
      BY <1>3, <2>0, <2>2
    <2>4. r \in Runs /\ r.pc = "stop" /\ r.bk = k /\ r.action = "rollback"
      BY <1>3, <2>2 DEF Runs, Steps
    <2> HIDE DEF r
    <2>5. run' \in [Agents -> Runs] /\ Others(a) /\ run'[a] = r
      BY <2>2, <2>3, <2>4 DEF Others
    <2>6. Newest(k)'
      <3>1. Unmarked' = Unmarked
        BY <1>1 DEF fileVars, Unmarked
      <3> QED
        BY <2>0, <2>1, <3>1 DEF Newest
    <2>7. RunOK(a)'
      BY <1>3, <2>4, <2>5, <2>6 DEF RunOK
    <2> QED
      BY <1>1, <1>3, <2>5, <2>7, HolderFiles DEF LockFree
  <1>4. CASE End(a, "failed")
    BY <1>1, <1>4, EndFiles DEF End
  <1> QED
    BY <1>2, <1>3, <1>4 DEF TakeLock

LEMMA PrepareFiles ==
  ASSUME FilesInv, NEW a \in Agents, Prepare(a)
  PROVE  FilesInv'
  <1>1. UNCHANGED fileVars /\ run[a].pc = "package" /\ FileType /\ RunOK(a)
    BY DEF Prepare, fileVars, FilesInv
  <1>2. lock = a
    BY <1>1 DEF RunOK
  <1>3. CASE run[a].want > version /\ run' = [run EXCEPT ![a].pc = "plan", ![a].to = run[a].want] /\ UNCHANGED lock
    <2>1. run \in [Agents -> Runs] /\ version \in Versions /\ version \in Nat
      BY <1>1, UpdatesAssumption DEF FileType
    <2>2. run[a].want \in NoVersion /\ run[a].want # 0
      BY <1>3, <2>1 DEF Runs, NoVersion
    <2> DEFINE r == [[run[a] EXCEPT !.pc = "plan"] EXCEPT !.to = run[a].want]
    <2>31. run' = [run EXCEPT ![a] = r]
      BY <1>3, <2>1
    <2>32. r \in Runs /\ r.pc = "plan" /\ r.to = run[a].want
      BY <2>1, <2>2 DEF Runs, Steps
    <2> HIDE DEF r
    <2>33. run' \in [Agents -> Runs] /\ Others(a) /\ run'[a] = r
      BY <2>1, <2>31, <2>32 DEF Others
    <2>3. run' \in [Agents -> Runs] /\ Others(a) /\ run'[a].pc = "plan" /\ run'[a].to = run[a].want
      BY <2>32, <2>33
    <2>4. version' = version /\ lock' = a
      BY <1>1, <1>2, <1>3 DEF fileVars
    <2>5. run[a].want \in Nat
      BY <2>2, UpdatesAssumption DEF NoVersion
    <2>6. version < run[a].want
      BY <1>3, <2>1, <2>5
    <2>7. RunOK(a)'
      BY <2>2, <2>3, <2>4, <2>6 DEF RunOK
    <2> QED
      BY <1>1, <1>2, <2>3, <2>4, <2>7, HolderFiles
  <1>4. CASE End(a, "failed")
    BY <1>1, <1>4, EndFiles DEF End
  <1> QED
    BY <1>3, <1>4 DEF Prepare
LEMMA PlanFiles ==
  ASSUME FilesInv, NEW a \in Agents, Plan(a)
  PROVE  FilesInv'
  <1> DEFINE new == Package[run[a].to]
  <1>1. UNCHANGED fileVars /\ lock' = lock /\ run[a].pc = "plan" /\ FileType /\ RunOK(a)
    BY DEF Plan, fileVars, FilesInv
  <1>2. lock = a /\ run[a].to # 0 /\ version < run[a].to
    BY <1>1 DEF RunOK
  <1>3. run \in [Agents -> Runs] /\ run[a] \in Runs /\ version \in Versions
    BY <1>1 DEF FileType
  <1>4. run[a].to \in Versions
    BY <1>2, <1>3 DEF Runs, NoVersion
  <1>5. PICK gone \in Confirmed(Dropped(new)) :
          run' = [run EXCEPT ![a].pc = "backup", ![a].replace = Replaced(new), ![a].add = Added(new),
                             ![a].unowned = Unowned(new), ![a].delete = gone]
    BY DEF Plan
  <1>6. DOMAIN new \subseteq Shipped /\ DOMAIN Package[version] \subseteq Shipped
    BY <1>3, <1>4, PackageParts
  <1>7. gone \subseteq Dropped(new) \cap DOMAIN Package[version]
    BY DEF Confirmed
  <1>8. /\ Replaced(new) \subseteq Shipped /\ Added(new) \subseteq Shipped /\ Unowned(new) \subseteq Shipped
        /\ gone \subseteq Shipped
    BY <1>6, <1>7 DEF Replaced, Added, Unowned
  <1>9. PICK rep \in SUBSET Shipped, add \in SUBSET Shipped, own \in SUBSET Shipped :
          rep = Replaced(new) /\ add = Added(new) /\ own = Unowned(new)
    BY <1>8
  <1> DEFINE r == [[[[[run[a] EXCEPT !.pc = "backup"] EXCEPT !.replace = rep] EXCEPT !.add = add]
                     EXCEPT !.unowned = own] EXCEPT !.delete = gone]
  <1> HIDE DEF new
  <1>10. run' = [run EXCEPT ![a] = r]
    BY <1>3, <1>5, <1>9
  <1>11. /\ r \in Runs /\ r.pc = "backup" /\ r.to = run[a].to /\ r.replace = rep /\ r.add = add
         /\ r.unowned = own /\ r.delete = gone
    BY <1>3, <1>8 DEF Runs, Steps
  <1> HIDE DEF r
  <1>0. PICK q \in Runs : q = r
    BY <1>11
  <1>12. run' \in [Agents -> Runs] /\ Others(a) /\ run'[a] = q
    BY <1>3, <1>10, <1>0 DEF Others
  <1>13. disk' = disk /\ manifest' = manifest /\ version' = version
    BY <1>1 DEF fileVars
  <1>14. PlanOK(q)
    BY <1>0, <1>2, <1>7, <1>9, <1>11 DEF PlanOK, new
  <1>15. PlanOK(q)'
    BY <1>13, <1>14 DEF PlanOK, Replaced, Added, Unowned, Dropped, Has
  <1>16. RunOK(a)'
    BY <1>0, <1>1, <1>2, <1>11, <1>12, <1>15 DEF RunOK
  <1> QED
    BY <1>1, <1>2, <1>12, <1>16, HolderFiles
\* A step of the run that holds the lock or takes it: the others wait.
LEMMA HolderStep ==
  ASSUME FilesInv, NEW a \in Agents, lock \in {a, "none"}, Others(a), RunOK(a)', FileType', BinaryOK(disk)',
         (\A i \in DOMAIN backups : BackupOK(backups[i]))', ChainOK', WholeOK'
  PROVE  FilesInv'
  <1>1. \A b \in Agents : RunOK(b)'
    BY RunsOfHolder
  <1> QED
    BY <1>1 DEF FilesInv

\* While a run holds the lock and is not putting files back, they are whole.
LEMMA HolderWhole ==
  ASSUME FilesInv, NEW a \in Agents, lock \in {a, "none"}, run[a].pc \notin {"undo", "restore"}, ~torn
  PROVE  /\ StateOK(disk, manifest, version)
         /\ \A i \in DOMAIN backups : StateOK(backups[i].before, backups[i].manifest, backups[i].from)
  <1>1. \A b \in Agents : run[b].pc \notin {"undo", "restore"}
    BY HolderAlone DEF Waiting
  <1> QED
    BY <1>1 DEF FilesInv, WholeOK

BackupsKept == backups' = backups

LEMMA BackupsStay ==
  ASSUME FilesInv, BackupsKept
  PROVE  /\ (\A i \in DOMAIN backups : BackupOK(backups[i]))'
         /\ \A i : Newest(i)' <=> Newest(i)
  <1>1. backups' = backups
    BY DEF BackupsKept
  <1>2. (\A i \in DOMAIN backups : BackupOK(backups[i]))'
    BY <1>1 DEF FilesInv, BackupOK, BinaryOK, Touched
  <1>3. \A i : Newest(i)' <=> Newest(i)
    BY <1>1 DEF Newest, Unmarked
  <1> QED
    BY <1>2, <1>3

\* The files change and the backups do not: the chain ends in the newest backup.
LEMMA DiskChain ==
  ASSUME FilesInv, BackupsKept, NEW i, Newest(i), Follows(disk, version, backups[i])'
  PROVE  ChainOK'
  <1>1. backups' = backups /\ Unmarked' = Unmarked
    BY DEF BackupsKept, Unmarked
  <1>2. ChainOK /\ FileType
    BY DEF FilesInv
  <1>3. ASSUME NEW j \in Unmarked', Newest(j)' PROVE Follows(disk, version, backups[j])'
    <2>1. Newest(j)
      BY <1>3, BackupsStay
    <2>2. j = i
      BY <1>2, <2>1, NewestIs
    <2> QED
      BY <2>2
  <1>4. ASSUME NEW j \in Unmarked', NEW k \in Unmarked', j < k, \A l \in Unmarked' : l <= j \/ k <= l
        PROVE  Follows(backups[k].before, backups[k].from, backups[j])'
    <2>1. Follows(backups[k].before, backups[k].from, backups[j])
      BY <1>1, <1>2, <1>4 DEF ChainOK
    <2> QED
      BY <1>1, <2>1 DEF Follows, Touched
  <1> QED
    BY <1>3, <1>4 DEF ChainOK

\* The backup make_backup() makes.
LEMMA BackupMade ==
  ASSUME FileType, BinaryOK(disk), NEW r \in Runs, PlanOK(r), NEW whole \in BOOLEAN
  PROVE  LET b == BackupOf(r, whole) IN
         /\ b \in Backups /\ BackupOK(b)
         /\ b.before = disk /\ b.from = version /\ b.manifest = manifest /\ b.marked = FALSE
         /\ b.to = r.to /\ b.complete = whole
         /\ r.replace \cup r.add \cup r.delete \subseteq Touched(b)
  <1> DEFINE b == BackupOf(r, whole)
             F == [p \in Saved(r) |-> disk[p]]
             A == r.add \ r.unowned
  <1>1. b = [from |-> version, to |-> r.to, marked |-> FALSE, complete |-> whole,
             files |-> F, added |-> A, manifest |-> manifest, before |-> disk]
    BY DEF BackupOf
  <1>2. /\ r.to \in Versions /\ version < r.to /\ version \in Versions
        /\ Saved(r) \subseteq DOMAIN disk /\ Saved(r) \subseteq Shipped
        /\ A \cap DOMAIN disk = {} /\ A \subseteq Shipped
    <2>1. r.unowned \subseteq Shipped /\ r.add \subseteq Shipped
      BY DEF Runs
    <2> QED
      BY <2>1, PlanParts DEF Saved, FileType
  <1>3. F \in Trees /\ DOMAIN F = Saved(r) /\ \A p \in Saved(r) : F[p] = disk[p]
    <2>1. DOMAIN disk \subseteq Paths /\ disk \in [DOMAIN disk -> Contents]
      BY TreeParts DEF FileType
    <2>2. Saved(r) \in SUBSET Paths /\ F \in [Saved(r) -> Contents]
      BY <1>2, <2>1
    <2>3. F \in Trees
      <3> HIDE DEF F
      <3> QED
        BY <2>2 DEF Trees
    <2> QED
      BY <2>3
  <1> HIDE DEF F, A
  <1>4. /\ b.before = disk /\ b.from = version /\ b.manifest = manifest /\ b.marked = FALSE
        /\ b.to = r.to /\ b.complete = whole /\ b.files = F /\ b.added = A
    BY <1>1
  <1>5. b \in Backups
    BY <1>1, <1>2, <1>3 DEF Backups, FileType
  <1> HIDE DEF b
  <1>6. Touched(b) = Saved(r) \cup A
    BY <1>3, <1>4 DEF Touched
  <1>7. BackupOK(b)
    BY <1>2, <1>3, <1>4, <1>6 DEF BackupOK
  <1>8. r.replace \cup r.add \cup r.delete \subseteq Touched(b)
    BY <1>6 DEF Saved, A
  <1> QED
    BY <1>4, <1>5, <1>7, <1>8 DEF b
\* A backup of the tree as it is becomes the newest.
LEMMA BackupAdded ==
  ASSUME FilesInv, NEW b \in Backups, BackupOK(b), b.before = disk, b.from = version, b.marked = FALSE,
         backups' = Append(backups, b), disk' = disk, version' = version, NEW n \in Nat, n = Len(backups)
  PROVE  /\ backups' \in Seq(Backups) /\ Newest(n + 1)' /\ backups'[n + 1] = b
         /\ DOMAIN backups' = 1 .. n + 1 /\ (\A i \in DOMAIN backups : backups'[i] = backups[i])
         /\ (\A i \in DOMAIN backups : BackupOK(backups[i]))' /\ ChainOK'
  <1>1. FileType /\ ChainOK /\ (\A i \in DOMAIN backups : BackupOK(backups[i])) /\ backups \in Seq(Backups)
    BY DEF FilesInv, FileType
  <1>2. n \in Nat /\ n = Len(backups)
    OBVIOUS
  <1>3. /\ backups' \in Seq(Backups) /\ backups'[n + 1] = b
        /\ DOMAIN backups' = 1 .. n + 1 /\ DOMAIN backups = 1 .. n
        /\ \A i \in DOMAIN backups : backups'[i] = backups[i]
    BY <1>1, <1>2
  <1>4. Unmarked' = Unmarked \cup {n + 1} /\ Unmarked \subseteq 1 .. n
    <2>1. Unmarked \subseteq 1 .. n
      BY <1>3 DEF Unmarked
    <2>2. \A i \in 1 .. n : i \in Unmarked' <=> i \in Unmarked
      BY <1>3 DEF Unmarked
    <2>3. n + 1 \in Unmarked'
      BY <1>2, <1>3 DEF Unmarked
    <2>4. Unmarked' \subseteq 1 .. n + 1
      BY <1>3 DEF Unmarked
    <2>5. \A i \in 1 .. n + 1 : i \in 1 .. n \/ i = n + 1
      BY <1>2
    <2> QED
      BY <2>1, <2>2, <2>3, <2>4, <2>5
  <1>5. Newest(n + 1)'
    BY <1>2, <1>4 DEF Newest
  <1>6. ASSUME NEW i \in Unmarked', Newest(i)' PROVE Follows(disk, version, backups[i])'
    <2>1. i = n + 1
      BY <1>2, <1>4, <1>6 DEF Newest
    <2>2. Follows(disk', version', b)
      BY DEF Follows
    <2> QED
      BY <1>3, <2>1, <2>2 DEF Follows, Touched
  <1>7. ASSUME NEW i \in Unmarked', NEW j \in Unmarked', i < j, \A k \in Unmarked' : k <= i \/ j <= k
        PROVE  Follows(backups[j].before, backups[j].from, backups[i])'
    <2>1. i \in 1 .. n /\ i \in Unmarked /\ backups'[i] = backups[i]
      BY <1>2, <1>3, <1>4, <1>7
    <2>2. CASE j = n + 1
      <3>1. Newest(i)
        BY <1>2, <1>4, <1>7, <2>1, <2>2 DEF Newest
      <3>2. Follows(disk, version, backups[i])
        BY <1>1, <2>1, <3>1 DEF ChainOK
      <3> QED
        BY <1>3, <2>1, <2>2, <3>2 DEF Follows, Touched
    <2>3. CASE j # n + 1
      <3>1. j \in Unmarked /\ backups'[j] = backups[j]
        BY <1>3, <1>4, <2>3
      <3>2. \A k \in Unmarked : k <= i \/ j <= k
        BY <1>4, <1>7
      <3>3. Follows(backups[j].before, backups[j].from, backups[i])
        BY <1>1, <1>7, <2>1, <3>1, <3>2 DEF ChainOK
      <3> QED
        BY <2>1, <3>1, <3>3 DEF Follows, Touched
    <2> QED
      BY <2>2, <2>3
  <1>8. ChainOK'
    BY <1>6, <1>7 DEF ChainOK
  <1>9. ASSUME NEW i \in DOMAIN backups' PROVE BackupOK(backups[i])'
    <2>1. CASE i = n + 1
      BY <1>3, <2>1 DEF BackupOK, BinaryOK, Touched
    <2>2. CASE i \in 1 .. n
      <3>1. BackupOK(backups[i]) /\ backups'[i] = backups[i]
        BY <1>1, <1>3, <2>2
      <3> QED
        BY <3>1 DEF BackupOK, BinaryOK, Touched
    <2> QED
      BY <1>2, <1>3, <2>1, <2>2
  <1> QED
    BY <1>2, <1>3, <1>5, <1>8, <1>9

LEMMA BackupFiles ==
  ASSUME FilesInv, NEW a \in Agents, Backup(a)
  PROVE  FilesInv'
  <1>1. /\ UNCHANGED <<disk, manifest, version, served, torn>> /\ run[a].pc = "backup" /\ FileType /\ RunOK(a)
        /\ BinaryOK(disk)
    BY DEF Backup, FilesInv
  <1>2. lock = a /\ PlanOK(run[a])
    BY <1>1 DEF RunOK
  <1>3. run \in [Agents -> Runs] /\ run[a] \in Runs /\ backups \in Seq(Backups)
    BY <1>1 DEF FileType
  <1>4. PICK q \in Runs : q = run[a]
    BY <1>3
  <1>5. ASSUME NEW whole \in BOOLEAN, backups' = Append(backups, BackupOf(q, whole)), run' \in [Agents -> Runs],
               Others(a), RunOK(a)', lock' \in Agents \cup {"none"}
        PROVE  FilesInv'
    <2>1. PICK b \in Backups : b = BackupOf(q, whole)
      BY <1>1, <1>2, <1>4, BackupMade
    <2>2. BackupOK(b) /\ b.before = disk /\ b.from = version /\ b.manifest = manifest /\ b.marked = FALSE
      BY <1>1, <1>2, <1>4, <2>1, BackupMade
    <2>3. backups' = Append(backups, b) /\ disk' = disk /\ version' = version
      BY <1>1, <1>5, <2>1
    <2>31. PICK n \in Nat : n = Len(backups)
      BY <1>3
    <2>4. /\ backups' \in Seq(Backups) /\ backups'[n + 1] = b
          /\ DOMAIN backups' = 1 .. n + 1 /\ (\A i \in DOMAIN backups : backups'[i] = backups[i])
          /\ (\A i \in DOMAIN backups : BackupOK(backups[i]))' /\ ChainOK'
      BY <2>2, <2>3, <2>31, BackupAdded
    <2>5. FileType'
      BY <1>1, <1>5, <2>4 DEF FileType
    <2>6. BinaryOK(disk)'
      BY <1>1 DEF BinaryOK
    <2>7. WholeOK'
      <3>1. ASSUME ~torn' PROVE StateOK(disk, manifest, version) /\ (served # 0 => served = version)
        <4>1. ~torn /\ (served # 0 => served = version)
          BY <1>1, <3>1 DEF FilesInv, WholeOK
        <4> QED
          BY <1>1, <1>2, <4>1, HolderWhole
      <3>2. ASSUME ~torn', NEW i \in DOMAIN backups'
            PROVE  StateOK(backups'[i].before, backups'[i].manifest, backups'[i].from)
        <4>1. CASE i \in DOMAIN backups
          <5>1. ~torn
            BY <1>1, <3>2
          <5>2. StateOK(backups[i].before, backups[i].manifest, backups[i].from)
            BY <1>1, <1>2, <4>1, <5>1, HolderWhole
          <5> QED
            BY <2>4, <4>1, <5>2
        <4>2. CASE i = n + 1
          BY <2>2, <2>4, <3>1, <3>2, <4>2
        <4>3. DOMAIN backups = 1 .. n
          BY <1>3, <2>31
        <4> QED
          BY <2>4, <4>1, <4>2, <4>3
      <3> QED
        BY <1>1, <3>1, <3>2 DEF WholeOK, StateOK, FilesOK
    <2> QED
      BY <1>2, <1>5, <2>4, <2>5, <2>6, <2>7, HolderStep
  <1>6. CASE /\ backups' = Append(backups, BackupOf(run[a], TRUE)) /\ UNCHANGED lock
             /\ run' = [run EXCEPT ![a].pc = "stop", ![a].bk = Len(backups) + 1]
    <2>0. PICK n \in Nat : n = Len(backups)
      BY <1>3
    <2>1. PICK k \in Nat : k = n + 1
      BY <2>0
    <2> DEFINE r == [[run[a] EXCEPT !.pc = "stop"] EXCEPT !.bk = k]
    <2>2. run' = [run EXCEPT ![a] = r]
      BY <1>3, <1>6, <2>0, <2>1
    <2>3. /\ r \in Runs /\ r.pc = "stop" /\ r.bk = k /\ r.to = q.to /\ r.replace = q.replace
          /\ r.add = q.add /\ r.delete = q.delete /\ r.unowned = q.unowned
      BY <1>3, <1>4 DEF Runs, Steps
    <2> HIDE DEF r
    <2>4. PICK s \in Runs : s = r
      BY <2>3
    <2>5. run' \in [Agents -> Runs] /\ Others(a) /\ run'[a] = s
      BY <1>3, <2>2, <2>3, <2>4 DEF Others
    <2>6. PICK b \in Backups : b = BackupOf(q, TRUE)
      BY <1>1, <1>2, <1>4, BackupMade
    <2>7. /\ BackupOK(b) /\ b.before = disk /\ b.from = version /\ b.manifest = manifest /\ b.marked = FALSE
          /\ b.to = q.to /\ b.complete = TRUE /\ q.replace \cup q.add \cup q.delete \subseteq Touched(b)
      BY <1>1, <1>2, <1>4, <2>6, BackupMade
    <2>8. backups' = Append(backups, b) /\ disk' = disk /\ version' = version
      BY <1>1, <1>4, <1>6, <2>6
    <2>9. Newest(k)' /\ backups'[k] = b
      BY <2>0, <2>1, <2>7, <2>8, BackupAdded
    <2>10. PlanOK(s)'
      <3>1. PlanOK(q)
        BY <1>2, <1>4
      <3> QED
        BY <1>1, <2>3, <2>4, <3>1 DEF PlanOK, Replaced, Added, Unowned, Dropped, Has
    <2>11. OwnBackup(s)'
      <3>1. s.bk = k /\ s.to = q.to /\ s.replace = q.replace /\ s.add = q.add /\ s.delete = q.delete
        BY <2>3, <2>4
      <3> QED
        BY <1>1, <2>7, <2>9, <3>1 DEF OwnBackup, Touched
    <2>12. RunOK(a)'
      BY <1>2, <1>6, <2>3, <2>4, <2>5, <2>9, <2>10, <2>11 DEF RunOK
    <2>13. lock' \in Agents \cup {"none"}
      BY <1>2, <1>6
    <2> QED
      BY <1>4, <1>5, <1>6, <2>5, <2>12, <2>13
  <1>7. CASE backups' = Append(backups, BackupOf(run[a], FALSE)) /\ End(a, "failed")
    <2>1. /\ run' \in [Agents -> Runs] /\ Others(a) /\ Waiting(run'[a]) /\ lock' \in Agents \cup {"none"}
      BY <1>1, <1>7, LeaveMoves DEF End
    <2>2. RunOK(a)'
      BY <2>1, WaitingOK
    <2> QED
      BY <1>4, <1>5, <1>7, <2>1, <2>2
  <1> QED
    BY <1>6, <1>7 DEF Backup
\* A step of the run that holds the lock which stops or starts the service.
LEMMA ServedFiles ==
  ASSUME FilesInv, NEW a \in Agents, lock = a, lock' = a, run' \in [Agents -> Runs], Others(a), RunOK(a)',
         UNCHANGED <<disk, manifest, version, backups, torn>>, served' \in NoVersion,
         ~torn => /\ served' # 0 => served' = version /\ StateOK(disk, manifest, version)
                  /\ run'[a].pc \notin {"undo", "restore"} => StateOK(disk, manifest, version)
  PROVE  FilesInv'
  <1>1. FileType'
    BY DEF FilesInv, FileType
  <1>2. BinaryOK(disk)' /\ (\A i \in DOMAIN backups : BackupOK(backups[i]))'
    BY DEF FilesInv, BinaryOK, BackupOK, Touched
  <1>3. ChainOK'
    BY DEF FilesInv, ChainOK, Newest, Unmarked, Follows, Touched
  <1>4. WholeOK'
    <2>1. ~torn => \A i \in DOMAIN backups : StateOK(backups[i].before, backups[i].manifest, backups[i].from)
      BY DEF FilesInv, WholeOK
    <2>2. ASSUME ~torn, served' # 0 \/ (\A b \in Agents : run'[b].pc \notin {"undo", "restore"})
          PROVE  StateOK(disk, manifest, version)
      BY <2>2
    <2> QED
      BY <2>1, <2>2 DEF WholeOK, StateOK, FilesOK
  <1> QED
    BY <1>1, <1>2, <1>3, <1>4, HolderStep

LEMMA StopFiles ==
  ASSUME FilesInv, NEW a \in Agents, Stop(a)
  PROVE  FilesInv'
  <1>1. /\ UNCHANGED <<disk, manifest, version, backups, torn, lock>> /\ served' = 0 /\ run[a].pc = "stop"
        /\ FileType /\ RunOK(a)
    BY DEF Stop, FilesInv
  <1>2. lock = a /\ Newest(run[a].bk) /\ (run[a].action = "install" => PlanOK(run[a]) /\ OwnBackup(run[a]))
    BY <1>1 DEF RunOK
  <1>3. PICK pc \in Steps : pc = IF run[a].action = "install" THEN "apply" ELSE "restore"
    BY DEF Steps
  <1>4. Go(a, pc)
    BY <1>3 DEF Stop
  <1>5. /\ run' \in [Agents -> Runs] /\ Others(a) /\ run'[a].pc = pc
        /\ run'[a].action = run[a].action /\ run'[a].to = run[a].to
        /\ run'[a].bk = run[a].bk /\ run'[a].replace = run[a].replace /\ run'[a].add = run[a].add
        /\ run'[a].delete = run[a].delete /\ run'[a].unowned = run[a].unowned
    BY <1>1, <1>4, GoMoves
  <1>6. Newest(run[a].bk)'
    <2>1. PICK k : k = run[a].bk
      OBVIOUS
    <2>2. Newest(k)'
      BY <1>1, <1>2, <2>1, BackupsStay DEF BackupsKept
    <2> QED
      BY <1>5, <2>1, <2>2
  <1>7. run[a].action = "install" => PlanOK(run[a])' /\ OwnBackup(run[a])'
    <2>1. run[a].action = "install" => PlanOK(run[a])'
      BY <1>1, <1>2, <1>5 DEF PlanOK, Replaced, Added, Unowned, Dropped, Has
    <2>2. run[a].action = "install" => OwnBackup(run[a])'
      BY <1>1, <1>2, <1>5 DEF OwnBackup, Touched
    <2> QED
      BY <2>1, <2>2
  <1>8. RunOK(a)'
    <2>1. lock' = a /\ served' = 0
      BY <1>1, <1>2
    <2>2. run'[a].pc \in {"apply", "restore"} /\ (run'[a].pc = "apply" => PlanOK(run[a])' /\ OwnBackup(run[a])')
      BY <1>3, <1>5, <1>7
    <2> QED
      BY <1>6, <2>1, <2>2 DEF RunOK
  <1>9. ~torn => StateOK(disk, manifest, version)
    BY <1>1, <1>2, HolderWhole
  <1> QED
    BY <1>1, <1>2, <1>5, <1>8, <1>9, ServedFiles DEF NoVersion

LEMMA UndoFiles ==
  ASSUME FilesInv, NEW a \in Agents, Undo(a)
  PROVE  FilesInv'
  <1>1. /\ UNCHANGED <<disk, manifest, version, backups, torn, lock>> /\ served' = 0 /\ run[a].pc = "undo"
        /\ FileType /\ RunOK(a) /\ Go(a, "restore") /\ "restore" \in Steps
    BY DEF Undo, FilesInv, Steps
  <1>2. lock = a /\ Newest(run[a].bk)
    BY <1>1 DEF RunOK
  <1>3. run' \in [Agents -> Runs] /\ Others(a) /\ run'[a].pc = "restore" /\ run'[a].bk = run[a].bk
    BY <1>1, GoMoves
  <1>4. Newest(run[a].bk)'
    <2>1. PICK k : k = run[a].bk
      OBVIOUS
    <2>2. Newest(k)'
      BY <1>1, <1>2, <2>1, BackupsStay DEF BackupsKept
    <2> QED
      BY <1>3, <2>1, <2>2
  <1>5. RunOK(a)'
    BY <1>1, <1>2, <1>3, <1>4 DEF RunOK
  <1> QED
    BY <1>1, <1>2, <1>3, <1>5, ServedFiles DEF NoVersion

LEMMA BeginFiles ==
  ASSUME FilesInv, NEW a \in Agents, Begin(a)
  PROVE  FilesInv'
  <1>1. /\ UNCHANGED <<disk, manifest, version, backups, torn, lock>> /\ served' = BinaryVersion
        /\ run[a].pc \in {"start", "start old"} /\ FileType /\ RunOK(a) /\ BinaryOK(disk)
    BY DEF Begin, FilesInv
  <1>2. lock = a /\ (run[a].pc = "start" => Newest(run[a].bk))
    BY <1>1 DEF RunOK
  <1>3. PICK pc \in Steps : pc = IF run[a].pc = "start" THEN "health" ELSE "health old"
    BY DEF Steps
  <1>4. Go(a, pc)
    BY <1>3 DEF Begin
  <1>5. run' \in [Agents -> Runs] /\ Others(a) /\ run'[a].pc = pc /\ run'[a].bk = run[a].bk
    BY <1>1, <1>4, GoMoves
  <1>6. run[a].pc = "start" => Newest(run[a].bk)'
    <2>1. PICK k : k = run[a].bk
      OBVIOUS
    <2>2. Newest(k) => Newest(k)'
      BY <1>1, BackupsStay DEF BackupsKept
    <2> QED
      BY <1>2, <1>5, <2>1, <2>2
  <1>7. RunOK(a)'
    <2>1. lock' = a /\ run'[a].pc \in {"health", "health old"} /\ (run'[a].pc = "health" => Newest(run[a].bk)')
      BY <1>1, <1>2, <1>3, <1>5, <1>6
    <2> QED
      BY <2>1 DEF RunOK
  <1>8. BinaryVersion \in Versions /\ Package[BinaryVersion][Binary] = disk[Binary]
    <2>1. \E v \in Versions : Package[v][Binary] = disk[Binary]
      BY <1>1 DEF BinaryOK
    <2> QED
      BY <2>1 DEF BinaryVersion
  <1>9. ASSUME ~torn PROVE StateOK(disk, manifest, version) /\ BinaryVersion = version
    <2>1. StateOK(disk, manifest, version)
      BY <1>1, <1>2, <1>9, HolderWhole
    <2>2. version \in Versions
      BY <1>1 DEF FileType
    <2>3. disk[Binary] = Package[version][Binary]
      BY <2>1, <2>2, StateBinary
    <2> QED
      BY <1>8, <2>1, <2>2, <2>3, UpdatesAssumption
  <1> QED
    BY <1>1, <1>2, <1>5, <1>7, <1>8, <1>9, ServedFiles DEF NoVersion

LEMMA ApplyFiles ==
  ASSUME FilesInv, NEW a \in Agents, Apply(a)
  PROVE  FilesInv'
  <1>1. /\ UNCHANGED <<served, backups, torn, lock>> /\ run[a].pc = "apply" /\ FileType /\ RunOK(a) /\ BinaryOK(disk)
    BY DEF Apply, FilesInv
  <1>2. lock = a /\ Newest(run[a].bk) /\ PlanOK(run[a]) /\ OwnBackup(run[a]) /\ served = 0
    BY <1>1 DEF RunOK
  <1>3. run \in [Agents -> Runs] /\ run[a] \in Runs /\ version \in Versions
    BY <1>1 DEF FileType
  <1>4. PICK q \in Runs : q = run[a]
    BY <1>3
  <1>5. PICK k \in Nat : k = q.bk /\ Newest(k) /\ k \in DOMAIN backups /\ k \in Unmarked
    BY <1>1, <1>2, <1>4, NewestIs DEF Newest
  <1>6. PICK b \in Backups : b = backups[k] /\ BackupOK(b)
    BY <1>1, <1>5 DEF FileType, FilesInv
  <1>7. Follows(disk, version, b)
    BY <1>5, <1>6 DEF FilesInv, ChainOK
  <1>8. b.complete /\ b.to = q.to /\ b.from = version /\ q.replace \cup q.add \cup q.delete \subseteq Touched(b)
    BY <1>2, <1>4, <1>5, <1>6 DEF OwnBackup
  <1>9. BackupsKept /\ backups' = backups
    BY <1>1 DEF BackupsKept
  <1>10. (\A i \in DOMAIN backups : BackupOK(backups[i]))' /\ Newest(k)'
    BY <1>5, <1>9, BackupsStay
  <1>11. q.to \in Versions /\ PlanOK(q)
    BY <1>1, <1>2, <1>4, PlanParts
  <1>12. ASSUME NEW done, disk' = Applied(q, done) PROVE disk' \in Trees /\ BinaryOK(disk)' /\ Follows(disk', version, b)
    <2>1. disk' \in Trees /\ BinaryOK(disk') /\ Follows(disk', version, b)
      BY <1>1, <1>7, <1>8, <1>11, <1>12, AppliedPartly
    <2> QED
      BY <2>1 DEF BinaryOK
  <1>13. ~torn => /\ StateOK(disk, manifest, version)
                  /\ \A i \in DOMAIN backups : StateOK(backups[i].before, backups[i].manifest, backups[i].from)
    BY <1>1, <1>2, HolderWhole
  <1>14. CASE /\ disk' = Applied(q, q.replace \cup q.add \cup q.delete) /\ manifest' = Package[q.to]
              /\ version' = q.to /\ Go(a, "start")
    <2>1. "start" \in Steps
      BY DEF Steps
    <2>2. run' \in [Agents -> Runs] /\ Others(a) /\ run'[a].pc = "start" /\ run'[a].bk = k
      BY <1>1, <1>4, <1>5, <1>14, <2>1, GoMoves
    <2>3. RunOK(a)'
      BY <1>1, <1>2, <1>10, <2>2 DEF RunOK
    <2>4. disk' \in Trees /\ BinaryOK(disk)' /\ Follows(disk', version, b)
      BY <1>12, <1>14
    <2>5. FileType'
      BY <1>1, <1>9, <1>11, <1>14, <2>2, <2>4, PackageParts DEF FileType
    <2>6. Follows(disk, version, backups[k])'
      BY <1>6, <1>8, <1>9, <1>14, <2>4 DEF Follows, Touched
    <2>7. ChainOK'
      BY <1>5, <1>9, <2>6, DiskChain
    <2>8. WholeOK'
      <3>1. ~torn => StateOK(disk', manifest', version')
        BY <1>1, <1>11, <1>13, <1>14, AppliedWhole
      <3> QED
        BY <1>1, <1>2, <1>13, <3>1 DEF WholeOK, StateOK, FilesOK
    <2> QED
      BY <1>2, <1>10, <2>2, <2>3, <2>4, <2>5, <2>7, <2>8, HolderStep
  <1>15. CASE (\E done : disk' = Applied(q, done)) /\ Go(a, "undo") /\ UNCHANGED <<manifest, version>>
    <2>1. "undo" \in Steps
      BY DEF Steps
    <2>2. run' \in [Agents -> Runs] /\ Others(a) /\ run'[a].pc = "undo" /\ run'[a].bk = k
      BY <1>1, <1>4, <1>5, <1>15, <2>1, GoMoves
    <2>3. RunOK(a)'
      BY <1>1, <1>2, <1>10, <2>2 DEF RunOK
    <2>4. disk' \in Trees /\ BinaryOK(disk)' /\ Follows(disk', version, b)
      BY <1>12, <1>15
    <2>5. FileType'
      BY <1>1, <1>9, <1>15, <2>2, <2>4 DEF FileType
    <2>6. Follows(disk, version, backups[k])'
      BY <1>6, <1>9, <1>15, <2>4 DEF Follows, Touched
    <2>7. ChainOK'
      BY <1>5, <1>9, <2>6, DiskChain
    <2>8. WholeOK'
      BY <1>1, <1>2, <1>13, <2>2 DEF WholeOK, StateOK, FilesOK
    <2> QED
      BY <1>2, <1>10, <2>2, <2>3, <2>4, <2>5, <2>7, <2>8, HolderStep
  <1> QED
    BY <1>4, <1>14, <1>15 DEF Apply
\* Of the backups, the last ones are kept.
LEMMA PrunedIs ==
  ASSUME backups \in Seq(Backups)
  PROVE  /\ Pruned \in Seq(Backups)
         /\ \E s \in Nat : /\ s <= Len(backups) /\ DOMAIN Pruned = 1 .. Len(backups) - s
                           /\ \A i \in DOMAIN Pruned : Pruned[i] = backups[i + s] /\ i + s \in DOMAIN backups
  <1>1. KeepBackups \in Nat /\ KeepBackups # 0 /\ Len(backups) \in Nat /\ DOMAIN backups = 1 .. Len(backups)
    BY UpdatesAssumption
  <1>2. CASE Len(backups) > KeepBackups
    <2>0. Len(backups) - KeepBackups \in Nat
      BY <1>1, <1>2
    <2>1. PICK s \in Nat : s = Len(backups) - KeepBackups
      BY <2>0
    <2>2. Pruned = SubSeq(backups, s + 1, Len(backups))
      BY <1>2, <2>1 DEF Pruned
    <2>3. s + 1 \in 1 .. Len(backups) /\ s <= Len(backups)
      BY <1>1, <1>2, <2>1
    <2>4. Pruned \in Seq(Backups) /\ Len(Pruned) = Len(backups) - s
      BY <1>1, <2>2, <2>3
    <2>5. \A i \in 1 .. Len(backups) - s : Pruned[i] = backups[i + s] /\ i + s \in DOMAIN backups
      <3> SUFFICES ASSUME NEW i \in 1 .. Len(backups) - s
                   PROVE  Pruned[i] = backups[i + s] /\ i + s \in DOMAIN backups
        OBVIOUS
      <3>1. i + s \in 1 .. Len(backups) /\ (s + 1) + i - 1 = i + s
        BY <1>1, <2>1
      <3>2. Pruned[i] = backups[(s + 1) + i - 1]
        BY <1>1, <2>2, <2>3, <2>4
      <3> QED
        BY <1>1, <3>1, <3>2
    <2>6. DOMAIN Pruned = 1 .. Len(backups) - s
      BY <2>4
    <2> QED
      BY <2>3, <2>4, <2>5, <2>6
  <1>3. CASE ~(Len(backups) > KeepBackups)
    <2>1. Pruned = backups
      BY <1>3 DEF Pruned
    <2>2. \A i \in DOMAIN backups : i + 0 = i
      BY <1>1
    <2>3. 0 \in Nat /\ 0 <= Len(backups) /\ Len(backups) - 0 = Len(backups)
      BY <1>1
    <2>4. \A i \in DOMAIN Pruned : Pruned[i] = backups[i + 0] /\ i + 0 \in DOMAIN backups
      BY <2>1, <2>2
    <2>5. DOMAIN Pruned = 1 .. Len(backups) - 0
      BY <1>1, <2>1, <2>3
    <2>6. Pruned \in Seq(Backups)
      BY <2>1
    <2> QED
      BY <2>3, <2>4, <2>5, <2>6
  <1> QED
    BY <1>2, <1>3

LEMMA PruneFiles ==
  ASSUME FilesInv, NEW a \in Agents, lock = a, Leave(a), run[a].pc = "health", backups' = Pruned,
         UNCHANGED <<disk, manifest, version, served, torn>>
  PROVE  FilesInv'
  <1>1. FileType /\ ChainOK /\ (\A i \in DOMAIN backups : BackupOK(backups[i])) /\ backups \in Seq(Backups)
    BY DEF FilesInv, FileType
  <1>2. PICK s \in Nat : /\ s <= Len(backups) /\ DOMAIN backups' = 1 .. Len(backups) - s
                         /\ \A i \in DOMAIN backups' : backups'[i] = backups[i + s] /\ i + s \in DOMAIN backups
    BY <1>1, PrunedIs
  <1>3. backups' \in Seq(Backups) /\ Len(backups) \in Nat /\ DOMAIN backups = 1 .. Len(backups)
    BY <1>1, PrunedIs
  <1>4. /\ run' \in [Agents -> Runs] /\ Others(a) /\ Waiting(run'[a]) /\ lock' \in Agents \cup {"none"}
    BY <1>1, LeaveMoves
  <1>5. RunOK(a)'
    BY <1>4, WaitingOK
  <1>6. FileType'
    BY <1>1, <1>3, <1>4 DEF FileType
  <1>7. BinaryOK(disk)'
    BY DEF FilesInv, BinaryOK
  <1>8. ASSUME NEW i \in DOMAIN backups' PROVE BackupOK(backups[i])'
    <2>1. BackupOK(backups[i + s]) /\ backups'[i] = backups[i + s]
      BY <1>1, <1>2, <1>8
    <2> QED
      BY <2>1 DEF BackupOK, BinaryOK, Touched
  <1>9. /\ \A i \in Unmarked' : i \in Nat /\ i + s \in Unmarked /\ backups'[i] = backups[i + s]
        /\ \A k \in Unmarked : k \in Nat /\ (k > s => k - s \in Unmarked')
    <2>1. \A i \in Unmarked' : i \in Nat /\ i + s \in Unmarked /\ backups'[i] = backups[i + s]
      BY <1>2, <1>3 DEF Unmarked
    <2>2. ASSUME NEW k \in Unmarked, k > s PROVE k - s \in Unmarked'
      <3>1. k \in 1 .. Len(backups) /\ ~backups[k].marked
        BY <1>3 DEF Unmarked
      <3>2. k - s \in 1 .. Len(backups) - s /\ (k - s) + s = k
        BY <1>3, <2>2, <3>1
      <3>3. PICK i \in DOMAIN backups' : i = k - s /\ i + s = k
        BY <1>2, <3>2
      <3>4. backups'[i] = backups[k]
        BY <1>2, <3>3
      <3> QED
        BY <3>1, <3>3, <3>4 DEF Unmarked
    <2>3. \A k \in Unmarked : k \in Nat
      BY <1>3 DEF Unmarked
    <2> QED
      BY <2>1, <2>2, <2>3
  <1>10. ASSUME NEW i \in Unmarked', Newest(i)' PROVE Follows(disk, version, backups[i])'
    <2>1. i + s \in Unmarked /\ backups'[i] = backups[i + s] /\ i \in Nat
      BY <1>9
    <2>2. ASSUME NEW k \in Unmarked PROVE k <= i + s
      <3>1. k > s => k - s <= i
        BY <1>9, <1>10, <2>2 DEF Newest
      <3> QED
        BY <1>9, <2>1, <3>1
    <2>3. Newest(i + s)
      BY <2>1, <2>2 DEF Newest
    <2>4. Follows(disk, version, backups[i + s])
      BY <1>1, <2>1, <2>3 DEF ChainOK
    <2> QED
      BY <2>1, <2>4 DEF Follows, Touched
  <1>11. ASSUME NEW i \in Unmarked', NEW j \in Unmarked', i < j, \A k \in Unmarked' : k <= i \/ j <= k
         PROVE  Follows(backups[j].before, backups[j].from, backups[i])'
    <2>1. /\ i + s \in Unmarked /\ backups'[i] = backups[i + s] /\ i \in Nat
          /\ j + s \in Unmarked /\ backups'[j] = backups[j + s] /\ j \in Nat
      BY <1>9
    <2>2. i + s < j + s
      BY <1>11, <2>1
    <2>3. ASSUME NEW k \in Unmarked PROVE k <= i + s \/ j + s <= k
      <3>1. k > s => k - s <= i \/ j <= k - s
        BY <1>9, <1>11, <2>3
      <3> QED
        BY <1>9, <2>1, <3>1
    <2>4. Follows(backups[j + s].before, backups[j + s].from, backups[i + s])
      BY <1>1, <2>1, <2>2, <2>3 DEF ChainOK
    <2> QED
      BY <2>1, <2>4 DEF Follows, Touched
  <1>12. ChainOK'
    BY <1>10, <1>11 DEF ChainOK
  <1>13. WholeOK'
    <2>1. ~torn => /\ StateOK(disk, manifest, version)
                   /\ \A i \in DOMAIN backups : StateOK(backups[i].before, backups[i].manifest, backups[i].from)
      BY HolderWhole
    <2>2. ~torn => (served # 0 => served = version)
      BY DEF FilesInv, WholeOK
    <2>3. ~torn => \A i \in DOMAIN backups' : StateOK(backups'[i].before, backups'[i].manifest, backups'[i].from)
      BY <1>2, <2>1
    <2> QED
      BY <2>1, <2>2, <2>3 DEF WholeOK, StateOK, FilesOK
  <1> QED
    BY <1>4, <1>5, <1>6, <1>7, <1>8, <1>12, <1>13, HolderStep

LEMMA HealthFiles ==
  ASSUME FilesInv, NEW a \in Agents, Health(a)
  PROVE  FilesInv'
  <1>1. UNCHANGED <<disk, manifest, version, served, torn>> /\ run[a].pc = "health" /\ FileType /\ RunOK(a)
    BY DEF Health, FilesInv
  <1>2. lock = a /\ Newest(run[a].bk)
    BY <1>1 DEF RunOK
  <1>3. CASE backups' = Pruned /\ End(a, "done")
    BY <1>1, <1>2, <1>3, PruneFiles DEF End
  <1>4. CASE Go(a, "undo") /\ UNCHANGED <<backups, lock>>
    <2>1. "undo" \in Steps /\ UNCHANGED fileVars
      BY <1>1, <1>4 DEF Steps, fileVars
    <2>2. run' \in [Agents -> Runs] /\ Others(a) /\ run'[a].pc = "undo" /\ run'[a].bk = run[a].bk
      BY <1>1, <1>4, <2>1, GoMoves
    <2>3. Newest(run[a].bk)'
      <3>1. PICK k : k = run[a].bk
        OBVIOUS
      <3>2. Newest(k)'
        BY <1>2, <1>4, <3>1, BackupsStay DEF BackupsKept
      <3> QED
        BY <2>2, <3>1, <3>2
    <2>4. RunOK(a)'
      BY <1>2, <1>4, <2>2, <2>3 DEF RunOK
    <2> QED
      BY <1>1, <1>2, <1>4, <2>1, <2>2, <2>4, HolderFiles
  <1> QED
    BY <1>3, <1>4 DEF Health

LEMMA RestoreFiles ==
  ASSUME FilesInv, NEW a \in Agents, Restore(a)
  PROVE  FilesInv'
  <1>1. UNCHANGED <<served, backups, torn, lock>> /\ run[a].pc = "restore" /\ FileType /\ RunOK(a)
    BY DEF Restore, FilesInv
  <1>2. lock = a /\ Newest(run[a].bk) /\ served = 0
    BY <1>1 DEF RunOK
  <1>3. PICK k \in Nat : k = run[a].bk /\ Newest(k) /\ k \in DOMAIN backups /\ k \in Unmarked
    BY <1>1, <1>2, NewestIs DEF Newest
  <1>4. PICK b \in Backups : b = backups[k] /\ BackupOK(b)
    BY <1>1, <1>3 DEF FileType, FilesInv
  <1>5. Follows(disk, version, b)
    BY <1>3, <1>4 DEF FilesInv, ChainOK
  <1>6. disk' = RestoredTree(b, Touched(b)) /\ manifest' = b.manifest /\ version' = b.from /\ Go(a, "mark")
    BY <1>3, <1>4 DEF Restore
  <1>7. disk' = b.before
    BY <1>4, <1>5, <1>6, RestoredIs
  <1>8. BackupsKept /\ backups' = backups
    BY <1>1 DEF BackupsKept
  <1>9. (\A i \in DOMAIN backups : BackupOK(backups[i]))' /\ Newest(k)'
    BY <1>3, <1>8, BackupsStay
  <1>10. run' \in [Agents -> Runs] /\ Others(a) /\ run'[a].pc = "mark" /\ run'[a].bk = k
    <2>1. "mark" \in Steps
      BY DEF Steps
    <2> QED
      BY <1>1, <1>3, <1>6, <2>1, GoMoves
  <1>11. RunOK(a)'
    BY <1>1, <1>2, <1>4, <1>6, <1>7, <1>8, <1>9, <1>10 DEF RunOK
  <1>12. FileType'
    <2>1. b.before \in Trees /\ b.manifest \in Manifests /\ b.from \in Versions
      BY DEF Backups
    <2> QED
      BY <1>1, <1>6, <1>7, <1>8, <1>10, <2>1 DEF FileType
  <1>13. BinaryOK(disk)'
    BY <1>4, <1>7 DEF BackupOK, BinaryOK
  <1>14. ChainOK'
    <2>1. Follows(disk, version, backups[k])'
      BY <1>4, <1>6, <1>7, <1>8 DEF Follows, Touched
    <2> QED
      BY <1>3, <1>8, <2>1, DiskChain
  <1>15. WholeOK'
    <2>1. ~torn => \A i \in DOMAIN backups : StateOK(backups[i].before, backups[i].manifest, backups[i].from)
      BY DEF FilesInv, WholeOK
    <2>2. ~torn => StateOK(disk', manifest', version')
      BY <1>3, <1>4, <1>6, <1>7, <2>1
    <2> QED
      BY <1>1, <1>2, <2>1, <2>2 DEF WholeOK, StateOK, FilesOK
  <1> QED
    BY <1>2, <1>9, <1>10, <1>11, <1>12, <1>13, <1>14, <1>15, HolderStep
LEMMA MarkFiles ==
  ASSUME FilesInv, NEW a \in Agents, Mark(a)
  PROVE  FilesInv'
  <1>1. /\ UNCHANGED <<disk, manifest, version, served, torn, lock>> /\ run[a].pc = "mark" /\ FileType /\ RunOK(a)
        /\ ChainOK /\ (\A i \in DOMAIN backups : BackupOK(backups[i]))
    BY DEF Mark, FilesInv
  <1>2. /\ lock = a /\ Newest(run[a].bk) /\ served = 0
        /\ disk = backups[run[a].bk].before /\ version = backups[run[a].bk].from
    BY <1>1 DEF RunOK
  <1>3. PICK k \in Nat : k = run[a].bk /\ Newest(k) /\ k \in DOMAIN backups /\ k \in Unmarked
    BY <1>1, <1>2, NewestIs DEF Newest
  <1>4. backups' = [backups EXCEPT ![k].marked = TRUE] /\ Go(a, "start old") /\ "start old" \in Steps
    BY <1>3 DEF Mark, Steps
  <1>5. backups \in Seq(Backups) /\ Unmarked \subseteq DOMAIN backups /\ DOMAIN backups \subseteq Nat
    BY <1>1, NewestIs DEF FileType
  <1>6. PICK n \in Nat : n = Len(backups) /\ DOMAIN backups = 1 .. n /\ backups \in [1 .. n -> Backups]
    BY <1>5
  <1>7. [backups[k] EXCEPT !.marked = TRUE] \in Backups
    BY <1>3, <1>6 DEF Backups
  <1>8. backups' = [backups EXCEPT ![k] = [backups[k] EXCEPT !.marked = TRUE]]
    BY <1>3, <1>4, <1>6
  <1>9. /\ backups' \in [1 .. n -> Backups] /\ backups' \in Seq(Backups) /\ DOMAIN backups' = DOMAIN backups
        /\ \A i \in DOMAIN backups : i # k => backups'[i] = backups[i]
        /\ backups'[k] = [backups[k] EXCEPT !.marked = TRUE]
    <2>1. PICK c \in Backups : c = [backups[k] EXCEPT !.marked = TRUE]
      BY <1>7
    <2>2. backups' = [backups EXCEPT ![k] = c]
      BY <1>8, <2>1
    <2>3. /\ backups' \in [1 .. n -> Backups] /\ DOMAIN backups' = DOMAIN backups
          /\ \A i \in DOMAIN backups : i # k => backups'[i] = backups[i]
          /\ backups'[k] = c
      BY <1>3, <1>6, <2>2
    <2>4. backups' \in Seq(Backups)
      BY <1>3, <1>5, <2>2, ExceptSeq
    <2> QED
      BY <2>1, <2>3, <2>4
  <1>10. /\ backups'[k].marked = TRUE /\ backups'[k].from = backups[k].from /\ backups'[k].to = backups[k].to
         /\ backups'[k].files = backups[k].files /\ backups'[k].added = backups[k].added
         /\ backups'[k].manifest = backups[k].manifest /\ backups'[k].before = backups[k].before
    <2>1. backups[k] \in Backups
      BY <1>3, <1>6
    <2> QED
      BY <1>9, <2>1 DEF Backups
  <1>11. Unmarked' = Unmarked \ {k}
    BY <1>3, <1>9, <1>10 DEF Unmarked
  <1>12. run' \in [Agents -> Runs] /\ Others(a) /\ run'[a].pc = "start old"
    BY <1>1, <1>4, GoMoves
  <1>13. RunOK(a)'
    BY <1>1, <1>2, <1>12 DEF RunOK
  <1>14. FileType'
    BY <1>1, <1>9, <1>12 DEF FileType
  <1>15. BinaryOK(disk)'
    BY <1>1 DEF FilesInv, BinaryOK
  <1>16. ASSUME NEW i \in DOMAIN backups' PROVE BackupOK(backups[i])'
    <2>1. BackupOK(backups[i])
      BY <1>1, <1>9, <1>16
    <2>2. CASE i = k
      BY <1>10, <2>1, <2>2 DEF BackupOK, BinaryOK, Touched
    <2>3. CASE i # k
      <3>1. backups'[i] = backups[i]
        BY <1>9, <1>16, <2>3
      <3> QED
        BY <2>1, <3>1 DEF BackupOK, BinaryOK, Touched
    <2> QED
      BY <2>2, <2>3
  <1>17. ASSUME NEW i \in Unmarked' PROVE i \in Unmarked /\ i < k /\ backups'[i] = backups[i]
    BY <1>3, <1>5, <1>9, <1>11, <1>17 DEF Newest
  <1>18. ASSUME NEW i \in Unmarked', Newest(i)' PROVE Follows(disk, version, backups[i])'
    <2>1. i \in Unmarked /\ i < k /\ backups'[i] = backups[i]
      BY <1>17
    <2>2. ASSUME NEW j \in Unmarked PROVE j <= i \/ k <= j
      <3>1. CASE j = k
        BY <1>3, <3>1
      <3>2. CASE j # k
        BY <1>11, <1>18, <2>2, <3>2 DEF Newest
      <3> QED
        BY <3>1, <3>2
    <2>3. Follows(backups[k].before, backups[k].from, backups[i])
      BY <1>1, <1>3, <2>1, <2>2 DEF ChainOK
    <2>4. disk = backups[k].before /\ version = backups[k].from
      BY <1>2, <1>3
    <2> QED
      BY <1>1, <2>1, <2>3, <2>4 DEF Follows, Touched
  <1>19. ASSUME NEW i \in Unmarked', NEW j \in Unmarked', i < j, \A l \in Unmarked' : l <= i \/ j <= l
         PROVE  Follows(backups[j].before, backups[j].from, backups[i])'
    <2>1. i \in Unmarked /\ backups'[i] = backups[i] /\ j \in Unmarked /\ j < k /\ backups'[j] = backups[j]
      BY <1>17
    <2>2. ASSUME NEW l \in Unmarked PROVE l <= i \/ j <= l
      <3>1. CASE l = k
        <4>1. j \in Nat
          BY <1>5, <2>1
        <4> QED
          BY <1>3, <2>1, <3>1, <4>1
      <3>2. CASE l # k
        BY <1>11, <1>19, <2>2, <3>2
      <3> QED
        BY <3>1, <3>2
    <2>3. Follows(backups[j].before, backups[j].from, backups[i])
      BY <1>1, <1>19, <2>1, <2>2 DEF ChainOK
    <2> QED
      BY <2>1, <2>3 DEF Follows, Touched
  <1>20. ChainOK'
    BY <1>18, <1>19 DEF ChainOK
  <1>21. WholeOK'
    <2>1. ~torn => /\ StateOK(disk, manifest, version)
                   /\ \A i \in DOMAIN backups : StateOK(backups[i].before, backups[i].manifest, backups[i].from)
      BY <1>1, <1>2, HolderWhole
    <2>2. ~torn => \A i \in DOMAIN backups' : StateOK(backups'[i].before, backups'[i].manifest, backups'[i].from)
      <3> SUFFICES ASSUME ~torn, NEW i \in DOMAIN backups'
                   PROVE  StateOK(backups'[i].before, backups'[i].manifest, backups'[i].from)
        OBVIOUS
      <3>1. StateOK(backups[i].before, backups[i].manifest, backups[i].from)
        BY <1>9, <2>1
      <3>2. CASE i = k
        BY <1>10, <3>1, <3>2
      <3>3. CASE i # k
        BY <1>9, <3>1, <3>3
      <3> QED
        BY <3>2, <3>3
    <2> QED
      BY <1>1, <1>2, <2>1, <2>2 DEF WholeOK, StateOK, FilesOK
  <1> QED
    BY <1>2, <1>12, <1>13, <1>14, <1>15, <1>16, <1>20, <1>21, HolderStep

LEMMA HealthOldFiles ==
  ASSUME FilesInv, NEW a \in Agents, HealthOld(a)
  PROVE  FilesInv'
  <1>1. UNCHANGED fileVars /\ run[a].pc = "health old" /\ Leave(a)
    BY DEF HealthOld, fileVars, End
  <1> QED
    BY <1>1, EndFiles

\* A run killed in the middle of putting files back leaves the chain to go on from.
LEMMA KillFiles ==
  ASSUME FilesInv, NEW a \in Agents, Kill(a)
  PROVE  FilesInv'
  <1>0. FileType
    BY DEF FilesInv
  <1>1. /\ UNCHANGED <<manifest, version, served, backups>> /\ Leave(a) /\ FileType /\ RunOK(a) /\ BinaryOK(disk)
        /\ torn' = (torn \/ run[a].pc \in {"apply", "start", "undo", "restore", "mark", "start old"})
    BY DEF Kill, FilesInv
  <1>2. /\ run' \in [Agents -> Runs] /\ Others(a) /\ Waiting(run'[a]) /\ lock' \in Agents \cup {"none"}
    BY <1>1, LeaveMoves
  <1>3. RunOK(a)'
    BY <1>2, WaitingOK
  <1>4. BackupsKept /\ torn' \in BOOLEAN
    BY <1>1 DEF BackupsKept, FileType
  <1>5. (\A i \in DOMAIN backups : BackupOK(backups[i]))'
    BY <1>4, BackupsStay
  <1>6. CASE disk' = disk /\ run[a].pc \notin {"apply", "start", "undo", "restore", "mark", "start old"}
    <2>1. torn' = torn
      BY <1>1, <1>6 DEF FileType
    <2>2. UNCHANGED fileVars
      BY <1>1, <1>6, <2>1 DEF fileVars
    <2> QED
      BY <1>1, <1>6, <2>2, EndFiles
  <1>7. ASSUME run[a].pc \in {"apply", "start", "undo", "restore", "mark", "start old"},
               disk' \in Trees, BinaryOK(disk)', ChainOK'
        PROVE  FilesInv'
    <2>1. lock = a
      BY <1>1, <1>7 DEF RunOK
    <2>2. torn'
      BY <1>1, <1>7
    <2>3. FileType'
      BY <1>1, <1>2, <1>4, <1>7 DEF FileType
    <2>4. WholeOK'
      BY <2>2 DEF WholeOK
    <2> QED
      BY <1>2, <1>3, <1>5, <1>7, <2>1, <2>3, <2>4, HolderStep
  <1>8. CASE disk' = disk /\ run[a].pc \in {"apply", "start", "undo", "restore", "mark", "start old"}
    <2>1. disk' \in Trees /\ BinaryOK(disk)'
      BY <1>1, <1>8 DEF FileType, BinaryOK
    <2>2. ChainOK'
      <3>1. disk' = disk /\ version' = version /\ backups' = backups
        BY <1>1, <1>8
      <3> QED
        BY <3>1 DEF FilesInv, ChainOK, Newest, Unmarked, Follows, Touched
    <2> QED
      BY <1>7, <1>8, <2>1, <2>2
  <1>9. CASE /\ run[a].pc = "restore"
             /\ \E done \in SUBSET Touched(backups[run[a].bk]) : disk' = RestoredTree(backups[run[a].bk], done)
    <2>1. Newest(run[a].bk)
      BY <1>1, <1>9 DEF RunOK
    <2>2. PICK k \in Nat : k = run[a].bk /\ Newest(k) /\ k \in DOMAIN backups /\ k \in Unmarked
      BY <1>0, <2>1, NewestIs DEF Newest
    <2>3. PICK b \in Backups : b = backups[k] /\ BackupOK(b)
      BY <1>0, <2>2 DEF FileType, FilesInv
    <2>4. Follows(disk, version, b)
      BY <2>2, <2>3 DEF FilesInv, ChainOK
    <2>5. PICK done \in SUBSET Touched(b) : disk' = RestoredTree(b, done)
      BY <1>9, <2>2, <2>3
    <2>6. disk \in Trees
      BY <1>1 DEF FileType
    <2>7. disk' \in Trees /\ BinaryOK(disk') /\ Follows(disk', version, b)
      BY <1>1, <2>3, <2>4, <2>5, <2>6, RestoredPartly
    <2>8. BinaryOK(disk)'
      BY <2>7 DEF BinaryOK
    <2>9. Follows(disk, version, backups[k])'
      BY <1>1, <2>3, <2>7 DEF Follows, Touched
    <2>10. ChainOK'
      BY <1>4, <2>2, <2>9, DiskChain
    <2> QED
      BY <1>7, <1>9, <2>7, <2>8, <2>10
  <1> QED
    BY <1>6, <1>8, <1>9 DEF Kill

LEMMA FilesInitially ==
  ASSUME UpdInit
  PROVE  FilesInv
  <1>1. /\ disk \in FirstTrees /\ manifest = FirstManifest /\ version = 1 /\ served = 1 /\ backups = <<>>
        /\ run = [a \in Agents |-> NoRun] /\ lock = "none" /\ torn = FALSE /\ 1 \in Versions
    BY UpdatesAssumption DEF UpdInit
  <1>2. disk \in Trees
    <2>1. disk = [p \in DOMAIN disk |-> disk[p]]
      BY <1>1, UpdatesAssumption
    <2>2. DOMAIN disk \in SUBSET Paths
      BY <1>1 DEF Paths
    <2>3. \A p \in DOMAIN disk : disk[p] \in Contents
      BY <1>1 DEF Contents
    <2>4. disk \in [DOMAIN disk -> Contents]
      BY <2>1, <2>3
    <2> QED
      BY <2>2, <2>4 DEF Trees
  <1>3. FileType
    <2>1. manifest \in Manifests /\ served \in NoVersion /\ version \in Versions
      BY <1>1 DEF Manifests, NoVersion
    <2>2. run \in [Agents -> Runs]
      BY <1>1, NoRunOK
    <2>3. backups \in Seq(Backups)
      BY <1>1
    <2>4. torn \in BOOLEAN /\ lock \in Agents \cup {"none"}
      BY <1>1
    <2> QED
      BY <1>2, <2>1, <2>2, <2>3, <2>4 DEF FileType
  <1>4. StateOK(disk, manifest, version)
    BY <1>1 DEF StateOK
  <1>5. BinaryOK(disk)
    BY <1>1, <1>4, StateBinary DEF BinaryOK
  <1>6. DOMAIN backups = {} /\ Unmarked = {}
    BY <1>1 DEF Unmarked
  <1>7. ChainOK
    BY <1>6 DEF ChainOK
  <1>8. \A a \in Agents : RunOK(a)
    BY <1>1, NoRunOK DEF RunOK
  <1>9. WholeOK
    BY <1>1, <1>4, <1>6 DEF WholeOK
  <1> QED
    BY <1>3, <1>5, <1>6, <1>7, <1>8, <1>9 DEF FilesInv

LEMMA FilesNext ==
  ASSUME FilesInv, PageType, [UpdNext]_updVars
  PROVE  FilesInv'
  <1>1. CASE UNCHANGED <<disk, manifest, version, served, backups, torn, run, lock>>
    BY <1>1, ServerFiles DEF fileVars
  <1>2. CASE Check \/ Age
    BY <1>1, <1>2 DEF Check, Age
  <1>3. CASE ReadRequest
    BY <1>3, ReadRequestFiles
  <1>4. ASSUME NEW h \in Handlers, NEW action, NEW v, Ask(h, action, v) \/ WriteRequest(h) \/ WriteProgress(h)
        PROVE  FilesInv'
    BY <1>1, <1>4 DEF Ask, WriteRequest, WriteProgress
  <1>5. ASSUME NEW h \in Handlers, Launch(h) PROVE FilesInv'
    BY <1>5, LaunchFiles
  <1>6. ASSUME NEW action \in {"install", "rollback"}, NEW v \in Versions \cup {0}, Command(action, v) PROVE FilesInv'
    BY <1>6, CommandFiles DEF NoVersion
  <1>7. ASSUME NEW a \in Agents, RunStep(a) PROVE FilesInv'
    BY <1>7, TakeLockFiles, PrepareFiles, PlanFiles, BackupFiles, StopFiles, ApplyFiles, BeginFiles,
       HealthFiles, UndoFiles, RestoreFiles, MarkFiles, HealthOldFiles DEF RunStep
  <1>8. ASSUME NEW a \in Agents, Kill(a) PROVE FilesInv'
    BY <1>8, KillFiles
  <1>9. CASE UNCHANGED updVars
    BY <1>1, <1>9 DEF updVars
  <1> QED
    BY <1>2, <1>3, <1>4, <1>5, <1>6, <1>7, <1>8, <1>9 DEF UpdNext
-----------------------------------------------------------------------------
(* Every step, and the page.                                               *)

Idle == [h \in Handlers |-> NoAsk]
States == {"none", "queued", "running", "done", "failed", "rolled-back"}

\* What a step of a run does that the page sees.
RunMoves(a) ==
    /\ run[a].pc # "off" /\ Others(a)
    /\ run'[a].pc \in {"off", "launched"} => run'[a].action = "none"
    /\ run'[a].action # "none" => run'[a].action = run[a].action
    /\ (ask' = ask /\ (served' # 0 \/ served' = served)) \/ ask' = Idle
    /\ progress' = progress \/ (a = "unit" /\ progress' \in Reports /\ (Active' \/ run'[a].action = "none"))
    /\ request' = request /\ cache' = cache /\ runs' = runs /\ muddled' = muddled

LEMMA NoAskOK == NoAsk \in Asks /\ NoAsk.pc = "idle"
  BY DEF NoAsk, Asks, Actions, NoVersion

LEMMA Reported ==
  ASSUME NEW a \in Agents, NEW state \in States, Report(a, state)
  PROVE  progress' = progress \/ (a = "unit" /\ progress' \in Reports /\ (state = "running" => Active'))
  <1>1. CASE a = "unit"
    <2>1. progress' = [state |-> state, stale |-> FALSE]
      BY <1>1 DEF Report
    <2>2. progress' \in Reports
      BY <2>1 DEF Reports, States
    <2>3. state = "running" => Active'
      BY <2>1 DEF Active
    <2> QED
      BY <1>1, <2>2, <2>3
  <1>2. CASE a # "unit"
    BY <1>2 DEF Report
  <1> QED
    BY <1>1, <1>2

LEMMA MovesPage ==
  ASSUME PageType, UnitOK, NEW a \in Agents, RunMoves(a), kills' \in 0 .. MaxKills
  PROVE  PageType' /\ UnitOK'
  <1>1. ask' \in [Handlers -> Asks] /\ progress' \in Reports
    BY NoAskOK DEF PageType, RunMoves, Idle
  <1>2. PageType'
    BY <1>1 DEF PageType, RunMoves
  <1>3. ASSUME NEW h \in Handlers, ask'[h].pc # "idle" PROVE served' # 0 /\ ask' = ask /\ ask[h].pc # "idle"
    <2>1. CASE ask' = Idle
      BY <1>3, <2>1, NoAskOK DEF Idle
    <2>2. CASE ask' = ask /\ (served' # 0 \/ served' = served)
      BY <1>3, <2>2 DEF UnitOK
    <2> QED
      BY <2>1, <2>2 DEF RunMoves
  <1>4. run'["unit"].pc \in {"off", "launched"} => run'["unit"].action = "none"
    BY DEF UnitOK, RunMoves, Others, Agents
  <1>5. ASSUME ~muddled', NEW h \in Handlers, ask'[h].pc # "idle"
        PROVE  run'["unit"].pc = "off" /\ \A g \in Handlers : g # h => ask'[g].pc = "idle"
    <2>1. ~muddled /\ ask' = ask /\ ask[h].pc # "idle"
      BY <1>3, <1>5 DEF RunMoves
    <2>2. run["unit"].pc = "off" /\ \A g \in Handlers : g # h => ask[g].pc = "idle"
      BY <2>1 DEF UnitOK
    <2>3. a # "unit" /\ run'["unit"] = run["unit"]
      BY <2>2 DEF RunMoves, Others, Agents
    <2> QED
      BY <2>1, <2>2, <2>3
  <1>6. ASSUME ~muddled', run'["unit"].action # "none" PROVE Active'
    <2>1. ~muddled /\ run["unit"].action # "none"
      BY <1>6 DEF RunMoves, Others, Agents
    <2>2. Active
      BY <2>1 DEF UnitOK
    <2>3. CASE progress' = progress
      BY <2>2, <2>3 DEF Active
    <2>4. CASE progress' # progress
      BY <1>6, <2>4 DEF RunMoves
    <2> QED
      BY <2>3, <2>4
  <1>7. UnitOK'
    <2>1. \A h \in Handlers : ask'[h].pc # "idle" => served' # 0
      BY <1>3
    <2>2. ~muddled' => \A h \in Handlers : ask'[h].pc # "idle" =>
            run'["unit"].pc = "off" /\ \A g \in Handlers : g # h => ask'[g].pc = "idle"
      BY <1>5
    <2>3. ~muddled' => (run'["unit"].action # "none" => Active')
      BY <1>6
    <2> QED
      BY <1>4, <2>1, <2>2, <2>3 DEF UnitOK
  <1> QED
    BY <1>2, <1>7

\* Going on to another step, with or without a report.
LEMMA GoPage ==
  ASSUME FileType, NEW a \in Agents, NEW pc \in Steps, pc \notin {"off", "launched"}, Go(a, pc),
         run[a].pc # "off", progress' = progress \/ Report(a, "running"),
         (ask' = ask /\ (served' # 0 \/ served' = served)) \/ ask' = Idle,
         UNCHANGED <<request, cache, runs, muddled>>
  PROVE  RunMoves(a)
  <1>1. Others(a) /\ run'[a].pc = pc /\ run'[a].action = run[a].action
    BY GoMoves
  <1>2. progress' = progress \/ (a = "unit" /\ progress' \in Reports /\ Active')
    BY Reported DEF States
  <1> QED
    BY <1>1, <1>2 DEF RunMoves

\* The same, with more of the run set.
LEMMA SetPage ==
  ASSUME FileType, NEW a \in Agents, NEW r, run' = [run EXCEPT ![a] = r], r.action = run[a].action,
         r.pc \notin {"off", "launched"}, run[a].pc # "off", Report(a, "running"), ask' = ask, served' = served,
         UNCHANGED <<request, cache, runs, muddled>>
  PROVE  RunMoves(a)
  <1>1. Others(a) /\ run'[a] = r
    BY DEF FileType, Others
  <1>2. progress' = progress \/ (a = "unit" /\ progress' \in Reports /\ Active')
    BY Reported DEF States
  <1> QED
    BY <1>1, <1>2 DEF RunMoves

\* Ending.
LEMMA EndPage ==
  ASSUME FileType, NEW a \in Agents, NEW state \in States, Leave(a), progress' = progress \/ Report(a, state),
         run[a].pc # "off", ask' = ask, served' = served, UNCHANGED <<request, cache, runs, muddled>>
  PROVE  RunMoves(a)
  <1>1. Others(a) /\ run'[a] = NoRun
    BY LeaveMoves
  <1>2. progress' = progress \/ (a = "unit" /\ progress' \in Reports)
    BY Reported
  <1> QED
    BY <1>1, <1>2, NoRunOK DEF RunMoves
LEMMA RunStepPage ==
  ASSUME FilesInv, PageType, UnitOK, NEW a \in Agents, RunStep(a)
  PROVE  PageType' /\ UnitOK'
  <1>1. FileType /\ run \in [Agents -> Runs] /\ BinaryOK(disk)
    BY DEF FilesInv, FileType
  <1>2. /\ "package" \in Steps /\ "apply" \in Steps /\ "restore" \in Steps /\ "start" \in Steps /\ "undo" \in Steps
        /\ "health" \in Steps /\ "health old" \in Steps /\ "mark" \in Steps /\ "start old" \in Steps
        /\ "failed" \in States /\ "done" \in States /\ "rolled-back" \in States
    BY DEF Steps, States
  <1>3. UNCHANGED <<request, cache, runs, kills, muddled>> /\ run[a].pc # "off"
    BY DEF RunStep, TakeLock, Prepare, Plan, Backup, Stop, Apply, Begin, Health, Undo, Restore, Mark, HealthOld
  <1>4. CASE TakeLock(a)
    <2>1. ask' = ask /\ served' = served
      BY <1>4 DEF TakeLock
    <2>2. ASSUME Go(a, "package") /\ Report(a, "running") PROVE RunMoves(a)
      BY <1>1, <1>2, <1>3, <2>1, <2>2, GoPage
    <2>3. ASSUME run' = [run EXCEPT ![a].pc = "stop", ![a].bk = NewestUnmarked] /\ Report(a, "running") PROVE RunMoves(a)
      <3> DEFINE r == [[run[a] EXCEPT !.pc = "stop"] EXCEPT !.bk = NewestUnmarked]
      <3>1. run' = [run EXCEPT ![a] = r]
        BY <1>1, <2>3
      <3>2. r.action = run[a].action /\ r.pc = "stop"
        BY <1>1 DEF Runs
      <3> HIDE DEF r
      <3> QED
        BY <1>1, <1>3, <2>1, <2>3, <3>1, <3>2, SetPage
    <2>4. ASSUME End(a, "failed") PROVE RunMoves(a)
      BY <1>1, <1>2, <1>3, <2>1, <2>4, EndPage DEF End
    <2>5. RunMoves(a)
      BY <1>4, <2>2, <2>3, <2>4 DEF TakeLock
    <2> QED
      BY <1>3, <2>5, MovesPage DEF PageType
  <1>5. CASE Prepare(a)
    <2>1. ask' = ask /\ served' = served
      BY <1>5 DEF Prepare
    <2>2. ASSUME run' = [run EXCEPT ![a].pc = "plan", ![a].to = run[a].want] /\ Report(a, "running") PROVE RunMoves(a)
      <3> DEFINE r == [[run[a] EXCEPT !.pc = "plan"] EXCEPT !.to = run[a].want]
      <3>1. run' = [run EXCEPT ![a] = r]
        BY <1>1, <2>2
      <3>2. r.action = run[a].action /\ r.pc = "plan"
        BY <1>1 DEF Runs
      <3> HIDE DEF r
      <3> QED
        BY <1>1, <1>3, <2>1, <2>2, <3>1, <3>2, SetPage
    <2>3. ASSUME End(a, "failed") PROVE RunMoves(a)
      BY <1>1, <1>2, <1>3, <2>1, <2>3, EndPage DEF End
    <2>4. RunMoves(a)
      BY <1>5, <2>2, <2>3 DEF Prepare
    <2> QED
      BY <1>3, <2>4, MovesPage DEF PageType
  <1>6. CASE Plan(a)
    <2>1. ask' = ask /\ served' = served /\ Report(a, "running")
      BY <1>6 DEF Plan
    <2>2. PICK new, gone :
            run' = [run EXCEPT ![a].pc = "backup", ![a].replace = Replaced(new), ![a].add = Added(new),
                               ![a].unowned = Unowned(new), ![a].delete = gone]
      BY <1>6 DEF Plan
    <2> DEFINE r == [[[[[run[a] EXCEPT !.pc = "backup"] EXCEPT !.replace = Replaced(new)] EXCEPT !.add = Added(new)]
                       EXCEPT !.unowned = Unowned(new)] EXCEPT !.delete = gone]
    <2>3. run' = [run EXCEPT ![a] = r]
      BY <1>1, <2>2
    <2>4. r.action = run[a].action /\ r.pc = "backup"
      BY <1>1 DEF Runs
    <2> HIDE DEF r
    <2>5. RunMoves(a)
      BY <1>1, <1>3, <2>1, <2>3, <2>4, SetPage
    <2> QED
      BY <1>3, <2>5, MovesPage DEF PageType
  <1>7. CASE Backup(a)
    <2>1. ask' = ask /\ served' = served
      BY <1>7 DEF Backup
    <2>2. ASSUME run' = [run EXCEPT ![a].pc = "stop", ![a].bk = Len(backups) + 1] /\ Report(a, "running") PROVE RunMoves(a)
      <3> DEFINE r == [[run[a] EXCEPT !.pc = "stop"] EXCEPT !.bk = Len(backups) + 1]
      <3>1. run' = [run EXCEPT ![a] = r]
        BY <1>1, <2>2
      <3>2. r.action = run[a].action /\ r.pc = "stop"
        BY <1>1 DEF Runs
      <3> HIDE DEF r
      <3> QED
        BY <1>1, <1>3, <2>1, <2>2, <3>1, <3>2, SetPage
    <2>3. ASSUME End(a, "failed") PROVE RunMoves(a)
      BY <1>1, <1>2, <1>3, <2>1, <2>3, EndPage DEF End
    <2>4. RunMoves(a)
      BY <1>7, <2>2, <2>3 DEF Backup
    <2> QED
      BY <1>3, <2>4, MovesPage DEF PageType
  <1>8. CASE Stop(a)
    <2>1. progress' = progress /\ ask' = Idle /\ (Go(a, "apply") \/ Go(a, "restore"))
      BY <1>8 DEF Stop, Idle
    <2>2. RunMoves(a)
      BY <1>1, <1>2, <1>3, <2>1, GoPage
    <2> QED
      BY <1>3, <2>2, MovesPage DEF PageType
  <1>9. CASE Apply(a)
    <2>1. progress' = progress /\ ask' = ask /\ served' = served /\ (Go(a, "start") \/ Go(a, "undo"))
      BY <1>9 DEF Apply
    <2>2. RunMoves(a)
      BY <1>1, <1>2, <1>3, <2>1, GoPage
    <2> QED
      BY <1>3, <2>2, MovesPage DEF PageType
  <1>10. CASE Begin(a)
    <2>1. progress' = progress /\ ask' = ask /\ served' = BinaryVersion /\ (Go(a, "health") \/ Go(a, "health old"))
      BY <1>10 DEF Begin
    <2>2. served' # 0
      <3>1. \E v \in Versions : Package[v][Binary] = disk[Binary]
        BY <1>1 DEF BinaryOK
      <3>2. BinaryVersion \in Versions
        BY <3>1 DEF BinaryVersion
      <3> QED
        BY <2>1, <3>2, UpdatesAssumption
    <2>3. RunMoves(a)
      BY <1>1, <1>2, <1>3, <2>1, <2>2, GoPage
    <2> QED
      BY <1>3, <2>3, MovesPage DEF PageType
  <1>11. CASE Health(a)
    <2>1. ask' = ask /\ served' = served
      BY <1>11 DEF Health
    <2>2. ASSUME End(a, "done") PROVE RunMoves(a)
      BY <1>1, <1>2, <1>3, <2>1, <2>2, EndPage DEF End
    <2>3. ASSUME Go(a, "undo") /\ progress' = progress PROVE RunMoves(a)
      BY <1>1, <1>2, <1>3, <2>1, <2>3, GoPage
    <2>4. RunMoves(a)
      BY <1>11, <2>2, <2>3 DEF Health
    <2> QED
      BY <1>3, <2>4, MovesPage DEF PageType
  <1>12. CASE Undo(a)
    <2>1. ask' = Idle /\ Go(a, "restore") /\ Report(a, "running")
      BY <1>12 DEF Undo, Idle
    <2>2. RunMoves(a)
      BY <1>1, <1>2, <1>3, <2>1, GoPage
    <2> QED
      BY <1>3, <2>2, MovesPage DEF PageType
  <1>13. CASE Restore(a) \/ Mark(a)
    <2>1. progress' = progress /\ ask' = ask /\ served' = served /\ (Go(a, "mark") \/ Go(a, "start old"))
      BY <1>13 DEF Restore, Mark
    <2>2. RunMoves(a)
      BY <1>1, <1>2, <1>3, <2>1, GoPage
    <2> QED
      BY <1>3, <2>2, MovesPage DEF PageType
  <1>14. CASE HealthOld(a)
    <2>1. ask' = ask /\ served' = served /\ (End(a, "rolled-back") \/ End(a, "done") \/ End(a, "failed"))
      BY <1>14 DEF HealthOld
    <2>2. RunMoves(a)
      BY <1>1, <1>2, <1>3, <2>1, EndPage DEF End
    <2> QED
      BY <1>3, <2>2, MovesPage DEF PageType
  <1> QED
    BY <1>4, <1>5, <1>6, <1>7, <1>8, <1>9, <1>10, <1>11, <1>12, <1>13, <1>14 DEF RunStep

LEMMA KillPage ==
  ASSUME FilesInv, PageType, UnitOK, NEW a \in Agents, Kill(a)
  PROVE  PageType' /\ UnitOK'
  <1>1. /\ Leave(a) /\ run[a].pc # "off" /\ ask' = ask /\ served' = served
        /\ UNCHANGED <<request, cache, runs, muddled>> /\ (progress' = progress \/ Report(a, "failed"))
    BY DEF Kill
  <1>2. FileType /\ "failed" \in States
    BY DEF FilesInv, States
  <1>3. kills' \in 0 .. MaxKills
    <2>1. kills \in 0 .. MaxKills /\ kills < MaxKills /\ kills' = kills + 1 /\ MaxKills \in Nat
      BY UpdatesAssumption DEF Kill, PageType
    <2> QED
      BY <2>1
  <1>4. RunMoves(a)
    BY <1>1, <1>2, EndPage
  <1> QED
    BY <1>3, <1>4, MovesPage
LEMMA AskPage ==
  ASSUME PageType, UnitOK, NEW h \in Handlers, NEW action \in {"install", "rollback"}, NEW v \in Versions \cup {0},
         Ask(h, action, v)
  PROVE  PageType' /\ UnitOK'
  <1> DEFINE new == [pc |-> "request", action |-> action, version |-> v]
  <1>1. /\ UNCHANGED <<request, progress, run, cache, kills, served>> /\ served # 0 /\ runs < MaxRuns /\ runs' = runs + 1
        /\ ask' = [ask EXCEPT ![h] = new]
    BY DEF Ask
  <1>2. muddled' <=> (muddled \/ (\E g \in Handlers : ask[g].pc # "idle") \/ run["unit"].pc # "off")
    BY DEF Ask
  <1>3. new \in Asks
    BY DEF Asks, Actions, NoVersion
  <1> HIDE DEF new
  <1>4. ask \in [Handlers -> Asks] /\ runs \in 0 .. MaxRuns /\ MaxRuns \in Nat
    BY UpdatesAssumption DEF PageType
  <1>5. ask' \in [Handlers -> Asks] /\ \A g \in Handlers : g # h => ask'[g] = ask[g]
    BY <1>1, <1>3, <1>4
  <1>6. runs' \in 0 .. MaxRuns
    BY <1>1, <1>4
  <1>7. muddled' \in BOOLEAN
    BY DEF Ask
  <1>8. PageType'
    BY <1>1, <1>5, <1>6, <1>7 DEF PageType
  <1>9. ASSUME ~muddled' PROVE ~muddled /\ run'["unit"].pc = "off" /\ \A g \in Handlers : g # h => ask'[g].pc = "idle"
    BY <1>1, <1>2, <1>5, <1>9
  <1>10. run'["unit"].pc \in {"off", "launched"} => run'["unit"].action = "none"
    BY <1>1 DEF UnitOK
  <1>11. ASSUME ~muddled', NEW g \in Handlers, ask'[g].pc # "idle"
         PROVE  run'["unit"].pc = "off" /\ \A f \in Handlers : f # g => ask'[f].pc = "idle"
    <2>1. g = h
      BY <1>9, <1>11
    <2> QED
      BY <1>9, <1>11, <2>1
  <1>12. \A g \in Handlers : ask'[g].pc # "idle" => served' # 0
    BY <1>1
  <1>13. ~muddled' => (run'["unit"].action # "none" => Active')
    BY <1>9, <1>10
  <1>14. UnitOK'
    BY <1>10, <1>11, <1>12, <1>13 DEF UnitOK
  <1> QED
    BY <1>8, <1>14

\* The two writes of a request under way.
LEMMA WritePage ==
  ASSUME PageType, UnitOK, NEW h \in Handlers, WriteRequest(h) \/ WriteProgress(h)
  PROVE  PageType' /\ UnitOK'
  <1>1. /\ UNCHANGED <<run, cache, kills, runs, served, muddled>> /\ ask[h].pc # "idle"
        /\ ask' = [ask EXCEPT ![h].pc = "progress"] \/ ask' = [ask EXCEPT ![h].pc = "launch"]
        /\ request' \in {request, ask[h]} /\ progress' \in {progress, [state |-> "queued", stale |-> FALSE]}
    BY DEF WriteRequest, WriteProgress
  <1>2. ask \in [Handlers -> Asks]
    BY DEF PageType
  <1>3. ask' \in [Handlers -> Asks] /\ \A g \in Handlers : g # h => ask'[g] = ask[g]
    BY <1>1, <1>2 DEF Asks
  <1>4. [state |-> "queued", stale |-> FALSE] \in Reports
    BY DEF Reports
  <1>5. PageType'
    BY <1>1, <1>2, <1>3, <1>4 DEF PageType
  <1>6. \A g \in Handlers : ask'[g].pc # "idle" => ask[g].pc # "idle"
    BY <1>1, <1>3
  <1>7. \A g \in Handlers : ask'[g].pc # "idle" => served' # 0
    BY <1>1, <1>6 DEF UnitOK
  <1>8. ASSUME ~muddled', NEW g \in Handlers, ask'[g].pc # "idle"
        PROVE  run'["unit"].pc = "off" /\ \A f \in Handlers : f # g => ask'[f].pc = "idle"
    <2>1. ~muddled /\ ask[g].pc # "idle"
      BY <1>1, <1>6, <1>8
    <2>2. run["unit"].pc = "off" /\ \A f \in Handlers : f # g => ask[f].pc = "idle"
      BY <2>1 DEF UnitOK
    <2> QED
      BY <1>1, <1>6, <2>2
  <1>9. ASSUME Active PROVE Active'
    <2>1. CASE progress' = progress
      BY <1>9, <2>1 DEF Active
    <2>2. CASE progress' = [state |-> "queued", stale |-> FALSE]
      BY <2>2 DEF Active
    <2> QED
      BY <1>1, <2>1, <2>2
  <1>10. /\ run'["unit"].pc \in {"off", "launched"} => run'["unit"].action = "none"
         /\ ~muddled' => (run'["unit"].action # "none" => Active')
    BY <1>1, <1>9 DEF UnitOK
  <1>11. UnitOK'
    BY <1>7, <1>8, <1>10 DEF UnitOK
  <1> QED
    BY <1>5, <1>11

LEMMA LaunchPage ==
  ASSUME FileType, PageType, UnitOK, NEW h \in Handlers, Launch(h)
  PROVE  PageType' /\ UnitOK'
  <1>1. /\ UNCHANGED <<cache, kills, runs, served, muddled>> /\ ask[h].pc # "idle" /\ ask' = [ask EXCEPT ![h] = NoAsk]
        /\ request' \in {request, NoAsk} /\ progress' \in {progress, NoProgress}
    BY DEF Launch
  <1>2. ask \in [Handlers -> Asks] /\ run \in [Agents -> Runs] /\ "unit" \in Agents
    BY DEF PageType, FileType, Agents
  <1>3. ask' \in [Handlers -> Asks] /\ ask'[h].pc = "idle" /\ \A g \in Handlers : g # h => ask'[g] = ask[g]
    BY <1>1, <1>2, NoAskOK
  <1>4. NoProgress \in Reports
    BY DEF NoProgress, Reports
  <1>5. PageType'
    BY <1>1, <1>3, <1>4, NoAskOK DEF PageType
  <1>6. run["unit"].pc = "off" => run["unit"].action = "none"
    BY DEF UnitOK
  <1>7. /\ run'["unit"].pc \in {"off", "launched"} => run'["unit"].action = "none"
        /\ run'["unit"].action = run["unit"].action
    <2>1. CASE run["unit"].pc = "off" /\ run' = [run EXCEPT !["unit"].pc = "launched"]
      <3>1. run'["unit"].action = run["unit"].action
        BY <1>2, <2>1 DEF Runs
      <3> QED
        BY <1>6, <2>1, <3>1
    <2>2. CASE run' = run
      BY <2>2 DEF UnitOK
    <2> QED
      BY <2>1, <2>2 DEF Launch
  <1>8. ASSUME ~muddled' PROVE run["unit"].pc = "off" /\ \A g \in Handlers : ask'[g].pc = "idle"
    <2>1. run["unit"].pc = "off" /\ \A g \in Handlers : g # h => ask[g].pc = "idle"
      BY <1>1, <1>8 DEF UnitOK
    <2> QED
      BY <1>3, <2>1
  <1>9. \A g \in Handlers : ask'[g].pc # "idle" => served' # 0
    BY <1>1, <1>3 DEF UnitOK
  <1>10. UnitOK'
    BY <1>6, <1>7, <1>8, <1>9 DEF UnitOK
  <1> QED
    BY <1>5, <1>10

LEMMA AgePage ==
  ASSUME PageType, UnitOK, Age
  PROVE  PageType' /\ UnitOK'
  <1>1. UNCHANGED <<request, ask, run, cache, kills, runs, served>> /\ progress' = [progress EXCEPT !.stale = TRUE]
    BY DEF Age
  <1>2. (muddled' <=> (muddled \/ run["unit"].pc # "off")) /\ muddled' \in BOOLEAN
    BY DEF Age
  <1>3. progress' \in Reports
    BY <1>1 DEF PageType, Reports
  <1>4. PageType'
    BY <1>1, <1>2, <1>3 DEF PageType
  <1>5. ASSUME ~muddled' PROVE ~muddled /\ run'["unit"].action = "none"
    BY <1>1, <1>2, <1>5 DEF UnitOK
  <1>6. UnitOK'
    BY <1>1, <1>5 DEF UnitOK
  <1> QED
    BY <1>4, <1>6

LEMMA ReadRequestPage ==
  ASSUME FileType, PageType, UnitOK, ReadRequest
  PROVE  PageType' /\ UnitOK'
  <1>1. UNCHANGED <<ask, cache, kills, runs, served, muddled>> /\ request' = NoAsk /\ run["unit"].pc = "launched"
    BY DEF ReadRequest
  <1>2. run \in [Agents -> Runs] /\ "unit" \in Agents
    BY DEF FileType, Agents
  <1>3. \/ run'["unit"] = NoRun /\ progress' = progress
        \/ run'["unit"].pc = "lock" /\ Report("unit", "running")
    <2>1. CASE run' = [run EXCEPT !["unit"] = NoRun] /\ progress' = progress
      BY <1>2, <2>1
    <2>2. CASE /\ run' = [run EXCEPT !["unit"] = [NoRun EXCEPT !.pc = "lock", !.action = request.action, !.want = request.version]]
               /\ Report("unit", "running")
      <3>1. request.action \in Actions /\ request.version \in NoVersion
        BY DEF PageType, Asks
      <3>2. [NoRun EXCEPT !.pc = "lock", !.action = request.action, !.want = request.version].pc = "lock"
        BY <3>1, AtLock
      <3> QED
        BY <1>2, <2>2, <3>2
    <2> QED
      BY <2>1, <2>2 DEF ReadRequest
  <1>4. progress' \in Reports /\ (Report("unit", "running") => Active')
    <2>3. ASSUME Report("unit", "running") PROVE Active'
      <3>1. progress' = [state |-> "running", stale |-> FALSE]
        BY <2>3 DEF Report
      <3> QED
        BY <3>1 DEF Active
    <2>4. progress' \in Reports
      <3>1. [state |-> "running", stale |-> FALSE] \in Reports
        BY DEF Reports
      <3> QED
        BY <1>3, <3>1 DEF PageType, Report
    <2> QED
      BY <2>3, <2>4
  <1>5. PageType'
    BY <1>1, <1>4, NoAskOK DEF PageType
  <1>6. /\ run'["unit"].pc \in {"off", "launched"} => run'["unit"].action = "none"
        /\ run'["unit"].action # "none" => Active'
    BY <1>3, <1>4, NoRunOK
  <1>7. ASSUME ~muddled', NEW h \in Handlers PROVE ask'[h].pc = "idle"
    BY <1>1, <1>7 DEF UnitOK
  <1>8. \A h \in Handlers : ask'[h].pc # "idle" => served' # 0
    BY <1>1 DEF UnitOK
  <1>9. UnitOK'
    BY <1>6, <1>7, <1>8 DEF UnitOK
  <1> QED
    BY <1>5, <1>9

LEMMA CommandPage ==
  ASSUME FileType, PageType, UnitOK, NEW action, NEW v, Command(action, v)
  PROVE  PageType' /\ UnitOK'
  <1>1. /\ UNCHANGED <<request, progress, ask, cache, kills, served, muddled>> /\ runs < MaxRuns /\ runs' = runs + 1
        /\ run' = [run EXCEPT !["cli"] = [NoRun EXCEPT !.pc = "lock", !.action = action, !.want = v]]
    BY DEF Command
  <1>2. run'["unit"] = run["unit"]
    BY <1>1 DEF FileType, Agents
  <1>3. runs \in 0 .. MaxRuns /\ MaxRuns \in Nat
    BY UpdatesAssumption DEF PageType
  <1>4. runs' \in 0 .. MaxRuns
    BY <1>1, <1>3
  <1>5. PageType'
    BY <1>1, <1>4 DEF PageType
  <1>6. UnitOK'
    BY <1>1, <1>2 DEF UnitOK, Active
  <1> QED
    BY <1>5, <1>6

LEMMA PageQuiet ==
  ASSUME PageType, UnitOK, UNCHANGED <<request, progress, ask, run, served, runs, kills, muddled>>, cache' \subseteq Versions
  PROVE  PageType' /\ UnitOK'
  <1>1. PageType'
    BY DEF PageType
  <1>2. UnitOK'
    BY DEF UnitOK, Active
  <1> QED
    BY <1>1, <1>2

LEMMA PageInitially ==
  ASSUME UpdInit
  PROVE  PageType /\ UnitOK
  <1>1. /\ served = 1 /\ request = NoAsk /\ progress = NoProgress /\ ask = [h \in Handlers |-> NoAsk]
        /\ run = [a \in Agents |-> NoRun] /\ cache = {} /\ runs = 0 /\ kills = 0 /\ muddled = FALSE
        /\ MaxRuns \in Nat /\ MaxKills \in Nat
    BY UpdatesAssumption DEF UpdInit
  <1>2. NoProgress \in Reports
    BY DEF NoProgress, Reports
  <1>3. PageType
    <2>1. ask \in [Handlers -> Asks] /\ request \in Asks
      BY <1>1, NoAskOK
    <2>2. muddled \in BOOLEAN /\ cache \subseteq Versions
      BY <1>1
    <2>3. runs \in 0 .. MaxRuns /\ kills \in 0 .. MaxKills
      BY <1>1
    <2>4. progress \in Reports
      BY <1>1, <1>2
    <2> QED
      BY <2>1, <2>2, <2>3, <2>4 DEF PageType
  <1>4. (\A h \in Handlers : ask[h].pc = "idle") /\ run["unit"] = NoRun
    BY <1>1, NoAskOK DEF Agents
  <1>5. UnitOK
    BY <1>4, NoRunOK DEF UnitOK
  <1> QED
    BY <1>3, <1>5

LEMMA PageNext ==
  ASSUME UpdIInv, [UpdNext]_updVars
  PROVE  PageType' /\ UnitOK'
  <1>1. FilesInv /\ FileType /\ PageType /\ UnitOK
    BY DEF UpdIInv, FilesInv
  <1>2. CASE Check
    <2>1. cache' \subseteq Versions
      BY <1>2 DEF Check, Fetched
    <2> QED
      BY <1>1, <1>2, <2>1, PageQuiet DEF Check
  <1>3. CASE Age
    BY <1>1, <1>3, AgePage
  <1>4. CASE ReadRequest
    BY <1>1, <1>4, ReadRequestPage
  <1>5. ASSUME NEW h \in Handlers, NEW action \in {"install", "rollback"}, NEW v \in Versions \cup {0}, Ask(h, action, v)
        PROVE  PageType' /\ UnitOK'
    BY <1>1, <1>5, AskPage
  <1>6. ASSUME NEW h \in Handlers, WriteRequest(h) \/ WriteProgress(h) PROVE PageType' /\ UnitOK'
    BY <1>1, <1>6, WritePage
  <1>7. ASSUME NEW h \in Handlers, Launch(h) PROVE PageType' /\ UnitOK'
    BY <1>1, <1>7, LaunchPage
  <1>8. ASSUME NEW action, NEW v, Command(action, v) PROVE PageType' /\ UnitOK'
    BY <1>1, <1>8, CommandPage
  <1>9. ASSUME NEW a \in Agents, RunStep(a) PROVE PageType' /\ UnitOK'
    BY <1>1, <1>9, RunStepPage
  <1>10. ASSUME NEW a \in Agents, Kill(a) PROVE PageType' /\ UnitOK'
    BY <1>1, <1>10, KillPage
  <1>11. CASE UNCHANGED updVars
    <2>1. cache' \subseteq Versions
      BY <1>1, <1>11 DEF updVars, PageType
    <2> QED
      BY <1>1, <1>11, <2>1, PageQuiet DEF updVars
  <1> QED
    BY <1>2, <1>3, <1>4, <1>5, <1>6, <1>7, <1>8, <1>9, <1>10, <1>11 DEF UpdNext
-----------------------------------------------------------------------------
(* The theorems.                                                           *)

LEMMA UpdInductive == UpdSpec => []UpdIInv
  <1>1. UpdInit => UpdIInv
    BY FilesInitially, PageInitially DEF UpdIInv
  <1>2. UpdIInv /\ [UpdNext]_updVars => UpdIInv'
    <2> SUFFICES ASSUME UpdIInv, [UpdNext]_updVars PROVE UpdIInv'
      OBVIOUS
    <2>1. FilesInv'
      BY FilesNext DEF UpdIInv
    <2>2. PageType' /\ UnitOK'
      BY PageNext
    <2> QED
      BY <2>1, <2>2 DEF UpdIInv
  <1> QED
    BY <1>1, <1>2, PTL DEF UpdSpec

\* The tree served is coherent, and the newest whole backup gives back the tree
\* it was made of.
LEMMA FilesShow ==
  ASSUME FilesInv
  PROVE  Coherent /\ Undoable
  <1>1. FileType /\ version \in Versions
    BY DEF FilesInv, FileType
  <1>2. ASSUME served # 0, ~torn
        PROVE  served = version /\ FilesOK(disk, version) /\ manifest \in {FirstManifest, Package[version]}
    <2>1. StateOK(disk, manifest, version) /\ served = version
      BY <1>2 DEF FilesInv, WholeOK
    <2> QED
      BY <1>1, <2>1, StateBinary
  <1>3. Coherent
    BY <1>2 DEF Coherent, FilesOK
  <1>4. ASSUME NewestUnmarked # 0
        PROVE  RestoredTree(backups[NewestUnmarked], Touched(backups[NewestUnmarked])) = backups[NewestUnmarked].before
    <2>1. PICK k \in Nat : k = NewestUnmarked /\ Newest(k) /\ k \in DOMAIN backups /\ k \in Unmarked
      BY <1>1, <1>4, NewestIs DEF Newest
    <2>2. PICK b \in Backups : b = backups[k] /\ BackupOK(b)
      BY <1>1, <2>1 DEF FileType, FilesInv
    <2>3. Follows(disk, version, b)
      BY <2>1, <2>2 DEF FilesInv, ChainOK
    <2>4. RestoredTree(b, Touched(b)) = b.before
      BY <2>2, <2>3, RestoredIs
    <2> QED
      BY <2>1, <2>2, <2>4
  <1>5. Undoable
    BY <1>4 DEF Undoable
  <1> QED
    BY <1>3, <1>5

\* boat-rudder-update: whatever failed and whenever it was killed, an updater
\* between its file copies never lets a half-applied release be served, and what
\* make_backup() saved is enough for restore_backup() to give the tree back.
THEOREM UpdatesInvThm == UpdSpec => []UpdatesInv
  <1>1. UpdIInv => UpdatesInv
    <2> SUFFICES ASSUME UpdIInv PROVE UpdatesInv
      OBVIOUS
    <2>1. FilesInv /\ FileType /\ PageType /\ UnitOK /\ (\A a \in Agents : RunOK(a))
      BY DEF UpdIInv, FilesInv
    <2>2. progress.state \in {"none", "queued", "running", "done", "failed", "rolled-back"}
      BY <2>1 DEF PageType, Reports
    <2>3. /\ version \in Versions /\ served \in Versions \cup {0} /\ cache \subseteq Versions
          /\ lock \in Agents \cup {"none"} /\ runs \in 0 .. MaxRuns /\ kills \in 0 .. MaxKills
      BY <2>1 DEF FileType, PageType, NoVersion
    <2>4. \A h \in Handlers : ask[h].pc # "idle" => served # 0
      BY <2>1 DEF UnitOK
    <2>5. \A a \in Agents : run[a].pc \notin {"off", "launched", "lock"} => lock = a
      BY <2>1 DEF RunOK
    <2>6. UpdTypeOK
      BY <2>2, <2>3, <2>4, <2>5 DEF UpdTypeOK
    <2> QED
      BY <2>1, <2>6, FilesShow DEF UpdatesInv
  <1> QED
    BY <1>1, UpdInductive, PTL

\* updates_admin.c: the rollback the page offers is to an older version and from a
\* whole backup, and a run the page started shows while it lasts.
THEOREM PageInvThm == UpdSpec => []PageInv
  <1>1. UpdIInv => PageInv
    <2> SUFFICES ASSUME UpdIInv PROVE PageInv
      OBVIOUS
    <2>1. FilesInv /\ FileType /\ UnitOK
      BY DEF UpdIInv, FilesInv
    <2>2. RunShown
      BY <2>1 DEF UnitOK, RunShown
    <2>3. ASSUME served # 0, ~torn, RollbackTarget # 0
          PROVE  backups[RollbackTarget].complete /\ backups[RollbackTarget].from < served
      <3>1. RollbackTarget = NewestUnmarked /\ NewestUnmarked # 0 /\ backups[NewestUnmarked].to = served
        BY <2>3 DEF RollbackTarget
      <3>2. PICK k \in Nat : k = NewestUnmarked /\ Newest(k) /\ k \in DOMAIN backups /\ k \in Unmarked
        BY <2>1, <3>1, NewestIs DEF Newest
      <3>3. PICK b \in Backups : b = backups[k] /\ BackupOK(b)
        BY <2>1, <3>2 DEF FileType, FilesInv
      <3>4. Follows(disk, version, b)
        BY <2>1, <3>2, <3>3 DEF FilesInv, ChainOK
      <3>5. served = version
        BY <2>1, <2>3 DEF FilesInv, WholeOK
      <3>6. b.to = version /\ b.from < b.to /\ (version = b.from \/ b.complete) /\ b.from \in Nat
        <4>1. b.from \in Versions
          BY DEF Backups
        <4> QED
          BY <3>1, <3>2, <3>3, <3>4, <3>5, <4>1, UpdatesAssumption DEF BackupOK, Follows
      <3>7. b.complete /\ b.from < served
        BY <3>5, <3>6
      <3> QED
        BY <3>1, <3>2, <3>3, <3>7
    <2>4. OfferReal
      BY <2>3 DEF OfferReal
    <2> QED
      BY <2>2, <2>4 DEF PageInv
  <1> QED
    BY <1>1, UpdInductive, PTL

Kept == \A p \in DOMAIN disk : (\A v \in Versions : p \notin DOMAIN Package[v]) => p \in DOMAIN disk' /\ disk'[p] = disk[p]

LEMMA DiskKept ==
  ASSUME UpdIInv, UpdNext
  PROVE  Kept
  <1>1. FilesInv /\ FileType /\ BinaryOK(disk) /\ disk \in Trees
    BY DEF UpdIInv, FilesInv, FileType
  <1>2. ASSUME disk' = disk PROVE Kept
    BY <1>2 DEF Kept
  <1>3. ASSUME \A p \in DOMAIN disk \ Shipped : p \in DOMAIN disk' /\ disk'[p] = disk[p] PROVE Kept
    BY <1>3 DEF Kept, Shipped
  <1>4. ASSUME NEW a \in Agents, Apply(a) PROVE Kept
    <2>1. run[a].pc = "apply" /\ RunOK(a)
      BY <1>1, <1>4 DEF Apply, FilesInv
    <2>2. PICK r \in Runs : r = run[a] /\ PlanOK(r)
      BY <1>1, <2>1 DEF FileType, RunOK
    <2>3. PICK done : disk' = Applied(r, done)
      BY <1>4, <2>2 DEF Apply
    <2> QED
      BY <1>1, <1>3, <2>2, <2>3, AppliedPartly
  <1>5. ASSUME NEW a \in Agents, run[a].pc = "restore",
               NEW done \in SUBSET Touched(backups[run[a].bk]), disk' = RestoredTree(backups[run[a].bk], done)
        PROVE  Kept
    <2>1. Newest(run[a].bk)
      BY <1>1, <1>5 DEF RunOK, FilesInv
    <2>2. PICK k \in Nat : k = run[a].bk /\ k \in DOMAIN backups
      BY <1>1, <2>1, NewestIs
    <2>3. PICK b \in Backups : b = backups[k] /\ BackupOK(b)
      BY <1>1, <2>2 DEF FileType, FilesInv
    <2>4. done \in SUBSET Touched(b) /\ disk' = RestoredTree(b, done)
      BY <1>5, <2>2, <2>3
    <2> QED
      BY <1>1, <1>3, <2>3, <2>4, RestoredPartly
  <1>6. ASSUME NEW a \in Agents, Restore(a) PROVE Kept
    <2>1. /\ run[a].pc = "restore" /\ Touched(backups[run[a].bk]) \in SUBSET Touched(backups[run[a].bk])
          /\ disk' = RestoredTree(backups[run[a].bk], Touched(backups[run[a].bk]))
      BY <1>6 DEF Restore
    <2> QED
      BY <1>5, <2>1
  <1>7. ASSUME NEW a \in Agents, Kill(a) PROVE Kept
    BY <1>2, <1>5, <1>7 DEF Kill
  <1>8. ASSUME NEW a \in Agents, RunStep(a), ~Apply(a), ~Restore(a) PROVE Kept
    <2>1. disk' = disk
      BY <1>8 DEF RunStep, TakeLock, Prepare, Plan, Backup, Stop, Begin, Health, Undo, Mark, HealthOld
    <2> QED
      BY <1>2, <2>1
  <1>9. ASSUME NEW h, NEW action, NEW v, Ask(h, action, v) \/ WriteRequest(h) \/ WriteProgress(h) \/ Launch(h) PROVE Kept
    BY <1>2, <1>9 DEF Ask, WriteRequest, WriteProgress, Launch
  <1>10. ASSUME NEW action, NEW v, Command(action, v) PROVE Kept
    BY <1>2, <1>10 DEF Command
  <1>11. CASE Check \/ Age \/ ReadRequest
    BY <1>2, <1>11 DEF Check, Age, ReadRequest
  <1> QED
    BY <1>4, <1>6, <1>7, <1>8, <1>9, <1>10, <1>11 DEF UpdNext

\* apply_files() and restore_backup(): a file no release ships is the site's own,
\* and no step of the updater, killed or not, deletes or replaces it.
THEOREM SiteFilesKeptThm == UpdSpec => SiteFilesKept
  <1>1. UpdIInv /\ [UpdNext]_updVars => [Kept]_updVars
    BY DiskKept
  <1>2. UpdSpec => [][Kept]_updVars
    <2> HIDE DEF Kept
    <2> QED
      BY <1>1, UpdInductive, PTL DEF UpdSpec
  <1> QED
    BY <1>2 DEF SiteFilesKept, Kept

-----------------------------------------------------------------------------
(* The media library.  Ids, owners and names: what a record holds, and     *)
(* whose directories and pictures a request has in hand.                    *)

DirDoc == [exists : BOOLEAN, owner : Owners \cup {"nobody"}, name : DirNames]
ItemDoc == [exists : BOOLEAN, owner : Owners \cup {"nobody"}, dir : 0 .. MaxDirs, stem : Seq(Words)]
MediaOps == {"none", "create", "rename", "rmdir", "delete", "move", "upload"}
MediaSteps == {"none", "disk", "record", "default", "name", "open", "optimize", "insert", "next"}
MediaReq ==
    [op : MediaOps, step : MediaSteps, by : Owners \cup {"nobody"}, owner : Owners \cup {"nobody"},
     dir : 0 .. MaxDirs, name : DirNames, to : DirNames, stem : Seq(Words), pic : 0 .. MaxUploads,
     ids : SUBSET (1 .. MaxUploads)]
MediaPaths == Owners \X DirNames \X Seq(Words)

CollectionTypes ==
    /\ lastDir \in 0 .. MaxDirs /\ lastPic \in 0 .. MaxUploads /\ mrequests \in 0 .. MaxMediaRequests
    /\ dirs \in [1 .. MaxDirs -> DirDoc] /\ items \in [1 .. MaxUploads -> ItemDoc]
    /\ mreq \in [MediaThreads -> MediaReq] /\ spoiled \subseteq Owners

DiskTypes ==
    /\ folders \subseteq Owners \X DirNames
    /\ files \in [DOMAIN files -> 1 .. lastPic] /\ DOMAIN files \subseteq MediaPaths
    /\ \A p \in DOMAIN files : <<p[1], p[2]>> \in folders

\* A record is inserted once, with its owner; a picture is in a directory of its owner.
DocsInv ==
    /\ \A d \in 1 .. MaxDirs : IF d <= lastDir THEN dirs[d].owner \in Owners ELSE dirs[d] = NoDir
    /\ \A i \in 1 .. MaxUploads :
          IF items[i].owner = "nobody" THEN items[i] = NoItem
          ELSE /\ i <= lastPic /\ items[i].owner \in Owners
               /\ items[i].dir \in 1 .. lastDir /\ dirs[items[i].dir].owner = items[i].owner

OwnDir(r) == r.dir \in 1 .. lastDir /\ dirs[r.dir].owner = r.owner

\* What request r has in hand belongs to the owner it works for, whom its user may
\* manage.
InHand(r) ==
    /\ r.op # "none" => r.by \in Owners /\ r.owner \in Owners /\ CanManage(r.by, r.owner)
    /\ r.op = "none" => r = NoRequest
    /\ r.op \in {"create", "upload"} => r.owner = r.by
    /\ r.op \in {"rename", "rmdir", "move"} => OwnDir(r)
    /\ r.op = "upload" => r.pic \in 1 .. lastPic /\ (r.step \in {"name", "open", "optimize", "insert"} => OwnDir(r))
    /\ \A i \in r.ids : items[i].owner # "nobody"
    /\ r.op \in {"delete", "move"} /\ r.step \in {"disk", "record"} =>
          r.pic \in 1 .. lastPic /\ items[r.pic].owner = r.owner

\* An upload's number is its own, and not recorded before it is done.
PicsInv ==
    \A t \in MediaThreads : mreq[t].op = "upload" =>
        /\ items[mreq[t].pic] = NoItem
        /\ \A q \in MediaThreads : mreq[q].op = "upload" /\ mreq[q].pic = mreq[t].pic => q = t

MediaGround == CollectionTypes /\ DocsInv /\ (\A t \in MediaThreads : InHand(mreq[t])) /\ PicsInv

\* A step that keeps whose every record is.
OwnersKept ==
    /\ lastDir' \in Nat /\ lastDir <= lastDir' /\ lastPic' \in Nat /\ lastPic <= lastPic'
    /\ \A d \in 1 .. lastDir : dirs'[d].owner = dirs[d].owner
    /\ \A i \in 1 .. MaxUploads : items[i].owner # "nobody" => items'[i].owner = items[i].owner

LEMMA InHandKept ==
  ASSUME CollectionTypes, NEW r \in MediaReq, InHand(r), OwnersKept
  PROVE  InHand(r)'
  <1>1. ASSUME r.dir \in 1 .. lastDir PROVE r.dir \in 1 .. lastDir' /\ dirs'[r.dir].owner = dirs[r.dir].owner
    BY <1>1 DEF OwnersKept, CollectionTypes
  <1>2. OwnDir(r) => OwnDir(r)'
    BY <1>1 DEF OwnDir
  <1>3. ASSUME r.pic \in 1 .. lastPic PROVE r.pic \in 1 .. lastPic' /\ r.pic \in 1 .. MaxUploads
    BY <1>3, MediaAssumption DEF OwnersKept, CollectionTypes
  <1>4. \A i \in r.ids : items[i].owner # "nobody" => items'[i].owner = items[i].owner
    BY DEF OwnersKept, MediaReq
  <1>5. CanManage(r.by, r.owner)' <=> CanManage(r.by, r.owner)
    BY DEF CanManage
  <1>6. r.op \in {"delete", "move"} /\ r.step \in {"disk", "record"} => r.owner # "nobody"
    BY MediaAssumption DEF InHand, Owners
  <1>7. r.op \in {"delete", "move"} /\ r.step \in {"disk", "record"} => items'[r.pic].owner = r.owner
    BY <1>3, <1>6 DEF InHand, OwnersKept
  <1>8. (r.op # "none" => r.by \in Owners /\ r.owner \in Owners /\ CanManage(r.by, r.owner)) /\ (r.op = "none" => r = NoRequest)
        /\ (r.op \in {"create", "upload"} => r.owner = r.by)
    BY DEF InHand
  <1>9. r.op \in {"rename", "rmdir", "move"} => OwnDir(r)'
    BY <1>2 DEF InHand
  <1>10. r.op = "upload" => r.pic \in 1 .. lastPic' /\ (r.step \in {"name", "open", "optimize", "insert"} => OwnDir(r)')
    BY <1>2, <1>3 DEF InHand
  <1>11. \A i \in r.ids : items'[i].owner # "nobody"
    BY <1>4 DEF InHand
  <1>12. r.op \in {"delete", "move"} /\ r.step \in {"disk", "record"} => r.pic \in 1 .. lastPic'
    BY <1>3 DEF InHand
  <1> QED
    BY <1>5, <1>7, <1>8, <1>9, <1>10, <1>11, <1>12 DEF InHand

\* The request of thread t becomes r, and its upload, if it is one, is t's before.
Goes(t, r) == mreq' = [mreq EXCEPT ![t] = r] /\ r \in MediaReq /\ InHand(r)'

\* Whose pictures are recorded changes for t's upload alone.
LEMMA GroundKept ==
  ASSUME MediaGround, OwnersKept, DocsInv', NEW t \in MediaThreads, NEW r, Goes(t, r),
         lastDir' \in 0 .. MaxDirs, lastPic' \in 0 .. MaxUploads, mrequests' \in 0 .. MaxMediaRequests,
         dirs' \in [1 .. MaxDirs -> DirDoc], items' \in [1 .. MaxUploads -> ItemDoc], spoiled' \subseteq Owners,
         \A i \in 1 .. MaxUploads : items'[i] = items[i] \/ items[i] # NoItem
                                    \/ (mreq[t].op = "upload" /\ mreq[t].pic = i /\ r.op # "upload"),
         r.op = "upload" => \/ mreq[t].op = "upload" /\ r.pic = mreq[t].pic
                            \/ r.pic = lastPic + 1 /\ r.pic \in 1 .. MaxUploads
  PROVE  MediaGround'
  <1>1. CollectionTypes'
    BY DEF CollectionTypes, Goes, MediaGround
  <1>2. \A q \in MediaThreads : mreq'[q] = IF q = t THEN r ELSE mreq[q]
    BY DEF Goes, MediaGround, CollectionTypes
  <1>3. ASSUME NEW q \in MediaThreads PROVE InHand(mreq[q])'
    <2>1. CASE q = t
      BY <2>1, <1>2 DEF Goes
    <2>2. CASE q # t
      <3>1. PICK s \in MediaReq : s = mreq[q]
        BY DEF MediaGround, CollectionTypes
      <3>2. InHand(s)'
        BY <3>1, InHandKept DEF MediaGround
      <3> QED
        BY <3>1, <3>2, <1>2, <2>2
    <2> QED
      BY <2>1, <2>2
  <1>4. \A q \in MediaThreads : mreq[q].op = "upload" => mreq[q].pic \in 1 .. lastPic /\ mreq[q].pic \in 1 .. MaxUploads
    <2>1. ASSUME NEW q \in MediaThreads, mreq[q].op = "upload" PROVE mreq[q].pic \in 1 .. lastPic
      <3>1. InHand(mreq[q])
        BY DEF MediaGround
      <3> QED
        BY <3>1, <2>1 DEF InHand
    <2> QED
      BY <2>1, MediaAssumption DEF MediaGround, CollectionTypes
  <1>5. ASSUME NEW q \in MediaThreads, q # t, mreq[q].op = "upload" PROVE items'[mreq[q].pic] = NoItem
    BY <1>4, <1>5 DEF MediaGround, PicsInv
  <1>6. items[lastPic + 1].owner = "nobody" /\ lastPic + 1 \in 1 .. MaxUploads => items[lastPic + 1] = NoItem
    BY DEF MediaGround, DocsInv
  <1>7. lastPic + 1 \in 1 .. MaxUploads => items[lastPic + 1] = NoItem
    <2>1. \A i \in 1 .. MaxUploads : items[i].owner # "nobody" => i <= lastPic
      BY DEF MediaGround, DocsInv
    <2> QED
      BY <2>1, <1>6 DEF MediaGround, CollectionTypes
  <1>8. ASSUME r.op = "upload" PROVE items'[r.pic] = NoItem
    <2>1. items[r.pic] = NoItem /\ r.pic \in 1 .. MaxUploads
      BY <1>8, <1>4, <1>7 DEF MediaGround, PicsInv
    <2> QED
      BY <2>1, <1>8
  <1>9. ASSUME r.op = "upload", NEW q \in MediaThreads, q # t, mreq[q].op = "upload" PROVE mreq[q].pic # r.pic
    BY <1>9, <1>4 DEF MediaGround, PicsInv, CollectionTypes
  <1>10. PicsInv'
    BY <1>2, <1>5, <1>8, <1>9 DEF PicsInv, MediaGround
  <1> QED
    BY <1>1, <1>3, <1>10 DEF MediaGround

\* Nothing of another owner's changes than the one mreq[t] works for.
AllOthersKept(o) == \A x \in Owners \ {o} : Records(x)' = Records(x)

\* What Records reads.
LEMMA RecordsKept ==
  ASSUME MediaGround, DocsInv', NEW o,
         lastDir' \in 0 .. MaxDirs, lastPic' \in 0 .. MaxUploads,
         NEW x, x # o, x # "nobody",
         \A d \in 1 .. MaxDirs : dirs[d].owner = x \/ dirs'[d].owner = x =>
             dirs'[d].owner = dirs[d].owner /\ dirs'[d].exists = dirs[d].exists,
         \A i \in 1 .. MaxUploads : items[i].owner = x \/ items'[i].owner = x =>
             items'[i].owner = items[i].owner /\ items'[i].exists = items[i].exists,
         Tree(x)' = Tree(x)
  PROVE  Records(x)' = Records(x)
  <1>1. /\ lastDir \in 0 .. MaxDirs /\ MaxDirs \in Nat /\ MaxUploads \in Nat /\ lastPic \in 0 .. MaxUploads
    BY MediaAssumption DEF MediaGround, CollectionTypes
  <1>2. \A d \in 1 .. MaxDirs : (dirs[d].owner = x => d <= lastDir) /\ (dirs'[d].owner = x => d <= lastDir')
    BY DEF MediaGround, DocsInv, NoDir
  <1>3. \A i \in 1 .. MaxUploads : (items[i].owner = x => i <= lastPic) /\ (items'[i].owner = x => i <= lastPic')
    BY DEF MediaGround, DocsInv
  <1>4. {d \in 1..lastDir : DirById(d) /\ dirs[d].owner = x}' = {d \in 1..lastDir : DirById(d) /\ dirs[d].owner = x}
    <2>1. {d \in 1..lastDir : DirById(d) /\ dirs[d].owner = x} = {d \in 1..MaxDirs : dirs[d].owner = x /\ dirs[d].exists}
      BY <1>1, <1>2 DEF DirById
    <2>2. {d \in 1..lastDir : DirById(d) /\ dirs[d].owner = x}' = {d \in 1..MaxDirs : dirs'[d].owner = x /\ dirs'[d].exists}
      BY <1>1, <1>2 DEF DirById
    <2>3. {d \in 1..MaxDirs : dirs'[d].owner = x /\ dirs'[d].exists} = {d \in 1..MaxDirs : dirs[d].owner = x /\ dirs[d].exists}
      OBVIOUS
    <2> QED
      BY <2>1, <2>2, <2>3
  <1>5. {i \in 1..lastPic : items[i].exists /\ items[i].owner = x}' = {i \in 1..lastPic : items[i].exists /\ items[i].owner = x}
    <2>1. {i \in 1..lastPic : items[i].exists /\ items[i].owner = x} = {i \in 1..MaxUploads : items[i].owner = x /\ items[i].exists}
      BY <1>1, <1>3
    <2>2. {i \in 1..lastPic : items[i].exists /\ items[i].owner = x}' = {i \in 1..MaxUploads : items'[i].owner = x /\ items'[i].exists}
      BY <1>1, <1>3
    <2>3. {i \in 1..MaxUploads : items'[i].owner = x /\ items'[i].exists} = {i \in 1..MaxUploads : items[i].owner = x /\ items[i].exists}
      OBVIOUS
    <2> QED
      BY <2>1, <2>2, <2>3
  <1> QED
    BY <1>4, <1>5 DEF Records

\* A tree is kept when the files in it are.
LEMMA TreeKept ==
  ASSUME NEW x,
         \A p : p[1] = x => (p \in DOMAIN files <=> p \in DOMAIN files') /\ (p \in DOMAIN files => files'[p] = files[p])
  PROVE  Tree(x)' = Tree(x)
  BY DEF Tree

\* Only directories and pictures of the request's owner change, and files of that owner.
LEMMA OthersKept ==
  ASSUME MediaGround, DocsInv', lastDir' \in 0 .. MaxDirs, lastPic' \in 0 .. MaxUploads, NEW o,
         \A d \in 1 .. MaxDirs : \/ dirs'[d].owner = dirs[d].owner /\ dirs'[d].exists = dirs[d].exists
                                 \/ dirs[d].owner \in {o, "nobody"} /\ dirs'[d].owner = o,
         \A i \in 1 .. MaxUploads : \/ items'[i].owner = items[i].owner /\ items'[i].exists = items[i].exists
                                    \/ items[i].owner \in {o, "nobody"} /\ items'[i].owner = o,
         \A x \in Owners \ {o} : Tree(x)' = Tree(x)
  PROVE  AllOthersKept(o)
  <1>1. SUFFICES ASSUME NEW x \in Owners \ {o} PROVE Records(x)' = Records(x)
    BY DEF AllOthersKept
  <1>2. x # "nobody" /\ x # o /\ Tree(x)' = Tree(x)
    BY MediaAssumption DEF Owners
  <1>3. \A d \in 1 .. MaxDirs : dirs[d].owner = x \/ dirs'[d].owner = x =>
             dirs'[d].owner = dirs[d].owner /\ dirs'[d].exists = dirs[d].exists
    BY <1>2
  <1>4. \A i \in 1 .. MaxUploads : items[i].owner = x \/ items'[i].owner = x =>
             items'[i].owner = items[i].owner /\ items'[i].exists = items[i].exists
    BY <1>2
  <1> QED
    BY <1>2, <1>3, <1>4, RecordsKept

LEMMA RenamedTree ==
  ASSUME NEW from, NEW b, NEW o, \A p \in from : p[1] = o, files' = Renamed(from, b), NEW x, x # o
  PROVE  Tree(x)' = Tree(x)
  <1> DEFINE to == {<<p[1], b, p[3]>> : p \in from}
  <1>1. DOMAIN files' = to \cup (DOMAIN files \ from)
    BY DEF Renamed
  <1>2. \A q \in to : q[1] = o
    OBVIOUS
  <1>3. \A q \in DOMAIN files' : q \notin to => files'[q] = files[q]
    BY DEF Renamed
  <1>4. ASSUME NEW p, p[1] = x PROVE (p \in DOMAIN files <=> p \in DOMAIN files') /\ (p \in DOMAIN files => files'[p] = files[p])
    <2>1. p \notin to /\ p \notin from
      BY <1>2, <1>4
    <2> HIDE DEF to
    <2> QED
      BY <2>1, <1>1, <1>3
  <1> QED
    BY <1>4, TreeKept

LEMMA ShowingTree ==
  ASSUME NEW gone, NEW paths, NEW pic, NEW o, \A p \in gone : p[1] = o, \A p \in paths : p[1] = o,
         files' = Showing(Without(files, gone), paths, pic), NEW x, x # o
  PROVE  Tree(x)' = Tree(x)
  <1>1. DOMAIN files' = (DOMAIN files \ gone) \cup paths
    BY DEF Showing, Without
  <1>2. \A q \in DOMAIN files' : q \notin paths => files'[q] = files[q]
    BY DEF Showing, Without
  <1>3. ASSUME NEW p, p[1] = x PROVE (p \in DOMAIN files <=> p \in DOMAIN files') /\ (p \in DOMAIN files => files'[p] = files[p])
    <2>1. p \notin gone /\ p \notin paths
      BY <1>3
    <2> QED
      BY <2>1, <1>1, <1>2
  <1> QED
    BY <1>3, TreeKept

LEMMA WithoutTree ==
  ASSUME NEW gone, NEW o, \A p \in gone : p[1] = o, files' = Without(files, gone), NEW x, x # o
  PROVE  Tree(x)' = Tree(x)
  <1>1. DOMAIN files' = DOMAIN files \ gone /\ \A q \in DOMAIN files' : files'[q] = files[q]
    BY DEF Without
  <1>2. ASSUME NEW p, p[1] = x PROVE (p \in DOMAIN files <=> p \in DOMAIN files') /\ (p \in DOMAIN files => files'[p] = files[p])
    BY <1>1, <1>2
  <1> QED
    BY <1>2, TreeKept

\* A request goes on: what it has in hand at its next step.
LEMMA NextStep ==
  ASSUME MediaGround, NEW t \in MediaThreads, NEW s \in MediaSteps, mreq[t].op # "none",
         mreq[t].op = "upload" /\ s \in {"name", "open", "optimize", "insert"} => OwnDir(mreq[t]),
         mreq[t].op \in {"delete", "move"} /\ s \in {"disk", "record"} =>
             mreq[t].pic \in 1 .. lastPic /\ items[mreq[t].pic].owner = mreq[t].owner
  PROVE  [mreq[t] EXCEPT !.step = s] \in MediaReq /\ InHand([mreq[t] EXCEPT !.step = s])
  <1>1. PICK q \in MediaReq : q = mreq[t]
    BY DEF MediaGround, CollectionTypes
  <1>2. PICK r : r = [q EXCEPT !.step = s]
    OBVIOUS
  <1>3. /\ r \in MediaReq /\ r.op = q.op /\ r.step = s /\ r.by = q.by /\ r.owner = q.owner /\ r.dir = q.dir
        /\ r.ids = q.ids /\ r.pic = q.pic
    BY <1>2 DEF MediaReq
  <1>4. InHand(q) /\ q.op # "none"
    BY <1>1 DEF MediaGround
  <1>5. OwnDir(r) <=> OwnDir(q)
    BY <1>3 DEF OwnDir
  <1>6. InHand(r)
    BY <1>1, <1>3, <1>4, <1>5 DEF InHand
  <1> QED
    BY <1>1, <1>2, <1>3, <1>6

LEMMA NoRequestInHand ==
  ASSUME MediaGround
  PROVE  NoRequest \in MediaReq /\ InHand(NoRequest)
  <1>1. NoRequest \in MediaReq
    BY MediaAssumption, EmptySeq DEF NoRequest, MediaReq, MediaOps, MediaSteps
  <1>2. InHand(NoRequest)
    BY DEF InHand, NoRequest
  <1> QED
    BY <1>1, <1>2

\* A step of a request that writes no record.
LEMMA QuietMedia ==
  ASSUME MediaGround, NEW t \in MediaThreads, UNCHANGED <<dirs, items, lastDir, lastPic, mrequests>>, spoiled' \subseteq Owners,
         NEW r \in MediaReq, InHand(r), mreq' = [mreq EXCEPT ![t] = r],
         r.op = "upload" => mreq[t].op = "upload" /\ r.pic = mreq[t].pic,
         \A x \in Owners \ {mreq[t].owner} : Tree(x)' = Tree(x)
  PROVE  MediaGround' /\ AllOthersKept(mreq[t].owner)
  <1>1. OwnersKept /\ DocsInv'
    BY DEF OwnersKept, MediaGround, CollectionTypes, DocsInv
  <1>2. InHand(r)'
    BY <1>1, InHandKept DEF MediaGround
  <1>3. MediaGround'
    <2>1. Goes(t, r)
      BY <1>2 DEF Goes
    <2> QED
      BY <1>1, <2>1, GroundKept DEF MediaGround, CollectionTypes
  <1>4. lastDir' \in 0 .. MaxDirs /\ lastPic' \in 0 .. MaxUploads
    BY DEF MediaGround, CollectionTypes
  <1>5. PICK o : o = mreq[t].owner
    OBVIOUS
  <1>6. AllOthersKept(o)
    BY <1>1, <1>4, <1>5, OthersKept
  <1> QED
    BY <1>3, <1>5, <1>6

-----------------------------------------------------------------------------
(* The steps that read the collections and change the disk.                *)

LEMMA MakeFolderStep ==
  ASSUME MediaGround, NEW t \in MediaThreads, MakeFolder(t)
  PROVE  MediaGround' /\ AllOthersKept(mreq[t].owner)
  <1>1. mreq[t].op \in {"create", "upload"}
    BY DEF MakeFolder, At
  <1>2. PICK r : r = [mreq[t] EXCEPT !.step = "record"]
    OBVIOUS
  <1>3. r \in MediaReq /\ InHand(r)
    BY <1>1, <1>2, NextStep DEF MediaSteps
  <1>4. mreq' = [mreq EXCEPT ![t] = r] /\ r.op = mreq[t].op /\ r.pic = mreq[t].pic
    BY <1>2 DEF MakeFolder, To, MediaGround, CollectionTypes, MediaReq
  <1>5. UNCHANGED <<dirs, items, lastDir, lastPic, mrequests, spoiled, files>>
    BY DEF MakeFolder
  <1>6. \A x : Tree(x)' = Tree(x)
    BY <1>5 DEF Tree
  <1> QED
    BY <1>3, <1>4, <1>5, <1>6, QuietMedia DEF MediaGround, CollectionTypes

\* The request is over.
LEMMA DoneStep ==
  ASSUME MediaGround, NEW t \in MediaThreads, Done(t), UNCHANGED <<dirs, items, lastDir, lastPic, mrequests, spoiled>>,
         \A x \in Owners \ {mreq[t].owner} : Tree(x)' = Tree(x)
  PROVE  MediaGround' /\ AllOthersKept(mreq[t].owner)
  BY NoRequestInHand, QuietMedia DEF Done, NoRequest, MediaGround, CollectionTypes

\* It goes on.
LEMMA ToStep ==
  ASSUME MediaGround, NEW t \in MediaThreads, NEW s \in MediaSteps, To(t, s), mreq[t].op # "none",
         UNCHANGED <<dirs, items, lastDir, lastPic, mrequests>>, spoiled' \subseteq Owners,
         \A x \in Owners \ {mreq[t].owner} : Tree(x)' = Tree(x),
         mreq[t].op = "upload" /\ s \in {"name", "open", "optimize", "insert"} => OwnDir(mreq[t]),
         mreq[t].op \in {"delete", "move"} /\ s \in {"disk", "record"} =>
             mreq[t].pic \in 1 .. lastPic /\ items[mreq[t].pic].owner = mreq[t].owner
  PROVE  MediaGround' /\ AllOthersKept(mreq[t].owner)
  <1>1. PICK r : r = [mreq[t] EXCEPT !.step = s]
    OBVIOUS
  <1>2. r \in MediaReq /\ InHand(r)
    BY <1>1, NextStep
  <1>3. mreq' = [mreq EXCEPT ![t] = r] /\ r.op = mreq[t].op /\ r.pic = mreq[t].pic
    BY <1>1 DEF To, MediaGround, CollectionTypes, MediaReq
  <1> QED
    BY <1>2, <1>3, QuietMedia

LEMMA RenameFolderStep ==
  ASSUME MediaGround, NEW t \in MediaThreads, RenameFolder(t)
  PROVE  MediaGround' /\ AllOthersKept(mreq[t].owner)
  <1>1. mreq[t].op = "rename" /\ UNCHANGED <<dirs, items, lastDir, lastPic, mrequests, spoiled>>
    BY DEF RenameFolder, At
  <1>2. \A x \in Owners \ {mreq[t].owner} : Tree(x)' = Tree(x)
    <2>1. PICK o, n, b : o = mreq[t].owner /\ n = mreq[t].name /\ b = mreq[t].to
      OBVIOUS
    <2>2. files' = files \/ files' = Renamed(Inside(o, n), b)
      BY <2>1 DEF RenameFolder
    <2>3. CASE files' = files
      BY <2>3 DEF Tree
    <2>4. CASE files' = Renamed(Inside(o, n), b)
      <3>1. \A p \in Inside(o, n) : p[1] = o
        BY DEF Inside
      <3> QED
        BY <2>1, <2>4, <3>1, RenamedTree
    <2> QED
      BY <2>2, <2>3, <2>4
  <1>3. Done(t) \/ To(t, "record")
    BY DEF RenameFolder
  <1>4. CASE Done(t)
    BY <1>1, <1>2, <1>4, DoneStep
  <1>5. CASE To(t, "record")
    <2>1. spoiled' \subseteq Owners /\ "record" \in MediaSteps
      BY <1>1 DEF MediaGround, CollectionTypes, MediaSteps
    <2> QED
      BY <1>1, <1>2, <1>5, <2>1, ToStep
  <1> QED
    BY <1>3, <1>4, <1>5

LEMMA RemoveFolderStep ==
  ASSUME MediaGround, NEW t \in MediaThreads, RemoveFolder(t)
  PROVE  MediaGround' /\ AllOthersKept(mreq[t].owner)
  <1>1. mreq[t].op = "rmdir" /\ UNCHANGED <<dirs, items, lastDir, lastPic, mrequests, spoiled, files>>
    BY DEF RemoveFolder, At
  <1>2. \A x \in Owners \ {mreq[t].owner} : Tree(x)' = Tree(x)
    BY <1>1 DEF Tree
  <1>3. Done(t) \/ To(t, "record")
    BY DEF RemoveFolder
  <1>4. CASE Done(t)
    BY <1>1, <1>2, <1>4, DoneStep
  <1>5. CASE To(t, "record")
    <2>1. spoiled' \subseteq Owners /\ "record" \in MediaSteps
      BY <1>1 DEF MediaGround, CollectionTypes, MediaSteps
    <2> QED
      BY <1>1, <1>2, <1>5, <2>1, ToStep
  <1> QED
    BY <1>3, <1>4, <1>5

LEMMA TakeItemStep ==
  ASSUME MediaGround, NEW t \in MediaThreads, TakeItem(t)
  PROVE  MediaGround' /\ AllOthersKept(mreq[t].owner)
  <1>1. /\ mreq[t].op \in {"delete", "move"} /\ mreq[t].step = "next"
        /\ UNCHANGED <<dirs, items, files, lastDir, lastPic, mrequests, spoiled>>
    BY DEF TakeItem
  <1>2. \A x \in Owners \ {mreq[t].owner} : Tree(x)' = Tree(x)
    BY <1>1 DEF Tree
  <1>3. CASE mreq[t].ids = {}
    BY <1>1, <1>2, <1>3, DoneStep DEF TakeItem
  <1>4. CASE mreq[t].ids # {}
    <2>1. PICK r \in MediaReq : r = mreq[t]
      BY DEF MediaGround, CollectionTypes
    <2>2. InHand(r)
      BY <2>1 DEF MediaGround
    <2>3. PICK i \in r.ids :
              LET b1 == [r EXCEPT !.ids = r.ids \ {i}]
                  b2 == [b1 EXCEPT !.owner = items[i].owner] IN
              mreq' = [mreq EXCEPT ![t] =
                    IF ~items[i].exists \/ ~MayTake(r, i) THEN b1
                    ELSE IF DirById(items[i].dir)
                    THEN [b2 EXCEPT !.pic = i, !.step = "disk", !.stem = items[i].stem, !.name = dirs[items[i].dir].name]
                    ELSE IF r.op = "delete" THEN [b2 EXCEPT !.pic = i, !.step = "record"] ELSE b1]
      BY <1>4, <2>1 DEF TakeItem
    <2>31. PICK r1 : r1 = [r EXCEPT !.ids = r.ids \ {i}]
      OBVIOUS
    <2>32. PICK r2 : r2 = [r1 EXCEPT !.owner = items[i].owner]
      OBVIOUS
    <2>4. /\ r1 = [r EXCEPT !.ids = r.ids \ {i}] /\ r2 = [r1 EXCEPT !.owner = items[i].owner]
          /\ mreq' = [mreq EXCEPT ![t] =
                    IF ~items[i].exists \/ ~MayTake(r, i) THEN r1
                    ELSE IF DirById(items[i].dir)
                    THEN [r2 EXCEPT !.pic = i, !.step = "disk", !.stem = items[i].stem, !.name = dirs[items[i].dir].name]
                    ELSE IF r.op = "delete" THEN [r2 EXCEPT !.pic = i, !.step = "record"] ELSE r1]
      BY <2>3, <2>31, <2>32, Zenon
    <2>5. /\ i \in 1 .. MaxUploads /\ items[i] \in ItemDoc /\ items[i].owner # "nobody"
          /\ items[i].owner \in Owners /\ i \in 1 .. lastPic /\ items[i].dir \in 1 .. lastDir
          /\ dirs[items[i].dir].owner = items[i].owner
      <3>1. i \in 1 .. MaxUploads
        BY DEF MediaReq
      <3>2. items[i].owner # "nobody"
        BY <2>2 DEF InHand
      <3> QED
        BY <3>1, <3>2, MediaAssumption DEF MediaGround, DocsInv, CollectionTypes
    <2>6. i \in 0 .. MaxUploads /\ items[i].dir \in 1 .. MaxDirs /\ items[i].dir \in 0 .. MaxDirs /\ dirs[items[i].dir].name \in DirNames
      BY <2>5, MediaAssumption DEF MediaGround, CollectionTypes, DirDoc
    <2>7. /\ r1 \in MediaReq /\ r1.op = r.op /\ r1.step = r.step /\ r1.by = r.by /\ r1.owner = r.owner
          /\ r1.dir = r.dir /\ r1.pic = r.pic /\ r1.ids = r.ids \ {i}
      BY <2>4 DEF MediaReq
    <2>8. /\ r2 \in MediaReq /\ r2.op = r.op /\ r2.step = r.step /\ r2.by = r.by /\ r2.owner = items[i].owner
          /\ r2.dir = r.dir /\ r2.ids = r.ids \ {i}
      BY <2>4, <2>5, <2>7 DEF MediaReq
    <2>9. InHand(r1)
      BY <1>1, <2>1, <2>2, <2>7 DEF InHand, OwnDir
    <2>10. /\ r.op \in {"delete", "move"} /\ r.step = "next" /\ r.by \in Owners /\ (\A j \in r.ids : items[j].owner # "nobody")
           /\ r.op = "move" => OwnDir(r)
      BY <1>1, <2>1, <2>2 DEF InHand
    <2>11. ASSUME MayTake(r, i), NEW s, s \in MediaReq, s.op = r.op, s.by = r.by, s.owner = items[i].owner,
                  s.dir = r.dir, s.ids = r.ids \ {i}, s.pic = i
           PROVE  InHand(s)
      <3>1. CanManage(s.by, s.owner) /\ (s.op = "move" => s.owner = r.owner)
        BY <2>11 DEF MayTake
      <3>2. s.op = "move" => OwnDir(s)
        BY <2>10, <2>11, <3>1 DEF OwnDir
      <3> QED
        BY <2>5, <2>10, <2>11, <3>1, <3>2 DEF InHand
    <2>12. PICK s : /\ mreq' = [mreq EXCEPT ![t] = s]
                    /\ s = r1 \/ (MayTake(r, i) /\ \/ s = [r2 EXCEPT !.pic = i, !.step = "disk", !.stem = items[i].stem, !.name = dirs[items[i].dir].name]
                                                   \/ s = [r2 EXCEPT !.pic = i, !.step = "record"])
      BY <2>4
    <2>13. s \in MediaReq /\ InHand(s) /\ s.op = r.op
      <3>1. CASE s = r1
        BY <3>1, <2>7, <2>9
      <3>2. CASE MayTake(r, i) /\ s = [r2 EXCEPT !.pic = i, !.step = "disk", !.stem = items[i].stem, !.name = dirs[items[i].dir].name]
        <4>1. s \in MediaReq /\ s.op = r.op /\ s.by = r.by /\ s.owner = items[i].owner
              /\ s.dir = r.dir /\ s.ids = r.ids \ {i} /\ s.pic = i
          BY <2>5, <2>6, <2>8, <3>2 DEF MediaReq, ItemDoc, MediaSteps
        <4> QED
          BY <3>2, <4>1, <2>11
      <3>3. CASE MayTake(r, i) /\ s = [r2 EXCEPT !.pic = i, !.step = "record"]
        <4>1. s \in MediaReq /\ s.op = r.op /\ s.by = r.by /\ s.owner = items[i].owner
              /\ s.dir = r.dir /\ s.ids = r.ids \ {i} /\ s.pic = i
          BY <2>5, <2>6, <2>8, <3>3 DEF MediaReq, MediaSteps
        <4> QED
          BY <3>3, <4>1, <2>11
      <3> QED
        BY <2>12, <3>1, <3>2, <3>3
    <2>14. spoiled' \subseteq Owners /\ s.op # "upload"
      BY <1>1, <2>10, <2>13 DEF MediaGround, CollectionTypes
    <2> QED
      BY <1>1, <1>2, <2>12, <2>13, <2>14, QuietMedia
  <1> QED
    BY <1>3, <1>4

\* A request that goes on is not over, and of its owner's.
LEMMA AtReq ==
  ASSUME MediaGround, NEW t \in MediaThreads, mreq[t].op # "none"
  PROVE  /\ mreq[t] \in MediaReq /\ InHand(mreq[t])
         /\ mreq[t].by \in Owners /\ mreq[t].owner \in Owners /\ mreq[t].owner # "nobody"
  <1>1. mreq[t] \in MediaReq /\ InHand(mreq[t])
    BY DEF MediaGround, CollectionTypes
  <1> QED
    BY <1>1, MediaAssumption DEF InHand, Owners

LEMMA DeleteFilesStep ==
  ASSUME MediaGround, NEW t \in MediaThreads, DeleteFiles(t)
  PROVE  MediaGround' /\ AllOthersKept(mreq[t].owner)
  <1>1. /\ mreq[t].op = "delete" /\ mreq[t].step = "disk" /\ To(t, "record")
        /\ UNCHANGED <<dirs, items, lastDir, lastPic, mrequests, spoiled>>
    BY DEF DeleteFiles, At
  <1>2. \A x \in Owners \ {mreq[t].owner} : Tree(x)' = Tree(x)
    <2>1. PICK o, gone : o = mreq[t].owner /\ gone = In(o, mreq[t].name, Removed(mreq[t].stem))
      OBVIOUS
    <2>2. files' = Without(files, gone)
      BY <2>1 DEF DeleteFiles
    <2>3. \A p \in gone : p[1] = o
      BY <2>1 DEF In
    <2> QED
      BY <2>1, <2>2, <2>3, WithoutTree
  <1>3. mreq[t].pic \in 1 .. lastPic /\ items[mreq[t].pic].owner = mreq[t].owner
    BY <1>1, AtReq DEF InHand
  <1>4. spoiled' \subseteq Owners /\ "record" \in MediaSteps
    BY <1>1 DEF MediaGround, CollectionTypes, MediaSteps
  <1> QED
    BY <1>1, <1>2, <1>3, <1>4, ToStep

LEMMA MoveFilesStep ==
  ASSUME MediaGround, NEW t \in MediaThreads, MoveFiles(t)
  PROVE  MediaGround' /\ AllOthersKept(mreq[t].owner)
  <1>1. /\ mreq[t].op = "move" /\ mreq[t].step = "disk" /\ To(t, "record")
        /\ UNCHANGED <<dirs, items, lastDir, lastPic, mrequests>>
    BY DEF MoveFiles, At
  <1>2. \A x \in Owners \ {mreq[t].owner} : Tree(x)' = Tree(x)
    <2>1. PICK o, from, b : o = mreq[t].owner /\ from = In(o, mreq[t].name, NamesOf(mreq[t].stem)) /\ b = mreq[t].to
      OBVIOUS
    <2>2. files' = files \/ files' = Renamed(from, b)
      BY <2>1 DEF MoveFiles
    <2>3. \A p \in from : p[1] = o
      BY <2>1 DEF In
    <2>4. CASE files' = files
      BY <2>4 DEF Tree
    <2>5. CASE files' = Renamed(from, b)
      BY <2>1, <2>3, <2>5, RenamedTree
    <2> QED
      BY <2>2, <2>4, <2>5
  <1>3. mreq[t].pic \in 1 .. lastPic /\ items[mreq[t].pic].owner = mreq[t].owner /\ mreq[t].owner \in Owners
    BY <1>1, AtReq DEF InHand
  <1>4. spoiled' = spoiled \/ spoiled' = spoiled \cup {mreq[t].owner}
    BY DEF MoveFiles
  <1>5. spoiled' \subseteq Owners /\ "record" \in MediaSteps
    BY <1>3, <1>4 DEF MediaGround, CollectionTypes, MediaSteps
  <1> QED
    BY <1>1, <1>2, <1>3, <1>5, ToStep

\* The names tried and stored are names.
LEMMA CandidatesTyped ==
  ASSUME NEW s \in Seq(Words)
  PROVE  Candidates(s) \in [1 .. 2 -> Seq(Words)]
  <1>1. "2" \in Words
    BY DEF Words
  <1>2. Append(s, "2") \in Seq(Words)
    BY <1>1, AppendProperties
  <1> QED
    BY <1>2 DEF Candidates

LEMMA StoredTyped ==
  ASSUME NEW s \in Seq(Words)
  PROVE  StoredStem(s) \in Seq(Words)
  <1>1. "full" \in Words
    BY DEF Words, Variants
  <1>2. PICK out : out = Append(s, "full")
    OBVIOUS
  <1>3. out \in Seq(Words) /\ Len(out) = Len(s) + 1 /\ Len(s) \in Nat
    BY <1>1, <1>2, AppendProperties, LenProperties
  <1>4. PICK first : first = (CHOOSE i \in DOMAIN out : out[i] = "full" /\ \A j \in 1..i-1 : out[j] # "full")
    OBVIOUS
  <1>5. StoredStem(s) = [i \in 1..Len(s) |-> IF i < first THEN out[i] ELSE out[i + 1]]
    BY <1>2, <1>4 DEF StoredStem
  <1>6. \A i \in 1 .. Len(s) : out[i] \in Words /\ out[i + 1] \in Words
    <2>1. \A i \in 1 .. Len(out) : out[i] \in Words
      BY <1>3, ElementOfSeq
    <2> QED
      BY <2>1, <1>3
  <1>7. StoredStem(s) \in [1 .. Len(s) -> Words]
    BY <1>5, <1>6
  <1> QED
    BY <1>3, <1>7, SeqDef

LEMMA NameUploadStep ==
  ASSUME MediaGround, NEW t \in MediaThreads, NameUpload(t)
  PROVE  MediaGround' /\ AllOthersKept(mreq[t].owner)
  <1>1. /\ mreq[t].op = "upload" /\ mreq[t].step = "name"
        /\ UNCHANGED <<dirs, items, files, lastDir, lastPic, spoiled, mrequests>>
    BY DEF NameUpload, At
  <1>2. \A x \in Owners \ {mreq[t].owner} : Tree(x)' = Tree(x)
    BY <1>1 DEF Tree
  <1>3. PICK q \in MediaReq : q = mreq[t]
    BY DEF MediaGround, CollectionTypes
  <1>4. PICK free : free = FreeName(q.owner, q.name, q.stem)
    OBVIOUS
  <1>5. free \subseteq 1 .. 2
    BY <1>4 DEF FreeName
  <1>6. CASE free = {}
    BY <1>1, <1>2, <1>3, <1>4, <1>6, DoneStep DEF NameUpload
  <1>7. CASE free # {}
    <2>1. PICK c : c = (CHOOSE d \in free : \A b \in free : d <= b)
      OBVIOUS
    <2>2. c \in 1 .. 2
      <3>1. \E d \in free : \A b \in free : d <= b
        <4>0. \A b \in 1 .. 2 : 1 <= b /\ 2 <= 2 /\ (b = 1 \/ b = 2)
          OBVIOUS
        <4>1. ASSUME 1 \in free PROVE \A b \in free : 1 <= b
          BY <1>5, <4>0
        <4>2. ASSUME 1 \notin free PROVE 2 \in free /\ \A b \in free : 2 <= b
          <5>1. \A b \in free : b = 2
            BY <1>5, <4>0, <4>2
          <5> QED
            BY <1>7, <5>1, <4>0
        <4> QED
          BY <4>1, <4>2
      <3> QED
        BY <2>1, <3>1, <1>5
    <2>3. PICK s \in Seq(Words) : s = Candidates(q.stem)[c]
      BY <2>2, CandidatesTyped DEF MediaReq
    <2>4. PICK r : r = [q EXCEPT !.step = "open", !.stem = s]
      OBVIOUS
    <2>5. mreq' = [mreq EXCEPT ![t] = r]
      BY <1>3, <1>4, <1>7, <2>1, <2>3, <2>4 DEF NameUpload
    <2>6. /\ r \in MediaReq /\ r.op = q.op /\ r.by = q.by /\ r.owner = q.owner /\ r.dir = q.dir /\ r.pic = q.pic
          /\ r.ids = q.ids
      BY <2>3, <2>4 DEF MediaReq, MediaSteps
    <2>7. InHand(q) /\ q.op = "upload" /\ q.step = "name"
      BY <1>1, <1>3 DEF MediaGround
    <2>8. InHand(r)
      BY <2>6, <2>7 DEF InHand, OwnDir
    <2>9. spoiled' \subseteq Owners
      BY <1>1 DEF MediaGround, CollectionTypes
    <2> QED
      BY <1>1, <1>2, <1>3, <2>5, <2>6, <2>8, <2>9, QuietMedia
  <1> QED
    BY <1>6, <1>7

LEMMA OpenUploadStep ==
  ASSUME MediaGround, NEW t \in MediaThreads, OpenUpload(t)
  PROVE  MediaGround' /\ AllOthersKept(mreq[t].owner)
  <1>1. /\ mreq[t].op = "upload" /\ mreq[t].step = "open"
        /\ UNCHANGED <<dirs, items, lastDir, lastPic, spoiled, mrequests>>
    BY DEF OpenUpload, At
  <1>2. PICK o, path : o = mreq[t].owner /\ path = <<mreq[t].owner, mreq[t].name, mreq[t].stem>>
    OBVIOUS
  <1>3. \/ Done(t) /\ files' = files
        \/ To(t, "optimize") /\ files' = Showing(files, {path}, mreq[t].pic)
    BY <1>2 DEF OpenUpload
  <1>4. CASE Done(t) /\ files' = files
    BY <1>1, <1>4, DoneStep DEF Tree
  <1>5. CASE To(t, "optimize") /\ files' = Showing(files, {path}, mreq[t].pic)
    <2>1. ASSUME NEW x \in Owners \ {o} PROVE Tree(x)' = Tree(x)
      <3>1. \A p : p[1] = x => p # path
        BY <1>2
      <3>2. ASSUME NEW p, p[1] = x
            PROVE (p \in DOMAIN files <=> p \in DOMAIN files') /\ (p \in DOMAIN files => files'[p] = files[p])
        BY <1>5, <3>1, <3>2 DEF Showing
      <3> QED
        BY <3>2, TreeKept
    <2>2. OwnDir(mreq[t])
      BY <1>1, AtReq DEF InHand
    <2>3. spoiled' \subseteq Owners /\ "optimize" \in MediaSteps
      BY <1>1 DEF MediaGround, CollectionTypes, MediaSteps
    <2> QED
      BY <1>1, <1>2, <1>5, <2>1, <2>2, <2>3, ToStep
  <1> QED
    BY <1>3, <1>4, <1>5

LEMMA OptimizeStep ==
  ASSUME MediaGround, NEW t \in MediaThreads, Optimize(t)
  PROVE  MediaGround' /\ AllOthersKept(mreq[t].owner)
  <1>1. /\ mreq[t].op = "upload" /\ mreq[t].step = "optimize"
        /\ UNCHANGED <<dirs, items, lastDir, lastPic, spoiled, mrequests>>
    BY DEF Optimize, At
  <1>2. PICK o, raw, made : /\ o = mreq[t].owner /\ raw = <<mreq[t].owner, mreq[t].name, mreq[t].stem>>
                            /\ made = {<<mreq[t].owner, mreq[t].name, v>> : v \in VariantsOf(mreq[t].stem)}
    OBVIOUS
  <1>3. \/ To(t, "insert") /\ files' = Showing(Without(files, {raw}), made, files[raw])
        \/ Done(t) /\ files' = Without(files, {raw})
    BY <1>2 DEF Optimize
  <1>4. raw[1] = o /\ \A p \in made : p[1] = o
    BY <1>2
  <1>5. CASE To(t, "insert") /\ files' = Showing(Without(files, {raw}), made, files[raw])
    <2>1. \A x \in Owners \ {o} : Tree(x)' = Tree(x)
      <3>1. \A p \in {raw} \cup made : p[1] = o
        BY <1>4
      <3>2. PICK gone, pic : gone = {raw} /\ pic = files[raw]
        OBVIOUS
      <3>3. files' = Showing(Without(files, gone), made, pic)
        BY <3>2, <1>5
      <3>4. (\A p \in gone : p[1] = o) /\ (\A p \in made : p[1] = o)
        BY <3>1, <3>2
      <3>5. ASSUME NEW x \in Owners \ {o} PROVE Tree(x)' = Tree(x)
        <4>1. x # o
          OBVIOUS
        <4> QED
          BY <3>3, <3>4, <4>1, ShowingTree
      <3> QED
        BY <3>5
    <2>2. OwnDir(mreq[t])
      BY <1>1, AtReq DEF InHand
    <2>3. spoiled' \subseteq Owners /\ "insert" \in MediaSteps
      BY <1>1 DEF MediaGround, CollectionTypes, MediaSteps
    <2> QED
      BY <1>1, <1>2, <1>5, <2>1, <2>2, <2>3, ToStep
  <1>6. CASE Done(t) /\ files' = Without(files, {raw})
    <2>1. \A x \in Owners \ {o} : Tree(x)' = Tree(x)
      <3>1. PICK gone : gone = {raw}
        OBVIOUS
      <3> QED
        BY <1>4, <3>1, <1>6, WithoutTree
    <2> QED
      BY <1>1, <1>2, <1>6, <2>1, DoneStep
  <1> QED
    BY <1>3, <1>5, <1>6

-----------------------------------------------------------------------------
(* The steps that write the collections.                                   *)

\* A step of t that writes records of its request's owner and no file.
LEMMA WriterMedia ==
  ASSUME MediaGround, OwnersKept, DocsInv', NEW t \in MediaThreads, NEW r, Goes(t, r), NEW o, o = mreq[t].owner,
         lastDir' \in 0 .. MaxDirs, UNCHANGED <<lastPic, mrequests, spoiled, files>>,
         dirs' \in [1 .. MaxDirs -> DirDoc], items' \in [1 .. MaxUploads -> ItemDoc],
         \A i \in 1 .. MaxUploads : items'[i] = items[i] \/ items[i] # NoItem
                                    \/ (mreq[t].op = "upload" /\ mreq[t].pic = i /\ r.op # "upload"),
         r.op = "upload" => mreq[t].op = "upload" /\ r.pic = mreq[t].pic,
         \A d \in 1 .. MaxDirs : \/ dirs'[d].owner = dirs[d].owner /\ dirs'[d].exists = dirs[d].exists
                                 \/ dirs[d].owner \in {o, "nobody"} /\ dirs'[d].owner = o,
         \A i \in 1 .. MaxUploads : \/ items'[i].owner = items[i].owner /\ items'[i].exists = items[i].exists
                                    \/ items[i].owner \in {o, "nobody"} /\ items'[i].owner = o
  PROVE  MediaGround' /\ AllOthersKept(mreq[t].owner)
  <1>1. lastPic' \in 0 .. MaxUploads /\ mrequests' \in 0 .. MaxMediaRequests /\ spoiled' \subseteq Owners
    BY DEF MediaGround, CollectionTypes
  <1>2. MediaGround'
    BY <1>1, GroundKept
  <1>3. \A x \in Owners \ {o} : Tree(x)' = Tree(x)
    BY DEF Tree
  <1>4. AllOthersKept(o)
    BY <1>1, <1>3, OthersKept
  <1> QED
    BY <1>2, <1>4

LEMMA InsertDirStep ==
  ASSUME MediaGround, NEW t \in MediaThreads, InsertDir(t)
  PROVE  MediaGround' /\ AllOthersKept(mreq[t].owner)
  <1>1. PICK q \in MediaReq : q = mreq[t]
    BY DEF MediaGround, CollectionTypes
  <1>2. /\ q.op \in {"create", "upload"} /\ InHand(q) /\ q.owner \in Owners
        /\ UNCHANGED <<items, folders, files, lastPic, spoiled, mrequests>>
    BY <1>1 DEF InsertDir, At, MediaGround, InHand
  <1>3. PICK n \in Nat : n = lastDir + 1
    BY DEF MediaGround, CollectionTypes
  <1>4. n \in 1 .. MaxDirs /\ lastDir' = n /\ lastDir \in Nat
    BY <1>3, MediaAssumption DEF InsertDir, MediaGround, CollectionTypes
  <1>5. PICK doc : doc = [exists |-> TRUE, owner |-> q.owner, name |-> q.name]
    OBVIOUS
  <1>6. doc \in DirDoc /\ doc.owner = q.owner
    BY <1>2, <1>5 DEF DirDoc, MediaReq
  <1>7. dirs' = [dirs EXCEPT ![n] = doc]
    BY <1>1, <1>4, <1>5 DEF InsertDir
  <1>8. dirs' \in [1 .. MaxDirs -> DirDoc] /\ \A d \in 1 .. MaxDirs : dirs'[d] = IF d = n THEN doc ELSE dirs[d]
    BY <1>4, <1>6, <1>7 DEF MediaGround, CollectionTypes
  <1>9. dirs[n] = NoDir
    BY <1>3, <1>4 DEF MediaGround, DocsInv
  <1>10. OwnersKept
    <2>1. \A d \in 1 .. lastDir : dirs'[d] = dirs[d]
      BY <1>3, <1>4, <1>8, MediaAssumption
    <2> QED
      BY <1>2, <1>3, <1>4, <2>1 DEF OwnersKept, MediaGround, CollectionTypes
  <1>11. DocsInv'
    <2>1. ASSUME NEW d \in 1 .. MaxDirs PROVE IF d <= lastDir' THEN dirs'[d].owner \in Owners ELSE dirs'[d] = NoDir
      <3>1. CASE d = n
        BY <3>1, <1>2, <1>4, <1>6, <1>8
      <3>2. CASE d # n
        <4>1. d <= lastDir' <=> d <= lastDir
          BY <3>2, <1>3, <1>4
        <4> QED
          BY <3>2, <4>1, <1>8 DEF MediaGround, DocsInv
      <3> QED
        BY <3>1, <3>2
    <2>2. ASSUME NEW i \in 1 .. MaxUploads, items[i].owner # "nobody"
          PROVE  items[i].dir \in 1 .. lastDir' /\ dirs'[items[i].dir].owner = items[i].owner
      <3>1. items[i].dir \in 1 .. lastDir /\ dirs[items[i].dir].owner = items[i].owner
        BY <2>2 DEF MediaGround, DocsInv
      <3> QED
        BY <3>1, <1>3, <1>4, <1>10 DEF OwnersKept
    <2> QED
      BY <2>1, <2>2, <1>2 DEF MediaGround, DocsInv
  <1>12. PICK r : r = IF q.op = "create" THEN NoRequest ELSE [q EXCEPT !.step = "name", !.dir = n]
    OBVIOUS
  <1>13. mreq' = [mreq EXCEPT ![t] = r]
    BY <1>1, <1>4, <1>12 DEF InsertDir, Done, MediaGround, CollectionTypes
  <1>14. r \in MediaReq /\ InHand(r)' /\ (r.op = "upload" => q.op = "upload" /\ r.pic = q.pic)
    <2>1. CASE q.op = "create"
      <3>1. r = NoRequest
        BY <2>1, <1>12
      <3>2. InHand(NoRequest)'
        BY DEF InHand, NoRequest
      <3> QED
        BY <3>1, <3>2, NoRequestInHand DEF NoRequest
    <2>2. CASE q.op = "upload"
      <3>1. /\ r \in MediaReq /\ r.op = "upload" /\ r.by = q.by /\ r.owner = q.owner /\ r.dir = n /\ r.pic = q.pic /\ r.ids = q.ids
        <4>1. r = [q EXCEPT !.step = "name", !.dir = n] /\ n \in 0 .. MaxDirs
          BY <2>2, <1>12, <1>4
        <4> QED
          BY <4>1, <2>2 DEF MediaReq, MediaSteps
      <3>2. InHand(q)'
        BY <1>2, <1>10, InHandKept DEF MediaGround
      <3>3. OwnDir(r)'
        BY <3>1, <1>3, <1>4, <1>6, <1>8 DEF OwnDir
      <3>4. (r.op # "none" => r.by \in Owners /\ r.owner \in Owners /\ CanManage(r.by, r.owner)') /\ r.owner = r.by
            /\ (\A i \in r.ids : items'[i].owner # "nobody") /\ r.pic \in 1 .. lastPic'
        BY <3>1, <3>2, <2>2 DEF InHand
      <3> QED
        BY <3>1, <3>3, <3>4, <2>2 DEF InHand
    <2> QED
      BY <2>1, <2>2, <1>2
  <1>15. Goes(t, r)
    BY <1>13, <1>14 DEF Goes
  <1>16. lastDir' \in 0 .. MaxDirs
    BY <1>4
  <1>17. items' \in [1 .. MaxUploads -> ItemDoc] /\ items' = items
    BY <1>2 DEF MediaGround, CollectionTypes
  <1>18. \A d \in 1 .. MaxDirs : \/ dirs'[d].owner = dirs[d].owner /\ dirs'[d].exists = dirs[d].exists
                                 \/ dirs[d].owner \in {q.owner, "nobody"} /\ dirs'[d].owner = q.owner
    BY <1>6, <1>8, <1>9 DEF NoDir
  <1> QED
    BY <1>1, <1>2, <1>10, <1>11, <1>14, <1>15, <1>16, <1>8, <1>17, <1>18, WriterMedia

\* A directory's record is renamed or marked as gone.
LEMMA DirWritten ==
  ASSUME MediaGround, NEW t \in MediaThreads, mreq[t].op \in {"rename", "rmdir"}, Done(t), NEW doc \in DirDoc,
         doc.owner = dirs[mreq[t].dir].owner, dirs' = dirs \/ dirs' = [dirs EXCEPT ![mreq[t].dir] = doc],
         UNCHANGED <<items, files, lastDir, lastPic, spoiled, mrequests>>
  PROVE  MediaGround' /\ AllOthersKept(mreq[t].owner)
  <1>1. PICK q \in MediaReq : q = mreq[t]
    BY DEF MediaGround, CollectionTypes
  <1>2. PICK n : n = q.dir
    OBVIOUS
  <1>3. n \in 1 .. lastDir /\ n \in 1 .. MaxDirs /\ dirs[n].owner = q.owner /\ lastDir \in Nat
    <2>1. n \in 1 .. lastDir /\ dirs[n].owner = q.owner
      BY <1>1, <1>2, AtReq DEF InHand, OwnDir
    <2> QED
      BY <2>1, MediaAssumption DEF MediaGround, CollectionTypes
  <1>4. /\ dirs' \in [1 .. MaxDirs -> DirDoc] /\ doc.owner = q.owner
        /\ \A d \in 1 .. MaxDirs : dirs'[d] = dirs[d] \/ (d = n /\ dirs'[d] = doc)
    BY <1>1, <1>2, <1>3 DEF MediaGround, CollectionTypes
  <1>5. \A d \in 1 .. MaxDirs : dirs'[d].owner = dirs[d].owner
    BY <1>3, <1>4
  <1>6. OwnersKept
    <2>1. lastDir <= MaxDirs /\ lastDir \in Nat /\ MaxDirs \in Nat
      BY MediaAssumption DEF MediaGround, CollectionTypes
    <2> QED
      BY <1>5, <2>1 DEF OwnersKept, MediaGround, CollectionTypes
  <1>7. DocsInv'
    <2>1. ASSUME NEW d \in 1 .. MaxDirs PROVE IF d <= lastDir' THEN dirs'[d].owner \in Owners ELSE dirs'[d] = NoDir
      BY <1>3, <1>4, <1>5 DEF MediaGround, DocsInv
    <2>2. ASSUME NEW i \in 1 .. MaxUploads, items[i].owner # "nobody"
          PROVE  dirs'[items[i].dir].owner = items[i].owner
      <3>1. items[i].dir \in 1 .. lastDir /\ dirs[items[i].dir].owner = items[i].owner
        BY <2>2 DEF MediaGround, DocsInv
      <3> QED
        BY <3>1, <1>6 DEF OwnersKept
    <2> QED
      BY <2>1, <2>2 DEF MediaGround, DocsInv
  <1>8. Goes(t, NoRequest)
    <2>1. InHand(NoRequest)'
      BY DEF InHand, NoRequest
    <2> QED
      BY <2>1, NoRequestInHand DEF Goes, Done
  <1>9. NoRequest.op # "upload"
    BY DEF NoRequest
  <1>10. /\ lastDir' \in 0 .. MaxDirs /\ items' \in [1 .. MaxUploads -> ItemDoc] /\ items' = items
    BY DEF MediaGround, CollectionTypes
  <1>11. \A d \in 1 .. MaxDirs : \/ dirs'[d].owner = dirs[d].owner /\ dirs'[d].exists = dirs[d].exists
                                 \/ dirs[d].owner \in {q.owner, "nobody"} /\ dirs'[d].owner = q.owner
    BY <1>3, <1>4
  <1> QED
    BY <1>1, <1>4, <1>6, <1>7, <1>8, <1>9, <1>10, <1>11, WriterMedia

LEMMA RenameRecordStep ==
  ASSUME MediaGround, NEW t \in MediaThreads, RenameRecord(t)
  PROVE  MediaGround' /\ AllOthersKept(mreq[t].owner)
  <1>1. PICK q \in MediaReq : q = mreq[t]
    BY DEF MediaGround, CollectionTypes
  <1>2. mreq[t].op = "rename" /\ Done(t) /\ UNCHANGED <<items, files, lastDir, lastPic, spoiled, mrequests>>
    BY DEF RenameRecord, At
  <1>3. OwnDir(q)
    BY <1>1, <1>2, AtReq DEF InHand
  <1>4. q.dir \in 1 .. MaxDirs /\ dirs[q.dir] \in DirDoc
    BY <1>3, MediaAssumption DEF OwnDir, MediaGround, CollectionTypes
  <1>5. PICK doc : doc = [dirs[q.dir] EXCEPT !.name = q.to]
    OBVIOUS
  <1>6. doc \in DirDoc /\ doc.owner = dirs[q.dir].owner
    BY <1>4, <1>5 DEF DirDoc, MediaReq
  <1>7. dirs' = dirs \/ dirs' = [dirs EXCEPT ![q.dir] = doc]
    <2>1. [dirs EXCEPT ![q.dir].name = q.to] = [dirs EXCEPT ![q.dir] = doc]
      BY <1>5
    <2> QED
      BY <1>1, <2>1 DEF RenameRecord
  <1> QED
    BY <1>1, <1>2, <1>6, <1>7, DirWritten

LEMMA DeleteDirRecordStep ==
  ASSUME MediaGround, NEW t \in MediaThreads, DeleteDirRecord(t)
  PROVE  MediaGround' /\ AllOthersKept(mreq[t].owner)
  <1>1. PICK q \in MediaReq : q = mreq[t]
    BY DEF MediaGround, CollectionTypes
  <1>2. mreq[t].op = "rmdir" /\ Done(t) /\ UNCHANGED <<items, files, lastDir, lastPic, spoiled, mrequests>>
    BY DEF DeleteDirRecord, At
  <1>3. OwnDir(q)
    BY <1>1, <1>2, AtReq DEF InHand
  <1>4. q.dir \in 1 .. MaxDirs /\ dirs[q.dir] \in DirDoc
    BY <1>3, MediaAssumption DEF OwnDir, MediaGround, CollectionTypes
  <1>5. PICK doc : doc = [dirs[q.dir] EXCEPT !.exists = FALSE]
    OBVIOUS
  <1>6. doc \in DirDoc /\ doc.owner = dirs[q.dir].owner
    BY <1>4, <1>5 DEF DirDoc
  <1>7. dirs' = [dirs EXCEPT ![q.dir] = doc]
    <2>1. [dirs EXCEPT ![q.dir].exists = FALSE] = [dirs EXCEPT ![q.dir] = doc]
      BY <1>5
    <2> QED
      BY <1>1, <2>1 DEF DeleteDirRecord
  <1> QED
    BY <1>1, <1>2, <1>6, <1>7, DirWritten

\* The item of a request is marked as gone or moved; the request goes on.
LEMMA ItemWritten ==
  ASSUME MediaGround, NEW t \in MediaThreads, mreq[t].op \in {"delete", "move"}, mreq[t].step = "record", To(t, "next"),
         NEW doc \in ItemDoc, doc.owner = items[mreq[t].pic].owner,
         doc.dir \in 1 .. lastDir, dirs[doc.dir].owner = doc.owner,
         items' = [items EXCEPT ![mreq[t].pic] = doc],
         UNCHANGED <<dirs, files, lastDir, lastPic, spoiled, mrequests>>
  PROVE  MediaGround' /\ AllOthersKept(mreq[t].owner)
  <1>1. PICK q \in MediaReq : q = mreq[t]
    BY DEF MediaGround, CollectionTypes
  <1>2. PICK n : n = q.pic
    OBVIOUS
  <1>3. n \in 1 .. lastPic /\ items[n].owner = q.owner /\ q.owner \in Owners /\ q.owner # "nobody"
    BY <1>1, <1>2, AtReq DEF InHand
  <1>4. n \in 1 .. MaxUploads
    BY <1>3, MediaAssumption DEF MediaGround, CollectionTypes
  <1>5. /\ items' \in [1 .. MaxUploads -> ItemDoc] /\ doc.owner = q.owner
        /\ \A i \in 1 .. MaxUploads : items'[i] = IF i = n THEN doc ELSE items[i]
    BY <1>1, <1>2, <1>3, <1>4 DEF MediaGround, CollectionTypes
  <1>6. \A i \in 1 .. MaxUploads : items'[i].owner = items[i].owner
    BY <1>3, <1>5
  <1>7. OwnersKept
    BY <1>6 DEF OwnersKept, MediaGround, CollectionTypes
  <1>8. DocsInv'
    <2>1. ASSUME NEW i \in 1 .. MaxUploads
          PROVE  IF items'[i].owner = "nobody" THEN items'[i] = NoItem
                 ELSE /\ i <= lastPic /\ items'[i].owner \in Owners
                      /\ items'[i].dir \in 1 .. lastDir /\ dirs[items'[i].dir].owner = items'[i].owner
      <3>1. CASE i = n
        <4>1. items'[i] = doc /\ doc.owner # "nobody" /\ doc.owner \in Owners /\ i <= lastPic
          BY <3>1, <1>3, <1>5
        <4> QED
          BY <4>1
      <3>2. CASE i # n
        <4>1. items'[i] = items[i]
          BY <3>2, <1>5
        <4> QED
          BY <4>1 DEF MediaGround, DocsInv
      <3> QED
        BY <3>1, <3>2
    <2> QED
      BY <2>1 DEF MediaGround, DocsInv
  <1>9. PICK r : r = [q EXCEPT !.step = "next"]
    OBVIOUS
  <1>10. r \in MediaReq /\ InHand(r) /\ r.op = q.op
    <2>1. "next" \in MediaSteps
      BY DEF MediaSteps
    <2>2. r \in MediaReq /\ InHand(r)
      BY <1>1, <1>9, <2>1, NextStep
    <2> QED
      BY <2>2, <1>9 DEF MediaReq
  <1>11. Goes(t, r)
    <2>1. mreq' = [mreq EXCEPT ![t] = r]
      BY <1>1, <1>9 DEF To
    <2>2. InHand(r)'
      BY <1>7, <1>10, InHandKept DEF MediaGround
    <2> QED
      BY <1>10, <2>1, <2>2 DEF Goes
  <1>12. \A i \in 1 .. MaxUploads : items'[i] = items[i] \/ items[i] # NoItem
    BY <1>3, <1>5 DEF NoItem
  <1>13. lastDir' \in 0 .. MaxDirs /\ dirs' \in [1 .. MaxDirs -> DirDoc] /\ dirs' = dirs
    BY DEF MediaGround, CollectionTypes
  <1>14. \A i \in 1 .. MaxUploads : \/ items'[i].owner = items[i].owner /\ items'[i].exists = items[i].exists
                                    \/ items[i].owner \in {q.owner, "nobody"} /\ items'[i].owner = q.owner
    BY <1>3, <1>5
  <1>15. r.op # "upload"
    BY <1>1, <1>10
  <1> QED
    BY <1>1, <1>5, <1>7, <1>8, <1>11, <1>12, <1>13, <1>14, <1>15, WriterMedia

\* The item a request has in hand.
LEMMA ItemInHand ==
  ASSUME MediaGround, NEW t \in MediaThreads, mreq[t].op \in {"delete", "move"}, mreq[t].step = "record"
  PROVE  LET i == mreq[t].pic IN
         /\ items[i] \in ItemDoc /\ items[i].dir \in 1 .. lastDir /\ dirs[items[i].dir].owner = items[i].owner
         /\ items[i].owner = mreq[t].owner
  <1>1. PICK i : i = mreq[t].pic
    OBVIOUS
  <1>2. i \in 1 .. lastPic /\ items[i].owner = mreq[t].owner /\ items[i].owner # "nobody"
    BY <1>1, AtReq DEF InHand
  <1>3. i \in 1 .. MaxUploads
    BY <1>2, MediaAssumption DEF MediaGround, CollectionTypes
  <1> QED
    BY <1>1, <1>2, <1>3 DEF MediaGround, DocsInv, CollectionTypes

LEMMA DeleteRecordStep ==
  ASSUME MediaGround, NEW t \in MediaThreads, DeleteRecord(t)
  PROVE  MediaGround' /\ AllOthersKept(mreq[t].owner)
  <1>1. PICK i : i = mreq[t].pic
    OBVIOUS
  <1>2. /\ mreq[t].op = "delete" /\ mreq[t].step = "record" /\ To(t, "next")
        /\ UNCHANGED <<dirs, files, lastDir, lastPic, spoiled, mrequests>>
    BY DEF DeleteRecord, At
  <1>3. items[i] \in ItemDoc /\ items[i].dir \in 1 .. lastDir /\ dirs[items[i].dir].owner = items[i].owner
    BY <1>1, <1>2, ItemInHand
  <1>4. PICK doc : doc = [items[i] EXCEPT !.exists = FALSE]
    OBVIOUS
  <1>5. doc \in ItemDoc /\ doc.owner = items[i].owner /\ doc.dir = items[i].dir
    BY <1>3, <1>4 DEF ItemDoc
  <1>6. items' = [items EXCEPT ![i] = doc]
    <2>1. [items EXCEPT ![i].exists = FALSE] = [items EXCEPT ![i] = doc]
      BY <1>4
    <2> QED
      BY <1>1, <2>1 DEF DeleteRecord
  <1> QED
    BY <1>1, <1>2, <1>3, <1>5, <1>6, ItemWritten

LEMMA MoveRecordStep ==
  ASSUME MediaGround, NEW t \in MediaThreads, MoveRecord(t)
  PROVE  MediaGround' /\ AllOthersKept(mreq[t].owner)
  <1>1. PICK q \in MediaReq : q = mreq[t]
    BY DEF MediaGround, CollectionTypes
  <1>2. PICK i : i = q.pic
    OBVIOUS
  <1>3. /\ mreq[t].op = "move" /\ mreq[t].step = "record" /\ To(t, "next")
        /\ UNCHANGED <<dirs, files, lastDir, lastPic, spoiled, mrequests>>
    BY DEF MoveRecord, At
  <1>4. items[i] \in ItemDoc /\ items[i].owner = q.owner
    BY <1>1, <1>2, <1>3, ItemInHand
  <1>5. OwnDir(q) /\ q.dir \in 0 .. MaxDirs
    BY <1>1, <1>3, AtReq DEF InHand, MediaReq
  <1>6. PICK doc : doc = [items[i] EXCEPT !.dir = q.dir]
    OBVIOUS
  <1>7. doc \in ItemDoc /\ doc.owner = items[i].owner /\ doc.dir = q.dir
    BY <1>4, <1>5, <1>6 DEF ItemDoc
  <1>8. items' = [items EXCEPT ![i] = doc]
    <2>1. [items EXCEPT ![i].dir = q.dir] = [items EXCEPT ![i] = doc]
      BY <1>6
    <2> QED
      BY <1>1, <1>2, <2>1 DEF MoveRecord, Moved
  <1>9. doc.dir \in 1 .. lastDir /\ dirs[doc.dir].owner = doc.owner
    BY <1>4, <1>5, <1>7 DEF OwnDir
  <1> QED
    BY <1>1, <1>2, <1>3, <1>7, <1>8, <1>9, ItemWritten

LEMMA InsertItemStep ==
  ASSUME MediaGround, NEW t \in MediaThreads, InsertItem(t)
  PROVE  MediaGround' /\ AllOthersKept(mreq[t].owner)
  <1>1. PICK q \in MediaReq : q = mreq[t]
    BY DEF MediaGround, CollectionTypes
  <1>2. /\ q.op = "upload" /\ q.step = "insert" /\ InHand(q) /\ Done(t)
        /\ UNCHANGED <<dirs, folders, files, lastDir, lastPic, spoiled, mrequests>>
    BY <1>1 DEF InsertItem, At, MediaGround
  <1>3. /\ q.owner \in Owners /\ q.by = q.owner /\ q.owner # "nobody" /\ OwnDir(q) /\ q.pic \in 1 .. lastPic
    BY <1>2, MediaAssumption DEF InHand, Owners
  <1>4. PICK n : n = q.pic
    OBVIOUS
  <1>5. n \in 1 .. MaxUploads /\ n <= lastPic /\ items[n] = NoItem
    <2>1. n \in 1 .. MaxUploads /\ n <= lastPic
      BY <1>3, <1>4, MediaAssumption DEF MediaGround, CollectionTypes
    <2> QED
      BY <2>1, <1>1, <1>2, <1>4 DEF MediaGround, PicsInv
  <1>6. PICK doc : doc = [exists |-> TRUE, owner |-> q.by, dir |-> q.dir, stem |-> StoredStem(q.stem)]
    OBVIOUS
  <1>7. doc \in ItemDoc /\ doc.owner = q.owner /\ doc.dir = q.dir
    <2>1. StoredStem(q.stem) \in Seq(Words)
      BY StoredTyped DEF MediaReq
    <2> QED
      BY <2>1, <1>3, <1>6 DEF ItemDoc, MediaReq
  <1>8. items' = [items EXCEPT ![n] = doc]
    BY <1>1, <1>4, <1>6 DEF InsertItem, Inserted
  <1>9. items' \in [1 .. MaxUploads -> ItemDoc] /\ \A i \in 1 .. MaxUploads : items'[i] = IF i = n THEN doc ELSE items[i]
    BY <1>5, <1>7, <1>8 DEF MediaGround, CollectionTypes
  <1>10. OwnersKept
    <2>1. \A i \in 1 .. MaxUploads : items[i].owner # "nobody" => items'[i].owner = items[i].owner
      BY <1>5, <1>9 DEF NoItem
    <2>2. UNCHANGED <<dirs, lastDir, lastPic>>
      BY <1>2
    <2>3. lastDir \in Nat /\ lastPic \in Nat
      BY DEF MediaGround, CollectionTypes
    <2> QED
      BY <2>1, <2>2, <2>3 DEF OwnersKept
  <1>11. DocsInv'
    <2>1. ASSUME NEW i \in 1 .. MaxUploads
          PROVE  IF items'[i].owner = "nobody" THEN items'[i] = NoItem
                 ELSE /\ i <= lastPic /\ items'[i].owner \in Owners
                      /\ items'[i].dir \in 1 .. lastDir /\ dirs[items'[i].dir].owner = items'[i].owner
      <3>1. CASE i = n
        <4>1. /\ items'[i] = doc /\ doc.owner # "nobody" /\ doc.owner \in Owners /\ i <= lastPic
              /\ doc.dir \in 1 .. lastDir /\ dirs[doc.dir].owner = doc.owner
          BY <3>1, <1>3, <1>5, <1>7, <1>9 DEF OwnDir
        <4> QED
          BY <4>1
      <3>2. CASE i # n
        <4>1. items'[i] = items[i]
          BY <3>2, <1>9
        <4> QED
          BY <4>1 DEF MediaGround, DocsInv
      <3> QED
        BY <3>1, <3>2
    <2> QED
      BY <2>1, <1>2 DEF MediaGround, DocsInv
  <1>12. Goes(t, NoRequest) /\ NoRequest.op # "upload"
    <2>1. InHand(NoRequest)'
      BY DEF InHand, NoRequest
    <2> QED
      BY <1>2, <2>1, NoRequestInHand DEF Goes, Done, NoRequest
  <1>13. \A i \in 1 .. MaxUploads : items'[i] = items[i] \/ items[i] # NoItem \/ (mreq[t].op = "upload" /\ mreq[t].pic = i)
    BY <1>1, <1>2, <1>4, <1>9
  <1>14. lastDir' \in 0 .. MaxDirs /\ dirs' \in [1 .. MaxDirs -> DirDoc] /\ dirs' = dirs
    BY <1>2 DEF MediaGround, CollectionTypes
  <1>15. \A i \in 1 .. MaxUploads : \/ items'[i].owner = items[i].owner /\ items'[i].exists = items[i].exists
                                    \/ items[i].owner \in {q.owner, "nobody"} /\ items'[i].owner = q.owner
    BY <1>5, <1>7, <1>9 DEF NoItem
  <1>16. PICK r : r = NoRequest
    OBVIOUS
  <1>17. Goes(t, r) /\ r.op # "upload" /\ (\A i \in 1 .. MaxUploads : items'[i] = items[i] \/ items[i] # NoItem
                                    \/ (mreq[t].op = "upload" /\ mreq[t].pic = i /\ r.op # "upload"))
    BY <1>12, <1>13, <1>16
  <1>18. UNCHANGED <<lastPic, mrequests, spoiled, files>>
    BY <1>2
  <1>19. PICK o : o = q.owner
    OBVIOUS
  <1> QED
    BY <1>1, <1>19, <1>9, <1>10, <1>11, <1>14, <1>15, <1>17, <1>18, WriterMedia

-----------------------------------------------------------------------------
(* The requests.                                                           *)

LEMMA StartMedia ==
  ASSUME MediaGround, NEW t \in MediaThreads, NEW r \in MediaReq, Start(t, r), r.op # "none", InHand(r)',
         UNCHANGED <<dirs, items, files, lastDir>>, lastPic' \in 0 .. MaxUploads, lastPic <= lastPic',
         r.op = "upload" => r.pic = lastPic + 1 /\ r.pic \in 1 .. MaxUploads
  PROVE  MediaGround' /\ \A x \in Owners : Records(x)' = Records(x)
  <1>1. /\ mreq[t].op = "none" /\ mreq' = [mreq EXCEPT ![t] = r]
        /\ mrequests' = mrequests + 1 /\ mrequests < MaxMediaRequests
    BY DEF Start
  <1>2. mrequests' \in 0 .. MaxMediaRequests
    BY <1>1, MediaAssumption DEF MediaGround, CollectionTypes
  <1>3. OwnersOf(r) \subseteq Owners
    <2>1. r.owner \in Owners /\ \A i \in r.ids : items[i].owner # "nobody"
      BY DEF InHand
    <2>2. \A i \in r.ids : i \in 1 .. MaxUploads
      BY DEF MediaReq
    <2>3. \A i \in 1 .. MaxUploads : items[i].owner # "nobody" => items[i].owner \in Owners
      BY DEF MediaGround, DocsInv
    <2> QED
      BY <2>1, <2>2, <2>3 DEF OwnersOf
  <1>4. spoiled' \subseteq Owners
    <2>1. PICK U : U = UNION {OwnersOf(r) \cap OwnersOf(mreq[q]) : q \in {p \in MediaThreads : Conflict(r, mreq[p])}}
      OBVIOUS
    <2>2. U \subseteq OwnersOf(r)
      BY <2>1, Zenon
    <2>3. spoiled' = spoiled \cup U
      BY <2>1 DEF Start
    <2> QED
      BY <1>3, <2>2, <2>3 DEF MediaGround, CollectionTypes
  <1>5. OwnersKept
    BY DEF OwnersKept, MediaGround, CollectionTypes
  <1>6. DocsInv'
    <2>1. lastPic \in Nat /\ lastPic' \in Nat
      BY DEF MediaGround, CollectionTypes
    <2> QED
      BY <2>1 DEF MediaGround, DocsInv
  <1>7. Goes(t, r)
    BY <1>1 DEF Goes
  <1>8. lastDir' \in 0 .. MaxDirs /\ dirs' \in [1 .. MaxDirs -> DirDoc] /\ items' \in [1 .. MaxUploads -> ItemDoc]
        /\ items' = items /\ dirs' = dirs
    BY DEF MediaGround, CollectionTypes
  <1>9. MediaGround'
    BY <1>2, <1>4, <1>5, <1>6, <1>7, <1>8, GroundKept
  <1>10. \A x \in Owners : Tree(x)' = Tree(x)
    BY DEF Tree
  <1>11. AllOthersKept("nobody")
    BY <1>6, <1>8, <1>10, OthersKept
  <1>12. "nobody" \notin Owners
    BY MediaAssumption DEF Owners
  <1> QED
    BY <1>9, <1>11, <1>12 DEF AllOthersKept

\* NoRequest has nothing in hand.
LEMMA FreshReq ==
  ASSUME NEW r, r \in [op : MediaOps, step : MediaSteps, by : Owners, owner : Owners, dir : 0 .. MaxDirs, name : DirNames,
                       to : DirNames, stem : Seq(Words), pic : 0 .. MaxUploads, ids : SUBSET (1 .. MaxUploads)]
  PROVE  r \in MediaReq
  BY DEF MediaReq

LEMMA CreateDirStep ==
  ASSUME MediaGround, NEW t \in MediaThreads, NEW u \in Owners, NEW n \in DirNames, CreateDir(t, u, n)
  PROVE  MediaGround' /\ \A x \in Owners : Records(x)' = Records(x)
  <1>1. PICK r : r = [NoRequest EXCEPT !.op = "create", !.step = "disk", !.by = u, !.owner = u, !.name = n]
    OBVIOUS
  <1>2. /\ r \in MediaReq /\ r.op = "create" /\ r.by = u /\ r.owner = u /\ r.ids = {}
    BY <1>1, NoRequestInHand DEF NoRequest, MediaReq, MediaOps, MediaSteps
  <1>3. Start(t, r) /\ UNCHANGED <<dirs, items, files, lastDir, lastPic>>
    BY <1>1 DEF CreateDir
  <1>4. InHand(r)'
    BY <1>2 DEF InHand, CanManage
  <1>5. lastPic' \in 0 .. MaxUploads /\ lastPic <= lastPic'
    BY <1>3 DEF MediaGround, CollectionTypes
  <1> QED
    BY <1>2, <1>3, <1>4, <1>5, StartMedia

LEMMA DirFound ==
  ASSUME MediaGround, NEW d, DirById(d)
  PROVE  d \in 1 .. lastDir /\ d \in 1 .. MaxDirs /\ d \in 0 .. MaxDirs /\ dirs[d] \in DirDoc /\ dirs[d].owner \in Owners
         /\ dirs[d].name \in DirNames
  <1>1. d \in 1 .. lastDir /\ d \in 1 .. MaxDirs /\ d \in 0 .. MaxDirs /\ d <= lastDir
    BY MediaAssumption DEF DirById, MediaGround, CollectionTypes
  <1> QED
    BY <1>1 DEF MediaGround, CollectionTypes, DocsInv, DirDoc

LEMMA RenameDirStep ==
  ASSUME MediaGround, NEW t \in MediaThreads, NEW u \in Owners, NEW d, NEW n \in DirNames, RenameDir(t, u, d, n)
  PROVE  MediaGround' /\ \A x \in Owners : Records(x)' = Records(x)
  <1>1. PICK r : r = [NoRequest EXCEPT !.op = "rename", !.step = "disk", !.by = u, !.owner = dirs[d].owner,
                                  !.dir = d, !.name = dirs[d].name, !.to = n]
    OBVIOUS
  <1>2. /\ Start(t, r) /\ UNCHANGED <<dirs, items, files, lastDir, lastPic>>
        /\ DirById(d) /\ CanManage(u, dirs[d].owner)
    BY <1>1 DEF RenameDir
  <1>3. d \in 1 .. lastDir /\ d \in 0 .. MaxDirs /\ dirs[d].owner \in Owners /\ dirs[d].name \in DirNames
    BY <1>2, DirFound
  <1>4. /\ r \in MediaReq /\ r.op = "rename" /\ r.by = u /\ r.owner = dirs[d].owner /\ r.dir = d /\ r.ids = {}
    BY <1>1, <1>3, NoRequestInHand DEF NoRequest, MediaReq, MediaOps, MediaSteps
  <1>5. InHand(r)'
    BY <1>2, <1>3, <1>4 DEF InHand, CanManage, OwnDir
  <1>6. lastPic' \in 0 .. MaxUploads /\ lastPic <= lastPic'
    BY <1>2 DEF MediaGround, CollectionTypes
  <1> QED
    BY <1>2, <1>4, <1>5, <1>6, StartMedia

LEMMA DeleteDirStep ==
  ASSUME MediaGround, NEW t \in MediaThreads, NEW u \in Owners, NEW d, DeleteDir(t, u, d)
  PROVE  MediaGround' /\ \A x \in Owners : Records(x)' = Records(x)
  <1>1. PICK r : r = [NoRequest EXCEPT !.op = "rmdir", !.step = "disk", !.by = u, !.owner = dirs[d].owner,
                                  !.dir = d, !.name = dirs[d].name]
    OBVIOUS
  <1>2. /\ Start(t, r) /\ UNCHANGED <<dirs, items, files, lastDir, lastPic>>
        /\ DirById(d) /\ CanManage(u, dirs[d].owner)
    BY <1>1 DEF DeleteDir
  <1>3. d \in 1 .. lastDir /\ d \in 0 .. MaxDirs /\ dirs[d].owner \in Owners /\ dirs[d].name \in DirNames
    BY <1>2, DirFound
  <1>4. /\ r \in MediaReq /\ r.op = "rmdir" /\ r.by = u /\ r.owner = dirs[d].owner /\ r.dir = d /\ r.ids = {}
    BY <1>1, <1>3, NoRequestInHand DEF NoRequest, MediaReq, MediaOps, MediaSteps
  <1>5. InHand(r)'
    BY <1>2, <1>3, <1>4 DEF InHand, CanManage, OwnDir
  <1>6. lastPic' \in 0 .. MaxUploads /\ lastPic <= lastPic'
    BY <1>2 DEF MediaGround, CollectionTypes
  <1> QED
    BY <1>2, <1>4, <1>5, <1>6, StartMedia

\* What a page lists was recorded.
LEMMA ListedTyped ==
  ASSUME MediaGround, NEW ids \in SUBSET Listed
  PROVE  ids \in SUBSET (1 .. MaxUploads) /\ \A i \in ids : items[i].owner # "nobody"
  <1>1. \A i \in 1 .. lastPic : i \in 1 .. MaxUploads
    BY MediaAssumption DEF MediaGround, CollectionTypes
  <1> QED
    BY <1>1 DEF Listed

LEMMA DeleteItemsStep ==
  ASSUME MediaGround, NEW t \in MediaThreads, NEW u \in Owners, NEW ids \in SUBSET Listed, DeleteItems(t, u, ids)
  PROVE  MediaGround' /\ \A x \in Owners : Records(x)' = Records(x)
  <1>1. PICK r : r = [NoRequest EXCEPT !.op = "delete", !.step = "next", !.by = u, !.owner = u, !.ids = ids]
    OBVIOUS
  <1>2. Start(t, r) /\ UNCHANGED <<dirs, items, files, lastDir, lastPic>>
    BY <1>1 DEF DeleteItems
  <1>3. /\ r \in MediaReq /\ r.op = "delete" /\ r.step = "next" /\ r.by = u /\ r.owner = u /\ r.ids = ids
    BY <1>1, NoRequestInHand, ListedTyped DEF NoRequest, MediaReq, MediaOps, MediaSteps
  <1>4. InHand(r)'
    BY <1>2, <1>3, ListedTyped DEF InHand, CanManage
  <1>5. lastPic' \in 0 .. MaxUploads /\ lastPic <= lastPic'
    BY <1>2 DEF MediaGround, CollectionTypes
  <1> QED
    BY <1>2, <1>3, <1>4, <1>5, StartMedia

LEMMA MoveItemsStep ==
  ASSUME MediaGround, NEW t \in MediaThreads, NEW u \in Owners, NEW d, NEW ids \in SUBSET Listed, MoveItems(t, u, d, ids)
  PROVE  MediaGround' /\ \A x \in Owners : Records(x)' = Records(x)
  <1>1. PICK r : r = [NoRequest EXCEPT !.op = "move", !.step = "next", !.by = u, !.owner = dirs[d].owner,
                                  !.dir = d, !.to = dirs[d].name, !.ids = ids]
    OBVIOUS
  <1>2. /\ Start(t, r) /\ UNCHANGED <<dirs, items, files, lastDir, lastPic>>
        /\ DirById(d) /\ CanManage(u, dirs[d].owner)
    BY <1>1 DEF MoveItems
  <1>3. d \in 1 .. lastDir /\ d \in 0 .. MaxDirs /\ dirs[d].owner \in Owners /\ dirs[d].name \in DirNames
    BY <1>2, DirFound
  <1>4. /\ r \in MediaReq /\ r.op = "move" /\ r.step = "next" /\ r.by = u /\ r.owner = dirs[d].owner /\ r.dir = d /\ r.ids = ids
    BY <1>1, <1>3, NoRequestInHand, ListedTyped DEF NoRequest, MediaReq, MediaOps, MediaSteps
  <1>5. InHand(r)'
    BY <1>2, <1>3, <1>4, ListedTyped DEF InHand, CanManage, OwnDir
  <1>6. lastPic' \in 0 .. MaxUploads /\ lastPic <= lastPic'
    BY <1>2 DEF MediaGround, CollectionTypes
  <1> QED
    BY <1>2, <1>4, <1>5, <1>6, StartMedia

LEMMA UploadStep ==
  ASSUME MediaGround, NEW t \in MediaThreads, NEW u \in Owners, NEW d, NEW s \in Stems, Upload(t, u, d, s)
  PROVE  MediaGround' /\ \A x \in Owners : Records(x)' = Records(x)
  <1>1. PICK n \in Nat : n = lastPic + 1
    BY DEF MediaGround, CollectionTypes
  <1>2. n \in 1 .. MaxUploads /\ lastPic' = n /\ lastPic \in Nat /\ lastPic <= lastPic' /\ lastPic' \in 0 .. MaxUploads
        /\ UNCHANGED <<dirs, items, files, lastDir>>
    <2>1. lastPic < MaxUploads /\ lastPic' = lastPic + 1 /\ UNCHANGED <<dirs, items, files, lastDir>>
      BY DEF Upload
    <2>2. lastPic \in Nat /\ MaxUploads \in Nat
      BY MediaAssumption DEF MediaGround, CollectionTypes
    <2> QED
      BY <1>1, <2>1, <2>2
  <1>3. s \in Seq(Words)
    <2>1. s \in Seq(STRING)
      BY MediaAssumption
    <2>2. \A i \in 1 .. Len(s) : s[i] \in Words
      BY <2>1 DEF Words
    <2> QED
      BY <2>1, <2>2, SeqDef
  <1>4. PICK r0 : r0 = [NoRequest EXCEPT !.op = "upload", !.by = u, !.owner = u, !.stem = s, !.pic = n]
    OBVIOUS
  <1>5. /\ r0 \in MediaReq /\ r0.op = "upload" /\ r0.by = u /\ r0.owner = u /\ r0.pic = n /\ r0.ids = {} /\ r0.step = "none"
        /\ r0.name = DefaultDir
    <2>1. n \in 0 .. MaxUploads
      BY <1>2
    <2> QED
      BY <1>3, <1>4, <2>1, NoRequestInHand DEF NoRequest, MediaReq, MediaOps, MediaSteps
  <1>6. \/ DirById(d) /\ dirs[d].owner = u /\ Start(t, [r0 EXCEPT !.step = "name", !.dir = d, !.name = dirs[d].name])
        \/ Start(t, [r0 EXCEPT !.step = "default"])
        \/ \E e \in DirByName(u, DefaultDir) : Start(t, [r0 EXCEPT !.step = "name", !.dir = e])
    BY <1>1, <1>4 DEF Upload
  <1>7. ASSUME NEW r \in MediaReq, r.op = "upload", r.by = u, r.owner = u, r.pic = n, r.ids = {}, Start(t, r),
               r.step = "default" \/ OwnDir(r)
        PROVE  MediaGround' /\ \A x \in Owners : Records(x)' = Records(x)
    <2>1. InHand(r)'
      <3>1. r.pic \in 1 .. lastPic' /\ CanManage(u, u)'
        BY <1>2, <1>7 DEF CanManage
      <3>2. r.step = "default" \/ OwnDir(r)'
        BY <1>2, <1>7 DEF OwnDir
      <3> QED
        BY <1>7, <3>1, <3>2 DEF InHand
    <2>2. r.op # "none" /\ r.pic = lastPic + 1 /\ r.pic \in 1 .. MaxUploads
      BY <1>1, <1>2, <1>7
    <2> QED
      BY <1>2, <1>7, <2>1, <2>2, StartMedia
  <1>8. ASSUME NEW e, DirById(e), dirs[e].owner = u,
               \/ Start(t, [r0 EXCEPT !.step = "name", !.dir = e, !.name = dirs[e].name])
               \/ Start(t, [r0 EXCEPT !.step = "name", !.dir = e])
        PROVE  MediaGround' /\ \A x \in Owners : Records(x)' = Records(x)
    <2>1. e \in 1 .. lastDir /\ e \in 0 .. MaxDirs /\ dirs[e].name \in DirNames
      BY <1>8, DirFound
    <2>2. PICK r : Start(t, r) /\ \/ r = [r0 EXCEPT !.step = "name", !.dir = e, !.name = dirs[e].name]
                                  \/ r = [r0 EXCEPT !.step = "name", !.dir = e]
      BY <1>8
    <2>3. /\ r \in MediaReq /\ r.op = "upload" /\ r.by = u /\ r.owner = u /\ r.pic = n /\ r.ids = {} /\ r.dir = e
      BY <1>5, <2>1, <2>2 DEF MediaReq, MediaSteps
    <2>4. OwnDir(r)
      BY <1>8, <2>1, <2>3 DEF OwnDir
    <2> QED
      BY <1>7, <2>2, <2>3, <2>4
  <1>9. CASE Start(t, [r0 EXCEPT !.step = "default"])
    <2>1. PICK r : r = [r0 EXCEPT !.step = "default"]
      OBVIOUS
    <2>2. /\ r \in MediaReq /\ r.op = "upload" /\ r.by = u /\ r.owner = u /\ r.pic = n /\ r.ids = {} /\ r.step = "default"
      BY <1>5, <2>1 DEF MediaReq, MediaSteps
    <2> QED
      BY <1>7, <1>9, <2>1, <2>2
  <1>10. \A e \in DirByName(u, DefaultDir) : DirById(e) /\ dirs[e].owner = u
    BY DEF DirByName, DirById
  <1> QED
    BY <1>6, <1>8, <1>9, <1>10

-----------------------------------------------------------------------------
(* MediaConfined.                                                          *)

LEMMA MediaStart == MediaInit => MediaGround
  <1>1. SUFFICES ASSUME MediaInit PROVE MediaGround
    OBVIOUS
  <1>2. NoRequest \in MediaReq /\ NoRequest.op = "none" /\ NoRequest.ids = {} /\ NoRequest.step = "none"
    BY MediaAssumption, EmptySeq DEF NoRequest, MediaReq, MediaOps, MediaSteps
  <1>3. NoDir \in DirDoc /\ NoItem \in ItemDoc /\ NoItem.owner = "nobody"
    BY MediaAssumption, EmptySeq DEF NoDir, NoItem, DirDoc, ItemDoc
  <1>4. CollectionTypes
    BY <1>1, <1>2, <1>3, MediaAssumption DEF MediaInit, CollectionTypes
  <1>5. DocsInv
    BY <1>1, <1>3 DEF MediaInit, DocsInv
  <1>6. \A t \in MediaThreads : InHand(mreq[t])
    BY <1>1, <1>2 DEF MediaInit, InHand
  <1>7. PicsInv
    BY <1>1, <1>2 DEF MediaInit, PicsInv
  <1> QED
    BY <1>4, <1>5, <1>6, <1>7 DEF MediaGround

LEMMA MediaStays ==
  ASSUME MediaGround, UNCHANGED mediaVars
  PROVE  MediaGround' /\ mreq' = mreq
  BY DEF mediaVars, MediaGround, CollectionTypes, DocsInv, InHand, OwnDir, CanManage, PicsInv

\* A step of thread t starts a request, which changes no record or file, or goes on with
\* one, which changes its owner's.
ThreadStep(t) ==
    \/ \E u \in Owners :
        \/ \E n \in DirNames : CreateDir(t, u, n)
        \/ \E d \in 1..lastDir, n \in DirNames : RenameDir(t, u, d, n)
        \/ \E d \in 1..lastDir : DeleteDir(t, u, d)
        \/ \E ids \in SUBSET Listed \ {{}} : DeleteItems(t, u, ids)
        \/ \E d \in 1..lastDir, ids \in SUBSET Listed \ {{}} : MoveItems(t, u, d, ids)
        \/ \E d \in 0..lastDir, s \in Stems : Upload(t, u, d, s)
    \/ MakeFolder(t) \/ InsertDir(t) \/ RenameFolder(t) \/ RenameRecord(t)
    \/ RemoveFolder(t) \/ DeleteDirRecord(t)
    \/ TakeItem(t) \/ DeleteFiles(t) \/ DeleteRecord(t) \/ MoveFiles(t) \/ MoveRecord(t)
    \/ NameUpload(t) \/ OpenUpload(t) \/ Optimize(t) \/ InsertItem(t)

LEMMA MediaThreadStep ==
  ASSUME MediaGround, NEW t \in MediaThreads, ThreadStep(t)
  PROVE  MediaGround' /\ AllOthersKept(mreq[t].owner) /\ \E r : mreq' = [mreq EXCEPT ![t] = r]
  <1>1. ASSUME NEW u \in Owners,
               \/ \E n \in DirNames : CreateDir(t, u, n)
               \/ \E d \in 1..lastDir, n \in DirNames : RenameDir(t, u, d, n)
               \/ \E d \in 1..lastDir : DeleteDir(t, u, d)
               \/ \E ids \in SUBSET Listed \ {{}} : DeleteItems(t, u, ids)
               \/ \E d \in 1..lastDir, ids \in SUBSET Listed \ {{}} : MoveItems(t, u, d, ids)
               \/ \E d \in 0..lastDir, s \in Stems : Upload(t, u, d, s)
        PROVE  MediaGround' /\ AllOthersKept(mreq[t].owner)
    <2>1. MediaGround' /\ \A x \in Owners : Records(x)' = Records(x)
      BY <1>1, CreateDirStep, RenameDirStep, DeleteDirStep, DeleteItemsStep, MoveItemsStep, UploadStep
    <2> QED
      BY <2>1 DEF AllOthersKept
  <1>2. ASSUME \/ MakeFolder(t) \/ InsertDir(t) \/ RenameFolder(t) \/ RenameRecord(t)
               \/ RemoveFolder(t) \/ DeleteDirRecord(t)
               \/ TakeItem(t) \/ DeleteFiles(t) \/ DeleteRecord(t) \/ MoveFiles(t) \/ MoveRecord(t)
               \/ NameUpload(t) \/ OpenUpload(t) \/ Optimize(t) \/ InsertItem(t)
        PROVE  MediaGround' /\ AllOthersKept(mreq[t].owner)
    BY <1>2, MakeFolderStep, InsertDirStep, RenameFolderStep, RenameRecordStep, RemoveFolderStep, DeleteDirRecordStep,
       TakeItemStep, DeleteFilesStep, DeleteRecordStep, MoveFilesStep, MoveRecordStep, NameUploadStep, OpenUploadStep,
       OptimizeStep, InsertItemStep
  <1>3. MediaGround' /\ AllOthersKept(mreq[t].owner)
    BY <1>1, <1>2 DEF ThreadStep
  <1>4. \E r : mreq' = [mreq EXCEPT ![t] = r]
    <2>1. ASSUME NEW s, To(t, s) PROVE \E r : mreq' = [mreq EXCEPT ![t] = r]
      BY <2>1 DEF To
    <2>2. ASSUME Done(t) PROVE \E r : mreq' = [mreq EXCEPT ![t] = r]
      BY <2>2 DEF Done
    <2>3. ASSUME NEW q, Start(t, q) PROVE \E r : mreq' = [mreq EXCEPT ![t] = r]
      BY <2>3 DEF Start
    <2>4. CASE \E u \in Owners :
               \/ \E n \in DirNames : CreateDir(t, u, n)
               \/ \E d \in 1..lastDir, n \in DirNames : RenameDir(t, u, d, n)
               \/ \E d \in 1..lastDir : DeleteDir(t, u, d)
               \/ \E ids \in SUBSET Listed \ {{}} : DeleteItems(t, u, ids)
               \/ \E d \in 1..lastDir, ids \in SUBSET Listed \ {{}} : MoveItems(t, u, d, ids)
               \/ \E d \in 0..lastDir, s \in Stems : Upload(t, u, d, s)
      <3>1. \E q : Start(t, q)
        BY <2>4, Zenon DEF CreateDir, RenameDir, DeleteDir, DeleteItems, MoveItems, Upload
      <3> QED
        BY <2>3, <3>1
    <2>5. CASE MakeFolder(t) \/ RenameFolder(t) \/ RemoveFolder(t) \/ DeleteFiles(t) \/ MoveFiles(t)
               \/ RenameRecord(t) \/ DeleteDirRecord(t) \/ DeleteRecord(t) \/ MoveRecord(t)
               \/ OpenUpload(t) \/ Optimize(t) \/ InsertItem(t)
      <3>1. Done(t) \/ \E s : To(t, s)
        BY <2>5, Zenon DEF MakeFolder, RenameFolder, RemoveFolder, DeleteFiles, MoveFiles, RenameRecord, DeleteDirRecord,
           DeleteRecord, MoveRecord, OpenUpload, Optimize, InsertItem
      <3> QED
        BY <2>1, <2>2, <3>1
    <2>6. CASE InsertDir(t)
      BY <2>2, <2>6 DEF InsertDir
    <2>7. CASE NameUpload(t)
      BY <2>2, <2>7 DEF NameUpload
    <2>8. CASE TakeItem(t)
      BY <2>2, <2>8 DEF TakeItem
    <2> QED
      BY <2>4, <2>5, <2>6, <2>7, <2>8 DEF ThreadStep
  <1> QED
    BY <1>3, <1>4

LEMMA MediaNextStep == MediaNext <=> \E t \in MediaThreads : ThreadStep(t)
  BY Zenon DEF MediaNext, ThreadStep

LEMMA MediaInductive == MediaSpec => []MediaGround
  <1>1. MediaInit => MediaGround
    BY MediaStart
  <1>2. MediaGround /\ [MediaNext]_mediaVars => MediaGround'
    <2>1. SUFFICES ASSUME MediaGround, [MediaNext]_mediaVars PROVE MediaGround'
      OBVIOUS
    <2> QED
      BY <2>1, MediaNextStep, MediaThreadStep, MediaStays
  <1> QED
    BY <1>1, <1>2, PTL DEF MediaSpec

\* A request of an author changes no other owner's directories, pictures or files,
\* whatever requests of others come between what it reads of the collections and what it
\* does to the disk and to them (media_can_manage(), the routes of http_router.c).
THEOREM MediaConfinedThm == MediaSpec => MediaConfined
  <1>1. ASSUME MediaGround, [MediaNext]_mediaVars, NEW t \in MediaThreads, mreq[t].by \in Contributors, mreq'[t] # mreq[t],
               NEW o \in Owners \ {mreq[t].by}
        PROVE  Records(o)' = Records(o)
    <2>1. mreq' # mreq
      BY <1>1
    <2>2. PICK q \in MediaThreads : ThreadStep(q)
      BY <1>1, <2>1, MediaNextStep, MediaStays
    <2>3. AllOthersKept(mreq[q].owner) /\ \E r : mreq' = [mreq EXCEPT ![q] = r]
      BY <1>1, <2>2, MediaThreadStep
    <2>4. q = t
      <3>1. mreq \in [MediaThreads -> MediaReq]
        BY <1>1 DEF MediaGround, CollectionTypes
      <3> QED
        BY <1>1, <2>3, <3>1
    <2>5. mreq[t].owner = mreq[t].by
      <3>1. InHand(mreq[t])
        BY <1>1 DEF MediaGround
      <3>2. mreq[t].op # "none"
        <4>1. mreq[t].by # "nobody"
          BY <1>1, MediaAssumption
        <4>2. mreq[t].op = "none" => mreq[t] = NoRequest
          BY <3>1 DEF InHand
        <4>3. NoRequest.by = "nobody"
          BY DEF NoRequest
        <4> QED
          BY <4>1, <4>2, <4>3
      <3>3. CanManage(mreq[t].by, mreq[t].owner)
        BY <3>1, <3>2 DEF InHand
      <3> QED
        BY <1>1, <3>3, MediaAssumption DEF CanManage
    <2> QED
      BY <1>1, <2>3, <2>4, <2>5 DEF AllOthersKept
  <1>2. MediaGround /\ [MediaNext]_mediaVars =>
          [\A t \in MediaThreads : mreq[t].by \in Contributors /\ mreq'[t] # mreq[t] =>
             \A o \in Owners \ {mreq[t].by} : Records(o)' = Records(o)]_mediaVars
    BY <1>1
  <1> QED
    BY <1>2, MediaInductive, PTL DEF MediaSpec, MediaConfined

-----------------------------------------------------------------------------
(* The media library, continued: what the records and the disk have to do   *)
(* with each other, for an owner whose requests did not get in each         *)
(* other's way.                                                             *)

\* A name that is none of the optimizer's, for any of its pictures.
Plain(s) == s # <<>> /\ \A j \in DOMAIN s : s[j] \notin Variants
PlainNames == \A s \in Stems : Plain(s)

\* Two requests of an owner whose requests did not get in each other's way.
Defaulting(r) == r.op = "upload" /\ r.step \in {"default", "record"}
Peaceful(r, q) ==
    /\ ~Structural(r) /\ ~Structural(q) /\ Heads(r) \cap Heads(q) = {}
    /\ ~(Defaulting(r) /\ Defaulting(q))

ApartInv ==
    \A o \in Owners \ spoiled : \A t, q \in MediaThreads :
        t # q /\ o \in OwnersOf(mreq[t]) /\ o \in OwnersOf(mreq[q]) => Peaceful(mreq[t], mreq[q])

\* Between the write of the disk and that of its record: a deletion, a move or renaming.
Deletes(r, i) == r.owner = items[i].owner /\ r.op = "delete" /\ r.step = "record" /\ r.pic = i
Moves(r, i) ==
    /\ r.owner = items[i].owner /\ r.step = "record"
    /\ \/ r.op = "move" /\ r.pic = i
       \/ r.op = "rename" /\ r.dir = items[i].dir

\* The variants of item i are in the folder named n.
Lies(i, n) ==
    /\ items[i].exists /\ \A t \in MediaThreads : ~Deletes(mreq[t], i)
    /\ \/ \E t \in MediaThreads : Moves(mreq[t], i) /\ mreq[t].to = n
       \/ (\A t \in MediaThreads : ~Moves(mreq[t], i)) /\ dirs[items[i].dir].name = n

\* The file that an upload of o has made and not yet recorded.
Holds(r, o, n, w, k) ==
    /\ r.op = "upload" /\ r.owner = o /\ r.name = n /\ r.pic = k
    /\ \/ r.step = "optimize" /\ w = r.stem
       \/ r.step = "insert" /\ w \in VariantsOf(r.stem)

\* What should be in folder n of o under the name w.
Recorded(o, n, w, k) == items[k].owner = o /\ Lies(k, n) /\ w \in VariantsOf(items[k].stem)
Shelf(o, n, w, k) ==
    \/ Recorded(o, n, w, k)
    \/ \E t \in MediaThreads : Holds(mreq[t], o, n, w, k)

OnDisk(o, n, w, k) == <<o, n, w>> \in DOMAIN files /\ files[<<o, n, w>>] = k

Shelved(o) ==
    \A n \in DirNames, w \in Seq(Words), k \in 1 .. MaxUploads : OnDisk(o, n, w, k) <=> Shelf(o, n, w, k)

OwnDirs(o) == {d \in 1 .. MaxDirs : dirs[d].exists /\ dirs[d].owner = o}

DirsOK(o) == \A d, e \in OwnDirs(o) : dirs[d].name = dirs[e].name => d = e

ItemsOK(o) ==
    \A i \in 1 .. MaxUploads : items[i].owner = o =>
        Plain(items[i].stem) /\ (items[i].exists => items[i].dir \in OwnDirs(o))

\* What a request that works for o has read still is so.
NameFree(o, n) == \A d \in OwnDirs(o) : dirs[d].name # n
ItemAt(r) ==
    /\ items[r.pic].exists /\ r.stem = items[r.pic].stem
    /\ dirs[items[r.pic].dir].name = r.name
UploadOK(o, r) ==
    /\ r.step \in {"default", "record"} => NameFree(o, r.name)
    /\ r.step \in {"name", "open", "optimize", "insert"} => r.dir \in OwnDirs(o) /\ dirs[r.dir].name = r.name
    /\ r.step \in {"open", "optimize"} => \A v \in Variants : <<o, r.name, Append(r.stem, v)>> \notin DOMAIN files
ReqOK(o, r) ==
    /\ r.op = "create" => NameFree(o, r.name)
    /\ r.op = "rename" => r.dir \in OwnDirs(o) /\ dirs[r.dir].name = r.name
                          /\ \A d \in OwnDirs(o) : dirs[d].name = r.to => d = r.dir
    /\ r.op = "rmdir" => \A i \in 1 .. MaxUploads : items[i].exists /\ items[i].owner = o => items[i].dir # r.dir
    /\ r.op = "move" => r.dir \in OwnDirs(o) /\ dirs[r.dir].name = r.to /\ (r.step = "record" => items[r.pic].exists)
    /\ r.op \in {"delete", "move"} /\ r.step = "disk" => ItemAt(r)
    /\ r.op = "delete" /\ r.step = "record" => r.stem = items[r.pic].stem
    /\ r.op = "upload" => UploadOK(o, r)

LibraryOK(o) ==
    /\ Shelved(o) /\ DirsOK(o) /\ ItemsOK(o)
    /\ \A t \in MediaThreads : mreq[t].owner = o => ReqOK(o, mreq[t])

NamedInv == \A t \in MediaThreads : mreq[t].op = "upload" => Plain(mreq[t].stem)

LibraryInv == MediaGround /\ DiskTypes /\ NamedInv /\ ApartInv /\ \A o \in Owners \ spoiled : LibraryOK(o)

-----------------------------------------------------------------------------
(* What a step leaves alone.                                               *)

\* The other requests, and the records and the files of owner o, are as they were.
Rest(t) == \A q \in MediaThreads \ {t} : mreq'[q] = mreq[q]
DocsSame(o) ==
    /\ \A d \in 1 .. MaxDirs : dirs[d].owner = o \/ dirs'[d].owner = o => dirs'[d] = dirs[d]
    /\ \A i \in 1 .. MaxUploads : items[i].owner = o \/ items'[i].owner = o => items'[i] = items[i]
TreeSame(o) ==
    \A n, w : /\ <<o, n, w>> \in DOMAIN files' <=> <<o, n, w>> \in DOMAIN files
              /\ <<o, n, w>> \in DOMAIN files => files'[<<o, n, w>>] = files[<<o, n, w>>]

\* A request that is not between its write of the disk and its write of a record.
Settling(r) == ~(r.step = "record" /\ r.op \in {"delete", "move", "rename"})
Quiet(r) == Settling(r) /\ ~(r.step \in {"optimize", "insert"} /\ r.op = "upload")

LEMMA MediaBounds ==
  ASSUME CollectionTypes
  PROVE  /\ MaxDirs \in Nat /\ MaxUploads \in Nat /\ lastDir \in Nat /\ lastPic \in Nat
         /\ lastDir <= MaxDirs /\ lastPic <= MaxUploads
         /\ \A d : d \in 1 .. lastDir => d \in 1 .. MaxDirs
         /\ \A i : i \in 1 .. lastPic => i \in 1 .. MaxUploads
  <1>1. MaxDirs \in Nat /\ MaxUploads \in Nat
    BY MediaAssumption
  <1> QED
    BY <1>1 DEF CollectionTypes

\* A picture of o is in a directory of o.
LEMMA DirOfItem ==
  ASSUME MediaGround, NEW o \in Owners, NEW i \in 1 .. MaxUploads, items[i].owner = o
  PROVE  items[i].dir \in 1 .. MaxDirs /\ dirs[items[i].dir].owner = o
  <1>1. o # "nobody"
    BY MediaAssumption DEF Owners
  <1> QED
    BY <1>1, MediaBounds DEF MediaGround, DocsInv

\* What is recorded of o stays where it is recorded.
LEMMA RecordedKept ==
  ASSUME MediaGround, NEW o \in Owners, DocsSame(o), NEW t \in MediaThreads, Rest(t),
         mreq[t].owner # o \/ Settling(mreq[t]), mreq'[t].owner # o \/ Settling(mreq'[t]),
         NEW n, NEW w, NEW k \in 1 .. MaxUploads
  PROVE  Recorded(o, n, w, k)' <=> Recorded(o, n, w, k)
  <1>1. ASSUME items[k].owner = o \/ items'[k].owner = o
        PROVE  items'[k] = items[k] /\ items[k].owner = o /\ dirs'[items[k].dir] = dirs[items[k].dir]
    BY <1>1, DirOfItem DEF DocsSame
  <1>2. ASSUME items[k].owner = o, items'[k] = items[k], NEW q \in MediaThreads
        PROVE  /\ Deletes(mreq[q], k)' <=> Deletes(mreq[q], k)
               /\ Moves(mreq[q], k)' <=> Moves(mreq[q], k)
               /\ Moves(mreq[q], k) => mreq'[q].to = mreq[q].to
    <2>1. CASE q = t
      <3>1. ~Deletes(mreq[t], k) /\ ~Moves(mreq[t], k)
        BY <1>2 DEF Settling, Deletes, Moves
      <3>2. ~Deletes(mreq[t], k)' /\ ~Moves(mreq[t], k)'
        BY <1>2 DEF Settling, Deletes, Moves
      <3> QED
        BY <2>1, <3>1, <3>2
    <2>2. CASE q # t
      BY <1>2, <2>2 DEF Rest, Deletes, Moves
    <2> QED
      BY <2>1, <2>2
  <1>3. ASSUME items[k].owner = o, items'[k] = items[k], dirs'[items[k].dir] = dirs[items[k].dir]
        PROVE  Lies(k, n)' <=> Lies(k, n)
    <2>1. (\E q \in MediaThreads : Moves(mreq[q], k) /\ mreq[q].to = n)' <=> (\E q \in MediaThreads : Moves(mreq[q], k) /\ mreq[q].to = n)
      BY <1>2, <1>3
    <2>2. (\A q \in MediaThreads : ~Moves(mreq[q], k))' <=> (\A q \in MediaThreads : ~Moves(mreq[q], k))
      BY <1>2, <1>3
    <2>3. (\A q \in MediaThreads : ~Deletes(mreq[q], k))' <=> (\A q \in MediaThreads : ~Deletes(mreq[q], k))
      BY <1>2, <1>3
    <2> QED
      BY <1>3, <2>1, <2>2, <2>3 DEF Lies
  <1>4. items[k].owner = o => (w \in VariantsOf(items[k].stem))' <=> w \in VariantsOf(items[k].stem)
    BY <1>1 DEF VariantsOf
  <1> QED
    BY <1>1, <1>3, <1>4 DEF Recorded

\* So does what another request holds.
LEMMA HoldsKept ==
  ASSUME NEW t \in MediaThreads, Rest(t), NEW q \in MediaThreads, q # t, NEW o, NEW n, NEW w, NEW k
  PROVE  Holds(mreq[q], o, n, w, k)' <=> Holds(mreq[q], o, n, w, k)
  <1>1. PICK r : r = mreq[q]
    OBVIOUS
  <1>2. mreq'[q] = r
    BY <1>1 DEF Rest
  <1>3. Holds(r, o, n, w, k)' <=> Holds(r, o, n, w, k)
    BY DEF Holds
  <1> QED
    BY <1>1, <1>2, <1>3

LEMMA ShelfKept ==
  ASSUME MediaGround, NEW o \in Owners, DocsSame(o), NEW t \in MediaThreads, Rest(t),
         mreq[t].owner # o \/ Quiet(mreq[t]), mreq'[t].owner # o \/ Quiet(mreq'[t]),
         NEW n, NEW w, NEW k \in 1 .. MaxUploads
  PROVE  Shelf(o, n, w, k)' <=> Shelf(o, n, w, k)
  <1>1. Recorded(o, n, w, k)' <=> Recorded(o, n, w, k)
    BY RecordedKept DEF Quiet
  <1>2. ASSUME NEW q \in MediaThreads PROVE Holds(mreq[q], o, n, w, k)' <=> Holds(mreq[q], o, n, w, k)
    <2>1. CASE q = t
      <3>1. ~Holds(mreq[t], o, n, w, k) /\ ~Holds(mreq[t], o, n, w, k)'
        BY DEF Quiet, Holds
      <3> QED
        BY <2>1, <3>1
    <2> QED
      BY <2>1, HoldsKept
  <1>3. (\E q \in MediaThreads : Holds(mreq[q], o, n, w, k))' <=> (\E q \in MediaThreads : Holds(mreq[q], o, n, w, k))
    BY <1>2
  <1> QED
    BY <1>1, <1>3 DEF Shelf

LEMMA OwnDirsKept ==
  ASSUME NEW o, DocsSame(o)
  PROVE  OwnDirs(o)' = OwnDirs(o) /\ \A d \in OwnDirs(o) : dirs'[d] = dirs[d]
  BY DEF OwnDirs, DocsSame

\* What request r has read is as it was, when what it read is.
LEMMA ReqKept ==
  ASSUME NEW o, NEW r, ReqOK(o, r), ItemsOK(o), OwnDirs(o)' = OwnDirs(o), \A d \in OwnDirs(o) : dirs'[d] = dirs[d],
         r.op = "rmdir" => \A i \in 1 .. MaxUploads : items'[i].owner = o => items'[i] = items[i],
         r.op \in {"delete", "move"} /\ r.step \in {"disk", "record"} =>
             r.pic \in 1 .. MaxUploads /\ items[r.pic].owner = o /\ items'[r.pic] = items[r.pic],
         r.op = "upload" => \A v \in Variants : <<o, r.name, Append(r.stem, v)>> \notin DOMAIN files =>
                                <<o, r.name, Append(r.stem, v)>> \notin DOMAIN files'
  PROVE  ReqOK(o, r)'
  <1>1. \A n : NameFree(o, n)' <=> NameFree(o, n)
    BY DEF NameFree
  <1>2. r.op = "create" => NameFree(o, r.name)'
    BY <1>1 DEF ReqOK
  <1>3. r.op = "rename" => r.dir \in OwnDirs(o)' /\ dirs'[r.dir].name = r.name
                          /\ \A d \in OwnDirs(o)' : dirs'[d].name = r.to => d = r.dir
    BY DEF ReqOK
  <1>4. r.op = "rmdir" => \A i \in 1 .. MaxUploads : items'[i].exists /\ items'[i].owner = o => items'[i].dir # r.dir
    BY DEF ReqOK
  <1>5. r.op = "move" => r.dir \in OwnDirs(o)' /\ dirs'[r.dir].name = r.to /\ (r.step = "record" => items'[r.pic].exists)
    BY DEF ReqOK
  <1>6. r.op \in {"delete", "move"} /\ r.step = "disk" => ItemAt(r)'
    <2>1. SUFFICES ASSUME r.op \in {"delete", "move"}, r.step = "disk" PROVE ItemAt(r)'
      OBVIOUS
    <2>2. items[r.pic].dir \in OwnDirs(o)
      BY <2>1 DEF ReqOK, ItemAt, ItemsOK
    <2> QED
      BY <2>1, <2>2 DEF ReqOK, ItemAt
  <1>7. r.op = "delete" /\ r.step = "record" => r.stem = items'[r.pic].stem
    BY DEF ReqOK
  <1>8. r.op = "upload" => UploadOK(o, r)'
    <2>1. SUFFICES ASSUME r.op = "upload" PROVE UploadOK(o, r)'
      OBVIOUS
    <2>2. UploadOK(o, r)
      BY <2>1 DEF ReqOK
    <2> QED
      BY <1>1, <2>1, <2>2 DEF UploadOK
  <1> QED
    BY <1>2, <1>3, <1>4, <1>5, <1>6, <1>7, <1>8 DEF ReqOK

\* The picture a deletion or a move has in hand.
LEMMA PicInHand ==
  ASSUME MediaGround, NEW q \in MediaThreads, mreq[q].op \in {"delete", "move"}, mreq[q].step \in {"disk", "record"}
  PROVE  mreq[q].pic \in 1 .. MaxUploads /\ items[mreq[q].pic].owner = mreq[q].owner
  <1>1. InHand(mreq[q])
    BY DEF MediaGround
  <1>2. mreq[q].pic \in 1 .. lastPic /\ items[mreq[q].pic].owner = mreq[q].owner
    BY <1>1 DEF InHand
  <1> QED
    BY <1>2, MediaBounds DEF MediaGround

\* The library of an owner a step does not touch, or of whom only the request of t
\* changed, to one that has read what is so.
LEMMA LibraryKept ==
  ASSUME MediaGround, MediaGround', NEW o \in Owners, LibraryOK(o), DocsSame(o), TreeSame(o),
         NEW t \in MediaThreads, Rest(t), mreq[t].owner # o \/ Quiet(mreq[t]),
         mreq'[t].owner = o => Quiet(mreq'[t]) /\ ReqOK(o, mreq[t])'
  PROVE  LibraryOK(o)'
  <1>1. mreq'[t].owner # o \/ Quiet(mreq'[t])
    OBVIOUS
  <1>2. ASSUME NEW n \in DirNames, NEW w \in Seq(Words), NEW k \in 1 .. MaxUploads
        PROVE  OnDisk(o, n, w, k)' <=> Shelf(o, n, w, k)'
    <2>1. Shelf(o, n, w, k)' <=> Shelf(o, n, w, k)
      BY <1>1, ShelfKept
    <2>2. OnDisk(o, n, w, k) <=> Shelf(o, n, w, k)
      BY DEF LibraryOK, Shelved
    <2>3. OnDisk(o, n, w, k)' <=> OnDisk(o, n, w, k)
      BY DEF OnDisk, TreeSame
    <2> QED
      BY <2>1, <2>2, <2>3
  <1>3. Shelved(o)'
    BY <1>2 DEF Shelved
  <1>4. OwnDirs(o)' = OwnDirs(o) /\ \A d \in OwnDirs(o) : dirs'[d] = dirs[d]
    BY OwnDirsKept
  <1>5. DirsOK(o)'
    BY <1>4 DEF DirsOK, LibraryOK
  <1>6. ItemsOK(o)'
    <2>1. SUFFICES ASSUME NEW i \in 1 .. MaxUploads, items'[i].owner = o
                   PROVE  Plain(items'[i].stem) /\ (items'[i].exists => items'[i].dir \in OwnDirs(o)')
      BY DEF ItemsOK
    <2>2. items'[i] = items[i] /\ items[i].owner = o
      BY <2>1 DEF DocsSame
    <2>3. Plain(items[i].stem) /\ (items[i].exists => items[i].dir \in OwnDirs(o))
      BY <2>2 DEF LibraryOK, ItemsOK
    <2> QED
      BY <1>4, <2>2, <2>3
  <1>7. ASSUME NEW q \in MediaThreads, mreq'[q].owner = o PROVE ReqOK(o, mreq[q])'
    <2>1. CASE q = t
      BY <1>7, <2>1
    <2>2. CASE q # t
      <3>1. PICK r \in MediaReq : r = mreq[q]
        BY DEF MediaGround, CollectionTypes
      <3>2. mreq'[q] = r /\ r.owner = o
        BY <1>7, <2>2, <3>1 DEF Rest
      <3>3. InHand(r) /\ ReqOK(o, r) /\ ItemsOK(o)
        BY <3>1, <3>2 DEF MediaGround, LibraryOK
      <3>4. r.op \in {"delete", "move"} /\ r.step \in {"disk", "record"} => r.pic \in 1 .. MaxUploads /\ items[r.pic].owner = o
        BY <3>1, <3>2, PicInHand
      <3>5. ReqOK(o, r)'
        BY <1>4, <3>3, <3>4, ReqKept DEF DocsSame, TreeSame
      <3> QED
        BY <3>2, <3>5
    <2> QED
      BY <2>1, <2>2
  <1> QED
    BY <1>3, <1>5, <1>6, <1>7 DEF LibraryOK

\* An owner's requests stay out of each other's way while none starts.
LEMMA ApartKept ==
  ASSUME MediaGround, MediaGround', ApartInv, NEW t \in MediaThreads, Rest(t), spoiled \subseteq spoiled',
         \A i \in 1 .. MaxUploads : items[i].owner # "nobody" => items'[i].owner = items[i].owner /\ items'[i].stem = items[i].stem,
         \A o \in Owners : o \in OwnersOf(mreq[t])' => o \in OwnersOf(mreq[t]),
         Heads(mreq[t])' \subseteq Heads(mreq[t]),
         Structural(mreq'[t]) => Structural(mreq[t]), Defaulting(mreq'[t]) => Defaulting(mreq[t])
  PROVE  ApartInv'
  <1>1. ASSUME NEW q \in MediaThreads, q # t
        PROVE  mreq'[q] = mreq[q] /\ OwnersOf(mreq[q])' = OwnersOf(mreq[q]) /\ Heads(mreq[q])' = Heads(mreq[q])
    <2>1. PICK r \in MediaReq : r = mreq[q]
      BY DEF MediaGround, CollectionTypes
    <2>2. mreq'[q] = r
      BY <1>1, <2>1 DEF Rest
    <2>3. ASSUME NEW i \in r.ids PROVE items'[i].owner = items[i].owner /\ items'[i].stem = items[i].stem
      <3>1. i \in 1 .. MaxUploads
        BY DEF MediaReq
      <3>2. items[i].owner # "nobody"
        BY <2>1 DEF MediaGround, InHand
      <3> QED
        BY <3>1, <3>2
    <2>4. OwnersOf(r)' = OwnersOf(r)
      BY <2>3 DEF OwnersOf
    <2>5. {items'[i].stem : i \in r.ids} = {items[i].stem : i \in r.ids}
      BY <2>3
    <2>6. Heads(r)' = Heads(r)
      BY <2>5 DEF Heads
    <2> QED
      BY <2>1, <2>2, <2>4, <2>6
  <1>2. ASSUME NEW o \in Owners \ spoiled', NEW q \in MediaThreads, q # t, o \in OwnersOf(mreq[t])', o \in OwnersOf(mreq[q])'
        PROVE  Peaceful(mreq[t], mreq[q])' /\ Peaceful(mreq[q], mreq[t])'
    <2>1. o \in Owners \ spoiled /\ o \in OwnersOf(mreq[t]) /\ o \in OwnersOf(mreq[q])
      BY <1>1, <1>2
    <2>2. Peaceful(mreq[t], mreq[q])
      BY <1>2, <2>1 DEF ApartInv
    <2>3. mreq'[q] = mreq[q] /\ Heads(mreq[q])' = Heads(mreq[q])
      BY <1>1, <1>2
    <2> QED
      BY <2>2, <2>3 DEF Peaceful
  <1>3. ASSUME NEW o \in Owners \ spoiled', NEW p \in MediaThreads, NEW q \in MediaThreads, p # q,
               o \in OwnersOf(mreq[p])', o \in OwnersOf(mreq[q])'
        PROVE  Peaceful(mreq[p], mreq[q])'
    <2>1. CASE p = t
      BY <1>2, <1>3, <2>1
    <2>2. CASE q = t
      BY <1>2, <1>3, <2>2
    <2>3. CASE p # t /\ q # t
      <3>1. /\ mreq'[p] = mreq[p] /\ OwnersOf(mreq[p])' = OwnersOf(mreq[p]) /\ Heads(mreq[p])' = Heads(mreq[p])
            /\ mreq'[q] = mreq[q] /\ OwnersOf(mreq[q])' = OwnersOf(mreq[q]) /\ Heads(mreq[q])' = Heads(mreq[q])
        BY <1>1, <2>3
      <3>2. Peaceful(mreq[p], mreq[q])
        BY <1>3, <3>1 DEF ApartInv
      <3> QED
        BY <3>1, <3>2 DEF Peaceful
    <2> QED
      BY <2>1, <2>2, <2>3
  <1> QED
    BY <1>3 DEF ApartInv

LEMMA NamedKept ==
  ASSUME NamedInv, NEW t \in MediaThreads, Rest(t), mreq'[t].op = "upload" => Plain(mreq'[t].stem)
  PROVE  NamedInv'
  BY DEF NamedInv, Rest

-----------------------------------------------------------------------------
(* The steps that start a request.                                         *)

LEMMA FoldersAdded ==
  ASSUME DiskTypes, files' = files, folders \subseteq folders', folders' \subseteq Owners \X DirNames,
         lastPic \in Nat, lastPic' \in Nat, lastPic <= lastPic'
  PROVE  DiskTypes'
  <1>1. /\ files \in [DOMAIN files -> 1 .. lastPic] /\ DOMAIN files \subseteq MediaPaths
        /\ \A p \in DOMAIN files : <<p[1], p[2]>> \in folders
    BY DEF DiskTypes
  <1>2. 1 .. lastPic \subseteq 1 .. lastPic'
    OBVIOUS
  <1>3. files \in [DOMAIN files -> 1 .. lastPic']
    BY <1>1, <1>2
  <1>4. \A p \in DOMAIN files : <<p[1], p[2]>> \in folders'
    BY <1>1
  <1> QED
    BY <1>1, <1>3, <1>4 DEF DiskTypes

LEMMA NobodyElse ==
  ASSUME MediaGround
  PROVE  /\ "nobody" \notin Owners /\ NoRequest.owner = "nobody" /\ NoRequest.op = "none" /\ NoRequest.ids = {}
         /\ NoRequest.stem = <<>> /\ NoRequest.step = "none"
         /\ \A q \in MediaThreads : mreq[q].op = "none" => mreq[q] = NoRequest
         /\ OwnersOf(NoRequest) = {"nobody"} /\ Heads(NoRequest) = {}
  <1>1. NoRequest.owner = "nobody" /\ NoRequest.op = "none" /\ NoRequest.ids = {} /\ NoRequest.stem = <<>> /\ NoRequest.step = "none"
    BY DEF NoRequest
  <1>2. "nobody" \notin Owners
    BY MediaAssumption DEF Owners
  <1>3. \A q \in MediaThreads : mreq[q].op = "none" => mreq[q] = NoRequest
    BY DEF MediaGround, InHand
  <1>4. OwnersOf(NoRequest) = {"nobody"} /\ Heads(NoRequest) = {}
    BY <1>1 DEF OwnersOf, Heads
  <1> QED
    BY <1>1, <1>2, <1>3, <1>4

\* Nothing is written: only the request of t is another one.
LEMMA LibraryUnwritten ==
  ASSUME LibraryInv, MediaGround', NEW t \in MediaThreads, Rest(t), UNCHANGED <<dirs, items, files>>, spoiled \subseteq spoiled',
         \A o \in Owners \ spoiled' :
            /\ mreq[t].owner # o \/ Quiet(mreq[t])
            /\ LibraryOK(o) /\ mreq'[t].owner = o => Quiet(mreq'[t]) /\ ReqOK(o, mreq[t])'
  PROVE  \A o \in Owners \ spoiled' : LibraryOK(o)'
  <1>1. SUFFICES ASSUME NEW o \in Owners \ spoiled' PROVE LibraryOK(o)'
    OBVIOUS
  <1>2. LibraryOK(o) /\ MediaGround
    BY DEF LibraryInv
  <1>3. DocsSame(o) /\ TreeSame(o)
    BY DEF DocsSame, TreeSame
  <1> QED
    BY <1>2, <1>3, LibraryKept

\* A request that starts beside another of an owner, unless they get in each other's way.
LEMMA ApartStart ==
  ASSUME LibraryInv, MediaGround', NEW t \in MediaThreads, NEW r \in MediaReq, Start(t, r), UNCHANGED items,
         r.op = "upload" => r.step # "record"
  PROVE  ApartInv' /\ spoiled \subseteq spoiled' /\ Rest(t) /\ mreq[t] = NoRequest /\ mreq'[t] = r
  <1>1. MediaGround /\ ApartInv /\ CollectionTypes /\ MediaThreads = DOMAIN mreq
    BY DEF LibraryInv, MediaGround, CollectionTypes
  <1>2. /\ mreq' = [mreq EXCEPT ![t] = r] /\ mreq[t].op = "none"
        /\ spoiled' = spoiled \cup UNION {OwnersOf(r) \cap OwnersOf(mreq[q]) : q \in {p \in MediaThreads : Conflict(r, mreq[p])}}
    BY DEF Start
  <1>3. spoiled \subseteq spoiled' /\ Rest(t) /\ mreq'[t] = r /\ mreq[t] = NoRequest
    BY <1>1, <1>2, NobodyElse DEF Rest
  <1>4. \A q : OwnersOf(q)' = OwnersOf(q) /\ Heads(q)' = Heads(q)
    BY DEF OwnersOf, Heads
  <1>5. ASSUME NEW o \in Owners \ spoiled', NEW q \in MediaThreads, q # t, o \in OwnersOf(r), o \in OwnersOf(mreq[q])
        PROVE  Peaceful(r, mreq[q]) /\ Peaceful(mreq[q], r)
    <2>1. ~Conflict(r, mreq[q])
      BY <1>2, <1>5
    <2>2. mreq[q].op # "none"
      BY <1>1, <1>5, NobodyElse
    <2> QED
      BY <2>1, <2>2 DEF Conflict, Peaceful, Defaulting
  <1>6. ASSUME NEW o \in Owners \ spoiled', NEW p \in MediaThreads, NEW q \in MediaThreads, p # q,
               o \in OwnersOf(mreq[p])', o \in OwnersOf(mreq[q])'
        PROVE  Peaceful(mreq[p], mreq[q])'
    <2>1. \A x : OwnersOf(mreq[x])' = OwnersOf(mreq'[x])
      BY <1>4
    <2>2. Peaceful(mreq'[p], mreq'[q])
      <3>1. CASE p = t
        BY <1>3, <1>5, <1>6, <2>1, <3>1 DEF Rest
      <3>2. CASE q = t
        BY <1>3, <1>5, <1>6, <2>1, <3>2 DEF Rest
      <3>3. CASE p # t /\ q # t
        BY <1>1, <1>3, <1>6, <2>1, <3>3 DEF Rest, ApartInv
      <3> QED
        BY <3>1, <3>2, <3>3
    <2> QED
      BY <1>4, <2>2 DEF Peaceful
  <1> QED
    BY <1>3, <1>6 DEF ApartInv

LEMMA LibraryStart ==
  ASSUME LibraryInv, MediaGround', NEW t \in MediaThreads, NEW r \in MediaReq, Start(t, r),
         UNCHANGED <<dirs, items, files, folders>>, lastPic <= lastPic',
         Quiet(r), r.op = "upload" => r.step # "record" /\ Plain(r.stem), \A o \in Owners : LibraryOK(o) /\ r.owner = o => ReqOK(o, r)
  PROVE  LibraryInv'
  <1>1. ApartInv' /\ spoiled \subseteq spoiled' /\ Rest(t) /\ mreq[t] = NoRequest /\ mreq'[t] = r
    BY ApartStart
  <1>2. MediaGround
    BY DEF LibraryInv
  <1>3. DiskTypes'
    <2>1. lastPic \in Nat /\ lastPic' \in Nat
      BY <1>2 DEF MediaGround, CollectionTypes
    <2> QED
      BY <2>1, FoldersAdded DEF LibraryInv, DiskTypes
  <1>4. \A o \in Owners : LibraryOK(o) /\ r.owner = o => ReqOK(o, r)'
    BY DEF ReqOK, NameFree, OwnDirs, ItemAt, UploadOK
  <1>5. \A o \in Owners \ spoiled' : LibraryOK(o)'
    BY <1>1, <1>2, <1>4, NobodyElse, LibraryUnwritten
  <1>6. NamedInv'
    BY <1>1, NamedKept DEF LibraryInv
  <1> QED
    BY <1>1, <1>3, <1>5, <1>6 DEF LibraryInv

\* A directory recorded is one the collection lists.
LEMMA OwnDirListed ==
  ASSUME MediaGround, NEW o \in Owners, NEW d \in OwnDirs(o)
  PROVE  d \in 1 .. lastDir /\ DirById(d) /\ d \in 1 .. MaxDirs /\ dirs[d].owner = o /\ dirs[d].name \in DirNames
  <1>1. d \in 1 .. MaxDirs /\ dirs[d].exists /\ dirs[d].owner = o /\ dirs[d] \in DirDoc
    BY DEF OwnDirs, MediaGround, CollectionTypes
  <1>2. d <= lastDir
    <2>1. dirs[d] # NoDir
      BY <1>1 DEF NoDir
    <2> QED
      BY <1>1, <2>1 DEF MediaGround, DocsInv
  <1>3. d \in 1 .. lastDir
    BY <1>1, <1>2, MediaBounds DEF MediaGround
  <1> QED
    BY <1>1, <1>3 DEF DirById, DirDoc

LEMMA CreateDirLibrary ==
  ASSUME LibraryInv, MediaGround', NEW t \in MediaThreads, NEW u \in Owners, NEW n \in DirNames, CreateDir(t, u, n)
  PROVE  LibraryInv'
  <1>1. PICK r : r = [NoRequest EXCEPT !.op = "create", !.step = "disk", !.by = u, !.owner = u, !.name = n]
    OBVIOUS
  <1>2. MediaGround
    BY DEF LibraryInv
  <1>3. r \in MediaReq /\ r.op = "create" /\ r.owner = u /\ r.name = n /\ r.step = "disk"
    BY <1>1, <1>2, NoRequestInHand DEF NoRequest, MediaReq, MediaOps, MediaSteps
  <1>4. Start(t, r) /\ UNCHANGED <<dirs, items, folders, files, lastDir, lastPic>> /\ DirByName(u, n) = {}
    BY <1>1 DEF CreateDir
  <1>5. NameFree(u, n)
    <2>1. SUFFICES ASSUME NEW d \in OwnDirs(u), dirs[d].name = n PROVE FALSE
      BY DEF NameFree
    <2>2. d \in DirByName(u, n)
      BY <1>2, <2>1, OwnDirListed DEF DirByName, DirById
    <2> QED
      BY <1>4, <2>2
  <1>6. \A o \in Owners : LibraryOK(o) /\ r.owner = o => ReqOK(o, r)
    BY <1>3, <1>5 DEF ReqOK
  <1>7. lastPic <= lastPic'
    BY <1>2, <1>4 DEF MediaGround, CollectionTypes
  <1> QED
    BY <1>3, <1>4, <1>6, <1>7, LibraryStart DEF Quiet, Settling

LEMMA RenameDirLibrary ==
  ASSUME LibraryInv, MediaGround', NEW t \in MediaThreads, NEW u \in Owners, NEW d, NEW n \in DirNames, RenameDir(t, u, d, n)
  PROVE  LibraryInv'
  <1>1. PICK r : r = [NoRequest EXCEPT !.op = "rename", !.step = "disk", !.by = u, !.owner = dirs[d].owner,
                                  !.dir = d, !.name = dirs[d].name, !.to = n]
    OBVIOUS
  <1>2. MediaGround
    BY DEF LibraryInv
  <1>3. /\ Start(t, r) /\ UNCHANGED <<dirs, items, folders, files, lastDir, lastPic>>
        /\ DirById(d) /\ (dirs[d].name = n \/ DirByName(dirs[d].owner, n) = {})
    BY <1>1 DEF RenameDir
  <1>4. d \in 1 .. MaxDirs /\ d \in 0 .. MaxDirs /\ dirs[d].owner \in Owners /\ dirs[d].name \in DirNames
    BY <1>2, <1>3, DirFound
  <1>5. r \in MediaReq /\ r.op = "rename" /\ r.owner = dirs[d].owner /\ r.dir = d /\ r.name = dirs[d].name /\ r.to = n /\ r.step = "disk"
    <2>1. r \in MediaReq /\ r.op = "rename" /\ r.owner = dirs[d].owner /\ r.dir = d
      BY <1>1, <1>2, <1>4, NoRequestInHand DEF NoRequest, MediaReq, MediaOps, MediaSteps
    <2>2. r.name = dirs[d].name /\ r.to = n /\ r.step = "disk"
      BY <1>1, <1>2, NoRequestInHand DEF NoRequest, MediaReq
    <2> QED
      BY <2>1, <2>2
  <1>6. ASSUME NEW o \in Owners, LibraryOK(o), r.owner = o PROVE ReqOK(o, r)
    <2>1. d \in OwnDirs(o)
      BY <1>3, <1>4, <1>5, <1>6 DEF OwnDirs, DirById
    <2>2. ASSUME NEW e \in OwnDirs(o), dirs[e].name = n PROVE e = d
      <3>1. e \in DirByName(o, n)
        BY <1>2, <2>2, <1>4, <1>5, <1>6, OwnDirListed DEF DirByName, DirById
      <3> QED
        BY <1>3, <1>5, <1>6, <2>1, <2>2, <3>1 DEF LibraryOK, DirsOK
    <2> QED
      BY <1>5, <2>1, <2>2 DEF ReqOK
  <1>7. lastPic <= lastPic'
    BY <1>2, <1>3 DEF MediaGround, CollectionTypes
  <1> QED
    BY <1>3, <1>5, <1>6, <1>7, LibraryStart DEF Quiet, Settling

LEMMA DeleteDirLibrary ==
  ASSUME LibraryInv, MediaGround', NEW t \in MediaThreads, NEW u \in Owners, NEW d, DeleteDir(t, u, d)
  PROVE  LibraryInv'
  <1>1. PICK r : r = [NoRequest EXCEPT !.op = "rmdir", !.step = "disk", !.by = u, !.owner = dirs[d].owner,
                                  !.dir = d, !.name = dirs[d].name]
    OBVIOUS
  <1>2. MediaGround
    BY DEF LibraryInv
  <1>3. /\ Start(t, r) /\ UNCHANGED <<dirs, items, folders, files, lastDir, lastPic>>
        /\ DirById(d) /\ ItemsIn(d) = {}
    BY <1>1 DEF DeleteDir
  <1>4. d \in 1 .. MaxDirs /\ d \in 0 .. MaxDirs /\ dirs[d].owner \in Owners /\ dirs[d].name \in DirNames
    BY <1>2, <1>3, DirFound
  <1>5. r \in MediaReq /\ r.op = "rmdir" /\ r.owner = dirs[d].owner /\ r.dir = d /\ r.step = "disk"
    BY <1>1, <1>2, <1>4, NoRequestInHand DEF NoRequest, MediaReq, MediaOps, MediaSteps
  <1>6. ASSUME NEW o \in Owners PROVE ReqOK(o, r)
    <2>1. ASSUME NEW i \in 1 .. MaxUploads, items[i].exists, items[i].owner = o, items[i].dir = d PROVE FALSE
      <3>1. i \in 1 .. lastPic
        BY <1>2, <2>1, MediaAssumption, MediaBounds DEF MediaGround, DocsInv, Owners
      <3> QED
        BY <1>3, <2>1, <3>1 DEF ItemsIn
    <2> QED
      BY <1>5, <2>1 DEF ReqOK
  <1>7. lastPic <= lastPic'
    BY <1>2, <1>3 DEF MediaGround, CollectionTypes
  <1> QED
    BY <1>3, <1>5, <1>6, <1>7, LibraryStart DEF Quiet, Settling

LEMMA DeleteItemsLibrary ==
  ASSUME LibraryInv, MediaGround', NEW t \in MediaThreads, NEW u \in Owners, NEW ids \in SUBSET Listed, DeleteItems(t, u, ids)
  PROVE  LibraryInv'
  <1>1. PICK r : r = [NoRequest EXCEPT !.op = "delete", !.step = "next", !.by = u, !.owner = u, !.ids = ids]
    OBVIOUS
  <1>2. MediaGround
    BY DEF LibraryInv
  <1>3. r \in MediaReq /\ r.op = "delete" /\ r.owner = u /\ r.step = "next"
    BY <1>1, <1>2, ListedTyped, NoRequestInHand DEF NoRequest, MediaReq, MediaOps, MediaSteps
  <1>4. Start(t, r) /\ UNCHANGED <<dirs, items, folders, files, lastDir, lastPic>>
    BY <1>1 DEF DeleteItems
  <1>5. \A o \in Owners : ReqOK(o, r)
    BY <1>3 DEF ReqOK
  <1>6. lastPic <= lastPic'
    BY <1>2, <1>4 DEF MediaGround, CollectionTypes
  <1> QED
    BY <1>3, <1>4, <1>5, <1>6, LibraryStart DEF Quiet, Settling

LEMMA MoveItemsLibrary ==
  ASSUME LibraryInv, MediaGround', NEW t \in MediaThreads, NEW u \in Owners, NEW d, NEW ids \in SUBSET Listed, MoveItems(t, u, d, ids)
  PROVE  LibraryInv'
  <1>1. PICK r : r = [NoRequest EXCEPT !.op = "move", !.step = "next", !.by = u, !.owner = dirs[d].owner,
                                  !.dir = d, !.to = dirs[d].name, !.ids = ids]
    OBVIOUS
  <1>2. MediaGround
    BY DEF LibraryInv
  <1>3. Start(t, r) /\ UNCHANGED <<dirs, items, folders, files, lastDir, lastPic>> /\ DirById(d)
    BY <1>1 DEF MoveItems
  <1>4. d \in 1 .. MaxDirs /\ d \in 0 .. MaxDirs /\ dirs[d].owner \in Owners /\ dirs[d].name \in DirNames
    BY <1>2, <1>3, DirFound
  <1>5. r \in MediaReq /\ r.op = "move" /\ r.owner = dirs[d].owner /\ r.dir = d /\ r.to = dirs[d].name /\ r.step = "next"
    <2>1. r \in MediaReq
      BY <1>1, <1>2, <1>4, ListedTyped, NoRequestInHand DEF NoRequest, MediaReq, MediaOps, MediaSteps
    <2>2. r.op = "move" /\ r.owner = dirs[d].owner /\ r.dir = d /\ r.to = dirs[d].name /\ r.step = "next"
      BY <1>1, <1>2, NoRequestInHand DEF NoRequest, MediaReq
    <2> QED
      BY <2>1, <2>2
  <1>6. ASSUME NEW o \in Owners, r.owner = o PROVE ReqOK(o, r)
    <2>1. d \in OwnDirs(o)
      BY <1>3, <1>4, <1>5, <1>6 DEF OwnDirs, DirById
    <2> QED
      BY <1>5, <2>1 DEF ReqOK
  <1>7. lastPic <= lastPic'
    BY <1>2, <1>3 DEF MediaGround, CollectionTypes
  <1> QED
    BY <1>3, <1>5, <1>6, <1>7, LibraryStart DEF Quiet, Settling

LEMMA UploadLibrary ==
  ASSUME PlainNames, LibraryInv, MediaGround', NEW t \in MediaThreads, NEW u \in Owners, NEW d, NEW s \in Stems, Upload(t, u, d, s)
  PROVE  LibraryInv'
  <1>1. MediaGround
    BY DEF LibraryInv
  <1>2. PICK n \in Nat : n = lastPic + 1
    BY <1>1 DEF MediaGround, CollectionTypes
  <1>3. n \in 0 .. MaxUploads /\ lastPic <= lastPic' /\ UNCHANGED <<dirs, items, folders, files, lastDir>>
    <2>1. lastPic < MaxUploads /\ lastPic' = lastPic + 1 /\ UNCHANGED <<dirs, items, folders, files, lastDir>>
      BY DEF Upload
    <2>2. lastPic \in Nat /\ MaxUploads \in Nat
      BY <1>1, MediaAssumption DEF MediaGround, CollectionTypes
    <2> QED
      BY <1>2, <2>1, <2>2
  <1>4. s \in Seq(Words) /\ Plain(s)
    <2>1. s \in Seq(STRING)
      BY MediaAssumption
    <2>2. \A i \in 1 .. Len(s) : s[i] \in Words
      BY <2>1 DEF Words
    <2> QED
      BY <2>1, <2>2, SeqDef DEF PlainNames
  <1>5. PICK r0 : r0 = [NoRequest EXCEPT !.op = "upload", !.by = u, !.owner = u, !.stem = s, !.pic = n]
    OBVIOUS
  <1>6. r0 \in MediaReq /\ r0.op = "upload" /\ r0.owner = u /\ r0.stem = s /\ r0.name = DefaultDir /\ r0.step = "none"
    BY <1>1, <1>3, <1>4, <1>5, NoRequestInHand DEF NoRequest, MediaReq, MediaOps, MediaSteps
  <1>7. \/ DirById(d) /\ dirs[d].owner = u /\ Start(t, [r0 EXCEPT !.step = "name", !.dir = d, !.name = dirs[d].name])
        \/ DirByName(u, DefaultDir) = {} /\ Start(t, [r0 EXCEPT !.step = "default"])
        \/ \E e \in DirByName(u, DefaultDir) : Start(t, [r0 EXCEPT !.step = "name", !.dir = e])
    BY <1>2, <1>5 DEF Upload
  <1>8. ASSUME NEW r \in MediaReq, r.op = "upload", r.owner = u, r.stem = s, Start(t, r), r.step \in {"name", "default"},
               r.step = "default" => NameFree(u, r.name), r.step = "name" => r.dir \in OwnDirs(u) /\ dirs[r.dir].name = r.name
        PROVE  LibraryInv'
    <2>1. UploadOK(u, r)
      BY <1>8 DEF UploadOK
    <2>2. \A o \in Owners : LibraryOK(o) /\ r.owner = o => ReqOK(o, r)
      BY <1>8, <2>1 DEF ReqOK
    <2>3. Quiet(r) /\ r.step # "record" /\ Plain(r.stem)
      BY <1>4, <1>8 DEF Quiet, Settling
    <2> QED
      BY <1>3, <1>8, <2>2, <2>3, LibraryStart
  <1>9. CASE DirById(d) /\ dirs[d].owner = u /\ Start(t, [r0 EXCEPT !.step = "name", !.dir = d, !.name = dirs[d].name])
    <2>1. d \in 1 .. MaxDirs /\ d \in 0 .. MaxDirs /\ dirs[d].name \in DirNames /\ d \in OwnDirs(u)
      BY <1>1, <1>9, DirFound DEF OwnDirs, DirById
    <2>2. PICK r : r = [r0 EXCEPT !.step = "name", !.dir = d, !.name = dirs[d].name]
      OBVIOUS
    <2>3. r \in MediaReq /\ r.op = "upload" /\ r.owner = u /\ r.stem = s /\ r.step = "name" /\ r.dir = d /\ r.name = dirs[d].name
      BY <1>6, <2>1, <2>2 DEF MediaReq, MediaSteps
    <2> QED
      BY <1>8, <1>9, <2>1, <2>2, <2>3
  <1>10. CASE DirByName(u, DefaultDir) = {} /\ Start(t, [r0 EXCEPT !.step = "default"])
    <2>1. NameFree(u, DefaultDir)
      <3>1. SUFFICES ASSUME NEW e \in OwnDirs(u), dirs[e].name = DefaultDir PROVE FALSE
        BY DEF NameFree
      <3>2. e \in DirByName(u, DefaultDir)
        BY <1>1, <3>1, OwnDirListed DEF DirByName, DirById
      <3> QED
        BY <1>10, <3>2
    <2>2. PICK r : r = [r0 EXCEPT !.step = "default"]
      OBVIOUS
    <2>3. r \in MediaReq /\ r.op = "upload" /\ r.owner = u /\ r.stem = s /\ r.step = "default" /\ r.name = DefaultDir
      BY <1>6, <2>2 DEF MediaReq, MediaSteps
    <2> QED
      BY <1>8, <1>10, <2>1, <2>2, <2>3
  <1>11. ASSUME NEW e \in DirByName(u, DefaultDir), Start(t, [r0 EXCEPT !.step = "name", !.dir = e]) PROVE LibraryInv'
    <2>1. DirById(e) /\ dirs[e].owner = u /\ dirs[e].name = DefaultDir
      BY DEF DirByName, DirById
    <2>2. e \in 1 .. MaxDirs /\ e \in 0 .. MaxDirs /\ e \in OwnDirs(u)
      BY <1>1, <2>1, DirFound DEF OwnDirs, DirById
    <2>3. PICK r : r = [r0 EXCEPT !.step = "name", !.dir = e]
      OBVIOUS
    <2>4. r \in MediaReq /\ r.op = "upload" /\ r.owner = u /\ r.stem = s /\ r.step = "name" /\ r.dir = e /\ r.name = DefaultDir
      BY <1>6, <2>2, <2>3 DEF MediaReq, MediaSteps
    <2> QED
      BY <1>8, <1>11, <2>1, <2>2, <2>3, <2>4
  <1> QED
    BY <1>7, <1>9, <1>10, <1>11

-----------------------------------------------------------------------------
(* The steps of a request.                                                 *)

LEMMA ToFields ==
  ASSUME MediaGround, NEW t \in MediaThreads, NEW s, To(t, s)
  PROVE  /\ Rest(t) /\ mreq'[t].step = s /\ mreq'[t].op = mreq[t].op /\ mreq'[t].owner = mreq[t].owner /\ mreq'[t].dir = mreq[t].dir
         /\ mreq'[t].name = mreq[t].name /\ mreq'[t].to = mreq[t].to /\ mreq'[t].stem = mreq[t].stem /\ mreq'[t].pic = mreq[t].pic
         /\ mreq'[t].ids = mreq[t].ids
  <1>1. PICK r \in MediaReq : r = mreq[t]
    BY DEF MediaGround, CollectionTypes
  <1>2. mreq' = [mreq EXCEPT ![t] = [r EXCEPT !.step = s]] /\ DOMAIN mreq = MediaThreads
    BY <1>1 DEF To, MediaGround, CollectionTypes
  <1>3. PICK q : q = [r EXCEPT !.step = s]
    OBVIOUS
  <1>4. /\ q.step = s /\ q.op = r.op /\ q.owner = r.owner /\ q.dir = r.dir /\ q.name = r.name /\ q.to = r.to
        /\ q.stem = r.stem /\ q.pic = r.pic /\ q.ids = r.ids
    BY <1>3 DEF MediaReq
  <1>5. mreq'[t] = q /\ Rest(t)
    BY <1>2, <1>3 DEF Rest
  <1> QED
    BY <1>1, <1>4, <1>5

LEMMA DoneFields ==
  ASSUME MediaGround, NEW t \in MediaThreads, Done(t)
  PROVE  Rest(t) /\ mreq'[t] = NoRequest
  BY DEF Done, MediaGround, CollectionTypes, Rest

\* What stays of a picture's record.
StemsKept == \A i \in 1 .. MaxUploads : items[i].owner # "nobody" => items'[i].owner = items[i].owner /\ items'[i].stem = items[i].stem

LEMMA ToApart ==
  ASSUME MediaGround, MediaGround', ApartInv, NEW t \in MediaThreads, NEW s, To(t, s), spoiled \subseteq spoiled', StemsKept,
         mreq[t].op = "upload" /\ s \in {"default", "record"} => mreq[t].step = "default"
  PROVE  ApartInv'
  <1>1. PICK r \in MediaReq : r = mreq[t]
    BY DEF MediaGround, CollectionTypes
  <1>2. PICK q : q = mreq'[t]
    OBVIOUS
  <1>3. q.step = s /\ q.op = r.op /\ q.owner = r.owner /\ q.stem = r.stem /\ q.ids = r.ids /\ Rest(t)
    BY <1>1, <1>2, ToFields
  <1>4. \A i \in r.ids : items'[i].owner = items[i].owner /\ items'[i].stem = items[i].stem
    <2>1. InHand(r)
      BY <1>1 DEF MediaGround
    <2> QED
      BY <2>1 DEF StemsKept, MediaReq, InHand
  <1>5. OwnersOf(q)' = OwnersOf(r)
    BY <1>3, <1>4 DEF OwnersOf
  <1>6. Heads(q)' = Heads(r)
    <2>1. {items'[i].stem : i \in r.ids} = {items[i].stem : i \in r.ids}
      BY <1>4
    <2> QED
      BY <1>3, <2>1 DEF Heads
  <1>7. (Structural(q) => Structural(r)) /\ (Defaulting(q) => Defaulting(r))
    BY <1>1, <1>3 DEF Structural, Defaulting
  <1> QED
    BY <1>1, <1>2, <1>3, <1>5, <1>6, <1>7, ApartKept DEF StemsKept

LEMMA DoneApart ==
  ASSUME MediaGround, MediaGround', ApartInv, NEW t \in MediaThreads, Done(t), spoiled \subseteq spoiled', StemsKept
  PROVE  ApartInv'
  <1>1. Rest(t) /\ mreq'[t] = NoRequest
    BY DoneFields
  <1>2. OwnersOf(NoRequest)' = {"nobody"} /\ Heads(NoRequest)' = {} /\ "nobody" \notin Owners
    <2>1. NoRequest.owner = "nobody" /\ NoRequest.ids = {} /\ NoRequest.stem = <<>>
      BY DEF NoRequest
    <2> QED
      BY <2>1, NobodyElse DEF OwnersOf, Heads
  <1>3. ~Structural(NoRequest) /\ ~Defaulting(NoRequest)
    BY DEF NoRequest, Structural, Defaulting
  <1> QED
    BY <1>1, <1>2, <1>3, ApartKept DEF StemsKept

LEMMA ReqUnwritten ==
  ASSUME UNCHANGED <<dirs, items, files>>, NEW o, NEW q, ReqOK(o, q)
  PROVE  ReqOK(o, q)'
  BY DEF ReqOK, NameFree, OwnDirs, ItemAt, UploadOK

\* A request that has written nothing is over, or goes on with what it has read.
LEMMA DoneLibrary ==
  ASSUME LibraryInv, MediaGround', NEW t \in MediaThreads, Done(t), Quiet(mreq[t]),
         UNCHANGED <<dirs, items, files, spoiled>>, DiskTypes'
  PROVE  LibraryInv'
  <1>1. MediaGround /\ ApartInv
    BY DEF LibraryInv
  <1>2. ApartInv'
    BY <1>1, DoneApart DEF StemsKept
  <1>3. Rest(t) /\ mreq'[t] = NoRequest
    BY <1>1, DoneFields
  <1>4. \A o \in Owners \ spoiled' : LibraryOK(o)'
    BY <1>1, <1>3, NobodyElse, LibraryUnwritten
  <1>5. NamedInv'
    BY <1>1, <1>3, NobodyElse, NamedKept DEF LibraryInv
  <1> QED
    BY <1>2, <1>4, <1>5 DEF LibraryInv

LEMMA ToLibrary ==
  ASSUME LibraryInv, MediaGround', NEW t \in MediaThreads, NEW s, To(t, s), Quiet(mreq[t]), Quiet(mreq'[t]),
         UNCHANGED <<dirs, items, files, spoiled>>, DiskTypes',
         mreq[t].op = "upload" /\ s \in {"default", "record"} => mreq[t].step = "default",
         NEW q, q = mreq'[t], \A o \in Owners : LibraryOK(o) /\ mreq[t].owner = o => ReqOK(o, q)
  PROVE  LibraryInv'
  <1>1. MediaGround /\ ApartInv
    BY DEF LibraryInv
  <1>2. ApartInv'
    BY <1>1, ToApart DEF StemsKept
  <1>3. Rest(t) /\ mreq'[t].owner = mreq[t].owner
    BY <1>1, ToFields
  <1>4. \A o \in Owners : LibraryOK(o) /\ mreq'[t].owner = o => ReqOK(o, q)'
    BY <1>3, ReqUnwritten
  <1>5. \A o \in Owners : LibraryOK(o) /\ mreq'[t].owner = o => ReqOK(o, mreq[t])'
    BY <1>4
  <1>6. \A o \in Owners \ spoiled' : LibraryOK(o)'
    BY <1>3, <1>5, LibraryUnwritten
  <1>7. NamedInv'
    <2>1. mreq'[t].op = mreq[t].op /\ mreq'[t].stem = mreq[t].stem
      BY <1>1, ToFields
    <2> QED
      BY <1>3, <2>1, NamedKept DEF LibraryInv, NamedInv
  <1> QED
    BY <1>2, <1>6, <1>7 DEF LibraryInv

LEMMA MakeFolderLibrary ==
  ASSUME LibraryInv, MediaGround', NEW t \in MediaThreads, MakeFolder(t)
  PROVE  LibraryInv'
  <1>1. MediaGround
    BY DEF LibraryInv
  <1>2. /\ (mreq[t].op = "create" /\ mreq[t].step = "disk") \/ (mreq[t].op = "upload" /\ mreq[t].step = "default")
        /\ folders' = folders \cup {<<mreq[t].owner, mreq[t].name>>} /\ To(t, "record")
        /\ UNCHANGED <<dirs, items, files, lastDir, lastPic, spoiled, mrequests>>
    BY DEF MakeFolder, At
  <1>3. DiskTypes'
    <2>1. mreq[t].owner \in Owners /\ mreq[t].name \in DirNames
      <3>1. mreq[t].op # "none"
        BY <1>2
      <3> QED
        BY <1>1, <3>1, AtReq DEF MediaReq
    <2>2. folders' \subseteq Owners \X DirNames /\ folders \subseteq folders'
      BY <1>2, <2>1 DEF LibraryInv, DiskTypes
    <2>3. lastPic \in Nat /\ lastPic' \in Nat /\ lastPic <= lastPic'
      BY <1>1, <1>2 DEF MediaGround, CollectionTypes
    <2> QED
      BY <1>2, <2>2, <2>3, FoldersAdded DEF LibraryInv
  <1>4. PICK q : q = mreq'[t]
    OBVIOUS
  <1>5. q.op = mreq[t].op /\ q.step = "record" /\ q.name = mreq[t].name /\ q.stem = mreq[t].stem
    BY <1>1, <1>2, <1>4, ToFields
  <1>6. ASSUME NEW o \in Owners, LibraryOK(o), mreq[t].owner = o PROVE ReqOK(o, q)
    <2>1. ReqOK(o, mreq[t])
      BY <1>6 DEF LibraryOK
    <2> QED
      BY <1>2, <1>5, <2>1 DEF ReqOK, UploadOK
  <1>7. Quiet(mreq[t]) /\ Quiet(mreq'[t])
    BY <1>2, <1>4, <1>5 DEF Quiet, Settling
  <1> QED
    BY <1>2, <1>3, <1>4, <1>6, <1>7, ToLibrary

LEMMA RemoveFolderLibrary ==
  ASSUME LibraryInv, MediaGround', NEW t \in MediaThreads, RemoveFolder(t)
  PROVE  LibraryInv'
  <1>1. MediaGround
    BY DEF LibraryInv
  <1>2. mreq[t].op = "rmdir" /\ mreq[t].step = "disk" /\ UNCHANGED <<dirs, items, files, lastDir, lastPic, spoiled, mrequests>>
    BY DEF RemoveFolder, At
  <1>3. Quiet(mreq[t])
    BY <1>2 DEF Quiet, Settling
  <1>4. CASE Done(t) /\ UNCHANGED folders
    <2>1. DiskTypes'
      BY <1>2, <1>4 DEF LibraryInv, DiskTypes
    <2> QED
      BY <1>2, <1>3, <1>4, <2>1, DoneLibrary
  <1>5. CASE Inside(mreq[t].owner, mreq[t].name) = {} /\ folders' = folders \ {<<mreq[t].owner, mreq[t].name>>} /\ To(t, "record")
    <2>1. DiskTypes'
      <3>1. PICK f : f = <<mreq[t].owner, mreq[t].name>>
        OBVIOUS
      <3>2. ASSUME NEW p \in DOMAIN files PROVE <<p[1], p[2]>> \in folders /\ <<p[1], p[2]>> # f
        <4>1. p \notin Inside(mreq[t].owner, mreq[t].name)
          BY <1>5
        <4> QED
          BY <3>1, <4>1 DEF Inside, LibraryInv, DiskTypes
      <3>3. \A p \in DOMAIN files : <<p[1], p[2]>> \in folders'
        BY <1>5, <3>1, <3>2
      <3>4. folders' \subseteq Owners \X DirNames
        BY <1>5 DEF LibraryInv, DiskTypes
      <3> QED
        BY <1>2, <3>3, <3>4 DEF LibraryInv, DiskTypes
    <2>2. PICK q : q = mreq'[t]
      OBVIOUS
    <2>3. q.op = "rmdir" /\ q.step = "record" /\ q.dir = mreq[t].dir
      BY <1>1, <1>2, <1>5, <2>2, ToFields
    <2>4. ASSUME NEW o \in Owners, LibraryOK(o), mreq[t].owner = o PROVE ReqOK(o, q)
      <3>1. ReqOK(o, mreq[t])
        BY <2>4 DEF LibraryOK
      <3> QED
        BY <1>2, <2>3, <3>1 DEF ReqOK
    <2>5. Quiet(mreq'[t])
      BY <2>2, <2>3 DEF Quiet, Settling
    <2> QED
      BY <1>2, <1>3, <1>5, <2>1, <2>2, <2>4, <2>5, ToLibrary
  <1> QED
    BY <1>4, <1>5 DEF RemoveFolder

LEMMA TakeItemLibrary ==
  ASSUME LibraryInv, MediaGround', NEW t \in MediaThreads, TakeItem(t)
  PROVE  LibraryInv'
  <1>1. MediaGround /\ ApartInv
    BY DEF LibraryInv
  <1>2. /\ mreq[t].op \in {"delete", "move"} /\ mreq[t].step = "next" /\ UNCHANGED <<dirs, items, folders, files, lastDir, lastPic, spoiled, mrequests>>
    BY DEF TakeItem
  <1>3. Quiet(mreq[t])
    BY <1>2 DEF Quiet, Settling
  <1>4. DiskTypes'
    BY <1>2 DEF LibraryInv, DiskTypes
  <1>5. CASE mreq[t].ids = {}
    BY <1>2, <1>3, <1>4, <1>5, DoneLibrary DEF TakeItem
  <1>6. CASE mreq[t].ids # {}
    <2>1. PICK r \in MediaReq : r = mreq[t]
      BY <1>1 DEF MediaGround, CollectionTypes
    <2>2. InHand(r)
      BY <1>1, <2>1 DEF MediaGround
    <2>3. PICK i \in r.ids :
              LET b1 == [r EXCEPT !.ids = r.ids \ {i}]
                  b2 == [b1 EXCEPT !.owner = items[i].owner] IN
              mreq' = [mreq EXCEPT ![t] =
                    IF ~items[i].exists \/ ~MayTake(r, i) THEN b1
                    ELSE IF DirById(items[i].dir)
                    THEN [b2 EXCEPT !.pic = i, !.step = "disk", !.stem = items[i].stem, !.name = dirs[items[i].dir].name]
                    ELSE IF r.op = "delete" THEN [b2 EXCEPT !.pic = i, !.step = "record"] ELSE b1]
      BY <1>6, <2>1 DEF TakeItem
    <2>4. PICK r1 : r1 = [r EXCEPT !.ids = r.ids \ {i}]
      OBVIOUS
    <2>5. PICK r2 : r2 = [r1 EXCEPT !.owner = items[i].owner]
      OBVIOUS
    <2>6. mreq' = [mreq EXCEPT ![t] =
                    IF ~items[i].exists \/ ~MayTake(r, i) THEN r1
                    ELSE IF DirById(items[i].dir)
                    THEN [r2 EXCEPT !.pic = i, !.step = "disk", !.stem = items[i].stem, !.name = dirs[items[i].dir].name]
                    ELSE IF r.op = "delete" THEN [r2 EXCEPT !.pic = i, !.step = "record"] ELSE r1]
      BY <2>3, <2>4, <2>5, Zenon
    <2>7. i \in 1 .. MaxUploads /\ items[i] \in ItemDoc /\ items[i].owner \in Owners
      <3>1. i \in 1 .. MaxUploads /\ items[i].owner # "nobody"
        BY <2>2 DEF InHand, MediaReq
      <3> QED
        BY <1>1, <3>1 DEF MediaGround, DocsInv, CollectionTypes
    <2>8. PICK q : q = mreq'[t]
      OBVIOUS
    <2>9. Rest(t) /\ q = IF ~items[i].exists \/ ~MayTake(r, i) THEN r1
                    ELSE IF DirById(items[i].dir)
                    THEN [r2 EXCEPT !.pic = i, !.step = "disk", !.stem = items[i].stem, !.name = dirs[items[i].dir].name]
                    ELSE IF r.op = "delete" THEN [r2 EXCEPT !.pic = i, !.step = "record"] ELSE r1
      BY <1>1, <2>6, <2>8 DEF MediaGround, CollectionTypes, Rest
    <2>10. r1.op = r.op /\ r1.step = r.step /\ r1.owner = r.owner /\ r1.dir = r.dir /\ r1.to = r.to /\ r1.stem = r.stem /\ r1.ids = r.ids \ {i}
      BY <2>4 DEF MediaReq
    <2>11. r2.op = r.op /\ r2.owner = items[i].owner /\ r2.dir = r.dir /\ r2.to = r.to /\ r2.stem = r.stem /\ r2.ids = r.ids \ {i}
           /\ r2 \in [op : MediaOps, step : MediaSteps, by : Owners \cup {"nobody"}, owner : Owners,
                      dir : 0 .. MaxDirs, name : DirNames, to : DirNames, stem : Seq(Words), pic : 0 .. MaxUploads,
                      ids : SUBSET (1 .. MaxUploads)]
      BY <2>4, <2>5, <2>7 DEF MediaReq
    <2>12. /\ q.op = r.op /\ q.dir = r.dir /\ q.to = r.to /\ q.ids = r.ids \ {i}
           /\ \/ q.step = r.step /\ q.owner = r.owner /\ q.stem = r.stem
              \/ /\ items[i].exists /\ MayTake(r, i) /\ DirById(items[i].dir)
                 /\ q.step = "disk" /\ q.owner = items[i].owner /\ q.pic = i /\ q.stem = items[i].stem /\ q.name = dirs[items[i].dir].name
              \/ /\ items[i].exists /\ MayTake(r, i) /\ ~DirById(items[i].dir)
                 /\ q.step = "record" /\ q.owner = items[i].owner /\ q.stem = r.stem /\ r.op = "delete"
      <3>1. CASE q = r1
        BY <2>10, <3>1
      <3>2. CASE q = [r2 EXCEPT !.pic = i, !.step = "disk", !.stem = items[i].stem, !.name = dirs[items[i].dir].name]
                 /\ items[i].exists /\ MayTake(r, i) /\ DirById(items[i].dir)
        BY <2>11, <3>2
      <3>3. CASE q = [r2 EXCEPT !.pic = i, !.step = "record"] /\ items[i].exists /\ MayTake(r, i) /\ ~DirById(items[i].dir) /\ r.op = "delete"
        BY <2>11, <3>3
      <3> QED
        BY <2>9, <3>1, <3>2, <3>3
    <2>13. \A o \in Owners : o \in OwnersOf(mreq[t])' => o \in OwnersOf(mreq[t])
      <3>1. OwnersOf(q)' \subseteq OwnersOf(r)
        BY <1>2, <2>12 DEF OwnersOf
      <3> QED
        BY <2>1, <2>8, <3>1
    <2>14. Heads(mreq[t])' \subseteq Heads(mreq[t])
      <3>1. Heads(q)' \subseteq Heads(r)
        <4>1. ({q.stem} \cup {items'[j].stem : j \in q.ids}) \subseteq ({r.stem} \cup {items[j].stem : j \in r.ids})
          BY <1>2, <2>12
        <4> QED
          BY <4>1 DEF Heads
      <3> QED
        BY <2>1, <2>8, <3>1
    <2>15. ApartInv'
      <3>1. (Structural(q) => Structural(r)) /\ ~Defaulting(q)
        BY <1>2, <2>1, <2>12 DEF Structural, Defaulting
      <3> QED
        BY <1>1, <1>2, <2>1, <2>8, <2>9, <2>13, <2>14, <3>1, ApartKept
    <2>16. ASSUME NEW o \in Owners, LibraryOK(o), q.owner = o PROVE Quiet(q) /\ ReqOK(o, q)
      <3>1. ASSUME q.owner = items[i].owner, items[i].exists PROVE DirById(items[i].dir)
        <4>1. items[i].dir \in OwnDirs(o)
          BY <2>7, <2>16, <3>1 DEF LibraryOK, ItemsOK
        <4> QED
          BY <1>1, <4>1, OwnDirListed
      <3>2. \/ q.step = "next" /\ q.owner = r.owner
            \/ items[i].exists /\ MayTake(r, i) /\ q.step = "disk" /\ q.owner = items[i].owner /\ q.pic = i
               /\ q.stem = items[i].stem /\ q.name = dirs[items[i].dir].name
        BY <1>2, <2>1, <2>12, <3>1
      <3>3. Quiet(q)
        BY <3>2 DEF Quiet, Settling
      <3>4. r.op = "move" => q.owner = r.owner
        BY <3>2 DEF MayTake
      <3>5. r.op = "move" => r.dir \in OwnDirs(o) /\ dirs[r.dir].name = r.to
        BY <2>1, <2>16, <3>4 DEF LibraryOK, ReqOK
      <3>6. q.step = "disk" => ItemAt(q)
        BY <3>2 DEF ItemAt
      <3> QED
        BY <1>2, <2>1, <2>12, <3>2, <3>3, <3>5, <3>6 DEF ReqOK
    <2>17. \A o \in Owners : LibraryOK(o) /\ q.owner = o => ReqOK(o, q)'
      BY <1>2, <2>16, ReqUnwritten
    <2>18. \A o \in Owners \ spoiled' : LibraryOK(o)'
      <3>1. \A o \in Owners \ spoiled' : LibraryOK(o) /\ mreq'[t].owner = o => Quiet(mreq'[t]) /\ ReqOK(o, mreq[t])'
        BY <2>8, <2>16, <2>17
      <3> QED
        BY <1>2, <1>3, <2>9, <3>1, LibraryUnwritten
    <2>19. NamedInv'
      BY <1>2, <2>1, <2>8, <2>9, <2>12, NamedKept DEF LibraryInv
    <2> QED
      BY <1>4, <2>15, <2>18, <2>19 DEF LibraryInv
  <1> QED
    BY <1>5, <1>6

-----------------------------------------------------------------------------
(* The names an upload makes.                                              *)

LEMMA VariantNames ==
  ASSUME NEW s \in Seq(Words), NEW x \in Seq(Words)
  PROVE  /\ \A v \in Variants : Append(s, v) \in Seq(Words) /\ (Append(s, v) \in VariantsOf(x) => s = x)
         /\ Plain(s) => s \notin VariantsOf(x)
         /\ VariantsOf(s) \subseteq Seq(Words)
         /\ s[1] = Append(s, "2")[1] \/ s = <<>>
  <1>1. \A v \in Variants : v \in Words
    BY DEF Words
  <1>2. ASSUME NEW v \in Variants PROVE Append(s, v) \in Seq(Words)
    BY <1>1, AppendProperties
  <1>3. ASSUME NEW v \in Variants, NEW v2 \in Variants, Append(s, v) = Append(x, v2) PROVE s = x
    <2>1. v \in Words /\ v2 \in Words
      BY <1>1
    <2>2. Len(s) \in Nat /\ Len(x) \in Nat /\ Len(Append(s, v)) = Len(s) + 1 /\ Len(Append(x, v2)) = Len(x) + 1
      BY <2>1, AppendProperties, LenProperties
    <2>3. Len(s) = Len(x)
      BY <1>3, <2>2
    <2>4. ASSUME NEW i \in 1 .. Len(s) PROVE s[i] = x[i]
      <3>1. Append(s, v)[i] = s[i] /\ Append(x, v2)[i] = x[i]
        BY <2>1, <2>2, <2>3, <2>4, AppendProperties
      <3> QED
        BY <1>3, <3>1
    <2> QED
      BY <2>3, <2>4, SeqEqual
  <1>4. ASSUME Plain(s), NEW v \in Variants, s = Append(x, v) PROVE FALSE
    <2>1. v \in Words
      BY <1>1
    <2>2. Len(x) \in Nat /\ Len(s) = Len(x) + 1 /\ s[Len(x) + 1] = v
      BY <1>4, <2>1, AppendProperties, LenProperties
    <2>3. Len(x) + 1 \in DOMAIN s
      BY <2>2, LenProperties
    <2> QED
      BY <1>4, <2>2, <2>3 DEF Plain
  <1>5. s[1] = Append(s, "2")[1] \/ s = <<>>
    <2>1. "2" \in Words
      BY DEF Words
    <2>2. Len(s) \in Nat /\ (Len(s) = 0 => s = <<>>)
      BY LenProperties, EmptySeq
    <2>3. 1 \in 1 .. Len(s) => Append(s, "2")[1] = s[1]
      BY <2>1, AppendProperties
    <2> QED
      BY <2>2, <2>3
  <1> QED
    BY <1>2, <1>3, <1>4, <1>5 DEF VariantsOf

\* A name without suffixes is stored as it is.
LEMMA StoredPlain ==
  ASSUME NEW s \in Seq(Words), Plain(s)
  PROVE  StoredStem(s) = s
  <1>1. "full" \in Words /\ "full" \in Variants
    BY DEF Words, Variants
  <1>2. PICK out : out = Append(s, "full")
    OBVIOUS
  <1>3. /\ out \in Seq(Words) /\ Len(out) = Len(s) + 1 /\ Len(s) \in Nat /\ out[Len(s) + 1] = "full"
        /\ \A i \in 1 .. Len(s) : out[i] = s[i]
    BY <1>1, <1>2, AppendProperties, LenProperties
  <1>4. DOMAIN out = 1 .. Len(s) + 1 /\ DOMAIN s = 1 .. Len(s)
    BY <1>3, LenProperties
  <1>5. \A i \in 1 .. Len(s) : out[i] # "full"
    BY <1>1, <1>3, <1>4 DEF Plain
  <1>6. PICK first : first = (CHOOSE i \in DOMAIN out : out[i] = "full" /\ \A j \in 1..i-1 : out[j] # "full")
    OBVIOUS
  <1>7. first \in DOMAIN out /\ out[first] = "full"
    <2>1. Len(s) + 1 \in DOMAIN out /\ out[Len(s) + 1] = "full" /\ \A j \in 1..(Len(s) + 1)-1 : out[j] # "full"
      BY <1>3, <1>4, <1>5
    <2> QED
      BY <1>6, <2>1
  <1>8. first = Len(s) + 1
    BY <1>3, <1>4, <1>5, <1>7
  <1>9. StoredStem(s) = [i \in 1..Len(s) |-> IF i < first THEN out[i] ELSE out[i + 1]]
    BY <1>2, <1>6 DEF StoredStem
  <1>10. StoredStem(s) = [i \in 1..Len(s) |-> s[i]]
    BY <1>3, <1>8, <1>9
  <1>11. s = [i \in 1..Len(s) |-> s[i]]
    BY <1>3, <1>4
  <1> QED
    BY <1>10, <1>11

LEMMA CandidatesPlain ==
  ASSUME NEW s \in Seq(Words), Plain(s), NEW c \in 1 .. 2
  PROVE  Candidates(s)[c] \in Seq(Words) /\ Plain(Candidates(s)[c]) /\ Candidates(s)[c][1] = s[1]
  <1>1. Candidates(s)[c] = s \/ Candidates(s)[c] = Append(s, "2")
    BY DEF Candidates
  <1>2. "2" \in Words /\ "2" \notin Variants
    BY DEF Words, Variants
  <1>3. PICK a : a = Append(s, "2")
    OBVIOUS
  <1>4. a \in Seq(Words) /\ Len(a) = Len(s) + 1 /\ Len(s) \in Nat /\ a[Len(s) + 1] = "2" /\ \A i \in 1 .. Len(s) : a[i] = s[i]
    BY <1>2, <1>3, AppendProperties, LenProperties
  <1>5. DOMAIN a = 1 .. Len(s) + 1 /\ DOMAIN s = 1 .. Len(s)
    BY <1>4, LenProperties
  <1>6. \A j \in DOMAIN a : a[j] \notin Variants
    BY <1>2, <1>4, <1>5 DEF Plain
  <1>7. a # <<>>
    BY <1>4, EmptySeq
  <1>8. a[1] = s[1]
    BY <1>3, VariantNames DEF Plain
  <1> QED
    BY <1>1, <1>3, <1>4, <1>6, <1>7, <1>8 DEF Plain

\* A file named like a variant is one, and the other variants of its picture are beside it.
LEMMA Siblings ==
  ASSUME MediaGround, DiskTypes, NamedInv, NEW o, Shelved(o), NEW n \in DirNames, NEW s \in Seq(Words),
         NEW v \in Variants, NEW v2 \in Variants, <<o, n, Append(s, v)>> \in DOMAIN files
  PROVE  <<o, n, Append(s, v2)>> \in DOMAIN files
  <1>1. PICK w, w2 : w = Append(s, v) /\ w2 = Append(s, v2)
    OBVIOUS
  <1>2. w \in Seq(Words) /\ w2 \in Seq(Words)
    BY <1>1, VariantNames
  <1>3. PICK k : k = files[<<o, n, w>>]
    OBVIOUS
  <1>4. k \in 1 .. MaxUploads
    <2>1. k \in 1 .. lastPic
      BY <1>1, <1>3 DEF DiskTypes
    <2> QED
      BY <2>1, MediaBounds DEF MediaGround
  <1>5. Shelf(o, n, w, k)
    BY <1>1, <1>2, <1>3, <1>4 DEF Shelved, OnDisk
  <1>6. \A x \in Seq(Words) : w \in VariantsOf(x) => w2 \in VariantsOf(x)
    <2>1. \A x \in Seq(Words) : w \in VariantsOf(x) => x = s
      BY <1>1, VariantNames
    <2> QED
      BY <1>1, <2>1 DEF VariantsOf
  <1>7. CASE Recorded(o, n, w, k)
    <2>1. items[k].stem \in Seq(Words)
      BY <1>4 DEF MediaGround, CollectionTypes, ItemDoc
    <2>2. Shelf(o, n, w2, k)
      BY <1>6, <1>7, <2>1 DEF Recorded, Shelf
    <2> QED
      BY <1>1, <1>2, <1>4, <2>2 DEF Shelved, OnDisk
  <1>8. ASSUME NEW q \in MediaThreads, Holds(mreq[q], o, n, w, k) PROVE <<o, n, w2>> \in DOMAIN files
    <2>1. mreq[q].op = "upload" /\ mreq[q].stem \in Seq(Words) /\ Plain(mreq[q].stem)
      BY <1>8 DEF Holds, NamedInv, MediaGround, CollectionTypes, MediaReq
    <2>2. w # mreq[q].stem
      <3>1. w \in VariantsOf(s)
        BY <1>1 DEF VariantsOf
      <3> QED
        BY <2>1, <3>1, VariantNames
    <2>3. Holds(mreq[q], o, n, w2, k)
      BY <1>6, <1>8, <2>1, <2>2 DEF Holds
    <2>4. Shelf(o, n, w2, k)
      BY <2>3 DEF Shelf
    <2> QED
      BY <1>2, <1>4, <2>4 DEF Shelved, OnDisk
  <1> QED
    BY <1>1, <1>5, <1>7, <1>8 DEF Shelf

LEMMA NameUploadLibrary ==
  ASSUME LibraryInv, MediaGround', NEW t \in MediaThreads, NameUpload(t)
  PROVE  LibraryInv'
  <1>1. MediaGround /\ ApartInv /\ NamedInv /\ DiskTypes
    BY DEF LibraryInv
  <1>2. /\ mreq[t].op = "upload" /\ mreq[t].step = "name" /\ UNCHANGED <<dirs, items, files, lastDir, lastPic, spoiled, mrequests>>
        /\ folders' = folders \cup {<<mreq[t].owner, mreq[t].name>>}
    BY DEF NameUpload, At
  <1>3. Quiet(mreq[t])
    BY <1>2 DEF Quiet, Settling
  <1>4. PICK r \in MediaReq : r = mreq[t]
    BY <1>1 DEF MediaGround, CollectionTypes
  <1>5. r.owner \in Owners /\ r.name \in DirNames /\ r.stem \in Seq(Words) /\ Plain(r.stem)
    BY <1>1, <1>2, <1>4, AtReq DEF MediaReq, NamedInv
  <1>6. DiskTypes'
    <2>1. folders' \subseteq Owners \X DirNames /\ folders \subseteq folders'
      BY <1>2, <1>4, <1>5 DEF LibraryInv, DiskTypes
    <2>2. lastPic \in Nat /\ lastPic' \in Nat /\ lastPic <= lastPic'
      BY <1>1, <1>2 DEF MediaGround, CollectionTypes
    <2> QED
      BY <1>2, <2>1, <2>2, FoldersAdded DEF LibraryInv
  <1>7. PICK free : free = FreeName(r.owner, r.name, r.stem)
    OBVIOUS
  <1>8. CASE free = {}
    <2>1. Done(t)
      BY <1>4, <1>7, <1>8 DEF NameUpload
    <2> QED
      BY <1>2, <1>3, <1>6, <2>1, DoneLibrary
  <1>9. CASE free # {}
    <2>1. PICK c : c = (CHOOSE x \in free : \A b \in free : x <= b)
      OBVIOUS
    <2>2. c \in 1 .. 2 /\ c \in free
      <3>1. free \subseteq 1 .. 2
        BY <1>7 DEF FreeName
      <3>2. \E x \in free : \A b \in free : x <= b
        <4>1. CASE 1 \in free
          BY <3>1, <4>1
        <4>2. CASE 1 \notin free
          <5>1. \A b \in free : b = 2
            BY <3>1, <4>2
          <5> QED
            BY <1>9, <5>1
        <4> QED
          BY <4>1, <4>2
      <3> QED
        BY <2>1, <3>1, <3>2
    <2>3. PICK s : s = Candidates(r.stem)[c]
      OBVIOUS
    <2>4. s \in Seq(Words) /\ Plain(s) /\ s[1] = r.stem[1]
      BY <1>5, <2>2, <2>3, CandidatesPlain
    <2>5. <<r.owner, r.name, Append(s, "full")>> \notin DOMAIN files
      BY <1>7, <2>2, <2>3 DEF FreeName, StemTaken, In
    <2>6. PICK q : q = [r EXCEPT !.step = "open", !.stem = s]
      OBVIOUS
    <2>7. mreq' = [mreq EXCEPT ![t] = q]
      BY <1>4, <1>7, <1>9, <2>1, <2>3, <2>6 DEF NameUpload
    <2>8. q.op = r.op /\ q.step = "open" /\ q.owner = r.owner /\ q.dir = r.dir /\ q.name = r.name /\ q.stem = s /\ q.ids = r.ids
      BY <2>6 DEF MediaReq
    <2>9. Rest(t) /\ mreq'[t] = q
      BY <1>1, <2>7 DEF MediaGround, CollectionTypes, Rest
    <2>10. OwnersOf(q)' = OwnersOf(r)
      BY <1>2, <2>8 DEF OwnersOf
    <2>11. Heads(q)' = Heads(r)
      <3>1. r.stem # <<>> /\ s # <<>>
        BY <1>5, <2>4 DEF Plain
      <3>2. PICK T : T = {items[i].stem : i \in r.ids}
        OBVIOUS
      <3>3. Heads(r) = {x[1] : x \in ({r.stem} \cup T) \ {<<>>}} /\ Heads(q)' = {x[1] : x \in ({s} \cup T) \ {<<>>}}
        BY <1>2, <2>8, <3>2 DEF Heads
      <3> QED
        BY <2>4, <3>1, <3>3
    <2>12. ApartInv'
      <3>1. (Structural(q) => Structural(r)) /\ ~Defaulting(q)
        BY <2>8 DEF Structural, Defaulting
      <3> QED
        BY <1>1, <1>2, <1>4, <2>9, <2>10, <2>11, <3>1, ApartKept
    <2>13. ASSUME NEW o \in Owners, LibraryOK(o), q.owner = o PROVE ReqOK(o, q)
      <3>1. UploadOK(o, r)
        BY <1>2, <1>4, <2>8, <2>13 DEF LibraryOK, ReqOK
      <3>2. "full" \in Variants
        BY DEF Variants
      <3>3. \A v \in Variants : <<o, r.name, Append(s, v)>> \notin DOMAIN files
        BY <1>1, <1>5, <2>4, <2>5, <2>8, <2>13, <3>2, Siblings DEF LibraryOK
      <3> QED
        BY <1>2, <1>4, <2>8, <3>1, <3>3 DEF ReqOK, UploadOK
    <2>14. \A o \in Owners \ spoiled' : LibraryOK(o)'
      <3>1. Quiet(q)
        BY <2>8 DEF Quiet, Settling
      <3>2. \A o \in Owners : LibraryOK(o) /\ q.owner = o => ReqOK(o, q)'
        BY <1>2, <2>13, ReqUnwritten
      <3>3. \A o \in Owners \ spoiled' : LibraryOK(o) /\ mreq'[t].owner = o => Quiet(mreq'[t]) /\ ReqOK(o, mreq[t])'
        BY <2>9, <3>1, <3>2
      <3> QED
        BY <1>2, <1>3, <2>9, <3>3, LibraryUnwritten
    <2>15. NamedInv'
      BY <1>1, <2>4, <2>8, <2>9, NamedKept
    <2> QED
      BY <1>6, <2>12, <2>14, <2>15 DEF LibraryInv
  <1> QED
    BY <1>8, <1>9

\* Requests of an owner that stay out of each other's way are of different pictures.
LEMMA StemsApart ==
  ASSUME MediaGround, ApartInv, NEW o \in Owners \ spoiled, NEW t \in MediaThreads, NEW q \in MediaThreads, t # q,
         mreq[t].owner = o, mreq[q].owner = o
  PROVE  /\ ~Structural(mreq[t]) /\ ~Structural(mreq[q])
         /\ mreq[t].stem # <<>> => mreq[t].stem # mreq[q].stem
         /\ ~(Defaulting(mreq[t]) /\ Defaulting(mreq[q]))
  <1>1. o \in OwnersOf(mreq[t]) /\ o \in OwnersOf(mreq[q])
    BY DEF OwnersOf
  <1>2. Peaceful(mreq[t], mreq[q])
    BY <1>1 DEF ApartInv
  <1>3. ASSUME mreq[t].stem # <<>>, mreq[t].stem = mreq[q].stem PROVE FALSE
    <2>1. mreq[t].stem[1] \in Heads(mreq[t]) /\ mreq[t].stem[1] \in Heads(mreq[q])
      BY <1>3 DEF Heads
    <2> QED
      BY <1>2, <2>1 DEF Peaceful
  <1> QED
    BY <1>2, <1>3 DEF Peaceful

\* The type of the disk, from what each file is.
LEMMA DiskWritten ==
  ASSUME DiskTypes, lastPic' = lastPic, folders' \subseteq Owners \X DirNames, files' = [p \in DOMAIN files' |-> files'[p]],
         \A p \in DOMAIN files' : p \in MediaPaths /\ files'[p] \in 1 .. lastPic /\ <<p[1], p[2]>> \in folders'
  PROVE  DiskTypes'
  <1>1. files' \in [DOMAIN files' -> 1 .. lastPic']
    <2>1. \A p \in DOMAIN files' : files'[p] \in 1 .. lastPic'
      OBVIOUS
    <2> QED
      BY <2>1
  <1>2. DOMAIN files' \subseteq MediaPaths'
    BY DEF MediaPaths
  <1> QED
    BY <1>1, <1>2 DEF DiskTypes

\* The other requests of an owner keep what they have read when only files change, and
\* none that one of them wants to make appears.
LEMMA OthersRead ==
  ASSUME MediaGround, NEW o \in Owners, NEW t \in MediaThreads, Rest(t), DocsSame(o), LibraryOK(o),
         \A q \in MediaThreads \ {t} : mreq[q].op = "upload" /\ mreq[q].owner = o =>
             \A v \in Variants : <<o, mreq[q].name, Append(mreq[q].stem, v)>> \notin DOMAIN files =>
                                     <<o, mreq[q].name, Append(mreq[q].stem, v)>> \notin DOMAIN files'
  PROVE  \A q \in MediaThreads \ {t} : mreq'[q].owner = o => ReqOK(o, mreq[q])'
  <1>1. SUFFICES ASSUME NEW q \in MediaThreads \ {t}, mreq'[q].owner = o PROVE ReqOK(o, mreq[q])'
    OBVIOUS
  <1>2. PICK r : r = mreq[q]
    OBVIOUS
  <1>3. mreq'[q] = r /\ r.owner = o
    BY <1>1, <1>2 DEF Rest
  <1>4. ReqOK(o, r) /\ ItemsOK(o)
    BY <1>2, <1>3 DEF LibraryOK
  <1>5. r.op \in {"delete", "move"} /\ r.step \in {"disk", "record"} => r.pic \in 1 .. MaxUploads /\ items[r.pic].owner = o
    BY <1>2, <1>3, PicInHand
  <1>6. r.op = "upload" => \A v \in Variants : <<o, r.name, Append(r.stem, v)>> \notin DOMAIN files =>
                                <<o, r.name, Append(r.stem, v)>> \notin DOMAIN files'
    BY <1>2, <1>3
  <1>7. ReqOK(o, r)'
    BY <1>4, <1>5, <1>6, OwnDirsKept, ReqKept DEF DocsSame
  <1> QED
    BY <1>3, <1>7

\* When only files of one owner change, the others' libraries are as they were.
LEMMA OthersLibraries ==
  ASSUME LibraryInv, MediaGround', NEW t \in MediaThreads, Rest(t), spoiled \subseteq spoiled',
         NEW o, mreq[t].owner = o, mreq'[t].owner \in {o, "nobody"},
         \A x \in Owners \ {o} : DocsSame(x) /\ TreeSame(x)
  PROVE  \A x \in Owners \ spoiled' : x # o => LibraryOK(x)'
  <1>1. SUFFICES ASSUME NEW x \in Owners \ spoiled', x # o PROVE LibraryOK(x)'
    OBVIOUS
  <1>2. MediaGround /\ LibraryOK(x) /\ x # "nobody"
    BY <1>1, MediaAssumption DEF LibraryInv, Owners
  <1> QED
    BY <1>1, <1>2, LibraryKept

LEMMA OpenUploadLibrary ==
  ASSUME LibraryInv, MediaGround', NEW t \in MediaThreads, OpenUpload(t)
  PROVE  LibraryInv'
  <1>1. MediaGround /\ ApartInv /\ NamedInv /\ DiskTypes
    BY DEF LibraryInv
  <1>2. mreq[t].op = "upload" /\ mreq[t].step = "open" /\ UNCHANGED <<dirs, items, folders, lastDir, lastPic, spoiled, mrequests>>
    BY DEF OpenUpload, At
  <1>3. Quiet(mreq[t])
    BY <1>2 DEF Quiet, Settling
  <1>4. PICK r \in MediaReq : r = mreq[t]
    BY <1>1 DEF MediaGround, CollectionTypes
  <1>5. r.owner \in Owners /\ r.name \in DirNames /\ r.stem \in Seq(Words) /\ Plain(r.stem) /\ r.pic \in 1 .. lastPic
    <2>1. InHand(r)
      BY <1>1, <1>4 DEF MediaGround
    <2> QED
      BY <1>1, <1>2, <1>4, <2>1, AtReq DEF MediaReq, NamedInv, InHand
  <1>6. PICK o, n0, s0, path : o = r.owner /\ n0 = r.name /\ s0 = r.stem /\ path = <<o, n0, s0>>
    OBVIOUS
  <1>7. CASE Done(t) /\ UNCHANGED files
    <2>1. DiskTypes'
      BY <1>1, <1>2, <1>7 DEF DiskTypes
    <2> QED
      BY <1>2, <1>3, <1>7, <2>1, DoneLibrary
  <1>8. CASE path \notin DOMAIN files /\ <<o, n0>> \in folders /\ files' = Showing(files, {path}, r.pic) /\ To(t, "optimize")
    <2>1. /\ DOMAIN files' = DOMAIN files \cup {path} /\ files' = [p \in DOMAIN files' |-> files'[p]]
          /\ \A p \in DOMAIN files' : files'[p] = IF p = path THEN r.pic ELSE files[p]
      BY <1>8 DEF Showing
    <2>2. PICK q : q = mreq'[t]
      OBVIOUS
    <2>3. /\ Rest(t) /\ q.op = "upload" /\ q.step = "optimize" /\ q.owner = o /\ q.name = n0 /\ q.stem = s0 /\ q.pic = r.pic /\ q.dir = r.dir
      BY <1>1, <1>2, <1>4, <1>6, <1>8, <2>2, ToFields
    <2>4. DiskTypes'
      <3>1. path \in MediaPaths /\ path[1] = o /\ path[2] = n0
        BY <1>5, <1>6 DEF MediaPaths
      <3>2. ASSUME NEW p \in DOMAIN files' PROVE p \in MediaPaths /\ files'[p] \in 1 .. lastPic /\ <<p[1], p[2]>> \in folders'
        <4>1. CASE p = path
          BY <1>2, <1>5, <1>8, <2>1, <3>1, <4>1
        <4>2. CASE p # path
          BY <1>1, <1>2, <2>1, <4>2 DEF DiskTypes
        <4> QED
          BY <4>1, <4>2
      <3> QED
        BY <1>1, <1>2, <2>1, <3>2, DiskWritten DEF DiskTypes
    <2>5. ApartInv'
      BY <1>1, <1>2, <1>8, ToApart DEF StemsKept
    <2>6. NamedInv'
      BY <1>1, <1>5, <1>6, <2>2, <2>3, NamedKept
    <2>7. \A x \in Owners \ {o} : DocsSame(x) /\ TreeSame(x)
      BY <1>2, <1>6, <2>1 DEF DocsSame, TreeSame
    <2>8. \A x \in Owners \ spoiled' : x # o => LibraryOK(x)'
      BY <1>2, <1>4, <1>6, <2>2, <2>3, <2>7, OthersLibraries
    <2>9. ASSUME o \in Owners \ spoiled' PROVE LibraryOK(o)'
      <3>1. LibraryOK(o) /\ ReqOK(o, r)
        BY <1>2, <1>4, <1>6, <2>9 DEF LibraryInv, LibraryOK
      <3>2. DocsSame(o)
        BY <1>2 DEF DocsSame
      <3>3. ASSUME NEW n \in DirNames, NEW w \in Seq(Words), NEW k \in 1 .. MaxUploads
            PROVE  OnDisk(o, n, w, k)' <=> Shelf(o, n, w, k)'
        <4>1. OnDisk(o, n, w, k) <=> Shelf(o, n, w, k)
          BY <3>1 DEF LibraryOK, Shelved
        <4>2. OnDisk(o, n, w, k)' <=> OnDisk(o, n, w, k) \/ (n = n0 /\ w = s0 /\ k = r.pic)
          BY <1>6, <1>8, <2>1 DEF OnDisk
        <4>3. Recorded(o, n, w, k)' <=> Recorded(o, n, w, k)
          <5>1. Settling(mreq'[t]) /\ Settling(mreq[t])
            BY <1>3, <2>2, <2>3 DEF Settling, Quiet
          <5> QED
            BY <1>1, <1>5, <1>6, <2>3, <3>2, <5>1, RecordedKept
        <4>4. ~Holds(mreq[t], o, n, w, k)
          BY <1>3 DEF Quiet, Holds
        <4>5. Holds(mreq[t], o, n, w, k)' <=> (n = n0 /\ w = s0 /\ k = r.pic)
          <5>1. Holds(q, o, n, w, k)' <=> (n = n0 /\ w = s0 /\ k = r.pic)
            BY <2>3 DEF Holds
          <5> QED
            BY <2>2, <5>1
        <4>6. \A p \in MediaThreads : p # t => (Holds(mreq[p], o, n, w, k)' <=> Holds(mreq[p], o, n, w, k))
          BY <2>3, HoldsKept
        <4> QED
          BY <4>1, <4>2, <4>3, <4>4, <4>5, <4>6 DEF Shelf
      <3>4. Shelved(o)'
        BY <3>3 DEF Shelved
      <3>5. ASSUME NEW x \in Seq(Words), NEW v \in Variants, NEW n PROVE <<o, n, Append(x, v)>> # path
        <4>1. Append(x, v) # s0
          BY <1>5, <1>6, VariantNames DEF VariantsOf
        <4> QED
          BY <1>6, <4>1
      <3>6. \A p \in MediaThreads \ {t} : mreq'[p].owner = o => ReqOK(o, mreq[p])'
        <4>1. \A p \in MediaThreads : mreq[p].stem \in Seq(Words)
          BY <1>1 DEF MediaGround, CollectionTypes, MediaReq
        <4>2. ASSUME NEW p \in MediaThreads \ {t}, NEW v \in Variants, <<o, mreq[p].name, Append(mreq[p].stem, v)>> \notin DOMAIN files
              PROVE  <<o, mreq[p].name, Append(mreq[p].stem, v)>> \notin DOMAIN files'
          <5>1. PICK x, n : x \in Seq(Words) /\ x = mreq[p].stem /\ n = mreq[p].name
            BY <4>1
          <5>2. <<o, n, Append(x, v)>> # path
            BY <3>5, <5>1
          <5> QED
            BY <2>1, <4>2, <5>1, <5>2
        <4> QED
          BY <1>1, <1>5, <1>6, <2>3, <3>1, <3>2, <4>2, OthersRead
      <3>7. ReqOK(o, q)'
        <4>1. UploadOK(o, r)
          BY <1>2, <1>4, <3>1 DEF ReqOK
        <4>2. OwnDirs(o)' = OwnDirs(o) /\ \A d \in OwnDirs(o) : dirs'[d] = dirs[d]
          BY <3>2, OwnDirsKept
        <4>3. \A v \in Variants : <<o, n0, Append(s0, v)>> \notin DOMAIN files'
          BY <1>2, <1>4, <1>5, <1>6, <2>1, <3>5, <4>1 DEF UploadOK
        <4>4. UploadOK(o, q)'
          BY <1>2, <1>4, <1>6, <2>3, <4>1, <4>2, <4>3 DEF UploadOK
        <4> QED
          BY <2>3, <4>4 DEF ReqOK
      <3>8. DirsOK(o)' /\ ItemsOK(o)'
        BY <1>2, <3>1 DEF LibraryOK, DirsOK, ItemsOK, OwnDirs
      <3> QED
        BY <2>2, <3>4, <3>6, <3>7, <3>8 DEF LibraryOK
    <2> QED
      BY <2>4, <2>5, <2>6, <2>8, <2>9 DEF LibraryInv
  <1> QED
    BY <1>4, <1>6, <1>7, <1>8 DEF OpenUpload


\* What is on the shelf of o without what the request of t has made.
Elses(t, o, n, w, k) == Recorded(o, n, w, k) \/ \E p \in MediaThreads \ {t} : Holds(mreq[p], o, n, w, k)

LEMMA ElsesKept ==
  ASSUME MediaGround, NEW o \in Owners, DocsSame(o), NEW t \in MediaThreads, Rest(t),
         mreq[t].owner # o \/ Settling(mreq[t]), mreq'[t].owner # o \/ Settling(mreq'[t]),
         NEW n, NEW w, NEW k \in 1 .. MaxUploads
  PROVE  Shelf(o, n, w, k)' <=> Elses(t, o, n, w, k) \/ Holds(mreq[t], o, n, w, k)'
  <1>1. Recorded(o, n, w, k)' <=> Recorded(o, n, w, k)
    BY RecordedKept
  <1>2. \A p \in MediaThreads : p # t => (Holds(mreq[p], o, n, w, k)' <=> Holds(mreq[p], o, n, w, k))
    BY HoldsKept
  <1> QED
    BY <1>1, <1>2 DEF Shelf, Elses

\* The library of o, when its files are where they should be after a step of t that
\* changes no record of it.
LEMMA OwnerLibrary ==
  ASSUME LibraryInv, NEW o \in Owners, NEW t \in MediaThreads, Rest(t), DocsSame(o), LibraryOK(o),
         \A q \in MediaThreads \ {t} : mreq[q].op = "upload" /\ mreq[q].owner = o =>
             \A v \in Variants : <<o, mreq[q].name, Append(mreq[q].stem, v)>> \notin DOMAIN files =>
                                     <<o, mreq[q].name, Append(mreq[q].stem, v)>> \notin DOMAIN files',
         Shelved(o)', mreq'[t].owner = o => ReqOK(o, mreq[t])'
  PROVE  LibraryOK(o)'
  <1>1. MediaGround
    BY DEF LibraryInv
  <1>2. \A q \in MediaThreads \ {t} : mreq'[q].owner = o => ReqOK(o, mreq[q])'
    BY <1>1, OthersRead
  <1>3. OwnDirs(o)' = OwnDirs(o) /\ \A d \in OwnDirs(o) : dirs'[d] = dirs[d]
    BY OwnDirsKept
  <1>4. DirsOK(o)'
    BY <1>3 DEF LibraryOK, DirsOK
  <1>5. ItemsOK(o)'
    <2>1. SUFFICES ASSUME NEW i \in 1 .. MaxUploads, items'[i].owner = o
                   PROVE  Plain(items'[i].stem) /\ (items'[i].exists => items'[i].dir \in OwnDirs(o)')
      BY DEF ItemsOK
    <2>2. items'[i] = items[i] /\ items[i].owner = o
      BY <2>1 DEF DocsSame
    <2>3. Plain(items[i].stem) /\ (items[i].exists => items[i].dir \in OwnDirs(o))
      BY <2>2 DEF LibraryOK, ItemsOK
    <2> QED
      BY <1>3, <2>2, <2>3
  <1> QED
    BY <1>2, <1>4, <1>5 DEF LibraryOK

\* The file the optimizer works on is the upload's alone.
LEMMA OnlyRaw ==
  ASSUME LibraryInv, NEW t \in MediaThreads, mreq[t].op = "upload", mreq[t].step = "optimize", NEW o \in Owners \ spoiled,
         mreq[t].owner = o, NEW n \in DirNames, NEW w \in Seq(Words), NEW k \in 1 .. MaxUploads
  PROVE  /\ Elses(t, o, n, w, k) <=> OnDisk(o, n, w, k) /\ ~(n = mreq[t].name /\ w = mreq[t].stem)
         /\ n = mreq[t].name /\ w \in VariantsOf(mreq[t].stem) => ~OnDisk(o, n, w, k)
         /\ OnDisk(o, mreq[t].name, mreq[t].stem, mreq[t].pic)
  <1>1. MediaGround /\ ApartInv /\ NamedInv /\ LibraryOK(o)
    BY DEF LibraryInv
  <1>2. PICK r \in MediaReq : r = mreq[t]
    BY <1>1 DEF MediaGround, CollectionTypes
  <1>3. r.stem \in Seq(Words) /\ r.name \in DirNames /\ Plain(r.stem) /\ r.stem # <<>> /\ r.pic \in 1 .. MaxUploads
    <2>1. r.pic \in 1 .. lastPic
      BY <1>1, <1>2 DEF MediaGround, InHand
    <2>2. r.pic \in 1 .. MaxUploads
      BY <1>1, <2>1, MediaBounds DEF MediaGround
    <2> QED
      BY <1>1, <1>2, <2>2 DEF MediaReq, NamedInv, Plain
  <1>4. OnDisk(o, n, w, k) <=> Shelf(o, n, w, k)
    BY <1>1 DEF LibraryOK, Shelved
  <1>5. Holds(r, o, n, w, k) <=> n = r.name /\ w = r.stem /\ k = r.pic
    BY <1>2 DEF Holds
  <1>6. ASSUME n = r.name, w = r.stem, Elses(t, o, n, w, k) PROVE FALSE
    <2>1. CASE Recorded(o, n, w, k)
      <3>1. items[k].stem \in Seq(Words) /\ w \in VariantsOf(items[k].stem)
        BY <1>1, <2>1 DEF Recorded, MediaGround, CollectionTypes, ItemDoc
      <3> QED
        BY <1>3, <1>6, <3>1, VariantNames
    <2>2. ASSUME NEW p \in MediaThreads \ {t}, Holds(mreq[p], o, n, w, k) PROVE FALSE
      <3>1. mreq[p].stem \in Seq(Words) /\ mreq[p].owner = o /\ (w = mreq[p].stem \/ w \in VariantsOf(mreq[p].stem))
        BY <1>1, <2>2 DEF Holds, MediaGround, CollectionTypes, MediaReq
      <3>2. w # mreq[p].stem
        BY <1>1, <1>2, <1>3, <1>6, <3>1, StemsApart
      <3> QED
        BY <1>3, <1>6, <3>1, <3>2, VariantNames
    <2> QED
      BY <1>6, <2>1, <2>2 DEF Elses
  <1>7. Elses(t, o, n, w, k) <=> OnDisk(o, n, w, k) /\ ~(n = r.name /\ w = r.stem)
    BY <1>2, <1>4, <1>5, <1>6 DEF Elses, Shelf
  <1>8. n = r.name /\ w \in VariantsOf(r.stem) => ~OnDisk(o, n, w, k)
    <2>1. UploadOK(o, r)
      BY <1>1, <1>2 DEF LibraryOK, ReqOK
    <2> QED
      BY <1>2, <2>1 DEF UploadOK, VariantsOf, OnDisk
  <1>9. OnDisk(o, r.name, r.stem, r.pic)
    <2>1. Holds(r, o, r.name, r.stem, r.pic)
      BY <1>2 DEF Holds
    <2>2. Shelf(o, r.name, r.stem, r.pic)
      BY <1>2, <2>1 DEF Shelf
    <2> QED
      BY <1>1, <1>3, <2>2 DEF LibraryOK, Shelved
  <1> QED
    BY <1>2, <1>7, <1>8, <1>9

LEMMA OptimizeLibrary ==
  ASSUME LibraryInv, MediaGround', NEW t \in MediaThreads, Optimize(t)
  PROVE  LibraryInv'
  <1>1. MediaGround /\ ApartInv /\ NamedInv /\ DiskTypes
    BY DEF LibraryInv
  <1>2. mreq[t].op = "upload" /\ mreq[t].step = "optimize" /\ UNCHANGED <<dirs, items, folders, lastDir, lastPic, spoiled, mrequests>>
    BY DEF Optimize, At
  <1>3. Settling(mreq[t])
    BY <1>2 DEF Settling
  <1>4. PICK r \in MediaReq : r = mreq[t]
    BY <1>1 DEF MediaGround, CollectionTypes
  <1>5. r.owner \in Owners /\ r.name \in DirNames /\ r.stem \in Seq(Words) /\ Plain(r.stem) /\ r.pic \in 1 .. MaxUploads /\ r.stem # <<>>
    <2>1. r.pic \in 1 .. lastPic
      BY <1>1, <1>2, <1>4 DEF MediaGround, InHand
    <2> QED
      BY <1>1, <1>2, <1>4, <2>1, AtReq, MediaBounds DEF MediaReq, NamedInv, MediaGround, Plain
  <1>6. PICK o, n0, s0, raw : o = r.owner /\ n0 = r.name /\ s0 = r.stem /\ raw = <<o, n0, s0>>
    OBVIOUS
  <1>7. PICK made : made = {<<o, n0, v>> : v \in VariantsOf(s0)}
    OBVIOUS
  <1>8. /\ raw[1] = o /\ \A p \in made : p[1] = o /\ p[2] = n0
        /\ \A n, w : (<<o, n, w>> = raw <=> n = n0 /\ w = s0) /\ (<<o, n, w>> \in made <=> n = n0 /\ w \in VariantsOf(s0))
    BY <1>6, <1>7
  <1>9. \A x \in Owners \ {o} : DocsSame(x)
    BY <1>2 DEF DocsSame
  <1>10. DocsSame(o) /\ (o \in Owners \ spoiled => LibraryOK(o) /\ ReqOK(o, r))
    BY <1>2, <1>4, <1>6 DEF DocsSame, LibraryInv, LibraryOK
  <1>11. CASE raw \in DOMAIN files /\ files' = Showing(Without(files, {raw}), made, files[raw]) /\ To(t, "insert")
    <2>1. /\ DOMAIN files' = (DOMAIN files \ {raw}) \cup made /\ files' = [p \in DOMAIN files' |-> files'[p]]
          /\ \A p \in DOMAIN files' : files'[p] = IF p \in made THEN files[raw] ELSE files[p]
      BY <1>11 DEF Showing, Without
    <2>2. PICK q : q = mreq'[t]
      OBVIOUS
    <2>3. /\ Rest(t) /\ q.op = "upload" /\ q.step = "insert" /\ q.owner = o /\ q.name = n0 /\ q.stem = s0 /\ q.pic = r.pic /\ q.dir = r.dir
      BY <1>1, <1>2, <1>4, <1>6, <1>11, <2>2, ToFields
    <2>4. DiskTypes'
      <3>1. \A p \in made : p \in MediaPaths
        BY <1>5, <1>6, <1>7, VariantNames DEF MediaPaths
      <3>2. files[raw] \in 1 .. lastPic /\ <<o, n0>> \in folders
        BY <1>1, <1>6, <1>11 DEF DiskTypes
      <3>3. ASSUME NEW p \in DOMAIN files' PROVE p \in MediaPaths /\ files'[p] \in 1 .. lastPic /\ <<p[1], p[2]>> \in folders'
        <4>1. CASE p \in made
          BY <1>2, <1>8, <2>1, <3>1, <3>2, <4>1
        <4>2. CASE p \notin made
          BY <1>1, <1>2, <2>1, <4>2 DEF DiskTypes
        <4> QED
          BY <4>1, <4>2
      <3> QED
        BY <1>1, <1>2, <2>1, <3>3, DiskWritten DEF DiskTypes
    <2>5. ApartInv'
      BY <1>1, <1>2, <1>11, ToApart DEF StemsKept
    <2>6. NamedInv'
      BY <1>1, <1>5, <1>6, <2>2, <2>3, NamedKept
    <2>7. \A x \in Owners \ {o} : TreeSame(x)
      <3>1. SUFFICES ASSUME NEW x \in Owners \ {o} PROVE TreeSame(x)
        OBVIOUS
      <3>2. \A n, w : <<x, n, w>> # raw /\ <<x, n, w>> \notin made
        BY <1>8
      <3> QED
        BY <2>1, <3>2 DEF TreeSame
    <2>8. \A x \in Owners \ spoiled' : x # o => LibraryOK(x)'
      BY <1>2, <1>4, <1>6, <1>9, <2>2, <2>3, <2>7, OthersLibraries
    <2>9. ASSUME o \in Owners \ spoiled' PROVE LibraryOK(o)'
      <3>1. LibraryOK(o) /\ ReqOK(o, r) /\ o \in Owners \ spoiled
        BY <1>2, <1>10, <2>9
      <3>2. files[raw] = r.pic
        <4>1. OnDisk(o, n0, s0, r.pic)
          BY <1>2, <1>4, <1>5, <1>6, <3>1, OnlyRaw
        <4> QED
          BY <1>6, <4>1 DEF OnDisk
      <3>3. ASSUME NEW n \in DirNames, NEW w \in Seq(Words), NEW k \in 1 .. MaxUploads
            PROVE  OnDisk(o, n, w, k)' <=> Shelf(o, n, w, k)'
        <4>1. /\ Elses(t, o, n, w, k) <=> OnDisk(o, n, w, k) /\ ~(n = n0 /\ w = s0)
              /\ n = n0 /\ w \in VariantsOf(s0) => ~OnDisk(o, n, w, k)
          BY <1>2, <1>4, <1>6, <3>1, OnlyRaw
        <4>2. OnDisk(o, n, w, k)' <=> (n = n0 /\ w \in VariantsOf(s0) /\ k = r.pic)
                                      \/ (OnDisk(o, n, w, k) /\ ~(n = n0 /\ w = s0) /\ ~(n = n0 /\ w \in VariantsOf(s0)))
          BY <1>8, <2>1, <3>2 DEF OnDisk
        <4>3. Holds(mreq[t], o, n, w, k)' <=> n = n0 /\ w \in VariantsOf(s0) /\ k = r.pic
          <5>1. Holds(q, o, n, w, k)' <=> n = n0 /\ w \in VariantsOf(s0) /\ k = r.pic
            BY <2>3 DEF Holds, VariantsOf
          <5> QED
            BY <2>2, <5>1
        <4>4. Settling(mreq'[t])
          BY <2>2, <2>3 DEF Settling
        <4>5. Shelf(o, n, w, k)' <=> Elses(t, o, n, w, k) \/ Holds(mreq[t], o, n, w, k)'
          BY <1>1, <1>3, <1>10, <2>3, <3>1, <4>4, ElsesKept
        <4> QED
          BY <4>1, <4>2, <4>3, <4>5
      <3>4. Shelved(o)'
        BY <3>3 DEF Shelved
      <3>5. ASSUME NEW p \in MediaThreads \ {t}, mreq[p].owner = o, NEW v \in Variants, <<o, mreq[p].name, Append(mreq[p].stem, v)>> \notin DOMAIN files
            PROVE  <<o, mreq[p].name, Append(mreq[p].stem, v)>> \notin DOMAIN files'
        <4>1. PICK x, n : x \in Seq(Words) /\ x = mreq[p].stem /\ n = mreq[p].name
          BY <1>1 DEF MediaGround, CollectionTypes, MediaReq
        <4>2. x # s0
          BY <1>1, <1>4, <1>5, <1>6, <3>1, <3>5, <4>1, StemsApart
        <4>3. Append(x, v) \notin VariantsOf(s0)
          BY <1>5, <1>6, <4>1, <4>2, VariantNames
        <4>4. <<o, n, Append(x, v)>> \notin made
          BY <1>8, <4>3
        <4> QED
          BY <2>1, <3>5, <4>1, <4>4
      <3>6. ReqOK(o, q)'
        <4>1. UploadOK(o, r)
          BY <1>2, <1>4, <3>1 DEF ReqOK
        <4>2. OwnDirs(o)' = OwnDirs(o) /\ \A d \in OwnDirs(o) : dirs'[d] = dirs[d]
          BY <1>10, OwnDirsKept
        <4>3. UploadOK(o, q)'
          BY <1>2, <1>4, <1>6, <2>3, <4>1, <4>2 DEF UploadOK
        <4> QED
          BY <2>3, <4>3 DEF ReqOK
      <3>7. ReqOK(o, mreq[t])'
        BY <2>2, <3>6
      <3> QED
        BY <1>10, <2>3, <3>1, <3>4, <3>5, <3>7, OwnerLibrary
    <2> QED
      BY <2>4, <2>5, <2>6, <2>8, <2>9 DEF LibraryInv
  <1>12. CASE files' = Without(files, {raw}) /\ Done(t)
    <2>1. /\ DOMAIN files' = DOMAIN files \ {raw} /\ files' = [p \in DOMAIN files' |-> files'[p]]
          /\ \A p \in DOMAIN files' : files'[p] = files[p]
      BY <1>12 DEF Without
    <2>2. Rest(t) /\ mreq'[t] = NoRequest /\ NoRequest.op = "none" /\ NoRequest.owner = "nobody" /\ NoRequest.step = "none" /\ "nobody" \notin Owners
      BY <1>1, <1>12, DoneFields, NobodyElse
    <2>3. DiskTypes'
      <3>1. ASSUME NEW p \in DOMAIN files' PROVE p \in MediaPaths /\ files'[p] \in 1 .. lastPic /\ <<p[1], p[2]>> \in folders'
        BY <1>1, <1>2, <2>1 DEF DiskTypes
      <3> QED
        BY <1>1, <1>2, <2>1, <3>1, DiskWritten DEF DiskTypes
    <2>4. ApartInv'
      BY <1>1, <1>2, <1>12, DoneApart DEF StemsKept
    <2>5. NamedInv'
      BY <1>1, <2>2, NamedKept
    <2>6. \A x \in Owners \ {o} : TreeSame(x)
      <3>1. SUFFICES ASSUME NEW x \in Owners \ {o} PROVE TreeSame(x)
        OBVIOUS
      <3>2. \A n, w : <<x, n, w>> # raw
        BY <1>8
      <3> QED
        BY <2>1, <3>2 DEF TreeSame
    <2>7. \A x \in Owners \ spoiled' : x # o => LibraryOK(x)'
      BY <1>2, <1>4, <1>6, <1>9, <2>2, <2>6, OthersLibraries
    <2>8. ASSUME o \in Owners \ spoiled' PROVE LibraryOK(o)'
      <3>1. LibraryOK(o) /\ o \in Owners \ spoiled /\ o # "nobody"
        BY <1>2, <1>10, <2>2, <2>8
      <3>2. ASSUME NEW n \in DirNames, NEW w \in Seq(Words), NEW k \in 1 .. MaxUploads
            PROVE  OnDisk(o, n, w, k)' <=> Shelf(o, n, w, k)'
        <4>1. Elses(t, o, n, w, k) <=> OnDisk(o, n, w, k) /\ ~(n = n0 /\ w = s0)
          BY <1>2, <1>4, <1>6, <3>1, OnlyRaw
        <4>2. OnDisk(o, n, w, k)' <=> OnDisk(o, n, w, k) /\ ~(n = n0 /\ w = s0)
          BY <1>8, <2>1 DEF OnDisk
        <4>3. ~Holds(mreq[t], o, n, w, k)'
          BY <2>2 DEF Holds
        <4>4. Shelf(o, n, w, k)' <=> Elses(t, o, n, w, k) \/ Holds(mreq[t], o, n, w, k)'
          BY <1>1, <1>3, <1>10, <2>2, <3>1, ElsesKept
        <4> QED
          BY <4>1, <4>2, <4>3, <4>4
      <3>3. Shelved(o)'
        BY <3>2 DEF Shelved
      <3> QED
        BY <1>10, <2>1, <2>2, <3>1, <3>3, OwnerLibrary
    <2> QED
      BY <2>3, <2>4, <2>5, <2>7, <2>8 DEF LibraryInv
  <1> QED
    BY <1>4, <1>6, <1>7, <1>11, <1>12 DEF Optimize


-----------------------------------------------------------------------------
(* The steps that write a picture's record, or its files away.             *)

\* Where a picture is recorded does not change with a request that neither deletes nor
\* moves it.
LEMMA RecordedSame ==
  ASSUME NEW o, NEW k \in 1 .. MaxUploads, items'[k] = items[k], dirs'[items[k].dir] = dirs[items[k].dir],
         NEW t \in MediaThreads, Rest(t), ~Deletes(mreq[t], k), ~Moves(mreq[t], k), ~Deletes(mreq[t], k)', ~Moves(mreq[t], k)',
         NEW n, NEW w
  PROVE  Recorded(o, n, w, k)' <=> Recorded(o, n, w, k)
  <1>1. ASSUME NEW q \in MediaThreads
        PROVE  /\ Deletes(mreq[q], k)' <=> Deletes(mreq[q], k)
               /\ Moves(mreq[q], k)' <=> Moves(mreq[q], k)
               /\ Moves(mreq[q], k) => mreq'[q].to = mreq[q].to
    <2>1. CASE q = t
      BY <2>1
    <2>2. CASE q # t
      BY <2>2 DEF Rest, Deletes, Moves
    <2> QED
      BY <2>1, <2>2
  <1>2. (\E q \in MediaThreads : Moves(mreq[q], k) /\ mreq[q].to = n)' <=> (\E q \in MediaThreads : Moves(mreq[q], k) /\ mreq[q].to = n)
    BY <1>1
  <1>3. (\A q \in MediaThreads : ~Moves(mreq[q], k))' <=> (\A q \in MediaThreads : ~Moves(mreq[q], k))
    BY <1>1
  <1>4. (\A q \in MediaThreads : ~Deletes(mreq[q], k))' <=> (\A q \in MediaThreads : ~Deletes(mreq[q], k))
    BY <1>1
  <1>5. Lies(k, n)' <=> Lies(k, n)
    BY <1>2, <1>3, <1>4 DEF Lies
  <1>6. (w \in VariantsOf(items[k].stem))' <=> w \in VariantsOf(items[k].stem)
    BY DEF VariantsOf
  <1> QED
    BY <1>5, <1>6 DEF Recorded

LEMMA InsertItemLibrary ==
  ASSUME LibraryInv, MediaGround', NEW t \in MediaThreads, InsertItem(t)
  PROVE  LibraryInv'
  <1>1. MediaGround /\ ApartInv /\ NamedInv /\ DiskTypes
    BY DEF LibraryInv
  <1>2. /\ mreq[t].op = "upload" /\ mreq[t].step = "insert" /\ Done(t) /\ UNCHANGED <<dirs, folders, files, lastDir, lastPic, spoiled, mrequests>>
        /\ items' = Inserted(mreq[t])
    BY DEF InsertItem, At
  <1>3. PICK r \in MediaReq : r = mreq[t]
    BY <1>1 DEF MediaGround, CollectionTypes
  <1>4. PICK o, n0, s0, i : o = r.owner /\ n0 = r.name /\ s0 = r.stem /\ i = r.pic
    OBVIOUS
  <1>5. o \in Owners /\ r.by = o /\ s0 \in Seq(Words) /\ Plain(s0) /\ s0 # <<>> /\ i \in 1 .. MaxUploads /\ items[i] = NoItem
    <2>1. InHand(r) /\ items[i] = NoItem
      BY <1>1, <1>2, <1>3, <1>4 DEF MediaGround, PicsInv
    <2>2. i \in 1 .. MaxUploads
      BY <1>1, <1>2, <1>3, <1>4, <2>1, MediaBounds DEF InHand, MediaGround
    <2> QED
      BY <1>1, <1>2, <1>3, <1>4, <2>1, <2>2 DEF InHand, MediaReq, NamedInv, Plain
  <1>6. /\ items'[i].exists /\ items'[i].owner = o /\ items'[i].dir = r.dir /\ items'[i].stem = s0
        /\ \A k \in 1 .. MaxUploads : k # i => items'[k] = items[k]
    <2>1. StoredStem(s0) = s0
      BY <1>5, StoredPlain
    <2>2. items' = [items EXCEPT ![i] = [exists |-> TRUE, owner |-> o, dir |-> r.dir, stem |-> s0]]
      BY <1>2, <1>3, <1>4, <1>5, <2>1 DEF Inserted
    <2> QED
      BY <1>1, <1>5, <2>2 DEF MediaGround, CollectionTypes
  <1>7. Rest(t) /\ mreq'[t] = NoRequest /\ NoRequest.op = "none" /\ NoRequest.owner = "nobody" /\ NoRequest.step = "none" /\ "nobody" \notin Owners
    BY <1>1, <1>2, DoneFields, NobodyElse
  <1>8. items[i].owner = "nobody"
    BY <1>5 DEF NoItem
  <1>9. DiskTypes'
    BY <1>1, <1>2 DEF DiskTypes
  <1>10. ApartInv'
    <2>1. StemsKept
      BY <1>6, <1>8 DEF StemsKept
    <2> QED
      BY <1>1, <1>2, <2>1, DoneApart
  <1>11. NamedInv'
    BY <1>1, <1>7, NamedKept
  <1>12. \A x \in Owners \ spoiled' : x # o => LibraryOK(x)'
    <2>1. ASSUME NEW x \in Owners \ {o} PROVE DocsSame(x) /\ TreeSame(x)
      <3>1. x # "nobody" /\ x # o
        BY <1>7
      <3> QED
        BY <1>2, <1>6, <1>8, <3>1 DEF DocsSame, TreeSame
    <2> QED
      BY <1>2, <1>3, <1>4, <1>7, <2>1, OthersLibraries
  <1>13. ASSUME o \in Owners \ spoiled' PROVE LibraryOK(o)'
    <2>1. LibraryOK(o) /\ ReqOK(o, r) /\ o \in Owners \ spoiled /\ o # "nobody"
      BY <1>2, <1>3, <1>4, <1>7, <1>13 DEF LibraryInv, LibraryOK
    <2>2. r.dir \in OwnDirs(o) /\ dirs[r.dir].name = n0
      BY <1>2, <1>3, <1>4, <2>1 DEF ReqOK, UploadOK
    <2>3. ASSUME NEW q \in MediaThreads \ {t}, mreq[q].owner = o PROVE ~Structural(mreq[q])
      BY <1>1, <1>3, <1>4, <2>1, <2>3, StemsApart
    <2>4. ASSUME NEW q \in MediaThreads, mreq[q].op \in {"delete", "move"}, mreq[q].step \in {"disk", "record"} PROVE mreq[q].pic # i
      <3>1. items[mreq[q].pic].owner = mreq[q].owner /\ mreq[q].owner \in Owners
        <4>1. InHand(mreq[q])
          BY <1>1 DEF MediaGround
        <4> QED
          BY <2>4, <4>1 DEF InHand
      <3> QED
        BY <1>7, <1>8, <3>1
    <2>5. ASSUME NEW n \in DirNames, NEW w \in Seq(Words), NEW k \in 1 .. MaxUploads
          PROVE  Shelf(o, n, w, k)' <=> Shelf(o, n, w, k)
      <3>1. \A p \in MediaThreads : p # t => (Holds(mreq[p], o, n, w, k)' <=> Holds(mreq[p], o, n, w, k))
        BY <1>7, HoldsKept
      <3>2. ~Holds(mreq[t], o, n, w, k)'
        BY <1>7 DEF Holds
      <3>3. CASE k # i
        <4>1. ~Holds(mreq[t], o, n, w, k)
          BY <1>3, <1>4, <3>3 DEF Holds
        <4>2. ~Deletes(mreq[t], k) /\ ~Moves(mreq[t], k)
          BY <1>2 DEF Deletes, Moves
        <4>3. ~Deletes(mreq[t], k)' /\ ~Moves(mreq[t], k)'
          BY <1>7 DEF Deletes, Moves
        <4>4. Recorded(o, n, w, k)' <=> Recorded(o, n, w, k)
          BY <1>2, <1>6, <1>7, <3>3, <4>2, <4>3, RecordedSame
        <4> QED
          BY <3>1, <3>2, <4>1, <4>4 DEF Shelf
      <3>4. CASE k = i
        <4>1. ~Recorded(o, n, w, k)
          BY <1>8, <2>1, <3>4 DEF Recorded
        <4>2. \A p \in MediaThreads : p # t => ~Holds(mreq[p], o, n, w, k)
          BY <1>1, <1>2, <1>3, <1>4, <3>4 DEF Holds, MediaGround, PicsInv
        <4>3. Holds(mreq[t], o, n, w, k) <=> n = n0 /\ w \in VariantsOf(s0)
          BY <1>2, <1>3, <1>4, <3>4 DEF Holds
        <4>4. ASSUME NEW q \in MediaThreads PROVE ~Deletes(mreq[q], i)' /\ ~Moves(mreq[q], i)'
          <5>1. CASE q = t
            BY <1>7, <5>1 DEF Deletes, Moves
          <5>2. CASE q # t
            <6>1. mreq'[q] = mreq[q]
              BY <1>7, <5>2 DEF Rest
            <6>2. mreq[q].owner = o => mreq[q].op # "rename"
              BY <2>3, <5>2 DEF Structural
            <6> QED
              BY <1>6, <2>4, <6>1, <6>2 DEF Deletes, Moves
          <5> QED
            BY <5>1, <5>2
        <4>5. Lies(i, n)' <=> n = n0
          BY <1>2, <1>6, <2>2, <4>4 DEF Lies
        <4>6. Recorded(o, n, w, i)' <=> n = n0 /\ w \in VariantsOf(s0)
          BY <1>6, <4>5 DEF Recorded, VariantsOf
        <4> QED
          BY <3>1, <3>2, <3>4, <4>1, <4>2, <4>3, <4>6 DEF Shelf
      <3> QED
        BY <3>3, <3>4
    <2>6. Shelved(o)'
      <3>1. ASSUME NEW n \in DirNames, NEW w \in Seq(Words), NEW k \in 1 .. MaxUploads PROVE OnDisk(o, n, w, k)' <=> Shelf(o, n, w, k)'
        <4>1. OnDisk(o, n, w, k)' <=> OnDisk(o, n, w, k)
          BY <1>2 DEF OnDisk
        <4> QED
          BY <2>1, <2>5, <4>1 DEF LibraryOK, Shelved
      <3> QED
        BY <3>1 DEF Shelved
    <2>7. OwnDirs(o)' = OwnDirs(o) /\ DirsOK(o)'
      BY <1>2, <2>1 DEF LibraryOK, DirsOK, OwnDirs
    <2>8. ItemsOK(o)'
      <3>1. SUFFICES ASSUME NEW k \in 1 .. MaxUploads, items'[k].owner = o
                     PROVE  Plain(items'[k].stem) /\ (items'[k].exists => items'[k].dir \in OwnDirs(o)')
        BY DEF ItemsOK
      <3>2. CASE k = i
        BY <1>5, <1>6, <2>2, <2>7, <3>2
      <3>3. CASE k # i
        BY <1>6, <2>1, <2>7, <3>1, <3>3 DEF LibraryOK, ItemsOK
      <3> QED
        BY <3>2, <3>3
    <2>9. ASSUME NEW q \in MediaThreads, mreq'[q].owner = o PROVE ReqOK(o, mreq[q])'
      <3>1. q # t
        BY <1>7, <2>1, <2>9
      <3>2. PICK a : a = mreq[q]
        OBVIOUS
      <3>3. mreq'[q] = a /\ a.owner = o
        BY <1>7, <2>9, <3>1, <3>2 DEF Rest
      <3>4. a.op \in {"delete", "move"} /\ a.step \in {"disk", "record"} => a.pic \in 1 .. MaxUploads /\ items[a.pic].owner = o /\ items'[a.pic] = items[a.pic]
        BY <1>1, <1>6, <2>4, <3>2, <3>3, PicInHand
      <3>5. a.op # "rmdir"
        BY <2>3, <3>1, <3>2, <3>3 DEF Structural
      <3>6. ReqOK(o, a) /\ ItemsOK(o)
        BY <2>1, <3>2, <3>3 DEF LibraryOK
      <3>7. OwnDirs(o)' = OwnDirs(o) /\ \A d \in OwnDirs(o) : dirs'[d] = dirs[d]
        BY <1>2, <2>7
      <3>8. ReqOK(o, a)'
        BY <1>2, <3>4, <3>5, <3>6, <3>7, ReqKept
      <3> QED
        BY <3>3, <3>8
    <2> QED
      BY <2>6, <2>7, <2>8, <2>9 DEF LibraryOK
  <1> QED
    BY <1>9, <1>10, <1>11, <1>12, <1>13 DEF LibraryInv


\* The files of the picture a deletion has in hand are in the folder it has read, and
\* nothing else there has one of their names.
LEMMA FilesInHand ==
  ASSUME LibraryInv, NEW t \in MediaThreads, mreq[t].op \in {"delete", "move"}, mreq[t].step = "disk", NEW o \in Owners \ spoiled,
         mreq[t].owner = o
  PROVE  /\ mreq[t].pic \in 1 .. MaxUploads /\ items[mreq[t].pic].owner = o /\ items[mreq[t].pic].exists
         /\ mreq[t].stem = items[mreq[t].pic].stem /\ mreq[t].name \in DirNames
         /\ mreq[t].stem \in Seq(Words) /\ Plain(mreq[t].stem) /\ mreq[t].stem # <<>>
         /\ \A n, w : Recorded(o, n, w, mreq[t].pic) <=> n = mreq[t].name /\ w \in VariantsOf(mreq[t].stem)
         /\ \A w \in Seq(Words), k \in 1 .. MaxUploads : OnDisk(o, mreq[t].name, w, k) /\ w \in NamesOf(mreq[t].stem) =>
                k = mreq[t].pic /\ ~\E p \in MediaThreads : Holds(mreq[p], o, mreq[t].name, w, k)
  <1>1. MediaGround /\ ApartInv /\ NamedInv /\ LibraryOK(o)
    BY DEF LibraryInv
  <1>2. PICK r \in MediaReq : r = mreq[t]
    BY <1>1 DEF MediaGround, CollectionTypes
  <1>3. PICK i, s0, n0 : i = r.pic /\ s0 = r.stem /\ n0 = r.name
    OBVIOUS
  <1>4. ReqOK(o, r) /\ ItemAt(r)
    BY <1>1, <1>2 DEF LibraryOK, ReqOK
  <1>5. /\ i \in 1 .. MaxUploads /\ items[i].owner = o /\ items[i].exists /\ s0 = items[i].stem /\ dirs[items[i].dir].name = n0
        /\ s0 \in Seq(Words) /\ Plain(s0) /\ s0 # <<>> /\ n0 \in DirNames
    <2>1. i \in 1 .. MaxUploads /\ items[i].owner = o /\ items[i].exists /\ s0 = items[i].stem /\ dirs[items[i].dir].name = n0
      BY <1>1, <1>2, <1>3, <1>4, PicInHand DEF ItemAt
    <2>2. Plain(s0)
      BY <1>1, <2>1 DEF LibraryOK, ItemsOK
    <2> QED
      BY <1>3, <2>1, <2>2 DEF MediaReq, Plain
  <1>6. ASSUME NEW q \in MediaThreads PROVE ~Deletes(mreq[q], i) /\ ~Moves(mreq[q], i)
    <2>1. CASE q = t
      BY <1>2, <2>1 DEF Deletes, Moves
    <2>2. CASE q # t
      <3>1. SUFFICES ASSUME mreq[q].owner = o PROVE ~Deletes(mreq[q], i) /\ ~Moves(mreq[q], i)
        BY <1>5 DEF Deletes, Moves
      <3>2. mreq[q].stem # s0 /\ ~Structural(mreq[q])
        BY <1>1, <1>2, <1>3, <1>5, <2>2, <3>1, StemsApart
      <3>3. ASSUME Deletes(mreq[q], i) PROVE FALSE
        <4>1. ReqOK(o, mreq[q])
          BY <1>1, <3>1 DEF LibraryOK
        <4> QED
          BY <1>5, <3>2, <3>3, <4>1 DEF Deletes, ReqOK
      <3> QED
        BY <3>2, <3>3 DEF Moves, Structural
    <2> QED
      BY <2>1, <2>2
  <1>7. ASSUME NEW n, NEW w PROVE Recorded(o, n, w, i) <=> n = n0 /\ w \in VariantsOf(s0)
    BY <1>5, <1>6 DEF Recorded, Lies
  <1>8. ASSUME NEW w \in Seq(Words), NEW k \in 1 .. MaxUploads, OnDisk(o, n0, w, k), w \in NamesOf(s0),
               NEW p \in MediaThreads, Holds(mreq[p], o, n0, w, k) PROVE FALSE
    <2>1. mreq[p].stem \in Seq(Words) /\ Plain(mreq[p].stem) /\ mreq[p].owner = o /\ (w = mreq[p].stem \/ w \in VariantsOf(mreq[p].stem))
      BY <1>1, <1>8 DEF Holds, MediaGround, CollectionTypes, MediaReq, NamedInv
    <2>2. p # t
      BY <1>8 DEF Holds
    <2>3. mreq[p].stem # s0
      BY <1>1, <1>2, <1>3, <1>5, <2>1, <2>2, StemsApart
    <2>4. w = s0 \/ w \in VariantsOf(s0)
      BY <1>8 DEF NamesOf
    <2>5. PICK x : x = mreq[p].stem
      OBVIOUS
    <2>6. w \in VariantsOf(s0) /\ w \in VariantsOf(x) => x = s0
      <3>1. ASSUME NEW v \in Variants, w = Append(s0, v), w \in VariantsOf(x) PROVE s0 = x
        BY <1>5, <2>1, <2>5, <3>1, VariantNames
      <3> QED
        BY <3>1 DEF VariantsOf
    <2> QED
      BY <1>5, <2>1, <2>3, <2>4, <2>5, <2>6, VariantNames
  <1>9. ASSUME NEW w \in Seq(Words), NEW k \in 1 .. MaxUploads, OnDisk(o, n0, w, k), w \in NamesOf(s0) PROVE k = i
    <2>1. Shelf(o, n0, w, k)
      BY <1>1, <1>5, <1>9 DEF LibraryOK, Shelved
    <2>2. Recorded(o, n0, w, k)
      BY <1>8, <1>9, <2>1 DEF Shelf
    <2>3. items[k].stem \in Seq(Words) /\ w \in VariantsOf(items[k].stem)
      BY <1>1, <2>2 DEF Recorded, MediaGround, CollectionTypes, ItemDoc
    <2>4. w \in VariantsOf(s0)
      BY <1>5, <1>9, <2>3, VariantNames DEF NamesOf
    <2>5. OnDisk(o, n0, w, i)
      <3>1. Shelf(o, n0, w, i)
        BY <1>7, <2>4 DEF Shelf
      <3> QED
        BY <1>1, <1>5, <3>1 DEF LibraryOK, Shelved
    <2> QED
      BY <1>9, <2>5 DEF OnDisk
  <1> QED
    BY <1>2, <1>3, <1>5, <1>7, <1>8, <1>9

LEMMA DeleteFilesLibrary ==
  ASSUME LibraryInv, MediaGround', NEW t \in MediaThreads, DeleteFiles(t)
  PROVE  LibraryInv'
  <1>1. MediaGround /\ ApartInv /\ NamedInv /\ DiskTypes
    BY DEF LibraryInv
  <1>2. /\ mreq[t].op = "delete" /\ mreq[t].step = "disk" /\ To(t, "record") /\ UNCHANGED <<dirs, items, folders, lastDir, lastPic, spoiled, mrequests>>
        /\ files' = Without(files, In(mreq[t].owner, mreq[t].name, Removed(mreq[t].stem)))
    BY DEF DeleteFiles, At
  <1>3. PICK r \in MediaReq : r = mreq[t]
    BY <1>1 DEF MediaGround, CollectionTypes
  <1>4. PICK o, n0, s0, i : o = r.owner /\ n0 = r.name /\ s0 = r.stem /\ i = r.pic
    OBVIOUS
  <1>5. PICK gone : gone = In(o, n0, NamesOf(s0))
    OBVIOUS
  <1>6. \A n, w : <<o, n, w>> \in gone <=> n = n0 /\ w \in NamesOf(s0) /\ <<o, n, w>> \in DOMAIN files
    BY <1>5 DEF In
  <1>7. /\ DOMAIN files' = DOMAIN files \ gone /\ files' = [p \in DOMAIN files' |-> files'[p]]
        /\ \A p \in DOMAIN files' : files'[p] = files[p]
    BY <1>2, <1>3, <1>4, <1>5 DEF Without, Removed
  <1>8. PICK q : q = mreq'[t]
    OBVIOUS
  <1>9. /\ Rest(t) /\ q.op = "delete" /\ q.step = "record" /\ q.owner = o /\ q.name = n0 /\ q.stem = s0 /\ q.pic = i
    BY <1>1, <1>2, <1>3, <1>4, <1>8, ToFields
  <1>10. DiskTypes'
    <2>1. ASSUME NEW p \in DOMAIN files' PROVE p \in MediaPaths /\ files'[p] \in 1 .. lastPic /\ <<p[1], p[2]>> \in folders'
      BY <1>1, <1>2, <1>7 DEF DiskTypes
    <2> QED
      BY <1>1, <1>2, <1>7, <2>1, DiskWritten DEF DiskTypes
  <1>11. ApartInv'
    BY <1>1, <1>2, ToApart DEF StemsKept
  <1>12. NamedInv'
    BY <1>1, <1>8, <1>9, NamedKept
  <1>13. \A x : DocsSame(x)
    BY <1>2 DEF DocsSame
  <1>14. \A x \in Owners \ spoiled' : x # o => LibraryOK(x)'
    <2>1. ASSUME NEW x \in Owners \ {o} PROVE TreeSame(x)
      <3>1. \A n, w : <<x, n, w>> \notin gone
        BY <1>5 DEF In
      <3> QED
        BY <1>7, <3>1 DEF TreeSame
    <2> QED
      BY <1>2, <1>3, <1>4, <1>8, <1>9, <1>13, <2>1, OthersLibraries
  <1>15. ASSUME o \in Owners \ spoiled' PROVE LibraryOK(o)'
    <2>1. LibraryOK(o) /\ o \in Owners \ spoiled
      BY <1>2, <1>15 DEF LibraryInv
    <2>2. /\ i \in 1 .. MaxUploads /\ items[i].owner = o /\ items[i].exists /\ s0 = items[i].stem /\ n0 \in DirNames
          /\ \A n, w : Recorded(o, n, w, i) <=> n = n0 /\ w \in VariantsOf(s0)
          /\ \A w \in Seq(Words), k \in 1 .. MaxUploads : OnDisk(o, n0, w, k) /\ w \in NamesOf(s0) =>
                k = i /\ ~\E p \in MediaThreads : Holds(mreq[p], o, n0, w, k)
      <3>1. mreq[t].owner = o /\ mreq[t].op \in {"delete", "move"} /\ mreq[t].step = "disk"
        BY <1>2, <1>3, <1>4
      <3>2. mreq[t].pic = i /\ mreq[t].stem = s0 /\ mreq[t].name = n0
        BY <1>3, <1>4
      <3>3. i \in 1 .. MaxUploads /\ items[i].owner = o /\ items[i].exists /\ s0 = items[i].stem /\ n0 \in DirNames
        BY <2>1, <3>1, <3>2, FilesInHand
      <3>5. ASSUME NEW n, NEW w PROVE Recorded(o, n, w, i) <=> n = n0 /\ w \in VariantsOf(s0)
        <4>1. Recorded(o, n, w, mreq[t].pic) <=> n = mreq[t].name /\ w \in VariantsOf(mreq[t].stem)
          BY <2>1, <3>1, FilesInHand
        <4> QED
          BY <3>2, <4>1
      <3>4. \A w \in Seq(Words), k \in 1 .. MaxUploads : OnDisk(o, n0, w, k) /\ w \in NamesOf(s0) =>
                k = i /\ ~\E p \in MediaThreads : Holds(mreq[p], o, n0, w, k)
        BY <2>1, <3>1, <3>2, FilesInHand
      <3> QED
        BY <3>3, <3>4, <3>5
    <2>3. ASSUME NEW n \in DirNames, NEW w \in Seq(Words), NEW k \in 1 .. MaxUploads
          PROVE  OnDisk(o, n, w, k)' <=> Shelf(o, n, w, k)'
      <3>1. \A p \in MediaThreads : p # t => (Holds(mreq[p], o, n, w, k)' <=> Holds(mreq[p], o, n, w, k))
        BY <1>9, HoldsKept
      <3>2. ~Holds(mreq[t], o, n, w, k)' /\ ~Holds(mreq[t], o, n, w, k)
        <4>1. ~Holds(mreq[t], o, n, w, k)
          BY <1>2 DEF Holds
        <4>2. ~Holds(q, o, n, w, k)'
          BY <1>9 DEF Holds
        <4> QED
          BY <1>8, <4>1, <4>2
      <3>3. OnDisk(o, n, w, k)' <=> OnDisk(o, n, w, k) /\ ~(n = n0 /\ w \in NamesOf(s0))
        BY <1>6, <1>7 DEF OnDisk
      <3>4. OnDisk(o, n, w, k) <=> Shelf(o, n, w, k)
        BY <2>1 DEF LibraryOK, Shelved
      <3>5. CASE k # i
        <4>1. ~Deletes(mreq[t], k) /\ ~Moves(mreq[t], k)
          BY <1>2 DEF Deletes, Moves
        <4>2. ~Deletes(mreq[t], k)' /\ ~Moves(mreq[t], k)'
          BY <1>8, <1>9, <3>5 DEF Deletes, Moves
        <4>3. Recorded(o, n, w, k)' <=> Recorded(o, n, w, k)
          BY <1>2, <1>9, <4>1, <4>2, RecordedSame
        <4>4. Shelf(o, n, w, k)' <=> Shelf(o, n, w, k)
          BY <3>1, <3>2, <4>3 DEF Shelf
        <4> QED
          BY <2>2, <3>3, <3>4, <3>5, <4>4
      <3>6. CASE k = i
        <4>1. Deletes(mreq[t], i)'
          <5>1. Deletes(q, i)'
            BY <1>2, <1>9, <2>2 DEF Deletes
          <5> QED
            BY <1>8, <5>1
        <4>2. ~Recorded(o, n, w, i)'
          BY <4>1 DEF Recorded, Lies
        <4>3. Recorded(o, n, w, i) => n = n0 /\ w \in NamesOf(s0)
          BY <2>2 DEF NamesOf
        <4>4. ~(\E p \in MediaThreads : Holds(mreq[p], o, n, w, k)) \/ ~(n = n0 /\ w \in NamesOf(s0))
          BY <2>2, <3>4 DEF Shelf
        <4> QED
          BY <3>1, <3>2, <3>3, <3>4, <3>6, <4>2, <4>3, <4>4 DEF Shelf
      <3> QED
        BY <3>5, <3>6
    <2>4. Shelved(o)'
      BY <2>3 DEF Shelved
    <2>5. ReqOK(o, q)'
      BY <1>2, <1>9, <2>2 DEF ReqOK
    <2>6. ReqOK(o, mreq[t])'
      BY <1>8, <2>5
    <2> QED
      BY <1>7, <1>9, <1>13, <2>1, <2>4, <2>6, OwnerLibrary
  <1> QED
    BY <1>10, <1>11, <1>12, <1>14, <1>15 DEF LibraryInv

LEMMA DeleteRecordLibrary ==
  ASSUME LibraryInv, MediaGround', NEW t \in MediaThreads, DeleteRecord(t)
  PROVE  LibraryInv'
  <1>1. MediaGround /\ ApartInv /\ NamedInv /\ DiskTypes
    BY DEF LibraryInv
  <1>2. /\ mreq[t].op = "delete" /\ mreq[t].step = "record" /\ To(t, "next") /\ UNCHANGED <<dirs, folders, files, lastDir, lastPic, spoiled, mrequests>>
        /\ items' = [items EXCEPT ![mreq[t].pic].exists = FALSE]
    BY DEF DeleteRecord, At
  <1>3. PICK r \in MediaReq : r = mreq[t]
    BY <1>1 DEF MediaGround, CollectionTypes
  <1>4. PICK o, i : o = r.owner /\ i = r.pic
    OBVIOUS
  <1>5. i \in 1 .. MaxUploads /\ items[i].owner = o
    BY <1>1, <1>2, <1>3, <1>4, PicInHand
  <1>6. /\ ~items'[i].exists /\ items'[i].owner = o /\ items'[i].dir = items[i].dir /\ items'[i].stem = items[i].stem
        /\ \A k \in 1 .. MaxUploads : k # i => items'[k] = items[k]
    <2>1. PICK it \in ItemDoc : it = items[i]
      BY <1>1, <1>5 DEF MediaGround, CollectionTypes
    <2>2. PICK jt : jt = [it EXCEPT !.exists = FALSE]
      OBVIOUS
    <2>3. items' = [items EXCEPT ![i] = jt]
      BY <1>2, <1>3, <1>4, <2>1, <2>2
    <2>4. ~jt.exists /\ jt.owner = it.owner /\ jt.dir = it.dir /\ jt.stem = it.stem
      BY <2>2 DEF ItemDoc
    <2> QED
      BY <1>1, <1>5, <2>1, <2>3, <2>4 DEF MediaGround, CollectionTypes
  <1>7. PICK q : q = mreq'[t]
    OBVIOUS
  <1>8. Rest(t) /\ q.op = "delete" /\ q.step = "next" /\ q.owner = o /\ q.stem = r.stem
    BY <1>1, <1>2, <1>3, <1>4, <1>7, ToFields
  <1>9. DiskTypes'
    BY <1>1, <1>2 DEF DiskTypes
  <1>10. ApartInv'
    <2>1. StemsKept
      BY <1>5, <1>6 DEF StemsKept
    <2> QED
      BY <1>1, <1>2, <2>1, ToApart
  <1>11. NamedInv'
    BY <1>1, <1>7, <1>8, NamedKept
  <1>12. \A x \in Owners \ spoiled' : x # o => LibraryOK(x)'
    <2>1. \A x \in Owners \ {o} : DocsSame(x) /\ TreeSame(x)
      BY <1>2, <1>5, <1>6 DEF DocsSame, TreeSame
    <2> QED
      BY <1>2, <1>3, <1>4, <1>7, <1>8, <2>1, OthersLibraries
  <1>13. ASSUME o \in Owners \ spoiled' PROVE LibraryOK(o)'
    <2>1. LibraryOK(o) /\ ReqOK(o, r) /\ o \in Owners \ spoiled /\ r.stem = items[i].stem /\ r.stem # <<>>
      <3>1. LibraryOK(o) /\ ReqOK(o, r) /\ o \in Owners \ spoiled
        BY <1>2, <1>3, <1>4, <1>13 DEF LibraryInv, LibraryOK
      <3>2. r.stem = items[i].stem
        BY <1>2, <1>3, <1>4, <3>1 DEF ReqOK
      <3> QED
        BY <1>5, <3>1, <3>2 DEF LibraryOK, ItemsOK, Plain
    <2>2. ASSUME NEW p \in MediaThreads \ {t}, mreq[p].owner = o PROVE ~Structural(mreq[p]) /\ mreq[p].stem # r.stem
      BY <1>1, <1>3, <1>4, <2>1, <2>2, StemsApart
    <2>3. ASSUME NEW n \in DirNames, NEW w \in Seq(Words), NEW k \in 1 .. MaxUploads
          PROVE  Shelf(o, n, w, k)' <=> Shelf(o, n, w, k)
      <3>1. \A p \in MediaThreads : p # t => (Holds(mreq[p], o, n, w, k)' <=> Holds(mreq[p], o, n, w, k))
        BY <1>8, HoldsKept
      <3>2. ~Holds(mreq[t], o, n, w, k)' /\ ~Holds(mreq[t], o, n, w, k)
        <4>1. ~Holds(mreq[t], o, n, w, k)
          BY <1>2 DEF Holds
        <4>2. ~Holds(q, o, n, w, k)'
          BY <1>8 DEF Holds
        <4> QED
          BY <1>7, <4>1, <4>2
      <3>3. Recorded(o, n, w, k)' <=> Recorded(o, n, w, k)
        <4>1. CASE k # i
          <5>1. ~Deletes(mreq[t], k) /\ ~Moves(mreq[t], k)
            BY <1>2, <1>3, <1>4, <4>1 DEF Deletes, Moves
          <5>2. ~Deletes(mreq[t], k)' /\ ~Moves(mreq[t], k)'
            BY <1>7, <1>8 DEF Deletes, Moves
          <5> QED
            BY <1>2, <1>6, <1>8, <4>1, <5>1, <5>2, RecordedSame
        <4>2. CASE k = i
          <5>1. Deletes(mreq[t], i)
            BY <1>2, <1>3, <1>4, <1>5 DEF Deletes
          <5> QED
            BY <1>6, <4>2, <5>1 DEF Recorded, Lies
        <4> QED
          BY <4>1, <4>2
      <3> QED
        BY <3>1, <3>2, <3>3 DEF Shelf
    <2>4. Shelved(o)'
      <3>1. ASSUME NEW n \in DirNames, NEW w \in Seq(Words), NEW k \in 1 .. MaxUploads PROVE OnDisk(o, n, w, k)' <=> Shelf(o, n, w, k)'
        <4>1. OnDisk(o, n, w, k)' <=> OnDisk(o, n, w, k)
          BY <1>2 DEF OnDisk
        <4> QED
          BY <2>1, <2>3, <4>1 DEF LibraryOK, Shelved
      <3> QED
        BY <3>1 DEF Shelved
    <2>5. OwnDirs(o)' = OwnDirs(o) /\ DirsOK(o)'
      BY <1>2, <2>1 DEF LibraryOK, DirsOK, OwnDirs
    <2>6. ItemsOK(o)'
      BY <1>5, <1>6, <2>1, <2>5 DEF LibraryOK, ItemsOK
    <2>7. ASSUME NEW p \in MediaThreads, mreq'[p].owner = o, p # t PROVE ReqOK(o, mreq[p])'
      <3>1. PICK a : a = mreq[p]
        OBVIOUS
      <3>2. mreq'[p] = a /\ a.owner = o
        BY <1>8, <2>7, <3>1 DEF Rest
      <3>3. ReqOK(o, a) /\ ItemsOK(o)
        BY <2>1, <3>1, <3>2 DEF LibraryOK
      <3>4. ~Structural(a) /\ a.stem # r.stem
        BY <2>2, <2>7, <3>1, <3>2
      <3>5. a.op = "delete" /\ a.step \in {"disk", "record"} => a.stem = items[a.pic].stem
        BY <3>3 DEF ReqOK, ItemAt
      <3>6. a.op \in {"delete", "move"} /\ a.step \in {"disk", "record"} => a.pic \in 1 .. MaxUploads /\ items[a.pic].owner = o /\ items'[a.pic] = items[a.pic]
        <4>1. a.op \in {"delete", "move"} /\ a.step \in {"disk", "record"} => a.pic # i
          BY <2>1, <3>4, <3>5 DEF Structural
        <4> QED
          BY <1>1, <1>6, <3>1, <3>2, <4>1, PicInHand
      <3>7. OwnDirs(o)' = OwnDirs(o) /\ \A d \in OwnDirs(o) : dirs'[d] = dirs[d]
        BY <1>2, <2>5
      <3>8. ReqOK(o, a)'
        BY <1>2, <3>3, <3>4, <3>6, <3>7, ReqKept DEF Structural
      <3> QED
        BY <3>2, <3>8
    <2>8. ReqOK(o, mreq[t])'
      <3>1. ReqOK(o, q)'
        BY <1>8 DEF ReqOK
      <3> QED
        BY <1>7, <3>1
    <2> QED
      BY <2>4, <2>5, <2>6, <2>7, <2>8 DEF LibraryOK
  <1> QED
    BY <1>9, <1>10, <1>11, <1>12, <1>13 DEF LibraryInv


-----------------------------------------------------------------------------
(* The steps of a request that no other of the owner runs beside: those on *)
(* directories, and the moves.                                             *)

Alone(t, o) == \A q \in MediaThreads \ {t} : mreq[q].owner # o

LEMMA StructuralAlone ==
  ASSUME LibraryInv, NEW o \in Owners \ spoiled, NEW t \in MediaThreads, mreq[t].owner = o, Structural(mreq[t]), Rest(t)
  PROVE  Alone(t, o) /\ Alone(t, o)'
  <1>1. Alone(t, o)
    BY StemsApart DEF LibraryInv, Alone
  <1> QED
    BY <1>1 DEF Alone, Rest

\* Where the one request that runs puts picture k.
Placed(r, k) == IF Moves(r, k) THEN r.to ELSE dirs[items[k].dir].name

LEMMA AloneShelf ==
  ASSUME NEW t \in MediaThreads, NEW o, Alone(t, o), mreq[t].op \notin {"upload", "delete"}, NEW n, NEW w, NEW k
  PROVE  Shelf(o, n, w, k) <=> items[k].owner = o /\ items[k].exists /\ w \in VariantsOf(items[k].stem) /\ n = Placed(mreq[t], k)
  <1>1. \A q \in MediaThreads : ~Holds(mreq[q], o, n, w, k)
    BY DEF Holds, Alone
  <1>2. ASSUME items[k].owner = o PROVE \A q \in MediaThreads : ~Deletes(mreq[q], k) /\ (q # t => ~Moves(mreq[q], k))
    BY <1>2 DEF Alone, Deletes, Moves
  <1>3. ASSUME items[k].owner = o PROVE Lies(k, n) <=> items[k].exists /\ n = Placed(mreq[t], k)
    <2>1. CASE Moves(mreq[t], k)
      BY <1>2, <1>3, <2>1 DEF Lies, Placed
    <2>2. CASE ~Moves(mreq[t], k)
      BY <1>2, <1>3, <2>2 DEF Lies, Placed
    <2> QED
      BY <2>1, <2>2
  <1> QED
    BY <1>1, <1>3 DEF Shelf, Recorded

LEMMA AloneShelfNext ==
  ASSUME NEW t \in MediaThreads, NEW o, Alone(t, o)', mreq'[t].op \notin {"upload", "delete"}, NEW n, NEW w, NEW k
  PROVE  Shelf(o, n, w, k)' <=> items'[k].owner = o /\ items'[k].exists /\ w \in VariantsOf(items'[k].stem) /\ n = Placed(mreq[t], k)'
  <1>1. \A q \in MediaThreads : ~Holds(mreq[q], o, n, w, k)'
    BY DEF Holds, Alone
  <1>2. ASSUME items'[k].owner = o PROVE \A q \in MediaThreads : ~Deletes(mreq[q], k)' /\ (q # t => ~Moves(mreq[q], k)')
    BY <1>2 DEF Alone, Deletes, Moves
  <1>3. ASSUME items'[k].owner = o PROVE Lies(k, n)' <=> items'[k].exists /\ n = Placed(mreq[t], k)'
    <2>1. CASE Moves(mreq[t], k)'
      BY <1>2, <1>3, <2>1 DEF Lies, Placed
    <2>2. CASE ~Moves(mreq[t], k)'
      BY <1>2, <1>3, <2>2 DEF Lies, Placed
    <2> QED
      BY <2>1, <2>2
  <1>4. (w \in VariantsOf(items[k].stem))' <=> w \in VariantsOf(items'[k].stem)
    BY DEF VariantsOf
  <1> QED
    BY <1>1, <1>3, <1>4 DEF Shelf, Recorded

\* The library of o, when the one request for it has placed its pictures.
LEMMA AloneLibrary ==
  ASSUME LibraryInv, NEW t \in MediaThreads, NEW o \in Owners, Alone(t, o), Alone(t, o)',
         mreq[t].op \notin {"upload", "delete"}, mreq'[t].op \notin {"upload", "delete"}, LibraryOK(o),
         \A n \in DirNames, w \in Seq(Words), k \in 1 .. MaxUploads : OnDisk(o, n, w, k)' <=> OnDisk(o, n, w, k),
         \A k \in 1 .. MaxUploads : items'[k].owner = items[k].owner /\ items'[k].exists = items[k].exists /\ items'[k].stem = items[k].stem,
         \A k \in 1 .. MaxUploads : items[k].owner = o /\ items[k].exists => Placed(mreq[t], k)' = Placed(mreq[t], k),
         DirsOK(o)', ItemsOK(o)', mreq'[t].owner = o => ReqOK(o, mreq[t])'
  PROVE  LibraryOK(o)'
  <1>1. ASSUME NEW n \in DirNames, NEW w \in Seq(Words), NEW k \in 1 .. MaxUploads
        PROVE  OnDisk(o, n, w, k)' <=> Shelf(o, n, w, k)'
    <2>1. Shelf(o, n, w, k) <=> items[k].owner = o /\ items[k].exists /\ w \in VariantsOf(items[k].stem) /\ n = Placed(mreq[t], k)
      BY AloneShelf
    <2>2. Shelf(o, n, w, k)' <=> items'[k].owner = o /\ items'[k].exists /\ w \in VariantsOf(items'[k].stem) /\ n = Placed(mreq[t], k)'
      BY AloneShelfNext
    <2>3. OnDisk(o, n, w, k) <=> Shelf(o, n, w, k)
      BY DEF LibraryOK, Shelved
    <2> QED
      BY <2>1, <2>2, <2>3
  <1>2. Shelved(o)'
    BY <1>1 DEF Shelved
  <1>3. \A q \in MediaThreads : mreq'[q].owner = o => ReqOK(o, mreq[q])'
    BY DEF Alone
  <1> QED
    BY <1>2, <1>3 DEF LibraryOK

LEMMA RenameRecordLibrary ==
  ASSUME LibraryInv, MediaGround', NEW t \in MediaThreads, RenameRecord(t)
  PROVE  LibraryInv'
  <1>1. MediaGround /\ ApartInv /\ NamedInv /\ DiskTypes
    BY DEF LibraryInv
  <1>2. mreq[t].op = "rename" /\ mreq[t].step = "record" /\ Done(t) /\ UNCHANGED <<items, folders, files, lastDir, lastPic, spoiled, mrequests>>
    BY DEF RenameRecord, At
  <1>3. PICK r \in MediaReq : r = mreq[t]
    BY <1>1 DEF MediaGround, CollectionTypes
  <1>4. PICK o, d : o = r.owner /\ d = r.dir
    OBVIOUS
  <1>5. d \in 1 .. MaxDirs /\ dirs[d].owner = o /\ o \in Owners
    <2>1. InHand(r)
      BY <1>1, <1>3 DEF MediaGround
    <2> QED
      BY <1>1, <1>2, <1>3, <1>4, <2>1, MediaBounds DEF InHand, OwnDir, MediaGround
  <1>6. /\ dirs'[d].exists = dirs[d].exists /\ dirs'[d].owner = o /\ (DirById(d) => dirs'[d].name = r.to)
        /\ \A e \in 1 .. MaxDirs : e # d => dirs'[e] = dirs[e]
    <2>1. PICK it \in DirDoc : it = dirs[d]
      BY <1>1, <1>5 DEF MediaGround, CollectionTypes
    <2>2. PICK jt : jt = [it EXCEPT !.name = r.to]
      OBVIOUS
    <2>3. dirs' = IF DirById(d) THEN [dirs EXCEPT ![d] = jt] ELSE dirs
      BY <1>3, <1>4, <2>1, <2>2 DEF RenameRecord
    <2>4. jt.exists = it.exists /\ jt.owner = it.owner /\ jt.name = r.to
      BY <2>2 DEF DirDoc
    <2> QED
      BY <1>1, <1>5, <2>1, <2>3, <2>4 DEF MediaGround, CollectionTypes
  <1>7. Rest(t) /\ mreq'[t] = NoRequest /\ NoRequest.op = "none" /\ NoRequest.owner = "nobody" /\ NoRequest.step = "none" /\ "nobody" \notin Owners
    BY <1>1, <1>2, DoneFields, NobodyElse
  <1>8. DiskTypes'
    BY <1>1, <1>2 DEF DiskTypes
  <1>9. ApartInv'
    BY <1>1, <1>2, DoneApart DEF StemsKept
  <1>10. NamedInv'
    BY <1>1, <1>7, NamedKept
  <1>11. \A x \in Owners \ spoiled' : x # o => LibraryOK(x)'
    <2>1. \A x \in Owners \ {o} : DocsSame(x) /\ TreeSame(x)
      BY <1>2, <1>5, <1>6 DEF DocsSame, TreeSame
    <2> QED
      BY <1>2, <1>3, <1>4, <1>7, <2>1, OthersLibraries
  <1>12. ASSUME o \in Owners \ spoiled' PROVE LibraryOK(o)'
    <2>1. LibraryOK(o) /\ ReqOK(o, r) /\ o \in Owners \ spoiled
      BY <1>2, <1>3, <1>4, <1>12 DEF LibraryInv, LibraryOK
    <2>2. d \in OwnDirs(o) /\ \A e \in OwnDirs(o) : dirs[e].name = r.to => e = d
      BY <1>2, <1>3, <1>4, <2>1 DEF ReqOK
    <2>3. DirById(d)
      BY <1>1, <1>5, <2>2, OwnDirListed
    <2>4. Alone(t, o) /\ Alone(t, o)'
      BY <1>2, <1>3, <1>4, <1>7, <2>1, StructuralAlone DEF Structural
    <2>5. OwnDirs(o)' = OwnDirs(o)
      BY <1>5, <1>6 DEF OwnDirs
    <2>6. DirsOK(o)'
      BY <1>6, <2>1, <2>2, <2>3, <2>5 DEF LibraryOK, DirsOK, OwnDirs
    <2>7. ItemsOK(o)'
      BY <1>2, <2>1, <2>5 DEF LibraryOK, ItemsOK
    <2>8. ASSUME NEW k \in 1 .. MaxUploads, items[k].owner = o, items[k].exists PROVE Placed(mreq[t], k)' = Placed(mreq[t], k)
      <3>1. items[k].dir \in OwnDirs(o) /\ items[k].dir \in 1 .. MaxDirs
        BY <2>1, <2>8 DEF LibraryOK, ItemsOK, OwnDirs
      <3>2. ~Moves(mreq[t], k)'
        BY <1>7 DEF Moves
      <3>3. Moves(mreq[t], k) <=> items[k].dir = d
        BY <1>2, <1>3, <1>4, <2>8 DEF Moves
      <3> QED
        BY <1>2, <1>3, <1>6, <2>3, <3>1, <3>2, <3>3 DEF Placed
    <2>9. \A n \in DirNames, w \in Seq(Words), k \in 1 .. MaxUploads : OnDisk(o, n, w, k)' <=> OnDisk(o, n, w, k)
      BY <1>2 DEF OnDisk
    <2> QED
      BY <1>2, <1>7, <2>1, <2>4, <2>6, <2>7, <2>8, <2>9, AloneLibrary
  <1> QED
    BY <1>8, <1>9, <1>10, <1>11, <1>12 DEF LibraryInv

LEMMA DeleteDirRecordLibrary ==
  ASSUME LibraryInv, MediaGround', NEW t \in MediaThreads, DeleteDirRecord(t)
  PROVE  LibraryInv'
  <1>1. MediaGround /\ ApartInv /\ NamedInv /\ DiskTypes
    BY DEF LibraryInv
  <1>2. mreq[t].op = "rmdir" /\ mreq[t].step = "record" /\ Done(t) /\ UNCHANGED <<items, folders, files, lastDir, lastPic, spoiled, mrequests>>
    BY DEF DeleteDirRecord, At
  <1>3. PICK r \in MediaReq : r = mreq[t]
    BY <1>1 DEF MediaGround, CollectionTypes
  <1>4. PICK o, d : o = r.owner /\ d = r.dir
    OBVIOUS
  <1>5. d \in 1 .. MaxDirs /\ dirs[d].owner = o /\ o \in Owners
    <2>1. InHand(r)
      BY <1>1, <1>3 DEF MediaGround
    <2> QED
      BY <1>1, <1>2, <1>3, <1>4, <2>1, MediaBounds DEF InHand, OwnDir, MediaGround
  <1>6. /\ ~dirs'[d].exists /\ dirs'[d].owner = o /\ dirs'[d].name = dirs[d].name
        /\ \A e \in 1 .. MaxDirs : e # d => dirs'[e] = dirs[e]
    <2>1. PICK it \in DirDoc : it = dirs[d]
      BY <1>1, <1>5 DEF MediaGround, CollectionTypes
    <2>2. PICK jt : jt = [it EXCEPT !.exists = FALSE]
      OBVIOUS
    <2>3. dirs' = [dirs EXCEPT ![d] = jt]
      BY <1>3, <1>4, <2>1, <2>2 DEF DeleteDirRecord
    <2>4. ~jt.exists /\ jt.owner = it.owner /\ jt.name = it.name
      BY <2>2 DEF DirDoc
    <2> QED
      BY <1>1, <1>5, <2>1, <2>3, <2>4 DEF MediaGround, CollectionTypes
  <1>7. Rest(t) /\ mreq'[t] = NoRequest /\ NoRequest.op = "none" /\ NoRequest.owner = "nobody" /\ NoRequest.step = "none" /\ "nobody" \notin Owners
    BY <1>1, <1>2, DoneFields, NobodyElse
  <1>8. DiskTypes'
    BY <1>1, <1>2 DEF DiskTypes
  <1>9. ApartInv'
    BY <1>1, <1>2, DoneApart DEF StemsKept
  <1>10. NamedInv'
    BY <1>1, <1>7, NamedKept
  <1>11. \A x \in Owners \ spoiled' : x # o => LibraryOK(x)'
    <2>1. \A x \in Owners \ {o} : DocsSame(x) /\ TreeSame(x)
      BY <1>2, <1>5, <1>6 DEF DocsSame, TreeSame
    <2> QED
      BY <1>2, <1>3, <1>4, <1>7, <2>1, OthersLibraries
  <1>12. ASSUME o \in Owners \ spoiled' PROVE LibraryOK(o)'
    <2>1. LibraryOK(o) /\ ReqOK(o, r) /\ o \in Owners \ spoiled
      BY <1>2, <1>3, <1>4, <1>12 DEF LibraryInv, LibraryOK
    <2>2. \A k \in 1 .. MaxUploads : items[k].exists /\ items[k].owner = o => items[k].dir # d
      BY <1>2, <1>3, <1>4, <2>1 DEF ReqOK
    <2>3. Alone(t, o) /\ Alone(t, o)'
      BY <1>2, <1>3, <1>4, <1>7, <2>1, StructuralAlone DEF Structural
    <2>4. OwnDirs(o)' = OwnDirs(o) \ {d}
      BY <1>5, <1>6 DEF OwnDirs
    <2>5. DirsOK(o)'
      BY <1>6, <2>1, <2>4 DEF LibraryOK, DirsOK, OwnDirs
    <2>6. ItemsOK(o)'
      BY <1>2, <2>1, <2>2, <2>4 DEF LibraryOK, ItemsOK
    <2>7. ASSUME NEW k \in 1 .. MaxUploads, items[k].owner = o, items[k].exists PROVE Placed(mreq[t], k)' = Placed(mreq[t], k)
      <3>1. items[k].dir \in 1 .. MaxDirs
        BY <2>1, <2>7 DEF LibraryOK, ItemsOK, OwnDirs
      <3>2. ~Moves(mreq[t], k)'
        BY <1>7 DEF Moves
      <3>3. ~Moves(mreq[t], k)
        BY <1>2 DEF Moves
      <3> QED
        BY <1>2, <1>6, <3>1, <3>2, <3>3 DEF Placed
    <2>8. \A n \in DirNames, w \in Seq(Words), k \in 1 .. MaxUploads : OnDisk(o, n, w, k)' <=> OnDisk(o, n, w, k)
      BY <1>2 DEF OnDisk
    <2> QED
      BY <1>2, <1>7, <2>1, <2>3, <2>5, <2>6, <2>7, <2>8, AloneLibrary
  <1> QED
    BY <1>8, <1>9, <1>10, <1>11, <1>12 DEF LibraryInv

LEMMA MoveRecordLibrary ==
  ASSUME LibraryInv, MediaGround', NEW t \in MediaThreads, MoveRecord(t)
  PROVE  LibraryInv'
  <1>1. MediaGround /\ ApartInv /\ NamedInv /\ DiskTypes
    BY DEF LibraryInv
  <1>2. /\ mreq[t].op = "move" /\ mreq[t].step = "record" /\ To(t, "next") /\ UNCHANGED <<dirs, folders, files, lastDir, lastPic, spoiled, mrequests>>
        /\ items' = Moved(mreq[t])
    BY DEF MoveRecord, At
  <1>3. PICK r \in MediaReq : r = mreq[t]
    BY <1>1 DEF MediaGround, CollectionTypes
  <1>4. PICK o, i : o = r.owner /\ i = r.pic
    OBVIOUS
  <1>5. i \in 1 .. MaxUploads /\ items[i].owner = o
    BY <1>1, <1>2, <1>3, <1>4, PicInHand
  <1>6. /\ items'[i].exists = items[i].exists /\ items'[i].owner = o /\ items'[i].dir = r.dir /\ items'[i].stem = items[i].stem
        /\ \A k \in 1 .. MaxUploads : k # i => items'[k] = items[k]
    <2>1. PICK it \in ItemDoc : it = items[i]
      BY <1>1, <1>5 DEF MediaGround, CollectionTypes
    <2>2. PICK jt : jt = [it EXCEPT !.dir = r.dir]
      OBVIOUS
    <2>3. items' = [items EXCEPT ![i] = jt]
      BY <1>2, <1>3, <1>4, <2>1, <2>2 DEF Moved
    <2>4. jt.exists = it.exists /\ jt.owner = it.owner /\ jt.dir = r.dir /\ jt.stem = it.stem
      BY <2>2 DEF ItemDoc
    <2> QED
      BY <1>1, <1>5, <2>1, <2>3, <2>4 DEF MediaGround, CollectionTypes
  <1>7. PICK q : q = mreq'[t]
    OBVIOUS
  <1>8. Rest(t) /\ q.op = "move" /\ q.step = "next" /\ q.owner = o /\ q.dir = r.dir /\ q.to = r.to
    BY <1>1, <1>2, <1>3, <1>4, <1>7, ToFields
  <1>9. DiskTypes'
    BY <1>1, <1>2 DEF DiskTypes
  <1>10. ApartInv'
    <2>1. StemsKept
      BY <1>5, <1>6 DEF StemsKept
    <2> QED
      BY <1>1, <1>2, <2>1, ToApart
  <1>11. NamedInv'
    BY <1>1, <1>7, <1>8, NamedKept
  <1>12. \A x \in Owners \ spoiled' : x # o => LibraryOK(x)'
    <2>1. \A x \in Owners \ {o} : DocsSame(x) /\ TreeSame(x)
      BY <1>2, <1>5, <1>6 DEF DocsSame, TreeSame
    <2> QED
      BY <1>2, <1>3, <1>4, <1>7, <1>8, <2>1, OthersLibraries
  <1>13. ASSUME o \in Owners \ spoiled' PROVE LibraryOK(o)'
    <2>1. LibraryOK(o) /\ ReqOK(o, r) /\ o \in Owners \ spoiled
      BY <1>2, <1>3, <1>4, <1>13 DEF LibraryInv, LibraryOK
    <2>2. r.dir \in OwnDirs(o) /\ dirs[r.dir].name = r.to
      BY <1>2, <1>3, <2>1 DEF ReqOK
    <2>3. Alone(t, o) /\ Alone(t, o)'
      BY <1>2, <1>3, <1>4, <1>8, <2>1, StructuralAlone DEF Structural
    <2>4. OwnDirs(o)' = OwnDirs(o) /\ DirsOK(o)'
      BY <1>2, <2>1 DEF LibraryOK, DirsOK, OwnDirs
    <2>5. ItemsOK(o)'
      <3>1. SUFFICES ASSUME NEW k \in 1 .. MaxUploads, items'[k].owner = o
                     PROVE  Plain(items'[k].stem) /\ (items'[k].exists => items'[k].dir \in OwnDirs(o)')
        BY DEF ItemsOK
      <3>2. CASE k = i
        BY <1>5, <1>6, <2>1, <2>2, <2>4, <3>2 DEF LibraryOK, ItemsOK
      <3>3. CASE k # i
        BY <1>6, <2>1, <2>4, <3>1, <3>3 DEF LibraryOK, ItemsOK
      <3> QED
        BY <3>2, <3>3
    <2>6. ASSUME NEW k \in 1 .. MaxUploads, items[k].owner = o, items[k].exists PROVE Placed(mreq[t], k)' = Placed(mreq[t], k)
      <3>1. ~Moves(mreq[t], k)'
        BY <1>7, <1>8 DEF Moves
      <3>2. Moves(mreq[t], k) <=> k = i
        BY <1>2, <1>3, <1>4, <2>6 DEF Moves
      <3>3. CASE k = i
        BY <1>2, <1>3, <1>6, <2>2, <3>1, <3>2, <3>3 DEF Placed
      <3>4. CASE k # i
        BY <1>2, <1>6, <3>1, <3>2, <3>4 DEF Placed
      <3> QED
        BY <3>3, <3>4
    <2>7. \A n \in DirNames, w \in Seq(Words), k \in 1 .. MaxUploads : OnDisk(o, n, w, k)' <=> OnDisk(o, n, w, k)
      BY <1>2 DEF OnDisk
    <2>8. \A k \in 1 .. MaxUploads : items'[k].owner = items[k].owner /\ items'[k].exists = items[k].exists /\ items'[k].stem = items[k].stem
      BY <1>5, <1>6
    <2>9. ReqOK(o, mreq[t])'
      <3>1. ReqOK(o, q)'
        BY <1>2, <1>8, <2>2, <2>4 DEF ReqOK
      <3> QED
        BY <1>7, <3>1
    <2>10. mreq'[t].op \notin {"upload", "delete"} /\ mreq[t].op \notin {"upload", "delete"}
      BY <1>2, <1>7, <1>8
    <2> QED
      BY <2>1, <2>3, <2>4, <2>5, <2>6, <2>7, <2>8, <2>9, <2>10, AloneLibrary
  <1> QED
    BY <1>9, <1>10, <1>11, <1>12, <1>13 DEF LibraryInv


\* The files `from` of folder a of o, renamed into b.
IntoFolder(from, o, a, b) ==
    /\ \A x, n, w : <<x, n, w>> \in DOMAIN files' <=>
          (x = o /\ n = b /\ <<o, a, w>> \in from) \/ (<<x, n, w>> \in DOMAIN files /\ <<x, n, w>> \notin from)
    /\ \A w : <<o, a, w>> \in from => files'[<<o, b, w>>] = files[<<o, a, w>>]
    /\ \A x, n, w : <<x, n, w>> \in DOMAIN files' /\ ~(x = o /\ n = b /\ <<o, a, w>> \in from) =>
          files'[<<x, n, w>>] = files[<<x, n, w>>]
    /\ \A p \in DOMAIN files' : p \in DOMAIN files \ from \/ \E w : p = <<o, b, w>> /\ <<o, a, w>> \in from

LEMMA RenamedFacts ==
  ASSUME NEW from, NEW o, NEW a, NEW b, from \subseteq DOMAIN files, \A p \in from : p = <<o, a, p[3]>>, files' = Renamed(from, b)
  PROVE  files' = [p \in DOMAIN files' |-> files'[p]] /\ IntoFolder(from, o, a, b)
  <1>1. PICK to : to = {<<p[1], b, p[3]>> : p \in from}
    OBVIOUS
  <1>2. files' = [q \in to \cup (DOMAIN files \ from) |-> IF q \in to THEN files[CHOOSE p \in from : p[3] = q[3]] ELSE files[q]]
    BY <1>1 DEF Renamed
  <1>3. \A x, n, w : <<x, n, w>> \in to <=> x = o /\ n = b /\ <<o, a, w>> \in from
    <2>1. ASSUME NEW x, NEW n, NEW w, <<x, n, w>> \in to PROVE x = o /\ n = b /\ <<o, a, w>> \in from
      <3>1. PICK p \in from : <<x, n, w>> = <<p[1], b, p[3]>>
        BY <1>1, <2>1
      <3>2. p = <<o, a, w>> /\ p[1] = o
        BY <3>1
      <3> QED
        BY <3>1, <3>2
    <2>2. ASSUME NEW w, <<o, a, w>> \in from PROVE <<o, b, w>> \in to
      <3>1. PICK p \in from : p = <<o, a, w>>
        BY <2>2
      <3>2. <<p[1], b, p[3]>> \in to
        BY <1>1
      <3> QED
        BY <3>1, <3>2
    <2> QED
      BY <2>1, <2>2
  <1>4. ASSUME NEW w, <<o, a, w>> \in from PROVE files'[<<o, b, w>>] = files[<<o, a, w>>]
    <2>1. PICK q : q = <<o, b, w>>
      OBVIOUS
    <2>2. q \in to /\ q[3] = w
      BY <1>3, <1>4, <2>1
    <2>3. PICK c : c = (CHOOSE p \in from : p[3] = q[3])
      OBVIOUS
    <2>4. c \in from /\ c[3] = w
      <3>1. \E p \in from : p[3] = q[3]
        BY <1>4, <2>2
      <3> QED
        BY <2>2, <2>3, <3>1
    <2>5. c = <<o, a, w>>
      BY <2>4
    <2> QED
      BY <1>2, <2>1, <2>2, <2>3, <2>5
  <1>5. ASSUME NEW p \in DOMAIN files' PROVE p \in DOMAIN files \ from \/ \E w : p = <<o, b, w>> /\ <<o, a, w>> \in from
    <2>1. p \in to \/ p \in DOMAIN files \ from
      BY <1>2
    <2>2. ASSUME p \in to PROVE \E w : p = <<o, b, w>> /\ <<o, a, w>> \in from
      <3>1. PICK e \in from : p = <<e[1], b, e[3]>>
        BY <1>1, <2>2
      <3>2. e = <<o, a, e[3]>> /\ e[1] = o
        <4>1. e = <<o, a, e[3]>>
          OBVIOUS
        <4> QED
          BY <4>1
      <3>3. p = <<o, b, e[3]>> /\ <<o, a, e[3]>> \in from
        BY <3>1, <3>2
      <3> QED
        BY <3>3
    <2> QED
      BY <2>1, <2>2
  <1>6. files' = [p \in DOMAIN files' |-> files'[p]] /\ DOMAIN files' = to \cup (DOMAIN files \ from)
        /\ \A p \in DOMAIN files' : p \notin to => files'[p] = files[p]
    BY <1>2
  <1>7. \A x, n, w : <<x, n, w>> \in DOMAIN files' /\ ~(x = o /\ n = b /\ <<o, a, w>> \in from) => files'[<<x, n, w>>] = files[<<x, n, w>>]
    BY <1>3, <1>6
  <1>8. \A x, n, w : <<x, n, w>> \in DOMAIN files' <=>
          (x = o /\ n = b /\ <<o, a, w>> \in from) \/ (<<x, n, w>> \in DOMAIN files /\ <<x, n, w>> \notin from)
    BY <1>3, <1>6
  <1> QED
    BY <1>4, <1>5, <1>6, <1>7, <1>8 DEF IntoFolder

TreesSame(o) == \A x \in Owners \ {o} : TreeSame(x)
FoundIn(from, o, a, b) ==
    \A n, w, k : OnDisk(o, n, w, k)' <=> IF n = b /\ <<o, a, w>> \in from THEN OnDisk(o, a, w, k)
                                         ELSE OnDisk(o, n, w, k) /\ <<o, n, w>> \notin from

LEMMA RenamedDisk ==
  ASSUME DiskTypes, NEW from, NEW o \in Owners, NEW a, NEW b \in DirNames, from \subseteq DOMAIN files, \A p \in from : p = <<o, a, p[3]>>,
         files' = Renamed(from, b), folders' \subseteq Owners \X DirNames, <<o, b>> \in folders', lastPic' = lastPic,
         \A p \in DOMAIN files \ from : <<p[1], p[2]>> \in folders'
  PROVE  DiskTypes' /\ TreesSame(o) /\ FoundIn(from, o, a, b)
  <1>1. files' = [p \in DOMAIN files' |-> files'[p]] /\ IntoFolder(from, o, a, b)
    BY RenamedFacts
  <1>11. \A x, n, w : <<x, n, w>> \in DOMAIN files' <=>
               (x = o /\ n = b /\ <<o, a, w>> \in from) \/ (<<x, n, w>> \in DOMAIN files /\ <<x, n, w>> \notin from)
    BY <1>1 DEF IntoFolder
  <1>12. \A w : <<o, a, w>> \in from => files'[<<o, b, w>>] = files[<<o, a, w>>]
    BY <1>1 DEF IntoFolder
  <1>13. \A x, n, w : <<x, n, w>> \in DOMAIN files' /\ ~(x = o /\ n = b /\ <<o, a, w>> \in from) =>
               files'[<<x, n, w>>] = files[<<x, n, w>>]
    BY <1>1 DEF IntoFolder
  <1>14. \A p \in DOMAIN files' : p \in DOMAIN files \ from \/ \E w : p = <<o, b, w>> /\ <<o, a, w>> \in from
    BY <1>1 DEF IntoFolder
  <1>2. ASSUME NEW p \in DOMAIN files' PROVE p \in MediaPaths /\ files'[p] \in 1 .. lastPic /\ <<p[1], p[2]>> \in folders'
    <2>1. ASSUME NEW w, p = <<o, b, w>>, <<o, a, w>> \in from PROVE p \in MediaPaths /\ files'[p] \in 1 .. lastPic /\ <<p[1], p[2]>> \in folders'
      <3>1. <<o, a, w>> \in MediaPaths /\ files[<<o, a, w>>] \in 1 .. lastPic
        BY <2>1 DEF DiskTypes
      <3>2. w \in Seq(Words)
        BY <3>1 DEF MediaPaths
      <3>3. p \in MediaPaths /\ p[1] = o /\ p[2] = b
        BY <2>1, <3>2 DEF MediaPaths
      <3> QED
        BY <1>12, <2>1, <3>1, <3>3
    <2>2. CASE p \in DOMAIN files \ from /\ ~\E w : p = <<o, b, w>> /\ <<o, a, w>> \in from
      <3>1. p \in MediaPaths /\ files[p] \in 1 .. lastPic
        BY <2>2 DEF DiskTypes
      <3>2. PICK x, n, w : p = <<x, n, w>>
        BY <3>1 DEF MediaPaths
      <3>3. files'[p] = files[p]
        BY <1>13, <2>2, <3>2
      <3> QED
        BY <2>2, <3>1, <3>3
    <2> QED
      BY <1>14, <2>1, <2>2
  <1>3. DiskTypes'
    BY <1>1, <1>2, DiskWritten
  <1>4. ASSUME NEW x \in Owners \ {o} PROVE TreeSame(x)
    <2>1. \A n, w : <<x, n, w>> \notin from
      <3>1. ASSUME NEW n, NEW w, <<x, n, w>> \in from PROVE FALSE
        <4>1. PICK p : p = <<x, n, w>>
          OBVIOUS
        <4>2. p = <<o, a, p[3]>>
          BY <3>1, <4>1
        <4> QED
          BY <4>1, <4>2
      <3> QED
        BY <3>1
    <2>2. ASSUME NEW n, NEW w PROVE <<x, n, w>> \in DOMAIN files' <=> <<x, n, w>> \in DOMAIN files
      BY <1>11, <2>1
    <2>3. ASSUME NEW n, NEW w, <<x, n, w>> \in DOMAIN files PROVE files'[<<x, n, w>>] = files[<<x, n, w>>]
      <3>1. <<x, n, w>> \in DOMAIN files' /\ x # o
        BY <2>2, <2>3
      <3>2. ~(x = o /\ n = b /\ <<o, a, w>> \in from)
        BY <3>1
      <3> QED
        BY <1>13, <3>1, <3>2
    <2> QED
      BY <2>2, <2>3 DEF TreeSame
  <1>5. ASSUME NEW n, NEW w, NEW k
        PROVE  OnDisk(o, n, w, k)' <=> IF n = b /\ <<o, a, w>> \in from THEN OnDisk(o, a, w, k)
                                       ELSE OnDisk(o, n, w, k) /\ <<o, n, w>> \notin from
    <2>1. CASE n = b /\ <<o, a, w>> \in from
      <3>1. <<o, n, w>> \in DOMAIN files' /\ files'[<<o, n, w>>] = files[<<o, a, w>>] /\ <<o, a, w>> \in DOMAIN files
        BY <1>11, <1>12, <2>1
      <3> QED
        BY <2>1, <3>1 DEF OnDisk
    <2>2. CASE ~(n = b /\ <<o, a, w>> \in from)
      <3>1. <<o, n, w>> \in DOMAIN files' <=> <<o, n, w>> \in DOMAIN files /\ <<o, n, w>> \notin from
        BY <1>11, <2>2
      <3>2. <<o, n, w>> \in DOMAIN files' => files'[<<o, n, w>>] = files[<<o, n, w>>]
        BY <1>13, <2>2
      <3> QED
        BY <2>2, <3>1, <3>2 DEF OnDisk
    <2> QED
      BY <2>1, <2>2
  <1> QED
    BY <1>3, <1>4, <1>5 DEF TreesSame, FoundIn

\* Record k is of a picture of o with a variant named w.
Shows(o, w, k) == items[k].owner = o /\ items[k].exists /\ w \in VariantsOf(items[k].stem)

LEMMA RenameFolderLibrary ==
  ASSUME LibraryInv, MediaGround', NEW t \in MediaThreads, RenameFolder(t)
  PROVE  LibraryInv'
  <1>1. MediaGround /\ ApartInv /\ NamedInv /\ DiskTypes
    BY DEF LibraryInv
  <1>2. mreq[t].op = "rename" /\ mreq[t].step = "disk" /\ UNCHANGED <<dirs, items, lastDir, lastPic, spoiled, mrequests>>
    BY DEF RenameFolder, At
  <1>3. PICK r \in MediaReq : r = mreq[t]
    BY <1>1 DEF MediaGround, CollectionTypes
  <1>4. PICK o, n0, n1, d : o = r.owner /\ n0 = r.name /\ n1 = r.to /\ d = r.dir
    OBVIOUS
  <1>5. o \in Owners /\ n0 \in DirNames /\ n1 \in DirNames
    BY <1>1, <1>2, <1>3, <1>4, AtReq DEF MediaReq
  <1>6. ASSUME To(t, "record"), DiskTypes', \A x \in Owners \ {o} : TreeSame(x),
               \A n \in DirNames, w \in Seq(Words), k \in 1 .. MaxUploads :
                  OnDisk(o, n, w, k)' <=> IF n = n1 THEN OnDisk(o, n0, w, k) ELSE n # n0 /\ OnDisk(o, n, w, k)
        PROVE  LibraryInv'
    <2>1. PICK q : q = mreq'[t]
      OBVIOUS
    <2>2. Rest(t) /\ q.op = "rename" /\ q.step = "record" /\ q.owner = o /\ q.dir = d /\ q.name = n0 /\ q.to = n1
      BY <1>1, <1>2, <1>3, <1>4, <1>6, <2>1, ToFields
    <2>3. ApartInv'
      BY <1>1, <1>2, <1>6, ToApart DEF StemsKept
    <2>4. NamedInv'
      BY <1>1, <2>1, <2>2, NamedKept
    <2>5. \A x \in Owners \ spoiled' : x # o => LibraryOK(x)'
      <3>1. \A x \in Owners \ {o} : DocsSame(x) /\ TreeSame(x)
        BY <1>2, <1>6 DEF DocsSame
      <3> QED
        BY <1>2, <1>3, <1>4, <2>1, <2>2, <3>1, OthersLibraries
    <2>6. ASSUME o \in Owners \ spoiled' PROVE LibraryOK(o)'
      <3>1. LibraryOK(o) /\ ReqOK(o, r) /\ o \in Owners \ spoiled
        BY <1>2, <1>3, <1>4, <2>6 DEF LibraryInv, LibraryOK
      <3>2. d \in OwnDirs(o) /\ dirs[d].name = n0 /\ \A e \in OwnDirs(o) : dirs[e].name = n1 => e = d
        BY <1>2, <1>3, <1>4, <3>1 DEF ReqOK
      <3>3. Alone(t, o) /\ Alone(t, o)'
        BY <1>2, <1>3, <1>4, <2>2, <3>1, StructuralAlone DEF Structural
      <3>4. ASSUME NEW k \in 1 .. MaxUploads, items[k].owner = o, items[k].exists
            PROVE  /\ items[k].dir \in OwnDirs(o) /\ Placed(mreq[t], k) = dirs[items[k].dir].name
                   /\ Placed(mreq[t], k)' = IF items[k].dir = d THEN n1 ELSE dirs[items[k].dir].name
        <4>1. ~Moves(mreq[t], k)
          BY <1>2 DEF Moves
        <4>2. Moves(q, k)' <=> items[k].dir = d
          BY <1>2, <2>2, <3>4 DEF Moves
        <4>3. Placed(q, k)' = IF items[k].dir = d THEN n1 ELSE dirs[items[k].dir].name
          BY <1>2, <2>2, <4>2 DEF Placed
        <4> QED
          BY <2>1, <3>1, <3>4, <4>1, <4>3 DEF Placed, LibraryOK, ItemsOK
      <3>5. ASSUME NEW n \in DirNames, NEW w \in Seq(Words), NEW k \in 1 .. MaxUploads
            PROVE  OnDisk(o, n, w, k)' <=> Shelf(o, n, w, k)'
        <4>1. mreq[t].op \notin {"upload", "delete"} /\ mreq'[t].op \notin {"upload", "delete"}
          BY <1>2, <2>1, <2>2
        <4>2. ASSUME NEW m PROVE Shelf(o, m, w, k) <=> Shows(o, w, k) /\ m = Placed(mreq[t], k)
          BY <3>3, <4>1, AloneShelf DEF Shows
        <4>3. Shelf(o, n, w, k)' <=> Shows(o, w, k) /\ n = Placed(mreq[t], k)'
          BY <1>2, <3>3, <4>1, AloneShelfNext DEF Shows
        <4>4. \A m \in DirNames : OnDisk(o, m, w, k) <=> Shelf(o, m, w, k)
          BY <3>1 DEF LibraryOK, Shelved
        <4>5. CASE ~Shows(o, w, k)
          BY <1>5, <1>6, <4>2, <4>3, <4>4, <4>5
        <4>6. CASE Shows(o, w, k)
          <5>1. /\ items[k].dir \in OwnDirs(o) /\ Placed(mreq[t], k) = dirs[items[k].dir].name
                /\ Placed(mreq[t], k)' = IF items[k].dir = d THEN n1 ELSE dirs[items[k].dir].name
            BY <3>4, <4>6 DEF Shows
          <5>2. items[k].dir # d => dirs[items[k].dir].name # n0 /\ dirs[items[k].dir].name # n1
            BY <3>1, <3>2, <5>1 DEF LibraryOK, DirsOK
          <5> QED
            BY <1>5, <1>6, <3>2, <4>2, <4>3, <4>4, <4>6, <5>1, <5>2
        <4> QED
          BY <4>5, <4>6
      <3>6. Shelved(o)'
        BY <3>5 DEF Shelved
      <3>7. OwnDirs(o)' = OwnDirs(o) /\ DirsOK(o)' /\ ItemsOK(o)'
        BY <1>2, <3>1 DEF LibraryOK, DirsOK, ItemsOK, OwnDirs
      <3>8. ReqOK(o, mreq[t])'
        <4>1. ReqOK(o, q)'
          BY <1>2, <2>2, <3>2, <3>7 DEF ReqOK
        <4> QED
          BY <2>1, <4>1
      <3>9. \A p \in MediaThreads : mreq'[p].owner = o => ReqOK(o, mreq[p])'
        BY <3>3, <3>8 DEF Alone
      <3> QED
        BY <3>6, <3>7, <3>9 DEF LibraryOK
    <2> QED
      BY <1>6, <2>3, <2>4, <2>5, <2>6 DEF LibraryInv
  <1>7. CASE n0 = n1 /\ To(t, "record") /\ UNCHANGED <<folders, files>>
    <2>1. DiskTypes' /\ \A x : TreeSame(x)
      BY <1>1, <1>2, <1>7 DEF DiskTypes, TreeSame
    <2>2. \A n, w, k : OnDisk(o, n, w, k)' <=> IF n = n1 THEN OnDisk(o, n0, w, k) ELSE n # n0 /\ OnDisk(o, n, w, k)
      BY <1>7 DEF OnDisk
    <2> QED
      BY <1>6, <1>7, <2>1, <2>2
  <1>8. CASE Done(t) /\ UNCHANGED <<folders, files>>
    <2>1. DiskTypes'
      BY <1>1, <1>2, <1>8 DEF DiskTypes
    <2>2. Quiet(mreq[t])
      BY <1>2 DEF Quiet, Settling
    <2> QED
      BY <1>2, <1>8, <2>1, <2>2, DoneLibrary
  <1>9. ASSUME NEW x, NEW n, NEW w, <<x, n, w>> \in DOMAIN files PROVE <<x, n>> \in folders
    <2>1. PICK p : p = <<x, n, w>>
      OBVIOUS
    <2>2. <<p[1], p[2]>> \in folders
      BY <1>1, <1>9, <2>1 DEF DiskTypes
    <2> QED
      BY <2>1, <2>2
  <1>10. CASE n0 # n1 /\ <<o, n1>> \notin folders /\ To(t, "record") /\ <<o, n0>> \notin folders /\ UNCHANGED <<folders, files>>
    <2>1. DiskTypes' /\ \A x : TreeSame(x)
      BY <1>1, <1>2, <1>10 DEF DiskTypes, TreeSame
    <2>2. \A n, w, k : OnDisk(o, n, w, k)' <=> IF n = n1 THEN OnDisk(o, n0, w, k) ELSE n # n0 /\ OnDisk(o, n, w, k)
      BY <1>9, <1>10 DEF OnDisk
    <2> QED
      BY <1>6, <1>10, <2>1, <2>2
  <1>11. CASE /\ n0 # n1 /\ <<o, n1>> \notin folders /\ To(t, "record")
              /\ folders' = (folders \ {<<o, n0>>}) \cup {<<o, n1>>} /\ files' = Renamed(Inside(o, n0), n1)
    <2>1. PICK from : from = Inside(o, n0)
      OBVIOUS
    <2>2. from \subseteq DOMAIN files /\ \A n, w : <<o, n, w>> \in from <=> n = n0 /\ <<o, n, w>> \in DOMAIN files
      BY <2>1 DEF Inside
    <2>3. ASSUME NEW p \in from PROVE p = <<o, n0, p[3]>>
      <3>1. p \in MediaPaths /\ p[1] = o /\ p[2] = n0
        BY <1>1, <2>1 DEF Inside, DiskTypes
      <3> QED
        BY <3>1 DEF MediaPaths
    <2>4. ASSUME NEW p \in DOMAIN files \ from PROVE <<p[1], p[2]>> \in folders'
      <3>1. <<p[1], p[2]>> \in folders /\ ~(p[1] = o /\ p[2] = n0)
        BY <1>1, <2>1 DEF DiskTypes, Inside
      <3> QED
        BY <1>11, <3>1
    <2>5. folders' \subseteq Owners \X DirNames /\ <<o, n1>> \in folders'
      BY <1>1, <1>5, <1>11 DEF DiskTypes
    <2>6. DiskTypes' /\ TreesSame(o) /\ FoundIn(from, o, n0, n1)
      BY <1>1, <1>2, <1>5, <1>11, <2>1, <2>2, <2>3, <2>4, <2>5, RenamedDisk
    <2>7. ASSUME NEW n, NEW w, NEW k PROVE OnDisk(o, n, w, k)' <=> IF n = n1 THEN OnDisk(o, n0, w, k) ELSE n # n0 /\ OnDisk(o, n, w, k)
      <3>1. ~OnDisk(o, n1, w, k)
        BY <1>9, <1>11 DEF OnDisk
      <3>2. \A m : <<o, m, w>> \in from => m = n0
        BY <2>2
      <3>3. OnDisk(o, n0, w, k) => <<o, n0, w>> \in from
        BY <2>2 DEF OnDisk
      <3> QED
        BY <1>11, <2>6, <3>1, <3>2, <3>3 DEF FoundIn
    <2> QED
      BY <1>6, <1>11, <2>6, <2>7 DEF TreesSame
  <1> QED
    BY <1>3, <1>4, <1>7, <1>8, <1>10, <1>11 DEF RenameFolder


LEMMA MoveFilesLibrary ==
  ASSUME LibraryInv, MediaGround', NEW t \in MediaThreads, MoveFiles(t)
  PROVE  LibraryInv'
  <1>1. MediaGround /\ ApartInv /\ NamedInv /\ DiskTypes
    BY DEF LibraryInv
  <1>2. mreq[t].op = "move" /\ mreq[t].step = "disk" /\ To(t, "record") /\ UNCHANGED <<dirs, items, lastDir, lastPic, mrequests>>
    BY DEF MoveFiles, At
  <1>3. PICK r \in MediaReq : r = mreq[t]
    BY <1>1 DEF MediaGround, CollectionTypes
  <1>4. PICK o, n0, n1, s0, i : o = r.owner /\ n0 = r.name /\ n1 = r.to /\ s0 = r.stem /\ i = r.pic
    OBVIOUS
  <1>5. o \in Owners /\ n0 \in DirNames /\ n1 \in DirNames
    BY <1>1, <1>2, <1>3, <1>4, AtReq DEF MediaReq
  <1>6. PICK from : from = In(o, n0, NamesOf(s0))
    OBVIOUS
  <1>7. /\ folders' = folders \cup {<<o, n1>>}
        /\ files' = IF n0 = n1 THEN files ELSE Renamed(from, n1)
        /\ spoiled' = IF n0 # n1 /\ In(o, n1, NamesOf(s0)) # {} THEN spoiled \cup {o} ELSE spoiled
    BY <1>3, <1>4, <1>6 DEF MoveFiles
  <1>8. spoiled \subseteq spoiled' /\ folders' \subseteq Owners \X DirNames /\ <<o, n1>> \in folders' /\ folders \subseteq folders'
    BY <1>1, <1>5, <1>7 DEF DiskTypes
  <1>9. from \subseteq DOMAIN files /\ \A n, w : <<o, n, w>> \in from <=> n = n0 /\ w \in NamesOf(s0) /\ <<o, n, w>> \in DOMAIN files
    BY <1>6 DEF In
  <1>10. ASSUME NEW p \in from PROVE p = <<o, n0, p[3]>>
    <2>1. PICK s : p = <<o, n0, s>>
      BY <1>6 DEF In
    <2>2. p[3] = s
      BY <2>1
    <2> QED
      BY <2>1, <2>2
  <1>11. \A p \in DOMAIN files : <<p[1], p[2]>> \in folders'
    BY <1>1, <1>8 DEF DiskTypes
  <1>12. ASSUME n0 # n1
         PROVE  DiskTypes' /\ TreesSame(o) /\ FoundIn(from, o, n0, n1)
    <2>1. files' = Renamed(from, n1)
      BY <1>7, <1>12
    <2>2. \A p \in DOMAIN files \ from : <<p[1], p[2]>> \in folders'
      BY <1>11
    <2>3. from \subseteq DOMAIN files /\ lastPic' = lastPic
      BY <1>2, <1>9
    <2>4. \A p \in from : p = <<o, n0, p[3]>>
      BY <1>10
    <2> QED
      BY <1>1, <1>5, <1>8, <2>1, <2>2, <2>3, <2>4, RenamedDisk
  <1>13. DiskTypes' /\ \A x \in Owners \ {o} : TreeSame(x)
    <2>1. CASE n0 = n1
      <3>1. files' = files
        BY <1>7, <2>1
      <3>2. lastPic \in Nat /\ lastPic' \in Nat /\ lastPic <= lastPic'
        BY <1>1, <1>2 DEF MediaGround, CollectionTypes
      <3>3. DiskTypes'
        BY <1>1, <1>8, <3>1, <3>2, FoldersAdded
      <3> QED
        BY <3>1, <3>3 DEF TreeSame
    <2> QED
      BY <1>12, <2>1 DEF TreesSame
  <1>14. PICK q : q = mreq'[t]
    OBVIOUS
  <1>15. /\ Rest(t) /\ q.op = "move" /\ q.step = "record" /\ q.owner = o /\ q.dir = r.dir /\ q.to = n1 /\ q.pic = i
    BY <1>1, <1>2, <1>3, <1>4, <1>14, ToFields
  <1>16. ApartInv'
    BY <1>1, <1>2, <1>8, ToApart DEF StemsKept
  <1>17. NamedInv'
    BY <1>1, <1>14, <1>15, NamedKept
  <1>18. \A x \in Owners \ spoiled' : x # o => LibraryOK(x)'
    <2>1. \A x \in Owners \ {o} : DocsSame(x) /\ TreeSame(x)
      BY <1>2, <1>13 DEF DocsSame
    <2> QED
      BY <1>3, <1>4, <1>8, <1>14, <1>15, <2>1, OthersLibraries
  <1>19. ASSUME o \in Owners \ spoiled' PROVE LibraryOK(o)'
    <2>1. LibraryOK(o) /\ ReqOK(o, r) /\ o \in Owners \ spoiled
      BY <1>3, <1>4, <1>8, <1>19 DEF LibraryInv, LibraryOK
    <2>2. r.dir \in OwnDirs(o) /\ dirs[r.dir].name = n1
      BY <1>2, <1>3, <1>4, <2>1 DEF ReqOK
    <2>3. Alone(t, o) /\ Alone(t, o)'
      BY <1>2, <1>3, <1>4, <1>15, <2>1, StructuralAlone DEF Structural
    <2>4. mreq[t].owner = o /\ mreq[t].op \in {"delete", "move"} /\ mreq[t].step = "disk" /\ mreq[t].pic = i /\ mreq[t].stem = s0 /\ mreq[t].name = n0
      BY <1>2, <1>3, <1>4
    <2>5. i \in 1 .. MaxUploads /\ items[i].owner = o /\ items[i].exists /\ s0 = items[i].stem
      BY <2>1, <2>4, FilesInHand
    <2>6. \A w \in Seq(Words), k \in 1 .. MaxUploads : OnDisk(o, n0, w, k) /\ w \in NamesOf(s0) => k = i
      BY <2>1, <2>4, FilesInHand
    <2>7. dirs[items[i].dir].name = n0
      BY <1>2, <1>3, <1>4, <2>1 DEF ReqOK, ItemAt
    <2>8. s0 \in Seq(Words) /\ Plain(s0) /\ s0 # <<>>
      BY <2>1, <2>4, FilesInHand
    <2>9. ASSUME NEW k \in 1 .. MaxUploads, items[k].owner = o
          PROVE  Placed(mreq[t], k) = dirs[items[k].dir].name /\ Placed(mreq[t], k)' = IF k = i THEN n1 ELSE dirs[items[k].dir].name
      <3>1. ~Moves(mreq[t], k)
        BY <1>2 DEF Moves
      <3>2. Moves(q, k)' <=> k = i
        BY <1>2, <1>15, <2>9 DEF Moves
      <3>3. Placed(q, k)' = IF k = i THEN n1 ELSE dirs[items[k].dir].name
        BY <1>2, <1>15, <3>2 DEF Placed
      <3> QED
        BY <1>14, <3>1, <3>3 DEF Placed
    <2>10. ASSUME NEW n \in DirNames, NEW w \in Seq(Words), NEW k \in 1 .. MaxUploads
           PROVE  OnDisk(o, n, w, k)' <=> Shelf(o, n, w, k)'
      <3>1. mreq[t].op \notin {"upload", "delete"} /\ mreq'[t].op \notin {"upload", "delete"}
        BY <1>2, <1>14, <1>15
      <3>2. ASSUME NEW m, NEW j \in 1 .. MaxUploads PROVE Shelf(o, m, w, j) <=> Shows(o, w, j) /\ m = dirs[items[j].dir].name
        <4>1. Shelf(o, m, w, j) <=> Shows(o, w, j) /\ m = Placed(mreq[t], j)
          BY <2>3, <3>1, AloneShelf DEF Shows
        <4> QED
          BY <2>9, <4>1 DEF Shows
      <3>3. Shelf(o, n, w, k)' <=> Shows(o, w, k) /\ n = IF k = i THEN n1 ELSE dirs[items[k].dir].name
        <4>1. Shelf(o, n, w, k)' <=> Shows(o, w, k) /\ n = Placed(mreq[t], k)'
          BY <1>2, <2>3, <3>1, AloneShelfNext DEF Shows
        <4> QED
          BY <2>9, <4>1 DEF Shows
      <3>4. \A m \in DirNames, j \in 1 .. MaxUploads : OnDisk(o, m, w, j) <=> Shelf(o, m, w, j)
        BY <2>1 DEF LibraryOK, Shelved
      <3>5. Shows(o, w, i) <=> w \in VariantsOf(s0)
        BY <2>5 DEF Shows
      <3>6. w \in VariantsOf(s0) => w \in NamesOf(s0)
        BY DEF NamesOf
      <3>7. CASE n0 = n1
        <4>1. OnDisk(o, n, w, k)' <=> OnDisk(o, n, w, k)
          BY <1>7, <3>7 DEF OnDisk
        <4> QED
          BY <2>5, <2>7, <3>2, <3>3, <3>4, <3>7, <4>1
      <3>8. CASE n0 # n1
        <4>1. w \in NamesOf(s0) => ~OnDisk(o, n1, w, k)
          <5>1. In(o, n1, NamesOf(s0)) = {}
            <6>1. o \notin spoiled'
              BY <1>19
            <6> QED
              BY <1>7, <3>8, <6>1
          <5> QED
            BY <5>1 DEF In, OnDisk
        <4>2. \A m : <<o, m, w>> \in from <=> m = n0 /\ w \in NamesOf(s0) /\ <<o, m, w>> \in DOMAIN files
          BY <1>9
        <4>3. OnDisk(o, n, w, k)' <=> IF n = n1 /\ <<o, n0, w>> \in from THEN OnDisk(o, n0, w, k)
                                      ELSE OnDisk(o, n, w, k) /\ <<o, n, w>> \notin from
          BY <1>12, <3>8 DEF FoundIn
        <4>4. OnDisk(o, n0, w, k) => <<o, n0, w>> \in DOMAIN files
          BY DEF OnDisk
        <4>5. OnDisk(o, n, w, k)' <=> \/ n = n1 /\ w \in NamesOf(s0) /\ OnDisk(o, n0, w, k)
                                      \/ OnDisk(o, n, w, k) /\ ~(n = n0 /\ w \in NamesOf(s0))
          BY <3>8, <4>1, <4>2, <4>3, <4>4 DEF OnDisk
        <4>6. CASE k = i
          BY <1>5, <2>5, <2>7, <3>2, <3>3, <3>4, <3>5, <3>6, <3>8, <4>5, <4>6
        <4>7. CASE k # i
          <5>1. ~(w \in NamesOf(s0) /\ OnDisk(o, n0, w, k))
            BY <2>6, <4>7
          <5> QED
            BY <3>2, <3>3, <3>4, <4>5, <4>7, <5>1
        <4> QED
          BY <4>6, <4>7
      <3> QED
        BY <3>7, <3>8
    <2>11. Shelved(o)'
      BY <2>10 DEF Shelved
    <2>12. OwnDirs(o)' = OwnDirs(o) /\ DirsOK(o)' /\ ItemsOK(o)'
      BY <1>2, <2>1 DEF LibraryOK, DirsOK, ItemsOK, OwnDirs
    <2>13. ReqOK(o, mreq[t])'
      <3>1. ReqOK(o, q)'
        BY <1>2, <1>15, <2>2, <2>5, <2>12 DEF ReqOK
      <3> QED
        BY <1>14, <3>1
    <2>14. \A p \in MediaThreads : mreq'[p].owner = o => ReqOK(o, mreq[p])'
      BY <2>3, <2>13 DEF Alone
    <2> QED
      BY <2>11, <2>12, <2>14 DEF LibraryOK
  <1> QED
    BY <1>13, <1>16, <1>17, <1>18, <1>19 DEF LibraryInv

LEMMA InsertDirLibrary ==
  ASSUME LibraryInv, MediaGround', NEW t \in MediaThreads, InsertDir(t)
  PROVE  LibraryInv'
  <1>1. MediaGround /\ ApartInv /\ NamedInv /\ DiskTypes
    BY DEF LibraryInv
  <1>2. /\ mreq[t].op \in {"create", "upload"} /\ mreq[t].step = "record" /\ UNCHANGED <<items, folders, files, lastPic, spoiled, mrequests>>
        /\ lastDir < MaxDirs /\ lastDir' = lastDir + 1
    BY DEF InsertDir, At
  <1>3. PICK r \in MediaReq : r = mreq[t]
    BY <1>1 DEF MediaGround, CollectionTypes
  <1>4. PICK o, n0, d : o = r.owner /\ n0 = r.name /\ d = lastDir'
    OBVIOUS
  <1>5. o \in Owners /\ n0 \in DirNames /\ d \in 1 .. MaxDirs /\ d = lastDir + 1
    <2>1. o \in Owners /\ n0 \in DirNames
      BY <1>1, <1>2, <1>3, <1>4, AtReq DEF MediaReq
    <2>2. lastDir \in Nat /\ MaxDirs \in Nat
      BY <1>1, MediaBounds DEF MediaGround
    <2> QED
      BY <1>2, <1>4, <2>1, <2>2
  <1>6. /\ dirs'[d].exists /\ dirs'[d].owner = o /\ dirs'[d].name = n0
        /\ \A e \in 1 .. MaxDirs : e # d => dirs'[e] = dirs[e]
    <2>1. dirs' = [dirs EXCEPT ![d] = [exists |-> TRUE, owner |-> o, name |-> n0]]
      BY <1>3, <1>4 DEF InsertDir
    <2> QED
      BY <1>1, <1>5, <2>1 DEF MediaGround, CollectionTypes
  <1>7. dirs[d].owner = "nobody" /\ ~dirs[d].exists /\ "nobody" \notin Owners
    <2>1. ~(d <= lastDir)
      BY <1>1, <1>5, MediaBounds DEF MediaGround
    <2>2. dirs[d] = NoDir
      BY <1>1, <1>5, <2>1 DEF MediaGround, DocsInv
    <2> QED
      BY <1>1, <2>2, NobodyElse DEF NoDir
  <1>8. DiskTypes'
    BY <1>1, <1>2 DEF DiskTypes
  <1>9. PICK q : q = mreq'[t]
    OBVIOUS
  <1>10. /\ Rest(t)
         /\ \/ r.op = "create" /\ q = NoRequest /\ Done(t)
            \/ /\ r.op = "upload" /\ q.op = "upload" /\ q.step = "name" /\ q.owner = o /\ q.dir = d /\ q.name = n0
               /\ q.stem = r.stem /\ q.ids = r.ids
    <2>1. CASE r.op = "create"
      <3>1. Done(t)
        BY <1>3, <2>1 DEF InsertDir
      <3> QED
        BY <1>1, <1>9, <2>1, <3>1, DoneFields
    <2>2. CASE r.op = "upload"
      <3>1. PICK a : a = [r EXCEPT !.step = "name", !.dir = d]
        OBVIOUS
      <3>2. mreq' = [mreq EXCEPT ![t] = a]
        BY <1>3, <1>4, <2>2, <3>1 DEF InsertDir
      <3>3. Rest(t) /\ q = a
        BY <1>1, <1>9, <3>2 DEF MediaGround, CollectionTypes, Rest
      <3>4. a.op = r.op /\ a.step = "name" /\ a.owner = o /\ a.dir = d /\ a.name = n0 /\ a.stem = r.stem /\ a.ids = r.ids
        BY <1>4, <3>1 DEF MediaReq
      <3> QED
        BY <2>2, <3>3, <3>4
    <2> QED
      BY <1>2, <1>3, <2>1, <2>2
  <1>11. NoRequest.op = "none" /\ NoRequest.owner = "nobody" /\ NoRequest.step = "none"
    BY <1>1, NobodyElse
  <1>12. ApartInv'
    <2>1. CASE r.op = "create"
      <3>1. Done(t)
        BY <1>10, <2>1
      <3> QED
        BY <1>1, <1>2, <3>1, DoneApart DEF StemsKept
    <2>2. CASE r.op = "upload"
      <3>1. OwnersOf(q)' = OwnersOf(r) /\ Heads(q)' = Heads(r)
        BY <1>2, <1>4, <1>10, <2>2 DEF OwnersOf, Heads
      <3>2. ~Structural(q) /\ ~Defaulting(q)
        BY <1>10, <2>2 DEF Structural, Defaulting
      <3> QED
        BY <1>1, <1>2, <1>3, <1>9, <1>10, <3>1, <3>2, ApartKept
    <2> QED
      BY <1>2, <1>3, <2>1, <2>2
  <1>13. NamedInv'
    BY <1>1, <1>3, <1>9, <1>10, <1>11, NamedKept DEF NamedInv
  <1>14. \A x \in Owners \ spoiled' : x # o => LibraryOK(x)'
    <2>1. ASSUME NEW x \in Owners \ {o} PROVE DocsSame(x) /\ TreeSame(x)
      <3>1. x # "nobody" /\ x # o
        BY <1>7
      <3> QED
        BY <1>2, <1>6, <1>7, <3>1 DEF DocsSame, TreeSame
    <2>2. q.owner \in {o, "nobody"}
      BY <1>10, <1>11
    <2> QED
      BY <1>2, <1>3, <1>4, <1>9, <1>10, <2>1, <2>2, OthersLibraries
  <1>15. ASSUME o \in Owners \ spoiled' PROVE LibraryOK(o)'
    <2>1. LibraryOK(o) /\ ReqOK(o, r) /\ o \in Owners \ spoiled
      BY <1>2, <1>3, <1>4, <1>15 DEF LibraryInv, LibraryOK
    <2>2. NameFree(o, n0)
      BY <1>2, <1>3, <1>4, <2>1 DEF ReqOK, UploadOK
    <2>3. OwnDirs(o)' = OwnDirs(o) \cup {d} /\ d \notin OwnDirs(o) /\ \A e \in OwnDirs(o) : dirs'[e] = dirs[e]
      BY <1>5, <1>6, <1>7 DEF OwnDirs
    <2>4. ASSUME NEW k \in 1 .. MaxUploads, items[k].owner = o PROVE dirs'[items[k].dir] = dirs[items[k].dir]
      <3>1. items[k].dir \in 1 .. lastDir /\ items[k].dir \in 1 .. MaxDirs
        <4>1. items[k].owner # "nobody"
          BY <1>7, <2>1, <2>4
        <4> QED
          BY <1>1, <4>1, MediaBounds DEF MediaGround, DocsInv
      <3>2. items[k].dir # d
        BY <1>1, <1>5, <3>1, MediaBounds DEF MediaGround
      <3> QED
        BY <1>6, <3>1, <3>2
    <2>5. ASSUME NEW n \in DirNames, NEW w \in Seq(Words), NEW k \in 1 .. MaxUploads PROVE OnDisk(o, n, w, k)' <=> Shelf(o, n, w, k)'
      <3>1. \A p \in MediaThreads : p # t => (Holds(mreq[p], o, n, w, k)' <=> Holds(mreq[p], o, n, w, k))
        BY <1>10, HoldsKept
      <3>2. ~Holds(mreq[t], o, n, w, k)' /\ ~Holds(mreq[t], o, n, w, k)
        <4>1. ~Holds(mreq[t], o, n, w, k)
          BY <1>2 DEF Holds
        <4>2. ~Holds(q, o, n, w, k)'
          BY <1>10, <1>11 DEF Holds
        <4> QED
          BY <1>9, <4>1, <4>2
      <3>3. Recorded(o, n, w, k)' <=> Recorded(o, n, w, k)
        <4>1. CASE items[k].owner = o
          <5>1. ~Deletes(mreq[t], k) /\ ~Moves(mreq[t], k)
            BY <1>2 DEF Deletes, Moves
          <5>2. ~Deletes(mreq[t], k)' /\ ~Moves(mreq[t], k)'
            <6>1. ~Deletes(q, k)' /\ ~Moves(q, k)'
              BY <1>10, <1>11 DEF Deletes, Moves
            <6> QED
              BY <1>9, <6>1
          <5> QED
            BY <1>2, <1>10, <2>4, <4>1, <5>1, <5>2, RecordedSame
        <4>2. CASE items[k].owner # o
          BY <1>2, <4>2 DEF Recorded
        <4> QED
          BY <4>1, <4>2
      <3>4. OnDisk(o, n, w, k)' <=> OnDisk(o, n, w, k)
        BY <1>2 DEF OnDisk
      <3> QED
        BY <2>1, <3>1, <3>2, <3>3, <3>4 DEF Shelf, LibraryOK, Shelved
    <2>6. Shelved(o)'
      BY <2>5 DEF Shelved
    <2>7. DirsOK(o)'
      BY <1>6, <2>1, <2>2, <2>3 DEF LibraryOK, DirsOK, NameFree
    <2>8. ItemsOK(o)'
      BY <1>2, <2>1, <2>3 DEF LibraryOK, ItemsOK
    <2>9. ASSUME NEW p \in MediaThreads, p # t, mreq'[p].owner = o PROVE ReqOK(o, mreq[p])'
      <3>1. PICK a : a = mreq[p]
        OBVIOUS
      <3>2. mreq'[p] = a /\ a.owner = o
        BY <1>10, <2>9, <3>1 DEF Rest
      <3>3. ReqOK(o, a)
        BY <2>1, <3>1, <3>2 DEF LibraryOK
      <3>4. ~Structural(a) /\ ~Structural(r) /\ ~(Defaulting(r) /\ Defaulting(a))
        BY <1>1, <1>3, <1>4, <2>1, <2>9, <3>1, <3>2, StemsApart
      <3>5. ~Defaulting(a)
        BY <1>2, <1>3, <3>4 DEF Defaulting, Structural
      <3>6. a.op = "upload" => UploadOK(o, a)'
        <4>1. SUFFICES ASSUME a.op = "upload" PROVE UploadOK(o, a)'
          OBVIOUS
        <4>2. UploadOK(o, a) /\ a.step \notin {"default", "record"}
          BY <3>3, <3>5, <4>1 DEF ReqOK, Defaulting
        <4> QED
          BY <1>2, <2>3, <4>2 DEF UploadOK
      <3>7. a.op = "delete" /\ a.step = "disk" => ItemAt(a)'
        <4>1. SUFFICES ASSUME a.op = "delete", a.step = "disk" PROVE ItemAt(a)'
          OBVIOUS
        <4>2. ItemAt(a)
          BY <3>3, <4>1 DEF ReqOK
        <4>3. a.pic \in 1 .. MaxUploads /\ items[a.pic].owner = o
          BY <1>1, <3>1, <3>2, <4>1, PicInHand
        <4> QED
          BY <1>2, <2>4, <4>2, <4>3 DEF ItemAt
      <3>8. ReqOK(o, a)'
        BY <1>2, <3>3, <3>4, <3>6, <3>7 DEF ReqOK, Structural
      <3> QED
        BY <3>2, <3>8
    <2>10. mreq'[t].owner = o => ReqOK(o, mreq[t])'
      <3>1. SUFFICES ASSUME q.owner = o PROVE ReqOK(o, q)'
        BY <1>9
      <3>2. q.op = "upload" /\ q.step = "name" /\ q.dir = d /\ q.name = n0
        BY <1>7, <1>10, <1>11, <2>1, <3>1
      <3>3. UploadOK(o, q)'
        BY <1>6, <2>3, <3>2 DEF UploadOK
      <3> QED
        BY <3>2, <3>3 DEF ReqOK
    <2> QED
      BY <2>6, <2>7, <2>8, <2>9, <2>10 DEF LibraryOK
  <1> QED
    BY <1>8, <1>12, <1>13, <1>14, <1>15 DEF LibraryInv

-----------------------------------------------------------------------------
(* MediaInv.                                                               *)

LEMMA LibraryInitially == MediaInit => LibraryInv
  <1>1. SUFFICES ASSUME MediaInit PROVE LibraryInv
    OBVIOUS
  <1>2. MediaGround
    BY <1>1, MediaStart
  <1>3. /\ files = <<>> /\ folders = {} /\ \A t \in MediaThreads : mreq[t] = NoRequest
        /\ \A d \in 1 .. MaxDirs : ~dirs[d].exists
        /\ \A i \in 1 .. MaxUploads : ~items[i].exists /\ items[i].owner = "nobody"
    BY <1>1 DEF MediaInit, NoDir, NoItem
  <1>4. DOMAIN files = {}
    BY <1>3
  <1>5. DiskTypes
    <2>1. files \in [DOMAIN files -> 1 .. lastPic]
      BY <1>3, <1>4
    <2> QED
      BY <1>3, <1>4, <2>1 DEF DiskTypes
  <1>6. NamedInv /\ ApartInv
    <2>1. NamedInv
      BY <1>2, <1>3, NobodyElse DEF NamedInv
    <2>2. ApartInv
      <3>1. \A t \in MediaThreads, o \in Owners : o \notin OwnersOf(mreq[t])
        BY <1>2, <1>3, NobodyElse
      <3> QED
        BY <3>1 DEF ApartInv
    <2> QED
      BY <2>1, <2>2
  <1>7. ASSUME NEW o \in Owners PROVE LibraryOK(o)
    <2>1. \A t \in MediaThreads : mreq[t].owner # o /\ mreq[t].op = "none"
      BY <1>2, <1>3, NobodyElse
    <2>2. \A i \in 1 .. MaxUploads : items[i].owner # o
      BY <1>2, <1>3, NobodyElse
    <2>3. ASSUME NEW n \in DirNames, NEW w \in Seq(Words), NEW k \in 1 .. MaxUploads
          PROVE  ~OnDisk(o, n, w, k) /\ ~Shelf(o, n, w, k)
      <3>1. ~OnDisk(o, n, w, k)
        BY <1>4 DEF OnDisk
      <3>2. ~Recorded(o, n, w, k)
        BY <2>2 DEF Recorded
      <3>3. \A t \in MediaThreads : ~Holds(mreq[t], o, n, w, k)
        BY <2>1 DEF Holds
      <3> QED
        BY <3>1, <3>2, <3>3 DEF Shelf
    <2>4. Shelved(o)
      BY <2>3 DEF Shelved
    <2>5. DirsOK(o)
      BY <1>3 DEF DirsOK, OwnDirs
    <2>6. ItemsOK(o)
      BY <2>2 DEF ItemsOK
    <2> QED
      BY <2>1, <2>4, <2>5, <2>6 DEF LibraryOK
  <1> QED
    BY <1>2, <1>5, <1>6, <1>7 DEF LibraryInv

LEMMA LibraryStays ==
  ASSUME LibraryInv, UNCHANGED mediaVars
  PROVE  LibraryInv'
  <1>1. MediaGround' /\ UNCHANGED <<dirs, items, folders, files, lastDir, lastPic, mreq, spoiled, mrequests>>
    BY MediaStays DEF LibraryInv, mediaVars
  <1>2. DiskTypes'
    BY <1>1 DEF LibraryInv, DiskTypes
  <1>3. NamedInv'
    BY <1>1 DEF LibraryInv, NamedInv
  <1>4. ApartInv'
    <2>1. ASSUME NEW q \in MediaThreads PROVE OwnersOf(mreq[q])' = OwnersOf(mreq[q]) /\ Heads(mreq[q])' = Heads(mreq[q])
      BY <1>1 DEF OwnersOf, Heads
    <2>2. ASSUME NEW q \in MediaThreads, NEW r \in MediaThreads
          PROVE  Peaceful(mreq[q], mreq[r])' <=> Peaceful(mreq[q], mreq[r])
      BY <1>1, <2>1 DEF Peaceful, Structural, Defaulting
    <2> QED
      BY <1>1, <2>1, <2>2 DEF LibraryInv, ApartInv
  <1>5. ASSUME NEW o \in Owners \ spoiled' PROVE LibraryOK(o)'
    <2>1. LibraryOK(o)
      BY <1>1 DEF LibraryInv
    <2>2. Shelved(o)'
      BY <1>1, <2>1 DEF LibraryOK, Shelved, OnDisk, Shelf, Recorded, Lies, Deletes, Moves, Holds
    <2>3. DirsOK(o)' /\ ItemsOK(o)'
      BY <1>1, <2>1 DEF LibraryOK, DirsOK, ItemsOK, OwnDirs
    <2>4. \A t \in MediaThreads : mreq'[t].owner = o => ReqOK(o, mreq[t])'
      <3>1. ASSUME NEW t \in MediaThreads, mreq'[t].owner = o PROVE ReqOK(o, mreq[t])'
        <4>1. PICK q : q = mreq[t]
          OBVIOUS
        <4>2. ReqOK(o, q) /\ mreq'[t] = q
          BY <1>1, <2>1, <3>1, <4>1 DEF LibraryOK
        <4>3. ReqOK(o, q)'
          BY <1>1, <4>2, ReqUnwritten
        <4> QED
          BY <4>2, <4>3
      <3> QED
        BY <3>1
    <2> QED
      BY <2>2, <2>3, <2>4 DEF LibraryOK
  <1> QED
    BY <1>1, <1>2, <1>3, <1>4, <1>5 DEF LibraryInv

LEMMA LibraryThreadStep ==
  ASSUME PlainNames, LibraryInv, NEW t \in MediaThreads, ThreadStep(t)
  PROVE  LibraryInv'
  <1>1. MediaGround'
    BY MediaThreadStep DEF LibraryInv
  <1>2. ASSUME NEW u \in Owners,
               \/ \E n \in DirNames : CreateDir(t, u, n)
               \/ \E d \in 1..lastDir, n \in DirNames : RenameDir(t, u, d, n)
               \/ \E d \in 1..lastDir : DeleteDir(t, u, d)
               \/ \E ids \in SUBSET Listed \ {{}} : DeleteItems(t, u, ids)
               \/ \E d \in 1..lastDir, ids \in SUBSET Listed \ {{}} : MoveItems(t, u, d, ids)
               \/ \E d \in 0..lastDir, s \in Stems : Upload(t, u, d, s)
        PROVE  LibraryInv'
    BY <1>1, <1>2, CreateDirLibrary, RenameDirLibrary, DeleteDirLibrary, DeleteItemsLibrary, MoveItemsLibrary, UploadLibrary
  <1>3. ASSUME \/ MakeFolder(t) \/ InsertDir(t) \/ RenameFolder(t) \/ RenameRecord(t)
               \/ RemoveFolder(t) \/ DeleteDirRecord(t)
               \/ TakeItem(t) \/ DeleteFiles(t) \/ DeleteRecord(t) \/ MoveFiles(t) \/ MoveRecord(t)
               \/ NameUpload(t) \/ OpenUpload(t) \/ Optimize(t) \/ InsertItem(t)
        PROVE  LibraryInv'
    BY <1>1, <1>3, MakeFolderLibrary, InsertDirLibrary, RenameFolderLibrary, RenameRecordLibrary, RemoveFolderLibrary,
       DeleteDirRecordLibrary, TakeItemLibrary, DeleteFilesLibrary, DeleteRecordLibrary, MoveFilesLibrary,
       MoveRecordLibrary, NameUploadLibrary, OpenUploadLibrary, OptimizeLibrary, InsertItemLibrary
  <1> QED
    BY <1>2, <1>3 DEF ThreadStep

LEMMA LibraryInductive ==
  ASSUME PlainNames
  PROVE  MediaSpec => []LibraryInv
  <1>1. MediaInit => LibraryInv
    BY LibraryInitially
  <1>2. LibraryInv /\ [MediaNext]_mediaVars => LibraryInv'
    <2>1. SUFFICES ASSUME LibraryInv, [MediaNext]_mediaVars PROVE LibraryInv'
      OBVIOUS
    <2> QED
      BY <2>1, MediaNextStep, LibraryThreadStep, LibraryStays
  <1> QED
    BY <1>1, <1>2, PTL DEF MediaSpec

\* What is recorded of a settled owner's picture is on disk, and the other way round.
LEMMA SettledShelf ==
  ASSUME LibraryInv, NEW o \in Owners, Settled(o), NEW n \in DirNames, NEW w \in Seq(Words), NEW k \in 1 .. MaxUploads
  PROVE  OnDisk(o, n, w, k) <=> /\ items[k].owner = o /\ items[k].exists /\ dirs[items[k].dir].name = n
                                /\ w \in VariantsOf(items[k].stem)
  <1>1. o \notin spoiled /\ \A t \in MediaThreads : mreq[t].owner # o
    BY DEF Settled, OwnersOf
  <1>2. OnDisk(o, n, w, k) <=> Shelf(o, n, w, k)
    BY <1>1 DEF LibraryInv, LibraryOK, Shelved
  <1>3. \A t \in MediaThreads : ~Holds(mreq[t], o, n, w, k)
    BY <1>1 DEF Holds
  <1>4. items[k].owner = o => \A t \in MediaThreads : ~Moves(mreq[t], k) /\ ~Deletes(mreq[t], k)
    BY <1>1 DEF Moves, Deletes
  <1>5. items[k].owner = o => (Lies(k, n) <=> items[k].exists /\ dirs[items[k].dir].name = n)
    BY <1>4 DEF Lies
  <1> QED
    BY <1>2, <1>3, <1>5 DEF Shelf, Recorded

\* What LibraryInv says of the records: whose they are and where.
LEMMA ItemRecorded ==
  ASSUME LibraryInv, NEW i \in 1 .. MaxUploads, items[i].exists
  PROVE  /\ items[i].owner \in Owners /\ i \in 1 .. lastPic /\ i <= lastPic /\ items[i].stem \in Seq(Words)
         /\ items[i].dir \in 1 .. lastDir /\ dirs[items[i].dir].owner = items[i].owner
         /\ items[i].dir \in 1 .. MaxDirs
  <1>1. MediaGround
    BY DEF LibraryInv
  <1>2. items[i].owner # "nobody"
    BY <1>1 DEF MediaGround, DocsInv, NoItem
  <1>3. /\ i <= lastPic /\ items[i].owner \in Owners
        /\ items[i].dir \in 1 .. lastDir /\ dirs[items[i].dir].owner = items[i].owner
    BY <1>1, <1>2 DEF MediaGround, DocsInv
  <1>4. i \in 1 .. lastPic /\ items[i].dir \in 1 .. MaxDirs
    BY <1>1, <1>3, MediaBounds DEF MediaGround
  <1>5. items[i].stem \in Seq(Words)
    BY <1>1 DEF MediaGround, CollectionTypes, ItemDoc
  <1> QED
    BY <1>2, <1>3, <1>4, <1>5

LEMMA LibraryTypes ==
  ASSUME LibraryInv
  PROVE  MediaTypeOK
  <1>1. MediaGround /\ CollectionTypes /\ DiskTypes
    BY DEF LibraryInv, MediaGround
  <1>2. ASSUME NEW s \in Seq(Words) PROVE IsName(s)
    BY <1>2 DEF IsName
  <1>3. ASSUME NEW d \in 1 .. MaxDirs, dirs[d].exists
        PROVE  d <= lastDir /\ dirs[d].owner \in Owners /\ dirs[d].name \in DirNames
    <2>1. dirs[d] # NoDir /\ dirs[d].name \in DirNames
      BY <1>1, <1>3 DEF NoDir, CollectionTypes, DirDoc
    <2> QED
      BY <1>1, <2>1 DEF MediaGround, DocsInv
  <1>4. ASSUME NEW i \in 1 .. MaxUploads, items[i].exists
        PROVE  i <= lastPic /\ items[i].owner \in Owners /\ items[i].dir \in 1..lastDir /\ IsName(items[i].stem)
    BY <1>2, <1>4, ItemRecorded
  <1>5. ASSUME NEW p \in DOMAIN files
        PROVE  <<p[1], p[2]>> \in folders /\ IsName(p[3]) /\ files[p] \in 1 .. lastPic
    <2>1. p[3] \in Seq(Words)
      BY <1>1 DEF DiskTypes, MediaPaths
    <2> QED
      BY <1>1, <1>2, <2>1 DEF DiskTypes
  <1>6. folders \subseteq Owners \X DirNames
    BY <1>1 DEF DiskTypes
  <1> QED
    BY <1>1, <1>3, <1>4, <1>5, <1>6 DEF MediaTypeOK, CollectionTypes

LEMMA LibraryShows ==
  ASSUME LibraryInv
  PROVE  FilesFound /\ NoOrphans /\ DirsApart /\ ItemsInOwnTree
  <1>1. MediaGround /\ CollectionTypes /\ DiskTypes
    BY DEF LibraryInv, MediaGround
  <1>2. \A o \in Owners : Settled(o) => LibraryOK(o)
    BY DEF LibraryInv, Settled
  <1>3. ASSUME NEW i \in 1 .. lastPic, items[i].exists, Settled(items[i].owner), NEW v \in Variants
        PROVE  /\ DirById(items[i].dir)
               /\ <<items[i].owner, dirs[items[i].dir].name, Append(items[i].stem, v)>> \in DOMAIN files
               /\ files[<<items[i].owner, dirs[items[i].dir].name, Append(items[i].stem, v)>>] = i
    <2>1. PICK o, d : o = items[i].owner /\ d = items[i].dir
      OBVIOUS
    <2>2. i \in 1 .. MaxUploads
      BY <1>1, MediaBounds
    <2>3. o \in Owners /\ items[i].stem \in Seq(Words)
      BY <1>3, <2>1, <2>2, ItemRecorded
    <2>4. d \in OwnDirs(o)
      BY <1>2, <1>3, <2>1, <2>2, <2>3 DEF LibraryOK, ItemsOK
    <2>5. DirById(d) /\ dirs[d].name \in DirNames
      BY <1>1, <2>3, <2>4, OwnDirListed
    <2>6. PICK n \in DirNames : n = dirs[d].name
      BY <2>5
    <2>7. PICK w : w = Append(items[i].stem, v)
      OBVIOUS
    <2>8. w \in Seq(Words) /\ w \in VariantsOf(items[i].stem)
      <3>1. w \in Seq(Words)
        BY <2>3, <2>7, VariantNames
      <3> QED
        BY <2>7, <3>1 DEF VariantsOf
    <2>9. OnDisk(o, n, w, i)
      BY <1>3, <2>1, <2>2, <2>3, <2>6, <2>8, SettledShelf
    <2> QED
      BY <2>1, <2>5, <2>6, <2>7, <2>9 DEF OnDisk
  <1>4. ASSUME NEW p \in DOMAIN files, Settled(p[1])
        PROVE  \E d \in DirectoriesShown(p[1]) : dirs[d].name = p[2] /\
                  \E i \in ItemsShown(p[1], d) : p[3] \in VariantsOf(items[i].stem)
    <2>1. PICK o, n, w, k : o = p[1] /\ n = p[2] /\ w = p[3] /\ k = files[p]
      OBVIOUS
    <2>2. o \in Owners /\ n \in DirNames /\ w \in Seq(Words) /\ p = <<o, n, w>> /\ k \in 1 .. lastPic
      BY <1>1, <2>1 DEF DiskTypes, MediaPaths
    <2>3. k \in 1 .. MaxUploads
      BY <1>1, <2>2, MediaBounds
    <2>4. OnDisk(o, n, w, k)
      BY <2>1, <2>2 DEF OnDisk
    <2>5. /\ items[k].owner = o /\ items[k].exists /\ dirs[items[k].dir].name = n
          /\ w \in VariantsOf(items[k].stem)
      BY <1>4, <2>1, <2>2, <2>3, <2>4, SettledShelf
    <2>6. PICK d : d = items[k].dir
      OBVIOUS
    <2>7. d \in OwnDirs(o)
      BY <1>2, <1>4, <2>1, <2>2, <2>3, <2>5, <2>6 DEF LibraryOK, ItemsOK
    <2>8. d \in 1 .. lastDir /\ DirById(d) /\ dirs[d].owner = o
      BY <1>1, <2>2, <2>7, OwnDirListed
    <2>9. d \in DirectoriesShown(o)
      BY <2>8 DEF DirectoriesShown
    <2>10. k \in ItemsShown(o, d)
      BY <2>2, <2>5, <2>6 DEF ItemsShown, ItemsIn
    <2> QED
      BY <2>1, <2>5, <2>6, <2>9, <2>10
  <1>5. ASSUME NEW d \in 1 .. lastDir, NEW e \in 1 .. lastDir, DirById(d), DirById(e), d # e,
               dirs[d].owner = dirs[e].owner, Settled(dirs[d].owner)
        PROVE  dirs[d].name # dirs[e].name
    <2>1. d \in 1 .. MaxDirs /\ e \in 1 .. MaxDirs /\ dirs[d].exists /\ dirs[e].exists
      BY <1>1, <1>5, MediaBounds DEF DirById
    <2>2. dirs[d].owner \in Owners
      BY <1>1, <1>5, <2>1 DEF MediaGround, DocsInv, CollectionTypes
    <2>3. PICK o \in Owners : o = dirs[d].owner
      BY <2>2
    <2>4. d \in OwnDirs(o) /\ e \in OwnDirs(o)
      BY <1>5, <2>1, <2>3 DEF OwnDirs
    <2>5. DirsOK(o)
      BY <1>2, <1>5, <2>3 DEF LibraryOK
    <2> QED
      BY <1>5, <2>4, <2>5 DEF DirsOK
  <1>6. ItemsInOwnTree
    <2>1. \A i \in 1 .. lastPic : i \in 1 .. MaxUploads
      BY <1>1, MediaBounds
    <2> QED
      BY <2>1, ItemRecorded DEF ItemsInOwnTree
  <1>7. FilesFound
    BY <1>3 DEF FilesFound
  <1>8. NoOrphans
    BY <1>4 DEF NoOrphans
  <1>9. DirsApart
    BY <1>5 DEF DirsApart
  <1> QED
    BY <1>6, <1>7, <1>8, <1>9

\* Whatever uploads, moves, renamings and deletions of the library interleave or fail, what
\* the two collections list and what is on disk agree for every owner whose requests did not
\* get in each other's way: every recorded picture is found under its directory's name, no
\* file is without a record, and two directories never share a folder (the
\* /dashboard/api/media routes of http_router.c).  The names are taken to hold none of the
\* optimizer's suffixes: the stored name is cut at the first "_full" (http_router.c:5570),
\* and deleting "moon_small" would delete a variant of "moon" (http_router.c:178).
THEOREM MediaInvThm == PlainNames => (MediaSpec => []MediaInv)
  <1>1. ASSUME PlainNames PROVE MediaSpec => []MediaInv
    <2>1. MediaSpec => []LibraryInv
      BY <1>1, LibraryInductive
    <2>2. LibraryInv => MediaInv
      BY LibraryTypes, LibraryShows DEF MediaInv
    <2> QED
      BY <2>1, <2>2, PTL
  <1> QED
    BY <1>1

====
