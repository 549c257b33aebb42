------------------------------- MODULE Media --------------------------------
(***************************************************************************)
(* The media library (the /dashboard/api/media routes of http_router.c and *)
(* db/cms_media.c): pictures are files under                               *)
(* html/content/posts/<owner>/<directory>/, found again through two        *)
(* collections, media_directories and media.  A request reads the          *)
(* collections, changes the disk and then writes the collections, and      *)
(* nothing keeps two requests apart.                                       *)
(*                                                                         *)
(* A file name is the sequence of words between its underscores: stored    *)
(* picture <<"a">> has the variants <<"a", "full">> and <<"a", "small">>.  *)
(* "full" stands for the variants media_stem_taken() looks for, "small"    *)
(* for the others.  Extensions are left out: every picture is a JPEG, so   *)
(* an upload and a variant of the same words are the same file.  An upload *)
(* is known by its number, which is also the id of its record.             *)
(***************************************************************************)
EXTENDS Naturals, Sequences, FiniteSets

CONSTANTS MediaThreads,      \* requests running at the same time
          Managers,          \* administrators
          Contributors,      \* authors
          DirNames,
          DefaultDir,        \* "default"
          Stems,             \* names a picture is uploaded under
          MaxDirs,           \* bound on the directories created
          MaxUploads,        \* bound on the pictures uploaded
          MaxMediaRequests   \* bound on the requests

ASSUME MediaAssumption ==
    /\ Managers \cap Contributors = {} /\ "nobody" \notin Managers \cup Contributors
    /\ DefaultDir \in DirNames /\ Stems \subseteq Seq(STRING)
    /\ MaxDirs \in Nat /\ MaxUploads \in Nat /\ MaxMediaRequests \in Nat

Owners == Managers \cup Contributors
Variants == {"full", "small"}
NoDir == [exists |-> FALSE, owner |-> "nobody", name |-> DefaultDir]
NoItem == [exists |-> FALSE, owner |-> "nobody", dir |-> 0, stem |-> <<>>]
NoRequest == [op |-> "none", step |-> "none", by |-> "nobody", owner |-> "nobody", dir |-> 0,
              name |-> DefaultDir, to |-> DefaultDir, stem |-> <<>>, pic |-> 0, ids |-> {}]

VARIABLES
    dirs,      \* media_directories, by id
    items,     \* media, by upload
    folders,   \* the directories on disk, as <<owner, name>>
    files,     \* the files on disk: <<owner, directory, name>> to the upload shown
    lastDir,
    lastPic,
    mreq,      \* what each thread is doing
    spoiled,   \* history: owners whose requests overlapped in a way the library does
               \* not order, or whose picture was moved onto another's name
    mrequests

mediaVars == <<dirs, items, folders, files, lastDir, lastPic, mreq, spoiled, mrequests>>

MediaInit ==
    /\ dirs = [d \in 1..MaxDirs |-> NoDir] /\ lastDir = 0
    /\ items = [i \in 1..MaxUploads |-> NoItem] /\ lastPic = 0
    /\ folders = {} /\ files = <<>>
    /\ mreq = [t \in MediaThreads |-> NoRequest]
    /\ spoiled = {} /\ mrequests = 0

----------------------------------------------------------------------------
\* What a request reads of the collections.
DirByName(o, n) == {d \in 1..lastDir : dirs[d].exists /\ dirs[d].owner = o /\ dirs[d].name = n}
ItemsIn(d) == {i \in 1..lastPic : items[i].exists /\ items[i].dir = d}
DirById(d) == d \in 1..lastDir /\ dirs[d].exists

\* Mutant: everybody on the team manages every library.
CanManageAny(u, o) == TRUE

CanManage(u, o) == u \in Managers \/ u = o

\* The lists the dashboard shows u: every owner's to an administrator.
DirectoriesShown(u) == {d \in 1..lastDir : DirById(d) /\ (u \in Contributors => dirs[d].owner = u)}
ItemsShown(u, d) == {i \in ItemsIn(d) : u \in Contributors => items[i].owner = u}

----------------------------------------------------------------------------
\* The disk.
VariantsOf(s) == {Append(s, v) : v \in Variants}
NamesOf(s) == {s} \cup VariantsOf(s)
In(o, n, names) == {<<o, n, s>> : s \in names} \cap DOMAIN files
Without(f, gone) == [p \in DOMAIN f \ gone |-> f[p]]
Showing(f, paths, pic) == [p \in DOMAIN f \cup paths |-> IF p \in paths THEN pic ELSE f[p]]
Inside(o, n) == {p \in DOMAIN files : p[1] = o /\ p[2] = n}

\* rename(2) of each of the files `from` in directory a of o to the same name in b.
Renamed(from, b) ==
    LET to == {<<p[1], b, p[3]>> : p \in from} IN
    [q \in to \cup (DOMAIN files \ from) |->
        IF q \in to THEN files[CHOOSE p \in from : p[3] = q[3]] ELSE files[q]]

StemTaken(o, n, s) == In(o, n, {s, Append(s, "full")}) # {}

\* The names tried for an upload: the code goes on to _9999, the model stops at _2.
Candidates(s) == <<s, Append(s, "2")>>

\* The stored name: the optimizer's output without the first "_full" in it.
StoredStem(s) ==
    LET out == Append(s, "full")
        first == CHOOSE i \in DOMAIN out : out[i] = "full" /\ \A j \in 1..i-1 : out[j] # "full" IN
    [i \in 1..Len(s) |-> IF i < first THEN out[i] ELSE out[i + 1]]

----------------------------------------------------------------------------
\* Requests of the same owner that the library leaves unordered.
Structural(r) == r.op \in {"create", "rename", "rmdir", "move"}
Heads(r) == {s[1] : s \in ({r.stem} \cup {items[i].stem : i \in r.ids}) \ {<<>>}}
OwnersOf(r) == {items[i].owner : i \in r.ids} \cup {r.owner}
Conflict(r, q) ==
    /\ q.op # "none"
    /\ \/ Structural(r) \/ Structural(q) \/ Heads(r) \cap Heads(q) # {}
       \/ r.step = "default" /\ q.step \in {"default", "record"}

Start(t, r) ==
    /\ mreq[t].op = "none" /\ mrequests < MaxMediaRequests
    /\ mreq' = [mreq EXCEPT ![t] = r]
    /\ mrequests' = mrequests + 1
    /\ spoiled' = spoiled \cup UNION {OwnersOf(r) \cap OwnersOf(mreq[q]) : q \in {p \in MediaThreads : Conflict(r, mreq[p])}}

To(t, step) == mreq' = [mreq EXCEPT ![t].step = step]
Done(t) == mreq' = [mreq EXCEPT ![t] = NoRequest]
At(t, op, step) == mreq[t].op = op /\ mreq[t].step = step

----------------------------------------------------------------------------
\* POST directory: the name is free, the folder is made, the record inserted.
CreateDir(t, u, n) ==
    /\ DirByName(u, n) = {}
    /\ Start(t, [NoRequest EXCEPT !.op = "create", !.step = "disk", !.by = u, !.owner = u, !.name = n])
    /\ UNCHANGED <<dirs, items, folders, files, lastDir, lastPic>>

MakeFolder(t) ==
    /\ At(t, "create", "disk") \/ At(t, "upload", "default")
    /\ folders' = folders \cup {<<mreq[t].owner, mreq[t].name>>}
    /\ To(t, "record")
    /\ UNCHANGED <<dirs, items, files, lastDir, lastPic, spoiled, mrequests>>

\* cms_create_media_directory(); an upload goes on with the new directory.
InsertDir(t) ==
    /\ At(t, "create", "record") \/ At(t, "upload", "record")
    /\ lastDir < MaxDirs
    /\ lastDir' = lastDir + 1
    /\ dirs' = [dirs EXCEPT ![lastDir'] = [exists |-> TRUE, owner |-> mreq[t].owner, name |-> mreq[t].name]]
    /\ IF mreq[t].op = "create" THEN Done(t)
       ELSE mreq' = [mreq EXCEPT ![t] = [@ EXCEPT !.step = "name", !.dir = lastDir']]
    /\ UNCHANGED <<items, folders, files, lastPic, spoiled, mrequests>>

\* POST directory/rename: the folder is renamed first, then the record.
RenameDir(t, u, d, n) ==
    /\ DirById(d) /\ CanManage(u, dirs[d].owner)
    /\ dirs[d].name = n \/ DirByName(dirs[d].owner, n) = {}
    /\ Start(t, [NoRequest EXCEPT !.op = "rename", !.step = "disk", !.by = u, !.owner = dirs[d].owner,
                                  !.dir = d, !.name = dirs[d].name, !.to = n])
    /\ UNCHANGED <<dirs, items, folders, files, lastDir, lastPic>>

RenameFolder(t) ==
    LET r == mreq[t] IN
    /\ At(t, "rename", "disk")
    /\ \/ /\ r.name = r.to
          /\ To(t, "record") /\ UNCHANGED <<folders, files>>
       \/ /\ r.name # r.to /\ <<r.owner, r.to>> \in folders
          /\ Done(t) /\ UNCHANGED <<folders, files>>
       \/ /\ r.name # r.to /\ <<r.owner, r.to>> \notin folders
          /\ To(t, "record")
          /\ IF <<r.owner, r.name>> \in folders
             THEN /\ folders' = (folders \ {<<r.owner, r.name>>}) \cup {<<r.owner, r.to>>}
                  /\ files' = Renamed(Inside(r.owner, r.name), r.to)
             ELSE UNCHANGED <<folders, files>>
    /\ UNCHANGED <<dirs, items, lastDir, lastPic, spoiled, mrequests>>

RenameRecord(t) ==
    /\ At(t, "rename", "record")
    /\ dirs' = IF DirById(mreq[t].dir) THEN [dirs EXCEPT ![mreq[t].dir].name = mreq[t].to] ELSE dirs
    /\ Done(t)
    /\ UNCHANGED <<items, folders, files, lastDir, lastPic, spoiled, mrequests>>

\* POST directory/delete: only while no item is recorded in it; rmdir() refuses a
\* folder with files and accepts one that is not there.
DeleteDir(t, u, d) ==
    /\ DirById(d) /\ CanManage(u, dirs[d].owner) /\ ItemsIn(d) = {}
    /\ Start(t, [NoRequest EXCEPT !.op = "rmdir", !.step = "disk", !.by = u, !.owner = dirs[d].owner,
                                  !.dir = d, !.name = dirs[d].name])
    /\ UNCHANGED <<dirs, items, folders, files, lastDir, lastPic>>

RemoveFolder(t) ==
    LET r == mreq[t] IN
    /\ At(t, "rmdir", "disk")
    /\ IF Inside(r.owner, r.name) = {}
       THEN folders' = folders \ {<<r.owner, r.name>>} /\ To(t, "record")
       ELSE Done(t) /\ UNCHANGED folders
    /\ UNCHANGED <<dirs, items, files, lastDir, lastPic, spoiled, mrequests>>

DeleteDirRecord(t) ==
    /\ At(t, "rmdir", "record")
    /\ dirs' = [dirs EXCEPT ![mreq[t].dir].exists = FALSE]
    /\ Done(t)
    /\ UNCHANGED <<items, folders, files, lastDir, lastPic, spoiled, mrequests>>

----------------------------------------------------------------------------
\* POST delete and POST move: the items of the request, one after another.  The
\* destination of a move is read once, before the first.  The ids come from a page,
\* so of items that were recorded once.
Listed == {i \in 1..lastPic : items[i].owner # "nobody"}

DeleteItems(t, u, ids) ==
    /\ Start(t, [NoRequest EXCEPT !.op = "delete", !.step = "next", !.by = u, !.owner = u, !.ids = ids])
    /\ UNCHANGED <<dirs, items, folders, files, lastDir, lastPic>>

MoveItems(t, u, d, ids) ==
    /\ DirById(d) /\ CanManage(u, dirs[d].owner)
    /\ Start(t, [NoRequest EXCEPT !.op = "move", !.step = "next", !.by = u, !.owner = dirs[d].owner,
                                  !.dir = d, !.to = dirs[d].name, !.ids = ids])
    /\ UNCHANGED <<dirs, items, folders, files, lastDir, lastPic>>

\* Whether request r may touch item i: a move stays in the tree of the destination's owner.
MayTake(r, i) == CanManage(r.by, items[i].owner) /\ (r.op = "move" => items[i].owner = r.owner)

\* cms_get_media_item_by_id(): the item with its directory's name, when that
\* directory is still recorded; without it the paths are not valid.
TakeItem(t) ==
    LET r == mreq[t] IN
    /\ r.op \in {"delete", "move"} /\ r.step = "next"
    /\ IF r.ids = {} THEN Done(t)
       ELSE \E i \in r.ids :
            LET r1 == [r EXCEPT !.ids = r.ids \ {i}]
                r2 == [r1 EXCEPT !.owner = items[i].owner] IN
            mreq' = [mreq EXCEPT ![t] =
                IF ~items[i].exists \/ ~MayTake(r, i) THEN r1
                ELSE IF DirById(items[i].dir)
                THEN [r2 EXCEPT !.pic = i, !.step = "disk", !.stem = items[i].stem, !.name = dirs[items[i].dir].name]
                ELSE IF r.op = "delete" THEN [r2 EXCEPT !.pic = i, !.step = "record"] ELSE r1]
    /\ UNCHANGED <<dirs, items, folders, files, lastDir, lastPic, spoiled, mrequests>>

\* The names unlinked or renamed for an item.
Removed(s) == NamesOf(s)

DeleteFiles(t) ==
    LET r == mreq[t] IN
    /\ At(t, "delete", "disk")
    /\ files' = Without(files, In(r.owner, r.name, Removed(r.stem)))
    /\ To(t, "record")
    /\ UNCHANGED <<dirs, items, folders, lastDir, lastPic, spoiled, mrequests>>

DeleteRecord(t) ==
    /\ At(t, "delete", "record")
    /\ items' = [items EXCEPT ![mreq[t].pic].exists = FALSE]
    /\ To(t, "next")
    /\ UNCHANGED <<dirs, folders, files, lastDir, lastPic, spoiled, mrequests>>

MoveFiles(t) ==
    LET r == mreq[t] IN
    /\ At(t, "move", "disk")
    /\ folders' = folders \cup {<<r.owner, r.to>>}
    /\ files' = IF r.name = r.to THEN files ELSE Renamed(In(r.owner, r.name, NamesOf(r.stem)), r.to)
    /\ spoiled' = IF r.name # r.to /\ In(r.owner, r.to, NamesOf(r.stem)) # {}
                  THEN spoiled \cup {r.owner} ELSE spoiled
    /\ To(t, "record")
    /\ UNCHANGED <<dirs, items, lastDir, lastPic, mrequests>>

\* Mutant: the files are moved and the record is not.
MovedNowhere(r) == items

\* cms_move_media(): the directory of the record.
Moved(r) == [items EXCEPT ![r.pic].dir = r.dir]

MoveRecord(t) ==
    /\ At(t, "move", "record")
    /\ items' = Moved(mreq[t])
    /\ To(t, "next")
    /\ UNCHANGED <<dirs, folders, files, lastDir, lastPic, spoiled, mrequests>>

----------------------------------------------------------------------------
\* POST upload: into the directory selected, or the owner's default one when
\* that is not there.
Upload(t, u, d, s) ==
    LET r == [NoRequest EXCEPT !.op = "upload", !.by = u, !.owner = u, !.stem = s, !.pic = lastPic + 1] IN
    /\ lastPic < MaxUploads
    /\ lastPic' = lastPic + 1
    /\ \/ /\ DirById(d) /\ dirs[d].owner = u
          /\ Start(t, [r EXCEPT !.step = "name", !.dir = d, !.name = dirs[d].name])
       \/ /\ ~DirById(d)
          /\ IF DirByName(u, DefaultDir) = {} THEN Start(t, [r EXCEPT !.step = "default"])
             ELSE \E e \in DirByName(u, DefaultDir) : Start(t, [r EXCEPT !.step = "name", !.dir = e])
    /\ UNCHANGED <<dirs, items, folders, files, lastDir>>

\* media_unique_name(), after the folder was made if it was missing.
FreeName(o, n, s) == {c \in 1..2 : ~StemTaken(o, n, Candidates(s)[c])}

NameUpload(t) ==
    LET r == mreq[t]
        free == FreeName(r.owner, r.name, r.stem) IN
    /\ At(t, "upload", "name")
    /\ folders' = folders \cup {<<r.owner, r.name>>}
    /\ IF free = {} THEN Done(t)
       ELSE mreq' = [mreq EXCEPT ![t] = [r EXCEPT !.step = "open",
                                 !.stem = Candidates(r.stem)[CHOOSE c \in free : \A b \in free : c <= b]]]
    /\ UNCHANGED <<dirs, items, files, lastDir, lastPic, spoiled, mrequests>>

\* open(O_CREAT | O_EXCL) fails on a name in use and in a folder that is gone.
OpenUpload(t) ==
    LET r == mreq[t]
        path == <<r.owner, r.name, r.stem>> IN
    /\ At(t, "upload", "open")
    /\ IF path \in DOMAIN files \/ <<r.owner, r.name>> \notin folders
       THEN Done(t) /\ UNCHANGED files
       ELSE files' = Showing(files, {path}, r.pic) /\ To(t, "optimize")
    /\ UNCHANGED <<dirs, items, folders, lastDir, lastPic, spoiled, mrequests>>

\* scripts/image-optimizer.sh: it writes the variants of the file it finds and
\* removes the file; or it prints nothing usable and the upload is unlinked.
Optimize(t) ==
    LET r == mreq[t]
        raw == <<r.owner, r.name, r.stem>>
        made == {<<r.owner, r.name, v>> : v \in VariantsOf(r.stem)} IN
    /\ At(t, "upload", "optimize")
    /\ \/ /\ raw \in DOMAIN files
          /\ files' = Showing(Without(files, {raw}), made, files[raw])
          /\ To(t, "insert")
       \/ /\ files' = Without(files, {raw})
          /\ Done(t)
    /\ UNCHANGED <<dirs, items, folders, lastDir, lastPic, spoiled, mrequests>>

\* cms_insert_media()
Inserted(r) == [items EXCEPT ![r.pic] = [exists |-> TRUE, owner |-> r.by, dir |-> r.dir, stem |-> StoredStem(r.stem)]]

InsertItem(t) ==
    /\ At(t, "upload", "insert")
    /\ items' = Inserted(mreq[t])
    /\ Done(t)
    /\ UNCHANGED <<dirs, folders, files, lastDir, lastPic, spoiled, mrequests>>

----------------------------------------------------------------------------
MediaNext ==
    \E t \in MediaThreads :
        \/ \E u \in Owners :
            \/ \E n \in DirNames : CreateDir(t, u, n)
            \/ \E d \in 1..lastDir, n \in DirNames : RenameDir(t, u, d, n)
            \/ \E d \in 1..lastDir : DeleteDir(t, u, d)
            \/ \E ids \in SUBSET Listed \ {{}} : DeleteItems(t, u, ids)
            \/ \E d \in 1..lastDir, ids \in SUBSET Listed \ {{}} : MoveItems(t, u, d, ids)
            \/ \E d \in 0..lastDir, s \in Stems : Upload(t, u, d, s)
        \/ MakeFolder(t) \/ InsertDir(t) \/ RenameFolder(t) \/ RenameRecord(t)
        \/ RemoveFolder(t) \/ DeleteDirRecord(t)
        \/ TakeItem(t) \/ DeleteFiles(t) \/ DeleteRecord(t) \/ MoveFiles(t) \/ MoveRecord(t)
        \/ NameUpload(t) \/ OpenUpload(t) \/ Optimize(t) \/ InsertItem(t)

MediaSpec == MediaInit /\ [][MediaNext]_mediaVars

----------------------------------------------------------------------------
Words == (UNION {{s[i] : i \in DOMAIN s} : s \in Stems}) \cup Variants \cup {"2"}
IsName(s) == \A i \in DOMAIN s : s[i] \in Words

\* Every variable holds what its collection, its folder or its request can hold:
\* an item's directory is an id that was given out.
MediaTypeOK ==
    /\ lastDir \in 0..MaxDirs /\ lastPic \in 0..MaxUploads /\ mrequests \in 0..MaxMediaRequests
    /\ \A d \in 1..MaxDirs : dirs[d].exists => d <= lastDir /\ dirs[d].owner \in Owners /\ dirs[d].name \in DirNames
    /\ \A i \in 1..MaxUploads : items[i].exists =>
            i <= lastPic /\ items[i].owner \in Owners /\ items[i].dir \in 1..lastDir /\ IsName(items[i].stem)
    /\ folders \subseteq Owners \X DirNames
    /\ \A p \in DOMAIN files : <<p[1], p[2]>> \in folders /\ IsName(p[3]) /\ files[p] \in 1..lastPic
    /\ spoiled \subseteq Owners

\* An owner no request is working for, and whose requests never got in each
\* other's way.
Settled(o) == o \notin spoiled /\ \A t \in MediaThreads : o \notin OwnersOf(mreq[t])

\* Every recorded picture can be shown: its variants are where the record's
\* directory, renamed since or moved to, says they are, and are that picture.
FilesFound ==
    \A i \in 1..lastPic : items[i].exists /\ Settled(items[i].owner) =>
        \A v \in Variants :
            LET p == <<items[i].owner, dirs[items[i].dir].name, Append(items[i].stem, v)>> IN
            DirById(items[i].dir) /\ p \in DOMAIN files /\ files[p] = i

\* Nothing is left on disk that the owner's own dashboard cannot reach: every file
\* is a variant of an item listed in a directory listed.
NoOrphans ==
    \A p \in DOMAIN files : Settled(p[1]) =>
        \E d \in DirectoriesShown(p[1]) : dirs[d].name = p[2] /\
            \E i \in ItemsShown(p[1], d) : p[3] \in VariantsOf(items[i].stem)

\* No two directories of an owner share a name, and with it a folder.
DirsApart ==
    \A d, e \in 1..lastDir : DirById(d) /\ DirById(e) /\ d # e /\ dirs[d].owner = dirs[e].owner
        /\ Settled(dirs[d].owner) => dirs[d].name # dirs[e].name

\* However requests overlap, a picture is recorded in a directory of its own
\* author: files live under their author's tree.
ItemsInOwnTree == \A i \in 1..lastPic : items[i].exists => dirs[items[i].dir].owner = items[i].owner

Tree(o) == {<<p, files[p]>> : p \in {q \in DOMAIN files : q[1] = o}}
Records(o) == <<{d \in 1..lastDir : DirById(d) /\ dirs[d].owner = o},
                {i \in 1..lastPic : items[i].exists /\ items[i].owner = o}, Tree(o)>>

\* Together: what the collection lists, what the disk holds and who owns it
\* agree, whatever uploads, moves, renames and deletions interleave or fail.
MediaInv == MediaTypeOK /\ FilesFound /\ NoOrphans /\ DirsApart /\ ItemsInOwnTree

\* An author's request never changes another owner's directories, items or files.
MediaConfined ==
    [][\A t \in MediaThreads : mreq[t].by \in Contributors /\ mreq'[t] # mreq[t] =>
         \A o \in Owners \ {mreq[t].by} : Records(o)' = Records(o)]_mediaVars

=============================================================================
