------------------------------ MODULE Startup -------------------------------
(***************************************************************************)
(* The migrations main() runs at every start, before the server listens:   *)
(* usernames for the users of older versions                               *)
(* (cms_users_ensure_usernames() of db/cms_users_admin.c) and the move of  *)
(* the commenters collection into users (migrate_legacy_commenters() of    *)
(* db/cms_comments.c).                                                     *)
(*                                                                         *)
(* Every database write is a step; each may fail, and the server may be    *)
(* killed between any two and be started again.  A username is a prefix    *)
(* and the number username_for_email() adds, 1 for none.                   *)
(***************************************************************************)
EXTENDS Naturals, Sequences, FiniteSets, SequencesExt, TLC

CONSTANTS OldUsers,    \* users without a username, oldest first
          Legacy,      \* commenters of the old collection
          EmailOf,     \* OldUsers and Legacy to addresses
          PrefixOf,    \* address to the name cms_username_from_email() makes of it
          Hits,        \* user to usernames to how many of their directories are there
          Verified,    \* the legacy commenters with a verified address
          Blocked,     \* those who are blocked
          BatchLimit,  \* USERS_LIST_LIMIT
          MaxFaults,   \* bound on failed writes
          MaxCrashes   \* bound on restarts

Everybody == Range(OldUsers) \cup Legacy
Usernames == {PrefixOf[EmailOf[u]] : u \in Everybody} \X (1 .. Cardinality(Everybody))

ASSUME StartupAssumption ==
    /\ OldUsers \in Seq(Range(OldUsers)) /\ IsInjective(OldUsers) /\ IsFiniteSet(Legacy)
    /\ Range(OldUsers) \cap Legacy = {} /\ Verified \cup Blocked \subseteq Legacy
    /\ BatchLimit \in Nat \ {0} /\ MaxFaults \in Nat /\ MaxCrashes \in Nat

NoName == <<"", 0>>

VARIABLES
    accounts,   \* the users collection, by _id
    legacy,     \* the _ids left in the commenters collection
    commenter,  \* commenter_id of the comment each legacy commenter wrote
    boot,       \* where the start-up is
    failing,    \* history: a write of this start failed
    faults, crashes

startVars == <<accounts, legacy, commenter, boot, failing, faults, crashes>>

Down == [at |-> "down"]

StartInit ==
    /\ accounts = [u \in Range(OldUsers) |->
                      [email |-> EmailOf[u], username |-> NoName, verified |-> FALSE, blocked |-> FALSE]]
    /\ legacy = Legacy
    /\ commenter = [c \in Legacy |-> c]
    /\ boot = Down /\ failing = FALSE /\ faults = 0 /\ crashes = 0

\* A failed write, which changes nothing.
Fails ==
    /\ faults < MaxFaults
    /\ faults' = faults + 1
    /\ failing' = TRUE
    /\ UNCHANGED <<accounts, legacy, commenter>>

-----------------------------------------------------------------------------
(* Usernames.                                                              *)

\* username_taken().
Taken(name) == \E u \in DOMAIN accounts : accounts[u].username = name

\* media_folder_of(): the untaken folder that holds most of u's directories.
FoldersOf(u) ==
    IF u \notin DOMAIN Hits THEN {}
    ELSE LET free == {n \in DOMAIN Hits[u] : Hits[u][n] > 0 /\ ~Taken(n)}
         IN  {n \in free : \A k \in free : Hits[u][k] <= Hits[u][n]}

\* username_for_email().
UsernameForEmail(email) ==
    LET free == {n \in 1 .. Cardinality(Everybody) : ~Taken(<<PrefixOf[email], n>>)}
    IN  <<PrefixOf[email], CHOOSE n \in free : \A k \in free : n <= k>>

\* The first BatchLimit of the positions in S.
FirstOf(S) == {i \in S : Cardinality({j \in S : j < i}) < BatchLimit}

\* Mutant: every user is given one.
EveryBatch == FirstOf(DOMAIN OldUsers)

\* The old users without a username.
Unnamed == {i \in DOMAIN OldUsers : accounts[OldUsers[i]].username = NoName}

\* The query of ensure_usernames_batch(): the oldest BatchLimit of them.
NextBatch == FirstOf(Unnamed)

Naming == [at |-> "names", todo |-> NextBatch, seen |-> Cardinality(NextBatch), done |-> 0]

\* main() up to the first batch.
Boot ==
    /\ boot = Down
    /\ boot' = Naming
    /\ failing' = FALSE
    /\ UNCHANGED <<accounts, legacy, commenter, faults, crashes>>

\* The position of the cursor in the batch.
Oldest(S) == CHOOSE i \in S : \A j \in S : i <= j

\* ensure_usernames_batch() for one user.
NameUser ==
    /\ boot.at = "names"
    /\ boot.todo # {}
    /\ LET i == Oldest(boot.todo)
           u == OldUsers[i]
       IN  \/ /\ \E name \in IF FoldersOf(u) # {} THEN FoldersOf(u) ELSE {UsernameForEmail(EmailOf[u])} :
                    accounts' = [accounts EXCEPT ![u].username = name]
              /\ boot' = [boot EXCEPT !.todo = @ \ {i}, !.done = @ + 1]
              /\ UNCHANGED <<legacy, commenter, failing, faults>>
           \/ /\ Fails
              /\ boot' = [boot EXCEPT !.todo = @ \ {i}]
    /\ UNCHANGED crashes

\* cms_users_ensure_usernames(): another batch only after a full one that
\* got somewhere; the unique index then finds no name twice.
EndBatch ==
    /\ boot.at = "names"
    /\ boot.todo = {}
    /\ boot' = IF boot.done > 0 /\ boot.seen = BatchLimit THEN Naming ELSE [at |-> "cursor", todo |-> legacy]
    /\ UNCHANGED <<accounts, legacy, commenter, failing, faults, crashes>>

-----------------------------------------------------------------------------
(* Commenters.                                                             *)

\* The users of a legacy commenter's address.
UsersOf(c) == {u \in DOMAIN accounts : accounts[u].email = EmailOf[c]}

\* The next document of the cursor, and what it becomes.
TakeCommenter(c) ==
    /\ boot.at = "cursor"
    /\ c \in boot.todo
    /\ \/ \E u \in UsersOf(c) :
            boot' = [at |-> "merge", todo |-> boot.todo \ {c}, doc |-> c, user |-> u]
       \/ /\ UsersOf(c) = {}
          /\ boot' = [at |-> "insert", todo |-> boot.todo \ {c}, doc |-> c]
    /\ UNCHANGED <<accounts, legacy, commenter, failing, faults, crashes>>

Skip == boot' = [at |-> "cursor", todo |-> boot.todo]

\* Mutant: their comments are forgotten.
MergeOnly ==
    /\ boot.at = "merge"
    /\ \/ /\ accounts' = [accounts EXCEPT ![boot.user].verified = @ \/ boot.doc \in Verified]
          /\ boot' = [at |-> "delete", todo |-> boot.todo, doc |-> boot.doc]
          /\ UNCHANGED <<legacy, commenter, failing, faults>>
       \/ Fails /\ Skip
    /\ UNCHANGED crashes

\* Into the user with that address: their verification, or else the block.
Merge ==
    /\ boot.at = "merge"
    /\ \/ /\ accounts' = [accounts EXCEPT ![boot.user] =
                             IF boot.doc \in Verified THEN [@ EXCEPT !.verified = TRUE]
                                                      ELSE [@ EXCEPT !.blocked = boot.doc \in Blocked]]
          /\ boot' = [boot EXCEPT !.at = "repoint"]
          /\ UNCHANGED <<legacy, commenter, failing, faults>>
       \/ Fails /\ Skip
    /\ UNCHANGED crashes

\* Their comments to that user.
Repoint ==
    /\ boot.at = "repoint"
    /\ \/ /\ commenter' = [c \in Legacy |-> IF commenter[c] = boot.doc THEN boot.user ELSE commenter[c]]
          /\ boot' = [at |-> "delete", todo |-> boot.todo, doc |-> boot.doc]
          /\ UNCHANGED <<accounts, legacy, failing, faults>>
       \/ Fails /\ Skip
    /\ UNCHANGED crashes

\* A user of their own, with the _id they had.
InsertCommenter ==
    /\ boot.at = "insert"
    /\ \/ /\ accounts' = [u \in DOMAIN accounts \cup {boot.doc} |->
                            IF u = boot.doc
                            THEN [email |-> EmailOf[u], verified |-> u \in Verified, blocked |-> u \in Blocked,
                                  username |-> UsernameForEmail(EmailOf[u])]
                            ELSE accounts[u]]
          /\ boot' = [boot EXCEPT !.at = "delete"]
          /\ UNCHANGED <<legacy, commenter, failing, faults>>
       \/ Fails /\ Skip
    /\ UNCHANGED crashes

\* The delete, whose result nobody reads.
DeleteLegacy ==
    /\ boot.at = "delete"
    /\ \/ legacy' = legacy \ {boot.doc} /\ UNCHANGED <<accounts, commenter, failing, faults>>
       \/ Fails
    /\ Skip
    /\ UNCHANGED crashes

\* The cursor is exhausted, and the server comes up.
ComeUp ==
    /\ boot.at = "cursor"
    /\ boot.todo = {}
    /\ boot' = [at |-> "up"]
    /\ UNCHANGED <<accounts, legacy, commenter, failing, faults, crashes>>

-----------------------------------------------------------------------------

\* The server is killed, or stops.
Crash ==
    /\ boot # Down
    /\ crashes < MaxCrashes
    /\ crashes' = crashes + 1
    /\ boot' = Down
    /\ UNCHANGED <<accounts, legacy, commenter, failing, faults>>

StartNext ==
    \/ Boot \/ NameUser \/ EndBatch
    \/ \E c \in legacy : TakeCommenter(c)
    \/ Merge \/ Repoint \/ InsertCommenter \/ DeleteLegacy \/ ComeUp
    \/ Crash

StartSpec == StartInit /\ [][StartNext]_startVars

-----------------------------------------------------------------------------
(* Properties.                                                             *)

\* No two users get one username, so the unique index can be built, through
\* failed writes and restarts at any point.
UsernamesUnique ==
    \A u, v \in DOMAIN accounts :
        accounts[u].username = accounts[v].username => u = v \/ accounts[u].username = NoName

\* Every comment belongs to a user, or to a commenter still to be moved.
NoOrphanComment == \A c \in Legacy : commenter[c] \in DOMAIN accounts \cup legacy

\* On their way into users a verified address stays verified, and who is
\* blocked and becomes a user of their own stays blocked, unless another
\* commenter of the same address is merged into them.
StandingKept ==
    /\ \A c \in Verified \ legacy : \E u \in UsersOf(c) : accounts[u].verified
    /\ \A c \in Blocked \cap DOMAIN accounts :
          accounts[c].blocked \/ \E d \in Legacy \ {c} : EmailOf[d] = EmailOf[c]

\* A server that is up and whose writes succeeded has no user without a
\* username and no commenter left to move.
UpMeansMigrated ==
    boot.at = "up" /\ ~failing
        => legacy = {} /\ \A u \in DOMAIN accounts : accounts[u].username # NoName

\* The migrations lose nobody, through failed writes and restarts at any point.
MigrationInv == UsernamesUnique /\ NoOrphanComment /\ StandingKept /\ UpMeansMigrated

\* A username, which names the folder of the user's files, never changes.
UsernameStable ==
    [][\A u \in DOMAIN accounts :
        accounts[u].username # NoName => accounts'[u].username = accounts[u].username]_startVars
=============================================================================
