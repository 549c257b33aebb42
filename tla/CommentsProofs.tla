--------------------------- MODULE CommentsProofs ---------------------------
(***************************************************************************)
(* Proofs about Comments, for any number of threads, comments, addresses   *)
(* and links: what confirmation, resends and moderation can do to a        *)
(* comment however their writes interleave, and that the captcha and the   *)
(* limit per address hold although neither is checked and kept in one step.*)
(***************************************************************************)
EXTENDS Comments, FiniteSetTheorems, TLAPS

CommentDoc ==
    [status : Statuses \cup {"none", "gone"}, by : Emails \cup {NoEmail}, at : Nat,
     expires : Nat, reply : BOOLEAN, nonce : Nonces \cup {NoNonce}]

\* What a thread can be doing.
Points ==
    {"idle", "limits", "lookup", "insert", "rename", "store", "token", "mail", "notice",
     "confirm", "spend", "mark", "approve", "reject", "delete", "resend", "reply",
     "reply/delete", "replyPending", "replyApproved", "purge", "drop"}

Job ==
    [at : Points, email : Emails \cup {NoEmail}, name : Names \cup {NoName},
     nonce : Nonces \cup {NoNonce}, id : Nat, link : Nat, until : Nat,
     flag : BOOLEAN, cookie : BOOLEAN, blocked : BOOLEAN, again : BOOLEAN]

UserDoc ==
    [role : {"none", "commenter", "author"}, name : Names \cup {NoName, "author"},
     verified : BOOLEAN, blocked : BOOLEAN]

Types ==
    /\ users \in [Emails -> UserDoc]
    /\ comment \in [CommentIds -> CommentDoc]
    /\ req \in [Threads -> Job]
    /\ told \in [CommentIds -> Nat]
    /\ tokens \subseteq [link : Nat, id : Nat, expires : Nat]
    /\ links \in Nat
    /\ now \in Nat

-----------------------------------------------------------------------------
\* A thread that will tell the author of comment c.
WillTell(p, c) ==
    /\ req[p].id = c
    /\ req[p].at \in {"mark", "notice"} \/ (req[p].at = "spend" /\ req[p].flag)

\* The author is told by the one request that took the comment out of
\* "unverified": nobody is on the way before, and at most one after.
TellInv ==
    \A c \in CommentIds :
        /\ told[c] <= 1
        /\ comment[c].status \in {"none", "unverified"} =>
              told[c] = 0 /\ \A p \in Threads : ~WillTell(p, c)
        /\ \A p, q \in Threads : WillTell(p, c) /\ WillTell(q, c) => p = q
        /\ \A p \in Threads : WillTell(p, c) => told[c] = 0

\* A link belongs to one comment and is never drawn twice; a link being spent
\* is of a comment that is no longer unverified.
LinkInv ==
    /\ \A t \in tokens : t.link <= links
    /\ \A t, u \in tokens : t.link = u.link => t.id = u.id
    /\ \A p \in Threads : req[p].at \in {"confirm", "spend"} =>
          /\ req[p].link <= links
          /\ \A t \in tokens : t.link = req[p].link => t.id = req[p].id
    /\ \A p \in Threads, c \in CommentIds :
          req[p].at = "spend" /\ req[p].id = c => comment[c].status \notin {"none", "unverified"}

\* What a link or a request names is a comment that was stored.
KnownInv ==
    /\ \A t \in tokens, c \in CommentIds : t.id = c => comment[c].status # "none"
    /\ \A p \in Threads, c \in CommentIds :
          req[p].at \in {"token", "drop", "confirm"} /\ req[p].id = c => comment[c].status # "none"

\* NeverStranded without its excuse for threads that are confirming.
HasLink ==
    \A c \in CommentIds :
        comment[c].status = "unverified" /\ ~Busy(c) /\ c \notin orphans => \E t \in tokens : t.id = c

CInv ==
    Types /\ ProvedBeforeQueue /\ OnlyUnverifiedExpire /\ TellInv /\ LinkInv /\ KnownInv /\ HasLink

-----------------------------------------------------------------------------
(* Steps that no part of the invariant but the comments' own depends on.   *)

Special == {"token", "drop", "confirm", "spend", "mark", "notice"}

\* A comment is moderated or removed, or stays as it is.
Forward(c) ==
    /\ comment'[c].status \in {"none", "unverified", "pending"} => comment'[c].status = comment[c].status
    /\ comment'[c].status \in Statuses /\ comment'[c].expires # Never =>
          comment'[c].status = comment[c].status /\ comment'[c].expires = comment[c].expires

QuietStep ==
    /\ UNCHANGED <<tokens, links, proved, told, orphans>>
    /\ \A c \in CommentIds : Forward(c)
    /\ \A p \in Threads : req'[p] = req[p] \/ (req[p].at \notin Special /\ req'[p].at \notin Special)

LEMMA QuietKeeps ==
    ASSUME CInv, Types', QuietStep
    PROVE  CInv'
  <1>1. ProvedBeforeQueue' /\ OnlyUnverifiedExpire'
    <2>1. ProvedBeforeQueue'
      BY DEF CInv, ProvedBeforeQueue, QuietStep, Forward
    <2>2. OnlyUnverifiedExpire'
      BY DEF CInv, OnlyUnverifiedExpire, QuietStep, Forward, Stored
    <2> QED
      BY <2>1, <2>2
  <1>2. \A p \in Threads, c \in CommentIds : WillTell(p, c)' => WillTell(p, c)
    BY DEF WillTell, QuietStep, Special
  <1>3. TellInv'
    BY <1>2 DEF CInv, TellInv, QuietStep, Forward
  <1>4. LinkInv'
    <2>1. \A p \in Threads : req'[p].at \in {"confirm", "spend"} => req'[p] = req[p]
      BY DEF QuietStep, Special
    <2>2. \A p \in Threads, c \in CommentIds :
             req'[p].at = "spend" /\ req'[p].id = c => comment'[c].status \notin {"none", "unverified"}
      BY <2>1 DEF CInv, LinkInv, QuietStep, Forward
    <2>3. \A p \in Threads : req'[p].at \in {"confirm", "spend"} =>
             /\ req'[p].link <= links
             /\ \A t \in tokens : t.link = req'[p].link => t.id = req'[p].id
      BY <2>1 DEF CInv, LinkInv
    <2>4. tokens' = tokens /\ links' = links
      BY DEF QuietStep
    <2> QED
      BY <2>2, <2>3, <2>4 DEF CInv, LinkInv
  <1>5. HasLink'
    <2>1. \A c \in CommentIds : Busy(c) => Busy(c)'
      BY DEF Busy, QuietStep, Special
    <2> QED
      BY <2>1 DEF CInv, HasLink, QuietStep, Forward
  <1>6. KnownInv'
    <2>1. \A p \in Threads : req'[p].at \in {"token", "drop", "confirm"} => req'[p] = req[p]
      BY DEF QuietStep, Special
    <2>2. tokens' = tokens /\ \A c \in CommentIds : comment'[c].status = "none" => comment[c].status = "none"
      BY DEF QuietStep, Forward
    <2> QED
      BY <2>1, <2>2 DEF CInv, KnownInv
  <1> QED
    BY <1>1, <1>3, <1>4, <1>5, <1>6 DEF CInv

-----------------------------------------------------------------------------
(* Every action keeps the types.                                           *)

ReqTypes == req \in [Threads -> Job]

LEMMA IdleJob == Idle \in Job
  BY DEF Idle, Job, Never, Points

LEMMA BeginTypes ==
    ASSUME Types, NEW p \in Threads, NEW r \in Job, Begin(p, r)
    PROVE  ReqTypes'
  BY DEF Begin, Types, ReqTypes

LEMMA DoneTypes ==
    ASSUME Types, NEW p \in Threads, Done(p)
    PROVE  ReqTypes'
  BY IdleJob DEF Done, Types, ReqTypes

LEMMA GotoTypes ==
    ASSUME Types, NEW p \in Threads, NEW a \in Points, Goto(p, a)
    PROVE  ReqTypes'
  BY DEF Goto, Types, ReqTypes, Job

\* Two or three fields of a job at once.
LEMMA LinkField ==
    ASSUME ReqTypes, NEW p \in Threads, NEW a \in Points, NEW n \in Nat,
           req' = [req EXCEPT ![p].at = a, ![p].link = n]
    PROVE  ReqTypes'
  <1>1. [req[p] EXCEPT !.at = a, !.link = n] \in Job
    BY DEF ReqTypes, Job
  <1>2. req' = [req EXCEPT ![p] = [req[p] EXCEPT !.at = a, !.link = n]]
    OBVIOUS
  <1> QED
    BY <1>1, <1>2 DEF ReqTypes

LEMMA UntilField ==
    ASSUME ReqTypes, NEW p \in Threads, NEW a \in Points, NEW n \in Nat,
           req' = [req EXCEPT ![p].at = a, ![p].until = n]
    PROVE  ReqTypes'
  <1>1. [req[p] EXCEPT !.at = a, !.until = n] \in Job
    BY DEF ReqTypes, Job
  <1>2. req' = [req EXCEPT ![p] = [req[p] EXCEPT !.at = a, !.until = n]]
    OBVIOUS
  <1> QED
    BY <1>1, <1>2 DEF ReqTypes

LEMMA FlagField ==
    ASSUME ReqTypes, NEW p \in Threads, NEW a \in Points, NEW b \in BOOLEAN,
           req' = [req EXCEPT ![p].at = a, ![p].flag = b]
    PROVE  ReqTypes'
  <1>1. [req[p] EXCEPT !.at = a, !.flag = b] \in Job
    BY DEF ReqTypes, Job
  <1>2. req' = [req EXCEPT ![p] = [req[p] EXCEPT !.at = a, !.flag = b]]
    OBVIOUS
  <1> QED
    BY <1>1, <1>2 DEF ReqTypes

LEMMA AgainField ==
    ASSUME ReqTypes, NEW p \in Threads, NEW a \in Points, NEW b \in BOOLEAN,
           req' = [req EXCEPT ![p].at = a, ![p].again = b]
    PROVE  ReqTypes'
  <1>1. [req[p] EXCEPT !.at = a, !.again = b] \in Job
    BY DEF ReqTypes, Job
  <1>2. req' = [req EXCEPT ![p] = [req[p] EXCEPT !.at = a, !.again = b]]
    OBVIOUS
  <1> QED
    BY <1>1, <1>2 DEF ReqTypes

LEMMA IdFields ==
    ASSUME ReqTypes, NEW p \in Threads, NEW a \in Points, NEW n \in Nat, NEW m \in Nat,
           req' = [req EXCEPT ![p].at = a, ![p].id = n, ![p].until = m]
    PROVE  ReqTypes'
  <1>1. [req[p] EXCEPT !.at = a, !.id = n, !.until = m] \in Job
    BY DEF ReqTypes, Job
  <1>2. req' = [req EXCEPT ![p] = [req[p] EXCEPT !.at = a, !.id = n, !.until = m]]
    OBVIOUS
  <1> QED
    BY <1>1, <1>2 DEF ReqTypes

LEMMA WritingTypes ==
    ASSUME Types, NEW p \in Threads,
           \/ \E e \in Emails, n \in Names, k \in Nonces, b \in BOOLEAN : Post(p, e, n, k, b)
           \/ CheckLimits(p) \/ LookUp(p) \/ Rename(p) \/ NewCommenter(p) \/ Store(p)
           \/ StoreFails(p) \/ DrawLink(p) \/ MailLink(p) \/ Notify(p)
    PROVE  Types'
  <1>1. CASE \E e \in Emails, n \in Names, k \in Nonces, b \in BOOLEAN : Post(p, e, n, k, b)
    <2>1. PICK e \in Emails, n \in Names, k \in Nonces, b \in BOOLEAN : Post(p, e, n, k, b)
      BY <1>1
    <2>2. [Idle EXCEPT !.at = "limits", !.email = e, !.name = n, !.nonce = k, !.cookie = b] \in Job
      BY DEF Idle, Job, Never, Points
    <2>3. ReqTypes'
      BY <2>1, <2>2, BeginTypes DEF Post
    <2> QED
      BY <2>1, <2>3 DEF Post, Types, ReqTypes
  <1>2. CASE CheckLimits(p)
    <2>1. ReqTypes'
      BY <1>2, GotoTypes, DoneTypes DEF CheckLimits, Points
    <2> QED
      BY <1>2, <2>1 DEF CheckLimits, Types, ReqTypes, dbVars
  <1>3. CASE LookUp(p)
    <2>1. ReqTypes'
      <3>1. CASE NameTaken(req[p].email, req[p].name)
        BY <1>3, <3>1, DoneTypes DEF LookUp
      <3>2. CASE ~NameTaken(req[p].email, req[p].name)
        BY <1>3, <3>2 DEF LookUp, Types, ReqTypes, Job, Points, UserDoc
      <3> QED
        BY <3>1, <3>2
    <2> QED
      BY <1>3, <2>1 DEF LookUp, Types, ReqTypes, dbVars
  <1>4. CASE Rename(p)
    <2>1. ReqTypes'
      BY <1>4, GotoTypes, DoneTypes DEF Rename, Points
    <2>2. users' \in [Emails -> UserDoc]
      BY <1>4 DEF Rename, Types, Job, UserDoc
    <2> QED
      BY <1>4, <2>1, <2>2 DEF Rename, Types, ReqTypes
  <1>5. CASE NewCommenter(p)
    <2>1. ReqTypes'
      <3>1. CASE req' = [req EXCEPT ![p].at = "lookup", ![p].again = TRUE]
        BY <3>1, AgainField DEF Types, ReqTypes, Points
      <3> QED
        BY <1>5, <3>1, GotoTypes, DoneTypes DEF NewCommenter, Points
    <2>2. users' \in [Emails -> UserDoc]
      <3>1. \/ users' = users
            \/ users' = [users EXCEPT ![req[p].email] = NewUser(req[p].name)]
        BY <1>5 DEF NewCommenter
      <3>2. NewUser(req[p].name) \in UserDoc
        BY DEF NewUser, UserDoc, Types, Job
      <3> QED
        BY <3>1, <3>2 DEF Types
    <2> QED
      BY <1>5, <2>1, <2>2 DEF NewCommenter, Types, ReqTypes
  <1>6. CASE Store(p)
    <2>1. PICK c \in CommentIds :
             /\ comment' = [comment EXCEPT ![c] =
                   [status |-> IF Remembered(req[p]) THEN "pending" ELSE "unverified", by |-> req[p].email,
                    at |-> now, expires |-> IF Remembered(req[p]) THEN Never ELSE now + VerifyTime,
                    reply |-> FALSE, nonce |-> req[p].nonce]]
             /\ req' = [req EXCEPT ![p].at = IF Remembered(req[p]) THEN "notice" ELSE "token", ![p].id = c,
                                 ![p].until = now + VerifyTime]
      BY <1>6 DEF Store
    <2>2. now + VerifyTime \in Nat /\ c \in Nat
      BY CommentsAssumption DEF Types
    <2>3. ReqTypes'
      BY <2>1, <2>2, IdFields DEF Types, ReqTypes, Points
    <2>4. comment' \in [CommentIds -> CommentDoc]
      BY <2>1, <2>2 DEF Types, CommentDoc, Job, Statuses, Never
    <2> QED
      BY <1>6, <2>3, <2>4 DEF Store, Types, ReqTypes
  <1>7. CASE DrawLink(p)
    <2>1. links' \in Nat /\ tokens' \subseteq [link : Nat, id : Nat, expires : Nat]
      BY <1>7 DEF DrawLink, Types, Job
    <2>2. ReqTypes'
      <3>1. CASE req' = [req EXCEPT ![p].at = "mail", ![p].link = links']
        BY <2>1, <3>1, LinkField DEF Types, ReqTypes, Points
      <3> QED
        BY <1>7, <3>1, DoneTypes DEF DrawLink
    <2> QED
      BY <1>7, <2>1, <2>2 DEF DrawLink, Types, ReqTypes
  <1>8. CASE MailLink(p)
    <2>1. ReqTypes'
      BY <1>8, DoneTypes DEF MailLink
    <2> QED
      BY <1>8, <2>1 DEF MailLink, Types, ReqTypes, dbVars
  <1>9. CASE Notify(p)
    <2>1. ReqTypes'
      BY <1>9, DoneTypes DEF Notify
    <2>2. told' \in [CommentIds -> Nat]
      <3>1. told' = told \/ told' = [told EXCEPT ![req[p].id] = @ + 1]
        BY <1>9 DEF Notify
      <3> QED
        BY <3>1 DEF Types
    <2> QED
      BY <1>9, <2>1, <2>2 DEF Notify, Types, ReqTypes, dbVars
  <1>10. CASE StoreFails(p)
    <2>1. ReqTypes'
      BY <1>10, DoneTypes DEF StoreFails
    <2> QED
      BY <1>10, <2>1 DEF StoreFails, Types, ReqTypes, dbVars
  <1> QED
    BY <1>1, <1>2, <1>3, <1>4, <1>5, <1>6, <1>7, <1>8, <1>9, <1>10

\* A write that changes one comment keeps the comments' type.
CommentTypes == comment \in [CommentIds -> CommentDoc]

LEMMA WriteTypes ==
    ASSUME Types, NEW c, NEW doc, c \in CommentIds => doc \in CommentDoc,
           comment' = [comment EXCEPT ![c] = doc]
    PROVE  CommentTypes'
  BY DEF Types, CommentTypes

LEMMA StatusTypes ==
    ASSUME Types, NEW c, NEW st \in Statuses,
           comment' = [comment EXCEPT ![c].status = st, ![c].expires = Never]
    PROVE  CommentTypes'
  <1>1. c \in CommentIds => [comment[c] EXCEPT !.status = st, !.expires = Never] \in CommentDoc
    BY DEF Types, CommentDoc, Never
  <1>2. comment' = [comment EXCEPT ![c] = [comment[c] EXCEPT !.status = st, !.expires = Never]]
    OBVIOUS
  <1> QED
    BY <1>1, <1>2, WriteTypes

LEMMA GoneTypes ==
    ASSUME Types, NEW c, comment' = [comment EXCEPT ![c].status = "gone"]
    PROVE  CommentTypes'
  <1>1. c \in CommentIds => [comment[c] EXCEPT !.status = "gone"] \in CommentDoc
    BY DEF Types, CommentDoc
  <1> QED
    BY <1>1, WriteTypes

LEMMA ExpiresTypes ==
    ASSUME Types, NEW c, NEW n \in Nat, comment' = [comment EXCEPT ![c].expires = n]
    PROVE  CommentTypes'
  <1>1. c \in CommentIds => [comment[c] EXCEPT !.expires = n] \in CommentDoc
    BY DEF Types, CommentDoc
  <1> QED
    BY <1>1, WriteTypes

LEMMA ReplyTypes ==
    ASSUME Types, NEW c, NEW b \in BOOLEAN, comment' = [comment EXCEPT ![c].reply = b]
    PROVE  CommentTypes'
  <1>1. c \in CommentIds => [comment[c] EXCEPT !.reply = b] \in CommentDoc
    BY DEF Types, CommentDoc
  <1> QED
    BY <1>1, WriteTypes

LEMMA ConfirmingTypes ==
    ASSUME Types, NEW p \in Threads,
           (\E t \in tokens : Verify(p, t)) \/ Confirm(p) \/ Spend(p) \/ Mark(p)
    PROVE  Types'
  <1>1. CASE \E t \in tokens : Verify(p, t)
    <2>1. PICK t \in tokens : Verify(p, t)
      BY <1>1
    <2>2. [Idle EXCEPT !.at = "confirm", !.link = t.link, !.id = t.id] \in Job
      BY DEF Types, Idle, Job, Never, Points
    <2>3. ReqTypes'
      BY <2>1, <2>2, BeginTypes DEF Verify
    <2> QED
      BY <2>1, <2>3 DEF Verify, Types, ReqTypes, dbVars
  <1>2. CASE Confirm(p)
    <2>1. CommentTypes'
      <3>1. \/ comment' = comment
            \/ comment' = [comment EXCEPT ![req[p].id].status = "pending", ![req[p].id].expires = Never]
        BY <1>2 DEF Confirm
      <3> QED
        BY <3>1, StatusTypes DEF Types, CommentTypes, Statuses
    <2>2. PICK b \in BOOLEAN : req' = [req EXCEPT ![p].at = "spend", ![p].flag = b]
      BY <1>2 DEF Confirm
    <2>3. ReqTypes'
      BY <2>2, FlagField DEF Types, ReqTypes, Points
    <2> QED
      BY <1>2, <2>1, <2>3 DEF Confirm, Types, ReqTypes, CommentTypes
  <1>3. CASE Spend(p)
    <2>1. ReqTypes'
      BY <1>3, GotoTypes, DoneTypes DEF Spend, Points
    <2> QED
      BY <1>3, <2>1 DEF Spend, Types, ReqTypes
  <1>4. CASE Mark(p)
    <2>1. ReqTypes'
      BY <1>4, GotoTypes DEF Mark, Points
    <2>2. PICK e : users' = [users EXCEPT ![e].verified = TRUE]
      BY <1>4 DEF Mark
    <2>3. users' \in [Emails -> UserDoc]
      BY <2>2 DEF Types, UserDoc
    <2> QED
      BY <1>4, <2>1, <2>3 DEF Mark, Types, ReqTypes
  <1> QED
    BY <1>1, <1>2, <1>3, <1>4

\* The posts a moderator's page sends, but for those about an address.
Verbs == {"approve", "reject", "delete", "resend", "reply", "reply/delete"}

LEMMA ModeratingTypes ==
    ASSUME Types, NEW p \in Threads,
           \/ \E s \in Staff, c \in CommentIds, v \in Verbs : Moderate(p, s, v, c)
           \/ \E e \in Emails, v \in {"block", "unblock", "block-delete"} : Block(p, v, e)
           \/ SetStatus(p) \/ Delete(p) \/ ReadReply(p) \/ WriteReply(p) \/ DeleteReply(p) \/ Purge(p)
           \/ Extend(p) \/ DropLinks(p)
    PROVE  Types'
  <1>1. CASE \E s \in Staff, c \in CommentIds, v \in Verbs : Moderate(p, s, v, c)
    <2>1. PICK s \in Staff, c \in CommentIds, v \in Verbs : Moderate(p, s, v, c)
      BY <1>1
    <2>2. [Idle EXCEPT !.at = v, !.id = c] \in Job
      BY CommentsAssumption DEF Idle, Job, Never, Points, Verbs
    <2>3. ReqTypes'
      BY <2>1, <2>2, BeginTypes DEF Moderate
    <2> QED
      BY <2>1, <2>3 DEF Moderate, Types, ReqTypes, dbVars
  <1>2. CASE \E e \in Emails, v \in {"block", "unblock", "block-delete"} : Block(p, v, e)
    <2>1. PICK e \in Emails, v \in {"block", "unblock", "block-delete"} : Block(p, v, e)
      BY <1>2
    <2>2. [Idle EXCEPT !.at = "purge", !.email = e] \in Job
      BY DEF Idle, Job, Never, Points
    <2>3. ReqTypes'
      BY <2>1, <2>2, IdleJob, BeginTypes DEF Block
    <2>4. PICK b \in BOOLEAN : users' = [users EXCEPT ![e].blocked = b]
      BY <2>1 DEF Block
    <2>5. users' \in [Emails -> UserDoc]
      BY <2>4 DEF Types, UserDoc
    <2> QED
      BY <2>1, <2>3, <2>5 DEF Block, Types, ReqTypes
  <1>3. CASE SetStatus(p)
    <2>1. ReqTypes'
      BY <1>3, DoneTypes DEF SetStatus
    <2>2. PICK st \in Statuses :
             \/ comment' = comment
             \/ comment' = [comment EXCEPT ![req[p].id].status = st, ![req[p].id].expires = Never]
      BY <1>3 DEF SetStatus, Statuses
    <2>3. CommentTypes'
      BY <2>2, StatusTypes DEF Types, CommentTypes
    <2> QED
      BY <1>3, <2>1, <2>3 DEF SetStatus, Types, ReqTypes, CommentTypes
  <1>4. CASE Delete(p)
    <2>1. ReqTypes' /\ CommentTypes'
      BY <1>4, DoneTypes, GoneTypes DEF Delete
    <2> QED
      BY <1>4, <2>1 DEF Delete, Types, ReqTypes, CommentTypes
  <1>5. CASE ReadReply(p)
    <2>1. Done(p) \/ \E a \in Points : req' = [req EXCEPT ![p].at = a]
      BY <1>5 DEF ReadReply, Points
    <2>2. ReqTypes'
      BY <2>1, DoneTypes, GotoTypes DEF Goto
    <2> QED
      BY <1>5, <2>2 DEF ReadReply, Types, ReqTypes, dbVars
  <1>6. CASE WriteReply(p)
    <2>1. ReqTypes'
      BY <1>6, DoneTypes, GotoTypes DEF WriteReply, Points
    <2>2. CommentTypes'
      <3>1. comment' = comment \/ comment' = [comment EXCEPT ![req[p].id].reply = TRUE]
        BY <1>6 DEF WriteReply
      <3> QED
        BY <3>1, ReplyTypes DEF Types, CommentTypes
    <2> QED
      BY <1>6, <2>1, <2>2 DEF WriteReply, Types, ReqTypes, CommentTypes
  <1>7. CASE DeleteReply(p)
    <2>1. ReqTypes' /\ CommentTypes'
      BY <1>7, DoneTypes, ReplyTypes DEF DeleteReply
    <2> QED
      BY <1>7, <2>1 DEF DeleteReply, Types, ReqTypes, CommentTypes
  <1>8. CASE Purge(p)
    <2>1. ReqTypes'
      BY <1>8, DoneTypes DEF Purge
    <2>2. \A c \in CommentIds : [comment[c] EXCEPT !.status = "gone"] \in CommentDoc
      BY DEF Types, CommentDoc
    <2>3. CommentTypes'
      BY <1>8, <2>2 DEF Purge, Types, CommentTypes
    <2> QED
      BY <1>8, <2>1, <2>3 DEF Purge, Types, ReqTypes, CommentTypes
  <1>9. CASE Extend(p)
    <2>1. now + VerifyTime \in Nat
      BY CommentsAssumption DEF Types
    <2>2. \/ Done(p) /\ comment' = comment
          \/ /\ comment' = [comment EXCEPT ![req[p].id].expires = now + VerifyTime]
             /\ req' = [req EXCEPT ![p].at = "drop", ![p].until = now + VerifyTime]
      BY <1>9 DEF Extend
    <2>3. ReqTypes'
      BY <2>1, <2>2, DoneTypes, UntilField DEF Types, ReqTypes, Points
    <2>4. CommentTypes'
      BY <2>1, <2>2, ExpiresTypes DEF Types, CommentTypes
    <2> QED
      BY <1>9, <2>3, <2>4 DEF Extend, Types, ReqTypes, CommentTypes
  <1>10. CASE DropLinks(p)
    <2>1. ReqTypes'
      BY <1>10, GotoTypes DEF DropLinks, Points
    <2> QED
      BY <1>10, <2>1 DEF DropLinks, Types, ReqTypes
  <1> QED
    BY <1>1, <1>2, <1>3, <1>4, <1>5, <1>6, <1>7, <1>8, <1>9, <1>10

LEMMA WorldTypes ==
    ASSUME Types,
           \/ Tick
           \/ \E k \in Nonces : ShowForm(k)
           \/ \E u \in used : ForgetNonce(u)
           \/ \E c \in CommentIds : Expire(c)
    PROVE  Types'
  <1>1. CASE Tick
    BY <1>1 DEF Tick, Types, dbVars
  <1>2. CASE \E k \in Nonces : ShowForm(k)
    BY <1>2 DEF ShowForm, Types, dbVars
  <1>3. CASE \E u \in used : ForgetNonce(u)
    BY <1>3 DEF ForgetNonce, Types
  <1>4. CASE \E c \in CommentIds : Expire(c)
    <2>1. CommentTypes'
      BY <1>4, GoneTypes DEF Expire
    <2> QED
      BY <1>4, <2>1 DEF Expire, Types, CommentTypes
  <1> QED
    BY <1>1, <1>2, <1>3, <1>4

-----------------------------------------------------------------------------
(* The steps that are quiet.                                               *)

\* No thread but p moves, and p neither comes from nor goes to a point of the
\* invariant.
Aside(p) ==
    /\ req[p].at \notin Special /\ req'[p].at \notin Special
    /\ \A q \in Threads \ {p} : req'[q] = req[q]

LEMMA DoneAside ==
    ASSUME Types, NEW p \in Threads, req[p].at \notin Special, Done(p)
    PROVE  Aside(p)
  BY DEF Done, Aside, Special, Types, Idle

LEMMA GotoAside ==
    ASSUME Types, NEW p \in Threads, NEW a \in Points \ Special, req[p].at \notin Special, Goto(p, a)
    PROVE  Aside(p)
  BY DEF Goto, Aside, Special, Types, Job

LEMMA BeginAside ==
    ASSUME Types, NEW p \in Threads, NEW r \in Job, r.at \notin Special, Begin(p, r)
    PROVE  Aside(p)
  BY DEF Begin, Aside, Special, Types, Idle

LEMMA SameComments ==
    ASSUME UNCHANGED comment
    PROVE  \A c \in CommentIds : Forward(c)
  BY DEF Forward

LEMMA AsideQuiet ==
    ASSUME NEW p \in Threads, Aside(p), \A c \in CommentIds : Forward(c),
           UNCHANGED <<tokens, links, proved, told, orphans>>
    PROVE  QuietStep
  BY DEF Aside, QuietStep

LEMMA WritingQuiet ==
    ASSUME Types, NEW p \in Threads,
           \/ \E e \in Emails, n \in Names, k \in Nonces, b \in BOOLEAN : Post(p, e, n, k, b)
           \/ CheckLimits(p) \/ LookUp(p) \/ Rename(p) \/ NewCommenter(p) \/ StoreFails(p) \/ MailLink(p)
    PROVE  QuietStep
  <1>0. UNCHANGED <<comment, tokens, links, proved, told, orphans>>
    BY DEF Post, CheckLimits, LookUp, Rename, NewCommenter, StoreFails, MailLink, dbVars
  <1>1. CASE \E e \in Emails, n \in Names, k \in Nonces, b \in BOOLEAN : Post(p, e, n, k, b)
    <2>1. PICK e \in Emails, n \in Names, k \in Nonces, b \in BOOLEAN : Post(p, e, n, k, b)
      BY <1>1
    <2> DEFINE j == [Idle EXCEPT !.at = "limits", !.email = e, !.name = n, !.nonce = k, !.cookie = b]
    <2>2. j \in Job /\ j.at \notin Special
      BY DEF Idle, Job, Never, Points, Special
    <2>3. Begin(p, j)
      BY <2>1 DEF Post
    <2> QED
      BY <2>2, <2>3, BeginAside, <1>0, SameComments, AsideQuiet
  <1>2. CASE CheckLimits(p)
    <2>1. req[p].at \notin Special
      BY <1>2 DEF CheckLimits, At, Special
    <2>2. Aside(p)
      BY <1>2, <2>1, GotoAside, DoneAside DEF CheckLimits, Points, Special
    <2> QED
      BY <2>2, <1>0, SameComments, AsideQuiet
  <1>3. CASE LookUp(p)
    <2>1. req[p].at \notin Special
      BY <1>3 DEF LookUp, At, Special
    <2>2. \/ Done(p)
          \/ req' = [req EXCEPT ![p].at = IF users[req[p].email].role = "none" THEN "insert" ELSE "rename",
                                ![p].flag = users[req[p].email].verified,
                                ![p].blocked = users[req[p].email].blocked]
      BY <1>3 DEF LookUp
    <2>3. Aside(p)
      BY <2>1, <2>2, DoneAside DEF Aside, Types, Job, Special
    <2> QED
      BY <2>3, <1>0, SameComments, AsideQuiet
  <1>4. CASE Rename(p)
    <2>1. req[p].at \notin Special
      BY <1>4 DEF Rename, At, Special
    <2>2. Aside(p)
      BY <1>4, <2>1, GotoAside, DoneAside DEF Rename, Points, Special
    <2> QED
      BY <2>2, <1>0, SameComments, AsideQuiet
  <1>5. CASE NewCommenter(p)
    <2>1. req[p].at \notin Special
      BY <1>5 DEF NewCommenter, At, Special
    <2>2. Done(p) \/ Goto(p, "store") \/ req' = [req EXCEPT ![p].at = "lookup", ![p].again = TRUE]
      BY <1>5 DEF NewCommenter
    <2>3. ASSUME req' = [req EXCEPT ![p].at = "lookup", ![p].again = TRUE]
          PROVE  Aside(p)
      BY <2>1, <2>3 DEF Aside, Types, Job, Special
    <2>4. Aside(p)
      BY <2>1, <2>2, <2>3, GotoAside, DoneAside DEF Points, Special
    <2> QED
      BY <2>4, <1>0, SameComments, AsideQuiet
  <1>6. CASE MailLink(p)
    <2>1. req[p].at \notin Special /\ Done(p)
      BY <1>6 DEF MailLink, At, Special
    <2> QED
      BY <2>1, DoneAside, <1>0, SameComments, AsideQuiet
  <1>7. CASE StoreFails(p)
    <2>1. req[p].at \notin Special /\ Done(p)
      BY <1>7 DEF StoreFails, At, Special
    <2> QED
      BY <2>1, DoneAside, <1>0, SameComments, AsideQuiet
  <1> QED
    BY <1>1, <1>2, <1>3, <1>4, <1>5, <1>6, <1>7

\* A comment that is moderated or goes away moves forward.
LEMMA StatusForward ==
    ASSUME Types, NEW d, NEW st \in {"approved", "rejected"},
           comment' = [comment EXCEPT ![d].status = st, ![d].expires = Never]
    PROVE  \A c \in CommentIds : Forward(c)
  BY DEF Types, CommentDoc, Forward, Never

LEMMA GoneForward ==
    ASSUME Types, NEW d, comment' = [comment EXCEPT ![d].status = "gone"]
    PROVE  \A c \in CommentIds : Forward(c)
  BY DEF Types, CommentDoc, Forward, Statuses

LEMMA ReplyForward ==
    ASSUME Types, NEW d, NEW b \in BOOLEAN, comment' = [comment EXCEPT ![d].reply = b]
    PROVE  \A c \in CommentIds : Forward(c)
  BY DEF Types, CommentDoc, Forward

LEMMA ModeratingQuiet ==
    ASSUME Types, NEW p \in Threads,
           \/ \E s \in Staff, c \in CommentIds, v \in Verbs : Moderate(p, s, v, c)
           \/ \E e \in Emails, v \in {"block", "unblock", "block-delete"} : Block(p, v, e)
           \/ SetStatus(p) \/ Delete(p) \/ ReadReply(p) \/ WriteReply(p) \/ DeleteReply(p) \/ Purge(p)
    PROVE  QuietStep
  <1>0. UNCHANGED <<tokens, links, proved, told, orphans>>
    BY DEF Moderate, Block, SetStatus, Delete, ReadReply, WriteReply, DeleteReply, Purge, dbVars
  <1>1. CASE \E s \in Staff, c \in CommentIds, v \in Verbs : Moderate(p, s, v, c)
    <2>1. PICK s \in Staff, c \in CommentIds, v \in Verbs : Moderate(p, s, v, c)
      BY <1>1
    <2> DEFINE j == [Idle EXCEPT !.at = v, !.id = c]
    <2>2. j \in Job /\ j.at \notin Special
      BY CommentsAssumption DEF Idle, Job, Never, Points, Special, Verbs
    <2>3. Begin(p, j) /\ UNCHANGED comment
      BY <2>1 DEF Moderate, dbVars
    <2> HIDE DEF j
    <2> QED
      BY <2>2, <2>3, BeginAside, <1>0, SameComments, AsideQuiet
  <1>2. CASE \E e \in Emails, v \in {"block", "unblock", "block-delete"} : Block(p, v, e)
    <2>1. PICK e \in Emails, v \in {"block", "unblock", "block-delete"} : Block(p, v, e)
      BY <1>2
    <2> DEFINE j == IF v = "block-delete" THEN [Idle EXCEPT !.at = "purge", !.email = e] ELSE Idle
    <2>2. j \in Job /\ j.at \notin Special
      BY DEF Idle, Job, Never, Points, Special
    <2>3. Begin(p, j) /\ UNCHANGED comment
      BY <2>1 DEF Block
    <2> HIDE DEF j
    <2> QED
      BY <2>2, <2>3, BeginAside, <1>0, SameComments, AsideQuiet
  <1>3. CASE SetStatus(p)
    <2>1. req[p].at \notin Special /\ Done(p)
      BY <1>3 DEF SetStatus, At, Special
    <2>2. PICK st \in {"approved", "rejected"} :
             \/ UNCHANGED comment
             \/ comment' = [comment EXCEPT ![req[p].id].status = st, ![req[p].id].expires = Never]
      BY <1>3 DEF SetStatus
    <2>3. \A c \in CommentIds : Forward(c)
      BY <2>2, SameComments, StatusForward
    <2> QED
      BY <2>1, <2>3, DoneAside, <1>0, AsideQuiet
  <1>4. CASE Delete(p)
    <2>1. req[p].at \notin Special /\ Done(p)
      BY <1>4 DEF Delete, At, Special
    <2>2. \A c \in CommentIds : Forward(c)
      BY <1>4, GoneForward DEF Delete
    <2> QED
      BY <2>1, <2>2, DoneAside, <1>0, AsideQuiet
  <1>5. CASE ReadReply(p)
    <2>1. req[p].at \notin Special /\ UNCHANGED comment
      BY <1>5 DEF ReadReply, At, Special, dbVars
    <2>2. Done(p) \/ \E a \in Points \ Special : Goto(p, a)
      BY <1>5 DEF ReadReply, Points, Special, Goto
    <2>3. Aside(p)
      BY <2>1, <2>2, DoneAside, GotoAside
    <2> QED
      BY <2>1, <2>3, SameComments, <1>0, AsideQuiet
  <1>6. CASE WriteReply(p)
    <2>1. req[p].at \notin Special
      BY <1>6 DEF WriteReply, At, Special
    <2>2. Done(p) \/ Goto(p, "approve")
      BY <1>6 DEF WriteReply
    <2>3. Aside(p)
      BY <2>1, <2>2, DoneAside, GotoAside DEF Points, Special
    <2>4. UNCHANGED comment \/ comment' = [comment EXCEPT ![req[p].id].reply = TRUE]
      BY <1>6 DEF WriteReply
    <2>5. \A c \in CommentIds : Forward(c)
      BY <2>4, SameComments, ReplyForward
    <2> QED
      BY <2>3, <2>5, <1>0, AsideQuiet
  <1>7. CASE DeleteReply(p)
    <2>1. req[p].at \notin Special /\ Done(p)
      BY <1>7 DEF DeleteReply, At, Special
    <2>2. \A c \in CommentIds : Forward(c)
      BY <1>7, ReplyForward DEF DeleteReply
    <2> QED
      BY <2>1, <2>2, DoneAside, <1>0, AsideQuiet
  <1>8. CASE Purge(p)
    <2>1. req[p].at \notin Special /\ Done(p)
      BY <1>8 DEF Purge, At, Special
    <2>2. \A c \in CommentIds :
             comment'[c] = comment[c] \/ comment'[c] = [comment[c] EXCEPT !.status = "gone"]
      BY <1>8 DEF Purge
    <2>3. \A c \in CommentIds : comment'[c] = comment[c] \/ comment'[c].status = "gone"
      BY <2>2 DEF Types, CommentDoc
    <2>4. \A c \in CommentIds : Forward(c)
      BY <2>3 DEF Forward, Statuses
    <2> QED
      BY <2>1, <2>4, DoneAside, <1>0, AsideQuiet
  <1> QED
    BY <1>1, <1>2, <1>3, <1>4, <1>5, <1>6, <1>7, <1>8

LEMMA WorldQuiet ==
    ASSUME Types,
           \/ Tick
           \/ \E k \in Nonces : ShowForm(k)
           \/ \E u \in used : ForgetNonce(u)
           \/ \E c \in CommentIds : Expire(c)
    PROVE  QuietStep
  <1>1. UNCHANGED <<tokens, links, proved, told, orphans, req>>
    BY DEF Tick, ShowForm, ForgetNonce, Expire, dbVars
  <1>2. UNCHANGED comment \/ \E c \in CommentIds : comment' = [comment EXCEPT ![c].status = "gone"]
    BY DEF Tick, ShowForm, ForgetNonce, Expire, dbVars
  <1>3. \A c \in CommentIds : Forward(c)
    BY <1>2, SameComments, GoneForward
  <1> QED
    BY <1>1, <1>3 DEF QuietStep

-----------------------------------------------------------------------------
(* The steps of the invariant's own points, one at a time.                 *)

LEMMA ConfirmKeeps ==
    ASSUME CInv, Types', NEW p \in Threads, Confirm(p)
    PROVE  CInv'
  <1> DEFINE d == req[p].id
             match == comment[d].status = "unverified"
  <1>1. /\ req[p].at = "confirm"
        /\ \A q \in Threads \ {p} : req'[q] = req[q]
        /\ req'[p].at = "spend" /\ req'[p].id = d /\ req'[p].link = req[p].link /\ (req'[p].flag <=> match)
    BY DEF Confirm, At, CInv, Types, Job
  <1>2. UNCHANGED <<tokens, links, told, orphans>>
    BY DEF Confirm
  <1>3. \A c \in CommentIds :
           IF c = d /\ match THEN comment'[c].status = "pending" /\ comment'[c].expires = Never
           ELSE comment'[c] = comment[c]
    BY DEF Confirm, CInv, Types, CommentDoc
  <1>4. proved \subseteq proved' /\ (match => d \in proved')
    BY DEF Confirm
  <1> HIDE DEF d, match
  <1>5. ProvedBeforeQueue'
    BY <1>3, <1>4 DEF CInv, ProvedBeforeQueue
  <1>6. OnlyUnverifiedExpire'
    BY <1>3 DEF CInv, OnlyUnverifiedExpire, Stored
  <1>7. TellInv'
    <2>1. \A q \in Threads \ {p}, c \in CommentIds : WillTell(q, c)' <=> WillTell(q, c)
      BY <1>1 DEF WillTell
    <2>2. \A c \in CommentIds : WillTell(p, c)' <=> (c = d /\ match)
      BY <1>1 DEF WillTell
    <2>3. \A c \in CommentIds : c = d /\ match => comment[c].status = "unverified"
      BY DEF match
    <2> QED
      BY <1>2, <1>3, <2>1, <2>2, <2>3 DEF CInv, TellInv
  <1>8. LinkInv'
    <2>1. \A c \in CommentIds : c = d => comment'[c].status \notin {"none", "unverified"}
      BY <1>1, <1>3 DEF CInv, KnownInv, match, d
    <2>2. \A c \in CommentIds : comment'[c].status \in {"none", "unverified"} => comment'[c] = comment[c]
      BY <1>3
    <2> QED
      BY <1>1, <1>2, <2>1, <2>2 DEF CInv, LinkInv, d
  <1>9. KnownInv'
    BY <1>1, <1>2, <1>3 DEF CInv, KnownInv
  <1>10. HasLink'
    <2>1. \A c \in CommentIds : Busy(c) => Busy(c)'
      BY <1>1 DEF Busy
    <2> QED
      BY <1>2, <1>3, <2>1 DEF CInv, HasLink
  <1> QED
    BY <1>5, <1>6, <1>7, <1>8, <1>9, <1>10 DEF CInv

LEMMA SpendKeeps ==
    ASSUME CInv, Types', NEW p \in Threads, Spend(p)
    PROVE  CInv'
  <1>1. /\ req[p].at = "spend"
        /\ \A q \in Threads \ {p} : req'[q] = req[q]
        /\ IF req[p].flag THEN req'[p].at = "mark" /\ req'[p].id = req[p].id ELSE req'[p].at = "idle"
    BY DEF Spend, At, Goto, Done, Idle, CInv, Types, Job
  <1>2. UNCHANGED <<comment, links, told, orphans, proved>> /\ tokens' = {t \in tokens : t.link # req[p].link}
    BY DEF Spend
  <1>3. ProvedBeforeQueue' /\ OnlyUnverifiedExpire'
    BY <1>2 DEF CInv, ProvedBeforeQueue, OnlyUnverifiedExpire, Stored
  <1>4. TellInv'
    <2>1. \A q \in Threads, c \in CommentIds : WillTell(q, c)' => WillTell(q, c)
      BY <1>1 DEF WillTell
    <2> QED
      BY <1>2, <2>1 DEF CInv, TellInv
  <1>5. LinkInv'
    BY <1>1, <1>2 DEF CInv, LinkInv
  <1>6. KnownInv'
    BY <1>1, <1>2 DEF CInv, KnownInv
  <1>7. HasLink'
    <2>1. \A c \in CommentIds : Busy(c) => Busy(c)'
      BY <1>1 DEF Busy
    <2>2. \A c \in CommentIds, t \in tokens : comment[c].status = "unverified" /\ t.id = c => t \in tokens'
      BY <1>1, <1>2 DEF CInv, LinkInv
    <2> QED
      BY <1>2, <2>1, <2>2 DEF CInv, HasLink
  <1> QED
    BY <1>3, <1>4, <1>5, <1>6, <1>7 DEF CInv

LEMMA MarkKeeps ==
    ASSUME CInv, Types', NEW p \in Threads, Mark(p)
    PROVE  CInv'
  <1>1. /\ req[p].at = "mark"
        /\ \A q \in Threads \ {p} : req'[q] = req[q]
        /\ req'[p].at = "notice" /\ req'[p].id = req[p].id
    BY DEF Mark, At, Goto, CInv, Types, Job
  <1>2. UNCHANGED <<comment, tokens, links, told, orphans, proved>>
    BY DEF Mark
  <1>3. ProvedBeforeQueue' /\ OnlyUnverifiedExpire'
    BY <1>2 DEF CInv, ProvedBeforeQueue, OnlyUnverifiedExpire, Stored
  <1>4. TellInv'
    <2>1. \A q \in Threads, c \in CommentIds : WillTell(q, c)' => WillTell(q, c)
      BY <1>1 DEF WillTell
    <2> QED
      BY <1>2, <2>1 DEF CInv, TellInv
  <1>5. LinkInv' /\ KnownInv'
    BY <1>1, <1>2 DEF CInv, LinkInv, KnownInv
  <1>6. HasLink'
    <2>1. \A c \in CommentIds : Busy(c) => Busy(c)'
      BY <1>1 DEF Busy
    <2> QED
      BY <1>2, <2>1 DEF CInv, HasLink
  <1> QED
    BY <1>3, <1>4, <1>5, <1>6 DEF CInv

LEMMA NotifyKeeps ==
    ASSUME CInv, Types', NEW p \in Threads, Notify(p)
    PROVE  CInv'
  <1>1. /\ req[p].at = "notice"
        /\ \A q \in Threads \ {p} : req'[q] = req[q]
        /\ req'[p].at = "idle"
    BY DEF Notify, At, Done, Idle, CInv, Types
  <1>2. UNCHANGED <<comment, tokens, links, orphans, proved>>
    BY DEF Notify, dbVars
  <1>3. told' = told \/ told' = [told EXCEPT ![req[p].id] = @ + 1]
    BY DEF Notify
  <1>4. ProvedBeforeQueue' /\ OnlyUnverifiedExpire'
    BY <1>2 DEF CInv, ProvedBeforeQueue, OnlyUnverifiedExpire, Stored
  <1>5. TellInv'
    <2>1. \A q \in Threads, c \in CommentIds : WillTell(q, c)' <=> q # p /\ WillTell(q, c)
      BY <1>1 DEF WillTell
    <2>2. WillTell(p, req[p].id)
      BY <1>1 DEF WillTell
    <2>3. \A c \in CommentIds :
             told'[c] = told[c] \/ (c = req[p].id /\ told'[c] = told[c] + 1)
      BY <1>3 DEF CInv, Types
    <2> SUFFICES ASSUME NEW c \in CommentIds
                 PROVE  /\ told'[c] <= 1
                        /\ comment[c].status \in {"none", "unverified"} =>
                              told'[c] = 0 /\ \A q \in Threads : ~WillTell(q, c)'
                        /\ \A q, r \in Threads : WillTell(q, c)' /\ WillTell(r, c)' => q = r
                        /\ \A q \in Threads : WillTell(q, c)' => told'[c] = 0
      BY <1>2 DEF TellInv
    <2>4. CASE c = req[p].id
      BY <2>1, <2>2, <2>3, <2>4 DEF CInv, TellInv
    <2>5. CASE c # req[p].id
      BY <2>1, <2>3, <2>5 DEF CInv, TellInv
    <2> QED
      BY <2>4, <2>5
  <1>6. LinkInv' /\ KnownInv'
    BY <1>1, <1>2 DEF CInv, LinkInv, KnownInv
  <1>7. HasLink'
    <2>1. \A c \in CommentIds : Busy(c) => Busy(c)'
      BY <1>1 DEF Busy
    <2> QED
      BY <1>2, <2>1 DEF CInv, HasLink
  <1> QED
    BY <1>4, <1>5, <1>6, <1>7 DEF CInv

LEMMA StoreKeeps ==
    ASSUME CInv, Types', NEW p \in Threads, Store(p)
    PROVE  CInv'
  <1> DEFINE sure == Remembered(req[p])
  <1>1. PICK d \in CommentIds :
           /\ comment[d].status = "none"
           /\ comment' = [comment EXCEPT ![d] =
                   [status |-> IF sure THEN "pending" ELSE "unverified", by |-> req[p].email, at |-> now,
                    expires |-> IF sure THEN Never ELSE now + VerifyTime,
                    reply |-> FALSE, nonce |-> req[p].nonce]]
           /\ req' = [req EXCEPT ![p].at = IF sure THEN "notice" ELSE "token", ![p].id = d,
                                 ![p].until = now + VerifyTime]
           /\ proved' = IF req[p].cookie THEN proved \cup {d} ELSE proved
    BY DEF Store, NextId
  <1>2. req[p].at = "store" /\ UNCHANGED <<tokens, links, told, orphans>>
    BY DEF Store, At
  <1>3. /\ \A q \in Threads \ {p} : req'[q] = req[q]
        /\ req'[p].at = (IF sure THEN "notice" ELSE "token") /\ req'[p].id = d
    BY <1>1 DEF CInv, Types, Job
  <1>4. /\ \A c \in CommentIds \ {d} : comment'[c] = comment[c]
        /\ comment'[d].status = (IF sure THEN "pending" ELSE "unverified")
        /\ sure => comment'[d].expires = Never
    BY <1>1 DEF CInv, Types
  <1>5. proved \subseteq proved' /\ (sure => d \in proved')
    BY <1>1 DEF Remembered
  <1> HIDE DEF sure
  <1>6. ProvedBeforeQueue'
    BY <1>4, <1>5 DEF CInv, ProvedBeforeQueue
  <1>7. OnlyUnverifiedExpire'
    BY <1>4 DEF CInv, OnlyUnverifiedExpire, Stored
  <1>8. TellInv'
    <2>1. \A q \in Threads \ {p}, c \in CommentIds : WillTell(q, c)' <=> WillTell(q, c)
      BY <1>3 DEF WillTell
    <2>2. \A c \in CommentIds : (WillTell(p, c)' <=> c = d /\ sure) /\ ~WillTell(p, c)
      BY <1>2, <1>3 DEF WillTell
    <2>3. told[d] = 0 /\ \A q \in Threads : ~WillTell(q, d)
      BY <1>1 DEF CInv, TellInv
    <2> QED
      BY <1>2, <1>4, <2>1, <2>2, <2>3 DEF CInv, TellInv
  <1>9. LinkInv'
    <2>1. \A q \in Threads : req'[q].at \in {"confirm", "spend"} => q # p /\ req'[q] = req[q]
      BY <1>3
    <2>2. \A q \in Threads, c \in CommentIds :
             req'[q].at = "spend" /\ req'[q].id = c => comment'[c].status \notin {"none", "unverified"}
      BY <1>1, <1>4, <2>1 DEF CInv, LinkInv
    <2> QED
      BY <1>2, <2>1, <2>2 DEF CInv, LinkInv
  <1>10. KnownInv'
    BY <1>2, <1>3, <1>4 DEF CInv, KnownInv
  <1>11. HasLink'
    <2>1. \A c \in CommentIds : Busy(c) => Busy(c)'
      BY <1>2, <1>3 DEF Busy
    <2>2. ~sure => Busy(d)'
      BY <1>3 DEF Busy
    <2> QED
      BY <1>2, <1>4, <2>1, <2>2 DEF CInv, HasLink
  <1> QED
    BY <1>6, <1>7, <1>8, <1>9, <1>10, <1>11 DEF CInv

LEMMA DrawLinkKeeps ==
    ASSUME CInv, Types', NEW p \in Threads, DrawLink(p)
    PROVE  CInv'
  <1> DEFINE d == req[p].id
             new == [link |-> links + 1, id |-> d, expires |-> req[p].until]
  <1>1. /\ req[p].at = "token" /\ links' = links + 1 /\ UNCHANGED <<comment, told, proved>>
        /\ \/ tokens' = tokens \cup {new} /\ orphans' = orphans \ {d}
           \/ tokens' = tokens /\ orphans' = orphans \cup {d}
    BY DEF DrawLink, At
  <1>2. /\ \A q \in Threads \ {p} : req'[q] = req[q]
        /\ req'[p].at \in {"mail", "idle"}
    BY DEF DrawLink, Done, Idle, CInv, Types, Job
  <1>3. new.link = links + 1 /\ new.id = d /\ links \in Nat /\ \A t \in tokens : t.link \in Nat
    BY DEF CInv, Types
  <1> HIDE DEF d, new
  <1>4. ProvedBeforeQueue' /\ OnlyUnverifiedExpire'
    BY <1>1 DEF CInv, ProvedBeforeQueue, OnlyUnverifiedExpire, Stored
  <1>5. TellInv'
    <2>1. \A q \in Threads, c \in CommentIds : WillTell(q, c)' => WillTell(q, c)
      BY <1>1, <1>2 DEF WillTell
    <2> QED
      BY <1>1, <2>1 DEF CInv, TellInv
  <1>6. LinkInv'
    <2>1. \A t \in tokens' : t \in tokens \/ t = new
      BY <1>1
    <2>2. \A q \in Threads : req'[q].at \in {"confirm", "spend"} => req'[q] = req[q] /\ req[q].link \in Nat
      BY <1>2 DEF CInv, Types, Job
    <2>3. \A t \in tokens' : t.link <= links'
      BY <1>1, <1>3, <2>1 DEF CInv, LinkInv
    <2>4. \A t, u \in tokens' : t.link = u.link => t.id = u.id
      BY <1>3, <2>1 DEF CInv, LinkInv
    <2>5. \A q \in Threads : req'[q].at \in {"confirm", "spend"} =>
             /\ req'[q].link <= links'
             /\ \A t \in tokens' : t.link = req'[q].link => t.id = req'[q].id
      BY <1>1, <1>3, <2>1, <2>2 DEF CInv, LinkInv
    <2>6. \A q \in Threads, c \in CommentIds :
             req'[q].at = "spend" /\ req'[q].id = c => comment'[c].status \notin {"none", "unverified"}
      BY <1>1, <2>2 DEF CInv, LinkInv
    <2> QED
      BY <2>3, <2>4, <2>5, <2>6 DEF LinkInv
  <1>7. KnownInv'
    <2>1. \A c \in CommentIds : c = d => comment[c].status # "none"
      BY <1>1 DEF CInv, KnownInv, d
    <2> QED
      BY <1>1, <1>2, <1>3, <2>1 DEF CInv, KnownInv
  <1>8. HasLink'
    <2>1. \A c \in CommentIds \ {d} : Busy(c) => Busy(c)'
      BY <1>2 DEF Busy, d
    <2>2. \A c \in CommentIds : c = d => c \in orphans' \/ \E t \in tokens' : t.id = c
      BY <1>1, <1>3
    <2> QED
      BY <1>1, <2>1, <2>2 DEF CInv, HasLink
  <1> QED
    BY <1>4, <1>5, <1>6, <1>7, <1>8 DEF CInv

LEMMA VerifyKeeps ==
    ASSUME CInv, Types', NEW p \in Threads, NEW t \in tokens, Verify(p, t)
    PROVE  CInv'
  <1>1. /\ req[p].at = "idle"
        /\ \A q \in Threads \ {p} : req'[q] = req[q]
        /\ req'[p].at = "confirm" /\ req'[p].id = t.id /\ req'[p].link = t.link
    BY DEF Verify, Begin, Idle, CInv, Types
  <1>2. UNCHANGED <<comment, tokens, links, told, orphans, proved>>
    BY DEF Verify, dbVars
  <1>3. ProvedBeforeQueue' /\ OnlyUnverifiedExpire'
    BY <1>2 DEF CInv, ProvedBeforeQueue, OnlyUnverifiedExpire, Stored
  <1>4. TellInv'
    <2>1. \A q \in Threads, c \in CommentIds : WillTell(q, c)' => WillTell(q, c)
      BY <1>1 DEF WillTell
    <2> QED
      BY <1>2, <2>1 DEF CInv, TellInv
  <1>5. LinkInv'
    BY <1>1, <1>2 DEF CInv, LinkInv
  <1>6. KnownInv'
    BY <1>1, <1>2 DEF CInv, KnownInv
  <1>7. HasLink'
    <2>1. \A c \in CommentIds : Busy(c) => Busy(c)'
      BY <1>1 DEF Busy
    <2> QED
      BY <1>2, <2>1 DEF CInv, HasLink
  <1> QED
    BY <1>3, <1>4, <1>5, <1>6, <1>7 DEF CInv

LEMMA ExtendKeeps ==
    ASSUME CInv, Types', NEW p \in Threads, Extend(p)
    PROVE  CInv'
  <1> DEFINE d == req[p].id
  <1>1. req[p].at = "resend" /\ UNCHANGED <<tokens, links, told, orphans, proved>>
    BY DEF Extend, At
  <1>2. CASE comment[d].status # "unverified"
    <2>1. Done(p) /\ UNCHANGED comment
      BY <1>2 DEF Extend
    <2>2. Types /\ req[p].at \notin Special
      BY <1>1 DEF Special, CInv
    <2> QED
      BY <1>1, <2>1, <2>2, DoneAside, SameComments, AsideQuiet, QuietKeeps
  <1>3. CASE comment[d].status = "unverified"
    <2>1. /\ \A q \in Threads \ {p} : req'[q] = req[q]
          /\ req'[p].at = "drop" /\ req'[p].id = d
      BY <1>3 DEF Extend, CInv, Types, Job
    <2>2. \A c \in CommentIds : comment'[c].status = comment[c].status /\ (c # d => comment'[c] = comment[c])
      BY <1>3 DEF Extend, CInv, Types, CommentDoc
    <2>3. ProvedBeforeQueue'
      BY <1>1, <2>2 DEF CInv, ProvedBeforeQueue
    <2>4. OnlyUnverifiedExpire'
      BY <1>3, <2>2 DEF CInv, OnlyUnverifiedExpire, Stored
    <2>5. TellInv'
      <3>1. \A q \in Threads, c \in CommentIds : WillTell(q, c)' => WillTell(q, c)
        BY <2>1 DEF WillTell
      <3> QED
        BY <1>1, <2>2, <3>1 DEF CInv, TellInv
    <2>6. LinkInv'
      BY <1>1, <2>1, <2>2 DEF CInv, LinkInv
    <2>7. KnownInv'
      BY <1>1, <1>3, <2>1, <2>2 DEF CInv, KnownInv
    <2>8. HasLink'
      <3>1. \A c \in CommentIds : Busy(c) => Busy(c)'
        BY <1>1, <2>1 DEF Busy
      <3> QED
        BY <1>1, <2>2, <3>1 DEF CInv, HasLink
    <2> QED
      BY <2>3, <2>4, <2>5, <2>6, <2>7, <2>8 DEF CInv
  <1> QED
    BY <1>2, <1>3

LEMMA DropLinksKeeps ==
    ASSUME CInv, Types', NEW p \in Threads, DropLinks(p)
    PROVE  CInv'
  <1>1. /\ req[p].at = "drop"
        /\ \A q \in Threads \ {p} : req'[q] = req[q]
        /\ req'[p].at = "token" /\ req'[p].id = req[p].id
    BY DEF DropLinks, At, Goto, CInv, Types, Job
  <1>2. UNCHANGED <<comment, links, told, orphans, proved>> /\ tokens' = {t \in tokens : t.id # req[p].id}
    BY DEF DropLinks
  <1>3. ProvedBeforeQueue' /\ OnlyUnverifiedExpire'
    BY <1>2 DEF CInv, ProvedBeforeQueue, OnlyUnverifiedExpire, Stored
  <1>4. TellInv'
    <2>1. \A q \in Threads, c \in CommentIds : WillTell(q, c)' => WillTell(q, c)
      BY <1>1 DEF WillTell
    <2> QED
      BY <1>2, <2>1 DEF CInv, TellInv
  <1>5. LinkInv'
    BY <1>1, <1>2 DEF CInv, LinkInv
  <1>6. KnownInv'
    BY <1>1, <1>2 DEF CInv, KnownInv
  <1>7. HasLink'
    <2>1. \A c \in CommentIds : Busy(c) => Busy(c)'
      BY <1>1 DEF Busy
    <2>2. \A c \in CommentIds : c = req[p].id => Busy(c)'
      BY <1>1 DEF Busy
    <2> QED
      BY <1>2, <2>1, <2>2 DEF CInv, HasLink
  <1> QED
    BY <1>3, <1>4, <1>5, <1>6, <1>7 DEF CInv

-----------------------------------------------------------------------------
(* The theorems.                                                           *)

\* What a thread does, with the verbs of the moderation list named.
LEMMA NextCases ==
    ASSUME Next
    PROVE  \/ \/ Tick
              \/ \E k \in Nonces : ShowForm(k)
              \/ \E u \in used : ForgetNonce(u)
              \/ \E c \in CommentIds : Expire(c)
           \/ \E p \in Threads :
                \/ \/ \E e \in Emails, n \in Names, k \in Nonces, b \in BOOLEAN : Post(p, e, n, k, b)
                   \/ CheckLimits(p) \/ LookUp(p) \/ Rename(p) \/ NewCommenter(p) \/ StoreFails(p)
                   \/ MailLink(p)
                \/ Store(p) \/ DrawLink(p) \/ Notify(p)
                \/ (\E t \in tokens : Verify(p, t)) \/ Confirm(p) \/ Spend(p) \/ Mark(p)
                \/ \/ \E s \in Staff, c \in CommentIds, v \in Verbs : Moderate(p, s, v, c)
                   \/ \E e \in Emails, v \in {"block", "unblock", "block-delete"} : Block(p, v, e)
                   \/ SetStatus(p) \/ Delete(p) \/ ReadReply(p) \/ WriteReply(p) \/ DeleteReply(p)
                   \/ Purge(p)
                \/ Extend(p) \/ DropLinks(p)
  BY DEF Next, Verbs

LEMMA InitCInv == Init => CInv
  <1> SUFFICES ASSUME Init PROVE CInv
    OBVIOUS
  <1>1. Types
    <2>1. users \in [Emails -> UserDoc]
      BY DEF Init, NewUser, UserDoc
    <2>2. comment \in [CommentIds -> CommentDoc]
      BY DEF Init, NoComment, CommentDoc, Never
    <2> QED
      BY <2>1, <2>2, IdleJob DEF Init, Types
  <1>2. (\A c \in CommentIds : comment[c].status = "none") /\ (\A p \in Threads : req[p].at = "idle")
        /\ tokens = {} /\ \A c \in CommentIds : told[c] = 0
    BY DEF Init, NoComment, Idle
  <1>3. ProvedBeforeQueue /\ OnlyUnverifiedExpire /\ HasLink
    BY <1>2 DEF ProvedBeforeQueue, OnlyUnverifiedExpire, HasLink, Stored, Statuses
  <1>4. TellInv /\ LinkInv /\ KnownInv
    BY <1>2 DEF TellInv, LinkInv, KnownInv, WillTell
  <1> QED
    BY <1>1, <1>3, <1>4 DEF CInv

LEMMA NextCInv == CInv /\ [Next]_vars => CInv'
  <1> SUFFICES ASSUME CInv, [Next]_vars PROVE CInv'
    OBVIOUS
  <1>0. Types
    BY DEF CInv
  <1>1. CASE UNCHANGED vars
    <2>1. UNCHANGED <<users, comment, req, told, tokens, links, now, proved, orphans>>
      BY <1>1 DEF vars, dbVars
    <2>2. Types'
      BY <1>0, <2>1 DEF Types
    <2>3. QuietStep
      BY <2>1, SameComments DEF QuietStep
    <2> QED
      BY <2>2, <2>3, QuietKeeps
  <1>2. CASE \/ Tick
             \/ \E k \in Nonces : ShowForm(k)
             \/ \E u \in used : ForgetNonce(u)
             \/ \E c \in CommentIds : Expire(c)
    BY <1>0, <1>2, WorldTypes, WorldQuiet, QuietKeeps
  <1>3. ASSUME NEW p \in Threads,
               \/ \E e \in Emails, n \in Names, k \in Nonces, b \in BOOLEAN : Post(p, e, n, k, b)
               \/ CheckLimits(p) \/ LookUp(p) \/ Rename(p) \/ NewCommenter(p) \/ StoreFails(p) \/ MailLink(p)
        PROVE  CInv'
    BY <1>0, <1>3, WritingTypes, WritingQuiet, QuietKeeps
  <1>4. ASSUME NEW p \in Threads, Store(p) \/ DrawLink(p) \/ Notify(p) PROVE CInv'
    BY <1>0, <1>4, WritingTypes, StoreKeeps, DrawLinkKeeps, NotifyKeeps
  <1>5. ASSUME NEW p \in Threads, (\E t \in tokens : Verify(p, t)) \/ Confirm(p) \/ Spend(p) \/ Mark(p)
        PROVE  CInv'
    BY <1>0, <1>5, ConfirmingTypes, VerifyKeeps, ConfirmKeeps, SpendKeeps, MarkKeeps
  <1>6. ASSUME NEW p \in Threads,
               \/ \E s \in Staff, c \in CommentIds, v \in Verbs : Moderate(p, s, v, c)
               \/ \E e \in Emails, v \in {"block", "unblock", "block-delete"} : Block(p, v, e)
               \/ SetStatus(p) \/ Delete(p) \/ ReadReply(p) \/ WriteReply(p) \/ DeleteReply(p) \/ Purge(p)
        PROVE  CInv'
    BY <1>0, <1>6, ModeratingTypes, ModeratingQuiet, QuietKeeps
  <1>7. ASSUME NEW p \in Threads, Extend(p) \/ DropLinks(p) PROVE CInv'
    BY <1>0, <1>7, ModeratingTypes, ExtendKeeps, DropLinksKeeps
  <1> QED
    BY <1>1, <1>2, <1>3, <1>4, <1>5, <1>6, <1>7, NextCases

\* The strengthening says what the properties say.
LEMMA CInvImplies == CInv => ConfirmationInv
  <1>1. TellInv => NoticeOnce
    BY DEF TellInv, NoticeOnce
  <1>2. HasLink => NeverStranded
    BY DEF HasLink, NeverStranded
  <1> QED
    BY <1>1, <1>2 DEF CInv, ConfirmationInv

\* Of cms_comments_submit(), cms_comments_verify() and renew_token(), with any
\* number of requests and links: a comment reaches the moderators only when
\* it was proved, the author of the entry is told of it once, only an unverified
\* comment can expire, and an unverified comment keeps a link to confirm it
\* with unless its last one could not be stored.
THEOREM ConfirmationInvThm == Spec => []ConfirmationInv
  <1>1. Spec => []CInv
    BY InitCInv, NextCInv, PTL DEF Spec
  <1> QED
    BY <1>1, CInvImplies, PTL

\* A step that leaves alone what a moderator decided.
KeepsDecisions ==
    \A c \in CommentIds : comment[c].status \in {"approved", "rejected"}
        => comment'[c].status \in {"approved", "rejected", "gone"}

LEMMA QuietDecisions ==
    ASSUME Types', QuietStep
    PROVE  KeepsDecisions
  BY DEF QuietStep, Forward, KeepsDecisions, Types, CommentDoc, Statuses

LEMMA NextDecisions ==
    ASSUME CInv, CInv', [Next]_vars
    PROVE  KeepsDecisions
  <1>0. Types /\ Types'
    BY DEF CInv
  <1>1. CASE UNCHANGED vars
    BY <1>1 DEF vars, dbVars, KeepsDecisions
  <1>2. CASE \/ Tick
             \/ \E k \in Nonces : ShowForm(k)
             \/ \E u \in used : ForgetNonce(u)
             \/ \E c \in CommentIds : Expire(c)
    BY <1>0, <1>2, WorldQuiet, QuietDecisions
  <1>3. ASSUME NEW p \in Threads,
               \/ \E e \in Emails, n \in Names, k \in Nonces, b \in BOOLEAN : Post(p, e, n, k, b)
               \/ CheckLimits(p) \/ LookUp(p) \/ Rename(p) \/ NewCommenter(p) \/ StoreFails(p) \/ MailLink(p)
        PROVE  KeepsDecisions
    BY <1>0, <1>3, WritingQuiet, QuietDecisions
  <1>4. ASSUME NEW p \in Threads,
               \/ \E s \in Staff, c \in CommentIds, v \in Verbs : Moderate(p, s, v, c)
               \/ \E e \in Emails, v \in {"block", "unblock", "block-delete"} : Block(p, v, e)
               \/ SetStatus(p) \/ Delete(p) \/ ReadReply(p) \/ WriteReply(p) \/ DeleteReply(p) \/ Purge(p)
        PROVE  KeepsDecisions
    BY <1>0, <1>4, ModeratingQuiet, QuietDecisions
  <1>5. ASSUME NEW p \in Threads,
               DrawLink(p) \/ Notify(p) \/ (\E t \in tokens : Verify(p, t)) \/ Spend(p) \/ Mark(p)
               \/ DropLinks(p)
        PROVE  KeepsDecisions
    <2>1. UNCHANGED comment
      BY <1>5 DEF DrawLink, Notify, Verify, Spend, Mark, DropLinks, dbVars
    <2> QED
      BY <2>1 DEF KeepsDecisions
  <1>6. ASSUME NEW p \in Threads, Store(p) PROVE KeepsDecisions
    <2>1. PICK d \in CommentIds :
             comment[d].status = "none" /\ \A c \in CommentIds \ {d} : comment'[c] = comment[c]
      BY <1>0, <1>6 DEF Store, NextId, Types
    <2> QED
      BY <2>1 DEF KeepsDecisions
  <1>7. ASSUME NEW p \in Threads, Confirm(p) \/ Extend(p) PROVE KeepsDecisions
    <2>1. \A c \in CommentIds : comment'[c] = comment[c] \/ comment[c].status = "unverified"
      BY <1>0, <1>7 DEF Confirm, Extend, Types
    <2> QED
      BY <2>1 DEF KeepsDecisions
  <1> QED
    BY <1>1, <1>2, <1>3, <1>4, <1>5, <1>6, <1>7, NextCases

\* Of cms_comments_verify() and renew_token() against set_status(): no link
\* posted late, and no resend, takes an approved or a rejected comment back.
THEOREM ModeratedStaysThm == Spec => ModeratedStays
  <1>1. Spec => []CInv
    BY InitCInv, NextCInv, PTL DEF Spec
  <1>2. CInv /\ CInv' /\ [Next]_vars => [KeepsDecisions]_vars
    BY NextDecisions
  <1> QED
    BY <1>1, <1>2, PTL DEF Spec, ModeratedStays, KeepsDecisions
-----------------------------------------------------------------------------
(* Admission: one comment per challenge, and the limit of an address.      *)

\* Where a request has spent its nonce and not yet stored its comment, and
\* where it has also passed the limit.
Writing == {"limits", "lookup", "insert", "rename", "store"}
Passed == Writing \ {"limits"}

\* A challenge somebody answered for a comment.
Claimed(k) ==
    \/ \E c \in CommentIds : comment[c].nonce = k
    \/ \E p \in Threads : req[p].at \in Writing /\ req[p].nonce = k

\* The nonce of a challenge that was answered is remembered until its answer
\* is too late.
NonceKept ==
    /\ now \in Nat \ {0} /\ issued \in [Nonces -> Nat]
    /\ \A k \in Nonces : issued[k] <= now
    /\ used \subseteq [nonce : Nonces, expires : Nat]
    /\ \A u \in used : issued[u.nonce] # Never /\ u.expires > issued[u.nonce] + CaptchaTtl
    /\ \A k \in Nonces \ {NoNonce} : Claimed(k) =>
          /\ issued[k] # Never
          /\ (\E u \in used : u.nonce = k) \/ now > issued[k] + CaptchaTtl

\* Nobody shares a challenge, on the way or stored.
NonceApart ==
    /\ NonceOnce
    /\ \A p \in Threads, c \in CommentIds :
          req[p].at \in Writing /\ req[p].nonce # NoNonce => comment[c].nonce # req[p].nonce
    /\ \A p, q \in Threads :
          req[p].at \in Writing /\ req[q].at \in Writing /\ req[p].nonce = req[q].nonce /\ req[p].nonce # NoNonce
             => p = q

\* Those stored and those past the check, together.
OnTheWay == {p \in Threads : req[p].at \in Passed}
LimitInv == Cardinality(FromHere) + Cardinality(OnTheWay) <= IpLimit + Cardinality(Threads) - 1

\* A link is of a comment.
IdInv ==
    /\ \A t \in tokens : t.id \in CommentIds
    /\ \A p \in Threads : req[p].at \in {"resend", "drop", "token"} => req[p].id \in CommentIds

AInv == Types /\ NonceKept /\ NonceApart /\ LimitInv /\ IdInv

\* A step that begins and stores no comment.
Naming == {"resend", "drop", "token"}

Follows(q) ==
    /\ req'[q].at \in Writing => req[q].at \in Writing /\ req'[q].nonce = req[q].nonce
    /\ req'[q].at \in Passed => req[q].at \in Passed
    /\ req'[q].at \in Naming => req'[q].id \in CommentIds

Stays(c) ==
    /\ comment'[c].nonce = comment[c].nonce /\ comment'[c].at = comment[c].at
    /\ comment'[c].status \in Statuses => comment[c].status \in Statuses

Tame ==
    /\ used' = used /\ issued' = issued /\ now' = now
    /\ \A c \in CommentIds : Stays(c)
    /\ \A q \in Threads : Follows(q)
    /\ \A t \in tokens' : t.id \in CommentIds

\* The limit: fewer stored and fewer on the way.
LEMMA Counts ==
           /\ IsFiniteSet(FromHere) /\ IsFiniteSet(OnTheWay) /\ IsFiniteSet(Threads)
           /\ Cardinality(FromHere) \in Nat /\ Cardinality(OnTheWay) \in Nat /\ Cardinality(Threads) \in Nat
           /\ Cardinality(OnTheWay) <= Cardinality(Threads)
  <1>1. IsFiniteSet(CommentIds) /\ IsFiniteSet(Threads)
    BY CommentsAssumption
  <1>2. FromHere \subseteq CommentIds /\ OnTheWay \subseteq Threads
    BY DEF FromHere, OnTheWay
  <1> QED
    BY <1>1, <1>2, FS_Subset, FS_CardinalityType

LEMMA CountsNext ==
           /\ IsFiniteSet(FromHere') /\ IsFiniteSet(OnTheWay')
           /\ Cardinality(FromHere') \in Nat /\ Cardinality(OnTheWay') \in Nat
           /\ Cardinality(OnTheWay') <= Cardinality(Threads)
  <1>1. IsFiniteSet(CommentIds) /\ IsFiniteSet(Threads)
    BY CommentsAssumption
  <1>2. FromHere' \subseteq CommentIds /\ OnTheWay' \subseteq Threads
    BY DEF FromHere, OnTheWay
  <1> QED
    BY <1>1, <1>2, FS_Subset, FS_CardinalityType

LEMMA LimitLess ==
    ASSUME LimitInv, FromHere' \subseteq FromHere, OnTheWay' \subseteq OnTheWay
    PROVE  LimitInv'
  <1>1. Cardinality(FromHere') <= Cardinality(FromHere) /\ Cardinality(OnTheWay') <= Cardinality(OnTheWay)
    BY Counts, FS_Subset
  <1>2. IpLimit \in Nat
    BY CommentsAssumption
  <1> QED
    BY <1>1, <1>2, Counts, CountsNext DEF LimitInv

LEMMA TameKeeps ==
    ASSUME AInv, Types', Tame
    PROVE  AInv'
  <1>1. \A k \in Nonces : Claimed(k)' => Claimed(k)
    BY DEF Claimed, Tame, Stays, Follows
  <1>2. NonceKept'
    BY <1>1 DEF AInv, NonceKept, Tame
  <1>3. NonceApart'
    <2>1. NonceOnce'
      BY DEF AInv, NonceApart, NonceOnce, Tame, Stays
    <2>2. \A p \in Threads, c \in CommentIds :
             req'[p].at \in Writing /\ req'[p].nonce # NoNonce => comment'[c].nonce # req'[p].nonce
      BY DEF AInv, NonceApart, Tame, Stays, Follows
    <2>3. \A p, q \in Threads :
             req'[p].at \in Writing /\ req'[q].at \in Writing /\ req'[p].nonce = req'[q].nonce
                /\ req'[p].nonce # NoNonce => p = q
      BY DEF AInv, NonceApart, Tame, Follows
    <2> QED
      BY <2>1, <2>2, <2>3 DEF NonceApart
  <1>4. LimitInv'
    <2>1. FromHere' \subseteq FromHere
      BY DEF Tame, Stays, FromHere, Stored
    <2>2. OnTheWay' \subseteq OnTheWay
      BY DEF Tame, Follows, OnTheWay
    <2> QED
      BY <2>1, <2>2, LimitLess DEF AInv
  <1>5. IdInv'
    BY DEF IdInv, Tame, Follows, Naming
  <1> QED
    BY <1>2, <1>3, <1>4, <1>5 DEF AInv

\* What a thread does.
LEMMA OneFollows ==
    ASSUME Types, IdInv, NEW p \in Threads, NEW r, req' = [req EXCEPT ![p] = r],
           r.at \in Writing => req[p].at \in Writing /\ r.nonce = req[p].nonce,
           r.at \in Passed => req[p].at \in Passed,
           r.at \in Naming => r.id \in CommentIds
    PROVE  \A q \in Threads : Follows(q)
  <1>1. \A q \in Threads : req'[q] = IF q = p THEN r ELSE req[q]
    BY DEF Types
  <1> QED
    BY <1>1 DEF Follows, IdInv, Naming

LEMMA DoneFollows ==
    ASSUME Types, IdInv, NEW p \in Threads, Done(p)
    PROVE  \A q \in Threads : Follows(q)
  <1>1. Idle.at = "idle"
    BY DEF Idle
  <1> QED
    BY <1>1, OneFollows DEF Done, Writing, Passed, Naming

LEMMA BeginFollows ==
    ASSUME Types, IdInv, NEW p \in Threads, NEW r, Begin(p, r), r.at \notin Writing,
           r.at \in Naming => r.id \in CommentIds
    PROVE  \A q \in Threads : Follows(q)
  BY OneFollows DEF Begin, Passed

LEMMA GotoFollows ==
    ASSUME Types, IdInv, NEW p \in Threads, NEW a, Goto(p, a),
           a \in Writing => a \in Passed /\ req[p].at \in Passed,
           a \in Naming => req[p].id \in CommentIds
    PROVE  \A q \in Threads : Follows(q)
  <1>1. PICK r : r = [req[p] EXCEPT !.at = a]
    OBVIOUS
  <1>2. r.at = a /\ r.nonce = req[p].nonce /\ r.id = req[p].id
    BY <1>1 DEF Types, Job
  <1>3. req' = [req EXCEPT ![p] = r]
    BY <1>1 DEF Goto, Types
  <1> QED
    BY <1>2, <1>3, OneFollows DEF Passed

\* What happens to a comment.
LEMMA SameStays ==
    ASSUME comment' = comment
    PROVE  \A c \in CommentIds : Stays(c)
  BY DEF Stays

LEMMA StatusStays ==
    ASSUME Types, NEW d, NEW st, NEW x, comment' = [comment EXCEPT ![d].status = st, ![d].expires = x],
           comment[d].status \in Statuses
    PROVE  \A c \in CommentIds : Stays(c)
  BY DEF Types, CommentDoc, Stays

LEMMA GoneStays ==
    ASSUME Types, NEW d, comment' = [comment EXCEPT ![d].status = "gone"]
    PROVE  \A c \in CommentIds : Stays(c)
  BY DEF Types, CommentDoc, Stays, Statuses

LEMMA ReplyStays ==
    ASSUME Types, NEW d, NEW b, comment' = [comment EXCEPT ![d].reply = b]
    PROVE  \A c \in CommentIds : Stays(c)
  BY DEF Types, CommentDoc, Stays

LEMMA ExpiresStays ==
    ASSUME Types, NEW d, NEW x, comment' = [comment EXCEPT ![d].expires = x]
    PROVE  \A c \in CommentIds : Stays(c)
  BY DEF Types, CommentDoc, Stays
LEMMA WritingTame ==
    ASSUME Types, IdInv, NEW p \in Threads,
           LookUp(p) \/ Rename(p) \/ NewCommenter(p) \/ StoreFails(p) \/ MailLink(p) \/ DrawLink(p) \/ Notify(p)
    PROVE  Tame
  <1>1. comment' = comment /\ used' = used /\ issued' = issued /\ now' = now
    BY DEF LookUp, Rename, NewCommenter, StoreFails, MailLink, DrawLink, Notify, dbVars
  <1>2. \A t \in tokens' : t.id \in CommentIds
    <2>1. CASE DrawLink(p)
      <3>1. req[p].id \in CommentIds
        BY <2>1 DEF DrawLink, At, IdInv
      <3> QED
        BY <2>1, <3>1 DEF DrawLink, IdInv
    <2>2. CASE ~DrawLink(p)
      <3>1. tokens' = tokens
        BY <2>2 DEF LookUp, Rename, NewCommenter, StoreFails, MailLink, Notify, dbVars
      <3> QED
        BY <3>1 DEF IdInv
    <2> QED
      BY <2>1, <2>2
  <1>3. \A q \in Threads : Follows(q)
    <2>1. CASE LookUp(p)
      <3>1. CASE Done(p)
        BY <3>1, DoneFollows
      <3>2. CASE ~Done(p)
        <4>0. PICK a, f, b : /\ a = IF users[req[p].email].role = "none" THEN "insert" ELSE "rename"
                             /\ f = users[req[p].email].verified /\ b = users[req[p].email].blocked
          OBVIOUS
        <4>1. /\ a \in {"insert", "rename"}
              /\ req' = [req EXCEPT ![p].at = a, ![p].flag = f, ![p].blocked = b]
          BY <2>1, <3>2, <4>0 DEF LookUp
        <4>2. \A q \in Threads \ {p} : req'[q] = req[q]
          BY <4>1 DEF Types
        <4>3. req'[p].at = a /\ req'[p].nonce = req[p].nonce
          BY <4>1 DEF Types, Job
        <4>4. req[p].at \in Passed
          BY <2>1 DEF LookUp, At, Passed, Writing
        <4> QED
          BY <4>1, <4>2, <4>3, <4>4 DEF Follows, IdInv, Passed, Writing, Naming
      <3> QED
        BY <3>1, <3>2
    <2>2. CASE Rename(p)
      <3>1. req[p].at \in Passed /\ (Done(p) \/ Goto(p, "store"))
        BY <2>2 DEF Rename, At, Passed, Writing
      <3> QED
        BY <3>1, DoneFollows, GotoFollows DEF Passed, Writing, Naming
    <2>3. CASE NewCommenter(p)
      <3>1. req[p].at \in Passed
        BY <2>3 DEF NewCommenter, At, Passed, Writing
      <3>2. \/ Done(p) \/ Goto(p, "store")
            \/ req' = [req EXCEPT ![p].at = "lookup", ![p].again = TRUE]
        BY <2>3 DEF NewCommenter
      <3>3. CASE req' = [req EXCEPT ![p].at = "lookup", ![p].again = TRUE]
        <4>1. \A q \in Threads \ {p} : req'[q] = req[q]
          BY <3>3 DEF Types
        <4>2. req'[p].at = "lookup" /\ req'[p].nonce = req[p].nonce
          BY <3>3 DEF Types, Job
        <4> QED
          BY <3>1, <4>1, <4>2 DEF Follows, IdInv, Passed, Writing, Naming
      <3> QED
        BY <3>1, <3>2, <3>3, DoneFollows, GotoFollows DEF Passed, Writing, Naming
    <2>4. CASE StoreFails(p) \/ MailLink(p) \/ Notify(p)
      BY <2>4, DoneFollows DEF StoreFails, MailLink, Notify
    <2>5. CASE DrawLink(p)
      <3>1. CASE Done(p)
        BY <3>1, DoneFollows
      <3>2. CASE ~Done(p)
        <4>1. PICK n : req' = [req EXCEPT ![p].at = "mail", ![p].link = n]
          BY <2>5, <3>2 DEF DrawLink
        <4>2. \A q \in Threads \ {p} : req'[q] = req[q]
          BY <4>1 DEF Types
        <4>3. req'[p].at = "mail"
          BY <4>1 DEF Types, Job
        <4> QED
          BY <4>2, <4>3 DEF Follows, IdInv, Passed, Writing, Naming
      <3> QED
        BY <3>1, <3>2
    <2> QED
      BY <2>1, <2>2, <2>3, <2>4, <2>5
  <1> QED
    BY <1>1, <1>2, <1>3, SameStays DEF Tame

LEMMA ConfirmingTame ==
    ASSUME Types, IdInv, NEW p \in Threads,
           (\E t \in tokens : Verify(p, t)) \/ Confirm(p) \/ Spend(p) \/ Mark(p)
    PROVE  Tame
  <1>1. used' = used /\ issued' = issued /\ now' = now
    BY DEF Verify, Confirm, Spend, Mark, dbVars
  <1>2. \A t \in tokens' : t.id \in CommentIds
    <2>1. tokens' \subseteq tokens
      BY DEF Verify, Confirm, Spend, Mark, dbVars
    <2> QED
      BY <2>1 DEF IdInv
  <1>3. \A c \in CommentIds : Stays(c)
    <2>1. CASE Confirm(p)
      <3>1. \/ comment' = comment
            \/ /\ comment[req[p].id].status = "unverified"
               /\ comment' = [comment EXCEPT ![req[p].id].status = "pending", ![req[p].id].expires = Never]
        BY <2>1 DEF Confirm
      <3>2. "unverified" \in Statuses
        BY DEF Statuses
      <3> QED
        BY <3>1, <3>2, SameStays, StatusStays
    <2>2. CASE ~Confirm(p)
      <3>1. comment' = comment
        BY <2>2 DEF Verify, Spend, Mark, dbVars
      <3> QED
        BY <3>1, SameStays
    <2> QED
      BY <2>1, <2>2
  <1>4. \A q \in Threads : Follows(q)
    <2>1. ASSUME NEW t \in tokens, Verify(p, t) PROVE \A q \in Threads : Follows(q)
      <3>1. PICK r : r = [Idle EXCEPT !.at = "confirm", !.link = t.link, !.id = t.id]
        OBVIOUS
      <3>2. r.at = "confirm"
        BY <3>1 DEF Idle
      <3>3. Begin(p, r)
        BY <2>1, <3>1 DEF Verify
      <3> QED
        BY <3>2, <3>3, BeginFollows DEF Writing, Naming
    <2>2. CASE Confirm(p)
      <3>1. PICK f : req' = [req EXCEPT ![p].at = "spend", ![p].flag = f]
        BY <2>2 DEF Confirm
      <3>2. \A q \in Threads \ {p} : req'[q] = req[q]
        BY <3>1 DEF Types
      <3>3. req'[p].at = "spend"
        BY <3>1 DEF Types, Job
      <3> QED
        BY <3>2, <3>3 DEF Follows, IdInv, Passed, Writing, Naming
    <2>3. CASE Spend(p)
      BY <2>3, DoneFollows, GotoFollows DEF Spend, Writing, Naming
    <2>4. CASE Mark(p)
      BY <2>4, GotoFollows DEF Mark, Writing, Naming
    <2> QED
      BY <2>1, <2>2, <2>3, <2>4
  <1> QED
    BY <1>1, <1>2, <1>3, <1>4 DEF Tame

LEMMA ModeratingTame ==
    ASSUME Types, IdInv, NEW p \in Threads,
           \/ \E s \in Staff, c \in CommentIds, v \in Verbs : Moderate(p, s, v, c)
           \/ \E e \in Emails, v \in {"block", "unblock", "block-delete"} : Block(p, v, e)
           \/ SetStatus(p) \/ Delete(p) \/ ReadReply(p) \/ WriteReply(p) \/ DeleteReply(p) \/ Purge(p)
           \/ Extend(p) \/ DropLinks(p)
    PROVE  Tame
  <1>1. used' = used /\ issued' = issued /\ now' = now
    BY DEF Moderate, Block, SetStatus, Delete, ReadReply, WriteReply, DeleteReply, Purge, Extend, DropLinks, dbVars
  <1>2. \A t \in tokens' : t.id \in CommentIds
    <2>1. tokens' \subseteq tokens
      BY DEF Moderate, Block, SetStatus, Delete, ReadReply, WriteReply, DeleteReply, Purge, Extend, DropLinks, dbVars
    <2> QED
      BY <2>1 DEF IdInv
  <1>3. \A c \in CommentIds : Stays(c)
    <2>1. CASE SetStatus(p)
      <3>1. \/ comment' = comment
            \/ /\ comment[req[p].id].status \in Statuses
               /\ \E st : comment' = [comment EXCEPT ![req[p].id].status = st, ![req[p].id].expires = Never]
        BY <2>1 DEF SetStatus, Stored
      <3> QED
        BY <3>1, SameStays, StatusStays
    <2>2. CASE Delete(p)
      BY <2>2, GoneStays DEF Delete
    <2>3. CASE WriteReply(p) \/ DeleteReply(p)
      <3>1. comment' = comment \/ \E b : comment' = [comment EXCEPT ![req[p].id].reply = b]
        BY <2>3 DEF WriteReply, DeleteReply
      <3> QED
        BY <3>1, SameStays, ReplyStays
    <2>4. CASE Purge(p)
      <3>1. \A c \in CommentIds :
               comment'[c] = comment[c] \/ comment'[c] = [comment[c] EXCEPT !.status = "gone"]
        BY <2>4 DEF Purge
      <3>2. ASSUME NEW c \in CommentIds PROVE Stays(c)
        <4>1. PICK x \in CommentDoc : x = comment[c]
          BY DEF Types
        <4>2. PICK y : y = comment'[c]
          OBVIOUS
        <4>3. y = x \/ y = [x EXCEPT !.status = "gone"]
          BY <3>1, <4>1, <4>2
        <4>4. y.nonce = x.nonce /\ y.at = x.at /\ (y.status \in Statuses => x.status \in Statuses)
          BY <4>3 DEF CommentDoc, Statuses
        <4> QED
          BY <4>1, <4>2, <4>4 DEF Stays
      <3> QED
        BY <3>2
    <2>5. CASE Extend(p)
      <3>1. comment' = comment \/ \E x : comment' = [comment EXCEPT ![req[p].id].expires = x]
        BY <2>5 DEF Extend
      <3> QED
        BY <3>1, SameStays, ExpiresStays
    <2>6. CASE ~SetStatus(p) /\ ~Delete(p) /\ ~WriteReply(p) /\ ~DeleteReply(p) /\ ~Purge(p) /\ ~Extend(p)
      <3>1. comment' = comment
        BY <2>6 DEF Moderate, Block, ReadReply, DropLinks, dbVars
      <3> QED
        BY <3>1, SameStays
    <2> QED
      BY <2>1, <2>2, <2>3, <2>4, <2>5, <2>6
  <1>4. \A q \in Threads : Follows(q)
    <2>1. ASSUME NEW s \in Staff, NEW c \in CommentIds, NEW v \in Verbs, Moderate(p, s, v, c)
          PROVE  \A q \in Threads : Follows(q)
      <3>1. PICK r : r = [Idle EXCEPT !.at = v, !.id = c]
        OBVIOUS
      <3>2. r.at = v /\ r.id = c
        BY <3>1 DEF Idle
      <3>3. Begin(p, r)
        BY <2>1, <3>1 DEF Moderate
      <3> QED
        BY <3>2, <3>3, BeginFollows DEF Writing, Verbs
    <2>2. ASSUME NEW e \in Emails, NEW v \in {"block", "unblock", "block-delete"}, Block(p, v, e)
          PROVE  \A q \in Threads : Follows(q)
      <3>1. PICK r : r = IF v = "block-delete" THEN [Idle EXCEPT !.at = "purge", !.email = e] ELSE Idle
        OBVIOUS
      <3>2. r.at \in {"purge", "idle"}
        BY <3>1 DEF Idle
      <3>3. Begin(p, r)
        BY <2>2, <3>1 DEF Block
      <3> QED
        BY <3>2, <3>3, BeginFollows DEF Writing, Naming
    <2>3. CASE SetStatus(p) \/ Delete(p) \/ DeleteReply(p) \/ Purge(p)
      BY <2>3, DoneFollows DEF SetStatus, Delete, DeleteReply, Purge
    <2>4. CASE ReadReply(p)
      <3>1. Done(p) \/ \E a \in {"replyPending", "replyApproved"} : Goto(p, a)
        BY <2>4 DEF ReadReply, Goto
      <3> QED
        BY <3>1, DoneFollows, GotoFollows DEF Writing, Naming
    <2>5. CASE WriteReply(p)
      BY <2>5, DoneFollows, GotoFollows DEF WriteReply, Writing, Naming
    <2>6. CASE Extend(p)
      <3>1. CASE Done(p)
        BY <3>1, DoneFollows
      <3>2. CASE ~Done(p)
        <4>1. req[p].id \in CommentIds
          BY <2>6 DEF Extend, At, IdInv
        <4>2. PICK n : req' = [req EXCEPT ![p].at = "drop", ![p].until = n]
          BY <2>6, <3>2 DEF Extend
        <4>3. \A q \in Threads \ {p} : req'[q] = req[q]
          BY <4>2 DEF Types
        <4>4. req'[p].at = "drop" /\ req'[p].id = req[p].id
          BY <4>2 DEF Types, Job
        <4> QED
          BY <4>1, <4>3, <4>4 DEF Follows, IdInv, Passed, Writing, Naming
      <3> QED
        BY <3>1, <3>2
    <2>7. CASE DropLinks(p)
      <3>1. req[p].id \in CommentIds
        BY <2>7 DEF DropLinks, At, IdInv
      <3> QED
        BY <2>7, <3>1, GotoFollows DEF DropLinks, Writing
    <2> QED
      BY <2>1, <2>2, <2>3, <2>4, <2>5, <2>6, <2>7
  <1> QED
    BY <1>1, <1>2, <1>3, <1>4 DEF Tame

LEMMA ExpireTame ==
    ASSUME Types, IdInv, NEW c \in CommentIds, Expire(c)
    PROVE  Tame
  <1>1. used' = used /\ issued' = issued /\ now' = now /\ tokens' = tokens /\ req' = req
    BY DEF Expire
  <1>2. \A d \in CommentIds : Stays(d)
    BY GoneStays DEF Expire
  <1> QED
    BY <1>1, <1>2 DEF Tame, Follows, IdInv, Naming
\* The check lets a request on when there is room: all the threads may be on
\* the way then.
LEMMA CheckLimitsAdmits ==
    ASSUME AInv, Types', NEW p \in Threads, CheckLimits(p)
    PROVE  AInv'
  <1>1. Types /\ IdInv /\ tokens' = tokens /\ comment' = comment /\ used' = used /\ issued' = issued /\ now' = now
    BY DEF AInv, CheckLimits, dbVars
  <1>2. CASE Done(p)
    <2>1. Tame
      BY <1>1, <1>2, DoneFollows, SameStays DEF Tame, IdInv
    <2> QED
      BY <2>1, TameKeeps
  <1>3. CASE ~Done(p)
    <2>1. WithinLimits(req[p].email) /\ Goto(p, "lookup") /\ req[p].at = "limits"
      BY <1>3 DEF CheckLimits, At
    <2>2. (\A q \in Threads \ {p} : req'[q] = req[q]) /\ req'[p].at = "lookup" /\ req'[p].nonce = req[p].nonce
      BY <1>1, <2>1 DEF Goto, Types, Job
    <2>3. \A q \in Threads : req'[q].at \in Writing => req[q].at \in Writing /\ req'[q].nonce = req[q].nonce
      BY <2>1, <2>2 DEF Writing
    <2>4. NonceKept'
      <3>1. \A k \in Nonces : Claimed(k)' => Claimed(k)
        BY <1>1, <2>3 DEF Claimed
      <3> QED
        BY <1>1, <3>1 DEF AInv, NonceKept
    <2>5. NonceApart'
      BY <1>1, <2>3 DEF AInv, NonceApart, NonceOnce
    <2>6. LimitInv'
      <3>1. FromHere' = FromHere
        BY <1>1 DEF FromHere, Stored
      <3>2. Cardinality(FromHere) < IpLimit /\ IpLimit \in Nat
        BY <2>1, CommentsAssumption DEF WithinLimits
      <3> QED
        BY <3>1, <3>2, Counts, CountsNext DEF LimitInv
    <2>7. IdInv'
      BY <1>1, <2>2 DEF IdInv
    <2> QED
      BY <2>4, <2>5, <2>6, <2>7 DEF AInv
  <1> QED
    BY <1>2, <1>3

\* A post: its nonce is nobody's, since it would be remembered or too late.
LEMMA PostAdmits ==
    ASSUME AInv, Types', NEW p \in Threads, NEW e \in Emails, NEW n \in Names, NEW k \in Nonces, NEW b \in BOOLEAN,
           Post(p, e, n, k, b)
    PROVE  AInv'
  <1>1. Types /\ IdInv /\ tokens' = tokens /\ comment' = comment /\ issued' = issued /\ now' = now
    BY DEF AInv, Post
  <1>2. now \in Nat \ {0} /\ issued \in [Nonces -> Nat] /\ issued[k] <= now
    BY DEF AInv, NonceKept
  <1>3. issued[k] # Never /\ now - issued[k] <= CaptchaTtl /\ \A u \in used : u.nonce # k
    BY DEF Post, CaptchaOk
  <1>4. CaptchaTtl \in Nat /\ CaptchaGrace \in Nat \ {0}
    BY CommentsAssumption
  <1>5. ~(now > issued[k] + CaptchaTtl) /\ issued[k] \in Nat
    BY <1>2, <1>3, <1>4
  <1>6. k # NoNonce => ~Claimed(k)
    BY <1>3, <1>5 DEF AInv, NonceKept
  <1>7. PICK x : x = now + CaptchaTtl + CaptchaGrace
    OBVIOUS
  <1>8. x \in Nat /\ x > issued[k] + CaptchaTtl
    BY <1>2, <1>4, <1>5, <1>7
  <1>9. used' = used \cup {[nonce |-> k, expires |-> x]}
    BY <1>7 DEF Post, UseCaptcha
  <1>10. PICK r : r = [Idle EXCEPT !.at = "limits", !.email = e, !.name = n, !.nonce = k, !.cookie = b]
    OBVIOUS
  <1>11. r.at = "limits" /\ r.nonce = k
    BY <1>10 DEF Idle
  <1>12. req' = [req EXCEPT ![p] = r]
    BY <1>10 DEF Post, Begin
  <1>13. \A q \in Threads : req'[q] = IF q = p THEN r ELSE req[q]
    BY <1>1, <1>12 DEF Types
  <1>14. NonceKept'
    <2>1. \A l \in Nonces : Claimed(l)' => Claimed(l) \/ l = k
      BY <1>1, <1>11, <1>13 DEF Claimed
    <2>2. used' \subseteq [nonce : Nonces, expires : Nat]
      BY <1>8, <1>9 DEF AInv, NonceKept
    <2>3. \A u \in used' : issued'[u.nonce] # Never /\ u.expires > issued'[u.nonce] + CaptchaTtl
      BY <1>1, <1>3, <1>8, <1>9 DEF AInv, NonceKept
    <2>4. \E u \in used' : u.nonce = k
      <3>1. PICK y : y = [nonce |-> k, expires |-> x]
        OBVIOUS
      <3> QED
        BY <1>9, <3>1
    <2>5. \A l \in Nonces \ {NoNonce} : Claimed(l)' =>
             issued'[l] # Never /\ ((\E u \in used' : u.nonce = l) \/ now' > issued'[l] + CaptchaTtl)
      BY <1>1, <1>3, <1>9, <2>1, <2>4 DEF AInv, NonceKept
    <2> QED
      BY <1>1, <2>2, <2>3, <2>5 DEF AInv, NonceKept
  <1>15. NonceApart'
    <2>1. NonceOnce'
      BY <1>1 DEF AInv, NonceApart, NonceOnce
    <2>2. k # NoNonce =>
             /\ \A c \in CommentIds : comment[c].nonce # k
             /\ \A q \in Threads : req[q].at \in Writing => req[q].nonce # k
      BY <1>6 DEF Claimed
    <2>3. \A q \in Threads, c \in CommentIds :
             req'[q].at \in Writing /\ req'[q].nonce # NoNonce => comment'[c].nonce # req'[q].nonce
      BY <1>1, <1>11, <1>13, <2>2 DEF AInv, NonceApart
    <2>4. \A q, s \in Threads :
             req'[q].at \in Writing /\ req'[s].at \in Writing /\ req'[q].nonce = req'[s].nonce
                /\ req'[q].nonce # NoNonce => q = s
      BY <1>11, <1>13, <2>2 DEF AInv, NonceApart
    <2> QED
      BY <2>1, <2>3, <2>4 DEF NonceApart
  <1>16. LimitInv'
    <2>1. FromHere' \subseteq FromHere
      BY <1>1 DEF FromHere, Stored
    <2>2. OnTheWay' \subseteq OnTheWay
      BY <1>11, <1>13 DEF OnTheWay, Passed
    <2> QED
      BY <2>1, <2>2, LimitLess DEF AInv
  <1>17. IdInv'
    BY <1>1, <1>11, <1>13 DEF IdInv
  <1> QED
    BY <1>14, <1>15, <1>16, <1>17 DEF AInv

\* The comment takes the challenge over from its request, and its place in
\* the limit.
LEMMA StoreAdmits ==
    ASSUME AInv, Types', NEW p \in Threads, Store(p)
    PROVE  AInv'
  <1>1. Types /\ IdInv /\ tokens' = tokens /\ used' = used /\ issued' = issued /\ now' = now /\ req[p].at = "store"
    BY DEF AInv, Store, At
  <1> DEFINE Doc == [status |-> IF Remembered(req[p]) THEN "pending" ELSE "unverified", by |-> req[p].email,
                     at |-> now, expires |-> IF Remembered(req[p]) THEN Never ELSE now + VerifyTime,
                     reply |-> FALSE, nonce |-> req[p].nonce]
  <1>0. PICK c \in CommentIds :
          /\ comment' = [comment EXCEPT ![c] = Doc]
          /\ req' = [req EXCEPT ![p].at = IF Remembered(req[p]) THEN "notice" ELSE "token", ![p].id = c,
                                ![p].until = now + VerifyTime]
    BY DEF Store
  <1>00. PICK x, a, u : x = Doc /\ a = (IF Remembered(req[p]) THEN "notice" ELSE "token") /\ u = now + VerifyTime
    OBVIOUS
  <1>2. /\ comment' = [comment EXCEPT ![c] = x] /\ x.nonce = req[p].nonce
        /\ req' = [req EXCEPT ![p].at = a, ![p].id = c, ![p].until = u] /\ a \in {"notice", "token"}
    BY <1>0, <1>00
  <1> HIDE DEF Doc
  <1>3. \A d \in CommentIds : comment'[d] = IF d = c THEN x ELSE comment[d]
    BY <1>1, <1>2 DEF Types
  <1>4. (\A q \in Threads \ {p} : req'[q] = req[q]) /\ req'[p].at = a /\ req'[p].id = c
    BY <1>1, <1>2 DEF Types, Job
  <1>5. \A q \in Threads : req'[q].at \in Writing => q # p /\ req'[q] = req[q]
    BY <1>2, <1>4 DEF Writing
  <1>6. NonceKept'
    <2>1. \A k \in Nonces : Claimed(k)' => Claimed(k)
      <3>1. ASSUME NEW k \in Nonces, NEW d \in CommentIds, comment'[d].nonce = k PROVE Claimed(k)
        <4>1. CASE d = c
          BY <1>1, <1>2, <1>3, <3>1, <4>1 DEF Claimed, Writing
        <4>2. CASE d # c
          BY <1>3, <3>1, <4>2 DEF Claimed
        <4> QED
          BY <4>1, <4>2
      <3>2. ASSUME NEW k \in Nonces, NEW q \in Threads, req'[q].at \in Writing, req'[q].nonce = k PROVE Claimed(k)
        BY <1>5, <3>2 DEF Claimed
      <3> QED
        BY <3>1, <3>2 DEF Claimed
    <2> QED
      BY <1>1, <2>1 DEF AInv, NonceKept
  <1>7. NonceApart'
    <2>1. \A d \in CommentIds : req[p].nonce # NoNonce => comment[d].nonce # req[p].nonce
      BY <1>1 DEF AInv, NonceApart, Writing
    <2>2. NonceOnce'
      BY <1>2, <1>3, <2>1 DEF AInv, NonceApart, NonceOnce
    <2>3. \A q \in Threads \ {p} : req[q].at \in Writing /\ req[q].nonce # NoNonce => req[q].nonce # req[p].nonce
      BY <1>1 DEF AInv, NonceApart, Writing
    <2>4. \A q \in Threads, d \in CommentIds :
             req'[q].at \in Writing /\ req'[q].nonce # NoNonce => comment'[d].nonce # req'[q].nonce
      <3>1. \A q \in Threads, d \in CommentIds :
               req[q].at \in Writing /\ req[q].nonce # NoNonce => comment[d].nonce # req[q].nonce
        BY DEF AInv, NonceApart
      <3>2. ASSUME NEW q \in Threads, NEW d \in CommentIds, req'[q].at \in Writing, req'[q].nonce # NoNonce
            PROVE  comment'[d].nonce # req'[q].nonce
        <4>1. q # p /\ req'[q] = req[q]
          BY <1>5, <3>2
        <4>2. CASE d = c
          BY <1>2, <1>3, <2>3, <3>2, <4>1, <4>2
        <4>3. CASE d # c
          BY <1>3, <3>1, <3>2, <4>1, <4>3
        <4> QED
          BY <4>2, <4>3
      <3> QED
        BY <3>2
    <2>5. \A q, s \in Threads :
             req'[q].at \in Writing /\ req'[s].at \in Writing /\ req'[q].nonce = req'[s].nonce
                /\ req'[q].nonce # NoNonce => q = s
      BY <1>5 DEF AInv, NonceApart
    <2> QED
      BY <2>2, <2>4, <2>5 DEF NonceApart
  <1>8. LimitInv'
    <2>1. FromHere' \subseteq FromHere \cup {c}
      BY <1>1, <1>3 DEF FromHere, Stored
    <2>2. OnTheWay' \subseteq OnTheWay \ {p} /\ p \in OnTheWay
      BY <1>1, <1>5 DEF OnTheWay, Passed, Writing
    <2>3. Cardinality(FromHere') <= Cardinality(FromHere) + 1
      <3>1. PICK S : S = FromHere
        OBVIOUS
      <3>2. IsFiniteSet(S) /\ Cardinality(S) \in Nat
        BY <3>1, Counts
      <3>3. PICK T : T = S \cup {c}
        OBVIOUS
      <3>4. IsFiniteSet(T) /\ Cardinality(T) = IF c \in S THEN Cardinality(S) ELSE Cardinality(S) + 1
        BY <3>2, <3>3, FS_AddElement
      <3>5. FromHere' \subseteq T
        BY <2>1, <3>1, <3>3
      <3>6. Cardinality(FromHere') <= Cardinality(T)
        BY <3>4, <3>5, FS_Subset
      <3> QED
        BY <3>1, <3>2, <3>4, <3>6, CountsNext
    <2>4. Cardinality(OnTheWay') <= Cardinality(OnTheWay) - 1
      <3>1. IsFiniteSet(OnTheWay \ {p}) /\ Cardinality(OnTheWay \ {p}) = Cardinality(OnTheWay) - 1
        BY <2>2, Counts, FS_RemoveElement
      <3>2. Cardinality(OnTheWay') <= Cardinality(OnTheWay \ {p})
        BY <2>2, <3>1, FS_Subset
      <3> QED
        BY <3>1, <3>2
    <2>5. IpLimit \in Nat
      BY CommentsAssumption
    <2> QED
      BY <2>3, <2>4, <2>5, Counts, CountsNext DEF AInv, LimitInv
  <1>9. IdInv'
    BY <1>1, <1>4 DEF IdInv
  <1> QED
    BY <1>6, <1>7, <1>8, <1>9 DEF AInv
\* The clock, the form and the TTL index: a nonce goes when its answer would
\* be too late.
LEMMA WorldAdmits ==
    ASSUME AInv, Types',
           \/ Tick
           \/ \E k \in Nonces : ShowForm(k)
           \/ \E u \in used : ForgetNonce(u)
    PROVE  AInv'
  <1>1. comment' = comment /\ req' = req /\ tokens' = tokens
    BY DEF Tick, ShowForm, ForgetNonce, dbVars
  <1>2. NonceApart' /\ IdInv'
    BY <1>1 DEF AInv, NonceApart, NonceOnce, IdInv
  <1>3. \A k : Claimed(k)' <=> Claimed(k)
    BY <1>1 DEF Claimed
  <1>4. CaptchaTtl \in Nat
    BY CommentsAssumption
  <1>5. now \in Nat \ {0} /\ issued \in [Nonces -> Nat] /\ now' \in Nat /\ now <= now'
    <2>1. now \in Nat \ {0} /\ issued \in [Nonces -> Nat]
      BY DEF AInv, NonceKept
    <2>2. now' = now \/ now' = now + 1
      BY DEF Tick, ShowForm, ForgetNonce
    <2> QED
      BY <2>1, <2>2
  <1>6. LimitInv'
    <2>1. FromHere' \subseteq FromHere
      <3>1. ASSUME NEW c \in CommentIds, comment[c].at + IpWindow >= now' PROVE comment[c].at + IpWindow >= now
        <4>1. comment[c].at \in Nat /\ IpWindow \in Nat
          BY CommentsAssumption DEF AInv, Types, CommentDoc
        <4> QED
          BY <1>5, <3>1, <4>1
      <3> QED
        BY <1>1, <3>1 DEF FromHere, Stored
    <2>2. OnTheWay' \subseteq OnTheWay
      BY <1>1 DEF OnTheWay
    <2> QED
      BY <2>1, <2>2, LimitLess DEF AInv
  <1>7. NonceKept'
    <2>1. CASE Tick
      <3>1. used' = used /\ issued' = issued
        BY <2>1 DEF Tick, dbVars
      <3>2. \A k \in Nonces : issued[k] <= now /\ issued[k] \in Nat
        BY <1>5 DEF AInv, NonceKept
      <3>3. \A k \in Nonces : now > issued[k] + CaptchaTtl => now' > issued[k] + CaptchaTtl
        BY <1>4, <1>5, <3>2
      <3>4. \A k \in Nonces : issued[k] <= now'
        BY <1>5, <3>2
      <3>5. now' \in Nat \ {0}
        BY <1>5
      <3> QED
        BY <1>3, <1>5, <3>1, <3>3, <3>4, <3>5 DEF AInv, NonceKept
    <2>2. ASSUME NEW k \in Nonces, ShowForm(k) PROVE NonceKept'
      <3>1. used' = used /\ now' = now /\ issued' = [issued EXCEPT ![k] = now] /\ issued[k] = Never
        BY <2>2 DEF ShowForm, dbVars
      <3>2. \A l \in Nonces : issued'[l] = IF l = k THEN now ELSE issued[l]
        BY <1>5, <3>1
      <3>3. issued' \in [Nonces -> Nat] /\ \A l \in Nonces : issued'[l] <= now'
        BY <1>5, <3>1, <3>2 DEF AInv, NonceKept
      <3>4. \A u \in used : u.nonce \in Nonces /\ u.nonce # k
        BY <3>1 DEF AInv, NonceKept
      <3>5. \A u \in used' : issued'[u.nonce] # Never /\ u.expires > issued'[u.nonce] + CaptchaTtl
        BY <3>1, <3>2, <3>4 DEF AInv, NonceKept
      <3>6. \A l \in Nonces \ {NoNonce} : Claimed(l) => l # k
        BY <3>1 DEF AInv, NonceKept
      <3>7. \A l \in Nonces \ {NoNonce} : Claimed(l)' =>
               issued'[l] # Never /\ ((\E u \in used' : u.nonce = l) \/ now' > issued'[l] + CaptchaTtl)
        BY <1>3, <3>1, <3>2, <3>6 DEF AInv, NonceKept
      <3> QED
        BY <1>5, <3>1, <3>3, <3>5, <3>7 DEF AInv, NonceKept
    <2>3. ASSUME NEW v \in used, ForgetNonce(v) PROVE NonceKept'
      <3>1. used' = used \ {v} /\ now' = now /\ issued' = issued /\ now >= v.expires
        BY <2>3 DEF ForgetNonce
      <3>2. v.nonce \in Nonces /\ v.expires \in Nat /\ v.expires > issued[v.nonce] + CaptchaTtl
        BY DEF AInv, NonceKept
      <3>3. now > issued[v.nonce] + CaptchaTtl
        BY <1>4, <1>5, <3>1, <3>2
      <3>4. ASSUME NEW k \in Nonces \ {NoNonce}, Claimed(k)'
            PROVE  issued[k] # Never /\ ((\E u \in used' : u.nonce = k) \/ now > issued[k] + CaptchaTtl)
        <4>1. issued[k] # Never /\ ((\E u \in used : u.nonce = k) \/ now > issued[k] + CaptchaTtl)
          BY <1>3, <3>4 DEF AInv, NonceKept
        <4> QED
          BY <3>1, <3>3, <4>1
      <3> QED
        BY <3>1, <3>4 DEF AInv, NonceKept
    <2> QED
      BY <2>1, <2>2, <2>3
  <1> QED
    BY <1>2, <1>6, <1>7 DEF AInv

LEMMA InitAInv == Init => AInv
  <1> SUFFICES ASSUME Init PROVE AInv
    OBVIOUS
  <1>1. Types
    BY InitCInv DEF CInv
  <1>2. (\A c \in CommentIds : comment[c].nonce = NoNonce /\ comment[c].status = "none")
        /\ (\A p \in Threads : req[p].at = "idle") /\ tokens = {} /\ used = {}
        /\ now = 1 /\ issued = [k \in Nonces |-> 0]
    BY DEF Init, NoComment, Idle, Never
  <1>3. \A k \in Nonces \ {NoNonce} : ~Claimed(k)
    BY <1>2 DEF Claimed, Writing
  <1>4. NonceKept
    BY <1>2, <1>3 DEF NonceKept
  <1>5. NonceApart
    BY <1>2 DEF NonceApart, NonceOnce, Writing
  <1>6. LimitInv
    <2>1. FromHere = {} /\ OnTheWay = {}
      BY <1>2 DEF FromHere, OnTheWay, Stored, Statuses, Passed, Writing
    <2>2. Cardinality(FromHere) = 0 /\ Cardinality(OnTheWay) = 0
      BY <2>1, FS_EmptySet
    <2>3. IpLimit \in Nat \ {0}
      BY CommentsAssumption
    <2> QED
      BY <2>2, <2>3, Counts DEF LimitInv
  <1>7. IdInv
    BY <1>2 DEF IdInv
  <1> QED
    BY <1>1, <1>4, <1>5, <1>6, <1>7 DEF AInv

LEMMA NextAInv == AInv /\ [Next]_vars => AInv'
  <1> SUFFICES ASSUME AInv, [Next]_vars PROVE AInv'
    OBVIOUS
  <1>0. Types /\ IdInv
    BY DEF AInv
  <1>1. CASE UNCHANGED vars
    <2>1. UNCHANGED <<users, comment, req, told, tokens, links, now, used, issued>>
      BY <1>1 DEF vars, dbVars
    <2>2. Types'
      BY <1>0, <2>1 DEF Types
    <2>3. Tame
      BY <1>0, <2>1, SameStays DEF Tame, Follows, IdInv, Naming
    <2> QED
      BY <2>2, <2>3, TameKeeps
  <1>2. CASE \/ Tick
             \/ \E k \in Nonces : ShowForm(k)
             \/ \E u \in used : ForgetNonce(u)
    BY <1>0, <1>2, WorldTypes, WorldAdmits
  <1>3. CASE \E c \in CommentIds : Expire(c)
    BY <1>0, <1>3, WorldTypes, ExpireTame, TameKeeps
  <1>4. ASSUME NEW p \in Threads,
               \/ \E e \in Emails, n \in Names, k \in Nonces, b \in BOOLEAN : Post(p, e, n, k, b)
               \/ CheckLimits(p) \/ Store(p)
        PROVE  AInv'
    <2>1. Types'
      BY <1>0, <1>4, WritingTypes
    <2> QED
      BY <1>4, <2>1, PostAdmits, CheckLimitsAdmits, StoreAdmits
  <1>5. ASSUME NEW p \in Threads,
               LookUp(p) \/ Rename(p) \/ NewCommenter(p) \/ StoreFails(p) \/ MailLink(p) \/ DrawLink(p) \/ Notify(p)
        PROVE  AInv'
    <2>1. Types'
      BY <1>0, <1>5, WritingTypes
    <2> QED
      BY <1>0, <1>5, <2>1, WritingTame, TameKeeps
  <1>6. ASSUME NEW p \in Threads, (\E t \in tokens : Verify(p, t)) \/ Confirm(p) \/ Spend(p) \/ Mark(p)
        PROVE  AInv'
    BY <1>0, <1>6, ConfirmingTypes, ConfirmingTame, TameKeeps
  <1>7. ASSUME NEW p \in Threads,
               \/ \E s \in Staff, c \in CommentIds, v \in Verbs : Moderate(p, s, v, c)
               \/ \E e \in Emails, v \in {"block", "unblock", "block-delete"} : Block(p, v, e)
               \/ SetStatus(p) \/ Delete(p) \/ ReadReply(p) \/ WriteReply(p) \/ DeleteReply(p) \/ Purge(p)
               \/ Extend(p) \/ DropLinks(p)
        PROVE  AInv'
    <2>1. Types'
      BY <1>0, <1>7, ModeratingTypes
    <2> QED
      BY <1>0, <1>7, <2>1, ModeratingTame, TameKeeps
  <1> QED
    BY <1>1, <1>2, <1>3, <1>4, <1>5, <1>6, <1>7, NextCases

LEMMA AInvImplies == AInv => AdmissionInv
  <1> SUFFICES ASSUME AInv PROVE AdmissionInv
    OBVIOUS
  <1>1. TypeOK
    <2>1. tokens \subseteq [link : Nat, id : CommentIds, expires : Nat]
      BY DEF AInv, Types, IdInv
    <2>2. users \in [Emails -> UserDoc] /\ comment \in [CommentIds -> CommentDoc]
      BY DEF AInv, Types
    <2>3. used \subseteq [nonce : Nonces, expires : Nat]
      BY DEF AInv, NonceKept
    <2> QED
      BY <2>1, <2>2, <2>3 DEF TypeOK, UserDoc, CommentDoc
  <1>2. NonceOnce
    BY DEF AInv, NonceApart
  <1>3. LimitOvershoot
    <2>1. IpLimit \in Nat
      BY CommentsAssumption
    <2> QED
      BY <2>1, Counts DEF AInv, LimitInv, LimitOvershoot
  <1> QED
    BY <1>1, <1>2, <1>3 DEF AdmissionInv

\* Of comments_post(), cms_comments_use_captcha() and cms_comments_within_limits(),
\* with any number of requests, challenges and clock ticks: a challenge is good for
\* one comment although its nonce is forgotten, since by then its answer is refused;
\* and the comments of an address within the hour exceed the limit by at most the
\* other requests that passed the check together.
THEOREM AdmissionInvThm == Spec => []AdmissionInv
  <1>1. Spec => []AInv
    BY InitAInv, NextAInv, PTL DEF Spec
  <1> QED
    BY <1>1, AInvImplies, PTL
-----------------------------------------------------------------------------
(* The moderation list and the routes behind it.                           *)

LEMMA RowAccepted ==
    ASSUME NEW s \in Staff, NEW c \in Listed(s), NEW v \in RowActions(s, c)
    PROVE  Accepts(s, v, c)
  <1>1. CanModerate(s, c)
    BY DEF Listed, CanModerate
  <1>2. CASE v \in {"approve", "reject", "resend"}
    BY <1>1, <1>2 DEF Accepts
  <1>3. CASE v = "delete"
    BY <1>1, <1>3 DEF Accepts, RowActions, PageFlags
  <1>4. CASE v = "reply"
    BY <1>1, <1>4 DEF Accepts, RowActions, PageFlags
  <1>5. CASE v \in {"block", "unblock", "block-delete"}
    <2>1. s = "admin"
      BY <1>5 DEF RowActions, PageFlags
    <2> QED
      BY <1>5, <2>1 DEF Accepts
  <1> QED
    BY <1>2, <1>3, <1>4, <1>5 DEF RowActions

\* Of row_actions() and the flags GET /dashboard/comments gives it, against the
\* checks of the routes: whatever state a comment is in, a moderator is offered
\* no action that its route refuses.
THEOREM OfferedIsAcceptedThm == Spec => []OfferedIsAccepted
  <1>1. OfferedIsAccepted
    <2> SUFFICES ASSUME NEW s \in Staff, NEW offer \in Offered(s) PROVE Accepts(s, offer[1], offer[2])
      BY DEF OfferedIsAccepted
    <2>1. PICK c \in Listed(s) : \E v \in RowActions(s, c) : offer = <<v, c>>
      BY DEF Offered
    <2>2. PICK v \in RowActions(s, c) : offer = <<v, c>>
      BY <2>1
    <2>3. offer[1] = v /\ offer[2] = c
      BY <2>2
    <2> QED
      BY <2>3, RowAccepted
  <1> QED
    BY <1>1, PTL

====
