------------------------------ MODULE Comments ------------------------------
(***************************************************************************)
(* Blog comments: db/cms_comments.c, modules/comments/comments.c, the      *)
(* moderation list of modules/comments_admin and the routes of             *)
(* http_router.c that call them.                                           *)
(*                                                                         *)
(* Every request runs on a thread of its own, and a handler is a sequence  *)
(* of database calls: one step of a thread is one call that writes, with   *)
(* the reads before it.  The collections are shared, nothing locks them.   *)
(* All comments are on one entry, written by the staff member "owner".     *)
(* Texts are left out; a name stands for its name_key.  A time is a tick   *)
(* of a clock whose unit is not fixed.                                     *)
(***************************************************************************)
EXTENDS Naturals, FiniteSets

CONSTANTS Threads,      \* request handlers running at the same time
          Emails,       \* addresses visitors type
          AuthorEmail,  \* the address of the entry's author, a team member
          Names,        \* names visitors type
          Nonces,       \* challenges drawn
          CommentIds,   \* 1..n, the comments stored
          MaxTokens,    \* bound on the confirmation links
          MaxRequests,  \* bound on the requests
          MaxTime,      \* bound on the clock
          CaptchaMin,   \* CAPTCHA_MIN_SECS
          CaptchaTtl,   \* CAPTCHA_TTL_SECS
          CaptchaGrace, \* the 60 s a nonce is kept after its challenge ends
          VerifyTime,   \* COMMENT_VERIFY_HOURS
          IpWindow,     \* the hour and COMMENT_LIMIT_PER_IP_HOUR
          IpLimit,
          EmailLimit    \* COMMENT_LIMIT_PER_EMAIL_DAY, the day being longer
                        \* than the clock runs

ASSUME CommentsAssumption ==
    /\ CommentIds \subseteq Nat \ {0} /\ IsFiniteSet(CommentIds) /\ IsFiniteSet(Threads)
    /\ VerifyTime \in Nat \ {0} /\ CaptchaTtl \in Nat /\ CaptchaGrace \in Nat \ {0}
    /\ IpWindow \in Nat /\ IpLimit \in Nat \ {0}

NoEmail == "no email"
NoName == "no name"
NoNonce == "no nonce"
Never == 0               \* no expires_at: the clock starts at 1

Staff == {"admin", "owner", "author", "moderator"}

VARIABLES
    users,     \* users by address: role ("none" when there is no such user),
               \* name, email_verified_at, blocked
    comment,   \* comments by id: status ("none" before it is stored, "gone"
               \* when deleted), commenter, created_at, expires_at, whether
               \* there is a reply, and the challenge answered for it
    tokens,    \* comment_tokens: link, comment, expires_at
    used,      \* captcha_used: nonce, expires_at
    issued,    \* when each challenge was drawn, Never before
    now,
    req,       \* what each thread is doing
    links,     \* links drawn so far
    mailed,    \* the links sent by email
    cookies,   \* addresses some browser holds the remember cookie of
    proved,    \* comments whose link was answered, or sent with the cookie
    told,      \* author notices queued for each comment
    orphans,   \* comments whose last link could not be stored
    requests   \* requests so far

dbVars == <<users, comment, tokens, used>>
vars == <<dbVars, issued, now, req, links, mailed, cookies, proved, told, orphans, requests>>

Idle == [at |-> "idle", email |-> NoEmail, name |-> NoName, nonce |-> NoNonce,
         id |-> 0, link |-> 0, until |-> Never, flag |-> FALSE, cookie |-> FALSE, blocked |-> FALSE,
         again |-> FALSE]

Statuses == {"unverified", "pending", "approved", "rejected"}
Stored(c) == comment[c].status \in Statuses
NewUser(name) == [role |-> "commenter", name |-> name, verified |-> FALSE, blocked |-> FALSE]
NoComment == [status |-> "none", by |-> NoEmail, at |-> Never, expires |-> Never,
              reply |-> FALSE, nonce |-> NoNonce]

Init ==
    /\ users = [e \in Emails |-> IF e = AuthorEmail
                                 THEN [NewUser("author") EXCEPT !.role = "author"]
                                 ELSE [NewUser(NoName) EXCEPT !.role = "none"]]
    /\ comment = [c \in CommentIds |-> NoComment]
    /\ tokens = {} /\ used = {}
    /\ issued = [k \in Nonces |-> Never]
    /\ now = 1
    /\ req = [p \in Threads |-> Idle]
    /\ links = 0 /\ mailed = {} /\ cookies = {} /\ proved = {} /\ orphans = {}
    /\ told = [c \in CommentIds |-> 0]
    /\ requests = 0

Begin(p, r) ==
    /\ req[p] = Idle
    /\ requests < MaxRequests
    /\ requests' = requests + 1
    /\ req' = [req EXCEPT ![p] = r]

At(p, at) == req[p].at = at
Goto(p, at) == req' = [req EXCEPT ![p].at = at]
Done(p) == req' = [req EXCEPT ![p] = Idle]

-----------------------------------------------------------------------------
(* Writing a comment.                                                      *)

\* The form of the comments section draws a challenge.
ShowForm(k) ==
    /\ issued[k] = Never
    /\ issued' = [issued EXCEPT ![k] = now]
    /\ UNCHANGED <<dbVars, now, req, links, mailed, cookies, proved, told, orphans, requests>>

\* captcha_check() of the right answer.
CaptchaOk(k) ==
    /\ issued[k] # Never
    /\ now - issued[k] <= CaptchaTtl
    /\ now - issued[k] >= CaptchaMin

\* Mutant: the nonce is kept only while the request runs.
UseCaptchaBriefly(k) == [nonce |-> k, expires |-> now]

\* What cms_comments_use_captcha() inserts.
UseCaptcha(k) == [nonce |-> k, expires |-> now + CaptchaTtl + CaptchaGrace]

\* remembered_commenter(): the cookie is signed, so the browser was given it.
CookieOf(e) == e \in cookies

\* comments_post() up to the insert of the nonce.  A post refused before
\* that, or because the unique index has the nonce, changes nothing.
Post(p, e, n, k, cookie) ==
    /\ CaptchaOk(k)
    /\ \A u \in used : u.nonce # k
    /\ used' = used \cup {UseCaptcha(k)}
    /\ cookie => CookieOf(e)
    /\ Begin(p, [Idle EXCEPT !.at = "limits", !.email = e, !.name = n, !.nonce = k,
                             !.cookie = cookie])
    /\ UNCHANGED <<users, comment, tokens, issued, now, links, mailed, cookies, proved, told, orphans>>

\* The TTL index of captcha_used.
ForgetNonce(u) ==
    /\ u \in used
    /\ now >= u.expires
    /\ used' = used \ {u}
    /\ UNCHANGED <<users, comment, tokens, issued, now, req, links, mailed, cookies, proved, told,
                   orphans, requests>>

\* count_since(): comments of the window that are still there.
FromHere == {c \in CommentIds : Stored(c) /\ comment[c].at + IpWindow >= now}
ByEmail(e) == {c \in CommentIds : Stored(c) /\ comment[c].by = e}

\* cms_comments_within_limits().
WithinLimits(e) ==
    /\ Cardinality(FromHere) < IpLimit
    /\ Cardinality(ByEmail(e)) < EmailLimit

CheckLimits(p) ==
    /\ At(p, "limits")
    /\ IF WithinLimits(req[p].email) THEN Goto(p, "lookup") ELSE Done(p)
    /\ UNCHANGED <<dbVars, issued, now, links, mailed, cookies, proved, told, orphans, requests>>

NameTaken(e, n) == \E other \in Emails \ {e} : users[other].role # "none" /\ users[other].name = n

\* commenter_for(): the user of the address is read, and the name refused
\* when somebody else has it.
LookUp(p) ==
    /\ At(p, "lookup")
    /\ LET r == req[p]
           u == users[r.email]
       IN  IF NameTaken(r.email, r.name)
           THEN Done(p)
           ELSE req' = [req EXCEPT ![p].at = IF u.role = "none" THEN "insert" ELSE "rename",
                                   ![p].flag = u.verified, ![p].blocked = u.blocked]
    /\ UNCHANGED <<dbVars, issued, now, links, mailed, cookies, proved, told, orphans, requests>>

\* A commenter known by another name is renamed, the unique index allowing;
\* a team member stays as they are.  Then whoever was blocked is refused.
Rename(p) ==
    /\ At(p, "rename")
    /\ LET r == req[p]
           dup == \E e \in Emails \ {r.email} : users[e].role = "commenter" /\ users[e].name = r.name
       IN  IF users[r.email].role = "commenter" /\ dup
           THEN Done(p) /\ UNCHANGED users
           ELSE /\ IF r.blocked THEN Done(p) ELSE Goto(p, "store")
                /\ users' = IF users[r.email].role = "commenter"
                            THEN [users EXCEPT ![r.email].name = r.name] ELSE users
    /\ UNCHANGED <<comment, tokens, used, issued, now, links, mailed, cookies, proved, told, orphans,
                   requests>>

\* A new commenter.  A duplicate key sends the request back to the lookup,
\* once.
NewCommenter(p) ==
    /\ At(p, "insert")
    /\ LET r == req[p]
           dup == users[r.email].role # "none" \/
                  \E e \in Emails : users[e].role = "commenter" /\ users[e].name = r.name
       IN  IF dup
           THEN /\ IF r.again THEN Done(p)
                   ELSE req' = [req EXCEPT ![p].at = "lookup", ![p].again = TRUE]
                /\ UNCHANGED users
           ELSE /\ users' = [users EXCEPT ![r.email] = NewUser(r.name)]
                /\ Goto(p, "store")
    /\ UNCHANGED <<comment, tokens, used, issued, now, links, mailed, cookies, proved, told, orphans,
                   requests>>

\* "Straight to the moderators when this browser proved this email before."
Remembered(r) == r.flag /\ r.cookie

\* Ids are taken in order.
NextId(c) ==
    /\ comment[c].status = "none"
    /\ \A d \in CommentIds : d < c => comment[d].status # "none"

\* cms_comments_submit(): the comment itself.
Store(p) ==
    /\ At(p, "store")
    /\ \E c \in CommentIds :
       LET r == req[p]
           sure == Remembered(r)
       IN  /\ NextId(c)
           /\ comment' = [comment EXCEPT ![c] =
                   [status |-> IF sure THEN "pending" ELSE "unverified", by |-> r.email, at |-> now,
                    expires |-> IF sure THEN Never ELSE now + VerifyTime,
                    reply |-> FALSE, nonce |-> r.nonce]]
           /\ req' = [req EXCEPT ![p].at = IF sure THEN "notice" ELSE "token", ![p].id = c,
                                 ![p].until = now + VerifyTime]
           /\ proved' = IF r.cookie THEN proved \cup {c} ELSE proved
    /\ UNCHANGED <<users, tokens, used, issued, now, links, mailed, cookies, told, orphans, requests>>

\* The insert of the comment fails: its commenter and its nonce stay.
StoreFails(p) ==
    /\ At(p, "store")
    /\ Done(p)
    /\ UNCHANGED <<dbVars, issued, now, links, mailed, cookies, proved, told, orphans, requests>>

\* A link is drawn and its hash stored: the end of cms_comments_submit()
\* and of cms_comments_renew_token().  The insert may fail.
DrawLink(p) ==
    /\ At(p, "token")
    /\ links < MaxTokens
    /\ links' = links + 1
    /\ LET r == req[p]
       IN  \/ /\ tokens' = tokens \cup {[link |-> links', id |-> r.id, expires |-> r.until]}
              /\ req' = [req EXCEPT ![p].at = "mail", ![p].link = links']
              /\ orphans' = orphans \ {r.id}
           \/ /\ Done(p)
              /\ orphans' = orphans \cup {r.id}
              /\ UNCHANGED tokens
    /\ UNCHANGED <<users, comment, used, issued, now, mailed, cookies, proved, told, requests>>

\* queue_confirmation(): the link goes to the commenter's address.
MailLink(p) ==
    /\ At(p, "mail")
    /\ mailed' = mailed \cup {req[p].link}
    /\ Done(p)
    /\ UNCHANGED <<dbVars, issued, now, links, cookies, proved, told, orphans, requests>>

\* cms_comments_notice(): the author of the entry is told, unless the comment
\* is gone or their own.
AuthorIsTold(c) == Stored(c) /\ comment[c].by # AuthorEmail

\* notify_author().
Notify(p) ==
    /\ At(p, "notice")
    /\ LET c == req[p].id
       IN  told' = IF AuthorIsTold(c) THEN [told EXCEPT ![c] = @ + 1] ELSE told
    /\ Done(p)
    /\ UNCHANGED <<dbVars, issued, now, links, mailed, cookies, proved, orphans, requests>>

-----------------------------------------------------------------------------
(* Confirming it.                                                          *)

\* token_comment(): the link is known and has not run out.
LiveLink(t) == t \in tokens /\ t.expires > now

\* POST /comments/verify, by whoever reads the mail.
Verify(p, t) ==
    /\ t.link \in mailed
    /\ LiveLink(t)
    /\ Begin(p, [Idle EXCEPT !.at = "confirm", !.link = t.link, !.id = t.id])
    /\ UNCHANGED <<dbVars, issued, now, links, mailed, cookies, proved, told, orphans>>

\* Mutant: the comment is not required to be unverified.
ConfirmAny(p) ==
    /\ At(p, "confirm")
    /\ LET c == req[p].id
       IN  /\ comment' = IF Stored(c) THEN [comment EXCEPT ![c].status = "pending", ![c].expires = Never]
                         ELSE comment
           /\ req' = [req EXCEPT ![p].at = "spend", ![p].flag = Stored(c)]
           /\ proved' = proved \cup {c}
    /\ UNCHANGED <<users, tokens, used, issued, now, links, mailed, cookies, told, orphans, requests>>

\* cms_comments_verify(): find_and_modify of the comment, if unverified.
Confirm(p) ==
    /\ At(p, "confirm")
    /\ LET c == req[p].id
           match == comment[c].status = "unverified"
       IN  /\ comment' = IF match THEN [comment EXCEPT ![c].status = "pending", ![c].expires = Never]
                         ELSE comment
           /\ req' = [req EXCEPT ![p].at = "spend", ![p].flag = match]
           /\ proved' = IF match THEN proved \cup {c} ELSE proved
    /\ UNCHANGED <<users, tokens, used, issued, now, links, mailed, cookies, told, orphans, requests>>

\* "The token is spent either way."
Spend(p) ==
    /\ At(p, "spend")
    /\ tokens' = {t \in tokens : t.link # req[p].link}
    /\ IF req[p].flag THEN Goto(p, "mark") ELSE Done(p)
    /\ UNCHANGED <<users, comment, used, issued, now, links, mailed, cookies, proved, told, orphans,
                   requests>>

\* The address is marked verified and the browser gets its cookie.
Mark(p) ==
    /\ At(p, "mark")
    /\ LET e == comment[req[p].id].by
       IN  /\ users' = [users EXCEPT ![e].verified = TRUE]
           /\ cookies' = cookies \cup {e}
    /\ Goto(p, "notice")
    /\ UNCHANGED <<comment, tokens, used, issued, now, links, mailed, proved, told, orphans, requests>>

\* The TTL index of comments.
Expire(c) ==
    /\ Stored(c)
    /\ comment[c].expires # Never
    /\ now >= comment[c].expires
    /\ comment' = [comment EXCEPT ![c].status = "gone"]
    /\ UNCHANGED <<users, tokens, used, issued, now, req, links, mailed, cookies, proved, told, orphans,
                   requests>>

-----------------------------------------------------------------------------
(* Moderating it.                                                          *)

\* cms_comments_can_moderate() with the owner the routes pass.
CanModerate(s, c) == Stored(c) /\ s # "author"

\* What the routes of http_router.c accept from a role (the gate of every
\* dashboard route has refused a viewer's post before).
Accepts(s, verb, c) ==
    CASE verb \in {"approve", "reject", "resend"} -> CanModerate(s, c)
      [] verb = "delete"                          -> CanModerate(s, c) /\ s # "moderator"
      [] verb \in {"reply", "reply/delete"}       -> CanModerate(s, c) /\ s # "moderator"
      [] verb \in {"block", "unblock", "block-delete"} -> s = "admin"

\* What GET /dashboard/comments tells the list about a role.
PageFlags(s) ==
    [delete |-> s # "moderator", block |-> s = "admin", reply |-> s \in {"admin", "owner", "author"}]

\* Mutant: everybody is shown the delete button.
RowActionsAll(s, c) ==
    LET st == comment[c].status
    IN  {v \in {"approve"} : st # "approved"} \cup {v \in {"reject"} : st # "rejected"} \cup {"delete"}

\* row_actions(): the actions a row shows.
RowActions(s, c) ==
    LET st == comment[c].status
    IN  {v \in {"reply"} : PageFlags(s).reply /\ st \in {"pending", "approved"}}
        \cup {v \in {"approve"} : st # "approved"} \cup {v \in {"reject"} : st # "rejected"}
        \cup {v \in {"delete"} : PageFlags(s).delete} \cup {v \in {"resend"} : st = "unverified"}
        \cup (IF ~PageFlags(s).block THEN {}
              ELSE IF users[comment[c].by].blocked THEN {"unblock"} ELSE {"block", "block-delete"})

\* The comments on the list: cms_comments_admin_list() within scope_to_owner().
Listed(s) == {c \in CommentIds : Stored(c) /\ s # "author"}

\* comments_admin_page(), all of its tabs.
Offered(s) == UNION {{<<v, c>> : v \in RowActions(s, c)} : c \in Listed(s)}

\* The routes of the moderation list: what may be done is checked, then the
\* handler goes on to its first write.
Moderate(p, s, verb, c) ==
    /\ Accepts(s, verb, c)
    /\ verb \notin {"block", "unblock", "block-delete"}
    /\ Begin(p, [Idle EXCEPT !.at = verb, !.id = c])
    /\ UNCHANGED <<dbVars, issued, now, links, mailed, cookies, proved, told, orphans>>

\* cms_comments_set_status(), from any status.
SetStatus(p) ==
    /\ \/ At(p, "approve") \/ At(p, "reject")
    /\ LET c == req[p].id
           st == IF At(p, "approve") THEN "approved" ELSE "rejected"
       IN  comment' = IF Stored(c) THEN [comment EXCEPT ![c].status = st, ![c].expires = Never] ELSE comment
    /\ Done(p)
    /\ UNCHANGED <<users, tokens, used, issued, now, links, mailed, cookies, proved, told, orphans,
                   requests>>

\* cms_comments_delete(): the links stay behind.
Delete(p) ==
    /\ At(p, "delete")
    /\ comment' = [comment EXCEPT ![req[p].id].status = "gone"]
    /\ Done(p)
    /\ UNCHANGED <<users, tokens, used, issued, now, links, mailed, cookies, proved, told, orphans,
                   requests>>

\* cms_comments_set_reply(): what it reads ...
ReadReply(p) ==
    /\ At(p, "reply")
    /\ LET c == req[p].id
       IN  IF comment[c].status \in {"pending", "approved"}
           THEN req' = [req EXCEPT ![p].at = IF comment[c].status = "pending" THEN "replyPending"
                                             ELSE "replyApproved"]
           ELSE Done(p)
    /\ UNCHANGED <<dbVars, issued, now, links, mailed, cookies, proved, told, orphans, requests>>

\* ... and what it writes, if the status is still the one it read.  A
\* pending comment is then approved, by a write of its own.
WriteReply(p) ==
    /\ \/ At(p, "replyPending") \/ At(p, "replyApproved")
    /\ LET c == req[p].id
           st == IF At(p, "replyPending") THEN "pending" ELSE "approved"
       IN  IF comment[c].status = st
           THEN /\ comment' = [comment EXCEPT ![c].reply = TRUE]
                /\ IF st = "pending" THEN Goto(p, "approve") ELSE Done(p)
           ELSE Done(p) /\ UNCHANGED comment
    /\ UNCHANGED <<users, tokens, used, issued, now, links, mailed, cookies, proved, told, orphans,
                   requests>>

DeleteReply(p) ==
    /\ At(p, "reply/delete")
    /\ comment' = [comment EXCEPT ![req[p].id].reply = FALSE]
    /\ Done(p)
    /\ UNCHANGED <<users, tokens, used, issued, now, links, mailed, cookies, proved, told, orphans,
                   requests>>

\* cms_comments_block(): the user first, then with delete_all every comment.
Block(p, verb, e) ==
    /\ users[e].role # "none"
    /\ Begin(p, IF verb = "block-delete" THEN [Idle EXCEPT !.at = "purge", !.email = e] ELSE Idle)
    /\ users' = [users EXCEPT ![e].blocked = (verb # "unblock")]
    /\ UNCHANGED <<comment, tokens, used, issued, now, links, mailed, cookies, proved, told, orphans>>

Purge(p) ==
    /\ At(p, "purge")
    /\ comment' = [c \in CommentIds |-> IF Stored(c) /\ comment[c].by = req[p].email
                                        THEN [comment[c] EXCEPT !.status = "gone"] ELSE comment[c]]
    /\ Done(p)
    /\ UNCHANGED <<users, tokens, used, issued, now, links, mailed, cookies, proved, told, orphans,
                   requests>>

\* cms_comments_renew_token(): "Still unverified: 24 more hours from now."
Extend(p) ==
    /\ At(p, "resend")
    /\ LET c == req[p].id
       IN  IF comment[c].status = "unverified"
           THEN /\ comment' = [comment EXCEPT ![c].expires = now + VerifyTime]
                /\ req' = [req EXCEPT ![p].at = "drop", ![p].until = now + VerifyTime]
           ELSE Done(p) /\ UNCHANGED comment
    /\ UNCHANGED <<users, tokens, used, issued, now, links, mailed, cookies, proved, told, orphans,
                   requests>>

\* Mutant: the links are dropped after the new one was stored.
DropLate(p) ==
    /\ At(p, "drop")
    /\ links < MaxTokens
    /\ links' = links + 1
    /\ tokens' = {t \in tokens : t.id # req[p].id}
    /\ req' = [req EXCEPT ![p].at = "mail", ![p].link = links']
    /\ UNCHANGED <<users, comment, used, issued, now, mailed, cookies, proved, told, orphans, requests>>

\* "The earlier links stop working: only the newest email confirms."
DropLinks(p) ==
    /\ At(p, "drop")
    /\ tokens' = {t \in tokens : t.id # req[p].id}
    /\ Goto(p, "token")
    /\ UNCHANGED <<users, comment, used, issued, now, links, mailed, cookies, proved, told, orphans,
                   requests>>

-----------------------------------------------------------------------------

Tick ==
    /\ now < MaxTime
    /\ now' = now + 1
    /\ UNCHANGED <<dbVars, issued, req, links, mailed, cookies, proved, told, orphans, requests>>

Next ==
    \/ Tick
    \/ \E k \in Nonces : ShowForm(k)
    \/ \E u \in used : ForgetNonce(u)
    \/ \E c \in CommentIds : Expire(c)
    \/ \E p \in Threads :
        \/ \E e \in Emails, n \in Names, k \in Nonces, b \in BOOLEAN : Post(p, e, n, k, b)
        \/ CheckLimits(p) \/ LookUp(p) \/ Rename(p) \/ NewCommenter(p) \/ Store(p) \/ StoreFails(p)
        \/ DrawLink(p) \/ MailLink(p) \/ Notify(p)
        \/ \E t \in tokens : Verify(p, t)
        \/ Confirm(p) \/ Spend(p) \/ Mark(p)
        \/ \E s \in Staff, c \in CommentIds,
              v \in {"approve", "reject", "delete", "resend", "reply", "reply/delete"} : Moderate(p, s, v, c)
        \/ \E e \in Emails, v \in {"block", "unblock", "block-delete"} : Block(p, v, e)
        \/ SetStatus(p) \/ Delete(p) \/ ReadReply(p) \/ WriteReply(p) \/ DeleteReply(p) \/ Purge(p)
        \/ Extend(p) \/ DropLinks(p)

Spec == Init /\ [][Next]_vars

-----------------------------------------------------------------------------
(* Properties.                                                             *)

TypeOK ==
    /\ users \in [Emails -> [role : {"none", "commenter", "author"}, name : Names \cup {NoName, "author"},
                             verified : BOOLEAN, blocked : BOOLEAN]]
    /\ comment \in [CommentIds -> [status : Statuses \cup {"none", "gone"}, by : Emails \cup {NoEmail},
                                   at : Nat, expires : Nat, reply : BOOLEAN, nonce : Nonces \cup {NoNonce}]]
    /\ tokens \subseteq [link : Nat, id : CommentIds, expires : Nat]
    /\ used \subseteq [nonce : Nonces, expires : Nat]

\* A challenge is good for one comment: its nonce is remembered longer than
\* its answer would be accepted.
NonceOnce ==
    \A c, d \in CommentIds : comment[c].nonce = comment[d].nonce /\ comment[c].nonce # NoNonce => c = d

\* However requests interleave, a comment reaches the moderators' queue only
\* when its own link was answered, or from a browser that answered one of
\* that address before.
ProvedBeforeQueue == \A c \in CommentIds : comment[c].status = "pending" => c \in proved

\* The author of the entry is told of a comment once, whatever links were
\* mailed for it and however often they are posted.
NoticeOnce == \A c \in CommentIds : told[c] <= 1

\* Only a comment that still waits for its confirmation has a time to
\* expire: a resend racing the confirmation cannot give it one back.
OnlyUnverifiedExpire ==
    \A c \in CommentIds : Stored(c) /\ comment[c].expires # Never => comment[c].status = "unverified"

\* Somebody is at work on the links of the comment.
Busy(c) == \E p \in Threads : req[p].id = c /\ req[p].at \in {"token", "drop"}

\* An unverified comment nobody is working on has a link, whatever resends
\* ran over each other, or its last link could not be stored.
NeverStranded ==
    \A c \in CommentIds :
        comment[c].status = "unverified" /\ ~Busy(c) /\ c \notin orphans
            => \/ \E t \in tokens : t.id = c
               \/ \E p \in Threads : req[p].id = c /\ req[p].at \in {"confirm", "spend"}

\* Threads that pass the limit together exceed it by what was on its way.
LimitOvershoot == Cardinality(FromHere) <= IpLimit + Cardinality(Threads) - 1

\* What the moderation list offers, the routes accept.
OfferedIsAccepted ==
    \A s \in Staff : \A offer \in Offered(s) : Accepts(s, offer[1], offer[2])

\* What is let in: one comment per challenge, and no more of an address than
\* the limit and the requests on their way.
AdmissionInv == TypeOK /\ NonceOnce /\ LimitOvershoot

\* What confirmation does to a comment, with links posted twice, resent and
\* run out: it is proved once, kept, and can be confirmed until it goes.
ConfirmationInv == ProvedBeforeQueue /\ NoticeOnce /\ OnlyUnverifiedExpire /\ NeverStranded

\* No confirmation takes back what a moderator decided.
ModeratedStays ==
    [][\A c \in CommentIds : comment[c].status \in {"approved", "rejected"}
            => comment'[c].status \in {"approved", "rejected", "gone"}]_vars

=============================================================================
