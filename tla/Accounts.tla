------------------------------ MODULE Accounts ------------------------------
(***************************************************************************)
(* Users, roles, sessions and the gate of the dashboard: db/auth.c,        *)
(* db/session_manager.c, db/cms_users_admin.c and the routes of            *)
(* http_router.c that sign in, sign out and keep the users.                *)
(*                                                                         *)
(* A request is a thread that reads, decides, and then writes: the reads   *)
(* of a handler are one step and each of its database writes another.     *)
(* Names, addresses and passwords are left out: a right password is one    *)
(* the user has, and a form whose address or username is taken or wrong is *)
(* refused, which may happen to any form.                                  *)
(***************************************************************************)
EXTENDS Naturals, FiniteSets, TLC

CONSTANTS AccountThreads,     \* request handlers running at the same time
          UserIds,     \* users that exist or may be created
          FirstAdmins, \* the administrators of the first start
          Commenter,   \* a user who only ever commented
          MaxTokens,   \* bound on the sessions opened
          MaxAccountRequests, \* bound on the jobs
          MaxTime,     \* bound on the clock
          SessionTtl   \* session_ttl_seconds

ASSUME AccountsAssumption ==
    /\ FirstAdmins \subseteq UserIds /\ FirstAdmins # {}
    /\ Commenter \in UserIds \ FirstAdmins
    /\ MaxTokens \in Nat /\ MaxAccountRequests \in Nat /\ MaxTime \in Nat /\ SessionTtl \in Nat \ {0}

NoUser == "no user"

\* is_valid_role().
Roles == {"admin", "author", "viewer", "moderator", "commenter"}

VARIABLES
    users,     \* role ("none" before it is created, "gone" after, "unset" without the
               \* field) and whether there is a password
    sessions,  \* token, user, expires_at and, of the history, whether the user was
               \* read before they were deleted or made a commenter
    tokens,    \* tokens drawn
    closed,    \* site_settings.under_construction
    now,
    job,       \* what each thread is doing
    jobs,  \* jobs so far
    crossed      \* history: a user was written by a request that had read the
               \* users before another request wrote them

accountVars == <<users, sessions, tokens, closed, now, job, jobs, crossed>>

AtRest == [at |-> "idle", user |-> NoUser, target |-> NoUser, role |-> "none", password |-> FALSE,
         stale |-> FALSE]

AccountsInit ==
    /\ users = [u \in UserIds |->
                   IF u \in FirstAdmins THEN [role |-> "unset", password |-> TRUE]
                   ELSE IF u = Commenter THEN [role |-> "commenter", password |-> FALSE]
                   ELSE [role |-> "none", password |-> FALSE]]
    /\ sessions = {} /\ tokens = 0 /\ closed = FALSE /\ now = 1 /\ jobs = 0 /\ crossed = FALSE
    /\ job = [p \in AccountThreads |-> AtRest]

Free(p) == job[p] = AtRest /\ jobs < MaxAccountRequests

Enter(p, r) ==
    /\ Free(p)
    /\ jobs' = jobs + 1
    /\ job' = [job EXCEPT ![p] = r]

Exists(u) == users[u].role \notin {"none", "gone"}

\* cms_get_user_role(): a missing field means admin, a missing user nothing.
RoleOf(u) == IF users[u].role = "unset" THEN "admin" ELSE users[u].role

\* cms_count_admins().
Administrators == {u \in UserIds : RoleOf(u) = "admin" /\ Exists(u)}

\* maintenance_locks_out(), which fails closed.
LocksOut(u) == closed /\ RoleOf(u) # "admin"

-----------------------------------------------------------------------------
(* Signing in and out.                                                     *)

\* auth_login_user() of the right password.
Authenticates(u) == Exists(u) /\ RoleOf(u) # "commenter" /\ users[u].password

\* POST /login, up to the insert of the session.
SignIn(p, u) ==
    /\ Authenticates(u)
    /\ ~LocksOut(u)
    /\ Enter(p, [AtRest EXCEPT !.at = "signin", !.user = u])
    /\ UNCHANGED <<users, sessions, tokens, closed, now, crossed>>

\* create_session(); a failed insert signs nobody in.
CreateSession(p) ==
    /\ job[p].at = "signin"
    /\ tokens < MaxTokens
    /\ tokens' = tokens + 1
    /\ \/ sessions' = sessions \cup {[token |-> tokens', user |-> job[p].user, expires |-> now + SessionTtl,
                                      stale |-> job[p].stale]}
       \/ UNCHANGED sessions
    /\ job' = [job EXCEPT ![p] = AtRest]
    /\ UNCHANGED <<users, closed, now, jobs, crossed>>

\* validate_session_cookie().
Valid(s) == s \in sessions /\ s.expires > now

\* derive_csrf_token() and verify_csrf_token(): a page sends the token of
\* the session it was loaded in.
CsrfMatches(s, page) == page = s.token

\* destroy_session().
Destroy(token) == {s \in sessions : s.token # token}

\* POST /logout, with the cookie of s from a page of some session.
Logout(p, s, page) ==
    /\ CsrfMatches(s, page)
    /\ Enter(p, AtRest)
    /\ sessions' = Destroy(s.token)
    /\ UNCHANGED <<users, tokens, closed, now, crossed>>

\* The TTL index of the sessions, and the purge at start.
ExpireSession(s) ==
    /\ s \in sessions
    /\ s.expires <= now
    /\ sessions' = sessions \ {s}
    /\ UNCHANGED <<users, tokens, closed, now, job, jobs, crossed>>

-----------------------------------------------------------------------------
(* The gate of the dashboard.                                              *)

\* role_may_open(): "home" is /dashboard itself.
RoleMayOpen(role, area) ==
    CASE role = "commenter" -> FALSE
      [] role = "moderator" -> area \in {"home", "comments"}
      [] OTHER              -> TRUE

\* role_sees_everything().
SeesEverything(role) == role \in {"admin", "viewer"}

\* The areas whose routes call require_admin_session().
AdminAreas == {"users", "settings"}

\* Mutant: that the session's user still exists is not asked.
AdmitsGone(s, area, post, page) ==
    LET role == RoleOf(s.user)
    IN  /\ Valid(s)
        /\ ~LocksOut(s.user)
        /\ RoleMayOpen(role, area)
        /\ post # "no" => CsrfMatches(s, page) /\ (post = "write" => role # "viewer")
        /\ area \in AdminAreas => SeesEverything(role)

\* require_dashboard_session_ex() and require_admin_session(); post is "no",
\* "write" or one of the two read-only posts.
Admits(s, area, post, page) ==
    LET role == RoleOf(s.user)
    IN  /\ Valid(s)
        /\ ~LocksOut(s.user)
        /\ Exists(s.user)
        /\ RoleMayOpen(role, area)
        /\ post # "no" => CsrfMatches(s, page) /\ (post = "write" => role # "viewer")
        /\ area \in AdminAreas => SeesEverything(role)

\* send_maintenance_lockout().
LockOut(p, s) ==
    /\ Valid(s)
    /\ LocksOut(s.user)
    /\ Enter(p, AtRest)
    /\ sessions' = Destroy(s.token)
    /\ UNCHANGED <<users, tokens, closed, now, crossed>>

\* Any other dashboard post, as its handler sees it.
Write(p, s, area, page) ==
    /\ Admits(s, area, "write", page)
    /\ Enter(p, [AtRest EXCEPT !.at = "write", !.user = s.user])
    /\ UNCHANGED <<users, sessions, tokens, closed, now, crossed>>

\* A handler that writes something other than users and settings.
Written(p) ==
    /\ job[p].at = "write"
    /\ job' = [job EXCEPT ![p] = AtRest]
    /\ UNCHANGED <<users, sessions, tokens, closed, now, jobs, crossed>>

\* POST /dashboard/settings, the maintenance mode.
SetClosed(p, s, page) ==
    /\ Admits(s, "settings", "write", page)
    /\ Enter(p, AtRest)
    /\ closed' = ~closed
    /\ UNCHANGED <<users, sessions, tokens, now, crossed>>

-----------------------------------------------------------------------------
(* Keeping the users.                                                      *)

\* What follows a write of users: every other request that has read them is
\* stale.
Rewrite(p, new, r) ==
    /\ users' = new
    /\ crossed' = (crossed \/ job[p].stale)
    /\ job' = [q \in AccountThreads |-> IF q = p THEN r
                                 ELSE IF job[q] = AtRest THEN AtRest ELSE [job[q] EXCEPT !.stale = TRUE]]

\* POST /dashboard/users/new.
NewUser(p, s, page, u, role) ==
    /\ Admits(s, "users", "write", page)
    /\ users[u].role = "none"
    /\ Enter(p, [AtRest EXCEPT !.at = "create", !.target = u, !.role = role])
    /\ UNCHANGED <<users, sessions, tokens, closed, now, crossed>>

\* The insert of cms_create_user(), which the unique indexes may refuse.
CreateUser(p) ==
    /\ job[p].at = "create"
    /\ LET r == job[p]
       IN  \/ /\ users[r.target].role = "none"
              /\ Rewrite(p, [users EXCEPT ![r.target] = [role |-> r.role, password |-> TRUE]], AtRest)
           \/ job' = [job EXCEPT ![p] = AtRest] /\ UNCHANGED <<users, crossed>>
    /\ UNCHANGED <<sessions, tokens, closed, now, jobs>>

\* POST /dashboard/users/<id>/edit: what it refuses.
MayEdit(s, u, role, password) ==
    /\ ~(u = s.user /\ role # "admin" /\ Cardinality(Administrators) = 1)
    /\ role = "commenter" \/ password \/ users[u].password

EditUser(p, s, page, u, role, password) ==
    /\ Admits(s, "users", "write", page)
    /\ Exists(u)
    /\ MayEdit(s, u, role, password)
    /\ Enter(p, [AtRest EXCEPT !.at = "update", !.target = u, !.role = role, !.password = password])
    /\ UNCHANGED <<users, sessions, tokens, closed, now, crossed>>

\* Mutant: who becomes a commenter keeps their sessions.
UpdateKeepsSessions(p) ==
    /\ job[p].at = "update"
    /\ LET r == job[p]
       IN  IF Exists(r.target)
           THEN Rewrite(p, [users EXCEPT ![r.target] = [role |-> r.role, password |-> @.password \/ r.password]],
                        AtRest)
           ELSE job' = [job EXCEPT ![p] = AtRest] /\ UNCHANGED <<users, crossed>>
    /\ UNCHANGED <<sessions, tokens, closed, now, jobs>>

\* cms_update_user(): an update that matches nobody is no error.
UpdateUser(p) ==
    /\ job[p].at = "update"
    /\ LET r == job[p]
           next == IF r.role = "commenter" THEN [AtRest EXCEPT !.at = "end sessions", !.target = r.target]
                   ELSE AtRest
       IN  IF Exists(r.target)
           THEN Rewrite(p, [users EXCEPT ![r.target] = [role |-> r.role, password |-> @.password \/ r.password]],
                        next)
           ELSE job' = [job EXCEPT ![p] = next] /\ UNCHANGED <<users, crossed>>
    /\ UNCHANGED <<sessions, tokens, closed, now, jobs>>

\* POST /dashboard/users/<id>/delete.
DeleteUser(p, s, page, u) ==
    /\ Admits(s, "users", "write", page)
    /\ u # s.user
    /\ ~(Exists(u) /\ RoleOf(u) = "admin" /\ Cardinality(Administrators) = 1)
    /\ Enter(p, [AtRest EXCEPT !.at = "delete", !.target = u])
    /\ UNCHANGED <<users, sessions, tokens, closed, now, crossed>>

\* cms_delete_user().
RemoveUser(p) ==
    /\ job[p].at = "delete"
    /\ LET u == job[p].target
       IN  IF Exists(u)
           THEN Rewrite(p, [users EXCEPT ![u] = [role |-> "gone", password |-> FALSE]],
                        [AtRest EXCEPT !.at = "end sessions", !.target = u])
           ELSE job' = [job EXCEPT ![p] = AtRest] /\ UNCHANGED <<users, crossed>>
    /\ UNCHANGED <<sessions, tokens, closed, now, jobs>>

\* destroy_user_sessions().
EndSessions(p) ==
    /\ job[p].at = "end sessions"
    /\ sessions' = {s \in sessions : s.user # job[p].target}
    /\ job' = [job EXCEPT ![p] = AtRest]
    /\ UNCHANGED <<users, tokens, closed, now, jobs, crossed>>

-----------------------------------------------------------------------------

Tick ==
    /\ now < MaxTime
    /\ now' = now + 1
    /\ UNCHANGED <<users, sessions, tokens, closed, job, jobs, crossed>>

AccountsNext ==
    \/ Tick
    \/ \E s \in sessions : ExpireSession(s)
    \/ \E p \in AccountThreads :
        \/ \E u \in UserIds : SignIn(p, u)
        \/ CreateSession(p) \/ Written(p) \/ CreateUser(p) \/ UpdateUser(p) \/ RemoveUser(p) \/ EndSessions(p)
    \/ \E p \in {q \in AccountThreads : Free(q)}, s \in sessions, page \in 1 .. MaxTokens :
        \/ Logout(p, s, page)
        \/ LockOut(p, s)
        \/ \E area \in {"comments", "content"} : Write(p, s, area, page)
        \/ SetClosed(p, s, page)
        \/ \E u \in UserIds :
            \/ \E role \in Roles :
                \/ NewUser(p, s, page, u, role)
                \/ \E password \in BOOLEAN : EditUser(p, s, page, u, role, password)
            \/ DeleteUser(p, s, page, u)

AccountsSpec == AccountsInit /\ [][AccountsNext]_accountVars

-----------------------------------------------------------------------------
(* Properties.                                                             *)

AccountsTypeOK ==
    /\ users \in [UserIds -> [role : Roles \cup {"none", "gone", "unset"}, password : BOOLEAN]]
    /\ sessions \subseteq [token : 1 .. MaxTokens, user : UserIds, expires : Nat, stale : BOOLEAN]
    /\ tokens \in 0 .. MaxTokens /\ closed \in BOOLEAN /\ crossed \in BOOLEAN
    /\ now \in Nat /\ jobs \in Nat
    /\ job \in [AccountThreads -> [at : {"idle", "signin", "write", "create", "update", "delete", "end sessions"},
                            user : UserIds \cup {NoUser}, target : UserIds \cup {NoUser},
                            role : Roles \cup {"none"}, password : BOOLEAN, stale : BOOLEAN]]

\* "You are the only administrator" and "The last administrator cannot be
\* deleted": the site loses its last administrator only when two jobs
\* that change users ran over each other.
LastAdminKept == crossed \/ Administrators # {}

\* Everybody on the team has a password to sign in with, however edits that
\* promote and demote a commenter interleave.
TeamCanSignIn == \A u \in UserIds : Exists(u) /\ RoleOf(u) # "commenter" => users[u].password

\* A user who may not sign in has a session only until the request that took
\* their account away ends it, or from a sign-in that had read them before.
NoStraySession ==
    \A s \in sessions :
        \/ Exists(s.user) /\ RoleOf(s.user) # "commenter"
        \/ s.stale
        \/ \E p \in AccountThreads : job[p].at = "end sessions" /\ job[p].target = s.user

\* Whatever sessions are left behind, a request goes past the gate to change
\* something only for a user who is on the team at that moment, may write,
\* and while the site is closed is an administrator.
GateIsCurrent ==
    [][\A p \in AccountThreads :
        job[p] = AtRest /\ job'[p].at = "write"
            => LET u == job'[p].user
               IN  /\ users[u].role \in {"admin", "unset", "author", "moderator"}
                   /\ closed => u \in Administrators]_accountVars

\* Who is on the team and who holds a session agree, and somebody is left to
\* keep the users.
AccountsInv == AccountsTypeOK /\ LastAdminKept /\ TeamCanSignIn /\ NoStraySession

\* "The last administrator cannot be deleted."
AdminKept == Administrators # {}
=============================================================================
