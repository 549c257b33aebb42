----------------------------- MODULE SiteProofs -----------------------------
(***************************************************************************)
(* Proofs about what the administrators keep: the accounts (module         *)
(* Accounts), the migrations of a start-up (Startup), and the languages,   *)
(* the names in them and the settings (Site).                              *)
(***************************************************************************)
EXTENDS Accounts, Startup, Site, FiniteSetTheorems, WellFoundedInduction, TLAPS

Jobs == [at : {"idle", "signin", "write", "create", "update", "delete", "end sessions"},
         user : UserIds \cup {NoUser}, target : UserIds \cup {NoUser},
         role : Roles \cup {"none"}, password : BOOLEAN, stale : BOOLEAN]

\* The user a job is about to write is a user.
JobTargets ==
    \A p \in AccountThreads :
        /\ job[p].at = "signin" => job[p].user \in UserIds
        /\ job[p].at \in {"create", "update", "delete", "end sessions"} => job[p].target \in UserIds
        /\ job[p].at \in {"create", "update"} => job[p].role \in Roles

\* What an edit or a delete read of the other administrators still holds while
\* no other request has written the users.
AnotherAdmin ==
    \A p \in AccountThreads :
        ~job[p].stale /\ (job[p].at = "delete" \/ (job[p].at = "update" /\ job[p].role # "admin"))
            => \E v \in Administrators : v # job[p].target

\* An edit that puts somebody on the team gives them a password, or they
\* have one: a password is never taken away from a user who is there.
EditKeepsPassword ==
    \A p \in AccountThreads :
        job[p].at = "update" =>
            /\ users[job[p].target].role # "none"
            /\ job[p].role # "commenter" =>
                  job[p].password \/ users[job[p].target].password \/ users[job[p].target].role = "gone"

\* A sign-in that nobody overtook is of a user who may still sign in.
SignInCurrent ==
    \A p \in AccountThreads :
        job[p].at = "signin" /\ ~job[p].stale => Exists(job[p].user) /\ RoleOf(job[p].user) # "commenter"

\* The inductive invariant of the accounts.
AccountsIInv == AccountsInv /\ JobTargets /\ AnotherAdmin /\ EditKeepsPassword /\ SignInCurrent

-----------------------------------------------------------------------------

\* An idle thread has read nothing.
LEMMA AtRestJob == AtRest \in Jobs /\ AtRest.at = "idle" /\ ~AtRest.stale
  BY DEF AtRest, Jobs

\* NoUser is no value of a field that is compared with a role.
LEMMA AccountsInitOK == AccountsInit => AccountsIInv
  <1> SUFFICES ASSUME AccountsInit PROVE AccountsIInv
    OBVIOUS
  <1> USE DEF AccountsInit
  <1>1. AccountsTypeOK
    <2>1. users \in [UserIds -> [role : Roles \cup {"none", "gone", "unset"}, password : BOOLEAN]]
      BY DEF Roles
    <2>2. job \in [AccountThreads -> Jobs]
      BY AtRestJob
    <2>3. tokens \in 0 .. MaxTokens /\ now \in Nat /\ jobs \in Nat
      BY AccountsAssumption
    <2>4. closed \in BOOLEAN /\ crossed \in BOOLEAN /\ sessions = {}
      OBVIOUS
    <2> HIDE DEF AccountsInit
    <2> QED
      BY <2>1, <2>2, <2>3, <2>4 DEF AccountsTypeOK, Jobs
  <1>2. \A p \in AccountThreads : job[p].at = "idle"
    BY AtRestJob
  <1>3. LastAdminKept
    <2>1. PICK a \in FirstAdmins : TRUE
      BY AccountsAssumption
    <2>2. a \in UserIds /\ users[a].role = "unset"
      BY <2>1, AccountsAssumption
    <2> QED
      BY <2>2 DEF LastAdminKept, Administrators, RoleOf, Exists
  <1>4. TeamCanSignIn
    BY DEF TeamCanSignIn, Exists, RoleOf
  <1>5. NoStraySession
    BY DEF NoStraySession
  <1> QED
    BY <1>1, <1>2, <1>3, <1>4, <1>5 DEF AccountsIInv, AccountsInv, JobTargets, AnotherAdmin, EditKeepsPassword,
       SignInCurrent

\* Who passes the gate of the users' pages to write is an administrator.
LEMMA GateIsAdmin ==
  ASSUME AccountsTypeOK, NEW s \in sessions, NEW page, Admits(s, "users", "write", page)
  PROVE  s.user \in Administrators
  <1>1. s.user \in UserIds
    BY DEF AccountsTypeOK
  <1>2. RoleOf(s.user) = "admin" /\ Exists(s.user)
    BY DEF Admits, AdminAreas, SeesEverything
  <1> QED
    BY <1>1, <1>2 DEF Administrators

-----------------------------------------------------------------------------
(* Steps that write no user.                                               *)

\* A thread's new job keeps the invariant when it states what was read.
JobOK(r) ==
    /\ r \in Jobs
    /\ r.at = "signin" => r.user \in UserIds
    /\ r.at \in {"create", "update", "delete", "end sessions"} => r.target \in UserIds
    /\ r.at \in {"create", "update"} => r.role \in Roles
    /\ ~r.stale /\ (r.at = "delete" \/ (r.at = "update" /\ r.role # "admin"))
            => \E v \in Administrators : v # r.target
    /\ r.at = "update" =>
            /\ users[r.target].role # "none"
            /\ r.role # "commenter" =>
                  r.password \/ users[r.target].password \/ users[r.target].role = "gone"
    /\ r.at = "signin" /\ ~r.stale => Exists(r.user) /\ RoleOf(r.user) # "commenter"

LEMMA AtRestOK == JobOK(AtRest)
  BY AtRestJob DEF JobOK

\* The jobs, the sessions and the rest may change around unchanged users: each
\* new job states what it read, and sessions are only added for a current
\* sign-in or taken away.
LEMMA UsersUnchanged ==
  ASSUME AccountsIInv, users' = users, crossed' = crossed,
         NEW p \in AccountThreads, NEW r, JobOK(r), job' = [job EXCEPT ![p] = r],
         tokens' \in 0 .. MaxTokens, closed' \in BOOLEAN, now' \in Nat, jobs' \in Nat,
         sessions' \subseteq [token : 1 .. MaxTokens, user : UserIds, expires : Nat, stale : BOOLEAN],
         NoStraySession'
  PROVE  AccountsIInv'
  <1> USE DEF AccountsIInv, AccountsInv
  <1>1. job' \in [AccountThreads -> Jobs] /\ job'[p] = r /\ \A q \in AccountThreads : q # p => job'[q] = job[q]
    <2>1. job \in [AccountThreads -> Jobs]
      BY DEF AccountsTypeOK, Jobs
    <2> QED
      BY <2>1 DEF JobOK
  <1>2. AccountsTypeOK'
    BY <1>1 DEF AccountsTypeOK, Jobs
  <1>3. Administrators' = Administrators /\ \A u : Exists(u)' = Exists(u) /\ RoleOf(u)' = RoleOf(u)
    BY DEF Administrators, Exists, RoleOf
  <1>4. LastAdminKept' /\ TeamCanSignIn'
    BY <1>3 DEF LastAdminKept, TeamCanSignIn
  <1>5. JobTargets'
    BY <1>1 DEF JobTargets, JobOK
  <1>6. AnotherAdmin'
    BY <1>1, <1>3 DEF AnotherAdmin, JobOK
  <1>7. EditKeepsPassword'
    BY <1>1 DEF EditKeepsPassword, JobOK
  <1>8. SignInCurrent'
    BY <1>1, <1>3 DEF SignInCurrent, JobOK, Exists, RoleOf
  <1> QED
    BY <1>2, <1>4, <1>5, <1>6, <1>7, <1>8

\* A step of a free thread that only begins a job, or ends sessions: who is
\* still in one keeps the excuse that NoStraySession gives them.
LEMMA SessionsLeft ==
  ASSUME AccountsIInv, users' = users, sessions' \subseteq sessions,
         NEW p \in AccountThreads, NEW r \in Jobs, job' = [job EXCEPT ![p] = r],
         job[p].at # "end sessions" \/ \A s \in sessions' : s.user # job[p].target
  PROVE  NoStraySession'
  <1> SUFFICES ASSUME NEW s \in sessions', ~s.stale, ~(Exists(s.user) /\ RoleOf(s.user) # "commenter")
               PROVE  \E q \in AccountThreads : job'[q].at = "end sessions" /\ job'[q].target = s.user
    BY DEF NoStraySession, Exists, RoleOf
  <1>1. PICK q \in AccountThreads : job[q].at = "end sessions" /\ job[q].target = s.user
    BY DEF AccountsIInv, AccountsInv, NoStraySession
  <1>2. q # p
    BY <1>1
  <1>3. job \in [AccountThreads -> Jobs]
    BY DEF AccountsIInv, AccountsInv, AccountsTypeOK, Jobs
  <1> QED
    BY <1>1, <1>2, <1>3

\* A request that enters with a job that states what it read.
LEMMA EnterOK ==
  ASSUME AccountsIInv, NEW p \in AccountThreads, NEW r, JobOK(r), Enter(p, r),
         sessions' \subseteq sessions, closed' \in BOOLEAN, UNCHANGED <<users, tokens, now, crossed>>
  PROVE  AccountsIInv'
  <1>a. jobs \in Nat
    BY DEF AccountsIInv, AccountsInv, AccountsTypeOK
  <1>b. jobs' \in Nat
    BY <1>a DEF Enter
  <1>1. job' = [job EXCEPT ![p] = r] /\ jobs' \in Nat /\ job[p].at = "idle"
    BY <1>b, AtRestJob DEF Enter, Free
  <1>2. NoStraySession'
    BY <1>1, SessionsLeft DEF JobOK
  <1>3. sessions' \subseteq [token : 1 .. MaxTokens, user : UserIds, expires : Nat, stale : BOOLEAN]
        /\ tokens' \in 0 .. MaxTokens /\ now' \in Nat
    BY DEF AccountsIInv, AccountsInv, AccountsTypeOK
  <1> QED
    BY <1>1, <1>2, <1>3, UsersUnchanged

\* A job that ends without a write of users.
LEMMA LeaveOK ==
  ASSUME AccountsIInv, NEW p \in AccountThreads, job' = [job EXCEPT ![p] = AtRest],
         sessions' \subseteq sessions, UNCHANGED <<users, tokens, closed, now, jobs, crossed>>,
         job[p].at # "end sessions" \/ \A s \in sessions' : s.user # job[p].target
  PROVE  AccountsIInv'
  <1>2. NoStraySession'
    BY SessionsLeft, AtRestJob
  <1>3. sessions' \subseteq [token : 1 .. MaxTokens, user : UserIds, expires : Nat, stale : BOOLEAN]
        /\ tokens' \in 0 .. MaxTokens /\ now' \in Nat /\ jobs' \in Nat /\ closed' \in BOOLEAN
    BY DEF AccountsIInv, AccountsInv, AccountsTypeOK
  <1> QED
    BY <1>2, <1>3, UsersUnchanged, AtRestOK

LEMMA SignInKeeps ==
  ASSUME AccountsIInv, NEW p \in AccountThreads, NEW u \in UserIds, SignIn(p, u)
  PROVE  AccountsIInv'
  <1> DEFINE r == [AtRest EXCEPT !.at = "signin", !.user = u]
  <1>1. r \in Jobs /\ r.at = "signin" /\ r.user = u
    BY DEF AtRest, Jobs
  <1>2. JobOK(r)
    BY <1>1 DEF JobOK, SignIn, Authenticates
  <1>3. Enter(p, r) /\ UNCHANGED <<users, sessions, tokens, closed, now, crossed>>
    BY DEF SignIn
  <1>4. closed' \in BOOLEAN
    BY <1>3 DEF AccountsIInv, AccountsInv, AccountsTypeOK
  <1> HIDE DEF r
  <1> QED
    BY <1>2, <1>3, <1>4, EnterOK

LEMMA CreateSessionKeeps ==
  ASSUME AccountsIInv, NEW p \in AccountThreads, CreateSession(p)
  PROVE  AccountsIInv'
  <1> DEFINE s == [token |-> tokens', user |-> job[p].user, expires |-> now + SessionTtl, stale |-> job[p].stale]
  <1>1. /\ job[p].at = "signin" /\ job' = [job EXCEPT ![p] = AtRest]
        /\ UNCHANGED <<users, closed, now, jobs, crossed>>
        /\ sessions' = sessions \cup {s} \/ sessions' = sessions
    BY DEF CreateSession
  <1>0. AccountsTypeOK /\ SignInCurrent
    BY DEF AccountsIInv, AccountsInv
  <1>a. tokens \in 0 .. MaxTokens /\ now \in Nat /\ jobs \in Nat
    BY <1>0 DEF AccountsTypeOK
  <1>b. closed \in BOOLEAN
    BY <1>0 DEF AccountsTypeOK
  <1>2. tokens' \in 1 .. MaxTokens
    BY <1>a, AccountsAssumption DEF CreateSession
  <1>3. job[p] \in Jobs /\ job[p].user \in UserIds
    BY <1>1 DEF AccountsIInv, AccountsInv, AccountsTypeOK, JobTargets, Jobs
  <1>4. now + SessionTtl \in Nat
    BY <1>a, AccountsAssumption
  <1>5. s \in [token : 1 .. MaxTokens, user : UserIds, expires : Nat, stale : BOOLEAN]
        /\ s.user = job[p].user /\ s.stale = job[p].stale
    BY <1>2, <1>3, <1>4 DEF Jobs
  <1> HIDE DEF s
  <1>6. s.stale \/ (Exists(s.user) /\ RoleOf(s.user) # "commenter")
    <2>1. job[p].stale \/ (Exists(job[p].user) /\ RoleOf(job[p].user) # "commenter")
      <3>1. job[p].at = "signin"
        BY <1>1
      <3>2. SignInCurrent
        BY <1>0
      <3> QED
        BY <3>1, <3>2 DEF SignInCurrent
    <2>2. s.user = job[p].user /\ s.stale = job[p].stale
      BY <1>5
    <2> QED
      BY <2>1, <2>2 DEF Exists, RoleOf
  <1>7. sessions' \subseteq [token : 1 .. MaxTokens, user : UserIds, expires : Nat, stale : BOOLEAN]
    <2>1. sessions \subseteq [token : 1 .. MaxTokens, user : UserIds, expires : Nat, stale : BOOLEAN]
      BY <1>0 DEF AccountsTypeOK
    <2> QED
      BY <2>1, <1>1, <1>5
  <1>8. NoStraySession'
    <2> SUFFICES ASSUME NEW t \in sessions', ~t.stale, ~(Exists(t.user) /\ RoleOf(t.user) # "commenter")
                 PROVE  \E q \in AccountThreads : job'[q].at = "end sessions" /\ job'[q].target = t.user
      BY <1>1 DEF NoStraySession, Exists, RoleOf
    <2>1. t \in sessions
      BY <1>1, <1>6
    <2>2. PICK q \in AccountThreads : job[q].at = "end sessions" /\ job[q].target = t.user
      BY <2>1 DEF AccountsIInv, AccountsInv, NoStraySession
    <2>3. q # p
      BY <1>1, <2>2
    <2>4. job \in [AccountThreads -> Jobs]
      BY DEF AccountsIInv, AccountsInv, AccountsTypeOK, Jobs
    <2> QED
      BY <1>1, <2>2, <2>3, <2>4
  <1>9. tokens' \in 0 .. MaxTokens /\ closed' \in BOOLEAN /\ now' \in Nat /\ jobs' \in Nat
    <2>1. tokens' \in 0 .. MaxTokens
      BY <1>2, AccountsAssumption
    <2>2. closed' \in BOOLEAN
      BY <1>1, <1>b
    <2> QED
      BY <2>1, <2>2, <1>1, <1>a
  <1> QED
    BY <1>1, <1>7, <1>8, <1>9, UsersUnchanged, AtRestOK

\* A step that leaves users and jobs alone and ends sessions at most.
LEMMA QuietOK ==
  ASSUME AccountsIInv, sessions' \subseteq sessions, now' \in Nat,
         UNCHANGED <<users, tokens, closed, job, jobs, crossed>>
  PROVE  AccountsIInv'
  <1> USE DEF AccountsIInv, AccountsInv
  <1>1. Administrators' = Administrators /\ \A u : Exists(u)' = Exists(u) /\ RoleOf(u)' = RoleOf(u)
    BY DEF Administrators, Exists, RoleOf
  <1>2. AccountsTypeOK'
    BY DEF AccountsTypeOK
  <1>3. LastAdminKept' /\ TeamCanSignIn'
    BY <1>1 DEF LastAdminKept, TeamCanSignIn
  <1>4. NoStraySession'
    BY DEF NoStraySession, Exists, RoleOf
  <1>5. JobTargets' /\ EditKeepsPassword'
    BY DEF JobTargets, EditKeepsPassword
  <1>6. AnotherAdmin'
    BY <1>1 DEF AnotherAdmin
  <1>7. SignInCurrent'
    BY DEF SignInCurrent, Exists, RoleOf
  <1> QED
    BY <1>2, <1>3, <1>4, <1>5, <1>6, <1>7

LEMMA LogoutKeeps ==
  ASSUME AccountsIInv, NEW p \in AccountThreads, NEW s \in sessions, NEW page, Logout(p, s, page)
  PROVE  AccountsIInv'
  <1>1. closed' \in BOOLEAN
    BY DEF Logout, AccountsIInv, AccountsInv, AccountsTypeOK
  <1> QED
    BY <1>1, EnterOK, AtRestOK DEF Logout, Destroy

LEMMA LockOutKeeps ==
  ASSUME AccountsIInv, NEW p \in AccountThreads, NEW s \in sessions, LockOut(p, s)
  PROVE  AccountsIInv'
  <1>1. closed' \in BOOLEAN
    BY DEF LockOut, AccountsIInv, AccountsInv, AccountsTypeOK
  <1> QED
    BY <1>1, EnterOK, AtRestOK DEF LockOut, Destroy

LEMMA SetClosedKeeps ==
  ASSUME AccountsIInv, NEW p \in AccountThreads, NEW s \in sessions, NEW page, SetClosed(p, s, page)
  PROVE  AccountsIInv'
  <1>1. closed' \in BOOLEAN
    BY DEF SetClosed
  <1> QED
    BY <1>1, EnterOK, AtRestOK DEF SetClosed

LEMMA WriteKeeps ==
  ASSUME AccountsIInv, NEW p \in AccountThreads, NEW s \in sessions, NEW area, NEW page, Write(p, s, area, page)
  PROVE  AccountsIInv'
  <1> DEFINE r == [AtRest EXCEPT !.at = "write", !.user = s.user]
  <1>1. s.user \in UserIds /\ closed \in BOOLEAN
    BY DEF AccountsIInv, AccountsInv, AccountsTypeOK
  <1>2. r \in Jobs /\ r.at = "write"
    BY <1>1 DEF AtRest, Jobs
  <1>3. JobOK(r)
    BY <1>2 DEF JobOK
  <1>4. Enter(p, r) /\ UNCHANGED <<users, sessions, tokens, closed, now, crossed>>
    BY DEF Write
  <1> HIDE DEF r
  <1> QED
    BY <1>1, <1>3, <1>4, EnterOK

LEMMA WrittenKeeps ==
  ASSUME AccountsIInv, NEW p \in AccountThreads, Written(p)
  PROVE  AccountsIInv'
  BY LeaveOK DEF Written

LEMMA EndSessionsKeeps ==
  ASSUME AccountsIInv, NEW p \in AccountThreads, EndSessions(p)
  PROVE  AccountsIInv'
  BY LeaveOK DEF EndSessions

LEMMA NewUserKeeps ==
  ASSUME AccountsIInv, NEW p \in AccountThreads, NEW s \in sessions, NEW page, NEW u \in UserIds,
         NEW role \in Roles, NewUser(p, s, page, u, role)
  PROVE  AccountsIInv'
  <1> DEFINE r == [AtRest EXCEPT !.at = "create", !.target = u, !.role = role]
  <1>1. closed \in BOOLEAN
    BY DEF AccountsIInv, AccountsInv, AccountsTypeOK
  <1>2. r \in Jobs /\ r.at = "create" /\ r.target = u /\ r.role = role
    BY DEF AtRest, Jobs
  <1>3. JobOK(r)
    BY <1>2 DEF JobOK
  <1>4. Enter(p, r) /\ UNCHANGED <<users, sessions, tokens, closed, now, crossed>>
    BY DEF NewUser
  <1> HIDE DEF r
  <1> QED
    BY <1>1, <1>3, <1>4, EnterOK

\* Whoever demotes somebody leaves an administrator: themselves, or when it is
\* themselves they demote, one of the others that the handler counted.
LEMMA EditLeavesAdmin ==
  ASSUME AccountsTypeOK, NEW s \in sessions, NEW page, NEW u, NEW role, NEW password,
         Admits(s, "users", "write", page), MayEdit(s, u, role, password), role # "admin"
  PROVE  \E v \in Administrators : v # u
  <1>1. s.user \in Administrators
    BY GateIsAdmin
  <1>2. CASE u # s.user
    BY <1>1, <1>2
  <1>3. CASE u = s.user
    <2>1. Cardinality(Administrators) # 1
      BY <1>3 DEF MayEdit
    <2>2. Cardinality({s.user}) = 1
      BY FS_Singleton
    <2>3. Administrators # {s.user}
      BY <2>1, <2>2
    <2> QED
      BY <1>1, <1>3, <2>3
  <1> QED
    BY <1>2, <1>3

LEMMA EditUserKeeps ==
  ASSUME AccountsIInv, NEW p \in AccountThreads, NEW s \in sessions, NEW page, NEW u \in UserIds,
         NEW role \in Roles, NEW password \in BOOLEAN, EditUser(p, s, page, u, role, password)
  PROVE  AccountsIInv'
  <1> DEFINE r == [AtRest EXCEPT !.at = "update", !.target = u, !.role = role, !.password = password]
  <1>1. closed \in BOOLEAN /\ AccountsTypeOK
    BY DEF AccountsIInv, AccountsInv, AccountsTypeOK
  <1>2. r \in Jobs /\ r.at = "update" /\ r.target = u /\ r.role = role /\ r.password = password
    BY DEF AtRest, Jobs
  <1>3. JobOK(r)
    <2>1. role # "admin" => \E v \in Administrators : v # u
      BY <1>1, EditLeavesAdmin DEF EditUser
    <2>2. users[u].role # "none" /\ (role = "commenter" \/ password \/ users[u].password)
      BY DEF EditUser, MayEdit, Exists
    <2> HIDE DEF r
    <2> QED
      BY <2>1, <2>2, <1>2 DEF JobOK
  <1>4. Enter(p, r) /\ UNCHANGED <<users, sessions, tokens, closed, now, crossed>>
    BY DEF EditUser
  <1> HIDE DEF r
  <1> QED
    BY <1>1, <1>3, <1>4, EnterOK

LEMMA DeleteUserKeeps ==
  ASSUME AccountsIInv, NEW p \in AccountThreads, NEW s \in sessions, NEW page, NEW u \in UserIds,
         DeleteUser(p, s, page, u)
  PROVE  AccountsIInv'
  <1> DEFINE r == [AtRest EXCEPT !.at = "delete", !.target = u]
  <1>1. closed \in BOOLEAN /\ AccountsTypeOK
    BY DEF AccountsIInv, AccountsInv, AccountsTypeOK
  <1>2. r \in Jobs /\ r.at = "delete" /\ r.target = u
    BY DEF AtRest, Jobs
  <1>3. JobOK(r)
    <2>1. \E v \in Administrators : v # u
      BY <1>1, GateIsAdmin DEF DeleteUser
    <2> HIDE DEF r
    <2> QED
      BY <2>1, <1>2 DEF JobOK
  <1>4. Enter(p, r) /\ UNCHANGED <<users, sessions, tokens, closed, now, crossed>>
    BY DEF DeleteUser
  <1> HIDE DEF r
  <1> QED
    BY <1>1, <1>3, <1>4, EnterOK

-----------------------------------------------------------------------------
(* The writes of users.                                                    *)

\* What a write of the user t leaves in every other job: the same, but stale.
LEMMA RewriteJobs ==
  ASSUME AccountsTypeOK, NEW p \in AccountThreads, NEW new, NEW r \in Jobs, Rewrite(p, new, r)
  PROVE  /\ job' \in [AccountThreads -> Jobs]
         /\ job'[p] = r
         /\ \A q \in AccountThreads \ {p} :
               /\ job'[q].stale \/ job'[q].at = "idle"
               /\ job'[q].at = job[q].at /\ job'[q].user = job[q].user /\ job'[q].target = job[q].target
               /\ job'[q].role = job[q].role /\ job'[q].password = job[q].password
  <1>1. job \in [AccountThreads -> Jobs]
    BY DEF AccountsTypeOK, Jobs
  <1>2. job' = [q \in AccountThreads |-> IF q = p THEN r
                   ELSE IF job[q] = AtRest THEN AtRest ELSE [job[q] EXCEPT !.stale = TRUE]]
    BY DEF Rewrite
  <1>3. ASSUME NEW q \in AccountThreads \ {p}
        PROVE  /\ job'[q] \in Jobs
               /\ job'[q].stale \/ job'[q].at = "idle"
               /\ job'[q].at = job[q].at /\ job'[q].user = job[q].user /\ job'[q].target = job[q].target
               /\ job'[q].role = job[q].role /\ job'[q].password = job[q].password
    <2>1. job'[q] = IF job[q] = AtRest THEN AtRest ELSE [job[q] EXCEPT !.stale = TRUE]
      BY <1>2
    <2>2. CASE job[q] = AtRest
      BY <2>1, <2>2, AtRestJob
    <2>3. CASE job[q] # AtRest
      <3>1. job[q] \in Jobs
        BY <1>1
      <3>2. job'[q] = [job[q] EXCEPT !.stale = TRUE]
        BY <2>1, <2>3
      <3> QED
        BY <3>1, <3>2 DEF Jobs
    <2> QED
      BY <2>2, <2>3
  <1>4. job'[p] = r
    BY <1>2
  <1>5. job' \in [AccountThreads -> Jobs]
    BY <1>2, <1>3, <1>4
  <1> QED
    BY <1>3, <1>4, <1>5

UserRows == [role : Roles \cup {"none", "gone", "unset"}, password : BOOLEAN]

\* A write of one user, by a request that then rests or ends their sessions.
LEMMA RewriteOK ==
  ASSUME AccountsIInv, NEW p \in AccountThreads, NEW t \in UserIds, NEW n \in UserRows, NEW r \in Jobs,
         Rewrite(p, [users EXCEPT ![t] = n], r), UNCHANGED <<sessions, tokens, closed, now, jobs>>,
         job[p].at # "end sessions",
         r = AtRest \/ (r.at = "end sessions" /\ r.target = t),
         users[t].role # "gone", n.role # "none",
         n.role = "gone" \/ n.role = "commenter" \/ n.password,
         users[t].password => n.password \/ n.role = "gone",
         n.role \in {"gone", "commenter"} => r.at = "end sessions" \/ ~Exists(t),
         crossed \/ job[p].stale \/ n.role = "admin" \/ \E v \in Administrators : v # t
  PROVE  AccountsIInv'
  <1>1. AccountsTypeOK /\ LastAdminKept /\ TeamCanSignIn /\ NoStraySession /\ JobTargets /\ EditKeepsPassword
    BY DEF AccountsIInv, AccountsInv
  <1>2. /\ job' \in [AccountThreads -> Jobs]
        /\ job'[p] = r
        /\ \A q \in AccountThreads \ {p} :
               /\ job'[q].stale \/ job'[q].at = "idle"
               /\ job'[q].at = job[q].at /\ job'[q].user = job[q].user /\ job'[q].target = job[q].target
               /\ job'[q].role = job[q].role /\ job'[q].password = job[q].password
    BY <1>1, RewriteJobs
  <1>3. users \in [UserIds -> UserRows]
    BY <1>1 DEF AccountsTypeOK, UserRows
  <1>4. users' \in [UserIds -> UserRows] /\ users'[t] = n /\ \A u \in UserIds \ {t} : users'[u] = users[u]
    BY <1>3 DEF Rewrite
  <1>5. crossed' = (crossed \/ job[p].stale)
    BY DEF Rewrite
  <1>6. r.at \in {"idle", "end sessions"} /\ (r.at = "end sessions" => r.target = t)
    BY AtRestJob
  <1>7. job[p] \in Jobs
    BY <1>1 DEF AccountsTypeOK, Jobs
  <1>8. AccountsTypeOK'
    <2>1. crossed' \in BOOLEAN
      BY <1>5
    <2> QED
      BY <2>1, <1>1, <1>2, <1>4 DEF AccountsTypeOK, Jobs, UserRows
  <1>9. LastAdminKept'
    <2>1. SUFFICES ASSUME ~crossed' PROVE Administrators' # {}
      BY DEF LastAdminKept
    <2>2. CASE n.role = "admin"
      <3>1. t \in Administrators'
        BY <1>4, <2>2 DEF Administrators, RoleOf, Exists
      <3> QED
        BY <3>1
    <2>3. CASE \E v \in Administrators : v # t
      <3>1. PICK v \in Administrators : v # t
        BY <2>3
      <3>2. v \in UserIds \ {t}
        BY <3>1 DEF Administrators
      <3>3. v \in Administrators'
        BY <1>4, <3>1, <3>2 DEF Administrators, RoleOf, Exists
      <3> QED
        BY <3>3
    <2> QED
      BY <2>1, <2>2, <2>3, <1>5
  <1>10. TeamCanSignIn'
    <2> SUFFICES ASSUME NEW u \in UserIds, Exists(u)', RoleOf(u)' # "commenter" PROVE users'[u].password
      BY DEF TeamCanSignIn
    <2>1. CASE u = t
      BY <1>4, <2>1 DEF Exists, RoleOf
    <2>2. CASE u # t
      BY <1>1, <1>4, <2>2 DEF Exists, RoleOf, TeamCanSignIn
    <2> QED
      BY <2>1, <2>2
  <1>11. NoStraySession'
    <2> SUFFICES ASSUME NEW s \in sessions, ~s.stale, ~(Exists(s.user) /\ RoleOf(s.user) # "commenter")'
                 PROVE  \E q \in AccountThreads : job'[q].at = "end sessions" /\ job'[q].target = s.user
      BY DEF NoStraySession
    <2>1. s.user \in UserIds
      BY <1>1 DEF AccountsTypeOK
    <2>2. CASE Exists(s.user) /\ RoleOf(s.user) # "commenter"
      <3>1. s.user = t
        BY <1>4, <2>1, <2>2 DEF Exists, RoleOf
      <3>2. n.role \in {"gone", "commenter"}
        BY <1>4, <3>1 DEF Exists, RoleOf
      <3> QED
        BY <3>1, <3>2, <2>2, <1>2, <1>6
    <2>3. CASE ~(Exists(s.user) /\ RoleOf(s.user) # "commenter")
      <3>1. PICK q \in AccountThreads : job[q].at = "end sessions" /\ job[q].target = s.user
        BY <1>1, <2>3 DEF NoStraySession
      <3> QED
        BY <3>1, <1>2
    <2> QED
      BY <2>2, <2>3
  <1>12. JobTargets'
    BY <1>1, <1>2, <1>6 DEF JobTargets
  <1>13. AnotherAdmin' /\ SignInCurrent'
    <2>1. \A q \in AccountThreads : job'[q].stale \/ job'[q].at \in {"idle", "end sessions"}
      BY <1>2, <1>6
    <2> QED
      BY <2>1 DEF AnotherAdmin, SignInCurrent
  <1>14. EditKeepsPassword'
    <2> SUFFICES ASSUME NEW q \in AccountThreads, job'[q].at = "update"
                 PROVE  /\ users'[job'[q].target].role # "none"
                        /\ job'[q].role # "commenter" =>
                              job'[q].password \/ users'[job'[q].target].password
                              \/ users'[job'[q].target].role = "gone"
      BY DEF EditKeepsPassword
    <2>1. q \in AccountThreads \ {p} /\ job[q].at = "update" /\ job'[q].target = job[q].target
          /\ job'[q].role = job[q].role /\ job'[q].password = job[q].password
      BY <1>2, <1>6
    <2>2. job[q].target \in UserIds
      BY <1>1, <2>1 DEF JobTargets
    <2>3. /\ users[job[q].target].role # "none"
          /\ job[q].role # "commenter" =>
                 job[q].password \/ users[job[q].target].password \/ users[job[q].target].role = "gone"
      BY <1>1, <2>1 DEF EditKeepsPassword
    <2>4. CASE job[q].target = t
      BY <1>4, <2>1, <2>3, <2>4
    <2>5. CASE job[q].target # t
      BY <1>4, <2>1, <2>2, <2>3, <2>5
    <2> QED
      BY <2>4, <2>5
  <1> QED
    BY <1>8, <1>9, <1>10, <1>11, <1>12, <1>13, <1>14 DEF AccountsIInv, AccountsInv

LEMMA CreateUserKeeps ==
  ASSUME AccountsIInv, NEW p \in AccountThreads, CreateUser(p)
  PROVE  AccountsIInv'
  <1> DEFINE t == job[p].target
             n == [role |-> job[p].role, password |-> TRUE]
  <1>1. job[p].at = "create" /\ UNCHANGED <<sessions, tokens, closed, now, jobs>>
    BY DEF CreateUser
  <1>2. job[p] \in Jobs /\ t \in UserIds /\ job[p].role \in Roles /\ users \in [UserIds -> UserRows]
    BY <1>1 DEF AccountsIInv, AccountsInv, AccountsTypeOK, JobTargets, Jobs, UserRows
  <1>3. n \in UserRows /\ n.role \in Roles /\ n.password
    BY <1>2 DEF UserRows
  <1>4. CASE job' = [job EXCEPT ![p] = AtRest] /\ UNCHANGED <<users, crossed>>
    BY <1>1, <1>4, LeaveOK
  <1>5. CASE users[t].role = "none" /\ Rewrite(p, [users EXCEPT ![t] = n], AtRest)
    <2>1. ~Exists(t)
      BY <1>5 DEF Exists
    <2>2. crossed \/ \E v \in Administrators : v # t
      BY <2>1 DEF AccountsIInv, AccountsInv, LastAdminKept, Administrators
    <2>3. n.role \notin {"none", "gone"}
      BY <1>3 DEF Roles
    <2> HIDE DEF t, n
    <2> QED
      BY <1>1, <1>2, <1>3, <1>5, <2>1, <2>2, <2>3, RewriteOK, AtRestJob
  <1> QED
    BY <1>4, <1>5 DEF CreateUser

LEMMA UpdateUserKeeps ==
  ASSUME AccountsIInv, NEW p \in AccountThreads, UpdateUser(p)
  PROVE  AccountsIInv'
  <1> DEFINE t == job[p].target
             n == [role |-> job[p].role, password |-> users[t].password \/ job[p].password]
             r == IF job[p].role = "commenter" THEN [AtRest EXCEPT !.at = "end sessions", !.target = t] ELSE AtRest
  <1>1. job[p].at = "update" /\ UNCHANGED <<sessions, tokens, closed, now, jobs>>
    BY DEF UpdateUser
  <1>2. job[p] \in Jobs /\ t \in UserIds /\ job[p].role \in Roles /\ users \in [UserIds -> UserRows]
    BY <1>1 DEF AccountsIInv, AccountsInv, AccountsTypeOK, JobTargets, Jobs, UserRows
  <1>3. n \in UserRows /\ n.role = job[p].role /\ n.role \in Roles /\ n.password = (users[t].password \/ job[p].password)
    BY <1>2 DEF UserRows, Jobs
  <1>4. r \in Jobs /\ (r = AtRest \/ (r.at = "end sessions" /\ r.target = t))
        /\ (n.role = "commenter" => r.at = "end sessions") /\ r.at \in {"idle", "end sessions"}
    BY <1>2, AtRestJob DEF AtRest, Jobs
  <1>5. JobOK(r)
    BY <1>2, <1>4, AtRestJob DEF JobOK
  <1>6. CASE Exists(t)
    <2>1. Rewrite(p, [users EXCEPT ![t] = n], r)
      BY <1>6 DEF UpdateUser
    <2>2. users[t].role \notin {"none", "gone"}
      BY <1>6 DEF Exists
    <2>3. n.role \notin {"none", "gone"}
      BY <1>3 DEF Roles
    <2>4. n.role = "commenter" \/ n.password
      BY <1>1, <1>3, <2>2 DEF AccountsIInv, EditKeepsPassword
    <2>5. job[p].stale \/ n.role = "admin" \/ \E v \in Administrators : v # t
      BY <1>1, <1>3 DEF AccountsIInv, AnotherAdmin
    <2> HIDE DEF t, n, r
    <2> QED
      BY <1>1, <1>2, <1>3, <1>4, <2>1, <2>2, <2>3, <2>4, <2>5, RewriteOK
  <1>7. CASE ~Exists(t)
    <2>1. job' = [job EXCEPT ![p] = r] /\ UNCHANGED <<users, crossed>>
      BY <1>7 DEF UpdateUser
    <2> HIDE DEF t, n, r
    <2>2. NoStraySession'
      BY <1>1, <1>4, <2>1, SessionsLeft
    <2>3. AccountsTypeOK
      BY DEF AccountsIInv, AccountsInv
    <2> QED
      BY <1>1, <1>5, <2>1, <2>2, <2>3, UsersUnchanged DEF AccountsTypeOK
  <1> QED
    BY <1>6, <1>7

LEMMA RemoveUserKeeps ==
  ASSUME AccountsIInv, NEW p \in AccountThreads, RemoveUser(p)
  PROVE  AccountsIInv'
  <1> DEFINE t == job[p].target
             n == [role |-> "gone", password |-> FALSE]
             r == [AtRest EXCEPT !.at = "end sessions", !.target = t]
  <1>1. job[p].at = "delete" /\ UNCHANGED <<sessions, tokens, closed, now, jobs>>
    BY DEF RemoveUser
  <1>2. job[p] \in Jobs /\ t \in UserIds /\ users \in [UserIds -> UserRows]
    BY <1>1 DEF AccountsIInv, AccountsInv, AccountsTypeOK, JobTargets, Jobs, UserRows
  <1>3. n \in UserRows /\ n.role = "gone"
    BY DEF UserRows
  <1>4. r \in Jobs /\ r.at = "end sessions" /\ r.target = t
    BY <1>2 DEF AtRest, Jobs
  <1>5. CASE Exists(t)
    <2>1. Rewrite(p, [users EXCEPT ![t] = n], r)
      BY <1>5 DEF RemoveUser
    <2>2. users[t].role # "gone"
      BY <1>5 DEF Exists
    <2>3. job[p].stale \/ \E v \in Administrators : v # t
      <3>1. AnotherAdmin
        BY DEF AccountsIInv
      <3> QED
        BY <1>1, <3>1 DEF AnotherAdmin
    <2> HIDE DEF t, n, r
    <2> QED
      BY <1>1, <1>2, <1>3, <1>4, <2>1, <2>2, <2>3, RewriteOK
  <1>6. CASE ~Exists(t)
    <2>1. job' = [job EXCEPT ![p] = AtRest] /\ UNCHANGED <<users, crossed>>
      BY <1>6 DEF RemoveUser
    <2> QED
      BY <1>1, <2>1, LeaveOK
  <1> QED
    BY <1>5, <1>6

-----------------------------------------------------------------------------

LEMMA AccountsNextOK == AccountsIInv /\ [AccountsNext]_accountVars => AccountsIInv'
  <1> SUFFICES ASSUME AccountsIInv, [AccountsNext]_accountVars PROVE AccountsIInv'
    OBVIOUS
  <1>1. CASE UNCHANGED accountVars
    <2>1. now \in Nat
      BY DEF AccountsIInv, AccountsInv, AccountsTypeOK
    <2> QED
      BY <1>1, <2>1, QuietOK DEF accountVars
  <1>2. CASE Tick
    <2>a. now \in Nat
      BY DEF AccountsIInv, AccountsInv, AccountsTypeOK
    <2>1. now' \in Nat
      BY <1>2, <2>a DEF Tick
    <2> QED
      BY <1>2, <2>1, QuietOK DEF Tick
  <1>3. ASSUME NEW s \in sessions, ExpireSession(s) PROVE AccountsIInv'
    <2>1. now' \in Nat
      BY <1>3 DEF ExpireSession, AccountsIInv, AccountsInv, AccountsTypeOK
    <2> QED
      BY <1>3, <2>1, QuietOK DEF ExpireSession
  <1>4. ASSUME NEW p \in AccountThreads,
               \/ \E u \in UserIds : SignIn(p, u)
               \/ CreateSession(p) \/ Written(p) \/ CreateUser(p) \/ UpdateUser(p) \/ RemoveUser(p) \/ EndSessions(p)
        PROVE  AccountsIInv'
    BY <1>4, SignInKeeps, CreateSessionKeeps, WrittenKeeps, CreateUserKeeps, UpdateUserKeeps, RemoveUserKeeps,
       EndSessionsKeeps
  <1>5. ASSUME NEW p \in AccountThreads, NEW s \in sessions, NEW page \in 1 .. MaxTokens,
               \/ Logout(p, s, page)
               \/ LockOut(p, s)
               \/ \E area \in {"comments", "content"} : Write(p, s, area, page)
               \/ SetClosed(p, s, page)
        PROVE  AccountsIInv'
    BY <1>5, LogoutKeeps, LockOutKeeps, WriteKeeps, SetClosedKeeps
  <1>6. ASSUME NEW p \in AccountThreads, NEW s \in sessions, NEW page \in 1 .. MaxTokens, NEW u \in UserIds,
               \/ \E role \in Roles :
                    \/ NewUser(p, s, page, u, role)
                    \/ \E password \in BOOLEAN : EditUser(p, s, page, u, role, password)
               \/ DeleteUser(p, s, page, u)
        PROVE  AccountsIInv'
    BY <1>6, NewUserKeeps, EditUserKeeps, DeleteUserKeeps
  <1> QED
    BY <1>1, <1>2, <1>3, <1>4, <1>5, <1>6 DEF AccountsNext

\* However requests that keep users, sign in and take accounts away
\* interleave: who is on the team has a password, a session without a right to
\* one is about to be ended or was opened by a sign-in that read before, and the
\* last administrator goes only when two writes of users crossed.
THEOREM AccountsInvThm == AccountsSpec => []AccountsInv
  <1>1. AccountsSpec => []AccountsIInv
    BY AccountsInitOK, AccountsNextOK, PTL DEF AccountsSpec
  <1>2. AccountsIInv => AccountsInv
    BY DEF AccountsIInv
  <1> QED
    BY <1>1, <1>2, PTL

\* A job that changes something begins at the gate.
LEMMA GateStep ==
  ASSUME AccountsIInv, [AccountsNext]_accountVars, NEW p \in AccountThreads,
         job[p] = AtRest, job'[p].at = "write"
  PROVE  /\ users[job'[p].user].role \in {"admin", "unset", "author", "moderator"}
         /\ closed => job'[p].user \in Administrators
  <1> DEFINE Goal == /\ users[job'[p].user].role \in {"admin", "unset", "author", "moderator"}
                     /\ closed => job'[p].user \in Administrators
  <1> SUFFICES Goal
    OBVIOUS
  <1>0. AccountsTypeOK /\ job \in [AccountThreads -> Jobs] /\ users \in [UserIds -> UserRows]
    BY DEF AccountsIInv, AccountsInv, AccountsTypeOK, Jobs, UserRows
  <1>1. job'[p] # job[p] /\ job[p].at = "idle"
    BY AtRestJob
  <1>2. job' # job
    BY <1>1
  <1>3. ASSUME NEW q \in AccountThreads, NEW r, Enter(q, r), r.at # "write" PROVE FALSE
    <2>1. job' = [job EXCEPT ![q] = r]
      BY <1>3 DEF Enter
    <2> QED
      BY <2>1, <1>0, <1>1, <1>3
  <1>4. ASSUME NEW q \in AccountThreads, job[q].at # "idle", NEW r, job' = [job EXCEPT ![q] = r] PROVE FALSE
    BY <1>4, <1>0, <1>1
  <1>5. ASSUME NEW q \in AccountThreads, job[q].at # "idle", NEW new, NEW r, Rewrite(q, new, r) PROVE FALSE
    <2>1. job'[p] = AtRest
      BY <1>1, <1>5 DEF Rewrite
    <2> QED
      BY <1>1, <2>1
  <1>6. ASSUME NEW q \in AccountThreads, NEW s \in sessions, NEW area, NEW page, Write(q, s, area, page)
        PROVE  Goal
    <2>1. job' = [job EXCEPT ![q] = [AtRest EXCEPT !.at = "write", !.user = s.user]]
      BY <1>6 DEF Write, Enter
    <2>2. q = p
      BY <2>1, <1>0, <1>1
    <2>3. job'[p].user = s.user
      BY <2>1, <2>2, <1>0 DEF AtRest
    <2>4. s.user \in UserIds
      BY <1>0 DEF AccountsTypeOK
    <2>5. ~LocksOut(s.user) /\ Exists(s.user) /\ RoleOf(s.user) # "commenter" /\ RoleOf(s.user) # "viewer"
      BY <1>6 DEF Write, Admits, RoleMayOpen
    <2>6. users[s.user].role \in Roles \cup {"none", "gone", "unset"}
      BY <1>0, <2>4 DEF UserRows
    <2>7. users[s.user].role \in {"admin", "unset", "author", "moderator"}
      BY <2>5, <2>6 DEF Roles, RoleOf, Exists
    <2>8. closed => s.user \in Administrators
      BY <2>4, <2>5 DEF LocksOut, Administrators
    <2> QED
      BY <2>3, <2>7, <2>8
  <1> HIDE DEF Goal
  <1>7. AtRest.at # "write"
    BY AtRestJob
  <1>8. ASSUME NEW q \in AccountThreads, NEW u \in UserIds, SignIn(q, u) PROVE FALSE
    <2>1. [AtRest EXCEPT !.at = "signin", !.user = u].at # "write"
      BY DEF AtRest
    <2> QED
      BY <2>1, <1>3, <1>8 DEF SignIn
  <1>9. ASSUME NEW q \in AccountThreads, CreateSession(q) \/ Written(q) \/ EndSessions(q) PROVE FALSE
    BY <1>9, <1>4 DEF CreateSession, Written, EndSessions
  <1>10. ASSUME NEW q \in AccountThreads, CreateUser(q) PROVE FALSE
    BY <1>10, <1>4, <1>5 DEF CreateUser
  <1>11. ASSUME NEW q \in AccountThreads, UpdateUser(q) PROVE FALSE
    BY <1>11, <1>4, <1>5 DEF UpdateUser
  <1>12. ASSUME NEW q \in AccountThreads, RemoveUser(q) PROVE FALSE
    BY <1>12, <1>4, <1>5 DEF RemoveUser
  <1>13. ASSUME NEW q \in AccountThreads, NEW s \in sessions, NEW page,
                Logout(q, s, page) \/ LockOut(q, s) \/ SetClosed(q, s, page)
         PROVE  FALSE
    BY <1>13, <1>3, <1>7 DEF Logout, LockOut, SetClosed
  <1>14. ASSUME NEW q \in AccountThreads, NEW s \in sessions, NEW page, NEW u \in UserIds, NEW role, NEW password,
                NewUser(q, s, page, u, role) \/ EditUser(q, s, page, u, role, password) \/ DeleteUser(q, s, page, u)
         PROVE  FALSE
    <2>1. /\ [AtRest EXCEPT !.at = "create", !.target = u, !.role = role].at # "write"
          /\ [AtRest EXCEPT !.at = "update", !.target = u, !.role = role, !.password = password].at # "write"
          /\ [AtRest EXCEPT !.at = "delete", !.target = u].at # "write"
      BY DEF AtRest
    <2> QED
      BY <2>1, <1>3, <1>14 DEF NewUser, EditUser, DeleteUser
  <1>15. ~UNCHANGED accountVars /\ ~Tick /\ \A s \in sessions : ~ExpireSession(s)
    BY <1>2 DEF accountVars, Tick, ExpireSession
  <1> QED
    BY <1>6, <1>8, <1>9, <1>10, <1>11, <1>12, <1>13, <1>14, <1>15 DEF AccountsNext

\* A request goes past the gate to change something only for a user who at that
\* moment is on the team, may write, and while the site is closed is an
\* administrator, whatever sessions are left behind.
THEOREM GateIsCurrentThm == AccountsSpec => GateIsCurrent
  <1> DEFINE Gate ==
        \A p \in AccountThreads :
          job[p] = AtRest /\ job'[p].at = "write"
            => LET u == job'[p].user
               IN  /\ users[u].role \in {"admin", "unset", "author", "moderator"}
                   /\ closed => u \in Administrators
  <1>1. AccountsIInv /\ [AccountsNext]_accountVars => Gate
    BY GateStep
  <1> HIDE DEF Gate
  <1>2. AccountsIInv /\ [AccountsNext]_accountVars => [Gate]_accountVars
    BY <1>1
  <1> USE DEF Gate
  <1> QED
    BY AccountsInitOK, AccountsNextOK, <1>2, PTL DEF AccountsSpec, GateIsCurrent

-----------------------------------------------------------------------------
(* Natural numbers and finite sets.                                        *)

\* A set of numbers that is not empty has a least.
LEMMA LeastExists ==
  ASSUME NEW S \in SUBSET Nat, S # {}
  PROVE  \E m \in S : \A k \in S : m <= k
  <1> DEFINE R == OpToRel(<, Nat)
  <1>1. IsWellFoundedOn(R, Nat)
    BY NatLessThanWellFounded
  <1>2. PICK m \in S : \A k \in S : <<k, m>> \notin R
    <2> HIDE DEF R
    <2> QED
      BY <1>1, WFMin
  <1>3. ASSUME NEW k \in S PROVE m <= k
    <2>1. ~(k < m)
      BY <1>2 DEF OpToRel
    <2> QED
      BY <2>1
  <1> QED
    BY <1>3

\* The CHOOSE of it is that one.
LEMMA OldestIs ==
  ASSUME NEW S \in SUBSET Nat, S # {}
  PROVE  Oldest(S) \in S
  BY LeastExists DEF Oldest

\* The users of H have, between them, the prefix with every number up to N.
AllTaken(H, N, nameOf, prefix) == \A n \in 1 .. N : \E u \in H : nameOf[u] = <<prefix, n>>

\* Fewer users than numbers leave a name with a number free.
LEMMA NumberFree ==
  ASSUME NEW H, IsFiniteSet(H), NEW N \in Nat, Cardinality(H) < N, NEW nameOf, NEW prefix
  PROVE  ~AllTaken(H, N, nameOf, prefix)
  <1> SUFFICES ASSUME \A n \in 1 .. N : \E u \in H : nameOf[u] = <<prefix, n>> PROVE FALSE
    BY DEF AllTaken
  <1> DEFINE f == [n \in 1 .. N |-> CHOOSE u \in H : nameOf[u] = <<prefix, n>>]
  <1>1. \A n \in 1 .. N : f[n] \in H /\ nameOf[f[n]] = <<prefix, n>>
    OBVIOUS
  <1>2. f \in Injection(1 .. N, H)
    <2>1. f \in [1 .. N -> H]
      BY <1>1
    <2>2. ASSUME NEW m \in 1 .. N, NEW n \in 1 .. N, f[m] = f[n] PROVE m = n
      <3>1. nameOf[f[m]] = <<prefix, m>> /\ nameOf[f[n]] = <<prefix, n>>
        BY <1>1
      <3>2. <<prefix, m>> = <<prefix, n>>
        BY <3>1, <2>2
      <3> QED
        BY <3>2
    <2> HIDE DEF f
    <2> QED
      BY <2>1, <2>2 DEF Injection, IsInjective
  <1>3. Cardinality(1 .. N) <= Cardinality(H)
    <2> HIDE DEF f
    <2> QED
      BY <1>2, FS_Injection
  <1>4. Cardinality(1 .. N) = N
    BY FS_Interval
  <1>5. Cardinality(H) \in Nat
    BY FS_CardinalityType
  <1> QED
    BY <1>3, <1>4, <1>5

-----------------------------------------------------------------------------
(* The start-up.                                                           *)

Names == Usernames \cup {NoName} \cup UNION {DOMAIN Hits[u] : u \in DOMAIN Hits}

\* The row a user may have.
RowOf(u) == [email : {EmailOf[u]}, username : Names, verified : BOOLEAN, blocked : BOOLEAN]

Boots ==
    {Down, [at |-> "up"]}
    \cup [at : {"names"}, todo : SUBSET DOMAIN OldUsers, seen : Nat, done : Nat]
    \cup [at : {"cursor"}, todo : SUBSET Legacy]
    \cup [at : {"merge", "repoint"}, todo : SUBSET Legacy, doc : Legacy, user : Everybody]
    \cup [at : {"insert", "delete"}, todo : SUBSET Legacy, doc : Legacy]

AccountsOK ==
    /\ Range(OldUsers) \subseteq DOMAIN accounts /\ DOMAIN accounts \subseteq Everybody
    /\ accounts = [u \in DOMAIN accounts |-> accounts[u]]
    /\ \A u \in DOMAIN accounts : accounts[u] \in RowOf(u)
    /\ \A u \in DOMAIN accounts : accounts[u].username = NoName => u \in Range(OldUsers)

StartTypeOK ==
    /\ AccountsOK
    /\ legacy \subseteq Legacy /\ commenter \in [Legacy -> Everybody] /\ failing \in BOOLEAN
    /\ boot \in Boots

\* Whoever the batch still has to name has no name; and without a failed write, a
\* batch that is not full holds everybody who has none.
NamesPhase ==
    boot.at = "names" =>
        /\ boot.todo \subseteq Unnamed
        /\ ~failing /\ boot.done = 0 => Cardinality(boot.todo) = boot.seen
        /\ ~failing /\ boot.seen # BatchLimit => Unnamed \subseteq boot.todo

\* What the cursor's document has become so far.
DocPhase ==
    /\ boot.at \in {"merge", "repoint"} => boot.user \in UsersOf(boot.doc)
    /\ boot.at = "insert" => UsersOf(boot.doc) = {}
    /\ boot.at \in {"repoint", "delete"} /\ boot.doc \in Verified => \E u \in UsersOf(boot.doc) : accounts[u].verified
    /\ boot.at = "delete" => boot.doc \in DOMAIN accounts \/ (\A c \in Legacy : commenter[c] # boot.doc)

\* Without a failed write, everybody is named once the names are done, and
\* the cursor has yet to reach, or is at, every commenter left.
LeftPhase ==
    ~failing =>
        /\ boot.at \in {"cursor", "merge", "repoint", "insert", "delete", "up"} => Unnamed = {}
        /\ boot.at = "cursor" => legacy \subseteq boot.todo
        /\ boot.at \in {"merge", "repoint", "insert", "delete"} => legacy \subseteq boot.todo \cup {boot.doc}
        /\ boot.at = "up" => legacy = {}

StartIInv ==
    /\ StartTypeOK /\ UsernamesUnique /\ NoOrphanComment /\ StandingKept
    /\ NamesPhase /\ DocPhase /\ LeftPhase

\* The old users are users, and finitely many.
LEMMA EverybodyFinite ==
  /\ IsFiniteSet(Everybody) /\ DOMAIN OldUsers = 1 .. Len(OldUsers) /\ Len(OldUsers) \in Nat
  /\ \A i \in DOMAIN OldUsers : OldUsers[i] \in Range(OldUsers)
  /\ \A i, j \in DOMAIN OldUsers : OldUsers[i] = OldUsers[j] => i = j
  <1>1. DOMAIN OldUsers = 1 .. Len(OldUsers) /\ Len(OldUsers) \in Nat
    BY StartupAssumption
  <1>2. OldUsers \in Surjection(DOMAIN OldUsers, Range(OldUsers))
    BY StartupAssumption DEF Range, Surjection
  <1>3. IsFiniteSet(Range(OldUsers))
    BY <1>1, <1>2, FS_Surjection, FS_Interval
  <1>4. IsFiniteSet(Everybody)
    BY <1>3, StartupAssumption, FS_Union DEF Everybody
  <1> QED
    BY <1>1, <1>4, StartupAssumption DEF Range, IsInjective

\* username_for_email() finds a name nobody has, for a user without one.
LEMMA NoNameNumber == \A p, n : <<p, n>> = NoName => n = 0
  <1> SUFFICES ASSUME NEW p, NEW n, <<p, n>> = <<"", 0>> PROVE n = 0
    BY DEF NoName
  <1>1. <<p, n>>[2] = n /\ <<"", 0>>[2] = 0
    OBVIOUS
  <1> QED
    BY <1>1

LEMMA FreshName ==
  ASSUME StartTypeOK, NEW u \in Everybody, u \in DOMAIN accounts => accounts[u].username = NoName
  PROVE  /\ UsernameForEmail(EmailOf[u]) \in Usernames
         /\ UsernameForEmail(EmailOf[u]) # NoName
         /\ ~Taken(UsernameForEmail(EmailOf[u]))
  <1> DEFINE N == Cardinality(Everybody)
             P == PrefixOf[EmailOf[u]]
             H == (DOMAIN accounts) \ {u}
             nameOf == [v \in DOMAIN accounts |-> accounts[v].username]
             free == {n \in 1 .. N : ~Taken(<<P, n>>)}
  <1>1. IsFiniteSet(H) /\ Cardinality(H) < N /\ N \in Nat
    <2>1. H \in SUBSET (Everybody \ {u})
      BY DEF StartTypeOK, AccountsOK
    <2>2. IsFiniteSet(Everybody \ {u}) /\ Cardinality(Everybody \ {u}) = N - 1
      BY EverybodyFinite, FS_RemoveElement
    <2>3. IsFiniteSet(H) /\ Cardinality(H) <= N - 1
      BY <2>1, <2>2, FS_Subset
    <2>4. N \in Nat
      BY EverybodyFinite, FS_CardinalityType
    <2>5. Cardinality(H) \in Nat
      BY <2>3, FS_CardinalityType
    <2> QED
      BY <2>3, <2>4, <2>5
  <1> HIDE DEF N, H
  <1>2. PICK n \in 1 .. N : \A v \in H : nameOf[v] # <<P, n>>
    <2> HIDE DEF P, nameOf, free
    <2>1. ~AllTaken(H, N, nameOf, P)
      BY <1>1, NumberFree
    <2> QED
      BY <2>1 DEF AllTaken
  <1>3. n \in free
    <2> SUFFICES ASSUME NEW v \in DOMAIN accounts, accounts[v].username = <<P, n>> PROVE FALSE
      BY DEF Taken
    <2>1. v = u
      BY <1>2 DEF H
    <2>2. <<P, n>> = NoName
      BY <2>1
    <2>3. n # 0
      BY <1>1
    <2> HIDE DEF P
    <2> QED
      BY <2>2, <2>3, NoNameNumber
  <1>4. free \in SUBSET Nat /\ free # {}
    BY <1>1, <1>3
  <1> DEFINE k == CHOOSE n1 \in free : \A k1 \in free : n1 <= k1
  <1>5. k \in free
    <2> HIDE DEF free
    <2> QED
      BY <1>4, LeastExists
  <1>6. UsernameForEmail(EmailOf[u]) = <<P, k>>
    BY DEF UsernameForEmail, N
  <1>7. P \in {PrefixOf[EmailOf[v]] : v \in Everybody}
    OBVIOUS
  <1>8. k \in 1 .. N /\ k # 0 /\ ~Taken(<<P, k>>)
    <2> HIDE DEF k, P
    <2>1. k \in 1 .. N /\ ~Taken(<<P, k>>)
      BY <1>5
    <2> QED
      BY <2>1, <1>1
  <1> HIDE DEF P, k
  <1>9. <<P, k>> # NoName
    BY <1>8, NoNameNumber
  <1>10. <<P, k>> \in Usernames
    BY <1>7, <1>8 DEF Usernames, N
  <1> QED
    BY <1>6, <1>8, <1>9, <1>10

\* A batch is full, or holds every user without a name.
LEMMA BatchOK ==
  /\ NextBatch \subseteq Unnamed /\ Unnamed \subseteq DOMAIN OldUsers
  /\ IsFiniteSet(NextBatch) /\ Cardinality(NextBatch) \in Nat
  /\ Cardinality(NextBatch) # BatchLimit => Unnamed \subseteq NextBatch
  <1> DEFINE Before(i) == {j \in Unnamed : j < i}
  <1>1. NextBatch = {i \in Unnamed : Cardinality(Before(i)) < BatchLimit}
    BY DEF NextBatch, FirstOf
  <1>2. Unnamed \subseteq DOMAIN OldUsers /\ Unnamed \in SUBSET Nat /\ IsFiniteSet(Unnamed)
    <2>1. Unnamed \in SUBSET (1 .. Len(OldUsers)) /\ Len(OldUsers) \in Nat
      BY EverybodyFinite DEF Unnamed
    <2>2. IsFiniteSet(1 .. Len(OldUsers))
      BY <2>1, FS_Interval
    <2>3. IsFiniteSet(Unnamed)
      BY <2>1, <2>2, FS_Subset
    <2>4. Unnamed \in SUBSET Nat
      BY <2>1
    <2> QED
      BY <2>3, <2>4 DEF Unnamed
  <1>3. \A i : IsFiniteSet(Before(i)) /\ Cardinality(Before(i)) \in Nat
    <2> SUFFICES ASSUME NEW i PROVE IsFiniteSet(Before(i)) /\ Cardinality(Before(i)) \in Nat
      OBVIOUS
    <2>1. Before(i) \in SUBSET Unnamed
      OBVIOUS
    <2> HIDE DEF Before
    <2> QED
      BY <1>2, <2>1, FS_Subset, FS_CardinalityType
  <1>4. IsFiniteSet(NextBatch) /\ Cardinality(NextBatch) \in Nat
    <2>1. NextBatch \in SUBSET Unnamed
      BY <1>1
    <2> QED
      BY <1>2, <2>1, FS_Subset, FS_CardinalityType
  <1>5. BatchLimit \in Nat \ {0}
    BY StartupAssumption
  <1>6. ASSUME ~(Unnamed \subseteq NextBatch) PROVE Cardinality(NextBatch) = BatchLimit
    <2>1. (Unnamed \ NextBatch) \in SUBSET Nat /\ Unnamed \ NextBatch # {}
      BY <1>2, <1>6
    <2>2. PICK m \in Unnamed \ NextBatch : \A k \in Unnamed \ NextBatch : m <= k
      BY <2>1, LeastExists
    <2>3. Cardinality(Before(m)) >= BatchLimit
      <3>1. ~(Cardinality(Before(m)) < BatchLimit)
        BY <1>1, <2>2
      <3> QED
        BY <3>1, <1>3, <1>5
    <2>4. NextBatch = Before(m)
      <3>1. Before(m) \subseteq NextBatch
        BY <1>2, <2>2
      <3>2. ASSUME NEW i \in NextBatch, ~(i < m) PROVE FALSE
        <4>1. i \in Unnamed /\ Cardinality(Before(i)) < BatchLimit
          BY <1>1
        <4>2. Before(m) \in SUBSET Before(i)
          BY <1>2, <2>2, <3>2, <4>1
        <4>3. Cardinality(Before(m)) <= Cardinality(Before(i))
          <5> HIDE DEF Before
          <5> QED
            BY <1>3, <4>2, FS_Subset
        <4> HIDE DEF Before
        <4> QED
          BY <1>3, <1>5, <2>3, <4>1, <4>3
      <3>3. NextBatch \subseteq Before(m)
        BY <1>1, <3>2
      <3> QED
        BY <3>1, <3>3
    <2>5. Before(m) # {}
      <3> HIDE DEF Before
      <3>1. Cardinality(Before(m)) # 0
        BY <1>3, <1>5, <2>3
      <3> QED
        BY <3>1, FS_EmptySet
    <2> DEFINE Above == {k \in Nat : \A j \in Before(m) : j <= k}
    <2>6. m \in Above /\ Above \in SUBSET Nat
      BY <1>2, <2>2
    <2>7. PICK x \in Above : \A k \in Above : x <= k
      <3> HIDE DEF Above
      <3> QED
        BY <2>6, LeastExists
    <2>8. x \in Before(m)
      <3>1. SUFFICES ASSUME x \notin Before(m) PROVE FALSE
        OBVIOUS
      <3>2. PICK y \in Before(m) : y \in Nat
        BY <1>2, <2>5
      <3>3. y <= x /\ y # x /\ x \in Nat
        BY <2>7, <3>1, <3>2
      <3>4. x - 1 \in Nat
        BY <3>2, <3>3
      <3>5. \A j \in Before(m) : j <= x - 1
        BY <1>2, <2>7, <3>1
      <3>6. x - 1 \in Above
        BY <3>4, <3>5
      <3>7. x <= x - 1
        BY <2>7, <3>6
      <3> QED
        BY <3>3, <3>7
    <2>9. Before(x) = Before(m) \ {x}
      <3>1. \A j \in Before(m) : j <= x
        BY <2>7
      <3>2. x \in Unnamed /\ x < m
        BY <2>8
      <3>3. ASSUME NEW j \in Before(x) PROVE j \in Before(m) \ {x}
        BY <1>2, <2>2, <3>2, <3>3
      <3>4. ASSUME NEW j \in Before(m) \ {x} PROVE j \in Before(x)
        BY <1>2, <3>1, <3>2, <3>4
      <3> QED
        BY <3>3, <3>4
    <2>10. Cardinality(Before(x)) = Cardinality(Before(m)) - 1
      <3> HIDE DEF Before
      <3> QED
        BY <1>3, <2>8, <2>9, FS_RemoveElement
    <2>11. Cardinality(Before(x)) < BatchLimit
      BY <1>1, <2>4, <2>8
    <2> HIDE DEF Before
    <2> QED
      BY <1>3, <1>5, <2>3, <2>4, <2>10, <2>11
  <1> QED
    BY <1>1, <1>2, <1>4, <1>6

LEMMA StartInitOK == StartInit => StartIInv
  <1> SUFFICES ASSUME StartInit PROVE StartIInv
    OBVIOUS
  <1>0. /\ accounts = [u \in Range(OldUsers) |->
                      [email |-> EmailOf[u], username |-> NoName, verified |-> FALSE, blocked |-> FALSE]]
        /\ legacy = Legacy /\ commenter = [c \in Legacy |-> c] /\ boot = Down /\ failing = FALSE
    BY DEF StartInit
  <1>1. DOMAIN accounts = Range(OldUsers) /\ accounts = [u \in DOMAIN accounts |-> accounts[u]]
    BY <1>0
  <1>2. \A u \in DOMAIN accounts :
          accounts[u] = [email |-> EmailOf[u], username |-> NoName, verified |-> FALSE, blocked |-> FALSE]
    BY <1>0
  <1>3. \A u \in DOMAIN accounts : accounts[u] \in RowOf(u) /\ accounts[u].username = NoName
    <2>1. NoName \in Names
      BY DEF Names
    <2>2. ASSUME NEW u PROVE [email |-> EmailOf[u], username |-> NoName, verified |-> FALSE, blocked |-> FALSE] \in RowOf(u)
      BY <2>1 DEF RowOf
    <2>3. \A u \in DOMAIN accounts : accounts[u] \in RowOf(u)
      BY <1>2, <2>2
    <2> QED
      BY <1>2, <2>3
  <1>4. AccountsOK
    BY <1>1, <1>3 DEF AccountsOK, Everybody
  <1>5. StartTypeOK
    BY <1>0, <1>4 DEF StartTypeOK, Boots, Everybody
  <1>6. boot.at = "down"
    BY <1>0 DEF Down
  <1>7. UsernamesUnique /\ NoOrphanComment /\ StandingKept
    BY <1>0, <1>1, <1>3, StartupAssumption DEF UsernamesUnique, NoOrphanComment, StandingKept
  <1> QED
    BY <1>5, <1>6, <1>7 DEF StartIInv, NamesPhase, DocPhase, LeftPhase

\* What the step of the start-up says of its record.
LEMMA BootShape ==
  ASSUME boot \in Boots
  PROVE  /\ boot.at = "names" => boot \in [at : {"names"}, todo : SUBSET DOMAIN OldUsers, seen : Nat, done : Nat]
         /\ boot.at = "cursor" => boot \in [at : {"cursor"}, todo : SUBSET Legacy]
         /\ boot.at \in {"merge", "repoint"} =>
               boot \in [at : {"merge", "repoint"}, todo : SUBSET Legacy, doc : Legacy, user : Everybody]
         /\ boot.at \in {"insert", "delete"} =>
               boot \in [at : {"insert", "delete"}, todo : SUBSET Legacy, doc : Legacy]
  BY DEF Boots, Down

-----------------------------------------------------------------------------
(* Steps that leave the collections alone.                                 *)

LEMMA QuietStart ==
  ASSUME StartIInv, UNCHANGED <<accounts, legacy, commenter>>, failing' \in BOOLEAN,
         boot' \in Boots, NamesPhase', DocPhase', LeftPhase'
  PROVE  StartIInv'
  <1>1. StartTypeOK'
    BY DEF StartIInv, StartTypeOK, AccountsOK
  <1>2. UsernamesUnique' /\ NoOrphanComment' /\ StandingKept'
    BY DEF StartIInv, UsernamesUnique, NoOrphanComment, StandingKept, UsersOf
  <1> QED
    BY <1>1, <1>2 DEF StartIInv

\* A write failed: the start goes on with the next document.
LEMMA FailsSkip ==
  ASSUME StartIInv, Fails, boot' = [at |-> "cursor", todo |-> boot.todo], boot.todo \subseteq Legacy
  PROVE  StartIInv'
  <1>1. boot' \in Boots /\ boot'.at = "cursor"
    BY DEF Boots
  <1>2. failing' = TRUE /\ UNCHANGED <<accounts, legacy, commenter>>
    BY DEF Fails
  <1>3. NamesPhase' /\ DocPhase' /\ LeftPhase'
    BY <1>1, <1>2 DEF NamesPhase, DocPhase, LeftPhase
  <1> QED
    BY <1>1, <1>2, <1>3, QuietStart

\* A batch begins.
LEMMA NamingOK ==
  ASSUME StartIInv, UNCHANGED <<accounts, legacy, commenter>>, failing' \in BOOLEAN, boot' = Naming
  PROVE  StartIInv'
  <1>1. boot'.at = "names" /\ boot'.todo = NextBatch /\ boot'.seen = Cardinality(NextBatch) /\ boot'.done = 0
    BY DEF Naming
  <1>2. boot' \in Boots
    BY BatchOK DEF Naming, Boots
  <1>3. Unnamed' = Unnamed
    BY DEF Unnamed
  <1>4. NamesPhase'
    BY <1>1, <1>3, BatchOK DEF NamesPhase
  <1>5. DocPhase' /\ LeftPhase'
    BY <1>1 DEF DocPhase, LeftPhase
  <1> QED
    BY <1>2, <1>4, <1>5, QuietStart

LEMMA BootKeeps == ASSUME StartIInv, Boot PROVE StartIInv'
  BY NamingOK DEF Boot

LEMMA EndBatchKeeps == ASSUME StartIInv, EndBatch PROVE StartIInv'
  <1>0. failing' \in BOOLEAN /\ legacy \subseteq Legacy /\ boot \in Boots
    BY DEF EndBatch, StartIInv, StartTypeOK
  <1>1. CASE boot.done > 0 /\ boot.seen = BatchLimit
    BY <1>0, <1>1, NamingOK DEF EndBatch
  <1>2. CASE ~(boot.done > 0 /\ boot.seen = BatchLimit)
    <2>1. boot' = [at |-> "cursor", todo |-> legacy] /\ boot.at = "names" /\ boot.todo = {}
          /\ UNCHANGED <<accounts, legacy, commenter, failing>>
      BY <1>2 DEF EndBatch
    <2>2. boot'.at = "cursor" /\ boot'.todo = legacy /\ boot' \in Boots
      BY <1>0, <2>1 DEF Boots
    <2>3. Unnamed' = Unnamed
      BY <2>1 DEF Unnamed
    <2>4. boot.done \in Nat
      BY <1>0, <2>1, BootShape
    <2>5. ASSUME ~failing PROVE Unnamed = {}
      <3>1. boot.seen # BatchLimit
        <4>1. CASE boot.done = 0
          <5>1. Cardinality({}) = boot.seen
            BY <2>1, <2>5, <4>1 DEF StartIInv, NamesPhase
          <5> QED
            BY <5>1, FS_EmptySet, StartupAssumption
        <4>2. CASE boot.done # 0
          BY <1>2, <2>4, <4>2
        <4> QED
          BY <4>1, <4>2
      <3> QED
        BY <2>1, <2>5, <3>1 DEF StartIInv, NamesPhase
    <2>6. NamesPhase' /\ DocPhase'
      BY <2>2 DEF NamesPhase, DocPhase
    <2>7. LeftPhase'
      BY <2>1, <2>2, <2>3, <2>5 DEF LeftPhase
    <2> QED
      BY <1>0, <2>1, <2>2, <2>6, <2>7, QuietStart
  <1> QED
    BY <1>1, <1>2

LEMMA TakeCommenterKeeps == ASSUME StartIInv, NEW c \in legacy, TakeCommenter(c) PROVE StartIInv'
  <1>0. /\ boot.at = "cursor" /\ c \in boot.todo /\ UNCHANGED <<accounts, legacy, commenter, failing>>
        /\ failing' \in BOOLEAN /\ c \in Legacy /\ boot.todo \subseteq Legacy
    BY BootShape DEF TakeCommenter, StartIInv, StartTypeOK
  <1>1. Unnamed' = Unnamed /\ \A d : UsersOf(d)' = UsersOf(d)
    BY <1>0 DEF Unnamed, UsersOf
  <1>2. ASSUME NEW u \in UsersOf(c), boot' = [at |-> "merge", todo |-> boot.todo \ {c}, doc |-> c, user |-> u]
        PROVE  StartIInv'
    <2>1. u \in Everybody
      BY DEF UsersOf, StartIInv, StartTypeOK, AccountsOK
    <2>2. boot' \in Boots /\ boot'.at = "merge" /\ boot'.todo = boot.todo \ {c} /\ boot'.doc = c /\ boot'.user = u
      BY <1>0, <1>2, <2>1 DEF Boots
    <2>3. NamesPhase' /\ DocPhase'
      BY <1>1, <2>2 DEF NamesPhase, DocPhase
    <2>4. LeftPhase'
      BY <1>0, <1>1, <2>2 DEF LeftPhase, StartIInv
    <2> QED
      BY <1>0, <2>2, <2>3, <2>4, QuietStart
  <1>3. ASSUME UsersOf(c) = {}, boot' = [at |-> "insert", todo |-> boot.todo \ {c}, doc |-> c]
        PROVE  StartIInv'
    <2>2. boot' \in Boots /\ boot'.at = "insert" /\ boot'.todo = boot.todo \ {c} /\ boot'.doc = c
      BY <1>0, <1>3 DEF Boots
    <2>3. NamesPhase' /\ DocPhase'
      BY <1>1, <1>3, <2>2 DEF NamesPhase, DocPhase
    <2>4. LeftPhase'
      BY <1>0, <1>1, <2>2 DEF LeftPhase, StartIInv
    <2> QED
      BY <1>0, <2>2, <2>3, <2>4, QuietStart
  <1> QED
    BY <1>2, <1>3 DEF TakeCommenter

LEMMA ComeUpKeeps == ASSUME StartIInv, ComeUp PROVE StartIInv'
  <1>1. boot.at = "cursor" /\ boot.todo = {} /\ boot' = [at |-> "up"] /\ UNCHANGED <<accounts, legacy, commenter, failing>>
    BY DEF ComeUp
  <1>2. boot' \in Boots /\ boot'.at = "up" /\ failing' \in BOOLEAN
    BY <1>1 DEF Boots, StartIInv, StartTypeOK
  <1>3. NamesPhase' /\ DocPhase'
    BY <1>2 DEF NamesPhase, DocPhase
  <1>4. LeftPhase'
    BY <1>1, <1>2 DEF LeftPhase, StartIInv, Unnamed
  <1> QED
    BY <1>1, <1>2, <1>3, <1>4, QuietStart

LEMMA CrashKeeps == ASSUME StartIInv, Crash PROVE StartIInv'
  <1>1. boot' = Down /\ UNCHANGED <<accounts, legacy, commenter, failing>>
    BY DEF Crash
  <1>2. boot' \in Boots /\ boot'.at = "down" /\ failing' \in BOOLEAN
    BY <1>1 DEF Boots, Down, StartIInv, StartTypeOK
  <1>3. NamesPhase' /\ DocPhase' /\ LeftPhase'
    BY <1>2 DEF NamesPhase, DocPhase, LeftPhase
  <1> QED
    BY <1>1, <1>2, <1>3, QuietStart

-----------------------------------------------------------------------------
(* Writes.                                                                 *)

\* The name a user is given is one nobody has, and it is a name.
LEMMA NewNameOK ==
  ASSUME StartTypeOK, NEW u \in DOMAIN accounts, accounts[u].username = NoName,
         NEW name \in IF FoldersOf(u) # {} THEN FoldersOf(u) ELSE {UsernameForEmail(EmailOf[u])}
  PROVE  name \in Names /\ name # NoName /\ ~Taken(name)
  <1>0. u \in Everybody
    BY DEF StartTypeOK, AccountsOK
  <1>1. CASE name = UsernameForEmail(EmailOf[u])
    BY <1>0, <1>1, FreshName DEF Names
  <1>2. CASE name \in FoldersOf(u)
    <2>1. u \in DOMAIN Hits /\ name \in DOMAIN Hits[u] /\ ~Taken(name)
      BY <1>2 DEF FoldersOf
    <2>2. Taken(NoName)
      BY DEF Taken
    <2> QED
      BY <2>1, <2>2 DEF Names
  <1> QED
    BY <1>1, <1>2

LEMMA NameUserKeeps == ASSUME StartIInv, NameUser PROVE StartIInv'
  <1> DEFINE i == Oldest(boot.todo)
             u == OldUsers[i]
  <1>1. boot.at = "names" /\ boot.todo # {}
    BY DEF NameUser
  <1>2. boot \in [at : {"names"}, todo : SUBSET DOMAIN OldUsers, seen : Nat, done : Nat] /\ StartTypeOK
        /\ boot.todo \subseteq Unnamed
    BY <1>1, BootShape DEF StartIInv, StartTypeOK, NamesPhase
  <1>3. i \in boot.todo
    <2>1. boot.todo \in SUBSET Nat
      BY <1>2, EverybodyFinite
    <2> QED
      BY <1>1, <2>1, OldestIs
  <1>4. i \in DOMAIN OldUsers /\ u \in DOMAIN accounts /\ accounts[u].username = NoName /\ u \in Range(OldUsers)
    BY <1>2, <1>3, EverybodyFinite DEF Unnamed, StartTypeOK, AccountsOK
  <1> HIDE DEF i
  <1>5. ASSUME NEW name \in IF FoldersOf(u) # {} THEN FoldersOf(u) ELSE {UsernameForEmail(EmailOf[u])},
               accounts' = [accounts EXCEPT ![u].username = name],
               boot' = [boot EXCEPT !.todo = @ \ {i}, !.done = @ + 1],
               UNCHANGED <<legacy, commenter, failing, faults>>
        PROVE  StartIInv'
    <2>1. name \in Names /\ name # NoName /\ ~Taken(name)
      BY <1>2, <1>4, NewNameOK
    <2> HIDE DEF u
    <2>2. /\ DOMAIN accounts' = DOMAIN accounts /\ accounts' = [v \in DOMAIN accounts' |-> accounts'[v]]
          /\ \A v \in DOMAIN accounts \ {u} : accounts'[v] = accounts[v]
          /\ accounts'[u] = [accounts[u] EXCEPT !.username = name]
      BY <1>2, <1>4, <1>5 DEF StartTypeOK, AccountsOK
    <2>3. accounts[u] \in RowOf(u)
      BY <1>2, <1>4 DEF StartTypeOK, AccountsOK
    <2>4. /\ accounts'[u].username = name /\ accounts'[u].email = accounts[u].email
          /\ accounts'[u].verified = accounts[u].verified /\ accounts'[u].blocked = accounts[u].blocked
          /\ accounts'[u] \in RowOf(u)
      BY <2>1, <2>2, <2>3 DEF RowOf
    <2>5. AccountsOK'
      BY <1>2, <2>1, <2>2, <2>4 DEF StartTypeOK, AccountsOK
    <2>6. /\ boot' \in [at : {"names"}, todo : SUBSET DOMAIN OldUsers, seen : Nat, done : Nat]
          /\ boot'.at = "names" /\ boot'.todo = boot.todo \ {i} /\ boot'.seen = boot.seen
          /\ boot'.done = boot.done + 1 /\ boot.done \in Nat
      <3>1. boot.todo \ {i} \in SUBSET DOMAIN OldUsers /\ boot.done \in Nat /\ boot.done + 1 \in Nat
        BY <1>2
      <3>2. boot' = [[boot EXCEPT !.todo = boot.todo \ {i}] EXCEPT !.done = boot.done + 1]
        BY <1>2, <1>5
      <3> QED
        BY <1>2, <3>1, <3>2
    <2>7. StartTypeOK'
      BY <1>2, <1>5, <2>5, <2>6 DEF StartTypeOK, Boots
    <2>8. UsernamesUnique'
      <3> SUFFICES ASSUME NEW v \in DOMAIN accounts, NEW w \in DOMAIN accounts,
                          accounts'[v].username = accounts'[w].username, v # w
                   PROVE  accounts'[v].username = NoName
        BY <2>2 DEF UsernamesUnique
      <3>1. accounts[v].username # name /\ accounts[w].username # name
        BY <2>1 DEF Taken
      <3>2. v # u /\ w # u
        BY <2>2, <2>4, <3>1
      <3>3. accounts'[v] = accounts[v] /\ accounts'[w] = accounts[w]
        BY <2>2, <3>2
      <3> QED
        BY <3>3 DEF StartIInv, UsernamesUnique
    <2>9. NoOrphanComment'
      BY <1>5, <2>2 DEF StartIInv, NoOrphanComment
    <2>10. StandingKept'
      BY <1>5, <2>2, <2>4 DEF StartIInv, StandingKept, UsersOf
    <2>11. Unnamed' = Unnamed \ {i}
      <3>1. \A j \in DOMAIN OldUsers : OldUsers[j] = u => j = i
        BY <1>4, EverybodyFinite DEF u
      <3>2. \A j \in DOMAIN OldUsers : OldUsers[j] \in DOMAIN accounts
        BY <1>2, EverybodyFinite DEF StartTypeOK, AccountsOK
      <3>3. OldUsers[i] = u
        BY DEF u
      <3> QED
        <4>1. accounts'[OldUsers[i]].username # NoName
          BY <2>1, <2>4, <3>3
        <4>2. ASSUME NEW j \in DOMAIN OldUsers, j # i PROVE accounts'[OldUsers[j]] = accounts[OldUsers[j]]
          BY <2>2, <3>1, <3>2, <4>2
        <4> QED
          BY <4>1, <4>2 DEF Unnamed
    <2>12. NamesPhase'
      <3>1. boot'.done # 0
        BY <2>6
      <3> QED
        BY <1>1, <1>5, <2>6, <2>11, <3>1 DEF StartIInv, NamesPhase
    <2>13. DocPhase' /\ LeftPhase'
      BY <2>6 DEF DocPhase, LeftPhase
    <2> QED
      BY <2>7, <2>8, <2>9, <2>10, <2>12, <2>13 DEF StartIInv
  <1>6. ASSUME Fails, boot' = [boot EXCEPT !.todo = @ \ {i}] PROVE StartIInv'
    <2>1. boot' \in [at : {"names"}, todo : SUBSET DOMAIN OldUsers, seen : Nat, done : Nat]
          /\ boot'.at = "names" /\ boot'.todo = boot.todo \ {i}
      BY <1>2, <1>6
    <2>2. failing' = TRUE /\ UNCHANGED <<accounts, legacy, commenter>>
      BY <1>6 DEF Fails
    <2>3. Unnamed' = Unnamed
      BY <2>2 DEF Unnamed
    <2>4. NamesPhase'
      BY <1>2, <2>1, <2>2, <2>3 DEF NamesPhase
    <2>5. DocPhase' /\ LeftPhase' /\ boot' \in Boots
      BY <2>1 DEF DocPhase, LeftPhase, Boots
    <2> QED
      BY <2>2, <2>4, <2>5, QuietStart
  <1> QED
    BY <1>5, <1>6 DEF NameUser, i, u

LEMMA MergeKeeps == ASSUME StartIInv, Merge PROVE StartIInv'
  <1> DEFINE u == boot.user
             d == boot.doc
             row == IF d \in Verified THEN [accounts[u] EXCEPT !.verified = TRUE]
                                      ELSE [accounts[u] EXCEPT !.blocked = d \in Blocked]
  <1>1. boot.at = "merge" /\ StartTypeOK
        /\ boot \in [at : {"merge", "repoint"}, todo : SUBSET Legacy, doc : Legacy, user : Everybody]
    BY BootShape DEF Merge, StartIInv, StartTypeOK
  <1>2. u \in UsersOf(d) /\ u \in DOMAIN accounts /\ d \in Legacy
    BY <1>1 DEF StartIInv, DocPhase, UsersOf
  <1>3. ASSUME accounts' = [accounts EXCEPT ![u] = row], boot' = [boot EXCEPT !.at = "repoint"],
               UNCHANGED <<legacy, commenter, failing, faults>>
        PROVE  StartIInv'
    <2>1. accounts[u] \in RowOf(u)
      BY <1>1, <1>2 DEF StartTypeOK, AccountsOK
    <2>2. /\ row \in RowOf(u) /\ row.username = accounts[u].username /\ row.email = accounts[u].email
          /\ accounts[u].verified => row.verified
          /\ d \in Verified => row.verified
          /\ row.blocked = accounts[u].blocked \/ row.blocked = (d \in Blocked)
      <3>1. CASE d \in Verified
        <4>1. row = [accounts[u] EXCEPT !.verified = TRUE]
          BY <3>1
        <4> HIDE DEF row
        <4> QED
          BY <2>1, <4>1 DEF RowOf
      <3>2. CASE d \notin Verified
        <4>1. row = [accounts[u] EXCEPT !.blocked = d \in Blocked]
          BY <3>2
        <4>2. (d \in Blocked) \in BOOLEAN
          OBVIOUS
        <4> HIDE DEF row
        <4> QED
          BY <2>1, <3>2, <4>1, <4>2 DEF RowOf
      <3> QED
        BY <3>1, <3>2
    <2> HIDE DEF row
    <2>3. /\ DOMAIN accounts' = DOMAIN accounts /\ accounts' = [v \in DOMAIN accounts' |-> accounts'[v]]
          /\ \A v \in DOMAIN accounts \ {u} : accounts'[v] = accounts[v]
          /\ accounts'[u] = row
      BY <1>1, <1>2, <1>3 DEF StartTypeOK, AccountsOK
    <2>4. \A v \in DOMAIN accounts : accounts'[v].username = accounts[v].username /\ accounts'[v].email = accounts[v].email
                                     /\ (accounts[v].verified => accounts'[v].verified)
      BY <2>2, <2>3
    <2>5. AccountsOK'
      BY <1>1, <2>2, <2>3, <2>4 DEF StartTypeOK, AccountsOK
    <2>6. /\ boot' \in [at : {"merge", "repoint"}, todo : SUBSET Legacy, doc : Legacy, user : Everybody]
          /\ boot'.at = "repoint" /\ boot'.todo = boot.todo /\ boot'.doc = d /\ boot'.user = u
      BY <1>1, <1>3
    <2>7. StartTypeOK'
      BY <1>1, <1>3, <2>5, <2>6 DEF StartTypeOK, Boots
    <2>8. UsernamesUnique'
      BY <2>3, <2>4 DEF StartIInv, UsernamesUnique
    <2>9. NoOrphanComment'
      BY <1>3, <2>3 DEF StartIInv, NoOrphanComment
    <2>10. \A c : UsersOf(c)' = UsersOf(c)
      BY <2>3, <2>4 DEF UsersOf
    <2>11. StandingKept'
      <3>1. ASSUME NEW c \in Verified \ legacy PROVE \E v \in UsersOf(c) : accounts'[v].verified
        <4>1. PICK v \in UsersOf(c) : accounts[v].verified
          BY DEF StartIInv, StandingKept
        <4>2. v \in DOMAIN accounts
          BY DEF UsersOf
        <4> QED
          BY <2>4, <4>1, <4>2
      <3>2. ASSUME NEW c \in Blocked \cap DOMAIN accounts
            PROVE  accounts'[c].blocked \/ \E e \in Legacy \ {c} : EmailOf[e] = EmailOf[c]
        <4>1. accounts[c].blocked \/ \E e \in Legacy \ {c} : EmailOf[e] = EmailOf[c]
          BY DEF StartIInv, StandingKept
        <4>2. CASE c # u
          BY <2>3, <4>1, <4>2
        <4>3. CASE c = u /\ d # c
          <5>1. accounts[u].email = EmailOf[d] /\ accounts[u].email = EmailOf[u]
            BY <1>2, <2>1 DEF UsersOf, RowOf
          <5> QED
            BY <1>2, <4>3, <5>1
        <4>4. CASE c = u /\ d = c
          <5>1. (d \in Blocked) = TRUE
            BY <4>4
          <5> QED
            BY <2>2, <2>3, <4>1, <4>4, <5>1
        <4> QED
          BY <4>2, <4>3, <4>4
      <3> QED
        BY <1>3, <2>3, <2>10, <3>1, <3>2 DEF StandingKept
    <2>12. NamesPhase'
      BY <2>6 DEF NamesPhase
    <2>13. DocPhase'
      BY <1>2, <2>2, <2>3, <2>6, <2>10 DEF DocPhase
    <2>14. Unnamed' = Unnamed
      <3>1. \A j \in DOMAIN OldUsers : OldUsers[j] \in DOMAIN accounts
        BY <1>1, EverybodyFinite DEF StartTypeOK, AccountsOK
      <3> QED
        BY <2>4, <3>1 DEF Unnamed
    <2>15. LeftPhase'
      BY <1>1, <1>3, <2>6, <2>14 DEF StartIInv, LeftPhase
    <2> QED
      BY <2>7, <2>8, <2>9, <2>11, <2>12, <2>13, <2>15 DEF StartIInv
  <1>4. ASSUME Fails, Skip PROVE StartIInv'
    BY <1>1, <1>4, FailsSkip DEF Skip
  <1> QED
    BY <1>3, <1>4 DEF Merge

LEMMA RepointKeeps == ASSUME StartIInv, Repoint PROVE StartIInv'
  <1>1. boot.at = "repoint" /\ StartTypeOK
        /\ boot \in [at : {"merge", "repoint"}, todo : SUBSET Legacy, doc : Legacy, user : Everybody]
    BY BootShape DEF Repoint, StartIInv, StartTypeOK
  <1>2. boot.user \in UsersOf(boot.doc) /\ boot.user \in DOMAIN accounts
    BY <1>1 DEF StartIInv, DocPhase, UsersOf
  <1>3. ASSUME commenter' = [c \in Legacy |-> IF commenter[c] = boot.doc THEN boot.user ELSE commenter[c]],
               boot' = [at |-> "delete", todo |-> boot.todo, doc |-> boot.doc],
               UNCHANGED <<accounts, legacy, failing, faults>>
        PROVE  StartIInv'
    <2>1. boot' \in [at : {"insert", "delete"}, todo : SUBSET Legacy, doc : Legacy]
          /\ boot'.at = "delete" /\ boot'.todo = boot.todo /\ boot'.doc = boot.doc
      BY <1>1, <1>3
    <2>2. commenter' \in [Legacy -> Everybody]
      BY <1>1, <1>3 DEF StartTypeOK
    <2>3. StartTypeOK'
      BY <1>1, <1>3, <2>1, <2>2 DEF StartTypeOK, AccountsOK, Boots
    <2>4. Unnamed' = Unnamed /\ \A c : UsersOf(c)' = UsersOf(c)
      BY <1>3 DEF Unnamed, UsersOf
    <2>5. UsernamesUnique' /\ StandingKept'
      BY <1>3, <2>4 DEF StartIInv, UsernamesUnique, StandingKept
    <2>6. NoOrphanComment'
      BY <1>2, <1>3 DEF StartIInv, NoOrphanComment
    <2>7. NamesPhase'
      BY <2>1 DEF NamesPhase
    <2>8. DocPhase'
      <3>1. boot.doc \in DOMAIN accounts \/ (\A c \in Legacy : commenter'[c] # boot.doc)
        BY <1>2, <1>3
      <3>2. boot.doc \in Verified => \E u \in UsersOf(boot.doc) : accounts[u].verified
        BY <1>1 DEF StartIInv, DocPhase
      <3> QED
        BY <1>3, <2>1, <2>4, <3>1, <3>2 DEF DocPhase
    <2>9. LeftPhase'
      BY <1>1, <1>3, <2>1, <2>4 DEF StartIInv, LeftPhase
    <2> QED
      BY <2>3, <2>5, <2>6, <2>7, <2>8, <2>9 DEF StartIInv
  <1>4. ASSUME Fails, Skip PROVE StartIInv'
    BY <1>1, <1>4, FailsSkip DEF Skip
  <1> QED
    BY <1>3, <1>4 DEF Repoint

LEMMA InsertCommenterKeeps == ASSUME StartIInv, InsertCommenter PROVE StartIInv'
  <1> DEFINE d == boot.doc
             name == UsernameForEmail(EmailOf[d])
             row == [email |-> EmailOf[d], verified |-> d \in Verified, blocked |-> d \in Blocked, username |-> name]
  <1>1. boot.at = "insert" /\ StartTypeOK /\ d \in Legacy
        /\ boot \in [at : {"insert", "delete"}, todo : SUBSET Legacy, doc : Legacy]
    BY BootShape DEF InsertCommenter, StartIInv, StartTypeOK
  <1>2. UsersOf(d) = {}
    BY <1>1 DEF StartIInv, DocPhase
  <1>3. d \notin DOMAIN accounts
    BY <1>1, <1>2 DEF UsersOf, StartTypeOK, AccountsOK, RowOf
  <1>4. name \in Names /\ name # NoName /\ ~Taken(name)
    BY <1>1, <1>3, FreshName DEF Names, Everybody
  <1>5. ASSUME accounts' = [u \in DOMAIN accounts \cup {d} |-> IF u = d THEN row ELSE accounts[u]], boot' = [boot EXCEPT !.at = "delete"],
               UNCHANGED <<legacy, commenter, failing, faults>>
        PROVE  StartIInv'
    <2>1. row \in RowOf(d) /\ row.username = name /\ row.email = EmailOf[d]
          /\ row.verified = (d \in Verified) /\ row.blocked = (d \in Blocked)
      <3> HIDE DEF name
      <3> QED
        BY <1>4 DEF RowOf
    <2> HIDE DEF row, name
    <2>2. /\ DOMAIN accounts' = DOMAIN accounts \cup {d} /\ accounts' = [v \in DOMAIN accounts' |-> accounts'[v]]
          /\ \A v \in DOMAIN accounts : accounts'[v] = accounts[v]
          /\ accounts'[d] = row
      BY <1>3, <1>5
    <2>3. AccountsOK'
      BY <1>1, <1>4, <2>1, <2>2 DEF StartTypeOK, AccountsOK, Everybody
    <2>4. boot' \in [at : {"insert", "delete"}, todo : SUBSET Legacy, doc : Legacy]
          /\ boot'.at = "delete" /\ boot'.todo = boot.todo /\ boot'.doc = d
      BY <1>1, <1>5
    <2>5. StartTypeOK'
      BY <1>1, <1>5, <2>3, <2>4 DEF StartTypeOK, Boots
    <2>6. UsernamesUnique'
      <3> SUFFICES ASSUME NEW v \in DOMAIN accounts \cup {d}, NEW w \in DOMAIN accounts \cup {d},
                          accounts'[v].username = accounts'[w].username, v # w
                   PROVE  accounts'[v].username = NoName
        BY <2>2 DEF UsernamesUnique
      <3>1. v # d /\ w # d
        BY <1>4, <2>1, <2>2 DEF Taken
      <3>2. accounts'[v] = accounts[v] /\ accounts'[w] = accounts[w]
        BY <2>2, <3>1
      <3> QED
        BY <3>1, <3>2 DEF StartIInv, UsernamesUnique
    <2>7. NoOrphanComment'
      BY <1>5, <2>2 DEF StartIInv, NoOrphanComment
    <2>8. \A c : UsersOf(c) \subseteq UsersOf(c)'
      BY <2>2 DEF UsersOf
    <2>9. d \in UsersOf(d)'
      BY <2>1, <2>2, <2>4 DEF UsersOf
    <2>10. StandingKept'
      <3>1. ASSUME NEW c \in Verified \ legacy PROVE \E v \in UsersOf(c)' : accounts'[v].verified
        <4>1. PICK v \in UsersOf(c) : accounts[v].verified
          BY DEF StartIInv, StandingKept
        <4>2. v \in DOMAIN accounts
          BY DEF UsersOf
        <4>3. accounts'[v].verified
          BY <2>2, <4>1, <4>2
        <4> QED
          BY <2>8, <4>1, <4>3
      <3>2. ASSUME NEW c \in Blocked \cap DOMAIN accounts'
            PROVE  accounts'[c].blocked \/ \E e \in Legacy \ {c} : EmailOf[e] = EmailOf[c]
        <4>1. CASE c = d
          BY <2>1, <2>2, <4>1
        <4>2. CASE c # d
          <5>1. accounts[c].blocked \/ \E e \in Legacy \ {c} : EmailOf[e] = EmailOf[c]
            BY <2>2, <4>2 DEF StartIInv, StandingKept
          <5>2. accounts'[c] = accounts[c]
            BY <2>2, <4>2
          <5> QED
            BY <5>1, <5>2
        <4> QED
          BY <4>1, <4>2
      <3> QED
        BY <1>5, <3>1, <3>2 DEF StandingKept
    <2>11. NamesPhase'
      BY <2>4 DEF NamesPhase
    <2>12. DocPhase'
      <3>1. d \in Verified => accounts'[d].verified
        BY <2>1, <2>2
      <3>2. d \in DOMAIN accounts'
        BY <2>2
      <3> QED
        BY <2>4, <2>9, <3>1, <3>2 DEF DocPhase
    <2>13. Unnamed' = Unnamed
      <3>1. \A j \in DOMAIN OldUsers : OldUsers[j] \in DOMAIN accounts
        BY <1>1, EverybodyFinite DEF StartTypeOK, AccountsOK
      <3> QED
        BY <2>2, <3>1 DEF Unnamed
    <2>14. LeftPhase'
      BY <1>1, <1>5, <2>4, <2>13 DEF StartIInv, LeftPhase
    <2> QED
      BY <2>5, <2>6, <2>7, <2>10, <2>11, <2>12, <2>14 DEF StartIInv
  <1>6. ASSUME Fails, Skip PROVE StartIInv'
    BY <1>1, <1>6, FailsSkip DEF Skip
  <1>7. [u \in DOMAIN accounts \cup {d} |->
            IF u = d THEN [email |-> EmailOf[u], verified |-> u \in Verified, blocked |-> u \in Blocked,
                           username |-> UsernameForEmail(EmailOf[u])]
                     ELSE accounts[u]]
         = [u \in DOMAIN accounts \cup {d} |-> IF u = d THEN row ELSE accounts[u]]
    OBVIOUS
  <1> QED
    BY <1>5, <1>6, <1>7 DEF InsertCommenter

LEMMA DeleteLegacyKeeps == ASSUME StartIInv, DeleteLegacy PROVE StartIInv'
  <1> DEFINE d == boot.doc
  <1>1. boot.at = "delete" /\ StartTypeOK /\ d \in Legacy
        /\ boot \in [at : {"insert", "delete"}, todo : SUBSET Legacy, doc : Legacy]
    BY BootShape DEF DeleteLegacy, StartIInv, StartTypeOK
  <1>2. ASSUME legacy' = legacy \ {d}, UNCHANGED <<accounts, commenter, failing, faults>>, Skip
        PROVE  StartIInv'
    <2>1. boot' \in Boots /\ boot'.at = "cursor" /\ boot'.todo = boot.todo
      BY <1>1, <1>2 DEF Skip, Boots
    <2>2. StartTypeOK'
      BY <1>1, <1>2, <2>1 DEF StartTypeOK, AccountsOK
    <2>3. Unnamed' = Unnamed /\ \A c : UsersOf(c)' = UsersOf(c)
      BY <1>2 DEF Unnamed, UsersOf
    <2>4. UsernamesUnique'
      BY <1>2 DEF StartIInv, UsernamesUnique
    <2>5. NoOrphanComment'
      <3>1. d \in DOMAIN accounts \/ (\A c \in Legacy : commenter[c] # d)
        BY <1>1 DEF StartIInv, DocPhase
      <3> QED
        BY <1>2, <3>1 DEF StartIInv, NoOrphanComment
    <2>6. StandingKept'
      <3>1. d \in Verified => \E u \in UsersOf(d) : accounts[u].verified
        BY <1>1 DEF StartIInv, DocPhase
      <3>2. StandingKept
        BY DEF StartIInv
      <3> QED
        BY <1>2, <2>3, <3>1, <3>2 DEF StandingKept
    <2>7. NamesPhase' /\ DocPhase'
      BY <2>1 DEF NamesPhase, DocPhase
    <2>8. LeftPhase'
      BY <1>1, <1>2, <2>1, <2>3 DEF StartIInv, LeftPhase
    <2> QED
      BY <2>2, <2>4, <2>5, <2>6, <2>7, <2>8 DEF StartIInv
  <1>3. ASSUME Fails, Skip PROVE StartIInv'
    BY <1>1, <1>3, FailsSkip DEF Skip
  <1> QED
    BY <1>2, <1>3 DEF DeleteLegacy

LEMMA StartNextOK == StartIInv /\ [StartNext]_startVars => StartIInv'
  <1> SUFFICES ASSUME StartIInv, [StartNext]_startVars PROVE StartIInv'
    OBVIOUS
  <1>1. CASE UNCHANGED startVars
    <2>1. UNCHANGED <<accounts, legacy, commenter>> /\ failing' = failing /\ boot' = boot
      BY <1>1 DEF startVars
    <2>2. failing' \in BOOLEAN /\ boot' \in Boots
      BY <2>1 DEF StartIInv, StartTypeOK
    <2>3. NamesPhase' /\ DocPhase' /\ LeftPhase'
      BY <2>1 DEF StartIInv, NamesPhase, DocPhase, LeftPhase, Unnamed, UsersOf
    <2> QED
      BY <2>1, <2>2, <2>3, QuietStart
  <1> QED
    BY <1>1, BootKeeps, NameUserKeeps, EndBatchKeeps, TakeCommenterKeeps, MergeKeeps, RepointKeeps,
       InsertCommenterKeeps, DeleteLegacyKeeps, ComeUpKeeps, CrashKeeps DEF StartNext

\* Through failed writes and restarts between any two of them, the migrations of
\* the start give no name twice, orphan no comment, lose no verification and
\* no block, and a server that came up without a failed write has moved and
\* named everybody.
THEOREM MigrationInvThm == StartSpec => []MigrationInv
  <1>1. StartSpec => []StartIInv
    BY StartInitOK, StartNextOK, PTL DEF StartSpec
  <1>2. StartIInv => MigrationInv
    <2> SUFFICES ASSUME StartIInv PROVE MigrationInv
      OBVIOUS
    <2>1. ASSUME boot.at = "up", ~failing
          PROVE  legacy = {} /\ \A u \in DOMAIN accounts : accounts[u].username # NoName
      <3>1. legacy = {} /\ Unnamed = {}
        BY <2>1 DEF StartIInv, LeftPhase
      <3>2. AccountsOK
        BY DEF StartIInv, StartTypeOK
      <3>3. ASSUME NEW u \in DOMAIN accounts, accounts[u].username = NoName PROVE FALSE
        <4>1. u \in Range(OldUsers)
          BY <3>2, <3>3 DEF AccountsOK
        <4>2. PICK i \in DOMAIN OldUsers : u = OldUsers[i]
          BY <4>1 DEF Range
        <4> QED
          BY <3>1, <3>3, <4>2 DEF Unnamed
      <3> QED
        BY <3>1, <3>3
    <2>2. UpMeansMigrated
      BY <2>1 DEF UpMeansMigrated
    <2> QED
      BY <2>2 DEF StartIInv, MigrationInv
  <1> QED
    BY <1>1, <1>2, PTL

\* A step gives a username only to a user who has none.
LEMMA NameStep ==
  ASSUME StartIInv, [StartNext]_startVars, NEW u \in DOMAIN accounts, accounts[u].username # NoName
  PROVE  accounts'[u].username = accounts[u].username
  <1>0. AccountsOK /\ boot \in Boots
    BY DEF StartIInv, StartTypeOK
  <1>1. CASE accounts' = accounts
    BY <1>1
  <1>2. CASE NameUser /\ accounts' # accounts
    <2>1. boot.at = "names" /\ boot.todo # {}
      BY <1>2 DEF NameUser
    <2>2. boot.todo \in SUBSET DOMAIN OldUsers /\ boot.todo \subseteq Unnamed
      BY <1>0, <2>1, BootShape DEF StartIInv, NamesPhase
    <2>3. boot.todo \in SUBSET Nat
      BY <2>2, EverybodyFinite
    <2>4. Oldest(boot.todo) \in Unnamed
      BY <2>1, <2>2, <2>3, OldestIs
    <2>5. OldUsers[Oldest(boot.todo)] # u
      BY <2>4 DEF Unnamed
    <2> DEFINE w == OldUsers[Oldest(boot.todo)]
    <2>6. PICK name : accounts' = [accounts EXCEPT ![w].username = name]
      BY <1>2 DEF NameUser, Fails
    <2> HIDE DEF w
    <2>7. accounts'[u] = accounts[u]
      BY <2>5, <2>6 DEF w
    <2> QED
      BY <2>7
  <1>3. CASE Merge /\ accounts' # accounts
    <2> DEFINE w == boot.user
               row == IF boot.doc \in Verified THEN [accounts[w] EXCEPT !.verified = TRUE]
                                               ELSE [accounts[w] EXCEPT !.blocked = boot.doc \in Blocked]
    <2>1. accounts' = [accounts EXCEPT ![w] = row]
      BY <1>3 DEF Merge, Fails
    <2>2. CASE u = w
      <3>1. accounts'[u] = row
        BY <2>1, <2>2
      <3>2. accounts[w] \in RowOf(w)
        BY <1>0, <2>2 DEF AccountsOK
      <3>3. row.username = accounts[w].username
        BY <3>2 DEF RowOf
      <3> QED
        BY <2>2, <3>1, <3>3
    <2>3. CASE u # w
      BY <2>1, <2>3
    <2> QED
      BY <2>2, <2>3
  <1>4. CASE InsertCommenter /\ accounts' # accounts
    <2> DEFINE d == boot.doc
    <2>1. boot.at = "insert" /\ UsersOf(d) = {}
      BY <1>4 DEF InsertCommenter, StartIInv, DocPhase
    <2>2. d \in Legacy
      BY <1>0, <2>1, BootShape
    <2>3. u # d
      BY <1>0, <2>1 DEF UsersOf, AccountsOK, RowOf
    <2>6. accounts'[u] = accounts[u]
      BY <2>3, <1>4 DEF InsertCommenter, Fails
    <2> QED
      BY <2>6
  <1>5. accounts' = accounts \/ NameUser \/ Merge \/ InsertCommenter
    BY DEF startVars, StartNext, Boot, EndBatch, TakeCommenter, Repoint, DeleteLegacy, ComeUp, Crash, Fails
  <1> QED
    BY <1>1, <1>2, <1>3, <1>4, <1>5

\* A username, which names the folder of the user's files, never changes.
THEOREM UsernameStableThm == StartSpec => UsernameStable
  <1> DEFINE Stable ==
        \A u \in DOMAIN accounts :
          accounts[u].username # NoName => accounts'[u].username = accounts[u].username
  <1>1. StartIInv /\ [StartNext]_startVars => Stable
    BY NameStep
  <1> HIDE DEF Stable
  <1>2. StartIInv /\ [StartNext]_startVars => [Stable]_startVars
    BY <1>1
  <1> USE DEF Stable
  <1> QED
    BY StartInitOK, StartNextOK, <1>2, PTL DEF StartSpec, UsernameStable

-----------------------------------------------------------------------------
(* The languages, the items and the settings.                              *)

Maps == UNION {[S -> Texts] : S \in SUBSET Codes}
ItemDocs == [name : Maps, enabled : BOOLEAN, gone : BOOLEAN]
LangRows == [id : 1 .. MaxDocs, code : Codes, default : BOOLEAN]
Values == {"off", "on"} \cup Servers

\* What a thread or a server may be doing.
Reqs ==
    {Idle}
    \cup [at : {"insert"}, code : Codes, first : BOOLEAN, version : Nat]
    \cup [at : {"clear", "set", "remove"}, code : Codes, version : Nat]
    \cup [at : {"form"}, kind : Kinds, page : Maps, new : BOOLEAN, rev : Nat]
    \cup [at : {"save"}, kind : Kinds, new : BOOLEAN, form : Maps, doc : ItemDocs, rev : Nat]
    \cup [at : {"upsert"}, field : Fields, value : {"off", "on"}]
    \cup [at : {"make", "draw", "read"}]

ReqType == req \in [Threads \cup Servers -> Reqs] /\ requests \in Nat

LangType ==
    /\ langs \subseteq LangRows /\ IsFiniteSet(langs)
    /\ lastId \in 0 .. MaxDocs /\ version \in Nat /\ raced \in BOOLEAN /\ broken \in BOOLEAN
    /\ \A d \in langs : d.id <= lastId
    /\ \A d, e \in langs : d.id = e.id => d = e

ItemType ==
    /\ items \in [Kinds -> ItemDocs] /\ meant \in [Kinds -> Maps]
    /\ itemRev \in Nat /\ overtaken \in BOOLEAN

Docs == UNION {[S -> Values] : S \in SUBSET (Fields \cup {"secret"})}

SettingType ==
    /\ settings \in Seq(Docs)
    /\ saved \in Docs /\ "secret" \notin DOMAIN saved
    /\ \A i \in DOMAIN settings : "secret" \in DOMAIN settings[i] => settings[i]["secret"] \in Servers
    /\ secret \in [Servers -> Servers \cup {None}]

\* What a request that writes the languages read of them still holds while
\* nobody has written them since.
LangReq(p) ==
    /\ req[p].at \in {"insert", "clear", "set", "remove"} => req[p].version <= version
    /\ req[p].at \in {"clear", "set"} => p \in Threads
    /\ ~raced /\ req[p].at = "insert" /\ req[p].version = version =>
          req[p].code \notin Configured /\ (req[p].first <=> langs = {})
    /\ ~raced /\ req[p].at \in {"clear", "set"} /\ req[p].version = version =>
          \E d \in langs : {e \in langs : e.code = req[p].code} = {d}
    /\ ~raced /\ req[p].at = "set" /\ req[p].version = version => \A d \in langs : ~d.default
    /\ ~raced /\ req[p].at = "remove" /\ req[p].version = version =>
          \E d \in langs : d.code = req[p].code /\ ~d.default

LangsOK ==
    /\ version = 0 => langs = {}
    /\ ~raced => \A d, e \in langs : d.code = e.code => d = e
    /\ Settled => \E d \in langs : {e \in langs : e.default} = {d}

\* What a form shows, and what is to be stored of it, while nobody has written
\* the items or the languages since it was opened.
ItemReq(p) ==
    /\ req[p].at \in {"form", "save"} => req[p].rev <= itemRev
    /\ req[p].at = "form" /\ req[p].rev = itemRev =>
          DOMAIN req[p].page = Configured /\ (req[p].new <=> items[req[p].kind].gone)
    /\ req[p].at = "save" => ~req[p].doc.gone
    /\ req[p].at = "save" /\ req[p].rev = itemRev =>
          /\ req[p].new <=> items[req[p].kind].gone
          /\ \A c \in DOMAIN req[p].form :
                c \in DOMAIN req[p].doc.name /\ req[p].doc.name[c] = req[p].form[c]

TextsOK ==
    ~overtaken =>
        \A k \in Kinds : \A c \in DOMAIN meant[k] :
            ~items[k].gone /\ c \in DOMAIN items[k].name /\ items[k].name[c] = meant[k][c]

\* A secret that a server has is the first document's, which never changes.
SecretStored ==
    \A s \in Servers : secret[s] # None =>
        1 \in DOMAIN settings /\ "secret" \in DOMAIN settings[1] /\ settings[1]["secret"] = secret[s]

SavedStored ==
    /\ settings = <<>> => DOMAIN saved = {}
    /\ 2 \notin DOMAIN settings => \A f \in DOMAIN saved :
            1 \in DOMAIN settings /\ f \in DOMAIN settings[1] /\ settings[1][f] = saved[f]

Everyone == Threads \cup Servers
LangInv == LangsOK /\ \A p \in Everyone : LangReq(p)
ItemInv == TextsOK /\ \A p \in Everyone : ItemReq(p)
SettingInv == SecretStored /\ SavedStored

\* A step of p turns its request into r.
Moves(p, r) ==
    /\ req'[p] = r
    /\ \A q \in Everyone : q # p => req'[q] = req[q]

LEMMA BeginMoves ==
  ASSUME NEW p \in Everyone, NEW r \in Reqs, ReqType, Begin(p, r)
  PROVE  ReqType' /\ Moves(p, r) /\ req[p] = Idle
  BY DEF Begin, ReqType, Moves, Everyone

LEMMA PassMoves ==
  ASSUME NEW p \in Everyone, NEW r \in Reqs, ReqType, req' = [req EXCEPT ![p] = r], UNCHANGED requests
  PROVE  ReqType' /\ Moves(p, r)
  BY DEF ReqType, Moves, Everyone

LEMMA DoneMoves ==
  ASSUME NEW p \in Everyone, ReqType, Done(p)
  PROVE  ReqType' /\ Moves(p, Idle)
  <1>1. Idle \in Reqs
    BY DEF Reqs
  <1> QED
    BY <1>1, PassMoves DEF Done

\* What a request is, by what it is doing.
LEMMA ReqShapes ==
  ASSUME NEW r \in Reqs
  PROVE  /\ r.at = "insert" => r \in [at : {"insert"}, code : Codes, first : BOOLEAN, version : Nat]
         /\ r.at \in {"clear", "set", "remove"} => r \in [at : {"clear", "set", "remove"}, code : Codes, version : Nat]
         /\ r.at = "form" => r \in [at : {"form"}, kind : Kinds, page : Maps, new : BOOLEAN, rev : Nat]
         /\ r.at = "save" => r \in [at : {"save"}, kind : Kinds, new : BOOLEAN, form : Maps, doc : ItemDocs, rev : Nat]
         /\ r.at = "upsert" => r \in [at : {"upsert"}, field : Fields, value : {"off", "on"}]
  BY DEF Reqs, Idle

-----------------------------------------------------------------------------
(* The languages.                                                          *)

LangAts == {"insert", "clear", "set", "remove"}

\* A step that leaves the languages alone, and is not the end of a change of
\* default.
LEMMA LangKept ==
  ASSUME NEW p \in Everyone, NEW r \in Reqs, ReqType, Moves(p, r), req[p].at # "set",
         UNCHANGED languageVars, LangType, LangInv, LangReq(p)'
  PROVE  LangType' /\ LangInv'
  <1>1. LangType'
    BY DEF LangType, languageVars
  <1>2. LangsOK'
    <2>1. Settled' => Settled
      <3>1. ASSUME NEW q \in Threads, \A t \in Threads : req'[t].at # "set" PROVE req[q].at # "set"
        BY <3>1 DEF Moves, Everyone
      <3> QED
        BY <3>1 DEF Settled, languageVars
    <2> QED
      BY <2>1 DEF LangInv, LangsOK, languageVars
  <1>3. ASSUME NEW q \in Everyone PROVE LangReq(q)'
    <2>1. CASE q = p
      BY <2>1
    <2>2. CASE q # p
      <3>1. req'[q] = req[q] /\ LangReq(q)
        BY <2>2 DEF Moves, LangInv
      <3> QED
        BY <3>1 DEF LangReq, languageVars, Configured
    <2> QED
      BY <2>1, <2>2
  <1> QED
    BY <1>1, <1>2, <1>3 DEF LangInv

\* A request that neither reads nor writes the languages holds nothing of them.
LEMMA NotOfLanguages ==
  ASSUME NEW p, req'[p].at \notin LangAts
  PROVE  LangReq(p)'
  BY DEF LangReq, LangAts

LEMMA LangQuiet ==
  ASSUME NEW p \in Everyone, NEW r \in Reqs, ReqType, Moves(p, r), req[p].at # "set", r.at \notin LangAts,
         UNCHANGED languageVars, LangType, LangInv
  PROVE  LangType' /\ LangInv'
  <1>1. LangReq(p)'
    BY NotOfLanguages DEF Moves
  <1> QED
    BY <1>1, LangKept

\* After a write of the languages, whoever had read them before is behind.
LEMMA Behind ==
  ASSUME NEW p \in Everyone, NEW r \in Reqs, ReqType, Moves(p, r), LangType, LangInv,
         version' = version + 1, LangReq(p)', LangsOK'
  PROVE  LangInv'
  <1>1. ASSUME NEW q \in Everyone, q # p PROVE LangReq(q)'
    <2>1. req'[q] = req[q] /\ LangReq(q) /\ version \in Nat /\ req[q] \in Reqs
      BY <1>1 DEF Moves, LangInv, LangType, ReqType, Everyone
    <2>2. req[q].at \in {"clear", "set"} => q \in Threads
      BY <2>1 DEF LangReq
    <2>3. CASE req[q].at \notin LangAts
      BY <2>1, <2>3, NotOfLanguages
    <2>4. CASE req[q].at \in LangAts
      <3>1. req[q].version \in Nat
        BY <2>1, <2>4, ReqShapes DEF LangAts
      <3>2. req[q].version <= version
        BY <2>1, <2>4 DEF LangReq, LangAts
      <3>3. req[q].version <= version' /\ req[q].version # version'
        BY <3>1, <3>2, <2>1
      <3> QED
        BY <2>1, <2>2, <3>3 DEF LangReq
    <2> QED
      BY <2>3, <2>4
  <1> QED
    BY <1>1 DEF LangInv

LEMMA AddLanguageLangs ==
  ASSUME NEW p \in Threads, NEW c \in Codes, AddLanguage(p, c), ReqType, LangType, LangInv
  PROVE  ReqType' /\ LangType' /\ LangInv'
  <1> DEFINE r == [at |-> "insert", code |-> c, first |-> langs = {}, version |-> version]
  <1>1. p \in Everyone /\ r \in Reqs /\ r.at = "insert"
    BY DEF Everyone, Reqs, LangType
  <1>2. Begin(p, r) /\ UNCHANGED languageVars /\ c \notin Configured
    BY DEF AddLanguage
  <1> HIDE DEF r
  <1>3. ReqType' /\ Moves(p, r) /\ req[p].at # "set"
    BY <1>1, <1>2, BeginMoves DEF Idle
  <1>4. r.code = c /\ r.version = version /\ (r.first <=> langs = {})
    BY DEF r
  <1>5. LangReq(p)'
    <2>1. req'[p] = r /\ langs' = langs /\ version' = version /\ version \in Nat
      BY <1>2, <1>3 DEF Moves, languageVars, LangType
    <2>2. version <= version
      BY <2>1
    <2>3. Configured' = Configured
      BY <2>1 DEF Configured
    <2> QED
      BY <1>1, <1>2, <1>4, <2>1, <2>2, <2>3 DEF LangReq
  <1> QED
    BY <1>1, <1>2, <1>3, <1>5, LangKept

LEMMA SeedLanguagesLangs ==
  ASSUME NEW s \in Servers, SeedLanguages(s), ReqType, LangType, LangInv
  PROVE  ReqType' /\ LangType' /\ LangInv'
  <1> DEFINE r == [at |-> "insert", code |-> English, first |-> TRUE, version |-> version]
  <1>1. s \in Everyone /\ r \in Reqs /\ r.at = "insert"
    BY SiteAssumption DEF Everyone, Reqs, LangType
  <1>2. Begin(s, r) /\ UNCHANGED languageVars /\ langs = {}
    BY DEF SeedLanguages
  <1>3. r.code = English /\ r.version = version /\ r.first = TRUE
    BY DEF r
  <1> HIDE DEF r
  <1>4. ReqType' /\ Moves(s, r) /\ req[s].at # "set"
    BY <1>1, <1>2, BeginMoves DEF Idle
  <1>5. LangReq(s)'
    BY <1>1, <1>2, <1>3, <1>4 DEF LangReq, Moves, languageVars, Configured, LangType
  <1> QED
    BY <1>1, <1>2, <1>4, <1>5, LangKept

LEMMA ChooseDefaultLangs ==
  ASSUME NEW p \in Threads, NEW c \in Codes, ChooseDefault(p, c), ReqType, LangType, LangInv
  PROVE  ReqType' /\ LangType' /\ LangInv'
  <1> DEFINE r == [at |-> "clear", code |-> c, version |-> version]
             found == {d \in langs : d.code = c}
  <1>1. p \in Everyone /\ r \in Reqs /\ r.at = "clear" /\ r.code = c /\ r.version = version
    BY DEF Everyone, Reqs, LangType
  <1>2. Begin(p, r) /\ UNCHANGED languageVars /\ Cardinality(found) = 1
    BY DEF ChooseDefault
  <1>3. \E d \in langs : found = {d}
    <2>1. IsFiniteSet(found)
      BY FS_Subset DEF LangType
    <2>2. found \subseteq langs
      OBVIOUS
    <2> HIDE DEF found
    <2> QED
      BY <2>1, <2>2, <1>2, FS_Singleton
  <1> HIDE DEF r
  <1>4. ReqType' /\ Moves(p, r) /\ req[p].at # "set"
    BY <1>1, <1>2, BeginMoves DEF Idle
  <1>5. LangReq(p)'
    BY <1>1, <1>2, <1>3, <1>4 DEF LangReq, Moves, languageVars, LangType
  <1> QED
    BY <1>1, <1>2, <1>4, <1>5, LangKept

LEMMA RemoveLanguageLangs ==
  ASSUME NEW p \in Threads, NEW c \in Codes, RemoveLanguage(p, c), ReqType, LangType, LangInv
  PROVE  ReqType' /\ LangType' /\ LangInv'
  <1> DEFINE r == [at |-> "remove", code |-> c, version |-> version]
  <1>1. p \in Everyone /\ r \in Reqs /\ r.at = "remove" /\ r.code = c /\ r.version = version
    BY DEF Everyone, Reqs, LangType
  <1>2. Begin(p, r) /\ UNCHANGED languageVars /\ \E d \in langs : d.code = c /\ ~d.default
    BY DEF RemoveLanguage
  <1> HIDE DEF r
  <1>3. ReqType' /\ Moves(p, r) /\ req[p].at # "set"
    BY <1>1, <1>2, BeginMoves DEF Idle
  <1>4. LangReq(p)'
    BY <1>1, <1>2, <1>3 DEF LangReq, Moves, languageVars, LangType
  <1> QED
    BY <1>1, <1>2, <1>3, <1>4, LangKept

\* What a write of the languages leaves for the other conditions.
LEMMA WriteLangsParts ==
  ASSUME NEW v, NEW new, WriteLangs(v, new), LangType
  PROVE  /\ langs' = new /\ version' = version + 1 /\ version' \in Nat /\ version' # 0
         /\ (raced' => raced \/ v # version) /\ (~raced' => ~raced /\ v = version) /\ raced' \in BOOLEAN
  <1>1. langs' = new /\ version' = version + 1 /\ version \in Nat
    BY DEF WriteLangs, LangType
  <1>2. raced' = (raced \/ v # version)
    BY DEF WriteLangs
  <1>3. (raced' => raced \/ v # version) /\ (~raced' => ~raced /\ v = version) /\ raced' \in BOOLEAN
    BY <1>2, Zenon
  <1> QED
    BY <1>1, <1>3

\* The first language is the default; another one leaves the default as it is.
LEMMA InsertLanguageLangs ==
  ASSUME NEW p \in Everyone, InsertLanguage(p), ReqType, LangType, LangInv
  PROVE  ReqType' /\ LangType' /\ LangInv'
  <1> DEFINE n == [id |-> lastId + 1, code |-> req[p].code, default |-> req[p].first]
  <1>1. req[p] \in [at : {"insert"}, code : Codes, first : BOOLEAN, version : Nat] /\ LangReq(p)
    BY ReqShapes DEF ReqType, Everyone, InsertLanguage, LangInv
  <1>2. lastId' = lastId + 1 /\ broken' = broken /\ lastId < MaxDocs
    BY DEF InsertLanguage
  <1>3. WriteLangs(req[p].version, langs \cup {n})
    BY <1>2 DEF InsertLanguage
  <1>4. n \in LangRows /\ n.id = lastId' /\ n.code = req[p].code /\ (n.default <=> req[p].first)
    BY <1>1, <1>2, SiteAssumption DEF LangRows, LangType
  <1>5. \A d \in langs : d.id \in Nat /\ d.id <= lastId /\ d \in LangRows
    BY DEF LangType, LangRows
  <1>6. lastId \in Nat /\ lastId' \in 0 .. MaxDocs
    BY <1>2, SiteAssumption DEF LangType
  <1> HIDE DEF n
  <1>7. langs' = langs \cup {n} /\ version' = version + 1 /\ version' \in Nat /\ version' # 0
        /\ (~raced' => ~raced /\ req[p].version = version) /\ raced' \in BOOLEAN
    BY <1>3, WriteLangsParts
  <1>8. Idle \in Reqs /\ ReqType' /\ Moves(p, Idle)
    BY DoneMoves DEF Reqs, InsertLanguage
  <1>9. LangType'
    <2>1. \A d \in langs : d.id < lastId'
      BY <1>2, <1>5, <1>6
    <2>2. \A d \in langs' : d.id <= lastId'
      BY <2>1, <1>4, <1>5, <1>6, <1>7
    <2>3. \A d, e \in langs' : d.id = e.id => d = e
      BY <2>1, <1>4, <1>5, <1>6, <1>7 DEF LangType
    <2>4. IsFiniteSet(langs')
      BY <1>7, FS_AddElement DEF LangType
    <2>5. langs' \subseteq LangRows /\ broken' \in BOOLEAN
      BY <1>2, <1>4, <1>5, <1>7 DEF LangType
    <2> QED
      BY <2>2, <2>3, <2>4, <2>5, <1>6, <1>7 DEF LangType
  <1>10. LangsOK'
    <2>1. ASSUME ~raced' PROVE req[p].code \notin Configured /\ (req[p].first <=> langs = {})
      BY <2>1, <1>1, <1>7 DEF LangReq
    <2>2. ASSUME ~raced', NEW d \in langs', NEW e \in langs', d.code = e.code PROVE d = e
      <3>1. \A x \in langs : x.code # n.code
        BY <2>1, <2>2, <1>4 DEF Configured
      <3>2. ~raced
        BY <2>2, <1>7
      <3> QED
        BY <3>1, <3>2, <2>2, <1>7 DEF LangInv, LangsOK
    <2>3. ASSUME Settled' PROVE \E d \in langs' : {e \in langs' : e.default} = {d}
      <3>1. ~raced' /\ ~broken' /\ \A q \in Threads : req'[q].at # "set"
        BY <2>3 DEF Settled
      <3>2. CASE langs = {}
        <4>1. langs' = {n} /\ n.default
          BY <3>1, <3>2, <2>1, <1>4, <1>7
        <4> QED
          BY <4>1
      <3>3. CASE langs # {}
        <4>1. ~n.default
          BY <3>1, <3>3, <2>1, <1>4
        <4>2. version # 0 /\ version \in Nat
          BY <3>3 DEF LangInv, LangsOK, LangType
        <4>3. \A q \in Threads : req[q].at # "set"
          BY <3>1, <1>1, <1>8 DEF Moves, Everyone
        <4>4. ~raced /\ ~broken
          BY <3>1, <1>2, <1>7
        <4>5. Settled
          BY <4>2, <4>3, <4>4 DEF Settled
        <4>6. PICK d \in langs : {e \in langs : e.default} = {d}
          BY <4>5 DEF LangInv, LangsOK
        <4>7. {e \in langs' : e.default} = {d}
          BY <4>1, <4>6, <1>7
        <4> QED
          BY <4>7, <1>7
      <3> QED
        BY <3>2, <3>3
    <2> QED
      BY <2>2, <2>3, <1>7 DEF LangsOK
  <1>11. LangReq(p)'
    BY <1>8, NotOfLanguages DEF Moves, Idle, LangAts
  <1> QED
    BY <1>7, <1>8, <1>9, <1>10, <1>11, Behind

\* A row of the collection, its default flag at b.
LEMMA WithDefault ==
  ASSUME NEW d \in LangRows, NEW b \in BOOLEAN
  PROVE  LET e == [d EXCEPT !.default = b]
         IN  e \in LangRows /\ e.id = d.id /\ e.code = d.code /\ (e.default <=> b)
  BY DEF LangRows

\* While a change of default is under way no language is the default, and the
\* one chosen is still there.
LEMMA ClearDefaultLangs ==
  ASSUME NEW p \in Everyone, ClearDefault(p), ReqType, LangType, LangInv
  PROVE  ReqType' /\ LangType' /\ LangInv'
  <1> DEFINE cleared(d) == [d EXCEPT !.default = FALSE]
             new == {cleared(d) : d \in langs}
             r == [at |-> "set", code |-> req[p].code, version |-> version']
             image == [d \in langs |-> cleared(d)]
  <1>1. req[p] \in [at : {"clear", "set", "remove"}, code : Codes, version : Nat] /\ LangReq(p) /\ req[p].at = "clear"
    BY ReqShapes DEF ReqType, Everyone, ClearDefault, LangInv
  <1>2. WriteLangs(req[p].version, new) /\ lastId' = lastId /\ broken' = broken
    BY DEF ClearDefault
  <1>3. langs' = new /\ version' = version + 1 /\ version' \in Nat /\ version' # 0
        /\ (~raced' => ~raced /\ req[p].version = version) /\ raced' \in BOOLEAN
    <2> HIDE DEF new
    <2> QED
      BY <1>2, WriteLangsParts
  <1>4. r \in Reqs /\ r.at = "set" /\ r.code = req[p].code /\ r.version = version'
    BY <1>1, <1>3 DEF Reqs
  <1>5. ReqType' /\ Moves(p, r)
    <2>1. req' = [req EXCEPT ![p] = r] /\ UNCHANGED requests
      BY DEF ClearDefault
    <2> HIDE DEF r
    <2> QED
      BY <2>1, <1>4, PassMoves
  <1>6. \A d \in langs : /\ cleared(d) \in LangRows /\ cleared(d).id = d.id
                         /\ cleared(d).code = d.code /\ ~cleared(d).default
    BY WithDefault DEF LangType
  <1>7. IsFiniteSet(new)
    <2>1. image \in Surjection(langs, new)
      BY DEF Surjection
    <2> HIDE DEF image, new
    <2> QED
      BY <2>1, FS_Surjection DEF LangType
  <1> HIDE DEF cleared, r, image
  <1>8. LangType'
    <2>1. \A e \in new : e \in LangRows /\ e.id <= lastId
      BY <1>6 DEF LangType
    <2>2. \A d, e \in new : d.id = e.id => d = e
      BY <1>6 DEF LangType
    <2> HIDE DEF new
    <2> QED
      BY <2>1, <2>2, <1>2, <1>3, <1>7 DEF LangType
  <1>9. p \in Threads
    BY <1>1 DEF LangReq
  <1>10. LangsOK'
    <2>1. ~Settled'
      BY <1>4, <1>5, <1>9 DEF Settled, Moves
    <2>2. ASSUME ~raced' PROVE \A d, e \in langs' : d.code = e.code => d = e
      <3>1. \A d, e \in langs : d.code = e.code => d = e
        BY <2>2, <1>3 DEF LangInv, LangsOK
      <3> QED
        BY <3>1, <1>3, <1>6
    <2> QED
      BY <2>1, <2>2, <1>3 DEF LangsOK
  <1>11. LangReq(p)'
    <2>1. req'[p] = r
      BY <1>5 DEF Moves
    <2>2. ASSUME ~raced' PROVE \E d \in langs' : {e \in langs' : e.code = r.code} = {d}
      <3>1. PICK d \in langs : {e \in langs : e.code = req[p].code} = {d}
        BY <2>2, <1>1, <1>3 DEF LangReq
      <3>2. {e \in langs' : e.code = r.code} = {cleared(d)}
        BY <3>1, <1>3, <1>4, <1>6
      <3> QED
        BY <3>1, <3>2, <1>3
    <2>3. \A e \in langs' : ~e.default
      BY <1>3, <1>6
    <2>4. r.version <= version'
      BY <1>3, <1>4
    <2> HIDE DEF new
    <2> QED
      BY <2>1, <2>2, <2>3, <2>4, <1>4, <1>9 DEF LangReq
  <1> HIDE DEF new
  <1> QED
    BY <1>3, <1>4, <1>5, <1>8, <1>10, <1>11, Behind

\* The one chosen becomes the default, unless the write fails.
LEMMA SetDefaultLangs ==
  ASSUME NEW p \in Everyone, SetDefault(p), ReqType, LangType, LangInv
  PROVE  ReqType' /\ LangType' /\ LangInv'
  <1> DEFINE found == {d \in langs : d.code = req[p].code}
  <1>1. req[p] \in [at : {"clear", "set", "remove"}, code : Codes, version : Nat] /\ LangReq(p) /\ req[p].at = "set"
    BY ReqShapes DEF ReqType, Everyone, SetDefault, LangInv
  <1>2. lastId' = lastId /\ Done(p)
    BY DEF SetDefault
  <1>3. Idle \in Reqs /\ ReqType' /\ Moves(p, Idle)
    BY <1>2, DoneMoves DEF Reqs
  <1>4. LangReq(p)'
    BY <1>3, NotOfLanguages DEF Moves, Idle, LangAts
  <1>5. CASE broken' = TRUE /\ UNCHANGED <<langs, version, raced>>
    <2>1. LangType'
      BY <1>2, <1>5 DEF LangType
    <2>2. LangsOK'
      BY <1>5 DEF LangInv, LangsOK, Settled
    <2>3. ASSUME NEW q \in Everyone, q # p PROVE LangReq(q)'
      <3>1. req'[q] = req[q] /\ LangReq(q)
        BY <2>3, <1>3 DEF Moves, LangInv
      <3> QED
        BY <3>1, <1>5 DEF LangReq, Configured
    <2> QED
      BY <2>1, <2>2, <2>3, <1>3, <1>4 DEF LangInv
  <1>6. CASE broken' = broken /\ found = {} /\ WriteLangs(req[p].version, langs)
    <2>1. langs' = langs /\ version' = version + 1 /\ version' \in Nat /\ version' # 0
          /\ (~raced' => ~raced /\ req[p].version = version) /\ raced' \in BOOLEAN
      BY <1>6, WriteLangsParts
    <2>2. raced'
      BY <2>1, <1>1, <1>6 DEF LangReq
    <2>3. LangType'
      BY <2>1, <1>2, <1>6 DEF LangType
    <2>4. LangsOK'
      BY <2>1, <2>2 DEF LangsOK, Settled
    <2> QED
      BY <2>1, <2>3, <2>4, <1>3, <1>4, Behind
  <1>7. ASSUME NEW d \in found, broken' = broken,
               WriteLangs(req[p].version, (langs \ {d}) \cup {[d EXCEPT !.default = TRUE]})
        PROVE  LangType' /\ LangInv'
    <2> DEFINE e == [d EXCEPT !.default = TRUE]
    <2>1. d \in langs /\ d \in LangRows /\ d.code = req[p].code
      BY <1>7 DEF LangType
    <2>2. e \in LangRows /\ e.id = d.id /\ e.code = d.code /\ e.default
      BY <2>1, WithDefault
    <2> HIDE DEF e
    <2>3. langs' = (langs \ {d}) \cup {e} /\ version' = version + 1 /\ version' \in Nat /\ version' # 0
          /\ (~raced' => ~raced /\ req[p].version = version) /\ raced' \in BOOLEAN
      BY <1>7, WriteLangsParts DEF e
    <2>4. LangType'
      <3>1. IsFiniteSet(langs')
        BY <2>3, FS_AddElement, FS_RemoveElement DEF LangType
      <3>2. langs' \subseteq LangRows /\ \A x \in langs' : x.id <= lastId
        BY <2>1, <2>2, <2>3 DEF LangType
      <3>3. \A x, y \in langs' : x.id = y.id => x = y
        BY <2>1, <2>2, <2>3 DEF LangType
      <3> QED
        BY <3>1, <3>2, <3>3, <2>3, <1>2, <1>7 DEF LangType
    <2>5. LangsOK'
      <3>1. ASSUME ~raced' PROVE \A x, y \in langs' : x.code = y.code => x = y
        <4>1. \A x, y \in langs : x.code = y.code => x = y
          BY <3>1, <2>3 DEF LangInv, LangsOK
        <4> QED
          BY <4>1, <2>1, <2>2, <2>3
      <3>2. ASSUME ~raced' PROVE {x \in langs' : x.default} = {e}
        <4>1. \A x \in langs : ~x.default
          BY <3>2, <2>3, <1>1 DEF LangReq
        <4> QED
          BY <4>1, <2>2, <2>3
      <3> QED
        BY <3>1, <3>2, <2>3 DEF LangsOK, Settled
    <2> QED
      BY <2>3, <2>4, <2>5, <1>3, <1>4, Behind
  <1> QED
    BY <1>3, <1>5, <1>6, <1>7 DEF SetDefault

\* The language that is removed is not the default.
LEMMA DropLanguageLangs ==
  ASSUME NEW p \in Everyone, DropLanguage(p), ReqType, LangType, LangInv
  PROVE  ReqType' /\ LangType' /\ LangInv'
  <1> DEFINE found == {d \in langs : d.code = req[p].code}
  <1>1. req[p] \in [at : {"clear", "set", "remove"}, code : Codes, version : Nat] /\ LangReq(p) /\ req[p].at = "remove"
    BY ReqShapes DEF ReqType, Everyone, DropLanguage, LangInv
  <1>2. lastId' = lastId /\ broken' = broken /\ Done(p)
    BY DEF DropLanguage
  <1>3. Idle \in Reqs /\ ReqType' /\ Moves(p, Idle) /\ Idle.at \notin LangAts
    BY <1>2, DoneMoves DEF Reqs, Idle, LangAts
  <1>4. LangReq(p)'
    BY <1>3, NotOfLanguages DEF Moves
  <1>5. CASE UNCHANGED <<langs, version, raced>>
    <2>1. UNCHANGED languageVars
      BY <1>2, <1>5 DEF languageVars
    <2> QED
      BY <2>1, <1>1, <1>3, LangQuiet
  <1>6. ASSUME NEW d \in found, WriteLangs(req[p].version, langs \ {d})
        PROVE  LangType' /\ LangInv'
    <2>1. langs' = langs \ {d} /\ version' = version + 1 /\ version' \in Nat /\ version' # 0
          /\ (~raced' => ~raced /\ req[p].version = version) /\ raced' \in BOOLEAN
      BY <1>6, WriteLangsParts
    <2>2. LangType'
      <3>1. IsFiniteSet(langs')
        BY <2>1, FS_RemoveElement DEF LangType
      <3> QED
        BY <3>1, <2>1, <1>2 DEF LangType
    <2>3. LangsOK'
      <3>1. ASSUME ~raced' PROVE \A x, y \in langs : x.code = y.code => x = y
        BY <3>1, <2>1 DEF LangInv, LangsOK
      <3>2. ASSUME Settled' PROVE \E x \in langs' : {y \in langs' : y.default} = {x}
        <4>1. ~raced' /\ ~broken' /\ \A q \in Threads : req'[q].at # "set"
          BY <3>2 DEF Settled
        <4>2. PICK x \in langs : x.code = req[p].code /\ ~x.default
          BY <4>1, <2>1, <1>1 DEF LangReq
        <4>3. ~d.default
          BY <4>1, <4>2, <3>1
        <4>4. \A q \in Threads : req[q].at # "set"
          BY <4>1, <1>1, <1>3 DEF Moves, Everyone
        <4>5. version # 0 /\ version \in Nat /\ ~raced /\ ~broken
          BY <4>1, <4>2, <2>1, <1>2 DEF LangInv, LangsOK, LangType
        <4>6. Settled
          BY <4>4, <4>5 DEF Settled
        <4>7. PICK y \in langs : {z \in langs : z.default} = {y}
          BY <4>6 DEF LangInv, LangsOK
        <4>8. {z \in langs' : z.default} = {y} /\ y \in langs'
          BY <4>3, <4>7, <2>1
        <4> QED
          BY <4>8
      <3> QED
        BY <3>1, <3>2, <2>1 DEF LangsOK
    <2> QED
      BY <2>1, <2>2, <2>3, <1>3, <1>4, Behind
  <1> QED
    BY <1>3, <1>5, <1>6 DEF DropLanguage

-----------------------------------------------------------------------------
(* The categories and the menu items.                                      *)

LEMMA ItemKept ==
  ASSUME NEW p \in Everyone, NEW r \in Reqs, Moves(p, r), UNCHANGED <<itemVars, langs>>,
         ItemType, ItemInv, ItemReq(p)'
  PROVE  ItemType' /\ ItemInv'
  <1>1. items' = items /\ meant' = meant /\ itemRev' = itemRev /\ overtaken' = overtaken /\ langs' = langs
    BY DEF itemVars
  <1>2. ItemType' /\ TextsOK'
    BY <1>1 DEF ItemType, ItemInv, TextsOK
  <1>3. ASSUME NEW q \in Everyone, q # p PROVE ItemReq(q)'
    <2>1. req'[q] = req[q] /\ ItemReq(q) /\ Configured' = Configured
      BY <1>1, <1>3 DEF Moves, ItemInv, Configured
    <2> QED
      BY <2>1, <1>1 DEF ItemReq
  <1> QED
    BY <1>2, <1>3 DEF ItemInv

LEMMA NotOfItems ==
  ASSUME NEW p, req'[p].at \notin {"form", "save"}
  PROVE  ItemReq(p)'
  BY DEF ItemReq

LEMMA ItemQuiet ==
  ASSUME NEW p \in Everyone, NEW r \in Reqs, Moves(p, r), r.at \notin {"form", "save"},
         UNCHANGED <<itemVars, langs>>, ItemType, ItemInv
  PROVE  ItemType' /\ ItemInv'
  <1>1. ItemReq(p)'
    BY NotOfItems DEF Moves
  <1> QED
    BY <1>1, ItemKept

\* After a write of the items or of the languages, every form is behind.
LEMMA FormsBehind ==
  ASSUME NEW p \in Everyone, NEW r \in Reqs, ReqType, Moves(p, r), r.at \notin {"form", "save"},
         ItemType, ItemInv, itemRev' = itemRev + 1, TextsOK'
  PROVE  ItemInv'
  <1>1. ASSUME NEW q \in Everyone, q # p PROVE ItemReq(q)'
    <2>1. req'[q] = req[q] /\ ItemReq(q) /\ itemRev \in Nat /\ req[q] \in Reqs
      BY <1>1 DEF Moves, ItemInv, ItemType, ReqType, Everyone
    <2>2. CASE req[q].at \notin {"form", "save"}
      BY <2>1, <2>2, NotOfItems
    <2>3. CASE req[q].at \in {"form", "save"}
      <3>1. req[q].rev \in Nat
        BY <2>1, <2>3, ReqShapes
      <3>2. req[q].rev <= itemRev
        BY <2>1, <2>3 DEF ItemReq
      <3>3. req[q].rev <= itemRev' /\ req[q].rev # itemRev'
        BY <3>1, <3>2, <2>1
      <3>4. req[q].at = "save" => ~req[q].doc.gone
        BY <2>1 DEF ItemReq
      <3> QED
        BY <2>1, <3>3, <3>4 DEF ItemReq
    <2> QED
      BY <2>2, <2>3
  <1>2. ItemReq(p)'
    BY NotOfItems DEF Moves
  <1> QED
    BY <1>1, <1>2 DEF ItemInv

\* Writing the languages leaves the items as they are.
LEMMA WriteLangsItems ==
  ASSUME NEW p \in Everyone, NEW r \in Reqs, ReqType, Moves(p, r), r.at \notin {"form", "save"},
         ItemType, ItemInv, NEW v, NEW new, WriteLangs(v, new)
  PROVE  ItemType' /\ ItemInv'
  <1>1. items' = items /\ meant' = meant /\ itemRev' = itemRev + 1 /\ overtaken' = overtaken
    BY DEF WriteLangs
  <1>2. ItemType' /\ TextsOK'
    BY <1>1 DEF ItemType, ItemInv, TextsOK
  <1> QED
    BY <1>1, <1>2, FormsBehind

\* A form shows every language the site has.
LEMMA OpenFormItems ==
  ASSUME NEW p \in Threads, NEW k \in Kinds, NEW page \in Maps, DOMAIN page = Configured, OpenForm(p, k, page),
         ReqType, LangType, LangInv, ItemType, ItemInv
  PROVE  ReqType' /\ LangType' /\ LangInv' /\ ItemType' /\ ItemInv'
  <1> DEFINE r == [at |-> "form", kind |-> k, page |-> page, new |-> items[k].gone, rev |-> itemRev]
  <1>1. items[k].gone \in BOOLEAN /\ itemRev \in Nat
    BY DEF ItemType, ItemDocs
  <1>2. p \in Everyone /\ r \in Reqs
    BY <1>1 DEF Everyone, Reqs
  <1>3. Begin(p, r) /\ UNCHANGED <<languageVars, itemVars>> /\ langs' = langs
    BY DEF OpenForm, languageVars
  <1>4. r.at = "form" /\ r.kind = k /\ r.page = page /\ (r.new <=> items[k].gone) /\ r.rev = itemRev
    OBVIOUS
  <1> HIDE DEF r
  <1>5. ReqType' /\ Moves(p, r) /\ req[p].at = "idle"
    BY <1>2, <1>3, BeginMoves DEF Idle
  <1>6. LangType' /\ LangInv'
    BY <1>2, <1>3, <1>4, <1>5, LangQuiet DEF LangAts
  <1>7. ItemReq(p)'
    <2>1. req'[p] = r /\ items' = items /\ itemRev' = itemRev /\ itemRev <= itemRev
      BY <1>1, <1>3, <1>5 DEF Moves, itemVars
    <2>2. Configured' = Configured
      BY <1>3 DEF Configured
    <2> QED
      BY <1>4, <2>1, <2>2 DEF ItemReq
  <1> QED
    BY <1>2, <1>3, <1>5, <1>6, <1>7, ItemKept

LEMMA MapsOfConfigured ==
  ASSUME LangType, NEW f, f \in [Configured -> Texts]
  PROVE  f \in Maps /\ DOMAIN f = Configured
  <1>1. Configured \in SUBSET Codes
    BY DEF Configured, LangType, LangRows
  <1> QED
    BY <1>1 DEF Maps

LEMMA MapOK ==
  ASSUME NEW m \in Maps
  PROVE  DOMAIN m \subseteq Codes /\ m \in [DOMAIN m -> Texts] /\ \A c : ExactLangValue(m, c) \in Texts
  BY DEF Maps, ExactLangValue, Texts

\* Every page a form is opened with.
LEMMA FormsItems ==
  ASSUME NEW p \in Threads, ReqType, LangType, LangInv, ItemType, ItemInv,
         NewCategoryForm(p) \/ EditCategoryForm(p) \/ NewMenuForm(p) \/ EditMenuForm(p)
  PROVE  ReqType' /\ LangType' /\ LangInv' /\ ItemType' /\ ItemInv'
  <1> DEFINE blank == [c \in Configured |-> ""]
  <1>1. blank \in Maps /\ DOMAIN blank = Configured
    <2>1. blank \in [Configured -> Texts]
      BY DEF Texts
    <2> HIDE DEF blank
    <2> QED
      BY <2>1, MapsOfConfigured
  <1>2. ASSUME NEW k \in Kinds PROVE StoredName(k) \in Maps /\ DOMAIN StoredName(k) = Configured
    <2>1. items[k].name \in Maps
      BY DEF ItemType, ItemDocs
    <2>2. StoredName(k) \in [Configured -> Texts]
      BY <2>1, MapOK DEF StoredName
    <2> QED
      BY <2>2, MapsOfConfigured
  <1>3. "category" \in Kinds /\ "menu" \in Kinds
    BY DEF Kinds
  <1>4. CASE OpenForm(p, "category", blank) \/ OpenForm(p, "menu", blank)
    <2> HIDE DEF blank
    <2> QED
      BY <1>1, <1>3, <1>4, OpenFormItems
  <1>5. CASE OpenForm(p, "category", StoredName("category")) \/ OpenForm(p, "menu", StoredName("menu"))
    BY <1>2, <1>3, <1>5, OpenFormItems
  <1> QED
    BY <1>4, <1>5 DEF NewCategoryForm, EditCategoryForm, NewMenuForm, EditMenuForm

\* A form that nobody has overtaken is stored as it was submitted: it has a
\* field for every language that is read again.
LEMMA SubmitItems ==
  ASSUME NEW p \in Threads, NEW codes \in SUBSET Codes, NEW typed \in [codes -> Texts],
         NEW name, NEW enabled \in BOOLEAN, req[p].at = "form",
         name = [c \in Configured |-> ExactLangValue(Filled(p, typed), c)],
         Submit(p, Filled(p, typed), name, enabled),
         ReqType, LangType, LangInv, ItemType, ItemInv
  PROVE  ReqType' /\ LangType' /\ LangInv' /\ ItemType' /\ ItemInv'
  <1> DEFINE form == Filled(p, typed)
             doc == [name |-> name, enabled |-> enabled, gone |-> FALSE]
             r == [at |-> "save", kind |-> req[p].kind, new |-> req[p].new, form |-> form,
                   doc |-> doc, rev |-> req[p].rev]
  <1>1. req[p] \in [at : {"form"}, kind : Kinds, page : Maps, new : BOOLEAN, rev : Nat] /\ p \in Everyone
    BY ReqShapes DEF ReqType, Everyone
  <1>2. form \in Maps /\ DOMAIN form = DOMAIN req[p].page
    <2>1. DOMAIN req[p].page \in SUBSET Codes /\ req[p].page \in [DOMAIN req[p].page -> Texts]
      BY <1>1, MapOK
    <2>2. form \in [DOMAIN req[p].page -> Texts]
      BY <2>1 DEF Filled
    <2> HIDE DEF form
    <2> QED
      BY <2>1, <2>2 DEF Maps
  <1>3. name \in Maps /\ DOMAIN name = Configured
    <2>1. name \in [Configured -> Texts]
      BY <1>2, MapOK
    <2> QED
      BY <2>1, MapsOfConfigured
  <1>4. doc \in ItemDocs /\ doc.name = name /\ ~doc.gone
    BY <1>3 DEF ItemDocs
  <1>5. req' = [req EXCEPT ![p] = r] /\ UNCHANGED <<languageVars, itemVars, requests>> /\ langs' = langs
    BY DEF Submit, languageVars
  <1>6. \A c \in DOMAIN form : name[c] = form[c] \/ c \notin Configured
    BY DEF ExactLangValue
  <1> HIDE DEF form, doc
  <1>7. r \in Reqs /\ r.at = "save" /\ r.kind = req[p].kind /\ r.new = req[p].new /\ r.form = form
        /\ r.doc = doc /\ r.rev = req[p].rev
    BY <1>1, <1>2, <1>4 DEF Reqs
  <1> HIDE DEF r
  <1>8. ReqType' /\ Moves(p, r)
    BY <1>1, <1>5, <1>7, PassMoves
  <1>9. LangType' /\ LangInv'
    BY <1>1, <1>5, <1>7, <1>8, LangQuiet DEF LangAts
  <1>10. ItemReq(p)'
    <2>1. req'[p] = r /\ items' = items /\ itemRev' = itemRev /\ ItemReq(p)
      BY <1>1, <1>5, <1>8 DEF Moves, itemVars, ItemInv
    <2>2. r.rev <= itemRev
      BY <2>1, <1>7 DEF ItemReq
    <2>3. ASSUME r.rev = itemRev
          PROVE  /\ r.new <=> items[r.kind].gone
                 /\ \A c \in DOMAIN form : c \in DOMAIN name /\ name[c] = form[c]
      <3>1. DOMAIN req[p].page = Configured /\ (req[p].new <=> items[req[p].kind].gone)
        BY <2>1, <2>3, <1>7 DEF ItemReq
      <3> QED
        BY <3>1, <1>2, <1>3, <1>6, <1>7
    <2> QED
      BY <2>1, <2>2, <2>3, <1>4, <1>7 DEF ItemReq
  <1> QED
    BY <1>1, <1>5, <1>7, <1>8, <1>9, <1>10, ItemKept

\* A form is saved: the item is what its form says, unless the form is behind.
LEMMA WriteItemItems ==
  ASSUME NEW p \in Threads, NEW k \in Kinds, NEW doc \in ItemDocs, req[p].at = "save", req[p].kind = k,
         doc = req[p].doc \/ (doc.gone /\ ~req[p].new /\ items[k].gone),
         WriteItem(p, k, doc),
         ReqType, LangType, LangInv, ItemType, ItemInv
  PROVE  ReqType' /\ LangType' /\ LangInv' /\ ItemType' /\ ItemInv'
  <1> DEFINE r == req[p]
  <1>1. r \in [at : {"save"}, kind : Kinds, new : BOOLEAN, form : Maps, doc : ItemDocs, rev : Nat] /\ p \in Everyone
    BY ReqShapes DEF ReqType, Everyone
  <1>2. /\ items' = [items EXCEPT ![k] = doc] /\ meant' = [meant EXCEPT ![k] = r.form]
        /\ itemRev' = itemRev + 1 /\ Done(p) /\ UNCHANGED languageVars
    BY DEF WriteItem
  <1>3. (~overtaken' => ~overtaken /\ r.rev = itemRev) /\ overtaken' \in BOOLEAN
    <2>1. overtaken' = (overtaken \/ r.rev # itemRev)
      BY DEF WriteItem
    <2> QED
      BY <2>1, Zenon
  <1>4. Idle \in Reqs /\ ReqType' /\ Moves(p, Idle) /\ Idle.at \notin LangAts /\ Idle.at \notin {"form", "save"}
    BY <1>1, <1>2, DoneMoves DEF Reqs, Idle, LangAts
  <1>5. LangType' /\ LangInv'
    BY <1>1, <1>2, <1>4, LangQuiet
  <1>6. ItemType'
    BY <1>1, <1>2, <1>3 DEF ItemType
  <1>7. TextsOK'
    <2>1. SUFFICES ASSUME ~overtaken', NEW j \in Kinds, NEW c \in DOMAIN meant'[j]
                   PROVE  ~items'[j].gone /\ c \in DOMAIN items'[j].name /\ items'[j].name[c] = meant'[j][c]
      BY DEF TextsOK
    <2>2. CASE j # k
      <3>1. items'[j] = items[j] /\ meant'[j] = meant[j]
        BY <2>2, <1>2 DEF ItemType
      <3> QED
        BY <3>1, <2>1, <1>3 DEF ItemInv, TextsOK
    <2>3. CASE j = k
      <3>1. items'[j] = doc /\ meant'[j] = r.form
        BY <2>3, <1>2 DEF ItemType
      <3>2. ItemReq(p) /\ r.rev = itemRev
        BY <2>1, <1>1, <1>3 DEF ItemInv
      <3>3. r.new <=> items[k].gone
        BY <3>2 DEF ItemReq
      <3>4. doc = r.doc
        BY <3>3
      <3> QED
        BY <3>1, <3>2, <3>4, <2>1 DEF ItemReq
    <2> QED
      BY <2>2, <2>3
  <1> QED
    BY <1>1, <1>2, <1>4, <1>5, <1>6, <1>7, FormsBehind

LEMMA GoneOK == Gone \in ItemDocs /\ Gone.gone /\ NoDoc \in Maps /\ DOMAIN NoDoc = {}
  <1>1. NoDoc \in [{} -> Texts] /\ DOMAIN NoDoc = {}
    BY DEF NoDoc
  <1>2. NoDoc \in Maps
    BY <1>1 DEF Maps
  <1> QED
    BY <1>1, <1>2 DEF Gone, ItemDocs

LEMMA SavesItems ==
  ASSUME NEW p \in Threads, ReqType, LangType, LangInv, ItemType, ItemInv,
         CreateCategory(p) \/ UpdateCategory(p) \/ CreateMenuItem(p) \/ UpdateMenuItem(p)
  PROVE  ReqType' /\ LangType' /\ LangInv' /\ ItemType' /\ ItemInv'
  <1>1. req[p].at = "save" /\ "category" \in Kinds /\ "menu" \in Kinds
    BY DEF CreateCategory, UpdateCategory, CreateMenuItem, UpdateMenuItem, Kinds
  <1>2. req[p].doc \in ItemDocs /\ Gone \in ItemDocs /\ Gone.gone
    BY <1>1, ReqShapes, GoneOK DEF ReqType
  <1>3. PICK k \in Kinds, doc \in ItemDocs :
            /\ req[p].kind = k /\ WriteItem(p, k, doc)
            /\ doc = req[p].doc \/ (doc.gone /\ ~req[p].new /\ items[k].gone)
    <2>1. CASE CreateCategory(p) \/ CreateMenuItem(p)
      BY <2>1, <1>1, <1>2 DEF CreateCategory, CreateMenuItem
    <2>2. CASE UpdateCategory(p)
      BY <2>2, <1>1, <1>2 DEF UpdateCategory
    <2>3. CASE UpdateMenuItem(p)
      BY <2>3, <1>1, <1>2 DEF UpdateMenuItem
    <2> QED
      BY <2>1, <2>2, <2>3
  <1> QED
    BY <1>1, <1>3, WriteItemItems

LEMMA DeleteItems ==
  ASSUME NEW p \in Threads, NEW k \in Kinds, DeleteItem(p, k), ReqType, LangType, LangInv, ItemType, ItemInv
  PROVE  ReqType' /\ LangType' /\ LangInv' /\ ItemType' /\ ItemInv'
  <1>1. Idle \in Reqs /\ Idle.at \notin LangAts /\ Idle.at \notin {"form", "save"} /\ p \in Everyone
    BY DEF Reqs, Idle, LangAts, Everyone
  <1>2. /\ items' = [items EXCEPT ![k] = Gone] /\ meant' = [meant EXCEPT ![k] = NoDoc]
        /\ itemRev' = itemRev + 1 /\ overtaken' = overtaken /\ Begin(p, Idle) /\ UNCHANGED languageVars
    BY DEF DeleteItem
  <1>3. ReqType' /\ Moves(p, Idle) /\ req[p].at # "set"
    BY <1>1, <1>2, BeginMoves DEF Idle
  <1>4. LangType' /\ LangInv'
    BY <1>1, <1>2, <1>3, LangQuiet
  <1>5. ItemType'
    BY <1>2, GoneOK DEF ItemType
  <1>6. TextsOK'
    <2>1. \A j \in Kinds : j # k => items'[j] = items[j] /\ meant'[j] = meant[j]
      BY <1>2 DEF ItemType
    <2>2. DOMAIN meant'[k] = {}
      BY <1>2, GoneOK DEF ItemType
    <2> QED
      BY <2>1, <2>2, <1>2 DEF ItemInv, TextsOK
  <1> QED
    BY <1>1, <1>2, <1>3, <1>4, <1>5, <1>6, FormsBehind

-----------------------------------------------------------------------------
(* The settings and the secret.                                            *)

LEMMA SettingQuiet ==
  ASSUME UNCHANGED settingVars, SettingType, SettingInv
  PROVE  SettingType' /\ SettingInv'
  BY DEF settingVars, SettingType, SettingInv, SecretStored, SavedStored

LEMMA PutOK ==
  ASSUME NEW doc \in Docs, NEW f \in Fields \cup {"secret"}, NEW v \in Values
  PROVE  /\ Put(doc, f, v) \in Docs
         /\ DOMAIN Put(doc, f, v) = DOMAIN doc \cup {f}
         /\ Put(doc, f, v)[f] = v
         /\ \A g \in DOMAIN doc : g # f => Put(doc, f, v)[g] = doc[g]
  <1>1. DOMAIN doc \subseteq Fields \cup {"secret"} /\ doc \in [DOMAIN doc -> Values]
    BY DEF Docs
  <1>2. Put(doc, f, v) \in [DOMAIN doc \cup {f} -> Values]
    BY <1>1 DEF Put
  <1>3. DOMAIN doc \cup {f} \in SUBSET (Fields \cup {"secret"})
    BY <1>1
  <1>4. Put(doc, f, v) \in Docs
    BY <1>2, <1>3 DEF Docs
  <1> QED
    BY <1>4 DEF Put

LEMMA NoDocOK == NoDoc \in Docs /\ DOMAIN NoDoc = {}
  <1>1. NoDoc \in [{} -> Values] /\ DOMAIN NoDoc = {}
    BY DEF NoDoc
  <1> QED
    BY <1>1 DEF Docs

\* A read is of the first document.
LEMMA ReadIs ==
  ASSUME NEW f, SettingType
  PROVE  /\ settings # <<>> <=> 1 \in DOMAIN settings
         /\ 1 \in DOMAIN settings /\ f \in DOMAIN settings[1] => Read(f) = settings[1][f]
         /\ ~(1 \in DOMAIN settings /\ f \in DOMAIN settings[1]) => Read(f) = None
  BY DEF Read, SettingType

\* A new document is added at the end, and hides nothing.
LEMMA AddedDoc ==
  ASSUME SettingType, SettingInv, NEW doc \in Docs, "secret" \notin DOMAIN doc, settings' = Append(settings, doc),
         secret' = secret, NEW new \in Docs, saved' = new, "secret" \notin DOMAIN new,
         \A f \in DOMAIN new : f \in DOMAIN saved \/ (f \in DOMAIN doc /\ new[f] = doc[f])
  PROVE  SettingType' /\ SettingInv'
  <1>1. settings \in Seq(Docs) /\ settings' \in Seq(Docs) /\ settings # <<>> <=> 1 \in DOMAIN settings
    BY DEF SettingType
  <1>2. /\ DOMAIN settings' = 1 .. (Len(settings) + 1) /\ DOMAIN settings = 1 .. Len(settings)
        /\ Len(settings) \in Nat
        /\ \A i \in DOMAIN settings : settings'[i] = settings[i]
        /\ settings'[Len(settings) + 1] = doc
    BY <1>1
  <1>3. SettingType'
    BY <1>1, <1>2 DEF SettingType
  <1>4. SecretStored'
    <2>1. 1 \in DOMAIN settings => settings'[1] = settings[1] /\ 1 \in DOMAIN settings'
      BY <1>2
    <2> QED
      BY <2>1 DEF SettingInv, SecretStored
  <1>5. SavedStored'
    <2>1. settings' # <<>>
      BY <1>1, <1>2
    <2>2. ASSUME 2 \notin DOMAIN settings', NEW f \in DOMAIN new
          PROVE  1 \in DOMAIN settings' /\ f \in DOMAIN settings'[1] /\ settings'[1][f] = new[f]
      <3>1. Len(settings) = 0 /\ settings = <<>>
        BY <2>2, <1>1, <1>2
      <3>2. f \in DOMAIN doc /\ new[f] = doc[f]
        BY <3>1, <2>2 DEF SettingInv, SavedStored
      <3> QED
        BY <3>1, <3>2, <1>2
    <2> QED
      BY <2>1, <2>2 DEF SavedStored
  <1> QED
    BY <1>3, <1>4, <1>5 DEF SettingInv

\* The i-th document becomes doc, and the settings answered as saved become
\* new: the first document keeps its secret, and has what was saved.
Keeps(i, doc, new) ==
    /\ doc \in Docs /\ new \in Docs /\ "secret" \notin DOMAIN new
    /\ "secret" \in DOMAIN doc => doc["secret"] \in Servers
    /\ i = 1 /\ "secret" \in DOMAIN settings[1] => "secret" \in DOMAIN doc /\ doc["secret"] = settings[1]["secret"]
    /\ \A f \in DOMAIN new :
        \/ /\ f \in DOMAIN saved /\ new[f] = saved[f]
           /\ i = 1 /\ f \in DOMAIN settings[1] => f \in DOMAIN doc /\ doc[f] = settings[1][f]
        \/ i = 1 /\ f \in DOMAIN doc /\ doc[f] = new[f]

LEMMA ChangedDoc ==
  ASSUME SettingType, SettingInv, NEW i \in DOMAIN settings, NEW doc, NEW new, Keeps(i, doc, new),
         settings' = [settings EXCEPT ![i] = doc], secret' = secret, saved' = new
  PROVE  SettingType' /\ SettingInv'
  <1>1. settings \in Seq(Docs) /\ settings' \in Seq(Docs) /\ DOMAIN settings' = DOMAIN settings
    BY DEF SettingType, Keeps
  <1>2. settings'[i] = doc /\ \A j \in DOMAIN settings : j # i => settings'[j] = settings[j]
    BY <1>1
  <1>3. SettingType'
    BY <1>1, <1>2 DEF SettingType, Keeps
  <1>4. SecretStored'
    <2>1. ASSUME 1 \in DOMAIN settings, "secret" \in DOMAIN settings[1]
          PROVE  "secret" \in DOMAIN settings'[1] /\ settings'[1]["secret"] = settings[1]["secret"]
      BY <2>1, <1>2 DEF Keeps
    <2> QED
      BY <2>1, <1>1 DEF SettingInv, SecretStored
  <1>5. SavedStored'
    <2>1. settings' # <<>>
      BY <1>1
    <2>2. ASSUME 2 \notin DOMAIN settings', NEW f \in DOMAIN new
          PROVE  1 \in DOMAIN settings' /\ f \in DOMAIN settings'[1] /\ settings'[1][f] = new[f]
      <3>1. 1 \in DOMAIN settings /\ i = 1
        BY <2>2, <1>1
      <3>2. CASE f \in DOMAIN saved /\ new[f] = saved[f]
                 /\ (f \in DOMAIN settings[1] => f \in DOMAIN doc /\ doc[f] = settings[1][f])
        <4>1. f \in DOMAIN settings[1] /\ settings[1][f] = saved[f]
          BY <3>2, <2>2, <1>1 DEF SettingInv, SavedStored
        <4> QED
          BY <4>1, <3>1, <3>2, <1>1, <1>2
      <3>3. CASE f \in DOMAIN doc /\ doc[f] = new[f]
        BY <3>1, <3>3, <1>1, <1>2
      <3> QED
        BY <2>2, <3>1, <3>2, <3>3 DEF Keeps
    <2> QED
      BY <2>1, <2>2 DEF SavedStored
  <1> QED
    BY <1>3, <1>4, <1>5 DEF SettingInv

\* A step that writes no language and no item.
SideQuiet == UNCHANGED <<languageVars, itemVars>>

LEMMA SettingsSideQuiet ==
  ASSUME NEW p \in Everyone, NEW r \in Reqs, ReqType, Moves(p, r), req[p].at # "set",
         r.at \notin LangAts, r.at \notin {"form", "save"}, SideQuiet,
         LangType, LangInv, ItemType, ItemInv
  PROVE  LangType' /\ LangInv' /\ ItemType' /\ ItemInv'
  <1>1. UNCHANGED languageVars /\ UNCHANGED <<itemVars, langs>>
    BY DEF SideQuiet, languageVars
  <1> QED
    BY <1>1, LangQuiet, ItemQuiet

SiteIInv == ReqType /\ LangType /\ LangInv /\ ItemType /\ ItemInv /\ SettingType /\ SettingInv

LEMMA SaveSettingStep ==
  ASSUME NEW p \in Threads, NEW f \in Fields, NEW v \in {"off", "on"}, SiteIInv, SaveSetting(p, f, v)
  PROVE  SiteIInv'
  <1> DEFINE r == [at |-> "upsert", field |-> f, value |-> v]
  <1>1. ReqType /\ LangType /\ LangInv /\ ItemType /\ ItemInv /\ SettingType /\ SettingInv
    BY DEF SiteIInv
  <1>2. SideQuiet /\ secret' = secret /\ p \in Everyone
    BY DEF SaveSetting, SideQuiet, Everyone
  <1>3. v \in Values /\ f # "secret" /\ f \in Fields \cup {"secret"} /\ settings \in Seq(Docs)
        /\ saved \in Docs /\ "secret" \notin DOMAIN saved
    BY <1>1, SiteAssumption DEF Values, SettingType
  <1>4. CASE settings # <<>> /\ Begin(p, Idle) /\ settings' = Set(f, v) /\ saved' = Put(saved, f, v)
    <2>1. Idle \in Reqs /\ Idle.at \notin LangAts /\ Idle.at \notin {"form", "save"}
      BY DEF Reqs, Idle, LangAts
    <2>2. ReqType' /\ Moves(p, Idle) /\ req[p].at # "set"
      BY <1>1, <1>2, <1>4, <2>1, BeginMoves DEF Idle
    <2>3. LangType' /\ LangInv' /\ ItemType' /\ ItemInv'
      BY <1>1, <1>2, <2>1, <2>2, SettingsSideQuiet
    <2>4. 1 \in DOMAIN settings /\ settings[1] \in Docs /\ settings' = [settings EXCEPT ![1] = Put(settings[1], f, v)]
      BY <1>3, <1>4 DEF Set
    <2>5. PICK old \in Docs : old = settings[1]
      BY <2>4
    <2> DEFINE doc == Put(old, f, v)
               new == Put(saved, f, v)
    <2>6. /\ doc \in Docs /\ DOMAIN doc = DOMAIN old \cup {f} /\ doc[f] = v
          /\ \A g \in DOMAIN old : g # f => doc[g] = old[g]
      BY <1>3, PutOK
    <2>7. /\ new \in Docs /\ DOMAIN new = DOMAIN saved \cup {f} /\ new[f] = v
          /\ \A g \in DOMAIN saved : g # f => new[g] = saved[g]
      BY <1>3, PutOK
    <2>8. saved' = new /\ settings' = [settings EXCEPT ![1] = doc]
      BY <1>4, <2>4, <2>5
    <2> HIDE DEF doc, new
    <2>9. Keeps(1, doc, new)
      <3>1. "secret" \in DOMAIN old => old["secret"] \in Servers
        BY <1>1, <2>4, <2>5 DEF SettingType
      <3> QED
        BY <1>3, <2>5, <2>6, <2>7, <3>1 DEF Keeps
    <2>14. SettingType' /\ SettingInv'
      BY <1>1, <1>2, <2>4, <2>8, <2>9, ChangedDoc
    <2> QED
      BY <2>2, <2>3, <2>14 DEF SiteIInv
  <1>5. CASE Begin(p, r) /\ UNCHANGED <<settings, saved>>
    <2>1. r \in Reqs /\ r.at \notin LangAts /\ r.at \notin {"form", "save"}
      BY DEF Reqs, LangAts
    <2> HIDE DEF r
    <2>2. ReqType' /\ Moves(p, r) /\ req[p].at # "set"
      BY <1>1, <1>2, <1>5, <2>1, BeginMoves DEF Idle
    <2>3. LangType' /\ LangInv' /\ ItemType' /\ ItemInv'
      BY <1>1, <1>2, <2>1, <2>2, SettingsSideQuiet
    <2>4. SettingType' /\ SettingInv'
      BY <1>1, <1>2, <1>5, SettingQuiet DEF settingVars
    <2> QED
      BY <2>2, <2>3, <2>4 DEF SiteIInv
  <1> QED
    BY <1>4, <1>5 DEF SaveSetting

LEMMA InsertSettingsStep ==
  ASSUME NEW p \in Threads, SiteIInv, InsertSettings(p)
  PROVE  SiteIInv'
  <1>1. ReqType /\ LangType /\ LangInv /\ ItemType /\ ItemInv /\ SettingType /\ SettingInv
    BY DEF SiteIInv
  <1>2. PICK f \in Fields, v \in {"off", "on"} : f = req[p].field /\ v = req[p].value
    <2>1. req[p] \in [at : {"upsert"}, field : Fields, value : {"off", "on"}]
      BY <1>1, ReqShapes DEF ReqType, InsertSettings
    <2> QED
      BY <2>1
  <1>3. v \in Values /\ f # "secret" /\ f \in Fields \cup {"secret"}
    BY SiteAssumption DEF Values
  <1>4. PICK none \in Docs : none = NoDoc /\ DOMAIN none = {}
    BY NoDocOK
  <1> DEFINE doc == Put(none, f, v)
             new == Put(saved, f, v)
  <1>5. SideQuiet /\ secret' = secret /\ p \in Everyone /\ Done(p) /\ req[p].at # "set"
        /\ settings' = Append(settings, doc) /\ saved' = new
    BY <1>2, <1>4 DEF InsertSettings, SideQuiet, Everyone
  <1>6. saved \in Docs /\ "secret" \notin DOMAIN saved
    BY <1>1 DEF SettingType
  <1>11. doc \in Docs /\ DOMAIN doc = {f} /\ doc[f] = v
    <2>1. doc \in Docs /\ DOMAIN doc = DOMAIN none \cup {f} /\ doc[f] = v
      BY <1>3, PutOK
    <2> HIDE DEF doc
    <2> QED
      BY <2>1, <1>4
  <1>12. new \in Docs /\ DOMAIN new = DOMAIN saved \cup {f} /\ new[f] = v
    BY <1>3, <1>6, PutOK
  <1> HIDE DEF doc, new
  <1>7. SettingType' /\ SettingInv'
    <2>1. \A g \in DOMAIN new : g \in DOMAIN saved \/ (g \in DOMAIN doc /\ new[g] = doc[g])
      BY <1>11, <1>12
    <2>2. "secret" \notin DOMAIN doc /\ "secret" \notin DOMAIN new
      BY <1>3, <1>6, <1>11, <1>12
    <2>3. doc \in Docs /\ new \in Docs
      BY <1>11, <1>12
    <2> QED
      <3>1. PICK d \in Docs, n \in Docs : d = doc /\ n = new
        BY <2>3
      <3>2. /\ settings' = Append(settings, d) /\ secret' = secret /\ saved' = n
            /\ "secret" \notin DOMAIN d /\ "secret" \notin DOMAIN n
            /\ \A g \in DOMAIN n : g \in DOMAIN saved \/ (g \in DOMAIN d /\ n[g] = d[g])
        BY <1>5, <2>1, <2>2, <3>1
      <3> QED
        BY <1>1, <3>2, AddedDoc
  <1>8. Idle \in Reqs /\ Idle.at \notin LangAts /\ Idle.at \notin {"form", "save"}
    BY DEF Reqs, Idle, LangAts
  <1>9. ReqType' /\ Moves(p, Idle)
    BY <1>1, <1>5, DoneMoves
  <1>10. LangType' /\ LangInv' /\ ItemType' /\ ItemInv'
    BY <1>1, <1>5, <1>8, <1>9, SettingsSideQuiet
  <1> QED
    BY <1>7, <1>9, <1>10 DEF SiteIInv

LEMMA WantSecretStep ==
  ASSUME NEW s \in Servers, SiteIInv, WantSecret(s)
  PROVE  SiteIInv'
  <1>1. ReqType /\ LangType /\ LangInv /\ ItemType /\ ItemInv /\ SettingType /\ SettingInv
    BY DEF SiteIInv
  <1>2. SideQuiet /\ settings' = settings /\ saved' = saved /\ s \in Everyone
    BY DEF WantSecret, SideQuiet, Everyone
  <1>3. PICK r \in Reqs : Begin(s, r) /\ r.at \notin LangAts /\ r.at \notin {"form", "save"}
    <2>1. Idle \in Reqs /\ Idle.at \notin LangAts /\ Idle.at \notin {"form", "save"}
      BY DEF Reqs, Idle, LangAts
    <2> DEFINE a == IF settings = <<>> THEN "make" ELSE "draw"
    <2>2. [at |-> a] \in Reqs /\ [at |-> a].at \notin LangAts /\ [at |-> a].at \notin {"form", "save"}
      BY DEF Reqs, LangAts
    <2>3. Begin(s, Idle) \/ Begin(s, [at |-> a])
      BY DEF WantSecret
    <2> HIDE DEF a
    <2> QED
      BY <2>1, <2>2, <2>3
  <1>4. ReqType' /\ Moves(s, r) /\ req[s].at # "set"
    BY <1>1, <1>2, <1>3, BeginMoves DEF Idle
  <1>5. LangType' /\ LangInv' /\ ItemType' /\ ItemInv'
    BY <1>1, <1>2, <1>3, <1>4, SettingsSideQuiet
  <1>6. SettingType' /\ SettingInv'
    <2>1. CASE secret' = secret
      BY <1>1, <1>2, <2>1, SettingQuiet DEF settingVars
    <2>2. CASE Read("secret") # None /\ secret' = [secret EXCEPT ![s] = Read("secret")]
      <3>1. 1 \in DOMAIN settings /\ "secret" \in DOMAIN settings[1] /\ Read("secret") = settings[1]["secret"]
        BY <1>1, <2>2, ReadIs
      <3>2. settings[1]["secret"] \in Servers
        BY <1>1, <3>1 DEF SettingType
      <3>3. SettingType'
        BY <1>1, <1>2, <2>2, <3>1, <3>2 DEF SettingType
      <3>4. SecretStored' /\ SavedStored'
        BY <1>1, <1>2, <2>2, <3>1 DEF SettingInv, SecretStored, SavedStored, SettingType
      <3> QED
        BY <3>3, <3>4 DEF SettingInv
    <2> QED
      BY <2>1, <2>2 DEF WantSecret
  <1> QED
    BY <1>4, <1>5, <1>6 DEF SiteIInv

LEMMA MakeSettingsStep ==
  ASSUME NEW s \in Servers, SiteIInv, MakeSettings(s)
  PROVE  SiteIInv'
  <1> DEFINE r == [at |-> "draw"]
  <1>1. ReqType /\ LangType /\ LangInv /\ ItemType /\ ItemInv /\ SettingType /\ SettingInv
    BY DEF SiteIInv
  <1>2. /\ SideQuiet /\ secret' = secret /\ saved' = saved /\ requests' = requests /\ s \in Everyone
        /\ req[s].at # "set" /\ req' = [req EXCEPT ![s] = r] /\ settings' = Append(settings, NoDoc)
    BY DEF MakeSettings, SideQuiet, Everyone
  <1>3. r \in Reqs /\ r.at \notin LangAts /\ r.at \notin {"form", "save"}
    BY DEF Reqs, LangAts
  <1> HIDE DEF r
  <1>4. ReqType' /\ Moves(s, r)
    BY <1>1, <1>2, <1>3, PassMoves
  <1>5. LangType' /\ LangInv' /\ ItemType' /\ ItemInv'
    BY <1>1, <1>2, <1>3, <1>4, SettingsSideQuiet
  <1>6. SettingType' /\ SettingInv'
    <2>1. PICK none \in Docs, new \in Docs : none = NoDoc /\ DOMAIN none = {} /\ new = saved
      BY <1>1, NoDocOK DEF SettingType
    <2>2. "secret" \notin DOMAIN none /\ "secret" \notin DOMAIN new /\ \A f \in DOMAIN new : f \in DOMAIN saved
      BY <1>1, <2>1 DEF SettingType
    <2> QED
      BY <1>1, <1>2, <2>1, <2>2, AddedDoc
  <1> QED
    BY <1>4, <1>5, <1>6 DEF SiteIInv

\* Only a document without a secret is given one.
LEMMA DrawSecretStep ==
  ASSUME NEW s \in Servers, SiteIInv, DrawSecret(s)
  PROVE  SiteIInv'
  <1> DEFINE r == [at |-> "read"]
             without == {i \in DOMAIN settings : "secret" \notin DOMAIN settings[i]}
             first == CHOOSE j \in without : \A k \in without : j <= k
  <1>1. ReqType /\ LangType /\ LangInv /\ ItemType /\ ItemInv /\ SettingType /\ SettingInv
    BY DEF SiteIInv
  <1>2. /\ SideQuiet /\ secret' = secret /\ saved' = saved /\ requests' = requests /\ s \in Everyone
        /\ req[s].at # "set" /\ req' = [req EXCEPT ![s] = r]
    BY DEF DrawSecret, SideQuiet, Everyone
  <1>3. r \in Reqs /\ r.at \notin LangAts /\ r.at \notin {"form", "save"}
    BY DEF Reqs, LangAts
  <1> HIDE DEF r
  <1>4. ReqType' /\ Moves(s, r)
    BY <1>1, <1>2, <1>3, PassMoves
  <1>5. LangType' /\ LangInv' /\ ItemType' /\ ItemInv'
    BY <1>1, <1>2, <1>3, <1>4, SettingsSideQuiet
  <1>6. CASE settings' = settings
    <2>1. SettingType' /\ SettingInv'
      BY <1>1, <1>2, <1>6, SettingQuiet DEF settingVars
    <2> QED
      BY <2>1, <1>4, <1>5 DEF SiteIInv
  <1>7. CASE without # {} /\ settings' = [settings EXCEPT ![first] = Put(settings[first], "secret", s)]
    <2>1. settings \in Seq(Docs) /\ saved \in Docs /\ "secret" \notin DOMAIN saved
      BY <1>1 DEF SettingType
    <2>2. without \subseteq DOMAIN settings /\ without \in SUBSET Nat
      BY <2>1
    <2>3. first \in without
      <3> HIDE DEF without
      <3>1. \E m \in without : \A k \in without : m <= k
        BY <1>7, <2>2, LeastExists
      <3> QED
        BY <3>1
    <2>4. PICK i \in DOMAIN settings : i = first /\ "secret" \notin DOMAIN settings[i]
      BY <2>2, <2>3
    <2> HIDE DEF first, without
    <2>5. PICK old \in Docs : old = settings[i]
      BY <2>1
    <2> DEFINE doc == Put(old, "secret", s)
    <2>6. /\ doc \in Docs /\ DOMAIN doc = DOMAIN old \cup {"secret"} /\ doc["secret"] = s
          /\ \A g \in DOMAIN old : g # "secret" => doc[g] = old[g]
      <3>1. "secret" \in Fields \cup {"secret"} /\ s \in Values
        BY DEF Values
      <3> QED
        BY <3>1, PutOK
    <2>7. settings' = [settings EXCEPT ![i] = doc]
      BY <1>7, <2>4, <2>5
    <2> HIDE DEF doc
    <2>8. Keeps(i, doc, saved)
      <3>1. \A f \in DOMAIN saved : i = 1 /\ f \in DOMAIN settings[1] => f \in DOMAIN doc /\ doc[f] = settings[1][f]
        BY <2>1, <2>5, <2>6
      <3> QED
        BY <2>1, <2>4, <2>5, <2>6, <3>1 DEF Keeps
    <2>9. SettingType' /\ SettingInv'
      BY <1>1, <1>2, <2>7, <2>8, ChangedDoc
    <2> QED
      BY <2>9, <1>4, <1>5 DEF SiteIInv
  <1> QED
    BY <1>6, <1>7 DEF DrawSecret

LEMMA CacheSecretStep ==
  ASSUME NEW s \in Servers, SiteIInv, CacheSecret(s)
  PROVE  SiteIInv'
  <1>1. ReqType /\ LangType /\ LangInv /\ ItemType /\ ItemInv /\ SettingType /\ SettingInv
    BY DEF SiteIInv
  <1>2. /\ SideQuiet /\ settings' = settings /\ saved' = saved /\ s \in Everyone /\ Done(s)
        /\ req[s].at # "set" /\ secret' = [secret EXCEPT ![s] = Read("secret")]
    BY DEF CacheSecret, SideQuiet, Everyone
  <1>3. Idle \in Reqs /\ Idle.at \notin LangAts /\ Idle.at \notin {"form", "save"}
    BY DEF Reqs, Idle, LangAts
  <1>4. ReqType' /\ Moves(s, Idle)
    BY <1>1, <1>2, DoneMoves
  <1>5. LangType' /\ LangInv' /\ ItemType' /\ ItemInv'
    BY <1>1, <1>2, <1>3, <1>4, SettingsSideQuiet
  <1>6. CASE Read("secret") = None
    <2>1. SettingType'
      BY <1>1, <1>2, <1>6 DEF SettingType
    <2>2. SecretStored' /\ SavedStored'
      BY <1>1, <1>2, <1>6 DEF SettingInv, SecretStored, SavedStored, SettingType
    <2> QED
      BY <2>1, <2>2, <1>4, <1>5 DEF SiteIInv, SettingInv
  <1>7. CASE Read("secret") # None
    <2>1. 1 \in DOMAIN settings /\ "secret" \in DOMAIN settings[1] /\ Read("secret") = settings[1]["secret"]
      BY <1>1, <1>7, ReadIs
    <2>2. settings[1]["secret"] \in Servers
      BY <1>1, <2>1 DEF SettingType
    <2>3. SettingType'
      BY <1>1, <1>2, <2>1, <2>2 DEF SettingType
    <2>4. SecretStored' /\ SavedStored'
      BY <1>1, <1>2, <2>1 DEF SettingInv, SecretStored, SavedStored, SettingType
    <2> QED
      BY <2>3, <2>4, <1>4, <1>5 DEF SiteIInv, SettingInv
  <1> QED
    BY <1>6, <1>7

-----------------------------------------------------------------------------
(* Every step, and what follows.                                           *)

\* The steps of the languages, for the conditions on the items and settings.
LEMMA LanguageReadStep ==
  ASSUME NEW p \in Everyone, NEW r \in Reqs, Begin(p, r), r.at \notin {"form", "save"},
         UNCHANGED <<languageVars, itemVars, settingVars>>, SiteIInv, LangType' /\ LangInv'
  PROVE  SiteIInv'
  <1>1. ReqType /\ ItemType /\ ItemInv /\ SettingType /\ SettingInv
    BY DEF SiteIInv
  <1>2. ReqType' /\ Moves(p, r)
    BY <1>1, BeginMoves
  <1>3. ItemType' /\ ItemInv'
    BY <1>1, <1>2, ItemQuiet DEF languageVars
  <1>4. SettingType' /\ SettingInv'
    BY <1>1, SettingQuiet
  <1> QED
    BY <1>2, <1>3, <1>4 DEF SiteIInv

LEMMA LanguageReads ==
  ASSUME SiteIInv, NEW p \in Everyone,
         \/ p \in Threads /\ \E c \in Codes : AddLanguage(p, c) \/ ChooseDefault(p, c) \/ RemoveLanguage(p, c)
         \/ p \in Servers /\ SeedLanguages(p)
  PROVE  SiteIInv'
  <1>1. ReqType /\ LangType /\ LangInv
    BY DEF SiteIInv
  <1>2. LangType' /\ LangInv'
    BY <1>1, AddLanguageLangs, ChooseDefaultLangs, RemoveLanguageLangs, SeedLanguagesLangs
  <1>3. version \in Nat /\ (langs = {}) \in BOOLEAN
    BY <1>1 DEF LangType
  <1>4. ASSUME NEW c \in Codes, AddLanguage(p, c) PROVE SiteIInv'
    <2> DEFINE r == [at |-> "insert", code |-> c, first |-> langs = {}, version |-> version]
    <2>1. r \in Reqs /\ r.at \notin {"form", "save"}
      BY <1>3 DEF Reqs
    <2>2. Begin(p, r) /\ UNCHANGED <<languageVars, itemVars, settingVars>>
      BY <1>4 DEF AddLanguage
    <2> HIDE DEF r
    <2> QED
      BY <1>2, <2>1, <2>2, LanguageReadStep
  <1>5. ASSUME NEW c \in Codes, ChooseDefault(p, c) PROVE SiteIInv'
    <2> DEFINE r == [at |-> "clear", code |-> c, version |-> version]
    <2>1. r \in Reqs /\ r.at \notin {"form", "save"}
      BY <1>3 DEF Reqs
    <2>2. Begin(p, r) /\ UNCHANGED <<languageVars, itemVars, settingVars>>
      BY <1>5 DEF ChooseDefault
    <2> HIDE DEF r
    <2> QED
      BY <1>2, <2>1, <2>2, LanguageReadStep
  <1>6. ASSUME NEW c \in Codes, RemoveLanguage(p, c) PROVE SiteIInv'
    <2> DEFINE r == [at |-> "remove", code |-> c, version |-> version]
    <2>1. r \in Reqs /\ r.at \notin {"form", "save"}
      BY <1>3 DEF Reqs
    <2>2. Begin(p, r) /\ UNCHANGED <<languageVars, itemVars, settingVars>>
      BY <1>6 DEF RemoveLanguage
    <2> HIDE DEF r
    <2> QED
      BY <1>2, <2>1, <2>2, LanguageReadStep
  <1>7. CASE SeedLanguages(p)
    <2> DEFINE r == [at |-> "insert", code |-> English, first |-> TRUE, version |-> version]
    <2>1. r \in Reqs /\ r.at \notin {"form", "save"}
      BY <1>3, SiteAssumption DEF Reqs
    <2>2. Begin(p, r) /\ UNCHANGED <<languageVars, itemVars, settingVars>>
      BY <1>7 DEF SeedLanguages
    <2> HIDE DEF r
    <2> QED
      BY <1>2, <2>1, <2>2, LanguageReadStep
  <1> QED
    BY <1>4, <1>5, <1>6, <1>7

\* A write of the languages, or one that fails or finds nothing to write.
LEMMA LanguageWriteStep ==
  ASSUME NEW p \in Everyone, NEW r \in Reqs, Moves(p, r), r.at \notin {"form", "save"}, SiteIInv,
         ReqType' /\ LangType' /\ LangInv',
         \/ \E v, new : WriteLangs(v, new)
         \/ UNCHANGED <<langs, itemVars, settingVars>>
  PROVE  SiteIInv'
  <1>1. ReqType /\ ItemType /\ ItemInv /\ SettingType /\ SettingInv
    BY DEF SiteIInv
  <1>2. ASSUME NEW v, NEW new, WriteLangs(v, new) PROVE ItemType' /\ ItemInv' /\ UNCHANGED settingVars
    BY <1>1, <1>2, WriteLangsItems DEF WriteLangs
  <1>3. CASE UNCHANGED <<langs, itemVars, settingVars>>
    <2>1. ItemType' /\ ItemInv'
      BY <1>1, <1>3, ItemQuiet
    <2>2. SettingType' /\ SettingInv'
      BY <1>1, <1>3, SettingQuiet
    <2> QED
      BY <2>1, <2>2 DEF SiteIInv
  <1>4. CASE \E v, new : WriteLangs(v, new)
    <2>1. ItemType' /\ ItemInv' /\ UNCHANGED settingVars
      BY <1>2, <1>4
    <2>2. SettingType' /\ SettingInv'
      BY <1>1, <2>1, SettingQuiet
    <2> QED
      BY <2>1, <2>2 DEF SiteIInv
  <1> QED
    BY <1>3, <1>4

LEMMA LanguageWrites ==
  ASSUME SiteIInv, NEW p \in Everyone,
         InsertLanguage(p) \/ ClearDefault(p) \/ SetDefault(p) \/ DropLanguage(p)
  PROVE  SiteIInv'
  <1>1. ReqType /\ LangType /\ LangInv
    BY DEF SiteIInv
  <1>2. ReqType' /\ LangType' /\ LangInv'
    BY <1>1, InsertLanguageLangs, ClearDefaultLangs, SetDefaultLangs, DropLanguageLangs
  <1>3. Idle \in Reqs /\ Idle.at \notin {"form", "save"}
    BY DEF Reqs, Idle
  <1>4. CASE InsertLanguage(p)
    <2>1. Moves(p, Idle) /\ \E v, new : WriteLangs(v, new)
      BY <1>1, <1>4, DoneMoves DEF InsertLanguage
    <2> QED
      BY <1>2, <1>3, <2>1, LanguageWriteStep
  <1>5. CASE ClearDefault(p)
    <2> DEFINE r == [at |-> "set", code |-> req[p].code, version |-> version']
    <2>1. req[p] \in [at : {"clear", "set", "remove"}, code : Codes, version : Nat]
      BY <1>1, <1>5, ReqShapes DEF ReqType, Everyone, ClearDefault
    <2>2. r \in Reqs /\ r.at \notin {"form", "save"}
      BY <1>2, <2>1 DEF Reqs, LangType
    <2>3. req' = [req EXCEPT ![p] = r] /\ requests' = requests /\ \E v, new : WriteLangs(v, new)
      BY <1>5 DEF ClearDefault
    <2> HIDE DEF r
    <2>4. Moves(p, r)
      BY <1>1, <2>2, <2>3, PassMoves
    <2> QED
      BY <1>2, <2>2, <2>3, <2>4, LanguageWriteStep
  <1>6. CASE SetDefault(p)
    <2>1. Moves(p, Idle)
      BY <1>1, <1>6, DoneMoves DEF SetDefault
    <2>2. \/ \E v, new : WriteLangs(v, new)
          \/ UNCHANGED <<langs, itemVars, settingVars>>
      BY <1>6 DEF SetDefault
    <2> QED
      BY <1>2, <1>3, <2>1, <2>2, LanguageWriteStep
  <1>7. CASE DropLanguage(p)
    <2>1. Moves(p, Idle)
      BY <1>1, <1>7, DoneMoves DEF DropLanguage
    <2>2. \/ \E v, new : WriteLangs(v, new)
          \/ UNCHANGED <<langs, itemVars, settingVars>>
      BY <1>7 DEF DropLanguage
    <2> QED
      BY <1>2, <1>3, <2>1, <2>2, LanguageWriteStep
  <1> QED
    BY <1>4, <1>5, <1>6, <1>7

\* The steps of the items leave the settings alone.
LEMMA ItemSteps ==
  ASSUME SiteIInv, NEW p \in Threads,
         \/ NewCategoryForm(p) \/ EditCategoryForm(p) \/ NewMenuForm(p) \/ EditMenuForm(p)
         \/ \E codes \in SUBSET Codes : \E typed \in [codes -> Texts] :
                SubmitCategory(p, typed) \/ \E enabled \in BOOLEAN : SubmitMenuItem(p, typed, enabled)
         \/ CreateCategory(p) \/ UpdateCategory(p) \/ DeleteCategory(p)
         \/ CreateMenuItem(p) \/ UpdateMenuItem(p) \/ DeleteMenuItem(p)
  PROVE  SiteIInv'
  <1>1. ReqType /\ LangType /\ LangInv /\ ItemType /\ ItemInv /\ SettingType /\ SettingInv
    BY DEF SiteIInv
  <1>2. "category" \in Kinds /\ "menu" \in Kinds
    BY DEF Kinds
  <1>3. CASE NewCategoryForm(p) \/ EditCategoryForm(p) \/ NewMenuForm(p) \/ EditMenuForm(p)
    <2>1. UNCHANGED settingVars
      BY <1>3 DEF NewCategoryForm, EditCategoryForm, NewMenuForm, EditMenuForm, OpenForm
    <2> QED
      BY <1>1, <1>3, <2>1, FormsItems, SettingQuiet DEF SiteIInv
  <1>4. ASSUME NEW codes \in SUBSET Codes, NEW typed \in [codes -> Texts],
               SubmitCategory(p, typed) \/ \E enabled \in BOOLEAN : SubmitMenuItem(p, typed, enabled)
        PROVE  SiteIInv'
    <2> DEFINE name == [c \in Configured |-> ExactLangValue(Filled(p, typed), c)]
    <2>1. ASSUME NEW enabled \in BOOLEAN, req[p].at = "form", Submit(p, Filled(p, typed), name, enabled)
          PROVE  SiteIInv'
      <3>1. UNCHANGED settingVars
        BY <2>1 DEF Submit
      <3> HIDE DEF name
      <3>2. ReqType' /\ LangType' /\ LangInv' /\ ItemType' /\ ItemInv'
        BY <1>1, <2>1, SubmitItems DEF name
      <3> QED
        BY <1>1, <3>1, <3>2, SettingQuiet DEF SiteIInv
    <2>2. CASE SubmitCategory(p, typed)
      <3>1. TRUE \in BOOLEAN /\ req[p].at = "form" /\ Submit(p, Filled(p, typed), name, TRUE)
        BY <2>2 DEF SubmitCategory, ParseCategoryForm
      <3> QED
        BY <2>1, <3>1
    <2>3. ASSUME NEW enabled \in BOOLEAN, SubmitMenuItem(p, typed, enabled) PROVE SiteIInv'
      <3>1. req[p].at = "form" /\ Submit(p, Filled(p, typed), name, enabled)
        BY <2>3 DEF SubmitMenuItem, ParseMenuForm
      <3> QED
        BY <2>1, <3>1
    <2> QED
      BY <1>4, <2>2, <2>3
  <1>5. CASE CreateCategory(p) \/ UpdateCategory(p) \/ CreateMenuItem(p) \/ UpdateMenuItem(p)
    <2>1. UNCHANGED settingVars
      BY <1>5 DEF CreateCategory, UpdateCategory, CreateMenuItem, UpdateMenuItem, WriteItem
    <2> QED
      BY <1>1, <1>5, <2>1, SavesItems, SettingQuiet DEF SiteIInv
  <1>6. CASE DeleteCategory(p) \/ DeleteMenuItem(p)
    <2>1. UNCHANGED settingVars
      BY <1>6 DEF DeleteCategory, DeleteMenuItem, DeleteItem
    <2> QED
      BY <1>1, <1>2, <1>6, <2>1, DeleteItems, SettingQuiet DEF SiteIInv, DeleteCategory, DeleteMenuItem
  <1> QED
    BY <1>3, <1>4, <1>5, <1>6

LEMMA SiteInit == Init => SiteIInv
  <1> SUFFICES ASSUME Init PROVE SiteIInv
    OBVIOUS
  <1>1. ReqType /\ \A p \in Everyone : req[p].at = "idle"
    BY DEF Init, ReqType, Reqs, Idle, Everyone
  <1>2. LangType
    <2>1. raced \in BOOLEAN /\ broken \in BOOLEAN
      BY DEF Init
    <2>2. CASE langs = {} /\ lastId = 0 /\ version = 0
      <3>1. IsFiniteSet(langs) /\ lastId \in 0 .. MaxDocs
        BY <2>2, SiteAssumption, FS_EmptySet
      <3> QED
        BY <2>1, <2>2, <3>1 DEF LangType
    <2>3. CASE langs = {[id |-> 1, code |-> English, default |-> TRUE]} /\ lastId = 1 /\ version = 1
      <3> DEFINE d == [id |-> 1, code |-> English, default |-> TRUE]
      <3>1. d \in LangRows /\ lastId \in 0 .. MaxDocs /\ d.id <= lastId
        BY <2>3, SiteAssumption DEF LangRows
      <3>2. IsFiniteSet(langs)
        BY <2>3, FS_Singleton
      <3>3. langs = {d} /\ version \in Nat
        BY <2>3
      <3> HIDE DEF d
      <3> QED
        BY <2>1, <3>1, <3>2, <3>3 DEF LangType
    <2> QED
      BY <2>2, <2>3 DEF Init
  <1>3. LangInv
    <2>1. \A p \in Everyone : LangReq(p)
      BY <1>1 DEF LangReq
    <2>2. LangsOK
      <3>1. CASE langs = {} /\ version = 0
        BY <3>1 DEF LangsOK, Settled
      <3>2. CASE langs = {[id |-> 1, code |-> English, default |-> TRUE]} /\ version = 1
        <4> DEFINE d == [id |-> 1, code |-> English, default |-> TRUE]
        <4>1. d.default
          OBVIOUS
        <4>2. langs = {d}
          BY <3>2
        <4> HIDE DEF d
        <4>3. d \in langs /\ {e \in langs : e.default} = {d}
          BY <4>1, <4>2
        <4> QED
          BY <4>2, <4>3, <3>2 DEF LangsOK
      <3> QED
        BY <3>1, <3>2 DEF Init
    <2> QED
      BY <2>1, <2>2 DEF LangInv
  <1>4. ItemType
    BY GoneOK DEF Init, ItemType
  <1>5. ItemInv
    <2>1. \A p \in Everyone : ItemReq(p)
      BY <1>1 DEF ItemReq
    <2>2. \A k \in Kinds : DOMAIN meant[k] = {}
      BY GoneOK DEF Init
    <2> QED
      BY <2>1, <2>2 DEF ItemInv, TextsOK
  <1>6. SettingType
    BY NoDocOK DEF Init, SettingType
  <1>7. SettingInv
    BY NoDocOK DEF Init, SettingInv, SecretStored, SavedStored
  <1> QED
    BY <1>1, <1>2, <1>3, <1>4, <1>5, <1>6, <1>7 DEF SiteIInv

LEMMA SiteStep == SiteIInv /\ [Next]_vars => SiteIInv'
  <1> SUFFICES ASSUME SiteIInv, [Next]_vars PROVE SiteIInv'
    OBVIOUS
  <1>1. CASE UNCHANGED vars
    <2>1. UNCHANGED <<languageVars, itemVars, settingVars, req, requests>>
      BY <1>1 DEF vars
    <2>2. ReqType' /\ LangType' /\ ItemType' /\ SettingType' /\ SettingInv'
      BY <2>1, SettingQuiet DEF SiteIInv, ReqType, LangType, ItemType, languageVars, itemVars
    <2>3. LangInv'
      BY <2>1 DEF SiteIInv, LangInv, LangsOK, LangReq, Settled, Configured, languageVars
    <2>4. ItemInv'
      BY <2>1 DEF SiteIInv, ItemInv, TextsOK, ItemReq, Configured, languageVars, itemVars
    <2> QED
      BY <2>2, <2>3, <2>4 DEF SiteIInv
  <1>2. CASE LanguagesNext
    BY <1>2, LanguageReads, LanguageWrites, ItemSteps DEF LanguagesNext, Everyone
  <1>3. CASE SettingsNext
    BY <1>3, SaveSettingStep, InsertSettingsStep, WantSecretStep, MakeSettingsStep, DrawSecretStep, CacheSecretStep
    DEF SettingsNext
  <1> QED
    BY <1>1, <1>2, <1>3 DEF Next

LEMMA SiteInvariants == Spec => []SiteIInv
  BY SiteInit, SiteStep, PTL DEF Spec

LEMMA OneDefaultHolds == SiteIInv => OneDefault
  <1> SUFFICES ASSUME SiteIInv, Settled
               PROVE  /\ Cardinality({d \in langs : d.default}) = 1
                      /\ \A d, e \in langs : d.code = e.code => d = e
    BY DEF OneDefault
  <1>1. LangsOK
    BY DEF SiteIInv, LangInv
  <1>2. \A d, e \in langs : d.code = e.code => d = e
    BY <1>1 DEF LangsOK, Settled
  <1>3. PICK d \in langs : {e \in langs : e.default} = {d}
    BY <1>1 DEF LangsOK
  <1> QED
    BY <1>2, <1>3, FS_Singleton

LEMMA ServedHolds == SiteIInv => ServedIsConfigured
  <1> SUFFICES ASSUME SiteIInv, Settled, NEW query \in Codes \cup {None}, NEW cookie \in Codes \cup {None}
               PROVE  Served(query, cookie) \subseteq Configured
    BY DEF ServedIsConfigured
  <1>1. PICK d \in langs : {e \in langs : e.default} = {d}
    BY DEF SiteIInv, LangInv, LangsOK
  <1>2. DefaultLangs \subseteq Configured
    BY <1>1 DEF DefaultLangs, Configured
  <1> QED
    BY <1>2 DEF Served

LEMMA TextShownHolds == SiteIInv => TextShown
  <1> SUFFICES ASSUME SiteIInv, ~overtaken, NEW c \in Configured
               PROVE  /\ c \in DOMAIN meant["category"] => CategoriesShow(c) = {meant["category"][c]}
                      /\ c \in DOMAIN meant["menu"] /\ items["menu"].enabled => MenuShows(c) = {meant["menu"][c]}
    BY DEF TextShown
  <1>1. ASSUME NEW k \in Kinds, c \in DOMAIN meant[k]
        PROVE  ~items[k].gone /\ c \in DOMAIN items[k].name /\ items[k].name[c] = meant[k][c]
    BY <1>1 DEF SiteIInv, ItemInv, TextsOK
  <1>2. "category" \in Kinds /\ "menu" \in Kinds
    BY DEF Kinds
  <1> QED
    BY <1>1, <1>2 DEF CategoriesShow, MenuShows, ResolveLangMap

LEMMA SiteTypes == SiteIInv => TypeOK
  <1> SUFFICES ASSUME SiteIInv PROVE TypeOK
    OBVIOUS
  <1>1. LangType /\ ItemType /\ SettingType
    BY DEF SiteIInv
  <1>2. /\ langs \subseteq [id : 1 .. MaxDocs, code : Codes, default : BOOLEAN]
        /\ \A d, e \in langs : d.id = e.id => d = e
    BY <1>1 DEF LangType, LangRows
  <1>3. ASSUME NEW k \in Kinds
        PROVE  /\ DOMAIN items[k].name \subseteq Codes
               /\ \A c \in Codes : c \in DOMAIN items[k].name => items[k].name[c] \in Texts
    <2>1. items[k].name \in Maps
      BY <1>1 DEF ItemType, ItemDocs
    <2> QED
      BY <2>1, MapOK
  <1>4. ASSUME NEW i \in DOMAIN settings PROVE DOMAIN settings[i] \subseteq Fields \cup {"secret"}
    <2>1. settings[i] \in Docs
      BY <1>1 DEF SettingType
    <2> QED
      BY <2>1 DEF Docs
  <1>5. secret \in [Servers -> Servers \cup {None}]
    BY <1>1 DEF SettingType
  <1> QED
    BY <1>2, <1>3, <1>4, <1>5 DEF TypeOK

LEMMA SettingsHold == SiteIInv => SettingsInv
  <1> SUFFICES ASSUME SiteIInv PROVE SettingsInv
    OBVIOUS
  <1>1. SecretStored /\ SavedStored /\ SettingType
    BY DEF SiteIInv, SettingInv
  <1>2. SecretAgreed
    BY <1>1 DEF SecretAgreed, SecretStored
  <1>3. ASSUME Len(settings) <= 1, NEW f \in DOMAIN saved PROVE Read(f) = saved[f]
    <2>1. 2 \notin DOMAIN settings
      BY <1>1, <1>3 DEF SettingType
    <2>2. 1 \in DOMAIN settings /\ f \in DOMAIN settings[1] /\ settings[1][f] = saved[f]
      BY <1>1, <1>3, <2>1 DEF SavedStored
    <2> QED
      BY <1>1, <2>2, ReadIs
  <1> QED
    BY <1>2, <1>3 DEF SettingsInv, SavedIsRead

\* cms_languages.c, cms_categories.c and cms_menu.c, with any number of editors:
\* unless requests overtook each other or a write failed half-way, there is one
\* default language and no language twice, request_lang_set() serves one the
\* site has, and visitors read a category and a menu item as its last form says.
THEOREM LanguagesInvThm == Spec => []LanguagesInv
  <1>1. SiteIInv => LanguagesInv
    BY SiteTypes, OneDefaultHolds, ServedHolds, TextShownHolds DEF LanguagesInv
  <1> QED
    BY <1>1, SiteInvariants, PTL

\* cms_site_settings.c: the servers that hold the site's secret hold the same
\* one, even if two made the singleton at once, and a setting answered as saved
\* is the one read while there is one document.
THEOREM SettingsInvThm == Spec => []SettingsInv
  BY SettingsHold, SiteInvariants, PTL
=============================================================================
