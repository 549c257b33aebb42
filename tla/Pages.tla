------------------------------- MODULE Pages --------------------------------
(***************************************************************************)
(* The GET and HEAD routes of http_route(): what a visitor who asks for a  *)
(* page is answered, and where the redirects lead, while the user's        *)
(* account, the session and the maintenance mode change between one        *)
(* request and the next.                                                   *)
(*                                                                         *)
(* A route is a name; what a handler only renders is left out. A page that *)
(* depends on a document may or may not find it.                           *)
(***************************************************************************)
EXTENDS Naturals, FiniteSets

CONSTANT MaxChanges  \* bound on what happens between the requests

ASSUME PagesAssumption == MaxChanges \in Nat

-----------------------------------------------------------------------------
(* The routes: who may open them ("all", "team": require_dashboard_session,*)
(* "admins": require_admin_session), what a browser without the dashboard  *)
(* is answered, and whether the document asked for may be missing.         *)

Open    == [gate |-> "all",    refusal |-> "none",      missing |-> FALSE]
Team    == [gate |-> "team",   refusal |-> "dashboard", missing |-> FALSE]
Admin   == [gate |-> "admins", refusal |-> "dashboard", missing |-> FALSE]
ById(r) == [r EXCEPT !.missing = TRUE]
Api(r)  == [r EXCEPT !.refusal = "403"]

\* Two tables of routes as one.
f ++ g == [r \in DOMAIN f \cup DOMAIN g |-> IF r \in DOMAIN f THEN f[r] ELSE g[r]]

EntryPages == [entries |-> Team, entry_edit |-> ById(Team)]

CategoryPages == [categories |-> Admin, category_new |-> Admin, category_edit |-> ById(Admin)]

MenuPages ==
    [languages |-> Admin, menu_admin |-> Admin, menu_new |-> Admin, menu_edit |-> ById(Admin)]

SettingsPages == [settings |-> Admin]

\* The banner, footer, logo and stylesheet of a theme: its key may be wrong.
ThemeParts ==
    [banner |-> ById(Admin), footer |-> ById(Admin), logo |-> ById(Admin),
     css_editor |-> ById(Admin)]

MaintenancePages ==
    [preview |-> Admin, browsers |-> Admin, updates |-> Admin, updates_progress |-> Api(Admin),
     extensions |-> Admin, fonts |-> Admin]

ThemePages ==
    [themes |-> Admin, customize |-> ById(Admin), theme |-> Open, theme_assets |-> Api(Admin)]

UserPages == [users |-> Admin, analytics |-> Admin, user_new |-> Admin, user_edit |-> ById(Admin)]

MediaPages ==
    [media |-> Team, media_contents |-> Api(Team), media_directory |-> ById(Api(Team)),
     media_modal |-> Api(Team)]

CommentPages == [comments |-> Team, comment_reply |-> Team]

\* What every visitor may open, whatever the maintenance mode.
PublicPages == [captcha |-> ById(Open), verify |-> Open, language |-> Open, theme_list |-> Open]

\* /youtube-qr/<id> and /image-qr/<code>.
QrPages == [qr_page |-> ById(Open)]

\* /gallery/<id>.
GalleryPages == [gallery |-> ById(Open)]

\* The stylesheet of a theme, and any other path: a file.
Files == [theme_css |-> ById(Open), file |-> ById(Open)]

\* The routes that answer with a redirect of their own.
Redirects ==
    [language_set |-> Open, theme_set |-> Open, short_link |-> ById(Open),
     comment_form |-> ById(Open)]

\* is_site_content_route().
SiteContent ==
    [home |-> Open, page |-> ById(Open), blog |-> Open, category |-> ById(Open),
     category_list |-> ById(Open), post |-> ById(Open), menu_page |-> ById(Open), search |-> Open,
     comment_form |-> ById(Open)]

ExtensionPages == [extension |-> ById(Team)]

Dashboard ==
    EntryPages ++ CategoryPages ++ MenuPages ++ SettingsPages ++ ThemeParts ++ MaintenancePages ++ ThemePages
        ++ UserPages ++ MediaPages ++ CommentPages ++ ExtensionPages

Routes ==
    Dashboard ++ PublicPages ++ QrPages ++ GalleryPages ++ Files ++ Redirects ++ SiteContent
        ++ [login |-> Open, dashboard |-> Open, logout |-> Open, site_list |-> Open]

Roles == {"admin", "author", "viewer", "moderator", "commenter"}

VARIABLES
    browser,    \* "granted" the dashboard, "modern" without it, "old", or "wap"
    ready,      \* mongodb_manager_is_ready()
    signed,     \* the browser's cookie names a session that is in the database
    account,    \* the role of the session's user, or "gone"
    closedSite, \* site_settings.under_construction
    asked,      \* history: the visitor asked for a page of the dashboard
    url,        \* the route of the request under way, "none" when a page is shown
    shown,      \* what the last request was answered
    preview,    \* the request carries ?preview_epoch= of an older epoch
    steady,     \* history: nothing has changed since the visitor asked
    changes

pageVars == <<browser, ready, signed, account, closedSite, asked, url, shown, preview, steady, changes>>
world    == <<browser, ready, account, closedSite, changes>>

PageInit ==
    /\ browser \in {"granted", "modern", "old", "wap"}
    /\ ready \in BOOLEAN /\ signed = FALSE
    /\ account \in Roles /\ closedSite \in BOOLEAN
    /\ asked = FALSE /\ url = "none" /\ shown = "nothing" /\ preview = FALSE /\ steady = TRUE /\ changes = 0

-----------------------------------------------------------------------------
(* The gates.                                                              *)

\* resolve_epoch(): a preview counts before the User-Agent.
Epoch == IF preview THEN "old" ELSE IF browser = "granted" THEN "modern" ELSE browser

\* dashboard_allowed().
Allowed == Epoch = "modern" /\ browser = "granted"

\* request_user_is_admin().
AdminVisits == signed /\ account = "admin"

\* Mutant: the sessions that are open when the mode is switched on stay.
LockedOutNever == FALSE

\* maintenance_locks_out().
LockedOut == closedSite /\ account # "admin"

\* role_may_open().
MayOpen(route) ==
    CASE account = "commenter" -> FALSE
      [] account = "moderator" -> route \in DOMAIN CommentPages
      [] OTHER                 -> TRUE

Show(page) == url' = "none" /\ shown' = page /\ UNCHANGED <<signed, preview>>

\* The browser follows a redirect; the query is gone.
Redirect(to) == url' = to /\ preview' = FALSE /\ UNCHANGED <<signed, shown>>

\* send_maintenance_lockout().
ShowLockout ==
    /\ signed' = FALSE
    /\ url' = "none" /\ shown' = "locked_out" /\ UNCHANGED preview

Same == UNCHANGED <<asked, steady>> /\ UNCHANGED world

\* /login.
Login ==
    /\ url = "login"
    /\ IF ready /\ signed THEN Redirect("dashboard")
       ELSE Show(IF Allowed THEN "login_form" ELSE "login_unavailable")
    /\ Same

\* Mutant: /dashboard is closed to a browser as the pages below it are.
DashboardClosed ==
    /\ url = "dashboard"
    /\ IF ~ready THEN Show("503")
       ELSE IF ~Allowed THEN Redirect("dashboard")
       ELSE IF ~signed \/ account \in {"gone", "commenter"} THEN Redirect("login")
       ELSE IF LockedOut THEN ShowLockout
       ELSE Show("dashboard")
    /\ Same

\* /dashboard: a session whose user is gone, or a commenter's, is none.
DashboardHome ==
    /\ url = "dashboard"
    /\ IF ~ready THEN Show("503")
       ELSE IF ~signed \/ account \in {"gone", "commenter"} THEN Redirect("login")
       ELSE IF LockedOut THEN ShowLockout
       ELSE Show(IF Epoch = "modern" /\ ~Allowed THEN "login_unavailable" ELSE "dashboard")
    /\ Same

\* Where require_dashboard_session_ex() sends a role that may not open a page.
Elsewhere == IF account = "moderator" THEN "dashboard" ELSE "home"

\* What a page of the dashboard answers before it reads anything.
Gated(r, Answer) ==
    IF ~Allowed THEN IF Routes[r].refusal = "403" THEN Show("403") ELSE Redirect("dashboard")
    ELSE IF ~ready THEN Show("503")
    ELSE IF ~signed THEN Redirect("login")
    ELSE IF LockedOut THEN ShowLockout
    ELSE IF account = "gone" THEN Redirect("login")
    ELSE IF ~MayOpen(r) THEN Redirect(Elsewhere)
    ELSE IF Routes[r].gate = "admins" /\ account \notin {"admin", "viewer"} THEN Redirect("dashboard")
    ELSE Answer

\* An editor opens an entry of their own, if it is there (can_edit_entry());
\* who may not answer a comment is sent back to the list.
DashboardPage ==
    /\ url \in DOMAIN Dashboard \ {"extension", "theme"}
    /\ \/ Gated(url, Show(url))
       \/ Routes[url].missing /\ Gated(url, Show("404"))
       \/ url = "entry_edit" /\ account = "author" /\ Gated(url, Redirect("dashboard"))
       \/ url = "comment_reply" /\ Gated(url, Redirect("comments"))
    /\ Same

\* serve_extension(): its redirects stay under its mount, where the model
\* lets it answer.
Extension ==
    /\ url = "extension"
    /\ \E page \in {url, "404", "502", "503"} : Gated(url, Show(page))
    /\ Same

\* The old page of one theme.
OldThemePage ==
    /\ url = "theme"
    /\ \E to \in {"customize", "themes"} : Redirect(to)
    /\ Same

\* serve_under_construction().
StandsIn(r) == r \in DOMAIN SiteContent /\ ~AdminVisits /\ closedSite

\* The routes everybody may open, and the one that chooses a site when the
\* request names none, which comes before the maintenance mode.
PublicPage ==
    /\ url \in (DOMAIN PublicPages \cup DOMAIN QrPages \cup DOMAIN GalleryPages \cup DOMAIN Files \cup DOMAIN SiteContent \cup {"site_list"})
                   \ {"comment_form"}
    /\ IF StandsIn(url) THEN Show("under_construction")
       ELSE Show(url) \/ (Routes[url].missing /\ Show("404"))
    /\ Same

\* POST only.
LogoutPage == url = "logout" /\ Show("405") /\ Same

\* /language/set and /theme/set go back to a path of this site, a short link
\* to the gallery or picture it stands for, and the comment form of a phone
\* to the entry in any other browser.
RedirectPage ==
    /\ \/ url \in {"language_set", "theme_set"} /\ \E to \in DOMAIN Routes \ {"language_set", "theme_set"} : Redirect(to)
       \/ url = "short_link" /\ (Show("404") \/ (ready /\ \E to \in {"gallery", "file"} : Redirect(to)))
       \/ /\ url = "comment_form"
          /\ IF StandsIn(url) THEN Show("under_construction")
             ELSE IF Epoch # "wap" THEN Redirect("post")
             ELSE Show("comment_form") \/ Show("404")
    /\ Same

Answer ==
    \/ Login \/ DashboardHome \/ DashboardPage \/ Extension \/ OldThemePage \/ PublicPage \/ LogoutPage \/ RedirectPage

-----------------------------------------------------------------------------
(* The visitor, and what others do meanwhile.                              *)

\* The visitor is done with a page.
Leave ==
    /\ url = "none" /\ shown # "nothing"
    /\ asked' = FALSE /\ shown' = "nothing" /\ preview' = FALSE /\ steady' = TRUE
    /\ UNCHANGED <<url, signed>> /\ UNCHANGED world

\* The visitor asks for a page.
Ask(r) ==
    /\ url = "none" /\ shown = "nothing"
    /\ changes < MaxChanges
    /\ changes' = changes + 1
    /\ asked' = (r \in DOMAIN Dashboard \cup {"dashboard"}) /\ url' = r /\ preview' \in BOOLEAN /\ steady' = TRUE
    /\ UNCHANGED <<browser, ready, signed, account, closedSite, shown>>

\* POST /login.
SignsIn ==
    /\ url = "none" /\ shown = "login_form"
    /\ ready /\ account \notin {"gone", "commenter"} /\ ~LockedOut
    /\ signed' = TRUE /\ shown' = "nothing" /\ asked' = TRUE /\ url' = "dashboard" /\ steady' = TRUE
    /\ UNCHANGED <<browser, ready, account, closedSite, preview, changes>>

Changed(r, closed, session) ==
    /\ changes < MaxChanges
    /\ changes' = changes + 1
    /\ account' = r /\ closedSite' = closed /\ signed' = session
    /\ steady' = FALSE
    /\ UNCHANGED <<browser, ready, asked, url, shown, preview>>

\* An administrator changes the role of the user, or deletes them: the
\* sessions of a user who leaves the team are deleted with a later command,
\* which a sign-in may slip past (see Accounts).  The maintenance mode is
\* switched; the session runs out.
AccountChanges ==
    \E r \in Roles \cup {"gone"}, kept \in BOOLEAN :
        /\ account # "gone" /\ r # account
        /\ kept \/ r \in {"gone", "commenter"}
        /\ Changed(r, closedSite, signed /\ kept)
SiteSwitches == Changed(account, ~closedSite, signed)
SessionEnds  == signed /\ Changed(account, closedSite, FALSE)

PageNext ==
    \/ Answer
    \/ \E r \in DOMAIN Routes : Ask(r)
    \/ Leave \/ SignsIn \/ AccountChanges \/ SiteSwitches \/ SessionEnds

PageSpec == PageInit /\ [][PageNext]_pageVars

\* A server answers, and a browser follows what it is answered.
PageFairSpec == PageSpec /\ WF_pageVars(Answer)

-----------------------------------------------------------------------------
(* Properties.                                                             *)

\* A session whose user is gone or has left the team: /login takes it for a
\* sign-in and /dashboard does not, so the two send it to each other.
StraySession == signed /\ account \in {"gone", "commenter"}

\* Following the redirects of any route ends at a page, whoever asks, with
\* whichever browser, and whatever happens to the account on the way, but for
\* a stray session.
RedirectsEnd == (url # "none") ~> (url = "none" \/ StraySession)

\* A member of the team with a browser that has the dashboard is never shown
\* the login form, nor the public site instead of the page of the dashboard
\* they asked for: what they may not open leads them to one they may.
MemberStaysIn ==
    /\ url = "none" /\ steady /\ asked
    /\ signed /\ browser = "granted" /\ ready /\ account \notin {"gone", "commenter"}
    => shown \in DOMAIN Dashboard \cup {"nothing", "dashboard", "403", "404", "502", "503"}

\* While the site is closed, nobody but an administrator is shown its
\* content or any page of the dashboard, by whatever way they came to it.
ClosedMeansClosed ==
    url = "none" /\ steady /\ closedSite /\ ~AdminVisits
        => shown \notin DOMAIN SiteContent \cup DOMAIN Dashboard \cup {"dashboard"}

\* Both: the gates let everybody where they belong, and nobody elsewhere.
GatesInv == MemberStaysIn /\ ClosedMeansClosed
=============================================================================
