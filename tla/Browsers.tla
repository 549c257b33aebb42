------------------------------ MODULE Browsers ------------------------------
(***************************************************************************)
(* Browser detection: the ordered rules that sort a User-Agent into an     *)
(* epoch and say whether it may use the dashboard (utils/detect_epoch.c),  *)
(* the one document they are stored in (db/cms_browser_detection.c), the   *)
(* dashboard's page, preview, save and reset (browser_detection_admin.c    *)
(* and the routes of http_router.c) and the stylesheet check that asks the *)
(* rules about real-looking User-Agents (utils/css_compat.c).              *)
(*                                                                         *)
(* Every request runs on a thread of its own.  It asks the active rules    *)
(* twice, under two separate read locks (the epoch, then the dashboard     *)
(* flag); a save or a reset writes the document, then loads it, then swaps *)
(* the active pointer, as three steps other threads may come between.      *)
(*                                                                         *)
(* A User-Agent is the set of tokens found in it and the version that      *)
(* follows each; a version is <<major, minor>>.  A simple one is that of a *)
(* version-less request with no header at all.                             *)
(***************************************************************************)
EXTENDS Integers, Sequences, FiniteSets, SequencesExt

CONSTANTS
    Handlers,       \* the threads that serve requests
    Factory,        \* browser_detection_factory(): what applies with nothing stored
    Posted,         \* rule sets a page may post, valid or not
    FirstStored,    \* what the collection may hold when the server is installed
    UserAgents,     \* the browsers that ask
    Previews,       \* ?preview_epoch= values a URL may carry; NoPreview is none
    ForceEpoch,     \* the force_epoch setting, NoPreview when it is off
    Sheets,         \* the themes' epoch 3 stylesheets: [uses, admin]
    MaxRules,       \* BROWSER_RULES_MAX
    MaxTiers,       \* BROWSER_TIERS_MAX, per rule
    ProbeVersions,  \* the versions the stylesheet check is compared over
    MaxAsked        \* bound: requests in a behaviour

NoRules == [fallback |-> 99, rules |-> << >>]
Unreadable == [fallback |-> 98, rules |-> << >>]
NoToken == "none"
NoVersion == <<-1, 0>>
NoPreview == 99
EpochWml == -1
EpochPrestandard == 0
EpochModern == 3
Engines == {"Chrome", "Firefox", "Safari", "iOS"}

VARIABLES
    stored,     \* the document {_id: "rules"}, NoRules when there is none
    activeRules, \* the active pointer, NoRules while it is NULL
    asked,      \* the request each handler serves
    count       \* requests begun so far

brVars == <<stored, activeRules, asked, count>>

-----------------------------------------------------------------------------
(* Versions and validation.                                                *)

AtLeast(v, w) == v[1] > w[1] \/ (v[1] = w[1] /\ v[2] >= w[2])

EpochValid(e) == e \in EpochWml .. EpochModern

\* browser_detection_from_bson(): a document converts when no field is missing
\* or of another type (Unreadable stands for one that is not so) and no list
\* outgrows its array.
ConvertsRule(r) == Len(r.tiers) <= MaxTiers

Converts(d) ==
    /\ d # Unreadable
    /\ Len(d.rules) <= MaxRules
    /\ \A i \in DOMAIN d.rules : ConvertsRule(d.rules[i])

\* Every rule names a token to match, and a rule with tiers the token its
\* version follows; lengths and control characters are left out.
RuleValid(r) ==
    /\ r.contains # {}
    /\ EpochValid(r.epoch)
    /\ r.tiers # << >> => r.after # NoToken
    /\ \A i \in DOMAIN r.tiers : r.tiers[i].from # NoVersion /\ EpochValid(r.tiers[i].epoch)

Valid(d) ==
    /\ Converts(d)
    /\ EpochValid(d.fallback)
    /\ \A i \in DOMAIN d.rules : RuleValid(d.rules[i])

-----------------------------------------------------------------------------
(* Classification.                                                         *)

ContainsAny(ua, tokens) == ua.has \cap tokens # {}

Applies(r, ua) == r.enabled /\ ContainsAny(ua, r.contains) /\ ~ContainsAny(ua, r.excludes)

\* What classify_rule() starts from: no tier.
NoTier(r) == [from |-> NoVersion, epoch |-> r.epoch, dash |-> r.dash]

\* Mutant: the last tier reached wins.
LastTier(r, v) ==
    LET best[n \in 0 .. Len(r.tiers)] ==
            IF n = 0 THEN NoTier(r)
            ELSE IF AtLeast(v, r.tiers[n].from) THEN r.tiers[n] ELSE best[n - 1]
    IN best[Len(r.tiers)]

\* A tier takes over only when the version reaches it and it is above the best
\* so far.
TakesOver(t, b, v) == AtLeast(v, t.from) /\ (b.from = NoVersion \/ ~AtLeast(b.from, t.from))

\* The scan of classify_rule(): the best of the first n tiers.
BestTier(r, v) ==
    LET best[n \in 0 .. Len(r.tiers)] ==
            IF n = 0 THEN NoTier(r)
            ELSE IF TakesOver(r.tiers[n], best[n - 1], v) THEN r.tiers[n] ELSE best[n - 1]
    IN best[Len(r.tiers)]

VersionRead(r, ua) ==
    IF r.after = NoToken \/ r.after \notin ua.has THEN NoVersion ELSE ua.ver[r.after]

ClassifyRule(r, ua) ==
    LET v == VersionRead(r, ua)
        t == BestTier(r, v)
    IN IF v = NoVersion THEN [epoch |-> r.epoch, dash |-> r.dash]
                        ELSE [epoch |-> t.epoch, dash |-> t.dash]

Matching(d, ua) == {i \in DOMAIN d.rules : Applies(d.rules[i], ua)}

Classify(d, ua) ==
    LET m == SelectInSeq(d.rules, LAMBDA r : Applies(r, ua))
    IN IF m = 0 THEN [epoch |-> d.fallback, dash |-> FALSE]
                ELSE ClassifyRule(d.rules[m], ua)

KeepsDashboard(d, ua) == Classify(d, ua).epoch = EpochModern /\ Classify(d, ua).dash

-----------------------------------------------------------------------------
(* The stylesheet check.                                                   *)

\* "105" -> 104.9, "15.4" -> 15.3, "16" -> 15.9; nothing before version 1.
PreviousVersion(v) ==
    IF v[2] > 0 THEN <<v[1], v[2] - 1>>
    ELSE IF v[1] > 1 THEN <<v[1] - 1, 9>> ELSE NoVersion

\* The User-Agent check_engine() writes for an engine at a version: Chrome
\* and Firefox carry the major number only, every iOS browser Safari's token.
EngineUa(e, v) ==
    LET none == [t \in {"Chrome", "Firefox", "Version", "iPhone OS", "Safari"} |-> NoVersion]
    IN CASE e = "Chrome"  -> [has |-> {"Chrome", "Safari", "AppleWebKit"},
                              ver |-> [none EXCEPT !["Chrome"] = <<v[1], 0>>], simple |-> FALSE]
         [] e = "Firefox" -> [has |-> {"Firefox", "Gecko"},
                              ver |-> [none EXCEPT !["Firefox"] = <<v[1], 0>>], simple |-> FALSE]
         [] e = "Safari"  -> [has |-> {"Safari", "Version", "AppleWebKit"},
                              ver |-> [none EXCEPT !["Version"] = v], simple |-> FALSE]
         [] e = "iOS"     -> [has |-> {"Safari", "Version", "iPhone OS", "AppleWebKit"},
                              ver |-> [none EXCEPT !["Version"] = v, !["iPhone OS"] = v], simple |-> FALSE]

FirstWith(f, e) == IF e = "iOS" THEN f.Safari ELSE f[e]

ServedPage(d, admin, ua) ==
    IF admin THEN KeepsDashboard(d, ua) ELSE Classify(d, ua).epoch = EpochModern

\* check_engine(): whether the version before the feature is still served.
StillServed(d, admin, e, f) ==
    LET before == PreviousVersion(FirstWith(f, e))
    IN before # NoVersion /\ ServedPage(d, admin, EngineUa(e, before))

\* uses(): which features a sheet's text shows is what the sheet says of itself.
Uses(s, f) == f \in s.uses

\* append_stylesheet_warnings() and css_compat_check(), over every theme's sheets.
Warnings(d) ==
    {w \in {<<s, f>> : s \in Sheets, f \in UNION {t.uses : t \in Sheets}} :
        Uses(w[1], w[2]) /\ \E e \in Engines : StillServed(d, w[1].admin, e, w[2])}

-----------------------------------------------------------------------------
(* What the constants are: documents of the collection and of the pages,    *)
(* valid or not; browsers whose every token is followed by a version; and   *)
(* engines whose minor version is one digit, as "16" -> 15.9 supposes,      *)
(* compared over at least the versions the check asks about.                *)

TierType == [from : Int \X Int, epoch : Int, dash : BOOLEAN]
RuleType ==
    [enabled : BOOLEAN, contains : SUBSET STRING, excludes : SUBSET STRING, after : STRING,
     tiers : Seq(TierType), epoch : Int, dash : BOOLEAN]
Documents == [fallback : Int, rules : Seq(RuleType)]

ASSUME BrowsersAssumption ==
    /\ Posted # {} /\ UserAgents # {} /\ MaxAsked \in Nat
    /\ Posted \cup FirstStored \cup {Factory} \subseteq Documents
    /\ Valid(Factory)
    /\ \A ua \in UserAgents :
        /\ ua.simple \in BOOLEAN /\ ua.has \in SUBSET DOMAIN ua.ver
        /\ \A t \in ua.has : ua.ver[t] \in Int \X Int
    /\ Previews \cup {ForceEpoch} \subseteq Int
    /\ ProbeVersions \subseteq (Nat \ {0}) \X (0 .. 9)
    /\ \A s \in Sheets : \A f \in s.uses, e \in Engines :
        /\ FirstWith(f, e) \in Nat \X Nat
        /\ PreviousVersion(FirstWith(f, e)) \in ProbeVersions \cup {NoVersion}

-----------------------------------------------------------------------------
(* Requests.                                                               *)

Idle == [pc |-> "idle", op |-> "none", ua |-> CHOOSE u \in UserAgents : TRUE,
         preview |-> NoPreview, posted |-> NoRules, epoch |-> NoPreview,
         loaded |-> NoRules, warned |-> {}, reply |-> "none", alone |-> TRUE, lost |-> FALSE]

BrInit ==
    /\ stored \in FirstStored
    /\ activeRules = NoRules
    /\ asked = [h \in Handlers |-> Idle]
    /\ count = 0

\* A request arrives; `alone` remembers that no other overlapped it.
Arrive(h) ==
    /\ asked[h].pc = "idle" /\ count < MaxAsked
    /\ count' = count + 1
    /\ \E op \in {"save", "reset", "preview", "page"}, ua \in UserAgents, p \in Previews,
          d \in Posted :
        /\ op \in {"reset", "page"} => d = CHOOSE x \in Posted : TRUE
        /\ asked' = [x \in Handlers |->
              IF x = h
              THEN [Idle EXCEPT !.pc = "epoch", !.op = op, !.ua = ua, !.preview = p,
                                !.posted = d,
                                !.alone = \A y \in Handlers \ {h} : asked[y].pc = "idle"]
              ELSE IF asked[x].pc = "idle" THEN asked[x]
                   ELSE [asked[x] EXCEPT !.alone = FALSE]]
    /\ UNCHANGED <<stored, activeRules>>

\* ensure_active(): the factory rules are installed on first use.
Ensured == IF activeRules = NoRules THEN Factory ELSE activeRules

ResolvedEpoch(r) ==
    IF EpochValid(ForceEpoch) THEN ForceEpoch
    ELSE IF EpochValid(r.preview) THEN r.preview
    ELSE IF r.ua.simple THEN EpochPrestandard
    ELSE Classify(Ensured, r.ua).epoch

ResolveEpoch(h) ==
    /\ asked[h].pc = "epoch"
    /\ activeRules' = IF EpochValid(ForceEpoch) \/ EpochValid(asked[h].preview) \/ asked[h].ua.simple
                 THEN activeRules ELSE Ensured
    /\ asked' = [asked EXCEPT ![h].pc = "gate", ![h].epoch = ResolvedEpoch(asked[h])]
    /\ UNCHANGED <<stored, count>>

\* dashboard_allowed(): the second question, put to the rules active by now.
DashboardAllowed(r) == r.epoch = EpochModern /\ Classify(Ensured, r.ua).dash

Answer(h, reply) == [asked EXCEPT ![h].pc = "answered", ![h].reply = reply]

Gate(h) ==
    /\ asked[h].pc = "gate"
    /\ activeRules' = IF asked[h].epoch = EpochModern THEN Ensured ELSE activeRules
    /\ asked' = IF DashboardAllowed(asked[h]) THEN [asked EXCEPT ![h].pc = "admitted"]
                ELSE Answer(h, "forbidden")
    /\ UNCHANGED <<stored, count>>

\* Whether the browser that saves keeps the dashboard under what it posts.
KeptUnderPosted(r) == KeepsDashboard(r.posted, r.ua)

\* browser_detection_admin_save(): parse, validate, ask whether the browser
\* saving keeps the dashboard, replace the document.
SaveRules(h) ==
    LET r == asked[h]
    IN /\ r.pc = "admitted" /\ r.op = "save"
       /\ \/ /\ ~Valid(r.posted) /\ asked' = Answer(h, "bad") /\ UNCHANGED stored
          \/ /\ Valid(r.posted) /\ ~KeptUnderPosted(r)
             /\ asked' = Answer(h, "conflict") /\ UNCHANGED stored
          \/ /\ Valid(r.posted) /\ KeptUnderPosted(r)
             /\ \/ stored' = r.posted /\ asked' = [asked EXCEPT ![h].pc = "load"]
                \/ asked' = Answer(h, "error") /\ UNCHANGED stored
       /\ UNCHANGED <<activeRules, count>>

\* The reset route ignores what the delete answers and reloads either way.
Reset(h) ==
    /\ asked[h].pc = "admitted" /\ asked[h].op = "reset"
    /\ \/ stored' = NoRules /\ asked' = [asked EXCEPT ![h].pc = "load"]
       \/ asked' = [asked EXCEPT ![h].pc = "load", ![h].lost = TRUE] /\ UNCHANGED stored
    /\ UNCHANGED <<activeRules, count>>

\* cms_browser_detection_load(): NULL for nothing stored, for a document that
\* does not parse or validate, and for a database that does not answer.
Usable(d) == IF ~Valid(d) THEN NoRules ELSE d

Load(h) ==
    /\ asked[h].pc = "load"
    /\ \/ asked' = [asked EXCEPT ![h].pc = "activate", ![h].loaded = Usable(stored)]
       \/ asked' = [asked EXCEPT ![h].pc = "activate", ![h].loaded = NoRules, ![h].lost = TRUE]
    /\ UNCHANGED <<stored, activeRules, count>>

\* browser_detection_activate(): the swap under the write lock.
Activated(d) == IF d = NoRules THEN Factory ELSE d

ActivateRules(h) ==
    /\ asked[h].pc = "activate"
    /\ activeRules' = Activated(asked[h].loaded)
    /\ asked' = Answer(h, "done")
    /\ UNCHANGED <<stored, count>>

\* browser_detection_admin_preview(): what the posted rules would do.
Preview(h) ==
    LET r == asked[h]
    IN /\ r.pc = "admitted" /\ r.op = "preview"
       /\ activeRules' = Ensured
       /\ asked' = IF Valid(r.posted)
                   THEN [Answer(h, "done") EXCEPT ![h].warned = Warnings(r.posted)]
                   ELSE Answer(h, "bad")
       /\ UNCHANGED <<stored, count>>

\* browser_detection_admin_page(): the stored rules, the active ones when
\* nothing can be loaded.
Page(h) ==
    /\ asked[h].pc = "admitted" /\ asked[h].op = "page"
    /\ \E d \in {Usable(stored), NoRules} :
        /\ activeRules' = IF d = NoRules THEN Ensured ELSE activeRules
        /\ asked' = [Answer(h, "done") EXCEPT ![h].loaded = IF d = NoRules THEN Ensured ELSE d]
    /\ UNCHANGED <<stored, count>>

FinishRequest(h) ==
    /\ asked[h].pc = "answered"
    /\ asked' = [asked EXCEPT ![h] = Idle]
    /\ UNCHANGED <<stored, activeRules, count>>

\* The server starts again: main() reloads before it listens.
Restart ==
    /\ asked' = [h \in Handlers |-> Idle]
    /\ \E d \in {Usable(stored), NoRules} : activeRules' = Activated(d)
    /\ UNCHANGED <<stored, count>>

BrNext ==
    \/ \E h \in Handlers : \/ Arrive(h) \/ ResolveEpoch(h) \/ Gate(h) \/ SaveRules(h) \/ Reset(h)
                           \/ Load(h) \/ ActivateRules(h) \/ Preview(h) \/ Page(h) \/ FinishRequest(h)
    \/ Restart

BrSpec == BrInit /\ [][BrNext]_brVars

-----------------------------------------------------------------------------
RuleSets == Posted \cup FirstStored \cup {Factory, NoRules}

BrTypeOK ==
    /\ stored \in RuleSets
    /\ activeRules \in RuleSets /\ (activeRules # NoRules => Valid(activeRules))
    /\ count \in 0 .. MaxAsked
    /\ \A h \in Handlers :
        /\ asked[h].pc \in {"idle", "epoch", "gate", "admitted", "load", "activate", "answered"}
        /\ asked[h].loaded \in RuleSets /\ asked[h].posted \in RuleSets
        /\ asked[h].epoch \in EpochWml .. EpochModern \cup {NoPreview}

\* A save that no other request overlapped, and whose reload reached the
\* database, leaves its rules both stored and in effect, and the browser that
\* saved keeps the dashboard (browser_detection_admin_save refuses any other).
SaverInCharge ==
    \A h \in Handlers :
        asked[h].pc = "answered" /\ asked[h].op = "save" /\ asked[h].reply = "done"
          /\ asked[h].alone /\ ~asked[h].lost
        => /\ stored = asked[h].posted /\ activeRules = stored
           /\ KeepsDashboard(activeRules, asked[h].ua)

\* A reset that no other request overlapped leaves the factory rules in
\* effect now and after every restart.
ResetApplies ==
    \A h \in Handlers :
        asked[h].pc = "answered" /\ asked[h].op = "reset" /\ asked[h].reply = "done"
          /\ asked[h].alone /\ ~asked[h].lost
        => stored = NoRules /\ activeRules = Factory

\* A request admitted while no other ran is one whose own User-Agent the
\* active rules grant the dashboard, whatever ?preview_epoch or force_epoch
\* said of its epoch (dashboard_allowed reads the real User-Agent).
NoLift ==
    \A h \in Handlers :
        asked[h].pc = "admitted" /\ asked[h].alone => Classify(activeRules, asked[h].ua).dash

\* The tier the scan of classify_rule() picks is the highest the version
\* reaches, wherever it stands in the list, and the rule is the first enabled
\* one that matches: what the active rules say of a browser does not depend
\* on the order of a rule's tiers.
Highest(r, v) ==
    LET reached == {i \in DOMAIN r.tiers : AtLeast(v, r.tiers[i].from)}
        top == {i \in reached : \A j \in reached :
                   /\ AtLeast(r.tiers[i].from, r.tiers[j].from)
                   /\ r.tiers[i].from = r.tiers[j].from => i <= j}
    IN IF reached = {} THEN [epoch |-> r.epoch, dash |-> r.dash]
       ELSE LET i == CHOOSE k \in top : TRUE
            IN [epoch |-> r.tiers[i].epoch, dash |-> r.tiers[i].dash]

HighestTierWins ==
    \A ua \in UserAgents :
        \A m \in Matching(activeRules, ua) :
            (\A n \in Matching(activeRules, ua) : m <= n)
            => LET r == activeRules.rules[m]
                   v == VersionRead(r, ua)
               IN Classify(activeRules, ua) =
                    IF v = NoVersion THEN [epoch |-> r.epoch, dash |-> r.dash] ELSE Highest(r, v)

\* For rules that never serve an older version of an engine while they refuse
\* a newer one, a preview that does not warn of a feature is right: no version
\* of any engine from before the feature is served the sheet that uses it.
Monotone(d, admin, e) ==
    \A v, w \in ProbeVersions :
        AtLeast(w, v) /\ ServedPage(d, admin, EngineUa(e, v)) => ServedPage(d, admin, EngineUa(e, w))

WarningsComplete ==
    \A h \in Handlers :
        asked[h].pc = "answered" /\ asked[h].op = "preview" /\ asked[h].reply = "done"
        => \A s \in Sheets, e \in Engines : Monotone(asked[h].posted, s.admin, e) =>
             \A f \in s.uses : <<s, f>> \notin asked[h].warned =>
                 \A v \in ProbeVersions :
                     ~AtLeast(v, FirstWith(f, e))
                     => ~ServedPage(asked[h].posted, s.admin, EngineUa(e, v))

\* Together: the rules stored and in effect, and what they grant a browser, stay
\* what whoever saved or reset them was told, and the preview warned of.
BrowsersInv == BrTypeOK /\ SaverInCharge /\ ResetApplies /\ NoLift /\ HighestTierWins /\ WarningsComplete
=============================================================================
