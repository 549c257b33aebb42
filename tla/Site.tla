-------------------------------- MODULE Site --------------------------------
(***************************************************************************)
(* What the administrators set for the whole site: the content languages   *)
(* (db/cms_languages.c, utils/request_lang.c), the names of categories and *)
(* menu items in those languages (db/cms_categories.c, db/cms_menu.c), the *)
(* settings singleton and the secret kept in it (db/cms_site_settings.c),  *)
(* with their routes.                                                      *)
(*                                                                         *)
(* The database has no unique index on any of these collections: each read *)
(* and each write of a handler is a step of its own.  Texts are "" or a    *)
(* text; what a category or a menu item is beyond its name is left out.    *)
(***************************************************************************)
EXTENDS Naturals, Sequences, FiniteSets, SequencesExt, TLC

CONSTANTS Threads,       \* requests running at the same time
          Servers,       \* server processes on one database
          Codes,         \* LANGUAGE_CATALOG
          English,       \* "en"
          FallbackLang,  \* iso_lang(lang) of settings.conf
          Fields,        \* settings an administrator may save
          MaxDocs,       \* bound on the language documents ever inserted
          MaxRequests    \* bound on the requests

ASSUME SiteAssumption ==
    /\ English \in Codes /\ FallbackLang \in Codes
    /\ "secret" \notin Fields
    /\ MaxDocs \in Nat \ {0} /\ MaxRequests \in Nat

Texts == {"", "text"}
None == "none"

VARIABLES
    langs,     \* the languages collection: id, code, is_default
    lastId,
    version,   \* history: writes of the languages
    raced,     \* history: a languages write came from a request that had read
               \* the collection before another one wrote it
    broken,    \* history: a write failed after one that it was to complete
    items,     \* a category and a menu item: their name by language, and enabled
    meant,     \* history: the texts of the last form of each, as submitted
    itemRev,   \* history: writes of the items or of the languages
    overtaken, \* history: a form was saved over a write made since it was opened
    settings,  \* the documents of site_settings, oldest first
    saved,     \* history: the settings answered as saved
    secret,    \* secret_cache of each server
    req,       \* what each thread or server is doing
    requests

languageVars == <<langs, lastId, version, raced, broken>>
itemVars == <<items, meant, itemRev, overtaken>>
settingVars == <<settings, saved, secret>>
vars == <<languageVars, itemVars, settingVars, req, requests>>

Idle == [at |-> "idle"]
NoDoc == [f \in {} |-> None]
Kinds == {"category", "menu"}
Gone == [name |-> NoDoc, enabled |-> FALSE, gone |-> TRUE]

Init ==
    /\ \/ langs = {} /\ lastId = 0 /\ version = 0
       \/ langs = {[id |-> 1, code |-> English, default |-> TRUE]} /\ lastId = 1 /\ version = 1
    /\ raced = FALSE /\ broken = FALSE
    /\ items = [k \in Kinds |-> Gone] /\ meant = [k \in Kinds |-> NoDoc]
    /\ itemRev = 0 /\ overtaken = FALSE
    /\ settings = <<>> /\ saved = NoDoc /\ secret = [s \in Servers |-> None]
    /\ req = [p \in Threads \cup Servers |-> Idle] /\ requests = 0

Begin(p, r) ==
    /\ req[p] = Idle
    /\ requests < MaxRequests
    /\ requests' = requests + 1
    /\ req' = [req EXCEPT ![p] = r]

Done(p) == req' = [req EXCEPT ![p] = Idle] /\ UNCHANGED requests

-----------------------------------------------------------------------------
(* Languages.                                                              *)

\* cms_get_languages().
Configured == {d.code : d \in langs}

\* cms_resolve_default_lang(): the first default found, whichever it is.
DefaultLangs ==
    IF \E d \in langs : d.default THEN {d.code : d \in {e \in langs : e.default}} ELSE {FallbackLang}

\* request_lang_set().
Served(query, cookie) ==
    IF query \in Configured THEN {query}
    ELSE IF cookie \in Configured THEN {cookie}
    ELSE DefaultLangs

\* A write of the languages by p, which read them at version v.
WriteLangs(v, new) ==
    /\ langs' = new
    /\ version' = version + 1
    /\ itemRev' = itemRev + 1
    /\ raced' = (raced \/ v # version)
    /\ UNCHANGED <<items, meant, overtaken, settingVars>>

\* POST /dashboard/languages/add: what cms_add_language() counts.
AddLanguage(p, c) ==
    /\ c \notin Configured
    /\ Begin(p, [at |-> "insert", code |-> c, first |-> langs = {}, version |-> version])
    /\ UNCHANGED <<languageVars, itemVars, settingVars>>

\* The insert of cms_add_language().
InsertLanguage(p) ==
    /\ req[p].at = "insert"
    /\ lastId < MaxDocs
    /\ lastId' = lastId + 1
    /\ WriteLangs(req[p].version,
                  langs \cup {[id |-> lastId', code |-> req[p].code, default |-> req[p].first]})
    /\ Done(p)
    /\ UNCHANGED broken

\* cms_languages_ensure_seeded() of a server that starts.
SeedLanguages(s) ==
    /\ langs = {}
    /\ Begin(s, [at |-> "insert", code |-> English, first |-> TRUE, version |-> version])
    /\ UNCHANGED <<languageVars, itemVars, settingVars>>

\* POST /dashboard/languages/<code>/default: cms_set_default_language() needs
\* exactly one document of that code.
ChooseDefault(p, c) ==
    /\ Cardinality({d \in langs : d.code = c}) = 1
    /\ Begin(p, [at |-> "clear", code |-> c, version |-> version])
    /\ UNCHANGED <<languageVars, itemVars, settingVars>>

ClearDefault(p) ==
    /\ req[p].at = "clear"
    /\ WriteLangs(req[p].version, {[d EXCEPT !.default = FALSE] : d \in langs})
    /\ req' = [req EXCEPT ![p] = [at |-> "set", code |-> req[p].code, version |-> version']]
    /\ UNCHANGED <<lastId, broken, requests>>

SetDefault(p) ==
    /\ req[p].at = "set"
    /\ \/ LET found == {d \in langs : d.code = req[p].code}
          IN  \/ \E d \in found :
                    WriteLangs(req[p].version, (langs \ {d}) \cup {[d EXCEPT !.default = TRUE]})
              \/ found = {} /\ WriteLangs(req[p].version, langs)
          /\ UNCHANGED broken
       \/ broken' = TRUE /\ UNCHANGED <<langs, version, raced, itemVars, settingVars>>
    /\ Done(p)
    /\ UNCHANGED lastId

\* POST /dashboard/languages/<code>/remove: what cms_remove_language() asks.
RemoveLanguage(p, c) ==
    /\ Cardinality(langs) > 1
    /\ \E d \in langs : d.code = c /\ ~d.default
    /\ Begin(p, [at |-> "remove", code |-> c, version |-> version])
    /\ UNCHANGED <<languageVars, itemVars, settingVars>>

\* delete_one() of cms_remove_language(), which may match nothing by now.
DropLanguage(p) ==
    /\ req[p].at = "remove"
    /\ LET found == {d \in langs : d.code = req[p].code}
       IN  \/ \E d \in found : WriteLangs(req[p].version, langs \ {d})
           \/ found = {} /\ UNCHANGED <<langs, version, raced, itemVars, settingVars>>
    /\ Done(p)
    /\ UNCHANGED <<lastId, broken>>

-----------------------------------------------------------------------------
(* A category and a menu item, named in every language.                    *)

\* resolve_lang_map(): a stored empty text hides the English one.
ResolveLangMap(map, c) ==
    IF c \in DOMAIN map THEN map[c] ELSE IF English \in DOMAIN map THEN map[English] ELSE ""

\* cms_get_menu_items() and build_menu(): the enabled item, by its name.
MenuShows(c) == IF items["menu"].enabled THEN {ResolveLangMap(items["menu"].name, c)} ELSE {}

\* cms_get_categories().
CategoriesShow(c) ==
    IF items["category"].gone THEN {} ELSE {ResolveLangMap(items["category"].name, c)}

\* exact_lang_value().
ExactLangValue(map, c) == IF c \in DOMAIN map THEN map[c] ELSE ""

\* A form is opened: its page has a field for each language.
OpenForm(p, k, page) ==
    /\ Begin(p, [at |-> "form", kind |-> k, page |-> page, new |-> items[k].gone, rev |-> itemRev])
    /\ UNCHANGED <<languageVars, itemVars, settingVars>>

\* cms_get_category_name_values(), cms_get_menu_item_values().
StoredName(k) == [c \in Configured |-> ExactLangValue(items[k].name, c)]

\* The pages /dashboard/categories/new, /dashboard/categories/<id>/edit and
\* the same of the menu; one item of each kind is followed.
NewCategoryForm(p) == items["category"].gone /\ OpenForm(p, "category", [c \in Configured |-> ""])
EditCategoryForm(p) == ~items["category"].gone /\ OpenForm(p, "category", StoredName("category"))
NewMenuForm(p) == items["menu"].gone /\ OpenForm(p, "menu", [c \in Configured |-> ""])
EditMenuForm(p) == ~items["menu"].gone /\ OpenForm(p, "menu", StoredName("menu"))

\* parse_category_form(): a field the page had not is "".
ParseCategoryForm(form, codes) == [c \in codes |-> ExactLangValue(form, c)]

\* parse_menu_form(), which also reads the checkbox.
ParseMenuForm(form, codes) == [c \in codes |-> ExactLangValue(form, c)]

\* The fields of p's page, some texts typed over.
Filled(p, typed) == [c \in DOMAIN req[p].page |-> IF c \in DOMAIN typed THEN typed[c] ELSE req[p].page[c]]

\* A form is posted, and what was parsed of it is to be stored.
Submit(p, form, name, enabled) ==
    /\ req' = [req EXCEPT ![p] = [at |-> "save", kind |-> req[p].kind, new |-> req[p].new, form |-> form,
                                  doc |-> [name |-> name, enabled |-> enabled, gone |-> FALSE],
                                  rev |-> req[p].rev]]
    /\ UNCHANGED <<languageVars, itemVars, settingVars, requests>>

\* POST /dashboard/categories/new and .../edit: the languages are read again.
SubmitCategory(p, typed) ==
    /\ req[p].at = "form" /\ req[p].kind = "category"
    /\ Submit(p, Filled(p, typed), ParseCategoryForm(Filled(p, typed), Configured), TRUE)

\* POST /dashboard/menu/new and .../edit.
SubmitMenuItem(p, typed, enabled) ==
    /\ req[p].at = "form" /\ req[p].kind = "menu"
    /\ Submit(p, Filled(p, typed), ParseMenuForm(Filled(p, typed), Configured), enabled)

\* A write of the item of p's form.
WriteItem(p, k, doc) ==
    /\ items' = [items EXCEPT ![k] = doc]
    /\ meant' = [meant EXCEPT ![k] = req[p].form]
    /\ itemRev' = itemRev + 1
    /\ overtaken' = (overtaken \/ req[p].rev # itemRev)
    /\ Done(p)
    /\ UNCHANGED <<languageVars, settingVars>>

\* cms_create_category(), cms_create_menu_item().
CreateCategory(p) ==
    req[p].at = "save" /\ req[p].kind = "category" /\ req[p].new /\ WriteItem(p, "category", req[p].doc)
CreateMenuItem(p) ==
    req[p].at = "save" /\ req[p].kind = "menu" /\ req[p].new /\ WriteItem(p, "menu", req[p].doc)

\* Mutant: only the first language's text is written.
UpdateOneName(p) ==
    /\ req[p].at = "save" /\ req[p].kind = "category" /\ ~req[p].new
    /\ WriteItem(p, "category", IF items["category"].gone THEN Gone
                                ELSE [req[p].doc EXCEPT !.name = [c \in DOMAIN @ |->
                                                                    IF c = English THEN @[c] ELSE ""]])

\* cms_update_category() writes the whole name; one that is gone stays gone.
UpdateCategory(p) ==
    /\ req[p].at = "save" /\ req[p].kind = "category" /\ ~req[p].new
    /\ WriteItem(p, "category", IF items["category"].gone THEN Gone ELSE req[p].doc)

\* cms_update_menu_item().
UpdateMenuItem(p) ==
    /\ req[p].at = "save" /\ req[p].kind = "menu" /\ ~req[p].new
    /\ WriteItem(p, "menu", IF items["menu"].gone THEN Gone ELSE req[p].doc)

\* A delete, by its button on the list.
DeleteItem(p, k) ==
    /\ ~items[k].gone
    /\ Begin(p, Idle)
    /\ items' = [items EXCEPT ![k] = Gone]
    /\ meant' = [meant EXCEPT ![k] = NoDoc]
    /\ itemRev' = itemRev + 1
    /\ UNCHANGED <<languageVars, overtaken, settingVars>>

\* cms_delete_category(), cms_delete_menu_item().
DeleteCategory(p) == DeleteItem(p, "category")
DeleteMenuItem(p) == DeleteItem(p, "menu")

-----------------------------------------------------------------------------
(* The settings singleton and its secret.                                  *)

\* A document with the field f at v.
Put(doc, f, v) == [g \in DOMAIN doc \cup {f} |-> IF g = f THEN v ELSE doc[g]]

\* Every read of site_settings takes the first document.
Read(f) == IF settings # <<>> /\ f \in DOMAIN settings[1] THEN settings[1][f] ELSE None

\* $set on the first document.
Set(f, v) == [settings EXCEPT ![1] = Put(@, f, v)]

\* The posts of /dashboard/settings that save the field f through
\* upsert_set(): an upsert that finds a document updates it at once.
SaveSetting(p, f, v) ==
    /\ IF settings # <<>>
       THEN Begin(p, Idle) /\ settings' = Set(f, v) /\ saved' = Put(saved, f, v)
       ELSE Begin(p, [at |-> "upsert", field |-> f, value |-> v]) /\ UNCHANGED <<settings, saved>>
    /\ UNCHANGED <<languageVars, itemVars, secret>>

\* An upsert that found none inserts one, even if another did meanwhile.
InsertSettings(p) ==
    /\ req[p].at = "upsert"
    /\ settings' = Append(settings, Put(NoDoc, req[p].field, req[p].value))
    /\ saved' = Put(saved, req[p].field, req[p].value)
    /\ Done(p)
    /\ UNCHANGED <<languageVars, itemVars, secret>>

\* cms_get_site_secret() of a server that has none cached.
WantSecret(s) ==
    /\ secret[s] = None
    /\ IF Read("secret") # None
       THEN Begin(s, Idle) /\ secret' = [secret EXCEPT ![s] = Read("secret")]
       ELSE Begin(s, [at |-> IF settings = <<>> THEN "make" ELSE "draw"]) /\ UNCHANGED secret
    /\ UNCHANGED <<languageVars, itemVars, settings, saved>>

\* The upsert of the singleton, which found none.
MakeSettings(s) ==
    /\ req[s].at = "make"
    /\ settings' = Append(settings, NoDoc)
    /\ req' = [req EXCEPT ![s] = [at |-> "draw"]]
    /\ UNCHANGED <<languageVars, itemVars, saved, secret, requests>>

\* Mutant: the secret is written whether or not there is one.
DrawSecretAnyway(s) ==
    /\ req[s].at = "draw"
    /\ settings' = Set("secret", s)
    /\ req' = [req EXCEPT ![s] = [at |-> "read"]]
    /\ UNCHANGED <<languageVars, itemVars, saved, secret, requests>>

\* The update of the first document without a secret; the secret s draws is s.
DrawSecret(s) ==
    /\ req[s].at = "draw"
    /\ LET without == {i \in DOMAIN settings : "secret" \notin DOMAIN settings[i]}
       IN  IF without = {} THEN UNCHANGED settings
           ELSE LET i == CHOOSE j \in without : \A k \in without : j <= k
                IN  settings' = [settings EXCEPT ![i] = Put(@, "secret", s)]
    /\ req' = [req EXCEPT ![s] = [at |-> "read"]]
    /\ UNCHANGED <<languageVars, itemVars, saved, secret, requests>>

\* read_secret() again, and the cache.
CacheSecret(s) ==
    /\ req[s].at = "read"
    /\ secret' = [secret EXCEPT ![s] = Read("secret")]
    /\ Done(s)
    /\ UNCHANGED <<languageVars, itemVars, settings, saved>>

-----------------------------------------------------------------------------

LanguagesNext ==
    \/ \E p \in Threads :
        \/ \E c \in Codes : AddLanguage(p, c) \/ ChooseDefault(p, c) \/ RemoveLanguage(p, c)
        \/ ClearDefault(p) \/ SetDefault(p) \/ DropLanguage(p)
        \/ NewCategoryForm(p) \/ EditCategoryForm(p) \/ NewMenuForm(p) \/ EditMenuForm(p)
        \/ \E codes \in SUBSET Codes : \E typed \in [codes -> Texts] :
                SubmitCategory(p, typed) \/ \E enabled \in BOOLEAN : SubmitMenuItem(p, typed, enabled)
        \/ CreateCategory(p) \/ UpdateCategory(p) \/ DeleteCategory(p)
        \/ CreateMenuItem(p) \/ UpdateMenuItem(p) \/ DeleteMenuItem(p)
    \/ \E p \in Threads \cup Servers : InsertLanguage(p)
    \/ \E s \in Servers : SeedLanguages(s)

SettingsNext ==
    \/ \E p \in Threads :
        \/ InsertSettings(p)
        \/ \E f \in Fields, v \in {"off", "on"} : SaveSetting(p, f, v)
    \/ \E s \in Servers : WantSecret(s) \/ MakeSettings(s) \/ DrawSecret(s) \/ CacheSecret(s)

Next == LanguagesNext \/ SettingsNext

Spec == Init /\ [][Next]_vars

-----------------------------------------------------------------------------
(* Properties.                                                             *)

TypeOK ==
    /\ langs \subseteq [id : 1 .. MaxDocs, code : Codes, default : BOOLEAN]
    /\ \A d, e \in langs : d.id = e.id => d = e
    /\ \A k \in Kinds : DOMAIN items[k].name \subseteq Codes
    /\ \A k \in Kinds, c \in Codes : c \in DOMAIN items[k].name => items[k].name[c] \in Texts
    /\ \A i \in DOMAIN settings : DOMAIN settings[i] \subseteq Fields \cup {"secret"}
    /\ secret \in [Servers -> Servers \cup {None}]

\* The languages have been seeded, no request wrote them after another had
\* overtaken it, no write failed half-way, and no change of default is under way.
Settled == version > 0 /\ ~raced /\ ~broken /\ \A p \in Threads : req[p].at # "set"

\* Then there is one default language, so at least one language, and none twice.
OneDefault ==
    Settled => /\ Cardinality({d \in langs : d.default}) = 1
               /\ \A d, e \in langs : d.code = e.code => d = e

\* Then a visitor reads the site in a language that it has, whatever
\* language their link or their cookie names.
ServedIsConfigured ==
    Settled => \A query, cookie \in Codes \cup {None} : Served(query, cookie) \subseteq Configured

\* Unless a form was saved over a write made since it was opened, visitors
\* read a category and an enabled menu item, in every language its last form
\* showed and the site still has, by the text of that form.
TextShown ==
    overtaken \/
    \A c \in Configured :
        /\ c \in DOMAIN meant["category"] => CategoriesShow(c) = {meant["category"][c]}
        /\ c \in DOMAIN meant["menu"] /\ items["menu"].enabled => MenuShows(c) = {meant["menu"][c]}

\* "two servers starting together both end up reading the same one", even if
\* both create the singleton.
SecretAgreed == \A s, t \in Servers : None \in {secret[s], secret[t]} \/ secret[s] = secret[t]

\* A setting answered as saved is the one that is read, unless first saves
\* overlapped and made a second document.
SavedIsRead == Len(settings) <= 1 => \A f \in DOMAIN saved : Read(f) = saved[f]

\* The languages, and the texts visitors read in them.
LanguagesInv == TypeOK /\ OneDefault /\ ServedIsConfigured /\ TextShown

\* The settings singleton and its secret, however many servers and
\* administrators make it.
SettingsInv == SecretAgreed /\ SavedIsRead
=============================================================================
