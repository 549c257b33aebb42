----------------------------- MODULE Appearance -----------------------------
(***************************************************************************)
(* What administrators change of the site's looks: the themes' settings    *)
(* (db/cms_themes.c and the themes routes of http_router.c), the theme a   *)
(* visitor is served (utils/request_theme.c), the uploaded fonts           *)
(* (db/cms_fonts.c), the pictures of the WAP edition, kept as a PNG and    *)
(* its WBMP twin, and the favicon.                                         *)
(*                                                                         *)
(* Every value saved is a number: that of the request that saved it, or,   *)
(* for a font, the number of its name; 0 is the empty string.  An uploaded *)
(* file's content is the number of its upload.                             *)
(***************************************************************************)
EXTENDS Naturals, Sequences, FiniteSets

CONSTANTS Admins,          \* requests running at the same time
          ThemeKeys,
          ConfigTheme,     \* the theme of configs/settings.conf, always installed
          FontNames,
          FontFileNames,
          MaxLooks         \* bound on the requests

ASSUME AppearanceAssumption ==
    ConfigTheme \in ThemeKeys /\ FontNames \subseteq Nat \ {0} /\ MaxLooks \in Nat

Parts == {"colors", "logo_font", "banner", "footer", "logo", "blog", "item", "shown", "css"}
NoLook == [op |-> "none", step |-> 0, n |-> 0, key |-> ConfigTheme, todo |-> <<>>, name |-> 0,
           file |-> "none", id |-> 0, fd |-> 0]

VARIABLES
    themeDocs,    \* the themes collection, in natural order
    installed,    \* the directories under html/themes
    active,       \* active_theme of the site settings
    fonts,        \* the fonts collection, by insertion
    fontFiles,    \* html/assets/fonts: file name to upload
    asset,        \* the two files of one epoch -1 picture, 0 when absent
    inodes,       \* the favicon files written, each in two writes
    icon, iconTmp,\* the inode of favicon<N>.ico and of its .tmp, 0 when absent
    look,         \* what each request is doing
    looks,
    saved,        \* history: the last value written of each part
    doubled,      \* history: themes of which two first saves overlapped
    reused,       \* history: font files uploaded again
    mixedAsset,   \* history: requests for the picture overlapped, or its conversion failed
    mixedIcon     \* history: two favicon uploads overlapped

lookVars == <<themeDocs, installed, active, fonts, fontFiles, asset, inodes, icon, iconTmp, look, looks,
              saved, doubled, reused, mixedAsset, mixedIcon>>
themeVars == <<themeDocs, installed, active, saved, doubled>>
fontVars == <<fonts, fontFiles, reused>>
assetVars == <<asset, mixedAsset>>
iconVars == <<inodes, icon, iconTmp, mixedIcon>>

LookInit ==
    /\ themeDocs = <<>> /\ installed = ThemeKeys /\ active \in ThemeKeys
    /\ saved = [k \in ThemeKeys |-> [p \in Parts |-> 0]] /\ doubled = {}
    /\ fonts = <<>> /\ fontFiles = [f \in {} |-> 0] /\ reused = {}
    /\ asset = [png |-> 0, wbmp |-> 0] /\ mixedAsset = FALSE
    /\ inodes = [i \in 1..MaxLooks |-> <<0, 0>>] /\ icon = 0 /\ iconTmp = 0 /\ mixedIcon = FALSE
    /\ look = [a \in Admins |-> NoLook] /\ looks = 0

Take(a, r) ==
    /\ look[a].op = "none" /\ looks < MaxLooks
    /\ look' = [look EXCEPT ![a] = [r EXCEPT !.n = looks + 1]]
    /\ looks' = looks + 1
Turn(a, step) == look' = [look EXCEPT ![a].step = step] /\ UNCHANGED looks
Finish(a) == look' = [look EXCEPT ![a] = NoLook] /\ UNCHANGED looks
Doing(a, op, step) == look[a].op = op /\ look[a].step = step

----------------------------------------------------------------------------
\* Themes.  theme_key_is_valid(): the directory is there.
KeyIsValid(k) == k \in installed

\* The first document of the key is the one read and the one updated.
DocsOf(k) == {i \in DOMAIN themeDocs : themeDocs[i].key = k}
FirstDoc(k) == CHOOSE i \in DocsOf(k) : \A j \in DocsOf(k) : i <= j
Stored(k, p) == IF DocsOf(k) = {} THEN 0 ELSE themeDocs[FirstDoc(k)].parts[p]

Save(a, k, todo) ==
    /\ KeyIsValid(k)
    /\ Take(a, [NoLook EXCEPT !.op = "save", !.key = k, !.todo = todo])
    /\ UNCHANGED <<themeVars, fontVars, assetVars, iconVars>>

\* The field each cms_update_theme_...() sets: a pair of a part and its value.
UpdateThemeColors(v) == <<"colors", v>>
UpdateThemeLogoFont(f) == <<"logo_font", f>>
UpdateThemeLogoConfig(f) == <<"logo", f>>
UpdateThemeCss(v) == <<"css", v>>
UpdateThemeEpochField(p, v) == <<p, v>>

SaveColors(a, k, f) == Save(a, k, <<UpdateThemeColors(looks + 1), UpdateThemeLogoFont(f)>>)
SaveBanner(a, k) == Save(a, k, <<UpdateThemeEpochField("banner", looks + 1)>>)
SaveFooter(a, k) == Save(a, k, <<UpdateThemeEpochField("footer", looks + 1)>>)
SaveHomeBlog(a, k) == Save(a, k, [i \in 1..3 |-> UpdateThemeEpochField(<<"blog", "item", "shown">>[i], looks + 1)])
SaveLogo(a, k, f) == Save(a, k, <<UpdateThemeLogoConfig(f)>>)
SaveCss(a, k) == Save(a, k, <<UpdateThemeCss(looks + 1)>>)
RestoreCss(a, k) == Save(a, k, <<UpdateThemeCss(0)>>)

\* One update_one() with upsert: a $set of one part of the theme's document, which
\* is inserted when there is none.  Nothing makes the key unique, so two first
\* saves may each find none and each insert.
SetPart(k, p, v) == [themeDocs EXCEPT ![FirstDoc(k)].parts[p] = v]

NextPart(a) ==
    LET r == look[a] IN
    /\ look' = [look EXCEPT ![a] = IF Len(r.todo) = 1 THEN NoLook ELSE [r EXCEPT !.todo = Tail(@), !.step = 0]]
    /\ saved' = [saved EXCEPT ![r.key][Head(r.todo)[1]] = Head(r.todo)[2]]
    /\ UNCHANGED <<looks, installed, active, fontVars, assetVars, iconVars>>

UpdatePart(a) ==
    LET r == look[a] IN
    /\ Doing(a, "save", 0)
    /\ DocsOf(r.key) # {}
    /\ themeDocs' = SetPart(r.key, Head(r.todo)[1], Head(r.todo)[2])
    /\ NextPart(a) /\ UNCHANGED doubled

FindNone(a) ==
    /\ Doing(a, "save", 0)
    /\ DocsOf(look[a].key) = {}
    /\ Turn(a, 1)
    /\ UNCHANGED <<themeVars, fontVars, assetVars, iconVars>>

InsertPart(a) ==
    LET r == look[a] IN
    /\ Doing(a, "save", 1)
    /\ themeDocs' = Append(themeDocs, [key |-> r.key, parts |-> [[q \in Parts |-> 0] EXCEPT ![Head(r.todo)[1]] = Head(r.todo)[2]]])
    /\ doubled' = IF DocsOf(r.key) # {} THEN doubled \cup {r.key} ELSE doubled
    /\ NextPart(a)

\* cms_set_active_theme(), and a theme's directory deleted by hand.
Activate(a, k) ==
    /\ look[a].op = "none" /\ looks < MaxLooks /\ KeyIsValid(k)
    /\ active' = k /\ looks' = looks + 1
    /\ UNCHANGED <<themeDocs, installed, saved, doubled, fontVars, assetVars, iconVars, look>>

RemoveTheme(k) ==
    /\ k \in installed \ {ConfigTheme}
    /\ installed' = installed \ {k}
    /\ UNCHANGED <<themeDocs, active, saved, doubled, fontVars, assetVars, iconVars, look, looks>>

\* request_theme_set(): the address's theme, the cookie's, the active one, the
\* configured one, the first that is installed.  A visitor may ask for any.
ActiveTheme == IF KeyIsValid(active) THEN active ELSE ConfigTheme
RequestTheme(query, cookie) ==
    IF KeyIsValid(query) THEN query ELSE IF KeyIsValid(cookie) THEN cookie ELSE ActiveTheme

----------------------------------------------------------------------------
\* Mutant: the record is added before the file is written.
UploadFontLate(a, nm, f) ==
    /\ Take(a, [NoLook EXCEPT !.op = "font", !.step = 2, !.name = nm, !.file = f])
    /\ UNCHANGED <<themeVars, fontVars, assetVars, iconVars>>

\* Fonts: the file is written over one of the same name, then the record added.
UploadFont(a, nm, f) ==
    /\ Take(a, [NoLook EXCEPT !.op = "font", !.step = 1, !.name = nm, !.file = f])
    /\ UNCHANGED <<themeVars, fontVars, assetVars, iconVars>>

\* fopen("wb"): a write that fails has emptied the file, which stays (as 0).
WriteFont(a) ==
    LET r == look[a]
        f == r.file IN
    /\ Doing(a, "font", 1)
    /\ \E n \in {0, r.n} :
        /\ fontFiles' = [g \in DOMAIN fontFiles \cup {f} |-> IF g = f THEN n ELSE fontFiles[g]]
        /\ IF n = 0 THEN Finish(a) ELSE Turn(a, 2)
    /\ reused' = IF f \in DOMAIN fontFiles \/ \E i \in DOMAIN fonts : fonts[i].file = f THEN reused \cup {f} ELSE reused
    /\ UNCHANGED <<fonts, themeVars, assetVars, iconVars>>

AddFont(a) ==
    LET r == look[a] IN
    /\ Doing(a, "font", 2)
    /\ fonts' = Append(fonts, [name |-> r.name, file |-> r.file, n |-> r.n, exists |-> TRUE])
    /\ Finish(a)
    /\ UNCHANGED <<fontFiles, reused, themeVars, assetVars, iconVars>>

\* The file is removed, then the record.
DeleteFont(a, i) ==
    /\ fonts[i].exists
    /\ Take(a, [NoLook EXCEPT !.op = "unfont", !.step = 1, !.id = i, !.file = fonts[i].file])
    /\ UNCHANGED <<themeVars, fontVars, assetVars, iconVars>>

RemoveFontFile(a) ==
    /\ Doing(a, "unfont", 1)
    /\ fontFiles' = [g \in DOMAIN fontFiles \ {look[a].file} |-> fontFiles[g]]
    /\ Turn(a, 2)
    /\ UNCHANGED <<fonts, reused, themeVars, assetVars, iconVars>>

DeleteFontRecord(a) ==
    /\ Doing(a, "unfont", 2)
    /\ fonts' = [fonts EXCEPT ![look[a].id].exists = FALSE]
    /\ Finish(a)
    /\ UNCHANGED <<fontFiles, reused, themeVars, assetVars, iconVars>>

\* splice_theme_colors(): the logo panel's font or else the theme's, found by name.
LogoConfigFont(k) == Stored(k, "logo")
ThemeLogoFont(k) == Stored(k, "logo_font")
LogoFont(k) == IF LogoConfigFont(k) # 0 THEN LogoConfigFont(k) ELSE ThemeLogoFont(k)
FontsNamed(nm) == {i \in DOMAIN fonts : fonts[i].exists /\ fonts[i].name = nm}
FontByName(nm) == CHOOSE i \in FontsNamed(nm) : \A j \in FontsNamed(nm) : i <= j

----------------------------------------------------------------------------
\* The picture of the WAP edition: the PNG is written, then converted; a failed
\* conversion removes it.
BusyAsset == \E a \in Admins : look[a].op \in {"asset", "unasset"}

UploadAsset(a) ==
    /\ Take(a, [NoLook EXCEPT !.op = "asset", !.step = 1])
    /\ mixedAsset' = (mixedAsset \/ BusyAsset)
    /\ UNCHANGED <<asset, themeVars, fontVars, iconVars>>

WritePng(a) ==
    /\ Doing(a, "asset", 1)
    /\ asset' = [asset EXCEPT !.png = look[a].n]
    /\ Turn(a, 2)
    /\ UNCHANGED <<mixedAsset, themeVars, fontVars, iconVars>>

ConvertToWbmp(a) ==
    /\ Doing(a, "asset", 2)
    /\ \/ asset.png # 0 /\ asset' = [asset EXCEPT !.wbmp = asset.png] /\ UNCHANGED mixedAsset
       \/ asset' = [asset EXCEPT !.png = 0] /\ mixedAsset' = (mixedAsset \/ asset.wbmp # 0)
    /\ Finish(a)
    /\ UNCHANGED <<themeVars, fontVars, iconVars>>

\* Either one takes the other along.
Twin(x) == IF x = "png" THEN "wbmp" ELSE "png"

DeleteAsset(a, x) ==
    /\ Take(a, [NoLook EXCEPT !.op = "unasset", !.step = 1, !.file = x])
    /\ mixedAsset' = (mixedAsset \/ BusyAsset)
    /\ UNCHANGED <<asset, themeVars, fontVars, iconVars>>

UnlinkAsset(a) ==
    LET r == look[a] IN
    /\ r.op = "unasset"
    /\ IF r.step = 1
       THEN asset' = [asset EXCEPT ![r.file] = 0] /\ Turn(a, 2)
       ELSE asset' = [asset EXCEPT ![Twin(r.file)] = 0] /\ Finish(a)
    /\ UNCHANGED <<mixedAsset, themeVars, fontVars, iconVars>>

----------------------------------------------------------------------------
\* The favicon: written in two writes to the .tmp, which fopen("wb") empties when it
\* is there, and renamed over the old.
UploadIcon(a) ==
    /\ Take(a, [NoLook EXCEPT !.op = "icon", !.step = 1])
    /\ mixedIcon' = (mixedIcon \/ \E b \in Admins : look[b].op = "icon")
    /\ UNCHANGED <<inodes, icon, iconTmp, themeVars, fontVars, assetVars>>

Opened(a, i) ==
    /\ look' = [look EXCEPT ![a].step = 2, ![a].fd = i]
    /\ inodes' = [inodes EXCEPT ![i] = <<0, 0>>]
    /\ UNCHANGED <<looks, mixedIcon, themeVars, fontVars, assetVars>>

OpenIcon(a) ==
    LET i == IF iconTmp # 0 THEN iconTmp ELSE look[a].n IN
    /\ Doing(a, "icon", 1)
    /\ iconTmp' = i /\ Opened(a, i) /\ UNCHANGED icon

\* A write that fails unlinks the .tmp.
WriteIcon(a) ==
    LET r == look[a] IN
    /\ r.op = "icon" /\ r.step \in {2, 3}
    /\ \/ /\ inodes' = [inodes EXCEPT ![r.fd][r.step - 1] = r.n]
          /\ Turn(a, r.step + 1) /\ UNCHANGED iconTmp
       \/ iconTmp' = 0 /\ Finish(a) /\ UNCHANGED inodes
    /\ UNCHANGED <<icon, mixedIcon, themeVars, fontVars, assetVars>>

RenameIcon(a) ==
    /\ Doing(a, "icon", 4)
    /\ icon' = IF iconTmp # 0 THEN iconTmp ELSE icon
    /\ iconTmp' = 0
    /\ Finish(a)
    /\ UNCHANGED <<inodes, mixedIcon, themeVars, fontVars, assetVars>>

DeleteIcon(a) ==
    /\ look[a].op = "none" /\ looks < MaxLooks /\ icon # 0
    /\ icon' = 0 /\ looks' = looks + 1
    /\ UNCHANGED <<inodes, iconTmp, mixedIcon, look, themeVars, fontVars, assetVars>>

----------------------------------------------------------------------------
ThemeStep(a) ==
    \/ \E k \in ThemeKeys :
        \/ SaveBanner(a, k) \/ SaveFooter(a, k) \/ SaveHomeBlog(a, k) \/ SaveCss(a, k) \/ RestoreCss(a, k) \/ Activate(a, k)
        \/ \E f \in FontNames : SaveColors(a, k, f) \/ SaveLogo(a, k, f)
    \/ UpdatePart(a) \/ FindNone(a) \/ InsertPart(a)
FontStep(a) ==
    \/ \E nm \in FontNames, f \in FontFileNames : UploadFont(a, nm, f)
    \/ WriteFont(a) \/ AddFont(a) \/ RemoveFontFile(a) \/ DeleteFontRecord(a)
    \/ \E i \in DOMAIN fonts : DeleteFont(a, i)
AssetStep(a) ==
    UploadAsset(a) \/ WritePng(a) \/ ConvertToWbmp(a) \/ (\E x \in {"png", "wbmp"} : DeleteAsset(a, x)) \/ UnlinkAsset(a)
IconStep(a) == UploadIcon(a) \/ OpenIcon(a) \/ WriteIcon(a) \/ RenameIcon(a) \/ DeleteIcon(a)

\* Settings and fonts on one side, pictures and the favicon on the other: they share
\* nothing but the administrators' time.
ThemesNext == (\E a \in Admins : ThemeStep(a) \/ FontStep(a)) \/ (\E k \in ThemeKeys : RemoveTheme(k))
FilesNext == \E a \in Admins : AssetStep(a) \/ IconStep(a)
LookNext == ThemesNext \/ FilesNext

LookSpec == LookInit /\ [][LookNext]_lookVars

----------------------------------------------------------------------------
\* Every variable holds what its collection, file or request can hold; a theme read
\* is always a theme installed, whatever an address or an old cookie names.
LookTypeOK ==
    /\ \A i \in DOMAIN themeDocs : themeDocs[i].key \in ThemeKeys /\ DOMAIN themeDocs[i].parts = Parts
    /\ active \in ThemeKeys /\ looks \in 0..MaxLooks
    /\ \A q, c \in ThemeKeys : RequestTheme(q, c) \in installed
    /\ \A i \in DOMAIN fonts : fonts[i].file \in FontFileNames /\ fonts[i].n \in 1..looks
    /\ icon \in 0..MaxLooks /\ iconTmp \in 0..MaxLooks /\ asset.png \in 0..looks /\ asset.wbmp \in 0..looks

\* What was saved of a theme is what its pages show until that part is saved again,
\* however the saves of its parts interleave, once the theme has its document.
SavedShown == \A k \in ThemeKeys \ doubled, p \in Parts : Stored(k, p) = saved[k][p]

\* A page that names an uploaded font names a file that is there and is that font's,
\* unless the file is being deleted or its name was used twice.
FontServed ==
    \A k \in ThemeKeys :
        LET nm == LogoFont(k) IN
        FontsNamed(nm) # {} =>
            LET f == fonts[FontByName(nm)] IN
            \/ f.file \in reused \/ \E a \in Admins : look[a].op = "unfont" /\ look[a].file = f.file
            \/ f.file \in DOMAIN fontFiles /\ fontFiles[f.file] = f.n

\* The PNG and the WBMP of a picture stay a pair of the same upload.
AssetPairs == ~BusyAsset /\ ~mixedAsset => asset.png = asset.wbmp

Whole(i) == inodes[i][1] # 0 /\ inodes[i][1] = inodes[i][2]

\* Whatever write fails, the favicon served is one whole upload, unless two uploads
\* ran at once.
FaviconWhole == icon # 0 /\ ~mixedIcon => Whole(icon)

\* Together: what was saved of the site's looks is what its pages show and its
\* files hold, whatever saves and uploads interleave or fail half-way.
LookInv == LookTypeOK /\ SavedShown /\ FontServed /\ AssetPairs /\ FaviconWhole
=============================================================================
