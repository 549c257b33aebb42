----------------------------- MODULE MCLibrary ------------------------------
(* Small instances of Media and Appearance, in one run. *)
EXTENDS Media, Appearance, TLC
PlainStems == {<<"a">>}

\* The media library and the site's looks share no state: a behaviour of this
\* specification is one of exactly one of them.
VARIABLE side
allVars == <<mediaVars, lookVars, side>>
MCInit ==
    /\ side \in {"media", "themes", "files"}
    /\ MediaInit /\ LookInit
    /\ side # "themes" => active = ConfigTheme
MCNext ==
    /\ UNCHANGED side
    /\ \/ side = "media" /\ MediaNext /\ UNCHANGED lookVars
       \/ side = "themes" /\ ThemesNext /\ UNCHANGED mediaVars
       \/ side = "files" /\ FilesNext /\ UNCHANGED mediaVars
MCSpec == MCInit /\ [][MCNext]_allVars
MCSym == Permutations(MediaThreads) \cup Permutations(Admins)
=============================================================================
