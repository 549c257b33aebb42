------------------------------- MODULE MCSite -------------------------------
(* The dashboard's collections: languages and texts, and settings (both of  *)
(* Site), users and sessions (Accounts), entries (Entries), and the         *)
(* migrations at start-up (Startup).  They share no state in these models,  *)
(* so a behaviour of this specification is one of exactly one of them.      *)
EXTENDS Site, Startup, Accounts, Entries

ThreeUsers == <<"user1", "user2", "user3">>
TwoCommenters == {"old1", "old2"}
Addresses == [user1 |-> "ana@x", user2 |-> "ana@y", user3 |-> "eva@z", old1 |-> "ana@y", old2 |-> "ana@w"]
NamesOfAddresses == ("ana@x" :> "ana") @@ ("ana@y" :> "ana") @@ ("ana@w" :> "ana") @@ ("eva@z" :> "eva")
Directories == "user3" :> ((<<"ana", 1>> :> 2) @@ (<<"ana", 2>> :> 1))

-----------------------------------------------------------------------------
VARIABLE side
allVars == <<vars, startVars, accountVars, entryVars, side>>

MCInit ==
    /\ side \in {"languages", "settings", "start-up", "accounts", "entries"}
    /\ Init /\ StartInit /\ AccountsInit /\ EntriesInit
    /\ side # "languages" => langs = {}
    /\ side # "entries" => born = <<>>

MCNext ==
    /\ UNCHANGED side
    /\ \/ side = "languages" /\ LanguagesNext /\ UNCHANGED <<startVars, accountVars, entryVars>>
       \/ side = "settings" /\ SettingsNext /\ UNCHANGED <<startVars, accountVars, entryVars>>
       \/ side = "start-up" /\ StartNext /\ UNCHANGED <<vars, accountVars, entryVars>>
       \/ side = "accounts" /\ AccountsNext /\ UNCHANGED <<vars, startVars, entryVars>>
       \/ side = "entries" /\ EntriesNext /\ UNCHANGED <<vars, startVars, accountVars>>

MCSpec == MCInit /\ [][MCNext]_allVars

\* The sides use the same model values, so two permutations serve them all:
\* of the threads, and of the servers, first administrators or entries.
Symmetry == Permutations(Threads) \cup Permutations(Servers)
=============================================================================
