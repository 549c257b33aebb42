----------------------------- MODULE MCClients ------------------------------
(* What old clients meet: browser detection, the WAP gateway and the pages  *)
(* of a WML deck.  They share no state, so a behaviour of this              *)
(* specification is one of exactly one of them.                             *)
EXTENDS Browsers, Wap, Decks

\* Rule sets: the shape of the factory rules, a set that grants older browsers
\* the dashboard and lists its tiers out of order, one that gives an epoch 2
\* browser the flag and has a disabled rule, an invalid one, and one longer
\* than its array.
Tier(from, e, d) == [from |-> from, epoch |-> e, dash |-> d]
Rule(tokens, without, after, tiers) ==
    [enabled |-> TRUE, contains |-> tokens, excludes |-> without, after |-> after,
     tiers |-> tiers, epoch |-> 2, dash |-> FALSE]

IosRule == Rule({"iPhone OS"}, {}, "iPhone OS", <<Tier(<<14, 5>>, 3, FALSE), Tier(<<16, 2>>, 3, TRUE)>>)
ChromeRule == Rule({"Chrome"}, {}, "Chrome", <<Tier(<<87, 0>>, 3, FALSE), Tier(<<111, 0>>, 3, TRUE)>>)
FirefoxRule == Rule({"Firefox"}, {}, "Firefox", <<Tier(<<66, 0>>, 3, FALSE), Tier(<<121, 0>>, 3, TRUE)>>)
SafariRule == Rule({"Safari"}, {"Chrome"}, "Version", <<Tier(<<14, 1>>, 3, FALSE), Tier(<<16, 2>>, 3, TRUE)>>)

FactorySet == [fallback |-> 2, rules |-> <<IosRule, ChromeRule, FirefoxRule, SafariRule>>]
WideSet == [FactorySet EXCEPT !.rules[2].tiers =
               <<Tier(<<99, 0>>, 3, TRUE), Tier(<<15, 10>>, 3, FALSE), Tier(<<15, 9>>, 2, TRUE)>>]
FlagSet == [FactorySet EXCEPT !.rules[2].enabled = FALSE, !.rules[3].tiers[1] = Tier(<<66, 0>>, 2, TRUE),
                             !.rules[4].tiers[2] = Tier(<<15, 0>>, 3, TRUE)]
LongSet == [FactorySet EXCEPT !.rules = <<IosRule>> \o @]
BadSet == [FactorySet EXCEPT !.rules[1].after = NoToken]

SomePosted == {WideSet, FlagSet, LongSet}
SomeStored == {NoRules, Unreadable, WideSet, BadSet}

Ua(t, v) == [has |-> {t}, ver |-> [x \in {t} |-> v], simple |-> FALSE]
SomeAgents == {Ua("Chrome", <<100, 0>>), Ua("Chrome", <<15, 10>>), Ua("Firefox", <<130, 0>>),
               [has |-> {}, ver |-> << >>, simple |-> TRUE]}

HasSelector == [Chrome |-> <<105, 0>>, Firefox |-> <<121, 0>>, Safari |-> <<15, 4>>]
Inset == [Chrome |-> <<87, 0>>, Firefox |-> <<66, 0>>, Safari |-> <<14, 0>>]
SomeSheets == {[uses |-> {Inset}, admin |-> FALSE], [uses |-> {Inset, HasSelector}, admin |-> TRUE]}
SomeVersions == {<<13, 9>>, <<14, 1>>, <<15, 3>>, <<16, 2>>, <<65, 9>>, <<86, 9>>, <<104, 9>>, <<120, 9>>, <<130, 0>>}

-----------------------------------------------------------------------------
\* Cards and sources of a few pieces.
W(k, n) == [kind |-> k, len |-> n, at |-> << >>]
Texts == {<<W("word", 3)>>, <<W("word", 2), W("sep", 1), W("word", 2)>>, <<W("sep", 1)>>,
          <<W("word", 2), W("open", 1)>>, <<W("word", 9), W("word", 1)>>}
Kids == {[kind |-> "text", words |-> t] : t \in Texts} \cup {[kind |-> "el", size |-> 5]}
\* Every word knows its place, so that two alike are told apart.
Placed(b, i) ==
    [k \in DOMAIN b |->
        IF b[k].kind = "text"
        THEN [b[k] EXCEPT !.words = [j \in DOMAIN @ |-> [@[j] EXCEPT !.at = <<i, k, j>>]]]
        ELSE [kind |-> "el", size |-> b[k].size, at |-> <<i, k, 0>>]]
Blocks == UNION {[1 .. n -> Kids] : n \in 0 .. 3}
Others == UNION {[1 .. n -> {[kind |-> "text", words |-> <<W("word", 2), W("sep", 1), W("word", 2)>>],
                             [kind |-> "text", words |-> <<W("sep", 1)>>],
                             [kind |-> "el", size |-> 20]}] : n \in 0 .. 2}
MCDeckSet == {<< >>} \cup {<<Placed(b, 1)>> : b \in Blocks} \cup {<<Placed(b, 1), Placed(c, 2)>> : b \in Blocks, c \in Others}
Tokens == [kind : {"open", "close"}, name : {"a", "b"}] \cup {[kind |-> "leaf", name |-> "br"]}
MCSources == UNION {[1 .. n -> Tokens] : n \in 0 .. 5}
-----------------------------------------------------------------------------
VARIABLE side
allVars == <<brVars, wapVars, deckVars, side>>
MCInit ==
    /\ side \in {"browsers", "wap", "decks"}
    /\ BrInit /\ WapInit /\ DeckInit
    /\ side # "browsers" => stored = NoRules
    /\ side # "decks" => deck = << >> /\ source = << >> /\ phase = "read"
MCNext ==
    /\ UNCHANGED side
    /\ \/ side = "browsers" /\ BrNext /\ UNCHANGED <<wapVars, deckVars>>
       \/ side = "wap" /\ WapNext /\ UNCHANGED <<brVars, deckVars>>
       \/ side = "decks" /\ DeckNext /\ UNCHANGED <<brVars, wapVars>>
MCSpec == MCInit /\ [][MCNext]_allVars
MCSym == Permutations(Handlers) \cup Permutations(Phones)
=============================================================================
