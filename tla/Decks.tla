------------------------------- MODULE Decks --------------------------------
(***************************************************************************)
(* WML decks for phones (wap_gateway/wbxml.c): the tolerant reader that    *)
(* turns a deck's source into a tree (parse_wml), and the pagination that  *)
(* packs a card's blocks into pages of one datagram each (paged_build and  *)
(* split_to_fit), splitting a block between two of its children or inside  *)
(* a text child between two words.                                         *)
(*                                                                         *)
(* A block is a sequence of children; a child is an element of some size   *)
(* or a text, a sequence of words.  A word has a place in the deck, a      *)
(* length and a kind: "word" shows something, "sep" is a bare separator    *)
(* ("|", ","), "open" an opening bracket.  Sizes are those of the compiled *)
(* form: an inline string costs 2 bytes around its text, an element with   *)
(* content 2 around that.                                                  *)
(***************************************************************************)
EXTENDS Integers, Sequences, FiniteSets, SequencesExt, FiniteSetsExt

CONSTANTS
    SomeDecks,      \* the cards to paginate
    PageBytes,      \* WAP_PAGE_BYTES
    NavCost,        \* room for the Prev and Next links of this address
    CardCost,       \* an empty card under its longest title, without filler
    NumberCost,     \* the page number in that title, which a card sent whole has not
    MinLimit,       \* the least room a page is given whatever its links cost
    MinHead,        \* MIN_SPLIT_HEAD_BYTES
    Sources,        \* the token sequences to read
    MaxDepth        \* the reader's stack, 64 in the code

DeckWord == [kind : {"word", "sep", "open"}, len : Nat, at : Seq(Nat)]
DeckText == [kind : {"text"}, words : Seq(DeckWord) \ {<< >>}]
DeckElement == [kind : {"el"}, size : Nat, at : Seq(Nat)]
DeckKid == DeckText \cup DeckElement
DeckBlock == Seq(DeckKid)
Token == [kind : {"open", "close", "leaf"}, name : STRING]

Filler == 3

\* A page has room for an empty card: its title is cut at 30 bytes.
ASSUME DeckAssumption ==
    /\ {PageBytes, NavCost, CardCost, NumberCost, MinLimit, MinHead, MaxDepth} \subseteq Nat
    /\ CardCost + Filler <= PageBytes
    /\ SomeDecks \subseteq Seq(DeckBlock) /\ Sources \subseteq Seq(Token)

VARIABLES
    deck,       \* the card given
    queue,      \* the blocks, and rests of blocks, still to place
    cur,        \* the page being filled
    pages,      \* the pages done
    source,     \* the tokens given to the reader
    pos,        \* how many of them it has read
    stack,      \* the reader's stack of open elements
    tree,       \* who was added under whom: a set of <<child, parent>>
    phase       \* "read", "fit", "pack" or "done"

deckVars == <<deck, queue, cur, pages, source, pos, stack, tree, phase>>

-----------------------------------------------------------------------------
(* Sizes, as compile_node() and compile_card() write them.                 *)

Total(ns) ==
    LET t[n \in 0 .. Len(ns)] == IF n = 0 THEN 0 ELSE t[n - 1] + ns[n]
    IN t[Len(ns)]

TextBytes(ws) == Total([i \in DOMAIN ws |-> ws[i].len]) + (Len(ws) - 1)

KidSize(k) == IF k.kind = "text" THEN 2 + TextBytes(k.words) ELSE k.size

BlockSize(b) ==
    IF b = << >> THEN 1 ELSE 2 + Total([i \in DOMAIN b |-> KidSize(b[i])])

CardSize(bs) ==
    CardCost + (IF bs = << >> THEN Filler ELSE Total([i \in DOMAIN bs |-> BlockSize(bs[i])]))

WholeSize(bs) == CardSize(bs) - NumberCost

PageSizeWith(bs, extra) == CardSize(Append(bs, extra))

Limit == IF PageBytes > NavCost + MinLimit THEN PageBytes - NavCost ELSE MinLimit

-----------------------------------------------------------------------------
(* Splitting a block.                                                      *)

Text(ws) == [kind |-> "text", words |-> ws]

IsText(b, i) == i \in DOMAIN b /\ b[i].kind = "text"

\* prefix_of(): the first m children and, of text child m + 1, its first c words.
PrefixOf(b, m, c) ==
    SubSeq(b, 1, m) \o (IF c > 0 THEN <<Text(SubSeq(b[m + 1].words, 1, c))>> ELSE << >>)

\* The most children that fit what is left of the page.
FittingKids(page, b) ==
    Max({m \in 0 .. Len(b) :
           \A n \in 1 .. m : PageSizeWith(page, PrefixOf(b, n, 0)) <= Limit})

\* The most words of the text child at the edge that still fit.
FittingWords(page, b, m) ==
    IF ~IsText(b, m + 1) THEN 0
    ELSE Max({c \in 0 .. Len(b[m + 1].words) :
                c = 0 \/ PageSizeWith(page, PrefixOf(b, m, c)) <= Limit})

\* trim_dangling_tail(): up to the last word that can end a line.
TrimmedTail(ws) == Max({0} \cup {i \in DOMAIN ws : ws[i].kind = "word"})

\* Mutant: whatever is not a word is skipped.
SkippedToWord(ws) ==
    LET n == SelectInSeq(ws, LAMBDA w : w.kind = "word") IN IF n = 0 THEN << >> ELSE SubSeq(ws, n, Len(ws))

\* skip_leading_separators(): past the bare separators a rest would open with.
SkippedSeparators(ws) ==
    LET n == SelectInSeq(ws, LAMBDA w : w.kind # "sep") IN IF n = 0 THEN << >> ELSE SubSeq(ws, n, Len(ws))

\* Where split_to_fit() cuts: after m children and c words of the next.  A cut
\* between children whose head would end in a dangling separator or bracket
\* backs up into that child.
Cut(page, b) ==
    LET m == FittingKids(page, b)
        c == FittingWords(page, b, m)
        keep == TrimmedTail(b[m].words)
    IN IF c = 0 /\ m > 0 /\ IsText(b, m) /\ keep < Len(b[m].words)
       THEN <<m - 1, keep>> ELSE <<m, c>>

\* The cut as a refusal leaves it: nothing would stay on the page.
CanSplit(page, b) ==
    /\ b # << >>
    /\ FittingKids(page, b) < Len(b)
    /\ Cut(page, b) # <<0, 0>>

\* What closes this page.
HeadOf(page, b) == PrefixOf(b, Cut(page, b)[1], Cut(page, b)[2])

\* What starts the next page.
Rest(page, b) ==
    LET m == Cut(page, b)[1]
        c == Cut(page, b)[2]
    IN IF ~IsText(b, m + 1) THEN SubSeq(b, m + 1, Len(b))
       ELSE LET after == SkippedSeparators(SubSeq(b[m + 1].words, c + 1, Len(b[m + 1].words)))
            IN (IF after = << >> THEN << >> ELSE <<Text(after)>>) \o SubSeq(b, m + 2, Len(b))

\* A split that would leave next to nothing on a page already begun is not made.
WorthIt(page, b) ==
    \/ page = << >>
    \/ PageSizeWith(page, HeadOf(page, b)) - CardSize(page) >= MinHead

-----------------------------------------------------------------------------
(* Packing.                                                                *)

DeckInit ==
    /\ \/ deck \in SomeDecks /\ source = << >> /\ phase = "fit"
       \/ deck = << >> /\ source \in Sources /\ phase = "read"
    /\ queue = deck /\ cur = << >> /\ pages = << >>
    /\ pos = 0 /\ stack = << >> /\ tree = {}

\* A card that fits whole goes out as one page, with no room kept for links.
FitsWhole ==
    /\ phase = "fit"
    /\ IF WholeSize(queue) <= PageBytes
       THEN pages' = <<queue>> /\ queue' = << >> /\ phase' = "done"
       ELSE phase' = "pack" /\ UNCHANGED <<pages, queue>>
    /\ UNCHANGED <<deck, cur, source, pos, stack, tree>>

\* One turn of the loop for a block that fits.
PlaceWhole ==
    /\ phase = "pack" /\ queue # << >>
    /\ PageSizeWith(cur, Head(queue)) <= Limit
    /\ cur' = Append(cur, Head(queue))
    /\ queue' = Tail(queue)
    /\ UNCHANGED <<deck, pages, source, pos, stack, tree, phase>>

\* One turn for a block that does not: its head closes the page, or an
\* unsplittable one goes alone on a page, or the page closes without it.
ClosePage ==
    /\ phase = "pack" /\ queue # << >>
    /\ PageSizeWith(cur, Head(queue)) > Limit
    /\ LET b == Head(queue)
           split == CanSplit(cur, b) /\ WorthIt(cur, b)
           rest == Rest(cur, b)
       IN /\ pages' = Append(pages, IF split THEN Append(cur, HeadOf(cur, b))
                                    ELSE IF cur = << >> THEN <<b>> ELSE cur)
          /\ queue' = IF split THEN (IF rest = << >> THEN << >> ELSE <<rest>>) \o Tail(queue)
                      ELSE IF cur = << >> THEN Tail(queue) ELSE queue
    /\ cur' = << >>
    /\ UNCHANGED <<deck, source, pos, stack, tree, phase>>

LastPage ==
    /\ phase = "pack" /\ queue = << >>
    /\ pages' = IF cur # << >> \/ pages = << >> THEN Append(pages, cur) ELSE pages
    /\ phase' = "done" /\ cur' = << >>
    /\ UNCHANGED <<deck, queue, source, pos, stack, tree>>

-----------------------------------------------------------------------------
(* Reading.  A token is [kind, name]: an opening or closing tag, or a leaf  *)
(* (a text, a void or a self-closing element); it is known by its position. *)

\* The search from the top of the stack for the element a close tag names.
Innermost(name) == Max({0} \cup {d \in DOMAIN stack : source[stack[d]].name = name})

Top == IF stack = << >> THEN 0 ELSE Last(stack)

\* What a close tag leaves open: everything below the element it names, all
\* of it when it names none.
Popped(name) == IF Innermost(name) = 0 THEN stack ELSE SubSeq(stack, 1, Innermost(name) - 1)

Read ==
    /\ phase = "read" /\ pos < Len(source)
    /\ pos' = pos + 1
    /\ LET t == source[pos + 1]
       IN \/ /\ t.kind # "close"
             /\ tree' = tree \cup {<<pos + 1, Top>>}
             /\ stack' = IF t.kind = "open" /\ Len(stack) < MaxDepth
                         THEN Append(stack, pos + 1) ELSE stack
          \/ /\ t.kind = "close" /\ stack' = Popped(t.name) /\ UNCHANGED tree
    /\ UNCHANGED <<deck, queue, cur, pages, source, phase>>

DeckNext == FitsWhole \/ PlaceWhole \/ ClosePage \/ LastPage \/ Read

DeckSpec == DeckInit /\ [][DeckNext]_deckVars

-----------------------------------------------------------------------------
Flat(ss) ==
    LET f[n \in 0 .. Len(ss)] == IF n = 0 THEN << >> ELSE f[n - 1] \o ss[n]
    IN f[Len(ss)]

\* What is shown of words, of a child, of a block and of a card.
WordsShown(ws) == Flat([i \in DOMAIN ws |-> IF ws[i].kind = "sep" THEN << >> ELSE <<ws[i]>>])
KidShown(k) == IF k.kind = "text" THEN WordsShown(k.words) ELSE <<k>>
BlockShown(b) == Flat([i \in DOMAIN b |-> KidShown(b[i])])
CardShown(bs) == Flat([i \in DOMAIN bs |-> BlockShown(bs[i])])

DeckTypeOK ==
    /\ phase \in {"read", "fit", "pack", "done"}
    /\ \A b \in Range(queue) \cup Range(cur) \cup UNION {Range(p) : p \in Range(pages)} :
         \A k \in Range(b) : k.kind = "text" => k.words # << >>
    /\ Len(stack) <= MaxDepth

\* Whatever is split where, the pages done, the page being filled and what is
\* still queued show the card's words, brackets and elements, each once and in
\* order; only bare separators at a seam are ever dropped.
NothingLost == CardShown(Flat(pages) \o cur \o queue) = CardShown(deck)

\* A page and its Prev and Next links fit one datagram, unless it is a single
\* block that cannot be split or the address leaves no room for links; so does
\* a card sent whole.
PagesFit ==
    \A i \in DOMAIN pages :
        \/ CardSize(pages[i]) + NavCost <= PageBytes
        \/ Len(pages) = 1 /\ WholeSize(pages[i]) <= PageBytes
        \/ Len(pages[i]) = 1 /\ ~CanSplit(<< >>, pages[i][1])
        \/ PageBytes <= NavCost + MinLimit /\ CardSize(pages[i]) <= MinLimit

\* The loop always makes progress: no page of a card with blocks is empty, and
\* there are never more pages than pieces to put on them.
KidPieces(k) == IF k.kind = "text" THEN Len(k.words) ELSE 1
BlockPieces(b) == 1 + Total([i \in DOMAIN b |-> KidPieces(b[i])])
Pieces(bs) == Total([i \in DOMAIN bs |-> BlockPieces(bs[i])])

NoEmptyPage ==
    deck # << >> =>
        /\ \A i \in DOMAIN pages : pages[i] # << >> /\ << >> \notin Range(pages[i]) \ Range(deck)
        /\ Len(pages) <= Pieces(deck)

\* The elements open around token i, when tags are matched by count.
Around(i) ==
    {j \in 1 .. i - 1 : source[j].kind = "open" /\
        \A k \in j + 1 .. i - 1 :
            Cardinality({x \in j + 1 .. k : source[x].kind = "close"}) <=
            Cardinality({x \in j + 1 .. k : source[x].kind = "open"})}

Nests ==
    \A i \in 1 .. pos :
        /\ source[i].kind = "open" => Cardinality(Around(i)) < MaxDepth
        /\ source[i].kind = "close" =>
              Around(i) # {} /\ source[Max(Around(i))].name = source[i].name

\* A source that nests properly, and not too deep, is read as it nests: every
\* element and text ends up under the element open around it.
ReadAsNested ==
    phase = "read" /\ Nests =>
        \A i \in 1 .. pos : source[i].kind # "close" =>
            <<i, Max({0} \cup Around(i))>> \in tree

\* Together: a deck is read as it nests and shown whole, on pages that fit.
DecksInv == DeckTypeOK /\ NothingLost /\ PagesFit /\ NoEmptyPage /\ ReadAsNested
=============================================================================
