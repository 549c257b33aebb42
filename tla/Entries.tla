------------------------------ MODULE Entries -------------------------------
(***************************************************************************)
(* The entries of the site: the editor and its posts                       *)
(* (db/cms_entries_admin.c, db/cms_media_galleries.c and the routes of     *)
(* http_router.c), and the lists, pages and search that show them          *)
(* (db/cms_entries.c, db/cms_search.c).                                    *)
(*                                                                         *)
(* An editor keeps a page open in the browser; its posts are separate      *)
(* edits that read the entry, ask can_edit_entry() and then write.  An  *)
(* entry is its link, type, state, header and blocks; a block is its id,   *)
(* whether it is a gallery, how many pictures its text lists, and the      *)
(* gallery its extra_data names: the document that /gallery/<id> shows, a  *)
(* copy of that list.  Titles, texts and dates are left out, so a list of  *)
(* entries is a set, a search may match any published entry, and a header  *)
(* is whether its comments are closed.                                     *)
(***************************************************************************)
EXTENDS Naturals, Sequences, FiniteSets, TLC

CONSTANTS EditThreads,       \* edits running at the same time
          Managers,        \* editors who may edit everything
          Authors,       \* editors who may edit their own blog entries
          EntryIds,
          Links,         \* links an editor may type, the empty one included
          NoLink,        \* the empty link
          Shadowed,      \* links under /blog/ that another route answers
          MaxBlocks,     \* the most blocks a content post may carry, 200 in the code
          MaxPics,       \* bound on the pictures of a gallery
          MaxIds,        \* bound on the block and gallery ids drawn
          MaxEdits    \* bound on the edits

ASSUME EntriesAssumption ==
    /\ NoLink \in Links /\ Shadowed \subseteq Links \ {NoLink}
    /\ Managers # {} /\ Managers \cap Authors = {} /\ "none" \notin EntryIds
    /\ MaxBlocks \in Nat /\ MaxPics \in Nat /\ MaxIds \in Nat /\ MaxEdits \in Nat

Editors == Managers \cup Authors
Types == {"blog", "page"}
Absent == [exists |-> FALSE, link |-> NoLink, type |-> "page", enabled |-> FALSE, closed |-> FALSE,
           by |-> "nobody", blocks |-> {}]

\* A block of an entry written before blocks had ids: its id is 0.  The key
\* says which block an editor means, through the ids it is given.
OldBlock == [id |-> 0, key |-> 0, kind |-> "text", pics |-> 0, gallery |-> 0]

VARIABLES
    entries,    \* the entries collection; an entry is inserted in the order of
                \* born, which is the order find() returns them in
    born,
    galleries,  \* the media_galleries collection: id to entry and pictures
    lastDrawn,     \* ids drawn for blocks and galleries
    pages,      \* the editor page each editor has open
    edit,        \* what each thread is doing
    revision,   \* history: content writes of each entry, from 1
    overlapped, \* history: entries whose content was written from a page, or by a
                \* request, that had not seen an earlier write of it, or that did not
                \* carry all of the page's blocks
    wanted,     \* history: the keys of the blocks the editors want in each entry
    lastSaved,      \* history: the meta and the header last lastSaved of each entry
    edits

entryVars == <<entries, born, galleries, lastDrawn, pages, edit, revision, overlapped, wanted, lastSaved, edits>>
content == <<galleries, lastDrawn, revision, overlapped, wanted>>

NoEdit == [at |-> "idle", user |-> "nobody", entry |-> "none", link |-> NoLink, type |-> "page", enabled |-> FALSE,
           closed |-> FALSE, kind |-> "text", block |-> OldBlock, blocks |-> {}, want |-> {}, todo |-> {}, base |-> 0]
NoPage == [entry |-> "none", blocks |-> {}, revision |-> 0]
Keys(blocks) == {b.key : b \in blocks}
Meta(entry) == <<entry.link, entry.type, entry.enabled>>

\* One entry may have been there, an administrator's page of an older version.
EntriesInit ==
    /\ \E old \in {{}} \cup {{e} : e \in EntryIds} :
        /\ entries = [e \in EntryIds |->
                       IF e \in old THEN [Absent EXCEPT !.exists = TRUE, !.by = CHOOSE u \in Managers : TRUE, !.blocks = {OldBlock}]
                       ELSE Absent]
        /\ born = IF old = {} THEN <<>> ELSE <<CHOOSE e \in old : TRUE>>
        /\ wanted = [e \in EntryIds |-> IF e \in old THEN {OldBlock.key} ELSE {}]
    /\ galleries = [g \in {} |-> [entry |-> "none", pics |-> 0]] /\ lastDrawn = 0
    /\ pages = [u \in Editors |-> NoPage]
    /\ edit = [p \in EditThreads |-> NoEdit]
    /\ revision = [e \in EntryIds |-> 1] /\ overlapped = {}
    /\ lastSaved = [e \in EntryIds |-> [meta |-> Meta(Absent), closed |-> FALSE]]
    /\ edits = 0

Idling(p) == edit[p] = NoEdit /\ edits < MaxEdits

BeginEdit(p, r) ==
    /\ Idling(p)
    /\ edits' = edits + 1
    /\ edit' = [edit EXCEPT ![p] = r]

DoneEdit(p) == edit' = [edit EXCEPT ![p] = NoEdit] /\ UNCHANGED edits

-----------------------------------------------------------------------------
(* What the public sees.                                                   *)

\* The first of a set of entries, in the order find() returns them.
First(S) == {born[i] : i \in {j \in DOMAIN born : born[j] \in S /\ \A k \in 1 .. j - 1 : born[k] \notin S}}

\* cms_get_entry_by_link().
ByLink(link, drafts) ==
    First({e \in EntryIds : entries[e].exists /\ entries[e].link = link /\ (drafts \/ entries[e].enabled)})

\* The route of an entry's address and serve_cms_entry(): what /blog/<link>
\* or /page/<link> shows.
EntryServed(type, link, drafts) ==
    IF link = NoLink \/ (type = "blog" /\ link \in Shadowed) THEN {}
    ELSE {e \in ByLink(link, drafts) : entries[e].type = type}

\* cms_get_blog_entries(), cms_get_blog_entries_by_category().
BlogList == {e \in EntryIds : entries[e].exists /\ entries[e].type = "blog" /\ entries[e].enabled}

\* GET /gallery/<id>?img=<img> for older browsers: the picture shown and the
\* ones its links lead to.
GalleryPage(g, img) ==
    LET count == galleries[g].pics
        cur == IF img < count THEN img ELSE 0
    IN  [cur |-> cur, prev |-> (cur + count - 1) % count, next |-> (cur + 1) % count]

\* cms_get_entry_backlink(): the address a gallery's page leads back to.
Backlinks(g) ==
    LET e == galleries[g].entry
    IN  IF entries[e].exists /\ entries[e].link # NoLink THEN {<<entries[e].type, entries[e].link>>} ELSE {}

\* cms_search_entries() and check_entry(): the links of published entries,
\* each read again by its link.
SearchResults ==
    UNION {{<<entries[e].type, link>> : e \in ByLink(link, FALSE)} :
               link \in {entries[e].link : e \in {d \in EntryIds : entries[d].exists /\ entries[d].enabled}}}

-----------------------------------------------------------------------------
(* Opening and creating.                                                   *)

\* Mutant: an author may edit any blog entry.
CanEditAnyBlog(u, e) == u \in Managers \/ entries[e].type = "blog"

\* can_edit_entry(); a viewer opens the editor and saves nothing.
CanEdit(u, e) == u \in Managers \/ (entries[e].type = "blog" /\ entries[e].by = u)

\* role_entries_rows() and cms_get_admin_entries(): the entries that u's
\* dashboard lists.
Listed(u) ==
    {e \in EntryIds : entries[e].exists /\ (u \in Authors => entries[e].type = "blog" /\ entries[e].by = u)}

\* cms_create_entry(): a draft without a link.
InsertEntry(u, e, type) ==
    entries' = [entries EXCEPT ![e] = [Absent EXCEPT !.exists = TRUE, !.by = u, !.type = type]]

\* POST /dashboard/entries/new.
CreateEntry(p, u, e) ==
    /\ e \notin {born[i] : i \in DOMAIN born}
    /\ BeginEdit(p, NoEdit)
    /\ InsertEntry(u, e, IF u \in Authors THEN "blog" ELSE "page")
    /\ born' = Append(born, e)
    /\ lastSaved' = [lastSaved EXCEPT ![e] = [meta |-> Meta(entries'[e]), closed |-> FALSE]]
    /\ UNCHANGED <<content, pages>>

\* cms_get_entry_for_edit() and parse_content_edit(): the blocks an editor
\* gets, with the ids they have.
BlocksForEdit(e) == entries[e].blocks

\* GET /dashboard/entries/<id>/edit.
OpenEditor(u, e) ==
    /\ entries[e].exists /\ CanEdit(u, e)
    /\ pages' = [pages EXCEPT ![u] = [entry |-> e, blocks |-> BlocksForEdit(e), revision |-> revision[e]]]
    /\ UNCHANGED <<entries, born, content, lastSaved, edit, edits>>

\* cms_delete_entry(): its galleries stay.
RemoveEntry(e) == entries' = [entries EXCEPT ![e] = Absent]

\* POST /dashboard/entries/<id>/delete.
DeleteEntry(p, u, e) ==
    /\ u \in Managers
    /\ BeginEdit(p, NoEdit)
    /\ RemoveEntry(e)
    /\ wanted' = [wanted EXCEPT ![e] = {}]
    /\ UNCHANGED <<born, galleries, lastDrawn, revision, overlapped, pages, lastSaved>>

\* A post of u's page, admitted: the entry is read, and the gate asked.
Admitted(p, u, r) ==
    /\ pages[u] # NoPage
    /\ LET e == pages[u].entry
       IN  /\ entries[e].exists /\ CanEdit(u, e)
           /\ BeginEdit(p, [r EXCEPT !.user = u, !.entry = e])
    /\ UNCHANGED <<entries, born, content, pages, lastSaved>>

-----------------------------------------------------------------------------
(* The posts of the editor: each is admitted, then writes.                 *)

\* POST .../meta: an author's entry stays a blog entry.
PostMeta(p, u, link, type, enabled) ==
    Admitted(p, u, [NoEdit EXCEPT !.at = "meta", !.link = link, !.enabled = enabled,
                                  !.type = IF u \in Authors THEN "blog" ELSE type])

\* cms_update_entry_meta(); an update of an entry that is gone does nothing.
UpdateMeta(p) ==
    /\ edit[p].at = "meta"
    /\ LET e == edit[p].entry
       IN  entries' = IF entries[e].exists
                      THEN [entries EXCEPT ![e] = [@ EXCEPT !.link = edit[p].link, !.type = edit[p].type,
                                                            !.enabled = edit[p].enabled]]
                      ELSE entries
    /\ lastSaved' = [lastSaved EXCEPT ![edit[p].entry].meta = <<edit[p].link, edit[p].type, edit[p].enabled>>]
    /\ DoneEdit(p)
    /\ UNCHANGED <<born, content, pages>>

\* POST .../header: the image, the date, the titles and whether comments are
\* closed.
PostHeader(p, u, closed) == Admitted(p, u, [NoEdit EXCEPT !.at = "header", !.closed = closed])

\* cms_update_entry_header(): the header's fields are set one by one.
UpdateHeader(p) ==
    /\ edit[p].at = "header"
    /\ LET e == edit[p].entry
       IN  entries' = IF entries[e].exists THEN [entries EXCEPT ![e].closed = edit[p].closed] ELSE entries
    /\ lastSaved' = [lastSaved EXCEPT ![edit[p].entry].closed = edit[p].closed]
    /\ DoneEdit(p)
    /\ UNCHANGED <<born, content, pages>>

\* A write of e's blocks by a request that has seen the revision base.
WriteBlocks(e, blocks, base) ==
    /\ entries' = IF entries[e].exists THEN [entries EXCEPT ![e].blocks = blocks] ELSE entries
    /\ revision' = [revision EXCEPT ![e] = @ + 1]
    /\ overlapped' = IF base = revision[e] THEN overlapped ELSE overlapped \cup {e}

\* POST .../content, of the page as it is in the browser: the blocks after
\* the first MaxBlocks are not read.
PostContent(p, u) ==
    /\ pages[u] # NoPage
    /\ \E blocks \in SUBSET pages[u].blocks :
        /\ Cardinality(blocks) = IF Cardinality(pages[u].blocks) <= MaxBlocks THEN Cardinality(pages[u].blocks)
                                 ELSE MaxBlocks
        /\ Admitted(p, u, [NoEdit EXCEPT !.at = "content", !.blocks = blocks, !.want = Keys(pages[u].blocks),
                                         !.base = IF blocks = pages[u].blocks THEN pages[u].revision ELSE 0])

\* The id of a block that has none is drawn when it is written.
Minted(blocks) == {IF b.id = 0 THEN [b EXCEPT !.id = lastDrawn + 1] ELSE b : b \in blocks}

\* The gallery blocks whose galleries a request has still to write: those
\* with pictures.
Pending(blocks) == {b \in blocks : b.kind = "gallery" /\ b.pics > 0}

\* Mutant: blocks without an id are left out.
UpdateContentDropping(p) ==
    /\ edit[p].at = "content"
    /\ LET e == edit[p].entry
           blocks == {b \in edit[p].blocks : b.id # 0}
       IN  /\ WriteBlocks(e, blocks, edit[p].base)
           /\ wanted' = IF entries[e].exists THEN [wanted EXCEPT ![e] = edit[p].want] ELSE wanted
           /\ lastDrawn' = IF blocks = edit[p].blocks THEN lastDrawn ELSE lastDrawn + 1
           /\ lastDrawn' <= MaxIds
           /\ edit' = [edit EXCEPT ![p] = [@ EXCEPT !.at = "galleries", !.blocks = blocks, !.want = {},
                                                    !.todo = Pending(blocks), !.base = revision'[e]]]
    /\ UNCHANGED <<born, galleries, pages, edits, lastSaved>>

\* cms_update_entry_content(): the whole array is replaced.
UpdateContent(p) ==
    /\ edit[p].at = "content"
    /\ LET e == edit[p].entry
           blocks == Minted(edit[p].blocks)
       IN  /\ WriteBlocks(e, blocks, edit[p].base)
           /\ wanted' = IF entries[e].exists THEN [wanted EXCEPT ![e] = edit[p].want] ELSE wanted
           /\ lastDrawn' = IF blocks = edit[p].blocks THEN lastDrawn ELSE lastDrawn + 1
           /\ lastDrawn' <= MaxIds
           /\ edit' = [edit EXCEPT ![p] = [@ EXCEPT !.at = "galleries", !.blocks = blocks, !.want = {},
                                                    !.todo = Pending(blocks), !.base = revision'[e]]]
    /\ UNCHANGED <<born, galleries, pages, edits, lastSaved>>

\* The galleries with document g written.
GalleriesWith(g, entry, pics) ==
    [h \in DOMAIN galleries \cup {g} |-> IF h = g THEN [entry |-> entry, pics |-> pics] ELSE galleries[h]]

\* Mutant: the gallery of a block that has one is left as it is.
SaveNewGallery(p) ==
    /\ edit[p].at = "galleries"
    /\ \E b \in edit[p].todo :
        LET new == b.gallery = 0
            g == IF new THEN lastDrawn + 1 ELSE b.gallery
        IN  /\ g <= MaxIds
            /\ lastDrawn' = IF new THEN g ELSE lastDrawn
            /\ galleries' = IF new THEN GalleriesWith(g, edit[p].entry, b.pics) ELSE galleries
            /\ edit' = [edit EXCEPT ![p] = [@ EXCEPT !.at = "rewrite", !.todo = edit[p].todo \ {b},
                                                     !.blocks = (edit[p].blocks \ {b}) \cup {[b EXCEPT !.gallery = g]}]]
    /\ UNCHANGED <<entries, born, pages, revision, overlapped, wanted, lastSaved, edits>>

\* cms_upsert_media_gallery() of the next gallery block: an update of the
\* gallery the block names, or an insert.
SaveGallery(p) ==
    /\ edit[p].at = "galleries"
    /\ \E b \in edit[p].todo :
        LET new == b.gallery = 0
            g == IF new THEN lastDrawn + 1 ELSE b.gallery
        IN  /\ g <= MaxIds
            /\ lastDrawn' = IF new THEN g ELSE lastDrawn
            /\ galleries' = GalleriesWith(g, IF new THEN edit[p].entry ELSE galleries[g].entry, b.pics)
            /\ edit' = [edit EXCEPT ![p] = [@ EXCEPT !.at = "rewrite", !.todo = edit[p].todo \ {b},
                                                     !.blocks = (edit[p].blocks \ {b}) \cup {[b EXCEPT !.gallery = g]}]]
    /\ UNCHANGED <<entries, born, pages, revision, overlapped, wanted, lastSaved, edits>>

\* The content is written again, with the gallery's id.
RewriteContent(p) ==
    /\ edit[p].at = "rewrite"
    /\ LET e == edit[p].entry
       IN  /\ WriteBlocks(e, edit[p].blocks, edit[p].base)
           /\ edit' = [edit EXCEPT ![p] = [@ EXCEPT !.at = "galleries", !.base = revision'[e]]]
    /\ UNCHANGED <<born, galleries, lastDrawn, pages, wanted, lastSaved, edits>>

\* A block of a page, with the id the answer gives it.
Named(b, blocks) ==
    IF b.id = 0 /\ b.key \in Keys(blocks) THEN [b EXCEPT !.id = (CHOOSE c \in blocks : c.key = b.key).id] ELSE b

\* The answer: the page learns the ids of its blocks, not their galleries.
AnswerContent(p) ==
    /\ edit[p].at = "galleries"
    /\ edit[p].todo = {}
    /\ LET u == edit[p].user
       IN  pages' = IF pages[u].entry # edit[p].entry THEN pages
                    ELSE [pages EXCEPT ![u] = [@ EXCEPT !.blocks = {Named(b, edit[p].blocks) : b \in pages[u].blocks},
                                                        !.revision = edit[p].base]]
    /\ DoneEdit(p)
    /\ UNCHANGED <<entries, born, content, lastSaved>>

\* The editor chooses the pictures of a gallery block, in the page.
ChoosePictures(u, b, n) ==
    /\ b.kind = "gallery" /\ n # b.pics
    /\ pages' = [pages EXCEPT ![u].blocks = (@ \ {b}) \cup {[b EXCEPT !.pics = n]}]
    /\ UNCHANGED <<entries, born, content, edit, lastSaved, edits>>

\* POST .../blocks.
PostBlock(p, u, kind) == Admitted(p, u, [NoEdit EXCEPT !.at = "push", !.kind = kind])

\* A page with the blocks an answer leaves it; it has seen that write if it had
\* seen the one before, r.
Caught(page, blocks, r) ==
    [page EXCEPT !.blocks = blocks, !.revision = IF page.revision = r THEN r + 1 ELSE page.revision]

\* cms_add_entry_content_block() and its answer, which the page adds.
PushBlock(p) ==
    /\ edit[p].at = "push"
    /\ lastDrawn < MaxIds
    /\ lastDrawn' = lastDrawn + 1
    /\ LET e == edit[p].entry
           u == edit[p].user
           b == [id |-> lastDrawn', key |-> lastDrawn', kind |-> edit[p].kind, pics |-> 0, gallery |-> 0]
       IN  /\ WriteBlocks(e, entries[e].blocks \cup {b}, revision[e])
           /\ wanted' = IF entries[e].exists THEN [wanted EXCEPT ![e] = @ \cup {b.key}] ELSE wanted
           /\ pages' = IF pages[u].entry # e THEN pages
                       ELSE [pages EXCEPT ![u] = Caught(@, pages[u].blocks \cup {b}, revision[e])]
    /\ DoneEdit(p)
    /\ UNCHANGED <<born, galleries, lastSaved>>

\* POST .../blocks/<block>/delete: the page takes the block out, then asks.
PostBlockDelete(p, u, b) ==
    /\ pages[u] # NoPage
    /\ b \in pages[u].blocks /\ b.id # 0
    /\ Admitted(p, u, [NoEdit EXCEPT !.at = "pull", !.block = b])

\* cms_remove_entry_content_block().
PullBlock(p) ==
    /\ edit[p].at = "pull"
    /\ LET e == edit[p].entry
           u == edit[p].user
           id == edit[p].block.id
       IN  /\ WriteBlocks(e, {b \in entries[e].blocks : b.id # id}, revision[e])
           /\ wanted' = [wanted EXCEPT ![e] = @ \ {edit[p].block.key}]
           /\ pages' = IF pages[u].entry # e THEN pages
                       ELSE [pages EXCEPT ![u] = Caught(@, {b \in pages[u].blocks : b.id # id}, revision[e])]
    /\ DoneEdit(p)
    /\ UNCHANGED <<born, galleries, lastDrawn, lastSaved>>

-----------------------------------------------------------------------------

EntriesNext ==
    \/ \E u \in Editors, e \in EntryIds : OpenEditor(u, e)
    \/ \E u \in Editors : pages[u] # NoPage /\ \E b \in pages[u].blocks, n \in 0 .. MaxPics : ChoosePictures(u, b, n)
    \/ \E p \in {q \in EditThreads : Idling(q)}, u \in Editors :
           \/ \E e \in EntryIds : CreateEntry(p, u, e) \/ DeleteEntry(p, u, e)
           \/ \E link \in Links, type \in Types, enabled \in BOOLEAN : PostMeta(p, u, link, type, enabled)
           \/ \E closed \in BOOLEAN : PostHeader(p, u, closed)
           \/ PostContent(p, u)
           \/ \E kind \in {"text", "gallery"} : PostBlock(p, u, kind)
           \/ pages[u] # NoPage /\ \E b \in pages[u].blocks : PostBlockDelete(p, u, b)
    \/ \E p \in EditThreads :
           \/ UpdateMeta(p) \/ UpdateHeader(p) \/ UpdateContent(p) \/ SaveGallery(p) \/ RewriteContent(p) \/ AnswerContent(p)
           \/ PushBlock(p) \/ PullBlock(p)

EntriesSpec == EntriesInit /\ [][EntriesNext]_entryVars

-----------------------------------------------------------------------------
(* Properties.                                                             *)

EntriesTypeOK ==
    /\ entries \in [EntryIds -> [exists : BOOLEAN, link : Links, type : Types, enabled : BOOLEAN,
                                 closed : BOOLEAN, by : Editors \cup {"nobody"},
                                 blocks : SUBSET [id : 0 .. MaxIds, key : 0 .. MaxIds, kind : {"text", "gallery"},
                                                  pics : 0 .. MaxPics, gallery : 0 .. MaxIds]]]
    /\ lastDrawn \in 0 .. MaxIds /\ overlapped \subseteq EntryIds

\* However posts of several editors and of one editor's page interleave, an
\* entry whose content no stale page or request wrote over, nor a page of
\* more blocks than a post may carry, has exactly the blocks its editors want
\* in it, each once, the ones that had no id too.
BlocksKept ==
    \A e \in EntryIds \ overlapped :
        entries[e].exists =>
            /\ Keys(entries[e].blocks) = wanted[e]
            /\ \A b, c \in entries[e].blocks : b.key = c.key \/ b.id = c.id => b = c

\* An entry shows the meta and the header its editors saved last: no save of
\* the one, nor of its content, takes back the other.
SavedKept ==
    \A e \in EntryIds :
        entries[e].exists => lastSaved[e] = [meta |-> Meta(entries[e]), closed |-> entries[e].closed]

Busy(e) == \E p \in EditThreads : edit[p] # NoEdit /\ edit[p].entry = e

\* Once the saves of an entry are over, and if none was of a stale page, the
\* page /gallery/<id> of each of its galleries that has pictures shows those
\* pictures, and leads back to that entry.
GalleriesShown ==
    \A e \in EntryIds \ overlapped : \A b \in entries[e].blocks :
        b.kind = "gallery" /\ ~Busy(e) /\ b.pics > 0 /\ b.gallery # 0
            => galleries[b.gallery] = [entry |-> e, pics |-> b.pics]

\* Whatever saves came before, a gallery's page has a picture to show for any
\* number asked, its "previous" undoes its "next", and the entry it leads back
\* to is there for its team if its link is its own.
GalleryPages ==
    \A g \in DOMAIN galleries :
        /\ galleries[g].pics > 0
        /\ \A img \in 0 .. MaxPics :
            LET page == GalleryPage(g, img)
            IN  page.cur < galleries[g].pics /\ GalleryPage(g, page.next).prev = page.cur
        /\ \A type \in Types, link \in Links : <<type, link>> \in Backlinks(g) =>
            \/ link \in Shadowed
            \/ \E d \in EntryIds \ {galleries[g].entry} : entries[d].link = link
            \/ EntryServed(type, link, TRUE) = {galleries[g].entry}

\* A search result opens as a published entry even when entries share links,
\* unless its link is one that no address can name.
SearchOpens ==
    \A type \in Types, link \in Links \ {NoLink} :
        <<type, link>> \in SearchResults /\ ~(type = "blog" /\ link \in Shadowed)
            => \E e \in EntryServed(type, link, FALSE) : entries[e].enabled

\* An entry on the blog's lists opens under its own link, for visitors and
\* for the team, who also see drafts, if no other entry has that link.
ListedOpens ==
    \A e \in BlogList :
        (\A d \in EntryIds \ {e} : entries[d].link # entries[e].link)
            => LET link == entries[e].link
               IN  link \notin Shadowed \cup {NoLink}
                       => EntryServed("blog", link, FALSE) = {e} /\ EntryServed("blog", link, TRUE) = {e}

\* The dashboard and the editor agree, whoever changed the entries: an editor
\* may open exactly the entries listed.
DashboardAgrees == \A u \in Editors : Listed(u) = {e \in EntryIds : entries[e].exists /\ CanEdit(u, e)}

\* What editors saved is kept, whatever other saves overlap.
EditsKept == EntriesTypeOK /\ BlocksKept /\ SavedKept

\* What they saved is what visitors are shown, in galleries and entries that
\* every list, search and backlink leads to.
ShownAsSaved == GalleriesShown /\ GalleryPages /\ SearchOpens /\ ListedOpens /\ DashboardAgrees

\* Whatever administrators do in between, a request of an author changes
\* nothing but entries that author created.
AuthorConfined ==
    [][\A p \in EditThreads, e \in EntryIds :
        edit[p] # NoEdit /\ edit'[p] # edit[p] /\ edit[p].user \in Authors /\ entries'[e] # entries[e]
            => entries[e].by = edit[p].user]_entryVars
=============================================================================
