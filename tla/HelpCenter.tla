------------------------------ MODULE HelpCenter ------------------------------
(***************************************************************************)
(* What the public reads without signing in: articles of the help center,    *)
(* one category of them, and versions of one legal document.  Articles and   *)
(* legal documents (pages) have the same life: created, edited, published,   *)
(* archived, soft deleted.                                                  *)
(*                                                                         *)
(* publish and archive lock the page and write single columns: one step      *)
(* each.  An edit takes no lock and saves the whole row as it read it: it is  *)
(* cut between the read and the save.  A page keeps the time of its first     *)
(* publication, by which the public gets the latest legal document.          *)
(*                                                                         *)
(* Left out: texts, sort orders and search; other locales than the public's; *)
(* the unique slug and version, whose conflict writes nothing.               *)
(***************************************************************************)
EXTENDS Integers, FiniteSets

CONSTANTS
  Articles, Documents,   \* the pages
  Clock,                 \* bound: the times of publication, 1..n
  PageEditors            \* requests that edit

VARIABLES
  category,   \* the category of every article
  page,       \* page[x]: the row of x, NoPage before it is created
  editing,    \* editing[e]: what the request e has read and was sent
  now         \* the last time of publication given out

helpVars == <<category, page, editing, now>>

Pages == Articles \cup Documents
PageStatus == {"draft", "published", "archived"}
NoPage == [status |-> "none", deleted |-> FALSE]
Page == [status: PageStatus, published_at: Clock \cup {0}, deleted: BOOLEAN]
Category == [is_active: BOOLEAN, deleted: BOOLEAN]

ASSUME HelpCenterAssumption ==
  /\ Articles \cap Documents = {}
  /\ Clock \subseteq Nat \ {0}

NoEdit == [of |-> "none"]
Editing ==
  {NoEdit}
  \cup [of: {"page"}, page: Pages, copy: Page, status: PageStatus]
  \cup [of: {"category"}, copy: Category, is_active: BOOLEAN]

HelpInit ==
  /\ category = [is_active |-> TRUE, deleted |-> FALSE]
  /\ page = [x \in Pages |-> NoPage]
  /\ editing = [e \in PageEditors |-> NoEdit]
  /\ now = 0
------------------------------------------------------------------------------
PageExists(x) == page[x] # NoPage
PageLive(x) == PageExists(x) /\ ~page[x].deleted

(* The first time a page is published is kept.                              *)
BugPublished(r, status) == [r EXCEPT !.status = status]
Published(r, status) ==
  [r EXCEPT !.status = status,
            !.published_at = IF status = "published" /\ @ = 0 THEN now + 1 ELSE @]

(* A clock is needed only by a page that is published for the first time.    *)
Write(x, r) ==
  /\ r.published_at > now => r.published_at \in Clock
  /\ page' = [page EXCEPT ![x] = r]
  /\ now' = IF r.published_at > now THEN r.published_at ELSE now

(* The serializers' create.  The category is checked before the INSERT, and   *)
(* may be deleted in between: any earlier check may have found it.            *)
CreatePage(x, status) ==
  /\ ~PageExists(x)
  /\ Write(x, Published([status |-> "draft", published_at |-> 0, deleted |-> FALSE],
                        status))
  /\ UNCHANGED <<category, editing>>

(* The serializers' update.                                                 *)
PageRead(e, x, status) ==
  /\ editing[e] = NoEdit /\ PageLive(x)
  /\ editing' = [editing EXCEPT ![e] =
       [of |-> "page", page |-> x, copy |-> page[x], status |-> status]]
  /\ UNCHANGED <<category, page, now>>

PageSave(e) ==
  /\ editing[e].of = "page"
  /\ Write(editing[e].page, Published(editing[e].copy, editing[e].status))
  /\ editing' = [editing EXCEPT ![e] = NoEdit]
  /\ UNCHANGED category

EditFails(e) ==
  /\ editing[e] # NoEdit
  /\ editing' = [editing EXCEPT ![e] = NoEdit]
  /\ UNCHANGED <<category, page, now>>

(* publish_help_center_article, publish_legal_document and the archiving.    *)
BugRepublished(r) == [r EXCEPT !.status = "published", !.published_at = now + 1]
Republished(r) == Published(r, "published")

PublishPage(x) ==
  /\ PageLive(x)
  /\ Write(x, Republished(page[x]))
  /\ UNCHANGED <<category, editing>>

ArchivePage(x) ==
  /\ PageLive(x)
  /\ Write(x, [page[x] EXCEPT !.status = "archived"])
  /\ UNCHANGED <<category, editing>>

(* The detail views' delete.  Any number of them may have read the row.      *)
DeletePage(x) ==
  /\ PageExists(x)
  /\ Write(x, [page[x] EXCEPT !.deleted = TRUE])
  /\ UNCHANGED <<category, editing>>
------------------------------------------------------------------------------
CategoryRead(e, active) ==
  /\ editing[e] = NoEdit /\ ~category.deleted
  /\ editing' = [editing EXCEPT ![e] =
       [of |-> "category", copy |-> category, is_active |-> active]]
  /\ UNCHANGED <<category, page, now>>

CategorySave(e) ==
  /\ editing[e].of = "category"
  /\ category' = [editing[e].copy EXCEPT !.is_active = editing[e].is_active]
  /\ editing' = [editing EXCEPT ![e] = NoEdit]
  /\ UNCHANGED <<page, now>>

DeleteCategory ==
  /\ category' = [category EXCEPT !.deleted = TRUE]
  /\ UNCHANGED <<page, editing, now>>
------------------------------------------------------------------------------
(* What the public reads: articles of a live, active category, in the lists    *)
(* and by their slug, and the latest version of a legal document.            *)
PublishedArticles ==
  {x \in Articles : /\ PageLive(x) /\ page[x].status = "published"
                    /\ category.is_active /\ ~category.deleted}

PublicDocuments == {x \in Documents : PageLive(x) /\ page[x].status = "published"}

(* get_latest_published.  PostgreSQL puts NULL first in descending order.     *)
Newer(x, y) ==
  /\ page[y].published_at # 0
  /\ page[x].published_at = 0 \/ page[x].published_at > page[y].published_at
Latest == {x \in PublicDocuments : ~\E y \in PublicDocuments: Newer(y, x)}

HelpNext ==
  \/ \E x \in Pages:
       \/ \E s \in PageStatus: CreatePage(x, s)
       \/ PublishPage(x) \/ ArchivePage(x) \/ DeletePage(x)
  \/ \E e \in PageEditors:
       \/ \E x \in Pages, s \in PageStatus: PageRead(e, x, s)
       \/ PageSave(e)
       \/ \E b \in BOOLEAN: CategoryRead(e, b)
       \/ CategorySave(e)
       \/ EditFails(e)
  \/ DeleteCategory

HelpSpec == HelpInit /\ [][HelpNext]_helpVars
------------------------------------------------------------------------------
(* What is public has the time of a publication, also after a stale edit, and *)
(* so one version of a legal document is the latest: without a time it would  *)
(* be that forever.                                                         *)
PublicPages ==
  /\ \A x \in PublishedArticles \cup PublicDocuments: page[x].published_at # 0
  /\ Cardinality(Latest) <= 1

(* To publish an old version again does not make it the latest: the time of   *)
(* the first publication stays, unless an edit had read the page before it.   *)
FirstTimeKept ==
  [][\A x \in Pages:
       PageExists(x) /\ page[x].published_at \notin {0, page'[x].published_at} =>
         \E e \in PageEditors: /\ editing[e].of = "page" /\ editing[e].page = x
                               /\ editing[e].copy.published_at # page[x].published_at
    ]_helpVars
==============================================================================
