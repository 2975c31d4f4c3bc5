------------------------------ MODULE Catalog -------------------------------
(***************************************************************************)
(* Products, their moderation, and the three copies of them that customers *)
(* are shown: the cached product pages, the cached list of categories and  *)
(* the search index.                                                       *)
(*                                                                         *)
(* A save commits by itself; the signals that follow it write the document *)
(* from the row the request has in memory, then delete the cached page.    *)
(* Every copy keeps a mark of whether it was taken from a row saved again  *)
(* since (old), which is how a copy may come to be wrong.                  *)
(***************************************************************************)
EXTENDS Requests, Integers

CONSTANTS
  Product,   \* primary keys of products
  Nav,       \* the key of the public category list
  NoPage,    \* a page that is not in the cache
  MaxWrites  \* bound: saves of products, their child rows and categories

VARIABLES
  products,  \* products[p]: the row, or unmade, or gone
  extras,    \* extras[p]: changes of the images, variants and specifications
  nav,       \* changes of the categories
  pages,     \* pages[k]: what the cache has under the key of k
  index,     \* index[p]: the product's document
  writes     \* saves so far, also the stamp of what a save wrote

vars == <<calls, products, extras, nav, pages, index, writes>>

\* An archived product is to all of this what a draft is.
Status == {"draft", "pending_review", "published", "rejected"}
Row == [status : Status, text : 0..MaxWrites]
Unmade == [status |-> "unmade", text |-> 0]
GoneRow == [status |-> "gone", text |-> 0]
Rows == Row \cup {Unmade, GoneRow}

Key == Product \cup {Nav}
Content == [row : Rows, extras : 0..MaxWrites] \cup [nav : 0..MaxWrites]
Page == [content : Content, old : BOOLEAN]
Doc == [row : Rows, old : BOOLEAN]

Jobs ==
  [do : {"insert", "change", "moderate", "reindex", "document"},
   on : Product, row : Rows, old : BOOLEAN]
    \cup [do : {"invalidate"}, on : Key, row : {Unmade}, old : BOOLEAN]
    \cup [do : {"fill"}, on : Key, row : Content, old : BOOLEAN]

ASSUME CatalogAssumption ==
  /\ Nav \notin Product
  /\ MaxWrites \in Nat
  /\ Idle \notin Jobs

TypeOK ==
  /\ calls \in [Call -> Jobs \cup {Idle}]
  /\ products \in [Product -> Rows]
  /\ extras \in [Product -> 0..MaxWrites]
  /\ nav \in 0..MaxWrites
  /\ pages \in [Key -> Page \cup {NoPage}]
  /\ index \in [Product -> Doc]
  /\ writes \in 0..MaxWrites

Init ==
  /\ calls = [c \in Call |-> Idle]
  /\ products = [p \in Product |-> Unmade]
  /\ extras = [p \in Product |-> 0]
  /\ nav = 0
  /\ pages = [k \in Key |-> NoPage]
  /\ index = [p \in Product |-> [row |-> Unmade, old |-> FALSE]]
  /\ writes = 0

-----------------------------------------------------------------------------
(* What the copies are taken from, and the calls that save *)

Exists(p) == products[p] \in Row

Now(k) == IF k = Nav THEN [nav |-> nav] ELSE [row |-> products[k], extras |-> extras[k]]

CountWrite == writes < MaxWrites /\ writes' = writes + 1

\* After the save come the signals: the document, then the page.
Document(p, row, old) == [do |-> "document", on |-> p, row |-> row, old |-> old]
Invalidate(k) == Job("invalidate", k, Unmade)

\* Mutant: what the seller asks for is what the product gets.
ResolvedAsAsked(asked) == asked

\* A seller who asks for "published" submits the product for review.
Resolved(asked) == IF asked = "published" THEN "pending_review" ELSE asked

-----------------------------------------------------------------------------
(* The seller's requests *)

\* Creating needs a store that is approved when the view looks (Vendors).
CheckStore(c, p) ==
  /\ products[p] = Unmade
  /\ Begin(c, Job("insert", p, Unmade))
  /\ UNCHANGED <<products, extras, nav, pages, index, writes>>

InsertProduct(c) ==
  LET job == calls[c] IN
  /\ Does(c, "insert") /\ products[job.on] = Unmade /\ CountWrite
  /\ \E asked \in Status :
       LET row == [status |-> Resolved(asked), text |-> 0] IN
       /\ products' = [products EXCEPT ![job.on] = row]
       /\ Saved(c, job.on, Document(job.on, row, FALSE))
  /\ UNCHANGED <<extras, nav, pages, index>>

\* Changing or deleting a product asks for no more than to own it.
LoadProduct(c, p) ==
  /\ Exists(p)
  /\ Begin(c, Job("change", p, products[p]))
  /\ UNCHANGED <<products, extras, nav, pages, index, writes>>

\* The save writes every column; a row deleted meanwhile is inserted again.
UpdateProduct(c) ==
  LET job == calls[c] IN
  /\ Does(c, "change") /\ CountWrite
  /\ \E asked \in Status \cup {"keep"}, changed \in BOOLEAN :
       LET row == [status |-> IF asked = "keep" THEN job.row.status ELSE Resolved(asked),
                   text   |-> IF changed THEN writes' ELSE job.row.text]
       IN  /\ products' = [products EXCEPT ![job.on] = row]
           /\ Saved(c, job.on, Document(job.on, row, FALSE))
  /\ UNCHANGED <<extras, nav, pages, index>>

DeleteProduct(c) ==
  LET job == calls[c] IN
  /\ Does(c, "change") /\ CountWrite
  /\ products' = [products EXCEPT ![job.on] = GoneRow]
  /\ Saved(c, job.on, Document(job.on, GoneRow, FALSE))
  /\ UNCHANGED <<extras, nav, pages, index>>

\* Images, variants and specifications: no signal is connected to them.
SaveChild(p) ==
  /\ Exists(p) /\ CountWrite
  /\ extras' = [extras EXCEPT ![p] = writes']
  /\ UNCHANGED <<calls, products, nav, pages, index>>

-----------------------------------------------------------------------------
(* The staff's requests *)

LoadToModerate(c, p) ==
  /\ Exists(p)
  /\ Begin(c, Job("moderate", p, products[p]))
  /\ UNCHANGED <<products, extras, nav, pages, index, writes>>

\* Only the status is written; the document is made of the row in memory.
Moderate(c, verdict) ==
  LET job == calls[c] IN
  /\ Does(c, "moderate") /\ Exists(job.on) /\ CountWrite
  /\ products' = [products EXCEPT ![job.on].status = verdict]
  /\ Saved(c, job.on, Document(job.on, [job.row EXCEPT !.status = verdict], job.old))
  /\ UNCHANGED <<extras, nav, pages, index>>

SaveCategory(c) ==
  /\ calls[c] = Idle /\ CountWrite
  /\ nav' = writes'
  /\ Saved(c, Nav, Invalidate(Nav))
  /\ UNCHANGED <<products, extras, pages, index>>

-----------------------------------------------------------------------------
(* Signals *)

\* A sale, a review, a brand: the row is read again for the document alone.
RelatedSaved(c, p) ==
  /\ Exists(p)
  /\ Begin(c, Job("reindex", p, products[p]))
  /\ UNCHANGED <<products, extras, nav, pages, index, writes>>

\* Mutant: the document is the last signal, and the page is left alone.
WriteDocumentLast(c) ==
  LET job == calls[c] IN
  /\ Does(c, "document") \/ Does(c, "reindex")
  /\ index' = [index EXCEPT ![job.on] = [row |-> job.row, old |-> job.old]]
  /\ End(c)
  /\ UNCHANGED <<products, extras, nav, pages, writes>>

WriteDocument(c) ==
  LET job == calls[c] IN
  /\ Does(c, "document") \/ Does(c, "reindex")
  /\ index' = [index EXCEPT ![job.on] = [row |-> job.row, old |-> job.old]]
  /\ Goes(c, IF job.do = "reindex" THEN Idle ELSE Invalidate(job.on))
  /\ UNCHANGED <<products, extras, nav, pages, writes>>

InvalidatePage(c) ==
  /\ Does(c, "invalidate")
  /\ pages' = [pages EXCEPT ![calls[c].on] = NoPage]
  /\ End(c)
  /\ UNCHANGED <<products, extras, nav, index, writes>>

\* The process is lost, the data refused, or the search engine down: the
\* signal's error ends the request, with its later signals not sent.
LoseCall(c) ==
  LET job == calls[c] IN
  /\ calls[c] # Idle /\ job.on \in Key
  /\ index' = IF job.do = "document" THEN [index EXCEPT ![job.on].old = TRUE] ELSE index
  /\ pages' = IF job.do \in {"document", "invalidate"} /\ pages[job.on] # NoPage
              THEN [pages EXCEPT ![job.on].old = TRUE] ELSE pages
  /\ End(c)
  /\ UNCHANGED <<products, extras, nav, writes>>

-----------------------------------------------------------------------------
(* The reader's requests *)

Shown(p) == products[p].status = "published"

\* A product, by whoever has no store: its owner is shown the row itself.
ReadProduct(c, p) ==
  /\ pages[p] = NoPage /\ Shown(p)
  /\ Begin(c, Job("fill", p, Now(p)))
  /\ UNCHANGED <<products, extras, nav, pages, index, writes>>

\* The list of categories without a filter, by whoever is not staff.
ReadCategories(c) ==
  /\ pages[Nav] = NoPage
  /\ Begin(c, Job("fill", Nav, Now(Nav)))
  /\ UNCHANGED <<products, extras, nav, pages, index, writes>>

FillPage(c) ==
  LET job == calls[c] IN
  /\ Does(c, "fill")
  /\ pages' = [pages EXCEPT ![job.on] = [content |-> job.row, old |-> job.old]]
  /\ End(c)
  /\ UNCHANGED <<products, extras, nav, index, writes>>

\* Mutant: pages are kept until they are invalidated.
ExpireNever(k) == k = Nav /\ pages[k] # NoPage /\ pages' = [pages EXCEPT ![k] = NoPage]
  /\ UNCHANGED <<calls, products, extras, nav, index, writes>>

\* CACHE_TTL
Expire(k) ==
  /\ pages[k] # NoPage
  /\ pages' = [pages EXCEPT ![k] = NoPage]
  /\ UNCHANGED <<calls, products, extras, nav, index, writes>>

-----------------------------------------------------------------------------
BeginCall(c) ==
  \/ SaveCategory(c) \/ ReadCategories(c)
  \/ \E p \in Product :
       \/ CheckStore(c, p) \/ LoadProduct(c, p) \/ LoadToModerate(c, p)
       \/ RelatedSaved(c, p) \/ ReadProduct(c, p)

Step(c) ==
  \/ InsertProduct(c) \/ UpdateProduct(c) \/ DeleteProduct(c) \/ Moderate(c, "published") \/ Moderate(c, "rejected")
  \/ WriteDocument(c) \/ InvalidatePage(c) \/ FillPage(c) \/ LoseCall(c)

Next ==
  \/ \E c \in Call : BeginCall(c) \/ Step(c)
  \/ \E p \in Product : SaveChild(p)
  \/ \E k \in Key : Expire(k)

\* Requests end one way or another, and the cache drops what is too old.
Fairness ==
  /\ \A c \in Call : WF_vars(Step(c))
  /\ \A k \in Key : WF_vars(Expire(k))

Spec == Init /\ [][Next]_vars /\ Fairness

-----------------------------------------------------------------------------
(* What holds *)

Saving(k, signals) == \E c \in Call : calls[c] # Idle /\ calls[c].do \in signals /\ calls[c].on = k

PageFollowsRow(k) ==
  \/ pages[k] = NoPage
  \/ IF k = Nav THEN pages[k].content = Now(k) ELSE pages[k].content.row = products[k]
  \/ pages[k].old \/ Saving(k, {"document", "invalidate"})

IndexFollowsRow(p) == index[p].row = products[p] \/ index[p].old \/ Saving(p, {"document"})

\* A cached page, the cached category list and the search index show the row
\* as it was saved last, except from a save to its signals, and except when
\* they were filled or indexed with a row read before that save, or when the
\* save's signals were lost.
CopiesFollowRows ==
  /\ \A k \in Key : PageFollowsRow(k)
  /\ \A p \in Product : IndexFollowsRow(p)

\* A product comes to be published when staff approve it, or when a request
\* that loaded it while published writes that back, never because its seller
\* asks for it.
PublishedByStaff ==
  [][\A p \in Product :
       products[p].status # "published" /\ products'[p].status = "published" =>
         \E c \in Call : /\ calls[c] # Idle /\ calls[c].on = p /\ calls'[c] # calls[c]
                         /\ Does(c, "moderate") \/ calls[c].old]_vars

\* Once rows change no more, every cached page comes to show the row and its
\* child rows and stays so, however it was filled: it is kept for a time only.
PagesSettle ==
  <>[](\A k \in Key : pages[k] = NoPage \/ pages[k].content = Now(k))

=============================================================================
