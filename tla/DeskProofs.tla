----------------------------- MODULE DeskProofs -----------------------------
(***************************************************************************)
(* What the copies of the products show, what the small parts that load a  *)
(* row in one statement and save it in another guarantee, and what the     *)
(* assistant shows, for any number of requests, rows and accounts.         *)
(* Each part is a system of its own: it starts with no request running and *)
(* takes its own steps only.                                               *)
(***************************************************************************)
EXTENDS Catalog, Desk, FiniteSetTheorems, TLAPS

-----------------------------------------------------------------------------
(* Catalog: what the copies of the products show *)

\* As long as nobody saved a row since a request read it, what the request
\* holds of it is the row; a request that is to save a row read one that was
\* there.
JobFits(c) ==
  LET job == calls[c] IN
  /\ job.do \in {"change", "moderate", "document", "reindex"} /\ ~job.old =>
       job.row = products[job.on]
  /\ job.do \in {"change", "moderate"} => job.row \in Row
  /\ job.do = "fill" /\ ~job.old =>
       IF job.on = Nav THEN job.row = Now(Nav) ELSE job.row.row = products[job.on]

CatalogInv == TypeOK /\ (\A c \in Call : calls[c] # Idle => JobFits(c)) /\ CopiesFollowRows

ProductJobs ==
  [do : {"insert", "change", "moderate", "reindex", "document"},
   on : Product, row : Rows, old : BOOLEAN]
InvalidateJobs == [do : {"invalidate"}, on : Key, row : {Unmade}, old : BOOLEAN]
FillJobs == [do : {"fill"}, on : Key, row : Content, old : BOOLEAN]

LEMMA JobsAre ==
  /\ Jobs = ProductJobs \cup InvalidateJobs \cup FillJobs
  /\ Idle \notin Jobs
  /\ \A job \in Jobs : job.on \in Key /\ job.old \in BOOLEAN
  /\ \A job \in ProductJobs :
       /\ job.on \in Product /\ job.row \in Rows
       /\ job.do \in {"insert", "change", "moderate", "reindex", "document"}
  /\ \A job \in InvalidateJobs : job.do = "invalidate"
  /\ \A job \in FillJobs : job.do = "fill" /\ job.row \in Content
<1>1. Jobs = ProductJobs \cup InvalidateJobs \cup FillJobs
  BY DEF Jobs, ProductJobs, InvalidateJobs, FillJobs
<1>2. /\ \A job \in ProductJobs :
           /\ job.on \in Product /\ job.row \in Rows /\ job.old \in BOOLEAN
           /\ job.do \in {"insert", "change", "moderate", "reindex", "document"}
      /\ \A job \in InvalidateJobs : job.do = "invalidate" /\ job.on \in Key /\ job.old \in BOOLEAN
      /\ \A job \in FillJobs :
           job.do = "fill" /\ job.row \in Content /\ job.on \in Key /\ job.old \in BOOLEAN
  BY DEF ProductJobs, InvalidateJobs, FillJobs
<1>3. Product \subseteq Key
  BY DEF Key
<1>4. QED  BY <1>1, <1>2, <1>3, CatalogAssumption

LEMMA OldRecord ==
  ASSUME NEW Do, NEW On, NEW R, NEW job \in [do : Do, on : On, row : R, old : BOOLEAN]
  PROVE  LET j == [job EXCEPT !.old = TRUE] IN
         /\ j \in [do : Do, on : On, row : R, old : BOOLEAN]
         /\ j.old /\ j.do = job.do /\ j.on = job.on /\ j.row = job.row
  OBVIOUS

LEMMA OldCatalogJob ==
  ASSUME NEW job \in Jobs
  PROVE  LET j == [job EXCEPT !.old = TRUE] IN
         j \in Jobs /\ j # Idle /\ j.old /\ j.do = job.do /\ j.on = job.on /\ j.row = job.row
<1> DEFINE j == [job EXCEPT !.old = TRUE]
<1>1. CASE job \in ProductJobs
  <2>1. j \in ProductJobs /\ j.old /\ j.do = job.do /\ j.on = job.on /\ j.row = job.row
    BY <1>1, OldRecord DEF ProductJobs
  <2>2. QED  BY <2>1, JobsAre
<1>2. CASE job \in InvalidateJobs
  <2>1. j \in InvalidateJobs /\ j.old /\ j.do = job.do /\ j.on = job.on /\ j.row = job.row
    BY <1>2, OldRecord DEF InvalidateJobs
  <2>2. QED  BY <2>1, JobsAre
<1>3. CASE job \in FillJobs
  <2>1. j \in FillJobs /\ j.old /\ j.do = job.do /\ j.on = job.on /\ j.row = job.row
    BY <1>3, OldRecord DEF FillJobs
  <2>2. QED  BY <2>1, JobsAre
<1>4. QED  BY <1>1, <1>2, <1>3, JobsAre

\* What the calls but c hold after a save of the row under key k: the same, and
\* old if it was of that row.
LEMMA OthersMarked ==
  ASSUME CatalogInv, NEW c \in Call, NEW k \in Key, NEW next \in Jobs \cup {Idle}, Saved(c, k, next),
         \A p \in Product \ {k} : products'[p] = products[p],
         k = Nav \/ nav' = nav
  PROVE  /\ calls' \in [Call -> Jobs \cup {Idle}] /\ calls'[c] = next
         /\ \A d \in Call \ {c} :
              /\ calls'[d] # Idle => JobFits(d)'
              /\ calls'[d] = Idle <=> calls[d] = Idle
              /\ calls[d] # Idle => calls'[d].do = calls[d].do /\ calls'[d].on = calls[d].on
<1>1. /\ calls'[c] = next /\ DOMAIN calls' = Call
      /\ calls' = [d \in Call |-> calls'[d]]
      /\ \A d \in Call \ {c} :
           calls'[d] = IF calls[d] # Idle /\ calls[d].on = k THEN [calls[d] EXCEPT !.old = TRUE]
                       ELSE calls[d]
  BY DEF Saved
<1>2. ASSUME NEW d \in Call \ {c}
      PROVE  /\ calls'[d] \in Jobs \cup {Idle}
             /\ calls'[d] # Idle => JobFits(d)'
             /\ calls'[d] = Idle <=> calls[d] = Idle
             /\ calls[d] # Idle => calls'[d].do = calls[d].do /\ calls'[d].on = calls[d].on
  <2>0. calls[d] \in Jobs \cup {Idle} /\ (calls[d] # Idle => JobFits(d))
    BY DEF CatalogInv, TypeOK
  <2>1. CASE calls[d] = Idle
    BY <1>1, <2>1
  <2>2. CASE calls[d] # Idle /\ calls[d].on = k
    <3>1. calls'[d] = [calls[d] EXCEPT !.old = TRUE] /\ calls[d] \in Jobs
      BY <1>1, <2>0, <2>2
    <3>2. /\ calls'[d] \in Jobs /\ calls'[d] # Idle /\ calls'[d].old
          /\ calls'[d].do = calls[d].do /\ calls'[d].on = calls[d].on /\ calls'[d].row = calls[d].row
      BY <3>1, OldCatalogJob
    <3>3. QED  BY <2>0, <2>2, <3>2 DEF JobFits
  <2>3. CASE calls[d] # Idle /\ calls[d].on # k
    <3>1. calls'[d] = calls[d] /\ calls[d] \in Jobs
      BY <1>1, <2>0, <2>3
    <3>2. /\ calls[d].do \in {"change", "moderate", "document", "reindex"} => calls[d].on \in Product
          /\ calls[d].on = Nav \/ calls[d].on \in Product
      BY <3>1, JobsAre DEF Key
    <3>3. QED  BY <2>0, <2>3, <3>1, <3>2 DEF JobFits, Now
  <2>4. QED  BY <2>1, <2>2, <2>3
<1>3. QED  BY <1>1, <1>2


\* The signals that are to come for the other keys are to come still.
LEMMA StillSaving ==
  ASSUME NEW c \in Call, NEW k, NEW signals,
         \A d \in Call \ {c} : calls[d] # Idle =>
           calls'[d] # Idle /\ calls'[d].do = calls[d].do /\ calls'[d].on = calls[d].on,
         calls[c] # Idle => calls[c].on # k \/ calls[c].do \notin signals,
         Saving(k, signals)
  PROVE  Saving(k, signals)'
  BY DEF Saving

\* A product is saved by call c: its document is to be written, of the row that
\* was saved unless that is old.
LEMMA ProductSaved ==
  ASSUME CatalogInv, NEW c \in Call, NEW p \in Product, NEW row \in Rows, NEW old \in BOOLEAN,
         calls[c] # Idle, calls[c].do \in {"insert", "change", "moderate"},
         products' = [products EXCEPT ![p] = row],
         NEW seen \in Rows, ~old => seen = row,
         Saved(c, p, Document(p, seen, old)),
         writes' \in 0..MaxWrites, UNCHANGED <<extras, nav, pages, index>>
  PROVE  CatalogInv'
<1> DEFINE job == Document(p, seen, old)
<1>1. /\ job \in Jobs /\ job # Idle
      /\ job.do = "document" /\ job.on = p /\ job.row = seen /\ job.old = old
  <2>1. job \in ProductJobs
    BY DEF Document, ProductJobs
  <2>2. QED  BY <2>1, JobsAre DEF Document
<1> HIDE DEF job
<1>2. /\ calls' \in [Call -> Jobs \cup {Idle}] /\ calls'[c] = job
      /\ \A d \in Call \ {c} :
           /\ calls'[d] # Idle => JobFits(d)'
           /\ calls'[d] = Idle <=> calls[d] = Idle
           /\ calls[d] # Idle => calls'[d].do = calls[d].do /\ calls'[d].on = calls[d].on
  <2>1. p \in Key /\ job \in Jobs \cup {Idle} /\ Saved(c, p, job)
    BY <1>1 DEF Key, job
  <2>2. \A q \in Product \ {p} : products'[q] = products[q]
    BY DEF CatalogInv, TypeOK
  <2>3. QED  BY <2>1, <2>2, OthersMarked
<1>3. products'[p] = row /\ \A q \in Product \ {p} : products'[q] = products[q]
  BY DEF CatalogInv, TypeOK
<1>4. JobFits(c)'
  BY <1>1, <1>2, <1>3 DEF JobFits
<1>5. Saving(p, {"document"})' /\ Saving(p, {"document", "invalidate"})'
  BY <1>1, <1>2 DEF Saving
<1>6. ASSUME NEW k \in Key PROVE PageFollowsRow(k)'
  <2>1. CASE k = p
    BY <1>5, <2>1 DEF PageFollowsRow
  <2>2. CASE k # p
    <3>1. Saving(k, {"document", "invalidate"}) => Saving(k, {"document", "invalidate"})'
      BY <1>2, StillSaving
    <3>2. /\ k # Nav => products'[k] = products[k]
          /\ k = Nav => Now(k)' = Now(k)
      BY <1>3, <2>2 DEF Key, Now
    <3>3. PageFollowsRow(k)
      BY DEF CatalogInv, CopiesFollowRows
    <3>4. QED  BY <3>1, <3>2, <3>3 DEF PageFollowsRow
  <2>3. QED  BY <2>1, <2>2
<1>7. ASSUME NEW q \in Product PROVE IndexFollowsRow(q)'
  <2>1. CASE q = p
    BY <1>5, <2>1 DEF IndexFollowsRow
  <2>2. CASE q # p
    <3>1. Saving(q, {"document"}) => Saving(q, {"document"})'
      BY <1>2, StillSaving
    <3>2. QED  BY <1>3, <2>2, <3>1 DEF IndexFollowsRow, CatalogInv, CopiesFollowRows
  <2>3. QED  BY <2>1, <2>2
<1>8. TypeOK'
  BY <1>2 DEF CatalogInv, TypeOK
<1>9. QED  BY <1>2, <1>4, <1>6, <1>7, <1>8 DEF CatalogInv, CopiesFollowRows

\* A call begins that saves nothing: it holds the row as it is.
LEMMA CallBegins ==
  ASSUME CatalogInv, NEW c \in Call, calls[c] = Idle, NEW job \in Jobs,
         calls' = [calls EXCEPT ![c] = job], ~job.old,
         job.do \in {"change", "moderate", "document", "reindex"} => job.row = products[job.on],
         job.do \in {"change", "moderate"} => job.row \in Row,
         job.do = "fill" =>
           IF job.on = Nav THEN job.row = Now(Nav) ELSE job.row.row = products[job.on],
         UNCHANGED <<products, extras, nav, pages, index, writes>>
  PROVE  CatalogInv'
<1>1. /\ calls' \in [Call -> Jobs \cup {Idle}] /\ calls'[c] = job
      /\ \A d \in Call \ {c} : calls'[d] = calls[d]
  BY DEF CatalogInv, TypeOK
<1>2. \A d \in Call : calls'[d] # Idle => JobFits(d)'
  BY <1>1 DEF CatalogInv, JobFits, Now
<1>3. ASSUME NEW k, NEW signals, Saving(k, signals) PROVE Saving(k, signals)'
  BY <1>1, <1>3, StillSaving
<1>4. CopiesFollowRows'
  BY <1>3 DEF CatalogInv, CopiesFollowRows, PageFollowsRow, IndexFollowsRow, Now
<1>5. TypeOK'
  BY <1>1 DEF CatalogInv, TypeOK
<1>6. QED  BY <1>2, <1>4, <1>5 DEF CatalogInv

\* Call c leaves the rows alone, goes to next, and has seen to its key's copies.
LEMMA CallGoes ==
  ASSUME CatalogInv, NEW c \in Call, NEW next \in Jobs \cup {Idle}, calls[c] # Idle,
         calls' = [calls EXCEPT ![c] = next], next # Idle => next.do = "invalidate",
         next # Idle => next.on = calls[c].on,
         pages' \in [Key -> Page \cup {NoPage}], index' \in [Product -> Doc],
         \A k \in Key \ {calls[c].on} : pages'[k] = pages[k],
         \A p \in Product \ {calls[c].on} : index'[p] = index[p],
         \A k \in Key : k = calls[c].on => PageFollowsRow(k)',
         \A p \in Product : p = calls[c].on => IndexFollowsRow(p)',
         UNCHANGED <<products, extras, nav, writes>>
  PROVE  CatalogInv'
<1>1. /\ calls' \in [Call -> Jobs \cup {Idle}] /\ calls'[c] = next
      /\ \A d \in Call \ {c} : calls'[d] = calls[d]
  BY DEF CatalogInv, TypeOK
<1>2. \A d \in Call : calls'[d] # Idle => JobFits(d)'
  BY <1>1 DEF CatalogInv, JobFits, Now
<1>3. ASSUME NEW k, NEW signals, k # calls[c].on, Saving(k, signals) PROVE Saving(k, signals)'
  BY <1>1, <1>3, StillSaving
<1>4. ASSUME NEW k \in Key PROVE PageFollowsRow(k)'
  BY <1>3 DEF CatalogInv, CopiesFollowRows, PageFollowsRow, Now
<1>5. ASSUME NEW p \in Product PROVE IndexFollowsRow(p)'
  BY <1>3 DEF CatalogInv, CopiesFollowRows, IndexFollowsRow
<1>6. TypeOK'
  BY <1>1 DEF CatalogInv, TypeOK
<1>7. QED  BY <1>2, <1>4, <1>5, <1>6 DEF CatalogInv, CopiesFollowRows


\* A step that changes at most the child rows, and drops pages from the cache.
LEMMA NoCallSteps ==
  ASSUME CatalogInv, UNCHANGED <<calls, products, nav, index>>,
         extras' \in [Product -> 0..MaxWrites], writes' \in 0..MaxWrites,
         pages' \in [Key -> Page \cup {NoPage}],
         \A k \in Key : pages'[k] = NoPage \/ pages'[k] = pages[k]
  PROVE  CatalogInv'
<1>1. \A k \in Key : k = Nav => Now(k)' = Now(k)
  BY DEF Now
<1>2. \A c \in Call : calls'[c] # Idle => JobFits(c)'
  BY DEF CatalogInv, JobFits, Now
<1>3. ASSUME NEW k \in Key PROVE PageFollowsRow(k)'
  BY <1>1 DEF CatalogInv, CopiesFollowRows, PageFollowsRow, Saving
<1>4. \A p \in Product : IndexFollowsRow(p)'
  BY DEF CatalogInv, CopiesFollowRows, IndexFollowsRow, Saving
<1>5. QED  BY <1>2, <1>3, <1>4 DEF CatalogInv, CopiesFollowRows, TypeOK

\* What call c has to do is a job, with its fields.
LEMMA JobOf ==
  ASSUME CatalogInv, NEW c \in Call, calls[c] # Idle
  PROVE  /\ calls[c] \in Jobs /\ calls[c].on \in Key /\ calls[c].old \in BOOLEAN
         /\ JobFits(c)
         /\ calls[c].do \in {"insert", "change", "moderate", "reindex", "document"} =>
              calls[c].on \in Product /\ calls[c].row \in Rows
         /\ calls[c].do = "fill" => calls[c].row \in Content
  BY JobsAre DEF CatalogInv, TypeOK

LEMMA WriteBound ==
  ASSUME CatalogInv, CountWrite
  PROVE  writes' \in 0..MaxWrites
  BY CatalogAssumption DEF CountWrite, CatalogInv, TypeOK

LEMMA SellerStep ==
  ASSUME CatalogInv, NEW c \in Call, InsertProduct(c) \/ UpdateProduct(c) \/ DeleteProduct(c)
  PROVE  CatalogInv'
<1>1. calls[c] # Idle /\ calls[c].do \in {"insert", "change"}
  BY DEF InsertProduct, UpdateProduct, DeleteProduct, Does
<1>2. PICK p \in Product : p = calls[c].on
  BY <1>1, JobOf
<1>3. writes' \in 0..MaxWrites
  BY WriteBound DEF InsertProduct, UpdateProduct, DeleteProduct
<1>4. CASE InsertProduct(c)
  <2>1. PICK asked \in Status :
          LET row == [status |-> Resolved(asked), text |-> 0] IN
          /\ products' = [products EXCEPT ![p] = row]
          /\ Saved(c, p, Document(p, row, FALSE))
    BY <1>2, <1>4 DEF InsertProduct
  <2> DEFINE row == [status |-> Resolved(asked), text |-> 0]
  <2>2. row \in Rows
    BY CatalogAssumption DEF Resolved, Status, Rows, Row
  <2>3. products' = [products EXCEPT ![p] = row] /\ Saved(c, p, Document(p, row, FALSE))
    BY <2>1
  <2> HIDE DEF row
  <2>4. UNCHANGED <<extras, nav, pages, index>>
    BY <1>4 DEF InsertProduct
  <2>5. QED  BY <1>1, <1>3, <2>2, <2>3, <2>4, ProductSaved
<1>5. CASE UpdateProduct(c)
  <2>1. PICK row \in Rows :
          /\ products' = [products EXCEPT ![p] = row]
          /\ Saved(c, p, Document(p, row, FALSE))
    <3>1. PICK asked \in Status \cup {"keep"}, changed \in BOOLEAN :
            LET row == [status |-> IF asked = "keep" THEN calls[c].row.status ELSE Resolved(asked),
                        text   |-> IF changed THEN writes' ELSE calls[c].row.text]
            IN  /\ products' = [products EXCEPT ![p] = row]
                /\ Saved(c, p, Document(p, row, FALSE))
      BY <1>2, <1>5 DEF UpdateProduct
    <3> DEFINE row == [status |-> IF asked = "keep" THEN calls[c].row.status ELSE Resolved(asked),
                       text   |-> IF changed THEN writes' ELSE calls[c].row.text]
    <3>2. calls[c].row \in Row
      BY <1>1, <1>5, JobOf DEF JobFits, UpdateProduct, Does
    <3>3. row \in Rows
      <4>1. calls[c].row.status \in Status /\ calls[c].row.text \in 0..MaxWrites
        BY <3>2 DEF Row
      <4>2. Resolved(asked) \in Status \cup {"keep"} /\ (asked # "keep" => Resolved(asked) \in Status)
        BY DEF Resolved, Status
      <4>3. row \in Row
        BY <1>3, <4>1, <4>2 DEF Row
      <4>4. QED  BY <4>3 DEF Rows
    <3>4. products' = [products EXCEPT ![p] = row] /\ Saved(c, p, Document(p, row, FALSE))
      BY <3>1
    <3> HIDE DEF row
    <3>5. QED  BY <3>3, <3>4
  <2>2. UNCHANGED <<extras, nav, pages, index>>
    BY <1>5 DEF UpdateProduct
  <2>3. QED  BY <1>1, <1>3, <2>1, <2>2, ProductSaved
<1>6. CASE DeleteProduct(c)
  <2>1. /\ products' = [products EXCEPT ![p] = GoneRow] /\ Saved(c, p, Document(p, GoneRow, FALSE))
        /\ UNCHANGED <<extras, nav, pages, index>> /\ GoneRow \in Rows
    BY <1>2, <1>6 DEF DeleteProduct, Rows
  <2>2. QED  BY <1>1, <1>3, <2>1, ProductSaved
<1>7. QED  BY <1>4, <1>5, <1>6

LEMMA StaffStep ==
  ASSUME CatalogInv, NEW c \in Call, NEW verdict \in {"published", "rejected"}, Moderate(c, verdict)
  PROVE  CatalogInv'
<1>1. calls[c] # Idle /\ calls[c].do = "moderate"
  BY DEF Moderate, Does
<1>2. PICK p \in Product, old \in BOOLEAN : p = calls[c].on /\ old = calls[c].old
  BY <1>1, JobOf
<1>3. writes' \in 0..MaxWrites
  BY WriteBound DEF Moderate
<1>4. PICK was \in Row, read \in Row : was = products[p] /\ read = calls[c].row
  BY <1>1, <1>2, JobOf DEF Moderate, Exists, JobFits
<1> DEFINE row == [was EXCEPT !.status = verdict]
           seen == [read EXCEPT !.status = verdict]
<1>5. row \in Rows /\ seen \in Rows
  BY DEF Row, Rows, Status
<1>6. ~old => seen = row
  BY <1>1, <1>2, <1>4, JobOf DEF JobFits
<1>7. /\ products' = [products EXCEPT ![p] = row] /\ Saved(c, p, Document(p, seen, old))
      /\ UNCHANGED <<extras, nav, pages, index>>
  BY <1>2, <1>4 DEF Moderate, CatalogInv, TypeOK
<1> HIDE DEF row, seen
<1>8. QED  BY <1>1, <1>3, <1>5, <1>6, <1>7, ProductSaved

LEMMA CategoryStep ==
  ASSUME CatalogInv, NEW c \in Call, SaveCategory(c)
  PROVE  CatalogInv'
<1> DEFINE job == Invalidate(Nav)
<1>1. /\ job \in Jobs /\ job # Idle /\ job.do = "invalidate" /\ job.on = Nav /\ Nav \in Key
  <2>1. job \in InvalidateJobs
    BY DEF Invalidate, Job, InvalidateJobs, Key
  <2>2. QED  BY <2>1, JobsAre DEF Invalidate, Job, Key
<1>2. Saved(c, Nav, job) /\ calls[c] = Idle /\ writes' \in 0..MaxWrites /\ nav' = writes'
      /\ UNCHANGED <<products, extras, pages, index>>
  BY WriteBound DEF SaveCategory
<1> HIDE DEF job
<1>3. /\ calls' \in [Call -> Jobs \cup {Idle}] /\ calls'[c] = job
      /\ \A d \in Call \ {c} :
           /\ calls'[d] # Idle => JobFits(d)'
           /\ calls'[d] = Idle <=> calls[d] = Idle
           /\ calls[d] # Idle => calls'[d].do = calls[d].do /\ calls'[d].on = calls[d].on
  <2>1. \A p \in Product \ {Nav} : products'[p] = products[p]
    BY <1>2
  <2>2. QED  BY <1>1, <1>2, <2>1, OthersMarked
<1>4. JobFits(c)'
  BY <1>1, <1>3 DEF JobFits
<1>5. Saving(Nav, {"document", "invalidate"})'
  BY <1>1, <1>3 DEF Saving
<1>6. ASSUME NEW k, NEW signals, Saving(k, signals) PROVE Saving(k, signals)'
  BY <1>2, <1>3, <1>6, StillSaving
<1>7. \A k \in Key : PageFollowsRow(k)'
  BY <1>2, <1>5, <1>6 DEF CatalogInv, CopiesFollowRows, PageFollowsRow
<1>8. \A p \in Product : IndexFollowsRow(p)'
  BY <1>2, <1>6 DEF CatalogInv, CopiesFollowRows, IndexFollowsRow
<1>9. TypeOK'
  BY <1>2, <1>3 DEF CatalogInv, TypeOK
<1>10. QED  BY <1>3, <1>4, <1>7, <1>8, <1>9 DEF CatalogInv, CopiesFollowRows


LEMMA BeginStep ==
  ASSUME CatalogInv, NEW c \in Call, BeginCall(c)
  PROVE  CatalogInv'
<1>1. CASE SaveCategory(c)
  BY <1>1, CategoryStep
<1>2. CASE ReadCategories(c)
  <2> DEFINE job == [do |-> "fill", on |-> Nav, row |-> [nav |-> nav], old |-> FALSE]
  <2>1. job \in Jobs
    <3>1. [nav |-> nav] \in Content
      BY DEF Content, CatalogInv, TypeOK
    <3>2. job \in FillJobs
      BY <3>1 DEF FillJobs, Key
    <3>3. QED  BY <3>2, JobsAre
  <2>2. /\ calls[c] = Idle /\ calls' = [calls EXCEPT ![c] = job]
        /\ job.do = "fill" /\ job.on = Nav /\ job.row = Now(Nav) /\ ~job.old
        /\ UNCHANGED <<products, extras, nav, pages, index, writes>>
    BY <1>2 DEF ReadCategories, Begin, Job, Now
  <2> HIDE DEF job
  <2>3. QED  BY <2>1, <2>2, CallBegins
<1>3. ASSUME NEW p \in Product, ReadProduct(c, p) PROVE CatalogInv'
  <2> DEFINE job == [do |-> "fill", on |-> p, row |-> [row |-> products[p], extras |-> extras[p]],
                     old |-> FALSE]
  <2>1. job \in Jobs
    <3>1. [row |-> products[p], extras |-> extras[p]] \in Content
      BY DEF Content, CatalogInv, TypeOK
    <3>2. job \in FillJobs
      BY <3>1 DEF FillJobs, Key
    <3>3. QED  BY <3>2, JobsAre
  <2>2. p # Nav
    BY CatalogAssumption
  <2>3. /\ calls[c] = Idle /\ calls' = [calls EXCEPT ![c] = job]
        /\ job.do = "fill" /\ job.on = p /\ job.row.row = products[p] /\ ~job.old
        /\ UNCHANGED <<products, extras, nav, pages, index, writes>>
    BY <1>3, <2>2 DEF ReadProduct, Begin, Job, Now
  <2> HIDE DEF job
  <2>4. QED  BY <2>1, <2>2, <2>3, CallBegins
<1>4. ASSUME NEW p \in Product, CheckStore(c, p) PROVE CatalogInv'
  <2> DEFINE job == [do |-> "insert", on |-> p, row |-> Unmade, old |-> FALSE]
  <2>1. job \in Jobs
    <3>1. job \in ProductJobs
      BY DEF ProductJobs, Rows
    <3>2. QED  BY <3>1, JobsAre
  <2>2. /\ calls[c] = Idle /\ calls' = [calls EXCEPT ![c] = job]
        /\ job.do = "insert" /\ ~job.old
        /\ UNCHANGED <<products, extras, nav, pages, index, writes>>
    BY <1>4 DEF CheckStore, Begin, Job
  <2> HIDE DEF job
  <2>3. QED  BY <2>1, <2>2, CallBegins
<1>5. ASSUME NEW p \in Product, NEW do \in {"change", "moderate", "reindex"}, Exists(p),
             Begin(c, Job(do, p, products[p])),
             UNCHANGED <<products, extras, nav, pages, index, writes>>
      PROVE  CatalogInv'
  <2> DEFINE job == [do |-> do, on |-> p, row |-> products[p], old |-> FALSE]
  <2>1. job \in Jobs
    <3>1. job \in ProductJobs
      BY <1>5 DEF ProductJobs, Rows, Exists
    <3>2. QED  BY <3>1, JobsAre
  <2>2. /\ calls[c] = Idle /\ calls' = [calls EXCEPT ![c] = job]
        /\ job.do \in {"change", "moderate", "reindex"} /\ job.on = p
        /\ job.row = products[p] /\ job.row \in Row /\ ~job.old
    BY <1>5 DEF Begin, Job, Exists
  <2> HIDE DEF job
  <2>3. QED  BY <1>5, <2>1, <2>2, CallBegins
<1>6. QED
  BY <1>1, <1>2, <1>3, <1>4, <1>5 DEF BeginCall, LoadProduct, LoadToModerate, RelatedSaved

LEMMA SignalStep ==
  ASSUME CatalogInv, NEW c \in Call,
         WriteDocument(c) \/ InvalidatePage(c) \/ FillPage(c) \/ LoseCall(c)
  PROVE  CatalogInv'
<1>0. /\ pages \in [Key -> Page \cup {NoPage}] /\ index \in [Product -> Doc]
      /\ \A k \in Key : PageFollowsRow(k)
      /\ \A p \in Product : IndexFollowsRow(p)
  BY DEF CatalogInv, TypeOK, CopiesFollowRows
<1>1. CASE WriteDocument(c)
  <2>1. PICK p \in Product, old \in BOOLEAN, row \in Rows :
          p = calls[c].on /\ old = calls[c].old /\ row = calls[c].row
    BY <1>1, JobOf DEF WriteDocument, Does
  <2>2. ~old => row = products[p]
    BY <1>1, <2>1, JobOf DEF WriteDocument, Does, JobFits
  <2>3. /\ calls[c] # Idle /\ calls[c].do \in {"document", "reindex"}
        /\ index' = [index EXCEPT ![p] = [row |-> row, old |-> old]]
        /\ calls' = [calls EXCEPT ![c] =
                       IF calls[c].do = "reindex" THEN Idle ELSE Invalidate(p)]
        /\ UNCHANGED <<products, extras, nav, pages, writes>>
    BY <1>1, <2>1 DEF WriteDocument, Does, Goes
  <2>4. PICK next \in Jobs \cup {Idle} :
          /\ calls' = [calls EXCEPT ![c] = next]
          /\ next # Idle => next.do = "invalidate" /\ next.on = p
          /\ calls[c].do = "document" => next # Idle
    <3> DEFINE job == Invalidate(p)
    <3>1. job \in InvalidateJobs /\ job.do = "invalidate" /\ job.on = p
      BY DEF Invalidate, Job, InvalidateJobs, Key
    <3>2. job \in Jobs /\ job # Idle
      BY <3>1, JobsAre
    <3> HIDE DEF job
    <3>3. calls' = [calls EXCEPT ![c] = IF calls[c].do = "reindex" THEN Idle ELSE job]
      BY <2>3 DEF job
    <3>4. QED  BY <2>3, <3>1, <3>2, <3>3
  <2>5. /\ index' \in [Product -> Doc] /\ index'[p] = [row |-> row, old |-> old]
        /\ \A q \in Product \ {p} : index'[q] = index[q]
    <3>1. [row |-> row, old |-> old] \in Doc
      BY DEF Doc
    <3>2. QED  BY <1>0, <2>3, <3>1
  <2>6. IndexFollowsRow(p)'
    BY <2>2, <2>3, <2>5 DEF IndexFollowsRow
  <2>7. PageFollowsRow(p)'
    <3>1. Saving(p, {"document", "invalidate"}) => Saving(p, {"document", "invalidate"})'
      <4>1. ASSUME NEW d \in Call, calls[d] # Idle, calls[d].do \in {"document", "invalidate"},
                   calls[d].on = p
            PROVE  Saving(p, {"document", "invalidate"})'
        <5>1. CASE d = c
          <6>1. calls'[c] # Idle /\ calls'[c].do = "invalidate" /\ calls'[c].on = p
            BY <2>3, <2>4, <4>1, <5>1 DEF CatalogInv, TypeOK
          <6>2. QED  BY <6>1 DEF Saving
        <5>2. CASE d # c
          BY <2>4, <4>1, <5>2 DEF Saving
        <5>3. QED  BY <5>1, <5>2
      <4>2. QED  BY <4>1 DEF Saving
    <3>2. p \in Key
      BY DEF Key
    <3>3. QED  BY <1>0, <2>3, <3>1, <3>2 DEF PageFollowsRow, Now
  <2>8. /\ pages' \in [Key -> Page \cup {NoPage}] /\ \A k \in Key : pages'[k] = pages[k]
        /\ \A q \in Product \ {calls[c].on} : index'[q] = index[q]
        /\ \A k \in Key : k = calls[c].on => PageFollowsRow(k)'
        /\ \A q \in Product : q = calls[c].on => IndexFollowsRow(q)'
        /\ next # Idle => next.on = calls[c].on
    BY <1>0, <2>1, <2>3, <2>4, <2>5, <2>6, <2>7
  <2>9. QED  BY <2>3, <2>4, <2>5, <2>8, CallGoes
<1>2. CASE InvalidatePage(c)
  <2>1. PICK k \in Key : k = calls[c].on
    BY <1>2, JobOf DEF InvalidatePage, Does
  <2>2. /\ calls[c] # Idle /\ calls[c].do = "invalidate"
        /\ pages' = [pages EXCEPT ![k] = NoPage] /\ calls' = [calls EXCEPT ![c] = Idle]
        /\ UNCHANGED <<products, extras, nav, index, writes>>
    BY <1>2, <2>1 DEF InvalidatePage, Does, End, Goes
  <2>3. /\ pages' \in [Key -> Page \cup {NoPage}] /\ pages'[k] = NoPage
        /\ \A j \in Key \ {k} : pages'[j] = pages[j]
    BY <1>0, <2>2
  <2>4. PageFollowsRow(k)'
    BY <2>3 DEF PageFollowsRow
  <2>5. ASSUME NEW p \in Product, p = k PROVE IndexFollowsRow(p)'
    <3>1. Saving(p, {"document"}) => Saving(p, {"document"})'
      BY <2>2 DEF Saving
    <3>2. QED  BY <1>0, <2>2, <3>1 DEF IndexFollowsRow
  <2>6. QED  BY <1>0, <2>1, <2>2, <2>3, <2>4, <2>5, CallGoes
<1>3. CASE FillPage(c)
  <2>1. PICK k \in Key, content \in Content, old \in BOOLEAN :
          k = calls[c].on /\ content = calls[c].row /\ old = calls[c].old
    BY <1>3, JobOf DEF FillPage, Does
  <2>2. /\ calls[c] # Idle /\ calls[c].do = "fill"
        /\ pages' = [pages EXCEPT ![k] = [content |-> content, old |-> old]]
        /\ calls' = [calls EXCEPT ![c] = Idle]
        /\ UNCHANGED <<products, extras, nav, index, writes>>
    BY <1>3, <2>1 DEF FillPage, Does, End, Goes
  <2>3. /\ pages' \in [Key -> Page \cup {NoPage}] /\ pages'[k] = [content |-> content, old |-> old]
        /\ \A j \in Key \ {k} : pages'[j] = pages[j]
    <3>1. [content |-> content, old |-> old] \in Page
      BY DEF Page
    <3>2. QED  BY <1>0, <2>2, <3>1
  <2>4. ~old => IF k = Nav THEN content = Now(Nav) ELSE content.row = products[k]
    BY <2>1, <2>2, JobOf DEF JobFits
  <2>5. PageFollowsRow(k)'
    <3>1. pages'[k].content = content /\ pages'[k].old = old
      BY <2>3
    <3>2. UNCHANGED <<products, nav>>
      BY <2>2
    <3>3. k = Nav => Now(k)' = Now(Nav)
      BY <3>2 DEF Now
    <3>4. QED  BY <2>4, <3>1, <3>2, <3>3 DEF PageFollowsRow
  <2>6. ASSUME NEW p \in Product, p = k PROVE IndexFollowsRow(p)'
    <3>1. Saving(p, {"document"}) => Saving(p, {"document"})'
      BY <2>2 DEF Saving
    <3>2. QED  BY <1>0, <2>2, <3>1 DEF IndexFollowsRow
  <2>7. QED  BY <1>0, <2>1, <2>2, <2>3, <2>5, <2>6, CallGoes
<1>4. CASE LoseCall(c)
  <2>1. PICK k \in Key : k = calls[c].on
    BY <1>4 DEF LoseCall
  <2>2. /\ calls[c] # Idle /\ calls' = [calls EXCEPT ![c] = Idle]
        /\ UNCHANGED <<products, extras, nav, writes>>
        /\ index' = IF calls[c].do = "document" THEN [index EXCEPT ![k].old = TRUE] ELSE index
        /\ pages' = IF calls[c].do \in {"document", "invalidate"} /\ pages[k] # NoPage
                    THEN [pages EXCEPT ![k].old = TRUE] ELSE pages
    BY <1>4, <2>1 DEF LoseCall, End, Goes
  <2>3. /\ pages' \in [Key -> Page \cup {NoPage}]
        /\ \A j \in Key \ {k} : pages'[j] = pages[j]
        /\ calls[c].do \in {"document", "invalidate"} => pages'[k] = NoPage \/ pages'[k].old
        /\ calls[c].do \notin {"document", "invalidate"} => pages'[k] = pages[k]
    <3>1. CASE calls[c].do \in {"document", "invalidate"} /\ pages[k] # NoPage
      <4>1. PICK page \in Page : page = pages[k]
        BY <1>0, <3>1
      <4>2. [page EXCEPT !.old = TRUE] \in Page /\ [page EXCEPT !.old = TRUE].old
        BY DEF Page
      <4>3. pages' = [pages EXCEPT ![k] = [page EXCEPT !.old = TRUE]]
        BY <1>0, <2>2, <3>1, <4>1
      <4>4. QED  BY <1>0, <3>1, <4>2, <4>3
    <3>2. CASE ~(calls[c].do \in {"document", "invalidate"} /\ pages[k] # NoPage)
      BY <1>0, <2>2, <3>2
    <3>3. QED  BY <3>1, <3>2
  <2>4. /\ index' \in [Product -> Doc]
        /\ \A p \in Product \ {k} : index'[p] = index[p]
        /\ k \in Product /\ calls[c].do = "document" => index'[k].old
        /\ calls[c].do # "document" => index' = index
    <3>1. CASE calls[c].do = "document"
      <4>1. k \in Product
        BY <2>1, <2>2, <3>1, JobOf
      <4>2. PICK doc \in Doc : doc = index[k]
        BY <1>0, <4>1
      <4>3. [doc EXCEPT !.old = TRUE] \in Doc /\ [doc EXCEPT !.old = TRUE].old
        BY DEF Doc
      <4>4. index' = [index EXCEPT ![k] = [doc EXCEPT !.old = TRUE]]
        BY <1>0, <2>2, <3>1, <4>1, <4>2
      <4>5. QED  BY <1>0, <3>1, <4>1, <4>3, <4>4
    <3>2. CASE calls[c].do # "document"
      BY <1>0, <2>2, <3>2
    <3>3. QED  BY <3>1, <3>2
  <2>5. ASSUME NEW signals, calls[c].do \notin signals, Saving(k, signals) PROVE Saving(k, signals)'
    BY <2>2, <2>5 DEF Saving
  <2>6. PageFollowsRow(k)'
    <3>1. CASE calls[c].do \in {"document", "invalidate"}
      BY <2>3, <3>1 DEF PageFollowsRow
    <3>2. CASE calls[c].do \notin {"document", "invalidate"}
      <4>1. Saving(k, {"document", "invalidate"}) => Saving(k, {"document", "invalidate"})'
        BY <2>5, <3>2
      <4>2. QED  BY <1>0, <2>2, <2>3, <3>2, <4>1 DEF PageFollowsRow, Now
    <3>3. QED  BY <3>1, <3>2
  <2>7. ASSUME NEW p \in Product, p = k PROVE IndexFollowsRow(p)'
    <3>1. CASE calls[c].do = "document"
      BY <2>4, <2>7, <3>1 DEF IndexFollowsRow
    <3>2. CASE calls[c].do # "document"
      <4>1. Saving(p, {"document"}) => Saving(p, {"document"})'
        BY <2>5, <2>7, <3>2
      <4>2. QED  BY <1>0, <2>2, <2>4, <3>2, <4>1 DEF IndexFollowsRow
    <3>3. QED  BY <3>1, <3>2
  <2>8. QED  BY <1>0, <2>1, <2>2, <2>3, <2>4, <2>6, <2>7, CallGoes
<1>5. QED  BY <1>1, <1>2, <1>3, <1>4

LEMMA CatalogStep ==
  ASSUME CatalogInv, [Next]_vars
  PROVE  CatalogInv'
<1>1. ASSUME NEW p \in Product, SaveChild(p) PROVE CatalogInv'
  <2>1. writes' \in 0..MaxWrites
    BY <1>1, WriteBound DEF SaveChild
  <2>2. extras' \in [Product -> 0..MaxWrites]
    BY <1>1, <2>1 DEF SaveChild, CatalogInv, TypeOK
  <2>3. QED  BY <1>1, <2>1, <2>2, NoCallSteps DEF SaveChild, CatalogInv, TypeOK
<1>2. ASSUME NEW k \in Key, Expire(k) PROVE CatalogInv'
  BY <1>2, NoCallSteps DEF Expire, CatalogInv, TypeOK
<1>3. CASE UNCHANGED vars
  BY <1>3, NoCallSteps DEF vars, CatalogInv, TypeOK
<1>4. QED
  BY <1>1, <1>2, <1>3, SellerStep, StaffStep, BeginStep, SignalStep DEF Next, Step

LEMMA CatalogStarts == Init => CatalogInv
<1> SUFFICES ASSUME Init PROVE CatalogInv
  OBVIOUS
<1>1. TypeOK
  BY CatalogAssumption DEF Init, TypeOK, Rows, Doc
<1>2. QED
  BY <1>1 DEF Init, CatalogInv, CopiesFollowRows, PageFollowsRow, IndexFollowsRow

\* Every reachable state of the catalog and its copies has its type.
THEOREM CatalogTypeCorrect == Spec => []TypeOK
<1>1. CatalogInv => TypeOK
  BY DEF CatalogInv
<1>2. QED  BY <1>1, CatalogStarts, CatalogStep, PTL DEF Spec

\* The cached pages, the cached category list and the search index show the
\* rows as they were saved last, however saves, signals, reads and lost
\* processes overlap, but for the times CopiesFollowRows names.
THEOREM CopiesTrue == Spec => []CopiesFollowRows
<1>1. CatalogInv => CopiesFollowRows
  BY DEF CatalogInv
<1>2. QED  BY <1>1, CatalogStarts, CatalogStep, PTL DEF Spec

\* Only a step by staff publishes a product, or one that writes back what it
\* loaded while the product was published.
THEOREM StaffPublish == Spec => PublishedByStaff
<1> DEFINE Published ==
      \A p \in Product :
        products[p].status # "published" /\ products'[p].status = "published" =>
          \E c \in Call : /\ calls[c] # Idle /\ calls[c].on = p /\ calls'[c] # calls[c]
                          /\ Does(c, "moderate") \/ calls[c].old
<1>1. CatalogInv /\ [Next]_vars => [Published]_vars
  <2> SUFFICES ASSUME CatalogInv, Next, NEW p \in Product,
                      products[p].status # "published", products'[p].status = "published"
               PROVE  \E c \in Call : /\ calls[c] # Idle /\ calls[c].on = p /\ calls'[c] # calls[c]
                                      /\ Does(c, "moderate") \/ calls[c].old
    OBVIOUS
  <2>1. PICK c \in Call :
          \/ InsertProduct(c) \/ UpdateProduct(c) \/ DeleteProduct(c)
          \/ \E verdict \in {"published", "rejected"} : Moderate(c, verdict)
    BY DEF Next, BeginCall, Step, SaveCategory, ReadCategories, CheckStore, LoadProduct,
           LoadToModerate, RelatedSaved, ReadProduct, WriteDocument, InvalidatePage, FillPage,
           LoseCall, SaveChild, Expire
  <2>2. /\ calls[c] # Idle /\ calls[c].on \in Product
        /\ calls[c].do \in {"insert", "change", "moderate"}
        /\ \A q \in Product \ {calls[c].on} : products'[q] = products[q]
    BY <2>1, JobOf
    DEF InsertProduct, UpdateProduct, DeleteProduct, Moderate, Does, CatalogInv, TypeOK
  <2>3. calls[c].on = p
    BY <2>2
  <2>4. calls'[c] # calls[c]
    <3>1. \E row, old : Saved(c, calls[c].on, Document(calls[c].on, row, old))
      BY <2>1 DEF InsertProduct, UpdateProduct, DeleteProduct, Moderate
    <3>2. \E row, old : calls'[c] = [do |-> "document", on |-> calls[c].on, row |-> row, old |-> old]
      BY <3>1 DEF Saved, Document
    <3>3. calls'[c].do = "document"
      BY <3>2
    <3>4. QED  BY <2>2, <3>3
  <2>5. Does(c, "moderate") \/ calls[c].old
    <3>1. CASE InsertProduct(c)
      BY <2>3, <3>1 DEF InsertProduct, Resolved, Status, CatalogInv, TypeOK
    <3>2. CASE UpdateProduct(c)
      <4>1. calls[c].do = "change" /\ (~calls[c].old => calls[c].row = products[p])
        BY <2>2, <2>3, <3>2, JobOf DEF UpdateProduct, Does, JobFits
      <4>2. products'[p].status = "published" => calls[c].row.status = "published"
        BY <2>3, <3>2 DEF UpdateProduct, Resolved, Status, CatalogInv, TypeOK
      <4>3. QED  BY <4>1, <4>2
    <3>3. CASE DeleteProduct(c)
      BY <2>3, <3>3 DEF DeleteProduct, GoneRow, CatalogInv, TypeOK
    <3>4. QED  BY <2>1, <3>1, <3>2, <3>3 DEF Moderate
  <2>6. QED  BY <2>2, <2>3, <2>4, <2>5
<1>2. QED  BY <1>1, CatalogStarts, CatalogStep, PTL DEF Spec, PublishedByStaff

-----------------------------------------------------------------------------
(* Desk *)

Quiet == calls = [c \in Call |-> Idle]

MarketingSpec == MarketingInit /\ Quiet /\ [][MarketingNext]_<<calls, marketingVars>>
ReviewsSpec == ReviewsInit /\ Quiet /\ [][ReviewsNext]_<<calls, reviewVars>>
SupportSpec == SupportInit /\ Quiet /\ [][SupportNext]_<<calls, supportVars>>
AuditSpec == AuditInit /\ Quiet /\ [][AuditNext]_<<calls, auditVars>>

-----------------------------------------------------------------------------
(* Support: a status set on purpose stands *)

\* A request that is about a ticket found it there, and as long as nobody saved
\* the ticket since, the status it loaded is the ticket's; one that is to put
\* the ticket in progress loaded it open and has saved its reply.
TicketSeen(c) ==
  LET t == calls[c].on IN
  /\ calls[c] \in SupportJobs
  /\ tickets[t] # "none"
  /\ calls[c].do \in {"reply", "progress"} /\ ~calls[c].old => tickets[t] = calls[c].row.status
  /\ calls[c].do = "progress" => calls[c].row.status = "open" /\ replies[t].staff > 0

SupportInv ==
  /\ tickets \in [Ticket -> TicketStatus \cup {"none"}]
  /\ replies \in [Ticket -> [customer : Nat, staff : Nat]]
  /\ chosen \in [Ticket -> TicketStatus \cup {"none"}]
  /\ undone \subseteq Ticket
  /\ DOMAIN calls = Call
  /\ \A c \in Call : calls[c] # Idle => TicketSeen(c)
  /\ StatusStands

LEMMA OldTicketJob ==
  ASSUME NEW job \in SupportJobs
  PROVE  LET old == [job EXCEPT !.old = TRUE] IN
         /\ old \in SupportJobs /\ old.old
         /\ old.do = job.do /\ old.on = job.on /\ old.row = job.row
BY DEF SupportJobs

LEMMA SupportStep ==
  ASSUME SupportInv, [SupportNext]_<<calls, supportVars>>
  PROVE  SupportInv'
<1> USE DEF SupportInv, TicketSeen, StatusStands, SupportJobs, TicketStatus, Does
<1>1. ASSUME NEW c \in Call, NEW t \in Ticket, CreateTicket(c, t) PROVE SupportInv'
  BY <1>1 DEF CreateTicket, Begin, Job
<1>2. ASSUME NEW c \in Call, DescribeTicket(c) PROVE SupportInv'
  BY <1>2 DEF DescribeTicket, End, Goes
<1>3. ASSUME NEW t \in Ticket, CustomerReply(t) PROVE SupportInv'
  BY <1>3 DEF CustomerReply
<1>4. ASSUME NEW c \in Call, NEW t \in Ticket, LoadToReply(c, t) PROVE SupportInv'
  BY <1>4 DEF LoadToReply, Begin, Job, supportVars
<1>5. ASSUME NEW c \in Call, StaffReply(c) PROVE SupportInv'
  <2> DEFINE t == calls[c].on
  <2>1. /\ calls[c] # Idle /\ calls[c].do = "reply" /\ calls[c] \in SupportJobs
        /\ t \in Ticket
        /\ replies' = [replies EXCEPT ![t].staff = @ + 1]
        /\ UNCHANGED <<tickets, chosen, undone>>
    BY <1>5 DEF StaffReply
  <2>2. /\ replies' \in [Ticket -> [customer : Nat, staff : Nat]]
        /\ replies'[t].staff > 0
        /\ \A u \in Ticket : replies'[u].staff >= replies[u].staff
    BY <2>1
  <2>3. \A d \in Call \ {c} : calls'[d] = calls[d]
    BY <1>5 DEF StaffReply, Goes
  <2>4. calls'[c] # Idle =>
          /\ calls[c].row.status = "open" /\ calls'[c] = [calls[c] EXCEPT !.do = "progress"]
    BY <1>5 DEF StaffReply, Goes, Progresses
  <2>5. DOMAIN calls' = Call
    BY <1>5 DEF StaffReply, Goes
  <2>6. calls'[c] # Idle => TicketSeen(c)'
    BY <2>1, <2>2, <2>4
  <2>7. \A d \in Call \ {c} : calls'[d] # Idle => TicketSeen(d)'
    BY <2>1, <2>2, <2>3
  <2>8. StatusStands'
    BY <2>1, <2>2
  <2>9. QED  BY <2>1, <2>2, <2>5, <2>6, <2>7, <2>8
<1>6. ASSUME NEW c \in Call, StartProgress(c) PROVE SupportInv'
  <2> DEFINE t == calls[c].on
  <2>1. /\ calls[c] # Idle /\ calls[c].do = "progress" /\ calls[c] \in SupportJobs
        /\ t \in Ticket /\ replies[t].staff > 0
        /\ tickets' = [tickets EXCEPT ![t] = "in_progress"]
        /\ undone' = IF calls[c].old THEN undone \cup {t} ELSE undone
        /\ UNCHANGED <<replies, chosen>>
    BY <1>6 DEF StartProgress
  <2>2. ASSUME NEW d \in Call, calls'[d] # Idle PROVE TicketSeen(d)'
    <3>1. d # c /\ calls[d] # Idle
      BY <1>6, <2>2 DEF StartProgress, Saved
    <3>2. CASE calls[d].on = t
      <4>1. calls'[d] = [calls[d] EXCEPT !.old = TRUE]
        BY <1>6, <3>1, <3>2 DEF StartProgress, Saved
      <4>2. /\ calls'[d] \in SupportJobs /\ calls'[d].old
            /\ calls'[d].do = calls[d].do /\ calls'[d].on = t /\ calls'[d].row = calls[d].row
        BY <3>1, <3>2, <4>1, OldTicketJob
      <4>3. QED  BY <2>1, <3>1, <3>2, <4>2
    <3>3. CASE calls[d].on # t
      <4>1. calls'[d] = calls[d]
        BY <1>6, <3>1, <3>3 DEF StartProgress, Saved
      <4>2. QED  BY <2>1, <3>1, <3>3, <4>1
    <3>4. QED  BY <3>2, <3>3
  <2>3. StatusStands'
    <3>1. ASSUME ~calls[c].old PROVE chosen[t] = "open"
      BY <2>1, <3>1
    <3>2. QED  BY <2>1, <3>1
  <2>4. DOMAIN calls' = Call
    BY <1>6 DEF StartProgress, Saved
  <2>5. QED  BY <2>1, <2>2, <2>3, <2>4
<1>7. ASSUME NEW t \in Ticket, NEW s \in TicketStatus, SetStatus(t, s) PROVE SupportInv'
  <2>1. ASSUME NEW d \in Call, calls'[d] # Idle PROVE TicketSeen(d)'
    <3>1. calls[d] # Idle
      BY <1>7, <2>1 DEF SetStatus, SavedAtOnce
    <3>2. CASE calls[d].on = t
      <4>1. calls'[d] = [calls[d] EXCEPT !.old = TRUE]
        BY <1>7, <3>1, <3>2 DEF SetStatus, SavedAtOnce
      <4>2. /\ calls'[d] \in SupportJobs /\ calls'[d].old
            /\ calls'[d].do = calls[d].do /\ calls'[d].on = t /\ calls'[d].row = calls[d].row
        BY <3>1, <3>2, <4>1, OldTicketJob
      <4>3. QED  BY <1>7, <3>1, <3>2, <4>2 DEF SetStatus
    <3>3. CASE calls[d].on # t
      <4>1. calls'[d] = calls[d]
        BY <1>7, <3>1, <3>3 DEF SetStatus, SavedAtOnce
      <4>2. QED  BY <1>7, <3>1, <3>3, <4>1 DEF SetStatus
    <3>4. QED  BY <3>2, <3>3
  <2>2. StatusStands'
    BY <1>7 DEF SetStatus
  <2>3. DOMAIN calls' = Call
    BY <1>7 DEF SetStatus, SavedAtOnce
  <2>4. QED  BY <1>7, <2>1, <2>2, <2>3 DEF SetStatus
<1>8. ASSUME NEW c \in Call, LoseReply(c) PROVE SupportInv'
  BY <1>8 DEF LoseReply, End, Goes, supportVars
<1>9. CASE UNCHANGED <<calls, supportVars>>
  BY <1>9 DEF supportVars
<1>10. QED
  BY <1>1, <1>2, <1>3, <1>4, <1>5, <1>6, <1>7, <1>8, <1>9 DEF SupportNext

\* Whatever replies and status changes overlap, a ticket keeps the status staff
\* set last, unless a reply that had loaded it before undoes that.
THEOREM TicketStatusStands == SupportSpec => []StatusStands
<1>1. SupportInit /\ Quiet => SupportInv
  BY DEF SupportInit, Quiet, SupportInv, StatusStands
<1>2. SupportInv => StatusStands
  BY DEF SupportInv
<1>3. QED  BY <1>1, <1>2, SupportStep, PTL DEF SupportSpec


-----------------------------------------------------------------------------
(* Marketing: a referral is rewarded once *)

PayStages == {"payReferrer", "payReferred", "grant"}
Pays(c) == calls[c] # Idle /\ calls[c].do \in PayStages
AtStage(u, stages) == \E c \in Call : calls[c] # Idle /\ calls[c].on = u /\ calls[c].do \in stages

\* A request that pays for a signup is about the signup it made, which is not
\* granted yet, and has welcomed the new customer if it is past that.
ReferralSeen(c) ==
  LET u == calls[c].on IN
  /\ calls[c] \in MarketingJobs
  /\ calls[c].do = "sign" => calls[c].row # u
  /\ calls[c].do \in PayStages =>
       /\ signups[u].by = calls[c].row /\ signups[u].granted = FALSE
       /\ wallets[u]["welcome"] = IF calls[c].do = "grant" THEN 1 ELSE 0

\* The signups whose referrer is still to be paid by a running request, and
\* those whose referrer was paid for certain.
Owed(by) == {u \in Referred(by) : AtStage(u, {"payReferrer"})}
Bonused(by) == {u \in Referred(by) : Paid(u) \/ AtStage(u, {"payReferred", "grant"})}
Signed == {u \in Customer : signups[u].by # Idle}

WelcomeFits(u) ==
  /\ wallets[u]["welcome"] <= 1 /\ signups[u].by # u
  /\ signups[u].by = Idle => wallets[u]["welcome"] = 0
  /\ Paid(u) => wallets[u]["welcome"] = 1
  /\ signups[u].by # Idle => Paid(u) \/ InFlight(u) \/ u \in dropped

BonusFits(u) ==
  /\ wallets[u]["bonus"] + Cardinality(Owed(u)) <= Cardinality(Referred(u))
  /\ Cardinality(Bonused(u)) <= wallets[u]["bonus"]

ReferralJobsInv ==
  /\ DOMAIN calls = Call
  /\ \A c \in Call : calls[c] # Idle => ReferralSeen(c)
  /\ \A c, d \in Call : Pays(c) /\ Pays(d) /\ calls[c].on = calls[d].on => c = d

MarketingInv ==
  /\ MarketingTypeOK
  /\ ReferralJobsInv
  /\ IsFiniteSet(Signed)
  /\ \A u \in Customer : WelcomeFits(u)
  /\ \A u \in Customer : BonusFits(u)

USE MarketingAssumption DEF MarketingJobs

LEMMA ReferralsFinite ==
  ASSUME IsFiniteSet(Signed), NEW u \in Customer
  PROVE  IsFiniteSet(Referred(u)) /\ IsFiniteSet(Owed(u)) /\ IsFiniteSet(Bonused(u))
<1>1. Referred(u) \subseteq Signed
  BY DEF Referred, Signed
<1>2. Owed(u) \subseteq Referred(u) /\ Bonused(u) \subseteq Referred(u)
  BY DEF Owed, Bonused
<1>3. QED  BY <1>1, <1>2, FS_Subset

\* Nothing is owed or paid that was not before.
LEMMA BonusKept ==
  ASSUME MarketingInv, NEW u \in Customer, wallets'[u]["bonus"] = wallets[u]["bonus"],
         Referred(u)' = Referred(u), Owed(u)' \subseteq Owed(u), Bonused(u)' \subseteq Bonused(u)
  PROVE  BonusFits(u)'
<1>1. IsFiniteSet(Owed(u)) /\ IsFiniteSet(Bonused(u)) /\ IsFiniteSet(Referred(u))
  BY ReferralsFinite DEF MarketingInv
<1>2. /\ IsFiniteSet(Owed(u)') /\ Cardinality(Owed(u)') <= Cardinality(Owed(u))
      /\ IsFiniteSet(Bonused(u)') /\ Cardinality(Bonused(u)') <= Cardinality(Bonused(u))
  BY <1>1, FS_Subset
<1>3. /\ Cardinality(Owed(u)) \in Nat /\ Cardinality(Owed(u)') \in Nat
      /\ Cardinality(Bonused(u)) \in Nat /\ Cardinality(Bonused(u)') \in Nat
      /\ Cardinality(Referred(u)) \in Nat /\ wallets[u]["bonus"] \in Nat
  BY <1>1, <1>2, FS_CardinalityType DEF MarketingInv, MarketingTypeOK, Reasons
<1>4. BonusFits(u)
  BY DEF MarketingInv
<1>5. QED  BY <1>2, <1>3, <1>4 DEF BonusFits

\* A step that leaves the signups and the bonuses alone and starts no payment.
LEMMA QuietStep ==
  ASSUME MarketingInv, UNCHANGED signups,
         \A u \in Customer : wallets'[u]["bonus"] = wallets[u]["bonus"],
         \A c \in Call : calls'[c] # Idle =>
           calls'[c] = calls[c] \/ calls'[c].do \notin PayStages
  PROVE  IsFiniteSet(Signed)' /\ \A u \in Customer : BonusFits(u)'
<1>1. Signed' = Signed /\ \A u \in Customer : Referred(u)' = Referred(u)
  BY DEF Signed, Referred
<1>2. ASSUME NEW u \in Customer, NEW v, NEW stages \in SUBSET PayStages, AtStage(v, stages)'
      PROVE  AtStage(v, stages)
  BY <1>2 DEF AtStage, PayStages
<1>3. ASSUME NEW u \in Customer
      PROVE  Owed(u)' \subseteq Owed(u) /\ Bonused(u)' \subseteq Bonused(u)
  <2>1. ASSUME NEW v, AtStage(v, {"payReferrer"})' PROVE AtStage(v, {"payReferrer"})
    BY <1>2, <2>1 DEF PayStages
  <2>2. ASSUME NEW v, AtStage(v, {"payReferred", "grant"})'
        PROVE  AtStage(v, {"payReferred", "grant"})
    BY <1>2, <2>2 DEF PayStages
  <2>3. QED  BY <1>1, <2>1, <2>2 DEF Owed, Bonused, Paid
<1>4. QED  BY <1>1, <1>3, BonusKept DEF MarketingInv


LEMMA NextJob ==
  ASSUME NEW job \in MarketingJobs, job.do # "code", NEW next \in PayStages
  PROVE  LET j == [job EXCEPT !.do = next] IN
         /\ j \in MarketingJobs /\ j # Idle
         /\ j.do = next /\ j.on = job.on /\ j.row = job.row /\ j.old = job.old
<1> DEFINE j == [job EXCEPT !.do = next]
<1>1. job \in [do : {"sign", "payReferrer", "payReferred", "grant"},
               on : Customer, row : Customer, old : BOOLEAN]
  OBVIOUS
<1>2. j = [do |-> next, on |-> job.on, row |-> job.row, old |-> job.old]
  BY <1>1
<1>3. QED  BY <1>1, <1>2 DEF PayStages

\* Call c goes from one payment to the next.
PaidNext(c, was, next) ==
  /\ calls[c] # Idle /\ calls[c].do = was /\ calls[c] \in MarketingJobs
  /\ calls'[c] # Idle /\ calls'[c] \in MarketingJobs
  /\ calls'[c].do = next /\ calls'[c].on = calls[c].on /\ calls'[c].row = calls[c].row
  /\ DOMAIN calls' = Call /\ \A d \in Call \ {c} : calls'[d] = calls[d]

LEMMA ReferralJobsStep ==
  ASSUME MarketingInv, [MarketingNext]_<<calls, marketingVars>>
  PROVE  /\ MarketingTypeOK' /\ ReferralJobsInv'
         /\ \A u \in Customer : WelcomeFits(u)'
<1> USE DEF MarketingTypeOK, ReferralJobsInv, ReferralSeen, WelcomeFits, InFlight, Paid,
            MarketingJobs, PayStages, Pays, Does, Reasons
<1> DEFINE Goal == /\ MarketingTypeOK' /\ ReferralJobsInv'
                   /\ \A u \in Customer : WelcomeFits(u)'
<1> SUFFICES Goal
  OBVIOUS
<1>0. /\ MarketingTypeOK /\ ReferralJobsInv
      /\ \A u \in Customer : WelcomeFits(u)
  BY DEF MarketingInv
<1>1. ASSUME NEW c \in Call, NEW u \in Customer, AskCode(c, u) PROVE Goal
  BY <1>0, <1>1 DEF AskCode, Begin, Job, marketingVars
<1>2. ASSUME NEW c \in Call, CreateCode(c) PROVE Goal
  BY <1>0, <1>2 DEF CreateCode, End, Goes
<1>3. ASSUME NEW c \in Call, NEW by \in Customer, NEW u \in Customer, CheckReferral(c, by, u)
      PROVE  Goal
  BY <1>0, <1>3 DEF CheckReferral, MayRefer, Begin, Job, marketingVars
<1>4. ASSUME NEW c \in Call, SignUpReferred(c) PROVE Goal
  <2>1. PICK u \in Customer, by \in Customer : u = calls[c].on /\ by = calls[c].row /\ by # u
    BY <1>0, <1>4 DEF SignUpReferred
  <2>2. /\ signups[u].by = Idle
        /\ signups' = [signups EXCEPT ![u] = [by |-> by, granted |-> FALSE]]
        /\ calls' = [calls EXCEPT ![c] = [calls[c] EXCEPT !.do = "payReferrer"]]
        /\ UNCHANGED <<codes, wallets, dropped>>
    BY <1>4, <2>1 DEF SignUpReferred, StillFree, Goes
  <2>3. /\ calls'[c] # Idle => /\ calls'[c].do = "payReferrer" /\ calls'[c].on = u
                               /\ calls'[c].row = by /\ calls'[c] \in MarketingJobs
        /\ \A d \in Call \ {c} : calls'[d] = calls[d]
    BY <1>0, <1>4, <2>1, <2>2 DEF SignUpReferred
  <2>4. \A d \in Call : ~(Pays(d) /\ calls[d].on = u)
    BY <1>0, <2>1, <2>2
  <2>5. MarketingTypeOK'
    BY <1>0, <2>2
  <2>6. /\ signups'[u] = [by |-> by, granted |-> FALSE] /\ wallets[u]["welcome"] = 0
        /\ \A v \in Customer \ {u} : signups'[v] = signups[v]
    BY <1>0, <2>2
  <2>7. ReferralJobsInv'
    <3>1. ASSUME NEW d \in Call, calls'[d] # Idle PROVE ReferralSeen(d)'
      <4>1. CASE d = c
        BY <2>2, <2>3, <2>6, <3>1, <4>1
      <4>2. CASE d # c
        BY <1>0, <2>2, <2>3, <2>4, <2>6, <3>1, <4>2
      <4>3. QED  BY <4>1, <4>2
    <3>2. QED  BY <1>0, <2>2, <2>3, <2>4, <3>1
  <2>8. ASSUME NEW v \in Customer PROVE WelcomeFits(v)'
    <3>1. CASE v = u
      <4>1. calls'[c] # Idle
        BY <1>0, <1>4, <2>2, NextJob DEF SignUpReferred
      <4>2. QED  BY <2>1, <2>2, <2>3, <2>6, <3>1, <4>1
    <3>2. CASE v # u
      <4>1. InFlight(v) => InFlight(v)'
        BY <1>4, <2>1, <2>3, <3>2 DEF SignUpReferred
      <4>2. QED  BY <1>0, <2>2, <2>6, <3>2, <4>1
    <3>3. QED  BY <3>1, <3>2
  <2>9. QED  BY <2>5, <2>7, <2>8
<1>5. ASSUME NEW c \in Call, RefuseSecondSignup(c) PROVE Goal
  BY <1>0, <1>5 DEF RefuseSecondSignup, End, Goes, marketingVars
<1>6. ASSUME NEW c \in Call, PayReferrer(c) PROVE Goal
  <2>1. PICK u \in Customer, by \in Customer : u = calls[c].on /\ by = calls[c].row
    BY <1>0, <1>6 DEF PayReferrer
  <2>2. /\ wallets' = [wallets EXCEPT ![by]["bonus"] = @ + 1]
        /\ calls' = [calls EXCEPT ![c] = [calls[c] EXCEPT !.do = "payReferred"]]
        /\ UNCHANGED <<codes, signups, dropped>>
    BY <1>6, <2>1 DEF PayReferrer, CreditWallet, Goes
  <2>3. /\ wallets' \in [Customer -> [Reasons -> Nat]]
        /\ \A v \in Customer : wallets'[v]["welcome"] = wallets[v]["welcome"]
    BY <1>0, <2>2
  <2>4. PaidNext(c, "payReferrer", "payReferred")
    BY <1>0, <1>6, <2>2, NextJob DEF PaidNext, PayReferrer
  <2>5. ReferralJobsInv'
    BY <1>0, <2>2, <2>3, <2>4 DEF PaidNext
  <2>6. ASSUME NEW v \in Customer PROVE WelcomeFits(v)'
    <3>1. InFlight(v) => InFlight(v)'
      BY <2>4 DEF PaidNext
    <3>2. QED  BY <1>0, <2>2, <2>3, <3>1
  <2>7. QED  BY <1>0, <2>2, <2>3, <2>5, <2>6
<1>7. ASSUME NEW c \in Call, PayReferred(c) PROVE Goal
  <2>1. PICK u \in Customer : u = calls[c].on
    BY <1>0, <1>7 DEF PayReferred
  <2>2. /\ wallets' = [wallets EXCEPT ![u]["welcome"] = @ + 1]
        /\ calls' = [calls EXCEPT ![c] = [calls[c] EXCEPT !.do = "grant"]]
        /\ UNCHANGED <<codes, signups, dropped>>
    BY <1>7, <2>1 DEF PayReferred, CreditWallet, Goes
  <2>3. wallets[u]["welcome"] = 0 /\ signups[u].by # Idle
    BY <1>0, <1>7, <2>1 DEF PayReferred
  <2>4. /\ wallets' \in [Customer -> [Reasons -> Nat]] /\ wallets'[u]["welcome"] = 1
        /\ \A v \in Customer \ {u} : wallets'[v]["welcome"] = wallets[v]["welcome"]
    BY <1>0, <2>2, <2>3
  <2>5. PaidNext(c, "payReferred", "grant")
    BY <1>0, <1>7, <2>2, NextJob DEF PaidNext, PayReferred
  <2>6. ReferralJobsInv'
    BY <1>0, <2>1, <2>2, <2>4, <2>5 DEF PaidNext
  <2>7. ASSUME NEW v \in Customer PROVE WelcomeFits(v)'
    <3>1. InFlight(v) => InFlight(v)'
      BY <2>5 DEF PaidNext
    <3>2. QED  BY <1>0, <2>2, <2>3, <2>4, <3>1
  <2>8. QED  BY <1>0, <2>2, <2>4, <2>6, <2>7
<1>8. ASSUME NEW c \in Call, GrantReward(c) PROVE Goal
  <2>1. PICK u \in Customer : u = calls[c].on
    BY <1>0, <1>8 DEF GrantReward
  <2>2. /\ signups' = [signups EXCEPT ![u].granted = TRUE]
        /\ calls' = [calls EXCEPT ![c] = Idle]
        /\ UNCHANGED <<codes, wallets, dropped>>
    BY <1>8, <2>1 DEF GrantReward, End, Goes
  <2>3. wallets[u]["welcome"] = 1 /\ Pays(c)
    BY <1>0, <1>8, <2>1 DEF GrantReward
  <2>4. /\ signups'[u].by = signups[u].by /\ signups'[u].granted = TRUE
        /\ signups' \in [Customer -> [by : Customer \cup {Idle}, granted : BOOLEAN]]
        /\ \A v \in Customer \ {u} : signups'[v] = signups[v]
    <3>1. /\ signups'[u] = [signups[u] EXCEPT !.granted = TRUE] /\ DOMAIN signups' = Customer
          /\ \A v \in Customer \ {u} : signups'[v] = signups[v]
      BY <1>0, <2>2
    <3>2. signups[u] \in [by : Customer \cup {Idle}, granted : BOOLEAN]
      BY <1>0
    <3>3. signups'[u] = [by |-> signups[u].by, granted |-> TRUE]
      BY <3>1, <3>2
    <3>4. signups' = [v \in Customer |-> signups'[v]]
      BY <1>0, <2>2
    <3>5. \A v \in Customer : signups'[v] \in [by : Customer \cup {Idle}, granted : BOOLEAN]
      <4>1. signups'[u] \in [by : Customer \cup {Idle}, granted : BOOLEAN]
        BY <3>2, <3>3
      <4>2. \A v \in Customer : signups[v] \in [by : Customer \cup {Idle}, granted : BOOLEAN]
        BY <1>0
      <4>3. QED  BY <3>1, <4>1, <4>2, Zenon
    <3>6. signups' \in [Customer -> [by : Customer \cup {Idle}, granted : BOOLEAN]]
      BY <3>4, <3>5, Zenon
    <3>7. QED  BY <3>1, <3>3, <3>6
  <2>5. \A d \in Call : Pays(d) /\ d # c => calls[d].on # u
    BY <1>0, <2>1, <2>3
  <2>6. ReferralJobsInv'
    BY <1>0, <2>2, <2>4, <2>5
  <2>7. ASSUME NEW v \in Customer PROVE WelcomeFits(v)'
    <3>1. CASE v = u
      BY <1>0, <2>2, <2>3, <2>4, <3>1
    <3>2. CASE v # u
      <4>1. InFlight(v) => InFlight(v)'
        BY <1>0, <2>1, <2>2, <3>2
      <4>2. QED  BY <1>0, <2>2, <2>4, <3>2, <4>1
    <3>3. QED  BY <3>1, <3>2
  <2>8. QED  BY <1>0, <2>2, <2>4, <2>6, <2>7
<1>9. ASSUME NEW u \in Customer, CreditOther(u) PROVE Goal
  BY <1>0, <1>9 DEF CreditOther, CreditWallet
<1>10. ASSUME NEW c \in Call, LoseReferral(c) PROVE Goal
  BY <1>0, <1>10 DEF LoseReferral, End, Goes
<1>11. CASE UNCHANGED <<calls, marketingVars>>
  BY <1>0, <1>11 DEF marketingVars
<1>12. QED
  BY <1>1, <1>2, <1>3, <1>4, <1>5, <1>6, <1>7, <1>8, <1>9, <1>10, <1>11 DEF MarketingNext


LEMMA BonusStep ==
  ASSUME MarketingInv, [MarketingNext]_<<calls, marketingVars>>
  PROVE  IsFiniteSet(Signed)' /\ \A u \in Customer : BonusFits(u)'
<1> DEFINE Goal == IsFiniteSet(Signed)' /\ \A u \in Customer : BonusFits(u)'
<1> SUFFICES Goal
  OBVIOUS
<1>0. /\ MarketingTypeOK /\ ReferralJobsInv /\ IsFiniteSet(Signed)
      /\ \A u \in Customer : BonusFits(u)
  BY DEF MarketingInv
<1>1. ASSUME UNCHANGED signups,
             \A u \in Customer : wallets'[u]["bonus"] = wallets[u]["bonus"],
             \A c \in Call : calls'[c] # Idle =>
               calls'[c] = calls[c] \/ calls'[c].do \notin PayStages
      PROVE  Goal
  BY <1>1, QuietStep
<1>2. ASSUME NEW c \in Call, SignUpReferred(c) PROVE Goal
  <2>1. PICK u \in Customer, by \in Customer : u = calls[c].on /\ by = calls[c].row
    BY <1>0, <1>2 DEF SignUpReferred, Does, ReferralJobsInv, ReferralSeen
  <2>2. /\ signups[u].by = Idle
        /\ signups' = [signups EXCEPT ![u] = [by |-> by, granted |-> FALSE]]
        /\ wallets' = wallets
        /\ PaidNext(c, "sign", "payReferrer")
    BY <1>0, <1>2, <2>1, NextJob
    DEF SignUpReferred, StillFree, Goes, Does, PaidNext, ReferralJobsInv, ReferralSeen, PayStages
  <2>3. /\ signups'[u] = [by |-> by, granted |-> FALSE]
        /\ \A v \in Customer \ {u} : signups'[v] = signups[v]
    BY <1>0, <2>2 DEF MarketingTypeOK
  <2>4. \A d \in Call : ~(Pays(d) /\ calls[d].on = u)
    BY <1>0, <2>1, <2>2 DEF ReferralJobsInv, ReferralSeen, Pays, PayStages
  <2>5. Signed' = Signed \cup {u}
    BY <2>2, <2>3 DEF Signed
  <2>6. ASSUME NEW v \in Customer \ {by} PROVE BonusFits(v)'
    <3>1. Referred(v)' = Referred(v)
      BY <2>2, <2>3 DEF Referred
    <3>2. u \notin Referred(v)
      BY <2>2 DEF Referred
    <3>3. ASSUME NEW w \in Customer \ {u}, NEW stages, AtStage(w, stages)' PROVE AtStage(w, stages)
      BY <2>1, <2>2, <3>3 DEF AtStage, PaidNext
    <3>4. Owed(v)' \subseteq Owed(v) /\ Bonused(v)' \subseteq Bonused(v)
      BY <2>3, <3>1, <3>2, <3>3 DEF Owed, Bonused, Paid, Referred
    <3>5. QED  BY <2>2, <3>1, <3>4, BonusKept
  <2>7. BonusFits(by)'
    <3>1. /\ IsFiniteSet(Referred(by)) /\ IsFiniteSet(Owed(by)) /\ IsFiniteSet(Bonused(by))
          /\ u \notin Referred(by)
      BY <1>0, <2>2, ReferralsFinite DEF Referred
    <3>2. Referred(by)' = Referred(by) \cup {u}
      BY <2>2, <2>3 DEF Referred
    <3>3. ASSUME NEW w \in Customer \ {u}, NEW stages, AtStage(w, stages)' PROVE AtStage(w, stages)
      BY <2>1, <2>2, <3>3 DEF AtStage, PaidNext
    <3>4. Owed(by)' \subseteq Owed(by) \cup {u} /\ u \notin Owed(by)
      BY <3>1, <3>2, <3>3 DEF Owed, Referred
    <3>5. ~AtStage(u, {"payReferred", "grant"})'
      <4>1. SUFFICES ASSUME NEW d \in Call, calls'[d] # Idle, calls'[d].on = u,
                            calls'[d].do \in {"payReferred", "grant"}
                     PROVE  FALSE
        BY DEF AtStage
      <4>2. d # c
        BY <2>2, <4>1 DEF PaidNext
      <4>3. QED  BY <2>2, <2>4, <4>1, <4>2 DEF PaidNext, Pays, PayStages
    <3>6. Bonused(by)' \subseteq Bonused(by)
      BY <2>3, <3>2, <3>3, <3>5 DEF Bonused, Paid, Referred
    <3>7. /\ Cardinality(Referred(by)') = Cardinality(Referred(by)) + 1
          /\ IsFiniteSet(Owed(by) \cup {u})
          /\ Cardinality(Owed(by) \cup {u}) = Cardinality(Owed(by)) + 1
      BY <3>1, <3>2, <3>4, FS_AddElement
    <3>8. /\ IsFiniteSet(Owed(by)') /\ Cardinality(Owed(by)') <= Cardinality(Owed(by)) + 1
          /\ IsFiniteSet(Bonused(by)') /\ Cardinality(Bonused(by)') <= Cardinality(Bonused(by))
      BY <3>1, <3>4, <3>6, <3>7, FS_Subset
    <3>9. /\ Cardinality(Owed(by)) \in Nat /\ Cardinality(Owed(by)') \in Nat
          /\ Cardinality(Bonused(by)) \in Nat /\ Cardinality(Bonused(by)') \in Nat
          /\ Cardinality(Referred(by)) \in Nat /\ wallets[by]["bonus"] \in Nat
      BY <1>0, <3>1, <3>8, FS_CardinalityType DEF MarketingTypeOK, Reasons
    <3>10. QED  BY <1>0, <2>2, <3>7, <3>8, <3>9 DEF BonusFits
  <2>8. IsFiniteSet(Signed)'
    BY <1>0, <2>5, FS_AddElement
  <2>9. QED  BY <2>6, <2>7, <2>8
<1>3. ASSUME NEW c \in Call, PayReferrer(c) PROVE Goal
  <2>1. PICK u \in Customer, by \in Customer : u = calls[c].on /\ by = calls[c].row
    BY <1>0, <1>3 DEF PayReferrer, Does, ReferralJobsInv, ReferralSeen
  <2>2. /\ signups' = signups /\ signups[u].by = by /\ signups[u].granted = FALSE
        /\ wallets' = [wallets EXCEPT ![by]["bonus"] = @ + 1]
        /\ PaidNext(c, "payReferrer", "payReferred")
    BY <1>0, <1>3, <2>1, NextJob
    DEF PayReferrer, CreditWallet, Goes, Does, PaidNext, ReferralJobsInv, ReferralSeen, PayStages
  <2>3. /\ wallets'[by]["bonus"] = wallets[by]["bonus"] + 1
        /\ \A v \in Customer \ {by} : wallets'[v] = wallets[v]
    BY <1>0, <2>2 DEF MarketingTypeOK, Reasons
  <2>4. \A d \in Call \ {c} : ~(Pays(d) /\ calls[d].on = u)
    BY <1>0, <2>1, <2>2 DEF ReferralJobsInv, Pays, PayStages, PaidNext
  <2>5. Signed' = Signed /\ \A v \in Customer : Referred(v)' = Referred(v)
    BY <2>2 DEF Signed, Referred
  <2>6. ASSUME NEW w \in Customer \ {u}, NEW stages, AtStage(w, stages)' PROVE AtStage(w, stages)
    BY <2>1, <2>2, <2>6 DEF AtStage, PaidNext
  <2>7. ASSUME NEW v \in Customer \ {by} PROVE BonusFits(v)'
    <3>1. u \notin Referred(v)
      BY <2>2 DEF Referred
    <3>2. Owed(v)' \subseteq Owed(v) /\ Bonused(v)' \subseteq Bonused(v)
      BY <2>2, <2>5, <2>6, <3>1 DEF Owed, Bonused, Paid, Referred
    <3>3. QED  BY <2>3, <2>5, <3>2, BonusKept
  <2>8. BonusFits(by)'
    <3>1. IsFiniteSet(Referred(by)) /\ IsFiniteSet(Owed(by)) /\ IsFiniteSet(Bonused(by))
      BY <1>0, ReferralsFinite
    <3>2. u \in Owed(by)
      BY <2>1, <2>2 DEF Owed, Referred, AtStage, PaidNext
    <3>3. ~AtStage(u, {"payReferrer"})'
      <4>1. SUFFICES ASSUME NEW d \in Call, calls'[d] # Idle, calls'[d].on = u,
                            calls'[d].do = "payReferrer"
                     PROVE  FALSE
        BY DEF AtStage
      <4>2. d # c
        BY <2>2, <4>1 DEF PaidNext
      <4>3. QED  BY <2>2, <2>4, <4>1, <4>2 DEF PaidNext, Pays, PayStages
    <3>4. Owed(by)' \subseteq Owed(by) \ {u}
      BY <2>5, <2>6, <3>3 DEF Owed, Referred
    <3>5. Bonused(by)' \subseteq Bonused(by) \cup {u}
      BY <2>2, <2>5, <2>6 DEF Bonused, Paid, Referred
    <3>6. u \notin Bonused(by)
      <4>1. ~AtStage(u, {"payReferred", "grant"})
        BY <2>1, <2>2, <2>4 DEF AtStage, PaidNext, Pays, PayStages
      <4>2. QED  BY <2>2, <4>1 DEF Bonused, Paid
    <3>7. /\ IsFiniteSet(Owed(by) \ {u})
          /\ Cardinality(Owed(by) \ {u}) = Cardinality(Owed(by)) - 1
          /\ IsFiniteSet(Bonused(by) \cup {u})
          /\ Cardinality(Bonused(by) \cup {u}) = Cardinality(Bonused(by)) + 1
      BY <3>1, <3>2, <3>6, FS_AddElement, FS_RemoveElement
    <3>8. /\ IsFiniteSet(Owed(by)') /\ Cardinality(Owed(by)') <= Cardinality(Owed(by)) - 1
          /\ IsFiniteSet(Bonused(by)')
          /\ Cardinality(Bonused(by)') <= Cardinality(Bonused(by)) + 1
      BY <3>4, <3>5, <3>7, FS_Subset
    <3>9. /\ Cardinality(Owed(by)) \in Nat /\ Cardinality(Owed(by)') \in Nat
          /\ Cardinality(Bonused(by)) \in Nat /\ Cardinality(Bonused(by)') \in Nat
          /\ Cardinality(Referred(by)) \in Nat /\ wallets[by]["bonus"] \in Nat
      BY <1>0, <3>1, <3>8, FS_CardinalityType DEF MarketingTypeOK, Reasons
    <3>10. QED  BY <1>0, <2>3, <2>5, <3>8, <3>9 DEF BonusFits
  <2>9. QED  BY <1>0, <2>5, <2>7, <2>8
<1>4. ASSUME NEW c \in Call, PayReferred(c) PROVE Goal
  <2>1. PICK u \in Customer : u = calls[c].on
    BY <1>0, <1>4 DEF PayReferred, Does, ReferralJobsInv, ReferralSeen
  <2>2. /\ signups' = signups
        /\ wallets' = [wallets EXCEPT ![u]["welcome"] = @ + 1]
        /\ PaidNext(c, "payReferred", "grant")
    BY <1>0, <1>4, <2>1, NextJob
    DEF PayReferred, CreditWallet, Goes, Does, PaidNext, ReferralJobsInv, ReferralSeen, PayStages
  <2>3. \A v \in Customer : wallets'[v]["bonus"] = wallets[v]["bonus"]
    BY <1>0, <2>2 DEF MarketingTypeOK, Reasons
  <2>4. Signed' = Signed /\ \A v \in Customer : Referred(v)' = Referred(v)
    BY <2>2 DEF Signed, Referred
  <2>5. ASSUME NEW w PROVE /\ AtStage(w, {"payReferrer"})' => AtStage(w, {"payReferrer"})
                           /\ AtStage(w, {"payReferred", "grant"})' =>
                                AtStage(w, {"payReferred", "grant"})
    BY <2>2 DEF AtStage, PaidNext
  <2>6. ASSUME NEW v \in Customer PROVE BonusFits(v)'
    <3>1. Owed(v)' \subseteq Owed(v) /\ Bonused(v)' \subseteq Bonused(v)
      BY <2>2, <2>4, <2>5 DEF Owed, Bonused, Paid
    <3>2. QED  BY <2>3, <2>4, <3>1, BonusKept
  <2>7. QED  BY <1>0, <2>4, <2>6
<1>5. ASSUME NEW c \in Call, GrantReward(c) PROVE Goal
  <2>1. PICK u \in Customer : u = calls[c].on
    BY <1>0, <1>5 DEF GrantReward, Does, ReferralJobsInv, ReferralSeen
  <2>2. /\ signups' = [signups EXCEPT ![u].granted = TRUE] /\ wallets' = wallets
        /\ calls' = [calls EXCEPT ![c] = Idle]
        /\ AtStage(u, {"payReferred", "grant"})
    BY <1>5, <2>1 DEF GrantReward, Does, AtStage, End, Goes
  <2>3. \A v \in Customer : /\ signups'[v].by = signups[v].by
                            /\ v # u => signups'[v] = signups[v]
    BY <1>0, <2>2 DEF MarketingTypeOK
  <2>4. Signed' = Signed /\ \A v \in Customer : Referred(v)' = Referred(v)
    BY <2>3 DEF Signed, Referred
  <2>5. ASSUME NEW w, NEW stages, AtStage(w, stages)' PROVE AtStage(w, stages)
    BY <1>0, <2>2, <2>5 DEF AtStage, ReferralJobsInv
  <2>6. ASSUME NEW v \in Customer PROVE BonusFits(v)'
    <3>1. Owed(v)' \subseteq Owed(v)
      BY <2>4, <2>5 DEF Owed
    <3>2. Bonused(v)' \subseteq Bonused(v)
      BY <2>2, <2>3, <2>4, <2>5 DEF Bonused, Paid, Referred
    <3>3. QED  BY <2>2, <2>4, <3>1, <3>2, BonusKept
  <2>7. QED  BY <1>0, <2>4, <2>6
<1>6. ASSUME NEW u \in Customer, CreditOther(u) PROVE Goal
  <2>1. \A v \in Customer : wallets'[v]["bonus"] = wallets[v]["bonus"]
    BY <1>0, <1>6 DEF CreditOther, CreditWallet, MarketingTypeOK, Reasons
  <2>2. QED  BY <1>1, <1>6, <2>1 DEF CreditOther
<1>7. ASSUME NEW c \in Call, LoseReferral(c) \/ CreateCode(c) \/ RefuseSecondSignup(c)
      PROVE  Goal
  BY <1>0, <1>1, <1>7
  DEF LoseReferral, CreateCode, RefuseSecondSignup, End, Goes, marketingVars, ReferralJobsInv
<1>8. ASSUME NEW c \in Call, NEW by \in Customer, NEW u \in Customer,
             AskCode(c, u) \/ CheckReferral(c, by, u)
      PROVE  Goal
  BY <1>0, <1>1, <1>8
  DEF AskCode, CheckReferral, Begin, Job, marketingVars, ReferralJobsInv, PayStages
<1>9. CASE UNCHANGED <<calls, marketingVars>>
  BY <1>1, <1>9 DEF marketingVars
<1>10. QED
  BY <1>2, <1>3, <1>4, <1>5, <1>6, <1>7, <1>8, <1>9 DEF MarketingNext

\* Though a referral is paid for in five statements with no transaction around
\* them, both sides are rewarded once, and a reward is missing only while its
\* request runs or after it was lost.
THEOREM ReferralsRewardedOnce == MarketingSpec => []RewardedOnce
<1>1. MarketingInit /\ Quiet => MarketingInv
  <2> SUFFICES ASSUME MarketingInit, Quiet PROVE MarketingInv
    OBVIOUS
  <2>1. MarketingTypeOK /\ ReferralJobsInv /\ \A u \in Customer : WelcomeFits(u)
    BY DEF MarketingInit, Quiet, NotReferred, MarketingTypeOK, Reasons, ReferralJobsInv, Pays,
           WelcomeFits, Paid
  <2>2. Signed = {} /\ \A u \in Customer : Referred(u) = {}
    BY DEF MarketingInit, NotReferred, Signed, Referred
  <2>3. ASSUME NEW u \in Customer PROVE BonusFits(u)
    <3>1. Referred(u) = {} /\ Owed(u) = {} /\ Bonused(u) = {} /\ wallets[u]["bonus"] = 0
      BY <2>2 DEF Owed, Bonused, MarketingInit, Reasons
    <3>2. QED  BY <3>1, FS_EmptySet DEF BonusFits
  <2>4. QED  BY <2>1, <2>2, <2>3, FS_EmptySet DEF MarketingInv
<1>2. MarketingInv /\ [MarketingNext]_<<calls, marketingVars>> => MarketingInv'
  BY ReferralJobsStep, BonusStep DEF MarketingInv
<1>3. MarketingInv => RewardedOnce
  <2> SUFFICES ASSUME MarketingInv, NEW u \in Customer
               PROVE  /\ WelcomeFits(u)
                      /\ wallets[u]["bonus"] <= Cardinality(Referred(u))
                      /\ Cardinality({v \in Referred(u) : Paid(v)}) <= wallets[u]["bonus"]
    BY DEF RewardedOnce, WelcomeFits
  <2>1. /\ IsFiniteSet(Referred(u)) /\ IsFiniteSet(Owed(u)) /\ IsFiniteSet(Bonused(u))
        /\ BonusFits(u) /\ WelcomeFits(u) /\ wallets[u]["bonus"] \in Nat
    BY ReferralsFinite DEF MarketingInv, MarketingTypeOK, Reasons
  <2>2. {v \in Referred(u) : Paid(v)} \subseteq Bonused(u)
    BY DEF Bonused
  <2>3. /\ IsFiniteSet({v \in Referred(u) : Paid(v)})
        /\ Cardinality({v \in Referred(u) : Paid(v)}) <= Cardinality(Bonused(u))
    BY <2>1, <2>2, FS_Subset
  <2>4. /\ Cardinality(Referred(u)) \in Nat /\ Cardinality(Owed(u)) \in Nat
        /\ Cardinality(Bonused(u)) \in Nat /\ Cardinality({v \in Referred(u) : Paid(v)}) \in Nat
    BY <2>1, <2>3, FS_CardinalityType
  <2>5. QED  BY <2>1, <2>3, <2>4 DEF BonusFits
<1>4. QED  BY <1>1, <1>2, <1>3, PTL DEF MarketingSpec


-----------------------------------------------------------------------------
(* Reviews: what a product's page shows of a review is so *)

\* What a request holds of a review: a new one has no reply; one that nobody
\* saved since it was loaded is the row; and a mark on it was earned.
ReviewSeen(c) ==
  LET job == calls[c] IN
  /\ job \in ReviewJobs
  /\ job.do = "review" => job.row.reply = 0 /\ (job.row.verified => job.row.of \in ever)
  /\ job.do = "edit" =>
       /\ reviews[job.on] # Unused
       /\ ~job.old => reviews[job.on] = job.row
       /\ job.row.verified => job.row.of \in ever \/ job.on \in moved

ReviewTrue(i) ==
  /\ There(i) => reviews[i].reply = replied[i] \/ i \in overwrote
  /\ There(i) /\ reviews[i].verified => reviews[i].of \in ever \/ i \in moved
  /\ reviews[i] = Unused => replied[i] = 0

ReviewsInv ==
  /\ ReviewsTypeOK /\ DOMAIN calls = Call
  /\ \A c \in Call : calls[c] # Idle => ReviewSeen(c)
  /\ \A i \in ReviewId : ReviewTrue(i)
  /\ \A i, j \in ReviewId : There(i) /\ There(j) /\ reviews[i].of = reviews[j].of => i = j

LEMMA ReviewStates ==
  /\ Unused.state = "unused" /\ Deleted.state = "deleted" /\ Unused # Deleted
  /\ \A row \in Review :
       /\ row.state = "there" /\ row.of \in Goods /\ row.reply \in 0..MaxReplies
       /\ row.verified \in BOOLEAN /\ row # Unused /\ row # Deleted
  /\ \A row \in Review \cup {Unused, Deleted} : row.state = "there" <=> row \in Review
  /\ \A row \in Review, p \in Goods :
       LET new == [row EXCEPT !.of = p] IN
       new \in Review /\ new.of = p /\ new.verified = row.verified /\ new.reply = row.reply
  /\ \A row \in Review, n \in 0..MaxReplies :
       LET new == [row EXCEPT !.reply = n] IN
       new \in Review /\ new.of = row.of /\ new.verified = row.verified /\ new.reply = n
<1>1. Unused.state = "unused" /\ Deleted.state = "deleted" /\ Unused # Deleted
  BY DEF Unused, Deleted, Blank
<1>2. \A row \in Review :
        /\ row.state = "there" /\ row.of \in Goods /\ row.reply \in 0..MaxReplies
        /\ row.verified \in BOOLEAN
  BY DEF Review
<1>3. ASSUME NEW row \in Review, NEW p \in Goods
      PROVE  LET new == [row EXCEPT !.of = p] IN
             new \in Review /\ new.of = p /\ new.verified = row.verified /\ new.reply = row.reply
  BY DEF Review
<1>4. ASSUME NEW row \in Review, NEW n \in 0..MaxReplies
      PROVE  LET new == [row EXCEPT !.reply = n] IN
             new \in Review /\ new.of = row.of /\ new.verified = row.verified /\ new.reply = n
  BY DEF Review
<1>5. \A row \in Review : row # Unused /\ row # Deleted
  BY <1>1, <1>2
<1>6. \A row \in Review \cup {Unused, Deleted} : row.state = "there" <=> row \in Review
  BY <1>1, <1>2
<1>7. QED  BY <1>1, <1>2, <1>3, <1>4, <1>5, <1>6

LEMMA OldJob ==
  ASSUME NEW Do, NEW On, NEW Loads, NEW job \in [do : Do, on : On, row : Loads, old : BOOLEAN]
  PROVE  LET j == [job EXCEPT !.old = TRUE] IN
         /\ j \in [do : Do, on : On, row : Loads, old : BOOLEAN]
         /\ j.old /\ j.do = job.do /\ j.on = job.on /\ j.row = job.row
  OBVIOUS

LEMMA OldReview ==
  ASSUME NEW job \in ReviewJobs
  PROVE  LET j == [job EXCEPT !.old = TRUE] IN
         j \in ReviewJobs /\ j.old /\ j.do = job.do /\ j.on = job.on /\ j.row = job.row
  BY OldJob DEF ReviewJobs

LEMMA ReviewsStep ==
  ASSUME ReviewsInv, [ReviewsNext]_<<calls, reviewVars>>
  PROVE  ReviewsInv'
<1> USE ReviewsAssumption, ReviewStates
    DEF ReviewsInv, ReviewSeen, ReviewTrue, ReviewsTypeOK, ReviewJobs, There, Does
<1>1. ASSUME NEW p \in Goods, Ship(p) \/ Return(p) PROVE ReviewsInv'
  BY <1>1 DEF Ship, Return
<1>2. ASSUME NEW c \in Call, NEW p \in Goods, CheckReview(c, p) PROVE ReviewsInv'
  <2>1. PICK row \in Review :
          /\ row.of = p /\ row.reply = 0 /\ row.verified = (p \in bought)
          /\ calls' = [calls EXCEPT ![c] = [do |-> "review", on |-> Idle, row |-> row, old |-> FALSE]]
    <3> DEFINE row == [state |-> "there", of |-> p, verified |-> p \in bought, reply |-> 0]
    <3>1. row \in Review
      BY DEF Review
    <3>2. row.of = p /\ row.reply = 0 /\ row.verified = (p \in bought)
      OBVIOUS
    <3>3. calls' = [calls EXCEPT ![c] = [do |-> "review", on |-> Idle, row |-> row, old |-> FALSE]]
      BY <1>2 DEF CheckReview, Begin, Job, IsVerifiedPurchase
    <3> HIDE DEF row
    <3>4. QED  BY <3>1, <3>2, <3>3
  <2>2. UNCHANGED reviewVars
    BY <1>2 DEF CheckReview
  <2>3. QED  BY <2>1, <2>2 DEF reviewVars
<1>3. ASSUME NEW c \in Call, NEW i \in ReviewId, InsertReview(c, i) PROVE ReviewsInv'
  BY <1>3 DEF InsertReview, Reviewed, End, Goes
<1>4. ASSUME NEW c \in Call, NEW i \in ReviewId, LoadReview(c, i) PROVE ReviewsInv'
  BY <1>4 DEF LoadReview, Begin, Job, reviewVars
<1>5. ASSUME NEW c \in Call, NEW p \in Goods, SaveReview(c, p) PROVE ReviewsInv'
  <2>1. PICK i \in ReviewId, row \in Review : i = calls[c].on /\ row = calls[c].row
    BY <1>5 DEF SaveReview
  <2>2. PICK new \in Review :
          /\ new.of = p /\ new.verified = row.verified /\ new.reply = row.reply
          /\ reviews' = [reviews EXCEPT ![i] = new]
    <3>1. reviews' = [reviews EXCEPT ![i] = [row EXCEPT !.of = p]]
      BY <1>5, <2>1 DEF SaveReview, Kept
    <3> DEFINE new == [row EXCEPT !.of = p]
    <3>2. new \in Review /\ new.of = p /\ new.verified = row.verified /\ new.reply = row.reply
      OBVIOUS
    <3> HIDE DEF new
    <3>3. QED  BY <3>1, <3>2 DEF new
  <2>3. /\ moved' = (IF p # row.of THEN moved \cup {i} ELSE moved)
        /\ overwrote' = (IF calls[c].old THEN overwrote \cup {i} ELSE overwrote)
        /\ UNCHANGED <<bought, ever, replied>>
        /\ reviews[i] # Unused
        /\ ~calls[c].old => reviews[i] = row
        /\ row.verified => row.of \in ever \/ i \in moved
        /\ \A j \in ReviewId \ {i} : There(j) => reviews[j].of # p
    BY <1>5, <2>1 DEF SaveReview
  <2>4. /\ reviews'[i] = new /\ \A j \in ReviewId \ {i} : reviews'[j] = reviews[j]
        /\ reviews' \in [ReviewId -> Review \cup {Unused, Deleted}]
    BY <2>2
  <2>5. ASSUME NEW d \in Call, calls'[d] # Idle PROVE ReviewSeen(d)'
    <3>1. d # c /\ calls[d] # Idle
      BY <1>5, <2>5 DEF SaveReview, Saved
    <3>2. CASE calls[d].on = i
      <4>1. calls'[d] = [calls[d] EXCEPT !.old = TRUE]
        BY <1>5, <2>1, <3>1, <3>2 DEF SaveReview, Saved
      <4>2. calls'[d] \in ReviewJobs /\ calls'[d].old /\ calls'[d].do = calls[d].do
            /\ calls'[d].on = calls[d].on /\ calls'[d].row = calls[d].row
        BY <3>1, <4>1, OldReview
      <4>3. QED  BY <2>3, <2>4, <3>1, <3>2, <4>2
    <3>3. CASE calls[d].on # i
      <4>1. calls'[d] = calls[d]
        BY <1>5, <2>1, <3>1, <3>3 DEF SaveReview, Saved
      <4>2. QED  BY <2>3, <2>4, <3>1, <3>3, <4>1
    <3>4. QED  BY <3>2, <3>3
  <2>6. \A j \in ReviewId : ReviewTrue(j)'
    BY <2>2, <2>3, <2>4
  <2>7. \A j, k \in ReviewId : (There(j) /\ There(k) /\ reviews[j].of = reviews[k].of)' => j = k
    BY <2>2, <2>3, <2>4
  <2>8. DOMAIN calls' = Call
    BY <1>5 DEF SaveReview, Saved
  <2>9. QED  BY <2>3, <2>4, <2>5, <2>6, <2>7, <2>8
<1>6. ASSUME NEW i \in ReviewId, DeleteReview(i) PROVE ReviewsInv'
  <2>1. /\ reviews'[i] = Deleted /\ \A j \in ReviewId \ {i} : reviews'[j] = reviews[j]
        /\ reviews' \in [ReviewId -> Review \cup {Unused, Deleted}]
        /\ reviews[i] # Unused
        /\ UNCHANGED <<bought, ever, replied, moved, overwrote>>
    BY <1>6 DEF DeleteReview
  <2>2. ASSUME NEW d \in Call, calls'[d] # Idle PROVE ReviewSeen(d)'
    <3>1. calls[d] # Idle
      BY <1>6, <2>2 DEF DeleteReview, SavedAtOnce
    <3>2. CASE calls[d].on = i
      <4>1. calls'[d] = [calls[d] EXCEPT !.old = TRUE]
        BY <1>6, <3>1, <3>2 DEF DeleteReview, SavedAtOnce
      <4>2. calls'[d] \in ReviewJobs /\ calls'[d].old /\ calls'[d].do = calls[d].do
            /\ calls'[d].on = calls[d].on /\ calls'[d].row = calls[d].row
        BY <3>1, <4>1, OldReview
      <4>3. QED  BY <2>1, <3>1, <3>2, <4>2
    <3>3. CASE calls[d].on # i
      <4>1. calls'[d] = calls[d]
        BY <1>6, <3>1, <3>3 DEF DeleteReview, SavedAtOnce
      <4>2. QED  BY <2>1, <3>1, <3>3, <4>1
    <3>4. QED  BY <3>2, <3>3
  <2>3. \A j \in ReviewId : ReviewTrue(j)'
    BY <2>1
  <2>4. \A j, k \in ReviewId : (There(j) /\ There(k) /\ reviews[j].of = reviews[k].of)' => j = k
    BY <2>1
  <2>5. DOMAIN calls' = Call
    BY <1>6 DEF DeleteReview, SavedAtOnce
  <2>6. QED  BY <2>1, <2>2, <2>3, <2>4, <2>5
<1>7. ASSUME NEW c \in Call, FailReview(c) PROVE ReviewsInv'
  BY <1>7 DEF FailReview, End, Goes, reviewVars
<1>8. ASSUME NEW i \in ReviewId, AddVendorReply(i) PROVE ReviewsInv'
  <2>1. PICK n \in 0..MaxReplies :
          /\ n = replied[i] + 1 /\ reviews' = [reviews EXCEPT ![i].reply = n]
          /\ replied' = [replied EXCEPT ![i] = n]
    <3>1. replied[i] + 1 \in 0..MaxReplies
      BY <1>8 DEF AddVendorReply
    <3>2. QED  BY <1>8, <3>1 DEF AddVendorReply
  <2>2. PICK row \in Review : row = reviews[i]
    BY <1>8 DEF AddVendorReply
  <2>3. PICK new \in Review :
          /\ new.of = row.of /\ new.verified = row.verified /\ new.reply = n
          /\ reviews'[i] = new
    <3>1. reviews'[i] = [row EXCEPT !.reply = n]
      BY <2>1, <2>2
    <3> DEFINE new == [row EXCEPT !.reply = n]
    <3>2. new \in Review /\ new.of = row.of /\ new.verified = row.verified /\ new.reply = n
      OBVIOUS
    <3> HIDE DEF new
    <3>3. QED  BY <3>1, <3>2 DEF new
  <2>4. /\ \A j \in ReviewId \ {i} : reviews'[j] = reviews[j] /\ replied'[j] = replied[j]
        /\ replied'[i] = n
        /\ reviews' \in [ReviewId -> Review \cup {Unused, Deleted}]
        /\ replied' \in [ReviewId -> 0..MaxReplies]
        /\ overwrote' = overwrote \ {i}
        /\ UNCHANGED <<bought, ever, moved>>
    BY <1>8, <2>1, <2>3 DEF AddVendorReply
  <2>5. ASSUME NEW d \in Call, calls'[d] # Idle PROVE ReviewSeen(d)'
    <3>1. calls[d] # Idle
      BY <1>8, <2>5 DEF AddVendorReply, SavedAtOnce
    <3>2. CASE calls[d].on = i
      <4>1. calls'[d] = [calls[d] EXCEPT !.old = TRUE]
        BY <1>8, <3>1, <3>2 DEF AddVendorReply, SavedAtOnce
      <4>2. calls'[d] \in ReviewJobs /\ calls'[d].old /\ calls'[d].do = calls[d].do
            /\ calls'[d].on = calls[d].on /\ calls'[d].row = calls[d].row
        BY <3>1, <4>1, OldReview
      <4>3. QED  BY <2>3, <2>4, <3>1, <3>2, <4>2
    <3>3. CASE calls[d].on # i
      <4>1. calls'[d] = calls[d]
        BY <1>8, <3>1, <3>3 DEF AddVendorReply, SavedAtOnce
      <4>2. QED  BY <2>4, <3>1, <3>3, <4>1
    <3>4. QED  BY <3>2, <3>3
  <2>6. \A j \in ReviewId : ReviewTrue(j)'
    BY <2>2, <2>3, <2>4
  <2>7. \A j, k \in ReviewId : (There(j) /\ There(k) /\ reviews[j].of = reviews[k].of)' => j = k
    BY <2>2, <2>3, <2>4
  <2>8. DOMAIN calls' = Call
    BY <1>8 DEF AddVendorReply, SavedAtOnce
  <2>9. QED  BY <2>4, <2>5, <2>6, <2>7, <2>8
<1>9. CASE UNCHANGED <<calls, reviewVars>>
  BY <1>9 DEF reviewVars
<1>10. QED
  BY <1>1, <1>2, <1>3, <1>4, <1>5, <1>6, <1>7, <1>8, <1>9 DEF ReviewsNext

\* However writing, changing, deleting and answering overlap, a product has one
\* review of the customer, it shows the last reply unless a change had loaded
\* the row before, and a mark of a verified purchase was earned.
THEOREM ReviewsStayTrue == ReviewsSpec => []ReviewsTrue
<1>1. ReviewsInit /\ Quiet => ReviewsInv
  BY ReviewsAssumption
  DEF ReviewsInit, Quiet, ReviewsInv, ReviewsTypeOK, ReviewTrue, There, Unused, Blank
<1>2. ReviewsInv => ReviewsTrue
  BY DEF ReviewsInv, ReviewTrue, ReviewsTrue
<1>3. QED  BY <1>1, <1>2, ReviewsStep, PTL DEF ReviewsSpec


-----------------------------------------------------------------------------
(* Audit: replaying the log gives the row *)

\* What a save knows of its row as long as nobody else saved it: what it
\* loaded, then what the signal read and the columns it leaves alone. One that
\* is about to log made the row what it is, from what the log tells so far.
AuditSeen(c) ==
  LET job == calls[c]  r == calls[c].on IN
  /\ job \in AuditJobs
  /\ job.do = "look" /\ ~job.old => job.row.memory = records[r]
  /\ job.do = "write" =>
       /\ job.row.memory \in Columns
       /\ ~job.old => /\ job.row.seen = records[r]
                      /\ \A f \in Field \ job.row.fields : job.row.memory[f] = records[r][f]
  /\ job.do = "log" /\ r \notin overlapped =>
       ~job.old /\ job.row.memory = records[r] /\ job.row.seen = replayed[r]

Logs(c, r) == calls[c] # Idle /\ calls[c].do = "log" /\ calls[c].on = r

LogFits(r) ==
  /\ told[r]
  /\ \A c, d \in Call : Logs(c, r) /\ Logs(d, r) => c = d
  /\ (\A c \in Call : ~Logs(c, r)) => replayed[r] = records[r]

AuditInv ==
  /\ AuditTypeOK /\ DOMAIN calls = Call
  /\ \A c \in Call : calls[c] # Idle => AuditSeen(c)
  /\ \A r \in Record \ overlapped : LogFits(r)

AuditRow == [memory : Columns \cup {Gone}, seen : Columns \cup {Gone}, fields : SUBSET Field]

LEMMA AuditValues ==
  /\ \A row \in Columns \cup {Gone} :
       /\ row \in [Field -> -1..MaxValue]
       /\ DOMAIN row = Field
  /\ \A row \in Columns, row2 \in Columns \cup {Gone}, f \in Field :
       row[f] \in 0..MaxValue
  BY AuditAssumption DEF Columns, Gone

\* What a save is about to do next is a job, and so not Idle.
LEMMA AuditJob ==
  ASSUME NEW do \in {"look", "write", "log"}, NEW r \in Record, NEW old \in BOOLEAN,
         NEW memory \in Columns \cup {Gone}, NEW seen \in Columns \cup {Gone},
         NEW fields \in SUBSET Field
  PROVE  LET job == [do |-> do, on |-> r,
                     row |-> [memory |-> memory, seen |-> seen, fields |-> fields],
                     old |-> old] IN
         /\ job \in AuditJobs /\ job # Idle
         /\ job.do = do /\ job.on = r /\ job.old = old
         /\ job.row.memory = memory /\ job.row.seen = seen /\ job.row.fields = fields
<1> DEFINE row == [memory |-> memory, seen |-> seen, fields |-> fields]
           job == [do |-> do, on |-> r, row |-> row, old |-> old]
<1>1. row \in AuditRow /\ row.memory = memory /\ row.seen = seen /\ row.fields = fields
  BY DEF AuditRow
<1>2. job.do = do /\ job.on = r /\ job.old = old /\ job.row = row
  OBVIOUS
<1> HIDE DEF row
<1>3. job \in AuditJobs
  BY <1>1 DEF AuditJobs, AuditRow
<1>4. QED  BY <1>1, <1>2, <1>3, AuditAssumption DEF row

\* What others know of a row they did not save is marked as old.
LEMMA AuditOld ==
  ASSUME NEW job \in AuditJobs
  PROVE  LET j == [job EXCEPT !.old = TRUE] IN
         j \in AuditJobs /\ j # Idle /\ j.old /\ j.do = job.do /\ j.on = job.on /\ j.row = job.row
<1> DEFINE j == [job EXCEPT !.old = TRUE]
<1>1. AuditJobs = [do : {"look", "write", "log"}, on : Record, row : AuditRow, old : BOOLEAN]
  BY DEF AuditJobs, AuditRow
<1>2. j \in AuditJobs /\ j.old /\ j.do = job.do /\ j.on = job.on /\ j.row = job.row
  BY <1>1, OldJob
<1>3. QED  BY <1>2, AuditAssumption

\* A call that saved its row leaves the others with an old one, and the row
\* overlapped if another one is to log it.
LEMMA OthersSaved ==
  ASSUME AuditInv, NEW r \in Record, NEW C \in SUBSET Call,
         \A d \in C :
           calls'[d] = IF calls[d] # Idle /\ calls[d].on = r THEN [calls[d] EXCEPT !.old = TRUE]
                       ELSE calls[d],
         overlapped \subseteq overlapped',
         r \in overlapped' \/ \A d \in C : ~Logs(d, r),
         \A k \in Record \ {r} : records'[k] = records[k],
         UNCHANGED replayed
  PROVE  \A d \in C : /\ calls'[d] # Idle => AuditSeen(d)'
                      /\ \A k \in Record : Logs(d, k)' <=> Logs(d, k)
<1> SUFFICES ASSUME NEW d \in C
             PROVE  /\ calls'[d] # Idle => AuditSeen(d)'
                    /\ \A k \in Record : Logs(d, k)' <=> Logs(d, k)
  OBVIOUS
<1>0. d \in Call /\ (calls[d] # Idle => AuditSeen(d))
  BY DEF AuditInv
<1>1. CASE calls[d] = Idle
  BY <1>1 DEF Logs
<1>2. CASE calls[d] # Idle /\ calls[d].on = r
  <2>1. /\ calls'[d] \in AuditJobs /\ calls'[d] # Idle /\ calls'[d].old
        /\ calls'[d].do = calls[d].do /\ calls'[d].on = calls[d].on /\ calls'[d].row = calls[d].row
    <3>1. calls'[d] = [calls[d] EXCEPT !.old = TRUE] /\ calls[d] \in AuditJobs
      BY <1>0, <1>2 DEF AuditSeen
    <3>2. QED  BY <3>1, AuditOld
  <2>2. calls[d].do = "log" => r \in overlapped'
    BY <1>2 DEF Logs
  <2>3. QED  BY <1>0, <1>2, <2>1, <2>2 DEF AuditSeen, Logs
<1>3. CASE calls[d] # Idle /\ calls[d].on # r
  <2>1. calls'[d] = calls[d] /\ calls[d].on \in Record
    BY <1>0, <1>3 DEF AuditSeen, AuditJobs
  <2>2. QED  BY <1>0, <1>3, <2>1 DEF AuditSeen, Logs
<1>4. QED  BY <1>1, <1>2, <1>3


\* The calls but c, the rows and what is told of them stay as they are.
LEMMA OthersStay ==
  ASSUME AuditInv, NEW c \in Call, NEW next, calls' = [calls EXCEPT ![c] = next],
         UNCHANGED <<records, replayed>>, overlapped \subseteq overlapped'
  PROVE  \A d \in Call \ {c} : /\ calls'[d] # Idle => AuditSeen(d)'
                               /\ \A k \in Record : Logs(d, k)' <=> Logs(d, k)
  BY DEF AuditInv, AuditSeen, Logs

LEMMA LogFitsKept ==
  ASSUME NEW r \in Record, LogFits(r), told'[r] = told[r],
         records'[r] = records[r], replayed'[r] = replayed[r],
         \A d \in Call : Logs(d, r)' <=> Logs(d, r)
  PROVE  LogFits(r)'
  BY DEF LogFits

\* A row that call c alone is now to log, from what the log tells so far.
LEMMA LogFitsOne ==
  ASSUME NEW r \in Record, NEW c \in Call, told'[r],
         Logs(c, r)', \A d \in Call \ {c} : ~Logs(d, r)'
  PROVE  LogFits(r)'
  BY DEF LogFits

LEMMA LoadStep ==
  ASSUME AuditInv, NEW c \in Call, NEW r \in Record, Load(c, r)
  PROVE  AuditInv'
<1>1. PICK job \in AuditJobs :
        /\ calls' = [calls EXCEPT ![c] = job] /\ job.do = "look" /\ job.on = r
        /\ job.row.memory = records[r]
  <2>1. records[r] \in Columns \cup {Gone}
    BY DEF AuditInv, AuditTypeOK
  <2> DEFINE job == [do |-> "look", on |-> r,
                     row |-> [memory |-> records[r], seen |-> records[r], fields |-> {}],
                     old |-> FALSE]
  <2>2. calls' = [calls EXCEPT ![c] = job]
    BY DEF Load, Begin, Job
  <2>3. job \in AuditJobs /\ job.do = "look" /\ job.on = r /\ job.row.memory = records[r]
    BY <2>1, AuditJob
  <2> HIDE DEF job
  <2>4. QED  BY <2>2, <2>3
<1>2. /\ calls[c] = Idle /\ UNCHANGED auditVars
  BY DEF Load, Begin
<1>3. \A d \in Call \ {c} : /\ calls'[d] # Idle => AuditSeen(d)'
                            /\ \A k \in Record : Logs(d, k)' <=> Logs(d, k)
  BY <1>1, <1>2, OthersStay DEF auditVars
<1>4. /\ DOMAIN calls' = Call /\ calls'[c] = job
  BY <1>1 DEF AuditInv
<1>5. AuditSeen(c)' /\ \A k \in Record : ~Logs(c, k)' /\ ~Logs(c, k)
  BY <1>1, <1>2, <1>4 DEF AuditSeen, Logs, auditVars
<1>6. \A k \in Record \ overlapped' : LogFits(k)'
  BY <1>2, <1>3, <1>5, LogFitsKept DEF AuditInv, auditVars
<1>7. AuditTypeOK'
  BY <1>2, <1>3, <1>5 DEF AuditInv, AuditTypeOK, AuditSeen, auditVars
<1>8. QED  BY <1>3, <1>4, <1>5, <1>6, <1>7 DEF AuditInv

LEMMA PreSaveStep ==
  ASSUME AuditInv, NEW c \in Call, PreSave(c)
  PROVE  AuditInv'
<1>1. PICK r \in Record, memory \in Columns, fields \in SUBSET Field, old \in BOOLEAN :
        /\ r = calls[c].on /\ old = (calls[c].old /\ fields # Field)
        /\ \A f \in Field \ fields : memory[f] = calls[c].row.memory[f]
        /\ calls' = [calls EXCEPT ![c] =
             [do |-> "write", on |-> r,
              row |-> [memory |-> memory, seen |-> records[r], fields |-> fields], old |-> old]]
  <2>1. calls[c].on \in Record /\ calls[c].old \in BOOLEAN
    BY DEF PreSave, Does, AuditInv, AuditSeen, AuditJobs
  <2>2. PICK memory \in Columns, fields \in SUBSET Field :
          /\ \A f \in Field \ fields : memory[f] = calls[c].row.memory[f]
          /\ calls' = [calls EXCEPT ![c] =
               [do |-> "write", on |-> calls[c].on,
                row |-> [memory |-> memory, seen |-> records[calls[c].on], fields |-> fields],
                old |-> calls[c].old /\ fields # Field]]
    BY DEF PreSave, Goes, Seen
  <2>3. (calls[c].old /\ fields # Field) \in BOOLEAN
    OBVIOUS
  <2>4. QED  BY <2>1, <2>2, <2>3
<1>2. /\ calls[c] # Idle /\ calls[c].do = "look" /\ UNCHANGED auditVars
      /\ ~calls[c].old => calls[c].row.memory = records[r]
  BY <1>1 DEF PreSave, Does, AuditInv, AuditSeen
<1>3. PICK job \in AuditJobs :
        /\ calls' = [calls EXCEPT ![c] = job] /\ job.do = "write" /\ job.on = r /\ job.old = old
        /\ job.row.memory = memory /\ job.row.seen = records[r] /\ job.row.fields = fields
  <2>1. records[r] \in Columns \cup {Gone}
    BY DEF AuditInv, AuditTypeOK
  <2> DEFINE job == [do |-> "write", on |-> r,
                     row |-> [memory |-> memory, seen |-> records[r], fields |-> fields],
                     old |-> old]
  <2>2. calls' = [calls EXCEPT ![c] = job]
    BY <1>1
  <2>3. /\ job \in AuditJobs /\ job.do = "write" /\ job.on = r /\ job.old = old
        /\ job.row.memory = memory /\ job.row.seen = records[r] /\ job.row.fields = fields
    BY <2>1, AuditJob
  <2> HIDE DEF job
  <2>4. QED  BY <2>2, <2>3
<1>4. \A d \in Call \ {c} : /\ calls'[d] # Idle => AuditSeen(d)'
                            /\ \A k \in Record : Logs(d, k)' <=> Logs(d, k)
  BY <1>2, <1>3, OthersStay DEF auditVars
<1>5. /\ DOMAIN calls' = Call /\ calls'[c] = job
  BY <1>3 DEF AuditInv
<1>6. AuditSeen(c)'
  <2>1. UNCHANGED records /\ calls'[c] = job
    BY <1>2, <1>5 DEF auditVars
  <2>2. ASSUME ~job.old PROVE \A f \in Field \ fields : memory[f] = records[r][f]
    BY <1>1, <1>2, <1>3, <2>2
  <2>3. QED  BY <1>3, <2>1, <2>2 DEF AuditSeen
<1>7. \A k \in Record : ~Logs(c, k)' /\ ~Logs(c, k)
  BY <1>2, <1>3, <1>5 DEF Logs
<1>8. \A k \in Record \ overlapped' : LogFits(k)'
  BY <1>2, <1>4, <1>7, LogFitsKept DEF AuditInv, auditVars
<1>9. AuditTypeOK'
  BY <1>2, <1>4, <1>6 DEF AuditInv, AuditTypeOK, AuditSeen, auditVars
<1>10. QED  BY <1>4, <1>5, <1>6, <1>8, <1>9 DEF AuditInv

\* A row that was written or deleted, and is to be logged by the call that did.
\* It had not met another save, or it counts as overlapped now.
LEMMA ChangedStep ==
  ASSUME AuditInv, NEW c \in Call, NEW r \in Record, NEW job \in AuditJobs,
         calls[c] # Idle, calls[c].do # "log", Saved(c, r, job),
         job # Idle, job.do = "log", job.on = r, job.old = calls[c].old,
         records' \in [Record -> Columns \cup {Gone}],
         \A k \in Record \ {r} : records'[k] = records[k],
         overlapped' = IF Met(c, r) THEN overlapped \cup {r} ELSE overlapped,
         ~calls[c].old => job.row.memory = records'[r] /\ job.row.seen = records[r],
         UNCHANGED <<replayed, told>>
  PROVE  AuditInv'
<1>1. /\ DOMAIN calls' = Call /\ calls'[c] = job
      /\ \A d \in Call \ {c} :
           calls'[d] = IF calls[d] # Idle /\ calls[d].on = r THEN [calls[d] EXCEPT !.old = TRUE]
                       ELSE calls[d]
  BY DEF Saved
<1>2. r \notin overlapped' => ~calls[c].old /\ \A d \in Call : ~Logs(d, r)
  BY DEF Met, Does, Logs
<1>3. \A d \in Call \ {c} : /\ calls'[d] # Idle => AuditSeen(d)'
                            /\ \A k \in Record : Logs(d, k)' <=> Logs(d, k)
  BY <1>1, <1>2, OthersSaved
<1>4. r \notin overlapped' => told[r] /\ replayed[r] = records[r]
  BY <1>2 DEF AuditInv, LogFits
<1>5. AuditSeen(c)'
  BY <1>1, <1>2, <1>4 DEF AuditSeen
<1>6. Logs(c, r)' /\ \A k \in Record \ {r} : ~Logs(c, k)' /\ ~Logs(c, k)
  BY <1>1 DEF Logs
<1>7. ASSUME NEW k \in Record \ overlapped' PROVE LogFits(k)'
  <2>1. CASE k = r
    BY <1>2, <1>3, <1>4, <1>6, <2>1, LogFitsOne
  <2>2. CASE k # r
    BY <1>3, <1>6, <2>2, LogFitsKept DEF AuditInv
  <2>3. QED  BY <2>1, <2>2
<1>8. AuditTypeOK'
  BY <1>3, <1>5, <1>1 DEF AuditInv, AuditTypeOK, AuditSeen
<1>9. QED  BY <1>1, <1>3, <1>5, <1>7, <1>8 DEF AuditInv


LEMMA WriteStep ==
  ASSUME AuditInv, NEW c \in Call, Write(c)
  PROVE  AuditInv'
<1>1. PICK r \in Record, memory \in Columns, seen \in Columns \cup {Gone}, fields \in SUBSET Field,
           old \in BOOLEAN :
        /\ r = calls[c].on /\ old = calls[c].old
        /\ calls[c] = [do |-> "write", on |-> r,
                       row |-> [memory |-> memory, seen |-> seen, fields |-> fields], old |-> old]
  BY DEF Write, Does, AuditInv, AuditSeen, AuditJobs
<1>2. /\ calls[c] # Idle /\ calls[c].do = "write" /\ calls[c].on = r /\ calls[c].old = old
      /\ calls[c].row.memory = memory /\ calls[c].row.seen = seen /\ calls[c].row.fields = fields
  BY <1>1 DEF Write, Does
<1>3. /\ records[r] = Gone => fields = Field
      /\ ~old => seen = records[r] /\ \A f \in Field \ fields : memory[f] = records[r][f]
  BY <1>2 DEF Write, AuditInv, AuditSeen
<1>4. PICK row \in Columns :
        /\ records' = [records EXCEPT ![r] = row]
        /\ ~old => row = memory
  <2> DEFINE row == [f \in Field |-> IF f \in fields THEN memory[f] ELSE records[r][f]]
  <2>1. records' = [records EXCEPT ![r] = row]
    BY <1>2 DEF Write, Written
  <2>2. row \in Columns
    <3>1. memory \in [Field -> 0..MaxValue] /\ (fields # Field => records[r] \in [Field -> 0..MaxValue])
      BY <1>3 DEF AuditInv, AuditTypeOK, Columns
    <3>2. QED  BY <3>1 DEF Columns
  <2>3. ~old => row = memory
    <3>1. memory = [f \in Field |-> memory[f]]
      BY DEF Columns
    <3>2. QED  BY <1>3, <3>1
  <2> HIDE DEF row
  <2>4. QED  BY <2>1, <2>2, <2>3
<1>5. /\ records' \in [Record -> Columns \cup {Gone}] /\ records'[r] = row
      /\ \A k \in Record \ {r} : records'[k] = records[k]
  BY <1>4 DEF AuditInv, AuditTypeOK
<1>6. /\ overlapped' = IF Met(c, r) THEN overlapped \cup {r} ELSE overlapped
      /\ UNCHANGED <<replayed, told>>
  BY <1>2 DEF Write
<1>7. CASE seen = Gone /\ records[r] # Gone
  <2>1. r \in overlapped'
    BY <1>2, <1>3, <1>6, <1>7 DEF Met
  <2>2. Saved(c, r, Idle)
    BY <1>2, <1>7 DEF Write
  <2>3. /\ DOMAIN calls' = Call /\ calls'[c] = Idle
        /\ \A d \in Call \ {c} :
             calls'[d] = IF calls[d] # Idle /\ calls[d].on = r THEN [calls[d] EXCEPT !.old = TRUE]
                         ELSE calls[d]
    BY <2>2 DEF Saved
  <2>4. \A d \in Call \ {c} : /\ calls'[d] # Idle => AuditSeen(d)'
                              /\ \A k \in Record : Logs(d, k)' <=> Logs(d, k)
    BY <1>5, <1>6, <2>1, <2>3, OthersSaved
  <2>5. \A k \in Record : ~Logs(c, k)' /\ ~Logs(c, k)
    BY <1>2, <2>3 DEF Logs
  <2>6. \A k \in Record \ overlapped' : LogFits(k)'
    BY <1>5, <1>6, <2>1, <2>4, <2>5, LogFitsKept DEF AuditInv
  <2>7. AuditTypeOK'
    BY <1>5, <1>6, <2>3, <2>4 DEF AuditInv, AuditTypeOK, AuditSeen
  <2>8. QED  BY <2>3, <2>4, <2>6, <2>7 DEF AuditInv
<1>8. CASE ~(seen = Gone /\ records[r] # Gone)
  <2> DEFINE was == IF records[r] = Gone THEN Gone ELSE seen
             job == [do |-> "log", on |-> r,
                     row |-> [memory |-> memory, seen |-> was, fields |-> fields], old |-> old]
  <2>1. Saved(c, r, job)
    BY <1>2, <1>8 DEF Write
  <2>3. /\ job \in AuditJobs /\ job # Idle /\ job.do = "log" /\ job.on = r /\ job.old = old
        /\ job.row.memory = memory /\ job.row.seen = was
    BY AuditJob
  <2>4. ~old => was = records[r]
    BY <1>3
  <2> HIDE DEF job, was
  <2>5. QED  BY <1>2, <1>4, <1>5, <1>6, <2>1, <2>3, <2>4, ChangedStep
<1>9. QED  BY <1>7, <1>8

LEMMA DeleteStep ==
  ASSUME AuditInv, NEW c \in Call, Delete(c)
  PROVE  AuditInv'
<1>1. PICK r \in Record, memory \in Columns \cup {Gone}, old \in BOOLEAN :
        /\ r = calls[c].on /\ old = calls[c].old /\ memory = calls[c].row.memory
        /\ calls[c] = [do |-> "look", on |-> r, row |-> calls[c].row, old |-> old]
  BY DEF Delete, Does, AuditInv, AuditSeen, AuditJobs
<1>2. /\ calls[c] # Idle /\ calls[c].do = "look"
      /\ ~old => memory = records[r]
      /\ records' = [records EXCEPT ![r] = Gone]
      /\ overlapped' = IF Met(c, r) THEN overlapped \cup {r} ELSE overlapped
      /\ UNCHANGED <<replayed, told>>
  BY <1>1 DEF Delete, Does, AuditInv, AuditSeen
<1>3. /\ records' \in [Record -> Columns \cup {Gone}] /\ records'[r] = Gone
      /\ \A k \in Record \ {r} : records'[k] = records[k]
  BY <1>2 DEF AuditInv, AuditTypeOK
<1> DEFINE job == [do |-> "log", on |-> r,
                   row |-> [memory |-> Gone, seen |-> memory, fields |-> Field], old |-> old]
<1>4. Saved(c, r, job)
  BY <1>1 DEF Delete
<1>5. /\ job \in AuditJobs /\ job # Idle /\ job.do = "log" /\ job.on = r /\ job.old = old
      /\ job.row.memory = Gone /\ job.row.seen = memory
  BY AuditJob
<1>6. calls[c].old = old /\ calls[c].do # "log"
  BY <1>1, <1>2
<1> HIDE DEF job
<1>7. QED  BY <1>2, <1>3, <1>4, <1>5, <1>6, ChangedStep

LEMMA InsertStep ==
  ASSUME AuditInv, NEW c \in Call, NEW r \in Record, Insert(c, r)
  PROVE  AuditInv'
<1>1. PICK row \in Columns, job \in AuditJobs :
        /\ records' = [records EXCEPT ![r] = row] /\ calls' = [calls EXCEPT ![c] = job]
        /\ job # Idle /\ job.do = "log" /\ job.on = r /\ ~job.old
        /\ job.row.memory = row /\ job.row.seen = Gone
  <2>1. PICK row \in Columns, seen \in Columns \cup {Gone}, fields \in SUBSET Field, old \in BOOLEAN :
          /\ seen = Gone /\ fields = Field /\ ~old
          /\ records' = [records EXCEPT ![r] = row]
          /\ calls' = [calls EXCEPT ![c] =
               [do |-> "log", on |-> r, row |-> [memory |-> row, seen |-> seen, fields |-> fields],
                old |-> old]]
    BY DEF Insert, Begin, Job
  <2> DEFINE job == [do |-> "log", on |-> r,
                     row |-> [memory |-> row, seen |-> seen, fields |-> fields], old |-> old]
  <2>2. /\ job \in AuditJobs /\ job # Idle /\ job.do = "log" /\ job.on = r /\ job.old = old
        /\ job.row.memory = row /\ job.row.seen = seen
    BY AuditJob
  <2>3. calls' = [calls EXCEPT ![c] = job]
    BY <2>1
  <2> HIDE DEF job
  <2>4. QED  BY <2>1, <2>2, <2>3
<1>2. /\ replayed[r] = Gone /\ calls[c] = Idle
      /\ \A d \in Call : calls[d] # Idle => calls[d].on # r
      /\ UNCHANGED <<replayed, told, overlapped>>
  BY DEF Insert, Begin
<1>3. /\ records' \in [Record -> Columns \cup {Gone}] /\ records'[r] = row
      /\ \A k \in Record \ {r} : records'[k] = records[k]
      /\ DOMAIN calls' = Call /\ calls'[c] = job
      /\ \A d \in Call \ {c} : calls'[d] = calls[d]
      /\ \A d \in Call : ~Logs(d, r)
  BY <1>1, <1>2 DEF AuditInv, AuditTypeOK, Logs
<1>4. \A d \in Call \ {c} : /\ calls'[d] # Idle => AuditSeen(d)'
                            /\ \A k \in Record : Logs(d, k)' <=> Logs(d, k)
  <2>1. \A d \in Call \ {c} :
          calls'[d] = IF calls[d] # Idle /\ calls[d].on = r THEN [calls[d] EXCEPT !.old = TRUE]
                      ELSE calls[d]
    BY <1>2, <1>3
  <2>2. /\ overlapped \subseteq overlapped' /\ \A d \in Call \ {c} : ~Logs(d, r)
        /\ UNCHANGED replayed /\ \A k \in Record \ {r} : records'[k] = records[k]
    BY <1>2, <1>3
  <2>3. QED  BY <2>1, <2>2, OthersSaved
<1>5. AuditSeen(c)'
  BY <1>1, <1>2, <1>3 DEF AuditSeen
<1>6. Logs(c, r)' /\ \A k \in Record \ {r} : ~Logs(c, k)' /\ ~Logs(c, k)
  BY <1>1, <1>2, <1>3 DEF Logs
<1>7. ASSUME NEW k \in Record \ overlapped' PROVE LogFits(k)'
  <2>1. CASE k = r
    <3>1. told'[r]
      BY <1>2, <2>1 DEF AuditInv, LogFits
    <3>2. QED  BY <1>3, <1>4, <1>6, <2>1, <3>1, LogFitsOne
  <2>2. CASE k # r
    BY <1>2, <1>3, <1>4, <1>6, <2>2, LogFitsKept DEF AuditInv
  <2>3. QED  BY <2>1, <2>2
<1>8. AuditTypeOK'
  BY <1>1, <1>2, <1>3, <1>4, <1>5 DEF AuditInv, AuditTypeOK, AuditSeen
<1>9. QED  BY <1>3, <1>4, <1>5, <1>7, <1>8 DEF AuditInv


LEMMA PostSaveStep ==
  ASSUME AuditInv, NEW c \in Call, PostSave(c)
  PROVE  AuditInv'
<1>1. PICK r \in Record, memory \in Columns \cup {Gone}, seen \in Columns \cup {Gone} :
        r = calls[c].on /\ memory = calls[c].row.memory /\ seen = calls[c].row.seen
  BY DEF PostSave, Does, AuditInv, AuditSeen, AuditJobs
<1>2. /\ Logs(c, r) /\ calls' = [calls EXCEPT ![c] = Idle] /\ UNCHANGED records
      /\ overlapped' = IF calls[c].old THEN overlapped \cup {r} ELSE overlapped
      /\ replayed' = [replayed EXCEPT ![r] =
           [f \in Field |-> IF memory[f] # seen[f] THEN memory[f] ELSE replayed[r][f]]]
      /\ told' = [told EXCEPT ![r] =
           @ /\ \A f \in {k \in Field : memory[k] # seen[k]} : replayed[r][f] = seen[f]]
  BY <1>1 DEF PostSave, Does, Diff, End, Goes, Logs, AuditInv, AuditTypeOK
<1>3. /\ DOMAIN calls' = Call /\ calls'[c] = Idle /\ \A d \in Call \ {c} : calls'[d] = calls[d]
      /\ \A k \in Record \ {r} : replayed'[k] = replayed[k] /\ told'[k] = told[k]
      /\ overlapped \subseteq overlapped' /\ overlapped' \subseteq Record
  BY <1>2 DEF AuditInv, AuditTypeOK
<1>4. \A d \in Call \ {c} : Logs(d, r) => r \in overlapped
  BY <1>2 DEF AuditInv, LogFits
<1>5. ASSUME NEW d \in Call, calls'[d] # Idle PROVE AuditSeen(d)'
  <2>1. d # c /\ calls'[d] = calls[d] /\ calls[d].on \in Record /\ AuditSeen(d)
    BY <1>3, <1>5 DEF AuditInv, AuditSeen, AuditJobs
  <2>2. calls[d].do = "log" /\ calls[d].on \notin overlapped' => calls[d].on # r
    BY <1>3, <1>4, <1>5, <2>1 DEF Logs
  <2>3. QED  BY <1>2, <1>3, <2>1, <2>2 DEF AuditSeen
<1>6. ASSUME r \notin overlapped' PROVE LogFits(r)'
  <2>1. /\ memory = records[r] /\ seen = replayed[r] /\ told[r]
        /\ \A d \in Call : ~Logs(d, r)'
    BY <1>1, <1>2, <1>3, <1>4, <1>6 DEF AuditInv, AuditSeen, LogFits, Logs
  <2>2. replayed'[r] = records'[r]
    <3>1. memory = [f \in Field |-> memory[f]]
      BY DEF Columns, Gone
    <3>2. replayed'[r] = [f \in Field |-> IF memory[f] # seen[f] THEN memory[f] ELSE replayed[r][f]]
      BY <1>2 DEF AuditInv, AuditTypeOK
    <3>3. QED  BY <1>2, <2>1, <3>1, <3>2
  <2>3. told'[r]
    BY <1>2, <2>1 DEF AuditInv, AuditTypeOK
  <2>4. QED  BY <2>1, <2>2, <2>3 DEF LogFits
<1>7. ASSUME NEW k \in Record \ overlapped', k # r PROVE LogFits(k)'
  <2>1. \A d \in Call : Logs(d, k)' <=> Logs(d, k)
    BY <1>2, <1>3, <1>7 DEF Logs
  <2>2. QED  BY <1>2, <1>3, <1>7, <2>1, LogFitsKept DEF AuditInv
<1>8. AuditTypeOK'
  <2>1. replayed' \in [Record -> [Field -> -1..MaxValue]]
    <3>1. [f \in Field |-> IF memory[f] # seen[f] THEN memory[f] ELSE replayed[r][f]]
            \in [Field -> -1..MaxValue]
      BY AuditValues DEF AuditInv, AuditTypeOK
    <3>2. QED  BY <1>2, <3>1 DEF AuditInv, AuditTypeOK
  <2>2. told' \in [Record -> BOOLEAN]
    <3>1. (told[r] /\ \A f \in {k \in Field : memory[k] # seen[k]} : replayed[r][f] = seen[f]) \in BOOLEAN
      BY DEF AuditInv, AuditTypeOK
    <3>2. QED  BY <1>2, <3>1 DEF AuditInv, AuditTypeOK
  <2>3. QED  BY <1>2, <1>3, <1>5, <2>1, <2>2 DEF AuditInv, AuditTypeOK, AuditSeen
<1>9. QED  BY <1>3, <1>5, <1>6, <1>7, <1>8 DEF AuditInv

LEMMA LoseStep ==
  ASSUME AuditInv, NEW c \in Call, LoseSave(c)
  PROVE  AuditInv'
<1>1. /\ calls[c] # Idle /\ calls' = [calls EXCEPT ![c] = Idle]
      /\ UNCHANGED <<records, replayed, told>>
      /\ overlapped \subseteq overlapped' /\ overlapped' \subseteq Record
      /\ \A k \in Record : Logs(c, k) => k \in overlapped'
  BY DEF LoseSave, End, Goes, Logs, Does, AuditInv, AuditTypeOK, AuditSeen, AuditJobs
<1>2. \A d \in Call \ {c} : /\ calls'[d] # Idle => AuditSeen(d)'
                            /\ \A k \in Record : Logs(d, k)' <=> Logs(d, k)
  BY <1>1, OthersStay
<1>3. DOMAIN calls' = Call /\ calls'[c] = Idle /\ \A k \in Record : ~Logs(c, k)'
  BY <1>1 DEF AuditInv, Logs
<1>4. \A k \in Record \ overlapped' : LogFits(k)'
  BY <1>1, <1>2, <1>3, LogFitsKept DEF AuditInv
<1>5. AuditTypeOK'
  BY <1>1, <1>2, <1>3 DEF AuditInv, AuditTypeOK, AuditSeen
<1>6. QED  BY <1>2, <1>3, <1>4, <1>5 DEF AuditInv

LEMMA UpdateStep ==
  ASSUME AuditInv, NEW r \in Record, UpdateInPlace(r)
  PROVE  AuditInv'
<1>1. /\ records' \in [Record -> Columns \cup {Gone}]
      /\ \A k \in Record \ {r} : records'[k] = records[k]
      /\ overlapped' = overlapped \cup {r} /\ UNCHANGED <<replayed, told>>
  BY DEF UpdateInPlace, AuditInv, AuditTypeOK
<1>2. /\ DOMAIN calls' = Call
      /\ \A d \in Call :
           calls'[d] = IF calls[d] # Idle /\ calls[d].on = r THEN [calls[d] EXCEPT !.old = TRUE]
                       ELSE calls[d]
  BY DEF UpdateInPlace, SavedAtOnce
<1>3. \A d \in Call : /\ calls'[d] # Idle => AuditSeen(d)'
                      /\ \A k \in Record : Logs(d, k)' <=> Logs(d, k)
  BY <1>1, <1>2, OthersSaved
<1>4. \A k \in Record \ overlapped' : LogFits(k)'
  BY <1>1, <1>3, LogFitsKept DEF AuditInv
<1>5. AuditTypeOK'
  BY <1>1, <1>3 DEF AuditInv, AuditTypeOK, AuditSeen
<1>6. QED  BY <1>2, <1>3, <1>4, <1>5 DEF AuditInv

\* However saves, deletions and lost processes overlap, replaying the log gives
\* the row, and each entry's old values are what the entries before it gave,
\* for every row whose saves did not meet and whose entries were all written.
THEOREM AuditReplays == AuditSpec => []LogReplays
<1>1. AuditInit /\ Quiet => AuditInv
  <2> SUFFICES ASSUME AuditInit, Quiet PROVE AuditInv
    OBVIOUS
  <2>1. Gone \in [Field -> -1..MaxValue]
    BY AuditAssumption DEF Gone
  <2>2. AuditTypeOK
    BY <2>1 DEF AuditInit, Quiet, AuditTypeOK
  <2>3. QED  BY <2>2 DEF AuditInit, Quiet, AuditInv, LogFits, Logs
<1>2. AuditInv /\ [AuditNext]_<<calls, auditVars>> => AuditInv'
  <2> SUFFICES ASSUME AuditInv, [AuditNext]_<<calls, auditVars>> PROVE AuditInv'
    OBVIOUS
  <2>1. CASE AuditNext
    BY <2>1, LoadStep, PreSaveStep, WriteStep, InsertStep, DeleteStep, PostSaveStep, LoseStep,
       UpdateStep
    DEF AuditNext
  <2>2. CASE UNCHANGED <<calls, auditVars>>
    BY <2>2 DEF AuditInv, AuditTypeOK, AuditSeen, LogFits, Logs, auditVars
  <2>3. QED  BY <2>1, <2>2
<1>3. AuditInv => LogReplays
  BY DEF AuditInv, LogFits, Logs, LogReplays, Does
<1>4. QED  BY <1>1, <1>2, <1>3, PTL DEF AuditSpec


-----------------------------------------------------------------------------
(* Vendors: decisions stand, and a store's owner is a vendor *)

\* Whose store is being opened or changed has the vendor role; what was loaded
\* to be changed is the store's status until somebody decides about it.
StoreSeen(c) ==
  LET job == calls[c] IN
  /\ job.do \in {"open", "resubmit", "saveStore"} => roles[job.on] = "vendor"
  /\ job.do = "saveStore" /\ ~job.old => job.row.status = stores[job.on]

VendorsInv ==
  /\ V!TypeOK /\ StoresStand
  /\ \A c \in Call : calls[c] # Idle => StoreSeen(c)

\* Being overtaken changes nothing else about a job.
LEMMA OldVendorJob ==
  ASSUME NEW job \in V!VendorJobs
  PROVE  LET old == [job EXCEPT !.old = TRUE] IN
         /\ old \in V!VendorJobs /\ old # Idle /\ old.old
         /\ old.do = job.do /\ old.on = job.on /\ old.row = job.row
<1>1. [job EXCEPT !.old = TRUE] \in V!VendorJobs
  BY DEF V!VendorJobs
<1>2. QED  BY <1>1, DeskAssumption DEF V!VendorJobs

LEMMA VendorJob ==
  ASSUME NEW do \in {"open", "openAndPromote", "promote", "resubmit", "saveStore"},
         NEW s \in Seller, NEW status \in V!StoreStatus
  PROVE  LET job == V!Job(do, s, [status |-> status]) IN
         /\ job \in V!VendorJobs /\ job # Idle /\ ~job.old
         /\ job.do = do /\ job.on = s /\ job.row.status = status
<1> DEFINE row == [status |-> status]
           job == [do |-> do, on |-> s, row |-> row, old |-> FALSE]
<1>1. row \in [status : V!StoreStatus] /\ row.status = status
  OBVIOUS
<1>2. job \in V!VendorJobs /\ ~job.old /\ job.do = do /\ job.on = s /\ job.row = row
  <2> HIDE DEF row
  <2>1. QED  BY <1>1 DEF V!VendorJobs
<1>3. job # Idle
  <2> HIDE DEF job
  <2>1. QED  BY <1>2, DeskAssumption
<1>4. V!Job(do, s, [status |-> status]) = job
  BY DEF V!Job
<1>5. QED  BY <1>1, <1>2, <1>3, <1>4

\* Another request is as it was, or has been overtaken.
Overtaken(d, s) ==
  calls'[d] = IF calls[d] # Idle /\ calls[d].on = s THEN [calls[d] EXCEPT !.old = TRUE] ELSE calls[d]

LEMMA OvertakenStore ==
  ASSUME V!TypeOK, NEW d \in Call, NEW s, Overtaken(d, s)
  PROVE  /\ calls'[d] \in V!VendorJobs \cup {Idle}
         /\ calls'[d] # Idle <=> calls[d] # Idle
         /\ calls[d] # Idle =>
              /\ calls'[d].do = calls[d].do /\ calls'[d].on = calls[d].on
              /\ calls'[d].row = calls[d].row
              /\ IF calls[d].on = s THEN calls'[d].old ELSE calls'[d] = calls[d]
<1>1. calls[d] \in V!VendorJobs \cup {Idle}
  BY DEF V!TypeOK
<1>2. CASE calls[d] # Idle /\ calls[d].on = s
  <2>1. calls'[d] = [calls[d] EXCEPT !.old = TRUE]
    BY <1>2 DEF Overtaken
  <2>2. QED  BY <1>1, <1>2, <2>1, OldVendorJob
<1>3. CASE ~(calls[d] # Idle /\ calls[d].on = s)
  <2>1. calls'[d] = calls[d]
    BY <1>3 DEF Overtaken
  <2>2. QED  BY <1>1, <1>3, <2>1
<1>4. QED  BY <1>2, <1>3

\* What is to be shown of a step about store s by call c, or by staff.
LEMMA StoreStep ==
  ASSUME VendorsInv, NEW s \in Seller, NEW C \in SUBSET Call, calls' = [d \in Call |-> calls'[d]],
         \A d \in Call \ C : Overtaken(d, s),
         \A c \in C : calls'[c] \in V!VendorJobs \cup {Idle} /\ (calls'[c] # Idle => StoreSeen(c)'),
         \A c \in C : ~V!Does(c, "promote"),
         roles' \in [Seller -> V!Role], stores' \in [Seller -> V!StoreStatus],
         decided' \in [Seller -> V!StoreStatus], crossed' \subseteq Seller,
         \A t \in Seller : roles[t] = "vendor" => roles'[t] = "vendor",
         \A t \in Seller \ {s} : stores'[t] = stores[t] /\ decided'[t] = decided[t]
                                 /\ (t \in crossed => t \in crossed'),
         stores'[s] = decided'[s] \/ s \in crossed',
         stores'[s] # "none" /\ roles'[s] # "vendor" =>
           s \in broken \/ \E c \in Call : V!Does(c, "promote")' /\ calls'[c].on = s,
         broken' = broken
  PROVE  VendorsInv'
<1>1. V!TypeOK /\ \A d \in Call : calls[d] # Idle => StoreSeen(d)
  BY DEF VendorsInv
<1>2. \A d \in Call \ C :
        /\ calls'[d] \in V!VendorJobs \cup {Idle}
        /\ calls'[d] # Idle <=> calls[d] # Idle
        /\ calls[d] # Idle =>
              /\ calls'[d].do = calls[d].do /\ calls'[d].on = calls[d].on
              /\ calls'[d].row = calls[d].row
              /\ IF calls[d].on = s THEN calls'[d].old ELSE calls'[d] = calls[d]
  BY <1>1, OvertakenStore
<1>3. \A d \in Call : calls'[d] \in V!VendorJobs \cup {Idle}
  BY <1>2
<1>4. V!TypeOK'
  <2>1. calls' \in [Call -> V!VendorJobs \cup {Idle}]
    BY <1>3
  <2>2. broken' \subseteq Seller
    BY <1>1 DEF V!TypeOK
  <2>3. QED  BY <2>1, <2>2 DEF V!TypeOK
<1>5. ASSUME NEW d \in Call, calls'[d] # Idle PROVE StoreSeen(d)'
  <2>1. CASE d \in C
    BY <1>5, <2>1
  <2>2. CASE d \notin C
    <3>1. calls[d] # Idle /\ calls[d] \in V!VendorJobs /\ StoreSeen(d)
      BY <1>1, <1>2, <1>5, <2>2 DEF V!TypeOK
    <3>2. calls[d].on \in Seller
      BY <3>1 DEF V!VendorJobs
    <3>3. QED  BY <1>2, <2>2, <3>1, <3>2 DEF StoreSeen
  <2>3. QED  BY <2>1, <2>2
<1>6. V!DecisionsStand'
  BY DEF V!DecisionsStand, VendorsInv, StoresStand
<1>7. V!StoreHasVendor'
  <2> SUFFICES ASSUME NEW t \in Seller, stores'[t] # "none", roles'[t] # "vendor"
               PROVE  t \in broken \/ \E c \in Call : V!Does(c, "promote")' /\ calls'[c].on = t
    BY DEF V!StoreHasVendor
  <2>1. CASE t # s /\ t \notin broken
    <3>1. PICK c \in Call : V!Does(c, "promote") /\ calls[c].on = t
      BY <2>1 DEF VendorsInv, StoresStand, V!StoreHasVendor
    <3>2. c \notin C
      BY <3>1
    <3>3. QED  BY <1>2, <3>1, <3>2 DEF V!Does
  <2>2. QED  BY <2>1
<1>8. QED  BY <1>4, <1>5, <1>6, <1>7 DEF VendorsInv, StoresStand

\* A step that saves no store: one call begins, goes on or ends.
LEMMA CallStep ==
  ASSUME VendorsInv, NEW c \in Call, NEW job \in V!VendorJobs \cup {Idle},
         calls' = [calls EXCEPT ![c] = job], UNCHANGED <<stores, decided, crossed>>,
         roles' \in [Seller -> V!Role], \A t \in Seller : roles[t] = "vendor" => roles'[t] = "vendor",
         calls'[c] # Idle => StoreSeen(c)',
         broken \subseteq broken', broken' \subseteq Seller,
         V!Does(c, "promote") =>
           roles'[calls[c].on] = "vendor" \/ calls[c].on \in broken'
  PROVE  VendorsInv'
<1>1. V!TypeOK'
  BY DEF VendorsInv, V!TypeOK
<1>2. ASSUME NEW d \in Call, calls'[d] # Idle PROVE StoreSeen(d)'
  <2>1. CASE d = c
    BY <1>2, <2>1
  <2>2. CASE d # c
    <3>1. calls'[d] = calls[d] /\ calls[d] \in V!VendorJobs /\ StoreSeen(d)
      BY <1>2, <2>2 DEF VendorsInv, V!TypeOK
    <3>2. calls[d].on \in Seller
      BY <3>1 DEF V!VendorJobs
    <3>3. QED  BY <3>1, <3>2 DEF StoreSeen
  <2>3. QED  BY <2>1, <2>2
<1>3. V!DecisionsStand'
  BY DEF V!DecisionsStand, VendorsInv, StoresStand
<1>4. V!StoreHasVendor'
  <2> SUFFICES ASSUME NEW t \in Seller, stores[t] # "none", roles'[t] # "vendor", t \notin broken'
               PROVE  \E d \in Call : V!Does(d, "promote")' /\ calls'[d].on = t
    BY DEF V!StoreHasVendor
  <2>1. PICK d \in Call : V!Does(d, "promote") /\ calls[d].on = t
    BY DEF VendorsInv, StoresStand, V!StoreHasVendor
  <2>2. d # c
    BY <2>1
  <2>3. calls'[d] = calls[d]
    BY <2>2 DEF VendorsInv, V!TypeOK
  <2>4. QED  BY <2>1, <2>3 DEF V!Does
<1>5. QED  BY <1>1, <1>2, <1>3, <1>4 DEF VendorsInv, StoresStand

LEMMA VendorsStep ==
  ASSUME VendorsInv, [V!Next]_<<calls, vendorVars>>
  PROVE  VendorsInv'
<1>0. V!TypeOK /\ StoresStand /\ \A c \in Call : calls[c] # Idle => StoreSeen(c)
  BY DEF VendorsInv
<1>1. ASSUME NEW s \in Seller, V!SignUp(s) PROVE VendorsInv'
  <2>1. /\ roles' \in [Seller -> V!Role]
        /\ \A t \in Seller : roles[t] = "vendor" <=> roles'[t] = "vendor"
        /\ UNCHANGED <<stores, calls, decided, crossed, broken>>
    BY <1>0, <1>1 DEF V!SignUp, V!TypeOK, V!Role
  <2>2. V!TypeOK'
    BY <1>0, <2>1 DEF V!TypeOK
  <2>3. ASSUME NEW c \in Call, calls'[c] # Idle PROVE StoreSeen(c)'
    <3>1. calls[c].on \in Seller /\ StoreSeen(c)
      BY <1>0, <2>1, <2>3 DEF V!TypeOK, V!VendorJobs
    <3>2. QED  BY <2>1, <3>1 DEF StoreSeen
  <2>4. StoresStand'
    BY <1>0, <2>1 DEF StoresStand, V!DecisionsStand, V!StoreHasVendor, V!Does
  <2>5. QED  BY <2>2, <2>3, <2>4 DEF VendorsInv
<1>2. ASSUME NEW c \in Call, NEW s \in Seller, V!RegisterVendor(c, s) PROVE VendorsInv'
  <2> DEFINE job == V!Job("open", s, [status |-> "none"])
  <2>1. /\ calls[c] = Idle /\ calls' = [calls EXCEPT ![c] = job]
        /\ roles' = [roles EXCEPT ![s] = "vendor"]
        /\ UNCHANGED <<stores, decided, crossed, broken>>
    BY <1>2 DEF V!RegisterVendor, V!Begin
  <2>2. job \in V!VendorJobs /\ job.do = "open" /\ job.on = s
    BY VendorJob DEF V!StoreStatus
  <2> HIDE DEF job
  <2>3. calls'[c] = job /\ roles' \in [Seller -> V!Role] /\ roles'[s] = "vendor" /\ broken \subseteq Seller
    BY <1>0, <2>1 DEF V!TypeOK, V!Role
  <2>4. StoreSeen(c)'
    BY <2>2, <2>3 DEF StoreSeen
  <2>5. \A t \in Seller : roles[t] = "vendor" => roles'[t] = "vendor"
    BY <1>0, <2>1 DEF V!TypeOK
  <2>6. ~V!Does(c, "promote")
    BY <2>1 DEF V!Does
  <2>7. QED  BY <2>1, <2>2, <2>3, <2>4, <2>5, <2>6, CallStep
<1>3. ASSUME NEW c \in Call, NEW s \in Seller,
             V!ApplyAsSeller(c, s) \/ V!LoadToResubmit(c, s) \/ V!LoadToEditStore(c, s)
      PROVE  VendorsInv'
  <2> DEFINE Starts(job) ==
        /\ calls[c] = Idle /\ calls' = [calls EXCEPT ![c] = job]
        /\ UNCHANGED <<roles, stores, decided, crossed, broken>>
        /\ job.do \in {"open", "resubmit", "saveStore"} => roles[job.on] = "vendor"
        /\ job.do = "saveStore" => job.row.status = stores[job.on]
  <2>1. V!ApplyAsSeller(c, s) => \E job \in V!VendorJobs : Starts(job)
    <3> SUFFICES ASSUME V!ApplyAsSeller(c, s) PROVE \E job \in V!VendorJobs : Starts(job)
      OBVIOUS
    <3>1. PICK job : job = V!Job("openAndPromote", s, [status |-> "none"])
      OBVIOUS
    <3>2. job \in V!VendorJobs /\ job.do = "openAndPromote"
      BY <3>1, VendorJob DEF V!StoreStatus
    <3>3. /\ calls[c] = Idle /\ calls' = [calls EXCEPT ![c] = job]
          /\ UNCHANGED <<roles, stores, decided, crossed, broken>>
      BY <3>1 DEF V!ApplyAsSeller, V!Begin
    <3>4. QED  BY <3>2, <3>3
  <2>2. V!LoadToResubmit(c, s) => \E job \in V!VendorJobs : Starts(job)
    <3> SUFFICES ASSUME V!LoadToResubmit(c, s) PROVE \E job \in V!VendorJobs : Starts(job)
      OBVIOUS
    <3>1. PICK job : job = V!Job("resubmit", s, [status |-> stores[s]])
      OBVIOUS
    <3>2. job \in V!VendorJobs /\ job.do = "resubmit" /\ job.on = s
      <4>1. stores[s] \in V!StoreStatus
        BY <1>0 DEF V!TypeOK
      <4>2. QED  BY <3>1, <4>1, VendorJob
    <3>3. /\ calls[c] = Idle /\ calls' = [calls EXCEPT ![c] = job] /\ roles[s] = "vendor"
          /\ UNCHANGED <<roles, stores, decided, crossed, broken>>
      BY <3>1 DEF V!LoadToResubmit, V!Begin
    <3>4. QED  BY <3>2, <3>3
  <2>3. V!LoadToEditStore(c, s) => \E job \in V!VendorJobs : Starts(job)
    <3> SUFFICES ASSUME V!LoadToEditStore(c, s) PROVE \E job \in V!VendorJobs : Starts(job)
      OBVIOUS
    <3>1. PICK job : job = V!Job("saveStore", s, [status |-> stores[s]])
      OBVIOUS
    <3>2. job \in V!VendorJobs /\ job.do = "saveStore" /\ job.on = s /\ job.row.status = stores[s]
      <4>1. stores[s] \in V!StoreStatus
        BY <1>0 DEF V!TypeOK
      <4>2. QED  BY <3>1, <4>1, VendorJob
    <3>3. /\ calls[c] = Idle /\ calls' = [calls EXCEPT ![c] = job] /\ roles[s] = "vendor"
          /\ UNCHANGED <<roles, stores, decided, crossed, broken>>
      BY <3>1 DEF V!LoadToEditStore, V!Begin
    <3>4. QED  BY <3>2, <3>3
  <2>4. PICK job \in V!VendorJobs : Starts(job)
    <3> HIDE DEF Starts
    <3>1. QED  BY <1>3, <2>1, <2>2, <2>3
  <2>5. calls'[c] = job
    BY <1>0, <2>4 DEF V!TypeOK
  <2>6. StoreSeen(c)' /\ ~V!Does(c, "promote")
    BY <2>4, <2>5 DEF StoreSeen, V!Does
  <2>7. roles' \in [Seller -> V!Role] /\ broken' \subseteq Seller
    BY <1>0, <2>4 DEF V!TypeOK
  <2>8. QED  BY <2>4, <2>6, <2>7, CallStep
<1>4. ASSUME NEW c \in Call, V!OpenStore(c) PROVE VendorsInv'
  <2> DEFINE job == calls[c]
             s == job.on
             next == IF job.do = "open" THEN Idle ELSE [job EXCEPT !.do = "promote"]
  <2>1. /\ job \in V!VendorJobs /\ job # Idle /\ job.do \in {"open", "openAndPromote"} /\ s \in Seller
        /\ StoreSeen(c)
    BY <1>0, <1>4 DEF V!OpenStore, V!Does, V!TypeOK, V!VendorJobs
  <2>2. /\ stores' = [stores EXCEPT ![s] = "pending"]
        /\ decided' = [decided EXCEPT ![s] = "pending"]
        /\ crossed' = crossed \ {s}
        /\ V!Saved(c, s, next) /\ UNCHANGED <<roles, broken>>
    BY <1>4 DEF V!OpenStore, V!Decide
  <2>3. /\ next \in V!VendorJobs \cup {Idle}
        /\ job.do = "openAndPromote" => next # Idle /\ next.do = "promote" /\ next.on = s
    BY <2>1, DeskAssumption DEF V!VendorJobs
  <2> HIDE DEF next
  <2>4. /\ calls' = [d \in Call |-> calls'[d]] /\ calls'[c] = next
        /\ \A d \in Call \ {c} : Overtaken(d, s)
    BY <2>2 DEF V!Saved, Overtaken
  <2>5. calls'[c] # Idle => StoreSeen(c)' /\ V!Does(c, "promote")'
    BY <2>1, <2>3, <2>4 DEF StoreSeen, V!Does, next
  <2>6. roles[s] # "vendor" => V!Does(c, "promote")' /\ calls'[c].on = s
    BY <2>1, <2>3, <2>4 DEF StoreSeen, V!Does
  <2>7. /\ stores' \in [Seller -> V!StoreStatus] /\ decided' \in [Seller -> V!StoreStatus]
        /\ stores'[s] = decided'[s] /\ crossed' \subseteq Seller
        /\ \A t \in Seller \ {s} : stores'[t] = stores[t] /\ decided'[t] = decided[t]
                                 /\ (t \in crossed => t \in crossed')
    BY <1>0, <2>1, <2>2 DEF V!TypeOK, V!StoreStatus
  <2>8. /\ roles' = roles /\ broken' = broken /\ roles' \in [Seller -> V!Role]
        /\ \A t \in Seller : roles[t] = "vendor" => roles'[t] = "vendor"
    BY <1>0, <2>2 DEF V!TypeOK
  <2> DEFINE C == {c}
  <2>9. C \in SUBSET Call /\ \A d \in Call \ C : Overtaken(d, s)
    BY <2>4
  <2>10. \A d \in C : calls'[d] \in V!VendorJobs \cup {Idle} /\ (calls'[d] # Idle => StoreSeen(d)')
    BY <2>3, <2>4, <2>5
  <2>11. \A d \in C : ~V!Does(d, "promote")
    BY <2>1 DEF V!Does
  <2>12. stores'[s] # "none" /\ roles'[s] # "vendor" =>
           s \in broken \/ \E d \in Call : V!Does(d, "promote")' /\ calls'[d].on = s
    BY <2>6, <2>8
  <2> HIDE DEF C, s, job
  <2>13. QED  BY <2>1, <2>4, <2>7, <2>8, <2>9, <2>10, <2>11, <2>12, StoreStep
<1>5. ASSUME NEW c \in Call, V!RefuseSecondStore(c) \/ V!Promote(c) \/ V!LoseCall(c)
      PROVE  VendorsInv'
  <2>1. calls' = [calls EXCEPT ![c] = Idle] /\ UNCHANGED <<stores, decided, crossed>>
    BY <1>5 DEF V!RefuseSecondStore, V!Promote, V!LoseCall, V!End, V!Goes
  <2>2. calls[c] \in V!VendorJobs /\ calls[c].on \in Seller
    BY <1>0, <1>5 DEF V!RefuseSecondStore, V!Promote, V!LoseCall, V!Does, V!TypeOK, V!VendorJobs
  <2>3. calls'[c] = Idle
    BY <1>0, <2>1 DEF V!TypeOK
  <2>4. /\ roles' \in [Seller -> V!Role]
        /\ \A t \in Seller : roles[t] = "vendor" => roles'[t] = "vendor"
        /\ broken \subseteq broken' /\ broken' \subseteq Seller
        /\ V!Does(c, "promote") => roles'[calls[c].on] = "vendor" \/ calls[c].on \in broken'
    <3>1. CASE V!RefuseSecondStore(c)
      BY <1>0, <2>2, <3>1 DEF V!RefuseSecondStore, V!Does, V!TypeOK
    <3>2. CASE V!Promote(c)
      BY <1>0, <2>2, <3>2 DEF V!Promote, V!TypeOK, V!Role
    <3>3. CASE V!LoseCall(c)
      BY <1>0, <2>2, <3>3 DEF V!LoseCall, V!Does, V!TypeOK
    <3>4. QED  BY <1>5, <3>1, <3>2, <3>3
  <2>5. Idle \in V!VendorJobs \cup {Idle}
    OBVIOUS
  <2>6. QED  BY <2>1, <2>3, <2>4, <2>5, CallStep
<1>6. ASSUME NEW s \in Seller, V!ApproveStore(s) \/ V!RejectStore(s) PROVE VendorsInv'
  <2>1. PICK status \in V!StoreStatus :
          /\ stores' = [stores EXCEPT ![s] = status]
          /\ decided' = [decided EXCEPT ![s] = status]
          /\ crossed' = crossed \ {s}
          /\ stores[s] # "none" /\ V!SavedAtOnce(s) /\ UNCHANGED <<roles, broken>>
    <3>1. V!ApproveStore(s) =>
            /\ V!Decide(s, "approved") /\ stores[s] # "none" /\ V!SavedAtOnce(s)
            /\ UNCHANGED <<roles, broken>>
      BY DEF V!ApproveStore
    <3>2. V!RejectStore(s) =>
            /\ V!Decide(s, "rejected") /\ stores[s] # "none" /\ V!SavedAtOnce(s)
            /\ UNCHANGED <<roles, broken>>
      BY DEF V!RejectStore
    <3>3. "approved" \in V!StoreStatus /\ "rejected" \in V!StoreStatus
      BY DEF V!StoreStatus
    <3>4. QED  BY <1>6, <3>1, <3>2, <3>3 DEF V!Decide
  <2>2. calls' = [d \in Call |-> calls'[d]] /\ \A d \in Call : Overtaken(d, s)
    BY <2>1 DEF V!SavedAtOnce, Overtaken
  <2>3. /\ stores' \in [Seller -> V!StoreStatus] /\ decided' \in [Seller -> V!StoreStatus]
        /\ stores'[s] = decided'[s] /\ crossed' \subseteq Seller
        /\ \A t \in Seller \ {s} : stores'[t] = stores[t] /\ decided'[t] = decided[t]
                                 /\ (t \in crossed => t \in crossed')
    BY <1>0, <2>1 DEF V!TypeOK
  <2>4. roles' \in [Seller -> V!Role] /\ roles' = roles /\ broken' = broken
    BY <1>0, <2>1 DEF V!TypeOK
  <2>5. stores'[s] # "none" /\ roles'[s] # "vendor" =>
          s \in broken \/ \E c \in Call : V!Does(c, "promote")' /\ calls'[c].on = s
    <3> SUFFICES ASSUME roles[s] # "vendor", s \notin broken
                 PROVE  \E c \in Call : V!Does(c, "promote")' /\ calls'[c].on = s
      BY <2>4
    <3>1. PICK c \in Call : V!Does(c, "promote") /\ calls[c].on = s
      BY <1>0, <2>1 DEF StoresStand, V!StoreHasVendor
    <3>2. calls'[c] # Idle /\ calls'[c].do = calls[c].do /\ calls'[c].on = calls[c].on
      BY <1>0, <2>2, <3>1, OvertakenStore DEF V!Does
    <3>3. QED  BY <3>1, <3>2 DEF V!Does
  <2> DEFINE C == {}
  <2>6. C \in SUBSET Call /\ (\A d \in Call \ C : Overtaken(d, s))
    BY <2>2
  <2>7. /\ \A c \in C : calls'[c] \in V!VendorJobs \cup {Idle} /\ (calls'[c] # Idle => StoreSeen(c)')
        /\ \A c \in C : ~V!Does(c, "promote")
    OBVIOUS
  <2> HIDE DEF C
  <2>8. QED  BY <2>2, <2>3, <2>4, <2>5, <2>6, <2>7, StoreStep
<1>7. ASSUME NEW c \in Call, V!ResubmitStore(c) \/ V!SaveStore(c) PROVE VendorsInv'
  <2> DEFINE job == calls[c]
             s == job.on
  <2>1. /\ job \in V!VendorJobs /\ job # Idle /\ job.do \in {"resubmit", "saveStore"}
        /\ s \in Seller /\ job.row.status \in V!StoreStatus /\ job.old \in BOOLEAN
    BY <1>0, <1>7 DEF V!ResubmitStore, V!SaveStore, V!Does, V!TypeOK, V!VendorJobs
  <2>2. roles[s] = "vendor" /\ (job.do = "saveStore" /\ ~job.old => job.row.status = stores[s])
    BY <1>0, <2>1 DEF StoreSeen
  <2>3. V!Saved(c, s, Idle) /\ roles' = roles /\ broken' = broken
    BY <1>7 DEF V!ResubmitStore, V!SaveStore
  <2>4. /\ calls' = [d \in Call |-> calls'[d]] /\ calls'[c] = Idle
        /\ \A d \in Call \ {c} : Overtaken(d, s)
    BY <2>3 DEF V!Saved, Overtaken
  <2>5. /\ stores' \in [Seller -> V!StoreStatus] /\ decided' \in [Seller -> V!StoreStatus]
        /\ stores'[s] = decided'[s] \/ s \in crossed'
        /\ crossed' \subseteq Seller
        /\ \A t \in Seller \ {s} : stores'[t] = stores[t] /\ decided'[t] = decided[t]
                                 /\ (t \in crossed => t \in crossed')
    <3>1. CASE V!ResubmitStore(c)
      BY <1>0, <2>1, <3>1 DEF V!ResubmitStore, V!Decide, V!TypeOK, V!StoreStatus
    <3>2. CASE V!SaveStore(c)
      <4>1. /\ stores' = [stores EXCEPT ![s] = job.row.status] /\ decided' = decided
            /\ crossed' = IF job.old THEN crossed \cup {s} ELSE crossed
            /\ job.do = "saveStore"
        BY <3>2 DEF V!SaveStore, V!WrittenBack, V!Does
      <4>2. stores[s] = decided[s] \/ s \in crossed
        BY <1>0, <2>1 DEF StoresStand, V!DecisionsStand
      <4>3. stores'[s] = decided'[s] \/ s \in crossed'
        <5>1. CASE job.old
          BY <4>1, <5>1
        <5>2. CASE ~job.old
          BY <1>0, <2>1, <2>2, <4>1, <4>2, <5>2 DEF V!TypeOK
        <5>3. QED  BY <5>1, <5>2
      <4>4. QED  BY <1>0, <2>1, <4>1, <4>3 DEF V!TypeOK
    <3>3. QED  BY <1>7, <3>1, <3>2
  <2>6. /\ roles' \in [Seller -> V!Role] /\ roles'[s] = "vendor"
        /\ \A t \in Seller : roles[t] = "vendor" => roles'[t] = "vendor"
    BY <1>0, <2>2, <2>3 DEF V!TypeOK
  <2> DEFINE C == {c}
  <2>7. C \in SUBSET Call /\ \A d \in Call \ C : Overtaken(d, s)
    BY <2>4
  <2>8. \A d \in C : calls'[d] \in V!VendorJobs \cup {Idle} /\ (calls'[d] # Idle => StoreSeen(d)')
    BY <2>4
  <2>9. \A d \in C : ~V!Does(d, "promote")
    BY <2>1 DEF V!Does
  <2>10. stores'[s] # "none" /\ roles'[s] # "vendor" =>
           s \in broken \/ \E d \in Call : V!Does(d, "promote")' /\ calls'[d].on = s
    BY <2>6
  <2> HIDE DEF C, s, job
  <2>11. QED  BY <2>1, <2>3, <2>4, <2>5, <2>6, <2>7, <2>8, <2>9, <2>10, StoreStep
<1>8. CASE UNCHANGED <<calls, vendorVars>>
  BY <1>8 DEF vendorVars, VendorsInv, StoreSeen, StoresStand, V!TypeOK, V!DecisionsStand,
              V!StoreHasVendor, V!Does
<1>9. QED
  BY <1>1, <1>2, <1>3, <1>4, <1>5, <1>6, <1>7, <1>8 DEF V!Next, V!BeginCall, V!Step

\* However an owner's changes and the staff's decisions cross, a store has the
\* status of the last decision, unless the owner was changing it meanwhile; and
\* an account with a store is a vendor's, unless its application was cut off.
THEOREM StoresAreDecided == V!Spec => []StoresStand
<1>1. V!Init => VendorsInv
  <2> SUFFICES ASSUME V!Init PROVE VendorsInv
    OBVIOUS
  <2>1. V!TypeOK
    BY DEF V!Init, V!TypeOK, V!Role, V!StoreStatus
  <2>2. StoresStand
    BY DEF V!Init, StoresStand, V!DecisionsStand, V!StoreHasVendor
  <2>3. QED  BY <2>1, <2>2 DEF VendorsInv, V!Init
<1>2. VendorsInv /\ [V!Next]_V!vars => VendorsInv'
  BY VendorsStep DEF V!vars, vendorVars
<1>3. VendorsInv => StoresStand
  BY DEF VendorsInv
<1>4. QED  BY <1>1, <1>2, <1>3, PTL DEF V!Spec

-----------------------------------------------------------------------------
(* Entries: what is told of a list is so, and its entries are there once *)

\* A request works on an entry of its kind.  A wish that was found has its key
\* still, or is gone with it; an address stays once it is there.
EntrySeen(c) ==
  LET job == calls[c] IN
  /\ job.do \in {"wish", "unwish"} => job.on \in Wish
  /\ job.do \in {"create", "activate", "deactivate"} => job.on \in Address
  /\ job.do = "start" => job.on \in Conversation
  /\ job.do = "unwish" =>
       /\ job.row \in Pk
       /\ rows[job.row] = NoRow \/ rows[job.row].entry = job.on
       /\ ~job.old => rows[job.row] # NoRow
  /\ job.do \in {"activate", "deactivate"} => job.row \in E!RowsOf(job.on)

OneRowEach ==
  \A e \in E!Entry \ raced : \A k \in E!RowsOf(e), l \in E!RowsOf(e) : k = l

ConversationsActive ==
  \A k \in Pk : rows[k] # NoRow /\ rows[k].entry \in Conversation => rows[k].active

ToldRight ==
  \A e \in E!Entry : answers[e] # Idle /\ ~answers[e].old => (answers[e].listed <=> E!Listed(e))

EntriesInv ==
  /\ E!EntriesTypeOK /\ calls \in [Call -> E!EntryJobs \cup {Idle}]
  /\ OneRowEach /\ ConversationsActive /\ ToldRight
  /\ \A c \in Call : calls[c] # Idle => EntrySeen(c)

\* Counting in the instance is counting.
LEMMA SameCount == ASSUME NEW S PROVE E!Cardinality(S) = Cardinality(S)
BY DEF E!Cardinality, Cardinality

LEMMA OldEntryJob ==
  ASSUME NEW job \in E!EntryJobs
  PROVE  LET old == [job EXCEPT !.old = TRUE] IN
         /\ old \in E!EntryJobs /\ old # Idle /\ old.old
         /\ old.do = job.do /\ old.on = job.on /\ old.row = job.row
<1>1. [job EXCEPT !.old = TRUE] \in E!EntryJobs
  BY DEF E!EntryJobs
<1>2. QED  BY <1>1, DeskAssumption DEF E!EntryJobs

LEMMA EntryJob ==
  ASSUME NEW do \in {"wish", "unwish", "create", "activate", "deactivate", "start"},
         NEW e \in E!Entry, NEW k \in Pk \cup {NoRow}
  PROVE  LET job == E!Job(do, e, k) IN
         /\ job \in E!EntryJobs /\ job # Idle /\ ~job.old
         /\ job.do = do /\ job.on = e /\ job.row = k
<1> DEFINE job == [do |-> do, on |-> e, row |-> k, old |-> FALSE]
<1>1. job \in E!EntryJobs /\ ~job.old /\ job.do = do /\ job.on = e /\ job.row = k
  BY DEF E!EntryJobs
<1>2. job # Idle
  <2> HIDE DEF job
  <2>1. QED  BY <1>1, DeskAssumption
<1>3. E!Job(do, e, k) = job
  BY DEF E!Job
<1>4. QED  BY <1>1, <1>2, <1>3

LEMMA OvertakenEntry ==
  ASSUME EntriesInv, NEW d \in Call, NEW e, Overtaken(d, e)
  PROVE  /\ calls'[d] \in E!EntryJobs \cup {Idle}
         /\ calls'[d] # Idle <=> calls[d] # Idle
         /\ calls[d] # Idle =>
              /\ calls'[d].do = calls[d].do /\ calls'[d].on = calls[d].on
              /\ calls'[d].row = calls[d].row
              /\ IF calls[d].on = e THEN calls'[d].old ELSE calls'[d] = calls[d]
<1>1. calls[d] \in E!EntryJobs \cup {Idle}
  BY DEF EntriesInv
<1>2. CASE calls[d] # Idle /\ calls[d].on = e
  <2>1. calls'[d] = [calls[d] EXCEPT !.old = TRUE]
    BY <1>2 DEF Overtaken
  <2>2. QED  BY <1>1, <1>2, <2>1, OldEntryJob
<1>3. CASE ~(calls[d] # Idle /\ calls[d].on = e)
  <2>1. calls'[d] = calls[d]
    BY <1>3 DEF Overtaken
  <2>2. QED  BY <1>1, <1>3, <2>1
<1>4. QED  BY <1>2, <1>3

\* A request writes row k of entry e and answers whether e is listed.
LEMMA EntryWrite ==
  ASSUME EntriesInv, NEW c \in Call, NEW e \in E!Entry, NEW k \in Pk,
         NEW new \in E!EntryRow \cup {NoRow}, NEW listed \in BOOLEAN, NEW old \in BOOLEAN,
         rows' = [rows EXCEPT ![k] = new],
         rows[k] = NoRow \/ rows[k].entry = e,
         new = NoRow \/ new.entry = e,
         new = NoRow => rows[k] = NoRow \/ e \in Wish,
         new = NoRow \/ rows[k] # NoRow \/ \A d \in Call : calls[d] # Idle => calls[d].row # k,
         new # NoRow /\ e \in Conversation => new.active,
         calls' = [d \in Call |-> calls'[d]], calls'[c] = Idle,
         \A d \in Call \ {c} : Overtaken(d, e),
         answers' = [answers EXCEPT ![e] = [listed |-> listed, old |-> old]],
         raced \subseteq raced', raced' \subseteq Conversation,
         listed <=> new # NoRow /\ new.active,
         listed \/ old \/ E!RowsOf(e) \subseteq {k},
         new = NoRow \/ e \in raced' \/ E!RowsOf(e) \subseteq {k}
  PROVE  EntriesInv'
<1>1. /\ E!EntriesTypeOK /\ calls \in [Call -> E!EntryJobs \cup {Idle}]
      /\ OneRowEach /\ ConversationsActive /\ ToldRight
      /\ \A d \in Call : calls[d] # Idle => EntrySeen(d)
  BY DEF EntriesInv
<1>2. /\ rows \in [Pk -> E!EntryRow \cup {NoRow}]
      /\ rows' \in [Pk -> E!EntryRow \cup {NoRow}]
      /\ rows'[k] = new /\ \A l \in Pk \ {k} : rows'[l] = rows[l]
  BY <1>1 DEF E!EntriesTypeOK
<1>3. /\ [listed |-> listed, old |-> old] \in E!Answer
      /\ answers' \in [E!Entry -> E!Answer \cup {Idle}]
      /\ answers'[e] = [listed |-> listed, old |-> old]
      /\ \A t \in E!Entry \ {e} : answers'[t] = answers[t]
  BY <1>1 DEF E!EntriesTypeOK, E!Answer
<1>4. \A t \in E!Entry \ {e} :
        /\ E!RowsOf(t)' = E!RowsOf(t)
        /\ \A l \in E!RowsOf(t) : l # k /\ rows'[l] = rows[l]
  BY <1>2 DEF E!RowsOf
<1>5. E!RowsOf(e)' = IF new = NoRow THEN E!RowsOf(e) \ {k} ELSE E!RowsOf(e) \cup {k}
  BY <1>2 DEF E!RowsOf
<1>6. \A d \in Call \ {c} :
         /\ calls'[d] \in E!EntryJobs \cup {Idle}
         /\ calls'[d] # Idle <=> calls[d] # Idle
         /\ calls[d] # Idle =>
              /\ calls'[d].do = calls[d].do /\ calls'[d].on = calls[d].on
              /\ calls'[d].row = calls[d].row
              /\ IF calls[d].on = e THEN calls'[d].old ELSE calls'[d] = calls[d]
  BY OvertakenEntry
<1>7. calls' \in [Call -> E!EntryJobs \cup {Idle}]
  <2>1. \A d \in Call : calls'[d] \in E!EntryJobs \cup {Idle}
    BY <1>6
  <2>2. QED  BY <2>1
<1>8. E!EntriesTypeOK'
  BY <1>2, <1>3 DEF E!EntriesTypeOK
<1>9. OneRowEach'
  <2> SUFFICES ASSUME NEW t \in E!Entry, t \notin raced', NEW j \in E!RowsOf(t)', NEW l \in E!RowsOf(t)'
               PROVE  j = l
    BY DEF OneRowEach
  <2>1. CASE t = e
    BY <1>1, <1>5, <2>1 DEF OneRowEach
  <2>2. CASE t # e
    <3>1. t \in E!Entry \ raced /\ j \in E!RowsOf(t) /\ l \in E!RowsOf(t)
      BY <1>4, <2>2
    <3>2. QED  BY <1>1, <3>1 DEF OneRowEach
  <2>3. QED  BY <2>1, <2>2
<1>10. ConversationsActive'
  BY <1>1, <1>2 DEF ConversationsActive
<1>11. ToldRight'
  <2> SUFFICES ASSUME NEW t \in E!Entry, answers'[t] # Idle, ~answers'[t].old
               PROVE  answers'[t].listed <=> E!Listed(t)'
    BY DEF ToldRight
  <2>1. CASE t = e
    <3>1. answers'[t].listed = listed /\ answers'[t].old = old
      BY <1>3, <2>1
    <3>2. CASE listed
      <4>1. k \in E!RowsOf(e)' /\ rows'[k].active
        BY <1>2, <1>5, <3>2
      <4>2. QED  BY <2>1, <3>1, <3>2, <4>1 DEF E!Listed
    <3>3. CASE ~listed
      <4>1. E!RowsOf(e)' \subseteq {k} /\ (k \in E!RowsOf(e)' => new # NoRow)
        BY <1>5, <3>1, <3>3
      <4>2. QED  BY <1>2, <2>1, <3>1, <3>3, <4>1 DEF E!Listed
    <3>4. QED  BY <3>2, <3>3
  <2>2. CASE t # e
    <3>1. answers'[t] = answers[t] /\ (E!Listed(t)' <=> E!Listed(t))
      BY <1>3, <1>4, <2>2 DEF E!Listed
    <3>2. QED  BY <1>1, <3>1 DEF ToldRight
  <2>3. QED  BY <2>1, <2>2
<1>12. ASSUME NEW d \in Call, calls'[d] # Idle PROVE EntrySeen(d)'
  <2>1. d # c /\ calls[d] # Idle /\ calls[d] \in E!EntryJobs /\ EntrySeen(d)
    BY <1>1, <1>6, <1>12
  <2> DEFINE job == calls[d]
             l == job.row
  <2>2. /\ calls'[d].do = job.do /\ calls'[d].on = job.on /\ calls'[d].row = l
        /\ IF job.on = e THEN calls'[d].old ELSE calls'[d].old = job.old
        /\ job.on \in E!Entry
    BY <1>6, <2>1 DEF E!EntryJobs
  <2>3. job.do = "unwish" =>
          /\ l \in Pk
          /\ rows'[l] = NoRow \/ rows'[l].entry = job.on
          /\ ~calls'[d].old => rows'[l] # NoRow
    <3> SUFFICES ASSUME job.do = "unwish"
                 PROVE  /\ l \in Pk
                        /\ rows'[l] = NoRow \/ rows'[l].entry = job.on
                        /\ ~calls'[d].old => rows'[l] # NoRow
      OBVIOUS
    <3>1. /\ rows[l] = NoRow \/ rows[l].entry = job.on
          /\ ~job.old => rows[l] # NoRow
      BY <2>1 DEF EntrySeen
    <3>2. l \in Pk
      BY <2>1 DEF EntrySeen
    <3>3. CASE l # k
      BY <1>2, <2>2, <3>1, <3>2, <3>3
    <3>4. CASE l = k
      <4>1. new = NoRow \/ rows[k] # NoRow
        BY <2>1, <3>4
      <4>2. rows[k] # NoRow => job.on = e
        BY <3>1, <3>4
      <4>3. QED  BY <1>2, <2>2, <3>1, <3>2, <3>4, <4>1, <4>2
    <3>5. QED  BY <3>3, <3>4
  <2>4. job.do \in {"activate", "deactivate"} => l \in E!RowsOf(job.on)'
    <3> SUFFICES ASSUME job.do \in {"activate", "deactivate"} PROVE l \in E!RowsOf(job.on)'
      OBVIOUS
    <3>1. l \in E!RowsOf(job.on) /\ job.on \in Address
      BY <2>1 DEF EntrySeen
    <3>2. CASE job.on # e
      BY <1>4, <2>2, <3>1, <3>2
    <3>3. CASE job.on = e
      <4>1. e \notin Wish
        BY <3>1, <3>3, DeskAssumption
      <4>2. l # k \/ new # NoRow
        BY <3>1, <3>3, <4>1 DEF E!RowsOf
      <4>3. QED  BY <1>5, <2>2, <3>1, <3>3, <4>2
    <3>4. QED  BY <3>2, <3>3
  <2>5. QED  BY <2>1, <2>2, <2>3, <2>4 DEF EntrySeen
<1>13. QED  BY <1>7, <1>8, <1>9, <1>10, <1>11, <1>12 DEF EntriesInv


\* A request begins, goes on, ends or answers, and writes no row.
LEMMA EntryLook ==
  ASSUME EntriesInv, NEW c \in Call, NEW job \in E!EntryJobs \cup {Idle},
         calls' = [calls EXCEPT ![c] = job], UNCHANGED <<rows, raced>>,
         calls'[c] # Idle => EntrySeen(c)',
         \/ answers' = answers
         \/ \E e \in E!Entry, listed \in BOOLEAN :
              /\ answers' = [answers EXCEPT ![e] = [listed |-> listed, old |-> FALSE]]
              /\ listed <=> E!Listed(e)
  PROVE  EntriesInv'
<1>1. /\ E!EntriesTypeOK /\ calls \in [Call -> E!EntryJobs \cup {Idle}]
      /\ OneRowEach /\ ConversationsActive /\ ToldRight
      /\ \A d \in Call : calls[d] # Idle => EntrySeen(d)
  BY DEF EntriesInv
<1>2. calls' \in [Call -> E!EntryJobs \cup {Idle}]
  BY <1>1
<1>3. \A e \in E!Entry : E!RowsOf(e)' = E!RowsOf(e) /\ (E!Listed(e)' <=> E!Listed(e))
  BY DEF E!RowsOf, E!Listed
<1>4. OneRowEach' /\ ConversationsActive'
  BY <1>1, <1>3 DEF OneRowEach, ConversationsActive
<1>5. answers' \in [E!Entry -> E!Answer \cup {Idle}] /\ ToldRight'
  <2>1. CASE answers' = answers
    BY <1>1, <1>3, <2>1 DEF E!EntriesTypeOK, ToldRight
  <2>2. ASSUME NEW e \in E!Entry, NEW listed \in BOOLEAN,
               answers' = [answers EXCEPT ![e] = [listed |-> listed, old |-> FALSE]],
               listed <=> E!Listed(e)
        PROVE  answers' \in [E!Entry -> E!Answer \cup {Idle}] /\ ToldRight'
    <3>1. PICK answer : answer = [listed |-> listed, old |-> FALSE]
      OBVIOUS
    <3>2. answer \in E!Answer /\ answer.listed = listed
      BY <3>1 DEF E!Answer
    <3>3. /\ answers \in [E!Entry -> E!Answer \cup {Idle}]
          /\ answers' = [answers EXCEPT ![e] = answer]
      BY <1>1, <2>2, <3>1 DEF E!EntriesTypeOK
    <3>4. answers' \in [E!Entry -> E!Answer \cup {Idle}]
      BY <3>2, <3>3
    <3>5. ToldRight'
      BY <1>1, <1>3, <2>2, <3>2, <3>3 DEF ToldRight
    <3>6. QED  BY <3>4, <3>5
  <2>3. QED  BY <2>1, <2>2
<1>6. E!EntriesTypeOK'
  BY <1>1, <1>5 DEF E!EntriesTypeOK
<1>7. ASSUME NEW d \in Call, calls'[d] # Idle PROVE EntrySeen(d)'
  <2>1. CASE d = c
    BY <1>7, <2>1
  <2>2. CASE d # c
    <3>1. calls'[d] = calls[d] /\ calls[d] \in E!EntryJobs /\ EntrySeen(d)
      BY <1>1, <1>7, <2>2
    <3>2. E!RowsOf(calls[d].on)' = E!RowsOf(calls[d].on)
      BY <3>1 DEF E!RowsOf
    <3>3. QED  BY <3>1, <3>2 DEF EntrySeen
  <2>3. QED  BY <2>1, <2>2
<1>8. QED  BY <1>2, <1>4, <1>5, <1>6, <1>7 DEF EntriesInv

\* A request that has looked has a job for what it found.
LEMMA LookStep ==
  ASSUME EntriesInv, NEW c \in Call, NEW e \in E!Entry, NEW k \in Pk \cup {NoRow},
         NEW do \in {"wish", "unwish", "create", "activate", "deactivate", "start"},
         calls' = [calls EXCEPT ![c] = E!Job(do, e, k)], UNCHANGED <<rows, answers, raced>>,
         do \in {"wish", "unwish"} => e \in Wish,
         do \in {"create", "activate", "deactivate"} => e \in Address,
         do = "start" => e \in Conversation,
         do \in {"unwish", "activate", "deactivate"} => k \in E!RowsOf(e)
  PROVE  EntriesInv'
<1>1. PICK job : job = E!Job(do, e, k)
  OBVIOUS
<1>2. job \in E!EntryJobs /\ ~job.old /\ job.do = do /\ job.on = e /\ job.row = k
  BY <1>1, EntryJob
<1>3. calls' = [calls EXCEPT ![c] = job] /\ calls'[c] = job
  BY <1>1 DEF EntriesInv
<1>4. E!RowsOf(calls[c].on)' = E!RowsOf(e)
  BY <1>2, <1>3 DEF E!RowsOf
<1>5. EntrySeen(c)'
  BY <1>2, <1>3, <1>4 DEF EntrySeen, E!RowsOf
<1>6. job \in E!EntryJobs \cup {Idle} /\ answers' = answers
  BY <1>2
<1>7. QED  BY <1>3, <1>5, <1>6, EntryLook


\* The request's row, where its job and its row are as they were seen.
LEMMA EntrySaved ==
  ASSUME NEW c \in Call, NEW e, E!Saved(c, e, Idle)
  PROVE  /\ calls' = [d \in Call |-> calls'[d]] /\ calls'[c] = Idle
         /\ \A d \in Call \ {c} : Overtaken(d, e)
BY DEF E!Saved, Overtaken

\* An entry is inserted where none is, but for a conversation started twice.
LEMMA EntryInsert ==
  ASSUME EntriesInv, NEW c \in Call, calls[c] # Idle, E!Insert(c),
         raced \subseteq raced', raced' \subseteq Conversation,
         calls[c].on \in raced' \/ E!RowsOf(calls[c].on) = {}
  PROVE  EntriesInv'
<1>1. PICK job \in E!EntryJobs : job = calls[c]
  BY DEF EntriesInv
<1>2. PICK e \in E!Entry : e = job.on
  BY DEF E!EntryJobs
<1>3. PICK k \in Pk :
        /\ rows[k] = NoRow /\ \A d \in Call : calls[d] # Idle => calls[d].row # k
        /\ E!Writes(c, [rows EXCEPT ![k] = [entry |-> e, active |-> TRUE]], TRUE)
  BY <1>1, <1>2 DEF E!Insert, E!Fresh
<1>4. PICK new : new = [entry |-> e, active |-> TRUE]
  OBVIOUS
<1>5. new \in E!EntryRow /\ new.entry = e /\ new.active
  BY <1>4 DEF E!EntryRow
<1>6. new # NoRow
  BY <1>5, DeskAssumption
<1>7. /\ rows' = [rows EXCEPT ![k] = new] /\ E!Saved(c, e, Idle)
      /\ answers' = [answers EXCEPT ![e] = [listed |-> TRUE, old |-> job.old]]
  BY <1>1, <1>2, <1>3, <1>4 DEF E!Writes, E!Tells
<1>8. job.old \in BOOLEAN
  BY DEF E!EntryJobs
<1>9. e \in raced' \/ E!RowsOf(e) \subseteq {k}
  BY <1>1, <1>2
<1>10. /\ calls' = [d \in Call |-> calls'[d]] /\ calls'[c] = Idle
       /\ \A d \in Call \ {c} : Overtaken(d, e)
  BY <1>7, EntrySaved
<1>11. PICK old \in BOOLEAN : old = job.old
  BY <1>8
<1>12. PICK listed \in BOOLEAN : listed = TRUE
  OBVIOUS
<1>13. answers' = [answers EXCEPT ![e] = [listed |-> listed, old |-> old]]
  BY <1>7, <1>11, <1>12
<1>14. /\ new \in E!EntryRow \cup {NoRow}
       /\ rows[k] = NoRow \/ rows[k].entry = e
       /\ new = NoRow \/ new.entry = e
       /\ new = NoRow => rows[k] = NoRow \/ e \in Wish
       /\ new = NoRow \/ rows[k] # NoRow \/ \A d \in Call : calls[d] # Idle => calls[d].row # k
       /\ new # NoRow /\ e \in Conversation => new.active
       /\ listed <=> new # NoRow /\ new.active
       /\ listed \/ old \/ E!RowsOf(e) \subseteq {k}
  BY <1>3, <1>5, <1>6, <1>12
<1>15. QED  BY <1>7, <1>9, <1>10, <1>13, <1>14, EntryWrite

LEMMA EntriesStep ==
  ASSUME EntriesInv, [E!EntriesNext]_<<calls, entryVars>>
  PROVE  EntriesInv'
<1>0. /\ E!EntriesTypeOK /\ calls \in [Call -> E!EntryJobs \cup {Idle}]
      /\ OneRowEach /\ ConversationsActive /\ ToldRight
      /\ \A d \in Call : calls[d] # Idle => EntrySeen(d)
  BY DEF EntriesInv
<1>1. /\ Wish \subseteq E!Entry /\ Address \subseteq E!Entry /\ Conversation \subseteq E!Entry
      /\ raced \subseteq Conversation
      /\ \A e : E!RowsOf(e) \subseteq Pk /\ \A k \in E!RowsOf(e) : rows[k] # NoRow
  BY <1>0 DEF E!Entry, E!EntriesTypeOK, E!RowsOf
<1>2. ASSUME NEW c \in Call, NEW e \in Wish, E!LookForWish(c, e) PROVE EntriesInv'
  <2>1. CASE E!Looks(c, "wish", e, NoRow)
    BY <1>1, <2>1, LookStep DEF E!Looks, E!Begin, E!entryVars
  <2>2. ASSUME NEW k \in E!RowsOf(e), E!Looks(c, "unwish", e, k) PROVE EntriesInv'
    BY <1>1, <2>2, LookStep DEF E!Looks, E!Begin, E!entryVars
  <2>3. QED  BY <1>2, <2>1, <2>2 DEF E!LookForWish
<1>3. ASSUME NEW c \in Call, NEW e \in E!Entry, NEW listed \in BOOLEAN,
             E!TellsAtOnce(c, e, listed), listed <=> E!Listed(e)
      PROVE  EntriesInv'
  <2>1. /\ answers' = [answers EXCEPT ![e] = [listed |-> listed, old |-> FALSE]]
        /\ UNCHANGED <<calls, rows, raced>> /\ calls[c] = Idle
    BY <1>3 DEF E!TellsAtOnce, E!Tells
  <2>2. calls' = [calls EXCEPT ![c] = Idle] /\ calls'[c] = Idle
    BY <1>0, <2>1
  <2>3. Idle \in E!EntryJobs \cup {Idle}
    OBVIOUS
  <2>4. QED  BY <1>3, <2>1, <2>2, <2>3, EntryLook
<1>4. ASSUME NEW c \in Call, NEW e \in Address, E!Subscribe(c, e) PROVE EntriesInv'
  <2>1. CASE E!Looks(c, "create", e, NoRow)
    BY <1>1, <2>1, LookStep DEF E!Looks, E!Begin, E!entryVars
  <2>2. ASSUME NEW k \in E!RowsOf(e), rows[k].active, E!TellsAtOnce(c, e, TRUE) PROVE EntriesInv'
    <3>1. E!Listed(e)
      BY <2>2 DEF E!Listed
    <3>2. QED  BY <1>1, <1>3, <2>2, <3>1
  <2>3. ASSUME NEW k \in E!RowsOf(e), E!Looks(c, "activate", e, k) PROVE EntriesInv'
    BY <1>1, <2>3, LookStep DEF E!Looks, E!Begin, E!entryVars
  <2>4. QED  BY <1>4, <2>1, <2>2, <2>3 DEF E!Subscribe
<1>5. ASSUME NEW c \in Call, NEW e \in Address, E!Unsubscribe(c, e) PROVE EntriesInv'
  <2>1. CASE ~E!Listed(e) /\ E!TellsAtOnce(c, e, FALSE)
    BY <1>1, <1>3, <2>1
  <2>2. ASSUME NEW k \in E!RowsOf(e), E!Looks(c, "deactivate", e, k) PROVE EntriesInv'
    BY <1>1, <2>2, LookStep DEF E!Looks, E!Begin, E!entryVars
  <2>3. QED  BY <1>5, <2>1, <2>2 DEF E!Unsubscribe
<1>6. ASSUME NEW c \in Call, NEW e \in Conversation, E!FindConversation(c, e) PROVE EntriesInv'
  <2>1. CASE E!Looks(c, "start", e, NoRow)
    BY <1>1, <2>1, LookStep DEF E!Looks, E!Begin, E!entryVars
  <2>2. CASE Cardinality(E!RowsOf(e)) = 1 /\ E!TellsAtOnce(c, e, TRUE)
    <3>1. E!RowsOf(e) # {}
      BY <2>2, FS_EmptySet
    <3>2. PICK k : k \in E!RowsOf(e)
      BY <3>1
    <3>3. rows[k].active
      BY <1>0, <3>2 DEF ConversationsActive, E!RowsOf
    <3>4. E!Listed(e)
      BY <3>2, <3>3 DEF E!Listed
    <3>5. QED  BY <1>1, <1>3, <2>2, <3>4
  <2>3. QED  BY <1>6, <2>1, <2>2, SameCount DEF E!FindConversation
<1>7. ASSUME NEW c \in Call, E!AddWish(c) PROVE EntriesInv'
  <2>1. calls[c] # Idle /\ E!RowsOf(calls[c].on) = {} /\ E!Insert(c) /\ raced' = raced
    BY <1>7 DEF E!AddWish, E!Does, E!Unique
  <2>2. QED  BY <1>1, <2>1, EntryInsert
<1>8. ASSUME NEW c \in Call, E!StartConversation(c) PROVE EntriesInv'
  <2>1. /\ calls[c] # Idle /\ calls[c].do = "start" /\ E!Insert(c)
        /\ raced' = IF E!RowsOf(calls[c].on) # {} THEN raced \cup {calls[c].on} ELSE raced
    BY <1>8 DEF E!StartConversation, E!Does
  <2>2. calls[c].on \in Conversation
    BY <1>0, <2>1 DEF EntrySeen
  <2>3. /\ raced \subseteq raced' /\ raced' \subseteq Conversation
        /\ calls[c].on \in raced' \/ E!RowsOf(calls[c].on) = {}
    BY <1>1, <2>1, <2>2
  <2>4. QED  BY <2>1, <2>3, EntryInsert
<1>9. ASSUME NEW c \in Call, E!CreateAddress(c) PROVE EntriesInv'
  <2>1. PICK job \in E!EntryJobs : job = calls[c]
    BY <1>0, <1>9 DEF E!CreateAddress, E!Does
  <2>2. PICK e \in Address : e = job.on
    BY <1>0, <1>9, <2>1 DEF E!CreateAddress, E!Does, EntrySeen
  <2>3. calls[c] # Idle /\ raced' = raced /\ e = calls[c].on
    BY <1>9, <2>1, <2>2 DEF E!CreateAddress, E!Does
  <2>4. CASE E!Unique(e) /\ E!Insert(c)
    BY <1>1, <2>3, <2>4, EntryInsert DEF E!Unique
  <2>5. ASSUME NEW k \in E!RowsOf(e), rows[k].active, E!End(c), E!Tells(e, TRUE, FALSE), rows' = rows
        PROVE  EntriesInv'
    <3>1. /\ calls' = [calls EXCEPT ![c] = Idle]
          /\ answers' = [answers EXCEPT ![e] = [listed |-> TRUE, old |-> FALSE]]
      BY <2>5 DEF E!End, E!Goes, E!Tells
    <3>2. calls'[c] = Idle /\ E!Listed(e)
      BY <1>0, <2>5, <3>1 DEF E!Listed
    <3>3. Idle \in E!EntryJobs \cup {Idle} /\ e \in E!Entry
      BY <1>1
    <3>4. \E t \in E!Entry, listed \in BOOLEAN :
            /\ answers' = [answers EXCEPT ![t] = [listed |-> listed, old |-> FALSE]]
            /\ listed <=> E!Listed(t)
      BY <3>1, <3>2, <3>3
    <3>5. QED  BY <2>3, <2>5, <3>1, <3>2, <3>3, <3>4, EntryLook
  <2>6. ASSUME NEW k \in E!RowsOf(e), E!Goes(c, E!Job("activate", e, k)), UNCHANGED <<rows, answers>>
        PROVE  EntriesInv'
    BY <1>1, <2>3, <2>6, LookStep DEF E!Goes
  <2>7. QED  BY <1>9, <2>3, <2>4, <2>5, <2>6 DEF E!CreateAddress
<1>10. ASSUME NEW c \in Call, E!RemoveWish(c) \/ E!SetActive(c) PROVE EntriesInv'
  <2>1. PICK job \in E!EntryJobs : job = calls[c] /\ job # Idle
    BY <1>0, <1>10 DEF E!RemoveWish, E!SetActive, E!Does
  <2>2. PICK e \in E!Entry : e = job.on
    BY DEF E!EntryJobs
  <2>3. PICK old \in BOOLEAN : old = job.old
    BY DEF E!EntryJobs
  <2>4. \E k \in Pk, new \in E!EntryRow \cup {NoRow}, listed \in BOOLEAN :
          /\ rows' = [rows EXCEPT ![k] = new]
          /\ rows[k] = NoRow \/ rows[k].entry = e
          /\ new = NoRow \/ new.entry = e
          /\ new = NoRow => rows[k] = NoRow \/ e \in Wish
          /\ new = NoRow \/ rows[k] # NoRow
          /\ new # NoRow /\ e \in Conversation => new.active
          /\ answers' = [answers EXCEPT ![e] = [listed |-> listed, old |-> old]]
          /\ listed <=> new # NoRow /\ new.active
          /\ listed \/ old \/ k \in E!RowsOf(e)
          /\ e \notin Conversation /\ (k \in E!RowsOf(e) \/ (old /\ new = NoRow))
          /\ E!Saved(c, e, Idle) /\ raced' = raced
    <3>1. CASE E!RemoveWish(c)
      <4>1. /\ job.do = "unwish" /\ rows' = [rows EXCEPT ![job.row] = NoRow]
            /\ answers' = [answers EXCEPT ![e] = [listed |-> FALSE, old |-> old]]
            /\ E!Saved(c, e, Idle) /\ raced' = raced
        BY <2>1, <2>2, <2>3, <3>1 DEF E!RemoveWish, E!Does, E!Writes, E!Tells
      <4>2. /\ e \in Wish /\ job.row \in Pk
            /\ rows[job.row] = NoRow \/ rows[job.row].entry = e
            /\ ~old => rows[job.row] # NoRow
        BY <1>0, <2>1, <2>2, <2>3, <4>1 DEF EntrySeen
      <4>3. e \notin Conversation /\ (job.row \in E!RowsOf(e) \/ old)
        BY <4>2, DeskAssumption DEF E!RowsOf
      <4>4. QED  BY <4>1, <4>2, <4>3
    <3>2. CASE E!SetActive(c)
      <4>1. PICK active \in BOOLEAN :
              /\ job.do \in {"activate", "deactivate"}
              /\ rows' = [rows EXCEPT ![job.row].active = active]
              /\ answers' = [answers EXCEPT ![e] = [listed |-> active, old |-> old]]
              /\ E!Saved(c, e, Idle) /\ raced' = raced
        BY <2>1, <2>2, <2>3, <3>2 DEF E!SetActive, E!Does, E!Writes, E!Tells
      <4>2. e \in Address /\ job.row \in E!RowsOf(e)
        BY <1>0, <2>1, <2>2, <4>1 DEF EntrySeen
      <4>3. PICK k \in Pk : k = job.row /\ rows[k] # NoRow /\ rows[k].entry = e
        BY <4>2 DEF E!RowsOf
      <4>4. rows[k] \in E!EntryRow
        BY <1>0, <4>3 DEF E!EntriesTypeOK
      <4>5. PICK new \in E!EntryRow : new = [rows[k] EXCEPT !.active = active] /\ new.entry = e /\ new.active = active
        <5>1. \A row \in E!EntryRow : /\ [row EXCEPT !.active = active] \in E!EntryRow
                                      /\ [row EXCEPT !.active = active].entry = row.entry
                                      /\ [row EXCEPT !.active = active].active = active
          BY DEF E!EntryRow
        <5>2. QED  BY <4>3, <4>4, <5>1
      <4>6. new # NoRow /\ e \notin Conversation
        BY <4>2, DeskAssumption
      <4>7. rows' = [rows EXCEPT ![k] = new]
        BY <4>1, <4>3, <4>5
      <4>8. QED  BY <4>1, <4>2, <4>3, <4>5, <4>6, <4>7
    <3>3. QED  BY <1>10, <3>1, <3>2
  <2>5. PICK k \in Pk, new \in E!EntryRow \cup {NoRow}, listed \in BOOLEAN :
          /\ rows' = [rows EXCEPT ![k] = new]
          /\ rows[k] = NoRow \/ rows[k].entry = e
          /\ new = NoRow \/ new.entry = e
          /\ new = NoRow => rows[k] = NoRow \/ e \in Wish
          /\ new = NoRow \/ rows[k] # NoRow
          /\ new # NoRow /\ e \in Conversation => new.active
          /\ answers' = [answers EXCEPT ![e] = [listed |-> listed, old |-> old]]
          /\ listed <=> new # NoRow /\ new.active
          /\ listed \/ old \/ k \in E!RowsOf(e)
          /\ e \notin Conversation /\ (k \in E!RowsOf(e) \/ (old /\ new = NoRow))
          /\ E!Saved(c, e, Idle) /\ raced' = raced
    BY <2>4
  <2>6. /\ calls' = [d \in Call |-> calls'[d]] /\ calls'[c] = Idle
        /\ \A d \in Call \ {c} : Overtaken(d, e)
    BY <2>5, EntrySaved
  <2>7. k \in E!RowsOf(e) => E!RowsOf(e) \subseteq {k}
    BY <1>0, <1>1, <2>5 DEF OneRowEach
  <2>8. /\ raced \subseteq raced' /\ raced' \subseteq Conversation
        /\ new = NoRow \/ rows[k] # NoRow \/ \A d \in Call : calls[d] # Idle => calls[d].row # k
        /\ listed \/ old \/ E!RowsOf(e) \subseteq {k}
        /\ new = NoRow \/ e \in raced' \/ E!RowsOf(e) \subseteq {k}
    BY <1>1, <2>5, <2>7
  <2>9. QED  BY <2>5, <2>6, <2>8, EntryWrite
<1>11. ASSUME NEW c \in Call, E!DropLook(c) PROVE EntriesInv'
  <2>1. calls' = [calls EXCEPT ![c] = Idle] /\ UNCHANGED <<rows, answers, raced>>
    BY <1>11 DEF E!DropLook, E!End, E!Goes, E!entryVars
  <2>2. calls'[c] = Idle /\ Idle \in E!EntryJobs \cup {Idle}
    BY <1>0, <2>1
  <2>3. QED  BY <2>1, <2>2, EntryLook
<1>12. CASE UNCHANGED <<calls, entryVars>>
  BY <1>12 DEF entryVars, EntriesInv, EntrySeen, OneRowEach, ConversationsActive, ToldRight,
               E!EntriesTypeOK, E!RowsOf, E!Listed
<1>13. QED
  BY <1>2, <1>4, <1>5, <1>6, <1>7, <1>8, <1>9, <1>10, <1>11, <1>12 DEF E!EntriesNext


\* What a customer was told of a list last is so, unless somebody else wrote
\* the entry between that request's look and its write; and a wish, an address
\* or a conversation has one row, unless a conversation was started twice.
THEOREM ListsAreAsTold == DeskSpec => []EntriesAsTold
<1> DEFINE Inv == IF area = "entries" THEN EntriesInv ELSE E!EntriesInit
<1>1. DeskInit => Inv
  <2> SUFFICES ASSUME E!EntriesInit, calls = [c \in Call |-> Idle] PROVE EntriesInv
    BY DEF DeskInit
  <2>1. /\ \A k \in Pk : rows[k] = NoRow
        /\ \A e \in E!Entry : answers[e] = Idle
        /\ raced = {} /\ E!EntriesTypeOK
    BY DEF E!EntriesInit, E!EntriesTypeOK
  <2>2. \A e \in E!Entry : E!RowsOf(e) = {}
    BY <2>1 DEF E!RowsOf
  <2>3. QED  BY <2>1, <2>2 DEF EntriesInv, OneRowEach, ConversationsActive, ToldRight
<1>2. Inv /\ [DeskNext]_deskVars => Inv'
  <2> SUFFICES ASSUME Inv, [DeskNext]_deskVars PROVE Inv'
    OBVIOUS
  <2>1. /\ area' = area
        /\ IF area = "entries" THEN [E!EntriesNext]_<<calls, entryVars>> ELSE UNCHANGED entryVars
    BY DEF DeskNext, deskVars
  <2>2. CASE area = "entries"
    BY <2>1, <2>2, EntriesStep
  <2>3. CASE area # "entries"
    BY <2>1, <2>3 DEF E!EntriesInit, entryVars
  <2>4. QED  BY <2>2, <2>3
<1>3. Inv => EntriesAsTold
  <2> SUFFICES ASSUME Inv, NEW e \in E!Entry
               PROVE  /\ answers[e] # Idle /\ ~answers[e].old => (answers[e].listed <=> E!Listed(e))
                      /\ Cardinality(E!RowsOf(e)) > 1 => e \in raced
    BY SameCount DEF EntriesAsTold, E!EntriesAsTold
  <2>1. CASE area = "entries"
    <3>1. answers[e] # Idle /\ ~answers[e].old => (answers[e].listed <=> E!Listed(e))
      BY <2>1 DEF EntriesInv, ToldRight
    <3>2. CASE e \notin raced
      <4>1. E!RowsOf(e) = {} \/ \E k : E!RowsOf(e) = {k}
        BY <2>1, <3>2 DEF EntriesInv, OneRowEach
      <4>2. Cardinality(E!RowsOf(e)) \in {0, 1}
        BY <4>1, FS_EmptySet, FS_Singleton
      <4>3. QED  BY <3>1, <4>2
    <3>3. QED  BY <3>1, <3>2
  <2>2. CASE area # "entries"
    <3>1. answers[e] = Idle /\ E!RowsOf(e) = {}
      BY <2>2 DEF E!EntriesInit, E!RowsOf
    <3>2. Cardinality(E!RowsOf(e)) = 0
      BY <3>1, FS_EmptySet
    <3>3. QED  BY <3>1, <3>2
  <2>3. QED  BY <2>1, <2>2
<1>4. QED  BY <1>1, <1>2, <1>3, PTL DEF DeskSpec

-----------------------------------------------------------------------------
(* The assistant: what it shows was found *)

FoundBy(found, args, c) ==
  /\ found \subseteq shown[c] /\ Cardinality(found) <= MaxProducts
  /\ \A p \in found : A!EffectiveBrand(args) \in {A!Any, BrandOf[p]}

\* An answer is about products that were published since it was asked for; while
\* one is being made, whatever is published now was published since.
AnswerStands(c) ==
  /\ spoken[c] # Idle =>
       /\ FoundBy(spoken[c].products, spoken[c].args, c)
       /\ spoken[c].text # "call"
       /\ spoken[c].text \in {"none", "ask"} => spoken[c].products = {}
       /\ spoken[c].text = "counted" => spoken[c].products # {}
  /\ asking[c] # Idle =>
       /\ A!Published \subseteq shown[c]
       /\ asking[c] \in A!AssistantJobs
       /\ asking[c].do = "second" => FoundBy(asking[c].row.products, asking[c].row.args, c)

AssistantInv ==
  /\ DOMAIN asking = Asker /\ DOMAIN spoken = Asker /\ DOMAIN shown = Asker
  /\ documents \in [Item -> A!Document]
  /\ \A c \in Asker : AnswerStands(c)

\* A step of one request leaves the others as they were.
LEMMA OthersAnswer ==
  ASSUME AssistantInv, NEW c \in Asker, documents' = documents,
         DOMAIN asking' = Asker, DOMAIN spoken' = Asker, DOMAIN shown' = Asker,
         \A d \in Asker \ {c} :
           asking'[d] = asking[d] /\ spoken'[d] = spoken[d] /\ shown'[d] = shown[d],
         AnswerStands(c)'
  PROVE  AssistantInv'
<1>1. A!Published' = A!Published
  BY DEF A!Published
<1>2. ASSUME NEW d \in Asker \ {c} PROVE AnswerStands(d)'
  BY <1>1 DEF AssistantInv, AnswerStands, FoundBy
<1>3. QED  BY <1>2 DEF AssistantInv

FirstJob == [do : {"first"}, on : Brand \cup {A!Any}, row : {Idle}, old : BOOLEAN]
SearchJob ==
  [do : {"search"}, on : Brand \cup {A!Any}, old : BOOLEAN,
   row : [args : A!Args, then : {"second", "sorry", "intro", "garbled"}]]
SecondJob ==
  [do : {"second"}, on : Brand \cup {A!Any}, old : BOOLEAN,
   row : [args : A!Args, products : SUBSET Item]]

LEMMA AnswerJobs ==
  ASSUME NEW job \in A!AssistantJobs
  PROVE  /\ job.do = "first" => job \in FirstJob
         /\ job.do = "search" => job \in SearchJob
         /\ job.do = "second" => job \in SecondJob
<1>1. job \in FirstJob \/ job \in SearchJob \/ job \in SecondJob
  BY DEF A!AssistantJobs, FirstJob, SearchJob, SecondJob
<1>2. CASE job \in FirstJob
  BY <1>2 DEF FirstJob
<1>3. CASE job \in SearchJob
  BY <1>3 DEF SearchJob
<1>4. CASE job \in SecondJob
  BY <1>4 DEF SecondJob
<1>5. QED  BY <1>1, <1>2, <1>3, <1>4

\* A request goes on to its search.
LEMMA GoesToSearch ==
  ASSUME AssistantInv, NEW c \in Asker, A!Does(c, "first"), NEW args \in A!Args,
         NEW then \in {"second", "sorry", "intro", "garbled"}, A!SearchNext(c, args, then)
  PROVE  AssistantInv'
<1>1. asking[c] \in FirstJob /\ AnswerStands(c)
  BY AnswerJobs DEF A!Does, AssistantInv, AnswerStands
<1>2. PICK job \in SearchJob :
        /\ job.row = [args |-> args, then |-> then] /\ job.do = "search"
        /\ asking' = [asking EXCEPT ![c] = job]
  <2>1. asking' = [asking EXCEPT ![c] =
                     [asking[c] EXCEPT !.do = "search", !.row = [args |-> args, then |-> then]]]
    BY DEF A!SearchNext, A!Goes
  <2>2. ASSUME NEW job \in FirstJob, NEW row \in [args : A!Args, then : {"second", "sorry", "intro", "garbled"}]
        PROVE  LET next == [job EXCEPT !.do = "search", !.row = row] IN
               next \in SearchJob /\ next.row = row /\ next.do = "search"
    BY DEF FirstJob, SearchJob
  <2>3. QED  BY <1>1, <2>1, <2>2
<1>3. documents' = documents /\ spoken' = spoken /\ shown' = shown
  BY DEF A!SearchNext, A!assistantVars
<1>4. asking'[c] = job /\ \A d \in Asker \ {c} : asking'[d] = asking[d]
  BY <1>2 DEF AssistantInv
<1>5. job \in A!AssistantJobs
  BY DEF SearchJob, A!AssistantJobs
<1>6. AnswerStands(c)'
  BY <1>1, <1>2, <1>3, <1>4, <1>5 DEF AnswerStands, FoundBy, A!Published, A!Does
<1>7. QED
  BY <1>2, <1>3, <1>4, <1>6, OthersAnswer DEF AssistantInv

\* A request that answers and ends.
LEMMA AnswersAndEnds ==
  ASSUME AssistantInv, NEW c \in Asker, NEW answer,
         spoken' = [spoken EXCEPT ![c] = answer], asking' = [asking EXCEPT ![c] = Idle],
         documents' = documents, shown' = shown,
         FoundBy(answer.products, answer.args, c), answer.text # "call",
         answer.text \in {"none", "ask"} => answer.products = {},
         answer.text = "counted" => answer.products # {}
  PROVE  AssistantInv'
<1>1. /\ asking'[c] = Idle /\ spoken'[c] = answer
      /\ \A d \in Asker \ {c} : asking'[d] = asking[d] /\ spoken'[d] = spoken[d]
      /\ DOMAIN asking' = Asker /\ DOMAIN spoken' = Asker /\ DOMAIN shown' = Asker
  BY DEF AssistantInv
<1>2. AnswerStands(c)'
  BY <1>1 DEF AnswerStands, FoundBy
<1>3. QED  BY <1>1, <1>2, OthersAnswer

\* A request that ends with nothing said.
LEMMA EndsSilent ==
  ASSUME AssistantInv, NEW c \in Asker, asking' = [asking EXCEPT ![c] = Idle],
         documents' = documents, shown' = shown, spoken' = spoken
  PROVE  AssistantInv'
<1>1. /\ asking'[c] = Idle
      /\ \A d \in Asker \ {c} : asking'[d] = asking[d]
      /\ DOMAIN asking' = Asker /\ DOMAIN spoken' = Asker /\ DOMAIN shown' = Asker
  BY DEF AssistantInv
<1>2. AnswerStands(c)'
  BY <1>1 DEF AnswerStands, FoundBy, AssistantInv
<1>3. QED  BY <1>1, <1>2, OthersAnswer

LEMMA AskStands ==
  ASSUME AssistantInv, NEW c \in Asker, NEW named \in Brand \cup {A!Any}, A!Ask(c, named)
  PROVE  AssistantInv'
<1>1. PICK job \in FirstJob : job.do = "first" /\ asking' = [asking EXCEPT ![c] = job]
  BY DEF A!Ask, A!Begin, A!Job, FirstJob, A!Any
<1>2. /\ asking'[c] = job /\ spoken'[c] = Idle /\ shown'[c] = A!Published
      /\ \A d \in Asker \ {c} : asking'[d] = asking[d] /\ spoken'[d] = spoken[d] /\ shown'[d] = shown[d]
      /\ DOMAIN asking' = Asker /\ DOMAIN spoken' = Asker /\ DOMAIN shown' = Asker
      /\ documents' = documents
  BY <1>1 DEF A!Ask, AssistantInv
<1>3. job \in A!AssistantJobs
  BY DEF FirstJob, A!AssistantJobs
<1>4. AnswerStands(c)'
  BY <1>1, <1>2, <1>3 DEF AnswerStands, A!Published
<1>5. QED  BY <1>2, <1>4, OthersAnswer

LEMMA AskNothingStands ==
  ASSUME AssistantInv, NEW c \in Asker, A!AskNothing(c)
  PROVE  AssistantInv'
<1>1. PICK answer :
        /\ answer.text = "ask" /\ answer.products = {}
        /\ spoken' = [spoken EXCEPT ![c] = answer]
  BY DEF A!AskNothing, A!Answered
<1>2. /\ asking' = asking /\ asking[c] = Idle /\ documents' = documents
      /\ shown' = [shown EXCEPT ![c] = {}]
  BY DEF A!AskNothing
<1>3. /\ asking'[c] = Idle /\ spoken'[c] = answer /\ shown'[c] = {}
      /\ \A d \in Asker \ {c} : asking'[d] = asking[d] /\ spoken'[d] = spoken[d] /\ shown'[d] = shown[d]
      /\ DOMAIN asking' = Asker /\ DOMAIN spoken' = Asker /\ DOMAIN shown' = Asker
  BY <1>1, <1>2 DEF AssistantInv
<1>4. Cardinality({}) = 0 /\ MaxProducts \in Nat
  BY FS_EmptySet, DeskAssumption DEF A!AssistantConstants
<1>5. AnswerStands(c)'
  BY <1>1, <1>3, <1>4 DEF AnswerStands, FoundBy
<1>6. QED  BY <1>2, <1>3, <1>5, OthersAnswer

\* Whatever the model calls the tool with, its arguments make sense once cleaned;
\* and the customer's own words do.
LEMMA CleanArgs ==
  ASSUME NEW asked \in Brand \cup {A!Any}
  PROVE  /\ \A raw \in A!Args : A!Sanitized(raw, asked) \in A!Args
         /\ A!PlainSearch(asked) \in A!Args
  BY DEF A!Args, A!Sanitized, A!PlainSearch

LEMMA FirstAnswerStands ==
  ASSUME AssistantInv, NEW c \in Asker, A!CallTool(c) \/ A!AnswerInProse(c) \/ A!FallBack(c)
  PROVE  AssistantInv'
<1>1. A!Does(c, "first")
  BY DEF A!CallTool, A!AnswerInProse, A!FallBack
<1>2. asking[c].on \in Brand \cup {A!Any}
  <2>1. asking[c] \in FirstJob
    BY <1>1, AnswerJobs DEF A!Does, AssistantInv, AnswerStands
  <2>2. QED  BY <2>1 DEF FirstJob
<1>3. PICK args, then :
        /\ args \in A!Args /\ then \in {"second", "sorry", "intro", "garbled"}
        /\ A!SearchNext(c, args, then)
  BY <1>2, CleanArgs DEF A!CallTool, A!AnswerInProse, A!FallBack
<1>4. QED  BY <1>1, <1>3, GoesToSearch

\* The instance counts as this module does.
LEMMA SameNumber == \A S : A!Cardinality(S) = Cardinality(S)
  BY DEF A!Cardinality, Cardinality

\* What a search finds are products published now, of the brand asked for.
LEMMA SearchStands ==
  ASSUME AssistantInv, NEW c \in Asker, A!Search(c)
  PROVE  AssistantInv'
<1> DEFINE args == asking[c].row.args
           then == asking[c].row.then
<1>1. asking[c] \in SearchJob /\ AnswerStands(c) /\ asking[c] # Idle
  BY AnswerJobs DEF A!Search, A!Does, AssistantInv, AnswerStands
<1>2. args \in A!Args /\ then \in {"second", "sorry", "intro", "garbled"}
  BY <1>1 DEF SearchJob
<1>3. PICK found \in SUBSET {p \in Item : A!Matches(p, args)} :
        /\ Cardinality(found) <= MaxProducts
        /\ IF then = "second"
           THEN /\ A!Goes(c, [asking[c] EXCEPT !.do = "second", !.row = [args |-> args, products |-> found]])
                /\ UNCHANGED spoken
           ELSE /\ A!Answered(c, [text |-> then, products |-> found, args |-> args,
                                  called |-> FALSE, ai |-> then # "sorry"])
                /\ A!End(c)
  <2>1. \E found \in SUBSET {p \in Item : A!Matches(p, args)} :
          /\ A!Cardinality(found) <= MaxProducts
          /\ IF then = "second"
             THEN /\ A!Goes(c, [asking[c] EXCEPT !.do = "second", !.row = [args |-> args, products |-> found]])
                  /\ UNCHANGED spoken
             ELSE /\ A!Answered(c, [text |-> then, products |-> found, args |-> args,
                                    called |-> FALSE, ai |-> then # "sorry"])
                  /\ A!End(c)
    BY Zenon DEF A!Search
  <2>2. QED  BY <2>1, SameNumber
<1>4. documents' = documents /\ shown' = shown
  BY DEF A!Search
<1>5. FoundBy(found, args, c)
  BY <1>1, <1>3 DEF FoundBy, A!Matches, AnswerStands, A!Published
<1>6. CASE then = "second"
  <2>1. ASSUME NEW job \in SearchJob, NEW row \in [args : A!Args, products : SUBSET Item]
        PROVE  LET next == [job EXCEPT !.do = "second", !.row = row] IN
               next \in SecondJob /\ next.row = row /\ next.do = "second"
    BY DEF SearchJob, SecondJob
  <2>2. [args |-> args, products |-> found] \in [args : A!Args, products : SUBSET Item]
    BY <1>2
  <2>3. asking' = [asking EXCEPT ![c] =
                     [asking[c] EXCEPT !.do = "second", !.row = [args |-> args, products |-> found]]]
    BY <1>3, <1>6 DEF A!Goes
  <2>4. PICK job \in SecondJob :
          /\ job.row = [args |-> args, products |-> found] /\ job.do = "second"
          /\ asking' = [asking EXCEPT ![c] = job]
    BY <1>1, <2>1, <2>2, <2>3
  <2>5. asking'[c] = job /\ (\A d \in Asker \ {c} : asking'[d] = asking[d]) /\ spoken' = spoken
    BY <1>3, <1>6, <2>4 DEF AssistantInv
  <2>6. job \in A!AssistantJobs /\ FoundBy(job.row.products, job.row.args, c)
    BY <1>5, <2>4 DEF SecondJob, A!AssistantJobs
  <2>7. AnswerStands(c)'
    BY <1>1, <1>4, <2>4, <2>5, <2>6 DEF AnswerStands, FoundBy, A!Published
  <2>8. QED
    BY <1>4, <2>4, <2>5, <2>7, OthersAnswer DEF AssistantInv
<1>7. CASE then # "second"
  <2>1. PICK answer :
          /\ spoken' = [spoken EXCEPT ![c] = answer]
          /\ answer.text = then /\ answer.products = found /\ answer.args = args
    BY <1>3, <1>7 DEF A!Answered
  <2>2. asking' = [asking EXCEPT ![c] = Idle]
    BY <1>3, <1>7 DEF A!End, A!Goes
  <2>3. QED  BY <1>2, <1>4, <1>5, <2>1, <2>2, AnswersAndEnds
<1>8. QED  BY <1>6, <1>7

\* What the model writes above the products is a sentence that fits them.
LEMMA ReplyFits ==
  ASSUME NEW found, NEW text \in {"intro", "call", "garbled", "empty"}
  PROVE  LET reply == A!Reply(text, found) IN
         /\ reply # "call"
         /\ reply \in {"none", "ask"} => found = {}
         /\ reply = "counted" => found # {}
  BY DEF A!Reply

LEMMA FinishReplyStands ==
  ASSUME AssistantInv, NEW c \in Asker, A!FinishReply(c)
  PROVE  AssistantInv'
<1> DEFINE row == asking[c].row
<1>1. FoundBy(row.products, row.args, c)
  BY DEF A!FinishReply, A!Does, AssistantInv, AnswerStands
<1>2. PICK text \in {"intro", "call", "garbled", "empty"} :
        A!Answered(c, [text |-> A!Reply(text, row.products), products |-> row.products,
                       args |-> row.args, called |-> TRUE, ai |-> TRUE])
  BY DEF A!FinishReply
<1>3. PICK answer :
        /\ spoken' = [spoken EXCEPT ![c] = answer]
        /\ answer.text = A!Reply(text, row.products)
        /\ answer.products = row.products /\ answer.args = row.args
  <2> DEFINE said == [text |-> A!Reply(text, row.products), products |-> row.products,
                      args |-> row.args, called |-> TRUE, ai |-> TRUE]
  <2>1. spoken' = [spoken EXCEPT ![c] = said]
    BY <1>2 DEF A!Answered
  <2>2. /\ said.text = A!Reply(text, row.products)
        /\ said.products = row.products /\ said.args = row.args
    OBVIOUS
  <2> HIDE DEF said
  <2>3. QED  BY <2>1, <2>2
<1>4. documents' = documents /\ shown' = shown /\ asking' = [asking EXCEPT ![c] = Idle]
  BY DEF A!FinishReply, A!End, A!Goes
<1>5. /\ answer.text # "call"
      /\ answer.text \in {"none", "ask"} => answer.products = {}
      /\ answer.text = "counted" => answer.products # {}
  BY <1>3, ReplyFits
<1>6. FoundBy(answer.products, answer.args, c)
  BY <1>1, <1>3
<1>7. QED  BY <1>3, <1>4, <1>5, <1>6, AnswersAndEnds

\* A product that is published meanwhile is one of those published since each
\* running question was asked.
LEMMA IndexStands ==
  ASSUME AssistantInv, NEW p \in Item, A!ChangeIndex(p)
  PROVE  AssistantInv'
<1>1. PICK doc \in A!Document : documents' = [documents EXCEPT ![p] = doc]
  BY DEF A!ChangeIndex
<1>2. /\ documents' \in [Item -> A!Document]
      /\ documents'[p] = doc /\ \A q \in Item \ {p} : documents'[q] = documents[q]
  BY <1>1 DEF AssistantInv
<1>3. /\ asking' = asking /\ spoken' = spoken
      /\ shown' = [c \in Asker |-> IF asking[c] # Idle /\ doc.published THEN shown[c] \cup {p} ELSE shown[c]]
  BY <1>1, <1>2 DEF A!ChangeIndex
<1>4. ASSUME NEW c \in Asker PROVE AnswerStands(c)'
  <2>1. AnswerStands(c)
    BY DEF AssistantInv
  <2>2. shown[c] \subseteq shown'[c]
    BY <1>3
  <2>3. ASSUME asking[c] # Idle PROVE A!Published' \subseteq shown'[c]
    BY <1>2, <1>3, <2>1, <2>2, <2>3 DEF A!Published, AnswerStands
  <2>4. QED  BY <1>3, <2>1, <2>2, <2>3 DEF AnswerStands, FoundBy
<1>5. QED  BY <1>2, <1>3, <1>4 DEF AssistantInv

LEMMA AssistantStep ==
  ASSUME AssistantInv, [A!AssistantNext]_<<asking, assistantVars>>
  PROVE  AssistantInv'
<1>1. ASSUME NEW c \in Asker, A!FailSearch(c) PROVE AssistantInv'
  BY <1>1, EndsSilent DEF A!FailSearch, A!End, A!Goes, A!assistantVars
<1>2. CASE UNCHANGED <<asking, assistantVars>>
  BY <1>2 DEF assistantVars, AssistantInv, AnswerStands, FoundBy, A!Published
<1>3. QED
  BY <1>1, <1>2, AskStands, AskNothingStands, FirstAnswerStands, SearchStands, FinishReplyStands,
     IndexStands DEF A!AssistantNext

\* What the assistant shows is what its search found: products that were
\* published while the question was being answered, of the brand asked for, no
\* more than allowed; and the words above them are never a tool call and never
\* contradict them.
THEOREM AnswersGrounded == DeskSpec => []ReplyGrounded
<1>1. DeskInit => AssistantInv
  <2>1. ASSUME DeskInit
        PROVE  /\ asking = [c \in Asker |-> Idle] /\ spoken = [c \in Asker |-> Idle]
               /\ shown = [c \in Asker |-> {}] /\ documents \in [Item -> A!Document]
    BY <2>1 DEF DeskInit, A!AssistantInit, A!Document
  <2>2. QED  BY <2>1 DEF AssistantInv, AnswerStands
<1>2. AssistantInv /\ [DeskNext]_deskVars => AssistantInv'
  BY AssistantStep DEF DeskNext, deskVars, assistantVars
<1>3. AssistantInv => ReplyGrounded
  BY SameNumber DEF AssistantInv, AnswerStands, FoundBy, ReplyGrounded, A!ReplyGrounded
<1>4. QED  BY <1>1, <1>2, <1>3, PTL DEF DeskSpec

=============================================================================
