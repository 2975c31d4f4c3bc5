------------------------------ MODULE Reviews -------------------------------
(***************************************************************************)
(* Reviews of products: written once by a customer, changed by the         *)
(* customer, answered by the vendor (reviews.services and api_views), and  *)
(* marked as a verified purchase by the orders there are at the time.      *)
(***************************************************************************)
EXTENDS Requests, Integers

CONSTANTS
  Goods,       \* products, all of one vendor; the reviews are one customer's
  ReviewId,    \* the keys of rows
  MaxReplies   \* bound: replies of the vendor to a review

ASSUME ReviewsAssumption == MaxReplies \in Nat

VARIABLES
  bought,    \* products in a shipped or delivered order of the customer
  ever,      \* history: products that ever were
  reviews,   \* reviews[i]: the row, Unused or Deleted
  replied,   \* history: replied[i]: the vendor's last reply to it, or 0
  moved,     \* history: reviews that were written about another product
  overwrote  \* history: reviews saved over a newer one

reviewVars == <<bought, ever, reviews, replied, moved, overwrote>>

Review == [state : {"there"}, of : Goods, verified : BOOLEAN, reply : 0..MaxReplies]
Blank(state) == [state |-> state, of |-> Idle, verified |-> FALSE, reply |-> 0]
Unused == Blank("unused")
Deleted == Blank("deleted")

There(i) == reviews[i].state = "there"
Reviewed(p) == \E i \in ReviewId : There(i) /\ reviews[i].of = p

ReviewJobs ==
  [do : {"review"}, on : {Idle}, row : Review, old : BOOLEAN]
    \cup [do : {"edit"}, on : ReviewId, row : Review, old : BOOLEAN]

ReviewsTypeOK ==
  /\ bought \subseteq ever /\ ever \subseteq Goods
  /\ reviews \in [ReviewId -> Review \cup {Unused, Deleted}]
  /\ replied \in [ReviewId -> 0..MaxReplies]
  /\ moved \subseteq ReviewId /\ overwrote \subseteq ReviewId
  /\ \A c \in Call : calls[c] # Idle => calls[c] \in ReviewJobs

ReviewsInit ==
  /\ bought = {} /\ ever = {}
  /\ reviews = [i \in ReviewId |-> Unused]
  /\ replied = [i \in ReviewId |-> 0]
  /\ moved = {} /\ overwrote = {}

-----------------------------------------------------------------------------
(* Orders *)

Ship(p) ==
  /\ bought' = bought \cup {p} /\ ever' = ever \cup {p}
  /\ UNCHANGED <<calls, reviews, replied, moved, overwrote>>

\* A returned order counts no more.
Return(p) ==
  /\ p \in bought /\ bought' = bought \ {p}
  /\ UNCHANGED <<calls, ever, reviews, replied, moved, overwrote>>

-----------------------------------------------------------------------------
(* The customer *)

\* Mutant: whoever has an account counts as a buyer.
IsVerifiedAlways(p) == TRUE

IsVerifiedPurchase(p) == p \in bought

\* "You have already reviewed this product."
CheckReview(c, p) ==
  /\ ~Reviewed(p)
  /\ Begin(c, Job("review", Idle,
                  [state |-> "there", of |-> p, verified |-> IsVerifiedPurchase(p), reply |-> 0]))
  /\ UNCHANGED reviewVars

\* One review of a product by a customer: the constraint decides.
InsertReview(c, i) ==
  /\ Does(c, "review") /\ reviews[i] = Unused /\ ~Reviewed(calls[c].row.of)
  /\ reviews' = [reviews EXCEPT ![i] = calls[c].row]
  /\ End(c)
  /\ UNCHANGED <<bought, ever, replied, moved, overwrote>>

LoadReview(c, i) ==
  /\ There(i)
  /\ Begin(c, Job("edit", i, reviews[i]))
  /\ UNCHANGED reviewVars

\* Every column is written: those the form does not name as they were loaded.
Kept(row) == row

\* The product is among the fields that the form may change; the mark stays. A
\* row that was deleted meanwhile is there again: no row updated, one inserted.
SaveReview(c, p) ==
  LET i == calls[c].on  row == calls[c].row IN
  /\ Does(c, "edit")
  /\ \A j \in ReviewId \ {i} : There(j) => reviews[j].of # p
  /\ reviews' = [reviews EXCEPT ![i] = [Kept(row) EXCEPT !.of = p]]
  /\ moved' = IF p # row.of THEN moved \cup {i} ELSE moved
  /\ overwrote' = IF calls[c].old THEN overwrote \cup {i} ELSE overwrote
  /\ Saved(c, i, Idle)
  /\ UNCHANGED <<bought, ever, replied>>

DeleteReview(i) ==
  /\ There(i)
  /\ reviews' = [reviews EXCEPT ![i] = Deleted]
  /\ SavedAtOnce(i)
  /\ UNCHANGED <<bought, ever, replied, moved, overwrote>>

\* The unique constraint, a row that is gone, a lost process.
FailReview(c) == calls[c] # Idle /\ End(c) /\ UNCHANGED reviewVars

-----------------------------------------------------------------------------
(* The vendor *)

\* Only the reply's columns are written.
AddVendorReply(i) ==
  /\ There(i) /\ replied[i] < MaxReplies
  /\ reviews' = [reviews EXCEPT ![i].reply = replied[i] + 1]
  /\ replied' = [replied EXCEPT ![i] = @ + 1]
  /\ overwrote' = overwrote \ {i}
  /\ SavedAtOnce(i)
  /\ UNCHANGED <<bought, ever, moved>>

-----------------------------------------------------------------------------
ReviewsNext ==
  \/ \E p \in Goods : Ship(p) \/ Return(p) \/ \E c \in Call : CheckReview(c, p) \/ SaveReview(c, p)
  \/ \E i \in ReviewId :
       DeleteReview(i) \/ AddVendorReply(i) \/ \E c \in Call : InsertReview(c, i) \/ LoadReview(c, i)
  \/ \E c \in Call : FailReview(c)

-----------------------------------------------------------------------------
(* What holds *)

\* There is one review of a product; it shows the vendor's last reply, unless
\* the customer was changing it while the vendor replied; and it counts as a
\* verified purchase only of a product that was shipped to the customer, unless
\* it was written about another product.
ReviewsTrue ==
  \A i \in ReviewId : There(i) =>
    /\ \A j \in ReviewId \ {i} : There(j) => reviews[j].of # reviews[i].of
    /\ reviews[i].reply = replied[i] \/ i \in overwrote
    /\ reviews[i].verified => reviews[i].of \in ever \/ i \in moved

=============================================================================
