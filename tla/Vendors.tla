------------------------------ MODULE Vendors -------------------------------
(***************************************************************************)
(* Accounts that become sellers, and the review of their stores:           *)
(* vendors.services and its views.                                         *)
(*                                                                         *)
(* Each save commits by itself (Requests), so the owner's changes and the  *)
(* staff's decisions may cross on one row.                                 *)
(***************************************************************************)
EXTENDS Requests

CONSTANT Seller   \* accounts, each of which may come to own one store

VARIABLES
  roles,    \* roles[s]: User.role, "none" before the account exists
  stores,   \* stores[s]: Store.status, "none" before the store exists
  decided,  \* history: decided[s]: the status the last decision gave the store
  crossed,  \* history: stores written back from a row loaded before a decision
  broken    \* history: accounts whose application was lost half way

vars == <<roles, stores, calls, decided, crossed, broken>>

Role == {"none", "customer", "vendor"}
StoreStatus == {"none", "pending", "approved", "rejected"}

VendorJobs ==
  [do : {"open", "openAndPromote", "promote", "resubmit", "saveStore"},
   on : Seller, row : [status : StoreStatus], old : BOOLEAN]

TypeOK ==
  /\ roles \in [Seller -> Role]
  /\ stores \in [Seller -> StoreStatus]
  /\ calls \in [Call -> VendorJobs \cup {Idle}]
  /\ decided \in [Seller -> StoreStatus]
  /\ crossed \subseteq Seller
  /\ broken \subseteq Seller

Init ==
  /\ roles = [s \in Seller |-> "none"]
  /\ stores = [s \in Seller |-> "none"]
  /\ calls = [c \in Call |-> Idle]
  /\ decided = [s \in Seller |-> "none"]
  /\ crossed = {}
  /\ broken = {}

-----------------------------------------------------------------------------
Decide(s, status) ==
  /\ stores' = [stores EXCEPT ![s] = status]
  /\ decided' = [decided EXCEPT ![s] = status]
  /\ crossed' = crossed \ {s}

-----------------------------------------------------------------------------
(* Becoming a seller *)

SignUp(s) ==
  /\ roles[s] = "none"
  /\ roles' = [roles EXCEPT ![s] = "customer"]
  /\ UNCHANGED <<stores, calls, decided, crossed, broken>>

\* The account is saved first, already a vendor's; its store comes after.
RegisterVendor(c, s) ==
  /\ roles[s] = "none"
  /\ roles' = [roles EXCEPT ![s] = "vendor"]
  /\ Begin(c, Job("open", s, [status |-> "none"]))
  /\ UNCHANGED <<stores, decided, crossed, broken>>

\* "You already have a store."
ApplyAsSeller(c, s) ==
  /\ roles[s] # "none" /\ stores[s] = "none"
  /\ Begin(c, Job("openAndPromote", s, [status |-> "none"]))
  /\ UNCHANGED <<roles, stores, decided, crossed, broken>>

\* One store an owner: a second application fails on the unique constraint.
OpenStore(c) ==
  LET job == calls[c] IN
  /\ Does(c, "open") \/ Does(c, "openAndPromote")
  /\ stores[job.on] = "none"
  /\ Decide(job.on, "pending")
  /\ Saved(c, job.on, IF job.do = "open" THEN Idle ELSE [job EXCEPT !.do = "promote"])
  /\ UNCHANGED <<roles, broken>>

RefuseSecondStore(c) ==
  /\ Does(c, "open") \/ Does(c, "openAndPromote")
  /\ stores[calls[c].on] # "none"
  /\ End(c)
  /\ UNCHANGED <<roles, stores, decided, crossed, broken>>

Promote(c) ==
  /\ Does(c, "promote")
  /\ roles' = [roles EXCEPT ![calls[c].on] = "vendor"]
  /\ End(c)
  /\ UNCHANGED <<stores, decided, crossed, broken>>

-----------------------------------------------------------------------------
(* The store's review and its owner's changes *)

\* Whatever its status: the page lists pending stores, the views do not ask.
ApproveStore(s) ==
  /\ stores[s] # "none"
  /\ Decide(s, "approved")
  /\ SavedAtOnce(s)
  /\ UNCHANGED <<roles, broken>>

RejectStore(s) ==
  /\ stores[s] # "none"
  /\ Decide(s, "rejected")
  /\ SavedAtOnce(s)
  /\ UNCHANGED <<roles, broken>>

LoadToResubmit(c, s) ==
  /\ roles[s] = "vendor" /\ stores[s] = "rejected"
  /\ Begin(c, Job("resubmit", s, [status |-> stores[s]]))
  /\ UNCHANGED <<roles, stores, decided, crossed, broken>>

\* Only rejected stores, by the row loaded: an approval since is undone.
ResubmitStore(c) ==
  /\ Does(c, "resubmit")
  /\ Decide(calls[c].on, "pending")
  /\ Saved(c, calls[c].on, Idle)
  /\ UNCHANGED <<roles, broken>>

LoadToEditStore(c, s) ==
  /\ roles[s] = "vendor" /\ stores[s] # "none"
  /\ Begin(c, Job("saveStore", s, [status |-> stores[s]]))
  /\ UNCHANGED <<roles, stores, decided, crossed, broken>>

\* Mutant: the status is one of the fields the owner's form may set.
WrittenBackAsAsked(job) == "approved"

\* The owner's PATCH writes every column, the status as it was loaded.
WrittenBack(job) == job.row.status

SaveStore(c) ==
  LET job == calls[c] IN
  /\ Does(c, "saveStore")
  /\ stores' = [stores EXCEPT ![job.on] = WrittenBack(job)]
  /\ crossed' = IF job.old THEN crossed \cup {job.on} ELSE crossed
  /\ Saved(c, job.on, Idle)
  /\ UNCHANGED <<roles, decided, broken>>

LoseCall(c) ==
  LET job == calls[c] IN
  /\ calls[c] # Idle
  /\ broken' = IF job.do = "promote" THEN broken \cup {job.on} ELSE broken
  /\ End(c)
  /\ UNCHANGED <<roles, stores, decided, crossed>>

-----------------------------------------------------------------------------
BeginCall(c) == \E s \in Seller :
  \/ RegisterVendor(c, s) \/ ApplyAsSeller(c, s)
  \/ LoadToResubmit(c, s) \/ LoadToEditStore(c, s)

Step(c) ==
  OpenStore(c) \/ RefuseSecondStore(c) \/ Promote(c) \/ ResubmitStore(c)
    \/ SaveStore(c) \/ LoseCall(c)

Next ==
  \/ \E s \in Seller : SignUp(s) \/ ApproveStore(s) \/ RejectStore(s)
  \/ \E c \in Call : BeginCall(c) \/ Step(c)

Spec == Init /\ [][Next]_vars

-----------------------------------------------------------------------------
(* What holds *)

\* A store has the status of the last decision about it, whether its owner's
\* application or the staff's review, unless its owner was changing the store
\* while the decision was made: the change writes the earlier status back.
DecisionsStand == \A s \in Seller : stores[s] = decided[s] \/ s \in crossed

\* An account with a store has the vendor role that the seller's pages ask
\* for, unless its application was lost between the two saves or runs still.
StoreHasVendor ==
  \A s \in Seller : stores[s] # "none" /\ roles[s] # "vendor" =>
    s \in broken \/ \E c \in Call : Does(c, "promote") /\ calls[c].on = s

=============================================================================
