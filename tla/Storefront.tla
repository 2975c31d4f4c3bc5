----------------------------- MODULE Storefront -----------------------------
(***************************************************************************)
(* The product pages of a visitor (storefront.views): each shows a strip   *)
(* of the products seen before and puts its own product first in the list  *)
(* kept in the visitor's session.                                          *)
(*                                                                         *)
(* A page loads the session when it first needs it, works on that copy,    *)
(* and the framework saves all of it with the response.  A visitor opens   *)
(* pages in several tabs; they are requests of one session.                *)
(***************************************************************************)
EXTENDS Requests, Integers, Sequences, SequencesExt, FiniteSets, FiniteSetsExt

CONSTANTS
  Shown,    \* products
  MaxSeen,  \* RECENTLY_VIEWED_LIMIT
  MaxPages  \* bound: product pages opened

StorefrontConstants == MaxSeen \in Nat \ {0} /\ MaxPages \in Nat

VARIABLES
  seen,     \* the session's list of products, the newest first
  visited,  \* history: the products of the pages answered, the newest first
  onSale,   \* the published products
  strip,    \* the strip just read: its page's product, the list, and what was published; or Idle
  raced     \* history: did a page load the session while another had it?

storefrontVars == <<seen, visited, onSale, strip, raced>>

StorefrontTypeOK ==
  /\ seen \in Seq(Shown) /\ visited \in Seq(Shown)
  /\ onSale \subseteq Shown
  /\ raced \in BOOLEAN

StorefrontInit ==
  /\ seen = <<>> /\ visited = <<>>
  /\ onSale = Shown
  /\ strip = Idle
  /\ raced = FALSE

TogglePage(p) ==
  /\ onSale' = IF p \in onSale THEN onSale \ {p} ELSE onSale \cup {p}
  /\ strip' = Idle
  /\ UNCHANGED <<calls, seen, visited, raced>>

\* Only the page of a published product is found.
OpenPage(c, p) ==
  /\ p \in onSale
  /\ Len(visited) + Cardinality({d \in Call : calls[d] # Idle}) < MaxPages
  /\ Begin(c, Job("session", p, <<>>))
  /\ strip' = Idle
  /\ UNCHANGED <<seen, visited, onSale, raced>>

LoadSession(c) ==
  /\ Does(c, "session")
  /\ Goes(c, [calls[c] EXCEPT !.do = "strip", !.row = seen])
  /\ raced' = (raced \/ \E d \in Call : Does(d, "strip") \/ Does(d, "respond"))
  /\ strip' = Idle
  /\ UNCHANGED <<seen, visited, onSale>>

\* What of a list is in the set.
Kept(list, set) == FoldLeft(LAMBDA kept, p : IF p \in set THEN Append(kept, p) ELSE kept, <<>>, list)

\* _recently_viewed_products: the published ones, as they are in the list.
ReadStrip(c) ==
  /\ Does(c, "strip")
  /\ strip' = [of |-> calls[c].on, published |-> onSale,
               list |-> Kept(calls[c].row, onSale \ {calls[c].on})]
  /\ Goes(c, [calls[c] EXCEPT !.do = "respond"])
  /\ UNCHANGED <<seen, visited, onSale, raced>>

\* _record_recently_viewed
Recorded(list, p) ==
  LET all == <<p>> \o Kept(list, Shown \ {p}) IN
  SubSeq(all, 1, Min({Len(all), MaxSeen}))

Answer(c) ==
  /\ Does(c, "respond")
  /\ seen' = Recorded(calls[c].row, calls[c].on)
  /\ visited' = <<calls[c].on>> \o visited
  /\ strip' = Idle /\ End(c)
  /\ UNCHANGED <<onSale, raced>>

\* The page fails: the session is not saved.
LeavePage(c) ==
  /\ Does(c, "respond")
  /\ strip' = Idle /\ End(c)
  /\ UNCHANGED <<seen, visited, onSale, raced>>

StorefrontNext ==
  \/ \E p \in Shown : TogglePage(p)
  \/ \E c \in Call :
       \/ \E p \in Shown : OpenPage(c, p)
       \/ LoadSession(c) \/ ReadStrip(c) \/ Answer(c) \/ LeavePage(c)

-----------------------------------------------------------------------------
(* What holds *)

FirstOf(p) == CHOOSE i \in DOMAIN visited : visited[i] = p /\ \A j \in 1..(i - 1) : visited[j] # p

\* The session lists products that were seen, each once, no more than the
\* limit, and the last page's product first.  Pages opened at the same time may
\* lose each other's products; without such pages the list is the last
\* products seen, in the order of their last visits.
SeenInOrder ==
  /\ IsInjective(seen) /\ Len(seen) <= MaxSeen /\ ToSet(seen) \subseteq ToSet(visited)
  /\ visited # <<>> => seen[1] = visited[1]
  /\ ~raced =>
       /\ Len(seen) = Min({Cardinality(ToSet(visited)), MaxSeen})
       /\ \A p \in ToSet(seen), q \in ToSet(visited) :
            FirstOf(q) < FirstOf(p) => \E i, j \in DOMAIN seen : i < j /\ seen[i] = q /\ seen[j] = p

\* No strip shows its page's own product, one that was not published when it
\* was read, or one twice.
StripTrue ==
  strip # Idle =>
    /\ IsInjective(strip.list)
    /\ ToSet(strip.list) \subseteq strip.published \ {strip.of}

=============================================================================
