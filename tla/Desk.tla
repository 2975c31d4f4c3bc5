-------------------------------- MODULE Desk --------------------------------
(***************************************************************************)
(* Referrals, reviews, tickets, the audit trail, the stores of sellers,    *)
(* lists and conversations, and the assistant.  They share no state of the *)
(* program; here all but the assistant share the running requests, so each *)
(* behaviour is about one of them, chosen at its start.                    *)
(***************************************************************************)
EXTENDS Marketing, Reviews, Support, Audit

CONSTANTS
  Seller,                             \* as in Vendors
  Wish, Address, Conversation, Pk, NoRow, \* as in Entries
  Asker, Item, Brand, BrandOf, MaxProducts \* the assistant's requests and products

VARIABLES
  area,
  roles, stores, decided, crossed, broken, \* Vendors
  rows, answers, raced,                    \* Entries
  asking, documents, spoken, shown        \* Assistant: its requests, index, answers

V == INSTANCE Vendors
E == INSTANCE Entries WITH told <- answers
A == INSTANCE Assistant WITH
  Call <- Asker, Product <- Item, calls <- asking, index <- documents, answers <- spoken

\* A request that runs is not idle, and a key is a wish's, an address's or a
\* conversation's: they are rows of different tables.
ASSUME DeskAssumption ==
  /\ Idle \notin V!VendorJobs \cup E!EntryJobs
  /\ NoRow \notin E!EntryRow
  /\ Wish \cap Address = {} /\ Wish \cap Conversation = {} /\ Address \cap Conversation = {}
  /\ A!AssistantConstants

vendorVars == <<roles, stores, decided, crossed, broken>>
entryVars == <<rows, answers, raced>>
assistantVars == <<asking, documents, spoken, shown>>
deskVars ==
  <<calls, area, marketingVars, reviewVars, supportVars, auditVars, vendorVars, entryVars, assistantVars>>

DeskInit ==
  /\ calls = [c \in Call |-> Idle]
  /\ area \in {"marketing", "reviews", "support", "audit", "vendors", "entries", "assistant"}
  /\ MarketingInit /\ ReviewsInit /\ SupportInit /\ AuditInit /\ V!Init /\ E!EntriesInit
  /\ asking = [c \in Asker |-> Idle] /\ A!AssistantInit

DeskNext ==
  /\ UNCHANGED area
  /\ \/ /\ area = "marketing" /\ MarketingNext
        /\ UNCHANGED <<reviewVars, supportVars, auditVars, vendorVars, entryVars, assistantVars>>
     \/ /\ area = "reviews" /\ ReviewsNext
        /\ UNCHANGED <<marketingVars, supportVars, auditVars, vendorVars, entryVars, assistantVars>>
     \/ /\ area = "support" /\ SupportNext
        /\ UNCHANGED <<marketingVars, reviewVars, auditVars, vendorVars, entryVars, assistantVars>>
     \/ /\ area = "audit" /\ AuditNext
        /\ UNCHANGED <<marketingVars, reviewVars, supportVars, vendorVars, entryVars, assistantVars>>
     \/ /\ area = "vendors" /\ V!Next
        /\ UNCHANGED <<marketingVars, reviewVars, supportVars, auditVars, entryVars, assistantVars>>
     \/ /\ area = "entries" /\ E!EntriesNext
        /\ UNCHANGED <<marketingVars, reviewVars, supportVars, auditVars, vendorVars, assistantVars>>
     \/ /\ area = "assistant" /\ A!AssistantNext
        /\ UNCHANGED <<calls, marketingVars, reviewVars, supportVars, auditVars, vendorVars, entryVars>>

DeskSpec == DeskInit /\ [][DeskNext]_deskVars

\* A store has the status of the last decision about it, unless its owner was
\* changing it while the decision was made; and an account with a store is a
\* vendor's, unless its application was lost half way or runs still (Vendors).
StoresStand == V!DecisionsStand /\ V!StoreHasVendor

\* What is told of a list is so, and its entries are there once (Entries).
EntriesAsTold == E!EntriesAsTold

\* The products shown by the assistant are what its search found (Assistant).
ReplyGrounded == A!ReplyGrounded

\* The assistant says that a model wrote its answer only after a tool call
\* (Assistant).
GeneratedAfterSearch == A!GeneratedAfterSearch

=============================================================================
