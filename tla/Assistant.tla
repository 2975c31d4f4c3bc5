------------------------------ MODULE Assistant ------------------------------
(***************************************************************************)
(* The shopping assistant (assistant.services): a question goes to the     *)
(* language model, which should call the search tool; the search runs on   *)
(* the index of products; and the model, given what was found, writes the  *)
(* reply that is shown above the products.                                 *)
(*                                                                         *)
(* The model answers anything: a call of the tool with arguments that may  *)
(* make no sense, the call written out as text, text that only looks like  *)
(* one, prose, or nothing at all.  The index changes between the steps.    *)
(***************************************************************************)
EXTENDS Requests, Integers, FiniteSets

CONSTANTS
  Product,      \* indexed products
  Brand,        \* brands
  BrandOf,      \* BrandOf[p]: the brand of a product
  MaxProducts   \* MAX_PRODUCTS_RETURNED

AssistantConstants == BrandOf \in [Product -> Brand] /\ MaxProducts \in Nat

VARIABLES
  index,    \* index[p]: the document of a product: is it published, and dear?
  answers,  \* answers[c]: the last answer given to the customer of c, or Idle
  shown     \* history: shown[c]: products published at some time since c asked

assistantVars == <<index, answers, shown>>

Any == Idle
Document == [published : BOOLEAN, dear : BOOLEAN]

\* What the tool is called with; the words of a query matter as far as they
\* name a brand.  cheap: is there a max_price?
Args == [named : Brand \cup {Any}, brand : Brand \cup {Any}, cheap : BOOLEAN]
Text == {"intro", "call", "garbled", "empty", "counted", "none", "sorry", "ask"}
Answer == [text : Text, products : SUBSET Product, args : Args, called : BOOLEAN, ai : BOOLEAN]

PlainSearch(named) == [named |-> named, brand |-> Any, cheap |-> FALSE]

\* row: the arguments of the search; then: where its products go.
AssistantJobs ==
  [do : {"first"}, on : Brand \cup {Any}, row : {Idle}, old : BOOLEAN]
    \cup [do : {"search"}, on : Brand \cup {Any}, old : BOOLEAN,
          row : [args : Args, then : {"second", "sorry", "intro", "garbled"}]]
    \cup [do : {"second"}, on : Brand \cup {Any}, old : BOOLEAN,
          row : [args : Args, products : SUBSET Product]]

AssistantTypeOK ==
  /\ index \in [Product -> Document]
  /\ \A c \in Call : answers[c] # Idle => answers[c] \in Answer
  /\ shown \in [Call -> SUBSET Product]
  /\ \A c \in Call : calls[c] # Idle => calls[c] \in AssistantJobs

AssistantInit ==
  /\ index = [p \in Product |-> [published |-> FALSE, dear |-> FALSE]]
  /\ answers = [c \in Call |-> Idle]
  /\ shown = [c \in Call |-> {}]

Published == {p \in Product : index[p].published}

-----------------------------------------------------------------------------
(* The question *)

Answered(c, answer) == answers' = [answers EXCEPT ![c] = answer]

Ask(c, named) ==
  /\ Begin(c, Job("first", named, Idle))
  /\ answers' = [answers EXCEPT ![c] = Idle]
  /\ shown' = [shown EXCEPT ![c] = Published]
  /\ UNCHANGED index

AskNothing(c) ==
  /\ calls[c] = Idle
  /\ Answered(c, [text |-> "ask", products |-> {}, args |-> PlainSearch(Any), called |-> FALSE, ai |-> FALSE])
  /\ shown' = [shown EXCEPT ![c] = {}]
  /\ UNCHANGED <<calls, index>>

SearchNext(c, args, then) ==
  /\ Goes(c, [calls[c] EXCEPT !.do = "search", !.row = [args |-> args, then |-> then]])
  /\ UNCHANGED assistantVars

-----------------------------------------------------------------------------
(* The first answer of the model *)

\* _sanitize_tool_args keeps what makes sense; without a query of its own the
\* customer's is taken.
Sanitized(raw, asked) == [raw EXCEPT !.named = IF @ = Any THEN asked ELSE @]

\* A tool call, or one found in the text.
CallTool(c) ==
  /\ Does(c, "first")
  /\ \E raw \in Args : SearchNext(c, Sanitized(raw, calls[c].on), "second")

\* No call: the text is shown, whatever it is, above what the customer's own
\* words find.
AnswerInProse(c) ==
  /\ Does(c, "first")
  /\ \E text \in {"intro", "garbled"} : SearchNext(c, PlainSearch(calls[c].on), text)

FallBack(c) ==
  /\ Does(c, "first")
  /\ SearchNext(c, PlainSearch(calls[c].on), "sorry")

-----------------------------------------------------------------------------
(* The search *)

\* A brand asked for goes before a brand named in the words.
EffectiveBrand(args) == IF args.brand # Any THEN args.brand ELSE args.named

Matches(p, args) ==
  /\ index[p].published
  /\ EffectiveBrand(args) \in {Any, BrandOf[p]}
  /\ args.cheap => ~index[p].dear

\* The words decide which of the matching documents are found.
Search(c) ==
  LET args == calls[c].row.args  then == calls[c].row.then IN
  /\ Does(c, "search")
  /\ \E products \in SUBSET {p \in Product : Matches(p, args)} :
       /\ Cardinality(products) <= MaxProducts
       /\ IF then = "second"
          THEN /\ Goes(c, [calls[c] EXCEPT !.do = "second", !.row = [args |-> args, products |-> products]])
               /\ UNCHANGED answers
          ELSE /\ Answered(c, [text |-> then, products |-> products, args |-> args,
                               called |-> FALSE, ai |-> then # "sorry"])
               /\ End(c)
  /\ UNCHANGED <<index, shown>>

\* The index is out of reach: the request fails.
FailSearch(c) ==
  /\ Does(c, "search")
  /\ End(c)
  /\ UNCHANGED assistantVars

-----------------------------------------------------------------------------
(* The second answer of the model *)

\* Mutant: the text is shown if there is one.
ReplyUnguarded(text, products) ==
  IF text # "empty" THEN text ELSE IF products = {} THEN "none" ELSE "counted"

\* A call written as text, or no text, gives way to a sentence of ours.
Reply(text, products) ==
  IF text \notin {"call", "empty"} THEN text ELSE IF products = {} THEN "none" ELSE "counted"

\* No answer of the model is an empty one.
FinishReply(c) ==
  LET row == calls[c].row IN
  /\ Does(c, "second")
  /\ \E text \in {"intro", "call", "garbled", "empty"} :
       Answered(c, [text |-> Reply(text, row.products), products |-> row.products, args |-> row.args,
                    called |-> TRUE, ai |-> TRUE])
  /\ End(c)
  /\ UNCHANGED <<index, shown>>

-----------------------------------------------------------------------------
(* The index *)

ChangeIndex(p) ==
  /\ \E doc \in Document : doc # index[p] /\ index' = [index EXCEPT ![p] = doc]
  /\ shown' = [c \in Call |-> IF calls[c] # Idle /\ index'[p].published THEN shown[c] \cup {p} ELSE shown[c]]
  /\ UNCHANGED <<calls, answers>>

AssistantNext ==
  \/ \E c \in Call :
       \/ AskNothing(c) \/ CallTool(c) \/ AnswerInProse(c) \/ FallBack(c)
       \/ Search(c) \/ FailSearch(c) \/ FinishReply(c)
       \/ \E named \in Brand \cup {Any} : Ask(c, named)
  \/ \E p \in Product : ChangeIndex(p)

-----------------------------------------------------------------------------
(* What holds *)

\* Whatever the model says, every product shown was published while the
\* question was being answered and is of the brand that the search went by;
\* and a tool call that is recognised as one is never shown as the reply, nor
\* a sentence that contradicts the products below it.
ReplyGrounded ==
  \A c \in Call : answers[c] # Idle =>
    LET answer == answers[c] IN
    /\ answer.products \subseteq shown[c] /\ Cardinality(answer.products) <= MaxProducts
    /\ \A p \in answer.products : EffectiveBrand(answer.args) \in {Any, BrandOf[p]}
    /\ answer.text # "call"
    /\ answer.text \in {"none", "ask"} => answer.products = {}
    /\ answer.text = "counted" => answer.products # {}

\* "ai_generated is False whenever the reply is a plain search result rather
\* than an LLM-authored summary (Ollama unreachable, or it never called the
\* tool)" (assistant/services.py:253-255).
GeneratedAfterSearch == \A c \in Call : answers[c] # Idle => (answers[c].ai <=> answers[c].called)

=============================================================================
