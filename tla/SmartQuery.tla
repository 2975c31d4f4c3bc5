----------------------------- MODULE SmartQuery ------------------------------
(***************************************************************************)
(* The words of a product search (catalog.search): the first word that is  *)
(* an active brand's name becomes a filter, and so does the first other    *)
(* word that is an active category's; what is left is the text to look     *)
(* for, or all words if nothing is left.                                   *)
(***************************************************************************)
EXTENDS Integers, Sequences, SequencesExt, FiniteSets, FiniteSetsExt

CONSTANTS
  Word,       \* words
  BrandName,  \* words that are the name of an active brand
  CategoryName, \* words that are the name of an active category
  NoName,     \* no filter
  MaxWords    \* bound: words of a query

SmartQueryConstants ==
  /\ BrandName \subseteq Word /\ CategoryName \subseteq Word /\ NoName \notin Word
  /\ MaxWords \in Nat

VARIABLES
  query,   \* the words of the query
  chosen,  \* the filters that the caller gives
  found    \* what is searched: the text and the filters, or NoName

queryVars == <<query, chosen, found>>

Filters == [brand : Word \cup {NoName}, category : Word \cup {NoName}]

SmartQueryTypeOK ==
  /\ query \in Seq(Word) /\ Len(query) <= MaxWords
  /\ chosen \in Filters
  /\ found = NoName \/ found \in [text : Seq(Word), filters : Filters]

SmartQueryInit ==
  /\ query \in UNION {[1..n -> Word] : n \in 0..MaxWords}
  /\ chosen \in [brand : BrandName \cup {NoName}, category : CategoryName \cup {NoName}]
  /\ found = NoName

-----------------------------------------------------------------------------
Nothing == [text |-> <<>>, filters |-> [brand |-> NoName, category |-> NoName]]

TakeWord(seen, word) ==
  IF word \in BrandName /\ seen.filters.brand = NoName THEN [seen EXCEPT !.filters.brand = word]
  ELSE IF word \in CategoryName /\ seen.filters.category = NoName THEN [seen EXCEPT !.filters.category = word]
  ELSE [seen EXCEPT !.text = Append(@, word)]

parse_smart_query(words) == FoldLeft(TakeWord, Nothing, words)

Or(given, parsed) == IF given # NoName THEN given ELSE parsed

search_products ==
  LET parsed == parse_smart_query(query) IN
  /\ found = NoName
  /\ found' = [text |-> IF parsed.text = <<>> THEN query ELSE parsed.text,
               filters |-> [brand |-> Or(chosen.brand, parsed.filters.brand),
                            category |-> Or(chosen.category, parsed.filters.category)]]
  /\ UNCHANGED <<query, chosen>>

SmartQueryNext == search_products

-----------------------------------------------------------------------------
(* What holds *)

Earliest(places) == IF places = {} THEN 0 ELSE Min(places)
BrandAt == Earliest({i \in DOMAIN query : query[i] \in BrandName})
CategoryAt == Earliest({i \in DOMAIN query : query[i] \in CategoryName /\ i # BrandAt})
NameAt(i) == IF i = 0 THEN NoName ELSE query[i]

\* Each word of the query counts: it is one of the two filters, each the first
\* word of its kind, or it is looked for, in the order it was written; what the
\* caller asks for goes before the words; and no search looks for no words
\* unless it was given none.
EveryWordCounts ==
  found # NoName =>
    LET rest == {i \in DOMAIN query : i \notin {BrandAt, CategoryAt}} IN
    /\ found.filters = [brand |-> Or(chosen.brand, NameAt(BrandAt)),
                        category |-> Or(chosen.category, NameAt(CategoryAt))]
    /\ IF rest = {} THEN found.text = query
       ELSE found.text = [k \in 1..Cardinality(rest) |->
              query[CHOOSE i \in rest : Cardinality({j \in rest : j < i}) = k - 1]]

=============================================================================
