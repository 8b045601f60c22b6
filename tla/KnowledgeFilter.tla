--------------------------- MODULE KnowledgeFilter ---------------------------
(***************************************************************************)
(* Which knowledge entries an agent is handed (internal/knowledge): those  *)
(* whose when-clause matches the observed signals, and those one of whose  *)
(* triggers contains the words of a query.  An entry is its id, its clause *)
(* and whether the query hits it; a clause stands for its verdict.         *)
(***************************************************************************)
EXTENDS Integers, Sequences, FiniteSets

\* What is left of a list: its elements at some of its places, in their order.
Chosen(s, places) ==
  [n \in 1 .. Cardinality(places) |->
     s[CHOOSE i \in places : Cardinality({j \in places : j <= i}) = n]]

FilterByQuery(entries, query) ==
  IF query THEN Chosen(entries, {i \in DOMAIN entries : entries[i].hit}) ELSE entries

KeptBySignals_UnlessBroken(e, verdict) ==
  e.when \in DOMAIN verdict => verdict[e.when] = "match"
\* An entry without a clause has no verdict and is always handed out; so is one
\* whose clause cannot be evaluated.
KeptBySignals(e, verdict) ==
  e.when \in DOMAIN verdict => verdict[e.when] # "no_match"
FilterBySignals(entries, verdict) ==
  Chosen(entries, {i \in DOMAIN entries : KeptBySignals(entries[i], verdict)})

\* The entries whose signals match come first; no id comes twice.
UnionByEntryId(a, b) ==
  LET both == a \o b
  IN  Chosen(both, {i \in DOMAIN both : \A j \in 1 .. i - 1 : both[j].id # both[i].id})

FilterUnion(entries, verdict, useSignals, query) ==
  CASE ~ useSignals          -> FilterByQuery(entries, query)
    [] useSignals /\ ~ query -> FilterBySignals(entries, verdict)
    [] useSignals /\ query   -> UnionByEntryId(FilterBySignals(entries, verdict),
                                               FilterByQuery(entries, query))
=============================================================================
