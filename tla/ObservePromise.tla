--------------------------- MODULE ObservePromise ---------------------------
(***************************************************************************)
(* What rgd observe promises, whatever runs at the same time: each         *)
(* provider it was asked for is collected once, and then the document      *)
(* shows what each of them found and suppresses the rules of each that did *)
(* not find everything.                                                    *)
(***************************************************************************)
CONSTANTS
  Providers,
  FactsOf    \* the facts each provider looks for, as a set

VARIABLES
  asked,     \* the providers of the command in progress
  gathered,  \* what those that are done have found
  shown      \* the document, once there is one

vars == <<asked, gathered, shown>>

Nothing == [known |-> FALSE]

\* Providers may find nothing at all, not even an empty set of facts.
Finding(p) == [nil : BOOLEAN, facts : SUBSET FactsOf[p]]

Init == asked = {} /\ gathered = <<>> /\ shown = Nothing

Ask ==
  /\ asked' \in SUBSET Providers
  /\ gathered' = <<>>
  /\ shown' = Nothing

Gather(p) ==
  /\ p \in asked \ DOMAIN gathered
  /\ \E f \in Finding(p) :
       gathered' = [q \in DOMAIN gathered \cup {p} |-> IF q = p THEN f ELSE gathered[q]]
  /\ UNCHANGED <<asked, shown>>

Publish ==
  /\ DOMAIN gathered = asked
  /\ shown' = [known      |-> TRUE,
               signals    |-> [p \in {q \in asked : ~ gathered[q].nil} |-> gathered[p].facts],
               suppressed |-> {p \in asked : gathered[p].facts # FactsOf[p]}]
  /\ UNCHANGED <<asked, gathered>>

Next == Ask \/ Publish \/ \E p \in asked : Gather(p)
Spec == Init /\ [][Next]_vars
=============================================================================
