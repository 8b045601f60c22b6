--------------------------- MODULE WorkflowProofs ---------------------------
(***************************************************************************)
(* The shipped rules over every sequence of observations, for every set of *)
(* bots and whatever they show: no gap and no tie, agreement with the      *)
(* merge-readiness guard, and the recovery of a bot before anything else.  *)
(***************************************************************************)
EXTENDS Workflow, ShippedRulesProofs

-----------------------------------------------------------------------------
(***************************************************************************)
(* The facet of reviews: an entry that counts as reviewed owes no answer.  *)
(***************************************************************************)
Sound(e) == e.awaiting => e.status \notin ReviewedTier
Shown    == UNION {[S -> {e \in Entry : Sound(e)}] : S \in SUBSET Bots}
Facets   == [known : {TRUE}, unresolved : BOOLEAN, changes : BOOLEAN, incomplete : BOOLEAN,
             truncated : BOOLEAN, comments_incomplete : BOOLEAN, entries : Shown]
FacetInv == reviews = Unobserved \/ reviews \in Facets

LEMMA QuietFacet ==
  ASSUME NEW entries \in Shown
  PROVE  Quiet(entries) \in Facets
BY DEF Quiet, Facets

LEMMA FacetStep == FacetInv /\ [Next]_vars => FacetInv'
<1> SUFFICES ASSUME FacetInv, [Next]_vars PROVE FacetInv'
  OBVIOUS
<1>0. reviews' = reviews => FacetInv'
  BY DEF FacetInv, Unobserved
<1>1. CASE Work \/ (\E c \in Commits : Push(c)) \/ Checks \/ UNCHANGED vars
  BY <1>0, <1>1 DEF Work, Push, Checks, vars
<1>2. CASE PrNotFound \/ ReviewsFail
  BY <1>2 DEF PrNotFound, ReviewsFail, FacetInv, Unobserved
<1>3. CASE PrFound
  <2>1. \A b \in Bots : NoEntry(b) \in Entry /\ Sound(NoEntry(b))
    BY DEF NoEntry, Entry, Sound, Statuses, ReviewedTier
  <2>2. [b \in Bots |-> NoEntry(b)] \in [Bots -> {e \in Entry : Sound(e)}]
    BY <2>1
  <2>3. [b \in Bots |-> NoEntry(b)] \in Shown
    BY <2>2 DEF Shown
  <2>4. reviews' \in Facets
    BY <1>3, <2>3, QuietFacet DEF PrFound
  <2> QED BY <2>4 DEF FacetInv
<1>4. CASE PrVanishes
  <2>1. <<>> \in [{} -> {e \in Entry : Sound(e)}]
    OBVIOUS
  <2>2. <<>> \in Shown
    BY <2>1 DEF Shown
  <2>3. reviews' \in Facets
    BY <1>4, <2>2, QuietFacet DEF PrVanishes
  <2> QED BY <2>3 DEF FacetInv
<1>5. ASSUME NEW aspect \in Aspects, Review(aspect)
      PROVE  FacetInv'
  <2>1. reviews \in Facets /\ reviews' = [reviews EXCEPT ![aspect] = ~ @]
    BY <1>5 DEF FacetInv, Review, Unobserved
  <2>2. reviews' \in Facets
    BY <2>1 DEF Facets, Aspects
  <2> QED BY <2>2 DEF FacetInv
<1>6. ASSUME NEW b \in Bots, NEW e \in Entries, BotShows(b, e)
      PROVE  FacetInv'
  <2>1. /\ reviews \in Facets /\ b \in DOMAIN reviews.entries
        /\ reviews' = [reviews EXCEPT !.entries = [reviews.entries EXCEPT ![b] = e]]
    BY <1>6 DEF FacetInv, BotShows, Unobserved
  <2>2. PICK S \in SUBSET Bots : reviews.entries \in [S -> {x \in Entry : Sound(x)}]
    BY <2>1 DEF Facets, Shown
  <2>3. e \in {x \in Entry : Sound(x)}
    BY EntriesAssumption DEF Sound
  <2>4. [reviews.entries EXCEPT ![b] = e] \in [S -> {x \in Entry : Sound(x)}]
    BY <2>2, <2>3
  <2>5. [reviews.entries EXCEPT ![b] = e] \in Shown
    BY <2>4 DEF Shown
  <2>6. reviews' \in Facets
    BY <2>1, <2>5 DEF Facets
  <2> QED BY <2>6 DEF FacetInv
<1> QED BY <1>1, <1>2, <1>3, <1>4, <1>5, <1>6 DEF Next

\* Whatever is asked, found or lost, the facet is there as a whole or not at all,
\* and no bot in it counts as reviewed while it owes an answer.
THEOREM SpecFacet == Spec => []FacetInv
<1>1. Init => FacetInv
  BY DEF Init, FacetInv
<1> QED BY <1>1, FacetStep, PTL DEF Spec

\* When the required bots are done, none of them owes an answer.
LEMMA DoneMeansAnswered ==
  ASSUME FacetInv, reviews.known, DiagOf(Observation).terminal,
         ~ DiagOf(Observation).failed
  PROVE  ~ DiagOf(Observation).awaiting
<1> DEFINE entries  == reviews.entries
           required == {b \in DOMAIN entries : entries[b].required}
           reviewed == {b \in required : entries[b].status \in ReviewedTier}
<1>1. reviewed = required
  BY DEF DiagOf, Diagnostics, Observation
<1>2. entries \in Shown
  <2>1. reviews # Unobserved
    BY DEF Unobserved
  <2>2. reviews \in Facets
    BY <2>1 DEF FacetInv
  <2> QED BY <2>2 DEF Facets
<1>3. \A b \in DOMAIN entries : Sound(entries[b])
  BY <1>2 DEF Shown
<1>4. DiagOf(Observation).awaiting <=> \E b \in required : entries[b].awaiting
  BY DEF DiagOf, Diagnostics, Observation
<1> QED BY <1>1, <1>3, <1>4 DEF Sound

LEMMA GuardState == FacetInv => StateMatchesGuard
<1> SUFFICES ASSUME FacetInv, pr = "yes", ~ git.detached
             PROVE  ContextBuild(Observation).state.target = "merge_ready"
                      <=> ContextBuild(Observation).guard
  BY DEF StateMatchesGuard
<1> DEFINE o == Observation
<1>1. PrExists(o) /\ ~ o.git.detached /\ (o.reviews.known <=> reviews.known)
  BY DEF PrExists, Observation
<1>2. o.reviews.known /\ DiagOf(o).terminal /\ ~ DiagOf(o).failed => ~ DiagOf(o).awaiting
  BY <1>1, DoneMeansAnswered
<1> HIDE DEF o
<1>3. ContextBuild(o).state.target = "merge_ready" <=> ContextBuild(o).guard
  BY <1>1, <1>2, GuardAgrees
<1> QED BY <1>3 DEF o

LEMMA PositionState == EveryPositionIsMapped
BY Mapped DEF EveryPositionIsMapped, Observation, PrExists

LEMMA TroubleState == BotTroubleFirst
BY TroubleFirst DEF BotTroubleFirst, InTrouble, Observation, PrExists

LEMMA OpenWorkState == OpenWorkIsAddressed
<1> SUFFICES ASSUME pr = "yes", reviews.known, BotsDoNotWait(Observation, DiagOf(Observation)),
                    reviews.unresolved \/ reviews.changes
             PROVE  ContextBuild(Observation).route.target = "user-address-review"
  BY DEF OpenWorkIsAddressed
<1> DEFINE o == Observation
<1>1. PrExists(o) /\ o.reviews.known /\ (o.reviews.unresolved \/ o.reviews.changes)
  BY DEF PrExists, Observation
<1> HIDE DEF o
<1>2. BotsDoNotWait(o, DiagOf(o))
  BY DEF o
<1>3. ContextBuild(o).route.target = "user-address-review"
  BY <1>1, <1>2, OpenWork
<1> QED BY <1>3 DEF o

-----------------------------------------------------------------------------
\* control/states/workflow.yaml and guard/merge.go: on a branch with a pull
\* request, merge_ready and the merge-readiness guard are the same, for every set
\* of bots and everything they may show.
THEOREM SpecStateMatchesGuard == Spec => []StateMatchesGuard
BY SpecFacet, GuardState, PTL

\* The shipped states, routes and procedures leave no gap and no tie, whatever is
\* observed.
THEOREM SpecEveryPositionIsMapped == Spec => []EveryPositionIsMapped
BY PositionState, PTL

\* The wait-bot states come before all others that a pull request may be in: the
\* agent recovers a bot exactly while a required one is in trouble.
THEOREM SpecBotTroubleFirst == Spec => []BotTroubleFirst
BY TroubleState, PTL

\* Without such trouble, an open thread or a requested change is addressed first.
THEOREM SpecOpenWorkIsAddressed == Spec => []OpenWorkIsAddressed
BY OpenWorkState, PTL
=============================================================================
