------------------------------- MODULE Resolve -------------------------------
(***************************************************************************)
(* Selection among control rules (internal/resolve): the rules of one type *)
(* are evaluated in order, matches whose declared providers are degraded   *)
(* are suppressed, and a single best priority wins.  A rule's when-clause  *)
(* stands for its verdict under the current signals.                       *)
(***************************************************************************)
EXTENDS ClauseVerdicts, FiniteSets, SequencesExt

CONSTANTS
  Targets,     \* state, route and guard identifiers
  Providers,   \* observation providers a rule may depend on
  Clauses,     \* when-clauses
  Epsilon      \* priorityEpsilon: priorities this close are the same

ASSUME EpsilonAssumption == Epsilon \in Nat

RuleTypes == {"state", "route", "guard"}
NoTarget  == "no_target"

\* A rule as loaded; ids and priorities are numbers, so that they compare.
Rule == [type : RuleTypes, id : Nat, priority : Int, target : Targets \cup {NoTarget},
         depends : SUBSET Providers, when : Clauses]

\* Places of the loaded rules: those of a type, and those ResolveGuard passes on.
OfType(rules, type) == {i \in DOMAIN rules : rules[i].type = type}
ScopeGuardRules(rules, guardID) ==
  {i \in OfType(rules, "guard") : rules[i].target = guardID}

NearlyEqual(a, b) == a - b <= Epsilon /\ b - a <= Epsilon

\* Rules are evaluated in their order until one cannot be.
Failing(rules, among, verdict) == {i \in among : verdict[rules[i].when] = "error"}
Evaluated(rules, among, verdict) ==
  {i \in among : \A j \in Failing(rules, among, verdict) : i < j}

SuppressedBy(r, verdict, degraded) ==
  IF verdict[r.when] = "match" THEN r.depends \cap degraded ELSE {}

Active_Unsuppressed(rules, evals, verdict, degraded) ==
  {i \in evals : verdict[rules[i].when] = "match"}
Active(rules, evals, verdict, degraded) ==
  {i \in evals : /\ verdict[rules[i].when] = "match"
                 /\ SuppressedBy(rules[i], verdict, degraded) = {}}

\* In the order of evaluation, each entry at the place of its rule.
TraceOf(rules, evals, verdict, degraded) ==
  [i \in evals |->
     [rule         |-> rules[i].id,
      priority     |-> rules[i].priority,
      target       |-> rules[i].target,
      matched      |-> verdict[rules[i].when] = "match",
      suppressedBy |-> SuppressedBy(rules[i], verdict, degraded)]]

\* Routes are put in the order of their priority, then of their id.
InOrder(routes) ==
  SetToSortSeq(routes, LAMBDA a, b : \/ a.priority < b.priority
                                     \/ a.priority = b.priority /\ a.rule < b.rule)
RouteCandidates(rules, active, type) ==
  IF type # "route" THEN <<>>
  ELSE InOrder({[rule |-> rules[i].id, route |-> rules[i].target, priority |-> rules[i].priority] :
                  i \in {j \in active : rules[j].target # NoTarget}})

MinPriority_Max(rules, active) ==
  CHOOSE p \in {rules[i].priority : i \in active} : \A i \in active : p >= rules[i].priority
MinPriority(rules, active) ==
  CHOOSE p \in {rules[i].priority : i \in active} : \A i \in active : p <= rules[i].priority

\* An outcome that selects nothing.
Outcome(kind, routes) ==
  [kind |-> kind, target |-> NoTarget, rule |-> 0, priority |-> 0,
   candidates |-> {}, routes |-> routes]

Single(r, routes) ==
  IF r.target = NoTarget
    THEN Outcome("unsupported", routes)
    ELSE [Outcome("resolved", routes) EXCEPT
            !.target = r.target, !.rule = r.id, !.priority = r.priority]

AtBest(rules, active) ==
  {i \in active : NearlyEqual(rules[i].priority, MinPriority(rules, active))}

\* The rejected alternative of ADR-0004: the first declared rule wins a tie.
Select_FirstWins(rules, active, type) ==
  IF active = {} THEN Outcome("degraded", <<>>)
  ELSE Single(rules[CHOOSE i \in AtBest(rules, active) : \A j \in AtBest(rules, active) : i <= j],
              RouteCandidates(rules, active, type))

\* selectFromActive: a unique rule at the best priority wins, several are a
\* handoff that lists their ids, none is an incomplete observation.
Select(rules, active, type) ==
  LET atBest == AtBest(rules, active)
      routes == RouteCandidates(rules, active, type)
  IN  IF active = {} THEN Outcome("degraded", <<>>)
      ELSE IF \E i, j \in atBest : i # j
        THEN [Outcome("ambiguous", routes) EXCEPT
                !.priority = MinPriority(rules, active),
                !.candidates = {rules[i].id : i \in atBest}]
        ELSE Single(rules[CHOOSE i \in atBest : TRUE], routes)

ResolveAmong(rules, among, verdict, degraded, type) ==
  IF Failing(rules, among, verdict) # {} THEN Outcome("unsupported", <<>>)
  ELSE Select(rules, Active(rules, among, verdict, degraded), type)

Resolve(rules, verdict, degraded, type) ==
  ResolveAmong(rules, OfType(rules, type), verdict, degraded, type)

ResolveGuard(rules, verdict, degraded, guardID) ==
  ResolveAmong(rules, ScopeGuardRules(rules, guardID), verdict, degraded, "guard")

\* RuleTrace, for a resolution that asks for it.
RuleTrace(rules, verdict, degraded, type) ==
  TraceOf(rules, Evaluated(rules, OfType(rules, type), verdict), verdict, degraded)
=============================================================================
