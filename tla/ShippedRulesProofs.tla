------------------------- MODULE ShippedRulesProofs -------------------------
(***************************************************************************)
(* What the shipped rules make of any observation: the first clause of the *)
(* state table that holds decides, since priorities rise along each table, *)
(* and leads to one route and one procedure; merge_ready is what the       *)
(* merge-readiness guard says.                                             *)
(***************************************************************************)
EXTENDS ShippedRules, FiniteSetTheorems, WellFoundedInduction, TLAPS

-----------------------------------------------------------------------------
(***************************************************************************)
(* The first match of a table with rising priorities.                      *)
(***************************************************************************)
LEMMA LeastPlace ==
  ASSUME NEW S \in SUBSET Nat, S # {}
  PROVE  \E m \in S : \A x \in S : m <= x
<1> DEFINE R0 == {p \in Nat \X Nat : p[1] < p[2]}
<1>1. IsWellFoundedOn(R0, Nat)
  BY NatLessThanWellFounded DEF OpToRel
<1>2. PICK m \in S : \A y \in S : <<y, m>> \notin R0
  <2> HIDE DEF R0
  <2> QED BY <1>1, WFMin
<1>3. \A x \in S : m <= x
  <2> TAKE x \in S
  <2>1. x \in Nat /\ m \in Nat /\ <<x, m>> \notin R0
    BY <1>2
  <2> QED BY <2>1
<1> QED BY <1>3

\* A table without ties, whose rules have a target.
Rising(type, table, n) ==
  /\ n \in Nat /\ DOMAIN table = 1 .. n
  /\ \A i \in 1 .. n : RulesOf(type, table)[i].priority \in Int
  /\ \A i \in 1 .. n : RulesOf(type, table)[i].target # R!NoTarget
  /\ \A i, j \in 1 .. n :
       i < j => RulesOf(type, table)[i].priority < RulesOf(type, table)[j].priority

\* The first rule of a table that matches.
First(i, n, says) ==
  /\ i \in 1 .. n /\ says[i] = "match"
  /\ \A j \in 1 .. n : j < i => says[j] # "match"

LEMMA FirstWins ==
  ASSUME NEW type, NEW table, NEW n, Rising(type, table, n),
         NEW says, \A i \in 1 .. n : says[i] # "error",
         NEW first, First(first, n, says)
  PROVE  LET res == R!Resolve(RulesOf(type, table), says, {}, type)
         IN  res.kind = "resolved" /\ res.target = RulesOf(type, table)[first].target
<1> DEFINE rules  == RulesOf(type, table)
           active == {i \in 1 .. n : says[i] = "match"}
           res    == R!Resolve(rules, says, {}, type)
           routes == R!RouteCandidates(rules, active, type)
<1>1. /\ DOMAIN rules = 1 .. n
      /\ \A i \in 1 .. n : rules[i].type = type /\ rules[i].when = i
  BY DEF Rising, RulesOf
<1>2. /\ \A i \in 1 .. n : rules[i].priority \in Int /\ rules[i].target # R!NoTarget
      /\ \A i, j \in 1 .. n : i < j => rules[i].priority < rules[j].priority
      /\ n \in Nat
  BY DEF Rising
<1>3. /\ first \in active
      /\ \A i \in active : i \in 1 .. n /\ (i = first \/ first < i)
  BY <1>2 DEF First
<1> HIDE DEF rules
<1>4. R!OfType(rules, type) = 1 .. n
  BY <1>1 DEF R!OfType
<1>5. R!Failing(rules, 1 .. n, says) = {}
  BY <1>1 DEF R!Failing
<1>6. R!Active(rules, 1 .. n, says, {}) = active
  BY <1>1 DEF R!Active, R!SuppressedBy
<1>7. res = R!Select(rules, active, type)
  BY <1>4, <1>5, <1>6 DEF R!Resolve, R!ResolveAmong
<1>8. \A i \in active : rules[first].priority <= rules[i].priority
  BY <1>2, <1>3
<1> HIDE DEF active
<1>9. R!MinPriority(rules, active) = rules[first].priority
  <2> DEFINE p == R!MinPriority(rules, active)
  <2>1. rules[first].priority \in {rules[i].priority : i \in active}
    BY <1>3
  <2>2. p \in {rules[i].priority : i \in active} /\ \A i \in active : p <= rules[i].priority
    BY <1>8, <2>1 DEF R!MinPriority
  <2>3. PICK i \in active : p = rules[i].priority
    BY <2>2
  <2>4. p <= rules[first].priority /\ rules[first].priority <= p
    BY <1>3, <1>8, <2>2, <2>3
  <2> QED BY <1>2, <1>3, <2>3, <2>4
<1>10. R!AtBest(rules, active) = {first}
  <2>1. \A i \in active : i # first => ~ R!NearlyEqual(rules[i].priority, rules[first].priority)
    BY <1>2, <1>3 DEF R!NearlyEqual
  <2>2. R!NearlyEqual(rules[first].priority, rules[first].priority)
    BY <1>2, <1>3 DEF R!NearlyEqual
  <2> QED BY <1>3, <1>9, <2>1, <2>2 DEF R!AtBest
<1>11. R!Select(rules, active, type) = R!Single(rules[first], routes)
  BY <1>3, <1>10 DEF R!Select
<1> HIDE DEF routes
<1>12. R!Single(rules[first], routes) =
         [R!Outcome("resolved", routes) EXCEPT
            !.target = rules[first].target, !.rule = rules[first].id,
            !.priority = rules[first].priority]
  BY <1>2, <1>3 DEF R!Single
<1>13. /\ R!Single(rules[first], routes).kind = "resolved"
       /\ R!Single(rules[first], routes).target = rules[first].target
  BY <1>12 DEF R!Outcome
<1> QED BY <1>7, <1>11, <1>13 DEF rules

-----------------------------------------------------------------------------
(***************************************************************************)
(* The shipped tables.                                                     *)
(***************************************************************************)
\* The state and the route to which each of the state rules leads.
StateNames ==
  <<"unresolved_threads", "non_thread_findings_pending", "changes_requested",
    "waiting_bot_rate_limited", "waiting_bot_paused", "waiting_bot_failed",
    "waiting_bot_stale", "waiting_bot_run", "merge_ready", "waiting_ci",
    "pr_open", "ready_for_pr", "working_no_pr">>
RouteNames ==
  <<"user-address-review", "user-address-review", "user-address-review",
    "user-wait-bot-quota", "user-wait-bot-paused", "user-wait-bot-failed",
    "user-wait-bot-stale", "user-wait-bot-run", "user-merge", "user-wait-ci",
    "user-monitor-pr", "user-implement", "user-implement">>

\* The clause of the rule at place i holds, and none before it does.
Holds(o, i)   == StateTable(o, DiagOf(o))[i][4]
Decided(o, i) == i \in 1 .. 13 /\ Holds(o, i) /\ \A j \in 1 .. 13 : j < i => ~ Holds(o, j)

LEMMA StateRising ==
  ASSUME NEW o, NEW d
  PROVE  /\ Rising("state", StateTable(o, d), 13)
         /\ \A i \in 1 .. 13 : RulesOf("state", StateTable(o, d))[i].target = StateNames[i]
<1> DEFINE rules == RulesOf("state", StateTable(o, d))
<1>1. DOMAIN StateTable(o, d) = 1 .. 13
  BY DEF StateTable
<1>2. \A i \in 1 .. 13 : /\ rules[i].priority = StateTable(o, d)[i][2]
                         /\ rules[i].target = StateTable(o, d)[i][3]
  BY <1>1 DEF RulesOf
<1>3. \A i \in 1 .. 13 : StateTable(o, d)[i][3] = StateNames[i]
  BY DEF StateTable, StateNames
<1>4. \A i \in 1 .. 13 : StateNames[i] # R!NoTarget
  BY DEF StateNames, R!NoTarget
<1> DEFINE Priority(i) == CASE i = 10 -> 35 [] i = 11 -> 40 [] i = 12 -> 55 [] i = 13 -> 60
                            [] i = 9 -> 25  [] OTHER -> i + 7
<1>5. \A i \in 1 .. 13 : StateTable(o, d)[i][2] = Priority(i)
  BY DEF StateTable
<1> HIDE DEF rules
<1>6. /\ \A i \in 1 .. 13 : rules[i].priority \in Int
      /\ \A i, j \in 1 .. 13 : i < j => rules[i].priority < rules[j].priority
  <2>1. \A i \in 1 .. 13 : Priority(i) \in Int
    OBVIOUS
  <2>2. \A i, j \in 1 .. 13 : i < j => Priority(i) < Priority(j)
    OBVIOUS
  <2>3. \A i \in 1 .. 13 : rules[i].priority = Priority(i)
    <3> HIDE DEF Priority
    <3>1. QED  BY <1>2, <1>5
  <2> HIDE DEF Priority
  <2>4. QED  BY <2>1, <2>2, <2>3
<1>7. \A i \in 1 .. 13 : rules[i].target = StateNames[i]
  BY <1>2, <1>3
<1> QED BY <1>1, <1>4, <1>6, <1>7 DEF Rising, rules

LEMMA RouteRising ==
  /\ Rising("route", RouteTable, 11)
  /\ \A k \in 1 .. 11 : RulesOf("route", RouteTable)[k].target = RouteTable[k][1]
<1> DEFINE rules == RulesOf("route", RouteTable)
<1>1. DOMAIN RouteTable = 1 .. 11
  BY DEF RouteTable
<1>2. \A i \in 1 .. 11 : /\ rules[i].priority = RouteTable[i][2]
                         /\ rules[i].target = RouteTable[i][1]
  BY <1>1 DEF RulesOf
<1>3. \A i \in 1 .. 11 : RouteTable[i][1] # R!NoTarget /\ RouteTable[i][2] = 18 + i
  BY DEF RouteTable, R!NoTarget
<1> HIDE DEF rules
<1>4. \A i \in 1 .. 11 : rules[i].priority = 18 + i
  BY <1>2, <1>3
<1>5. /\ \A i \in 1 .. 11 : rules[i].priority \in Int
      /\ \A i, j \in 1 .. 11 : i < j => rules[i].priority < rules[j].priority
  <2>1. \A i \in 1 .. 11 : 18 + i \in Int
    OBVIOUS
  <2>2. \A i, j \in 1 .. 11 : i < j => 18 + i < 18 + j
    OBVIOUS
  <2> DEFINE Priority(i) == 18 + i
  <2>3. \A i \in 1 .. 11 : rules[i].priority = Priority(i)
    BY <1>4
  <2>4. /\ \A i \in 1 .. 11 : Priority(i) \in Int
        /\ \A i, j \in 1 .. 11 : i < j => Priority(i) < Priority(j)
    BY <2>1, <2>2
  <2> HIDE DEF Priority
  <2>5. QED  BY <2>3, <2>4
<1> QED BY <1>1, <1>2, <1>3, <1>5 DEF Rising, rules

\* What the first clause that holds resolves to.
LEMMA StateDecided ==
  ASSUME NEW o, NEW i, Decided(o, i)
  PROVE  StateResult(o).kind = "resolved" /\ StateResult(o).target = StateNames[i]
<1> DEFINE table == StateTable(o, DiagOf(o))
           says  == [j \in DOMAIN table |-> Verdict(table[j][4])]
<1>1. DOMAIN table = 1 .. 13
  BY DEF StateTable
<1>2. \A j \in 1 .. 13 : says[j] # "error" /\ (says[j] = "match" <=> Holds(o, j))
  BY <1>1 DEF Verdict, Holds
<1>3. StateResult(o) = R!Resolve(RulesOf("state", table), says, {}, "state")
  BY DEF StateResult
<1> HIDE DEF table, says
<1>4. First(i, 13, says)
  BY <1>2 DEF First, Decided
<1>5. /\ Rising("state", table, 13)
      /\ \A j \in 1 .. 13 : RulesOf("state", table)[j].target = StateNames[j]
  BY StateRising DEF table
<1>6. /\ StateResult(o).kind = "resolved"
      /\ StateResult(o).target = RulesOf("state", table)[i].target
  BY <1>2, <1>3, <1>4, <1>5, FirstWins
<1> QED BY <1>5, <1>6 DEF Decided

LEMMA SomeDecided ==
  ASSUME NEW o, \E i \in 1 .. 13 : Holds(o, i)
  PROVE  \E i \in 1 .. 13 : Decided(o, i)
<1> DEFINE S == {i \in 1 .. 13 : Holds(o, i)}
<1>1. S \in SUBSET Nat /\ S # {}
  OBVIOUS
<1>2. PICK m \in S : \A x \in S : m <= x
  <2> HIDE DEF S
  <2> QED BY <1>1, LeastPlace
<1> QED BY <1>2 DEF Decided

\* Each state is the business of one route rule.
LEMMA RouteDecided ==
  ASSUME NEW i \in 1 .. 13, NEW state, state.target = StateNames[i]
  PROVE  RouteResult(state).kind = "resolved" /\ RouteResult(state).target = RouteNames[i]
<1> DEFINE says == [k \in DOMAIN RouteTable |-> Verdict(state.target \in RouteTable[k][3])]
           place == <<5, 5, 5, 9, 10, 6, 7, 8, 11, 4, 3, 1, 2>>
<1>1. DOMAIN RouteTable = 1 .. 11
  BY DEF RouteTable
<1>2. \A k \in 1 .. 11 : says[k] # "error" /\ (says[k] = "match" <=> StateNames[i] \in RouteTable[k][3])
  BY <1>1 DEF Verdict
<1>3. \A k \in 1 .. 11 : StateNames[i] \in RouteTable[k][3] <=> k = place[i]
  BY DEF RouteTable, StateNames, ReviewWork
<1>4. place[i] \in 1 .. 11 /\ RouteTable[place[i]][1] = RouteNames[i]
  BY DEF RouteTable, RouteNames
<1>5. RouteResult(state) = R!Resolve(RulesOf("route", RouteTable), says, {}, "route")
  BY DEF RouteResult
<1> HIDE DEF says, place
<1>6. First(place[i], 11, says)
  BY <1>2, <1>3, <1>4 DEF First
<1>7. /\ RouteResult(state).kind = "resolved"
      /\ RouteResult(state).target = RulesOf("route", RouteTable)[place[i]].target
  BY <1>2, <1>5, <1>6, RouteRising, FirstWins
<1> QED BY <1>4, <1>7, RouteRising

-----------------------------------------------------------------------------
(***************************************************************************)
(* The clauses of the state rules.                                         *)
(***************************************************************************)
LEMMA ClauseFacts ==
  ASSUME NEW o
  PROVE  LET d == DiagOf(o)
         IN  /\ Holds(o, 1) <=> /\ PrExists(o) /\ o.reviews.known /\ o.reviews.unresolved
                                /\ BotsDoNotWait(o, d)
             /\ Holds(o, 2) <=> ReviewSettled(o) /\ d.nonThread /\ BotsDoNotWait(o, d)
             /\ Holds(o, 3) <=> /\ PrExists(o) /\ o.reviews.known /\ o.reviews.changes
                                /\ BotsDoNotWait(o, d)
             /\ Holds(o, 4) <=> RequiredBotIs(o, "rate_limited")
             /\ Holds(o, 5) <=> RequiredBotIs(o, "review_paused")
             /\ Holds(o, 6) <=> o.reviews.known /\ d.failed
             /\ Holds(o, 7) <=> PrExists(o) /\ o.reviews.known /\ d.stale
             /\ Holds(o, 8) <=> PrExists(o) /\ o.reviews.known /\ d.pending
             /\ Holds(o, 9) <=> /\ ReviewSettled(o) /\ DecisionsRead(o)
                                /\ o.git.clean /\ o.ci = "success" /\ o.merge = "clean"
                                /\ ~ d.pending /\ ~ d.blocked /\ d.terminal
                                /\ ~ d.failed /\ ~ d.stale /\ ~ d.nonThread
             /\ Holds(o, 11) <=> PrExists(o)
             /\ Holds(o, 13) <=> ~ o.git.detached /\ ~ PrExists(o)
BY DEF Holds, StateTable

\* A blocked bot is one of the two that have a rule of their own.
LEMMA BlockedFacts ==
  ASSUME NEW o, o.reviews.known
  PROVE  DiagOf(o).blocked <=>
           RequiredBotIs(o, "rate_limited") \/ RequiredBotIs(o, "review_paused")
<1> DEFINE required == {b \in DOMAIN o.reviews.entries : o.reviews.entries[b].required}
<1>1. DiagOf(o).blocked <=> \E b \in required : o.reviews.entries[b].status \in BlockedTier
  BY DEF DiagOf, Diagnostics
<1> QED BY <1>1 DEF RequiredBotIs, BlockedTier

LEMMA ContextFacts ==
  ASSUME NEW o, NEW i, Decided(o, i)
  PROVE  /\ ContextBuild(o).state.kind = "resolved"
         /\ ContextBuild(o).state.target = StateNames[i]
         /\ ContextBuild(o).route.kind = "resolved"
         /\ ContextBuild(o).route.target = RouteNames[i]
         /\ ContextBuild(o).hints = Hints(StateResult(o), RouteResult(StateResult(o)))
<1>1. StateResult(o).kind = "resolved" /\ StateResult(o).target = StateNames[i]
  BY StateDecided
<1>2. /\ RouteResult(StateResult(o)).kind = "resolved"
      /\ RouteResult(StateResult(o)).target = RouteNames[i]
  BY <1>1, RouteDecided DEF Decided
<1> DEFINE guard == GuardOK(o)
<1>3. ContextBuild(o) = [state |-> StateResult(o), route |-> RouteResult(StateResult(o)),
                         guard |-> guard,
                         hints |-> Hints(StateResult(o), RouteResult(StateResult(o)))]
  BY <1>1 DEF ContextBuild
<1> HIDE DEF guard
<1> QED BY <1>1, <1>2, <1>3

-----------------------------------------------------------------------------
LEMMA OneHint ==
  ASSUME NEW i \in 1 .. 13, NEW state, state.target = StateNames[i],
         NEW route, route.kind = "resolved", route.target = RouteNames[i]
  PROVE  Cardinality(Hints(state, route)) = 1
<1> DEFINE Fits(p) == /\ StateNames[i] \in p.states
                      /\ p.routes # {} => RouteNames[i] \in p.routes
<1>1. Hints(state, route) = {p \in Procedures : Fits(p)}
  BY DEF Hints
<1>2. \E p \in Procedures : \A q \in Procedures : Fits(q) <=> q = p
  BY DEF Procedures, StateNames, RouteNames, WaitBotRoutes
<1>3. PICK p \in Procedures : \A q \in Procedures : Fits(q) <=> q = p
  BY <1>2
<1> HIDE DEF Fits
<1>4. Hints(state, route) = {p}
  BY <1>1, <1>3
<1> QED BY <1>4, FS_Singleton

-----------------------------------------------------------------------------
(***************************************************************************)
(* What a context build says of an observation.                            *)
(***************************************************************************)
LEMMA Mapped ==
  ASSUME NEW o, PrExists(o) \/ ~ o.git.detached
  PROVE  /\ ContextBuild(o).state.kind = "resolved"
         /\ ContextBuild(o).route.kind = "resolved"
         /\ Cardinality(ContextBuild(o).hints) = 1
<1>1. Holds(o, 11) \/ Holds(o, 13)
  BY ClauseFacts
<1>2. PICK i \in 1 .. 13 : Decided(o, i)
  BY <1>1, SomeDecided
<1>3. /\ ContextBuild(o).state.kind = "resolved"
      /\ ContextBuild(o).route.kind = "resolved"
      /\ ContextBuild(o).hints = Hints(StateResult(o), RouteResult(StateResult(o)))
  BY <1>2, ContextFacts
<1>4. StateResult(o).target = StateNames[i]
  BY <1>2, StateDecided
<1>5. /\ RouteResult(StateResult(o)).kind = "resolved"
      /\ RouteResult(StateResult(o)).target = RouteNames[i]
  BY <1>4, RouteDecided
<1>6. Cardinality(Hints(StateResult(o), RouteResult(StateResult(o)))) = 1
  BY <1>4, <1>5, OneHint
<1> QED BY <1>3, <1>6

InTrouble(d) == d.blocked \/ d.failed \/ d.stale \/ d.pending

LEMMA TroubleFirst ==
  ASSUME NEW o, PrExists(o), o.reviews.known
  PROVE  InTrouble(DiagOf(o)) <=> ContextBuild(o).route.target \in WaitBotRoutes
<1>1. PICK i \in 1 .. 13 : Decided(o, i)
  BY ClauseFacts, SomeDecided
<1>2. ContextBuild(o).route.target = RouteNames[i]
  BY <1>1, ContextFacts
<1>3. RouteNames[i] \in WaitBotRoutes <=> i \in 4 .. 8
  BY DEF RouteNames, WaitBotRoutes
<1> DEFINE holds(j) == Holds(o, j)
<1>4. InTrouble(DiagOf(o)) <=> holds(4) \/ holds(5) \/ holds(6) \/ holds(7) \/ holds(8)
  BY ClauseFacts, BlockedFacts DEF InTrouble
<1>5. InTrouble(DiagOf(o)) => ~ holds(1) /\ ~ holds(2) /\ ~ holds(3)
  BY ClauseFacts DEF BotsDoNotWait, InTrouble
<1>6. holds(i) /\ \A j \in 1 .. 13 : j < i => ~ holds(j)
  BY <1>1 DEF Decided
<1> HIDE DEF holds
<1>7. ASSUME holds(4) \/ holds(5) \/ holds(6) \/ holds(7) \/ holds(8)
      PROVE  i \in 4 .. 8
  <2>1. ~ holds(1) /\ ~ holds(2) /\ ~ holds(3)
    BY <1>4, <1>5, <1>7
  <2> QED BY <1>6, <1>7, <2>1
<1>8. i \in 4 .. 8 => holds(4) \/ holds(5) \/ holds(6) \/ holds(7) \/ holds(8)
  BY <1>6
<1> QED BY <1>2, <1>3, <1>4, <1>7, <1>8

LEMMA OpenWork ==
  ASSUME NEW o, PrExists(o), o.reviews.known, BotsDoNotWait(o, DiagOf(o)),
         o.reviews.unresolved \/ o.reviews.changes
  PROVE  ContextBuild(o).route.target = "user-address-review"
<1>1. Holds(o, 1) \/ Holds(o, 3)
  BY ClauseFacts
<1>2. PICK i \in 1 .. 13 : Decided(o, i)
  BY <1>1, SomeDecided
<1>3. i \in 1 .. 3
  BY <1>1, <1>2 DEF Decided
<1>4. RouteNames[i] = "user-address-review"
  BY <1>3 DEF RouteNames
<1> QED BY <1>2, <1>4, ContextFacts

LEMMA GuardIsReadiness ==
  ASSUME NEW o, ~ o.git.detached
  PROVE  GuardOK(o) <=> MergeReadiness(o)
<1> DEFINE rule  == [type |-> "guard", id |-> 1, priority |-> 10,
                     target |-> "merge-readiness", depends |-> {}, when |-> 1]
           rules == <<rule>>
           res   == R!ResolveGuard(rules, <<"match">>, {}, "merge-readiness")
<1>1. /\ DOMAIN rules = {1} /\ rules[1].type = "guard" /\ rules[1].when = 1
      /\ rules[1].target = "merge-readiness" /\ rules[1].priority = 10
  OBVIOUS
<1> HIDE DEF rules
<1>2. R!ScopeGuardRules(rules, "merge-readiness") = {1}
  BY <1>1 DEF R!ScopeGuardRules, R!OfType
<1>3. R!Failing(rules, {1}, <<"match">>) = {} /\ R!Active(rules, {1}, <<"match">>, {}) = {1}
  BY <1>1 DEF R!Failing, R!Active, R!SuppressedBy
<1>4. R!MinPriority(rules, {1}) = 10
  BY <1>1 DEF R!MinPriority
<1>5. R!AtBest(rules, {1}) = {1}
  BY <1>1, <1>4 DEF R!AtBest, R!NearlyEqual
<1>6. res = R!Select(rules, {1}, "guard")
  BY <1>2, <1>3 DEF R!ResolveGuard, R!ResolveAmong
<1> DEFINE routes == R!RouteCandidates(rules, {1}, "guard")
<1> HIDE DEF routes
<1>7. R!Select(rules, {1}, "guard") = R!Single(rules[1], routes)
  BY <1>5 DEF R!Select, routes
<1>8. R!Single(rules[1], routes).kind = "resolved"
  BY <1>1 DEF R!Single, R!NoTarget, R!Outcome
<1>9. res.kind = "resolved"
  BY <1>6, <1>7, <1>8
<1> QED BY <1>9 DEF GuardOK, Verdict, rules

\* The rules do not read whether an answer is owed; the guard does.
LEMMA GuardAgrees ==
  ASSUME NEW o, PrExists(o), ~ o.git.detached,
         o.reviews.known /\ DiagOf(o).terminal /\ ~ DiagOf(o).failed => ~ DiagOf(o).awaiting
  PROVE  /\ ContextBuild(o).guard <=> MergeReadiness(o)
         /\ ContextBuild(o).state.target = "merge_ready" <=> MergeReadiness(o)
<1>1. PICK i \in 1 .. 13 : Decided(o, i)
  BY ClauseFacts, SomeDecided
<1>2. ContextBuild(o).state.target = "merge_ready" <=> i = 9
  <2>1. ContextBuild(o).state.target = StateNames[i]
    BY <1>1, ContextFacts
  <2>2. StateNames[i] = "merge_ready" <=> i = 9
    BY DEF StateNames
  <2> QED BY <2>1, <2>2
<1>3. ContextBuild(o).guard <=> MergeReadiness(o)
  <2> DEFINE guard == GuardOK(o)
             hints == IF StateResult(o).kind = "resolved"
                        THEN Hints(StateResult(o), RouteResult(StateResult(o))) ELSE {}
  <2>1. ContextBuild(o) = [state |-> StateResult(o), route |-> RouteResult(StateResult(o)),
                           guard |-> guard, hints |-> hints]
    BY DEF ContextBuild
  <2> HIDE DEF guard, hints
  <2>2. ContextBuild(o).guard = guard
    BY <2>1
  <2> QED BY <2>2, GuardIsReadiness DEF guard
<1> DEFINE holds(j) == Holds(o, j)
<1>4. holds(9) => MergeReadiness(o)
  BY ClauseFacts DEF MergeReadiness, ReviewSettled, BotReviewReady, NoThreads
<1>5. MergeReadiness(o) => holds(9) /\ \A j \in 1 .. 8 : ~ holds(j)
  <2> SUFFICES ASSUME MergeReadiness(o)
               PROVE  holds(9) /\ \A j \in 1 .. 8 : ~ holds(j)
    OBVIOUS
  <2>1. /\ o.reviews.known /\ ~ o.reviews.unresolved /\ ~ o.reviews.changes
        /\ ~ DiagOf(o).pending /\ ~ DiagOf(o).blocked /\ ~ DiagOf(o).nonThread
        /\ ~ DiagOf(o).failed /\ ~ DiagOf(o).stale
    BY DEF MergeReadiness, BotReviewReady, NoThreads, NoneRequested
  <2>2. holds(9)
    BY ClauseFacts DEF MergeReadiness, BotReviewReady, ReviewSettled
  <2>3. /\ ~ holds(1) /\ ~ holds(2) /\ ~ holds(3) /\ ~ holds(4)
        /\ ~ holds(5) /\ ~ holds(6) /\ ~ holds(7) /\ ~ holds(8)
    BY <2>1, ClauseFacts, BlockedFacts
  <2> HIDE DEF holds
  <2> QED BY <2>2, <2>3
<1>6. holds(i) /\ \A j \in 1 .. 13 : j < i => ~ holds(j)
  BY <1>1 DEF Decided
<1> HIDE DEF holds
<1>7. i = 9 => holds(9)
  BY <1>6
<1>8. holds(9) /\ (\A j \in 1 .. 8 : ~ holds(j)) => i = 9
  BY <1>6
<1> QED BY <1>2, <1>3, <1>4, <1>5, <1>7, <1>8
=============================================================================
