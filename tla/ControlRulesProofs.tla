------------------------- MODULE ControlRulesProofs -------------------------
(***************************************************************************)
(* Proofs about rule selection: for every rule set, every clause verdict   *)
(* and every set of degraded providers, the order of the rules decides     *)
(* nothing, a provider that degrades gains no rule, and the traces explain *)
(* the outcome; about the knowledge handed out; and about how verdicts     *)
(* combine.                                                                *)
(***************************************************************************)
EXTENDS ControlRules, FiniteSetTheorems, SequenceTheorems, WellFoundedInduction, TLAPS

-----------------------------------------------------------------------------
(***************************************************************************)
(* The best priority exists.                                               *)
(***************************************************************************)
LEMMA LeastElement ==
  ASSUME NEW S \in SUBSET Nat, S # {}
  PROVE  \E m \in S : \A x \in S : m <= x
<1> DEFINE R == {p \in Nat \X Nat : p[1] < p[2]}
<1>1. IsWellFoundedOn(R, Nat)
  BY NatLessThanWellFounded DEF OpToRel
<1>2. PICK m \in S : \A y \in S : <<y, m>> \notin R
  <2> HIDE DEF R
  <2> QED BY <1>1, WFMin
<1>3. \A x \in S : m <= x
  <2> TAKE x \in S
  <2>1. x \in Nat /\ m \in Nat /\ <<x, m>> \notin R
    BY <1>2
  <2> QED BY <2>1
<1> QED BY <1>3

LEMMA RuleAt ==
  ASSUME NEW rs \in Seq(Rule), NEW i \in DOMAIN rs
  PROVE  /\ rs[i] \in Rule
         /\ rs[i].priority \in Int
<1>1. i \in 1 .. Len(rs)
  OBVIOUS
<1>2. rs[i] \in Rule
  <2> HIDE DEF Rule
  <2> QED BY <1>1
<1> QED BY <1>2 DEF Rule

LEMMA PlacesAreFinite ==
  ASSUME NEW rs \in Seq(Rule), NEW S \in SUBSET DOMAIN rs
  PROVE  IsFiniteSet(S)
<1>1. DOMAIN rs = 1 .. Len(rs) /\ Len(rs) \in Nat
  OBVIOUS
<1>2. IsFiniteSet(1 .. Len(rs))
  BY <1>1, FS_Interval
<1> QED BY <1>1, <1>2, FS_Subset

\* Of some rules, one has a priority no other is below: the one with the fewest
\* rules below it.
LEMMA BestExists ==
  ASSUME NEW rs \in Seq(Rule), NEW active \in SUBSET DOMAIN rs, active # {}
  PROVE  \E i \in active : \A j \in active : rs[i].priority <= rs[j].priority
<1> DEFINE below(i) == {j \in active : rs[j].priority < rs[i].priority}
           Counts   == {Cardinality(below(i)) : i \in active}
<1>1. \A i \in active : IsFiniteSet(below(i)) /\ Cardinality(below(i)) \in Nat
  <2> TAKE i \in active
  <2>1. IsFiniteSet(below(i))
    BY PlacesAreFinite
  <2> QED BY <2>1, FS_CardinalityType
<1>2. Counts \in SUBSET Nat /\ Counts # {}
  BY <1>1
<1>3. PICK m \in Counts : \A x \in Counts : m <= x
  <2> HIDE DEF Counts
  <2> QED BY <1>2, LeastElement
<1>4. PICK i \in active : m = Cardinality(below(i))
  OBVIOUS
<1>5. \A j \in active : Cardinality(below(i)) <= Cardinality(below(j))
  BY <1>3, <1>4
<1>6. ASSUME NEW j \in active, rs[j].priority < rs[i].priority
      PROVE  FALSE
  <2>1. rs[j].priority \in Int /\ rs[i].priority \in Int
    BY RuleAt
  <2>2. below(j) \subseteq below(i)
    <3> SUFFICES ASSUME NEW k \in below(j) PROVE k \in below(i)
      OBVIOUS
    <3>1. rs[k].priority \in Int
      BY RuleAt
    <3> QED BY <1>6, <2>1, <3>1
  <2>3. j \in below(i) /\ j \notin below(j)
    BY <1>6, <2>1
  <2> HIDE DEF below
  <2>4. Cardinality(below(j)) < Cardinality(below(i))
    <3>1. /\ Cardinality(below(j)) <= Cardinality(below(i))
          /\ Cardinality(below(j)) = Cardinality(below(i)) => below(i) = below(j)
      BY <1>1, <2>2, FS_Subset
    <3> QED BY <1>1, <2>3, <3>1
  <2>5. Cardinality(below(i)) <= Cardinality(below(j))
    BY <1>5
  <2> QED BY <1>1, <2>4, <2>5
<1>7. \A j \in active : rs[i].priority <= rs[j].priority
  <2> TAKE j \in active
  <2>1. rs[j].priority \in Int /\ rs[i].priority \in Int
    BY RuleAt
  <2> QED BY <1>6, <2>1
<1> QED BY <1>7

LEMMA MinPriorityIsLeast ==
  ASSUME NEW rs \in Seq(Rule), NEW active \in SUBSET DOMAIN rs, active # {}
  PROVE  /\ MinPriority(rs, active) \in Int
         /\ \E i \in active : MinPriority(rs, active) = rs[i].priority
         /\ \A i \in active : MinPriority(rs, active) <= rs[i].priority
<1>1. PICK i \in active : \A j \in active : rs[i].priority <= rs[j].priority
  BY BestExists
<1>2. rs[i].priority \in {rs[j].priority : j \in active}
  OBVIOUS
<1>3. /\ MinPriority(rs, active) \in {rs[j].priority : j \in active}
      /\ \A j \in active : MinPriority(rs, active) <= rs[j].priority
  BY <1>1, <1>2 DEF MinPriority
<1> QED BY <1>3, RuleAt

\* Some active rule has exactly the best priority, so the rules tied with the
\* best are those tied with it.
LEMMA AtBestIsTied ==
  ASSUME NEW rs \in Seq(Rule), NEW active \in SUBSET DOMAIN rs, active # {}
  PROVE  \E i \in active : /\ rs[i].priority = MinPriority(rs, active)
                           /\ \A j \in active : rs[i].priority <= rs[j].priority
                           /\ i \in AtBest(rs, active)
                           /\ AtBest(rs, active) =
                                {j \in active : NearlyEqual(rs[j].priority, rs[i].priority)}
<1>1. PICK i \in active : MinPriority(rs, active) = rs[i].priority
  BY MinPriorityIsLeast
<1>2. \A j \in active : rs[i].priority <= rs[j].priority
  BY <1>1, MinPriorityIsLeast
<1>3. rs[i].priority \in Int
  BY RuleAt
<1>4. NearlyEqual(rs[i].priority, rs[i].priority)
  BY <1>3, EpsilonAssumption DEF NearlyEqual
<1> QED BY <1>1, <1>2, <1>4 DEF AtBest

-----------------------------------------------------------------------------
(***************************************************************************)
(* What is selected among the active rules.                                *)
(***************************************************************************)
Best(rs, active, i)   == \A j \in active : rs[i].priority <= rs[j].priority
TiedWith(rs, active, i) == {j \in active : NearlyEqual(rs[j].priority, rs[i].priority)}

\* The outcome o is what the active rules say, by the best of them.
Decides(rs, active, o, i) ==
  /\ Best(rs, active, i)
  /\ \/ /\ TiedWith(rs, active, i) = {i}
        /\ rs[i].target # NoTarget
        /\ o.kind = "resolved" /\ o.target = rs[i].target
        /\ o.rule = rs[i].id /\ o.priority = rs[i].priority
     \/ /\ TiedWith(rs, active, i) = {i}
        /\ rs[i].target = NoTarget
        /\ o.kind = "unsupported"
     \/ /\ TiedWith(rs, active, i) # {i}
        /\ o.kind = "ambiguous" /\ o.priority = rs[i].priority
        /\ o.candidates = {rs[j].id : j \in TiedWith(rs, active, i)}

LEMMA SelectFacts ==
  ASSUME NEW rs \in Seq(Rule), NEW active \in SUBSET DOMAIN rs, active # {}, NEW type
  PROVE  \E i \in active : Decides(rs, active, Select(rs, active, type), i)
<1> DEFINE o      == Select(rs, active, type)
<1> DEFINE atBest == AtBest(rs, active)
           routes == RouteCandidates(rs, active, type)
<1>1. PICK i \in active :
        /\ rs[i].priority = MinPriority(rs, active)
        /\ \A j \in active : rs[i].priority <= rs[j].priority
        /\ i \in atBest
        /\ atBest = {j \in active : NearlyEqual(rs[j].priority, rs[i].priority)}
  BY AtBestIsTied
<1>2. Best(rs, active, i) /\ atBest = TiedWith(rs, active, i)
  BY <1>1 DEF Best, TiedWith
<1>3. o = IF \E j, k \in atBest : j # k
            THEN [Outcome("ambiguous", routes) EXCEPT
                    !.priority = MinPriority(rs, active),
                    !.candidates = {rs[j].id : j \in atBest}]
            ELSE Single(rs[CHOOSE j \in atBest : TRUE], routes)
  BY DEF Select
<1> HIDE DEF atBest, routes, o
<1>4. CASE \E j, k \in atBest : j # k
  <2>1. atBest # {i}
    BY <1>4
  <2>2. o = [Outcome("ambiguous", routes) EXCEPT
               !.priority = MinPriority(rs, active),
               !.candidates = {rs[j].id : j \in atBest}]
    BY <1>3, <1>4
  <2>3. /\ o.kind = "ambiguous"
        /\ o.priority = MinPriority(rs, active)
        /\ o.candidates = {rs[j].id : j \in atBest}
    BY <2>2 DEF Outcome
  <2> QED BY <1>1, <1>2, <2>1, <2>3 DEF Decides, o
<1>5. CASE ~ \E j, k \in atBest : j # k
  <2>1. atBest = {i}
    BY <1>1, <1>5
  <2>2. o = Single(rs[i], routes)
    BY <1>3, <1>5, <2>1
  <2>3. CASE rs[i].target = NoTarget
    <3>1. o.kind = "unsupported"
      BY <2>2, <2>3 DEF Single, Outcome
    <3> QED BY <1>1, <1>2, <2>1, <2>3, <3>1 DEF Decides, o
  <2>4. CASE rs[i].target # NoTarget
    <3>1. o = [Outcome("resolved", routes) EXCEPT
                 !.target = rs[i].target, !.rule = rs[i].id, !.priority = rs[i].priority]
      BY <2>2, <2>4 DEF Single
    <3>2. /\ o.kind = "resolved" /\ o.target = rs[i].target
          /\ o.rule = rs[i].id /\ o.priority = rs[i].priority
      BY <3>1 DEF Outcome
    <3> QED BY <1>1, <1>2, <2>1, <2>4, <3>2 DEF Decides, o
  <2> QED BY <2>3, <2>4
<1> QED BY <1>4, <1>5

\* Without active rules, and only then, the outcome is degraded.
LEMMA SelectNothing ==
  ASSUME NEW rs, NEW type
  PROVE  /\ Select(rs, {}, type).kind = "degraded"
         /\ Outcome("unsupported", <<>>).kind = "unsupported"
BY DEF Select, Outcome

-----------------------------------------------------------------------------
(***************************************************************************)
(* The traces.                                                             *)
(***************************************************************************)
TypeInv == rules \in Seq(Rule) /\ verdict \in [Clauses -> Verdicts]

Live(type) == Active(rules, OfType(rules, type), verdict, degraded)

LEMMA LivePlaces == TypeInv => \A type \in RuleTypes : Live(type) \in SUBSET DOMAIN rules
BY DEF Live, Active, OfType

\* Unless an evaluation failed, every rule of the type was evaluated.
LEMMA ResultFacts ==
  ASSUME TypeInv, NEW type \in RuleTypes
  PROVE  \/ /\ Failing(rules, OfType(rules, type), verdict) # {}
            /\ Result(type) = Outcome("unsupported", <<>>)
         \/ /\ Failing(rules, OfType(rules, type), verdict) = {}
            /\ Evaluated(rules, OfType(rules, type), verdict) = OfType(rules, type)
            /\ Result(type) = Select(rules, Live(type), type)
BY DEF Result, Resolve, ResolveAmong, Evaluated, Live

LEMMA TraceExplainsState == TypeInv => TraceExplains
<1> SUFFICES ASSUME TypeInv, NEW type \in RuleTypes
             PROVE  LET res   == Result(type)
                        trace == Trace(type)
                        live  == {i \in DOMAIN trace : trace[i].matched /\ trace[i].suppressedBy = {}}
                        ties(i) == {j \in live : NearlyEqual(trace[j].priority, trace[i].priority)}
                        best(i) == \A j \in live : trace[i].priority <= trace[j].priority
                    IN  /\ res.kind = "degraded" => live = {}
                        /\ res.kind = "resolved" =>
                             \E i \in live : /\ best(i) /\ ties(i) = {i}
                                             /\ trace[i].rule = res.rule
                                             /\ trace[i].target = res.target
                        /\ res.kind = "ambiguous" =>
                             \E i \in live : /\ best(i) /\ ties(i) # {i}
                                             /\ res.candidates = {trace[j].rule : j \in ties(i)}
  BY DEF TraceExplains
<1> DEFINE res   == Result(type)
           trace == Trace(type)
           live  == {i \in DOMAIN trace : trace[i].matched /\ trace[i].suppressedBy = {}}
           ties(i) == {j \in live : NearlyEqual(trace[j].priority, trace[i].priority)}
           best(i) == \A j \in live : trace[i].priority <= trace[j].priority
           evals == Evaluated(rules, OfType(rules, type), verdict)
<1>1. CASE Failing(rules, OfType(rules, type), verdict) # {}
  <2>1. res.kind = "unsupported"
    BY <1>1, ResultFacts, SelectNothing
  <2> QED BY <2>1
<1>2. CASE Failing(rules, OfType(rules, type), verdict) = {}
  <2>1. evals = OfType(rules, type) /\ res = Select(rules, Live(type), type)
    BY <1>2, ResultFacts
  <2>2. trace = TraceOf(rules, OfType(rules, type), verdict, degraded)
    BY <2>1 DEF Trace, RuleTrace
  <2>3. /\ DOMAIN trace = OfType(rules, type)
        /\ \A i \in OfType(rules, type) :
             /\ trace[i].rule = rules[i].id
             /\ trace[i].priority = rules[i].priority
             /\ trace[i].target = rules[i].target
             /\ trace[i].matched <=> verdict[rules[i].when] = "match"
             /\ trace[i].suppressedBy = SuppressedBy(rules[i], verdict, degraded)
    <3> HIDE DEF trace
    <3>1. DOMAIN trace = OfType(rules, type)
      BY <2>2 DEF TraceOf
    <3>2. ASSUME NEW i \in OfType(rules, type)
          PROVE  /\ trace[i].rule = rules[i].id
                 /\ trace[i].priority = rules[i].priority
                 /\ trace[i].target = rules[i].target
                 /\ trace[i].matched <=> verdict[rules[i].when] = "match"
                 /\ trace[i].suppressedBy = SuppressedBy(rules[i], verdict, degraded)
      <4> DEFINE match == verdict[rules[i].when] = "match"
      <4>1. trace[i] = [rule         |-> rules[i].id,
                        priority     |-> rules[i].priority,
                        target       |-> rules[i].target,
                        matched      |-> match,
                        suppressedBy |-> SuppressedBy(rules[i], verdict, degraded)]
        BY <2>2 DEF TraceOf
      <4> HIDE DEF match
      <4>2. trace[i].matched = match
        BY <4>1
      <4>3. /\ trace[i].rule = rules[i].id
            /\ trace[i].priority = rules[i].priority
            /\ trace[i].target = rules[i].target
        BY <4>1
      <4>4. trace[i].suppressedBy = SuppressedBy(rules[i], verdict, degraded)
        BY <4>1
      <4>5. trace[i].matched <=> match
        BY <4>2
      <4> QED BY <4>3, <4>4, <4>5 DEF match
    <3> QED BY <3>1, <3>2
  <2> HIDE DEF res, trace, evals
  <2>4. live = Live(type)
    BY <2>3 DEF Live, Active
  <2>5. Live(type) \subseteq OfType(rules, type) /\ Live(type) \in SUBSET DOMAIN rules
    BY DEF Live, Active, OfType
  <2>6. rules \in Seq(Rule)
    BY DEF TypeInv
  <2>7. ASSUME NEW i \in Live(type)
        PROVE  /\ ties(i) = TiedWith(rules, Live(type), i)
               /\ best(i) <=> Best(rules, Live(type), i)
    BY <2>3, <2>4, <2>5 DEF TiedWith, Best
  <2>8. CASE Live(type) = {}
    <3>1. res.kind = "degraded"
      BY <2>1, <2>8, SelectNothing
    <3> QED BY <2>4, <2>8, <3>1 DEF res, trace, live
  <2>9. CASE Live(type) # {}
    <3>1. PICK i \in Live(type) : Decides(rules, Live(type), res, i)
      BY <2>1, <2>5, <2>6, <2>9, SelectFacts
    <3>2. i \in live /\ best(i) /\ ties(i) = TiedWith(rules, Live(type), i)
      BY <2>4, <2>7, <3>1 DEF Decides
    <3>3. trace[i].rule = rules[i].id /\ trace[i].target = rules[i].target
      BY <2>3, <2>5
    <3>4. {rules[j].id : j \in ties(i)} = {trace[j].rule : j \in ties(i)}
      <4>1. ties(i) \subseteq OfType(rules, type)
        BY <2>4, <2>5
      <4> HIDE DEF ties
      <4> QED BY <2>3, <4>1
    <3> HIDE DEF ties, best, live
    <3>5. res.kind = "resolved" =>
            /\ best(i) /\ ties(i) = {i}
            /\ trace[i].rule = res.rule /\ trace[i].target = res.target
      BY <3>1, <3>2, <3>3 DEF Decides
    <3>6. res.kind = "ambiguous" =>
            /\ best(i) /\ ties(i) # {i}
            /\ res.candidates = {trace[j].rule : j \in ties(i)}
      BY <3>1, <3>2, <3>4 DEF Decides
    <3>7. res.kind # "degraded"
      BY <3>1 DEF Decides
    <3> QED BY <3>2, <3>5, <3>6, <3>7 DEF ties, best, live, res, trace
  <2> QED BY <2>8, <2>9
<1> QED BY <1>1, <1>2

-----------------------------------------------------------------------------
(***************************************************************************)
(* The order of the rules decides nothing.                                 *)
(***************************************************************************)
Reordered(rs, p) == [i \in DOMAIN rs |-> rs[p[i]]]
Places(rs, p, S) == {i \in DOMAIN rs : p[i] \in S}

LEMMA OrderIsInjective ==
  ASSUME NEW rs \in Seq(Rule), NEW p \in [DOMAIN rs -> DOMAIN rs], Range(p) = DOMAIN rs
  PROVE  /\ \A j \in DOMAIN rs : \E i \in DOMAIN rs : p[i] = j
         /\ \A i, j \in DOMAIN rs : p[i] = p[j] => i = j
<1>1. \A j \in DOMAIN rs : \E i \in DOMAIN rs : p[i] = j
  BY DEF Range
<1>2. IsFiniteSet(DOMAIN rs)
  BY PlacesAreFinite
<1>3. p \in Surjection(DOMAIN rs, DOMAIN rs)
  BY <1>1 DEF Surjection
<1>4. p \in Injection(DOMAIN rs, DOMAIN rs)
  BY <1>2, <1>3, FS_SurjSameCardinalityImpliesInj
<1> QED BY <1>1, <1>4 DEF Injection, IsInjective

LEMMA ReorderedRules ==
  ASSUME NEW rs \in Seq(Rule), NEW p \in [DOMAIN rs -> DOMAIN rs]
  PROVE  /\ Reordered(rs, p) \in Seq(Rule)
         /\ DOMAIN Reordered(rs, p) = DOMAIN rs
         /\ \A i \in DOMAIN rs : Reordered(rs, p)[i] = rs[p[i]]
<1>1. DOMAIN rs = 1 .. Len(rs) /\ Len(rs) \in Nat
  OBVIOUS
<1>2. \A i \in DOMAIN rs : rs[p[i]] \in Rule
  BY RuleAt
<1> HIDE DEF Rule
<1> QED BY <1>1, <1>2 DEF Reordered

\* A rule is active in its new place if and only if it was in the old one.
LEMMA ReorderedPlaces ==
  ASSUME NEW rs \in Seq(Rule), NEW p \in [DOMAIN rs -> DOMAIN rs],
         NEW type, NEW says, NEW down
  PROVE  /\ OfType(Reordered(rs, p), type) = Places(rs, p, OfType(rs, type))
         /\ Failing(Reordered(rs, p), OfType(Reordered(rs, p), type), says)
              = Places(rs, p, Failing(rs, OfType(rs, type), says))
         /\ Active(Reordered(rs, p), OfType(Reordered(rs, p), type), says, down)
              = Places(rs, p, Active(rs, OfType(rs, type), says, down))
<1> DEFINE there == Reordered(rs, p)
<1>1. /\ DOMAIN there = DOMAIN rs
      /\ \A i \in DOMAIN rs : there[i] = rs[p[i]] /\ p[i] \in DOMAIN rs
  BY ReorderedRules
<1> HIDE DEF there
<1>2. OfType(there, type) = Places(rs, p, OfType(rs, type))
  BY <1>1 DEF OfType, Places
<1>3. Failing(there, OfType(there, type), says) = Places(rs, p, Failing(rs, OfType(rs, type), says))
  BY <1>1, <1>2 DEF Failing, Places
<1>4. Active(there, OfType(there, type), says, down)
        = Places(rs, p, Active(rs, OfType(rs, type), says, down))
  BY <1>1, <1>2 DEF Active, Places
<1> QED BY <1>2, <1>3, <1>4 DEF there

LEMMA SelectReordered ==
  ASSUME NEW rs \in Seq(Rule), NEW p \in [DOMAIN rs -> DOMAIN rs], Range(p) = DOMAIN rs,
         NEW active \in SUBSET DOMAIN rs, NEW type
  PROVE  Select(Reordered(rs, p), Places(rs, p, active), type) = Select(rs, active, type)
<1> DEFINE there == Reordered(rs, p)
           moved == Places(rs, p, active)
<1>1. /\ \A j \in DOMAIN rs : \E i \in DOMAIN rs : p[i] = j
      /\ \A i, j \in DOMAIN rs : p[i] = p[j] => i = j
  BY OrderIsInjective
<1>2. /\ there \in Seq(Rule)
      /\ DOMAIN there = DOMAIN rs
      /\ \A i \in DOMAIN rs : there[i] = rs[p[i]]
  BY ReorderedRules
<1>3. /\ moved \in SUBSET DOMAIN there
      /\ \A i \in moved : p[i] \in active /\ there[i] = rs[p[i]] /\ i \in DOMAIN rs
      /\ \A j \in active : \E i \in moved : p[i] = j
      /\ \A i \in DOMAIN rs : p[i] \in active => i \in moved
  BY <1>1, <1>2 DEF Places
<1> HIDE DEF there, moved
<1>4. CASE active = {}
  <2>1. moved = {}
    BY <1>3, <1>4
  <2> QED BY <1>4, <2>1 DEF Select, there, moved
<1>5. CASE active # {}
  <2> DEFINE here == AtBest(rs, active)
             new  == AtBest(there, moved)
  <2>1. moved # {}
    BY <1>3, <1>5
  <2>2. MinPriority(there, moved) = MinPriority(rs, active)
    <3> DEFINE a == MinPriority(rs, active)
               b == MinPriority(there, moved)
    <3>1. /\ a \in Int
          /\ \E i \in active : a = rs[i].priority
          /\ \A i \in active : a <= rs[i].priority
      BY <1>5, MinPriorityIsLeast
    <3>2. /\ b \in Int
          /\ \E i \in moved : b = there[i].priority
          /\ \A i \in moved : b <= there[i].priority
      BY <1>2, <1>3, <2>1, MinPriorityIsLeast
    <3> HIDE DEF a, b
    <3>3. a <= b
      BY <1>3, <3>1, <3>2
    <3>4. b <= a
      BY <1>3, <3>1, <3>2
    <3> QED BY <3>1, <3>2, <3>3, <3>4 DEF a, b
  <2>3. /\ \A i \in new : p[i] \in here /\ there[i] = rs[p[i]] /\ i \in DOMAIN rs
        /\ \A j \in here : \E i \in new : p[i] = j
        /\ here \subseteq DOMAIN rs
    BY <1>3, <2>2 DEF AtBest
  <2>4. (\E i, j \in new : i # j) <=> (\E i, j \in here : i # j)
    <3> HIDE DEF new, here
    <3>1. ASSUME NEW i \in new, NEW j \in new, i # j
          PROVE  \E k, l \in here : k # l
      BY <1>1, <2>3, <3>1
    <3>2. ASSUME NEW k \in here, NEW l \in here, k # l
          PROVE  \E i, j \in new : i # j
      <4>1. PICK i \in new : p[i] = k
        BY <2>3
      <4>2. PICK j \in new : p[j] = l
        BY <2>3
      <4> QED BY <3>2, <4>1, <4>2
    <3> QED BY <3>1, <3>2
  <2>5. {there[i].id : i \in new} = {rs[j].id : j \in here}
    <3> HIDE DEF new, here
    <3> QED BY <2>3
  <2>6. RouteCandidates(there, moved, type) = RouteCandidates(rs, active, type)
    <3> DEFINE row(r)  == [rule |-> r.id, route |-> r.target, priority |-> r.priority]
               ours   == {row(rs[i]) : i \in {j \in active : rs[j].target # NoTarget}}
               theirs == {row(there[i]) : i \in {j \in moved : there[j].target # NoTarget}}
    <3>1. theirs = ours
      <4> HIDE DEF row
      <4>1. \A i \in moved : there[i] = rs[p[i]] /\ p[i] \in active
        BY <1>3
      <4>2. theirs \subseteq ours
        BY <4>1
      <4>3. ours \subseteq theirs
        <5> SUFFICES ASSUME NEW j \in active, rs[j].target # NoTarget
                     PROVE  row(rs[j]) \in theirs
          OBVIOUS
        <5>1. PICK i \in moved : p[i] = j
          BY <1>3
        <5> QED BY <4>1, <5>1
      <4> QED BY <4>2, <4>3
    <3>2. RouteCandidates(rs, active, type) = IF type # "route" THEN <<>> ELSE InOrder(ours)
      BY DEF RouteCandidates
    <3>3. RouteCandidates(there, moved, type) = IF type # "route" THEN <<>> ELSE InOrder(theirs)
      BY DEF RouteCandidates
    <3> HIDE DEF ours, theirs
    <3> QED BY <3>1, <3>2, <3>3
  <2> DEFINE routes == RouteCandidates(rs, active, type)
             best   == MinPriority(rs, active)
  <2>7. Select(rs, active, type) =
          IF \E i, j \in here : i # j
            THEN [Outcome("ambiguous", routes) EXCEPT
                    !.priority = best, !.candidates = {rs[i].id : i \in here}]
            ELSE Single(rs[CHOOSE i \in here : TRUE], routes)
    BY <1>5 DEF Select
  <2>8. Select(there, moved, type) =
          IF \E i, j \in new : i # j
            THEN [Outcome("ambiguous", routes) EXCEPT
                    !.priority = best, !.candidates = {there[i].id : i \in new}]
            ELSE Single(there[CHOOSE i \in new : TRUE], routes)
    BY <2>1, <2>2, <2>6 DEF Select
  <2> HIDE DEF here, new, routes, best
  <2>9. CASE \E i, j \in here : i # j
    BY <2>4, <2>5, <2>7, <2>8, <2>9 DEF there, moved
  <2>10. CASE ~ \E i, j \in here : i # j
    <3>1. PICK k \in new : TRUE
      <4>1. \E i \in moved : i \in AtBest(there, moved)
        BY <1>2, <1>3, <2>1, AtBestIsTied
      <4> QED BY <4>1 DEF new
    <3>2. new = {k} /\ here = {p[k]} /\ there[k] = rs[p[k]]
      BY <2>3, <2>4, <2>10, <3>1
    <3>3. (CHOOSE i \in new : TRUE) = k /\ (CHOOSE i \in here : TRUE) = p[k]
      BY <3>2
    <3>4. Select(there, moved, type) = Select(rs, active, type)
      BY <2>4, <2>7, <2>8, <2>10, <3>2, <3>3
    <3> QED BY <3>4 DEF there, moved
  <2> QED BY <2>9, <2>10
<1> QED BY <1>4, <1>5

LEMMA OrderFreeState == TypeInv => OrderFree
<1> SUFFICES ASSUME TypeInv, NEW p \in Orders, NEW type \in RuleTypes
             PROVE  Resolve(Reordered(rules, p), verdict, degraded, type) = Result(type)
  BY DEF OrderFree, Reordered
<1>1. /\ rules \in Seq(Rule)
      /\ p \in [DOMAIN rules -> DOMAIN rules] /\ Range(p) = DOMAIN rules
  BY DEF TypeInv, Orders
<1> DEFINE there   == Reordered(rules, p)
           failing == Failing(rules, OfType(rules, type), verdict)
           live    == Active(rules, OfType(rules, type), verdict, degraded)
<1>2. /\ Failing(there, OfType(there, type), verdict) = Places(rules, p, failing)
      /\ Active(there, OfType(there, type), verdict, degraded) = Places(rules, p, live)
  BY <1>1, ReorderedPlaces
<1>3. failing \subseteq DOMAIN rules /\ live \in SUBSET DOMAIN rules
  BY DEF Failing, Active, OfType
<1>4. Resolve(there, verdict, degraded, type) =
        IF Places(rules, p, failing) # {} THEN Outcome("unsupported", <<>>)
        ELSE Select(there, Places(rules, p, live), type)
  BY <1>2 DEF Resolve, ResolveAmong
<1>5. Result(type) = IF failing # {} THEN Outcome("unsupported", <<>>)
                     ELSE Select(rules, live, type)
  BY DEF Result, Resolve, ResolveAmong
<1> HIDE DEF failing, live, there
<1>6. Places(rules, p, failing) = {} <=> failing = {}
  <2>1. \A j \in DOMAIN rules : \E i \in DOMAIN rules : p[i] = j
    BY <1>1, OrderIsInjective
  <2> QED BY <1>3, <2>1 DEF Places
<1>7. Select(there, Places(rules, p, live), type) = Select(rules, live, type)
  BY <1>1, <1>3, SelectReordered DEF there
<1> QED BY <1>4, <1>5, <1>6, <1>7 DEF there

-----------------------------------------------------------------------------
(***************************************************************************)
(* The rules stay rules, whatever authors do.                              *)
(***************************************************************************)
LEMMA InsertedRules ==
  ASSUME NEW rs \in Seq(Rule), NEW i \in 1 .. Len(rs) + 1, NEW r \in Rule
  PROVE  InsertAt(rs, i, r) \in Seq(Rule)
<1> HIDE DEF Rule
<1>1. SubSeq(rs, 1, i - 1) \in Seq(Rule) /\ SubSeq(rs, i, Len(rs)) \in Seq(Rule)
  OBVIOUS
<1>2. <<r>> \in Seq(Rule)
  OBVIOUS
<1> QED BY <1>1, <1>2, ConcatProperties DEF InsertAt

LEMMA RemovedRules ==
  ASSUME NEW rs \in Seq(Rule), NEW i \in DOMAIN rs
  PROVE  RemoveAt(rs, i) \in Seq(Rule)
<1> HIDE DEF Rule
<1>1. SubSeq(rs, 1, i - 1) \in Seq(Rule) /\ SubSeq(rs, i + 1, Len(rs)) \in Seq(Rule)
  OBVIOUS
<1> QED BY <1>1, ConcatProperties DEF RemoveAt

LEMMA TypeInvStep == TypeInv /\ [Next]_vars => TypeInv'
<1> SUFFICES ASSUME TypeInv, [Next]_vars PROVE TypeInv'
  OBVIOUS
<1>0. rules \in Seq(Rule) /\ verdict \in [Clauses -> Verdicts]
  BY DEF TypeInv
<1>1. ASSUME NEW r \in Rules, Write(r) PROVE TypeInv'
  <2>1. PICK i \in 1 .. Len(rules) + 1 : rules' = InsertAt(rules, i, r)
    BY <1>1 DEF Write
  <2>2. rules' \in Seq(Rule)
    BY <1>0, <2>1, RulesAssumption, InsertedRules
  <2> QED BY <1>0, <1>1, <2>2 DEF Write, TypeInv
<1>2. CASE Delete
  <2>1. PICK i \in DOMAIN rules : rules' = RemoveAt(rules, i)
    BY <1>2 DEF Delete
  <2>2. rules' \in Seq(Rule)
    BY <1>0, <2>1, RemovedRules
  <2> QED BY <1>0, <1>2, <2>2 DEF Delete, TypeInv
<1>3. ASSUME NEW c \in Clauses, Signal(c) PROVE TypeInv'
  BY <1>0, <1>3 DEF Signal, TypeInv
<1>4. ASSUME NEW p \in Providers, Degrade(p) \/ Recover(p) PROVE TypeInv'
  BY <1>0, <1>4 DEF Degrade, Recover, TypeInv
<1>5. CASE UNCHANGED vars
  BY <1>0, <1>5 DEF vars, TypeInv
<1> QED BY <1>1, <1>2, <1>3, <1>4, <1>5 DEF Next

\* What is loaded is always a sequence of rules, and every clause has a verdict.
THEOREM SpecTypeInv == Spec => []TypeInv
<1>1. Init => TypeInv
  BY DEF Init, TypeInv, Verdicts
<1> QED BY <1>1, TypeInvStep, PTL DEF Spec

\* Whatever the rules, verdicts and degraded providers, moving rules within and
\* between files never changes what orderRulesForResolve and selectFromActive
\* select, nor what they list.
THEOREM SpecOrderFree == Spec => []OrderFree
BY SpecTypeInv, OrderFreeState, PTL

\* The trace that ResolveStateTrace returns always explains the outcome beside
\* it: which matches were not suppressed, and that the best of them decided.
THEOREM SpecTraceExplains == Spec => []TraceExplains
BY SpecTypeInv, TraceExplainsState, PTL

-----------------------------------------------------------------------------
(***************************************************************************)
(* A provider that degrades gains no rule.                                 *)
(***************************************************************************)
\* More degraded providers suppress more rules, so that fewer are active.
LEMMA FewerActive ==
  ASSUME NEW rs \in Seq(Rule), NEW among, NEW says, NEW few, NEW many, few \subseteq many
  PROVE  Active(rs, among, says, many) \subseteq Active(rs, among, says, few)
BY DEF Active, SuppressedBy

\* What fewer active rules resolve, all of them resolved, tied or found without
\* a target, at a priority no worse.
LEMMA FewerGainNothing ==
  ASSUME NEW rs \in Seq(Rule), NEW all \in SUBSET DOMAIN rs, NEW some \in SUBSET all,
         NEW type, Select(rs, some, type).kind = "resolved"
  PROVE  /\ Select(rs, all, type).kind \in {"resolved", "ambiguous", "unsupported"}
         /\ Select(rs, all, type).kind # "unsupported"
              => Select(rs, all, type).priority <= Select(rs, some, type).priority
<1>1. some # {}
  BY SelectNothing
<1> DEFINE a == Select(rs, all, type)
           s == Select(rs, some, type)
<1>2. PICK i \in all : Decides(rs, all, a, i)
  BY <1>1, SelectFacts
<1>3. PICK j \in some : Decides(rs, some, s, j)
  BY <1>1, SelectFacts
<1> HIDE DEF a, s
<1>4. s.kind = "resolved"
  BY DEF s
<1>5. s.priority = rs[j].priority
  BY <1>3, <1>4 DEF Decides
<1>6. rs[i].priority <= rs[j].priority
  BY <1>2 DEF Decides, Best
<1>7. a.kind \in {"resolved", "ambiguous", "unsupported"}
  BY <1>2 DEF Decides
<1>8. a.kind # "unsupported" => a.priority = rs[i].priority
  BY <1>2 DEF Decides
<1> QED BY <1>5, <1>6, <1>7, <1>8 DEF a, s

\* What resolves after a provider degraded resolved or tied before, at a
\* priority no worse, or ended with an unsupported target: suppression in
\* selectFromActive never promotes a rule past a better one that still holds.
THEOREM SpecDegradeNeverPromotes == Spec => DegradeNeverPromotes
<1> DEFINE Gained(type) ==
             rules' = rules /\ verdict' = verdict /\ degraded \subseteq degraded'
               /\ Result(type)'.kind = "resolved"
             => /\ Result(type).kind \in {"resolved", "ambiguous", "unsupported"}
                /\ Result(type).kind # "unsupported"
                     => Result(type).priority <= Result(type)'.priority
<1>1. ASSUME TypeInv PROVE \A type \in RuleTypes : Gained(type)
  <2> SUFFICES ASSUME NEW type \in RuleTypes,
                      rules' = rules, verdict' = verdict, degraded \subseteq degraded',
                      Result(type)'.kind = "resolved"
               PROVE  /\ Result(type).kind \in {"resolved", "ambiguous", "unsupported"}
                      /\ Result(type).kind # "unsupported"
                           => Result(type).priority <= Result(type)'.priority
    OBVIOUS
  <2> DEFINE places == OfType(rules, type)
             before == Active(rules, places, verdict, degraded)
             after  == Active(rules, places, verdict, degraded')
  <2>1. Result(type)' = ResolveAmong(rules, places, verdict, degraded', type)
    BY DEF Result, Resolve
  <2>2. Result(type) = ResolveAmong(rules, places, verdict, degraded, type)
    BY DEF Result, Resolve
  <2>3. Failing(rules, places, verdict) = {}
    BY <2>1, SelectNothing DEF ResolveAmong
  <2>4. Result(type)' = Select(rules, after, type) /\ Result(type) = Select(rules, before, type)
    BY <2>1, <2>2, <2>3 DEF ResolveAmong
  <2>5. rules \in Seq(Rule) /\ before \in SUBSET DOMAIN rules
    <3>1. rules \in Seq(Rule)
      BY <1>1 DEF TypeInv
    <3>2. before \in SUBSET DOMAIN rules
      BY DEF Active, OfType
    <3> QED BY <3>1, <3>2
  <2>6. after \in SUBSET before
    BY <2>5, FewerActive
  <2> HIDE DEF before, after, places
  <2> QED BY <2>4, <2>5, <2>6, FewerGainNothing
<1>2. TypeInv /\ [Next]_vars => [\A type \in RuleTypes : Gained(type)]_vars
  BY <1>1
<1> HIDE DEF Gained
<1> QED BY <1>2, SpecTypeInv, PTL DEF Spec, DegradeNeverPromotes, Gained

-----------------------------------------------------------------------------
(***************************************************************************)
(* Knowledge: what is chosen of a list.                                    *)
(***************************************************************************)
\* The number of places up to one.
Rank(places, i) == Cardinality({j \in places : j <= i})

LEMMA RankGrows ==
  ASSUME NEW S \in SUBSET Nat, IsFiniteSet(S), NEW i \in S, NEW k \in S, i < k
  PROVE  Rank(S, i) \in Nat /\ Rank(S, k) \in Nat /\ Rank(S, i) < Rank(S, k)
<1> DEFINE below(x) == {j \in S : j <= x}
<1>1. below(i) \in SUBSET S /\ below(k) \in SUBSET S
  OBVIOUS
<1>2. below(i) \in SUBSET below(k) /\ k \in below(k) /\ k \notin below(i)
  <2>1. ASSUME NEW j \in S, j <= i PROVE j <= k
    BY <2>1
  <2>2. below(i) \in SUBSET below(k)
    BY <2>1
  <2>3. k <= k /\ ~ (k <= i)
    OBVIOUS
  <2> QED BY <2>2, <2>3
<1> HIDE DEF below
<1>3. IsFiniteSet(below(i)) /\ IsFiniteSet(below(k))
  BY <1>1, FS_Subset
<1>4. Cardinality(below(i)) \in Nat /\ Cardinality(below(k)) \in Nat
  BY <1>3, FS_CardinalityType
<1>5. Cardinality(below(i)) <= Cardinality(below(k)) /\ Cardinality(below(i)) # Cardinality(below(k))
  BY <1>2, <1>3, FS_Subset
<1> QED BY <1>4, <1>5 DEF Rank, below

\* Every place has a rank, and every rank a place.
LEMMA RankIsBijective ==
  ASSUME NEW S \in SUBSET Nat, IsFiniteSet(S)
  PROVE  /\ Cardinality(S) \in Nat
         /\ \A i \in S : Rank(S, i) \in 1 .. Cardinality(S)
         /\ \A i, k \in S : Rank(S, i) = Rank(S, k) => i = k
         /\ \A n \in 1 .. Cardinality(S) : \E i \in S : Rank(S, i) = n
<1> DEFINE c == Cardinality(S)
           rank == [i \in S |-> Rank(S, i)]
<1>1. c \in Nat
  BY FS_CardinalityType
<1>2. ASSUME NEW i \in S PROVE Rank(S, i) \in 1 .. c
  <2> DEFINE below == {j \in S : j <= i}
  <2>1. below \in SUBSET S /\ i \in below
    OBVIOUS
  <2> HIDE DEF below
  <2>2. IsFiniteSet(below) /\ Cardinality(below) <= c
    BY <2>1, FS_Subset
  <2>3. Cardinality(below) \in Nat
    BY <2>2, FS_CardinalityType
  <2>4. Cardinality(below) # 0
    BY <2>1, <2>2, FS_EmptySet
  <2>5. Rank(S, i) = Cardinality(below)
    BY DEF Rank, below
  <2> HIDE DEF c
  <2> QED BY <1>1, <2>2, <2>3, <2>4, <2>5
<1>3. ASSUME NEW i \in S, NEW k \in S, Rank(S, i) = Rank(S, k) PROVE i = k
  <2>1. i < k \/ k < i \/ i = k
    OBVIOUS
  <2>2. ~ (i < k) /\ ~ (k < i)
    BY <1>3, RankGrows
  <2> QED BY <2>1, <2>2
<1>4. ASSUME NEW n \in 1 .. c PROVE \E i \in S : Rank(S, i) = n
  <2>1. rank \in Injection(S, 1 .. c)
    BY <1>2, <1>3 DEF Injection, IsInjective
  <2>2. IsFiniteSet(1 .. c) /\ Cardinality(1 .. c) = c
    <3> HIDE DEF c
    <3> QED BY <1>1, FS_Interval
  <2>3. rank \in Surjection(S, 1 .. c)
    BY <2>1, <2>2, FS_Injection
  <2> QED BY <2>3 DEF Surjection
<1> QED BY <1>1, <1>2, <1>3, <1>4

\* What is chosen is a list of the elements at the places; it repeats none that
\* the places do not.
LEMMA ChosenFacts ==
  ASSUME NEW s, NEW S \in SUBSET Nat, IsFiniteSet(S)
  PROVE  /\ Cardinality(S) \in Nat
         /\ DOMAIN Chosen(s, S) = 1 .. Cardinality(S)
         /\ Range(Chosen(s, S)) = {s[i] : i \in S}
         /\ (\A i, k \in S : s[i] = s[k] => i = k) => IsInjective(Chosen(s, S))
<1> DEFINE c == Chosen(s, S)
           place(n) == CHOOSE i \in S : Rank(S, i) = n
<1>1. Cardinality(S) \in Nat
  BY RankIsBijective
<1>2. c = [n \in 1 .. Cardinality(S) |-> s[place(n)]]
  BY DEF Chosen, Rank
<1>3. \A n \in 1 .. Cardinality(S) : place(n) \in S /\ Rank(S, place(n)) = n
  BY RankIsBijective
<1>4. \A i \in S : Rank(S, i) \in 1 .. Cardinality(S) /\ place(Rank(S, i)) = i
  BY RankIsBijective
<1> HIDE DEF c, place
<1>5. DOMAIN c = 1 .. Cardinality(S) /\ \A n \in 1 .. Cardinality(S) : c[n] = s[place(n)]
  BY <1>2
<1>6. Range(c) = {s[i] : i \in S}
  <2>1. ASSUME NEW x \in Range(c) PROVE x \in {s[i] : i \in S}
    BY <1>3, <1>5, <2>1 DEF Range
  <2>2. ASSUME NEW i \in S PROVE s[i] \in Range(c)
    BY <1>4, <1>5 DEF Range
  <2> QED BY <2>1, <2>2
<1>7. (\A i, k \in S : s[i] = s[k] => i = k) => IsInjective(c)
  <2> SUFFICES ASSUME \A i, k \in S : s[i] = s[k] => i = k,
                      NEW n \in DOMAIN c, NEW m \in DOMAIN c, c[n] = c[m]
               PROVE  n = m
    BY DEF IsInjective
  <2>1. place(n) = place(m)
    BY <1>3, <1>5
  <2> QED BY <1>3, <1>5, <2>1
<1> QED BY <1>1, <1>5, <1>6, <1>7 DEF c

LEMMA SomePlaces ==
  ASSUME NEW m \in Seq(Entry), NEW S \in SUBSET DOMAIN m
  PROVE  /\ Chosen(m, S) \in Seq(Entry)
         /\ Range(Chosen(m, S)) = {m[i] : i \in S}
<1>1. DOMAIN m = 1 .. Len(m) /\ Len(m) \in Nat
  OBVIOUS
<1>2. S \in SUBSET Nat /\ IsFiniteSet(S)
  <2>1. IsFiniteSet(DOMAIN m)
    BY <1>1, FS_Interval
  <2> QED BY <1>1, <2>1, FS_Subset
<1>3. \A i \in S : m[i] \in Entry
  <2> HIDE DEF Entry
  <2> QED BY <1>1
<1> DEFINE c == Chosen(m, S)
<1>4. /\ Cardinality(S) \in Nat /\ DOMAIN c = 1 .. Cardinality(S)
      /\ Range(c) = {m[i] : i \in S}
  BY <1>2, ChosenFacts
<1>5. \A n \in DOMAIN c : c[n] \in Entry
  BY <1>3, <1>4 DEF Range
<1>6. c = [n \in 1 .. Cardinality(S) |-> c[n]]
  BY <1>4 DEF Chosen
<1> HIDE DEF c, Entry
<1>7. c \in Seq(Entry)
  BY <1>4, <1>5, <1>6
<1> QED BY <1>4, <1>7 DEF c

\* Every id of two lists is among the union's, each once.
LEMMA UnionFacts ==
  ASSUME NEW a \in Seq(Entry), NEW b \in Seq(Entry)
  PROVE  LET u == UnionByEntryId(a, b) IN
         /\ Range(u) \subseteq Range(a) \cup Range(b)
         /\ \A e \in Range(a) \cup Range(b) : \E x \in Range(u) : x.id = e.id
         /\ IsInjective(u)
<1> DEFINE both  == a \o b
           first == {i \in DOMAIN both : \A j \in 1 .. i - 1 : both[j].id # both[i].id}
           u     == Chosen(both, first)
<1>1. both \in Seq(Entry) /\ DOMAIN both = 1 .. Len(a) + Len(b)
  <2> HIDE DEF Entry
  <2> QED OBVIOUS
<1>2. Range(both) = Range(a) \cup Range(b)
  <2> HIDE DEF Entry
  <2>1. \A i \in 1 .. Len(a) + Len(b) : both[i] = IF i <= Len(a) THEN a[i] ELSE b[i - Len(a)]
    OBVIOUS
  <2>2. DOMAIN a = 1 .. Len(a) /\ DOMAIN b = 1 .. Len(b) /\ Len(a) \in Nat /\ Len(b) \in Nat
    OBVIOUS
  <2> HIDE DEF both
  <2>3. ASSUME NEW i \in DOMAIN both PROVE both[i] \in Range(a) \cup Range(b)
    BY <1>1, <2>1, <2>2 DEF Range
  <2>4. ASSUME NEW i \in DOMAIN a PROVE a[i] \in Range(both)
    BY <1>1, <2>1, <2>2 DEF Range
  <2>5. ASSUME NEW i \in DOMAIN b PROVE b[i] \in Range(both)
    <3>1. i + Len(a) \in DOMAIN both /\ both[i + Len(a)] = b[i]
      BY <1>1, <2>1, <2>2
    <3> QED BY <3>1 DEF Range
  <2> QED BY <2>3, <2>4, <2>5 DEF Range
<1> HIDE DEF both
<1>3. first \in SUBSET DOMAIN both
  OBVIOUS
<1>4. first \in SUBSET Nat /\ IsFiniteSet(first)
  <2>1. DOMAIN both \in SUBSET Nat /\ IsFiniteSet(DOMAIN both)
    BY <1>1, FS_Interval
  <2> QED BY <1>3, <2>1, FS_Subset
<1>5. \A i, k \in first : both[i].id = both[k].id => i = k
  <2> SUFFICES ASSUME NEW i \in first, NEW k \in first, both[i].id = both[k].id, i < k
               PROVE  FALSE
    BY <1>4
  <2>1. i \in 1 .. k - 1
    BY <1>1, <1>3
  <2> QED BY <2>1
<1>6. ASSUME NEW i \in DOMAIN both PROVE \E k \in first : both[k].id = both[i].id
  <2> DEFINE same == {j \in DOMAIN both : both[j].id = both[i].id}
  <2>1. same \in SUBSET Nat /\ same # {}
    BY <1>1
  <2>2. PICK k \in same : \A j \in same : k <= j
    BY <2>1, LeastElement
  <2>3. ASSUME NEW j \in 1 .. k - 1 PROVE both[j].id # both[k].id
    <3>1. j \in DOMAIN both /\ ~ (k <= j)
      BY <1>1
    <3> QED BY <2>2, <3>1
  <2> QED BY <2>2, <2>3
<1>7. UnionByEntryId(a, b) = u
  BY DEF UnionByEntryId, both
<1>8. Range(u) = {both[i] : i \in first}
  BY <1>4, ChosenFacts
<1>9. IsInjective(u)
  BY <1>4, <1>5, ChosenFacts
<1> HIDE DEF u, first
<1>10. Range(u) \subseteq Range(both)
  BY <1>3, <1>8 DEF Range
<1>11. \A e \in Range(both) : \E x \in Range(u) : x.id = e.id
  BY <1>6, <1>8 DEF Range
<1> QED BY <1>2, <1>7, <1>9, <1>10, <1>11

\* What FilterBySignals and FilterByQuery keep of a list.
LEMMA FilterFacts ==
  ASSUME NEW m \in Seq(Entry)
  PROVE  /\ FilterBySignals(m, verdict) \in Seq(Entry)
         /\ Range(FilterBySignals(m, verdict))
              = {m[i] : i \in {j \in DOMAIN m : KeptBySignals(m[j], verdict)}}
         /\ FilterByQuery(m, TRUE) \in Seq(Entry)
         /\ Range(FilterByQuery(m, TRUE)) = {m[i] : i \in {j \in DOMAIN m : m[j].hit}}
<1>1. {j \in DOMAIN m : KeptBySignals(m[j], verdict)} \in SUBSET DOMAIN m
  OBVIOUS
<1>2. {j \in DOMAIN m : m[j].hit} \in SUBSET DOMAIN m
  OBVIOUS
<1> QED BY <1>1, <1>2, SomePlaces DEF FilterBySignals, FilterByQuery

\* What FilterUnion hands out is selected, and all that is selected is handed out.
LEMMA UnionIsSelection ==
  ASSUME NEW m \in Manifests
  PROVE  LET u == FilterUnion(m, verdict, TRUE, TRUE) IN
         /\ Range(u) = Range(FilterBySignals(m, verdict)) \cup Range(FilterByQuery(m, TRUE))
         /\ IsInjective(u)
<1> DEFINE a == FilterBySignals(m, verdict)
           b == FilterByQuery(m, TRUE)
           u == UnionByEntryId(a, b)
<1>1. m \in Seq(Entry) /\ \A i, j \in DOMAIN m : m[i].id = m[j].id => i = j
  BY ManifestsAssumption
<1>2. a \in Seq(Entry) /\ b \in Seq(Entry) /\ Range(a) \cup Range(b) \subseteq {m[i] : i \in DOMAIN m}
  <2>1. /\ a \in Seq(Entry) /\ b \in Seq(Entry)
        /\ Range(a) = {m[i] : i \in {j \in DOMAIN m : KeptBySignals(m[j], verdict)}}
        /\ Range(b) = {m[i] : i \in {j \in DOMAIN m : m[j].hit}}
    <3> HIDE DEF Entry
    <3> QED BY <1>1, FilterFacts
  <2> HIDE DEF a, b
  <2>2. Range(a) \subseteq {m[i] : i \in DOMAIN m}
    BY <2>1
  <2>3. Range(b) \subseteq {m[i] : i \in DOMAIN m}
    BY <2>1
  <2> QED BY <2>1, <2>2, <2>3
<1> HIDE DEF a, b
<1>3. /\ Range(u) \subseteq Range(a) \cup Range(b)
      /\ \A e \in Range(a) \cup Range(b) : \E x \in Range(u) : x.id = e.id
      /\ IsInjective(u)
  BY <1>2, UnionFacts
<1> HIDE DEF u
<1>4. \A e, x \in Range(a) \cup Range(b) : e.id = x.id => e = x
  BY <1>1, <1>2
<1>5. Range(a) \cup Range(b) \subseteq Range(u)
  BY <1>3, <1>4
<1>6. FilterUnion(m, verdict, TRUE, TRUE) = u
  BY DEF FilterUnion, u, a, b
<1> QED BY <1>3, <1>5, <1>6 DEF a, b

LEMMA KnowledgeNotHiddenState == TypeInv => KnowledgeNotHidden
<1> SUFFICES ASSUME TypeInv, NEW m \in Manifests
             PROVE  LET plain   == FilterUnion(m, verdict, TRUE, FALSE)
                        queried == FilterUnion(m, verdict, TRUE, TRUE)
                    IN  /\ \A i \in DOMAIN m :
                             m[i] \notin Range(queried) =>
                               /\ ~ m[i].hit
                               /\ m[i].when \in Clauses /\ verdict[m[i].when] = "no_match"
                        /\ Range(queried) = Range(plain) \cup Range(FilterByQuery(m, TRUE))
                        /\ IsInjective(queried)
  BY DEF KnowledgeNotHidden
<1> DEFINE queried == FilterUnion(m, verdict, TRUE, TRUE)
<1>1. FilterUnion(m, verdict, TRUE, FALSE) = FilterBySignals(m, verdict)
  BY DEF FilterUnion
<1>2. /\ Range(queried) = Range(FilterBySignals(m, verdict)) \cup Range(FilterByQuery(m, TRUE))
      /\ IsInjective(queried)
  BY UnionIsSelection
<1>3. m \in Seq(Entry)
  BY ManifestsAssumption
<1> HIDE DEF queried
<1>4. ASSUME NEW i \in DOMAIN m, m[i] \notin Range(queried)
      PROVE  /\ ~ m[i].hit
             /\ m[i].when \in Clauses /\ verdict[m[i].when] = "no_match"
  <2>1. ~ m[i].hit
    BY <1>2, <1>3, <1>4, FilterFacts
  <2>2. ~ KeptBySignals(m[i], verdict)
    BY <1>2, <1>3, <1>4, FilterFacts
  <2>3. DOMAIN verdict = Clauses
    BY DEF TypeInv
  <2> QED BY <2>1, <2>2, <2>3 DEF KeptBySignals
<1> QED BY <1>1, <1>2, <1>4 DEF queried

\* Of any knowledge manifest, whatever its clauses say or fail to say, FilterUnion
\* hides from an agent only what both the signals and the query rule out.
THEOREM SpecKnowledgeNotHidden == Spec => []KnowledgeNotHidden
BY SpecTypeInv, KnowledgeNotHiddenState, PTL

-----------------------------------------------------------------------------
(***************************************************************************)
(* How the verdicts of sub-clauses combine, for lists of any length.       *)
(***************************************************************************)
\* The walk ends at the first verdict that is not the neutral one.
LEMMA FirstOtherFacts ==
  ASSUME NEW vs \in Seq(Verdicts), NEW neutral
  PROVE  \/ /\ FirstOther(vs, neutral) = neutral
            /\ \A i \in DOMAIN vs : vs[i] = neutral
         \/ \E i \in DOMAIN vs : /\ FirstOther(vs, neutral) = vs[i] /\ vs[i] # neutral
                                 /\ \A j \in DOMAIN vs : j < i => vs[j] = neutral
<1> DEFINE others == {i \in DOMAIN vs : vs[i] # neutral}
<1>1. CASE others = {}
  BY <1>1 DEF FirstOther
<1>2. CASE others # {}
  <2>1. others \in SUBSET Nat
    OBVIOUS
  <2>2. \E m \in others : \A x \in others : m <= x
    BY <1>2, <2>1, LeastElement
  <2> DEFINE i == Min(others)
  <2>3. i \in others /\ \A x \in others : i <= x
    BY <2>2 DEF Min
  <2>4. FirstOther(vs, neutral) = vs[i]
    BY <1>2 DEF FirstOther
  <2> HIDE DEF i
  <2>5. ASSUME NEW j \in DOMAIN vs, j < i PROVE vs[j] = neutral
    <3>1. j \in Nat /\ i \in Nat
      BY <2>1, <2>3
    <3> QED BY <2>3, <2>5, <3>1
  <2> QED BY <2>3, <2>4, <2>5
<1> QED BY <1>1, <1>2

\* What a conjunction and a disjunction say, from what is in the list.
LEMMA CombinedFacts ==
  ASSUME NEW vs \in Seq(Verdicts)
  PROVE  /\ And(vs) \in Verdicts /\ Or(vs) \in Verdicts
         /\ And(vs) = "match" <=> Range(vs) \subseteq {"match"}
         /\ And(vs) # "match" => And(vs) \in Range(vs)
         /\ Or(vs) = "no_match" <=> Range(vs) \subseteq {"no_match"}
         /\ Or(vs) # "no_match" => Or(vs) \in Range(vs)
<1>1. \A i \in DOMAIN vs : vs[i] \in Verdicts
  <2> HIDE DEF Verdicts
  <2> QED OBVIOUS
<1>2. /\ And(vs) \in Verdicts
      /\ And(vs) = "match" <=> \A i \in DOMAIN vs : vs[i] = "match"
      /\ And(vs) # "match" => \E i \in DOMAIN vs : And(vs) = vs[i]
  BY <1>1, FirstOtherFacts DEF And, Verdicts
<1>3. /\ Or(vs) \in Verdicts
      /\ Or(vs) = "no_match" <=> \A i \in DOMAIN vs : vs[i] = "no_match"
      /\ Or(vs) # "no_match" => \E i \in DOMAIN vs : Or(vs) = vs[i]
  BY <1>1, FirstOtherFacts DEF Or, Verdicts
<1> QED BY <1>2, <1>3 DEF Range

\* Rearranging or repeating the sub-clauses of evalAnd and evalOr never turns a
\* match into a non-match: only whether an error is met depends on the order.
THEOREM CombinedOrderFree ==
  ASSUME NEW vs \in Seq(Verdicts), NEW ws \in Seq(Verdicts), Range(vs) = Range(ws)
  PROVE  /\ And(vs) = And(ws) \/ "error" \in {And(vs), And(ws)}
         /\ Or(vs) = Or(ws) \/ "error" \in {Or(vs), Or(ws)}
<1>1. And(vs) \in Verdicts /\ And(ws) \in Verdicts /\ Or(vs) \in Verdicts /\ Or(ws) \in Verdicts
  BY CombinedFacts
<1>2. And(vs) = "match" <=> And(ws) = "match"
  BY CombinedFacts
<1>3. Or(vs) = "no_match" <=> Or(ws) = "no_match"
  BY CombinedFacts
<1> QED BY <1>1, <1>2, <1>3 DEF Verdicts

\* A clause that said no now says yes.
Promoted(before, after) == after = "match" /\ before = "no_match"

\* If no sub-clause of evalAnd or evalOr is promoted from no match to match, then
\* neither is the clause, whichever errors stop its walk.
THEOREM CombinedNotPromoted ==
  ASSUME NEW vs \in Seq(Verdicts), NEW ws \in Seq(Verdicts), Len(vs) = Len(ws),
         \A i \in DOMAIN vs : ~ Promoted(vs[i], ws[i])
  PROVE  ~ Promoted(And(vs), And(ws)) /\ ~ Promoted(Or(vs), Or(ws))
<1>1. DOMAIN vs = DOMAIN ws
  OBVIOUS
<1>2. ASSUME Promoted(And(vs), And(ws)) PROVE FALSE
  <2>1. \A i \in DOMAIN ws : ws[i] = "match"
    BY <1>2, CombinedFacts DEF Promoted, Range
  <2>2. PICK i \in DOMAIN vs : vs[i] = "no_match"
    BY <1>2, CombinedFacts DEF Promoted, Range
  <2> QED BY <1>1, <2>1, <2>2 DEF Promoted
<1>3. ASSUME Promoted(Or(vs), Or(ws)) PROVE FALSE
  <2>1. \A i \in DOMAIN vs : vs[i] = "no_match"
    BY <1>3, CombinedFacts DEF Promoted, Range
  <2>2. PICK i \in DOMAIN ws : ws[i] = "match"
    BY <1>3, CombinedFacts DEF Promoted, Range
  <2> QED BY <1>1, <2>1, <2>2 DEF Promoted
<1> QED BY <1>2, <1>3

\* all over a list is not any of the negation, with its errors and on the empty
\* list as well: evalQuant walks as evalAnd and evalOr do.
THEOREM AllIsNotAnyNegated ==
  ASSUME NEW vs \in Seq(Verdicts)
  PROVE  Negation(Or([i \in DOMAIN vs |-> Negation(vs[i])])) = And(vs)
<1> DEFINE ns == [i \in DOMAIN vs |-> Negation(vs[i])]
<1>1. DOMAIN vs = 1 .. Len(vs) /\ Len(vs) \in Nat /\ \A i \in DOMAIN vs : vs[i] \in Verdicts
  <2> HIDE DEF Verdicts
  <2> QED OBVIOUS
<1>2. \A i \in DOMAIN vs : ns[i] = Negation(vs[i]) /\ ns[i] \in Verdicts
  BY <1>1 DEF Negation, Verdicts
<1>3. ns \in Seq(Verdicts) /\ DOMAIN ns = DOMAIN vs
  <2> HIDE DEF Verdicts
  <2> QED BY <1>1, <1>2
<1> HIDE DEF ns
<1>4. \A i \in DOMAIN vs : ns[i] = "no_match" <=> vs[i] = "match"
  BY <1>1, <1>2 DEF Negation, Verdicts
<1>5. CASE \A i \in DOMAIN vs : vs[i] = "match"
  <2>1. And(vs) = "match" /\ Or(ns) = "no_match"
    BY <1>3, <1>4, <1>5, CombinedFacts DEF Range
  <2> QED BY <2>1 DEF Negation, ns
<1>6. CASE ~ \A i \in DOMAIN vs : vs[i] = "match"
  <2>1. PICK i \in DOMAIN vs : /\ And(vs) = vs[i] /\ vs[i] # "match"
                               /\ \A j \in DOMAIN vs : j < i => vs[j] = "match"
    BY <1>6, FirstOtherFacts DEF And
  <2>2. PICK k \in DOMAIN vs : /\ Or(ns) = ns[k] /\ ns[k] # "no_match"
                               /\ \A j \in DOMAIN vs : j < k => ns[j] = "no_match"
    BY <1>3, <1>4, <1>6, FirstOtherFacts DEF Or
  <2>3. i = k
    BY <1>1, <1>4, <2>1, <2>2
  <2>4. Negation(Negation(vs[i])) = vs[i]
    BY <1>1 DEF Negation, Verdicts
  <2> QED BY <1>2, <2>1, <2>2, <2>3, <2>4 DEF ns
<1> QED BY <1>5, <1>6
=============================================================================
