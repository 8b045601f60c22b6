---------------------------- MODULE ControlRules ----------------------------
(***************************************************************************)
(* A control rule set in use: authors edit the rule files, providers       *)
(* degrade and recover, signals change, and every rgd call resolves the    *)
(* loaded rules, or filters the knowledge, against what it observes then.  *)
(***************************************************************************)
EXTENDS Resolve, KnowledgeFilter

CONSTANTS
  Rules,      \* the rules authors write
  MaxRules,   \* bound on the rules loaded at once
  Manifests   \* lists of knowledge entries

NoClause == "no_clause"
Entry    == [id : Nat, when : Clauses \cup {NoClause}, hit : BOOLEAN]

ASSUME RulesAssumption == Rules \subseteq Rule
\* BuildManifest refuses a duplicate id.
ASSUME ManifestsAssumption ==
  /\ NoClause \notin Clauses
  /\ Manifests \subseteq Seq(Entry)
  /\ \A m \in Manifests : \A i, j \in DOMAIN m : m[i].id = m[j].id => i = j

VARIABLES
  rules,      \* LoadResult.Rules(): all files, by path, then index
  verdict,    \* what each when-clause says of the current signals
  degraded    \* DegradedSet of the current observation

vars == <<rules, verdict, degraded>>

Init ==
  /\ rules = <<>>
  /\ verdict = [c \in Clauses |-> "no_match"]
  /\ degraded = {}

\* Distinct ids are not required of rule files; the ones used here have them.
Write(r) ==
  /\ Len(rules) < MaxRules
  /\ r \notin Range(rules)
  /\ \E i \in 1 .. Len(rules) + 1 : rules' = InsertAt(rules, i, r)
  /\ UNCHANGED <<verdict, degraded>>

Delete ==
  /\ \E i \in DOMAIN rules : rules' = RemoveAt(rules, i)
  /\ UNCHANGED <<verdict, degraded>>

Signal(c) ==
  /\ \E v \in Verdicts : verdict' = [verdict EXCEPT ![c] = v]
  /\ UNCHANGED <<rules, degraded>>

Degrade(p) ==
  /\ degraded' = degraded \cup {p}
  /\ UNCHANGED <<rules, verdict>>

Recover(p) ==
  /\ degraded' = degraded \ {p}
  /\ UNCHANGED <<rules, verdict>>

Next ==
  \/ \E r \in Rules : Write(r)
  \/ Delete
  \/ \E c \in Clauses : Signal(c)
  \/ \E p \in Providers : Degrade(p) \/ Recover(p)

Spec == Init /\ [][Next]_vars

Result(type) == Resolve(rules, verdict, degraded, type)
Trace(type)  == RuleTrace(rules, verdict, degraded, type)
-----------------------------------------------------------------------------
Orders == {p \in [DOMAIN rules -> DOMAIN rules] : Range(p) = DOMAIN rules}

\* Moving rules within and between files never changes what is selected, only
\* the order in which tied candidates are listed: no silent declaration-order
\* tie-break, whatever ties, suppressions and missing targets there are.
OrderFree ==
  \A p \in Orders, type \in RuleTypes :
    Resolve([i \in DOMAIN rules |-> rules[p[i]]], verdict, degraded, type) = Result(type)

\* A provider that degrades never gains a rule: what resolves afterwards
\* resolved or tied before, at a priority no worse.
DegradeNeverPromotes ==
  [][\A type \in RuleTypes :
       rules' = rules /\ verdict' = verdict /\ degraded \subseteq degraded'
         /\ Result(type)'.kind = "resolved"
       => /\ Result(type).kind \in {"resolved", "ambiguous", "unsupported"}
          /\ Result(type).kind # "unsupported"
               => Result(type).priority <= Result(type)'.priority]_vars

\* The rule trace explains the outcome: read alone, it says which matches were
\* not suppressed, and the outcome is theirs.
TraceExplains ==
  \A type \in RuleTypes :
    LET res   == Result(type)
        trace == Trace(type)
        live  == {i \in DOMAIN trace : trace[i].matched /\ trace[i].suppressedBy = {}}
        ties(i) == {j \in live : NearlyEqual(trace[j].priority, trace[i].priority)}
        best(i) == \A j \in live : trace[i].priority <= trace[j].priority
    IN  /\ res.kind = "degraded" => live = {}
        /\ res.kind = "resolved" =>
             \E i \in live : /\ best(i) /\ ties(i) = {i}
                             /\ trace[i].rule = res.rule
                             /\ trace[i].target = res.target
        /\ res.kind = "ambiguous" =>
             \E i \in live : /\ best(i) /\ ties(i) # {i}
                             /\ res.candidates = {trace[j].rule : j \in ties(i)}

\* knowledge/filter.go: "on match.Eval error, the entry is included (safe-side)".  An
\* agent misses an entry only if its clause says no and the query does not hit it;
\* a query never hides what the signals select, and nothing comes twice.
KnowledgeNotHidden ==
  \A m \in Manifests :
    LET plain   == FilterUnion(m, verdict, TRUE, FALSE)
        queried == FilterUnion(m, verdict, TRUE, TRUE)
    IN  /\ \A i \in DOMAIN m :
             m[i] \notin Range(queried) =>
               /\ ~ m[i].hit
               /\ m[i].when \in Clauses /\ verdict[m[i].when] = "no_match"
        /\ Range(queried) = Range(plain) \cup Range(FilterByQuery(m, TRUE))
        /\ IsInjective(queried)
=============================================================================
