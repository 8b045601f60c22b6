----------------------------- MODULE WhenClauses -----------------------------
(***************************************************************************)
(* When-clauses in use: an author writes one, wraps it, joins it with      *)
(* others; observations bring signals and lose them again.  A command      *)
(* refuses clauses ValidateWhen rejects and evaluates the others.          *)
(***************************************************************************)
EXTENDS Match, SequencesExt

CONSTANTS
  Atoms,     \* clauses without sub-clauses, malformed ones among them
  Partners,  \* those that others are joined with
  Paths,     \* signals: a facet and a name
  ValuesOf,  \* what each of them may be
  MaxDepth   \* bound on the nesting of a clause

VARIABLES
  clause, depth,
  facts      \* the values of the signals observed, by path

vars == <<clause, depth, facts>>

\* The signal map: a facet with no signals is not there at all.
Signals ==
  Object([facet \in {p[1] : p \in DOMAIN facts} |->
            Object([name \in {p[2] : p \in {q \in DOMAIN facts : q[1] = facet}} |->
                      facts[<<facet, name>>]])])
Eval(x) == EvalValue(x, Signals)

Negate(x)      == Object([not |-> x])
Join(key, x, y) == Object([k \in {key} |-> List(<<x, y>>)])
Each(op, p, x) == Object([op |-> Word(op), path |-> Path(p), when |-> x])
Count(p, x, n) == Object([op |-> Word("count"), path |-> Path(p), when |-> x, eq |-> Num(n)])

Init == clause \in Atoms /\ depth = 1 /\ facts = <<>>

Wrap ==
  /\ depth < MaxDepth
  /\ \/ clause' = Negate(clause)
     \/ \E key \in {"and", "or"}, y \in Partners : clause' = Join(key, clause, y)
     \/ \E y \in Partners : clause' = List(<<clause, y>>)
     \/ \E op \in {"any", "all"}, p \in Paths : clause' = Each(op, p, clause)
     \/ \E p \in Paths : clause' = Count(p, clause, 1)
  /\ depth' = depth + 1
  /\ UNCHANGED facts

Observe(p, x) ==
  /\ facts' = [q \in DOMAIN facts \cup {p} |-> IF q = p THEN x ELSE facts[q]]
  /\ UNCHANGED <<clause, depth>>

Lose(p) ==
  /\ p \in DOMAIN facts
  /\ facts' = [q \in DOMAIN facts \ {p} |-> facts[q]]
  /\ UNCHANGED <<clause, depth>>

Next ==
  \/ Wrap
  \/ \E p \in Paths : Lose(p) \/ \E x \in ValuesOf[p] : Observe(p, x)

Spec == Init /\ [][Next]_vars
-----------------------------------------------------------------------------
RECURSIVE Nodes(_)
\* A clause and the clauses in it.
Nodes(x) ==
  {x} \cup UNION {Nodes(y) : y \in
    CASE IsList(x)           -> Range(Val(x))
      [] Kind(x) = "object"   -> {At(x, k) : k \in DOMAIN Val(x) \cap (Combiners \cup {"when"})}
      [] OTHER               -> {}}

Objects == {x \in Nodes(clause) : Kind(x) = "object"}
Uses(x, ops) == HasWith(x, "op", LAMBDA o : o \in {Word(op) : op \in ops})

\* The operands that no validation looks at are of the types the operators want.
OperandsTyped ==
  \A x \in Objects :
    /\ Uses(x, {"gt", "lt", "gte", "lte"}) => HasWith(x, "value", Numeric)
    /\ Uses(x, {"contains"}) => HasWith(x, "value", IsString)
    /\ Uses(x, {"count"}) => HasWith(x, "eq", LAMBDA n : Numeric(n) /\ n # NaN /\ Val(n) >= 0)

\* The two walks agree: what loads never fails to evaluate, on any signals,
\* unless an operand is of the wrong type, the one thing left unchecked.  A
\* failing clause takes the whole resolution of its rule type with it.
LoadedNeverFails ==
  ValidateWhen(clause) /\ clause # Null /\ OperandsTyped => Eval(clause) # "error"

RECURSIVE Mirror(_)
\* The clause with every list of and, or and bare lists reversed.
Mirror(x) ==
  CASE IsList(x) -> List(Reverse([i \in DOMAIN Val(x) |-> Mirror(At(x, i))]))
    [] Kind(x) = "object" ->
         Object([k \in DOMAIN Val(x) |->
                   IF k \in Combiners \cup {"when"} THEN Mirror(At(x, k)) ELSE At(x, k)])
    [] OTHER -> x

\* Rearranging sub-clauses never turns a match into a non-match: as the walks
\* stop early, all it may change is whether an error is met.
OrderOnlyHidesErrors ==
  LET here == Eval(clause)  there == Eval(Mirror(clause))
  IN  here = there \/ "error" \in {here, there}

\* Without not and not_exists: ne, count and all included.
Positive == \A x \in Objects : ~ Has(x, "not") /\ ~ Uses(x, {"not_exists"})

\* A lost signal never makes a positive clause match: a provider that fails
\* cannot promote a rule.
LossNeverMatches ==
  [][(/\ clause' = clause /\ Positive
      /\ \A p \in DOMAIN facts' : p \in DOMAIN facts /\ facts'[p] = facts[p]
      /\ Eval(clause)' = "match") => Eval(clause) # "no_match"]_vars

\* On a list that is there, empty or not, all and any are dual.  On a missing
\* one they are not: both fail, so their negations match.
AllIsNotAnyNot ==
  \A p \in Paths :
    LET all    == Eval(Each("all", p, clause))
        notAny == Eval(Negate(Each("any", p, Negate(clause))))
    IN  IF IsList(GetPath(Signals, p)) THEN all = notAny
        ELSE all = "no_match" /\ notAny = "match"
=============================================================================
