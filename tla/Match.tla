-------------------------------- MODULE Match --------------------------------
(***************************************************************************)
(* When-clauses (internal/match, internal/evaluator): a clause is a piece  *)
(* of decoded YAML, checked once when the rule files are loaded            *)
(* (ValidateWhen) and evaluated against the signals at every command       *)
(* (Eval).  The two walks are written apart.                               *)
(***************************************************************************)
EXTENDS ClauseVerdicts, FiniteSets

(***************************************************************************)
(* Decoded YAML: an object is a function of its keys, a list a sequence.   *)
(* Strings are told apart as far as comparisons do: paths, numerals (which *)
(* strconv.ParseFloat takes), "nan" (which it takes too), and words.       *)
(***************************************************************************)
Null        == <<"null", 0>>
Bool(b)     == <<"bool", b>>
Num(n)      == <<"number", n>>
Numeral(n)  == <<"numeral", n>>
NaN         == <<"nan", 0>>
Word(w)     == <<"word", w>>
Path(segs)  == <<"path", segs>>
List(items) == <<"list", items>>
Object(f)   == <<"object", f>>

Kind(x)    == x[1]
Val(x)     == x[2]
At(m, key) == Val(m)[key]
Has(m, key)           == key \in DOMAIN Val(m)
HasWith(m, key, P(_)) == Has(m, key) /\ P(At(m, key))

IsString(x) == Kind(x) \in {"numeral", "nan", "word", "path"}
IsList(x)   == Kind(x) = "list"
Numeric(x)  == Kind(x) \in {"number", "numeral", "nan"}

(***************************************************************************)
(* Comparisons.                                                            *)
(***************************************************************************)
\* compareValues(a, b) = 0: as numbers if both convert, and a NaN is neither
\* less nor greater than anything; else as strings or booleans.
Equal(a, b) ==
  IF Numeric(a) /\ Numeric(b) THEN NaN \in {a, b} \/ Val(a) = Val(b)
  ELSE Kind(a) = Kind(b) /\ Kind(a) \in {"bool", "word", "path"} /\ Val(a) = Val(b)

Ordered(a, b, op) ==
  /\ NaN \notin {a, b}
  /\ CASE op = "gt"  -> Val(a) > Val(b)
       [] op = "lt"  -> Val(a) < Val(b)
       [] op = "gte" -> Val(a) >= Val(b)
       [] op = "lte" -> Val(a) <= Val(b)

GetPath_NullIfMissing(root, segs) ==
  LET next == IF Kind(root) = "object" /\ Has(root, segs[1]) THEN At(root, segs[1]) ELSE Null
  IN  IF Len(segs) = 1 THEN next
      ELSE IF Kind(next) = "object" /\ Has(next, segs[2]) THEN At(next, segs[2]) ELSE Null
Absent == <<"absent", 0>>
\* signals.GetPath.
RECURSIVE GetPath(_, _)
GetPath(root, segs) ==
  IF segs = <<>> THEN root
  ELSE IF Kind(root) # "object" THEN Absent
  ELSE IF ~ Has(root, Head(segs)) THEN Absent
  ELSE GetPath(At(root, Head(segs)), Tail(segs))

(***************************************************************************)
(* Evaluation.                                                             *)
(***************************************************************************)
Combiners == {"and", "or", "not"}
ConstantParams(m) ==
  HasWith(m, "params", LAMBDA p :
    Kind(p) = "object" /\ HasWith(p, "value", LAMBDA x : Kind(x) = "bool"))

\* evalMap on an eval node; constant is the only evaluator registered.
EvalNamed(m) ==
  IF /\ At(m, "eval") = Word("constant")
     /\ DOMAIN Val(m) \cap ({"op"} \cup Combiners) = {}
     /\ ConstantParams(m)
    THEN Says(Val(At(At(m, "params"), "value"))) ELSE "error"

\* cmpScalar, cmpNum, evalIn and evalContains; got is present.  Of the substrings
\* of a string only the empty one and itself are told apart.
Compare(op, got, want) ==
  CASE op = "eq" -> Says(Equal(got, want))
    [] op = "ne" -> Says(~ Equal(got, want))
    [] op = "in" -> Says(\E i \in DOMAIN Val(want) : Equal(got, At(want, i)))
    [] op = "contains" ->
         IF ~ IsString(got) THEN "no_match"
         ELSE IF ~ IsString(want) THEN "error"
         ELSE Says(got = want \/ want = Word(""))
    [] OTHER ->
         IF ~ Numeric(got) THEN "no_match"
         ELSE IF ~ Numeric(want) THEN "error"
         ELSE Says(Ordered(got, want, op))

\* expectCount, then the comparison with it.
CountIs(m, n) ==
  IF HasWith(m, "eq", LAMBDA x : Numeric(x) /\ x # NaN /\ Val(x) >= 0)
    THEN Says(Val(At(m, "eq")) = n) ELSE "error"

Operators    == {"eq", "ne", "gt", "lt", "gte", "lte", "in", "contains"}
AggregateOps == {"exists", "not_exists", "count", "any", "all"}
\* knownWhenOps repeats the cases of evalOp.
KnownOps_Drifted == Operators \cup AggregateOps \cup {"matches"}
KnownOps == Operators \cup AggregateOps

RECURSIVE EvalValue(_, _)
\* One verdict per element of the list, which the sub-clause sees as $.
PerElement(sub, list) ==
  [i \in DOMAIN Val(list) |-> EvalValue(sub, Object([k \in {"$"} |-> At(list, i)]))]

\* An operator is a word.
OpOf(m) == IF Kind(At(m, "op")) = "word" THEN Val(At(m, "op")) ELSE ""

EvalOp(op, m, sigs) ==
  LET got       == GetPath(sigs, Val(At(m, "path")))
      onList(V) == IF IsList(got) THEN V ELSE "no_match"
      each      == PerElement(At(m, "when"), got)
  IN  IF ~ HasWith(m, "path", LAMBDA p : Kind(p) = "path") THEN "error"
      ELSE CASE op = "exists"     -> Says(got # Absent)
             [] op = "not_exists" -> Says(got = Absent)
             [] op \in Operators  ->
                  IF ~ Has(m, "value") \/ (op = "in" /\ ~ IsList(At(m, "value"))) THEN "error"
                  ELSE IF got = Absent THEN "no_match" ELSE Compare(op, got, At(m, "value"))
             [] op = "count" ->
                  onList(IF ~ Has(m, "when") THEN CountIs(m, Len(Val(got)))
                         ELSE IF \E i \in DOMAIN each : each[i] = "error" THEN "error"
                         ELSE CountIs(m, Cardinality({i \in DOMAIN each : each[i] = "match"})))
             [] op \in {"any", "all"} ->
                  IF ~ Has(m, "when") THEN "error"
                  ELSE onList(IF op = "all" THEN And(each) ELSE Or(each))
             [] OTHER -> "error"

EvalAll(nodes, sigs) == [i \in DOMAIN Val(nodes) |-> EvalValue(At(nodes, i), sigs)]

EvalMap(m, sigs) ==
  IF Has(m, "eval") THEN EvalNamed(m)
  ELSE IF HasWith(m, "op", IsString) THEN EvalOp(OpOf(m), m, sigs)
  ELSE IF HasWith(m, "and", IsList) THEN And(EvalAll(At(m, "and"), sigs))
  ELSE IF HasWith(m, "or", IsList) /\ ~ Has(m, "and") THEN Or(EvalAll(At(m, "or"), sigs))
  ELSE IF Has(m, "not") /\ DOMAIN Val(m) \cap {"and", "or"} = {}
    THEN Negation(EvalValue(At(m, "not"), sigs))
  ELSE "error"

\* A bare list stands for and.
EvalValue(x, sigs) ==
  CASE Kind(x) = "object" -> EvalMap(x, sigs)
    [] IsList(x)          -> And(EvalAll(x, sigs))
    [] OTHER              -> "error"

(***************************************************************************)
(* Validation.                                                             *)
(***************************************************************************)
Roots == {"git", "github", "state", "gates"}
AllowedPath(p) ==
  Kind(p) = "path" /\ (At(p, 1) = "$" \/ (At(p, 1) \in Roots /\ Len(Val(p)) > 1))

RECURSIVE WalkWhen(_)
\* validateOpClause: required operands; of their types only in's is checked.
ValidateOp(op, m) ==
  /\ op \in KnownOps
  /\ HasWith(m, "path", AllowedPath)
  /\ op \in Operators => Has(m, "value") /\ (op = "in" => IsList(At(m, "value")))
  /\ op = "count" => Has(m, "eq") /\ (Has(m, "when") => WalkWhen(At(m, "when")))
  /\ op \in {"any", "all"} => HasWith(m, "when", WalkWhen)

WalkAll(nodes) == IsList(nodes) /\ \A i \in DOMAIN Val(nodes) : WalkWhen(At(nodes, i))

WalkWhenMap(m) ==
  LET combiners == DOMAIN Val(m) \cap Combiners
  IN  /\ Cardinality(combiners) <= 1
      /\ IF Has(m, "eval")
           THEN /\ At(m, "eval") = Word("constant") /\ ConstantParams(m)
                /\ combiners = {} /\ ~ Has(m, "op")
         ELSE IF Has(m, "op")
           THEN HasWith(m, "op", IsString) /\ combiners = {} /\ ValidateOp(OpOf(m), m)
         ELSE /\ combiners # {}
              /\ \A c \in combiners : IF c = "not" THEN WalkWhen(At(m, c)) ELSE WalkAll(At(m, c))

WalkWhen(x) ==
  CASE Kind(x) = "object" -> WalkWhenMap(x)
    [] IsList(x)          -> WalkAll(x)
    [] OTHER              -> FALSE

ValidateWhen(x) == x = Null \/ WalkWhen(x)
=============================================================================
