---------------------------- MODULE MCWhenClauses ----------------------------
EXTENDS WhenClauses

P(op, p)      == Object([op |-> Word(op), path |-> Path(p)])
V(op, p, x)   == Object([op |-> Word(op), path |-> Path(p), value |-> x])
Element       == <<"$">>
N             == <<"git", "n">>
L             == <<"github", "list">>
MCPaths       == {N, L}

MCWellFormed ==
  { V("eq", N, Num(1)), V("ne", N, Word("a")),
    V("in", Element, List(<<Num(1), Word("a")>>)), V("contains", N, Word("a")),
    P("not_exists", L), V("eq", Element, Bool(TRUE)),
    Object([op |-> Word("count"), path |-> Path(L), eq |-> Num(0)]),
    Object([eval |-> Word("constant"), params |-> Object([value |-> Bool(TRUE)])]) }
\* Operands of the wrong type, which load, and clauses that must not.
MCMalformed ==
  { V("gt", N, Word("a")), V("contains", N, Num(1)),
    Object([op |-> Word("count"), path |-> Path(L), eq |-> Word("a")]),
    V("matches", N, Word("a")), P("eq", N), V("in", N, Num(1)), P("any", L),
    Object([op |-> Num(1), or |-> List(<<>>)]), Object([and |-> Num(1)]),
    Object([eval |-> Word("constant"), or |-> List(<<>>)]), Null }
MCAtoms    == MCWellFormed \cup MCMalformed
MCPartners == {V("eq", Element, Bool(TRUE)), V("gt", N, Word("a"))}

MCValuesOf ==
  [p \in MCPaths |-> IF p = N THEN {Numeral(1), NaN, Word("a")}
                     ELSE {Null, List(<<>>), List(<<Num(1), Bool(TRUE)>>)}]
=============================================================================
