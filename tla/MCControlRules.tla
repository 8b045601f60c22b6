--------------------------- MODULE MCControlRules ---------------------------
EXTENDS ControlRules

CONSTANTS git, github, c1, c2, t1, t2

\* Two state rules and two route rules: near ties (priorities 10 and 11 under
\* Epsilon 1), a tie across types, a rule without a target, shared clauses.
MCRules ==
  { [type |-> "route", id |-> 1, priority |-> 10, target |-> t1, depends |-> {git}, when |-> c1],
    [type |-> "route", id |-> 2, priority |-> 11, target |-> t2, depends |-> {github}, when |-> c2],
    [type |-> "route", id |-> 3, priority |-> 20, target |-> t2, depends |-> {}, when |-> c1],
    [type |-> "route", id |-> 4, priority |-> 15, target |-> NoTarget, depends |-> {github}, when |-> c2],
    [type |-> "state", id |-> 5, priority |-> 10, target |-> t1, depends |-> {git, github}, when |-> c1],
    [type |-> "state", id |-> 6, priority |-> 9, target |-> t2, depends |-> {github}, when |-> c2] }
\* Up to two entries with any clause or none, and three of which one has none.
MCEntry(id) == [id : {id}, when : {c1, c2, NoClause}, hit : BOOLEAN]
MCManifests ==
  {<<>>} \cup {<<e>> : e \in MCEntry(1)} \cup (MCEntry(2) \X MCEntry(1))
  \cup { <<e, [id |-> 1, when |-> NoClause, hit |-> FALSE], f>> :
            e \in MCEntry(3), f \in MCEntry(2) }
=============================================================================
