--------------------------- MODULE MCObserveEngine ---------------------------
EXTENDS ObserveEngine

MCFacts == [p \in {"git", "github"} |->
              IF p = "git" THEN <<"branch", "stash">> ELSE <<"reviews", "ci">>]

Both == <<"git", "github">>
MCCommands ==
  {[ids |-> Both, built |-> {"git", "github"}, serial |-> s] : s \in BOOLEAN} \cup
  {[ids |-> <<"git">>, built |-> {}, serial |-> FALSE],
   [ids |-> <<>>, built |-> {}, serial |-> FALSE]}
=============================================================================
