--------------------------- MODULE MCGitHubCollect ---------------------------
EXTENDS GitHubCollect

CONSTANTS c1, c2, own

Quiet == [legacy |-> "success", runs |-> <<"success">>]
\* Checks of the branch's commits; own is a local commit never pushed, whose
\* checks are not of the pull request.
MCChecks ==
  {[c1 |-> a, c2 |-> Quiet, own |-> Quiet] :
     a \in {[legacy |-> "success", runs |-> <<"success", "success">>],
            [legacy |-> "success", runs |-> <<"success", "cancelled">>],
            [legacy |-> "unknown", runs |-> <<>>]}}
Tables == {[c \in Commits |-> IF c = c1 THEN m.c1 ELSE IF c = c2 THEN m.c2 ELSE m.own] : m \in MCChecks}
Green1 == CHOOSE t \in Tables : t[c1].runs = <<"success", "success">>
StartOf(open, threads, older, table, attached) ==
  [github |-> [open |-> open, head |-> c1, threads |-> threads, older |-> older],
   checks |-> table, local |-> [attached |-> attached, head |-> own]]
\* An open pull request with one page of threads, two, or more than are read;
\* with older comments; with checks red or absent; closed; the tree detached.
MCWorlds ==
  { StartOf(TRUE, <<TRUE, TRUE>>, 0, t, TRUE) : t \in Tables } \cup
  { StartOf(TRUE, <<TRUE, FALSE>>, 1, Green1, TRUE), StartOf(TRUE, <<TRUE, TRUE, TRUE>>, 2, Green1, TRUE),
    StartOf(FALSE, <<>>, 0, Green1, TRUE), StartOf(TRUE, <<TRUE>>, 1, Green1, FALSE) }

\* The depths and facets the command line allows.
MCRequests ==
  {r \in [scope : {"none", "branch", "pr"}, view : {"full", "summary", "inbox"},
          facet : {"all"} \cup Facets, bots : BOOLEAN] :
     /\ r.view = "inbox" => r.facet = "reviews"
     /\ r.facet = "issues" => r.scope = "none" /\ r.view = "summary"
     /\ r.facet \in {"ci", "pull-requests"} => r.view = "full"
     /\ ~ r.bots => r.facet = "all" /\ r.scope = "none"
     /\ r.facet = "reviews" => r.scope = "none" /\ r.view # "summary"}
==============================================================================
