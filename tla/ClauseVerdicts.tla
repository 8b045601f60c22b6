--------------------------- MODULE ClauseVerdicts ---------------------------
(***************************************************************************)
(* What a when-clause says of the signals, and how the verdicts of         *)
(* sub-clauses combine (internal/match).                                   *)
(***************************************************************************)
EXTENDS Integers, Sequences, FiniteSetsExt

Verdicts     == {"match", "no_match", "error"}
Says(holds)  == IF holds THEN "match" ELSE "no_match"
Negation(vd) == CASE vd = "match" -> "no_match" [] vd = "no_match" -> "match" [] OTHER -> vd

FirstOther_Last(verdicts, neutral) ==
  IF verdicts = <<>> THEN neutral ELSE verdicts[Len(verdicts)]
\* The walk along a list ends at the first verdict that is not the neutral one.
FirstOther(verdicts, neutral) ==
  LET others == {i \in DOMAIN verdicts : verdicts[i] # neutral}
  IN  IF others = {} THEN neutral ELSE verdicts[Min(others)]
And_NoVacuousTruth(verdicts) ==
  IF verdicts = <<>> THEN "no_match" ELSE FirstOther(verdicts, "match")
And(verdicts) == FirstOther(verdicts, "match")
Or(verdicts)  == FirstOther(verdicts, "no_match")
=============================================================================
