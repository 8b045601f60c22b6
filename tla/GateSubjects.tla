---------------------------- MODULE GateSubjects ----------------------------
(***************************************************************************)
(* GateArtifacts with a history of the branch heads that were checked out, *)
(* to ask what the subject of a stored artifact is evidence of.            *)
(***************************************************************************)
EXTENDS GateArtifacts

VARIABLE heads

SubjectsInit == Init /\ heads = {head}
SubjectsNext == Next /\ heads' = heads \cup {head'}
SubjectsSpec == SubjectsInit /\ [][SubjectsNext]_<<vars, heads>>

\* internal/gate/artifact.go:53: "Subject identifies the branch head a proof
\* applies to" - the subject of a stored artifact was the checked-out branch
\* head at some moment.  The branch and HEAD are read by two git commands.
SubjectWasBranchHead ==
  \A g \in GateIds : dir[g].kind = "artifact" => dir[g].art.subject \in heads
=============================================================================
