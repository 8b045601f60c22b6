----------------------------- MODULE MCWorkflow -----------------------------
EXTENDS Workflow, TLC

CONSTANTS h1, h2, cr, bot2

Sym == Permutations(Commits)

MCGit  == [detached : BOOLEAN, clean : BOOLEAN]

\* The entries a bot can show (EntryShape of ReviewCycle).  Only a bot in the
\* reviewed tier has its commit compared with the head; outside it the findings
\* are there exactly when no clean marker hides them, which leaves both answers
\* of NonThreadFindings.
MCRequiredEntries ==
  {e \in [required : {TRUE}, status : Statuses, sha : {NoCommit, h1, h2},
          awaiting : BOOLEAN, clean : BOOLEAN, findings : {{}, {"duplicate"}, {"actionable"}}] :
     /\ e.status \in ReviewedTier => ~ e.awaiting /\ e.clean = (e.status = "completed_clean")
     /\ e.status \notin ReviewedTier =>
          e.sha = NoCommit /\ e.findings = IF e.clean THEN {} ELSE {"actionable"}}
\* An optional bot may say anything.
MCEntries == MCRequiredEntries \cup
  {[required |-> FALSE, status |-> "rate_limited", sha |-> NoCommit,
    awaiting |-> TRUE, clean |-> FALSE, findings |-> {"actionable"}]}
=============================================================================
