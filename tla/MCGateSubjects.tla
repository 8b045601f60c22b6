--------------------------- MODULE MCGateSubjects ---------------------------
EXTENDS MCGateArtifacts

VARIABLE heads

Subjects == INSTANCE GateSubjects
SubjectsSpec == Subjects!SubjectsSpec
SubjectWasBranchHead == Subjects!SubjectWasBranchHead
=============================================================================
