-------------------------- MODULE GateStoreProofs ---------------------------
(***************************************************************************)
(* Proofs about GateArtifacts for every set of processes, gates, branches, *)
(* commits, role configurations and command lines: types, files and commits; *)
(* what stored and reported passes stand on; and that the artifact files   *)
(* implement the atomic ledger.                                            *)
(***************************************************************************)
EXTENDS GateInductive, TLAPS

-----------------------------------------------------------------------------
(***************************************************************************)
(* Types, files and commits.                                               *)
(***************************************************************************)
PCs == {"idle", "status", "status_branch", "status_head", "show",
        "record_head", "create", "write", "rename"}

LEMMA IdleType == Idle \in LocType
  BY DEF Idle, LocType, Content, Absent

\* What Go leaves typed, for any typed locals.
LEMMA GoType ==
  ASSUME pc \in [Procs -> PCs], loc \in [Procs -> LocType],
         NEW p \in Procs, NEW s \in PCs, NEW l \in LocType, Go(p, s, l)
  PROVE  pc' \in [Procs -> PCs] /\ loc' \in [Procs -> LocType]
  BY DEF Go

LEMMA FailType ==
  ASSUME pc \in [Procs -> PCs], loc \in [Procs -> LocType],
         NEW p \in Procs, Fail(p)
  PROVE  pc' \in [Procs -> PCs] /\ loc' \in [Procs -> LocType]
  <1>1. Go(p, "idle", Idle)  BY DEF Fail
  <1>2. QED BY <1>1, GoType, IdleType DEF PCs

LEMMA ConcludeType ==
  ASSUME pc \in [Procs -> PCs], loc \in [Procs -> LocType],
         NEW p \in Procs, NEW g \in GateIds,
         NEW st \in {"missing", "invalid", "stale", "fail", "pass"},
         NEW c \in Content, Conclude(p, g, st, c)
  PROVE  pc' \in [Procs -> PCs] /\ loc' \in [Procs -> LocType]
  <1> DEFINE lr == [loc[p] EXCEPT !.todo = @ \ {g}, !.read = Absent, !.branch = Detached,
                      !.report = @ \cup {[gate_id |-> g, status |-> st, read |-> c]}]
             ls == [loc[p] EXCEPT !.todo = @ \ {g}, !.branch = Detached]
  <1>1. lr \in LocType /\ ls \in LocType
    <2>1. loc[p] \in LocType  OBVIOUS
    <2>2. [gate_id |-> g, status |-> st, read |-> c] \in StatusResult
      BY DEF StatusResult
    <2>3. Absent \in Content  BY DEF Content
    <2>4. QED BY <2>1, <2>2, <2>3 DEF LocType
  <1>2. CASE loc[p].op = "signals"
    BY <1>1, <1>2, GoType DEF Conclude, PCs
  <1>3. CASE loc[p].op # "signals" /\ st = "pass"
    BY <1>1, <1>3, GoType DEF Conclude, PCs
  <1>4. CASE loc[p].op # "signals" /\ st # "pass"
    BY <1>4, FailType DEF Conclude
  <1>5. QED BY <1>2, <1>3, <1>4

\* Reading a path yields typed content; a readable path holds an artifact.
LEMMA ReadType ==
  ASSUME dir \in [Names -> Content], NEW n \in Names
  PROVE  /\ dir[n] \in Content
         /\ dir[n].kind = "artifact" => dir[n].art \in Artifact
  BY DEF Content, Absent, Unreadable

LEMMA InputOfType ==
  ASSUME NEW a \in Artifact
  PROVE  InputOf(a) \in Input
  BY DEF InputOf, Artifact, Input

LEMMA ArtifactOf ==
  ASSUME NEW c \in Content, c.kind = "artifact"
  PROVE  /\ c.art \in Artifact
         /\ c.art.gate_id \in GateIds
         /\ c.art.subject \in Subject
  <1>1. c.art \in Artifact  BY DEF Content, Absent, Unreadable
  <1>2. QED  BY <1>1 DEF Artifact

LEMMA WholeType ==
  ASSUME NEW a \in Artifact
  PROVE  Whole(a) \in Content
  BY DEF Whole, Content

-----------------------------------------------------------------------------
(* Type correctness.                                                       *)

LEMMA InitType == Init => TypeOK
  <1> SUFFICES ASSUME Init PROVE TypeOK
    OBVIOUS
  <1>1. PICK b \in Branches, c \in Commits :
          /\ head = [branch |-> b, head_sha |-> c]
          /\ tip = [x \in Branches |-> c]
          /\ used = {c}
    BY DEF Init
  <1>2. Absent \in Content /\ Unreadable \in Content
    BY DEF Content
  <1>3. dir \in [Names -> Content]
    BY <1>2 DEF Init
  <1>4. QED
    BY <1>1, <1>3, IdleType, BoundsAssumption DEF Init, TypeOK

LEMMA RepoType ==
  ASSUME TypeOK, \/ \E c \in Commits : Commit(c) \/ Reset(c)
                 \/ \E b \in Branches : Checkout(b)
                 \/ Detach
                 \/ \E r \in RoleConfigs : Reconfigure(r)
  PROVE  TypeOK'
  <1> USE DEF TypeOK, repo, disk, conf
  <1>1. CASE \E c \in Commits : Commit(c)  BY <1>1 DEF Commit
  <1>2. CASE \E c \in Commits : Reset(c)   BY <1>2 DEF Reset
  <1>3. CASE \E b \in Branches : Checkout(b)  BY <1>3 DEF Checkout
  <1>4. CASE Detach  BY <1>4 DEF Detach
  <1>5. CASE \E r \in RoleConfigs : Reconfigure(r)  BY <1>5 DEF Reconfigure
  <1>6. QED BY <1>1, <1>2, <1>3, <1>4, <1>5

LEMMA ProcType ==
  ASSUME TypeOK, ControlInv, NEW p \in Procs, ProcNext(p)
  PROVE  TypeOK'
  <1> DEFINE LocOK == pc' \in [Procs -> PCs] /\ loc' \in [Procs -> LocType]
  <1> USE CallsAssumption, NamesAssumption, BoundsAssumption
  <1>0. /\ pc \in [Procs -> PCs] /\ loc \in [Procs -> LocType]
        /\ loc[p] \in LocType /\ dir \in [Names -> Content]
        /\ Absent \in Content
    BY DEF TypeOK, PCs, Content
  <1>1. ASSUME NEW c \in Calls, BeginRecord(p, c) PROVE TypeOK'
    <2>1. [Idle EXCEPT !.op = "record", !.call = c, !.todo = c.input_gates,
                       !.inputs = c.inputs_file] \in LocType
      BY IdleType DEF LocType, RecordCall
    <2>2. LocOK  BY <1>0, <1>1, <2>1, GoType DEF BeginRecord, PCs
    <2>3. QED  BY <1>1, <2>2 DEF TypeOK, BeginRecord, repo, disk, conf, PCs
  <1>2. CASE BeginSignals(p)
    <2>1. [Idle EXCEPT !.op = "signals",
             !.todo = {n \in Names : ValidGateID(n) /\ dir[n] # Absent}] \in LocType
      BY IdleType DEF LocType, ValidGateID
    <2>2. LocOK  BY <1>0, <1>2, <2>1, GoType DEF BeginSignals, PCs
    <2>3. QED  BY <1>2, <2>2 DEF TypeOK, BeginSignals, repo, disk, conf, PCs
  <1>3. ASSUME NEW g \in GateIds, StatusRead(p, g) PROVE TypeOK'
    <2>1. dir[g] \in Content  BY <1>0 DEF Names
    <2>2. [loc[p] EXCEPT !.read = dir[g]] \in LocType
      BY <1>0, <2>1 DEF LocType
    <2>3. LocOK
      BY <1>0, <1>3, <2>1, <2>2, GoType, ConcludeType DEF StatusRead, PCs
    <2>4. QED  BY <1>3, <2>3 DEF TypeOK, StatusRead, repo, disk, conf, PCs
  <1>4. CASE StatusBranch(p)
    <2>1. [loc[p] EXCEPT !.branch = head.branch] \in LocType
      BY <1>0 DEF LocType, TypeOK
    <2>2. LocOK  BY <1>0, <1>4, <2>1, GoType DEF StatusBranch, PCs
    <2>3. QED  BY <1>4, <2>2 DEF TypeOK, StatusBranch, repo, disk, conf, PCs
  <1>5. CASE StatusHead(p) \/ StatusGitFails(p)
    <2>1. loc[p].read \in Content /\ loc[p].read.kind = "artifact"
      BY <1>0, <1>5 DEF ControlInv, ControlOf, StatusHead, StatusGitFails, LocType
    <2>2. loc[p].read.art \in Artifact
      BY <2>1 DEF Content, Absent, Unreadable
    <2>3. /\ loc[p].read.art.gate_id \in GateIds
          /\ DerivedStatus(loc[p].read.art, loc[p].branch, head.head_sha)
               \in {"missing", "invalid", "stale", "fail", "pass"}
      BY <2>2 DEF Artifact, DerivedStatus
    <2>4. LocOK
      BY <1>0, <1>5, <2>1, <2>3, ConcludeType DEF StatusHead, StatusGitFails
    <2>5. QED
      BY <1>5, <2>4 DEF TypeOK, StatusHead, StatusGitFails, repo, disk, conf, PCs
  <1>6. CASE Show(p)
    <2>1. loc[p].read.art.gate_id \in GateIds
      <3>1. loc[p].read \in Content /\ loc[p].read.kind = "artifact"
        BY <1>0, <1>6 DEF ControlInv, ControlOf, Show, LocType
      <3>2. QED  BY <3>1, ArtifactOf
    <2> DEFINE g == loc[p].read.art.gate_id
               l == [loc[p] EXCEPT !.read = Absent,
                                   !.inputs = @ \cup {InputOf(dir[g].art)}]
    <2>2. CASE ReadableAs(dir[g], g, roles)
      <3>1. dir[g].art \in Artifact
        BY <1>0, <2>1, <2>2, ReadType DEF ReadableAs, Names
      <3>2. InputOf(dir[g].art) \in Input
        BY <3>1, InputOfType
      <3>3. l \in LocType
        BY <1>0, <3>2 DEF LocType
      <3>4. Go(p, "status", l)
        BY <1>6, <2>2 DEF Show
      <3>5. LocOK  BY <1>0, <3>3, <3>4, GoType DEF PCs
      <3>6. QED  BY <1>6, <3>5 DEF TypeOK, Show, repo, disk, conf, PCs
    <2>3. CASE ~ReadableAs(dir[g], g, roles)
      <3>1. LocOK  BY <1>0, <1>6, <2>3, FailType DEF Show
      <3>2. QED  BY <1>6, <3>1 DEF TypeOK, Show, repo, disk, conf, PCs
    <2>4. QED  BY <2>2, <2>3
  <1>7. CASE SignalsDone(p)
    <2>1. LocOK  BY <1>0, <1>7, GoType DEF SignalsDone, PCs
    <2>2. QED  BY <1>7, <2>1 DEF TypeOK, SignalsDone, repo, disk, conf, PCs
  <1>8. CASE RecordBranch(p)
    <2>1. head.branch # Detached =>
            [loc[p] EXCEPT !.branch = head.branch] \in LocType
      BY <1>0 DEF LocType, TypeOK
    <2>2. LocOK  BY <1>0, <1>8, <2>1, GoType, FailType DEF RecordBranch, PCs
    <2>3. QED  BY <1>8, <2>2 DEF TypeOK, RecordBranch, repo, disk, conf, PCs
  <1>9. CASE RecordGitFails(p)
    <2>1. LocOK  BY <1>0, <1>9, FailType DEF RecordGitFails
    <2>2. QED  BY <1>9, <2>1 DEF TypeOK, RecordGitFails, repo, disk, conf, PCs
  <1>10. CASE RecordHead(p)
    <2> DEFINE a == Build(p, head.head_sha)
               l == [loc[p] EXCEPT !.art = Whole(a), !.branch = Detached]
    <2>1. loc[p].call \in RecordCall /\ loc[p].branch \in Branches
      BY <1>10 DEF RecordHead, ControlInv, ControlOf
    <2>2. a \in Artifact
      BY <1>0, <2>1 DEF Build, Artifact, RecordCall, Subject, LocType, TypeOK
    <2>3. l \in LocType
      BY <1>0, <2>2, WholeType DEF LocType
    <2>4. CASE GateContract(a, roles)
      <3>1. Go(p, "create", l)  BY <1>10, <2>4 DEF RecordHead
      <3>2. LocOK  BY <1>0, <2>3, <3>1, GoType DEF PCs
      <3>3. QED  BY <1>10, <3>2 DEF TypeOK, RecordHead, repo, disk, conf, PCs
    <2>5. CASE ~GateContract(a, roles)
      <3>1. LocOK  BY <1>0, <1>10, <2>5, FailType DEF RecordHead
      <3>2. QED  BY <1>10, <3>1 DEF TypeOK, RecordHead, repo, disk, conf, PCs
    <2>6. QED  BY <2>4, <2>5
  <1>11. ASSUME NEW t \in TempNames, CreateTemp(p, t) PROVE TypeOK'
    <2>1. [loc[p] EXCEPT !.tmp = t] \in LocType  BY <1>0 DEF LocType
    <2>2. LocOK  BY <1>0, <1>11, <2>1, GoType DEF CreateTemp, PCs
    <2>3. dir' \in [Names -> Content]
      BY <1>0, <1>11 DEF CreateTemp, Content
    <2>4. QED  BY <1>11, <2>2, <2>3 DEF TypeOK, CreateTemp, repo, conf, PCs
  <1>12. CASE WriteTemp(p)
    <2>1. LocOK  BY <1>0, <1>12, GoType DEF WriteTemp, PCs
    <2>2. dir' \in [Names -> Content]
      BY <1>0, <1>12 DEF WriteTemp, LocType
    <2>3. QED  BY <1>12, <2>1, <2>2 DEF TypeOK, WriteTemp, repo, conf, PCs
  <1>13. CASE Rename(p)
    <2>1. /\ loc[p].tmp \in TempNames
          /\ loc[p].art.art \in Artifact
      <3>1. /\ loc[p].tmp \in TempNames
            /\ loc[p].art \in Content /\ loc[p].art.kind = "artifact"
        BY <1>0, <1>13 DEF Rename, ControlInv, ControlOf, LocType
      <3>2. QED  BY <3>1, ArtifactOf
    <2>2. dir[loc[p].tmp] \in Content
      BY <1>0, <2>1 DEF Names
    <2>3. LocOK  BY <1>0, <1>13, GoType, IdleType DEF Rename, PCs
    <2>4. dir' \in [Names -> Content]
      BY <1>0, <1>13, <2>2 DEF Rename
    <2>5. proved' \in SUBSET Proof
      <3> DEFINE a == loc[p].art.art
                 new == [gate_id |-> a.gate_id, subject |-> a.subject]
      <3>1. a.gate_id \in GateIds /\ a.subject \in Subject
        BY <2>1 DEF Artifact
      <3>2. new \in Proof
        BY <3>1 DEF Proof
      <3>3. proved' \in {proved, proved \cup {new}}
        BY <1>13 DEF Rename
      <3> HIDE DEF new
      <3>4. QED  BY <3>2, <3>3 DEF TypeOK
    <2>6. QED  BY <1>13, <2>3, <2>4, <2>5 DEF TypeOK, Rename, repo, conf, PCs
  <1>14. CASE WriteFails(p)
    <2>1. LocOK  BY <1>0, <1>14, FailType DEF WriteFails
    <2>2. dir' \in [Names -> Content]
      BY <1>0, <1>14 DEF WriteFails
    <2>3. QED  BY <1>14, <2>1, <2>2 DEF TypeOK, WriteFails, repo, conf, PCs
  <1>15. CASE Crash(p)
    <2>1. LocOK  BY <1>0, <1>15, FailType DEF Crash
    <2>2. QED  BY <1>15, <2>1 DEF TypeOK, Crash, repo, disk, conf, PCs
  <1>16. QED
    BY <1>1, <1>2, <1>3, <1>4, <1>5, <1>6, <1>7, <1>8, <1>9, <1>10, <1>11,
       <1>12, <1>13, <1>14, <1>15 DEF ProcNext

-----------------------------------------------------------------------------
(* Where a process stands determines its locals.                           *)

LEMMA GoControl ==
  ASSUME TypeOK, ControlInv, NEW p \in Procs, NEW s, NEW l, Go(p, s, l),
         ControlOf(s, l)
  PROVE  ControlInv'
  BY DEF TypeOK, Go, ControlInv, ControlOf

LEMMA FailControl ==
  ASSUME TypeOK, ControlInv, NEW p \in Procs, Fail(p)
  PROVE  ControlInv'
  <1>1. ControlOf("idle", Idle)
    BY NamesAssumption DEF ControlOf, Idle
  <1>2. QED  BY <1>1, GoControl DEF Fail

LEMMA ConcludeControl ==
  ASSUME TypeOK, ControlInv, NEW p \in Procs, NEW g, NEW st, NEW c,
         pc[p] \in {"status", "status_branch", "status_head"},
         st = "pass" => loc[p].read.kind = "artifact",
         Conclude(p, g, st, c)
  PROVE  ControlInv'
  <1>1. loc[p] \in LocType /\ ControlOf(pc[p], loc[p])
    BY DEF TypeOK, ControlInv
  <1>2. CASE loc[p].op = "signals"
    <2> DEFINE l == [loc[p] EXCEPT !.todo = @ \ {g}, !.read = Absent, !.branch = Detached,
                       !.report = @ \cup {[gate_id |-> g, status |-> st, read |-> c]}]
    <2>1. l.tmp = loc[p].tmp /\ l.op = loc[p].op
      BY <1>1 DEF LocType
    <2>2. ControlOf("status", l)
      BY <1>1, <1>2, <2>1 DEF ControlOf
    <2>3. Go(p, "status", l)  BY <1>2 DEF Conclude
    <2>4. QED  BY <2>2, <2>3, GoControl
  <1>3. CASE loc[p].op # "signals" /\ st = "pass"
    <2> DEFINE l == [loc[p] EXCEPT !.todo = @ \ {g}, !.branch = Detached]
    <2>1. /\ l.tmp = loc[p].tmp /\ l.op = loc[p].op
          /\ l.read = loc[p].read /\ l.call = loc[p].call
      BY <1>1 DEF LocType
    <2>2. ControlOf("show", l)
      BY <1>1, <1>3, <2>1 DEF ControlOf
    <2>3. Go(p, "show", l)  BY <1>3 DEF Conclude
    <2>4. QED  BY <2>2, <2>3, GoControl
  <1>4. CASE loc[p].op # "signals" /\ st # "pass"
    BY <1>4, FailControl DEF Conclude
  <1>5. QED  BY <1>2, <1>3, <1>4

LEMMA ProcControl ==
  ASSUME TypeOK, ControlInv, NEW p \in Procs, ProcNext(p)
  PROVE  ControlInv'
  <1>0. loc[p] \in LocType /\ ControlOf(pc[p], loc[p])
    BY DEF TypeOK, ControlInv
  <1> USE NamesAssumption
  <1>1. ASSUME NEW c \in Calls, BeginRecord(p, c) PROVE ControlInv'
    <2> DEFINE l == [Idle EXCEPT !.op = "record", !.call = c,
                       !.todo = c.input_gates, !.inputs = c.inputs_file]
    <2>1. ControlOf("status", l)  BY DEF ControlOf, Idle
    <2>2. QED  BY <1>1, <2>1, GoControl DEF BeginRecord
  <1>2. CASE BeginSignals(p)
    <2> DEFINE l == [Idle EXCEPT !.op = "signals",
                       !.todo = {n \in Names : ValidGateID(n) /\ dir[n] # Absent}]
    <2>1. ControlOf("status", l)  BY DEF ControlOf, Idle
    <2>2. QED  BY <1>2, <2>1, GoControl DEF BeginSignals
  <1>3. ASSUME NEW g \in GateIds, StatusRead(p, g) PROVE ControlInv'
    <2>1. CASE ReadableAs(dir[g], g, roles)
      <3> DEFINE l == [loc[p] EXCEPT !.read = dir[g]]
      <3>1. l.read = dir[g] /\ l.tmp = loc[p].tmp /\ l.op = loc[p].op /\ l.call = loc[p].call
        BY <1>0 DEF LocType
      <3>2. ControlOf("status_branch", l)
        BY <1>0, <1>3, <2>1, <3>1 DEF ControlOf, ReadableAs, StatusRead
      <3>3. QED  BY <1>3, <2>1, <3>2, GoControl DEF StatusRead
    <2>2. CASE ~ReadableAs(dir[g], g, roles)
      BY <1>3, <2>2, ConcludeControl DEF StatusRead
    <2>3. QED  BY <2>1, <2>2
  <1>4. CASE StatusBranch(p)
    <2> DEFINE l == [loc[p] EXCEPT !.branch = head.branch]
    <2>1. l.read = loc[p].read /\ l.tmp = loc[p].tmp /\ l.op = loc[p].op /\ l.call = loc[p].call
      BY <1>0 DEF LocType
    <2>2. ControlOf("status_head", l)
      BY <1>0, <1>4, <2>1 DEF ControlOf, StatusBranch
    <2>3. QED  BY <1>4, <2>2, GoControl DEF StatusBranch
  <1>5. CASE StatusHead(p) \/ StatusGitFails(p)
    <2>1. loc[p].read.kind = "artifact"
      BY <1>0, <1>5 DEF ControlOf, StatusHead, StatusGitFails
    <2>2. QED  BY <1>5, <2>1, ConcludeControl DEF StatusHead, StatusGitFails
  <1>6. CASE Show(p)
    <2> DEFINE g == loc[p].read.art.gate_id
               l == [loc[p] EXCEPT !.read = Absent,
                                   !.inputs = @ \cup {InputOf(dir[g].art)}]
    <2>1. l.tmp = loc[p].tmp /\ l.op = loc[p].op /\ l.call = loc[p].call
      BY <1>0 DEF LocType
    <2>2. ControlOf("status", l)
      BY <1>0, <1>6, <2>1 DEF ControlOf, Show
    <2>3. QED  BY <1>6, <2>2, GoControl, FailControl DEF Show
  <1>7. CASE SignalsDone(p)
    <2>1. ControlOf("idle", loc[p])  BY <1>0, <1>7 DEF ControlOf, SignalsDone
    <2>2. QED  BY <1>7, <2>1, GoControl DEF SignalsDone
  <1>8. CASE RecordBranch(p)
    <2> DEFINE l == [loc[p] EXCEPT !.branch = head.branch]
    <2>1. l.branch = head.branch /\ l.tmp = loc[p].tmp /\ l.op = loc[p].op /\ l.call = loc[p].call
      BY <1>0 DEF LocType
    <2>2. head.branch # Detached => head.branch \in Branches
      BY DEF TypeOK
    <2>3. head.branch # Detached => ControlOf("record_head", l)
      BY <1>0, <1>8, <2>1, <2>2 DEF ControlOf, RecordBranch
    <2>4. QED  BY <1>8, <2>3, GoControl, FailControl DEF RecordBranch
  <1>9. CASE RecordGitFails(p)  BY <1>9, FailControl DEF RecordGitFails
  <1>10. CASE RecordHead(p)
    <2> DEFINE a == Build(p, head.head_sha)
               l == [loc[p] EXCEPT !.art = Whole(a), !.branch = Detached]
    <2>1. l.art = Whole(a) /\ l.tmp = loc[p].tmp /\ l.op = loc[p].op /\ l.call = loc[p].call
      BY <1>0 DEF LocType
    <2>2. ControlOf("create", l)
      BY <1>0, <1>10, <2>1 DEF ControlOf, RecordHead, Whole
    <2>3. QED  BY <1>10, <2>2, GoControl, FailControl DEF RecordHead
  <1>11. ASSUME NEW t \in TempNames, CreateTemp(p, t) PROVE ControlInv'
    <2> DEFINE l == [loc[p] EXCEPT !.tmp = t]
    <2>1. l.tmp = t /\ l.op = loc[p].op /\ l.call = loc[p].call /\ l.art = loc[p].art
      BY <1>0 DEF LocType
    <2>2. ControlOf("write", l)
      BY <1>0, <1>11, <2>1 DEF ControlOf, CreateTemp
    <2>3. QED  BY <1>11, <2>2, GoControl DEF CreateTemp
  <1>12. CASE WriteTemp(p)
    <2>1. ControlOf("rename", loc[p])  BY <1>0, <1>12 DEF ControlOf, WriteTemp
    <2>2. QED  BY <1>12, <2>1, GoControl DEF WriteTemp
  <1>13. CASE Rename(p)  BY <1>13, FailControl DEF Rename, Fail
  <1>14. CASE WriteFails(p)  BY <1>14, FailControl DEF WriteFails
  <1>15. CASE Crash(p)  BY <1>15, FailControl DEF Crash
  <1>16. QED
    BY <1>1, <1>2, <1>3, <1>4, <1>5, <1>6, <1>7, <1>8, <1>9, <1>10, <1>11,
       <1>12, <1>13, <1>14, <1>15 DEF ProcNext

LEMMA InitControl == Init => ControlInv
  BY NamesAssumption DEF Init, ControlInv, ControlOf, Idle

LEMMA TypeControl == Spec => [](TypeOK /\ ControlInv)
  <1>1. Init => TypeOK /\ ControlInv
    BY InitType, InitControl
  <1>2. TypeOK /\ ControlInv /\ [Next]_vars => TypeOK' /\ ControlInv'
    <2> SUFFICES ASSUME TypeOK, ControlInv, [Next]_vars
                 PROVE  TypeOK' /\ ControlInv'
      OBVIOUS
    <2>1. CASE \E p \in Procs : ProcNext(p)
      BY <2>1, ProcType, ProcControl
    <2>2. CASE \/ \E c \in Commits : Commit(c) \/ Reset(c)
               \/ \E b \in Branches : Checkout(b)
               \/ Detach
               \/ \E r \in RoleConfigs : Reconfigure(r)
      <3>1. pc' = pc /\ loc' = loc
        BY <2>2 DEF Commit, Reset, Checkout, Detach, Reconfigure
      <3>2. QED  BY <2>2, <3>1, RepoType DEF ControlInv
    <2>3. CASE UNCHANGED vars
      BY <2>3 DEF vars, repo, disk, conf, TypeOK, ControlInv
    <2>4. QED  BY <2>1, <2>2, <2>3 DEF Next
  <1>3. QED  BY <1>1, <1>2, PTL DEF Spec

\* Every variable of the gate processes and of the store keeps its type, for
\* any number of processes, gates, commits and configurations.
THEOREM TypeCorrect == Spec => []TypeOK
  BY TypeControl, PTL

-----------------------------------------------------------------------------
(* A temporary file belongs to one process, which renames what it wrote.   *)

NoTempIn(l) == l.tmp = NoTemp

\* A step that leaves the directory, and p's temporary file, alone.
LEMMA LocalTemp ==
  ASSUME TypeOK, TempInv, ControlInv, NEW p \in Procs, NEW s, NEW l, Go(p, s, l),
         dir' = dir, NoTempIn(l), s \notin {"write", "rename"}
  PROVE  TempInv'
  <1>1. \A q \in Procs : /\ pc'[q] = IF q = p THEN s ELSE pc[q]
                        /\ loc'[q] = IF q = p THEN l ELSE loc[q]
    BY DEF Go, TypeOK
  <1>2. NoTemp \notin TempNames  BY NamesAssumption
  <1>3. QED  BY <1>1, <1>2 DEF TempInv, NoTempIn

LEMMA ConcludeTemp ==
  ASSUME TypeOK, TempInv, ControlInv, NEW p \in Procs, NEW g, NEW st, NEW c,
         pc[p] \in {"status", "status_branch", "status_head"},
         dir' = dir, Conclude(p, g, st, c)
  PROVE  TempInv'
  <1>1. loc[p] \in LocType /\ loc[p].tmp = NoTemp /\ Idle.tmp = NoTemp
    BY DEF TypeOK, ControlInv, ControlOf, LocType, Idle
  <1>2. CASE loc[p].op = "signals"
    <2> DEFINE l == [loc[p] EXCEPT !.todo = @ \ {g}, !.read = Absent, !.branch = Detached,
                       !.report = @ \cup {[gate_id |-> g, status |-> st, read |-> c]}]
    <2>1. NoTempIn(l)  BY <1>1 DEF NoTempIn, LocType
    <2>2. Go(p, "status", l)  BY <1>2 DEF Conclude
    <2>3. QED  BY <2>1, <2>2, LocalTemp
  <1>3. CASE loc[p].op # "signals" /\ st = "pass"
    <2> DEFINE l == [loc[p] EXCEPT !.todo = @ \ {g}, !.branch = Detached]
    <2>1. NoTempIn(l)  BY <1>1 DEF NoTempIn, LocType
    <2>2. Go(p, "show", l)  BY <1>3 DEF Conclude
    <2>3. QED  BY <2>1, <2>2, LocalTemp
  <1>4. CASE loc[p].op # "signals" /\ st # "pass"
    BY <1>1, <1>4, LocalTemp DEF Conclude, Fail, NoTempIn
  <1>5. QED  BY <1>2, <1>3, <1>4

LEMMA ProcTemp ==
  ASSUME TypeOK, ControlInv, TempInv, NEW p \in Procs, ProcNext(p)
  PROVE  TempInv'
  <1>0. /\ loc[p] \in LocType /\ ControlOf(pc[p], loc[p])
        /\ Idle.tmp = NoTemp
    BY DEF TypeOK, ControlInv, Idle
  <1>a. pc[p] \notin {"write", "rename"} => loc[p].tmp = NoTemp
    BY <1>0 DEF ControlOf, LocType
  <1>f. ASSUME Fail(p), dir' = dir PROVE TempInv'
    BY <1>0, <1>f, LocalTemp DEF Fail, NoTempIn
  <1> USE NamesAssumption DEF disk
  <1>1. ASSUME NEW c \in Calls, BeginRecord(p, c) PROVE TempInv'
    <2> DEFINE l == [Idle EXCEPT !.op = "record", !.call = c,
                       !.todo = c.input_gates, !.inputs = c.inputs_file]
    <2>1. NoTempIn(l)  BY DEF Idle, NoTempIn
    <2>2. QED  BY <1>1, <2>1, LocalTemp DEF BeginRecord
  <1>2. CASE BeginSignals(p)
    <2> DEFINE l == [Idle EXCEPT !.op = "signals",
                       !.todo = {n \in Names : ValidGateID(n) /\ dir[n] # Absent}]
    <2>1. NoTempIn(l)  BY DEF Idle, NoTempIn
    <2>2. QED  BY <1>2, <2>1, LocalTemp DEF BeginSignals
  <1>3. ASSUME NEW g \in GateIds, StatusRead(p, g) PROVE TempInv'
    <2>1. CASE ReadableAs(dir[g], g, roles)
      <3> DEFINE l == [loc[p] EXCEPT !.read = dir[g]]
      <3>1. NoTempIn(l)  BY <1>0, <1>a, <1>3 DEF NoTempIn, LocType, StatusRead
      <3>2. QED  BY <1>3, <2>1, <3>1, LocalTemp DEF StatusRead
    <2>2. CASE ~ReadableAs(dir[g], g, roles)
      BY <1>3, <2>2, ConcludeTemp DEF StatusRead
    <2>3. QED  BY <2>1, <2>2
  <1>4. CASE StatusBranch(p)
    <2> DEFINE l == [loc[p] EXCEPT !.branch = head.branch]
    <2>1. NoTempIn(l)  BY <1>0, <1>a, <1>4 DEF NoTempIn, LocType, StatusBranch
    <2>2. QED  BY <1>4, <2>1, LocalTemp DEF StatusBranch
  <1>5. CASE StatusHead(p) \/ StatusGitFails(p)
    BY <1>5, ConcludeTemp DEF StatusHead, StatusGitFails
  <1>6. CASE Show(p)
    <2> DEFINE g == loc[p].read.art.gate_id
               l == [loc[p] EXCEPT !.read = Absent,
                                   !.inputs = @ \cup {InputOf(dir[g].art)}]
    <2>1. NoTempIn(l)  BY <1>0, <1>a, <1>6 DEF NoTempIn, LocType, Show
    <2>2. Go(p, "status", l) \/ Fail(p)  BY <1>6 DEF Show
    <2>3. dir' = dir  BY <1>6 DEF Show
    <2> HIDE DEF l
    <2>4. QED  BY <1>f, <2>1, <2>2, <2>3, LocalTemp
  <1>7. CASE SignalsDone(p)
    BY <1>a, <1>7, LocalTemp DEF SignalsDone, NoTempIn
  <1>8. CASE RecordBranch(p)
    <2> DEFINE l == [loc[p] EXCEPT !.branch = head.branch]
    <2>1. NoTempIn(l)  BY <1>0, <1>a, <1>8 DEF NoTempIn, LocType, RecordBranch
    <2>2. QED  BY <1>8, <1>f, <2>1, LocalTemp DEF RecordBranch
  <1>9. CASE RecordGitFails(p)  BY <1>9, <1>f DEF RecordGitFails
  <1>10. CASE RecordHead(p)
    <2> DEFINE a == Build(p, head.head_sha)
               l == [loc[p] EXCEPT !.art = Whole(a), !.branch = Detached]
    <2>1. NoTempIn(l)  BY <1>0, <1>a, <1>10 DEF NoTempIn, LocType, RecordHead
    <2>2. QED  BY <1>10, <1>f, <2>1, LocalTemp DEF RecordHead
  <1>11. ASSUME NEW t \in TempNames, CreateTemp(p, t) PROVE TempInv'
    <2> DEFINE l == [loc[p] EXCEPT !.tmp = t]
    <2>1. l.tmp = t  BY <1>0 DEF LocType
    <2>2. \A q \in Procs : /\ pc'[q] = IF q = p THEN "write" ELSE pc[q]
                          /\ loc'[q] = IF q = p THEN l ELSE loc[q]
      BY <1>11 DEF CreateTemp, Go, TypeOK
    <2>3. /\ dir[t] = Absent
          /\ \A n \in Names : dir'[n] = IF n = t THEN Unreadable ELSE dir[n]
      BY <1>11 DEF CreateTemp, TypeOK
    <2>4. \A q \in Procs : loc[q].tmp \in TempNames => loc[q].tmp # t
      BY <2>3 DEF TempInv, ControlInv, ControlOf
    <2>5. Unreadable # Absent  BY DEF Unreadable, Absent
    <2>6. \A q \in Procs : pc[q] \in {"write", "rename"} <=> loc[q].tmp \in TempNames
      BY DEF ControlInv, ControlOf
    <2>7. pc[p] = "create"  BY <1>11 DEF CreateTemp
    <2>8. \A q \in Procs : pc'[q] \in {"write", "rename"} =>
            /\ dir'[loc'[q].tmp] # Absent
            /\ pc'[q] = "rename" => dir'[loc'[q].tmp] = loc'[q].art
      <3> HIDE DEF l
      <3>1. ASSUME NEW q \in Procs, q = p, pc'[q] \in {"write", "rename"}
            PROVE  dir'[loc'[q].tmp] # Absent /\ pc'[q] # "rename"
        BY <2>1, <2>2, <2>3, <2>5, <3>1 DEF Names
      <3>2. ASSUME NEW q \in Procs, q # p, pc'[q] \in {"write", "rename"}
            PROVE  /\ dir'[loc'[q].tmp] # Absent
                   /\ pc'[q] = "rename" => dir'[loc'[q].tmp] = loc'[q].art
        <4>1. loc[q].tmp \in TempNames /\ loc[q].tmp # t
          BY <2>2, <2>4, <2>6, <3>2
        <4>2. QED  BY <2>2, <2>3, <3>2, <4>1 DEF TempInv, Names
      <3>3. QED  BY <3>1, <3>2
    <2>9. \A q, r \in Procs :
            loc'[q].tmp = loc'[r].tmp /\ loc'[q].tmp \in TempNames => q = r
      <3> HIDE DEF l
      <3>1. QED  BY <2>1, <2>2, <2>4 DEF TempInv
    <2>10. QED  BY <2>8, <2>9 DEF TempInv
  <1>12. CASE WriteTemp(p)
    <2>1. /\ loc[p].tmp \in TempNames /\ loc[p].art # Absent
      BY <1>0, <1>12 DEF ControlOf, WriteTemp, Absent
    <2>2. \A q \in Procs : /\ pc'[q] = IF q = p THEN "rename" ELSE pc[q]
                          /\ loc'[q] = loc[q]
      BY <1>12 DEF WriteTemp, Go, TypeOK
    <2>3. \A n \in Names : dir'[n] = IF n = loc[p].tmp THEN loc[p].art ELSE dir[n]
      BY <1>12 DEF WriteTemp, TypeOK
    <2>4. QED
      BY <1>12, <2>1, <2>2, <2>3 DEF TempInv, ControlInv, ControlOf, Names, WriteTemp
  <1>13. ASSUME Rename(p) \/ WriteFails(p) PROVE TempInv'
    <2>1. \A q \in Procs : /\ pc'[q] = IF q = p THEN "idle" ELSE pc[q]
                          /\ loc'[q] = IF q = p THEN Idle ELSE loc[q]
      BY <1>13 DEF Rename, WriteFails, Fail, Go, TypeOK
    <2>2. \A t \in TempNames : t # loc[p].tmp => dir'[t] = dir[t]
      <3>1. CASE Rename(p)
        <4>1. loc[p].art.art.gate_id \in GateIds
          <5>1. loc[p].art \in Content /\ loc[p].art.kind = "artifact"
            BY <1>0, <3>1 DEF Rename, ControlOf, LocType
          <5>2. QED  BY <5>1, ArtifactOf
        <4>2. QED  BY <3>1, <4>1 DEF Rename, TypeOK, Names
      <3>2. CASE WriteFails(p)
        BY <3>2 DEF WriteFails, TypeOK, Names
      <3>3. QED  BY <1>13, <3>1, <3>2
    <2>3. QED
      BY <1>0, <2>1, <2>2 DEF TempInv, ControlInv, ControlOf
  <1>15. CASE Crash(p)  BY <1>15, <1>f DEF Crash
  <1>16. QED
    BY <1>1, <1>2, <1>3, <1>4, <1>5, <1>6, <1>7, <1>8, <1>9, <1>10, <1>11,
       <1>12, <1>13, <1>15 DEF ProcNext

LEMMA InitTemp == Init => TempInv
  BY NamesAssumption DEF Init, TempInv, Idle

LEMMA Inductive1 == Spec => [](TypeOK /\ ControlInv /\ TempInv)
  <1>1. Init => TempInv
    BY InitTemp
  <1>2. TypeOK /\ ControlInv /\ TempInv /\ [Next]_vars => TempInv'
    <2> SUFFICES ASSUME TypeOK, ControlInv, TempInv, [Next]_vars
                 PROVE  TempInv'
      OBVIOUS
    <2>1. CASE \E p \in Procs : ProcNext(p)
      BY <2>1, ProcTemp
    <2>2. CASE UNCHANGED <<pc, loc, dir>>
      BY <2>2 DEF TempInv
    <2>3. QED
      BY <2>1, <2>2 DEF Next, Commit, Reset, Checkout, Detach, Reconfigure,
                        vars, repo, disk, conf
  <1>3. QED  BY <1>1, <1>2, TypeControl, PTL DEF Spec

-----------------------------------------------------------------------------
(* What a step may do to the gates' files.                                 *)

\* Only the rename touches a gate's own path, and it puts there the artifact
\* its process built.
LEMMA GatePaths ==
  ASSUME TypeOK, ControlInv, TempInv, NEW p \in Procs, ProcNext(p)
  PROVE  \/ \A g \in GateIds : dir'[g] = dir[g]
         \/ /\ Rename(p)
            /\ loc[p].art = Whole(loc[p].art.art) /\ loc[p].art.art \in Artifact
            /\ \A g \in GateIds :
                 dir'[g] = IF g = loc[p].art.art.gate_id THEN loc[p].art ELSE dir[g]
  <1>0. loc[p] \in LocType /\ ControlOf(pc[p], loc[p])
    BY DEF TypeOK, ControlInv
  <1> USE NamesAssumption
  <1>1. ASSUME NEW t \in TempNames, CreateTemp(p, t)
        PROVE  \A g \in GateIds : dir'[g] = dir[g]
    BY <1>1 DEF CreateTemp, TypeOK, Names
  <1>2. CASE WriteTemp(p) \/ WriteFails(p)
    <2>1. \A n \in GateIds : n # loc[p].tmp \/ loc[p].tmp = NoTemp
      BY <1>0 DEF LocType
    <2>2. WriteTemp(p) => loc[p].tmp \in TempNames
      BY <1>0 DEF WriteTemp, ControlOf
    <2>3. QED  BY <1>2, <2>1, <2>2 DEF WriteTemp, WriteFails, TypeOK, Names
  <1>3. CASE Rename(p)
    <2>1. /\ loc[p].tmp \in TempNames /\ loc[p].art.kind = "artifact"
          /\ dir[loc[p].tmp] = loc[p].art
      BY <1>0, <1>3 DEF Rename, ControlOf, TempInv
    <2>2. loc[p].art = Whole(loc[p].art.art) /\ loc[p].art.art \in Artifact
      BY <1>0, <2>1 DEF LocType, Content, Absent, Unreadable, Whole
    <2>3. \A g \in GateIds :
            dir'[g] = IF g = loc[p].art.art.gate_id THEN loc[p].art ELSE dir[g]
      BY <1>3, <2>1, <2>2 DEF Rename, TypeOK, Names, Artifact
    <2>4. QED  BY <1>3, <2>2, <2>3
  <1>4. CASE dir' = dir  BY <1>4
  <1>5. QED
    BY <1>1, <1>2, <1>3, <1>4
       DEF ProcNext, BeginRecord, BeginSignals, StatusRead, StatusBranch,
           StatusHead, StatusGitFails, Show, SignalsDone, RecordBranch,
           RecordGitFails, RecordHead, Crash, disk

\* No step takes a whole artifact away from a gate or tears it.
THEOREM FilesNeverTorn == Spec => NeverTorn
  <1>1. TypeOK /\ ControlInv /\ TempInv /\ [Next]_vars =>
          [\A g \in GateIds : dir[g].kind = "artifact" => (dir[g].kind = "artifact")']_vars
    <2> SUFFICES ASSUME TypeOK, ControlInv, TempInv, [Next]_vars,
                        NEW g \in GateIds, dir[g].kind = "artifact"
                 PROVE  dir'[g].kind = "artifact"
      OBVIOUS
    <2>1. CASE \E p \in Procs : ProcNext(p)
      <3>1. PICK p \in Procs : ProcNext(p)  BY <2>1
      <3>2. CASE dir'[g] = dir[g]  BY <3>2
      <3>3. CASE dir'[g] = loc[p].art /\ loc[p].art = Whole(loc[p].art.art)
        BY <3>3 DEF Whole
      <3>4. QED  BY <3>1, <3>2, <3>3, GatePaths
    <2>2. CASE dir' = dir  BY <2>2
    <2>3. QED
      BY <2>1, <2>2 DEF Next, Commit, Reset, Checkout, Detach, Reconfigure,
                        vars, disk
  <1>2. QED  BY <1>1, Inductive1, PTL DEF Spec, NeverTorn

-----------------------------------------------------------------------------
(* No subject names a commit that does not exist yet.                      *)

LEMMA GoCommit ==
  ASSUME TypeOK, \A q \in Procs : LocCommit(loc[q]), used' = used,
         NEW p \in Procs, NEW s, NEW l, Go(p, s, l), LocCommit(l)
  PROVE  (\A q \in Procs : LocCommit(loc[q]))'
  BY DEF TypeOK, Go, LocCommit

LEMMA FailCommit ==
  ASSUME TypeOK, \A q \in Procs : LocCommit(loc[q]), used' = used,
         NEW p \in Procs, Fail(p)
  PROVE  (\A q \in Procs : LocCommit(loc[q]))'
  <1>1. LocCommit(Idle)  BY DEF LocCommit, Idle, Absent
  <1>2. QED  BY <1>1, GoCommit DEF Fail

\* Steps other than RecordHead leave the artifact that is being built alone.
LEMMA ProcLocCommit ==
  ASSUME TypeOK, ControlInv, CommitInv, NEW p \in Procs, ProcNext(p)
  PROVE  (\A q \in Procs : LocCommit(loc[q]))'
  <1>0. /\ loc[p] \in LocType /\ LocCommit(loc[p])
        /\ \A q \in Procs : LocCommit(loc[q])
    BY DEF TypeOK, CommitInv
  <1>u. used' = used
    BY DEF ProcNext, BeginRecord, BeginSignals, StatusRead, StatusBranch,
           StatusHead, StatusGitFails, Show, SignalsDone, RecordBranch,
           RecordGitFails, RecordHead, CreateTemp, WriteTemp, Rename,
           WriteFails, Crash, repo
  <1>f. ASSUME Fail(p) PROVE (\A q \in Procs : LocCommit(loc[q]))'
    BY <1>0, <1>u, <1>f, FailCommit
  <1>g. ASSUME NEW s, NEW l, Go(p, s, l), LocCommit(l)
        PROVE  (\A q \in Procs : LocCommit(loc[q]))'
    BY <1>0, <1>u, <1>g, GoCommit
  <1>1. ASSUME NEW c \in Calls, BeginRecord(p, c)
        PROVE  (\A q \in Procs : LocCommit(loc[q]))'
    <2> DEFINE l == [Idle EXCEPT !.op = "record", !.call = c,
                       !.todo = c.input_gates, !.inputs = c.inputs_file]
    <2>1. LocCommit(l)  BY DEF Idle, LocCommit, Absent
    <2>2. Go(p, "status", l)  BY <1>1 DEF BeginRecord
    <2>3. QED  BY <1>g, <2>1, <2>2
  <1>2. CASE BeginSignals(p)
    <2> DEFINE l == [Idle EXCEPT !.op = "signals",
                       !.todo = {n \in Names : ValidGateID(n) /\ dir[n] # Absent}]
    <2>1. LocCommit(l)  BY DEF Idle, LocCommit, Absent
    <2>2. Go(p, "status", l)  BY <1>2 DEF BeginSignals
    <2>3. QED  BY <1>g, <2>1, <2>2
  <1>c. ASSUME NEW g, NEW st, NEW r, Conclude(p, g, st, r)
        PROVE  (\A q \in Procs : LocCommit(loc[q]))'
    <2> DEFINE l1 == [loc[p] EXCEPT !.todo = @ \ {g}, !.read = Absent, !.branch = Detached,
                       !.report = @ \cup {[gate_id |-> g, status |-> st, read |-> r]}]
               l2 == [loc[p] EXCEPT !.todo = @ \ {g}, !.branch = Detached]
    <2>1. LocCommit(l1) /\ LocCommit(l2)  BY <1>0 DEF LocCommit, LocType
    <2>2. Go(p, "status", l1) \/ Go(p, "show", l2) \/ Fail(p)
      BY <1>c DEF Conclude
    <2>3. QED  BY <1>f, <1>g, <2>1, <2>2
  <1>3. ASSUME NEW g \in GateIds, StatusRead(p, g)
        PROVE  (\A q \in Procs : LocCommit(loc[q]))'
    <2> DEFINE l == [loc[p] EXCEPT !.read = dir[g]]
    <2>1. LocCommit(l)  BY <1>0 DEF LocCommit, LocType
    <2>2. CASE Go(p, "status_branch", l)  BY <1>g, <2>1, <2>2
    <2>3. QED  BY <1>3, <1>c, <2>2 DEF StatusRead
  <1>4. CASE StatusBranch(p) \/ RecordBranch(p)
    <2> DEFINE l == [loc[p] EXCEPT !.branch = head.branch]
    <2>1. LocCommit(l)  BY <1>0 DEF LocCommit, LocType
    <2>2. Go(p, "status_head", l) \/ Go(p, "record_head", l) \/ Fail(p)
      BY <1>4 DEF StatusBranch, RecordBranch
    <2>3. QED  BY <1>f, <1>g, <2>1, <2>2
  <1>5. CASE StatusHead(p) \/ StatusGitFails(p)
    BY <1>5, <1>c DEF StatusHead, StatusGitFails
  <1>6. CASE Show(p)
    <2> DEFINE g == loc[p].read.art.gate_id
               l == [loc[p] EXCEPT !.read = Absent,
                                   !.inputs = @ \cup {InputOf(dir[g].art)}]
    <2>1. LocCommit(l)  BY <1>0 DEF LocCommit, LocType
    <2>2. Go(p, "status", l) \/ Fail(p)  BY <1>6 DEF Show
    <2>3. QED  BY <1>f, <1>g, <2>1, <2>2
  <1>7. CASE SignalsDone(p) \/ WriteTemp(p)
    BY <1>0, <1>7, <1>g DEF SignalsDone, WriteTemp
  <1>9. CASE RecordGitFails(p) \/ WriteFails(p) \/ Crash(p) \/ Rename(p)
    BY <1>9, <1>f DEF RecordGitFails, WriteFails, Crash, Rename, Fail
  <1>10. CASE RecordHead(p)
    <2> DEFINE l == [loc[p] EXCEPT !.art = Whole(Build(p, head.head_sha)),
                                   !.branch = Detached]
    <2>1. LocCommit(l)
      BY <1>0 DEF LocCommit, LocType, Whole, Build, CommitInv
    <2>2. Go(p, "create", l) \/ Fail(p)  BY <1>10 DEF RecordHead
    <2>3. QED  BY <1>f, <1>g, <2>1, <2>2
  <1>11. ASSUME NEW t \in TempNames, CreateTemp(p, t)
         PROVE  (\A q \in Procs : LocCommit(loc[q]))'
    <2> DEFINE l == [loc[p] EXCEPT !.tmp = t]
    <2>1. LocCommit(l)  BY <1>0 DEF LocCommit, LocType
    <2>2. Go(p, "write", l)  BY <1>11 DEF CreateTemp
    <2>3. QED  BY <1>g, <2>1, <2>2
  <1>16. QED
    BY <1>1, <1>2, <1>3, <1>4, <1>5, <1>6, <1>7, <1>9, <1>10, <1>11 DEF ProcNext

LEMMA CommitInduct ==
  ASSUME TypeOK, ControlInv, TempInv, CommitInv, [Next]_vars
  PROVE  CommitInv'
  <1>1. CASE \E p \in Procs : ProcNext(p)
    <2>1. PICK p \in Procs : ProcNext(p)  BY <1>1
    <2>2. head' = head /\ tip' = tip /\ used' = used
      BY <2>1 DEF ProcNext, BeginRecord, BeginSignals, StatusRead, StatusBranch,
             StatusHead, StatusGitFails, Show, SignalsDone, RecordBranch,
             RecordGitFails, RecordHead, CreateTemp, WriteTemp, Rename,
             WriteFails, Crash, repo
    <2>3. \A g \in GateIds : dir'[g].kind = "artifact" =>
            dir'[g].art.subject.head_sha \in used
      <3>1. CASE \A g \in GateIds : dir'[g] = dir[g]
        BY <3>1 DEF CommitInv
      <3>2. CASE /\ loc[p].art = Whole(loc[p].art.art)
                 /\ \A g \in GateIds :
                      dir'[g] = IF g = loc[p].art.art.gate_id THEN loc[p].art ELSE dir[g]
        <4>1. loc[p].art.kind = "artifact"  BY <3>2 DEF Whole
        <4>2. loc[p].art.art.subject.head_sha \in used
          BY <4>1 DEF CommitInv, LocCommit
        <4>3. QED  BY <3>2, <4>2 DEF CommitInv
      <3>3. QED  BY <2>1, <3>1, <3>2, GatePaths
    <2>4. QED  BY <2>1, <2>2, <2>3, ProcLocCommit DEF CommitInv
  <1>2. CASE \E c \in Commits : Commit(c)
    BY <1>2 DEF Commit, CommitInv, LocCommit, TypeOK, disk
  <1>3. CASE \E c \in Commits : Reset(c)
    BY <1>3 DEF Reset, CommitInv, LocCommit, TypeOK, disk
  <1>4. CASE \E b \in Branches : Checkout(b)
    BY <1>4 DEF Checkout, CommitInv, LocCommit, TypeOK, disk
  <1>5. CASE Detach \/ UNCHANGED vars \/ \E r \in RoleConfigs : Reconfigure(r)
    BY <1>5 DEF Detach, Reconfigure, CommitInv, LocCommit, TypeOK, disk, repo, vars
  <1>6. QED  BY <1>1, <1>2, <1>3, <1>4, <1>5 DEF Next

LEMMA Inductive2 == Spec => []IInv
  <1>1. Init => CommitInv
    BY DEF Init, CommitInv, LocCommit, Idle, Absent, Unreadable, Names
  <1>2. TypeOK /\ ControlInv /\ TempInv /\ CommitInv /\ [Next]_vars => CommitInv'
    BY CommitInduct
  <1>3. QED  BY <1>1, <1>2, Inductive1, PTL DEF Spec, IInv

\* A commit invalidates every gate: no stored subject can name the new commit.
THEOREM CommitsInvalidate == Spec => CommitInvalidates
  <1>1. IInv /\ [Next]_vars =>
          [used' # used => \A g \in GateIds : (StatusNow(g))' # "pass"]_vars
    <2> SUFFICES ASSUME IInv, [Next]_vars, used' # used, NEW g \in GateIds
                 PROVE  (StatusNow(g))' # "pass"
      OBVIOUS
    <2>1. PICK c \in Commits : Commit(c)
      BY DEF Next, Reset, Checkout, Detach, Reconfigure, vars, repo, ProcNext,
             BeginRecord, BeginSignals, StatusRead, StatusBranch,
             StatusHead, StatusGitFails, Show, SignalsDone, RecordBranch,
             RecordGitFails, RecordHead, CreateTemp, WriteTemp, Rename,
             WriteFails, Crash
    <2>2. head'.head_sha = c /\ c \notin used /\ dir' = dir
      BY <2>1 DEF Commit, IInv, TypeOK, disk
    <2>3. dir[g].kind = "artifact" => dir[g].art.subject.head_sha # head'.head_sha
      BY <2>2 DEF IInv, CommitInv
    <2>4. QED  BY <2>2, <2>3 DEF StatusNow, ReadableAs, DerivedStatus
  <1>2. QED  BY <1>1, Inductive2, PTL DEF Spec, CommitInvalidates

-----------------------------------------------------------------------------
(***************************************************************************)
(* Every pass in the gate store, and every pass a reader reports, stands on *)
(* proofs that were really stored, as long as no command line brings inputs *)
(* of its own with --inputs-file: the code does not compare those with the *)
(* store.                                                                  *)
(***************************************************************************)
NoInputsFile == \A c \in Calls : c.inputs_file = {}

Grows == seen \subseteq seen' /\ proved \subseteq proved'

\* Proofs are never taken back: what was backed stays backed.
LEMMA CarriesProofGrows ==
  ASSUME Grows, NEW a, CarriesProof(a)
  PROVE  CarriesProof(a)'
  BY DEF Grows, CarriesProof, Backed, Passed

LEMMA LocBackedGrows ==
  ASSUME Grows, NEW l, LocBacked(l)
  PROVE  LocBacked(l)'
  <1>1. l.art.kind = "artifact" => CarriesProof(l.art.art)'
    BY CarriesProofGrows DEF LocBacked
  <1>2. l.read.kind = "artifact" => CarriesProof(l.read.art)'
    BY CarriesProofGrows DEF LocBacked
  <1>3. /\ l.read.kind = "artifact" /\ l.read.art.status = "pass" =>
             Passed(l.read.art.gate_id, l.read.art.subject)'
        /\ \A i \in l.inputs : i.status = "pass" => Passed(i.gate_id, i.subject)'
    BY DEF LocBacked, Grows, Passed
  <1>4. \A x \in l.report : x.status = "pass" =>
          /\ x.read.art.status = "pass"
          /\ Passed(x.gate_id, x.read.art.subject)'
          /\ Backed(x.gate_id, x.read.art.subject)'
    BY DEF LocBacked, Grows, Passed, Backed
  <1>5. QED  BY <1>1, <1>2, <1>3, <1>4 DEF LocBacked

LEMMA GoBacked ==
  ASSUME TypeOK, \A q \in Procs : LocBacked(loc[q]), Grows,
         NEW p \in Procs, NEW s, NEW l, Go(p, s, l), LocBacked(l)
  PROVE  (\A q \in Procs : LocBacked(loc[q]))'
  <1> SUFFICES ASSUME NEW q \in Procs PROVE LocBacked(loc[q])'
    OBVIOUS
  <1>1. loc'[q] = l \/ loc'[q] = loc[q]
    BY DEF TypeOK, Go
  <1>2. CASE loc'[q] = l
    <2>1. LocBacked(l)'  BY LocBackedGrows
    <2>2. QED  BY <1>2, <2>1 DEF LocBacked, CarriesProof, Passed, Backed
  <1>3. CASE loc'[q] = loc[q]
    <2>1. PICK m : m = loc[q]  OBVIOUS
    <2>2. LocBacked(m)'  BY <2>1, LocBackedGrows
    <2>3. loc'[q] = m  BY <1>3, <2>1
    <2>4. QED  BY <2>2, <2>3 DEF LocBacked, CarriesProof, Passed, Backed
  <1>4. QED  BY <1>1, <1>2, <1>3

LEMMA IdleBacked == LocBacked(Idle)
  BY DEF LocBacked, Idle, Absent

LEMMA FailBacked ==
  ASSUME TypeOK, \A q \in Procs : LocBacked(loc[q]), Grows,
         NEW p \in Procs, Fail(p)
  PROVE  (\A q \in Procs : LocBacked(loc[q]))'
  BY IdleBacked, GoBacked DEF Fail

LEMMA ProcGrows ==
  ASSUME NEW p \in Procs, ProcNext(p)
  PROVE  Grows /\ seen' = seen /\ roles' = roles /\ (~Rename(p) => proved' = proved)
  BY DEF Grows, ProcNext, BeginRecord, BeginSignals, StatusRead, StatusBranch,
         StatusHead, StatusGitFails, Show, SignalsDone, RecordBranch,
         RecordGitFails, RecordHead, CreateTemp, WriteTemp, Rename,
         WriteFails, Crash, disk, conf

\* The heart of the argument.  An artifact that meets the contract of the
\* roles in force, and lists only inputs that were stored, carries its proof:
\* a pr-readiness pass names one passing input on its own subject for every
\* gate the roles require.
LEMMA BuiltCarriesProof ==
  ASSUME BackingInv, NEW a, GateContract(a, roles),
         \A i \in a.inputs : i.status = "pass" => Passed(i.gate_id, i.subject)
  PROVE  CarriesProof(a)
  <1>1. roles \in seen  BY DEF BackingInv
  <1>2. ASSUME a.status = "pass", a.gate_id = roles.spec["pr_readiness"].gate_id,
               NEW q \in RequiredGates(roles)
        PROVE  Passed(q, a.subject)
    <2>1. ConfiguredPRReadinessGate(a, roles)
      BY <1>2 DEF GateContract, RoleNames
    <2>2. PICK i \in a.inputs : i.gate_id = q /\ i.status = "pass"
      BY <1>2, <2>1 DEF ConfiguredPRReadinessGate
    <2>3. i.subject = a.subject
      BY <1>2, <2>1, <2>2 DEF ConfiguredPRReadinessGate
    <2>4. QED  BY <2>2, <2>3
  <1>3. QED  BY <1>1, <1>2 DEF CarriesProof, Backed, Passed

LEMMA ProcLocBacked ==
  ASSUME NoInputsFile, TypeOK, ControlInv, BackingInv, NEW p \in Procs, ProcNext(p)
  PROVE  (\A q \in Procs : LocBacked(loc[q]))'
  <1>0. /\ loc[p] \in LocType /\ LocBacked(loc[p]) /\ ControlOf(pc[p], loc[p])
        /\ \A q \in Procs : LocBacked(loc[q])
        /\ Grows
    BY ProcGrows DEF TypeOK, ControlInv, BackingInv
  <1>f. ASSUME Fail(p) PROVE (\A q \in Procs : LocBacked(loc[q]))'
    BY <1>0, <1>f, FailBacked
  <1>g. ASSUME NEW s, NEW l, Go(p, s, l), LocBacked(l)
        PROVE  (\A q \in Procs : LocBacked(loc[q]))'
    BY <1>0, <1>g, GoBacked
  <1>1. ASSUME NEW c \in Calls, BeginRecord(p, c)
        PROVE  (\A q \in Procs : LocBacked(loc[q]))'
    <2> DEFINE l == [Idle EXCEPT !.op = "record", !.call = c,
                       !.todo = c.input_gates, !.inputs = c.inputs_file]
    <2>1. /\ l.art = Absent /\ l.read = Absent /\ l.report = {}
          /\ l.inputs = {}
      BY DEF Idle, NoInputsFile
    <2>2. LocBacked(l)  BY <2>1 DEF LocBacked, Absent
    <2>3. Go(p, "status", l)  BY <1>1 DEF BeginRecord
    <2>4. QED  BY <1>g, <2>2, <2>3
  <1>2. CASE BeginSignals(p)
    <2> DEFINE l == [Idle EXCEPT !.op = "signals",
                       !.todo = {n \in Names : ValidGateID(n) /\ dir[n] # Absent}]
    <2>1. LocBacked(l)  BY DEF Idle, LocBacked, Absent
    <2>2. Go(p, "status", l)  BY <1>2 DEF BeginSignals
    <2>3. QED  BY <1>g, <2>1, <2>2
  \* A result that claims a pass must come with a backed one.
  <1>c. ASSUME NEW g, NEW st, NEW r, Conclude(p, g, st, r),
               st = "pass" => /\ r.art.status = "pass"
                              /\ Passed(g, r.art.subject)
                              /\ Backed(g, r.art.subject)
        PROVE  (\A q \in Procs : LocBacked(loc[q]))'
    <2> DEFINE x  == [gate_id |-> g, status |-> st, read |-> r]
               l1 == [loc[p] EXCEPT !.todo = @ \ {g}, !.read = Absent, !.branch = Detached,
                        !.report = @ \cup {x}]
               l2 == [loc[p] EXCEPT !.todo = @ \ {g}, !.branch = Detached]
    <2>1. /\ l1.art = loc[p].art /\ l1.read = Absent /\ l1.inputs = loc[p].inputs
          /\ l1.report = loc[p].report \cup {x}
          /\ l2.art = loc[p].art /\ l2.read = loc[p].read
          /\ l2.inputs = loc[p].inputs /\ l2.report = loc[p].report
      BY <1>0 DEF LocType
    <2>2. LocBacked(l2)  BY <1>0, <2>1 DEF LocBacked
    <2>3. x.status = "pass" => /\ x.read.art.status = "pass"
                               /\ Passed(x.gate_id, x.read.art.subject)
                               /\ Backed(x.gate_id, x.read.art.subject)
      BY <1>c
    <2>4. LocBacked(l1)
      <3> DEFINE Sound(y) == y.status = "pass" => /\ y.read.art.status = "pass"
                                                   /\ Passed(y.gate_id, y.read.art.subject)
                                                   /\ Backed(y.gate_id, y.read.art.subject)
      <3>1. \A y \in loc[p].report : Sound(y)
        BY <1>0 DEF LocBacked
      <3>2. Sound(x)
        BY <2>3
      <3>3. \A y \in l1.report : Sound(y)
        <4> HIDE DEF x, l1, Sound
        <4>1. QED  BY <2>1, <3>1, <3>2
      <3>4. l1.read.kind # "artifact"
        BY <2>1 DEF Absent
      <3> HIDE DEF x, l1, l2
      <3>5. QED  BY <1>0, <2>1, <3>3, <3>4 DEF LocBacked
    <2>5. Go(p, "status", l1) \/ Go(p, "show", l2) \/ Fail(p)
      BY <1>c DEF Conclude
    <2>6. QED  BY <1>f, <1>g, <2>2, <2>4, <2>5
  <1>3. ASSUME NEW g \in GateIds, StatusRead(p, g)
        PROVE  (\A q \in Procs : LocBacked(loc[q]))'
    <2> DEFINE l == [loc[p] EXCEPT !.read = dir[g]]
    <2>1. CASE ReadableAs(dir[g], g, roles)
      <3>1. /\ dir[g].kind = "artifact" /\ dir[g].art.gate_id = g
            /\ CarriesProof(dir[g].art)
            /\ dir[g].art.status = "pass" => Passed(g, dir[g].art.subject)
        BY <2>1 DEF ReadableAs, BackingInv, StoreBacked
      <3>2. /\ l.art = loc[p].art /\ l.read = dir[g]
            /\ l.inputs = loc[p].inputs /\ l.report = loc[p].report
        BY <1>0 DEF LocType
      <3>3. LocBacked(l)
        <4> HIDE DEF l
        <4>1. QED  BY <1>0, <3>1, <3>2 DEF LocBacked
      <3>4. Go(p, "status_branch", l)  BY <1>3, <2>1 DEF StatusRead
      <3>5. QED  BY <1>g, <3>3, <3>4
    <2>2. CASE ~ReadableAs(dir[g], g, roles)
      BY <1>3, <1>c, <2>2 DEF StatusRead
    <2>3. QED  BY <2>1, <2>2
  <1>4. CASE StatusBranch(p) \/ RecordBranch(p)
    <2> DEFINE l == [loc[p] EXCEPT !.branch = head.branch]
    <2>1. /\ l.art = loc[p].art /\ l.read = loc[p].read
          /\ l.inputs = loc[p].inputs /\ l.report = loc[p].report
      BY <1>0 DEF LocType
    <2>2. LocBacked(l)  BY <1>0, <2>1 DEF LocBacked
    <2>3. Go(p, "status_head", l) \/ Go(p, "record_head", l) \/ Fail(p)
      BY <1>4 DEF StatusBranch, RecordBranch
    <2>4. QED  BY <1>f, <1>g, <2>2, <2>3
  <1>5. CASE StatusHead(p)
    <2> DEFINE a == loc[p].read.art
               st == DerivedStatus(a, loc[p].branch, head.head_sha)
    <2>1. loc[p].read.kind = "artifact"  BY <1>0, <1>5 DEF StatusHead, ControlOf
    <2>2. CarriesProof(a) /\ (a.status = "pass" => Passed(a.gate_id, a.subject))
      BY <1>0, <2>1 DEF LocBacked
    <2>3. st = "pass" => a.status = "pass"  BY DEF DerivedStatus
    <2>4. st = "pass" => Passed(a.gate_id, a.subject) /\ Backed(a.gate_id, a.subject)
      BY <2>2, <2>3 DEF CarriesProof
    <2>5. Conclude(p, a.gate_id, st, loc[p].read)  BY <1>5 DEF StatusHead
    <2>6. QED  BY <1>c, <2>3, <2>4, <2>5
  <1>6. CASE StatusGitFails(p)
    BY <1>6, <1>c DEF StatusGitFails
  <1>7. CASE Show(p)
    <2> DEFINE g == loc[p].read.art.gate_id
               l == [loc[p] EXCEPT !.read = Absent,
                                   !.inputs = @ \cup {InputOf(dir[g].art)}]
    <2>1. CASE ReadableAs(dir[g], g, roles)
      <3>1. loc[p].read.kind = "artifact"  BY <1>0, <1>7 DEF Show, ControlOf
      <3>2. g \in GateIds
        BY <1>0, <3>1 DEF LocType, Content, Artifact, Absent, Unreadable
      <3>3. LET i == InputOf(dir[g].art) IN
              i.status = "pass" => Passed(i.gate_id, i.subject)
        BY <2>1, <3>2 DEF ReadableAs, BackingInv, StoreBacked, InputOf
      <3>4. /\ l.art = loc[p].art /\ l.read = Absent
            /\ l.inputs = loc[p].inputs \cup {InputOf(dir[g].art)}
            /\ l.report = loc[p].report
        BY <1>0 DEF LocType
      <3>5. LocBacked(l)
        <4> DEFINE new == InputOf(dir[g].art)
                   Proved(i) == i.status = "pass" => Passed(i.gate_id, i.subject)
        <4>1. Proved(new)  BY <3>3
        <4>2. l.inputs = loc[p].inputs \cup {new}  BY <3>4
        <4>3. \A i \in loc[p].inputs : Proved(i)  BY <1>0 DEF LocBacked
        <4>4. \A i \in l.inputs : Proved(i)
          <5> HIDE DEF l, new, Proved
          <5>1. QED  BY <4>1, <4>2, <4>3
        <4>5. l.read.kind # "artifact"  BY <3>4 DEF Absent
        <4> HIDE DEF l, new
        <4>6. QED  BY <1>0, <3>4, <4>4, <4>5 DEF LocBacked
      <3>6. Go(p, "status", l)  BY <1>7, <2>1 DEF Show
      <3>7. QED  BY <1>g, <3>5, <3>6
    <2>2. CASE ~ReadableAs(dir[g], g, roles)
      BY <1>7, <1>f, <2>2 DEF Show
    <2>3. QED  BY <2>1, <2>2
  <1>8. CASE SignalsDone(p) \/ WriteTemp(p)
    BY <1>0, <1>8, <1>g DEF SignalsDone, WriteTemp
  <1>9. CASE RecordGitFails(p) \/ WriteFails(p) \/ Crash(p) \/ Rename(p)
    BY <1>9, <1>f DEF RecordGitFails, WriteFails, Crash, Rename, Fail
  <1>10. CASE RecordHead(p)
    <2> DEFINE a == Build(p, head.head_sha)
               l == [loc[p] EXCEPT !.art = Whole(a), !.branch = Detached]
    <2>1. CASE GateContract(a, roles)
      <3>1. a.inputs = loc[p].inputs  BY DEF Build
      <3>2. CarriesProof(a)
        <4>1. \A i \in a.inputs : i.status = "pass" => Passed(i.gate_id, i.subject)
          BY <1>0, <3>1 DEF LocBacked
        <4> HIDE DEF a
        <4>2. QED  BY <2>1, <4>1, BuiltCarriesProof
      <3>3. /\ l.art = [kind |-> "artifact", art |-> a] /\ l.read = loc[p].read
            /\ l.inputs = loc[p].inputs /\ l.report = loc[p].report
        BY <1>0 DEF LocType, Whole
      <3>4. LocBacked(l)
        <4> HIDE DEF l, a
        <4>1. l.art.kind = "artifact" => CarriesProof(l.art.art)
          BY <3>2, <3>3
        <4>2. l.read.kind = "artifact" =>
                /\ CarriesProof(l.read.art)
                /\ l.read.art.status = "pass" => Passed(l.read.art.gate_id, l.read.art.subject)
          BY <1>0, <3>3 DEF LocBacked
        <4>3. \A i \in l.inputs : i.status = "pass" => Passed(i.gate_id, i.subject)
          BY <1>0, <3>3 DEF LocBacked
        <4>4. \A x \in l.report : x.status = "pass" =>
                /\ x.read.art.status = "pass"
                /\ Passed(x.gate_id, x.read.art.subject)
                /\ Backed(x.gate_id, x.read.art.subject)
          BY <1>0, <3>3 DEF LocBacked
        <4>5. QED  BY <4>1, <4>2, <4>3, <4>4 DEF LocBacked
      <3>5. Go(p, "create", l)  BY <1>10, <2>1 DEF RecordHead
      <3>6. QED  BY <1>g, <3>4, <3>5
    <2>2. CASE ~GateContract(a, roles)
      BY <1>10, <1>f, <2>2 DEF RecordHead
    <2>3. QED  BY <2>1, <2>2
  <1>11. ASSUME NEW t \in TempNames, CreateTemp(p, t)
         PROVE  (\A q \in Procs : LocBacked(loc[q]))'
    <2> DEFINE l == [loc[p] EXCEPT !.tmp = t]
    <2>1. /\ l.art = loc[p].art /\ l.read = loc[p].read
          /\ l.inputs = loc[p].inputs /\ l.report = loc[p].report
      BY <1>0 DEF LocType
    <2>2. LocBacked(l)  BY <1>0, <2>1 DEF LocBacked
    <2>3. Go(p, "write", l)  BY <1>11 DEF CreateTemp
    <2>4. QED  BY <1>g, <2>2, <2>3
  <1>12. QED
    BY <1>1, <1>2, <1>3, <1>4, <1>5, <1>6, <1>7, <1>8, <1>9, <1>10, <1>11
       DEF ProcNext

LEMMA StoreBackedGrows ==
  ASSUME StoreBacked, Grows, \A g \in GateIds : dir'[g] = dir[g]
  PROVE  StoreBacked'
  <1> SUFFICES ASSUME NEW g \in GateIds, dir'[g].kind = "artifact"
               PROVE  /\ dir'[g].art.gate_id = g
                      /\ CarriesProof(dir[g].art)'
                      /\ dir'[g].art.status = "pass" => Passed(g, dir[g].art.subject)'
    BY DEF StoreBacked
  <1>1. PICK a : a = dir[g].art  OBVIOUS
  <1>2. /\ a.gate_id = g /\ CarriesProof(a)
        /\ a.status = "pass" => Passed(g, a.subject)
    BY <1>1 DEF StoreBacked
  <1>3. CarriesProof(a)' /\ (a.status = "pass" => Passed(g, a.subject)')
    BY <1>2, CarriesProofGrows DEF Grows, Passed
  <1>4. dir'[g].art = a  BY <1>1
  <1>5. QED  BY <1>2, <1>3, <1>4 DEF CarriesProof, Passed, Backed

\* The rename stores what its process carries, and a pass joins the proofs.
LEMMA RenameStoreBacked ==
  ASSUME TypeOK, ControlInv, TempInv, BackingInv, NEW p \in Procs, Rename(p)
  PROVE  StoreBacked'
  <1> DEFINE a == loc[p].art.art
  <1>1. ProcNext(p)  BY DEF ProcNext
  <1>2. Grows  BY <1>1, ProcGrows
  <1>3. loc[p].art.kind = "artifact" /\ a \in Artifact /\ loc[p].art = Whole(a)
    <2>1. loc[p].art.kind = "artifact" /\ loc[p].art \in Content
      BY DEF Rename, ControlInv, ControlOf, TypeOK, LocType
    <2>2. QED  BY <2>1 DEF Content, Absent, Unreadable, Whole
  <1>4. CarriesProof(a)  BY <1>3 DEF BackingInv, LocBacked
  <1>5. \A g \in GateIds : dir'[g] = IF g = a.gate_id THEN Whole(a) ELSE dir[g]
    <2>1. CASE \A g \in GateIds : dir'[g] = IF g = a.gate_id THEN loc[p].art ELSE dir[g]
      BY <1>3, <2>1
    <2>2. CASE \A g \in GateIds : dir'[g] = dir[g]
      <3>1. loc[p].tmp \in TempNames /\ dir[loc[p].tmp] = loc[p].art
        BY DEF Rename, ControlInv, ControlOf, TempInv
      <3>2. a.gate_id \in GateIds  BY <1>3 DEF Artifact
      <3>3. dir'[a.gate_id] = loc[p].art
        BY <3>1, <3>2, NamesAssumption DEF Rename, TypeOK, Names
      <3>4. QED  BY <1>3, <2>2, <3>3
    <2>3. QED  BY <1>1, <2>1, <2>2, GatePaths
  <1>w. Whole(a).art = a  BY DEF Whole
  <1>6. PICK b : b = a  OBVIOUS
  <1>7. b.status = "pass" => Passed(b.gate_id, b.subject)'
    BY <1>6 DEF Rename, Passed
  <1>8. CarriesProof(b)' /\ (b.status = "pass" => Passed(b.gate_id, b.subject)')
    <2>1. CarriesProof(b)  BY <1>4, <1>6
    <2>2. CarriesProof(b)'  BY <1>2, <2>1, CarriesProofGrows
    <2>3. QED  BY <1>7, <2>2
  <1>9. ASSUME NEW g \in GateIds, dir'[g].kind = "artifact"
        PROVE  /\ dir'[g].art.gate_id = g
               /\ CarriesProof(dir[g].art)'
               /\ dir'[g].art.status = "pass" => Passed(g, dir[g].art.subject)'
    <2>1. CASE g = b.gate_id
      <3>1. dir'[g].art = b  BY <1>5, <1>6, <1>w, <2>1
      <3>2. QED  BY <1>8, <2>1, <3>1 DEF CarriesProof, Passed, Backed
    <2>2. CASE g # b.gate_id
      <3>1. PICK c : c = dir[g].art  OBVIOUS
      <3>2. dir'[g] = dir[g] /\ dir'[g].art = c  BY <1>5, <1>6, <2>2, <3>1
      <3>3. /\ c.gate_id = g /\ CarriesProof(c)
            /\ c.status = "pass" => Passed(g, c.subject)
        BY <1>9, <3>1, <3>2 DEF BackingInv, StoreBacked
      <3>4. CarriesProof(c)' /\ (c.status = "pass" => Passed(g, c.subject)')
        BY <1>2, <3>3, CarriesProofGrows DEF Grows, Passed
      <3>5. QED  BY <3>2, <3>3, <3>4 DEF CarriesProof, Passed, Backed
    <2>3. QED  BY <2>1, <2>2
  <1>10. QED  BY <1>9 DEF StoreBacked

LEMMA BackingStep ==
  ASSUME NoInputsFile, IInv, BackingInv, [Next]_vars
  PROVE  BackingInv'
  <1> USE DEF IInv
  <1>1. CASE \E p \in Procs : ProcNext(p)
    <2>1. PICK p \in Procs : ProcNext(p)  BY <1>1
    <2>2. Grows /\ roles' = roles  BY <2>1, ProcGrows
    <2>3. (\A q \in Procs : LocBacked(loc[q]))'  BY <2>1, ProcLocBacked
    <2>4. StoreBacked'
      <3>1. CASE Rename(p)  BY <3>1, RenameStoreBacked
      <3>2. CASE \A g \in GateIds : dir'[g] = dir[g]
        BY <2>2, <3>2, StoreBackedGrows DEF BackingInv
      <3>3. QED  BY <2>1, <3>1, <3>2, GatePaths
    <2>5. QED  BY <2>2, <2>3, <2>4 DEF BackingInv, Grows
  <1>2. CASE \/ \E r \in RoleConfigs : Reconfigure(r)
             \/ UNCHANGED vars \/ Detach
             \/ \E c \in Commits : Commit(c) \/ Reset(c)
             \/ \E b \in Branches : Checkout(b)
    <2>1. Grows /\ roles' \in seen' /\ dir' = dir /\ loc' = loc
      BY <1>2 DEF Reconfigure, Detach, Commit, Reset, Checkout, vars, repo,
                  disk, conf, Grows, BackingInv
    <2>2. StoreBacked'  BY <2>1, StoreBackedGrows DEF BackingInv
    <2>3. ASSUME NEW q \in Procs PROVE LocBacked(loc[q])'
      <3>1. PICK m : m = loc[q]  OBVIOUS
      <3>2. LocBacked(m)'  BY <2>1, <3>1, LocBackedGrows DEF BackingInv
      <3>3. loc'[q] = m  BY <2>1, <3>1
      <3>4. QED  BY <3>2, <3>3 DEF LocBacked, CarriesProof, Passed, Backed
    <2>4. QED  BY <2>1, <2>2, <2>3 DEF BackingInv
  <1>3. QED  BY <1>1, <1>2 DEF Next

LEMMA Inductive3 ==
  ASSUME NoInputsFile
  PROVE  Spec => []ProofInv
  <1>1. Init => BackingInv
    <2> SUFFICES ASSUME Init PROVE BackingInv
      OBVIOUS
    <2>1. roles \in seen  BY DEF Init
    <2>2. StoreBacked  BY DEF Init, StoreBacked, Names, Absent, Unreadable
    <2>3. \A p \in Procs : LocBacked(loc[p])  BY IdleBacked DEF Init
    <2>4. QED  BY <2>1, <2>2, <2>3 DEF BackingInv
  <1>2. IInv /\ BackingInv /\ [Next]_vars => BackingInv'
    BY BackingStep
  <1>3. QED  BY <1>1, <1>2, Inductive2, PTL DEF Spec, ProofInv

-----------------------------------------------------------------------------
(* The safety properties of the store.                                     *)

\* Whatever a gate holds met the contract of roles that were in force.
THEOREM StoredArtifactsMetContract ==
  ASSUME NoInputsFile
  PROVE  Spec => []StoredMetContract
  <1>1. ProofInv => StoredMetContract
    BY DEF ProofInv, BackingInv, StoreBacked, CarriesProof, StoredMetContract
  <1>2. QED  BY <1>1, Inductive3, PTL

\* Every stored pass is backed: a pr-readiness pass stands on upstream passes
\* that were stored for the same branch and commit.
THEOREM StoredPassesAreBacked ==
  ASSUME NoInputsFile
  PROVE  Spec => []PassIsBacked
  <1>1. ProofInv => PassIsBacked
    <2> SUFFICES ASSUME ProofInv, NEW g \in GateIds, dir[g].kind = "artifact",
                        dir[g].art.status = "pass"
                 PROVE  Backed(g, dir[g].art.subject)
      BY DEF PassIsBacked
    <2>1. dir[g].art.gate_id = g /\ CarriesProof(dir[g].art)
      BY DEF ProofInv, BackingInv, StoreBacked
    <2>2. QED  BY <2>1 DEF CarriesProof
  <1>2. QED  BY <1>1, Inductive3, PTL

\* Every pass a reader reports is backed, although it reads the artifact, the
\* branch and HEAD at different moments.
THEOREM ReportedPassesAreBacked ==
  ASSUME NoInputsFile
  PROVE  Spec => []ReportedPassIsBacked
  <1>1. ProofInv => ReportedPassIsBacked
    BY DEF ProofInv, BackingInv, LocBacked, Passed, ReportedPassIsBacked
  <1>2. QED  BY <1>1, Inductive3, PTL

\* A pass that reads as fresh now meets the roles in force now, whatever they
\* were when it was recorded.
THEOREM FreshPassesMeetRoles ==
  ASSUME NoInputsFile
  PROVE  Spec => []FreshPassMeetsRoles
  <1>1. ProofInv => FreshPassMeetsRoles
    <2> DEFINE g == roles.spec["pr_readiness"].gate_id
    <2> SUFFICES ASSUME ProofInv, StatusNow(g) = "pass",
                        NEW q \in RequiredGates(roles)
                 PROVE  Passed(q, head)
      BY DEF FreshPassMeetsRoles, Passed
    <2>1. ReadableAs(dir[g], g, roles)
      BY DEF StatusNow
    <2>2. DerivedStatus(dir[g].art, head.branch, head.head_sha) = "pass"
      BY <2>1 DEF StatusNow
    <2>3. dir[g].art.status = "pass" /\ dir[g].art.subject = head
      <3>1. g \in GateIds
        BY RolesAssumption
           DEF ProofInv, IInv, TypeOK, RuntimeGateRoles, RoleSpec, RoleNames
      <3>2. dir[g].art.subject \in Subject
        <4>1. dir[g] \in Content
          BY <3>1 DEF ProofInv, IInv, TypeOK, Names
        <4>2. dir[g].kind = "artifact"
          BY <2>1 DEF ReadableAs
        <4>3. QED  BY <4>1, <4>2, ArtifactOf
      <3>3. head \in [branch : Branches \cup {Detached}, head_sha : Commits]
        BY DEF ProofInv, IInv, TypeOK
      <3>4. /\ dir[g].art.subject.branch = head.branch
            /\ dir[g].art.subject.head_sha = head.head_sha
            /\ dir[g].art.status = "pass"
        BY <2>2 DEF DerivedStatus
      <3> DEFINE s == dir[g].art.subject
      <3>5. s = [branch |-> s.branch, head_sha |-> s.head_sha]
        <4> HIDE DEF s
        <4>1. s \in Subject  BY <3>2 DEF s
        <4>2. QED  BY <4>1 DEF Subject
      <3>6. head = [branch |-> head.branch, head_sha |-> head.head_sha]
        BY <3>3
      <3>7. s = head
        <4>1. s.branch = head.branch /\ s.head_sha = head.head_sha  BY <3>4
        <4> HIDE DEF s
        <4>2. QED  BY <3>5, <3>6, <4>1
      <3>8. QED  BY <3>4, <3>7
    <2>4. ConfiguredPRReadinessGate(dir[g].art, roles)
      BY <2>1 DEF ReadableAs, GateContract, RoleNames
    <2>5. PICK i \in dir[g].art.inputs : i.gate_id = q /\ i.status = "pass"
      BY <2>3, <2>4 DEF ConfiguredPRReadinessGate
    <2>6. i.subject = head
      BY <2>3, <2>4, <2>5 DEF ConfiguredPRReadinessGate
    <2>7. Passed(i.gate_id, i.subject)
      <3>1. g \in GateIds
        BY RolesAssumption
           DEF ProofInv, IInv, TypeOK, RuntimeGateRoles, RoleSpec, RoleNames
      <3>2. CarriesProof(dir[g].art)
        BY <2>1, <3>1 DEF ReadableAs, ProofInv, BackingInv, StoreBacked
      <3>3. QED  BY <2>5, <3>2 DEF CarriesProof
    <2>8. QED  BY <2>5, <2>6, <2>7
  <1>2. QED  BY <1>1, Inductive3, PTL

-----------------------------------------------------------------------------
(***************************************************************************)
(* The artifact files implement the atomic ledger.                         *)
(***************************************************************************)
\* The ledger's demand on a pass is what a stored pass is known to be backed
\* by: both modules read the same role data.
LEMMA SameDemand ==
  ASSUME NEW g, NEW s
  PROVE  Ledger!DemandMet(g, s) <=> Backed(g, s)
  <1>1. \A r : Ledger!RequiredGates(r) = RequiredGates(r)
    BY DEF Ledger!RequiredGates, RequiredGates, Ledger!RequiredForPRReadiness,
           RequiredForPRReadiness
  <1>2. QED  BY <1>1 DEF Ledger!DemandMet, Backed

\* A rename is the ledger's Passes or Fails; a stored artifact is backed
\* before the rename, and so is the demand met.
LEMMA RenameRecords ==
  ASSUME ProofInv, NEW p \in Procs, Rename(p)
  PROVE  \E g \in GateIds, s \in Ledger!Subject : Ledger!Fails(g, s) \/ Ledger!Passes(g, s)
  <1> DEFINE a == loc[p].art.art
             latest == [g \in GateIds |-> ProofIn(dir[g])]
  <1>1. loc[p].art.kind = "artifact" /\ a \in Artifact /\ loc[p].art = Whole(a)
    <2>1. loc[p].art.kind = "artifact" /\ loc[p].art \in Content
      BY DEF Rename, ProofInv, IInv, ControlInv, ControlOf, TypeOK, LocType
    <2>2. QED  BY <2>1 DEF Content, Absent, Unreadable, Whole
  <1>2. a.gate_id \in GateIds /\ a.subject \in Ledger!Subject /\ a.status \in {"pass", "fail"}
    BY <1>1 DEF Artifact, Subject, Ledger!Subject
  <1>3. \A g \in GateIds : dir'[g] = IF g = a.gate_id THEN Whole(a) ELSE dir[g]
    <2>1. loc[p].tmp \in TempNames /\ dir[loc[p].tmp] = loc[p].art
      BY DEF Rename, ProofInv, IInv, ControlInv, ControlOf, TempInv
    <2>2. QED
      BY <1>1, <1>2, <2>1, NamesAssumption DEF Rename, ProofInv, IInv, TypeOK, Names
  <1>4. latest' = [latest EXCEPT ![a.gate_id] = [status |-> a.status, subject |-> a.subject]]
    <2> DEFINE new == [status |-> a.status, subject |-> a.subject]
    <2>1. ProofIn(Whole(a)) = new
      BY DEF ProofIn, Whole
    <2>2. \A g \in GateIds : ProofIn(dir[g])' = IF g = a.gate_id THEN new ELSE ProofIn(dir[g])
      <3>1. ASSUME NEW g \in GateIds, g = a.gate_id PROVE ProofIn(dir[g])' = new
        <4>1. dir'[g] = Whole(a)  BY <1>3, <3>1
        <4>2. ProofIn(dir[g])' = ProofIn(dir'[g])  BY DEF ProofIn
        <4>3. QED  BY <2>1, <4>1, <4>2
      <3>2. ASSUME NEW g \in GateIds, g # a.gate_id PROVE ProofIn(dir[g])' = ProofIn(dir[g])
        BY <1>3, <3>2 DEF ProofIn
      <3>3. QED  BY <3>1, <3>2
    <2>3. QED  BY <1>2, <2>2
  <1>5. seen' = seen
    BY DEF Rename, conf
  <1>6. CASE a.status = "fail"
    <2>1. proved' = proved  BY <1>6 DEF Rename
    <2>2. Ledger!Fails(a.gate_id, a.subject)
      BY <1>4, <1>5, <1>6, <2>1 DEF Ledger!Fails
    <2>3. QED  BY <1>2, <2>2
  <1>7. CASE a.status = "pass"
    <2>1. Backed(a.gate_id, a.subject)
      BY <1>1, <1>7 DEF ProofInv, BackingInv, LocBacked, CarriesProof
    <2>2. Ledger!DemandMet(a.gate_id, a.subject)
      BY <2>1, SameDemand
    <2>3. proved' = proved \cup {[gate_id |-> a.gate_id, subject |-> a.subject]}
      BY <1>7 DEF Rename
    <2>4. Ledger!Passes(a.gate_id, a.subject)
      BY <1>4, <1>5, <1>7, <2>2, <2>3 DEF Ledger!Passes
    <2>5. QED  BY <1>2, <2>4
  <1>8. QED  BY <1>2, <1>6, <1>7

\* Recorders that crash, fail and interleave over temporary files implement
\* proofs that are recorded in one step, each pass only when its demand is met.
THEOREM StoreImplementsLedger ==
  ASSUME NoInputsFile
  PROVE  Spec => ImplementsLedger
  <1> DEFINE latest == [g \in GateIds |-> ProofIn(dir[g])]
  <1>1. Init => Ledger!LedgerInit
    <2> SUFFICES ASSUME Init PROVE Ledger!LedgerInit
      OBVIOUS
    <2>1. latest = [g \in GateIds |-> Ledger!NoProof]
      BY DEF Init, ProofIn, Absent, Unreadable, Names, Ledger!NoProof
    <2>2. QED  BY <2>1 DEF Init, Ledger!LedgerInit
  <1>2. ProofInv /\ [Next]_vars => [Ledger!LedgerNext]_(Ledger!ledger)
    <2> SUFFICES ASSUME ProofInv, [Next]_vars
                 PROVE  Ledger!LedgerNext \/ UNCHANGED Ledger!ledger
      OBVIOUS
    <2>1. CASE \E p \in Procs : ProcNext(p)
      <3>1. PICK p \in Procs : ProcNext(p)  BY <2>1
      <3>2. CASE Rename(p)
        BY <3>2, RenameRecords DEF Ledger!LedgerNext
      <3>3. CASE ~Rename(p)
        <4>1. \A g \in GateIds : dir'[g] = dir[g]
          BY <3>1, <3>3, GatePaths DEF ProofInv, IInv
        <4>2. proved' = proved /\ seen' = seen
          BY <3>1, <3>3, ProcGrows
        <4>3. latest' = latest
          BY <4>1 DEF ProofIn
        <4>4. QED  BY <4>2, <4>3 DEF Ledger!ledger
      <3>4. QED  BY <3>2, <3>3
    <2>2. CASE \E r \in RoleConfigs : Reconfigure(r)
      BY <2>2 DEF Reconfigure, disk, Ledger!LedgerNext, Ledger!PutInForce, ProofIn
    <2>3. CASE dir' = dir /\ proved' = proved /\ seen' = seen
      BY <2>3 DEF Ledger!ledger, ProofIn
    <2>4. QED
      BY <2>1, <2>2, <2>3 DEF Next, Commit, Reset, Checkout, Detach, vars, disk, conf
  <1>3. QED
    BY <1>1, <1>2, Inductive3, PTL DEF Spec, ImplementsLedger, Ledger!LedgerSpec
=============================================================================
