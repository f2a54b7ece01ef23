------------------------- MODULE JobLifecycleProofs -------------------------
(***************************************************************************)
(* Proofs about JobLifecycle, for any jobs, agents, accounts and limits.   *)
(***************************************************************************)
EXTENDS JobLifecycle, FiniteSetTheorems, TLAPS

USE DEF table, disk

LEMMA IdleIsAgent == Idle \in Agent
BY DEF Idle, Agent, Free

\* An agent that has a job has a job of Jobs.
LEMMA BusyAgent ==
    ASSUME TypeOK, NEW a \in Agents, agent[a].pc \in JobPC
    PROVE  agent[a] \in Busy /\ agent[a].job \in Jobs
BY DEF TypeOK, Agent, Free, Busy, JobPC, WorkPC

LEMMA BusyUpdate ==
    ASSUME NEW b \in Busy, NEW pc \in JobPC, NEW s \in BOOLEAN
    PROVE  [b EXCEPT !.pc = pc, !.snaps = s] \in Busy
BY DEF Busy

LEMMA RowUpdate ==
    ASSUME NEW r \in Row, NEW s \in Status, NEW w \in Agents \cup {None}
    PROVE  [r EXCEPT !.status = s, !.worker = w] \in Row
BY DEF Row

\* It keeps its type as it moves on with the same job.
LEMMA AgentMoves ==
    ASSUME TypeOK, NEW a \in Agents, agent[a].pc \in JobPC, NEW pc \in JobPC,
           agent' = [agent EXCEPT ![a].pc = pc]
    PROVE  agent' \in [Agents -> Agent]
<1>1. [agent[a] EXCEPT !.pc = pc] \in Busy
  BY BusyAgent DEF Busy
<1> QED
  BY <1>1 DEF TypeOK, Agent

LEMMA AgentRests ==
    ASSUME TypeOK, NEW a \in Agents, agent' = [agent EXCEPT ![a] = Idle]
    PROVE  agent' \in [Agents -> Agent]
BY IdleIsAgent DEF TypeOK

LEMMA NoRowIsRow == NoRow \in Row
BY DEF NoRow, Row, Status

\* The columns the handlers write one at a time.
LEMMA RowFields ==
    ASSUME NEW row \in Row
    PROVE  /\ \A s \in Status : [row EXCEPT !.status = s] \in Row
           /\ [row EXCEPT !.worker = None] \in Row
           /\ [row EXCEPT !.deleted = TRUE] \in Row
           /\ [row EXCEPT !.exempt = TRUE] \in Row
           /\ [row EXCEPT !.download = FALSE] \in Row
BY DEF Row

LEMMA GoToType ==
    ASSUME TypeOK, NEW j \in Jobs, NEW pc \in PostPC, GoTo(j, pc)
    PROVE  post' \in [Jobs -> Post]
BY DEF TypeOK, GoTo, Post

LEMMA FaultType ==
    ASSUME TypeOK, Fault
    PROVE  faults' \in 0..MaxFaults
BY ConstantsAssumption DEF TypeOK, Fault

\* A delivered report keeps the table well typed.
LEMMA ApplyType ==
    ASSUME TypeOK, NEW j \in Jobs, NEW kind \in Report, Apply(j, kind)
    PROVE  /\ jobs' \in [Jobs -> Row]
           /\ snapshots' \subseteq Jobs
           /\ jobsCreated' \in [Subjects -> Nat]
           /\ lapsed' \subseteq Jobs
           /\ expired' \subseteq Public
<1>1. jobs[j] \in Row
  BY DEF TypeOK
<1>2. jobs' \in [Jobs -> Row]
  <2>1. CASE ~Running(j) \/ kind = "progress"
    BY <2>1 DEF TypeOK, Apply, Report
  <2>2. CASE Running(j) /\ kind = "succeeded"
    <3>1. jobs' = [jobs EXCEPT ![j].status = "completed",
                               ![j].download = ~jobs[j].exempt]
      BY <2>2 DEF Apply
    <3>2. [jobs[j] EXCEPT !.status = "completed",
                          !.download = ~jobs[j].exempt] \in Row
      BY <1>1 DEF Row, Status
    <3> QED
      BY <3>1, <3>2 DEF TypeOK
  <2>3. CASE Running(j) /\ kind = "failed"
    <3>1. jobs' = [jobs EXCEPT ![j].status = "failed"]
      BY <2>3 DEF Apply
    <3>2. [jobs[j] EXCEPT !.status = "failed"] \in Row
      BY <1>1 DEF Row, Status
    <3> QED
      BY <3>1, <3>2 DEF TypeOK
  <2> QED
    BY <2>1, <2>2, <2>3 DEF Report
<1> QED
  BY <1>2 DEF TypeOK, Apply

LEMMA SendType ==
    ASSUME TypeOK, NEW j \in Jobs, NEW kind \in Report, Send(j, kind)
    PROVE  /\ jobs' \in [Jobs -> Row]
           /\ snapshots' \subseteq Jobs
           /\ jobsCreated' \in [Subjects -> Nat]
           /\ lapsed' \subseteq Jobs
           /\ expired' \subseteq Public
           /\ late' \subseteq [job : Jobs, kind : Report]
           /\ faults' \in 0..MaxFaults
<1>1. CASE Apply(j, kind) /\ UNCHANGED <<late, faults>>
  BY <1>1, ApplyType DEF TypeOK
<1>2. CASE /\ Fault
           /\ late' \in {late, late \cup {[job |-> j, kind |-> kind]}}
           /\ UNCHANGED table
  BY <1>2, ConstantsAssumption DEF TypeOK, Fault
<1> QED
  BY <1>1, <1>2 DEF Send

LEMMA SubmitType ==
    ASSUME TypeOK, NEW j \in Jobs, Submit(j)
    PROVE  TypeOK'
<1>1. SubjectOf[j] \in Subjects
  BY ConstantsAssumption
<1>2. CASE CheckQuota(j)
  BY <1>2 DEF TypeOK, CheckQuota, Post, PostPC
<1>3. CASE InsertRow(j)
  <2>1. [NoRow EXCEPT !.status = "queued", !.exempt = post[j].exempt] \in Row
    <3>1. post[j].exempt \in BOOLEAN
      BY DEF TypeOK, Post
    <3> QED
      BY <3>1 DEF NoRow, Row, Status
  <2>2. jobs' \in [Jobs -> Row]
    BY <1>3, <2>1 DEF TypeOK, InsertRow
  <2>3. post' \in [Jobs -> Post]
    BY <1>3 DEF TypeOK, InsertRow, GoTo, Post, PostPC
  <2> QED
    BY <1>3, <2>2, <2>3 DEF TypeOK, InsertRow
<1>4. CASE InsertSnapshots(j)
  <2>1. post' \in [Jobs -> Post]
    BY <1>4, GoToType DEF InsertSnapshots, PostPC
  <2> QED
    BY <1>4, <2>1 DEF TypeOK, InsertSnapshots
<1>5. CASE ReserveQuota(j)
  <2>1. post' \in [Jobs -> Post]
    BY <1>5, GoToType DEF ReserveQuota, PostPC
  <2>2. jobsCreated' \in [Subjects -> Nat]
    BY <1>5, <1>1 DEF TypeOK, ReserveQuota
  <2> QED
    BY <1>5, <2>1, <2>2 DEF TypeOK, ReserveQuota
<1>6. CASE RollBack(j)
  BY <1>6, NoRowIsRow DEF TypeOK, RollBack, GoTo, Post, PostPC
<1>7. CASE BeginUpload(j)
  <2>1. post' \in [Jobs -> Post]
    BY <1>7, GoToType DEF BeginUpload, PostPC
  <2> QED
    BY <1>7, <2>1 DEF TypeOK, BeginUpload
<1>8. CASE UploadAccepted(j)
  <2>1. post' \in [Jobs -> Post]
    BY <1>8, GoToType DEF UploadAccepted, PostPC
  <2> QED
    BY <1>8, <2>1 DEF TypeOK, UploadAccepted
<1>9. CASE UploadRefused(j)
  <2>1. post' \in [Jobs -> Post]
    BY <1>9, GoToType DEF UploadRefused, PostPC
  <2>2. faults' \in 0..MaxFaults
    BY <1>9, FaultType DEF UploadRefused
  <2> QED
    BY <1>9, <2>1, <2>2 DEF TypeOK, UploadRefused
<1>10. CASE FailUpload(j)
  <2>1. jobs' \in [Jobs -> Row]
    <3>1. [jobs[j] EXCEPT !.status = "failed"] \in Row
      BY RowFields DEF TypeOK, Status
    <3> QED
      BY <1>10, <3>1 DEF TypeOK, FailUpload
  <2>2. post' \in [Jobs -> Post]
    BY <1>10 DEF TypeOK, FailUpload, GoTo, Post, PostPC
  <2>3. jobsCreated' \in [Subjects -> Nat]
    BY <1>10, <1>1 DEF TypeOK, FailUpload
  <2> QED
    BY <1>10, <2>1, <2>2, <2>3 DEF TypeOK, FailUpload
<1>11. CASE CleanUpload(j)
  <2>1. post' \in [Jobs -> Post]
    BY <1>11, GoToType DEF CleanUpload, PostPC
  <2>2. faults' \in 0..MaxFaults
    BY <1>11, FaultType DEF CleanUpload, TypeOK
  <2> QED
    BY <1>11, <2>1, <2>2 DEF TypeOK, CleanUpload, disk
<1>12. CASE Throw(j)
  <2>1. post' \in [Jobs -> Post]
    BY <1>12, GoToType DEF Throw, PostPC
  <2> QED
    BY <1>12, <2>1, FaultType DEF TypeOK, Throw
<1> QED
  BY <1>2, <1>3, <1>4, <1>5, <1>6, <1>7, <1>8, <1>9, <1>10, <1>11, <1>12
     DEF Submit

LEMMA RemoveType ==
    ASSUME TypeOK, NEW j \in Jobs, Remove(j)
    PROVE  TypeOK'
<1>1. CASE AuthoriseDelete(j)
  BY <1>1 DEF TypeOK, AuthoriseDelete
<1>2. CASE WipeFiles(j)
  <2>1. faults' \in 0..MaxFaults
    BY <1>2, FaultType DEF TypeOK, WipeFiles
  <2> QED
    BY <1>2, <2>1 DEF TypeOK, WipeFiles
<1>3. CASE MarkDeleted(j)
  <2>1. [jobs[j] EXCEPT !.deleted = TRUE] \in Row
    BY RowFields DEF TypeOK
  <2>2. jobs' \in [Jobs -> Row]
    BY <1>3, <2>1 DEF TypeOK, MarkDeleted
  <2> QED
    BY <1>3, <2>2 DEF TypeOK, MarkDeleted
<1> QED
  BY <1>1, <1>2, <1>3 DEF Remove

LEMMA SweptRowIsRow ==
    ASSUME TypeOK, NEW j \in Jobs
    PROVE  SweptRow(j) \in Row
<1>1. {"queued", "failed"} \subseteq Status /\ jobs[j] \in Row
  BY DEF TypeOK, Status
<1>2. /\ [jobs[j] EXCEPT !.status = "queued"] \in Row
      /\ [jobs[j] EXCEPT !.status = "failed"] \in Row
  BY <1>1, RowFields
<1>3. [[jobs[j] EXCEPT !.status = "queued"] EXCEPT !.worker = None] \in Row
  BY <1>2, RowFields
<1> QED
  BY <1>1, <1>2, <1>3 DEF SweptRow

LEMMA ClaimType ==
    ASSUME TypeOK, NEW a \in Agents, Claim(a) \/ FailKey(a)
    PROVE  TypeOK'
<1> DEFINE j == agent[a].job
<1>1. CASE Sweep(a)
  <2>1. jobs' \in [Jobs -> Row]
    BY <1>1, SweptRowIsRow DEF Sweep
  <2>2. [Idle EXCEPT !.pc = "selecting"] \in Agent
    BY DEF Agent, Free, Idle
  <2>3. agent' \in [Agents -> Agent]
    BY <1>1, <2>2 DEF TypeOK, Sweep
  <2> QED
    BY <1>1, <2>1, <2>3 DEF TypeOK, Sweep
<1>2. CASE SelectJob(a)
  <2>1. ASSUME NEW k \in Jobs, agent[a].pc = "selecting",
               agent' = [agent EXCEPT ![a].pc = "selected", ![a].job = k]
        PROVE  agent' \in [Agents -> Agent]
    <3>1. [agent[a] EXCEPT !.pc = "selected", !.job = k] \in Busy
      BY <2>1 DEF TypeOK, Agent, Free, Busy, JobPC, WorkPC
    <3> QED
      BY <2>1, <3>1 DEF TypeOK, Agent
  <2>2. agent' \in [Agents -> Agent]
    BY <1>2, <2>1, AgentRests DEF SelectJob
  <2> QED
    BY <1>2, <2>2 DEF TypeOK, SelectJob
<1>3. CASE ReadSnapshots(a)
  <2>1. agent[a] \in Busy
    BY <1>3, BusyAgent DEF ReadSnapshots, JobPC
  <2>2. [agent[a] EXCEPT !.pc = "updating",
                         !.snaps = agent[a].job \in snapshots] \in Busy
    <3>1. (agent[a].job \in snapshots) \in BOOLEAN
      OBVIOUS
    <3> QED
      BY <2>1, <3>1, BusyUpdate DEF JobPC
  <2>3. agent' \in [Agents -> Agent]
    BY <1>3, <2>2 DEF TypeOK, ReadSnapshots, Agent
  <2> QED
    BY <1>3, <2>3 DEF TypeOK, ReadSnapshots
<1>4. CASE TakeLease(a)
  <2>0. agent[a].pc \in JobPC /\ j \in Jobs
    BY <1>4, BusyAgent DEF TakeLease, JobPC
  <2>1. agent' \in [Agents -> Agent]
    BY <1>4, <2>0, AgentRests, AgentMoves DEF TakeLease, JobPC, WorkPC
  <2>2. jobs' \in [Jobs -> Row]
    <3>1. [jobs[j] EXCEPT !.status = "running", !.worker = a] \in Row
      BY <2>0, RowUpdate DEF TypeOK, Status
    <3> QED
      BY <1>4, <2>0, <3>1 DEF TypeOK, TakeLease
  <2>3. lapsed' \subseteq Jobs /\ faults' \in 0..MaxFaults
    BY <1>4, FaultType DEF TypeOK, TakeLease
  <2> QED
    BY <1>4, <2>1, <2>2, <2>3 DEF TypeOK, TakeLease
<1>5. CASE FailKey(a)
  <2>0. j \in Jobs
    BY <1>5, BusyAgent DEF FailKey, JobPC
  <2>1. agent' \in [Agents -> Agent]
    BY <1>5, AgentRests DEF FailKey
  <2>2. jobs' \in [Jobs -> Row]
    <3>1. [jobs[j] EXCEPT !.status = "failed"] \in Row
      BY <2>0 DEF TypeOK, Row, Status
    <3> QED
      BY <1>5, <2>0, <3>1 DEF TypeOK, FailKey
  <2> QED
    BY <1>5, <2>1, <2>2, FaultType DEF TypeOK, FailKey
<1> QED
  BY <1>1, <1>2, <1>3, <1>4, <1>5 DEF Claim

\* Work on a job: everything but Crash sends at most one report.
LEMMA WorkType ==
    ASSUME TypeOK, NEW a \in Agents, Work(a) \/ StreamEvent(a) \/ Crash(a)
    PROVE  TypeOK'
<1> DEFINE j == agent[a].job
<1>1. CASE StartEngine(a)
  <2>0. agent[a].pc \in JobPC /\ j \in Jobs
    BY <1>1, BusyAgent DEF StartEngine, JobPC, WorkPC
  <2>1. agent' \in [Agents -> Agent]
    BY <1>1, <2>0, AgentMoves DEF StartEngine, JobPC, WorkPC
  <2>2. Send(j, "progress") /\ "progress" \in Report
    BY <1>1 DEF StartEngine, Report
  <2> QED
    BY <1>1, <2>0, <2>1, <2>2, SendType DEF TypeOK, StartEngine
<1>2. CASE StreamEvent(a)
  <2>0. j \in Jobs
    BY <1>2, BusyAgent DEF StreamEvent, JobPC, WorkPC
  <2>1. Send(j, "progress") /\ "progress" \in Report
    BY <1>2 DEF StreamEvent, Report
  <2> QED
    BY <1>2, <2>0, <2>1, SendType DEF TypeOK, StreamEvent
<1>3. CASE EndEngine(a)
  <2>0. agent[a].pc \in JobPC /\ j \in Jobs
    BY <1>3, BusyAgent DEF EndEngine, JobPC, WorkPC
  <2>1. agent' \in [Agents -> Agent]
    BY <1>3, <2>0, AgentMoves DEF EndEngine, JobPC, WorkPC
  <2> QED
    BY <1>3, <2>0, <2>1 DEF TypeOK, EndEngine
<1>4. CASE ReportOutcome(a)
  <2>0. j \in Jobs
    BY <1>4, BusyAgent DEF ReportOutcome, JobPC, WorkPC
  <2>1. PICK kind \in Report : Send(j, kind)
    BY <1>4 DEF ReportOutcome, Report
  <2>2. agent' \in [Agents -> Agent]
    BY <1>4, AgentRests DEF ReportOutcome
  <2> QED
    BY <1>4, <2>0, <2>1, <2>2, SendType DEF TypeOK, ReportOutcome
<1>5. CASE Crash(a)
  <2>1. agent' \in [Agents -> Agent]
    BY <1>5, AgentRests DEF Crash
  <2> QED
    BY <1>5, <2>1, FaultType DEF TypeOK, Crash
<1> QED
  BY <1>1, <1>2, <1>3, <1>4, <1>5 DEF Work

\* Time, exemption and the reports nobody waits for any more.
LEMMA OtherType ==
    ASSUME TypeOK,
           \/ \E j \in Jobs : LeaseLapses(j) \/ PublicExpires(j)
           \/ \E s \in Subjects : LiftRetention(s)
           \/ \E m \in late : LateReport(m)
    PROVE  TypeOK'
<1>1. ASSUME NEW j \in Jobs, LeaseLapses(j) PROVE TypeOK'
  <2>1. faults' \in 0..MaxFaults
    BY <1>1, FaultType DEF TypeOK, LeaseLapses
  <2> QED
    BY <1>1, <2>1 DEF TypeOK, LeaseLapses
<1>2. ASSUME NEW j \in Jobs, PublicExpires(j) PROVE TypeOK'
  BY <1>2 DEF TypeOK, PublicExpires
<1>3. ASSUME NEW s \in Subjects, LiftRetention(s) PROVE TypeOK'
  <2>1. ASSUME NEW j \in Jobs
        PROVE  [jobs[j] EXCEPT !.exempt = TRUE, !.download = FALSE] \in Row
    <3>1. [jobs[j] EXCEPT !.exempt = TRUE] \in Row
      BY RowFields DEF TypeOK
    <3>2. [[jobs[j] EXCEPT !.exempt = TRUE] EXCEPT !.download = FALSE] \in Row
      BY <3>1, RowFields
    <3> QED
      BY <3>2
  <2>2. jobs' \in [Jobs -> Row]
    BY <1>3, <2>1 DEF TypeOK, LiftRetention
  <2> QED
    BY <1>3, <2>2 DEF TypeOK, LiftRetention
<1>4. ASSUME NEW m \in late, LateReport(m) PROVE TypeOK'
  <2>1. m.job \in Jobs /\ m.kind \in Report
    BY DEF TypeOK
  <2>2. Apply(m.job, m.kind)
    BY <1>4 DEF LateReport
  <2> QED
    BY <1>4, <2>1, <2>2, ApplyType DEF TypeOK, LateReport
<1> QED
  BY <1>1, <1>2, <1>3, <1>4

LEMMA InitType == Init => TypeOK
<1> SUFFICES ASSUME Init PROVE TypeOK
  OBVIOUS
<1>1. [pc |-> "idle", exempt |-> FALSE] \in Post
  BY DEF Post, PostPC
<1> QED
  BY <1>1, NoRowIsRow, IdleIsAgent, ConstantsAssumption DEF Init, TypeOK

LEMMA TypeKept ==
    ASSUME TypeOK, [Next]_vars
    PROVE  TypeOK'
<1>1. CASE UNCHANGED vars
  BY <1>1 DEF TypeOK, vars
<1>2. CASE Next
  BY <1>2, SubmitType, RemoveType, ClaimType, WorkType, OtherType DEF Next
<1> QED
  BY <1>1, <1>2

\* Every statement of every handler keeps the tables, the files and the
\* handlers' own state well typed.
THEOREM TypeCorrect == Spec => []TypeOK
<1>1. TypeOK /\ [Next]_vars => TypeOK'
  BY TypeKept
<1> QED
  BY <1>1, InitType, PTL DEF Spec

-----------------------------------------------------------------------------
(***************************************************************************)
(* The inductive invariant.  What the submission handler knows of its own  *)
(* row survives everything the claims, reports, sweeps and deletions of    *)
(* others do to that row, because they only ever update rows that exist.   *)
(***************************************************************************)

RowPC == {"inserted", "snapshotted", "reserved", "overLimit", "uploading",
          "uploadFailed", "cleanup", "accepted", "refused", "stranded"}

SubmissionInv ==
    \A j \in Jobs :
        /\ post[j].pc \in {"idle", "checked"} => ~Exists(j)
        /\ post[j].pc \in RowPC => Exists(j)
        /\ post[j].pc \in RowPC \ {"inserted"} => j \in snapshots
        /\ post[j].pc \in {"snapshotted", "overLimit", "cleanup"} => j \notin Smoke
        /\ post[j].exempt => SubjectOf[j] \in ExemptSubjects

NoRowInv ==
    \A j \in Jobs : ~Exists(j) => /\ jobs[j].worker = None
                                 /\ j \notin snapshots
                                 /\ j \notin lapsed

Inv == TypeOK /\ SubmissionInv /\ NoRowInv /\ LeaseFields

-----------------------------------------------------------------------------
(***************************************************************************)
(* What one step can do to one row.  Every action property, and the        *)
(* refinement of the board, is read off this case split.                   *)
(***************************************************************************)

SameStatus(j) == /\ jobs'[j].status = jobs[j].status
                 /\ jobs'[j].worker = jobs[j].worker

Inserts(j) == /\ post[j].pc = "checked" /\ post'[j].pc = "inserted"
              /\ jobs[j].status = "absent"
              /\ jobs'[j].status = "queued"
              /\ jobs'[j].worker = None
              /\ j \notin lapsed'

Withdraws(j) == /\ post[j].pc = "overLimit" /\ post'[j].pc = "rejected"
                /\ jobs'[j].status = "absent"
                /\ jobs'[j].worker = None
                /\ j \notin lapsed'

Takes(j) == /\ jobs[j].status = "queued"
            /\ jobs'[j].status = "running"
            /\ jobs'[j].worker \in Agents

Releases(j) == /\ Recoverable(j)
               /\ jobs'[j].status = "queued"
               /\ jobs'[j].worker = None
               /\ j \notin lapsed'

Completes(j) == /\ jobs[j].status = "running"
                /\ jobs'[j].status = "completed"
                /\ jobs'[j].worker = jobs[j].worker

\* The two updates that look at no status.
Unguarded(j) ==
    \/ post[j].pc = "uploadFailed"
    \/ \E a \in Agents : agent[a].pc = "selected" /\ agent[a].job = j

Fails(j) == /\ jobs[j].status # "absent"
            /\ jobs'[j].status = "failed"
            /\ jobs'[j].worker = jobs[j].worker
            /\ jobs[j].status \in {"queued", "running"} \/ Unguarded(j)

RowStep(j) ==
    /\ j \in lapsed' => j \in lapsed \/ Running(j)
    /\ \/ SameStatus(j) \/ Inserts(j) \/ Withdraws(j) \/ Takes(j)
       \/ Releases(j) \/ Completes(j) \/ Fails(j)

LEMMA UntouchedRow ==
    ASSUME NEW j \in Jobs, jobs'[j] = jobs[j],
           j \in lapsed' => j \in lapsed \/ Running(j)
    PROVE  RowStep(j)
BY DEF RowStep, SameStatus

\* A report moves only a running row, and only to an end.
LEMMA ApplyRowStep ==
    ASSUME TypeOK, NEW j \in Jobs, NEW kind \in Report, Apply(j, kind),
           NEW k \in Jobs
    PROVE  RowStep(k)
<1>1. lapsed' \subseteq lapsed
  BY DEF Apply
<1>2. CASE k # j \/ ~Running(j) \/ kind = "progress"
  <2>1. jobs'[k] = jobs[k]
    BY <1>2 DEF Apply, TypeOK, Report
  <2> QED
    BY <1>1, <2>1, UntouchedRow
<1>3. CASE k = j /\ Running(j) /\ kind = "succeeded"
  <2>1. jobs' = [jobs EXCEPT ![j].status = "completed",
                             ![j].download = ~jobs[j].exempt]
    BY <1>3 DEF Apply
  <2>2. jobs[j] \in Row
    BY DEF TypeOK
  <2>3. Completes(k)
    BY <1>3, <2>1, <2>2 DEF TypeOK, Completes, Running, Row
  <2> QED
    BY <1>1, <2>3 DEF RowStep
<1>4. CASE k = j /\ Running(j) /\ kind = "failed"
  <2>1. jobs' = [jobs EXCEPT ![j].status = "failed"]
    BY <1>4 DEF Apply
  <2>2. jobs[j] \in Row
    BY DEF TypeOK
  <2>3. Fails(k)
    BY <1>4, <2>1, <2>2 DEF TypeOK, Fails, Running, Row
  <2> QED
    BY <1>1, <2>3 DEF RowStep
<1> QED
  BY <1>2, <1>3, <1>4 DEF Report

LEMMA SendRowStep ==
    ASSUME TypeOK, NEW j \in Jobs, NEW kind \in Report, Send(j, kind),
           NEW k \in Jobs
    PROVE  RowStep(k)
<1>1. CASE Apply(j, kind)
  BY <1>1, ApplyRowStep
<1>2. CASE UNCHANGED table
  BY <1>2, UntouchedRow
<1> QED
  BY <1>1, <1>2 DEF Send

LEMMA SubmitRowStep ==
    ASSUME Inv, NEW j \in Jobs, Submit(j), NEW k \in Jobs
    PROVE  RowStep(k)
<1> USE DEF Inv
<1>0. jobs[j] \in Row /\ jobs[k] \in Row
  BY DEF TypeOK
<1>1. CASE CheckQuota(j) \/ InsertSnapshots(j) \/ ReserveQuota(j)
           \/ BeginUpload(j) \/ UploadAccepted(j) \/ UploadRefused(j)
           \/ CleanUpload(j) \/ Throw(j)
  <2>1. UNCHANGED <<jobs, lapsed>>
    BY <1>1 DEF CheckQuota, InsertSnapshots, ReserveQuota, BeginUpload,
                UploadAccepted, UploadRefused, CleanUpload, Throw
  <2> QED
    BY <2>1, UntouchedRow
<1>2. CASE InsertRow(j)
  <2>1. CASE k # j
    BY <1>2, <2>1, UntouchedRow DEF InsertRow, TypeOK
  <2>2. CASE k = j
    <3>1. jobs[j].status = "absent" /\ j \notin lapsed
      BY <1>2 DEF InsertRow, SubmissionInv, NoRowInv, Exists
    <3>2. jobs'[j] = [NoRow EXCEPT !.status = "queued", !.exempt = post[j].exempt]
      BY <1>2 DEF InsertRow, TypeOK
    <3>3. Inserts(j)
      BY <1>2, <3>1, <3>2 DEF Inserts, InsertRow, NoRow, GoTo, TypeOK, Post
    <3> QED
      BY <1>2, <2>2, <3>3 DEF RowStep, InsertRow
  <2> QED
    BY <2>1, <2>2
<1>3. CASE RollBack(j)
  <2>1. CASE k # j
    BY <1>3, <2>1, UntouchedRow DEF RollBack, TypeOK
  <2>2. CASE k = j
    <3>1. jobs'[j] = NoRow
      BY <1>3 DEF RollBack, TypeOK
    <3>2. Withdraws(j)
      BY <1>3, <3>1 DEF Withdraws, RollBack, NoRow, GoTo, TypeOK, Post
    <3> QED
      BY <1>3, <2>2, <3>2 DEF RowStep, RollBack
  <2> QED
    BY <2>1, <2>2
<1>4. CASE FailUpload(j)
  <2>1. CASE k # j \/ ~Exists(j)
    BY <1>4, <2>1, UntouchedRow DEF FailUpload, TypeOK
  <2>2. CASE k = j /\ Exists(j)
    <3>1. jobs'[j] = [jobs[j] EXCEPT !.status = "failed"]
      BY <1>4, <2>2 DEF FailUpload, TypeOK
    <3>2. Fails(j)
      BY <1>0, <1>4, <2>2, <3>1 DEF Fails, FailUpload, Unguarded, Exists, Row
    <3> QED
      BY <1>4, <2>2, <3>2 DEF RowStep, FailUpload
  <2> QED
    BY <2>1, <2>2
<1> QED
  BY <1>1, <1>2, <1>3, <1>4 DEF Submit

LEMMA ClaimRowStep ==
    ASSUME Inv, NEW a \in Agents, Claim(a) \/ FailKey(a), NEW k \in Jobs
    PROVE  RowStep(k)
<1> USE DEF Inv
<1> DEFINE j == agent[a].job
<1>0. jobs[k] \in Row
  BY DEF TypeOK
<1>1. CASE Sweep(a)
  <2>0. jobs'[k] = SweptRow(k) /\ lapsed' = {i \in lapsed : ~Recoverable(i)}
    BY <1>1 DEF Sweep
  <2>1. CASE Recoverable(k)
    <3>1. jobs'[k] = [jobs[k] EXCEPT !.status = "queued", !.worker = None]
      BY <2>0, <2>1 DEF SweptRow
    <3>2. Releases(k)
      BY <1>0, <2>0, <2>1, <3>1 DEF Releases, Row
    <3> QED
      BY <2>0, <3>2 DEF RowStep
  <2>2. CASE ~Recoverable(k) /\ Overdue(k)
    <3>1. jobs'[k] = [jobs[k] EXCEPT !.status = "failed"]
      BY <2>0, <2>2 DEF SweptRow
    <3>2. Fails(k)
      BY <1>0, <2>2, <3>1 DEF Fails, Overdue, Row
    <3> QED
      BY <2>0, <3>2 DEF RowStep
  <2>3. CASE ~Recoverable(k) /\ ~Overdue(k)
    BY <2>0, <2>3, UntouchedRow DEF SweptRow
  <2> QED
    BY <2>1, <2>2, <2>3
<1>2. CASE SelectJob(a) \/ ReadSnapshots(a)
  <2>1. UNCHANGED <<jobs, lapsed>>
    BY <1>2 DEF SelectJob, ReadSnapshots
  <2> QED
    BY <2>1, UntouchedRow
<1>3. CASE TakeLease(a)
  <2>0. lapsed' \subseteq lapsed
    BY <1>3 DEF TakeLease
  <2>1. CASE k # j \/ jobs[j].status # "queued"
    <3>1. jobs'[k] = jobs[k]
      BY <1>3, <2>1 DEF TakeLease, TypeOK
    <3> QED
      BY <2>0, <3>1, UntouchedRow
  <2>2. CASE k = j /\ jobs[j].status = "queued"
    <3>1. jobs' = [jobs EXCEPT ![j].status = "running", ![j].worker = a]
      BY <1>3, <2>2 DEF TakeLease
    <3>2. Takes(k)
      BY <1>0, <2>2, <3>1 DEF Takes, TypeOK, Row
    <3> QED
      BY <2>0, <3>2 DEF RowStep
  <2> QED
    BY <2>1, <2>2
<1>4. CASE FailKey(a)
  <2>1. CASE k # j \/ ~Exists(j)
    <3>1. jobs'[k] = jobs[k]
      BY <1>4, <2>1 DEF FailKey, TypeOK
    <3> QED
      BY <1>4, <3>1, UntouchedRow DEF FailKey
  <2>2. CASE k = j /\ Exists(j)
    <3>1. jobs' = [jobs EXCEPT ![j].status = "failed"]
      BY <1>4, <2>2 DEF FailKey
    <3>2. Unguarded(k)
      BY <1>4, <2>2 DEF Unguarded, FailKey
    <3>3. Fails(k)
      BY <1>0, <2>2, <3>1, <3>2 DEF Fails, Exists, TypeOK, Row
    <3> QED
      BY <1>4, <3>3 DEF RowStep, FailKey
  <2> QED
    BY <2>1, <2>2
<1> QED
  BY <1>1, <1>2, <1>3, <1>4 DEF Claim

LEMMA WorkRowStep ==
    ASSUME Inv, NEW a \in Agents, Work(a) \/ StreamEvent(a) \/ Crash(a),
           NEW k \in Jobs
    PROVE  RowStep(k)
<1> USE DEF Inv
<1>1. CASE StartEngine(a) \/ StreamEvent(a) \/ ReportOutcome(a)
  <2>1. agent[a].job \in Jobs
    BY <1>1, BusyAgent DEF StartEngine, StreamEvent, ReportOutcome, JobPC, WorkPC
  <2>2. PICK kind \in Report : Send(agent[a].job, kind)
    BY <1>1 DEF StartEngine, StreamEvent, ReportOutcome, Report
  <2> QED
    BY <2>1, <2>2, SendRowStep
<1>2. CASE EndEngine(a) \/ Crash(a)
  <2>1. UNCHANGED table
    BY <1>2 DEF EndEngine, Crash
  <2> QED
    BY <2>1, UntouchedRow
<1> QED
  BY <1>1, <1>2 DEF Work

LEMMA OtherRowStep ==
    ASSUME Inv, NEW k \in Jobs,
           \/ \E j \in Jobs : Remove(j) \/ LeaseLapses(j) \/ PublicExpires(j)
           \/ \E s \in Subjects : LiftRetention(s)
           \/ \E m \in late : LateReport(m)
    PROVE  RowStep(k)
<1> USE DEF Inv
<1>0. jobs[k] \in Row
  BY DEF TypeOK
<1>1. ASSUME NEW j \in Jobs, AuthoriseDelete(j) \/ WipeFiles(j) \/ PublicExpires(j)
      PROVE  RowStep(k)
  <2>1. UNCHANGED <<jobs, lapsed>>
    BY <1>1 DEF AuthoriseDelete, WipeFiles, PublicExpires
  <2> QED
    BY <2>1, UntouchedRow
<1>2. ASSUME NEW j \in Jobs, MarkDeleted(j)
      PROVE  RowStep(k)
  <2>1. SameStatus(k)
    BY <1>0, <1>2 DEF MarkDeleted, SameStatus, TypeOK, Row
  <2> QED
    BY <1>2, <2>1 DEF RowStep, MarkDeleted
<1>3. ASSUME NEW j \in Jobs, LeaseLapses(j)
      PROVE  RowStep(k)
  BY <1>3, UntouchedRow DEF LeaseLapses
<1>4. ASSUME NEW s \in Subjects, LiftRetention(s)
      PROVE  RowStep(k)
  <2>1. \/ jobs'[k] = jobs[k]
        \/ jobs'[k] = [jobs[k] EXCEPT !.exempt = TRUE, !.download = FALSE]
    BY <1>4 DEF LiftRetention
  <2>2. SameStatus(k)
    BY <1>0, <2>1 DEF SameStatus, Row
  <2> QED
    BY <1>4, <2>2 DEF RowStep, LiftRetention
<1>5. ASSUME NEW m \in late, LateReport(m)
      PROVE  RowStep(k)
  <2>1. m.job \in Jobs /\ m.kind \in Report
    BY DEF TypeOK
  <2> QED
    BY <1>5, <2>1, ApplyRowStep DEF LateReport
<1> QED
  BY <1>1, <1>2, <1>3, <1>4, <1>5 DEF Remove

\* Every step leaves every row alone or moves it in one of the seven ways.
LEMMA RowSteps ==
    ASSUME Inv, [Next]_vars, NEW k \in Jobs
    PROVE  RowStep(k)
<1>1. CASE UNCHANGED vars
  BY <1>1, UntouchedRow DEF vars
<1>2. CASE Next
  BY <1>2, SubmitRowStep, ClaimRowStep, WorkRowStep, OtherRowStep DEF Next
<1> QED
  BY <1>1, <1>2

-----------------------------------------------------------------------------
(* The invariant is inductive.                                             *)

\* Only its own submission moves on a job's handler or touches its snapshots.
LEMMA OthersStandAside ==
    ASSUME Inv, [Next]_vars, NEW k \in Jobs, ~Submit(k)
    PROVE  /\ post'[k] = post[k]
           /\ k \in snapshots' <=> k \in snapshots
           /\ Exists(k)' <=> Exists(k)
<1>1. post'[k] = post[k] /\ (k \in snapshots' <=> k \in snapshots)
  <2>1. ASSUME NEW j \in Jobs, j # k, Submit(j)
        PROVE  post'[k] = post[k] /\ (k \in snapshots' <=> k \in snapshots)
    BY <2>1 DEF Inv, TypeOK, Submit, GoTo, CheckQuota, InsertRow,
                InsertSnapshots, ReserveQuota, RollBack, BeginUpload,
                UploadAccepted, UploadRefused, FailUpload, CleanUpload, Throw
  <2>2. CASE UNCHANGED <<post, snapshots>>
    BY <2>2
  <2>3. ASSUME NEW j \in Jobs, Remove(j) \/ LeaseLapses(j) \/ PublicExpires(j)
        PROVE  UNCHANGED <<post, snapshots>>
    BY <2>3 DEF Remove, AuthoriseDelete, WipeFiles, MarkDeleted, LeaseLapses,
                PublicExpires
  <2>4. ASSUME NEW a \in Agents, Claim(a) \/ FailKey(a)
        PROVE  UNCHANGED <<post, snapshots>>
    BY <2>4 DEF Claim, Sweep, SelectJob, ReadSnapshots, TakeLease, FailKey
  <2>5. ASSUME NEW a \in Agents, Work(a) \/ StreamEvent(a) \/ Crash(a)
        PROVE  UNCHANGED <<post, snapshots>>
    BY <2>5 DEF Work, StartEngine, EndEngine, ReportOutcome, StreamEvent,
                Crash, Send, Apply
  <2>6. ASSUME NEW s \in Subjects, LiftRetention(s)
        PROVE  UNCHANGED <<post, snapshots>>
    BY <2>6 DEF LiftRetention
  <2>7. ASSUME NEW m \in late, LateReport(m)
        PROVE  UNCHANGED <<post, snapshots>>
    BY <2>7 DEF LateReport, Apply
  <2> QED
    BY <2>1, <2>2, <2>3, <2>4, <2>5, <2>6, <2>7 DEF Next, vars
<1>2. RowStep(k)
  BY RowSteps
<1> QED
  BY <1>1, <1>2 DEF RowStep, SameStatus, Inserts, Withdraws, Takes, Releases,
                    Recoverable, Completes, Fails, Exists

LEMMA SubmissionInvKept ==
    ASSUME Inv, [Next]_vars
    PROVE  SubmissionInv'
<1> SUFFICES ASSUME NEW k \in Jobs
             PROVE  /\ post'[k].pc \in {"idle", "checked"} => ~Exists(k)'
                    /\ post'[k].pc \in RowPC => Exists(k)'
                    /\ post'[k].pc \in RowPC \ {"inserted"} => k \in snapshots'
                    /\ post'[k].pc \in {"snapshotted", "overLimit", "cleanup"}
                          => k \notin Smoke
                    /\ post'[k].exempt => SubjectOf[k] \in ExemptSubjects
  BY DEF SubmissionInv
<1>0. post[k] \in Post /\ post \in [Jobs -> Post]
  BY DEF Inv, TypeOK
<1>1. CASE ~Submit(k)
  BY <1>1, OthersStandAside DEF Inv, SubmissionInv
<1>2. CASE CheckQuota(k)
  BY <1>0, <1>2 DEF Inv, SubmissionInv, CheckQuota, Exists, RowPC, Post
<1>3. CASE InsertRow(k)
  <2>1. jobs'[k] = [NoRow EXCEPT !.status = "queued", !.exempt = post[k].exempt]
    BY <1>3 DEF InsertRow, Inv, TypeOK
  <2>2. Exists(k)'
    BY <2>1 DEF Exists, NoRow
  <2>3. post'[k].pc = "inserted" /\ post'[k].exempt = post[k].exempt
    BY <1>0, <1>3 DEF InsertRow, GoTo, Post
  <2> QED
    BY <2>2, <2>3 DEF Inv, SubmissionInv, RowPC
<1>4. CASE InsertSnapshots(k)
  BY <1>0, <1>4 DEF Inv, SubmissionInv, InsertSnapshots, GoTo, Exists, RowPC, Post
<1>5. CASE ReserveQuota(k)
  BY <1>0, <1>5 DEF Inv, SubmissionInv, ReserveQuota, GoTo, Exists, RowPC, Post
<1>6. CASE RollBack(k)
  BY <1>0, <1>6 DEF Inv, SubmissionInv, RollBack, GoTo, Exists, RowPC, Post
<1>7. CASE BeginUpload(k) \/ UploadAccepted(k) \/ UploadRefused(k)
  BY <1>0, <1>7 DEF Inv, SubmissionInv, BeginUpload, UploadAccepted,
                    UploadRefused, GoTo, Exists, RowPC, Post
<1>8. CASE FailUpload(k)
  <2>1. Exists(k)' <=> Exists(k)
    <3>1. jobs[k] \in Row
      BY DEF Inv, TypeOK
    <3> QED
      BY <1>8, <3>1 DEF FailUpload, Exists, Inv, TypeOK, Row
  <2> QED
    BY <1>0, <1>8, <2>1 DEF Inv, SubmissionInv, FailUpload, GoTo, RowPC, Post
<1>9. CASE CleanUpload(k)
  BY <1>0, <1>9 DEF Inv, SubmissionInv, CleanUpload, GoTo, Exists, RowPC, Post
<1>10. CASE Throw(k)
  BY <1>0, <1>10 DEF Inv, SubmissionInv, Throw, GoTo, Exists, RowPC, Post
<1> QED
  BY <1>1, <1>2, <1>3, <1>4, <1>5, <1>6, <1>7, <1>8, <1>9, <1>10 DEF Submit

LEMMA NoRowInvKept ==
    ASSUME Inv, [Next]_vars
    PROVE  NoRowInv'
<1> SUFFICES ASSUME NEW k \in Jobs, ~Exists(k)'
             PROVE  /\ jobs'[k].worker = None
                    /\ k \notin snapshots'
                    /\ k \notin lapsed'
  BY DEF NoRowInv
<1>1. RowStep(k)
  BY RowSteps
<1>2. jobs'[k].worker = None /\ k \notin lapsed'
  BY <1>1 DEF RowStep, SameStatus, Inserts, Withdraws, Takes, Releases,
              Completes, Fails, Exists, Inv, NoRowInv, Running
<1>3. k \notin snapshots'
  <2>1. CASE ~Submit(k)
    BY <2>1, OthersStandAside DEF Inv, NoRowInv
  <2>2. CASE Submit(k) /\ ~InsertSnapshots(k) /\ ~RollBack(k)
    <3>1. snapshots' = snapshots
      BY <2>2 DEF Submit, CheckQuota, InsertRow, ReserveQuota, BeginUpload,
                  UploadAccepted, UploadRefused, FailUpload, CleanUpload, Throw
    <3>2. ~Exists(k)
      BY <1>1, <2>2 DEF RowStep, SameStatus, Inserts, Withdraws, Takes,
                        Releases, Completes, Fails, Exists, Submit, CheckQuota,
                        InsertRow, ReserveQuota, BeginUpload, UploadAccepted,
                        UploadRefused, FailUpload, CleanUpload, Throw, GoTo,
                        Inv, TypeOK, Post
    <3> QED
      BY <3>1, <3>2 DEF Inv, NoRowInv
  <2>3. CASE InsertSnapshots(k)
    BY <2>3 DEF InsertSnapshots, Inv, SubmissionInv, RowPC, Exists
  <2>4. CASE RollBack(k)
    BY <2>4 DEF RollBack
  <2> QED
    BY <2>1, <2>2, <2>3, <2>4
<1> QED
  BY <1>2, <1>3

LEMMA LeaseFieldsKept ==
    ASSUME Inv, [Next]_vars
    PROVE  LeaseFields'
<1> SUFFICES ASSUME NEW k \in Jobs
             PROVE  /\ jobs'[k].status = "running" => jobs'[k].worker # None
                    /\ jobs'[k].status = "queued" =>
                          jobs'[k].worker = None /\ k \notin lapsed'
  BY DEF LeaseFields, Running
<1>1. RowStep(k)
  BY RowSteps
<1> QED
  BY <1>1, ConstantsAssumption
     DEF RowStep, SameStatus, Inserts, Withdraws, Takes, Releases, Completes,
         Fails, Running, Inv, LeaseFields

\* Whatever a submission knows of its row stays true among the claims, the
\* reports and the deletions that run beside it.
THEOREM Invariance == Spec => []Inv
<1>1. Init => Inv
  <2> SUFFICES ASSUME Init PROVE Inv
    OBVIOUS
  <2>1. SubmissionInv
    BY DEF Init, SubmissionInv, Exists, NoRow, RowPC
  <2>2. NoRowInv
    BY DEF Init, NoRowInv, NoRow
  <2>3. LeaseFields
    BY DEF Init, LeaseFields, Running, NoRow
  <2> QED
    BY <2>1, <2>2, <2>3, InitType DEF Inv
<1>2. Inv /\ [Next]_vars => Inv'
  <2> SUFFICES ASSUME Inv, [Next]_vars PROVE Inv'
    OBVIOUS
  <2>1. TypeOK'
    BY TypeKept DEF Inv
  <2> QED
    BY <2>1, SubmissionInvKept, NoRowInvKept, LeaseFieldsKept DEF Inv
<1> QED
  BY <1>1, <1>2, PTL DEF Spec

-----------------------------------------------------------------------------

\* A running row has an owner; a queued row has none, nor a stale lease.
THEOREM LeaseFieldsHold == Spec => []LeaseFields
<1>1. Inv => LeaseFields
  BY DEF Inv
<1> QED
  BY <1>1, Invariance, PTL

\* No snapshot outlives its row, and an accepted job has its snapshots,
\* although the roll-back and the claims run beside each other.
THEOREM SnapshotsHold == Spec => []SnapshotsMatchRows
<1>1. Inv => SnapshotsMatchRows
  BY DEF Inv, NoRowInv, SubmissionInv, RowPC, SnapshotsMatchRows
<1> QED
  BY <1>1, Invariance, PTL

\* A failed job never runs again.
THEOREM FailedStaysFailed == Spec => FailedIsFinal
<1>1. ASSUME Inv, [Next]_vars, NEW k \in Jobs, jobs[k].status = "failed"
      PROVE  jobs'[k].status = "failed" \/ RollingBack(k)
  BY <1>1, RowSteps DEF RowStep, SameStatus, Inserts, Withdraws, Takes,
     Releases, Recoverable, Completes, Fails, RollingBack, Exists
<1>2. Inv /\ [Next]_vars =>
        [\A j \in Jobs : jobs[j].status = "failed" =>
            jobs[j].status' = "failed" \/ RollingBack(j)]_vars
  BY <1>1
<1> QED
  BY <1>2, Invariance, PTL DEF Spec, FailedIsFinal

\* A completed job is undone only by the two updates that look at no status.
THEOREM CompletionKept == Spec => CompletedIsKept
<1>1. ASSUME Inv, [Next]_vars, NEW k \in Jobs, jobs[k].status = "completed"
      PROVE  \/ jobs'[k].status = "completed"
             \/ RollingBack(k)
             \/ post[k].pc = "uploadFailed"
             \/ \E a \in Agents : agent[a].pc = "selected" /\ agent[a].job = k
  BY <1>1, RowSteps DEF RowStep, SameStatus, Inserts, Withdraws, Takes,
     Releases, Recoverable, Completes, Fails, Unguarded, RollingBack, Exists
<1>2. Inv /\ [Next]_vars =>
        [\A j \in Jobs : jobs[j].status = "completed" =>
            \/ jobs[j].status' = "completed"
            \/ RollingBack(j)
            \/ post[j].pc = "uploadFailed"
            \/ \E a \in Agents : agent[a].pc = "selected" /\ agent[a].job = j]_vars
  BY <1>1
<1> QED
  BY <1>2, Invariance, PTL DEF Spec, CompletedIsKept

\* A running job changes hands only through a sweep that finds its lease
\* lapsed, however many claims selected it.
THEOREM LeaseExclusive == Spec => LeaseIsExclusive
<1>1. ASSUME Inv, [Next]_vars, NEW k \in Jobs, Running(k)
      PROVE  \/ jobs'[k].worker = jobs[k].worker
             \/ k \in lapsed /\ jobs'[k].status = "queued"
             \/ RollingBack(k)
  BY <1>1, RowSteps DEF RowStep, SameStatus, Inserts, Withdraws, Takes,
     Releases, Recoverable, Completes, Fails, RollingBack, Exists, Running
<1>2. Inv /\ [Next]_vars =>
        [\A j \in Jobs : Running(j) =>
            \/ jobs[j].worker' = jobs[j].worker
            \/ j \in lapsed /\ jobs[j].status' = "queued"
            \/ RollingBack(j)]_vars
  BY <1>1
<1> QED
  BY <1>2, Invariance, PTL DEF Spec, LeaseIsExclusive

\* No deleted job, and no public job past its expiry, is put back in the queue.
THEOREM DeadStayDead == Spec => NothingDeadRequeued
<1>1. ASSUME Inv, [Next]_vars, NEW k \in Jobs, Exists(k),
             jobs[k].status # "queued", jobs'[k].status = "queued"
      PROVE  ~jobs[k].deleted /\ Unexpired(k)
  BY <1>1, RowSteps DEF RowStep, SameStatus, Inserts, Withdraws, Takes,
     Releases, Recoverable, Completes, Fails, Exists
<1>2. Inv /\ [Next]_vars =>
        [\A j \in Jobs :
            (Exists(j) /\ jobs[j].status # "queued" /\ jobs[j].status' = "queued")
            => ~jobs[j].deleted /\ Unexpired(j)]_vars
  BY <1>1
<1> QED
  BY <1>2, Invariance, PTL DEF Spec, NothingDeadRequeued

\* The handlers implement the board: each of their statements is one move of
\* each job, or none.
THEOREM BoardImplemented == Spec => ImplementsBoard
<1>1. Init => Board!Init
  BY DEF Init, Board!Init, NoRow
<1>2. Inv /\ [Next]_vars => [Board!Next]_(Board!board)
  <2> SUFFICES ASSUME Inv, [Next]_vars PROVE Board!Next
    BY DEF Board!Next, Board!board
  <2>1. ASSUME NEW k \in Jobs PROVE Board!Moves(k)
    <3>1. jobs[k].status \in Status
      BY DEF Inv, TypeOK, Row
    <3> QED
      BY <3>1, RowSteps DEF RowStep, SameStatus, Inserts, Withdraws, Takes,
         Releases, Recoverable, Completes, Fails, Status, Board!Moves,
         Board!Move, Board!Keep, Board!Submitted, Board!Taken, Board!Released,
         Board!Completed, Board!Failed, Board!Withdrawn
  <2> QED
    BY <2>1 DEF Board!Next
<1> QED
  BY <1>1, <1>2, Invariance, PTL DEF Spec, ImplementsBoard, Board!Spec

-----------------------------------------------------------------------------
(***************************************************************************)
(* The daily quota.                                                        *)
(***************************************************************************)

\* Only submissions move a handler or a counter.
LEMMA OthersDoNotCharge ==
    ASSUME [Next]_vars, \A j \in Jobs : ~Submit(j)
    PROVE  UNCHANGED <<post, jobsCreated>>
<1>1. CASE UNCHANGED vars
  BY <1>1 DEF vars
<1>2. ASSUME NEW j \in Jobs, Remove(j) \/ LeaseLapses(j) \/ PublicExpires(j)
      PROVE  UNCHANGED <<post, jobsCreated>>
  BY <1>2 DEF Remove, AuthoriseDelete, WipeFiles, MarkDeleted, LeaseLapses,
              PublicExpires
<1>3. ASSUME NEW a \in Agents, Claim(a) \/ FailKey(a)
      PROVE  UNCHANGED <<post, jobsCreated>>
  BY <1>3 DEF Claim, Sweep, SelectJob, ReadSnapshots, TakeLease, FailKey
<1>4. ASSUME NEW a \in Agents, Work(a) \/ StreamEvent(a) \/ Crash(a)
      PROVE  UNCHANGED <<post, jobsCreated>>
  BY <1>4 DEF Work, StartEngine, EndEngine, ReportOutcome, StreamEvent, Crash,
              Send, Apply
<1>5. ASSUME NEW s \in Subjects, LiftRetention(s)
      PROVE  UNCHANGED <<post, jobsCreated>>
  BY <1>5 DEF LiftRetention
<1>6. ASSUME NEW m \in late, LateReport(m)
      PROVE  UNCHANGED <<post, jobsCreated>>
  BY <1>6 DEF LateReport, Apply
<1> QED
  BY <1>1, <1>2, <1>3, <1>4, <1>5, <1>6 DEF Next

LEMMA ChargedIsFinite ==
    ASSUME NEW s \in Subjects
    PROVE  IsFiniteSet(Charged(s)) /\ Cardinality(Charged(s)) \in Nat
<1>1. Charged(s) \subseteq Jobs
  BY DEF Charged
<1> QED
  BY <1>1, ConstantsAssumption, FS_Subset, FS_CardinalityType

\* What a submission does to the counter it does to the set of jobs counted:
\* it adds its own job, takes it out, or touches neither.
LEMMA SubmitCharges ==
    ASSUME Inv, NEW j \in Jobs, Submit(j)
    PROVE  \/ /\ jobsCreated' = jobsCreated
              /\ \A s \in Subjects : Charged(s)' = Charged(s)
           \/ /\ jobsCreated' = [jobsCreated EXCEPT ![SubjectOf[j]] = @ + 1]
              /\ j \notin Charged(SubjectOf[j])
              /\ \A s \in Subjects : Charged(s)' =
                   IF s = SubjectOf[j] THEN Charged(s) \cup {j} ELSE Charged(s)
              /\ post[j].exempt
                   \/ jobsCreated[SubjectOf[j]] < MaxJobsPerDay[SubjectOf[j]]
           \/ /\ jobsCreated' = [jobsCreated EXCEPT ![SubjectOf[j]] =
                                    IF @ > 0 THEN @ - 1 ELSE 0]
              /\ j \in Charged(SubjectOf[j])
              /\ \A s \in Subjects : Charged(s)' =
                   IF s = SubjectOf[j] THEN Charged(s) \ {j} ELSE Charged(s)
<1> USE DEF Inv
<1>0. post \in [Jobs -> Post] /\ post[j] \in Post
  BY DEF TypeOK
<1>1. ASSUME jobsCreated' = jobsCreated,
             \A k \in Jobs : k # j => post'[k] = post[k],
             j \in Smoke \/ (post'[j].pc \in ChargedPC <=> post[j].pc \in ChargedPC)
      PROVE  \A s \in Subjects : Charged(s)' = Charged(s)
  BY <1>1 DEF Charged
<1>2. CASE CheckQuota(j) \/ InsertRow(j) \/ InsertSnapshots(j) \/ RollBack(j)
           \/ CleanUpload(j) \/ BeginUpload(j) \/ UploadAccepted(j)
           \/ UploadRefused(j) \/ Throw(j)
  <2>1. jobsCreated' = jobsCreated
    BY <1>2 DEF CheckQuota, InsertRow, InsertSnapshots, RollBack, CleanUpload,
                BeginUpload, UploadAccepted, UploadRefused, Throw
  <2>2. \A k \in Jobs : k # j => post'[k] = post[k]
    BY <1>0, <1>2 DEF CheckQuota, InsertRow, InsertSnapshots, RollBack,
                CleanUpload, BeginUpload, UploadAccepted, UploadRefused, Throw,
                GoTo
  <2>3. j \in Smoke \/ (post'[j].pc \in ChargedPC <=> post[j].pc \in ChargedPC)
    BY <1>0, <1>2 DEF CheckQuota, InsertRow, InsertSnapshots, RollBack,
                CleanUpload, BeginUpload, UploadAccepted, UploadRefused, Throw,
                GoTo, Post, ChargedPC
  <2> QED
    BY <1>1, <2>1, <2>2, <2>3
<1>3. CASE ReserveQuota(j)
  <2>1. CASE GoTo(j, "overLimit") /\ UNCHANGED jobsCreated
    BY <1>0, <1>1, <1>3, <2>1 DEF ReserveQuota, GoTo, Post, ChargedPC
  <2>2. CASE /\ post[j].exempt
                  \/ jobsCreated[SubjectOf[j]] < MaxJobsPerDay[SubjectOf[j]]
             /\ jobsCreated' = [jobsCreated EXCEPT ![SubjectOf[j]] = @ + 1]
             /\ GoTo(j, "reserved")
    <3>1. j \notin Charged(SubjectOf[j]) /\ j \notin Smoke
      BY <1>3 DEF ReserveQuota, Charged, ChargedPC, SubmissionInv
    <3>2. \A s \in Subjects : Charged(s)' =
            IF s = SubjectOf[j] THEN Charged(s) \cup {j} ELSE Charged(s)
      BY <1>0, <2>2, <3>1 DEF GoTo, Charged, ChargedPC, Post
    <3> QED
      BY <2>2, <3>1, <3>2
  <2> QED
    BY <1>3, <2>1, <2>2 DEF ReserveQuota
<1>4. CASE FailUpload(j)
  <2>1. CASE j \in Smoke
    BY <1>0, <1>1, <1>4, <2>1 DEF FailUpload, GoTo
  <2>2. CASE j \notin Smoke
    <3>1. j \in Charged(SubjectOf[j])
      BY <1>4, <2>2 DEF FailUpload, Charged, ChargedPC
    <3>2. GoTo(j, "cleanup")
      BY <1>4, <2>2 DEF FailUpload
    <3>3. \A s \in Subjects : Charged(s)' =
            IF s = SubjectOf[j] THEN Charged(s) \ {j} ELSE Charged(s)
      BY <1>0, <3>2 DEF GoTo, Charged, ChargedPC, Post
    <3> QED
      BY <1>4, <2>2, <3>1, <3>3 DEF FailUpload
  <2> QED
    BY <2>1, <2>2
<1> QED
  BY <1>2, <1>3, <1>4 DEF Submit

\* The day's counter of each account is exactly the number of its submissions
\* that hold a place, whatever fails or is refunded.
THEOREM QuotaAccounted == Spec => []QuotaAccounting
<1>1. Init => QuotaAccounting
  <2> SUFFICES ASSUME Init, NEW s \in Subjects
               PROVE  jobsCreated[s] = Cardinality(Charged(s))
    BY DEF QuotaAccounting
  <2>1. Charged(s) = {}
    BY DEF Init, Charged, ChargedPC
  <2> QED
    BY <2>1, FS_EmptySet DEF Init
<1>2. Inv /\ QuotaAccounting /\ [Next]_vars => QuotaAccounting'
  <2> SUFFICES ASSUME Inv, QuotaAccounting, [Next]_vars, NEW s \in Subjects
               PROVE  jobsCreated'[s] = Cardinality(Charged(s)')
    BY DEF QuotaAccounting
  <2>0. jobsCreated \in [Subjects -> Nat] /\ jobsCreated[s] = Cardinality(Charged(s))
    BY DEF Inv, TypeOK, QuotaAccounting
  <2>1. CASE \A j \in Jobs : ~Submit(j)
    <3>1. UNCHANGED <<post, jobsCreated>>
      BY <2>1, OthersDoNotCharge
    <3> QED
      BY <2>0, <3>1 DEF Charged
  <2>2. ASSUME NEW j \in Jobs, Submit(j)
        PROVE  jobsCreated'[s] = Cardinality(Charged(s)')
    <3>1. CASE s # SubjectOf[j]
      BY <2>0, <2>2, <3>1, SubmitCharges
    <3>2. CASE s = SubjectOf[j]
      <4>1. CASE jobsCreated' = jobsCreated /\ Charged(s)' = Charged(s)
        BY <2>0, <4>1
      <4>2. CASE /\ jobsCreated' = [jobsCreated EXCEPT ![s] = @ + 1]
                 /\ j \notin Charged(s)
                 /\ Charged(s)' = Charged(s) \cup {j}
        <5>1. Cardinality(Charged(s) \cup {j}) = Cardinality(Charged(s)) + 1
          BY <4>2, ChargedIsFinite, FS_AddElement
        <5> QED
          BY <2>0, <4>2, <5>1
      <4>3. CASE /\ jobsCreated' = [jobsCreated EXCEPT ![s] =
                                       IF @ > 0 THEN @ - 1 ELSE 0]
                 /\ j \in Charged(s)
                 /\ Charged(s)' = Charged(s) \ {j}
        <5>1. Cardinality(Charged(s) \ {j}) = Cardinality(Charged(s)) - 1
          BY <4>3, ChargedIsFinite, FS_RemoveElement
        <5>2. Cardinality(Charged(s)) > 0
          BY <4>3, ChargedIsFinite, FS_EmptySet
        <5> QED
          BY <2>0, <4>3, <5>1, <5>2
      <4> QED
        BY <2>2, <3>2, <4>1, <4>2, <4>3, SubmitCharges
    <3> QED
      BY <3>1, <3>2
  <2> QED
    BY <2>1, <2>2
<1> QED
  BY <1>1, <1>2, Invariance, PTL DEF Spec

\* A submission is exempt or not from its first step on.
LEMMA ExemptionIsKept ==
    ASSUME TypeOK, NEW j \in Jobs, Submit(j), NEW k \in Jobs, post'[k].pc \in ChargedPC
    PROVE  post'[k].exempt = post[k].exempt
<1>1. CASE CheckQuota(j)
  BY <1>1 DEF TypeOK, Post, CheckQuota, ChargedPC
<1>2. CASE \E pc \in PostPC : GoTo(j, pc)
  BY <1>2 DEF TypeOK, Post, GoTo
<1>3. Submit(j) => CheckQuota(j) \/ \E pc \in PostPC : GoTo(j, pc)
  BY DEF Submit, InsertRow, InsertSnapshots, ReserveQuota, RollBack, BeginUpload,
         UploadAccepted, UploadRefused, FailUpload, CleanUpload, Throw, PostPC
<1> QED
  BY <1>1, <1>2, <1>3

\* The submissions without exemption stay within the daily limit of their account,
\* however many of them pass the first look at the counter together.
THEOREM QuotaUnderCeiling == Spec => []QuotaCeiling
<1>1. Init => QuotaCeiling
  <2> SUFFICES ASSUME Init, NEW s \in Subjects
               PROVE  Cardinality(Metered(s)) <= MaxJobsPerDay[s]
    BY DEF QuotaCeiling
  <2>1. Metered(s) = {}
    BY DEF Init, Metered, Charged, ChargedPC
  <2> QED
    BY <2>1, FS_EmptySet, ConstantsAssumption
<1>2. Inv /\ QuotaAccounting /\ QuotaCeiling /\ [Next]_vars => QuotaCeiling'
  <2> SUFFICES ASSUME Inv, QuotaAccounting, QuotaCeiling, [Next]_vars, NEW s \in Subjects
               PROVE  Cardinality(Metered(s)') <= MaxJobsPerDay[s]
    BY DEF QuotaCeiling
  <2>0. /\ IsFiniteSet(Metered(s)) /\ Cardinality(Metered(s)) \in Nat
        /\ Cardinality(Metered(s)) <= MaxJobsPerDay[s]
        /\ MaxJobsPerDay[s] \in Nat
        /\ jobsCreated[s] \in Nat
        /\ Cardinality(Metered(s)) <= jobsCreated[s]
    <3>1. IsFiniteSet(Charged(s)) /\ Metered(s) \subseteq Charged(s)
      BY ChargedIsFinite DEF Metered
    <3>2. /\ IsFiniteSet(Metered(s)) /\ Cardinality(Metered(s)) \in Nat
          /\ Cardinality(Metered(s)) <= Cardinality(Charged(s))
      BY <3>1, FS_Subset, FS_CardinalityType
    <3> QED
      BY <3>2, ConstantsAssumption DEF Inv, TypeOK, QuotaAccounting, QuotaCeiling
  <2>1. CASE \A j \in Jobs : ~Submit(j)
    <3>1. Metered(s)' = Metered(s)
      BY <2>1, OthersDoNotCharge DEF Metered, Charged
    <3> QED
      BY <2>0, <3>1
  <2>2. ASSUME NEW j \in Jobs, Submit(j)
        PROVE  Cardinality(Metered(s)') <= MaxJobsPerDay[s]
    <3>1. \A k \in Charged(s)' : post'[k].exempt = post[k].exempt
      BY <2>2, ExemptionIsKept DEF Charged, Inv
    <3>2. CASE Charged(s)' \subseteq Charged(s)
      <4>1. Metered(s)' \subseteq Metered(s)
        BY <3>1, <3>2 DEF Metered
      <4>2. Cardinality(Metered(s)') <= Cardinality(Metered(s))
            /\ Cardinality(Metered(s)') \in Nat
        BY <2>0, <4>1, FS_Subset, FS_CardinalityType
      <4> QED
        BY <2>0, <4>2
    <3>3. CASE /\ Charged(s)' = Charged(s) \cup {j}
               /\ post[j].exempt \/ jobsCreated[s] < MaxJobsPerDay[s]
      <4>1. CASE post[j].exempt
        <5>1. Metered(s)' = Metered(s) \ {j}
          BY <3>1, <3>3, <4>1 DEF Metered
        <5>2. Metered(s)' = Metered(s)
          BY <4>1, <5>1 DEF Metered
        <5> QED
          BY <2>0, <5>2
      <4>2. CASE ~post[j].exempt /\ jobsCreated[s] < MaxJobsPerDay[s]
        <5>1. Metered(s)' = Metered(s) \cup {j}
          BY <3>1, <3>3, <4>2 DEF Metered
        <5>2. Cardinality(Metered(s)') <= Cardinality(Metered(s)) + 1
              /\ Cardinality(Metered(s)') \in Nat
          <6>1. /\ IsFiniteSet(Metered(s) \cup {j})
                /\ \/ Cardinality(Metered(s) \cup {j}) = Cardinality(Metered(s))
                   \/ Cardinality(Metered(s) \cup {j}) = Cardinality(Metered(s)) + 1
            BY <2>0, FS_AddElement
          <6> QED
            BY <2>0, <5>1, <6>1
        <5> QED
          BY <2>0, <4>2, <5>2
      <4> QED
        BY <3>3, <4>1, <4>2
    <3> QED
      BY <2>2, <3>2, <3>3, SubmitCharges
  <2> QED
    BY <2>1, <2>2
<1> QED
  BY <1>1, <1>2, Invariance, QuotaAccounted, PTL DEF Spec

-----------------------------------------------------------------------------
(***************************************************************************)
(* Retention: how exemption and completion meet on one row.                *)
(***************************************************************************)

\* A step leaves both fields of a row alone and completes nothing, completes
\* it by its exemption, exempts it, or begins or erases it.
RetentionStep(j) ==
    \/ /\ jobs'[j].exempt = jobs[j].exempt
       /\ jobs'[j].download = jobs[j].download
       /\ jobs'[j].status = "completed" => jobs[j].status = "completed"
    \/ jobs'[j].download = ~jobs'[j].exempt
    \/ ~jobs'[j].download /\ (jobs'[j].status = "completed" => jobs'[j].exempt)

LEMMA ApplyRetention ==
    ASSUME TypeOK, NEW j \in Jobs, NEW kind \in Report, Apply(j, kind),
           NEW k \in Jobs
    PROVE  RetentionStep(k)
<1>0. jobs[j] \in Row
  BY DEF TypeOK
<1>1. CASE k # j \/ ~Running(j) \/ kind = "progress"
  BY <1>1 DEF Apply, TypeOK, Report, RetentionStep
<1>2. CASE k = j /\ Running(j) /\ kind = "succeeded"
  <2>1. jobs' = [jobs EXCEPT ![j].status = "completed",
                             ![j].download = ~jobs[j].exempt]
    BY <1>2 DEF Apply
  <2>2. jobs'[j].download = ~jobs[j].exempt /\ jobs'[j].exempt = jobs[j].exempt
    BY <1>0, <2>1 DEF TypeOK, Row
  <2> QED
    BY <1>2, <2>2 DEF RetentionStep
<1>3. CASE k = j /\ Running(j) /\ kind = "failed"
  BY <1>0, <1>3 DEF Apply, TypeOK, Row, RetentionStep
<1> QED
  BY <1>1, <1>2, <1>3 DEF Report

LEMMA RetentionSteps ==
    ASSUME TypeOK, [Next]_vars, NEW k \in Jobs
    PROVE  RetentionStep(k)
<1>0. jobs[k] \in Row
  BY DEF TypeOK
<1>1. CASE jobs' = jobs
  BY <1>1 DEF RetentionStep
<1>2. ASSUME NEW j \in Jobs, Submit(j)
      PROVE  RetentionStep(k)
  <2>1. CASE InsertRow(j)
    BY <2>1 DEF InsertRow, RetentionStep, TypeOK, NoRow
  <2>2. CASE RollBack(j)
    BY <2>2 DEF RollBack, RetentionStep, TypeOK, NoRow
  <2>3. CASE FailUpload(j)
    BY <1>0, <2>3 DEF FailUpload, RetentionStep, TypeOK, Row
  <2>4. CASE ~InsertRow(j) /\ ~RollBack(j) /\ ~FailUpload(j)
    BY <1>1, <1>2, <2>4 DEF Submit, CheckQuota, InsertSnapshots, ReserveQuota,
       BeginUpload, UploadAccepted, UploadRefused, CleanUpload, Throw
  <2> QED
    BY <2>1, <2>2, <2>3, <2>4
<1>3. ASSUME NEW j \in Jobs, Remove(j) \/ LeaseLapses(j) \/ PublicExpires(j)
      PROVE  RetentionStep(k)
  BY <1>0, <1>3 DEF Remove, AuthoriseDelete, WipeFiles, MarkDeleted, LeaseLapses,
                    PublicExpires, RetentionStep, TypeOK, Row
<1>4. ASSUME NEW a \in Agents, Claim(a) \/ FailKey(a)
      PROVE  RetentionStep(k)
  <2>1. CASE Sweep(a)
    BY <1>0, <2>1 DEF Sweep, SweptRow, Overdue, RetentionStep, Row
  <2>2. CASE SelectJob(a) \/ ReadSnapshots(a)
    BY <1>1, <2>2 DEF SelectJob, ReadSnapshots
  <2>3. CASE TakeLease(a)
    BY <1>0, <2>3 DEF TakeLease, RetentionStep, TypeOK, Row
  <2>4. CASE FailKey(a)
    BY <1>0, <2>4 DEF FailKey, RetentionStep, TypeOK, Row
  <2> QED
    BY <1>4, <2>1, <2>2, <2>3, <2>4 DEF Claim
<1>5. ASSUME NEW a \in Agents, Work(a) \/ StreamEvent(a) \/ Crash(a)
      PROVE  RetentionStep(k)
  <2>1. CASE StartEngine(a) \/ StreamEvent(a) \/ ReportOutcome(a)
    <3>1. agent[a].job \in Jobs
      BY <2>1, BusyAgent DEF StartEngine, StreamEvent, ReportOutcome, JobPC,
                             WorkPC
    <3>2. PICK kind \in Report : Send(agent[a].job, kind)
      BY <2>1 DEF StartEngine, StreamEvent, ReportOutcome, Report
    <3> QED
      BY <1>1, <3>1, <3>2, ApplyRetention DEF Send
  <2>2. CASE EndEngine(a) \/ Crash(a)
    BY <1>1, <2>2 DEF EndEngine, Crash
  <2> QED
    BY <1>5, <2>1, <2>2 DEF Work
<1>6. ASSUME NEW s \in Subjects, LiftRetention(s)
      PROVE  RetentionStep(k)
  BY <1>0, <1>6 DEF LiftRetention, RetentionStep, Row
<1>7. ASSUME NEW m \in late, LateReport(m)
      PROVE  RetentionStep(k)
  <2>1. m.job \in Jobs /\ m.kind \in Report
    BY DEF TypeOK
  <2> QED
    BY <1>7, <2>1, ApplyRetention DEF LateReport
<1> QED
  BY <1>1, <1>2, <1>3, <1>4, <1>5, <1>6, <1>7 DEF Next, vars

\* Exempting an account while one of its jobs completes leaves that job with
\* no expiry date, and any other completed job with one.
THEOREM RetentionHolds == Spec => []RetentionConsistent
<1>1. Init => RetentionConsistent
  BY DEF Init, RetentionConsistent, NoRow
<1>2. TypeOK /\ RetentionConsistent /\ [Next]_vars => RetentionConsistent'
  <2> SUFFICES ASSUME TypeOK, RetentionConsistent, [Next]_vars, NEW k \in Jobs
               PROVE  /\ jobs'[k].exempt => ~jobs'[k].download
                      /\ jobs'[k].status = "completed" =>
                            (jobs'[k].download <=> ~jobs'[k].exempt)
    BY DEF RetentionConsistent
  <2>1. RetentionStep(k)
    BY RetentionSteps
  <2>2. /\ jobs[k].exempt => ~jobs[k].download
        /\ jobs[k].status = "completed" =>
              (jobs[k].download <=> ~jobs[k].exempt)
    BY DEF RetentionConsistent
  <2> QED
    BY <2>1, <2>2 DEF RetentionStep
<1> QED
  BY <1>1, <1>2, TypeCorrect, PTL DEF Spec

=============================================================================
