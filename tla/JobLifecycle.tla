---------------------------- MODULE JobLifecycle ----------------------------
(***************************************************************************)
(* The life of a translation job: a row of the D1 table `jobs`, written    *)
(* by the handlers of the Cloudflare Worker (worker/src/index.ts) on       *)
(* behalf of the browser that submits and deletes it and of the agents     *)
(* (pc-api-python/main.py) that claim, translate and report it.            *)
(*                                                                         *)
(* Every D1 statement, and every D1 batch, is one atomic step; a handler   *)
(* is a sequence of such steps between which the others run.  Clocks are   *)
(* abstracted to the two comparisons the SQL makes: `lapsed` holds the     *)
(* jobs whose claimed_at is two hours old, `expired` the public jobs whose *)
(* public_expires_at has passed.  The model covers one UTC day of          *)
(* usage_limits; the order in which queued jobs are claimed is left open.  *)
(***************************************************************************)
EXTENDS Integers, FiniteSets

CONSTANTS
    Jobs,            \* job ids: one POST request each (crypto.randomUUID)
    Agents,          \* worker_id of each agent process
    Subjects,        \* (scope, subject_hash) keys of usage_limits
    SubjectOf,       \* the subject charged for each job
    Public,          \* jobs submitted by guests (owner_type = 'public')
    Smoke,           \* jobs of POST /internal/smoke/job, public and unmetered
    ExemptSubjects,  \* accounts an exempt identity may sign in to
    MaxJobsPerDay,   \* the daily ceiling of each subject
    MaxFaults,       \* bound on crashes, lost replies and false lease lapses
    None             \* SQL NULL for worker_id; "no job" for an agent

ASSUME ConstantsAssumption ==
    /\ IsFiniteSet(Jobs)
    /\ SubjectOf \in [Jobs -> Subjects]
    /\ Public \subseteq Jobs
    /\ Smoke \subseteq Public
    /\ ExemptSubjects \subseteq Subjects
    /\ \A j \in Public : SubjectOf[j] \notin ExemptSubjects
    /\ MaxJobsPerDay \in [Subjects -> Nat \ {0}]
    /\ MaxFaults \in Nat
    /\ None \notin Agents \cup Jobs

VARIABLES
    jobs,         \* table jobs, one row per id
    snapshots,    \* jobs that have rows in job_api_provider_snapshots
    jobsCreated,  \* usage_limits.jobs_created
    lapsed,       \* jobs whose claimed_at is two hours old
    expired,      \* public jobs past public_expires_at
    input,        \* pc-api: UPLOAD_DIR/<id>/input.pdf
    outputs,      \* pc-api: jobs with an output directory or a log file
    post,         \* the submission handler of each job
    removal,      \* the delete handler of each job
    agent,        \* each agent, its claim request included
    late,         \* reports whose sender gave up waiting for the reply
    faults        \* faults spent so far

vars == <<jobs, snapshots, jobsCreated, lapsed, expired, input, outputs,
          post, removal, agent, late, faults>>

table == <<jobs, snapshots, jobsCreated, lapsed, expired>>
disk  == <<input, outputs>>

-----------------------------------------------------------------------------

Status   == {"absent", "queued", "running", "completed", "failed"}
Terminal == {"completed", "failed"}

\* download is TRUE when download_expires_at holds a date.
Row == [status : Status, worker : Agents \cup {None}, deleted : BOOLEAN,
        exempt : BOOLEAN, download : BOOLEAN]

NoRow == [status |-> "absent", worker |-> None, deleted |-> FALSE,
          exempt |-> FALSE, download |-> FALSE]

\* Where a submission stands.  "stranded" and "aborted" are the two ways out
\* through the outer catch: after the quota was reserved and before.
PostPC == {"idle", "checked", "inserted", "snapshotted", "reserved",
           "overLimit", "uploading", "uploadFailed", "cleanup",
           "accepted", "refused", "rejected", "aborted", "stranded"}

ChargedPC == {"reserved", "uploading", "uploadFailed", "accepted", "stranded"}

Post == [pc : PostPC, exempt : BOOLEAN]

\* A claim request holds a job once it has selected one; from "claimed" on the
\* agent works on it.
WorkPC == {"claimed", "translating", "succeeding", "failing"}
JobPC  == {"selected", "updating"} \cup WorkPC
Free   == [pc : {"idle", "selecting"}, job : {None}, snaps : {FALSE}]
Busy   == [pc : JobPC, job : Jobs, snaps : BOOLEAN]
Agent  == Free \cup Busy

Idle == [pc |-> "idle", job |-> None, snaps |-> FALSE]

Report == {"progress", "succeeded", "failed"}

TypeOK ==
    /\ jobs \in [Jobs -> Row]
    /\ snapshots \subseteq Jobs
    /\ jobsCreated \in [Subjects -> Nat]
    /\ lapsed \subseteq Jobs
    /\ expired \subseteq Public
    /\ input \in [Jobs -> {"none", "partial", "complete"}]
    /\ outputs \subseteq Jobs
    /\ post \in [Jobs -> Post]
    /\ removal \in [Jobs -> {"idle", "authorised", "wiped"}]
    /\ agent \in [Agents -> Agent]
    /\ late \subseteq [job : Jobs, kind : Report]
    /\ faults \in 0..MaxFaults

Init ==
    /\ jobs = [j \in Jobs |-> NoRow]
    /\ snapshots = {}
    /\ jobsCreated = [s \in Subjects |-> 0]
    /\ lapsed = {}
    /\ expired = {}
    /\ input = [j \in Jobs |-> "none"]
    /\ outputs = {}
    /\ post = [j \in Jobs |-> [pc |-> "idle", exempt |-> FALSE]]
    /\ removal = [j \in Jobs |-> "idle"]
    /\ agent = [a \in Agents |-> Idle]
    /\ late = {}
    /\ faults = 0

Exists(j) == jobs[j].status # "absent"

\* Every fault is counted, so that liveness is asked of finitely many.
Fault ==
    /\ faults < MaxFaults
    /\ faults' = faults + 1

-----------------------------------------------------------------------------
(* Submission: POST /jobs, and POST /internal/smoke/job for j in Smoke.    *)

GoTo(j, pc) == post' = [post EXCEPT ![j].pc = pc]

\* Authentication and the first look at usage_limits.  A request under an
\* exempt identity has no ceiling; a smoke job is not looked up at all.
CheckQuota(j) ==
    /\ post[j].pc = "idle"
    /\ \E exempt \in BOOLEAN :
         /\ exempt => SubjectOf[j] \in ExemptSubjects
         /\ post' = [post EXCEPT ![j] =
              [pc |-> IF \/ exempt \/ j \in Smoke
                         \/ jobsCreated[SubjectOf[j]] < MaxJobsPerDay[SubjectOf[j]]
                      THEN "checked" ELSE "rejected",
               exempt |-> exempt]]
    /\ UNCHANGED <<table, disk, removal, agent, late, faults>>

\* The row is visible as 'queued', and claimable, from this step on.
InsertRow(j) ==
    /\ post[j].pc = "checked"
    /\ jobs' = [jobs EXCEPT ![j] = [NoRow EXCEPT !.status = "queued",
                                                 !.exempt = post[j].exempt]]
    /\ GoTo(j, "inserted")
    /\ UNCHANGED <<snapshots, jobsCreated, lapsed, expired, disk, removal,
                   agent, late, faults>>

InsertSnapshots(j) ==
    /\ post[j].pc = "inserted"
    /\ snapshots' = snapshots \cup {j}
    /\ GoTo(j, IF j \in Smoke THEN "reserved" ELSE "snapshotted")
    /\ UNCHANGED <<jobs, jobsCreated, lapsed, expired, disk, removal, agent,
                   late, faults>>

\* Mutant: the upsert without its WHERE clause.
ReserveQuotaUnchecked(j) ==
    /\ post[j].pc = "snapshotted"
    /\ jobsCreated' = [jobsCreated EXCEPT ![SubjectOf[j]] = @ + 1]
    /\ GoTo(j, "reserved")
    /\ UNCHANGED <<jobs, snapshots, lapsed, expired, disk, removal, agent,
                   late, faults>>

\* One upsert: either it counts the job or it changes no row.
ReserveQuota(j) ==
    LET s == SubjectOf[j] IN
    /\ post[j].pc = "snapshotted"
    /\ \/ /\ post[j].exempt \/ jobsCreated[s] < MaxJobsPerDay[s]
          /\ jobsCreated' = [jobsCreated EXCEPT ![s] = @ + 1]
          /\ GoTo(j, "reserved")
       \/ /\ ~post[j].exempt /\ jobsCreated[s] >= MaxJobsPerDay[s]
          /\ GoTo(j, "overLimit")
          /\ UNCHANGED jobsCreated
    /\ UNCHANGED <<jobs, snapshots, lapsed, expired, disk, removal, agent,
                   late, faults>>

\* Mutant: only the row is deleted.
RollBackRowOnly(j) ==
    /\ post[j].pc = "overLimit"
    /\ jobs' = [jobs EXCEPT ![j] = NoRow]
    /\ GoTo(j, "rejected")
    /\ UNCHANGED <<snapshots, jobsCreated, lapsed, expired, disk, removal,
                   agent, late, faults>>

\* The batch that deletes the snapshots and the row of a job over the limit.
RollBack(j) ==
    /\ post[j].pc = "overLimit"
    /\ jobs' = [jobs EXCEPT ![j] = NoRow]
    /\ snapshots' = snapshots \ {j}
    /\ lapsed' = lapsed \ {j}
    /\ expired' = expired \ {j}
    /\ GoTo(j, "rejected")
    /\ UNCHANGED <<jobsCreated, disk, removal, agent, late, faults>>

\* pc-api opens input.pdf for writing and streams the body into it.
BeginUpload(j) ==
    /\ post[j].pc = "reserved"
    /\ input' = [input EXCEPT ![j] = "partial"]
    /\ GoTo(j, "uploading")
    /\ UNCHANGED <<table, outputs, removal, agent, late, faults>>

UploadAccepted(j) ==
    /\ post[j].pc = "uploading"
    /\ input' = [input EXCEPT ![j] = "complete"]
    /\ GoTo(j, "accepted")
    /\ UNCHANGED <<table, outputs, removal, agent, late, faults>>

\* A response that is not ok: the file may be whole, cut short or missing.
UploadRefused(j) ==
    /\ post[j].pc = "uploading"
    /\ Fault
    /\ \E left \in {"none", "partial", "complete"} :
         input' = [input EXCEPT ![j] = left]
    /\ GoTo(j, "uploadFailed")
    /\ UNCHANGED <<table, outputs, removal, agent, late>>

\* Mutant: the row is failed and the quota kept.
FailUploadNoRefund(j) ==
    /\ post[j].pc = "uploadFailed"
    /\ jobs' = IF Exists(j) THEN [jobs EXCEPT ![j].status = "failed"] ELSE jobs
    /\ GoTo(j, "cleanup")
    /\ UNCHANGED <<snapshots, jobsCreated, lapsed, expired, disk, removal,
                   agent, late, faults>>

\* The batch that fails the row, whatever its status, and refunds the quota.
FailUpload(j) ==
    LET s == SubjectOf[j] IN
    /\ post[j].pc = "uploadFailed"
    /\ jobs' = IF Exists(j) THEN [jobs EXCEPT ![j].status = "failed"] ELSE jobs
    /\ IF j \in Smoke
       THEN /\ GoTo(j, "refused")
            /\ UNCHANGED jobsCreated
       ELSE /\ GoTo(j, "cleanup")
            /\ jobsCreated' = [jobsCreated EXCEPT ![s] =
                                 IF @ > 0 THEN @ - 1 ELSE 0]
    /\ UNCHANGED <<snapshots, lapsed, expired, disk, removal, agent, late,
                   faults>>

\* POST /internal/files/<id>/delete.  The handler ignores its failure.
CleanUpload(j) ==
    /\ post[j].pc = "cleanup"
    /\ \/ /\ input' = [input EXCEPT ![j] = "none"]
          /\ outputs' = outputs \ {j}
          /\ UNCHANGED faults
       \/ Fault /\ UNCHANGED disk
    /\ GoTo(j, "refused")
    /\ UNCHANGED <<table, removal, agent, late>>

\* A statement or a fetch throws: the outer catch answers 500 and undoes
\* nothing.
Throw(j) ==
    /\ Fault
    /\ \/ /\ post[j].pc \in {"checked", "inserted", "snapshotted", "overLimit"}
          /\ GoTo(j, "aborted")
       \/ /\ post[j].pc \in {"reserved", "uploading", "uploadFailed"}
          /\ GoTo(j, "stranded")
    /\ UNCHANGED <<table, disk, removal, agent, late>>

-----------------------------------------------------------------------------
(* Claim: POST /agent/claim.                                               *)

Unexpired(j) == j \notin Public \/ j \notin expired

\* Mutant: the recovery forgets deleted_at IS NULL.
RecoverableThoughDeleted(j) ==
    /\ jobs[j].status = "running"
    /\ j \in lapsed
    /\ Unexpired(j)

\* The two UPDATEs of the batch that opens a claim, as one transaction.
Recoverable(j) ==
    /\ jobs[j].status = "running"
    /\ ~jobs[j].deleted
    /\ j \in lapsed
    /\ Unexpired(j)

Overdue(j) ==
    /\ jobs[j].status \in {"queued", "running"}
    /\ ~jobs[j].deleted
    /\ ~Unexpired(j)

\* Mutant: there is no recovery.
SweptRowOnlyExpires(j) ==
    IF Overdue(j) THEN [jobs[j] EXCEPT !.status = "failed"] ELSE jobs[j]

SweptRow(j) ==
    IF Recoverable(j)
    THEN [jobs[j] EXCEPT !.status = "queued", !.worker = None]
    ELSE IF Overdue(j) THEN [jobs[j] EXCEPT !.status = "failed"]
    ELSE jobs[j]

Sweep(a) ==
    /\ agent[a].pc = "idle"
    /\ jobs' = [j \in Jobs |-> SweptRow(j)]
    /\ lapsed' = {j \in lapsed : ~Recoverable(j)}
    /\ agent' = [agent EXCEPT ![a] = [Idle EXCEPT !.pc = "selecting"]]
    /\ UNCHANGED <<snapshots, jobsCreated, expired, disk, post, removal, late,
                   faults>>

Claimable(j) == jobs[j].status = "queued" /\ ~jobs[j].deleted /\ Unexpired(j)

SelectJob(a) ==
    /\ agent[a].pc = "selecting"
    /\ \/ \E j \in Jobs :
            /\ Claimable(j)
            /\ agent' = [agent EXCEPT ![a].pc = "selected", ![a].job = j]
       \/ /\ \A j \in Jobs : ~Claimable(j)
          /\ agent' = [agent EXCEPT ![a] = Idle]
    /\ UNCHANGED <<table, disk, post, removal, late, faults>>

\* The stored key does not decrypt (the secret was rotated): the row is
\* failed by id alone, whatever happened to it since it was selected.
FailKey(a) ==
    LET j == agent[a].job IN
    /\ agent[a].pc = "selected"
    /\ Fault
    /\ jobs' = IF Exists(j) THEN [jobs EXCEPT ![j].status = "failed"] ELSE jobs
    /\ agent' = [agent EXCEPT ![a] = Idle]
    /\ UNCHANGED <<snapshots, jobsCreated, lapsed, expired, disk, post,
                   removal, late>>

ReadSnapshots(a) ==
    /\ agent[a].pc = "selected"
    /\ agent' = [agent EXCEPT ![a].pc = "updating",
                              ![a].snaps = agent[a].job \in snapshots]
    /\ UNCHANGED <<table, disk, post, removal, late, faults>>

\* Mutant: UPDATE ... WHERE id = ?.
TakeLeaseUnguarded(a) ==
    LET j == agent[a].job IN
    /\ agent[a].pc = "updating"
    /\ Exists(j)
    /\ jobs' = [jobs EXCEPT ![j].status = "running", ![j].worker = a]
    /\ lapsed' = lapsed \ {j}
    /\ agent' = [agent EXCEPT ![a].pc = "claimed"]
    /\ UNCHANGED <<snapshots, jobsCreated, expired, disk, post, removal, late,
                   faults>>

\* UPDATE ... WHERE id = ? AND status = 'queued'.  A winner whose reply is
\* lost leaves the job running with nobody working on it.
TakeLease(a) ==
    LET j == agent[a].job IN
    /\ agent[a].pc = "updating"
    /\ IF jobs[j].status = "queued"
       THEN /\ jobs' = [jobs EXCEPT ![j].status = "running", ![j].worker = a]
            /\ lapsed' = lapsed \ {j}
            /\ \/ /\ agent' = [agent EXCEPT ![a].pc = "claimed"]
                  /\ UNCHANGED faults
               \/ /\ Fault
                  /\ agent' = [agent EXCEPT ![a] = Idle]
       ELSE /\ agent' = [agent EXCEPT ![a] = Idle]
            /\ UNCHANGED <<jobs, lapsed, faults>>
    /\ UNCHANGED <<snapshots, jobsCreated, expired, disk, post, removal, late>>

-----------------------------------------------------------------------------
(* The agent's work and its reports.  No report names the worker: each is  *)
(* an UPDATE of any row with that id that is 'running'.                    *)

Running(j) == jobs[j].status = "running"

\* Mutants: the final status under the name the API contract gives it, and an
\* expiry date whatever the exemption.
ApplySucceeded(j, kind) ==
    /\ jobs' = IF Running(j) /\ kind = "succeeded"
               THEN [jobs EXCEPT ![j].status = "succeeded"] ELSE jobs
    /\ UNCHANGED <<snapshots, jobsCreated, lapsed, expired>>

ApplyAlwaysExpires(j, kind) ==
    /\ jobs' = IF Running(j) /\ kind = "succeeded"
               THEN [jobs EXCEPT ![j].status = "completed", ![j].download = TRUE]
               ELSE jobs
    /\ UNCHANGED <<snapshots, jobsCreated, lapsed, expired>>

\* What a delivered report does to the table.
Apply(j, kind) ==
    /\ IF Running(j)
       THEN /\ jobs' = CASE kind = "succeeded" ->
                              [jobs EXCEPT ![j].status = "completed",
                                           ![j].download = ~jobs[j].exempt]
                         [] kind = "failed" ->
                              [jobs EXCEPT ![j].status = "failed"]
                         [] kind = "progress" -> jobs
            /\ lapsed' = IF kind = "progress" THEN lapsed \ {j} ELSE lapsed
       ELSE UNCHANGED <<jobs, lapsed>>
    /\ UNCHANGED <<snapshots, jobsCreated, expired>>

\* A report is delivered, or it fails: it never reaches the Worker, or the
\* client times out and the handler runs at some later time.
Send(j, kind) ==
    \/ /\ Apply(j, kind)
       /\ UNCHANGED <<late, faults>>
    \/ /\ Fault
       /\ late' \in {late, late \cup {[job |-> j, kind |-> kind]}}
       /\ UNCHANGED table

\* Reports 5 %, makes the output directory and opens the input, which another
\* handler may still be writing or may have removed.
StartEngine(a) ==
    LET j == agent[a].job IN
    /\ agent[a].pc = "claimed"
    /\ Send(j, "progress")
    /\ outputs' = outputs \cup {j}
    /\ agent' = [agent EXCEPT ![a].pc =
                   IF input[j] = "none" THEN "failing" ELSE "translating"]
    /\ UNCHANGED <<input, post, removal>>

\* A stream event: a line of the log and a progress report.
StreamEvent(a) ==
    LET j == agent[a].job IN
    /\ agent[a].pc = "translating"
    /\ Send(j, "progress")
    /\ outputs' = outputs \cup {j}
    /\ UNCHANGED <<input, post, removal, agent>>

EndEngine(a) ==
    /\ agent[a].pc = "translating"
    /\ outputs' = outputs \cup {agent[a].job}
    /\ \E pc \in {"succeeding", "failing"} :
         agent' = [agent EXCEPT ![a].pc = pc]
    /\ UNCHANGED <<table, input, post, removal, late, faults>>

\* POST /succeeded, /failed or a progress report with a final status, sent
\* once; the agent goes on whatever becomes of it.
ReportOutcome(a) ==
    /\ agent[a].pc \in {"succeeding", "failing"}
    /\ Send(agent[a].job,
            IF agent[a].pc = "succeeding" THEN "succeeded" ELSE "failed")
    /\ agent' = [agent EXCEPT ![a] = Idle]
    /\ UNCHANGED <<disk, post, removal>>

LateReport(m) ==
    /\ m \in late
    /\ Apply(m.job, m.kind)
    /\ late' = late \ {m}
    /\ UNCHANGED <<disk, post, removal, agent, faults>>

\* The process dies and restarts with its WORKER_ID and nothing else.
Crash(a) ==
    /\ agent[a].pc \in WorkPC
    /\ Fault
    /\ agent' = [agent EXCEPT ![a] = Idle]
    /\ UNCHANGED <<table, disk, post, removal, late>>

-----------------------------------------------------------------------------
(* Deletion, exemption and time.                                           *)

\* The SELECT of DELETE /jobs/:id, and of DELETE /public/jobs/:id, whose
\* receipt the guest has only once the submission was accepted.
AuthoriseDelete(j) ==
    /\ removal[j] = "idle"
    /\ Exists(j) /\ ~jobs[j].deleted
    /\ j \in Public => post[j].pc = "accepted" /\ Unexpired(j)
    /\ removal' = [removal EXCEPT ![j] = "authorised"]
    /\ UNCHANGED <<table, disk, post, agent, late, faults>>

WipeFiles(j) ==
    /\ removal[j] = "authorised"
    /\ \/ /\ input' = [input EXCEPT ![j] = "none"]
          /\ outputs' = outputs \ {j}
          /\ removal' = [removal EXCEPT ![j] = "wiped"]
          /\ UNCHANGED faults
       \/ /\ Fault
          /\ removal' = [removal EXCEPT ![j] = "idle"]
          /\ UNCHANGED disk
    /\ UNCHANGED <<table, post, agent, late>>

MarkDeleted(j) ==
    /\ removal[j] = "wiped"
    /\ jobs' = IF Exists(j) THEN [jobs EXCEPT ![j].deleted = TRUE] ELSE jobs
    /\ removal' = [removal EXCEPT ![j] = "idle"]
    /\ UNCHANGED <<snapshots, jobsCreated, lapsed, expired, disk, post, agent,
                   late, faults>>

\* Any authenticated request of an exempt identity lifts the retention of
\* all the rows of its account.
LiftRetention(s) ==
    /\ s \in ExemptSubjects
    /\ jobs' = [j \in Jobs |->
                  IF SubjectOf[j] = s /\ j \notin Public /\ Exists(j)
                  THEN [jobs[j] EXCEPT !.exempt = TRUE, !.download = FALSE]
                  ELSE jobs[j]]
    /\ UNCHANGED <<snapshots, jobsCreated, lapsed, expired, disk, post,
                   removal, agent, late, faults>>

\* Two hours pass since claimed_at: it always happens to a job nobody works
\* on; while an agent is at work it is a fault (an engine silent so long).
WorkedOn(j) == \E a \in Agents : agent[a].pc \in WorkPC /\ agent[a].job = j

LeaseLapses(j) ==
    /\ Running(j) /\ j \notin lapsed
    /\ IF WorkedOn(j) THEN Fault ELSE UNCHANGED faults
    /\ lapsed' = lapsed \cup {j}
    /\ UNCHANGED <<jobs, snapshots, jobsCreated, expired, disk, post, removal,
                   agent, late>>

PublicExpires(j) ==
    /\ j \in Public \ expired /\ Exists(j)
    /\ expired' = expired \cup {j}
    /\ UNCHANGED <<jobs, snapshots, jobsCreated, lapsed, disk, post, removal,
                   agent, late, faults>>

-----------------------------------------------------------------------------

Submit(j) == \/ CheckQuota(j) \/ InsertRow(j) \/ InsertSnapshots(j)
             \/ ReserveQuota(j) \/ RollBack(j) \/ BeginUpload(j)
             \/ UploadAccepted(j) \/ UploadRefused(j) \/ FailUpload(j)
             \/ CleanUpload(j) \/ Throw(j)

Remove(j) == AuthoriseDelete(j) \/ WipeFiles(j) \/ MarkDeleted(j)

Claim(a) == \/ Sweep(a) \/ SelectJob(a) \/ ReadSnapshots(a) \/ TakeLease(a)

Work(a) == StartEngine(a) \/ EndEngine(a) \/ ReportOutcome(a)

Next ==
    \/ \E j \in Jobs : Submit(j) \/ Remove(j) \/ LeaseLapses(j) \/ PublicExpires(j)
    \/ \E a \in Agents : \/ Claim(a) \/ FailKey(a) \/ Work(a)
                         \/ StreamEvent(a) \/ Crash(a)
    \/ \E s \in Subjects : LiftRetention(s)
    \/ \E m \in late : LateReport(m)

Spec == Init /\ [][Next]_vars

\* An agent polls at least once a minute and brings its jobs to an end, and
\* time passes.  Nothing is assumed of browsers, nor of the submissions.
Fairness ==
    /\ \A j \in Jobs : WF_vars(LeaseLapses(j))
    /\ \A a \in Agents : WF_vars(Claim(a)) /\ WF_vars(Work(a))

FairSpec == Spec /\ Fairness

-----------------------------------------------------------------------------
(* Safety.                                                                 *)

\* The daily usage counts exactly the submissions that reserved a place and
\* were not refunded: the MAX(0, ...) of the refund never hides a second
\* refund, and a job over the limit leaves no charge.
Charged(s) == {j \in Jobs \ Smoke : SubjectOf[j] = s /\ post[j].pc \in ChargedPC}

QuotaAccounting ==
    \A s \in Subjects : jobsCreated[s] = Cardinality(Charged(s))

Metered(s) == {j \in Charged(s) : ~post[j].exempt}

\* However many submissions run at once between the look at usage_limits and
\* the reservation, and whatever an exempt identity submits on the same account
\* meanwhile, those made without exemption stay within its daily limit.
QuotaCeiling ==
    \A s \in Subjects : Cardinality(Metered(s)) <= MaxJobsPerDay[s]

\* Exempting an account and completing one of its jobs may cross: a row is
\* never left exempt with an expiry date, nor completed with neither.
RetentionConsistent ==
    \A j \in Jobs :
        /\ jobs[j].exempt => ~jobs[j].download
        /\ jobs[j].status = "completed" => (jobs[j].download <=> ~jobs[j].exempt)

\* No snapshot, and so no encrypted key, outlives the row of a rejected
\* submission, and every accepted job has its snapshots.
SnapshotsMatchRows ==
    \A j \in Jobs :
        /\ j \in snapshots => Exists(j)
        /\ post[j].pc = "accepted" => j \in snapshots

\* A running row has an owner, a queued row has none and no stale lease: what
\* the sweep relies on to find the jobs of dead agents.
LeaseFields ==
    \A j \in Jobs :
        /\ Running(j) => jobs[j].worker # None
        /\ jobs[j].status = "queued" => jobs[j].worker = None /\ j \notin lapsed

(* What a step may not do.  The roll-back of a submission over the limit     *)
(* takes its row away whatever has become of it meanwhile.                   *)

RollingBack(j) == post[j].pc = "overLimit" /\ ~Exists(j)'

\* A failed job never runs again, whichever claim, report or sweep comes late.
FailedIsFinal ==
    [][\A j \in Jobs : jobs[j].status = "failed" =>
          jobs[j].status' = "failed" \/ RollingBack(j)]_vars

\* No report or sweep undoes a completion.  Only the two updates that look at
\* no status do: a refused upload, and a key that does not decrypt.
CompletedIsKept ==
    [][\A j \in Jobs : jobs[j].status = "completed" =>
          \/ jobs[j].status' = "completed"
          \/ RollingBack(j)
          \/ post[j].pc = "uploadFailed"
          \/ \E a \in Agents : agent[a].pc = "selected" /\ agent[a].job = j]_vars

\* Two claims that selected the same job cannot both win it, and no agent is
\* relieved of a job before its lease has lapsed.
LeaseIsExclusive ==
    [][\A j \in Jobs : Running(j) =>
          \/ jobs[j].worker' = jobs[j].worker
          \/ j \in lapsed /\ jobs[j].status' = "queued"
          \/ RollingBack(j)]_vars

\* Work is not resumed for nobody: a sweep requeues no deleted job and no
\* public job past its expiry.
NothingDeadRequeued ==
    [][\A j \in Jobs :
          (Exists(j) /\ jobs[j].status # "queued" /\ jobs[j].status' = "queued")
          => ~jobs[j].deleted /\ Unexpired(j)]_vars

(* Liveness.                                                               *)

\* Whatever crashes, replies lost and leases lapsed, every job that was queued
\* is in the end completed, failed, deleted or withdrawn.
Pending(j) == jobs[j].status \in {"queued", "running"} /\ ~jobs[j].deleted

EveryJobSettles == \A j \in Jobs : Pending(j) ~> ~Pending(j)

\* The handlers, statement by statement, implement the board that browsers
\* and agents are promised, on which every claim and every report is atomic.
Board == INSTANCE JobBoard WITH
            state  <- [j \in Jobs |-> jobs[j].status],
            holder <- [j \in Jobs |-> jobs[j].worker]

ImplementsBoard == Board!Spec

(* What the documentation says and the code does not do.                   *)

\* "POST /agent/claim must include them": a claimed job comes with the
\* provider snapshots taken when it was created.
ClaimCarriesSnapshots == \A a \in Agents : agent[a].pc \in WorkPC => agent[a].snaps

=============================================================================
