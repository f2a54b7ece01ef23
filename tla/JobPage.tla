-------------------------------- MODULE JobPage --------------------------------
(***************************************************************************)
(* The page of one job (pages/JobDetail.tsx) while the agent finishes it:   *)
(* loads of two requests each, begun by an interval and by the sign-in,     *)
(* whose answers come in any order; the end of an agent's run, which posts  *)
(* the providers' statistics and then the outcome; and the two ways to the  *)
(* translated file, the PDF links with the token of the last load and the   *)
(* ZIP button with the sign-in itself.  The files on the agent's disk are   *)
(* left to JobLifecycle: a way is open when the Worker turns to the agent.  *)
(***************************************************************************)
EXTENDS Naturals

CONSTANTS
    MaxLoads,      \* bound: loads of the page under way at once
    MaxRuns,       \* bound: claims of the job
    MaxArrivals,   \* bound: loads begun by the sign-in (authReady, currentUser)
    MaxFaults      \* bound: requests lost or given up, crashes of the agent

ASSUME BoundsAssumption == /\ {MaxRuns, MaxArrivals, MaxFaults} \subseteq Nat
                           /\ MaxLoads \in Nat \ {0}

VARIABLES
    job,       \* the row of jobs, and its snapshots
    late,      \* public_expires_at, or else download_expires_at, has passed
    admin,     \* the owner, signed in, is isRetentionExemptIdentity
    agent,     \* where the agent's run of the job is
    runs,      \* claims so far
    posts,     \* requests of the agent the Worker has not handled
    load,      \* the page's loads, the oldest first
    shown,     \* job() and attempts() of the page
    arrivals,  \* loads begun by the sign-in
    faults,
    strayed    \* history: the agent went on before a post of its was handled

vars == <<job, late, admin, agent, runs, posts, load, shown, arrivals, faults,
          strayed>>
worker == <<job, late, admin>>
agents == <<agent, runs, posts, strayed>>
page   == <<load, shown, arrivals>>

Statuses == {"queued", "running", "completed", "failed"}
Finals   == {"completed", "failed"}
Outcomes == {"succeeded", "failed"}          \* /agent/jobs/:id/<outcome>
Runs     == 0..MaxRuns
Loads    == 1..MaxLoads

\* expiry: download_expires_at, told apart by the run that set it, 0 for NULL.
\* stats: the run whose statistics the snapshots hold, 0 for none.
Job == [status : Statuses, public : BOOLEAN, exempt : BOOLEAN, expiry : Runs,
        stats : Runs, kept : BOOLEAN]

Post  == [kind : {"stats", "outcome"}, run : Runs, outcome : Outcomes]
Agent == [at : {"idle", "working", "flushing", "settling"}, outcome : Outcomes]
Idle  == [at |-> "idle", outcome |-> "failed"]

\* A receipt, or the HMAC of a pdfViewTokenMessage.
Token   == [form : {"receipt", "exempt", "dated"}, date : Runs]
NoToken == [form |-> "receipt", date |-> 0]

Reply == {"idle", "asked", "answered"}

\* split: the attempts were read before the job was.
Load   == [job : Reply, attempts : Reply, status : Statuses, token : Token,
           stats : Runs, split : BOOLEAN]
NoLoad == [job |-> "idle", attempts |-> "idle", status |-> "queued",
           token |-> NoToken, stats |-> 0, split |-> FALSE]
Shown  == [status : Statuses \cup {"none"}, token : Token, stats : Runs,
           split : BOOLEAN]

-----------------------------------------------------------------------------
(* The Worker                                                              *)

\* getPublicJobByReceipt; for an owner, only deletion closes the job.
Reachable == job.kept /\ ~(job.public /\ late)

\* authMiddleware lifts the retention of every job of the exempt user.
Lifted == IF admin THEN [job EXCEPT !.exempt = TRUE, !.expiry = 0]
          ELSE job

\* Mutant: the token is bound to the job alone, whoever it is for.
TokenUndated(j) == IF j.public THEN NoToken ELSE [form |-> "dated", date |-> 0]

\* pdfViewTokenMessage, as GET /jobs/:id signs it; getPdfUrl takes the receipt
\* of a public job instead.  The page has no use for one before the end.
TokenFor(j) ==
    IF j.public \/ j.status # "completed" THEN NoToken
    ELSE IF admin THEN [form |-> "exempt", date |-> 0]
    ELSE [form |-> "dated", date |-> j.expiry]

\* isExpiredAt of download_expires_at.
Expired(exempt) == ~exempt /\ job.expiry # 0 /\ late

Valid(t) == \/ job.public /\ t.form = "receipt"
            \/ ~job.public /\ \/ job.exempt /\ t.form = "exempt"
                              \/ t = [form |-> "dated", date |-> job.expiry]

\* GET /jobs/:id/files/:kind opens the PDF to the bearer of token t.
FileOpens(t) == /\ Reachable /\ Valid(t)
                /\ job.status = "completed"
                /\ ~Expired(job.exempt /\ t.form = "exempt")

\* GET /jobs/:id/download, or /public/jobs/:id/download, answers the button.
ZipOpens == /\ Reachable
            /\ job.status = "completed"
            /\ ~Expired(admin)

-----------------------------------------------------------------------------

Init ==
    /\ job \in [status : {"queued"}, public : BOOLEAN, exempt : BOOLEAN,
                expiry : {0}, stats : {0}, kept : {TRUE}]
    /\ admin \in BOOLEAN /\ (admin => ~job.public)
    /\ job.exempt = admin      \* as POST /jobs inserts it
    /\ late = FALSE
    /\ agent = Idle
    /\ runs = 0 /\ posts = {} /\ strayed = FALSE
    /\ load = [l \in Loads |-> NoLoad]
    /\ shown = [status |-> "none", token |-> NoToken, stats |-> 0, split |-> FALSE]
    /\ arrivals = 0 /\ faults = 0

-----------------------------------------------------------------------------
(* The agent's run (pc-api-python/main.py), one at a time.                 *)

Claim ==
    /\ agent.at = "idle" /\ runs < MaxRuns
    /\ job.status = "queued" /\ Reachable
    /\ job' = [job EXCEPT !.status = "running"]
    /\ runs' = runs + 1
    /\ agent' = [Idle EXCEPT !.at = "working"]
    /\ UNCHANGED <<late, admin, posts, strayed, page, faults>>

StatsPost   == [kind |-> "stats", run |-> runs, outcome |-> "failed"]
OutcomePost(o) == [kind |-> "outcome", run |-> runs, outcome |-> o]

Settle(o) == /\ agent' = [at |-> "settling", outcome |-> o]
             /\ posts' = posts \cup {OutcomePost(o)}

\* The engines are done.  The router's statistics are posted first, if it has
\* any; an exception that leaves the run reports its failure only.
EndEngines(o) ==
    /\ agent.at = "working"
    /\ \/ /\ agent' = [at |-> "flushing", outcome |-> o]
          /\ posts' = posts \cup {StatsPost}
       \/ Settle(o)
    /\ UNCHANGED <<worker, runs, strayed, page, faults>>

\* Mutant: the outcome goes out without a wait for the answer.
FlushedUnawaited ==
    /\ agent.at = "flushing"
    /\ Settle(agent.outcome)
    /\ UNCHANGED <<worker, runs, strayed, page, faults>>

\* The outcome goes out once the post of the statistics is answered.
Flushed ==
    /\ agent.at = "flushing" /\ StatsPost \notin posts
    /\ Settle(agent.outcome)
    /\ UNCHANGED <<worker, runs, strayed, page, faults>>

Settled ==
    /\ agent.at = "settling" /\ OutcomePost(agent.outcome) \notin posts
    /\ agent' = Idle
    /\ UNCHANGED <<worker, runs, posts, strayed, page, faults>>

\* httpx times out on a post that is still to be handled: it is logged, and the
\* run goes on.
GiveUp ==
    /\ faults < MaxFaults /\ faults' = faults + 1
    /\ \/ /\ agent.at = "flushing" /\ StatsPost \in posts
          /\ Settle(agent.outcome)
       \/ /\ agent.at = "settling" /\ OutcomePost(agent.outcome) \in posts
          /\ agent' = Idle
          /\ UNCHANGED posts
    /\ strayed' = TRUE
    /\ UNCHANGED <<worker, runs, page>>

\* A post never reaches the Worker.
LosePost(p) ==
    /\ faults < MaxFaults /\ faults' = faults + 1
    /\ p \in posts /\ posts' = posts \ {p}
    /\ UNCHANGED <<worker, agent, runs, strayed, page>>

Crash ==
    /\ faults < MaxFaults /\ faults' = faults + 1
    /\ agent.at # "idle"
    /\ agent' = Idle
    /\ strayed' = (strayed \/ posts # {})
    /\ UNCHANGED <<worker, runs, posts, page>>

\* A later claim, for which the one agent there is must have ended its run, finds
\* the lease of a running job two hours old.
Requeue ==
    /\ agent.at = "idle" /\ job.status = "running" /\ Reachable
    /\ job' = [job EXCEPT !.status = "queued"]
    /\ UNCHANGED <<late, admin, agents, page, faults>>

\* A claim fails the public jobs that expired unfinished.
Sweep ==
    /\ job.public /\ late /\ job.kept /\ job.status \in {"queued", "running"}
    /\ job' = [job EXCEPT !.status = "failed"]
    /\ UNCHANGED <<late, admin, agents, page, faults>>

-----------------------------------------------------------------------------
(* What the Worker does with a post.                                       *)

\* POST /agent/jobs/:id/provider_stats overwrites the snapshots' columns.
ProviderStats(p) ==
    /\ p \in posts /\ p.kind = "stats"
    /\ job' = IF job.kept THEN [job EXCEPT !.stats = p.run] ELSE job
    /\ posts' = posts \ {p}
    /\ UNCHANGED <<late, admin, agent, runs, strayed, page, faults>>

\* Mutant: the status is what the agent calls it.
OutcomeAsSent(p) ==
    /\ p \in posts /\ p.kind = "outcome"
    /\ posts' = posts \ {p}
    /\ job' = IF job.status # "running" THEN job
              ELSE [job EXCEPT !.status = p.outcome,
                               !.expiry = IF job.exempt THEN 0 ELSE p.run]
    /\ UNCHANGED <<late, admin, agent, runs, strayed, page, faults>>

\* POST /agent/jobs/:id/succeeded and /failed, WHERE status = 'running'.
Outcome(p) ==
    /\ p \in posts /\ p.kind = "outcome"
    /\ posts' = posts \ {p}
    /\ job' = IF job.status # "running" THEN job
              ELSE IF p.outcome = "failed" THEN [job EXCEPT !.status = "failed"]
              ELSE [job EXCEPT !.status = "completed",
                               !.expiry = IF job.exempt THEN 0 ELSE p.run]
    /\ UNCHANGED <<late, admin, agent, runs, strayed, page, faults>>

-----------------------------------------------------------------------------
(* Time, the owner's other windows and the owner's identity.               *)

TimePasses ==
    /\ ~late /\ (job.public \/ job.expiry # 0)
    /\ late' = TRUE
    /\ UNCHANGED <<job, admin, agents, page, faults>>

\* The user comes to hold the exempt address, verified.
Verify ==
    /\ ~admin /\ ~job.public
    /\ admin' = TRUE
    /\ UNCHANGED <<job, late, agents, page, faults>>

\* A request of the user in another window: GET /jobs, /limits, the ZIP button.
Visit ==
    /\ job # Lifted
    /\ job' = Lifted
    /\ UNCHANGED <<late, admin, agents, page, faults>>

\* DELETE /jobs/:id.
Delete ==
    /\ Reachable
    /\ job' = [Lifted EXCEPT !.kept = FALSE]
    /\ UNCHANGED <<late, admin, agents, page, faults>>

-----------------------------------------------------------------------------
(* JobDetail.tsx: fetchJob is Promise.all([getJob, getJobAttempts]).       *)

Free == {l \in Loads : load[l] = NoLoad}

Begin == /\ Free # {}
         /\ load' = [load EXCEPT ![CHOOSE l \in Free : \A k \in Free : l <= k] =
                        [NoLoad EXCEPT !.job = "asked", !.attempts = "asked"]]

\* The loads under way without l.
Without(l) == [k \in Loads |-> IF k < l THEN load[k]
                               ELSE IF k < MaxLoads THEN load[k + 1] ELSE NoLoad]

\* createEffect: authReady or currentUser changes.
Arrive ==
    /\ arrivals < MaxArrivals /\ arrivals' = arrivals + 1
    /\ Begin
    /\ UNCHANGED <<worker, agents, shown, faults>>

\* Mutant: only a running job is polled.
TickRunning ==
    /\ shown.status = "running"
    /\ Begin
    /\ UNCHANGED <<worker, agents, shown, arrivals, faults>>

\* The interval of five seconds.
Tick ==
    /\ shown.status \in {"queued", "running"}
    /\ Begin
    /\ UNCHANGED <<worker, agents, shown, arrivals, faults>>

\* GET /jobs/:id, or /public/jobs/:id with the receipt.
GetJob(l) ==
    /\ load[l].job = "asked"
    /\ job' = Lifted
    /\ load' = IF Reachable
               THEN [load EXCEPT ![l].job = "answered", ![l].status = job.status,
                                 ![l].token = TokenFor(Lifted)]
               ELSE Without(l)
    /\ UNCHANGED <<late, admin, agents, shown, arrivals, faults>>

\* GET /jobs/:id/attempts reads the snapshots.
GetAttempts(l) ==
    /\ load[l].attempts = "asked"
    /\ job' = Lifted
    /\ load' = IF Reachable
               THEN [load EXCEPT ![l].attempts = "answered", ![l].stats = job.stats,
                                 ![l].split = (load[l].job = "asked")]
               ELSE Without(l)
    /\ UNCHANGED <<late, admin, agents, shown, arrivals, faults>>

\* "Cannot connect to API", or a 500: the whole load is given up, as it is when
\* a request is refused, and setError tells so.  What is shown stays.
LoadFails(l) ==
    /\ faults < MaxFaults /\ faults' = faults + 1
    /\ "asked" \in {load[l].job, load[l].attempts}
    /\ load' = Without(l)
    /\ UNCHANGED <<worker, agents, shown, arrivals>>

\* Both answers are there: setJob, setAttempts.
Receive(l) ==
    /\ load[l].job = "answered" /\ load[l].attempts = "answered"
    /\ shown' = [status |-> load[l].status, token |-> load[l].token,
                 stats |-> load[l].stats, split |-> load[l].split]
    /\ load' = Without(l)
    /\ UNCHANGED <<worker, agents, arrivals, faults>>

-----------------------------------------------------------------------------

Work == \/ Claim \/ Flushed \/ Settled \/ GiveUp \/ Crash
        \/ \E o \in Outcomes : EndEngines(o)
        \/ \E p \in posts : LosePost(p)

Serve == \/ Requeue \/ Sweep \/ TimePasses \/ Verify \/ Visit
         \/ Delete
         \/ \E p \in posts : ProviderStats(p) \/ Outcome(p)

Fetch(l) == GetJob(l) \/ GetAttempts(l) \/ LoadFails(l) \/ Receive(l)

Next == Work \/ Serve \/ Arrive \/ Tick \/ \E l \in Loads : Fetch(l)

Spec == Init /\ [][Next]_vars

\* The interval runs while the page is open, and a request is answered or fails.
FairSpec == /\ Spec /\ WF_vars(Tick)
            /\ WF_vars(GetJob(1)) /\ WF_vars(GetAttempts(1)) /\ WF_vars(Receive(1))

-----------------------------------------------------------------------------

\* The state stays within its types.
TypeOK ==
    /\ job \in Job /\ late \in BOOLEAN /\ admin \in BOOLEAN
    /\ agent \in Agent /\ runs \in Runs
    /\ posts \subseteq Post /\ strayed \in BOOLEAN
    /\ load \in [Loads -> Load] /\ shown \in Shown
    /\ arrivals \in 0..MaxArrivals /\ faults \in 0..MaxFaults

\* The links of a finished job and its ZIP button open the same job at the same
\* times, up to expiry and deletion: the token of the load the page shows, made
\* before, is still what files/:kind computes.  Not if the user has become
\* exempt since that load.
LinksAgreeWithZip ==
    (shown.status = "completed" /\ (admin => shown.token.form # "dated"))
        => (FileOpens(shown.token) <=> ZipOpens)

\* A page that shows a finished job shows the statistics the snapshots hold: the
\* agent posts them first and waits, and nothing of them comes after the end.
\* Two excuses: the load asked for the attempts and was answered before the job
\* was read, or the agent gave up on a post that was handled later.
StatsComeWithTheEnd ==
    (shown.status \in Finals /\ ~shown.split /\ ~strayed)
        => shown.stats = job.stats

\* Answers of overlapping loads may come in the wrong order and show a finished
\* job as running again; the page still ends on the job's last status, unless
\* the job expires or is deleted first.
PageCatchesUp ==
    \A s \in Finals :
        (shown.status # "none" /\ job.status = s) ~> (shown.status = s \/ ~Reachable)

=============================================================================
