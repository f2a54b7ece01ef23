----------------------------- MODULE JobPageProofs -----------------------------
(* Proofs about JobPage, for any number of loads, runs, arrivals and faults.      *)
EXTENDS JobPage, TLAPS

\* The row of the job, the agent and its posts.
WorkType ==
    /\ job \in Job /\ late \in BOOLEAN /\ admin \in BOOLEAN
    /\ agent \in Agent /\ runs \in Runs
    /\ posts \subseteq Post /\ strayed \in BOOLEAN

\* What the page knows of it.
PageType ==
    /\ load \in [Loads -> Load] /\ shown \in Shown /\ arrivals \in 0..MaxArrivals

LEMMA TypeParts == TypeOK <=> WorkType /\ PageType /\ faults \in 0..MaxFaults
  BY DEF TypeOK, WorkType, PageType

LEMMA InitType == Init => TypeOK
<1> SUFFICES ASSUME Init PROVE TypeOK
  OBVIOUS
<1> USE BoundsAssumption
<1>1. 0 \in Runs /\ 0 \in 0..MaxArrivals /\ 0 \in 0..MaxFaults
  BY DEF Runs
<1>2. job \in Job /\ admin \in BOOLEAN
  BY <1>1 DEF Init, Job, Statuses
<1>3. NoToken \in Token /\ NoLoad \in Load /\ Idle \in Agent
  BY <1>1 DEF NoToken, Token, NoLoad, Load, Reply, Statuses, Idle, Agent, Outcomes
<1>4. shown \in Shown
  BY <1>1, <1>3 DEF Init, Shown
<1> QED
  BY <1>1, <1>2, <1>3, <1>4 DEF Init, TypeOK

LEMMA PostTypes ==
    ASSUME TypeOK, NEW o \in Outcomes
    PROVE  /\ StatsPost \in Post /\ OutcomePost(o) \in Post
           /\ Idle \in Agent
           /\ \A at \in {"working", "flushing", "settling"} :
                 [at |-> at, outcome |-> o] \in Agent
  BY DEF TypeOK, StatsPost, OutcomePost, Post, Outcomes, Idle, Agent

LEMMA WorkKept ==
    ASSUME TypeOK, Work
    PROVE  WorkType' /\ UNCHANGED <<page, late, admin>> /\ faults' \in 0..MaxFaults
<1> USE BoundsAssumption
<1>1. /\ job \in Job /\ late \in BOOLEAN /\ admin \in BOOLEAN
      /\ agent \in Agent /\ runs \in Runs
      /\ posts \subseteq Post /\ strayed \in BOOLEAN /\ faults \in 0..MaxFaults
  BY DEF TypeOK
<1>2. Idle \in Agent /\ agent.outcome \in Outcomes /\ "failed" \in Outcomes
  BY <1>1 DEF Idle, Agent, Outcomes
<1>3. faults < MaxFaults => faults + 1 \in 0..MaxFaults
  BY <1>1
<1>4. ASSUME NEW o \in Outcomes, Settle(o) PROVE agent' \in Agent /\ posts' \subseteq Post
  BY <1>1, <1>4, PostTypes DEF Settle
<1>5. CASE Claim
  <2>1. [job EXCEPT !.status = "running"] \in Job
    BY <1>1 DEF Job, Statuses
  <2>2. [Idle EXCEPT !.at = "working"] \in Agent
    BY DEF Idle, Agent, Outcomes
  <2>3. runs' \in Runs
    BY <1>1, <1>5 DEF Claim, Runs
  <2> QED
    BY <1>1, <1>5, <2>1, <2>2, <2>3 DEF Claim, WorkType, page
<1>6. ASSUME NEW o \in Outcomes, EndEngines(o)
      PROVE  WorkType' /\ UNCHANGED <<page, late, admin>> /\ faults' \in 0..MaxFaults
  <2>1. agent' \in Agent /\ posts' \subseteq Post
    BY <1>1, <1>4, <1>6, PostTypes DEF EndEngines
  <2> QED
    BY <1>1, <1>6, <2>1 DEF EndEngines, worker, WorkType
<1>7. CASE Flushed
  BY <1>1, <1>2, <1>4, <1>7 DEF Flushed, worker, WorkType
<1>8. CASE Settled \/ Crash
  BY <1>1, <1>2, <1>3, <1>8 DEF Settled, Crash, worker, WorkType
<1>9. CASE GiveUp
  <2>1. agent' \in Agent /\ posts' \subseteq Post
    BY <1>1, <1>2, <1>4, <1>9 DEF GiveUp
  <2> QED
    BY <1>1, <1>3, <1>9, <2>1 DEF GiveUp, worker, WorkType
<1>10. ASSUME NEW p \in posts, LosePost(p)
       PROVE  WorkType' /\ UNCHANGED <<page, late, admin>> /\ faults' \in 0..MaxFaults
  BY <1>1, <1>3, <1>10 DEF LosePost, worker, WorkType
<1> QED
  BY <1>5, <1>6, <1>7, <1>8, <1>9, <1>10 DEF Work

LEMMA LiftedType ==
    ASSUME TypeOK
    PROVE  Lifted \in Job /\ TokenFor(Lifted) \in Token /\ [Lifted EXCEPT !.kept = FALSE] \in Job
<1>1. 0 \in Runs
  BY BoundsAssumption DEF Runs
<1>2. Lifted \in Job
  BY <1>1 DEF TypeOK, Lifted, Job
<1>3. NoToken \in Token /\ [form |-> "exempt", date |-> 0] \in Token
  BY <1>1 DEF NoToken, Token
<1>4. [form |-> "dated", date |-> Lifted.expiry] \in Token
  BY <1>2 DEF Token, Job
<1>5. [Lifted EXCEPT !.kept = FALSE] \in Job
  BY <1>2 DEF Job
<1> QED
  BY <1>2, <1>3, <1>4, <1>5 DEF TokenFor

LEMMA ServeKept ==
    ASSUME TypeOK, Serve
    PROVE  WorkType' /\ UNCHANGED page /\ faults' = faults
<1> USE BoundsAssumption
<1>1. /\ job \in Job /\ late \in BOOLEAN /\ admin \in BOOLEAN
      /\ agent \in Agent /\ runs \in Runs
      /\ posts \subseteq Post /\ strayed \in BOOLEAN
  BY DEF TypeOK
<1>2. \A s \in Statuses : [job EXCEPT !.status = s] \in Job
  BY <1>1 DEF Job
<1>3. CASE Requeue \/ Sweep
  BY <1>1, <1>2, <1>3 DEF Requeue, Sweep, agents, WorkType, Statuses
<1>4. CASE TimePasses \/ Verify
  BY <1>1, <1>4 DEF TimePasses, Verify, agents, WorkType
<1>5. CASE Visit \/ Delete
  BY <1>1, <1>5, LiftedType DEF Visit, Delete, agents, WorkType
<1>6. ASSUME NEW p \in posts, ProviderStats(p)
      PROVE  WorkType' /\ UNCHANGED page /\ faults' = faults
  <2>1. [job EXCEPT !.stats = p.run] \in Job
    BY <1>1 DEF Job, Post
  <2> QED
    BY <1>1, <1>6, <2>1 DEF ProviderStats, WorkType
<1>7. ASSUME NEW p \in posts, Outcome(p)
      PROVE  WorkType' /\ UNCHANGED page /\ faults' = faults
  <2>1. (IF job.exempt THEN 0 ELSE p.run) \in Runs
    BY <1>1 DEF Runs, Post
  <2>2. \A d \in Runs : [job EXCEPT !.status = "completed", !.expiry = d] \in Job
    BY <1>1 DEF Job, Statuses
  <2>3. [job EXCEPT !.status = "failed"] \in Job
    BY <1>2 DEF Statuses
  <2>4. job' \in Job
    BY <1>1, <1>7, <2>1, <2>2, <2>3 DEF Outcome
  <2> QED
    BY <1>1, <1>7, <2>4 DEF Outcome, WorkType
<1> QED
  BY <1>3, <1>4, <1>5, <1>6, <1>7 DEF Serve

LEMMA NoLoadType == NoLoad \in Load /\ NoToken \in Token
<1>1. 0 \in Runs
  BY BoundsAssumption DEF Runs
<1> QED
  BY <1>1 DEF NoLoad, NoToken, Token, Load, Reply, Statuses

\* The loads that are left are of those there were.
LEMMA WithoutType ==
    ASSUME TypeOK, NEW l \in Loads
    PROVE  /\ Without(l) \in [Loads -> Load]
           /\ \A k \in Loads : Without(l)[k] = NoLoad \/ \E j \in Loads : Without(l)[k] = load[j]
<1> USE BoundsAssumption
<1>1. ASSUME NEW k \in Loads
      PROVE  \/ Without(l)[k] = NoLoad
             \/ \E j \in Loads : Without(l)[k] = load[j]
  <2>1. CASE k < l
    BY <2>1 DEF Without
  <2>2. CASE ~(k < l) /\ k < MaxLoads
    <3>1. k + 1 \in Loads /\ Without(l)[k] = load[k + 1]
      BY <2>2 DEF Without, Loads
    <3> QED
      BY <3>1
  <2>3. CASE ~(k < l) /\ ~(k < MaxLoads)
    BY <2>3 DEF Without
  <2> QED
    BY <2>1, <2>2, <2>3
<1>2. \A k \in Loads : Without(l)[k] \in Load
  BY <1>1, NoLoadType DEF TypeOK
<1>3. Without(l) = [k \in Loads |-> Without(l)[k]]
  BY DEF Without
<1> QED
  BY <1>1, <1>2, <1>3

\* A load begins as one of which nothing is known.
LEMMA BeginType ==
    ASSUME TypeOK, Begin
    PROVE  /\ load' \in [Loads -> Load]
           /\ \A k \in Loads :
                 \/ load'[k] = load[k]
                 \/ load'[k].status = "queued" /\ load'[k].attempts = "asked"
<1> DEFINE new == [NoLoad EXCEPT !.job = "asked", !.attempts = "asked"]
           l   == CHOOSE l \in Free : \A k \in Free : l <= k
<1>1. new \in Load /\ new.status = "queued" /\ new.attempts = "asked"
  BY NoLoadType DEF NoLoad, Load, Reply
<1>2. load' = [load EXCEPT ![l] = new]
  BY DEF Begin
<1> HIDE DEF l, new
<1> QED
  BY <1>1, <1>2 DEF TypeOK

\* The answers a load has after the step of one of its requests.
LEMMA FetchType ==
    ASSUME TypeOK, NEW l \in Loads, Fetch(l)
    PROVE  /\ WorkType' /\ PageType' /\ faults' \in 0..MaxFaults
<1> USE BoundsAssumption
<1>1. /\ job \in Job /\ late \in BOOLEAN /\ admin \in BOOLEAN
      /\ agent \in Agent /\ runs \in Runs
      /\ posts \subseteq Post /\ strayed \in BOOLEAN
      /\ load \in [Loads -> Load] /\ shown \in Shown /\ arrivals \in 0..MaxArrivals
      /\ faults \in 0..MaxFaults
  BY DEF TypeOK
<1>2. Without(l) \in [Loads -> Load]
  BY WithoutType
<1>3. CASE GetJob(l)
  <2>1. [load[l] EXCEPT !.job = "answered", !.status = job.status,
                        !.token = TokenFor(Lifted)] \in Load
    BY <1>1, LiftedType DEF Load, Reply, Job
  <2>2. [load EXCEPT ![l].job = "answered", ![l].status = job.status,
                     ![l].token = TokenFor(Lifted)] \in [Loads -> Load]
    BY <1>1, <2>1
  <2> QED
    BY <1>1, <1>2, <1>3, <2>2, LiftedType DEF GetJob, agents, WorkType, PageType
<1>4. CASE GetAttempts(l)
  <2>1. [load[l] EXCEPT !.attempts = "answered", !.stats = job.stats,
                        !.split = (load[l].job = "asked")] \in Load
    BY <1>1 DEF Load, Reply, Job
  <2>2. [load EXCEPT ![l].attempts = "answered", ![l].stats = job.stats,
                     ![l].split = (load[l].job = "asked")] \in [Loads -> Load]
    BY <1>1, <2>1
  <2> QED
    BY <1>1, <1>2, <1>4, <2>2, LiftedType DEF GetAttempts, agents, WorkType, PageType
<1>5. CASE LoadFails(l)
  BY <1>1, <1>2, <1>5 DEF LoadFails, worker, agents, WorkType, PageType
<1>6. CASE Receive(l)
  <2>1. [status |-> load[l].status, token |-> load[l].token,
         stats |-> load[l].stats, split |-> load[l].split] \in Shown
    BY <1>1 DEF Load, Shown
  <2> QED
    BY <1>1, <1>2, <1>6, <2>1 DEF Receive, worker, agents, WorkType, PageType
<1> QED
  BY <1>3, <1>4, <1>5, <1>6 DEF Fetch

LEMMA TypeKept == TypeOK /\ [Next]_vars => TypeOK'
<1> SUFFICES ASSUME TypeOK, [Next]_vars PROVE TypeOK'
  OBVIOUS
<1> USE BoundsAssumption
<1>1. CASE Work
  <2>1. PageType'
    BY <1>1, WorkKept, TypeParts DEF page, PageType
  <2> QED
    BY <1>1, <2>1, WorkKept DEF TypeOK, WorkType, PageType
<1>2. CASE Serve
  <2>1. PageType'
    BY <1>2, ServeKept, TypeParts DEF page, PageType
  <2> QED
    BY <1>2, <2>1, ServeKept DEF TypeOK, WorkType, PageType
<1>3. CASE Arrive \/ Tick
  <2>1. arrivals' \in 0..MaxArrivals
    BY <1>3 DEF Arrive, Tick, TypeOK
  <2> QED
    BY <1>3, <2>1, BeginType DEF Arrive, Tick, worker, agents, TypeOK
<1>4. ASSUME NEW l \in Loads, Fetch(l) PROVE TypeOK'
  BY <1>4, FetchType DEF TypeOK, WorkType, PageType
<1>5. CASE UNCHANGED vars
  BY <1>5 DEF vars, TypeOK
<1> QED
  BY <1>1, <1>2, <1>3, <1>4, <1>5 DEF Next

\* However many loads overlap, and whatever the agent, the Worker and the owner
\* do meanwhile, the job, the posts and the page stay within their types.
THEOREM PageTypeCorrect == Spec => []TypeOK
  BY InitType, TypeKept, PTL DEF Spec

-----------------------------------------------------------------------------

\* What a load x, or the page, that has seen job j completed knows of it: a dated
\* token is of the job's expiry, unless the user has become exempt since.
Sound(x, j, exempt) ==
    x.status = "completed" =>
        /\ j.status = "completed"
        /\ j.public => x.token.form = "receipt"
        /\ ~j.public => \/ x.token.form = "exempt" /\ exempt /\ j.exempt
                        \/ x.token.form = "dated" /\ (exempt \/ x.token.date = j.expiry)

\* Only the exempt user has exempt jobs, and no public ones.
OwnerOK == (admin => ~job.public) /\ (job.exempt => admin)

LinksInv ==
    /\ OwnerOK
    /\ Sound(shown, job, admin)
    /\ \A l \in Loads : Sound(load[l], job, admin)

\* What a step may do to a job: once completed, it is, and with its expiry,
\* unless it is the exempt user's.
JobStays ==
    /\ job'.public = job.public /\ (admin => admin')
    /\ job.exempt => job'.exempt
    /\ job.status = "completed" =>
          job'.status = "completed" /\ (job'.expiry = job.expiry \/ admin')

LEMMA SoundStays ==
    ASSUME JobStays, NEW x, Sound(x, job, admin)
    PROVE  Sound(x, job', admin')
  BY DEF JobStays, Sound

LEMMA LiftedStays ==
    ASSUME TypeOK, OwnerOK, job' = Lifted \/ job' = [Lifted EXCEPT !.kept = FALSE],
           admin' = admin
    PROVE  JobStays /\ OwnerOK'
<1>1. job \in Job
  BY DEF TypeOK
<1> QED
  BY <1>1 DEF OwnerOK, JobStays, Lifted, Job

LEMMA WorkStays ==
    ASSUME TypeOK, OwnerOK, Work
    PROVE  JobStays /\ OwnerOK'
<1>1. job \in Job /\ admin' = admin
  BY WorkKept DEF TypeOK
<1>2. job' = job \/ (job.status = "queued" /\ job' = [job EXCEPT !.status = "running"])
  BY DEF Work, Claim, EndEngines, Flushed, Settled, GiveUp, Crash, LosePost, worker
<1> QED
  BY <1>1, <1>2 DEF OwnerOK, JobStays, Job

LEMMA ServeStays ==
    ASSUME TypeOK, OwnerOK, Serve
    PROVE  JobStays /\ OwnerOK'
<1>1. job \in Job /\ admin \in BOOLEAN
  BY DEF TypeOK
<1>2. CASE Requeue \/ Sweep
  BY <1>1, <1>2 DEF Requeue, Sweep, OwnerOK, JobStays, Job
<1>3. CASE TimePasses \/ Verify
  BY <1>1, <1>3 DEF TimePasses, Verify, OwnerOK, JobStays
<1>4. CASE Visit \/ Delete
  BY <1>4, LiftedStays DEF Visit, Delete
<1>5. ASSUME NEW p \in posts, ProviderStats(p) PROVE JobStays /\ OwnerOK'
  BY <1>1, <1>5 DEF ProviderStats, OwnerOK, JobStays, Job
<1>6. ASSUME NEW p \in posts, Outcome(p) PROVE JobStays /\ OwnerOK'
  BY <1>1, <1>6 DEF Outcome, OwnerOK, JobStays, Job
<1> QED
  BY <1>2, <1>3, <1>4, <1>5, <1>6 DEF Serve

LEMMA FetchStays ==
    ASSUME TypeOK, OwnerOK, NEW l \in Loads, Fetch(l)
    PROVE  JobStays /\ OwnerOK'
<1>1. admin' = admin /\ (job' = job \/ job' = Lifted)
  BY DEF Fetch, GetJob, GetAttempts, LoadFails, Receive, worker
<1>2. CASE job' = job
  BY <1>1, <1>2 DEF OwnerOK, JobStays
<1>3. CASE job' = Lifted
  BY <1>1, <1>3, LiftedStays
<1> QED
  BY <1>1, <1>2, <1>3

\* GET /jobs/:id lifts the retention and signs the token in one request.
LEMMA TokenIsSound ==
    ASSUME TypeOK, OwnerOK, NEW x, x.status = job.status, x.token = TokenFor(Lifted)
    PROVE  Sound(x, Lifted, admin)
<1>1. job \in Job
  BY DEF TypeOK
<1>2. Lifted.status = job.status /\ Lifted.public = job.public /\ (admin => Lifted.exempt)
  BY <1>1 DEF Lifted, Job
<1>3. CASE job.public
  BY <1>2, <1>3 DEF Sound, TokenFor, NoToken
<1>4. CASE ~job.public /\ admin
  BY <1>2, <1>4 DEF Sound, TokenFor
<1>5. CASE ~job.public /\ ~admin
  BY <1>2, <1>5 DEF Sound, TokenFor
<1> QED
  BY <1>3, <1>4, <1>5

LEMMA NoLoadSound == \A j, a : Sound(NoLoad, j, a)
  BY DEF Sound, NoLoad

\* The loads stay sound when one is taken from them.
LEMMA WithoutSound ==
    ASSUME TypeOK, LinksInv, JobStays, NEW l \in Loads, load' = Without(l)
    PROVE  \A k \in Loads : Sound(load'[k], job', admin')
<1>1. \A k \in Loads : load'[k] = NoLoad \/ \E j \in Loads : load'[k] = load[j]
  BY WithoutType
<1>2. \A j \in Loads : Sound(load[j], job', admin')
  BY SoundStays DEF LinksInv
<1> QED
  BY <1>1, <1>2, NoLoadSound

LEMMA FetchSound ==
    ASSUME TypeOK, LinksInv, NEW l \in Loads, Fetch(l)
    PROVE  LinksInv'
<1>1. JobStays /\ OwnerOK'
  BY FetchStays DEF LinksInv
<1>2. /\ Sound(shown, job', admin')
      /\ \A k \in Loads : Sound(load[k], job', admin')
  BY <1>1, SoundStays DEF LinksInv
<1>3. CASE load' = Without(l) /\ shown' = shown
  BY <1>1, <1>2, <1>3, WithoutSound DEF LinksInv
<1>4. CASE GetJob(l) /\ load' # Without(l)
  <2>1. /\ load' = [load EXCEPT ![l].job = "answered", ![l].status = job.status,
                                ![l].token = TokenFor(Lifted)]
        /\ job' = Lifted /\ UNCHANGED <<admin, shown>>
    BY <1>4 DEF GetJob
  <2>2. /\ load'[l].status = job.status /\ load'[l].token = TokenFor(Lifted)
        /\ \A k \in Loads \ {l} : load'[k] = load[k]
    BY <2>1 DEF TypeOK, Load
  <2>3. Sound(load'[l], job', admin')
    BY <2>1, <2>2, TokenIsSound DEF LinksInv
  <2> QED
    BY <1>1, <1>2, <2>1, <2>2, <2>3 DEF LinksInv
<1>5. CASE GetAttempts(l) /\ load' # Without(l)
  <2>1. /\ load' = [load EXCEPT ![l].attempts = "answered", ![l].stats = job.stats,
                                ![l].split = (load[l].job = "asked")]
        /\ UNCHANGED <<admin, shown>>
    BY <1>5 DEF GetAttempts
  <2>2. /\ load'[l].status = load[l].status /\ load'[l].token = load[l].token
        /\ \A k \in Loads \ {l} : load'[k] = load[k]
    BY <2>1 DEF TypeOK, Load
  <2>3. Sound(load'[l], job', admin')
    BY <1>2, <2>2 DEF Sound
  <2> QED
    BY <1>1, <1>2, <2>1, <2>2, <2>3 DEF LinksInv
<1>6. CASE Receive(l)
  <2>1. shown'.status = load[l].status /\ shown'.token = load[l].token
        /\ load' = Without(l)
    BY <1>6 DEF Receive
  <2>2. Sound(shown', job', admin')
    BY <1>2, <2>1 DEF Sound
  <2> QED
    BY <1>1, <2>1, <2>2, WithoutSound DEF LinksInv
<1> QED
  BY <1>3, <1>4, <1>5, <1>6 DEF Fetch, GetJob, GetAttempts, LoadFails

LEMMA LinksKept == TypeOK /\ LinksInv /\ [Next]_vars => LinksInv'
<1> SUFFICES ASSUME TypeOK, LinksInv, [Next]_vars PROVE LinksInv'
  OBVIOUS
<1>1. CASE (Work \/ Serve) /\ JobStays /\ OwnerOK'
  <2>1. UNCHANGED <<load, shown>>
    BY <1>1, WorkKept, ServeKept DEF page
  <2> QED
    BY <1>1, <2>1, SoundStays DEF LinksInv
<1>2. CASE Work \/ Serve
  BY <1>1, <1>2, WorkStays, ServeStays DEF LinksInv
<1>3. CASE Arrive \/ Tick
  <2>1. UNCHANGED <<job, admin, shown>> /\ Begin
    BY <1>3 DEF Arrive, Tick, worker
  <2>2. \A k \in Loads : Sound(load'[k], job, admin)
    BY <2>1, BeginType DEF LinksInv, Sound
  <2> QED
    BY <2>1, <2>2 DEF LinksInv, OwnerOK
<1>4. ASSUME NEW l \in Loads, Fetch(l) PROVE LinksInv'
  BY <1>4, FetchSound
<1>5. CASE UNCHANGED vars
  BY <1>5 DEF vars, LinksInv, OwnerOK
<1> QED
  BY <1>2, <1>3, <1>4, <1>5 DEF Next

\* What is sound opens what the ZIP button opens.
LEMMA SoundAgrees == TypeOK /\ LinksInv => LinksAgreeWithZip
<1> SUFFICES ASSUME TypeOK, LinksInv, shown.status = "completed",
                    admin => shown.token.form # "dated"
             PROVE  FileOpens(shown.token) <=> ZipOpens
  BY DEF LinksAgreeWithZip
<1>1. /\ job.status = "completed" /\ (admin => ~job.public) /\ (job.exempt => admin)
      /\ job.public => shown.token.form = "receipt"
      /\ ~job.public => \/ shown.token.form = "exempt" /\ admin /\ job.exempt
                        \/ shown.token.form = "dated"
                           /\ (admin \/ shown.token.date = job.expiry)
  BY DEF LinksInv, OwnerOK, Sound
<1>2. shown.token \in Token
  BY DEF TypeOK, Shown
<1>3. Valid(shown.token)
  <2>1. CASE job.public \/ admin
    BY <1>1, <2>1 DEF Valid
  <2>2. CASE ~job.public /\ ~admin
    <3>1. shown.token.form = "dated" /\ shown.token.date = job.expiry
      BY <1>1, <2>2
    <3>2. shown.token = [form |-> "dated", date |-> job.expiry]
      BY <1>2, <3>1 DEF Token
    <3> QED
      BY <2>2, <3>2 DEF Valid
  <2> QED
    BY <2>1, <2>2
<1>4. (job.exempt /\ shown.token.form = "exempt") <=> admin
  BY <1>1
<1> QED
  BY <1>3, <1>4 DEF FileOpens, ZipOpens, Expired

LEMMA LinksHold == Spec => [](TypeOK /\ LinksInv)
<1>1. Init => LinksInv
  BY DEF Init, LinksInv, OwnerOK, Sound, NoLoad
<1> QED
  BY <1>1, InitType, TypeKept, LinksKept, PTL DEF Spec

\* However the loads of the page overlap and whenever the job ends, expires, is
\* deleted or becomes exempt: the links of a finished job, made of the token of
\* the last load, open the file exactly when the ZIP button does, but for an owner
\* who has become exempt since that load.
THEOREM LinksAgreeWithZipHolds == Spec => []LinksAgreeWithZip
  BY LinksHold, SoundAgrees, PTL

-----------------------------------------------------------------------------

\* The job is done with, and no statistics of it are to come.
Quiet == /\ job.status \in Finals
         /\ agent.at \in {"idle", "settling"}
         /\ \A p \in posts : p.kind # "stats"

\* The posts are those of the agent's run, and of where it is.
PostsInv ==
    /\ \A p \in posts : \/ agent.at = "flushing" /\ p = StatsPost
                        \/ agent.at = "settling" /\ p = OutcomePost(agent.outcome)
    /\ job.status \in Finals /\ Reachable => Quiet

\* What is known of the statistics a load has read, of a job that is done with or
\* not: they are the job's, if the job was read first and done with.
Read(x, quiet, stats) ==
    /\ x.attempts = "answered" /\ ~x.split => x.job # "asked"
    /\ x.status \in Finals => quiet
    /\ (x.status \in Finals /\ x.attempts = "answered" /\ ~x.split) => x.stats = stats

StatsInv ==
    ~strayed => /\ PostsInv
                /\ \A l \in Loads : Read(load[l], Quiet, job.stats)
                /\ shown.status \in Finals => Quiet
                /\ shown.status \in Finals /\ ~shown.split => shown.stats = job.stats

\* What is known of the posts stays true of them, and a job that is done with is.
PostsStay == /\ strayed => strayed'
             /\ ~strayed' /\ PostsInv =>
                   /\ PostsInv'
                   /\ Quiet => Quiet' /\ job'.stats = job.stats

LEMMA WorkQuiet == ASSUME TypeOK, Work PROVE PostsStay
<1> USE DEF PostsStay, PostsInv, Quiet, Reachable, Finals
<1>1. job \in Job /\ agent \in Agent /\ posts \subseteq Post /\ strayed \in BOOLEAN
  BY DEF TypeOK
<1>2. /\ StatsPost.kind = "stats" /\ \A o : OutcomePost(o).kind = "outcome"
      /\ runs' = runs => UNCHANGED StatsPost /\ \A o : UNCHANGED OutcomePost(o)
  BY DEF StatsPost, OutcomePost
<1>3. CASE Claim
  <2>1. PostsInv => posts' = {}
    BY <1>3 DEF Claim, Idle
  <2>2. job'.status = "running"
    BY <1>1, <1>3 DEF Claim, Job
  <2>3. strayed' = strayed /\ job.status \notin Finals
    BY <1>3 DEF Claim
  <2> QED
    BY <2>1, <2>2, <2>3
<1>4. ASSUME NEW o \in Outcomes, EndEngines(o) PROVE PostsStay
  <2>1. PostsInv => posts = {}
    BY <1>4 DEF EndEngines
  <2>2. UNCHANGED <<worker, runs, strayed>> /\ agent.at = "working"
    BY <1>4 DEF EndEngines
  <2>3. \/ agent'.at = "flushing" /\ posts' = posts \cup {StatsPost}
        \/ /\ agent'.at = "settling" /\ agent'.outcome = o
           /\ posts' = posts \cup {OutcomePost(o)}
    BY <1>4 DEF EndEngines, Settle
  <2>4. PostsInv => job.status \notin Finals \/ ~Reachable
    BY <2>2
  <2> QED
    BY <1>2, <2>1, <2>2, <2>3, <2>4 DEF worker
<1>5. CASE Flushed
  <2>1. PostsInv => posts = {}
    BY <1>5 DEF Flushed
  <2>2. /\ UNCHANGED <<worker, runs, strayed>> /\ agent.at = "flushing"
        /\ agent'.at = "settling" /\ agent'.outcome = agent.outcome
        /\ posts' = posts \cup {OutcomePost(agent.outcome)}
    BY <1>5 DEF Flushed, Settle
  <2>3. PostsInv => job.status \notin Finals \/ ~Reachable
    BY <2>2
  <2> QED
    BY <1>2, <2>1, <2>2, <2>3 DEF worker
<1>6. CASE Settled
  <2>1. PostsInv => posts = {}
    BY <1>6 DEF Settled
  <2>2. UNCHANGED <<worker, posts, strayed>> /\ agent'.at = "idle"
    BY <1>6 DEF Settled, Idle
  <2> QED
    BY <2>1, <2>2 DEF worker
<1>7. CASE GiveUp
  BY <1>7 DEF GiveUp
<1>8. CASE Crash
  <2>1. ~strayed' => posts = {} /\ ~strayed
    BY <1>8 DEF Crash
  <2>2. UNCHANGED <<worker, posts>> /\ agent'.at = "idle" /\ (strayed => strayed')
    BY <1>8 DEF Crash, Idle
  <2> QED
    BY <2>1, <2>2 DEF worker
<1>9. ASSUME NEW p \in posts, LosePost(p) PROVE PostsStay
  <2>1. UNCHANGED <<worker, agent, runs, strayed>> /\ posts' \subseteq posts
    BY <1>9 DEF LosePost
  <2> QED
    BY <1>2, <2>1 DEF worker
<1> QED
  BY <1>3, <1>4, <1>5, <1>6, <1>7, <1>8, <1>9 DEF Work

LEMMA ServeQuiet == ASSUME TypeOK, Serve PROVE PostsStay
<1> USE DEF PostsStay, PostsInv, Quiet, Reachable, Finals
<1>1. /\ job \in Job /\ agent \in Agent /\ posts \subseteq Post /\ strayed \in BOOLEAN
      /\ late \in BOOLEAN
  BY DEF TypeOK
<1>2. /\ StatsPost.kind = "stats" /\ \A o : OutcomePost(o).kind = "outcome"
      /\ runs' = runs => UNCHANGED StatsPost /\ \A o : UNCHANGED OutcomePost(o)
  BY DEF StatsPost, OutcomePost
<1>3. UNCHANGED <<agent, runs, strayed>> /\ posts' \subseteq posts
  BY DEF Serve, Requeue, Sweep, TimePasses, Verify, Visit, Delete, ProviderStats, Outcome,
         agents
<1>4. CASE Requeue
  <2>1. job'.status = "queued" /\ job.status = "running" /\ posts' = posts
    BY <1>1, <1>4 DEF Requeue, Job, agents
  <2> QED
    BY <1>2, <1>3, <2>1
<1>5. CASE Sweep
  <2>1. /\ job.status \notin Finals /\ posts' = posts
        /\ job'.public = job.public /\ job.public /\ late /\ late' = late
    BY <1>1, <1>5 DEF Sweep, Job, agents
  <2> QED
    BY <1>2, <1>3, <2>1
<1>6. CASE TimePasses \/ Verify
  <2>1. job' = job /\ posts' = posts /\ (late => late')
    BY <1>6 DEF TimePasses, Verify, agents
  <2> QED
    BY <1>2, <1>3, <2>1
<1>7. CASE Visit \/ Delete
  <2>1. /\ job'.status = job.status /\ job'.stats = job.stats
        /\ job'.public = job.public /\ (job'.kept => job.kept)
        /\ posts' = posts /\ late' = late
    BY <1>1, <1>7 DEF Visit, Delete, Lifted, Job, agents
  <2> QED
    BY <1>2, <1>3, <2>1
<1>8. ASSUME NEW p \in posts, ProviderStats(p) PROVE PostsStay
  <2>1. /\ p.kind = "stats" /\ late' = late
        /\ job'.status = job.status /\ job'.public = job.public /\ job'.kept = job.kept
    BY <1>1, <1>8 DEF ProviderStats, Job
  <2> QED
    BY <1>2, <1>3, <2>1
<1>9. ASSUME NEW p \in posts, Outcome(p) PROVE PostsStay
  <2>1. p.kind = "outcome" /\ posts' = posts \ {p} /\ late' = late
    BY <1>9 DEF Outcome
  <2>2. /\ job'.public = job.public /\ job'.kept = job.kept /\ job'.stats = job.stats
        /\ job.status \in Finals => job'.status = job.status
    BY <1>1, <1>9 DEF Outcome, Job
  <2>3. PostsInv => agent.at = "settling" /\ posts' = {}
    BY <1>2, <2>1
  <2> QED
    BY <1>2, <1>3, <2>1, <2>2, <2>3
<1> QED
  BY <1>4, <1>5, <1>6, <1>7, <1>8, <1>9 DEF Serve

\* A step of the page does nothing to the end of a job.
LEMMA PageQuiet ==
    ASSUME TypeOK, UNCHANGED <<agents, late>>, job' = job \/ job' = Lifted
    PROVE  PostsStay
<1>1. /\ job'.status = job.status /\ job'.stats = job.stats
      /\ job'.public = job.public /\ job'.kept = job.kept
  BY DEF TypeOK, Lifted, Job
<1>2. UNCHANGED <<agent, runs, posts, strayed>>
  BY DEF agents
<1> QED
  BY <1>1, <1>2 DEF PostsStay, PostsInv, Quiet, Reachable, StatsPost, OutcomePost

\* What was read stays true of a job that is done with.
LEMMA ReadStays ==
    ASSUME PostsStay, PostsInv, ~strayed', NEW x, Read(x, Quiet, job.stats)
    PROVE  Read(x, Quiet', job'.stats)
  BY DEF PostsStay, Read

LEMMA NoLoadRead == \A q, n : Read(NoLoad, q, n)
  BY DEF Read, NoLoad, Finals

LEMMA WithoutRead ==
    ASSUME TypeOK, StatsInv, PostsStay, ~strayed', NEW l \in Loads, load' = Without(l)
    PROVE  \A k \in Loads : Read(load'[k], Quiet', job'.stats)
<1>1. \A k \in Loads : load'[k] = NoLoad \/ \E j \in Loads : load'[k] = load[j]
  BY WithoutType
<1>2. \A j \in Loads : Read(load[j], Quiet', job'.stats)
  BY ReadStays DEF StatsInv, PostsStay
<1> QED
  BY <1>1, <1>2, NoLoadRead

LEMMA FetchRead ==
    ASSUME TypeOK, StatsInv, NEW l \in Loads, Fetch(l)
    PROVE  StatsInv'
<1> SUFFICES ASSUME ~strayed' PROVE StatsInv'
  BY DEF StatsInv
<1>1. PostsStay
  BY PageQuiet DEF Fetch, GetJob, GetAttempts, LoadFails, Receive, worker
<1>2. PostsInv /\ PostsInv' /\ (Quiet => Quiet' /\ job'.stats = job.stats) /\ ~strayed
  BY <1>1 DEF PostsStay, StatsInv
<1>3. /\ \A k \in Loads : Read(load[k], Quiet', job'.stats)
      /\ shown.status \in Finals => Quiet'
      /\ shown.status \in Finals /\ ~shown.split => shown.stats = job'.stats
  BY <1>1, <1>2, ReadStays DEF StatsInv
<1>4. CASE load' = Without(l) /\ shown' = shown
  BY <1>1, <1>2, <1>3, <1>4, WithoutRead DEF StatsInv
<1>5. CASE GetJob(l) /\ load' # Without(l)
  <2>1. /\ load' = [load EXCEPT ![l].job = "answered", ![l].status = job.status,
                                ![l].token = TokenFor(Lifted)]
        /\ shown' = shown /\ Reachable /\ load[l].job = "asked"
    BY <1>5 DEF GetJob
  <2>2. /\ load'[l].status = job.status /\ load'[l].job = "answered"
        /\ load'[l].attempts = load[l].attempts /\ load'[l].split = load[l].split
        /\ \A k \in Loads \ {l} : load'[k] = load[k]
    BY <2>1 DEF TypeOK, Load
  <2>3. job.status \in Finals => Quiet'
    BY <1>2, <2>1 DEF PostsInv
  <2>4. ~(load[l].attempts = "answered" /\ ~load[l].split)
    BY <1>2, <2>1 DEF StatsInv, Read
  <2>5. Read(load'[l], Quiet', job'.stats)
    BY <2>2, <2>3, <2>4 DEF Read
  <2> QED
    BY <1>2, <1>3, <2>1, <2>2, <2>5 DEF StatsInv
<1>6. CASE GetAttempts(l) /\ load' # Without(l)
  <2>1. /\ load' = [load EXCEPT ![l].attempts = "answered", ![l].stats = job.stats,
                                ![l].split = (load[l].job = "asked")]
        /\ shown' = shown
    BY <1>6 DEF GetAttempts
  <2>2. /\ load'[l].status = load[l].status /\ load'[l].job = load[l].job
        /\ load'[l].stats = job.stats /\ load'[l].split = (load[l].job = "asked")
        /\ \A k \in Loads \ {l} : load'[k] = load[k]
    BY <2>1 DEF TypeOK, Load
  <2>3. load[l].status \in Finals => Quiet /\ Quiet' /\ job'.stats = job.stats
    BY <1>2 DEF StatsInv, Read
  <2>4. Read(load'[l], Quiet', job'.stats)
    BY <2>2, <2>3 DEF Read
  <2> QED
    BY <1>2, <1>3, <2>1, <2>2, <2>4 DEF StatsInv
<1>7. CASE Receive(l)
  <2>1. /\ shown'.status = load[l].status /\ shown'.stats = load[l].stats
        /\ shown'.split = load[l].split /\ load[l].attempts = "answered"
        /\ load' = Without(l)
    BY <1>7 DEF Receive
  <2>2. /\ shown'.status \in Finals => Quiet'
        /\ shown'.status \in Finals /\ ~shown'.split => shown'.stats = job'.stats
    BY <1>3, <2>1 DEF Read
  <2> QED
    BY <1>1, <1>2, <2>1, <2>2, WithoutRead DEF StatsInv
<1> QED
  BY <1>4, <1>5, <1>6, <1>7 DEF Fetch, GetJob, GetAttempts, LoadFails

LEMMA StatsKept == TypeOK /\ StatsInv /\ [Next]_vars => StatsInv'
<1> SUFFICES ASSUME TypeOK, StatsInv, [Next]_vars PROVE StatsInv'
  OBVIOUS
<1>1. CASE Work \/ Serve
  <2>1. UNCHANGED <<load, shown>>
    BY <1>1, WorkKept, ServeKept DEF page
  <2>2. PostsStay
    BY <1>1, WorkQuiet, ServeQuiet
  <2> QED
    BY <2>1, <2>2, ReadStays DEF StatsInv, PostsStay
<1>2. CASE Arrive \/ Tick
  <2>1. UNCHANGED <<worker, agents, shown>> /\ Begin
    BY <1>2 DEF Arrive, Tick
  <2>2. PostsStay
    BY <2>1, PageQuiet DEF worker
  <2>3. \A k \in Loads : ~strayed => Read(load'[k], Quiet, job.stats)
    BY <2>1, BeginType DEF StatsInv, Read, Finals
  <2>4. UNCHANGED <<strayed, Quiet, job>>
    BY <2>1 DEF worker, agents, Quiet
  <2> QED
    BY <2>1, <2>2, <2>3, <2>4 DEF StatsInv, PostsStay
<1>3. ASSUME NEW l \in Loads, Fetch(l) PROVE StatsInv'
  BY <1>3, FetchRead
<1>4. CASE UNCHANGED vars
  BY <1>4 DEF vars, StatsInv, PostsInv, Quiet, Reachable, StatsPost, OutcomePost
<1> QED
  BY <1>1, <1>2, <1>3, <1>4 DEF Next

LEMMA StatsHold == Spec => []StatsInv
<1>1. Init => StatsInv
  BY DEF Init, StatsInv, PostsInv, Read, NoLoad, Finals
<1> QED
  BY <1>1, InitType, TypeKept, StatsKept, PTL DEF Spec

\* However the page's loads, the agent's posts and the Worker's requeues cross: a
\* page that shows a finished job, having read the job before its attempts, shows
\* the statistics the snapshots keep, unless the agent gave up on a post.
THEOREM StatsComeWithTheEndHolds == Spec => []StatsComeWithTheEnd
<1>1. StatsInv => StatsComeWithTheEnd
  BY DEF StatsInv, StatsComeWithTheEnd
<1> QED
  BY <1>1, StatsHold, PTL

================================================================================
