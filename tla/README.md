# A verification of pdf2zh-web-translator

TLA+ modules, TLC runs and TLAPS proofs about the program in `src/`: a web
service that takes a PDF, has an agent translate it with pdf2zh_next, and gives
back the translated PDF.  Every definition is translated from the code;
`PROJECT.json` maps each one to its lines.

    tlc -config JobLifecycle_guest.cfg MCJobLifecycle     (or any other run)
    tlapm JobLifecycleProofs.tla                          (or any other proof)

## 1. The system

    browser (frontend, SolidJS)  --HTTP-->  Worker (Cloudflare, D1 database)
                                              |  /internal/... (VPC)      ^
                                              v                           | /agent/...
                                            pc-api (Python, FastAPI): files, agent_loop
                                              |  OpenAI-style requests
                                              v
                                            router.py --HTTP--> LLM providers

| Component | State it keeps | Operations | Talks to | Module |
|---|---|---|---|---|
| Job lifecycle (`worker/src/index.ts`) | D1 tables `jobs`, `job_api_provider_snapshots`, `usage_limits` | POST /jobs, smoke job, claim (with recovery sweep), progress / succeeded / failed, two DELETEs, exemption in authMiddleware | browser; agents by polling; pc-api for files | `JobLifecycle` |
| Guest limits (`index.ts`) | `public_rate_limits`, `usage_limits` | checkRateLimit, look / reserve / refund of the daily quota | part of POST /jobs | `GuestLimits` |
| Provider settings (`index.ts`, `AdvancedSettings.tsx`, `Settings.tsx`) | `user_api_providers`, `user_llm_settings`; the list and the badge shown | CRUD, reorder, basic key, old endpoint, migration, choice of providers for a job | browser | `ProviderSettings` |
| Public fallback (`publicFallback.ts`) | none, pure functions | configuration check, chain of public providers | POST /jobs | `ProviderSettings` |
| Agent (`pc-api-python/main.py`) | the job in hand, `WAKE_EVENT`, `ROUTER_STATES` | agent_loop: claim, engines in turn, reports, flush, outcome | Worker, router | `JobLifecycle`, `AgentWake`, `Router` |
| pc-api files (`main.py`) | uploads, outputs, logs on disk | put input, log, download, delete, wake | Worker | `JobLifecycle`, `LiveTail` |
| Translation router (`router.py`) | per job: stats, streak of failures, active provider | handle_router_request | translator, providers | `Router` |
| Receipts (`frontend/src/api.ts`, `JobList.tsx`) | localStorage `public_jobs` | getJobs, uploadJob, deleteJob | Worker | `Receipts` |
| Job page (`JobDetail.tsx`), view tokens (`retention.ts`), provider_stats | the job and attempts shown; nothing is kept of a token, it is an HMAC over the row | fetchJob, interval, files/:kind, download | Worker, posts of the agent | `JobPage` |
| Log viewer (`LogViewer.tsx`), progress, get_log | offset and text shown; `progress_percent` | fetchLogs by interval, progress reports | Worker, agent | `LiveTail` |
| Upload form (`UploadForm.tsx`, `uploadJob`, `apiFetch`) | limits, Turnstile widget and token, loading | fetchSettings, loadTurnstile, processFiles | Worker, Turnstile, sign-in | `UploadForm` |
| Sign-in (`AuthSessionLoader`, `AuthInitializer`, `HeaderAuth`, `Dashboard`) | authReady, currentUser, autoLoginTriggered, signingIn | session lookup, listener, popup with timeout, sign-out | Firebase, other tabs | `Session` |
| Go agent (`pc-api/main.go`) | `runningJobs` | run, loop | replaced by the Python service | section 8 |
| JWT checks, encryption, URL checks, static site, deployment | | | | section 8 |

What is hard in it:

* **Interleaving.** A Worker handler is a sequence of D1 statements and fetches,
  with no transaction around them (only `DB.batch` is atomic).  Submissions,
  claims, reports, sweeps and deletions of one row cross at every statement, as
  do two requests of a settings page.
* **Leases.** A job is leased by `status = 'running'` and `claimed_at`.  An agent
  silent for two hours loses the job to the sweep of a later claim, and may come
  back afterwards.
* **Delivery.** Agents report each outcome once, with a 30 second timeout; the
  report may be lost or arrive long after.  The wake-up is sent once, unawaited.
* **Read, await, write.** The rate windows (count, then read the count), the
  percent (read, then write the maximum), a provider (read, then write back), the
  receipts of the browser, the counters the router's handlers share.
* **Polling pages.** Requests of one page overlap, their answers come in any order,
  some never; what is shown is patched together from them.
* **Partial failure.** A submission charges a quota, writes a row, its snapshots
  and a file; each step can fail, and each failure has its own undo.

`PROJECT.json` lists the hazards at their lines, with the properties that cover
them, and for those without one the reason.

What makes each part correct: a job is lost by nobody, run by one agent at a
time, never revived once failed or deleted (lifecycle); the limits hold whatever
overlaps (guest limits); work that is queued gets done (wake-up, sweep); a guest
keeps what opens his job and only that (receipts); every request is answered,
counted once, and by the right provider (router); what a settings page shows is
what is saved and what a job uses (provider settings); a page that shows the end
of a job shows its last statistics and links that work (job page); the log is
shown once and in full, the percent does not fall (log viewer); a file becomes at
most one job, of the owner it was sent for, and the form comes back (upload form).

## 2. The modules

| Module | What it is |
|---|---|
| `JobBoard` | abstract: states and holders of jobs, each claim, report and sweep one step |
| `JobLifecycle`, `MCJobLifecycle`, `JobLifecycleProofs` | the Worker's handlers statement by statement, agents, files; implements `JobBoard` |
| `GuestLimits`, `MCGuestLimits`, `GuestLimitsProofs` | rate windows and daily quota of guests |
| `AgentWake`, `AgentWakeProofs` | `WAKE_EVENT` and the passes of agent_loop |
| `Receipts` | `public_jobs` in localStorage |
| `Router`, `RouterProofs` | the engines of a conversion and the router's handlers |
| `ProviderList` | abstract: one user's list of providers and the request under way, each change one step |
| `ProviderSettings`, `MCProviderSettings`, `ProviderSettingsProofs` | a user's providers, their handlers, the two settings pages, the public chain; requests that do not overlap implement `ProviderList` |
| `JobPage`, `JobPageProofs` | the page of one job while it is finished, its links and statistics |
| `LiveTail`, `LiveTailProofs` | progress reports, the growing log and the viewer that polls it |
| `Session` | who the page is signed in as |
| `UploadForm` | the upload form and `uploadJob` over that session (extends `Session`) |
| `BrowserProofs` | the theorems of `Receipts` and of `UploadForm`, the browser's own state |

`UploadForm` composes with `Session`: a step is a step of one of the two, and the
form reads `ready` and `user` at the moments the code reads the signals.  The
other modules share no variables.  Where one component is the environment of
another it appears there by what the other can see of it: the agent in
`JobLifecycle` runs one conversion, which `Router` opens up; the row in
`AgentWake` has the statuses a claim distinguishes; the Worker in `Receipts`,
`UploadForm` and `JobPage` is its possible answers; `GuestLimits` follows one
guest's request through the quota steps that `JobLifecycle` has for every owner.

### JobLifecycle

Each D1 statement or batch is an action and runs atomically; between two of them
anything may happen.  `post[j].pc`, `removal[j]` and `agent[a].pc` say which
statement of its handler comes next.

| State | Code |
|---|---|
| `jobs[j]`: status, worker, exempt, download, deleted | columns status, worker_id, retention_exempt, download_expires_at (NULL or not), deleted_at |
| `lapsed`, `expired` | the comparisons of claimed_at with two hours ago and of public_expires_at with now |
| `snapshots`, `jobsCreated` | `job_api_provider_snapshots`, `usage_limits.jobs_created` of the day |
| `input`, `outputs` | UPLOAD_DIR/<id>, and OUTPUT_DIR/<id> or the log |
| `post`, `removal`, `agent` | POST handler and DELETE handler of each job, each agent with its claim |
| `late` | reports whose sender timed out and which the Worker still handles |

POST /jobs is CheckQuota, InsertRow, InsertSnapshots, ReserveQuota, then
BeginUpload .. UploadAccepted, or UploadRefused, FailUpload, CleanUpload; RollBack
takes an over-limit row away; Throw is the outer catch.  A claim is Sweep (one
batch), SelectJob, FailKey, ReadSnapshots, TakeLease.  The agent then is
StartEngine, StreamEvent, EndEngine, ReportOutcome, LateReport, and Crash at any
time.  Deletion is AuthoriseDelete, WipeFiles, MarkDeleted.  LiftRetention is the
UPDATE that authMiddleware makes for an exempt identity.

### GuestLimits

One request is Look (quota of the day), Verify (Turnstile), then for address and
client Count and Check, then Reserve and Accept, Refund, or one of the refusals.
`Count` is the upsert of checkRateLimit, which starts the window anew when the old
one is over; `Check` reads the count afterwards.  Time is counted in ticks,
`Window` of them a day; a request lasts less than a tick.

### AgentWake

`event` is WAKE_EVENT, `pc` where agent_loop is; a claim may find any queued job,
none, or fail; the wait ends with the event or with the timeout.  The call of
/internal/wake for a job is sent after its row is made and delivered, or lost, at
any later time.

### Receipts

JavaScript runs to its next await, so a step is what lies between two awaits:
StartPoll reads `public_jobs`, Look and LookFails decide the answer for one job,
Receive takes it and writes the copy back after the last.  Each list in a tab is a
member of `Polls`.  Reading and writing localStorage within one stretch is atomic,
also between tabs.

### Router

`Arrive` .. `Exhaust` are the stretches of handle_router_request between its
awaits, for each request; `StartEngine`, `Finish`, `Raise`, `GiveUp`, `Flush` are
the loop over engines_to_try.  Providers are numbered by priority, those in `Free`
are skipped by the router (they have no base_url) and are engines themselves.
pdf2zh_next is outside: it sends requests while an engine runs, raises at any time
(its requests may go on), and finishes when its requests are answered.  `entry` is
ROUTER_STATES[job_id], which the handlers hold by reference and a deletion pops.

### ProviderSettings

| State | Code |
|---|---|
| `rows`, `made` | `user_api_providers` of the user, numbered as inserted; kind, key, priority, enabled |
| `legacy` | the key of `user_llm_settings`; a key no secret decrypts is "broken" |
| `call[c]` | a request: the handler's next statement, and what it has read |
| `page`, `badge` | the list of AdvancedSettings with its switches; hasApiKey of Settings |
| `chain` | the snapshots of the job that is submitted |
| `upset`, `gap` | history: which page may be out of date; whether a row was deleted since a full order |

The user's steps are the handlers of the two pages (Open, SaveNew, SaveEdit,
Toggle, Delete, Move, SaveBasic) and requests of no page (SaveLegacy, ClearKey,
SubmitJob).  The Worker's are the statements: SelectProviders, SelectLegacy,
Migrate (ensureUserProviders), CountRows and InsertCounted (POST), ReadRow and
WriteRow (PUT), DeleteRow, Reorder (one batch), WriteBasic, ReadLegacy and
WriteLegacy, UseOneOff, UseSettings, UseFallback (POST /jobs); Throw is an
exception in any of them.  Receive* and Fail are what the pages make of the
answer, the reload after a change among it.  `Plan` is publicFallback.ts as an
operator over `Config`.

`ProviderList` has the list as a function from ids to type, key and switch, the order
as pairs, the old key, and what the request under way asks.  Its order says nothing
of numbers: priorities, their gaps and the COUNT they come from are the
implementation's.

### JobPage

| State | Code |
|---|---|
| `job`, `late`, `admin` | the row with status, exemption, expiry and the statistics in its snapshots; a deadline passed; isRetentionExemptIdentity |
| `agent`, `posts` | the end of agent_loop's run, its posts not yet handled |
| `load` | fetchJob under way: two requests each, asked or answered |
| `shown` | job() and attempts() |

EndEngines, Flushed, Settled, GiveUp, LosePost, Crash are the end of a run;
ProviderStats and Outcome what the Worker does with its posts; Tick and Arrive
begin a load (the interval, the sign-in), GetJob, GetAttempts, LoadFails, Receive
are its course.  `TokenFor` is pdfViewTokenMessage, `FileOpens` and `ZipOpens` are
the conditions of files/:kind and of download.  Visit, Verify, Delete, TimePasses,
Sweep, Requeue happen elsewhere.

### LiveTail

`log` is the file, a line being one character of one byte or of two; `Data` and
`NextOffset` are get_log, which seeks by bytes and counts characters.  Announce,
Event, Answered, GiveUp, Crash, Finish are the agent's side; ReadPercent and
WritePercent the two statements of POST progress; Load, Tick, GetLog, LosePoll,
ShowLog the viewer's, which reads its offset when it asks and moves it when the
answer comes.  Reports and polls have two slots each, enough for an overlap.

### Session and UploadForm

`Session`: AskStore is AuthSessionLoader's look into IndexedDB, Listen and Notify
are AuthInitializer, HandleLogin .. TimeOutLogin and Focus are HeaderAuth's popup
with its timer and its focus handler, HandleLogout and Elsewhere change Firebase's
own state.  `Render` is what the signals do to the component that is mounted.

`UploadForm`: FetchSettings (the effect that waits for idle and runs once),
LoadTurnstile, RenderTurnstile, SetToken (the widget); ProcessFiles, TokenCame,
GiveUp, Send, Created, Failed (a batch); Retry (apiFetch after a 401).  PostJobs is
what POST /jobs may answer, with a token accepted once and the client's window
charged once; Lose is a lost request, answer or refresh.

## 3. The runs

| Run | Instance | Question | Result |
|---|---|---|---|
| `lifecycle_guest` | one guest job, two agents, three faults | types, exclusive leases, nothing dead requeued; implements `JobBoard`; every job settles | holds, 304 000 states |
| `lifecycle_pair` | two jobs of an account with room for one, with or without an exempt identity | snapshots, quota accounting and ceiling, retention and completion crossing | holds, 3 654 000 states |
| `claim_snapshots` | one job | a claimed job comes with its snapshots | violated |
| `guest_limits` | two browsers behind one address, three requests, a day that ends | window ceilings, accounting by day | holds, 725 000 states |
| `agent_wake` | three jobs, two faults | no wake-up lost; every queued job taken | holds, 69 000 states |
| `receipts` | two jobs, two lists | how a receipt can be lost; dead ones pruned for good | holds, 284 000 states |
| `router_chain` | two HTTP providers and a free one, three requests | counts, fallback, exhaustion, every request ends | holds, 125 000 states |
| `router_mixed` | an HTTP provider, a free one, another HTTP provider | the list is tried from the top down | violated |
| `provider_settings` | three requests of one user, two at once; old or saved settings; four configurations of the fallback | pages, rows and the job's chain agree; requests that do not overlap implement `ProviderList` | holds, 667 000 states |
| `job_page` | a guest's, an owner's or an exempt owner's job; two overlapping loads | links and button agree; statistics come with the end; the page catches up | holds, 628 000 states |
| `live_tail` | two lines of one or two bytes, two runs, reads of two characters | the log is shown once and arrives; when the percent falls | holds, 207 000 states |
| `session_upload` | one login popup, two batches of two files in all | one private job per file; form, token and header come back | holds, 238 000 states |

Every property of a passing run is accompanied by a mutant of the code it watches
(operators marked "Mutant" in the modules) under which TLC finds it violated.

### Bounds, and why they are enough

* `MaxFaults` (three for the lifecycle, two for the wake-up, one for the pages and
  the form) bounds crashes, lost replies and leases that lapse under a working
  agent.  Three let an agent lose its job, another lose its own and the first
  report late; each further fault returns to a state of this kind.  In a page or
  form, one lost answer beside an overlap is the case that matters.
* Two agents: a lease has one holder and one contender; statuses and owners do not
  tell more agents apart.  The proofs are for any number.
* Two jobs of one account with a limit of one: the race for the last place.  The two
  are interchangeable (symmetry; no liveness is asked there).  Three requests at an
  address with a limit of two do the same for a window.
* `Horizon` 3 with `Window` 2: a window ends, a new one is filled, and a day ends
  within a request.
* Three requests to the router: the smallest number at which consecutive failures
  reach the code's limit of 3.  Two HTTP providers: one to fall back to.
* Two jobs and two lists for receipts: one to lose and one to be kept, one call to
  overlap with another.
* ProviderSettings, `MaxCalls` 3 with two `Calls`: two requests overlap at every
  statement and a third follows on what they left.  `MaxRows` 3: two saved providers,
  which is what a move needs, and one added.  The calls are interchangeable (symmetry;
  no liveness is asked there).  The configurations of `MCConfigs`: server keys, keys
  missing, the free service only, off.
* JobPage, `MaxLoads` 2: one load overtaken by another.  `MaxRuns` 1: the
  statistics a second run would post differ only by their number; the proofs have any.
* LiveTail, `MaxLog` 2, `MaxText` 3, `Limit` 2, `Full` 2, `MaxRuns` 2: a line after a
  line of two bytes, a part shown twice, a read cut in the middle of a character, a
  second run after a given-up report.  `watched` divides the faults: a viewer's
  request is lost, or the agent fails with no viewer.
* UploadForm, `MaxFiles` 2 in two batches, `MaxMoves` 2, one login: two files in one
  batch or a drop during another, a sign-in and a sign-out meanwhile.  Larger
  instances exceed what TLC does in minutes; the safety properties are proved for all.

CHECK_DEADLOCK is off everywhere: these systems really stop when all submissions
have ended and no job is left, nothing is polled or the bounds are used up.

### Fairness, and why the code justifies it

* Agents (lifecycle, wake): agent_loop waits at most 60 seconds between passes, a
  claim is answered or times out in 30, `docker-compose.yml` restarts a container
  that stopped, a conversion ends.  The two hours of a lease pass.
* Lists (receipts): JobList refreshes every five seconds, and a fetch is answered
  or fails.
* Router: a provider call ends.  Connecting and each read time out after at most 600
  seconds (httpx counts each by itself), and an answer is taken to be finite.
* JobPage, LiveTail: the page's interval runs as long as it shows an unfinished job,
  and its requests are answered and received (a lost one is a fault, and bounded).
  The agent is under no fairness there.
* Session, UploadForm: IndexedDB answers or errs, the listener's module loads and is
  told the state, timers fire, the challenge, once shown, is solved, requests end.
  A popup may never settle, and nobody has to click or drop anything.
* Nothing is assumed of submissions, of wake-up calls, of deletions.

## 4. What the runs and proofs show

* A row has one owner at a time, though claims select and take in two statements
  (`LeaseIsExclusive`): the `AND status = 'queued'` of TakeLease decides.  That the
  outcome is the owner's is not promised: reports carry no worker id, and a late one
  of a former owner ends the lease of the next.  `ImplementsBoard` says only that
  it is a move of a running job, and that nothing moves an absent one.  A failed
  job stays failed, deleted or expired jobs are not requeued, whatever reports
  come late.  A completed job can still become failed: by the two updates that
  look at no status, a refused upload and a key that does not decrypt
  (`CompletedIsKept` names them).
* The reservation is safe against any number of submissions although the quota is
  looked at long before (`QuotaCeiling`), and to exempt ones beside them, and refunds balance it (`QuotaAccounting`).
* Any queued job settles, with crashes and lost reports, because each claim sweeps
  (`EveryJobSettles`), and is claimed though every wake-up is lost (`QueuedIsClaimed`).
* The open window lets through no more than its limit (`WindowCeiling`).
* A receipt disappears with its job alive only by an overlap of calls or after a
  failed request (`LossNeedsRace`).
* Interleaved handlers of the router neither lose nor repeat a count
  (`StatsBalance`); a provider is asked only after those above failed
  (`FallbackIsEarned`); a conversion nobody answered is not reported as completed
  (`ExhaustedIsNotCompleted`), unless its entry was deleted while it ran.
* After any changes, moves, failures and retries, the settings pages show what is
  saved once their last load was undisturbed (`ShownIsSaved`), and the snapshots of a
  job are then the providers that are on, in the order of the page
  (`ChainFollowsPage`); the agent does not always try them in that order, see
  `router_mixed` below.  A new provider is listed last (`AddedLast`).  Overlapping requests
  can undo each other's key or switch, and insert the migrated provider twice:
  `MigrationIsFaithful` promises its part to requests that were alone, and as long as
  none overlap, each changes the list at once, as it asks and at most once, whatever
  fails between its statements (`LoneRequestsAreAtomic`).
* The links of a finished job work exactly when its ZIP button does, whatever
  happened since the load that brought them, except for a user who became exempt
  in between (`LinksAgreeWithZip`).  A finished job is shown with its final
  statistics, though they come by two requests and two posts, if the load read the
  job first and the agent waited (`StatsComeWithTheEnd`).
* The log is shown once unless polls overlap or a character takes more than one
  byte (`LogIsShownOnce`); even then every line comes to be shown (`LinesArrive`).
  The percent falls only if two reports cross (`PercentFallsOnlyWhenReportsCross`).
* A request sent again after a 401 makes no second job and no public one
  (`OneJobPerFile`, `JobsStayPrivate`), because only a request with a sign-in is
  repeated, and only with one.  Overlapping batches all end (`BatchesEnd`) and do not
  leave the form loading (`SpinnerIsTrue`); the first to end takes the sign away from
  the other.
* A guest gets a token where the widget can be shown (`GuestGetsToken`).  Where it
  cannot, because its script came before the limits, it is never rendered ("spent"),
  and the property promises nothing.

Two statements of the repository do not hold (`findings` in `PROJECT.json`):

* `claim_snapshots`: a job can be claimed between the INSERT of its row and the batch
  of its snapshots; the agent then uses the single "Legacy" provider, where
  `docs/api-rotation-plan.md` says that a claim must include the snapshots.
* `router_mixed`: both settings pages tell the user that providers are tried from the
  top down (`AdvancedSettings.tsx:229`, `Settings.tsx:156`).  The agent makes one engine
  of all HTTP providers, at the place of the first, so an HTTP provider below a free
  one is asked before it: HTTP, free, HTTP is tried HTTP, HTTP, free.  Where the
  Worker builds the list itself the free provider is last, and the order is kept.

Behaviours the models contain, about which the repository promises nothing, so that
no property speaks of them; a reader of the code may want to know:

* a fetch that throws during the upload leaves the job queued, charged and without
  input, while a refused upload is undone;
* a request counted in the old window may read the count of the new one, so that two
  jobs of a client start within 24 hours; both windows stay charged for a request
  that is then refused;
* an exception is raised for an engine while its requests go on;
* a dashboard refresh that cannot reach the Worker prunes receipts of live jobs;
* deleting the last migrated provider brings it back at the next load
  (`ensureUserProviders` finds none and copies the old settings again);
* a first load of the job page that fails is not repeated by the interval, since the
  interval needs a job to be shown; log lines written after the last poll of a running
  job are not fetched any more;
* a guest's token is used once, but kept after a successful upload: the next one
  fails and only then asks for another.  When the effect that reads the limits finds
  the sign-in unsettled, they are never read and a guest gets no widget, where
  `docs/production-smoke.md` 11-13 expects one (the timing of idle callbacks decides);
* files are sent one after another, each with the sign-in of its moment: a batch
  begun with an account may end as a guest's;
* a popup that ends late clears signingIn and autoLoginTriggered also when another
  popup was opened since (`HeaderAuth.tsx`, `finally`);
* a sign-out before the listener is registered leaves `currentUser` as it was.

## 5. What is proved

TLAPS proves the following for every value of the constants that satisfies the
named assumptions (finite sets of jobs and requests, limits of at least one,
subjects and addresses given to each job, at least one provider, bounds that are
natural numbers, a key that is not the model value for no key).  Between them the
theorems state every safety and every action property of the runs.

* **JobLifecycle** (12 theorems): type correctness, all safety and action properties
  of the runs, and that it implements `JobBoard`.  None of them is inductive by
  itself: a handler acts on its row by what an earlier statement told it, and
  meanwhile others change the row.  `Invariance` proves the strengthening `Inv`:
  types, what a submission still knows of its row at each statement
  (`SubmissionInv`: it exists, with its snapshots, and is metered once), that an
  absent row is clean (`NoRowInv`), and `LeaseFields`.  The action properties then
  follow action by action, the quota by counting the jobs of a subject.
  `QuotaCeiling` needs
  `QuotaAccounting`: those without exemption are among those counted.
  `LeaseFields`, `FailedIsFinal` and `CompletedIsKept` are stated by theorems only.
* **GuestLimits** (3): `WindowCeiling` needs `WInv`: a count is at least the number of
  requests counted in the open window (`CountsEnough`; more, since refused ones
  count too), every stamp lies in its window (`StampsInWindow`), a window without a
  row has not begun (`NoRowNoStart`).  A request passes by reading a count at most
  the limit, so those passed, which are among those counted, cannot exceed it.
* **AgentWake** (2): `NoLostWakeup` by `WakeInv`: as long as the event is clear, no
  job whose call arrived is queued once the agent was told there is none.
* **Receipts** (2, in `BrowserProofs`): `LossNeedsRace` by `RInv`: a receipt that must not be lost is in
  `public_jobs` and in every copy that is still to be written over it (`Held`), and a
  call about to forget a job knows it is gone (`KnownGone`).
* **Router** (4): `StatsBalance`; `FallbackIsEarned` by `Earned`: a provider's total is
  the number of requests at it or beyond, its failures at least those that went
  on; `ExhaustedIsNotCompleted` by `StreakCounts`: as long as nobody answered, the
  streak is the number of exhausted requests, and `Concluded`: nothing is under way
  after a conclusion.
* **JobPage** (3): `LinksAgreeWithZip` by `LinksInv`: whatever load or page has seen
  the job completed, the job still is, and its dated token is of the expiry that
  the row has until the user becomes exempt (`Sound`).  `StatsComeWithTheEnd` by
  `StatsInv`: unless the agent strayed, the posts under way are those of its run and
  place (`PostsInv`), so that with the job at its end no statistics are to come
  (`Quiet`), and what a load has read of them is what the snapshots hold (`Read`).
* **LiveTail** (3): `PercentFallsOnlyWhenReportsCross` by `ReportsInv`: until two
  reports cross there is one, and what it has read is still the percent.
  `LogIsShownOnce` by `TailInv`: one poll at a time, at the viewer's offset, holding
  a stretch of the log that begins there (`Shown`), which rests on what `Data` reads
  from a log of one-byte lines.
* **ProviderSettings** (8): the types, `ShownIsSaved`, `ChainFollowsPage`,
  `MigrationIsFaithful`, `AddedLast`, `LoneRequestsAreAtomic`.  Each handler acts on
  what an earlier statement read and each page on answers, so `IInv` says what of
  that still holds.  `AloneInv`: while the user goes one request at a time, the
  request under way is the only one.  `FreshInv`: what such a request has read is
  still so in the tables, statement by statement.  `GapInv`: as long as no row was
  deleted since a full order, no priority exceeds the number of rows (`Ratings`),
  and no page or request knows of a row that is gone (`Known`), which is why a new
  row gets the last place.  `PlaceInv`: the places a page or a request holds number
  a list.  `PlanInv`: a fallback is its providers in order and the free engine last.
  `UpsetInv` ties pages to tables: a page not marked `upset` holds what is saved
  (`Holds`), or a request is under way whose answer makes it so and which spares
  the other page (`Spares`).  The least row by order, which `First` chooses, exists
  by WellFoundedInduction.  For the refinement, `ListOf` and `OrderOf` map rows to
  the list and `Request` the call under way to what it asks; each statement of a
  handler that is alone is then a step of `ProviderList` or none, from what `Fresh`
  says of that statement, and `OneAtATimeImplementsList` gives `List!Spec` for every
  behaviour without overlaps.  `KeyChangesAreAsked`, which also says what
  overlapping requests may not do to a key, is stated by its theorem only.
* **UploadForm** (4, in `BrowserProofs`): the types, which need `Tally` (tokens
  issued, batches under way and the widget's next token together are no more than
  files begun and one); `OneJobPerFile` and `JobsStayPrivate` by `FilesInv`: a file is no job or the one it
  was first sent as, and only a request with a sign-in is refused it; `SpinnerIsTrue`
  by `SpinnerInv`: the form is loading only with a batch under way, has one batch
  unless a drop overlapped, and then none once it is not loading.

The set and sequence arguments use facts of FiniteSetTheorems, SequenceTheorems and
WellFoundedInduction; no other fact is assumed.

## 6. What is only model-checked

* Liveness (`EveryJobSettles`, `QueuedIsClaimed`, `DeadArePruned`, `RequestsEnd`,
  `PageCatchesUp`, `LinesArrive`, `BatchesEnd`, `GuestGetsToken`, `HeaderComesBack`): it
  rests on fairness and ENABLED, which the prover does not treat.
* The two violations, which are traces of TLC.

## 7. Abstractions

* JobLifecycle covers one UTC day of `usage_limits`; GuestLimits has the days.  The
  claim takes any queued job, not the oldest.  Percentages, messages and logs are
  left out.  A crash of the Worker between two statements is Throw without its
  reply, or a handler that takes no further step.  The Worker's secrets are there or
  not; a key decrypts or does not (FailKey).  Smoke jobs are in no run, and
  roll-backs in none that checks the refinement of `JobBoard`: the theorems cover
  both, for any set of smoke jobs and any limits.
* GuestLimits: ticks as above; the smoke job and signed-in users, who have no rate
  windows, are in JobLifecycle only.
* Router: the token is right, as the engine is given it; 429 is a failure like
  others; closing a client does not raise.  That a translator which finishes has
  had its own answers is a property of pdf2zh_next, taken from its use in agent_loop;
  it does not wait for those of an engine that raised before it.
* Receipts: the signed-in list that getJobs fetches first is left out, and so is a
  corrupted entry, which readPublicJobs drops.
* ProviderSettings: names, URLs, models, timeouts, field validation and the cipher are
  left out; rows inserted within one second keep their order of insertion, which is
  what SQLite gives for equal `created_at`.  Testing a provider changes nothing.
* JobPage: there is one agent, so the sweep that takes a job back comes with a claim of
  that agent, between its runs; a second agent, and with it a lease that lapses under
  a working one, is in JobLifecycle.  The UPDATE of authMiddleware and the SELECT that follows are one step; the
  token of a job not yet completed is left out, the page having no use for it; so
  is the PDF itself, whose files are in JobLifecycle.
* LiveTail: phases, messages and `log_tail` are texts the page prints as they are; a
  line is one character, cut or whole.
* Session: one user, signed in or not; the run has one login, so that a popup which
  ends after another was opened is in the model but not in the run.  UploadForm: the request for the limits and its
  answer are one step, taken with the sign-in of the request; the widget's own
  expiry and refresh of a token is left out; a drop may come at any time, error
  texts, drag highlight and target language are left out.

## 8. What is not modelled

* Verification of JWTs, encryption, HMACs and URL validation: cryptography and
  parsing.  A sign-in is accepted or refused, a token message is equal or not.
* Log and file downloads, health checks, GET handlers beyond those above: reads.
* The rows of /attempts, which the agent writes and nothing reads.
* Static pages, SSG, deploy and smoke scripts, Docker and Cloudflare files, end to
  end tests.
* `run_job` / `trigger_run` of main.py: called by nobody and reporting to nobody.
* The Go agent: the earlier form of the Python service, no longer deployed beside it.
* What a deletion during a conversion leaves on disk: JobLifecycle has the input and
  the existence of outputs, and nothing in the repository says when they must go.

## 9. Plan

Done: lifecycle (the core), guest limits, wake-up, receipts, router, provider
settings with the public fallback, job page, log viewer with progress, session and
upload form.  Next, if the project grows:

1. Composition of `Router` under the agent of `JobLifecycle`, so that the outcome
   reported is the outcome reached.
2. `GoAgent`, if it comes back into use: `runningJobs`, its loop, and its differences from
   the Python agent.
