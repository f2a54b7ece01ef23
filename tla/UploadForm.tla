------------------------------ MODULE UploadForm ------------------------------
(***************************************************************************)
(* UploadForm.tsx and uploadJob of api.ts over the session of the page: the *)
(* limits are read once, a guest's Turnstile widget is rendered once, and a *)
(* batch of files waits for its token, then sends them in turn to           *)
(* POST /jobs, which trusts the sign-in of each request alone.              *)
(***************************************************************************)
EXTENDS Session, Sequences

CONSTANTS
    Batches,      \* calls of processFiles that may be under way
    MaxFiles,     \* bound: files, in all batches
    MaxFaults     \* bound: requests lost or refused their sign-in, scripts not loaded

ASSUME FormAssumption == {MaxFiles, MaxFaults} \subseteq Nat

VARIABLES
    settings,  \* fetchSettings has run
    limits,    \* scope of limits(), "none" before
    widget,    \* "unasked", "loading" (its script), "spent" (nothing to render
               \* into, or no script), "shown", "solved"
    token,     \* turnstileToken(), 0 for ""
    issued,    \* tokens issued so far
    used,      \* external: tokens verified once
    window,    \* the client's window of 24 hours is charged
    loading,
    batches,
    begun,     \* files so far
    faults,
    doubled    \* history: a batch began while another was under way

form == <<settings, limits, widget, token, issued, used, window, loading, batches,
          begun, faults, doubled>>
vars == <<session, form>>

Tokens == 0..(MaxFiles + 1)
Owners == {"firebase", "public"}

\* left: files after this one.  owner, turnstile: what the request under way
\* says.  first: the owner its file was first sent as.  made: what the Worker
\* made of the file.
Batch == [pc : {"none", "waiting", "ready", "sent", "created", "refused",
                "unauthorized", "lost"},
          left : 0..MaxFiles, owner : Owners, first : Owners, turnstile : Tokens,
          retried : BOOLEAN, made : Seq(Owners)]
NoBatch == [pc |-> "none", left |-> 0, owner |-> "public", first |-> "public",
            turnstile |-> 0, retried |-> FALSE, made |-> <<>>]

Owner   == IF user THEN "firebase" ELSE "public"
IsGuest == ready /\ ~user
Fault   == faults < MaxFaults /\ faults' = faults + 1

Init ==
    /\ InitSession
    /\ settings = FALSE /\ limits = "none"
    /\ widget = "unasked" /\ token = 0 /\ issued = 0 /\ used = {} /\ window = FALSE
    /\ loading = FALSE /\ batches = [b \in Batches |-> NoBatch]
    /\ begun = 0 /\ faults = 0 /\ doubled = FALSE

-----------------------------------------------------------------------------
(* The limits and the widget                                               *)

\* The effect reads no signal until the browser is idle, so it runs once.  The
\* scope is that of the request: when the answer comes is nothing to the rest.
\* GET /limits takes a bad sign-in for a guest's.
FetchSettings ==
    /\ ~settings /\ settings' = TRUE
    /\ \/ limits' = (IF ~ready THEN "none" ELSE IF user THEN "authenticated" ELSE "public")
          /\ UNCHANGED faults
       \/ Fault /\ ready /\ user /\ limits' = "public"
       \/ Fault /\ ready /\ UNCHANGED limits
    /\ UNCHANGED <<session, widget, token, issued, used, window, loading, batches,
                   begun, doubled>>

Asked == IF widget = "unasked" THEN "loading" ELSE widget

\* The pointer, a finger or a dragged file comes to the drop zone.
LoadTurnstile ==
    /\ widget = "unasked" /\ widget' = Asked
    /\ UNCHANGED <<session, settings, limits, token, issued, used, window, loading,
                   batches, begun, faults, doubled>>

\* The container is there for a public scope only.
RenderTurnstile ==
    /\ widget = "loading"
    /\ \/ widget' = (IF limits = "public" THEN "shown" ELSE "spent") /\ UNCHANGED faults
       \/ Fault /\ widget' = "spent"
    /\ UNCHANGED <<session, settings, limits, token, issued, used, window, loading,
                   batches, begun, doubled>>

\* The callback of the widget.
SetToken ==
    /\ widget = "shown" /\ widget' = "solved"
    /\ issued' = issued + 1 /\ token' = issued + 1
    /\ UNCHANGED <<session, settings, limits, used, window, loading, batches, begun,
                   faults, doubled>>

-----------------------------------------------------------------------------
(* processFiles                                                            *)

Working == {b \in Batches : batches[b].pc # "none"}

\* Some call that is not under way, if there is one.
Free == CHOOSE b \in Batches : Working # Batches => b \notin Working

\* A drop is taken even while the form is loading.
ProcessFiles(b, files) ==
    /\ b = Free /\ b \notin Working
    /\ begun + files <= MaxFiles /\ begun' = begun + files
    /\ ready
    /\ LET waits == IsGuest /\ token = 0 IN
        /\ batches' = [batches EXCEPT ![b] =
               [NoBatch EXCEPT !.pc = IF waits THEN "waiting" ELSE "ready",
                               !.left = files - 1]]
        /\ widget' = IF waits THEN Asked ELSE widget
    /\ loading' = TRUE
    /\ doubled' = (doubled \/ Working # {})
    /\ UNCHANGED <<session, settings, limits, token, issued, used, window, faults>>

TokenCame(b) ==
    /\ batches[b].pc = "waiting" /\ token # 0
    /\ batches' = [batches EXCEPT ![b].pc = "ready"]
    /\ loading' = TRUE
    /\ UNCHANGED <<session, settings, limits, widget, token, issued, used, window,
                   begun, faults, doubled>>

\* Mutant: the count is raised while the widget is there.
GiveUpShown(b) ==
    /\ batches[b].pc = "waiting" /\ token = 0 /\ widget \in {"shown", "solved"}
    /\ batches' = [batches EXCEPT ![b] = NoBatch]
    /\ loading' = FALSE
    /\ UNCHANGED <<session, settings, limits, widget, token, issued, used, window,
                   begun, faults, doubled>>

\* Mutant: the form is left loading.
GiveUpLoading(b) ==
    /\ batches[b].pc = "waiting" /\ token = 0
    /\ batches' = [batches EXCEPT ![b] = NoBatch]
    /\ UNCHANGED <<session, settings, limits, widget, token, issued, used, window,
                   loading, begun, faults, doubled>>

\* Fifty times a tenth of a second.
GiveUp(b) ==
    /\ batches[b].pc = "waiting" /\ token = 0
    /\ batches' = [batches EXCEPT ![b] = NoBatch]
    /\ loading' = FALSE
    /\ UNCHANGED <<session, settings, limits, widget, token, issued, used, window,
                   begun, faults, doubled>>

\* uploadJob: the form data, then the sign-in of the moment.
Send(b) ==
    /\ batches[b].pc = "ready"
    /\ batches' = [batches EXCEPT ![b] =
           [@ EXCEPT !.pc = "sent", !.owner = Owner, !.first = Owner,
                     !.turnstile = token]]
    /\ UNCHANGED <<session, settings, limits, widget, token, issued, used, window,
                   loading, begun, faults, doubled>>

-----------------------------------------------------------------------------
(* POST /jobs: what JobLifecycle and GuestLimits model in full             *)

Answer(b, pc) == batches' = [batches EXCEPT ![b].pc = pc]

\* A submission that throws late leaves its job.
Create(b) ==
    \E pc \in {"created", "refused"} :
        batches' = [batches EXCEPT ![b].pc = pc,
                                   ![b].made = Append(@, batches[b].owner)]

Unauthorized(b) ==
    /\ batches[b].owner = "firebase" /\ Fault
    /\ Answer(b, "unauthorized")
    /\ UNCHANGED <<used, window>>

Refuse(b) == Answer(b, "refused") /\ UNCHANGED <<used, window, faults>>

Accept(b) ==
    /\ batches[b].owner = "firebase"
    /\ Create(b)
    /\ UNCHANGED <<used, window, faults>>

\* Turnstile verifies a token once, and the window lets one request through.
AcceptGuest(b) ==
    /\ batches[b].owner = "public"
    /\ batches[b].turnstile \notin used \cup {0}
    /\ used' = used \cup {batches[b].turnstile} /\ window' = TRUE
    /\ IF window THEN Answer(b, "refused") ELSE Create(b) \/ Answer(b, "refused")
    /\ UNCHANGED faults

PostJobs(b) ==
    /\ batches[b].pc = "sent"
    /\ Unauthorized(b) \/ Refuse(b) \/ Accept(b) \/ AcceptGuest(b)
    /\ UNCHANGED <<session, settings, limits, widget, token, issued, loading, begun,
                   doubled>>

\* The request, its answer, or a fresh token is not to be had.
Lose(b) ==
    /\ batches[b].pc \in {"sent", "created", "refused", "unauthorized"} /\ Fault
    /\ Answer(b, "lost")
    /\ UNCHANGED <<session, settings, limits, widget, token, issued, used, window,
                   loading, begun, doubled>>

-----------------------------------------------------------------------------
(* The answer                                                              *)

\* Mutant: whatever fails is sent again.
MayRetryAll(b) == ~batches[b].retried

\* Mutant: whoever is signed in by then.
MayRetryAnyone(b) == batches[b].pc = "unauthorized" /\ ~batches[b].retried

\* apiFetch sends once more, if the page is still signed in.
MayRetry(b) == batches[b].pc = "unauthorized" /\ ~batches[b].retried /\ user

Retry(b) ==
    /\ batches[b].pc \in {"unauthorized", "refused", "lost"} /\ MayRetry(b)
    /\ batches' = [batches EXCEPT ![b] = [@ EXCEPT !.pc = "sent", !.owner = Owner,
                                                   !.retried = TRUE]]
    /\ UNCHANGED <<session, settings, limits, widget, token, issued, used, window,
                   loading, begun, faults, doubled>>

\* Mutant: one file too many.
MoreFilesByOne(b) == batches[b].left >= 0

MoreFiles(b) == batches[b].left > 0

\* The next file, or onUploadSuccess and finally.
Created(b) ==
    /\ batches[b].pc = "created"
    /\ IF MoreFiles(b)
       THEN /\ batches' = [batches EXCEPT ![b] =
                  [NoBatch EXCEPT !.pc = "ready", !.left = batches[b].left - 1]]
            /\ UNCHANGED loading
       ELSE /\ batches' = [batches EXCEPT ![b] = NoBatch]
            /\ loading' = FALSE
    /\ UNCHANGED <<session, settings, limits, widget, token, issued, used, window,
                   begun, faults, doubled>>

\* Mutant: the token is dropped and the widget left as it is.
ResetForgotten == token' = 0 /\ UNCHANGED widget

ResetTurnstile ==
    /\ token' = 0
    /\ widget' = IF widget = "solved" THEN "shown" ELSE widget

\* The catch and finally; the files that are left are not sent.
Failed(b) ==
    /\ batches[b].pc \in {"unauthorized", "refused", "lost"} /\ ~MayRetry(b)
    /\ IF IsGuest THEN ResetTurnstile ELSE UNCHANGED <<token, widget>>
    /\ batches' = [batches EXCEPT ![b] = NoBatch]
    /\ loading' = FALSE
    /\ UNCHANGED <<session, settings, limits, issued, used, window, begun, faults,
                   doubled>>

-----------------------------------------------------------------------------

Process(b) == TokenCame(b) \/ GiveUp(b) \/ Send(b) \/ Created(b) \/ Failed(b) \/ Retry(b)

FormNext ==
    \/ FetchSettings \/ LoadTurnstile \/ RenderTurnstile \/ SetToken
    \/ \E b \in Batches : \/ \E files \in 1..MaxFiles : ProcessFiles(b, files)
                          \/ Process(b) \/ PostJobs(b) \/ Lose(b)

Next == (SessionNext /\ UNCHANGED form) \/ FormNext

Spec == Init /\ [][Next]_vars

\* IndexedDB answers, the listener's module loads and is told the state, timers
\* fire, requests and the challenge come to an end; a popup may never.
FairSpec ==
    /\ Spec
    /\ WF_vars(AskStore /\ UNCHANGED form) /\ WF_vars(Listen /\ UNCHANGED form)
    /\ WF_vars(Notify /\ UNCHANGED form)
    /\ \A c \in Logins : WF_vars(TimeOutLogin(c) /\ UNCHANGED form)
    /\ WF_vars(RenderTurnstile) /\ WF_vars(SetToken)
    /\ \A b \in Batches : WF_vars(Process(b)) /\ WF_vars(PostJobs(b))

-----------------------------------------------------------------------------

\* The state stays within its types; no more tokens are issued than batches
\* fail, and one.
TypeOK ==
    /\ SessionTypeOK
    /\ limits \in {"none", "public", "authenticated"}
    /\ widget \in {"unasked", "loading", "spent", "shown", "solved"}
    /\ token \in Tokens /\ issued \in Tokens /\ used \subseteq Tokens
    /\ settings \in BOOLEAN /\ window \in BOOLEAN
    /\ loading \in BOOLEAN /\ doubled \in BOOLEAN
    /\ batches \in [Batches -> Batch]
    /\ begun \in 0..MaxFiles /\ faults \in 0..MaxFaults

\* However a request fails, a file of a batch becomes at most one job.
OneJobPerFile == \A b \in Batches : Len(batches[b].made) <= 1

\* A file first sent with a sign-in never becomes a public job, though the
\* sign-in is refused and the user gone before it is sent again.
JobsStayPrivate ==
    \A b \in Batches : \A n \in DOMAIN batches[b].made :
        batches[b].made[n] = batches[b].first

\* However many batches overlap and however they end, the form is not left
\* loading after the last; and it shows that it uploads while one is under way,
\* unless files were dropped on it meanwhile: the batch that ends first then
\* takes the sign away from the other.
SpinnerIsTrue ==
    /\ loading => Working # {}
    /\ Working # {} => loading \/ doubled

\* Every batch ends, with or without a token.
BatchesEnd == \A b \in Batches : b \in Working ~> b \notin Working

\* Once the widget was asked for where it can be shown, a guest without a token,
\* not having had one or having lost it to a failed upload, gets one.
GuestGetsToken ==
    (widget # "unasked" /\ limits = "public" /\ token = 0)
        ~> (token # 0 \/ widget = "spent")

\* The header keeps coming back to a state where it shows the account or a
\* login button that can be pressed, though a popup never answers.
HeaderComesBack == []<>(ready /\ (user \/ ~signing))

=============================================================================
