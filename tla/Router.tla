-------------------------------- MODULE Router --------------------------------
(***************************************************************************)
(* One conversion in the agent (pc-api-python/main.py agent_loop): the     *)
(* translation engines it tries in turn, and the fallback router they send *)
(* their requests to (router.py handle_router_request).  The requests of   *)
(* an engine run together in one event loop; each action is a stretch of   *)
(* code between two awaits.  The engine itself is pdf2zh_next, which ends  *)
(* or raises whenever it likes.                                            *)
(***************************************************************************)
EXTENDS Naturals, FiniteSets

CONSTANTS
    Requests,   \* requests the translator may send; each is sent once
    N,          \* number of provider snapshots, numbered by priority
    Free        \* those of type siliconflow_free, which have no base_url

ASSUME NAssumption == N \in Nat \ {0}
ASSUME FreeAssumption == Free \subseteq 1..N
ASSUME RequestsAssumption == IsFiniteSet(Requests)

VARIABLES
    job,        \* the conversion in agent_loop
    entry,      \* ROUTER_STATES[job_id]: there, or by whom it was removed
    active,     \* its active_provider_name
    streak,     \* its consecutive_router_failures
    stats,      \* its stats, of every provider
    req         \* requests in handle_router_request

vars == <<job, entry, active, streak, stats, req>>

Providers == 1..N
Http == Providers \ Free

\* Every free provider is an engine; the first of the others is the router,
\* for all of them.
Engines == {e \in Providers : e \in Free \/ 1..(e - 1) \subseteq Free}

Patience == 3

Counts == [total : Nat, ok : Nat, bad : Nat]
NoCounts == [total |-> 0, ok |-> 0, bad |-> 0]

JobState ==
    [pc : {"between", "running", "flush", "ended"}, engine : {0} \cup Engines,
     outcome : {"open", "completed", "failed"}]

Tried    == {"checking", "sent", "streaming"}   \* counted, its end still open
Answered == {"streaming", "served", "broken"}   \* a provider answered 2xx
Ended    == {"served", "broken", "exhausted", "refused"}

ReqState == [pc : {"idle", "next"} \cup Tried \cup Ended, at : 0..N]

TypeOK ==
    /\ job \in JobState
    /\ entry \in {"present", "popped", "deleted"}
    /\ active \in Providers
    /\ streak \in Nat
    /\ stats \in [Providers -> Counts]
    /\ req \in [Requests -> ReqState]

Init ==
    /\ job = [pc |-> "between", engine |-> 0, outcome |-> "open"]
    /\ entry = "present"
    /\ active = 1
    /\ streak = 0
    /\ stats = [p \in Providers |-> NoCounts]
    /\ req = [r \in Requests |-> [pc |-> "idle", at |-> 0]]

-----------------------------------------------------------------------------
(* handle_router_request                                                   *)

\* The entry is looked up before the first await and held from then on.
Arrive(r) ==
    /\ job.pc = "running" /\ job.engine \in Http
    /\ req[r].pc = "idle"
    /\ req' = [req EXCEPT ![r].pc = IF entry = "present" THEN "next" ELSE "refused"]
    /\ UNCHANGED <<job, entry, active, streak, stats>>

Later(k) == {p \in Http : k < p}

\* The next provider of the loop with a base_url.
Try(r, p) ==
    /\ req[r].pc = "next"
    /\ p \in Later(req[r].at) /\ \A q \in Later(req[r].at) : p <= q
    /\ stats' = [stats EXCEPT ![p].total = @ + 1]
    /\ req' = [req EXCEPT ![r] = [pc |-> "checking", at |-> p]]
    /\ UNCHANGED <<job, entry, active, streak>>

\* Mutant: a provider whose URL is refused is not counted as failed.
BlockUncounted(r) ==
    /\ req[r].pc = "checking"
    /\ stats' = [stats EXCEPT ![req[r].at].total = @ - 1]
    /\ req' = [req EXCEPT ![r].pc = "next"]
    /\ UNCHANGED <<job, entry, active, streak>>

\* is_public_provider_url refuses the provider ...
Block(r) ==
    /\ req[r].pc = "checking"
    /\ stats' = [stats EXCEPT ![req[r].at].bad = @ + 1]
    /\ req' = [req EXCEPT ![r].pc = "next"]
    /\ UNCHANGED <<job, entry, active, streak>>

\* ... or the request is sent to it.
Send(r) ==
    /\ req[r].pc = "checking"
    /\ req' = [req EXCEPT ![r].pc = "sent"]
    /\ UNCHANGED <<job, entry, active, streak, stats>>

\* Mutant: a provider that fails is asked again.
FailAgain(r) ==
    /\ req[r].pc = "sent"
    /\ req' = [req EXCEPT ![r].pc = "checking"]
    /\ UNCHANGED <<job, entry, active, streak, stats>>

\* An answer other than 2xx, a timeout, or no connection.
Fail(r) ==
    /\ req[r].pc = "sent"
    /\ stats' = [stats EXCEPT ![req[r].at].bad = @ + 1]
    /\ req' = [req EXCEPT ![r].pc = "next"]
    /\ UNCHANGED <<job, entry, active, streak>>

Serve(r) ==
    /\ req[r].pc = "sent"
    /\ active' = req[r].at
    /\ streak' = 0
    /\ stats' = [stats EXCEPT ![req[r].at].ok = @ + 1]
    /\ req' = [req EXCEPT ![r].pc = "served"]
    /\ UNCHANGED <<job, entry>>

\* A streamed answer has begun.
Stream(r) ==
    /\ req[r].pc = "sent"
    /\ active' = req[r].at
    /\ streak' = 0
    /\ req' = [req EXCEPT ![r].pc = "streaming"]
    /\ UNCHANGED <<job, entry, stats>>

\* Mutant: the finally clause counts a success whatever happened.
EndStreamTwice(r) ==
    /\ req[r].pc = "streaming"
    /\ \/ /\ stats' = [stats EXCEPT ![req[r].at].ok = @ + 1]
          /\ req' = [req EXCEPT ![r].pc = "served"]
       \/ /\ stats' = [stats EXCEPT ![req[r].at].bad = @ + 1, ![req[r].at].ok = @ + 1]
          /\ req' = [req EXCEPT ![r].pc = "broken"]
    /\ UNCHANGED <<job, entry, active, streak>>

\* It ends, which counts as success also when its reader has left, or breaks.
EndStream(r) ==
    /\ req[r].pc = "streaming"
    /\ \/ /\ stats' = [stats EXCEPT ![req[r].at].ok = @ + 1]
          /\ req' = [req EXCEPT ![r].pc = "served"]
       \/ /\ stats' = [stats EXCEPT ![req[r].at].bad = @ + 1]
          /\ req' = [req EXCEPT ![r].pc = "broken"]
    /\ UNCHANGED <<job, entry, active, streak>>

\* All providers failed.
Exhaust(r) ==
    /\ req[r].pc = "next" /\ Later(req[r].at) = {}
    /\ streak' = streak + 1
    /\ req' = [req EXCEPT ![r].pc = "exhausted"]
    /\ UNCHANGED <<job, entry, active, stats>>

Handle(r) ==
    \/ \E p \in Http : Try(r, p)
    \/ Block(r) \/ Send(r) \/ Fail(r) \/ Serve(r) \/ Stream(r) \/ EndStream(r)
    \/ Exhaust(r)

-----------------------------------------------------------------------------
(* agent_loop                                                              *)

Untried == {e \in Engines : job.engine < e}

StartEngine(e) ==
    /\ job.pc = "between"
    /\ e \in Untried /\ \A d \in Untried : e <= d
    /\ job' = [job EXCEPT !.pc = "running", !.engine = e]
    /\ active' = IF entry = "present" THEN e ELSE active
    /\ UNCHANGED <<entry, streak, stats, req>>

\* The requests are the HTTP engine's: a translator waits for its own before its
\* stream of events ends, not for those of an engine that raised before.
Waited ==
    job.engine \in Http
    => \A r \in Requests : req[r].pc \notin {"next", "checking", "sent"}

\* Mutant: the router's failures are not looked at.
FinishUnchecked ==
    /\ job.pc = "running" /\ Waited
    /\ job' = [job EXCEPT !.pc = "flush", !.outcome = "completed"]
    /\ UNCHANGED <<entry, active, streak, stats, req>>

\* The stream of events ends; of a streamed answer the translator may have seen
\* the end before the router does.  Three exhausted requests in a row, and the
\* engine has failed all the same.
Finish ==
    /\ job.pc = "running" /\ Waited
    /\ job' = IF job.engine \in Http /\ entry = "present" /\ streak >= Patience
              THEN [job EXCEPT !.pc = "between"]
              ELSE [job EXCEPT !.pc = "flush", !.outcome = "completed"]
    /\ UNCHANGED <<entry, active, streak, stats, req>>

\* The engine raises, whatever its requests are doing.
Raise ==
    /\ job.pc = "running"
    /\ job' = [job EXCEPT !.pc = "between"]
    /\ UNCHANGED <<entry, active, streak, stats, req>>

GiveUp ==
    /\ job.pc = "between" /\ Untried = {}
    /\ job' = [job EXCEPT !.pc = "flush", !.outcome = "failed"]
    /\ UNCHANGED <<entry, active, streak, stats, req>>

\* The entry is popped, and its stats as they are then are posted, once: what
\* requests of an engine that raised still count is nobody's.
Flush ==
    /\ job.pc = "flush"
    /\ job' = [job EXCEPT !.pc = "ended"]
    /\ entry' = IF entry = "present" THEN "popped" ELSE entry
    /\ UNCHANGED <<active, streak, stats, req>>

\* The job's owner deletes it (/internal/files/{id}/delete).
Delete ==
    /\ entry = "present"
    /\ entry' = "deleted"
    /\ UNCHANGED <<job, active, streak, stats, req>>

Agent == (\E e \in Engines : StartEngine(e)) \/ Finish \/ Raise \/ GiveUp \/ Flush

Next == Agent \/ Delete \/ \E r \in Requests : Arrive(r) \/ Handle(r)

Spec == Init /\ [][Next]_vars

\* A provider call ends: connecting and each read time out (router.py: after at
\* most 600 seconds each), and answers are finite.  The agent's loop is never
\* blocked by one.
FairSpec == Spec /\ \A r \in Requests : WF_vars(Handle(r))

-----------------------------------------------------------------------------

\* Requests counted for a provider whose end is still open.
Pending(p) == {r \in Requests : req[r].pc \in Tried /\ req[r].at = p}

\* Every request counted for a provider is a success, a failure or under way:
\* interleaved handlers sharing one dictionary lose or repeat no count.
StatsBalance ==
    \A p \in Providers :
        stats[p].total = stats[p].ok + stats[p].bad + Cardinality(Pending(p))

\* A request falls back to a provider only after each HTTP provider above it has
\* failed it, so none below is asked more often than one above has failed.
FallbackIsEarned ==
    \A p, q \in Http : q < p => stats[p].total <= stats[q].bad

Exhausted == {r \in Requests : req[r].pc = "exhausted"}

\* Handlers count failures in the order they end, not in the order they began;
\* yet a conversion none of whose requests was answered, of three or more, is
\* not reported as completed by the router.
ExhaustedIsNotCompleted ==
    (job.outcome = "completed" /\ job.engine \in Http /\ entry # "deleted")
    => \/ \E r \in Requests : req[r].pc \in Answered
       \/ Cardinality(Exhausted) < Patience

\* The settings pages say of the list, in their order: providers are tried from
\* the top down, and when one fails the next is used (AdvancedSettings.tsx:229,
\* Settings.tsx:156).  So an HTTP provider below a free one would be asked only
\* once the free one has had its turn as an engine.
TriedFromTheTop ==
    \A f \in Free, p \in Http :
        (f < p /\ stats[p].total > 0) => f <= job.engine

\* A request the router took is answered, by a provider or with its failure.
RequestsEnd == \A r \in Requests : req[r].pc = "next" ~> req[r].pc \in Ended

=============================================================================
