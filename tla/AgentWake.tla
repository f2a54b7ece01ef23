------------------------------ MODULE AgentWake ------------------------------
(***************************************************************************)
(* How the agent learns of work: WAKE_EVENT of pc-api-python/main.py, set  *)
(* by POST /internal/wake, which the Worker calls without waiting after a  *)
(* submission.  A pass of agent_loop clears the event, claims until a claim*)
(* brings nothing, and waits for the event, 60 seconds at most.            *)
(***************************************************************************)
EXTENDS Integers

CONSTANTS
    Jobs,
    MaxFaults  \* bound on failed claims and crashes

ASSUME WakeAssumption == MaxFaults \in Nat

VARIABLES
    job,     \* the row of each job, as far as a claim can tell
    call,    \* the Worker's call of /internal/wake for each job
    event,   \* WAKE_EVENT
    pc,      \* where agent_loop is
    drained, \* the last claim of the pass was answered, with no job
    faults

vars == <<job, call, event, pc, drained, faults>>

JobState  == {"none", "queued", "taken", "gone"}
CallState == {"none", "sent", "delivered", "lost"}

\* "asked": a claim is out; "told": its answer, without a job, is on its way.
PC == {"asked", "told", "working", "waiting", "down"}

TypeOK ==
    /\ job \in [Jobs -> JobState]
    /\ call \in [Jobs -> CallState]
    /\ event \in BOOLEAN
    /\ pc \in PC
    /\ drained \in BOOLEAN
    /\ faults \in 0..MaxFaults

Init ==
    /\ job = [j \in Jobs |-> "none"]
    /\ call = [j \in Jobs |-> "none"]
    /\ event = FALSE
    /\ pc = "down"
    /\ drained = FALSE
    /\ faults = 0

Queued == {j \in Jobs : job[j] = "queued"}

\* The row is inserted; from here on a claim can take it.
Enqueue(j) ==
    /\ job[j] = "none"
    /\ job' = [job EXCEPT ![j] = "queued"]
    /\ UNCHANGED <<call, event, pc, drained, faults>>

\* The submission is undone, the job deleted, or taken by a claim whose answer
\* the agent no longer waits for.
Vanish(j) ==
    /\ job[j] = "queued"
    /\ job' = [job EXCEPT ![j] = "gone"]
    /\ UNCHANGED <<call, event, pc, drained, faults>>

\* waitUntil(fetch('/internal/wake')), after the answer to the submission.
SendWake(j) ==
    /\ job[j] # "none" /\ call[j] = "none"
    /\ call' = [call EXCEPT ![j] = "sent"]
    /\ UNCHANGED <<job, event, pc, drained, faults>>

\* wake_agent.
DeliverWake(j) ==
    /\ call[j] = "sent" /\ pc # "down"
    /\ call' = [call EXCEPT ![j] = "delivered"]
    /\ event' = TRUE
    /\ UNCHANGED <<job, pc, drained, faults>>

\* The call fails; the Worker only logs it.
LoseWake(j) ==
    /\ call[j] = "sent"
    /\ call' = [call EXCEPT ![j] = "lost"]
    /\ UNCHANGED <<job, event, pc, drained, faults>>

\* A pass begins: the event is cleared and a claim sent, with no await between.
Pass ==
    /\ event' = FALSE
    /\ pc' = "asked"
    /\ UNCHANGED <<job, call, drained, faults>>

Start   == pc = "down" /\ Pass
Woken   == pc = "waiting" /\ event /\ Pass

\* Mutant: the TimeoutError is not caught and ends the loop.
TimeOutUncaught ==
    /\ pc = "waiting"
    /\ pc' = "ended"
    /\ UNCHANGED <<job, call, event, drained, faults>>

TimeOut == pc = "waiting" /\ Pass

\* The Worker answers the claim with a job, if it has one.
ClaimJob ==
    /\ pc = "asked"
    /\ \E j \in Queued : job' = [job EXCEPT ![j] = "taken"]
    /\ pc' = "working"
    /\ UNCHANGED <<call, event, drained, faults>>

ClaimNothing ==
    /\ pc = "asked" /\ Queued = {}
    /\ pc' = "told"
    /\ UNCHANGED <<job, call, event, drained, faults>>

\* Mutant: the event is cleared before the wait instead of before the claims.
EndPassClearing ==
    /\ pc = "told"
    /\ pc' = "waiting" /\ drained' = TRUE
    /\ event' = FALSE
    /\ UNCHANGED <<job, call, faults>>

EndPass ==
    /\ pc = "told"
    /\ pc' = "waiting" /\ drained' = TRUE
    /\ UNCHANGED <<job, call, event, faults>>

\* A claim is refused or not answered in 30 seconds: the pass ends.
FailClaim ==
    /\ pc \in {"asked", "told"} /\ faults < MaxFaults
    /\ pc' = "waiting" /\ drained' = FALSE
    /\ faults' = faults + 1
    /\ UNCHANGED <<job, call, event>>

\* Whatever became of the job, the next claim follows at once.
Finish ==
    /\ pc = "working"
    /\ pc' = "asked"
    /\ UNCHANGED <<job, call, event, drained, faults>>

\* The process ends, and the event with it.
Crash ==
    /\ pc # "down" /\ faults < MaxFaults
    /\ pc' = "down" /\ event' = FALSE /\ drained' = FALSE
    /\ faults' = faults + 1
    /\ UNCHANGED <<job, call>>

Agent == Start \/ Woken \/ ClaimJob \/ ClaimNothing \/ EndPass \/ Finish

Next ==
    \/ Agent \/ TimeOut \/ FailClaim \/ Crash
    \/ \E j \in Jobs : \/ Enqueue(j) \/ Vanish(j) \/ SendWake(j)
                       \/ DeliverWake(j) \/ LoseWake(j)

Spec == Init /\ [][Next]_vars

\* The event loop runs what is ready, claims are answered within 30 seconds,
\* conversions end, a container that stopped is started again, and wait_for
\* times out.  Nothing is assumed of the Worker's calls.
FairSpec == Spec /\ WF_vars(Agent) /\ WF_vars(TimeOut)

-----------------------------------------------------------------------------

\* "Wake between empty claim and wait" (scripts/test_wake_overlap.py): an agent
\* whose pass ended for want of jobs does not sleep on a job it was woken for.
NoLostWakeup ==
    pc = "waiting" /\ drained /\ ~event =>
        \A j \in Queued : call[j] # "delivered"

\* A queued job is taken in the end, though every call may be lost, claims fail
\* and the agent crash.
QueuedIsClaimed == \A j \in Jobs : job[j] = "queued" ~> job[j] # "queued"

=============================================================================
