------------------------------ MODULE JobBoard ------------------------------
(***************************************************************************)
(* What the Worker promises to those who look at jobs: the states a job    *)
(* goes through and the one worker that holds it, with submissions, claims,*)
(* reports and sweeps as single steps.  One D1 batch may move several jobs *)
(* at once, so a step moves each job or leaves it where it is.             *)
(***************************************************************************)
CONSTANTS Jobs, Agents, None

VARIABLES state, holder

board == <<state, holder>>

Init ==
    /\ state = [j \in Jobs |-> "absent"]
    /\ holder = [j \in Jobs |-> None]

Move(j, from, to) == state[j] = from /\ state'[j] = to

Keep(j) == state'[j] = state[j] /\ holder'[j] = holder[j]

\* A submission puts the job on the board, with nobody on it.
Submitted(j) == Move(j, "absent", "queued") /\ holder'[j] = None

\* One worker takes a queued job.
Taken(j) == Move(j, "queued", "running") /\ holder'[j] \in Agents

\* A worker that was silent too long loses the job.
Released(j) == Move(j, "running", "queued") /\ holder'[j] = None

Completed(j) == Move(j, "running", "completed") /\ holder'[j] = holder[j]

\* A job may fail at any time, even after it completed: its upload turns out
\* to have failed, or its key cannot be read.
Failed(j) ==
    /\ state[j] \in {"queued", "running", "completed"}
    /\ state'[j] = "failed"
    /\ holder'[j] = holder[j]

\* A submission over the limit is taken back, whatever became of it.
Withdrawn(j) == state'[j] = "absent" /\ holder'[j] = None

Moves(j) ==
    \/ Keep(j) \/ Submitted(j) \/ Taken(j) \/ Released(j)
    \/ Completed(j) \/ Failed(j) \/ Withdrawn(j)

Next ==
    /\ DOMAIN state' = Jobs
    /\ DOMAIN holder' = Jobs
    /\ \A j \in Jobs : Moves(j)

Spec == Init /\ [][Next]_board

=============================================================================
