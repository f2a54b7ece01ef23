--------------------------- MODULE AgentWakeProofs ---------------------------
(* Proofs about AgentWake: it is well typed and loses no wake-up. *)
EXTENDS AgentWake, TLAPS

LEMMA InitType == Init => TypeOK
<1> SUFFICES ASSUME Init PROVE TypeOK
  OBVIOUS
<1>1. faults \in 0..MaxFaults
  BY WakeAssumption DEF Init
<1>2. /\ job \in [Jobs -> JobState]
      /\ call \in [Jobs -> CallState]
      /\ pc \in PC
  BY DEF Init, JobState, CallState, PC
<1>3. event \in BOOLEAN /\ drained \in BOOLEAN
  BY DEF Init
<1> QED
  BY <1>1, <1>2, <1>3 DEF TypeOK

LEMMA TypeKept == TypeOK /\ [Next]_vars => TypeOK'
<1> SUFFICES ASSUME TypeOK, [Next]_vars PROVE TypeOK'
  OBVIOUS
<1> USE DEF TypeOK, JobState, CallState, PC
<1>1. CASE Start \/ Woken \/ TimeOut
  BY <1>1 DEF Start, Woken, TimeOut, Pass
<1>2. CASE ClaimJob
  BY <1>2 DEF ClaimJob, Queued
<1>3. CASE ClaimNothing \/ EndPass \/ Finish
  BY <1>3 DEF ClaimNothing, EndPass, Finish
<1>4. CASE FailClaim \/ Crash
  <2>1. faults' \in 0..MaxFaults
    BY <1>4, WakeAssumption DEF FailClaim, Crash
  <2>2. event' \in BOOLEAN /\ drained' \in BOOLEAN
    BY <1>4 DEF FailClaim, Crash
  <2> QED
    BY <1>4, <2>1, <2>2 DEF FailClaim, Crash
<1>5. ASSUME NEW j \in Jobs, Enqueue(j) \/ Vanish(j) PROVE TypeOK'
  BY <1>5 DEF Enqueue, Vanish
<1>6. ASSUME NEW j \in Jobs, SendWake(j) \/ DeliverWake(j) \/ LoseWake(j) PROVE TypeOK'
  BY <1>6 DEF SendWake, DeliverWake, LoseWake
<1>7. CASE UNCHANGED vars
  BY <1>7 DEF vars
<1> QED
  BY <1>1, <1>2, <1>3, <1>4, <1>5, <1>6, <1>7 DEF Next, Agent

\* The loop, its event and the Worker's rows and calls keep their types
\* (agent_loop, pc-api-python/main.py).
THEOREM WakeTypeCorrect == Spec => []TypeOK
<1> QED
  BY InitType, TypeKept, PTL DEF Spec

-----------------------------------------------------------------------------

\* No job whose call has arrived is queued, unless the event is set.
Heard == ~event => \A j \in Queued : call[j] # "delivered"

\* The Worker looked for jobs and had none, and the agent has not begun a pass
\* since.
Quiet == pc = "told" \/ (pc = "waiting" /\ drained)

\* What is true of the end of a pass, and of a row without a call: a job has no
\* call before it has a row.
WakeInv ==
    /\ TypeOK
    /\ Quiet => Heard
    /\ \A j \in Jobs : job[j] = "none" => call[j] = "none"

LEMMA WakeInvKept == WakeInv /\ [Next]_vars => WakeInv'
<1> SUFFICES ASSUME WakeInv, [Next]_vars PROVE WakeInv'
  OBVIOUS
<1>0. TypeOK'
  BY TypeKept DEF WakeInv
<1> USE DEF WakeInv, TypeOK, Quiet, Heard, Queued
<1>1. CASE Start \/ Woken \/ TimeOut
  BY <1>0, <1>1 DEF Start, Woken, TimeOut, Pass
<1>2. CASE ClaimJob
  BY <1>0, <1>2 DEF ClaimJob
<1>3. CASE ClaimNothing \* the answer says that nothing is queued
  BY <1>0, <1>3 DEF ClaimNothing
<1>4. CASE EndPass
  BY <1>0, <1>4 DEF EndPass
<1>5. CASE Finish \/ FailClaim \/ Crash
  BY <1>0, <1>5 DEF Finish, FailClaim, Crash
<1>6. ASSUME NEW j \in Jobs, Enqueue(j) PROVE WakeInv'
  <2>1. /\ call[j] = "none" /\ call' = call
        /\ \A k \in Jobs : k # j => job'[k] = job[k]
        /\ job'[j] = "queued"
    BY <1>6 DEF Enqueue
  <2> QED
    BY <1>0, <1>6, <2>1 DEF Enqueue
<1>7. ASSUME NEW j \in Jobs, Vanish(j) PROVE WakeInv'
  BY <1>0, <1>7 DEF Vanish
<1>8. ASSUME NEW j \in Jobs, SendWake(j) \/ LoseWake(j) PROVE WakeInv'
  BY <1>0, <1>8 DEF SendWake, LoseWake
<1>9. ASSUME NEW j \in Jobs, DeliverWake(j) PROVE WakeInv'
  BY <1>0, <1>9 DEF DeliverWake
<1>10. CASE UNCHANGED vars
  BY <1>0, <1>10 DEF vars
<1> QED
  BY <1>1, <1>2, <1>3, <1>4, <1>5, <1>6, <1>7, <1>8, <1>9, <1>10 DEF Next, Agent

\* Wherever a call of /internal/wake falls among the claims of a pass, an agent
\* that was told there are no jobs does not sleep on a job whose call arrived.
THEOREM NoWakeupIsLost == Spec => []NoLostWakeup
<1>1. Init => WakeInv
  BY InitType DEF Init, WakeInv, Quiet
<1>2. WakeInv => NoLostWakeup
  BY DEF WakeInv, Quiet, Heard, NoLostWakeup
<1> QED
  BY <1>1, <1>2, WakeInvKept, PTL DEF Spec

=============================================================================
