------------------------------- MODULE Receipts -------------------------------
(***************************************************************************)
(* The receipts of a guest's jobs, which the browser alone holds, in the   *)
(* localStorage entry public_jobs (frontend/src/api.ts).  getJobs, called  *)
(* every five seconds by every open list, and deleteJob read the entry,    *)
(* wait for the Worker, and write what they read back with the dead        *)
(* receipts left out.  uploadJob reads and writes at once when its answer  *)
(* comes.  The code runs to its next await without interruption, and each  *)
(* step below is one such stretch, or the Worker's side of a request.      *)
(***************************************************************************)
EXTENDS FiniteSets

CONSTANTS
    Jobs,   \* the guest's jobs; a receipt is known by its job
    Polls   \* calls of getJobs that may be under way at once

VARIABLES
    server,   \* what the Worker answers for each job
    stored,   \* public_jobs
    upload,   \* uploadJob of each job
    poll,     \* calls of getJobs, each with its copy of public_jobs
    removal,  \* deleteJob of each job, with its copy
    failed    \* history: jobs a refresh asked for without getting an answer

receipts == <<server, stored, upload, poll, removal, failed>>

\* An upload whose answer came is "kept", or "raced" if a call that had read
\* public_jobs was then still to write it.
UploadPC == {"idle", "sent", "made", "kept", "raced", "lost"}

Poll    == [pc : {"idle", "asking", "answered"}, copy : SUBSET Jobs,
            todo : SUBSET Jobs]
Removal == [pc : {"idle", "sent", "deleted"}, copy : SUBSET Jobs]

NoPoll    == [pc |-> "idle", copy |-> {}, todo |-> {}]
NoRemoval == [pc |-> "idle", copy |-> {}]

ReceiptsTypeOK ==
    /\ server \in [Jobs -> {"absent", "live", "gone"}]
    /\ stored \subseteq Jobs
    /\ upload \in [Jobs -> UploadPC]
    /\ poll \in [Polls -> Poll]
    /\ removal \in [Jobs -> Removal]
    /\ failed \subseteq Jobs

InitReceipts ==
    /\ server = [j \in Jobs |-> "absent"]
    /\ stored = {}
    /\ upload = [j \in Jobs |-> "idle"]
    /\ poll = [p \in Polls |-> NoPoll]
    /\ removal = [j \in Jobs |-> NoRemoval]
    /\ failed = {}

Quiet == /\ \A p \in Polls : poll[p].pc = "idle"
         /\ \A j \in Jobs : removal[j].pc = "idle"

-----------------------------------------------------------------------------
(* uploadJob                                                               *)

SendUpload(j) ==
    /\ upload[j] = "idle"
    /\ upload' = [upload EXCEPT ![j] = "sent"]
    /\ UNCHANGED <<server, stored, poll, removal, failed>>

MakeJob(j) ==
    /\ upload[j] = "sent"
    /\ server' = [server EXCEPT ![j] = "live"]
    /\ upload' = [upload EXCEPT ![j] = "made"]
    /\ UNCHANGED <<stored, poll, removal, failed>>

StoreReceipt(j) ==
    /\ upload[j] = "made"
    /\ stored' = stored \cup {j}
    /\ upload' = [upload EXCEPT ![j] = IF Quiet THEN "kept" ELSE "raced"]
    /\ UNCHANGED <<server, poll, removal, failed>>

\* The request is refused, or its answer does not come back.
LoseUpload(j) ==
    /\ upload[j] \in {"sent", "made"}
    /\ upload' = [upload EXCEPT ![j] = "lost"]
    /\ UNCHANGED <<server, stored, poll, removal, failed>>

-----------------------------------------------------------------------------
(* getJobs                                                                 *)

\* Without a receipt there is nothing to wait for, and {} is written back.
StartPoll(p) ==
    /\ poll[p].pc = "idle" /\ stored # {}
    /\ poll' = [poll EXCEPT ![p] = [pc |-> "asking", copy |-> stored,
                                    todo |-> stored]]
    /\ UNCHANGED <<server, stored, upload, removal, failed>>

\* The Worker's answer about one job is decided; anything but 200 throws, and
\* the catch removes the receipt from the copy.
Look(p, j) ==
    /\ poll[p].pc = "asking" /\ j \in poll[p].todo
    /\ poll' = [poll EXCEPT ![p].pc = "answered", ![p].todo = @ \ {j},
                            ![p].copy = IF server[j] = "live" THEN @ ELSE @ \ {j}]
    /\ UNCHANGED <<server, stored, upload, removal, failed>>

\* "Cannot connect to API": the same catch.
LookFails(p, j) ==
    /\ poll[p].pc = "asking" /\ j \in poll[p].todo
    /\ poll' = [poll EXCEPT ![p].pc = "answered", ![p].todo = @ \ {j},
                            ![p].copy = @ \ {j}]
    /\ failed' = failed \cup {j}
    /\ UNCHANGED <<server, stored, upload, removal>>

\* Mutant: what is stored meanwhile is kept, dead receipts included.
ReceiveMerging(p) ==
    /\ poll[p].pc = "answered"
    /\ IF poll[p].todo = {}
       THEN /\ stored' = stored \cup poll[p].copy
            /\ poll' = [poll EXCEPT ![p] = NoPoll]
       ELSE /\ poll' = [poll EXCEPT ![p].pc = "asking"]
            /\ UNCHANGED stored
    /\ UNCHANGED <<server, upload, removal, failed>>

\* The answer comes: the next job is asked for, or the copy written back.
Receive(p) ==
    /\ poll[p].pc = "answered"
    /\ IF poll[p].todo = {}
       THEN /\ stored' = poll[p].copy
            /\ poll' = [poll EXCEPT ![p] = NoPoll]
       ELSE /\ poll' = [poll EXCEPT ![p].pc = "asking"]
            /\ UNCHANGED stored
    /\ UNCHANGED <<server, upload, removal, failed>>

-----------------------------------------------------------------------------
(* deleteJob, for a job whose receipt is at hand.                          *)

Delete(j) ==
    /\ removal[j].pc = "idle" /\ j \in stored
    /\ removal' = [removal EXCEPT ![j] = [pc |-> "sent", copy |-> stored]]
    /\ UNCHANGED <<server, stored, upload, poll, failed>>

\* The Worker deletes a live job.  A refusal, and an answer that does not come
\* back, make deleteJob throw before it writes.
ServeDelete(j) ==
    /\ removal[j].pc = "sent"
    /\ \/ /\ server[j] = "live"
          /\ server' = [server EXCEPT ![j] = "gone"]
          /\ removal' \in {[removal EXCEPT ![j].pc = "deleted"],
                          [removal EXCEPT ![j] = NoRemoval]}
       \/ /\ removal' = [removal EXCEPT ![j] = NoRemoval]
          /\ UNCHANGED server
    /\ UNCHANGED <<stored, upload, poll, failed>>

\* Mutant: the copy is emptied instead of losing one receipt.
ForgetAll(j) ==
    /\ removal[j].pc = "deleted"
    /\ stored' = {}
    /\ removal' = [removal EXCEPT ![j] = NoRemoval]
    /\ UNCHANGED <<server, upload, poll, failed>>

Forget(j) ==
    /\ removal[j].pc = "deleted"
    /\ stored' = removal[j].copy \ {j}
    /\ removal' = [removal EXCEPT ![j] = NoRemoval]
    /\ UNCHANGED <<server, upload, poll, failed>>

\* public_expires_at passes.
Expire(j) ==
    /\ server[j] = "live"
    /\ server' = [server EXCEPT ![j] = "gone"]
    /\ UNCHANGED <<stored, upload, poll, removal, failed>>

-----------------------------------------------------------------------------

Refresh(p) == \/ StartPoll(p) \/ Receive(p)
              \/ \E j \in Jobs : Look(p, j) \/ LookFails(p, j)

ReceiptsNext ==
    \/ \E p \in Polls : Refresh(p)
    \/ \E j \in Jobs : \/ SendUpload(j) \/ MakeJob(j) \/ StoreReceipt(j)
                       \/ LoseUpload(j) \/ Delete(j) \/ ServeDelete(j)
                       \/ Forget(j) \/ Expire(j)

ReceiptsSpec == InitReceipts /\ [][ReceiptsNext]_receipts

\* An open list refreshes every five seconds (components/JobList.tsx), and its
\* requests are answered or fail.
FairReceipts == ReceiptsSpec /\ \A p \in Polls : WF_receipts(Refresh(p))

-----------------------------------------------------------------------------

\* A guest can lose the receipt of a live job in two ways only: its upload was
\* answered while another call was between its read and its write, or a
\* refresh failed to reach the Worker about it.
LossNeedsRace ==
    \A j \in Jobs :
        (upload[j] = "kept" /\ server[j] = "live" /\ j \notin failed)
        => j \in stored

\* "... so every dashboard refresh does not retry them forever": the receipt of
\* a dead job is pruned for good, though a call that overlaps its deletion may
\* write it back.
DeadArePruned == \A j \in Jobs : server[j] = "gone" ~> [](j \notin stored)

=============================================================================
