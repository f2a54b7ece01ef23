------------------------------- MODULE LiveTail -------------------------------
(***************************************************************************)
(* A running job as its page follows it: the agent writes a line of the log *)
(* and reports its progress for every event of the engine, the Worker keeps *)
(* the highest percent, reading it and writing it in two statements, and    *)
(* LogViewer.tsx polls the part of the log past its offset.  A line is one  *)
(* character, of one byte or, not being ASCII, of two.                      *)
(***************************************************************************)
EXTENDS Naturals, Sequences, FiniteSets

CONSTANTS
    MaxLog,       \* bound: lines written
    MaxText,      \* bound: lines shown before the page polls no more
    Limit,        \* characters asked for at once (65536)
    Full,         \* 100 percent
    MaxRuns,      \* bound: claims of the job
    MaxFaults     \* bound: reports given up, crashes, polls lost

ASSUME BoundsAssumption == /\ {MaxLog, MaxText, MaxRuns, MaxFaults} \subseteq Nat
                           /\ {Limit, Full} \subseteq Nat \ {0}

VARIABLES
    status,    \* the job's
    percent,   \* progress_percent
    log,       \* the log file: the bytes of each line
    agent,     \* where the agent's run is, its last percent, the report it awaits
    reports,   \* POST /agent/jobs/:id/progress, by slot
    runs,      \* claims so far
    watched,   \* bound: a page is open, and only its requests fail; or none is
               \* open, and the agent fails
    seen,      \* the status the page shows, "none" before the first load
    text,      \* logs() of the viewer: lines by number, 0 for a broken character
    offset,    \* offset() of the viewer
    polls,     \* its requests, by slot
    faults,
    crossed,   \* history: a report was sent while another was to be handled
    doubled    \* history: a poll began while another was under way

vars == <<status, percent, log, agent, reports, runs, watched, seen, text, offset,
          polls, faults, crossed, doubled>>
viewer == <<watched, seen, text, offset, polls, doubled>>
worker == <<status, percent, log, agent, reports, runs, crossed>>

Statuses == {"queued", "running", "completed", "failed"}
Percents == 0..Full
Slots    == {1, 2}

Report   == [pc : {"idle", "sent", "read"}, percent : Percents, old : Percents]
NoReport == [pc |-> "idle", percent |-> 0, old |-> 0]

\* report: the slot it awaits, 0 for none.
Agent == [at : {"idle", "working"}, last : Percents, report : Slots \cup {0}]
Idle  == [at |-> "idle", last |-> 0, report |-> 0]

\* next: the offset after the answer.
Poll   == [pc : {"idle", "asked", "answered"}, offset : Nat, data : Seq(0..MaxLog),
           next : Nat]
NoPoll == [pc |-> "idle", offset |-> 0, data |-> <<>>, next |-> 0]

Least(n, m)    == IF n <= m THEN n ELSE m
Greatest(n, m) == IF n >= m THEN n ELSE m

-----------------------------------------------------------------------------
(* get_log of main.py seeks to a byte and reads characters.                *)

\* The bytes of the first n lines.
Bytes(n) == n + Cardinality({i \in 1..n : log[i] = 2})

Size == Bytes(Len(log))

\* What can be read from byte o on: a line cut in two is a broken character.
From(o) ==
    LET k == Cardinality({n \in 1..Len(log) : Bytes(n) <= o})
        rest(i) == [n \in 1..(Len(log) - i) |-> i + n]
    IN  IF Bytes(k) = o THEN rest(k) ELSE <<0>> \o rest(k + 1)

Data(o) == LET most == Least(Limit, Size - Least(o, Size))
               all  == From(Least(o, Size))
           IN  SubSeq(all, 1, Least(most, Len(all)))

\* next_offset counts the characters it has read.
NextOffset(o) == Least(o, Size) + Len(Data(o))

-----------------------------------------------------------------------------

Init ==
    /\ status = "queued" /\ percent = 0 /\ log = <<>>
    /\ agent = Idle /\ reports = [r \in Slots |-> NoReport] /\ runs = 0
    /\ watched \in BOOLEAN
    /\ seen = "none" /\ text = <<>> /\ offset = 0
    /\ polls = [p \in Slots |-> NoPoll]
    /\ faults = 0 /\ crossed = FALSE /\ doubled = FALSE

-----------------------------------------------------------------------------
(* The agent                                                               *)

Claim ==
    /\ status = "queued" /\ agent = Idle /\ runs < MaxRuns
    /\ status' = "running" /\ runs' = runs + 1
    /\ agent' = [Idle EXCEPT !.at = "working"]
    /\ UNCHANGED <<percent, log, reports, viewer, faults, crossed>>

Ready == agent.at = "working" /\ agent.report = 0

\* report_progress sends a percent no lower than the last and waits.
Send(p) ==
    \E r \in Slots :
        /\ reports[r].pc = "idle"
        /\ reports' = [reports EXCEPT ![r] = [NoReport EXCEPT !.pc = "sent",
                                                              !.percent = p]]
        /\ agent' = [agent EXCEPT !.last = p, !.report = r]
        /\ crossed' = (crossed \/ \E q \in Slots : reports[q].pc # "idle")

\* "claimed", "preparing", "retrying", "failed": a report without an event.
Announce(p) ==
    /\ Ready /\ p \in agent.last..Full
    /\ Send(p)
    /\ UNCHANGED <<status, percent, log, runs, viewer, faults>>

\* An event of the engine: a line of the log, and a report if the percent or
\* the time calls for one.
Event(p, width) ==
    /\ Ready /\ p \in agent.last..Full /\ Len(log) < MaxLog
    /\ log' = Append(log, width)
    /\ \/ Send(p)
       \/ p = agent.last /\ UNCHANGED <<agent, reports, crossed>>
    /\ UNCHANGED <<status, percent, runs, viewer, faults>>

Answered ==
    /\ agent.report # 0 /\ reports[agent.report].pc = "idle"
    /\ agent' = [agent EXCEPT !.report = 0]
    /\ UNCHANGED <<status, percent, log, reports, runs, crossed, viewer, faults>>

\* The client times out; the exception is logged, and the report is handled
\* later.
GiveUp ==
    /\ ~watched /\ faults < MaxFaults /\ faults' = faults + 1
    /\ agent.report # 0 /\ reports[agent.report].pc # "idle"
    /\ agent' = [agent EXCEPT !.report = 0]
    /\ UNCHANGED <<status, percent, log, reports, runs, crossed, viewer>>

Crash ==
    /\ ~watched /\ faults < MaxFaults /\ faults' = faults + 1
    /\ agent.at = "working"
    /\ agent' = Idle
    /\ UNCHANGED <<status, percent, log, reports, runs, crossed, viewer>>

\* /agent/jobs/:id/succeeded and /failed.
Finish(s) ==
    /\ Ready
    /\ agent' = Idle
    /\ status' = IF status = "running" THEN s ELSE status
    /\ percent' = IF status = "running" /\ s = "completed" THEN Full ELSE percent
    /\ UNCHANGED <<log, reports, runs, crossed, viewer, faults>>

\* A later claim takes the job back when its lease is two hours old.
Requeue ==
    /\ status = "running" /\ agent = Idle
    /\ status' = "queued"
    /\ UNCHANGED <<percent, log, agent, reports, runs, crossed, viewer, faults>>

-----------------------------------------------------------------------------
(* POST /agent/jobs/:id/progress: SELECT, then UPDATE.                     *)

ReadPercent(r) ==
    /\ reports[r].pc = "sent"
    /\ reports' = [reports EXCEPT ![r].pc = "read", ![r].old = percent]
    /\ UNCHANGED <<status, percent, log, agent, runs, crossed, viewer, faults>>

\* Mutant: the percent is what is reported.
NewPercentAsSent(report) == report.percent

\* Mutant: what is reported is added.
NewPercentAdded(report) == report.old + report.percent

NewPercent(report) == Greatest(report.old, report.percent)

WritePercent(r) ==
    /\ reports[r].pc = "read"
    /\ percent' = IF status = "running" THEN NewPercent(reports[r]) ELSE percent
    /\ reports' = [reports EXCEPT ![r] = NoReport]
    /\ UNCHANGED <<status, log, agent, runs, crossed, viewer, faults>>

-----------------------------------------------------------------------------
(* LogViewer.tsx                                                           *)

\* fetchLogs: the offset is read when the request is made.
Ask(p) ==
    /\ polls[p].pc = "idle" /\ Len(text) < MaxText
    /\ polls' = [polls EXCEPT ![p] = [NoPoll EXCEPT !.pc = "asked",
                                                    !.offset = offset]]
    /\ doubled' = (doubled \/ \E q \in Slots : polls[q].pc # "idle")

\* JobDetail shows the job as it was loaded last; the first load mounts the
\* viewer, which polls once.
Load ==
    /\ watched /\ seen # status
    /\ seen' = status
    /\ IF seen = "none" THEN Ask(1) ELSE UNCHANGED <<polls, doubled>>
    /\ UNCHANGED <<worker, watched, text, offset, faults>>

\* Mutant: only the interval of a queued job is left.
TickQueued ==
    /\ seen = "queued"
    /\ \E p \in Slots : Ask(p)
    /\ UNCHANGED <<worker, watched, seen, text, offset, faults>>

\* The intervals: two seconds while running, five while queued.
Tick ==
    /\ seen \in {"queued", "running"}
    /\ \E p \in Slots : Ask(p)
    /\ UNCHANGED <<worker, watched, seen, text, offset, faults>>

\* GET /jobs/:id/log passes on what the agent reads.
GetLog(p) ==
    /\ polls[p].pc = "asked"
    /\ polls' = [polls EXCEPT ![p].pc = "answered", ![p].data = Data(polls[p].offset),
                              ![p].next = NextOffset(polls[p].offset)]
    /\ UNCHANGED <<worker, watched, seen, text, offset, doubled, faults>>

\* No answer, or the Worker's empty one when the agent cannot be reached.
LosePoll(p) ==
    /\ faults < MaxFaults /\ faults' = faults + 1
    /\ polls[p].pc # "idle"
    /\ polls' = [polls EXCEPT ![p] = NoPoll]
    /\ UNCHANGED <<worker, watched, seen, text, offset, doubled>>

\* Mutant: the offset stays where the request began.
ShowLogOnly(p) ==
    /\ polls[p].pc = "answered"
    /\ text' = text \o polls[p].data
    /\ polls' = [polls EXCEPT ![p] = NoPoll]
    /\ UNCHANGED <<worker, watched, seen, offset, doubled, faults>>

\* setLogs and setOffset, if there is data.
ShowLog(p) ==
    /\ polls[p].pc = "answered"
    /\ text' = text \o polls[p].data
    /\ offset' = IF polls[p].data = <<>> THEN offset ELSE polls[p].next
    /\ polls' = [polls EXCEPT ![p] = NoPoll]
    /\ UNCHANGED <<worker, watched, seen, doubled, faults>>

-----------------------------------------------------------------------------

Run == \/ Claim \/ Answered \/ GiveUp \/ Crash \/ Requeue
       \/ \E p \in Percents : Announce(p) \/ \E w \in {1, 2} : Event(p, w)
       \/ \E s \in {"completed", "failed"} : Finish(s)
       \/ \E r \in Slots : ReadPercent(r) \/ WritePercent(r)

View == \/ Load \/ Tick
        \/ \E p \in Slots : GetLog(p) \/ LosePoll(p) \/ ShowLog(p)

Next == Run \/ View

Spec == Init /\ [][Next]_vars

FairSpec == /\ Spec /\ WF_vars(Tick)
            /\ \A p \in Slots : WF_vars(GetLog(p)) /\ WF_vars(ShowLog(p))

-----------------------------------------------------------------------------

\* The state stays within its types.
TypeOK ==
    /\ status \in Statuses /\ percent \in Percents
    /\ log \in Seq({1, 2}) /\ Len(log) <= MaxLog
    /\ agent \in Agent /\ reports \in [Slots -> Report] /\ runs \in 0..MaxRuns
    /\ watched \in BOOLEAN
    /\ seen \in Statuses \cup {"none"} /\ text \in Seq(0..MaxLog) /\ offset \in Nat
    /\ polls \in [Slots -> Poll]
    /\ faults \in 0..MaxFaults /\ crossed \in BOOLEAN /\ doubled \in BOOLEAN

\* Two polls under way read one offset and show a part twice, and an offset
\* counted in characters falls behind the bytes of a line that is not ASCII.
\* But for those two, what is shown is the start of the log, each line once.
LogIsShownOnce ==
    (~doubled /\ \A n \in DOMAIN log : log[n] = 1)
        => /\ text = [n \in 1..Len(text) |-> n]
           /\ Len(text) <= Len(log) /\ offset = Len(text)

\* The percent the page shows falls only after two reports were under way at
\* once, the first given up by a run of the agent that went on or died.
PercentFallsOnlyWhenReportsCross == [][crossed' \/ percent' >= percent]_vars

\* While the page shows a running job, every line of the log comes to be shown,
\* until it shows so many that the bound stops it.
LinesArrive ==
    \A n \in 1..MaxLog :
        (seen = "running" /\ Len(log) >= n)
            ~> (\/ \E i \in DOMAIN text : text[i] = n
                \/ seen # "running" \/ Len(text) >= MaxText)

=============================================================================
