---------------------------- MODULE LiveTailProofs ----------------------------
(* Proofs about LiveTail, for any length of the log, any limit and percents.     *)
EXTENDS LiveTail, FiniteSetTheorems, SequenceTheorems, TLAPS

Lines == 0..MaxLog

\* A set of the first n numbers is finite, and no larger than n.
LEMMA SomeOfTheFirst ==
    ASSUME NEW n \in Nat, NEW S, S \subseteq 1..n
    PROVE  IsFiniteSet(S) /\ Cardinality(S) \in 0..n
<1>1. IsFiniteSet(1..n) /\ Cardinality(1..n) = n
  BY FS_Interval
<1>2. IsFiniteSet(S) /\ Cardinality(S) <= n
  BY <1>1, FS_Subset
<1> QED
  BY <1>2, FS_CardinalityType

LEMMA BytesType ==
    ASSUME TypeOK
    PROVE  (\A n \in Nat : Bytes(n) \in Nat) /\ Size \in Nat /\ Len(log) \in Nat
<1>1. ASSUME NEW n \in Nat PROVE Bytes(n) \in Nat
  <2>1. {i \in 1..n : log[i] = 2} \subseteq 1..n
    OBVIOUS
  <2>2. Cardinality({i \in 1..n : log[i] = 2}) \in Nat
    BY <2>1, SomeOfTheFirst
  <2> QED
    BY <2>2 DEF Bytes
<1>2. Len(log) \in Nat
  BY DEF TypeOK
<1> QED
  BY <1>1, <1>2 DEF Size

\* From, with the lines that can be read whole.
Whole(o) == Cardinality({n \in 1..Len(log) : Bytes(n) <= o})
Rest(i)  == [n \in 1..(Len(log) - i) |-> i + n]

LEMMA FromIs == \A o : From(o) = IF Bytes(Whole(o)) = o THEN Rest(Whole(o))
                                 ELSE <<0>> \o Rest(Whole(o) + 1)
  BY DEF From, Whole, Rest

LEMMA RestType ==
    ASSUME TypeOK, NEW i \in 0..(Len(log) + 1)
    PROVE  Rest(i) \in Seq(Lines)
<1> USE BoundsAssumption
<1>1. Len(log) \in Nat /\ Len(log) <= MaxLog
  BY DEF TypeOK
<1>2. CASE i = Len(log) + 1
  <2>1. 1..(Len(log) - i) = 1..0
    BY <1>1, <1>2
  <2>2. Rest(i) \in [1..0 -> Lines]
    BY <2>1 DEF Rest
  <2> QED
    BY <2>2
<1>3. CASE i <= Len(log)
  <2>1. Len(log) - i \in Nat
    BY <1>1, <1>3
  <2>2. \A n \in 1..(Len(log) - i) : i + n \in Lines
    BY <1>1, <1>3 DEF Lines
  <2>3. Rest(i) \in [1..(Len(log) - i) -> Lines]
    BY <2>2 DEF Rest
  <2> QED
    BY <2>1, <2>3
<1> QED
  BY <1>1, <1>2, <1>3

LEMMA DataType ==
    ASSUME TypeOK, NEW o \in Nat
    PROVE  Data(o) \in Seq(Lines) /\ NextOffset(o) \in Nat
<1> USE BoundsAssumption
<1> DEFINE start == Least(o, Size)
           most  == Least(Limit, Size - start)
           all   == From(start)
<1>1. Size \in Nat /\ start \in Nat /\ start <= Size /\ most \in Nat
  <2>1. Size \in Nat /\ Limit \in Nat
    BY BytesType
  <2>2. start \in Nat /\ start <= Size
    BY <2>1 DEF Least
  <2> HIDE DEF start
  <2> QED
    BY <2>1, <2>2 DEF Least
<1>2. Whole(start) \in 0..Len(log)
  <2>1. {n \in 1..Len(log) : Bytes(n) <= start} \subseteq 1..Len(log)
    OBVIOUS
  <2> QED
    BY <2>1, BytesType, SomeOfTheFirst DEF Whole
<1>3. all \in Seq(Lines)
  <2>1. Rest(Whole(start)) \in Seq(Lines) /\ Rest(Whole(start) + 1) \in Seq(Lines)
    <3>1. /\ Whole(start) \in 0..(Len(log) + 1)
          /\ Whole(start) + 1 \in 0..(Len(log) + 1)
      <4>1. \A w \in 0..Len(log) : /\ w \in 0..(Len(log) + 1)
                                  /\ w + 1 \in 0..(Len(log) + 1)
        BY BytesType
      <4> QED
        BY <1>2, <4>1
    <3> QED
      BY <3>1, RestType
  <2>2. <<0>> \in Seq(Lines)
    BY DEF Lines
  <2>3. <<0>> \o Rest(Whole(start) + 1) \in Seq(Lines)
    BY <2>1, <2>2
  <2> QED
    BY <2>1, <2>3, FromIs
<1> HIDE DEF all, most, start
<1>4. Least(most, Len(all)) \in 0..Len(all)
  BY <1>1, <1>3 DEF Least
<1>5. SubSeq(all, 1, Least(most, Len(all))) \in Seq(Lines)
  <2>1. \A n \in 1..Least(most, Len(all)) : n \in 1..Len(all)
    BY <1>4
  <2> QED
    BY <1>3, <1>4, <2>1
<1>6. Data(o) = SubSeq(all, 1, Least(most, Len(all)))
  BY DEF Data, all, most, start
<1>7. NextOffset(o) = start + Len(Data(o))
  BY DEF NextOffset, start
<1> QED
  BY <1>1, <1>5, <1>6, <1>7

-----------------------------------------------------------------------------

LEMMA InitType == Init => TypeOK
<1> SUFFICES ASSUME Init PROVE TypeOK
  OBVIOUS
<1> USE BoundsAssumption
<1>1. NoPoll \in Poll
  <2>1. <<>> \in Seq(0..MaxLog)
    OBVIOUS
  <2> QED
    BY <2>1 DEF NoPoll, Poll
<1>2. NoReport \in Report /\ Idle \in Agent /\ 0 \in Percents
  BY DEF NoReport, Report, Idle, Agent, Percents
<1>3. log \in Seq({1, 2}) /\ Len(log) = 0 /\ text \in Seq(0..MaxLog)
  BY DEF Init
<1>4. Len(log) <= MaxLog /\ runs \in 0..MaxRuns /\ faults \in 0..MaxFaults
  BY <1>3 DEF Init
<1>5. polls \in [Slots -> Poll] /\ reports \in [Slots -> Report]
  BY <1>1, <1>2 DEF Init
<1> QED
  BY <1>2, <1>3, <1>4, <1>5 DEF Init, TypeOK, Statuses

\* The agent's and the Worker's part of the state.
WorkType ==
    /\ status \in Statuses /\ percent \in Percents
    /\ log \in Seq({1, 2}) /\ Len(log) <= MaxLog
    /\ agent \in Agent /\ reports \in [Slots -> Report] /\ runs \in 0..MaxRuns
    /\ crossed \in BOOLEAN

\* The page's.
ViewType ==
    /\ watched \in BOOLEAN
    /\ seen \in Statuses \cup {"none"} /\ text \in Seq(0..MaxLog) /\ offset \in Nat
    /\ polls \in [Slots -> Poll] /\ doubled \in BOOLEAN

LEMMA TypeParts == TypeOK <=> WorkType /\ ViewType /\ faults \in 0..MaxFaults
  BY DEF TypeOK, WorkType, ViewType

LEMMA SendType ==
    ASSUME TypeOK, NEW p \in Percents, Send(p)
    PROVE  agent' \in Agent /\ reports' \in [Slots -> Report] /\ crossed' \in BOOLEAN
<1> USE BoundsAssumption
<1>1. PICK r \in Slots :
        /\ reports' = [reports EXCEPT ![r] = [NoReport EXCEPT !.pc = "sent",
                                                              !.percent = p]]
        /\ agent' = [agent EXCEPT !.last = p, !.report = r]
        /\ crossed' = (crossed \/ \E q \in Slots : reports[q].pc # "idle")
  BY DEF Send
<1>2. [NoReport EXCEPT !.pc = "sent", !.percent = p] \in Report
  <2>1. 0 \in Percents
    BY DEF Percents
  <2> QED
    BY <2>1 DEF NoReport, Report
<1>3. [agent EXCEPT !.last = p, !.report = r] \in Agent
  BY DEF TypeOK, Agent
<1> QED
  BY <1>1, <1>2, <1>3 DEF TypeOK

LEMMA RunType ==
    ASSUME TypeOK, Run
    PROVE  WorkType' /\ UNCHANGED viewer /\ faults' \in 0..MaxFaults
<1> USE BoundsAssumption
<1>1. /\ status \in Statuses /\ percent \in Percents
      /\ log \in Seq({1, 2}) /\ Len(log) <= MaxLog
      /\ agent \in Agent /\ reports \in [Slots -> Report] /\ runs \in 0..MaxRuns
      /\ crossed \in BOOLEAN /\ faults \in 0..MaxFaults
  BY DEF TypeOK
<1>2. Idle \in Agent /\ [Idle EXCEPT !.at = "working"] \in Agent
  BY DEF Idle, Agent, Percents
<1>3. CASE Claim
  <2>1. runs' \in 0..MaxRuns
    BY <1>1, <1>3 DEF Claim
  <2> QED
    BY <1>1, <1>2, <1>3, <2>1 DEF Claim, WorkType, Statuses
<1>4. CASE Answered \/ GiveUp \/ Crash
  <2>1. [agent EXCEPT !.report = 0] \in Agent
    BY <1>1 DEF Agent
  <2>2. faults' \in 0..MaxFaults
    BY <1>1, <1>4 DEF Answered, GiveUp, Crash
  <2> QED
    BY <1>1, <1>2, <1>4, <2>1, <2>2 DEF Answered, GiveUp, Crash, WorkType
<1>5. CASE Requeue
  BY <1>1, <1>5 DEF Requeue, WorkType, Statuses
<1>6. ASSUME NEW p \in Percents, Announce(p)
      PROVE  WorkType' /\ UNCHANGED viewer /\ faults' \in 0..MaxFaults
  BY <1>1, <1>6, SendType DEF Announce, WorkType
<1>7. ASSUME NEW p \in Percents, NEW w \in {1, 2}, Event(p, w)
      PROVE  WorkType' /\ UNCHANGED viewer /\ faults' \in 0..MaxFaults
  <2>1. log' \in Seq({1, 2}) /\ Len(log') <= MaxLog
    <3>1. log' = Append(log, w) /\ Len(log) \in Nat /\ Len(log) < MaxLog
      BY <1>1, <1>7 DEF Event
    <3>2. Append(log, w) \in Seq({1, 2}) /\ Len(Append(log, w)) = Len(log) + 1
      BY <1>1
    <3> QED
      BY <3>1, <3>2
  <2>2. agent' \in Agent /\ reports' \in [Slots -> Report] /\ crossed' \in BOOLEAN
    BY <1>1, <1>7, SendType DEF Event
  <2> QED
    BY <1>1, <1>7, <2>1, <2>2 DEF Event, WorkType
<1>8. ASSUME NEW s \in {"completed", "failed"}, Finish(s)
      PROVE  WorkType' /\ UNCHANGED viewer /\ faults' \in 0..MaxFaults
  BY <1>1, <1>2, <1>8 DEF Finish, WorkType, Statuses, Percents
<1>9. ASSUME NEW r \in Slots, ReadPercent(r)
      PROVE  WorkType' /\ UNCHANGED viewer /\ faults' \in 0..MaxFaults
  <2>1. [reports[r] EXCEPT !.pc = "read", !.old = percent] \in Report
    BY <1>1 DEF Report
  <2>2. reports' \in [Slots -> Report]
    BY <1>1, <1>9, <2>1 DEF ReadPercent
  <2> QED
    BY <1>1, <1>9, <2>2 DEF ReadPercent, WorkType
<1>10. ASSUME NEW r \in Slots, WritePercent(r)
       PROVE  WorkType' /\ UNCHANGED viewer /\ faults' \in 0..MaxFaults
  <2>1. NoReport \in Report /\ NewPercent(reports[r]) \in Percents
    BY <1>1 DEF NoReport, NewPercent, Report, Percents, Greatest
  <2> QED
    BY <1>1, <1>10, <2>1 DEF WritePercent, WorkType
<1> QED
  BY <1>3, <1>4, <1>5, <1>6, <1>7, <1>8, <1>9, <1>10 DEF Run

LEMMA AskType ==
    ASSUME TypeOK, NEW p \in Slots, Ask(p)
    PROVE  polls' \in [Slots -> Poll] /\ doubled' \in BOOLEAN
<1>1. <<>> \in Seq(0..MaxLog)
  OBVIOUS
<1>2. [NoPoll EXCEPT !.pc = "asked", !.offset = offset] \in Poll
  BY <1>1 DEF NoPoll, Poll, TypeOK
<1> QED
  BY <1>2 DEF Ask, TypeOK

LEMMA ViewKept ==
    ASSUME TypeOK, View
    PROVE  ViewType' /\ UNCHANGED worker /\ faults' \in 0..MaxFaults
<1> USE BoundsAssumption
<1>1. /\ watched \in BOOLEAN
      /\ seen \in Statuses \cup {"none"} /\ text \in Seq(0..MaxLog) /\ offset \in Nat
      /\ polls \in [Slots -> Poll] /\ doubled \in BOOLEAN /\ faults \in 0..MaxFaults
      /\ status \in Statuses
  BY DEF TypeOK
<1>2. NoPoll \in Poll
  <2>1. <<>> \in Seq(0..MaxLog)
    OBVIOUS
  <2> QED
    BY <2>1 DEF NoPoll, Poll
<1>3. CASE Load
  <2>1. polls' \in [Slots -> Poll] /\ doubled' \in BOOLEAN
    BY <1>1, <1>3, AskType DEF Load, Slots
  <2> QED
    BY <1>1, <1>3, <2>1 DEF Load, ViewType
<1>4. CASE Tick
  <2>1. polls' \in [Slots -> Poll] /\ doubled' \in BOOLEAN
    BY <1>4, AskType DEF Tick
  <2> QED
    BY <1>1, <1>4, <2>1 DEF Tick, ViewType
<1>5. ASSUME NEW p \in Slots, GetLog(p)
      PROVE  ViewType' /\ UNCHANGED worker /\ faults' \in 0..MaxFaults
  <2>1. polls[p].offset \in Nat
    BY <1>1 DEF Poll
  <2>2. Data(polls[p].offset) \in Seq(0..MaxLog) /\ NextOffset(polls[p].offset) \in Nat
    BY <2>1, DataType DEF Lines
  <2>3. [polls[p] EXCEPT !.pc = "answered", !.data = Data(polls[p].offset),
                         !.next = NextOffset(polls[p].offset)] \in Poll
    BY <1>1, <2>2 DEF Poll
  <2>4. polls' \in [Slots -> Poll]
    BY <1>1, <1>5, <2>3 DEF GetLog
  <2> QED
    BY <1>1, <1>5, <2>4 DEF GetLog, ViewType
<1>6. ASSUME NEW p \in Slots, LosePoll(p)
      PROVE  ViewType' /\ UNCHANGED worker /\ faults' \in 0..MaxFaults
  <2>1. faults' \in 0..MaxFaults
    BY <1>1, <1>6 DEF LosePoll
  <2>2. polls' \in [Slots -> Poll]
    BY <1>1, <1>2, <1>6 DEF LosePoll
  <2> QED
    BY <1>1, <1>6, <2>1, <2>2 DEF LosePoll, ViewType
<1>7. ASSUME NEW p \in Slots, ShowLog(p)
      PROVE  ViewType' /\ UNCHANGED worker /\ faults' \in 0..MaxFaults
  <2>1. polls[p].data \in Seq(0..MaxLog) /\ polls[p].next \in Nat
    BY <1>1 DEF Poll
  <2>2. text' \in Seq(0..MaxLog) /\ offset' \in Nat
    BY <1>1, <1>7, <2>1 DEF ShowLog
  <2> QED
    BY <1>1, <1>2, <1>7, <2>2 DEF ShowLog, ViewType
<1> QED
  BY <1>3, <1>4, <1>5, <1>6, <1>7 DEF View

LEMMA TypeKept == TypeOK /\ [Next]_vars => TypeOK'
<1> SUFFICES ASSUME TypeOK, [Next]_vars PROVE TypeOK'
  OBVIOUS
<1>1. CASE Run
  <2>1. ViewType'
    BY <1>1, RunType, TypeParts DEF viewer, ViewType
  <2> QED
    BY <1>1, <2>1, RunType DEF TypeOK, WorkType, ViewType
<1>2. CASE View
  <2>1. WorkType'
    BY <1>2, ViewKept, TypeParts DEF worker, WorkType
  <2> QED
    BY <1>2, <2>1, ViewKept DEF TypeOK, WorkType, ViewType
<1>3. CASE UNCHANGED vars
  BY <1>3 DEF vars, TypeOK
<1> QED
  BY <1>1, <1>2, <1>3 DEF Next

\* Whatever the log, the reports and the polls, the state stays within its
\* types; above all, the percent never passes 100, and get_log of main.py answers
\* every offset with lines of the log, or broken characters.
THEOREM TailTypeCorrect == Spec => []TypeOK
  BY InitType, TypeKept, PTL DEF Spec

-----------------------------------------------------------------------------

\* Until two reports cross, there is one at a time, and what it has read is what
\* progress_percent still is, as long as the job is not done.
ReportsInv ==
    ~crossed =>
        /\ \A q, r \in Slots : reports[q].pc # "idle" /\ reports[r].pc # "idle" => q = r
        /\ \A r \in Slots :
              reports[r].pc = "read" /\ status \in {"queued", "running"}
                => reports[r].old = percent

\* A report that is sent while another is not handled is a crossing.
LEMMA SendsAlone ==
    ASSUME TypeOK, ReportsInv, NEW p \in Percents, Send(p),
           UNCHANGED <<status, percent>>
    PROVE  ReportsInv'
<1>1. PICK r \in Slots :
        /\ reports' = [reports EXCEPT ![r] = [NoReport EXCEPT !.pc = "sent",
                                                              !.percent = p]]
        /\ crossed' = (crossed \/ \E q \in Slots : reports[q].pc # "idle")
  BY DEF Send
<1>2. [NoReport EXCEPT !.pc = "sent", !.percent = p].pc = "sent"
  BY DEF NoReport
<1>3. reports'[r].pc = "sent" /\ \A q \in Slots \ {r} : reports'[q] = reports[q]
  BY <1>1, <1>2 DEF TypeOK
<1>4. ~crossed' => \A q \in Slots \ {r} : reports'[q].pc = "idle"
  BY <1>1, <1>3
<1> QED
  BY <1>3, <1>4 DEF ReportsInv

LEMMA ReportsKept == TypeOK /\ ReportsInv /\ [Next]_vars => ReportsInv'
<1> SUFFICES ASSUME TypeOK, ReportsInv, [Next]_vars PROVE ReportsInv'
  OBVIOUS
<1> USE DEF ReportsInv
<1>1. CASE UNCHANGED <<reports, crossed, percent>>
           /\ (status' \in {"queued", "running"} => status \in {"queued", "running"})
  BY <1>1
<1>2. ASSUME NEW p \in Percents, Announce(p) PROVE ReportsInv'
  BY <1>2, SendsAlone DEF Announce
<1>3. ASSUME NEW p \in Percents, NEW w \in {1, 2}, Event(p, w) PROVE ReportsInv'
  <2>1. CASE Send(p)
    BY <1>3, <2>1, SendsAlone DEF Event
  <2> QED
    BY <1>1, <1>3, <2>1 DEF Event
<1>4. ASSUME NEW s \in {"completed", "failed"}, Finish(s) PROVE ReportsInv'
  BY <1>4 DEF Finish
<1>5. ASSUME NEW r \in Slots, ReadPercent(r) PROVE ReportsInv'
  <2>1. /\ reports'[r].pc = "read" /\ reports'[r].old = percent
        /\ \A q \in Slots \ {r} : reports'[q] = reports[q]
    BY <1>5 DEF ReadPercent, TypeOK, Report
  <2>2. UNCHANGED <<percent, crossed, status>> /\ reports[r].pc # "idle"
    BY <1>5 DEF ReadPercent
  <2> QED
    BY <2>1, <2>2
<1>6. ASSUME NEW r \in Slots, WritePercent(r) PROVE ReportsInv'
  <2>1. /\ reports'[r].pc = "idle" /\ reports[r].pc # "idle"
        /\ \A q \in Slots \ {r} : reports'[q] = reports[q]
    BY <1>6 DEF WritePercent, TypeOK, NoReport
  <2>2. crossed' = crossed
    BY <1>6 DEF WritePercent
  <2>3. ~crossed => \A q \in Slots : reports'[q].pc = "idle"
    BY <2>1
  <2> QED
    BY <2>2, <2>3
<1>7. CASE Claim \/ Answered \/ GiveUp \/ Crash \/ Requeue
  BY <1>1, <1>7 DEF Claim, Answered, GiveUp, Crash, Requeue
<1>8. CASE View
  BY <1>1, <1>8, ViewKept DEF worker
<1>9. CASE UNCHANGED vars
  BY <1>1, <1>9 DEF vars
<1> QED
  BY <1>2, <1>3, <1>4, <1>5, <1>6, <1>7, <1>8, <1>9 DEF Next, Run

LEMMA ReportsHold == Spec => [](TypeOK /\ ReportsInv)
<1>1. Init => ReportsInv
  BY DEF Init, ReportsInv, NoReport
<1> QED
  BY <1>1, InitType, TypeKept, ReportsKept, PTL DEF Spec

LEMMA PercentStep ==
    TypeOK /\ ReportsInv /\ [Next]_vars => crossed' \/ percent' >= percent
<1> SUFFICES ASSUME TypeOK, ReportsInv, [Next]_vars, ~crossed' PROVE percent' >= percent
  OBVIOUS
<1> USE BoundsAssumption
<1>1. percent \in 0..Full /\ percent \in Nat /\ Full \in Nat
  BY DEF TypeOK, Percents
<1>2. CASE percent' = percent
  BY <1>1, <1>2
<1>3. ASSUME NEW s \in {"completed", "failed"}, Finish(s) PROVE percent' >= percent
  BY <1>1, <1>3 DEF Finish
<1>4. ASSUME NEW r \in Slots, WritePercent(r) PROVE percent' >= percent
  <2>1. CASE status = "running"
    <3>1. reports[r].old = percent
      BY <1>4, <2>1 DEF WritePercent, ReportsInv
    <3>2. reports[r].percent \in 0..Full
      BY DEF TypeOK, Report, Percents
    <3>3. percent' = Greatest(percent, reports[r].percent)
      BY <1>4, <2>1, <3>1 DEF WritePercent, NewPercent
    <3> QED
      BY <1>1, <3>2, <3>3 DEF Greatest
  <2> QED
    BY <1>1, <1>4, <2>1 DEF WritePercent
<1>5. CASE Claim \/ Answered \/ GiveUp \/ Crash \/ Requeue
  BY <1>2, <1>5 DEF Claim, Answered, GiveUp, Crash, Requeue
<1>6. ASSUME NEW p \in Percents, Announce(p) \/ \E w \in {1, 2} : Event(p, w)
      PROVE  percent' >= percent
  BY <1>2, <1>6 DEF Announce, Event
<1>7. ASSUME NEW r \in Slots, ReadPercent(r) PROVE percent' >= percent
  BY <1>2, <1>7 DEF ReadPercent
<1>8. CASE View \/ UNCHANGED vars
  BY <1>2, <1>8, ViewKept DEF worker, vars
<1> QED
  BY <1>3, <1>4, <1>5, <1>6, <1>7, <1>8 DEF Next, Run

\* However many runs, lines and reports there are, progress_percent falls only
\* after two reports were to be handled at once: POST /agent/jobs/:id/progress
\* reads it in one statement and writes the greater in another.
THEOREM PercentFallsOnlyWhenReportsCrossHolds == Spec => PercentFallsOnlyWhenReportsCross
<1>1. TypeOK /\ ReportsInv /\ [Next]_vars => [crossed' \/ percent' >= percent]_vars
  BY PercentStep
<1> QED
  BY <1>1, ReportsHold, PTL DEF Spec, PercentFallsOnlyWhenReportsCross

-----------------------------------------------------------------------------

Ascii == \A n \in DOMAIN log : log[n] = 1

\* The lines a to a + k - 1 of the log.
Numbers(a, k) == [i \in 1..k |-> a + i]

\* In a log of one-byte lines, bytes and characters are the same.
LEMMA AsciiBytes ==
    ASSUME TypeOK, Ascii
    PROVE  (\A n \in 0..Len(log) : Bytes(n) = n) /\ Size = Len(log)
<1>1. ASSUME NEW n \in 0..Len(log) PROVE Bytes(n) = n
  <2>1. \A i \in 1..n : log[i] = 1
    BY <1>1 DEF TypeOK, Ascii
  <2>2. {i \in 1..n : log[i] = 2} = {}
    BY <2>1
  <2>3. Cardinality({i \in 1..n : log[i] = 2}) = 0
    BY <2>2, FS_EmptySet
  <2> QED
    BY <2>3 DEF Bytes
<1> QED
  BY <1>1, BytesType DEF Size

LEMMA AsciiData ==
    ASSUME TypeOK, Ascii, NEW o \in 0..Len(log)
    PROVE  \E k \in 0..(Len(log) - o) :
              Data(o) = Numbers(o, k) /\ NextOffset(o) = o + k
<1> USE BoundsAssumption
<1> DEFINE rest == Len(log) - o
           k    == Least(Least(Limit, rest), rest)
<1>1. Len(log) \in Nat /\ rest \in 0..Len(log) /\ Limit \in Nat
  BY BytesType
<1>2. Least(o, Size) = o /\ Size = Len(log)
  BY <1>1, AsciiBytes DEF Least
<1>3. Whole(o) = o
  <2>1. {n \in 1..Len(log) : Bytes(n) <= o} = 1..o
    BY <1>1, AsciiBytes
  <2>2. Cardinality(1..o) = o
    BY <1>1, FS_Interval
  <2> QED
    BY <2>1, <2>2 DEF Whole
<1>4. From(o) = Numbers(o, rest)
  BY <1>3, AsciiBytes, FromIs DEF Rest, Numbers
<1>5. Len(Numbers(o, rest)) = rest
  BY <1>1 DEF Numbers
<1>6. k \in 0..rest
  BY <1>1 DEF Least
<1>7. Data(o) = SubSeq(Numbers(o, rest), 1, k)
  BY <1>2, <1>4, <1>5 DEF Data
<1> HIDE DEF rest, k
<1>8. SubSeq(Numbers(o, rest), 1, k) = Numbers(o, k)
  BY <1>1, <1>6 DEF Numbers
<1>9. Len(Numbers(o, k)) = k
  BY <1>6, <1>1 DEF Numbers
<1>10. NextOffset(o) = o + k
  BY <1>2, <1>7, <1>8, <1>9 DEF NextOffset
<1> QED
  BY <1>6, <1>7, <1>8, <1>10 DEF rest

\* The text is the start of the log up to the offset, and the poll under way, if
\* there is one, is for what comes next.
Shown ==
    /\ text = Numbers(0, Len(text)) /\ Len(text) <= Len(log) /\ offset = Len(text)
    /\ \A p, q \in Slots : polls[p].pc # "idle" /\ polls[q].pc # "idle" => p = q
    /\ \A p \in Slots : polls[p].pc # "idle" => polls[p].offset = offset
    /\ \A p \in Slots : polls[p].pc = "answered" =>
          \E k \in 0..(Len(log) - offset) :
             polls[p].data = Numbers(offset, k) /\ polls[p].next = offset + k

TailInv == ~doubled /\ Ascii => Shown

LEMMA NumbersJoin ==
    ASSUME NEW a \in Nat, NEW k \in Nat
    PROVE  /\ Numbers(0, a) \o Numbers(a, k) = Numbers(0, a + k)
           /\ Len(Numbers(0, a)) = a /\ Len(Numbers(a, k)) = k
           /\ Len(Numbers(0, a + k)) = a + k
  BY DEF Numbers

\* The log only grows, and stays as it was.
LEMMA LogGrows ==
    ASSUME TypeOK, Run
    PROVE  /\ Len(log) \in Nat /\ Len(log') \in Nat /\ Len(log) <= Len(log')
           /\ Ascii' => Ascii
<1>1. Len(log) \in Nat /\ log \in Seq({1, 2})
  BY DEF TypeOK
<1>2. CASE log' = log
  BY <1>1, <1>2 DEF Ascii
<1>3. ASSUME NEW w \in {1, 2}, log' = Append(log, w) 
      PROVE  Len(log) <= Len(log') /\ (Ascii' => Ascii) /\ Len(log') \in Nat
  <2>1. /\ Len(Append(log, w)) = Len(log) + 1
        /\ DOMAIN log \subseteq DOMAIN Append(log, w)
        /\ \A n \in DOMAIN log : Append(log, w)[n] = log[n]
    BY <1>1
  <2> QED
    BY <1>1, <1>3, <2>1 DEF Ascii
<1>4. log' = log \/ \E w \in {1, 2} : log' = Append(log, w)
  BY DEF Run, Claim, Answered, GiveUp, Crash, Requeue, Announce, Event, Finish,
         ReadPercent, WritePercent
<1>5. log' = log => Len(log') = Len(log)
  OBVIOUS
<1> QED
  BY <1>1, <1>2, <1>3, <1>4, <1>5

LEMMA TailAsked ==
    ASSUME TypeOK, TailInv, NEW p \in Slots, Ask(p), UNCHANGED <<log, text, offset>>
    PROVE  TailInv'
<1> SUFFICES ASSUME ~doubled', Ascii' PROVE Shown'
  BY DEF TailInv
<1>1. Shown /\ \A q \in Slots : polls[q].pc = "idle"
  BY DEF Ask, TailInv, Ascii
<1>2. /\ polls'[p].pc = "asked" /\ polls'[p].offset = offset
      /\ \A q \in Slots \ {p} : polls'[q] = polls[q]
  BY DEF Ask, TypeOK, NoPoll
<1> QED
  BY <1>1, <1>2 DEF Shown

LEMMA TailAnswered ==
    ASSUME TypeOK, TailInv, NEW p \in Slots, GetLog(p)
    PROVE  TailInv'
<1> SUFFICES ASSUME ~doubled', Ascii' PROVE Shown'
  BY DEF TailInv
<1>1. Shown /\ Ascii /\ UNCHANGED <<log, text, offset>>
  BY DEF GetLog, worker, TailInv, Ascii
<1>2. polls[p].offset = offset /\ offset \in 0..Len(log)
  BY <1>1 DEF GetLog, Shown, TypeOK
<1>3. PICK k \in 0..(Len(log) - offset) :
        Data(offset) = Numbers(offset, k) /\ NextOffset(offset) = offset + k
  BY <1>1, <1>2, AsciiData
<1>4. /\ polls'[p].pc = "answered" /\ polls'[p].offset = offset
      /\ polls'[p].data = Numbers(offset, k) /\ polls'[p].next = offset + k
      /\ \A q \in Slots \ {p} : polls'[q] = polls[q]
  BY <1>2, <1>3 DEF GetLog, TypeOK, Poll
<1>5. polls[p].pc # "idle"
  BY DEF GetLog
<1> QED
  BY <1>1, <1>3, <1>4, <1>5 DEF Shown

LEMMA TailShown ==
    ASSUME TypeOK, TailInv, NEW p \in Slots, ShowLog(p)
    PROVE  TailInv'
<1> SUFFICES ASSUME ~doubled', Ascii' PROVE Shown'
  BY DEF TailInv
<1>1. Shown /\ log' = log /\ polls[p].pc = "answered"
  BY DEF ShowLog, worker, TailInv, Ascii
<1>2. offset \in Nat /\ Len(log) \in Nat /\ offset <= Len(log)
  BY <1>1 DEF Shown, TypeOK
<1>3. PICK k \in 0..(Len(log) - offset) :
        polls[p].data = Numbers(offset, k) /\ polls[p].next = offset + k
  BY <1>1 DEF Shown
<1>4. k \in Nat
  BY <1>2, <1>3
<1>5. text' = Numbers(0, offset + k) /\ Len(text') = offset + k
  <2>1. text' = Numbers(0, offset) \o Numbers(offset, k)
    BY <1>1, <1>3 DEF ShowLog, Shown
  <2> QED
    BY <1>2, <1>4, <2>1, NumbersJoin
<1>6. offset' = offset + k
  <2>1. CASE polls[p].data = <<>>
    <3>1. Len(Numbers(offset, k)) = 0
      BY <1>3, <2>1
    <3>2. k = 0
      BY <1>2, <1>4, <3>1, NumbersJoin
    <3> QED
      BY <1>2, <2>1, <3>2 DEF ShowLog
  <2> QED
    BY <1>3, <2>1 DEF ShowLog
<1>7. \A q \in Slots : polls'[q].pc = "idle"
  BY <1>1 DEF Shown, ShowLog, TypeOK, NoPoll
<1> QED
  BY <1>1, <1>2, <1>3, <1>5, <1>6, <1>7 DEF Shown

LEMMA TailKept == TypeOK /\ TailInv /\ [Next]_vars => TailInv'
<1> SUFFICES ASSUME TypeOK, TailInv, [Next]_vars PROVE TailInv'
  OBVIOUS
<1>1. CASE Run
  <2> SUFFICES ASSUME ~doubled', Ascii' PROVE Shown'
    BY DEF TailInv
  <2>1. UNCHANGED <<text, offset, polls, doubled>>
    BY <1>1, RunType DEF viewer
  <2>2. Shown /\ Len(log) \in Nat /\ Len(log') \in Nat /\ Len(log) <= Len(log')
    BY <1>1, <2>1, LogGrows DEF TailInv
  <2>3. \A k \in 0..(Len(log) - offset) : k \in 0..(Len(log') - offset)
    BY <2>2 DEF Shown, TypeOK
  <2> QED
    BY <2>1, <2>2, <2>3 DEF Shown, TypeOK
<1>2. CASE Load
  <2>1. CASE seen = "none"
    BY <1>2, <2>1, TailAsked DEF Load, worker, Slots
  <2> QED
    BY <1>2, <2>1 DEF Load, worker, TailInv, Shown, Ascii
<1>3. CASE Tick
  BY <1>3, TailAsked DEF Tick, worker
<1>4. ASSUME NEW p \in Slots, GetLog(p) \/ ShowLog(p) PROVE TailInv'
  BY <1>4, TailAnswered, TailShown
<1>5. ASSUME NEW p \in Slots, LosePoll(p) PROVE TailInv'
  <2>1. UNCHANGED <<log, text, offset, doubled>>
    BY <1>5 DEF LosePoll, worker
  <2>2. polls'[p].pc = "idle" /\ \A q \in Slots \ {p} : polls'[q] = polls[q]
    BY <1>5 DEF LosePoll, TypeOK, NoPoll
  <2>3. Shown => Shown'
    BY <2>1, <2>2 DEF Shown
  <2> QED
    BY <2>1, <2>3 DEF TailInv, Ascii
<1>6. CASE UNCHANGED vars
  BY <1>6 DEF vars, TailInv, Shown, Ascii
<1> QED
  BY <1>1, <1>2, <1>3, <1>4, <1>5, <1>6 DEF Next, View

LEMMA TailHolds == Spec => []TailInv
<1>1. Init => TailInv
  <2> SUFFICES ASSUME Init PROVE Shown
    BY DEF TailInv
  <2>1. text = <<>> /\ Len(text) = 0 /\ Len(log) = 0 /\ offset = 0
    BY DEF Init
  <2>2. Numbers(0, 0) = <<>>
    BY DEF Numbers
  <2>3. \A p \in Slots : polls[p].pc = "idle"
    BY DEF Init, NoPoll
  <2> QED
    BY <2>1, <2>2, <2>3 DEF Shown
<1> QED
  BY <1>1, InitType, TypeKept, TailKept, PTL DEF Spec

\* Whatever the log's length, the part asked for at once and the polls that are
\* lost: as long as one poll of LogViewer.tsx is under way at a time and every
\* line is ASCII, each line is shown once and in order.
THEOREM LogIsShownOnceHolds == Spec => []LogIsShownOnce
<1>1. TypeOK /\ TailInv => LogIsShownOnce
  BY DEF TailInv, Shown, Ascii, Numbers, LogIsShownOnce, TypeOK
<1> QED
  BY <1>1, InitType, TypeKept, TailHolds, PTL DEF Spec

===============================================================================
