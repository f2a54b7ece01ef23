---------------------------- MODULE GuestLimits ----------------------------
(***************************************************************************)
(* The limits on guests (POST /jobs without a token, worker/src/index.ts): *)
(* a daily quota per address in usage_limits, and in public_rate_limits a  *)
(* window of 24 hours per address and one per browser (client_id).         *)
(*                                                                         *)
(* checkRateLimit counts with one statement and reads the count with       *)
(* another; the quota is looked at first, reserved later and refunded when *)
(* the upload fails.  Several requests interleave at each statement.  Time *)
(* is counted in ticks, Window of them to a day; a request lasts less than *)
(* a tick, so at most one passing of time falls within it.                 *)
(***************************************************************************)
EXTENDS Integers, FiniteSets

CONSTANTS
    Requests,     \* the POST requests
    Clients, Ips, \* keys `client:<hash>` and `ip:<hash>` of public_rate_limits
    ClientOf, IpOf,
    ClientLimit,  \* checkRateLimit(`client:...`, 1, 24 h)
    IpLimit,      \* checkRateLimit(`ip:...`, 3, 24 h)
    DailyLimit,   \* usageLimitsForScope(true, false).jobsPerDay
    Window,       \* ticks in 24 hours
    Horizon       \* bound on time

ASSUME GuestAssumption ==
    /\ IsFiniteSet(Requests)
    /\ ClientOf \in [Requests -> Clients]
    /\ IpOf \in [Requests -> Ips]
    /\ Clients \cap Ips = {}
    /\ {ClientLimit, IpLimit, DailyLimit, Window} \subseteq Nat \ {0}
    /\ Horizon \in Nat

VARIABLES
    now,    \* the clock of the Worker
    rate,   \* public_rate_limits: [start, count] of each key, count 0 if no row
    usage,  \* usage_limits.jobs_created of each day and address
    req     \* the handler of each request

vars == <<now, rate, usage, req>>

Time == 0..Horizon
Day(t) == t \div Window
Keys == Clients \cup Ips
Kind == {"ip", "client"}

KeyOf(r, kind) == IF kind = "ip" THEN IpOf[r] ELSE ClientOf[r]
Limit(kind)    == IF kind = "ip" THEN IpLimit ELSE ClientLimit

\* "rejected" stands for the refusals before the two checks, "dropped" for
\* those after them.
PC == {"idle", "looked", "ipDue", "ipCounted", "clientDue", "clientCounted",
       "admitted", "reserved", "accepted", "refunded", "rejected", "dropped",
       "thrown", "stranded", "limitedByIp", "limitedByClient"}

Ended == {"accepted", "refunded", "rejected", "dropped", "thrown", "stranded",
          "limitedByIp", "limitedByClient"}

DuePC(kind)     == IF kind = "ip" THEN "ipDue" ELSE "clientDue"
CountedPC(kind) == IF kind = "ip" THEN "ipCounted" ELSE "clientCounted"
LimitedPC(kind) == IF kind = "ip" THEN "limitedByIp" ELSE "limitedByClient"

\* begun is when the handler computed todayDate; stamp is the `now` of each
\* checkRateLimit.
Handler == [pc : PC, begun : Time, stamp : [Kind -> Time]]

Fresh == [pc |-> "idle", begun |-> 0, stamp |-> [kind \in Kind |-> 0]]

TypeOK ==
    /\ now \in Time
    /\ rate \in [Keys -> [start : Time, count : Nat]]
    /\ usage \in [Time -> [Ips -> Nat]]
    /\ req \in [Requests -> Handler]

Init ==
    /\ now = 0
    /\ rate = [k \in Keys |-> [start |-> 0, count |-> 0]]
    /\ usage = [d \in Time |-> [i \in Ips |-> 0]]
    /\ req = [r \in Requests |-> Fresh]

InFlight(r) == req[r].pc \notin Ended \cup {"idle"}

Tick ==
    /\ now < Horizon
    /\ \A r \in Requests : InFlight(r) => req[r].begun = now
    /\ now' = now + 1
    /\ UNCHANGED <<rate, usage, req>>

Day0(r) == Day(req[r].begun)

\* The look at usage_limits that opens the handler.
Look(r) ==
    /\ req[r].pc = "idle"
    /\ req' = [req EXCEPT ![r].begun = now,
                 ![r].pc = IF usage[Day(now)][IpOf[r]] < DailyLimit
                           THEN "looked" ELSE "rejected"]
    /\ UNCHANGED <<now, rate, usage>>

\* verifyTurnstile asks its service; the check of the address follows.
Verify(r) ==
    /\ req[r].pc = "looked"
    /\ \/ req' = [req EXCEPT ![r].pc = "ipDue", ![r].stamp["ip"] = now]
       \/ req' = [req EXCEPT ![r].pc = "rejected"]
    /\ UNCHANGED <<now, rate, usage>>

\* The row after INSERT ... ON CONFLICT DO UPDATE: a first row, a new window,
\* or one more in the window.
Upserted(k, stamp) ==
    IF rate[k].count = 0 \/ rate[k].start < stamp - Window
    THEN [start |-> stamp, count |-> 1]
    ELSE [rate[k] EXCEPT !.count = @ + 1]

Count(r, kind) ==
    LET k == KeyOf(r, kind) IN
    /\ req[r].pc = DuePC(kind)
    /\ rate' = [rate EXCEPT ![k] = Upserted(k, req[r].stamp[kind])]
    /\ req' = [req EXCEPT ![r].pc = CountedPC(kind)]
    /\ UNCHANGED <<now, usage>>

\* Past the address comes the client, with a `now` of its own.
Proceed(r, kind) ==
    IF kind = "ip"
    THEN [req EXCEPT ![r].pc = "clientDue", ![r].stamp["client"] = now]
    ELSE [req EXCEPT ![r].pc = "admitted"]

\* Mutant: the limit is held against the requests before this one.
CheckOthers(r, kind) ==
    /\ req[r].pc = CountedPC(kind)
    /\ req' = IF rate[KeyOf(r, kind)].count - 1 <= Limit(kind)
              THEN Proceed(r, kind)
              ELSE [req EXCEPT ![r].pc = LimitedPC(kind)]
    /\ UNCHANGED <<now, rate, usage>>

\* SELECT count.
Check(r, kind) ==
    /\ req[r].pc = CountedPC(kind)
    /\ req' = IF rate[KeyOf(r, kind)].count <= Limit(kind)
              THEN Proceed(r, kind)
              ELSE [req EXCEPT ![r].pc = LimitedPC(kind)]
    /\ UNCHANGED <<now, rate, usage>>

\* No provider is configured: the request is refused after it was counted.
Unconfigured(r) ==
    /\ req[r].pc = "admitted"
    /\ req' = [req EXCEPT ![r].pc = "dropped"]
    /\ UNCHANGED <<now, rate, usage>>

\* The row, its snapshots and the reservation, on the day the handler began.
Reserve(r) ==
    LET d == Day0(r) IN
    /\ req[r].pc = "admitted"
    /\ IF usage[d][IpOf[r]] < DailyLimit
       THEN /\ usage' = [usage EXCEPT ![d][IpOf[r]] = @ + 1]
            /\ req' = [req EXCEPT ![r].pc = "reserved"]
       ELSE /\ req' = [req EXCEPT ![r].pc = "dropped"]
            /\ UNCHANGED usage
    /\ UNCHANGED <<now, rate>>

Accept(r) ==
    /\ req[r].pc = "reserved"
    /\ req' = [req EXCEPT ![r].pc = "accepted"]
    /\ UNCHANGED <<now, rate, usage>>

\* Mutant: the refund goes to the day it is now, and has no floor.
RefundToday(r) ==
    /\ req[r].pc = "reserved"
    /\ usage' = [usage EXCEPT ![Day(now)][IpOf[r]] = @ - 1]
    /\ req' = [req EXCEPT ![r].pc = "refunded"]
    /\ UNCHANGED <<now, rate>>

\* The upload is refused: the quota of the handler's day is given back, the
\* two windows are not.
Refund(r) ==
    /\ req[r].pc = "reserved"
    /\ usage' = [usage EXCEPT ![Day0(r)][IpOf[r]] = IF @ > 0 THEN @ - 1 ELSE 0]
    /\ req' = [req EXCEPT ![r].pc = "refunded"]
    /\ UNCHANGED <<now, rate>>

\* A statement or a fetch throws and the outer catch answers 500.
Throw(r) ==
    /\ InFlight(r)
    /\ req' = [req EXCEPT ![r].pc =
                 IF @ = "reserved" THEN "stranded" ELSE "thrown"]
    /\ UNCHANGED <<now, rate, usage>>

Handle(r) ==
    \/ Look(r) \/ Verify(r) \/ Unconfigured(r) \/ Reserve(r) \/ Accept(r)
    \/ Refund(r) \/ Throw(r)
    \/ \E kind \in Kind : Count(r, kind) \/ Check(r, kind)

Next == Tick \/ \E r \in Requests : Handle(r)

Spec == Init /\ [][Next]_vars

-----------------------------------------------------------------------------

Past(kind) ==
    {"admitted", "reserved", "accepted", "refunded", "dropped", "stranded"}
    \cup IF kind = "ip" THEN {"clientDue", "clientCounted", "limitedByClient"}
                        ELSE {}

\* The requests of key k that passed its check in the window that is open.
Passed(k) ==
    {r \in Requests : \E kind \in Kind :
        /\ KeyOf(r, kind) = k
        /\ req[r].pc \in Past(kind)
        /\ req[r].stamp[kind] >= rate[k].start}

\* However the counting and the reading of several requests interleave, and
\* wherever the end of a window falls among them, the open window of an address
\* or of a client has let through no more requests than its limit.
WindowCeiling ==
    /\ \A c \in Clients : Cardinality(Passed(c)) <= ClientLimit
    /\ \A i \in Ips : Cardinality(Passed(i)) <= IpLimit

\* The usage of an address on a day is the number of its requests begun on that
\* day that hold a place, though they may end after midnight.
DayAccounting ==
    \A d \in Time, i \in Ips :
        usage[d][i] = Cardinality({r \in Requests :
                           /\ IpOf[r] = i /\ Day0(r) = d
                           /\ req[r].pc \in {"reserved", "accepted", "stranded"}})

=============================================================================
