-------------------------- MODULE GuestLimitsProofs --------------------------
(***************************************************************************)
(* Proofs about GuestLimits, for any requests, addresses, limits and       *)
(* length of the window.                                                   *)
(***************************************************************************)
EXTENDS GuestLimits, FiniteSetTheorems, TLAPS

LEMMA KeyOfType ==
    ASSUME NEW r \in Requests, NEW kind \in Kind
    PROVE  KeyOf(r, kind) \in Keys
BY GuestAssumption DEF KeyOf, Keys, Kind

LEMMA DayIsTime ==
    ASSUME NEW t \in Time
    PROVE  Day(t) \in Time
<1>1. Window \in Nat \ {0} /\ Horizon \in Nat /\ t \in Nat /\ t <= Horizon
  BY GuestAssumption DEF Time
<1>2. t \div Window \in Nat /\ t \div Window <= t
  BY <1>1, Z3
<1> QED
  BY <1>1, <1>2 DEF Day, Time

\* A handler that moves on without a new stamp keeps its type.
LEMMA MoveType ==
    ASSUME TypeOK, NEW r \in Requests, NEW pc \in PC,
           req' = [req EXCEPT ![r].pc = pc]
    PROVE  req' \in [Requests -> Handler]
<1>1. [req[r] EXCEPT !.pc = pc] \in Handler
  BY DEF TypeOK, Handler
<1> QED
  BY <1>1 DEF TypeOK

LEMMA StampType ==
    ASSUME TypeOK, NEW r \in Requests, NEW pc \in PC, NEW kind \in Kind,
           req' = [req EXCEPT ![r].pc = pc, ![r].stamp[kind] = now]
    PROVE  req' \in [Requests -> Handler]
<1>1. [req[r].stamp EXCEPT ![kind] = now] \in [Kind -> Time]
  BY DEF TypeOK, Handler
<1>2. [req[r] EXCEPT !.pc = pc, !.stamp[kind] = now] \in Handler
  BY <1>1 DEF TypeOK, Handler
<1> QED
  BY <1>2 DEF TypeOK

LEMMA UsageType ==
    ASSUME TypeOK, NEW d \in Time, NEW i \in Ips, NEW n \in Nat,
           usage' = [usage EXCEPT ![d][i] = n]
    PROVE  usage' \in [Time -> [Ips -> Nat]]
<1>1. [usage[d] EXCEPT ![i] = n] \in [Ips -> Nat]
  BY DEF TypeOK
<1> QED
  BY <1>1 DEF TypeOK

LEMMA HandleType ==
    ASSUME TypeOK, NEW r \in Requests, Handle(r)
    PROVE  TypeOK'
<1>0. /\ IpOf[r] \in Ips
      /\ Day0(r) \in Time
      /\ usage[Day0(r)][IpOf[r]] \in Nat
  <2>1. req[r].begun \in Time
    BY DEF TypeOK, Handler
  <2>2. Day0(r) \in Time
    BY <2>1, DayIsTime DEF Day0
  <2> QED
    BY <2>2, GuestAssumption DEF TypeOK
<1>1. CASE Look(r)
  <2>1. [req[r] EXCEPT !.begun = now,
                       !.pc = IF usage[Day(now)][IpOf[r]] < DailyLimit
                              THEN "looked" ELSE "rejected"] \in Handler
    BY DEF TypeOK, Handler, PC
  <2> QED
    BY <1>1, <2>1 DEF TypeOK, Look
<1>2. CASE Verify(r)
  <2>1. req' \in [Requests -> Handler]
    BY <1>2, MoveType, StampType DEF Verify, PC, Kind
  <2> QED
    BY <1>2, <2>1 DEF TypeOK, Verify
<1>3. CASE Unconfigured(r) \/ Accept(r)
  <2>1. req' \in [Requests -> Handler]
    BY <1>3, MoveType DEF Unconfigured, Accept, PC
  <2> QED
    BY <1>3, <2>1 DEF TypeOK, Unconfigured, Accept
<1>4. CASE Reserve(r)
  <2>1. req' \in [Requests -> Handler]
    BY <1>4, MoveType DEF Reserve, PC
  <2>2. usage' \in [Time -> [Ips -> Nat]]
    <3>1. CASE usage' = usage
      BY <3>1 DEF TypeOK
    <3>2. CASE usage' = [usage EXCEPT ![Day0(r)][IpOf[r]] =
                           usage[Day0(r)][IpOf[r]] + 1]
      <4>1. usage[Day0(r)][IpOf[r]] + 1 \in Nat
        BY <1>0
      <4> QED
        BY <1>0, <3>2, <4>1, UsageType
    <3> QED
      BY <1>4, <3>1, <3>2 DEF Reserve
  <2> QED
    BY <1>4, <2>1, <2>2 DEF TypeOK, Reserve
<1>5. CASE Refund(r)
  <2>1. req' \in [Requests -> Handler]
    BY <1>5, MoveType DEF Refund, PC
  <2>2. usage' \in [Time -> [Ips -> Nat]]
    <3> DEFINE n == usage[Day0(r)][IpOf[r]]
    <3>1. (IF n > 0 THEN n - 1 ELSE 0) \in Nat
      BY <1>0
    <3>2. usage' = [usage EXCEPT ![Day0(r)][IpOf[r]] = IF n > 0 THEN n - 1 ELSE 0]
      BY <1>5 DEF Refund
    <3> QED
      BY <1>0, <3>1, <3>2, UsageType
  <2> QED
    BY <1>5, <2>1, <2>2 DEF TypeOK, Refund
<1>6. CASE Throw(r)
  <2>1. req' \in [Requests -> Handler]
    BY <1>6, MoveType DEF Throw, PC
  <2> QED
    BY <1>6, <2>1 DEF TypeOK, Throw
<1>7. ASSUME NEW kind \in Kind, Count(r, kind) PROVE TypeOK'
  <2>1. req' \in [Requests -> Handler]
    BY <1>7, MoveType DEF Count, CountedPC, PC
  <2>2. Upserted(KeyOf(r, kind), req[r].stamp[kind]) \in [start : Time, count : Nat]
    <3> DEFINE k == KeyOf(r, kind)
    <3>1. rate[k] \in [start : Time, count : Nat] /\ req[r].stamp[kind] \in Time
      BY KeyOfType DEF TypeOK, Handler
    <3>2. [rate[k] EXCEPT !.count = rate[k].count + 1] \in [start : Time, count : Nat]
      BY <3>1
    <3> QED
      BY <3>1, <3>2 DEF Upserted
  <2>3. rate' \in [Keys -> [start : Time, count : Nat]]
    BY <1>7, <2>2, KeyOfType DEF TypeOK, Count
  <2> QED
    BY <1>7, <2>1, <2>3 DEF TypeOK, Count
<1>8. ASSUME NEW kind \in Kind, Check(r, kind) PROVE TypeOK'
  <2>1. CASE req' = [req EXCEPT ![r].pc = LimitedPC(kind)]
    BY <1>8, <2>1, MoveType DEF TypeOK, Check, LimitedPC, PC
  <2>2. CASE req' = [req EXCEPT ![r].pc = "clientDue", ![r].stamp["client"] = now]
    BY <1>8, <2>2, StampType DEF TypeOK, Check, PC, Kind
  <2>3. CASE req' = [req EXCEPT ![r].pc = "admitted"]
    BY <1>8, <2>3, MoveType DEF TypeOK, Check, PC
  <2> QED
    BY <1>8, <2>1, <2>2, <2>3 DEF Check, Proceed
<1> QED
  BY <1>1, <1>2, <1>3, <1>4, <1>5, <1>6, <1>7, <1>8 DEF Handle

LEMMA TypeKept ==
    ASSUME TypeOK, [Next]_vars
    PROVE  TypeOK'
<1>1. CASE UNCHANGED vars
  BY <1>1 DEF TypeOK, vars
<1>2. CASE Tick
  BY <1>2, GuestAssumption DEF TypeOK, Tick, Time
<1> QED
  BY <1>1, <1>2, HandleType DEF Next

LEMMA InitType == Init => TypeOK
<1>1. 0 \in Time
  BY GuestAssumption DEF Time
<1>2. Fresh \in Handler
  BY <1>1 DEF Fresh, Handler, PC
<1> QED
  BY <1>1, <1>2 DEF Init, TypeOK

\* Counters, clock and handlers keep their types, at any limit and window.
THEOREM GuestTypeCorrect == Spec => []TypeOK
<1>1. TypeOK /\ [Next]_vars => TypeOK'
  BY TypeKept
<1> QED
  BY <1>1, InitType, PTL DEF Spec

-----------------------------------------------------------------------------
(***************************************************************************)
(* The ceiling of a window.  A request that passes has read a count that   *)
(* includes its own, so those that passed in the open window are among     *)
(* those counted in it, and these are no more than the count.              *)
(***************************************************************************)

WasCounted(kind) == Past(kind) \cup {CountedPC(kind), LimitedPC(kind)}

CountedIn(k) ==
    {r \in Requests : \E kind \in Kind :
        /\ KeyOf(r, kind) = k
        /\ req[r].pc \in WasCounted(kind)
        /\ req[r].stamp[kind] >= rate[k].start}

LimitOf(k) == IF k \in Clients THEN ClientLimit ELSE IpLimit

\* No counted request carries a stamp from after the end of its window.
StampsInWindow ==
    \A r \in Requests, kind \in Kind :
        req[r].pc \in WasCounted(kind) =>
            req[r].stamp[kind] <= rate[KeyOf(r, kind)].start + Window

CountsEnough == \A k \in Keys : Cardinality(CountedIn(k)) <= rate[k].count

Ceiling == \A k \in Keys : Cardinality(Passed(k)) <= LimitOf(k)

NoRowNoStart == \A k \in Keys : rate[k].count = 0 => rate[k].start = 0

WInv == TypeOK /\ StampsInWindow /\ CountsEnough /\ Ceiling /\ NoRowNoStart

LEMMA LimitIsOfKey ==
    ASSUME NEW r \in Requests, NEW kind \in Kind
    PROVE  Limit(kind) = LimitOf(KeyOf(r, kind))
BY GuestAssumption DEF Limit, LimitOf, KeyOf, Kind

LEMMA CardinalityOfRequests ==
    ASSUME NEW A, NEW B, A \subseteq B, B \subseteq Requests
    PROVE  /\ IsFiniteSet(A) /\ IsFiniteSet(B)
           /\ Cardinality(A) \in Nat /\ Cardinality(B) \in Nat
           /\ Cardinality(A) <= Cardinality(B)
BY GuestAssumption, FS_Subset, FS_CardinalityType

\* What a handler that is neither counting nor checking does to its standing:
\* it gains no count and no pass, and keeps its stamps.
Idles(r) ==
    \A kind \in Kind :
        /\ req'[r].pc \in WasCounted(kind) =>
              req[r].pc \in WasCounted(kind) /\ req'[r].stamp[kind] = req[r].stamp[kind]
        /\ req'[r].pc \in Past(kind) => req[r].pc \in Past(kind)

LEMMA OtherSteps ==
    ASSUME TypeOK, NEW r \in Requests,
           Look(r) \/ Verify(r) \/ Unconfigured(r) \/ Reserve(r) \/ Accept(r)
           \/ Refund(r) \/ Throw(r)
    PROVE  rate' = rate /\ \A q \in Requests : Idles(q)
<1>1. rate' = rate
  BY DEF Look, Verify, Unconfigured, Reserve, Accept, Refund, Throw
<1>2. ASSUME NEW q \in Requests, q # r PROVE Idles(q)
  <2>1. req'[q] = req[q]
    BY <1>2 DEF TypeOK, Look, Verify, Unconfigured, Reserve, Accept, Refund, Throw
  <2> QED
    BY <2>1 DEF Idles
<1>3. Idles(r)
  <2>0. req \in [Requests -> Handler] /\ req[r] \in Handler
    BY DEF TypeOK
  <2>1. CASE Look(r)
    BY <2>0, <2>1 DEF Look, Idles, WasCounted, Past, CountedPC, LimitedPC, Handler
  <2>2. CASE Verify(r)
    BY <2>0, <2>2 DEF Verify, Idles, WasCounted, Past, CountedPC, LimitedPC, Handler
  <2>3. CASE Unconfigured(r) \/ Reserve(r) \/ Accept(r) \/ Refund(r)
    <3>1. /\ req'[r].stamp = req[r].stamp
          /\ req[r].pc \in {"admitted", "reserved"}
          /\ req'[r].pc \in {"dropped", "reserved", "accepted", "refunded"}
      BY <2>0, <2>3 DEF Unconfigured, Reserve, Accept, Refund, Handler
    <3> QED
      BY <3>1 DEF Idles, WasCounted, Past
  <2>4. CASE Throw(r)
    <3>1. /\ req'[r].stamp = req[r].stamp
          /\ req'[r].pc = "thrown" \/ (req[r].pc = "reserved" /\ req'[r].pc = "stranded")
      BY <2>0, <2>4 DEF Throw, Handler
    <3> QED
      BY <3>1 DEF Idles, WasCounted, Past, CountedPC, LimitedPC
  <2> QED
    BY <2>1, <2>2, <2>3, <2>4
<1> QED
  BY <1>1, <1>2, <1>3

\* Such steps keep the invariant.
LEMMA IdleKeeps ==
    ASSUME WInv, rate' = rate, \A q \in Requests : Idles(q)
    PROVE  (StampsInWindow /\ CountsEnough /\ Ceiling /\ NoRowNoStart)'
<1>1. StampsInWindow'
  BY DEF WInv, StampsInWindow, Idles
<1>2. ASSUME NEW k \in Keys
      PROVE  CountedIn(k)' \subseteq CountedIn(k) /\ Passed(k)' \subseteq Passed(k)
  BY DEF CountedIn, Passed, Idles, WasCounted
<1>3. ASSUME NEW k \in Keys
      PROVE  /\ Cardinality(CountedIn(k)') <= Cardinality(CountedIn(k))
             /\ Cardinality(Passed(k)') <= Cardinality(Passed(k))
             /\ {Cardinality(CountedIn(k)'), Cardinality(CountedIn(k)),
                 Cardinality(Passed(k)'), Cardinality(Passed(k))} \subseteq Nat
  <2>1. CountedIn(k) \subseteq Requests /\ Passed(k) \subseteq Requests
    BY DEF CountedIn, Passed
  <2> QED
    BY <1>2, <2>1, CardinalityOfRequests
<1>4. \A k \in Keys : rate[k].count \in Nat /\ LimitOf(k) \in Nat
  BY GuestAssumption DEF WInv, TypeOK, LimitOf
<1> QED
  BY <1>1, <1>3, <1>4 DEF WInv, CountsEnough, Ceiling, NoRowNoStart

LEMMA SetsOfRequests ==
    \A k : CountedIn(k) \subseteq Requests /\ Passed(k) \subseteq Requests
BY DEF CountedIn, Passed

\* Whoever passed was counted.
LEMMA PassedWereCounted == \A k : Passed(k) \subseteq CountedIn(k)
BY DEF Passed, CountedIn, WasCounted

\* A check lets its request pass only when the count, which is at least the
\* number of the counted, is within the limit.
LEMMA CheckKeeps ==
    ASSUME WInv, NEW r \in Requests, NEW kind \in Kind, Check(r, kind)
    PROVE  (StampsInWindow /\ CountsEnough /\ Ceiling /\ NoRowNoStart)'
<1> DEFINE k == KeyOf(r, kind)
<1>0. /\ req \in [Requests -> Handler] /\ req[r] \in Handler /\ now \in Time
      /\ k \in Keys /\ rate' = rate
      /\ \A q \in Keys : rate[q].count \in Nat /\ LimitOf(q) \in Nat
  BY KeyOfType, GuestAssumption DEF WInv, TypeOK, Check, LimitOf
<1>1. \A q \in Requests \ {r} : req'[q] = req[q]
  BY <1>0 DEF Check, Proceed
<1>2. /\ req[r].pc = CountedPC(kind)
      /\ req'[r].stamp[kind] = req[r].stamp[kind]
      /\ IF rate[k].count <= Limit(kind)
         THEN /\ req'[r].pc = IF kind = "ip" THEN "clientDue" ELSE "admitted"
              /\ kind = "client" => req'[r].stamp = req[r].stamp
         ELSE req'[r].pc = LimitedPC(kind) /\ req'[r].stamp = req[r].stamp
  BY <1>0 DEF Check, Proceed, Handler, Kind
<1>3. \A q \in Requests, x \in Kind :
         req'[q].pc \in WasCounted(x) =>
            req[q].pc \in WasCounted(x) /\ req'[q].stamp[x] = req[q].stamp[x]
  BY <1>1, <1>2 DEF WasCounted, Past, CountedPC, LimitedPC, Kind
<1>4. \A q \in Requests, x \in Kind :
         q # r \/ x # kind \/ rate[k].count > Limit(kind) =>
            (req'[q].pc \in Past(x) => req[q].pc \in Past(x))
  <2>1. Limit(kind) \in Nat /\ rate[k].count \in Nat
    BY <1>0, GuestAssumption DEF Limit
  <2> QED
    BY <1>1, <1>2, <2>1 DEF Past, CountedPC, LimitedPC, Kind
<1>5. StampsInWindow'
  BY <1>0, <1>3 DEF WInv, StampsInWindow
<1>6. \A q \in Keys : CountedIn(q)' \subseteq CountedIn(q)
  BY <1>0, <1>3 DEF CountedIn
<1>7. CountsEnough'
  BY <1>0, <1>6, SetsOfRequests, CardinalityOfRequests DEF WInv, CountsEnough
<1>8. ASSUME NEW q \in Keys PROVE Cardinality(Passed(q)') <= LimitOf(q)
  <2>1. CASE q = k /\ rate[k].count <= Limit(kind)
    <3>1. Passed(q)' \subseteq CountedIn(q)
      <4>1. Passed(q)' \subseteq CountedIn(q)'
        BY DEF Passed, CountedIn, WasCounted
      <4> QED
        BY <4>1, <1>6
    <3>2. /\ Cardinality(Passed(q)') <= Cardinality(CountedIn(q))
          /\ {Cardinality(Passed(q)'), Cardinality(CountedIn(q))} \subseteq Nat
      BY <3>1, SetsOfRequests, CardinalityOfRequests
    <3>3. Cardinality(CountedIn(q)) <= rate[q].count
      BY DEF WInv, CountsEnough
    <3> QED
      BY <1>0, <2>1, <3>2, <3>3, LimitIsOfKey
  <2>2. CASE q # k \/ ~(rate[k].count <= Limit(kind))
    <3>0. Limit(kind) \in Nat
      BY GuestAssumption DEF Limit
    <3>1. ASSUME NEW x \in Requests, NEW y \in Kind, KeyOf(x, y) = q,
                 req'[x].pc \in Past(y)
          PROVE  req[x].pc \in Past(y)
      BY <1>0, <1>4, <2>2, <3>0, <3>1
    <3>2. Passed(q)' \subseteq Passed(q)
      BY <1>0, <1>3, <3>1 DEF Passed, WasCounted
    <3>3. Cardinality(Passed(q)) <= LimitOf(q)
      BY DEF WInv, Ceiling
    <3>4. /\ Cardinality(Passed(q)') <= Cardinality(Passed(q))
          /\ {Cardinality(Passed(q)'), Cardinality(Passed(q))} \subseteq Nat
      BY <3>2, SetsOfRequests, CardinalityOfRequests
    <3> QED
      BY <1>0, <3>3, <3>4
  <2> QED
    BY <2>1, <2>2
<1> QED
  BY <1>0, <1>5, <1>7, <1>8 DEF WInv, Ceiling, NoRowNoStart, LimitOf

\* Counting adds one request to an open window.  A new window starts after
\* the stamp of everyone counted before, so it holds this request alone.
LEMMA CountKeeps ==
    ASSUME WInv, NEW r \in Requests, NEW kind \in Kind, Count(r, kind)
    PROVE  (StampsInWindow /\ CountsEnough /\ Ceiling /\ NoRowNoStart)'
<1> DEFINE k == KeyOf(r, kind)
           stamp == req[r].stamp[kind]
           Open == ~(rate[k].count = 0 \/ rate[k].start < stamp - Window)
<1>0. /\ req \in [Requests -> Handler] /\ req[r] \in Handler
      /\ k \in Keys /\ stamp \in Nat /\ Window \in Nat
      /\ \A q \in Keys : /\ rate[q].count \in Nat /\ rate[q].start \in Nat
                         /\ LimitOf(q) \in Nat \ {0}
  <2>1. req[r] \in Handler /\ Time \subseteq Nat
    BY GuestAssumption DEF WInv, TypeOK, Time
  <2> QED
    BY <2>1, KeyOfType, GuestAssumption DEF WInv, TypeOK, LimitOf, Handler
<1>1. \A q \in Requests : req'[q].stamp = req[q].stamp
  BY <1>0 DEF Count, Handler
<1>2. /\ \A q \in Requests \ {r} : req'[q].pc = req[q].pc
      /\ req[r].pc = DuePC(kind) /\ req'[r].pc = CountedPC(kind)
  BY <1>0 DEF Count, Handler
<1>3. /\ \A q \in Keys \ {k} : rate'[q] = rate[q]
      /\ IF Open THEN rate'[k].start = rate[k].start /\ rate'[k].count = rate[k].count + 1
                 ELSE rate'[k].start = stamp /\ rate'[k].count = 1
  BY <1>0 DEF Count, Upserted, WInv, TypeOK
<1>4. \A q \in Requests, x \in Kind :
         /\ q # r \/ x # kind =>
               (req'[q].pc \in WasCounted(x) => req[q].pc \in WasCounted(x))
         /\ req'[q].pc \in Past(x) => req[q].pc \in Past(x)
  BY <1>2 DEF WasCounted, Past, DuePC, CountedPC, LimitedPC, Kind
<1>5. \A x \in Kind : KeyOf(r, x) = k <=> x = kind
  BY GuestAssumption DEF KeyOf, Kind
<1>6. \A q \in Requests : \A x \in Kind :
         /\ req[q].stamp[x] \in Nat /\ KeyOf(q, x) \in Keys
         /\ req[q].pc \in WasCounted(x) =>
               req[q].stamp[x] <= rate[KeyOf(q, x)].start + Window
  BY <1>0, KeyOfType, GuestAssumption DEF WInv, StampsInWindow, Handler, Time
<1>7. ASSUME NEW q \in Keys, q # k
      PROVE  CountedIn(q)' \subseteq CountedIn(q) /\ Passed(q)' \subseteq Passed(q)
  BY <1>1, <1>3, <1>4, <1>5, <1>7 DEF CountedIn, Passed
<1>8. NoRowNoStart'
  BY <1>0, <1>3 DEF WInv, NoRowNoStart
<1>9. CASE Open
  <2>1. rate[k].start >= stamp - Window /\ \A q \in Keys : rate'[q].start = rate[q].start
    BY <1>0, <1>3, <1>9
  <2>2. StampsInWindow'
    <3> SUFFICES ASSUME NEW q \in Requests, NEW x \in Kind,
                        req'[q].pc \in WasCounted(x)
                 PROVE  req'[q].stamp[x] <= rate'[KeyOf(q, x)].start + Window
      BY DEF StampsInWindow
    <3>1. CASE q = r /\ x = kind
      BY <1>0, <1>1, <2>1, <3>1
    <3>2. CASE q # r \/ x # kind
      BY <1>1, <1>4, <1>6, <2>1, <3>2
    <3> QED
      BY <3>1, <3>2
  <2>3. CountedIn(k)' \subseteq CountedIn(k) \cup {r} /\ Passed(k)' \subseteq Passed(k)
    BY <1>0, <1>1, <1>4, <2>1 DEF CountedIn, Passed
  <2>4. Cardinality(CountedIn(k)') <= rate'[k].count
    <3>1. /\ IsFiniteSet(CountedIn(k)) /\ Cardinality(CountedIn(k)) \in Nat
          /\ Cardinality(CountedIn(k)) <= rate[k].count
      BY <1>0, SetsOfRequests, CardinalityOfRequests DEF WInv, CountsEnough
    <3>2. Cardinality(CountedIn(k) \cup {r}) <= Cardinality(CountedIn(k)) + 1
      <4>1. Cardinality(CountedIn(k) \cup {r}) = IF r \in CountedIn(k)
               THEN Cardinality(CountedIn(k)) ELSE Cardinality(CountedIn(k)) + 1
        BY <3>1, FS_AddElement
      <4> HIDE DEF k
      <4> QED
        BY <3>1, <4>1
    <3>3. CountedIn(k) \cup {r} \subseteq Requests
      BY SetsOfRequests
    <3>4. /\ Cardinality(CountedIn(k)') <= Cardinality(CountedIn(k) \cup {r})
          /\ {Cardinality(CountedIn(k)'), Cardinality(CountedIn(k) \cup {r})} \subseteq Nat
      BY <2>3, <3>3, CardinalityOfRequests
    <3> QED
      BY <1>0, <1>3, <1>9, <3>1, <3>2, <3>4
  <2>5. \A q \in Keys : Passed(q)' \subseteq Passed(q)
    BY <1>7, <2>3
  <2>6. Ceiling'
    <3> SUFFICES ASSUME NEW q \in Keys PROVE Cardinality(Passed(q)') <= LimitOf(q)
      BY DEF Ceiling, LimitOf
    <3>1. /\ Cardinality(Passed(q)') <= Cardinality(Passed(q))
          /\ {Cardinality(Passed(q)'), Cardinality(Passed(q))} \subseteq Nat
      BY <2>5, SetsOfRequests, CardinalityOfRequests
    <3> QED
      BY <1>0, <3>1 DEF WInv, Ceiling
  <2>7. CountsEnough'
    <3> SUFFICES ASSUME NEW q \in Keys PROVE Cardinality(CountedIn(q)') <= rate'[q].count
      BY DEF CountsEnough
    <3>1. CASE q # k
      <4>1. /\ Cardinality(CountedIn(q)') <= Cardinality(CountedIn(q))
            /\ {Cardinality(CountedIn(q)'), Cardinality(CountedIn(q))} \subseteq Nat
        BY <1>7, <3>1, SetsOfRequests, CardinalityOfRequests
      <4> QED
        BY <1>0, <1>3, <3>1, <4>1 DEF WInv, CountsEnough
    <3> QED
      BY <2>4, <3>1
  <2> QED
    BY <1>8, <2>2, <2>6, <2>7
<1>10. CASE ~Open
  <2>1. ASSUME NEW q \in Requests, KeyOf(q, kind) = k, req[q].pc \in WasCounted(kind)
        PROVE  req[q].stamp[kind] < stamp
    <3>1. req[q].stamp[kind] <= rate[k].start + Window /\ req[q].stamp[kind] \in Nat
      BY <1>6, <2>1
    <3>2. CASE rate[k].count = 0
      <4>1. rate[k].start = 0
        BY <1>0, <3>2 DEF WInv, NoRowNoStart
      <4>2. q \in CountedIn(k)
        BY <2>1, <3>1, <4>1 DEF CountedIn
      <4>3. Cardinality({q}) <= Cardinality(CountedIn(k))
        BY <4>2, SetsOfRequests, CardinalityOfRequests
      <4>4. Cardinality({q}) = 1
        BY FS_Singleton
      <4>5. Cardinality(CountedIn(k)) <= 0 /\ Cardinality(CountedIn(k)) \in Nat
        BY <1>0, <3>2, SetsOfRequests, CardinalityOfRequests DEF WInv, CountsEnough
      <4> QED
        BY <4>3, <4>4, <4>5
    <3>3. CASE rate[k].start < stamp - Window
      BY <1>0, <3>1, <3>3
    <3> QED
      BY <1>10, <3>2, <3>3
  <2>2. \A q \in Requests, x \in Kind : KeyOf(q, x) = k => x = kind
    BY GuestAssumption DEF KeyOf, Kind
  <2>3. CountedIn(k)' \subseteq {r}
    <3> SUFFICES ASSUME NEW q \in Requests, q # r, KeyOf(q, kind) = k,
                        req'[q].pc \in WasCounted(kind), req'[q].stamp[kind] >= stamp
                 PROVE  FALSE
      BY <1>3, <1>10, <2>2 DEF CountedIn
    <3> QED
      BY <1>0, <1>1, <1>4, <1>6, <2>1
  <2>4. Passed(k)' = {}
    <3> SUFFICES ASSUME NEW q \in Requests, KeyOf(q, kind) = k,
                        req'[q].pc \in Past(kind), req'[q].stamp[kind] >= stamp
                 PROVE  FALSE
      BY <1>3, <1>10, <2>2 DEF Passed
    <3>1. req[q].pc \in WasCounted(kind)
      BY <1>4 DEF WasCounted
    <3> QED
      BY <1>0, <1>1, <1>6, <2>1, <3>1
  <2>5. StampsInWindow'
    <3> SUFFICES ASSUME NEW q \in Requests, NEW x \in Kind,
                        req'[q].pc \in WasCounted(x)
                 PROVE  req'[q].stamp[x] <= rate'[KeyOf(q, x)].start + Window
      BY DEF StampsInWindow
    <3>1. CASE KeyOf(q, x) # k
      BY <1>1, <1>3, <1>4, <1>6, <3>1
    <3>2. CASE KeyOf(q, x) = k /\ q = r
      BY <1>0, <1>1, <1>3, <1>5, <1>10, <3>2
    <3>3. CASE KeyOf(q, x) = k /\ q # r
      BY <1>0, <1>1, <1>3, <1>4, <1>6, <1>10, <2>1, <2>2, <3>3
    <3> QED
      BY <3>1, <3>2, <3>3
  <2>6. \A q \in Keys : /\ Cardinality(CountedIn(q)') <= rate'[q].count
                        /\ Cardinality(Passed(q)') <= LimitOf(q)
    <3> SUFFICES ASSUME NEW q \in Keys
                 PROVE  /\ Cardinality(CountedIn(q)') <= rate'[q].count
                        /\ Cardinality(Passed(q)') <= LimitOf(q)
      OBVIOUS
    <3>1. CASE q # k
      <4>1. /\ Cardinality(CountedIn(q)') <= Cardinality(CountedIn(q))
            /\ Cardinality(Passed(q)') <= Cardinality(Passed(q))
            /\ {Cardinality(CountedIn(q)'), Cardinality(CountedIn(q)),
                Cardinality(Passed(q)'), Cardinality(Passed(q))} \subseteq Nat
        BY <1>7, <3>1, SetsOfRequests, CardinalityOfRequests
      <4> QED
        BY <1>0, <1>3, <3>1, <4>1 DEF WInv, CountsEnough, Ceiling
    <3>2. CASE q = k
      <4>1. Cardinality({r}) = 1 /\ Cardinality({}) = 0
        BY FS_Singleton, FS_EmptySet
      <4>2. /\ Cardinality(CountedIn(k)') <= Cardinality({r})
            /\ Cardinality(CountedIn(k)') \in Nat
        BY <2>3, CardinalityOfRequests
      <4> QED
        BY <1>0, <1>3, <1>10, <2>4, <3>2, <4>1, <4>2
    <3> QED
      BY <3>1, <3>2
  <2> QED
    BY <1>8, <2>5, <2>6 DEF CountsEnough, Ceiling, LimitOf
<1> QED
  BY <1>9, <1>10

\* However many requests of one address or of one client are counted and
\* checked at once, and wherever a window ends among their statements, the
\* window that is open has let through no more than the limit
\* (checkRateLimit, worker/src/index.ts).
THEOREM WindowCeilingHolds == Spec => []WindowCeiling
<1>1. Init => WInv
  <2> SUFFICES ASSUME Init PROVE WInv
    OBVIOUS
  <2>1. TypeOK
    BY InitType
  <2>2. StampsInWindow /\ NoRowNoStart
    BY DEF Init, Fresh, StampsInWindow, NoRowNoStart, WasCounted, Past, CountedPC, LimitedPC
  <2>3. \A k \in Keys : CountedIn(k) = {} /\ Passed(k) = {}
    BY DEF Init, Fresh, CountedIn, Passed, WasCounted, Past, CountedPC, LimitedPC
  <2>4. CountsEnough /\ Ceiling
    <3>1. Cardinality({}) = 0 /\ ClientLimit \in Nat /\ IpLimit \in Nat
      BY FS_EmptySet, GuestAssumption
    <3>2. \A k \in Keys : rate[k].count = 0
      BY DEF Init
    <3>3. ASSUME NEW k \in Keys
          PROVE  /\ Cardinality(CountedIn(k)) <= rate[k].count
                 /\ Cardinality(Passed(k)) <= LimitOf(k)
      <4>1. CountedIn(k) = {} /\ Passed(k) = {} /\ rate[k].count = 0
        BY <2>3, <3>2
      <4>2. LimitOf(k) \in Nat
        BY <3>1 DEF LimitOf
      <4> HIDE DEF CountedIn, Passed, LimitOf
      <4> QED
        BY <3>1, <4>1, <4>2
    <3> QED
      BY <3>3 DEF CountsEnough, Ceiling
  <2> QED
    BY <2>1, <2>2, <2>4 DEF WInv
<1>2. WInv /\ [Next]_vars => WInv'
  <2> SUFFICES ASSUME WInv, [Next]_vars PROVE WInv'
    OBVIOUS
  <2>1. TypeOK'
    BY TypeKept DEF WInv
  <2>2. CASE Tick \/ UNCHANGED vars
    <3>1. rate' = rate /\ \A q \in Requests : Idles(q)
      BY <2>2 DEF Idles, Tick, vars
    <3>2. (StampsInWindow /\ CountsEnough /\ Ceiling /\ NoRowNoStart)'
      BY <3>1, IdleKeeps
    <3> QED
      BY <2>1, <3>2 DEF WInv
  <2>3. ASSUME NEW r \in Requests, Handle(r) PROVE WInv'
    <3>1. CASE \E kind \in Kind : Count(r, kind)
      BY <2>1, <3>1, CountKeeps DEF WInv
    <3>2. CASE \E kind \in Kind : Check(r, kind)
      BY <2>1, <3>2, CheckKeeps DEF WInv
    <3>3. CASE \/ Look(r) \/ Verify(r) \/ Unconfigured(r) \/ Reserve(r)
               \/ Accept(r) \/ Refund(r) \/ Throw(r)
      BY <2>1, <3>3, OtherSteps, IdleKeeps DEF WInv
    <3> QED
      BY <2>3, <3>1, <3>2, <3>3 DEF Handle
  <2> QED
    BY <2>2, <2>3 DEF Next
<1>3. WInv => WindowCeiling
  BY GuestAssumption DEF WInv, Ceiling, LimitOf, WindowCeiling, Keys
<1> QED
  BY <1>1, <1>2, <1>3, PTL DEF Spec

-----------------------------------------------------------------------------

HoldingPC == {"reserved", "accepted", "stranded"}

\* The requests that hold a place of address i on day d.
Holding(d, i) ==
    {r \in Requests : IpOf[r] = i /\ Day0(r) = d /\ req[r].pc \in HoldingPC}

Balanced == \A d \in Time, i \in Ips : usage[d][i] = Cardinality(Holding(d, i))

LEMMA HoldingFinite ==
    \A d, i : /\ IsFiniteSet(Holding(d, i))
              /\ Cardinality(Holding(d, i)) \in Nat
<1> SUFFICES ASSUME NEW d, NEW i
             PROVE  IsFiniteSet(Holding(d, i)) /\ Cardinality(Holding(d, i)) \in Nat
  OBVIOUS
<1>1. Holding(d, i) \subseteq Requests
  BY DEF Holding
<1> QED
  BY <1>1, CardinalityOfRequests

\* A step that charges nothing and gives nobody a place, nor takes one.
LEMMA PlacesKept ==
    ASSUME Balanced, usage' = usage,
           \A q \in Requests :
               /\ req'[q].pc \in HoldingPC <=> req[q].pc \in HoldingPC
               /\ req[q].pc \in HoldingPC => req'[q].begun = req[q].begun
    PROVE  Balanced'
<1>1. ASSUME NEW d, NEW i PROVE Holding(d, i)' = Holding(d, i)
  BY DEF Holding, Day0
<1> QED
  BY <1>1 DEF Balanced

LEMMA PlacesOfReserve ==
    ASSUME TypeOK, Balanced, NEW r \in Requests, Reserve(r)
    PROVE  Balanced'
<1> DEFINE d0 == Day0(r)
           i0 == IpOf[r]
<1>0. /\ req \in [Requests -> Handler] /\ d0 \in Time /\ i0 \in Ips
      /\ req[r].pc = "admitted" /\ usage \in [Time -> [Ips -> Nat]]
  BY DayIsTime, GuestAssumption DEF TypeOK, Reserve, Day0, Handler
<1>1. CASE usage' = usage
  <2>1. ~(usage[d0][i0] < DailyLimit)
    BY <1>0, <1>1 DEF Reserve
  <2>2. req' = [req EXCEPT ![r].pc = "dropped"]
    BY <2>1 DEF Reserve
  <2> QED
    BY <1>0, <1>1, <2>2, PlacesKept DEF HoldingPC, Handler
<1>2. CASE usage' # usage
  <2>1. /\ usage' = [usage EXCEPT ![d0][i0] = @ + 1]
        /\ req' = [req EXCEPT ![r].pc = "reserved"]
    BY <1>2 DEF Reserve
  <2>2. \A q \in Requests : /\ req'[q].begun = req[q].begun
                            /\ q # r => req'[q].pc = req[q].pc
    BY <1>0, <2>1 DEF Handler
  <2>3. req'[r].pc = "reserved"
    BY <1>0, <2>1 DEF Handler
  <2> SUFFICES ASSUME NEW d \in Time, NEW i \in Ips
               PROVE  usage'[d][i] = Cardinality(Holding(d, i)')
    BY DEF Balanced
  <2>4. CASE d = d0 /\ i = i0
    <3>1. Holding(d, i)' = Holding(d, i) \cup {r} /\ r \notin Holding(d, i)
      BY <1>0, <2>2, <2>3, <2>4 DEF Holding, HoldingPC, Day0
    <3>2. Cardinality(Holding(d, i)') = Cardinality(Holding(d, i)) + 1
      <4>1. IsFiniteSet(Holding(d, i))
        BY HoldingFinite
      <4>2. Cardinality(Holding(d, i) \cup {r}) =
               IF r \in Holding(d, i) THEN Cardinality(Holding(d, i))
                                      ELSE Cardinality(Holding(d, i)) + 1
        BY <4>1, FS_AddElement
      <4> QED
        BY <3>1, <4>2
    <3> QED
      BY <1>0, <2>1, <2>4, <3>2 DEF Balanced
  <2>5. CASE ~(d = d0 /\ i = i0)
    <3>1. Holding(d, i)' = Holding(d, i)
      BY <1>0, <2>2, <2>5 DEF Holding, HoldingPC, Day0
    <3>2. usage'[d][i] = usage[d][i]
      BY <1>0, <2>1, <2>5
    <3> QED
      BY <3>1, <3>2 DEF Balanced
  <2> QED
    BY <2>4, <2>5
<1> QED
  BY <1>1, <1>2

LEMMA PlacesOfRefund ==
    ASSUME TypeOK, Balanced, NEW r \in Requests, Refund(r)
    PROVE  Balanced'
<1> DEFINE d0 == Day0(r)
           i0 == IpOf[r]
<1>0. /\ req \in [Requests -> Handler] /\ d0 \in Time /\ i0 \in Ips
      /\ req[r].pc = "reserved" /\ usage \in [Time -> [Ips -> Nat]]
  BY DayIsTime, GuestAssumption DEF TypeOK, Refund, Day0, Handler
<1>1. /\ usage' = [usage EXCEPT ![d0][i0] = IF @ > 0 THEN @ - 1 ELSE 0]
      /\ req' = [req EXCEPT ![r].pc = "refunded"]
  BY DEF Refund
<1>2. \A q \in Requests : /\ req'[q].begun = req[q].begun
                          /\ q # r => req'[q].pc = req[q].pc
  BY <1>0, <1>1 DEF Handler
<1>3. req'[r].pc = "refunded"
  BY <1>0, <1>1 DEF Handler
<1> SUFFICES ASSUME NEW d \in Time, NEW i \in Ips
             PROVE  usage'[d][i] = Cardinality(Holding(d, i)')
  BY DEF Balanced
<1>4. CASE d = d0 /\ i = i0
  <2>1. Holding(d, i)' = Holding(d, i) \ {r} /\ r \in Holding(d, i)
    BY <1>0, <1>2, <1>3, <1>4 DEF Holding, HoldingPC, Day0
  <2>2. Cardinality(Holding(d, i)') = Cardinality(Holding(d, i)) - 1
    <3>1. IsFiniteSet(Holding(d, i))
      BY HoldingFinite
    <3>2. Cardinality(Holding(d, i) \ {r}) =
             IF r \in Holding(d, i) THEN Cardinality(Holding(d, i)) - 1
                                    ELSE Cardinality(Holding(d, i))
      BY <3>1, FS_RemoveElement
    <3> QED
      BY <2>1, <3>2
  <2>3. Cardinality(Holding(d, i)) > 0 /\ Cardinality(Holding(d, i)) \in Nat
    <3>1. Cardinality(Holding(d, i)) \in Nat /\ Cardinality(Holding(d, i)') \in Nat
      <4>1. Holding(d, i) \subseteq Requests /\ Holding(d, i) \ {r} \subseteq Holding(d, i)
        BY DEF Holding
      <4> QED
        BY <2>1, <4>1, CardinalityOfRequests
    <3> QED
      BY <2>2, <3>1
  <2> QED
    BY <1>0, <1>1, <1>4, <2>2, <2>3 DEF Balanced
<1>5. CASE ~(d = d0 /\ i = i0)
  <2>1. Holding(d, i)' = Holding(d, i)
    BY <1>0, <1>2, <1>5 DEF Holding, HoldingPC, Day0
  <2>2. usage'[d][i] = usage[d][i]
    BY <1>0, <1>1, <1>5
  <2> QED
    BY <2>1, <2>2 DEF Balanced
<1> QED
  BY <1>4, <1>5

\* The usage of every address on every day is the number of its requests that
\* hold a place: the reservation and the refund, made at different times by
\* different statements, always agree on the day (POST /jobs).
THEOREM DayAccountingHolds == Spec => []DayAccounting
<1>1. Init => TypeOK /\ Balanced
  <2> SUFFICES ASSUME Init PROVE Balanced
    BY InitType
  <2>1. \A d, i : Holding(d, i) = {}
    BY DEF Init, Fresh, Holding, HoldingPC
  <2> QED
    BY <2>1, FS_EmptySet DEF Init, Balanced
<1>2. TypeOK /\ Balanced /\ [Next]_vars => (TypeOK /\ Balanced)'
  <2> SUFFICES ASSUME TypeOK, Balanced, [Next]_vars PROVE Balanced'
    BY TypeKept
  <2>0. req \in [Requests -> Handler]
    BY DEF TypeOK
  <2>1. CASE Tick \/ UNCHANGED vars
    BY <2>1, PlacesKept DEF Tick, vars
  <2>2. ASSUME NEW r \in Requests, Handle(r) PROVE Balanced'
    <3>1. CASE Reserve(r)
      BY <3>1, PlacesOfReserve
    <3>2. CASE Refund(r)
      BY <3>2, PlacesOfRefund
    <3>3. CASE Look(r)
      BY <2>0, <3>3, PlacesKept DEF Look, HoldingPC, Handler
    <3>4. CASE Verify(r) \/ Unconfigured(r) \/ Accept(r)
      BY <2>0, <3>4, PlacesKept DEF Verify, Unconfigured, Accept, HoldingPC, Handler
    <3>5. CASE Throw(r)
      <4>1. req[r].pc \notin {"accepted", "stranded"}
        BY <3>5 DEF Throw, InFlight, Ended
      <4>2. /\ usage' = usage
            /\ req'[r].begun = req[r].begun
            /\ req'[r].pc = IF req[r].pc = "reserved" THEN "stranded" ELSE "thrown"
            /\ \A q \in Requests \ {r} : req'[q] = req[q]
        BY <2>0, <3>5 DEF Throw, Handler
      <4>3. req'[r].pc \in HoldingPC <=> req[r].pc \in HoldingPC
        BY <4>1, <4>2 DEF HoldingPC
      <4> QED
        BY <4>2, <4>3, PlacesKept
    <3>6. ASSUME NEW kind \in Kind, Count(r, kind) \/ Check(r, kind) PROVE Balanced'
      <4>1. CASE Count(r, kind)
        BY <2>0, <4>1, PlacesKept DEF Count, HoldingPC, Handler, DuePC, CountedPC
      <4>2. CASE Check(r, kind)
        <5>1. /\ req[r].pc = CountedPC(kind) /\ usage' = usage
              /\ req' = Proceed(r, kind) \/ req' = [req EXCEPT ![r].pc = LimitedPC(kind)]
          BY <4>2 DEF Check
        <5> QED
          BY <2>0, <5>1, PlacesKept
          DEF Proceed, HoldingPC, Handler, CountedPC, LimitedPC
      <4> QED
        BY <3>6, <4>1, <4>2
    <3> QED
      BY <2>2, <3>1, <3>2, <3>3, <3>4, <3>5, <3>6 DEF Handle
  <2> QED
    BY <2>1, <2>2 DEF Next
<1>3. Balanced => DayAccounting
  BY DEF Balanced, DayAccounting, Holding, HoldingPC
<1> QED
  BY <1>1, <1>2, <1>3, PTL DEF Spec

=============================================================================
