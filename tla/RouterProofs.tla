----------------------------- MODULE RouterProofs -----------------------------
(***************************************************************************)
(* Theorems about Router, for any number of providers, any of them free,   *)
(* and any finite number of requests.                                      *)
(***************************************************************************)
EXTENDS Router, FiniteSetTheorems, TLAPS

\* A request counted for a provider is at an HTTP provider, and one that has not
\* arrived at none.
AtHttp ==
    \A r \in Requests :
        /\ req[r].pc \in Tried \cup Answered => req[r].at \in Http
        /\ req[r].pc = "idle" => req[r].at = 0

Typed == TypeOK /\ AtHttp

\* What the steps of one request do to it.
LEMMA Moved ==
    ASSUME TypeOK, NEW r \in Requests,
           NEW pc \in {"idle", "next"} \cup Tried \cup Ended,
           req' = [req EXCEPT ![r].pc = pc]
    PROVE  /\ req' \in [Requests -> ReqState]
           /\ req'[r].pc = pc /\ req'[r].at = req[r].at
           /\ \A s \in Requests \ {r} : req'[s] = req[s]
BY DEF TypeOK, ReqState

\* What counting one more of a provider's totals does to its counts.
LEMMA Counted ==
    ASSUME TypeOK, NEW p \in Providers
    PROVE  /\ [stats EXCEPT ![p].total = @ + 1] \in [Providers -> Counts]
           /\ [stats EXCEPT ![p].ok = @ + 1] \in [Providers -> Counts]
           /\ [stats EXCEPT ![p].bad = @ + 1] \in [Providers -> Counts]
BY DEF TypeOK, Counts

\* Handlers keep the types, and count only at HTTP providers.
LEMMA HandleTyped ==
    ASSUME Typed, NEW r \in Requests, Arrive(r) \/ Handle(r)
    PROVE  Typed'
<1> USE DEF Typed
<1>1. CASE Arrive(r)
  <2>1. PICK pc \in {"next", "refused"} : req' = [req EXCEPT ![r].pc = pc]
    BY <1>1 DEF Arrive
  <2>2. pc \in {"idle", "next"} \cup Tried \cup Ended
    BY DEF Ended
  <2>3. TypeOK'
    BY <1>1, <2>1, <2>2, Moved DEF Arrive, TypeOK
  <2>4. AtHttp'
    BY <2>1, <2>2, Moved DEF AtHttp, Tried, Answered
  <2> QED BY <2>3, <2>4
<1>2. ASSUME NEW p \in Http, Try(r, p)
      PROVE  Typed'
  <2>1. p \in Providers
    BY <1>2 DEF Http
  <2>2. req' = [req EXCEPT ![r] = [pc |-> "checking", at |-> p]]
    BY <1>2 DEF Try
  <2>3. req' \in [Requests -> ReqState]
    BY <2>1, <2>2, NAssumption DEF TypeOK, ReqState, Tried, Providers
  <2>4. AtHttp'
    BY <1>2, <2>2 DEF AtHttp, TypeOK
  <2>5. TypeOK'
    BY <1>2, <2>1, <2>3, Counted DEF Try, TypeOK
  <2> QED BY <2>4, <2>5
<1>3. CASE Block(r) \/ Fail(r)
  <2>1. req[r].at \in Providers /\ req' = [req EXCEPT ![r].pc = "next"]
    BY <1>3 DEF Block, Fail, AtHttp, Http, Tried
  <2>2. stats' = [stats EXCEPT ![req[r].at].bad = @ + 1]
    BY <1>3 DEF Block, Fail
  <2>3. TypeOK'
    BY <1>3, <2>1, <2>2, Moved, Counted DEF Block, Fail, TypeOK
  <2>4. AtHttp'
    BY <2>1, Moved DEF AtHttp, Tried, Answered
  <2> QED BY <2>3, <2>4
<1>4. CASE Send(r)
  <2>1. req[r].at \in Http /\ req' = [req EXCEPT ![r].pc = "sent"]
    BY <1>4 DEF Send, AtHttp, Tried
  <2>2. "sent" \in Tried
    BY DEF Tried
  <2>3. TypeOK'
    BY <1>4, <2>1, <2>2, Moved DEF Send, TypeOK
  <2>4. AtHttp'
    BY <2>1, <2>2, Moved DEF AtHttp
  <2> QED BY <2>3, <2>4
<1>5. CASE Serve(r) \/ Stream(r)
  <2>1. /\ req[r].at \in Http /\ req[r].at \in Providers
        /\ \/ req' = [req EXCEPT ![r].pc = "served"]
           \/ req' = [req EXCEPT ![r].pc = "streaming"]
    BY <1>5 DEF Serve, Stream, AtHttp, Http, Tried
  <2>2. "served" \in Ended /\ "streaming" \in Tried
    BY DEF Ended, Tried
  <2>3. \/ stats' = stats
        \/ stats' = [stats EXCEPT ![req[r].at].ok = @ + 1]
    BY <1>5 DEF Serve, Stream
  <2>4. TypeOK'
    <3>1. PICK pc \in {"idle", "next"} \cup Tried \cup Ended :
               req' = [req EXCEPT ![r].pc = pc]
      BY <2>1, <2>2
    <3>2. req' \in [Requests -> ReqState]
      BY <3>1, Moved
    <3>3. stats' \in [Providers -> Counts]
      <4>1. /\ stats \in [Providers -> Counts]
            /\ [stats EXCEPT ![req[r].at].ok = @ + 1] \in [Providers -> Counts]
        BY <2>1, Counted DEF TypeOK
      <4> QED BY <2>3, <4>1
    <3> QED BY <1>5, <2>1, <3>2, <3>3 DEF Serve, Stream, TypeOK
  <2>5. AtHttp'
    BY <2>1, <2>2, Moved DEF AtHttp
  <2> QED BY <2>4, <2>5
<1>6. CASE EndStream(r)
  <2>1. /\ req[r].at \in Http /\ req[r].at \in Providers
        /\ \/ /\ stats' = [stats EXCEPT ![req[r].at].ok = @ + 1]
              /\ req' = [req EXCEPT ![r].pc = "served"]
           \/ /\ stats' = [stats EXCEPT ![req[r].at].bad = @ + 1]
              /\ req' = [req EXCEPT ![r].pc = "broken"]
    BY <1>6 DEF EndStream, AtHttp, Http, Tried
  <2>2. "served" \in Ended /\ "broken" \in Ended
    BY DEF Ended
  <2>3. TypeOK'
    <3>1. PICK pc \in {"idle", "next"} \cup Tried \cup Ended :
               req' = [req EXCEPT ![r].pc = pc]
      BY <2>1, <2>2
    <3>2. req' \in [Requests -> ReqState]
      BY <3>1, Moved
    <3>3. stats' \in [Providers -> Counts]
      <4>1. stats' = [stats EXCEPT ![req[r].at].ok = @ + 1]
              \/ stats' = [stats EXCEPT ![req[r].at].bad = @ + 1]
        BY <2>1
      <4>2. /\ [stats EXCEPT ![req[r].at].ok = @ + 1] \in [Providers -> Counts]
            /\ [stats EXCEPT ![req[r].at].bad = @ + 1] \in [Providers -> Counts]
        BY <2>1, Counted
      <4> QED BY <4>1, <4>2
    <3> QED BY <1>6, <3>2, <3>3 DEF EndStream, TypeOK
  <2>4. AtHttp'
    BY <2>1, <2>2, Moved DEF AtHttp
  <2> QED BY <2>3, <2>4
<1>7. CASE Exhaust(r)
  <2>1. PICK pc \in {"exhausted"} : req' = [req EXCEPT ![r].pc = pc]
    BY <1>7 DEF Exhaust
  <2>2. pc \in {"idle", "next"} \cup Tried \cup Ended
    BY DEF Ended
  <2>3. req' \in [Requests -> ReqState]
    BY <2>1, <2>2, Moved
  <2>4. TypeOK'
    BY <1>7, <2>3 DEF Exhaust, TypeOK
  <2>5. AtHttp'
    BY <2>1, <2>2, Moved DEF AtHttp, Tried, Answered
  <2> QED BY <2>4, <2>5
<1> QED BY <1>1, <1>2, <1>3, <1>4, <1>5, <1>6, <1>7 DEF Handle

\* So do the agent's loop and a deletion.
LEMMA AgentTyped ==
    ASSUME Typed, Agent \/ Delete \/ UNCHANGED vars
    PROVE  Typed'
<1>1. ASSUME NEW e \in Engines, StartEngine(e)
      PROVE  Typed'
  BY <1>1 DEF StartEngine, Typed, TypeOK, JobState, AtHttp, Engines
<1>2. CASE Finish
  BY <1>2 DEF Finish, Typed, TypeOK, JobState, AtHttp
<1>3. CASE Raise \/ GiveUp
  BY <1>3 DEF Raise, GiveUp, Typed, TypeOK, JobState, AtHttp
<1>4. CASE Flush
  BY <1>4 DEF Flush, Typed, TypeOK, JobState, AtHttp
<1>5. CASE Delete
  BY <1>5 DEF Delete, Typed, TypeOK, AtHttp
<1>6. CASE UNCHANGED vars
  BY <1>6 DEF vars, Typed, TypeOK, AtHttp
<1> QED BY <1>1, <1>2, <1>3, <1>4, <1>5, <1>6 DEF Agent

\* Typed is an invariant of the router and the agent together.
LEMMA TypedInvariance == Spec => []Typed
<1>1. Init => Typed
  BY NAssumption DEF Init, Typed, TypeOK, JobState, AtHttp, Counts, NoCounts,
     ReqState, Providers, Tried, Answered
<1>2. Typed /\ [Next]_vars => Typed'
  BY HandleTyped, AgentTyped DEF Next
<1> QED BY <1>1, <1>2, PTL DEF Spec

\* The entry, its counts and its requests keep their types, and the engine is
\* always one of the list built from the snapshots.
THEOREM RouterTypeCorrect == Spec => []TypeOK
<1>1. Typed => TypeOK
  BY DEF Typed
<1> QED BY <1>1, TypedInvariance, PTL

-----------------------------------------------------------------------------
(* StatsBalance                                                            *)

LEMMA SetsOfRequestsAreFinite ==
    ASSUME NEW S \in SUBSET Requests
    PROVE  IsFiniteSet(S) /\ Cardinality(S) \in Nat
BY RequestsAssumption, FS_Subset, FS_CardinalityType

\* A step that keeps the counts and every open request keeps the balance.
LEMMA BalanceKept ==
    ASSUME StatsBalance, stats' = stats,
           \A s \in Requests, p \in Providers :
               (s \in Pending(p))' <=> s \in Pending(p)
    PROVE  StatsBalance'
<1>1. ASSUME NEW p \in Providers PROVE Pending(p)' = Pending(p)
  BY DEF Pending
<1> QED BY <1>1 DEF StatsBalance

\* A request that is closed is counted once, as a success or a failure.
LEMMA BalanceOfClosing ==
    ASSUME Typed, StatsBalance, NEW r \in Requests, req[r].pc \in Tried,
           NEW pc \in {"next"} \cup Ended, req' = [req EXCEPT ![r].pc = pc],
           \/ stats' = [stats EXCEPT ![req[r].at].ok = @ + 1]
           \/ stats' = [stats EXCEPT ![req[r].at].bad = @ + 1]
    PROVE  StatsBalance'
<1> DEFINE k == req[r].at
<1>1. k \in Providers
  BY DEF Typed, AtHttp, Http
<1>2. req \in [Requests -> ReqState] /\ stats \in [Providers -> Counts]
  BY DEF Typed, TypeOK
<1>3. /\ req'[r].pc \notin Tried
      /\ \A s \in Requests \ {r} : req'[s] = req[s]
  BY <1>2 DEF Tried, Ended, ReqState
<1>4. r \in Pending(k) /\ Pending(k)' = Pending(k) \ {r}
  BY <1>2, <1>3 DEF Pending
<1>5. Cardinality(Pending(k)') = Cardinality(Pending(k)) - 1
      /\ Cardinality(Pending(k)) \in Nat
  <2>1. IsFiniteSet(Pending(k)) /\ Cardinality(Pending(k)) \in Nat
    BY SetsOfRequestsAreFinite, FS_CardinalityType DEF Pending
  <2> HIDE DEF k
  <2>2. Cardinality(Pending(k) \ {r}) = Cardinality(Pending(k)) - 1
    BY <1>4, <2>1, FS_RemoveElement
  <2> QED BY <1>4, <2>1, <2>2
<1>6. /\ stats'[k].total = stats[k].total
      /\ stats'[k].ok + stats'[k].bad = stats[k].ok + stats[k].bad + 1
      /\ stats[k].ok + stats[k].bad \in Nat
  <2>1. stats[k].total \in Nat /\ stats[k].ok \in Nat /\ stats[k].bad \in Nat
    BY <1>1, <1>2 DEF Counts
  <2>2. \/ stats'[k] = [stats[k] EXCEPT !.ok = @ + 1]
        \/ stats'[k] = [stats[k] EXCEPT !.bad = @ + 1]
    BY <1>1, <1>2
  <2>3. stats[k] \in Counts
    BY <1>1, <1>2
  <2>4. \/ /\ stats'[k].ok = stats[k].ok + 1
           /\ stats'[k].bad = stats[k].bad
        \/ /\ stats'[k].bad = stats[k].bad + 1
           /\ stats'[k].ok = stats[k].ok
    BY <2>2, <2>3 DEF Counts
  <2>5. stats'[k].total = stats[k].total
    BY <2>2, <2>3 DEF Counts
  <2> QED BY <2>1, <2>4, <2>5
<1>7. ASSUME NEW p \in Providers \ {k}
      PROVE  stats'[p] = stats[p] /\ Pending(p)' = Pending(p)
  BY <1>1, <1>2, <1>3 DEF Pending
<1>8. ASSUME NEW p \in Providers
      PROVE  (stats[p].total = stats[p].ok + stats[p].bad + Cardinality(Pending(p)))'
  <2>1. CASE p = k
    BY <2>1, <1>1, <1>5, <1>6 DEF StatsBalance
  <2>2. CASE p # k
    BY <2>2, <1>7 DEF StatsBalance
  <2> QED BY <2>1, <2>2
<1> QED BY <1>8 DEF StatsBalance

\* A request that tries a provider is counted and open.
LEMMA BalanceOfTrying ==
    ASSUME Typed, StatsBalance, NEW r \in Requests, NEW k \in Http, Try(r, k)
    PROVE  StatsBalance'
<1>1. k \in Providers
  BY DEF Http
<1>2. req \in [Requests -> ReqState] /\ stats \in [Providers -> Counts]
  BY DEF Typed, TypeOK
<1>3. /\ req[r].pc \notin Tried
      /\ req'[r].pc \in Tried /\ req'[r].at = k
      /\ \A s \in Requests \ {r} : req'[s] = req[s]
  BY <1>2 DEF Try, Tried
<1>4. r \notin Pending(k) /\ Pending(k)' = Pending(k) \cup {r}
  BY <1>3 DEF Pending
<1>5. Cardinality(Pending(k)') = Cardinality(Pending(k)) + 1
      /\ Cardinality(Pending(k)) \in Nat
  BY <1>4, SetsOfRequestsAreFinite, FS_AddElement DEF Pending
<1>6. /\ stats'[k].total = stats[k].total + 1
      /\ stats'[k].ok = stats[k].ok /\ stats'[k].bad = stats[k].bad
      /\ stats[k].ok + stats[k].bad \in Nat
  BY <1>1, <1>2 DEF Try, Counts
<1>7. ASSUME NEW p \in Providers \ {k}
      PROVE  stats'[p] = stats[p] /\ Pending(p)' = Pending(p)
  BY <1>1, <1>2, <1>3 DEF Pending, Try
<1>8. ASSUME NEW p \in Providers
      PROVE  (stats[p].total = stats[p].ok + stats[p].bad + Cardinality(Pending(p)))'
  <2>1. CASE p = k
    BY <2>1, <1>1, <1>5, <1>6 DEF StatsBalance
  <2>2. CASE p # k
    BY <2>2, <1>7 DEF StatsBalance
  <2> QED BY <2>1, <2>2
<1> QED BY <1>8 DEF StatsBalance

\* However the handlers of a conversion interleave, the counts of a provider add
\* up to the requests that tried it.
THEOREM StatsBalanceHolds == Spec => []StatsBalance
<1>1. Init => StatsBalance
  <2> SUFFICES ASSUME Init, NEW p \in Providers
               PROVE  stats[p].total
                        = stats[p].ok + stats[p].bad + Cardinality(Pending(p))
    BY DEF StatsBalance
  <2>1. Pending(p) = {}
    BY DEF Init, Pending, Tried
  <2> QED BY <2>1, FS_EmptySet DEF Init, NoCounts
<1>2. Typed /\ StatsBalance /\ [Next]_vars => StatsBalance'
  <2> SUFFICES ASSUME Typed, StatsBalance, [Next]_vars PROVE StatsBalance'
    OBVIOUS
  <2>1. CASE Agent \/ Delete \/ UNCHANGED vars
    <3>1. req' = req /\ stats' = stats
      BY <2>1 DEF Agent, StartEngine, Finish, Raise, GiveUp, Flush, Delete, vars
    <3> QED BY <3>1, BalanceKept DEF Pending
  <2>2. ASSUME NEW r \in Requests, Arrive(r) \/ Send(r) \/ Stream(r) \/ Exhaust(r)
        PROVE  StatsBalance'
    <3>1. stats' = stats
      BY <2>2 DEF Arrive, Send, Stream, Exhaust
    <3>2. ASSUME NEW s \in Requests, NEW p \in Providers
          PROVE  (s \in Pending(p))' <=> s \in Pending(p)
      BY <2>2 DEF Typed, TypeOK, ReqState, Arrive, Send, Stream, Exhaust,
                  Pending, Tried
    <3> QED BY <3>1, <3>2, BalanceKept
  <2>3. ASSUME NEW r \in Requests, Block(r) \/ Fail(r) \/ Serve(r) \/ EndStream(r)
        PROVE  StatsBalance'
    <3>1. req[r].pc \in Tried
      BY <2>3 DEF Block, Fail, Serve, EndStream, Tried
    <3>2. PICK pc \in {"next"} \cup Ended : req' = [req EXCEPT ![r].pc = pc]
      BY <2>3 DEF Block, Fail, Serve, EndStream, Ended
    <3>3. \/ stats' = [stats EXCEPT ![req[r].at].ok = @ + 1]
          \/ stats' = [stats EXCEPT ![req[r].at].bad = @ + 1]
      BY <2>3 DEF Block, Fail, Serve, EndStream
    <3> QED BY <3>1, <3>2, <3>3, BalanceOfClosing
  <2> QED BY <2>1, <2>2, <2>3, BalanceOfTrying DEF Next, Handle
<1> QED BY <1>1, <1>2, TypedInvariance, PTL DEF Spec

-----------------------------------------------------------------------------
(* FallbackIsEarned                                                        *)

\* Requests that tried provider p, and requests that p has failed.
Reached(p) == {r \in Requests : req[r].at >= p}
Left(p) == {r \in Requests :
                \/ req[r].at > p
                \/ req[r].at = p /\ req[r].pc \in {"next", "exhausted"}}

\* A request tries every HTTP provider in turn, so p was asked once by each
\* request that is at p or beyond, and has failed each that went on.
Earned == \A p \in Http : /\ stats[p].total = Cardinality(Reached(p))
                         /\ Cardinality(Left(p)) <= stats[p].bad

\* What trying a provider changes.
LEMMA EarnedByTrying ==
    ASSUME Typed, Earned, NEW r \in Requests, NEW k \in Http, Try(r, k)
    PROVE  Earned'
<1>1. /\ req \in [Requests -> ReqState] /\ stats \in [Providers -> Counts]
      /\ Http \subseteq Nat \ {0} /\ Http \subseteq Providers
  BY NAssumption DEF Typed, TypeOK, Http, Providers
<1>2. /\ req[r].at < k /\ req[r].at \in Nat /\ req[r].pc = "next"
      /\ req'[r].at = k /\ req'[r].pc = "checking"
      /\ \A s \in Requests \ {r} : req'[s] = req[s]
      /\ \A q \in Http : req[r].at < q => k <= q
  BY <1>1 DEF Try, Later, ReqState
<1>3. \A s \in Requests : req[s].at \in Nat
  BY <1>1 DEF ReqState
<1>4. ASSUME NEW p \in Http PROVE Left(p)' = Left(p)
  <2>1. p \in Nat /\ k \in Nat
    BY <1>1
  <2>2. r \in Left(p) <=> req[r].at >= p
    BY <1>2, <2>1 DEF Left
  <2>3. r \in Left(p)' <=> k > p
    BY <1>2, <2>1 DEF Left
  <2>4. req[r].at >= p <=> k > p
    BY <1>2, <2>1
  <2>5. \A s \in Requests \ {r} : s \in Left(p)' <=> s \in Left(p)
    BY <1>2 DEF Left
  <2>6. Left(p) \subseteq Requests /\ Left(p)' \subseteq Requests
    BY DEF Left
  <2> QED BY <2>2, <2>3, <2>4, <2>5, <2>6
<1>5. r \notin Reached(k) /\ Reached(k)' = Reached(k) \cup {r}
  BY <1>1, <1>2, <1>3 DEF Reached
<1>6. Cardinality(Reached(k)') = Cardinality(Reached(k)) + 1
  BY <1>5, SetsOfRequestsAreFinite, FS_AddElement DEF Reached
<1>7. ASSUME NEW p \in Http \ {k} PROVE Reached(p)' = Reached(p)
  BY <1>1, <1>2, <1>3 DEF Reached
<1>8. /\ stats'[k].total = stats[k].total + 1
      /\ \A p \in Http : stats'[p].bad = stats[p].bad
      /\ \A p \in Http \ {k} : stats'[p].total = stats[p].total
  BY <1>1 DEF Try, Counts
<1> QED BY <1>4, <1>6, <1>7, <1>8 DEF Earned

\* What a failure changes.
LEMMA EarnedByFailing ==
    ASSUME Typed, Earned, NEW r \in Requests, Block(r) \/ Fail(r)
    PROVE  Earned'
<1>0. PICK k \in Http : k = req[r].at
  BY DEF Typed, AtHttp, Block, Fail, Tried
<1>1. /\ req \in [Requests -> ReqState] /\ stats \in [Providers -> Counts]
      /\ Http \subseteq Nat \ {0} /\ Http \subseteq Providers
  BY NAssumption DEF Typed, TypeOK, Http, Providers
<1>2. /\ req[r].pc \in {"checking", "sent"}
      /\ req'[r].at = k /\ req'[r].pc = "next"
      /\ \A s \in Requests \ {r} : req'[s] = req[s]
  BY <1>0, <1>1 DEF Block, Fail, ReqState
<1>3. \A s \in Requests : req[s].at \in Nat
  BY <1>1 DEF ReqState
<1>4. ASSUME NEW p \in Http PROVE Reached(p)' = Reached(p)
  BY <1>0, <1>1, <1>2, <1>3 DEF Reached
<1>5. r \notin Left(k) /\ Left(k)' = Left(k) \cup {r}
  BY <1>0, <1>1, <1>2, <1>3 DEF Left
<1>6. Cardinality(Left(k)') = Cardinality(Left(k)) + 1
      /\ Cardinality(Left(k)) \in Nat
  BY <1>5, SetsOfRequestsAreFinite, FS_AddElement DEF Left
<1>7. ASSUME NEW p \in Http \ {k} PROVE Left(p)' = Left(p)
  BY <1>0, <1>1, <1>2, <1>3 DEF Left
<1>8. /\ stats'[k].bad = stats[k].bad + 1 /\ stats[k].bad \in Nat
      /\ \A p \in Http : stats'[p].total = stats[p].total
      /\ \A p \in Http \ {k} : stats'[p].bad = stats[p].bad
  BY <1>0, <1>1 DEF Block, Fail, Counts
<1>9. ASSUME NEW p \in Http
      PROVE  /\ stats'[p].total = Cardinality(Reached(p)')
             /\ Cardinality(Left(p)') <= stats'[p].bad
  <2>1. CASE p = k
    <3>1. stats[k].total = Cardinality(Reached(k)) /\ Cardinality(Left(k)) <= stats[k].bad
      BY <1>1 DEF Earned
    <3>2. stats'[k].total = stats[k].total /\ Reached(k)' = Reached(k)
      BY <1>1, <1>4, <1>8
    <3>3. Cardinality(Left(k)') <= stats'[k].bad
      BY <3>1, <1>6, <1>8
    <3> QED BY <2>1, <3>1, <3>2, <3>3
  <2>2. CASE p # k
    BY <2>2, <1>4, <1>7, <1>8 DEF Earned
  <2> QED BY <2>1, <2>2
<1> QED BY <1>9 DEF Earned

\* Every other step leaves both sets alone, and takes no failure back.
LEMMA EarnedOtherwise ==
    ASSUME Typed, Earned, NEW r \in Requests,
           Arrive(r) \/ Send(r) \/ Serve(r) \/ Stream(r) \/ EndStream(r)
             \/ Exhaust(r)
    PROVE  Earned'
<1>1. /\ req \in [Requests -> ReqState] /\ stats \in [Providers -> Counts]
      /\ Http \subseteq Nat \ {0} /\ Http \subseteq Providers
  BY NAssumption DEF Typed, TypeOK, Http, Providers
<1>2. ASSUME NEW s \in Requests PROVE req'[s].at = req[s].at
  BY <1>1 DEF Arrive, Send, Serve, Stream, EndStream, Exhaust, ReqState
<1>3. ASSUME NEW p \in Http PROVE Reached(p)' = Reached(p)
  BY <1>2 DEF Reached
<1>4. ASSUME NEW p \in Http PROVE Left(p)' \subseteq Left(p)
  <2> SUFFICES ASSUME NEW s \in Requests, s \in Left(p)', s \notin Left(p)
               PROVE  FALSE
    BY DEF Left
  <2>1. /\ req[s].at = p /\ p # 0
        /\ req[s].pc \notin {"next", "exhausted"}
        /\ req'[s].pc \in {"next", "exhausted"}
    BY <1>1, <1>2 DEF Left
  <2>2. s = r /\ Arrive(r)
    BY <1>1, <2>1 DEF Arrive, Send, Serve, Stream, EndStream, Exhaust, ReqState
  <2> QED BY <2>1, <2>2 DEF Arrive, Typed, AtHttp
<1>5. ASSUME NEW p \in Http
      PROVE  stats'[p].total = stats[p].total /\ stats'[p].bad >= stats[p].bad
  BY <1>1 DEF Arrive, Send, Serve, Stream, EndStream, Exhaust, Counts
<1>6. ASSUME NEW p \in Http
      PROVE  Cardinality(Left(p)') <= Cardinality(Left(p))
             /\ Cardinality(Left(p)) \in Nat /\ Cardinality(Left(p)') \in Nat
  BY <1>4, SetsOfRequestsAreFinite, FS_Subset DEF Left
<1>7. ASSUME NEW p \in Http
      PROVE  /\ stats'[p].total = Cardinality(Reached(p)')
             /\ Cardinality(Left(p)') <= stats'[p].bad
  <2>1. stats[p].bad \in Nat /\ stats'[p].bad \in Nat
    BY <1>1, HandleTyped DEF Counts, Typed, TypeOK, Handle
  <2> QED BY <2>1, <1>3, <1>5, <1>6 DEF Earned
<1> QED BY <1>7 DEF Earned

\* A provider is never asked more often than each HTTP provider above it has
\* failed.
THEOREM FallbackIsEarnedHolds == Spec => []FallbackIsEarned
<1>1. Init => Earned
  <2> SUFFICES ASSUME Init, NEW p \in Http
               PROVE  /\ stats[p].total = Cardinality(Reached(p))
                      /\ Cardinality(Left(p)) <= stats[p].bad
    BY DEF Earned
  <2>1. p \in Nat \ {0} /\ p \in Providers
    BY NAssumption DEF Http, Providers
  <2>2. Reached(p) = {} /\ Left(p) = {}
    BY <2>1 DEF Init, Reached, Left
  <2> QED BY <2>1, <2>2, FS_EmptySet DEF Init, NoCounts
<1>2. Typed /\ Earned /\ [Next]_vars => Earned'
  <2> SUFFICES ASSUME Typed, Earned, [Next]_vars PROVE Earned'
    OBVIOUS
  <2>1. CASE Agent \/ Delete \/ UNCHANGED vars
    <3>1. req' = req /\ stats' = stats
      BY <2>1 DEF Agent, StartEngine, Finish, Raise, GiveUp, Flush, Delete, vars
    <3> QED BY <3>1 DEF Earned, Reached, Left
  <2> QED BY <2>1, EarnedByTrying, EarnedByFailing, EarnedOtherwise
          DEF Next, Handle
<1>3. Typed /\ Earned => FallbackIsEarned
  <2> SUFFICES ASSUME Typed, Earned, NEW p \in Http, NEW q \in Http, q < p
               PROVE  stats[p].total <= stats[q].bad
    BY DEF FallbackIsEarned
  <2>0. p \in Providers /\ q \in Providers /\ p \in Nat /\ q \in Nat
    BY NAssumption DEF Http, Providers
  <2>1. /\ stats[q].bad \in Nat
        /\ \A r \in Requests : req[r].at \in Nat
    <3>1. stats[q] \in Counts /\ \A r \in Requests : req[r] \in ReqState
      BY <2>0 DEF Typed, TypeOK
    <3> QED BY <3>1, NAssumption DEF Counts, ReqState
  <2>2. Reached(p) \subseteq Left(q)
    BY <2>0, <2>1 DEF Reached, Left
  <2>3. Cardinality(Reached(p)) <= Cardinality(Left(q))
        /\ Cardinality(Reached(p)) \in Nat /\ Cardinality(Left(q)) \in Nat
    BY <2>2, SetsOfRequestsAreFinite, FS_Subset DEF Reached, Left
  <2> QED BY <2>0, <2>1, <2>3 DEF Earned
<1> QED BY <1>1, <1>2, <1>3, TypedInvariance, PTL DEF Spec

-----------------------------------------------------------------------------
(* ExhaustedIsNotCompleted                                                 *)

\* As long as no provider answered, every exhausted request is in the streak.
StreakCounts ==
    (\A r \in Requests : req[r].pc \notin Answered)
    => streak = Cardinality(Exhausted)

\* A conversion completed by the router had nothing under way, and its streak
\* was looked at.
Concluded ==
    /\ job.outcome = "completed" => job.pc \in {"flush", "ended"}
    /\ entry = "popped" => job.pc = "ended"
    /\ (job.outcome = "completed" /\ job.engine \in Http /\ entry # "deleted")
       => /\ \A r \in Requests : req[r].pc \notin {"next", "checking", "sent"}
          /\ ExhaustedIsNotCompleted

\* Handlers count what they exhaust.
LEMMA StreakKept ==
    ASSUME Typed, StreakCounts, [Next]_vars
    PROVE  StreakCounts'
<1>1. req \in [Requests -> ReqState]
  BY DEF Typed, TypeOK
<1>2. CASE Agent \/ Delete \/ UNCHANGED vars
  <2>1. req' = req /\ streak' = streak
    BY <1>2 DEF Agent, StartEngine, Finish, Raise, GiveUp, Flush, Delete, vars
  <2> QED BY <2>1 DEF StreakCounts, Exhausted
<1>3. ASSUME NEW r \in Requests, NEW p \in Http,
             Try(r, p) \/ Arrive(r) \/ Block(r) \/ Send(r) \/ Fail(r)
      PROVE  StreakCounts'
  <2>1. /\ streak' = streak
        /\ req[r].pc \notin Answered
        /\ req[r].pc # "exhausted" /\ req'[r].pc # "exhausted"
        /\ \A s \in Requests \ {r} : req'[s] = req[s]
    BY <1>1, <1>3 DEF Try, Arrive, Block, Send, Fail, Answered, ReqState
  <2>2. Exhausted' = Exhausted
    BY <2>1 DEF Exhausted
  <2> QED BY <2>1, <2>2 DEF StreakCounts
<1>4. ASSUME NEW r \in Requests, Serve(r) \/ Stream(r) \/ EndStream(r)
      PROVE  StreakCounts'
  <2>1. req'[r].pc \in Answered
    BY <1>1, <1>4 DEF Serve, Stream, EndStream, Answered, ReqState
  <2> QED BY <2>1 DEF StreakCounts
<1>5. ASSUME NEW r \in Requests, Exhaust(r)
      PROVE  StreakCounts'
  <2>1. /\ streak' = streak + 1
        /\ req[r].pc = "next" /\ req'[r].pc = "exhausted"
        /\ \A s \in Requests \ {r} : req'[s] = req[s]
    BY <1>1, <1>5 DEF Exhaust, ReqState
  <2>2. Exhausted' = Exhausted \cup {r} /\ r \notin Exhausted
    BY <2>1 DEF Exhausted
  <2>3. Cardinality(Exhausted') = Cardinality(Exhausted) + 1
    BY <2>2, SetsOfRequestsAreFinite, FS_AddElement DEF Exhausted
  <2>4. (\A s \in Requests : req'[s].pc \notin Answered)
        => \A s \in Requests : req[s].pc \notin Answered
    BY <2>1 DEF Answered
  <2> QED BY <2>1, <2>3, <2>4 DEF StreakCounts
<1> QED
  <2>1. ASSUME NEW r \in Requests, Arrive(r) \/ Block(r) \/ Send(r) \/ Fail(r)
        PROVE  StreakCounts'
    <3>1. CASE Http = {}
      <4>1. CASE Arrive(r)
        <5>1. streak' = streak /\ Exhausted' = Exhausted /\ req[r].pc \notin Answered
              /\ \A s \in Requests \ {r} : req'[s] = req[s]
          BY <1>1, <4>1 DEF Arrive, Exhausted, ReqState, Answered
        <5> QED BY <5>1 DEF StreakCounts
      <4>2. CASE Block(r) \/ Send(r) \/ Fail(r)
        BY <3>1, <4>2 DEF Block, Send, Fail, Typed, AtHttp, Tried
      <4> QED BY <2>1, <4>1, <4>2
    <3>2. CASE Http # {}
      BY <2>1, <3>2, <1>3
    <3> QED BY <3>1, <3>2
  <2> QED BY <1>2, <1>3, <1>4, <1>5, <2>1 DEF Next, Handle

\* A conclusion stands: nothing arrives or ends in failure after it.
LEMMA ConclusionKept ==
    ASSUME Typed, StreakCounts, Concluded, [Next]_vars
    PROVE  Concluded'
<1>1. req \in [Requests -> ReqState] /\ job \in JobState /\ streak \in Nat
  BY DEF Typed, TypeOK
<1>2. CASE Finish
  <2>1. /\ req' = req /\ entry' = entry /\ job'.engine = job.engine
        /\ job.engine \in Http =>
             \A r \in Requests : req[r].pc \notin {"next", "checking", "sent"}
    BY <1>1, <1>2 DEF Finish, Waited, JobState
  <2>2. job'.outcome = "completed" =>
          /\ job'.pc \in {"flush", "ended"}
          /\ (job.engine \in Http /\ entry = "present") => streak < Patience
    BY <1>1, <1>2 DEF Finish, JobState, Concluded, Patience
  <2>3. entry \in {"present", "deleted"}
    BY <1>2 DEF Typed, TypeOK, Finish, Concluded
  <2>4. (job'.outcome = "completed" /\ job'.engine \in Http /\ entry' # "deleted")
        => ExhaustedIsNotCompleted'
    <3> SUFFICES ASSUME job'.outcome = "completed", job.engine \in Http,
                        entry = "present", streak < Patience
                 PROVE  ExhaustedIsNotCompleted'
      BY <2>1, <2>2, <2>3
    <3>1. \/ \E r \in Requests : req[r].pc \in Answered
          \/ Cardinality(Exhausted) < Patience
      BY DEF StreakCounts
    <3> QED BY <2>1, <3>1 DEF ExhaustedIsNotCompleted, Exhausted
  <2> QED BY <2>1, <2>2, <2>3, <2>4 DEF Concluded
<1>3. ASSUME NEW e \in Engines, StartEngine(e)
      PROVE  Concluded'
  BY <1>1, <1>3 DEF StartEngine, Concluded, JobState, ExhaustedIsNotCompleted
<1>4. CASE Raise \/ GiveUp
  BY <1>1, <1>4 DEF Raise, GiveUp, Concluded, JobState, ExhaustedIsNotCompleted
<1>5. CASE Flush \/ Delete \/ UNCHANGED vars
  BY <1>1, <1>5 DEF Flush, Delete, vars, Concluded, JobState,
                    ExhaustedIsNotCompleted, Exhausted
<1>6. ASSUME NEW r \in Requests, Arrive(r) \/ Handle(r)
      PROVE  Concluded'
  <2>1. job' = job /\ entry' = entry
    BY <1>6 DEF Arrive, Handle, Try, Block, Send, Fail, Serve, Stream,
                EndStream, Exhaust
  <2>2. CASE job.outcome = "completed" /\ job.engine \in Http /\ entry # "deleted"
    <3>1. EndStream(r)
      BY <1>6, <2>2 DEF Concluded, Arrive, Handle, Try, Block, Send, Fail,
                        Serve, Stream, Exhaust
    <3>2. /\ req'[r].pc \in {"served", "broken"}
          /\ \A s \in Requests \ {r} : req'[s] = req[s]
      BY <1>1, <3>1 DEF EndStream, ReqState
    <3> QED BY <2>1, <2>2, <3>2 DEF Concluded, ExhaustedIsNotCompleted, Answered
  <2>3. CASE ~(job.outcome = "completed" /\ job.engine \in Http
                 /\ entry # "deleted")
    BY <2>1, <2>3 DEF Concluded
  <2> QED BY <2>2, <2>3
<1> QED BY <1>2, <1>3, <1>4, <1>5, <1>6 DEF Next, Agent

\* For any number of requests: when none of three or more was answered by a
\* provider, the router's conversion is not reported as completed.
THEOREM ExhaustedIsNotCompletedHolds == Spec => []ExhaustedIsNotCompleted
<1>1. Init => StreakCounts /\ Concluded
  <2> SUFFICES ASSUME Init PROVE StreakCounts /\ Concluded
    OBVIOUS
  <2>1. Exhausted = {}
    BY DEF Init, Exhausted
  <2> QED BY <2>1, FS_EmptySet DEF Init, StreakCounts, Concluded
<1>2. Typed /\ StreakCounts /\ Concluded /\ [Next]_vars
      => StreakCounts' /\ Concluded'
  BY StreakKept, ConclusionKept
<1>3. Concluded => ExhaustedIsNotCompleted
  BY DEF Concluded, ExhaustedIsNotCompleted
<1> QED BY <1>1, <1>2, <1>3, TypedInvariance, PTL DEF Spec

=============================================================================
