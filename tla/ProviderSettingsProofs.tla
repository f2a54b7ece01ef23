------------------------- MODULE ProviderSettingsProofs -------------------------
(***************************************************************************)
(* Theorems about ProviderSettings, for any number of requests under way,  *)
(* keys, providers and settings of the public fallback.                    *)
(***************************************************************************)
EXTENDS ProviderSettings, FiniteSetTheorems, WellFoundedInduction, TLAPS

-----------------------------------------------------------------------------
(* The inductive invariant                                                 *)

\* Every request is at a place of its handler.
OnCourse(x) ==
    /\ x.pc = "idle" => x = NoCall
    /\ x.op = "none" => x.pc = "idle"
    /\ x.op \in {"load", "list"} =>
         x.pc \in {"sent", "empty", "migrating", "migrated", "answered", "refused"}
    /\ x.op = "add" => x.pc \in {"sent", "counted", "answered", "refused"}
    /\ x.op \in {"edit", "llm"} => x.pc \in {"sent", "read", "answered", "refused"}
    /\ x.op \in {"delete", "order"} => x.pc \in {"sent", "answered"}
    /\ x.op = "basic" => x.pc \in {"sent", "empty", "migrating", "migrated",
                                   "ensured", "answered", "refused"}
    /\ x.op = "job" => x.pc # "read"

\* It asks what a page or a client can ask.
Asked(x) ==
    /\ x.op \in {"add", "edit", "delete", "order", "list"} => x.from # "basic"
    /\ x.op = "basic" => x.from # "advanced" /\ x.ask.key \in Keys \cup {"clear"}
    /\ x.op \in {"llm", "job"} => x.from = "none"
    /\ x.op = "add" => x.ask \in Adds
    /\ x.op \in {"edit", "delete"} => x.id \in Ids
    /\ x.op = "edit" /\ x.pc = "read" => x.found[x.id] # None
    /\ x.op = "llm" => x.ask.key \in Keys \cup {"clear", "keep"}
    /\ x.op = "job" =>
         /\ x.ask.enabled \in Switch
         /\ x.ask.key \in Keys \cup {"keep"}
         /\ x.ask.key = "keep" => x.ask.enabled = "off"
                                  /\ x.pc \notin {"saving", "counted"}
         /\ x.pc \in {"saving", "counted"} => x.ask.kind \in Kinds /\ x.ask.enabled = "on"
    /\ x.pc = "migrating" => x.key \notin {"none", "bare"}
    /\ x.op # "order" => x.place = NoPlace
    /\ x.op = "order" => x.found = NoRows

TypeInv == TypeOK /\ \A c \in Calls : OnCourse(call[c]) /\ Asked(call[c])

\* Ids are given out in turn.
MadeInv == \A i \in Ids : i > made => rows[i] = None

\* A request that is alone is the only one.
Alone(c) == call[c].alone /\ ~Idle(c)
AloneInv == \A c \in Calls : Alone(c) => \A d \in Calls \ {c} : Idle(d)

Migratable == Present(rows) = {} /\ legacy \notin {"none", "bare"}

\* What a handler that is alone has read is still so.
Fresh(x) ==
    /\ x.pc \in {"empty", "ensured", "counted", "read", "saving"} /\ x.op # "llm" =>
         x.found = rows
    /\ x.pc \in {"empty", "migrating"} => Present(rows) = {}
    /\ x.pc = "migrating" => x.key = legacy
    /\ x.pc = "migrated" => Present(rows) # {}
    /\ x.pc = "ensured" => ~Migratable
    /\ x.op = "llm" /\ x.pc = "read" => x.key = legacy
    /\ x.op = "job" /\ x.pc \in {"saving", "counted"} =>
         /\ Present(rows) # {}
         /\ x.ask.kind = rows[First(rows, Present(rows))].kind
    /\ x.op \in {"load", "list"} /\ x.pc = "answered" => x.found = rows /\ ~Migratable
    /\ x.op = "basic" /\ x.pc = "answered" =>
         (HasKey(rows) <=> x.ask.key # "clear") /\ ~Migratable
    /\ x.op = "load" /\ x.from = "basic" => badge = FALSE
    /\ x.op = "order" /\ x.pc = "sent" => x.place = page.place
    /\ x.op = "job" /\ x.pc = "answered" /\ x.ask.key = "keep" =>
         /\ chain.mode = IF Enabled(rows) = {} THEN "free_fallback" ELSE "user_settings"
         /\ chain.place = Places(rows, Enabled(rows))

FreshInv == \A c \in Calls : Alone(c) => Fresh(call[c])

PlanInv == chain.mode = "free_fallback" =>
             chain.plan = [n \in 1..Len(chain.plan) |-> IF n = Len(chain.plan) THEN 0 ELSE n]

\* place numbers S from 1 without a hole.
Numbers(place, S) ==
    /\ place \in [Ids -> Nat]
    /\ \A i \in Ids : place[i] # 0 <=> i \in S
    /\ \A i, j \in S : place[i] = place[j] => i = j
    /\ \A i \in S : place[i] = 1 + Cardinality({k \in S : place[k] < place[i]})

Rated(place) == {i \in Ids : place[i] # 0}

PlaceInv == /\ Numbers(page.place, Rated(page.place))
            /\ \A c \in Calls : Numbers(call[c].place, Rated(call[c].place))

\* Without a gap no priority exceeds the number of rows, and nobody knows of a
\* row that is gone.
Ratings(r) == \A i \in Present(r) : r[i].priority <= Cardinality(Present(r))

Known(S) == /\ Rated(page.place) \subseteq S
            /\ \A c \in Calls : /\ Rated(call[c].place) \subseteq S
                               /\ Present(call[c].found) \subseteq S

GapInv == ~gap => Ratings(rows) /\ Known(Present(rows))

\* A request that changes nothing a page shows.
Harmless(x) == x.op = "load" \/ (x.op = "job" /\ x.ask.enabled # "on")

Shown(p) == IF p = "advanced"
            THEN page.place = Places(rows, Present(rows)) /\ page.on = Enabled(rows)
            ELSE badge = HasKey(rows)

\* What a request leaves up to date, and what an up-to-date page goes by.
Spares(c) ==
    ~Idle(c) =>
      /\ ~call[c].alone => upset = Pages
      /\ ~Harmless(call[c]) => Pages \ {call[c].from} \subseteq upset
      /\ call[c].op = "load" /\ call[c].from # "none" => call[c].from \in upset

Holds(p) ==
    /\ (\A c \in Calls : Idle(c) \/ Harmless(call[c])) => Shown(p) /\ ~Migratable
    /\ \A c \in Calls : call[c].op = "order" =>
         /\ call[c].pc = "sent" => /\ Numbers(page.place, Present(rows))
                                   /\ page.on = Enabled(rows)
         /\ call[c].pc = "answered" => Shown(p)
         /\ ~Migratable

UpsetInv == /\ \A c \in Calls : Spares(c)
            /\ \A p \in Pages \ upset : Holds(p)

IInv == /\ TypeInv /\ MadeInv /\ AloneInv /\ FreshInv /\ PlanInv /\ PlaceInv
        /\ GapInv /\ UpsetInv

-----------------------------------------------------------------------------
(* The order of the list                                                   *)

Rows == [Ids -> Row \cup {None}]

LEMMA LeastNumber ==
    ASSUME NEW T \in SUBSET Nat, T # {}
    PROVE  \E m \in T : \A n \in T : m <= n
<1>1. IsWellFoundedOn(OpToRel(<, Nat), Nat)
  BY NatLessThanWellFounded
<1>2. PICK m \in T : \A n \in T : ~ (<<n, m>> \in OpToRel(<, Nat))
  BY <1>1, WFMin
<1>3. \A n \in T : ~(n < m)
  BY <1>2 DEF OpToRel
<1> QED
  BY <1>3

LEMMA IdsAreFinite ==
    ASSUME NEW S \in SUBSET Ids
    PROVE  IsFiniteSet(S) /\ Cardinality(S) \in Nat
<1>1. IsFiniteSet(Ids)
  BY BoundsAssumption, FS_Interval DEF Ids
<1>2. IsFiniteSet(S)
  BY <1>1, FS_Subset
<1> QED
  BY <1>2, FS_CardinalityType

\* A row that is there is a row.
LEMMA RowsThere ==
    ASSUME NEW r \in Rows
    PROVE  /\ Present(r) \subseteq Ids
           /\ \A i \in Present(r) : r[i] \in Row /\ r[i].priority \in Nat
           /\ \A i \in Ids : r[i] \in Row => i \in Present(r)
BY NoneAssumption DEF Rows, Present, Row

\* ORDER BY is a strict order on the rows that are there.
LEMMA BeforeIsOrder ==
    ASSUME NEW r \in Rows
    PROVE  /\ \A i \in Present(r) : ~Before(r, i, i)
           /\ \A i, j \in Present(r) : i # j => Before(r, i, j) \/ Before(r, j, i)
           /\ \A i, j \in Present(r) : Before(r, i, j) => ~Before(r, j, i)
           /\ \A i, j, k \in Present(r) :
                Before(r, i, j) /\ Before(r, j, k) => Before(r, i, k)
<1>1. /\ Present(r) \subseteq Nat
      /\ \A i \in Present(r) : r[i].priority \in Nat
  BY RowsThere, BoundsAssumption DEF Ids
<1> QED
  BY <1>1 DEF Before

\* First is the first row of a set of rows.
LEMMA FirstIsFirst ==
    ASSUME NEW r \in Rows, NEW S \in SUBSET Present(r), S # {}
    PROVE  First(r, S) \in S /\ \A j \in S \ {First(r, S)} : Before(r, First(r, S), j)
<1>1. /\ S \subseteq Nat
      /\ \A i \in S : r[i].priority \in Nat
  BY RowsThere, BoundsAssumption DEF Ids
<1> DEFINE P == {r[i].priority : i \in S}
           U(m) == {i \in S : r[i].priority = m}
<1>2. PICK m \in P : \A n \in P : m <= n
  <2>1. P \in SUBSET Nat /\ P # {}
    BY <1>1
  <2> HIDE DEF P
  <2> QED
    BY <2>1, LeastNumber
<1>3. PICK f \in U(m) : \A j \in U(m) : f <= j
  <2>1. U(m) \in SUBSET Nat /\ U(m) # {}
    BY <1>1
  <2> HIDE DEF U
  <2> QED
    BY <2>1, LeastNumber
<1>4. f \in S /\ \A j \in S \ {f} : Before(r, f, j)
  <2>1. f \in S /\ r[f].priority = m /\ f \in Nat /\ m \in Nat
    BY <1>1
  <2>2. ASSUME NEW j \in S \ {f} PROVE Before(r, f, j)
    <3>1. j \in Nat /\ r[j].priority \in Nat /\ m <= r[j].priority
      BY <1>1, <1>2
    <3>2. CASE r[j].priority = m
      <4>1. f <= j
        BY <1>3, <3>2
      <4> QED
        BY <2>1, <2>2, <3>1, <3>2, <4>1 DEF Before
    <3>3. CASE r[j].priority # m
      <4>1. m < r[j].priority
        BY <2>1, <3>1, <3>3
      <4> QED
        BY <2>1, <4>1 DEF Before
    <3> QED
      BY <3>2, <3>3
  <2> QED
    BY <2>1, <2>2
<1> QED
  BY <1>4 DEF First

\* It depends on nothing but the order of the rows.
LEMMA FirstIsStable ==
    ASSUME NEW r \in Rows, NEW s \in Rows, Present(s) = Present(r),
           NEW S \in SUBSET Present(r), S # {},
           \A i \in S : s[i].priority = r[i].priority
    PROVE  First(s, S) = First(r, S)
<1> DEFINE f == First(r, S)
           g == First(s, S)
<1>1. f \in S /\ \A j \in S \ {f} : Before(r, f, j)
  BY FirstIsFirst
<1>2. g \in S /\ \A j \in S \ {g} : Before(s, g, j)
  BY FirstIsFirst
<1>3. Before(s, g, f) => Before(r, g, f)
  BY <1>1, <1>2 DEF Before
<1>4. Before(r, f, g) => ~Before(r, g, f)
  BY <1>1, <1>2, BeforeIsOrder
<1> HIDE DEF f, g
<1> QED
  <2>1. f = g
    BY <1>1, <1>2, <1>3, <1>4
  <2> QED
    BY <2>1 DEF f, g

\* The provider the basic page is about is one of the rows, and stays the same
\* while no row comes or goes, changes its type or its priority.
LEMMA TargetIsThere ==
    ASSUME NEW r \in Rows, Present(r) # {}
    PROVE  Target(r) \in Present(r)
<1> DEFINE compatible == {i \in Present(r) : r[i].kind = "openai_compatible"}
           S == IF compatible # {} THEN compatible ELSE Present(r)
<1>1. S \in SUBSET Present(r) /\ S # {}
  OBVIOUS
<1>2. First(r, S) \in S
  BY <1>1, FirstIsFirst
<1> QED
  BY <1>1, <1>2 DEF Target

LEMMA TargetIsStable ==
    ASSUME NEW r \in Rows, NEW s \in Rows, Present(s) = Present(r), Present(r) # {},
           \A i \in Present(r) : /\ s[i].priority = r[i].priority
                                 /\ s[i].kind = r[i].kind
    PROVE  Target(s) = Target(r)
<1> DEFINE compatible(t) == {i \in Present(t) : t[i].kind = "openai_compatible"}
           S(t) == IF compatible(t) # {} THEN compatible(t) ELSE Present(t)
<1>1. S(r) \in SUBSET Present(r) /\ S(r) # {} /\ S(s) = S(r)
  OBVIOUS
<1>2. First(s, S(r)) = First(r, S(r))
  <2> HIDE DEF S
  <2> QED
    BY <1>1, FirstIsStable
<1>3. Target(r) = First(r, S(r)) /\ Target(s) = First(s, S(s))
  BY DEF Target
<1> HIDE DEF S
<1> QED
  BY <1>1, <1>2, <1>3

\* Places keeps the order, and numbers the rows without a hole.
LEMMA PlacesInOrder ==
    ASSUME NEW r \in Rows, NEW S \in SUBSET Present(r)
    PROVE  /\ Places(r, S) \in [Ids -> Nat]
           /\ \A i \in Ids : Places(r, S)[i] # 0 <=> i \in S
           /\ \A i, j \in S : Places(r, S)[i] < Places(r, S)[j] <=> Before(r, i, j)
<1> DEFINE Earlier(i) == {j \in S : Before(r, j, i)}
<1>1. S \subseteq Ids
  BY RowsThere
<1>2. \A i \in S : IsFiniteSet(Earlier(i)) /\ Cardinality(Earlier(i)) \in Nat
  BY <1>1, IdsAreFinite
<1>3. ASSUME NEW i \in S, NEW j \in S, Before(r, i, j)
      PROVE  Cardinality(Earlier(i)) < Cardinality(Earlier(j))
  <2>1. Earlier(i) \in SUBSET Earlier(j)
    BY <1>3, BeforeIsOrder
  <2>2. Earlier(i) # Earlier(j)
    <3>1. i \in Earlier(j)
      BY <1>3
    <3>2. i \notin Earlier(i)
      BY BeforeIsOrder
    <3> QED
      BY <3>1, <3>2
  <2> HIDE DEF Earlier
  <2>3. Cardinality(Earlier(i)) <= Cardinality(Earlier(j))
        /\ Cardinality(Earlier(i)) # Cardinality(Earlier(j))
    BY <1>2, <2>1, <2>2, FS_Subset
  <2> QED
    BY <1>2, <2>3
<1>4. /\ \A i \in S : Places(r, S)[i] = 1 + Cardinality(Earlier(i))
      /\ \A i \in Ids \ S : Places(r, S)[i] = 0
  BY <1>1 DEF Places
<1>5. Places(r, S) \in [Ids -> Nat]
  BY <1>2 DEF Places
<1>6. \A i \in Ids : Places(r, S)[i] # 0 <=> i \in S
  <2> HIDE DEF Earlier
  <2> QED
    BY <1>1, <1>2, <1>4
<1>7. \A i, j \in S : Places(r, S)[i] < Places(r, S)[j] <=> Before(r, i, j)
  <2> SUFFICES ASSUME NEW i \in S, NEW j \in S
               PROVE  Places(r, S)[i] < Places(r, S)[j] <=> Before(r, i, j)
    OBVIOUS
  <2>1. Before(r, i, j) => Cardinality(Earlier(i)) < Cardinality(Earlier(j))
    BY <1>3
  <2>2. Before(r, j, i) => Cardinality(Earlier(j)) < Cardinality(Earlier(i))
    BY <1>3
  <2>3. i = j \/ Before(r, i, j) \/ Before(r, j, i)
    BY BeforeIsOrder
  <2>4. i = j => ~Before(r, i, j)
    BY BeforeIsOrder
  <2> HIDE DEF Earlier
  <2> QED
    BY <1>2, <1>4, <2>1, <2>2, <2>3, <2>4
<1> QED
  BY <1>5, <1>6, <1>7

LEMMA PlacesNumber ==
    ASSUME NEW r \in Rows, NEW S \in SUBSET Present(r)
    PROVE  Numbers(Places(r, S), S)
<1> DEFINE place == Places(r, S)
<1>1. /\ place \in [Ids -> Nat]
      /\ \A i \in Ids : place[i] # 0 <=> i \in S
      /\ \A i, j \in S : place[i] < place[j] <=> Before(r, i, j)
  BY PlacesInOrder
<1>2. S \subseteq Ids
  BY RowsThere
<1>3. ASSUME NEW i \in S, NEW j \in S, place[i] = place[j] PROVE i = j
  <2>1. ~Before(r, i, j) /\ ~Before(r, j, i)
    <3> HIDE DEF place
    <3> QED
      BY <1>1, <1>2, <1>3
  <2> QED
    BY <2>1, BeforeIsOrder
<1>4. ASSUME NEW i \in S
      PROVE  place[i] = 1 + Cardinality({k \in S : place[k] < place[i]})
  <2>1. {k \in S : place[k] < place[i]} = {k \in S : Before(r, k, i)}
    <3> HIDE DEF place
    <3> QED
      BY <1>1
  <2>2. place[i] = 1 + Cardinality({k \in S : Before(r, k, i)})
    BY <1>2 DEF Places
  <2> HIDE DEF place
  <2> QED
    BY <2>1, <2>2
<1> HIDE DEF place
<1> QED
  <2>1. Numbers(place, S)
    BY <1>1, <1>3, <1>4 DEF Numbers
  <2> QED
    BY <2>1 DEF place

LEMMA NumbersBound ==
    ASSUME NEW S \in SUBSET Ids, NEW place, Numbers(place, S), NEW i \in S
    PROVE  place[i] \in 1..Cardinality(S)
<1> DEFINE Smaller == {k \in S : place[k] < place[i]}
<1>1. place[i] \in Nat /\ place[i] = 1 + Cardinality(Smaller)
  BY DEF Numbers
<1>2. Smaller \in SUBSET (S \ {i})
  BY <1>1
<1>3. IsFiniteSet(S) /\ IsFiniteSet(S \ {i}) /\ Cardinality(S) \in Nat
      /\ Cardinality(S \ {i}) = Cardinality(S) - 1
  BY IdsAreFinite, FS_RemoveElement
<1>4. Smaller \subseteq Ids
  OBVIOUS
<1>5. Cardinality(Smaller) \in Nat
  BY <1>4, IdsAreFinite
<1>6. Cardinality(Smaller) <= Cardinality(S \ {i})
  BY <1>2, <1>3, FS_Subset
<1> HIDE DEF Smaller
<1> QED
  BY <1>1, <1>3, <1>5, <1>6

\* Two neighbours can change their places.
LEMMA NumbersSwap ==
    ASSUME NEW S \in SUBSET Ids, NEW place, Numbers(place, S), NEW i \in S, NEW j \in S,
           place[i] = place[j] + 1
    PROVE  Numbers([place EXCEPT ![i] = place[j], ![j] = place[i]], S)
<1> DEFINE new == [place EXCEPT ![i] = place[j], ![j] = place[i]]
           Less(p, n) == {k \in S : p[k] < n}
<1>1. /\ place \in [Ids -> Nat] /\ i # j
      /\ \A k \in Ids : place[k] \in Nat
      /\ \A k \in Ids : place[k] # 0 <=> k \in S
      /\ \A k, l \in S : place[k] = place[l] => k = l
      /\ \A k \in S : place[k] = 1 + Cardinality(Less(place, place[k]))
  BY DEF Numbers
<1>2. /\ new \in [Ids -> Nat]
      /\ new[i] = place[j] /\ new[j] = place[i]
      /\ \A k \in Ids \ {i, j} : new[k] = place[k]
  BY <1>1
<1> HIDE DEF new
<1>3. \A k \in Ids : new[k] # 0 <=> k \in S
  BY <1>1, <1>2
<1>4. \A k, l \in S : new[k] = new[l] => k = l
  BY <1>1, <1>2
<1>5. ASSUME NEW k \in S \ {i, j} PROVE Less(new, new[k]) = Less(place, place[k])
  <2>1. \A l \in S : new[l] < new[k] <=> place[l] < place[k]
    BY <1>1, <1>2
  <2> QED
    BY <2>1
<1>6. Less(new, new[i]) = Less(place, place[j])
  <2>1. \A l \in S : new[l] < new[i] <=> place[l] < place[j]
    BY <1>1, <1>2
  <2> QED
    BY <2>1
<1>7. Less(new, new[j]) = Less(place, place[j]) \cup {i}
  <2>1. \A l \in S : new[l] < new[j] <=> place[l] < place[j] \/ l = i
    BY <1>1, <1>2
  <2> QED
    BY <2>1
<1>8. /\ IsFiniteSet(Less(place, place[j]))
      /\ Cardinality(Less(place, place[j])) \in Nat
      /\ i \notin Less(place, place[j])
  BY <1>1, IdsAreFinite
<1> HIDE DEF Less
<1>9. Cardinality(Less(new, new[j])) = Cardinality(Less(place, place[j])) + 1
  BY <1>7, <1>8, FS_AddElement
<1>10. \A k \in S : new[k] = 1 + Cardinality(Less(new, new[k]))
  <2> SUFFICES ASSUME NEW k \in S PROVE new[k] = 1 + Cardinality(Less(new, new[k]))
    OBVIOUS
  <2>1. CASE k = i
    BY <1>1, <1>2, <1>6, <2>1
  <2>2. CASE k = j
    BY <1>1, <1>2, <1>8, <1>9, <2>2
  <2>3. CASE k \notin {i, j}
    BY <1>1, <1>2, <1>5, <2>3
  <2> QED
    BY <2>1, <2>2, <2>3
<1>11. Numbers(new, S)
  BY <1>2, <1>3, <1>4, <1>10 DEF Numbers, Less
<1> QED
  BY <1>11 DEF new

\* Rows whose priorities are places are listed at these places.
LEMMA PlacesOfNumbers ==
    ASSUME NEW r \in Rows, NEW place, Numbers(place, Present(r)),
           \A i \in Present(r) : r[i].priority = place[i]
    PROVE  Places(r, Present(r)) = place
<1> DEFINE S == Present(r)
           new == Places(r, S)
<1>1. /\ place \in [Ids -> Nat] /\ S \subseteq Ids
      /\ \A k \in Ids : place[k] # 0 <=> k \in S
      /\ \A k, l \in S : place[k] = place[l] => k = l
      /\ \A k \in S : place[k] = 1 + Cardinality({l \in S : place[l] < place[k]})
  BY RowsThere DEF Numbers
<1>2. ASSUME NEW k \in S PROVE new[k] = place[k]
  <2>1. \A l \in S : Before(r, l, k) <=> place[l] < place[k]
    BY <1>1, <1>2, BoundsAssumption DEF Before, Ids
  <2>2. {l \in S : Before(r, l, k)} = {l \in S : place[l] < place[k]}
    BY <2>1
  <2>3. new[k] = 1 + Cardinality({l \in S : Before(r, l, k)})
    BY <1>1, <1>2 DEF Places
  <2> HIDE DEF S, new
  <2> QED
    BY <1>1, <1>2, <2>2, <2>3
<1>3. ASSUME NEW k \in Ids \ S PROVE new[k] = place[k]
  BY <1>1, <1>3 DEF Places
<1>4. new \in [Ids -> Nat]
  BY PlacesInOrder
<1> HIDE DEF S, new
<1>5. \A k \in Ids : new[k] = place[k]
  BY <1>2, <1>3
<1>6. new = place
  BY <1>1, <1>4, <1>5
<1> QED
  BY <1>6 DEF S, new

\* The place of a row that has a greater priority than all others is the last.
LEMMA LastPlace ==
    ASSUME NEW r \in Rows, NEW i \in Present(r),
           \A j \in Present(r) \ {i} : r[j].priority < r[i].priority
    PROVE  Places(r, Present(r))[i] = Cardinality(Present(r))
<1> DEFINE S == Present(r)
           Earlier == {j \in S : Before(r, j, i)}
<1>1. S \subseteq Ids /\ IsFiniteSet(S) /\ Cardinality(S) \in Nat /\ i \in S
  BY RowsThere, IdsAreFinite
<1>2. Earlier = S \ {i}
  <2>1. ~Before(r, i, i)
    BY BeforeIsOrder
  <2> QED
    BY <2>1 DEF Before
<1>3. Cardinality(S \ {i}) = Cardinality(S) - 1
  BY <1>1, FS_RemoveElement
<1>4. Places(r, S)[i] = 1 + Cardinality(Earlier)
  BY <1>1 DEF Places
<1> HIDE DEF S, Earlier
<1>5. Places(r, S)[i] = Cardinality(S)
  BY <1>1, <1>2, <1>3, <1>4
<1> QED
  BY <1>5 DEF S

-----------------------------------------------------------------------------
(* Types                                                                   *)

CallOK(x) == x \in Call /\ OnCourse(x) /\ Asked(x)

LEMMA NoCallOK == CallOK(NoCall) /\ NoCall.pc = "idle" /\ NoCall.alone
<1>1. NoAsk \in Ask
  BY DEF NoAsk, Ask
<1>2. NoRows \in [Ids -> Row \cup {None}] /\ NoPlace \in [Ids -> Nat]
  BY DEF NoRows, NoPlace
<1>3. NoCall \in Call
  BY <1>1, <1>2 DEF NoCall, Call, Ops, PCs, Legacy
<1> QED
  BY <1>3 DEF NoCall, CallOK, OnCourse, Asked

LEMMA CallReplaced ==
    ASSUME call \in [Calls -> Call], NEW c \in Calls, NEW x,
           call' = [call EXCEPT ![c] = x]
    PROVE  /\ call'[c] = x
           /\ \A d \in Calls \ {c} : call'[d] = call[d]
           /\ x \in Call => call' \in [Calls -> Call]
OBVIOUS

\* A step that replaces one request, c by x.
LEMMA TypeReplaced ==
    ASSUME TypeInv, NEW c \in Calls, NEW x, CallOK(x),
           call' = [call EXCEPT ![c] = x],
           rows' \in Rows, made' \in 0..MaxRows, legacy' \in Legacy,
           page' \in [place : [Ids -> Nat], on : SUBSET Ids], badge' \in BOOLEAN,
           chain'.mode \in {"none", "request_once", "user_settings", "free_fallback"},
           chain'.place \in [Ids -> Nat],
           begun' = begun, upset' \subseteq Pages, gap' \in BOOLEAN
    PROVE  TypeInv'
<1>1. call \in [Calls -> Call] /\ \A d \in Calls : OnCourse(call[d]) /\ Asked(call[d])
  BY DEF TypeInv, TypeOK
<1>2. x \in Call /\ OnCourse(x) /\ Asked(x)
  BY DEF CallOK
<1>3. /\ call'[c] = x
      /\ \A d \in Calls \ {c} : call'[d] = call[d]
      /\ call' \in [Calls -> Call]
  BY <1>1, <1>2, CallReplaced
<1>4. \A d \in Calls : OnCourse(call'[d]) /\ Asked(call'[d])
  BY <1>1, <1>2, <1>3
<1>5. TypeOK'
  BY <1>3 DEF TypeInv, TypeOK, Rows
<1> QED
  BY <1>4, <1>5 DEF TypeInv, OnCourse, Asked

\* One that replaces nothing else.
LEMMA TypeReplacedOnly ==
    ASSUME TypeInv, NEW c \in Calls, NEW x, CallOK(x),
           call' = [call EXCEPT ![c] = x],
           UNCHANGED <<rows, made, legacy, page, badge, chain, begun, upset, gap>>
    PROVE  TypeInv'
BY TypeReplaced DEF TypeInv, TypeOK, Rows

LEMMA AfterEnsureIs ==
    \A c \in Calls :
      /\ call[c].op \in {"load", "list"} => AfterEnsure(c) = "answered"
      /\ call[c].op \in {"basic", "job"} => AfterEnsure(c) = "ensured"
BY DEF AfterEnsure

\* They hold after a statement of ensureUserProviders that reads.
LEMMA TypeSelect ==
    ASSUME TypeInv, NEW c \in Calls, SelectProviders(c) \/ SelectLegacy(c)
    PROVE  TypeInv'
<1>1. /\ call \in [Calls -> Call] /\ call[c] \in Call /\ rows \in Rows
      /\ legacy \in Legacy
      /\ OnCourse(call[c]) /\ Asked(call[c])
  BY DEF TypeInv, TypeOK, Rows
<1>2. CASE SelectProviders(c)
  <2> DEFINE pc == IF Present(rows) = {} /\ call[c].pc = "sent" THEN "empty"
                   ELSE AfterEnsure(c)
             x == [call[c] EXCEPT !.found = rows, !.pc = pc]
  <2>1. call' = [call EXCEPT ![c] = x]
    BY <1>1, <1>2 DEF SelectProviders
  <2>2. /\ call[c].op \in {"load", "list", "basic", "job"}
        /\ call[c].op \in {"load", "list"} => pc \in {"empty", "answered"}
        /\ call[c].op \in {"basic", "job"} => pc \in {"empty", "ensured"}
    BY <1>2, AfterEnsureIs DEF SelectProviders
  <2> HIDE DEF pc
  <2>3. x \in Call
    BY <1>1, <2>2 DEF Call, PCs, Rows
  <2>4. x.op = call[c].op /\ x.pc = pc /\ x.from = call[c].from /\ x.id = call[c].id
        /\ x.ask = call[c].ask /\ x.place = call[c].place /\ x.key = call[c].key
    BY <1>1 DEF Call
  <2> HIDE DEF x
  <2>5. OnCourse(x)
    BY <2>2, <2>4 DEF OnCourse
  <2>6. Asked(x)
    BY <1>1, <2>2, <2>4 DEF Asked
  <2> QED
    BY <1>2, <2>1, <2>3, <2>5, <2>6, TypeReplacedOnly DEF SelectProviders, CallOK
<1>3. CASE SelectLegacy(c)
  <2>1. CASE legacy \in {"none", "bare"}
    <3> DEFINE x == [call[c] EXCEPT !.pc = AfterEnsure(c)]
    <3>1. call' = [call EXCEPT ![c] = x]
      BY <1>3, <2>1 DEF SelectLegacy
    <3>2. /\ call[c].op \in {"load", "list", "basic", "job"}
          /\ call[c].op \in {"load", "list"} => AfterEnsure(c) = "answered"
          /\ call[c].op \in {"basic", "job"} => AfterEnsure(c) = "ensured"
      BY <1>1, <1>3, AfterEnsureIs DEF SelectLegacy, OnCourse, Call, Ops
    <3>3. x \in Call
      BY <1>1, <3>2 DEF Call, PCs
    <3>4. x.op = call[c].op /\ x.pc = AfterEnsure(c) /\ x.from = call[c].from
          /\ x.id = call[c].id /\ x.ask = call[c].ask /\ x.place = call[c].place
          /\ x.found = call[c].found /\ x.key = call[c].key
      BY <1>1 DEF Call
    <3> HIDE DEF x
    <3>5. OnCourse(x) /\ Asked(x)
      BY <1>1, <3>2, <3>4 DEF OnCourse, Asked
    <3> QED
      BY <1>3, <3>1, <3>3, <3>5, TypeReplacedOnly DEF SelectLegacy, CallOK
  <2>2. CASE legacy \notin {"none", "bare"}
    <3> DEFINE x == [call[c] EXCEPT !.pc = "migrating", !.key = legacy]
    <3>1. call' = [call EXCEPT ![c] = x]
      BY <1>1, <1>3, <2>2 DEF SelectLegacy
    <3>2. call[c].op \in {"load", "list", "basic", "job"}
      BY <1>1, <1>3 DEF SelectLegacy, OnCourse, Call, Ops
    <3>3. x \in Call
      BY <1>1 DEF Call, PCs
    <3>4. x.op = call[c].op /\ x.pc = "migrating" /\ x.from = call[c].from
          /\ x.id = call[c].id /\ x.ask = call[c].ask /\ x.place = call[c].place
          /\ x.found = call[c].found /\ x.key = legacy
      BY <1>1 DEF Call
    <3> HIDE DEF x
    <3>5. OnCourse(x) /\ Asked(x)
      BY <1>1, <2>2, <3>2, <3>4 DEF OnCourse, Asked
    <3> QED
      BY <1>3, <3>1, <3>3, <3>5, TypeReplacedOnly DEF SelectLegacy, CallOK
  <2> QED
    BY <2>1, <2>2
<1> QED
  BY <1>2, <1>3

LEMMA Inserted ==
    ASSUME TypeInv, NEW row \in Row, Insert(row)
    PROVE  /\ made + 1 \in Ids /\ made' = made + 1 /\ made' \in 0..MaxRows
           /\ rows' \in Rows /\ rows' = [rows EXCEPT ![made + 1] = row]
           /\ rows'[made + 1] = row
           /\ \A i \in Ids \ {made + 1} : rows'[i] = rows[i]
<1>1. rows \in Rows /\ made \in 0..MaxRows /\ MaxRows \in Nat
  BY BoundsAssumption DEF TypeInv, TypeOK, Rows
<1>2. made + 1 \in Ids /\ made' = made + 1
  BY <1>1 DEF Insert, Ids
<1>3. rows' = [rows EXCEPT ![made + 1] = row]
  BY DEF Insert
<1> QED
  BY <1>1, <1>2, <1>3 DEF Rows, Ids

\* The row a handler inserts is one.
LEMMA MigratedRow ==
    ASSUME TypeInv, NEW c \in Calls, Migrate(c)
    PROVE  \E row \in Row :
             /\ Insert(row) /\ row.copy /\ row.priority = 1
             /\ row.key = IF call[c].key = "broken" THEN None ELSE call[c].key
             /\ row.kind = "openai_compatible" /\ row.enabled = "on"
<1>1. call[c] \in Call /\ Asked(call[c]) /\ call[c].pc = "migrating"
  BY DEF TypeInv, TypeOK, Migrate
<1>2. call[c].key \in Keys \cup {"broken"}
  BY <1>1 DEF Asked, Call, Legacy
<1> DEFINE row == [kind |-> "openai_compatible", priority |-> 1, enabled |-> "on",
                   key |-> IF call[c].key = "broken" THEN None ELSE call[c].key,
                   copy |-> TRUE]
<1>3. row \in Row
  BY <1>2 DEF Row, Kinds, Switch
<1> QED
  BY <1>3 DEF Migrate

LEMMA CountedRow ==
    ASSUME TypeInv, NEW c \in Calls, InsertCounted(c)
    PROVE  \E row \in Row :
             /\ Insert(row) /\ ~row.copy
             /\ row.priority = Cardinality(Present(call[c].found)) + 1
             /\ row.kind = call[c].ask.kind /\ row.key = call[c].ask.key
             /\ row.enabled = call[c].ask.enabled
<1>1. /\ call[c] \in Call /\ OnCourse(call[c]) /\ Asked(call[c])
      /\ call[c].pc = "counted"
  BY DEF TypeInv, TypeOK, InsertCounted
<1>2. call[c].op \in {"add", "job"}
  BY <1>1 DEF OnCourse, Call, Ops
<1>3. /\ call[c].ask.kind \in Kinds
      /\ call[c].ask.key \in Keys \cup {None}
      /\ call[c].ask.enabled \in Switch
  BY <1>1, <1>2, AsksAssumption DEF Asked
<1>4. Cardinality(Present(call[c].found)) + 1 \in Nat
  <2>1. Present(call[c].found) \in SUBSET Ids
    BY DEF Present
  <2> QED
    BY <2>1, IdsAreFinite
<1> DEFINE row == [kind |-> call[c].ask.kind, key |-> call[c].ask.key,
                   priority |-> Cardinality(Present(call[c].found)) + 1,
                   enabled |-> call[c].ask.enabled, copy |-> FALSE]
<1>5. row \in Row
  BY <1>3, <1>4 DEF Row
<1> QED
  BY <1>5 DEF InsertCounted

LEMMA TypeMigrate ==
    ASSUME TypeInv, NEW c \in Calls, Migrate(c)
    PROVE  TypeInv'
<1> DEFINE x == [call[c] EXCEPT !.pc = "migrated"]
<1>1. call[c] \in Call /\ OnCourse(call[c]) /\ Asked(call[c]) /\ call[c].pc = "migrating"
  BY DEF TypeInv, TypeOK, Migrate
<1>2. PICK row \in Row : Insert(row)
  BY MigratedRow
<1>3. rows' \in Rows /\ made' \in 0..MaxRows
  BY <1>2, Inserted
<1>4. CallOK(x)
  BY <1>1 DEF CallOK, Call, PCs, OnCourse, Asked, Ops
<1>5. call' = [call EXCEPT ![c] = x]
  BY DEF Migrate
<1> HIDE DEF x
<1> QED
  BY <1>3, <1>4, <1>5, TypeReplaced DEF Migrate, TypeInv, TypeOK

LEMMA TypeCounted ==
    ASSUME TypeInv, NEW c \in Calls, CountRows(c) \/ InsertCounted(c)
    PROVE  TypeInv'
<1>1. call[c] \in Call /\ OnCourse(call[c]) /\ Asked(call[c]) /\ rows \in Rows
  BY DEF TypeInv, TypeOK, Rows
<1>2. CASE CountRows(c)
  <2> DEFINE x == [call[c] EXCEPT !.pc = "counted", !.found = rows]
  <2>1. At(c, "add", "sent") \/ At(c, "job", "saving")
    BY <1>2 DEF CountRows
  <2>2. x \in Call
    BY <1>1 DEF Call, PCs, Rows
  <2>3. CallOK(x)
    BY <1>1, <2>1, <2>2 DEF CallOK, Call, At, OnCourse, Asked
  <2>4. call' = [call EXCEPT ![c] = x]
    BY <1>1, <1>2 DEF CountRows
  <2> HIDE DEF x
  <2> QED
    BY <1>2, <2>3, <2>4, TypeReplacedOnly DEF CountRows
<1>3. CASE InsertCounted(c)
  <2> DEFINE x == [call[c] EXCEPT !.pc = "answered"]
  <2>1. PICK row \in Row : Insert(row)
    BY <1>3, CountedRow
  <2>2. rows' \in Rows /\ made' \in 0..MaxRows
    BY <2>1, Inserted
  <2>3. call[c].pc = "counted"
    BY <1>3 DEF InsertCounted
  <2>4. x \in Call
    BY <1>1 DEF Call, PCs
  <2>5. CallOK(x)
    BY <1>1, <2>3, <2>4 DEF CallOK, Call, Ops, OnCourse, Asked
  <2>6. call' = [call EXCEPT ![c] = x]
    BY <1>3 DEF InsertCounted
  <2> HIDE DEF x
  <2> QED
    BY <1>3, <2>2, <2>5, <2>6, TypeReplaced DEF InsertCounted, TypeInv, TypeOK
<1> QED
  BY <1>2, <1>3

\* A key is one of the stored ones after any request.
LEMMA NewKeyType ==
    ASSUME NEW old \in Keys \cup {None}, NEW key \in Keys \cup {"keep", "clear", None}
    PROVE  NewKey(old, key) \in Keys \cup {None}
BY DEF NewKey

\* What an edit writes.
LEMMA WrittenRow ==
    ASSUME TypeInv, NEW c \in Calls, WriteRow(c)
    PROVE  /\ rows' \in Rows /\ Present(rows') = Present(rows)
           /\ \A j \in Ids \ {call[c].id} : rows'[j] = rows[j]
           /\ \A j \in Present(rows) : rows'[j].priority = rows[j].priority
           /\ call[c].id \in Present(rows) =>
                /\ rows'[call[c].id].key =
                     NewKey(call[c].found[call[c].id].key, call[c].ask.key)
                /\ rows'[call[c].id].kind =
                     IF call[c].ask.kind = "keep" THEN rows[call[c].id].kind
                     ELSE call[c].ask.kind
                /\ rows'[call[c].id].enabled =
                     IF call[c].ask.enabled = "keep"
                     THEN call[c].found[call[c].id].enabled ELSE call[c].ask.enabled
<1> DEFINE i == call[c].id
           a == call[c].ask
           old == call[c].found[i]
           kind == IF a.kind = "keep" THEN rows[i].kind ELSE a.kind
           enabled == IF a.enabled = "keep" THEN old.enabled ELSE a.enabled
           row == [rows[i] EXCEPT !.kind = kind, !.key = NewKey(old.key, a.key),
                                  !.enabled = enabled]
<1>1. /\ call[c] \in Call /\ Asked(call[c]) /\ At(c, "edit", "read") /\ rows \in Rows
  BY DEF TypeInv, TypeOK, Rows, WriteRow
<1>2. i \in Ids /\ a \in Ask /\ old \in Row
  BY <1>1 DEF Asked, At, Call
<1>3. NewKey(old.key, a.key) \in Keys \cup {None} /\ enabled \in Switch
  BY <1>2, NewKeyType DEF Row, Ask
<1>4. rows' = [rows EXCEPT ![i] = IF rows[i] = None THEN None ELSE row]
  BY <1>1, <1>2 DEF WriteRow
<1>5. ASSUME rows[i] # None
      PROVE  /\ row \in Row /\ row.priority = rows[i].priority
             /\ row.key = NewKey(old.key, a.key) /\ row.kind = kind /\ row.enabled = enabled
  <2>1. rows[i] \in Row
    BY <1>1, <1>2, <1>5 DEF Rows
  <2>2. kind \in Kinds
    BY <1>2, <2>1 DEF Row, Ask
  <2> HIDE DEF kind, enabled
  <2> QED
    BY <1>3, <2>1, <2>2 DEF Row
<1> HIDE DEF row, i, a, old, kind, enabled
<1>6. /\ rows' \in Rows
      /\ \A j \in Ids \ {i} : rows'[j] = rows[j]
      /\ rows[i] = None => rows'[i] = None
      /\ rows[i] # None => rows'[i] = row
  BY <1>1, <1>2, <1>4, <1>5 DEF Rows
<1>7. Present(rows') = Present(rows)
  BY <1>2, <1>5, <1>6, NoneAssumption DEF Present
<1>8. \A j \in Present(rows) : rows'[j].priority = rows[j].priority
  BY <1>2, <1>5, <1>6 DEF Present
<1>9. i \in Present(rows) => /\ rows'[i].key = NewKey(old.key, a.key)
                              /\ rows'[i].kind = kind /\ rows'[i].enabled = enabled
  BY <1>5, <1>6 DEF Present
<1> QED
  BY <1>6, <1>7, <1>8, <1>9 DEF i, a, old, kind, enabled

\* What a change of the basic key writes over the provider it has found.
LEMMA WrittenKey ==
    ASSUME TypeInv, NEW c \in Calls, WriteBasic(c), Present(call[c].found) # {}
    PROVE  /\ rows' \in Rows /\ Present(rows') = Present(rows) /\ made' = made
           /\ Target(call[c].found) \in Ids
           /\ \A j \in Ids \ {Target(call[c].found)} : rows'[j] = rows[j]
           /\ \A j \in Present(rows) : /\ rows'[j].priority = rows[j].priority
                                       /\ rows'[j].kind = rows[j].kind
                                       /\ rows'[j].enabled = rows[j].enabled
           /\ Target(call[c].found) \in Present(rows) =>
                rows'[Target(call[c].found)].key =
                  NewKey(call[c].found[Target(call[c].found)].key, call[c].ask.key)
<1> DEFINE i == Target(call[c].found)
           old == call[c].found[i]
           key == NewKey(old.key, call[c].ask.key)
           row == [rows[i] EXCEPT !.key = key]
<1>1. /\ call[c] \in Call /\ Asked(call[c]) /\ At(c, "basic", "ensured")
      /\ rows \in Rows /\ call[c].found \in Rows
  BY DEF TypeInv, TypeOK, Rows, WriteBasic, Call
<1>2. i \in Ids /\ old \in Row
  <2>1. i \in Present(call[c].found)
    BY <1>1, TargetIsThere
  <2> QED
    BY <1>1, <2>1, RowsThere
<1>3. key \in Keys \cup {None}
  <2>1. call[c].ask.key \in Keys \cup {"keep", "clear", None}
    BY <1>1 DEF Asked, At
  <2> QED
    BY <1>2, <2>1, NewKeyType DEF Row
<1>4. /\ rows' = [rows EXCEPT ![i] = IF rows[i] = None THEN None ELSE row]
      /\ made' = made
  BY <1>1, <1>2 DEF WriteBasic, Rows
<1>5. ASSUME rows[i] # None
      PROVE  /\ row \in Row /\ row.priority = rows[i].priority /\ row.key = key
             /\ row.kind = rows[i].kind /\ row.enabled = rows[i].enabled
  <2>1. rows[i] \in Row
    BY <1>1, <1>2, <1>5 DEF Rows
  <2> HIDE DEF key, i
  <2> QED
    BY <1>3, <2>1 DEF Row
<1> HIDE DEF row, i, old, key
<1>6. /\ rows' \in Rows
      /\ \A j \in Ids \ {i} : rows'[j] = rows[j]
      /\ rows[i] = None => rows'[i] = None
      /\ rows[i] # None => rows'[i] = row
  BY <1>1, <1>2, <1>4, <1>5 DEF Rows
<1>7. Present(rows') = Present(rows)
  BY <1>2, <1>5, <1>6, NoneAssumption DEF Present
<1>8. \A j \in Present(rows) : /\ rows'[j].priority = rows[j].priority
                               /\ rows'[j].kind = rows[j].kind
                               /\ rows'[j].enabled = rows[j].enabled
  BY <1>2, <1>5, <1>6 DEF Present
<1>9. i \in Present(rows) => rows'[i].key = key
  BY <1>5, <1>6 DEF Present
<1> QED
  BY <1>2, <1>4, <1>6, <1>7, <1>8, <1>9 DEF i, old, key

\* Without one it adds the provider the key is for.
LEMMA BasicRow ==
    ASSUME TypeInv, NEW c \in Calls, WriteBasic(c), Present(call[c].found) = {},
           call[c].ask.key # "clear"
    PROVE  \E row \in Row : /\ Insert(row) /\ ~row.copy /\ row.priority = 1
                            /\ row.key = call[c].ask.key /\ row.key \in Keys
                            /\ row.kind = "openai_compatible" /\ row.enabled = "on"
<1>1. call[c].ask.key \in Keys
  BY DEF TypeInv, Asked, WriteBasic, At
<1> DEFINE row == [kind |-> "openai_compatible", priority |-> 1, enabled |-> "on",
                   key |-> call[c].ask.key, copy |-> FALSE]
<1>2. row \in Row
  BY <1>1 DEF Row, Kinds, Switch
<1> QED
  BY <1>1, <1>2 DEF WriteBasic

\* What a new order writes.
LEMMA WrittenOrder ==
    ASSUME TypeInv, NEW c \in Calls, Reorder(c)
    PROVE  /\ rows' \in Rows /\ Present(rows') = Present(rows)
           /\ \A j \in Present(rows) :
                /\ rows'[j].priority = IF call[c].place[j] = 0 THEN rows[j].priority
                                       ELSE call[c].place[j]
                /\ rows'[j].kind = rows[j].kind
                /\ rows'[j].key = rows[j].key
                /\ rows'[j].enabled = rows[j].enabled
<1>1. call[c] \in Call /\ rows \in Rows
  BY DEF TypeInv, TypeOK, Rows
<1>2. call[c].place \in [Ids -> Nat]
  BY <1>1 DEF Call
<1>3. rows' = [j \in Ids |-> IF rows[j] = None \/ call[c].place[j] = 0 THEN rows[j]
                             ELSE [rows[j] EXCEPT !.priority = call[c].place[j]]]
  BY DEF Reorder
<1>4. ASSUME NEW j \in Ids, rows[j] # None
      PROVE  /\ rows'[j] \in Row
             /\ rows'[j].priority = IF call[c].place[j] = 0 THEN rows[j].priority
                                    ELSE call[c].place[j]
             /\ rows'[j].kind = rows[j].kind
             /\ rows'[j].key = rows[j].key
             /\ rows'[j].enabled = rows[j].enabled
  <2>1. rows[j] \in Row /\ call[c].place[j] \in Nat
    BY <1>1, <1>2, <1>4 DEF Rows
  <2> QED
    BY <1>3, <1>4, <2>1 DEF Row
<1>5. \A j \in Ids : rows[j] = None => rows'[j] = None
  BY <1>3
<1>6. rows' \in Rows
  <2>1. rows' = [j \in Ids |-> rows'[j]]
    BY <1>3
  <2> QED
    BY <1>4, <1>5, <2>1 DEF Rows
<1> QED
  BY <1>4, <1>5, <1>6, NoneAssumption DEF Present

\* They hold after the other statements of the Worker.
LEMMA TypeRow ==
    ASSUME TypeInv, NEW c \in Calls, ReadRow(c) \/ WriteRow(c) \/ DeleteRow(c) \/ Reorder(c)
    PROVE  TypeInv'
<1>1. /\ call \in [Calls -> Call] /\ rows \in Rows
      /\ call[c] \in Call /\ OnCourse(call[c]) /\ Asked(call[c])
  BY DEF TypeInv, TypeOK, Rows
<1>2. CASE ReadRow(c)
  <2> DEFINE pc == IF rows[call[c].id] = None THEN "refused" ELSE "read"
             x == [call[c] EXCEPT !.pc = pc, !.found = rows]
  <2>1. At(c, "edit", "sent")
    BY <1>2 DEF ReadRow
  <2>2. x \in Call
    BY <1>1 DEF Call, PCs, Rows
  <2>3. CallOK(x)
    BY <1>1, <2>1, <2>2 DEF CallOK, Call, At, OnCourse, Asked
  <2>4. call' = [call EXCEPT ![c] = x]
    BY <1>1, <1>2 DEF ReadRow
  <2> HIDE DEF x
  <2> QED
    BY <1>2, <2>3, <2>4, TypeReplacedOnly DEF ReadRow
<1> DEFINE x == [call[c] EXCEPT !.pc = "answered"]
<1>3. At(c, "edit", "read") \/ At(c, "order", "sent") => CallOK(x)
  <2>1. x \in Call
    BY <1>1 DEF Call, PCs
  <2> QED
    BY <1>1, <2>1 DEF CallOK, Call, At, OnCourse, Asked
<1>4. CASE WriteRow(c)
  <2>1. CallOK(x) /\ call' = [call EXCEPT ![c] = x]
    BY <1>3, <1>4 DEF WriteRow
  <2>2. rows' \in Rows
    BY <1>4, WrittenRow
  <2> HIDE DEF x
  <2> QED
    BY <1>4, <2>1, <2>2, TypeReplaced DEF WriteRow, TypeInv, TypeOK
<1>5. CASE Reorder(c)
  <2>1. CallOK(x) /\ call' = [call EXCEPT ![c] = x]
    BY <1>3, <1>5 DEF Reorder
  <2>2. rows' \in Rows
    BY <1>5, WrittenOrder
  <2>3. gap' \in BOOLEAN
    BY <1>5 DEF Reorder
  <2> HIDE DEF x
  <2> QED
    BY <1>5, <2>1, <2>2, <2>3, TypeReplaced DEF Reorder, TypeInv, TypeOK
<1>6. CASE DeleteRow(c)
  <2> DEFINE y == [call[c] EXCEPT !.pc = "answered", !.found = rows]
  <2>1. At(c, "delete", "sent")
    BY <1>6 DEF DeleteRow
  <2>2. y \in Call
    BY <1>1 DEF Call, PCs, Rows
  <2>3. CallOK(y)
    BY <1>1, <2>1, <2>2 DEF CallOK, Call, At, OnCourse, Asked
  <2>4. call' = [call EXCEPT ![c] = y]
    BY <1>1, <1>6 DEF DeleteRow
  <2>5. rows' \in Rows /\ gap' \in BOOLEAN
    BY <1>1, <1>6 DEF DeleteRow, Rows
  <2> HIDE DEF y
  <2> QED
    BY <1>6, <2>3, <2>4, <2>5, TypeReplaced DEF DeleteRow, TypeInv, TypeOK
<1> QED
  BY <1>2, <1>4, <1>5, <1>6

LEMMA TypeSettings ==
    ASSUME TypeInv, NEW c \in Calls, WriteBasic(c) \/ ReadLegacy(c) \/ WriteLegacy(c)
    PROVE  TypeInv'
<1>1. /\ call \in [Calls -> Call] /\ rows \in Rows /\ legacy \in Legacy
      /\ call[c] \in Call /\ OnCourse(call[c]) /\ Asked(call[c])
  BY DEF TypeInv, TypeOK, Rows
<1> DEFINE x == [call[c] EXCEPT !.pc = "answered"]
<1>2. At(c, "basic", "ensured") \/ At(c, "llm", "read") => CallOK(x)
  <2>1. x \in Call
    BY <1>1 DEF Call, PCs
  <2> QED
    BY <1>1, <2>1 DEF CallOK, Call, At, OnCourse, Asked
<1>3. CASE WriteBasic(c)
  <2>1. CallOK(x) /\ call' = [call EXCEPT ![c] = x]
    BY <1>2, <1>3 DEF WriteBasic
  <2>2. rows' \in Rows /\ made' \in 0..MaxRows
    <3>1. CASE Present(call[c].found) # {}
      BY <1>3, <3>1, WrittenKey DEF TypeInv, TypeOK
    <3>2. CASE Present(call[c].found) = {} /\ call[c].ask.key # "clear"
      BY <1>3, <3>2, BasicRow, Inserted
    <3>3. CASE Present(call[c].found) = {} /\ call[c].ask.key = "clear"
      BY <1>1, <1>3, <3>3 DEF WriteBasic, TypeInv, TypeOK
    <3> QED
      BY <3>1, <3>2, <3>3
  <2> HIDE DEF x
  <2> QED
    BY <1>3, <2>1, <2>2, TypeReplaced DEF WriteBasic, TypeInv, TypeOK
<1>4. CASE ReadLegacy(c)
  <2> DEFINE y == [call[c] EXCEPT !.pc = "read", !.key = legacy]
  <2>1. At(c, "llm", "sent")
    BY <1>4 DEF ReadLegacy
  <2>2. y \in Call
    BY <1>1 DEF Call, PCs
  <2>3. CallOK(y)
    BY <1>1, <2>1, <2>2 DEF CallOK, Call, At, OnCourse, Asked
  <2>4. call' = [call EXCEPT ![c] = y]
    BY <1>1, <1>4 DEF ReadLegacy
  <2> HIDE DEF y
  <2> QED
    BY <1>4, <2>3, <2>4, TypeReplacedOnly DEF ReadLegacy
<1>5. CASE WriteLegacy(c)
  <2>1. CallOK(x) /\ call' = [call EXCEPT ![c] = x]
    BY <1>2, <1>5 DEF WriteLegacy
  <2>2. legacy' \in Legacy
    BY <1>1, <1>5 DEF WriteLegacy, Call, Legacy
  <2> HIDE DEF x
  <2> QED
    BY <1>1, <1>5, <2>1, <2>2, TypeReplaced DEF WriteLegacy, TypeInv, TypeOK
<1> QED
  BY <1>3, <1>4, <1>5

LEMMA TypeJobs ==
    ASSUME TypeInv, NEW c \in Calls, Jobs(c)
    PROVE  TypeInv'
<1>1. /\ call \in [Calls -> Call] /\ rows \in Rows /\ call[c].found \in Rows
      /\ call[c] \in Call /\ OnCourse(call[c]) /\ Asked(call[c])
  BY DEF TypeInv, TypeOK, Rows, Call
<1>2. ASSUME NEW pc \in {"answered", "refused"}, At(c, "job", "ensured")
      PROVE  CallOK([call[c] EXCEPT !.pc = pc])
  <2> DEFINE x == [call[c] EXCEPT !.pc = pc]
  <2>1. x \in Call
    BY <1>1 DEF Call, PCs
  <2> QED
    BY <1>1, <1>2, <2>1 DEF CallOK, Call, At, OnCourse, Asked
<1>3. CASE UseOneOff(c)
  <2> DEFINE r == call[c].found
             kind == r[First(r, Present(r))].kind
             pc == IF call[c].ask.enabled = "on" THEN "saving" ELSE "answered"
             x == [call[c] EXCEPT !.pc = pc, !.ask.kind = kind]
  <2>1. At(c, "job", "ensured") /\ call[c].ask.key \in Keys
    BY <1>3 DEF UseOneOff
  <2>2. CASE Present(r) = {}
    <3>1. call' = [call EXCEPT ![c] = [call[c] EXCEPT !.pc = "refused"]]
      BY <1>3, <2>2 DEF UseOneOff
    <3>2. CallOK([call[c] EXCEPT !.pc = "refused"])
      BY <1>2, <2>1
    <3> QED
      BY <1>3, <2>2, <3>1, <3>2, TypeReplacedOnly DEF UseOneOff
  <2>3. CASE Present(r) # {}
    <3>1. call' = [call EXCEPT ![c] = x]
      BY <1>1, <1>3, <2>3 DEF UseOneOff
    <3>2. kind \in Kinds
      <4>1. First(r, Present(r)) \in Present(r)
        BY <1>1, <2>3, FirstIsFirst
      <4>2. r[First(r, Present(r))] \in Row
        BY <1>1, <4>1, RowsThere
      <4> QED
        BY <4>2 DEF Row
    <3>3. call[c].ask \in Ask
      BY <1>1 DEF Call
    <3> HIDE DEF kind
    <3>4. [call[c].ask EXCEPT !.kind = kind] \in Ask
      BY <3>2, <3>3 DEF Ask
    <3>5. /\ x.ask = [call[c].ask EXCEPT !.kind = kind]
          /\ x.ask.kind = kind /\ x.ask.key = call[c].ask.key
          /\ x.ask.enabled = call[c].ask.enabled
      BY <1>1, <3>3 DEF Call, Ask
    <3>6. x \in Call /\ x.op = "job" /\ x.pc = pc /\ x.from = call[c].from
          /\ x.place = call[c].place /\ x.key = call[c].key
      BY <1>1, <2>1, <3>4 DEF Call, PCs, At
    <3>7. call[c].from = "none" /\ call[c].ask.enabled \in Switch
          /\ call[c].place = NoPlace
      BY <1>1, <2>1 DEF Asked, At
    <3>8. call[c].ask.key # "keep"
      BY <2>1, CallsAssumption
    <3> HIDE DEF x
    <3>9. OnCourse(x) /\ Asked(x)
      BY <2>1, <3>2, <3>5, <3>6, <3>7, <3>8 DEF OnCourse, Asked
    <3>10. chain'.mode = "request_once" /\ chain'.place = NoPlace
      BY <1>3, <2>3 DEF UseOneOff, NoChain
    <3>11. NoPlace \in [Ids -> Nat]
      BY DEF NoPlace
    <3> QED
      BY <1>3, <3>1, <3>6, <3>9, <3>10, <3>11, TypeReplaced
      DEF UseOneOff, TypeInv, TypeOK, CallOK, Rows
  <2> QED
    BY <2>2, <2>3
<1> DEFINE x == [call[c] EXCEPT !.pc = "answered"]
<1>4. CASE UseSettings(c)
  <2>1. CallOK(x) /\ call' = [call EXCEPT ![c] = x]
    BY <1>2, <1>4 DEF UseSettings
  <2>2. Enabled(call[c].found) \in SUBSET Present(call[c].found)
    BY DEF Enabled
  <2>3. Places(call[c].found, Enabled(call[c].found)) \in [Ids -> Nat]
    BY <1>1, <2>2, PlacesInOrder
  <2> HIDE DEF x
  <2> QED
    BY <1>4, <2>1, <2>3, TypeReplaced DEF UseSettings, TypeInv, TypeOK, Rows
<1>5. ASSUME NEW f \in Configs, UseFallback(c, f) PROVE TypeInv'
  <2>1. CASE Usable(f)
    <3>1. CallOK(x) /\ call' = [call EXCEPT ![c] = x]
      BY <1>2, <1>5, <2>1 DEF UseFallback
    <3>2. chain'.mode = "free_fallback" /\ chain'.place = NoPlace
      BY <1>5, <2>1 DEF UseFallback
    <3>3. NoPlace \in [Ids -> Nat]
      BY DEF NoPlace
    <3> HIDE DEF x
    <3> QED
      BY <1>5, <3>1, <3>2, <3>3, TypeReplaced DEF UseFallback, TypeInv, TypeOK, Rows
  <2>2. CASE ~Usable(f)
    <3>1. CallOK([call[c] EXCEPT !.pc = "refused"])
      BY <1>2, <1>5 DEF UseFallback
    <3> QED
      BY <1>5, <2>2, <3>1, TypeReplacedOnly DEF UseFallback
  <2> QED
    BY <2>1, <2>2
<1> QED
  BY <1>3, <1>4, <1>5 DEF Jobs

LEMMA TypeThrow ==
    ASSUME TypeInv, NEW c \in Calls, Throw(c)
    PROVE  TypeInv'
<1> DEFINE pc == IF call[c].op = "job" /\ call[c].pc \in {"saving", "counted"}
                 THEN "answered" ELSE "refused"
           x == [call[c] EXCEPT !.pc = pc]
<1>1. /\ call \in [Calls -> Call]
      /\ call[c] \in Call /\ OnCourse(call[c]) /\ Asked(call[c])
  BY DEF TypeInv, TypeOK
<1>2. call[c].pc \notin {"idle", "sent", "answered", "refused"}
  BY DEF Throw
<1>3. x \in Call
  BY <1>1 DEF Call, PCs
<1>4. call' = [call EXCEPT ![c] = x]
  BY DEF Throw
<1>5. /\ x.op = call[c].op /\ x.pc = pc /\ x.from = call[c].from /\ x.id = call[c].id
      /\ x.ask = call[c].ask /\ x.found = call[c].found /\ x.place = call[c].place
  BY <1>1 DEF Call
<1>6. pc \in {"answered", "refused"} /\ call[c].op \in Ops
  BY <1>1 DEF Call
<1> HIDE DEF x, pc
<1>7. OnCourse(x)
  <2>1. call[c].op \notin {"none", "delete", "order"}
    BY <1>1, <1>2 DEF OnCourse
  <2> QED
    BY <1>5, <1>6, <2>1 DEF OnCourse
<1>8. Asked(x)
  BY <1>1, <1>5, <1>6 DEF Asked
<1> QED
  BY <1>3, <1>4, <1>7, <1>8, TypeReplacedOnly DEF Throw, CallOK

\* They hold after an answer has come, or will not.
LEMMA ReloadOK ==
    ASSUME TypeInv, NEW c \in Calls, call[c].op \in {"add", "edit", "delete", "order"}
    PROVE  CallOK(Reload(c))
<1>1. call[c] \in Call /\ Asked(call[c]) /\ CallOK(NoCall)
  BY NoCallOK DEF TypeInv, TypeOK
<1>2. /\ Reload(c) = [NoCall EXCEPT !.op = "list", !.pc = "sent", !.from = call[c].from,
                                    !.alone = call[c].alone]
      /\ NoCall \in Call
  BY <1>1 DEF Reload, CallOK
<1>3. Reload(c) \in Call
  BY <1>1, <1>2 DEF Call, Ops, PCs
<1>4. /\ Reload(c).op = "list" /\ Reload(c).pc = "sent" /\ Reload(c).from = call[c].from
      /\ Reload(c).place = NoPlace
  BY <1>2 DEF NoCall
<1> QED
  BY <1>1, <1>3, <1>4 DEF CallOK, OnCourse, Asked

LEMMA TypeReceive ==
    ASSUME TypeInv, NEW c \in Calls, Receive(c) \/ Fail(c)
    PROVE  TypeInv'
<1>1. /\ call[c] \in Call /\ rows \in Rows /\ call[c].found \in Rows
      /\ rows \in Rows /\ CallOK(NoCall)
  BY NoCallOK DEF TypeInv, TypeOK, Rows, Call
<1>2. NoChain.mode = "none" /\ NoChain.place \in [Ids -> Nat]
  BY DEF NoChain, NoPlace
<1> HIDE DEF NoChain
<1>3. CASE ReceiveList(c)
  <2> DEFINE r == call[c].found
  <2>1. [place |-> Places(r, Present(r)), on |-> Enabled(r)]
          \in [place : [Ids -> Nat], on : SUBSET Ids]
    <3>1. Places(r, Present(r)) \in [Ids -> Nat]
      BY <1>1, PlacesInOrder
    <3>2. Enabled(r) \in SUBSET Ids
      BY DEF Enabled, Present
    <3> QED
      BY <3>1, <3>2
  <2>2. page' \in [place : [Ids -> Nat], on : SUBSET Ids]
    BY <1>3, <2>1 DEF ReceiveList, TypeInv, TypeOK
  <2>3. badge' \in BOOLEAN /\ upset' \subseteq Pages
    BY <1>3 DEF ReceiveList, TypeInv, TypeOK
  <2> QED
    BY <1>1, <1>3, <2>2, <2>3, TypeReplaced DEF ReceiveList, TypeInv, TypeOK
<1>4. CASE ReceiveBasic(c)
  <2>1. badge' \in BOOLEAN /\ upset' \subseteq Pages
    BY <1>4 DEF ReceiveBasic, TypeInv, TypeOK
  <2> QED
    BY <1>1, <1>4, <2>1, TypeReplaced DEF ReceiveBasic, TypeInv, TypeOK
<1>5. CASE ReceiveChange(c)
  <2>1. CallOK(IF call[c].from = "none" THEN NoCall ELSE Reload(c))
    BY <1>1, <1>5, ReloadOK DEF ReceiveChange
  <2> QED
    BY <1>5, <2>1, TypeReplacedOnly DEF ReceiveChange
<1>6. CASE ReceiveOther(c)
  <2>1. /\ chain'.mode \in {"none", "request_once", "user_settings", "free_fallback"}
        /\ chain'.place \in [Ids -> Nat]
    BY <1>2, <1>6 DEF ReceiveOther, TypeInv, TypeOK
  <2> QED
    BY <1>1, <1>6, <2>1, TypeReplaced DEF ReceiveOther, TypeInv, TypeOK
<1>7. CASE Fail(c)
  <2>1. /\ chain'.mode \in {"none", "request_once", "user_settings", "free_fallback"}
        /\ chain'.place \in [Ids -> Nat]
    BY <1>2, <1>7 DEF Fail, TypeInv, TypeOK
  <2>2. upset' \subseteq Pages
    BY <1>7 DEF Fail, TypeInv, TypeOK
  <2>3. CASE call[c].op = "order"
    BY <1>1, <1>7, <2>1, <2>2, <2>3, ReloadOK, TypeReplaced DEF Fail, TypeInv, TypeOK
  <2>4. CASE call[c].op # "order"
    BY <1>1, <1>7, <2>1, <2>2, <2>4, TypeReplaced DEF Fail, TypeInv, TypeOK
  <2> QED
    BY <2>3, <2>4
<1> QED
  BY <1>3, <1>4, <1>5, <1>6, <1>7 DEF Receive

\* They hold after a request is sent.
Sent(op, from, id, ask, place, alone) ==
    [NoCall EXCEPT !.op = op, !.pc = "sent", !.from = from, !.id = id, !.ask = ask,
                   !.place = place, !.alone = alone]

LEMMA SentFields ==
    ASSUME NEW op \in Ops, NEW from \in Pages \cup {"none"}, NEW id \in Ids \cup {None},
           NEW ask \in Ask, NEW place \in [Ids -> Nat], NEW alone \in BOOLEAN
    PROVE  LET x == Sent(op, from, id, ask, place, alone) IN
           /\ x \in Call /\ x.op = op /\ x.pc = "sent" /\ x.from = from /\ x.id = id
           /\ x.ask = ask /\ x.place = place /\ x.alone = alone
           /\ x.found = NoRows /\ x.key = "none"
<1>1. NoRows \in [Ids -> Row \cup {None}]
  BY DEF NoRows
<1> QED
  BY <1>1 DEF Sent, NoCall, Call, PCs, Legacy

\* What Begin does to the other requests: they are no longer alone.
LEMMA BegunOthers ==
    ASSUME TypeInv, NEW c \in Calls, NEW op, NEW from, NEW id, NEW ask, NEW place,
           Begin(c, op, from, id, ask, place)
    PROVE  /\ Idle(c)
           /\ call'[c] = Sent(op, from, id, ask, place, Quiet)
           /\ \A d \in Calls \ {c} : call'[d] = [call[d] EXCEPT !.alone = Idle(d)]
           /\ begun' \in 0..MaxCalls
           /\ upset' = upset \cup Outdated(op, from, ask) /\ upset' \subseteq Pages
<1>1. begun' \in 0..MaxCalls
  BY BoundsAssumption DEF Begin, TypeInv, TypeOK
<1>2. Outdated(op, from, ask) \subseteq Pages
  BY DEF Outdated
<1> QED
  BY <1>1, <1>2 DEF Begin, Sent, TypeInv, TypeOK

\* Another request stays as it is, but for being alone and for its page.
LEMMA OtherOK ==
    ASSUME NEW x, CallOK(x), NEW alone \in BOOLEAN, NEW from \in {x.from, "none"},
           x.pc = "idle" => alone /\ from = x.from
    PROVE  LET y == [x EXCEPT !.from = from, !.alone = alone] IN
           /\ CallOK(y) /\ y.op = x.op /\ y.pc = x.pc /\ y.id = x.id /\ y.ask = x.ask
           /\ y.found = x.found /\ y.place = x.place /\ y.key = x.key
           /\ y.from = from /\ y.alone = alone
           /\ x.pc = "idle" => y = x
<1> DEFINE y == [x EXCEPT !.from = from, !.alone = alone]
<1>1. /\ x \in Call /\ OnCourse(x) /\ Asked(x)
      /\ x.from \in Pages \cup {"none"}
  BY DEF CallOK, Call
<1>2. y \in Call
  BY <1>1 DEF Call
<1>3. /\ y.op = x.op /\ y.pc = x.pc /\ y.id = x.id /\ y.ask = x.ask
      /\ y.found = x.found /\ y.place = x.place /\ y.key = x.key
      /\ y.from = from /\ y.alone = alone
  BY <1>1 DEF Call
<1>4. x.pc = "idle" => y = x
  <2>1. x.pc = "idle" => x.alone = TRUE
    BY <1>1, NoCallOK DEF OnCourse, NoCall
  <2> QED
    BY <1>1, <2>1 DEF Call
<1> HIDE DEF y
<1>5. OnCourse(y)
  BY <1>1, <1>3, <1>4 DEF OnCourse
<1>6. Asked(y)
  BY <1>1, <1>3 DEF Asked
<1>7. CallOK(y)
  BY <1>2, <1>5, <1>6 DEF CallOK
<1> QED
  BY <1>3, <1>4, <1>7 DEF y

\* A request that a page or a client sends.
LEMMA TypeBegin ==
    ASSUME TypeInv, NEW c \in Calls, NEW op \in Ops, NEW from \in Pages \cup {"none"},
           NEW id \in Ids \cup {None}, NEW ask \in Ask, NEW place \in [Ids -> Nat],
           Begin(c, op, from, id, ask, place),
           OnCourse(Sent(op, from, id, ask, place, Quiet)),
           Asked(Sent(op, from, id, ask, place, Quiet)),
           UNCHANGED <<rows, made, legacy, badge, chain, gap>>,
           page' \in [place : [Ids -> Nat], on : SUBSET Ids]
    PROVE  TypeInv'
<1>1. /\ call \in [Calls -> Call]
      /\ \A d \in Calls : CallOK(call[d])
  BY DEF TypeInv, TypeOK, CallOK
<1>2. /\ call'[c] = Sent(op, from, id, ask, place, Quiet)
      /\ \A d \in Calls \ {c} : call'[d] = [call[d] EXCEPT !.alone = Idle(d)]
      /\ begun' \in 0..MaxCalls /\ upset' \subseteq Pages
  BY BegunOthers
<1>3. CallOK(call'[c])
  <2>1. Quiet \in BOOLEAN
    BY DEF Quiet
  <2>2. Sent(op, from, id, ask, place, Quiet) \in Call
    BY <2>1, SentFields
  <2> QED
    BY <1>2, <2>2 DEF CallOK
<1>4. ASSUME NEW d \in Calls \ {c} PROVE CallOK(call'[d])
  <2>1. /\ Idle(d) \in BOOLEAN /\ call[d].from \in {call[d].from, "none"}
        /\ call[d].pc = "idle" => Idle(d)
    BY DEF Idle
  <2>2. CallOK([call[d] EXCEPT !.from = call[d].from, !.alone = Idle(d)])
    BY <1>1, <2>1, OtherOK
  <2>3. [call[d] EXCEPT !.from = call[d].from, !.alone = Idle(d)]
          = [call[d] EXCEPT !.alone = Idle(d)]
    BY <1>1 DEF CallOK, Call
  <2> QED
    BY <1>2, <2>2, <2>3
<1>5. \A d \in Calls : CallOK(call'[d])
  BY <1>3, <1>4
<1>6. call' = [d \in Calls |-> call'[d]]
  BY DEF Begin
<1>7. call' \in [Calls -> Call]
  BY <1>5, <1>6 DEF CallOK
<1>8. TypeOK'
  BY <1>2, <1>7 DEF TypeInv, TypeOK
<1> QED
  BY <1>5, <1>8 DEF TypeInv, CallOK, OnCourse, Asked

\* What mounting a page does to the requests, and to the rest.
FromNow(d, p) == IF call[d].from = p THEN "none" ELSE call[d].from

LEMMA OpenCalls ==
    ASSUME TypeInv, NEW c \in Calls, NEW p \in Pages, Open(c, p)
    PROVE  /\ call' = [d \in Calls |-> call'[d]]
           /\ call'[c] = [NoCall EXCEPT !.op = "load", !.pc = "sent", !.from = p,
                                        !.alone = Quiet]
           /\ \A d \in Calls \ {c} :
                call'[d] = [call[d] EXCEPT !.from = FromNow(d, p), !.alone = Idle(d)]
<1>1. \A d \in Calls : call[d] \in Call
  BY DEF TypeInv, TypeOK
<1>2. call' = [d \in Calls |->
         IF d = c THEN [NoCall EXCEPT !.op = "load", !.pc = "sent", !.from = p,
                                      !.alone = Quiet]
         ELSE [call[d] EXCEPT !.alone = Idle(d), !.from = FromNow(d, p)]]
  BY Zenon DEF Open, FromNow
<1>3. call'[c] = [NoCall EXCEPT !.op = "load", !.pc = "sent", !.from = p, !.alone = Quiet]
  BY <1>2, Zenon
<1>4. ASSUME NEW d \in Calls \ {c}
      PROVE  call'[d] = [call[d] EXCEPT !.from = FromNow(d, p), !.alone = Idle(d)]
  BY <1>1, <1>2 DEF Call
<1>5. call' = [d \in Calls |-> call'[d]]
  BY <1>2
<1> QED
  BY <1>3, <1>4, <1>5, Zenon

LEMMA LoadFields ==
    ASSUME NEW p \in Pages, NEW alone \in BOOLEAN
    PROVE  LET x == [NoCall EXCEPT !.op = "load", !.pc = "sent", !.from = p,
                                   !.alone = alone] IN
           /\ x \in Call /\ x.op = "load" /\ x.pc = "sent" /\ x.from = p
           /\ x.ask = NoAsk /\ x.place = NoPlace /\ x.alone = alone /\ x.found = NoRows
           /\ CallOK(x)
<1> DEFINE x == [NoCall EXCEPT !.op = "load", !.pc = "sent", !.from = p, !.alone = alone]
<1>1. NoCall \in Call /\ NoCall.place = NoPlace
  BY NoCallOK DEF CallOK, NoCall
<1>2. x \in Call
  BY <1>1 DEF Call, Ops, PCs
<1>3. /\ x.op = "load" /\ x.pc = "sent" /\ x.from = p
      /\ x.ask = NoAsk /\ x.place = NoPlace /\ x.alone = alone /\ x.found = NoRows
  BY DEF NoCall
<1> HIDE DEF x
<1>4. OnCourse(x) /\ Asked(x)
  BY <1>3 DEF OnCourse, Asked
<1>5. CallOK(x)
  BY <1>2, <1>4 DEF CallOK
<1> QED
  BY <1>2, <1>3, <1>5 DEF x

LEMMA OpenEffects ==
    ASSUME NEW c \in Calls, NEW p \in Pages, Open(c, p)
    PROVE  /\ Idle(c) /\ begun < MaxCalls /\ begun' = begun + 1
           /\ upset' = upset \cup {p} \cup Outdated("load", p, NoAsk)
           /\ p = "advanced" => page' = [place |-> NoPlace, on |-> {}] /\ badge' = badge
           /\ p = "basic" => badge' = FALSE /\ page' = page
           /\ UNCHANGED <<rows, made, legacy, chain, gap>>
BY Zenon DEF Open

LEMMA TypeOpen ==
    ASSUME TypeInv, NEW c \in Calls, NEW p \in Pages, Open(c, p)
    PROVE  TypeInv'
<1>1. /\ call \in [Calls -> Call]
      /\ \A d \in Calls : CallOK(call[d])
  BY DEF TypeInv, TypeOK, CallOK
<1>2. NoAsk \in Ask /\ NoPlace \in [Ids -> Nat]
  BY DEF NoAsk, Ask, NoPlace
<1> DEFINE x == [NoCall EXCEPT !.op = "load", !.pc = "sent", !.from = p, !.alone = Quiet]
<1>a. /\ call' = [d \in Calls |-> call'[d]]
      /\ call'[c] = x
      /\ \A d \in Calls \ {c} :
           call'[d] = [call[d] EXCEPT !.from = FromNow(d, p), !.alone = Idle(d)]
  BY OpenCalls, Zenon
<1>3. CallOK(call'[c])
  <2>1. Quiet \in BOOLEAN
    BY DEF Quiet
  <2>2. CallOK(x)
    BY <2>1, LoadFields
  <2> HIDE DEF x
  <2> QED
    BY <1>a, <2>2
<1>4. ASSUME NEW d \in Calls \ {c} PROVE CallOK(call'[d])
  <2>1. /\ Idle(d) \in BOOLEAN /\ FromNow(d, p) \in {call[d].from, "none"}
        /\ call[d].pc = "idle" => Idle(d) /\ FromNow(d, p) = call[d].from
    BY <1>1 DEF Idle, CallOK, OnCourse, NoCall, Pages, FromNow
  <2>2. call'[d] = [call[d] EXCEPT !.from = FromNow(d, p), !.alone = Idle(d)]
    BY <1>a, Zenon
  <2>3. CallOK([call[d] EXCEPT !.from = FromNow(d, p), !.alone = Idle(d)])
    BY <1>1, <2>1, OtherOK
  <2> QED
    BY <2>2, <2>3
<1>5. \A d \in Calls : CallOK(call'[d])
  BY <1>3, <1>4
<1>6. call' \in [Calls -> Call]
  <2>1. call' = [d \in Calls |-> call'[d]]
    BY <1>a
  <2> QED
    BY <1>5, <2>1 DEF CallOK
<1>7. page' \in [place : [Ids -> Nat], on : SUBSET Ids]
  <2>1. CASE p = "advanced"
    <3>1. [place |-> NoPlace, on |-> {}] \in [place : [Ids -> Nat], on : SUBSET Ids]
      BY <1>2
    <3>2. page' = [place |-> NoPlace, on |-> {}]
      BY <2>1, OpenEffects
    <3> QED
      BY <3>1, <3>2
  <2>2. CASE p = "basic"
    BY <2>2, OpenEffects DEF TypeInv, TypeOK
  <2> QED
    BY <2>1, <2>2 DEF Pages
<1>8. badge' \in BOOLEAN
  <2>1. badge \in BOOLEAN
    BY DEF TypeInv, TypeOK
  <2>2. CASE p = "advanced"
    BY <2>1, <2>2, OpenEffects
  <2>3. CASE p = "basic"
    BY <2>3, OpenEffects
  <2> QED
    BY <2>2, <2>3 DEF Pages
<1>9. begun' \in 0..MaxCalls
  <2>1. begun < MaxCalls /\ begun' = begun + 1
    BY OpenEffects
  <2> QED
    BY <2>1, BoundsAssumption DEF TypeInv, TypeOK
<1>10. upset' \subseteq Pages
  <2>1. upset' = upset \cup {p} \cup Outdated("load", p, NoAsk)
    BY OpenEffects
  <2> QED
    BY <2>1 DEF Outdated, TypeInv, TypeOK
<1>11. TypeOK'
  <2>1. UNCHANGED <<rows, made, legacy, chain, gap>>
    BY OpenEffects
  <2> QED
    BY <1>6, <1>7, <1>8, <1>9, <1>10, <2>1 DEF TypeInv, TypeOK
<1> QED
  BY <1>5, <1>11 DEF TypeInv, CallOK, OnCourse, Asked

\* What a page or a client may send, and with what.
Askable(op, from, id, ask) ==
    \/ op = "add" /\ ask \in Adds /\ from # "basic"
    \/ op \in {"edit", "delete"} /\ id \in Ids /\ from # "basic"
    \/ op = "basic" /\ ask.key \in Keys \cup {"clear"} /\ from # "advanced"
    \/ op = "llm" /\ ask.key \in Keys \cup {"clear", "keep"} /\ from = "none"
    \/ /\ op = "job" /\ ask.enabled \in Switch /\ from = "none"
       /\ ask.key \in Keys \/ (ask.key = "keep" /\ ask.enabled = "off")
    \/ op = "order" /\ from = "advanced"

Sends(c, op, from, id, ask, place) ==
    /\ op \in Ops /\ from \in Pages \cup {"none"} /\ id \in Ids \cup {None}
    /\ ask \in Ask /\ place \in [Ids -> Nat] /\ Askable(op, from, id, ask)
    /\ Begin(c, op, from, id, ask, place)
    /\ UNCHANGED <<rows, made, legacy, badge, chain, gap>>
    /\ \/ op # "order" /\ place = NoPlace /\ page' = page
       \/ /\ op = "order" /\ page' = [page EXCEPT !.place = place]
          /\ \E i, j \in Listed :
               /\ page.place[i] = page.place[j] + 1
               /\ place = [page.place EXCEPT ![i] = page.place[j], ![j] = page.place[i]]

SendsOne(c) == \E op, from, id, ask, place : Sends(c, op, from, id, ask, place)

LEMMA AskType ==
    /\ NoAsk \in Ask /\ NoPlace \in [Ids -> Nat] /\ Quiet \in BOOLEAN
    /\ \A key \in Keys \cup {"keep", "clear"}, on \in Switch :
         LET a == [NoAsk EXCEPT !.key = key, !.enabled = on] IN
         a \in Ask /\ a.key = key /\ a.enabled = on
    /\ \A key \in Keys \cup {"keep", "clear"} :
         LET a == [NoAsk EXCEPT !.key = key] IN a \in Ask /\ a.key = key
    /\ \A on \in Switch : [NoAsk EXCEPT !.enabled = on] \in Ask
BY DEF NoAsk, NoPlace, Ask, Quiet

\* Whatever the user does mounts a page or sends a request.
LEMMA UserSends ==
    ASSUME TypeInv, NEW c \in Calls, User(c)
    PROVE  (\E p \in Pages : Open(c, p)) \/ SendsOne(c)
<1> USE AskType
<1>1. ASSUME NEW op \in Ops, NEW from \in Pages \cup {"none"}, NEW id \in Ids \cup {None},
             NEW ask \in Ask, Askable(op, from, id, ask), op # "order",
             Begin(c, op, from, id, ask, NoPlace),
             UNCHANGED <<rows, made, legacy, page, badge, chain, gap>>
      PROVE  SendsOne(c)
  <2>1. Sends(c, op, from, id, ask, NoPlace)
    BY <1>1 DEF Sends
  <2> QED
    BY <2>1 DEF SendsOne
<1>2. ASSUME NEW a \in Adds, SaveNew(c, a) PROVE SendsOne(c)
  <2>1. /\ "add" \in Ops /\ "advanced" \in Pages \cup {"none"} /\ None \in Ids \cup {None}
        /\ a \in Ask /\ Askable("add", "advanced", None, a)
    BY AsksAssumption DEF Ops, Pages, Askable
  <2>2. /\ Begin(c, "add", "advanced", None, a, NoPlace)
        /\ UNCHANGED <<rows, made, legacy, page, badge, chain, gap>>
    BY <1>2 DEF SaveNew
  <2> QED
    BY <1>1, <2>1, <2>2
<1>3. ASSUME NEW i \in Ids, NEW from \in {"advanced", "none"}, NEW a \in Ask,
             NEW op \in {"edit", "delete"}, Begin(c, op, from, i, a, NoPlace),
             UNCHANGED <<rows, made, legacy, page, badge, chain, gap>>
      PROVE  SendsOne(c)
  <2>1. /\ op \in Ops /\ op # "order" /\ from \in Pages \cup {"none"}
        /\ i \in Ids \cup {None} /\ Askable(op, from, i, a)
    BY DEF Ops, Pages, Askable
  <2> QED
    BY <1>1, <1>3, <2>1
<1>4. ASSUME NEW i \in Ids, NEW a \in Edits, SaveEdit(c, i, a) PROVE SendsOne(c)
  BY <1>3, <1>4, AsksAssumption DEF SaveEdit
<1>5. ASSUME NEW i \in Ids, Toggle(c, i) PROVE SendsOne(c)
  <2> DEFINE a == [NoAsk EXCEPT !.enabled = IF i \in page.on THEN "off" ELSE "on"]
  <2>1. a \in Ask
    BY DEF Switch
  <2>2. /\ Begin(c, "edit", "advanced", i, a, NoPlace)
        /\ UNCHANGED <<rows, made, legacy, page, badge, chain, gap>>
    BY <1>5 DEF Toggle
  <2> HIDE DEF a
  <2> QED
    BY <1>3, <2>1, <2>2
<1>6. ASSUME NEW i \in Ids, Delete(c, i) PROVE SendsOne(c)
  BY <1>3, <1>6 DEF Delete
<1>7. ASSUME NEW i \in Ids, ClearKey(c, i) PROVE SendsOne(c)
  <2> DEFINE a == [NoAsk EXCEPT !.key = "clear"]
  <2>1. a \in Ask
    OBVIOUS
  <2>2. /\ Begin(c, "edit", "none", i, a, NoPlace)
        /\ UNCHANGED <<rows, made, legacy, page, badge, chain, gap>>
    BY <1>7 DEF ClearKey
  <2> HIDE DEF a
  <2> QED
    BY <1>3, <2>1, <2>2
<1>8. ASSUME NEW i \in Ids, NEW j \in Ids, Move(c, i, j) PROVE SendsOne(c)
  <2> DEFINE swapped == [page.place EXCEPT ![i] = page.place[j], ![j] = page.place[i]]
  <2>1. /\ "order" \in Ops /\ "advanced" \in Pages \cup {"none"} /\ None \in Ids \cup {None}
        /\ Askable("order", "advanced", None, NoAsk)
    BY DEF Ops, Pages, Askable
  <2>2. swapped \in [Ids -> Nat]
    BY DEF TypeInv, TypeOK
  <2>3. /\ page' = [page EXCEPT !.place = swapped]
        /\ Begin(c, "order", "advanced", None, NoAsk, swapped)
        /\ UNCHANGED <<rows, made, legacy, badge, chain, gap>>
        /\ i \in Listed /\ j \in Listed /\ page.place[i] = page.place[j] + 1
    BY <1>8 DEF Move
  <2>4. Sends(c, "order", "advanced", None, NoAsk, swapped)
    BY <2>1, <2>2, <2>3 DEF Sends
  <2> QED
    BY <2>4 DEF SendsOne
<1>9. ASSUME NEW key \in Keys \cup {"clear", "keep"}, NEW op \in {"basic", "llm"},
             NEW from \in {"basic", "none"},
             \/ op = "basic" /\ key # "keep"
             \/ op = "llm" /\ from = "none",
             Begin(c, op, from, None, [NoAsk EXCEPT !.key = key], NoPlace),
             UNCHANGED <<rows, made, legacy, page, badge, chain, gap>>
      PROVE  SendsOne(c)
  <2> DEFINE a == [NoAsk EXCEPT !.key = key]
  <2>1. a \in Ask /\ a.key = key
    OBVIOUS
  <2>2. Begin(c, op, from, None, a, NoPlace)
    BY <1>9
  <2> HIDE DEF a
  <2>3. /\ op \in Ops /\ op # "order" /\ from \in Pages \cup {"none"}
        /\ None \in Ids \cup {None} /\ Askable(op, from, None, a)
    BY <1>9, <2>1 DEF Ops, Pages, Askable
  <2> QED
    BY <1>1, <1>9, <2>1, <2>2, <2>3
<1>10. ASSUME NEW key \in Keys \cup {"clear"}, SaveBasic(c, key) PROVE SendsOne(c)
  BY <1>9, <1>10, CallsAssumption DEF SaveBasic
<1>11. ASSUME NEW key \in Keys \cup {"clear", "keep"}, SaveLegacy(c, key)
       PROVE  SendsOne(c)
  BY <1>9, <1>11 DEF SaveLegacy
<1>12. ASSUME NEW key \in Keys \cup {"keep"}, NEW save \in Switch,
              key = "keep" => save = "off", SubmitJob(c, key, save)
       PROVE  SendsOne(c)
  <2> DEFINE a == [NoAsk EXCEPT !.key = key, !.enabled = save]
  <2>1. a \in Ask /\ a.key = key /\ a.enabled = save
    OBVIOUS
  <2>2. /\ Begin(c, "job", "none", None, a, NoPlace)
        /\ UNCHANGED <<rows, made, legacy, page, badge, chain, gap>>
    BY <1>12 DEF SubmitJob
  <2> HIDE DEF a
  <2>3. /\ "job" \in Ops /\ "none" \in Pages \cup {"none"} /\ None \in Ids \cup {None}
        /\ Askable("job", "none", None, a)
    BY <1>12, <2>1 DEF Ops, Askable
  <2> QED
    BY <1>1, <2>1, <2>2, <2>3
<1>13. SubmitJob(c, "keep", "off") => SendsOne(c)
  BY <1>12 DEF Switch
<1>14. ASSUME NEW key \in Keys, NEW save \in Switch, SubmitJob(c, key, save)
       PROVE  SendsOne(c)
  BY <1>12, <1>14, CallsAssumption
<1> QED
  BY <1>2, <1>4, <1>5, <1>6, <1>7, <1>8, <1>10, <1>11, <1>13, <1>14 DEF User

LEMMA SentOK ==
    ASSUME NEW op \in Ops, NEW from \in Pages \cup {"none"}, NEW id \in Ids \cup {None},
           NEW ask \in Ask, NEW place \in [Ids -> Nat], NEW alone \in BOOLEAN,
           Askable(op, from, id, ask), op # "order" => place = NoPlace
    PROVE  LET x == Sent(op, from, id, ask, place, alone) IN OnCourse(x) /\ Asked(x)
<1> DEFINE x == Sent(op, from, id, ask, place, alone)
<1>1. /\ x.op = op /\ x.pc = "sent" /\ x.from = from /\ x.id = id
      /\ x.ask = ask /\ x.place = place /\ x.found = NoRows
  BY SentFields
<1> HIDE DEF x
<1>2. OnCourse(x)
  BY <1>1 DEF OnCourse, Askable
<1>3. Asked(x)
  BY <1>1, CallsAssumption DEF Asked, Askable
<1> QED
  BY <1>2, <1>3 DEF x

\* The pages and the clients keep the types.
LEMMA TypeUser ==
    ASSUME TypeInv, NEW c \in Calls, User(c)
    PROVE  TypeInv'
<1>1. ASSUME NEW p \in Pages, Open(c, p) PROVE TypeInv'
  BY <1>1, TypeOpen
<1>2. ASSUME NEW op, NEW from, NEW id, NEW ask, NEW place,
             Sends(c, op, from, id, ask, place)
      PROVE  TypeInv'
  <2>1. /\ op \in Ops /\ from \in Pages \cup {"none"} /\ id \in Ids \cup {None}
        /\ ask \in Ask /\ place \in [Ids -> Nat] /\ Askable(op, from, id, ask)
        /\ Begin(c, op, from, id, ask, place)
        /\ UNCHANGED <<rows, made, legacy, badge, chain, gap>>
        /\ op # "order" => place = NoPlace
    BY <1>2 DEF Sends
  <2>2. page' \in [place : [Ids -> Nat], on : SUBSET Ids]
    <3>1. page' = page \/ page' = [page EXCEPT !.place = place]
      BY <1>2 DEF Sends
    <3>2. page \in [place : [Ids -> Nat], on : SUBSET Ids]
      BY DEF TypeInv, TypeOK
    <3> QED
      BY <2>1, <3>1, <3>2
  <2>3. Quiet \in BOOLEAN
    BY DEF Quiet
  <2>4. /\ OnCourse(Sent(op, from, id, ask, place, Quiet))
        /\ Asked(Sent(op, from, id, ask, place, Quiet))
    BY <2>1, <2>3, SentOK
  <2> QED
    BY <2>1, <2>2, <2>4, TypeBegin
<1> QED
  BY <1>1, <1>2, UserSends DEF SendsOne

LEMMA TypeWorker ==
    ASSUME TypeInv, NEW c \in Calls, Worker(c)
    PROVE  TypeInv'
<1>1. Ensure(c) => TypeInv'
  BY TypeSelect, TypeMigrate DEF Ensure
<1>2. Providers(c) => TypeInv'
  BY TypeCounted, TypeRow DEF Providers
<1> QED
  BY <1>1, <1>2, TypeSettings, TypeJobs, TypeThrow DEF Worker

LEMMA TypeInit == Init => TypeInv
<1> SUFFICES ASSUME Init PROVE TypeInv
  OBVIOUS
<1>1. /\ rows \in Rows /\ made \in 0..MaxRows /\ legacy \in Legacy /\ upset \subseteq Pages
  <2>1. CASE rows = NoRows /\ made = 0 /\ legacy \in Legacy /\ upset = Pages
    BY <2>1, BoundsAssumption DEF Rows, NoRows
  <2>2. CASE /\ rows \in Starts /\ made = Cardinality(Present(rows))
             /\ legacy = "none" /\ upset = {}
    <3>1. rows \in Rows
      BY <2>2, StartsAssumption DEF Rows
    <3>2. Cardinality(Present(rows)) <= Cardinality(Ids)
          /\ Cardinality(Present(rows)) \in Nat
      <4>1. Present(rows) \in SUBSET Ids
        BY DEF Present
      <4> QED
        BY <4>1, IdsAreFinite, FS_Subset
    <3>3. Cardinality(Ids) = MaxRows
      BY BoundsAssumption, FS_Interval DEF Ids
    <3>4. made \in 0..MaxRows
      BY <2>2, <3>2, <3>3, BoundsAssumption
    <3> QED
      BY <2>2, <3>1, <3>4 DEF Legacy
  <2> QED
    BY <2>1, <2>2 DEF Init
<1>2. call = [c \in Calls |-> NoCall] /\ NoCall \in Call
  BY NoCallOK DEF Init, CallOK
<1>3. call \in [Calls -> Call] /\ \A c \in Calls : OnCourse(call[c]) /\ Asked(call[c])
  BY <1>2, NoCallOK DEF CallOK
<1>4. Places(rows, Present(rows)) \in [Ids -> Nat]
  BY <1>1, PlacesInOrder
<1>5. page = [place |-> Places(rows, Present(rows)), on |-> Enabled(rows)]
  BY DEF Init
<1>6. page \in [place : [Ids -> Nat], on : SUBSET Ids]
  <2>1. Enabled(rows) \subseteq Ids
    BY DEF Enabled, Present
  <2> QED
    BY <1>4, <1>5, <2>1
<1>7. badge \in BOOLEAN
  BY DEF Init, HasKey
<1>8. chain.mode = "none" /\ chain.place \in [Ids -> Nat]
  BY DEF Init, NoChain, NoPlace
<1>9. begun \in 0..MaxCalls /\ gap \in BOOLEAN
  <2>1. begun = 0
    BY Zenon DEF Init
  <2>2. gap \in BOOLEAN
    BY Zenon DEF Init
  <2> QED
    BY <2>1, <2>2, BoundsAssumption
<1> QED
  BY <1>1, <1>3, <1>6, <1>7, <1>8, <1>9 DEF TypeInv, TypeOK, Rows

LEMMA TypeNext == TypeInv /\ [Next]_vars => TypeInv'
<1>1. TypeInv /\ Next => TypeInv'
  BY TypeUser, TypeWorker, TypeReceive DEF Next
<1>2. ASSUME TypeInv, UNCHANGED vars PROVE TypeInv'
  <2>1. TypeOK'
    BY <1>2 DEF TypeInv, TypeOK, vars
  <2>2. \A c \in Calls : (OnCourse(call[c]) /\ Asked(call[c]))'
    BY <1>2 DEF TypeInv, OnCourse, Asked, vars
  <2> QED
    BY <2>1, <2>2 DEF TypeInv
<1> QED
  BY <1>1, <1>2

\* The state stays within its types, whichever requests meet: the priorities of
\* the rows above all, and what a handler has read and means to write.
THEOREM SettingsTypeCorrect == Spec => []TypeOK
<1>1. Spec => []TypeInv
  BY TypeInit, TypeNext, PTL DEF Spec
<1>2. TypeInv => TypeOK
  BY DEF TypeInv
<1> QED
  BY <1>1, <1>2, PTL

-----------------------------------------------------------------------------
(* What a step leaves alone                                                *)

\* A handler keeps what it was sent.
Kept(x, y) == /\ x.op = y.op /\ x.from = y.from /\ x.id = y.id /\ x.place = y.place
              /\ x.alone = y.alone /\ x.ask.key = y.ask.key
              /\ x.ask.enabled = y.ask.enabled
              /\ x.ask.enabled = y.ask.enabled

LEMMA WorkerFrame ==
    ASSUME TypeInv, NEW c \in Calls, Worker(c)
    PROVE  /\ call[c].pc # "idle" /\ call'[c].pc # "idle"
           /\ Kept(call'[c], call[c])
           /\ call'[c].found \in {call[c].found, rows}
           /\ \A d \in Calls \ {c} : call'[d] = call[d]
           /\ UNCHANGED <<page, begun, upset>>
<1>1. call \in [Calls -> Call] /\ call[c] \in Call /\ call[c].ask \in Ask
  BY DEF TypeInv, TypeOK, Call
<1> DEFINE Goal == /\ call[c].pc # "idle" /\ call'[c].pc # "idle"
                   /\ Kept(call'[c], call[c])
                   /\ call'[c].found \in {call[c].found, rows}
                   /\ \A d \in Calls \ {c} : call'[d] = call[d]
<1>2. ASSUME NEW pc, call' = [call EXCEPT ![c].pc = pc], pc # "idle",
             call[c].pc # "idle"
      PROVE  Goal
  BY <1>1, <1>2 DEF Kept, Call
<1>3. ASSUME NEW pc, call' = [call EXCEPT ![c].pc = pc, ![c].found = rows], pc # "idle",
             call[c].pc # "idle"
      PROVE  Goal
  BY <1>1, <1>3 DEF Kept, Call
<1>4. ASSUME NEW pc, NEW key, pc # "idle", call[c].pc # "idle",
             call' = [call EXCEPT ![c].pc = pc, ![c].key = key]
      PROVE  Goal
  BY <1>1, <1>4 DEF Kept, Call
<1>5. AfterEnsure(c) # "idle"
  BY DEF AfterEnsure
<1>6. CASE SelectProviders(c)
  <2> DEFINE pc == IF Present(rows) = {} /\ call[c].pc = "sent" THEN "empty"
                   ELSE AfterEnsure(c)
  <2>1. call' = [call EXCEPT ![c].pc = pc, ![c].found = rows]
    BY <1>1, <1>6 DEF SelectProviders, Call
  <2>2. pc # "idle" /\ call[c].pc # "idle"
    BY <1>5, <1>6 DEF SelectProviders
  <2> HIDE DEF pc, Goal
  <2>3. Goal
    BY <1>3, <2>1, <2>2
  <2> QED
    BY <1>6, <2>3 DEF SelectProviders, Goal
<1>7. CASE SelectLegacy(c)
  <2>1. call[c].pc # "idle"
    BY <1>7 DEF SelectLegacy
  <2>2. \/ call' = [call EXCEPT ![c].pc = AfterEnsure(c)]
        \/ call' = [call EXCEPT ![c].pc = "migrating", ![c].key = legacy]
    BY <1>7 DEF SelectLegacy
  <2> HIDE DEF Goal
  <2>3. Goal
    BY <1>2, <1>4, <1>5, <2>1, <2>2
  <2> QED
    BY <1>7, <2>3 DEF SelectLegacy, Goal
<1>8. CASE Migrate(c) \/ WriteRow(c) \/ Reorder(c) \/ WriteBasic(c) \/ InsertCounted(c)
           \/ WriteLegacy(c) \/ UseSettings(c) \/ (\E f \in Configs : UseFallback(c, f))
  <2>1. \E pc \in {"migrated", "answered", "refused"} : call' = [call EXCEPT ![c].pc = pc]
    BY <1>8 DEF Migrate, WriteRow, Reorder, WriteBasic, InsertCounted, WriteLegacy,
                UseSettings, UseFallback
  <2>2. call[c].pc # "idle"
    BY <1>8 DEF Migrate, WriteRow, Reorder, WriteBasic, InsertCounted, WriteLegacy,
                UseSettings, UseFallback, At
  <2>3. UNCHANGED <<page, begun, upset>>
    BY <1>8 DEF Migrate, WriteRow, Reorder, WriteBasic, InsertCounted, WriteLegacy,
                UseSettings, UseFallback
  <2> HIDE DEF Goal
  <2>4. Goal
    BY <1>2, <2>1, <2>2
  <2> QED
    BY <2>3, <2>4 DEF Goal
<1>9. CASE CountRows(c) \/ ReadRow(c) \/ DeleteRow(c)
  <2>1. \E pc \in {"counted", "refused", "read", "answered"} :
           call' = [call EXCEPT ![c].pc = pc, ![c].found = rows]
    BY <1>9 DEF CountRows, ReadRow, DeleteRow
  <2>2. call[c].pc # "idle"
    BY <1>9 DEF CountRows, ReadRow, DeleteRow, At
  <2>3. UNCHANGED <<page, begun, upset>>
    BY <1>9 DEF CountRows, ReadRow, DeleteRow
  <2> HIDE DEF Goal
  <2>4. Goal
    BY <1>3, <2>1, <2>2
  <2> QED
    BY <2>3, <2>4 DEF Goal
<1>10. CASE ReadLegacy(c)
  <2>1. call' = [call EXCEPT ![c].pc = "read", ![c].key = legacy] /\ call[c].pc # "idle"
    BY <1>10 DEF ReadLegacy, At
  <2> HIDE DEF Goal
  <2>2. Goal
    BY <1>4, <2>1
  <2> QED
    BY <1>10, <2>2 DEF ReadLegacy, Goal
<1>11. CASE Throw(c)
  <2> DEFINE pc == IF call[c].op = "job" /\ call[c].pc \in {"saving", "counted"}
                   THEN "answered" ELSE "refused"
  <2>1. call' = [call EXCEPT ![c].pc = pc] /\ pc # "idle" /\ call[c].pc # "idle"
    BY <1>11 DEF Throw
  <2> HIDE DEF pc, Goal
  <2>2. Goal
    BY <1>2, <2>1
  <2> QED
    BY <1>11, <2>2 DEF Throw, Goal
<1>12. CASE UseOneOff(c)
  <2>1. call[c].pc # "idle" /\ UNCHANGED <<page, begun, upset>>
    BY <1>12 DEF UseOneOff, At
  <2>2. CASE call' = [call EXCEPT ![c].pc = "refused"]
    <3> HIDE DEF Goal
    <3>1. Goal
      BY <1>2, <2>1, <2>2
    <3> QED
      BY <2>1, <3>1 DEF Goal
  <2>3. ASSUME NEW pc \in {"saving", "answered"}, NEW kind,
               call' = [call EXCEPT ![c].pc = pc, ![c].ask.kind = kind]
        PROVE  Goal
    <3>1. call'[c].ask = [call[c].ask EXCEPT !.kind = kind]
      BY <1>1, <2>3 DEF Call
    <3>2. call'[c].ask.key = call[c].ask.key /\ call'[c].ask.enabled = call[c].ask.enabled
      BY <1>1, <3>1 DEF Ask
    <3> QED
      BY <1>1, <2>1, <2>3, <3>2 DEF Kept, Call
  <2> DEFINE r == call[c].found
             on == IF call[c].ask.enabled = "on" THEN "saving" ELSE "answered"
  <2>4. \/ call' = [call EXCEPT ![c].pc = "refused"]
        \/ call' = [call EXCEPT ![c].pc = on, ![c].ask.kind = r[First(r, Present(r))].kind]
    BY <1>12 DEF UseOneOff
  <2>5. on \in {"saving", "answered"}
    OBVIOUS
  <2> HIDE DEF on, Goal
  <2>6. Goal \/ call' = [call EXCEPT ![c].pc = "refused"]
    BY <2>3, <2>4, <2>5
  <2> QED
    BY <2>1, <2>2, <2>6 DEF Goal
<1> QED
  BY <1>6, <1>7, <1>8, <1>9, <1>10, <1>11, <1>12 DEF Worker, Ensure, Providers, Jobs

\* An answer ends a request, or begins the load of the list that follows it.
LEMMA AnswerFrame ==
    ASSUME TypeInv, NEW c \in Calls, Receive(c) \/ Fail(c)
    PROVE  /\ call[c].pc \in {"sent", "answered", "refused"}
           /\ \/ call'[c] = NoCall
              \/ call'[c] = Reload(c) /\ call[c].op \in {"add", "edit", "delete", "order"}
           /\ \A d \in Calls \ {c} : call'[d] = call[d]
           /\ UNCHANGED <<rows, made, legacy, begun>>
<1>1. call \in [Calls -> Call]
  BY DEF TypeInv, TypeOK
<1>2. \/ call' = [call EXCEPT ![c] = NoCall]
      \/ /\ call' = [call EXCEPT ![c] = Reload(c)]
         /\ call[c].op \in {"add", "edit", "delete", "order"}
  BY Zenon DEF Receive, ReceiveList, ReceiveBasic, ReceiveChange, ReceiveOther, Fail, At
<1>3. call[c].pc \in {"sent", "answered", "refused"}
  BY DEF Receive, ReceiveList, ReceiveBasic, ReceiveChange, ReceiveOther, Fail, At
<1>4. UNCHANGED <<rows, made, legacy, begun>>
  BY DEF Receive, ReceiveList, ReceiveBasic, ReceiveChange, ReceiveOther, Fail
<1> QED
  BY <1>1, <1>2, <1>3, <1>4

LEMMA ReloadFields ==
    ASSUME TypeInv, NEW c \in Calls
    PROVE  /\ Reload(c).op = "list" /\ Reload(c).pc = "sent"
           /\ Reload(c).from = call[c].from /\ Reload(c).alone = call[c].alone
           /\ Reload(c).place = NoPlace /\ Reload(c).found = NoRows
BY DEF Reload, NoCall

\* A request of the user is alone if no other is under way; what it makes out of
\* date is upset.  Other requests keep all but being alone, and their page.
StaysBut(x, y) == /\ x.op = y.op /\ x.pc = y.pc /\ x.id = y.id /\ x.ask = y.ask
                  /\ x.found = y.found /\ x.place = y.place /\ x.key = y.key
                  /\ x.from \in {y.from, "none"}

SwappedPage(c) ==
    /\ page'.place = call'[c].place /\ page'.on = page.on
    /\ \E i, j \in Listed :
         /\ page.place[i] = page.place[j] + 1
         /\ call'[c].place = [page.place EXCEPT ![i] = page.place[j], ![j] = page.place[i]]

LEMMA UserFrame ==
    ASSUME TypeInv, NEW c \in Calls, User(c)
    PROVE  /\ call[c].pc = "idle"
           /\ call'[c].pc = "sent" /\ call'[c].alone = Quiet /\ call'[c].found = NoRows
           /\ \A d \in Calls \ {c} : /\ StaysBut(call'[d], call[d])
                                     /\ call'[d].alone = Idle(d)
           /\ upset \subseteq upset' /\ (~Quiet => upset' = Pages)
           /\ ~Harmless(call'[c]) => Pages \ {call'[c].from} \subseteq upset'
           /\ call'[c].op = "load" => call'[c].from \in Pages /\ call'[c].from \in upset'
           /\ call'[c].op # "order" => call'[c].place = NoPlace
           /\ \/ page' = page /\ call'[c].op # "order"
              \/ /\ page' = [place |-> NoPlace, on |-> {}] /\ "advanced" \in upset'
                 /\ call'[c].op # "order"
              \/ SwappedPage(c) /\ call'[c].op = "order" /\ call'[c].from = "advanced"
           /\ UNCHANGED <<rows, made, legacy, chain>>
<1>1. /\ call \in [Calls -> Call] /\ upset \subseteq Pages
      /\ \A d \in Calls : CallOK(call[d])
  BY DEF TypeInv, TypeOK, CallOK
<1>2. Quiet \in BOOLEAN
  BY DEF Quiet
<1>3. ASSUME NEW p \in Pages, Open(c, p)
      PROVE  /\ call[c].pc = "idle"
             /\ call'[c].op = "load" /\ call'[c].from = p /\ call'[c].place = NoPlace
             /\ call'[c].pc = "sent" /\ call'[c].alone = Quiet /\ call'[c].found = NoRows
             /\ \A d \in Calls \ {c} : /\ StaysBut(call'[d], call[d])
                                       /\ call'[d].alone = Idle(d)
             /\ upset' = upset \cup {p} \cup Outdated("load", p, NoAsk)
             /\ \/ page' = page
                \/ page' = [place |-> NoPlace, on |-> {}] /\ p = "advanced"
             /\ UNCHANGED <<rows, made, legacy, chain>>
  <2> DEFINE x == [NoCall EXCEPT !.op = "load", !.pc = "sent", !.from = p, !.alone = Quiet]
  <2>1. /\ call'[c] = x
        /\ \A d \in Calls \ {c} :
             call'[d] = [call[d] EXCEPT !.from = FromNow(d, p), !.alone = Idle(d)]
    BY <1>3, OpenCalls, Zenon
  <2>2. /\ x.op = "load" /\ x.pc = "sent" /\ x.from = p
        /\ x.place = NoPlace /\ x.alone = Quiet /\ x.found = NoRows
    BY DEF NoCall
  <2> HIDE DEF x
  <2>3. ASSUME NEW d \in Calls \ {c}
        PROVE  StaysBut(call'[d], call[d]) /\ call'[d].alone = Idle(d)
    <3>1. call[d] \in Call
      BY <1>1
    <3>2. FromNow(d, p) \in {call[d].from, "none"}
      BY DEF FromNow
    <3>3. call'[d] = [call[d] EXCEPT !.from = FromNow(d, p), !.alone = Idle(d)]
      BY <2>1, Zenon
    <3> QED
      BY <3>1, <3>2, <3>3 DEF StaysBut, Call
  <2>4. /\ call[c].pc = "idle" /\ upset' = upset \cup {p} \cup Outdated("load", p, NoAsk)
        /\ UNCHANGED <<rows, made, legacy, chain>>
    BY <1>3, OpenEffects DEF Idle
  <2>5. page' = page \/ (page' = [place |-> NoPlace, on |-> {}] /\ p = "advanced")
    BY <1>3, OpenEffects, Zenon DEF Pages
  <2> QED
    BY <2>1, <2>2, <2>3, <2>4, <2>5, Zenon
<1>4. ASSUME NEW op, NEW from, NEW id, NEW ask, NEW place,
             Sends(c, op, from, id, ask, place)
      PROVE  /\ call[c].pc = "idle"
             /\ call'[c].op = op /\ call'[c].from = from /\ call'[c].place = place
             /\ call'[c].ask = ask /\ op # "load"
             /\ call'[c].pc = "sent" /\ call'[c].alone = Quiet /\ call'[c].found = NoRows
             /\ \A d \in Calls \ {c} : /\ StaysBut(call'[d], call[d])
                                       /\ call'[d].alone = Idle(d)
             /\ upset' = upset \cup Outdated(op, from, ask)
             /\ \/ page' = page /\ op # "order" /\ place = NoPlace
                \/ SwappedPage(c) /\ op = "order" /\ from = "advanced"
             /\ UNCHANGED <<rows, made, legacy, chain>>
  <2>1. /\ op \in Ops /\ from \in Pages \cup {"none"} /\ id \in Ids \cup {None}
        /\ ask \in Ask /\ place \in [Ids -> Nat] /\ Askable(op, from, id, ask)
        /\ Begin(c, op, from, id, ask, place)
        /\ UNCHANGED <<rows, made, legacy, chain>>
    BY <1>4 DEF Sends
  <2> DEFINE x == Sent(op, from, id, ask, place, Quiet)
  <2>2. /\ x.op = op /\ x.pc = "sent" /\ x.from = from /\ x.id = id /\ x.ask = ask
        /\ x.place = place /\ x.alone = Quiet /\ x.found = NoRows
    BY <1>2, <2>1, SentFields
  <2>3. /\ call[c].pc = "idle" /\ call'[c] = x
        /\ \A d \in Calls \ {c} : call'[d] = [call[d] EXCEPT !.alone = Idle(d)]
        /\ upset' = upset \cup Outdated(op, from, ask)
    BY <2>1, BegunOthers DEF Idle
  <2> HIDE DEF x
  <2>4. ASSUME NEW d \in Calls \ {c}
        PROVE  StaysBut(call'[d], call[d]) /\ call'[d].alone = Idle(d)
    <3>1. call[d] \in Call /\ call'[d] = [call[d] EXCEPT !.alone = Idle(d)]
      BY <1>1, <2>3
    <3> QED
      BY <3>1 DEF StaysBut, Call
  <2>5. op # "load"
    BY <2>1 DEF Askable
  <2>6. \/ page' = page /\ op # "order" /\ place = NoPlace
        \/ SwappedPage(c) /\ op = "order" /\ from = "advanced"
    <3>1. CASE op # "order"
      BY <1>4, <3>1 DEF Sends
    <3>2. CASE op = "order"
      <4>1. /\ page' = [page EXCEPT !.place = place]
            /\ \E i, j \in Listed :
                 /\ page.place[i] = page.place[j] + 1
                 /\ place = [page.place EXCEPT ![i] = page.place[j], ![j] = page.place[i]]
        BY <1>4, <3>2 DEF Sends
      <4>2. page \in [place : [Ids -> Nat], on : SUBSET Ids]
        BY DEF TypeInv, TypeOK
      <4>3. page'.place = place /\ page'.on = page.on
        BY <4>1, <4>2
      <4>4. from = "advanced"
        BY <2>1, <3>2 DEF Askable
      <4> QED
        BY <2>2, <2>3, <3>2, <4>1, <4>3, <4>4 DEF SwappedPage
    <3> QED
      BY <3>1, <3>2
  <2> QED
    BY <2>1, <2>2, <2>3, <2>4, <2>5, <2>6, Zenon
<1>5. ASSUME NEW p \in Pages, Open(c, p)
      PROVE  /\ upset \subseteq upset' /\ (~Quiet => upset' = Pages)
             /\ Harmless(call'[c]) /\ call'[c].from \in Pages /\ call'[c].from \in upset'
             /\ p = "advanced" => "advanced" \in upset'
             /\ call'[c].op = "load" /\ call'[c].place = NoPlace
  BY <1>1, <1>3, <1>5 DEF Outdated, Harmless, Pages
<1>6. ASSUME NEW op, NEW from, NEW id, NEW ask, NEW place,
             Sends(c, op, from, id, ask, place)
      PROVE  /\ upset \subseteq upset' /\ (~Quiet => upset' = Pages)
             /\ ~Harmless(call'[c]) => Pages \ {call'[c].from} \subseteq upset'
             /\ call'[c].op # "load"
             /\ call'[c].op # "order" => call'[c].place = NoPlace
  <2>1. /\ call'[c].op = op /\ call'[c].from = from /\ call'[c].place = place
        /\ call'[c].ask = ask /\ op # "load"
        /\ upset' = upset \cup Outdated(op, from, ask)
        /\ op # "order" => place = NoPlace
    <3>1. Sends(c, op, from, id, ask, place)
      BY <1>6
    <3> HIDE <1>6
    <3> QED
      BY <1>4, <3>1
  <2>2. CASE Quiet
    <3>1. upset' = upset \cup (IF op = "load" \/ (op = "job" /\ ask.enabled # "on") THEN {}
                               ELSE Pages \ {from})
      BY <2>1, <2>2 DEF Outdated
    <3> QED
      BY <2>1, <2>2, <3>1 DEF Harmless
  <2>3. CASE ~Quiet
    <3>1. upset' = upset \cup Pages
      BY <2>1, <2>3 DEF Outdated
    <3> QED
      BY <1>1, <2>1, <3>1
  <2> QED
    BY <2>2, <2>3
<1>7. ASSUME NEW p \in Pages, Open(c, p)
      PROVE  \/ page' = page /\ call'[c].op # "order"
             \/ /\ page' = [place |-> NoPlace, on |-> {}] /\ "advanced" \in upset'
                /\ call'[c].op # "order"
  BY <1>3, <1>5, <1>7
<1>8. CASE \E p \in Pages : Open(c, p)
  BY <1>3, <1>5, <1>7, <1>8, Zenon
<1>9. CASE SendsOne(c)
  BY <1>4, <1>6, <1>9, Zenon DEF SendsOne
<1> QED
  BY <1>8, <1>9, UserSends

-----------------------------------------------------------------------------
(* Ids are given out in turn, and a request that is alone is the only one  *)

\* What a handler can do to the rows: nothing, insert one, or write over some.
LEMMA RowsChange ==
    ASSUME TypeInv, NEW c \in Calls, Worker(c)
    PROVE  \/ UNCHANGED <<rows, made>>
           \/ \E row \in Row : Insert(row)
           \/ made' = made /\ rows' \in Rows /\ Present(rows') \subseteq Present(rows)
<1>1. CASE Migrate(c)
  BY <1>1, MigratedRow
<1>2. CASE InsertCounted(c)
  BY <1>2, CountedRow
<1>3. CASE WriteBasic(c)
  <2>1. CASE Present(call[c].found) # {}
    BY <1>3, <2>1, WrittenKey
  <2>2. CASE Present(call[c].found) = {} /\ call[c].ask.key # "clear"
    BY <1>3, <2>2, BasicRow
  <2>3. CASE Present(call[c].found) = {} /\ call[c].ask.key = "clear"
    BY <1>3, <2>3 DEF WriteBasic
  <2> QED
    BY <2>1, <2>2, <2>3
<1>4. CASE WriteRow(c)
  <2>1. made' = made
    BY <1>4 DEF WriteRow
  <2> QED
    BY <1>4, <2>1, WrittenRow
<1>5. CASE Reorder(c)
  <2>1. made' = made
    BY <1>5 DEF Reorder
  <2> QED
    BY <1>5, <2>1, WrittenOrder
<1>6. CASE DeleteRow(c)
  <2>1. made' = made /\ rows' = [rows EXCEPT ![call[c].id] = None] /\ rows \in Rows
    BY <1>6 DEF DeleteRow, TypeInv, TypeOK, Rows
  <2>2. rows' \in Rows /\ Present(rows') \subseteq Present(rows)
    BY <2>1 DEF Present, Rows
  <2> QED
    BY <2>1, <2>2
<1>7. CASE SelectProviders(c) \/ SelectLegacy(c) \/ CountRows(c) \/ ReadRow(c)
           \/ ReadLegacy(c) \/ WriteLegacy(c) \/ Throw(c)
  BY <1>7 DEF SelectProviders, SelectLegacy, CountRows, ReadRow, ReadLegacy, WriteLegacy,
              Throw
<1>8. CASE Jobs(c)
  BY <1>8 DEF Jobs, UseOneOff, UseSettings, UseFallback
<1> QED
  BY <1>1, <1>2, <1>3, <1>4, <1>5, <1>6, <1>7, <1>8 DEF Worker, Ensure, Providers

LEMMA MadeNext == TypeInv /\ MadeInv /\ [Next]_vars => MadeInv'
<1> SUFFICES ASSUME TypeInv, MadeInv, [Next]_vars PROVE MadeInv'
  OBVIOUS
<1>1. rows \in Rows /\ made \in Nat
  BY BoundsAssumption DEF TypeInv, TypeOK, Rows
<1>2. CASE UNCHANGED <<rows, made>>
  BY <1>2 DEF MadeInv
<1>3. ASSUME NEW row \in Row, Insert(row) PROVE MadeInv'
  <2>1. /\ made + 1 \in Ids /\ made' = made + 1
        /\ \A i \in Ids \ {made + 1} : rows'[i] = rows[i]
    BY <1>3, Inserted
  <2> QED
    BY <1>1, <2>1, BoundsAssumption DEF MadeInv, Ids
<1>4. CASE made' = made /\ rows' \in Rows /\ Present(rows') \subseteq Present(rows)
  BY <1>1, <1>4 DEF MadeInv, Present
<1>5. ASSUME NEW c \in Calls, User(c) PROVE MadeInv'
  BY <1>2, <1>5, UserFrame
<1>6. ASSUME NEW c \in Calls, Worker(c) PROVE MadeInv'
  BY <1>2, <1>3, <1>4, <1>6, RowsChange
<1>7. ASSUME NEW c \in Calls, Receive(c) \/ Fail(c) PROVE MadeInv'
  BY <1>2, <1>7, AnswerFrame
<1>8. CASE UNCHANGED vars
  BY <1>2, <1>8 DEF vars
<1> QED
  BY <1>5, <1>6, <1>7, <1>8 DEF Next

LEMMA AloneNext == TypeInv /\ AloneInv /\ [Next]_vars => AloneInv'
<1> SUFFICES ASSUME TypeInv, AloneInv, [Next]_vars PROVE AloneInv'
  OBVIOUS
<1>1. ASSUME NEW c \in Calls, call[c].pc # "idle",
             \A d \in Calls \ {c} : call'[d] = call[d],
             call'[c].pc # "idle" => call'[c].alone = call[c].alone
      PROVE  AloneInv'
  BY <1>1 DEF AloneInv, Alone, Idle
<1>2. ASSUME NEW c \in Calls, User(c) PROVE AloneInv'
  <2>1. /\ call[c].pc = "idle" /\ call'[c].alone = Quiet
        /\ \A d \in Calls \ {c} : call'[d].pc = call[d].pc /\ call'[d].alone = Idle(d)
    BY <1>2, UserFrame DEF StaysBut
  <2>2. ASSUME NEW d \in Calls \ {c} PROVE ~Alone(d)'
    BY <2>1 DEF Alone, Idle
  <2>3. Alone(c)' => \A d \in Calls \ {c} : Idle(d)'
    BY <2>1 DEF Alone, Idle, Quiet
  <2> QED
    BY <2>2, <2>3 DEF AloneInv
<1>3. ASSUME NEW c \in Calls, Worker(c) PROVE AloneInv'
  BY <1>1, <1>3, WorkerFrame DEF Kept
<1>4. ASSUME NEW c \in Calls, Receive(c) \/ Fail(c) PROVE AloneInv'
  <2>1. /\ call[c].pc # "idle"
        /\ \A d \in Calls \ {c} : call'[d] = call[d]
        /\ call'[c].pc # "idle" => call'[c].alone = call[c].alone
    BY <1>4, AnswerFrame, NoCallOK, ReloadFields
  <2> QED
    BY <1>1, <2>1
<1>5. CASE UNCHANGED vars
  BY <1>5 DEF vars, AloneInv, Alone, Idle
<1> QED
  BY <1>2, <1>3, <1>4, <1>5 DEF Next

-----------------------------------------------------------------------------
(* What a handler that is alone has read is still so                       *)

\* The badge changes only when the basic page is mounted or hears an answer.
LEMMA UserBadge ==
    ASSUME TypeInv, NEW c \in Calls, User(c)
    PROVE  /\ badge' = badge \/ (badge' = FALSE /\ "basic" \in upset')
           /\ call'[c].op = "load" /\ call'[c].from = "basic" => badge' = FALSE
<1>1. ASSUME NEW p \in Pages, Open(c, p)
      PROVE  /\ badge' = badge \/ (badge' = FALSE /\ "basic" \in upset')
             /\ call'[c].op = "load" /\ call'[c].from = "basic" => badge' = FALSE
  <2>1. call'[c].from = p
    <3>1. call'[c] = [NoCall EXCEPT !.op = "load", !.pc = "sent", !.from = p, !.alone = Quiet]
      BY <1>1, OpenCalls, Zenon
    <3> QED
      BY <3>1 DEF NoCall
  <2>2. p \in upset'
    BY <1>1, OpenEffects
  <2>3. CASE p = "advanced"
    <3>1. badge' = badge
      BY <1>1, <2>3, OpenEffects, Zenon
    <3> QED
      BY <2>1, <2>3, <3>1
  <2>4. CASE p = "basic"
    <3>1. badge' = FALSE
      BY <1>1, <2>4, OpenEffects, Zenon
    <3> QED
      BY <2>2, <2>4, <3>1
  <2> QED
    BY <2>3, <2>4 DEF Pages
<1>2. ASSUME NEW op, NEW from, NEW id, NEW ask, NEW place,
             Sends(c, op, from, id, ask, place)
      PROVE  badge' = badge /\ call'[c].op # "load"
  <2>1. /\ op \in Ops /\ from \in Pages \cup {"none"} /\ id \in Ids \cup {None}
        /\ ask \in Ask /\ place \in [Ids -> Nat] /\ Askable(op, from, id, ask)
        /\ Begin(c, op, from, id, ask, place)
    BY <1>2 DEF Sends
  <2>2. badge' = badge
    BY <1>2, Zenon DEF Sends
  <2>3. call'[c] = Sent(op, from, id, ask, place, Quiet)
    BY <2>1, BegunOthers
  <2>4. call'[c].op = op
    <3>1. Quiet \in BOOLEAN
      BY DEF Quiet
    <3> QED
      BY <2>1, <2>3, <3>1, SentFields
  <2> QED
    BY <2>1, <2>2, <2>4 DEF Askable
<1> QED
  BY <1>1, <1>2, UserSends DEF SendsOne

LEMMA WorkerBadge ==
    ASSUME NEW c \in Calls, Worker(c)
    PROVE  badge' = badge
BY Zenon DEF Worker, Ensure, Providers, Jobs, SelectProviders, SelectLegacy, Migrate,
   WriteBasic, CountRows, InsertCounted, ReadRow, WriteRow, DeleteRow, Reorder,
   ReadLegacy, WriteLegacy, UseOneOff, UseSettings, UseFallback, Throw

\* HasKey depends on nothing but the order, the types and the keys.
LEMMA HasKeyOfTarget ==
    ASSUME NEW r \in Rows, Present(r) # {}
    PROVE  HasKey(r) <=> r[Target(r)].key # None
BY DEF HasKey

\* A change of the basic key that is alone leaves the key it is about.
LEMMA BasicLeavesKey ==
    ASSUME TypeInv, MadeInv, NEW c \in Calls, WriteBasic(c), call[c].found = rows,
           ~Migratable
    PROVE  (HasKey(rows') <=> call[c].ask.key # "clear") /\ ~Migratable'
<1>1. /\ rows \in Rows /\ call[c].ask.key \in Keys \cup {"clear"} /\ legacy' = legacy
  BY DEF TypeInv, TypeOK, Rows, Asked, WriteBasic, At
<1>2. CASE Present(rows) # {}
  <2> DEFINE i == Target(rows)
  <2>1. /\ rows' \in Rows /\ Present(rows') = Present(rows)
        /\ \A j \in Present(rows) : /\ rows'[j].priority = rows[j].priority
                                    /\ rows'[j].kind = rows[j].kind
        /\ i \in Present(rows) => rows'[i].key = NewKey(rows[i].key, call[c].ask.key)
    BY <1>2, WrittenKey
  <2>2. i \in Present(rows) /\ Target(rows') = i
    BY <1>1, <1>2, <2>1, TargetIsThere, TargetIsStable
  <2>3. rows'[i].key # None <=> call[c].ask.key # "clear"
    BY <1>1, <2>1, <2>2, CallsAssumption DEF NewKey
  <2>4. HasKey(rows') <=> rows'[i].key # None
    BY <1>2, <2>1, <2>2, HasKeyOfTarget
  <2> QED
    BY <1>2, <2>1, <2>3, <2>4 DEF Migratable
<1>3. CASE Present(rows) = {} /\ call[c].ask.key # "clear"
  <2>1. PICK row \in Row : Insert(row) /\ row.key \in Keys
    BY <1>3, BasicRow
  <2>2. /\ made + 1 \in Ids /\ rows' \in Rows /\ rows'[made + 1] = row
        /\ \A i \in Ids \ {made + 1} : rows'[i] = rows[i]
    BY <2>1, Inserted
  <2>3. Present(rows') = {made + 1}
    BY <1>3, <2>2, NoneAssumption DEF Present
  <2>4. Target(rows') = made + 1
    BY <2>2, <2>3, TargetIsThere
  <2>5. HasKey(rows')
    BY <2>1, <2>2, <2>3, <2>4, HasKeyOfTarget, CallsAssumption
  <2> QED
    BY <1>3, <2>3, <2>5 DEF Migratable
<1>4. CASE Present(rows) = {} /\ call[c].ask.key = "clear"
  <2>1. rows' = rows
    BY <1>4 DEF WriteBasic
  <2> QED
    BY <1>1, <1>4, <2>1 DEF HasKey, Migratable
<1> QED
  BY <1>2, <1>3, <1>4

\* The part of Fresh that a statement which only reads keeps.
LEMMA FreshWorker ==
    ASSUME TypeInv, MadeInv, NEW c \in Calls, Worker(c), Alone(c), Fresh(call[c])
    PROVE  Fresh(call[c])'
<1> DEFINE y == call[c]
           x == call'[c]
<1>1. /\ call \in [Calls -> Call] /\ y \in Call /\ OnCourse(y) /\ Asked(y)
      /\ rows \in Rows /\ legacy \in Legacy
  BY DEF TypeInv, TypeOK, Rows
<1>2. /\ x.op = y.op /\ x.from = y.from /\ x.place = y.place /\ x.ask.key = y.ask.key
      /\ page' = page
  BY WorkerFrame DEF Kept
<1>3. x.op = "load" /\ x.from = "basic" => badge' = FALSE
  <2>1. y.op = "load" /\ y.from = "basic" => badge = FALSE
    BY DEF Fresh
  <2>2. badge' = badge
    BY WorkerBadge
  <2> QED
    BY <1>2, <2>1, <2>2
<1>4. x.op = "order" /\ x.pc = "sent" => FALSE
  <2>1. CASE x.op = "order"
    <3>1. y.op = "order"
      BY <1>2, <2>1
    <3>2. Reorder(c)
      BY <1>1, <3>1 DEF Worker, Ensure, SelectProviders, SelectLegacy, Migrate, WriteBasic,
         Providers, CountRows, InsertCounted, ReadRow, WriteRow, DeleteRow, ReadLegacy,
         WriteLegacy, Jobs, UseOneOff, UseSettings, UseFallback, Throw, At, OnCourse
    <3>3. x.pc = "answered"
      BY <1>1, <3>2 DEF Reorder, Call
    <3> QED
      BY <3>3
  <2> QED
    BY <2>1
\* What is left to show of each statement.
<1> DEFINE Rest ==
      /\ x.pc \in {"empty", "ensured", "counted", "read", "saving"} /\ x.op # "llm" =>
           x.found = rows'
      /\ x.pc \in {"empty", "migrating"} => Present(rows') = {}
      /\ x.pc = "migrating" => x.key = legacy'
      /\ x.pc = "migrated" => Present(rows') # {}
      /\ x.pc = "ensured" => ~Migratable'
      /\ x.op = "llm" /\ x.pc = "read" => x.key = legacy'
      /\ x.op = "job" /\ x.pc \in {"saving", "counted"} =>
           /\ Present(rows') # {}
           /\ x.ask.kind = rows'[First(rows', Present(rows'))].kind
      /\ x.op \in {"load", "list"} /\ x.pc = "answered" => x.found = rows' /\ ~Migratable'
      /\ x.op = "basic" /\ x.pc = "answered" =>
           (HasKey(rows') <=> x.ask.key # "clear") /\ ~Migratable'
      /\ x.op = "job" /\ x.pc = "answered" /\ x.ask.key = "keep" =>
           /\ chain'.mode = IF Enabled(rows') = {} THEN "free_fallback" ELSE "user_settings"
           /\ chain'.place = Places(rows', Enabled(rows'))
<1>5. CASE SelectProviders(c)
  <2>1. /\ rows' = rows /\ legacy' = legacy
        /\ y.op \in {"load", "list", "basic", "job"} /\ y.pc \in {"sent", "migrated"}
        /\ x.found = rows
        /\ x.pc = IF Present(rows) = {} /\ y.pc = "sent" THEN "empty" ELSE AfterEnsure(c)
    BY <1>1, <1>5 DEF SelectProviders, Call
  <2>2. /\ y.op \in {"load", "list"} => AfterEnsure(c) = "answered"
        /\ y.op \in {"basic", "job"} => AfterEnsure(c) = "ensured"
    BY AfterEnsureIs
  <2>3. y.pc = "migrated" => Present(rows) # {}
    BY DEF Fresh
  <2>4. x.pc \in {"answered", "ensured"} => ~Migratable'
    BY <2>1, <2>2, <2>3 DEF Migratable
  <2>5. /\ x.pc \in {"empty", "answered", "ensured"}
        /\ x.pc = "empty" => Present(rows) = {}
        /\ x.op \in {"basic", "job"} => x.pc # "answered"
    BY <1>2, <2>1, <2>2
  <2> HIDE DEF x, y
  <2>6. Rest
    BY <2>1, <2>4, <2>5
  <2> QED
    BY <1>3, <1>4, <2>6 DEF Fresh, x
<1>6. CASE SelectLegacy(c)
  <2>1. rows' = rows /\ legacy' = legacy /\ y.pc = "empty" /\ Present(rows) = {}
    BY <1>6 DEF SelectLegacy, Fresh
  <2>2. /\ y.op \in {"load", "list"} => AfterEnsure(c) = "answered"
        /\ y.op \in {"basic", "job"} => AfterEnsure(c) = "ensured"
        /\ y.op \in {"load", "list", "basic", "job"}
    BY <1>1, <2>1, AfterEnsureIs DEF OnCourse, Call, Ops
  <2>3. y.found = rows
    BY <2>1, <2>2 DEF Fresh
  <2>4. CASE legacy \in {"none", "bare"}
    <3>1. x.pc = AfterEnsure(c) /\ x.found = y.found
      BY <1>1, <1>6, <2>4 DEF SelectLegacy, Call
    <3>2. ~Migratable'
      BY <2>1, <2>4 DEF Migratable
    <3> HIDE DEF x, y
    <3>3. Rest
      BY <1>2, <2>1, <2>2, <2>3, <3>1, <3>2
    <3> QED
      BY <1>3, <1>4, <3>3 DEF Fresh, x
  <2>5. CASE legacy \notin {"none", "bare"}
    <3>1. x.pc = "migrating" /\ x.key = legacy
      BY <1>1, <1>6, <2>5 DEF SelectLegacy, Call
    <3> HIDE DEF x, y
    <3>2. Rest
      BY <2>1, <3>1
    <3> QED
      BY <1>3, <1>4, <3>2 DEF Fresh, x
  <2> QED
    BY <2>4, <2>5
<1>7. CASE Migrate(c)
  <2>1. x.pc = "migrated"
    BY <1>1, <1>7 DEF Migrate, Call
  <2>2. PICK row \in Row : Insert(row)
    BY <1>7, MigratedRow
  <2>3. made + 1 \in Present(rows')
    BY <2>2, Inserted, RowsThere
  <2> HIDE DEF x, y
  <2>4. Rest
    BY <2>1, <2>3
  <2> QED
    BY <1>3, <1>4, <2>4 DEF Fresh, x
<1>8. CASE WriteBasic(c)
  <2>1. x.pc = "answered" /\ y.op = "basic" /\ y.pc = "ensured"
    BY <1>1, <1>8 DEF WriteBasic, At, Call
  <2>2. y.found = rows /\ ~Migratable
    BY <2>1 DEF Fresh
  <2>3. (HasKey(rows') <=> y.ask.key # "clear") /\ ~Migratable'
    BY <1>8, <2>2, BasicLeavesKey
  <2> HIDE DEF x, y
  <2>4. Rest
    BY <1>2, <2>1, <2>3
  <2> QED
    BY <1>3, <1>4, <2>4 DEF Fresh, x
<1>9. CASE CountRows(c) \/ ReadRow(c)
  <2>1. /\ x.found = rows' /\ rows' = rows /\ x.pc \in {"counted", "read", "refused"}
        /\ x.ask = y.ask
        /\ y.op = "edit" \/ (y.op = "add" /\ x.pc = "counted") \/ y.pc = "saving"
    BY <1>1, <1>9 DEF CountRows, ReadRow, At, Call
  <2>2. y.pc = "saving" =>
          /\ y.op = "job" /\ Present(rows) # {}
          /\ y.ask.kind = rows[First(rows, Present(rows))].kind
    BY <1>1 DEF Fresh, OnCourse, Call, Ops
  <2> HIDE DEF x, y
  <2>3. Rest
    BY <1>2, <2>1, <2>2
  <2> QED
    BY <1>3, <1>4, <2>3 DEF Fresh, x
<1>10. CASE InsertCounted(c)
  <2>1. x.pc = "answered" /\ y.pc = "counted"
    BY <1>1, <1>10 DEF InsertCounted, Call
  <2>2. y.op = "add" \/ (y.op = "job" /\ y.ask.key # "keep")
    BY <1>1, <2>1 DEF OnCourse, Asked, Call, Ops
  <2> HIDE DEF x, y
  <2>3. Rest
    BY <1>2, <2>1, <2>2
  <2> QED
    BY <1>3, <1>4, <2>3 DEF Fresh, x
<1>11. CASE WriteRow(c) \/ DeleteRow(c) \/ Reorder(c) \/ ReadLegacy(c) \/ WriteLegacy(c)
  <2>1. y.op \in {"edit", "delete", "order", "llm"}
    BY <1>11 DEF WriteRow, DeleteRow, Reorder, ReadLegacy, WriteLegacy, At
  <2>2. x.pc = "answered" \/ (x.op = "llm" /\ x.pc = "read" /\ x.key = legacy')
    BY <1>1, <1>2, <1>11 DEF WriteRow, DeleteRow, Reorder, ReadLegacy, WriteLegacy, At, Call
  <2> HIDE DEF x, y
  <2>3. Rest
    BY <1>2, <2>1, <2>2
  <2> QED
    BY <1>3, <1>4, <2>3 DEF Fresh, x
<1>12. CASE UseOneOff(c)
  <2>1. rows' = rows /\ y.op = "job" /\ y.pc = "ensured" /\ y.ask.key # "keep"
    BY <1>12, CallsAssumption DEF UseOneOff, At
  <2>2. x.pc \in {"refused", "saving", "answered"} /\ x.found = y.found
    BY <1>1, <1>12 DEF UseOneOff, Call
  <2>3. y.found = rows
    BY <2>1 DEF Fresh
  <2>4. x.pc = "saving" => /\ Present(rows) # {}
                           /\ x.ask.kind = rows[First(rows, Present(rows))].kind
    <3>1. y.ask \in Ask
      BY <1>1 DEF Call
    <3>2. CASE Present(rows) # {}
      BY <1>1, <1>12, <2>3, <3>1, <3>2 DEF UseOneOff, Call, Ask
    <3>3. CASE Present(rows) = {}
      BY <1>1, <1>12, <2>3, <3>3 DEF UseOneOff, Call
    <3> QED
      BY <3>2, <3>3
  <2> HIDE DEF x, y
  <2>5. Rest
    BY <1>2, <2>1, <2>2, <2>3, <2>4
  <2> QED
    BY <1>3, <1>4, <2>5 DEF Fresh, x
<1>13. CASE UseSettings(c)
  <2>1. rows' = rows /\ y.op = "job" /\ y.pc = "ensured" /\ x.pc = "answered"
    BY <1>1, <1>13 DEF UseSettings, At, Call
  <2>2. y.found = rows
    BY <2>1 DEF Fresh
  <2>3. /\ Enabled(rows) # {} /\ chain'.mode = "user_settings"
        /\ chain'.place = Places(rows, Enabled(rows))
    BY <1>13, <2>2 DEF UseSettings
  <2> HIDE DEF x, y
  <2>4. Rest
    BY <1>2, <2>1, <2>3
  <2> QED
    BY <1>3, <1>4, <2>4 DEF Fresh, x
<1>14. ASSUME NEW f \in Configs, UseFallback(c, f) PROVE Fresh(call[c])'
  <2>1. /\ rows' = rows /\ y.op = "job" /\ y.pc = "ensured"
        /\ x.pc \in {"answered", "refused"} /\ Enabled(y.found) = {}
        /\ x.pc = "answered" => chain'.mode = "free_fallback" /\ chain'.place = NoPlace
    BY <1>1, <1>14 DEF UseFallback, At, Call
  <2>2. y.found = rows
    BY <2>1 DEF Fresh
  <2>3. Places(rows, {}) = NoPlace
    BY DEF Places, NoPlace
  <2> HIDE DEF x, y
  <2>4. Rest
    BY <1>2, <2>1, <2>2, <2>3
  <2> QED
    BY <1>3, <1>4, <2>4 DEF Fresh, x
<1>15. CASE Throw(c)
  <2>1. \/ x.pc = "refused"
        \/ x.pc = "answered" /\ y.op = "job" /\ y.pc \in {"saving", "counted"}
    BY <1>1, <1>15 DEF Throw, Call
  <2>2. x.pc = "answered" => y.op = "job" /\ y.ask.key # "keep"
    BY <1>1, <2>1 DEF Asked
  <2> HIDE DEF x, y
  <2>3. Rest
    BY <1>2, <2>1, <2>2
  <2> QED
    BY <1>3, <1>4, <2>3 DEF Fresh, x
<1> QED
  BY <1>5, <1>6, <1>7, <1>8, <1>9, <1>10, <1>11, <1>12, <1>13, <1>14, <1>15
  DEF Worker, Ensure, Providers, Jobs

LEMMA FreshNext == TypeInv /\ MadeInv /\ AloneInv /\ FreshInv /\ [Next]_vars => FreshInv'
<1> SUFFICES ASSUME TypeInv, MadeInv, AloneInv, FreshInv, [Next]_vars,
                    NEW d \in Calls, Alone(d)'
             PROVE  Fresh(call[d])'
  BY DEF FreshInv
<1>1. ASSUME NEW c \in Calls, call[c].pc # "idle", d # c, call'[d] = call[d]
      PROVE  FALSE
  BY <1>1 DEF AloneInv, Alone, Idle
<1>2. ASSUME NEW c \in Calls, User(c) PROVE Fresh(call[d])'
  <2>1. /\ call'[c].pc = "sent"
        /\ \A e \in Calls \ {c} : call'[e].pc = call[e].pc /\ call'[e].alone = Idle(e)
        /\ call'[c].op = "order" => call'[c].place = page'.place
    BY <1>2, UserFrame DEF StaysBut, SwappedPage
  <2>2. d = c
    BY <2>1 DEF Alone, Idle
  <2>3. call'[c].op = "load" /\ call'[c].from = "basic" => badge' = FALSE
    BY <1>2, UserBadge
  <2> QED
    BY <2>1, <2>2, <2>3 DEF Fresh
<1>3. ASSUME NEW c \in Calls, Worker(c) PROVE Fresh(call[d])'
  <2>1. /\ call[c].pc # "idle" /\ call'[c].alone = call[c].alone
        /\ \A e \in Calls \ {c} : call'[e] = call[e]
    BY <1>3, WorkerFrame DEF Kept
  <2>2. d = c
    BY <1>1, <2>1
  <2>3. Alone(c) /\ Fresh(call[c])
    BY <2>1, <2>2 DEF Alone, Idle, FreshInv
  <2> QED
    BY <1>3, <2>2, <2>3, FreshWorker
<1>4. ASSUME NEW c \in Calls, Receive(c) \/ Fail(c) PROVE Fresh(call[d])'
  <2>1. /\ call[c].pc # "idle"
        /\ \A e \in Calls \ {c} : call'[e] = call[e]
        /\ call'[c] = NoCall \/ call'[c] = Reload(c)
    BY <1>4, AnswerFrame
  <2>2. d = c
    BY <1>1, <2>1
  <2>3. call'[c].op = "list" /\ call'[c].pc = "sent"
    BY <2>1, <2>2, NoCallOK, ReloadFields DEF Alone, Idle
  <2> QED
    BY <2>2, <2>3 DEF Fresh
<1>5. CASE UNCHANGED vars
  <2>1. Alone(d) /\ call' = call
    BY <1>5 DEF Alone, Idle, vars
  <2>2. Fresh(call[d])
    BY <2>1 DEF FreshInv
  <2>3. /\ rows' = rows /\ legacy' = legacy /\ page' = page /\ chain' = chain
    BY <1>5 DEF vars
  <2>4. badge' = badge
    BY <1>5, Zenon DEF vars
  <2> QED
    BY <2>1, <2>2, <2>3, <2>4 DEF Fresh, Migratable
<1> QED
  BY <1>2, <1>3, <1>4, <1>5 DEF Next

LEMMA PlanNext == PlanInv /\ [Next]_vars => PlanInv'
<1> SUFFICES ASSUME PlanInv, [Next]_vars PROVE PlanInv'
  OBVIOUS
<1>1. CASE chain' = chain
  BY <1>1 DEF PlanInv
<1>2. CASE chain'.mode # "free_fallback"
  BY <1>2 DEF PlanInv
<1>3. ASSUME NEW c \in Calls, NEW f \in Configs, UseFallback(c, f) PROVE PlanInv'
  <2>1. CASE Usable(f)
    <3> DEFINE n == IF f.source = "siliconflow_free" THEN 0 ELSE f.keys
    <3>1. n \in Nat
      BY ConfigsAssumption DEF Config
    <3>2. chain'.plan = Append(ServerKeys(f), 0)
      BY <1>3, <2>1 DEF UseFallback, Plan
    <3>3. ServerKeys(f) = [m \in 1..n |-> m]
      BY DEF ServerKeys
    <3> HIDE DEF n
    <3>4. ServerKeys(f) \in Seq(Nat) /\ Len(ServerKeys(f)) = n
      BY <3>1, <3>3
    <3>5. chain'.plan = [m \in 1..(n + 1) |-> IF m = n + 1 THEN 0 ELSE m]
      BY <3>1, <3>2, <3>3, <3>4
    <3>6. Len(chain'.plan) = n + 1
      BY <3>1, <3>2, <3>4
    <3> QED
      BY <3>5, <3>6 DEF PlanInv
  <2>2. CASE ~Usable(f)
    BY <1>1, <1>3, <2>2 DEF UseFallback
  <2> QED
    BY <2>1, <2>2
<1>4. NoChain.mode # "free_fallback"
  BY DEF NoChain
<1>5. ASSUME NEW c \in Calls, Jobs(c) PROVE PlanInv'
  <2>1. CASE UseOneOff(c)
    BY <1>1, <1>2, <2>1 DEF UseOneOff, NoChain
  <2>2. CASE UseSettings(c)
    BY <1>2, <2>2 DEF UseSettings
  <2> QED
    BY <1>3, <1>5, <2>1, <2>2 DEF Jobs
<1>6. ASSUME NEW c \in Calls, Worker(c), ~Jobs(c) PROVE chain' = chain
  BY <1>6 DEF Worker, Ensure, Providers, SelectProviders, SelectLegacy, Migrate, WriteBasic,
     CountRows, InsertCounted, ReadRow, WriteRow, DeleteRow, Reorder, ReadLegacy,
     WriteLegacy, Throw
<1>7. ASSUME NEW c \in Calls, User(c) PROVE chain' = chain
  BY <1>7, Zenon DEF User, Open, SaveNew, SaveEdit, Toggle, Delete, ClearKey, Move,
     SaveBasic, SaveLegacy, SubmitJob
<1>8. ASSUME NEW c \in Calls, Receive(c) \/ Fail(c)
      PROVE  chain' = chain \/ chain' = NoChain
  BY <1>8 DEF Receive, ReceiveList, ReceiveBasic, ReceiveChange, ReceiveOther, Fail
<1>9. CASE UNCHANGED vars
  BY <1>1, <1>9 DEF vars
<1> QED
  BY <1>1, <1>2, <1>4, <1>5, <1>6, <1>7, <1>8, <1>9 DEF Next

-----------------------------------------------------------------------------
(* Places and priorities                                                   *)

LEMMA NumbersRate ==
    ASSUME NEW S \in SUBSET Ids, NEW place, Numbers(place, S)
    PROVE  Rated(place) = S /\ Numbers(place, Rated(place))
<1>1. Rated(place) = S
  BY DEF Numbers, Rated
<1> QED
  BY <1>1

LEMMA NoPlaceNumbers ==
    /\ Rated(NoPlace) = {} /\ Numbers(NoPlace, Rated(NoPlace))
    /\ Present(NoRows) = {}
<1>1. Numbers(NoPlace, {})
  BY DEF Numbers, NoPlace
<1>2. Present(NoRows) = {}
  BY DEF Present, NoRows
<1> QED
  BY <1>1, <1>2, NumbersRate

\* The list numbers the rows that are there.
LEMMA ListNumbers ==
    ASSUME NEW r \in Rows
    PROVE  LET place == Places(r, Present(r)) IN
           Numbers(place, Present(r)) /\ Rated(place) = Present(r)
<1>1. Present(r) \in SUBSET Ids
  BY DEF Present
<1>2. Numbers(Places(r, Present(r)), Present(r))
  BY PlacesNumber
<1> QED
  BY <1>1, <1>2, NumbersRate

\* A page whose list is swapped lists the same rows.
LEMMA SwapNumbers ==
    ASSUME TypeInv, NEW c \in Calls, SwappedPage(c), NEW S \in SUBSET Ids,
           Numbers(page.place, S)
    PROVE  Numbers(call'[c].place, S) /\ page'.place = call'[c].place
<1>1. PICK i \in Listed, j \in Listed :
         /\ page.place[i] = page.place[j] + 1
         /\ call'[c].place = [page.place EXCEPT ![i] = page.place[j], ![j] = page.place[i]]
  BY DEF SwappedPage
<1>2. i \in S /\ j \in S
  BY DEF Listed, Numbers
<1> QED
  BY <1>1, <1>2, NumbersSwap DEF SwappedPage

\* What an answer makes of the advanced page.
LEMMA ReceivedPage ==
    ASSUME TypeInv, NEW c \in Calls, Receive(c) \/ Fail(c)
    PROVE  \/ page' = page
           \/ /\ call[c].found \in Rows
              /\ page'.place = Places(call[c].found, Present(call[c].found))
<1>1. call[c].found \in Rows
  BY DEF TypeInv, TypeOK, Rows, Call
<1>2. CASE ReceiveList(c)
  BY <1>1, <1>2 DEF ReceiveList
<1>3. CASE ReceiveBasic(c) \/ ReceiveChange(c) \/ ReceiveOther(c) \/ Fail(c)
  BY <1>3 DEF ReceiveBasic, ReceiveChange, ReceiveOther, Fail
<1> QED
  BY <1>2, <1>3 DEF Receive

LEMMA PlaceNext == TypeInv /\ PlaceInv /\ [Next]_vars => PlaceInv'
<1> SUFFICES ASSUME TypeInv, PlaceInv, [Next]_vars PROVE PlaceInv'
  OBVIOUS
<1> DEFINE OK(place) == Numbers(place, Rated(place))
<1>1. OK(page.place) /\ (\A d \in Calls : OK(call[d].place)) /\ OK(NoPlace)
  BY NoPlaceNumbers DEF PlaceInv
<1>2. PlaceInv' <=> OK(page'.place) /\ \A d \in Calls : OK(call'[d].place)
  BY DEF PlaceInv, Numbers, Rated
<1>3. Rated(page.place) \in SUBSET Ids
  BY DEF Rated
<1> HIDE DEF OK
<1>4. ASSUME NEW c \in Calls, User(c) PROVE PlaceInv'
  <2>1. /\ \A d \in Calls \ {c} : call'[d].place = call[d].place
        /\ call'[c].op # "order" => call'[c].place = NoPlace
        /\ \/ page' = page /\ call'[c].op # "order"
           \/ page' = [place |-> NoPlace, on |-> {}] /\ call'[c].op # "order"
           \/ SwappedPage(c)
    BY <1>4, UserFrame DEF StaysBut
  <2>2. CASE SwappedPage(c)
    <3>1. Numbers(call'[c].place, Rated(page.place)) /\ page'.place = call'[c].place
      BY <1>1, <1>3, <2>2, SwapNumbers DEF OK
    <3>2. OK(call'[c].place)
      BY <1>3, <3>1, NumbersRate DEF OK
    <3> QED
      BY <1>1, <1>2, <2>1, <3>1, <3>2
  <2>3. CASE call'[c].op # "order"
    <3>1. page'.place = page.place \/ page'.place = NoPlace \/ SwappedPage(c)
      BY <2>1
    <3> QED
      BY <1>1, <1>2, <2>1, <2>2, <2>3, <3>1
  <2> QED
    BY <2>1, <2>2, <2>3
<1>5. ASSUME NEW c \in Calls, Worker(c) PROVE PlaceInv'
  <2>1. page' = page /\ \A d \in Calls : call'[d].place = call[d].place
    BY <1>5, WorkerFrame DEF Kept
  <2> QED
    BY <1>1, <1>2, <2>1
<1>6. ASSUME NEW c \in Calls, Receive(c) \/ Fail(c) PROVE PlaceInv'
  <2>1. /\ \A d \in Calls \ {c} : call'[d] = call[d]
        /\ call'[c] = NoCall \/ call'[c] = Reload(c)
    BY <1>6, AnswerFrame
  <2>2. call'[c].place = NoPlace
    BY <2>1, ReloadFields DEF NoCall
  <2>3. OK(page'.place)
    <3>1. ASSUME NEW r \in Rows PROVE OK(Places(r, Present(r)))
      BY ListNumbers DEF OK
    <3> QED
      BY <1>1, <1>6, <3>1, ReceivedPage
  <2> QED
    BY <1>1, <1>2, <2>1, <2>2, <2>3
<1>7. CASE UNCHANGED vars
  BY <1>1, <1>2, <1>7 DEF vars
<1> QED
  BY <1>4, <1>5, <1>6, <1>7 DEF Next

LEMMA UserGap ==
    ASSUME NEW c \in Calls, User(c) \/ Receive(c) \/ Fail(c)
    PROVE  gap' = gap
BY Zenon DEF User, Open, SaveNew, SaveEdit, Toggle, Delete, ClearKey, Move, SaveBasic,
   SaveLegacy, SubmitJob, Receive, ReceiveList, ReceiveBasic, ReceiveChange, ReceiveOther,
   Fail

LEMMA WorkerGap ==
    ASSUME NEW c \in Calls, Worker(c), ~DeleteRow(c), ~Reorder(c)
    PROVE  gap' = gap
BY Zenon DEF Worker, Ensure, Providers, Jobs, SelectProviders, SelectLegacy, Migrate,
   WriteBasic, CountRows, InsertCounted, ReadRow, WriteRow, ReadLegacy, WriteLegacy,
   UseOneOff, UseSettings, UseFallback, Throw

\* An insert adds one row.
LEMMA InsertedPresent ==
    ASSUME TypeInv, MadeInv, NEW row \in Row, Insert(row)
    PROVE  /\ made + 1 \in Ids /\ made + 1 \notin Present(rows)
           /\ Present(rows') = Present(rows) \cup {made + 1}
           /\ Cardinality(Present(rows)) \in Nat
           /\ Cardinality(Present(rows')) = Cardinality(Present(rows)) + 1
<1>1. /\ made + 1 \in Ids /\ made \in Nat /\ rows'[made + 1] = row
      /\ \A i \in Ids \ {made + 1} : rows'[i] = rows[i]
  BY Inserted, BoundsAssumption DEF TypeInv, TypeOK
<1>2. made + 1 \notin Present(rows)
  BY <1>1 DEF MadeInv, Present
<1>3. Present(rows') = Present(rows) \cup {made + 1}
  BY <1>1, NoneAssumption DEF Present
<1>4. IsFiniteSet(Present(rows)) /\ Cardinality(Present(rows)) \in Nat
  <2>1. Present(rows) \in SUBSET Ids
    BY DEF Present
  <2> QED
    BY <2>1, IdsAreFinite
<1> QED
  BY <1>1, <1>2, <1>3, <1>4, FS_AddElement

\* It keeps the ratings if it is not rated beyond the end.
LEMMA InsertedRatings ==
    ASSUME TypeInv, MadeInv, NEW row \in Row, Insert(row), Ratings(rows),
           row.priority <= Cardinality(Present(rows)) + 1
    PROVE  Ratings(rows') /\ Present(rows) \subseteq Present(rows')
<1>1. /\ made + 1 \in Ids /\ rows'[made + 1] = row
      /\ \A i \in Ids \ {made + 1} : rows'[i] = rows[i]
  BY Inserted
<1>2. /\ Present(rows') = Present(rows) \cup {made + 1}
      /\ made + 1 \notin Present(rows)
      /\ Cardinality(Present(rows)) \in Nat
      /\ Cardinality(Present(rows')) = Cardinality(Present(rows)) + 1
  BY InsertedPresent
<1>3. \A i \in Present(rows) : rows'[i] = rows[i] /\ rows[i].priority \in Nat
  <2>1. rows \in Rows
    BY DEF TypeInv, TypeOK, Rows
  <2> QED
    BY <1>1, <1>2, <2>1, RowsThere
<1> QED
  BY <1>1, <1>2, <1>3 DEF Ratings

\* The handlers and their pages know of no more rows than there are.
LEMMA WorkerKnows ==
    ASSUME TypeInv, NEW c \in Calls, Worker(c), Known(Present(rows)),
           Present(rows) \subseteq Present(rows')
    PROVE  Known(Present(rows))'
<1>1. /\ page' = page /\ \A d \in Calls : call'[d].place = call[d].place
      /\ call'[c].found \in {call[c].found, rows}
      /\ \A d \in Calls \ {c} : call'[d].found = call[d].found
  BY WorkerFrame DEF Kept
<1>2. ASSUME NEW d \in Calls
      PROVE  Rated(call'[d].place) \subseteq Present(rows')
             /\ Present(call'[d].found) \subseteq Present(rows')
  <2>1. Rated(call[d].place) \subseteq Present(rows)
        /\ Present(call[d].found) \subseteq Present(rows)
    BY DEF Known
  <2>2. call'[d].place = call[d].place /\ call'[d].found \in {call[d].found, rows}
    BY <1>1
  <2> QED
    BY <2>1, <2>2
<1>3. Rated(page'.place) \subseteq Present(rows')
  BY <1>1 DEF Known
<1>4. Known(Present(rows))' <=>
        /\ Rated(page'.place) \subseteq Present(rows')
        /\ \A d \in Calls : /\ Rated(call'[d].place) \subseteq Present(rows')
                            /\ Present(call'[d].found) \subseteq Present(rows')
  BY DEF Known, Rated, Present
<1> QED
  BY <1>2, <1>3, <1>4

\* No handler but the one that deletes leaves a row rated beyond the end.
LEMMA WorkerRatings ==
    ASSUME TypeInv, MadeInv, NEW c \in Calls, Worker(c), ~DeleteRow(c), ~Reorder(c),
           Ratings(rows), Known(Present(rows))
    PROVE  Ratings(rows') /\ Present(rows) \subseteq Present(rows')
<1>1. rows \in Rows /\ call[c].found \in Rows
  BY DEF TypeInv, TypeOK, Rows, Call
<1>2. Present(rows) \in SUBSET Ids /\ Present(call[c].found) \in SUBSET Present(rows)
  BY DEF Present, Known
<1>3. /\ Cardinality(Present(rows)) \in Nat /\ Cardinality(Present(call[c].found)) \in Nat
      /\ Cardinality(Present(call[c].found)) <= Cardinality(Present(rows))
  <2>1. IsFiniteSet(Present(rows)) /\ Cardinality(Present(rows)) \in Nat
    BY <1>2, IdsAreFinite
  <2>2. Cardinality(Present(call[c].found)) \in Nat
    BY <1>2, IdsAreFinite
  <2> QED
    BY <1>2, <2>1, <2>2, FS_Subset
<1>4. CASE Migrate(c)
  <2>1. PICK row \in Row : Insert(row) /\ row.priority = 1
    BY <1>4, MigratedRow
  <2> QED
    BY <1>3, <2>1, InsertedRatings
<1>5. CASE InsertCounted(c)
  <2>1. PICK row \in Row : Insert(row)
                           /\ row.priority = Cardinality(Present(call[c].found)) + 1
    BY <1>5, CountedRow
  <2> QED
    BY <1>3, <2>1, InsertedRatings
<1>6. ASSUME Present(rows') = Present(rows),
             \A j \in Present(rows) : rows'[j].priority = rows[j].priority
      PROVE  Ratings(rows') /\ Present(rows) \subseteq Present(rows')
  BY <1>6 DEF Ratings
<1>7. CASE WriteBasic(c)
  <2>1. CASE Present(call[c].found) # {}
    BY <1>6, <1>7, <2>1, WrittenKey
  <2>2. CASE Present(call[c].found) = {} /\ call[c].ask.key # "clear"
    <3>1. PICK row \in Row : Insert(row) /\ row.priority = 1
      BY <1>7, <2>2, BasicRow
    <3> QED
      BY <1>3, <3>1, InsertedRatings
  <2>3. CASE Present(call[c].found) = {} /\ call[c].ask.key = "clear"
    BY <1>7, <2>3 DEF WriteBasic
  <2> QED
    BY <2>1, <2>2, <2>3
<1>8. CASE WriteRow(c)
  BY <1>6, <1>8, WrittenRow
<1>9. CASE SelectProviders(c) \/ SelectLegacy(c) \/ CountRows(c) \/ ReadRow(c)
           \/ ReadLegacy(c) \/ WriteLegacy(c) \/ Throw(c)
  BY <1>9 DEF SelectProviders, SelectLegacy, CountRows, ReadRow, ReadLegacy, WriteLegacy,
              Throw
<1>10. CASE Jobs(c)
  BY <1>10 DEF Jobs, UseOneOff, UseSettings, UseFallback
<1> QED
  BY <1>4, <1>5, <1>7, <1>8, <1>9, <1>10 DEF Worker, Ensure, Providers

\* A full order rates every row at its place.
LEMMA OrderRatings ==
    ASSUME TypeInv, PlaceInv, NEW c \in Calls, Reorder(c),
           Rated(call[c].place) \subseteq Present(rows),
           Ratings(rows) \/ Rated(call[c].place) = Present(rows)
    PROVE  Ratings(rows') /\ Present(rows') = Present(rows)
<1> DEFINE place == call[c].place
           S == Rated(place)
<1>1. /\ Present(rows') = Present(rows)
      /\ \A j \in Present(rows) :
           rows'[j].priority = IF place[j] = 0 THEN rows[j].priority ELSE place[j]
  BY WrittenOrder
<1>2. S \in SUBSET Ids /\ Numbers(place, S) /\ Present(rows) \in SUBSET Ids
  BY DEF PlaceInv, Rated, Present
<1>3. /\ Cardinality(Present(rows)) \in Nat /\ Cardinality(S) \in Nat
      /\ Cardinality(S) <= Cardinality(Present(rows))
  <2>1. IsFiniteSet(Present(rows)) /\ Cardinality(Present(rows)) \in Nat
        /\ Cardinality(S) \in Nat
    BY <1>2, IdsAreFinite
  <2> QED
    BY <2>1, FS_Subset
<1>4. ASSUME NEW j \in Present(rows)
      PROVE  rows'[j].priority <= Cardinality(Present(rows))
  <2>1. CASE place[j] = 0
    <3>1. j \notin S
      BY <2>1 DEF Rated
    <3>2. Ratings(rows)
      BY <3>1
    <3> QED
      BY <1>1, <2>1, <3>2 DEF Ratings
  <2>2. CASE place[j] # 0
    <3>1. j \in S
      BY <1>2, <2>2 DEF Rated
    <3>2. place[j] \in 1..Cardinality(S)
      BY <1>2, <3>1, NumbersBound
    <3> QED
      BY <1>1, <1>3, <2>2, <3>2
  <2> QED
    BY <2>1, <2>2
<1> QED
  BY <1>1, <1>4 DEF Ratings

\* An order that was alone is what the page lists, and nobody else knows of rows.
LEMMA OrderKnows ==
    ASSUME TypeInv, AloneInv, FreshInv, NEW c \in Calls, Reorder(c), call[c].alone,
           Rated(call[c].place) = Present(rows)
    PROVE  Known(Present(rows))
<1>1. call[c].op = "order" /\ call[c].pc = "sent" /\ Alone(c)
  BY DEF Reorder, At, Alone, Idle
<1>2. page.place = call[c].place
  BY <1>1 DEF FreshInv, Fresh
<1>3. call[c].found = NoRows
  BY <1>1 DEF TypeInv, Asked
<1>4. ASSUME NEW d \in Calls \ {c} PROVE call[d].place = NoPlace /\ call[d].found = NoRows
  <2>1. call[d] = NoCall
    BY <1>1 DEF AloneInv, Idle, TypeInv, OnCourse
  <2> QED
    BY <2>1 DEF NoCall
<1>5. Rated(NoPlace) = {} /\ Present(NoRows) = {}
  BY NoPlaceNumbers
<1>6. ASSUME NEW d \in Calls
      PROVE  Rated(call[d].place) \subseteq Present(rows)
             /\ Present(call[d].found) \subseteq Present(rows)
  <2>1. CASE d = c
    BY <1>3, <1>5, <2>1
  <2>2. CASE d # c
    BY <1>4, <1>5, <2>2
  <2> QED
    BY <2>1, <2>2
<1> QED
  BY <1>2, <1>6 DEF Known

\* A request that begins knows of no rows but those of the page.
LEMMA UserKnows ==
    ASSUME TypeInv, PlaceInv, NEW c \in Calls, User(c), Known(Present(rows))
    PROVE  Known(Present(rows))'
<1> DEFINE S == Present(rows)
<1>1. /\ rows' = rows /\ call'[c].found = NoRows
      /\ \A d \in Calls \ {c} : /\ call'[d].place = call[d].place
                                /\ call'[d].found = call[d].found
      /\ call'[c].op # "order" => call'[c].place = NoPlace
      /\ \/ page' = page /\ call'[c].op # "order"
         \/ page' = [place |-> NoPlace, on |-> {}] /\ call'[c].op # "order"
         \/ SwappedPage(c)
  BY UserFrame DEF StaysBut
<1>2. Rated(NoPlace) = {} /\ Present(NoRows) = {}
  BY NoPlaceNumbers
<1>3. Rated(page'.place) \subseteq S /\ Rated(call'[c].place) \subseteq S
  <2>1. Rated(page.place) \subseteq S
    BY DEF Known
  <2>2. CASE SwappedPage(c)
    <3>1. Numbers(page.place, Rated(page.place)) /\ Rated(page.place) \in SUBSET Ids
      BY DEF PlaceInv, Rated
    <3>2. Numbers(call'[c].place, Rated(page.place)) /\ page'.place = call'[c].place
      BY <2>2, <3>1, SwapNumbers
    <3>3. Rated(call'[c].place) = Rated(page.place)
      BY <3>1, <3>2, NumbersRate
    <3> QED
      BY <2>1, <3>2, <3>3
  <2>3. CASE call'[c].op # "order"
    <3>1. page'.place \in {page.place, NoPlace} \/ SwappedPage(c)
      BY <1>1
    <3> QED
      BY <1>1, <1>2, <2>1, <2>2, <2>3, <3>1
  <2> QED
    BY <1>1, <2>2, <2>3
<1>4. ASSUME NEW d \in Calls
      PROVE  Rated(call'[d].place) \subseteq S /\ Present(call'[d].found) \subseteq S
  <2>1. CASE d = c
    BY <1>1, <1>2, <1>3, <2>1
  <2>2. CASE d # c
    BY <1>1, <2>2 DEF Known
  <2> QED
    BY <2>1, <2>2
<1> QED
  BY <1>1, <1>3, <1>4 DEF Known

\* An answer shows no more rows than its handler has read.
LEMMA AnswerKnows ==
    ASSUME TypeInv, NEW c \in Calls, Receive(c) \/ Fail(c), Known(Present(rows))
    PROVE  Known(Present(rows))'
<1> DEFINE S == Present(rows)
<1>1. /\ rows' = rows
      /\ \A d \in Calls \ {c} : call'[d] = call[d]
      /\ call'[c] = NoCall \/ call'[c] = Reload(c)
  BY AnswerFrame
<1>2. call'[c].place = NoPlace /\ call'[c].found = NoRows
  BY <1>1, ReloadFields DEF NoCall
<1>3. Rated(NoPlace) = {} /\ Present(NoRows) = {}
  BY NoPlaceNumbers
<1>4. Rated(page'.place) \subseteq S
  <2>1. Rated(page.place) \subseteq S /\ Present(call[c].found) \subseteq S
    BY DEF Known
  <2>2. ASSUME NEW r \in Rows PROVE Rated(Places(r, Present(r))) = Present(r)
    BY ListNumbers
  <2> QED
    BY <2>1, <2>2, ReceivedPage
<1>5. ASSUME NEW d \in Calls
      PROVE  Rated(call'[d].place) \subseteq S /\ Present(call'[d].found) \subseteq S
  <2>1. CASE d = c
    BY <1>2, <1>3, <2>1
  <2>2. CASE d # c
    BY <1>1, <2>2 DEF Known
  <2> QED
    BY <2>1, <2>2
<1> QED
  BY <1>1, <1>4, <1>5 DEF Known

LEMMA GapNext ==
    TypeInv /\ MadeInv /\ AloneInv /\ FreshInv /\ PlaceInv /\ GapInv /\ [Next]_vars => GapInv'
<1> DEFINE Goal == Ratings(rows') /\ Known(Present(rows))'
<1> SUFFICES ASSUME TypeInv, MadeInv, AloneInv, FreshInv, PlaceInv, GapInv, [Next]_vars,
                    ~gap'
             PROVE  Goal
  BY DEF GapInv, Ratings
<1>1. ~gap => Ratings(rows) /\ Known(Present(rows))
  BY DEF GapInv
<1>2. ASSUME NEW c \in Calls, User(c) PROVE Goal
  <2>1. ~gap
    BY <1>2, UserGap
  <2>2. rows' = rows
    BY <1>2, UserFrame
  <2> QED
    BY <1>1, <1>2, <2>1, <2>2, UserKnows
<1>3. ASSUME NEW c \in Calls, Receive(c) \/ Fail(c) PROVE Goal
  <2>1. ~gap
    BY <1>3, UserGap
  <2>2. rows' = rows
    BY <1>3, AnswerFrame
  <2> QED
    BY <1>1, <1>3, <2>1, <2>2, AnswerKnows
<1>4. ASSUME NEW c \in Calls, Worker(c), ~DeleteRow(c), ~Reorder(c) PROVE Goal
  <2>1. ~gap
    BY <1>4, WorkerGap
  <2> QED
    BY <1>1, <1>4, <2>1, WorkerRatings, WorkerKnows
<1>5. ASSUME NEW c \in Calls, DeleteRow(c) PROVE Goal
  <2>1. ~gap /\ rows[call[c].id] = None
    BY <1>5, Zenon DEF DeleteRow
  <2>2. rows' = rows
    BY <1>5, <2>1 DEF DeleteRow, TypeInv, TypeOK
  <2>3. Worker(c)
    BY <1>5 DEF Worker, Providers
  <2> QED
    BY <1>1, <2>1, <2>2, <2>3, WorkerKnows
<1>6. ASSUME NEW c \in Calls, Reorder(c) PROVE Goal
  <2>1. ~gap \/ (call[c].alone /\ Rated(call[c].place) = Present(rows))
    BY <1>6, Zenon DEF Reorder, Rated
  <2>2. Known(Present(rows))
    BY <1>1, <1>6, <2>1, OrderKnows
  <2>3. Rated(call[c].place) \subseteq Present(rows)
    BY <2>2 DEF Known
  <2>4. Ratings(rows') /\ Present(rows') = Present(rows)
    <3>1. Ratings(rows) \/ Rated(call[c].place) = Present(rows)
      BY <1>1, <2>1
    <3> QED
      BY <1>6, <2>3, <3>1, OrderRatings
  <2>5. Worker(c)
    BY <1>6 DEF Worker, Providers
  <2> QED
    BY <2>2, <2>4, <2>5, WorkerKnows
<1>7. CASE UNCHANGED vars
  <2>1. /\ page' = page /\ call' = call /\ rows' = rows
    BY <1>7 DEF vars
  <2>2. ~gap
    BY <1>7, Zenon DEF vars
  <2> QED
    BY <1>1, <2>1, <2>2 DEF Known
<1> HIDE DEF Goal
<1> QED
  BY <1>2, <1>3, <1>4, <1>5, <1>6, <1>7 DEF Next

-----------------------------------------------------------------------------
(* A page that is not upset shows what is saved                            *)

\* What a page shows stays so while neither it nor the rows change.
LEMMA ShownKept ==
    ASSUME NEW p \in Pages, Shown(p), rows' = rows,
           p = "advanced" => page' = page, p = "basic" => badge' = badge
    PROVE  Shown(p)'
<1>1. CASE p = "advanced"
  BY <1>1 DEF Shown
<1>2. CASE p = "basic"
  <2>1. badge = HasKey(rows) /\ badge' = badge
    BY <1>2, Zenon DEF Shown
  <2>2. p # "advanced"
    BY <1>2
  <2> QED
    BY <2>1, <2>2, Zenon DEF Shown
<1> QED
  BY <1>1, <1>2 DEF Pages

\* While a page is not upset, a request under way is the only one; if it changes
\* anything, it comes from that page.
LEMMA Solo ==
    ASSUME AloneInv, UpsetInv, NEW p \in Pages \ upset, NEW c \in Calls, ~Idle(c)
    PROVE  /\ Alone(c) /\ \A d \in Calls \ {c} : Idle(d)
           /\ ~Harmless(call[c]) => p = call[c].from
<1>1. /\ ~call[c].alone => upset = Pages
      /\ ~Harmless(call[c]) => Pages \ {call[c].from} \subseteq upset
  BY DEF UpsetInv, Spares
<1>2. Alone(c)
  BY <1>1 DEF Alone
<1> QED
  BY <1>1, <1>2 DEF AloneInv

\* Only a request that is under way can be an order.
LEMMA IdleAsks ==
    ASSUME TypeInv, NEW c \in Calls, Idle(c)
    PROVE  call[c] = NoCall /\ call[c].op = "none"
<1>1. call[c] = NoCall
  BY DEF TypeInv, OnCourse, Idle
<1> QED
  BY <1>1 DEF NoCall

\* A handler that is alone and harmless leaves the rows as they are.
LEMMA HarmlessStep ==
    ASSUME TypeInv, NEW c \in Calls, Worker(c), Alone(c), Fresh(call[c]),
           Harmless(call[c]), ~Migratable
    PROVE  UNCHANGED <<rows, legacy>>
<1>1. call[c].op \in {"load", "job"}
  BY DEF Harmless
<1>2. ~Migrate(c)
  <2>1. ASSUME Migrate(c) PROVE FALSE
    <3>1. call[c].pc = "migrating"
      BY <2>1 DEF Migrate
    <3>2. call[c].key \notin {"none", "bare"}
      BY <3>1 DEF TypeInv, Asked
    <3>3. Present(rows) = {} /\ call[c].key = legacy
      BY <3>1 DEF Fresh
    <3> QED
      BY <3>2, <3>3 DEF Migratable
  <2> QED
    BY <2>1
<1>3. ~InsertCounted(c)
  <2>1. ASSUME InsertCounted(c) PROVE FALSE
    <3>1. call[c].pc = "counted"
      BY <2>1 DEF InsertCounted
    <3>2. call[c].op = "job"
      BY <1>1, <3>1 DEF TypeInv, OnCourse
    <3>3. call[c].ask.enabled = "on"
      BY <3>1, <3>2 DEF TypeInv, Asked
    <3> QED
      BY <3>2, <3>3 DEF Harmless
  <2> QED
    BY <2>1
<1>4. CASE SelectProviders(c) \/ SelectLegacy(c) \/ CountRows(c) \/ Throw(c)
  BY <1>4 DEF SelectProviders, SelectLegacy, CountRows, Throw
<1>5. CASE Jobs(c)
  BY <1>5 DEF Jobs, UseOneOff, UseSettings, UseFallback
<1>6. CASE ReadRow(c) \/ WriteRow(c) \/ DeleteRow(c) \/ Reorder(c) \/ WriteBasic(c)
           \/ ReadLegacy(c) \/ WriteLegacy(c)
  BY <1>1, <1>6 DEF ReadRow, WriteRow, DeleteRow, Reorder, WriteBasic, ReadLegacy,
                    WriteLegacy, At
<1> QED
  BY <1>2, <1>3, <1>4, <1>5, <1>6 DEF Worker, Ensure, Providers

\* The answer to an order that is alone: the rows are listed as the page lists them.
LEMMA OrderShows ==
    ASSUME TypeInv, NEW c \in Calls, Reorder(c), call[c].place = page.place,
           Numbers(page.place, Present(rows)), page.on = Enabled(rows), ~Migratable
    PROVE  Shown("advanced")' /\ ~Migratable'
<1>1. /\ rows' \in Rows /\ Present(rows') = Present(rows)
      /\ \A j \in Present(rows) :
           /\ rows'[j].priority = IF page.place[j] = 0 THEN rows[j].priority
                                  ELSE page.place[j]
           /\ rows'[j].enabled = rows[j].enabled
  BY WrittenOrder
<1>2. page' = page /\ legacy' = legacy
  BY DEF Reorder
<1>3. \A j \in Present(rows) : rows'[j].priority = page.place[j]
  BY <1>1 DEF Numbers, Present
<1>4. Places(rows', Present(rows')) = page.place
  BY <1>1, <1>3, PlacesOfNumbers
<1>5. Enabled(rows') = Enabled(rows)
  BY <1>1 DEF Enabled
<1> QED
  BY <1>1, <1>2, <1>4, <1>5 DEF Shown, Migratable

\* What a step leaves of Spares and Holds, for a page that stays up to date.
LEMMA UserUpset ==
    ASSUME TypeInv, UpsetInv, NEW c \in Calls, User(c)
    PROVE  UpsetInv'
<1>1. /\ call[c].pc = "idle" /\ call'[c].pc = "sent" /\ call'[c].alone = Quiet
      /\ \A d \in Calls \ {c} : /\ call'[d].op = call[d].op /\ call'[d].pc = call[d].pc
                                /\ call'[d].place = call[d].place
      /\ upset \subseteq upset' /\ (~Quiet => upset' = Pages)
      /\ ~Harmless(call'[c]) => Pages \ {call'[c].from} \subseteq upset'
      /\ call'[c].op = "load" => call'[c].from \in upset'
      /\ rows' = rows /\ legacy' = legacy
  BY UserFrame DEF StaysBut
<1>2. \/ page' = page /\ call'[c].op # "order"
      \/ /\ page' = [place |-> NoPlace, on |-> {}] /\ "advanced" \in upset'
         /\ call'[c].op # "order"
      \/ SwappedPage(c) /\ call'[c].op = "order" /\ call'[c].from = "advanced"
  BY UserFrame
<1>3. CASE ~Quiet
  <2>1. upset' = Pages
    BY <1>1, <1>3
  <2>2. ASSUME NEW d \in Calls PROVE Spares(d)'
    <3>1. TypeInv'
      BY TypeUser
    <3>2. call'[d].from \in Pages \cup {"none"}
      BY <3>1 DEF TypeInv, TypeOK, Call
    <3> QED
      BY <2>1, <3>2 DEF Spares
  <2> QED
    BY <2>1, <2>2 DEF UpsetInv
<1>4. CASE Quiet
  <2>1. \A d \in Calls \ {c} : Idle(d)' /\ call'[d].op = "none"
    <3>1. ASSUME NEW d \in Calls \ {c} PROVE Idle(d)' /\ call'[d].op = "none"
      <4>1. Idle(d)
        BY <1>4 DEF Quiet
      <4> QED
        BY <1>1, <4>1, IdleAsks DEF Idle
    <3> QED
      BY <3>1
  <2>2. call'[c].alone
    BY <1>1, <1>4, Zenon
  <2>3. ASSUME NEW d \in Calls PROVE Spares(d)'
    <3>1. CASE d = c
      BY <1>1, <2>2, <3>1 DEF Spares
    <3>2. CASE d # c
      BY <2>1, <3>2 DEF Spares
    <3> QED
      BY <3>1, <3>2
  <2>4. ASSUME NEW p \in Pages \ upset' PROVE Holds(p)'
    <3>1. Shown(p) /\ ~Migratable
      BY <1>1, <1>4, <2>4 DEF UpsetInv, Holds, Quiet
    <3>2. ~Migratable'
      BY <1>1, <3>1 DEF Migratable
    <3>3. CASE call'[c].op # "order"
      <4>1. p = "advanced" => page' = page
        BY <1>2, <2>4, <3>3
      <4>2. p = "basic" => badge' = badge
        <5>1. badge' = badge \/ "basic" \in upset'
          BY UserBadge, Zenon
        <5> QED
          BY <2>4, <5>1
      <4>3. Shown(p)'
        BY <1>1, <2>4, <3>1, <4>1, <4>2, ShownKept
      <4>4. \A d \in Calls : call'[d].op # "order"
        BY <2>1, <3>3
      <4> QED
        BY <3>2, <4>3, <4>4 DEF Holds
    <3>4. CASE call'[c].op = "order"
      <4>1. SwappedPage(c) /\ call'[c].from = "advanced"
        BY <1>2, <3>4
      <4>2. ~Harmless(call'[c])
        BY <3>4 DEF Harmless
      <4>3. p = "advanced"
        BY <1>1, <2>4, <4>1, <4>2
      <4>4. page.place = Places(rows, Present(rows)) /\ page.on = Enabled(rows)
        BY <3>1, <4>3 DEF Shown
      <4>5. rows \in Rows /\ Present(rows) \in SUBSET Ids
        BY DEF TypeInv, TypeOK, Rows, Present
      <4>6. Numbers(page.place, Present(rows))
        BY <4>4, <4>5, ListNumbers
      <4>7. Numbers(call'[c].place, Present(rows)) /\ page'.place = call'[c].place
        BY <4>1, <4>5, <4>6, SwapNumbers
      <4>8. Numbers(page'.place, Present(rows')) /\ page'.on = Enabled(rows')
        BY <1>1, <4>1, <4>4, <4>7 DEF SwappedPage
      <4>9. ~(Idle(c)' \/ Harmless(call'[c]))
        BY <1>1, <4>2 DEF Idle
      <4>10. (Numbers(page.place, Present(rows)) /\ page.on = Enabled(rows))'
        BY <4>8 DEF Numbers, Present, Enabled
      <4>11. \A d \in Calls : call'[d].op = "order" => call'[d].pc = "sent"
        BY <1>1, <2>1
      <4>12. ~(\A d \in Calls : Idle(d) \/ Harmless(call[d]))'
        BY <4>9
      <4> HIDE DEF Migratable
      <4> QED
        BY <3>2, <4>10, <4>11, <4>12 DEF Holds
    <3> QED
      BY <3>3, <3>4
  <2> QED
    BY <2>3, <2>4 DEF UpsetInv
<1> QED
  BY <1>3, <1>4

LEMMA WorkerUpset ==
    ASSUME TypeInv, AloneInv, FreshInv, UpsetInv, NEW c \in Calls, Worker(c)
    PROVE  UpsetInv'
<1> DEFINE y == call[c]
           x == call'[c]
<1>1. /\ y.pc # "idle" /\ x.pc # "idle"
      /\ x.op = y.op /\ x.from = y.from /\ x.place = y.place
      /\ x.alone = y.alone /\ x.ask.enabled = y.ask.enabled
      /\ \A d \in Calls \ {c} : call'[d] = call[d]
      /\ page' = page /\ upset' = upset
  BY WorkerFrame DEF Kept
<1>2. badge' = badge
  BY WorkerBadge
<1>3. Harmless(x) <=> Harmless(y)
  BY <1>1 DEF Harmless
<1>4. ~Idle(c) /\ ~Idle(c)'
  BY <1>1 DEF Idle
<1>5. ASSUME NEW d \in Calls PROVE Spares(d)'
  <2>1. CASE d = c
    <3>1. Spares(c)
      BY DEF UpsetInv
    <3>2. /\ ~x.alone => upset' = Pages
          /\ ~Harmless(x) => Pages \ {x.from} \subseteq upset'
          /\ x.op = "load" /\ x.from # "none" => x.from \in upset'
      BY <1>1, <1>3, <1>4, <3>1 DEF Spares
    <3> QED
      BY <2>1, <3>2 DEF Spares
  <2>2. CASE d # c
    BY <1>1, <1>5, <2>2 DEF UpsetInv, Spares, Idle
  <2> QED
    BY <2>1, <2>2
<1>6. ASSUME NEW p \in Pages \ upset' PROVE Holds(p)'
  <2>1. /\ Alone(c) /\ \A d \in Calls \ {c} : Idle(d)
        /\ ~Harmless(y) => p = y.from
    BY <1>1, <1>4, <1>6, Solo
  <2>2. Fresh(y) /\ Holds(p)
    BY <1>1, <1>6, <2>1 DEF FreshInv, UpsetInv
  <2>3. \A d \in Calls \ {c} : call'[d].op = "none"
    <3>1. ASSUME NEW d \in Calls \ {c} PROVE call'[d].op = "none"
      BY <1>1, <2>1, IdleAsks
    <3> QED
      BY <3>1
  <2>4. CASE Harmless(y)
    <3>1. Shown(p) /\ ~Migratable
      BY <2>1, <2>2, <2>4 DEF Holds
    <3>2. rows' = rows /\ legacy' = legacy
      BY <2>1, <2>2, <2>4, <3>1, HarmlessStep
    <3>3. Shown(p)'
      BY <1>1, <1>2, <1>6, <3>1, <3>2, ShownKept
    <3>4. ~Migratable'
      BY <3>1, <3>2 DEF Migratable
    <3>5. \A d \in Calls : call'[d].op # "order"
      BY <1>1, <2>3, <2>4 DEF Harmless
    <3> QED
      BY <3>3, <3>4, <3>5 DEF Holds
  <2>5. CASE ~Harmless(y) /\ y.op # "order"
    <3>1. \A d \in Calls : call'[d].op # "order"
      BY <1>1, <2>3, <2>5
    <3>2. ~(\A d \in Calls : Idle(d) \/ Harmless(call[d]))'
      BY <1>3, <1>4, <2>5
    <3> QED
      BY <3>1, <3>2 DEF Holds
  <2>6. CASE y.op = "order"
    <3>1. Reorder(c)
      BY <2>6 DEF Worker, Ensure, SelectProviders, SelectLegacy, Migrate, WriteBasic,
         Providers, CountRows, InsertCounted, ReadRow, WriteRow, DeleteRow, ReadLegacy,
         WriteLegacy, Jobs, UseOneOff, UseSettings, UseFallback, Throw, At, TypeInv, OnCourse
    <3>2. y.pc = "sent"
      BY <3>1 DEF Reorder, At
    <3>3. x.pc = "answered"
      BY <3>1 DEF Reorder, TypeInv, TypeOK, Call
    <3>4. y.place = page.place
      BY <2>2, <2>6, <3>2 DEF Fresh
    <3>5. Numbers(page.place, Present(rows)) /\ page.on = Enabled(rows) /\ ~Migratable
      BY <2>2, <2>6, <3>2 DEF Holds
    <3>6. ~Harmless(y) /\ y.from # "basic"
      BY <2>6 DEF Harmless, TypeInv, Asked
    <3>7. p = "advanced"
      BY <1>6, <2>1, <3>6 DEF Pages
    <3>8. Shown(p)' /\ ~Migratable'
      BY <3>1, <3>4, <3>5, <3>7, OrderShows
    <3>9. \A d \in Calls : call'[d].op = "order" => call'[d].pc = "answered"
      BY <2>3, <3>3
    <3>10. ~(\A d \in Calls : Idle(d) \/ Harmless(call[d]))'
      BY <1>3, <1>4, <3>6
    <3> QED
      BY <3>8, <3>9, <3>10 DEF Holds
  <2> QED
    BY <2>4, <2>5, <2>6
<1> QED
  BY <1>5, <1>6 DEF UpsetInv

\* What an answer leaves, once nothing is under way: pages that show what is saved.
LEMMA NobodyLeft ==
    ASSUME TypeInv, NEW c \in Calls, \A d \in Calls \ {c} : Idle(d),
           Receive(c) \/ Fail(c), call'[c] = NoCall,
           \A p \in Pages \ upset' : Shown(p)' /\ ~Migratable'
    PROVE  UpsetInv'
<1>1. \A d \in Calls \ {c} : call'[d] = call[d]
  BY AnswerFrame
<1>2. ASSUME NEW d \in Calls PROVE Idle(d)' /\ call'[d].op = "none"
  <2>1. CASE d = c
    BY <2>1 DEF NoCall, Idle
  <2>2. CASE d # c
    BY <1>1, <2>2, IdleAsks DEF Idle
  <2> QED
    BY <2>1, <2>2
<1>3. \A d \in Calls : Spares(d)'
  BY <1>2 DEF Spares
<1>4. ASSUME NEW p \in Pages \ upset' PROVE Holds(p)'
  <2>1. Shown(p)' /\ ~Migratable'
    BY <1>4
  <2> QED
    BY <1>2, <2>1 DEF Holds
<1> QED
  BY <1>3, <1>4 DEF UpsetInv

\* An answer that takes no page off the list of the upset ones.
LEMMA NothingMended ==
    ASSUME TypeInv, UpsetInv, NEW c \in Calls, Receive(c) \/ Fail(c), upset \subseteq upset',
           upset' \subseteq Pages,
           call'[c] = NoCall \/ (call'[c] = Reload(c) /\ ~Harmless(call[c]))
    PROVE  \A d \in Calls : Spares(d)'
<1>1. /\ \A d \in Calls \ {c} : call'[d] = call[d]
      /\ call[c].pc # "idle"
  BY AnswerFrame
<1>2. ASSUME NEW d \in Calls \ {c} PROVE Spares(d)'
  BY <1>1 DEF UpsetInv, Spares, Idle
<1>3. CASE call'[c] = NoCall
  BY <1>2, <1>3 DEF Spares, Idle, NoCall
<1>4. CASE call'[c] = Reload(c) /\ ~Harmless(call[c])
  <2>1. Reload(c).op = "list" /\ Reload(c).from = call[c].from /\ Reload(c).alone = call[c].alone
    BY ReloadFields
  <2>2. /\ ~call[c].alone => upset = Pages
        /\ Pages \ {call[c].from} \subseteq upset
    BY <1>1, <1>4 DEF UpsetInv, Spares, Idle
  <2>3. Spares(c)'
    BY <1>4, <2>1, <2>2 DEF Spares
  <2> QED
    BY <1>2, <2>3
<1> QED
  BY <1>3, <1>4

LEMMA SameBooleans ==
    ASSUME NEW b \in BOOLEAN, b <=> HasKey(rows)
    PROVE  b = HasKey(rows)
BY DEF HasKey

\* The list that a page has asked for is what is saved.
LEMMA ListUpset ==
    ASSUME TypeInv, AloneInv, FreshInv, UpsetInv, NEW c \in Calls, ReceiveList(c)
    PROVE  UpsetInv'
<1> DEFINE y == call[c]
<1>1. /\ y.pc = "answered" /\ y.op \in {"load", "list"} /\ ~Idle(c)
      /\ rows' = rows /\ legacy' = legacy
      /\ page' = IF y.from = "advanced"
                 THEN [place |-> Places(y.found, Present(y.found)), on |-> Enabled(y.found)]
                 ELSE page
      /\ Receive(c)
  BY DEF ReceiveList, Receive, Idle
<1>2. call'[c] = NoCall
  BY DEF ReceiveList, TypeInv, TypeOK
<1>3. CASE ~y.alone
  <2>1. upset = Pages
    BY <1>1, <1>3 DEF UpsetInv, Spares
  <2>2. upset' = Pages
    BY <1>3, <2>1 DEF ReceiveList
  <2>3. \A d \in Calls : Spares(d)'
    BY <1>1, <1>2, <2>1, <2>2, NothingMended
  <2> QED
    BY <2>2, <2>3 DEF UpsetInv
<1>4. CASE y.alone
  <2>1. Alone(c) /\ (\A d \in Calls \ {c} : Idle(d)) /\ Fresh(y)
    BY <1>1, <1>4 DEF Alone, AloneInv, FreshInv
  <2>2. y.found = rows /\ ~Migratable
    BY <1>1, <2>1 DEF Fresh
  <2>3. upset' = upset \ {y.from}
    BY <1>4, Zenon DEF ReceiveList
  <2>4. ~Migratable'
    BY <1>1, <2>2 DEF Migratable
  <2>5. ASSUME NEW p \in Pages \ upset', p # y.from PROVE Shown(p)'
    <3>1. p \in Pages \ upset
      BY <2>3, <2>5
    <3>2. Harmless(y)
      BY <1>1, <2>5, <3>1, Solo
    <3>3. Shown(p)
      BY <2>1, <3>1, <3>2 DEF UpsetInv, Holds
    <3>4. p = "advanced" => page' = page
      BY <1>1, <2>5
    <3>5. p = "basic" => badge' = badge
      <4>1. CASE p = "basic"
        <5>1. y.from # "basic"
          BY <2>5, <4>1
        <5>2. badge' = (badge \/ (y.from = "basic" /\ HasKey(y.found)))
          BY Zenon DEF ReceiveList
        <5>3. badge \in BOOLEAN
          BY DEF TypeInv, TypeOK
        <5> QED
          BY <5>1, <5>2, <5>3
      <4> QED
        BY <4>1
    <3> QED
      BY <1>1, <2>5, <3>3, <3>4, <3>5, ShownKept
  <2>6. CASE y.from = "advanced"
    <3>1. page'.place = Places(rows, Present(rows)) /\ page'.on = Enabled(rows)
      BY <1>1, <2>2, <2>6
    <3>2. Shown("advanced")'
      BY <1>1, <3>1 DEF Shown
    <3> QED
      BY <1>1, <1>2, <2>1, <2>4, <2>5, <2>6, <3>2, NobodyLeft
  <2>7. CASE y.from = "basic"
    <3>1. y.op = "load"
      BY <1>1, <2>7 DEF TypeInv, Asked
    <3>2. badge = FALSE
      BY <2>1, <2>7, <3>1 DEF Fresh
    <3>3. badge' = (badge \/ (y.from = "basic" /\ HasKey(rows)))
      BY <2>2, Zenon DEF ReceiveList
    <3>4. badge' = HasKey(rows)
      <4>1. badge' <=> HasKey(rows)
        BY <2>7, <3>2, <3>3, Zenon
      <4>2. badge' \in BOOLEAN
        BY <3>3
      <4> QED
        BY <4>1, <4>2, SameBooleans
    <3>5. badge' = HasKey(rows')
      BY <1>1, <3>4
    <3>6. Shown("basic")'
      BY <3>5 DEF Shown
    <3> QED
      BY <1>1, <1>2, <2>1, <2>4, <2>5, <2>7, <3>6, NobodyLeft
  <2>8. CASE y.from \notin Pages
    BY <1>1, <1>2, <2>1, <2>4, <2>5, <2>8, NobodyLeft
  <2> QED
    BY <2>6, <2>7, <2>8 DEF Pages
<1> QED
  BY <1>3, <1>4

\* The badge is that of the key which a change of it has left.
LEMMA BasicUpset ==
    ASSUME TypeInv, AloneInv, FreshInv, UpsetInv, NEW c \in Calls, ReceiveBasic(c)
    PROVE  UpsetInv'
<1> DEFINE y == call[c]
<1>1. /\ y.pc = "answered" /\ y.op = "basic" /\ ~Idle(c) /\ ~Harmless(y)
      /\ rows' = rows /\ legacy' = legacy /\ Receive(c)
  BY DEF ReceiveBasic, At, Receive, Idle, Harmless
<1>2. call'[c] = NoCall
  BY DEF ReceiveBasic, TypeInv, TypeOK
<1>3. CASE ~y.alone
  <2>1. upset = Pages
    BY <1>1, <1>3 DEF UpsetInv, Spares
  <2>2. upset' = Pages
    BY <1>3, <2>1 DEF ReceiveBasic
  <2>3. \A d \in Calls : Spares(d)'
    BY <1>1, <1>2, <2>1, <2>2, NothingMended
  <2> QED
    BY <2>2, <2>3 DEF UpsetInv
<1>4. CASE y.alone
  <2>1. Alone(c) /\ (\A d \in Calls \ {c} : Idle(d)) /\ Fresh(y)
    BY <1>1, <1>4 DEF Alone, AloneInv, FreshInv
  <2>2. (HasKey(rows) <=> y.ask.key # "clear") /\ ~Migratable
    BY <1>1, <2>1 DEF Fresh
  <2>3. upset' = upset \ {y.from}
    BY <1>4, Zenon DEF ReceiveBasic
  <2>4. ~Migratable'
    BY <1>1, <2>2 DEF Migratable
  <2>5. ASSUME NEW p \in Pages \ upset' PROVE Shown(p)'
    <3>1. p = y.from /\ p = "basic"
      <4>1. Pages \ {y.from} \subseteq upset
        BY <1>1 DEF UpsetInv, Spares
      <4>2. y.from # "advanced"
        BY <1>1 DEF TypeInv, Asked
      <4> QED
        BY <2>3, <2>5, <4>1, <4>2 DEF Pages
    <3>2. badge' = (y.ask.key # "clear")
      BY <3>1, Zenon DEF ReceiveBasic
    <3>3. badge' = HasKey(rows')
      <4>1. badge' <=> HasKey(rows)
        BY <2>2, <3>2, Zenon
      <4>2. badge' \in BOOLEAN
        BY <3>2
      <4>3. badge' = HasKey(rows)
        BY <4>1, <4>2, SameBooleans
      <4> QED
        BY <1>1, <4>3
    <3> QED
      BY <3>1, <3>3 DEF Shown
  <2> QED
    BY <1>1, <1>2, <2>1, <2>4, <2>5, NobodyLeft
<1> QED
  BY <1>3, <1>4

\* The other answers show nothing new.
LEMMA OtherUpset ==
    ASSUME TypeInv, AloneInv, UpsetInv, NEW c \in Calls,
           ReceiveChange(c) \/ ReceiveOther(c) \/ Fail(c)
    PROVE  UpsetInv'
<1> DEFINE y == call[c]
<1>1. /\ \A d \in Calls \ {c} : call'[d] = call[d]
      /\ y.pc \in {"sent", "answered", "refused"} /\ ~Idle(c)
      /\ \/ call'[c] = NoCall
         \/ call'[c] = Reload(c) /\ y.op \in {"add", "edit", "delete", "order"}
      /\ rows' = rows /\ legacy' = legacy
  BY AnswerFrame DEF Receive, Idle
<1>2. page' = page
  BY DEF ReceiveChange, ReceiveOther, Fail
<1>3. badge' = badge
  BY Zenon DEF ReceiveChange, ReceiveOther, Fail
<1>4. upset \subseteq upset' /\ upset' \subseteq Pages
  BY DEF ReceiveChange, ReceiveOther, Fail, TypeInv, TypeOK
<1>5. \A d \in Calls : Spares(d)'
  BY <1>1, <1>4, NothingMended DEF Receive, Harmless
<1>6. ASSUME NEW p \in Pages \ upset' PROVE Holds(p)'
  <2>1. p \in Pages \ upset
    BY <1>4, <1>6
  <2>2. /\ Alone(c) /\ \A d \in Calls \ {c} : Idle(d)
        /\ ~Harmless(y) => p = y.from
    BY <1>1, <2>1, Solo
  <2>3. Holds(p)
    BY <2>1 DEF UpsetInv
  <2>4. \A d \in Calls \ {c} : call'[d].op = "none"
    <3>1. ASSUME NEW d \in Calls \ {c} PROVE call'[d].op = "none"
      BY <1>1, <2>2, IdleAsks
    <3> QED
      BY <3>1
  <2>5. ASSUME Shown(p), ~Migratable, call'[c] = NoCall PROVE Holds(p)'
    <3>1. Shown(p)'
      BY <1>1, <1>2, <1>3, <1>6, <2>5, ShownKept
    <3>2. ~Migratable'
      BY <1>1, <2>5 DEF Migratable
    <3>3. \A d \in Calls : call'[d].op # "order"
      BY <2>4, <2>5 DEF NoCall
    <3> QED
      BY <3>1, <3>2, <3>3 DEF Holds
  <2>6. CASE call'[c] = Reload(c)
    <3>1. call'[c].op = "list" /\ call'[c].pc = "sent"
      BY <2>6, ReloadFields
    <3>2. \A d \in Calls : call'[d].op # "order"
      BY <2>4, <3>1
    <3>3. ~(\A d \in Calls : Idle(d) \/ Harmless(call[d]))'
      BY <3>1 DEF Idle, Harmless
    <3> QED
      BY <3>2, <3>3 DEF Holds
  <2>7. CASE call'[c] = NoCall /\ Harmless(y)
    <3>1. Shown(p) /\ ~Migratable
      BY <2>2, <2>3, <2>7 DEF Holds
    <3> QED
      BY <2>5, <2>7, <3>1
  <2>8. CASE call'[c] = NoCall /\ ~Harmless(y)
    <3>1. p = y.from /\ y.from # "none"
      BY <2>1, <2>2, <2>8 DEF Pages
    <3>2. CASE ReceiveChange(c)
      <4>1. call'[c] = Reload(c)
        BY <3>1, <3>2 DEF ReceiveChange, TypeInv, TypeOK
      <4> QED
        BY <2>6, <4>1
    <3>3. CASE ReceiveOther(c)
      <4>1. y.op = "order" /\ y.pc = "answered"
        BY <3>1, <3>3 DEF ReceiveOther, TypeInv, Asked
      <4>2. Shown(p) /\ ~Migratable
        BY <2>3, <4>1 DEF Holds
      <4> QED
        BY <2>5, <2>8, <4>2
    <3>4. CASE Fail(c)
      <4>1. CASE y.op = "order"
        <5>1. call'[c] = Reload(c)
          BY <3>4, <4>1 DEF Fail, TypeInv, TypeOK
        <5> QED
          BY <2>6, <5>1
      <4>2. CASE y.op # "order"
        <5>1. upset' = upset \cup (Pages \cap {y.from})
          BY <3>4, <4>2 DEF Fail
        <5> QED
          BY <1>6, <3>1, <5>1
      <4> QED
        BY <4>1, <4>2
    <3> QED
      BY <3>2, <3>3, <3>4
  <2> QED
    BY <1>1, <2>6, <2>7, <2>8
<1> QED
  BY <1>5, <1>6 DEF UpsetInv

LEMMA UpsetNext ==
    TypeInv /\ AloneInv /\ FreshInv /\ UpsetInv /\ [Next]_vars => UpsetInv'
<1> SUFFICES ASSUME TypeInv, AloneInv, FreshInv, UpsetInv, [Next]_vars PROVE UpsetInv'
  OBVIOUS
<1>1. ASSUME NEW c \in Calls, User(c) PROVE UpsetInv'
  BY <1>1, UserUpset
<1>2. ASSUME NEW c \in Calls, Worker(c) PROVE UpsetInv'
  BY <1>2, WorkerUpset
<1>3. ASSUME NEW c \in Calls, Receive(c) \/ Fail(c) PROVE UpsetInv'
  BY <1>3, ListUpset, BasicUpset, OtherUpset DEF Receive
<1>4. CASE UNCHANGED vars
  <2>1. /\ rows' = rows /\ legacy' = legacy /\ page' = page /\ call' = call
        /\ upset' = upset
    BY <1>4 DEF vars
  <2>2. badge' = badge
    BY <1>4, Zenon DEF vars
  <2>3. \A p \in Pages : Shown(p) => Shown(p)'
    BY <2>1, <2>2, ShownKept
  <2>4. Migratable' <=> Migratable
    BY <2>1 DEF Migratable
  <2>5. \A d \in Calls : Spares(d)'
    BY <2>1 DEF UpsetInv, Spares, Idle
  <2>6. ASSUME NEW p \in Pages \ upset' PROVE Holds(p)'
    <3>1. Holds(p)
      BY <2>1, <2>6 DEF UpsetInv
    <3>2. (\A c \in Calls : Idle(c) \/ Harmless(call[c])) => Shown(p)' /\ ~Migratable'
      BY <2>3, <2>4, <2>6, <3>1 DEF Holds
    <3>3. \A c \in Calls : call[c].op = "order" =>
            /\ call[c].pc = "sent" => /\ Numbers(page.place, Present(rows))
                                      /\ page.on = Enabled(rows)
            /\ call[c].pc = "answered" => Shown(p)'
            /\ ~Migratable'
      BY <2>3, <2>4, <2>6, <3>1 DEF Holds
    <3> QED
      BY <2>1, <3>2, <3>3 DEF Holds, Idle, Numbers
  <2> QED
    BY <2>5, <2>6 DEF UpsetInv
<1> QED
  BY <1>1, <1>2, <1>3, <1>4 DEF Next

-----------------------------------------------------------------------------
(* The invariant                                                           *)

\* The rows of a user whose pages show saved providers were added in turn.
LEMMA FirstRows ==
    ASSUME NEW S \in SUBSET Ids, \A i \in S, j \in Ids : j < i => j \in S
    PROVE  \A i \in S : i <= Cardinality(S)
<1> SUFFICES ASSUME NEW i \in S PROVE i <= Cardinality(S)
  OBVIOUS
<1>1. i \in Nat \ {0} /\ 1..i \in SUBSET S
  BY BoundsAssumption DEF Ids
<1>2. IsFiniteSet(S) /\ Cardinality(S) \in Nat
  BY IdsAreFinite
<1>3. Cardinality(1..i) = i
  BY <1>1, FS_Interval
<1>4. Cardinality(1..i) <= Cardinality(S)
  BY <1>1, <1>2, FS_Subset
<1> QED
  BY <1>3, <1>4

LEMMA InitRows ==
    ASSUME Init
    PROVE  /\ rows \in Rows /\ made = Cardinality(Present(rows))
           /\ \A i \in Present(rows) : rows[i].priority = i /\ i <= Cardinality(Present(rows))
           /\ upset = Pages \/ legacy = "none"
<1>1. CASE rows = NoRows /\ made = 0 /\ upset = Pages
  <2>1. Present(rows) = {}
    BY <1>1, NoPlaceNumbers
  <2>2. Cardinality(Present(rows)) = 0
    BY <2>1, FS_EmptySet
  <2>3. rows \in Rows
    BY <1>1 DEF NoRows, Rows
  <2> QED
    BY <1>1, <2>1, <2>2, <2>3
<1>2. CASE rows \in Starts /\ made = Cardinality(Present(rows)) /\ legacy = "none"
  <2>1. /\ rows \in Rows
        /\ \A i \in Present(rows) : rows[i].priority = i
        /\ \A i \in Present(rows), j \in Ids : j < i => j \in Present(rows)
    BY <1>2, StartsAssumption DEF Rows
  <2>2. Present(rows) \in SUBSET Ids
    BY DEF Present
  <2>3. \A i \in Present(rows) : i <= Cardinality(Present(rows))
    BY <2>1, <2>2, FirstRows
  <2> QED
    BY <1>2, <2>1, <2>3
<1> QED
  BY <1>1, <1>2 DEF Init

LEMMA InitCalls ==
    ASSUME Init, NEW c \in Calls
    PROVE  /\ call[c] = NoCall /\ Idle(c) /\ call[c].op = "none"
           /\ call[c].place = NoPlace /\ call[c].found = NoRows
<1>1. call[c] = NoCall
  BY DEF Init
<1> QED
  BY <1>1 DEF NoCall, Idle

LEMMA InitInv == Init => IInv
<1> SUFFICES ASSUME Init PROVE IInv
  OBVIOUS
<1>1. TypeInv
  BY TypeInit
<1>2. MadeInv
  <2>1. \A i \in Present(rows) : i <= made
    BY InitRows
  <2>2. made \in Nat
    BY <1>1, BoundsAssumption DEF TypeInv, TypeOK
  <2> QED
    BY <2>1, <2>2, BoundsAssumption DEF MadeInv, Present, Ids
<1>3. AloneInv /\ FreshInv
  BY InitCalls DEF AloneInv, FreshInv, Alone
<1>4. PlanInv
  BY DEF Init, PlanInv, NoChain
<1>5. /\ page.place = Places(rows, Present(rows)) /\ page.on = Enabled(rows)
      /\ rows \in Rows
  BY InitRows DEF Init
<1>6. Numbers(page.place, Present(rows)) /\ Rated(page.place) = Present(rows)
  BY <1>5, ListNumbers
<1>7. Rated(NoPlace) = {} /\ Numbers(NoPlace, Rated(NoPlace)) /\ Present(NoRows) = {}
  BY NoPlaceNumbers
<1>8. PlaceInv
  BY <1>6, <1>7, InitCalls DEF PlaceInv
<1>9. GapInv
  <2>1. Ratings(rows)
    BY InitRows DEF Ratings
  <2>2. Known(Present(rows))
    BY <1>6, <1>7, InitCalls DEF Known
  <2> QED
    BY <2>1, <2>2 DEF GapInv
<1>10. UpsetInv
  <2>1. ASSUME NEW c \in Calls PROVE Spares(c)
    BY InitCalls DEF Spares
  <2>2. ASSUME NEW p \in Pages \ upset PROVE Holds(p)
    <3>1. ~Migratable
      BY <2>2, InitRows DEF Migratable
    <3>2. badge = HasKey(rows)
      BY Zenon DEF Init
    <3>3. Shown(p)
      BY <1>5, <3>2, Zenon DEF Shown
    <3> QED
      BY <3>1, <3>3, InitCalls DEF Holds
  <2> QED
    BY <2>1, <2>2 DEF UpsetInv
<1> QED
  BY <1>1, <1>2, <1>3, <1>4, <1>8, <1>9, <1>10 DEF IInv

LEMMA NextInv == IInv /\ [Next]_vars => IInv'
BY TypeNext, MadeNext, AloneNext, FreshNext, PlanNext, PlaceNext, GapNext, UpsetNext
   DEF IInv

LEMMA SettingsInvariant == Spec => []IInv
<1>1. Init => IInv
  BY InitInv
<1>2. IInv /\ [Next]_vars => IInv'
  BY NextInv
<1> QED
  BY <1>1, <1>2, PTL DEF Spec

-----------------------------------------------------------------------------
(* The theorems                                                            *)

\* Once nothing is under way, a page that no request has put out of date shows
\* the saved providers in their order, or the badge of the key handlers choose.
THEOREM PagesShowWhatIsSaved == Spec => []ShownIsSaved
<1>1. IInv => ShownIsSaved
  <2> SUFFICES ASSUME IInv, Quiet PROVE \A p \in Pages \ upset : Shown(p)
    BY DEF ShownIsSaved, Shown, Pages
  <2> QED
    BY DEF IInv, UpsetInv, Holds, Quiet
<1> QED
  BY <1>1, SettingsInvariant, PTL

\* A job submitted from an up-to-date page, with nothing else under way, is given
\* snapshots of the providers that are on there in their order, and the public
\* chain if none is; that chain always lists the server's keys in turn and the
\* free service last.
THEOREM SnapshotsFollowThePage == Spec => []ChainFollowsPage
<1>1. IInv => ChainFollowsPage
  <2> SUFFICES ASSUME IInv, NEW c \in Calls, At(c, "job", "answered"), call[c].alone,
                      "advanced" \notin upset, call[c].ask.key = "keep"
               PROVE  /\ chain.mode = IF page.on = {} THEN "free_fallback"
                                      ELSE "user_settings"
                      /\ {i \in Ids : chain.place[i] # 0} = page.on
                      /\ \A i, j \in page.on : (chain.place[i] < chain.place[j])
                                                 <=> (page.place[i] < page.place[j])
    BY DEF ChainFollowsPage, IInv, PlanInv
  <2>1. TypeInv /\ AloneInv /\ FreshInv /\ UpsetInv /\ rows \in Rows
    BY DEF IInv, TypeInv, TypeOK, Rows
  <2>2. call[c].op = "job" /\ call[c].pc = "answered" /\ ~Idle(c)
    BY DEF At, Idle
  <2>3. Harmless(call[c])
    BY <2>1, <2>2 DEF TypeInv, Asked, Harmless
  <2>4. /\ Alone(c)
        /\ \A d \in Calls \ {c} : Idle(d)
    BY <2>2, <2>1 DEF Alone, AloneInv
  <2>5. /\ chain.mode = IF Enabled(rows) = {} THEN "free_fallback" ELSE "user_settings"
        /\ chain.place = Places(rows, Enabled(rows))
    BY <2>1, <2>2, <2>4 DEF FreshInv, Fresh
  <2>6. Shown("advanced")
    BY <2>1, <2>3, <2>4 DEF UpsetInv, Holds, Pages
  <2>7. page.place = Places(rows, Present(rows)) /\ page.on = Enabled(rows)
    BY <2>6 DEF Shown
  <2>8. Enabled(rows) \in SUBSET Present(rows) /\ Enabled(rows) \subseteq Ids
    BY DEF Enabled, Present
  <2>9. /\ \A i \in Ids : chain.place[i] # 0 <=> i \in Enabled(rows)
        /\ \A i, j \in Enabled(rows) : chain.place[i] < chain.place[j] <=> Before(rows, i, j)
    BY <2>1, <2>5, <2>8, PlacesInOrder
  <2>10. \A i, j \in Present(rows) : page.place[i] < page.place[j] <=> Before(rows, i, j)
    BY <2>1, <2>7, PlacesInOrder
  <2>11. {i \in Ids : chain.place[i] # 0} = Enabled(rows)
    BY <2>8, <2>9
  <2>12. \A i, j \in Enabled(rows) : (chain.place[i] < chain.place[j])
                                       <=> (page.place[i] < page.place[j])
    BY <2>8, <2>9, <2>10
  <2> QED
    BY <2>5, <2>7, <2>11, <2>12
<1> QED
  BY <1>1, SettingsInvariant, PTL

\* What adds a row: the migration, a request to add one, a first basic key.
LEMMA RowAdded ==
    ASSUME TypeInv, NEW c \in Calls, Worker(c), NEW i \in Ids,
           rows[i] = None, rows'[i] # None
    PROVE  \/ Migrate(c)
           \/ InsertCounted(c)
           \/ WriteBasic(c) /\ Present(call[c].found) = {} /\ call[c].ask.key # "clear"
<1> SUFFICES ASSUME ~Migrate(c), ~InsertCounted(c)
             PROVE  WriteBasic(c) /\ Present(call[c].found) = {} /\ call[c].ask.key # "clear"
  OBVIOUS
<1>1. rows' # rows /\ ~(Present(rows') \subseteq Present(rows))
  BY DEF Present
<1>2. ~DeleteRow(c)
  BY <1>1 DEF DeleteRow, Present, TypeInv, TypeOK
<1>3. ~WriteRow(c) /\ ~Reorder(c)
  BY <1>1, WrittenRow, WrittenOrder
<1>4. ~(\/ SelectProviders(c) \/ SelectLegacy(c) \/ CountRows(c) \/ ReadRow(c)
        \/ ReadLegacy(c) \/ WriteLegacy(c) \/ Throw(c) \/ Jobs(c))
  BY <1>1 DEF SelectProviders, SelectLegacy, CountRows, ReadRow, ReadLegacy, WriteLegacy,
              Throw, Jobs, UseOneOff, UseSettings, UseFallback
<1>5. WriteBasic(c)
  BY <1>2, <1>3, <1>4 DEF Worker, Ensure, Providers
<1>6. Present(call[c].found) = {}
  BY <1>1, <1>5, WrittenKey
<1>7. call[c].ask.key # "clear"
  BY <1>1, <1>5, <1>6 DEF WriteBasic
<1> QED
  BY <1>5, <1>6, <1>7

\* The old settings are migrated into an empty list as they are, unless another
\* request was under way.
THEOREM MigrationCorrect == Spec => MigrationIsFaithful
<1> DEFINE Faithful(i) ==
      \E c \in Calls :
         /\ call[c].pc = "migrating" /\ call'[c].pc = "migrated"
         /\ call[c].alone =>
              /\ Present(rows) = {}
              /\ legacy \notin {"none", "bare"}
              /\ rows'[i].key = IF legacy = "broken" THEN None ELSE legacy
<1>1. ASSUME IInv, Next, NEW i \in Ids, rows[i] = None, rows'[i] # None, rows'[i].copy
      PROVE  Faithful(i)
  <2>1. TypeInv /\ FreshInv
    BY <1>1 DEF IInv
  <2>2. PICK c \in Calls : Worker(c)
    BY <1>1, <2>1, UserFrame, AnswerFrame DEF Next
  <2>3. ASSUME NEW row \in Row, Insert(row) PROVE rows'[i] = row
    BY <1>1, <2>1, <2>3, Inserted
  <2>4. CASE Migrate(c)
    <3>1. PICK row \in Row : /\ Insert(row)
                             /\ row.key = IF call[c].key = "broken" THEN None ELSE call[c].key
      BY <2>1, <2>4, MigratedRow
    <3>2. rows'[i].key = IF call[c].key = "broken" THEN None ELSE call[c].key
      BY <2>3, <3>1
    <3>3. call[c].pc = "migrating" /\ call'[c].pc = "migrated"
      BY <2>1, <2>4 DEF Migrate, TypeInv, TypeOK, Call
    <3>4. call[c].key \notin {"none", "bare"}
      BY <2>1, <3>3 DEF TypeInv, Asked
    <3>5. call[c].alone => Present(rows) = {} /\ call[c].key = legacy
      BY <2>1, <3>3 DEF FreshInv, Fresh, Alone, Idle
    <3> QED
      BY <3>2, <3>3, <3>4, <3>5
  <2>5. ~InsertCounted(c)
    <3>1. ASSUME InsertCounted(c) PROVE FALSE
      <4>1. PICK row \in Row : Insert(row) /\ ~row.copy
        BY <2>1, <3>1, CountedRow, Zenon
      <4>2. rows'[i] = row
        BY <2>3, <4>1
      <4> QED
        BY <1>1, <4>1, <4>2, Zenon
    <3> QED
      BY <3>1
  <2>6. ~(WriteBasic(c) /\ Present(call[c].found) = {} /\ call[c].ask.key # "clear")
    <3>1. ASSUME WriteBasic(c), Present(call[c].found) = {}, call[c].ask.key # "clear"
          PROVE  FALSE
      <4>1. PICK row \in Row : Insert(row) /\ ~row.copy
        BY <2>1, <3>1, BasicRow, Zenon
      <4>2. rows'[i] = row
        BY <2>3, <4>1
      <4> QED
        BY <1>1, <4>1, <4>2, Zenon
    <3> QED
      BY <3>1
  <2> QED
    BY <1>1, <2>1, <2>2, <2>4, <2>5, <2>6, RowAdded
<1>2. IInv /\ [Next]_vars =>
        [\A i \in Ids : rows[i] = None /\ rows'[i] # None /\ rows'[i].copy => Faithful(i)]_vars
  BY <1>1
<1> QED
  BY <1>2, SettingsInvariant, PTL DEF Spec, MigrationIsFaithful

\* Without another request under way, only the key a request is about changes,
\* and only as it asks, although handlers write whole rows back.
THEOREM KeysChangeAsAsked == Spec => KeyChangesAreAsked
<1> DEFINE AsAsked(i) ==
      \E c \in Calls :
        /\ call'[c] # call[c] /\ call[c].op \in {"edit", "basic"}
        /\ call[c].alone =>
             /\ i = IF call[c].op = "edit" THEN call[c].id ELSE Target(rows)
             /\ call[c].ask.key # "keep"
             /\ rows'[i].key = NewKey(rows[i].key, call[c].ask.key)
<1>1. ASSUME IInv, Next, NEW i \in Ids, rows[i] # None, rows'[i] # None,
             rows'[i].key # rows[i].key
      PROVE  AsAsked(i)
  <2>1. TypeInv /\ MadeInv /\ FreshInv /\ rows' # rows /\ i \in Present(rows)
    BY <1>1 DEF IInv, Present
  <2>2. PICK c \in Calls : Worker(c)
    BY <1>1, <2>1, UserFrame, AnswerFrame DEF Next
  <2>3. ASSUME NEW row \in Row, Insert(row) PROVE FALSE
    <3>1. /\ made + 1 \notin Present(rows)
          /\ \A j \in Ids \ {made + 1} : rows'[j] = rows[j]
      BY <2>1, <2>3, Inserted, InsertedPresent
    <3> QED
      BY <1>1, <2>1, <3>1
  <2>4. ~Migrate(c) /\ ~InsertCounted(c)
    BY <2>1, <2>3, MigratedRow, CountedRow
  <2>5. ~Reorder(c)
    BY <1>1, <2>1, WrittenOrder
  <2>6. ~DeleteRow(c)
    BY <1>1, <2>1 DEF DeleteRow, TypeInv, TypeOK
  <2>7. ~(\/ SelectProviders(c) \/ SelectLegacy(c) \/ CountRows(c) \/ ReadRow(c)
          \/ ReadLegacy(c) \/ WriteLegacy(c) \/ Throw(c) \/ Jobs(c))
    BY <2>1 DEF SelectProviders, SelectLegacy, CountRows, ReadRow, ReadLegacy,
       WriteLegacy, Throw, Jobs, UseOneOff, UseSettings, UseFallback
  <2>8. CASE WriteRow(c)
    <3>1. /\ call[c].op = "edit" /\ call[c].pc = "read" /\ call'[c].pc = "answered"
      BY <2>1, <2>8 DEF WriteRow, At, TypeInv, TypeOK, Call
    <3>2. i = call[c].id
          /\ rows'[i].key = NewKey(call[c].found[i].key, call[c].ask.key)
      BY <1>1, <2>1, <2>8, WrittenRow
    <3>3. call[c].alone => call[c].found = rows
      BY <2>1, <3>1 DEF FreshInv, Fresh, Alone, Idle
    <3>4. call[c].alone => call[c].ask.key # "keep"
      BY <1>1, <3>2, <3>3 DEF NewKey
    <3> QED
      BY <3>1, <3>2, <3>3, <3>4
  <2>9. CASE WriteBasic(c)
    <3>1. call[c].op = "basic" /\ call[c].pc = "ensured" /\ call'[c].pc = "answered"
      BY <2>1, <2>9 DEF WriteBasic, At, TypeInv, TypeOK, Call
    <3>2. Present(call[c].found) # {}
      <4>1. CASE Present(call[c].found) = {} /\ call[c].ask.key # "clear"
        BY <2>1, <2>3, <2>9, <4>1, BasicRow
      <4>2. CASE Present(call[c].found) = {} /\ call[c].ask.key = "clear"
        BY <2>1, <2>9, <4>2 DEF WriteBasic
      <4> QED
        BY <4>1, <4>2
    <3>3. /\ \A j \in Ids \ {Target(call[c].found)} : rows'[j] = rows[j]
          /\ Target(call[c].found) \in Present(rows) =>
               rows'[Target(call[c].found)].key =
                 NewKey(call[c].found[Target(call[c].found)].key, call[c].ask.key)
      BY <2>1, <2>9, <3>2, WrittenKey
    <3>4. i = Target(call[c].found)
          /\ rows'[i].key = NewKey(call[c].found[i].key, call[c].ask.key)
      BY <1>1, <2>1, <3>3
    <3>5. call[c].alone => call[c].found = rows
      BY <2>1, <3>1 DEF FreshInv, Fresh, Alone, Idle
    <3>6. call[c].alone => call[c].ask.key # "keep"
      BY <1>1, <3>4, <3>5 DEF NewKey
    <3> QED
      BY <3>1, <3>4, <3>5, <3>6
  <2> QED
    BY <2>2, <2>4, <2>5, <2>6, <2>7, <2>8, <2>9 DEF Worker, Ensure, Providers
<1>2. IInv /\ [Next]_vars =>
        [\A i \in Ids : rows[i] # None /\ rows'[i] # None /\ rows'[i].key # rows[i].key
                          => AsAsked(i)]_vars
  BY <1>1
<1> QED
  BY <1>2, SettingsInvariant, PTL DEF Spec, KeyChangesAreAsked

\* A provider added by a request that was alone is listed last, unless one
\* was deleted since a full order was saved.
THEOREM NewProvidersComeLast == Spec => AddedLast
<1>1. ASSUME IInv, Next, NEW i \in Ids, NEW c \in Calls, rows[i] = None, rows'[i] # None,
             call[c].pc = "counted", call'[c].pc = "answered", call[c].alone, ~gap
      PROVE  Places(rows', Present(rows'))[i] = Cardinality(Present(rows'))
  <2>1. /\ TypeInv /\ MadeInv /\ AloneInv /\ FreshInv /\ rows' # rows
        /\ rows \in Rows
    BY <1>1 DEF IInv, TypeInv, TypeOK, Rows
  <2>2. Ratings(rows)
    BY <1>1, Zenon DEF IInv, GapInv
  <2>3. PICK d \in Calls : Worker(d)
    BY <1>1, <2>1, UserFrame, AnswerFrame DEF Next
  <2>4. d = c
    <3>1. \A e \in Calls \ {d} : call'[e] = call[e]
      BY <2>1, <2>3, WorkerFrame
    <3> QED
      BY <1>1, <3>1
  <2>5. InsertCounted(c)
    <3>1. ~Migrate(c) /\ ~WriteBasic(c)
      BY <1>1 DEF Migrate, WriteBasic, At
    <3> QED
      BY <1>1, <2>1, <2>3, <2>4, <3>1, RowAdded
  <2>6. call[c].found = rows
    <3>1. call[c].op # "llm"
      BY <1>1, <2>1 DEF TypeInv, OnCourse
    <3>2. Alone(c)
      BY <1>1 DEF Alone, Idle
    <3> QED
      BY <1>1, <2>1, <3>1, <3>2 DEF FreshInv, Fresh
  <2>7. PICK row \in Row : Insert(row) /\ row.priority = Cardinality(Present(rows)) + 1
    <3>1. \E row \in Row : /\ Insert(row) /\ ~row.copy
                           /\ row.priority = Cardinality(Present(call[c].found)) + 1
      BY <2>1, <2>5, CountedRow, Zenon
    <3> QED
      BY <2>6, <3>1
  <2>8. /\ made + 1 \in Ids /\ rows' \in Rows /\ rows'[made + 1] = row
        /\ \A j \in Ids \ {made + 1} : rows'[j] = rows[j]
    BY <2>1, <2>7, Inserted
  <2>9. /\ made + 1 \notin Present(rows)
        /\ Present(rows') = Present(rows) \cup {made + 1}
        /\ Cardinality(Present(rows)) \in Nat
    BY <2>1, <2>7, InsertedPresent
  <2>10. i = made + 1
    BY <1>1, <2>8
  <2>11. ASSUME NEW j \in Present(rows') \ {i} PROVE rows'[j].priority < rows'[i].priority
    <3>1. j \in Present(rows) /\ rows'[j] = rows[j]
      BY <2>8, <2>9, <2>10, <2>11 DEF Present
    <3>2. rows[j].priority \in Nat /\ rows[j].priority <= Cardinality(Present(rows))
      BY <2>1, <2>2, <3>1, RowsThere DEF Ratings
    <3> QED
      BY <2>7, <2>8, <2>9, <2>10, <3>1, <3>2
  <2> QED
    BY <2>8, <2>9, <2>10, <2>11, LastPlace
<1>2. IInv /\ [Next]_vars =>
        [\A i \in Ids, c \in Calls :
           /\ rows[i] = None /\ rows'[i] # None
           /\ call[c].pc = "counted" /\ call'[c].pc = "answered"
           /\ call[c].alone /\ ~gap
           => Places(rows', Present(rows'))[i] = Cardinality(Present(rows'))]_vars
  BY <1>1
<1> QED
  BY <1>2, SettingsInvariant, PTL DEF Spec, AddedLast

-----------------------------------------------------------------------------
(* One request at a time: what changes of rows do to the list              *)

Shape(row) == [kind |-> row.kind, key |-> row.key, enabled |-> row.enabled]

LEMMA ListOfRows ==
    ASSUME NEW r \in Rows
    PROVE  /\ DOMAIN ListOf(r) = Present(r)
           /\ ListOf(r) = [i \in Present(r) |-> Shape(r[i])]
           /\ \A i \in Present(r) : ListOf(r)[i] = Shape(r[i])
           /\ \A i, j \in Present(r) : <<i, j>> \in OrderOf(r) <=> Before(r, i, j)
BY DEF ListOf, OrderOf, Shape

LEMMA RowsInLine ==
    ASSUME NEW r \in Rows
    PROVE  /\ \A i \in Present(r) : <<i, i>> \notin OrderOf(r)
           /\ \A i, j \in Present(r) :
                i # j => <<i, j>> \in OrderOf(r) \/ <<j, i>> \in OrderOf(r)
           /\ \A i, j, k \in Present(r) :
                <<i, j>> \in OrderOf(r) /\ <<j, k>> \in OrderOf(r) => <<i, k>> \in OrderOf(r)
BY BeforeIsOrder, ListOfRows

LEMMA ListInLine ==
    ASSUME rows \in Rows
    PROVE  List!InLine
BY RowsInLine, ListOfRows DEF List!InLine, List!Ordered, List!Listed

LEMMA ListStaysInLine ==
    ASSUME rows' \in Rows
    PROVE  List!InLine'
BY RowsInLine, ListOfRows DEF List!InLine, List!Ordered, List!Listed

\* Rows that keep their priorities stay in order.
LEMMA RowsStayInOrder ==
    ASSUME rows \in Rows, rows' \in Rows, NEW S, S \subseteq Present(rows),
           S \subseteq Present(rows'),
           \A i \in S : rows'[i].priority = rows[i].priority
    PROVE  List!InOrder(S)
<1>1. \A i, j \in S : Before(rows', i, j) <=> Before(rows, i, j)
  BY DEF Before
<1>2. \A i, j \in S : <<i, j>> \in OrderOf(rows') <=> <<i, j>> \in OrderOf(rows)
  BY <1>1, ListOfRows
<1> QED
  BY <1>2, ListStaysInLine DEF List!InOrder, List!Ordered

LEMMA PutStep ==
    ASSUME rows \in Rows, rows' \in Rows, NEW n \in Ids \ Present(rows), NEW row \in Row,
           rows' = [rows EXCEPT ![n] = row], legacy' = legacy
    PROVE  List!Put(Shape(row))
<1>1. /\ rows'[n] = row /\ \A j \in Present(rows) : rows'[j] = rows[j]
      /\ Present(rows') = Present(rows) \cup {n}
  BY NoneAssumption DEF Present, Rows
<1>2. ListOf(rows') = [j \in Present(rows) \cup {n} |->
                         IF j = n THEN Shape(row) ELSE ListOf(rows)[j]]
  <2>1. /\ ListOf(rows') = [j \in Present(rows') |-> Shape(rows'[j])]
        /\ \A j \in Present(rows) : ListOf(rows)[j] = Shape(rows[j])
    BY ListOfRows
  <2>2. \A j \in Present(rows) : Shape(rows'[j]) = ListOf(rows)[j] /\ j # n
    BY <1>1, <2>1
  <2> QED
    BY <1>1, <2>1, <2>2
<1>3. List!InOrder(Present(rows))
  BY <1>1, RowsStayInOrder
<1> QED
  BY <1>2, <1>3, ListOfRows DEF List!Put, List!Listed

LEMMA WriteStep ==
    ASSUME rows \in Rows, rows' \in Rows, NEW i \in Present(rows), NEW p,
           Present(rows') = Present(rows), Shape(rows'[i]) = p,
           rows'[i].priority = rows[i].priority,
           \A j \in Ids \ {i} : rows'[j] = rows[j], legacy' = legacy
    PROVE  List!Write(i, p)
<1>1. ListOf(rows') = [ListOf(rows) EXCEPT ![i] = p]
  <2>1. /\ ListOf(rows') = [j \in Present(rows) |-> Shape(rows'[j])]
        /\ ListOf(rows) = [j \in Present(rows) |-> Shape(rows[j])]
    BY ListOfRows
  <2>2. \A j \in Present(rows) \ {i} : rows'[j] = rows[j]
    BY DEF Present
  <2> QED
    BY <2>1, <2>2
<1>2. \A j, k \in Present(rows) : Before(rows', j, k) <=> Before(rows, j, k)
  BY DEF Before, Present
<1>3. OrderOf(rows') = OrderOf(rows)
  BY <1>2 DEF OrderOf
<1> QED
  BY <1>1, <1>3, ListOfRows DEF List!Write, List!Listed

LEMMA RemoveStep ==
    ASSUME rows \in Rows, NEW i \in Ids, rows' = [rows EXCEPT ![i] = None], legacy' = legacy
    PROVE  List!Remove(i)
<1>1. /\ rows' \in Rows /\ Present(rows') = Present(rows) \ {i}
      /\ \A j \in Present(rows') : rows'[j] = rows[j]
  BY DEF Rows, Present
<1>2. ListOf(rows') = [j \in Present(rows) \ {i} |-> ListOf(rows)[j]]
  <2>1. /\ ListOf(rows') = [j \in Present(rows') |-> Shape(rows'[j])]
        /\ \A j \in Present(rows) : ListOf(rows)[j] = Shape(rows[j])
    BY <1>1, ListOfRows
  <2> QED
    BY <1>1, <2>1
<1>3. List!InOrder(Present(rows) \ {i})
  BY <1>1, RowsStayInOrder
<1> QED
  BY <1>2, <1>3, ListOfRows DEF List!Remove, List!Listed

LEMMA ArrangeStep ==
    ASSUME rows \in Rows, rows' \in Rows, NEW place \in [Ids -> Nat],
           \A i, j \in Ids : place[i] # 0 /\ place[i] = place[j] => i = j,
           rows' = [i \in Ids |-> IF rows[i] = None \/ place[i] = 0 THEN rows[i]
                                  ELSE [rows[i] EXCEPT !.priority = place[i]]],
           legacy' = legacy
    PROVE  List!Arrange(place)
<1> DEFINE named == {i \in Present(rows) : place[i] # 0}
<1>1. Present(rows) \subseteq Ids /\ \A i \in Present(rows) : rows[i] \in Row /\ rows[i] # None
  BY RowsThere DEF Present
<1>2. /\ \A i \in named : rows'[i] = [rows[i] EXCEPT !.priority = place[i]]
      /\ \A i \in Ids \ named : rows'[i] = rows[i]
  BY <1>1 DEF Present
<1>3. /\ \A i \in named : rows'[i] # None /\ rows'[i].priority = place[i]
                          /\ Shape(rows'[i]) = Shape(rows[i])
  <2> SUFFICES ASSUME NEW i \in named
               PROVE  /\ rows'[i] # None /\ rows'[i].priority = place[i]
                      /\ Shape(rows'[i]) = Shape(rows[i])
    OBVIOUS
  <2>1. rows[i] \in Row /\ rows'[i] = [rows[i] EXCEPT !.priority = place[i]] /\ i \in Ids
    BY <1>1, <1>2
  <2>2. rows'[i] \in Row
    BY <1>1, <2>1 DEF Row
  <2> QED
    BY <2>1, <2>2, NoneAssumption DEF Row, Shape
<1>4. Present(rows') = Present(rows)
  BY <1>1, <1>2, <1>3 DEF Present
<1>5. ListOf(rows') = ListOf(rows)
  <2>1. \A i \in Present(rows) : Shape(rows'[i]) = Shape(rows[i])
    BY <1>1, <1>2, <1>3
  <2>2. /\ ListOf(rows') = [i \in Present(rows) |-> Shape(rows'[i])]
        /\ ListOf(rows) = [i \in Present(rows) |-> Shape(rows[i])]
    BY <1>4, ListOfRows
  <2>3. /\ ListOf(rows') = [i \in Present(rows) |-> ListOf(rows)[i]]
        /\ ListOf(rows) = [i \in Present(rows) |-> ListOf(rows)[i]]
    BY <2>1, <2>2
  <2> QED
    BY <2>3
<1>6. List!InOrder(Present(rows) \ named)
  BY <1>1, <1>2, <1>4, RowsStayInOrder
<1>7. \A i, j \in named : <<i, j>> \in OrderOf(rows') <=> place[i] < place[j]
  <2> SUFFICES ASSUME NEW i \in named, NEW j \in named
               PROVE  <<i, j>> \in OrderOf(rows') <=> place[i] < place[j]
    OBVIOUS
  <2>1. <<i, j>> \in OrderOf(rows') <=> Before(rows', i, j)
    BY <1>4, ListOfRows
  <2>2. /\ i \in Ids /\ j \in Ids /\ place[i] \in Nat /\ place[j] \in Nat
        /\ rows'[i].priority = place[i] /\ rows'[j].priority = place[j]
        /\ place[i] = place[j] => i = j
    BY <1>1, <1>3
  <2>3. i = j => ~(i < j)
    BY <2>2, BoundsAssumption DEF Ids
  <2>4. Before(rows', i, j) <=> place[i] < place[j]
    BY <2>2, <2>3 DEF Before
  <2> QED
    BY <2>1, <2>4
<1>8. /\ DOMAIN ListOf(rows) = Present(rows)
      /\ named = {i \in DOMAIN ListOf(rows) : place[i] # 0}
  BY ListOfRows
<1> HIDE DEF named
<1> QED
  BY <1>5, <1>6, <1>7, <1>8 DEF List!Arrange, List!InOrder, List!Listed, List!Ordered

-----------------------------------------------------------------------------
(* One request at a time: what the list is asked for                       *)

Req == Request(Asking(call))

LEMMA AskingOne ==
    ASSUME NEW f, NEW c \in Calls, \A d \in Calls \ {c} : f[d].pc = "idle",
           f[c].pc = "idle" => f[c] = NoCall
    PROVE  Asking(f) = f[c]
<1>1. CASE f[c].pc = "idle"
  BY <1>1 DEF Asking
<1>2. CASE f[c].pc # "idle"
  <2>1. (CHOOSE d \in Calls : f[d].pc # "idle") = c
    BY <1>2
  <2> QED
    BY <1>2, <2>1 DEF Asking
<1> QED
  BY <1>1, <1>2

LEMMA RequestFields ==
    ASSUME NEW x
    PROVE  /\ Request(x).op = x.op /\ Request(x).id = x.id /\ Request(x).key = x.ask.key
           /\ Request(x).enabled = x.ask.enabled /\ Request(x).place = x.place
           /\ Request(x).kind = IF x.op = "job" THEN "keep" ELSE x.ask.kind
           /\ Request(x).state = IF x.pc = "answered" THEN "done"
                                 ELSE IF x.pc = "refused" THEN "denied" ELSE "asked"
BY DEF Request

LEMMA RequestMoves ==
    ASSUME NEW x, NEW y, x.op = y.op, x.id = y.id, x.place = y.place,
           x.ask.key = y.ask.key, x.ask.enabled = y.ask.enabled,
           y.op = "job" \/ x.ask.kind = y.ask.kind
    PROVE  /\ x.pc = "answered" => Request(x) = [Request(y) EXCEPT !.state = "done"]
           /\ x.pc = "refused" => Request(x) = [Request(y) EXCEPT !.state = "denied"]
           /\ x.pc \notin {"answered", "refused"} /\ y.pc \notin {"answered", "refused"} =>
                Request(x) = Request(y)
BY DEF Request

\* A statement of a handler finds its request asked for, and leaves the type
\* that is asked for, unless it chooses that for a job.
LEMMA WorkerAsk ==
    ASSUME TypeInv, NEW c \in Calls, Worker(c)
    PROVE  /\ call[c].op = "job" \/ call'[c].ask.kind = call[c].ask.kind
           /\ call[c].pc \notin {"idle", "answered", "refused"}
<1>1. call \in [Calls -> Call] /\ call[c] \in Call
  BY DEF TypeInv, TypeOK
<1>2. call[c].pc \notin {"idle", "answered", "refused"}
  BY DEF Worker, Ensure, Providers, Jobs, SelectProviders, SelectLegacy, Migrate,
     WriteBasic, CountRows, InsertCounted, ReadRow, WriteRow, DeleteRow, Reorder,
     ReadLegacy, WriteLegacy, UseOneOff, UseSettings, UseFallback, Throw, At
<1>3. UseOneOff(c) => call[c].op = "job"
  BY DEF UseOneOff, At
<1>4. (\/ SelectProviders(c) \/ SelectLegacy(c) \/ CountRows(c) \/ ReadRow(c)
       \/ DeleteRow(c) \/ ReadLegacy(c)) => call'[c].ask = call[c].ask
  BY <1>1 DEF SelectProviders, SelectLegacy, CountRows, ReadRow, DeleteRow, ReadLegacy, Call
<1>5. (\/ Migrate(c) \/ WriteBasic(c) \/ InsertCounted(c) \/ WriteRow(c) \/ Reorder(c)
       \/ WriteLegacy(c) \/ Throw(c)) => call'[c].ask = call[c].ask
  BY <1>1 DEF Migrate, WriteBasic, InsertCounted, WriteRow, Reorder, WriteLegacy, Throw, Call
<1>6. UseSettings(c) \/ (\E f \in Configs : UseFallback(c, f)) => call[c].op = "job"
  BY DEF UseSettings, UseFallback, At
<1> QED
  BY <1>2, <1>3, <1>4, <1>5, <1>6 DEF Worker, Ensure, Providers, Jobs

\* What is asked for while a handler goes on, and what becomes of it.
Asks(y) == /\ Req.op = y.op /\ Req.id = y.id /\ Req.key = y.ask.key
           /\ Req.enabled = y.ask.enabled /\ Req.place = y.place
           /\ Req.kind = IF y.op = "job" THEN "keep" ELSE y.ask.kind
           /\ Req.state = "asked"

Answers(x) == /\ x.pc = "answered" => Req' = [Req EXCEPT !.state = "done"]
              /\ x.pc = "refused" => Req' = [Req EXCEPT !.state = "denied"]
              /\ x.pc \notin {"answered", "refused"} => Req' = Req

LEMMA LoneRequest ==
    ASSUME TypeInv, NEW c \in Calls, Worker(c), \A d \in Calls \ {c} : Idle(d)
    PROVE  Asks(call[c]) /\ Answers(call'[c])
<1> DEFINE y == call[c]
           x == call'[c]
<1>1. /\ y.op = "job" \/ x.ask.kind = y.ask.kind
      /\ y.pc \notin {"idle", "answered", "refused"}
  BY WorkerAsk
<1>2. /\ x.op = y.op /\ x.id = y.id /\ x.place = y.place /\ x.ask.key = y.ask.key
      /\ x.ask.enabled = y.ask.enabled /\ x.pc # "idle"
      /\ \A d \in Calls \ {c} : call'[d] = call[d]
  BY WorkerFrame DEF Kept
<1>3. \A d \in Calls \ {c} : call[d].pc = "idle" /\ call'[d].pc = "idle"
  BY <1>2 DEF Idle
<1>4. Asking(call) = y
  BY <1>1, <1>3, AskingOne
<1>5. Asking(call') = x
  BY <1>2, <1>3, AskingOne
<1> HIDE DEF x, y
<1>6. Req = Request(y) /\ Req' = Request(x)
  BY <1>4, <1>5 DEF Req
<1>7. Asks(y)
  BY <1>1, <1>6, RequestFields DEF Asks
<1>8. Answers(x)
  BY <1>1, <1>2, <1>6, RequestMoves DEF Answers
<1> QED
  BY <1>7, <1>8 DEF x, y

LEMMA MigratableList == List!Migratable <=> Migratable
BY DEF List!Migratable, List!Listed, Migratable, ListOf

\* The first provider and the one the basic page is about are those of the list.
LEMMA FirstOfList ==
    ASSUME rows \in Rows, NEW S \in SUBSET Present(rows), S # {}
    PROVE  List!IsFirst(First(rows, S), S)
<1>1. First(rows, S) \in S /\ \A j \in S \ {First(rows, S)} : Before(rows, First(rows, S), j)
  BY FirstIsFirst
<1> QED
  BY <1>1, ListOfRows DEF List!IsFirst, List!Ordered

LEMMA TargetOfList ==
    ASSUME rows \in Rows, Present(rows) # {}
    PROVE  List!IsTarget(Target(rows))
<1> DEFINE compatible == {i \in Present(rows) : rows[i].kind = "openai_compatible"}
           S == IF compatible # {} THEN compatible ELSE Present(rows)
<1>1. S \in SUBSET Present(rows) /\ S # {}
  OBVIOUS
<1>2. Target(rows) = First(rows, S)
  BY DEF Target
<1>3. List!IsFirst(Target(rows), S)
  <2> HIDE DEF S
  <2> QED
    BY <1>1, <1>2, FirstOfList
<1>4. /\ List!Listed = Present(rows)
      /\ {j \in List!Listed : ListOf(rows)[j].kind = "openai_compatible"} = compatible
  BY ListOfRows DEF List!Listed, Shape
<1> QED
  BY <1>3, <1>4 DEF List!IsTarget

LEMMA SameKey ==
    \A old, key : List!NewKey(old, key) = NewKey(old, key)
BY DEF List!NewKey, NewKey

-----------------------------------------------------------------------------
(* One request at a time: each statement is a step of the list, or none    *)

\* A statement that only reads.
LEMMA ReadStep ==
    ASSUME NEW c \in Calls, Asks(call[c]), Answers(call'[c]), rows' = rows, legacy' = legacy
    PROVE  /\ call'[c].pc = "answered" /\ call[c].op \in {"load", "list", "job"}
              /\ ~Migratable => List!Next
           /\ call'[c].pc = "refused" => List!Next
           /\ call'[c].pc \notin {"answered", "refused"} => UNCHANGED List!state
<1>1. UNCHANGED <<ListOf(rows), OrderOf(rows), legacy>>
  OBVIOUS
<1>2. ASSUME call'[c].pc = "answered", call[c].op \in {"load", "list", "job"}, ~Migratable
      PROVE  List!Do
  <2>1. List!Look
    BY <1>1, <1>2, MigratableList DEF List!Look
  <2> QED
    BY <1>2, <2>1 DEF List!Do, Asks, Answers, Req
<1>3. ASSUME call'[c].pc = "refused" PROVE List!Deny
  BY <1>1, <1>3 DEF List!Deny, Asks, Answers, Req
<1>4. ASSUME call'[c].pc \notin {"answered", "refused"} PROVE UNCHANGED List!state
  BY <1>1, <1>4 DEF List!state, Answers, Req
<1> QED
  BY <1>2, <1>3, <1>4 DEF List!Next

LEMMA EnsureImplements ==
    ASSUME TypeInv, TypeInv', MadeInv, NEW c \in Calls, Ensure(c), Fresh(call[c]),
           Asks(call[c]), Answers(call'[c])
    PROVE  List!Next \/ UNCHANGED List!state
<1> DEFINE y == call[c]
           x == call'[c]
<1>1. /\ call \in [Calls -> Call] /\ y \in Call /\ OnCourse(y) /\ Asked(y)
      /\ rows \in Rows /\ rows' \in Rows
  BY DEF TypeInv, TypeOK, Rows
<1>2. CASE SelectProviders(c)
  <2>1. /\ rows' = rows /\ legacy' = legacy
        /\ y.op \in {"load", "list", "basic", "job"} /\ y.pc \in {"sent", "migrated"}
        /\ x.pc = IF Present(rows) = {} /\ y.pc = "sent" THEN "empty" ELSE AfterEnsure(c)
    BY <1>1, <1>2 DEF SelectProviders, Call
  <2>2. /\ y.op \in {"load", "list"} => AfterEnsure(c) = "answered"
        /\ y.op \in {"basic", "job"} => AfterEnsure(c) = "ensured"
    BY AfterEnsureIs
  <2>3. y.pc = "migrated" => Present(rows) # {}
    BY DEF Fresh
  <2>4. x.pc = "answered" => y.op \in {"load", "list"} /\ ~Migratable
    BY <2>1, <2>2, <2>3 DEF Migratable
  <2> QED
    BY <2>1, <2>4, ReadStep
<1>3. CASE SelectLegacy(c)
  <2>1. rows' = rows /\ legacy' = legacy /\ y.pc = "empty"
    BY <1>3 DEF SelectLegacy
  <2>2. /\ y.op \in {"load", "list"} => AfterEnsure(c) = "answered"
        /\ y.op \in {"basic", "job"} => AfterEnsure(c) = "ensured"
        /\ y.op \in {"load", "list", "basic", "job"}
    BY <1>1, <2>1, AfterEnsureIs DEF OnCourse, Call, Ops
  <2>3. CASE legacy \in {"none", "bare"}
    <3>1. x.pc = AfterEnsure(c) /\ ~Migratable
      BY <1>1, <1>3, <2>3 DEF SelectLegacy, Call, Migratable
    <3> QED
      BY <2>1, <2>2, <3>1, ReadStep
  <2>4. CASE legacy \notin {"none", "bare"}
    <3>1. x.pc = "migrating"
      BY <1>1, <1>3, <2>4 DEF SelectLegacy, Call
    <3> QED
      BY <2>1, <3>1, ReadStep
  <2> QED
    BY <2>3, <2>4
<1>4. CASE Migrate(c)
  <2>1. /\ legacy' = legacy /\ y.pc = "migrating" /\ x.pc = "migrated"
    BY <1>1, <1>4 DEF Migrate, Call
  <2>2. y.op \in {"load", "list", "basic", "job"} /\ y.key \notin {"none", "bare"}
    BY <1>1, <2>1 DEF OnCourse, Asked, Call, Ops
  <2>3. Present(rows) = {} /\ y.key = legacy
    BY <2>1 DEF Fresh
  <2>4. PICK row \in Row : /\ Insert(row)
                           /\ row.key = IF y.key = "broken" THEN None ELSE y.key
                           /\ row.kind = "openai_compatible" /\ row.enabled = "on"
    BY <1>4, MigratedRow, Zenon
  <2>5. made + 1 \in Ids \ Present(rows) /\ rows' = [rows EXCEPT ![made + 1] = row]
    BY <2>4, Inserted, InsertedPresent
  <2>6. List!Put(Shape(row))
    BY <1>1, <2>1, <2>5, PutStep
  <2>7. Shape(row) = List!Provider("openai_compatible",
                                   IF legacy = "broken" THEN None ELSE legacy, "on")
    BY <2>3, <2>4 DEF Shape, List!Provider
  <2>8. List!Put(List!Provider("openai_compatible",
                               IF legacy = "broken" THEN None ELSE legacy, "on"))
    BY <2>6, <2>7 DEF List!Put
  <2>9. List!Migratable
    BY <2>2, <2>3, MigratableList DEF Migratable
  <2> HIDE DEF x, y
  <2>10. List!Migrate
    BY <2>1, <2>2, <2>8, <2>9 DEF List!Migrate, Asks, Answers, Req, x, y
  <2> QED
    BY <2>10 DEF List!Next
<1> QED
  BY <1>2, <1>3, <1>4 DEF Ensure

LEMMA BasicImplements ==
    ASSUME TypeInv, TypeInv', MadeInv, NEW c \in Calls, WriteBasic(c), Fresh(call[c]),
           Asks(call[c]), Answers(call'[c])
    PROVE  List!Next
<1> DEFINE y == call[c]
           x == call'[c]
           i == Target(rows)
<1>1. /\ call \in [Calls -> Call] /\ y \in Call /\ Asked(y)
      /\ rows \in Rows /\ rows' \in Rows
  BY DEF TypeInv, TypeOK, Rows
<1>2. /\ y.op = "basic" /\ y.pc = "ensured" /\ x.pc = "answered" /\ legacy' = legacy
  BY <1>1 DEF WriteBasic, At, Call
<1>3. y.found = rows /\ ~List!Migratable
  BY <1>2, MigratableList DEF Fresh
<1>4. List!Listed = Present(rows)
  BY <1>1, ListOfRows DEF List!Listed
<1>5. CASE Present(rows) # {}
  <2>1. /\ Present(rows') = Present(rows)
        /\ \A j \in Ids \ {i} : rows'[j] = rows[j]
        /\ \A j \in Present(rows) : /\ rows'[j].priority = rows[j].priority
                                    /\ rows'[j].kind = rows[j].kind
                                    /\ rows'[j].enabled = rows[j].enabled
        /\ i \in Present(rows) => rows'[i].key = NewKey(rows[i].key, y.ask.key)
    BY <1>3, <1>5, WrittenKey
  <2>2. i \in Present(rows) /\ List!IsTarget(i)
    BY <1>1, <1>5, TargetIsThere, TargetOfList
  <2> HIDE DEF i
  <2>3. Shape(rows'[i]) = List!Provider(ListOf(rows)[i].kind,
                                        List!NewKey(ListOf(rows)[i].key, Req.key),
                                        ListOf(rows)[i].enabled)
    <3>1. ListOf(rows)[i] = Shape(rows[i]) /\ Req.key = y.ask.key
      BY <1>1, <2>2, ListOfRows DEF Asks
    <3> QED
      BY <2>1, <2>2, <3>1, SameKey DEF Shape, List!Provider
  <2>4. List!Write(i, Shape(rows'[i]))
    BY <1>1, <1>2, <2>1, <2>2, WriteStep
  <2>5. List!Write(i, List!Provider(ListOf(rows)[i].kind,
                                    List!NewKey(ListOf(rows)[i].key, Req.key),
                                    ListOf(rows)[i].enabled))
    BY <2>3, <2>4 DEF List!Write
  <2>6. List!SetBasicKey
    BY <1>3, <1>4, <2>2, <2>5 DEF List!SetBasicKey, Req
  <2> QED
    BY <1>2, <2>6 DEF List!Next, List!Do, Asks, Answers, Req
<1>6. CASE Present(rows) = {} /\ y.ask.key # "clear"
  <2>1. PICK row \in Row : /\ Insert(row) /\ row.key = y.ask.key
                           /\ row.kind = "openai_compatible" /\ row.enabled = "on"
    BY <1>3, <1>6, BasicRow, Zenon
  <2>2. made + 1 \in Ids \ Present(rows) /\ rows' = [rows EXCEPT ![made + 1] = row]
    BY <2>1, Inserted, InsertedPresent
  <2>3. List!Put(Shape(row))
    BY <1>1, <1>2, <2>2, PutStep
  <2>4. Shape(row) = List!Provider("openai_compatible", Req.key, "on")
    BY <2>1 DEF Shape, List!Provider, Asks
  <2>5. List!Put(List!Provider("openai_compatible", Req.key, "on"))
    BY <2>3, <2>4 DEF List!Put
  <2>6. List!SetBasicKey
    BY <1>3, <1>4, <1>6, <2>5 DEF List!SetBasicKey, Asks, Req
  <2> QED
    BY <1>2, <2>6 DEF List!Next, List!Do, Asks, Answers, Req
<1>7. CASE Present(rows) = {} /\ y.ask.key = "clear"
  <2>1. rows' = rows
    BY <1>3, <1>7 DEF WriteBasic
  <2>2. List!Look
    BY <1>2, <1>3, <2>1 DEF List!Look
  <2>3. List!SetBasicKey
    BY <1>3, <1>4, <1>7, <2>2 DEF List!SetBasicKey, Asks, Req
  <2> QED
    BY <1>2, <2>3 DEF List!Next, List!Do, Asks, Answers, Req
<1> QED
  BY <1>5, <1>6, <1>7

LEMMA InsertImplements ==
    ASSUME TypeInv, TypeInv', MadeInv, NEW c \in Calls, InsertCounted(c), Fresh(call[c]),
           Asks(call[c]), Answers(call'[c])
    PROVE  List!Next
<1> DEFINE y == call[c]
           x == call'[c]
<1>1. /\ call \in [Calls -> Call] /\ y \in Call /\ OnCourse(y) /\ Asked(y)
      /\ rows \in Rows /\ rows' \in Rows
  BY DEF TypeInv, TypeOK, Rows
<1>2. /\ y.pc = "counted" /\ x.pc = "answered" /\ legacy' = legacy
      /\ y.op \in {"add", "job"}
  BY <1>1 DEF InsertCounted, Call, OnCourse, Ops
<1>3. PICK row \in Row : /\ Insert(row) /\ row.kind = y.ask.kind /\ row.key = y.ask.key
                         /\ row.enabled = y.ask.enabled
  BY CountedRow, Zenon
<1>4. made + 1 \in Ids \ Present(rows) /\ rows' = [rows EXCEPT ![made + 1] = row]
  BY <1>3, Inserted, InsertedPresent
<1>5. List!Put(Shape(row))
  BY <1>1, <1>2, <1>4, PutStep
<1>6. CASE y.op = "add"
  <2>1. Shape(row) = List!Provider(Req.kind, Req.key, Req.enabled)
    BY <1>3, <1>6 DEF Shape, List!Provider, Asks
  <2>2. List!Put(List!Provider(Req.kind, Req.key, Req.enabled))
    BY <1>5, <2>1 DEF List!Put
  <2> QED
    BY <1>2, <1>6, <2>2 DEF List!Next, List!Do, Asks, Answers, Req
<1>7. CASE y.op = "job"
  <2> DEFINE i == First(rows, Present(rows))
  <2>1. /\ y.ask.key \in Keys /\ y.ask.enabled = "on"
        /\ Present(rows) # {} /\ y.ask.kind = rows[i].kind
    BY <1>1, <1>2, <1>7 DEF Asked, Fresh
  <2>2. i \in Present(rows) /\ List!IsFirst(i, Present(rows))
    BY <1>1, <2>1, FirstIsFirst, FirstOfList
  <2> HIDE DEF i
  <2>3. Shape(row) = List!Provider(ListOf(rows)[i].kind, Req.key, "on")
    <3>1. ListOf(rows)[i] = Shape(rows[i]) /\ Req.key = y.ask.key
      BY <1>1, <2>2, ListOfRows DEF Asks
    <3> QED
      BY <1>3, <2>1, <3>1 DEF Shape, List!Provider
  <2>4. List!Put(List!Provider(ListOf(rows)[i].kind, Req.key, "on"))
    BY <1>5, <2>3 DEF List!Put
  <2>5. List!Listed = Present(rows)
    BY <1>1, ListOfRows DEF List!Listed
  <2>6. List!SaveJobKey
    BY <2>1, <2>2, <2>4, <2>5 DEF List!SaveJobKey, Asks, Req
  <2> QED
    BY <1>2, <1>7, <2>6 DEF List!Next, List!Do, Asks, Answers, Req
<1> QED
  BY <1>2, <1>6, <1>7

LEMMA RowImplements ==
    ASSUME TypeInv, TypeInv', PlaceInv, NEW c \in Calls,
           WriteRow(c) \/ DeleteRow(c) \/ Reorder(c), Fresh(call[c]),
           Asks(call[c]), Answers(call'[c])
    PROVE  List!Next
<1> DEFINE y == call[c]
           x == call'[c]
           i == y.id
<1>1. /\ call \in [Calls -> Call] /\ y \in Call /\ Asked(y)
      /\ rows \in Rows /\ rows' \in Rows
  BY DEF TypeInv, TypeOK, Rows
<1>2. x.pc = "answered" /\ legacy' = legacy
  BY <1>1 DEF WriteRow, DeleteRow, Reorder, Call
<1>3. CASE WriteRow(c)
  <2>1. y.op = "edit" /\ y.pc = "read"
    BY <1>3 DEF WriteRow, At
  <2>2. y.found = rows /\ i \in Present(rows)
    BY <1>1, <2>1 DEF Fresh, Asked, Present
  <2>3. /\ Present(rows') = Present(rows)
        /\ \A j \in Ids \ {i} : rows'[j] = rows[j]
        /\ rows'[i].priority = rows[i].priority
        /\ rows'[i].key = NewKey(rows[i].key, y.ask.key)
        /\ rows'[i].kind = IF y.ask.kind = "keep" THEN rows[i].kind ELSE y.ask.kind
        /\ rows'[i].enabled = IF y.ask.enabled = "keep" THEN rows[i].enabled
                              ELSE y.ask.enabled
    BY <1>3, <2>2, WrittenRow
  <2> DEFINE p == List!Provider(List!Changed(ListOf(rows)[i].kind, Req.kind),
                                List!NewKey(ListOf(rows)[i].key, Req.key),
                                List!Changed(ListOf(rows)[i].enabled, Req.enabled))
  <2>4. Shape(rows'[i]) = p
    <3>1. /\ ListOf(rows)[i] = Shape(rows[i]) /\ Req.key = y.ask.key
          /\ Req.kind = y.ask.kind /\ Req.enabled = y.ask.enabled
      BY <1>1, <2>1, <2>2, ListOfRows DEF Asks
    <3> HIDE DEF i
    <3> QED
      BY <2>3, <3>1, SameKey DEF Shape, List!Provider, List!Changed
  <2>5. List!Write(i, Shape(rows'[i]))
    BY <1>1, <1>2, <2>2, <2>3, WriteStep
  <2>6. Req.id = i
    BY DEF Asks
  <2>7. List!Edit(Req.id)
    BY <2>4, <2>5, <2>6 DEF List!Edit, List!Write, Req
  <2> QED
    BY <1>2, <2>1, <2>7 DEF List!Next, List!Do, Asks, Answers, Req
<1>4. CASE DeleteRow(c)
  <2>1. y.op = "delete" /\ y.id \in Ids /\ rows' = [rows EXCEPT ![y.id] = None]
    BY <1>1, <1>4 DEF DeleteRow, At, Asked
  <2>2. List!Remove(y.id)
    BY <1>1, <1>2, <2>1, RemoveStep
  <2>3. List!Remove(Req.id)
    BY <2>2 DEF List!Remove, List!InOrder, Asks
  <2> QED
    BY <1>2, <2>1, <2>3 DEF List!Next, List!Do, Asks, Answers, Req
<1>5. CASE Reorder(c)
  <2>1. /\ y.op = "order"
        /\ rows' = [j \in Ids |-> IF rows[j] = None \/ y.place[j] = 0 THEN rows[j]
                                  ELSE [rows[j] EXCEPT !.priority = y.place[j]]]
    BY <1>5 DEF Reorder, At
  <2>2. y.place \in [Ids -> Nat]
    BY <1>1 DEF Call
  <2>3. \A j, k \in Ids : y.place[j] # 0 /\ y.place[j] = y.place[k] => j = k
    BY DEF PlaceInv, Numbers, Rated
  <2>4. List!Arrange(y.place)
    BY <1>1, <1>2, <2>1, <2>2, <2>3, ArrangeStep
  <2>5. List!Arrange(Req.place)
    BY <2>4 DEF List!Arrange, List!InOrder, Asks
  <2> QED
    BY <1>2, <2>1, <2>5 DEF List!Next, List!Do, Asks, Answers, Req
<1> QED
  BY <1>3, <1>4, <1>5

LEMMA LegacyImplements ==
    ASSUME TypeInv, NEW c \in Calls, WriteLegacy(c), Fresh(call[c]),
           Asks(call[c]), Answers(call'[c])
    PROVE  List!Next
<1>1. call \in [Calls -> Call] /\ call[c] \in Call
  BY DEF TypeInv, TypeOK
<1>2. /\ call[c].op = "llm" /\ call[c].pc = "read" /\ call'[c].pc = "answered"
      /\ rows' = rows
  BY <1>1 DEF WriteLegacy, At, Call
<1>3. call[c].key = legacy
  BY <1>2 DEF Fresh
<1>4. legacy' = IF Req.key \in Keys THEN Req.key
                ELSE IF Req.key = "clear" \/ legacy = "none" THEN "bare" ELSE legacy
  BY <1>3 DEF WriteLegacy, Asks
<1>5. List!SetOldKey
  BY <1>2, <1>4 DEF List!SetOldKey, Req
<1> QED
  BY <1>2, <1>5 DEF List!Next, List!Do, Asks, Answers, Req

LEMMA LookImplements ==
    ASSUME TypeInv, NEW c \in Calls,
           CountRows(c) \/ ReadRow(c) \/ ReadLegacy(c) \/ Jobs(c) \/ Throw(c),
           Fresh(call[c]), Asks(call[c]), Answers(call'[c])
    PROVE  List!Next \/ UNCHANGED List!state
<1>1. call \in [Calls -> Call] /\ call[c] \in Call
  BY DEF TypeInv, TypeOK
<1>2. rows' = rows /\ legacy' = legacy
  BY DEF CountRows, ReadRow, ReadLegacy, Jobs, UseOneOff, UseSettings, UseFallback, Throw
<1>3. CASE CountRows(c) \/ ReadRow(c) \/ ReadLegacy(c)
  <2>1. call'[c].pc \in {"counted", "read", "refused"}
    BY <1>1, <1>3 DEF CountRows, ReadRow, ReadLegacy, Call
  <2> QED
    BY <1>2, <2>1, ReadStep
<1>4. CASE Jobs(c)
  <2>1. call[c].op = "job" /\ call[c].pc = "ensured"
    BY <1>4 DEF Jobs, UseOneOff, UseSettings, UseFallback, At
  <2>2. ~Migratable
    BY <2>1 DEF Fresh
  <2> QED
    BY <1>2, <2>1, <2>2, ReadStep
<1>5. CASE Throw(c)
  <2>1. \/ call'[c].pc = "refused"
        \/ call'[c].pc = "answered" /\ call[c].op = "job" /\ call[c].pc \in {"saving", "counted"}
    BY <1>1, <1>5 DEF Throw, Call
  <2>2. call'[c].pc = "answered" => ~Migratable
    BY <2>1 DEF Fresh, Migratable
  <2> QED
    BY <1>2, <2>1, <2>2, ReadStep
<1> QED
  BY <1>3, <1>4, <1>5

LEMMA UserImplements ==
    ASSUME TypeInv, NEW c \in Calls, User(c), \A d \in Calls \ {c} : Idle(d)
    PROVE  List!Next
<1>1. /\ call[c].pc = "idle" /\ call'[c].pc = "sent" /\ rows' = rows /\ legacy' = legacy
      /\ \A d \in Calls \ {c} : call'[d].pc = call[d].pc
  BY UserFrame DEF StaysBut
<1>2. call[c].op = "none" /\ call[c] = NoCall
  BY <1>1, IdleAsks DEF Idle
<1>3. Asking(call) = call[c] /\ Asking(call') = call'[c]
  BY <1>1, <1>2, AskingOne DEF Idle
<1>4. Req.op = "none" /\ Req'.state = "asked"
  BY <1>1, <1>2, <1>3, RequestFields DEF Req
<1>5. List!Ask
  BY <1>1, <1>4 DEF List!Ask, Req
<1> QED
  BY <1>5 DEF List!Next

LEMMA AnswerImplements ==
    ASSUME TypeInv, NEW c \in Calls, Receive(c) \/ Fail(c), \A d \in Calls \ {c} : Idle(d)
    PROVE  List!Next
<1>1. /\ rows' = rows /\ legacy' = legacy
      /\ call'[c] = NoCall \/ call'[c] = Reload(c)
      /\ \A d \in Calls \ {c} : call'[d] = call[d]
  BY AnswerFrame
<1>2. \/ call'[c] = NoCall /\ call'[c].op = "none"
      \/ call'[c].op = "list" /\ call'[c].pc = "sent"
  BY <1>1, ReloadFields DEF NoCall
<1>3. Asking(call') = call'[c]
  BY <1>1, <1>2, AskingOne DEF Idle
<1>4. Req'.op = "none" \/ (Req'.op = "list" /\ Req'.state = "asked")
  BY <1>2, <1>3, RequestFields DEF Req
<1>5. List!End
  BY <1>1, <1>4 DEF List!End, Req
<1> QED
  BY <1>5 DEF List!Next

LEMMA WorkerImplements ==
    ASSUME TypeInv, TypeInv', MadeInv, PlaceInv, NEW c \in Calls, Worker(c),
           \A d \in Calls \ {c} : Idle(d), Fresh(call[c])
    PROVE  List!Next \/ UNCHANGED List!state
<1>1. Asks(call[c]) /\ Answers(call'[c])
  BY LoneRequest
<1>2. Ensure(c) => List!Next \/ UNCHANGED List!state
  BY <1>1, EnsureImplements
<1>3. WriteBasic(c) \/ InsertCounted(c) => List!Next
  BY <1>1, BasicImplements, InsertImplements
<1>4. (WriteRow(c) \/ DeleteRow(c) \/ Reorder(c)) => List!Next
  BY <1>1, RowImplements
<1>5. WriteLegacy(c) => List!Next
  BY <1>1, LegacyImplements
<1>6. (CountRows(c) \/ ReadRow(c) \/ ReadLegacy(c) \/ Jobs(c) \/ Throw(c)) =>
        List!Next \/ UNCHANGED List!state
  BY <1>1, LookImplements
<1> QED
  BY <1>2, <1>3, <1>4, <1>5, <1>6 DEF Worker, Providers

\* As long as requests do not overlap, the handlers, statement by statement,
\* implement ProviderList: every step of theirs is one of the list or none.
THEOREM RequestsImplementList == Spec => LoneRequestsAreAtomic
<1>1. ASSUME IInv, IInv', Next, OneAtATime, OneAtATime'
      PROVE  List!Next \/ UNCHANGED List!state
  <2>1. TypeInv /\ TypeInv' /\ MadeInv /\ PlaceInv /\ AloneInv /\ FreshInv
    BY <1>1 DEF IInv
  <2>2. ASSUME NEW c \in Calls, ~Idle(c)
        PROVE  Alone(c) /\ Fresh(call[c]) /\ \A d \in Calls \ {c} : Idle(d)
    BY <1>1, <2>1, <2>2 DEF OneAtATime, Alone, AloneInv, FreshInv
  <2>3. ASSUME NEW c \in Calls, User(c) PROVE List!Next
    <3>1. \A d \in Calls \ {c} : Idle(d)
      BY <1>1, <2>1, <2>3, UserFrame DEF OneAtATime
    <3> QED
      BY <2>1, <2>3, <3>1, UserImplements
  <2>4. ASSUME NEW c \in Calls, Worker(c) PROVE List!Next \/ UNCHANGED List!state
    <3>1. ~Idle(c)
      BY <2>1, <2>4, WorkerFrame DEF Idle
    <3> QED
      BY <2>1, <2>2, <2>4, <3>1, WorkerImplements
  <2>5. ASSUME NEW c \in Calls, Receive(c) \/ Fail(c) PROVE List!Next
    <3>1. ~Idle(c)
      BY <2>1, <2>5, AnswerFrame DEF Idle
    <3> QED
      BY <2>1, <2>2, <2>5, <3>1, AnswerImplements
  <2> QED
    BY <1>1, <2>3, <2>4, <2>5 DEF Next
<1>2. IInv /\ IInv' /\ [Next]_vars =>
        [OneAtATime /\ OneAtATime' => List!Next \/ UNCHANGED List!state]_vars
  BY <1>1
<1> QED
  BY <1>2, SettingsInvariant, PTL DEF Spec, LoneRequestsAreAtomic

\* So a user who makes one request at a time has nothing but that list.
THEOREM OneAtATimeImplementsList == Spec /\ []OneAtATime => List!Spec
<1>1. Init => List!Init
  <2> SUFFICES ASSUME Init PROVE List!Init
    OBVIOUS
  <2>1. rows \in Rows
    BY InitInv DEF IInv, TypeInv, TypeOK, Rows
  <2>2. Asking(call) = NoCall
    BY DEF Init, Asking, NoCall
  <2>3. Req.op = "none"
    BY <2>2, RequestFields DEF Req, NoCall
  <2> QED
    BY <2>1, <2>3, ListInLine DEF List!Init, Req
<1>2. UNCHANGED vars => UNCHANGED List!state
  BY DEF vars, List!state
<1>3. OneAtATime /\ OneAtATime'
        /\ [OneAtATime /\ OneAtATime' => List!Next \/ UNCHANGED List!state]_vars
        => [List!Next]_(List!state)
  BY <1>2
<1> QED
  BY <1>1, <1>3, RequestsImplementList, PTL DEF Spec, LoneRequestsAreAtomic, List!Spec

=============================================================================
