------------------------------ MODULE ProviderList ------------------------------
(***************************************************************************)
(* What the settings promise to a user who makes one request at a time: a  *)
(* list of providers in the order they are listed, and the key of the old  *)
(* settings.  A request changes them at once, as it asks and at most once; *)
(* a list that is used while it is empty first takes the old key over.     *)
(***************************************************************************)
EXTENDS Naturals

CONSTANTS Ids, Keys, None

VARIABLES
    list,      \* kind, key and enabled of each provider, by id
    before,    \* pairs of providers, the first of which is listed before the second
    legacy,    \* key of the old settings: "none" is no row, "bare" no key
    request    \* what is asked, and whether it is "asked", "done" or "denied"

state == <<list, before, legacy, request>>

Listed == DOMAIN list

Ordered(i, j) == <<i, j>> \in before

\* One of any two is listed before the other.
InLine == /\ \A i \in Listed : ~Ordered(i, i)
          /\ \A i, j \in Listed : i # j => Ordered(i, j) \/ Ordered(j, i)
          /\ \A i, j, k \in Listed : Ordered(i, j) /\ Ordered(j, k) => Ordered(i, k)

IsFirst(i, S) == i \in S /\ \A j \in S \ {i} : Ordered(i, j)

\* The provider the basic page is about.
IsTarget(i) ==
    LET compatible == {j \in Listed : list[j].kind = "openai_compatible"} IN
    IsFirst(i, IF compatible # {} THEN compatible ELSE Listed)

Migratable == Listed = {} /\ legacy \notin {"none", "bare"}

NewKey(old, key) == IF key = "keep" THEN old ELSE IF key = "clear" THEN None ELSE key

Changed(old, new) == IF new = "keep" THEN old ELSE new

-----------------------------------------------------------------------------
(* Changes of the list                                                     *)

Provider(kind, key, enabled) == [kind |-> kind, key |-> key, enabled |-> enabled]

\* Those of S stay in their order.
InOrder(S) == InLine' /\ \A i, j \in S : Ordered(i, j)' <=> Ordered(i, j)

Put(p) ==
    \E i \in Ids \ Listed :
      /\ list' = [j \in Listed \cup {i} |-> IF j = i THEN p ELSE list[j]]
      /\ InOrder(Listed) /\ UNCHANGED legacy

Write(i, p) ==
    /\ i \in Listed /\ list' = [list EXCEPT ![i] = p]
    /\ UNCHANGED <<before, legacy>>

Remove(i) ==
    /\ list' = [j \in Listed \ {i} |-> list[j]]
    /\ InOrder(Listed \ {i}) /\ UNCHANGED legacy

\* Those that an order names are put into it; the others stay in theirs.
Arrange(place) ==
    LET named == {i \in Listed : place[i] # 0} IN
    /\ InOrder(Listed \ named)
    /\ \A i, j \in named : Ordered(i, j)' <=> place[i] < place[j]
    /\ UNCHANGED <<list, legacy>>

Look == ~Migratable /\ UNCHANGED <<list, before, legacy>>

-----------------------------------------------------------------------------
(* Requests                                                                *)

Init == InLine /\ request.op = "none"

Ask == /\ request.op = "none" /\ request'.state = "asked"
       /\ UNCHANGED <<list, before, legacy>>

\* Old settings are taken over before an empty list is used.
Migrate ==
    /\ request.op \in {"load", "list", "basic", "job"} /\ request.state = "asked"
    /\ Migratable
    /\ Put(Provider("openai_compatible", IF legacy = "broken" THEN None ELSE legacy, "on"))
    /\ UNCHANGED request

Edit(i) == Write(i, Provider(Changed(list[i].kind, request.kind),
                             NewKey(list[i].key, request.key),
                             Changed(list[i].enabled, request.enabled)))

SetBasicKey ==
    /\ ~Migratable
    /\ \/ Listed = {} /\ request.key = "clear" /\ Look
       \/ /\ Listed = {} /\ request.key # "clear"
          /\ Put(Provider("openai_compatible", request.key, "on"))
       \/ \E i \in Listed :
            /\ IsTarget(i)
            /\ Write(i, Provider(list[i].kind, NewKey(list[i].key, request.key),
                                 list[i].enabled))

SetOldKey ==
    /\ legacy' = IF request.key \in Keys THEN request.key
                 ELSE IF request.key = "clear" \/ legacy = "none" THEN "bare" ELSE legacy
    /\ UNCHANGED <<list, before>>

\* A job may save its key beside the first provider.
SaveJobKey ==
    /\ request.key \in Keys /\ request.enabled = "on"
    /\ \E i \in Listed :
         IsFirst(i, Listed) /\ Put(Provider(list[i].kind, request.key, "on"))

\* What a request does, all at once.
Do ==
    /\ request.state = "asked" /\ request' = [request EXCEPT !.state = "done"]
    /\ \/ request.op \in {"load", "list", "job"} /\ Look
       \/ request.op = "add" /\ Put(Provider(request.kind, request.key, request.enabled))
       \/ request.op = "edit" /\ Edit(request.id)
       \/ request.op = "delete" /\ Remove(request.id)
       \/ request.op = "order" /\ Arrange(request.place)
       \/ request.op = "basic" /\ SetBasicKey
       \/ request.op = "llm" /\ SetOldKey
       \/ request.op = "job" /\ SaveJobKey

Deny == /\ request.state = "asked" /\ request' = [request EXCEPT !.state = "denied"]
        /\ UNCHANGED <<list, before, legacy>>

\* The page hears of it or gives up, and may ask for the list.
End == /\ \/ request'.op = "none"
          \/ request'.op = "list" /\ request'.state = "asked"
       /\ UNCHANGED <<list, before, legacy>>

Next == Ask \/ Migrate \/ Do \/ Deny \/ End

Spec == Init /\ [][Next]_state

=============================================================================
