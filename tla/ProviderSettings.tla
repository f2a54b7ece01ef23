---------------------------- MODULE ProviderSettings ----------------------------
(***************************************************************************)
(* The API providers of one user: the rows of user_api_providers, the old  *)
(* user_llm_settings they are migrated from, the handlers of /settings/*   *)
(* and the part of POST /jobs that picks providers, and the two settings   *)
(* pages that show and change them.  A handler is cut at its D1 statements,*)
(* between which handlers of other calls may run.  Rows are numbered in    *)
(* the order of their insertion, which is the order of created_at; names,  *)
(* URLs, models, timeouts and the cipher are left out.                     *)
(***************************************************************************)
EXTENDS Naturals, FiniteSets, Sequences

CONSTANTS
    Calls,     \* requests of the user's browser that may be under way at once
    Keys,      \* API keys
    Adds,      \* what the form may save as a new provider
    Edits,     \* what the form may save over a provider
    Configs,   \* settings of the public fallback the Worker may be deployed with
    Starts,    \* providers the user has saved, one after another, before
    MaxRows,   \* bound: rows ever inserted
    MaxCalls,  \* bound: requests begun
    None

Ids    == 1..MaxRows
Kinds  == {"openai_compatible", "siliconflow_free"}
Switch == {"on", "off"}
Pages  == {"advanced", "basic"}

\* A request to change a provider; one for a job has the one-off key, and
\* enabled = "on" for save_api_key.
Ask == [kind : Kinds \cup {"keep"}, key : Keys \cup {"keep", "clear", None},
        enabled : Switch \cup {"keep"}]

\* PUBLIC_FALLBACK_LLM_*: enabled, source, whether base URL and model are set,
\* the number of server keys, and whether USER_SETTINGS_SECRET can encrypt them.
Config == [enabled : BOOLEAN, source : Kinds \cup {"gemini", "openai", "unset"},
           endpoint : BOOLEAN, keys : Nat, secret : BOOLEAN]

ASSUME CallsAssumption == None \notin Keys \cup Ids
                          /\ Keys \cap {"keep", "clear", "bare", "broken"} = {}
ASSUME AsksAssumption == Adds \subseteq Ask /\ Edits \subseteq Ask
                         /\ \A a \in Adds : a.kind \in Kinds /\ a.enabled \in Switch
                                            /\ a.key \in Keys \cup {None}
ASSUME ConfigsAssumption == Configs \subseteq Config
ASSUME BoundsAssumption == MaxRows \in Nat /\ MaxCalls \in Nat

VARIABLES
    rows,       \* user_api_providers of the user, by id
    made,       \* rows inserted so far
    legacy,     \* key of user_llm_settings: "none" is no row, "bare" no key
    call,       \* requests under way, each with its handler's place
    page,       \* what AdvancedSettings lists: places from 1, 0 if not listed
    badge,      \* hasApiKey of Settings
    chain,      \* snapshots of the job being submitted
    begun,      \* requests begun
    upset,      \* history: pages that may be out of date (see Begin)
    gap         \* history: a row was deleted since a full order was saved

vars == <<rows, made, legacy, call, page, badge, chain, begun, upset, gap>>

Row == [kind : Kinds, key : Keys \cup {None}, priority : Nat, enabled : Switch,
        copy : BOOLEAN]                                    \* copy: migrated

ASSUME NoneAssumption == None \notin Row

NoRows  == [i \in Ids |-> None]
NoPlace == [i \in Ids |-> 0]
NoAsk   == [kind |-> "keep", key |-> "keep", enabled |-> "keep"]
NoChain == [mode |-> "none", place |-> NoPlace, plan |-> <<>>]
NoCall  == [op |-> "none", pc |-> "idle", from |-> "none", id |-> None,
            ask |-> NoAsk, found |-> NoRows, place |-> NoPlace, key |-> "none",
            alone |-> TRUE]

Ops == {"none", "load", "list", "add", "edit", "delete", "order", "basic", "llm",
        "job"}
PCs == {"idle", "sent", "empty", "migrating", "migrated", "ensured", "counted",
        "read", "saving", "answered", "refused"}
Legacy == Keys \cup {"none", "bare", "broken"}

\* found: the rows a handler has read; place: the order it was sent; key: the
\* old key it has read; alone: no other request was under way meanwhile.
Call == [op : Ops, pc : PCs, from : Pages \cup {"none"}, id : Ids \cup {None},
         ask : Ask, found : [Ids -> Row \cup {None}], place : [Ids -> Nat],
         key : Legacy, alone : BOOLEAN]

-----------------------------------------------------------------------------
(* ORDER BY priority ASC, created_at ASC                                   *)

Present(r) == {i \in Ids : r[i] # None}

Before(r, i, j) == \/ r[i].priority < r[j].priority
                   \/ r[i].priority = r[j].priority /\ i < j

\* The place of every row of S in the list.
Places(r, S) ==
    [i \in Ids |-> IF i \in S THEN 1 + Cardinality({j \in S : Before(r, j, i)})
                   ELSE 0]

Enabled(r) == {i \in Present(r) : r[i].enabled = "on"}

First(r, S) == CHOOSE i \in S : \A j \in S \ {i} : Before(r, i, j)

\* The provider the basic page is about: the first OpenAI-compatible one, or
\* else the first.
Target(r) ==
    LET compatible == {i \in Present(r) : r[i].kind = "openai_compatible"} IN
    First(r, IF compatible # {} THEN compatible ELSE Present(r))

HasKey(r) == Present(r) # {} /\ r[Target(r)].key # None

\* Mutant: a key to be cleared is stored as it was sent.
KeyAsSent(old, key) == IF key = "keep" THEN old ELSE key

\* A key after a request: kept as read, cleared or replaced.
NewKey(old, key) == IF key = "keep" THEN old
                    ELSE IF key = "clear" THEN None ELSE key

-----------------------------------------------------------------------------
(* publicFallback.ts                                                       *)

ConfigError(f) ==
    \/ f.source = "unset"
    \/ f.source # "siliconflow_free" /\ ~f.endpoint
    \/ f.source \in {"openai_compatible", "gemini"} /\ f.keys = 0

\* Server keys in use, by number.
ServerKeys(f) == [n \in 1..(IF f.source = "siliconflow_free" THEN 0 ELSE f.keys) |-> n]

Usable(f) == f.enabled /\ ~ConfigError(f) /\ (ServerKeys(f) # <<>> => f.secret)

\* Mutant: the free service is listed before the server's own keys.
FreeFirst(f) == IF Usable(f) THEN <<0>> \o ServerKeys(f) ELSE None

\* The chain of public providers: server key n at its place, 0 for the free
\* service; None if the fallback is off or misconfigured.
Plan(f) == IF Usable(f) THEN Append(ServerKeys(f), 0) ELSE None

-----------------------------------------------------------------------------
ASSUME StartsAssumption ==
    \A r \in Starts :
        /\ r \in [Ids -> Row \cup {None}]
        /\ \A i \in Present(r) : r[i].priority = i /\ ~r[i].copy
        /\ \A i \in Present(r), j \in Ids : j < i => j \in Present(r)

\* A user of the old settings comes, or one whose pages show saved providers.
Init ==
    /\ \/ /\ rows = NoRows /\ made = 0
          /\ legacy \in Legacy
          /\ upset = Pages
       \/ /\ rows \in Starts /\ made = Cardinality(Present(rows))
          /\ legacy = "none"
          /\ upset = {}
    /\ call = [c \in Calls |-> NoCall]
    /\ page = [place |-> Places(rows, Present(rows)), on |-> Enabled(rows)]
    /\ badge = HasKey(rows)
    /\ chain = NoChain
    /\ begun = 0
    /\ gap = FALSE

Idle(c) == call[c].pc = "idle"
Quiet   == \A c \in Calls : Idle(c)

\* The browser awaits no settings request before it lets the user begin
\* another, but a page is not shown while it loads.
Loading(p) == \E c \in Calls : call[c].op = "load" /\ call[c].from = p

\* Pages that show something else once the request is done: all but the one it
\* comes from, and any that has another request under way.
Outdated(op, from, ask) ==
    IF ~Quiet THEN Pages
    ELSE IF op = "load" \/ (op = "job" /\ ask.enabled # "on") THEN {} ELSE Pages \ {from}

Begin(c, op, from, id, ask, place) ==
    /\ Idle(c) /\ begun < MaxCalls
    /\ begun' = begun + 1
    /\ call' = [d \in Calls |->
          IF d = c THEN [NoCall EXCEPT !.op = op, !.pc = "sent", !.from = from,
                           !.id = id, !.ask = ask, !.place = place, !.alone = Quiet]
          ELSE [call[d] EXCEPT !.alone = Idle(d)]]
    /\ upset' = upset \cup Outdated(op, from, ask)

-----------------------------------------------------------------------------
(* The pages                                                               *)

\* A page is mounted, empty, and loads; what an earlier mount of it still has
\* under way concerns nobody.
Open(c, p) ==
    /\ Idle(c) /\ begun < MaxCalls
    /\ begun' = begun + 1
    /\ call' = [d \in Calls |->
          IF d = c THEN [NoCall EXCEPT !.op = "load", !.pc = "sent", !.from = p,
                                       !.alone = Quiet]
          ELSE [call[d] EXCEPT !.alone = Idle(d),
                               !.from = IF @ = p THEN "none" ELSE @]]
    /\ upset' = upset \cup {p} \cup Outdated("load", p, NoAsk)
    /\ IF p = "advanced" THEN page' = [place |-> NoPlace, on |-> {}] /\ UNCHANGED badge
       ELSE badge' = FALSE /\ UNCHANGED page
    /\ UNCHANGED <<rows, made, legacy, chain, gap>>

Listed == {i \in Ids : page.place[i] # 0}

SaveNew(c, a) ==
    /\ ~Loading("advanced") /\ Begin(c, "add", "advanced", None, a, NoPlace)
    /\ UNCHANGED <<rows, made, legacy, page, badge, chain, gap>>

SaveEdit(c, i, a) ==
    /\ ~Loading("advanced") /\ i \in Listed
    /\ Begin(c, "edit", "advanced", i, a, NoPlace)
    /\ UNCHANGED <<rows, made, legacy, page, badge, chain, gap>>

\* handleToggleEnable sends the opposite of what the page shows.
Toggle(c, i) ==
    /\ ~Loading("advanced") /\ i \in Listed
    /\ Begin(c, "edit", "advanced", i,
             [NoAsk EXCEPT !.enabled = IF i \in page.on THEN "off" ELSE "on"], NoPlace)
    /\ UNCHANGED <<rows, made, legacy, page, badge, chain, gap>>

Delete(c, i) ==
    /\ ~Loading("advanced") /\ i \in Listed
    /\ Begin(c, "delete", "advanced", i, NoAsk, NoPlace)
    /\ UNCHANGED <<rows, made, legacy, page, badge, chain, gap>>

\* handleMoveUp on i, or handleMoveDown on its neighbour j: the list is swapped
\* at once, and its order sent.
Move(c, i, j) ==
    LET swapped == [page.place EXCEPT ![i] = page.place[j], ![j] = page.place[i]] IN
    /\ ~Loading("advanced") /\ i \in Listed /\ j \in Listed
    /\ page.place[i] = page.place[j] + 1
    /\ page' = [page EXCEPT !.place = swapped]
    /\ Begin(c, "order", "advanced", None, NoAsk, swapped)
    /\ UNCHANGED <<rows, made, legacy, badge, chain, gap>>

\* handleSave and handleClearKey, disabled while one of them is under way.
SaveBasic(c, key) ==
    /\ ~Loading("basic")
    /\ \A d \in Calls : ~(call[d].op = "basic" /\ call[d].from = "basic")
    /\ Begin(c, "basic", "basic", None, [NoAsk EXCEPT !.key = key], NoPlace)
    /\ UNCHANGED <<rows, made, legacy, page, badge, chain, gap>>

\* Requests that no settings page sends: PUT /settings/llm, clear_api_key, and
\* POST /jobs, with or without a key of its own.
SaveLegacy(c, key) ==
    /\ Begin(c, "llm", "none", None, [NoAsk EXCEPT !.key = key], NoPlace)
    /\ UNCHANGED <<rows, made, legacy, page, badge, chain, gap>>

ClearKey(c, i) ==
    /\ rows[i] # None
    /\ Begin(c, "edit", "none", i, [NoAsk EXCEPT !.key = "clear"], NoPlace)
    /\ UNCHANGED <<rows, made, legacy, page, badge, chain, gap>>

SubmitJob(c, key, save) ==
    /\ \A d \in Calls : call[d].op # "job"
    /\ Begin(c, "job", "none", None,
             [NoAsk EXCEPT !.key = key, !.enabled = save], NoPlace)
    /\ UNCHANGED <<rows, made, legacy, page, badge, chain, gap>>

-----------------------------------------------------------------------------
(* The Worker: ensureUserProviders, which three handlers begin with        *)

At(c, op, pc) == call[c].op = op /\ call[c].pc = pc

Insert(row) == /\ made < MaxRows
               /\ made' = made + 1
               /\ rows' = [rows EXCEPT ![made + 1] = row]

AfterEnsure(c) == IF call[c].op \in {"load", "list"} THEN "answered" ELSE "ensured"

SelectProviders(c) ==
    /\ call[c].op \in {"load", "list", "basic", "job"}
    /\ call[c].pc \in {"sent", "migrated"}
    /\ call' = [call EXCEPT ![c].found = rows,
                            ![c].pc = IF Present(rows) = {} /\ @ = "sent" THEN "empty"
                                      ELSE AfterEnsure(c)]
    /\ UNCHANGED <<rows, made, legacy, page, badge, chain, begun, upset, gap>>

SelectLegacy(c) ==
    /\ call[c].pc = "empty"
    /\ IF legacy \in {"none", "bare"}
       THEN call' = [call EXCEPT ![c].pc = AfterEnsure(c)]
       ELSE call' = [call EXCEPT ![c].pc = "migrating", ![c].key = legacy]
    /\ UNCHANGED <<rows, made, legacy, page, badge, chain, begun, upset, gap>>

\* Mutant: the ciphertext is copied, and with it a key nobody can decrypt.
MigrateCiphertext(c) ==
    /\ call[c].pc = "migrating"
    /\ Insert([kind |-> "openai_compatible", priority |-> 1, enabled |-> "on",
               key |-> call[c].key, copy |-> TRUE])
    /\ call' = [call EXCEPT ![c].pc = "migrated"]
    /\ UNCHANGED <<legacy, page, badge, chain, begun, upset, gap>>

\* The old row stays where it is; a key that cannot be decrypted is left out.
Migrate(c) ==
    /\ call[c].pc = "migrating"
    /\ Insert([kind |-> "openai_compatible", priority |-> 1, enabled |-> "on",
               key |-> IF call[c].key = "broken" THEN None ELSE call[c].key,
               copy |-> TRUE])
    /\ call' = [call EXCEPT ![c].pc = "migrated"]
    /\ UNCHANGED <<legacy, page, badge, chain, begun, upset, gap>>

Ensure(c) == SelectProviders(c) \/ SelectLegacy(c) \/ Migrate(c)

-----------------------------------------------------------------------------
(* PUT /settings/api/basic                                                 *)

WriteBasic(c) ==
    LET r == call[c].found
        i == Target(r)
        key == call[c].ask.key
    IN  /\ At(c, "basic", "ensured")
        /\ IF Present(r) # {}
           THEN /\ rows' = [rows EXCEPT ![i] = IF @ = None THEN None ELSE
                              [@ EXCEPT !.key = NewKey(r[i].key, key)]]
                /\ UNCHANGED made
           ELSE IF key # "clear"
           THEN Insert([kind |-> "openai_compatible", priority |-> 1,
                        enabled |-> "on", key |-> key, copy |-> FALSE])
           ELSE UNCHANGED <<rows, made>>
        /\ call' = [call EXCEPT ![c].pc = "answered"]
        /\ UNCHANGED <<legacy, page, badge, chain, begun, upset, gap>>

-----------------------------------------------------------------------------
(* /settings/api/providers, and the key POST /jobs is asked to save        *)

\* SELECT COUNT(*), in a statement of its own.
CountRows(c) ==
    /\ At(c, "add", "sent") \/ At(c, "job", "saving")
    /\ call' = [call EXCEPT ![c].pc = "counted", ![c].found = rows]
    /\ UNCHANGED <<rows, made, legacy, page, badge, chain, begun, upset, gap>>

\* Mutant: a new provider comes first.
InsertOnTop(c) ==
    /\ At(c, "add", "counted")
    /\ Insert([kind |-> call[c].ask.kind, key |-> call[c].ask.key, priority |-> 0,
               enabled |-> call[c].ask.enabled, copy |-> FALSE])
    /\ call' = [call EXCEPT ![c].pc = "answered"]
    /\ UNCHANGED <<legacy, page, badge, chain, begun, upset, gap>>

InsertCounted(c) ==
    /\ call[c].pc = "counted"
    /\ Insert([kind |-> call[c].ask.kind, key |-> call[c].ask.key,
               priority |-> Cardinality(Present(call[c].found)) + 1,
               enabled |-> call[c].ask.enabled, copy |-> FALSE])
    /\ call' = [call EXCEPT ![c].pc = "answered"]
    /\ UNCHANGED <<legacy, page, badge, chain, begun, upset, gap>>

\* The row is read for what the request leaves out; without it, 404.
ReadRow(c) ==
    /\ At(c, "edit", "sent")
    /\ call' = [call EXCEPT ![c].pc = IF rows[call[c].id] = None THEN "refused"
                                      ELSE "read",
                            ![c].found = rows]
    /\ UNCHANGED <<rows, made, legacy, page, badge, chain, begun, upset, gap>>

\* Mutant: a request without a key clears it.
WriteRowBare(c) ==
    LET i == call[c].id  a == call[c].ask  old == call[c].found[i] IN
    /\ At(c, "edit", "read")
    /\ rows' = [rows EXCEPT ![i] = IF @ = None THEN None ELSE
                  [@ EXCEPT !.kind = IF a.kind = "keep" THEN rows[i].kind ELSE a.kind,
                            !.key = IF a.key \in Keys THEN a.key ELSE None,
                            !.enabled = IF a.enabled = "keep" THEN old.enabled
                                        ELSE a.enabled]]
    /\ call' = [call EXCEPT ![c].pc = "answered"]
    /\ UNCHANGED <<made, legacy, page, badge, chain, begun, upset, gap>>

\* The key and the switch are written back as read, the type only if sent.
WriteRow(c) ==
    LET i == call[c].id  a == call[c].ask  old == call[c].found[i] IN
    /\ At(c, "edit", "read")
    /\ rows' = [rows EXCEPT ![i] = IF @ = None THEN None ELSE
                  [@ EXCEPT !.kind = IF a.kind = "keep" THEN rows[i].kind ELSE a.kind,
                            !.key = NewKey(old.key, a.key),
                            !.enabled = IF a.enabled = "keep" THEN old.enabled
                                        ELSE a.enabled]]
    /\ call' = [call EXCEPT ![c].pc = "answered"]
    /\ UNCHANGED <<made, legacy, page, badge, chain, begun, upset, gap>>

DeleteRow(c) ==
    /\ At(c, "delete", "sent")
    /\ rows' = [rows EXCEPT ![call[c].id] = None]
    /\ gap' = (gap \/ rows[call[c].id] # None)
    /\ call' = [call EXCEPT ![c].pc = "answered", ![c].found = rows]
    /\ UNCHANGED <<made, legacy, page, badge, chain, begun, upset>>

\* One batch: every row listed gets its place, whichever others there are.
Reorder(c) ==
    LET place == call[c].place IN
    /\ At(c, "order", "sent")
    /\ rows' = [i \in Ids |-> IF rows[i] = None \/ place[i] = 0 THEN rows[i]
                              ELSE [rows[i] EXCEPT !.priority = place[i]]]
    /\ gap' = (gap /\ ~(call[c].alone /\ {i \in Ids : place[i] # 0} = Present(rows)))
    /\ call' = [call EXCEPT ![c].pc = "answered"]
    /\ UNCHANGED <<made, legacy, page, badge, chain, begun, upset>>

Providers(c) == CountRows(c) \/ InsertCounted(c) \/ ReadRow(c) \/ WriteRow(c)
                \/ DeleteRow(c) \/ Reorder(c)

-----------------------------------------------------------------------------
(* PUT /settings/llm                                                       *)

ReadLegacy(c) ==
    /\ At(c, "llm", "sent")
    /\ call' = [call EXCEPT ![c].pc = "read", ![c].key = legacy]
    /\ UNCHANGED <<rows, made, legacy, page, badge, chain, begun, upset, gap>>

WriteLegacy(c) ==
    LET key == call[c].ask.key  old == call[c].key IN
    /\ At(c, "llm", "read")
    /\ legacy' = IF key \in Keys THEN key
                 ELSE IF key = "clear" \/ old = "none" THEN "bare" ELSE old
    /\ call' = [call EXCEPT ![c].pc = "answered"]
    /\ UNCHANGED <<rows, made, page, badge, chain, begun, upset, gap>>

-----------------------------------------------------------------------------
(* POST /jobs, from the choice of providers to the snapshots               *)

\* A key of its own goes with the endpoint of the first provider, and may be
\* saved as another one.
UseOneOff(c) ==
    LET r == call[c].found IN
    /\ At(c, "job", "ensured") /\ call[c].ask.key \in Keys
    /\ IF Present(r) = {}
       THEN /\ call' = [call EXCEPT ![c].pc = "refused"]
            /\ UNCHANGED chain
       ELSE /\ chain' = [NoChain EXCEPT !.mode = "request_once"]
            /\ call' = [call EXCEPT
                 ![c].pc = IF call[c].ask.enabled = "on" THEN "saving" ELSE "answered",
                 ![c].ask.kind = r[First(r, Present(r))].kind]
    /\ UNCHANGED <<rows, made, legacy, page, badge, begun, upset, gap>>

UseSettings(c) ==
    LET r == call[c].found IN
    /\ At(c, "job", "ensured") /\ call[c].ask.key = "keep"
    /\ Enabled(r) # {}
    /\ chain' = [mode |-> "user_settings", place |-> Places(r, Enabled(r)),
                 plan |-> <<>>]
    /\ call' = [call EXCEPT ![c].pc = "answered"]
    /\ UNCHANGED <<rows, made, legacy, page, badge, begun, upset, gap>>

\* No provider is enabled: buildPublicFallbackSnapshots, or 503.
UseFallback(c, f) ==
    /\ At(c, "job", "ensured") /\ call[c].ask.key = "keep"
    /\ Enabled(call[c].found) = {}
    /\ IF Usable(f)
       THEN /\ chain' = [mode |-> "free_fallback", place |-> NoPlace, plan |-> Plan(f)]
            /\ call' = [call EXCEPT ![c].pc = "answered"]
       ELSE /\ call' = [call EXCEPT ![c].pc = "refused"]
            /\ UNCHANGED chain
    /\ UNCHANGED <<rows, made, legacy, page, badge, begun, upset, gap>>

Jobs(c) == UseOneOff(c) \/ UseSettings(c) \/ \E f \in Configs : UseFallback(c, f)

\* A statement of a handler throws: 500, with what was done before it kept; but
\* a key that could not be saved does not stop a job.
Throw(c) ==
    /\ call[c].pc \notin {"idle", "sent", "answered", "refused"}
    /\ call' = [call EXCEPT ![c].pc =
                  IF call[c].op = "job" /\ @ \in {"saving", "counted"}
                  THEN "answered" ELSE "refused"]
    /\ UNCHANGED <<rows, made, legacy, page, badge, chain, begun, upset, gap>>

-----------------------------------------------------------------------------
(* The answer                                                              *)

\* What the pages make of an answer; an undisturbed load brings a page up to
\* date, as does an undisturbed change of the basic key.
ReceiveList(c) ==
    LET r == call[c].found IN
    /\ call[c].pc = "answered" /\ call[c].op \in {"load", "list"}
    /\ page' = IF call[c].from = "advanced"
               THEN [place |-> Places(r, Present(r)), on |-> Enabled(r)] ELSE page
    /\ badge' = (badge \/ (call[c].from = "basic" /\ HasKey(r)))
    /\ upset' = IF call[c].alone THEN upset \ {call[c].from} ELSE upset
    /\ call' = [call EXCEPT ![c] = NoCall]
    /\ UNCHANGED <<rows, made, legacy, chain, begun, gap>>

ReceiveBasic(c) ==
    /\ At(c, "basic", "answered")
    /\ badge' = IF call[c].from = "basic" THEN call[c].ask.key # "clear" ELSE badge
    /\ upset' = IF call[c].alone THEN upset \ {call[c].from} ELSE upset
    /\ call' = [call EXCEPT ![c] = NoCall]
    /\ UNCHANGED <<rows, made, legacy, page, chain, begun, gap>>

Reload(c) == [NoCall EXCEPT !.op = "list", !.pc = "sent", !.from = call[c].from,
                            !.alone = call[c].alone]

\* "Provider added.", "updated." or "deleted.", and the list is loaded again.
ReceiveChange(c) ==
    /\ call[c].pc = "answered" /\ call[c].op \in {"add", "edit", "delete"}
    /\ call' = [call EXCEPT ![c] = IF call[c].from = "none" THEN NoCall ELSE Reload(c)]
    /\ UNCHANGED <<rows, made, legacy, page, badge, chain, begun, upset, gap>>

\* Nobody waits for anything more after an order, an old setting or a job.
ReceiveOther(c) ==
    /\ call[c].pc = "answered" /\ call[c].op \in {"order", "llm", "job"}
    /\ call' = [call EXCEPT ![c] = NoCall]
    /\ chain' = IF call[c].op = "job" THEN NoChain ELSE chain
    /\ UNCHANGED <<rows, made, legacy, page, badge, begun, upset, gap>>

\* Mutant: an order that failed leaves the swapped list on the page.
FailQuietly(c) ==
    /\ call[c].pc \in {"sent", "answered", "refused"}
    /\ call' = [call EXCEPT ![c] = NoCall]
    /\ upset' = IF call[c].op = "order" THEN upset ELSE upset \cup (Pages \cap {call[c].from})
    /\ chain' = IF call[c].op = "job" THEN NoChain ELSE chain
    /\ UNCHANGED <<rows, made, legacy, page, badge, begun, gap>>

\* The request or its answer is lost, or the Worker refused: an order is taken
\* back by a load, the rest leaves an error message.
Fail(c) ==
    /\ call[c].pc \in {"sent", "answered", "refused"}
    /\ IF call[c].op = "order" THEN /\ call' = [call EXCEPT ![c] = Reload(c)]
                                    /\ UNCHANGED upset
       ELSE /\ call' = [call EXCEPT ![c] = NoCall]
            /\ upset' = upset \cup (Pages \cap {call[c].from})
    /\ chain' = IF call[c].op = "job" THEN NoChain ELSE chain
    /\ UNCHANGED <<rows, made, legacy, page, badge, begun, gap>>

Receive(c) == ReceiveList(c) \/ ReceiveBasic(c) \/ ReceiveChange(c) \/ ReceiveOther(c)

-----------------------------------------------------------------------------
User(c) ==
    \/ \E p \in Pages : Open(c, p)
    \/ \E a \in Adds : SaveNew(c, a)
    \/ \E i \in Ids, a \in Edits : SaveEdit(c, i, a)
    \/ \E i \in Ids : Toggle(c, i) \/ Delete(c, i) \/ ClearKey(c, i)
    \/ \E i, j \in Ids : Move(c, i, j)
    \/ \E key \in Keys \cup {"clear"} : SaveBasic(c, key)
    \/ \E key \in Keys \cup {"clear", "keep"} : SaveLegacy(c, key)
    \/ SubmitJob(c, "keep", "off")
    \/ \E key \in Keys, save \in Switch : SubmitJob(c, key, save)

Worker(c) == Ensure(c) \/ WriteBasic(c) \/ Providers(c) \/ ReadLegacy(c)
             \/ WriteLegacy(c) \/ Jobs(c) \/ Throw(c)

Next == \E c \in Calls : User(c) \/ Worker(c) \/ Receive(c) \/ Fail(c)

Spec == Init /\ [][Next]_vars

-----------------------------------------------------------------------------
(* Properties                                                              *)

\* The state stays within its types, the priorities of a user's rows above all.
TypeOK ==
    /\ rows \in [Ids -> Row \cup {None}]
    /\ made \in 0..MaxRows
    /\ legacy \in Legacy
    /\ call \in [Calls -> Call]
    /\ page \in [place : [Ids -> Nat], on : SUBSET Ids]
    /\ badge \in BOOLEAN
    /\ chain.mode \in {"none", "request_once", "user_settings", "free_fallback"}
    /\ chain.place \in [Ids -> Nat]
    /\ begun \in 0..MaxCalls
    /\ upset \subseteq Pages
    /\ gap \in BOOLEAN

\* Once nothing is under way, the advanced page lists the providers as they are
\* saved, in their order, and the badge of the basic page is that of the provider
\* handlers choose anew each time: after any sequence of changes, moves, failures
\* and retries of which the page's last load was undisturbed.
ShownIsSaved ==
    Quiet =>
        /\ "advanced" \notin upset => /\ page.place = Places(rows, Present(rows))
                                      /\ page.on = Enabled(rows)
        /\ "basic" \notin upset => badge = HasKey(rows)

\* The handlers write whole rows back: without another request under way, only
\* the key a request is about changes, and only as it asks.
KeyChangesAreAsked ==
    [][\A i \in Ids :
         rows[i] # None /\ rows'[i] # None /\ rows'[i].key # rows[i].key =>
           \E c \in Calls :
             /\ call'[c] # call[c] /\ call[c].op \in {"edit", "basic"}
             /\ call[c].alone =>
                  /\ i = IF call[c].op = "edit" THEN call[c].id ELSE Target(rows)
                  /\ call[c].ask.key # "keep"
                  /\ rows'[i].key = NewKey(rows[i].key, call[c].ask.key)]_vars

\* A provider added by a request that was alone is listed last, although its
\* priority is only a count: unless one was deleted since a full order was saved.
AddedLast ==
    [][\A i \in Ids, c \in Calls :
         /\ rows[i] = None /\ rows'[i] # None
         /\ call[c].pc = "counted" /\ call'[c].pc = "answered"
         /\ call[c].alone /\ ~gap
         => Places(rows', Present(rows'))[i] = Cardinality(Present(rows'))]_vars

\* The old settings are copied into an empty list, with their key as it is then
\* or, if it cannot be decrypted, without: unless another request was under way.
MigrationIsFaithful ==
    [][\A i \in Ids :
         rows[i] = None /\ rows'[i] # None /\ rows'[i].copy =>
           \E c \in Calls :
             /\ call[c].pc = "migrating" /\ call'[c].pc = "migrated"
             /\ call[c].alone =>
                  /\ Present(rows) = {}
                  /\ legacy \notin {"none", "bare"}
                  /\ rows'[i].key = IF legacy = "broken" THEN None ELSE legacy]_vars

\* The snapshots of a job submitted while the advanced page is up to date are
\* the providers that are on there, in that order, or the public chain only if
\* none is; that chain lists every server key in turn and the free service last.
\* Whether the agent tries them in this order is said in Router.
ChainFollowsPage ==
    \A c \in Calls :
      At(c, "job", "answered") =>
        /\ chain.mode = "free_fallback" =>
             chain.plan = [n \in 1..Len(chain.plan) |->
                             IF n = Len(chain.plan) THEN 0 ELSE n]
        /\ call[c].alone /\ "advanced" \notin upset /\ call[c].ask.key = "keep" =>
             /\ chain.mode = IF page.on = {} THEN "free_fallback" ELSE "user_settings"
             /\ {i \in Ids : chain.place[i] # 0} = page.on
             /\ \A i, j \in page.on : (chain.place[i] < chain.place[j])
                                        <=> (page.place[i] < page.place[j])

-----------------------------------------------------------------------------
(* One request at a time                                                   *)

\* The list that rows make, whatever numbers their priorities are.
ListOf(r) == [i \in Present(r) |-> [kind |-> r[i].kind, key |-> r[i].key,
                                    enabled |-> r[i].enabled]]

OrderOf(r) == {p \in Present(r) \X Present(r) : Before(r, p[1], p[2])}

\* The request that is under way; a job finds the kind of its provider on the way.
Asking(calls) == IF \E c \in Calls : calls[c].pc # "idle"
                 THEN calls[CHOOSE c \in Calls : calls[c].pc # "idle"] ELSE NoCall

Request(x) ==
    [op |-> x.op, id |-> x.id, key |-> x.ask.key, enabled |-> x.ask.enabled,
     kind |-> IF x.op = "job" THEN "keep" ELSE x.ask.kind, place |-> x.place,
     state |-> IF x.pc = "answered" THEN "done"
               ELSE IF x.pc = "refused" THEN "denied" ELSE "asked"]

List == INSTANCE ProviderList WITH list <- ListOf(rows), before <- OrderOf(rows),
                                   request <- Request(Asking(call))

OneAtATime == \A c \in Calls : call[c].alone

\* While requests do not overlap, the statements of a handler amount to one
\* change of the list, as the request asks and at most once, after the migration
\* where there is one: neither the write that follows a read, nor the priorities,
\* nor a failure between two statements is seen.
LoneRequestsAreAtomic ==
    [][OneAtATime /\ OneAtATime' => List!Next \/ UNCHANGED List!state]_vars

=============================================================================
