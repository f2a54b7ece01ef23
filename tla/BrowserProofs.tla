----------------------------- MODULE BrowserProofs -----------------------------
(***************************************************************************)
(* Theorems about the two halves of uploading in the browser: UploadForm,  *)
(* for any number of batches, files, logins and faults, and Receipts, for  *)
(* any set of jobs and any number of calls of getJobs under way.           *)
(***************************************************************************)
EXTENDS UploadForm, Receipts, FiniteSetTheorems, TLAPS

(* UploadForm                                                              *)

\* The signals of the session stay within their types.
LEMMA SessionTypeKept == SessionTypeOK /\ SessionNext => SessionTypeOK'
<1> SUFFICES ASSUME SessionTypeOK, SessionNext PROVE SessionTypeOK'
  OBVIOUS
<1> USE MovesAssumption DEF SessionTypeOK
<1>1. ASSUME NEW u \in BOOLEAN, NEW t \in BOOLEAN, NEW s \in BOOLEAN,
             NEW calls \in [Logins -> Login], Render(u, t, s, calls)
      PROVE  /\ user' \in BOOLEAN /\ trigger' \in BOOLEAN /\ signing' \in BOOLEAN
             /\ logins' \in [Logins -> Login]
  <2>1. \A c \in Logins : [calls[c] EXCEPT !.here = @ /\ (u \/ t)] \in Login
    BY DEF Login
  <2> QED
    BY <1>1, <2>1 DEF Render
<1>2. Move => moves' \in 0..MaxMoves
  BY DEF Move
<1>3. CASE AskStore
  <2>1. CASE Render(FALSE, trigger, signing, logins)
    BY <1>1, <1>3, <2>1 DEF AskStore
  <2> QED
    BY <1>3, <2>1 DEF AskStore
<1>4. CASE Listen \/ Focus
  BY <1>4 DEF Listen, Focus
<1>5. CASE Notify
  BY <1>1, <1>5 DEF Notify
<1>6. CASE HandleLogout \/ Elsewhere
  BY <1>2, <1>6 DEF HandleLogout, Elsewhere
<1>7. ASSUME NEW c \in Logins, HandleLogin(c) PROVE SessionTypeOK'
  <2>1. OpenPopup(c) \in [Logins -> Login]
    BY DEF OpenPopup, Login
  <2> QED
    BY <1>1, <1>2, <1>7, <2>1 DEF HandleLogin
<1>8. ASSUME NEW c \in Logins, Settle(c) PROVE SessionTypeOK'
  <2>1. [logins EXCEPT ![c] = NoLogin] \in [Logins -> Login]
    BY DEF NoLogin, Login
  <2>2. PICK in \in BOOLEAN :
           /\ account' = (account \/ in)
           /\ Render(user \/ in, FALSE, signing /\ ~logins[c].here,
                     [logins EXCEPT ![c] = NoLogin])
    BY <1>8 DEF Settle
  <2>3. (signing /\ ~logins[c].here) \in BOOLEAN /\ (user \/ in) \in BOOLEAN
    OBVIOUS
  <2>4. account' \in BOOLEAN
    BY <2>2
  <2> QED
    BY <1>1, <1>8, <2>1, <2>2, <2>3, <2>4 DEF Settle
<1>9. ASSUME NEW c \in Logins, TimeOutLogin(c) PROVE SessionTypeOK'
  <2>1. [logins EXCEPT ![c].timer = FALSE] \in [Logins -> Login]
    BY DEF Login
  <2> QED
    BY <1>9, <2>1 DEF TimeOutLogin
<1> QED
  BY <1>3, <1>4, <1>5, <1>6, <1>7, <1>8, <1>9 DEF SessionNext

-----------------------------------------------------------------------------

\* A token was issued for each batch that has ended, and one more, at most.
Tally ==
    /\ IsFiniteSet(Working)
    /\ issued + Cardinality(Working) + (IF widget = "solved" THEN 0 ELSE 1)
         <= begun + 1

LEMMA InitType == Init => TypeOK /\ Tally
<1> SUFFICES ASSUME Init PROVE TypeOK /\ Tally
  OBVIOUS
<1> USE FormAssumption, MovesAssumption
<1>1. NoBatch \in Batch
  <2>1. <<>> \in Seq(Owners)
    OBVIOUS
  <2> QED
    BY <2>1 DEF NoBatch, Batch, Owners, Tokens
<1>2. SessionTypeOK
  <2>1. NoLogin \in Login
    BY DEF NoLogin, Login
  <2>2. logins \in [Logins -> Login] /\ moves \in 0..MaxMoves
    BY <2>1 DEF Init, InitSession
  <2> QED
    BY <2>2 DEF Init, InitSession, SessionTypeOK
<1>3. Working = {}
  BY DEF Init, Working, NoBatch
<1>4. TypeOK
  <2>1. batches \in [Batches -> Batch]
    BY <1>1 DEF Init
  <2>2. 0 \in Tokens
    BY DEF Tokens
  <2>3. begun \in 0..MaxFiles /\ faults \in 0..MaxFaults
    BY DEF Init
  <2> QED
    BY <1>2, <2>1, <2>2, <2>3 DEF Init, TypeOK
<1>5. Tally
  BY <1>3, FS_EmptySet DEF Init, Tally
<1> QED
  BY <1>4, <1>5


\* A step that replaces one batch, b by x.
LEMMA BatchReplaced ==
    ASSUME batches \in [Batches -> Batch], IsFiniteSet(Working),
           NEW b \in Batches, NEW x \in Batch,
           batches' = [batches EXCEPT ![b] = x]
    PROVE  /\ batches' \in [Batches -> Batch]
           /\ IsFiniteSet(Working') /\ Cardinality(Working') \in Nat
           /\ Cardinality(Working) \in Nat
           /\ x.pc # "none" /\ b \in Working => Cardinality(Working') = Cardinality(Working)
           /\ b \notin Working => Cardinality(Working') <= Cardinality(Working) + 1
           /\ x.pc = "none" /\ b \in Working =>
                 Cardinality(Working') = Cardinality(Working) - 1
<1>1. batches' \in [Batches -> Batch]
  OBVIOUS
<1>2. x.pc # "none" => Working' = Working \cup {b}
  BY DEF Working
<1>3. x.pc = "none" => Working' = Working \ {b}
  BY DEF Working
<1>4. Cardinality(Working) \in Nat
  BY FS_CardinalityType
<1>5. /\ IsFiniteSet(Working \cup {b})
      /\ Cardinality(Working \cup {b}) =
           IF b \in Working THEN Cardinality(Working) ELSE Cardinality(Working) + 1
  BY FS_AddElement
<1>6. /\ IsFiniteSet(Working \ {b})
      /\ Cardinality(Working \ {b}) =
           IF b \in Working THEN Cardinality(Working) - 1 ELSE Cardinality(Working)
  BY FS_RemoveElement
<1>7. x.pc = "none" =>
        /\ IsFiniteSet(Working')
        /\ Cardinality(Working') =
             IF b \in Working THEN Cardinality(Working) - 1 ELSE Cardinality(Working)
  BY ONLY <1>3, <1>6, Zenon
<1>8. x.pc # "none" =>
        /\ IsFiniteSet(Working')
        /\ Cardinality(Working') =
             IF b \in Working THEN Cardinality(Working) ELSE Cardinality(Working) + 1
  BY ONLY <1>2, <1>5, Zenon
<1>9. IsFiniteSet(Working')
  BY <1>7, <1>8
<1>10. Cardinality(Working') \in Nat
  BY <1>9, FS_CardinalityType
<1> HIDE DEF Working
<1> QED
  BY <1>1, <1>4, <1>7, <1>8, <1>9, <1>10

LEMMA NoBatchType == NoBatch \in Batch /\ NoBatch.pc = "none"
<1>1. <<>> \in Seq(Owners)
  OBVIOUS
<1> QED
  BY <1>1, FormAssumption DEF NoBatch, Batch, Owners, Tokens

\* The types and the tally hold after a step of the session or of the widget.
LEMMA WidgetType ==
    ASSUME TypeOK, Tally,
           \/ (SessionNext /\ UNCHANGED form) \/ UNCHANGED vars
           \/ FetchSettings \/ LoadTurnstile \/ RenderTurnstile \/ SetToken
    PROVE  (TypeOK /\ Tally)'
<1> USE FormAssumption
<1>1. batches' = batches /\ Working' = Working /\ begun' = begun
  BY DEF Working, form, vars, FetchSettings, LoadTurnstile, RenderTurnstile, SetToken
<1>2. issued \in Nat /\ begun \in Nat /\ Cardinality(Working) \in Nat
  BY FS_CardinalityType DEF TypeOK, Tally, Tokens
<1>3. CASE SessionNext /\ UNCHANGED form
  BY <1>1, <1>3, SessionTypeKept DEF form, TypeOK, Tally
<1>4. CASE UNCHANGED vars
  BY <1>1, <1>4 DEF vars, session, form, TypeOK, SessionTypeOK, Tally
<1>5. ASSUME UNCHANGED session PROVE SessionTypeOK'
  BY <1>5 DEF session, TypeOK, SessionTypeOK
<1>6. CASE FetchSettings
  <2>1. faults' \in 0..MaxFaults /\ limits' \in {"none", "public", "authenticated"}
    BY <1>6 DEF FetchSettings, Fault, TypeOK
  <2> QED
    BY <1>1, <1>5, <1>6, <2>1 DEF FetchSettings, TypeOK, Tally
<1>7. CASE LoadTurnstile
  BY <1>1, <1>5, <1>7 DEF LoadTurnstile, Asked, TypeOK, Tally
<1>8. CASE RenderTurnstile
  <2>1. faults' \in 0..MaxFaults /\ widget' \in {"shown", "spent"}
    BY <1>8 DEF RenderTurnstile, Fault, TypeOK
  <2> QED
    BY <1>1, <1>5, <1>8, <2>1 DEF RenderTurnstile, TypeOK, Tally
<1>9. CASE SetToken
  <2>1. Tally'
    BY <1>1, <1>2, <1>9 DEF SetToken, Tally
  <2>2. issued' \in Tokens /\ token' \in Tokens
    BY <1>2, <1>9 DEF SetToken, Tally, TypeOK, Tokens
  <2> QED
    BY <1>1, <1>5, <1>9, <2>1, <2>2 DEF SetToken, TypeOK
<1> QED
  BY <1>3, <1>4, <1>6, <1>7, <1>8, <1>9

\* They hold after files are dropped.
LEMMA DropType ==
    ASSUME TypeOK, Tally, NEW b \in Batches, NEW files \in 1..MaxFiles,
           ProcessFiles(b, files)
    PROVE  (TypeOK /\ Tally)'
<1> USE FormAssumption
<1> DEFINE x == [NoBatch EXCEPT !.pc = IF IsGuest /\ token = 0 THEN "waiting" ELSE "ready",
                                !.left = files - 1]
<1>1. x \in Batch /\ x.pc # "none"
  <2>1. files - 1 \in 0..MaxFiles
    OBVIOUS
  <2>2. \A pc \in {"waiting", "ready"}, n \in 0..MaxFiles :
           LET y == [NoBatch EXCEPT !.pc = pc, !.left = n]
           IN  y \in Batch /\ y.pc = pc
    BY NoBatchType DEF Batch
  <2> QED
    BY <2>1, <2>2
<1>2. batches' = [batches EXCEPT ![b] = x]
  BY DEF ProcessFiles
<1> HIDE DEF x
<1>3. /\ batches' \in [Batches -> Batch] /\ IsFiniteSet(Working')
      /\ Cardinality(Working') \in Nat /\ Cardinality(Working) \in Nat
      /\ Cardinality(Working') <= Cardinality(Working) + 1
  BY <1>1, <1>2, BatchReplaced DEF ProcessFiles, TypeOK, Tally
<1>4. /\ begun' = begun + files /\ begun' \in 0..MaxFiles /\ begun \in Nat
      /\ issued' = issued /\ issued \in Nat
  BY DEF ProcessFiles, TypeOK, Tokens
<1>5. /\ widget' \in {"unasked", "loading", "spent", "shown", "solved"}
      /\ widget' = "solved" <=> widget = "solved"
  BY DEF ProcessFiles, Asked, TypeOK
<1>6. Tally'
  BY <1>3, <1>4, <1>5 DEF Tally
<1>7. SessionTypeOK'
  BY DEF ProcessFiles, session, TypeOK, SessionTypeOK
<1>8. doubled' \in BOOLEAN
  BY DEF ProcessFiles, TypeOK
<1> QED
  BY <1>3, <1>4, <1>5, <1>6, <1>7, <1>8 DEF ProcessFiles, TypeOK

\* They hold after a step of a batch under way: the batch goes on, as y, or it
\* ends; a guest's failed one takes its token with it.
LEMMA BatchGoesOn ==
    ASSUME TypeOK, Tally, NEW b \in Batches, NEW y \in Batch,
           batches[b].pc # "none", batches' = [batches EXCEPT ![b] = y],
           UNCHANGED <<session, settings, limits, issued, begun, doubled>>,
           loading' \in BOOLEAN, token' \in Tokens, used' \subseteq Tokens,
           window' \in BOOLEAN, faults' \in 0..MaxFaults,
           \/ y.pc # "none" /\ widget' = widget
           \/ y.pc = "none" /\ widget' \in {widget, "shown"}
    PROVE  (TypeOK /\ Tally)'
<1> USE FormAssumption
<1>1. b \in Working
  BY DEF Working
<1>2. begun \in Nat /\ issued \in Nat /\ widget' \in {widget, "shown"}
  BY DEF TypeOK, Tokens
<1>3. /\ batches' \in [Batches -> Batch]
      /\ IsFiniteSet(Working') /\ Cardinality(Working') \in Nat
      /\ Cardinality(Working) \in Nat
      /\ y.pc # "none" => Cardinality(Working') = Cardinality(Working)
      /\ y.pc = "none" => Cardinality(Working') = Cardinality(Working) - 1
  BY <1>1, BatchReplaced DEF TypeOK, Tally
<1>4. Tally'
  BY <1>2, <1>3 DEF Tally, TypeOK, Tokens
<1>5. SessionTypeOK'
  BY DEF session, TypeOK, SessionTypeOK
<1>6. widget' \in {"unasked", "loading", "spent", "shown", "solved"}
  BY DEF TypeOK
<1> QED
  BY <1>3, <1>4, <1>5, <1>6 DEF TypeOK

LEMMA ProcessType ==
    ASSUME TypeOK, Tally, NEW b \in Batches, Process(b)
    PROVE  (TypeOK /\ Tally)'
<1> USE FormAssumption
<1>1. /\ batches[b] \in Batch /\ batches \in [Batches -> Batch]
      /\ token \in Tokens /\ 0 \in Tokens /\ used \subseteq Tokens
      /\ window \in BOOLEAN /\ faults \in 0..MaxFaults /\ loading \in BOOLEAN
      /\ Owner \in Owners
  BY DEF TypeOK, Tokens, Owner, Owners
<1>2. CASE TokenCame(b)
  <2> DEFINE y == [batches[b] EXCEPT !.pc = "ready"]
  <2>1. y \in Batch /\ y.pc = "ready"
    BY <1>1 DEF Batch
  <2>2. batches' = [batches EXCEPT ![b] = y]
    BY <1>1, <1>2 DEF TokenCame
  <2> HIDE DEF y
  <2> QED
    BY <1>1, <1>2, <2>1, <2>2, BatchGoesOn DEF TokenCame
<1>3. CASE GiveUp(b)
  BY <1>1, <1>3, NoBatchType, BatchGoesOn DEF GiveUp
<1>4. CASE Failed(b)
  BY <1>1, <1>4, NoBatchType, BatchGoesOn DEF Failed, ResetTurnstile
<1>5. CASE Send(b)
  <2> DEFINE y == [batches[b] EXCEPT !.pc = "sent", !.owner = Owner, !.first = Owner,
                                     !.turnstile = token]
  <2>1. y \in Batch /\ y.pc = "sent"
    BY <1>1 DEF Batch
  <2>2. batches' = [batches EXCEPT ![b] = y]
    BY <1>1, <1>5 DEF Send
  <2> HIDE DEF y
  <2> QED
    BY <1>1, <1>5, <2>1, <2>2, BatchGoesOn DEF Send
<1>6. CASE Retry(b)
  <2> DEFINE y == [batches[b] EXCEPT !.pc = "sent", !.owner = Owner, !.retried = TRUE]
  <2>1. y \in Batch /\ y.pc = "sent"
    BY <1>1 DEF Batch
  <2>2. batches' = [batches EXCEPT ![b] = y]
    BY <1>1, <1>6 DEF Retry
  <2> HIDE DEF y
  <2> QED
    BY <1>1, <1>6, <2>1, <2>2, BatchGoesOn DEF Retry
<1>7. CASE Created(b) /\ MoreFiles(b)
  <2> DEFINE y == [NoBatch EXCEPT !.pc = "ready", !.left = batches[b].left - 1]
  <2>1. batches[b].left - 1 \in 0..MaxFiles
    BY <1>1, <1>7 DEF Batch, MoreFiles
  <2>2. \A n \in 0..MaxFiles :
           LET x == [NoBatch EXCEPT !.pc = "ready", !.left = n]
           IN  x \in Batch /\ x.pc = "ready"
    BY NoBatchType DEF Batch
  <2>3. y \in Batch /\ y.pc = "ready"
    BY <2>1, <2>2
  <2>4. batches' = [batches EXCEPT ![b] = y]
    BY <1>7 DEF Created
  <2> HIDE DEF y
  <2> QED
    BY <1>1, <1>7, <2>3, <2>4, BatchGoesOn DEF Created
<1>8. CASE Created(b) /\ ~MoreFiles(b)
  BY <1>1, <1>8, NoBatchType, BatchGoesOn DEF Created
<1> QED
  BY <1>2, <1>3, <1>4, <1>5, <1>6, <1>7, <1>8 DEF Process

LEMMA RequestType ==
    ASSUME TypeOK, Tally, NEW b \in Batches, PostJobs(b) \/ Lose(b)
    PROVE  (TypeOK /\ Tally)'
<1> USE FormAssumption
<1>1. /\ batches[b] \in Batch /\ batches \in [Batches -> Batch]
      /\ token \in Tokens /\ used \subseteq Tokens
      /\ window \in BOOLEAN /\ faults \in 0..MaxFaults /\ loading \in BOOLEAN
  BY DEF TypeOK
<1>2. batches[b].pc # "none"
  BY DEF PostJobs, Lose
<1>3. /\ UNCHANGED <<session, settings, limits, issued, begun, doubled>>
      /\ widget' = widget /\ token' = token /\ loading' = loading
  BY DEF PostJobs, Lose
<1>4. /\ used' \subseteq Tokens /\ window' \in BOOLEAN /\ faults' \in 0..MaxFaults
  <2>1. batches[b].turnstile \in Tokens
    BY <1>1 DEF Batch
  <2>2. Fault => faults' \in 0..MaxFaults
    BY <1>1 DEF Fault
  <2>3. \/ Fault /\ UNCHANGED <<used, window>>
        \/ UNCHANGED <<used, window, faults>>
        \/ AcceptGuest(b)
    BY DEF PostJobs, Lose, Unauthorized, Refuse, Accept
  <2>4. AcceptGuest(b) => /\ used' = used \cup {batches[b].turnstile}
                          /\ window' = TRUE /\ faults' = faults
    BY DEF AcceptGuest
  <2> QED
    BY <1>1, <2>1, <2>2, <2>3, <2>4
<1>5. ASSUME NEW pc \in {"refused", "unauthorized", "lost"}, Answer(b, pc)
      PROVE  (TypeOK /\ Tally)'
  <2> DEFINE y == [batches[b] EXCEPT !.pc = pc]
  <2>1. y \in Batch /\ y.pc = pc
    BY <1>1 DEF Batch
  <2>2. batches' = [batches EXCEPT ![b] = y]
    BY <1>1, <1>5 DEF Answer
  <2> HIDE DEF y
  <2> QED
    BY <1>1, <1>2, <1>3, <1>4, <2>1, <2>2, BatchGoesOn
<1>6. CASE Create(b)
  <2>1. PICK pc \in {"created", "refused"} :
           batches' = [batches EXCEPT ![b].pc = pc,
                                      ![b].made = Append(@, batches[b].owner)]
    BY <1>6 DEF Create
  <2> DEFINE y == [batches[b] EXCEPT !.pc = pc,
                                     !.made = Append(@, batches[b].owner)]
  <2>2. batches[b].made \in Seq(Owners) /\ batches[b].owner \in Owners
    BY <1>1 DEF Batch
  <2>3. Append(batches[b].made, batches[b].owner) \in Seq(Owners)
    BY <2>2
  <2>4. y \in Batch /\ y.pc = pc
    BY <1>1, <2>3 DEF Batch
  <2>5. batches' = [batches EXCEPT ![b] = y]
    BY <1>1, <2>1
  <2> HIDE DEF y
  <2> QED
    BY <1>1, <1>2, <1>3, <1>4, <2>4, <2>5, BatchGoesOn
<1> QED
  BY <1>5, <1>6 DEF PostJobs, Lose, Unauthorized, Refuse, Accept, AcceptGuest

LEMMA TypeKept == TypeOK /\ Tally /\ [Next]_vars => (TypeOK /\ Tally)'
  BY WidgetType, DropType, ProcessType, RequestType DEF Next, FormNext

\* The types and the tally hold throughout.
LEMMA TypeAndTally == Spec => [](TypeOK /\ Tally)
  BY InitType, TypeKept, PTL DEF Spec

\* Whatever the batches, clicks, requests and answers, the form's state stays
\* within its types; above all, Turnstile issues no more tokens than there are
\* files, and one (SetToken, ResetTurnstile of UploadForm.tsx).
THEOREM FormTypeCorrect == Spec => []TypeOK
  BY TypeAndTally, PTL

-----------------------------------------------------------------------------

\* What is known of the file of a batch: the Worker has made nothing of it, or
\* one job as it was first sent; only a request with a sign-in is refused it.
FileOK(x) ==
    /\ x.made = <<>> \/ x.made = <<x.first>>
    /\ x.pc \in {"none", "waiting", "ready", "sent", "unauthorized"} => x.made = <<>>
    /\ x.pc \in {"sent", "unauthorized"} => x.owner = x.first
    /\ x.pc = "unauthorized" => x.owner = "firebase"

FilesInv == \A b \in Batches : FileOK(batches[b])

\* What the Worker's answer, or the lack of one, does to a batch.
LEMMA Requests ==
    ASSUME NEW b \in Batches, PostJobs(b) \/ Lose(b)
    PROVE  /\ batches[b].pc # "none" /\ loading' = loading /\ doubled' = doubled
           /\ \/ Answer(b, "refused") \/ Answer(b, "lost")
              \/ /\ batches[b].pc = "sent" /\ batches[b].owner = "firebase"
                 /\ Answer(b, "unauthorized")
              \/ batches[b].pc = "sent" /\ Create(b)
<1>1. CASE Lose(b)
  BY <1>1 DEF Lose
<1>2. CASE PostJobs(b)
  <2>1. AcceptGuest(b) => Create(b) \/ Answer(b, "refused")
    BY DEF AcceptGuest
  <2> QED
    BY <1>2, <2>1 DEF PostJobs, Unauthorized, Refuse, Accept
<1> QED
  BY <1>1, <1>2

\* Only the batch of a step changes, and its file stays as FileOK says.
LEMMA FileKept ==
    ASSUME TypeOK, FilesInv, NEW b \in Batches,
           Process(b) \/ PostJobs(b) \/ Lose(b)
    PROVE  FilesInv'
<1>1. batches[b] \in Batch /\ batches \in [Batches -> Batch] /\ FileOK(batches[b])
  BY DEF TypeOK, FilesInv
<1>2. ASSUME NEW y, batches' = [batches EXCEPT ![b] = y], FileOK(y)
      PROVE  FilesInv'
  BY <1>1, <1>2 DEF FilesInv
<1>3. CASE TokenCame(b)
  <2> DEFINE y == [batches[b] EXCEPT !.pc = "ready"]
  <2>1. FileOK(y)
    BY <1>1, <1>3 DEF TokenCame, FileOK, Batch
  <2>2. batches' = [batches EXCEPT ![b] = y]
    BY <1>1, <1>3 DEF TokenCame
  <2> QED
    BY <1>2, <2>1, <2>2
<1>4. FileOK(NoBatch)
  BY DEF FileOK, NoBatch
<1>5. CASE GiveUp(b) \/ Failed(b) \/ (Created(b) /\ ~MoreFiles(b))
  BY <1>2, <1>4, <1>5 DEF GiveUp, Failed, Created
<1>6. CASE Created(b) /\ MoreFiles(b)
  <2> DEFINE y == [NoBatch EXCEPT !.pc = "ready", !.left = batches[b].left - 1]
  <2>1. FileOK(y)
    BY DEF FileOK, NoBatch
  <2>2. batches' = [batches EXCEPT ![b] = y]
    BY <1>6 DEF Created
  <2> QED
    BY <1>2, <2>1, <2>2
<1>7. CASE Send(b)
  <2> DEFINE y == [batches[b] EXCEPT !.pc = "sent", !.owner = Owner, !.first = Owner,
                                     !.turnstile = token]
  <2>1. FileOK(y)
    BY <1>1, <1>7 DEF Send, FileOK, Batch
  <2>2. batches' = [batches EXCEPT ![b] = y]
    BY <1>1, <1>7 DEF Send
  <2> QED
    BY <1>2, <2>1, <2>2
<1>8. CASE Retry(b)
  <2> DEFINE y == [batches[b] EXCEPT !.pc = "sent", !.owner = Owner, !.retried = TRUE]
  <2>1. batches[b].pc = "unauthorized" /\ Owner = "firebase"
    BY <1>8 DEF Retry, MayRetry, Owner
  <2>2. FileOK(y)
    BY <1>1, <2>1 DEF FileOK, Batch
  <2>3. batches' = [batches EXCEPT ![b] = y]
    BY <1>1, <1>8 DEF Retry
  <2> QED
    BY <1>2, <2>2, <2>3
<1>9. ASSUME NEW pc \in {"refused", "lost", "unauthorized"},
             pc = "unauthorized" => /\ batches[b].pc = "sent"
                                    /\ batches[b].owner = "firebase",
             Answer(b, pc)
      PROVE  FilesInv'
  <2> DEFINE y == [batches[b] EXCEPT !.pc = pc]
  <2>1. FileOK(y)
    BY <1>1, <1>9 DEF FileOK, Batch
  <2>2. batches' = [batches EXCEPT ![b] = y]
    BY <1>1, <1>9 DEF Answer
  <2> QED
    BY <1>2, <2>1, <2>2
<1>10. CASE batches[b].pc = "sent" /\ Create(b)
  <2>1. PICK pc \in {"created", "refused"} :
           batches' = [batches EXCEPT ![b].pc = pc,
                                      ![b].made = Append(@, batches[b].owner)]
    BY <1>10 DEF Create
  <2> DEFINE y == [batches[b] EXCEPT !.pc = pc,
                                     !.made = Append(@, batches[b].owner)]
  <2>2. /\ batches[b].made = <<>> /\ batches[b].owner = batches[b].first
        /\ Append(<<>>, batches[b].owner) = <<batches[b].owner>>
    BY <1>1, <1>10 DEF FileOK
  <2>3. y.made = <<batches[b].first>> /\ y.pc = pc /\ y.first = batches[b].first
    BY <1>1, <2>2 DEF Batch
  <2>4. FileOK(y)
    BY <2>3 DEF FileOK
  <2>5. batches' = [batches EXCEPT ![b] = y]
    BY <1>1, <2>1
  <2> HIDE DEF y
  <2> QED
    BY <1>2, <2>4, <2>5
<1>11. CASE PostJobs(b) \/ Lose(b)
  <2>1. \/ Answer(b, "refused") \/ Answer(b, "lost")
        \/ /\ batches[b].pc = "sent" /\ batches[b].owner = "firebase"
           /\ Answer(b, "unauthorized")
        \/ batches[b].pc = "sent" /\ Create(b)
    BY <1>11, Requests
  <2> QED
    BY <1>9, <1>10, <2>1
<1> QED
  BY <1>3, <1>5, <1>6, <1>7, <1>8, <1>11 DEF Process

LEMMA FilesKept == TypeOK /\ FilesInv /\ [Next]_vars => FilesInv'
<1> SUFFICES ASSUME TypeOK, FilesInv, [Next]_vars PROVE FilesInv'
  OBVIOUS
<1>1. CASE batches' = batches
  BY <1>1 DEF FilesInv
<1>2. ASSUME NEW b \in Batches, NEW files \in 1..MaxFiles, ProcessFiles(b, files)
      PROVE  FilesInv'
  <2>1. PICK pc \in {"waiting", "ready"} :
           batches' = [batches EXCEPT ![b] = [NoBatch EXCEPT !.pc = pc,
                                                             !.left = files - 1]]
    BY <1>2 DEF ProcessFiles
  <2>2. FileOK([NoBatch EXCEPT !.pc = pc, !.left = files - 1])
    BY DEF FileOK, NoBatch
  <2> QED
    BY <2>1, <2>2 DEF FilesInv, TypeOK
<1>3. ASSUME NEW b \in Batches, Process(b) \/ PostJobs(b) \/ Lose(b) PROVE FilesInv'
  BY <1>3, FileKept
<1> QED
  BY <1>1, <1>2, <1>3
     DEF Next, FormNext, form, vars, FetchSettings, LoadTurnstile, RenderTurnstile,
         SetToken

LEMMA FilesHold == Spec => []FilesInv
<1>1. Init => FilesInv
  BY DEF Init, FilesInv, FileOK, NoBatch
<1> QED
  BY <1>1, FilesKept, TypeAndTally, PTL DEF Spec

LEMMA FilesAreOne == FilesInv => OneJobPerFile /\ JobsStayPrivate
<1> SUFFICES ASSUME FilesInv, NEW b \in Batches
             PROVE  /\ Len(batches[b].made) <= 1
                    /\ \A n \in DOMAIN batches[b].made :
                          batches[b].made[n] = batches[b].first
  BY DEF OneJobPerFile, JobsStayPrivate
<1>1. batches[b].made = <<>> \/ batches[b].made = <<batches[b].first>>
  BY DEF FilesInv, FileOK
<1>2. CASE batches[b].made = <<>>
  <2>1. Len(<<>>) = 0 /\ \A n \in DOMAIN <<>> : FALSE
    OBVIOUS
  <2> QED
    BY <1>2, <2>1
<1>3. CASE batches[b].made = <<batches[b].first>>
  <2>1. \A f : /\ Len(<<f>>) = 1
               /\ \A n \in DOMAIN <<f>> : <<f>>[n] = f
    OBVIOUS
  <2> QED
    BY <1>3, <2>1
<1> QED
  BY <1>1, <1>2, <1>3

\* However many requests are lost, refused their sign-in or sent once more by
\* apiFetch, the Worker makes one job of a file at most: nothing is sent again
\* after POST /jobs has passed its authentication.
THEOREM OneJobPerFileHolds == Spec => []OneJobPerFile
  BY FilesHold, FilesAreOne, PTL

\* Whoever signs in or out in between, a file that was first sent with a sign-in
\* is not sent again as a guest's, nor the other way round: apiFetch sends again
\* only a request that had a sign-in, and only with one.
THEOREM JobsStayPrivateHolds == Spec => []JobsStayPrivate
  BY FilesHold, FilesAreOne, PTL

-----------------------------------------------------------------------------

\* The form loads only while a batch is under way and, unless batches overlap,
\* whenever one is, which is then the only one.
SpinnerInv ==
    /\ loading => Working # {}
    /\ ~doubled => /\ \A a, b \in Working : a = b
                   /\ Working # {} => loading

LEMMA SpinnerKept == TypeOK /\ SpinnerInv /\ [Next]_vars => SpinnerInv'
<1> SUFFICES ASSUME TypeOK, SpinnerInv, [Next]_vars PROVE SpinnerInv'
  OBVIOUS
<1>1. CASE UNCHANGED <<batches, loading, doubled>>
  BY <1>1 DEF SpinnerInv, Working
<1>2. ASSUME NEW b \in Batches, NEW files \in 1..MaxFiles, ProcessFiles(b, files)
      PROVE  SpinnerInv'
  <2>1. PICK pc \in {"waiting", "ready"} :
           batches' = [batches EXCEPT ![b] = [NoBatch EXCEPT !.pc = pc,
                                                             !.left = files - 1]]
    BY <1>2 DEF ProcessFiles
  <2>2. Working' = Working \cup {b}
    <3>1. [NoBatch EXCEPT !.pc = pc, !.left = files - 1].pc = pc
      BY DEF NoBatch
    <3>2. batches'[b].pc # "none" /\ \A a \in Batches \ {b} : batches'[a] = batches[a]
      BY <2>1, <3>1 DEF TypeOK
    <3> QED
      BY <3>2 DEF Working
  <2> QED
    BY <1>2, <2>2 DEF SpinnerInv, ProcessFiles
<1>3. ASSUME NEW b \in Batches, Process(b) \/ PostJobs(b) \/ Lose(b)
      PROVE  SpinnerInv'
  <2>1. b \in Working /\ doubled' = doubled
    BY <1>3 DEF Working, Process, TokenCame, GiveUp, Send, Created, Failed, Retry,
                PostJobs, Lose
  <2>2. \/ Working' = Working /\ loading' = loading
        \/ Working' = Working /\ loading' = TRUE
        \/ Working' = Working \ {b} /\ loading' = FALSE
    <3>1. CASE TokenCame(b)
      BY <3>1 DEF TokenCame, Working, TypeOK, Batch
    <3>2. CASE GiveUp(b) \/ Failed(b) \/ (Created(b) /\ ~MoreFiles(b))
      BY <3>2 DEF GiveUp, Failed, Created, Working, TypeOK, NoBatch
    <3>3. CASE Created(b) /\ MoreFiles(b)
      BY <3>3 DEF Created, Working, TypeOK, NoBatch
    <3>4. CASE Send(b) \/ Retry(b)
      BY <3>4 DEF Send, Retry, Working, TypeOK, Batch
    <3>5. CASE batches[b].pc # "none" /\ loading' = loading
               /\ \E pc \in {"refused", "unauthorized", "lost"} : Answer(b, pc)
      BY <3>5 DEF Answer, Working, TypeOK, Batch
    <3>6. CASE batches[b].pc # "none" /\ loading' = loading /\ Create(b)
      BY <3>6 DEF Create, Working, TypeOK, Batch
    <3> QED
      BY <1>3, <3>1, <3>2, <3>3, <3>4, <3>5, <3>6, Requests DEF Process
  <2> QED
    BY <2>1, <2>2 DEF SpinnerInv, TypeOK
<1> QED
  BY <1>1, <1>2, <1>3
     DEF Next, FormNext, form, vars, FetchSettings, LoadTurnstile, RenderTurnstile,
         SetToken

\* No batch leaves the form loading behind it, whatever overlaps; and as long as no
\* file is dropped while a batch is under way, the form shows that it uploads
\* exactly while one is (loading and the finally of processFiles).
THEOREM SpinnerIsTrueHolds == Spec => []SpinnerIsTrue
<1>1. Init => SpinnerInv
  BY DEF Init, SpinnerInv, Working, NoBatch
<1>2. SpinnerInv => SpinnerIsTrue
  BY DEF SpinnerInv, SpinnerIsTrue
<1> QED
  BY <1>1, <1>2, SpinnerKept, TypeAndTally, PTL DEF Spec

-----------------------------------------------------------------------------
(* Receipts                                                                *)

\* The Worker makes a job after its upload is sent, and once only.
Fresh == \A j \in Jobs : upload[j] \in {"idle", "sent"} => server[j] = "absent"

\* A call about to forget a job knows that the Worker deleted it.
KnownGone == \A j \in Jobs : removal[j].pc = "deleted" => server[j] = "gone"

\* A receipt that must not be lost is in public_jobs and in every copy that may
\* yet be written over it.
Held ==
    \A j \in Jobs :
        (upload[j] = "kept" /\ server[j] = "live" /\ j \notin failed)
        => /\ j \in stored
           /\ \A p \in Polls : poll[p].pc # "idle" => j \in poll[p].copy
           /\ \A k \in Jobs : removal[k].pc # "idle" => j \in removal[k].copy

RInv == ReceiptsTypeOK /\ Fresh /\ KnownGone /\ Held

-----------------------------------------------------------------------------

\* Nothing is uploaded, asked or stored at first.
LEMMA ReceiptsInit == InitReceipts => RInv
BY DEF InitReceipts, RInv, ReceiptsTypeOK, Fresh, KnownGone, Held, UploadPC, Poll, Removal,
       NoPoll, NoRemoval

\* Every step of uploadJob keeps the invariant; a receipt counts as kept only
\* when no copy without it is about to be written.
LEMMA UploadKeepsReceipts ==
    ASSUME RInv, NEW j \in Jobs,
           SendUpload(j) \/ MakeJob(j) \/ StoreReceipt(j) \/ LoseUpload(j)
    PROVE  RInv'
<1>1. CASE SendUpload(j)
  BY <1>1 DEF SendUpload, RInv, ReceiptsTypeOK, Fresh, KnownGone, Held, UploadPC
<1>2. CASE MakeJob(j)
  BY <1>2 DEF MakeJob, RInv, ReceiptsTypeOK, Fresh, KnownGone, Held, UploadPC
<1>3. CASE StoreReceipt(j)
  <2>1. ReceiptsTypeOK'
    BY <1>3 DEF StoreReceipt, RInv, ReceiptsTypeOK, UploadPC
  <2>2. Fresh' /\ KnownGone'
    BY <1>3 DEF StoreReceipt, RInv, ReceiptsTypeOK, Fresh, KnownGone
  <2>3. Held'
    BY <1>3 DEF StoreReceipt, RInv, ReceiptsTypeOK, Held, Quiet
  <2> QED BY <2>1, <2>2, <2>3 DEF RInv
<1>4. CASE LoseUpload(j)
  BY <1>4 DEF LoseUpload, RInv, ReceiptsTypeOK, Fresh, KnownGone, Held, UploadPC
<1> QED BY <1>1, <1>2, <1>3, <1>4

\* Every step of getJobs keeps the invariant: what it drops from its copy is
\* dead, or has failed.
LEMMA RefreshKeepsReceipts ==
    ASSUME RInv, NEW p \in Polls, Refresh(p)
    PROVE  RInv'
<1>1. CASE StartPoll(p)
  <2>1. ReceiptsTypeOK'
    BY <1>1 DEF StartPoll, RInv, ReceiptsTypeOK, Poll
  <2>2. Fresh' /\ KnownGone'
    BY <1>1 DEF StartPoll, RInv, ReceiptsTypeOK, Fresh, KnownGone
  <2>3. Held'
    BY <1>1 DEF StartPoll, RInv, ReceiptsTypeOK, Held, Poll
  <2> QED BY <2>1, <2>2, <2>3 DEF RInv
<1>2. CASE Receive(p)
  <2>1. poll[p].pc = "answered" /\ poll[p] \in Poll
    BY <1>2 DEF Receive, RInv, ReceiptsTypeOK
  <2>2. ReceiptsTypeOK'
    BY <1>2, <2>1 DEF Receive, RInv, ReceiptsTypeOK, Poll, NoPoll
  <2>3. Fresh' /\ KnownGone'
    BY <1>2 DEF Receive, RInv, ReceiptsTypeOK, Fresh, KnownGone
  <2>4. Held'
    BY <1>2, <2>1 DEF Receive, RInv, ReceiptsTypeOK, Held, Poll, NoPoll
  <2> QED BY <2>2, <2>3, <2>4 DEF RInv
<1>3. ASSUME NEW j \in Jobs, Look(p, j)
      PROVE  RInv'
  <2>1. poll[p].pc = "asking" /\ poll[p] \in Poll
    BY <1>3 DEF Look, RInv, ReceiptsTypeOK
  <2>2. ReceiptsTypeOK'
    BY <1>3, <2>1 DEF Look, RInv, ReceiptsTypeOK, Poll
  <2>3. Fresh' /\ KnownGone'
    BY <1>3 DEF Look, RInv, ReceiptsTypeOK, Fresh, KnownGone
  <2>4. Held'
    BY <1>3, <2>1 DEF Look, RInv, ReceiptsTypeOK, Held, Poll
  <2> QED BY <2>2, <2>3, <2>4 DEF RInv
<1>4. ASSUME NEW j \in Jobs, LookFails(p, j)
      PROVE  RInv'
  <2>1. poll[p].pc = "asking" /\ poll[p] \in Poll
    BY <1>4 DEF LookFails, RInv, ReceiptsTypeOK
  <2>2. ReceiptsTypeOK'
    BY <1>4, <2>1 DEF LookFails, RInv, ReceiptsTypeOK, Poll
  <2>3. Fresh' /\ KnownGone'
    BY <1>4 DEF LookFails, RInv, ReceiptsTypeOK, Fresh, KnownGone
  <2>4. Held'
    BY <1>4, <2>1 DEF LookFails, RInv, ReceiptsTypeOK, Held, Poll
  <2> QED BY <2>2, <2>3, <2>4 DEF RInv
<1> QED BY <1>1, <1>2, <1>3, <1>4 DEF Refresh

\* Every step of deleteJob, and the passing of public_expires_at, keep the
\* invariant: what is forgotten is gone.
LEMMA RemovalKeepsReceipts ==
    ASSUME RInv, NEW j \in Jobs,
           Delete(j) \/ ServeDelete(j) \/ Forget(j) \/ Expire(j)
    PROVE  RInv'
<1>1. CASE Delete(j)
  <2>1. ReceiptsTypeOK'
    BY <1>1 DEF Delete, RInv, ReceiptsTypeOK, Removal
  <2>2. Fresh' /\ KnownGone'
    BY <1>1 DEF Delete, RInv, ReceiptsTypeOK, Fresh, KnownGone, Removal
  <2>3. Held'
    BY <1>1 DEF Delete, RInv, ReceiptsTypeOK, Held, Removal
  <2> QED BY <2>1, <2>2, <2>3 DEF RInv
<1>2. CASE ServeDelete(j)
  <2>1. removal[j].pc = "sent" /\ removal[j] \in Removal
    BY <1>2 DEF ServeDelete, RInv, ReceiptsTypeOK
  <2>2. /\ server' = server \/ server' = [server EXCEPT ![j] = "gone"]
        /\ stored' = stored /\ upload' = upload /\ poll' = poll
        /\ failed' = failed
    BY <1>2 DEF ServeDelete
  <2>3. PICK r \in {[removal[j] EXCEPT !.pc = "deleted"], NoRemoval} :
             /\ removal' = [removal EXCEPT ![j] = r]
             /\ r.pc = "deleted" => server'[j] = "gone"
    BY <1>2, <2>1 DEF ServeDelete, RInv, ReceiptsTypeOK, Removal, NoRemoval
  <2>4. r \in Removal /\ (r.pc # "idle" => r.copy = removal[j].copy)
    BY <2>1, <2>3 DEF Removal, NoRemoval
  <2>5. ReceiptsTypeOK'
    BY <2>2, <2>3, <2>4 DEF RInv, ReceiptsTypeOK
  <2>6. Fresh'
    BY <1>2 DEF ServeDelete, RInv, ReceiptsTypeOK, Fresh
  <2>7. KnownGone'
    BY <2>2, <2>3 DEF RInv, ReceiptsTypeOK, KnownGone
  <2>8. Held'
    BY <2>1, <2>2, <2>3, <2>4 DEF RInv, ReceiptsTypeOK, Held
  <2> QED BY <2>5, <2>6, <2>7, <2>8 DEF RInv
<1>3. CASE Forget(j)
  <2>1. removal[j].pc = "deleted" /\ removal[j] \in Removal /\ server[j] = "gone"
    BY <1>3 DEF Forget, RInv, ReceiptsTypeOK, KnownGone
  <2>2. ReceiptsTypeOK'
    BY <1>3, <2>1 DEF Forget, RInv, ReceiptsTypeOK, Removal, NoRemoval
  <2>3. Fresh' /\ KnownGone'
    BY <1>3 DEF Forget, RInv, ReceiptsTypeOK, Fresh, KnownGone, NoRemoval
  <2>4. Held'
    BY <1>3, <2>1 DEF Forget, RInv, ReceiptsTypeOK, Held, Removal, NoRemoval
  <2> QED BY <2>2, <2>3, <2>4 DEF RInv
<1>4. CASE Expire(j)
  BY <1>4 DEF Expire, RInv, ReceiptsTypeOK, Fresh, KnownGone, Held
<1> QED BY <1>1, <1>2, <1>3, <1>4

\* RInv is an invariant of the browser and the Worker together.
THEOREM ReceiptsInvariance == ReceiptsSpec => []RInv
<1>1. InitReceipts => RInv
  BY ReceiptsInit
<1>2. RInv /\ [ReceiptsNext]_receipts => RInv'
  <2> SUFFICES ASSUME RInv, [ReceiptsNext]_receipts PROVE RInv'
    OBVIOUS
  <2>1. CASE ReceiptsNext
    BY <2>1, UploadKeepsReceipts, RefreshKeepsReceipts, RemovalKeepsReceipts
       DEF ReceiptsNext
  <2>2. CASE UNCHANGED receipts
    BY <2>2 DEF receipts, RInv, ReceiptsTypeOK, Fresh, KnownGone, Held
  <2> QED BY <2>1, <2>2
<1> QED BY <1>1, <1>2, PTL DEF ReceiptsSpec

-----------------------------------------------------------------------------

\* public_jobs, the copies and the Worker's answers keep their types.
THEOREM ReceiptsTypeCorrect == ReceiptsSpec => []ReceiptsTypeOK
<1>1. RInv => ReceiptsTypeOK
  BY DEF RInv
<1> QED BY <1>1, ReceiptsInvariance, PTL

\* However many lists are open and whatever is deleted meanwhile, the receipt of
\* a live job stored in quiet is lost only after a refresh failed to ask for it.
THEOREM LossIsExplained == ReceiptsSpec => []LossNeedsRace
<1>1. RInv => LossNeedsRace
  BY DEF RInv, Held, LossNeedsRace
<1> QED BY <1>1, ReceiptsInvariance, PTL

=============================================================================
