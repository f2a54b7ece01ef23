-------------------------------- MODULE Session --------------------------------
(***************************************************************************)
(* Who the page is signed in as: AuthSessionLoader.tsx looks in IndexedDB   *)
(* for a session before it loads Firebase, AuthInitializer.tsx listens to   *)
(* Firebase, and the guest button of Dashboard.tsx mounts HeaderAuth.tsx,   *)
(* which opens a popup whenever it is mounted that way.  The one user there *)
(* is is signed in or not.                                                  *)
(***************************************************************************)
EXTENDS Naturals

CONSTANTS
    Logins,    \* calls of handleLogin that may be under way
    MaxMoves   \* bound: clicks to sign in or out, changes in another tab

ASSUME MovesAssumption == MaxMoves \in Nat

VARIABLES
    loader,     \* AuthSessionLoader: "asking" IndexedDB, "loading" (shouldLoad), "none"
    listening,  \* onAuthStateChanged is registered
    ready,      \* authReady()
    user,       \* currentUser() # null
    account,    \* external: Firebase's own state, which all tabs share
    trigger,    \* autoLoginTriggered()
    signing,    \* signingIn() of the HeaderAuth that is mounted
    logins,
    moves

session == <<loader, listening, ready, user, account, trigger, signing, logins, moves>>

\* here: its HeaderAuth is still mounted.  timer: LOGIN_TIMEOUT_MS runs.
Login   == [open : BOOLEAN, here : BOOLEAN, timer : BOOLEAN]
NoLogin == [open |-> FALSE, here |-> FALSE, timer |-> FALSE]

InitSession ==
    /\ loader = "asking" /\ listening = FALSE /\ ready = FALSE /\ user = FALSE
    /\ account \in BOOLEAN
    /\ trigger = FALSE /\ signing = FALSE
    /\ logins = [c \in Logins |-> NoLogin] /\ moves = 0

Mounted == trigger \/ user

\* The signals after a step; a HeaderAuth that is no longer shown takes
\* signingIn() with it.
Render(u, t, s, calls) ==
    /\ user' = u /\ trigger' = t
    /\ signing' = (s /\ (u \/ t))
    /\ logins' = [c \in Logins |-> [calls[c] EXCEPT !.here = @ /\ (u \/ t)]]

\* No database, no store or no entry: a guest.  An entry, or an error: Firebase
\* is loaded.
AskStore ==
    /\ loader = "asking"
    /\ \/ /\ ~account
          /\ loader' = "none" /\ ready' = TRUE
          /\ Render(FALSE, trigger, signing, logins)
       \/ loader' = "loading" /\ UNCHANGED <<ready, user, trigger, signing, logins>>
    /\ UNCHANGED <<listening, account, moves>>

\* AuthInitializer is mounted, once per page.
Listen ==
    /\ ~listening /\ (loader = "loading" \/ trigger)
    /\ listening' = TRUE
    /\ UNCHANGED <<loader, ready, user, account, trigger, signing, logins, moves>>

Notify ==
    /\ listening /\ (user # account \/ ~ready)
    /\ ready' = TRUE
    /\ Render(account, trigger, signing, logins)
    /\ UNCHANGED <<loader, listening, account, moves>>

Move == moves < MaxMoves /\ moves' = moves + 1

\* Mutant: a popup is waited for as long as it takes.
OpenPopupForGood(c) ==
    [logins EXCEPT ![c] = [open |-> TRUE, here |-> TRUE, timer |-> FALSE]]

OpenPopup(c) ==
    [logins EXCEPT ![c] = [open |-> TRUE, here |-> TRUE, timer |-> TRUE]]

\* The guest button of Dashboard, or that of HeaderAuth.
HandleLogin(c) ==
    /\ Move /\ ~logins[c].open
    /\ \/ ~Mounted
       \/ trigger /\ ready /\ ~user /\ ~signing
    /\ Render(user, TRUE, TRUE, OpenPopup(c))
    /\ UNCHANGED <<loader, listening, ready, account>>

\* The popup is answered, closed or refused, and finally cleans up.
Settle(c) ==
    /\ logins[c].open
    /\ \E signedIn \in BOOLEAN :
        /\ account' = (account \/ signedIn)
        /\ Render(user \/ signedIn, FALSE, signing /\ ~logins[c].here,
                  [logins EXCEPT ![c] = NoLogin])
    /\ UNCHANGED <<loader, listening, ready, moves>>

TimeOutLogin(c) ==
    /\ logins[c].timer
    /\ signing' = (signing /\ ~logins[c].here)
    /\ logins' = [logins EXCEPT ![c].timer = FALSE]
    /\ UNCHANGED <<loader, listening, ready, user, account, trigger, moves>>

\* The window has the focus again after a second and a half.
Focus ==
    /\ signing /\ signing' = FALSE
    /\ UNCHANGED <<loader, listening, ready, user, account, trigger, logins, moves>>

\* signOut(auth): currentUser() is left to the listener.
HandleLogout ==
    /\ Move /\ user
    /\ account' = FALSE
    /\ UNCHANGED <<loader, listening, ready, user, trigger, signing, logins>>

\* Another tab signs in or out.
Elsewhere ==
    /\ Move /\ account' = ~account
    /\ UNCHANGED <<loader, listening, ready, user, trigger, signing, logins>>

SessionNext ==
    \/ AskStore \/ Listen \/ Notify \/ Focus \/ HandleLogout \/ Elsewhere
    \/ \E c \in Logins : HandleLogin(c) \/ Settle(c) \/ TimeOutLogin(c)

SessionTypeOK ==
    /\ loader \in {"asking", "loading", "none"}
    /\ listening \in BOOLEAN /\ ready \in BOOLEAN /\ user \in BOOLEAN
    /\ account \in BOOLEAN /\ trigger \in BOOLEAN /\ signing \in BOOLEAN
    /\ logins \in [Logins -> Login] /\ moves \in 0..MaxMoves

================================================================================
