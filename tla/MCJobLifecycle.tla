--------------------------- MODULE MCJobLifecycle ---------------------------
(* Instances of JobLifecycle for TLC: who submits the jobs, under which     *)
(* account, and with which daily limits.                                   *)
EXTENDS JobLifecycle, TLC

CONSTANTS j1, j2, user, guest

\* One job of a guest, fought over by the agents.
GuestSubjectOf == j1 :> guest
GuestLimits    == guest :> 1

\* Two jobs of one account with room for one a day, to which an exempt identity
\* may sign in.
PairSubjectOf == (j1 :> user) @@ (j2 :> user)
PairLimits    == user :> 1
PairSymmetry  == Permutations(Jobs)

=============================================================================
