--------------------------- MODULE MCGuestLimits ---------------------------
(* Instances of GuestLimits for TLC: who sends the requests, and from where. *)
EXTENDS GuestLimits, TLC

CONSTANTS r1, r2, r3, alice, bob, office

\* Two browsers behind one address, the first with two requests.
OfficeClients == (r1 :> alice) @@ (r2 :> alice) @@ (r3 :> bob)
OfficeIps     == (r1 :> office) @@ (r2 :> office) @@ (r3 :> office)

\* One browser that comes back.
AliceClients == (r1 :> alice) @@ (r2 :> alice) @@ (r3 :> alice)

SameGuests == Permutations({r1, r2})

=============================================================================
