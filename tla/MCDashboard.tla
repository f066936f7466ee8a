---------------------------- MODULE MCDashboard ----------------------------
(***************************************************************************)
(* Small instances of Dashboard for TLC: two people of whom one opens two  *)
(* pages, and a visitor without a bearer.                                  *)
(***************************************************************************)
EXTENDS Dashboard, TLC

CONSTANTS r1, r2, r3, r4, alice, bob

MCBearer == (r1 :> alice) @@ (r2 :> bob) @@ (r3 :> alice) @@ (r4 :> bob)

=============================================================================
