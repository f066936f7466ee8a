----------------------------- MODULE MCTlsWait -----------------------------
(***************************************************************************)
(* The instances of MCTlsChannel with time.                                *)
(***************************************************************************)
EXTENDS TlsWait, TLC

CONSTANTS r1, r2, r3, alice, bob

MCBearer == (r1 :> alice) @@ (r2 :> bob) @@ (r3 :> alice)

=============================================================================
