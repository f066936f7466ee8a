---------------------------- MODULE MCTlsChannel ----------------------------
(***************************************************************************)
(* Small instances of TlsChannel for TLC: one server process, and two      *)
(* people of whom one has two browser tabs open, or two people and a third *)
(* whose bearer is too long to frame.                                      *)
(***************************************************************************)
EXTENDS TlsChannel, TLC

CONSTANTS r1, r2, r3, alice, bob, carol

MCBearer == (r1 :> alice) @@ (r2 :> bob) @@ (r3 :> alice)
MCLong   == (r1 :> alice) @@ (r2 :> bob) @@ (r3 :> carol)
MCPair   == (r1 :> alice) @@ (r2 :> bob)

=============================================================================
