------------------------ MODULE MCJetStreamOperation ------------------------
(***************************************************************************)
(* Small instances of JetStreamOperation for TLC.                          *)
(***************************************************************************)
EXTENDS JetStreamOperation, TLC

CONSTANTS r1, r2, r3, alice, bob

MCBearer == (r1 :> alice) @@ (r2 :> bob) @@ (r3 :> alice)
MCPair   == (r1 :> alice) @@ (r2 :> bob)

\* The streams README asks for, and every way to miss it in one setting.
Provisioned == [request  |-> [file |-> TRUE, workQueue |-> TRUE, subject |-> TRUE,
                              dedup |-> TRUE],
                response |-> [file |-> TRUE, limits |-> TRUE, direct |-> TRUE,
                              subjects |-> TRUE, dedup |-> TRUE],
                steady |-> TRUE]

\* The same, but discarding by its limits, or losing its direct gets meanwhile.
Unsteady == [Provisioned EXCEPT !.steady = FALSE]

MCUnsteady == {Unsteady, [Unsteady EXCEPT !.response.direct = FALSE]}

MCProvisioned == {Provisioned} \cup MCUnsteady

MCTopologies ==
  MCProvisioned
    \cup {[Provisioned EXCEPT !.request[f] = FALSE] :
            f \in {"file", "workQueue", "subject", "dedup"}}
    \cup {[Provisioned EXCEPT !.response[f] = FALSE] :
            f \in {"file", "limits", "direct", "subjects", "dedup"}}

=============================================================================
