---------------------------- MODULE MCWebServer ----------------------------
(***************************************************************************)
(* A small instance of WebServer for TLC: two people who share the         *)
(* connections of the process.                                             *)
(***************************************************************************)
EXTENDS WebServer, TLC

CONSTANTS r1, r2, alice, bob

MCBearer == (r1 :> alice) @@ (r2 :> bob)

\* Streams that may discard by their limits: their behaviours include those of
\* streams that do not.
MCTopologies ==
  {[request  |-> [file |-> TRUE, workQueue |-> TRUE, subject |-> TRUE, dedup |-> TRUE],
    response |-> [file |-> TRUE, limits |-> TRUE, direct |-> TRUE, subjects |-> TRUE,
                  dedup |-> TRUE],
    steady |-> FALSE]}

=============================================================================
