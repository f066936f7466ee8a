----------------------------- MODULE MCStartup -----------------------------
(***************************************************************************)
(* Small instances of Startup for TLC.  A host is one that has every       *)
(* setting in its environment, with one or two changes: a setting is taken *)
(* away, or any layer gives it any value of a class the code tells apart.  *)
(***************************************************************************)
EXTENDS Startup, TLC

Secure == [https |-> TRUE, host |-> "dns", userinfo |-> FALSE, bare |-> TRUE]
Remote == [cluster |-> FALSE, tls |-> TRUE, userinfo |-> FALSE, named |-> TRUE,
           parsed |-> TRUE]
Local  == [cluster |-> TRUE, tls |-> FALSE, userinfo |-> FALSE, named |-> TRUE,
           parsed |-> TRUE]

\* What a change may set each setting to.  No integer is blank: what flags2env
\* makes of that does not show in the repository.
Choice(s) ==
  CASE s \in Base ->
         {Garbled, [Secure EXCEPT !.https = FALSE], [Secure EXCEPT !.host = "ip"],
          [Secure EXCEPT !.host = "loopback"], [Secure EXCEPT !.userinfo = TRUE],
          [Secure EXCEPT !.bare = FALSE]}
    [] s \in Switch -> {TRUE, FALSE, Garbled}
    [] s = "database_max_connections" -> {-1, 0, 16, 17, MaxU32 + 1, Garbled}
    [] s = "port" -> {0, MaxPort + 1, Garbled}
    [] s = "interaction_mode" -> InteractionMode \cup {Garbled}
    [] s = "database_flavor" -> {"cockroach", Garbled}
    [] s = "nats_url" ->
         {Blank, Local, [Remote EXCEPT !.tls = FALSE], [Remote EXCEPT !.userinfo = TRUE],
          [Remote EXCEPT !.named = FALSE], [Remote EXCEPT !.parsed = FALSE]}
    [] s \in {"shared_auth_audience", "nats_request_stream", "nats_response_stream",
              "introspect_secret"} -> {"chosen", Blank, Garbled}
    [] s \in {"tcp_address", "tcp_server_name", "tcp_ca_file", "database_url",
              "nats_credentials_file"} -> {"chosen", Blank, Garbled}

Bare == [s \in Setting |-> Unset]

Complete(m) ==
  ("interaction_mode" :> m) @@ ("database_flavor" :> "postgres") @@ ("nats_url" :> Remote)
  @@ [s \in Base |-> Secure] @@ [s \in Integral |-> 1] @@ [s \in Switch |-> Unset]
  @@ [s \in Setting |-> "default"]

AnyLayer == {"dotenv", "environment", "overrides", "flags"}

Change ==
  UNION {{[layer |-> l, setting |-> s, value |-> v] :
            l \in IF s \in Contract THEN AnyLayer ELSE {"environment"}, v \in Choice(s)} :
         s \in Setting}
  \cup {[layer |-> "environment", setting |-> s, value |-> Unset] : s \in Setting}

Changed(h, c) == [h EXCEPT ![c.layer][c.setting] = c.value]

Started ==
  {[dotenv |-> Bare, environment |-> Complete(m), overrides |-> Bare, flags |-> Bare,
    malformed |-> FALSE, capable |-> TRUE] : m \in InteractionMode}

\* Two changes of one setting, which its layers decide between, or of settings
\* that are looked at together.
Related(s, t) ==
  \/ s = t
  \/ {s, t} = {"nats_url", "nats_credentials_file"}
  \/ {s, t} = {"tcp_address", "tcp_server_name"}
  \/ {s, t} \subseteq Switch \cup Base

MCHosts ==
  {Changed(Changed(h, c[1]), c[2]) :
     h \in Started, c \in {c \in Change \X Change : Related(c[1].setting, c[2].setting)}}
  \cup {[h EXCEPT !.malformed = TRUE] : h \in Started}
  \cup {[h EXCEPT !.capable = FALSE] : h \in Started}
  \cup {[h EXCEPT !.environment = Bare] : h \in Started}

=============================================================================
