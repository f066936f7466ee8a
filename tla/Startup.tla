------------------------------ MODULE Startup ------------------------------
(***************************************************************************)
(* How a process of one of the three renderers comes up, and what its      *)
(* first requests find of its configuration: flags.rs resolves four layers *)
(* of settings into one map, once; Config::from_env reads it; Runtime::new *)
(* validates it for the one interaction mode it names; main binds the      *)
(* port; and the handlers look their settings up again where they use      *)
(* them, each with an error of its own if one is not there.                *)
(*                                                                         *)
(* A setting is what the code tells apart of its value.  flags2env, which  *)
(* parses argv and dotenv files and coerces types, is not part of the      *)
(* repository; it is modelled as flags.rs uses it.                         *)
(***************************************************************************)
EXTENDS Integers

CONSTANTS
  Hosts,    \* the surroundings a process may be started in
  Unset,    \* no value; the None of an optional field
  Blank,    \* a value of white space only, or none at all after the "="
  Garbled,  \* a value its reader refuses: no URL, no mode, no number, no host name
  MaxU32,   \* the largest u32
  MaxPort   \* the largest u16

InteractionMode == {"direct_db_read", "stateless_https", "stateful_tls", "async_jetstream"}

Unusable == {Unset, Blank, Garbled}

Base     == {"api_base", "shared_auth_base"}
Switch   == {"help", "version"}
Integral == {"database_max_connections", "port"}

\* Settings that .cli-flags.toml declares, and those it leaves to the environment.
Contract == Base \cup Switch \cup Integral \cup
  {"interaction_mode", "shared_auth_audience", "database_flavor", "tcp_address",
   "tcp_server_name", "nats_url", "nats_request_stream", "nats_response_stream"}
Ignored == {"introspect_secret", "database_url", "tcp_ca_file", "nats_credentials_file"}
Setting == Contract \cup Ignored

\* The fields of Config, which reads every setting but the switches and the port.
Field    == Setting \ (Switch \cup {"port"})
Optional == Ignored \cup {"tcp_address", "tcp_server_name", "nats_url"}

Url     == [https : BOOLEAN, host : {"dns", "loopback", "ip"}, userinfo : BOOLEAN,
            bare : BOOLEAN]
\* The code looks at the prefix and the authority of a NATS URL; that the rest of it
\* cannot be parsed is found out by the client.
NatsUrl == [cluster : BOOLEAN, tls : BOOLEAN, userinfo : BOOLEAN, named : BOOLEAN,
            parsed : BOOLEAN]

\* The usable values of each setting: of the type .cli-flags.toml declares, and of a
\* string what its reader makes of it.  A text is legal for its setting; two are
\* enough to tell one layer from another.
Text == {"default", "chosen"}

Values(s) ==
  CASE s \in Base               -> Url
    [] s \in Switch             -> BOOLEAN
    [] s \in Integral           -> Int
    [] s = "interaction_mode"   -> InteractionMode
    [] s = "database_flavor"    -> {"postgres", "cockroach"}
    [] s = "nats_url"           -> NatsUrl
    [] s \in Setting \ (Base \cup Switch \cup Integral \cup
                        {"interaction_mode", "database_flavor", "nats_url"}) -> Text

IsLayer(f) ==
  /\ DOMAIN f = Setting
  /\ \A s \in Setting : f[s] \in Values(s) \cup Unusable

IsConfig(c) ==
  /\ DOMAIN c = Field
  /\ \A s \in Field : c[s] \in Values(s) \cup Unusable

\* What flags2env finds in argv, dotenv files and their overrides; whether argv
\* holds an unknown option, an invalid value or a positional argument; and
\* whether the linked Ores Middleware has every capability this server requires.
IsHost(h) ==
  /\ DOMAIN h = {"dotenv", "environment", "overrides", "flags", "malformed", "capable"}
  /\ IsLayer(h.dotenv) /\ IsLayer(h.environment) /\ IsLayer(h.overrides) /\ IsLayer(h.flags)
  /\ h.malformed \in BOOLEAN /\ h.capable \in BOOLEAN

ASSUME StartupAssumption ==
  /\ \A h \in Hosts : IsHost(h)
  /\ Unset # Blank /\ Unset # Garbled
  /\ \A s \in Setting : \A x \in Unusable : x \notin Values(s)
  /\ MaxU32 \in Nat /\ MaxU32 >= 16
  /\ MaxPort \in Nat

VARIABLES
  host,       \* the surroundings of this process
  pc,         \* where its main is
  resolved,   \* flags::RESOLVED, or Unset
  config,     \* Runtime.config, or Unset
  mode,       \* Runtime.mode
  contacted,  \* the peers its requests have sent anything to
  lacking     \* the settings a request found missing, or could not use

vars == <<host, pc, resolved, config, mode, contacted, lacking>>

Peer       == {"auth", "api", "database", "tls", "nats"}
Place      == {"start", "configuring", "building", "binding", "serving", "exited"}

Init ==
  /\ host \in Hosts
  /\ pc = "start"
  /\ resolved = Unset
  /\ config = Unset
  /\ mode = Unset
  /\ contacted = {}
  /\ lacking = {}

-----------------------------------------------------------------------------
\* resolve_from.

Over(lower, upper) ==
  [s \in Setting |-> IF upper[s] # Unset THEN upper[s] ELSE lower[s]]

\* Mutant: the overrides of a dotenv file are layered under the environment.
RawOverridesLow(h) == Over(Over(Over(h.dotenv, h.overrides), h.environment), h.flags)

Raw(h) == Over(Over(Over(h.dotenv, h.environment), h.overrides), h.flags)

\* coerce types the settings of the contract, or refuses one of them.
Coercible(raw) == \A s \in Switch \cup Integral : raw[s] \in Values(s) \cup {Unset}

\* The environment, and over it whatever the contract has a typed value for.
Resolve(h) ==
  [s \in Setting |-> IF s \in Contract /\ Raw(h)[s] # Unset THEN Raw(h)[s]
                     ELSE h.environment[s]]

\* No map of settings is mistaken for the empty flags::RESOLVED.
ASSUME ResolvedAssumption == \A h \in Hosts : Resolve(h) # Unset

\* Mutant: values argv gets wrong are left to their defaults.
ResolvesLenient == Coercible(Raw(host)) /\ resolved' = Resolve(host)

Resolves ==
  /\ ~ host.malformed
  /\ Coercible(Raw(host))
  /\ resolved' = Resolve(host)

-----------------------------------------------------------------------------
\* Config::from_env.

\* Mutant: a default that is none of the values its reader knows.
DefaultOfMisspelt ==
  [interaction_mode |-> "stateless_https", shared_auth_audience |-> "default",
   database_flavor |-> "postgresql", nats_request_stream |-> "default",
   nats_response_stream |-> "default"]

DefaultOf == [interaction_mode |-> "stateless_https", shared_auth_audience |-> "default",
              database_flavor |-> "postgres", nats_request_stream |-> "default",
              nats_response_stream |-> "default"]

\* Read from the resolved settings c: an optional field is trimmed, a limit that
\* is no u32 is not there, and the others are taken as they are.
FromEnv(c) ==
  [s \in Field |->
     CASE s \in Base -> c[s]
       [] s \in Optional -> IF c[s] = Blank THEN Unset ELSE c[s]
       [] s = "database_max_connections" -> IF c[s] \in 0..MaxU32 THEN c[s] ELSE 4
       [] s \in DOMAIN DefaultOf -> IF c[s] = Unset THEN DefaultOf[s] ELSE c[s]]

-----------------------------------------------------------------------------
\* validate_config.

\* validate_shared_auth_base and validate_api_base, with is_safe_https_service_url.
ValidBase(u) ==
  /\ u \notin Unusable
  /\ u.https
  /\ u.host # "ip"
  /\ ~ u.userinfo
  /\ u.bare

\* A URL in the cluster is compared as a whole, and needs no credentials file.
ValidNats(c) ==
  /\ c.nats_url \notin Unusable
  /\ c.nats_url.tls \/ c.nats_url.cluster
  /\ ~ c.nats_url.userinfo
  /\ ~ c.nats_url.cluster => c.nats_url.named /\ c.nats_credentials_file # Unset
  /\ c.nats_request_stream \in Text
  /\ c.nats_response_stream \in Text

\* Mutant: the API base is validated where it is the only peer.
ValidForModeTrusting(c) ==
  CASE c.interaction_mode = "direct_db_read"  -> c.database_url # Unset
    [] c.interaction_mode = "stateless_https" -> ValidBase(c.api_base)
    [] c.interaction_mode = "stateful_tls"    -> c.tcp_address # Unset /\ c.tcp_server_name # Unset
    [] c.interaction_mode = "async_jetstream" -> ValidNats(c)

ValidForMode(c) ==
  CASE c.interaction_mode = "direct_db_read"  -> /\ c.database_url # Unset
                                                 /\ c.database_flavor \in {"postgres", "cockroach"}
    [] c.interaction_mode = "stateless_https" -> ValidBase(c.api_base)
    [] c.interaction_mode = "stateful_tls"    -> /\ c.tcp_address # Unset
                                                 /\ c.tcp_server_name # Unset
                                                 /\ c.tcp_ca_file # Unset
    [] c.interaction_mode = "async_jetstream" -> ValidBase(c.api_base) /\ ValidNats(c)

ValidateConfig(c) ==
  /\ ValidBase(c.shared_auth_base)
  /\ c.introspect_secret \notin Unusable
  /\ c.shared_auth_audience \in Text
  /\ c.database_max_connections \in 1..16
  /\ ValidForMode(c)

-----------------------------------------------------------------------------
\* main, up to axum::serve.

Exit == pc' = "exited"

\* A contract that cannot be materialized, a wrong argv or a mistyped value.
ProcessControlFails ==
  /\ pc = "start"
  /\ Exit
  /\ UNCHANGED <<host, resolved, config, mode, contacted, lacking>>

ProcessControl ==
  /\ pc = "start"
  /\ Resolves
  /\ IF \E s \in Switch : resolved'[s] = TRUE THEN Exit ELSE pc' = "configuring"
  /\ UNCHANGED <<host, config, mode, contacted, lacking>>

LoadConfig ==
  /\ pc = "configuring"
  /\ IF \E s \in Base : resolved[s] = Unset
     THEN Exit /\ UNCHANGED config
     ELSE pc' = "building" /\ config' = FromEnv(resolved)
  /\ UNCHANGED <<host, resolved, mode, contacted, lacking>>

\* Runtime::new: the middleware, the mode, the configuration and the HTTP client.
RuntimeNew ==
  /\ pc = "building"
  /\ host.capable
  /\ config.interaction_mode \in InteractionMode
  /\ ValidateConfig(config)
  /\ mode' = config.interaction_mode
  /\ pc' = "binding"
  /\ UNCHANGED <<host, resolved, config, contacted, lacking>>

\* One of them is refused, or the client cannot be built.
RuntimeNewFails ==
  /\ pc = "building"
  /\ Exit
  /\ UNCHANGED <<host, resolved, config, mode, contacted, lacking>>

Bind ==
  /\ pc = "binding"
  /\ resolved["port"] \in (0..MaxPort) \cup {Unset}
  /\ pc' = "serving"
  /\ UNCHANGED <<host, resolved, config, mode, contacted, lacking>>

BindFails ==
  /\ pc = "binding"
  /\ Exit
  /\ UNCHANGED <<host, resolved, config, mode, contacted, lacking>>

-----------------------------------------------------------------------------
\* The requests of a serving process, as far as its configuration goes.

\* A handler looks its settings up, and goes on to its peer if they are there.
LookUp(absent, peer) ==
  /\ pc = "serving"
  /\ lacking' = lacking \cup absent
  /\ contacted' = IF absent = {} THEN contacted \cup {peer} ELSE contacted
  /\ UNCHANGED <<host, pc, resolved, config, mode>>

Absent(settings) == {s \in settings : config[s] = Unset}

\* A value that is there and no use to who reads it.
Useless(s) ==
  \/ config[s] = Garbled
  \/ s = "nats_url" /\ config[s] \notin Unusable /\ ~ config[s].parsed

Refused(settings) == {s \in settings : Useless(s)}

Introspect == LookUp({}, "auth")

FetchDirect ==
  /\ mode = "direct_db_read" /\ "auth" \in contacted
  /\ LookUp(Absent({"database_url"}) \cup Refused({"database_url"}) \cup
              (IF config.database_flavor \in {"postgres", "cockroach"} THEN {}
               ELSE {"database_flavor"}), "database")

FetchHttp ==
  /\ mode = "stateless_https" /\ "auth" \in contacted
  /\ LookUp({}, "api")

\* A file without a certificate, an address that is none, a name no certificate can be
\* for: each ends in ApiUnavailable, before anything is sent.
ConnectTcp ==
  /\ mode = "stateful_tls" /\ "auth" \in contacted
  /\ LET needed == {"tcp_address", "tcp_server_name", "tcp_ca_file"} IN
       LookUp(Absent(needed) \cup Refused(needed), "tls")

FetchAsync ==
  /\ mode = "async_jetstream" /\ "auth" \in contacted
  /\ LookUp({}, "api")

ConnectNats ==
  /\ mode = "async_jetstream" /\ "api" \in contacted
  /\ LookUp(Absent({"nats_url"}) \cup Refused({"nats_url", "nats_credentials_file"}), "nats")

Exited == pc = "exited" /\ UNCHANGED vars

Main ==
  \/ ProcessControl \/ ProcessControlFails \/ LoadConfig
  \/ RuntimeNew \/ RuntimeNewFails \/ Bind \/ BindFails

Serve == Introspect \/ FetchDirect \/ FetchHttp \/ ConnectTcp \/ FetchAsync \/ ConnectNats

Next == Main \/ Serve \/ Exited

Spec == Init /\ [][Next]_vars

-----------------------------------------------------------------------------
TypeOK ==
  /\ IsHost(host)
  /\ pc \in Place
  /\ resolved = Unset \/ IsLayer(resolved)
  /\ config = Unset \/ IsConfig(config)
  /\ mode \in InteractionMode \cup {Unset}
  /\ contacted \subseteq Peer
  /\ lacking \subseteq Field

Layer == <<host.dotenv, host.environment, host.overrides, host.flags>>

Highest(s, v) ==
  \E i \in 1..4 : /\ Layer[i][s] = v
                  /\ v # Unset
                  /\ \A j \in i + 1..4 : Layer[j][s] = Unset

Used(s) == IF s \in Field THEN config[s] ELSE resolved[s]

\* The value a serving process uses of a setting is that of the highest layer
\* that has one: flags over dotenv overrides over the environment over dotenv.
HighestLayerWins ==
  pc = "serving" =>
    \A s \in Contract \ {"database_max_connections"} : \A v \in {Layer[i][s] : i \in 1..4} :
      Highest(s, v) /\ v # Blank => Used(s) = v

\* Whichever layer its base came from, an HTTP peer that is sent a bearer, Shared Auth
\* in every mode and the API in two, is reached by https, at a name or the loopback
\* and not at another IP address, and by a URL without credentials.  NATS is reached
\* by TLS with a credentials file, or at the one in-cluster URL, which may be in clear
\* text, and never with credentials in its authority.  No database pool is larger
\* than 16.  Neither tcp_address nor the host of NATS nor DATABASE_URL is vetted by
\* the code, and nothing is said of them.
VettedPeers ==
  /\ \A s \in Base : (IF s = "api_base" THEN "api" ELSE "auth") \in contacted =>
       config[s].https /\ config[s].host # "ip" /\ ~ config[s].userinfo
  /\ "nats" \in contacted =>
       /\ \/ config.nats_url.cluster
          \/ config.nats_url.tls /\ config.nats_credentials_file # Unset
       /\ ~ config.nats_url.userinfo
  /\ "database" \in contacted => config.database_max_connections \in 1..16

\* What validate_config asks only to be there, or in the case of the NATS URL looks at
\* in part: its reader may refuse the value in a request.
Unread == {"database_url", "tcp_address", "tcp_server_name", "tcp_ca_file",
           "nats_url", "nats_credentials_file"}

\* What a mode needs is asked for at startup: no request of a serving process fails
\* for a setting that is missing, or for a database flavor nobody knows.  Those it can
\* fail for were set to a value that is no use, which startup does not find out.
NothingMissing == \A s \in lacking : s \in Unread /\ Useless(s)

\* argv is parsed before any effect: a process with a wrong argv or mistyped
\* settings, or that was asked for help or its version, neither binds its port
\* nor contacts anybody; and flags::var, which panics without resolved settings,
\* is never called without them.
ControlComesFirst ==
  pc \notin {"start", "exited"} \/ contacted # {} =>
    /\ ~ host.malformed
    /\ Coercible(Raw(host))
    /\ \A s \in Switch : Raw(host)[s] # TRUE
    /\ resolved # Unset

\* What the message of validate_config claims, and the code does not do.

\* "database connection limit must be between 1 and 16": a limit that is not is
\* refused, so that a process that was given one and serves, serves with it.
LimitIsObeyed ==
  pc = "serving" => \A v \in {Layer[i]["database_max_connections"] : i \in 1..4} :
    Highest("database_max_connections", v) => config.database_max_connections = v

=============================================================================
