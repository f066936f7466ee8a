---------------------------- MODULE StartupProofs ----------------------------
(***************************************************************************)
(* What holds of every process however its settings are layered, whatever  *)
(* they are, and whichever of its three mains it runs.                     *)
(***************************************************************************)
EXTENDS Startup, TLAPS

\* Every setting has a set of usable values, none of which is an unusable one.
LEMMA UnusableValues ==
  /\ \A s \in Switch : TRUE \in Values(s) /\ FALSE \in Values(s)
  /\ \A s \in Setting : Unset \notin Values(s) /\ Blank \notin Values(s) /\ Garbled \notin Values(s)
  /\ Unset # TRUE /\ Unset # Blank /\ Unset # Garbled
<1>1. \A s \in Switch : s \in Setting /\ Values(s) = BOOLEAN
  <2> SUFFICES ASSUME NEW s \in Switch PROVE s \in Setting /\ Values(s) = BOOLEAN
    OBVIOUS
  <2>1. /\ s \notin Base /\ s \notin Integral
        /\ s \notin {"interaction_mode", "database_flavor", "nats_url"}
    BY DEF Switch, Base, Integral
  <2>2. s \in Setting
    BY DEF Switch, Setting, Contract
  <2>3. QED
    BY <2>1, <2>2, Zenon DEF Values
<1>2. Unset \notin BOOLEAN
  BY <1>1, StartupAssumption DEF Switch, Unusable
<1>3. QED
  BY <1>1, <1>2, StartupAssumption DEF Unusable

-----------------------------------------------------------------------------
\* Typing.

\* Layers stay layers when one is put over another, and so does what is resolved.
LEMMA OverType ==
  ASSUME NEW f, NEW g, IsLayer(f), IsLayer(g)
  PROVE  IsLayer(Over(f, g))
BY DEF IsLayer, Over

LEMMA ResolveType ==
  ASSUME NEW h, IsHost(h)
  PROVE  IsLayer(Raw(h)) /\ IsLayer(Resolve(h))
<1>1. IsLayer(Raw(h))
  BY OverType DEF IsHost, Raw
<1>2. IsLayer(h.environment)
  BY DEF IsHost
<1>3. QED
  BY <1>1, <1>2 DEF IsLayer, Resolve

\* The settings, by what from_env does with them.
LEMMA FieldCases ==
  /\ Field = Base \cup Optional \cup {"database_max_connections"} \cup DOMAIN DefaultOf
  /\ Field \subseteq Setting
  /\ DOMAIN DefaultOf = {"interaction_mode", "shared_auth_audience", "database_flavor",
                         "nats_request_stream", "nats_response_stream"}
BY DEF Field, Base, Optional, DefaultOf, Setting, Contract, Ignored, Switch, Integral

\* What each of them becomes.
LEMMA FromEnvAt ==
  ASSUME NEW c, NEW s \in Field
  PROVE  /\ s \in Base => FromEnv(c)[s] = c[s]
         /\ s \in Optional => FromEnv(c)[s] = IF c[s] = Blank THEN Unset ELSE c[s]
         /\ s = "database_max_connections" =>
              FromEnv(c)[s] = IF c[s] \in 0..MaxU32 THEN c[s] ELSE 4
         /\ s \in DOMAIN DefaultOf =>
              FromEnv(c)[s] = IF c[s] = Unset THEN DefaultOf[s] ELSE c[s]
<1>1. s \in Base => s \notin Optional \cup {"database_max_connections"} \cup DOMAIN DefaultOf
  BY FieldCases DEF Base, Optional, Ignored
<1>2. s \in Optional => s \notin {"database_max_connections"} \cup DOMAIN DefaultOf
  BY FieldCases DEF Optional, Ignored
<1>3. s = "database_max_connections" => s \notin DOMAIN DefaultOf
  BY FieldCases
<1>4. QED
  BY <1>1, <1>2, <1>3, FieldCases DEF FromEnv

LEMMA FromEnvType ==
  ASSUME NEW c, IsLayer(c)
  PROVE  IsConfig(FromEnv(c))
<1> SUFFICES ASSUME NEW s \in Field PROVE FromEnv(c)[s] \in Values(s) \cup Unusable
  BY DEF IsConfig, FromEnv
<1>1. c[s] \in Values(s) \cup Unusable
  BY FieldCases DEF IsLayer
<1>2. CASE s \in Base
  BY <1>1, <1>2, FromEnvAt
<1>3. CASE s \in Optional
  BY <1>1, <1>3, FromEnvAt DEF Unusable
<1>4. CASE s = "database_max_connections"
  <2>1. Values(s) = Int
    BY <1>4 DEF Values, Base, Switch, Integral
  <2>2. QED
    BY <1>1, <1>4, <2>1, FromEnvAt, StartupAssumption
<1>5. CASE s \in DOMAIN DefaultOf
  <2>1. DefaultOf[s] \in Values(s)
    BY <1>5, FieldCases
       DEF DefaultOf, Values, Base, Switch, Integral, InteractionMode, Text, Setting, Contract,
           Ignored
  <2>2. QED
    BY <1>1, <1>5, <2>1, FromEnvAt
<1>6. QED
  BY <1>2, <1>3, <1>4, <1>5, FieldCases

-----------------------------------------------------------------------------
\* Why a serving process has what it needs: past process_control the settings are
\* those of argv and its layers, and typed; past from_env the configuration is
\* what it reads of them; and past Runtime::new it is valid for its mode, which
\* decides what a request looks up and whom it contacts.
Controlled ==
  /\ resolved = Resolve(host)
  /\ ~ host.malformed
  /\ Coercible(Raw(host))
  /\ \A s \in Switch : Raw(host)[s] # TRUE

Validated ==
  /\ mode = config.interaction_mode
  /\ mode \in InteractionMode
  /\ ValidateConfig(config)

StartInv ==
  /\ host \in Hosts
  /\ pc \notin {"start", "exited"} => Controlled
  /\ pc \in {"building", "binding", "serving"} => config = FromEnv(resolved)
  /\ pc \in {"binding", "serving"} => Validated
  /\ contacted # {} \/ lacking # {} => pc = "serving"
  /\ "api" \in contacted => mode \in {"stateless_https", "async_jetstream"}
  /\ "nats" \in contacted => mode = "async_jetstream"
  /\ NothingMissing

\* A switch that is off, and was resolved, was set in no layer.
LEMMA SwitchIsRaw ==
  ASSUME NEW s \in Switch
  PROVE  Resolve(host)[s] # TRUE => Raw(host)[s] # TRUE
BY UnusableValues DEF Resolve, Switch, Setting, Contract

\* What validate_config has checked of the mode, the requests find.
LEMMA ValidatedMode ==
  ASSUME Validated
  PROVE  /\ mode = "direct_db_read" =>
              /\ config["database_url"] # Unset
              /\ config.database_flavor \in {"postgres", "cockroach"}
         /\ mode = "stateless_https" => ValidBase(config.api_base)
         /\ mode = "stateful_tls" =>
              \A s \in {"tcp_address", "tcp_server_name", "tcp_ca_file"} : config[s] # Unset
         /\ mode = "async_jetstream" =>
              ValidBase(config.api_base) /\ ValidNats(config) /\ config["nats_url"] # Unset
<1>1. ValidForMode(config) /\ config.interaction_mode = mode
  BY DEF Validated, ValidateConfig
<1>2. QED
  BY <1>1, Zenon DEF ValidForMode, ValidNats, Unusable

LEMMA StartInvariant == Spec => []StartInv
<1>1. Init => StartInv
  BY DEF Init, StartInv, NothingMissing
<1>2. StartInv /\ [Next]_vars => StartInv'
  <2> SUFFICES ASSUME StartInv, [Next]_vars PROVE StartInv'
    OBVIOUS
  <2> USE DEF NothingMissing, Useless
  <2>1. ASSUME ProcessControl PROVE StartInv'
    <3>1. /\ UNCHANGED <<host, config, mode, contacted, lacking>>
          /\ pc = "start" /\ contacted = {} /\ lacking = {}
      BY <2>1 DEF ProcessControl, StartInv
    <3>2. CASE pc' = "exited"
      BY <3>1, <3>2 DEF StartInv
    <3>3. CASE pc' = "configuring" /\ \A s \in Switch : resolved'[s] # TRUE
      <4>1. /\ resolved' = Resolve(host)
            /\ ~ host.malformed /\ Coercible(Raw(host))
        BY <2>1 DEF ProcessControl, Resolves
      <4>2. \A s \in Switch : Raw(host)[s] # TRUE
        BY <3>3, <4>1, SwitchIsRaw
      <4>3. Controlled'
        BY <3>1, <4>1, <4>2 DEF Controlled
      <4>4. QED
        BY <3>1, <3>3, <4>3 DEF StartInv
    <3>4. QED
      BY <2>1, <3>2, <3>3 DEF ProcessControl, Exit
  <2>2. ASSUME LoadConfig PROVE StartInv'
    BY <2>2 DEF LoadConfig, Exit, StartInv, Controlled
  <2>3. ASSUME RuntimeNew PROVE StartInv'
    BY <2>3 DEF RuntimeNew, StartInv, Controlled, Validated
  <2>4. ASSUME Bind PROVE StartInv'
    BY <2>4 DEF Bind, StartInv, Controlled, Validated
  <2>5. ASSUME ProcessControlFails \/ RuntimeNewFails \/ BindFails PROVE StartInv'
    BY <2>5 DEF ProcessControlFails, RuntimeNewFails, BindFails, Exit, StartInv
  <2>a. ASSUME NEW peer, NEW absent, LookUp(absent, peer),
               \A s \in absent : s \in Unread /\ Useless(s),
               peer = "api" => mode \in {"stateless_https", "async_jetstream"},
               peer = "nats" => mode = "async_jetstream"
        PROVE  StartInv'
    BY <2>a DEF LookUp, StartInv, Controlled, Validated
  <2>b. ASSUME pc = "serving" PROVE Validated
    BY <2>b DEF StartInv
  <2>6. ASSUME Introspect \/ FetchHttp \/ FetchAsync PROVE StartInv'
    BY <2>6, <2>a DEF Introspect, FetchHttp, FetchAsync
  <2>7. ASSUME FetchDirect PROVE StartInv'
    <3>1. LookUp(Refused({"database_url"}), "database")
      BY <2>7, <2>b, ValidatedMode DEF FetchDirect, LookUp, Absent
    <3>2. QED
      BY <3>1, <2>a DEF Refused, Unread
  <2>8. ASSUME ConnectTcp PROVE StartInv'
    <3> DEFINE needed == {"tcp_address", "tcp_server_name", "tcp_ca_file"}
    <3>1. Absent(needed) = {}
      BY <2>8, <2>b, ValidatedMode DEF ConnectTcp, LookUp, Absent
    <3>2. LookUp(Refused(needed), "tls")
      BY <2>8, <3>1 DEF ConnectTcp
    <3>3. QED
      BY <3>2, <2>a DEF Refused, Unread
  <2>9. ASSUME ConnectNats PROVE StartInv'
    <3>1. Absent({"nats_url"}) = {}
      BY <2>9, <2>b, ValidatedMode DEF ConnectNats, LookUp, Absent
    <3>2. LookUp(Refused({"nats_url", "nats_credentials_file"}), "nats") /\ mode = "async_jetstream"
      BY <2>9, <3>1 DEF ConnectNats
    <3>3. QED
      BY <3>2, <2>a DEF Refused, Unread
  <2>10. CASE UNCHANGED vars
    BY <2>10 DEF vars, StartInv, Controlled, Validated
  <2>11. QED
    BY <2>1, <2>2, <2>3, <2>4, <2>5, <2>6, <2>7, <2>8, <2>9, <2>10
       DEF Next, Main, Serve, Exited
<1>3. QED
  BY <1>1, <1>2, PTL DEF Spec

\* A request of a serving process never ends in ApiUnavailable because a setting that
\* its mode needs is missing, nor because nobody knows its database flavor: whatever it
\* does fail for was given a value that validate_config does not read, or not all of.
THEOREM NothingIsMissing == Spec => []NothingMissing
<1>1. StartInv => NothingMissing
  BY DEF StartInv
<1>2. QED
  BY <1>1, StartInvariant, PTL

\* Nothing is bound or contacted, and no setting is read, before a process_control
\* that succeeded and was not asked for help or the version.
THEOREM ControlFirst == Spec => []ControlComesFirst
<1>1. StartInv => ControlComesFirst
  BY ResolvedAssumption DEF StartInv, ControlComesFirst, Controlled
<1>2. QED
  BY <1>1, StartInvariant, PTL

\* No layers of settings bring a process up that sends a bearer over HTTP in clear
\* text, to a bare address or by a URL with credentials, that reaches NATS in clear text
\* outside the cluster or without a credentials file there, or that opens a larger pool.
THEOREM PeersAreVetted == Spec => []VettedPeers
<1>1. StartInv => VettedPeers
  <2> SUFFICES ASSUME StartInv, contacted # {} PROVE VettedPeers
    BY DEF VettedPeers
  <2>1. Validated
    BY DEF StartInv
  <2>2. ValidBase(config.shared_auth_base) /\ config.database_max_connections \in 1..16
    BY <2>1 DEF Validated, ValidateConfig
  <2>3. "api" \in contacted => ValidBase(config.api_base)
    BY <2>1, ValidatedMode DEF StartInv
  <2>4. "nats" \in contacted => ValidNats(config)
    BY <2>1, ValidatedMode DEF StartInv
  <2>5. QED
    BY <2>2, <2>3, <2>4 DEF VettedPeers, ValidBase, ValidNats, Base
<1>2. QED
  BY <1>1, StartInvariant, PTL

-----------------------------------------------------------------------------
\* The value of the highest layer that has one is the one that is used.
LEMMA HighestIsRaw ==
  ASSUME NEW s \in Setting, NEW v, Highest(s, v)
  PROVE  Raw(host)[s] = v /\ v # Unset
<1>1. v # Unset
  BY DEF Highest
<1>2. PICK i \in 1..4 : Layer[i][s] = v /\ \A j \in i + 1..4 : Layer[j][s] = Unset
  BY DEF Highest
<1>3. Raw(host)[s] = IF host.flags[s] # Unset THEN host.flags[s]
                     ELSE IF host.overrides[s] # Unset THEN host.overrides[s]
                     ELSE IF host.environment[s] # Unset THEN host.environment[s]
                     ELSE host.dotenv[s]
  BY DEF Raw, Over
<1>4. /\ Layer[1] = host.dotenv /\ Layer[2] = host.environment
      /\ Layer[3] = host.overrides /\ Layer[4] = host.flags
  BY DEF Layer
<1>5. CASE i = 1
  <2>1. Layer[2][s] = Unset /\ Layer[3][s] = Unset /\ Layer[4][s] = Unset
    BY <1>2, <1>5
  <2>2. QED
    BY <1>1, <1>2, <1>3, <1>4, <1>5, <2>1
<1>6. CASE i = 2
  <2>1. Layer[3][s] = Unset /\ Layer[4][s] = Unset
    BY <1>2, <1>6
  <2>2. QED
    BY <1>1, <1>2, <1>3, <1>4, <1>6, <2>1
<1>7. CASE i = 3
  <2>1. Layer[4][s] = Unset
    BY <1>2, <1>7
  <2>2. QED
    BY <1>1, <1>2, <1>3, <1>4, <1>7, <2>1
<1>8. CASE i = 4
  BY <1>1, <1>2, <1>3, <1>4, <1>8
<1>9. QED
  BY <1>2, <1>5, <1>6, <1>7, <1>8

\* Flags win over dotenv overrides, these over the environment, and it over dotenv,
\* for every setting and in every surrounding a process may be started in.
THEOREM HighestWins == Spec => []HighestLayerWins
<1>1. StartInv => HighestLayerWins
  <2> SUFFICES ASSUME StartInv, pc = "serving",
                      NEW s \in Contract \ {"database_max_connections"}, NEW v,
                      Highest(s, v), v # Blank
               PROVE  Used(s) = v
    BY DEF HighestLayerWins
  <2>1. s \in Setting
    BY DEF Setting
  <2>2. Raw(host)[s] = v /\ v # Unset
    BY <2>1, HighestIsRaw
  <2>3. resolved[s] = v
    BY <2>1, <2>2 DEF StartInv, Controlled, Resolve
  <2>4. CASE s \in Field
    <3>1. FromEnv(resolved)[s] = v
      BY <2>2, <2>3, <2>4, FieldCases, FromEnvAt
    <3>2. QED
      BY <2>4, <3>1 DEF Used, StartInv
  <2>5. CASE s \notin Field
    BY <2>3, <2>5 DEF Used
  <2>6. QED
    BY <2>4, <2>5
<1>2. QED
  BY <1>1, StartInvariant, PTL

-----------------------------------------------------------------------------
\* Typing.

LEMMA InitTypeOK == Init => TypeOK
BY StartupAssumption DEF Init, TypeOK, Place, Peer

\* A request that looks its settings up changes neither main nor the settings.
LEMMA LookUpType ==
  ASSUME TypeOK, NEW absent, absent \subseteq Field, NEW peer \in Peer, LookUp(absent, peer)
  PROVE  TypeOK'
BY DEF TypeOK, LookUp, IsHost, IsLayer, IsConfig

LEMMA NextTypeOK == TypeOK /\ StartInv /\ [Next]_vars => TypeOK'
<1> SUFFICES ASSUME TypeOK, StartInv, [Next]_vars PROVE TypeOK'
  OBVIOUS
<1>a. ASSUME UNCHANGED <<host, resolved, config, mode, contacted, lacking>>, pc' \in Place
      PROVE  TypeOK'
  BY <1>a DEF TypeOK, IsHost, IsLayer, IsConfig
<1>b. IsHost(host)
  BY DEF TypeOK
<1>1. ASSUME ProcessControl PROVE TypeOK'
  <2>1. IsLayer(resolved')
    BY <1>1, <1>b, ResolveType DEF ProcessControl, Resolves, IsLayer
  <2>2. UNCHANGED <<host, config, mode, contacted, lacking>> /\ pc' \in Place
    BY <1>1 DEF ProcessControl, Exit, Place
  <2>3. QED
    BY <2>1, <2>2 DEF TypeOK, IsHost, IsLayer, IsConfig
<1>2. ASSUME LoadConfig PROVE TypeOK'
  <2>1. CASE UNCHANGED config /\ Exit
    BY <1>2, <2>1, <1>a DEF LoadConfig, Exit, Place
  <2>2. CASE config' = FromEnv(resolved) /\ pc' = "building"
    <3>1. IsLayer(resolved)
      BY <1>2, <1>b, ResolveType DEF LoadConfig, StartInv, Controlled
    <3>2. IsConfig(config')
      BY <2>2, <3>1, FromEnvType DEF IsConfig
    <3>3. UNCHANGED <<host, resolved, mode, contacted, lacking>> /\ pc' \in Place
      BY <1>2, <2>2 DEF LoadConfig, Place
    <3>4. QED
      BY <3>2, <3>3 DEF TypeOK, IsHost, IsLayer, IsConfig
  <2>3. QED
    BY <1>2, <2>1, <2>2 DEF LoadConfig
<1>3. ASSUME RuntimeNew PROVE TypeOK'
  BY <1>3 DEF RuntimeNew, TypeOK, Place, IsHost, IsLayer, IsConfig
<1>4. ASSUME ProcessControlFails \/ RuntimeNewFails \/ Bind \/ BindFails PROVE TypeOK'
  BY <1>4, <1>a DEF ProcessControlFails, RuntimeNewFails, Bind, BindFails, Exit, Place
<1>5. ASSUME Serve PROVE TypeOK'
  BY <1>5, LookUpType
     DEF Serve, Introspect, FetchDirect, FetchHttp, ConnectTcp, FetchAsync, ConnectNats,
         Absent, Refused, Field, Peer, Setting, Contract, Ignored, Switch
<1>6. CASE UNCHANGED vars
  BY <1>6 DEF vars, TypeOK, IsHost, IsLayer, IsConfig
<1>7. QED
  BY <1>1, <1>2, <1>3, <1>4, <1>5, <1>6 DEF Next, Main, Exited

\* Every state of main, its settings and its configuration has the declared types:
\* what from_env reads of any settings is a usable value or one it refuses.
THEOREM TypeCorrect == Spec => []TypeOK
BY InitTypeOK, NextTypeOK, StartInvariant, PTL DEF Spec

=============================================================================
