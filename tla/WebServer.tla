----------------------------- MODULE WebServer -----------------------------
(***************************************************************************)
(* A whole process: Runtime::dashboard with the real fetch_tcp and         *)
(* fetch_async in place of what AlarmService promises of them.  The        *)
(* handler futures of Dashboard go on as those of TlsChannel, on one       *)
(* connection that outlives them, or as those of JetStreamOperation, on    *)
(* one NATS transport; and the API, which these modules let answer as it   *)
(* likes, looks every bearer up while bearers are being revoked.           *)
(***************************************************************************)
EXTENDS Dashboard

CONSTANTS
  ApiBodies,    \* the bodies the API and its worker may answer with
  LongTokens,   \* bearers whose request frame exceeds MAX_REQUEST_BYTES
  Topologies,   \* the pairs of streams an operator may have provisioned
  AsyncTimeout, \* ASYNC_TIMEOUT, in ticks of the clock
  SleepTime,    \* the sleep between two polls
  GetBound      \* how long the NATS client lets one direct get take

VARIABLES
  tlsPc, tlsAttempt, tlsResult, tlsEmitted,     \* fetch_tcp of each request
  tlsHolder, tlsWaiters, channel, toApi, toWeb, \* Runtime.tcp and what is on it
  natsPc, natsResult, elapsed, timer,           \* fetch_async of each request
  natsHolder, natsWaiters, connections,         \* Runtime.nats
  posted, registry,                             \* registrations at the API
  publishing, signals, responses, streams       \* the broker

tlsVars    == <<tlsPc, tlsAttempt, tlsResult, tlsEmitted, tlsHolder, tlsWaiters,
                channel, toApi, toWeb>>
natsVars   == <<natsPc, natsResult, elapsed, timer, natsHolder, natsWaiters, connections,
                posted, registry, publishing, signals, responses, streams>>
systemVars == <<vars, tlsVars, natsVars>>

Tls == INSTANCE TlsChannel
         WITH pc <- tlsPc, attempt <- tlsAttempt, result <- tlsResult, emitted <- tlsEmitted,
              holder <- tlsHolder, waiters <- tlsWaiters

Nats == INSTANCE JetStreamOperation
          WITH pc <- natsPc, result <- natsResult, holder <- natsHolder, waiters <- natsWaiters

ASSUME WebServerAssumption ==
  /\ ApiBodies \subseteq Body
  /\ LongTokens \subseteq Token
  /\ AsyncTimeout \in Nat
  /\ SleepTime \in Nat \ {0}
  /\ GetBound \in Nat
  /\ Topologies \subseteq
       [request : Nats!RequestStream, response : Nats!ResponseStream, steady : BOOLEAN]

Persistent == {"stateful_tls", "async_jetstream"}

SystemInit == Init /\ Tls!Init /\ Nats!Init

-----------------------------------------------------------------------------
\* dashboard outside the two fetches.
OutsideFetch(r) ==
  /\ \/ AuthStep(r) \/ DirectStep(r) \/ SharedAuthAnswers(r)
     \/ mode \notin Persistent /\ (FetchStep(r) \/ ApiAuthorises(r))
     \/ (mode \notin Persistent \/ pc[r] # "fetching") /\ ClientLeaves(r)
  /\ UNCHANGED <<tlsVars, natsVars>>

\* fetch_...(token).await? inside dashboard: what it returns is the page, or the
\* failure the ? hands on, with the events it reported on the way.
Handed(r, place, res, reported) ==
  IF place = "done"
  THEN IF res.kind = "ok" THEN Page(r, res.alarms)
                          ELSE Return(r, res) /\ Emit(r, reported)
  ELSE UNCHANGED <<pc, result, events>>

FetchTcp(r) ==
  /\ mode = "stateful_tls"
  /\ pc[r] = "fetching"
  /\ Tls!HandlerStep(r)
  /\ Handed(r, tlsPc'[r], tlsResult'[r],
            IF tlsEmitted'[r] = "503" THEN {On("alarms.list", 503)} ELSE {})
  /\ UNCHANGED <<mode, identity, cellVars, authVars, signedIn, natsVars>>

\* Of its failures fetch_async reports the deadline of its poll.
FetchAsync(r) ==
  /\ mode = "async_jetstream"
  /\ pc[r] = "fetching"
  /\ \/ /\ Nats!PollMisses(r)
        /\ Handed(r, natsPc'[r], natsResult'[r], {On("alarms.list", 504)})
     \/ /\ Nats!PollFinds(r) \/ (natsPc[r] # "getting" /\ Nats!HandlerStep(r))
        /\ Handed(r, natsPc'[r], natsResult'[r], {})
  /\ UNCHANGED <<mode, identity, cellVars, authVars, authorised, signedIn, tlsVars>>

\* Dropping the future of dashboard drops that of the fetch, with its guard.
LeavesFetch(r) ==
  /\ pc[r] = "fetching"
  /\ \/ mode = "stateful_tls" /\ Tls!ClientLeaves(r) /\ UNCHANGED natsVars
     \/ mode = "async_jetstream" /\ Nats!ClientLeaves(r) /\ UNCHANGED <<authorised, tlsVars>>
  /\ Goto(r, "dropped")
  /\ UNCHANGED <<mode, identity, result, events, cellVars, authVars, signedIn>>

-----------------------------------------------------------------------------
\* The environment of the fetches.

\* The API looks the bearer of each frame up when it takes it, however often the
\* connection has carried that bearer before.
ApiAnswers ==
  /\ Tls!ApiAnswers
  /\ toWeb'[Len(toWeb')].resp.alarms # NoToken => Bearer[Head(toApi).op] \in active
  /\ UNCHANGED <<mode, reqVars, cellVars, authVars, signedIn, natsVars>>

ApiMisreads == Tls!ApiMisreads /\ UNCHANGED <<vars, natsVars>>

\* Of a JetStream operation it looks the bearer up when it registers it.
ApiRegisters(r) ==
  /\ Nats!ApiRegisters(r)
  /\ \/ /\ registry'[r] = "registered"
        /\ Bearer[r] \in active
        /\ authorised' = authorised \cup {r}
     \/ registry'[r] = "refused" /\ UNCHANGED authorised
  /\ UNCHANGED <<mode, reqVars, cellVars, authVars, signedIn, tlsVars>>

BrokerStep ==
  /\ \/ \E r \in Request :
          Nats!BrokerStores(r) \/ Nats!WorkerResponds(r) \/ Nats!BrokerDiscards(r)
     \/ Nats!BrokerRestarts \/ Nats!StreamsReconfigured
  /\ UNCHANGED <<vars, tlsVars>>

Tick == Nats!Tick /\ UNCHANGED <<vars, tlsVars>>

SystemNext ==
  \/ \E r \in Request : \/ OutsideFetch(r) \/ FetchTcp(r) \/ FetchAsync(r)
                        \/ LeavesFetch(r) \/ ApiRegisters(r)
  \/ \E t \in Token : Revoke(t) /\ UNCHANGED <<tlsVars, natsVars>>
  \/ ApiAnswers
  \/ ApiMisreads
  \/ BrokerStep
  \/ Tick
  \/ Idle /\ UNCHANGED <<tlsVars, natsVars>>

SystemSpec == SystemInit /\ [][SystemNext]_systemVars

\* As in the parts: tokio polls what is woken, its timers fire and time passes;
\* Shared Auth, the API, the broker and the browsers owe nothing.
SystemFairness ==
  /\ WF_systemVars(Tick)
  /\ \A r \in Request :
       /\ WF_systemVars(OutsideFetch(r) /\ (AuthStep(r) \/ FetchStep(r)))
       /\ WF_systemVars(FetchTcp(r))
       /\ WF_systemVars(FetchAsync(r))

FairSystemSpec == SystemSpec /\ SystemFairness

-----------------------------------------------------------------------------
\* The process is the dashboard Dashboard specifies: every page, failure and
\* event of the two fetches is one that module allows of its mode, whoever left
\* bytes on the connection, whichever response the worker published twice, and
\* whoever's bearer was revoked meanwhile.
DashboardSpec == Spec

=============================================================================
