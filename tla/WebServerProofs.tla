-------------------------- MODULE WebServerProofs --------------------------
(***************************************************************************)
(* The whole process is the dashboard that Dashboard specifies, for any    *)
(* number of requests: what was proved of the two transports by themselves *)
(* holds of them inside the process, and with it each of their steps is    *)
(* one of Dashboard or none.                                               *)
(***************************************************************************)
EXTENDS WebServer, DashboardProofs

TlsP == INSTANCE TlsChannelProofs
          WITH pc <- tlsPc, attempt <- tlsAttempt, result <- tlsResult, emitted <- tlsEmitted,
               holder <- tlsHolder, waiters <- tlsWaiters

NatsP == INSTANCE JetStreamOperationProofs
           WITH pc <- natsPc, result <- natsResult, holder <- natsHolder,
                waiters <- natsWaiters

-----------------------------------------------------------------------------
\* The proofs of the transports speak of the transports of this process.
LEMMA TlsAssumed == TlsP!ApiAssumption
BY WebServerAssumption DEF TlsP!Body, Body

LEMMA NatsAssumed == NatsP!AsyncAssumption /\ NatsP!TopologyAssumption
BY WebServerAssumption DEF NatsP!Body, Body, NatsP!RequestStream, NatsP!ResponseStream,
   Nats!RequestStream, Nats!ResponseStream

LEMMA TlsBegins == Tls!Init => TlsP!Init
BY DEF Tls!Init, TlsP!Init, Tls!Mutex!Init, TlsP!Mutex!Init, Tls!NoResult, TlsP!NoResult

LEMMA TlsHandles ==
  ASSUME NEW r \in Request, Tls!HandlerStep(r)
  PROVE  TlsP!HandlerStep(r)
<1> USE DEF Tls!Goto, TlsP!Goto, Tls!Return, TlsP!Return, Tls!Emit, TlsP!Emit,
            Tls!FreshWire, TlsP!FreshWire, Tls!lockVars, TlsP!lockVars,
            Tls!wireVars, TlsP!wireVars, Tls!Failed, TlsP!Failed
<1>1. Tls!Begin(r) => TlsP!Begin(r)
  BY DEF Tls!Begin, TlsP!Begin, Tls!Mutex!Lock, TlsP!Mutex!Lock
<1>2. Tls!Relock(r) => TlsP!Relock(r)
  BY DEF Tls!Relock, TlsP!Relock, Tls!Mutex!Lock, TlsP!Mutex!Lock
<1>3. Tls!Acquired(r) => TlsP!Acquired(r)
  BY DEF Tls!Acquired, TlsP!Acquired
<1>4. Tls!ConnectSucceeds(r) => TlsP!ConnectSucceeds(r)
  BY DEF Tls!ConnectSucceeds, TlsP!ConnectSucceeds
<1>5. Tls!ConnectFails(r) => TlsP!ConnectFails(r)
  BY DEF Tls!ConnectFails, TlsP!ConnectFails, Tls!Mutex!Unlock, TlsP!Mutex!Unlock
<1>6. Tls!WriteFrame(r) => TlsP!WriteFrame(r)
  BY DEF Tls!WriteFrame, TlsP!WriteFrame
<1>7. Tls!ReadLength(r) => TlsP!ReadLength(r)
  BY DEF Tls!ReadLength, TlsP!ReadLength
<1>8. Tls!ReadPayload(r) => TlsP!ReadPayload(r)
  BY DEF Tls!ReadPayload, TlsP!ReadPayload, Tls!Mutex!Unlock, TlsP!Mutex!Unlock,
     Tls!DecodeServiceResponse, TlsP!DecodeServiceResponse, Tls!Served, TlsP!Served
<1>9. Tls!ExchangeFails(r) => TlsP!ExchangeFails(r)
  BY DEF Tls!ExchangeFails, TlsP!ExchangeFails, Tls!Exchanging, TlsP!Exchanging,
     Tls!Mutex!Unlock, TlsP!Mutex!Unlock
<1>10. QED
  BY <1>1, <1>2, <1>3, <1>4, <1>5, <1>6, <1>7, <1>8, <1>9
     DEF Tls!HandlerStep, TlsP!HandlerStep

LEMMA TlsSurroundings ==
  /\ \A r \in Request : Tls!ClientLeaves(r) => TlsP!ClientLeaves(r)
  /\ Tls!ApiAnswers => TlsP!ApiAnswers
  /\ Tls!ApiMisreads => TlsP!ApiMisreads
<1>1. ASSUME NEW r \in Request, Tls!ClientLeaves(r) PROVE TlsP!ClientLeaves(r)
  BY <1>1 DEF Tls!ClientLeaves, TlsP!ClientLeaves, Tls!Goto, TlsP!Goto, Tls!Exchanging,
     TlsP!Exchanging, Tls!Mutex!Unlock, TlsP!Mutex!Unlock, Tls!Mutex!LeaveQueue,
     TlsP!Mutex!LeaveQueue
<1>2. Tls!ApiAnswers => TlsP!ApiAnswers
  BY DEF Tls!ApiAnswers, TlsP!ApiAnswers, Tls!Answer, TlsP!Answer, Tls!reqVars, TlsP!reqVars,
     Tls!lockVars, TlsP!lockVars
<1>3. Tls!ApiMisreads => TlsP!ApiMisreads
  BY DEF Tls!ApiMisreads, TlsP!ApiMisreads, Tls!Answer, TlsP!Answer, Tls!reqVars, TlsP!reqVars,
     Tls!lockVars, TlsP!lockVars
<1>4. QED
  BY <1>1, <1>2, <1>3

LEMMA NatsBegins == Nats!Init => NatsP!Init
BY DEF Nats!Init, NatsP!Init, Nats!Cell!Init, NatsP!Cell!Init, Nats!NoResult, NatsP!NoResult,
   Nats!NoResponse, NatsP!NoResponse

LEMMA NatsHandles ==
  ASSUME NEW r \in Request, Nats!HandlerStep(r)
  PROVE  NatsP!HandlerStep(r)
<1> USE DEF Nats!Goto, NatsP!Goto, Nats!Return, NatsP!Return, Nats!Wait, NatsP!Wait,
            Nats!cellVars, NatsP!cellVars, Nats!apiVars, NatsP!apiVars,
            Nats!brokerVars, NatsP!brokerVars
<1>1. Nats!Begin(r) => NatsP!Begin(r)
  BY DEF Nats!Begin, NatsP!Begin
<1>2. Nats!RegisterAccepted(r) => NatsP!RegisterAccepted(r)
  BY DEF Nats!RegisterAccepted, NatsP!RegisterAccepted, Nats!EnterCell, NatsP!EnterCell,
     Nats!Ready, NatsP!Ready, Nats!Cell!Lock, NatsP!Cell!Lock
<1>3. Nats!RegisterFails(r) => NatsP!RegisterFails(r)
  BY DEF Nats!RegisterFails, NatsP!RegisterFails, Nats!Failed, NatsP!Failed
<1>4. Nats!InitSucceeds(r) => NatsP!InitSucceeds(r)
  BY DEF Nats!InitSucceeds, NatsP!InitSucceeds, Nats!ValidateRequestStream,
     NatsP!ValidateRequestStream, Nats!ValidateResponseStream,
     NatsP!ValidateResponseStream
<1>5. Nats!InitShared(r) => NatsP!InitShared(r)
  BY DEF Nats!InitShared, NatsP!InitShared, Nats!Ready, NatsP!Ready
<1>6. Nats!InitFails(r) => NatsP!InitFails(r)
  BY DEF Nats!InitFails, NatsP!InitFails, Nats!Cell!Unlock, NatsP!Cell!Unlock,
     Nats!Failed, NatsP!Failed
<1>7. Nats!SendSignal(r) => NatsP!SendSignal(r)
  BY DEF Nats!SendSignal, NatsP!SendSignal
<1>8. Nats!SignalFails(r) => NatsP!SignalFails(r)
  BY DEF Nats!SignalFails, NatsP!SignalFails, Nats!Failed, NatsP!Failed
<1>9. Nats!SignalAcknowledged(r) => NatsP!SignalAcknowledged(r)
  BY DEF Nats!SignalAcknowledged, NatsP!SignalAcknowledged
<1>10. Nats!PollFinds(r) => NatsP!PollFinds(r)
  BY DEF Nats!PollFinds, NatsP!PollFinds, Nats!NoResponse, NatsP!NoResponse,
     Nats!DecodeServiceResponse, NatsP!DecodeServiceResponse, Nats!Served, NatsP!Served,
     Nats!Failed, NatsP!Failed
<1>11. Nats!PollMisses(r) => NatsP!PollMisses(r)
  BY DEF Nats!PollMisses, NatsP!PollMisses, Nats!Failed, NatsP!Failed
<1>12. Nats!Wake(r) => NatsP!Wake(r)
  BY DEF Nats!Wake, NatsP!Wake
<1>13. QED
  BY <1>1, <1>2, <1>3, <1>4, <1>5, <1>6, <1>7, <1>8, <1>9, <1>10, <1>11, <1>12
     DEF Nats!HandlerStep, NatsP!HandlerStep

LEMMA NatsSurroundings ==
  /\ \A r \in Request : /\ Nats!ClientLeaves(r) => NatsP!ClientLeaves(r)
                        /\ Nats!ApiRegisters(r) => NatsP!ApiRegisters(r)
                        /\ Nats!BrokerStores(r) => NatsP!BrokerStores(r)
                        /\ Nats!WorkerResponds(r) => NatsP!WorkerResponds(r)
                        /\ Nats!BrokerDiscards(r) => NatsP!BrokerDiscards(r)
  /\ Nats!BrokerRestarts => NatsP!BrokerRestarts
  /\ Nats!StreamsReconfigured => NatsP!StreamsReconfigured
  /\ Nats!Tick => NatsP!Tick
<1> USE DEF Nats!reqVars, NatsP!reqVars, Nats!cellVars, NatsP!cellVars,
            Nats!apiVars, NatsP!apiVars, Nats!brokerVars, NatsP!brokerVars
<1>1. ASSUME NEW r \in Request, Nats!ClientLeaves(r) PROVE NatsP!ClientLeaves(r)
  BY <1>1 DEF Nats!ClientLeaves, NatsP!ClientLeaves, Nats!Goto, NatsP!Goto, Nats!Finished,
     NatsP!Finished, Nats!Cell!Unlock, NatsP!Cell!Unlock, Nats!Cell!LeaveQueue,
     NatsP!Cell!LeaveQueue, Nats!Cell!Waiting, NatsP!Cell!Waiting
<1>2. ASSUME NEW r \in Request, Nats!ApiRegisters(r) PROVE NatsP!ApiRegisters(r)
  BY <1>2 DEF Nats!ApiRegisters, NatsP!ApiRegisters
<1>3. ASSUME NEW r \in Request, Nats!BrokerStores(r) PROVE NatsP!BrokerStores(r)
  BY <1>3 DEF Nats!BrokerStores, NatsP!BrokerStores
<1>4. ASSUME NEW r \in Request, Nats!WorkerResponds(r) PROVE NatsP!WorkerResponds(r)
  BY <1>4 DEF Nats!WorkerResponds, NatsP!WorkerResponds, Nats!ResponseTo, NatsP!ResponseTo
<1>5. ASSUME NEW r \in Request, Nats!BrokerDiscards(r) PROVE NatsP!BrokerDiscards(r)
  BY <1>5 DEF Nats!BrokerDiscards, NatsP!BrokerDiscards, Nats!NoResponse, NatsP!NoResponse
<1>6. Nats!BrokerRestarts => NatsP!BrokerRestarts
  BY DEF Nats!BrokerRestarts, NatsP!BrokerRestarts, Nats!NoResponse, NatsP!NoResponse
<1>7. Nats!StreamsReconfigured => NatsP!StreamsReconfigured
  BY DEF Nats!StreamsReconfigured, NatsP!StreamsReconfigured
<1>8. Nats!Tick => NatsP!Tick
  BY DEF Nats!Tick, NatsP!Tick, Nats!Polling, NatsP!Polling
<1>9. QED
  BY <1>1, <1>2, <1>3, <1>4, <1>5, <1>6, <1>7, <1>8

-----------------------------------------------------------------------------
\* A process keeps its mode, and the transports of the other modes are at rest:
\* nobody writes to the one and nobody registers with the other.
Resting ==
  /\ mode # "stateful_tls" => toApi = <<>>
  /\ mode # "async_jetstream" => posted = {}

LEMMA ModeStays == [SystemNext]_systemVars => mode' = mode
BY DEF SystemNext, systemVars, vars, OutsideFetch, AuthStep, DirectStep, FetchStep, Begin,
   IntrospectFails, IntrospectRefuses, Introspected, ConnectSucceeds, ConnectShared,
   ConnectFails, QueryReturns, QueryFails, FetchReturns, FetchFails, ClientLeaves,
   SharedAuthAnswers, ApiAuthorises, FetchTcp, FetchAsync, LeavesFetch, ApiRegisters, Revoke,
   ApiAnswers, ApiMisreads, BrokerStep, Tick, Idle

LEMMA RestingNext == Resting /\ [SystemNext]_systemVars => Resting'
<1> SUFFICES ASSUME Resting, [SystemNext]_systemVars PROVE Resting'
  OBVIOUS
<1>1. mode' = mode
  BY ModeStays
<1>2. mode # "stateful_tls" => toApi' = toApi
  <2>1. CASE UNCHANGED tlsVars
    BY <2>1 DEF tlsVars
  <2>2. mode # "stateful_tls" => ~ ApiAnswers /\ ~ ApiMisreads
    BY DEF Resting, ApiAnswers, ApiMisreads, Tls!ApiAnswers, Tls!ApiMisreads
  <2>3. QED
    BY <2>1, <2>2 DEF SystemNext, systemVars, OutsideFetch, FetchTcp, FetchAsync, LeavesFetch,
       ApiRegisters, BrokerStep, Tick
<1>3. mode # "async_jetstream" => posted' = posted
  <2>1. CASE UNCHANGED natsVars
    BY <2>1 DEF natsVars
  <2>2. ASSUME NEW r \in Request, ApiRegisters(r) PROVE posted' = posted
    BY <2>2 DEF ApiRegisters, Nats!ApiRegisters
  <2>3. ASSUME BrokerStep \/ Tick PROVE posted' = posted
    BY <2>3 DEF BrokerStep, Tick, Nats!BrokerStores, Nats!WorkerResponds, Nats!BrokerDiscards,
       Nats!BrokerRestarts, Nats!StreamsReconfigured, Nats!Tick, Nats!apiVars
  <2>4. QED
    BY <2>1, <2>2, <2>3 DEF SystemNext, systemVars, OutsideFetch, FetchTcp, FetchAsync,
       LeavesFetch, ApiAnswers, ApiMisreads
<1>4. QED
  BY <1>1, <1>2, <1>3 DEF Resting

LEMMA RestingInvariant == SystemSpec => []Resting
<1>1. SystemInit => Resting
  BY DEF SystemInit, Tls!Init, Nats!Init, Resting
<1>2. QED
  BY <1>1, RestingNext, PTL DEF SystemSpec

\* In stateful_tls the process does to its connection what TlsChannel does.
THEOREM TlsInside == SystemSpec /\ mode = "stateful_tls" => TlsP!Spec
<1>1. SystemInit => TlsP!Init
  BY TlsBegins DEF SystemInit
<1>2. Resting /\ mode = "stateful_tls" /\ [SystemNext]_systemVars => [TlsP!Next]_(TlsP!vars)
  <2> SUFFICES ASSUME Resting, mode = "stateful_tls", [SystemNext]_systemVars
               PROVE  [TlsP!Next]_(TlsP!vars)
    OBVIOUS
  <2>1. CASE UNCHANGED <<tlsVars, authorised>>
    BY <2>1 DEF tlsVars, TlsP!vars, TlsP!reqVars, TlsP!lockVars, TlsP!wireVars
  <2>2. ASSUME NEW r \in Request, OutsideFetch(r) PROVE UNCHANGED <<tlsVars, authorised>>
    BY <2>2 DEF OutsideFetch, Persistent, AuthStep, DirectStep, Begin, IntrospectFails,
       IntrospectRefuses, Introspected, ConnectSucceeds, ConnectShared, ConnectFails,
       QueryReturns, QueryFails, SharedAuthAnswers, ClientLeaves
  <2>3. ASSUME NEW r \in Request, FetchTcp(r) PROVE TlsP!Next
    BY <2>3, TlsHandles DEF FetchTcp, TlsP!Next
  <2>4. ASSUME NEW r \in Request, LeavesFetch(r) PROVE TlsP!Next
    BY <2>4, TlsSurroundings DEF LeavesFetch, TlsP!Next
  <2>5. ASSUME ApiAnswers \/ ApiMisreads PROVE TlsP!Next
    BY <2>5, TlsSurroundings DEF ApiAnswers, ApiMisreads, TlsP!Next
  <2>6. ASSUME NEW r \in Request PROVE ~ FetchAsync(r) /\ ~ ApiRegisters(r)
    BY DEF FetchAsync, ApiRegisters, Nats!ApiRegisters, Resting
  <2>7. QED
    BY <2>1, <2>2, <2>3, <2>4, <2>5, <2>6
       DEF SystemNext, systemVars, vars, Revoke, BrokerStep, Tick, Idle
<1>3. mode = "stateful_tls" /\ [SystemNext]_systemVars => (mode = "stateful_tls")'
  BY ModeStays
<1>4. QED
  BY <1>1, <1>2, <1>3, RestingInvariant, PTL DEF SystemSpec, TlsP!Spec

\* Whatever its mode, the process does to its NATS transport and to its
\* registrations what JetStreamOperation does.
THEOREM NatsInside == SystemSpec => NatsP!Spec
<1>1. SystemInit => NatsP!Init
  BY NatsBegins DEF SystemInit
<1>2. [SystemNext]_systemVars => [NatsP!Next]_(NatsP!vars)
  <2> SUFFICES ASSUME [SystemNext]_systemVars PROVE [NatsP!Next]_(NatsP!vars)
    OBVIOUS
  <2>1. CASE UNCHANGED natsVars
    BY <2>1 DEF natsVars, NatsP!vars, NatsP!reqVars, NatsP!cellVars, NatsP!apiVars,
       NatsP!brokerVars
  <2>2. ASSUME NEW r \in Request, FetchAsync(r) PROVE NatsP!Next
    <3>1. Nats!HandlerStep(r)
      BY <2>2 DEF FetchAsync, Nats!HandlerStep
    <3>2. QED
      BY <3>1, NatsHandles DEF NatsP!Next
  <2>3. ASSUME NEW r \in Request, LeavesFetch(r) PROVE UNCHANGED natsVars \/ NatsP!Next
    <3>1. UNCHANGED natsVars \/ Nats!ClientLeaves(r)
      BY <2>3 DEF LeavesFetch
    <3>2. Nats!ClientLeaves(r) => NatsP!ClientLeaves(r)
      BY NatsSurroundings
    <3>3. QED
      BY <3>1, <3>2 DEF NatsP!Next
  <2>4. ASSUME NEW r \in Request, ApiRegisters(r) PROVE NatsP!Next
    <3>1. Nats!ApiRegisters(r)
      BY <2>4 DEF ApiRegisters
    <3>2. NatsP!ApiRegisters(r)
      BY <3>1, NatsSurroundings
    <3>3. QED
      BY <3>2 DEF NatsP!Next
  <2>5. ASSUME BrokerStep \/ Tick PROVE NatsP!Next
    <3>1. ASSUME NEW r \in Request,
                 Nats!BrokerStores(r) \/ Nats!WorkerResponds(r) \/ Nats!BrokerDiscards(r)
          PROVE  NatsP!Next
      <4>1. NatsP!BrokerStores(r) \/ NatsP!WorkerResponds(r) \/ NatsP!BrokerDiscards(r)
        BY <3>1, NatsSurroundings
      <4>2. QED
        BY <4>1 DEF NatsP!Next
    <3>2. ASSUME Nats!BrokerRestarts \/ Nats!StreamsReconfigured \/ Nats!Tick
          PROVE  NatsP!Next
      BY <3>2, NatsSurroundings DEF NatsP!Next
    <3>3. QED
      BY <2>5, <3>1, <3>2 DEF BrokerStep, Tick
  <2>6. QED
    BY <2>1, <2>2, <2>3, <2>4, <2>5
       DEF SystemNext, systemVars, OutsideFetch, FetchTcp, ApiAnswers, ApiMisreads
<1>3. QED
  BY <1>1, <1>2, PTL DEF SystemSpec, NatsP!Spec

-----------------------------------------------------------------------------
\* What is known of the two transports, proved of them by themselves.
TlsKnown ==
  mode = "stateful_tls" => TlsP!IdentityInv /\ TlsP!UnsentInv /\ TlsP!EmitsLast

NatsKnown == NatsP!TypeOK /\ NatsP!AuthenticResponses

LEMMA TransportsKnown == SystemSpec => [](TlsKnown /\ NatsKnown)
<1>1. TlsP!Spec => [](TlsP!TypeOK /\ TlsP!IdentityInv)
  BY TlsP!IdentityInvariant, TlsAssumed, IdentityAssumption
<1>2. TlsP!Spec => []TlsP!UnsentInv
  BY TlsP!UnsentInvariant, TlsAssumed, IdentityAssumption
<1>3. TlsP!Spec => []TlsP!EmitsLast
  BY TlsP!EmitsInvariant, TlsAssumed, IdentityAssumption
<1>4. NatsP!Spec => []NatsP!TypeOK
  BY NatsP!TypeCorrect, NatsAssumed, IdentityAssumption
<1>5. NatsP!Spec => []NatsP!AuthenticResponses
  BY NatsP!ResponsesInvariant, NatsAssumed, IdentityAssumption
<1>6. [SystemNext]_systemVars =>
        ((mode = "stateful_tls")' <=> mode = "stateful_tls")
  BY ModeStays
<1>7. mode = "stateful_tls" /\ TlsP!IdentityInv /\ TlsP!UnsentInv /\ TlsP!EmitsLast => TlsKnown
  BY DEF TlsKnown
<1>8. ~ (mode = "stateful_tls") => TlsKnown
  BY DEF TlsKnown
<1>9. SystemSpec /\ ~ (mode = "stateful_tls") => []~ (mode = "stateful_tls")
  BY <1>6, PTL DEF SystemSpec
<1>10. SystemSpec /\ mode = "stateful_tls" => [](mode = "stateful_tls")
  BY <1>6, PTL DEF SystemSpec
<1>11. NatsP!TypeOK /\ NatsP!AuthenticResponses => NatsKnown
  BY DEF NatsKnown
<1>12. QED
  BY <1>1, <1>2, <1>3, <1>4, <1>5, <1>7, <1>8, <1>9, <1>10, <1>11, TlsInside, NatsInside, PTL

\* What ties a fetch to the request of dashboard that awaits it: only a request that
\* was introspected has begun one, and the API registers what it has authorised.
Linked ==
  /\ \A r \in Request : pc[r] = "fetching" \/ tlsPc[r] # "new" \/ r \in posted =>
       identity[r] # NoToken
  /\ \A r \in Request : registry[r] = "registered" => r \in authorised

-----------------------------------------------------------------------------
\* Each step of the two fetches is one of the promise, or nothing to dashboard.

\* An error that left through ? without an event is what FetchFails says of it.
LEMMA FailureHanded ==
  ASSUME TypeOK, NEW r \in Request, pc[r] = "fetching", mode # "stateless_https",
         NEW kind \in {"Unauthorized", "ApiUnavailable", "Contract"},
         Return(r, Failed(kind)), Emit(r, {}),
         UNCHANGED <<mode, identity, cellVars, authVars, authorised, signedIn>>
  PROVE  FetchFails(r)
<1>1. UNCHANGED events
  BY DEF TypeOK, Emit
<1>2. QED
  BY <1>1 DEF FetchFails

\* And so is one it was reported as: neither fetch reports but an unavailable API.
LEMMA FailureReported ==
  ASSUME NEW r \in Request, pc[r] = "fetching", NEW status \in FetchStatus[mode],
         status # 401, Return(r, Failed("ApiUnavailable")),
         Emit(r, {On("alarms.list", status)}),
         UNCHANGED <<mode, identity, cellVars, authVars, authorised, signedIn>>
  PROVE  FetchFails(r)
<1>1. (IF status = 401 THEN "Unauthorized" ELSE "ApiUnavailable") = "ApiUnavailable"
  OBVIOUS
<1>2. \E code \in FetchStatus[mode] :
        /\ Return(r, Failed(IF code = 401 THEN "Unauthorized" ELSE "ApiUnavailable"))
        /\ Emit(r, {On("alarms.list", code)})
  BY <1>1
<1>3. QED
  BY <1>2 DEF FetchFails

LEMMA FetchTcpKeepsPromise ==
  ASSUME TypeOK, TlsKnown, TlsKnown', NEW r \in Request, FetchTcp(r)
  PROVE  FetchReturns(r) \/ FetchFails(r) \/ UNCHANGED vars
<1>1. /\ mode = "stateful_tls" /\ pc[r] = "fetching" /\ TlsP!HandlerStep(r)
      /\ UNCHANGED <<mode, identity, cellVars, authVars, signedIn>>
  BY TlsHandles DEF FetchTcp
<1>2. UNCHANGED authorised
  BY <1>1 DEF TlsP!HandlerStep, TlsP!Begin, TlsP!Relock, TlsP!Acquired, TlsP!ConnectSucceeds,
     TlsP!ConnectFails, TlsP!WriteFrame, TlsP!ReadLength, TlsP!ReadPayload, TlsP!ExchangeFails
<1>3. CASE tlsPc'[r] # "done"
  BY <1>1, <1>2, <1>3 DEF FetchTcp, Handed, vars, reqVars
<1>4. CASE tlsPc'[r] = "done" /\ tlsResult'[r].kind = "ok"
  <2>1. Page(r, tlsResult'[r].alarms)
    BY <1>4 DEF FetchTcp, Handed
  <2>2. tlsResult'[r].alarms = Bearer[r] /\ r \in authorised'
    BY <1>1, <1>4 DEF TlsKnown, TlsP!IdentityInv, TlsP!OwnAlarmsOnly
  <2>3. QED
    BY <1>1, <1>2, <2>1, <2>2 DEF FetchReturns
<1>5. CASE tlsPc'[r] = "done" /\ tlsResult'[r].kind # "ok"
  <2> DEFINE reported == IF tlsEmitted'[r] = "503" THEN {On("alarms.list", 503)} ELSE {}
  <2>1. Return(r, tlsResult'[r]) /\ Emit(r, reported)
    BY <1>5 DEF FetchTcp, Handed
  <2>2. PICK kind \in {"Unauthorized", "ApiUnavailable", "Contract"} :
          /\ tlsResult'[r] = Failed(kind)
          /\ tlsEmitted'[r] = "503" => kind = "ApiUnavailable"
    BY <1>1, <1>5, TlsP!ReturnsFailure, TlsAssumed, IdentityAssumption
       DEF TlsKnown, TlsP!IdentityInv, TlsP!Failed, Failed
  <2>3. CASE tlsEmitted'[r] = "503"
    <3>1. 503 \in FetchStatus[mode]
      BY <1>1 DEF FetchStatus
    <3>2. Return(r, Failed("ApiUnavailable"))
      BY <2>1, <2>2, <2>3
    <3>3. Emit(r, {On("alarms.list", 503)})
      BY <2>1, <2>3
    <3>4. QED
      BY <1>1, <1>2, <3>1, <3>2, <3>3, FailureReported
  <2>4. CASE tlsEmitted'[r] # "503"
    BY <1>1, <1>2, <2>1, <2>2, <2>4, FailureHanded
  <2>5. QED
    BY <2>3, <2>4
<1>6. QED
  BY <1>3, <1>4, <1>5

LEMMA FetchAsyncKeepsPromise ==
  ASSUME TypeOK, NatsKnown, Linked, NEW r \in Request, FetchAsync(r)
  PROVE  FetchReturns(r) \/ FetchFails(r) \/ UNCHANGED vars
<1>1. /\ mode = "async_jetstream" /\ pc[r] = "fetching" /\ NatsP!HandlerStep(r)
      /\ UNCHANGED <<mode, identity, cellVars, authVars, authorised, signedIn>>
  BY NatsHandles DEF FetchAsync, Nats!HandlerStep
<1>2. PICK reported \in {{}, {On("alarms.list", 504)}} :
        /\ Handed(r, natsPc'[r], natsResult'[r], reported)
        /\ reported # {} => Nats!PollMisses(r)
  BY DEF FetchAsync
<1>3. CASE natsPc'[r] # "done"
  BY <1>1, <1>2, <1>3 DEF Handed, vars, reqVars
<1>4. ASSUME natsPc'[r] = "done"
      PROVE  \/ natsResult'[r] = Served(Bearer[r]) /\ r \in authorised
             \/ \E kind \in {"Unauthorized", "ApiUnavailable", "Contract"} :
                  natsResult'[r] = Failed(kind)
  BY <1>1, <1>4, NatsP!ReturnsOwn, NatsAssumed, IdentityAssumption
     DEF NatsKnown, NatsP!TypeOK, Linked, NatsP!Served, NatsP!Failed, Served, Failed
<1>5. ASSUME natsPc'[r] = "done", reported # {}
      PROVE  natsResult'[r] = Failed("ApiUnavailable")
  BY <1>2, <1>5 DEF NatsKnown, NatsP!TypeOK, NatsP!ReqTypeOK, Nats!PollMisses, Nats!Return,
     Nats!Goto, Nats!Failed, Failed
<1>6. CASE natsPc'[r] = "done" /\ natsResult'[r] = Served(Bearer[r]) /\ r \in authorised
  BY <1>1, <1>2, <1>6 DEF Handed, FetchReturns, Served
<1>7. CASE natsPc'[r] = "done" /\ \E kind \in {"Unauthorized", "ApiUnavailable", "Contract"} :
                                    natsResult'[r] = Failed(kind)
  <2>1. PICK kind \in {"Unauthorized", "ApiUnavailable", "Contract"} : natsResult'[r] = Failed(kind)
    BY <1>7
  <2>2. Return(r, Failed(kind)) /\ Emit(r, reported)
    BY <1>2, <1>7, <2>1 DEF Handed, Failed
  <2>3. CASE reported = {}
    BY <1>1, <2>2, <2>3, FailureHanded
  <2>4. CASE reported # {}
    <3>1. 504 \in FetchStatus[mode]
      BY <1>1 DEF FetchStatus
    <3>2. Return(r, Failed("ApiUnavailable"))
      BY <1>5, <1>7, <2>1, <2>2, <2>4
    <3>3. Emit(r, {On("alarms.list", 504)})
      BY <1>2, <2>2, <2>4
    <3>4. QED
      BY <1>1, <3>1, <3>2, <3>3, FailureReported
  <2>5. QED
    BY <2>3, <2>4
<1>8. QED
  BY <1>3, <1>4, <1>6, <1>7

-----------------------------------------------------------------------------
\* And each step of what surrounds them.

\* A future that is dropped in its fetch is one that is dropped in "fetching".
LEMMA LeavingIsLeaving ==
  ASSUME NEW r \in Request, LeavesFetch(r)
  PROVE  ClientLeaves(r)
BY DEF LeavesFetch, ClientLeaves, Backend, Tls!ClientLeaves, cellVars

LEMMA LastOfTwo ==
  ASSUME NEW S, NEW s \in Seq(S), NEW a \in S, NEW b \in S
  PROVE  (s \o <<a, b>>)[Len(s \o <<a, b>>)] = b
<1>1. <<a, b>> \in Seq(S) /\ Len(<<a, b>>) = 2 /\ <<a, b>>[2] = b
  OBVIOUS
<1>2. Len(s) \in Nat /\ Len(s \o <<a, b>>) = Len(s) + 2
  BY <1>1, ConcatProperties, LenProperties
<1>3. /\ Len(s) + 2 \in 1..Len(s) + Len(<<a, b>>)
      /\ ~ (Len(s) + 2 <= Len(s)) /\ Len(s) + 2 - Len(s) = 2
  BY <1>1, <1>2
<1>4. QED
  BY <1>1, <1>2, <1>3, ConcatProperties

\* The API answers with alarms only after it found the bearer of a request active
\* that dashboard has introspected before.
LEMMA AnswerAuthorises ==
  ASSUME Resting, TlsKnown, Linked, ApiAnswers
  PROVE  UNCHANGED vars \/ \E r \in Request : ApiAuthorises(r)
<1>1. /\ Tls!ApiAnswers /\ toApi # <<>>
      /\ toWeb'[Len(toWeb')].resp.alarms # NoToken => Bearer[Head(toApi).op] \in active
      /\ UNCHANGED <<mode, reqVars, cellVars, authVars, signedIn>>
  BY DEF ApiAnswers, Tls!ApiAnswers
<1>2. mode = "stateful_tls"
  BY <1>1 DEF Resting
<1>3. TlsP!WireTypeOK /\ TlsP!UnsentInv
  BY <1>2 DEF TlsKnown, TlsP!IdentityInv
<1>4. toApi \in Seq(TlsP!Frame) /\ toWeb \in Seq(TlsP!Piece)
  BY <1>3 DEF TlsP!WireTypeOK
<1>5. Len(toApi) \in Nat /\ 1 \in 1..Len(toApi) /\ Head(toApi) = toApi[1]
  BY <1>1, <1>4, EmptySeq, LenProperties, HeadTailProperties
<1>6. Head(toApi).op \in Request
  <2>1. Head(toApi) \in TlsP!Frame
    BY <1>1, <1>4, HeadTailProperties
  <2>2. QED
    BY <2>1 DEF TlsP!Frame
<1>7. PICK body \in ApiBodies :
        LET authentic == body \in {"ok", "okWithError"} IN
        /\ Tls!Answer([op |-> Head(toApi).op, body |-> body,
                       alarms |-> IF authentic THEN Bearer[Head(toApi).op] ELSE NoToken])
        /\ authorised' = IF authentic THEN authorised \cup {Head(toApi).op} ELSE authorised
  BY <1>1 DEF Tls!ApiAnswers
<1>8. CASE body \notin {"ok", "okWithError"}
  BY <1>1, <1>7, <1>8 DEF vars
<1>9. CASE body \in {"ok", "okWithError"}
  <2> DEFINE resp == [op |-> Head(toApi).op, body |-> body, alarms |-> Bearer[Head(toApi).op]]
             two(part) == [part |-> part, resp |-> resp]
  <2>1. /\ toWeb' = toWeb \o <<two("length"), two("payload")>>
        /\ authorised' = authorised \cup {Head(toApi).op}
    BY <1>7, <1>9 DEF Tls!Answer
  <2>2. resp \in TlsP!Response
    BY <1>6, WebServerAssumption, IdentityAssumption DEF TlsP!Response, TlsP!Body, Body
  <2>3. toWeb'[Len(toWeb')] = two("payload")
    <3>1. two("length") \in TlsP!Piece /\ two("payload") \in TlsP!Piece
      BY <2>2 DEF TlsP!Piece
    <3> HIDE DEF two
    <3>2. QED
      BY <1>4, <2>1, <3>1, LastOfTwo
  <2>4. toWeb'[Len(toWeb')].resp.alarms = Bearer[Head(toApi).op]
    BY <2>3
  <2>5. Bearer[Head(toApi).op] \in active
    BY <1>1, <1>6, <2>4, IdentityAssumption
  <2>6. Head(toApi).op \in TlsP!OnWire
    BY <1>5 DEF TlsP!OnWire
  <2>7. identity[Head(toApi).op] # NoToken
    BY <1>3, <1>6, <2>6 DEF TlsP!UnsentInv, Linked
  <2>8. ApiAuthorises(Head(toApi).op)
    BY <1>1, <1>2, <2>1, <2>5, <2>7 DEF ApiAuthorises
  <2>9. QED
    BY <1>6, <2>8
<1>10. QED
  BY <1>8, <1>9

LEMMA RegistrationAuthorises ==
  ASSUME Resting, Linked, NEW r \in Request, ApiRegisters(r)
  PROVE  UNCHANGED vars \/ ApiAuthorises(r)
<1>1. r \in posted /\ UNCHANGED <<mode, reqVars, cellVars, authVars, signedIn>>
  BY DEF ApiRegisters, Nats!ApiRegisters
<1>2. mode = "async_jetstream" /\ identity[r] # NoToken
  BY <1>1 DEF Resting, Linked
<1>3. UNCHANGED authorised \/ (Bearer[r] \in active /\ authorised' = authorised \cup {r})
  BY DEF ApiRegisters
<1>4. QED
  BY <1>1, <1>2, <1>3 DEF ApiAuthorises, vars

LEMMA StepIsDashboards ==
  ASSUME TypeOK, Resting, TlsKnown, TlsKnown', NatsKnown, Linked, [SystemNext]_systemVars
  PROVE  [Next]_vars
<1>1. ASSUME NEW r \in Request, OutsideFetch(r) PROVE Next
  BY <1>1 DEF OutsideFetch, Next
<1>2. ASSUME NEW r \in Request, FetchTcp(r) \/ FetchAsync(r) PROVE [Next]_vars
  BY <1>2, FetchTcpKeepsPromise, FetchAsyncKeepsPromise DEF FetchStep, Next
<1>3. ASSUME NEW r \in Request, LeavesFetch(r) PROVE Next
  BY <1>3, LeavingIsLeaving DEF Next
<1>4. ASSUME NEW r \in Request, ApiRegisters(r) PROVE [Next]_vars
  BY <1>4, RegistrationAuthorises DEF Next
<1>5. ASSUME ApiAnswers PROVE [Next]_vars
  BY <1>5, AnswerAuthorises DEF Next
<1>6. ASSUME ApiMisreads \/ BrokerStep \/ Tick PROVE UNCHANGED vars
  BY <1>6 DEF ApiMisreads, BrokerStep, Tick
<1>7. ASSUME \/ \E t \in Token : Revoke(t)
             \/ Idle
      PROVE  Next
  BY <1>7 DEF Next
<1>8. CASE UNCHANGED systemVars
  BY <1>8 DEF systemVars
<1>9. QED
  BY <1>1, <1>2, <1>3, <1>4, <1>5, <1>6, <1>7, <1>8 DEF SystemNext

-----------------------------------------------------------------------------
\* What no step of dashboard undoes: who was introspected stays so, and who was
\* authorised does, and nobody fetches before.
LEMMA DashboardMoves ==
  ASSUME TypeOK, [Next]_vars
  PROVE  /\ authorised \subseteq authorised'
         /\ \A r \in Request :
              /\ identity[r] # NoToken => identity'[r] # NoToken
              /\ pc'[r] = "fetching" => pc[r] = "fetching" \/ identity'[r] # NoToken
<1>1. pc \in [Request -> Place] /\ identity \in [Request -> Token \cup {NoToken}]
  BY DEF TypeOK
<1> DEFINE Kept == /\ authorised \subseteq authorised'
                   /\ \A r \in Request :
                        /\ identity[r] # NoToken => identity'[r] # NoToken
                        /\ pc'[r] = "fetching" => pc[r] = "fetching" \/ identity'[r] # NoToken
<1>2. ASSUME NEW q \in Request, NEW place, place # "fetching", Goto(q, place),
             UNCHANGED <<identity, authorised>>
      PROVE  Kept
  BY <1>1, <1>2 DEF Goto
<1>3. ASSUME NEW q \in Request, Introspected(q) PROVE Kept
  <2>1. PICK place : Goto(q, place)
    BY <1>3 DEF Introspected, EnterMode
  <2>2. /\ identity' = [identity EXCEPT ![q] = Bearer[q]] /\ authorised' = authorised
        /\ Bearer[q] # NoToken
    BY <1>3, IdentityAssumption DEF Introspected
  <2>3. QED
    BY <1>1, <2>1, <2>2 DEF Goto
<1>4. CASE UNCHANGED <<pc, identity>> /\ authorised \subseteq authorised'
  BY <1>4
<1>5. ASSUME NEW q \in Request, Begin(q) \/ IntrospectFails(q) \/ IntrospectRefuses(q)
      PROVE  Kept
  BY <1>2, <1>5 DEF Begin, IntrospectFails, IntrospectRefuses, Return
<1>6. ASSUME NEW q \in Request, DirectStep(q) \/ FetchStep(q) PROVE Kept
  BY <1>2, <1>6 DEF DirectStep, FetchStep, ConnectSucceeds, ConnectShared, ConnectFails,
     QueryReturns, QueryFails, FetchReturns, FetchFails, Page, Return
<1>7. ASSUME NEW q \in Request, ClientLeaves(q) PROVE Kept
  BY <1>2, <1>7 DEF ClientLeaves
<1>8. ASSUME NEW q \in Request, SharedAuthAnswers(q) \/ ApiAuthorises(q) PROVE Kept
  BY <1>4, <1>8 DEF SharedAuthAnswers, ApiAuthorises, reqVars
<1>9. ASSUME (\E t \in Token : Revoke(t)) \/ Idle \/ UNCHANGED vars PROVE Kept
  BY <1>4, <1>9 DEF Revoke, Idle, vars, reqVars
<1>10. QED
  BY <1>3, <1>5, <1>6, <1>7, <1>8, <1>9 DEF Next, AuthStep

LEMMA LinkedNext ==
  ASSUME TypeOK, TlsKnown, NatsKnown, Linked, [Next]_vars, [SystemNext]_systemVars
  PROVE  Linked'
<1>1. ASSUME NEW r \in Request, tlsPc'[r] # "new"
      PROVE  tlsPc[r] # "new" \/ pc[r] = "fetching"
  <2>1. CASE UNCHANGED tlsPc
    BY <1>1, <2>1
  <2>2. ASSUME NEW q \in Request, FetchTcp(q) \/ (mode = "stateful_tls" /\ LeavesFetch(q))
        PROVE  tlsPc[r] # "new" \/ pc[r] = "fetching"
    <3>1. pc[q] = "fetching" /\ mode = "stateful_tls"
      BY <2>2 DEF FetchTcp, LeavesFetch
    <3>2. tlsPc \in [Request -> TlsP!Place]
      BY <3>1 DEF TlsKnown, TlsP!IdentityInv, TlsP!ReqTypeOK
    <3>3. PICK place : tlsPc' = [tlsPc EXCEPT ![q] = place]
      <4>1. CASE FetchTcp(q)
        BY <4>1 DEF FetchTcp, Tls!HandlerStep, Tls!Begin, Tls!Relock, Tls!Acquired,
           Tls!ConnectSucceeds, Tls!ConnectFails, Tls!WriteFrame, Tls!ReadLength,
           Tls!ReadPayload, Tls!ExchangeFails, Tls!Return, Tls!Goto
      <4>2. CASE LeavesFetch(q)
        BY <3>1, <4>2 DEF LeavesFetch, Tls!ClientLeaves, Tls!Goto
      <4>3. QED
        BY <2>2, <4>1, <4>2
    <3>4. QED
      BY <1>1, <3>1, <3>2, <3>3
  <2>3. ASSUME ApiAnswers \/ ApiMisreads PROVE UNCHANGED tlsPc
    BY <2>3 DEF ApiAnswers, ApiMisreads, Tls!ApiAnswers, Tls!ApiMisreads, Tls!reqVars
  <2>4. QED
    BY <2>1, <2>2, <2>3 DEF SystemNext, systemVars, tlsVars, OutsideFetch, FetchAsync,
       LeavesFetch, ApiRegisters, BrokerStep, Tick
<1>2. ASSUME NEW r \in Request, r \in posted'
      PROVE  r \in posted \/ pc[r] = "fetching"
  <2>1. CASE UNCHANGED posted
    BY <1>2, <2>1
  <2>2. ASSUME NEW q \in Request, FetchAsync(q) PROVE r \in posted \/ pc[r] = "fetching"
    <3>1. pc[q] = "fetching" /\ Nats!HandlerStep(q)
      BY <2>2 DEF FetchAsync, Nats!HandlerStep
    <3>2. posted' \subseteq posted \cup {q}
      BY <3>1 DEF Nats!HandlerStep, Nats!Begin, Nats!RegisterAccepted, Nats!RegisterFails,
         Nats!InitSucceeds, Nats!InitShared, Nats!InitFails, Nats!SendSignal, Nats!SignalFails,
         Nats!SignalAcknowledged, Nats!PollFinds, Nats!PollMisses, Nats!Wake, Nats!apiVars
    <3>3. QED
      BY <1>2, <3>1, <3>2
  <2>3. ASSUME NEW q \in Request, LeavesFetch(q) PROVE UNCHANGED posted
    BY <2>3 DEF LeavesFetch, natsVars, Nats!ClientLeaves, Nats!apiVars
  <2>4. ASSUME NEW q \in Request, ApiRegisters(q) PROVE UNCHANGED posted
    BY <2>4 DEF ApiRegisters, Nats!ApiRegisters
  <2>5. ASSUME BrokerStep \/ Tick PROVE UNCHANGED posted
    BY <2>5 DEF BrokerStep, Tick, Nats!BrokerStores, Nats!WorkerResponds, Nats!BrokerDiscards,
       Nats!BrokerRestarts, Nats!StreamsReconfigured, Nats!Tick, Nats!apiVars
  <2>6. QED
    BY <2>1, <2>2, <2>3, <2>4, <2>5 DEF SystemNext, systemVars, natsVars, OutsideFetch,
       FetchTcp, ApiAnswers, ApiMisreads
<1>3. ASSUME NEW r \in Request, registry'[r] = "registered"
      PROVE  registry[r] = "registered" \/ r \in authorised'
  <2>1. CASE UNCHANGED registry
    BY <1>3, <2>1
  <2>2. ASSUME NEW q \in Request, FetchAsync(q) PROVE UNCHANGED registry
    <3>1. Nats!HandlerStep(q)
      BY <2>2 DEF FetchAsync, Nats!HandlerStep
    <3>2. QED
      BY <3>1 DEF Nats!HandlerStep, Nats!Begin, Nats!RegisterAccepted, Nats!RegisterFails,
         Nats!InitSucceeds, Nats!InitShared, Nats!InitFails, Nats!SendSignal, Nats!SignalFails,
         Nats!SignalAcknowledged, Nats!PollFinds, Nats!PollMisses, Nats!Wake, Nats!apiVars
  <2>3. ASSUME NEW q \in Request, LeavesFetch(q) PROVE UNCHANGED registry
    BY <2>3 DEF LeavesFetch, natsVars, Nats!ClientLeaves, Nats!apiVars
  <2>4. ASSUME NEW q \in Request, ApiRegisters(q)
        PROVE  registry[r] = "registered" \/ r \in authorised'
    <3>1. registry \in [Request -> {"unknown", "registered", "refused"}]
      BY DEF NatsKnown, NatsP!TypeOK, NatsP!ApiTypeOK
    <3>2. \E answer : registry' = [registry EXCEPT ![q] = answer]
      BY <2>4 DEF ApiRegisters, Nats!ApiRegisters
    <3>3. registry'[q] = "registered" => q \in authorised'
      BY <2>4 DEF ApiRegisters
    <3>4. QED
      BY <1>3, <3>1, <3>2, <3>3
  <2>5. ASSUME BrokerStep \/ Tick PROVE UNCHANGED registry
    BY <2>5 DEF BrokerStep, Tick, Nats!BrokerStores, Nats!WorkerResponds, Nats!BrokerDiscards,
       Nats!BrokerRestarts, Nats!StreamsReconfigured, Nats!Tick, Nats!apiVars
  <2>6. QED
    BY <2>1, <2>2, <2>3, <2>4, <2>5 DEF SystemNext, systemVars, natsVars, OutsideFetch,
       FetchTcp, ApiAnswers, ApiMisreads
<1>4. QED
  BY <1>1, <1>2, <1>3, DashboardMoves DEF Linked

LEMMA SystemInvariant == SystemSpec => [](TypeOK /\ ModeInv /\ Linked)
<1>1. SystemInit => TypeOK /\ ModeInv
  BY InitTypeOK DEF SystemInit
<1>2. SystemInit => Linked
  BY DEF SystemInit, Init, Tls!Init, Nats!Init, Linked
<1>3. TypeOK /\ ModeInv /\ Linked /\ Resting /\ TlsKnown /\ TlsKnown' /\ NatsKnown
        /\ [SystemNext]_systemVars => TypeOK' /\ ModeInv' /\ Linked'
  BY StepIsDashboards, NextTypeOK, NextModeInv, LinkedNext
<1>4. QED
  BY <1>1, <1>2, <1>3, RestingInvariant, TransportsKnown, PTL DEF SystemSpec

\* The process with its real transports is the dashboard Dashboard specifies.
THEOREM IsDashboard == SystemSpec => DashboardSpec
<1>1. SystemInit => Init
  BY DEF SystemInit
<1>2. TypeOK /\ Linked /\ Resting /\ TlsKnown /\ TlsKnown' /\ NatsKnown
        /\ [SystemNext]_systemVars => [Next]_vars
  BY StepIsDashboards
<1>3. QED
  BY <1>1, <1>2, SystemInvariant, RestingInvariant, TransportsKnown, PTL
     DEF SystemSpec, DashboardSpec, Spec

\* So what was proved of Dashboard holds of the process, whoever shares its
\* connections and whatever bytes others left on them.
THEOREM ProcessKeeps ==
  SystemSpec => [](OwnPage /\ NoPageAfterRevocation /\ NoFallback /\ AuditTrail /\ OneContext)
<1>1. DashboardSpec => []OwnPage /\ []NoPageAfterRevocation
  BY OwnPages, NoStaleVerdict DEF DashboardSpec
<1>2. DashboardSpec => []NoFallback /\ []AuditTrail /\ []OneContext
  BY NoModeFallsBack, Audited, SingleContext DEF DashboardSpec
<1>3. QED
  BY <1>1, <1>2, IsDashboard, PTL

=============================================================================
