------------------------- MODULE JetStreamOperation -------------------------
(***************************************************************************)
(* The async_jetstream interaction mode of crates/common/src/lib.rs: a     *)
(* request registers an operation with the API over HTTPS, signals it on a *)
(* JetStream request stream, waits for the publish acknowledgement, and    *)
(* polls the response stream by the subject of its operation.  All         *)
(* requests of the process share one NATS transport, connected on first    *)
(* use through Runtime.nats : OnceCell<NatsTransport>.                     *)
(*                                                                         *)
(* One step of a request is what fetch_async does between two .await       *)
(* points.  The API, its worker and the broker are external.               *)
(***************************************************************************)
EXTENDS ServiceContract, Naturals

CONSTANTS
  ApiBodies,      \* the bodies the API worker may answer with
  Topologies,     \* the pairs of streams an operator may have provisioned
  AsyncTimeout,   \* ASYNC_TIMEOUT, in ticks of the clock
  SleepTime,      \* the sleep between two polls, of 100 ms
  GetBound        \* how long the client lets one direct get take

ASSUME AsyncAssumption ==
  /\ ApiBodies \subseteq Body
  /\ AsyncTimeout \in Nat
  /\ SleepTime \in Nat \ {0}
  /\ GetBound \in Nat

VARIABLES
  pc,          \* where each request is in fetch_async
  result,      \* what fetch_async returned
  elapsed,     \* time since the publish was acknowledged, while polling
  timer,       \* time left of the get or the sleep that is awaited
  holder,      \* the request that runs connect_nats
  waiters,     \* the requests that wait for it to finish
  connections, \* the requests whose connect_nats filled Runtime.nats
  posted,      \* operations whose registration was sent
  registry,    \* API side: what became of each registration
  publishing,  \* signals sent to the broker and not stored yet
  signals,     \* what the request stream holds
  responses,   \* the last response on each operation's subject
  streams      \* the streams that were provisioned

reqVars    == <<pc, result, elapsed, timer>>
cellVars   == <<holder, waiters, connections>>
apiVars    == <<posted, registry>>
brokerVars == <<publishing, signals, responses, streams>>
vars       == <<reqVars, cellVars, apiVars, brokerVars>>

-----------------------------------------------------------------------------
\* The stream settings that validate_request_stream and
\* validate_response_stream look at.
RequestStream  == [file : BOOLEAN, workQueue : BOOLEAN, subject : BOOLEAN,
                   dedup : BOOLEAN]
ResponseStream == [file : BOOLEAN, limits : BOOLEAN, direct : BOOLEAN,
                   subjects : BOOLEAN, dedup : BOOLEAN]

\* Streams are steady if they stay as they are while the process runs and their
\* limits discard nothing meanwhile; the code looks at the settings once, and
\* never at max_age, max_msgs or max_bytes.
ASSUME TopologyAssumption ==
  Topologies \subseteq [request : RequestStream, response : ResponseStream, steady : BOOLEAN]

ValidateRequestStream(s) == s.file /\ s.workQueue /\ s.subject /\ s.dedup

\* Mutant: the storage of the response stream is not looked at.
ValidateResponseStreamInMemory(s) == s.limits /\ s.direct /\ s.subjects /\ s.dedup

ValidateResponseStream(s) ==
  s.file /\ s.limits /\ s.direct /\ s.subjects /\ s.dedup

\* get_or_try_init runs one initialiser at a time and wakes the next when it
\* fails.
Cell == INSTANCE FairLock WITH Owner <- Request, NoOwner <- NoRequest

Ready == connections # {}

Polling  == {"getting", "sleeping"}
Finished == {"done", "dropped"}
Place    == {"new", "registering", "initialising", "signalling", "acking"}
              \cup Polling \cup Finished

NoResponse == [op |-> NoRequest, body |-> "malformed", alarms |-> NoToken]

\* The deadline is looked at only after a get: a look just before it is followed
\* by a whole sleep and a whole get.
PollBound == AsyncTimeout + SleepTime + GetBound

ReqTypeOK ==
  /\ pc \in [Request -> Place]
  /\ result \in [Request -> Result]
  /\ elapsed \in [Request -> Nat]
  /\ timer \in [Request -> Nat]

CellTypeOK == Cell!TypeOK /\ connections \subseteq Request

ApiTypeOK ==
  /\ posted \subseteq Request
  /\ registry \in [Request -> {"unknown", "registered", "refused"}]

BrokerTypeOK ==
  /\ publishing \subseteq Request
  /\ signals \subseteq Request
  /\ responses \in [Request -> Response]
  /\ streams \in Topologies

TypeOK == ReqTypeOK /\ CellTypeOK /\ ApiTypeOK /\ BrokerTypeOK

Init ==
  /\ pc = [r \in Request |-> "new"]
  /\ result = [r \in Request |-> NoResult]
  /\ elapsed = [r \in Request |-> 0]
  /\ timer = [r \in Request |-> 0]
  /\ Cell!Init
  /\ connections = {}
  /\ posted = {}
  /\ registry = [r \in Request |-> "unknown"]
  /\ publishing = {}
  /\ signals = {}
  /\ responses = [r \in Request |-> NoResponse]
  /\ streams \in Topologies

-----------------------------------------------------------------------------
Goto(r, place) == pc' = [pc EXCEPT ![r] = place]

Return(r, res) ==
  /\ Goto(r, "done")
  /\ result' = [result EXCEPT ![r] = res]

Wait(r, time) == timer' = [timer EXCEPT ![r] = time]

\* fetch_async up to the send of the registration.
Begin(r) ==
  /\ pc[r] = "new"
  /\ Goto(r, "registering")
  /\ posted' = posted \cup {r}
  /\ UNCHANGED <<result, elapsed, timer, cellVars, registry, brokerVars>>

\* Past the acceptance a request takes the transport, or asks to initialise it.
EnterCell(r) ==
  \/ Ready /\ Goto(r, "signalling") /\ UNCHANGED <<holder, waiters>>
  \/ ~ Ready /\ Goto(r, "initialising") /\ Cell!Lock(r)

\* Mutant: any answer of the API is taken for an acceptance.
RegisteredAnyway(r) ==
  /\ pc[r] = "registering"
  /\ registry[r] # "unknown"
  /\ EnterCell(r)
  /\ UNCHANGED <<result, elapsed, timer, connections, apiVars, brokerVars>>

\* A 202 whose acceptance names this operation and its response subject.
RegisterAccepted(r) ==
  /\ pc[r] = "registering"
  /\ registry[r] = "registered"
  /\ EnterCell(r)
  /\ UNCHANGED <<result, elapsed, timer, connections, apiVars, brokerVars>>

\* Mutant: a failed registration is reported as a failed introspection.
RegisterFailsAsAuth(r) ==
  /\ pc[r] = "registering"
  /\ Return(r, Failed("AuthUnavailable"))
  /\ UNCHANGED <<elapsed, timer, cellVars, apiVars, brokerVars>>

\* A 401; or no answer, another status, or an acceptance that is too long,
\* malformed or of another operation, whatever the API did.
RegisterFails(r) ==
  /\ pc[r] = "registering"
  /\ \/ registry[r] = "refused" /\ Return(r, Failed("Unauthorized"))
     \/ \E kind \in {"ApiUnavailable", "Contract"} : Return(r, Failed(kind))
  /\ UNCHANGED <<elapsed, timer, cellVars, apiVars, brokerVars>>

\* Mutant: the cell is filled but its waiters are granted the permit in turn.
InitSucceedsUnclosed(r) ==
  /\ pc[r] = "initialising"
  /\ holder = r
  /\ ValidateRequestStream(streams.request)
  /\ ValidateResponseStream(streams.response)
  /\ connections' = connections \cup {r}
  /\ Cell!Unlock
  /\ Goto(r, "signalling")
  /\ UNCHANGED <<result, elapsed, timer, apiVars, brokerVars>>

\* connect_nats succeeds: the cell is filled and its permit closed, which wakes
\* every waiter.
InitSucceeds(r) ==
  /\ pc[r] = "initialising"
  /\ holder = r
  /\ ValidateRequestStream(streams.request)
  /\ ValidateResponseStream(streams.response)
  /\ connections' = connections \cup {r}
  /\ holder' = NoRequest
  /\ waiters' = <<>>
  /\ Goto(r, "signalling")
  /\ UNCHANGED <<result, elapsed, timer, apiVars, brokerVars>>

\* A waiter finds the cell filled.
InitShared(r) ==
  /\ pc[r] = "initialising"
  /\ Ready
  /\ holder # r
  /\ Goto(r, "signalling")
  /\ UNCHANGED <<result, elapsed, timer, cellVars, apiVars, brokerVars>>

\* Mutant: the failed initialiser keeps the permit.
InitFailsHolding(r) ==
  /\ pc[r] = "initialising"
  /\ holder = r
  /\ Return(r, Failed("ApiUnavailable"))
  /\ UNCHANGED <<elapsed, timer, cellVars, apiVars, brokerVars>>

\* The connection, a stream lookup or a validation failed; the next waiter
\* tries for itself.
InitFails(r) ==
  /\ pc[r] = "initialising"
  /\ holder = r
  /\ Return(r, Failed("ApiUnavailable"))
  /\ Cell!Unlock
  /\ UNCHANGED <<elapsed, timer, connections, apiVars, brokerVars>>

SendSignal(r) ==
  /\ pc[r] = "signalling"
  /\ Goto(r, "acking")
  /\ publishing' = publishing \cup {r}
  /\ UNCHANGED <<result, elapsed, timer, cellVars, apiVars, signals, responses, streams>>

\* Neither send_publish nor its acknowledgement succeeded in time.  The signal
\* may be on its way all the same.
SignalFails(r) ==
  /\ pc[r] \in {"signalling", "acking"}
  /\ Return(r, Failed("ApiUnavailable"))
  /\ UNCHANGED <<elapsed, timer, cellVars, apiVars, brokerVars>>

\* Mutant: the poll starts without waiting for the acknowledgement.
PollUnacknowledged(r) ==
  /\ pc[r] = "acking"
  /\ Goto(r, "getting")
  /\ Wait(r, GetBound)
  /\ UNCHANGED <<result, elapsed, cellVars, apiVars, brokerVars>>

\* The acknowledgement says that the broker stored the signal.
SignalAcknowledged(r) ==
  /\ pc[r] = "acking"
  /\ r \notin publishing
  /\ Goto(r, "getting")
  /\ Wait(r, GetBound)
  /\ UNCHANGED <<result, elapsed, cellVars, apiVars, brokerVars>>

\* The get found the last message of the operation's subject.
PollFinds(r) ==
  /\ pc[r] = "getting"
  /\ streams.response.direct
  /\ responses[r] # NoResponse
  /\ Return(r, DecodeServiceResponse(responses[r], r))
  /\ UNCHANGED <<elapsed, timer, cellVars, apiVars, brokerVars>>

\* Mutant: a get that fails is retried without a look at the deadline.
PollMissesUnlooked(r) ==
  /\ pc[r] = "getting"
  /\ \/ /\ elapsed[r] >= AsyncTimeout
        /\ Return(r, Failed("ApiUnavailable"))
        /\ UNCHANGED timer
     \/ /\ Goto(r, "sleeping")
        /\ Wait(r, SleepTime)
        /\ UNCHANGED result
  /\ UNCHANGED <<elapsed, cellVars, apiVars, brokerVars>>

\* It found nothing, or failed in any other way, which the loop treats alike.
PollMisses(r) ==
  /\ pc[r] = "getting"
  /\ \/ /\ elapsed[r] >= AsyncTimeout
        /\ Return(r, Failed("ApiUnavailable"))
        /\ UNCHANGED timer
     \/ /\ elapsed[r] < AsyncTimeout
        /\ Goto(r, "sleeping")
        /\ Wait(r, SleepTime)
        /\ UNCHANGED result
  /\ UNCHANGED <<elapsed, cellVars, apiVars, brokerVars>>

Wake(r) ==
  /\ pc[r] = "sleeping"
  /\ timer[r] = 0
  /\ Goto(r, "getting")
  /\ Wait(r, GetBound)
  /\ UNCHANGED <<result, elapsed, cellVars, apiVars, brokerVars>>

HandlerStep(r) ==
  \/ Begin(r) \/ RegisterAccepted(r) \/ RegisterFails(r)
  \/ InitSucceeds(r) \/ InitShared(r) \/ InitFails(r)
  \/ SendSignal(r) \/ SignalFails(r) \/ SignalAcknowledged(r)
  \/ PollFinds(r) \/ PollMisses(r) \/ Wake(r)

-----------------------------------------------------------------------------
\* The environment.

\* The browser goes away and the future of r is dropped at an await, taking its
\* place in the cell with it.
ClientLeaves(r) ==
  /\ pc[r] \notin {"new"} \cup Finished
  /\ Goto(r, "dropped")
  /\ \/ pc[r] = "initialising" /\ holder = r /\ Cell!Unlock
     \/ pc[r] = "initialising" /\ holder # r /\ Cell!LeaveQueue(r)
     \/ /\ pc[r] = "initialising" => holder # r /\ r \notin Cell!Waiting
        /\ UNCHANGED <<holder, waiters>>
  /\ UNCHANGED <<result, elapsed, timer, connections, apiVars, brokerVars>>

\* The API introspects the bearer of a registration, however late it arrives.
ApiRegisters(r) ==
  /\ r \in posted
  /\ registry[r] = "unknown"
  /\ \E verdict \in {"registered", "refused"} :
       registry' = [registry EXCEPT ![r] = verdict]
  /\ UNCHANGED <<reqVars, cellVars, posted, brokerVars>>

\* The broker stores a signal if a stream listens to its subject.
BrokerStores(r) ==
  /\ r \in publishing
  /\ streams.request.subject
  /\ publishing' = publishing \ {r}
  /\ signals' = signals \cup {r}
  /\ UNCHANGED <<reqVars, cellVars, apiVars, responses, streams>>

\* What the worker answers to operation q, with the alarms of its bearer.
ResponseTo(q, body) ==
  [op |-> q, body |-> body,
   alarms |-> IF body \in {"ok", "okWithError"} THEN Bearer[q] ELSE NoToken]

\* The API worker runs a signalled operation it knows and publishes the
\* response on its subject; it acknowledges the signal afterwards, or dies before
\* and runs it again.  Nothing but the decoder keeps it from mixing operations
\* up: what it publishes there may be its response to another one it knows.
WorkerResponds(r) ==
  /\ r \in signals
  /\ registry[r] = "registered"
  /\ streams.response.subjects
  /\ \E body \in ApiBodies : \E q \in Request :
       /\ registry[q] = "registered"
       /\ responses' = [responses EXCEPT ![r] = ResponseTo(q, body)]
  /\ signals' \in {signals, signals \ {r}}
  /\ UNCHANGED <<reqVars, cellVars, apiVars, publishing, streams>>

\* A broker restart empties the streams it keeps in memory.
BrokerRestarts ==
  /\ signals' = IF streams.request.file THEN signals ELSE {}
  /\ responses' = IF streams.response.file THEN responses
                  ELSE [r \in Request |-> NoResponse]
  /\ UNCHANGED <<reqVars, cellVars, apiVars, publishing, streams>>

\* A stream that is not steady discards a message at its limits, ...
BrokerDiscards(r) ==
  /\ ~ streams.steady
  /\ \/ r \in signals /\ signals' = signals \ {r} /\ UNCHANGED responses
     \/ responses' = [responses EXCEPT ![r] = NoResponse] /\ UNCHANGED signals
  /\ UNCHANGED <<reqVars, cellVars, apiVars, publishing, streams>>

\* ... or is given other settings after it was validated.
StreamsReconfigured ==
  /\ ~ streams.steady
  /\ streams' \in {t \in Topologies : ~ t.steady}
  /\ UNCHANGED <<reqVars, cellVars, apiVars, publishing, signals, responses>>

\* Time passes for the requests that poll.  A timer that has run out is served
\* before the next tick.
Tick ==
  LET polling == {r \in Request : pc[r] \in Polling} IN
  /\ polling # {}
  /\ \A r \in polling : timer[r] > 0
  /\ elapsed' = [r \in Request |-> IF r \in polling THEN elapsed[r] + 1 ELSE elapsed[r]]
  /\ timer' = [r \in Request |-> IF r \in polling THEN timer[r] - 1 ELSE timer[r]]
  /\ UNCHANGED <<pc, result, cellVars, apiVars, brokerVars>>

\* Every request has come and gone and the server is idle.
Idle ==
  /\ \A r \in Request : pc[r] \in Finished
  /\ UNCHANGED vars

Next ==
  \/ \E r \in Request : \/ HandlerStep(r) \/ ClientLeaves(r)
                        \/ ApiRegisters(r) \/ BrokerStores(r) \/ WorkerResponds(r)
                        \/ BrokerDiscards(r)
  \/ BrokerRestarts
  \/ StreamsReconfigured
  \/ Tick
  \/ Idle

Spec == Init /\ [][Next]_vars

\* tokio polls futures whose wakeup has come, its timers fire, and time passes.
\* Neither the API nor the broker is obliged to do anything.
Fairness == WF_vars(Tick) /\ \A r \in Request : WF_vars(HandlerStep(r))

FairSpec == Spec /\ Fairness

-----------------------------------------------------------------------------
\* Safety.

\* A signal is published only for an operation the API has registered, so that
\* no worker is ever signalled an operation it cannot look up.
SignalIsRegistered ==
  \A r \in publishing \cup signals : registry[r] = "registered"

\* While a request polls, its operation is in the broker's file-backed storage,
\* as a pending signal or as a response, and no broker restart can take it away:
\* the publish was acknowledged, and the streams were validated before.  That
\* takes streams that stay as they were validated and discard nothing.
DurableOperation ==
  streams.steady => \A r \in Request : pc[r] \in Polling =>
    r \in signals \/ responses[r] # NoResponse

\* A response, once on its subject, is there until the request that waits for it
\* has read it.
ResponseSurvives ==
  [][streams.steady => \A r \in Request :
       pc[r] \in Polling /\ responses[r] # NoResponse => responses'[r] # NoResponse]_vars

\* However many requests start together, fail or leave while they initialise the
\* cell, the process never opens a second NATS transport.
OneTransport == \A r, s \in connections : r = s

\* Whoever initialises the cell is still there to finish, and nobody waits for
\* an initialiser that is not.
InitIsPassedOn ==
  /\ holder # NoRequest => pc[holder] = "initialising"
  /\ waiters # <<>> => holder # NoRequest
  /\ \A r \in Request : pc[r] = "initialising" =>
       r = holder \/ r \in Cell!Waiting \/ Ready

\* The 15 s of ASYNC_TIMEOUT are overrun by less than one sleep and one get,
\* wherever the deadline falls.
PollIsBounded == \A r \in Request : elapsed[r] < PollBound

-----------------------------------------------------------------------------
\* Liveness: whatever the API and the broker do, a started operation returns, or
\* its browser leaves.
EveryOperationFinishes ==
  \A r \in Request : pc[r] = "registering" ~> pc[r] \in Finished

-----------------------------------------------------------------------------
\* The mode implements what AlarmService promises.
Phase ==
  [r \in Request |-> CASE pc[r] = "done"         -> "answered"
                      [] pc[r] = "dropped"       -> "gone"
                      [] pc[r] \notin Finished   -> "pending"]

Authorised == {r \in Request : registry[r] = "registered"}

Service == INSTANCE AlarmService WITH phase <- Phase, authorised <- Authorised

ServiceSpec == Service!Spec

=============================================================================
