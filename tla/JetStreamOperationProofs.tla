---------------------- MODULE JetStreamOperationProofs ----------------------
(***************************************************************************)
(* What async_jetstream guarantees for any number of concurrent requests,  *)
(* any provisioning of the streams, and any deadline.                      *)
(***************************************************************************)
EXTENDS JetStreamOperation, SequenceTheorems, TLAPS

-----------------------------------------------------------------------------
\* What a fetch may return is well-formed, ...
LEMMA ResultType ==
  /\ \A kind \in {"Unauthorized", "ApiUnavailable", "Contract"} : Failed(kind) \in Result
  /\ \A t \in Token \cup {NoToken} : Served(t) \in Result
BY DEF Failed, Served, Result

\* ... and a response is decoded to alarms by the operation it names, and to an error
\* by any other.
LEMMA Decoded ==
  ASSUME NEW resp \in Response, NEW op \in Request
  PROVE  \/ /\ resp.op = op /\ resp.body = "ok"
            /\ DecodeServiceResponse(resp, op) = Served(resp.alarms)
         \/ \E kind \in {"Unauthorized", "ApiUnavailable", "Contract"} :
              DecodeServiceResponse(resp, op) = Failed(kind)
BY DEF DecodeServiceResponse, Response, Served, Failed, Body

\* Typing.

LEMMA InitTypeOK == Init => TypeOK
<1> SUFFICES ASSUME Init PROVE TypeOK
  OBVIOUS
<1>1. ReqTypeOK
  BY DEF Init, ReqTypeOK, Place, NoResult, Result
<1>2. CellTypeOK
  BY EmptySeq DEF Init, CellTypeOK, Cell!Init, Cell!TypeOK
<1>3. ApiTypeOK /\ BrokerTypeOK
  BY DEF Init, ApiTypeOK, BrokerTypeOK, NoResponse, Response, Body
<1>4. QED
  BY <1>1, <1>2, <1>3 DEF TypeOK

\* The cell stays typed when its permit moves and when it is filled.
LEMMA CellStepType ==
  ASSUME CellTypeOK, NEW r \in Request,
         \/ Cell!Lock(r) \/ Cell!Unlock \/ Cell!LeaveQueue(r)
         \/ UNCHANGED <<holder, waiters>>
         \/ holder' = NoRequest /\ waiters' = <<>>,
         connections' \in {connections, connections \cup {r}}
  PROVE  CellTypeOK'
<1>1. Cell!TypeOK'
  <2>1. CASE Cell!Lock(r) \/ Cell!Unlock \/ Cell!LeaveQueue(r)
    BY <2>1, Cell!StepType DEF CellTypeOK
  <2>2. CASE UNCHANGED <<holder, waiters>>
    BY <2>2 DEF CellTypeOK, Cell!TypeOK
  <2>3. CASE holder' = NoRequest /\ waiters' = <<>>
    BY <2>3, EmptySeq DEF Cell!TypeOK
  <2>4. QED
    BY <2>1, <2>2, <2>3
<1>2. QED
  BY <1>1 DEF CellTypeOK

\* What the worker publishes is a response.
LEMMA WorkerType ==
  ASSUME NEW q \in Request, NEW body \in ApiBodies
  PROVE  ResponseTo(q, body) \in Response /\ ResponseTo(q, body) # NoResponse
BY IdentityAssumption, AsyncAssumption DEF ResponseTo, Response, NoResponse

LEMMA NextTypeOK == TypeOK /\ [Next]_vars => TypeOK'
<1> SUFFICES ASSUME ReqTypeOK, CellTypeOK, ApiTypeOK, BrokerTypeOK, [Next]_vars
             PROVE  ReqTypeOK' /\ CellTypeOK' /\ ApiTypeOK' /\ BrokerTypeOK'
  BY DEF TypeOK
<1>a. ASSUME UNCHANGED reqVars PROVE ReqTypeOK'
  BY <1>a DEF reqVars, ReqTypeOK
<1>b. ASSUME UNCHANGED cellVars PROVE CellTypeOK'
  BY <1>b DEF cellVars, CellTypeOK, Cell!TypeOK
<1>c. ASSUME UNCHANGED apiVars PROVE ApiTypeOK'
  BY <1>c DEF apiVars, ApiTypeOK
<1>d. ASSUME UNCHANGED brokerVars PROVE BrokerTypeOK'
  BY <1>d DEF brokerVars, BrokerTypeOK
<1>e. ASSUME NEW r \in Request, NEW place \in Place, Goto(r, place),
             UNCHANGED <<result, elapsed>>,
             UNCHANGED timer \/ \E time \in Nat : Wait(r, time)
      PROVE  ReqTypeOK'
  BY <1>e DEF ReqTypeOK, Goto, Wait
<1>f. ASSUME NEW r \in Request, NEW res \in Result, Return(r, res),
             UNCHANGED <<elapsed, timer>>
      PROVE  ReqTypeOK'
  BY <1>f DEF ReqTypeOK, Return, Goto, Place, Finished
<1>g. {"new", "registering", "initialising", "signalling", "acking", "getting",
       "sleeping", "done", "dropped"} = Place
  BY DEF Place, Polling, Finished
<1>1. ASSUME NEW r \in Request, Begin(r)
      PROVE  ReqTypeOK' /\ CellTypeOK' /\ ApiTypeOK' /\ BrokerTypeOK'
  BY <1>1, <1>b, <1>d, <1>e, <1>g DEF Begin, ApiTypeOK
<1>2. ASSUME NEW r \in Request, RegisterAccepted(r)
      PROVE  ReqTypeOK' /\ CellTypeOK' /\ ApiTypeOK' /\ BrokerTypeOK'
  BY <1>2, <1>c, <1>d, <1>e, <1>g, CellStepType DEF RegisterAccepted, EnterCell
<1>3. ASSUME NEW r \in Request, RegisterFails(r)
      PROVE  ReqTypeOK' /\ CellTypeOK' /\ ApiTypeOK' /\ BrokerTypeOK'
  BY <1>3, <1>b, <1>c, <1>d, <1>f, ResultType DEF RegisterFails
<1>4. ASSUME NEW r \in Request, InitSucceeds(r)
      PROVE  ReqTypeOK' /\ CellTypeOK' /\ ApiTypeOK' /\ BrokerTypeOK'
  BY <1>4, <1>c, <1>d, <1>e, <1>g, CellStepType DEF InitSucceeds
<1>5. ASSUME NEW r \in Request, InitShared(r)
      PROVE  ReqTypeOK' /\ CellTypeOK' /\ ApiTypeOK' /\ BrokerTypeOK'
  BY <1>5, <1>b, <1>c, <1>d, <1>e, <1>g DEF InitShared
<1>6. ASSUME NEW r \in Request, InitFails(r)
      PROVE  ReqTypeOK' /\ CellTypeOK' /\ ApiTypeOK' /\ BrokerTypeOK'
  BY <1>6, <1>c, <1>d, <1>f, ResultType, CellStepType DEF InitFails
<1>7. ASSUME NEW r \in Request, SendSignal(r)
      PROVE  ReqTypeOK' /\ CellTypeOK' /\ ApiTypeOK' /\ BrokerTypeOK'
  BY <1>7, <1>b, <1>c, <1>e, <1>g DEF SendSignal, BrokerTypeOK
<1>8. ASSUME NEW r \in Request, SignalFails(r)
      PROVE  ReqTypeOK' /\ CellTypeOK' /\ ApiTypeOK' /\ BrokerTypeOK'
  BY <1>8, <1>b, <1>c, <1>d, <1>f, ResultType DEF SignalFails
<1>9. ASSUME NEW r \in Request, SignalAcknowledged(r)
      PROVE  ReqTypeOK' /\ CellTypeOK' /\ ApiTypeOK' /\ BrokerTypeOK'
  BY <1>9, <1>b, <1>c, <1>d, <1>e, <1>g, AsyncAssumption DEF SignalAcknowledged
<1>10. ASSUME NEW r \in Request, PollFinds(r)
       PROVE  ReqTypeOK' /\ CellTypeOK' /\ ApiTypeOK' /\ BrokerTypeOK'
  <2>1. DecodeServiceResponse(responses[r], r) \in Result
    BY Decoded, ResultType DEF BrokerTypeOK, Response
  <2>2. QED
    BY <1>10, <2>1, <1>b, <1>c, <1>d, <1>f DEF PollFinds
<1>11. ASSUME NEW r \in Request, PollMisses(r)
       PROVE  ReqTypeOK' /\ CellTypeOK' /\ ApiTypeOK' /\ BrokerTypeOK'
  BY <1>11, <1>b, <1>c, <1>d, <1>e, <1>f, <1>g, ResultType, AsyncAssumption DEF PollMisses
<1>12. ASSUME NEW r \in Request, Wake(r)
       PROVE  ReqTypeOK' /\ CellTypeOK' /\ ApiTypeOK' /\ BrokerTypeOK'
  BY <1>12, <1>b, <1>c, <1>d, <1>e, <1>g, AsyncAssumption DEF Wake
<1>13. ASSUME NEW r \in Request, ClientLeaves(r)
       PROVE  ReqTypeOK' /\ CellTypeOK' /\ ApiTypeOK' /\ BrokerTypeOK'
  BY <1>13, <1>c, <1>d, <1>e, <1>g, CellStepType DEF ClientLeaves
<1>14. ASSUME NEW r \in Request, ApiRegisters(r)
       PROVE  ReqTypeOK' /\ CellTypeOK' /\ ApiTypeOK' /\ BrokerTypeOK'
  BY <1>14, <1>a, <1>b, <1>d DEF ApiRegisters, ApiTypeOK
<1>15. ASSUME NEW r \in Request, BrokerStores(r)
       PROVE  ReqTypeOK' /\ CellTypeOK' /\ ApiTypeOK' /\ BrokerTypeOK'
  BY <1>15, <1>a, <1>b, <1>c DEF BrokerStores, BrokerTypeOK
<1>16. ASSUME NEW r \in Request, WorkerResponds(r)
       PROVE  ReqTypeOK' /\ CellTypeOK' /\ ApiTypeOK' /\ BrokerTypeOK'
  <2>1. responses' \in [Request -> Response]
    BY <1>16, WorkerType DEF WorkerResponds, BrokerTypeOK
  <2>2. QED
    BY <1>16, <2>1, <1>a, <1>b, <1>c DEF WorkerResponds, BrokerTypeOK
<1>17. ASSUME BrokerRestarts
       PROVE  ReqTypeOK' /\ CellTypeOK' /\ ApiTypeOK' /\ BrokerTypeOK'
  <2>1. NoResponse \in Response
    BY DEF NoResponse, Response, Body
  <2>2. QED
    BY <1>17, <2>1, <1>a, <1>b, <1>c DEF BrokerRestarts, BrokerTypeOK
<1>17a. ASSUME NEW r \in Request, BrokerDiscards(r)
        PROVE  ReqTypeOK' /\ CellTypeOK' /\ ApiTypeOK' /\ BrokerTypeOK'
  <2>1. NoResponse \in Response
    BY DEF NoResponse, Response, Body
  <2>2. QED
    BY <1>17a, <2>1, <1>a, <1>b, <1>c DEF BrokerDiscards, BrokerTypeOK
<1>17b. ASSUME StreamsReconfigured
        PROVE  ReqTypeOK' /\ CellTypeOK' /\ ApiTypeOK' /\ BrokerTypeOK'
  BY <1>17b, <1>a, <1>b, <1>c DEF StreamsReconfigured, BrokerTypeOK
<1>18. ASSUME Tick
       PROVE  ReqTypeOK' /\ CellTypeOK' /\ ApiTypeOK' /\ BrokerTypeOK'
  <2>1. ReqTypeOK'
    BY <1>18 DEF Tick, ReqTypeOK
  <2>2. QED
    BY <1>18, <2>1, <1>b, <1>c, <1>d DEF Tick
<1>19. CASE UNCHANGED vars
  BY <1>19, <1>a, <1>b, <1>c, <1>d DEF vars
<1>20. QED
  BY <1>1, <1>2, <1>3, <1>4, <1>5, <1>6, <1>7, <1>8, <1>9, <1>10, <1>11, <1>12, <1>13,
     <1>14, <1>15, <1>16, <1>17, <1>17a, <1>17b, <1>18, <1>19
     DEF Next, HandlerStep, Idle

\* Every state of fetch_async, its transport and its streams has the declared
\* types.
THEOREM TypeCorrect == Spec => []TypeOK
BY InitTypeOK, NextTypeOK, PTL DEF Spec

-----------------------------------------------------------------------------
\* Why a polled operation is durable: a request is past its registration only if
\* the API registered it, past the cell only if the streams were validated, and
\* its signal is somewhere in the broker from the moment it was sent.  What was
\* seen of the streams, and what they store, stays only in steady ones.
Signalled == {"signalling", "acking"} \cup Polling

DurableInv ==
  /\ \A r \in Request : pc[r] \in {"initialising"} \cup Signalled => registry[r] = "registered"
  /\ SignalIsRegistered
  /\ streams.steady /\ Ready => /\ ValidateRequestStream(streams.request)
                                /\ ValidateResponseStream(streams.response)
  /\ \A r \in Request : pc[r] \in Signalled => Ready
  /\ streams.steady => \A r \in Request : pc[r] \in {"acking"} \cup Polling =>
       r \in publishing \cup signals \/ responses[r] # NoResponse
  /\ DurableOperation

LEMMA DurableInvariant == Spec => []DurableInv
<1>1. Init => DurableInv
  BY DEF Init, DurableInv, Signalled, Polling, SignalIsRegistered, DurableOperation, Ready
<1>2. TypeOK /\ DurableInv /\ [Next]_vars => DurableInv'
  <2> SUFFICES ASSUME ReqTypeOK, CellTypeOK, ApiTypeOK, BrokerTypeOK, DurableInv, [Next]_vars
               PROVE  DurableInv'
    BY DEF TypeOK
  <2> USE DEF DurableInv, Signalled, Polling, SignalIsRegistered, DurableOperation
  \* A request that moves to a place where nothing more is asked of it.
  <2>a. ASSUME NEW r \in Request, NEW place, Goto(r, place),
               \/ place \notin {"initialising"} \cup Signalled
               \/ place \in Polling /\ pc[r] \in Polling,
               UNCHANGED <<registry, connections, brokerVars>>
        PROVE  DurableInv'
    BY <2>a DEF Goto, ReqTypeOK, Ready, brokerVars
  <2>b. ASSUME NEW r \in Request, NEW res, Return(r, res),
               UNCHANGED <<registry, connections, brokerVars>>
        PROVE  DurableInv'
    BY <2>a, <2>b DEF Return
  <2>c. ASSUME UNCHANGED <<pc, registry, connections, brokerVars>> PROVE DurableInv'
    BY <2>c DEF Ready, brokerVars
  \* A request that takes or waits for the transport.
  <2>d. ASSUME NEW r \in Request, NEW place \in {"initialising", "signalling"},
               Goto(r, place), registry[r] = "registered",
               place = "signalling" => Ready,
               UNCHANGED <<registry, connections, brokerVars>>
        PROVE  DurableInv'
    BY <2>d DEF Goto, ReqTypeOK, Ready, brokerVars
  <2>1. ASSUME NEW r \in Request, Begin(r) PROVE DurableInv'
    BY <2>1, <2>a DEF Begin, cellVars
  <2>2. ASSUME NEW r \in Request, RegisterAccepted(r) PROVE DurableInv'
    BY <2>2, <2>d DEF RegisterAccepted, EnterCell, apiVars
  <2>3. ASSUME NEW r \in Request, RegisterFails(r) PROVE DurableInv'
    BY <2>3, <2>b DEF RegisterFails, apiVars, cellVars
  <2>4. ASSUME NEW r \in Request, InitSucceeds(r) PROVE DurableInv'
    <3>1. Ready'
      BY <2>4 DEF InitSucceeds, Ready
    <3>2. QED
      BY <2>4, <3>1 DEF InitSucceeds, Goto, ReqTypeOK, apiVars, brokerVars
  <2>5. ASSUME NEW r \in Request, InitShared(r) PROVE DurableInv'
    BY <2>5, <2>d DEF InitShared, apiVars, cellVars
  <2>6. ASSUME NEW r \in Request, InitFails(r) PROVE DurableInv'
    BY <2>6, <2>b DEF InitFails, apiVars
  <2>7. ASSUME NEW r \in Request, SendSignal(r) PROVE DurableInv'
    BY <2>7 DEF SendSignal, Goto, ReqTypeOK, Ready, apiVars, cellVars
  <2>8. ASSUME NEW r \in Request, SignalFails(r) PROVE DurableInv'
    BY <2>8, <2>b DEF SignalFails, apiVars, cellVars
  <2>9. ASSUME NEW r \in Request, SignalAcknowledged(r) PROVE DurableInv'
    BY <2>9 DEF SignalAcknowledged, Goto, ReqTypeOK, Ready, apiVars, cellVars, brokerVars
  <2>10. ASSUME NEW r \in Request, PollFinds(r) PROVE DurableInv'
    BY <2>10, <2>b DEF PollFinds, apiVars, cellVars
  <2>11. ASSUME NEW r \in Request, PollMisses(r) PROVE DurableInv'
    BY <2>11, <2>a, <2>b DEF PollMisses, apiVars, cellVars
  <2>12. ASSUME NEW r \in Request, Wake(r) PROVE DurableInv'
    BY <2>12, <2>a DEF Wake, apiVars, cellVars
  <2>13. ASSUME NEW r \in Request, ClientLeaves(r) PROVE DurableInv'
    BY <2>13, <2>a DEF ClientLeaves, apiVars
  <2>14. ASSUME NEW r \in Request, ApiRegisters(r) PROVE DurableInv'
    BY <2>14 DEF ApiRegisters, ApiTypeOK, Ready, reqVars, cellVars, brokerVars
  <2>15. ASSUME NEW r \in Request, BrokerStores(r) PROVE DurableInv'
    BY <2>15 DEF BrokerStores, Ready, reqVars, cellVars, apiVars
  <2>16. ASSUME NEW r \in Request, WorkerResponds(r) PROVE DurableInv'
    <3>1. /\ responses'[r] # NoResponse
          /\ \A q \in Request : q # r => responses'[q] = responses[q]
      BY <2>16, WorkerType DEF WorkerResponds, BrokerTypeOK
    <3>2. signals \ {r} \subseteq signals' /\ signals' \subseteq signals
      BY <2>16 DEF WorkerResponds
    <3>3. UNCHANGED <<pc, registry, connections, publishing, streams>>
      BY <2>16 DEF WorkerResponds, reqVars, cellVars, apiVars
    <3>4. QED
      BY <3>1, <3>2, <3>3 DEF Ready
  <2>17. ASSUME BrokerRestarts PROVE DurableInv'
    <3>1. UNCHANGED <<pc, registry, connections, publishing, streams>>
      BY <2>17 DEF BrokerRestarts, reqVars, cellVars, apiVars
    <3>2. streams.steady /\ Ready => UNCHANGED <<signals, responses>>
      BY <2>17 DEF BrokerRestarts, ValidateRequestStream, ValidateResponseStream
    <3>3. signals' \subseteq signals
      BY <2>17 DEF BrokerRestarts
    <3>4. QED
      BY <3>1, <3>2, <3>3 DEF Ready
  <2>17a. ASSUME NEW r \in Request, BrokerDiscards(r) PROVE DurableInv'
    BY <2>17a DEF BrokerDiscards, Ready, reqVars, cellVars, apiVars
  <2>17b. ASSUME StreamsReconfigured PROVE DurableInv'
    <3>1. ~ streams'.steady
      BY <2>17b DEF StreamsReconfigured
    <3>2. UNCHANGED <<pc, registry, connections, publishing, signals, responses>>
      BY <2>17b DEF StreamsReconfigured, reqVars, cellVars, apiVars
    <3>3. QED
      BY <3>1, <3>2 DEF Ready
  <2>18. ASSUME Tick PROVE DurableInv'
    BY <2>18, <2>c DEF Tick, cellVars, apiVars
  <2>19. CASE UNCHANGED vars
    BY <2>19, <2>c DEF vars, reqVars, cellVars, apiVars
  <2>20. QED
    BY <2>1, <2>2, <2>3, <2>4, <2>5, <2>6, <2>7, <2>8, <2>9, <2>10, <2>11, <2>12, <2>13,
       <2>14, <2>15, <2>16, <2>17, <2>17a, <2>17b, <2>18, <2>19
       DEF Next, HandlerStep, Idle
<1>3. QED
  BY <1>1, <1>2, TypeCorrect, PTL DEF Spec

\* No worker is ever signalled an operation the API has not registered.
THEOREM OnlyRegisteredSignals == Spec => []SignalIsRegistered
<1>1. DurableInv => SignalIsRegistered
  BY DEF DurableInv
<1>2. QED
  BY <1>1, DurableInvariant, PTL

\* Whatever the operator provisioned and however often the broker restarts, an
\* operation that is polled for is stored, as a pending signal or as a response,
\* unless the streams were changed after they were validated or reach a limit.
THEOREM PolledIsDurable == Spec => []DurableOperation
<1>1. DurableInv => DurableOperation
  BY DEF DurableInv
<1>2. QED
  BY <1>1, DurableInvariant, PTL

\* A response that a request polls for is never taken away from steady streams.
THEOREM ResponseStays == Spec => ResponseSurvives
<1>1. TypeOK /\ DurableInv /\ [Next]_vars =>
        [streams.steady => \A r \in Request : pc[r] \in Polling /\ responses[r] # NoResponse
           => responses'[r] # NoResponse]_vars
  <2> SUFFICES ASSUME BrokerTypeOK, DurableInv, Next, streams.steady, NEW r \in Request,
                      pc[r] \in Polling, responses[r] # NoResponse
               PROVE  responses'[r] # NoResponse
    BY DEF TypeOK
  <2>1. ASSUME NEW q \in Request, WorkerResponds(q) PROVE responses'[r] # NoResponse
    BY <2>1, WorkerType DEF WorkerResponds, BrokerTypeOK
  <2>2. ASSUME BrokerRestarts PROVE responses'[r] # NoResponse
    BY <2>2 DEF BrokerRestarts, DurableInv, Signalled, ValidateResponseStream
  <2>3. CASE UNCHANGED responses
    BY <2>3
  <2>4. ASSUME NEW q \in Request, HandlerStep(q) PROVE UNCHANGED responses
    BY <2>4 DEF HandlerStep, Begin, RegisterAccepted, RegisterFails, InitSucceeds,
       InitShared, InitFails, SendSignal, SignalFails, SignalAcknowledged, PollFinds,
       PollMisses, Wake, brokerVars
  <2>5. QED
    BY <2>1, <2>2, <2>3, <2>4
       DEF Next, ClientLeaves, ApiRegisters, BrokerStores, BrokerDiscards,
           StreamsReconfigured, Tick, Idle, vars, brokerVars
<1>2. QED
  BY <1>1, TypeCorrect, DurableInvariant, PTL DEF Spec, ResponseSurvives

-----------------------------------------------------------------------------
\* Why there is one transport: whoever has the permit is initialising, and the
\* permit is closed with the first success, so that nobody has it again.
CellInv ==
  /\ Cell!Orderly
  /\ holder # NoRequest => pc[holder] = "initialising"
  /\ \A r \in Cell!Waiting : pc[r] = "initialising"
  /\ \A r \in Request : pc[r] = "initialising" => r = holder \/ r \in Cell!Waiting \/ Ready
  /\ Ready => holder = NoRequest
  /\ OneTransport

\* Asking to initialise the cell, ...
LEMMA LockKeeps ==
  ASSUME ReqTypeOK, CellTypeOK, CellInv, NEW r \in Request, pc[r] = "registering",
         ~ Ready, Goto(r, "initialising"), Cell!Lock(r), UNCHANGED connections
  PROVE  CellInv'
<1>1. pc' = [pc EXCEPT ![r] = "initialising"] /\ pc \in [Request -> Place]
  BY DEF Goto, ReqTypeOK
<1>2. holder # r /\ r \notin Cell!Waiting /\ NoRequest \notin Request
  BY IdentityAssumption DEF CellInv
<1>3. /\ Cell!Orderly'
      /\ \/ holder = NoRequest /\ holder' = r /\ Cell!Waiting' = Cell!Waiting
         \/ holder' = holder /\ holder # NoRequest /\ Cell!Waiting' = Cell!Waiting \cup {r}
  BY <1>2, Cell!LockStep DEF CellInv, CellTypeOK
<1>4. Cell!Waiting \subseteq Request /\ holder \in Request \cup {NoRequest}
  BY Cell!WaitingType DEF CellTypeOK, Cell!TypeOK
<1>5. QED
  BY <1>1, <1>2, <1>3, <1>4 DEF CellInv, Ready, OneTransport

\* ... passing the permit on, ...
LEMMA UnlockKeeps ==
  ASSUME ReqTypeOK, CellTypeOK, CellInv, NEW r \in Request, holder = r,
         NEW place, place # "initialising", Goto(r, place), Cell!Unlock,
         UNCHANGED connections
  PROVE  CellInv'
<1>1. pc' = [pc EXCEPT ![r] = place] /\ pc \in [Request -> Place]
  BY DEF Goto, ReqTypeOK
<1>2. /\ Cell!Orderly'
      /\ \/ holder' = NoRequest /\ Cell!Waiting' = {}
         \/ holder' \in Cell!Waiting /\ Cell!Waiting' = Cell!Waiting \ {holder'}
  BY Cell!UnlockStep, IdentityAssumption DEF CellInv, CellTypeOK
<1>3. Cell!Waiting \subseteq Request /\ r \notin Cell!Waiting /\ r # NoRequest
  BY Cell!WaitingType, IdentityAssumption DEF CellInv, CellTypeOK, Cell!Orderly
<1>4. ~ Ready
  BY <1>3 DEF CellInv
<1>5. holder' = NoRequest => Cell!Waiting = {}
  <2>1. waiters # <<>> => holder' \in Request
    BY HeadTailProperties DEF Cell!Unlock, CellTypeOK, Cell!TypeOK
  <2>2. waiters = <<>> => Cell!Waiting = {}
    BY DEF Cell!Waiting
  <2>3. QED
    BY <2>1, <2>2, IdentityAssumption
<1>6. QED
  BY <1>1, <1>2, <1>3, <1>4, <1>5 DEF CellInv, Ready, OneTransport

\* ... giving up the wait for it, ...
LEMMA LeaveQueueKeeps ==
  ASSUME ReqTypeOK, CellTypeOK, CellInv, NEW r \in Request, holder # r,
         Goto(r, "dropped"), Cell!LeaveQueue(r), UNCHANGED connections
  PROVE  CellInv'
<1>1. pc' = [pc EXCEPT ![r] = "dropped"] /\ pc \in [Request -> Place]
  BY DEF Goto, ReqTypeOK
<1>2. Cell!Orderly' /\ holder' = holder /\ Cell!Waiting' = Cell!Waiting \ {r}
  BY Cell!LeaveStep DEF CellInv, CellTypeOK
<1>3. Cell!Waiting \subseteq Request /\ holder \in Request \cup {NoRequest}
  BY Cell!WaitingType DEF CellTypeOK, Cell!TypeOK
<1>4. QED
  BY <1>1, <1>2, <1>3 DEF CellInv, Ready, OneTransport

\* ... and moving on with nothing to do with it keep CellInv.
LEMMA MoveKeeps ==
  ASSUME ReqTypeOK, CellTypeOK, CellInv, NEW r \in Request,
         holder # r, r \notin Cell!Waiting,
         NEW place, place # "initialising", Goto(r, place), UNCHANGED cellVars
  PROVE  CellInv'
<1>1. pc' = [pc EXCEPT ![r] = place] /\ pc \in [Request -> Place]
  BY DEF Goto, ReqTypeOK
<1>2. /\ holder' = holder /\ Cell!Waiting' = Cell!Waiting /\ connections' = connections
      /\ Cell!Orderly' = Cell!Orderly
  BY DEF cellVars, Cell!Waiting, Cell!Orderly
<1>3. Cell!Waiting \subseteq Request /\ holder \in Request \cup {NoRequest}
  BY Cell!WaitingType DEF CellTypeOK, Cell!TypeOK
<1>4. QED
  BY <1>1, <1>2, <1>3 DEF CellInv, Ready, OneTransport

LEMMA CellInvariant == Spec => []CellInv
<1>1. Init => CellInv
  BY DEF Init, CellInv, Ready, OneTransport, Cell!Init, Cell!Orderly, Cell!Waiting
<1>2. TypeOK /\ CellInv /\ [Next]_vars => CellInv'
  <2> SUFFICES ASSUME ReqTypeOK, CellTypeOK, CellInv, [Next]_vars
               PROVE  CellInv'
    BY DEF TypeOK
  \* Whoever has the permit or waits for it is initialising, and no longer waits
  \* once the cell is filled.
  <2>a. ASSUME NEW r \in Request, pc[r] # "initialising" \/ Ready
        PROVE  holder # r /\ r \notin Cell!Waiting
    BY <2>a, Cell!WaitingType, IdentityAssumption
       DEF CellInv, CellTypeOK, Cell!Orderly, Cell!Waiting
  <2>b. ASSUME UNCHANGED <<pc, cellVars>> PROVE CellInv'
    BY <2>b DEF cellVars, CellInv, Ready, OneTransport, Cell!Waiting, Cell!Orderly
  <2>c. ASSUME NEW r \in Request, NEW res, Return(r, res), pc[r] # "initialising",
               UNCHANGED cellVars
        PROVE  CellInv'
    BY <2>a, <2>c, MoveKeeps DEF Return
  <2>1. ASSUME NEW r \in Request, Begin(r) PROVE CellInv'
    BY <2>1, <2>a, MoveKeeps DEF Begin
  <2>2. ASSUME NEW r \in Request, RegisterAccepted(r) PROVE CellInv'
    <3>1. CASE Ready /\ Goto(r, "signalling") /\ UNCHANGED <<holder, waiters>>
      BY <2>2, <2>a, <3>1, MoveKeeps DEF RegisterAccepted, cellVars
    <3>2. CASE ~ Ready /\ Goto(r, "initialising") /\ Cell!Lock(r)
      BY <2>2, <3>2, LockKeeps DEF RegisterAccepted
    <3>3. QED
      BY <2>2, <3>1, <3>2 DEF RegisterAccepted, EnterCell
  <2>3. ASSUME NEW r \in Request, RegisterFails(r) PROVE CellInv'
    BY <2>3, <2>c DEF RegisterFails
  <2>4. ASSUME NEW r \in Request, InitSucceeds(r) PROVE CellInv'
    <3>1. ~ Ready /\ connections' = {r}
      BY <2>4, IdentityAssumption DEF InitSucceeds, CellInv, Ready
    <3>2. Cell!Waiting' = {}
      BY <2>4 DEF InitSucceeds, Cell!Waiting
    <3>3. Cell!Orderly' /\ holder' = NoRequest
      BY <2>4, <3>2 DEF InitSucceeds, Cell!Orderly
    <3>4. QED
      BY <3>1, <3>2, <3>3 DEF CellInv, Ready, OneTransport
  <2>5. ASSUME NEW r \in Request, InitShared(r) PROVE CellInv'
    BY <2>5, <2>a, MoveKeeps DEF InitShared
  <2>6. ASSUME NEW r \in Request, InitFails(r) PROVE CellInv'
    BY <2>6, UnlockKeeps DEF InitFails, Return
  <2>7. ASSUME NEW r \in Request, SendSignal(r) PROVE CellInv'
    BY <2>7, <2>a, MoveKeeps DEF SendSignal
  <2>8. ASSUME NEW r \in Request, SignalFails(r) PROVE CellInv'
    BY <2>8, <2>c DEF SignalFails
  <2>9. ASSUME NEW r \in Request, SignalAcknowledged(r) PROVE CellInv'
    BY <2>9, <2>a, MoveKeeps DEF SignalAcknowledged
  <2>10. ASSUME NEW r \in Request, PollFinds(r) PROVE CellInv'
    BY <2>10, <2>c DEF PollFinds
  <2>11. ASSUME NEW r \in Request, PollMisses(r) PROVE CellInv'
    BY <2>11, <2>a, <2>c, MoveKeeps DEF PollMisses
  <2>12. ASSUME NEW r \in Request, Wake(r) PROVE CellInv'
    BY <2>12, <2>a, MoveKeeps DEF Wake
  <2>13. ASSUME NEW r \in Request, ClientLeaves(r) PROVE CellInv'
    <3>1. CASE pc[r] = "initialising" /\ holder = r /\ Cell!Unlock
      BY <2>13, <3>1, UnlockKeeps DEF ClientLeaves
    <3>2. CASE pc[r] = "initialising" /\ holder # r /\ Cell!LeaveQueue(r)
      BY <2>13, <3>2, LeaveQueueKeeps DEF ClientLeaves
    <3>3. CASE /\ pc[r] = "initialising" => holder # r /\ r \notin Cell!Waiting
               /\ UNCHANGED <<holder, waiters>>
      BY <2>13, <2>a, <3>3, MoveKeeps DEF ClientLeaves, cellVars
    <3>4. QED
      BY <2>13, <3>1, <3>2, <3>3 DEF ClientLeaves
  <2>14. ASSUME NEW r \in Request, ApiRegisters(r) PROVE CellInv'
    BY <2>14, <2>b DEF ApiRegisters, reqVars
  <2>15. ASSUME NEW r \in Request, BrokerStores(r) PROVE CellInv'
    BY <2>15, <2>b DEF BrokerStores, reqVars
  <2>16. ASSUME NEW r \in Request, WorkerResponds(r) PROVE CellInv'
    BY <2>16, <2>b DEF WorkerResponds, reqVars
  <2>17. ASSUME BrokerRestarts PROVE CellInv'
    BY <2>17, <2>b DEF BrokerRestarts, reqVars
  <2>17a. ASSUME NEW r \in Request, BrokerDiscards(r) PROVE CellInv'
    BY <2>17a, <2>b DEF BrokerDiscards, reqVars
  <2>17b. ASSUME StreamsReconfigured PROVE CellInv'
    BY <2>17b, <2>b DEF StreamsReconfigured, reqVars
  <2>18. ASSUME Tick PROVE CellInv'
    BY <2>18, <2>b DEF Tick
  <2>19. CASE UNCHANGED vars
    BY <2>19, <2>b DEF vars, reqVars
  <2>20. QED
    BY <2>1, <2>2, <2>3, <2>4, <2>5, <2>6, <2>7, <2>8, <2>9, <2>10, <2>11, <2>12, <2>13,
       <2>14, <2>15, <2>16, <2>17, <2>17a, <2>17b, <2>18, <2>19
       DEF Next, HandlerStep, Idle
<1>3. QED
  BY <1>1, <1>2, TypeCorrect, PTL DEF Spec

\* The process opens one NATS transport at most, for any number of requests that
\* race for it, fail or leave.
THEOREM SingleTransport == Spec => []OneTransport
<1>1. CellInv => OneTransport
  BY DEF CellInv
<1>2. QED
  BY <1>1, CellInvariant, PTL

\* A failed or dropped initialiser never leaves the others waiting for it.
THEOREM InitPassedOn == Spec => []InitIsPassedOn
<1>1. CellInv => InitIsPassedOn
  BY DEF CellInv, InitIsPassedOn, Cell!Orderly
<1>2. QED
  BY <1>1, CellInvariant, PTL

-----------------------------------------------------------------------------
\* Why the mode keeps the promise of the service: a response with alarms, on whatever
\* subject it is, has those of the operation it names, which the API has registered;
\* the decoder refuses it if that is not the one the request waits for.
AuthenticResponses ==
  \A r \in Request : responses[r].body \in {"ok", "okWithError"} =>
    /\ responses[r].op \in Request
    /\ registry[responses[r].op] = "registered"
    /\ responses[r].alarms = Bearer[responses[r].op]

LEMMA ResponsesInvariant == Spec => []AuthenticResponses
<1>1. Init => AuthenticResponses
  BY DEF Init, AuthenticResponses, NoResponse
<1>2. TypeOK /\ AuthenticResponses /\ [Next]_vars => AuthenticResponses'
  <2> SUFFICES ASSUME ApiTypeOK, BrokerTypeOK, AuthenticResponses, [Next]_vars
               PROVE  AuthenticResponses'
    BY DEF TypeOK
  <2>1. ASSUME NEW r \in Request, ApiRegisters(r) PROVE AuthenticResponses'
    BY <2>1 DEF ApiRegisters, ApiTypeOK, brokerVars, AuthenticResponses
  <2>2. ASSUME NEW r \in Request, WorkerResponds(r) PROVE AuthenticResponses'
    BY <2>2 DEF WorkerResponds, ResponseTo, BrokerTypeOK, apiVars, AuthenticResponses
  <2>3. ASSUME BrokerRestarts PROVE AuthenticResponses'
    BY <2>3 DEF BrokerRestarts, BrokerTypeOK, NoResponse, apiVars, AuthenticResponses
  <2>3a. ASSUME NEW r \in Request, BrokerDiscards(r) PROVE AuthenticResponses'
    BY <2>3a DEF BrokerDiscards, BrokerTypeOK, NoResponse, apiVars, AuthenticResponses
  <2>4. CASE UNCHANGED <<registry, responses>>
    BY <2>4 DEF AuthenticResponses
  <2>5. ASSUME NEW r \in Request, HandlerStep(r) PROVE UNCHANGED <<registry, responses>>
    BY <2>5 DEF HandlerStep, Begin, RegisterAccepted, RegisterFails, InitSucceeds,
       InitShared, InitFails, SendSignal, SignalFails, SignalAcknowledged, PollFinds,
       PollMisses, Wake, apiVars, brokerVars
  <2>6. QED
    BY <2>1, <2>2, <2>3, <2>3a, <2>4, <2>5
       DEF Next, ClientLeaves, BrokerStores, StreamsReconfigured, Tick, Idle, vars, apiVars,
           brokerVars
<1>3. QED
  BY <1>1, <1>2, TypeCorrect, PTL DEF Spec

\* What fetch_async returns: the alarms of a registered operation, or an error.
LEMMA ReturnsOwn ==
  ASSUME ReqTypeOK, BrokerTypeOK, AuthenticResponses, NEW r \in Request, HandlerStep(r),
         pc'[r] = "done"
  PROVE  \/ result'[r] = Served(Bearer[r]) /\ registry[r] = "registered"
         \/ \E kind \in {"Unauthorized", "ApiUnavailable", "Contract"} : result'[r] = Failed(kind)
<1>1. /\ \A place : Goto(r, place) => place = "done"
      /\ \A res : Return(r, res) => result'[r] = res
  BY DEF ReqTypeOK, Goto, Return
<1>2. CASE PollFinds(r)
  <2>1. responses[r] \in Response
    BY DEF BrokerTypeOK
  <2>2. result'[r] = DecodeServiceResponse(responses[r], r)
    BY <1>1, <1>2 DEF PollFinds
  <2>3. CASE DecodeServiceResponse(responses[r], r).kind = "ok"
    BY <2>1, <2>2, <2>3, Decoded DEF Served, Failed, AuthenticResponses
  <2>4. CASE DecodeServiceResponse(responses[r], r).kind # "ok"
    BY <2>1, <2>2, <2>4, Decoded DEF Served, Failed
  <2>5. QED
    BY <2>3, <2>4
<1>3. CASE RegisterFails(r) \/ InitFails(r) \/ SignalFails(r) \/ PollMisses(r)
  BY <1>1, <1>3 DEF RegisterFails, InitFails, SignalFails, PollMisses
<1>4. CASE Begin(r) \/ RegisterAccepted(r) \/ InitSucceeds(r) \/ InitShared(r) \/ SendSignal(r)
           \/ SignalAcknowledged(r) \/ Wake(r)
  BY <1>1, <1>4 DEF Begin, RegisterAccepted, EnterCell, InitSucceeds, InitShared, SendSignal,
     SignalAcknowledged, Wake
<1>5. QED
  BY <1>2, <1>3, <1>4 DEF HandlerStep

\* How the phase of a request follows its place in fetch_async.
LEMMA PhaseStays ==
  ASSUME ReqTypeOK, NEW r \in Request, NEW place,
         pc[r] \notin Finished, place \notin Finished, Goto(r, place)
  PROVE  Phase' = Phase
BY DEF ReqTypeOK, Goto, Phase, Finished

LEMMA PhaseGone ==
  ASSUME ReqTypeOK, NEW r \in Request, pc[r] \notin Finished, Goto(r, "dropped")
  PROVE  Phase[r] = "pending" /\ Phase' = [Phase EXCEPT ![r] = "gone"]
BY DEF ReqTypeOK, Goto, Phase, Finished

\* A request that returns gives the abstract answer.
LEMMA ReturnAnswers ==
  ASSUME ReqTypeOK, NEW r \in Request, pc[r] \notin Finished, NEW res,
         Return(r, res), UNCHANGED registry,
         \/ res = Served(Bearer[r]) /\ registry[r] = "registered"
         \/ \E kind \in {"Unauthorized", "ApiUnavailable", "Contract"} : res = Failed(kind)
  PROVE  Service!Next
<1>1. Phase[r] = "pending" /\ Phase' = [Phase EXCEPT ![r] = "answered"]
  BY DEF Return, ReqTypeOK, Goto, Phase, Finished
<1>2. UNCHANGED Authorised /\ (registry[r] = "registered" => r \in Authorised)
  BY DEF Authorised
<1>3. Service!Answer(r)
  BY <1>1, <1>2 DEF Return, Service!Answer, Service!Served, Service!Failed, Served, Failed
<1>4. QED
  BY <1>3 DEF Service!Next

\* The JetStream mode keeps the promise every interaction mode makes to the
\* renderers, for any number of concurrent requests and any restarts.
THEOREM Implements == Spec => ServiceSpec
<1>1. Init => Service!Init
  BY DEF Init, Service!Init, Phase, Authorised, Finished, NoResult, Service!NoResult
<1>2. TypeOK /\ AuthenticResponses /\ [Next]_vars => [Service!Next]_(Service!vars)
  <2> DEFINE Stutter == UNCHANGED <<Phase, Authorised, result>>
  <2> SUFFICES ASSUME ReqTypeOK, ApiTypeOK, BrokerTypeOK, AuthenticResponses, [Next]_vars
               PROVE  Service!Next \/ Stutter
    BY DEF TypeOK, Service!vars
  <2>a. ASSUME NEW r \in Request, NEW place, pc[r] \notin Finished,
               place \notin Finished, Goto(r, place), UNCHANGED <<result, registry>>
        PROVE  Stutter
    BY <2>a, PhaseStays DEF Authorised
  <2>b. ASSUME NEW r \in Request, pc[r] \notin Finished, UNCHANGED registry,
               NEW kind \in {"Unauthorized", "ApiUnavailable", "Contract"},
               Return(r, Failed(kind))
        PROVE  Service!Next
    BY <2>b, ReturnAnswers
  <2>c. ASSUME UNCHANGED <<pc, result, registry>> PROVE Stutter
    BY <2>c DEF Phase, Authorised
  <2> HIDE DEF Stutter
  <2> USE DEF Finished, Polling
  <2>1. ASSUME NEW r \in Request, Begin(r) PROVE Stutter
    BY <2>1, <2>a DEF Begin
  <2>2. ASSUME NEW r \in Request, RegisterAccepted(r) PROVE Stutter
    BY <2>2, <2>a DEF RegisterAccepted, EnterCell, apiVars
  <2>3. ASSUME NEW r \in Request, RegisterFails(r) PROVE Service!Next
    BY <2>3, <2>b DEF RegisterFails, apiVars
  <2>4. ASSUME NEW r \in Request, InitSucceeds(r) PROVE Stutter
    BY <2>4, <2>a DEF InitSucceeds, apiVars
  <2>5. ASSUME NEW r \in Request, InitShared(r) PROVE Stutter
    BY <2>5, <2>a DEF InitShared, apiVars
  <2>6. ASSUME NEW r \in Request, InitFails(r) PROVE Service!Next
    BY <2>6, <2>b DEF InitFails, apiVars
  <2>7. ASSUME NEW r \in Request, SendSignal(r) PROVE Stutter
    BY <2>7, <2>a DEF SendSignal, apiVars
  <2>8. ASSUME NEW r \in Request, SignalFails(r) PROVE Service!Next
    BY <2>8, <2>b DEF SignalFails, apiVars
  <2>9. ASSUME NEW r \in Request, SignalAcknowledged(r) PROVE Stutter
    BY <2>9, <2>a DEF SignalAcknowledged, apiVars
  <2>10. ASSUME NEW r \in Request, PollFinds(r) PROVE Service!Next
    <3> DEFINE res == DecodeServiceResponse(responses[r], r)
    <3>1. pc[r] \notin Finished /\ UNCHANGED registry /\ Return(r, res)
      BY <2>10 DEF PollFinds, apiVars
    <3>2. responses[r] \in Response
      BY DEF BrokerTypeOK
    <3>3. CASE res.kind = "ok"
      <4>1. responses[r].body = "ok" /\ res = Served(responses[r].alarms)
        BY <3>2, <3>3, Decoded DEF Served, Failed
      <4>2. res = Served(Bearer[r]) /\ registry[r] = "registered"
        BY <3>2, <3>3, <4>1, Decoded DEF AuthenticResponses, Failed
      <4>3. QED
        BY <3>1, <4>2, ReturnAnswers
    <3>4. CASE res.kind # "ok"
      BY <3>1, <3>2, <3>4, Decoded, ReturnAnswers DEF Served, Failed
    <3>5. QED
      BY <3>3, <3>4
  <2>11. ASSUME NEW r \in Request, PollMisses(r) PROVE Service!Next \/ Stutter
    BY <2>11, <2>a, <2>b DEF PollMisses, apiVars
  <2>12. ASSUME NEW r \in Request, Wake(r) PROVE Stutter
    BY <2>12, <2>a DEF Wake, apiVars
  <2>13. ASSUME NEW r \in Request, ClientLeaves(r) PROVE Service!Next
    <3>1. pc[r] \notin Finished /\ Goto(r, "dropped") /\ UNCHANGED <<result, registry>>
      BY <2>13 DEF ClientLeaves, apiVars
    <3>2. Service!GoAway(r)
      BY <3>1, PhaseGone DEF Service!GoAway, Authorised
    <3>3. QED
      BY <3>2 DEF Service!Next
  <2>14. ASSUME NEW r \in Request, ApiRegisters(r) PROVE Service!Next \/ Stutter
    <3>1. UNCHANGED <<pc, result, Phase>>
      BY <2>14 DEF ApiRegisters, reqVars, Phase
    <3>2. Authorised' = Authorised \/ Authorised' = Authorised \cup {r}
      BY <2>14 DEF ApiRegisters, ApiTypeOK, Authorised
    <3>3. CASE Authorised' = Authorised
      BY <3>1, <3>3 DEF Stutter
    <3>4. CASE Authorised' = Authorised \cup {r}
      BY <3>1, <3>4 DEF Service!Next, Service!Authorise
    <3>5. QED
      BY <3>2, <3>3, <3>4
  <2>15. ASSUME NEW r \in Request, BrokerStores(r) PROVE Stutter
    BY <2>15, <2>c DEF BrokerStores, reqVars, apiVars
  <2>16. ASSUME NEW r \in Request, WorkerResponds(r) PROVE Stutter
    BY <2>16, <2>c DEF WorkerResponds, reqVars, apiVars
  <2>17. ASSUME BrokerRestarts PROVE Stutter
    BY <2>17, <2>c DEF BrokerRestarts, reqVars, apiVars
  <2>17a. ASSUME NEW r \in Request, BrokerDiscards(r) PROVE Stutter
    BY <2>17a, <2>c DEF BrokerDiscards, reqVars, apiVars
  <2>17b. ASSUME StreamsReconfigured PROVE Stutter
    BY <2>17b, <2>c DEF StreamsReconfigured, reqVars, apiVars
  <2>18. ASSUME Tick PROVE Stutter
    BY <2>18, <2>c DEF Tick, apiVars
  <2>19. CASE UNCHANGED vars
    BY <2>19, <2>c DEF vars, reqVars, apiVars
  <2>20. QED
    BY <2>1, <2>2, <2>3, <2>4, <2>5, <2>6, <2>7, <2>8, <2>9, <2>10, <2>11, <2>12, <2>13,
       <2>14, <2>15, <2>16, <2>17, <2>17a, <2>17b, <2>18, <2>19
       DEF Next, HandlerStep, Idle
<1>3. QED
  BY <1>1, <1>2, TypeCorrect, ResponsesInvariant, PTL DEF Spec, ServiceSpec, Service!Spec

-----------------------------------------------------------------------------
\* Why the poll is bounded: a sleep starts before the deadline, and the get behind it
\* less than a sleep after it.
TimeInv ==
  \A r \in Request :
    /\ pc[r] = "getting" => elapsed[r] + timer[r] < PollBound
    /\ pc[r] = "sleeping" => elapsed[r] + timer[r] < AsyncTimeout + SleepTime
    /\ pc[r] \notin Polling \cup Finished => elapsed[r] = 0
    /\ elapsed[r] < PollBound

LEMMA TimeInvariant == Spec => []TimeInv
<1> USE AsyncAssumption DEF PollBound
<1>1. Init => TimeInv
  <2> SUFFICES ASSUME Init, NEW r \in Request
               PROVE  pc[r] = "new" /\ elapsed[r] = 0 /\ 0 < PollBound
    BY DEF TimeInv, Polling
  <2>1. QED
    BY DEF Init
<1>2. TypeOK /\ TimeInv /\ [Next]_vars => TimeInv'
  <2> SUFFICES ASSUME ReqTypeOK, TimeInv, [Next]_vars
               PROVE  TimeInv'
    BY DEF TypeOK
  <2> USE DEF Polling, Finished
  <2>a. ASSUME NEW r \in Request, pc[r] \notin Polling \cup Finished,
               NEW place, place \notin Polling, Goto(r, place), UNCHANGED <<elapsed, timer>>
        PROVE  TimeInv'
    BY <2>a DEF TimeInv, ReqTypeOK, Goto
  <2>b. ASSUME NEW r \in Request, NEW place \in Finished, Goto(r, place),
               UNCHANGED <<elapsed, timer>>
        PROVE  TimeInv'
    BY <2>b DEF TimeInv, ReqTypeOK, Goto
  <2>c. ASSUME UNCHANGED <<pc, elapsed, timer>> PROVE TimeInv'
    BY <2>c DEF TimeInv
  <2>1. ASSUME NEW r \in Request, Begin(r) PROVE TimeInv'
    BY <2>1, <2>a DEF Begin
  <2>2. ASSUME NEW r \in Request, RegisterAccepted(r) PROVE TimeInv'
    BY <2>2, <2>a DEF RegisterAccepted, EnterCell
  <2>3. ASSUME NEW r \in Request, RegisterFails(r) PROVE TimeInv'
    BY <2>3, <2>b DEF RegisterFails, Return
  <2>4. ASSUME NEW r \in Request, InitSucceeds(r) PROVE TimeInv'
    BY <2>4, <2>a DEF InitSucceeds
  <2>5. ASSUME NEW r \in Request, InitShared(r) PROVE TimeInv'
    BY <2>5, <2>a DEF InitShared
  <2>6. ASSUME NEW r \in Request, InitFails(r) PROVE TimeInv'
    BY <2>6, <2>b DEF InitFails, Return
  <2>7. ASSUME NEW r \in Request, SendSignal(r) PROVE TimeInv'
    BY <2>7, <2>a DEF SendSignal
  <2>8. ASSUME NEW r \in Request, SignalFails(r) PROVE TimeInv'
    BY <2>8, <2>b DEF SignalFails, Return
  <2>9. ASSUME NEW r \in Request, SignalAcknowledged(r) PROVE TimeInv'
    BY <2>9 DEF SignalAcknowledged, TimeInv, ReqTypeOK, Goto, Wait
  <2>10. ASSUME NEW r \in Request, PollFinds(r) PROVE TimeInv'
    BY <2>10, <2>b DEF PollFinds, Return
  <2>11. ASSUME NEW r \in Request, PollMisses(r) PROVE TimeInv'
    <3>1. CASE Return(r, Failed("ApiUnavailable")) /\ UNCHANGED timer
      BY <2>11, <2>b, <3>1 DEF PollMisses, Return
    <3>2. CASE elapsed[r] < AsyncTimeout /\ Goto(r, "sleeping") /\ Wait(r, SleepTime)
      BY <2>11, <3>2 DEF PollMisses, TimeInv, ReqTypeOK, Goto, Wait
    <3>3. QED
      BY <2>11, <3>1, <3>2 DEF PollMisses
  <2>12. ASSUME NEW r \in Request, Wake(r) PROVE TimeInv'
    BY <2>12 DEF Wake, TimeInv, ReqTypeOK, Goto, Wait
  <2>13. ASSUME NEW r \in Request, ClientLeaves(r) PROVE TimeInv'
    BY <2>13, <2>b DEF ClientLeaves
  <2>14. ASSUME NEW r \in Request, ApiRegisters(r) PROVE TimeInv'
    BY <2>14, <2>c DEF ApiRegisters, reqVars
  <2>15. ASSUME NEW r \in Request, BrokerStores(r) PROVE TimeInv'
    BY <2>15, <2>c DEF BrokerStores, reqVars
  <2>16. ASSUME NEW r \in Request, WorkerResponds(r) PROVE TimeInv'
    BY <2>16, <2>c DEF WorkerResponds, reqVars
  <2>17. ASSUME BrokerRestarts PROVE TimeInv'
    BY <2>17, <2>c DEF BrokerRestarts, reqVars
  <2>17a. ASSUME NEW r \in Request, BrokerDiscards(r) PROVE TimeInv'
    BY <2>17a, <2>c DEF BrokerDiscards, reqVars
  <2>17b. ASSUME StreamsReconfigured PROVE TimeInv'
    BY <2>17b, <2>c DEF StreamsReconfigured, reqVars
  <2>18. ASSUME Tick PROVE TimeInv'
    <3>1. ASSUME NEW r \in Request, pc[r] \in Polling
          PROVE  /\ timer[r] > 0 /\ pc'[r] = pc[r]
                 /\ elapsed'[r] = elapsed[r] + 1 /\ timer'[r] = timer[r] - 1
      BY <2>18, <3>1 DEF Tick
    <3>2. ASSUME NEW r \in Request, pc[r] \notin Polling
          PROVE  pc'[r] = pc[r] /\ elapsed'[r] = elapsed[r]
      BY <2>18, <3>2 DEF Tick
    <3>3. QED
      BY <3>1, <3>2 DEF TimeInv, ReqTypeOK
  <2>19. CASE UNCHANGED vars
    BY <2>19, <2>c DEF vars, reqVars
  <2>20. QED
    BY <2>1, <2>2, <2>3, <2>4, <2>5, <2>6, <2>7, <2>8, <2>9, <2>10, <2>11, <2>12, <2>13,
       <2>14, <2>15, <2>16, <2>17, <2>17a, <2>17b, <2>18, <2>19
       DEF Next, HandlerStep, Idle
<1>3. QED
  BY <1>1, <1>2, TypeCorrect, PTL DEF Spec

\* ASYNC_TIMEOUT is overrun by less than one sleep and one get, for every value of the
\* three.
THEOREM PollBounded == Spec => []PollIsBounded
<1>1. TimeInv => PollIsBounded
  BY DEF TimeInv, PollIsBounded
<1>2. QED
  BY <1>1, TimeInvariant, PTL

=============================================================================
