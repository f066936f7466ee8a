----------------------------- MODULE TlsChannel -----------------------------
(***************************************************************************)
(* The stateful_tls interaction mode of crates/common/src/lib.rs: every    *)
(* request of the process shares one TLS connection, kept in               *)
(* Runtime.tcp : Mutex<Option<TcpChannel>>, and exchanges one              *)
(* length-delimited frame on it while it holds the mutex.                  *)
(*                                                                         *)
(* One step of a request is what fetch_tcp does between two .await points; *)
(* at each of them axum may drop the future because the browser went away, *)
(* which releases the mutex and leaves the stream as it is.                *)
(***************************************************************************)
EXTENDS ServiceContract, Naturals, Sequences

CONSTANTS
  ApiBodies,   \* the bodies the API peer may answer with
  LongTokens   \* bearers whose request frame exceeds MAX_REQUEST_BYTES

ASSUME ApiAssumption ==
  /\ ApiBodies \subseteq Body
  /\ LongTokens \subseteq Token

VARIABLES
  pc,          \* where each request is in fetch_tcp
  attempt,     \* its retry counter: attempt in 0..2
  result,      \* what fetch_tcp returned
  emitted,     \* the "alarms.list" telemetry event it emitted, if any
  holder,      \* the request that owns the mutex
  waiters,     \* the FIFO of requests waiting for it
  channel,     \* Runtime.tcp is Some
  toApi,       \* frames written to the connection the API has not taken
  toWeb,       \* bytes the API wrote that nobody has read
  authorised   \* API side: operations whose bearer it has found active

reqVars  == <<pc, attempt, result, emitted>>
lockVars == <<holder, waiters>>
wireVars == <<channel, toApi, toWeb>>
vars     == <<reqVars, lockVars, wireVars, authorised>>

-----------------------------------------------------------------------------
\* The places a request can be in.  "locking" waits for the mutex guard;
\* "retry" is the head of the second loop iteration, the guard released.
\* "dropped" and "abandoned" are futures that were dropped, the latter in the
\* middle of tcp_exchange.
Exchanging == {"writing", "readLength", "readPayload"}
Awaiting   == {"locking", "connecting"} \cup Exchanging
Finished   == {"done", "dropped", "abandoned"}
Place      == {"new", "retry"} \cup Awaiting \cup Finished

\* Runtime.tcp is a tokio Mutex: its guard is granted in order of arrival.
Mutex == INSTANCE FairLock WITH Owner <- Request, NoOwner <- NoRequest

\* What travels on the connection: request frames, of which a dropped writer
\* may have sent only a part, and responses in the two pieces their readers
\* take them in.
Frame == [op : Request, whole : BOOLEAN]
Piece == [part : {"length", "payload"}, resp : Response]

ReqTypeOK ==
  /\ pc \in [Request -> Place]
  /\ attempt \in [Request -> {0, 1}]
  /\ result \in [Request -> Result]
  /\ emitted \in [Request -> {"none", "200", "503"}]

WireTypeOK ==
  /\ channel \in BOOLEAN
  /\ toApi \in Seq(Frame)
  /\ toWeb \in Seq(Piece)
  /\ authorised \subseteq Request

TypeOK == ReqTypeOK /\ Mutex!TypeOK /\ WireTypeOK

Init ==
  /\ pc = [r \in Request |-> "new"]
  /\ attempt = [r \in Request |-> 0]
  /\ result = [r \in Request |-> NoResult]
  /\ emitted = [r \in Request |-> "none"]
  /\ Mutex!Init
  /\ channel = FALSE
  /\ toApi = <<>>
  /\ toWeb = <<>>
  /\ authorised = {}

-----------------------------------------------------------------------------
Goto(r, place) == pc' = [pc EXCEPT ![r] = place]

Return(r, res) ==
  /\ Goto(r, "done")
  /\ result' = [result EXCEPT ![r] = res]

Emit(r, status) == emitted' = [emitted EXCEPT ![r] = status]

\* Dropping a TlsStream, or storing a fresh one: no byte of the old
\* connection can be read any more.
FreshWire == toApi' = <<>> /\ toWeb' = <<>>

-----------------------------------------------------------------------------
\* Mutant: the length of the frame is left to tcp_exchange to check.
BeginUnchecked(r) ==
  /\ pc[r] = "new"
  /\ Goto(r, "locking")
  /\ Mutex!Lock(r)
  /\ UNCHANGED <<attempt, result, emitted, wireVars, authorised>>

\* fetch_tcp up to its first lock(): a frame that is too long is refused.
Begin(r) ==
  /\ pc[r] = "new"
  /\ \/ /\ Bearer[r] \in LongTokens
        /\ Return(r, Failed("Contract"))
        /\ UNCHANGED lockVars
     \/ /\ Bearer[r] \notin LongTokens
        /\ Goto(r, "locking")
        /\ Mutex!Lock(r)
        /\ UNCHANGED result
  /\ UNCHANGED <<attempt, emitted, wireVars, authorised>>

\* The second iteration of the loop competes for the mutex again.
Relock(r) ==
  /\ pc[r] = "retry"
  /\ Goto(r, "locking")
  /\ Mutex!Lock(r)
  /\ UNCHANGED <<attempt, result, emitted, wireVars, authorised>>

\* The guard is granted: connect if nobody left a channel behind.
Acquired(r) ==
  /\ pc[r] = "locking"
  /\ holder = r
  /\ Goto(r, IF channel THEN "writing" ELSE "connecting")
  /\ UNCHANGED <<attempt, result, emitted, lockVars, wireVars, authorised>>

ConnectSucceeds(r) ==
  /\ pc[r] = "connecting"
  /\ Goto(r, "writing")
  /\ channel' = TRUE
  /\ FreshWire
  /\ UNCHANGED <<attempt, result, emitted, lockVars, authorised>>

\* Mutant: the failed connect leaves with the lock still held.
ConnectFailsHolding(r) ==
  /\ pc[r] = "connecting"
  /\ Return(r, Failed("ApiUnavailable"))
  /\ UNCHANGED <<attempt, emitted, lockVars, wireVars, authorised>>

\* connect_tcp().await? leaves fetch_tcp at once, on either attempt.
ConnectFails(r) ==
  /\ pc[r] = "connecting"
  /\ Return(r, Failed("ApiUnavailable"))
  /\ Mutex!Unlock
  /\ UNCHANGED <<attempt, emitted, wireVars, authorised>>

\* tcp_exchange looks at the length once more, and is Err if it is too long.
WriteFrame(r) ==
  /\ pc[r] = "writing"
  /\ Bearer[r] \notin LongTokens
  /\ Goto(r, "readLength")
  /\ toApi' = Append(toApi, [op |-> r, whole |-> TRUE])
  /\ UNCHANGED <<attempt, result, emitted, lockVars, channel, toWeb, authorised>>

\* Four bytes are read as a length.  Those of a payload read as one exceed
\* MAX_RESPONSE_BYTES, as does an oversized response: both leave only
\* ExchangeFails.
ReadLength(r) ==
  /\ pc[r] = "readLength"
  /\ toWeb # <<>>
  /\ Head(toWeb).part = "length"
  /\ Head(toWeb).resp.body # "oversized"
  /\ Goto(r, "readPayload")
  /\ toWeb' = Tail(toWeb)
  /\ UNCHANGED <<attempt, result, emitted, lockVars, channel, toApi, authorised>>

\* A payload is read and decoded; whatever the decoder says of it, the channel
\* stays where it is.
ReadPayload(r) ==
  /\ pc[r] = "readPayload"
  /\ toWeb # <<>>
  /\ toWeb' = Tail(toWeb)
  /\ LET res == DecodeServiceResponse(Head(toWeb).resp, r) IN
       /\ Return(r, res)
       /\ IF res.kind = "ok" THEN Emit(r, "200") ELSE UNCHANGED emitted
  /\ Mutex!Unlock
  /\ UNCHANGED <<attempt, channel, toApi, authorised>>

\* Mutant: the failed exchange leaves its stream for the next one.
ExchangeFailsKeepingStream(r) ==
  /\ pc[r] \in Exchanging
  /\ \/ /\ attempt[r] = 0
        /\ attempt' = [attempt EXCEPT ![r] = 1]
        /\ Goto(r, "retry")
        /\ UNCHANGED <<result, emitted>>
     \/ /\ attempt[r] = 1
        /\ Return(r, Failed("ApiUnavailable"))
        /\ Emit(r, "503")
        /\ UNCHANGED attempt
  /\ Mutex!Unlock
  /\ UNCHANGED <<wireVars, authorised>>

\* Mutant: one retry too many.
ExchangeFailsTwice(r) ==
  /\ pc[r] \in Exchanging
  /\ attempt[r] < 2
  /\ attempt' = [attempt EXCEPT ![r] = @ + 1]
  /\ Goto(r, "retry")
  /\ channel' = FALSE
  /\ FreshWire
  /\ Mutex!Unlock
  /\ UNCHANGED <<result, emitted, authorised>>

\* Mutant: the guard is taken before the loop over the two attempts.
ExchangeFailsHolding(r) ==
  /\ pc[r] \in Exchanging
  /\ channel' = FALSE
  /\ FreshWire
  /\ \/ /\ attempt[r] = 0
        /\ attempt' = [attempt EXCEPT ![r] = 1]
        /\ Goto(r, "connecting")
        /\ UNCHANGED <<result, emitted, lockVars>>
     \/ /\ attempt[r] = 1
        /\ Return(r, Failed("ApiUnavailable"))
        /\ Emit(r, "503")
        /\ Mutex!Unlock
        /\ UNCHANGED attempt
  /\ UNCHANGED authorised

\* tcp_exchange is Err: an I/O error, a closed peer, an IO_TIMEOUT or an
\* oversized length, any of which can end any of its awaits.  The channel is
\* dropped, and the request retries once.
ExchangeFails(r) ==
  /\ pc[r] \in Exchanging
  /\ channel' = FALSE
  /\ FreshWire
  /\ \/ /\ attempt[r] = 0
        /\ attempt' = [attempt EXCEPT ![r] = 1]
        /\ Goto(r, "retry")
        /\ UNCHANGED <<result, emitted>>
     \/ /\ attempt[r] = 1
        /\ Return(r, Failed("ApiUnavailable"))
        /\ Emit(r, "503")
        /\ UNCHANGED attempt
  /\ Mutex!Unlock
  /\ UNCHANGED authorised

HandlerStep(r) ==
  \/ Begin(r) \/ Relock(r) \/ Acquired(r)
  \/ ConnectSucceeds(r) \/ ConnectFails(r)
  \/ WriteFrame(r) \/ ReadLength(r) \/ ReadPayload(r) \/ ExchangeFails(r)

-----------------------------------------------------------------------------
\* The environment.

\* The browser goes away and the future of r is dropped at an await.  Dropped
\* while it writes, its frame is out in full, in part or not at all.
ClientLeaves(r) ==
  /\ \/ /\ pc[r] = "locking"
        /\ IF holder = r THEN Mutex!Unlock ELSE Mutex!LeaveQueue(r)
        /\ Goto(r, "dropped")
        /\ UNCHANGED toApi
     \/ /\ pc[r] = "connecting"
        /\ Mutex!Unlock
        /\ Goto(r, "dropped")
        /\ UNCHANGED toApi
     \/ /\ pc[r] \in Exchanging
        /\ Mutex!Unlock
        /\ Goto(r, "abandoned")
        /\ \/ UNCHANGED toApi
           \/ /\ pc[r] = "writing"
              /\ \E whole \in BOOLEAN : toApi' = Append(toApi, [op |-> r, whole |-> whole])
  /\ UNCHANGED <<attempt, result, emitted, channel, toWeb, authorised>>

Answer(resp) ==
  toWeb' = toWeb \o <<[part |-> "length",  resp |-> resp],
                      [part |-> "payload", resp |-> resp]>>

\* The API takes the next frame, introspects the bearer in it, and answers.
ApiAnswers ==
  /\ toApi # <<>>
  /\ Head(toApi).whole
  /\ toApi' = Tail(toApi)
  /\ LET op == Head(toApi).op IN
       \E body \in ApiBodies :
         LET authentic == body \in {"ok", "okWithError"} IN
         /\ Answer([op |-> op, body |-> body,
                    alarms |-> IF authentic THEN Bearer[op] ELSE NoToken])
         /\ authorised' = IF authentic THEN authorised \cup {op} ELSE authorised
  /\ UNCHANGED <<reqVars, lockVars, channel>>

\* A frame cut short swallows the bytes of the next one.  The API stays out of
\* step with the stream, and answers the garbage with status Invalid or not at
\* all.
ApiMisreads ==
  /\ Len(toApi) > 1
  /\ ~ Head(toApi).whole
  /\ toApi' = <<Head(toApi)>> \o Tail(Tail(toApi))
  /\ \/ Answer([op |-> NoRequest, body |-> "invalid", alarms |-> NoToken])
     \/ UNCHANGED toWeb
  /\ UNCHANGED <<reqVars, lockVars, channel, authorised>>

\* Every request has come and gone and the server is idle.
Idle ==
  /\ \A r \in Request : pc[r] \in Finished
  /\ UNCHANGED vars

Next ==
  \/ \E r \in Request : HandlerStep(r) \/ ClientLeaves(r)
  \/ ApiAnswers
  \/ ApiMisreads
  \/ Idle

Spec == Init /\ [][Next]_vars

\* tokio polls a future whose wakeup has come and fires its timers; nothing
\* obliges the API to answer or the browser to stay.
Fairness == \A r \in Request : WF_vars(HandlerStep(r))

FairSpec == Spec /\ Fairness

-----------------------------------------------------------------------------
\* Safety.

\* The alarms rendered for a request are those of the bearer it presented, and
\* the API has introspected that bearer for this very operation: neither a
\* retry, nor a stream left behind by somebody else, nor the identity of an
\* earlier user of the connection can put other alarms on the page.
OwnAlarmsOnly ==
  \A r \in Request : result[r].kind = "ok" =>
    result[r].alarms = Bearer[r] /\ r \in authorised

\* As long as nobody walked away in mid-exchange, whoever takes the channel
\* over finds it empty in both directions, whatever failed before: the error
\* arm of fetch_tcp drops a connection on which bytes are owed.
CleanHandover ==
  (\A r \in Request : pc[r] # "abandoned") /\ (\A r \in Request : pc[r] \notin Exchanging)
    => toApi = <<>> /\ toWeb = <<>>

\* The second attempt of a request never runs on the connection its first one
\* failed on, so it can neither send its operation twice there nor read the
\* late answer to its first frame.
RetryOnFreshStream ==
  \A r \in Request : pc[r] \in {"retry", "locking", "connecting", "writing"} =>
    /\ \A i \in 1..Len(toApi) : toApi[i].op # r
    /\ \A i \in 1..Len(toWeb) : toWeb[i].resp.op # r

\* With a conforming API, "contract_invalid" (a 422 the caller is told not to
\* retry) is only ever returned after some future was dropped in mid-exchange,
\* or for a bearer too long to frame.
ContractBlame ==
  ApiBodies \subseteq ConformingBody /\ (\A r \in Request : pc[r] # "abandoned") =>
    \A r \in Request : result[r].kind = "Contract" => Bearer[r] \in LongTokens

\* A bearer too long to frame fails alone: its request is told so, and neither waits
\* for the connection nor has tcp_exchange fail on it, which would cost everybody the
\* connection, twice, and be reported as an outage.
LongFailsAlone ==
  \A r \in Request : Bearer[r] \in LongTokens =>
    /\ r # holder /\ r \notin Mutex!Waiting
    /\ pc[r] = "done" => result[r] = Failed("Contract")

\* A request that is over, returned or dropped, owns no lock, and the lock is
\* never free while somebody waits for it.
LockIsReleased ==
  /\ holder # NoRequest => pc[holder] \in Awaiting
  /\ waiters # <<>> => holder # NoRequest

\* What the code and README claim, and the code does not do.

\* "service_responses_must_correlate_to_the_request": the API answered every
\* frame with a well-formed response to it, so no request is told that its
\* response violated the contract.
ConformingApiNeverBlamed ==
  ApiBodies \subseteq ConformingBody =>
    \A r \in Request : result[r].kind = "Contract" => Bearer[r] \in LongTokens

\* "every auth/API/render outcome is emitted": a request that returned from
\* fetch_tcp has left an "alarms.list" event.
EveryOutcomeEmitted ==
  \A r \in Request : pc[r] = "done" => emitted[r] # "none"

-----------------------------------------------------------------------------
\* Liveness: a request that asked for the lock returns, or its browser leaves,
\* however silent the API is: every await of the holder is bounded by a timeout
\* and the lock is FIFO.
EveryRequestFinishes ==
  \A r \in Request : pc[r] = "locking" ~> pc[r] \in Finished

-----------------------------------------------------------------------------
\* The mode implements what AlarmService promises.
Phase ==
  [r \in Request |-> CASE pc[r] = "done"                     -> "answered"
                      [] pc[r] \in {"dropped", "abandoned"}  -> "gone"
                      [] pc[r] \notin Finished               -> "pending"]

Service == INSTANCE AlarmService WITH phase <- Phase

ServiceSpec == Service!Spec

=============================================================================
