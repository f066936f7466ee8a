----------------------------- MODULE Dashboard -----------------------------
(***************************************************************************)
(* Runtime::dashboard of crates/common/src/lib.rs, the one entry point of  *)
(* the three renderers: take the bearer of the request, have Shared Auth   *)
(* introspect it, fetch the alarms through the one configured interaction  *)
(* mode, and hand out a page or a WebError.                                *)
(*                                                                         *)
(* direct_db_read and stateless_https are modelled here.  Of stateful_tls  *)
(* and async_jetstream only what AlarmService promises is used; TlsChannel *)
(* and JetStreamOperation implement it, and WebServer puts them in place.  *)
(***************************************************************************)
EXTENDS ServiceContract, Naturals, Sequences

CONSTANTS
  Modes,     \* the interaction modes an operator may configure
  Anonymous  \* requests whose authorization header bearer() refuses

InteractionMode == {"direct_db_read", "stateless_https", "stateful_tls", "async_jetstream"}

ASSUME DashboardAssumption ==
  /\ Modes \subseteq InteractionMode
  /\ Anonymous \subseteq Request

VARIABLES
  mode,        \* Runtime.mode
  pc,          \* where each request is in dashboard
  identity,    \* the subject introspect returned to it
  result,      \* its alarms, or its WebError
  events,      \* the telemetry it emitted
  holder,      \* the request that runs ReadContext::connect
  waiters,     \* the requests that wait for it to finish
  contexts,    \* the requests whose connect filled Runtime.direct
  active,      \* Shared Auth: the bearers it finds active
  verdict,     \* Shared Auth: its answer to the introspection of each request
  authorised,  \* API side: requests whose bearer it has found active
  signedIn     \* requests whose bearer was active when they began

reqVars  == <<pc, identity, result, events>>
cellVars == <<holder, waiters, contexts>>
authVars == <<active, verdict>>
vars     == <<mode, reqVars, cellVars, authVars, authorised, signedIn>>

-----------------------------------------------------------------------------
\* An event is the operation and the status emit is called with.
Introspect == "shared_auth.introspect"
Event == [operation : {Introspect, "alarms.list", "dashboard"},
          status : {200, 401, 500, 503, 504}]

On(operation, status) == [operation |-> operation, status |-> status]

\* The statuses with which each mode reports a failed fetch, when it does: the
\* one the API answered, or the one of its own deadline.
FetchStatus == [stateless_https |-> {401, 500}, stateful_tls |-> {503},
                async_jetstream |-> {504}]

Outcome == Result \cup {Failed("AuthUnavailable")}

Cell == INSTANCE FairLock WITH Owner <- Request, NoOwner <- NoRequest

Ready == contexts # {}

Backend  == {"connecting", "querying", "fetching"}
Finished == {"done", "dropped"}
Place    == {"new", "introspecting"} \cup Backend \cup Finished

TypeOK ==
  /\ mode \in Modes
  /\ pc \in [Request -> Place]
  /\ identity \in [Request -> Token \cup {NoToken}]
  /\ result \in [Request -> Outcome]
  /\ events \in [Request -> SUBSET Event]
  /\ Cell!TypeOK
  /\ contexts \subseteq Request
  /\ active \subseteq Token
  /\ verdict \in [Request -> {"none", "active", "unnamed", "refused"}]
  /\ authorised \subseteq Request
  /\ signedIn \subseteq Request

Init ==
  /\ mode \in Modes
  /\ pc = [r \in Request |-> "new"]
  /\ identity = [r \in Request |-> NoToken]
  /\ result = [r \in Request |-> NoResult]
  /\ events = [r \in Request |-> {}]
  /\ Cell!Init
  /\ contexts = {}
  /\ active = Token
  /\ verdict = [r \in Request |-> "none"]
  /\ authorised = {}
  /\ signedIn = {}

-----------------------------------------------------------------------------
Goto(r, place) == pc' = [pc EXCEPT ![r] = place]

Emit(r, new) == events' = [events EXCEPT ![r] = @ \cup new]

Return(r, res) ==
  /\ Goto(r, "done")
  /\ result' = [result EXCEPT ![r] = res]

\* The end of dashboard: the alarms are there, the preferences merge, and the
\* page goes to the renderer.
Page(r, alarms) ==
  /\ Return(r, Served(alarms))
  /\ Emit(r, {On("alarms.list", 200), On("dashboard", 200)})

\* Without an acceptable bearer nobody is asked anything.
Begin(r) ==
  /\ pc[r] = "new"
  /\ IF r \in Anonymous
     THEN Return(r, Failed("Unauthorized")) /\ UNCHANGED signedIn
     ELSE /\ Goto(r, "introspecting")
          /\ signedIn' = IF Bearer[r] \in active THEN signedIn \cup {r} ELSE signedIn
          /\ UNCHANGED result
  /\ UNCHANGED <<mode, identity, events, cellVars, authVars, authorised>>

\* Mutant: the call to Shared Auth has no timeout.
IntrospectFailsAnswered(r) ==
  /\ pc[r] = "introspecting"
  /\ verdict[r] # "none"
  /\ Return(r, Failed("AuthUnavailable"))
  /\ Emit(r, {On(Introspect, 503)})
  /\ UNCHANGED <<mode, identity, cellVars, authVars, authorised, signedIn>>

\* No answer in time, another status than 401, or a body that is too long, cut
\* or malformed.
IntrospectFails(r) ==
  /\ pc[r] = "introspecting"
  /\ Return(r, Failed("AuthUnavailable"))
  /\ Emit(r, {On(Introspect, 503)})
  /\ UNCHANGED <<mode, identity, cellVars, authVars, authorised, signedIn>>

\* A 401 of Shared Auth or an inactive token; and an active token whose subject
\* is missing or unusable, which is refused without an event.
IntrospectRefuses(r) ==
  /\ pc[r] = "introspecting"
  /\ \/ verdict[r] = "refused" /\ Emit(r, {On(Introspect, 401)})
     \/ verdict[r] = "unnamed" /\ UNCHANGED events
  /\ Return(r, Failed("Unauthorized"))
  /\ UNCHANGED <<mode, identity, cellVars, authVars, authorised, signedIn>>

\* What dashboard does with an identity, up to its next await.
EnterMode(r) ==
  \/ mode # "direct_db_read" /\ Goto(r, "fetching") /\ UNCHANGED <<holder, waiters>>
  \/ mode = "direct_db_read" /\ Ready /\ Goto(r, "querying") /\ UNCHANGED <<holder, waiters>>
  \/ mode = "direct_db_read" /\ ~ Ready /\ Goto(r, "connecting") /\ Cell!Lock(r)

\* Mutant: the identity of an earlier request with the same bearer is good
\* enough.
IntrospectedBefore(r) ==
  /\ pc[r] = "introspecting"
  /\ verdict[r] = "active" \/ \E q \in Request : identity[q] = Bearer[r]
  /\ identity' = [identity EXCEPT ![r] = Bearer[r]]
  /\ Emit(r, {On(Introspect, 200)})
  /\ EnterMode(r)
  /\ UNCHANGED <<mode, result, contexts, authVars, authorised, signedIn>>

Introspected(r) ==
  /\ pc[r] = "introspecting"
  /\ verdict[r] = "active"
  /\ identity' = [identity EXCEPT ![r] = Bearer[r]]
  /\ Emit(r, {On(Introspect, 200)})
  /\ EnterMode(r)
  /\ UNCHANGED <<mode, result, contexts, authVars, authorised, signedIn>>

-----------------------------------------------------------------------------
\* direct_db_read: Runtime.direct is a OnceCell.

\* Mutant: the cell is filled but its permit goes to the next waiter.
ConnectSucceedsUnclosed(r) ==
  /\ pc[r] = "connecting"
  /\ holder = r
  /\ contexts' = contexts \cup {r}
  /\ Cell!Unlock
  /\ Goto(r, "querying")
  /\ UNCHANGED <<mode, identity, result, events, authVars, authorised, signedIn>>

ConnectSucceeds(r) ==
  /\ pc[r] = "connecting"
  /\ holder = r
  /\ contexts' = contexts \cup {r}
  /\ holder' = NoRequest
  /\ waiters' = <<>>
  /\ Goto(r, "querying")
  /\ UNCHANGED <<mode, identity, result, events, authVars, authorised, signedIn>>

ConnectShared(r) ==
  /\ pc[r] = "connecting"
  /\ Ready
  /\ holder # r
  /\ Goto(r, "querying")
  /\ UNCHANGED <<mode, identity, result, events, cellVars, authVars, authorised, signedIn>>

\* Mutant: an unreachable database is covered up by the API.
ConnectFallsBack(r) ==
  /\ pc[r] = "connecting"
  /\ holder = r
  /\ Goto(r, "fetching")
  /\ Cell!Unlock
  /\ UNCHANGED <<mode, identity, result, events, contexts, authVars, authorised, signedIn>>

\* The database cannot be reached, and the next waiter tries for itself.
ConnectFails(r) ==
  /\ pc[r] = "connecting"
  /\ holder = r
  /\ Return(r, Failed("ApiUnavailable"))
  /\ Cell!Unlock
  /\ UNCHANGED <<mode, identity, events, contexts, authVars, authorised, signedIn>>

\* Mutant: the context serves the subject it was connected for.
QueryReturnsFirst(r) ==
  /\ pc[r] = "querying"
  /\ \E q \in contexts : Page(r, identity[q])
  /\ UNCHANGED <<mode, identity, cellVars, authVars, authorised, signedIn>>

\* alarms_for_subject of the subject of this request.
QueryReturns(r) ==
  /\ pc[r] = "querying"
  /\ Page(r, identity[r])
  /\ UNCHANGED <<mode, identity, cellVars, authVars, authorised, signedIn>>

QueryFails(r) ==
  /\ pc[r] = "querying"
  /\ Return(r, Failed("ApiUnavailable"))
  /\ UNCHANGED <<mode, identity, events, cellVars, authVars, authorised, signedIn>>

-----------------------------------------------------------------------------
\* stateless_https in detail, the other two by their promise.

FetchReturns(r) ==
  /\ pc[r] = "fetching"
  /\ r \in authorised
  /\ Page(r, Bearer[r])
  /\ UNCHANGED <<mode, identity, cellVars, authVars, authorised, signedIn>>

\* Mutant: a failed fetch is reported and the page is counted all the same.
FetchFailsCounted(r) ==
  /\ pc[r] = "fetching"
  /\ Return(r, Failed("ApiUnavailable"))
  /\ Emit(r, {On("alarms.list", 503), On("dashboard", 200)})
  /\ UNCHANGED <<mode, identity, cellVars, authVars, authorised, signedIn>>

\* Mutant: a fetch that was never answered is reported with status 0.
FetchFailsZero(r) ==
  /\ pc[r] = "fetching"
  /\ Return(r, Failed("ApiUnavailable"))
  /\ Emit(r, {On("alarms.list", 0)})
  /\ UNCHANGED <<mode, identity, cellVars, authVars, authorised, signedIn>>

\* A failure is reported with a status, or leaves through ? without an event.
FetchFails(r) ==
  /\ pc[r] = "fetching"
  /\ \/ \E status \in FetchStatus[mode] :
          /\ Return(r, Failed(IF status = 401 THEN "Unauthorized" ELSE "ApiUnavailable"))
          /\ Emit(r, {On("alarms.list", status)})
     \/ /\ \E kind \in {"Unauthorized", "ApiUnavailable", "Contract"} :
             /\ mode = "stateless_https" => kind # "Unauthorized"
             /\ Return(r, Failed(kind))
        /\ UNCHANGED events
  /\ UNCHANGED <<mode, identity, cellVars, authVars, authorised, signedIn>>

AuthStep(r) ==
  Begin(r) \/ IntrospectFails(r) \/ IntrospectRefuses(r) \/ Introspected(r)

DirectStep(r) ==
  \/ ConnectSucceeds(r) \/ ConnectShared(r) \/ ConnectFails(r)
  \/ QueryReturns(r) \/ QueryFails(r)

FetchStep(r) == FetchReturns(r) \/ FetchFails(r)

-----------------------------------------------------------------------------
\* The environment.

\* The browser goes away and the future of r is dropped at an await.
ClientLeaves(r) ==
  /\ pc[r] \in {"introspecting"} \cup Backend
  /\ Goto(r, "dropped")
  /\ \/ pc[r] = "connecting" /\ holder = r /\ Cell!Unlock
     \/ pc[r] = "connecting" /\ holder # r /\ Cell!LeaveQueue(r)
     \/ /\ pc[r] = "connecting" => holder # r /\ r \notin Cell!Waiting
        /\ UNCHANGED <<holder, waiters>>
  /\ UNCHANGED <<mode, identity, result, events, contexts, authVars, authorised, signedIn>>

\* A bearer expires, or its owner signs out.
Revoke(t) ==
  /\ t \in active
  /\ active' = active \ {t}
  /\ UNCHANGED <<mode, reqVars, cellVars, verdict, authorised, signedIn>>

\* Shared Auth looks a bearer up, or refuses the service credential; its answer
\* may be old when it arrives.
SharedAuthAnswers(r) ==
  /\ pc[r] = "introspecting"
  /\ verdict[r] = "none"
  /\ \E answer \in {"active", "unnamed", "refused"} :
       /\ Bearer[r] \notin active => answer = "refused"
       /\ verdict' = [verdict EXCEPT ![r] = answer]
  /\ UNCHANGED <<mode, reqVars, cellVars, active, authorised, signedIn>>

\* The API introspects the bearer of a fetch for itself, however late.
ApiAuthorises(r) ==
  /\ mode # "direct_db_read"
  /\ identity[r] # NoToken
  /\ Bearer[r] \in active
  /\ authorised' = authorised \cup {r}
  /\ UNCHANGED <<mode, reqVars, cellVars, authVars, signedIn>>

\* Every request has come and gone and the server is idle.
Idle ==
  /\ \A r \in Request : pc[r] \in Finished
  /\ UNCHANGED vars

Next ==
  \/ \E r \in Request : \/ AuthStep(r) \/ DirectStep(r) \/ FetchStep(r)
                        \/ ClientLeaves(r) \/ SharedAuthAnswers(r) \/ ApiAuthorises(r)
  \/ \E t \in Token : Revoke(t)
  \/ Idle

Spec == Init /\ [][Next]_vars

-----------------------------------------------------------------------------
\* Safety.

\* A page shows the alarms of the person it greets, and both are the bearer's:
\* requests that share a database context or a connection cannot swap them.
OwnPage ==
  \A r \in Request : result[r].kind = "ok" =>
    identity[r] = Bearer[r] /\ result[r].alarms = Bearer[r]

\* A bearer that was revoked before its request began never gets a page, in no
\* mode: no verdict outlives the request it was asked for.
NoPageAfterRevocation == \A r \in Request : result[r].kind = "ok" => r \in signedIn

\* There is no automatic fallback: an outage of the database never sends a bearer
\* to the API, and an outage of the API never opens the database.
NoFallback ==
  IF mode = "direct_db_read"
  THEN authorised = {} /\ \A r \in Request : pc[r] # "fetching"
  ELSE contexts = {} /\ holder = NoRequest

\* What telemetry says of a request is what happened to it: a page is counted
\* once it was handed out, after its alarms were listed, after its bearer was
\* introspected, and a failed step is the last one.
AuditTrail ==
  \A r \in Request : LET said(operation) == {e \in events[r] : e.operation = operation} IN
    /\ (On("dashboard", 200) \in events[r]) <=> result[r].kind = "ok"
    /\ said("dashboard") # {} => On("alarms.list", 200) \in events[r]
    /\ said("alarms.list") # {} => said(Introspect) = {On(Introspect, 200)}
    /\ (\E e \in events[r] : e.status # 200) => pc[r] = "done" /\ result[r].kind # "ok"

\* However many first requests race for the database, it is connected once.
OneContext == \A r, s \in contexts : r = s

\* What the README claims, and the code does not do.

\* "every auth/API/render outcome is emitted": a request that presented a bearer
\* and returned has left an event of its introspection.
EveryAuthOutcomeEmitted ==
  \A r \in Request \ Anonymous : pc[r] = "done" =>
    \E e \in events[r] : e.operation = Introspect

-----------------------------------------------------------------------------
\* Liveness: in the three modes that go through the API, a request is answered or
\* its browser leaves, however silent Shared Auth and the API are.  Nothing in
\* the code bounds a connect or a query of the database.
EveryPageFinishes ==
  \A r \in Request : mode # "direct_db_read" =>
    (pc[r] = "introspecting" ~> pc[r] \in Finished)

=============================================================================
