--------------------------- MODULE DashboardProofs ---------------------------
(***************************************************************************)
(* What Runtime::dashboard guarantees for any number of concurrent         *)
(* requests, any people, and any bearers that are revoked meanwhile.       *)
(***************************************************************************)
EXTENDS Dashboard, SequenceTheorems, TLAPS

-----------------------------------------------------------------------------
\* Typing, and why a mode never does what belongs to another: only a database is
\* connected and queried, and only in direct_db_read.
ModeInv ==
  /\ mode = "direct_db_read" => authorised = {} /\ \A r \in Request : pc[r] # "fetching"
  /\ mode # "direct_db_read" =>
       /\ contexts = {} /\ holder = NoRequest
       /\ \A r \in Request : pc[r] \notin {"connecting", "querying"}

ReqTypeOK ==
  /\ pc \in [Request -> Place]
  /\ identity \in [Request -> Token \cup {NoToken}]
  /\ result \in [Request -> Outcome]
  /\ events \in [Request -> SUBSET Event]

CellTypeOK == Cell!TypeOK /\ contexts \subseteq Request

AuthTypeOK ==
  /\ active \subseteq Token
  /\ verdict \in [Request -> {"none", "active", "unnamed", "refused"}]
  /\ signedIn \subseteq Request

LEMMA TypeParts ==
  TypeOK <=> /\ ReqTypeOK /\ CellTypeOK /\ AuthTypeOK
             /\ mode \in Modes /\ authorised \subseteq Request
BY DEF TypeOK, ReqTypeOK, CellTypeOK, AuthTypeOK

\* What dashboard may return, ...
LEMMA OutcomeType ==
  /\ \A kind \in {"Unauthorized", "ApiUnavailable", "Contract", "AuthUnavailable"} :
       Failed(kind) \in Outcome /\ Failed(kind).kind = kind
  /\ \A t \in Token \cup {NoToken} :
       Served(t) \in Outcome /\ Served(t).kind = "ok" /\ Served(t).alarms = t
BY DEF Outcome, Result, Failed, Served

\* ... and emit.
LEMMA EventType ==
  /\ \A operation \in {Introspect, "alarms.list", "dashboard"},
        status \in {200, 401, 500, 503, 504} : On(operation, status) \in Event
  /\ \A o1, o2, s1, s2 : On(o1, s1) = On(o2, s2) <=> o1 = o2 /\ s1 = s2
  /\ \A o, s : On(o, s).operation = o /\ On(o, s).status = s
BY DEF Event, On

LEMMA StatusType ==
  ASSUME mode \in Modes, mode # "direct_db_read"
  PROVE  FetchStatus[mode] \subseteq {401, 500, 503, 504}
BY DashboardAssumption DEF FetchStatus, InteractionMode

\* The cell stays typed when its permit moves and when it is filled.
LEMMA CellStepType ==
  ASSUME CellTypeOK, NEW r \in Request,
         \/ Cell!Lock(r) \/ Cell!Unlock \/ Cell!LeaveQueue(r)
         \/ UNCHANGED <<holder, waiters>>
         \/ holder' = NoRequest /\ waiters' = <<>>,
         contexts' \in {contexts, contexts \cup {r}}
  PROVE  CellTypeOK'
<1>1. Cell!TypeOK'
  <2>1. CASE Cell!Lock(r) \/ Cell!Unlock \/ Cell!LeaveQueue(r)
    BY <2>1, Cell!StepType DEF CellTypeOK
  <2>2. CASE UNCHANGED <<holder, waiters>>
    BY <2>2 DEF CellTypeOK, Cell!TypeOK
  <2>3. CASE holder' = NoRequest /\ waiters' = <<>>
    BY <2>3, EmptySeq DEF Cell!TypeOK
  <2>4. QED
    BY <2>1, <2>2, <2>3
<1>2. QED
  BY <1>1 DEF CellTypeOK

LEMMA InitTypeOK == Init => TypeOK /\ ModeInv
<1> SUFFICES ASSUME Init PROVE TypeOK /\ ModeInv
  OBVIOUS
<1>1. ReqTypeOK
  BY DEF Init, ReqTypeOK, Place, NoResult, Outcome, Result
<1>2. CellTypeOK
  BY EmptySeq DEF Init, CellTypeOK, Cell!Init, Cell!TypeOK
<1>3. AuthTypeOK /\ mode \in Modes /\ authorised \subseteq Request
  BY DEF Init, AuthTypeOK
<1>4. ModeInv
  BY DEF Init, ModeInv, Cell!Init
<1>5. QED
  BY <1>1, <1>2, <1>3, <1>4, TypeParts

LEMMA NextTypeOK == TypeOK /\ ModeInv /\ [Next]_vars => TypeOK'
<1> DEFINE Typed == /\ ReqTypeOK' /\ CellTypeOK' /\ AuthTypeOK'
                    /\ mode' \in Modes /\ authorised' \subseteq Request
<1> SUFFICES ASSUME ReqTypeOK, CellTypeOK, AuthTypeOK, mode \in Modes,
                    authorised \subseteq Request, ModeInv, [Next]_vars
             PROVE  Typed
  BY TypeParts DEF TypeOK, ReqTypeOK, CellTypeOK, AuthTypeOK
<1>a. ASSUME UNCHANGED reqVars PROVE ReqTypeOK'
  BY <1>a DEF reqVars, ReqTypeOK
<1>b. ASSUME UNCHANGED cellVars PROVE CellTypeOK'
  BY <1>b DEF cellVars, CellTypeOK, Cell!TypeOK
<1>c. ASSUME UNCHANGED <<authVars, signedIn>> PROVE AuthTypeOK'
  BY <1>c DEF authVars, AuthTypeOK
<1>d. ASSUME NEW r \in Request, NEW place \in Place, Goto(r, place), UNCHANGED result,
             \/ UNCHANGED identity
             \/ identity' = [identity EXCEPT ![r] = Bearer[r]],
             UNCHANGED events \/ Emit(r, {On(Introspect, 200)})
      PROVE  ReqTypeOK'
  <2>1. {On(Introspect, 200)} \subseteq Event
    BY EventType
  <2>2. events' \in [Request -> SUBSET Event]
    BY <1>d, <2>1 DEF ReqTypeOK, Emit
  <2>3. identity' \in [Request -> Token \cup {NoToken}]
    BY <1>d, IdentityAssumption DEF ReqTypeOK
  <2>4. QED
    BY <1>d, <2>2, <2>3 DEF ReqTypeOK, Goto
<1>e. ASSUME NEW r \in Request, NEW res \in Outcome, Return(r, res), UNCHANGED identity,
             UNCHANGED events \/ \E new \in SUBSET Event : Emit(r, new)
      PROVE  ReqTypeOK'
  BY <1>e DEF ReqTypeOK, Return, Goto, Emit, Place, Finished
<1>f. ASSUME NEW r \in Request, NEW t \in Token \cup {NoToken}, Page(r, t), UNCHANGED identity
      PROVE  ReqTypeOK'
  BY <1>e, <1>f, OutcomeType, EventType DEF Page
<1>g. {"new", "introspecting", "connecting", "querying", "fetching", "done", "dropped"} = Place
  BY DEF Place, Backend, Finished
<1>1. ASSUME NEW r \in Request, Begin(r) PROVE Typed
  <2>1. ReqTypeOK'
    BY <1>1, <1>d, <1>e, <1>g, OutcomeType DEF Begin
  <2>2. AuthTypeOK'
    BY <1>1 DEF Begin, AuthTypeOK, authVars
  <2>3. QED
    BY <1>1, <2>1, <2>2, <1>b DEF Begin
<1>2. ASSUME NEW r \in Request, IntrospectFails(r) PROVE Typed
  BY <1>2, <1>b, <1>c, <1>e, OutcomeType, EventType DEF IntrospectFails
<1>3. ASSUME NEW r \in Request, IntrospectRefuses(r) PROVE Typed
  BY <1>3, <1>b, <1>c, <1>e, OutcomeType, EventType DEF IntrospectRefuses
<1>4. ASSUME NEW r \in Request, Introspected(r) PROVE Typed
  BY <1>4, <1>c, <1>d, <1>g, CellStepType DEF Introspected, EnterMode
<1>5. ASSUME NEW r \in Request, ConnectSucceeds(r) PROVE Typed
  BY <1>5, <1>c, <1>d, <1>g, CellStepType DEF ConnectSucceeds
<1>6. ASSUME NEW r \in Request, ConnectShared(r) PROVE Typed
  BY <1>6, <1>b, <1>c, <1>d, <1>g DEF ConnectShared
<1>7. ASSUME NEW r \in Request, ConnectFails(r) PROVE Typed
  BY <1>7, <1>c, <1>e, OutcomeType, CellStepType DEF ConnectFails
<1>8. ASSUME NEW r \in Request, QueryReturns(r) PROVE Typed
  <2>1. identity[r] \in Token \cup {NoToken}
    BY DEF ReqTypeOK
  <2>2. QED
    BY <1>8, <2>1, <1>b, <1>c, <1>f DEF QueryReturns
<1>9. ASSUME NEW r \in Request, QueryFails(r) PROVE Typed
  BY <1>9, <1>b, <1>c, <1>e, OutcomeType DEF QueryFails
<1>10. ASSUME NEW r \in Request, FetchReturns(r) PROVE Typed
  BY <1>10, <1>b, <1>c, <1>f, IdentityAssumption DEF FetchReturns
<1>11. ASSUME NEW r \in Request, FetchFails(r) PROVE Typed
  <2>1. FetchStatus[mode] \subseteq {401, 500, 503, 504}
    BY <1>11, StatusType DEF FetchFails, ModeInv
  <2>2. CASE \E status \in FetchStatus[mode] :
               /\ Return(r, Failed(IF status = 401 THEN "Unauthorized" ELSE "ApiUnavailable"))
               /\ Emit(r, {On("alarms.list", status)})
    BY <1>11, <2>1, <2>2, <1>b, <1>c, <1>e, OutcomeType, EventType DEF FetchFails
  <2>3. CASE UNCHANGED events /\ \E kind \in {"Unauthorized", "ApiUnavailable", "Contract"} :
               Return(r, Failed(kind))
    BY <1>11, <2>3, <1>b, <1>c, <1>e, OutcomeType DEF FetchFails
  <2>4. QED
    BY <1>11, <2>2, <2>3 DEF FetchFails
<1>12. ASSUME NEW r \in Request, ClientLeaves(r) PROVE Typed
  BY <1>12, <1>c, <1>d, <1>g, CellStepType DEF ClientLeaves
<1>13. ASSUME NEW r \in Request, SharedAuthAnswers(r) PROVE Typed
  BY <1>13, <1>a, <1>b DEF SharedAuthAnswers, AuthTypeOK
<1>14. ASSUME NEW r \in Request, ApiAuthorises(r) PROVE Typed
  BY <1>14, <1>a, <1>b, <1>c DEF ApiAuthorises
<1>15. ASSUME NEW t \in Token, Revoke(t) PROVE Typed
  BY <1>15, <1>a, <1>b DEF Revoke, AuthTypeOK
<1>16. CASE UNCHANGED vars
  BY <1>16, <1>a, <1>b, <1>c DEF vars
<1> HIDE DEF Typed
<1>17. QED
  BY <1>1, <1>2, <1>3, <1>4, <1>5, <1>6, <1>7, <1>8, <1>9,
     <1>10, <1>11, <1>12, <1>13, <1>14, <1>15, <1>16
     DEF Next, AuthStep, DirectStep, FetchStep, Idle

LEMMA NextModeInv == TypeOK /\ ModeInv /\ [Next]_vars => ModeInv'
<1> SUFFICES ASSUME ReqTypeOK, ModeInv, [Next]_vars PROVE ModeInv'
  BY TypeParts
\* Nothing is undone by a request that goes nowhere new, ...
<1>a. ASSUME NEW r \in Request, NEW place, Goto(r, place),
             place \notin {"connecting", "querying", "fetching"},
             UNCHANGED <<mode, contexts, authorised>>,
             mode # "direct_db_read" => UNCHANGED holder
      PROVE  ModeInv'
  BY <1>a DEF ModeInv, ReqTypeOK, Goto
<1>b. ASSUME UNCHANGED <<mode, pc, holder, contexts>>,
             mode = "direct_db_read" => UNCHANGED authorised
      PROVE  ModeInv'
  BY <1>b DEF ModeInv
\* ... and what connects and queries is in direct_db_read.
<1>c. ASSUME NEW r \in Request, mode = "direct_db_read", NEW place, place # "fetching",
             Goto(r, place), UNCHANGED <<mode, authorised>>
      PROVE  ModeInv'
  BY <1>c DEF ModeInv, ReqTypeOK, Goto
<1>1. ASSUME NEW r \in Request, Begin(r) PROVE ModeInv'
  BY <1>1, <1>a DEF Begin, Return, cellVars
<1>2. ASSUME NEW r \in Request, IntrospectFails(r) PROVE ModeInv'
  BY <1>2, <1>a DEF IntrospectFails, Return, cellVars
<1>3. ASSUME NEW r \in Request, IntrospectRefuses(r) PROVE ModeInv'
  BY <1>3, <1>a DEF IntrospectRefuses, Return, cellVars
<1>4. ASSUME NEW r \in Request, Introspected(r) PROVE ModeInv'
  <2>1. CASE mode = "direct_db_read"
    BY <1>4, <2>1, <1>c DEF Introspected, EnterMode
  <2>2. CASE mode # "direct_db_read"
    BY <1>4, <2>2 DEF Introspected, EnterMode, ModeInv, ReqTypeOK, Goto
  <2>3. QED
    BY <2>1, <2>2
<1>5. ASSUME NEW r \in Request, ConnectSucceeds(r) PROVE ModeInv'
  BY <1>5, <1>c DEF ConnectSucceeds, ModeInv
<1>6. ASSUME NEW r \in Request, ConnectShared(r) PROVE ModeInv'
  BY <1>6, <1>c DEF ConnectShared, ModeInv
<1>7. ASSUME NEW r \in Request, ConnectFails(r) PROVE ModeInv'
  BY <1>7, <1>c DEF ConnectFails, ModeInv, Return
<1>8. ASSUME NEW r \in Request, QueryReturns(r) PROVE ModeInv'
  BY <1>8, <1>a DEF QueryReturns, Page, Return, cellVars
<1>9. ASSUME NEW r \in Request, QueryFails(r) PROVE ModeInv'
  BY <1>9, <1>a DEF QueryFails, Return, cellVars
<1>10. ASSUME NEW r \in Request, FetchReturns(r) PROVE ModeInv'
  BY <1>10, <1>a DEF FetchReturns, Page, Return, cellVars
<1>11. ASSUME NEW r \in Request, FetchFails(r) PROVE ModeInv'
  BY <1>11, <1>a DEF FetchFails, Return, cellVars
<1>12. ASSUME NEW r \in Request, ClientLeaves(r) PROVE ModeInv'
  BY <1>12, <1>a DEF ClientLeaves, ModeInv
<1>13. ASSUME NEW r \in Request, SharedAuthAnswers(r) PROVE ModeInv'
  BY <1>13, <1>b DEF SharedAuthAnswers, reqVars, cellVars
<1>14. ASSUME NEW r \in Request, ApiAuthorises(r) PROVE ModeInv'
  BY <1>14, <1>b DEF ApiAuthorises, reqVars, cellVars
<1>15. ASSUME NEW t \in Token, Revoke(t) PROVE ModeInv'
  BY <1>15, <1>b DEF Revoke, reqVars, cellVars
<1>16. CASE UNCHANGED vars
  BY <1>16, <1>b DEF vars, reqVars, cellVars
<1>17. QED
  BY <1>1, <1>2, <1>3, <1>4, <1>5, <1>6, <1>7, <1>8, <1>9,
     <1>10, <1>11, <1>12, <1>13, <1>14, <1>15, <1>16
     DEF Next, AuthStep, DirectStep, FetchStep, Idle

LEMMA TypeMode == Spec => [](TypeOK /\ ModeInv)
BY InitTypeOK, NextTypeOK, NextModeInv, PTL DEF Spec

\* Every state of dashboard, its cell and its events has the declared types.
THEOREM TypeCorrect == Spec => []TypeOK
BY TypeMode, PTL

\* An outage of the configured mode is never covered up by another one.
THEOREM NoModeFallsBack == Spec => []NoFallback
<1>1. ModeInv => NoFallback
  BY DEF ModeInv, NoFallback
<1>2. QED
  BY <1>1, TypeMode, PTL

-----------------------------------------------------------------------------
\* Why a page is its owner's: whoever is past introspect was found active for this
\* request, so its bearer was active when it began, since none becomes active again.
IdentityInv ==
  \A r \in Request :
    /\ pc[r] = "introspecting" /\ Bearer[r] \in active => r \in signedIn
    /\ verdict[r] = "active" => r \in signedIn
    /\ pc[r] \in Backend => r \in signedIn /\ identity[r] = Bearer[r]
    /\ result[r].kind = "ok" =>
         /\ pc[r] = "done" /\ r \in signedIn
         /\ identity[r] = Bearer[r] /\ result[r].alarms = Bearer[r]

LEMMA IdentityInvariant == Spec => []IdentityInv
<1>1. Init => IdentityInv
  <2> SUFFICES ASSUME Init, NEW r \in Request
               PROVE  pc[r] = "new" /\ verdict[r] = "none" /\ result[r].kind = "none"
    BY DEF IdentityInv, Backend
  <2>1. QED
    BY DEF Init, NoResult
<1>2. TypeOK /\ IdentityInv /\ [Next]_vars => IdentityInv'
  <2> SUFFICES ASSUME ReqTypeOK, AuthTypeOK, IdentityInv, [Next]_vars PROVE IdentityInv'
    BY TypeParts
  <2>a. ASSUME NEW r \in Request, NEW place, Goto(r, place), pc[r] # "done",
               place # "introspecting", place \in Backend => pc[r] \in Backend,
               UNCHANGED <<identity, result, active, verdict, signedIn>>
        PROVE  IdentityInv'
    BY <2>a DEF IdentityInv, ReqTypeOK, Goto, Backend
  <2>b. ASSUME NEW r \in Request, NEW kind, kind # "ok", Return(r, Failed(kind)),
               UNCHANGED <<identity, active, verdict, signedIn>>
        PROVE  IdentityInv'
    BY <2>b DEF IdentityInv, ReqTypeOK, Return, Goto, Backend, Failed
  <2>c. ASSUME NEW r \in Request, pc[r] \in Backend, Page(r, Bearer[r]),
               UNCHANGED <<identity, active, verdict, signedIn>>
        PROVE  IdentityInv'
    BY <2>c DEF IdentityInv, ReqTypeOK, Page, Return, Goto, Backend, Served
  <2>1. ASSUME NEW r \in Request, Begin(r) PROVE IdentityInv'
    <3>1. CASE r \in Anonymous
      BY <2>1, <2>b, <3>1 DEF Begin, authVars
    <3>2. CASE r \notin Anonymous
      BY <2>1, <3>2 DEF Begin, authVars, IdentityInv, ReqTypeOK, Goto, Backend
    <3>3. QED
      BY <3>1, <3>2
  <2>2. ASSUME NEW r \in Request, IntrospectFails(r) PROVE IdentityInv'
    BY <2>2, <2>b DEF IntrospectFails, authVars
  <2>3. ASSUME NEW r \in Request, IntrospectRefuses(r) PROVE IdentityInv'
    BY <2>3, <2>b DEF IntrospectRefuses, authVars
  <2>4. ASSUME NEW r \in Request, Introspected(r) PROVE IdentityInv'
    <3>1. \E place \in Backend : Goto(r, place)
      BY <2>4 DEF Introspected, EnterMode, Backend
    <3>2. /\ r \in signedIn /\ pc[r] = "introspecting"
          /\ identity' = [identity EXCEPT ![r] = Bearer[r]]
          /\ UNCHANGED <<result, active, verdict, signedIn>>
      BY <2>4 DEF Introspected, IdentityInv, authVars
    <3>3. QED
      BY <3>1, <3>2 DEF IdentityInv, ReqTypeOK, Goto, Backend
  <2>5. ASSUME NEW r \in Request, ConnectSucceeds(r) PROVE IdentityInv'
    BY <2>5, <2>a DEF ConnectSucceeds, Backend, authVars
  <2>6. ASSUME NEW r \in Request, ConnectShared(r) PROVE IdentityInv'
    BY <2>6, <2>a DEF ConnectShared, Backend, authVars
  <2>7. ASSUME NEW r \in Request, ConnectFails(r) PROVE IdentityInv'
    BY <2>7, <2>b DEF ConnectFails, authVars
  <2>8. ASSUME NEW r \in Request, QueryReturns(r) PROVE IdentityInv'
    BY <2>8, <2>c DEF QueryReturns, IdentityInv, Backend, authVars
  <2>9. ASSUME NEW r \in Request, QueryFails(r) PROVE IdentityInv'
    BY <2>9, <2>b DEF QueryFails, authVars
  <2>10. ASSUME NEW r \in Request, FetchReturns(r) PROVE IdentityInv'
    BY <2>10, <2>c DEF FetchReturns, Backend, authVars
  <2>11. ASSUME NEW r \in Request, FetchFails(r) PROVE IdentityInv'
    BY <2>11, <2>b DEF FetchFails, authVars
  <2>12. ASSUME NEW r \in Request, ClientLeaves(r) PROVE IdentityInv'
    BY <2>12, <2>a DEF ClientLeaves, Backend, authVars
  <2>13. ASSUME NEW r \in Request, SharedAuthAnswers(r) PROVE IdentityInv'
    BY <2>13 DEF SharedAuthAnswers, IdentityInv, AuthTypeOK, reqVars
  <2>14. ASSUME NEW r \in Request, ApiAuthorises(r) PROVE IdentityInv'
    BY <2>14 DEF ApiAuthorises, IdentityInv, reqVars, authVars
  <2>15. ASSUME NEW t \in Token, Revoke(t) PROVE IdentityInv'
    BY <2>15 DEF Revoke, IdentityInv, reqVars
  <2>16. CASE UNCHANGED vars
    BY <2>16 DEF vars, reqVars, authVars, IdentityInv
  <2>17. QED
    BY <2>1, <2>2, <2>3, <2>4, <2>5, <2>6, <2>7, <2>8, <2>9,
       <2>10, <2>11, <2>12, <2>13, <2>14, <2>15, <2>16
       DEF Next, AuthStep, DirectStep, FetchStep, Idle
<1>3. QED
  BY <1>1, <1>2, TypeCorrect, PTL DEF Spec

\* Requests that share a database context or a connection never swap their pages.
THEOREM OwnPages == Spec => []OwnPage
<1>1. IdentityInv => OwnPage
  BY DEF IdentityInv, OwnPage
<1>2. QED
  BY <1>1, IdentityInvariant, PTL

\* A bearer that was revoked before its request began never gets a page.
THEOREM NoStaleVerdict == Spec => []NoPageAfterRevocation
<1>1. IdentityInv => NoPageAfterRevocation
  BY DEF IdentityInv, NoPageAfterRevocation
<1>2. QED
  BY <1>1, IdentityInvariant, PTL

-----------------------------------------------------------------------------
\* Why telemetry says what happened: a request has emitted nothing before introspect
\* returns, only its success while the alarms are fetched, and either the three
\* events of a page or at most one failure, its last, when dashboard returns.
Vouched == {On(Introspect, 200)}
PageEvents == {On(Introspect, 200), On("alarms.list", 200), On("dashboard", 200)}

FailureEvents ==
  {{}, Vouched} \cup {{On(Introspect, s)} : s \in {401, 503}}
    \cup {Vouched \cup {On("alarms.list", s)} : s \in {401, 500, 503, 504}}

EventsInv ==
  \A r \in Request :
    /\ pc[r] # "done" => result[r].kind # "ok"
    /\ pc[r] \in {"new", "introspecting"} => events[r] = {}
    /\ pc[r] \in Backend => events[r] = Vouched
    /\ pc[r] = "dropped" => events[r] \in {{}, Vouched}
    /\ pc[r] = "done" =>
         IF result[r].kind = "ok" THEN events[r] = PageEvents ELSE events[r] \in FailureEvents

LEMMA EventsInvariant == Spec => []EventsInv
<1>1. Init => EventsInv
  <2> SUFFICES ASSUME Init, NEW r \in Request
               PROVE  pc[r] = "new" /\ events[r] = {} /\ result[r].kind = "none"
    BY DEF EventsInv, Backend
  <2>1. QED
    BY DEF Init, NoResult
<1>2. TypeOK /\ ModeInv /\ EventsInv /\ [Next]_vars => EventsInv'
  <2> SUFFICES ASSUME ReqTypeOK, mode \in Modes, ModeInv, EventsInv, [Next]_vars
               PROVE  EventsInv'
    BY TypeParts
  <2>a. ASSUME NEW r \in Request, NEW place, Goto(r, place), UNCHANGED <<result, events>>,
               \/ place \in Backend /\ pc[r] \in Backend
               \/ place = "introspecting" /\ pc[r] = "new"
               \/ place = "dropped" /\ pc[r] \in {"introspecting"} \cup Backend
        PROVE  EventsInv'
    BY <2>a DEF EventsInv, ReqTypeOK, Goto, Backend
  <2>b. ASSUME NEW r \in Request, NEW kind, kind # "ok", Return(r, Failed(kind)),
               events' = [events EXCEPT ![r] = events'[r]], events'[r] \in FailureEvents
        PROVE  EventsInv'
    BY <2>b DEF EventsInv, ReqTypeOK, Return, Goto, Backend, Failed
  <2>c. ASSUME NEW r \in Request, pc[r] \in Backend, NEW t, Page(r, t)
        PROVE  EventsInv'
    <3>1. events' = [events EXCEPT ![r] = PageEvents]
      <4>1. events[r] = Vouched
        BY <2>c DEF EventsInv
      <4>2. Vouched \cup {On("alarms.list", 200), On("dashboard", 200)} = PageEvents
        BY DEF Vouched, PageEvents
      <4>3. QED
        BY <2>c, <4>1, <4>2 DEF Page, Emit
    <3>2. QED
      BY <2>c, <3>1 DEF EventsInv, ReqTypeOK, Page, Return, Goto, Backend, Served
  \* What a failure leaves of its events.
  <2>d. ASSUME NEW r \in Request, UNCHANGED events, pc[r] \in {"new", "introspecting"} \cup Backend
        PROVE  events' = [events EXCEPT ![r] = events'[r]] /\ events'[r] \in FailureEvents
    BY <2>d DEF EventsInv, ReqTypeOK, FailureEvents
  <2>e. ASSUME NEW r \in Request, pc[r] = "introspecting", NEW s \in {401, 503},
               Emit(r, {On(Introspect, s)})
        PROVE  events' = [events EXCEPT ![r] = events'[r]] /\ events'[r] \in FailureEvents
    <3>1. events' = [events EXCEPT ![r] = {On(Introspect, s)}]
      <4>1. events[r] = {}
        BY <2>e DEF EventsInv
      <4>2. {} \cup {On(Introspect, s)} = {On(Introspect, s)}
        OBVIOUS
      <4>3. QED
        BY <2>e, <4>1, <4>2 DEF Emit
    <3>2. QED
      BY <3>1 DEF ReqTypeOK, FailureEvents
  <2>f. ASSUME NEW r \in Request, pc[r] \in Backend, NEW s \in {401, 500, 503, 504},
               Emit(r, {On("alarms.list", s)})
        PROVE  events' = [events EXCEPT ![r] = events'[r]] /\ events'[r] \in FailureEvents
    <3>1. events' = [events EXCEPT ![r] = Vouched \cup {On("alarms.list", s)}]
      BY <2>f DEF Emit, EventsInv
    <3>2. QED
      BY <3>1 DEF ReqTypeOK, FailureEvents
  <2>1. ASSUME NEW r \in Request, Begin(r) PROVE EventsInv'
    <3>1. CASE r \in Anonymous
      BY <2>1, <2>b, <2>d, <3>1 DEF Begin
    <3>2. CASE r \notin Anonymous
      BY <2>1, <2>a, <3>2 DEF Begin
    <3>3. QED
      BY <3>1, <3>2
  <2>2. ASSUME NEW r \in Request, IntrospectFails(r) PROVE EventsInv'
    BY <2>2, <2>b, <2>e DEF IntrospectFails
  <2>3. ASSUME NEW r \in Request, IntrospectRefuses(r) PROVE EventsInv'
    BY <2>3, <2>b, <2>d, <2>e DEF IntrospectRefuses
  <2>4. ASSUME NEW r \in Request, Introspected(r) PROVE EventsInv'
    <3>1. \E place \in Backend : Goto(r, place)
      BY <2>4 DEF Introspected, EnterMode, Backend
    <3>2. events' = [events EXCEPT ![r] = Vouched] /\ UNCHANGED result
      BY <2>4 DEF Introspected, Emit, EventsInv, Vouched
    <3>3. pc[r] = "introspecting"
      BY <2>4 DEF Introspected
    <3>4. QED
      BY <3>1, <3>2, <3>3 DEF EventsInv, ReqTypeOK, Goto, Backend
  <2>5. ASSUME NEW r \in Request, ConnectSucceeds(r) PROVE EventsInv'
    BY <2>5, <2>a DEF ConnectSucceeds, Backend
  <2>6. ASSUME NEW r \in Request, ConnectShared(r) PROVE EventsInv'
    BY <2>6, <2>a DEF ConnectShared, Backend
  <2>7. ASSUME NEW r \in Request, ConnectFails(r) PROVE EventsInv'
    BY <2>7, <2>b, <2>d DEF ConnectFails, Backend
  <2>8. ASSUME NEW r \in Request, QueryReturns(r) PROVE EventsInv'
    BY <2>8, <2>c DEF QueryReturns, Backend
  <2>9. ASSUME NEW r \in Request, QueryFails(r) PROVE EventsInv'
    BY <2>9, <2>b, <2>d DEF QueryFails, Backend
  <2>10. ASSUME NEW r \in Request, FetchReturns(r) PROVE EventsInv'
    BY <2>10, <2>c DEF FetchReturns, Backend
  <2>11. ASSUME NEW r \in Request, FetchFails(r) PROVE EventsInv'
    <3>1. FetchStatus[mode] \subseteq {401, 500, 503, 504} /\ pc[r] \in Backend
      BY <2>11, StatusType DEF FetchFails, ModeInv, Backend
    <3>2. CASE \E status \in FetchStatus[mode] :
                 /\ Return(r, Failed(IF status = 401 THEN "Unauthorized" ELSE "ApiUnavailable"))
                 /\ Emit(r, {On("alarms.list", status)})
      BY <3>1, <3>2, <2>b, <2>f
    <3>3. CASE UNCHANGED events /\ \E kind \in {"Unauthorized", "ApiUnavailable", "Contract"} :
                 Return(r, Failed(kind))
      BY <3>1, <3>3, <2>b, <2>d
    <3>4. QED
      BY <2>11, <3>2, <3>3 DEF FetchFails
  <2>12. ASSUME NEW r \in Request, ClientLeaves(r) PROVE EventsInv'
    BY <2>12, <2>a DEF ClientLeaves
  <2>13. ASSUME NEW r \in Request, SharedAuthAnswers(r) PROVE EventsInv'
    BY <2>13 DEF SharedAuthAnswers, EventsInv, reqVars
  <2>14. ASSUME NEW r \in Request, ApiAuthorises(r) PROVE EventsInv'
    BY <2>14 DEF ApiAuthorises, EventsInv, reqVars
  <2>15. ASSUME NEW t \in Token, Revoke(t) PROVE EventsInv'
    BY <2>15 DEF Revoke, EventsInv, reqVars
  <2>16. CASE UNCHANGED vars
    BY <2>16 DEF vars, reqVars, EventsInv
  <2>17. QED
    BY <2>1, <2>2, <2>3, <2>4, <2>5, <2>6, <2>7, <2>8, <2>9,
       <2>10, <2>11, <2>12, <2>13, <2>14, <2>15, <2>16
       DEF Next, AuthStep, DirectStep, FetchStep, Idle
<1>3. QED
  BY <1>1, <1>2, TypeMode, PTL DEF Spec

\* In every order of its steps, the events of a request tell what became of it.
THEOREM Audited == Spec => []AuditTrail
<1>1. TypeOK /\ EventsInv => AuditTrail
  <2> SUFFICES ASSUME ReqTypeOK, EventsInv, NEW r \in Request
               PROVE  LET said(operation) == {e \in events[r] : e.operation = operation} IN
                      /\ (On("dashboard", 200) \in events[r]) <=> result[r].kind = "ok"
                      /\ said("dashboard") # {} => On("alarms.list", 200) \in events[r]
                      /\ said("alarms.list") # {} => said(Introspect) = {On(Introspect, 200)}
                      /\ (\E e \in events[r] : e.status # 200)
                           => pc[r] = "done" /\ result[r].kind # "ok"
    BY TypeParts DEF AuditTrail
  <2>1. \/ result[r].kind = "ok" /\ events[r] = PageEvents
        \/ result[r].kind # "ok" /\ pc[r] # "done" /\ events[r] \in {{}, Vouched}
        \/ result[r].kind # "ok" /\ pc[r] = "done" /\ events[r] \in FailureEvents
    BY DEF EventsInv, ReqTypeOK, Place, Finished, Backend
  <2>2. CASE result[r].kind = "ok" /\ events[r] = PageEvents
    BY <2>2 DEF PageEvents, On, Introspect
  <2>3. CASE result[r].kind # "ok" /\ events[r] \in {{}, Vouched}
    BY <2>3 DEF Vouched, On, Introspect
  <2>4. CASE /\ result[r].kind # "ok" /\ pc[r] = "done"
             /\ \E s \in {401, 503} : events[r] = {On(Introspect, s)}
    BY <2>4 DEF On, Introspect
  <2>5. CASE /\ result[r].kind # "ok" /\ pc[r] = "done"
             /\ \E s \in {401, 500, 503, 504} :
                  events[r] = {On(Introspect, 200), On("alarms.list", s)}
    BY <2>5 DEF On, Introspect
  <2>6. QED
    BY <2>1, <2>2, <2>3, <2>4, <2>5 DEF FailureEvents, Vouched
<1>2. QED
  BY <1>1, TypeCorrect, EventsInvariant, PTL

-----------------------------------------------------------------------------
\* Why there is one read context: whoever has the permit is connecting, and the
\* permit is closed with the first success, so that nobody has it again.
CellInv ==
  /\ Cell!Orderly
  /\ holder # NoRequest => pc[holder] = "connecting"
  /\ \A r \in Cell!Waiting : pc[r] = "connecting"
  /\ Ready => holder = NoRequest
  /\ OneContext

\* Asking to initialise the cell, ...
LEMMA LockKeeps ==
  ASSUME ReqTypeOK, CellTypeOK, CellInv, NEW r \in Request, pc[r] = "introspecting",
         ~ Ready, Goto(r, "connecting"), Cell!Lock(r), UNCHANGED contexts
  PROVE  CellInv'
<1>1. pc' = [pc EXCEPT ![r] = "connecting"] /\ pc \in [Request -> Place]
  BY DEF Goto, ReqTypeOK
<1>2. holder # r /\ r \notin Cell!Waiting /\ NoRequest \notin Request
  BY IdentityAssumption DEF CellInv
<1>3. /\ Cell!Orderly'
      /\ \/ holder = NoRequest /\ holder' = r /\ Cell!Waiting' = Cell!Waiting
         \/ holder' = holder /\ holder # NoRequest /\ Cell!Waiting' = Cell!Waiting \cup {r}
  BY <1>2, Cell!LockStep DEF CellInv, CellTypeOK
<1>4. Cell!Waiting \subseteq Request /\ holder \in Request \cup {NoRequest}
  BY Cell!WaitingType DEF CellTypeOK, Cell!TypeOK
<1>5. QED
  BY <1>1, <1>2, <1>3, <1>4 DEF CellInv, Ready, OneContext

\* ... passing the permit on, ...
LEMMA UnlockKeeps ==
  ASSUME ReqTypeOK, CellTypeOK, CellInv, NEW r \in Request, holder = r,
         NEW place, place # "connecting", Goto(r, place), Cell!Unlock, UNCHANGED contexts
  PROVE  CellInv'
<1>1. pc' = [pc EXCEPT ![r] = place] /\ pc \in [Request -> Place]
  BY DEF Goto, ReqTypeOK
<1>2. /\ Cell!Orderly'
      /\ \/ holder' = NoRequest /\ Cell!Waiting' = {}
         \/ holder' \in Cell!Waiting /\ Cell!Waiting' = Cell!Waiting \ {holder'}
  BY Cell!UnlockStep, IdentityAssumption DEF CellInv, CellTypeOK
<1>3. Cell!Waiting \subseteq Request /\ r \notin Cell!Waiting /\ r # NoRequest
  BY Cell!WaitingType, IdentityAssumption DEF CellInv, CellTypeOK, Cell!Orderly
<1>4. QED
  BY <1>1, <1>2, <1>3 DEF CellInv, Ready, OneContext

\* ... giving up the wait for it, ...
LEMMA LeaveQueueKeeps ==
  ASSUME ReqTypeOK, CellTypeOK, CellInv, NEW r \in Request, holder # r,
         Goto(r, "dropped"), Cell!LeaveQueue(r), UNCHANGED contexts
  PROVE  CellInv'
<1>1. pc' = [pc EXCEPT ![r] = "dropped"] /\ pc \in [Request -> Place]
  BY DEF Goto, ReqTypeOK
<1>2. Cell!Orderly' /\ holder' = holder /\ Cell!Waiting' = Cell!Waiting \ {r}
  BY Cell!LeaveStep DEF CellInv, CellTypeOK
<1>3. Cell!Waiting \subseteq Request /\ holder \in Request \cup {NoRequest}
  BY Cell!WaitingType DEF CellTypeOK, Cell!TypeOK
<1>4. QED
  BY <1>1, <1>2, <1>3 DEF CellInv, Ready, OneContext

\* ... and moving on with nothing to do with it keep CellInv.
LEMMA MoveKeeps ==
  ASSUME ReqTypeOK, CellTypeOK, CellInv, NEW r \in Request,
         holder # r, r \notin Cell!Waiting,
         NEW place, place # "connecting", Goto(r, place), UNCHANGED cellVars
  PROVE  CellInv'
<1>1. pc' = [pc EXCEPT ![r] = place] /\ pc \in [Request -> Place]
  BY DEF Goto, ReqTypeOK
<1>2. /\ holder' = holder /\ Cell!Waiting' = Cell!Waiting /\ contexts' = contexts
      /\ Cell!Orderly' = Cell!Orderly
  BY DEF cellVars, Cell!Waiting, Cell!Orderly
<1>3. Cell!Waiting \subseteq Request /\ holder \in Request \cup {NoRequest}
  BY Cell!WaitingType DEF CellTypeOK, Cell!TypeOK
<1>4. QED
  BY <1>1, <1>2, <1>3 DEF CellInv, Ready, OneContext

LEMMA CellInvariant == Spec => []CellInv
<1>1. Init => CellInv
  BY DEF Init, CellInv, Ready, OneContext, Cell!Init, Cell!Orderly, Cell!Waiting
<1>2. TypeOK /\ CellInv /\ [Next]_vars => CellInv'
  <2> SUFFICES ASSUME ReqTypeOK, CellTypeOK, CellInv, [Next]_vars PROVE CellInv'
    BY TypeParts
  \* Whoever has the permit or waits for it is connecting, and no longer waits once
  \* the cell is filled.
  <2>a. ASSUME NEW r \in Request, pc[r] # "connecting" \/ Ready
        PROVE  holder # r /\ r \notin Cell!Waiting
    BY <2>a, Cell!WaitingType, IdentityAssumption
       DEF CellInv, CellTypeOK, Cell!Orderly, Cell!Waiting
  <2>b. ASSUME UNCHANGED <<pc, cellVars>> PROVE CellInv'
    BY <2>b DEF cellVars, CellInv, Ready, OneContext, Cell!Waiting, Cell!Orderly
  <2>c. ASSUME NEW r \in Request, NEW place, place # "connecting", Goto(r, place),
               pc[r] # "connecting", UNCHANGED cellVars
        PROVE  CellInv'
    BY <2>a, <2>c, MoveKeeps
  <2>1. ASSUME NEW r \in Request, Begin(r) PROVE CellInv'
    BY <2>1, <2>c DEF Begin, Return
  <2>2. ASSUME NEW r \in Request, IntrospectFails(r) PROVE CellInv'
    BY <2>2, <2>c DEF IntrospectFails, Return
  <2>3. ASSUME NEW r \in Request, IntrospectRefuses(r) PROVE CellInv'
    BY <2>3, <2>c DEF IntrospectRefuses, Return
  <2>4. ASSUME NEW r \in Request, Introspected(r) PROVE CellInv'
    <3>1. CASE ~ Ready /\ Goto(r, "connecting") /\ Cell!Lock(r)
      BY <2>4, <3>1, LockKeeps DEF Introspected
    <3>2. CASE /\ \E place \in {"fetching", "querying"} : Goto(r, place)
               /\ UNCHANGED <<holder, waiters>>
      BY <2>4, <3>2, <2>c DEF Introspected, cellVars
    <3>3. QED
      BY <2>4, <3>1, <3>2 DEF Introspected, EnterMode
  <2>5. ASSUME NEW r \in Request, ConnectSucceeds(r) PROVE CellInv'
    <3>1. ~ Ready /\ contexts' = {r}
      BY <2>5, IdentityAssumption DEF ConnectSucceeds, CellInv, Ready
    <3>2. Cell!Waiting' = {}
      BY <2>5 DEF ConnectSucceeds, Cell!Waiting
    <3>3. Cell!Orderly' /\ holder' = NoRequest
      BY <2>5, <3>2 DEF ConnectSucceeds, Cell!Orderly
    <3>4. QED
      BY <3>1, <3>2, <3>3 DEF CellInv, Ready, OneContext
  <2>6. ASSUME NEW r \in Request, ConnectShared(r) PROVE CellInv'
    BY <2>6, <2>a, MoveKeeps DEF ConnectShared
  <2>7. ASSUME NEW r \in Request, ConnectFails(r) PROVE CellInv'
    BY <2>7, UnlockKeeps DEF ConnectFails, Return
  <2>8. ASSUME NEW r \in Request, QueryReturns(r) PROVE CellInv'
    BY <2>8, <2>c DEF QueryReturns, Page, Return
  <2>9. ASSUME NEW r \in Request, QueryFails(r) PROVE CellInv'
    BY <2>9, <2>c DEF QueryFails, Return
  <2>10. ASSUME NEW r \in Request, FetchReturns(r) PROVE CellInv'
    BY <2>10, <2>c DEF FetchReturns, Page, Return
  <2>11. ASSUME NEW r \in Request, FetchFails(r) PROVE CellInv'
    BY <2>11, <2>c DEF FetchFails, Return
  <2>12. ASSUME NEW r \in Request, ClientLeaves(r) PROVE CellInv'
    <3>1. CASE pc[r] = "connecting" /\ holder = r /\ Cell!Unlock
      BY <2>12, <3>1, UnlockKeeps DEF ClientLeaves
    <3>2. CASE pc[r] = "connecting" /\ holder # r /\ Cell!LeaveQueue(r)
      BY <2>12, <3>2, LeaveQueueKeeps DEF ClientLeaves
    <3>3. CASE /\ pc[r] = "connecting" => holder # r /\ r \notin Cell!Waiting
               /\ UNCHANGED <<holder, waiters>>
      BY <2>12, <2>a, <3>3, MoveKeeps DEF ClientLeaves, cellVars
    <3>4. QED
      BY <2>12, <3>1, <3>2, <3>3 DEF ClientLeaves
  <2>13. ASSUME NEW r \in Request, SharedAuthAnswers(r) PROVE CellInv'
    BY <2>13, <2>b DEF SharedAuthAnswers, reqVars
  <2>14. ASSUME NEW r \in Request, ApiAuthorises(r) PROVE CellInv'
    BY <2>14, <2>b DEF ApiAuthorises, reqVars
  <2>15. ASSUME NEW t \in Token, Revoke(t) PROVE CellInv'
    BY <2>15, <2>b DEF Revoke, reqVars
  <2>16. CASE UNCHANGED vars
    BY <2>16, <2>b DEF vars, reqVars
  <2>17. QED
    BY <2>1, <2>2, <2>3, <2>4, <2>5, <2>6, <2>7, <2>8, <2>9,
       <2>10, <2>11, <2>12, <2>13, <2>14, <2>15, <2>16
       DEF Next, AuthStep, DirectStep, FetchStep, Idle
<1>3. QED
  BY <1>1, <1>2, TypeCorrect, PTL DEF Spec

\* However many first requests race for the database, fail or leave, it is
\* connected once.
THEOREM SingleContext == Spec => []OneContext
<1>1. CellInv => OneContext
  BY DEF CellInv
<1>2. QED
  BY <1>1, CellInvariant, PTL

=============================================================================
