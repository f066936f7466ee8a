-------------------------- MODULE TlsChannelProofs --------------------------
(***************************************************************************)
(* What stateful_tls guarantees for any number of concurrent requests that *)
(* share the one TLS connection of the process.                            *)
(***************************************************************************)
EXTENDS TlsChannel, SequenceTheorems, TLAPS

-----------------------------------------------------------------------------
\* What a fetch may return is well-formed, ...
LEMMA ResultType ==
  /\ \A kind \in {"Unauthorized", "ApiUnavailable", "Contract"} : Failed(kind) \in Result
  /\ \A t \in Token \cup {NoToken} : Served(t) \in Result
BY DEF Failed, Served, Result

\* ... and a response is decoded to alarms by the operation it names, and to an error
\* by any other.
LEMMA Decoded ==
  ASSUME NEW resp \in Response, NEW op \in Request
  PROVE  \/ /\ resp.op = op /\ resp.body = "ok"
            /\ DecodeServiceResponse(resp, op) = Served(resp.alarms)
         \/ \E kind \in {"Unauthorized", "ApiUnavailable", "Contract"} :
              DecodeServiceResponse(resp, op) = Failed(kind)
BY DEF DecodeServiceResponse, Response, Served, Failed, Body

\* Typing of the helpers.

\* A dropped stream leaves a well-typed wire.
LEMMA FreshWireType ==
  ASSUME WireTypeOK, FreshWire, channel' \in BOOLEAN, UNCHANGED authorised
  PROVE  WireTypeOK'
BY DEF WireTypeOK, FreshWire

\* So does one more frame, ...
LEMMA AppendFrameType ==
  ASSUME WireTypeOK, NEW frame \in Frame, toApi' = Append(toApi, frame),
         UNCHANGED <<channel, toWeb, authorised>>
  PROVE  WireTypeOK'
<1>1. toApi' \in Seq(Frame)
  BY AppendProperties DEF WireTypeOK
<1>2. QED
  BY <1>1 DEF WireTypeOK

\* ... one piece less, ...
LEMMA TakePieceType ==
  ASSUME WireTypeOK, toWeb # <<>>, toWeb' = Tail(toWeb),
         UNCHANGED <<channel, toApi, authorised>>
  PROVE  WireTypeOK' /\ Head(toWeb) \in Piece
<1>1. toWeb' \in Seq(Piece) /\ Head(toWeb) \in Piece
  BY HeadTailProperties DEF WireTypeOK
<1>2. QED
  BY <1>1 DEF WireTypeOK

\* ... and an answer of two pieces.
LEMMA AnswerType ==
  ASSUME WireTypeOK, NEW resp \in Response, Answer(resp)
  PROVE  toWeb' \in Seq(Piece)
<1> DEFINE two == <<[part |-> "length",  resp |-> resp],
                    [part |-> "payload", resp |-> resp]>>
<1>1. two \in Seq(Piece)
  BY DEF Piece
<1> HIDE DEF two
<1>2. toWeb \in Seq(Piece)
  BY DEF WireTypeOK
<1>3. toWeb \o two \in Seq(Piece)
  BY <1>1, <1>2, ConcatProperties
<1>4. QED
  BY <1>3 DEF Answer, two

\* A sequence without its second element.
LEMMA DropSecond ==
  ASSUME NEW S, NEW s \in Seq(S), Len(s) > 1
  PROVE  LET t == <<Head(s)>> \o Tail(Tail(s)) IN
         /\ t \in Seq(S)
         /\ \A i \in 1..Len(t) : \E j \in 1..Len(s) : t[i] = s[j]
<1> DEFINE first == <<Head(s)>>
           rest  == Tail(Tail(s))
<1>1. Len(s) \in Nat /\ s # <<>>
  BY LenProperties
<1>2. /\ Head(s) \in S /\ Head(s) = s[1]
      /\ Tail(s) \in Seq(S) /\ Len(Tail(s)) = Len(s) - 1
      /\ \A i \in 1..Len(s) - 1 : Tail(s)[i] = s[i + 1]
  BY <1>1, HeadTailProperties
<1>3. Tail(s) # <<>>
  <2>1. Len(Tail(s)) # 0
    BY <1>1, <1>2
  <2>2. \A t \in Seq(S) : Len(t) # 0 => t # <<>>
    OBVIOUS
  <2>3. QED
    BY <1>2, <2>1, <2>2
<1>4. /\ rest \in Seq(S) /\ Len(rest) = Len(s) - 2
      /\ \A i \in 1..Len(s) - 2 : rest[i] = s[i + 2]
  <2>1. /\ rest \in Seq(S) /\ Len(rest) = Len(Tail(s)) - 1
        /\ \A i \in 1..Len(Tail(s)) - 1 : rest[i] = Tail(s)[i + 1]
    BY <1>2, <1>3, HeadTailProperties
  <2>2. QED
    BY <1>1, <1>2, <2>1
<1>5. first \in Seq(S) /\ Len(first) = 1 /\ first[1] = s[1]
  BY <1>2
<1> HIDE DEF first, rest
<1>6. /\ first \o rest \in Seq(S)
      /\ Len(first \o rest) = Len(first) + Len(rest)
      /\ \A i \in 1..Len(first) + Len(rest) :
           (first \o rest)[i] = IF i <= Len(first) THEN first[i] ELSE rest[i - Len(first)]
  BY <1>4, <1>5, ConcatProperties
<1>7. ASSUME NEW i \in 1..Len(first \o rest) PROVE \E j \in 1..Len(s) : (first \o rest)[i] = s[j]
  <2>1. CASE i = 1
    BY <1>1, <1>4, <1>5, <1>6, <2>1
  <2>2. CASE i # 1
    <3>1. /\ i - 1 \in 1..Len(s) - 2 /\ i + 1 \in 1..Len(s) /\ (i - 1) + 2 = i + 1
          /\ (first \o rest)[i] = rest[i - 1]
      BY <1>1, <1>4, <1>5, <1>6, <2>2
    <3>2. rest[i - 1] = s[i + 1]
      BY <1>4, <3>1
    <3>3. QED
      BY <3>1, <3>2
  <2>3. QED
    BY <2>1, <2>2
<1>8. QED
  BY <1>6, <1>7 DEF first, rest

-----------------------------------------------------------------------------
LEMMA InitTypeOK == Init => TypeOK
<1> SUFFICES ASSUME Init PROVE TypeOK
  OBVIOUS
<1>1. ReqTypeOK
  BY DEF Init, ReqTypeOK, Place, NoResult, Result
<1>2. Mutex!TypeOK
  BY EmptySeq DEF Init, Mutex!Init, Mutex!TypeOK
<1>3. WireTypeOK
  <2>1. <<>> \in Seq(Frame) /\ <<>> \in Seq(Piece)
    BY EmptySeq
  <2>2. QED
    BY <2>1 DEF Init, WireTypeOK
<1>4. QED
  BY <1>1, <1>2, <1>3 DEF TypeOK

LEMMA NextTypeOK == TypeOK /\ [Next]_vars => TypeOK'
<1> SUFFICES ASSUME ReqTypeOK, Mutex!TypeOK, WireTypeOK, [Next]_vars
             PROVE  ReqTypeOK' /\ Mutex!TypeOK' /\ WireTypeOK'
  BY DEF TypeOK
<1>a. ASSUME UNCHANGED reqVars PROVE ReqTypeOK'
  BY <1>a DEF reqVars, ReqTypeOK
<1>b. ASSUME UNCHANGED lockVars PROVE Mutex!TypeOK'
  BY <1>b DEF lockVars, Mutex!TypeOK
<1>c. ASSUME UNCHANGED <<wireVars, authorised>> PROVE WireTypeOK'
  BY <1>c DEF wireVars, WireTypeOK
<1> USE DEF reqVars, wireVars, Place, Awaiting, Exchanging, Finished
<1>1. ASSUME NEW r \in Request, Begin(r)
      PROVE  ReqTypeOK' /\ Mutex!TypeOK' /\ WireTypeOK'
  <2>1. ReqTypeOK'
    BY <1>1, ResultType DEF Begin, ReqTypeOK, Goto, Return
  <2>2. Mutex!TypeOK'
    BY <1>1, <1>b, Mutex!StepType DEF Begin
  <2>3. WireTypeOK'
    BY <1>1, <1>c DEF Begin
  <2>4. QED
    BY <2>1, <2>2, <2>3
<1>2. ASSUME NEW r \in Request, Relock(r)
      PROVE  ReqTypeOK' /\ Mutex!TypeOK' /\ WireTypeOK'
  <2>1. ReqTypeOK'
    BY <1>2 DEF Relock, ReqTypeOK, Goto
  <2>2. QED
    BY <1>2, <2>1, <1>c, Mutex!StepType DEF Relock
<1>3. ASSUME NEW r \in Request, Acquired(r)
      PROVE  ReqTypeOK' /\ Mutex!TypeOK' /\ WireTypeOK'
  <2>1. ReqTypeOK'
    BY <1>3 DEF Acquired, ReqTypeOK, Goto
  <2>2. QED
    BY <1>3, <2>1, <1>b, <1>c DEF Acquired
<1>4. ASSUME NEW r \in Request, ConnectSucceeds(r)
      PROVE  ReqTypeOK' /\ Mutex!TypeOK' /\ WireTypeOK'
  <2>1. ReqTypeOK'
    BY <1>4 DEF ConnectSucceeds, ReqTypeOK, Goto
  <2>2. WireTypeOK'
    BY <1>4, FreshWireType DEF ConnectSucceeds
  <2>3. QED
    BY <1>4, <2>1, <2>2, <1>b DEF ConnectSucceeds
<1>5. ASSUME NEW r \in Request, ConnectFails(r)
      PROVE  ReqTypeOK' /\ Mutex!TypeOK' /\ WireTypeOK'
  <2>1. ReqTypeOK'
    BY <1>5, ResultType DEF ConnectFails, ReqTypeOK, Goto, Return
  <2>2. QED
    BY <1>5, <2>1, <1>c, Mutex!StepType DEF ConnectFails
<1>6. ASSUME NEW r \in Request, WriteFrame(r)
      PROVE  ReqTypeOK' /\ Mutex!TypeOK' /\ WireTypeOK'
  <2>1. ReqTypeOK'
    BY <1>6 DEF WriteFrame, ReqTypeOK, Goto
  <2>2. [op |-> r, whole |-> TRUE] \in Frame
    BY DEF Frame
  <2>3. WireTypeOK'
    BY <1>6, <2>2, AppendFrameType DEF WriteFrame
  <2>4. QED
    BY <1>6, <2>1, <2>3, <1>b DEF WriteFrame
<1>7. ASSUME NEW r \in Request, ReadLength(r)
      PROVE  ReqTypeOK' /\ Mutex!TypeOK' /\ WireTypeOK'
  <2>1. ReqTypeOK'
    BY <1>7 DEF ReadLength, ReqTypeOK, Goto
  <2>2. WireTypeOK'
    BY <1>7, TakePieceType DEF ReadLength
  <2>3. QED
    BY <1>7, <2>1, <2>2, <1>b DEF ReadLength
<1>8. ASSUME NEW r \in Request, ReadPayload(r)
      PROVE  ReqTypeOK' /\ Mutex!TypeOK' /\ WireTypeOK'
  <2>1. WireTypeOK' /\ Head(toWeb) \in Piece
    BY <1>8, TakePieceType DEF ReadPayload
  <2>2. DecodeServiceResponse(Head(toWeb).resp, r) \in Result
    BY <2>1, Decoded, ResultType DEF Piece, Response
  <2>3. ReqTypeOK'
    BY <1>8, <2>2 DEF ReadPayload, ReqTypeOK, Goto, Return, Emit
  <2>4. QED
    BY <1>8, <2>1, <2>3, Mutex!StepType DEF ReadPayload
<1>9. ASSUME NEW r \in Request, ExchangeFails(r)
      PROVE  ReqTypeOK' /\ Mutex!TypeOK' /\ WireTypeOK'
  <2>1. ReqTypeOK'
    BY <1>9, ResultType DEF ExchangeFails, ReqTypeOK, Goto, Return, Emit
  <2>2. WireTypeOK'
    BY <1>9, FreshWireType DEF ExchangeFails
  <2>3. QED
    BY <1>9, <2>1, <2>2, Mutex!StepType DEF ExchangeFails
<1>10. ASSUME NEW r \in Request, ClientLeaves(r)
       PROVE  ReqTypeOK' /\ Mutex!TypeOK' /\ WireTypeOK'
  <2>1. ReqTypeOK'
    BY <1>10 DEF ClientLeaves, ReqTypeOK, Goto
  <2>2. Mutex!TypeOK'
    BY <1>10, Mutex!StepType DEF ClientLeaves
  <2>3. WireTypeOK'
    <3>1. CASE UNCHANGED toApi
      BY <1>10, <3>1, <1>c DEF ClientLeaves
    <3>2. CASE \E whole \in BOOLEAN : toApi' = Append(toApi, [op |-> r, whole |-> whole])
      <4>1. PICK whole \in BOOLEAN : toApi' = Append(toApi, [op |-> r, whole |-> whole])
        BY <3>2
      <4>2. [op |-> r, whole |-> whole] \in Frame
        BY DEF Frame
      <4>3. QED
        BY <1>10, <4>1, <4>2, AppendFrameType DEF ClientLeaves
    <3>3. QED
      BY <1>10, <3>1, <3>2 DEF ClientLeaves
  <2>4. QED
    BY <2>1, <2>2, <2>3
<1>11. ASSUME ApiAnswers
       PROVE  ReqTypeOK' /\ Mutex!TypeOK' /\ WireTypeOK'
  <2>1. toApi' \in Seq(Frame) /\ Head(toApi) \in Frame
    BY <1>11, HeadTailProperties DEF ApiAnswers, WireTypeOK
  <2>2. PICK body \in ApiBodies :
          LET op == Head(toApi).op
              authentic == body \in {"ok", "okWithError"} IN
          /\ Answer([op |-> op, body |-> body,
                     alarms |-> IF authentic THEN Bearer[op] ELSE NoToken])
          /\ authorised' = IF authentic THEN authorised \cup {op} ELSE authorised
    BY <1>11 DEF ApiAnswers
  <2>3. [op |-> Head(toApi).op, body |-> body,
         alarms |-> IF body \in {"ok", "okWithError"}
                    THEN Bearer[Head(toApi).op] ELSE NoToken] \in Response
    BY <2>1, IdentityAssumption, ApiAssumption DEF Frame, Response
  <2>4. toWeb' \in Seq(Piece)
    BY <2>2, <2>3, AnswerType
  <2>5. authorised' \subseteq Request
    BY <2>1, <2>2 DEF WireTypeOK, Frame
  <2>6. WireTypeOK'
    BY <1>11, <2>1, <2>4, <2>5 DEF ApiAnswers, WireTypeOK
  <2>7. QED
    BY <1>11, <2>6, <1>a, <1>b DEF ApiAnswers
<1>12. ASSUME ApiMisreads
       PROVE  ReqTypeOK' /\ Mutex!TypeOK' /\ WireTypeOK'
  <2>1. toApi' \in Seq(Frame)
    BY <1>12, DropSecond DEF ApiMisreads, WireTypeOK
  <2>2. [op |-> NoRequest, body |-> "invalid", alarms |-> NoToken] \in Response
    BY DEF Response, Body
  <2>3. toWeb' \in Seq(Piece)
    BY <1>12, <2>2, AnswerType DEF ApiMisreads, WireTypeOK
  <2>4. WireTypeOK'
    BY <1>12, <2>1, <2>3 DEF ApiMisreads, WireTypeOK
  <2>5. QED
    BY <1>12, <2>4, <1>a, <1>b DEF ApiMisreads
<1>13. CASE UNCHANGED vars
  BY <1>13, <1>a, <1>b, <1>c DEF vars
<1>14. QED
  BY <1>1, <1>2, <1>3, <1>4, <1>5, <1>6, <1>7, <1>8, <1>9, <1>10, <1>11, <1>12, <1>13
     DEF Next, HandlerStep, Idle

\* Every state of fetch_tcp and its connection has the declared types.
THEOREM TypeCorrect == Spec => []TypeOK
BY InitTypeOK, NextTypeOK, PTL DEF Spec

-----------------------------------------------------------------------------
\* Why nobody is served the alarms of another operation: everything the API
\* ever put on the connection with alarms in it names an operation it has
\* authorised, and carries that operation's alarms.  Leftovers of an abandoned
\* exchange are not excluded; they are simply true of somebody else.
AuthenticWire ==
  \A i \in 1..Len(toWeb) :
    toWeb[i].resp.body \in {"ok", "okWithError"} =>
      /\ toWeb[i].resp.op \in authorised
      /\ toWeb[i].resp.alarms = Bearer[toWeb[i].resp.op]

IdentityInv == ReqTypeOK /\ WireTypeOK /\ AuthenticWire /\ OwnAlarmsOnly

\* Reading a piece leaves the rest of the stream authentic.
LEMMA TakeAuthentic ==
  ASSUME WireTypeOK, AuthenticWire, toWeb # <<>>, toWeb' = Tail(toWeb),
         UNCHANGED authorised
  PROVE  AuthenticWire'
<1>1. toWeb \in Seq(Piece) /\ Len(toWeb) \in Nat
  BY LenProperties DEF WireTypeOK
<1>2. /\ Len(Tail(toWeb)) = Len(toWeb) - 1
      /\ \A i \in 1..Len(Tail(toWeb)) : Tail(toWeb)[i] = toWeb[i + 1]
  BY <1>1, HeadTailProperties
<1>3. QED
  BY <1>1, <1>2 DEF AuthenticWire

\* An answer adds pieces of its own behind those on the stream.
LEMMA AnswerPieces ==
  ASSUME WireTypeOK, NEW resp \in Response, Answer(resp)
  PROVE  \A i \in 1..Len(toWeb') :
           toWeb'[i].resp = resp \/ (i \in 1..Len(toWeb) /\ toWeb'[i] = toWeb[i])
<1> DEFINE two == <<[part |-> "length",  resp |-> resp],
                    [part |-> "payload", resp |-> resp]>>
<1>1. two \in Seq(Piece) /\ Len(two) = 2
  BY DEF Piece
<1>2. two[1].resp = resp /\ two[2].resp = resp
  OBVIOUS
<1>3. toWeb' = toWeb \o two
  BY DEF Answer
<1> HIDE DEF two
<1>4. toWeb \in Seq(Piece) /\ Len(toWeb) \in Nat
  BY LenProperties DEF WireTypeOK
<1>5. /\ Len(toWeb') = Len(toWeb) + 2
      /\ \A i \in 1..Len(toWeb) + 2 :
           toWeb'[i] = IF i <= Len(toWeb) THEN toWeb[i] ELSE two[i - Len(toWeb)]
  <2>1. /\ Len(toWeb \o two) = Len(toWeb) + Len(two)
        /\ \A i \in 1..Len(toWeb) + Len(two) :
             (toWeb \o two)[i] = IF i <= Len(toWeb) THEN toWeb[i] ELSE two[i - Len(toWeb)]
    BY <1>1, <1>4, ConcatProperties
  <2>2. QED
    BY <1>1, <1>3, <2>1
<1>6. SUFFICES ASSUME NEW i \in 1..Len(toWeb')
               PROVE  toWeb'[i].resp = resp \/ (i \in 1..Len(toWeb) /\ toWeb'[i] = toWeb[i])
  OBVIOUS
<1>7. CASE i <= Len(toWeb)
  BY <1>4, <1>5, <1>7
<1>8. CASE i > Len(toWeb)
  <2>1. i - Len(toWeb) \in {1, 2}
    BY <1>4, <1>5, <1>8
  <2>2. QED
    BY <1>2, <1>4, <1>5, <1>8, <2>1
<1>9. QED
  BY <1>4, <1>5, <1>7, <1>8

\* An authentic answer keeps the stream authentic, whoever was authorised
\* before it.
LEMMA AnswerAuthentic ==
  ASSUME WireTypeOK, AuthenticWire, NEW resp \in Response, Answer(resp),
         authorised \subseteq authorised',
         resp.body \in {"ok", "okWithError"} =>
           resp.op \in authorised' /\ resp.alarms = Bearer[resp.op]
  PROVE  AuthenticWire'
BY AnswerPieces DEF AuthenticWire

\* A request is served only its own alarms, and only authorised ones.
LEMMA OwnDecoded ==
  ASSUME WireTypeOK, AuthenticWire, NEW r \in Request, ReadPayload(r)
  PROVE  LET res == DecodeServiceResponse(Head(toWeb).resp, r) IN
         \/ res = Served(Bearer[r]) /\ r \in authorised
         \/ \E kind \in {"Unauthorized", "ApiUnavailable", "Contract"} : res = Failed(kind)
<1> DEFINE resp == Head(toWeb).resp
           res  == DecodeServiceResponse(resp, r)
<1>1. Head(toWeb) = toWeb[1] /\ 1 \in 1..Len(toWeb) /\ resp \in Response
  BY TakePieceType, LenProperties, EmptySeq DEF WireTypeOK, ReadPayload, Piece
<1>2. CASE res.kind = "ok"
  <2>1. resp.op = r /\ resp.body = "ok" /\ res = Served(resp.alarms)
    BY <1>1, <1>2, Decoded DEF Served, Failed
  <2>2. r \in authorised /\ resp.alarms = Bearer[r]
    BY <1>1, <2>1 DEF AuthenticWire
  <2>3. QED
    BY <2>1, <2>2
<1>3. CASE res.kind # "ok"
  BY <1>1, <1>3, Decoded DEF Served, Failed
<1>4. QED
  BY <1>2, <1>3

\* The API puts alarms on the stream only for the operation it authorises.
LEMMA ApiAuthentic ==
  ASSUME WireTypeOK, AuthenticWire, ApiAnswers
  PROVE  /\ AuthenticWire'
         /\ \E op \in Request : authorised' \in {authorised, authorised \cup {op}}
<1> DEFINE op == Head(toApi).op
           alarms(body) == IF body \in {"ok", "okWithError"} THEN Bearer[op] ELSE NoToken
           resp(body) == [op |-> op, body |-> body, alarms |-> alarms(body)]
<1>1. op \in Request
  <2>1. Head(toApi) \in Frame
    BY HeadTailProperties DEF WireTypeOK, ApiAnswers
  <2>2. QED
    BY <2>1 DEF Frame
<1>2. PICK body \in ApiBodies :
        /\ Answer(resp(body))
        /\ authorised' = IF body \in {"ok", "okWithError"}
                         THEN authorised \cup {op} ELSE authorised
  BY DEF ApiAnswers
<1>3. resp(body) \in Response
  BY <1>1, IdentityAssumption, ApiAssumption DEF Response
<1>4. AuthenticWire'
  BY <1>2, <1>3, AnswerAuthentic
<1>5. QED
  BY <1>1, <1>2, <1>4

\* OwnAlarmsOnly for any number of requests, bearers and bodies: no
\* interleaving, retry or abandoned exchange on the shared connection shows a
\* person alarms the API did not authorise for that very operation.
LEMMA IdentityInvariant == Spec => [](TypeOK /\ IdentityInv)
<1>1. Init => IdentityInv
  <2> SUFFICES ASSUME Init PROVE IdentityInv
    OBVIOUS
  <2>1. AuthenticWire /\ OwnAlarmsOnly
    BY DEF Init, AuthenticWire, OwnAlarmsOnly, NoResult
  <2>2. TypeOK
    BY InitTypeOK
  <2>3. QED
    BY <2>1, <2>2 DEF IdentityInv, TypeOK
<1>2. TypeOK /\ IdentityInv /\ [Next]_vars => IdentityInv'
  <2> SUFFICES ASSUME TypeOK, IdentityInv, TypeOK', [Next]_vars
               PROVE  AuthenticWire' /\ OwnAlarmsOnly'
    BY NextTypeOK DEF IdentityInv, TypeOK
  <2> USE DEF IdentityInv
  <2>a. ASSUME UNCHANGED <<result, authorised>> PROVE OwnAlarmsOnly'
    BY <2>a DEF OwnAlarmsOnly
  <2>b. ASSUME UNCHANGED <<toWeb, authorised>> PROVE AuthenticWire'
    BY <2>b DEF AuthenticWire
  <2>c. ASSUME FreshWire PROVE AuthenticWire'
    BY <2>c DEF FreshWire, AuthenticWire
  <2>d. ASSUME NEW r \in Request, NEW kind \in {"Unauthorized", "ApiUnavailable", "Contract"},
               Return(r, Failed(kind)), UNCHANGED authorised
        PROVE  OwnAlarmsOnly'
    BY <2>d DEF Return, Failed, OwnAlarmsOnly, ReqTypeOK
  <2>1. ASSUME NEW r \in Request, Begin(r) PROVE AuthenticWire' /\ OwnAlarmsOnly'
    BY <2>1, <2>a, <2>b, <2>d DEF Begin, wireVars
  <2>2. ASSUME NEW r \in Request, Relock(r) PROVE AuthenticWire' /\ OwnAlarmsOnly'
    BY <2>2, <2>a, <2>b DEF Relock, wireVars
  <2>3. ASSUME NEW r \in Request, Acquired(r) PROVE AuthenticWire' /\ OwnAlarmsOnly'
    BY <2>3, <2>a, <2>b DEF Acquired, wireVars
  <2>4. ASSUME NEW r \in Request, ConnectSucceeds(r) PROVE AuthenticWire' /\ OwnAlarmsOnly'
    BY <2>4, <2>a, <2>c DEF ConnectSucceeds
  <2>5. ASSUME NEW r \in Request, ConnectFails(r) PROVE AuthenticWire' /\ OwnAlarmsOnly'
    BY <2>5, <2>b, <2>d DEF ConnectFails, wireVars
  <2>6. ASSUME NEW r \in Request, WriteFrame(r) PROVE AuthenticWire' /\ OwnAlarmsOnly'
    BY <2>6, <2>a, <2>b DEF WriteFrame
  <2>7. ASSUME NEW r \in Request, ReadLength(r) PROVE AuthenticWire' /\ OwnAlarmsOnly'
    BY <2>7, <2>a, TakeAuthentic DEF ReadLength
  <2>8. ASSUME NEW r \in Request, ReadPayload(r) PROVE AuthenticWire' /\ OwnAlarmsOnly'
    <3>1. AuthenticWire'
      BY <2>8, TakeAuthentic DEF ReadPayload
    <3>0. UNCHANGED authorised
      BY <2>8 DEF ReadPayload
    <3>2. ASSUME Return(r, Served(Bearer[r])), r \in authorised PROVE OwnAlarmsOnly'
      BY <3>0, <3>2 DEF OwnAlarmsOnly, Served, Return, ReqTypeOK
    <3>3. ASSUME \E kind \in {"Unauthorized", "ApiUnavailable", "Contract"} : Return(r, Failed(kind))
          PROVE  OwnAlarmsOnly'
      <4>1. PICK kind \in {"Unauthorized", "ApiUnavailable", "Contract"} : Return(r, Failed(kind))
        BY <3>3
      <4>2. QED
        BY <3>0, <4>1, <2>d
    <3>4. OwnAlarmsOnly'
      BY <2>8, <3>2, <3>3, OwnDecoded DEF ReadPayload
    <3>5. QED
      BY <3>1, <3>4
  <2>9. ASSUME NEW r \in Request, ExchangeFails(r) PROVE AuthenticWire' /\ OwnAlarmsOnly'
    BY <2>9, <2>a, <2>c, <2>d DEF ExchangeFails
  <2>10. ASSUME NEW r \in Request, ClientLeaves(r) PROVE AuthenticWire' /\ OwnAlarmsOnly'
    BY <2>10, <2>a, <2>b DEF ClientLeaves
  <2>11. ASSUME ApiAnswers PROVE AuthenticWire' /\ OwnAlarmsOnly'
    <3>1. AuthenticWire' /\ authorised \subseteq authorised'
      BY <2>11, ApiAuthentic
    <3>2. OwnAlarmsOnly'
      BY <2>11, <3>1 DEF OwnAlarmsOnly, ApiAnswers, reqVars
    <3>3. QED
      BY <3>1, <3>2
  <2>12. ASSUME ApiMisreads PROVE AuthenticWire' /\ OwnAlarmsOnly'
    <3>1. OwnAlarmsOnly'
      BY <2>12, <2>a DEF ApiMisreads, reqVars
    <3>2. [op |-> NoRequest, body |-> "invalid", alarms |-> NoToken] \in Response
      BY DEF Response, Body
    <3>3. AuthenticWire'
      BY <2>12, <2>b, <3>2, AnswerAuthentic DEF ApiMisreads
    <3>4. QED
      BY <3>1, <3>3
  <2>13. CASE UNCHANGED vars
    BY <2>13, <2>a, <2>b DEF vars, reqVars, wireVars
  <2>14. QED
    BY <2>1, <2>2, <2>3, <2>4, <2>5, <2>6, <2>7, <2>8, <2>9, <2>10, <2>11, <2>12, <2>13
       DEF Next, HandlerStep, Idle
<1>3. QED
  BY <1>1, <1>2, InitTypeOK, NextTypeOK, PTL DEF Spec

THEOREM OwnAlarms == Spec => []OwnAlarmsOnly
<1>1. IdentityInv => OwnAlarmsOnly
  BY DEF IdentityInv
<1>2. QED
  BY <1>1, IdentityInvariant, PTL

\* What fetch_tcp tells telemetry is the last thing it does.
EmitsLast == \A r \in Request : emitted[r] # "none" => pc[r] = "done"

LEMMA EmitsInvariant == Spec => []EmitsLast
<1>1. Init => EmitsLast
  BY DEF Init, EmitsLast
<1>2. TypeOK /\ EmitsLast /\ [Next]_vars => EmitsLast'
  <2> SUFFICES ASSUME ReqTypeOK, EmitsLast, [Next]_vars PROVE EmitsLast'
    BY DEF TypeOK
  <2>1. ASSUME NEW r \in Request, NEW status, Goto(r, "done"), Emit(r, status)
        PROVE  EmitsLast'
    BY <2>1 DEF Goto, Emit, EmitsLast, ReqTypeOK
  <2>2. ASSUME NEW r \in Request, NEW place, pc[r] # "done", Goto(r, place),
               UNCHANGED emitted
        PROVE  EmitsLast'
    BY <2>2 DEF Goto, EmitsLast, ReqTypeOK
  <2>3. CASE UNCHANGED reqVars
    BY <2>3 DEF EmitsLast, reqVars
  <2>4. ASSUME NEW r \in Request, HandlerStep(r) PROVE EmitsLast'
    <3>1. CASE Begin(r) \/ Relock(r) \/ Acquired(r) \/ ConnectSucceeds(r) \/ ConnectFails(r)
               \/ WriteFrame(r) \/ ReadLength(r)
      BY <2>2, <3>1
         DEF Begin, Relock, Acquired, ConnectSucceeds, ConnectFails, WriteFrame, ReadLength, Return
    <3>2. CASE ReadPayload(r)
      BY <2>1, <2>2, <3>2 DEF ReadPayload, Return
    <3>3. CASE ExchangeFails(r)
      BY <2>1, <2>2, <3>3 DEF ExchangeFails, Return, Exchanging
    <3>4. QED
      BY <2>4, <3>1, <3>2, <3>3 DEF HandlerStep
  <2>5. ASSUME NEW r \in Request, ClientLeaves(r) PROVE EmitsLast'
    BY <2>2, <2>5 DEF ClientLeaves, Exchanging
  <2>6. QED
    BY <2>3, <2>4, <2>5 DEF Next, ApiAnswers, ApiMisreads, Idle, vars
<1>3. QED
  BY <1>1, <1>2, TypeCorrect, PTL DEF Spec

\* A fetch that comes back without alarms comes back with an error the renderer
\* knows, and with the one "503" goes with if that is what it reported.
LEMMA ReturnsFailure ==
  ASSUME ReqTypeOK, WireTypeOK, EmitsLast, NEW r \in Request, HandlerStep(r),
         pc'[r] = "done", result'[r].kind # "ok"
  PROVE  \E kind \in {"Unauthorized", "ApiUnavailable", "Contract"} :
           /\ result'[r] = Failed(kind)
           /\ emitted'[r] = "503" => kind = "ApiUnavailable"
<1>1. /\ \A place : Goto(r, place) => place = "done"
      /\ \A res : Return(r, res) => result'[r] = res
  BY DEF ReqTypeOK, Goto, Return
<1>2. pc[r] # "done" /\ UNCHANGED emitted => emitted'[r] # "503"
  BY DEF EmitsLast
<1>3. CASE Begin(r)
  BY <1>1, <1>2, <1>3 DEF Begin
<1>4. CASE ConnectFails(r)
  BY <1>1, <1>4 DEF ConnectFails
<1>5. CASE ReadPayload(r)
  <2>1. Head(toWeb).resp \in Response
    BY <1>5, TakePieceType DEF ReadPayload, Piece, WireTypeOK
  <2>2. result'[r] = DecodeServiceResponse(Head(toWeb).resp, r)
    BY <1>1, <1>5 DEF ReadPayload
  <2>3. emitted'[r] # "503"
    BY <1>2, <1>5, <2>2 DEF ReadPayload
  <2>4. QED
    BY <2>1, <2>2, <2>3, Decoded DEF Served, Failed
<1>6. CASE ExchangeFails(r)
  BY <1>1, <1>6 DEF ExchangeFails
<1>7. CASE Relock(r) \/ Acquired(r) \/ ConnectSucceeds(r) \/ WriteFrame(r) \/ ReadLength(r)
  BY <1>1, <1>7 DEF Relock, Acquired, ConnectSucceeds, WriteFrame, ReadLength
<1>8. QED
  BY <1>3, <1>4, <1>5, <1>6, <1>7 DEF HandlerStep

-----------------------------------------------------------------------------
\* How the phase of a request follows its place in fetch_tcp.

LEMMA PhaseStays ==
  ASSUME ReqTypeOK, NEW r \in Request, NEW place,
         pc[r] \notin Finished, place \notin Finished, Goto(r, place)
  PROVE  Phase' = Phase
BY DEF ReqTypeOK, Goto, Phase, Finished

LEMMA PhaseAnswered ==
  ASSUME ReqTypeOK, NEW r \in Request, pc[r] \notin Finished, Goto(r, "done")
  PROVE  Phase[r] = "pending" /\ Phase' = [Phase EXCEPT ![r] = "answered"]
BY DEF ReqTypeOK, Goto, Phase, Finished

LEMMA PhaseGone ==
  ASSUME ReqTypeOK, NEW r \in Request, pc[r] \notin Finished,
         NEW place \in {"dropped", "abandoned"}, Goto(r, place)
  PROVE  Phase[r] = "pending" /\ Phase' = [Phase EXCEPT ![r] = "gone"]
BY DEF ReqTypeOK, Goto, Phase, Finished

\* A request that returns from a place before the end gives the abstract answer.
LEMMA ReturnAnswers ==
  ASSUME ReqTypeOK, NEW r \in Request, pc[r] \notin Finished, NEW res,
         Return(r, res), UNCHANGED authorised,
         \/ res = Served(Bearer[r]) /\ r \in authorised
         \/ \E kind \in {"Unauthorized", "ApiUnavailable", "Contract"} : res = Failed(kind)
  PROVE  Service!Next
<1>1. Phase[r] = "pending" /\ Phase' = [Phase EXCEPT ![r] = "answered"]
  BY PhaseAnswered DEF Return
<1>2. Service!Answer(r)
  BY <1>1 DEF Return, Service!Answer, Service!Served, Service!Failed, Served, Failed
<1>3. QED
  BY <1>2 DEF Service!Next

\* The persistent TLS connection keeps the promise every interaction mode makes
\* to the renderers, for any number of concurrent requests.
THEOREM Implements == Spec => ServiceSpec
<1>1. Init => Service!Init
  BY DEF Init, Service!Init, Phase, Finished, NoResult, Service!NoResult
<1>2. TypeOK /\ IdentityInv /\ [Next]_vars => [Service!Next]_(Service!vars)
  <2> SUFFICES ASSUME ReqTypeOK, WireTypeOK, AuthenticWire, [Next]_vars
               PROVE  Service!Next \/ UNCHANGED <<Phase, authorised, result>>
    BY DEF TypeOK, IdentityInv, Service!vars
  <2>1. ASSUME NEW r \in Request, Begin(r)
        PROVE  Service!Next \/ UNCHANGED <<Phase, authorised, result>>
    BY <2>1, PhaseStays, ReturnAnswers DEF Begin, Finished
  <2>2. ASSUME NEW r \in Request, Relock(r)
        PROVE  UNCHANGED <<Phase, authorised, result>>
    BY <2>2, PhaseStays DEF Relock, Finished
  <2>3. ASSUME NEW r \in Request, Acquired(r)
        PROVE  UNCHANGED <<Phase, authorised, result>>
    BY <2>3, PhaseStays DEF Acquired, Finished
  <2>4. ASSUME NEW r \in Request, ConnectSucceeds(r)
        PROVE  UNCHANGED <<Phase, authorised, result>>
    BY <2>4, PhaseStays DEF ConnectSucceeds, Finished
  <2>5. ASSUME NEW r \in Request, ConnectFails(r)
        PROVE  Service!Next
    BY <2>5, ReturnAnswers DEF ConnectFails, Finished
  <2>6. ASSUME NEW r \in Request, WriteFrame(r)
        PROVE  UNCHANGED <<Phase, authorised, result>>
    BY <2>6, PhaseStays DEF WriteFrame, Finished
  <2>7. ASSUME NEW r \in Request, ReadLength(r)
        PROVE  UNCHANGED <<Phase, authorised, result>>
    BY <2>7, PhaseStays DEF ReadLength, Finished
  <2>8. ASSUME NEW r \in Request, ReadPayload(r)
        PROVE  Service!Next
    <3>1. pc[r] \notin Finished /\ UNCHANGED authorised
          /\ Return(r, DecodeServiceResponse(Head(toWeb).resp, r))
      BY <2>8 DEF ReadPayload, Finished
    <3>2. QED
      BY <2>8, <3>1, OwnDecoded, ReturnAnswers
  <2>9. ASSUME NEW r \in Request, ExchangeFails(r)
        PROVE  Service!Next \/ UNCHANGED <<Phase, authorised, result>>
    BY <2>9, PhaseStays, ReturnAnswers DEF ExchangeFails, Exchanging, Finished
  <2>10. ASSUME NEW r \in Request, ClientLeaves(r)
         PROVE  Service!Next
    <3>1. pc[r] \notin Finished /\ UNCHANGED <<authorised, result>>
      BY <2>10 DEF ClientLeaves, Exchanging, Finished
    <3>2. Goto(r, "dropped") \/ Goto(r, "abandoned")
      BY <2>10 DEF ClientLeaves
    <3>3. Service!GoAway(r)
      BY <3>1, <3>2, PhaseGone DEF Service!GoAway
    <3>4. QED
      BY <3>3 DEF Service!Next
  <2>11. ASSUME ApiAnswers
         PROVE  Service!Next \/ UNCHANGED <<Phase, authorised, result>>
    <3>1. UNCHANGED <<Phase, result>>
      BY <2>11 DEF ApiAnswers, reqVars, Phase
    <3>2. PICK op \in Request : authorised' \in {authorised, authorised \cup {op}}
      BY <2>11, ApiAuthentic
    <3>3. CASE UNCHANGED authorised
      BY <3>1, <3>3
    <3>4. CASE authorised' = authorised \cup {op}
      BY <3>1, <3>4 DEF Service!Next, Service!Authorise
    <3>5. QED
      BY <3>2, <3>3, <3>4
  <2>12. ASSUME ApiMisreads
         PROVE  UNCHANGED <<Phase, authorised, result>>
    BY <2>12 DEF ApiMisreads, reqVars, Phase
  <2>13. CASE UNCHANGED vars
    BY <2>13 DEF vars, reqVars, Phase
  <2>14. QED
    BY <2>1, <2>2, <2>3, <2>4, <2>5, <2>6, <2>7, <2>8, <2>9, <2>10, <2>11, <2>12, <2>13
       DEF Next, HandlerStep, Idle
<1>3. QED
  BY <1>1, <1>2, IdentityInvariant, PTL DEF Spec, ServiceSpec, Service!Spec

-----------------------------------------------------------------------------
\* Why the lock is always passed on: whoever is between a grant and its release
\* is the holder, and those that are locking, and only they, are in the queue.
LockInv ==
  /\ Mutex!Orderly
  /\ \A r \in Request : pc[r] \in {"connecting"} \cup Exchanging => holder = r
  /\ holder # NoRequest => pc[holder] \in Awaiting
  /\ \A r \in Mutex!Waiting : pc[r] = "locking"
  /\ \A r \in Request : pc[r] = "locking" => r = holder \/ r \in Mutex!Waiting

\* Asking for the lock, ...
LEMMA LockKeeps ==
  ASSUME ReqTypeOK, Mutex!TypeOK, LockInv, NEW r \in Request,
         pc[r] \in {"new", "retry"}, Goto(r, "locking"), Mutex!Lock(r)
  PROVE  LockInv'
<1>1. pc' = [pc EXCEPT ![r] = "locking"] /\ pc \in [Request -> Place]
  BY DEF Goto, ReqTypeOK
<1>2. holder # r /\ r \notin Mutex!Waiting /\ NoRequest \notin Request
  BY <1>1, IdentityAssumption DEF LockInv, Awaiting, Exchanging
<1>3. /\ Mutex!Orderly'
      /\ \/ holder = NoRequest /\ holder' = r /\ Mutex!Waiting' = Mutex!Waiting
         \/ holder' = holder /\ holder # NoRequest /\ Mutex!Waiting' = Mutex!Waiting \cup {r}
  BY <1>2, Mutex!LockStep DEF LockInv
<1>4. Mutex!Waiting \subseteq Request
  BY Mutex!WaitingType
<1>5. QED
  BY <1>1, <1>2, <1>3, <1>4 DEF LockInv, Mutex!TypeOK, Awaiting, Exchanging

\* ... releasing it, on any way out, ...
LEMMA UnlockKeeps ==
  ASSUME ReqTypeOK, Mutex!TypeOK, LockInv, NEW r \in Request, holder = r,
         NEW place, place \notin Awaiting, Goto(r, place), Mutex!Unlock
  PROVE  LockInv'
<1>1. pc' = [pc EXCEPT ![r] = place] /\ pc \in [Request -> Place]
  BY DEF Goto, ReqTypeOK
<1>2. /\ Mutex!Orderly'
      /\ \/ holder' = NoRequest /\ Mutex!Waiting = {} /\ Mutex!Waiting' = {}
         \/ holder' \in Mutex!Waiting /\ Mutex!Waiting' = Mutex!Waiting \ {holder'}
  BY Mutex!UnlockStep, IdentityAssumption DEF LockInv
<1>3. Mutex!Waiting \subseteq Request /\ r \notin Mutex!Waiting
  BY Mutex!WaitingType DEF LockInv, Mutex!Orderly
<1>4. \A q \in Request : pc'[q] \notin {"connecting"} \cup Exchanging
  BY <1>1 DEF LockInv, Awaiting
<1>5. QED
  BY <1>1, <1>2, <1>3, <1>4 DEF LockInv, Awaiting

\* ... giving up the wait for it, ...
LEMMA LeaveQueueKeeps ==
  ASSUME ReqTypeOK, Mutex!TypeOK, LockInv, NEW r \in Request, holder # r,
         Goto(r, "dropped"), Mutex!LeaveQueue(r)
  PROVE  LockInv'
<1>1. pc' = [pc EXCEPT ![r] = "dropped"] /\ pc \in [Request -> Place]
  BY DEF Goto, ReqTypeOK
<1>2. Mutex!Orderly' /\ holder' = holder /\ Mutex!Waiting' = Mutex!Waiting \ {r}
  BY Mutex!LeaveStep DEF LockInv
<1>3. Mutex!Waiting \subseteq Request
  BY Mutex!WaitingType
<1>4. QED
  BY <1>1, <1>2, <1>3 DEF LockInv, Mutex!TypeOK, Exchanging

\* ... and moving on while it is held all keep LockInv.
LEMMA HoldKeeps ==
  ASSUME ReqTypeOK, Mutex!TypeOK, LockInv, NEW r \in Request, holder = r,
         NEW place \in {"connecting"} \cup Exchanging, Goto(r, place), UNCHANGED lockVars
  PROVE  LockInv'
<1>1. pc' = [pc EXCEPT ![r] = place] /\ pc \in [Request -> Place]
  BY DEF Goto, ReqTypeOK
<1>2. /\ holder' = holder /\ Mutex!Waiting' = Mutex!Waiting
      /\ Mutex!Orderly' = Mutex!Orderly
  BY DEF lockVars, Mutex!Waiting, Mutex!Orderly
<1>3. Mutex!Waiting \subseteq Request /\ r \notin Mutex!Waiting
  BY Mutex!WaitingType DEF LockInv, Mutex!Orderly
<1>4. QED
  BY <1>1, <1>2, <1>3 DEF LockInv, Awaiting

\* No step of anybody breaks it.
LEMMA LockNext == TypeOK /\ LockInv /\ [Next]_vars => LockInv'
<1> SUFFICES ASSUME ReqTypeOK, Mutex!TypeOK, LockInv, [Next]_vars
             PROVE  LockInv'
  BY DEF TypeOK
<1> USE DEF Exchanging, Awaiting
<1>a. ASSUME NEW r \in Request, pc[r] \in {"connecting"} \cup Exchanging PROVE holder = r
  BY <1>a DEF LockInv
<1>b. ASSUME UNCHANGED lockVars
      PROVE  /\ holder' = holder /\ Mutex!Waiting' = Mutex!Waiting
             /\ Mutex!Orderly' = Mutex!Orderly
  BY <1>b DEF lockVars, Mutex!Waiting, Mutex!Orderly
<1>c. ASSUME UNCHANGED <<pc, lockVars>> PROVE LockInv'
  BY <1>b, <1>c DEF LockInv
<1>1. ASSUME NEW r \in Request, Begin(r) PROVE LockInv'
  <2>1. CASE Return(r, Failed("Contract")) /\ UNCHANGED lockVars
    <3>1. pc[r] = "new" /\ pc' = [pc EXCEPT ![r] = "done"] /\ pc \in [Request -> Place]
      BY <1>1, <2>1 DEF Begin, Return, Goto, ReqTypeOK
    <3>2. Mutex!Waiting \subseteq Request
      BY Mutex!WaitingType
    <3>3. QED
      BY <1>b, <2>1, <3>1, <3>2 DEF LockInv, Mutex!TypeOK
  <2>2. CASE Goto(r, "locking") /\ Mutex!Lock(r)
    BY <1>1, <2>2, LockKeeps DEF Begin
  <2>3. QED
    BY <1>1, <2>1, <2>2 DEF Begin
<1>2. ASSUME NEW r \in Request, Relock(r) PROVE LockInv'
  BY <1>2, LockKeeps DEF Relock
<1>3. ASSUME NEW r \in Request, Acquired(r) PROVE LockInv'
  BY <1>3, HoldKeeps DEF Acquired
<1>4. ASSUME NEW r \in Request, ConnectSucceeds(r) PROVE LockInv'
  BY <1>4, <1>a, HoldKeeps DEF ConnectSucceeds
<1>5. ASSUME NEW r \in Request, ConnectFails(r) PROVE LockInv'
  BY <1>5, <1>a, UnlockKeeps DEF ConnectFails, Return
<1>6. ASSUME NEW r \in Request, WriteFrame(r) PROVE LockInv'
  BY <1>6, <1>a, HoldKeeps DEF WriteFrame
<1>7. ASSUME NEW r \in Request, ReadLength(r) PROVE LockInv'
  BY <1>7, <1>a, HoldKeeps DEF ReadLength
<1>8. ASSUME NEW r \in Request, ReadPayload(r) PROVE LockInv'
  BY <1>8, <1>a, UnlockKeeps DEF ReadPayload, Return
<1>9. ASSUME NEW r \in Request, ExchangeFails(r) PROVE LockInv'
  BY <1>9, <1>a, UnlockKeeps DEF ExchangeFails, Return
<1>10. ASSUME NEW r \in Request, ClientLeaves(r) PROVE LockInv'
  <2>1. CASE pc[r] = "locking"
    <3>1. CASE holder = r
      BY <1>10, <2>1, <3>1, UnlockKeeps DEF ClientLeaves
    <3>2. CASE holder # r
      BY <1>10, <2>1, <3>2, LeaveQueueKeeps DEF ClientLeaves
    <3>3. QED
      BY <3>1, <3>2
  <2>2. CASE pc[r] # "locking"
    BY <1>10, <2>2, <1>a, UnlockKeeps DEF ClientLeaves
  <2>3. QED
    BY <2>1, <2>2
<1>11. CASE ApiAnswers
  BY <1>11, <1>c DEF ApiAnswers, reqVars
<1>12. CASE ApiMisreads
  BY <1>12, <1>c DEF ApiMisreads, reqVars
<1>13. CASE UNCHANGED vars
  BY <1>13, <1>c DEF vars, reqVars
<1>14. QED
  BY <1>1, <1>2, <1>3, <1>4, <1>5, <1>6, <1>7, <1>8, <1>9, <1>10, <1>11, <1>12, <1>13
     DEF Next, HandlerStep, Idle

LEMMA LockInvariant == Spec => []LockInv
<1>1. Init => LockInv
  BY DEF Init, LockInv, Exchanging, Mutex!Init, Mutex!Orderly, Mutex!Waiting
<1>2. QED
  BY <1>1, LockNext, TypeCorrect, PTL DEF Spec

\* LockIsReleased for any number of requests: on every way out of fetch_tcp,
\* through ?, a retry or a dropped future, the guard is given back.
THEOREM LockReleased == Spec => []LockIsReleased
<1>1. LockInv => LockIsReleased
  BY DEF LockInv, LockIsReleased, Mutex!Orderly
<1>2. QED
  BY <1>1, LockInvariant, PTL

-----------------------------------------------------------------------------
\* Why a bearer too long to frame costs only its own request anything: past its first
\* step that request is over, and every other step is of a request that is not.
LongInv ==
  \A r \in Request : Bearer[r] \in LongTokens =>
    /\ pc[r] \in {"new", "done"}
    /\ pc[r] = "done" => result[r] = Failed("Contract")

LEMMA LongInvariant == Spec => []LongInv
<1>1. Init => LongInv
  BY DEF Init, LongInv
<1>2. TypeOK /\ LongInv /\ [Next]_vars => LongInv'
  <2> SUFFICES ASSUME ReqTypeOK, LongInv, [Next]_vars PROVE LongInv'
    BY DEF TypeOK
  <2>a. ASSUME UNCHANGED reqVars PROVE LongInv'
    BY <2>a DEF LongInv, reqVars
  \* A step of a request past its first one, and not over.
  <2>b. ASSUME NEW r \in Request, pc[r] \notin {"new", "done"}, NEW place, Goto(r, place),
               \/ UNCHANGED result
               \/ \E res : result' = [result EXCEPT ![r] = res]
        PROVE  LongInv'
    BY <2>b DEF LongInv, Goto, ReqTypeOK
  <2>1. ASSUME NEW r \in Request, Begin(r) PROVE LongInv'
    <3>1. CASE Bearer[r] \in LongTokens
      BY <2>1, <3>1 DEF Begin, LongInv, Return, Goto, ReqTypeOK
    <3>2. CASE Bearer[r] \notin LongTokens
      BY <2>1, <3>2 DEF Begin, LongInv, Goto, ReqTypeOK
    <3>3. QED
      BY <3>1, <3>2
  <2>2. ASSUME NEW r \in Request, Relock(r) \/ Acquired(r) PROVE LongInv'
    BY <2>2, <2>b DEF Relock, Acquired
  <2>3. ASSUME NEW r \in Request, ConnectSucceeds(r) \/ ConnectFails(r) PROVE LongInv'
    BY <2>3, <2>b DEF ConnectSucceeds, ConnectFails, Return
  <2>4. ASSUME NEW r \in Request, WriteFrame(r) \/ ReadLength(r) PROVE LongInv'
    BY <2>4, <2>b DEF WriteFrame, ReadLength
  <2>5. ASSUME NEW r \in Request, ReadPayload(r) PROVE LongInv'
    BY <2>5, <2>b DEF ReadPayload, Return
  <2>6. ASSUME NEW r \in Request, ExchangeFails(r) PROVE LongInv'
    BY <2>6, <2>b DEF ExchangeFails, Return, Exchanging
  <2>7. ASSUME NEW r \in Request, ClientLeaves(r) PROVE LongInv'
    BY <2>7, <2>b DEF ClientLeaves, Exchanging
  <2>8. QED
    BY <2>a, <2>1, <2>2, <2>3, <2>4, <2>5, <2>6, <2>7
       DEF Next, HandlerStep, ApiAnswers, ApiMisreads, Idle, vars, reqVars
<1>3. QED
  BY <1>1, <1>2, TypeCorrect, PTL DEF Spec

\* However long its bearer is, a request neither takes the connection from the others
\* nor waits for it: it is refused before it asks for the lock.
THEOREM LongAlone == Spec => []LongFailsAlone
<1>1. LongInv /\ LockInv => LongFailsAlone
  BY IdentityAssumption DEF LongInv, LockInv, LongFailsAlone, Awaiting, Exchanging
<1>2. QED
  BY <1>1, LongInvariant, LockInvariant, PTL

-----------------------------------------------------------------------------
\* The operations that have bytes on the connection, in either direction.
OnWire == {toApi[i].op : i \in 1..Len(toApi)} \cup {toWeb[i].resp.op : i \in 1..Len(toWeb)}

\* A fresh connection carries none, ...
LEMMA FreshOnWire ==
  ASSUME FreshWire
  PROVE  OnWire' = {}
BY DEF FreshWire, OnWire

\* ... a written frame adds its own, ...
LEMMA AppendOnWire ==
  ASSUME WireTypeOK, NEW frame \in Frame, toApi' = Append(toApi, frame), UNCHANGED toWeb
  PROVE  OnWire' = OnWire \cup {frame.op}
<1>1. toApi \in Seq(Frame) /\ Len(toApi) \in Nat
  BY LenProperties DEF WireTypeOK
<1>2. /\ Len(toApi') = Len(toApi) + 1
      /\ \A i \in 1..Len(toApi) : toApi'[i] = toApi[i]
      /\ toApi'[Len(toApi) + 1] = frame
  BY <1>1, AppendProperties
<1>3. {toApi'[i].op : i \in 1..Len(toApi')} = {toApi[i].op : i \in 1..Len(toApi)} \cup {frame.op}
  BY <1>1, <1>2
<1>4. QED
  BY <1>3 DEF OnWire

\* ... a read piece adds nothing, ...
LEMMA TakeOnWire ==
  ASSUME WireTypeOK, toWeb # <<>>, toWeb' = Tail(toWeb), UNCHANGED toApi
  PROVE  OnWire' \subseteq OnWire
<1>1. toWeb \in Seq(Piece) /\ Len(toWeb) \in Nat
  BY LenProperties DEF WireTypeOK
<1>2. /\ Len(toWeb') = Len(toWeb) - 1
      /\ \A i \in 1..Len(toWeb') : i + 1 \in 1..Len(toWeb) /\ toWeb'[i] = toWeb[i + 1]
  BY <1>1, HeadTailProperties
<1>3. QED
  BY <1>2 DEF OnWire

\* ... and an answer is to the operation it answers.
LEMMA AnswerOnWire ==
  ASSUME WireTypeOK, NEW resp \in Response, Answer(resp)
  PROVE  {toWeb'[i].resp.op : i \in 1..Len(toWeb')}
           \subseteq {toWeb[i].resp.op : i \in 1..Len(toWeb)} \cup {resp.op}
BY AnswerPieces

LEMMA ApiOnWire ==
  ASSUME WireTypeOK, ApiAnswers \/ ApiMisreads
  PROVE  OnWire' \subseteq OnWire \cup {NoRequest}
<1>1. toApi \in Seq(Frame) /\ Len(toApi) \in Nat /\ Len(toApi) >= 1
  BY LenProperties, EmptySeq DEF WireTypeOK, ApiAnswers, ApiMisreads
<1>2. /\ Tail(toApi) \in Seq(Frame) /\ Len(Tail(toApi)) = Len(toApi) - 1
      /\ \A i \in 1..Len(Tail(toApi)) : i + 1 \in 1..Len(toApi) /\ Tail(toApi)[i] = toApi[i + 1]
  BY <1>1, HeadTailProperties
<1>3. Head(toApi) = toApi[1] /\ Head(toApi).op \in OnWire /\ Head(toApi) \in Frame
  BY <1>1, HeadTailProperties DEF OnWire
<1>4. CASE ApiAnswers
  <2> DEFINE op == Head(toApi).op
             resp(body) == [op |-> op, body |-> body,
                            alarms |-> IF body \in {"ok", "okWithError"} THEN Bearer[op] ELSE NoToken]
  <2>1. PICK body \in ApiBodies : Answer(resp(body))
    BY <1>4 DEF ApiAnswers
  <2>2. resp(body) \in Response /\ resp(body).op = op
    BY <1>3, IdentityAssumption, ApiAssumption DEF Response, Frame
  <2>3. {toApi'[i].op : i \in 1..Len(toApi')} \subseteq OnWire
    BY <1>2, <1>4 DEF OnWire, ApiAnswers
  <2> HIDE DEF resp, op
  <2>4. {toWeb'[i].resp.op : i \in 1..Len(toWeb')} \subseteq OnWire \cup {op}
    BY <2>1, <2>2, AnswerOnWire DEF OnWire
  <2>5. QED
    BY <1>3, <2>3, <2>4 DEF OnWire, op
<1>5. CASE ApiMisreads
  <2>1. {toApi'[i].op : i \in 1..Len(toApi')} \subseteq OnWire
    BY <1>1, <1>5, DropSecond DEF ApiMisreads, OnWire
  <2>2. [op |-> NoRequest, body |-> "invalid", alarms |-> NoToken] \in Response
    BY DEF Response, Body
  <2>3. {toWeb'[i].resp.op : i \in 1..Len(toWeb')} \subseteq OnWire \cup {NoRequest}
    BY <1>5, <2>2, AnswerOnWire DEF ApiMisreads, OnWire
  <2>4. QED
    BY <2>1, <2>3 DEF OnWire
<1>6. QED
  BY <1>4, <1>5

\* Why a retry never meets its first attempt: a request has bytes on the connection
\* only between its WriteFrame and the end of that exchange, whose failure drops
\* the connection, and after it is over.
UnsentInv ==
  \A r \in Request : pc[r] \in {"new", "retry", "locking", "connecting", "writing"} =>
    r \notin OnWire

LEMMA UnsentInvariant == Spec => []UnsentInv
<1>1. Init => UnsentInv
  <2> SUFFICES ASSUME Init PROVE OnWire = {}
    BY DEF UnsentInv
  <2>1. toApi = <<>> /\ toWeb = <<>> /\ Len(<<>>) = 0
    BY DEF Init
  <2>2. QED
    BY <2>1 DEF OnWire
<1>2. TypeOK /\ UnsentInv /\ [Next]_vars => UnsentInv'
  <2> SUFFICES ASSUME ReqTypeOK, WireTypeOK, UnsentInv, [Next]_vars PROVE UnsentInv'
    BY DEF TypeOK
  <2> DEFINE Unsent == {"new", "retry", "locking", "connecting", "writing"}
  <2>a. ASSUME NEW r \in Request, NEW place, Goto(r, place), OnWire' \subseteq OnWire,
               place \in Unsent => pc[r] \in Unsent
        PROVE  UnsentInv'
    BY <2>a DEF UnsentInv, Goto, ReqTypeOK
  <2>b. ASSUME NEW r \in Request, NEW place, Goto(r, place), place \notin Unsent,
               OnWire' \subseteq OnWire \cup {r}
        PROVE  UnsentInv'
    BY <2>b DEF UnsentInv, Goto, ReqTypeOK
  <2>c. ASSUME UNCHANGED pc, OnWire' \subseteq OnWire \cup {NoRequest} PROVE UnsentInv'
    BY <2>c, IdentityAssumption DEF UnsentInv
  <2>d. ASSUME FreshWire PROVE UnsentInv'
    BY <2>d, FreshOnWire DEF UnsentInv
  <2>e. ASSUME UNCHANGED <<toApi, toWeb>> PROVE OnWire' = OnWire
    BY <2>e DEF OnWire
  <2>1. ASSUME NEW r \in Request, Begin(r) PROVE UnsentInv'
    BY <2>1, <2>a, <2>e DEF Begin, Return, wireVars
  <2>2. ASSUME NEW r \in Request, Relock(r) PROVE UnsentInv'
    BY <2>2, <2>a, <2>e DEF Relock, wireVars
  <2>3. ASSUME NEW r \in Request, Acquired(r) PROVE UnsentInv'
    BY <2>3, <2>a, <2>e DEF Acquired, wireVars
  <2>4. ASSUME NEW r \in Request, ConnectSucceeds(r) PROVE UnsentInv'
    BY <2>4, <2>d DEF ConnectSucceeds
  <2>5. ASSUME NEW r \in Request, ConnectFails(r) PROVE UnsentInv'
    BY <2>5, <2>a, <2>e DEF ConnectFails, Return, wireVars
  <2>6. ASSUME NEW r \in Request, WriteFrame(r) PROVE UnsentInv'
    <3>1. [op |-> r, whole |-> TRUE] \in Frame
      BY DEF Frame
    <3>2. OnWire' \subseteq OnWire \cup {r}
      BY <2>6, <3>1, AppendOnWire DEF WriteFrame
    <3>3. QED
      BY <2>6, <2>b, <3>2 DEF WriteFrame
  <2>7. ASSUME NEW r \in Request, ReadLength(r) PROVE UnsentInv'
    BY <2>7, <2>a, TakeOnWire DEF ReadLength
  <2>8. ASSUME NEW r \in Request, ReadPayload(r) PROVE UnsentInv'
    BY <2>8, <2>a, TakeOnWire DEF ReadPayload, Return
  <2>9. ASSUME NEW r \in Request, ExchangeFails(r) PROVE UnsentInv'
    BY <2>9, <2>d DEF ExchangeFails
  <2>10. ASSUME NEW r \in Request, ClientLeaves(r) PROVE UnsentInv'
    <3>1. Goto(r, "dropped") \/ Goto(r, "abandoned")
      BY <2>10 DEF ClientLeaves
    <3>2. OnWire' \subseteq OnWire \cup {r}
      <4>1. CASE UNCHANGED toApi
        BY <2>10, <2>e, <4>1 DEF ClientLeaves
      <4>2. CASE \E whole \in BOOLEAN : toApi' = Append(toApi, [op |-> r, whole |-> whole])
        <5>1. PICK whole \in BOOLEAN : toApi' = Append(toApi, [op |-> r, whole |-> whole])
          BY <4>2
        <5>2. [op |-> r, whole |-> whole] \in Frame /\ UNCHANGED toWeb
          BY <2>10 DEF Frame, ClientLeaves
        <5>3. QED
          BY <5>1, <5>2, AppendOnWire
      <4>3. QED
        BY <2>10, <4>1, <4>2 DEF ClientLeaves
    <3>3. QED
      BY <2>b, <3>1, <3>2
  <2>11. CASE ApiAnswers
    BY <2>11, <2>c, ApiOnWire DEF ApiAnswers, reqVars
  <2>12. CASE ApiMisreads
    BY <2>12, <2>c, ApiOnWire DEF ApiMisreads, reqVars
  <2>13. CASE UNCHANGED vars
    BY <2>13, <2>c, <2>e DEF vars, reqVars, wireVars
  <2>14. QED
    BY <2>1, <2>2, <2>3, <2>4, <2>5, <2>6, <2>7, <2>8, <2>9, <2>10, <2>11, <2>12, <2>13
       DEF Next, HandlerStep, Idle
<1>3. QED
  BY <1>1, <1>2, TypeCorrect, PTL DEF Spec

\* A second attempt never shares a connection with the first, nor finds anything
\* of its own on the one it is given.
THEOREM RetriesAfresh == Spec => []RetryOnFreshStream
<1>1. UnsentInv => RetryOnFreshStream
  BY DEF UnsentInv, OnWire, RetryOnFreshStream
<1>2. QED
  BY <1>1, UnsentInvariant, PTL

-----------------------------------------------------------------------------
\* What is on the connection while nobody has abandoned an exchange: what the one
\* request that exchanges has sent and not been answered, or been answered and not
\* read, and nothing once it is through.
NobodyAbandons == \A r \in Request : pc[r] # "abandoned"

Quiet == toApi = <<>> /\ toWeb = <<>>

Asked(r) == toApi = <<[op |-> r, whole |-> TRUE]>> /\ toWeb = <<>>

OwnResponse(r) == {resp \in Response : resp.op = r /\ resp.body \in ApiBodies}

Answered(r) ==
  /\ toApi = <<>>
  /\ \E resp \in OwnResponse(r) :
       toWeb = <<[part |-> "length", resp |-> resp], [part |-> "payload", resp |-> resp]>>

HalfRead(r) ==
  /\ toApi = <<>>
  /\ \E resp \in OwnResponse(r) : toWeb = <<[part |-> "payload", resp |-> resp]>>

Carries(r) ==
  /\ pc[r] = "writing" => Quiet
  /\ pc[r] = "readLength" => Asked(r) \/ Answered(r)
  /\ pc[r] = "readPayload" => HalfRead(r)

InStep ==
  /\ (\A r \in Request : pc[r] \notin Exchanging) => Quiet
  /\ \A r \in Request : Carries(r)

WireInv == NobodyAbandons => InStep

\* Whoever holds the guard exchanges alone.
LEMMA Alone ==
  ASSUME LockInv, NEW r \in Request, holder = r, NEW q \in Request \ {r}
  PROVE  pc[q] \notin Exchanging
BY DEF LockInv

\* Its exchange goes on, ...
LEMMA ExchangeKeeps ==
  ASSUME ReqTypeOK, LockInv, NEW r \in Request, holder = r,
         NEW place \in Exchanging, Goto(r, place), Carries(r)'
  PROVE  InStep'
<1>1. pc' = [pc EXCEPT ![r] = place] /\ pc \in [Request -> Place]
  BY DEF Goto, ReqTypeOK
<1>2. \A q \in Request \ {r} : pc'[q] \notin Exchanging
  BY <1>1, Alone
<1>3. \A q \in Request \ {r} : Carries(q)'
  BY <1>2 DEF Carries, Exchanging
<1>4. pc'[r] \in Exchanging
  BY <1>1
<1>5. QED
  BY <1>3, <1>4 DEF InStep

\* ... or ends and leaves nothing behind, ...
LEMMA EndKeeps ==
  ASSUME ReqTypeOK, LockInv, NEW r \in Request, holder = r,
         NEW place, place \notin Exchanging, Goto(r, place), Quiet'
  PROVE  InStep'
<1>1. pc' = [pc EXCEPT ![r] = place] /\ pc \in [Request -> Place]
  BY DEF Goto, ReqTypeOK
<1>2. \A q \in Request : pc'[q] \notin Exchanging
  BY <1>1, Alone
<1>3. \A q \in Request : Carries(q)'
  BY <1>2 DEF Carries, Exchanging
<1>4. QED
  BY <1>3 DEF InStep

\* ... and who does not exchange is not on the connection.
LEMMA AsideKeeps ==
  ASSUME ReqTypeOK, InStep, NEW r \in Request, pc[r] \notin Exchanging,
         NEW place, place \notin Exchanging, Goto(r, place), UNCHANGED <<toApi, toWeb>>
  PROVE  InStep'
<1>1. pc' = [pc EXCEPT ![r] = place] /\ pc \in [Request -> Place]
  BY DEF Goto, ReqTypeOK
<1>2. /\ Quiet' = Quiet
      /\ \A q \in Request : (pc'[q] \in Exchanging) = (pc[q] \in Exchanging)
  BY <1>1 DEF Quiet
<1>3. ASSUME NEW q \in Request PROVE Carries(q)'
  <2>1. Asked(q)' = Asked(q) /\ Answered(q)' = Answered(q) /\ HalfRead(q)' = HalfRead(q)
    BY DEF Asked, Answered, HalfRead
  <2>2. pc'[q] \in Exchanging => pc'[q] = pc[q]
    BY <1>1
  <2>3. QED
    BY <1>2, <2>1, <2>2 DEF InStep, Carries, Exchanging
<1>4. QED
  BY <1>2, <1>3 DEF InStep

\* The API answers the one frame there is.
LEMMA ApiAnswersInStep ==
  ASSUME ReqTypeOK, WireTypeOK, LockInv, InStep, ApiAnswers
  PROVE  InStep'
<1>1. toApi # <<>>
  BY DEF ApiAnswers
<1>2. PICK r \in Request : pc[r] \in Exchanging
  BY <1>1 DEF InStep, Quiet
<1>3. holder = r
  BY <1>2 DEF LockInv
<1>4. pc[r] = "readLength" /\ Asked(r)
  BY <1>1, <1>2 DEF InStep, Carries, Exchanging, Quiet, Answered, HalfRead
<1>5. toApi = <<[op |-> r, whole |-> TRUE]>> /\ toWeb = <<>>
  BY <1>4 DEF Asked
<1>6. Head(toApi).op = r /\ Tail(toApi) = <<>>
  BY <1>5
<1> DEFINE resp(body) == [op |-> r, body |-> body,
                          alarms |-> IF body \in {"ok", "okWithError"} THEN Bearer[r] ELSE NoToken]
<1>7. PICK body \in ApiBodies : Answer(resp(body))
  BY <1>6 DEF ApiAnswers
<1>8. resp(body) \in OwnResponse(r)
  BY IdentityAssumption, ApiAssumption DEF OwnResponse, Response
<1> HIDE DEF resp
<1>9. toWeb' = <<[part |-> "length",  resp |-> resp(body)],
                 [part |-> "payload", resp |-> resp(body)]>>
  BY <1>5, <1>7 DEF Answer
<1>10. toApi' = <<>> /\ pc' = pc
  BY <1>6 DEF ApiAnswers, reqVars
<1>11. Answered(r)'
  BY <1>8, <1>9, <1>10 DEF Answered, OwnResponse
<1>12. Carries(r)'
  BY <1>4, <1>10, <1>11 DEF Carries
<1>13. Goto(r, "readLength")
  BY <1>4, <1>10 DEF Goto, ReqTypeOK
<1>14. QED
  BY <1>3, <1>12, <1>13, ExchangeKeeps DEF Exchanging

\* It never has two frames to mix up.
LEMMA NoMisreading ==
  ASSUME InStep
  PROVE  ~ ApiMisreads
<1>1. Quiet \/ \E r \in Request : pc[r] \in Exchanging /\ Carries(r)
  BY DEF InStep
<1>2. toApi = <<>> \/ \E r \in Request : toApi = <<[op |-> r, whole |-> TRUE]>>
  BY <1>1 DEF Carries, Exchanging, Quiet, Asked, Answered, HalfRead
<1>3. Len(toApi) \in {0, 1}
  <2>1. \A frame : Len(<<frame>>) = 1
    OBVIOUS
  <2>2. CASE toApi = <<>>
    BY <2>2
  <2>3. CASE \E r \in Request : toApi = <<[op |-> r, whole |-> TRUE]>>
    BY <2>1, <2>3
  <2>4. QED
    BY <1>2, <2>2, <2>3
<1>4. QED
  BY <1>3 DEF ApiMisreads

LEMMA WireNext == TypeOK /\ LockInv /\ WireInv /\ [Next]_vars => WireInv'
<1> SUFFICES ASSUME ReqTypeOK, WireTypeOK, LockInv, WireInv, [Next]_vars, NobodyAbandons'
             PROVE  InStep'
  BY DEF TypeOK, WireInv
<1>a. ASSUME NEW r \in Request, pc[r] # "abandoned", NEW place, Goto(r, place) PROVE InStep
  BY <1>a DEF NobodyAbandons, WireInv, Goto, ReqTypeOK
<1>b. ASSUME UNCHANGED pc PROVE InStep
  BY <1>b DEF NobodyAbandons, WireInv
<1>c. ASSUME NEW r \in Request, pc[r] \in {"connecting"} \cup Exchanging PROVE holder = r
  BY <1>c DEF LockInv
<1> USE DEF Exchanging
<1>1. ASSUME NEW r \in Request, Begin(r) PROVE InStep'
  BY <1>1, <1>a, AsideKeeps DEF Begin, Return, wireVars
<1>2. ASSUME NEW r \in Request, Relock(r) PROVE InStep'
  BY <1>2, <1>a, AsideKeeps DEF Relock, wireVars
<1>3. ASSUME NEW r \in Request, Acquired(r) PROVE InStep'
  <2>1. InStep /\ pc[r] = "locking" /\ holder = r /\ UNCHANGED <<toApi, toWeb>>
    BY <1>3, <1>a DEF Acquired, wireVars
  <2>2. CASE Goto(r, "connecting")
    BY <2>1, <2>2, AsideKeeps
  <2>3. CASE Goto(r, "writing")
    <3>1. Quiet
      BY <2>1, Alone DEF InStep
    <3>2. Carries(r)'
      BY <2>1, <2>3, <3>1 DEF Carries, Quiet, Goto, ReqTypeOK
    <3>3. QED
      BY <2>1, <2>3, <3>2, ExchangeKeeps
  <2>4. QED
    BY <1>3, <2>2, <2>3 DEF Acquired
<1>4. ASSUME NEW r \in Request, ConnectSucceeds(r) PROVE InStep'
  <2>1. Goto(r, "writing") /\ holder = r
    BY <1>4, <1>c DEF ConnectSucceeds
  <2>2. Carries(r)'
    BY <1>4, <2>1 DEF ConnectSucceeds, FreshWire, Carries, Quiet, Goto, ReqTypeOK
  <2>3. QED
    BY <2>1, <2>2, ExchangeKeeps
<1>5. ASSUME NEW r \in Request, ConnectFails(r) PROVE InStep'
  BY <1>5, <1>a, AsideKeeps DEF ConnectFails, Return, wireVars
<1>6. ASSUME NEW r \in Request, WriteFrame(r) PROVE InStep'
  <2>1. Goto(r, "readLength") /\ holder = r
    BY <1>6, <1>c DEF WriteFrame
  <2>2. toApi = <<>> /\ toWeb = <<>>
    BY <1>6, <1>a DEF WriteFrame, InStep, Carries, Quiet
  <2>3. Asked(r)'
    BY <1>6, <2>2 DEF WriteFrame, Asked
  <2>4. Carries(r)'
    BY <2>1, <2>3 DEF Carries, Goto, ReqTypeOK
  <2>5. QED
    BY <2>1, <2>4, ExchangeKeeps
<1>7. ASSUME NEW r \in Request, ReadLength(r) PROVE InStep'
  <2>1. Goto(r, "readPayload") /\ holder = r
    BY <1>7, <1>c DEF ReadLength
  <2>2. Answered(r)
    BY <1>7, <1>a DEF ReadLength, InStep, Carries, Asked
  <2>3. HalfRead(r)'
    BY <1>7, <2>2 DEF ReadLength, Answered, HalfRead
  <2>4. Carries(r)'
    BY <2>1, <2>3 DEF Carries, Goto, ReqTypeOK
  <2>5. QED
    BY <2>1, <2>4, ExchangeKeeps
<1>8. ASSUME NEW r \in Request, ReadPayload(r) PROVE InStep'
  <2>1. Goto(r, "done") /\ holder = r
    BY <1>8, <1>c DEF ReadPayload, Return
  <2>2. HalfRead(r)
    BY <1>8, <1>a, <2>1 DEF ReadPayload, InStep, Carries
  <2>3. Quiet'
    BY <1>8, <2>2 DEF ReadPayload, HalfRead, Quiet
  <2>4. QED
    BY <2>1, <2>3, EndKeeps
<1>9. ASSUME NEW r \in Request, ExchangeFails(r) PROVE InStep'
  <2>1. holder = r /\ Quiet'
    BY <1>9, <1>c DEF ExchangeFails, FreshWire, Quiet
  <2>2. Goto(r, "retry") \/ Goto(r, "done")
    BY <1>9 DEF ExchangeFails, Return
  <2>3. QED
    BY <2>1, <2>2, EndKeeps
<1>10. ASSUME NEW r \in Request, ClientLeaves(r) PROVE InStep'
  <2>1. CASE pc[r] \in {"locking", "connecting"}
    BY <1>10, <1>a, <2>1, AsideKeeps DEF ClientLeaves
  <2>2. CASE pc[r] \in Exchanging
    BY <1>10, <2>2 DEF ClientLeaves, Goto, ReqTypeOK, NobodyAbandons
  <2>3. QED
    BY <1>10, <2>1, <2>2 DEF ClientLeaves
<1>11. CASE ApiAnswers
  BY <1>11, <1>b, ApiAnswersInStep DEF ApiAnswers, reqVars
<1>12. CASE ApiMisreads
  BY <1>12, <1>b, NoMisreading DEF ApiMisreads, reqVars
<1>13. CASE UNCHANGED vars
  BY <1>13, <1>b DEF vars, reqVars, wireVars, InStep, Carries, Quiet, Asked, Answered, HalfRead
<1>14. QED
  BY <1>1, <1>2, <1>3, <1>4, <1>5, <1>6, <1>7, <1>8, <1>9, <1>10, <1>11, <1>12, <1>13
     DEF Next, HandlerStep, Idle

LEMMA WireInvariant == Spec => []WireInv
<1>1. Init => WireInv
  BY DEF Init, WireInv, InStep, Carries, Quiet, Exchanging
<1>2. QED
  BY <1>1, WireNext, TypeCorrect, LockInvariant, PTL DEF Spec

\* Until some browser leaves in mid-exchange, every request that takes the
\* connection over finds it empty, whatever failed before it.
THEOREM HandedOverClean == Spec => []CleanHandover
<1>1. WireInv => CleanHandover
  BY DEF WireInv, InStep, NobodyAbandons, Quiet, CleanHandover
<1>2. QED
  BY <1>1, WireInvariant, PTL

\* A conforming response to the request that reads it never is a violation.
LEMMA OwnConforms ==
  ASSUME NEW r \in Request, NEW resp \in OwnResponse(r), ApiBodies \subseteq ConformingBody
  PROVE  DecodeServiceResponse(resp, r).kind # "Contract"
BY DEF OwnResponse, ConformingBody, DecodeServiceResponse, Served, Failed

\* Until then a conforming API is never blamed for a response, and nobody but the
\* sender of an oversized bearer is told of a violated contract.
THEOREM BlamedForCause == Spec => []ContractBlame
<1>1. Init => ContractBlame
  BY DEF Init, ContractBlame, NoResult
<1>2. TypeOK /\ LockInv /\ WireInv /\ ContractBlame /\ [Next]_vars => ContractBlame'
  <2> SUFFICES ASSUME ReqTypeOK, LockInv, WireInv, ContractBlame, [Next]_vars,
                      ApiBodies \subseteq ConformingBody, NobodyAbandons',
                      NEW q \in Request, result'[q].kind = "Contract"
               PROVE  Bearer[q] \in LongTokens
    BY DEF TypeOK, ContractBlame, NobodyAbandons
  <2>a. ASSUME NEW r \in Request, pc[r] # "abandoned", NEW place, Goto(r, place)
        PROVE  NobodyAbandons
    BY <2>a DEF NobodyAbandons, Goto, ReqTypeOK
  <2>b. ASSUME NobodyAbandons, UNCHANGED result PROVE Bearer[q] \in LongTokens
    BY <2>b DEF ContractBlame, NobodyAbandons
  <2>c. ASSUME NEW r \in Request, pc[r] # "abandoned", NEW res, Return(r, res),
               res.kind = "Contract" => Bearer[r] \in LongTokens
        PROVE  Bearer[q] \in LongTokens
    BY <2>a, <2>c DEF ContractBlame, NobodyAbandons, Return, ReqTypeOK
  <2> USE DEF Exchanging
  <2>1. ASSUME NEW r \in Request, Begin(r) PROVE Bearer[q] \in LongTokens
    BY <2>1, <2>a, <2>b, <2>c DEF Begin
  <2>2. ASSUME NEW r \in Request, Relock(r) PROVE Bearer[q] \in LongTokens
    BY <2>2, <2>a, <2>b DEF Relock
  <2>3. ASSUME NEW r \in Request, Acquired(r) PROVE Bearer[q] \in LongTokens
    BY <2>3, <2>a, <2>b DEF Acquired
  <2>4. ASSUME NEW r \in Request, ConnectSucceeds(r) PROVE Bearer[q] \in LongTokens
    BY <2>4, <2>a, <2>b DEF ConnectSucceeds
  <2>5. ASSUME NEW r \in Request, ConnectFails(r) PROVE Bearer[q] \in LongTokens
    BY <2>5, <2>c DEF ConnectFails, Failed
  <2>6. ASSUME NEW r \in Request, WriteFrame(r) PROVE Bearer[q] \in LongTokens
    BY <2>6, <2>a, <2>b DEF WriteFrame
  <2>7. ASSUME NEW r \in Request, ReadLength(r) PROVE Bearer[q] \in LongTokens
    BY <2>7, <2>a, <2>b DEF ReadLength
  <2>8. ASSUME NEW r \in Request, ReadPayload(r) PROVE Bearer[q] \in LongTokens
    <3>1. HalfRead(r)
      BY <2>8, <2>a DEF ReadPayload, Return, WireInv, InStep, Carries
    <3>2. Head(toWeb).resp \in OwnResponse(r)
      BY <3>1 DEF HalfRead
    <3>3. QED
      BY <2>8, <2>c, <3>2, OwnConforms DEF ReadPayload
  <2>9. ASSUME NEW r \in Request, ExchangeFails(r) PROVE Bearer[q] \in LongTokens
    BY <2>9, <2>a, <2>b, <2>c DEF ExchangeFails, Failed
  <2>10. ASSUME NEW r \in Request, ClientLeaves(r) PROVE Bearer[q] \in LongTokens
    BY <2>10, <2>a, <2>b DEF ClientLeaves
  <2>11. CASE ApiAnswers \/ ApiMisreads \/ UNCHANGED vars
    <3>1. UNCHANGED <<pc, result>>
      BY <2>11 DEF ApiAnswers, ApiMisreads, vars, reqVars
    <3>2. QED
      BY <2>b, <3>1 DEF NobodyAbandons
  <2>12. QED
    BY <2>1, <2>2, <2>3, <2>4, <2>5, <2>6, <2>7, <2>8, <2>9, <2>10, <2>11
       DEF Next, HandlerStep, Idle
<1>3. QED
  BY <1>1, <1>2, TypeCorrect, LockInvariant, WireInvariant, PTL DEF Spec

=============================================================================
