---------------------------- MODULE TlsWaitProofs ----------------------------
(***************************************************************************)
(* How long a request waits for the shared connection, for any number of   *)
(* requests and any timeouts.                                              *)
(***************************************************************************)
EXTENDS TlsWait, TlsChannelProofs, FiniteSetTheorems

-----------------------------------------------------------------------------
\* The timer of each await, none of which outlasts a hold of the guard.
LEMMA TimerValue ==
  /\ Timer("connecting") = ConnectTimeout
  /\ \A place \in Exchanging : Timer(place) = IoTimeout
  /\ \A place \in Place \ (Exchanging \cup {"connecting"}) : Timer(place) = 0
<1>1. Timer("connecting") = ConnectTimeout
  BY Zenon DEF Timer, Exchanging
<1>2. ASSUME NEW place \in Exchanging PROVE Timer(place) = IoTimeout
  <2>1. place # "connecting" /\ place \notin Place \ (Exchanging \cup {"connecting"})
    BY <1>2 DEF Exchanging
  <2>2. QED
    BY <1>2, <2>1, Zenon DEF Timer
<1>3. ASSUME NEW place \in Place \ (Exchanging \cup {"connecting"}) PROVE Timer(place) = 0
  <2>1. place # "connecting" /\ place \notin Exchanging
    BY <1>3
  <2>2. QED
    BY <1>3, <2>1, Zenon DEF Timer
<1>4. QED
  BY <1>1, <1>2, <1>3

LEMMA TimerType ==
  ASSUME NEW place \in Place
  PROVE  Timer(place) \in 0..Hold /\ Hold \in Nat
<1>1. place = "connecting" \/ place \in Exchanging \/ place \in Place \ (Exchanging \cup {"connecting"})
  OBVIOUS
<1>2. QED
  BY <1>1, TimerValue, TimeoutAssumption DEF Hold

-----------------------------------------------------------------------------
\* How long k holds of the guard take, ...
Turns(k) == k * Hold

LEMMA TurnsValue ==
  /\ Hold \in Nat
  /\ Turns(0) = 0
  /\ \A k \in Int : Turns(k) \in Int /\ Turns(k + 1) = Turns(k) + Hold
  /\ \A j, k \in Int : j <= k => Turns(j) <= Turns(k)
<1>1. Hold \in Nat
  BY TimeoutAssumption DEF Hold
<1> HIDE DEF Hold
<1>2. \A k \in Int : Turns(k) \in Int /\ Turns(k + 1) = Turns(k) + Hold
  BY <1>1 DEF Turns
<1>3. ASSUME NEW j \in Int, NEW k \in Int, j <= k PROVE Turns(j) <= Turns(k)
  <2>1. (k - j) * Hold \in Nat
    BY <1>1, <1>3
  <2>2. k * Hold = j * Hold + (k - j) * Hold
    BY <1>1
  <2>3. QED
    BY <1>1, <2>1, <2>2 DEF Turns
<1>4. QED
  BY <1>1, <1>2, <1>3 DEF Turns

\* ... and how long the present one may still take: the timer that runs, and those
\* of the awaits after it.
After(place) ==
  IF place = "connecting" THEN 3 * IoTimeout
  ELSE IF place = "writing" THEN 2 * IoTimeout
  ELSE IF place = "readLength" THEN IoTimeout
  ELSE 0

Rest(place, timer) == IF place = "locking" THEN Hold ELSE timer + After(place)

Remaining == IF holder = NoRequest THEN 0 ELSE Rest(pc[holder], left)

\* The awaits of a hold, in the order tcp_exchange reaches them.
Moves == {<<"locking", "connecting">>, <<"locking", "writing">>, <<"connecting", "writing">>,
          <<"writing", "readLength">>, <<"readLength", "readPayload">>}

LEMMA RestValue ==
  /\ \A place \in Awaiting, timer \in Nat :
       timer <= Timer(place) => Rest(place, timer) \in 0..Hold
  /\ \A move \in Moves, timer \in Nat :
       Rest(move[2], Timer(move[2])) <= Rest(move[1], timer)
<1>1. ConnectTimeout \in Nat /\ IoTimeout \in Nat
  BY TimeoutAssumption
<1>2. /\ Timer("connecting") = ConnectTimeout /\ Timer("writing") = IoTimeout
      /\ Timer("readLength") = IoTimeout /\ Timer("readPayload") = IoTimeout
  BY TimerValue DEF Exchanging
<1>3. ASSUME NEW place \in Awaiting, NEW timer \in Nat, timer <= Timer(place)
      PROVE  Rest(place, timer) \in 0..Hold
  BY <1>1, <1>2, <1>3 DEF Awaiting, Exchanging, Rest, After, Hold
<1>4. ASSUME NEW move \in Moves, NEW timer \in Nat
      PROVE  Rest(move[2], Timer(move[2])) <= Rest(move[1], timer)
  BY <1>1, <1>2 DEF Moves, Rest, After, Hold
<1>5. QED
  BY <1>3, <1>4

-----------------------------------------------------------------------------
\* Whoever is in the queue and whoever is in front of it are different requests.
LEMMA QueueIsShort ==
  ASSUME NEW queue \in Seq(Request), NEW first \in Request,
         \A i, j \in 1..Len(queue) : queue[i] = queue[j] => i = j,
         \A i \in 1..Len(queue) : queue[i] # first
  PROVE  Cardinality(Request) \in Nat /\ Len(queue) + 1 <= Cardinality(Request)
<1> DEFINE n == Len(queue)
           all == [i \in 0..n |-> IF i = 0 THEN first ELSE queue[i]]
<1>1. n \in Nat /\ \A i \in 1..n : queue[i] \in Request
  BY LenProperties, ElementOfSeq
<1>2. all \in [0..n -> Request]
  BY <1>1
<1>3. \A i, j \in 0..n : all[i] = all[j] => i = j
  BY <1>1
<1>4. all \in Injection(0..n, Request)
  BY <1>2, <1>3 DEF Injection, IsInjective
<1> HIDE DEF all
<1>5. Cardinality(0..n) <= Cardinality(Request)
  BY <1>4, FS_Injection, TimeoutAssumption
<1>6. Cardinality(0..n) = n + 1
  BY <1>1, FS_Interval
<1>7. Cardinality(Request) \in Nat
  BY FS_CardinalityType, TimeoutAssumption
<1>8. QED
  BY <1>5, <1>6, <1>7

-----------------------------------------------------------------------------
\* What a step does to the queue and to whoever holds the guard: nothing, its next
\* await, one more in the queue, the guard passed on, or one less in the queue.
Stays == UNCHANGED lockVars /\ (holder # NoRequest => pc'[holder] = pc[holder])

Advances == UNCHANGED lockVars /\ holder # NoRequest /\ <<pc[holder], pc'[holder]>> \in Moves

Joins(r) == /\ Mutex!Lock(r) /\ pc[r] # "locking"
            /\ holder # NoRequest => pc'[holder] = pc[holder]

PassesOn == Mutex!Unlock /\ holder # NoRequest

Quits(r) == /\ Mutex!LeaveQueue(r)
            /\ holder # NoRequest => pc'[holder] = pc[holder]

LEMMA QueueMotion ==
  ASSUME ReqTypeOK, Mutex!TypeOK, LockInv, [Next]_vars
  PROVE  \/ Stays \/ Advances \/ PassesOn
         \/ \E r \in Request : Joins(r) \/ Quits(r)
<1>a. ASSUME NEW r \in Request, pc[r] \in {"connecting"} \cup Exchanging
      PROVE  holder = r /\ holder # NoRequest
  BY <1>a, IdentityAssumption DEF LockInv
<1>b. ASSUME NEW r \in Request, holder # r, NEW place, Goto(r, place)
      PROVE  holder # NoRequest => pc'[holder] = pc[holder]
  BY <1>b DEF Mutex!TypeOK, Goto, ReqTypeOK
<1>c. ASSUME NEW r \in Request, pc[r] \notin Awaiting
      PROVE  holder # r
  BY <1>c, IdentityAssumption DEF LockInv
<1>d. ASSUME NEW r \in Request, holder = r, NEW place, Goto(r, place),
             <<pc[r], place>> \in Moves, UNCHANGED lockVars
      PROVE  Advances
  BY <1>d, IdentityAssumption DEF Advances, Goto, ReqTypeOK
<1> USE DEF Exchanging, Awaiting
<1>1. ASSUME NEW r \in Request, Begin(r) PROVE Stays \/ Joins(r)
  <2>1. holder # r /\ pc[r] # "locking"
    BY <1>1, <1>c DEF Begin
  <2>2. holder # NoRequest => pc'[holder] = pc[holder]
    BY <1>1, <1>b, <2>1 DEF Begin, Return
  <2>3. QED
    BY <1>1, <2>1, <2>2 DEF Begin, Stays, Joins
<1>2. ASSUME NEW r \in Request, Relock(r) PROVE Joins(r)
  <2>1. holder # r /\ pc[r] # "locking"
    BY <1>2, <1>c DEF Relock
  <2>2. holder # NoRequest => pc'[holder] = pc[holder]
    BY <1>2, <1>b, <2>1 DEF Relock
  <2>3. QED
    BY <1>2, <2>1, <2>2 DEF Relock, Joins
<1>3. ASSUME NEW r \in Request, Acquired(r) PROVE Advances
  BY <1>3, <1>d DEF Acquired, Moves
<1>4. ASSUME NEW r \in Request, ConnectSucceeds(r) PROVE Advances
  BY <1>4, <1>a, <1>d DEF ConnectSucceeds, Moves
<1>5. ASSUME NEW r \in Request, ConnectFails(r) PROVE PassesOn
  BY <1>5, <1>a DEF ConnectFails, PassesOn
<1>6. ASSUME NEW r \in Request, WriteFrame(r) PROVE Advances
  BY <1>6, <1>a, <1>d DEF WriteFrame, Moves
<1>7. ASSUME NEW r \in Request, ReadLength(r) PROVE Advances
  BY <1>7, <1>a, <1>d DEF ReadLength, Moves
<1>8. ASSUME NEW r \in Request, ReadPayload(r) PROVE PassesOn
  BY <1>8, <1>a DEF ReadPayload, PassesOn
<1>9. ASSUME NEW r \in Request, ExchangeFails(r) PROVE PassesOn
  BY <1>9, <1>a DEF ExchangeFails, PassesOn
<1>10. ASSUME NEW r \in Request, ClientLeaves(r) PROVE PassesOn \/ Quits(r)
  <2>1. CASE holder = r
    BY <1>10, <2>1, IdentityAssumption DEF ClientLeaves, PassesOn
  <2>2. CASE holder # r
    <3>1. Goto(r, "dropped") /\ Mutex!LeaveQueue(r)
      BY <1>10, <1>a, <2>2 DEF ClientLeaves
    <3>2. QED
      BY <1>b, <2>2, <3>1 DEF Quits
  <2>3. QED
    BY <2>1, <2>2
<1>11. CASE ApiAnswers \/ ApiMisreads \/ UNCHANGED vars
  BY <1>11 DEF ApiAnswers, ApiMisreads, vars, reqVars, Stays
<1>12. QED
  BY <1>1, <1>2, <1>3, <1>4, <1>5, <1>6, <1>7, <1>8, <1>9, <1>10, <1>11
     DEF Next, HandlerStep, Idle

-----------------------------------------------------------------------------
\* Why the wait is bounded: what a request has waited, what is left of the present
\* hold, and a hold for each request in front of it in the queue stay within the
\* bound, since all of them are different requests.
Bound == Turns(Cardinality(Request) - 1)

QueueInv ==
  \A k \in 1..Len(waiters) : waited[waiters[k]] + Remaining + Turns(k - 1) <= Bound

WaitInv ==
  /\ TimedTypeOK
  /\ holder = NoRequest => left = 0
  /\ holder # NoRequest => left <= Timer(pc[holder])
  /\ \A r \in Request : pc[r] # "locking" => waited[r] = 0
  /\ QueueInv
  /\ WaitIsBounded

LEMMA BoundType == Cardinality(Request) \in Nat /\ Cardinality(Request) - 1 \in Int /\ Bound \in Int
<1>1. Cardinality(Request) \in Nat
  BY FS_CardinalityType, TimeoutAssumption
<1>2. Cardinality(Request) - 1 \in Int
  BY <1>1
<1>3. QED
  BY <1>1, <1>2, TurnsValue DEF Bound

\* The present hold is typed, and no longer than one.
LEMMA RemainingType == WaitInv /\ LockInv => Remaining \in 0..Hold
<1> SUFFICES ASSUME WaitInv, LockInv PROVE Remaining \in 0..Hold
  OBVIOUS
<1>1. left \in Nat /\ Hold \in Nat
  BY TurnsValue DEF WaitInv, TimedTypeOK
<1>2. CASE holder = NoRequest
  BY <1>1, <1>2 DEF Remaining
<1>3. CASE holder # NoRequest
  <2>1. pc[holder] \in Awaiting /\ left <= Timer(pc[holder])
    BY <1>3 DEF LockInv, WaitInv
  <2>2. Rest(pc[holder], left) \in 0..Hold
    BY <1>1, <2>1, RestValue
  <2>3. QED
    BY <1>3, <2>2 DEF Remaining
<1>4. QED
  BY <1>2, <1>3

\* Time only starts, or stops, with a step.
LEMMA StepTimes ==
  ASSUME TypeOK', LockInv', WaitInv, Step
  PROVE  /\ left' \in 0..Hold /\ Remaining' \in 0..Hold
         /\ holder' = NoRequest => left' = 0
         /\ holder' # NoRequest => left' <= Timer(pc'[holder'])
         /\ waited' \in [Request -> Nat]
         /\ \A r \in Request : /\ waited'[r] <= waited[r]
                               /\ pc'[r] # "locking" => waited'[r] = 0
<1>1. /\ waited' \in [Request -> Nat]
      /\ \A r \in Request : /\ waited'[r] <= waited[r]
                            /\ pc'[r] # "locking" => waited'[r] = 0
  BY DEF Step, WaitInv, TimedTypeOK
<1>2. left \in 0..Hold /\ Hold \in Nat
  BY TurnsValue DEF WaitInv, TimedTypeOK
<1>3. CASE holder' = NoRequest
  BY <1>1, <1>2, <1>3 DEF Step, Remaining
<1>4. CASE holder' # NoRequest
  <2>1. holder' \in Request /\ pc'[holder'] \in Place /\ pc'[holder'] \in Awaiting
    BY <1>4 DEF TypeOK, Mutex!TypeOK, ReqTypeOK, LockInv
  <2>2. Timer(pc'[holder']) \in 0..Hold
    BY <2>1, TimerType
  <2>3. \/ left' = left /\ holder' = holder /\ pc'[holder] = pc[holder]
        \/ left' = Timer(pc'[holder'])
    BY <1>4 DEF Step
  <2>4. left' \in 0..Hold /\ left' <= Timer(pc'[holder'])
    BY <1>2, <1>4, <2>2, <2>3 DEF WaitInv
  <2>5. Rest(pc'[holder'], left') \in 0..Hold
    BY <1>2, <2>1, <2>4, RestValue
  <2>6. QED
    BY <1>1, <1>4, <2>4, <2>5 DEF Remaining
<1>5. QED
  BY <1>3, <1>4

\* The queue of the next state keeps within the bound, whatever a step does to it.
LEMMA QueueKeeps ==
  ASSUME TypeOK, LockInv, TypeOK', LockInv', WaitInv, Step
  PROVE  QueueInv'
<1>1. /\ waiters \in Seq(Request) /\ Len(waiters) \in Nat
      /\ \A k \in 1..Len(waiters) : waiters[k] \in Request
  BY LenProperties, ElementOfSeq DEF TypeOK, Mutex!TypeOK
<1>2. waited \in [Request -> Nat] /\ waited' \in [Request -> Nat]
  BY StepTimes DEF WaitInv, TimedTypeOK
<1>3. Hold \in Nat /\ Remaining \in 0..Hold /\ Remaining' \in 0..Hold
  BY StepTimes, RemainingType, TurnsValue
<1>4. \A r \in Request : waited'[r] <= waited[r]
  BY StepTimes
<1>5. Cardinality(Request) - 1 \in Int /\ Bound \in Int
  BY BoundType
<1>6. \A k \in 1..Len(waiters) : waited[waiters[k]] + Remaining + Turns(k - 1) <= Bound
  BY DEF WaitInv, QueueInv
<1>7. ReqTypeOK /\ Mutex!TypeOK /\ [Next]_vars
  BY DEF TypeOK, Step
<1> SUFFICES ASSUME NEW k \in 1..Len(waiters')
             PROVE  waited'[waiters'[k]] + Remaining' + Turns(k - 1) <= Bound
  BY DEF QueueInv, Bound
<1>8. Len(waiters') \in Nat /\ k \in Int /\ k - 1 \in Int /\ Turns(k - 1) \in Int
      /\ waiters'[k] \in Request
  BY LenProperties, ElementOfSeq, TurnsValue DEF TypeOK, Mutex!TypeOK
\* Its place in the queue is kept, and the hold in front of it not prolonged.
<1>a. ASSUME k <= Len(waiters), waiters'[k] = waiters[k], Remaining' <= Remaining
      PROVE  waited'[waiters'[k]] + Remaining' + Turns(k - 1) <= Bound
  <2>1. waited'[waiters'[k]] <= waited[waiters[k]] /\ waited'[waiters'[k]] \in Nat
        /\ waited[waiters[k]] \in Nat
    BY <1>1, <1>2, <1>4, <1>8, <1>a
  <2>2. waited[waiters[k]] + Remaining + Turns(k - 1) <= Bound
    BY <1>6, <1>8, <1>a
  <2>3. QED
    BY <1>3, <1>5, <1>8, <1>a, <2>1, <2>2
\* It moves up by one, at the cost of no more than a hold.
<1>b. ASSUME k + 1 <= Len(waiters), waiters'[k] = waiters[k + 1]
      PROVE  waited'[waiters'[k]] + Remaining' + Turns(k - 1) <= Bound
  <2>1. waited'[waiters'[k]] <= waited[waiters[k + 1]] /\ waited'[waiters'[k]] \in Nat
        /\ waited[waiters[k + 1]] \in Nat
    BY <1>1, <1>2, <1>4, <1>8, <1>b
  <2>2. waited[waiters[k + 1]] + Remaining + Turns(k) <= Bound
    <3>1. k + 1 \in 1..Len(waiters) /\ (k + 1) - 1 = k
      BY <1>1, <1>8, <1>b
    <3>2. waited[waiters[k + 1]] + Remaining + Turns((k + 1) - 1) <= Bound
      BY <1>6, <3>1
    <3>3. QED
      BY <3>1, <3>2
  <2>3. Turns(k) = Turns(k - 1) + Hold
    <3>1. k = (k - 1) + 1
      BY <1>8
    <3>2. QED
      BY <1>8, <3>1, TurnsValue
  <2>4. \A now, before, next, rest, turns \in Int :
          /\ now <= before /\ next <= Hold /\ 0 <= rest
          /\ before + rest + (turns + Hold) <= Bound
          => now + next + turns <= Bound
    BY <1>3, <1>5
  <2>5. waited[waiters[k + 1]] + Remaining + (Turns(k - 1) + Hold) <= Bound
    BY <2>2, <2>3
  <2>6. /\ waited'[waiters'[k]] \in Int /\ waited[waiters[k + 1]] \in Int
        /\ Remaining \in Int /\ Remaining' \in Int /\ Turns(k - 1) \in Int
        /\ Remaining' <= Hold /\ 0 <= Remaining
    BY <1>3, <1>8, <2>1
  <2>7. QED
    BY <2>1, <2>4, <2>5, <2>6
\* While the holder goes nowhere, its timer goes on.
<1>c. ASSUME UNCHANGED holder, holder # NoRequest => pc'[holder] = pc[holder]
      PROVE  Remaining' = Remaining
  BY <1>c DEF Step, Remaining
<1>9. CASE Stays
  BY <1>9, <1>a, <1>c, <1>3 DEF Stays, lockVars
<1>10. CASE Advances
  <2>1. /\ UNCHANGED lockVars /\ holder # NoRequest /\ left \in Nat
        /\ <<pc[holder], pc'[holder]>> \in Moves
    BY <1>10 DEF Advances, WaitInv, TimedTypeOK
  <2>2. left' = Timer(pc'[holder])
    BY <2>1 DEF Moves, Step, lockVars
  <2>3. Rest(pc'[holder], Timer(pc'[holder])) <= Rest(pc[holder], left)
    BY <2>1, RestValue
  <2>4. Remaining' <= Remaining
    BY <2>1, <2>2, <2>3 DEF Remaining, lockVars
  <2>5. QED
    BY <1>a, <2>1, <2>4 DEF lockVars
<1>11. CASE PassesOn
  <2>1. CASE waiters = <<>> /\ UNCHANGED waiters
    BY <1>8, <2>1
  <2>2. CASE waiters # <<>> /\ waiters' = Tail(waiters)
    <3>1. Len(waiters') = Len(waiters) - 1 /\ waiters'[k] = waiters[k + 1]
      BY <1>1, <2>2, HeadTailProperties
    <3>2. QED
      BY <1>1, <1>3, <1>8, <1>b, <3>1
  <2>3. QED
    BY <1>11, <2>1, <2>2 DEF PassesOn, Mutex!Unlock
<1>12. ASSUME NEW r \in Request, Joins(r)
       PROVE  waited'[waiters'[k]] + Remaining' + Turns(k - 1) <= Bound
  <2>1. CASE holder = NoRequest /\ UNCHANGED waiters
    <3>1. Len(waiters) = 0
      BY <1>1, <2>1, EmptySeq DEF LockInv, Mutex!Orderly
    <3>2. QED
      BY <1>8, <2>1, <3>1
  <2>2. CASE holder # NoRequest /\ waiters' = Append(waiters, r) /\ UNCHANGED holder
    <3>1. /\ Len(waiters') = Len(waiters) + 1
          /\ \A i \in 1..Len(waiters) : waiters'[i] = waiters[i]
          /\ waiters'[Len(waiters) + 1] = r
      BY <1>1, <2>2, AppendProperties
    <3>2. CASE k <= Len(waiters)
      BY <1>12, <1>3, <1>8, <1>a, <1>c, <2>2, <3>1, <3>2 DEF Joins
    <3>3. CASE k = Len(waiters) + 1
      <4>1. waited'[waiters'[k]] = 0
        BY <1>12, <1>2, <1>4, <3>1, <3>3 DEF Joins, WaitInv
      <4>2. Cardinality(Request) \in Nat /\ Len(waiters') + 1 <= Cardinality(Request)
        <5>1. holder' \in Request /\ waiters' \in Seq(Request)
          BY <2>2 DEF TypeOK, Mutex!TypeOK
        <5>2. \A i, j \in 1..Len(waiters') : waiters'[i] = waiters'[j] => i = j
          BY DEF LockInv, Mutex!Orderly
        <5>3. \A i \in 1..Len(waiters') : waiters'[i] # holder'
          BY DEF LockInv, Mutex!Orderly, Mutex!Waiting
        <5>4. QED
          BY <5>1, <5>2, <5>3, QueueIsShort
      <4>3. Turns(k) = Turns(k - 1) + Hold
        <5>1. k = (k - 1) + 1
          BY <1>8
        <5>2. QED
          BY <1>8, <5>1, TurnsValue
      <4>4. Turns(k) <= Bound
        BY <1>1, <1>8, <3>1, <3>3, <4>2, TurnsValue DEF Bound
      <4>5. QED
        BY <1>3, <1>5, <1>8, <4>1, <4>3, <4>4
    <3>4. QED
      BY <1>1, <1>8, <3>1, <3>2, <3>3
  <2>3. QED
    BY <1>12, <2>1, <2>2 DEF Joins, Mutex!Lock
<1>13. ASSUME NEW r \in Request, Quits(r)
       PROVE  waited'[waiters'[k]] + Remaining' + Turns(k - 1) <= Bound
  <2>1. PICK gap \in 1..Len(waiters) :
          /\ waiters' = SubSeq(waiters, 1, gap - 1) \o SubSeq(waiters, gap + 1, Len(waiters))
          /\ UNCHANGED holder
    BY <1>13 DEF Quits, Mutex!LeaveQueue
  <2>2. /\ Len(waiters') = Len(waiters) - 1
        /\ waiters'[k] = waiters[IF k < gap THEN k ELSE k + 1]
    BY <1>1, <2>1, Mutex!Removal
  <2>3. Remaining' = Remaining
    BY <1>13, <1>c, <2>1 DEF Quits
  <2>4. CASE k < gap
    BY <1>1, <1>3, <1>8, <1>a, <2>2, <2>3, <2>4
  <2>5. CASE k >= gap
    BY <1>1, <1>3, <1>8, <1>b, <2>2, <2>3, <2>5
  <2>6. QED
    BY <1>8, <2>4, <2>5
<1>14. QED
  BY <1>7, <1>9, <1>10, <1>11, <1>12, <1>13, QueueMotion

\* Time runs for the request that holds the guard and for those behind it alike.
LEMMA TickKeeps ==
  ASSUME TypeOK, LockInv, WaitInv, Tick
  PROVE  WaitInv'
<1>1. /\ pc \in [Request -> Place] /\ holder \in Request
      /\ pc[holder] # "locking" /\ pc[holder] \in Awaiting
  BY DEF TypeOK, ReqTypeOK, Mutex!TypeOK, LockInv, Tick, Woken
<1>2. /\ left \in 0..Hold /\ Hold \in Nat /\ left > 0 /\ left' = left - 1
      /\ left <= Timer(pc[holder])
  BY TurnsValue DEF WaitInv, TimedTypeOK, Tick
<1>3. Timer(pc[holder]) \in Nat
  BY <1>1, TimerType
<1>4. /\ waited \in [Request -> Nat] /\ waited' \in [Request -> Nat]
      /\ \A r \in Request : /\ pc[r] # "locking" => waited'[r] = 0
                            /\ waited'[r] <= waited[r] + 1
  BY DEF WaitInv, TimedTypeOK, Tick
<1>5. /\ pc' = pc /\ holder' = holder /\ waiters' = waiters /\ TypeOK'
  BY DEF Tick, vars, reqVars, lockVars, wireVars, TypeOK, ReqTypeOK, Mutex!TypeOK, WireTypeOK
<1>6. After(pc[holder]) \in Nat
  BY TimeoutAssumption DEF After
<1>7. Remaining = left + After(pc[holder]) /\ Remaining' = left' + After(pc[holder])
  BY <1>1, <1>5, IdentityAssumption DEF Remaining, Rest
<1>8. /\ Remaining \in Nat /\ Remaining' \in Nat /\ Remaining' + 1 = Remaining
      /\ 1 <= Remaining
  BY <1>2, <1>6, <1>7
<1>9. QueueInv'
  <2> SUFFICES ASSUME NEW k \in 1..Len(waiters)
               PROVE  waited'[waiters[k]] + Remaining' + Turns(k - 1) <= Bound
    BY <1>5 DEF QueueInv, Bound
  <2>1. waiters[k] \in Request /\ Turns(k - 1) \in Int /\ Bound \in Int
    BY LenProperties, ElementOfSeq, TurnsValue, BoundType DEF TypeOK, Mutex!TypeOK
  <2>2. waited[waiters[k]] + Remaining + Turns(k - 1) <= Bound
    BY DEF WaitInv, QueueInv
  <2>3. \A now, before, next, rest, turns \in Int :
          /\ now <= before + 1 /\ next + 1 = rest
          /\ before + rest + turns <= Bound
          => now + next + turns <= Bound
    BY <2>1
  <2>4. waited[waiters[k]] \in Int /\ waited'[waiters[k]] \in Int
        /\ waited'[waiters[k]] <= waited[waiters[k]] + 1
    BY <1>4, <2>1
  <2>5. Remaining \in Int /\ Remaining' \in Int
    BY <1>8
  <2>6. QED
    BY <1>8, <2>1, <2>2, <2>3, <2>4, <2>5
<1>10. WaitIsBounded'
  <2> SUFFICES ASSUME NEW r \in Request PROVE waited'[r] <= Bound
    BY DEF WaitIsBounded, Bound, Turns
  <2>1. waited[r] \in Nat /\ waited'[r] \in Nat /\ Bound \in Int /\ waited[r] <= Bound
    BY <1>4, BoundType DEF WaitInv, WaitIsBounded, Bound, Turns
  <2>2. CASE pc[r] # "locking"
    BY <1>4, <2>1, <2>2
  <2>3. CASE pc[r] = "locking"
    <3>1. r # holder
      BY <1>1, <2>3
    <3>2. PICK k \in 1..Len(waiters) : r = waiters[k]
      BY <2>3, <3>1 DEF LockInv, Mutex!Waiting
    <3>3. waited[r] + Remaining + Turns(k - 1) <= Bound
      BY <3>2 DEF WaitInv, QueueInv
    <3>4. k \in Int /\ 0 <= k - 1 /\ k - 1 \in Int
      <4>1. Len(waiters) \in Nat
        BY LenProperties DEF TypeOK, Mutex!TypeOK
      <4>2. QED
        BY <4>1
    <3>5. 0 <= Turns(k - 1) /\ Turns(k - 1) \in Int
      <4>1. Turns(0) = 0 /\ Turns(0) <= Turns(k - 1)
        BY <3>4, TurnsValue
      <4>2. QED
        BY <3>4, <4>1, TurnsValue
    <3>7. \A now, before, rest, turns \in Int :
            /\ now <= before + 1 /\ 1 <= rest /\ 0 <= turns
            /\ before + rest + turns <= Bound
            => now <= Bound
      BY <2>1
    <3>8. QED
      <4>1. /\ waited[r] \in Int /\ waited'[r] \in Int /\ Remaining \in Int
            /\ waited'[r] <= waited[r] + 1
        BY <1>4, <1>8, <2>1
      <4>2. QED
        BY <1>8, <3>3, <3>5, <3>7, <4>1
  <2>4. QED
    BY <2>2, <2>3
<1>11. TimedTypeOK'
  BY <1>2, <1>4, <1>5 DEF TimedTypeOK
<1>12. QED
  BY <1>1, <1>2, <1>3, <1>4, <1>5, <1>9, <1>10, <1>11 DEF WaitInv

LEMMA WaitInit == TimedInit => WaitInv
<1> SUFFICES ASSUME TimedInit PROVE WaitInv
  OBVIOUS
<1>1. /\ pc = [r \in Request |-> "new"] /\ holder = NoRequest /\ waiters = <<>>
      /\ left = 0 /\ waited = [r \in Request |-> 0]
  BY DEF TimedInit, Init, Mutex!Init
<1>2. TimedTypeOK
  BY <1>1, InitTypeOK, TurnsValue DEF TimedTypeOK, TimedInit
<1>3. QueueInv
  BY <1>1 DEF QueueInv
<1>4. ASSUME NEW r \in Request PROVE waited[r] <= Bound
  <2>1. Cardinality(Request) # 0
    BY FS_EmptySet, TimeoutAssumption
  <2>2. 0 <= Cardinality(Request) - 1
    BY <2>1, BoundType
  <2>3. 0 <= Bound
    BY <2>2, BoundType, TurnsValue DEF Bound
  <2>4. QED
    BY <1>1, <2>3
<1>5. QED
  BY <1>1, <1>2, <1>3, <1>4 DEF WaitInv, WaitIsBounded, Bound, Turns

\* Time adds nothing to what TlsChannel may do, so that everything proved of it
\* holds with its timers too.
THEOREM StaysInStep == TimedSpec => Spec
<1>1. TimedInit => Init
  BY DEF TimedInit
<1>2. [TimedNext]_timedVars => [Next]_vars
  BY DEF TimedNext, timedVars, Step, Tick
<1>3. QED
  BY <1>1, <1>2, PTL DEF TimedSpec, Spec

LEMMA WaitInvariant == TimedSpec => []WaitInv
<1>1. TypeOK /\ LockInv /\ TypeOK' /\ LockInv' /\ WaitInv /\ [TimedNext]_timedVars => WaitInv'
  <2> SUFFICES ASSUME TypeOK, LockInv, TypeOK', LockInv', WaitInv, [TimedNext]_timedVars
               PROVE  WaitInv'
    OBVIOUS
  <2>1. CASE Step
    <3>1. QueueInv'
      BY <2>1, QueueKeeps
    <3>2. TimedTypeOK'
      BY <2>1, StepTimes DEF TimedTypeOK
    <3>3. WaitIsBounded'
      <4> SUFFICES ASSUME NEW r \in Request PROVE waited'[r] <= Bound
        BY DEF WaitIsBounded, Bound, Turns
      <4>1. waited[r] <= Bound /\ Bound \in Int
        BY BoundType DEF WaitInv, WaitIsBounded, Bound, Turns
      <4>2. waited[r] \in Nat /\ waited'[r] \in Nat /\ waited'[r] <= waited[r]
        BY <2>1, StepTimes DEF WaitInv, TimedTypeOK
      <4>3. QED
        BY <4>1, <4>2
    <3>4. QED
      BY <2>1, <3>1, <3>2, <3>3, StepTimes DEF WaitInv
  <2>2. CASE Tick
    BY <2>2, TickKeeps
  <2>3. CASE UNCHANGED timedVars
    <3>1. UNCHANGED <<pc, holder, waiters, left, waited>>
      BY <2>3 DEF timedVars, timeVars, vars, reqVars, lockVars
    <3>2. QueueInv' /\ WaitIsBounded'
      BY <3>1 DEF WaitInv, QueueInv, Remaining, Bound, WaitIsBounded
    <3>3. QED
      BY <3>1, <3>2 DEF WaitInv, TimedTypeOK
  <2>4. QED
    BY <2>1, <2>2, <2>3 DEF TimedNext
<1>2. QED
  BY <1>1, WaitInit, StaysInStep, TypeCorrect, LockInvariant, PTL DEF TimedSpec

\* The timers and the waits have the declared types.
THEOREM TimedTypeCorrect == TimedSpec => []TimedTypeOK
<1>1. WaitInv => TimedTypeOK
  BY DEF WaitInv
<1>2. QED
  BY <1>1, WaitInvariant, PTL

\* No request waits for the guard longer than for each of the others to hold it
\* once, on either attempt, however many there are and whatever the timeouts.
THEOREM WaitBounded == TimedSpec => []WaitIsBounded
<1>1. WaitInv => WaitIsBounded
  BY DEF WaitInv
<1>2. QED
  BY <1>1, WaitInvariant, PTL

=============================================================================
