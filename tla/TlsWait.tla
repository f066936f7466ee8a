------------------------------ MODULE TlsWait ------------------------------
(***************************************************************************)
(* TlsChannel with time: how long the one mutex of stateful_tls makes a    *)
(* dashboard wait.  lock().await has no timeout and its queue no bound;    *)
(* what bounds the wait is that the awaits of whoever holds the guard run  *)
(* under timers, and that a retry queues again behind everybody else.      *)
(*                                                                         *)
(* The steps are those of TlsChannel and take no time.  Between them time  *)
(* passes, but not past the timer of the holder, nor while some future has *)
(* been woken and not been polled.                                         *)
(***************************************************************************)
EXTENDS TlsChannel, FiniteSets

CONSTANTS
  ConnectTimeout,  \* of connect_tcp: the connect and the handshake, 5 s each
  IoTimeout        \* IO_TIMEOUT, of one write, one length and one payload

\* However long it runs, a process serves finitely many requests.
ASSUME TimeoutAssumption ==
  /\ ConnectTimeout \in Nat
  /\ IoTimeout \in Nat
  /\ IsFiniteSet(Request)

VARIABLES
  left,   \* what is left of the timer the holder runs under
  waited  \* how long each request has been waiting since it last asked

timeVars  == <<left, waited>>
timedVars == <<vars, timeVars>>

Timer(place) ==
  CASE place = "connecting"    -> ConnectTimeout
    [] place \in Exchanging    -> IoTimeout
    [] place \in Place \ (Exchanging \cup {"connecting"}) -> 0

\* The longest anybody can hold the guard: one connect and one exchange.
Hold == ConnectTimeout + 3 * IoTimeout

TimedTypeOK ==
  /\ TypeOK
  /\ left \in 0..Hold
  /\ waited \in [Request -> Nat]

TimedInit == Init /\ left = 0 /\ waited = [r \in Request |-> 0]

-----------------------------------------------------------------------------
\* A step of TlsChannel starts the timer of the await it leads its holder to.
Step ==
  /\ Next
  /\ left' = IF holder' = NoRequest THEN 0
             ELSE IF holder' = holder /\ pc'[holder] = pc[holder] THEN left
             ELSE Timer(pc'[holder'])
  /\ waited' = [r \in Request |-> IF pc'[r] = "locking" THEN waited[r] ELSE 0]

\* A future that is about to run: granted the guard, or between two attempts.
Woken(r) == pc[r] = "retry" \/ (pc[r] = "locking" /\ holder = r)

Tick ==
  /\ holder # NoRequest
  /\ left > 0
  /\ \A r \in Request : ~ Woken(r)
  /\ left' = left - 1
  /\ waited' = [r \in Request |-> IF pc[r] = "locking" THEN waited[r] + 1 ELSE 0]
  /\ UNCHANGED vars

TimedNext == Step \/ Tick

TimedSpec == TimedInit /\ [][TimedNext]_timedVars

-----------------------------------------------------------------------------
\* However many browsers ask at once and however silent the API is, a request
\* waits for the guard no longer than for each of the others to hold it once,
\* also before its retry: nobody is overtaken, and nobody holds it for two
\* attempts.
WaitIsBounded ==
  \A r \in Request : waited[r] <= (Cardinality(Request) - 1) * Hold

=============================================================================
