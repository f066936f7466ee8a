------------------------------ MODULE FairLock ------------------------------
(***************************************************************************)
(* The FIFO permit that tokio's Mutex and OnceCell are built on, as the    *)
(* handlers of crates/common/src/lib.rs use it: a free permit is taken at  *)
(* once, a contended one is queued for, a release hands it to the longest  *)
(* waiter, and a waiter whose future is dropped leaves the queue.          *)
(*                                                                         *)
(* tokio is not part of the repository.  The lemmas at the end are what    *)
(* the proofs about its users need.                                        *)
(***************************************************************************)
EXTENDS Naturals, Sequences, SequenceTheorems, TLAPS

CONSTANTS Owner, NoOwner

VARIABLES
  holder,   \* who has the permit
  waiters   \* who waits for it, in order of arrival

TypeOK ==
  /\ holder \in Owner \cup {NoOwner}
  /\ waiters \in Seq(Owner)

Init == holder = NoOwner /\ waiters = <<>>

Lock(r) ==
  \/ /\ holder = NoOwner
     /\ holder' = r
     /\ UNCHANGED waiters
  \/ /\ holder # NoOwner
     /\ waiters' = Append(waiters, r)
     /\ UNCHANGED holder

Unlock ==
  \/ /\ waiters = <<>>
     /\ holder' = NoOwner
     /\ UNCHANGED waiters
  \/ /\ waiters # <<>>
     /\ holder' = Head(waiters)
     /\ waiters' = Tail(waiters)

LeaveQueue(r) ==
  \E i \in 1..Len(waiters) :
    /\ waiters[i] = r
    /\ waiters' = SubSeq(waiters, 1, i - 1) \o SubSeq(waiters, i + 1, Len(waiters))
    /\ UNCHANGED holder

-----------------------------------------------------------------------------
Waiting == {waiters[i] : i \in 1..Len(waiters)}

\* A queue without duplicates, never in front of a free permit.
Orderly ==
  /\ \A i, j \in 1..Len(waiters) : waiters[i] = waiters[j] => i = j
  /\ holder \notin Waiting
  /\ waiters # <<>> => holder # NoOwner

-----------------------------------------------------------------------------
\* Removing one element of a sequence leaves the others in order.
LEMMA Removal ==
  ASSUME NEW S, NEW s \in Seq(S), NEW k \in 1..Len(s)
  PROVE  LET t == SubSeq(s, 1, k - 1) \o SubSeq(s, k + 1, Len(s)) IN
         /\ t \in Seq(S)
         /\ Len(t) = Len(s) - 1
         /\ \A i \in 1..Len(s) - 1 : t[i] = s[IF i < k THEN i ELSE i + 1]
<1> DEFINE left  == SubSeq(s, 1, k - 1)
           right == SubSeq(s, k + 1, Len(s))
           t     == left \o right
<1>1. Len(s) \in Nat /\ \A i \in 1..Len(s) : s[i] \in S
  BY LenProperties, ElementOfSeq
<1>2. /\ left \in Seq(S) /\ Len(left) = k - 1
      /\ \A i \in 1..k - 1 : left[i] = s[i]
  BY <1>1, SubSeqProperties
<1>3. /\ right \in Seq(S) /\ Len(right) = Len(s) - k
      /\ \A i \in 1..Len(s) - k : right[i] = s[k + i]
  BY <1>1, SubSeqProperties
<1> HIDE DEF left, right
<1>4. /\ t \in Seq(S)
      /\ Len(t) = Len(s) - 1
      /\ \A i \in 1..Len(s) - 1 : t[i] = IF i <= k - 1 THEN left[i] ELSE right[i - (k - 1)]
  <2>1. /\ left \o right \in Seq(S)
        /\ Len(left \o right) = Len(left) + Len(right)
        /\ \A i \in 1..Len(left) + Len(right) :
             (left \o right)[i] = IF i <= Len(left) THEN left[i] ELSE right[i - Len(left)]
    BY <1>2, <1>3, ConcatProperties
  <2>2. Len(left) + Len(right) = Len(s) - 1
    BY <1>1, <1>2, <1>3
  <2>3. QED
    BY <1>2, <2>1, <2>2
<1> HIDE DEF t
<1>5. ASSUME NEW i \in 1..Len(s) - 1 PROVE t[i] = s[IF i < k THEN i ELSE i + 1]
  <2>1. CASE i < k
    BY <1>1, <1>2, <1>4, <2>1
  <2>2. CASE i >= k
    <3>1. i - (k - 1) \in 1..Len(s) - k /\ k + (i - (k - 1)) = i + 1
      BY <1>1, <2>2
    <3>2. t[i] = right[i - (k - 1)]
      BY <1>1, <1>4, <2>2
    <3>3. QED
      BY <1>3, <2>2, <3>1, <3>2
  <2>3. QED
    BY <1>1, <2>1, <2>2
<1>6. QED
  BY <1>4, <1>5 DEF t, left, right

\* Every step on the permit keeps its types.
LEMMA StepType ==
  ASSUME TypeOK, NEW r \in Owner, Lock(r) \/ Unlock \/ LeaveQueue(r)
  PROVE  TypeOK'
<1>1. CASE Lock(r)
  BY <1>1 DEF TypeOK, Lock
<1>2. CASE Unlock
  BY <1>2 DEF TypeOK, Unlock
<1>3. CASE LeaveQueue(r)
  BY <1>3, Removal DEF TypeOK, LeaveQueue
<1>4. QED
  BY <1>1, <1>2, <1>3

\* The waiters of a typed permit are owners.
LEMMA WaitingType ==
  ASSUME TypeOK
  PROVE  Len(waiters) \in Nat /\ Waiting \subseteq Owner
BY LenProperties, ElementOfSeq DEF TypeOK, Waiting

\* Asking for the permit either takes it or joins the queue.
LEMMA LockStep ==
  ASSUME TypeOK, Orderly, NEW r \in Owner, r # holder, r \notin Waiting, Lock(r)
  PROVE  /\ Orderly'
         /\ \/ holder = NoOwner /\ holder' = r /\ Waiting' = Waiting
            \/ holder' = holder /\ holder # NoOwner /\ Waiting' = Waiting \cup {r}
<1>1. CASE holder = NoOwner /\ holder' = r /\ UNCHANGED waiters
  BY <1>1 DEF Orderly, Waiting
<1>2. CASE holder # NoOwner /\ waiters' = Append(waiters, r) /\ UNCHANGED holder
  <2>1. waiters \in Seq(Owner) /\ Len(waiters) \in Nat
    BY WaitingType DEF TypeOK
  <2>2. /\ Len(waiters') = Len(waiters) + 1
        /\ \A i \in 1..Len(waiters) : waiters'[i] = waiters[i]
        /\ waiters'[Len(waiters) + 1] = r
    BY <1>2, <2>1, AppendProperties
  <2>3. Waiting' = Waiting \cup {r}
    BY <2>1, <2>2 DEF Waiting
  <2>4. \A i, j \in 1..Len(waiters') : waiters'[i] = waiters'[j] => i = j
    BY <2>1, <2>2 DEF Orderly, Waiting
  <2>5. QED
    BY <1>2, <2>3, <2>4 DEF Orderly
<1>3. QED
  BY <1>1, <1>2 DEF Lock

\* A release frees the permit or hands it to somebody who waits.
LEMMA UnlockStep ==
  ASSUME TypeOK, Orderly, NoOwner \notin Owner, Unlock
  PROVE  /\ Orderly'
         /\ \/ holder' = NoOwner /\ Waiting = {} /\ Waiting' = {}
            \/ holder' \in Waiting /\ Waiting' = Waiting \ {holder'}
<1>1. CASE waiters = <<>> /\ holder' = NoOwner /\ UNCHANGED waiters
  <2>1. Len(waiters) = 0
    BY <1>1
  <2>2. QED
    BY <1>1, <2>1 DEF Orderly, Waiting
<1>2. CASE waiters # <<>> /\ holder' = Head(waiters) /\ waiters' = Tail(waiters)
  <2>1. waiters \in Seq(Owner) /\ Len(waiters) \in Nat
    BY WaitingType DEF TypeOK
  <2>2. /\ Len(waiters') = Len(waiters) - 1 /\ Len(waiters) >= 1
        /\ \A i \in 1..Len(waiters') : waiters'[i] = waiters[i + 1]
    BY <1>2, <2>1, HeadTailProperties, EmptySeq
  <2>3. holder' = waiters[1]
    BY <1>2, <2>1
  <2>4. \A i \in 1..Len(waiters') : i + 1 \in 1..Len(waiters) /\ i + 1 # 1
    BY <2>1, <2>2
  <2>5. \A i, j \in 1..Len(waiters') : waiters'[i] = waiters'[j] => i = j
    BY <2>2, <2>4 DEF Orderly
  <2>6. Waiting' = Waiting \ {holder'} /\ holder' \in Waiting
    <3>1. \A i \in 1..Len(waiters') : waiters'[i] \in Waiting /\ waiters'[i] # holder'
      BY <2>1, <2>2, <2>3, <2>4 DEF Waiting, Orderly
    <3>2. ASSUME NEW w \in Waiting, w # holder' PROVE w \in Waiting'
      <4>1. PICK k \in 1..Len(waiters) : w = waiters[k]
        BY DEF Waiting
      <4>2. k # 1
        BY <2>3, <3>2, <4>1
      <4>3. k - 1 \in 1..Len(waiters') /\ waiters'[k - 1] = w
        BY <2>1, <2>2, <4>1, <4>2
      <4>4. QED
        BY <4>3 DEF Waiting
    <3>3. holder' \in Waiting
      BY <2>1, <2>2, <2>3 DEF Waiting
    <3>4. QED
      BY <3>1, <3>2, <3>3 DEF Waiting
  <2>7. holder' # NoOwner
    BY <2>6, WaitingType
  <2>8. QED
    BY <1>2, <2>5, <2>6, <2>7 DEF Orderly
<1>3. QED
  BY <1>1, <1>2 DEF Unlock

\* A waiter that gives up leaves the others waiting.
LEMMA LeaveStep ==
  ASSUME TypeOK, Orderly, NEW r \in Owner, LeaveQueue(r)
  PROVE  Orderly' /\ holder' = holder /\ Waiting' = Waiting \ {r}
<1>1. PICK k \in 1..Len(waiters) :
        /\ waiters[k] = r
        /\ waiters' = SubSeq(waiters, 1, k - 1) \o SubSeq(waiters, k + 1, Len(waiters))
        /\ UNCHANGED holder
  BY DEF LeaveQueue
<1> DEFINE from(i) == IF i < k THEN i ELSE i + 1
<1>2. waiters \in Seq(Owner) /\ Len(waiters) \in Nat
  BY WaitingType DEF TypeOK
<1>3. /\ Len(waiters') = Len(waiters) - 1
      /\ \A i \in 1..Len(waiters') : waiters'[i] = waiters[from(i)]
  BY <1>1, <1>2, Removal
<1>4. /\ \A i \in 1..Len(waiters') : from(i) \in 1..Len(waiters) /\ from(i) # k
      /\ \A i, j \in 1..Len(waiters') : from(i) = from(j) => i = j
      /\ \A j \in 1..Len(waiters) : j # k => \E i \in 1..Len(waiters') : from(i) = j
  <2>1. \A j \in 1..Len(waiters) : j # k =>
          (IF j < k THEN j ELSE j - 1) \in 1..Len(waiters')
          /\ from(IF j < k THEN j ELSE j - 1) = j
    BY <1>2, <1>3
  <2>2. QED
    BY <1>2, <1>3, <2>1
<1> HIDE DEF from
<1>5. \A i, j \in 1..Len(waiters') : waiters'[i] = waiters'[j] => i = j
  BY <1>3, <1>4 DEF Orderly
<1>6. \A i \in 1..Len(waiters') : waiters'[i] \in Waiting /\ waiters'[i] # r
  <2>1. TAKE i \in 1..Len(waiters')
  <2>2. waiters[from(i)] # waiters[k]
    BY <1>1, <1>4 DEF Orderly
  <2>3. QED
    BY <1>1, <1>3, <1>4, <2>2 DEF Waiting
<1>7. ASSUME NEW w \in Waiting, w # r PROVE w \in Waiting'
  <2>1. PICK j \in 1..Len(waiters) : w = waiters[j]
    BY DEF Waiting
  <2>2. PICK i \in 1..Len(waiters') : from(i) = j
    BY <1>1, <1>4, <1>7, <2>1
  <2>3. waiters'[i] = w
    BY <1>3, <2>1, <2>2
  <2>4. QED
    BY <2>3 DEF Waiting
<1>8. Waiting' = Waiting \ {r}
  BY <1>6, <1>7 DEF Waiting
<1>9. waiters # <<>>
  BY <1>1, <1>2
<1>10. QED
  BY <1>1, <1>5, <1>8, <1>9 DEF Orderly

=============================================================================
