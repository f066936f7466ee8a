---------------------------- MODULE BoundedBody ----------------------------
(***************************************************************************)
(* How crates/common/src/lib.rs reads the body of an HTTP response: the    *)
(* declared length is looked at first, then the chunks are appended to a   *)
(* buffer that must not outgrow its limit.  bounded_body reads the API's   *)
(* answers with MAX_RESPONSE_BYTES, bounded_auth_body those of Shared Auth *)
(* with MAX_INTROSPECTION_RESPONSE_BYTES; they differ in nothing else but  *)
(* the WebError a refusal becomes.                                         *)
(*                                                                         *)
(* The peer chooses the header and the chunks, in no relation to each      *)
(* other; a body is abstracted to its length.                              *)
(***************************************************************************)
EXTENDS Naturals, TLAPS

CONSTANTS
  Limit,     \* the limit of the reader
  MaxUsize,  \* usize::MAX
  Undeclared \* no content-length header

ASSUME WidthAssumption ==
  /\ Limit \in Nat
  /\ MaxUsize \in Nat
  /\ Limit <= MaxUsize
  /\ Undeclared \notin Nat

VARIABLES
  declared,  \* the content-length of the response
  sent,      \* length of the chunks the stream has yielded
  buffered,  \* length of the buffer
  outcome    \* what became of the body

vars == <<declared, sent, buffered, outcome>>

Length == 0..MaxUsize

TypeOK ==
  /\ declared \in Length \cup {Undeclared}
  /\ sent \in Nat
  /\ buffered \in Length
  /\ outcome \in {"unread", "reading", "whole", "tooLong", "broken"}

Init ==
  /\ declared \in Length \cup {Undeclared}
  /\ sent = 0
  /\ buffered = 0
  /\ outcome = "unread"

\* The header alone can refuse a body, and cannot admit one.
Begin ==
  /\ outcome = "unread"
  /\ outcome' = IF declared # Undeclared /\ declared > Limit THEN "tooLong" ELSE "reading"
  /\ UNCHANGED <<declared, sent, buffered>>

\* Mutant: a body that declared its length is not measured again.
AppendTrusting(n) ==
  /\ outcome = "reading"
  /\ sent' = sent + n
  /\ \/ /\ declared # Undeclared \/ buffered + n <= Limit
        /\ buffered' = buffered + n
        /\ UNCHANGED outcome
     \/ /\ declared = Undeclared /\ buffered + n > Limit
        /\ outcome' = "tooLong"
        /\ UNCHANGED buffered
  /\ UNCHANGED declared

\* Mutant: the new length is computed with a wrapping add.
AppendWrapping(n) ==
  LET next == (buffered + n) % (MaxUsize + 1) IN
  /\ outcome = "reading"
  /\ sent' = sent + n
  /\ \/ next <= Limit /\ buffered' = next /\ UNCHANGED outcome
     \/ next > Limit /\ outcome' = "tooLong" /\ UNCHANGED buffered
  /\ UNCHANGED declared

\* extend_bounded: a chunk of length n fits, or ends the reading.
ExtendBounded(n) ==
  LET next == buffered + n IN
  /\ outcome = "reading"
  /\ sent' = sent + n
  /\ \/ next <= MaxUsize /\ next <= Limit /\ buffered' = next /\ UNCHANGED outcome
     \/ next > MaxUsize /\ outcome' = "tooLong" /\ UNCHANGED buffered
     \/ next > Limit /\ outcome' = "tooLong" /\ UNCHANGED buffered
  /\ UNCHANGED declared

\* The stream ends, or fails with a chunk that cannot be read.
End ==
  /\ outcome = "reading"
  /\ outcome' \in {"whole", "broken"}
  /\ UNCHANGED <<declared, sent, buffered>>

\* The body has been read or refused.
Over ==
  /\ outcome \in {"whole", "tooLong", "broken"}
  /\ UNCHANGED vars

Next == Begin \/ (\E n \in Length : ExtendBounded(n)) \/ End \/ Over

Spec == Init /\ [][Next]_vars

-----------------------------------------------------------------------------
\* The limit bounds what a peer can make the process hold, whatever it declared
\* and however it cuts its chunks.
WithinLimit == buffered <= Limit

\* A body is handed out whole or not at all, and is only refused for its length
\* if it was too long or said it was: one of exactly the limit gets through.
WholeOrRefused ==
  /\ outcome = "whole" => buffered = sent
  /\ outcome = "tooLong" => sent > Limit \/ (declared # Undeclared /\ declared > Limit)

-----------------------------------------------------------------------------
\* While it is being read, nothing of a body has been lost.
BodyInv ==
  /\ TypeOK
  /\ outcome \in {"unread", "reading"} => buffered = sent
  /\ WithinLimit
  /\ WholeOrRefused

LEMMA BodyInvariant == Spec => []BodyInv
<1> USE WidthAssumption DEF Length
<1>1. Init => BodyInv
  BY DEF Init, BodyInv, TypeOK, WithinLimit, WholeOrRefused
<1>2. BodyInv /\ [Next]_vars => BodyInv'
  <2> SUFFICES ASSUME BodyInv, [Next]_vars PROVE BodyInv'
    OBVIOUS
  <2> USE DEF BodyInv, TypeOK, WithinLimit, WholeOrRefused
  <2>1. CASE Begin
    BY <2>1 DEF Begin
  <2>2. ASSUME NEW n \in Length, ExtendBounded(n) PROVE BodyInv'
    BY <2>2 DEF ExtendBounded
  <2>3. CASE End
    BY <2>3 DEF End
  <2>4. CASE Over \/ UNCHANGED vars
    BY <2>4 DEF Over, vars
  <2>5. QED
    BY <2>1, <2>2, <2>3, <2>4 DEF Next
<1>3. QED
  BY <1>1, <1>2, PTL DEF Spec

\* The buffer never outgrows what a usize can count, although ExtendBounded adds
\* any two lengths.
THEOREM TypeCorrect == Spec => []TypeOK
<1>1. BodyInv => TypeOK
  BY DEF BodyInv
<1>2. QED
  BY <1>1, BodyInvariant, PTL

\* No response makes the process buffer more than the limit of its reader.
THEOREM Bounded == Spec => []WithinLimit
<1>1. BodyInv => WithinLimit
  BY DEF BodyInv
<1>2. QED
  BY <1>1, BodyInvariant, PTL

\* No body within the limit is refused or cut, for every limit and every way to
\* cut it into chunks.
THEOREM Faithful == Spec => []WholeOrRefused
<1>1. BodyInv => WholeOrRefused
  BY DEF BodyInv
<1>2. QED
  BY <1>1, BodyInvariant, PTL

=============================================================================
