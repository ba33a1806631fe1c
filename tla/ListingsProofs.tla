--------------------------- MODULE ListingsProofs ---------------------------
(***************************************************************************)
(* Proofs about Listings and the write template it runs on, for any        *)
(* number of listings, bindings, keys and requests in flight.              *)
(***************************************************************************)
EXTENDS Listings, FiniteSetTheorems, TLAPS

\* A request between its commit and its end.
Late(c) == calls[c].at \in {"network", "enqueue"}

(***************************************************************************)
(* The invariant of the template: a row that is not completed stands for   *)
(* work not committed, and a late request owns its row.                    *)
(***************************************************************************)
Owed(c) ==
    Late(c) /\ IdOf(c) \in Ids =>
        /\ keys[IdOf(c)].status = IF calls[c].at = "network" THEN "processing" ELSE "completed"
        /\ applied[IdOf(c)] = 0
Alone(c, d) ==
    Late(c) /\ Late(d) /\ IdOf(c) \in Ids /\ IdOf(c) = IdOf(d) => c = d
Counted(i) ==
    /\ applied[i] <= 1
    /\ keys[i].status # "completed" => applied[i] = 0

WriteInv ==
    /\ WritesTypeOK
    /\ \A c \in Requests : Owed(c)
    /\ \A c, d \in Requests : Alone(c, d)
    /\ \A i \in Ids : Counted(i)

LEMMA InitWrites == WritesInit => WriteInv
<1> USE DEF WritesInit, WriteInv
<1> SUFFICES ASSUME WritesInit PROVE WriteInv
  OBVIOUS
<1>1. WritesTypeOK
  BY MaxWritesAssumption DEF WritesTypeOK, Row, Call, Free, Idle
<1>2. \A c \in Requests : ~Late(c)
  BY DEF Late, Idle
<1>3. \A i \in Ids : Counted(i)
  BY DEF Counted, Free
<1> QED
  BY <1>1, <1>2, <1>3 DEF Owed, Alone

\* A request that ends, or that gets authenticated, disturbs nobody.
LEMMA LeaveWrites ==
    ASSUME WriteInv, NEW c \in Requests, NEW s \in Call,
           s = Idle \/ s.at = "authorised", Become(c, s),
           begun' \in 0 .. MaxWrites, UNCHANGED <<keys, applied>>
    PROVE  WriteInv'
<1> USE DEF WriteInv
<1>1. calls \in [Requests -> Call] /\ calls' = [calls EXCEPT ![c] = s]
  BY DEF WritesTypeOK, Become
<1>2. WritesTypeOK'
  BY <1>1 DEF WritesTypeOK
<1>3. \A d \in Requests : Late(d)' => d # c /\ calls'[d] = calls[d] /\ Late(d)
  BY <1>1 DEF Late, Idle
<1>4. \A d \in Requests : Owed(d)'
  <2> SUFFICES ASSUME NEW d \in Requests, Late(d)', IdOf(d)' \in Ids PROVE Owed(d)'
    BY DEF Owed
  <2>1. calls'[d] = calls[d] /\ Late(d) /\ Owed(d)
    BY <1>3
  <2> QED
    BY <2>1 DEF Owed, IdOf
<1>5. \A d, e \in Requests : Alone(d, e)'
  BY <1>3 DEF Alone, IdOf
<1>6. \A i \in Ids : Counted(i)'
  BY DEF Counted
<1> QED
  BY <1>2, <1>4, <1>5, <1>6

LEMMA CrashWrites == ASSUME WriteInv, Crash PROVE WriteInv'
<1> USE DEF WriteInv, Crash
<1>1. WritesTypeOK'
  BY DEF WritesTypeOK, Call
<1>2. \A c \in Requests : ~Late(c)'
  BY DEF Late, Idle
<1>3. \A i \in Ids : Counted(i)'
  BY DEF Counted
<1> QED
  BY <1>1, <1>2, <1>3 DEF Owed, Alone

(***************************************************************************)
(* complete.                                                               *)
(***************************************************************************)
\* An unused key has no late request and no work committed.
LEMMA UnusedRow ==
    ASSUME WriteInv, NEW i \in Ids, Unused(i)
    PROVE  applied[i] = 0 /\ \A d \in Requests : Late(d) => IdOf(d) # i
<1>1. keys[i].status = "none"
  BY DEF Unused, Free
<1>2. applied[i] = 0
  BY <1>1 DEF WriteInv, Counted
<1>3. ASSUME NEW d \in Requests, Late(d), IdOf(d) = i PROVE FALSE
  BY <1>1, <1>3 DEF WriteInv, Owed
<1> QED
  BY <1>2, <1>3

\* What complete does to its own row and to the others.
LEMMA CompleteRows ==
    ASSUME WriteInv, NEW i, NEW t \in Targets, NEW work \in {0, 1},
           Complete(i, t, work), i \in Ids => applied[i] = 0
    PROVE  /\ keys' \in [Ids -> Row] /\ applied' \in [Ids -> Nat]
           /\ \A j \in Ids : Counted(j)'
           /\ i \in Ids => keys'[i].status = "completed" /\ applied'[i] = work
           /\ \A d \in Requests : Late(d) /\ IdOf(d) \in Ids /\ IdOf(d) # i =>
                 keys'[IdOf(d)] = keys[IdOf(d)] /\ applied'[IdOf(d)] = applied[IdOf(d)]
<1> DEFINE row == [of |-> t, status |-> "completed", says |-> TRUE]
<1>1. PICK old \in SUBSET Prunable :
        /\ keys' = [j \in Ids |-> IF j = i THEN row
                                  ELSE [k \in Ids |-> IF k \in old THEN Free ELSE keys[k]][j]]
        /\ applied' = [j \in Ids |-> IF j = i THEN applied[j] + work
                                     ELSE IF j \in old THEN 0 ELSE applied[j]]
  BY DEF Complete, Put
<1>2. keys \in [Ids -> Row] /\ applied \in [Ids -> Nat]
  BY DEF WriteInv, WritesTypeOK
<1>3. row \in Row /\ Free \in Row /\ row.status = "completed" /\ Free.status = "none"
  BY DEF Row, Free
<1>4. \A j \in Ids : keys'[j] = IF j = i THEN row ELSE IF j \in old THEN Free ELSE keys[j]
  BY <1>1
<1>5. \A j \in Ids : applied'[j] = IF j = i THEN applied[j] + work
                                  ELSE IF j \in old THEN 0 ELSE applied[j]
  BY <1>1
<1> HIDE DEF row
<1>6. keys' \in [Ids -> Row]
  BY <1>1, <1>2, <1>3
<1>7. applied' \in [Ids -> Nat]
  BY <1>1, <1>2
<1>8. \A j \in Ids : Counted(j)'
  <2> TAKE j \in Ids
  <2>1. Counted(j) /\ applied[j] \in Nat
    BY <1>2 DEF WriteInv
  <2> QED
    BY <2>1, <1>3, <1>4, <1>5 DEF Counted
<1>9. i \in Ids => keys'[i].status = "completed" /\ applied'[i] = work
  BY <1>2, <1>3, <1>4, <1>5
<1>10. ASSUME NEW d \in Requests, Late(d), IdOf(d) \in Ids, IdOf(d) # i
       PROVE  keys'[IdOf(d)] = keys[IdOf(d)] /\ applied'[IdOf(d)] = applied[IdOf(d)]
  <2>1. InFlight(IdOf(d))
    BY <1>10 DEF InFlight, IdOf, Late, Idle
  <2>2. IdOf(d) \notin old
    BY <1>1, <2>1 DEF Prunable
  <2> QED
    BY <2>2, <1>4, <1>5, <1>10
<1> QED
  BY <1>6, <1>7, <1>8, <1>9, <1>10

\* The answer of a request whose row nobody else owns; c ends with it, or
\* goes on to enqueue.
LEMMA CompleteWrites ==
    ASSUME WriteInv, NEW c, NEW i, NEW t \in Targets, NEW work \in {0, 1},
           Complete(i, t, work), i \in Ids => applied[i] = 0,
           begun' \in 0 .. MaxWrites, calls' \in [Requests -> Call],
           \A d \in Requests : d # c => calls'[d] = calls[d],
           \A d \in Requests : Late(d) /\ d # c /\ i \in Ids => IdOf(d) # i,
           c \in Requests /\ Late(c)' =>
               calls'[c].at = "enqueue" /\ IdOf(c)' = i /\ work = 0
    PROVE  WriteInv'
<1>1. /\ keys' \in [Ids -> Row] /\ applied' \in [Ids -> Nat]
      /\ \A j \in Ids : Counted(j)'
      /\ i \in Ids => keys'[i].status = "completed" /\ applied'[i] = work
      /\ \A d \in Requests : Late(d) /\ IdOf(d) \in Ids /\ IdOf(d) # i =>
            keys'[IdOf(d)] = keys[IdOf(d)] /\ applied'[IdOf(d)] = applied[IdOf(d)]
  BY CompleteRows
<1>2. \A d \in Requests : d # c => (Late(d)' <=> Late(d)) /\ IdOf(d)' = IdOf(d)
  BY DEF Late, IdOf
<1>3. \A d \in Requests : Owed(d)'
  <2> SUFFICES ASSUME NEW d \in Requests, Late(d)', IdOf(d)' \in Ids PROVE Owed(d)'
    BY DEF Owed
  <2>1. CASE d = c
    BY <1>1, <2>1 DEF Owed
  <2>2. CASE d # c
    <3>1. Late(d) /\ IdOf(d)' = IdOf(d) /\ IdOf(d) \in Ids /\ calls'[d] = calls[d] /\ IdOf(d) # i
      BY <1>2, <2>2
    <3>2. keys'[IdOf(d)] = keys[IdOf(d)] /\ applied'[IdOf(d)] = applied[IdOf(d)] /\ Owed(d)
      BY <1>1, <3>1 DEF WriteInv
    <3> QED
      BY <3>1, <3>2 DEF Owed
  <2> QED
    BY <2>1, <2>2
<1>4. \A d, e \in Requests : Alone(d, e)'
  <2> SUFFICES ASSUME NEW d \in Requests, NEW e \in Requests, Late(d)', Late(e)',
                      IdOf(d)' \in Ids, IdOf(d)' = IdOf(e)', d # e
               PROVE  FALSE
    BY DEF Alone
  <2>1. CASE d # c /\ e # c
    BY <1>2, <2>1 DEF WriteInv, Alone
  <2>2. CASE d = c \/ e = c
    BY <1>2, <2>2
  <2> QED
    BY <2>1, <2>2
<1> QED
  BY <1>1, <1>3, <1>4 DEF WriteInv, WritesTypeOK

\* Claim, work and completion in one transaction, and complete on its own.
LEMMA TogetherWrites ==
    ASSUME WriteInv, NEW c \in Requests, NEW work \in {0, 1}, Together(c, work),
           begun' = begun, calls' \in [Requests -> Call],
           \A d \in Requests : d # c => calls'[d] = calls[d],
           Late(c)' => calls'[c].at = "enqueue" /\ IdOf(c)' = IdOf(c) /\ work = 0
    PROVE  WriteInv'
<1>0. PICK i, t : i = IdOf(c) /\ t = calls[c].target
  OBVIOUS
<1>1. calls \in [Requests -> Call] /\ begun \in 0 .. MaxWrites
  BY DEF WriteInv, WritesTypeOK
<1>2. calls[c].at = "authorised" /\ Unused(i) /\ Complete(i, t, work)
  BY <1>0 DEF Together
<1>3. t \in Targets
  BY <1>0, <1>1, <1>2 DEF Call, Idle
<1>4. i \in Ids => applied[i] = 0
  BY <1>2, UnusedRow
<1>5. \A d \in Requests : Late(d) /\ d # c /\ i \in Ids => IdOf(d) # i
  BY <1>2, UnusedRow
<1>6. begun' \in 0 .. MaxWrites
  BY <1>1
<1>7. CASE ~Late(c)'
  BY <1>2, <1>3, <1>4, <1>5, <1>6, <1>7, CompleteWrites
<1>8. CASE Late(c)'
  <2>1. calls'[c].at = "enqueue" /\ IdOf(c)' = i /\ work = 0
    BY <1>0, <1>8
  <2> QED
    BY <1>2, <1>3, <1>4, <1>5, <1>6, <2>1, CompleteWrites
<1> QED
  BY <1>7, <1>8

LEMMA TogetherEnds ==
    ASSUME WriteInv, NEW c \in Requests, Together(c, 1), Become(c, Idle), begun' = begun
    PROVE  WriteInv'
<1>1. calls' = [calls EXCEPT ![c] = Idle] /\ calls \in [Requests -> Call]
  BY DEF Become, WriteInv, WritesTypeOK
<1>2. calls' \in [Requests -> Call] /\ \A d \in Requests : d # c => calls'[d] = calls[d]
  BY <1>1 DEF Call
<1>3. ~Late(c)'
  BY <1>1 DEF Late, Idle
<1> QED
  BY <1>2, <1>3, TogetherWrites

LEMMA AnswerWrites == ASSUME WriteInv, NEW c \in Requests, Answer(c) PROVE WriteInv'
<1> DEFINE i == IdOf(c)
<1>1. calls \in [Requests -> Call] /\ calls' = [calls EXCEPT ![c] = Idle]
      /\ begun' = begun /\ begun \in 0 .. MaxWrites
  BY DEF WriteInv, WritesTypeOK, Answer, Become
<1>2. calls[c].at = "network" /\ Complete(i, calls[c].target, 1)
  BY DEF Answer
<1>3. calls[c] # Idle /\ calls[c].target \in Targets
  BY <1>1, <1>2 DEF Idle, Call
<1>4. i \in Ids => applied[i] = 0
  BY <1>2 DEF WriteInv, Owed, Late
<1>5. \A d \in Requests : Late(d) /\ d # c /\ i \in Ids => IdOf(d) # i
  BY <1>2 DEF WriteInv, Alone, Late
<1>6. ~Late(c)' /\ calls' \in [Requests -> Call] /\ \A d \in Requests : d # c => calls'[d] = calls[d]
  BY <1>1 DEF Late, Idle, Call
<1> HIDE DEF i
<1> QED
  BY <1>1, <1>2, <1>3, <1>4, <1>5, <1>6, CompleteWrites

(***************************************************************************)
(* The steps that touch the row of one late request and complete nothing.  *)
(***************************************************************************)
LEMMA ClaimWrites == ASSUME WriteInv, NEW c \in Requests, CommitClaim(c) PROVE WriteInv'
<1> DEFINE i   == IdOf(c)
           row == [of |-> calls[c].target, status |-> "processing", says |-> FALSE]
<1> USE DEF WriteInv
<1>1. /\ calls \in [Requests -> Call] /\ keys \in [Ids -> Row]
      /\ calls[c].at = "authorised" /\ Unused(i)
      /\ calls' = [calls EXCEPT ![c] = [calls[c] EXCEPT !.at = "network"]]
      /\ keys' = [j \in Ids |-> IF j = i THEN row ELSE keys[j]]
      /\ UNCHANGED <<begun, applied>>
  BY DEF WritesTypeOK, CommitClaim, Become, Claimed, Put
<1>2. calls[c] \in [at : {"authorised", "network", "enqueue"},
                    op : Operations, actor : Actors, key : Keys \cup {None}, target : Targets]
  BY <1>1 DEF Call, Idle
<1>3. row \in Row /\ row.status = "processing"
  BY <1>2 DEF Row
<1>4. i \in Ids => applied[i] = 0 /\ \A d \in Requests : Late(d) => IdOf(d) # i
  BY <1>1, UnusedRow
<1>5. \A d \in Requests : d # c => calls'[d] = calls[d] /\ IdOf(d)' = IdOf(d) /\ (Late(d)' <=> Late(d))
  BY <1>1 DEF IdOf, Late
<1>6. calls'[c].at = "network" /\ IdOf(c)' = i
  BY <1>1, <1>2 DEF IdOf
<1>7. WritesTypeOK'
  <2>1. [calls[c] EXCEPT !.at = "network"] \in Call
    BY <1>2 DEF Call
  <2> QED
    BY <1>1, <1>3, <2>1 DEF WritesTypeOK
<1> HIDE DEF row, i
<1>8. \A d \in Requests : Owed(d)'
  <2> SUFFICES ASSUME NEW d \in Requests, Late(d)', IdOf(d)' \in Ids PROVE Owed(d)'
    BY DEF Owed
  <2>1. CASE d = c
    BY <1>1, <1>3, <1>4, <1>6, <2>1 DEF Owed
  <2>2. CASE d # c
    BY <1>1, <1>4, <1>5, <2>2 DEF Owed
  <2> QED
    BY <2>1, <2>2
<1>9. \A d, e \in Requests : Alone(d, e)'
  BY <1>4, <1>5, <1>6 DEF Alone
<1>10. \A j \in Ids : Counted(j)'
  BY <1>1, <1>3, <1>4 DEF Counted
<1> QED
  BY <1>7, <1>8, <1>9, <1>10

LEMMA EnqueueWrites ==
    ASSUME WriteInv, NEW c \in Requests, Enqueue(c) \/ Reword(c) PROVE WriteInv'
<1> DEFINE i == IdOf(c)
<1> USE DEF WriteInv
<1>1. /\ calls \in [Requests -> Call] /\ keys \in [Ids -> Row] /\ applied \in [Ids -> Nat]
      /\ calls[c].at = "enqueue" /\ calls' = [calls EXCEPT ![c] = Idle] /\ begun' = begun
  BY DEF WritesTypeOK, Enqueue, Reword, Become
<1>2. i \in Ids => keys[i].status = "completed" /\ applied[i] = 0
  BY <1>1 DEF Owed, Late
<1>3. \A d \in Requests : Late(d)' => /\ d # c /\ Late(d) /\ calls'[d] = calls[d] /\ IdOf(d)' = IdOf(d)
                                     /\ (IdOf(d) \in Ids => IdOf(d) # i)
  BY <1>1 DEF Late, Idle, IdOf, Alone
<1>4. /\ keys' \in [Ids -> Row] /\ applied' \in [Ids -> Nat]
      /\ \A j \in Ids : keys'[j].status = keys[j].status
      /\ \A j \in Ids : j # i => applied'[j] = applied[j]
      /\ i \in Ids => applied'[i] <= 1
  <2>1. CASE Enqueue(c)
    BY <1>1, <1>2, <2>1 DEF Enqueue
  <2>2. CASE Reword(c)
    <3>1. keys' = [j \in Ids |-> IF j = i THEN [keys[j] EXCEPT !.says = FALSE] ELSE keys[j]]
          /\ applied' = applied
      BY <2>2 DEF Reword
    <3>2. i \in Ids => keys[i] \in [of : Targets, status : {"processing", "completed"}, says : BOOLEAN]
      BY <1>1, <1>2 DEF Row, Free
    <3>3. i \in Ids => /\ [keys[i] EXCEPT !.says = FALSE] \in Row
                       /\ [keys[i] EXCEPT !.says = FALSE].status = keys[i].status
      BY <3>2 DEF Row
    <3>4. \A j \in Ids : keys'[j] = IF j = i THEN [keys[i] EXCEPT !.says = FALSE] ELSE keys[j]
      BY <3>1
    <3>5. \A j \in Ids : keys'[j] \in Row /\ keys'[j].status = keys[j].status
      BY <1>1, <3>3, <3>4
    <3>6. keys' \in [Ids -> Row]
      BY <3>1, <3>5
    <3> QED
      BY <1>1, <1>2, <3>1, <3>5, <3>6
  <2> QED
    BY <2>1, <2>2
<1> HIDE DEF i
<1>5. \A d \in Requests : Owed(d)'
  <2> SUFFICES ASSUME NEW d \in Requests, Late(d)', IdOf(d)' \in Ids PROVE Owed(d)'
    BY DEF Owed
  <2> QED
    BY <1>3, <1>4 DEF Owed
<1>6. \A d, e \in Requests : Alone(d, e)'
  BY <1>3 DEF Alone
<1>7. \A j \in Ids : Counted(j)'
  BY <1>2, <1>4 DEF Counted
<1>8. WritesTypeOK'
  BY <1>1, <1>4 DEF WritesTypeOK, Call
<1> QED
  BY <1>5, <1>6, <1>7, <1>8

(***************************************************************************)
(* The listings.                                                           *)
(***************************************************************************)
\* What a moderator took down carries the hold as long as nobody releases it:
\* this makes GroundedStaysDown inductive.
Down == \A l \in grounded : rows[l].hold = "governance" /\ rows[l].state # "ACTIVE"
MerchantTypeOK ==
    /\ rows \in [Listings -> Listing]
    /\ agent \in {"active", "suspended"}
    /\ account \in {"none", "ready", "unready"}
    /\ plan \in Plan
    /\ bound \in Bindings \cup {None}
    /\ grounded \subseteq Listings

IInv == WriteInv /\ MerchantTypeOK /\ Down

LEMMA InitInv == Init => IInv
<1> SUFFICES ASSUME Init PROVE IInv
  OBVIOUS
<1>1. WriteInv
  BY InitWrites DEF Init
<1>2. MerchantTypeOK
  BY ListingsAssumption DEF Init, MerchantTypeOK, Listing, States, Holds, Plan
<1>3. Down
  BY DEF Init, Down
<1> QED
  BY <1>1, <1>2, <1>3 DEF IInv

LEMMA IdleIsCall == Idle \in Call
  BY DEF Call

\* A first transaction: the request is authenticated and in flight.
LEMMA EnterWrites ==
    ASSUME WriteInv, NEW c \in Requests, NEW op \in Operations, NEW a \in Actors,
           NEW k \in Keys \cup {None}, NEW t \in Targets, Enter(c, op, a, k, t)
    PROVE  WriteInv'
<1> DEFINE s == [at |-> "authorised", op |-> op, actor |-> a, key |-> k, target |-> t]
<1>1. s \in Call /\ s.at = "authorised"
  BY DEF Call
<1>2. Become(c, s) /\ UNCHANGED <<keys, applied>>
  BY DEF Enter
<1>3. begun' \in 0 .. MaxWrites
  BY MaxWritesAssumption DEF Enter, Begin, WriteInv, WritesTypeOK
<1> HIDE DEF s
<1> QED
  BY <1>1, <1>2, <1>3, LeaveWrites

\* The template: every step that leaves the merchant's state alone.
LEMMA AgentWrites == ASSUME WriteInv, NEW c \in Requests, AgentWrite(c) PROVE WriteInv'
<1>1. CASE CommitClaim(c)
  BY <1>1, ClaimWrites
<1>2. CASE Answer(c)
  BY <1>2, AnswerWrites
<1>3. CASE Fail(c) \/ QueueFull(c)
  <2>1. begun \in 0 .. MaxWrites
    BY DEF WriteInv, WritesTypeOK
  <2> QED
    BY <1>3, <2>1, IdleIsCall, LeaveWrites DEF Fail, QueueFull
<1>4. CASE CommitAnswer(c)
  <2>1. Together(c, 0) /\ begun' = begun
        /\ calls' = [calls EXCEPT ![c] = [calls[c] EXCEPT !.at = "enqueue"]]
    BY <1>4 DEF CommitAnswer, Become
  <2>2. calls \in [Requests -> Call] /\ calls[c] \in Call /\ calls[c] # Idle
    BY <2>1 DEF WriteInv, WritesTypeOK, Together, Idle
  <2>3. [calls[c] EXCEPT !.at = "enqueue"] \in Call
    BY <2>2 DEF Call
  <2>4. calls' \in [Requests -> Call] /\ \A d \in Requests : d # c => calls'[d] = calls[d]
    BY <2>1, <2>2, <2>3
  <2>5. calls'[c].at = "enqueue" /\ IdOf(c)' = IdOf(c)
    BY <2>1, <2>2 DEF Call, IdOf
  <2> QED
    BY <2>1, <2>4, <2>5, TogetherWrites
<1>5. CASE Enqueue(c) \/ Reword(c)
  BY <1>5, EnqueueWrites
<1> QED
  BY <1>1, <1>2, <1>3, <1>4, <1>5 DEF AgentWrite

LEMMA LeftWrites ==
    ASSUME WriteInv, NEW c \in Requests, ClaimMeetsRow(c) \/ RolledBack(c)
    PROVE  WriteInv'
<1>1. begun \in 0 .. MaxWrites
  BY DEF WriteInv, WritesTypeOK
<1> QED
  BY <1>1, IdleIsCall, LeaveWrites DEF ClaimMeetsRow, RolledBack

(***************************************************************************)
(* Publish, withdraw, reinstate.                                           *)
(***************************************************************************)
LEMMA PublishInv ==
    ASSUME IInv, NEW a \in Actors, NEW k \in Keys \cup {None}, NEW l \in Listings,
           Publish(a, k, l)
    PROVE  IInv'
<1> DEFINE i == <<"publish", a, k>>
<1> USE DEF IInv
<1>1. WriteInv'
  <2>1. Complete(i, l, 1) /\ Unused(i) /\ UNCHANGED calls /\ l \in Targets
    BY TargetsAssumption DEF Publish
  <2>2. begun' \in 0 .. MaxWrites
    BY MaxWritesAssumption DEF Publish, Begin, WriteInv, WritesTypeOK
  <2>3. i \in Ids => applied[i] = 0 /\ \A d \in Requests : Late(d) => IdOf(d) # i
    BY <2>1, UnusedRow
  <2>4. calls' \in [Requests -> Call]
    BY <2>1 DEF WriteInv, WritesTypeOK
  <2>5. PICK c : c \notin Requests
    BY NoSetContainsEverything
  <2> HIDE DEF i
  <2> QED
    BY <2>1, <2>2, <2>3, <2>4, <2>5, CompleteWrites
<1>2. l \notin grounded
  BY DEF Publish, Publishable, Down
<1>3. rows' = [rows EXCEPT ![l] = [state |-> "ACTIVE", hold |-> "none"]]
      /\ UNCHANGED <<agent, account, plan, bound, grounded>>
  BY DEF Publish, Set
<1>4. MerchantTypeOK'
  BY <1>3 DEF MerchantTypeOK, Listing, States, Holds
<1>5. Down'
  BY <1>2, <1>3 DEF Down, MerchantTypeOK
<1> QED
  BY <1>1, <1>4, <1>5

LEMMA WithdrawInv == ASSUME IInv, NEW c \in Requests, Withdraw(c) PROVE IInv'
<1> DEFINE l == calls[c].target
<1> USE DEF IInv
<1>1. WriteInv'
  <2>1. Together(c, 1) /\ Become(c, Idle) /\ begun' = begun
    BY DEF Withdraw
  <2> QED
    BY <2>1, TogetherEnds
<1>2. rows' = [rows EXCEPT ![l] = [state |-> "WITHDRAWN", hold |-> rows[l].hold]]
      /\ UNCHANGED <<agent, account, plan, bound, grounded>>
  BY DEF Withdraw, Set
<1>3. MerchantTypeOK'
  BY <1>2 DEF MerchantTypeOK, Listing, States
<1>4. Down'
  BY <1>2 DEF Down, MerchantTypeOK
<1> QED
  BY <1>1, <1>3, <1>4

LEMMA ReinstateInv == ASSUME IInv, NEW c \in Requests, Reinstate(c) PROVE IInv'
<1> DEFINE l == calls[c].target
<1> USE DEF IInv
<1>1. WriteInv'
  <2>1. Together(c, 1) /\ Become(c, Idle) /\ begun' = begun
    BY DEF Reinstate
  <2> QED
    BY <2>1, TogetherEnds
<1>2. rows' = [rows EXCEPT ![l] = [state |-> "ACTIVE", hold |-> "none"]]
      /\ UNCHANGED <<agent, account, plan, bound>>
  BY DEF Reinstate, Set
<1>3. grounded' = IF calls[c].actor = Admin THEN grounded \ {l} ELSE grounded
  BY DEF Reinstate
<1>4. l \notin grounded'
  BY <1>3 DEF Reinstate, Releasable, Down
<1>5. MerchantTypeOK'
  BY <1>2, <1>3 DEF MerchantTypeOK, Listing, States, Holds
<1>6. Down'
  BY <1>2, <1>3, <1>4 DEF Down, MerchantTypeOK
<1> QED
  BY <1>1, <1>5, <1>6

LEMMA SameWrites == ASSUME WriteInv, UNCHANGED writes PROVE WriteInv'
<1>1. \A c \in Requests : (Late(c)' <=> Late(c)) /\ IdOf(c)' = IdOf(c)
  BY DEF writes, Late, IdOf
<1>2. WritesTypeOK'
  BY DEF WriteInv, WritesTypeOK, writes
<1>3. \A c \in Requests : Owed(c)'
  BY <1>1 DEF WriteInv, Owed, writes
<1>4. \A c, d \in Requests : Alone(c, d)'
  BY <1>1 DEF WriteInv, Alone
<1>5. \A i \in Ids : Counted(i)'
  BY DEF WriteInv, Counted, writes
<1> QED
  BY <1>2, <1>3, <1>4, <1>5 DEF WriteInv

LEMMA SameMerchant == ASSUME IInv, WriteInv', UNCHANGED merchant PROVE IInv'
  BY DEF IInv, MerchantTypeOK, Down, merchant

\* The moderator, the administrator, the account and the runtime.
LEMMA OthersInv ==
    ASSUME IInv, Suspend \/ Revive \/ SetPlan \/ Account \/ Rebind
    PROVE  IInv'
<1> USE DEF IInv
<1>1. WriteInv'
  BY SameWrites DEF Suspend, Revive, SetPlan, Account, Rebind
<1>2. CASE Suspend
  <2>1. rows' = [l \in Listings |-> IF rows[l].state = "ACTIVE"
                 THEN [state |-> "SUSPENDED", hold |-> "governance"] ELSE rows[l]]
        /\ grounded' = grounded \cup {l \in Listings : rows[l].state = "ACTIVE"}
        /\ agent' = "suspended" /\ UNCHANGED <<account, plan, bound>>
    BY <1>2 DEF Suspend
  <2>2. MerchantTypeOK'
    BY <2>1 DEF MerchantTypeOK, Listing, States, Holds
  <2>3. Down'
    BY <2>1 DEF Down, MerchantTypeOK
  <2> QED
    BY <1>1, <2>2, <2>3
<1>3. CASE Revive \/ SetPlan \/ Account \/ Rebind
  <2>1. UNCHANGED <<rows, grounded>>
    BY <1>3 DEF Revive, SetPlan, Account, Rebind
  <2>2. MerchantTypeOK'
    <3>1. CASE Revive
      BY <3>1 DEF MerchantTypeOK, Revive
    <3>2. CASE SetPlan
      BY <3>2, ListingsAssumption DEF MerchantTypeOK, SetPlan, Plan
    <3>3. CASE Account
      BY <3>3, ListingsAssumption DEF MerchantTypeOK, Account, Plan
    <3>4. CASE Rebind
      BY <3>4 DEF MerchantTypeOK, Rebind
    <3> QED
      BY <1>3, <3>1, <3>2, <3>3, <3>4
  <2>3. Down'
    BY <2>1 DEF Down
  <2> QED
    BY <1>1, <2>2, <2>3
<1> QED
  BY <1>2, <1>3

LEMMA NextInv == IInv /\ [Next]_vars => IInv'
<1> SUFFICES ASSUME IInv, [Next]_vars PROVE IInv'
  OBVIOUS
<1> USE DEF IInv
<1>1. ASSUME NEW a \in Actors, NEW k \in Keys \cup {None}, NEW l \in Listings, Publish(a, k, l)
      PROVE  IInv'
  BY <1>1, PublishInv
<1>2. ASSUME NEW a \in Actors, NEW k \in Keys \cup {None}, NEW l \in Listings, NEW c \in Requests,
             WithdrawBegin(c, a, k, l) \/ ReinstateBegin(c, a, k, l)
      PROVE  IInv'
  <2>1. l \in Targets /\ {"withdraw", "reinstate"} \subseteq Operations
    BY TargetsAssumption, OperationsAssumption
  <2>2. WriteInv'
    BY <1>2, <2>1, EnterWrites DEF WithdrawBegin, ReinstateBegin
  <2>3. UNCHANGED merchant
    BY <1>2 DEF WithdrawBegin, ReinstateBegin
  <2> QED
    BY <2>2, <2>3, SameMerchant
<1>3. ASSUME NEW c \in Requests, NEW op \in Operations, NEW a \in Actors,
             NEW k \in Keys \cup {None}, AgentBegin(c, op, a, k)
      PROVE  IInv'
  <2>1. Agent \in Targets
    BY TargetsAssumption
  <2>2. WriteInv' /\ UNCHANGED merchant
    BY <1>3, <2>1, EnterWrites DEF AgentBegin
  <2> QED
    BY <2>2, SameMerchant
<1>4. ASSUME NEW c \in Requests, Withdraw(c) PROVE IInv'
  BY <1>4, WithdrawInv
<1>5. ASSUME NEW c \in Requests, Reinstate(c) PROVE IInv'
  BY <1>5, ReinstateInv
<1>6. ASSUME NEW c \in Requests, AgentWrite(c) PROVE IInv'
  <2>1. WriteInv' /\ UNCHANGED merchant
    BY <1>6, AgentWrites DEF AgentWrite
  <2> QED
    BY <2>1, SameMerchant
<1>7. ASSUME NEW c \in Requests, ClaimMeetsRow(c) \/ RolledBack(c), UNCHANGED merchant PROVE IInv'
  BY <1>7, LeftWrites, SameMerchant
<1>8. CASE Crash /\ UNCHANGED merchant
  BY <1>8, CrashWrites, SameMerchant
<1>9. CASE Suspend \/ Revive \/ SetPlan \/ Account \/ Rebind
  BY <1>9, OthersInv
<1>10. CASE UNCHANGED vars
  <2>1. UNCHANGED writes /\ UNCHANGED merchant
    BY <1>10 DEF vars, merchant
  <2> QED
    BY <2>1, SameWrites, SameMerchant
<1> QED
  BY <1>1, <1>2, <1>3, <1>4, <1>5, <1>6, <1>7, <1>8, <1>9, <1>10 DEF Next

LEMMA SpecInv == Spec => []IInv
<1> QED
  BY InitInv, NextInv, PTL DEF Spec

(***************************************************************************)
(* The theorems.                                                           *)
(***************************************************************************)
\* The state keeps its type: rows, requests in flight, plan and listings.
THEOREM TypeCorrect == Spec => []TypeOK
<1>1. IInv => TypeOK
  BY DEF IInv, WriteInv, MerchantTypeOK, TypeOK
<1> QED
  BY <1>1, SpecInv, PTL

\* As long as its row is kept, the work an idempotency key stands for is
\* committed at most once, for any number of requests that carry it, overlap,
\* fail or crash (claim_catalog_write_idempotency, complete_...).
THEOREM WorkAppliedOnce == Spec => []AppliedOnce
<1>1. IInv => AppliedOnce
  BY DEF IInv, WriteInv, Counted, AppliedOnce
<1> QED
  BY <1>1, SpecInv, PTL

\* What a moderator's suspension took down is not active until an
\* administrator reinstates it (publish_listing, reinstate_listing).
THEOREM HoldIsKept == Spec => []GroundedStaysDown
<1>1. IInv => GroundedStaysDown
  BY DEF IInv, Down, GroundedStaysDown
<1> QED
  BY <1>1, SpecInv, PTL

\* One more listing is active after a step that activates one.
LEMMA OneMoreUsed ==
    ASSUME NEW l \in Listings, rows' = [rows EXCEPT ![l] = [state |-> "ACTIVE", hold |-> "none"]],
           rows \in [Listings -> Listing], Used < plan.limit, plan \in Plan, UNCHANGED plan
    PROVE  Used' <= plan.limit
<1> DEFINE A == {m \in Listings : rows[m].state = "ACTIVE"}
           B == {m \in Listings : rows'[m].state = "ACTIVE"}
<1>1. IsFiniteSet(A) /\ Cardinality(A) \in Nat
  BY ListingsAssumption, FS_Subset, FS_CardinalityType, A \in SUBSET Listings
<1>2. B \subseteq A \cup {l}
  OBVIOUS
<1>3. Used = Cardinality(A) /\ Used' = Cardinality(B)
  BY DEF Used
<1> HIDE DEF A, B
<1>4. IsFiniteSet(A \cup {l}) /\ Cardinality(A \cup {l}) <= Cardinality(A) + 1
  <2>1. Cardinality(A \cup {l}) = IF l \in A THEN Cardinality(A) ELSE Cardinality(A) + 1
    BY <1>1, FS_AddElement
  <2> QED
    BY <1>1, <2>1, FS_AddElement
<1>5. IsFiniteSet(B) /\ Cardinality(B) <= Cardinality(A \cup {l})
  BY <1>2, <1>4, FS_Subset
<1>6. Cardinality(B) \in Nat /\ Cardinality(A \cup {l}) \in Nat
  BY <1>4, <1>5, FS_CardinalityType
<1>7. plan.limit \in Nat
  BY DEF Plan
<1> QED
  BY <1>1, <1>3, <1>4, <1>5, <1>6, <1>7

\* Whoever activates a listing stays within an active plan: the count and the
\* write are one transaction (require_publication_capacity).
THEOREM PlanIsKept == Spec => WithinPlan
<1> DEFINE Activates == \E l \in Listings : rows[l].state # "ACTIVE" /\ rows'[l].state = "ACTIVE"
           ByAdmin   == \E k \in Keys \cup {None}, l \in Listings : Publish(Admin, k, l)
           Within    == plan.status = "active" /\ Used' <= plan.limit
<1>1. ASSUME IInv, [Next]_vars, Activates PROVE account = "none" \/ ByAdmin \/ Within
  <2> USE DEF IInv
  <2>1. ASSUME NEW a \in Actors, NEW k \in Keys \cup {None}, NEW l \in Listings, Publish(a, k, l)
        PROVE  account = "none" \/ ByAdmin \/ Within
    <3>1. rows' = [rows EXCEPT ![l] = [state |-> "ACTIVE", hold |-> "none"]] /\ UNCHANGED plan
      BY <2>1 DEF Publish, Set
    <3>2. rows[l].state # "ACTIVE"
      BY <1>1, <3>1 DEF MerchantTypeOK
    <3>3. CASE a \in Bindings
      <4>1. plan.status = "active" /\ Used < plan.limit
        BY <2>1, <3>2, <3>3 DEF Publish, Publishable, HasCapacity
      <4>2. rows \in [Listings -> Listing] /\ plan \in Plan
        BY <1>1 DEF MerchantTypeOK
      <4>3. Used' <= plan.limit
        BY <3>1, <4>1, <4>2, OneMoreUsed
      <4> QED
        BY <4>1, <4>3
    <3>4. CASE a = Admin
      BY <2>1, <3>4
    <3>5. CASE a = Owner
      BY <1>1, <2>1, <3>5, AdminAssumption, ActorsAssumption DEF Publish, Authorised, MerchantTypeOK
    <3> QED
      BY <3>3, <3>4, <3>5, ActorsAssumption
  <2>2. ASSUME NEW c \in Requests, Reinstate(c) PROVE account = "none" \/ Within
    <3> DEFINE l == calls[c].target
    <3>1. rows' = [rows EXCEPT ![l] = [state |-> "ACTIVE", hold |-> "none"]] /\ UNCHANGED plan
      BY <2>2 DEF Reinstate, Set
    <3>2. l \in Listings
      BY <1>1, <3>1 DEF MerchantTypeOK
    <3>3. account # "none" => plan.status = "active" /\ Used < plan.limit
      BY <2>2 DEF Reinstate, Releasable, HasCapacity
    <3>4. rows \in [Listings -> Listing] /\ plan \in Plan
      BY <1>1 DEF MerchantTypeOK
    <3> HIDE DEF l
    <3>5. account # "none" => Used' <= plan.limit
      BY <3>1, <3>2, <3>3, <3>4, OneMoreUsed
    <3> QED
      BY <3>3, <3>5
  <2>3. ASSUME NEW c \in Requests, Withdraw(c) PROVE FALSE
    BY <1>1, <2>3 DEF Withdraw, Set, MerchantTypeOK
  <2>4. CASE Suspend
    BY <1>1, <2>4 DEF Suspend
  <2>5. CASE UNCHANGED rows
    BY <1>1, <2>5
  <2> QED
    BY <1>1, <2>1, <2>2, <2>3, <2>4, <2>5
    DEF Next, vars, merchant, WithdrawBegin, ReinstateBegin, AgentBegin, AgentWrite,
        Revive, SetPlan, Account, Rebind
<1>2. IInv /\ [Next]_vars => [Activates => account = "none" \/ ByAdmin \/ Within]_vars
  BY <1>1
<1> QED
  BY <1>2, SpecInv, PTL DEF Spec, WithinPlan
=============================================================================
