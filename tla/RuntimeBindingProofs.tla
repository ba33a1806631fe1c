------------------------- MODULE RuntimeBindingProofs -------------------------
(***************************************************************************)
(* Theorems about the runtime binding of an agent, for every number of     *)
(* runtimes, requests, enrolments and calls, and every bound on versions.  *)
(*                                                                         *)
(* Everything rests on one fact: the version a writer computes from what   *)
(* it read before the lock is free only if what it read is still the       *)
(* newest binding.  So OnlyNewest needs to know of each call that what it  *)
(* read exists (CallsKnow), and nothing else.                              *)
(***************************************************************************)
EXTENDS RuntimeBinding, SequenceTheorems, TLAPS

\* Only the newest binding can be active.
OnlyNewest == Live \subseteq {Len(bindings)}

\* What a call has read exists; an authorisation knows its next version.
CallsKnow ==
    \A c \in Calls :
        /\ calls[c].at = "signed" => calls[c].binding \in DOMAIN bindings
        /\ calls[c].at = "admin" => calls[c].existing \in 0 .. Len(bindings)
        /\ calls[c].at \in {"checked", "granting", "enrolling"} =>
             enrollments[calls[c].enrollment].status # "none"

\* A request that exists names a runtime, an enrolment a card.
RowsAreComplete ==
    /\ \A q \in Pending : requests[q].runtime \in Runtimes
    /\ \A e \in Enrollments :
          enrollments[e].status # "none" => enrollments[e].card \in Cards

BoundStatuses == {"bound", "published", "canceled"}

\* An enrolment with a binding was bound, as it was authorised.
GrantsKnow ==
    \A e \in Enrollments :
        /\ enrollments[e].status \in {"bound", "published"} => enrollments[e].binding # 0
        /\ enrollments[e].binding # 0 =>
             /\ enrollments[e].status \in BoundStatuses
             /\ enrollments[e].binding = enrollments[e].expected
             /\ enrollments[e].binding \in DOMAIN bindings
             /\ bindings[enrollments[e].binding].runtime = enrollments[e].card.runtime

IInv == /\ TypeOK
        /\ OnlyNewest
        /\ CallsKnow
        /\ RowsAreComplete
        /\ GrantsKnow
        /\ GrantBindsOnce
        /\ EndpointsMirror
-----------------------------------------------------------------------------
\* With at most the newest binding active, it is the current one or none is.
LEMMA NewestIsCurrent ==
  ASSUME NEW bs \in Seq(Binding), LiveIn(bs) \subseteq {Len(bs)}
  PROVE  /\ LiveIn(bs) = {} => CurrentOf(bs) = 0
         /\ LiveIn(bs) # {} => /\ LiveIn(bs) = {Len(bs)}
                               /\ CurrentOf(bs) = Len(bs)
                               /\ CurrentOf(bs) \in DOMAIN bs
                               /\ CurrentOf(bs) # 0
<1>1. LiveIn(bs) \subseteq DOMAIN bs
  BY DEF LiveIn
<1>2. Len(bs) \in Nat /\ DOMAIN bs = 1 .. Len(bs)
  OBVIOUS
<1>3. CASE LiveIn(bs) = {}
  BY <1>3 DEF CurrentOf
<1>4. CASE LiveIn(bs) # {}
  <2>1. LiveIn(bs) = {Len(bs)} /\ Len(bs) \in DOMAIN bs
    BY <1>1, <1>4
  <2>2. CurrentOf(bs) = Len(bs)
    BY <1>2, <2>1 DEF CurrentOf
  <2> QED
    BY <1>2, <2>1, <2>2
<1> QED
  BY <1>3, <1>4

\* A version is computed from the binding it replaces; if it is free, that
\* binding is the newest.
LEMMA FreeVersionIsNext ==
  ASSUME bindings \in Seq(Binding), NEW existing \in 0 .. Len(bindings),
         VersionAfter(existing) \notin DOMAIN bindings
  PROVE  existing = Len(bindings) /\ VersionAfter(existing) = Len(bindings) + 1
BY DEF VersionAfter

\* Inserting the next version leaves it alone active and changes no other
\* binding's runtime.
LEMMA InsertedIsNewest ==
  ASSUME bindings \in Seq(Binding), Len(bindings) <= MaxVersion,
         NEW existing \in 0 .. Len(bindings), Live \subseteq {existing},
         NEW r \in Runtimes, NEW version, version = Len(bindings) + 1,
         Insert(version, existing, r)
  PROVE  /\ bindings' \in Seq(Binding)
         /\ Len(bindings') = Len(bindings) + 1
         /\ Len(bindings') <= MaxVersion
         /\ Live' = {Len(bindings')}
         /\ \A v \in DOMAIN bindings : /\ v \in DOMAIN bindings'
                                       /\ bindings'[v].runtime = bindings[v].runtime
         /\ bindings'[Len(bindings) + 1].runtime = r
<1> DEFINE old == [v \in DOMAIN bindings |->
              IF v = existing THEN [bindings[v] EXCEPT !.live = FALSE] ELSE bindings[v]]
           new == [runtime |-> r, live |-> TRUE]
<1>1. bindings' = Append(old, new) /\ version <= MaxVersion
  BY DEF Insert, Inserted
<1>2. DOMAIN bindings = 1 .. Len(bindings) /\ Len(bindings) \in Nat
  OBVIOUS
<1>3. \A v \in DOMAIN bindings : bindings[v] \in Binding
  OBVIOUS
<1>4. \A v \in DOMAIN bindings : /\ old[v] \in Binding
                                 /\ old[v].runtime = bindings[v].runtime
                                 /\ old[v].live => bindings[v].live /\ v # existing
  BY <1>3 DEF Binding
<1>5. old \in Seq(Binding) /\ Len(old) = Len(bindings) /\ DOMAIN old = DOMAIN bindings
  <2>1. DOMAIN old = 1 .. Len(bindings)
    BY <1>2
  <2>2. old \in [1 .. Len(bindings) -> Binding]
    BY <1>2, <1>4
  <2>3. old \in Seq(Binding)
    BY <1>2, <2>2
  <2> QED
    BY <1>2, <2>1, <2>3
<1> HIDE DEF old
<1>6. new \in Binding /\ new.live /\ new.runtime = r
  BY DEF Binding
<1> HIDE DEF new
<1>7. /\ bindings' \in Seq(Binding)
      /\ Len(bindings') = Len(bindings) + 1
      /\ \A v \in DOMAIN bindings : bindings'[v] = old[v]
      /\ bindings'[Len(bindings) + 1] = new
  <2>1. Append(old, new) \in Seq(Binding)
    BY <1>5, <1>6
  <2>2. Len(Append(old, new)) = Len(old) + 1 /\ Append(old, new)[Len(old) + 1] = new
    BY <1>5, <1>6
  <2>3. \A v \in 1 .. Len(old) : Append(old, new)[v] = old[v]
    BY <1>5, <1>6
  <2> QED
    BY <1>1, <1>2, <1>5, <2>1, <2>2, <2>3
<1>8. DOMAIN bindings' = 1 .. Len(bindings) + 1
  BY <1>2, <1>7
<1>9. Live' = {Len(bindings')}
  <2>1. \A v \in DOMAIN bindings : ~old[v].live
    <3> SUFFICES ASSUME NEW v \in DOMAIN bindings, old[v].live PROVE FALSE
      OBVIOUS
    <3>1. v \in Live /\ v # existing
      BY <1>4 DEF Live, LiveIn
    <3> QED
      BY <3>1
  <2>2. \A v \in DOMAIN bindings' : bindings'[v].live <=> v = Len(bindings) + 1
    BY <1>2, <1>6, <1>7, <1>8, <2>1
  <2>3. Live' = {v \in DOMAIN bindings' : bindings'[v].live}
    BY DEF Live, LiveIn
  <2> QED
    BY <1>2, <1>7, <1>8, <2>2, <2>3
<1> QED
  BY <1>1, <1>2, <1>4, <1>6, <1>7, <1>8, <1>9

\* Revoking changes nothing but whether that binding is active.
LEMMA RevokedIsOff ==
  ASSUME bindings \in Seq(Binding), NEW v \in DOMAIN bindings, bindings' = Revoked(v)
  PROVE  /\ bindings' \in Seq(Binding)
         /\ Len(bindings') = Len(bindings)
         /\ DOMAIN bindings' = DOMAIN bindings
         /\ Live' = Live \ {v}
         /\ \A u \in DOMAIN bindings : bindings'[u].runtime = bindings[u].runtime
<1>1. DOMAIN bindings = 1 .. Len(bindings) /\ Len(bindings) \in Nat
  OBVIOUS
<1>2. \A u \in DOMAIN bindings : bindings[u] \in Binding
  OBVIOUS
<1>3. DOMAIN bindings' = DOMAIN bindings
  BY DEF Revoked
<1>4. \A u \in DOMAIN bindings : /\ bindings'[u] \in Binding
                                 /\ bindings'[u].runtime = bindings[u].runtime
                                 /\ bindings'[u].live <=> bindings[u].live /\ u # v
  BY <1>2 DEF Revoked, Binding
<1>5. bindings' \in [1 .. Len(bindings) -> Binding]
  BY <1>1, <1>2, <1>4 DEF Revoked, Binding
<1>6. bindings' \in Seq(Binding) /\ Len(bindings') = Len(bindings)
  BY <1>1, <1>3, <1>5
<1>7. Live' = Live \ {v}
  BY <1>3, <1>4 DEF Live, LiveIn
<1> QED
  BY <1>3, <1>4, <1>6, <1>7
-----------------------------------------------------------------------------
\* What a step may do to the bindings: they only grow, and a binding keeps
\* its runtime.
Grow == /\ bindings' \in Seq(Binding)
        /\ Len(bindings) <= Len(bindings') /\ Len(bindings') <= MaxVersion
        /\ Live' \subseteq {Len(bindings')}
        /\ \A v \in DOMAIN bindings : /\ v \in DOMAIN bindings'
                                      /\ bindings'[v].runtime = bindings[v].runtime

\* The one binding an insertion replaces is the only one that can be active.
LEMMA InsertGrows ==
  ASSUME TypeOK, OnlyNewest, NEW version, NEW existing \in 0 .. Len(bindings),
         NEW r \in Runtimes, Insert(version, existing, r),
         \/ version = VersionAfter(existing)
         \/ version = Len(bindings) + 1 /\ existing = Current
  PROVE  /\ Grow
         /\ version = Len(bindings) + 1
         /\ Len(bindings') = version
         /\ Live' = {version}
         /\ bindings'[version].runtime = r
<1>1. bindings \in Seq(Binding) /\ Len(bindings) <= MaxVersion /\ Len(bindings) \in Nat
  BY DEF TypeOK
<1>2. version = Len(bindings) + 1 /\ Live \subseteq {existing}
  <2>1. CASE version = VersionAfter(existing)
    <3>1. VersionAfter(existing) \notin DOMAIN bindings
      BY <2>1 DEF Insert
    <3> QED
      BY <1>1, <2>1, <3>1, FreeVersionIsNext DEF OnlyNewest
  <2>2. CASE version = Len(bindings) + 1 /\ existing = Current
    BY <1>1, <2>2, NewestIsCurrent DEF OnlyNewest, Live, Current
  <2> QED
    BY <2>1, <2>2
<1>3. /\ bindings' \in Seq(Binding)
      /\ Len(bindings') = Len(bindings) + 1
      /\ Len(bindings') <= MaxVersion
      /\ Live' = {Len(bindings')}
      /\ \A v \in DOMAIN bindings : /\ v \in DOMAIN bindings'
                                    /\ bindings'[v].runtime = bindings[v].runtime
      /\ bindings'[Len(bindings) + 1].runtime = r
  BY <1>1, <1>2, InsertedIsNewest
<1> QED
  BY <1>1, <1>2, <1>3 DEF Grow

\* A revoked binding leaves the others as they are.
LEMMA RevokeGrows ==
  ASSUME TypeOK, OnlyNewest, NEW v \in DOMAIN bindings, Revoke(v)
  PROVE  Grow /\ Len(bindings') = Len(bindings) /\ Live' = Live \ {v}
<1>1. bindings \in Seq(Binding) /\ Len(bindings) <= MaxVersion /\ Len(bindings) \in Nat
  BY DEF TypeOK
<1>2. bindings' = Revoked(v)
  BY DEF Revoke
<1>3. /\ bindings' \in Seq(Binding)
      /\ Len(bindings') = Len(bindings)
      /\ DOMAIN bindings' = DOMAIN bindings
      /\ Live' = Live \ {v}
      /\ \A u \in DOMAIN bindings : bindings'[u].runtime = bindings[u].runtime
  BY <1>1, <1>2, RevokedIsOff
<1> QED
  BY <1>1, <1>3 DEF Grow, OnlyNewest

\* A step that leaves the bindings alone.
LEMMA SameGrows ==
  ASSUME TypeOK, OnlyNewest, UNCHANGED bindings
  PROVE  Grow /\ UNCHANGED <<Live, Current>>
BY DEF Grow, TypeOK, OnlyNewest, Live, LiveIn, Current, CurrentOf

\* Whatever is inserted replaces what its writer has read.
LEMMA InsertersRead ==
  ASSUME IInv
  PROVE  /\ \A c \in Calls, v \in Versions :
               SignedBy(c, v) => v \in 0 .. Len(bindings) /\ v \in DOMAIN bindings
         /\ \A c \in Calls : calls[c].at = "admin" => calls[c].existing \in 0 .. Len(bindings)
         /\ Current \in 0 .. Len(bindings)
         /\ Current # 0 => Live = {Current} /\ Current \in DOMAIN bindings
         /\ Current = 0 => Live = {}
<1>1. bindings \in Seq(Binding) /\ Len(bindings) \in Nat
  BY DEF IInv, TypeOK
<1>2. DOMAIN bindings = 1 .. Len(bindings)
  BY <1>1
<1>3. \A c \in Calls, v \in Versions : SignedBy(c, v) => v \in DOMAIN bindings
  BY DEF SignedBy, IInv, CallsKnow
<1>4. /\ Current \in 0 .. Len(bindings)
      /\ Current # 0 => Live = {Current} /\ Current \in DOMAIN bindings
      /\ Current = 0 => Live = {}
  BY <1>1, NewestIsCurrent DEF IInv, OnlyNewest, Live, Current
<1> QED
  BY <1>2, <1>3, <1>4 DEF IInv, CallsKnow
-----------------------------------------------------------------------------
\* The four ways to insert a binding.
LEMMA RotateGrows ==
  ASSUME IInv, NEW c \in Calls, NEW v \in Versions, NEW r \in Runtimes, Rotate(c, v, r)
  PROVE  Grow /\ Len(bindings') = Len(bindings) + 1 /\ Live' = {Len(bindings')}
<1>1. TypeOK /\ OnlyNewest /\ v \in 0 .. Len(bindings)
  BY InsertersRead DEF IInv, Rotate
<1>2. Insert(VersionAfter(v), v, r)
  BY DEF Rotate
<1> QED
  BY <1>1, <1>2, InsertGrows

LEMMA AdminBindGrows ==
  ASSUME IInv, NEW c \in Calls, NEW r \in Runtimes, AdminBind(c, r)
  PROVE  Grow /\ Len(bindings') = Len(bindings) + 1 /\ Live' = {Len(bindings')}
<1>1. TypeOK /\ OnlyNewest /\ calls[c].existing \in 0 .. Len(bindings)
  BY InsertersRead DEF IInv, AdminBind
<1>2. Insert(VersionAfter(calls[c].existing), calls[c].existing, r)
  BY DEF AdminBind
<1> QED
  BY <1>1, <1>2, InsertGrows

LEMMA ConfirmGrows ==
  ASSUME IInv, NEW q \in Requests, Confirm(q)
  PROVE  Grow /\ Len(bindings') = Len(bindings) + 1 /\ Live' = {Len(bindings')}
<1>1. TypeOK /\ OnlyNewest /\ Current \in 0 .. Len(bindings) /\ requests[q].runtime \in Runtimes
  BY InsertersRead DEF IInv, Confirm, RowsAreComplete
<1>2. Insert(Len(bindings) + 1, Current, requests[q].runtime)
  BY DEF Confirm
<1> QED
  BY <1>1, <1>2, InsertGrows

LEMMA EnrollGrows ==
  ASSUME IInv, NEW c \in Calls, NEW e \in Enrollments, Enroll(c, e)
  PROVE  /\ Grow /\ Len(bindings') = Len(bindings) + 1 /\ Live' = {Len(bindings')}
         /\ VersionAfter(Current) = Len(bindings')
         /\ bindings'[Len(bindings')].runtime = enrollments[e].card.runtime
         /\ enrollments[e].card \in Cards
<1>1. enrollments[e].card \in Cards
  BY DEF Enroll, IInv, RowsAreComplete
<1>2. TypeOK /\ OnlyNewest /\ Current \in 0 .. Len(bindings) /\ enrollments[e].card.runtime \in Runtimes
  BY <1>1, InsertersRead DEF IInv, Cards
<1>3. Insert(VersionAfter(Current), Current, enrollments[e].card.runtime)
  BY DEF Enroll
<1> QED
  BY <1>1, <1>2, <1>3, InsertGrows
-----------------------------------------------------------------------------
\* What a step may do to an enrolment.
Moves(e) ==
    LET o == enrollments[e]
        n == enrollments'[e]
    IN \/ n = o
       \/ o.status = "none" /\ n.status = "ready" /\ n.card \in Cards /\ n.binding = o.binding
       \/ /\ o.status \in {"ready", "authorized"} /\ n.status \in {"authorized", "expired"}
          /\ n.card = o.card /\ n.binding = o.binding
       \/ /\ \/ o.status \in Cancellable /\ n.status = "canceled"
             \/ o.status = "bound" /\ n.status = "published"
          /\ n.card = o.card /\ n.binding = o.binding /\ n.expected = o.expected
       \/ /\ o.status = "authorized" /\ n.status = "bound" /\ n.card = o.card
          /\ n.binding = n.expected /\ n.binding = Len(bindings) + 1
          /\ Len(bindings') = Len(bindings) + 1
          /\ bindings'[n.binding].runtime = n.card.runtime
          /\ \A f \in Enrollments \ {e} : enrollments'[f] = enrollments[f]

EnrollmentsMove ==
    /\ enrollments' \in [Enrollments -> Enrollment]
    /\ \A e \in Enrollments : Moves(e)

LEMMA SameMoves ==
  ASSUME TypeOK, UNCHANGED enrollments
  PROVE  EnrollmentsMove
BY DEF TypeOK, EnrollmentsMove, Moves

LEMMA CancelMoves ==
  ASSUME TypeOK, Cancel
  PROVE  EnrollmentsMove
<1>1. ASSUME NEW e \in Enrollments
      PROVE  enrollments'[e] \in Enrollment /\ Moves(e)
  <2>1. enrollments[e] \in Enrollment
    BY DEF TypeOK
  <2>2. enrollments'[e] = IF enrollments[e].status \in Cancellable
                            THEN [enrollments[e] EXCEPT !.status = "canceled"] ELSE enrollments[e]
    BY DEF Cancel
  <2> QED
    BY <2>1, <2>2 DEF Enrollment, Moves, Cancellable
<1>2. enrollments' \in [Enrollments -> Enrollment]
  BY <1>1 DEF Cancel
<1> QED
  BY <1>1, <1>2 DEF EnrollmentsMove

LEMMA CreateDeviceMoves ==
  ASSUME TypeOK, NEW e \in Enrollments, NEW card \in Cards, CreateDevice(e, card)
  PROVE  EnrollmentsMove
<1>1. enrollments[e] \in Enrollment /\ enrollments[e].status = "none"
  BY DEF TypeOK, CreateDevice
<1>2. enrollments' = [enrollments EXCEPT
         ![e] = [enrollments[e] EXCEPT !.status = "ready", !.card = card, !.expected = 1]]
  BY DEF CreateDevice, TypeOK
<1>3. 1 \in 0 .. MaxVersion + 1
  BY BoundAssumption
<1>4. [enrollments[e] EXCEPT !.status = "ready", !.card = card, !.expected = 1] \in Enrollment
  BY <1>1, <1>3 DEF Enrollment
<1> QED
  BY <1>1, <1>2, <1>4 DEF TypeOK, EnrollmentsMove, Moves, Enrollment

LEMMA ExpireMoves ==
  ASSUME TypeOK, NEW e \in Enrollments, Expire(e)
  PROVE  EnrollmentsMove
<1>1. enrollments[e] \in Enrollment /\ enrollments[e].status \in {"ready", "authorized"}
  BY DEF TypeOK, Expire
<1>2. enrollments' = [enrollments EXCEPT ![e] = [enrollments[e] EXCEPT !.status = "expired"]]
  BY DEF Expire, TypeOK
<1>3. [enrollments[e] EXCEPT !.status = "expired"] \in Enrollment
  BY <1>1 DEF Enrollment
<1> QED
  BY <1>1, <1>2, <1>3 DEF TypeOK, EnrollmentsMove, Moves, Enrollment

LEMMA AuthorizeMoves ==
  ASSUME TypeOK, NEW c \in Calls, NEW e \in Enrollments, Authorize(c, e)
  PROVE  EnrollmentsMove
<1>1. enrollments[e] \in Enrollment /\ enrollments[e].status = "ready"
  BY DEF TypeOK, Authorize
<1>2. calls[c].expected \in 0 .. MaxVersion + 1
  <2>1. calls[c] \in Call /\ calls[c].at = "granting"
    BY DEF TypeOK, Authorize
  <2>2. calls[c] \in [at : {"granting"}, enrollment : Enrollments, expected : 1 .. MaxVersion + 1]
    BY <2>1 DEF Call, Idle
  <2> QED
    BY <2>2, BoundAssumption
<1>3. enrollments' = [enrollments EXCEPT ![e] =
         [enrollments[e] EXCEPT !.status = "authorized", !.expected = calls[c].expected]]
  BY DEF Authorize, TypeOK
<1>4. [enrollments[e] EXCEPT !.status = "authorized", !.expected = calls[c].expected] \in Enrollment
  BY <1>1, <1>2 DEF Enrollment
<1> QED
  BY <1>1, <1>3, <1>4 DEF TypeOK, EnrollmentsMove, Moves, Enrollment

LEMMA EnrollMoves ==
  ASSUME IInv, NEW c \in Calls, NEW e \in Enrollments, Enroll(c, e)
  PROVE  EnrollmentsMove
<1>1. enrollments[e] \in Enrollment /\ enrollments[e].status = "authorized" /\ TypeOK
  BY DEF TypeOK, Enroll, IInv
<1>2. /\ enrollments[e].expected = Len(bindings) + 1
      /\ Len(bindings) \in Nat
  BY <1>1 DEF Enroll, Expected, TypeOK
<1>3. /\ Len(bindings') = Len(bindings) + 1 /\ Len(bindings') <= MaxVersion
      /\ VersionAfter(Current) = Len(bindings) + 1
      /\ bindings'[Len(bindings) + 1].runtime = enrollments[e].card.runtime
  BY EnrollGrows DEF Grow
<1>4. enrollments' = [enrollments EXCEPT ![e] =
         [enrollments[e] EXCEPT !.status = "bound", !.binding = Len(bindings) + 1]]
  BY <1>1, <1>3 DEF Enroll, TypeOK
<1>5. [enrollments[e] EXCEPT !.status = "bound", !.binding = Len(bindings) + 1] \in Enrollment
  <2>1. Len(bindings) + 1 \in 0 .. MaxVersion
    BY <1>2, <1>3, BoundAssumption
  <2> QED
    BY <1>1, <2>1 DEF Enrollment
<1> QED
  BY <1>1, <1>2, <1>3, <1>4, <1>5 DEF TypeOK, EnrollmentsMove, Moves, Enrollment

LEMMA ActivateCardMoves ==
  ASSUME TypeOK, NEW c \in Calls, NEW v \in Versions, NEW rev \in 1 .. MaxRevision,
         ActivateCard(c, v, rev)
  PROVE  EnrollmentsMove
<1>1. ASSUME NEW e \in Enrollments
      PROVE  enrollments'[e] \in Enrollment /\ Moves(e)
  <2>1. enrollments[e] \in Enrollment
    BY DEF TypeOK
  <2>2. enrollments'[e] = IF e \in GrantOf(v) /\ enrollments[e].status = "bound"
                            THEN [enrollments[e] EXCEPT !.status = "published"] ELSE enrollments[e]
    BY DEF ActivateCard
  <2> QED
    BY <2>1, <2>2 DEF Enrollment, Moves
<1>2. enrollments' \in [Enrollments -> Enrollment]
  BY <1>1 DEF ActivateCard
<1> QED
  BY <1>1, <1>2 DEF EnrollmentsMove

\* Enrolments that move this way keep what the invariant says of them.
LEMMA MovesKeepGrants ==
  ASSUME IInv, Grow, EnrollmentsMove
  PROVE  GrantsKnow' /\ GrantBindsOnce'
<1>1. /\ bindings \in Seq(Binding) /\ Len(bindings) \in Nat /\ DOMAIN bindings = 1 .. Len(bindings)
      /\ bindings' \in Seq(Binding) /\ Len(bindings') \in Nat /\ DOMAIN bindings' = 1 .. Len(bindings')
  BY DEF IInv, TypeOK, Grow
<1>2. ASSUME NEW e \in Enrollments
      PROVE  /\ enrollments'[e].status \in {"bound", "published"} => enrollments'[e].binding # 0
             /\ enrollments'[e].binding # 0 =>
                  /\ enrollments'[e].status \in BoundStatuses
                  /\ enrollments'[e].binding = enrollments'[e].expected
                  /\ enrollments'[e].binding \in DOMAIN bindings'
                  /\ bindings'[enrollments'[e].binding].runtime = enrollments'[e].card.runtime
  <2>1. Moves(e)
    BY DEF EnrollmentsMove
  <2>2. /\ enrollments[e].status \in {"bound", "published"} => enrollments[e].binding # 0
        /\ enrollments[e].binding # 0 =>
             /\ enrollments[e].status \in BoundStatuses
             /\ enrollments[e].binding = enrollments[e].expected
             /\ enrollments[e].binding \in DOMAIN bindings
             /\ bindings[enrollments[e].binding].runtime = enrollments[e].card.runtime
    BY DEF IInv, GrantsKnow
  <2>3. enrollments[e].binding # 0 =>
             /\ enrollments[e].binding \in DOMAIN bindings'
             /\ bindings'[enrollments[e].binding].runtime = enrollments[e].card.runtime
    BY <2>2 DEF Grow
  <2>4. CASE enrollments'[e] = enrollments[e]
    BY <2>2, <2>3, <2>4
  <2>5. CASE /\ enrollments[e].status \in {"none", "ready", "authorized"}
             /\ enrollments'[e].status \in {"ready", "authorized", "expired"}
             /\ enrollments'[e].binding = enrollments[e].binding
    BY <2>2, <2>5 DEF BoundStatuses
  <2>6. CASE /\ \/ enrollments[e].status \in Cancellable /\ enrollments'[e].status = "canceled"
                \/ enrollments[e].status = "bound" /\ enrollments'[e].status = "published"
             /\ enrollments'[e].card = enrollments[e].card
             /\ enrollments'[e].binding = enrollments[e].binding
             /\ enrollments'[e].expected = enrollments[e].expected
    BY <2>2, <2>3, <2>6 DEF BoundStatuses
  <2>7. CASE /\ enrollments'[e].status = "bound"
             /\ enrollments'[e].binding = enrollments'[e].expected
             /\ enrollments'[e].binding = Len(bindings) + 1
             /\ Len(bindings') = Len(bindings) + 1
             /\ bindings'[enrollments'[e].binding].runtime = enrollments'[e].card.runtime
    BY <1>1, <2>7 DEF BoundStatuses
  <2> QED
    BY <2>1, <2>4, <2>5, <2>6, <2>7 DEF Moves
<1>3. GrantsKnow'
  BY <1>2 DEF GrantsKnow
<1>4. ASSUME NEW e \in Enrollments, NEW f \in Enrollments \ {e}, enrollments'[e].binding # 0
      PROVE  enrollments'[f].binding # enrollments'[e].binding
  <2>1. Moves(e) /\ Moves(f)
    BY DEF EnrollmentsMove
  <2>2. enrollments[e].binding # 0 => enrollments[f].binding # enrollments[e].binding
    BY DEF IInv, GrantBindsOnce
  <2>3. /\ enrollments[e].binding # 0 => enrollments[e].binding \in 1 .. Len(bindings)
        /\ enrollments[f].binding # 0 => enrollments[f].binding \in 1 .. Len(bindings)
    BY <1>1 DEF IInv, GrantsKnow
  <2>4. \/ enrollments'[e].binding = enrollments[e].binding
        \/ enrollments'[e].binding = Len(bindings) + 1 /\ enrollments'[f] = enrollments[f]
    BY <2>1 DEF Moves
  <2>5. \/ enrollments'[f].binding = enrollments[f].binding
        \/ enrollments'[f].binding = Len(bindings) + 1 /\ enrollments'[e] = enrollments[e]
    BY <2>1 DEF Moves
  <2> QED
    BY <1>1, <1>4, <2>2, <2>3, <2>4, <2>5
<1>5. GrantBindsOnce'
  BY <1>2, <1>4 DEF GrantBindsOnce
<1> QED
  BY <1>3, <1>5
-----------------------------------------------------------------------------
\* What a step may do to a call: keep it, end it, or have it read.
HasRead(x) ==
    \/ x.at = "signed" /\ x.binding \in DOMAIN bindings
    \/ x.at = "admin" /\ x.existing \in 0 .. Len(bindings)
    \/ x.at = "first"
    \/ x.at \in {"checked", "granting", "enrolling"} /\ enrollments[x.enrollment].status # "none"

CallsMove ==
    /\ calls' \in [Calls -> Call]
    /\ \A c \in Calls : calls'[c] = calls[c] \/ calls'[c] = Idle \/ HasRead(calls'[c])

LEMMA SameCalls ==
  ASSUME TypeOK, UNCHANGED calls
  PROVE  CallsMove
BY DEF TypeOK, CallsMove

LEMMA FinishMoves ==
  ASSUME TypeOK, NEW c \in Calls, Finish(c)
  PROVE  CallsMove
BY DEF TypeOK, CallsMove, Finish, Call

LEMMA ReadMoves ==
  ASSUME TypeOK, NEW c \in Calls, NEW x \in Call, HasRead(x),
         calls' = [calls EXCEPT ![c] = x]
  PROVE  CallsMove
BY DEF TypeOK, CallsMove

\* An enrolment that exists goes on existing, and so does a binding.
LEMMA MovesKeepCalls ==
  ASSUME IInv, Grow, EnrollmentsMove, CallsMove
  PROVE  CallsKnow'
<1>1. /\ Len(bindings) \in Nat /\ Len(bindings') \in Nat /\ Len(bindings) <= Len(bindings')
      /\ \A v \in DOMAIN bindings : v \in DOMAIN bindings'
  BY DEF IInv, TypeOK, Grow
<1>2. \A e \in Enrollments :
         enrollments[e].status # "none" => enrollments'[e].status # "none"
  BY DEF EnrollmentsMove, Moves, Cancellable
<1>3. ASSUME NEW c \in Calls
      PROVE  /\ calls'[c].at = "signed" => calls'[c].binding \in DOMAIN bindings'
             /\ calls'[c].at = "admin" => calls'[c].existing \in 0 .. Len(bindings')
             /\ calls'[c].at \in {"checked", "granting", "enrolling"} =>
                  enrollments'[calls'[c].enrollment].status # "none"
  <2>1. calls'[c] = calls[c] \/ calls'[c] = Idle \/ HasRead(calls'[c])
    BY DEF CallsMove
  <2>2. calls'[c] \in Call
    BY DEF CallsMove
  <2>3. calls'[c].at \in {"checked", "granting", "enrolling"} =>
           calls'[c].enrollment \in Enrollments
    BY <2>2 DEF Call, Idle
  <2>4. CASE calls'[c] = calls[c]
    BY <1>1, <1>2, <2>3, <2>4 DEF IInv, CallsKnow
  <2>5. CASE calls'[c] = Idle
    BY <2>5 DEF Idle
  <2>6. CASE HasRead(calls'[c])
    BY <1>1, <1>2, <2>3, <2>6 DEF HasRead
  <2> QED
    BY <2>1, <2>4, <2>5, <2>6
<1> QED
  BY <1>3 DEF CallsKnow

\* What a step may do to the other tables: endpoints change only with what
\* they mirror.
OthersMove ==
    /\ requests' \in [Requests -> Request]
    /\ \A q \in Requests : requests'[q].status = "pending" => requests'[q].runtime \in Runtimes
    /\ admin' \in BOOLEAN
    /\ cards' \in Seq(Cards) /\ Len(cards') <= MaxRevision
    /\ publication' \in [revision : 0 .. Len(cards'),
                         state : {"none", "ACTIVE", "PAUSED", "WITHDRAWN"}]
    /\ publication'.state = "none" <=> publication'.revision = 0
    /\ \/ endpoints' = Synced(bindings', publication')
       \/ UNCHANGED <<bindings, publication, endpoints>>
    /\ stopped' \in BOOLEAN /\ overtaken' \in BOOLEAN

Move == Grow /\ EnrollmentsMove /\ CallsMove /\ OthersMove

\* Endpoints that were synchronised mirror the tables.
LEMMA SyncedMirrors ==
  ASSUME IInv, Grow, OthersMove
  PROVE  EndpointsMirror' /\ endpoints' \in [a2a : Runtimes \cup {None}, card : BOOLEAN]
<1>1. /\ Current' # 0 => Current' \in DOMAIN bindings'
      /\ Current' = CurrentOf(bindings')
  <2>1. LiveIn(bindings') \subseteq {Len(bindings')} /\ bindings' \in Seq(Binding)
    BY DEF Grow, Live
  <2> QED
    BY <2>1, NewestIsCurrent DEF Current
<1>2. \A v \in DOMAIN bindings' : bindings'[v].runtime \in Runtimes
  <2>1. \A v \in DOMAIN bindings' : bindings'[v] \in Binding
    BY DEF Grow
  <2> QED
    BY <2>1 DEF Binding
<1>3. CASE endpoints' = Synced(bindings', publication')
  <2>1. publication'.state \in {"none", "ACTIVE", "PAUSED", "WITHDRAWN"}
    BY DEF OthersMove
  <2> QED
    BY <1>1, <1>2, <1>3, <2>1 DEF Synced, EndpointsMirror
<1>4. CASE UNCHANGED <<bindings, publication, endpoints>>
  <2>1. EndpointsMirror'
    BY <1>4 DEF IInv, EndpointsMirror, Current, CurrentOf, LiveIn
  <2> QED
    BY <1>4, <2>1 DEF IInv, TypeOK
<1> QED
  BY <1>3, <1>4 DEF OthersMove

\* A step that moves this way keeps the invariant.
LEMMA MovesKeepInvariant ==
  ASSUME IInv, Move
  PROVE  IInv'
<1>1. GrantsKnow' /\ GrantBindsOnce'
  BY MovesKeepGrants DEF Move
<1>2. CallsKnow'
  BY MovesKeepCalls DEF Move
<1>3. EndpointsMirror' /\ endpoints' \in [a2a : Runtimes \cup {None}, card : BOOLEAN]
  BY SyncedMirrors DEF Move
<1>4. TypeOK' /\ OnlyNewest'
  BY <1>3 DEF Move, Grow, EnrollmentsMove, CallsMove, OthersMove, TypeOK, OnlyNewest
<1>5. RowsAreComplete'
  <2>1. \A q \in Pending' : requests'[q].runtime \in Runtimes
    BY DEF Move, OthersMove, Pending
  <2>2. ASSUME NEW e \in Enrollments, enrollments'[e].status # "none"
        PROVE  enrollments'[e].card \in Cards
    <3>1. Moves(e) /\ (enrollments[e].status # "none" => enrollments[e].card \in Cards)
      BY DEF Move, EnrollmentsMove, IInv, RowsAreComplete
    <3> QED
      BY <2>2, <3>1 DEF Moves, Cancellable
  <2> QED
    BY <2>1, <2>2 DEF RowsAreComplete
<1> QED
  BY <1>1, <1>2, <1>3, <1>4, <1>5 DEF IInv
-----------------------------------------------------------------------------
\* Reading and ending: only calls change.
LEMMA CallsOnly ==
  ASSUME IInv, CallsMove, UNCHANGED <<tables, stopped, overtaken>>
  PROVE  Move
<1>1. TypeOK /\ OnlyNewest /\ UNCHANGED <<bindings, enrollments>>
  BY DEF IInv, tables
<1>2. Grow /\ EnrollmentsMove
  BY <1>1, SameGrows, SameMoves
<1>3. OthersMove
  BY DEF IInv, TypeOK, RowsAreComplete, Pending, OthersMove, tables
<1> QED
  BY <1>2, <1>3 DEF Move

LEMMA ReadingMoves ==
  ASSUME IInv, NEW c \in Calls
  PROVE  /\ \A v \in Versions : Sign(c, v) => Move
         /\ AdminReads(c) => Move
         /\ FirstReads(c) => Move
         /\ End(c) => Move
         /\ \A e \in Enrollments : AuthorizeChecks(c, e) => Move
         /\ AuthorizeReads(c) => Move
         /\ \A e \in Enrollments : EnrollReads(c, e) => Move
<1>0. TypeOK /\ Len(bindings) \in Nat /\ Len(bindings) <= MaxVersion
  BY DEF IInv, TypeOK
<1>1. ASSUME NEW v \in Versions, Sign(c, v) PROVE Move
  <2>1. [at |-> "signed", binding |-> v] \in Call /\ HasRead([at |-> "signed", binding |-> v])
    BY <1>1 DEF Sign, Call, HasRead, Live, LiveIn
  <2> QED
    BY <1>0, <1>1, <2>1, ReadMoves, CallsOnly DEF Sign
<1>2. ASSUME AdminReads(c) PROVE Move
  <2>1. Current \in 0 .. Len(bindings) /\ Current \in 0 .. MaxVersion
    BY <1>0, InsertersRead, BoundAssumption
  <2>2. [at |-> "admin", existing |-> Current] \in Call /\ HasRead([at |-> "admin", existing |-> Current])
    BY <2>1 DEF Call, HasRead
  <2> QED
    BY <1>0, <1>2, <2>2, ReadMoves, CallsOnly DEF AdminReads
<1>3. ASSUME FirstReads(c) PROVE Move
  <2>1. [at |-> "first"] \in Call /\ HasRead([at |-> "first"])
    BY DEF Call, HasRead
  <2> QED
    BY <1>0, <1>3, <2>1, ReadMoves, CallsOnly DEF FirstReads
<1>4. ASSUME End(c) PROVE Move
  BY <1>0, <1>4, FinishMoves, CallsOnly DEF End
<1>5. ASSUME NEW e \in Enrollments, AuthorizeChecks(c, e) PROVE Move
  <2> DEFINE x == [at |-> "checked", enrollment |-> e]
  <2>1. x \in Call /\ HasRead(x)
    BY <1>5 DEF AuthorizeChecks, Call, HasRead
  <2> QED
    BY <1>0, <1>5, <2>1, ReadMoves, CallsOnly DEF AuthorizeChecks
<1>6. ASSUME AuthorizeReads(c) PROVE Move
  <2> DEFINE x == [at |-> "granting", enrollment |-> calls[c].enrollment,
                   expected |-> Len(bindings) + 1]
  <2>1. calls[c].at = "checked" /\ calls[c] \in Call
    BY <1>0, <1>6 DEF AuthorizeReads, TypeOK
  <2>2. calls[c].enrollment \in Enrollments
    BY <2>1 DEF Call, Idle
  <2>3. enrollments[calls[c].enrollment].status # "none"
    BY <2>1 DEF IInv, CallsKnow
  <2>4. Len(bindings) + 1 \in 1 .. MaxVersion + 1
    BY <1>0, BoundAssumption
  <2>5. x \in Call /\ HasRead(x)
    BY <2>2, <2>3, <2>4 DEF Call, HasRead
  <2> QED
    BY <1>0, <1>6, <2>5, ReadMoves, CallsOnly DEF AuthorizeReads
<1>7. ASSUME NEW e \in Enrollments, EnrollReads(c, e) PROVE Move
  <2> DEFINE x == [at |-> "enrolling", enrollment |-> e]
  <2>1. x \in Call /\ HasRead(x)
    BY <1>7 DEF EnrollReads, Call, HasRead
  <2> QED
    BY <1>0, <1>7, <2>1, ReadMoves, CallsOnly DEF EnrollReads
<1> QED
  BY <1>1, <1>2, <1>3, <1>4, <1>5, <1>6, <1>7

\* Insertions: their endpoints are synchronised by Insert.
LEMMA InsertOthers ==
  ASSUME IInv, NEW version, NEW existing, NEW r, Insert(version, existing, r),
         requests' \in [Requests -> Request],
         \A q \in Requests : requests'[q].status = "pending" => requests'[q].runtime \in Runtimes,
         overtaken' \in BOOLEAN
  PROVE  OthersMove
BY DEF IInv, TypeOK, Insert, Sync, OthersMove

LEMMA InsertingMoves ==
  ASSUME IInv
  PROVE  /\ \A c \in Calls, v \in Versions, r \in Runtimes : Rotate(c, v, r) => Move
         /\ \A c \in Calls, r \in Runtimes : AdminBind(c, r) => Move
         /\ \A q \in Requests : Confirm(q) => Move
         /\ \A c \in Calls, e \in Enrollments : Enroll(c, e) => Move
<1>0. /\ TypeOK /\ OnlyNewest /\ requests \in [Requests -> Request] /\ overtaken \in BOOLEAN
      /\ \A q \in Requests : requests[q].status = "pending" => requests[q].runtime \in Runtimes
  BY DEF IInv, TypeOK, RowsAreComplete, Pending
<1>1. ASSUME NEW c \in Calls, NEW v \in Versions, NEW r \in Runtimes, Rotate(c, v, r)
      PROVE  Move
  <2>1. Grow
    BY <1>1, RotateGrows
  <2>2. EnrollmentsMove /\ CallsMove
    BY <1>0, <1>1, SameMoves, FinishMoves DEF Rotate
  <2>3. OthersMove
    BY <1>0, <1>1, InsertOthers DEF Rotate, Overtake
  <2> QED
    BY <2>1, <2>2, <2>3 DEF Move
<1>2. ASSUME NEW c \in Calls, NEW r \in Runtimes, AdminBind(c, r)
      PROVE  Move
  <2>1. Grow
    BY <1>2, AdminBindGrows
  <2>2. EnrollmentsMove /\ CallsMove
    BY <1>0, <1>2, SameMoves, FinishMoves DEF AdminBind
  <2>3. OthersMove
    BY <1>0, <1>2, InsertOthers DEF AdminBind
  <2> QED
    BY <2>1, <2>2, <2>3 DEF Move
<1>3. ASSUME NEW q \in Requests, Confirm(q)
      PROVE  Move
  <2>1. Grow
    BY <1>3, ConfirmGrows
  <2>2. EnrollmentsMove /\ CallsMove
    BY <1>0, <1>3, SameMoves, SameCalls DEF Confirm
  <2>3. ASSUME NEW p \in Requests
        PROVE  /\ requests'[p] \in Request
               /\ requests'[p].status = "pending" => requests'[p].runtime \in Runtimes
    <3>1. requests[p] \in Request /\ (p = q \/ p \in Pending \/ requests[p].status # "pending")
      BY <1>0 DEF Pending
    <3> QED
      BY <1>3, <3>1 DEF Confirm, Request
  <2>4. requests' \in [Requests -> Request]
    BY <1>3, <2>3 DEF Confirm
  <2>5. OthersMove
    BY <1>0, <1>3, <2>3, <2>4, InsertOthers DEF Confirm
  <2> QED
    BY <2>1, <2>2, <2>5 DEF Move
<1>4. ASSUME NEW c \in Calls, NEW e \in Enrollments, Enroll(c, e)
      PROVE  Move
  <2>1. Grow
    BY <1>4, EnrollGrows
  <2>2. EnrollmentsMove /\ CallsMove
    BY <1>0, <1>4, EnrollMoves, FinishMoves DEF Enroll
  <2>3. OthersMove
    BY <1>0, <1>4, InsertOthers DEF Enroll
  <2> QED
    BY <2>1, <2>2, <2>3 DEF Move
<1> QED
  BY <1>1, <1>2, <1>3, <1>4

\* Revocations.
LEMMA RevokingMoves ==
  ASSUME IInv
  PROVE  /\ \A c \in Calls, v \in Versions : RevokeSigned(c, v) => Move
         /\ \A v \in Versions : AdminRevoke(v) => Move
<1>0. TypeOK /\ OnlyNewest /\ overtaken \in BOOLEAN
  BY DEF IInv, TypeOK
<1>1. ASSUME NEW v \in DOMAIN bindings, Revoke(v), CallsMove, overtaken' \in BOOLEAN
      PROVE  Move
  <2>1. Grow
    BY <1>0, <1>1, RevokeGrows
  <2>2. EnrollmentsMove
    BY <1>0, <1>1, SameMoves DEF Revoke
  <2>3. OthersMove
    BY <1>1 DEF Revoke, IInv, TypeOK, RowsAreComplete, Pending, Sync, OthersMove
  <2> QED
    BY <1>1, <2>1, <2>2, <2>3 DEF Move
<1>2. ASSUME NEW c \in Calls, NEW v \in Versions, RevokeSigned(c, v)
      PROVE  Move
  <2>1. v \in DOMAIN bindings
    BY <1>2, InsertersRead DEF RevokeSigned
  <2> QED
    BY <1>0, <1>1, <1>2, <2>1, FinishMoves DEF RevokeSigned, Overtake
<1>3. ASSUME NEW v \in Versions, AdminRevoke(v)
      PROVE  Move
  <2>1. v \in DOMAIN bindings
    BY <1>3 DEF AdminRevoke, Live, LiveIn
  <2> QED
    BY <1>0, <1>1, <1>3, <2>1, SameCalls DEF AdminRevoke
<1> QED
  BY <1>2, <1>3
-----------------------------------------------------------------------------
\* Requests and their decisions.
LEMMA RequestingMoves ==
  ASSUME IInv
  PROVE  /\ \A c \in Calls, q \in Requests, r \in Runtimes : RequestBinding(c, q, r) => Move
         /\ \A q \in Requests : Reject(q) => Move
         /\ \A q \in Requests : Lapse(q) => Move
<1>0. /\ TypeOK /\ OnlyNewest
      /\ \A q \in Requests : requests[q].status = "pending" => requests[q].runtime \in Runtimes
  BY DEF IInv, RowsAreComplete, Pending
<1>1. ASSUME NEW c \in Calls, NEW q \in Requests, NEW r \in Runtimes, RequestBinding(c, q, r)
      PROVE  Move
  <2>1. Grow /\ EnrollmentsMove /\ CallsMove
    BY <1>0, <1>1, SameGrows, SameMoves, FinishMoves DEF RequestBinding
  <2>2. [status |-> "pending", runtime |-> r] \in Request
    BY DEF Request
  <2>3. OthersMove
    BY <1>0, <1>1, <2>2 DEF RequestBinding, OthersMove, TypeOK
  <2> QED
    BY <2>1, <2>3 DEF Move
<1>2. ASSUME NEW q \in Requests, NEW status \in {"rejected", "expired"}, Decide(q, status)
      PROVE  Move
  <2>1. Grow /\ EnrollmentsMove /\ CallsMove
    BY <1>0, <1>2, SameGrows, SameMoves, SameCalls DEF Decide
  <2>2. /\ requests[q] \in Request
        /\ requests' = [requests EXCEPT ![q] = [requests[q] EXCEPT !.status = status]]
    BY <1>0, <1>2 DEF Decide, TypeOK
  <2>3. [requests[q] EXCEPT !.status = status] \in Request
    BY <2>2 DEF Request
  <2>4. OthersMove
    BY <1>0, <1>2, <2>2, <2>3 DEF Decide, OthersMove, TypeOK, Request
  <2> QED
    BY <2>1, <2>4 DEF Move
<1> QED
  BY <1>1, <1>2 DEF Reject, Lapse

\* The steps of an enrolment before it binds.
LEMMA EnrollingMoves ==
  ASSUME IInv
  PROVE  /\ \A e \in Enrollments, card \in Cards : CreateDevice(e, card) => Move
         /\ \A e \in Enrollments : Expire(e) => Move
         /\ \A c \in Calls, e \in Enrollments : Authorize(c, e) => Move
<1>0. TypeOK /\ OnlyNewest
  BY DEF IInv
<1>1. ASSUME EnrollmentOnly, EnrollmentsMove, CallsMove
      PROVE  Move
  <2>1. Grow
    BY <1>0, <1>1, SameGrows DEF EnrollmentOnly
  <2>2. OthersMove
    BY <1>1 DEF EnrollmentOnly, OthersMove, IInv, TypeOK, RowsAreComplete, Pending
  <2> QED
    BY <1>1, <2>1, <2>2 DEF Move
<1>2. ASSUME NEW e \in Enrollments, NEW card \in Cards, CreateDevice(e, card)
      PROVE  Move
  BY <1>0, <1>1, <1>2, CreateDeviceMoves, SameCalls DEF CreateDevice
<1>3. ASSUME NEW e \in Enrollments, Expire(e)
      PROVE  Move
  BY <1>0, <1>1, <1>3, ExpireMoves, SameCalls DEF Expire
<1>4. ASSUME NEW c \in Calls, NEW e \in Enrollments, Authorize(c, e)
      PROVE  Move
  BY <1>0, <1>1, <1>4, AuthorizeMoves, FinishMoves DEF Authorize
<1> QED
  BY <1>2, <1>3, <1>4

\* Cards and their publication.
LEMMA PublishingMoves ==
  ASSUME IInv
  PROVE  /\ \A c \in Calls, v \in Versions, card \in Cards : CreateCard(c, v, card) => Move
         /\ \A c \in Calls, v \in Versions, rev \in 1 .. MaxRevision :
               ActivateCard(c, v, rev) => Move
         /\ \A c \in Calls, v \in Versions, state \in Stops : RuntimeStops(c, v, state) => Move
         /\ \A state \in Stops : MerchantStops(state) => Move
         /\ MerchantResumes => Move
<1>0. /\ TypeOK /\ OnlyNewest
      /\ \A q \in Requests : requests[q].status = "pending" => requests[q].runtime \in Runtimes
  BY DEF IInv, RowsAreComplete, Pending
<1>1. ASSUME NEW c \in Calls, NEW v \in Versions, NEW card \in Cards, CreateCard(c, v, card)
      PROVE  Move
  <2>1. Grow /\ EnrollmentsMove /\ CallsMove
    BY <1>0, <1>1, SameGrows, SameMoves, FinishMoves DEF CreateCard
  <2>2. /\ cards' \in Seq(Cards) /\ Len(cards') = Len(cards) + 1 /\ Len(cards') <= MaxRevision
        /\ Len(cards) \in Nat
    BY <1>0, <1>1, BoundAssumption DEF CreateCard, TypeOK
  <2>3. publication \in [revision : 0 .. Len(cards'),
                         state : {"none", "ACTIVE", "PAUSED", "WITHDRAWN"}]
    BY <1>0, <2>2 DEF TypeOK
  <2>4. OthersMove
    BY <1>0, <1>1, <2>2, <2>3 DEF CreateCard, OthersMove, TypeOK, Overtake
  <2> QED
    BY <2>1, <2>4 DEF Move
<1>2. ASSUME NEW c \in Calls, NEW v \in Versions, NEW rev \in 1 .. MaxRevision,
             ActivateCard(c, v, rev)
      PROVE  Move
  <2>1. Grow /\ EnrollmentsMove /\ CallsMove
    BY <1>0, <1>2, SameGrows, ActivateCardMoves, FinishMoves DEF ActivateCard
  <2>2. rev \in 1 .. Len(cards)
    BY <1>0, <1>2 DEF ActivateCard, TypeOK
  <2>3. OthersMove
    BY <1>0, <1>2, <2>2 DEF ActivateCard, Activated, OthersMove, TypeOK, Overtake, Sync
  <2> QED
    BY <2>1, <2>3 DEF Move
<1>3. ASSUME NEW state \in {"ACTIVE", "PAUSED", "WITHDRAWN"}, Publication(state),
             EnrollmentsMove, CallsMove, stopped' \in BOOLEAN, overtaken' \in BOOLEAN
      PROVE  Move
  <2>1. Grow
    BY <1>0, <1>3, SameGrows DEF Publication
  <2>2. OthersMove
    BY <1>0, <1>3 DEF Publication, OthersMove, TypeOK, Sync
  <2> QED
    BY <1>3, <2>1, <2>2 DEF Move
<1>4. stopped \in BOOLEAN /\ overtaken \in BOOLEAN
  BY <1>0 DEF TypeOK
<1>5. ASSUME NEW c \in Calls, NEW v \in Versions, NEW state \in Stops, RuntimeStops(c, v, state)
      PROVE  Move
  BY <1>0, <1>3, <1>4, <1>5, SameMoves, FinishMoves DEF RuntimeStops, Overtake, Stops
<1>6. ASSUME NEW state \in Stops, MerchantStops(state)
      PROVE  Move
  BY <1>0, <1>3, <1>4, <1>6, CancelMoves, SameCalls DEF MerchantStops, Stops
<1>7. ASSUME MerchantResumes
      PROVE  Move
  BY <1>0, <1>3, <1>4, <1>7, SameMoves, SameCalls DEF MerchantResumes
<1> QED
  BY <1>1, <1>2, <1>5, <1>6, <1>7

\* The operator's moderation.
LEMMA ModeratingMoves ==
  ASSUME IInv
  PROVE  (Suspend => Move) /\ (Reinstate => Move)
<1>0. /\ TypeOK /\ OnlyNewest
      /\ \A q \in Requests : requests[q].status = "pending" => requests[q].runtime \in Runtimes
  BY DEF IInv, RowsAreComplete, Pending
<1>1. ASSUME Suspend PROVE Move
  <2>1. Grow /\ EnrollmentsMove /\ CallsMove
    BY <1>0, <1>1, SameGrows, CancelMoves, SameCalls DEF Suspend
  <2>2. OthersMove
    BY <1>0, <1>1 DEF Suspend, OthersMove, TypeOK
  <2> QED
    BY <2>1, <2>2 DEF Move
<1>2. ASSUME Reinstate PROVE Move
  <2>1. Grow /\ EnrollmentsMove /\ CallsMove
    BY <1>0, <1>2, SameGrows, SameMoves, SameCalls DEF Reinstate
  <2>2. OthersMove
    BY <1>0, <1>2 DEF Reinstate, OthersMove, TypeOK
  <2> QED
    BY <2>1, <2>2 DEF Move
<1> QED
  BY <1>1, <1>2

LEMMA StutterMoves ==
  ASSUME IInv, UNCHANGED vars
  PROVE  Move
<1>1. CallsMove /\ UNCHANGED <<tables, stopped, overtaken>>
  BY SameCalls DEF IInv, vars
<1> QED
  BY <1>1, CallsOnly

LEMMA NextMoves ==
  ASSUME IInv, [Next]_vars
  PROVE  Move
<1>1. ASSUME NEW c \in Calls, Serve(c) PROVE Move
  BY <1>1, ReadingMoves, InsertingMoves, RevokingMoves, RequestingMoves, EnrollingMoves,
     PublishingMoves DEF Serve, Signed
<1>2. CASE Next
  BY <1>1, <1>2, InsertingMoves, RevokingMoves, RequestingMoves, EnrollingMoves,
     PublishingMoves, ModeratingMoves DEF Next
<1> QED
  BY <1>2, StutterMoves

LEMMA InitEstablishesInvariant == Init => IInv
<1> SUFFICES ASSUME Init PROVE IInv
  OBVIOUS
<1>1. bindings = <<>> /\ bindings \in Seq(Binding) /\ Len(bindings) = 0 /\ DOMAIN bindings = {}
  BY DEF Init
<1>2. Live = {} /\ Current = 0
  BY <1>1 DEF Live, LiveIn, Current, CurrentOf
<1>3. cards \in Seq(Cards) /\ Len(cards) = 0
  BY DEF Init
<1>4. \A e \in Enrollments : enrollments[e] \in Enrollment
  BY BoundAssumption DEF Init, Enrollment
<1>5. TypeOK
  <2>1. bindings \in Seq(Binding) /\ Len(bindings) <= MaxVersion
    BY <1>1, BoundAssumption
  <2>2. requests \in [Requests -> Request] /\ calls \in [Calls -> Call]
    BY DEF Init, Request, Call
  <2>3. enrollments \in [Enrollments -> Enrollment]
    BY <1>4 DEF Init
  <2>4. cards \in Seq(Cards) /\ Len(cards) <= MaxRevision
    BY <1>3, BoundAssumption
  <2>5. /\ publication \in [revision : 0 .. Len(cards),
                            state : {"none", "ACTIVE", "PAUSED", "WITHDRAWN"}]
        /\ publication.state = "none" <=> publication.revision = 0
    BY <1>3 DEF Init
  <2> QED
    BY <2>1, <2>2, <2>3, <2>4, <2>5 DEF Init, TypeOK
<1>6. OnlyNewest /\ CallsKnow
  BY <1>2 DEF OnlyNewest, CallsKnow, Init, Idle
<1>7. RowsAreComplete /\ GrantsKnow /\ GrantBindsOnce
  BY DEF Init, RowsAreComplete, Pending, GrantsKnow, GrantBindsOnce
<1>8. EndpointsMirror
  BY <1>2 DEF Init, EndpointsMirror
<1> QED
  BY <1>5, <1>6, <1>7, <1>8 DEF IInv

LEMMA Invariance == Spec => []IInv
<1>1. IInv /\ [Next]_vars => IInv'
  BY NextMoves, MovesKeepInvariant
<1> QED
  BY <1>1, InitEstablishesInvariant, PTL DEF Spec

\* Every row and every call stays of its kind.
THEOREM TypeCorrect == Spec => []TypeOK
<1>1. IInv => TypeOK
  BY DEF IInv
<1> QED
  BY <1>1, Invariance, PTL

\* The endpoints handed out follow the binding and the publication
\* (sync_cloud_endpoints).
THEOREM EndpointsFollow == Spec => []EndpointsMirror
<1>1. IInv => EndpointsMirror
  BY DEF IInv
<1> QED
  BY <1>1, Invariance, PTL

\* A grant binds once, and what the merchant authorised
\* (_create_enrollment_binding).
THEOREM GrantsBindOnce == Spec => []GrantBindsOnce
<1>1. IInv => GrantBindsOnce
  BY DEF IInv
<1> QED
  BY <1>1, Invariance, PTL
-----------------------------------------------------------------------------
\* What the bindings of an agent promise: each insertion supersedes whatever
\* was active, each revocation disconnects, and nothing else touches them.
LEMMA StepImplements ==
  ASSUME IInv, [Next]_vars
  PROVE  [Contract!Next]_<<Len(bindings), Live>>
<1>0. TypeOK /\ OnlyNewest /\ Len(bindings) \in Nat
  BY DEF IInv, TypeOK
<1>1. ASSUME Len(bindings') = Len(bindings) + 1, Live' = {Len(bindings')},
             Len(bindings') <= MaxVersion
      PROVE  Contract!Next
  BY <1>0, <1>1, BoundAssumption DEF Contract!Next, Contract!Supersede
<1>2. ASSUME NEW v \in DOMAIN bindings, Revoke(v)
      PROVE  [Contract!Next]_<<Len(bindings), Live>>
  <2>1. Len(bindings') = Len(bindings) /\ Live' = Live \ {v}
    BY <1>0, <1>2, RevokeGrows
  <2>2. CASE v \in Live
    <3>1. Live = {v} /\ Live' = {}
      BY <1>0, <2>1, <2>2 DEF OnlyNewest
    <3> QED
      BY <2>1, <3>1 DEF Contract!Next, Contract!Disconnect
  <2>3. CASE v \notin Live
    BY <2>1, <2>3
  <2> QED
    BY <2>2, <2>3
<1>3. ASSUME UNCHANGED bindings
      PROVE  UNCHANGED <<Len(bindings), Live>>
  BY <1>3 DEF Live, LiveIn
<1>4. ASSUME NEW c \in Calls, NEW v \in Versions, Signed(c, v)
      PROVE  [Contract!Next]_<<Len(bindings), Live>>
  <2>1. ASSUME NEW r \in Runtimes, Rotate(c, v, r)
        PROVE  Contract!Next
    BY <1>1, <2>1, RotateGrows DEF Grow
  <2>2. ASSUME RevokeSigned(c, v)
        PROVE  [Contract!Next]_<<Len(bindings), Live>>
    BY <1>2, <2>2, InsertersRead DEF RevokeSigned
  <2>3. ASSUME NEW card \in Cards, CreateCard(c, v, card)
        PROVE  UNCHANGED bindings
    BY <2>3 DEF CreateCard
  <2>4. ASSUME NEW rev \in 1 .. MaxRevision, ActivateCard(c, v, rev)
        PROVE  UNCHANGED bindings
    BY <2>4 DEF ActivateCard
  <2>5. ASSUME NEW state \in Stops, RuntimeStops(c, v, state)
        PROVE  UNCHANGED bindings
    BY <2>5 DEF RuntimeStops, Publication
  <2> QED
    BY <1>3, <1>4, <2>1, <2>2, <2>3, <2>4, <2>5 DEF Signed
<1>5. ASSUME NEW c \in Calls, Serve(c)
      PROVE  [Contract!Next]_<<Len(bindings), Live>>
  <2>1. ASSUME NEW r \in Runtimes, AdminBind(c, r)
        PROVE  Contract!Next
    BY <1>1, <2>1, AdminBindGrows DEF Grow
  <2>2. ASSUME NEW e \in Enrollments, Enroll(c, e)
        PROVE  Contract!Next
    BY <1>1, <2>2, EnrollGrows DEF Grow
  <2>3. CASE UNCHANGED bindings
    BY <1>3, <2>3
  <2>4. \/ \E v \in Versions : Signed(c, v)
        \/ \E r \in Runtimes : AdminBind(c, r)
        \/ \E e \in Enrollments : Enroll(c, e)
        \/ UNCHANGED bindings
    BY <1>5 DEF Serve, Sign, AdminReads, FirstReads, End, RequestBinding, AuthorizeChecks,
       Authorize, EnrollReads, AuthorizeReads, EnrollmentOnly, tables
  <2> QED
    BY <1>4, <2>1, <2>2, <2>3, <2>4
<1>6. ASSUME NEW q \in Requests, Confirm(q)
      PROVE  Contract!Next
  BY <1>1, <1>6, ConfirmGrows DEF Grow
<1>7. ASSUME NEW v \in Versions, AdminRevoke(v)
      PROVE  [Contract!Next]_<<Len(bindings), Live>>
  BY <1>2, <1>7 DEF AdminRevoke, Live, LiveIn
<1>8. \/ UNCHANGED bindings
      \/ \E c \in Calls : Serve(c)
      \/ \E q \in Requests : Confirm(q)
      \/ \E v \in Versions : AdminRevoke(v)
  BY DEF Next, Reject, Lapse, Decide, CreateDevice, Expire, EnrollmentOnly, MerchantStops,
     MerchantResumes, Publication, Suspend, Reinstate, vars, tables
<1> QED
  BY <1>3, <1>5, <1>6, <1>7, <1>8

\* At most one binding is active, it is the newest, versions are issued one
\* by one and revocation is final: the bindings implement BindingContract.
THEOREM BindingsImplementContract == Spec => ImplementsContract
<1>1. Init => Contract!Init
  <2> SUFFICES ASSUME Init PROVE Contract!Init
    OBVIOUS
  <2> QED
    BY DEF Init, Contract!Init, Live, LiveIn
<1>2. IInv /\ [Next]_vars => [Contract!Next]_<<Len(bindings), Live>>
  BY StepImplements
<1> QED
  BY <1>1, <1>2, Invariance, PTL DEF Spec, ImplementsContract, Contract!Spec
-----------------------------------------------------------------------------
\* What a published enrolment approved is what is published.
FrozenCard ==
    overtaken \/ \A e \in GrantOf(Current) :
        enrollments[e].status = "published" =>
            publication.revision # 0 /\ cards[publication.revision] = enrollments[e].card

\* A stop cancels the enrolment of the current binding for good.
StopCancels == stopped => \A e \in GrantOf(Current) : enrollments[e].status = "canceled"

CardInv == FrozenCard /\ StopCancels /\ StopHolds

\* Steps that leave the card, its enrolment and its history alone.
LEMMA QuietKeepsCard ==
  ASSUME CardInv, UNCHANGED <<bindings, publication, cards, stopped>>,
         overtaken => overtaken',
         \A e \in Enrollments : enrollments[e].binding # 0 \/ enrollments'[e].binding # 0 =>
            /\ enrollments'[e].binding = enrollments[e].binding
            /\ enrollments'[e].card = enrollments[e].card
            /\ \/ enrollments'[e].status = enrollments[e].status
               \/ enrollments'[e].status = "canceled"
  PROVE  CardInv'
<1>1. Current' = Current
  BY DEF Current, CurrentOf, LiveIn
<1>2. \A e \in GrantOf(Current)' : e \in GrantOf(Current)
  BY <1>1 DEF GrantOf
<1>3. \A e \in GrantOf(Current)' :
         /\ enrollments'[e].card = enrollments[e].card
         /\ \/ enrollments'[e].status = enrollments[e].status
            \/ enrollments'[e].status = "canceled"
  BY <1>2 DEF GrantOf
<1>4. FrozenCard'
  BY <1>2, <1>3 DEF CardInv, FrozenCard
<1>5. StopCancels'
  BY <1>2, <1>3 DEF CardInv, StopCancels
<1>6. StopHolds'
  BY <1>2 DEF CardInv, StopHolds
<1> QED
  BY <1>4, <1>5, <1>6 DEF CardInv

\* A new binding starts without a stop and without a published card.
LEMMA NewBindingKeepsCard ==
  ASSUME IInv, Grow, Len(bindings') = Len(bindings) + 1, Live' = {Len(bindings')},
         stopped' = FALSE,
         \A e \in Enrollments : enrollments'[e] = enrollments[e] \/ enrollments'[e].status = "bound"
  PROVE  CardInv'
<1>1. Len(bindings) \in Nat /\ bindings \in Seq(Binding) /\ bindings' \in Seq(Binding)
  BY DEF IInv, TypeOK, Grow
<1>2. Current' = Len(bindings) + 1
  BY <1>1, NewestIsCurrent DEF Live, Current
<1>3. \A e \in GrantOf(Current)' : enrollments'[e].status # "published"
  <2> SUFFICES ASSUME NEW e \in Enrollments, enrollments'[e].binding = Len(bindings) + 1,
                      enrollments'[e] = enrollments[e]
               PROVE  FALSE
    BY <1>2 DEF GrantOf
  <2>1. enrollments[e].binding \in DOMAIN bindings
    BY <1>1 DEF IInv, GrantsKnow
  <2> QED
    BY <1>1, <2>1
<1> QED
  BY <1>3 DEF CardInv, FrozenCard, StopCancels, StopHolds

\* Nobody is governed without a binding; revoking an old one changes nothing.
LEMMA RevokeKeepsCard ==
  ASSUME IInv, CardInv, NEW v \in DOMAIN bindings, Revoke(v), overtaken => overtaken'
  PROVE  CardInv'
<1>0. TypeOK /\ OnlyNewest /\ bindings \in Seq(Binding)
  BY DEF IInv, TypeOK
<1>1. /\ Live' = Live \ {v} /\ Len(bindings') = Len(bindings) /\ bindings' \in Seq(Binding)
      /\ Live' \subseteq {Len(bindings')}
  BY <1>0, RevokeGrows DEF Grow
<1>2. UNCHANGED <<enrollments, cards, publication, stopped>>
  BY DEF Revoke
<1>3. CASE Live' = {}
  <2>1. Current' = 0
    BY <1>3 DEF Live, Current, CurrentOf
  <2> QED
    BY <2>1 DEF GrantOf, CardInv, FrozenCard, StopCancels, StopHolds
<1>4. CASE Live' # {}
  <2>1. Live' = Live
    BY <1>0, <1>1, <1>4 DEF OnlyNewest
  <2>2. Current' = Current
    BY <2>1 DEF Live, Current, CurrentOf
  <2>3. GrantOf(Current)' = GrantOf(Current)
    BY <1>2, <2>2 DEF GrantOf
  <2> QED
    BY <1>2, <2>3 DEF CardInv, FrozenCard, StopCancels, StopHolds
<1> QED
  BY <1>3, <1>4

\* Only the current binding activates without overtaking, and only a card its
\* enrolment approves and the merchant has not stopped.
LEMMA ActivateKeepsCard ==
  ASSUME IInv, CardInv, NEW c \in Calls, NEW v \in Versions, NEW rev \in 1 .. MaxRevision,
         ActivateCard(c, v, rev)
  PROVE  CardInv'
<1>1. UNCHANGED <<bindings, cards, stopped>> /\ publication' = [revision |-> rev, state |-> "ACTIVE"]
  BY DEF ActivateCard, Activated
<1>2. Current' = Current
  BY <1>1 DEF Current, CurrentOf, LiveIn
<1>3. \A e \in Enrollments :
         /\ enrollments'[e].binding = enrollments[e].binding
         /\ enrollments'[e].card = enrollments[e].card
         /\ \/ enrollments'[e].status = enrollments[e].status
            \/ enrollments[e].status = "bound"
  <2> SUFFICES ASSUME NEW e \in Enrollments
               PROVE  /\ enrollments'[e].binding = enrollments[e].binding
                      /\ enrollments'[e].card = enrollments[e].card
                      /\ \/ enrollments'[e].status = enrollments[e].status
                         \/ enrollments[e].status = "bound"
    OBVIOUS
  <2>1. enrollments[e] \in Enrollment
    BY DEF IInv, TypeOK
  <2>2. enrollments'[e] = IF e \in GrantOf(v) /\ enrollments[e].status = "bound"
                            THEN [enrollments[e] EXCEPT !.status = "published"] ELSE enrollments[e]
    BY DEF ActivateCard
  <2> QED
    BY <2>1, <2>2 DEF Enrollment
<1>4. GrantOf(Current)' = GrantOf(Current)
  BY <1>2, <1>3 DEF GrantOf
<1>5. StopCancels'
  BY <1>1, <1>3, <1>4 DEF CardInv, StopCancels, GrantOf
<1>6. CASE overtaken'
  BY <1>5, <1>6 DEF CardInv, FrozenCard, StopHolds
<1>7. CASE ~overtaken'
  <2>1. v \in Live
    BY <1>7 DEF ActivateCard, Overtake
  <2>2. v = Current
    BY <2>1, InsertersRead
  <2>3. \A e \in GrantOf(Current) : /\ enrollments[e].status \in {"bound", "published"}
                                    /\ enrollments[e].card = cards[rev]
    BY <2>2 DEF ActivateCard, Approved
  <2>4. FrozenCard'
    BY <1>1, <1>3, <1>4, <2>3 DEF FrozenCard, GrantOf
  <2>5. StopHolds'
    BY <1>1, <1>4, <2>3 DEF StopHolds, CardInv, StopCancels
  <2> QED
    BY <1>5, <2>4, <2>5 DEF CardInv
<1> QED
  BY <1>6, <1>7

\* Pausing and withdrawing keep the revision.
LEMMA StoppingKeepsCard ==
  ASSUME IInv, CardInv, NEW state \in Stops, Publication(state),
         overtaken => overtaken',
         \/ UNCHANGED <<enrollments, stopped>>
         \/ Cancel
  PROVE  CardInv'
<1>1. /\ UNCHANGED <<bindings, cards>>
      /\ publication'.revision = publication.revision /\ publication'.state = state
  BY DEF Publication, IInv, TypeOK
<1>2. Current' = Current
  BY <1>1 DEF Current, CurrentOf, LiveIn
<1>3. StopHolds'
  BY <1>1 DEF StopHolds, Stops
<1>4. CASE UNCHANGED <<enrollments, stopped>>
  <2>1. GrantOf(Current)' = GrantOf(Current)
    BY <1>2, <1>4 DEF GrantOf
  <2> QED
    BY <1>1, <1>3, <1>4, <2>1 DEF CardInv, FrozenCard, StopCancels
<1>5. CASE Cancel
  <2>1. ASSUME NEW e \in GrantOf(Current)'
        PROVE  enrollments'[e].status = "canceled"
    <3>1. e \in Enrollments /\ enrollments'[e].binding # 0
      BY <2>1, <1>2 DEF GrantOf
    <3>2. enrollments[e] \in Enrollment
      BY <3>1 DEF IInv, TypeOK
    <3>3. enrollments'[e] = IF enrollments[e].status \in Cancellable
                              THEN [enrollments[e] EXCEPT !.status = "canceled"] ELSE enrollments[e]
      BY <1>5, <3>1 DEF Cancel
    <3>4. enrollments[e].binding # 0 => enrollments[e].status \in BoundStatuses
      BY <3>1 DEF IInv, GrantsKnow
    <3> QED
      BY <3>1, <3>2, <3>3, <3>4 DEF Enrollment, Cancellable, BoundStatuses
  <2> QED
    BY <1>3, <2>1 DEF CardInv, FrozenCard, StopCancels
<1> QED
  BY <1>4, <1>5
\* The steps of an enrolment before it binds have no binding to change.
LEMMA EnrollingKeepsCard ==
  ASSUME IInv, CardInv
  PROVE  /\ \A e \in Enrollments, card \in Cards : CreateDevice(e, card) => CardInv'
         /\ \A e \in Enrollments : Expire(e) => CardInv'
         /\ \A c \in Calls, e \in Enrollments : Authorize(c, e) => CardInv'
<1>1. ASSUME EnrollmentOnly, NEW e \in Enrollments,
             enrollments[e].status \in {"none", "ready", "authorized"},
             enrollments'[e].binding = enrollments[e].binding,
             \A f \in Enrollments \ {e} : enrollments'[f] = enrollments[f]
      PROVE  CardInv'
  <2>1. enrollments[e].binding = 0
    BY <1>1 DEF IInv, GrantsKnow, BoundStatuses
  <2> QED
    BY <1>1, <2>1, QuietKeepsCard DEF EnrollmentOnly
<1>2. \A e \in Enrollments : enrollments[e] \in Enrollment
  BY DEF IInv, TypeOK
<1>3. ASSUME NEW e \in Enrollments, NEW card \in Cards, CreateDevice(e, card)
      PROVE  CardInv'
  BY <1>1, <1>2, <1>3 DEF CreateDevice, Enrollment, IInv, TypeOK
<1>4. ASSUME NEW e \in Enrollments, Expire(e)
      PROVE  CardInv'
  BY <1>1, <1>2, <1>4 DEF Expire, Enrollment, IInv, TypeOK
<1>5. ASSUME NEW c \in Calls, NEW e \in Enrollments, Authorize(c, e)
      PROVE  CardInv'
  BY <1>1, <1>2, <1>5 DEF Authorize, Enrollment, IInv, TypeOK
<1> QED
  BY <1>3, <1>4, <1>5

LEMMA CardStep ==
  ASSUME IInv, CardInv, [Next]_vars
  PROVE  CardInv'
<1>1. ASSUME UNCHANGED <<bindings, publication, cards, stopped, enrollments>>,
             overtaken => overtaken'
      PROVE  CardInv'
  BY <1>1, QuietKeepsCard
<1>2. ASSUME NEW c \in Calls, NEW v \in Versions, Signed(c, v)
      PROVE  CardInv'
  <2>1. ASSUME NEW r \in Runtimes, Rotate(c, v, r)
        PROVE  CardInv'
    BY <2>1, RotateGrows, NewBindingKeepsCard DEF Rotate, Insert
  <2>2. ASSUME RevokeSigned(c, v)
        PROVE  CardInv'
    BY <2>2, InsertersRead, RevokeKeepsCard DEF RevokeSigned, Overtake
  <2>3. ASSUME NEW card \in Cards, CreateCard(c, v, card)
        PROVE  CardInv'
    <3>1. /\ UNCHANGED <<bindings, publication, enrollments, stopped>>
          /\ overtaken => overtaken'
          /\ cards' = Append(cards, card)
      BY <2>3 DEF CreateCard, Overtake
    <3>2. /\ Current' = Current
          /\ GrantOf(Current)' = GrantOf(Current)
      BY <3>1 DEF Current, CurrentOf, LiveIn, GrantOf
    <3>3. publication.revision # 0 => cards'[publication.revision] = cards[publication.revision]
      BY <3>1 DEF IInv, TypeOK
    <3> QED
      BY <3>1, <3>2, <3>3 DEF CardInv, FrozenCard, StopCancels, StopHolds
  <2>4. ASSUME NEW rev \in 1 .. MaxRevision, ActivateCard(c, v, rev)
        PROVE  CardInv'
    BY <2>4, ActivateKeepsCard
  <2>5. ASSUME NEW state \in Stops, RuntimeStops(c, v, state)
        PROVE  CardInv'
    BY <2>5, StoppingKeepsCard DEF RuntimeStops, Overtake
  <2> QED
    BY <1>2, <2>1, <2>2, <2>3, <2>4, <2>5 DEF Signed
<1>3. ASSUME NEW c \in Calls, Serve(c)
      PROVE  CardInv'
  <2>1. ASSUME NEW r \in Runtimes, AdminBind(c, r)
        PROVE  CardInv'
    <3>1. Grow /\ Len(bindings') = Len(bindings) + 1 /\ Live' = {Len(bindings')}
      BY <2>1, AdminBindGrows
    <3>2. stopped' = FALSE /\ UNCHANGED enrollments
      BY <2>1 DEF AdminBind, Insert
    <3> QED
      BY <3>1, <3>2, NewBindingKeepsCard
  <2>2. ASSUME NEW e \in Enrollments, Enroll(c, e)
        PROVE  CardInv'
    <3>1. \A f \in Enrollments : enrollments'[f] = enrollments[f] \/ enrollments'[f].status = "bound"
      <4>1. \A f \in Enrollments : enrollments[f] \in Enrollment
        BY DEF IInv, TypeOK
      <4> QED
        BY <2>2, <4>1 DEF Enroll, Enrollment, IInv, TypeOK
    <3> QED
      <4>1. Grow /\ Len(bindings') = Len(bindings) + 1 /\ Live' = {Len(bindings')}
        BY <2>2, EnrollGrows
      <4>2. stopped' = FALSE
        BY <2>2 DEF Enroll, Insert
      <4> QED
        BY <3>1, <4>1, <4>2, NewBindingKeepsCard
  <2>3. ASSUME NEW e \in Enrollments, Authorize(c, e)
        PROVE  CardInv'
    BY <2>3, EnrollingKeepsCard
  <2>4. \/ \E v \in Versions : Signed(c, v)
        \/ \E r \in Runtimes : AdminBind(c, r)
        \/ \E e \in Enrollments : Enroll(c, e) \/ Authorize(c, e)
        \/ UNCHANGED <<bindings, publication, cards, stopped, enrollments, overtaken>>
    BY <1>3 DEF Serve, Sign, AdminReads, FirstReads, End, RequestBinding, AuthorizeChecks,
       EnrollReads, AuthorizeReads, tables
  <2> QED
    BY <1>1, <1>2, <2>1, <2>2, <2>3, <2>4
<1>4. ASSUME NEW q \in Requests, Confirm(q)
      PROVE  CardInv'
  BY <1>4, ConfirmGrows, NewBindingKeepsCard DEF Confirm, Insert
<1>5. ASSUME NEW v \in Versions, AdminRevoke(v)
      PROVE  CardInv'
  BY <1>5, RevokeKeepsCard DEF AdminRevoke, Live, LiveIn
<1>6. ASSUME NEW state \in Stops, MerchantStops(state)
      PROVE  CardInv'
  BY <1>6, StoppingKeepsCard DEF MerchantStops
<1>7. ASSUME MerchantResumes
      PROVE  CardInv'
  <2>1. /\ UNCHANGED <<bindings, cards, enrollments, overtaken>> /\ stopped' = FALSE
        /\ publication'.revision = publication.revision
    BY <1>7 DEF MerchantResumes, Publication, IInv, TypeOK
  <2>2. GrantOf(Current)' = GrantOf(Current)
    BY <2>1 DEF Current, CurrentOf, LiveIn, GrantOf
  <2> QED
    BY <2>1, <2>2 DEF CardInv, FrozenCard, StopCancels, StopHolds
<1>8. ASSUME Suspend
      PROVE  CardInv'
  <2>1. ASSUME NEW e \in Enrollments
        PROVE  /\ enrollments'[e].binding = enrollments[e].binding
               /\ enrollments'[e].card = enrollments[e].card
               /\ \/ enrollments'[e].status = enrollments[e].status
                  \/ enrollments'[e].status = "canceled"
    <3>1. enrollments[e] \in Enrollment
      BY DEF IInv, TypeOK
    <3>2. enrollments'[e] = IF enrollments[e].status \in Cancellable
                              THEN [enrollments[e] EXCEPT !.status = "canceled"] ELSE enrollments[e]
      BY <1>8 DEF Suspend, Cancel
    <3> QED
      BY <3>1, <3>2 DEF Enrollment
  <2> QED
    BY <1>8, <2>1, QuietKeepsCard DEF Suspend
<1>9. \/ UNCHANGED <<bindings, publication, cards, stopped, enrollments, overtaken>>
      \/ \E c \in Calls : Serve(c)
      \/ \E q \in Requests : Confirm(q)
      \/ \E e \in Enrollments, card \in Cards : CreateDevice(e, card)
      \/ \E e \in Enrollments : Expire(e)
      \/ \E v \in Versions : AdminRevoke(v)
      \/ \E state \in Stops : MerchantStops(state)
      \/ MerchantResumes \/ Suspend
  BY DEF Next, Reject, Lapse, Decide, Reinstate, vars, tables
<1> QED
  BY <1>1, <1>3, <1>4, <1>5, <1>6, <1>7, <1>8, <1>9, EnrollingKeepsCard

LEMMA CardInvariance == Spec => []CardInv
<1>1. Init => CardInv
  BY DEF Init, CardInv, FrozenCard, StopCancels, StopHolds, GrantOf
<1>2. IInv /\ CardInv /\ [Next]_vars => CardInv'
  BY CardStep
<1> QED
  BY <1>1, <1>2, Invariance, PTL DEF Spec

\* What an enrolled runtime has published is what its merchant approved
\* (_enrollment_digest_guard).
THEOREM ApprovedCardStays == Spec => []ApprovedWhileGoverned
<1>1. CardInv => ApprovedWhileGoverned
  BY DEF CardInv, FrozenCard, ApprovedWhileGoverned
<1> QED
  BY <1>1, CardInvariance, PTL

\* A card the merchant stopped stays stopped (set_my_card_state).
THEOREM StoppedCardStays == Spec => []StopHolds
<1>1. CardInv => StopHolds
  BY DEF CardInv
<1> QED
  BY <1>1, CardInvariance, PTL
=============================================================================
