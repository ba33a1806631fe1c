----------------------------- MODULE RuntimeBinding -----------------------------
(***************************************************************************)
(* The runtime behind one cloud agent: how it is bound, rotated and        *)
(* revoked, how a merchant enrols it, and the card it publishes            *)
(* (api/handlers/cloud_binding.py, api/handlers/cloud_card.py,             *)
(* services/binding_requests.py, services/enrollments.py,                  *)
(* a2a/card_store.py, a2a/request_signature.py, services/agent_endpoints). *)
(* Every statement of this code names one agent: one agent is enough.      *)
(*                                                                         *)
(* A session or an administrator's moderation writes before it reads, so   *)
(* SQLite's write lock makes it one action.  A signed request reads its    *)
(* binding first and takes the lock with its nonce; a grant is authorised  *)
(* and used the same way: those have a control point in calls and work     *)
(* with what they read.  A request may be refused, or die, at any point    *)
(* before its commit (a bad signature, a replayed nonce, a failed          *)
(* challenge, a deadline that has passed): End.                            *)
(*                                                                         *)
(* A runtime stands for its key, origin and endpoint.  A card is what its  *)
(* publisher signs the digest of: the runtime it advertises and a text.    *)
(***************************************************************************)
EXTENDS Naturals, Sequences, FiniteSets

CONSTANTS
    Runtimes, Texts,
    Enrollments, Requests,  \* rows of the two tables
    Calls,                  \* requests being served at the same time
    None,
    MaxVersion, MaxRevision,  \* bounds of the runs on bindings and cards
    MaxPending                \* KIWI_CATALOG_MAX_PENDING_BINDINGS

ASSUME NoneAssumption  == None \notin Runtimes
ASSUME BoundAssumption == MaxVersion \in Nat /\ MaxRevision \in Nat /\ MaxPending \in Nat

VARIABLES
    bindings,     \* runtime_bindings in the order of their version
    requests,     \* runtime_binding_requests
    enrollments,  \* enrollments
    admin,        \* catalog_agents.administrative_state = 'active'
    cards,        \* agent_card_versions
    publication,  \* card_publications
    endpoints,    \* agent_endpoints: the rows the directory hands out
    calls,        \* what each request being served has read
    stopped,      \* history: the merchant stopped the card of this binding
    overtaken     \* history: a binding revoked meanwhile signed a commit

tables  == <<bindings, requests, enrollments, admin, cards, publication, endpoints>>
vars    == <<tables, calls, stopped, overtaken>>

Versions == 1 .. MaxVersion
Cards    == [runtime : Runtimes, text : Texts]
Binding  == [runtime : Runtimes, live : BOOLEAN]
Request  == [status : {"none", "pending", "confirmed", "rejected", "expired"},
             runtime : Runtimes \cup {None}]
Enrollment ==
    [status : {"none", "ready", "authorized", "bound", "published", "expired", "canceled"},
     card : Cards \cup {None},       \* public_preview: runtime and approved card
     expected : 0 .. MaxVersion + 1, \* expected_binding_version
     binding : 0 .. MaxVersion]      \* version of its binding_id, 0 for none

Idle == [at |-> "idle"]
Call == {Idle}
    \cup [at : {"signed"}, binding : Versions]        \* verify_runtime_request
    \cup [at : {"admin"}, existing : 0 .. MaxVersion] \* possession and admin token
    \cup [at : {"first"}]                             \* possession, nothing active
    \cup [at : {"checked", "enrolling"}, enrollment : Enrollments]
    \cup [at : {"granting"}, enrollment : Enrollments, expected : 1 .. MaxVersion + 1]

Init ==
    /\ bindings = <<>> /\ cards = <<>>
    /\ requests = [q \in Requests |-> [status |-> "none", runtime |-> None]]
    /\ enrollments = [e \in Enrollments |->
          [status |-> "none", card |-> None, expected |-> 0, binding |-> 0]]
    /\ admin = TRUE
    /\ publication = [revision |-> 0, state |-> "none"]
    /\ endpoints = [a2a |-> None, card |-> FALSE]
    /\ calls = [c \in Calls |-> Idle]
    /\ stopped = FALSE /\ overtaken = FALSE

LiveIn(bs) == {v \in DOMAIN bs : bs[v].live}

\* _current_active_binding; 0 when there is none.
CurrentOf(bs) ==
    IF LiveIn(bs) = {} THEN 0
    ELSE CHOOSE v \in LiveIn(bs) : \A u \in LiveIn(bs) : u <= v

Live    == LiveIn(bindings)
Current == CurrentOf(bindings)

(***************************************************************************)
(* Endpoints follow the binding and the publication (sync_cloud_endpoints, *)
(* in the transaction of whoever changed one of them).                     *)
(***************************************************************************)
Synced(bs, p) ==
    IF CurrentOf(bs) = 0 \/ p.state = "WITHDRAWN"
      THEN [a2a |-> None, card |-> FALSE]
      ELSE [a2a |-> bs[CurrentOf(bs)].runtime, card |-> p.state # "none"]

Sync(bs, p) == endpoints' = Synced(bs, p)

(***************************************************************************)
(* _insert_active_binding: the next version after the binding it replaces, *)
(* 1 when there is none.  Both the id made of the version and the unique   *)
(* index (agent, version) refuse a version that exists.                    *)
(***************************************************************************)
VersionAfter(existing) == existing + 1

BugInserted(existing, r) == Append(bindings, [runtime |-> r, live |-> TRUE])
Inserted(existing, r) ==
    Append([v \in DOMAIN bindings |->
               IF v = existing THEN [bindings[v] EXCEPT !.live = FALSE] ELSE bindings[v]],
           [runtime |-> r, live |-> TRUE])

Insert(version, existing, r) ==
    /\ version \notin DOMAIN bindings /\ version <= MaxVersion
    /\ bindings' = Inserted(existing, r)
    /\ stopped' = FALSE
    /\ Sync(bindings', publication)
    /\ UNCHANGED <<admin, cards, publication>>

Finish(c) == calls' = [calls EXCEPT ![c] = Idle]

(***************************************************************************)
(* Requests with a signature.  The key of an active binding signs for its  *)
(* binding; who has none proves possession of a new key.                   *)
(***************************************************************************)
Sign(c, v) ==
    /\ calls[c] = Idle /\ v \in Live
    /\ calls' = [calls EXCEPT ![c] = [at |-> "signed", binding |-> v]]
    /\ UNCHANGED <<tables, stopped, overtaken>>

\* create_runtime_binding with an admin token: what it will replace.
AdminReads(c) ==
    /\ calls[c] = Idle
    /\ calls' = [calls EXCEPT ![c] = [at |-> "admin", existing |-> Current]]
    /\ UNCHANGED <<tables, stopped, overtaken>>

FirstReads(c) ==
    /\ calls[c] = Idle /\ Current = 0
    /\ calls' = [calls EXCEPT ![c] = [at |-> "first"]]
    /\ UNCHANGED <<tables, stopped, overtaken>>

End(c) ==
    /\ calls[c] # Idle
    /\ Finish(c)
    /\ UNCHANGED <<tables, stopped, overtaken>>

SignedBy(c, v) == calls[c] = [at |-> "signed", binding |-> v]

\* The signer's binding was revoked between its reading and the lock.
Overtake(v) == overtaken' = (overtaken \/ v \notin Live)

Rotate(c, v, r) ==
    /\ SignedBy(c, v)
    /\ Insert(VersionAfter(v), v, r)
    /\ Overtake(v) /\ Finish(c)
    /\ UNCHANGED <<requests, enrollments>>

AdminBind(c, r) ==
    /\ calls[c].at = "admin"
    /\ Insert(VersionAfter(calls[c].existing), calls[c].existing, r)
    /\ Finish(c)
    /\ UNCHANGED <<requests, enrollments, overtaken>>

Pending == {q \in Requests : requests[q].status = "pending"}

\* D1: nothing is bound before the merchant confirms.
RequestBinding(c, q, r) ==
    /\ calls[c].at = "first" /\ requests[q].status = "none"
    /\ Cardinality(Pending) < MaxPending
    /\ requests' = [requests EXCEPT ![q] = [status |-> "pending", runtime |-> r]]
    /\ Finish(c)
    /\ UNCHANGED <<bindings, enrollments, admin, cards, publication, endpoints,
                   stopped, overtaken>>

(***************************************************************************)
(* The merchant decides on a request, in a session.                        *)
(***************************************************************************)
\* The version is the newest plus one, whatever became active meanwhile.
Confirm(q) ==
    /\ q \in Pending
    /\ Insert(Len(bindings) + 1, Current, requests[q].runtime)
    /\ requests' = [p \in Requests |->
          IF p = q THEN [requests[p] EXCEPT !.status = "confirmed"]
          ELSE IF p \in Pending THEN [requests[p] EXCEPT !.status = "expired"]
          ELSE requests[p]]
    /\ UNCHANGED <<enrollments, calls, overtaken>>

Decide(q, status) ==
    /\ q \in Pending
    /\ requests' = [requests EXCEPT ![q].status = status]
    /\ UNCHANGED <<bindings, enrollments, admin, cards, publication, endpoints,
                   calls, stopped, overtaken>>

Reject(q) == Decide(q, "rejected")
Lapse(q)  == Decide(q, "expired")

(***************************************************************************)
(* Revocation, by the binding's own key or by an administrator.            *)
(***************************************************************************)
Revoked(v) == [bindings EXCEPT ![v].live = FALSE]

BugRevoke(v) ==
    /\ bindings' = Revoked(v)
    /\ UNCHANGED <<requests, enrollments, admin, cards, publication, endpoints, stopped>>
Revoke(v) ==
    /\ bindings' = Revoked(v)
    /\ Sync(bindings', publication)
    /\ UNCHANGED <<requests, enrollments, admin, cards, publication, stopped>>

RevokeSigned(c, v) ==
    /\ SignedBy(c, v)
    /\ Revoke(v)
    /\ Overtake(v) /\ Finish(c)

AdminRevoke(v) ==
    /\ v \in Live
    /\ Revoke(v)
    /\ UNCHANGED <<calls, overtaken>>

(***************************************************************************)
(* Enrolment.  A device asks with its key and a preview of its card; the   *)
(* merchant authorises; the grant binds the runtime once, after a          *)
(* challenge over the network.                                             *)
(***************************************************************************)
EnrollmentOnly ==
    UNCHANGED <<bindings, requests, admin, cards, publication, endpoints,
                stopped, overtaken>>

CreateDevice(e, card) ==
    /\ enrollments[e].status = "none"
    /\ enrollments' = [enrollments EXCEPT
          ![e].status = "ready", ![e].card = card, ![e].expected = 1]
    /\ EnrollmentOnly /\ UNCHANGED calls

\* public_enrollment sees that a deadline has passed.
Expire(e) ==
    /\ enrollments[e].status \in {"ready", "authorized"}
    /\ enrollments' = [enrollments EXCEPT ![e].status = "expired"]
    /\ EnrollmentOnly /\ UNCHANGED calls

\* _refuse_binding_takeover: only the runtime that is bound may go on.
AuthorizeChecks(c, e) ==
    /\ calls[c] = Idle /\ enrollments[e].status = "ready"
    /\ Current # 0 => bindings[Current].runtime = enrollments[e].card.runtime
    /\ calls' = [calls EXCEPT ![c] = [at |-> "checked", enrollment |-> e]]
    /\ UNCHANGED <<tables, stopped, overtaken>>

AuthorizeReads(c) ==
    /\ calls[c].at = "checked" /\ admin
    /\ calls' = [calls EXCEPT ![c] = [at |-> "granting",
          enrollment |-> calls[c].enrollment, expected |-> Len(bindings) + 1]]
    /\ UNCHANGED <<tables, stopped, overtaken>>

Authorize(c, e) ==
    /\ calls[c].at = "granting" /\ e = calls[c].enrollment
    /\ enrollments[e].status = "ready"
    /\ enrollments' = [enrollments EXCEPT
          ![e].status = "authorized", ![e].expected = calls[c].expected]
    /\ EnrollmentOnly /\ Finish(c)

\* After the challenge: the grant and its agent, still without the lock.
EnrollReads(c, e) ==
    /\ calls[c] = Idle /\ admin /\ enrollments[e].status = "authorized"
    /\ calls' = [calls EXCEPT ![c] = [at |-> "enrolling", enrollment |-> e]]
    /\ UNCHANGED <<tables, stopped, overtaken>>

BugExpected(e) == enrollments[e].expected >= 1
Expected(e)    == enrollments[e].expected = Len(bindings) + 1

\* The response carries the binding's claim, which the catalog does not
\* sign for a withdrawn card: then the whole transaction is rolled back.
Enroll(c, e) ==
    /\ calls[c].at = "enrolling" /\ e = calls[c].enrollment
    /\ enrollments[e].status = "authorized"
    /\ Expected(e)
    /\ publication.state # "WITHDRAWN"
    /\ Insert(VersionAfter(Current), Current, enrollments[e].card.runtime)
    /\ enrollments' = [enrollments EXCEPT
          ![e].status = "bound", ![e].binding = VersionAfter(Current)]
    /\ Finish(c)
    /\ UNCHANGED <<requests, overtaken>>

(***************************************************************************)
(* Cards.  The enrolment a binding came from, if any, freezes its card.    *)
(***************************************************************************)
GrantOf(v) == {e \in Enrollments : v # 0 /\ enrollments[e].binding = v}

BugApproved(v, card) ==
    \A e \in GrantOf(v) : admin /\ enrollments[e].status \in {"bound", "published"}
Approved(v, card) ==
    \A e \in GrantOf(v) :
        admin /\ enrollments[e].status \in {"bound", "published"}
              /\ enrollments[e].card = card

CreateCard(c, v, card) ==
    /\ SignedBy(c, v)
    /\ Approved(v, card)
    /\ Current # 0 => bindings[Current].runtime = card.runtime
    /\ Len(cards) < MaxRevision
    /\ cards' = Append(cards, card)
    /\ Overtake(v) /\ Finish(c)
    /\ UNCHANGED <<bindings, requests, enrollments, admin, publication, endpoints, stopped>>

Activated(rev)    == [revision |-> rev, state |-> "ACTIVE"]

\* activate_card: expected_revision, an input, must be the active one.
ActivateCard(c, v, rev) ==
    /\ SignedBy(c, v)
    /\ rev \in DOMAIN cards
    /\ Approved(v, cards[rev])
    /\ publication' = Activated(rev)
    /\ enrollments' = [e \in Enrollments |->
          IF e \in GrantOf(v) /\ enrollments[e].status = "bound"
            THEN [enrollments[e] EXCEPT !.status = "published"] ELSE enrollments[e]]
    /\ Sync(bindings, publication')
    /\ Overtake(v) /\ Finish(c)
    /\ UNCHANGED <<bindings, requests, admin, cards, stopped>>

Publication(state) ==
    /\ publication.revision # 0
    /\ publication' = [publication EXCEPT !.state = state]
    /\ Sync(bindings, publication')
    /\ UNCHANGED <<bindings, requests, admin, cards>>

RuntimeStops(c, v, state) ==
    /\ SignedBy(c, v)
    /\ Publication(state)
    /\ Overtake(v) /\ Finish(c)
    /\ UNCHANGED <<enrollments, stopped>>

(***************************************************************************)
(* Governance by the merchant and by the operator: it outranks whatever an *)
(* enrolment still has in flight.  A ready enrolment names no agent yet.   *)
(***************************************************************************)
BugCanceled == {"authorized", "bound"}
Cancellable == {"authorized", "bound", "published"}

Cancel ==
    enrollments' = [e \in Enrollments |->
        IF enrollments[e].status \in Cancellable
          THEN [enrollments[e] EXCEPT !.status = "canceled"] ELSE enrollments[e]]

MerchantStops(state) ==
    /\ Publication(state)
    /\ Cancel
    /\ stopped' = (GrantOf(Current) # {})
    /\ UNCHANGED <<calls, overtaken>>

\* Activates the current revision again, without a look at its digest.
MerchantResumes ==
    /\ Publication("ACTIVE")
    /\ stopped' = FALSE
    /\ UNCHANGED <<enrollments, calls, overtaken>>

Suspend ==
    /\ admin /\ admin' = FALSE
    /\ Cancel
    /\ UNCHANGED <<bindings, requests, cards, publication, endpoints, calls,
                   stopped, overtaken>>

Reinstate ==
    /\ ~admin /\ admin' = TRUE
    /\ UNCHANGED <<bindings, requests, enrollments, cards, publication, endpoints,
                   calls, stopped, overtaken>>

Stops == {"PAUSED", "WITHDRAWN"}

Signed(c, v) ==
    \/ \E r \in Runtimes : Rotate(c, v, r)
    \/ RevokeSigned(c, v)
    \/ \E card \in Cards : CreateCard(c, v, card)
    \/ \E rev \in 1 .. MaxRevision : ActivateCard(c, v, rev)
    \/ \E state \in Stops : RuntimeStops(c, v, state)

Serve(c) ==
    \/ \E v \in Versions : Sign(c, v) \/ Signed(c, v)
    \/ AdminReads(c) \/ FirstReads(c) \/ End(c)
    \/ \E r \in Runtimes : AdminBind(c, r)
    \/ \E q \in Requests, r \in Runtimes : RequestBinding(c, q, r)
    \/ \E e \in Enrollments :
          AuthorizeChecks(c, e) \/ Authorize(c, e) \/ EnrollReads(c, e) \/ Enroll(c, e)
    \/ AuthorizeReads(c)

Next ==
    \/ \E c \in Calls : Serve(c)
    \/ \E q \in Requests : Confirm(q) \/ Reject(q) \/ Lapse(q)
    \/ \E e \in Enrollments, card \in Cards : CreateDevice(e, card)
    \/ \E e \in Enrollments : Expire(e)
    \/ \E v \in Versions : AdminRevoke(v)
    \/ \E state \in Stops : MerchantStops(state)
    \/ MerchantResumes \/ Suspend \/ Reinstate

Spec == Init /\ [][Next]_vars

(***************************************************************************)
(* Properties.                                                             *)
(***************************************************************************)
\* Every row and every request being served is of its kind; the active
\* revision exists.
TypeOK ==
    /\ bindings \in Seq(Binding) /\ Len(bindings) <= MaxVersion
    /\ requests \in [Requests -> Request]
    /\ enrollments \in [Enrollments -> Enrollment]
    /\ admin \in BOOLEAN
    /\ cards \in Seq(Cards) /\ Len(cards) <= MaxRevision
    /\ publication \in [revision : 0 .. Len(cards),
                        state : {"none", "ACTIVE", "PAUSED", "WITHDRAWN"}]
    /\ publication.state = "none" <=> publication.revision = 0
    /\ endpoints \in [a2a : Runtimes \cup {None}, card : BOOLEAN]
    /\ calls \in [Calls -> Call]
    /\ stopped \in BOOLEAN /\ overtaken \in BOOLEAN

\* What the directory hands out follows the binding and the publication: a
\* runtime that is no longer bound, or whose card is withdrawn, can not be
\* found, by whichever of five paths the change came (sync_cloud_endpoints).
EndpointsMirror ==
    /\ endpoints.a2a = IF Current = 0 \/ publication.state = "WITHDRAWN"
                         THEN None ELSE bindings[Current].runtime
    /\ endpoints.card = (Current # 0 /\ publication.state \in {"ACTIVE", "PAUSED"})

\* A grant binds once, the runtime and the version the merchant authorised,
\* whatever was bound, rotated or confirmed during the challenge.
GrantBindsOnce ==
    \A e \in Enrollments : enrollments[e].binding # 0 =>
        /\ enrollments[e].binding = enrollments[e].expected
        /\ enrollments[e].binding \in DOMAIN bindings
        /\ bindings[enrollments[e].binding].runtime = enrollments[e].card.runtime
        /\ \A f \in Enrollments \ {e} : enrollments[f].binding # enrollments[e].binding

\* While an enrolled runtime is bound and has published, the active card is
\* the one its merchant approved (_enrollment_digest_guard), unless a request
\* signed by a binding revoked meanwhile was committed.
ApprovedWhileGoverned ==
    overtaken \/ \A e \in GrantOf(Current) :
        enrollments[e].status = "published" =>
            cards[publication.revision] = enrollments[e].card

\* A card the merchant paused or withdrew stays so until the merchant resumes
\* it or something else is bound: the enrolled runtime can not bring it back
\* (set_my_card_state: "outranks outstanding automatic enrollment retries").
StopHolds ==
    ~overtaken /\ stopped /\ GrantOf(Current) # {} => publication.state # "ACTIVE"

\* At most one binding is active, it is the newest, and revocation is final.
Contract == INSTANCE BindingContract WITH head <- Len(bindings), active <- Live
ImplementsContract == Contract!Spec

\* A grant that still expects the next version can be used: a runtime that
\* was disconnected can be bound again (_refuse_binding_takeover: disconnect
\* first, then bind another key).  It fails: the insert counts from an active
\* binding, and there is none.
GrantIsUsable ==
    \A e \in Enrollments : enrollments[e].status = "authorized" /\ Expected(e) =>
        VersionAfter(Current) \notin DOMAIN bindings
=============================================================================
