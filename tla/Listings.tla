------------------------------ MODULE Listings ------------------------------
(***************************************************************************)
(* A merchant's commerce listings (listings/, api/handlers/listings.py),   *)
(* the plan that bounds them (services/listing_entitlements.py) and the    *)
(* administration of the agent that owns them, over the write template of  *)
(* WriteIdempotency.                                                       *)
(*                                                                         *)
(* One merchant with one agent: rows of other merchants share neither      *)
(* keys, budgets nor capacity with it.  A listing is an upsert key.  A     *)
(* binding stands for an enrolled and published runtime binding; which one *)
(* is current changes with the environment (RuntimeBinding).  Content,     *)
(* digests and freshness decide nothing here and are left out.             *)
(***************************************************************************)
EXTENDS WriteIdempotency

CONSTANTS
    Listings,       \* upsert keys of the merchant's listings
    Bindings,       \* runtime bindings of its agent
    Owner, Admin,   \* the holder of the owner token, the administrator
    Agent,          \* the agent itself, as a target of verify and refresh
    MaxLimit,       \* bound on the limits an administrator sets
    Legacy          \* KIWI_CATALOG_ENABLE_LEGACY_LISTINGS is on

ASSUME ActorsAssumption  == Actors = Bindings \cup {Owner, Admin} /\ None \notin Actors
ASSUME TargetsAssumption == Targets = Listings \cup {Agent} /\ Agent \notin Listings
ASSUME OperationsAssumption ==
    Operations = {"publish", "withdraw", "reinstate", "verify", "refresh"}
ASSUME AdminAssumption == Admin # Owner /\ {Admin, Owner} \cap Bindings = {}
ASSUME ListingsAssumption == IsFiniteSet(Listings) /\ MaxLimit \in Nat

VARIABLES
    rows,           \* commerce_listings
    agent,          \* its administrative_state
    account,        \* the merchant's account, and whether it is verified
    plan,           \* merchant_listing_entitlements, listing_plans
    bound,          \* the current binding, or None
    grounded        \* history: taken down by a moderator, not released

vars == <<writes, rows, agent, account, plan, bound, grounded>>
merchant == <<rows, agent, account, plan, bound, grounded>>

States  == {"absent", "ACTIVE", "SUSPENDED", "WITHDRAWN"}
Holds   == {"none", "governance", "quarantine"}
Listing == [state : States, hold : Holds]
Plan    == [status : {"missing", "active", "suspended"}, limit : Nat]

\* Published before, or left by older releases: suspended rows without a hold,
\* and rows a public read once quarantined.
Init ==
    /\ WritesInit
    /\ rows \in [Listings -> {[state |-> "absent", hold |-> "none"],
                              [state |-> "ACTIVE", hold |-> "none"],
                              [state |-> "SUSPENDED", hold |-> "none"],
                              [state |-> "SUSPENDED", hold |-> "quarantine"]}]
    /\ agent = "active"
    /\ account \in {"none", "ready"}
    /\ plan = [status |-> IF account = "none" THEN "missing" ELSE "active", limit |-> MaxLimit]
    /\ bound \in Bindings \cup {None}
    /\ grounded = {}

(***************************************************************************)
(* Who may ask, and what the plan allows.                                  *)
(***************************************************************************)
\* The owner token is for merchants without an account, where it is enabled.
Authorised(a) ==
    \/ a = Admin
    \/ a = Owner /\ account = "none" /\ Legacy
    \/ a = bound /\ agent = "active" /\ plan.status # "missing"

Used == Cardinality({l \in Listings : rows[l].state = "ACTIVE"})

BugHasCapacity(state) ==
    /\ account = "ready"
    /\ plan.status = "active"
    /\ state # "ACTIVE" => Used <= plan.limit
HasCapacity(state) ==
    /\ account = "ready"
    /\ plan.status = "active"
    /\ state # "ACTIVE" => Used < plan.limit

(***************************************************************************)
(* Publish, withdraw, reinstate.                                           *)
(***************************************************************************)
Publishable(a, l) ==
    /\ agent = "active"
    /\ rows[l].hold # "governance"
    /\ a \in Bindings => HasCapacity(rows[l].state)

Set(l, state, hold) == rows' = [rows EXCEPT ![l] = [state |-> state, hold |-> hold]]

\* BEGIN IMMEDIATE comes first: one step.  A publication ends a quarantine.
Publish(a, k, l) ==
    /\ Authorised(a)
    /\ a \in Bindings => k # None
    /\ Unused(<<"publish", a, k>>) /\ Begin
    /\ Publishable(a, l)
    /\ Set(l, "ACTIVE", "none")
    /\ Complete(<<"publish", a, k>>, l, 1)
    /\ UNCHANGED <<calls, agent, account, plan, bound, grounded>>

WithdrawBegin(c, a, k, l) ==
    /\ rows[l].state # "absent"
    /\ Authorised(a)
    /\ a \in Bindings => k # None
    /\ Enter(c, "withdraw", a, k, l)
    /\ UNCHANGED merchant

Withdraw(c) ==
    /\ Together(c, 1) /\ calls[c].op = "withdraw"
    /\ Set(calls[c].target, "WITHDRAWN", rows[calls[c].target].hold)
    /\ Become(c, Idle)
    /\ UNCHANGED <<begun, agent, account, plan, bound, grounded>>

\* Signed by a binding, only withdrawals are: reinstatement takes a token.
ReinstateBegin(c, a, k, l) ==
    /\ rows[l].state # "absent"
    /\ Authorised(a) /\ a \notin Bindings
    /\ Enter(c, "reinstate", a, k, l)
    /\ UNCHANGED merchant

BugReleasable(a, l) ==
    /\ rows[l].state = "SUSPENDED" /\ rows[l].hold # "quarantine"
    /\ agent = "active"
    /\ account # "none" => HasCapacity("SUSPENDED")
Releasable(a, l) ==
    /\ rows[l].state = "SUSPENDED" /\ rows[l].hold # "quarantine"
    /\ rows[l].hold = "governance" => a = Admin
    /\ agent = "active"
    /\ account # "none" => HasCapacity("SUSPENDED")

Reinstate(c) ==
    /\ Together(c, 1) /\ calls[c].op = "reinstate"
    /\ Releasable(calls[c].actor, calls[c].target)
    /\ Set(calls[c].target, "ACTIVE", "none")
    /\ grounded' = IF calls[c].actor = Admin THEN grounded \ {calls[c].target} ELSE grounded
    /\ Become(c, Idle)
    /\ UNCHANGED <<begun, agent, account, plan, bound>>

(***************************************************************************)
(* Writes of the agent catalog, which share keys and budgets.              *)
(***************************************************************************)
AgentBegin(c, op, a, k) ==
    /\ op \in {"verify", "refresh"} /\ a \notin Bindings
    /\ Enter(c, op, a, k, Agent)
    /\ UNCHANGED merchant

AgentWrite(c) ==
    /\ CommitClaim(c) \/ Answer(c) \/ Fail(c)
       \/ CommitAnswer(c) \/ Enqueue(c) \/ Reword(c) \/ QueueFull(c)
    /\ UNCHANGED merchant

(***************************************************************************)
(* The moderator, the administrator, the merchant's account and runtime.   *)
(***************************************************************************)
Suspend ==
    /\ agent = "active"
    /\ agent' = "suspended"
    /\ rows' = [l \in Listings |->
                  IF rows[l].state = "ACTIVE"
                  THEN [state |-> "SUSPENDED", hold |-> "governance"] ELSE rows[l]]
    /\ grounded' = grounded \cup {l \in Listings : rows[l].state = "ACTIVE"}
    /\ UNCHANGED <<writes, account, plan, bound>>

\* By a moderator, or by its merchant who registers it again.
Revive ==
    /\ agent = "suspended"
    /\ agent' = "active"
    /\ UNCHANGED <<writes, rows, account, plan, bound, grounded>>

\* set_plan_limit and set_merchant_entitlement: limits below what is used are
\* accepted and take nothing down.
SetPlan ==
    /\ plan' \in [status : {"active", "suspended"}, limit : 0 .. MaxLimit]
    /\ plan' # plan
    /\ UNCHANGED <<writes, rows, agent, account, bound, grounded>>

\* register_account with ensure_free_entitlement; closing and reopening it.
Account ==
    /\ account' \in {"ready", "unready"} \ {account}
    /\ plan' = IF plan.status = "missing" THEN [status |-> "active", limit |-> MaxLimit] ELSE plan
    /\ UNCHANGED <<writes, rows, agent, bound, grounded>>

Rebind ==
    /\ bound' \in (Bindings \cup {None}) \ {bound}
    /\ UNCHANGED <<writes, rows, agent, account, plan, grounded>>

Next ==
    \/ \E a \in Actors, k \in Keys \cup {None}, l \in Listings :
          \/ Publish(a, k, l)
          \/ \E c \in Requests : WithdrawBegin(c, a, k, l) \/ ReinstateBegin(c, a, k, l)
    \/ \E c \in Requests, op \in Operations, a \in Actors, k \in Keys \cup {None} :
          AgentBegin(c, op, a, k)
    \/ \E c \in Requests :
          \/ Withdraw(c) \/ Reinstate(c) \/ AgentWrite(c)
          \/ (ClaimMeetsRow(c) \/ RolledBack(c)) /\ UNCHANGED merchant
    \/ Crash /\ UNCHANGED merchant
    \/ Suspend \/ Revive \/ SetPlan \/ Account \/ Rebind

Spec == Init /\ [][Next]_vars

(***************************************************************************)
(* Properties.                                                             *)
(***************************************************************************)
TypeOK ==
    /\ WritesTypeOK
    /\ rows \in [Listings -> Listing]
    /\ agent \in {"active", "suspended"}
    /\ account \in {"none", "ready", "unready"}
    /\ plan \in Plan
    /\ bound \in Bindings \cup {None}
    /\ grounded \subseteq Listings

\* While a key's row is kept, the work it stands for was committed at most
\* once, however many requests carry it, overlap, fail or crash
\* (claim_catalog_write_idempotency, _IDEMPOTENCY_RETENTION_DAYS).
AppliedOnce == \A i \in Ids : applied[i] <= 1

\* What a moderator took down stays down until an administrator reinstates
\* it: the merchant can neither publish, withdraw and publish, nor reinstate
\* its way around the hold, whatever was authorised before the suspension
\* (publish_listing, reinstate_listing: LISTINGS_GOVERNANCE_HOLD).
GroundedStaysDown == \A l \in grounded : rows[l].state # "ACTIVE"

\* A step that activates a listing, other than a publication by an
\* administrator or without an account, leaves the merchant within an active
\* plan (require_publication_capacity: same write transaction as the upsert).
WithinPlan ==
    [][(\E l \in Listings : rows[l].state # "ACTIVE" /\ rows'[l].state = "ACTIVE")
       => \/ account = "none"
          \/ \E k \in Keys \cup {None}, l \in Listings : Publish(Admin, k, l)
          \/ plan.status = "active" /\ Used' <= plan.limit]_vars

\* Known disagreements, see the README.  A failed request leaves its key
\* free for a retry; a stored answer promises nothing that is not done; a
\* listing that an administrator may have to release can be released.
FailedKeyIsFree ==
    [][\A c \in Requests : Fail(c) /\ IdOf(c) \in Ids => keys'[IdOf(c)] = Free]_vars
ReplayIsTruthful ==
    \A i \in Ids : keys[i] # Free /\ keys[i].says /\ ~InFlight(i) => applied[i] = 1
HeldIsReleasable ==
    \A l \in Listings : rows[l].hold = "governance" => rows[l].state = "SUSPENDED"
=============================================================================
