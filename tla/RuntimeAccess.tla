----------------------------- MODULE RuntimeAccess -----------------------------
(***************************************************************************)
(* The access configuration of one cloud agent: the share code a merchant  *)
(* leaves with the directory, so that buyers, the keepalive and the open   *)
(* inquiry can reach its runtime (services/runtime_access.py,              *)
(* services/runtime_keepalive.py, services/public_inquiry_consent.py, and  *)
(* the handlers that use them).  The binding underneath is known by its    *)
(* contract, which RuntimeBinding implements.                              *)
(*                                                                         *)
(* A PUT is two transactions with a challenge over the network in between. *)
(* Both read before their first write takes SQLite's write lock, and so do *)
(* the keepalive and the inquiry, which write little or nothing: each such *)
(* reading is a control point in calls.  A request may be refused, or fail,*)
(* at any of them.  Time is left out: an attempt after the cooldown is one *)
(* that may happen, an expired signature is a refusal.                     *)
(***************************************************************************)
EXTENDS Naturals, Sequences

CONSTANTS
    Calls,                   \* requests and wakes being served at once
    MaxBinding, MaxConfig    \* bounds of the runs

ASSUME BoundAssumption == MaxBinding \in Nat /\ MaxConfig \in Nat

VARIABLES
    issued, live,  \* runtime_bindings, as BindingContract has them
    admin,         \* catalog_agents.administrative_state = 'active'
    custody,       \* KIWI_CATALOG_ACCESS_CUSTODY_ENABLED of this process
    configs,       \* runtime_access_configs in the order of their version
    consent,       \* runtime_access_consents holds a live row
    linked,        \* access_config_version of the pending binding request
    keepalive,     \* runtime_keepalive_consents holds a live row
    inquiry,       \* binding that opted in to public inquiries, 0 for none
    calls,         \* what each request being served has read
    newest,        \* history: the newest version ever served
    withdrawn      \* history: the newest version of the last withdrawal

tables  == <<issued, live, admin, custody, configs, consent, linked, keepalive, inquiry>>
history == <<newest, withdrawn>>
vars    == <<tables, calls, history>>

Bindings == 1 .. MaxBinding
Versions == 1 .. MaxConfig
Config   == [status : {"pending", "active", "revoked", "invalid"}, secret : BOOLEAN]

Idle == [at |-> "idle"]
Call == {Idle}
    \cup [at : {"put", "candidate", "asking"}, binding : Bindings]
    \cup [at : {"challenge", "granted", "claimed", "sending", "forwarding"},
          binding : Bindings, version : Versions]
    \cup [at : {"failed"}, version : Versions]
    \cup [at : {"first", "withdrawing"}]

Init ==
    /\ issued = 0 /\ live = {}
    /\ admin = TRUE /\ custody \in BOOLEAN
    /\ configs = <<>> /\ consent = FALSE /\ linked = 0
    /\ keepalive = FALSE /\ inquiry = 0
    /\ calls = [c \in Calls |-> Idle]
    /\ newest = 0 /\ withdrawn = 0

HeadVersion == Len(configs)                                   \* _head_version
Active == {v \in DOMAIN configs : configs[v].status = "active"}
Served == IF Active = {} THEN 0 ELSE CHOOSE v \in Active : TRUE

(***************************************************************************)
(* The version state machine.                                              *)
(***************************************************************************)
Ended(config, status, ends) ==
    IF config.status = status THEN [config EXCEPT !.status = ends] ELSE config

BugStaged(cs) == Append(cs, [status |-> "pending", secret |-> TRUE])
Staged(cs) ==
    Append([v \in DOMAIN cs |-> Ended(cs[v], "pending", "invalid")],
           [status |-> "pending", secret |-> TRUE])

Activated(cs, v) ==
    [u \in DOMAIN cs |-> IF u = v THEN [cs[u] EXCEPT !.status = "active"]
                         ELSE Ended(cs[u], "active", "revoked")]

\* revoke_runtime_access and revoke_consent: nothing usable, nothing stored.
Withdrawal(cs) ==
    [v \in DOMAIN cs |->
        [status |-> Ended(Ended(cs[v], "pending", "invalid"), "active", "revoked").status,
         secret |-> FALSE]]

\* The checks of activate_runtime_access.
Activatable(v) == v \in DOMAIN configs /\ configs[v].status = "pending" /\ v = HeadVersion

Serve(cs, v) ==
    /\ configs' = Activated(cs, v)
    /\ consent' = TRUE
    /\ newest' = v

NextVersion    == HeadVersion + 1

Finish(c)     == calls' = [calls EXCEPT ![c] = Idle]
Proceed(c, s) == calls' = [calls EXCEPT ![c] = s]

(***************************************************************************)
(* Bindings.  Only what a binding brings along is told apart.              *)
(***************************************************************************)
Binding == INSTANCE BindingContract
    WITH MaxVersion <- MaxBinding, head <- issued, active <- live

Rebind ==
    /\ Binding!Supersede
    /\ UNCHANGED <<admin, custody, configs, consent, linked, keepalive, inquiry,
                   calls, history>>

Disconnect ==
    /\ Binding!Disconnect
    /\ UNCHANGED <<admin, custody, configs, consent, linked, keepalive, inquiry,
                   calls, history>>

\* An enrolment, or an administrator's first binding, with a configuration:
\* staged and activated in the transaction of the binding.
BindWithConfig ==
    /\ custody /\ HeadVersion < MaxConfig
    /\ Binding!Supersede
    /\ Serve(Staged(configs), NextVersion)
    /\ UNCHANGED <<admin, custody, linked, keepalive, inquiry, calls, withdrawn>>

\* A binding request (D1) with a configuration, and what becomes of both.
FirstReads(c) ==
    /\ calls[c] = Idle /\ live = {} /\ HeadVersion < MaxConfig
    /\ Proceed(c, [at |-> "first"])
    /\ UNCHANGED <<tables, history>>

RequestStages(c) ==
    /\ calls[c].at = "first" /\ custody /\ HeadVersion < MaxConfig
    /\ configs' = Staged(configs)
    /\ linked' = NextVersion
    /\ Finish(c)
    /\ UNCHANGED <<issued, live, admin, custody, consent, keepalive, inquiry, history>>

\* The binding counts even if its configuration can not be activated.
ConfirmLinked ==
    /\ linked # 0
    /\ Binding!Supersede
    /\ IF custody /\ Activatable(linked)
         THEN Serve(configs, linked)
         ELSE UNCHANGED <<configs, consent, newest>>
    /\ linked' = 0
    /\ UNCHANGED <<admin, custody, keepalive, inquiry, calls, withdrawn>>

Invalidated(v) == [configs EXCEPT ![v] = Ended(@, "pending", "invalid")]

RejectLinked ==
    /\ linked # 0
    /\ configs' = Invalidated(linked)
    /\ linked' = 0
    /\ UNCHANGED <<issued, live, admin, custody, consent, keepalive, inquiry,
                   calls, history>>

\* An expired or superseded request leaves its configuration pending.
LapseLinked ==
    /\ linked # 0
    /\ linked' = 0
    /\ UNCHANGED <<issued, live, admin, custody, configs, consent, keepalive,
                   inquiry, calls, history>>

(***************************************************************************)
(* PUT runtime-access with a share code.                                   *)
(***************************************************************************)
PutReads(c) ==
    /\ calls[c] = Idle /\ admin
    /\ \E b \in live : Proceed(c, [at |-> "put", binding |-> b])
    /\ UNCHANGED <<tables, history>>

\* The nonce has taken the lock; expected_version, an input, must be the head.
Stage(c) ==
    /\ calls[c].at = "put" /\ custody /\ HeadVersion < MaxConfig
    /\ configs' = Staged(configs)
    /\ Proceed(c, [at |-> "challenge", binding |-> calls[c].binding, version |-> NextVersion])
    /\ UNCHANGED <<issued, live, admin, custody, consent, linked, keepalive,
                   inquiry, history>>

\* The challenge has failed, or the checks of the second transaction do.
Fail(c) ==
    /\ calls[c].at \in {"challenge", "granted"}
    /\ Proceed(c, [at |-> "failed", version |-> calls[c].version])
    /\ UNCHANGED <<tables, history>>

\* It has passed; the second transaction reads everything again.
Recheck(c) ==
    /\ calls[c].at = "challenge"
    /\ admin /\ live = {calls[c].binding}
    /\ custody /\ Activatable(calls[c].version)
    /\ Proceed(c, [calls[c] EXCEPT !.at = "granted"])
    /\ UNCHANGED <<tables, history>>

\* The UPDATE counts its rows: the version must still be pending.
BugStillPending(v) == v \in DOMAIN configs
StillPending(v)    == v \in DOMAIN configs /\ configs[v].status = "pending"

Activate(c) ==
    /\ calls[c].at = "granted"
    /\ StillPending(calls[c].version)
    /\ Serve(configs, calls[c].version)
    /\ Finish(c)
    /\ UNCHANGED <<issued, live, admin, custody, linked, keepalive, inquiry, withdrawn>>

\* _invalidate_staged_best_effort, in a transaction of its own.
Invalidate(c) ==
    /\ calls[c].at = "failed"
    /\ configs' = Invalidated(calls[c].version)
    /\ Finish(c)
    /\ UNCHANGED <<issued, live, admin, custody, consent, linked, keepalive,
                   inquiry, history>>

(***************************************************************************)
(* PUT runtime-access with access_mode none.                               *)
(***************************************************************************)
WithdrawReads(c) ==
    /\ calls[c] = Idle /\ admin /\ live # {} /\ Active # {}
    /\ Proceed(c, [at |-> "withdrawing"])
    /\ UNCHANGED <<tables, history>>

Withdraw(c) ==
    /\ calls[c].at = "withdrawing"
    /\ configs' = Withdrawal(configs)
    /\ consent' = FALSE
    /\ withdrawn' = HeadVersion
    /\ Finish(c)
    /\ UNCHANGED <<issued, live, admin, custody, linked, keepalive, inquiry, newest>>

(***************************************************************************)
(* Keepalive.  A tick captures the binding's origin and the active share   *)
(* code, claims the attempt, and looks once more before it sends them.     *)
(***************************************************************************)
Custodied == custody /\ consent /\ Active # {}

KeepaliveGrant ==
    /\ admin /\ Custodied /\ live # {}
    /\ keepalive' = TRUE
    /\ UNCHANGED <<issued, live, admin, custody, configs, consent, linked,
                   inquiry, calls, history>>

KeepaliveRevoke ==
    /\ admin /\ keepalive
    /\ keepalive' = FALSE
    /\ UNCHANGED <<issued, live, admin, custody, configs, consent, linked,
                   inquiry, calls, history>>

KeepaliveEnabled == keepalive /\ Custodied /\ admin /\ live # {}

Candidate(c) ==
    /\ calls[c] = Idle /\ KeepaliveEnabled
    /\ \E b \in live : Proceed(c, [at |-> "candidate", binding |-> b])
    /\ UNCHANGED <<tables, history>>

Claim(c) ==
    /\ calls[c].at = "candidate" /\ keepalive /\ Active # {}
    /\ configs[Served].secret
    /\ Proceed(c, [at |-> "claimed", binding |-> calls[c].binding, version |-> Served])
    /\ UNCHANGED <<tables, history>>

Wake(c) ==
    /\ calls[c].at = "claimed" /\ KeepaliveEnabled
    /\ Proceed(c, [calls[c] EXCEPT !.at = "sending"])
    /\ UNCHANGED <<tables, history>>

(***************************************************************************)
(* Public inquiries: the binding that signs opts in for itself.            *)
(***************************************************************************)
OptIn ==
    /\ custody /\ admin /\ consent /\ Active # {}
    /\ \E b \in live : inquiry' = b
    /\ UNCHANGED <<issued, live, admin, custody, configs, consent, linked,
                   keepalive, calls, history>>

OptOut ==
    /\ inquiry \in live
    /\ inquiry' = 0
    /\ UNCHANGED <<issued, live, admin, custody, configs, consent, linked,
                   keepalive, calls, history>>

InquiryEnabled == inquiry \in live /\ admin /\ Custodied

Ask(c) ==
    /\ calls[c] = Idle /\ InquiryEnabled
    /\ Proceed(c, [at |-> "asking", binding |-> inquiry])
    /\ UNCHANGED <<tables, history>>

\* forward reads the current binding and configuration for itself.
Forward(c) ==
    /\ calls[c].at = "asking" /\ Active # {}
    /\ configs[Served].secret
    /\ \E b \in live :
          Proceed(c, [at |-> "forwarding", binding |-> b, version |-> Served])
    /\ UNCHANGED <<tables, history>>

(***************************************************************************)
(* Refusals, the operator and restarts.                                    *)
(***************************************************************************)
End(c) ==
    /\ calls[c] # Idle
    /\ Finish(c)
    /\ UNCHANGED <<tables, history>>

Moderate ==
    /\ admin' = ~admin
    /\ UNCHANGED <<issued, live, custody, configs, consent, linked, keepalive,
                   inquiry, calls, history>>

\* The switch is in the environment: it changes with the process, and
\* whatever was being served is lost.
Restart ==
    /\ custody' \in BOOLEAN
    /\ calls' = [c \in Calls |-> Idle]
    /\ UNCHANGED <<issued, live, admin, configs, consent, linked, keepalive,
                   inquiry, history>>

Next ==
    \/ Rebind \/ Disconnect \/ BindWithConfig
    \/ ConfirmLinked \/ RejectLinked \/ LapseLinked
    \/ KeepaliveGrant \/ KeepaliveRevoke \/ OptIn \/ OptOut
    \/ Moderate \/ Restart
    \/ \E c \in Calls :
          \/ FirstReads(c) \/ RequestStages(c)
          \/ PutReads(c) \/ Stage(c) \/ Recheck(c) \/ Fail(c)
          \/ Activate(c) \/ Invalidate(c)
          \/ WithdrawReads(c) \/ Withdraw(c)
          \/ Candidate(c) \/ Claim(c) \/ Wake(c)
          \/ Ask(c) \/ Forward(c)
          \/ End(c)

Spec == Init /\ [][Next]_vars

(***************************************************************************)
(* Properties.                                                             *)
(***************************************************************************)
\* Rows, requests and histories are of their kind.
TypeOK ==
    /\ issued \in 0 .. MaxBinding /\ live \in SUBSET (1 .. issued)
    /\ admin \in BOOLEAN /\ custody \in BOOLEAN
    /\ configs \in Seq(Config) /\ Len(configs) <= MaxConfig
    /\ consent \in BOOLEAN /\ linked \in 0 .. Len(configs)
    /\ keepalive \in BOOLEAN /\ inquiry \in 0 .. MaxBinding
    /\ calls \in [Calls -> Call]
    /\ newest \in 0 .. Len(configs) /\ withdrawn \in 0 .. Len(configs)

\* The directory serves a share code only while the merchant's consent
\* stands, and has none left of what was withdrawn: a PUT in flight during the
\* withdrawal brings nothing back (revoke_consent: not a mere change of status).
CustodyEndsWithConsent ==
    /\ \A v \in Active : consent /\ configs[v].secret
    /\ \A v \in 1 .. withdrawn :
          configs[v].status \in {"revoked", "invalid"} /\ ~configs[v].secret

\* What comes into service is newer than anything served or withdrawn before,
\* and at most one version is in service, however PUTs, withdrawals and
\* confirmations overlap (activate_runtime_access: "only the latest").
ServedMovesOn ==
    [][/\ \A u, v \in Active' : u = v
       /\ Served' \in {Served, 0} \/ (Served' > newest /\ Served' > withdrawn)]_vars

\* A wake goes to the runtime that is bound, with the share code that is in
\* service (enabled: "Fail closed on missing/old/revoked consent,
\* custody/config/binding changes").  It fails: what is sent was captured by
\* the tick.
WakeIsCurrent ==
    [][\A c \in Calls : calls[c].at = "claimed" /\ calls'[c].at = "sending" =>
          calls[c].binding \in live /\ calls[c].version \in Active]_vars

\* An inquiry is forwarded to the binding that opted in (forward: "the
\* current explicitly opted-in binding").  It fails: the binding is read again.
ForwardIsOptedIn ==
    [][\A c \in Calls : calls'[c].at = "forwarding" => calls'[c].binding = inquiry]_vars
=============================================================================
