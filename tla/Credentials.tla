---------------------------- MODULE Credentials ----------------------------
(***************************************************************************)
(* What a merchant's account is granted: the merchant token and the        *)
(* applications for it (services/merchant_tokens.py, decided at the        *)
(* command line) and the identity a connector exchanges once               *)
(* (services/connector_identity.py), over the sessions of Accounts.        *)
(*                                                                         *)
(* One connector request.  Expiry refuses like a wrong code does, so a     *)
(* request that is refused may be a late one.                              *)
(***************************************************************************)
EXTENDS Accounts, Sequences

VARIABLES
    tokens,         \* merchant_tokens: the status under each merchant id
    applications,   \* merchant_applications, numbered from one
    identity,       \* the row of connector_identity_requests
    granted         \* connector_merchant_tokens of that request

granting == <<tokens, applications, identity, granted>>
allVars  == <<vars, granting>>

NoGrant == [issued |-> 0, live |-> 0, mid |-> 0]

\* Registration leaves a revoked token without a hash; old accounts have none.
\* An application may wait or have been approved, and the token revoked since;
\* the merchant may have said yes to the connector.
Init ==
    /\ AccountsInit
    /\ granted = NoGrant
    /\ \/ /\ account.application = 0
          /\ tokens = [m \in {account.mid} \ {0} |-> "revoked"]
          /\ applications = <<>>
          /\ identity = [status |-> "none", mid |-> 0]
       \/ /\ account.application = 1
          /\ tokens = [m \in {1} |-> "revoked"]
          /\ \/ /\ applications = <<[status |-> "pending", mid |-> 0]>>
                /\ identity = [status |-> "none", mid |-> 0]
             \/ /\ applications = <<[status |-> "approved", mid |-> 1]>>
                /\ identity = [status |-> "approved", mid |-> 1]

WithToken(m, status) ==
    [x \in DOMAIN tokens \cup {m} |-> IF x = m THEN status ELSE tokens[x]]

RegisterAndSeed(c) ==
    /\ Register(c)
    /\ tokens' = WithToken(minted + 1, "revoked")
    /\ UNCHANGED <<applications, identity, granted>>

(***************************************************************************)
(* Requests of a session.                                                  *)
(***************************************************************************)
\* Session, account and the number of its application are read before the lock.
SessionBegin(c, op) ==
    /\ op \in {"token-request", "decide"}
    /\ LoggedIn
    /\ Enter(c, op, 0, "admitted", Read, account.application)
    /\ UNCHANGED <<account, pending, sessions, minted, window, spent, attempts, granting>>

\* The id a request goes on with: the one it read, or one it makes.
IdOf(c) == IF calls[c].seen.mid # 0 THEN calls[c].seen.mid ELSE minted + 1

\* It is written where there still is none.
EnsureId(c, row) ==
    /\ minted' = IF calls[c].seen.mid = 0 THEN minted + 1 ELSE minted
    /\ account' = IF account.mid = 0 THEN [row EXCEPT !.mid = IdOf(c)] ELSE row

Reaches(c, op) ==
    /\ calls[c].at = "admitted" /\ calls[c].op = op
    /\ calls' = [calls EXCEPT ![c] = Idle]

HasActiveToken(m) == m \in DOMAIN tokens /\ tokens[m] = "active"
AwaitsReview(n)   == n \in DOMAIN applications /\ applications[n].status = "pending"

Apply(c) ==
    IF HasActiveToken(IdOf(c)) \/ AwaitsReview(calls[c].item)
    THEN /\ EnsureId(c, account)
         /\ UNCHANGED applications
    ELSE /\ EnsureId(c, [account EXCEPT !.application = Len(applications) + 1])
         /\ applications' = Append(applications, [status |-> "pending", mid |-> 0])

\* The charge shares the transaction, which is committed whatever happens.
RequestToken(c) ==
    /\ Reaches(c, "token-request")
    /\ \E w \in Windows :
        \/ /\ Consume("token-request", w)
           /\ attempts' = [attempts EXCEPT !["token-request"][w] = @ + 1]
           /\ Apply(c)
        \/ /\ Timely(w) /\ spent["token-request"][w] >= Limit
           /\ spent' = Pruned(w)
           /\ EnsureId(c, account)
           /\ UNCHANGED <<attempts, applications>>
    /\ UNCHANGED <<pending, sessions, window, begun, tokens, identity, granted>>

\* The merchant's yes or no to the connector, under the lock of its session.
Decide(c, yes) ==
    /\ Reaches(c, "decide")
    /\ EnsureId(c, account)
    /\ identity.status = "pending"
    /\ yes => calls[c].seen.verified
    /\ identity' = IF yes THEN [status |-> "approved", mid |-> IdOf(c)]
                          ELSE [identity EXCEPT !.status = "denied"]
    /\ UNCHANGED <<pending, sessions, window, spent, attempts, begun, tokens,
                   applications, granted>>

(***************************************************************************)
(* The administrator's commands.                                           *)
(***************************************************************************)
\* Application and account are read before the lock.
ReviewBegin(c, op, n) ==
    /\ op \in {"approve", "reject"}
    /\ AwaitsReview(n)
    /\ Enter(c, op, 0, "admitted", Read, n)
    /\ UNCHANGED <<account, pending, sessions, minted, window, spent, attempts, granting>>

\* An account keeps the id it has.
BugApprovedId(c) == minted + 1
ApprovedId(c)    == IdOf(c)

Approve(c) ==
    /\ Reaches(c, "approve")
    /\ minted' = IF ApprovedId(c) > minted THEN minted + 1 ELSE minted
    /\ tokens' = WithToken(ApprovedId(c), "active")
    /\ applications' = [applications EXCEPT ![calls[c].item] =
                            [status |-> "approved", mid |-> ApprovedId(c)]]
    /\ account' = [account EXCEPT !.mid = ApprovedId(c)]
    /\ UNCHANGED <<pending, sessions, window, spent, attempts, begun, identity, granted>>

Reject(c) ==
    /\ Reaches(c, "reject")
    /\ applications' = [applications EXCEPT ![calls[c].item].status = "rejected"]
    /\ UNCHANGED <<account, pending, sessions, minted, window, spent, attempts, begun,
                   tokens, identity, granted>>

SetToken(status) ==
    \E m \in DOMAIN tokens :
        /\ tokens' = [tokens EXCEPT ![m] = status]
        /\ UNCHANGED <<vars, applications, identity, granted>>

Rotate == SetToken("active")
Revoke == SetToken("revoked")

\* A token for every merchant that has no row.
Backfill ==
    /\ ~(1..minted \subseteq DOMAIN tokens)
    /\ tokens' = [m \in DOMAIN tokens \cup 1..minted |->
                     IF m \in DOMAIN tokens THEN tokens[m] ELSE "active"]
    /\ UNCHANGED <<vars, applications, identity, granted>>

(***************************************************************************)
(* The connector.                                                          *)
(***************************************************************************)
CreateIdentity ==
    /\ identity.status = "none"
    /\ identity' = [identity EXCEPT !.status = "pending"]
    /\ UNCHANGED <<vars, tokens, applications, granted>>

\* Status and code are read before the lock where exchanges have no budget
\* (KIWI_CATALOG_CONNECTOR_EXCHANGE_RATE_LIMIT_PER_15MIN = 0), and under it
\* where the charge, kept only by a success, took it: one of these behaviours.
ExchangeBegin(c) ==
    /\ identity.status = "approved"
    /\ Enter(c, "exchange", 0, "admitted", Nothing, 0)
    /\ UNCHANGED <<account, pending, sessions, minted, window, spent, attempts, granting>>

BugUnspent == TRUE
Unspent    == identity.status = "approved"

Exchange(c) ==
    /\ Reaches(c, "exchange")
    /\ Unspent
    /\ identity' = [identity EXCEPT !.status = "consumed"]
    /\ granted' = [issued |-> granted.issued + 1, live |-> granted.live + 1,
                   mid |-> identity.mid]
    /\ UNCHANGED <<account, pending, sessions, minted, window, spent, attempts, begun,
                   tokens, applications>>

Disconnect ==
    /\ granted.live > 0
    /\ granted' = [granted EXCEPT !.live = @ - 1]
    /\ UNCHANGED <<vars, tokens, applications, identity>>

Next ==
    \/ AccountsNext /\ UNCHANGED granting
    \/ Rotate \/ Revoke \/ Backfill \/ CreateIdentity \/ Disconnect
    \/ \E c \in Clients :
        \/ RegisterAndSeed(c) \/ RequestToken(c) \/ Approve(c) \/ Reject(c)
        \/ ExchangeBegin(c) \/ Exchange(c)
        \/ \E yes \in BOOLEAN : Decide(c, yes)
        \/ \E op \in {"token-request", "decide"} : SessionBegin(c, op)
        \/ \E op \in {"approve", "reject"}, n \in DOMAIN applications : ReviewBegin(c, op, n)

Spec == Init /\ [][Next]_allVars

Application == [status : {"pending", "approved", "rejected"}, mid : Nat]

TypeOK ==
    /\ AccountsTypeOK
    /\ DOMAIN tokens \subseteq Nat
    /\ tokens \in [DOMAIN tokens -> {"active", "revoked"}]
    /\ applications \in Seq(Application)
    /\ identity \in [status : {"none", "pending", "approved", "denied", "consumed"}, mid : Nat]
    /\ granted \in [issued : Nat, live : Nat, mid : Nat]

(***************************************************************************)
(* Properties.                                                             *)
(***************************************************************************)
\* A merchant has one identity for life: the token, every approved
\* application, the connector's approval and its credential are under the id
\* the account was registered with, through any revocation, new application
\* and approval (approve_application, BUG-09), and it never is without a token
\* row, so that no token is derived for it (register_account, C-H2).
OneIdentity ==
    account.exists /\ ~account.old =>
        /\ DOMAIN tokens = {account.mid}
        /\ \A n \in DOMAIN applications : applications[n].mid \in {0, account.mid}
        /\ identity.mid \in {0, account.mid}
        /\ granted.mid \in {0, account.mid}

\* A merchant's yes to a connector is worth one credential, and a no none,
\* whatever number of exchanges are under way (exchange: the conditional
\* update).
GrantedOnce ==
    granted.issued = IF identity.status = "consumed" THEN 1 ELSE 0

\* "已有 id 直接返回，绝不重复分配" (ensure_merchant_id), for old accounts too.
\* It fails: two requests read that there is no id, and the second goes on with
\* one that is not the account's.
NeverSecondId ==
    account.exists => minted <= 1

\* "已有 pending 工单 → 提示等待" (request_token): one application waits at a
\* time.  It fails: the number of the application is read before the lock.
OnePendingApplication ==
    \A m, n \in DOMAIN applications : AwaitsReview(m) /\ AwaitsReview(n) => m = n

\* "重复 approve → 409", "仅 pending 可拒" (approve_application,
\* reject_application).  It fails: the status is read before the lock.
DecidedOnce ==
    [][\A n \in DOMAIN applications :
          applications[n].status # "pending" => applications'[n] = applications[n]]_allVars
=============================================================================
