------------------------------ MODULE Accounts ------------------------------
(***************************************************************************)
(* A merchant's account: registration by e-mail, login, verification and   *)
(* reset codes, sessions (api/handlers/accounts.py, services/accounts.py)  *)
(* and the budgets their attempts are charged to (services/rate_limit.py). *)
(*                                                                         *)
(* One e-mail address: rows of others are never read with it.  A request   *)
(* charges its budget in a transaction of its own, reads before its first  *)
(* write and so outside the transaction, and writes under the lock to the  *)
(* commit.  A code or a password presented is right or not; a wrong one, a *)
(* late one and one that was replaced are refused alike.  Names, cookies   *)
(* and mails decide nothing here; of the budgets of one operation the one  *)
(* of the address is kept, the wider ones are the same counter under       *)
(* another key.                                                            *)
(***************************************************************************)
EXTENDS Naturals, FiniteSets

CONSTANTS
    Clients,        \* requests that may be in flight together
    Limit,          \* KIWI_CATALOG_LOGIN_RATE_LIMIT_PER_15MIN
    MaxWindow,      \* bound on the windows of a budget
    MaxRequests,    \* bound on the public requests made
    MaxOthers,      \* bound on those of sessions, connectors and commands
    MaxBegun        \* bound on both together

ASSUME AccountsAssumption ==
    /\ IsFiniteSet(Clients)
    /\ Limit \in Nat \ {0} /\ MaxWindow \in Nat
    /\ MaxRequests \in Nat /\ MaxOthers \in Nat /\ MaxBegun \in Nat

VARIABLES
    account,        \* the row of merchant_accounts
    pending,        \* the row of registration_verifications
    sessions,       \* account_sessions: how many opened under each password
    minted,         \* how many merchant ids were made
    window,         \* the window the clock is in
    spent,          \* merchant_application_limits
    attempts,       \* history: attempts judged, per budget and window
    begun,          \* how many requests were made
    calls           \* the requests in flight

vars == <<account, pending, sessions, minted, window, spent, attempts, begun, calls>>

Public == {"register-code", "register-verify", "register", "login", "verify-email",
           "resend-code", "forgot", "reset-password"}
Budgets == Public \cup {"token-request"}
Windows == 1..MaxWindow
Passwords == 1..(MaxRequests + 1)

\* An old account was registered before the ids were given out.
NoAccount == [exists |-> FALSE, old |-> FALSE, mid |-> 0, password |-> 0,
              verified |-> FALSE, code |-> FALSE, reset |-> FALSE, application |-> 0]
NoRow  == [exists |-> FALSE, code |-> FALSE, ticket |-> FALSE]
Code   == [exists |-> TRUE, code |-> TRUE, ticket |-> FALSE]
Ticket == [exists |-> TRUE, code |-> FALSE, ticket |-> TRUE]

\* What a request goes on with of the account it read.
Read    == [mid |-> account.mid, password |-> account.password, verified |-> account.verified]
Nothing == [mid |-> 0, password |-> 0, verified |-> FALSE]
Idle    == [at |-> "idle", op |-> "none", window |-> 0, seen |-> Nothing, item |-> 0]

Row(id, verified, reset, n) ==
    [exists |-> TRUE, old |-> id = 0, mid |-> id, password |-> 1, verified |-> verified,
     code |-> FALSE, reset |-> reset, application |-> n]

\* In the middle of a registration; or an account, which may have asked for a
\* reset, applied for a token, or been registered before the e-mail came first
\* (unverified) or before the ids.  The verified ones are logged in.
AccountsInit ==
    /\ \/ account = NoAccount /\ minted = 0
       \/ account = Row(0, TRUE, FALSE, 0) /\ minted = 0
       \/ account \in {Row(1, FALSE, FALSE, 0), Row(1, TRUE, FALSE, 0),
                       Row(1, TRUE, TRUE, 0), Row(1, TRUE, FALSE, 1)} /\ minted = 1
    /\ pending \in IF account.exists THEN {NoRow} ELSE {NoRow, Code, Ticket}
    /\ sessions = [v \in Passwords |-> IF v = 1 /\ account.verified THEN 1 ELSE 0]
    /\ window = 1
    /\ spent = [b \in Budgets |-> [w \in Windows |-> 0]]
    /\ attempts = [b \in Budgets |-> [w \in Windows |-> 0]]
    /\ begun = [public |-> 0, other |-> 0]
    /\ calls = [c \in Clients |-> Idle]

Account == [exists : BOOLEAN, old : BOOLEAN, mid : Nat, password : Nat, verified : BOOLEAN,
            code : BOOLEAN, reset : BOOLEAN, application : Nat]
Call == [at : {"idle", "charged", "admitted"},
         op : Public \cup {"token-request", "decide", "approve", "reject", "exchange", "none"},
         window : Nat, seen : [mid : Nat, password : Nat, verified : BOOLEAN], item : Nat]

AccountsTypeOK ==
    /\ account \in Account
    /\ pending \in [exists : BOOLEAN, code : BOOLEAN, ticket : BOOLEAN]
    /\ sessions \in [Passwords -> Nat]
    /\ minted \in Nat /\ window \in Nat
    /\ spent \in [Budgets -> [Windows -> Nat]]
    /\ attempts \in [Budgets -> [Windows -> Nat]]
    /\ begun \in [public : Nat, other : Nat]
    /\ calls \in [Clients -> Call]

LoggedIn == \E v \in DOMAIN sessions : sessions[v] > 0
Opened(v) == [sessions EXCEPT ![v] = @ + 1]

(***************************************************************************)
(* The budgets.                                                            *)
(***************************************************************************)
OldWindows(w)    == {v \in Windows : v + 1 < window /\ v # w}

\* The window is computed before the lock is waited for.
Timely(w) == w \in {window - 1, window} \cap Windows
Pruned(w) == [b \in Budgets |-> [v \in Windows |->
                 IF v \in OldWindows(w) THEN 0 ELSE spent[b][v]]]

Consume(b, w) ==
    /\ Timely(w)
    /\ spent[b][w] < Limit
    /\ spent' = [Pruned(w) EXCEPT ![b][w] = @ + 1]

Judged(c) == [attempts EXCEPT ![calls[c].op][calls[c].window] = @ + 1]

Tick ==
    /\ window < MaxWindow
    /\ window' = window + 1
    /\ UNCHANGED <<account, pending, sessions, minted, spent, attempts, begun, calls>>

(***************************************************************************)
(* The life of a request.                                                  *)
(***************************************************************************)
Enter(c, op, w, at, seen, item) ==
    /\ calls[c] = Idle
    /\ begun.public + begun.other < MaxBegun
    /\ IF op \in Public
       THEN begun.public < MaxRequests /\ begun' = [begun EXCEPT !.public = @ + 1]
       ELSE begun.other < MaxOthers /\ begun' = [begun EXCEPT !.other = @ + 1]
    /\ calls' = [calls EXCEPT ![c] = [at |-> at, op |-> op, window |-> w,
                                      seen |-> seen, item |-> item]]

\* Committed by itself; over the limit nothing is kept and the request ends.
Charge(c, op, w) ==
    /\ Consume(op, w)
    /\ Enter(c, op, w, "charged", Nothing, 0)
    /\ UNCHANGED <<account, pending, sessions, minted, window, attempts>>

\* What lets a request through, given the right code, ticket or password.
Admits(op) ==
    CASE op = "register-code"   -> ~account.exists
      [] op = "register-verify" -> pending.code
      [] op = "register"        -> TRUE
      [] op = "login"           -> account.exists /\ account.verified
      [] op = "verify-email"    -> account.exists /\ ~account.verified /\ account.code
      [] op = "resend-code"     -> account.exists /\ ~account.verified
      [] op = "forgot"          -> account.exists
      [] op = "reset-password"  -> account.exists /\ account.reset

Admit(c) ==
    /\ calls[c].at = "charged"
    /\ Admits(calls[c].op)
    /\ attempts' = Judged(c)
    /\ calls' = [calls EXCEPT ![c] = [at |-> "admitted", op |-> calls[c].op,
                                      window |-> calls[c].window, seen |-> Read, item |-> 0]]
    /\ UNCHANGED <<account, pending, sessions, minted, window, spent, begun>>

\* The count in the transaction of the request would go with it.
BugRefused(c) == [spent EXCEPT ![calls[c].op][calls[c].window] = @ - 1]
Refused(c)    == spent

Refuse(c) ==
    /\ calls[c].at = "charged"
    /\ spent' = Refused(c)
    /\ attempts' = Judged(c)
    /\ calls' = [calls EXCEPT ![c] = Idle]
    /\ UNCHANGED <<account, pending, sessions, minted, window, begun>>

\* A mail that is not sent, any other exception, the end of the process.
RollBack(c) ==
    /\ calls[c].at = "admitted"
    /\ calls' = [calls EXCEPT ![c] = Idle]
    /\ UNCHANGED <<account, pending, sessions, minted, window, spent, attempts, begun>>

Commit(c, op) ==
    /\ calls[c].at = "admitted"
    /\ calls[c].op = op
    /\ calls' = [calls EXCEPT ![c] = Idle]
    /\ UNCHANGED <<window, spent, attempts, begun>>

(***************************************************************************)
(* The writes.                                                             *)
(***************************************************************************)
\* A code sent again voids the ticket of the one before.
RegisterCode(c) ==
    /\ Commit(c, "register-code")
    /\ pending' = Code
    /\ UNCHANGED <<account, sessions, minted>>

\* The code was compared before the lock: the update looks at the address.
RegisterVerify(c) ==
    /\ Commit(c, "register-verify")
    /\ pending' = IF pending.exists THEN Ticket ELSE NoRow
    /\ UNCHANGED <<account, sessions, minted>>

\* The ticket is the condition of the first write.
Register(c) ==
    /\ Commit(c, "register")
    /\ pending.ticket
    /\ ~account.exists
    /\ pending' = NoRow
    /\ minted' = minted + 1
    /\ account' = Row(minted + 1, TRUE, FALSE, 0)
    /\ sessions' = Opened(1)

\* Under the password that was compared.
Login(c) ==
    /\ Commit(c, "login")
    /\ sessions' = Opened(calls[c].seen.password)
    /\ UNCHANGED <<account, pending, minted>>

VerifyEmail(c) ==
    /\ Commit(c, "verify-email")
    /\ account' = [account EXCEPT !.verified = TRUE, !.code = FALSE]
    /\ sessions' = Opened(calls[c].seen.password)
    /\ UNCHANGED <<pending, minted>>

ResendCode(c) ==
    /\ Commit(c, "resend-code")
    /\ account' = [account EXCEPT !.code = TRUE]
    /\ UNCHANGED <<pending, sessions, minted>>

Forgot(c) ==
    /\ Commit(c, "forgot")
    /\ account' = [account EXCEPT !.reset = TRUE]
    /\ UNCHANGED <<pending, sessions, minted>>

ResetPassword(c) ==
    /\ Commit(c, "reset-password")
    /\ account' = [account EXCEPT !.password = @ + 1, !.verified = TRUE, !.reset = FALSE]
    /\ sessions' = [v \in DOMAIN sessions |-> 0]
    /\ UNCHANGED <<pending, minted>>

\* Also the end of a session's seven days.
Logout ==
    \E v \in DOMAIN sessions :
        /\ sessions[v] > 0
        /\ sessions' = [sessions EXCEPT ![v] = @ - 1]
        /\ UNCHANGED <<account, pending, minted, window, spent, attempts, begun, calls>>

\* Everything but the registration, which also writes the merchant's token.
AccountsNext ==
    \/ Tick \/ Logout
    \/ \E c \in Clients :
        \/ \E op \in Public, w \in Windows : Charge(c, op, w)
        \/ Admit(c) \/ Refuse(c) \/ RollBack(c)
        \/ RegisterCode(c) \/ RegisterVerify(c) \/ Login(c) \/ VerifyEmail(c)
        \/ ResendCode(c) \/ Forgot(c) \/ ResetPassword(c)

(***************************************************************************)
(* Properties.                                                             *)
(***************************************************************************)
\* No more attempts at a code, a password or a registration are judged in a
\* window than its budget allows, although a failed attempt rolls its request
\* back and two requests may charge at once (the budget is committed first and
\* by itself, _enforce_persisted_rate_limit; a window in use is never pruned).
AttemptsBounded ==
    \A b \in Budgets, w \in Windows : attempts[b][w] <= Limit

\* "改密后所有会话失效" (reset_password): every session was opened under the
\* password in force.  It fails: a login that compared the old password before
\* the reset commits its session after it.
ResetEndsSessions ==
    \A v \in DOMAIN sessions : sessions[v] > 0 => v = account.password

\* "码当场作废（一次性）" (verify_registration_code): a code yields a ticket
\* once.  It fails: two requests compare the code before either erases it.
CodesAreOneTime ==
    [][\A c \in Clients : RegisterVerify(c) => pending.code]_vars
=============================================================================
