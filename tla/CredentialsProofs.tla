------------------------- MODULE CredentialsProofs -------------------------
(***************************************************************************)
(* Proofs about Credentials and the accounts under it, for any limit and   *)
(* any number of windows, requests and clients.                            *)
(***************************************************************************)
EXTENDS Credentials, FiniteSetTheorems, SequenceTheorems, TLAPS

(***************************************************************************)
(* Types.                                                                  *)
(***************************************************************************)
LEMMA InitTypes == Init => TypeOK
<1> SUFFICES ASSUME Init PROVE TypeOK
  OBVIOUS
<1>1. AccountsTypeOK
  <2>1. /\ NoAccount \in Account
        /\ \A id, n \in Nat, verified, reset \in BOOLEAN : Row(id, verified, reset, n) \in Account
    BY DEF NoAccount, Account, Row
  <2>2. account \in Account /\ minted \in Nat
    <3>1. \/ account = NoAccount
          \/ \E id, n \in {0, 1}, verified, reset \in BOOLEAN : account = Row(id, verified, reset, n)
      BY DEF Init, AccountsInit
    <3>2. minted \in {0, 1}
      BY DEF Init, AccountsInit
    <3> QED
      BY <2>1, <3>1, <3>2
  <2>3. pending \in [exists : BOOLEAN, code : BOOLEAN, ticket : BOOLEAN]
    <3>1. pending \in {NoRow, Code, Ticket}
      BY DEF Init, AccountsInit
    <3>2. /\ NoRow \in [exists : BOOLEAN, code : BOOLEAN, ticket : BOOLEAN]
          /\ Code \in [exists : BOOLEAN, code : BOOLEAN, ticket : BOOLEAN]
          /\ Ticket \in [exists : BOOLEAN, code : BOOLEAN, ticket : BOOLEAN]
      BY DEF NoRow, Code, Ticket
    <3> QED
      BY <3>1, <3>2
  <2>4. calls \in [Clients -> Call]
    BY DEF Init, AccountsInit, Idle, Nothing, Call
  <2>5. sessions \in [Passwords -> Nat]
    BY DEF Init, AccountsInit
  <2>6. begun \in [public : Nat, other : Nat] /\ window \in Nat
    BY DEF Init, AccountsInit
  <2>7. spent \in [Budgets -> [Windows -> Nat]] /\ attempts \in [Budgets -> [Windows -> Nat]]
    BY DEF Init, AccountsInit
  <2> QED
    BY <2>2, <2>3, <2>4, <2>5, <2>6, <2>7 DEF AccountsTypeOK
<1>2. account.mid \in Nat
  BY <1>1 DEF AccountsTypeOK, Account
<1>3. DOMAIN tokens \subseteq Nat /\ tokens \in [DOMAIN tokens -> {"active", "revoked"}]
  <2>1. \E D \in SUBSET Nat : tokens = [m \in D |-> "revoked"]
    BY <1>2 DEF Init
  <2> QED
    BY <2>1
<1>4. applications \in Seq(Application)
  <2>1. \A s \in {"pending", "approved"}, m \in Nat : <<[status |-> s, mid |-> m]>> \in Seq(Application)
    BY DEF Application
  <2>2. \/ applications = <<>>
        \/ applications = <<[status |-> "pending", mid |-> 0]>>
        \/ applications = <<[status |-> "approved", mid |-> 1]>>
    BY DEF Init
  <2>3. <<>> \in Seq(Application)
    OBVIOUS
  <2> QED
    BY <2>1, <2>2, <2>3
<1>5. identity \in [status : {"none", "pending", "approved", "denied", "consumed"}, mid : Nat]
  BY DEF Init
<1>6. granted \in [issued : Nat, live : Nat, mid : Nat]
  BY DEF Init, NoGrant
<1> QED
  BY <1>1, <1>3, <1>4, <1>5, <1>6 DEF TypeOK

Operations == Public \cup {"token-request", "decide", "approve", "reject", "exchange"}

LEMMA ReadType == ASSUME AccountsTypeOK PROVE Read \in [mid : Nat, password : Nat, verified : BOOLEAN]
  BY DEF AccountsTypeOK, Account, Read

LEMMA EnterTypes ==
    ASSUME AccountsTypeOK, NEW c \in Clients, NEW op \in Operations, NEW w \in Nat,
           NEW at \in {"charged", "admitted"}, NEW n \in Nat,
           NEW seen \in [mid : Nat, password : Nat, verified : BOOLEAN],
           Enter(c, op, w, at, seen, n)
    PROVE  /\ begun' \in [public : Nat, other : Nat]
           /\ calls' \in [Clients -> Call]
<1>1. begun' \in [public : Nat, other : Nat]
  BY DEF Enter, AccountsTypeOK
<1>2. [at |-> at, op |-> op, window |-> w, seen |-> seen, item |-> n] \in Call
  BY DEF Call, Operations
<1> QED
  BY <1>1, <1>2 DEF Enter, AccountsTypeOK

LEMMA EndTypes ==
    ASSUME AccountsTypeOK, NEW c \in Clients, calls' = [calls EXCEPT ![c] = Idle]
    PROVE  calls' \in [Clients -> Call]
<1>1. Idle \in Call
  BY DEF Idle, Nothing, Call
<1> QED
  BY <1>1 DEF AccountsTypeOK

LEMMA ConsumeTypes ==
    ASSUME AccountsTypeOK, NEW b \in Budgets, NEW w \in Windows
    PROVE  /\ Pruned(w) \in [Budgets -> [Windows -> Nat]]
           /\ Consume(b, w) => spent' \in [Budgets -> [Windows -> Nat]]
<1>1. Pruned(w) \in [Budgets -> [Windows -> Nat]]
  BY DEF AccountsTypeOK, Pruned
<1>2. ASSUME Consume(b, w) PROVE spent' \in [Budgets -> [Windows -> Nat]]
  <2>1. spent' = [Pruned(w) EXCEPT ![b] = [Pruned(w)[b] EXCEPT ![w] = Pruned(w)[b][w] + 1]]
    BY <1>2 DEF Consume
  <2> QED
    BY <1>1, <2>1
<1> QED
  BY <1>1, <1>2

\* What each action changes has its type.
LEMMA AccountsTypes ==
    ASSUME TypeOK, AccountsNext
    PROVE  AccountsTypeOK'
<1> USE AccountsAssumption DEF TypeOK
<1>1. CASE Tick
  <2>1. /\ window' = window + 1
        /\ UNCHANGED <<account, pending, sessions, minted, spent, attempts, begun, calls>>
    BY <1>1 DEF Tick
  <2>2. window' \in Nat
    BY <2>1 DEF AccountsTypeOK
  <2> QED
    BY <2>1, <2>2 DEF AccountsTypeOK
<1>2. CASE Logout
  <2>1. PICK v \in DOMAIN sessions :
          /\ sessions[v] > 0
          /\ sessions' = [sessions EXCEPT ![v] = sessions[v] - 1]
          /\ UNCHANGED <<account, pending, minted, window, spent, attempts, begun, calls>>
    BY <1>2 DEF Logout
  <2>2. sessions \in [Passwords -> Nat] /\ v \in Passwords
    BY <2>1 DEF AccountsTypeOK
  <2>3. sessions[v] - 1 \in Nat
    BY <2>1, <2>2
  <2>4. sessions' \in [Passwords -> Nat]
    BY <2>1, <2>2, <2>3
  <2> QED
    BY <2>1, <2>4 DEF AccountsTypeOK
<1>3. ASSUME NEW c \in Clients, NEW op \in Public, NEW w \in Windows, Charge(c, op, w)
      PROVE  AccountsTypeOK'
  <2>1. spent' \in [Budgets -> [Windows -> Nat]]
    BY <1>3, ConsumeTypes DEF Charge, Budgets
  <2>2. Nothing \in [mid : Nat, password : Nat, verified : BOOLEAN] /\ w \in Nat
    BY DEF Nothing, Windows
  <2>3. begun' \in [public : Nat, other : Nat] /\ calls' \in [Clients -> Call]
    BY <1>3, <2>2, EnterTypes DEF Charge, Operations
  <2> QED
    BY <1>3, <2>1, <2>3 DEF Charge, AccountsTypeOK
<1>4. ASSUME NEW c \in Clients, calls[c].at = "charged",
             calls[c].at = "charged" => Judged(c) \in [Budgets -> [Windows -> Nat]],
             Admit(c) \/ Refuse(c)
      PROVE  AccountsTypeOK'
  <2>1. CASE Admit(c)
    <3>1. [at |-> "admitted", op |-> calls[c].op, window |-> calls[c].window,
           seen |-> Read, item |-> 0] \in Call
      BY ReadType DEF AccountsTypeOK, Call
    <3> QED
      BY <1>4, <2>1, <3>1 DEF Admit, AccountsTypeOK
  <2>2. CASE Refuse(c)
    BY <1>4, <2>2, EndTypes DEF Refuse, Refused, AccountsTypeOK
  <2> QED
    BY <1>4, <2>1, <2>2
<1>5. ASSUME NEW c \in Clients PROVE Judged(c) \in [Budgets -> [Windows -> Nat]]
  <2>1. attempts \in [Budgets -> [Windows -> Nat]]
    BY DEF AccountsTypeOK
  <2> DEFINE b == calls[c].op  w == calls[c].window
  <2>2. Judged(c) = [attempts EXCEPT ![b] = [attempts[b] EXCEPT ![w] = attempts[b][w] + 1]]
    BY DEF Judged
  <2>3. CASE b \in Budgets /\ w \in Windows
    <3> DEFINE f == [attempts[b] EXCEPT ![w] = attempts[b][w] + 1]
    <3>1. f \in [Windows -> Nat]
      <4> HIDE DEF b, w
      <4>1. attempts[b] \in [Windows -> Nat] /\ attempts[b][w] + 1 \in Nat
        BY <2>1, <2>3
      <4> QED
        BY <4>1
    <3>2. [attempts EXCEPT ![b] = f] \in [Budgets -> [Windows -> Nat]]
      <4> HIDE DEF b, f
      <4> QED
        BY <2>1, <3>1
    <3> QED
      BY <2>2, <3>2
  <2>4. CASE b \in Budgets /\ w \notin Windows
    <3> DEFINE f == attempts[b]
    <3>1. f \in [Windows -> Nat]
      BY <2>1, <2>4
    <3>2. [f EXCEPT ![w] = attempts[b][w] + 1] = f
      <4> HIDE DEF f, w
      <4> QED
        BY <3>1, <2>4
    <3>3. [attempts EXCEPT ![b] = f] = attempts
      <4> HIDE DEF b
      <4>1. [attempts EXCEPT ![b] = attempts[b]] = attempts
        BY <2>1, <2>4
      <4> QED
        BY <4>1
    <3> QED
      BY <2>1, <2>2, <3>2, <3>3
  <2>5. CASE b \notin Budgets
    BY <2>1, <2>2, <2>5
  <2> QED
    BY <2>3, <2>4, <2>5
<1>6. ASSUME NEW c \in Clients, RollBack(c) PROVE AccountsTypeOK'
  BY <1>6, EndTypes DEF RollBack, AccountsTypeOK
<1>7. ASSUME NEW c \in Clients,
             RegisterCode(c) \/ RegisterVerify(c) \/ Login(c) \/ VerifyEmail(c)
             \/ ResendCode(c) \/ Forgot(c) \/ ResetPassword(c)
      PROVE  AccountsTypeOK'
  <2>1. calls' \in [Clients -> Call] /\ UNCHANGED <<window, spent, attempts, begun>>
    BY <1>7, EndTypes DEF Commit, RegisterCode, RegisterVerify, Login, VerifyEmail, ResendCode,
       Forgot, ResetPassword
  <2>2. UNCHANGED minted
    BY <1>7 DEF RegisterCode, RegisterVerify, Login, VerifyEmail, ResendCode, Forgot, ResetPassword
  <2>3. account' \in Account
    <3>1. CASE UNCHANGED account
      BY <3>1 DEF AccountsTypeOK
    <3>2. CASE VerifyEmail(c) \/ ResendCode(c) \/ Forgot(c) \/ ResetPassword(c)
      <4>1. account \in Account
        BY DEF AccountsTypeOK
      <4>2. CASE VerifyEmail(c)
        BY <4>1, <4>2 DEF VerifyEmail, Account
      <4>3. CASE ResendCode(c)
        BY <4>1, <4>3 DEF ResendCode, Account
      <4>4. CASE Forgot(c)
        BY <4>1, <4>4 DEF Forgot, Account
      <4>5. CASE ResetPassword(c)
        <5>1. account.password + 1 \in Nat
          BY <4>1 DEF Account
        <5>2. account' = [account EXCEPT !.password = account.password + 1, !.verified = TRUE,
                                         !.reset = FALSE]
          BY <4>5 DEF ResetPassword
        <5> QED
          BY <4>1, <5>1, <5>2 DEF Account
      <4> QED
        BY <3>2, <4>2, <4>3, <4>4, <4>5
    <3> QED
      BY <1>7, <3>1, <3>2 DEF RegisterCode, RegisterVerify, Login
  <2>5. pending' \in [exists : BOOLEAN, code : BOOLEAN, ticket : BOOLEAN]
    <3>1. pending' \in {pending, NoRow, Code, Ticket}
      BY <1>7 DEF RegisterCode, RegisterVerify, Login, VerifyEmail, ResendCode, Forgot, ResetPassword
    <3>2. /\ NoRow \in [exists : BOOLEAN, code : BOOLEAN, ticket : BOOLEAN]
          /\ Code \in [exists : BOOLEAN, code : BOOLEAN, ticket : BOOLEAN]
          /\ Ticket \in [exists : BOOLEAN, code : BOOLEAN, ticket : BOOLEAN]
      BY DEF NoRow, Code, Ticket
    <3> QED
      BY <3>1, <3>2 DEF AccountsTypeOK
  <2>4. sessions' \in [Passwords -> Nat]
    <3>1. sessions \in [Passwords -> Nat]
      BY DEF AccountsTypeOK
    <3>2. \A v : Opened(v) \in [Passwords -> Nat]
      <4> SUFFICES ASSUME NEW v PROVE Opened(v) \in [Passwords -> Nat]
        OBVIOUS
      <4>1. CASE v \in Passwords
        <5>1. sessions[v] + 1 \in Nat
          BY <3>1, <4>1
        <5> QED
          BY <3>1, <5>1 DEF Opened
      <4>2. CASE v \notin Passwords
        BY <3>1, <4>2 DEF Opened
      <4> QED
        BY <4>1, <4>2
    <3>3. [v \in DOMAIN sessions |-> 0] \in [Passwords -> Nat]
      BY <3>1
    <3>4. \/ sessions' = sessions
          \/ sessions' = Opened(calls[c].seen.password)
          \/ sessions' = [v \in DOMAIN sessions |-> 0]
      BY <1>7 DEF RegisterCode, RegisterVerify, Login, VerifyEmail, ResendCode, Forgot,
         ResetPassword
    <3> QED
      BY <3>1, <3>2, <3>3, <3>4
  <2> QED
    BY <2>1, <2>2, <2>3, <2>4, <2>5 DEF AccountsTypeOK
<1> QED
  BY <1>1, <1>2, <1>3, <1>4, <1>5, <1>6, <1>7 DEF AccountsNext, Admit, Refuse

LEMMA ExceptOutside ==
    ASSUME NEW S, NEW s \in Seq(S), NEW n, NEW x, n \notin 1..Len(s)
    PROVE  [s EXCEPT ![n] = x] = s
<1>1. s \in [1..Len(s) -> S]
  OBVIOUS
<1> QED
  BY <1>1

LEMMA TokenTypes ==
    ASSUME TypeOK, NEW m \in Nat, NEW status \in {"active", "revoked"}, tokens' = WithToken(m, status)
    PROVE  DOMAIN tokens' \subseteq Nat /\ tokens' \in [DOMAIN tokens' -> {"active", "revoked"}]
<1>1. DOMAIN tokens' = DOMAIN tokens \cup {m}
  BY DEF WithToken
<1> QED
  BY <1>1 DEF WithToken, TypeOK

LEMMA EnsureTypes ==
    ASSUME AccountsTypeOK, NEW c \in Clients, NEW row \in Account, EnsureId(c, row)
    PROVE  minted' \in Nat /\ account' \in Account /\ IdOf(c) \in Nat
<1>1. IdOf(c) \in Nat
  BY DEF IdOf, AccountsTypeOK, Call
<1>2. minted' \in Nat
  BY DEF EnsureId, AccountsTypeOK
<1> DEFINE id == IdOf(c)
<1>3. [row EXCEPT !.mid = id] \in Account
  <2> HIDE DEF id
  <2>1. id \in Nat
    BY <1>1 DEF id
  <2> QED
    BY <2>1 DEF Account
<1> QED
  BY <1>1, <1>2, <1>3 DEF EnsureId

LEMMA SessionTypes ==
    ASSUME TypeOK, NEW c \in Clients,
           RegisterAndSeed(c) \/ RequestToken(c) \/ \E yes \in BOOLEAN : Decide(c, yes)
    PROVE  TypeOK'
<1> USE AccountsAssumption
<1>0. calls' \in [Clients -> Call] /\ UNCHANGED <<window, begun>>
  BY EndTypes DEF RegisterAndSeed, Register, Commit, RequestToken, Decide, Reaches, TypeOK
<1>1. CASE RegisterAndSeed(c)
  <2>1. minted' = minted + 1 /\ minted + 1 \in Nat
    <3>1. minted' = minted + 1
      BY <1>1 DEF RegisterAndSeed, Register
    <3>2. minted \in Nat
      BY DEF TypeOK, AccountsTypeOK
    <3> QED
      BY <3>1, <3>2
  <2>2. account' \in Account
    BY <1>1, <2>1 DEF RegisterAndSeed, Register, Row, Account
  <2>3. pending' \in [exists : BOOLEAN, code : BOOLEAN, ticket : BOOLEAN]
    BY <1>1 DEF RegisterAndSeed, Register, NoRow
  <2>4. sessions' \in [Passwords -> Nat]
    <3>1. 1 \in Passwords
      BY DEF Passwords
    <3>2. sessions' = [sessions EXCEPT ![1] = sessions[1] + 1]
      BY <1>1 DEF RegisterAndSeed, Register, Opened
    <3> QED
      <4>0. sessions \in [Passwords -> Nat]
        BY DEF TypeOK, AccountsTypeOK
      <4>1. sessions[1] + 1 \in Nat
        BY <3>1, <4>0
      <4> QED
        BY <3>2, <4>0, <4>1
  <2>5. AccountsTypeOK'
    BY <1>0, <1>1, <2>1, <2>2, <2>3, <2>4 DEF RegisterAndSeed, Register, Commit, TypeOK, AccountsTypeOK
  <2>6. DOMAIN tokens' \subseteq Nat /\ tokens' \in [DOMAIN tokens' -> {"active", "revoked"}]
    BY <1>1, <2>1, TokenTypes DEF RegisterAndSeed
  <2> QED
    BY <1>1, <2>5, <2>6 DEF RegisterAndSeed, TypeOK
<1>2. CASE RequestToken(c)
  <2>1. spent' \in [Budgets -> [Windows -> Nat]]
    BY <1>2, ConsumeTypes DEF RequestToken, Budgets, TypeOK
  <2>2. attempts' \in [Budgets -> [Windows -> Nat]]
    <3>1. CASE UNCHANGED attempts
      BY <3>1 DEF TypeOK, AccountsTypeOK
    <3>2. ASSUME NEW w \in Windows,
                 attempts' = [attempts EXCEPT !["token-request"][w] = @ + 1]
          PROVE  attempts' \in [Budgets -> [Windows -> Nat]]
      <4> DEFINE f == attempts["token-request"]
      <4>1. f \in [Windows -> Nat]
        BY DEF Budgets, TypeOK, AccountsTypeOK
      <4>2. [f EXCEPT ![w] = f[w] + 1] \in [Windows -> Nat]
        BY <4>1
      <4>3. attempts' = [attempts EXCEPT !["token-request"] = [f EXCEPT ![w] = f[w] + 1]]
        BY <3>2
      <4> HIDE DEF f
      <4> QED
        BY <4>2, <4>3 DEF TypeOK, AccountsTypeOK
    <3> QED
      BY <1>2, <3>1, <3>2 DEF RequestToken
  <2> DEFINE row == [account EXCEPT !.application = Len(applications) + 1]
             new == Append(applications, [status |-> "pending", mid |-> 0])
  <2>3. row \in Account /\ account \in Account
    <3>1. account \in Account /\ Len(applications) + 1 \in Nat
      BY DEF TypeOK, AccountsTypeOK
    <3> QED
      BY <3>1 DEF Account
  <2>4. new \in Seq(Application) /\ applications \in Seq(Application)
    <3>1. [status |-> "pending", mid |-> 0] \in Application
      BY DEF Application
    <3> QED
      BY <3>1 DEF TypeOK
  <2>5. applications' \in {applications, new} /\ (EnsureId(c, account) \/ EnsureId(c, row))
    BY <1>2 DEF RequestToken, Apply
  <2> HIDE DEF row, new
  <2>6. minted' \in Nat /\ account' \in Account
    BY <2>3, <2>5, EnsureTypes DEF TypeOK
  <2>7. AccountsTypeOK'
    BY <1>0, <1>2, <2>1, <2>2, <2>6 DEF RequestToken, TypeOK, AccountsTypeOK
  <2>8. UNCHANGED <<tokens, identity, granted>>
    BY <1>2 DEF RequestToken
  <2> QED
    BY <2>4, <2>5, <2>7, <2>8 DEF TypeOK
<1>3. ASSUME NEW yes \in BOOLEAN, Decide(c, yes) PROVE TypeOK'
  <2>1. minted' \in Nat /\ account' \in Account /\ IdOf(c) \in Nat
    BY <1>3, EnsureTypes DEF Decide, TypeOK, AccountsTypeOK
  <2>2. AccountsTypeOK'
    BY <1>0, <1>3, <2>1 DEF Decide, TypeOK, AccountsTypeOK
  <2>3. identity' \in [status : {"none", "pending", "approved", "denied", "consumed"}, mid : Nat]
    BY <1>3, <2>1 DEF Decide, TypeOK
  <2> QED
    BY <1>3, <2>2, <2>3 DEF Decide, TypeOK
<1> QED
  BY <1>1, <1>2, <1>3

LEMMA CommandTypes ==
    ASSUME TypeOK, NEW c \in Clients, Approve(c) \/ Reject(c) \/ Exchange(c)
    PROVE  TypeOK'
<1>0. calls' \in [Clients -> Call] /\ UNCHANGED <<pending, sessions, window, spent, attempts, begun>>
  BY EndTypes DEF Approve, Reject, Exchange, Reaches, TypeOK
<1> DEFINE n == calls[c].item
<1>1. CASE Approve(c)
  <2>1. ApprovedId(c) \in Nat /\ minted' \in Nat
    <3>1. minted \in Nat /\ calls[c].seen.mid \in Nat
      BY DEF TypeOK, AccountsTypeOK, Call
    <3>2. minted' = minted + 1 \/ minted' = minted
      BY <1>1 DEF Approve
    <3> QED
      BY <3>1, <3>2 DEF ApprovedId, IdOf
  <2> DEFINE id == ApprovedId(c)
  <2>2. [account EXCEPT !.mid = id] \in Account
    <3> HIDE DEF id
    <3>1. id \in Nat /\ account \in Account
      BY <2>1 DEF id, TypeOK, AccountsTypeOK
    <3> QED
      BY <3>1 DEF Account
  <2>3. applications' \in Seq(Application)
    <3>1. [status |-> "approved", mid |-> id] \in Application
      BY <2>1 DEF Application
    <3>2. applications' = [applications EXCEPT ![n] = [status |-> "approved", mid |-> id]]
      BY <1>1 DEF Approve
    <3> HIDE DEF id, n
    <3>3. CASE n \in 1..Len(applications)
      BY <3>1, <3>2, <3>3, ExceptSeq DEF TypeOK
    <3>4. CASE n \notin 1..Len(applications)
      BY <3>2, <3>4, ExceptOutside DEF TypeOK
    <3> QED
      BY <3>3, <3>4
  <2>4. DOMAIN tokens' \subseteq Nat /\ tokens' \in [DOMAIN tokens' -> {"active", "revoked"}]
    BY <1>1, <2>1, TokenTypes DEF Approve
  <2>5. AccountsTypeOK'
    BY <1>0, <1>1, <2>1, <2>2 DEF Approve, TypeOK, AccountsTypeOK
  <2> QED
    BY <1>1, <2>3, <2>4, <2>5 DEF Approve, TypeOK
<1>2. CASE Reject(c)
  <2>1. applications' \in Seq(Application)
    <3>1. applications' = [applications EXCEPT ![n] = [applications[n] EXCEPT !.status = "rejected"]]
      BY <1>2 DEF Reject
    <3>2. CASE n \in DOMAIN applications
      <4>1. applications[n] \in Application
        BY <3>2 DEF TypeOK
      <4> DEFINE old == applications[n]
      <4>2. [old EXCEPT !.status = "rejected"] \in Application
        <5> HIDE DEF old
        <5>1. old \in Application
          BY <4>1 DEF old
        <5> QED
          BY <5>1 DEF Application
      <4> QED
        BY <3>1, <3>2, <4>2, ExceptSeq DEF TypeOK
    <3>3. CASE n \notin DOMAIN applications
      <4> DEFINE other == [applications[n] EXCEPT !.status = "rejected"]
      <4> HIDE DEF other, n
      <4>1. applications' = [applications EXCEPT ![n] = other]
        BY <3>1 DEF other
      <4>2. applications \in Seq(Application) /\ n \notin 1..Len(applications)
        BY <3>3 DEF TypeOK
      <4>3. applications' = applications
        BY <4>1, <4>2, ExceptOutside
      <4> QED
        BY <4>2, <4>3
    <3> QED
      BY <3>2, <3>3
  <2>2. AccountsTypeOK'
    BY <1>0, <1>2 DEF Reject, TypeOK, AccountsTypeOK
  <2> QED
    BY <1>2, <2>1, <2>2 DEF Reject, TypeOK
<1>3. CASE Exchange(c)
  <2>1. AccountsTypeOK'
    BY <1>0, <1>3 DEF Exchange, TypeOK, AccountsTypeOK
  <2>2. /\ identity' \in [status : {"none", "pending", "approved", "denied", "consumed"}, mid : Nat]
        /\ granted' \in [issued : Nat, live : Nat, mid : Nat]
    BY <1>3 DEF Exchange, TypeOK
  <2> QED
    BY <1>3, <2>1, <2>2 DEF Exchange, TypeOK
<1> QED
  BY <1>1, <1>2, <1>3

LEMMA OtherTypes ==
    ASSUME TypeOK, Rotate \/ Revoke \/ Backfill \/ CreateIdentity \/ Disconnect
    PROVE  TypeOK'
<1>1. UNCHANGED vars
  BY DEF Rotate, Revoke, SetToken, Backfill, CreateIdentity, Disconnect
<1>2. AccountsTypeOK'
  BY <1>1 DEF TypeOK, AccountsTypeOK, vars
<1>3. DOMAIN tokens' \subseteq Nat /\ tokens' \in [DOMAIN tokens' -> {"active", "revoked"}]
  <2>1. CASE Backfill
    <3>1. DOMAIN tokens' = DOMAIN tokens \cup 1..minted
      BY <2>1 DEF Backfill
    <3> QED
      BY <2>1, <3>1 DEF Backfill, TypeOK, AccountsTypeOK
  <2>2. CASE Rotate \/ Revoke
    BY <2>2 DEF Rotate, Revoke, SetToken, TypeOK
  <2> QED
    BY <2>1, <2>2 DEF CreateIdentity, Disconnect, TypeOK
<1>4. applications' \in Seq(Application)
  BY DEF Rotate, Revoke, SetToken, Backfill, CreateIdentity, Disconnect, TypeOK
<1>5. identity' \in [status : {"none", "pending", "approved", "denied", "consumed"}, mid : Nat]
  BY DEF Rotate, Revoke, SetToken, Backfill, CreateIdentity, Disconnect, TypeOK
<1>6. granted' \in [issued : Nat, live : Nat, mid : Nat]
  BY DEF Rotate, Revoke, SetToken, Backfill, CreateIdentity, Disconnect, TypeOK
<1> QED
  BY <1>2, <1>3, <1>4, <1>5, <1>6 DEF TypeOK

LEMMA BeginTypes ==
    ASSUME TypeOK, NEW c \in Clients,
           \/ ExchangeBegin(c)
           \/ \E op \in {"token-request", "decide"} : SessionBegin(c, op)
           \/ \E op \in {"approve", "reject"}, n \in DOMAIN applications : ReviewBegin(c, op, n)
    PROVE  TypeOK'
<1>1. \E op \in Operations, seen \in [mid : Nat, password : Nat, verified : BOOLEAN], n \in Nat :
         Enter(c, op, 0, "admitted", seen, n)
  <2>1. /\ Read \in [mid : Nat, password : Nat, verified : BOOLEAN]
        /\ Nothing \in [mid : Nat, password : Nat, verified : BOOLEAN]
        /\ account.application \in Nat
    BY ReadType DEF TypeOK, AccountsTypeOK, Account, Nothing
  <2>2. DOMAIN applications \subseteq Nat
    BY DEF TypeOK
  <2> QED
    BY <2>1, <2>2 DEF ExchangeBegin, SessionBegin, ReviewBegin, Operations
<1>2. begun' \in [public : Nat, other : Nat] /\ calls' \in [Clients -> Call]
  BY <1>1, EnterTypes DEF TypeOK
<1>3. UNCHANGED <<account, pending, sessions, minted, window, spent, attempts, granting>>
  BY DEF ExchangeBegin, SessionBegin, ReviewBegin
<1> QED
  BY <1>2, <1>3 DEF TypeOK, AccountsTypeOK, granting

LEMMA TypeStep == TypeOK /\ [Next]_allVars => TypeOK'
<1> SUFFICES ASSUME TypeOK, [Next]_allVars PROVE TypeOK'
  OBVIOUS
<1>1. CASE UNCHANGED allVars
  BY <1>1 DEF TypeOK, AccountsTypeOK, allVars, vars, granting
<1>2. CASE AccountsNext /\ UNCHANGED granting
  BY <1>2, AccountsTypes DEF TypeOK, granting
<1> QED
  BY <1>1, <1>2, SessionTypes, CommandTypes, OtherTypes, BeginTypes DEF Next

\* Accounts, budgets, requests and grants keep their types.
THEOREM TypeCorrect == Spec => []TypeOK
  BY TypeStep, InitTypes, PTL DEF Spec

(***************************************************************************)
(* Budgets.  A request that was charged and not judged yet holds a place:  *)
(* places and attempts never exceed what was spent while the window can    *)
(* still be charged, nor the limit ever after.                             *)
(***************************************************************************)
Places(b, w) == {c \in Clients : calls[c].at = "charged" /\ calls[c].op = b /\ calls[c].window = w}

Within(b, w) ==
    /\ attempts[b][w] + Cardinality(Places(b, w)) <= Limit
    /\ spent[b][w] <= Limit
    /\ w + 1 >= window => attempts[b][w] + Cardinality(Places(b, w)) <= spent[b][w]

BudgetInv ==
    /\ TypeOK
    /\ \A b \in Budgets, w \in Windows : Within(b, w)
    /\ \A c \in Clients :
          calls[c].at = "charged" => calls[c].op \in Public /\ calls[c].window \in Windows

LEMMA PlacesFinite ==
    ASSUME NEW b, NEW w
    PROVE  IsFiniteSet(Places(b, w)) /\ Cardinality(Places(b, w)) \in Nat
<1>1. IsFiniteSet(Places(b, w))
  BY AccountsAssumption, FS_Subset DEF Places
<1> QED
  BY <1>1, FS_CardinalityType

LEMMA InitBudget == Init => BudgetInv
<1> SUFFICES ASSUME Init PROVE BudgetInv
  OBVIOUS
<1>1. \A c \in Clients : calls[c].at = "idle"
  BY DEF Init, AccountsInit, Idle
<1>2. \A b \in Budgets, w \in Windows : Within(b, w)
  <2> SUFFICES ASSUME NEW b \in Budgets, NEW w \in Windows PROVE Within(b, w)
    OBVIOUS
  <2>1. Cardinality(Places(b, w)) = 0
    BY <1>1, FS_EmptySet DEF Places
  <2>2. spent[b][w] = 0 /\ attempts[b][w] = 0
    BY DEF Init, AccountsInit
  <2> QED
    BY <2>1, <2>2, AccountsAssumption DEF Within
<1> QED
  BY <1>1, <1>2, InitTypes DEF BudgetInv

LEMMA BudgetFacts ==
    ASSUME TypeOK, NEW b \in Budgets, NEW v \in Windows
    PROVE  /\ Limit \in Nat /\ Limit > 0 /\ window \in Nat /\ v \in Nat
           /\ attempts[b][v] \in Nat /\ spent[b][v] \in Nat
           /\ Cardinality(Places(b, v)) \in Nat
<1>1. Limit \in Nat /\ Limit > 0
  BY AccountsAssumption
<1>2. window \in Nat /\ v \in Nat
  BY DEF TypeOK, AccountsTypeOK, Windows
<1>3. attempts[b][v] \in Nat /\ spent[b][v] \in Nat
  BY DEF TypeOK, AccountsTypeOK
<1> QED
  BY <1>1, <1>2, <1>3, PlacesFinite

\* A step that charges and judges nobody.
LEMMA QuietBudget ==
    ASSUME BudgetInv, TypeOK', UNCHANGED <<spent, attempts>>, window' >= window,
           \A c \in Clients : calls'[c].at = "charged" <=> calls[c].at = "charged",
           \A c \in Clients : calls[c].at = "charged" => calls'[c] = calls[c]
    PROVE  BudgetInv'
<1>1. \A b, w : Places(b, w)' = Places(b, w)
  BY DEF Places
<1>2. \A b \in Budgets, w \in Windows : Within(b, w)'
  <2> SUFFICES ASSUME NEW b \in Budgets, NEW w \in Windows PROVE Within(b, w)'
    OBVIOUS
  <2>1. Within(b, w) /\ w \in Nat /\ window \in Nat /\ window' \in Nat
    BY BudgetFacts DEF BudgetInv, TypeOK, AccountsTypeOK
  <2>2. /\ Cardinality(Places(b, w))' = Cardinality(Places(b, w))
        /\ spent'[b][w] = spent[b][w] /\ attempts'[b][w] = attempts[b][w]
    BY <1>1
  <2> QED
    BY <2>1, <2>2 DEF Within
<1> QED
  BY <1>2 DEF BudgetInv

LEMMA PrunedBelow ==
    ASSUME TypeOK, NEW b \in Budgets, NEW v \in Windows, NEW w \in Windows
    PROVE  /\ Pruned(w)[b][v] \in {0, spent[b][v]}
           /\ v + 1 >= window \/ v = w => Pruned(w)[b][v] = spent[b][v]
  BY DEF Pruned, OldWindows, TypeOK, AccountsTypeOK, Windows

LEMMA ChargeBudget ==
    ASSUME BudgetInv, TypeOK', NEW c \in Clients, NEW op \in Public, NEW w \in Windows,
           Charge(c, op, w)
    PROVE  BudgetInv'
<1> DEFINE new == [at |-> "charged", op |-> op, window |-> w, seen |-> Nothing, item |-> 0]
<1>1. calls[c].at = "idle" /\ calls' = [calls EXCEPT ![c] = new]
  BY DEF Charge, Enter, Idle
<1>2. calls \in [Clients -> Call]
  BY DEF BudgetInv, TypeOK, AccountsTypeOK
<1>3. \A b, v : Places(b, v)' = IF b = op /\ v = w THEN Places(b, v) \cup {c} ELSE Places(b, v)
  BY <1>1, <1>2 DEF Places
<1>4. \A b \in Budgets, v \in Windows :
        spent'[b][v] = IF b = op /\ v = w THEN Pruned(w)[b][v] + 1 ELSE Pruned(w)[b][v]
  BY ConsumeTypes DEF Charge, Consume, Budgets, BudgetInv, TypeOK
<1>5. op \in Budgets /\ UNCHANGED <<window, attempts>> /\ w + 1 >= window /\ spent[op][w] < Limit
  <2>1. Consume(op, w) /\ UNCHANGED <<window, attempts>>
    BY DEF Charge
  <2>2. spent[op][w] < Limit /\ Timely(w)
    BY <2>1 DEF Consume
  <2>3. window \in Nat
    BY DEF BudgetInv, TypeOK, AccountsTypeOK
  <2> QED
    BY <2>1, <2>2, <2>3 DEF Timely, Budgets, Windows
<1>6. \A b \in Budgets, v \in Windows : Within(b, v)'
  <2> SUFFICES ASSUME NEW b \in Budgets, NEW v \in Windows PROVE Within(b, v)'
    OBVIOUS
  <2>1. /\ Within(b, v) /\ Limit \in Nat /\ window \in Nat /\ v \in Nat /\ Limit > 0
        /\ attempts[b][v] \in Nat /\ spent[b][v] \in Nat
        /\ Cardinality(Places(b, v)) \in Nat
    BY BudgetFacts DEF BudgetInv
  <2>2. CASE b = op /\ v = w
    <3>1. c \notin Places(b, v) /\ IsFiniteSet(Places(b, v))
      BY <1>1, PlacesFinite DEF Places
    <3>2. Cardinality(Places(b, v)') = Cardinality(Places(b, v)) + 1
      BY <1>3, <2>2, <3>1, FS_AddElement
    <3>3. spent'[b][v] = spent[b][v] + 1
      BY <1>4, <2>2, PrunedBelow DEF BudgetInv
    <3> QED
      BY <1>5, <2>1, <2>2, <3>2, <3>3 DEF Within
  <2>3. CASE ~(b = op /\ v = w)
    <3>1. Cardinality(Places(b, v)') = Cardinality(Places(b, v))
      BY <1>3, <2>3
    <3>2. /\ spent'[b][v] \in {0, spent[b][v]}
          /\ v + 1 >= window => spent'[b][v] = spent[b][v]
      BY <1>4, <2>3, PrunedBelow DEF BudgetInv
    <3> QED
      BY <1>5, <2>1, <3>1, <3>2 DEF Within
  <2> QED
    BY <2>2, <2>3
<1> QED
  BY <1>1, <1>2, <1>6 DEF BudgetInv

LEMMA JudgeBudget ==
    ASSUME BudgetInv, TypeOK', NEW c \in Clients, Admit(c) \/ Refuse(c)
    PROVE  BudgetInv'
<1> DEFINE o == calls[c].op  u == calls[c].window
<1>1. /\ calls[c].at = "charged" /\ o \in Budgets /\ u \in Windows
      /\ attempts' = [attempts EXCEPT ![o][u] = @ + 1]
      /\ UNCHANGED <<spent, window>>
  BY DEF Admit, Refuse, Refused, Judged, BudgetInv, Budgets
<1>2. calls'[c].at # "charged" /\ \A d \in Clients \ {c} : calls'[d] = calls[d]
  <2>1. calls \in [Clients -> Call]
    BY DEF BudgetInv, TypeOK, AccountsTypeOK
  <2>2. CASE Admit(c)
    BY <2>1, <2>2 DEF Admit
  <2>3. CASE Refuse(c)
    BY <2>1, <2>3 DEF Refuse, Idle
  <2> QED
    BY <2>2, <2>3
<1>3. \A b, v : Places(b, v)' = IF b = o /\ v = u THEN Places(b, v) \ {c} ELSE Places(b, v)
  BY <1>1, <1>2 DEF Places
<1>4. \A b \in Budgets, v \in Windows :
        attempts'[b][v] = IF b = o /\ v = u THEN attempts[b][v] + 1 ELSE attempts[b][v]
  <2>1. attempts \in [Budgets -> [Windows -> Nat]]
    BY DEF BudgetInv, TypeOK, AccountsTypeOK
  <2> HIDE DEF o, u
  <2> QED
    BY <1>1, <2>1
<1>5. \A b \in Budgets, v \in Windows : Within(b, v)'
  <2> SUFFICES ASSUME NEW b \in Budgets, NEW v \in Windows PROVE Within(b, v)'
    OBVIOUS
  <2>1. /\ Within(b, v) /\ Limit \in Nat /\ window \in Nat /\ v \in Nat
        /\ attempts[b][v] \in Nat /\ spent[b][v] \in Nat
        /\ Cardinality(Places(b, v)) \in Nat
    BY BudgetFacts DEF BudgetInv
  <2>2. CASE b = o /\ v = u
    <3>1. c \in Places(b, v) /\ IsFiniteSet(Places(b, v))
      BY <1>1, <2>2, PlacesFinite DEF Places
    <3>2. Cardinality(Places(b, v)') = Cardinality(Places(b, v)) - 1
      BY <1>3, <2>2, <3>1, FS_RemoveElement
    <3> QED
      BY <1>1, <1>4, <2>1, <2>2, <3>2 DEF Within
  <2>3. CASE ~(b = o /\ v = u)
    BY <1>1, <1>3, <1>4, <2>1, <2>3 DEF Within
  <2> QED
    BY <2>2, <2>3
<1> QED
  BY <1>2, <1>5 DEF BudgetInv

LEMMA SessionBudget ==
    ASSUME BudgetInv, TypeOK', NEW c \in Clients, RequestToken(c)
    PROVE  BudgetInv'
<1> DEFINE o == "token-request"
<1>1. /\ calls[c].at = "admitted" /\ calls' = [calls EXCEPT ![c] = Idle] /\ UNCHANGED window
      /\ calls \in [Clients -> Call] /\ o \in Budgets /\ o \notin Public
  BY DEF RequestToken, Reaches, BudgetInv, TypeOK, AccountsTypeOK, Budgets, Public
<1>2. \A b, v : Places(b, v)' = Places(b, v)
  BY <1>1 DEF Places, Idle
<1>3. PICK w \in Windows :
        \/ Consume(o, w) /\ attempts' = [attempts EXCEPT ![o][w] = @ + 1]
        \/ spent' = Pruned(w) /\ UNCHANGED attempts
  BY DEF RequestToken
<1>4. \A b \in Budgets, v \in Windows : Within(b, v)'
  <2> SUFFICES ASSUME NEW b \in Budgets, NEW v \in Windows PROVE Within(b, v)'
    OBVIOUS
  <2>1. /\ Within(b, v) /\ Limit \in Nat /\ window \in Nat /\ v \in Nat /\ Limit > 0
        /\ attempts[b][v] \in Nat /\ spent[b][v] \in Nat
        /\ Cardinality(Places(b, v)) \in Nat
    BY BudgetFacts DEF BudgetInv
  <2>2. attempts \in [Budgets -> [Windows -> Nat]] /\ Pruned(w) \in [Budgets -> [Windows -> Nat]]
    BY ConsumeTypes DEF BudgetInv, TypeOK, AccountsTypeOK
  <2>3. /\ Pruned(w)[b][v] \in {0, spent[b][v]}
        /\ v + 1 >= window \/ v = w => Pruned(w)[b][v] = spent[b][v]
    BY PrunedBelow DEF BudgetInv
  <2>4. CASE spent' = Pruned(w) /\ UNCHANGED attempts
    BY <1>1, <1>2, <2>1, <2>3, <2>4 DEF Within
  <2>5. CASE Consume(o, w) /\ attempts' = [attempts EXCEPT ![o][w] = @ + 1]
    <3>1. /\ spent'[b][v] = IF b = o /\ v = w THEN Pruned(w)[b][v] + 1 ELSE Pruned(w)[b][v]
          /\ attempts'[b][v] = IF b = o /\ v = w THEN attempts[b][v] + 1 ELSE attempts[b][v]
      BY <2>2, <2>5 DEF Consume
    <3>2. w + 1 >= window /\ spent[o][w] < Limit
      <4>1. w \in {window - 1, window} /\ spent[o][w] < Limit
        BY <2>5 DEF Consume, Timely
      <4>2. window \in Nat /\ w \in Nat
        BY BudgetFacts DEF BudgetInv
      <4> QED
        BY <4>1, <4>2
    <3>3. CASE b = o /\ v = w
      BY <1>1, <1>2, <2>1, <2>3, <3>1, <3>2, <3>3 DEF Within
    <3>4. CASE ~(b = o /\ v = w)
      BY <1>1, <1>2, <2>1, <2>3, <3>1, <3>4 DEF Within
    <3> QED
      BY <3>3, <3>4
  <2> QED
    BY <1>3, <2>4, <2>5
<1> QED
  BY <1>1, <1>4 DEF BudgetInv, Idle

LEMMA BudgetStep == BudgetInv /\ [Next]_allVars => BudgetInv'
<1> SUFFICES ASSUME BudgetInv, [Next]_allVars PROVE BudgetInv'
  OBVIOUS
<1>0. TypeOK' /\ window \in Nat /\ calls \in [Clients -> Call]
  <2>1. TypeOK'
    BY TypeStep DEF BudgetInv
  <2> QED
    BY <2>1 DEF BudgetInv, TypeOK, AccountsTypeOK
<1>1. CASE UNCHANGED <<window, spent, attempts, calls>>
  BY <1>0, <1>1, QuietBudget
<1>2. CASE Tick
  BY <1>0, <1>2, QuietBudget DEF Tick
<1>3. ASSUME NEW c \in Clients,
             UNCHANGED <<window, spent, attempts>>,
             calls[c].at # "charged",
             \E new \in Call : new.at # "charged" /\ calls' = [calls EXCEPT ![c] = new]
      PROVE  BudgetInv'
  BY <1>0, <1>3, QuietBudget
<1>4. Idle \in Call /\ Idle.at # "charged"
  BY DEF Idle, Nothing, Call
<1>5. ASSUME NEW c \in Clients,
             RollBack(c) \/ RegisterCode(c) \/ RegisterVerify(c) \/ Login(c) \/ VerifyEmail(c)
             \/ ResendCode(c) \/ Forgot(c) \/ ResetPassword(c) \/ RegisterAndSeed(c)
      PROVE  BudgetInv'
  <2>1. /\ UNCHANGED <<window, spent, attempts>> /\ calls[c].at = "admitted"
        /\ calls' = [calls EXCEPT ![c] = Idle]
    BY <1>5 DEF RollBack, RegisterCode, RegisterVerify, Login, VerifyEmail, ResendCode, Forgot,
       ResetPassword, RegisterAndSeed, Register, Commit
  <2> QED
    BY <1>3, <1>4, <2>1
<1>6. ASSUME NEW c \in Clients,
             Approve(c) \/ Reject(c) \/ Exchange(c) \/ \E yes \in BOOLEAN : Decide(c, yes)
      PROVE  BudgetInv'
  <2>1. /\ UNCHANGED <<window, spent, attempts>> /\ calls[c].at = "admitted"
        /\ calls' = [calls EXCEPT ![c] = Idle]
    BY <1>6 DEF Approve, Reject, Exchange, Decide, Reaches
  <2> QED
    BY <1>3, <1>4, <2>1
<1>7. ASSUME NEW c \in Clients,
             \/ ExchangeBegin(c)
             \/ \E op \in {"token-request", "decide"} : SessionBegin(c, op)
             \/ \E op \in {"approve", "reject"}, n \in DOMAIN applications : ReviewBegin(c, op, n)
      PROVE  BudgetInv'
  <2>1. /\ UNCHANGED <<window, spent, attempts>> /\ calls[c].at # "charged"
        /\ calls'[c].at # "charged" /\ \A d \in Clients \ {c} : calls'[d] = calls[d]
    BY <1>0, <1>7 DEF ExchangeBegin, SessionBegin, ReviewBegin, Enter, Idle
  <2> QED
    BY <1>0, <2>1, QuietBudget
<1>8. CASE Rotate \/ Revoke \/ Backfill \/ CreateIdentity \/ Disconnect \/ Logout
  BY <1>1, <1>8 DEF Rotate, Revoke, SetToken, Backfill, CreateIdentity, Disconnect, Logout, vars
<1>9. CASE UNCHANGED allVars
  BY <1>1, <1>9 DEF allVars, vars
<1> QED
  BY <1>0, <1>2, <1>5, <1>6, <1>7, <1>8, <1>9, ChargeBudget, JudgeBudget, SessionBudget
     DEF Next, AccountsNext

\* The attempts judged in a window never exceed the budget (AttemptsBounded).
THEOREM BudgetsHold == Spec => []AttemptsBounded
<1>1. BudgetInv => AttemptsBounded
  <2> SUFFICES ASSUME BudgetInv, NEW b \in Budgets, NEW w \in Windows
               PROVE  attempts[b][w] <= Limit
    BY DEF AttemptsBounded
  <2>1. Within(b, w) /\ Limit \in Nat /\ attempts[b][w] \in Nat /\ Cardinality(Places(b, w)) \in Nat
    BY BudgetFacts DEF BudgetInv
  <2> QED
    BY <2>1 DEF Within
<1> QED
  BY <1>1, BudgetStep, InitBudget, PTL DEF Spec

(***************************************************************************)
(* The connector's credential.                                             *)
(***************************************************************************)
\* One exchange of one approval (GrantedOnce).
THEOREM OneGrant == Spec => []GrantedOnce
<1>1. Init => GrantedOnce
  BY DEF Init, NoGrant, GrantedOnce
<1>2. TypeOK /\ GrantedOnce /\ [Next]_allVars => GrantedOnce'
  <2> SUFFICES ASSUME TypeOK, GrantedOnce, [Next]_allVars PROVE GrantedOnce'
    OBVIOUS
  <2>1. CASE UNCHANGED <<identity, granted>>
    BY <2>1 DEF GrantedOnce
  <2>2. CASE CreateIdentity \/ Disconnect
    BY <2>2 DEF CreateIdentity, Disconnect, GrantedOnce, TypeOK
  <2>3. ASSUME NEW c \in Clients, Exchange(c) PROVE GrantedOnce'
    BY <2>3 DEF Exchange, Unspent, GrantedOnce
  <2>4. ASSUME NEW c \in Clients, NEW yes \in BOOLEAN, Decide(c, yes) PROVE GrantedOnce'
    BY <2>4 DEF Decide, GrantedOnce
  <2>5. ASSUME NEW c \in Clients,
               \/ RegisterAndSeed(c) \/ RequestToken(c) \/ Approve(c) \/ Reject(c) \/ ExchangeBegin(c)
               \/ \E op \in {"token-request", "decide"} : SessionBegin(c, op)
               \/ \E op \in {"approve", "reject"}, n \in DOMAIN applications : ReviewBegin(c, op, n)
        PROVE  UNCHANGED <<identity, granted>>
    BY <2>5 DEF RegisterAndSeed, RequestToken, Approve, Reject, ExchangeBegin, SessionBegin,
       ReviewBegin, granting
  <2>6. CASE Rotate \/ Revoke \/ Backfill
    BY <2>1, <2>6 DEF Rotate, Revoke, SetToken, Backfill
  <2>7. CASE UNCHANGED granting
    BY <2>1, <2>7 DEF granting
  <2> QED
    BY <2>1, <2>2, <2>3, <2>4, <2>5, <2>6, <2>7 DEF Next, allVars
<1> QED
  BY <1>1, <1>2, TypeCorrect, PTL DEF Spec

(***************************************************************************)
(* One identity.                                                           *)
(***************************************************************************)
Granting == {"token-request", "decide", "approve"}

Empty ==
    /\ minted = 0 /\ DOMAIN tokens = {} /\ applications = <<>>
    /\ identity.mid = 0 /\ identity.status # "approved" /\ granted.mid = 0
    /\ \A v \in Passwords : sessions[v] = 0
    /\ \A c \in Clients :
          calls[c].at = "admitted" =>
              calls[c].op \in {"register-code", "register-verify", "register"}

One ==
    /\ account.mid = 1 /\ minted = 1 /\ DOMAIN tokens = {1}
    /\ \A n \in DOMAIN applications : applications[n].mid \in {0, 1}
    /\ identity.mid \in {0, 1} /\ granted.mid \in {0, 1}
    /\ \A c \in Clients :
          calls[c].at = "admitted" /\ calls[c].op \in Granting => calls[c].seen.mid = 1

IdentityInv ==
    /\ ~account.exists => Empty
    /\ account.exists /\ ~account.old => One

LEMMA InitIdentity == Init => IdentityInv
<1> SUFFICES ASSUME Init PROVE IdentityInv
  OBVIOUS
<1>1. \A c \in Clients : calls[c].at = "idle"
  BY DEF Init, AccountsInit, Idle
<1>2. CASE account = NoAccount
  <2>1. /\ ~account.exists /\ account.application = 0 /\ account.mid = 0
        /\ \A id, n \in {0, 1}, verified, reset \in BOOLEAN : account # Row(id, verified, reset, n)
    BY <1>2 DEF NoAccount, Row
  <2>2. minted = 0
    BY <2>1 DEF Init, AccountsInit
  <2>3. /\ DOMAIN tokens = {} /\ applications = <<>> /\ granted.mid = 0
        /\ identity.mid = 0 /\ identity.status = "none"
    <3>1. {account.mid} \ {0} = {}
      BY <2>1
    <3>2. tokens = [m \in {account.mid} \ {0} |-> "revoked"] /\ applications = <<>>
      BY <2>1 DEF Init
    <3>3. identity = [status |-> "none", mid |-> 0] /\ granted = [issued |-> 0, live |-> 0, mid |-> 0]
      BY <2>1 DEF Init, NoGrant
    <3> QED
      BY <3>1, <3>2, <3>3
  <2>4. \A v \in Passwords : sessions[v] = 0
    BY <1>2 DEF Init, AccountsInit, NoAccount
  <2> QED
    BY <1>1, <2>1, <2>2, <2>3, <2>4 DEF IdentityInv, Empty
<1>3. ASSUME NEW verified \in BOOLEAN, NEW reset \in BOOLEAN, NEW n \in {0, 1},
             account = Row(1, verified, reset, n), minted = 1
      PROVE  IdentityInv
  <2>1. account.exists /\ account.mid = 1
    BY <1>3 DEF Row
  <2>2. DOMAIN tokens = {1} /\ granted.mid = 0 /\ identity.mid \in {0, 1}
    <3>1. DOMAIN tokens = {1}
      <4>1. {account.mid} \ {0} = {1}
        BY <2>1
      <4>2. \/ tokens = [m \in {account.mid} \ {0} |-> "revoked"]
            \/ tokens = [m \in {1} |-> "revoked"]
        BY DEF Init
      <4> QED
        BY <4>1, <4>2
    <3>2. granted.mid = 0
      BY DEF Init, NoGrant
    <3>3. identity.mid \in {0, 1}
      BY DEF Init
    <3> QED
      BY <3>1, <3>2, <3>3
  <2>3. \A i \in DOMAIN applications : applications[i].mid \in {0, 1}
    BY DEF Init
  <2> QED
    BY <1>1, <1>3, <2>1, <2>2, <2>3 DEF IdentityInv, One
<1>4. CASE account = Row(0, TRUE, FALSE, 0)
  BY <1>4 DEF Row, IdentityInv
<1> QED
  BY <1>2, <1>3, <1>4 DEF Init, AccountsInit

\* Steps that grant nothing: they keep the id, and let in whom they may.
LEMMA KeepIdentity ==
    ASSUME TypeOK, IdentityInv, UNCHANGED <<minted, granting>>,
           account'.exists = account.exists, account'.old = account.old, account'.mid = account.mid,
           ~account.exists => \A v \in Passwords : sessions'[v] = 0,
           \A c \in Clients : calls'[c].at = "admitted" /\ calls'[c] # calls[c] =>
               /\ ~account.exists => calls'[c].op \in {"register-code", "register-verify", "register"}
               /\ calls'[c].op \in Granting => calls'[c].seen.mid = account.mid
    PROVE  IdentityInv'
<1>1. ASSUME ~account.exists PROVE Empty'
  BY <1>1 DEF IdentityInv, Empty, granting
<1>2. ASSUME account.exists, ~account.old PROVE One'
  BY <1>2 DEF IdentityInv, One, granting
<1> QED
  BY <1>1, <1>2 DEF IdentityInv

LEMMA AccountsIdentity ==
    ASSUME BudgetInv, IdentityInv, AccountsNext, UNCHANGED granting
    PROVE  IdentityInv'
<1>0. TypeOK /\ calls \in [Clients -> Call] /\ sessions \in [Passwords -> Nat] /\ account \in Account
  BY DEF BudgetInv, TypeOK, AccountsTypeOK
<1>1. ~account.exists => Empty
  BY DEF IdentityInv
<1>2. CASE Tick
  BY <1>0, <1>1, <1>2, KeepIdentity DEF Tick, Empty
<1>3. CASE Logout
  BY <1>0, <1>1, <1>3, KeepIdentity DEF Logout, Empty
<1>4. ASSUME NEW c \in Clients, NEW op \in Public, NEW w \in Windows, Charge(c, op, w)
      PROVE  IdentityInv'
  <2>1. calls'[c].at = "charged" /\ \A d \in Clients \ {c} : calls'[d] = calls[d]
    BY <1>0, <1>4 DEF Charge, Enter
  <2> QED
    BY <1>0, <1>1, <1>4, <2>1, KeepIdentity DEF Charge, Empty
<1>5. ASSUME NEW c \in Clients, Admit(c) PROVE IdentityInv'
  <2>1. /\ calls'[c].op = calls[c].op /\ calls[c].op \in Public
        /\ \A d \in Clients \ {c} : calls'[d] = calls[d]
        /\ UNCHANGED <<account, sessions, minted>>
    BY <1>0, <1>5 DEF Admit, BudgetInv
  <2>2. ~account.exists => calls[c].op \in {"register-code", "register-verify", "register"}
    BY <1>5, <2>1 DEF Admit, Admits, Public
  <2>3. calls[c].op \notin Granting
    BY <2>1 DEF Public, Granting
  <2> QED
    BY <1>0, <1>1, <2>1, <2>2, <2>3, KeepIdentity DEF Empty
<1>6. ASSUME NEW c \in Clients, calls' = [calls EXCEPT ![c] = Idle]
      PROVE  \A d \in Clients : calls'[d].at = "admitted" => calls'[d] = calls[d]
  BY <1>0, <1>6 DEF Idle
<1>7. ASSUME NEW c \in Clients,
             Refuse(c) \/ RollBack(c) \/ RegisterCode(c) \/ RegisterVerify(c)
      PROVE  IdentityInv'
  <2>1. UNCHANGED <<account, sessions, minted>> /\ calls' = [calls EXCEPT ![c] = Idle]
    BY <1>7 DEF Refuse, RollBack, RegisterCode, RegisterVerify, Commit
  <2> QED
    BY <1>0, <1>1, <1>6, <2>1, KeepIdentity DEF Empty
<1>8. ASSUME NEW c \in Clients,
             Login(c) \/ VerifyEmail(c) \/ ResendCode(c) \/ Forgot(c) \/ ResetPassword(c)
      PROVE  IdentityInv'
  <2>1. /\ calls[c].at = "admitted" /\ calls' = [calls EXCEPT ![c] = Idle] /\ UNCHANGED minted
        /\ calls[c].op \in {"login", "verify-email", "resend-code", "forgot", "reset-password"}
    BY <1>8 DEF Login, VerifyEmail, ResendCode, Forgot, ResetPassword, Commit
  <2>2. account.exists
    BY <1>1, <2>1 DEF Empty
  <2>3. account'.exists = account.exists /\ account'.old = account.old /\ account'.mid = account.mid
    BY <1>0, <1>8 DEF Login, VerifyEmail, ResendCode, Forgot, ResetPassword, Account
  <2> QED
    BY <1>0, <1>6, <2>1, <2>2, <2>3, KeepIdentity
<1> QED
  BY <1>2, <1>3, <1>4, <1>5, <1>7, <1>8 DEF AccountsNext

LEMMA RegisterIdentity ==
    ASSUME TypeOK, IdentityInv, NEW c \in Clients, RegisterAndSeed(c)
    PROVE  IdentityInv'
<1>1. ~account.exists /\ Empty
  BY DEF RegisterAndSeed, Register, IdentityInv
<1>2. account'.exists /\ account'.mid = 1 /\ minted' = 1
  BY <1>1 DEF RegisterAndSeed, Register, Row, Empty
<1>3. DOMAIN tokens' = {1} /\ UNCHANGED <<applications, identity, granted>>
  BY <1>1 DEF RegisterAndSeed, WithToken, Empty
<1>4. \A d \in Clients : calls'[d].at = "admitted" => calls'[d].op \notin Granting
  BY <1>1 DEF RegisterAndSeed, Register, Commit, Idle, Empty, Granting, TypeOK, AccountsTypeOK
<1> QED
  BY <1>1, <1>2, <1>3, <1>4 DEF IdentityInv, One, Empty

\* The id such a request goes on with is the account's.
LEMMA GrantingIdentity ==
    ASSUME TypeOK, IdentityInv, NEW c \in Clients, calls[c].at = "admitted",
           calls[c].op \in Granting, ~account.old
    PROVE  account.exists /\ One /\ calls[c].seen.mid = 1 /\ IdOf(c) = 1
<1>1. account.exists
  BY DEF IdentityInv, Empty, Granting
<1>2. One
  BY <1>1 DEF IdentityInv
<1>3. calls[c].seen.mid = 1
  BY <1>2 DEF One
<1> QED
  BY <1>1, <1>2, <1>3 DEF IdOf

LEMMA RequestIdentity ==
    ASSUME TypeOK, IdentityInv, NEW c \in Clients,
           RequestToken(c) \/ \E yes \in BOOLEAN : Decide(c, yes)
    PROVE  IdentityInv'
<1>0. account \in Account /\ applications \in Seq(Application) /\ calls \in [Clients -> Call]
  BY DEF TypeOK, AccountsTypeOK
<1>1. /\ calls[c].at = "admitted" /\ calls' = [calls EXCEPT ![c] = Idle]
      /\ calls[c].op \in {"token-request", "decide"} /\ UNCHANGED <<tokens, granted>>
  BY DEF RequestToken, Decide, Reaches
<1>2. account.exists
  BY <1>1 DEF IdentityInv, Empty
<1>3. account'.exists = account.exists /\ account'.old = account.old
  <2>1. ASSUME NEW row \in Account, row.exists = account.exists, row.old = account.old,
               EnsureId(c, row)
        PROVE  account'.exists = account.exists /\ account'.old = account.old
    BY <2>1 DEF EnsureId, Account
  <2> DEFINE row == [account EXCEPT !.application = Len(applications) + 1]
  <2>2. row \in Account /\ row.exists = account.exists /\ row.old = account.old
    BY <1>0 DEF Account
  <2>3. EnsureId(c, account) \/ EnsureId(c, row)
    BY DEF RequestToken, Decide, Apply
  <2> HIDE DEF row
  <2> QED
    BY <1>0, <2>1, <2>2, <2>3
<1>4. ASSUME ~account.old PROVE One'
  <2>1. One /\ IdOf(c) = 1 /\ calls[c].seen.mid = 1
    BY <1>1, <1>4, GrantingIdentity DEF Granting
  <2>2. account.mid = 1 /\ minted = 1
    BY <2>1 DEF One
  <2>3. account'.mid = 1 /\ minted' = 1
    <3> DEFINE row == [account EXCEPT !.application = Len(applications) + 1]
    <3>1. row.mid = account.mid
      BY <1>0 DEF Account
    <3>2. EnsureId(c, account) \/ EnsureId(c, row)
      BY DEF RequestToken, Decide, Apply
    <3> HIDE DEF row
    <3> QED
      BY <2>1, <2>2, <3>1, <3>2 DEF EnsureId
  <2>4. \A n \in DOMAIN applications' : applications'[n].mid \in {0, 1}
    <3>1. CASE UNCHANGED applications
      BY <2>1, <3>1 DEF One
    <3>2. CASE applications' = Append(applications, [status |-> "pending", mid |-> 0])
      BY <1>0, <2>1, <3>2 DEF One
    <3> QED
      BY <3>1, <3>2 DEF RequestToken, Decide, Apply
  <2>5. identity'.mid \in {0, 1}
    BY <2>1 DEF RequestToken, Decide, One, TypeOK
  <2>6. \A d \in Clients : calls'[d].at = "admitted" => calls'[d] = calls[d]
    BY <1>0, <1>1 DEF Idle
  <2> QED
    BY <1>1, <2>1, <2>3, <2>4, <2>5, <2>6 DEF One
<1> QED
  BY <1>2, <1>3, <1>4 DEF IdentityInv

LEMMA CommandIdentity ==
    ASSUME TypeOK, IdentityInv, NEW c \in Clients, Approve(c) \/ Reject(c) \/ Exchange(c)
    PROVE  IdentityInv'
<1>0. /\ account \in Account /\ applications \in Seq(Application) /\ calls \in [Clients -> Call]
      /\ DOMAIN applications' = DOMAIN applications
  BY DEF TypeOK, AccountsTypeOK, Approve, Reject, Exchange
<1>1. /\ calls[c].at = "admitted" /\ calls' = [calls EXCEPT ![c] = Idle]
      /\ calls[c].op \in {"approve", "reject", "exchange"}
  BY DEF Approve, Reject, Exchange, Reaches
<1>2. account.exists
  BY <1>1 DEF IdentityInv, Empty
<1>3. account'.exists = account.exists /\ account'.old = account.old
  <2> DEFINE id == ApprovedId(c)
  <2>1. account' = account \/ account' = [account EXCEPT !.mid = id]
    BY DEF Approve, Reject, Exchange
  <2> HIDE DEF id
  <2> QED
    BY <1>0, <2>1 DEF Account
<1>4. \A d \in Clients : calls'[d].at = "admitted" => calls'[d] = calls[d]
  BY <1>0, <1>1 DEF Idle
<1>5. ASSUME ~account.old PROVE One'
  <2>0. One
    BY <1>2, <1>5 DEF IdentityInv
  <2>1. CASE Approve(c)
    <3>1. ApprovedId(c) = 1
      BY <1>1, <1>5, <2>1, GrantingIdentity DEF ApprovedId, Approve, Reaches, Granting
    <3>2. account'.mid = 1 /\ minted' = 1
      BY <1>0, <2>0, <2>1, <3>1 DEF Approve, One, Account
    <3>3. DOMAIN tokens' = {1}
      BY <2>0, <2>1, <3>1 DEF Approve, WithToken, One
    <3>4. \A n \in DOMAIN applications' : applications'[n].mid \in {0, 1}
      BY <1>0, <2>0, <2>1, <3>1 DEF Approve, One
    <3> QED
      BY <1>4, <2>0, <2>1, <3>2, <3>3, <3>4 DEF Approve, One
  <2>2. CASE Reject(c)
    <3>1. \A n \in DOMAIN applications' : applications'[n].mid \in {0, 1}
      <4> SUFFICES ASSUME NEW n \in DOMAIN applications PROVE applications'[n].mid \in {0, 1}
        BY <1>0
      <4>1. applications[n] \in Application /\ applications[n].mid \in {0, 1}
        BY <1>0, <2>0 DEF One
      <4>2. \/ applications'[n] = applications[n]
            \/ applications'[n] = [applications[n] EXCEPT !.status = "rejected"]
        BY <2>2 DEF Reject
      <4> DEFINE a == applications[n]
      <4>3. [a EXCEPT !.status = "rejected"].mid = a.mid
        <5> HIDE DEF a
        <5>1. a \in Application
          BY <4>1 DEF a
        <5> QED
          BY <5>1 DEF Application
      <4> QED
        BY <4>1, <4>2, <4>3
    <3> QED
      BY <1>4, <2>0, <2>2, <3>1 DEF Reject, One
  <2>3. CASE Exchange(c)
    <3>1. identity'.mid = identity.mid /\ granted'.mid = identity.mid
      BY <2>3 DEF Exchange, TypeOK
    <3> QED
      BY <1>4, <2>0, <2>3, <3>1 DEF Exchange, One
  <2> QED
    BY <2>1, <2>2, <2>3
<1> QED
  BY <1>2, <1>3, <1>5 DEF IdentityInv

LEMMA BeginIdentity ==
    ASSUME TypeOK, IdentityInv, NEW c \in Clients,
           \/ ExchangeBegin(c)
           \/ \E op \in {"token-request", "decide"} : SessionBegin(c, op)
           \/ \E op \in {"approve", "reject"}, n \in DOMAIN applications : ReviewBegin(c, op, n)
    PROVE  IdentityInv'
<1>0. calls \in [Clients -> Call] /\ sessions \in [Passwords -> Nat]
  BY DEF TypeOK, AccountsTypeOK
<1>1. UNCHANGED <<account, sessions, minted, granting>>
  BY DEF ExchangeBegin, SessionBegin, ReviewBegin
<1>2. account.exists
  <2>1. CASE ExchangeBegin(c)
    BY <2>1 DEF ExchangeBegin, IdentityInv, Empty
  <2>2. ASSUME NEW op, SessionBegin(c, op) PROVE account.exists
    BY <1>0, <2>2 DEF SessionBegin, LoggedIn, IdentityInv, Empty
  <2>3. ASSUME NEW op, NEW n \in DOMAIN applications PROVE account.exists
    BY <2>3 DEF IdentityInv, Empty
  <2> QED
    BY <2>1, <2>2, <2>3
<1>3. /\ \A d \in Clients \ {c} : calls'[d] = calls[d]
      /\ calls'[c].op \in Granting => calls'[c].seen.mid = account.mid
  BY <1>0 DEF ExchangeBegin, SessionBegin, ReviewBegin, Enter, Read, Granting
<1> QED
  BY <1>0, <1>1, <1>2, <1>3, KeepIdentity

LEMMA OtherIdentity ==
    ASSUME TypeOK, IdentityInv, Rotate \/ Revoke \/ Backfill \/ CreateIdentity \/ Disconnect
    PROVE  IdentityInv'
<1>1. UNCHANGED <<account, sessions, minted, calls, applications>>
  BY DEF Rotate, Revoke, SetToken, Backfill, CreateIdentity, Disconnect, vars
<1>2. /\ identity'.mid = identity.mid /\ granted'.mid = granted.mid
      /\ identity'.status \in {identity.status, "pending"}
  BY DEF Rotate, Revoke, SetToken, Backfill, CreateIdentity, Disconnect, TypeOK
<1>3. DOMAIN tokens' = DOMAIN tokens \/ DOMAIN tokens' = DOMAIN tokens \cup 1..minted
  BY DEF Rotate, Revoke, SetToken, Backfill, CreateIdentity, Disconnect
<1>4. ASSUME ~account.exists PROVE Empty'
  <2>1. Empty /\ 1..minted = {}
    BY <1>4 DEF IdentityInv, Empty
  <2> QED
    BY <1>1, <1>2, <1>3, <2>1 DEF Empty
<1>5. ASSUME account.exists, ~account.old PROVE One'
  <2>1. One /\ 1..minted = {1}
    BY <1>5 DEF IdentityInv, One
  <2> QED
    BY <1>1, <1>2, <1>3, <2>1 DEF One
<1> QED
  BY <1>1, <1>4, <1>5 DEF IdentityInv

\* A registered merchant keeps its id, and all it is granted is under it
\* (OneIdentity).
THEOREM IdentityIsKept == Spec => []OneIdentity
<1>1. BudgetInv /\ IdentityInv /\ [Next]_allVars => IdentityInv'
  <2> SUFFICES ASSUME BudgetInv, IdentityInv, [Next]_allVars PROVE IdentityInv'
    OBVIOUS
  <2>1. CASE UNCHANGED allVars
    BY <2>1 DEF allVars, vars, granting, IdentityInv, Empty, One
  <2>2. TypeOK
    BY DEF BudgetInv
  <2> QED
    BY <2>1, <2>2, AccountsIdentity, RegisterIdentity, RequestIdentity, CommandIdentity,
       BeginIdentity, OtherIdentity DEF Next
<1>2. IdentityInv => OneIdentity
  BY DEF IdentityInv, One, OneIdentity
<1> QED
  BY <1>1, <1>2, BudgetStep, InitBudget, InitIdentity, PTL DEF Spec
=============================================================================
