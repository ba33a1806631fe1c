-------------------------- MODULE RuntimeAccessProofs --------------------------
(***************************************************************************)
(* Theorems about the access configuration of an agent, for any number of  *)
(* requests and every bound on versions.                                   *)
(*                                                                         *)
(* The argument: staging ends every other pending version, so a pending    *)
(* version is the newest of all (OnlyHeadPending).  A withdrawal ends the  *)
(* pending one too.  What is pending when an activation counts its rows    *)
(* is therefore newer than everything served or withdrawn, whatever was    *)
(* committed since the activation read its row.                            *)
(*                                                                         *)
(* The actions touch the configurations in six ways (ConfigStep); the      *)
(* invariant is proved for those six.                                      *)
(***************************************************************************)
EXTENDS RuntimeAccess, SequenceTheorems, TLAPS

\* A pending version is the newest, can be used and was never in service.
OnlyHeadPending ==
    \A v \in DOMAIN configs : configs[v].status = "pending" =>
        v = Len(configs) /\ v > newest /\ v > withdrawn /\ configs[v].secret

\* The version in service is the newest ever served and not withdrawn.
OnlyNewestServed == \A v \in Active : v = newest /\ v > withdrawn

\* What the invariant needs to know of types.
ConfigTypes ==
    /\ configs \in Seq(Config)
    /\ newest \in 0 .. Len(configs) /\ withdrawn \in 0 .. Len(configs)
    /\ consent \in BOOLEAN

ConfigInv == /\ ConfigTypes
             /\ OnlyHeadPending
             /\ OnlyNewestServed
             /\ CustodyEndsWithConsent

\* The ways in which the configurations change.
Stages       == /\ configs' = Staged(configs)
                /\ UNCHANGED <<consent, newest, withdrawn>>
StagesServes == /\ Serve(Staged(configs), Len(configs) + 1)
                /\ UNCHANGED withdrawn
Serves(v)    == /\ StillPending(v) /\ Serve(configs, v)
                /\ UNCHANGED withdrawn
Invalidates(v) == /\ configs' = Invalidated(v)
                  /\ UNCHANGED <<consent, newest, withdrawn>>
Withdraws    == /\ configs' = Withdrawal(configs) /\ consent' = FALSE
                /\ withdrawn' = Len(configs) /\ UNCHANGED newest
Keeps        == UNCHANGED <<configs, consent, newest, withdrawn>>

ConfigStep ==
    \/ Stages \/ StagesServes \/ Withdraws \/ Keeps
    \/ \E v \in Nat : Serves(v) \/ Invalidates(v)
-----------------------------------------------------------------------------
\* Every action is one of the six as far as the configurations go.
LEMMA StepIsConfigStep ==
  ASSUME TypeOK, Next PROVE ConfigStep
<1> USE DEF history
<1>1. linked \in Nat
  BY DEF TypeOK
<1>2. CASE Rebind \/ Disconnect \/ LapseLinked \/ KeepaliveGrant \/ KeepaliveRevoke
           \/ OptIn \/ OptOut \/ Moderate \/ Restart
  BY <1>2 DEF Rebind, Disconnect, LapseLinked, KeepaliveGrant, KeepaliveRevoke, OptIn,
              OptOut, Moderate, Restart, ConfigStep, Keeps
<1>3. CASE BindWithConfig
  BY <1>3 DEF BindWithConfig, ConfigStep, StagesServes, NextVersion, HeadVersion
<1>4. CASE ConfirmLinked
  BY <1>1, <1>4 DEF ConfirmLinked, Activatable, StillPending, ConfigStep, Serves, Keeps
<1>5. CASE RejectLinked
  BY <1>1, <1>5 DEF RejectLinked, ConfigStep, Invalidates
<1>6. ASSUME NEW c \in Calls,
             FirstReads(c) \/ PutReads(c) \/ Recheck(c) \/ Fail(c) \/ WithdrawReads(c)
             \/ Candidate(c) \/ Claim(c) \/ Wake(c) \/ Ask(c) \/ Forward(c) \/ End(c)
      PROVE  ConfigStep
  BY <1>6 DEF FirstReads, PutReads, Recheck, Fail, WithdrawReads, Candidate, Claim, Wake,
              Ask, Forward, End, tables, ConfigStep, Keeps
<1>7. ASSUME NEW c \in Calls, RequestStages(c) \/ Stage(c) PROVE ConfigStep
  BY <1>7 DEF RequestStages, Stage, ConfigStep, Stages
<1>8. ASSUME NEW c \in Calls, Activate(c) PROVE ConfigStep
  <2>1. calls[c].at = "granted" /\ calls[c] \in Call
    BY <1>8 DEF TypeOK, Activate
  <2>2. calls[c].version \in Nat
    BY <2>1 DEF Call, Idle, Versions
  <2> QED
    BY <1>8, <2>2 DEF Activate, ConfigStep, Serves
<1>9. ASSUME NEW c \in Calls, Invalidate(c) PROVE ConfigStep
  <2>1. calls[c].at = "failed" /\ calls[c] \in Call
    BY <1>9 DEF TypeOK, Invalidate
  <2>2. calls[c].version \in Nat
    BY <2>1 DEF Call, Idle, Versions
  <2> QED
    BY <1>9, <2>2 DEF Invalidate, ConfigStep, Invalidates
<1>10. ASSUME NEW c \in Calls, Withdraw(c) PROVE ConfigStep
  BY <1>10 DEF Withdraw, ConfigStep, Withdraws, HeadVersion
<1> QED
  BY <1>2, <1>3, <1>4, <1>5, <1>6, <1>7, <1>8, <1>9, <1>10 DEF Next

-----------------------------------------------------------------------------
\* Ending a status.
LEMMA EndedConfig ==
  ASSUME NEW config \in Config,
         NEW status \in {"pending", "active"}, NEW ends \in {"revoked", "invalid"}
  PROVE  /\ Ended(config, status, ends) \in Config
         /\ Ended(config, status, ends).secret = config.secret
         /\ Ended(config, status, ends).status =
              IF config.status = status THEN ends ELSE config.status
BY DEF Ended, Config

\* Changing every configuration leaves a sequence of the same length.
LEMMA MappedConfigs ==
  ASSUME NEW cs \in Seq(Config), NEW f, DOMAIN f = DOMAIN cs,
         \A v \in DOMAIN cs : f[v] \in Config,
         f = [v \in DOMAIN cs |-> f[v]]
  PROVE  f \in Seq(Config) /\ Len(f) = Len(cs)
<1>1. DOMAIN cs = 1 .. Len(cs) /\ Len(cs) \in Nat
  OBVIOUS
<1>2. f \in [1 .. Len(cs) -> Config]
  BY <1>1
<1>3. f \in Seq(Config)
  BY <1>1, <1>2
<1> QED
  BY <1>1, <1>3

\* Staging adds a pending version and leaves no other.
LEMMA StagedConfigs ==
  ASSUME NEW cs \in Seq(Config)
  PROVE  /\ Staged(cs) \in Seq(Config) /\ Len(Staged(cs)) = Len(cs) + 1
         /\ DOMAIN Staged(cs) = 1 .. Len(cs) + 1
         /\ Staged(cs)[Len(cs) + 1] = [status |-> "pending", secret |-> TRUE]
         /\ \A v \in 1 .. Len(cs) :
               /\ Staged(cs)[v].secret = cs[v].secret
               /\ Staged(cs)[v].status =
                    IF cs[v].status = "pending" THEN "invalid" ELSE cs[v].status
<1> DEFINE old == [v \in DOMAIN cs |-> Ended(cs[v], "pending", "invalid")]
           new == [status |-> "pending", secret |-> TRUE]
<1>1. DOMAIN cs = 1 .. Len(cs) /\ Len(cs) \in Nat
  OBVIOUS
<1>2. \A v \in DOMAIN cs : cs[v] \in Config
  OBVIOUS
<1>3. \A v \in DOMAIN cs :
         /\ old[v] \in Config /\ old[v].secret = cs[v].secret
         /\ old[v].status = IF cs[v].status = "pending" THEN "invalid" ELSE cs[v].status
  BY <1>2, EndedConfig
<1>4. old \in Seq(Config) /\ Len(old) = Len(cs)
  BY <1>3, MappedConfigs
<1>5. new \in Config
  BY DEF Config
<1>6. Staged(cs) = Append(old, new)
  BY DEF Staged
<1> HIDE DEF old, new
<1>7. /\ Append(old, new) \in Seq(Config) /\ Len(Append(old, new)) = Len(cs) + 1
      /\ Append(old, new)[Len(cs) + 1] = new
      /\ \A v \in 1 .. Len(cs) : Append(old, new)[v] = old[v]
  BY <1>1, <1>4, <1>5
<1>8. DOMAIN Append(old, new) = 1 .. Len(cs) + 1
  BY <1>1, <1>7
<1> QED
  BY <1>1, <1>3, <1>6, <1>7, <1>8 DEF new

\* Activating a version ends the one in service.
LEMMA ActivatedConfigs ==
  ASSUME NEW cs \in Seq(Config), NEW v \in DOMAIN cs
  PROVE  /\ Activated(cs, v) \in Seq(Config) /\ Len(Activated(cs, v)) = Len(cs)
         /\ DOMAIN Activated(cs, v) = DOMAIN cs
         /\ \A u \in DOMAIN cs :
               /\ Activated(cs, v)[u].secret = cs[u].secret
               /\ Activated(cs, v)[u].status =
                    IF u = v THEN "active"
                    ELSE IF cs[u].status = "active" THEN "revoked" ELSE cs[u].status
<1>1. \A u \in DOMAIN cs : cs[u] \in Config
  OBVIOUS
<1>2. DOMAIN Activated(cs, v) = DOMAIN cs
  BY DEF Activated
<1>3. \A u \in DOMAIN cs :
         /\ Activated(cs, v)[u] \in Config
         /\ Activated(cs, v)[u].secret = cs[u].secret
         /\ Activated(cs, v)[u].status =
              IF u = v THEN "active"
              ELSE IF cs[u].status = "active" THEN "revoked" ELSE cs[u].status
  <2> SUFFICES ASSUME NEW u \in DOMAIN cs
               PROVE  /\ Activated(cs, v)[u] \in Config
                      /\ Activated(cs, v)[u].secret = cs[u].secret
                      /\ Activated(cs, v)[u].status =
                           IF u = v THEN "active"
                           ELSE IF cs[u].status = "active" THEN "revoked" ELSE cs[u].status
    OBVIOUS
  <2>1. CASE u = v
    BY <1>1, <2>1 DEF Activated, Config
  <2>2. CASE u # v
    <3>1. Activated(cs, v)[u] = Ended(cs[u], "active", "revoked")
      BY <2>2 DEF Activated
    <3> QED
      BY <1>1, <2>2, <3>1, EndedConfig
  <2> QED
    BY <2>1, <2>2
<1>4. Activated(cs, v) = [u \in DOMAIN cs |-> Activated(cs, v)[u]]
  BY DEF Activated
<1> QED
  BY <1>2, <1>3, <1>4, MappedConfigs

\* Invalidating touches one pending version at most.
LEMMA InvalidatedConfigs ==
  ASSUME configs \in Seq(Config), NEW v
  PROVE  /\ Invalidated(v) \in Seq(Config) /\ Len(Invalidated(v)) = Len(configs)
         /\ DOMAIN Invalidated(v) = DOMAIN configs
         /\ \A u \in DOMAIN configs :
               /\ Invalidated(v)[u].secret = configs[u].secret
               /\ Invalidated(v)[u].status =
                    IF u = v /\ configs[u].status = "pending" THEN "invalid"
                    ELSE configs[u].status
<1>1. \A u \in DOMAIN configs : configs[u] \in Config
  OBVIOUS
<1>2. DOMAIN Invalidated(v) = DOMAIN configs
  BY DEF Invalidated
<1>3. \A u \in DOMAIN configs :
         Invalidated(v)[u] = IF u = v THEN Ended(configs[u], "pending", "invalid") ELSE configs[u]
  BY DEF Invalidated
<1>4. \A u \in DOMAIN configs :
         /\ Invalidated(v)[u] \in Config
         /\ Invalidated(v)[u].secret = configs[u].secret
         /\ Invalidated(v)[u].status =
              IF u = v /\ configs[u].status = "pending" THEN "invalid" ELSE configs[u].status
  BY <1>1, <1>3, EndedConfig
<1>5. Invalidated(v) = [u \in DOMAIN configs |-> Invalidated(v)[u]]
  BY DEF Invalidated
<1> QED
  BY <1>2, <1>4, <1>5, MappedConfigs

\* A withdrawal leaves nothing usable and no share code.
LEMMA WithdrawnConfigs ==
  ASSUME NEW cs \in Seq(Config)
  PROVE  /\ Withdrawal(cs) \in Seq(Config) /\ Len(Withdrawal(cs)) = Len(cs)
         /\ DOMAIN Withdrawal(cs) = DOMAIN cs
         /\ \A v \in DOMAIN cs : /\ ~Withdrawal(cs)[v].secret
                                 /\ Withdrawal(cs)[v].status \in {"revoked", "invalid"}
<1>1. DOMAIN Withdrawal(cs) = DOMAIN cs
  BY DEF Withdrawal
<1>2. \A v \in DOMAIN cs : /\ Withdrawal(cs)[v] \in Config
                           /\ ~Withdrawal(cs)[v].secret
                           /\ Withdrawal(cs)[v].status \in {"revoked", "invalid"}
  <2> SUFFICES ASSUME NEW v \in DOMAIN cs
               PROVE  /\ Withdrawal(cs)[v] \in Config
                      /\ ~Withdrawal(cs)[v].secret
                      /\ Withdrawal(cs)[v].status \in {"revoked", "invalid"}
    OBVIOUS
  <2> DEFINE pending == Ended(cs[v], "pending", "invalid")
             ended   == Ended(pending, "active", "revoked")
  <2>1. cs[v] \in Config
    OBVIOUS
  <2>2. pending \in Config /\ pending.status # "pending"
    BY <2>1, EndedConfig
  <2>3. ended.status = IF pending.status = "active" THEN "revoked" ELSE pending.status
    BY <2>2, EndedConfig
  <2>4. Withdrawal(cs)[v] = [status |-> ended.status, secret |-> FALSE]
    BY DEF Withdrawal
  <2>5. pending.status \in {"pending", "active", "revoked", "invalid"}
    BY <2>2 DEF Config
  <2> HIDE DEF pending, ended
  <2>6. ended.status \in {"revoked", "invalid"}
    BY <2>2, <2>3, <2>5
  <2> QED
    BY <2>4, <2>6 DEF Config
<1>3. Withdrawal(cs) = [v \in DOMAIN cs |-> Withdrawal(cs)[v]]
  BY DEF Withdrawal
<1> QED
  BY <1>1, <1>2, <1>3, MappedConfigs
-----------------------------------------------------------------------------
\* The version in service, when the active ones are at most one.
LEMMA ServedIsNewest ==
  ASSUME ConfigInv
  PROVE  /\ Active = {} => Served = 0
         /\ Active # {} => Active = {newest} /\ Served = newest
<1>1. CASE Active = {}
  BY <1>1 DEF Served
<1>2. CASE Active # {}
  <2>1. Active = {newest}
    BY <1>2 DEF ConfigInv, OnlyNewestServed
  <2> QED
    BY <2>1 DEF Served
<1> QED
  BY <1>1, <1>2

\* What a step may do to the version in service.
MovesOn == /\ \A u, v \in Active' : u = v
           /\ Served' \in {Served, 0} \/ (Served' > newest /\ Served' > withdrawn)

\* Whoever stays in service, or leaves it, moves on.
LEMMA StaysOrLeaves ==
  ASSUME ConfigInv, ConfigInv', newest' = newest, Active' \subseteq Active
  PROVE  MovesOn
<1>1. \A u, v \in Active' : u = v
  BY DEF ConfigInv, OnlyNewestServed
<1>2. CASE Active' = {}
  <2>1. Served' = 0
    BY <1>2 DEF Served
  <2> QED
    BY <1>1, <2>1 DEF MovesOn
<1>3. CASE Active' # {}
  <2>1. Active = {newest} /\ Served = newest
    BY <1>3, ServedIsNewest
  <2>2. Active' = {newest}
    BY <1>3, <2>1
  <2>3. Served' = newest
    BY <2>2 DEF Served
  <2> QED
    BY <1>1, <2>1, <2>3 DEF MovesOn
<1> QED
  BY <1>2, <1>3

\* A version newer than all before comes into service.
LEMMA NewerIsServed ==
  ASSUME ConfigInv, NEW v \in Nat, v > newest, v > withdrawn, Active' = {v}
  PROVE  MovesOn
<1>1. Served' = v
  BY DEF Served
<1> QED
  BY <1>1 DEF MovesOn

\* The six ways keep the invariant and move on.
LEMMA StepKeeps ==
  ASSUME ConfigInv, ConfigStep PROVE ConfigInv' /\ MovesOn
<1> USE DEF ConfigInv
<1>1. /\ configs \in Seq(Config) /\ Len(configs) \in Nat /\ DOMAIN configs = 1 .. Len(configs)
      /\ newest \in 0 .. Len(configs) /\ withdrawn \in 0 .. Len(configs)
  BY DEF ConfigTypes
<1>2. CASE Keeps
  <2>1. ConfigInv'
    BY <1>2 DEF Keeps, ConfigTypes, OnlyHeadPending, OnlyNewestServed,
                CustodyEndsWithConsent, Active
  <2>2. Active' = Active
    BY <1>2 DEF Keeps, Active
  <2> QED
    BY <1>2, <2>1, <2>2, StaysOrLeaves DEF Keeps
<1>3. CASE Stages
  <2>1. /\ configs' = Staged(configs) /\ consent' = consent
        /\ newest' = newest /\ withdrawn' = withdrawn
    BY <1>3 DEF Stages
  <2>2. /\ configs' \in Seq(Config) /\ Len(configs') = Len(configs) + 1
        /\ DOMAIN configs' = 1 .. Len(configs) + 1
        /\ configs'[Len(configs) + 1] = [status |-> "pending", secret |-> TRUE]
        /\ \A v \in 1 .. Len(configs) :
              /\ configs'[v].secret = configs[v].secret
              /\ configs'[v].status =
                   IF configs[v].status = "pending" THEN "invalid" ELSE configs[v].status
    BY <1>1, <2>1, StagedConfigs
  <2>3. ConfigTypes'
    BY <1>1, <2>1, <2>2 DEF ConfigTypes
  <2>4. OnlyHeadPending'
    BY <1>1, <2>1, <2>2 DEF OnlyHeadPending
  <2>5. Active' = Active
    BY <1>1, <2>2 DEF Active
  <2>6. OnlyNewestServed'
    BY <2>1, <2>5 DEF OnlyNewestServed
  <2>7. CustodyEndsWithConsent'
    <3>1. \A v \in Active : v \in 1 .. Len(configs)
      BY <1>1 DEF Active
    <3> QED
      BY <1>1, <2>1, <2>2, <2>5, <3>1 DEF CustodyEndsWithConsent
  <2>8. ConfigInv'
    BY <2>3, <2>4, <2>6, <2>7
  <2> QED
    BY <2>1, <2>5, <2>8, StaysOrLeaves
<1>4. CASE StagesServes
  <2> DEFINE cs == Staged(configs)
             n  == Len(configs) + 1
  <2>1. /\ configs' = Activated(cs, n) /\ consent' = TRUE
        /\ newest' = n /\ withdrawn' = withdrawn
    BY <1>4 DEF StagesServes, Serve
  <2>2. /\ cs \in Seq(Config) /\ Len(cs) = n /\ DOMAIN cs = 1 .. n
        /\ cs[n] = [status |-> "pending", secret |-> TRUE]
        /\ \A v \in 1 .. Len(configs) :
              /\ cs[v].secret = configs[v].secret
              /\ cs[v].status =
                   IF configs[v].status = "pending" THEN "invalid" ELSE configs[v].status
    BY <1>1, StagedConfigs
  <2> HIDE DEF cs
  <2>3. n \in DOMAIN cs
    BY <1>1, <2>2
  <2>4. /\ configs' \in Seq(Config) /\ Len(configs') = n /\ DOMAIN configs' = 1 .. n
        /\ \A u \in 1 .. n :
              /\ configs'[u].secret = cs[u].secret
              /\ configs'[u].status =
                   IF u = n THEN "active"
                   ELSE IF cs[u].status = "active" THEN "revoked" ELSE cs[u].status
    BY <2>1, <2>2, <2>3, ActivatedConfigs
  <2>5. ConfigTypes'
    BY <1>1, <2>1, <2>4 DEF ConfigTypes
  <2>6. \A u \in 1 .. Len(configs) : u \in 1 .. n /\ u # n
    BY <1>1
  <2>7. /\ configs'[n].status = "active" /\ configs'[n].secret
        /\ \A u \in 1 .. Len(configs) : configs'[u].status \notin {"pending", "active"}
    <3>1. n \in 1 .. n
      BY <1>1
    <3>2. configs'[n].status = "active" /\ configs'[n].secret
      BY <2>2, <2>4, <3>1
    <3>3. ASSUME NEW u \in 1 .. Len(configs)
          PROVE  configs'[u].status \notin {"pending", "active"}
      <4>1. u \in 1 .. n /\ u # n
        BY <2>6
      <4>2. cs[u].status # "pending"
        BY <2>2
      <4>3. configs'[u].status = IF cs[u].status = "active" THEN "revoked" ELSE cs[u].status
        BY <2>4, <4>1
      <4> QED
        BY <4>2, <4>3
    <3> QED
      BY <3>2, <3>3
  <2>8. \A u \in 1 .. n : u = n \/ u \in 1 .. Len(configs)
    BY <1>1
  <2>9. Active' = {n}
    BY <1>1, <2>4, <2>7, <2>8 DEF Active
  <2>10. OnlyHeadPending'
    BY <2>4, <2>7, <2>8 DEF OnlyHeadPending
  <2>11. OnlyNewestServed'
    BY <1>1, <2>1, <2>9 DEF OnlyNewestServed
  <2>12. CustodyEndsWithConsent'
    <3>1. \A v \in 1 .. withdrawn : v \in 1 .. Len(configs) /\ v \in 1 .. n /\ v # n
      BY <1>1
    <3>2. \A v \in 1 .. withdrawn :
             configs'[v].status \in {"revoked", "invalid"} /\ ~configs'[v].secret
      BY <2>2, <2>4, <3>1 DEF CustodyEndsWithConsent
    <3> QED
      BY <2>1, <2>7, <2>9, <3>2 DEF CustodyEndsWithConsent
  <2>13. MovesOn
    BY <1>1, <2>9, NewerIsServed
  <2> QED
    BY <2>5, <2>10, <2>11, <2>12, <2>13
<1>5. ASSUME NEW v \in Nat, Serves(v) PROVE ConfigInv' /\ MovesOn
  <2>1. /\ v \in DOMAIN configs /\ configs[v].status = "pending"
        /\ configs' = Activated(configs, v) /\ consent' = TRUE
        /\ newest' = v /\ withdrawn' = withdrawn
    BY <1>5 DEF Serves, StillPending, Serve
  <2>2. /\ v = Len(configs) /\ v > newest /\ v > withdrawn /\ configs[v].secret
    BY <2>1 DEF OnlyHeadPending
  <2>3. /\ configs' \in Seq(Config) /\ Len(configs') = Len(configs)
        /\ DOMAIN configs' = DOMAIN configs
        /\ \A u \in DOMAIN configs :
              /\ configs'[u].secret = configs[u].secret
              /\ configs'[u].status =
                   IF u = v THEN "active"
                   ELSE IF configs[u].status = "active" THEN "revoked" ELSE configs[u].status
    BY <1>1, <2>1, ActivatedConfigs
  <2>4. ConfigTypes'
    BY <1>1, <2>1, <2>3 DEF ConfigTypes
  <2>5. Active' = {v}
    BY <2>1, <2>3 DEF Active
  <2>6. OnlyHeadPending'
    BY <2>2, <2>3 DEF OnlyHeadPending
  <2>7. OnlyNewestServed'
    BY <2>1, <2>2, <2>5 DEF OnlyNewestServed
  <2>8. CustodyEndsWithConsent'
    <3>0. withdrawn \in Nat /\ withdrawn < v /\ DOMAIN configs = 1 .. v
      BY <1>1, <2>2
    <3>1. \A u \in 1 .. withdrawn : u \in DOMAIN configs /\ u # v
      BY <3>0
    <3>2. \A u \in 1 .. withdrawn :
             configs'[u].status \in {"revoked", "invalid"} /\ ~configs'[u].secret
      BY <2>3, <3>1 DEF CustodyEndsWithConsent
    <3> QED
      BY <2>1, <2>2, <2>3, <2>5, <3>2 DEF CustodyEndsWithConsent
  <2>9. MovesOn
    BY <2>2, <2>5, NewerIsServed
  <2> QED
    BY <2>4, <2>6, <2>7, <2>8, <2>9
<1>6. ASSUME NEW v \in Nat, Invalidates(v) PROVE ConfigInv' /\ MovesOn
  <2>1. /\ configs' = Invalidated(v) /\ consent' = consent
        /\ newest' = newest /\ withdrawn' = withdrawn
    BY <1>6 DEF Invalidates
  <2>2. /\ configs' \in Seq(Config) /\ Len(configs') = Len(configs)
        /\ DOMAIN configs' = DOMAIN configs
        /\ \A u \in DOMAIN configs :
              /\ configs'[u].secret = configs[u].secret
              /\ configs'[u].status =
                   IF u = v /\ configs[u].status = "pending" THEN "invalid"
                   ELSE configs[u].status
    BY <1>1, <2>1, InvalidatedConfigs
  <2>3. ConfigTypes'
    BY <1>1, <2>1, <2>2 DEF ConfigTypes
  <2>4. Active' = Active
    BY <2>2 DEF Active
  <2>5. OnlyHeadPending'
    BY <2>1, <2>2 DEF OnlyHeadPending
  <2>6. OnlyNewestServed'
    BY <2>1, <2>4 DEF OnlyNewestServed
  <2>7. CustodyEndsWithConsent'
    <3>1. /\ \A u \in Active : u \in DOMAIN configs
          /\ \A u \in 1 .. withdrawn : u \in DOMAIN configs
      BY <1>1 DEF Active
    <3> QED
      BY <2>1, <2>2, <2>4, <3>1 DEF CustodyEndsWithConsent
  <2> QED
    BY <2>1, <2>3, <2>4, <2>5, <2>6, <2>7, StaysOrLeaves
<1>7. CASE Withdraws
  <2>1. /\ configs' = Withdrawal(configs) /\ consent' = FALSE
        /\ newest' = newest /\ withdrawn' = Len(configs)
    BY <1>7 DEF Withdraws
  <2>2. /\ configs' \in Seq(Config) /\ Len(configs') = Len(configs)
        /\ DOMAIN configs' = DOMAIN configs
        /\ \A v \in DOMAIN configs : /\ ~configs'[v].secret
                                     /\ configs'[v].status \in {"revoked", "invalid"}
    BY <1>1, <2>1, WithdrawnConfigs
  <2>3. ConfigTypes'
    <3>1. newest' \in 0 .. Len(configs') /\ withdrawn' \in 0 .. Len(configs')
      BY <1>1, <2>1, <2>2
    <3>2. consent' \in BOOLEAN
      BY <2>1
    <3> QED
      BY <2>2, <3>1, <3>2 DEF ConfigTypes
  <2>4. Active' = {}
    BY <2>2 DEF Active
  <2>5. OnlyHeadPending' /\ OnlyNewestServed'
    BY <2>2, <2>4 DEF OnlyHeadPending, OnlyNewestServed
  <2>6. CustodyEndsWithConsent'
    BY <1>1, <2>1, <2>2, <2>4 DEF CustodyEndsWithConsent
  <2> QED
    BY <2>1, <2>3, <2>4, <2>5, <2>6, StaysOrLeaves
<1> QED
  BY <1>2, <1>3, <1>4, <1>5, <1>6, <1>7 DEF ConfigStep
-----------------------------------------------------------------------------
\* Types: the rows that are not configurations, request by request.
LEMMA BindingTypes ==
  ASSUME issued \in 0 .. MaxBinding, live \in SUBSET (1 .. issued),
         Binding!Supersede \/ Binding!Disconnect
  PROVE  issued' \in 0 .. MaxBinding /\ live' \in SUBSET (1 .. issued')
<1>1. MaxBinding \in Nat
  BY BoundAssumption
<1>2. CASE Binding!Supersede
  BY <1>1, <1>2 DEF Binding!Supersede
<1>3. CASE Binding!Disconnect
  BY <1>3 DEF Binding!Disconnect
<1> QED
  BY <1>2, <1>3

LEMMA ProceedTypes ==
  ASSUME calls \in [Calls -> Call], NEW c \in Calls, NEW s \in Call, Proceed(c, s)
  PROVE  calls' \in [Calls -> Call]
BY DEF Proceed

LEMMA FinishTypes ==
  ASSUME calls \in [Calls -> Call], NEW c \in Calls, Finish(c)
  PROVE  calls' \in [Calls -> Call]
BY DEF Finish, Call

\* How many configurations a step leaves.
LEMMA ConfigBound ==
  ASSUME ConfigTypes, Len(configs) <= MaxConfig, ConfigStep,
         ConfigTypes', Stages \/ StagesServes => Len(configs) < MaxConfig
  PROVE  Len(configs') \in {Len(configs), Len(configs) + 1} /\ Len(configs') <= MaxConfig
<1>1. configs \in Seq(Config) /\ Len(configs) \in Nat /\ MaxConfig \in Nat
  BY BoundAssumption DEF ConfigTypes
<1>2. CASE Stages
  BY <1>1, <1>2, StagedConfigs DEF Stages
<1>3. CASE StagesServes
  <2>1. Staged(configs) \in Seq(Config) /\ Len(Staged(configs)) = Len(configs) + 1
        /\ Len(configs) + 1 \in DOMAIN Staged(configs)
    BY <1>1, StagedConfigs
  <2>2. Len(configs') = Len(configs) + 1
    BY <1>3, <2>1, ActivatedConfigs DEF StagesServes, Serve
  <2> QED
    BY <1>1, <1>3, <2>2
<1>4. CASE Withdraws
  BY <1>1, <1>4, WithdrawnConfigs DEF Withdraws
<1>5. CASE Keeps
  BY <1>1, <1>5 DEF Keeps
<1>6. ASSUME NEW v \in Nat, Serves(v) PROVE Len(configs') = Len(configs)
  BY <1>1, <1>6, ActivatedConfigs DEF Serves, StillPending, Serve
<1>7. ASSUME NEW v \in Nat, Invalidates(v) PROVE Len(configs') = Len(configs)
  BY <1>1, <1>7, InvalidatedConfigs DEF Invalidates
<1> QED
  BY <1>1, <1>2, <1>3, <1>4, <1>5, <1>6, <1>7 DEF ConfigStep

LEMMA TypeStep ==
  ASSUME TypeOK, ConfigInv, Next PROVE TypeOK'
<1>1. ConfigStep /\ ConfigInv'
  BY StepIsConfigStep, StepKeeps
<1>2. /\ issued \in 0 .. MaxBinding /\ live \in SUBSET (1 .. issued)
      /\ admin \in BOOLEAN /\ custody \in BOOLEAN
      /\ linked \in 0 .. Len(configs)
      /\ keepalive \in BOOLEAN /\ inquiry \in 0 .. MaxBinding
      /\ calls \in [Calls -> Call] /\ Len(configs) <= MaxConfig
      /\ configs \in Seq(Config)
  BY DEF TypeOK
<1>3. MaxBinding \in Nat /\ MaxConfig \in Nat /\ Len(configs) \in Nat
  BY <1>2, BoundAssumption
<1>4. \A b \in live : b \in Bindings
  BY <1>2, <1>3 DEF Bindings
<1> DEFINE Others == /\ issued' \in 0 .. MaxBinding /\ live' \in SUBSET (1 .. issued')
                     /\ admin' \in BOOLEAN /\ custody' \in BOOLEAN
                     /\ keepalive' \in BOOLEAN /\ inquiry' \in 0 .. MaxBinding
                     /\ calls' \in [Calls -> Call]
           Linked == linked' \in {0, linked}
                     \/ (linked' = Len(configs) + 1 /\ configs' = Staged(configs))
           Room   == Stages \/ StagesServes => Len(configs) < MaxConfig
<1>5. Len(Staged(configs)) = Len(configs) + 1
  BY <1>2, StagedConfigs
<1>6. \A v \in Nat : Len(Invalidated(v)) = Len(configs)
  BY <1>2, InvalidatedConfigs
<1>7. Len(Withdrawal(configs)) = Len(configs)
  BY <1>2, WithdrawnConfigs
<1>8. \A v \in DOMAIN configs : Len(Activated(configs, v)) = Len(configs)
  BY <1>2, ActivatedConfigs
<1>9. ASSUME Len(configs') = Len(configs) PROVE Room
  <2>1. ~Stages
    BY <1>3, <1>5, <1>9 DEF Stages
  <2>2. ~StagesServes
    <3>1. Staged(configs) \in Seq(Config) /\ Len(configs) + 1 \in DOMAIN Staged(configs)
      BY <1>2, <1>3, StagedConfigs
    <3>2. Len(Activated(Staged(configs), Len(configs) + 1)) = Len(configs) + 1
      BY <1>5, <3>1, ActivatedConfigs
    <3> QED
      BY <1>3, <1>9, <3>2 DEF StagesServes, Serve
  <2> QED
    BY <2>1, <2>2
<1>10. ASSUME Rebind \/ Disconnect PROVE Others /\ Linked /\ Room
  BY <1>2, <1>9, <1>10, BindingTypes DEF Rebind, Disconnect
<1>11. ASSUME BindWithConfig PROVE Others /\ Linked /\ Room
  BY <1>2, <1>11, BindingTypes DEF BindWithConfig, HeadVersion
<1>12. ASSUME ConfirmLinked PROVE Others /\ Linked /\ Room
  <2>1. Others /\ Linked
    BY <1>2, <1>12, BindingTypes DEF ConfirmLinked
  <2>2. Len(configs') = Len(configs)
    BY <1>8, <1>12 DEF ConfirmLinked, Serve, Activatable
  <2> QED
    BY <1>9, <2>1, <2>2
<1>13. ASSUME RejectLinked PROVE Others /\ Linked /\ Room
  <2>1. Others /\ Linked
    BY <1>2, <1>13 DEF RejectLinked
  <2>2. Len(configs') = Len(configs)
    BY <1>2, <1>6, <1>13 DEF RejectLinked
  <2> QED
    BY <1>9, <2>1, <2>2
<1>14. ASSUME LapseLinked PROVE Others /\ Linked /\ Room
  BY <1>2, <1>9, <1>14 DEF LapseLinked
<1>15. ASSUME KeepaliveGrant \/ KeepaliveRevoke PROVE Others /\ Linked /\ Room
  BY <1>2, <1>9, <1>15 DEF KeepaliveGrant, KeepaliveRevoke
<1>16. ASSUME OptIn \/ OptOut PROVE Others /\ Linked /\ Room
  <2>1. inquiry' \in 0 .. MaxBinding
    BY <1>3, <1>4, <1>16 DEF OptIn, OptOut, Bindings
  <2> QED
    BY <1>2, <1>9, <1>16, <2>1 DEF OptIn, OptOut
<1>17. ASSUME Moderate PROVE Others /\ Linked /\ Room
  BY <1>2, <1>9, <1>17 DEF Moderate
<1>18. ASSUME Restart PROVE Others /\ Linked /\ Room
  <2>1. calls' \in [Calls -> Call]
    BY <1>18 DEF Restart, Call
  <2> QED
    BY <1>2, <1>9, <1>18, <2>1 DEF Restart
<1>19. ASSUME NEW c \in Calls, RequestStages(c) PROVE Others /\ Linked /\ Room
  BY <1>2, <1>19, FinishTypes DEF RequestStages, NextVersion, HeadVersion
<1>20. ASSUME NEW c \in Calls, Stage(c) PROVE Others /\ Linked /\ Room
  <2>1. calls[c] \in Call /\ calls[c].at = "put"
    BY <1>2, <1>20 DEF Stage
  <2>2. calls[c].binding \in Bindings
    BY <2>1 DEF Call, Idle
  <2>3. NextVersion \in Versions
    BY <1>3, <1>20 DEF Stage, NextVersion, HeadVersion, Versions
  <2>4. [at |-> "challenge", binding |-> calls[c].binding, version |-> NextVersion] \in Call
    BY <2>2, <2>3 DEF Call
  <2>5. calls' \in [Calls -> Call]
    BY <1>2, <1>20, <2>4, ProceedTypes DEF Stage
  <2> QED
    BY <1>2, <1>20, <2>5 DEF Stage, HeadVersion
<1>21. ASSUME NEW c \in Calls, Activate(c) PROVE Others /\ Linked /\ Room
  <2>1. Others /\ Linked
    BY <1>2, <1>21, FinishTypes DEF Activate
  <2>2. Len(configs') = Len(configs)
    BY <1>8, <1>21 DEF Activate, Serve, StillPending
  <2> QED
    BY <1>9, <2>1, <2>2
<1>22. ASSUME NEW c \in Calls, Invalidate(c) PROVE Others /\ Linked /\ Room
  <2>1. Others /\ Linked
    BY <1>2, <1>22, FinishTypes DEF Invalidate
  <2>2. calls[c] \in Call /\ calls[c].at = "failed"
    BY <1>2, <1>22 DEF Invalidate
  <2>3. calls[c].version \in Nat
    BY <2>2 DEF Call, Idle, Versions
  <2>4. Len(configs') = Len(configs)
    BY <1>6, <1>22, <2>3 DEF Invalidate
  <2> QED
    BY <1>9, <2>1, <2>4
<1>23. ASSUME NEW c \in Calls, Withdraw(c) PROVE Others /\ Linked /\ Room
  BY <1>2, <1>7, <1>9, <1>23, FinishTypes DEF Withdraw
<1>24. ASSUME NEW c \in Calls, End(c) PROVE Others /\ Linked /\ Room
  BY <1>2, <1>9, <1>24, FinishTypes DEF End, tables
<1>25. ASSUME NEW c \in Calls,
              FirstReads(c) \/ PutReads(c) \/ WithdrawReads(c) \/ Candidate(c) \/ Ask(c)
       PROVE  Others /\ Linked /\ Room
  <2>1. [at |-> "first"] \in Call /\ [at |-> "withdrawing"] \in Call
    BY DEF Call
  <2>2. \A b \in Bindings : /\ [at |-> "put", binding |-> b] \in Call
                            /\ [at |-> "candidate", binding |-> b] \in Call
                            /\ [at |-> "asking", binding |-> b] \in Call
    BY DEF Call
  <2>3. calls' \in [Calls -> Call]
    BY <1>2, <1>4, <1>25, <2>1, <2>2, ProceedTypes
    DEF FirstReads, PutReads, WithdrawReads, Candidate, Ask, InquiryEnabled
  <2> QED
    BY <1>2, <1>9, <1>25, <2>3 DEF FirstReads, PutReads, WithdrawReads, Candidate, Ask, tables
<1>26. ASSUME NEW c \in Calls, Fail(c) \/ Recheck(c) \/ Wake(c)
       PROVE  Others /\ Linked /\ Room
  <2>1. calls[c] \in Call /\ calls[c].at \in {"challenge", "granted", "claimed"}
    BY <1>2, <1>26 DEF Fail, Recheck, Wake
  <2>2. /\ calls[c].version \in Versions
        /\ [calls[c] EXCEPT !.at = "granted"] \in Call
        /\ [calls[c] EXCEPT !.at = "sending"] \in Call
    BY <2>1 DEF Call, Idle
  <2>3. [at |-> "failed", version |-> calls[c].version] \in Call
    BY <2>2 DEF Call
  <2>4. calls' \in [Calls -> Call]
    BY <1>2, <1>26, <2>2, <2>3, ProceedTypes DEF Fail, Recheck, Wake
  <2> QED
    BY <1>2, <1>9, <1>26, <2>4 DEF Fail, Recheck, Wake, tables
<1>27. ASSUME NEW c \in Calls, Claim(c) \/ Forward(c) PROVE Others /\ Linked /\ Room
  <2>1. Served \in Versions
    <3>1. Active # {} /\ Active \subseteq DOMAIN configs
      BY <1>27 DEF Claim, Forward, Active
    <3>2. Served \in DOMAIN configs
      BY <3>1 DEF Served
    <3> QED
      BY <1>2, <1>3, <3>2 DEF Versions
  <2>2. CASE Claim(c)
    <3>1. calls[c] \in Call /\ calls[c].at = "candidate"
      BY <1>2, <2>2 DEF Claim
    <3>2. calls[c].binding \in Bindings
      BY <3>1 DEF Call, Idle
    <3>3. [at |-> "claimed", binding |-> calls[c].binding, version |-> Served] \in Call
      BY <2>1, <3>2 DEF Call
    <3>4. calls' \in [Calls -> Call]
      BY <1>2, <2>2, <3>3, ProceedTypes DEF Claim
    <3> QED
      BY <1>2, <1>9, <2>2, <3>4 DEF Claim, tables
  <2>3. CASE Forward(c)
    <3>1. PICK b \in live :
             Proceed(c, [at |-> "forwarding", binding |-> b, version |-> Served])
      BY <2>3 DEF Forward
    <3>2. [at |-> "forwarding", binding |-> b, version |-> Served] \in Call
      BY <1>4, <2>1 DEF Call
    <3>3. calls' \in [Calls -> Call]
      BY <1>2, <3>1, <3>2, ProceedTypes
    <3> QED
      BY <1>2, <1>9, <2>3, <3>3 DEF Forward, tables
  <2> QED
    BY <1>27, <2>2, <2>3
<1>28. Others /\ Linked /\ Room
  BY <1>10, <1>11, <1>12, <1>13, <1>14, <1>15, <1>16, <1>17, <1>18, <1>19, <1>20,
     <1>21, <1>22, <1>23, <1>24, <1>25, <1>26, <1>27 DEF Next
<1>29. Len(configs') \in {Len(configs), Len(configs) + 1} /\ Len(configs') <= MaxConfig
  <2>1. ConfigTypes /\ ConfigTypes'
    BY <1>1 DEF ConfigInv
  <2> QED
    BY <1>1, <1>2, <1>28, <2>1, ConfigBound
<1>30. linked' \in 0 .. Len(configs')
  BY <1>2, <1>3, <1>5, <1>28, <1>29
<1> QED
  BY <1>1, <1>28, <1>29, <1>30 DEF TypeOK, ConfigInv, ConfigTypes
-----------------------------------------------------------------------------
IInv == TypeOK /\ ConfigInv

LEMMA InitHolds == Init => IInv
<1> SUFFICES ASSUME Init PROVE IInv
  OBVIOUS
<1> USE DEF Init
<1>1. configs \in Seq(Config) /\ Len(configs) = 0 /\ DOMAIN configs = {}
  OBVIOUS
<1>2. Active = {}
  BY <1>1 DEF Active
<1>3. calls \in [Calls -> Call]
  BY DEF Call
<1>4. TypeOK
  <2>1. issued \in 0 .. MaxBinding /\ inquiry \in 0 .. MaxBinding /\ Len(configs) <= MaxConfig
    BY <1>1, BoundAssumption
  <2>2. linked \in 0 .. Len(configs) /\ newest \in 0 .. Len(configs)
        /\ withdrawn \in 0 .. Len(configs)
    BY <1>1
  <2>3. admin \in BOOLEAN /\ custody \in BOOLEAN /\ consent \in BOOLEAN
        /\ keepalive \in BOOLEAN /\ live \in SUBSET (1 .. issued)
    OBVIOUS
  <2> QED
    BY <1>1, <1>3, <2>1, <2>2, <2>3 DEF TypeOK
<1>5. ConfigInv
  <2>1. ConfigTypes
    BY <1>4 DEF TypeOK, ConfigTypes
  <2>2. OnlyHeadPending /\ OnlyNewestServed
    BY <1>1, <1>2 DEF OnlyHeadPending, OnlyNewestServed
  <2>3. 1 .. withdrawn = {}
    OBVIOUS
  <2> QED
    BY <1>2, <2>1, <2>2, <2>3 DEF ConfigInv, CustodyEndsWithConsent
<1> QED
  BY <1>4, <1>5 DEF IInv

LEMMA NextHolds == IInv /\ [Next]_vars => IInv' /\ [MovesOn]_vars
<1> SUFFICES ASSUME IInv, [Next]_vars PROVE IInv' /\ [MovesOn]_vars
  OBVIOUS
<1>1. CASE Next
  <2>1. ConfigInv' /\ MovesOn
    BY <1>1, StepIsConfigStep, StepKeeps DEF IInv
  <2>2. TypeOK'
    BY <1>1, TypeStep DEF IInv
  <2> QED
    BY <2>1, <2>2 DEF IInv
<1>2. CASE UNCHANGED vars
  BY <1>2 DEF vars, tables, history, IInv, TypeOK, ConfigInv, ConfigTypes, OnlyHeadPending,
              OnlyNewestServed, CustodyEndsWithConsent, Active
<1> QED
  BY <1>1, <1>2

\* Rows, requests and histories keep their types.
THEOREM TypeCorrect == Spec => []TypeOK
<1>1. Spec => []IInv
  BY InitHolds, NextHolds, PTL DEF Spec
<1> QED
  BY <1>1, PTL DEF IInv

\* No share code is served without the merchant's consent, and none is left
\* of what was withdrawn, however many requests are in flight.
THEOREM CustodyEnds == Spec => []CustodyEndsWithConsent
<1>1. Spec => []IInv
  BY InitHolds, NextHolds, PTL DEF Spec
<1> QED
  BY <1>1, PTL DEF IInv, ConfigInv

\* Versions come into service in their order, one at a time.
THEOREM VersionsMoveOn == Spec => ServedMovesOn
<1>1. Spec => []IInv
  BY InitHolds, NextHolds, PTL DEF Spec
<1>2. MovesOn <=> /\ \A u, v \in Active' : u = v
                  /\ Served' \in {Served, 0} \/ (Served' > newest /\ Served' > withdrawn)
  BY DEF MovesOn
<1>3. Spec => [][MovesOn]_vars
  BY <1>1, NextHolds, PTL DEF Spec
<1> QED
  BY <1>2, <1>3, PTL DEF ServedMovesOn, MovesOn
=============================================================================
