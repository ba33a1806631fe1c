----------------------------- MODULE CatalogAgents -----------------------------
(***************************************************************************)
(* The catalog's agents: registration, claims, moderation, heartbeats, and *)
(* the verification ladder that runs over the network beside all of them   *)
(* (services/agent_verification.py, services/agent_catalog_writes.py,      *)
(* services/account_agents.py, agent_catalog/sqlite_repository.py,         *)
(* api/handlers/agent_catalog.py).                                         *)
(*                                                                         *)
(* A request that spends its rate limit or checks a session first holds    *)
(* SQLite's write lock before it reads an agent: it is one action.  The    *)
(* ladder and the domain challenge of a claim read, talk to the network    *)
(* without a transaction, and write later: they have a control point.      *)
(*                                                                         *)
(* The two profiles of an agent are always fetched, indexed and removed    *)
(* together and are one; their content matters by the domain it came from. *)
(* Stale and unreachable are both "not fresh".  Level 0 is DISCOVERED,     *)
(* level n the n-th rung: a ladder passes through PROFILE_VALID but never  *)
(* commits it.                                                             *)
(***************************************************************************)
EXTENDS Integers

CONSTANTS
    Agents, Merchants, Domains,
    Runs,      \* ladders: queue runners and synchronous verify requests
    Claims,    \* claim requests
    Top,       \* rungs of evidence: domain, identity, commerce in the code
    None,
    AtomicDomainWrites  \* hypothesis: what set_state_domains writes is what it
                        \* would write had it read the row just before

ASSUME TopAssumption  == Top \in Nat \ {0}
ASSUME NoneAssumption == None \notin Merchants \cup Domains
ASSUME AtomicAssumption == AtomicDomainWrites \in BOOLEAN

Rungs  == 1 .. Top
Levels == 0 .. Top
Owners == Merchants \cup {None}
Hosts  == Domains \cup {None}

VARIABLES
    agents,    \* catalog_agents, with the evidence and profile of each
    runs,      \* every ladder: its control point and what it has read
    claims,    \* every claim: its control point and what it has read
    decision   \* history: the last decision on an agent's administration

vars == <<agents, runs, claims, decision>>

Rows == [merchant : Owners, domain : Hosts, level : Levels, fresh : BOOLEAN,
         admin : {"absent", "active", "suspended"},
         urls : Hosts,              \* domain of the profile endpoints
         profile : Hosts,           \* domain of snapshots and profile index
         proved : [Rungs -> Hosts], \* domain of the latest passed evidence
         valid : SUBSET Rungs]      \* ... that has not expired

NoEvidence == [x \in Rungs |-> None]
NoAgent == [merchant |-> None, domain |-> None, level |-> 0, fresh |-> TRUE,
            admin |-> "absent", urls |-> None, profile |-> None,
            proved |-> NoEvidence, valid |-> {}]

Idle == [at |-> "idle"]

Live(a)     == agents[a].admin # "absent"
Active(a)   == agents[a].admin = "active"
OwnedBy(m)  == {a \in Agents : Live(a) /\ agents[a].merchant = m}

Init ==
    /\ agents = [a \in Agents |-> NoAgent]
    /\ runs = [r \in Runs |-> Idle]
    /\ claims = [c \in Claims |-> Idle]
    /\ decision = [a \in Agents |-> "absent"]

(***************************************************************************)
(* Registration.  A merchant has one agent, which registering again        *)
(* re-opens in place; a new domain is a new trust boundary.  Without a     *)
(* merchant a domain has one agent.                                        *)
(***************************************************************************)
NewDomain(a, d) == Live(a) /\ agents[a].domain \notin {None, d}

\* upsert_catalog_agent and the endpoints a registration brings with it.
Upserted(a, m, d, u) ==
    [agents[a] EXCEPT !.merchant = m, !.domain = d, !.level = 0,
                      !.fresh = TRUE, !.admin = "active",
                      !.urls = IF u = None THEN @ ELSE u]

\* _purge_domain_bound_claims and _purge_stale_profile_endpoints: nothing that
\* was derived under another domain stays.
Purged(row, d) ==
    [row EXCEPT !.urls = IF @ # d THEN None ELSE @, !.profile = None,
                !.proved = NoEvidence, !.valid = {}]

\* Variant with a plausible bug: a new domain keeps the old evidence.
BugReopened(a, m, d, u) == Upserted(a, m, d, u)

\* The row that registering leaves.
Reopened(a, m, d, u) ==
    LET row == Upserted(a, m, d, u) IN
    IF NewDomain(a, d) THEN Purged(row, d) ELSE row

\* The agent a merchant's registration writes: its active one, else its
\* suspended one, else a new one.
Target(m) ==
    LET active == {a \in OwnedBy(m) : Active(a)} IN
    IF active # {} THEN active
    ELSE IF OwnedBy(m) # {} THEN OwnedBy(m)
    ELSE {a \in Agents : ~Live(a)}

Register(m, d, u) ==
    /\ \E a \in Target(m) :
         /\ agents' = [agents EXCEPT ![a] = Reopened(a, m, d, u)]
         /\ decision' = [decision EXCEPT ![a] = "active"]
    /\ UNCHANGED <<runs, claims>>

RegisterAnonymous(d, u) ==
    LET here == {a \in Agents : Live(a) /\ agents[a].domain = d} IN
    /\ \A a \in here : agents[a].merchant = None /\ ~Active(a)
    /\ \E a \in IF here # {} THEN here ELSE {b \in Agents : ~Live(b)} :
         /\ agents' = [agents EXCEPT ![a] = Reopened(a, None, d, u)]
         /\ decision' = [decision EXCEPT ![a] = "active"]
    /\ UNCHANGED <<runs, claims>>

\* Access set up from a merchant's account: an agent without a domain.
CreateAccess(m) ==
    /\ OwnedBy(m) = {}
    /\ \E a \in Agents :
         /\ ~Live(a)
         /\ agents' = [agents EXCEPT ![a].merchant = m, ![a].admin = "active"]
         /\ decision' = [decision EXCEPT ![a] = "active"]
    /\ UNCHANGED <<runs, claims>>

(***************************************************************************)
(* Claims: the owner is read before the domain challenge and compared      *)
(* after it; the unique index on merchant_id has the last word.            *)
(***************************************************************************)
ClaimBegin(c, a, m) ==
    /\ claims[c] = Idle
    /\ Live(a) /\ agents[a].domain # None
    /\ OwnedBy(m) \subseteq {a}
    /\ claims' = [claims EXCEPT ![c] =
         [at |-> "prove", agent |-> a, merchant |-> m,
          owner |-> agents[a].merchant]]
    /\ UNCHANGED <<agents, runs, decision>>

\* Variant with a plausible bug: no unique index behind the first check.
BugClaimAllowed(c) == claims[c].owner \in {None, claims[c].merchant}

ClaimAllowed(c) ==
    /\ claims[c].owner \in {None, claims[c].merchant}
    /\ OwnedBy(claims[c].merchant) \subseteq {claims[c].agent}

ClaimFinish(c) ==
    /\ claims[c].at = "prove"
    /\ ClaimAllowed(c)
    /\ agents' = [agents EXCEPT ![claims[c].agent].merchant =
                                    claims[c].merchant]
    /\ claims' = [claims EXCEPT ![c] = Idle]
    /\ UNCHANGED <<runs, decision>>

\* The challenge fails, the claim conflicts, or its process dies.
ClaimEnds(c) ==
    /\ claims[c].at = "prove"
    /\ claims' = [claims EXCEPT ![c] = Idle]
    /\ UNCHANGED <<agents, runs, decision>>

(***************************************************************************)
(* Moderation and heartbeats.                                              *)
(***************************************************************************)
Suspend(a) ==
    /\ Active(a)
    /\ agents' = [agents EXCEPT ![a].admin = "suspended"]
    /\ decision' = [decision EXCEPT ![a] = "suspended"]
    /\ UNCHANGED <<runs, claims>>

Reinstate(a) ==
    /\ agents[a].admin = "suspended"
    /\ agents' = [agents EXCEPT ![a].admin = "active"]
    /\ decision' = [decision EXCEPT ![a] = "active"]
    /\ UNCHANGED <<runs, claims>>

Heartbeat(a) ==
    /\ Active(a) /\ ~agents[a].fresh
    /\ agents' = [agents EXCEPT ![a].fresh = TRUE]
    /\ UNCHANGED <<runs, claims, decision>>

EvidenceExpires(a, x) ==
    /\ x \in agents[a].valid
    /\ agents' = [agents EXCEPT ![a].valid = @ \ {x}]
    /\ UNCHANGED <<runs, claims, decision>>

(***************************************************************************)
(* The ladder.  highest_supported_level: the highest level not above the   *)
(* given one whose latest passed evidence has not expired.                 *)
(***************************************************************************)
\* Variant with a plausible bug: expired evidence counts.
BugSupported(from, row) ==
    LET backed == {x \in 1 .. from : row.proved[x] # None}
    IN CHOOSE l \in backed \cup {0} : \A x \in backed : x <= l

Supported(from, row) ==
    LET backed == {x \in 1 .. from : row.proved[x] # None /\ x \in row.valid}
    IN CHOOSE l \in backed \cup {0} : \A x \in backed : x <= l

OnLadder(a) == agents[a].fresh /\ agents[a].level > 0

\* verify reads the agent; refresh forces it past the freshness gate, and
\* then may owe an audit entry that an expired snapshot was found.
VerifyBegin(r, a, force, audit) ==
    /\ runs[r] = Idle
    /\ Active(a)
    /\ OnLadder(a) => force
    /\ audit => force /\ OnLadder(a)
    /\ runs' = [runs EXCEPT ![r] =
         [at |-> "load", agent |-> a, audit |-> audit,
          merchant |-> agents[a].merchant, domain |-> agents[a].domain,
          level |-> agents[a].level]]
    /\ UNCHANGED <<agents, claims, decision>>

Fail(r, recompute) ==
    [at |-> "fail", agent |-> runs[r].agent, audit |-> runs[r].audit,
     recompute |-> recompute]

\* _load_profiles: the endpoints must be there and under the domain the
\* agent has now.
LoadProfiles(r) ==
    LET row == agents[runs[r].agent] IN
    /\ runs[r].at = "load"
    /\ runs' = [runs EXCEPT ![r] =
         IF row.urls # None /\ row.urls = row.domain
         THEN [at |-> "fetch", agent |-> @.agent, audit |-> @.audit,
               merchant |-> @.merchant, domain |-> @.domain,
               level |-> @.level, urls |-> row.urls]
         ELSE Fail(r, TRUE)]
    /\ UNCHANGED <<agents, claims, decision>>

\* No answer only costs freshness; a blocked, oversized or invalid one
\* invalidates evidence.
FetchFails(r, recompute) ==
    /\ runs[r].at = "fetch"
    /\ runs' = [runs EXCEPT ![r] = Fail(r, recompute)]
    /\ UNCHANGED <<agents, claims, decision>>

\* Snapshots, index and endpoints are written and committed before the
\* domain is challenged; endpoints that left the captured domain end the run.
IndexProfiles(r) ==
    /\ runs[r].at = "fetch"
    /\ agents' = [agents EXCEPT ![runs[r].agent].profile = runs[r].urls,
                                ![runs[r].agent].urls = runs[r].urls]
    /\ runs' = [runs EXCEPT ![r] =
         IF @.domain \in {None, @.urls} THEN [@ EXCEPT !.at = "prove"]
         ELSE Idle]
    /\ UNCHANGED <<claims, decision>>

\* Variant with a plausible bug: the domain is not re-read.
BugSameSubject(r) ==
    LET row == agents[runs[r].agent] IN
    /\ row.admin = "active" /\ row.merchant = runs[r].merchant
    /\ row.urls = runs[r].urls

\* _begin_verified_persistence, under the write lock.
UnchangedSince(r) ==
    LET row == agents[runs[r].agent] IN
    /\ row.admin = "active"
    /\ row.domain = runs[r].domain /\ row.merchant = runs[r].merchant
    /\ row.urls = runs[r].urls

\* The first k rungs passed, on the domain the run started with: their
\* evidence is recorded.
Evidence(row, d, k) ==
    [row EXCEPT !.fresh = TRUE,
                !.proved = [x \in Rungs |-> IF x <= k THEN d ELSE @[x]],
                !.valid = @ \cup 1 .. k]

\* A run that passes every rung reaches the top; a run that fails one keeps
\* the highest level still supported, up to the level the run started from.
Persist(r, k) ==
    LET a == runs[r].agent
        row == Evidence(agents[a], runs[r].domain, k) IN
    /\ runs[r].at = "prove"
    /\ UnchangedSince(r)
    /\ agents' = [agents EXCEPT ![a] =
         [row EXCEPT !.level = IF k = Top THEN Top
                               ELSE Supported(runs[r].level, row)]]
    /\ runs' = [runs EXCEPT ![r] = Idle]
    /\ UNCHANGED <<claims, decision>>

(***************************************************************************)
(* A profile failure.  set_state_domains writes all three domains, two of  *)
(* them as it read them; only an audit entry written before takes the lock *)
(* before that read.                                                       *)
(***************************************************************************)
\* Variant with a plausible bug: the failure is written as the legacy
\* status "stale", which stands for discovered, stale and active.
BugFailed(row, recompute) ==
    [row EXCEPT !.level = 0, !.fresh = FALSE, !.admin = "active"]

Failed(row, recompute) ==
    [row EXCEPT !.level = IF recompute THEN Supported(row.level, row) ELSE @,
                !.fresh = FALSE]

FailAtOnce(r) ==
    LET a == runs[r].agent IN
    /\ runs[r].at = "fail"
    /\ runs[r].audit
    /\ agents' = [agents EXCEPT ![a] = Failed(agents[a], runs[r].recompute)]
    /\ runs' = [runs EXCEPT ![r] = Idle]
    /\ UNCHANGED <<claims, decision>>

FailRead(r) ==
    LET row == agents[runs[r].agent] IN
    /\ runs[r].at = "fail"
    /\ ~runs[r].audit
    /\ runs' = [runs EXCEPT ![r] =
         [at |-> "write", agent |-> @.agent, admin |-> row.admin,
          level |-> Failed(row, @.recompute).level]]
    /\ UNCHANGED <<agents, claims, decision>>

\* The row as it was read, with its failure.
Written(r) == [agents[runs[r].agent] EXCEPT !.level = runs[r].level,
                                            !.fresh = FALSE,
                                            !.admin = runs[r].admin]

FailWrite(r) ==
    LET a == runs[r].agent IN
    /\ runs[r].at = "write"
    /\ AtomicDomainWrites =>
           \E recompute \in BOOLEAN : Written(r) = Failed(agents[a], recompute)
    /\ agents' = [agents EXCEPT ![a] = Written(r)]
    /\ runs' = [runs EXCEPT ![r] = Idle]
    /\ UNCHANGED <<claims, decision>>

\* The agent changed since it was read, the run raised, timed out or died:
\* what it has not committed is gone.
RunAbandoned(r) ==
    /\ runs[r] # Idle
    /\ runs' = [runs EXCEPT ![r] = Idle]
    /\ UNCHANGED <<agents, claims, decision>>

Registration ==
    \/ \E m \in Merchants, d \in Domains, u \in Hosts : Register(m, d, u)
    \/ \E d \in Domains, u \in Hosts : RegisterAnonymous(d, u)
    \/ \E m \in Merchants : CreateAccess(m)

Claiming ==
    \E c \in Claims :
        \/ \E a \in Agents, m \in Merchants : ClaimBegin(c, a, m)
        \/ ClaimFinish(c)
        \/ ClaimEnds(c)

Moderation ==
    \E a \in Agents :
        \/ Suspend(a)
        \/ Reinstate(a)
        \/ Heartbeat(a)
        \/ \E x \in Rungs : EvidenceExpires(a, x)

Ladder ==
    \E r \in Runs :
        \/ \E a \in Agents, force, audit \in BOOLEAN :
               VerifyBegin(r, a, force, audit)
        \/ LoadProfiles(r)
        \/ \E recompute \in BOOLEAN : FetchFails(r, recompute)
        \/ IndexProfiles(r)
        \/ \E k \in Levels : Persist(r, k)
        \/ FailAtOnce(r)
        \/ FailRead(r)
        \/ FailWrite(r)
        \/ RunAbandoned(r)

Next == Registration \/ Claiming \/ Moderation \/ Ladder

Spec == Init /\ [][Next]_vars
-----------------------------------------------------------------------------
RunStates ==
    {Idle}
    \cup [at : {"load"}, agent : Agents, audit : BOOLEAN, merchant : Owners,
          domain : Hosts, level : Levels]
    \cup [at : {"fetch", "prove"}, agent : Agents, audit : BOOLEAN,
          merchant : Owners, domain : Hosts, level : Levels, urls : Domains]
    \cup [at : {"fail"}, agent : Agents, audit : BOOLEAN, recompute : BOOLEAN]
    \cup [at : {"write"}, agent : Agents, level : Levels,
          admin : {"active", "suspended"}]

ClaimStates ==
    {Idle} \cup [at : {"prove"}, agent : Agents, merchant : Merchants,
                 owner : Owners]

\* Every variable has its type.
TypeOK ==
    /\ agents \in [Agents -> Rows]
    /\ runs \in [Runs -> RunStates]
    /\ claims \in [Claims -> ClaimStates]
    /\ decision \in [Agents -> {"absent", "active", "suspended"}]

\* All evidence an agent has is about the domain it has now: no ladder in
\* flight carries evidence across a registration under another domain.
EvidenceIsOwn ==
    \A a \in Agents, x \in Rungs :
        agents[a].proved[x] \in {None, agents[a].domain}

\* Every rung up to an agent's level was once proved, for the domain the
\* agent has now: no ladder in flight restores a level that a registration
\* under another domain took away.
LevelsAreEarned ==
    \A a \in Agents : \A x \in 1 .. agents[a].level :
        agents[a].domain # None /\ agents[a].proved[x] = agents[a].domain

\* An agent's administration is as it was last decided, by a moderator or by
\* a registration that re-opened it: no ladder undoes a decision.
DecisionsHold ==
    \A a \in Agents : agents[a].admin = decision[a]

\* No two agents have one owner, whatever claims and registrations overlap.
OneAgentPerMerchant ==
    \A m \in Merchants : \A a, b \in OwnedBy(m) : a = b

\* No step of a ladder leaves a suspended agent higher than it was.
NoPromotionWhileSuspended ==
    [][\A a \in Agents :
          agents[a].admin = "suspended" => agents'[a].level <= agents[a].level
      ]_vars

\* A level that changes rests on unexpired evidence of its own rung.
ChangedLevelsAreBacked ==
    [][\A a \in Agents :
          agents'[a].level # agents[a].level =>
              agents'[a].level \in agents'[a].valid \cup {0}
      ]_vars

\* What is indexed for an agent was fetched from its own domain.  It fails: a
\* ladder in flight indexes after the agent moved to another domain.
IndexedUnderOwnDomain ==
    \A a \in Agents : agents[a].profile \in {None, agents[a].domain}

\* Nobody takes an agent over from its owner.  It fails: of two claims in
\* flight the second compares with the owner before the first.
OwnerIsKept ==
    [][\A a \in Agents :
          agents[a].merchant # None => agents'[a].merchant = agents[a].merchant
      ]_vars
=============================================================================
