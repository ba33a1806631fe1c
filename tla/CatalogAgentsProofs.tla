-------------------------- MODULE CatalogAgentsProofs --------------------------
(***************************************************************************)
(* Theorems about the catalog's agents, for every number of agents,        *)
(* merchants, domains, ladders, claims and rungs.                          *)
(*                                                                         *)
(* That levels are earned is not inductive.  A ladder that reaches the top *)
(* proves every rung, but a ladder that fails falls back on evidence       *)
(* somebody else recorded: the evidence has to be about the agent's own    *)
(* domain and without gaps, and a ladder that has profiles in hand has to  *)
(* be about an agent that still has a domain.                              *)
(***************************************************************************)
EXTENDS CatalogAgents, WellFoundedInduction, NaturalsInduction, TLAPS

\* Whoever proved a rung proved those below it.
Gapless ==
    \A a \in Agents : \A x, y \in Rungs :
        x <= y /\ agents[a].proved[y] # None => agents[a].proved[x] # None

\* An agent that does not exist has no domain.
AbsentIsBare ==
    \A a \in Agents : ~Live(a) => agents[a].domain = None

\* A ladder is about an agent that exists, and profiles were loaded for an
\* agent with a domain: neither agents nor domains ever go.
LaddersHaveAgents ==
    \A r \in Runs :
        /\ runs[r] # Idle => Live(runs[r].agent)
        /\ runs[r].at \in {"fetch", "prove"} =>
             agents[runs[r].agent].domain # None

\* With atomic writes the rung of an agent's level is proved.
LevelsAreBacked ==
    AtomicDomainWrites => \A a \in Agents :
        agents[a].level # 0 => agents[a].proved[agents[a].level] # None

IInv == /\ TypeOK
        /\ EvidenceIsOwn
        /\ Gapless
        /\ AbsentIsBare
        /\ LaddersHaveAgents
        /\ LevelsAreBacked
-----------------------------------------------------------------------------
\* A set of naturals below a bound has a greatest element or is empty.
LEMMA GreatestBelow ==
  ASSUME NEW n \in Nat, NEW S \in SUBSET (1 .. n)
  PROVE  \E l \in S \cup {0} : \A x \in S : x <= l
<1>1. CASE S = {}
  BY <1>1
<1>2. CASE S # {}
  <2> DEFINE T == {n - v : v \in S}
  <2>1. T \subseteq Nat /\ T # {}
    <3>1. \A v \in S : n - v \in Nat
      <4> SUFFICES ASSUME NEW v \in S PROVE n - v \in Nat
        OBVIOUS
      <4>1. v \in 1 .. n
        OBVIOUS
      <4> QED
        BY <4>1
    <3>2. PICK s \in S : TRUE
      BY <1>2
    <3>3. n - s \in T
      BY <3>2
    <3> QED
      BY <3>1, <3>3
  <2>2. PICK x \in T : \A y \in T : ~ (<<y, x>> \in OpToRel(<, Nat))
    <3> HIDE DEF T
    <3> QED
      BY <2>1, NatLessThanWellFounded, WFMin
  <2>3. \A y \in T : ~(y < x)
    <3> SUFFICES ASSUME NEW y \in T, y < x PROVE FALSE
      OBVIOUS
    <3>1. x \in Nat /\ y \in Nat
      BY <2>1, <2>2
    <3> HIDE DEF T
    <3>2. <<y, x>> \in OpToRel(<, Nat)
      BY <3>1 DEF OpToRel
    <3> QED
      BY <2>2, <3>2
  <2>4. PICK v \in S : x = n - v
    BY <2>2
  <2>5. \A w \in S : ~(n - w < n - v)
    BY <2>3, <2>4
  <2> QED
    BY <2>4, <2>5
<1> QED
  BY <1>1, <1>2

\* What highest_supported_level returns: a level not above the given one, and
\* above the ground only with unexpired evidence of its own rung.
LEMMA SupportedLevel ==
  ASSUME NEW from \in Levels, NEW row
  PROVE  /\ Supported(from, row) \in 0 .. from
         /\ Supported(from, row) # 0 =>
              /\ Supported(from, row) \in row.valid
              /\ row.proved[Supported(from, row)] # None
<1> DEFINE backed == {x \in 1 .. from : row.proved[x] # None /\ x \in row.valid}
           best(l) == \A x \in backed : x <= l
           max == CHOOSE l \in backed \cup {0} : best(l)
<1>1. from \in Nat
  BY TopAssumption DEF Levels
<1>2. \E l \in backed \cup {0} : best(l)
  <2>1. backed \in SUBSET (1 .. from)
    OBVIOUS
  <2> HIDE DEF backed
  <2> QED
    BY <1>1, <2>1, GreatestBelow
<1>3. max \in backed \cup {0}
  <2> HIDE DEF backed, best
  <2> QED
    BY <1>2
<1>4. Supported(from, row) = max
  BY DEF Supported
<1> HIDE DEF max
<1> QED
  BY <1>1, <1>3, <1>4
\* The row that registering leaves is a row, with evidence about its domain.
LEMMA ReopenedRow ==
  ASSUME IInv, NEW a \in Agents, NEW m \in Owners, NEW d \in Domains,
         NEW u \in Hosts
  PROVE  /\ Reopened(a, m, d, u) \in Rows
         /\ \A x \in Rungs : Reopened(a, m, d, u).proved[x] \in {None, d}
         /\ \A x, y \in Rungs :
              x <= y /\ Reopened(a, m, d, u).proved[y] # None =>
                  Reopened(a, m, d, u).proved[x] # None
         /\ Reopened(a, m, d, u).level = 0
         /\ Reopened(a, m, d, u).domain = d
         /\ Reopened(a, m, d, u).merchant = m
         /\ Reopened(a, m, d, u).admin = "active"
<1> DEFINE row == Reopened(a, m, d, u)
           moved == NewDomain(a, d)
<1>1. agents[a] \in Rows
  BY DEF IInv, TypeOK
<1>2. NoEvidence \in [Rungs -> Hosts] /\ \A x \in Rungs : NoEvidence[x] = None
  BY DEF NoEvidence, Hosts
<1>3. row \in Rows
  <2>1. 0 \in Levels /\ d \in Hosts /\ None \in Hosts
    BY TopAssumption DEF Levels, Hosts
  <2>2. Upserted(a, m, d, u) \in Rows
    BY <1>1, <2>1 DEF Upserted, Rows
  <2>3. Purged(Upserted(a, m, d, u), d) \in Rows
    BY <1>2, <2>1, <2>2 DEF Purged, Rows
  <2> QED
    BY <2>2, <2>3 DEF Reopened
<1>4. /\ row.proved = IF moved THEN NoEvidence ELSE agents[a].proved
      /\ row.level = 0 /\ row.domain = d /\ row.merchant = m
      /\ row.admin = "active"
  BY <1>1 DEF Reopened, Upserted, Purged, Rows
<1>5. ~moved => \A x \in Rungs : agents[a].proved[x] \in {None, d}
  <2> SUFFICES ASSUME ~moved, NEW x \in Rungs
               PROVE  agents[a].proved[x] \in {None, d}
    OBVIOUS
  <2>1. agents[a].proved[x] \in {None, agents[a].domain}
    BY DEF IInv, EvidenceIsOwn
  <2>2. agents[a].domain \in {None, d}
    BY DEF NewDomain, IInv, AbsentIsBare
  <2> QED
    BY <2>1, <2>2
<1>6. ~moved => \A x, y \in Rungs :
          x <= y /\ agents[a].proved[y] # None => agents[a].proved[x] # None
  BY DEF IInv, Gapless
<1> HIDE DEF row, moved
<1>7. \A x \in Rungs : row.proved[x] \in {None, d}
  BY <1>2, <1>4, <1>5
<1>8. \A x, y \in Rungs :
          x <= y /\ row.proved[y] # None => row.proved[x] # None
  BY <1>2, <1>4, <1>6
<1> QED
  BY <1>3, <1>4, <1>7, <1>8 DEF row

\* A step that gives one agent another row keeps the invariant of the agents
\* if that row has it.
LEMMA OneRowChanges ==
  ASSUME IInv, NEW a \in Agents, NEW row \in Rows,
         agents' = [agents EXCEPT ![a] = row], runs' \in [Runs -> RunStates],
         claims' \in [Claims -> ClaimStates],
         decision' \in [Agents -> {"absent", "active", "suspended"}],
         \A x \in Rungs : row.proved[x] \in {None, row.domain},
         \A x, y \in Rungs :
             x <= y /\ row.proved[y] # None => row.proved[x] # None,
         row.admin = "absent" => row.domain = None /\ ~Live(a),
         AtomicDomainWrites /\ row.level # 0 => row.proved[row.level] # None
  PROVE  /\ TypeOK' /\ EvidenceIsOwn' /\ Gapless' /\ AbsentIsBare' /\ LevelsAreBacked'
         /\ \A b \in Agents : Live(b) => Live(b)'
<1>1. /\ agents'[a] = row
      /\ \A b \in Agents : b # a => agents'[b] = agents[b]
  BY DEF IInv, TypeOK
<1>2. TypeOK'
  BY DEF IInv, TypeOK
<1>3. EvidenceIsOwn'
  BY <1>1 DEF IInv, EvidenceIsOwn
<1>4. Gapless'
  BY <1>1 DEF IInv, Gapless
<1>5. AbsentIsBare'
  BY <1>1 DEF IInv, AbsentIsBare, Live
<1>6. LevelsAreBacked'
  BY <1>1 DEF IInv, LevelsAreBacked
<1>7. \A b \in Agents : Live(b) => Live(b)'
  BY <1>1 DEF Live
<1> QED
  BY <1>2, <1>3, <1>4, <1>5, <1>6, <1>7

\* The same for a row that keeps its evidence and domain, at a level the agent
\* had or that is proved: this is all that claims, moderation, heartbeats,
\* indexing and failing ladders do.
LEMMA KeepsEvidence ==
  ASSUME IInv, NEW a \in Agents, NEW row \in Rows,
         agents' = [agents EXCEPT ![a] = row],
         runs' \in [Runs -> RunStates],
         claims' \in [Claims -> ClaimStates],
         decision' \in [Agents -> {"absent", "active", "suspended"}],
         row.proved = agents[a].proved, row.domain = agents[a].domain,
         row.admin = "absent" => ~Live(a),
         AtomicDomainWrites =>
             row.level \in {0, agents[a].level} \/ row.proved[row.level] # None
  PROVE  /\ TypeOK' /\ EvidenceIsOwn' /\ Gapless' /\ AbsentIsBare' /\ LevelsAreBacked'
         /\ \A b \in Agents : agents'[b].domain = agents[b].domain
         /\ \A b \in Agents : Live(b) => Live(b)'
<1>1. \A x \in Rungs : row.proved[x] \in {None, row.domain}
  BY DEF IInv, EvidenceIsOwn
<1>2. \A x, y \in Rungs :
          x <= y /\ row.proved[y] # None => row.proved[x] # None
  BY DEF IInv, Gapless
<1>3. row.admin = "absent" => row.domain = None /\ ~Live(a)
  BY DEF IInv, AbsentIsBare
<1>4. AtomicDomainWrites /\ row.level # 0 => row.proved[row.level] # None
  BY DEF IInv, LevelsAreBacked
<1>5. \A b \in Agents : agents'[b].domain = agents[b].domain
  BY DEF IInv, TypeOK
<1> QED
  BY <1>1, <1>2, <1>3, <1>4, <1>5, OneRowChanges

\* Ladders that are not touched stay as they are when agents keep their domains.
LEMMA LaddersUntouched ==
  ASSUME IInv, UNCHANGED runs,
         \A a \in Agents : agents[a].domain # None => agents'[a].domain # None,
         \A a \in Agents : Live(a) => Live(a)'
  PROVE  LaddersHaveAgents' /\ runs' \in [Runs -> RunStates]
<1>1. \A r \in Runs :
         /\ runs[r] # Idle => runs[r].agent \in Agents
         /\ runs[r].at \in {"fetch", "prove"} => runs[r].agent \in Agents
  BY DEF IInv, TypeOK, RunStates, Idle
<1>2. LaddersHaveAgents'
  BY <1>1 DEF IInv, LaddersHaveAgents
<1> QED
  BY <1>2 DEF IInv, TypeOK

LEMMA InitStep == Init => IInv
<1> SUFFICES ASSUME Init PROVE IInv
  OBVIOUS
<1>1. NoEvidence \in [Rungs -> Hosts] /\ \A x \in Rungs : NoEvidence[x] = None
  BY DEF NoEvidence, Hosts
<1>2. NoAgent \in Rows
  BY <1>1, TopAssumption DEF NoAgent, Rows, Levels, Hosts, Owners
<1>3. TypeOK
  BY <1>2 DEF Init, TypeOK, RunStates, ClaimStates
<1>4. /\ \A a \in Agents : agents[a] = NoAgent
      /\ \A r \in Runs : runs[r] = Idle /\ runs[r].at = "idle"
  BY DEF Init, Idle
<1>5. NoAgent.proved = NoEvidence /\ NoAgent.domain = None /\ NoAgent.level = 0
  BY DEF NoAgent
<1> QED
  BY <1>1, <1>3, <1>4, <1>5 DEF IInv, EvidenceIsOwn, Gapless, AbsentIsBare,
    LaddersHaveAgents, LevelsAreBacked

LEMMA RegistrationStep ==
  ASSUME IInv, Registration PROVE IInv'
<1>0. IInv /\ TypeOK
  BY DEF IInv
<1>1. ASSUME NEW a \in Agents, NEW m \in Owners, NEW d \in Domains,
             NEW u \in Hosts,
             agents' = [agents EXCEPT ![a] = Reopened(a, m, d, u)],
             decision' = [decision EXCEPT ![a] = "active"],
             UNCHANGED <<runs, claims>>
      PROVE  IInv'
  <2> DEFINE row == Reopened(a, m, d, u)
  <2>1. /\ row \in Rows
        /\ \A x \in Rungs : row.proved[x] \in {None, d}
        /\ \A x, y \in Rungs :
             x <= y /\ row.proved[y] # None => row.proved[x] # None
        /\ row.level = 0 /\ row.domain = d /\ row.admin = "active"
    BY <1>0, ReopenedRow
  <2> HIDE DEF row
  <2>2. agents' = [agents EXCEPT ![a] = row]
    BY <1>1 DEF row
  <2>3. \A b \in Agents : agents[b].domain # None => agents'[b].domain # None
    BY <1>0, <2>1, <2>2, NoneAssumption DEF TypeOK
  <2>4. /\ runs' \in [Runs -> RunStates]
        /\ claims' \in [Claims -> ClaimStates]
        /\ decision' \in [Agents -> {"absent", "active", "suspended"}]
    BY <1>0, <1>1 DEF TypeOK
  <2>5. /\ TypeOK' /\ EvidenceIsOwn' /\ Gapless' /\ AbsentIsBare' /\ LevelsAreBacked'
        /\ \A b \in Agents : Live(b) => Live(b)'
    BY <1>0, <2>1, <2>2, <2>4, OneRowChanges
  <2>6. LaddersHaveAgents'
    BY <1>0, <1>1, <2>3, <2>5, LaddersUntouched
  <2> QED
    BY <2>5, <2>6 DEF IInv
<1>2. CASE \E m \in Merchants, d \in Domains, u \in Hosts : Register(m, d, u)
  <2>1. PICK m \in Merchants, d \in Domains, u \in Hosts : Register(m, d, u)
    BY <1>2
  <2>2. Target(m) \subseteq Agents /\ m \in Owners
    BY DEF Target, OwnedBy, Owners
  <2> QED
    BY <1>1, <2>1, <2>2 DEF Register
<1>3. CASE \E d \in Domains, u \in Hosts : RegisterAnonymous(d, u)
  <2>1. PICK d \in Domains, u \in Hosts : RegisterAnonymous(d, u)
    BY <1>3
  <2>2. PICK a \in Agents :
           /\ agents' = [agents EXCEPT ![a] = Reopened(a, None, d, u)]
           /\ decision' = [decision EXCEPT ![a] = "active"]
    BY <2>1 DEF RegisterAnonymous
  <2>3. None \in Owners /\ UNCHANGED <<runs, claims>>
    BY <2>1 DEF Owners, RegisterAnonymous
  <2> QED
    BY <1>1, <2>2, <2>3
<1>4. CASE \E m \in Merchants : CreateAccess(m)
  <2>1. PICK m \in Merchants : CreateAccess(m)
    BY <1>4
  <2>2. PICK a \in Agents :
           /\ ~Live(a)
           /\ agents' = [agents EXCEPT ![a].merchant = m, ![a].admin = "active"]
           /\ decision' = [decision EXCEPT ![a] = "active"]
    BY <2>1 DEF CreateAccess
  <2> DEFINE row == [agents[a] EXCEPT !.merchant = m, !.admin = "active"]
  <2>3. agents[a] \in Rows /\ m \in Owners
    BY <1>0 DEF TypeOK, Owners
  <2>4. agents' = [agents EXCEPT ![a] = row]
    BY <1>0, <2>2 DEF TypeOK
  <2>5. /\ row \in Rows /\ row.admin = "active"
        /\ row.proved = agents[a].proved /\ row.domain = agents[a].domain
        /\ row.level = agents[a].level
    BY <2>3 DEF Rows
  <2> HIDE DEF row
  <2>6. UNCHANGED <<runs, claims>>
    BY <2>1 DEF CreateAccess
  <2>7. /\ runs' \in [Runs -> RunStates]
        /\ claims' \in [Claims -> ClaimStates]
        /\ decision' \in [Agents -> {"absent", "active", "suspended"}]
    BY <1>0, <2>2, <2>6 DEF TypeOK
  <2>8. /\ TypeOK' /\ EvidenceIsOwn' /\ Gapless' /\ AbsentIsBare' /\ LevelsAreBacked'
        /\ \A b \in Agents : agents'[b].domain = agents[b].domain
        /\ \A b \in Agents : Live(b) => Live(b)'
    BY <1>0, <2>4, <2>5, <2>7, KeepsEvidence
  <2>9. LaddersHaveAgents'
    BY <1>0, <2>6, <2>8, LaddersUntouched
  <2> QED
    BY <2>8, <2>9 DEF IInv
<1> QED
  BY <1>2, <1>3, <1>4 DEF Registration
LEMMA ClaimingStep ==
  ASSUME IInv, Claiming PROVE IInv'
<1>0. IInv /\ TypeOK
  BY DEF IInv
<1>1. PICK c \in Claims :
        \/ \E a \in Agents, m \in Merchants : ClaimBegin(c, a, m)
        \/ ClaimFinish(c)
        \/ ClaimEnds(c)
  BY DEF Claiming
<1>2. UNCHANGED <<runs, decision>>
  BY <1>1 DEF ClaimBegin, ClaimFinish, ClaimEnds
<1>3. claims' \in [Claims -> ClaimStates]
  <2>1. CASE \E a \in Agents, m \in Merchants : ClaimBegin(c, a, m)
    <3>1. PICK a \in Agents, m \in Merchants : ClaimBegin(c, a, m)
      BY <2>1
    <3>2. agents[a].merchant \in Owners
      BY <1>0 DEF TypeOK, Rows
    <3> QED
      BY <1>0, <3>1, <3>2 DEF ClaimBegin, TypeOK, ClaimStates
  <2>2. CASE ClaimFinish(c) \/ ClaimEnds(c)
    BY <1>0, <2>2 DEF ClaimFinish, ClaimEnds, TypeOK, ClaimStates
  <2> QED
    BY <1>1, <2>1, <2>2
<1>4. CASE UNCHANGED agents
  <2>1. LaddersHaveAgents'
    BY <1>0, <1>2, <1>4, LaddersUntouched DEF Live
  <2> QED
    BY <1>0, <1>2, <1>3, <1>4, <2>1 DEF IInv, TypeOK, EvidenceIsOwn, Gapless,
      AbsentIsBare, LevelsAreBacked, Live
<1>5. CASE ClaimFinish(c)
  <2> DEFINE a == claims[c].agent
             row == [agents[a] EXCEPT !.merchant = claims[c].merchant]
  <2>1. a \in Agents /\ claims[c].merchant \in Owners
    BY <1>0, <1>5 DEF ClaimFinish, TypeOK, ClaimStates, Idle, Owners
  <2>2. agents[a] \in Rows
    BY <1>0, <2>1 DEF TypeOK
  <2>3. agents' = [agents EXCEPT ![a] = row]
    BY <1>0, <1>5, <2>1 DEF ClaimFinish, TypeOK
  <2>4. /\ row \in Rows /\ row.admin = agents[a].admin
        /\ row.proved = agents[a].proved /\ row.domain = agents[a].domain
        /\ row.level = agents[a].level
    BY <2>1, <2>2 DEF Rows
  <2> HIDE DEF row, a
  <2>5. /\ runs' \in [Runs -> RunStates]
        /\ decision' \in [Agents -> {"absent", "active", "suspended"}]
    BY <1>0, <1>2 DEF TypeOK
  <2>6. /\ TypeOK' /\ EvidenceIsOwn' /\ Gapless' /\ AbsentIsBare' /\ LevelsAreBacked'
        /\ \A b \in Agents : agents'[b].domain = agents[b].domain
        /\ \A b \in Agents : Live(b) => Live(b)'
    BY <1>0, <1>3, <2>1, <2>3, <2>4, <2>5, KeepsEvidence DEF Live
  <2>7. LaddersHaveAgents'
    BY <1>0, <1>2, <2>6, LaddersUntouched
  <2> QED
    BY <2>6, <2>7 DEF IInv
<1> QED
  BY <1>1, <1>4, <1>5 DEF ClaimBegin, ClaimEnds

LEMMA ModerationStep ==
  ASSUME IInv, Moderation PROVE IInv'
<1>0. IInv /\ TypeOK
  BY DEF IInv
<1>1. PICK a \in Agents :
        \/ Suspend(a)
        \/ Reinstate(a)
        \/ Heartbeat(a)
        \/ \E x \in Rungs : EvidenceExpires(a, x)
  BY DEF Moderation
<1>2. agents[a] \in Rows
  BY <1>0 DEF TypeOK
<1>3. PICK row \in Rows :
         /\ agents' = [agents EXCEPT ![a] = row]
         /\ row.proved = agents[a].proved /\ row.domain = agents[a].domain
         /\ row.level = agents[a].level
         /\ row.admin = "absent" => ~Live(a)
  <2>1. CASE Suspend(a)
    <3> DEFINE row == [agents[a] EXCEPT !.admin = "suspended"]
    <3>1. agents' = [agents EXCEPT ![a] = row]
      BY <1>0, <2>1 DEF Suspend, TypeOK
    <3>2. /\ row \in Rows /\ row.proved = agents[a].proved
          /\ row.domain = agents[a].domain /\ row.level = agents[a].level
          /\ row.admin = "suspended"
      BY <1>2 DEF Rows
    <3> HIDE DEF row
    <3> QED
      BY <3>1, <3>2
  <2>2. CASE Reinstate(a)
    <3> DEFINE row == [agents[a] EXCEPT !.admin = "active"]
    <3>1. agents' = [agents EXCEPT ![a] = row]
      BY <1>0, <2>2 DEF Reinstate, TypeOK
    <3>2. /\ row \in Rows /\ row.proved = agents[a].proved
          /\ row.domain = agents[a].domain /\ row.level = agents[a].level
          /\ row.admin = "active"
      BY <1>2 DEF Rows
    <3> HIDE DEF row
    <3> QED
      BY <3>1, <3>2
  <2>3. CASE Heartbeat(a)
    <3> DEFINE row == [agents[a] EXCEPT !.fresh = TRUE]
    <3>1. agents' = [agents EXCEPT ![a] = row]
      BY <1>0, <2>3 DEF Heartbeat, TypeOK
    <3>2. /\ row \in Rows /\ row.proved = agents[a].proved
          /\ row.domain = agents[a].domain /\ row.level = agents[a].level
          /\ row.admin = agents[a].admin
      BY <1>2 DEF Rows
    <3> HIDE DEF row
    <3> QED
      BY <3>1, <3>2 DEF Live
  <2>4. CASE \E x \in Rungs : EvidenceExpires(a, x)
    <3>0. PICK x \in Rungs : EvidenceExpires(a, x)
      BY <2>4
    <3> DEFINE row == [agents[a] EXCEPT !.valid = @ \ {x}]
    <3>1. agents' = [agents EXCEPT ![a] = row]
      BY <1>0, <3>0 DEF EvidenceExpires, TypeOK
    <3>2. /\ row \in Rows /\ row.proved = agents[a].proved
          /\ row.domain = agents[a].domain /\ row.level = agents[a].level
          /\ row.admin = agents[a].admin
      BY <1>2 DEF Rows
    <3> HIDE DEF row
    <3> QED
      BY <3>1, <3>2 DEF Live
  <2> QED
    BY <1>1, <2>1, <2>2, <2>3, <2>4
<1>4. /\ UNCHANGED <<runs, claims>>
      /\ decision' \in [Agents -> {"absent", "active", "suspended"}]
  BY <1>0, <1>1 DEF Suspend, Reinstate, Heartbeat, EvidenceExpires, TypeOK
<1>5. /\ runs' \in [Runs -> RunStates] /\ claims' \in [Claims -> ClaimStates]
  BY <1>0, <1>4 DEF TypeOK
<1>6. /\ TypeOK' /\ EvidenceIsOwn' /\ Gapless' /\ AbsentIsBare' /\ LevelsAreBacked'
      /\ \A b \in Agents : agents'[b].domain = agents[b].domain
      /\ \A b \in Agents : Live(b) => Live(b)'
  BY <1>0, <1>3, <1>4, <1>5, KeepsEvidence
<1>7. LaddersHaveAgents'
  BY <1>0, <1>4, <1>6, LaddersUntouched
<1> QED
  BY <1>6, <1>7 DEF IInv
\* What a ladder carries at each of its control points.
LEMMA LadderShape ==
  ASSUME TypeOK, NEW r \in Runs
  PROVE  /\ runs[r] # Idle => runs[r].agent \in Agents
         /\ runs[r].at = "load" => runs[r] \in
              [at : {"load"}, agent : Agents, audit : BOOLEAN,
               merchant : Owners, domain : Hosts, level : Levels]
         /\ runs[r].at \in {"fetch", "prove"} => runs[r] \in
              [at : {"fetch", "prove"}, agent : Agents, audit : BOOLEAN,
               merchant : Owners, domain : Hosts, level : Levels, urls : Domains]
         /\ runs[r].at = "fail" => runs[r] \in
              [at : {"fail"}, agent : Agents, audit : BOOLEAN, recompute : BOOLEAN]
         /\ runs[r].at = "write" => runs[r] \in
              [at : {"write"}, agent : Agents, level : Levels,
               admin : {"active", "suspended"}]
BY DEF TypeOK, RunStates, Idle

\* A step of a ladder that leaves the agents alone.
LEMMA ReadingStep ==
  ASSUME IInv, NEW r \in Runs, NEW run \in RunStates,
         runs' = [runs EXCEPT ![r] = run], UNCHANGED <<agents, claims, decision>>,
         run # Idle => run.agent \in Agents /\ Live(run.agent),
         run.at \in {"fetch", "prove"} => agents[run.agent].domain # None
  PROVE  IInv'
<1>1. /\ runs'[r] = run
      /\ \A q \in Runs : q # r => runs'[q] = runs[q]
      /\ runs' \in [Runs -> RunStates]
  BY DEF IInv, TypeOK
<1>2. LaddersHaveAgents'
  BY <1>1 DEF IInv, LaddersHaveAgents, Live
<1> QED
  BY <1>1, <1>2 DEF IInv, TypeOK, EvidenceIsOwn, Gapless, AbsentIsBare,
    LevelsAreBacked, Live

\* A step of a ladder that writes its agent and is over, or goes on to prove.
LEMMA WritingStep ==
  ASSUME IInv, NEW r \in Runs, NEW run \in RunStates,
         runs' = [runs EXCEPT ![r] = run],
         run = Idle \/ (/\ run.at = "prove" /\ run.agent = runs[r].agent
                        /\ runs[r].at = "fetch"),
         UNCHANGED <<claims, decision>>,
         NEW a \in Agents, NEW row \in Rows, agents' = [agents EXCEPT ![a] = row],
         row.domain = agents[a].domain, row.admin = "absent" => ~Live(a),
         \A x \in Rungs : row.proved[x] \in {None, row.domain},
         \A x, y \in Rungs :
             x <= y /\ row.proved[y] # None => row.proved[x] # None,
         AtomicDomainWrites /\ row.level # 0 => row.proved[row.level] # None
  PROVE  IInv'
<1>1. /\ runs'[r] = run
      /\ \A q \in Runs : q # r => runs'[q] = runs[q]
      /\ runs' \in [Runs -> RunStates]
  BY DEF IInv, TypeOK
<1>2. /\ \A b \in Agents : agents'[b].domain = agents[b].domain
      /\ claims' \in [Claims -> ClaimStates]
      /\ decision' \in [Agents -> {"absent", "active", "suspended"}]
      /\ row.admin = "absent" => row.domain = None /\ ~Live(a)
  BY DEF IInv, TypeOK, AbsentIsBare
<1>3. /\ TypeOK' /\ EvidenceIsOwn' /\ Gapless' /\ AbsentIsBare' /\ LevelsAreBacked'
      /\ \A b \in Agents : Live(b) => Live(b)'
  BY <1>1, <1>2, OneRowChanges
<1>4. \A q \in Runs :
         /\ runs[q] # Idle => runs[q].agent \in Agents
         /\ runs[q].at \in {"fetch", "prove"} => runs[q] # Idle
  BY DEF IInv, TypeOK, RunStates, Idle
<1>5. LaddersHaveAgents'
  <2> SUFFICES ASSUME NEW q \in Runs, runs'[q] # Idle
               PROVE  /\ agents'[runs'[q].agent].admin # "absent"
                      /\ runs'[q].at \in {"fetch", "prove"} =>
                           agents'[runs'[q].agent].domain # None
    BY DEF LaddersHaveAgents, Idle, Live
  <2>1. /\ runs'[q].agent = runs[q].agent /\ runs[q] # Idle
        /\ runs'[q].at \in {"fetch", "prove"} => runs[q].at \in {"fetch", "prove"}
    BY <1>1, <1>4
  <2>2. runs[q].agent \in Agents /\ Live(runs[q].agent)
    BY <1>4, <2>1 DEF IInv, LaddersHaveAgents
  <2>3. agents'[runs[q].agent].admin # "absent"
    BY <1>3, <2>2 DEF Live
  <2>4. agents'[runs'[q].agent].admin # "absent"
    BY <2>1, <2>3
  <2> QED
    BY <1>2, <2>1, <2>2, <2>4 DEF IInv, LaddersHaveAgents
<1> QED
  BY <1>3, <1>5 DEF IInv

\* The same for a step that ends the ladder.
LEMMA FinalStep ==
  ASSUME IInv, NEW r \in Runs, runs' = [runs EXCEPT ![r] = Idle],
         UNCHANGED <<claims, decision>>,
         NEW a \in Agents, NEW row \in Rows, agents' = [agents EXCEPT ![a] = row],
         row.domain = agents[a].domain, row.admin = "absent" => ~Live(a),
         \A x \in Rungs : row.proved[x] \in {None, row.domain},
         \A x, y \in Rungs :
             x <= y /\ row.proved[y] # None => row.proved[x] # None,
         AtomicDomainWrites /\ row.level # 0 => row.proved[row.level] # None
  PROVE  IInv'
<1> DEFINE run == Idle
<1>1. run \in RunStates /\ run = Idle
  BY DEF RunStates
<1>2. runs' = [runs EXCEPT ![r] = run]
  OBVIOUS
<1> HIDE DEF run
<1> QED
  BY <1>1, <1>2, WritingStep

\* A profile failure keeps the evidence and the decision on an agent, and its
\* level or the highest one below it that is supported.
LEMMA FailedRow ==
  ASSUME IInv, NEW a \in Agents, NEW recompute \in BOOLEAN
  PROVE  LET row == Failed(agents[a], recompute) IN
         /\ row \in Rows /\ row.proved = agents[a].proved
         /\ row.domain = agents[a].domain /\ row.admin = agents[a].admin
         /\ AtomicDomainWrites /\ row.level # 0 => row.proved[row.level] # None
         /\ row.level \in {0, agents[a].level} \cup row.valid
         /\ row.level <= agents[a].level
<1> DEFINE level == IF recompute THEN Supported(agents[a].level, agents[a])
                    ELSE agents[a].level
<1>1. agents[a] \in Rows /\ agents[a].level \in Levels
  BY DEF IInv, TypeOK, Rows
<1>2. /\ Supported(agents[a].level, agents[a]) \in 0 .. agents[a].level
      /\ Supported(agents[a].level, agents[a]) # 0 =>
           /\ agents[a].proved[Supported(agents[a].level, agents[a])] # None
           /\ Supported(agents[a].level, agents[a]) \in agents[a].valid
  BY <1>1, SupportedLevel
<1>3. /\ level \in Levels /\ level <= agents[a].level
      /\ level \in {0, agents[a].level} \cup agents[a].valid
      /\ AtomicDomainWrites /\ level # 0 => agents[a].proved[level] # None
  BY <1>1, <1>2, TopAssumption DEF Levels, IInv, LevelsAreBacked
<1>4. Failed(agents[a], recompute)
        = [agents[a] EXCEPT !.level = level, !.fresh = FALSE]
  BY <1>1 DEF Failed, Rows
<1> HIDE DEF level
<1> QED
  BY <1>1, <1>3, <1>4 DEF Rows

\* Evidence of the first rungs on the agent's own domain leaves no gap.
LEMMA EvidenceRow ==
  ASSUME IInv, NEW a \in Agents, NEW k \in Levels, agents[a].domain # None
  PROVE  LET row == Evidence(agents[a], agents[a].domain, k) IN
         /\ row \in Rows
         /\ row.domain = agents[a].domain /\ row.admin = agents[a].admin
         /\ \A x \in Rungs : row.proved[x] \in {None, row.domain}
         /\ \A x, y \in Rungs :
              x <= y /\ row.proved[y] # None => row.proved[x] # None
         /\ k = Top => row.proved[Top] # None
         /\ k = Top => Top \in row.valid
<1> DEFINE d == agents[a].domain
           row == Evidence(agents[a], d, k)
           proved == [x \in Rungs |-> IF x <= k THEN d ELSE agents[a].proved[x]]
<1>1. agents[a] \in Rows /\ agents[a].proved \in [Rungs -> Hosts] /\ d \in Hosts
      /\ agents[a].valid \in SUBSET Rungs
  BY DEF IInv, TypeOK, Rows
<1>2. proved \in [Rungs -> Hosts]
  BY <1>1
<1>3. k \in Nat /\ k <= Top /\ 1 .. k \subseteq Rungs /\ Top \in Rungs
  BY TopAssumption DEF Levels, Rungs
<1>4. row = [agents[a] EXCEPT !.fresh = TRUE, !.proved = proved,
                              !.valid = agents[a].valid \cup 1 .. k]
  BY <1>1 DEF Evidence, Rows
<1>5. /\ row \in Rows /\ row.proved = proved /\ row.domain = d
      /\ row.admin = agents[a].admin
      /\ row.valid = agents[a].valid \cup 1 .. k
  <2> HIDE DEF row, proved, d
  <2>1. agents[a].valid \cup 1 .. k \in SUBSET Rungs
    BY <1>1, <1>3
  <2> QED
    BY <1>1, <1>2, <1>4, <2>1 DEF Rows, d
<1>6. \A x \in Rungs : proved[x] = IF x <= k THEN d ELSE agents[a].proved[x]
  OBVIOUS
<1> HIDE DEF row, proved
<1>7. \A x \in Rungs : row.proved[x] \in {None, row.domain}
  BY <1>5, <1>6 DEF IInv, EvidenceIsOwn
<1>8. ASSUME NEW x \in Rungs, NEW y \in Rungs, x <= y, proved[y] # None
      PROVE  proved[x] # None
  <2>1. x \in Int /\ y \in Int
    BY DEF Rungs
  <2>2. CASE x <= k
    BY <1>6, <2>2
  <2>3. CASE ~(x <= k)
    <3>1. ~(y <= k)
      BY <1>3, <1>8, <2>1, <2>3
    <3>2. agents[a].proved[y] # None
      BY <1>6, <1>8, <3>1
    <3> QED
      BY <1>6, <1>8, <2>3, <3>2 DEF IInv, Gapless
  <2> QED
    BY <2>2, <2>3
<1>9. k = Top => row.proved[Top] # None
  BY <1>3, <1>5, <1>6
<1>10. k = Top => Top \in row.valid
  BY <1>3, <1>5, TopAssumption
<1> QED
  BY <1>5, <1>7, <1>8, <1>9, <1>10 DEF row
LEMMA LadderStep ==
  ASSUME IInv, Ladder PROVE IInv'
<1>0. IInv /\ TypeOK
  BY DEF IInv
<1>1. PICK r \in Runs :
        \/ \E a \in Agents, force, audit \in BOOLEAN :
               VerifyBegin(r, a, force, audit)
        \/ LoadProfiles(r)
        \/ \E recompute \in BOOLEAN : FetchFails(r, recompute)
        \/ IndexProfiles(r)
        \/ \E k \in Levels : Persist(r, k)
        \/ FailAtOnce(r)
        \/ FailRead(r)
        \/ FailWrite(r)
        \/ RunAbandoned(r)
  BY DEF Ladder
<1> DEFINE a == runs[r].agent
<1>2. /\ runs[r] # Idle => a \in Agents /\ agents[a] \in Rows /\ Live(a)
      /\ Idle \in RunStates /\ Idle.at = "idle"
      /\ \A at \in {"load", "fetch", "prove", "fail", "write"} :
            runs[r].at = at => runs[r] # Idle
  BY <1>0, LadderShape DEF TypeOK, RunStates, Idle, IInv, LaddersHaveAgents
<1>3. CASE \E b \in Agents, force, audit \in BOOLEAN :
               VerifyBegin(r, b, force, audit)
  <2>1. PICK b \in Agents, force \in BOOLEAN, audit \in BOOLEAN :
           VerifyBegin(r, b, force, audit)
    BY <1>3
  <2> DEFINE run == [at |-> "load", agent |-> b, audit |-> audit,
                     merchant |-> agents[b].merchant,
                     domain |-> agents[b].domain, level |-> agents[b].level]
  <2>2. agents[b] \in Rows
    BY <1>0 DEF TypeOK
  <2>3. run \in RunStates /\ run.at = "load" /\ run.agent = b
    BY <2>2 DEF RunStates, Rows
  <2>4. /\ runs' = [runs EXCEPT ![r] = run] /\ UNCHANGED <<agents, claims, decision>>
        /\ Live(b)
    BY <2>1 DEF VerifyBegin, Active, Live
  <2> HIDE DEF run
  <2> QED
    BY <1>0, <2>3, <2>4, ReadingStep
<1>4. CASE LoadProfiles(r)
  <2> DEFINE row == agents[a]
             good == row.urls # None /\ row.urls = row.domain
             next == [at |-> "fetch", agent |-> a, audit |-> runs[r].audit,
                      merchant |-> runs[r].merchant, domain |-> runs[r].domain,
                      level |-> runs[r].level, urls |-> row.urls]
             run == IF good THEN next ELSE Fail(r, TRUE)
  <2>1. runs[r] \in [at : {"load"}, agent : Agents, audit : BOOLEAN,
                     merchant : Owners, domain : Hosts, level : Levels]
    BY <1>0, <1>4, LadderShape DEF LoadProfiles
  <2>2. row.urls \in Hosts
    BY <1>0, <2>1 DEF TypeOK, Rows
  <2>3. runs' = [runs EXCEPT ![r] = run] /\ UNCHANGED <<agents, claims, decision>>
    BY <1>0, <1>4 DEF LoadProfiles, TypeOK
  <2>4. good => next \in RunStates /\ next.at = "fetch" /\ next.agent = a
    BY <2>1, <2>2 DEF RunStates, Hosts
  <2>5. Fail(r, TRUE) \in RunStates /\ Fail(r, TRUE).at = "fail"
        /\ Fail(r, TRUE).agent = a
    BY <2>1 DEF RunStates, Fail
  <2>6. good => agents[a].domain # None
    OBVIOUS
  <2> HIDE DEF next, good
  <2>7. /\ run \in RunStates /\ run.at # "write" /\ run.agent = a
        /\ run.at \in {"fetch", "prove"} => agents[run.agent].domain # None
    BY <2>4, <2>5, <2>6
  <2>8. a \in Agents /\ Live(a)
    BY <1>2, <2>1
  <2> HIDE DEF run
  <2> QED
    BY <1>0, <2>3, <2>7, <2>8, ReadingStep
<1>5. CASE \E recompute \in BOOLEAN : FetchFails(r, recompute)
  <2>1. PICK recompute \in BOOLEAN : FetchFails(r, recompute)
    BY <1>5
  <2>2. runs[r] \in [at : {"fetch", "prove"}, agent : Agents, audit : BOOLEAN,
               merchant : Owners, domain : Hosts, level : Levels, urls : Domains]
    BY <1>0, <2>1, LadderShape DEF FetchFails
  <2>3. Fail(r, recompute) \in RunStates /\ Fail(r, recompute).at = "fail"
        /\ Fail(r, recompute).agent = a
    BY <2>2 DEF RunStates, Fail
  <2>4. a \in Agents /\ Live(a)
    BY <1>2, <2>2
  <2> QED
    BY <1>0, <2>1, <2>3, <2>4, ReadingStep DEF FetchFails
<1>6. CASE IndexProfiles(r)
  <2> DEFINE row == [agents[a] EXCEPT !.profile = runs[r].urls, !.urls = runs[r].urls]
             stays == runs[r].domain \in {None, runs[r].urls}
             next == [runs[r] EXCEPT !.at = "prove"]
             run == IF stays THEN next ELSE Idle
  <2>1. runs[r] \in [at : {"fetch", "prove"}, agent : Agents, audit : BOOLEAN,
               merchant : Owners, domain : Hosts, level : Levels, urls : Domains]
        /\ runs[r].at = "fetch"
    BY <1>0, <1>6, LadderShape DEF IndexProfiles
  <2>2. agents[a] \in Rows /\ runs[r].urls \in Hosts /\ a \in Agents
    BY <1>0, <2>1 DEF TypeOK, Hosts
  <2>3. /\ row \in Rows /\ row.proved = agents[a].proved
        /\ row.domain = agents[a].domain /\ row.level = agents[a].level
        /\ row.admin = agents[a].admin
    BY <2>2 DEF Rows
  <2>4. agents' = [agents EXCEPT ![a] = row]
    BY <1>0, <1>6, <2>2 DEF IndexProfiles, TypeOK
  <2>5. runs' = [runs EXCEPT ![r] = run] /\ UNCHANGED <<claims, decision>>
    BY <1>0, <1>6 DEF IndexProfiles, TypeOK
  <2>6. next \in RunStates /\ next.at = "prove" /\ next.agent = a
    BY <2>1 DEF RunStates
  <2> HIDE DEF next, stays
  <2>7. run \in RunStates /\ (run = Idle \/ (run.at = "prove" /\ run.agent = a))
    <3>1. CASE stays
      BY <2>6, <3>1
    <3>2. CASE ~stays
      BY <3>2 DEF RunStates
    <3> QED
      BY <3>1, <3>2
  <2> HIDE DEF run, row
  <2>8. /\ \A x \in Rungs : row.proved[x] \in {None, row.domain}
        /\ \A x, y \in Rungs :
             x <= y /\ row.proved[y] # None => row.proved[x] # None
        /\ AtomicDomainWrites /\ row.level # 0 => row.proved[row.level] # None
        /\ row.admin = "absent" => ~Live(a)
    BY <1>0, <2>2, <2>3 DEF IInv, EvidenceIsOwn, Gapless, LevelsAreBacked, Live
  <2> QED
    BY <1>0, <2>1, <2>2, <2>3, <2>4, <2>5, <2>7, <2>8, WritingStep
<1>7. CASE \E k \in Levels : Persist(r, k)
  <2>1. PICK k \in Levels : Persist(r, k)
    BY <1>7
  <2> DEFINE d == agents[a].domain
             proved == Evidence(agents[a], d, k)
             level == IF k = Top THEN Top ELSE Supported(runs[r].level, proved)
             row == [proved EXCEPT !.level = level]
  <2>2. runs[r] \in [at : {"fetch", "prove"}, agent : Agents, audit : BOOLEAN,
               merchant : Owners, domain : Hosts, level : Levels, urls : Domains]
        /\ a \in Agents /\ agents[a] \in Rows
    BY <1>0, <1>2, <2>1, LadderShape DEF Persist, TypeOK
  <2>3. runs[r].domain = d /\ d # None
    BY <1>0, <2>1 DEF Persist, UnchangedSince, IInv, LaddersHaveAgents
  <2>4. /\ proved \in Rows
        /\ proved.domain = d /\ proved.admin = agents[a].admin
        /\ \A x \in Rungs : proved.proved[x] \in {None, proved.domain}
        /\ \A x, y \in Rungs :
             x <= y /\ proved.proved[y] # None => proved.proved[x] # None
        /\ k = Top => proved.proved[Top] # None
    BY <1>0, <2>2, <2>3, EvidenceRow
  <2> HIDE DEF proved
  <2>5. /\ Supported(runs[r].level, proved) \in 0 .. runs[r].level
        /\ Supported(runs[r].level, proved) # 0 =>
             proved.proved[Supported(runs[r].level, proved)] # None
    BY <2>2, SupportedLevel
  <2>6. level \in Levels /\ (level # 0 => proved.proved[level] # None)
    BY <2>2, <2>4, <2>5, TopAssumption DEF Levels
  <2> HIDE DEF level
  <2>7. /\ row \in Rows /\ row.domain = d /\ row.admin = agents[a].admin
        /\ row.proved = proved.proved /\ row.level = level
    BY <2>4, <2>6 DEF Rows
  <2>8. /\ agents' = [agents EXCEPT ![a] = row]
        /\ runs' = [runs EXCEPT ![r] = Idle] /\ UNCHANGED <<claims, decision>>
    BY <2>1, <2>3 DEF Persist, proved, level
  <2> HIDE DEF row
  <2>9. /\ \A x \in Rungs : row.proved[x] \in {None, row.domain}
        /\ \A x, y \in Rungs :
             x <= y /\ row.proved[y] # None => row.proved[x] # None
        /\ AtomicDomainWrites /\ row.level # 0 => row.proved[row.level] # None
        /\ row.admin = "absent" => ~Live(a)
    BY <2>4, <2>6, <2>7 DEF Live
  <2> QED
    BY <1>0, <2>2, <2>7, <2>8, <2>9, FinalStep
<1>8. ASSUME NEW recompute \in BOOLEAN, a \in Agents,
             agents' = [agents EXCEPT ![a] = Failed(agents[a], recompute)],
             runs' = [runs EXCEPT ![r] = Idle], UNCHANGED <<claims, decision>>
      PROVE  IInv'
  <2> DEFINE row == Failed(agents[a], recompute)
  <2>1. /\ row \in Rows /\ row.proved = agents[a].proved
        /\ row.domain = agents[a].domain /\ row.admin = agents[a].admin
        /\ AtomicDomainWrites /\ row.level # 0 => row.proved[row.level] # None
    BY <1>0, <1>8, FailedRow
  <2>2. agents' = [agents EXCEPT ![a] = row]
    BY <1>8
  <2> HIDE DEF row
  <2>3. /\ \A x \in Rungs : row.proved[x] \in {None, row.domain}
        /\ \A x, y \in Rungs :
             x <= y /\ row.proved[y] # None => row.proved[x] # None
        /\ row.admin = "absent" => ~Live(a)
    BY <1>0, <1>8, <2>1 DEF IInv, EvidenceIsOwn, Gapless, Live
  <2> QED
    BY <1>0, <1>8, <2>1, <2>2, <2>3, FinalStep
<1>12. CASE FailAtOnce(r)
  <2>1. a \in Agents /\ runs[r].recompute \in BOOLEAN
    BY <1>0, <1>2, <1>12, LadderShape DEF FailAtOnce, IInv
  <2> QED
    BY <1>8, <1>12, <2>1 DEF FailAtOnce
<1>9. CASE FailRead(r)
  <2> DEFINE level == Failed(agents[a], runs[r].recompute).level
             run == [at |-> "write", agent |-> a, admin |-> agents[a].admin,
                     level |-> level]
  <2>1. /\ a \in Agents /\ agents[a] \in Rows /\ runs[r].at = "fail"
    BY <1>2, <1>9 DEF FailRead
  <2>2. agents[a].level \in Levels
    BY <2>1 DEF Rows
  <2>3. Supported(agents[a].level, agents[a]) \in 0 .. agents[a].level
    BY <2>2, SupportedLevel
  <2>4. level \in Levels
    BY <2>1, <2>2, <2>3, TopAssumption DEF Failed, Rows, Levels
  <2>5. runs' = [runs EXCEPT ![r] = run] /\ UNCHANGED <<agents, claims, decision>>
    BY <1>0, <1>9 DEF FailRead, TypeOK
  <2>6. Live(a)
    BY <1>2, <1>9 DEF FailRead
  <2>7. run \in RunStates /\ run.at = "write" /\ run.agent = a
    BY <2>1, <2>4, <2>6 DEF RunStates, Live, Rows
  <2> HIDE DEF run
  <2> QED
    BY <1>0, <2>1, <2>5, <2>6, <2>7, ReadingStep
<1>10. CASE FailWrite(r)
  <2> DEFINE row == Written(r)
  <2>1. /\ runs[r] \in [at : {"write"}, agent : Agents, level : Levels,
                        admin : {"active", "suspended"}]
        /\ a \in Agents /\ agents[a] \in Rows
    BY <1>0, <1>2, <1>10, LadderShape DEF FailWrite, IInv
  <2>2. /\ agents' = [agents EXCEPT ![a] = row]
        /\ runs' = [runs EXCEPT ![r] = Idle] /\ UNCHANGED <<claims, decision>>
    BY <1>10 DEF FailWrite
  <2>3. CASE AtomicDomainWrites
    <3>1. PICK recompute \in BOOLEAN : row = Failed(agents[a], recompute)
      BY <1>10, <2>3 DEF FailWrite
    <3> QED
      BY <1>8, <2>1, <2>2, <3>1
  <2>4. CASE ~AtomicDomainWrites
    <3>1. /\ row \in Rows /\ row.proved = agents[a].proved
          /\ row.domain = agents[a].domain /\ row.admin # "absent"
      BY <2>1 DEF Rows, Written
    <3> HIDE DEF row
    <3>2. /\ \A x \in Rungs : row.proved[x] \in {None, row.domain}
          /\ \A x, y \in Rungs :
               x <= y /\ row.proved[y] # None => row.proved[x] # None
      BY <1>0, <2>1, <3>1 DEF IInv, EvidenceIsOwn, Gapless
    <3> QED
      BY <1>0, <2>1, <2>2, <2>4, <3>1, <3>2, FinalStep
  <2> QED
    BY <2>3, <2>4
<1>11. CASE RunAbandoned(r)
  BY <1>0, <1>2, <1>11, ReadingStep DEF RunAbandoned
<1> QED
  BY <1>1, <1>3, <1>4, <1>5, <1>6, <1>7, <1>9, <1>10, <1>11, <1>12
-----------------------------------------------------------------------------
LEMMA InvariantStep ==
  ASSUME IInv, [Next]_vars PROVE IInv'
<1>1. CASE Next
  BY <1>1, RegistrationStep, ClaimingStep, ModerationStep, LadderStep DEF Next
<1>2. CASE UNCHANGED vars
  BY <1>2 DEF vars, IInv, TypeOK, EvidenceIsOwn, Gapless, AbsentIsBare,
    LaddersHaveAgents, LevelsAreBacked, Live
<1> QED
  BY <1>1, <1>2

\* The invariant the other theorems follow from.
THEOREM InductiveInvariant == Spec => []IInv
<1> QED
  BY InitStep, InvariantStep, PTL DEF Spec

\* Every variable always has its type (what each request and each control
\* point of a ladder and a claim may hold).
THEOREM TypeCorrect == Spec => []TypeOK
<1>1. IInv => TypeOK
  BY DEF IInv
<1> QED
  BY <1>1, InductiveInvariant, PTL

\* Evidence is always about the agent's own domain, however registrations and
\* ladders overlap, and whether set_state_domains is atomic or not.
THEOREM EvidenceAlwaysOwn == Spec => []EvidenceIsOwn
<1>1. IInv => EvidenceIsOwn
  BY DEF IInv
<1> QED
  BY <1>1, InductiveInvariant, PTL

\* A level always rests on evidence of all its rungs, for the agent's domain,
\* if nobody commits inside set_state_domains.
THEOREM LevelsAlwaysEarned ==
  ASSUME AtomicDomainWrites PROVE Spec => []LevelsAreEarned
<1>1. IInv => LevelsAreEarned
  <2> SUFFICES ASSUME IInv, NEW a \in Agents, NEW x \in 1 .. agents[a].level
               PROVE  agents[a].domain # None
                      /\ agents[a].proved[x] = agents[a].domain
    BY DEF LevelsAreEarned
  <2>1. agents[a].level \in 0 .. Top
    BY DEF IInv, TypeOK, Rows, Levels
  <2>2. /\ x \in Rungs /\ agents[a].level \in Rungs /\ x <= agents[a].level
        /\ agents[a].level # 0
    BY <2>1, TopAssumption DEF Rungs
  <2>3. agents[a].proved[agents[a].level] # None
    BY <2>2 DEF IInv, LevelsAreBacked
  <2>4. agents[a].proved[x] # None
    BY <2>2, <2>3 DEF IInv, Gapless
  <2>5. agents[a].proved[x] \in {None, agents[a].domain}
    BY <2>2 DEF IInv, EvidenceIsOwn
  <2> QED
    BY <2>4, <2>5
<1> QED
  BY <1>1, InductiveInvariant, PTL

LEMMA DecisionStep ==
  ASSUME AtomicDomainWrites, IInv, DecisionsHold, [Next]_vars
  PROVE  DecisionsHold'
<1>0. TypeOK /\ DecisionsHold
  BY DEF IInv
<1>1. ASSUME \/ UNCHANGED <<agents, decision>>
             \/ /\ UNCHANGED decision
                /\ \A b \in Agents : agents'[b].admin = agents[b].admin
      PROVE  DecisionsHold'
  BY <1>0, <1>1 DEF DecisionsHold
<1>2. CASE Registration
  <2>1. PICK b \in Agents : /\ agents'[b].admin = "active"
                            /\ \A c \in Agents : c # b => agents'[c] = agents[c]
                            /\ decision' = [decision EXCEPT ![b] = "active"]
    <3>1. ASSUME NEW b \in Agents, NEW m \in Owners, NEW d \in Domains,
                 NEW u \in Hosts,
                 agents' = [agents EXCEPT ![b] = Reopened(b, m, d, u)]
          PROVE  /\ agents'[b].admin = "active"
                 /\ \A c \in Agents : c # b => agents'[c] = agents[c]
      <4>1. Reopened(b, m, d, u).admin = "active"
        BY <1>0, ReopenedRow
      <4> QED
        BY <1>0, <3>1, <4>1 DEF TypeOK
    <3>2. CASE \E m \in Merchants, d \in Domains, u \in Hosts : Register(m, d, u)
      <4>1. PICK m \in Merchants, d \in Domains, u \in Hosts : Register(m, d, u)
        BY <3>2
      <4>2. Target(m) \subseteq Agents /\ m \in Owners
        BY DEF Target, OwnedBy, Owners
      <4>3. PICK b \in Agents :
               /\ agents' = [agents EXCEPT ![b] = Reopened(b, m, d, u)]
               /\ decision' = [decision EXCEPT ![b] = "active"]
        BY <4>1, <4>2 DEF Register
      <4> QED
        BY <3>1, <4>2, <4>3
    <3>3. CASE \E d \in Domains, u \in Hosts : RegisterAnonymous(d, u)
      <4>1. PICK d \in Domains, u \in Hosts : RegisterAnonymous(d, u)
        BY <3>3
      <4>2. PICK b \in Agents :
               /\ agents' = [agents EXCEPT ![b] = Reopened(b, None, d, u)]
               /\ decision' = [decision EXCEPT ![b] = "active"]
        BY <4>1 DEF RegisterAnonymous
      <4>3. None \in Owners
        BY DEF Owners
      <4> QED
        BY <3>1, <4>2, <4>3
    <3>4. CASE \E m \in Merchants : CreateAccess(m)
      <4>1. PICK b \in Agents, m \in Merchants :
               /\ agents' = [agents EXCEPT ![b].merchant = m, ![b].admin = "active"]
               /\ decision' = [decision EXCEPT ![b] = "active"]
        BY <3>4 DEF CreateAccess
      <4>2. agents[b] \in Rows
        BY <1>0 DEF TypeOK
      <4> QED
        BY <1>0, <4>1, <4>2 DEF TypeOK, Rows
    <3> QED
      BY <1>2, <3>2, <3>3, <3>4 DEF Registration
  <2> QED
    BY <1>0, <2>1 DEF DecisionsHold, TypeOK
<1>3. CASE Claiming
  <2>1. UNCHANGED decision
    BY <1>3 DEF Claiming, ClaimBegin, ClaimFinish, ClaimEnds
  <2>2. PICK c \in Claims : ClaimFinish(c) \/ UNCHANGED agents
    BY <1>3 DEF Claiming, ClaimBegin, ClaimEnds
  <2>3. CASE ClaimFinish(c)
    <3> DEFINE a == claims[c].agent
    <3>1. agents' = [agents EXCEPT ![a] = [agents[a] EXCEPT !.merchant = claims[c].merchant]]
      BY <2>3 DEF ClaimFinish
    <3>2. agents \in [Agents -> Rows]
      BY <1>0 DEF TypeOK
    <3> HIDE DEF a
    <3>3. ASSUME NEW b \in Agents PROVE agents'[b].admin = agents[b].admin
      <4>1. CASE b # a
        BY <3>1, <3>2, <4>1
      <4>2. CASE b = a
        <5>1. agents'[b] = [agents[b] EXCEPT !.merchant = claims[c].merchant]
          BY <3>1, <3>2, <4>2
        <5>2. agents[b] \in Rows
          BY <3>2
        <5> QED
          BY <5>1, <5>2 DEF Rows
      <4> QED
        BY <4>1, <4>2
    <3> QED
      BY <1>1, <2>1, <3>3
  <2> QED
    BY <1>1, <2>1, <2>2, <2>3
<1>4. CASE Moderation
  <2>1. PICK b \in Agents :
          \/ Suspend(b)
          \/ Reinstate(b)
          \/ Heartbeat(b)
          \/ \E x \in Rungs : EvidenceExpires(b, x)
    BY <1>4 DEF Moderation
  <2>2. agents[b] \in Rows
    BY <1>0 DEF TypeOK
  <2>3. CASE Suspend(b) \/ Reinstate(b)
    BY <1>0, <2>2, <2>3 DEF Suspend, Reinstate, DecisionsHold, TypeOK, Rows
  <2>4. CASE Heartbeat(b) \/ \E x \in Rungs : EvidenceExpires(b, x)
    <3>1. /\ UNCHANGED decision
          /\ \/ agents' = [agents EXCEPT ![b].fresh = TRUE]
             \/ \E x \in Rungs : agents' = [agents EXCEPT ![b].valid = @ \ {x}]
      BY <2>4 DEF Heartbeat, EvidenceExpires
    <3>2. \A c \in Agents : agents'[c].admin = agents[c].admin
      <4>1. CASE agents' = [agents EXCEPT ![b].fresh = TRUE]
        BY <1>0, <2>2, <4>1 DEF TypeOK, Rows
      <4>2. CASE \E x \in Rungs : agents' = [agents EXCEPT ![b].valid = @ \ {x}]
        <5>1. PICK x \in Rungs : agents' = [agents EXCEPT ![b].valid = @ \ {x}]
          BY <4>2
        <5>2. agents'[b] = [agents[b] EXCEPT !.valid = @ \ {x}]
          BY <1>0, <5>1 DEF TypeOK
        <5>3. agents'[b].admin = agents[b].admin
          BY <2>2, <5>2 DEF Rows
        <5> QED
          BY <1>0, <5>1, <5>3 DEF TypeOK
      <4> QED
        BY <3>1, <4>1, <4>2
    <3> QED
      BY <1>1, <3>1, <3>2
  <2> QED
    BY <2>1, <2>3, <2>4
<1>5. CASE Ladder
  <2>1. PICK r \in Runs :
          \/ \E b \in Agents, force, audit \in BOOLEAN :
                 VerifyBegin(r, b, force, audit)
          \/ LoadProfiles(r)
          \/ \E recompute \in BOOLEAN : FetchFails(r, recompute)
          \/ IndexProfiles(r)
          \/ \E k \in Levels : Persist(r, k)
          \/ FailAtOnce(r)
          \/ FailRead(r)
          \/ FailWrite(r)
          \/ RunAbandoned(r)
    BY <1>5 DEF Ladder
  <2>2. CASE FailWrite(r)
    <3> DEFINE b == runs[r].agent
    <3>1. b \in Agents /\ UNCHANGED decision
      BY <1>0, <2>2, LadderShape DEF FailWrite, Idle
    <3>2. PICK recompute \in BOOLEAN :
            agents' = [agents EXCEPT ![b] = Failed(agents[b], recompute)]
      BY <2>2 DEF FailWrite
    <3>3. Failed(agents[b], recompute).admin = agents[b].admin
      BY <3>1, FailedRow
    <3>4. \A c \in Agents : agents'[c].admin = agents[c].admin
      BY <1>0, <3>1, <3>2, <3>3 DEF TypeOK
    <3> QED
      BY <1>1, <3>1, <3>4
  <2>3. CASE IndexProfiles(r)
    <3>1. UNCHANGED decision /\ \A b \in Agents : agents'[b].admin = agents[b].admin
      BY <1>0, <2>3 DEF IndexProfiles, TypeOK, Rows
    <3> QED
      BY <1>1, <3>1
  <2>4. CASE FailAtOnce(r)
    <3>1. UNCHANGED decision /\ \A b \in Agents : agents'[b].admin = agents[b].admin
      BY <1>0, <2>4 DEF FailAtOnce, Failed, TypeOK, Rows
    <3> QED
      BY <1>1, <3>1
  <2>5. CASE \E k \in Levels : Persist(r, k)
    <3>1. UNCHANGED decision /\ \A b \in Agents : agents'[b].admin = agents[b].admin
      BY <1>0, <2>5 DEF Persist, Evidence, TypeOK, Rows
    <3> QED
      BY <1>1, <3>1
  <2> QED
    BY <1>1, <2>1, <2>2, <2>3, <2>4, <2>5
       DEF VerifyBegin, LoadProfiles, FetchFails, FailRead, RunAbandoned
<1>6. CASE UNCHANGED vars
  BY <1>1, <1>6 DEF vars
<1> QED
  BY <1>2, <1>3, <1>4, <1>5, <1>6 DEF Next

\* No ladder undoes a suspension or a reinstatement, if nobody commits inside
\* set_state_domains.
THEOREM DecisionsAlwaysHold ==
  ASSUME AtomicDomainWrites PROVE Spec => []DecisionsHold
<1>1. Init => DecisionsHold
  <2>1. NoAgent.admin = "absent"
    BY DEF NoAgent
  <2> QED
    BY <2>1 DEF Init, DecisionsHold
<1> QED
  BY <1>1, DecisionStep, InductiveInvariant, PTL DEF Spec
\* Writing one agent keeps owners apart if nobody else has the new owner.
LEMMA OwnersStayApart ==
  ASSUME TypeOK, OneAgentPerMerchant, NEW a \in Agents, NEW row \in Rows,
         agents' = [agents EXCEPT ![a] = row],
         \/ row.merchant = None
         \/ OwnedBy(row.merchant) \subseteq {a}
  PROVE  OneAgentPerMerchant'
<1> SUFFICES ASSUME NEW m \in Merchants, NEW b \in Agents, NEW c \in Agents,
                    agents'[b].admin # "absent", agents'[b].merchant = m,
                    agents'[c].admin # "absent", agents'[c].merchant = m
             PROVE  b = c
  BY DEF OneAgentPerMerchant, OwnedBy, Live
<1>1. /\ agents'[a] = row
      /\ \A e \in Agents : e # a => agents'[e] = agents[e]
  BY DEF TypeOK
<1>2. CASE b # a /\ c # a
  BY <1>1, <1>2 DEF OneAgentPerMerchant, OwnedBy, Live
<1>3. CASE b = a \/ c = a
  <2>1. row.merchant = m /\ m # None
    BY <1>1, <1>3, NoneAssumption
  <2>2. \A e \in Agents : Live(e) /\ agents[e].merchant = m => e = a
    BY <2>1 DEF OwnedBy
  <2> QED
    BY <1>1, <1>3, <2>2 DEF Live
<1> QED
  BY <1>2, <1>3

LEMMA OneAgentStep ==
  ASSUME IInv, OneAgentPerMerchant, [Next]_vars
  PROVE  OneAgentPerMerchant'
<1>0. TypeOK /\ OneAgentPerMerchant
  BY DEF IInv
<1>1. ASSUME \A b \in Agents : /\ agents'[b].merchant = agents[b].merchant
                               /\ agents'[b].admin = agents[b].admin
      PROVE  OneAgentPerMerchant'
  BY <1>0, <1>1 DEF OneAgentPerMerchant, OwnedBy, Live
<1>2. ASSUME NEW a \in Agents, NEW row \in Rows, Live(a),
             agents' = [agents EXCEPT ![a] = row],
             row.merchant = agents[a].merchant
      PROVE  OneAgentPerMerchant'
  <2>1. row.merchant \in Merchants \cup {None}
    BY DEF Rows, Owners
  <2>2. row.merchant \in Merchants => OwnedBy(row.merchant) \subseteq {a}
    BY <1>0, <1>2 DEF OneAgentPerMerchant, OwnedBy
  <2> QED
    BY <1>0, <1>2, <2>1, <2>2, OwnersStayApart
<1>3. CASE Registration
  <2>1. CASE \E m \in Merchants, d \in Domains, u \in Hosts : Register(m, d, u)
    <3>1. PICK m \in Merchants, d \in Domains, u \in Hosts : Register(m, d, u)
      BY <2>1
    <3>2. Target(m) \subseteq Agents /\ m \in Owners
      BY DEF Target, OwnedBy, Owners
    <3>3. PICK a \in Target(m) :
             agents' = [agents EXCEPT ![a] = Reopened(a, m, d, u)]
      BY <3>1 DEF Register
    <3>4. /\ Reopened(a, m, d, u) \in Rows
          /\ Reopened(a, m, d, u).merchant = m
      BY <3>2, ReopenedRow
    <3>5. OwnedBy(m) \subseteq {a}
      BY <1>0 DEF Target, OneAgentPerMerchant
    <3> HIDE DEF Reopened
    <3> QED
      BY <1>0, <3>2, <3>3, <3>4, <3>5, OwnersStayApart
  <2>2. CASE \E d \in Domains, u \in Hosts : RegisterAnonymous(d, u)
    <3>1. PICK d \in Domains, u \in Hosts : RegisterAnonymous(d, u)
      BY <2>2
    <3>2. PICK a \in Agents :
             agents' = [agents EXCEPT ![a] = Reopened(a, None, d, u)]
      BY <3>1 DEF RegisterAnonymous
    <3>3. /\ Reopened(a, None, d, u) \in Rows
          /\ Reopened(a, None, d, u).merchant = None
      BY ReopenedRow DEF Owners
    <3> QED
      BY <1>0, <3>2, <3>3, OwnersStayApart
  <2>3. CASE \E m \in Merchants : CreateAccess(m)
    <3>1. PICK m \in Merchants, a \in Agents :
             /\ OwnedBy(m) = {}
             /\ agents' = [agents EXCEPT ![a].merchant = m, ![a].admin = "active"]
      BY <2>3 DEF CreateAccess
    <3> DEFINE row == [agents[a] EXCEPT !.merchant = m, !.admin = "active"]
    <3>2. agents[a] \in Rows /\ m \in Owners
      BY <1>0 DEF TypeOK, Owners
    <3>3. agents' = [agents EXCEPT ![a] = row]
      BY <1>0, <3>1 DEF TypeOK
    <3>4. row \in Rows /\ row.merchant = m
      BY <3>2 DEF Rows
    <3> HIDE DEF row
    <3> QED
      BY <1>0, <3>1, <3>3, <3>4, OwnersStayApart
  <2> QED
    BY <1>3, <2>1, <2>2, <2>3 DEF Registration
<1>4. CASE Claiming
  <2>1. PICK c \in Claims :
          \/ \E a \in Agents, m \in Merchants : ClaimBegin(c, a, m)
          \/ ClaimFinish(c)
          \/ ClaimEnds(c)
    BY <1>4 DEF Claiming
  <2>2. CASE ClaimFinish(c)
    <3> DEFINE a == claims[c].agent
               m == claims[c].merchant
               row == [agents[a] EXCEPT !.merchant = m]
    <3>1. a \in Agents /\ m \in Owners /\ OwnedBy(m) \subseteq {a}
      BY <1>0, <2>2 DEF ClaimFinish, ClaimAllowed, TypeOK, ClaimStates, Idle, Owners
    <3>2. agents[a] \in Rows
      BY <1>0, <3>1 DEF TypeOK
    <3>3. agents' = [agents EXCEPT ![a] = row]
      BY <1>0, <2>2, <3>1 DEF ClaimFinish, TypeOK
    <3>4. row \in Rows /\ row.merchant = m
      BY <3>1, <3>2 DEF Rows
    <3> HIDE DEF row, m, a
    <3> QED
      BY <1>0, <3>1, <3>3, <3>4, OwnersStayApart
  <2> QED
    BY <1>1, <2>1, <2>2 DEF ClaimBegin, ClaimEnds
<1>5. CASE Moderation
  <2>1. PICK a \in Agents :
          \/ Suspend(a)
          \/ Reinstate(a)
          \/ Heartbeat(a)
          \/ \E x \in Rungs : EvidenceExpires(a, x)
    BY <1>5 DEF Moderation
  <2>2. agents[a] \in Rows
    BY <1>0 DEF TypeOK
  <2>3. CASE Suspend(a)
    <3> DEFINE row == [agents[a] EXCEPT !.admin = "suspended"]
    <3>1. row \in Rows /\ row.merchant = agents[a].merchant
      BY <2>2 DEF Rows
    <3>2. agents' = [agents EXCEPT ![a] = row] /\ Live(a)
      BY <1>0, <2>3 DEF Suspend, Active, Live, TypeOK
    <3> HIDE DEF row
    <3> QED
      BY <1>2, <3>1, <3>2
  <2>4. CASE Reinstate(a)
    <3> DEFINE row == [agents[a] EXCEPT !.admin = "active"]
    <3>1. row \in Rows /\ row.merchant = agents[a].merchant
      BY <2>2 DEF Rows
    <3>2. agents' = [agents EXCEPT ![a] = row] /\ Live(a)
      BY <1>0, <2>4 DEF Reinstate, Live, TypeOK
    <3> HIDE DEF row
    <3> QED
      BY <1>2, <3>1, <3>2
  <2>5. CASE Heartbeat(a)
    BY <1>0, <1>1, <2>2, <2>5 DEF Heartbeat, TypeOK, Rows
  <2>6. CASE \E x \in Rungs : EvidenceExpires(a, x)
    <3>1. PICK x \in Rungs : agents' = [agents EXCEPT ![a].valid = @ \ {x}]
      BY <2>6 DEF EvidenceExpires
    <3>2. agents'[a] = [agents[a] EXCEPT !.valid = @ \ {x}]
      BY <1>0, <3>1 DEF TypeOK
    <3>3. /\ agents'[a].merchant = agents[a].merchant
          /\ agents'[a].admin = agents[a].admin
      BY <2>2, <3>2 DEF Rows
    <3> QED
      BY <1>0, <1>1, <3>1, <3>3 DEF TypeOK
  <2> QED
    BY <2>1, <2>3, <2>4, <2>5, <2>6
<1>6. CASE Ladder
  <2>1. PICK r \in Runs :
          \/ \E b \in Agents, force, audit \in BOOLEAN :
                 VerifyBegin(r, b, force, audit)
          \/ LoadProfiles(r)
          \/ \E recompute \in BOOLEAN : FetchFails(r, recompute)
          \/ IndexProfiles(r)
          \/ \E k \in Levels : Persist(r, k)
          \/ FailAtOnce(r)
          \/ FailRead(r)
          \/ FailWrite(r)
          \/ RunAbandoned(r)
    BY <1>6 DEF Ladder
  <2>2. CASE IndexProfiles(r)
    BY <1>0, <1>1, <2>2 DEF IndexProfiles, TypeOK, Rows
  <2>3. CASE \E k \in Levels : Persist(r, k)
    BY <1>0, <1>1, <2>3 DEF Persist, Evidence, TypeOK, Rows
  <2>4. CASE FailAtOnce(r)
    BY <1>0, <1>1, <2>4 DEF FailAtOnce, Failed, TypeOK, Rows
  <2>5. CASE FailWrite(r)
    <3> DEFINE a == runs[r].agent
               row == [agents[a] EXCEPT !.level = runs[r].level, !.fresh = FALSE,
                                        !.admin = runs[r].admin]
    <3>1. /\ runs[r] \in [at : {"write"}, agent : Agents, level : Levels,
                          admin : {"active", "suspended"}]
          /\ runs[r] # Idle
      BY <1>0, <2>5, LadderShape DEF FailWrite, Idle
    <3>2. a \in Agents /\ agents[a] \in Rows /\ Live(a)
      BY <1>0, <3>1 DEF TypeOK, IInv, LaddersHaveAgents
    <3>3. row \in Rows /\ row.merchant = agents[a].merchant
      BY <3>1, <3>2 DEF Rows
    <3>4. agents' = [agents EXCEPT ![a] = row]
      BY <1>0, <2>5, <3>2 DEF FailWrite, Written, TypeOK
    <3> HIDE DEF row, a
    <3> QED
      BY <1>2, <3>2, <3>3, <3>4
  <2> QED
    BY <1>1, <2>1, <2>2, <2>3, <2>4, <2>5
       DEF VerifyBegin, LoadProfiles, FetchFails, FailRead, RunAbandoned
<1>7. CASE UNCHANGED vars
  BY <1>1, <1>7 DEF vars
<1> QED
  BY <1>3, <1>4, <1>5, <1>6, <1>7 DEF Next

\* A merchant never has two agents, however its claims and registrations
\* overlap.
THEOREM OneAgentEach == Spec => []OneAgentPerMerchant
<1>1. Init => OneAgentPerMerchant
  <2>1. NoAgent.merchant = None
    BY DEF NoAgent
  <2> QED
    BY <2>1, NoneAssumption DEF Init, OneAgentPerMerchant, OwnedBy
<1> QED
  BY <1>1, OneAgentStep, InductiveInvariant, PTL DEF Spec
\* How a step changes levels and evidence: not at all, to the ground, or on
\* evidence that has not expired; and up only for an active agent.
LEMMA LevelStep ==
  ASSUME AtomicDomainWrites, IInv, [Next]_vars, NEW a \in Agents
  PROVE  \/ agents'[a].level = agents[a].level
         \/ agents'[a].level = 0
         \/ /\ agents'[a].level \in agents'[a].valid
            /\ \/ agents[a].admin = "active"
               \/ agents'[a].level <= agents[a].level
<1> DEFINE Goal == \/ agents'[a].level = agents[a].level
                   \/ agents'[a].level = 0
                   \/ /\ agents'[a].level \in agents'[a].valid
                      /\ \/ agents[a].admin = "active"
                         \/ agents'[a].level <= agents[a].level
<1>0. TypeOK /\ agents[a] \in Rows /\ agents[a].level \in Levels
  BY DEF IInv, TypeOK, Rows
<1>1. CASE Registration
  <2>1. ASSUME NEW b \in Agents, NEW m \in Owners, NEW d \in Domains,
               NEW u \in Hosts,
               agents' = [agents EXCEPT ![b] = Reopened(b, m, d, u)]
        PROVE  Goal
    <3>1. Reopened(b, m, d, u).level = 0
      BY <1>0, ReopenedRow
    <3> QED
      BY <1>0, <2>1, <3>1 DEF TypeOK
  <2>2. CASE \E m \in Merchants, d \in Domains, u \in Hosts : Register(m, d, u)
    <3>1. PICK m \in Merchants, d \in Domains, u \in Hosts : Register(m, d, u)
      BY <2>2
    <3>2. Target(m) \subseteq Agents /\ m \in Owners
      BY DEF Target, OwnedBy, Owners
    <3>3. PICK b \in Agents : agents' = [agents EXCEPT ![b] = Reopened(b, m, d, u)]
      BY <3>1, <3>2 DEF Register
    <3> QED
      BY <2>1, <3>2, <3>3
  <2>3. CASE \E d \in Domains, u \in Hosts : RegisterAnonymous(d, u)
    <3>1. PICK d \in Domains, u \in Hosts : RegisterAnonymous(d, u)
      BY <2>3
    <3>2. PICK b \in Agents :
            agents' = [agents EXCEPT ![b] = Reopened(b, None, d, u)]
      BY <3>1 DEF RegisterAnonymous
    <3>3. None \in Owners
      BY DEF Owners
    <3> QED
      BY <2>1, <3>2, <3>3
  <2>4. CASE \E m \in Merchants : CreateAccess(m)
    <3>1. PICK b \in Agents, m \in Merchants :
            agents' = [agents EXCEPT ![b].merchant = m, ![b].admin = "active"]
      BY <2>4 DEF CreateAccess
    <3>2. agents[b] \in Rows
      BY <1>0 DEF TypeOK
    <3> QED
      BY <1>0, <3>1, <3>2 DEF TypeOK, Rows
  <2> QED
    BY <1>1, <2>2, <2>3, <2>4 DEF Registration
<1>2. CASE Claiming
  BY <1>0, <1>2 DEF Claiming, ClaimBegin, ClaimFinish, ClaimEnds, TypeOK, Rows
<1>3. CASE Moderation
  <2>1. PICK b \in Agents :
          \/ Suspend(b)
          \/ Reinstate(b)
          \/ Heartbeat(b)
          \/ \E x \in Rungs : EvidenceExpires(b, x)
    BY <1>3 DEF Moderation
  <2>2. agents[b] \in Rows
    BY <1>0 DEF TypeOK
  <2>3. CASE Suspend(b) \/ Reinstate(b) \/ Heartbeat(b)
    BY <1>0, <2>2, <2>3 DEF Suspend, Reinstate, Heartbeat, TypeOK, Rows
  <2>4. CASE \E x \in Rungs : EvidenceExpires(b, x)
    <3>1. PICK x \in Rungs : agents' = [agents EXCEPT ![b].valid = @ \ {x}]
      BY <2>4 DEF EvidenceExpires
    <3>2. agents'[b] = [agents[b] EXCEPT !.valid = @ \ {x}]
      BY <1>0, <3>1 DEF TypeOK
    <3>3. agents'[b].level = agents[b].level
      BY <2>2, <3>2 DEF Rows
    <3> QED
      BY <1>0, <3>1, <3>3 DEF TypeOK
  <2> QED
    BY <2>1, <2>3, <2>4
<1>4. CASE Ladder
  <2>1. PICK r \in Runs :
          \/ \E b \in Agents, force, audit \in BOOLEAN :
                 VerifyBegin(r, b, force, audit)
          \/ LoadProfiles(r)
          \/ \E recompute \in BOOLEAN : FetchFails(r, recompute)
          \/ IndexProfiles(r)
          \/ \E k \in Levels : Persist(r, k)
          \/ FailAtOnce(r)
          \/ FailRead(r)
          \/ FailWrite(r)
          \/ RunAbandoned(r)
    BY <1>4 DEF Ladder
  <2>3. CASE IndexProfiles(r)
    BY <1>0, <2>3 DEF IndexProfiles, TypeOK, Rows
  <2>2. ASSUME NEW b \in Agents, NEW recompute \in BOOLEAN,
               agents' = [agents EXCEPT ![b] = Failed(agents[b], recompute)]
        PROVE  Goal
    <3> DEFINE failed == Failed(agents[b], recompute)
    <3>1. CASE a # b
      BY <1>0, <2>2, <3>1 DEF TypeOK
    <3>2. CASE a = b
      <4>1. agents'[a] = failed
        BY <1>0, <2>2, <3>2 DEF TypeOK
      <4>2. /\ failed.level \in {0, agents[a].level} \cup failed.valid
            /\ failed.level <= agents[a].level
        BY <3>2, FailedRow
      <4> HIDE DEF failed
      <4> QED
        BY <4>1, <4>2
    <3> QED
      BY <3>1, <3>2
  <2>4. CASE FailAtOnce(r) \/ FailWrite(r)
    <3>1. runs[r].agent \in Agents
      BY <1>0, <2>4, LadderShape DEF FailAtOnce, FailWrite, Idle
    <3>2. FailAtOnce(r) => runs[r].recompute \in BOOLEAN
      BY <1>0, LadderShape DEF FailAtOnce
    <3>3. PICK b \in Agents, recompute \in BOOLEAN :
            agents' = [agents EXCEPT ![b] = Failed(agents[b], recompute)]
      <4>1. CASE FailAtOnce(r)
        BY <3>1, <3>2, <4>1 DEF FailAtOnce
      <4>2. CASE FailWrite(r)
        BY <3>1, <4>2 DEF FailWrite
      <4> QED
        BY <2>4, <4>1, <4>2
    <3> QED
      BY <2>2, <3>3
  <2>5. CASE \E k \in Levels : Persist(r, k)
    <3>1. PICK k \in Levels : Persist(r, k)
      BY <2>5
    <3> DEFINE b == runs[r].agent
               row == Evidence(agents[b], agents[b].domain, k)
               level == IF k = Top THEN Top ELSE Supported(runs[r].level, row)
    <3>2. /\ runs[r].at = "prove" /\ runs[r].domain = agents[b].domain
          /\ agents[b].admin = "active"
          /\ agents' = [agents EXCEPT ![b] = [row EXCEPT !.level = level]]
      BY <3>1 DEF Persist, UnchangedSince
    <3>3. runs[r].level \in Levels /\ b \in Agents /\ agents[b].domain # None
      <4>1. runs[r].at \in {"fetch", "prove"}
        BY <3>2
      <4>2. runs[r] \in
              [at : {"fetch", "prove"}, agent : Agents, audit : BOOLEAN,
               merchant : Owners, domain : Hosts, level : Levels, urls : Domains]
        BY <4>1, LadderShape DEF IInv
      <4> QED
        BY <4>1, <4>2 DEF IInv, LaddersHaveAgents
    <3>4. row \in Rows /\ (k = Top => Top \in row.valid)
      BY <3>3, EvidenceRow
    <3>5. /\ Supported(runs[r].level, row) # 0 =>
               Supported(runs[r].level, row) \in row.valid
      BY <3>3, SupportedLevel
    <3>6. level = 0 \/ level \in row.valid
      <4> HIDE DEF row
      <4> QED
        BY <3>4, <3>5
    <3>7. CASE a # b
      BY <1>0, <3>2, <3>7 DEF TypeOK
    <3>8. CASE a = b
      <4>1. agents'[a] = [row EXCEPT !.level = level]
        BY <1>0, <3>2, <3>8 DEF TypeOK
      <4> HIDE DEF row, level
      <4>2. agents'[a].level = level /\ agents'[a].valid = row.valid
        BY <3>4, <4>1 DEF Rows
      <4> QED
        BY <3>2, <3>6, <3>8, <4>2
    <3> QED
      BY <3>7, <3>8
  <2> QED
    BY <2>1, <2>2, <2>3, <2>4, <2>5
       DEF VerifyBegin, LoadProfiles, FetchFails, FailRead, RunAbandoned
<1>5. CASE UNCHANGED vars
  BY <1>5 DEF vars
<1> QED
  BY <1>1, <1>2, <1>3, <1>4, <1>5 DEF Next

\* No ladder in flight promotes an agent that was suspended meanwhile, if
\* nobody commits inside set_state_domains.
THEOREM SuspendedAreNotPromoted ==
  ASSUME AtomicDomainWrites PROVE Spec => NoPromotionWhileSuspended
<1>1. ASSUME IInv, [Next]_vars
      PROVE  [\A a \in Agents :
                agents[a].admin = "suspended" => agents'[a].level <= agents[a].level
             ]_vars
  <2>1. SUFFICES ASSUME NEW a \in Agents, agents[a].admin = "suspended"
                 PROVE  agents'[a].level <= agents[a].level
    OBVIOUS
  <2>2. agents[a].level \in Nat
    BY <1>1, TopAssumption DEF IInv, TypeOK, Rows, Levels
  <2> QED
    BY <1>1, <2>1, <2>2, LevelStep
<1> QED
  BY <1>1, InductiveInvariant, PTL DEF Spec, NoPromotionWhileSuspended

\* A level that changes is the ground or rests on unexpired evidence of its own
\* rung, if nobody commits inside set_state_domains.
THEOREM ChangesAreBacked ==
  ASSUME AtomicDomainWrites PROVE Spec => ChangedLevelsAreBacked
<1>1. ASSUME IInv, [Next]_vars
      PROVE  [\A a \in Agents :
                agents'[a].level # agents[a].level =>
                    agents'[a].level \in agents'[a].valid \cup {0}
             ]_vars
  <2>1. SUFFICES ASSUME NEW a \in Agents, agents'[a].level # agents[a].level
                 PROVE  agents'[a].level \in agents'[a].valid \cup {0}
    OBVIOUS
  <2> QED
    BY <1>1, <2>1, LevelStep
<1> QED
  BY <1>1, InductiveInvariant, PTL DEF Spec, ChangedLevelsAreBacked
===============================================================================
