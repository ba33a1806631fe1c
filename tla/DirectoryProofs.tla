-------------------------- MODULE DirectoryProofs ---------------------------
(***************************************************************************)
(* Proofs about the parts that serve every merchant alike: opening the     *)
(* database (Migrations), fetching profiles (ProfileFetcher) and paging    *)
(* through public searches (SearchPages).  Each is proved by itself, for   *)
(* any number of processes, fetches, resolver threads and rows.            *)
(***************************************************************************)
EXTENDS Migrations, ProfileFetcher, SearchPages, FiniteSetTheorems, TLAPS

(***************************************************************************)
(* Migrations.  OnceInOrder holds because the chain a process works on     *)
(* continues the committed one: WorkContinues.  That stays true while      *)
(* others go on since only the holder of the lock is at the chain,         *)
(* LockIsHeld, so that nobody else can commit in the meantime.             *)
(***************************************************************************)
LockIsHeld == \A p \in Processes : conns[p] \in {"chain", "commit"} <=> lock = p

WorkContinues ==
    lock # None =>
      /\ work.version = version + Len(work.ran)
      /\ \A i \in DOMAIN work.ran : work.ran[i] = version + i

IInv == TypeOK /\ OnceInOrder /\ LockIsHeld /\ WorkContinues

LEMMA CurrentIsNat == Current \in Nat
  BY DEF Current, Chain

Consecutive(r, a) == \A i \in DOMAIN r : r[i] = a + i

\* Joining two runs of consecutive versions gives one.
LEMMA Continued ==
    ASSUME NEW a \in Nat, NEW b \in Nat, NEW r \in Seq(Nat), NEW s \in Seq(Nat),
           b = a + Len(r), Consecutive(r, a), Consecutive(s, b)
    PROVE  /\ r \o s \in Seq(Nat)
           /\ Len(r \o s) = Len(r) + Len(s)
           /\ Consecutive(r \o s, a)
  <1> USE DEF Consecutive
  <1>1. r \o s \in Seq(Nat) /\ Len(r \o s) = Len(r) + Len(s)
    OBVIOUS
  <1>2. ASSUME NEW i \in DOMAIN (r \o s) PROVE (r \o s)[i] = a + i
    <2>1. i \in 1 .. Len(r) + Len(s)
      BY <1>1, <1>2
    <2>2. CASE i <= Len(r)
      <3>1. i \in DOMAIN r /\ (r \o s)[i] = r[i]
        BY <2>1, <2>2
      <3> QED BY <3>1
    <2>3. CASE i > Len(r)
      <3>1. i - Len(r) \in DOMAIN s /\ (r \o s)[i] = s[i - Len(r)]
        BY <2>1, <2>3
      <3>2. s[i - Len(r)] = b + (i - Len(r))
        BY <3>1
      <3> QED BY <2>1, <3>1, <3>2
    <2> QED BY <2>1, <2>2, <2>3
  <1> QED BY <1>1, <1>2

LEMMA InitIInv == Init => IInv
  <1> SUFFICES ASSUME Init PROVE IInv
    OBVIOUS
  <1>1. TypeOK
    BY CurrentIsNat DEF Init, TypeOK, NoWork, Stages
  <1>2. OnceInOrder
    BY <1>1 DEF Init, OnceInOrder, TypeOK
  <1>3. LockIsHeld
    BY NoneAssumption DEF Init, LockIsHeld
  <1>4. WorkContinues
    BY DEF Init, WorkContinues
  <1> QED BY <1>1, <1>2, <1>3, <1>4 DEF IInv

\* Steps that move a connection outside the chain and commit no version.
LEMMA Aside ==
    ASSUME IInv, NEW p \in Processes, NEW stage \in Stages \ {"chain", "commit"},
           conns[p] \notin {"chain", "commit"}, Become(p, stage),
           UNCHANGED <<version, lock, work, birth, ran>>,
           meta' \in Nat, seen' \in [Processes -> Nat]
    PROVE  IInv'
  <1>1. TypeOK'
    BY DEF IInv, TypeOK, Become, Stages
  <1>2. OnceInOrder'
    BY DEF IInv, OnceInOrder
  <1>3. LockIsHeld'
    BY DEF IInv, LockIsHeld, Become, TypeOK
  <1>4. WorkContinues'
    BY DEF IInv, WorkContinues
  <1> QED BY <1>1, <1>2, <1>3, <1>4 DEF IInv

LEMMA StepIInv == IInv /\ [Next]_vars => IInv'
  <1> SUFFICES ASSUME IInv, [Next]_vars PROVE IInv'
    OBVIOUS
  <1> USE NoneAssumption, CurrentIsNat
  <1>1. ASSUME NEW p \in Processes, Open(p) PROVE IInv'
    <2>1. PICK stage \in {"schema", "open", "refused"} : Become(p, stage)
      BY <1>1 DEF Open, IInv, TypeOK
    <2>2. seen' \in [Processes -> Nat] /\ meta' \in Nat
      BY <1>1 DEF Open, IInv, TypeOK, database
    <2> QED BY <1>1, <2>1, <2>2, Aside DEF Open, database, Stages
  <1>2. ASSUME NEW p \in Processes, Close(p) PROVE IInv'
    BY <1>2, Aside DEF Close, IInv, TypeOK, database, Stages
  <1>3. ASSUME NEW p \in Processes, CreateSchema(p) PROVE IInv'
    <2>1. UNCHANGED <<version, meta, lock, work, conns, seen, birth, ran>>
      BY <1>3 DEF CreateSchema
    <2> QED BY <2>1 DEF IInv, TypeOK, OnceInOrder, LockIsHeld, WorkContinues
  <1>4. ASSUME NEW p \in Processes, SchemaDone(p) PROVE IInv'
    BY <1>4, Aside DEF SchemaDone, IInv, TypeOK, database, Stages
  <1>5. ASSUME NEW p \in Processes, Begin(p) PROVE IInv'
    <2>1. /\ work'.version = version /\ work'.ran = <<>>
          /\ lock = None /\ lock' = p
          /\ conns' = [conns EXCEPT ![p] = "chain"]
          /\ UNCHANGED <<version, meta, seen, birth, ran>>
      BY <1>5 DEF Begin, Start, Become, database
    <2>2. TypeOK'
      BY <2>1 DEF IInv, TypeOK, Stages
    <2>3. OnceInOrder'
      BY <2>1 DEF IInv, OnceInOrder
    <2>4. LockIsHeld'
      BY <2>1 DEF IInv, LockIsHeld, TypeOK
    <2>5. WorkContinues'
      BY <2>1 DEF IInv, WorkContinues, TypeOK
    <2> QED BY <2>2, <2>3, <2>4, <2>5 DEF IInv
  <1>6. ASSUME NEW p \in Processes, Apply(p) PROVE IInv'
    <2>1. /\ conns[p] = "chain" /\ lock = p
          /\ work'.version = work.version + 1
          /\ work'.ran = Append(work.ran, work.version + 1)
          /\ UNCHANGED <<version, meta, lock, conns, seen, birth, ran>>
      BY <1>6 DEF Apply, database, IInv, LockIsHeld
    <2>2. TypeOK'
      BY <2>1 DEF IInv, TypeOK
    <2>3. OnceInOrder'
      BY <2>1 DEF IInv, OnceInOrder
    <2>4. LockIsHeld'
      BY <2>1 DEF IInv, LockIsHeld
    <2>5. WorkContinues'
      <3>1. /\ work.version = version + Len(work.ran)
            /\ \A i \in DOMAIN work.ran : work.ran[i] = version + i
            /\ work.ran \in Seq(Nat) /\ version \in Nat /\ work.version \in Nat
        BY <2>1 DEF IInv, WorkContinues, TypeOK
      <3>2. Len(work'.ran) = Len(work.ran) + 1
        BY <2>1, <3>1
      <3>3. ASSUME NEW i \in DOMAIN work'.ran PROVE work'.ran[i] = version + i
        <4>1. CASE i = Len(work.ran) + 1
          BY <2>1, <3>1, <4>1
        <4>2. CASE i # Len(work.ran) + 1
          <5>1. i \in DOMAIN work.ran /\ work'.ran[i] = work.ran[i]
            BY <2>1, <3>1, <3>2, <3>3, <4>2
          <5> QED BY <3>1, <5>1
        <4> QED BY <4>1, <4>2
      <3> QED BY <2>1, <3>1, <3>2, <3>3 DEF WorkContinues
    <2> QED BY <2>2, <2>3, <2>4, <2>5 DEF IInv
  <1>7. ASSUME NEW p \in Processes, ChainDone(p) PROVE IInv'
    <2>1. /\ conns[p] = "chain" /\ conns' = [conns EXCEPT ![p] = "commit"]
          /\ UNCHANGED <<version, meta, lock, work, seen, birth, ran>>
      BY <1>7 DEF ChainDone, Become, database
    <2> QED BY <2>1 DEF IInv, TypeOK, OnceInOrder, LockIsHeld, WorkContinues, Stages
  <1>8. ASSUME NEW p \in Processes, Commit(p) PROVE IInv'
    <2>1. /\ conns[p] = "commit" /\ lock = p
          /\ version' = work.version /\ ran' = ran \o work.ran
          /\ lock' = None /\ work'.version = 0 /\ work'.ran = <<>>
          /\ conns' = [conns EXCEPT ![p] = "meta"]
          /\ UNCHANGED <<meta, seen, birth>>
      BY <1>8 DEF Commit, Become, NoWork, IInv, LockIsHeld
    <2>2. /\ version = birth + Len(ran)
          /\ work.version = version + Len(work.ran)
          /\ Consecutive(ran, birth) /\ Consecutive(work.ran, version)
          /\ birth \in Nat /\ version \in Nat /\ ran \in Seq(Nat) /\ work.ran \in Seq(Nat)
      BY <2>1 DEF IInv, OnceInOrder, WorkContinues, TypeOK, Consecutive
    <2>3. /\ ran' \in Seq(Nat) /\ Len(ran') = Len(ran) + Len(work.ran)
          /\ Consecutive(ran', birth)
      BY <2>1, <2>2, Continued
    <2>4. TypeOK'
      BY <2>1, <2>3 DEF IInv, TypeOK, Stages
    <2>5. OnceInOrder'
      <3>1. version' = birth + (Len(ran) + Len(work.ran))
        <4> DEFINE m == Len(ran)
        <4> DEFINE n == Len(work.ran)
        <4>1. m \in Nat /\ n \in Nat /\ birth \in Nat
          BY <2>2
        <4>2. version' = (birth + m) + n
          BY <2>1, <2>2
        <4> HIDE DEF m, n
        <4>3. version' = birth + (m + n)
          BY <4>1, <4>2
        <4> QED BY <4>3 DEF m, n
      <3>2. version' = birth + Len(ran')
        BY <2>3, <3>1
      <3> QED BY <2>1, <2>3, <3>2 DEF OnceInOrder, Consecutive
    <2>6. LockIsHeld'
      BY <2>1 DEF IInv, LockIsHeld, TypeOK
    <2>7. WorkContinues'
      BY <2>1 DEF WorkContinues
    <2> QED BY <2>4, <2>5, <2>6, <2>7 DEF IInv
  <1>9. ASSUME NEW p \in Processes, WriteMeta(p) PROVE IInv'
    BY <1>9, Aside DEF WriteMeta, IInv, TypeOK, Stages
  <1>10. ASSUME NEW p \in Processes, GiveUp(p) PROVE IInv'
    <2>1. /\ conns' = [conns EXCEPT ![p] = "closed"]
          /\ UNCHANGED <<version, meta, seen, birth, ran>>
      BY <1>10 DEF GiveUp, Become, database
    <2>2. CASE lock = p
      <3>1. lock' = None /\ work'.version = 0 /\ work'.ran = <<>>
        BY <1>10, <2>2 DEF GiveUp, NoWork
      <3> QED BY <2>1, <2>2, <3>1
              DEF IInv, TypeOK, OnceInOrder, LockIsHeld, WorkContinues, Stages
    <2>3. CASE lock # p
      <3>1. UNCHANGED <<lock, work>>
        BY <1>10, <2>3 DEF GiveUp
      <3>2. conns[p] \notin {"chain", "commit"}
        BY <2>3 DEF IInv, LockIsHeld
      <3> QED BY <2>1, <3>1, <3>2, Aside DEF IInv, TypeOK, Become, Stages
    <2> QED BY <2>2, <2>3
  <1>11. CASE UNCHANGED vars
    BY <1>11 DEF vars, database, IInv, TypeOK, OnceInOrder, LockIsHeld, WorkContinues
  <1> QED
    BY <1>1, <1>2, <1>3, <1>4, <1>5, <1>6, <1>7, <1>8, <1>9, <1>10, <1>11 DEF Next

\* The database, the lock and the connections are of their kind.
THEOREM TypeCorrect == Spec => []TypeOK
  <1>1. IInv => TypeOK
    BY DEF IInv
  <1> QED BY InitIInv, StepIInv, <1>1, PTL DEF Spec

\* Every migration takes effect once and in its order, however many processes
\* open the database together and wherever they crash (run_migrations reads
\* the version again under the lock).
THEOREM EachOnce == Spec => []OnceInOrder
  <1>1. IInv => OnceInOrder
    BY DEF IInv
  <1> QED BY InitIInv, StepIInv, <1>1, PTL DEF Spec

\* Two processes are never at the chain at once (BEGIN IMMEDIATE, held until
\* the commit).
THEOREM OneMigrates ==
    Spec => [](\A p, q \in Processes :
                 conns[p] \in {"chain", "commit"} /\ conns[q] \in {"chain", "commit"} => p = q)
  <1>1. IInv => \A p, q \in Processes :
                  conns[p] \in {"chain", "commit"} /\ conns[q] \in {"chain", "commit"} => p = q
    BY DEF IInv, LockIsHeld
  <1> QED BY InitIInv, StepIInv, <1>1, PTL DEF Spec

(***************************************************************************)
(* OpenedIsComplete.  The committed schema is what some release has left   *)
(* and statements of SCHEMA that found nothing (Grown): committing one by  *)
(* one, crashing between them and several processes at it change nothing   *)
(* of that.  Who goes on to the lock has seen that nothing is missing,     *)
(* and from then on the schema stands still until a chain commits; what    *)
(* the holder of the lock has made of it is what the chain makes of it.    *)
(* What the chain comes to is a fact of the statements, ChainAssumption.   *)
(***************************************************************************)
Grown(objs, v) ==
    \E left \in Left(v) : \E I \in SUBSET Lacking(left) : objs = With(left, I)

WorkMigrates ==
    lock # None => /\ work.version \in version .. Current
                   /\ work.objects = Migrated(objects, version, work.version)

StagesTell ==
    \A p \in Processes :
       /\ conns[p] \notin {"closed", "refused"} => version <= Current
       /\ conns[p] \in {"lock", "chain", "commit"} => Missing = {}
       /\ conns[p] = "commit" => work.version >= Current
       /\ conns[p] \in {"meta", "open"} => version = Current

ChainInv ==
    /\ version <= Current => Grown(objects, version)
    /\ StagesTell
    /\ WorkMigrates

\* A statement of SCHEMA that finds nothing adds what it is about.
LEMMA SchemaAdds ==
    ASSUME NEW objs, NEW i \in DOMAIN Schema, Schema[i].on \notin objs
    PROVE  Executed(objs, Schema[i]) = objs \cup Schema[i].adds
<1>1. Schema[i].op \in {"table", "index"}
  BY SchemaAssumption, Zenon
<1> QED
  BY <1>1 DEF Executed

LEMMA GrownMore ==
    ASSUME NEW v, NEW objs, Grown(objs, v), NEW i \in DOMAIN Schema, Schema[i].on \notin objs
    PROVE  Grown(Executed(objs, Schema[i]), v)
<1>0. PICK left \in Left(v) : \E I \in SUBSET Lacking(left) : objs = With(left, I)
  BY Zenon DEF Grown
<1>1. PICK I \in SUBSET Lacking(left) : objs = With(left, I)
  BY <1>0
<1>2. i \in Lacking(left)
  BY <1>1 DEF Lacking, With
<1>3. Executed(objs, Schema[i]) = With(left, I \cup {i})
  BY <1>1, SchemaAdds DEF With
<1>4. I \cup {i} \in SUBSET Lacking(left)
  BY <1>1, <1>2
<1> QED
  BY <1>1, <1>3, <1>4, Zenon DEF Grown

\* When none finds nothing, all have been executed.
LEMMA GrownWhole ==
    ASSUME NEW v, NEW objs, Grown(objs, v), Lacking(objs) = {}
    PROVE  \E left \in Left(v) : objs = With(left, Lacking(left))
<1>0. PICK left \in Left(v) : \E I \in SUBSET Lacking(left) : objs = With(left, I)
  BY Zenon DEF Grown
<1>1. PICK I \in SUBSET Lacking(left) : objs = With(left, I)
  BY <1>0
<1>2. ASSUME NEW i \in Lacking(left) PROVE i \in I
  <2>1. i \in DOMAIN Schema /\ Schema[i].on \notin left /\ Schema[i].on \in objs
    BY <1>2 DEF Lacking
  <2>2. PICK j \in I : Schema[i].on \in Schema[j].adds
    BY <1>1, <2>1 DEF With
  <2>3. j \in DOMAIN Schema
    BY <1>1, <2>2 DEF Lacking
  <2>4. i = j
    BY <2>1, <2>2, <2>3, SchemaAssumption, Zenon
  <2> QED
    BY <2>2, <2>4
<1>3. I = Lacking(left)
  BY <1>1, <1>2
<1> QED
  BY <1>1, <1>3

\* What this release has left is the whole schema.
LEMMA GrownCurrent ==
    ASSUME NEW objs, Grown(objs, Current) PROVE objs = Complete
<1>0. PICK left \in Left(Current) : \E I \in SUBSET Lacking(left) : objs = With(left, I)
  BY Zenon DEF Grown
<1>1. PICK I \in SUBSET Lacking(left) : objs = With(left, I)
  BY <1>0
<1>2. left = Complete /\ I = {}
  BY <1>1, SchemaAssumption
<1> QED
  BY <1>1, <1>2 DEF With

LEMMA CompleteIsGrown == Grown(Complete, Current) /\ Lacking(Complete) = {}
<1>1. Complete \in Left(Current) /\ {} \in SUBSET Lacking(Complete) /\ Lacking(Complete) = {}
  BY SchemaAssumption
<1>2. Complete = With(Complete, {})
  BY DEF With
<1> QED
  BY <1>1, <1>2, Zenon DEF Grown

\* The chain from a schema in which nothing is missing.
LEMMA ChainSteps ==
    ASSUME NEW v \in 0 .. Current, NEW objs, Grown(objs, v), Lacking(objs) = {}
    PROVE  /\ Migrated(objs, v, v) = objs
           /\ \A u \in v + 1 .. Current :
                 Migrated(objs, v, u) = ExecutedAll(Migrated(objs, v, u - 1), Chain[u])
           /\ Migrated(objs, v, Current) = Complete
<1>1. PICK left \in Left(v) : objs = With(left, Lacking(left))
  BY GrownWhole
<1>2. /\ \A u \in v + 1 .. Current :
           Migrated(objs, v, u) = ExecutedAll(Migrated(objs, v, u - 1), Chain[u])
      /\ Migrated(objs, v, Current) = Complete
  BY <1>1, ChainAssumption, Zenon
<1>3. v + 1 .. v = {}
  BY CurrentIsNat
<1>4. Migrated(objs, v, v) = objs
  BY <1>3, Zenon DEF Migrated
<1> QED
  BY <1>2, <1>4

LEMMA MissingIsLacking == Missing = Lacking(objects)
  BY DEF Missing, Lacking

LEMMA InitChainInv == Init => ChainInv
<1> SUFFICES ASSUME Init PROVE ChainInv
  OBVIOUS
<1>1. ASSUME version <= Current PROVE Grown(objects, version)
  <2>1. objects \in Left(version)
    BY <1>1 DEF Init
  <2>2. objects = With(objects, {}) /\ {} \in SUBSET Lacking(objects)
    BY DEF With
  <2> QED
    BY <2>1, <2>2, Zenon DEF Grown
<1>2. StagesTell
  BY DEF Init, StagesTell
<1>3. WorkMigrates
  BY DEF Init, WorkMigrates
<1> QED
  BY <1>1, <1>2, <1>3 DEF ChainInv

\* Steps that commit nothing and do nothing under the lock.
LEMMA StageMoves ==
    ASSUME IInv, ChainInv, NEW p \in Processes, NEW stage \in Stages \ {"chain", "commit"},
           Become(p, stage), UNCHANGED <<objects, version>>,
           lock' = None \/ UNCHANGED <<lock, work>>,
           lock' = lock \/ lock = p,
           stage \notin {"closed", "refused"} => version <= Current,
           stage = "lock" => Missing = {},
           stage \in {"meta", "open"} => version = Current
    PROVE  ChainInv'
<1>1. /\ conns' = [conns EXCEPT ![p] = stage]
      /\ objects' = objects /\ version' = version /\ Missing' = Missing
      /\ conns \in [Processes -> Stages]
  BY DEF Become, Missing, IInv, TypeOK
<1>2. ASSUME NEW q \in Processes, q # p, conns[q] = "commit" PROVE work' = work
  <2>1. lock = q /\ q # None
    BY <1>2, NoneAssumption DEF IInv, LockIsHeld
  <2> QED
    BY <1>2, <2>1
<1>3. StagesTell'
  BY <1>1, <1>2 DEF ChainInv, StagesTell
<1>4. WorkMigrates'
  BY <1>1 DEF ChainInv, WorkMigrates
<1>5. (version <= Current => Grown(objects, version))'
  BY <1>1 DEF ChainInv
<1> QED
  BY <1>3, <1>4, <1>5 DEF ChainInv

LEMMA LeastNumber ==
    ASSUME NEW S, S \subseteq Nat, S # {} PROVE \E i \in S : \A j \in S : i <= j
<1>1. PICK i \in S : \A j \in S : <<j, i>> \notin OpToRel(<, Nat)
  BY NatLessThanWellFounded, WFMin
<1>2. ASSUME NEW j \in S, j < i PROVE FALSE
  <2>1. i \in Nat /\ j \in Nat
    BY <1>2
  <2>2. <<j, i>> \in OpToRel(<, Nat)
    BY <1>2, <2>1 DEF OpToRel
  <2> QED
    BY <1>1, <1>2, <2>2
<1>3. \A j \in S : i \in Nat /\ j \in Nat /\ ~(j < i)
  BY <1>1, <1>2
<1>4. \A j \in S : i <= j
  BY <1>3
<1> QED
  BY <1>1, <1>4, Zenon

LEMMA SchemaKeepsChain ==
    ASSUME IInv, ChainInv, NEW p \in Processes, CreateSchema(p) PROVE ChainInv'
<1>1. /\ lock = None /\ Missing # {} /\ conns[p] = "schema"
      /\ UNCHANGED <<version, lock, work, conns>>
  BY DEF CreateSchema
<1>2. PICK i \in DOMAIN Schema : Schema[i].on \notin objects
                               /\ objects' = Executed(objects, Schema[i])
  <2> DEFINE least == CHOOSE i \in Missing : \A j \in Missing : i <= j
  <2>1. objects' = Executed(objects, Schema[least])
    BY DEF CreateSchema
  <2>2. least \in Missing
    <3>1. Missing \subseteq Nat /\ Missing # {}
      BY <1>1, SchemaAssumption DEF Missing
    <3>2. \E i \in Missing : \A j \in Missing : i <= j
      <4> HIDE DEF Missing
      <4> QED
        BY <3>1, LeastNumber
    <3> QED
      BY <3>2
  <2> HIDE DEF least
  <2> QED
    BY <2>1, <2>2 DEF Missing
<1>3. version <= Current => Grown(objects', version)
  BY <1>2, GrownMore DEF ChainInv
<1>4. StagesTell'
  <2>1. \A q \in Processes : conns[q] \notin {"lock", "chain", "commit"}
    BY <1>1 DEF ChainInv, StagesTell
  <2> QED
    BY <1>1, <2>1 DEF ChainInv, StagesTell
<1>5. WorkMigrates'
  BY <1>1 DEF WorkMigrates
<1> QED
  BY <1>1, <1>3, <1>4, <1>5 DEF ChainInv

LEMMA BeginKeepsChain ==
    ASSUME IInv, ChainInv, NEW p \in Processes, Begin(p) PROVE ChainInv'
<1>1. /\ conns[p] = "lock" /\ lock = None /\ lock' = p
      /\ work'.objects = objects /\ work'.version = version
      /\ conns' = [conns EXCEPT ![p] = "chain"]
      /\ objects' = objects /\ version' = version
  BY DEF Begin, Start, Become, database
<1>2. /\ conns \in [Processes -> Stages] /\ version \in Nat
      /\ \A q \in Processes : conns[q] # "commit"
  BY <1>1, NoneAssumption DEF IInv, TypeOK, LockIsHeld
<1>3. version <= Current /\ Missing = {}
  BY <1>1 DEF ChainInv, StagesTell
<1>4. Missing' = {}
  BY <1>1, <1>3 DEF Missing
<1>5. StagesTell'
  BY <1>1, <1>2, <1>3, <1>4 DEF ChainInv, StagesTell
<1>6. WorkMigrates'
  <2>1. version \in 0 .. Current /\ version \in version .. Current
    BY <1>2, <1>3, CurrentIsNat
  <2>2. Migrated(objects, version, version) = objects
    BY <1>3, <2>1, ChainSteps, MissingIsLacking DEF ChainInv
  <2> QED
    BY <1>1, <2>1, <2>2 DEF WorkMigrates
<1> QED
  BY <1>1, <1>5, <1>6 DEF ChainInv

LEMMA ApplyKeepsChain ==
    ASSUME IInv, ChainInv, NEW p \in Processes, Apply(p) PROVE ChainInv'
<1> DEFINE u == work.version + 1
<1>1. /\ conns[p] = "chain" /\ work.version < Current
      /\ work'.objects = ExecutedAll(work.objects, Chain[u]) /\ work'.version = u
      /\ lock' = lock /\ conns' = conns /\ objects' = objects /\ version' = version
  BY DEF Apply, database
<1>2. /\ lock = p /\ lock # None /\ version \in Nat
      /\ \A q \in Processes : conns[q] # "commit"
  BY <1>1, NoneAssumption DEF IInv, TypeOK, LockIsHeld
<1>3. /\ work.version \in version .. Current
      /\ work.objects = Migrated(objects, version, work.version)
  BY <1>2 DEF ChainInv, WorkMigrates
<1>4. version <= Current /\ Missing = {}
  BY <1>1 DEF ChainInv, StagesTell
<1>5. /\ version \in 0 .. Current /\ u \in version + 1 .. Current
      /\ u \in version .. Current /\ u - 1 = work.version
  BY <1>1, <1>2, <1>3, <1>4, CurrentIsNat
<1> HIDE DEF u
<1>6. Migrated(objects, version, u) = ExecutedAll(Migrated(objects, version, u - 1), Chain[u])
  BY <1>4, <1>5, ChainSteps, MissingIsLacking DEF ChainInv
<1>7. WorkMigrates'
  BY <1>1, <1>3, <1>5, <1>6 DEF WorkMigrates
<1>8. StagesTell'
  BY <1>1, <1>2 DEF ChainInv, StagesTell, Missing
<1> QED
  BY <1>1, <1>7, <1>8 DEF ChainInv

LEMMA CommitKeepsChain ==
    ASSUME IInv, ChainInv, NEW p \in Processes, Commit(p) PROVE ChainInv'
<1>1. /\ conns[p] = "commit" /\ objects' = work.objects /\ version' = work.version
      /\ lock' = None /\ conns' = [conns EXCEPT ![p] = "meta"]
  BY DEF Commit, Become
<1>2. /\ lock = p /\ lock # None /\ version \in Nat /\ work.version \in Nat
      /\ conns \in [Processes -> Stages]
      /\ \A q \in Processes : q # p => conns[q] \notin {"chain", "commit"}
  BY <1>1, NoneAssumption DEF IInv, TypeOK, LockIsHeld
<1>3. /\ work.version \in version .. Current
      /\ work.objects = Migrated(objects, version, work.version)
      /\ work.version >= Current /\ version <= Current /\ Missing = {}
  BY <1>1, <1>2 DEF ChainInv, WorkMigrates, StagesTell
<1>4. work.version = Current /\ version \in 0 .. Current
  BY <1>2, <1>3, CurrentIsNat
<1>5. work.objects = Complete
  BY <1>3, <1>4, ChainSteps, MissingIsLacking DEF ChainInv
<1>6. objects' = Complete /\ version' = Current /\ Missing' = {}
  <2>1. Missing' = Lacking(objects')
    BY DEF Missing, Lacking
  <2> QED
    BY <1>1, <1>4, <1>5, <2>1, CompleteIsGrown
<1>7. StagesTell'
  BY <1>1, <1>2, <1>6, CurrentIsNat DEF ChainInv, StagesTell
<1>8. WorkMigrates'
  BY <1>1 DEF WorkMigrates
<1> QED
  BY <1>6, <1>7, <1>8, CompleteIsGrown DEF ChainInv

LEMMA StepChainInv == IInv /\ ChainInv /\ [Next]_vars => ChainInv'
<1> SUFFICES ASSUME IInv, ChainInv, [Next]_vars PROVE ChainInv'
  OBVIOUS
<1>1. version \in Nat /\ Current \in Nat
  BY CurrentIsNat DEF IInv, TypeOK
<1>2. ASSUME NEW p \in Processes, Open(p) PROVE ChainInv'
  <2>1. PICK stage \in {"schema", "open", "refused"} :
           /\ Become(p, stage)
           /\ stage # "refused" => version <= Current
           /\ stage = "open" => version = Current
    BY <1>1, <1>2 DEF Open
  <2>2. UNCHANGED <<objects, version, lock, work>>
    BY <1>2 DEF Open, database
  <2> QED
    BY <2>1, <2>2, StageMoves DEF Stages
<1>3. ASSUME NEW p \in Processes, Close(p) PROVE ChainInv'
  BY <1>3, StageMoves DEF Close, database, Stages
<1>4. ASSUME NEW p \in Processes, CreateSchema(p) PROVE ChainInv'
  BY <1>4, SchemaKeepsChain
<1>5. ASSUME NEW p \in Processes, SchemaDone(p) PROVE ChainInv'
  <2>1. version <= Current
    BY <1>5 DEF SchemaDone, ChainInv, StagesTell
  <2> QED
    BY <1>5, <2>1, StageMoves DEF SchemaDone, database, Stages
<1>6. ASSUME NEW p \in Processes, Begin(p) PROVE ChainInv'
  BY <1>6, BeginKeepsChain
<1>7. ASSUME NEW p \in Processes, Apply(p) PROVE ChainInv'
  BY <1>7, ApplyKeepsChain
<1>8. ASSUME NEW p \in Processes, ChainDone(p) PROVE ChainInv'
  <2>1. /\ conns[p] = "chain" /\ conns' = [conns EXCEPT ![p] = "commit"]
        /\ work.version >= Current
        /\ objects' = objects /\ version' = version /\ lock' = lock /\ work' = work
    BY <1>8 DEF ChainDone, Become, database
  <2>2. conns \in [Processes -> Stages] /\ Missing' = Missing
    BY <2>1 DEF IInv, TypeOK, Missing
  <2> QED
    BY <2>1, <2>2 DEF ChainInv, StagesTell, WorkMigrates
<1>9. ASSUME NEW p \in Processes, Commit(p) PROVE ChainInv'
  BY <1>9, CommitKeepsChain
<1>10. ASSUME NEW p \in Processes, WriteMeta(p) PROVE ChainInv'
  <2>1. version = Current /\ version <= Current
    BY <1>1, <1>10 DEF WriteMeta, ChainInv, StagesTell
  <2> QED
    BY <1>10, <2>1, StageMoves DEF WriteMeta, Stages
<1>11. ASSUME NEW p \in Processes, GiveUp(p) PROVE ChainInv'
  <2>1. /\ Become(p, "closed") /\ UNCHANGED <<objects, version>>
        /\ (lock = p /\ lock' = None) \/ UNCHANGED <<lock, work>>
    BY <1>11 DEF GiveUp, database
  <2> QED
    BY <2>1, StageMoves DEF Stages
<1>12. CASE UNCHANGED vars
  BY <1>12 DEF vars, database, ChainInv, StagesTell, WorkMigrates, Missing
<1> QED
  BY <1>2, <1>3, <1>4, <1>5, <1>6, <1>7, <1>8, <1>9, <1>10, <1>11, <1>12 DEF Next

\* Whoever is given a connection finds the whole schema of this release, by
\* whatever release, processes and crashes the database has come there
\* (init_db, run_migrations).
THEOREM OpenedOnComplete == Spec => []OpenedIsComplete
<1>1. ChainInv => OpenedIsComplete
  <2> SUFFICES ASSUME ChainInv, NEW p \in Processes, conns[p] = "open"
               PROVE  version = Current /\ objects = Complete
    BY DEF OpenedIsComplete
  <2>1. version = Current
    BY DEF ChainInv, StagesTell
  <2>2. Grown(objects, Current)
    BY <2>1, CurrentIsNat DEF ChainInv
  <2> QED
    BY <2>1, <2>2, GrownCurrent
<1>2. Init => IInv /\ ChainInv
  BY InitIInv, InitChainInv
<1>3. IInv /\ ChainInv /\ [Next]_vars => (IInv /\ ChainInv)'
  BY StepIInv, StepChainInv
<1> QED
  BY <1>1, <1>2, <1>3, PTL DEF Spec

(***************************************************************************)
(* ProfileFetcher.  The resolver by itself: an admitted item keeps its     *)
(* slot in the queue and with the worker that takes it, whatever its       *)
(* caller does.                                                            *)
(***************************************************************************)
Busy == {w \in Workers : workers[w].at # "get"}

Futures    == {"none", "queued", "running", "answered", "cancelled", "abandoned"}
WorkerRows == [at : {"get", "resolve", "release"}, of : Fetches \cup {Nobody}]

SlotInv ==
    /\ free \in Nat /\ queue \in Seq(Fetches)
    /\ future \in [Fetches -> Futures]
    /\ workers \in [Workers -> WorkerRows]
    /\ free + Len(queue) + Cardinality(Busy) = Slots

LEMMA BusyIsFinite == IsFiniteSet(Busy) /\ Cardinality(Busy) \in Nat
<1>1. IsFiniteSet(Busy)
  BY WorkersAssumption, FS_Subset DEF Busy
<1> QED
  BY <1>1, FS_CardinalityType

\* A caller that stops waiting touches its future only.
LEMMA CallerLeaves ==
    ASSUME SlotInv, NEW f \in Fetches, NEW s \in Futures,
           future' = [future EXCEPT ![f] = s], UNCHANGED <<free, queue, workers>>
    PROVE  SlotInv'
<1>1. Busy' = Busy
  BY DEF Busy
<1>2. future' \in [Fetches -> Futures]
  BY DEF SlotInv
<1> QED
  BY <1>1, <1>2 DEF SlotInv

LEMMA SlotsStay == SlotInv /\ UNCHANGED dnsVars => SlotInv'
  BY DEF SlotInv, Busy, dnsVars

LEMMA SlotStep == SlotInv /\ [FetchNext]_fetchVars => SlotInv'
<1> SUFFICES ASSUME SlotInv, [FetchNext]_fetchVars PROVE SlotInv'
  OBVIOUS
<1>0. /\ free \in Nat /\ queue \in Seq(Fetches) /\ Len(queue) \in Nat
      /\ future \in [Fetches -> Futures] /\ workers \in [Workers -> WorkerRows]
      /\ free + Len(queue) + Cardinality(Busy) = Slots
      /\ Cardinality(Busy) \in Nat /\ Slots \in Nat
  BY BusyIsFinite, SlotsAssumption DEF SlotInv
<1>1. ASSUME NEW f \in Fetches, Admit(f) PROVE SlotInv'
  <2>1. /\ free > 0 /\ free' = free - 1 /\ queue' = Append(queue, f)
        /\ future' = [future EXCEPT ![f] = "queued"] /\ workers' = workers
    BY <1>1 DEF Admit
  <2>2. /\ free' \in Nat /\ queue' \in Seq(Fetches) /\ Len(queue') = Len(queue) + 1
    BY <1>0, <2>1
  <2>3. future' \in [Fetches -> Futures]
    BY <1>0, <2>1 DEF Futures
  <2>4. Busy' = Busy
    BY <2>1 DEF Busy
  <2>5. free' + Len(queue') + Cardinality(Busy) = Slots
    BY <1>0, <2>1, <2>2
  <2> QED
    BY <1>0, <2>1, <2>2, <2>3, <2>4, <2>5 DEF SlotInv
<1>2. ASSUME NEW f \in Fetches, GiveUpAnswer(f) \/ Answered(f) PROVE SlotInv'
  <2>1. /\ UNCHANGED <<free, queue, workers>>
        /\ \E s \in Futures : future' = [future EXCEPT ![f] = s]
    BY <1>2 DEF GiveUpAnswer, Answered, Cancel, Futures
  <2> QED
    BY <2>1, CallerLeaves
<1>3. ASSUME NEW w \in Workers, Take(w) PROVE SlotInv'
  <2>1. /\ workers[w].at = "get" /\ queue # <<>> /\ queue' = Tail(queue) /\ free' = free
        /\ Head(queue) \in Fetches
    BY <1>0, <1>3 DEF Take
  <2>2. PICK row \in WorkerRows : row.at # "get" /\ workers' = [workers EXCEPT ![w] = row]
    BY <1>3, <2>1 DEF Take, WorkerRows
  <2>3. queue' \in Seq(Fetches) /\ Len(queue') = Len(queue) - 1
    BY <1>0, <2>1
  <2>4. future' \in [Fetches -> Futures]
    BY <1>0, <1>3, <2>1 DEF Take, Futures
  <2>5. Busy' = Busy \cup {w} /\ w \notin Busy
    BY <1>0, <2>1, <2>2 DEF Busy
  <2>6. Cardinality(Busy') = Cardinality(Busy) + 1
    BY <2>5, BusyIsFinite, FS_AddElement
  <2>7. free' + Len(queue') + Cardinality(Busy') = Slots
    BY <1>0, <2>1, <2>3, <2>6
  <2> QED
    BY <1>0, <2>1, <2>2, <2>3, <2>4, <2>7 DEF SlotInv
<1>4. ASSUME NEW w \in Workers, Resolve(w) PROVE SlotInv'
  <2>1. /\ workers[w].at = "resolve" /\ UNCHANGED <<free, queue>>
        /\ workers' = [workers EXCEPT ![w] = [at |-> "release", of |-> Nobody]]
    BY <1>4 DEF Resolve
  <2>2. future' \in [Fetches -> Futures]
    BY <1>0, <1>4 DEF Resolve, Futures
  <2>3. workers' \in [Workers -> WorkerRows] /\ Busy' = Busy
    BY <1>0, <2>1 DEF Busy, WorkerRows
  <2> QED
    BY <1>0, <2>1, <2>2, <2>3 DEF SlotInv
<1>5. ASSUME NEW w \in Workers, Release(w) PROVE SlotInv'
  <2>1. /\ workers[w].at = "release" /\ free' = free + 1 /\ UNCHANGED <<queue, future>>
        /\ workers' = [workers EXCEPT ![w] = [at |-> "get", of |-> Nobody]]
    BY <1>5 DEF Release
  <2>2. workers' \in [Workers -> WorkerRows]
    BY <1>0, <2>1 DEF WorkerRows
  <2>3. Busy' = Busy \ {w} /\ w \in Busy
    BY <1>0, <2>1 DEF Busy
  <2>4. Cardinality(Busy') = Cardinality(Busy) - 1
    BY <2>3, BusyIsFinite, FS_RemoveElement
  <2>5. free' + Len(queue') + Cardinality(Busy') = Slots
    BY <1>0, <2>1, <2>4
  <2> QED
    BY <1>0, <2>1, <2>2, <2>5 DEF SlotInv
\* Everything else leaves the resolver alone.
<1>6. ASSUME NEW f \in Fetches, NEW hops \in {0, RedirectLimit},
             StartFetch(f, hops) \/ Pass(f) \/ Timer(f) \/ Peer(f)
      PROVE  SlotInv'
  <2>1. UNCHANGED dnsVars
    BY <1>6
    DEF StartFetch, Pass, Timer, Expire, Abort, Peer, PeerShakesHands, PeerResponds,
        PeerEndsRedirect, PeerEndsBody
  <2> QED
    BY <2>1, SlotsStay
<1>7. ASSUME NEW f \in Fetches, Own(f) PROVE SlotInv'
  <2>1. CASE \/ GiveUpAdmission(f) \/ Enter(f) \/ Connect(f) \/ Register(f) \/ Wrap(f)
             \/ CutShort(f) \/ BodyEnds(f) \/ Check(f) \/ Exit(f)
    <3>1. UNCHANGED dnsVars
      BY <2>1
      DEF GiveUpAdmission, Enter, Connect, Register, Wrap, CutShort, BodyEnds, Check, Exit
    <3> QED
      BY <3>1, SlotsStay
  <2> QED
    BY <1>1, <1>2, <1>7, <2>1 DEF Own
<1>8. CASE UNCHANGED fetchVars
  <2>1. UNCHANGED dnsVars
    BY <1>8 DEF fetchVars, dnsVars
  <2> QED
    BY <2>1, SlotsStay
<1> QED
  BY <1>3, <1>4, <1>5, <1>6, <1>7, <1>8 DEF FetchNext, Worker

(***************************************************************************)
(* One fetch.  Only a timer that fired cuts its socket, and what ends      *)
(* early ends after the deadline, when lifecycle.check lets nothing pass;  *)
(* an open socket that has been registered is held, or is about to be cut. *)
(***************************************************************************)
NotStarted == {"idle", "admit", "answer", "enter", "failed"}

RowOK(row) ==
    /\ row.timer = "none" => row.at \in NotStarted /\ row.conn = "none"
    /\ row.timer = "firing" \/ row.conn = "cut" \/ row.torn => row.late
    /\ row.ok => row.at \in {"exit", "returned"} /\ ~row.torn
    /\ row.at = "returned" => row.ok
    /\ row.at = "enter" => row.timer = "none"
    /\ row.at \in {"returned", "failed"} => row.timer # "firing" /\ row.timer # "armed"
    /\ row.conn = "open" /\ row.at \notin {"register", "reregister"} =>
         row.held \/ (row.taken /\ row.timer = "firing")
    /\ row.at \in {"returned", "failed"} => row.conn # "open"

FetchInv == fetches \in [Fetches -> Fetch] /\ \A f \in Fetches : RowOK(fetches[f])

Ended == {"exit", "returned", "failed"}

LEMMA RowMoves ==
    ASSUME FetchInv, NEW f \in Fetches, NEW row \in Fetch, RowOK(row), Becomes(f, row)
    PROVE  FetchInv'
<1>1. fetches' \in [Fetches -> Fetch]
  BY DEF FetchInv, Becomes
<1>2. \A g \in Fetches : fetches'[g] = row \/ fetches'[g] = fetches[g]
  BY DEF FetchInv, Becomes
<1> QED
  BY <1>1, <1>2 DEF FetchInv

LEMMA RowsStay == FetchInv /\ UNCHANGED fetches => FetchInv'
  BY DEF FetchInv

\* Where the control point alone changes, as it may.
LEMMA Continues ==
    ASSUME FetchInv, NEW f \in Fetches, NEW phase \in Phases \ (Ended \cup {"enter"}),
           fetches[f].at \notin Ended \cup {"register", "reregister"},
           fetches[f].timer = "none" => phase \in NotStarted,
           Continue(f, phase)
    PROVE  FetchInv'
<1> DEFINE row  == fetches[f]
           next == [row EXCEPT !.at = phase]
<1>1. row \in Fetch /\ RowOK(row)
  BY DEF FetchInv
<1>2. next \in Fetch
  BY <1>1, Zenon DEF Fetch
<1>3. RowOK(next)
  BY <1>1 DEF RowOK, Fetch, Ended
<1> QED
  BY <1>2, <1>3, RowMoves DEF Continue

\* What raises ends the fetch, or lets __exit__ end it.
LEMMA RaisedKeeps ==
    ASSUME FetchInv, NEW f \in Fetches, fetches[f].at \notin Ended,
           \/ Fail(f) /\ fetches[f].at \notin {"register", "reregister"}
           \/ CloseAndFail(f)
    PROVE  FetchInv'
<1> DEFINE row == fetches[f]
<1>1. row \in Fetch /\ RowOK(row)
  BY DEF FetchInv
<1>2. Closed(row) \in Fetch
  BY <1>1, Zenon DEF Fetch, Closed
<1>3. ASSUME NEW r \in Fetch,
             \/ r = row /\ row.at \notin {"register", "reregister"}
             \/ r = Closed(row),
             Becomes(f, Raised(r))
      PROVE  FetchInv'
  <2> DEFINE phase == IF r.timer = "none" THEN "failed" ELSE "exit"
             next  == [r EXCEPT !.at = phase]
  <2>1. phase \in Phases
    BY DEF Phases
  <2>2. RowOK(next)
    <3>1. CASE r = row /\ row.at \notin {"register", "reregister"}
      BY <1>1, <1>3, <3>1 DEF RowOK, Fetch, Ended, NotStarted
    <3>2. CASE r = Closed(row)
      <4>1. /\ r.conn = "none" /\ r.timer = row.timer /\ r.late = row.late
            /\ r.torn = row.torn /\ r.ok = row.ok
        BY <1>1, <3>2 DEF Closed, Fetch
      <4> QED
        BY <1>1, <1>3, <4>1 DEF RowOK, Fetch, Ended, NotStarted
    <3> QED
      BY <1>3, <3>1, <3>2
  <2>3. Becomes(f, next)
    BY <1>3 DEF Raised
  <2> HIDE DEF phase
  <2>4. next \in Fetch
    BY <1>3, <2>1, Zenon DEF Fetch
  <2> QED
    BY <2>2, <2>3, <2>4, RowMoves
<1> QED
  BY <1>1, <1>2, <1>3 DEF Fail, CloseAndFail

\* The clock and the timer thread.
LEMMA TimerKeeps ==
    ASSUME FetchInv, NEW f \in Fetches, Pass(f) \/ Timer(f)
    PROVE  FetchInv'
<1> DEFINE row == fetches[f]
<1>1. row \in Fetch /\ RowOK(row)
  BY DEF FetchInv
<1>2. CASE Pass(f)
  <2> DEFINE next == [row EXCEPT !.late = TRUE]
  <2>1. Becomes(f, next)
    BY <1>2 DEF Pass
  <2>2. next \in Fetch
    BY <1>1, Zenon DEF Fetch
  <2>3. RowOK(next)
    BY <1>1 DEF RowOK, Fetch
  <2> QED
    BY <2>1, <2>2, <2>3, RowMoves
<1>3. CASE Expire(f)
  <2> DEFINE next == [row EXCEPT !.timer = "firing", !.held = FALSE, !.taken = row.held]
  <2>1. Becomes(f, next) /\ row.timer = "armed" /\ row.late
    BY <1>3 DEF Expire, Late
  <2>2. next \in Fetch
    BY <1>1, Zenon DEF Fetch
  <2>3. RowOK(next)
    BY <1>1, <2>1 DEF RowOK, Fetch
  <2> QED
    BY <2>1, <2>2, <2>3, RowMoves
<1>4. CASE Abort(f)
  <2> DEFINE conn == IF row.taken /\ row.conn = "open" THEN "cut" ELSE row.conn
             next == [row EXCEPT !.timer = "over", !.taken = FALSE, !.conn = conn]
  <2>1. Becomes(f, next) /\ row.timer = "firing"
    BY <1>4 DEF Abort
  <2>2. RowOK(next)
    BY <1>1, <2>1 DEF RowOK, Fetch
  <2>3. conn \in {"none", "open", "cut"}
    BY <1>1 DEF Fetch
  <2> HIDE DEF conn
  <2>4. next \in Fetch
    BY <1>1, <2>3, Zenon DEF Fetch
  <2> QED
    BY <2>1, <2>2, <2>4, RowMoves
<1> QED
  BY <1>2, <1>3, <1>4 DEF Timer

\* The response of a redirect is closed before the next connection.
LEMMA Drained ==
    ASSUME FetchInv, NEW f \in Fetches, fetches[f].at = "drain",
           Becomes(f, [Closed(fetches[f]) EXCEPT !.at = "connect"])
    PROVE  FetchInv'
<1> DEFINE row  == fetches[f]
           next == [Closed(row) EXCEPT !.at = "connect"]
<1>1. row \in Fetch /\ RowOK(row)
  BY DEF FetchInv
<1>2. Closed(row) \in Fetch
  BY <1>1, Zenon DEF Fetch, Closed
<1>3. next \in Fetch
  BY <1>2, Zenon DEF Fetch, Phases
<1>4. RowOK(next)
  BY <1>1 DEF RowOK, Fetch, Closed, NotStarted
<1> QED
  BY <1>3, <1>4, RowMoves

\* The steps before there is a socket, and those that end a redirect.
LEMMA BeginKeeps ==
    ASSUME FetchInv, NEW f \in Fetches, NEW hops \in {0, RedirectLimit},
           \/ StartFetch(f, hops) \/ Admit(f) \/ GiveUpAdmission(f) \/ GiveUpAnswer(f)
           \/ Answered(f) \/ Enter(f) \/ PeerEndsRedirect(f)
    PROVE  FetchInv'
<1> USE DEF At
<1> DEFINE row == fetches[f]
<1>1. row \in Fetch /\ RowOK(row)
  BY DEF FetchInv
<1>2. CASE StartFetch(f, hops)
  <2> DEFINE next == [row EXCEPT !.at = "admit", !.hops = hops]
  <2>1. row.at = "idle" /\ (Fail(f) \/ Becomes(f, next))
    BY <1>2 DEF StartFetch, Refused
  <2>2. hops \in 0 .. RedirectLimit /\ "admit" \in Phases
    BY LimitAssumption DEF Phases
  <2>3. next \in Fetch
    BY <1>1, <2>2, Zenon DEF Fetch
  <2>4. RowOK(next)
    BY <1>1, <2>1 DEF RowOK, Fetch, NotStarted
  <2>5. CASE Fail(f)
    BY <2>1, <2>5, RaisedKeeps DEF Ended
  <2> QED
    BY <2>1, <2>3, <2>4, <2>5, RowMoves
<1>3. CASE Admit(f)
  BY <1>3, Continues DEF Admit, Phases, Ended, NotStarted
<1>4. CASE GiveUpAdmission(f) \/ GiveUpAnswer(f)
  BY <1>4, RaisedKeeps DEF GiveUpAdmission, GiveUpAnswer, Ended
<1>5. CASE Answered(f)
  <2> DEFINE next == [row EXCEPT !.at = "enter"]
  <2>1. row.at = "answer"
    BY <1>5 DEF Answered
  <2>2. CASE Fail(f)
    BY <2>1, <2>2, RaisedKeeps DEF Ended
  <2>3. CASE row.timer = "none" /\ Becomes(f, next)
    <3>1. next \in Fetch
      BY <1>1, Zenon DEF Fetch, Phases
    <3>2. RowOK(next)
      BY <1>1, <2>1, <2>3 DEF RowOK, Fetch, NotStarted
    <3> QED
      BY <2>3, <3>1, <3>2, RowMoves
  <2>4. CASE row.timer # "none" /\ Continue(f, "drain")
    BY <2>1, <2>4, Continues DEF Phases, Ended, NotStarted
  <2> QED
    BY <1>5, <2>2, <2>3, <2>4 DEF Answered, Blocked, Continue
<1>6. CASE Enter(f)
  <2> DEFINE next == [row EXCEPT !.at = "connect", !.timer = "armed"]
  <2>1. row.at = "enter" /\ (Fail(f) \/ Becomes(f, next))
    BY <1>6 DEF Enter
  <2>2. CASE Fail(f)
    BY <2>1, <2>2, RaisedKeeps DEF Ended
  <2>3. next \in Fetch
    BY <1>1, Zenon DEF Fetch, Phases
  <2>4. RowOK(next)
    BY <1>1, <2>1 DEF RowOK, Fetch, NotStarted
  <2> QED
    BY <2>1, <2>2, <2>3, <2>4, RowMoves
<1>7. CASE PeerEndsRedirect(f)
  <2>1. row.at = "drain" /\ (Fail(f) \/ Becomes(f, [Closed(row) EXCEPT !.at = "connect"]))
    BY <1>7 DEF PeerEndsRedirect
  <2>2. CASE Fail(f)
    BY <2>1, <2>2, RaisedKeeps DEF Ended
  <2> QED
    BY <2>1, <2>2, Drained
<1> QED
  BY <1>2, <1>3, <1>4, <1>5, <1>6, <1>7

\* The steps with a socket, up to the end of the fetch.
LEMMA SocketKeeps ==
    ASSUME FetchInv, NEW f \in Fetches,
           \/ Connect(f) \/ Register(f) \/ Wrap(f) \/ CutShort(f) \/ BodyEnds(f)
           \/ Check(f) \/ Exit(f)
    PROVE  FetchInv'
<1> USE DEF At
<1> DEFINE row == fetches[f]
<1>1. row \in Fetch /\ RowOK(row)
  BY DEF FetchInv
<1>2. CASE Connect(f)
  <2> DEFINE next == [row EXCEPT !.at = "register", !.conn = "open",
                                 !.held = FALSE, !.taken = FALSE]
  <2>1. row.at = "connect" /\ (Fail(f) \/ Becomes(f, next))
    BY <1>2 DEF Connect
  <2>2. CASE Fail(f)
    BY <2>1, <2>2, RaisedKeeps DEF Ended
  <2>3. next \in Fetch
    BY <1>1, Zenon DEF Fetch, Phases
  <2>4. RowOK(next)
    BY <1>1, <2>1 DEF RowOK, Fetch, NotStarted
  <2> QED
    BY <2>1, <2>2, <2>3, <2>4, RowMoves
<1>3. CASE Register(f)
  <2>1. /\ row.at \in {"register", "reregister"}
        /\ \/ CloseAndFail(f)
           \/ \E phase \in {"head", "wrap", "handshake"} :
                 Becomes(f, [row EXCEPT !.at = phase, !.held = TRUE])
    BY <1>3 DEF Register
  <2>2. CASE CloseAndFail(f)
    BY <2>1, <2>2, RaisedKeeps DEF Ended
  <2>3. ASSUME NEW phase \in {"head", "wrap", "handshake"},
               Becomes(f, [row EXCEPT !.at = phase, !.held = TRUE])
        PROVE  FetchInv'
    <3> DEFINE next == [row EXCEPT !.at = phase, !.held = TRUE]
    <3>1. phase \in Phases
      BY DEF Phases
    <3>2. next \in Fetch
      BY <1>1, <3>1, Zenon DEF Fetch
    <3>3. RowOK(next)
      BY <1>1, <2>1 DEF RowOK, Fetch, NotStarted
    <3> QED
      BY <2>3, <3>2, <3>3, RowMoves
  <2> QED
    BY <2>1, <2>2, <2>3
<1>4. CASE Wrap(f)
  <2> DEFINE next == [row EXCEPT !.at = "reregister", !.held = FALSE, !.taken = FALSE]
  <2>1. row.at = "wrap" /\ Becomes(f, next)
    BY <1>4 DEF Wrap
  <2>2. next \in Fetch
    BY <1>1, Zenon DEF Fetch, Phases
  <2>3. RowOK(next)
    BY <1>1, <2>1 DEF RowOK, Fetch, NotStarted
  <2> QED
    BY <2>1, <2>2, <2>3, RowMoves
<1>5. CASE CutShort(f)
  <2> DEFINE next == [row EXCEPT !.at = "body", !.torn = TRUE]
  <2>1. /\ row.conn = "cut" /\ row.at \in {"handshake", "head", "drain"}
        /\ \/ Fail(f) \/ CloseAndFail(f)
           \/ row.at = "head" /\ Becomes(f, next)
           \/ row.at = "drain" /\ Becomes(f, [Closed(row) EXCEPT !.at = "connect"])
    BY <1>5 DEF CutShort, Cut
  <2>2. CASE Fail(f) \/ CloseAndFail(f)
    BY <2>1, <2>2, RaisedKeeps DEF Ended
  <2>3. CASE row.at = "head" /\ Becomes(f, next)
    <3>1. next \in Fetch
      BY <1>1, Zenon DEF Fetch, Phases
    <3>2. RowOK(next)
      BY <1>1, <2>1, <2>3 DEF RowOK, Fetch, NotStarted
    <3> QED
      BY <2>3, <3>1, <3>2, RowMoves
  <2> QED
    BY <2>1, <2>2, <2>3, Drained
<1>6. CASE BodyEnds(f)
  <2> DEFINE next == [row EXCEPT !.at = "check", !.torn = TRUE]
  <2>1. /\ row.at = "body" /\ (row.conn = "cut" \/ row.late)
        /\ CloseAndFail(f) \/ Becomes(f, next)
    BY <1>6 DEF BodyEnds, Cut, Late
  <2>2. CASE CloseAndFail(f)
    BY <2>1, <2>2, RaisedKeeps DEF Ended
  <2>3. next \in Fetch
    BY <1>1, Zenon DEF Fetch, Phases
  <2>4. RowOK(next)
    BY <1>1, <2>1 DEF RowOK, Fetch, NotStarted
  <2> QED
    BY <2>1, <2>2, <2>3, <2>4, RowMoves
<1>7. CASE Check(f)
  <2> DEFINE shut == [Closed(row) EXCEPT !.ok = TRUE]
             next == [shut EXCEPT !.at = "exit"]
  <2>1. row.at = "check" /\ (CloseAndFail(f) \/ (~row.late /\ Becomes(f, Raised(shut))))
    BY <1>7 DEF Check, InTime, Late
  <2>2. CASE CloseAndFail(f)
    BY <2>1, <2>2, RaisedKeeps DEF Ended
  <2>3. shut.timer # "none"
    BY <1>1, <2>1 DEF RowOK, Fetch, Closed, NotStarted
  <2>4. Raised(shut) = next
    BY <2>3 DEF Raised
  <2>5. Closed(row) \in Fetch
    BY <1>1, Zenon DEF Fetch, Closed
  <2>6. shut \in Fetch
    BY <2>5, Zenon DEF Fetch
  <2>7. CASE ~row.late
    <3>1. RowOK(next)
      BY <1>1, <2>1, <2>3, <2>7 DEF RowOK, Fetch, NotStarted, Closed
    <3> HIDE DEF shut
    <3>2. next \in Fetch
      BY <2>6, Zenon DEF Fetch, Phases
    <3> QED
      BY <2>1, <2>2, <2>4, <3>1, <3>2, RowMoves
  <2> QED
    BY <2>1, <2>2, <2>7
<1>8. CASE Exit(f)
  <2> DEFINE phase == IF row.ok THEN "returned" ELSE "failed"
             timer == IF row.timer = "armed" THEN "over" ELSE row.timer
             conn  == IF row.held THEN "none" ELSE row.conn
             next  == [row EXCEPT !.at = phase, !.timer = timer, !.held = FALSE,
                                  !.conn = conn]
  <2>1. row.at = "exit" /\ row.timer # "firing" /\ Becomes(f, next)
    BY <1>8 DEF Exit, Stopped
  <2>2. RowOK(next)
    BY <1>1, <2>1 DEF RowOK, Fetch, NotStarted
  <2>3. /\ phase \in Phases /\ timer \in {"none", "armed", "firing", "over"}
        /\ conn \in {"none", "open", "cut"}
    BY <1>1 DEF Phases, Fetch
  <2> HIDE DEF phase, timer, conn
  <2>4. next \in Fetch
    BY <1>1, <2>3, Zenon DEF Fetch
  <2> QED
    BY <2>1, <2>2, <2>4, RowMoves
<1> QED
  BY <1>2, <1>3, <1>4, <1>5, <1>6, <1>7, <1>8

\* What the peer sends; a redirect starts over.
LEMMA PeerKeeps ==
    ASSUME FetchInv, NEW f \in Fetches,
           PeerShakesHands(f) \/ PeerResponds(f) \/ PeerEndsBody(f)
    PROVE  FetchInv'
<1> USE DEF At
<1> DEFINE row  == fetches[f]
           next == [row EXCEPT !.at = "admit", !.hops = row.hops - 1]
<1>1. row \in Fetch /\ RowOK(row)
  BY DEF FetchInv
<1>2. row.at \in {"handshake", "head", "body"} /\ row.timer # "none"
  BY <1>1 DEF PeerShakesHands, PeerResponds, PeerEndsBody, RowOK, NotStarted
<1>3. CASE Fail(f) \/ CloseAndFail(f)
  BY <1>2, <1>3, RaisedKeeps DEF Ended
<1>4. ASSUME NEW phase \in {"head", "body", "check"}, Continue(f, phase) PROVE FetchInv'
  BY <1>2, <1>4, Continues DEF Phases, Ended
<1>5. CASE row.hops > 0 /\ Becomes(f, next)
  <2>1. row.hops - 1 \in 0 .. RedirectLimit
    BY <1>1, <1>5, LimitAssumption DEF Fetch
  <2>2. next \in Fetch
    BY <1>1, <2>1, Zenon DEF Fetch, Phases
  <2>3. RowOK(next)
    BY <1>1, <1>2 DEF RowOK, Fetch
  <2> QED
    BY <1>5, <2>2, <2>3, RowMoves
<1> QED
  BY <1>3, <1>4, <1>5
  DEF PeerShakesHands, PeerResponds, PeerEndsBody, Redirected, Refused, Malformed

LEMMA FetchInvStep == FetchInv /\ [FetchNext]_fetchVars => FetchInv'
<1> SUFFICES ASSUME FetchInv, [FetchNext]_fetchVars PROVE FetchInv'
  OBVIOUS
<1>1. CASE UNCHANGED fetchVars
  BY <1>1, RowsStay DEF fetchVars
<1>2. ASSUME NEW w \in Workers, Worker(w) PROVE FetchInv'
  BY <1>2, RowsStay DEF Worker, Take, Resolve, Release
<1>3. ASSUME NEW f \in Fetches, NEW hops \in {0, RedirectLimit},
             StartFetch(f, hops) \/ Pass(f) \/ Own(f) \/ Timer(f) \/ Peer(f)
      PROVE  FetchInv'
  BY <1>3, TimerKeeps, BeginKeeps, SocketKeeps, PeerKeeps DEF Own, Peer
<1> QED
  BY <1>1, <1>2, <1>3 DEF FetchNext

LEMMA FetchInvInit == FetchInit => FetchInv /\ SlotInv
<1> SUFFICES ASSUME FetchInit PROVE FetchInv /\ SlotInv
  OBVIOUS
<1>1. 0 \in 0 .. RedirectLimit /\ Slots \in Nat
  BY LimitAssumption, SlotsAssumption
<1>2. NoFetch \in Fetch
  BY <1>1 DEF NoFetch, Fetch, Phases
<1>3. RowOK(NoFetch)
  BY DEF NoFetch, RowOK, NotStarted
<1>4. FetchInv
  BY <1>2, <1>3 DEF FetchInit, FetchInv
<1>5. Busy = {}
  BY DEF FetchInit, Busy
<1>6. Cardinality(Busy) = 0
  BY <1>5, FS_EmptySet
<1>7. free = Slots /\ queue \in Seq(Fetches) /\ Len(queue) = 0
  BY DEF FetchInit
<1>8. future \in [Fetches -> Futures] /\ workers \in [Workers -> WorkerRows]
  BY DEF FetchInit, Futures, WorkerRows
<1>9. free + Len(queue) + Cardinality(Busy) = Slots
  BY <1>1, <1>6, <1>7
<1> QED
  BY <1>1, <1>4, <1>7, <1>8, <1>9 DEF SlotInv

LEMMA FetchInvariant == FetchSpec => [](FetchInv /\ SlotInv)
<1>1. FetchInv /\ SlotInv /\ [FetchNext]_fetchVars => (FetchInv /\ SlotInv)'
  BY FetchInvStep, SlotStep
<1> QED
  BY <1>1, FetchInvInit, PTL DEF FetchSpec

\* The fetches and the resolver are of their kind; what they share is bounded.
THEOREM FetchTypes == FetchSpec => []FetchTypeOK
<1>1. FetchInv /\ SlotInv => FetchTypeOK
  <2> SUFFICES ASSUME FetchInv, SlotInv PROVE FetchTypeOK
    OBVIOUS
  <2>1. Len(queue) \in Nat /\ Cardinality(Busy) \in Nat
    BY BusyIsFinite DEF SlotInv
  <2>2. free \in 0 .. Slots /\ Len(queue) <= Slots
    BY <2>1, SlotsAssumption DEF SlotInv
  <2> QED
    BY <2>2 DEF FetchTypeOK, FetchInv, SlotInv, Futures, WorkerRows
<1> QED
  BY <1>1, FetchInvariant, PTL

\* Every slot of the resolver is free, in its queue or with one worker,
\* whoever gives up on a resolution and when (BoundedResolver._worker gives a
\* slot back, cancel() does not).
THEOREM SlotsStayConserved == FetchSpec => []SlotsAreConserved
<1>1. SlotInv => SlotsAreConserved
  BY DEF SlotInv, SlotsAreConserved, Busy
<1> QED
  BY <1>1, FetchInvariant, PTL

\* A fetch that is over has left neither an open socket nor a timer, wherever
\* its deadline passed (_RequestLifecycle.register refuses a socket after the
\* timer has fired, __exit__ waits for the timer).
THEOREM FetchLeavesNothing == FetchSpec => []NothingLeft
<1>1. FetchInv => NothingLeft
  BY DEF FetchInv, NothingLeft, RowOK, Over, Fetch
<1> QED
  BY <1>1, FetchInvariant, PTL

\* What was cut short is never returned, whether the timer shut its socket or
\* the read itself saw the deadline (the last lifecycle.check).
THEOREM ResultIsWhole == FetchSpec => []NoTruncatedResult
<1>1. FetchInv => NoTruncatedResult
  BY DEF FetchInv, NoTruncatedResult, RowOK, At
<1> QED
  BY <1>1, FetchInvariant, PTL

(***************************************************************************)
(* SearchPages.  First the order: what a page and a cursor are, for any    *)
(* finite set of rows.                                                     *)
(***************************************************************************)
Keys == [rank : Ranks, stamp : 1 .. MaxClock, id : Rows]

RowMap(rs) == rs \in [Rows -> Row]
Lt(rs, q, r) == Precedes(Key(rs, q), Key(rs, r))

LEMMA KeyFacts ==
    ASSUME NEW rs, RowMap(rs), NEW r \in Rows
    PROVE  Key(rs, r) \in Keys /\ Key(rs, r).id = r
<1>1. rs[r].rank \in Ranks /\ rs[r].stamp \in 1 .. MaxClock
  BY DEF RowMap, Row
<1>2. PICK k \in Ranks : k = IF surface \in {"listings", "agents"} THEN rs[r].rank ELSE 0
  BY <1>1 DEF Ranks
<1>3. Key(rs, r) = [rank |-> k, stamp |-> rs[r].stamp, id |-> r]
  BY <1>2 DEF Key
<1> QED
  BY <1>1, <1>3 DEF Keys

LEMMA KeyNumbers ==
    ASSUME NEW k \in Keys
    PROVE  k.rank \in Nat /\ k.stamp \in Nat /\ k.id \in Nat
<1>1. Rows \subseteq Nat /\ 1 .. MaxClock \subseteq Nat /\ Ranks \subseteq Nat
  BY SearchAssumption DEF Ranks
<1>2. k.rank \in Ranks /\ k.stamp \in 1 .. MaxClock /\ k.id \in Rows
  BY DEF Keys
<1> QED
  BY <1>1, <1>2, Zenon

\* rank, then time, then id is a strict order of the keys ...
LEMMA KeyOrder ==
    ASSUME NEW j \in Keys, NEW k \in Keys, NEW l \in Keys
    PROVE  /\ ~Precedes(k, k)
           /\ Precedes(j, k) /\ Precedes(k, l) => Precedes(j, l)
           /\ j.id # k.id => Precedes(j, k) \/ Precedes(k, j)
  BY KeyNumbers DEF Precedes

\* ... and so of the rows.
LEMMA RowOrder ==
    ASSUME NEW rs, RowMap(rs), NEW q \in Rows, NEW r \in Rows, NEW x \in Rows
    PROVE  /\ ~Lt(rs, r, r)
           /\ Lt(rs, q, r) /\ Lt(rs, r, x) => Lt(rs, q, x)
           /\ q # r => Lt(rs, q, r) \/ Lt(rs, r, q)
<1>1. /\ Key(rs, q) \in Keys /\ Key(rs, r) \in Keys /\ Key(rs, x) \in Keys
      /\ Key(rs, q).id = q /\ Key(rs, r).id = r
  BY KeyFacts
<1> QED
  BY <1>1, KeyOrder DEF Lt

\* Finite sets have least elements.
LEMMA LeastElement ==
    ASSUME NEW S, IsFiniteSet(S), S # {}, NEW R,
           \A x \in S : <<x, x>> \notin R,
           \A x, y, z \in S : <<x, y>> \in R /\ <<y, z>> \in R => <<x, z>> \in R
    PROVE  \E m \in S : \A y \in S : <<y, m>> \notin R
<1> DEFINE Below(x) == {y \in S : <<y, x>> \in R}
           T == {Below(x) : x \in S}
<1>1. T \subseteq FiniteSubsetsOf(S) /\ T # {}
  <2>1. \A x \in S : Below(x) \in SUBSET S
    OBVIOUS
  <2>2. \A x \in S : IsFiniteSet(Below(x))
    <3> HIDE DEF Below
    <3> QED
      BY <2>1, FS_Subset
  <2> HIDE DEF Below
  <2> QED
    BY <2>1, <2>2 DEF FiniteSubsetsOf
<1>2. PICK B \in T : \A C \in T : <<C, B>> \notin StrictSubsetOrdering(S)
  <2> HIDE DEF T
  <2> QED
    BY <1>1, FS_StrictSubsetOrderingWellFounded, WFMin
<1>3. PICK m \in S : B = Below(m)
  BY <1>2
<1>4. ASSUME NEW y \in S, <<y, m>> \in R PROVE FALSE
  <2>1. Below(y) \subseteq Below(m) /\ y \in Below(m) /\ y \notin Below(y)
    BY <1>3, <1>4
  <2>2. Below(y) \in T /\ Below(y) \in SUBSET S /\ Below(m) \in SUBSET S
    BY <1>4
  <2>3. <<Below(y), Below(m)>> \in StrictSubsetOrdering(S)
    <3> HIDE DEF Below
    <3> QED
      BY <2>1, <2>2 DEF StrictSubsetOrdering
  <2> QED
    BY <1>2, <1>3, <2>2, <2>3
<1> QED
  BY <1>3, <1>4

LEMMA RowSets ==
    ASSUME NEW S, S \subseteq Rows
    PROVE  IsFiniteSet(S) /\ Cardinality(S) \in Nat
  BY SearchAssumption, FS_Subset, FS_CardinalityType

\* A page is an initial piece of what it is taken from, and not an empty one.
LEMMA Firsts ==
    ASSUME NEW rs, RowMap(rs), NEW S, S \subseteq Rows, NEW n \in Nat \ {0}
    PROVE  /\ First(rs, n, S) \subseteq S
           /\ \A r \in First(rs, n, S), q \in S : Lt(rs, q, r) => q \in First(rs, n, S)
           /\ S # {} => First(rs, n, S) # {}
           /\ Cardinality(S) <= n => First(rs, n, S) = S
<1> DEFINE Before(r) == {q \in S : Lt(rs, q, r)}
<1>1. First(rs, n, S) = {r \in S : Cardinality(Before(r)) < n}
  BY DEF First, Lt
<1>2. \A r \in S : IsFiniteSet(Before(r)) /\ Cardinality(Before(r)) \in Nat
  BY RowSets
<1>3. ASSUME NEW r \in S, NEW q \in S, Lt(rs, q, r), Cardinality(Before(r)) < n
      PROVE  Cardinality(Before(q)) < n
  <2>1. Before(q) \subseteq Before(r)
    BY <1>3, RowOrder
  <2>2. Cardinality(Before(q)) <= Cardinality(Before(r))
    BY <1>2, <2>1, FS_Subset
  <2>3. Cardinality(Before(q)) \in Nat /\ Cardinality(Before(r)) \in Nat
    BY <1>2
  <2> HIDE DEF Before
  <2> QED
    BY <1>3, <2>2, <2>3
<1>4. ASSUME S # {} PROVE \E m \in S : Cardinality(Before(m)) < n
  <2> DEFINE R == {p \in S \X S : Lt(rs, p[1], p[2])}
  <2>1. /\ \A x \in S : <<x, x>> \notin R
        /\ \A x, y, z \in S : <<x, y>> \in R /\ <<y, z>> \in R => <<x, z>> \in R
        /\ \A x, y \in S : <<x, y>> \in R <=> Lt(rs, x, y)
    BY RowOrder
  <2>2. PICK m \in S : \A y \in S : <<y, m>> \notin R
    <3> HIDE DEF R
    <3> QED
      BY <1>4, <2>1, RowSets, LeastElement
  <2>3. Before(m) = {}
    BY <2>1, <2>2
  <2>4. Cardinality(Before(m)) = 0
    BY <2>3, FS_EmptySet
  <2> HIDE DEF Before
  <2> QED
    BY <2>4
<1>5. ASSUME Cardinality(S) <= n, NEW r \in S PROVE Cardinality(Before(r)) < n
  <2>1. Before(r) \subseteq S /\ Before(r) # S
    BY RowOrder
  <2>2. /\ Cardinality(Before(r)) < Cardinality(S)
        /\ Cardinality(Before(r)) \in Nat /\ Cardinality(S) \in Nat
    BY <1>2, <2>1, RowSets, FS_Subset
  <2> HIDE DEF Before
  <2> QED
    BY <1>5, <2>2
<1> HIDE DEF Before
<1> QED
  BY <1>1, <1>3, <1>4, <1>5

\* The cursor is the key of the last row.
LEMMA Lasts ==
    ASSUME NEW rs, RowMap(rs), NEW S, S \subseteq Rows, S # {}
    PROVE  \E m \in S : /\ LastKey(rs, S) = Key(rs, m)
                        /\ \A q \in S \ {m} : Lt(rs, q, m)
<1> DEFINE R == {p \in S \X S : Lt(rs, p[2], p[1])}
           IsLast(m) == \A q \in S \ {m} : Lt(rs, q, m)
<1>1. /\ \A x \in S : <<x, x>> \notin R
      /\ \A x, y, z \in S : <<x, y>> \in R /\ <<y, z>> \in R => <<x, z>> \in R
      /\ \A x, y \in S : <<x, y>> \in R <=> Lt(rs, y, x)
  BY RowOrder
<1>2. PICK m \in S : \A y \in S : <<y, m>> \notin R
  <2> HIDE DEF R
  <2> QED
    BY <1>1, RowSets, LeastElement
<1>3. IsLast(m)
  BY <1>1, <1>2, RowOrder
<1>4. LastKey(rs, S) = Key(rs, CHOOSE r \in S : IsLast(r))
  BY DEF LastKey, Lt
<1> HIDE DEF IsLast
<1>5. (CHOOSE r \in S : IsLast(r)) \in S /\ IsLast(CHOOSE r \in S : IsLast(r))
  BY <1>3
<1> QED
  BY <1>4, <1>5 DEF IsLast

(***************************************************************************)
(* A page, and what it leaves to be asked for.                             *)
(***************************************************************************)
Walks == [at : {"new", "done"}] \cup [at : {"open"}, cursor : Keys]

\* Behind the cursor the client holds after a page of rs.
StillBehind(rs, r) == walk'.at = "open" /\ Precedes(walk'.cursor, Key(rs, r))

\* A page takes what is safe and was behind the old cursor, but for what is
\* behind the new one.
Splits(rs, page) ==
    \A r \in Rows : Shown(rs, r) /\ Safe(rs, r) =>
       /\ Behind(rs, r) => (r \in page <=> ~StillBehind(rs, r))
       /\ ~Behind(rs, r) => r \notin page /\ ~StillBehind(rs, r)

\* The rows scanned are an initial piece of those found.
LEMMA ScannedRows ==
    ASSUME NEW rs, RowMap(rs), NEW found, found \subseteq Rows
    PROVE  /\ Scanned(rs, found) \subseteq found
           /\ \A r \in Scanned(rs, found), q \in found :
                 Lt(rs, q, r) => q \in Scanned(rs, found)
           /\ surface = "listings" /\ Cardinality(found) >= Budget
                 => Scanned(rs, found) # {}
           /\ ~(surface = "listings" /\ Cardinality(found) >= Budget)
                 => Scanned(rs, found) = found
<1>1. Budget \in Nat \ {0}
  BY SearchAssumption
<1>2. Cardinality(found) \in Nat /\ (Cardinality(found) > 0 => found # {})
  BY RowSets, FS_EmptySet
<1>3. CASE surface # "listings"
  BY <1>3 DEF Scanned
<1>4. CASE surface = "listings"
  <2> DEFINE first == First(rs, Budget, found)
  <2>1. Scanned(rs, found) = first
    BY <1>4 DEF Scanned
  <2>2. /\ first \subseteq found
        /\ \A r \in first, q \in found : Lt(rs, q, r) => q \in first
        /\ found # {} => first # {}
        /\ Cardinality(found) <= Budget => first = found
    BY <1>1, Firsts
  <2> HIDE DEF first
  <2>3. Cardinality(found) >= Budget => first # {}
    BY <1>1, <1>2, <2>2
  <2>4. ~(Cardinality(found) >= Budget) => first = found
    BY <1>1, <1>2, <2>2
  <2> QED
    BY <1>4, <2>1, <2>2, <2>3, <2>4
<1> QED
  BY <1>3, <1>4

\* A cursor on a row m that was found, everything safe up to m being in the
\* page.
LEMMA OpenSplits ==
    ASSUME NEW rs, RowMap(rs), walk \in Walks, NEW m \in Found(rs),
           walk' = [at |-> "open", cursor |-> Key(rs, m)],
           NEW page, page \subseteq Found(rs),
           \A r \in Found(rs) : Safe(rs, r) => (r \in page <=> ~Lt(rs, m, r))
    PROVE  Splits(rs, page) /\ walk' \in Walks
<1>1. m \in Rows /\ Key(rs, m) \in Keys
  BY KeyFacts DEF Found
<1>2. \A r \in Rows : StillBehind(rs, r) <=> Lt(rs, m, r)
  BY DEF StillBehind, Lt
<1>3. ASSUME NEW r \in Rows, ~Behind(rs, r), Lt(rs, m, r) PROVE FALSE
  <2>1. walk.at = "open" /\ Precedes(walk.cursor, Key(rs, m))
    BY <1>3 DEF Found, Behind
  <2>2. walk.cursor \in Keys /\ Key(rs, r) \in Keys
    BY <2>1, KeyFacts DEF Walks
  <2>3. Precedes(walk.cursor, Key(rs, r))
    BY <1>1, <1>3, <2>1, <2>2, KeyOrder DEF Lt
  <2> QED
    BY <1>3, <2>1, <2>3 DEF Behind
<1>4. \A r \in Rows : Shown(rs, r) => (r \in Found(rs) <=> Behind(rs, r))
  BY DEF Found
<1>5. walk' \in Walks
  BY <1>1 DEF Walks
<1> QED
  BY <1>2, <1>3, <1>4, <1>5 DEF Splits

LEMMA PageStep ==
    ASSUME NEW rs, RowMap(rs), walk \in Walks, Give(rs)
    PROVE  /\ walk' \in Walks /\ walk'.at # "new"
           /\ \E page \in SUBSET Rows :
                 /\ Splits(rs, page)
                 /\ given' = [r \in Rows |-> IF r \in page THEN Counted(given[r])
                                             ELSE given[r]]
<1> DEFINE found   == Found(rs)
           scanned == Scanned(rs, found)
           visible == {r \in scanned : Safe(rs, r)}
           page    == First(rs, PageSize, visible)
<1>1. /\ walk' = NextCursor(rs, found, scanned, visible, page)
      /\ given' = [r \in Rows |-> IF r \in page THEN Counted(given[r]) ELSE given[r]]
  BY DEF Give
<1>2. found \subseteq Rows
  BY DEF Found
<1>3. /\ scanned \subseteq found
      /\ \A r \in scanned, q \in found : Lt(rs, q, r) => q \in scanned
      /\ surface = "listings" /\ Cardinality(found) >= Budget => scanned # {}
      /\ ~(surface = "listings" /\ Cardinality(found) >= Budget) => scanned = found
  BY <1>2, ScannedRows
<1> HIDE DEF scanned
<1>4. PageSize \in Nat \ {0} /\ Cardinality(visible) \in Nat
  <2> HIDE DEF found
  <2> QED
    BY <1>2, <1>3, RowSets, SearchAssumption
<1>5. /\ page \subseteq visible
      /\ \A r \in page, q \in visible : Lt(rs, q, r) => q \in page
      /\ visible # {} => page # {}
      /\ Cardinality(visible) <= PageSize => page = visible
  <2>1. visible \subseteq Rows
    BY <1>2, <1>3
  <2> HIDE DEF visible
  <2> QED
    BY <1>4, <2>1, Firsts
<1> HIDE DEF page
<1>6. ASSUME NEW S, S \subseteq scanned, S # {},
             \A r \in S, q \in scanned : Safe(rs, q) /\ Lt(rs, q, r) => q \in S,
             \A r \in scanned : Safe(rs, r) => (r \in page <=> r \in S),
             walk' = [at |-> "open", cursor |-> LastKey(rs, S)]
      PROVE  Splits(rs, page) /\ walk' \in Walks
  <2>1. S \subseteq Rows /\ page \subseteq found
    BY <1>2, <1>3, <1>5, <1>6
  <2>2. PICK m \in S : LastKey(rs, S) = Key(rs, m) /\ \A q \in S \ {m} : Lt(rs, q, m)
    BY <1>6, <2>1, Lasts
  <2>3. ASSUME NEW r \in found, Safe(rs, r) PROVE r \in page <=> ~Lt(rs, m, r)
    <3>1. m \in Rows /\ m \in scanned /\ r \in Rows
      BY <1>2, <1>6, <2>1, <2>2, <2>3
    <3>2. /\ ~Lt(rs, r, r) /\ (Lt(rs, m, r) /\ Lt(rs, r, m) => Lt(rs, m, m))
          /\ ~Lt(rs, m, m)
          /\ m # r => Lt(rs, m, r) \/ Lt(rs, r, m)
      BY <3>1, RowOrder
    <3>3. CASE r \in page
      <4>1. r \in S
        BY <1>5, <1>6, <2>3, <3>3
      <4> QED
        BY <2>2, <3>2, <3>3, <4>1
    <3>4. CASE ~Lt(rs, m, r)
      <4>1. m = r \/ Lt(rs, r, m)
        BY <3>2, <3>4
      <4>2. r \in scanned
        BY <1>3, <2>3, <3>1, <4>1
      <4>3. r \in S
        BY <1>6, <2>2, <2>3, <4>1, <4>2
      <4> QED
        BY <1>6, <2>3, <3>4, <4>2, <4>3
    <3> QED
      BY <3>3, <3>4
  <2>4. m \in Found(rs) /\ page \subseteq Found(rs)
    BY <1>3, <1>6, <2>1, <2>2
  <2> HIDE DEF found
  <2>5. \A r \in Found(rs) : Safe(rs, r) => (r \in page <=> ~Lt(rs, m, r))
    BY <2>3 DEF found
  <2> QED
    BY <1>6, <2>2, <2>4, <2>5, OpenSplits
<1>7. CASE Cardinality(visible) > PageSize
  <2>1. walk' = [at |-> "open", cursor |-> LastKey(rs, page)]
    BY <1>1, <1>7 DEF NextCursor
  <2>2. visible # {}
    BY <1>4, <1>7, FS_EmptySet
  <2>3. page \subseteq scanned /\ page # {}
    BY <1>5, <2>2
  <2>4. \A r \in page, q \in scanned : Safe(rs, q) /\ Lt(rs, q, r) => q \in page
    BY <1>5
  <2>5. Splits(rs, page) /\ walk' \in Walks
    BY <1>6, <2>1, <2>3, <2>4
  <2> QED
    BY <1>1, <1>2, <1>3, <1>5, <2>1, <2>5
<1>8. CASE Cardinality(visible) <= PageSize /\ surface = "listings" /\ Cardinality(found) >= Budget
  <2>1. walk' = [at |-> "open", cursor |-> LastKey(rs, scanned)]
    BY <1>1, <1>4, <1>8 DEF NextCursor
  <2>2. page = visible /\ scanned # {}
    BY <1>3, <1>5, <1>8
  <2>3. \A r \in scanned : Safe(rs, r) => (r \in page <=> r \in scanned)
    BY <2>2
  <2>4. Splits(rs, page) /\ walk' \in Walks
    BY <1>6, <2>1, <2>2, <2>3
  <2> QED
    BY <1>1, <1>2, <1>3, <1>5, <2>1, <2>4
<1>9. CASE Cardinality(visible) <= PageSize /\ ~(surface = "listings" /\ Cardinality(found) >= Budget)
  <2>1. walk' = [at |-> "done"]
    BY <1>1, <1>4, <1>9 DEF NextCursor
  <2>2. page = {r \in found : Safe(rs, r)}
    BY <1>3, <1>5, <1>9
  <2>3. Splits(rs, page)
    BY <2>1, <2>2 DEF Splits, StillBehind, Found
  <2>4. walk' \in Walks
    BY <2>1 DEF Walks
  <2> QED
    BY <1>1, <1>2, <1>3, <1>5, <2>1, <2>3, <2>4
<1> QED
  BY <1>4, <1>7, <1>8, <1>9

(***************************************************************************)
(* The inductive invariant of a walk.  A row the client must get has been  *)
(* given or lies behind its cursor; an owner's list loses that when a row  *)
(* is marked as stale.  Of a row that nobody has marked exactly one of the *)
(* two is true, on every surface, which is what makes it come once.        *)
(***************************************************************************)
Served(r) ==
    /\ surface # "owner" => given[r] > 0 \/ Behind(rows, r)
    /\ r \in still => given[r] = IF Behind(rows, r) THEN 0 ELSE 1

WalkInv ==
    /\ WalkTypeOK
    /\ walk.at = "new" => steady = {} /\ \A r \in Rows : given[r] = 0
    /\ \A r \in steady : Shown(rows, r) /\ Safe(rows, r)
    /\ \A r \in steady : Served(r)

LEMMA WalkKinds ==
    WalkTypeOK <=> /\ surface \in Surfaces /\ clock \in 1 .. MaxClock
                   /\ RowMap(rows) /\ walk \in Walks /\ given \in [Rows -> 0 .. 2]
                   /\ still \subseteq steady /\ steady \subseteq Rows
  BY Zenon DEF WalkTypeOK, RowMap, Walks, Keys

\* Marking rows as stale moves them, if they stand among the listings, back
\* and never forward, and leaves the others where they were.
LEMMA AgedRows ==
    ASSUME WalkTypeOK, NEW late \in SUBSET Fresh, NEW rs, rs = Expired(late)
    PROVE  /\ RowMap(rs)
           /\ \A r \in Rows : /\ Shown(rs, r) <=> Shown(rows, r)
                              /\ Safe(rs, r) <=> Safe(rows, r)
                              /\ r \notin late => (Behind(rs, r) <=> Behind(rows, r))
                              /\ surface # "owner" /\ Behind(rows, r) => Behind(rs, r)
<1>1. RowMap(rows) /\ walk \in Walks /\ clock \in 1 .. MaxClock
  BY WalkKinds
<1>2. ASSUME NEW r \in Rows
      PROVE  rs[r] = IF r \in late THEN [rows[r] EXCEPT !.rank = 1, !.stamp = clock]
                     ELSE rows[r]
  BY DEF Expired
<1>3. ASSUME NEW r \in Rows
      PROVE  rs[r] \in Row /\ rs[r].public = rows[r].public /\ rs[r].clean = rows[r].clean
  <2>1. rows[r] \in Row
    BY <1>1 DEF RowMap
  <2>2. 1 \in Ranks
    BY DEF Ranks
  <2> QED
    BY <1>1, <1>2, <2>1, <2>2 DEF Row
<1>4. RowMap(rs)
  <2>1. rs = [r \in Rows |-> rs[r]]
    BY DEF Expired
  <2> QED
    BY <1>3, <2>1 DEF RowMap
<1>5. ASSUME NEW r \in Rows, r \notin late PROVE Behind(rs, r) <=> Behind(rows, r)
  BY <1>2, <1>5 DEF Behind, Key
<1>6. ASSUME NEW r \in Rows, surface # "owner", Behind(rows, r), r \in late
      PROVE  Behind(rs, r)
  <2>1. surface = "listings" /\ rows[r].rank = 0 /\ rs[r].rank = 1
    <3>1. rows[r] \in Row
      BY <1>1 DEF RowMap
    <3> QED
      BY <1>2, <1>6, <3>1 DEF Fresh, Ages, Row
  <2>2. Precedes(Key(rows, r), Key(rs, r))
    BY <2>1 DEF Precedes, Key
  <2>3. Key(rows, r) \in Keys /\ Key(rs, r) \in Keys
    BY <1>1, <1>4, KeyFacts
  <2>4. CASE walk.at = "open"
    <3>1. walk.cursor \in Keys /\ Precedes(walk.cursor, Key(rows, r))
      BY <1>1, <1>6, <2>4 DEF Walks, Behind
    <3> QED
      BY <2>2, <2>3, <2>4, <3>1, KeyOrder DEF Behind
  <2> QED
    BY <1>6, <2>4 DEF Behind
<1> QED
  BY <1>3, <1>4, <1>5, <1>6 DEF Shown, Safe

\* A plain page is one that marks nothing.
LEMMA PageForm ==
    ASSUME WalkTypeOK, GetPage
    PROVE  \E late \in SUBSET Fresh :
              /\ walk.at # "done" /\ rows' = Expired(late)
              /\ Give(rows') /\ Watch(rows', late, walk.at = "new")
<1>1. ASSUME NEW late \in SUBSET Fresh, AgedPage(late)
      PROVE  /\ walk.at # "done" /\ rows' = Expired(late)
             /\ Give(rows') /\ Watch(rows', late, walk.at = "new")
  BY <1>1 DEF AgedPage
<1>2. rows = Expired({})
  BY DEF Expired, WalkTypeOK
<1>3. ASSUME PlainPage
      PROVE  /\ walk.at # "done" /\ rows' = Expired({})
             /\ Give(rows') /\ Watch(rows', {}, walk.at = "new")
  BY <1>2, <1>3 DEF PlainPage
<1>4. {} \in SUBSET Fresh
  OBVIOUS
<1> QED
  BY <1>1, <1>3, <1>4, Zenon
  DEF GetPage, SearchListings, ListOwn, SearchPublications, SearchAgents

LEMMA PageKeeps == ASSUME WalkInv, GetPage PROVE WalkInv'
<1>1. PICK late \in SUBSET Fresh :
             /\ walk.at # "done" /\ rows' = Expired(late)
             /\ Give(rows') /\ Watch(rows', late, walk.at = "new")
  BY PageForm DEF WalkInv
<1> DEFINE begun == {r \in Rows : Shown(rows', r) /\ Safe(rows', r)}
<1>2. /\ surface' = surface /\ clock' = clock
      /\ walk.at = "new" => steady' = begun /\ still' = begun
      /\ walk.at # "new" => steady' = steady /\ still' = still \ late
  BY <1>1 DEF Watch
<1>3. /\ RowMap(rows)' /\ walk \in Walks /\ given \in [Rows -> 0 .. 2]
      /\ still \subseteq steady /\ steady \subseteq Rows
      /\ surface \in Surfaces /\ clock \in 1 .. MaxClock
  BY <1>1, AgedRows, WalkKinds DEF WalkInv, RowMap
<1>4. /\ walk' \in Walks /\ walk'.at # "new"
      /\ \E page \in SUBSET Rows :
            /\ Splits(rows', page)
            /\ given' = [r \in Rows |-> IF r \in page THEN Counted(given[r]) ELSE given[r]]
  BY <1>1, <1>3, PageStep DEF RowMap
<1>5. PICK page \in SUBSET Rows :
         /\ Splits(rows', page)
         /\ given' = [r \in Rows |-> IF r \in page THEN Counted(given[r]) ELSE given[r]]
  BY <1>4
<1>6. \A r \in Rows : /\ Shown(rows, r)' <=> Shown(rows', r)
                      /\ Safe(rows, r)' <=> Safe(rows', r)
                      /\ Behind(rows, r)' <=> StillBehind(rows', r)
  BY <1>2, <1>4 DEF Shown, Safe, Behind, StillBehind, Key
<1>7. \A r \in Rows : /\ given[r] \in 0 .. 2
                      /\ given'[r] \in 0 .. 2
                      /\ r \in page => given'[r] > 0 /\ (given[r] = 0 => given'[r] = 1)
                      /\ r \notin page => given'[r] = given[r]
  BY <1>3, <1>5 DEF Counted
<1>8. steady' \subseteq Rows /\ still' \subseteq steady'
  BY <1>2, <1>3
<1>9. WalkTypeOK'
  <2>1. given' \in [Rows -> 0 .. 2]
    BY <1>5, <1>7
  <2>2. /\ surface' \in Surfaces /\ clock' \in 1 .. MaxClock
    BY <1>2, <1>3
  <2> QED
    BY <1>3, <1>4, <1>8, <2>1, <2>2 DEF WalkTypeOK, RowMap, Walks, Keys
<1>10. ASSUME NEW r \in steady'
       PROVE  Shown(rows', r) /\ Safe(rows', r)
  <2>1. CASE walk.at = "new"
    BY <1>2, <1>10, <2>1
  <2>2. CASE walk.at # "new"
    BY <1>1, <1>2, <1>3, <1>10, <2>2, AgedRows DEF WalkInv
  <2> QED
    BY <2>1, <2>2
<1>11. ASSUME NEW r \in steady' PROVE Served(r)'
  <2>1. r \in Rows /\ Shown(rows', r) /\ Safe(rows', r)
    BY <1>8, <1>10, <1>11
  <2>2. /\ Behind(rows', r) => (r \in page <=> ~StillBehind(rows', r))
        /\ ~Behind(rows', r) => r \notin page /\ ~StillBehind(rows', r)
    BY <1>5, <2>1 DEF Splits
  <2>3. CASE walk.at = "new"
    <3>1. given[r] = 0 /\ Behind(rows', r)
      BY <2>1, <2>3 DEF WalkInv, Behind
    <3> QED
      BY <1>6, <1>7, <2>1, <2>2, <3>1 DEF Served
  <2>4. CASE walk.at # "new"
    <3>1. r \in steady /\ (r \in still' => r \in still /\ r \notin late)
      BY <1>2, <1>11, <2>4
    <3>2. /\ surface # "owner" => given[r] > 0 \/ Behind(rows, r)
          /\ r \in still => given[r] = IF Behind(rows, r) THEN 0 ELSE 1
      BY <1>11, <3>1 DEF WalkInv, Served
    <3>3. /\ surface # "owner" /\ Behind(rows, r) => Behind(rows', r)
          /\ r \notin late => (Behind(rows', r) <=> Behind(rows, r))
      BY <1>1, <1>11, <2>1, AgedRows DEF WalkInv
    <3> QED
      BY <1>2, <1>6, <1>7, <2>1, <2>2, <3>1, <3>2, <3>3 DEF Served
  <2> QED
    BY <2>3, <2>4
<1>12. \A r \in steady' : Shown(rows, r)' /\ Safe(rows, r)'
  BY <1>6, <1>8, <1>10
<1> QED
  BY <1>2, <1>4, <1>9, <1>11, <1>12 DEF WalkInv

LEMMA ReadKeeps ==
    ASSUME WalkInv, NEW late \in SUBSET Fresh, ReadElsewhere(late)
    PROVE  WalkInv'
<1>1. /\ rows' = Expired(late) /\ walk' = walk /\ given' = given
      /\ surface' = surface /\ clock' = clock
      /\ steady' = steady /\ still' = still \ late
  BY DEF ReadElsewhere, Watch
<1>2. /\ RowMap(rows')
      /\ \A r \in Rows : /\ Shown(rows', r) <=> Shown(rows, r)
                         /\ Safe(rows', r) <=> Safe(rows, r)
                         /\ r \notin late => (Behind(rows', r) <=> Behind(rows, r))
                         /\ surface # "owner" /\ Behind(rows, r) => Behind(rows', r)
  BY <1>1, AgedRows DEF WalkInv
<1>3. \A r \in Rows : /\ Shown(rows, r)' <=> Shown(rows', r)
                      /\ Safe(rows, r)' <=> Safe(rows', r)
                      /\ Behind(rows, r)' <=> Behind(rows', r)
  BY <1>1 DEF Shown, Safe, Behind, Key
<1>4. WalkTypeOK'
  BY <1>1, <1>2 DEF WalkInv, WalkTypeOK, RowMap
<1>5. steady \subseteq Rows
  BY DEF WalkInv, WalkTypeOK
<1>6. ASSUME NEW r \in steady PROVE Served(r)'
  <2>1. /\ surface # "owner" => given[r] > 0 \/ Behind(rows, r)
        /\ r \in still => given[r] = IF Behind(rows, r) THEN 0 ELSE 1
    BY <1>6 DEF WalkInv, Served
  <2> QED
    BY <1>1, <1>2, <1>3, <1>5, <1>6, <2>1 DEF Served
<1> QED
  BY <1>1, <1>2, <1>3, <1>4, <1>5, <1>6 DEF WalkInv

\* A row somebody writes is no longer owed to the client.
LEMMA WriteKeeps ==
    ASSUME WalkInv, NEW x \in Rows, NEW row \in Row, Write(x, row)
    PROVE  WalkInv'
<1>1. /\ rows' = [rows EXCEPT ![x] = row] /\ walk' = walk /\ given' = given
      /\ surface' = surface /\ clock' = clock
      /\ steady' = steady \ {x} /\ still' = still \ {x}
  BY DEF Write
<1>2. WalkTypeOK'
  <2>1. rows' \in [Rows -> Row]
    BY <1>1 DEF WalkInv, WalkTypeOK
  <2> QED
    BY <1>1, <2>1 DEF WalkInv, WalkTypeOK
<1>3. \A r \in steady \ {x} : r \in Rows /\ rows'[r] = rows[r]
  BY <1>1 DEF WalkInv, WalkTypeOK
<1>4. \A r \in steady \ {x} : /\ Shown(rows, r)' <=> Shown(rows, r)
                              /\ Safe(rows, r)' <=> Safe(rows, r)
                              /\ Behind(rows, r)' <=> Behind(rows, r)
  BY <1>1, <1>3 DEF Shown, Safe, Behind, Key
<1>5. ASSUME NEW r \in steady \ {x} PROVE Served(r)'
  <2>1. Served(r)
    BY <1>5 DEF WalkInv
  <2> QED
    BY <1>1, <1>4, <1>5, <2>1 DEF Served
<1> QED
  BY <1>1, <1>2, <1>4, <1>5 DEF WalkInv

LEMMA WalkInvStep == WalkInv /\ [WalkNext]_walkVars => WalkInv'
<1> SUFFICES ASSUME WalkInv, [WalkNext]_walkVars PROVE WalkInv'
  OBVIOUS
<1>1. clock \in 1 .. MaxClock /\ \A r \in Rows : rows[r] \in Row
  BY DEF WalkInv, WalkTypeOK
<1>2. ASSUME NEW r \in Rows, NEW rank \in Ranks, NEW stamp \in {rows[r].stamp, clock},
             NEW public \in BOOLEAN
      PROVE  /\ [rows[r] EXCEPT !.public = public, !.stamp = stamp] \in Row
             /\ [rows[r] EXCEPT !.rank = rank, !.stamp = stamp] \in Row
             /\ [rank |-> 0, stamp |-> clock, public |-> TRUE, clean |-> TRUE] \in Row
  <2>1. rows[r] \in Row /\ stamp \in 1 .. MaxClock /\ 0 \in Ranks
    BY <1>1 DEF Row, Ranks
  <2> QED
    BY <1>1, <2>1, Zenon DEF Row
<1>3. CASE UNCHANGED walkVars
  BY <1>3 DEF walkVars, WalkInv, WalkTypeOK, Served, Shown, Safe, Behind, Key
<1>4. CASE GetPage
  BY <1>4, PageKeeps
<1>5. ASSUME NEW late \in SUBSET Fresh, ReadElsewhere(late) PROVE WalkInv'
  BY <1>5, ReadKeeps
<1>6. ASSUME NEW r \in Rows, Publish(r) PROVE WalkInv'
  <2>1. [rank |-> 0, stamp |-> clock, public |-> TRUE, clean |-> TRUE] \in Row
    BY <1>2 DEF Ranks
  <2> QED
    BY <1>6, <2>1, WriteKeeps, Zenon DEF Publish
<1>7. ASSUME NEW r \in Rows, Hide(r) \/ Reinstate(r) PROVE WalkInv'
  <2>1. PICK public \in BOOLEAN, stamp \in {rows[r].stamp, clock} :
           Write(r, [rows[r] EXCEPT !.public = public, !.stamp = stamp])
    BY <1>7, Zenon DEF Hide, Reinstate
  <2>2. [rows[r] EXCEPT !.public = public, !.stamp = stamp] \in Row
    BY <1>2 DEF Ranks
  <2> QED
    BY <2>1, <2>2, WriteKeeps, Zenon
<1>8. ASSUME NEW r \in Rows, Verify(r) PROVE WalkInv'
  <2>1. PICK rank \in Ranks, stamp \in {rows[r].stamp, clock} :
           Write(r, [rows[r] EXCEPT !.rank = rank, !.stamp = stamp])
    BY <1>8, Zenon DEF Verify
  <2>2. [rows[r] EXCEPT !.rank = rank, !.stamp = stamp] \in Row
    BY <1>2
  <2> QED
    BY <2>1, <2>2, WriteKeeps, Zenon
<1>9. CASE Tick
  <2>1. clock' \in 1 .. MaxClock
    BY <1>1, <1>9, SearchAssumption DEF Tick
  <2> QED
    BY <1>9, <2>1
    DEF Tick, WalkInv, WalkTypeOK, Served, Shown, Safe, Behind, Key
<1> QED
  BY <1>3, <1>4, <1>5, <1>6, <1>7, <1>8, <1>9 DEF WalkNext

LEMMA WalkInvInit == WalkInit => WalkInv
<1> SUFFICES ASSUME WalkInit PROVE WalkInv
  OBVIOUS
<1>1. 1 \in 1 .. MaxClock
  BY SearchAssumption
<1>2. rows \in [Rows -> Row] /\ clock \in 1 .. MaxClock
  BY <1>1 DEF WalkInit
<1>3. /\ walk = [at |-> "new"] /\ given = [r \in Rows |-> 0] /\ steady = {} /\ still = {}
      /\ surface \in Surfaces
  BY DEF WalkInit
<1>4. walk \in Walks /\ walk.at = "new"
  BY <1>3 DEF Walks
<1>5. given \in [Rows -> 0 .. 2]
  BY <1>3
<1>6. WalkTypeOK
  BY <1>2, <1>3, <1>4, <1>5, WalkKinds DEF RowMap
<1> QED
  BY <1>3, <1>6 DEF WalkInv

LEMMA WalkInvariant == WalkSpec => []WalkInv
<1> QED
  BY WalkInvInit, WalkInvStep, PTL DEF WalkSpec

\* Whatever is written, marked as stale and walked, what the client and the
\* rows hold is of its kind.
THEOREM WalkTypes == WalkSpec => []WalkTypeOK
<1>1. WalkInv => WalkTypeOK
  BY DEF WalkInv
<1> QED
  BY <1>1, WalkInvariant, PTL

\* Who walks the pages of a search to the last one has been given once every
\* row that stayed visible where it was, and of a public search also those
\* that readers moved (search_listings and its cursor, for any number of
\* rows, any page size and any budget).
THEOREM WalkGivesEveryRow == WalkSpec => []EveryRowOnce
<1>1. WalkInv => EveryRowOnce
  BY DEF WalkInv, WalkTypeOK, EveryRowOnce, AllGiven, Served, Behind
<1> QED
  BY <1>1, WalkInvariant, PTL
=============================================================================
