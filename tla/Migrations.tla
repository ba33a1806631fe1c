----------------------------- MODULE Migrations -----------------------------
(***************************************************************************)
(* Opening the database (db/session.py) and bringing its schema up to date *)
(* (db/migrations.py), by processes that start at the same time and may    *)
(* crash at any moment.                                                    *)
(*                                                                         *)
(* The DDL of models.SCHEMA commits statement by statement; run_migrations *)
(* holds the write lock from BEGIN IMMEDIATE to its commit, so that what   *)
(* it has done so far (work) is seen by nobody else.  A statement of       *)
(* SCHEMA that finds its object present changes nothing and is not a step. *)
(***************************************************************************)
EXTENDS SchemaChain

CONSTANTS
    Processes,      \* processes opening the database
    None            \* nobody holds the write lock

ASSUME NoneAssumption == None \notin Processes

VARIABLES
    objects,        \* the schema, as committed
    version,        \* pragma user_version, as committed
    meta,           \* the schema_version in the table meta
    duplicates,     \* what the rows of an old database have twice
    lock,           \* the process that holds SQLite's write lock
    work,           \* what the holder of the lock has done so far
    conns,          \* how far each process is with its connection
    seen,           \* the version each read when it opened the file
    birth,          \* history: the version the database had at first
    ran             \* history: the migrations whose effect was committed

database == <<objects, version, meta, duplicates>>
vars == <<database, lock, work, conns, seen, birth, ran>>

Stages == {"closed", "schema", "lock", "chain", "commit", "meta", "open", "refused"}
NoWork == [objects |-> {}, version |-> 0, ran |-> <<>>]

\* Duplicates that the release of version v had not ruled out yet.
Possible(v) == {d \in {"merchant", "domain"} :
                  (d = "merchant" => v < 7) /\ (d = "domain" => v < 11)}

Init ==
    /\ birth \in 0 .. Current + 1
    /\ version = birth
    /\ objects \in IF birth <= Current THEN Left(birth) ELSE {Complete}
    /\ meta = birth
    /\ duplicates \in SUBSET Possible(birth)
    /\ lock = None /\ work = NoWork
    /\ conns = [p \in Processes |-> "closed"]
    /\ seen = [p \in Processes |-> 0]
    /\ ran = <<>>

Become(p, stage) == conns' = [conns EXCEPT ![p] = stage]

(***************************************************************************)
(* open_connection                                                         *)
(***************************************************************************)
Open(p) ==
    /\ conns[p] = "closed"
    /\ Become(p, CASE version < Current -> "schema"
                   [] version = Current -> "open"
                   [] version > Current -> "refused")
    /\ seen' = [seen EXCEPT ![p] = version]
    /\ UNCHANGED <<database, lock, work, birth, ran>>

Close(p) ==
    /\ conns[p] \in {"open", "refused"}
    /\ Become(p, "closed")
    /\ UNCHANGED <<database, lock, work, seen, birth, ran>>

\* init_db: the next statement of SCHEMA that has something to do.
Missing == {i \in DOMAIN Schema : Schema[i].on \notin objects}

CreateSchema(p) ==
    /\ conns[p] = "schema" /\ Missing # {} /\ lock = None
    /\ LET i == CHOOSE i \in Missing : \A j \in Missing : i <= j
       IN objects' = Executed(objects, Schema[i])
    /\ UNCHANGED <<version, meta, duplicates, lock, work, conns, seen, birth, ran>>

SchemaDone(p) ==
    /\ conns[p] = "schema" /\ Missing = {}
    /\ Become(p, "lock")
    /\ UNCHANGED <<database, lock, work, seen, birth, ran>>

(***************************************************************************)
(* run_migrations                                                          *)
(***************************************************************************)
\* BEGIN IMMEDIATE; the version is read again, under the lock.
BugStart(p) == [objects |-> objects, version |-> seen[p], ran |-> <<>>]
Start(p)    == [objects |-> objects, version |-> version, ran |-> <<>>]

Begin(p) ==
    /\ conns[p] = "lock" /\ lock = None
    /\ lock' = p
    /\ work' = Start(p)
    /\ Become(p, "chain")
    /\ UNCHANGED <<database, seen, birth, ran>>

\* Variant with a plausible bug: a migration that refuses is passed over.
BugApply(p) ==
    /\ conns[p] = "chain" /\ work.version < Current
    /\ LET v == work.version + 1
       IN work' = [objects |-> IF Succeeds(work.objects, duplicates, Chain[v])
                                 THEN ExecutedAll(work.objects, Chain[v]) ELSE work.objects,
                   version |-> v, ran |-> Append(work.ran, v)]
    /\ UNCHANGED <<database, lock, conns, seen, birth, ran>>

Apply(p) ==
    /\ conns[p] = "chain" /\ work.version < Current
    /\ LET v == work.version + 1
       IN /\ Succeeds(work.objects, duplicates, Chain[v])
          /\ work' = [objects |-> ExecutedAll(work.objects, Chain[v]),
                      version |-> v, ran |-> Append(work.ran, v)]
    /\ UNCHANGED <<database, lock, conns, seen, birth, ran>>

ChainDone(p) ==
    /\ conns[p] = "chain" /\ work.version >= Current
    /\ Become(p, "commit")
    /\ UNCHANGED <<database, lock, work, seen, birth, ran>>

Commit(p) ==
    /\ conns[p] = "commit"
    /\ objects' = work.objects /\ version' = work.version
    /\ ran' = ran \o work.ran
    /\ lock' = None /\ work' = NoWork
    /\ Become(p, "meta")
    /\ UNCHANGED <<meta, duplicates, seen, birth>>

\* The end of init_db: two rows of meta and a commit of their own.
WriteMeta(p) ==
    /\ conns[p] = "meta" /\ lock = None
    /\ meta' = Current
    /\ Become(p, "open")
    /\ UNCHANGED <<objects, version, duplicates, lock, work, seen, birth, ran>>

\* A migration that refuses or fails, a lock not had within busy_timeout, a
\* COMMIT that fails, a crash: the connection and its transaction are gone.
GiveUp(p) ==
    /\ conns[p] \in Stages \ {"closed", "open", "refused"}
    /\ IF lock = p THEN lock' = None /\ work' = NoWork ELSE UNCHANGED <<lock, work>>
    /\ Become(p, "closed")
    /\ UNCHANGED <<database, seen, birth, ran>>

Next == \E p \in Processes :
    \/ Open(p) \/ Close(p)
    \/ CreateSchema(p) \/ SchemaDone(p)
    \/ Begin(p) \/ Apply(p) \/ ChainDone(p) \/ Commit(p)
    \/ WriteMeta(p) \/ GiveUp(p)

Spec == Init /\ [][Next]_vars

(***************************************************************************)
(* Properties.                                                             *)
(***************************************************************************)
\* The database, the lock and the connections are of their kind.
TypeOK ==
    /\ birth \in Nat /\ version \in Nat /\ meta \in Nat
    /\ lock \in Processes \cup {None}
    /\ work.version \in Nat
    /\ conns \in [Processes -> Stages] /\ seen \in [Processes -> Nat]
    /\ ran \in Seq(Nat) /\ work.ran \in Seq(Nat)

\* Whoever is given a connection finds the whole schema of this release,
\* whatever release left the database, and whoever crashed or failed over it
\* on the way (init_db: migrations make of an old database what SCHEMA makes
\* of an empty file).
OpenedIsComplete ==
    \A p \in Processes : conns[p] = "open" => version = Current /\ objects = Complete

\* Every migration takes effect once, in its order, and the version tells
\* which have: processes that opened the database together do not fill its
\* columns and plans a second time (run_migrations reads the version again
\* under the lock).
OnceInOrder ==
    /\ version = birth + Len(ran)
    /\ \A i \in DOMAIN ran : ran[i] = birth + i
=============================================================================
