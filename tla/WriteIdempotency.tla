-------------------------- MODULE WriteIdempotency --------------------------
(***************************************************************************)
(* What every write handler shares (api/idempotency.py): the row of a      *)
(* request's idempotency key and the template replay, authenticate,        *)
(* consume, claim, work, complete that the handlers of the catalog and of  *)
(* the listings follow.                                                    *)
(*                                                                         *)
(* A row is found by endpoint, actor and key; the hash of the request is   *)
(* what it is about (of).  One actor stands for one actor_key, a digest of *)
(* the token presented or of the binding that signed.  An exhausted budget *)
(* is one of the errors that roll a request back.                          *)
(***************************************************************************)
EXTENDS Naturals, FiniteSets

CONSTANTS
    Operations,     \* endpoints that take an idempotency key
    Actors,         \* who asks
    Keys,           \* idempotency keys clients use
    Targets,        \* what requests are about
    Requests,       \* requests in flight at once
    MaxWrites,      \* bound on the requests that get to an authenticated start
    None            \* no key

ASSUME NoneAssumption == None \notin Keys
ASSUME MaxWritesAssumption == MaxWrites \in Nat

VARIABLES
    keys,           \* agent_catalog_write_idempotency
    calls,          \* requests between two of their transactions
    begun,          \* how many requests there have been
    applied         \* history: how often the work of a row was committed

writes == <<keys, calls, begun, applied>>

Ids == Operations \X Actors \X Keys
Free == [status |-> "none"]
Row == {Free} \cup
       [of : Targets, status : {"processing", "completed"}, says : BOOLEAN]

Idle == [at |-> "idle"]
Call == {Idle} \cup
    [at : {"authorised", "network", "enqueue"},
     op : Operations, actor : Actors, key : Keys \cup {None}, target : Targets]

WritesTypeOK ==
    /\ keys \in [Ids -> Row]
    /\ calls \in [Requests -> Call]
    /\ begun \in 0 .. MaxWrites
    /\ applied \in [Ids -> Nat]

WritesInit ==
    /\ keys = [i \in Ids |-> Free]
    /\ calls = [c \in Requests |-> Idle]
    /\ begun = 0
    /\ applied = [i \in Ids |-> 0]

(***************************************************************************)
(* Steps of the template.  A request without a key has no row: its id is   *)
(* outside the domain of keys.                                             *)
(***************************************************************************)
\* replay: nothing to replay and no conflict.  A row that is processing, or
\* about another request, refuses; a completed one answers from its row.
BugUnused(i) == i \in Ids => keys[i].status # "completed"
Unused(i)    == i \in Ids => keys[i] = Free

Put(ks, i, row) == [j \in Ids |-> IF j = i THEN row ELSE ks[j]]
Claimed(i, t)   == Put(keys, i, [of |-> t, status |-> "processing", says |-> FALSE])

\* complete, before its UPDATE: every so often rows completed more than seven
\* days ago go, whoever they belong to.  No request stays in flight that long.
InFlight(i)  == \E c \in Requests :
    calls[c] # Idle /\ calls[c].at # "authorised"
    /\ <<calls[c].op, calls[c].actor, calls[c].key>> = i
Prunable     == {i \in Ids : keys[i].status = "completed" /\ ~InFlight(i)}

\* complete: the answer is stored; truthful says whether it promises more
\* than what is committed with it.
Complete(i, t, work) ==
    \E old \in SUBSET Prunable :
        /\ keys' = Put([j \in Ids |-> IF j \in old THEN Free ELSE keys[j]], i,
                       [of |-> t, status |-> "completed", says |-> TRUE])
        /\ applied' = [j \in Ids |-> IF j = i THEN applied[j] + work
                                     ELSE IF j \in old THEN 0 ELSE applied[j]]

Begin        == begun < MaxWrites /\ begun' = begun + 1
Become(c, s) == calls' = [calls EXCEPT ![c] = s]
IdOf(c)      == <<calls[c].op, calls[c].actor, calls[c].key>>

\* A handler's first transaction, up to its first write: who asks is
\* authenticated and there is nothing to replay.
Enter(c, op, a, k, t) ==
    /\ calls[c] = Idle /\ Begin
    /\ Unused(<<op, a, k>>)
    /\ Become(c, [at |-> "authorised", op |-> op, actor |-> a, key |-> k, target |-> t])
    /\ UNCHANGED <<keys, applied>>

\* The claim met a row that came up since: its answer is given again, or the
\* request is refused.
ClaimMeetsRow(c) ==
    /\ calls[c].at = "authorised" /\ ~Unused(IdOf(c))
    /\ Become(c, Idle)
    /\ UNCHANGED <<keys, begun, applied>>

\* Any error before the commit, an exhausted budget first: the transaction is
\* rolled back, the claim with it.
RolledBack(c) ==
    /\ calls[c].at = "authorised"
    /\ Become(c, Idle)
    /\ UNCHANGED <<keys, begun, applied>>

\* Claim, work and completion in one transaction.
Together(c, work) ==
    /\ calls[c].at = "authorised" /\ Unused(IdOf(c))
    /\ Complete(IdOf(c), calls[c].target, work)

(***************************************************************************)
(* verify_catalog_agent and claim_catalog_agent: budget and claim are      *)
(* committed before the network is asked.                                  *)
(***************************************************************************)
CommitClaim(c) ==
    /\ calls[c].at = "authorised" /\ calls[c].op = "verify" /\ Unused(IdOf(c))
    /\ keys' = Claimed(IdOf(c), calls[c].target)
    /\ Become(c, [calls[c] EXCEPT !.at = "network"])
    /\ UNCHANGED <<begun, applied>>

Answer(c) ==
    /\ calls[c].at = "network"
    /\ Complete(IdOf(c), calls[c].target, 1)
    /\ Become(c, Idle)
    /\ UNCHANGED begun

\* The exception is handled by clear, and raised again out of db_session:
\* the DELETE of clear is rolled back with the rest.
Fail(c) ==
    /\ calls[c].at = "network"
    /\ Become(c, Idle)
    /\ UNCHANGED <<keys, begun, applied>>

(***************************************************************************)
(* refresh_catalog_agent: the answer is stored and committed before the    *)
(* task is enqueued.                                                       *)
(***************************************************************************)
CommitAnswer(c) ==
    /\ Together(c, 0) /\ calls[c].op = "refresh"
    /\ Become(c, [calls[c] EXCEPT !.at = "enqueue"])
    /\ UNCHANGED begun

Enqueue(c) ==
    /\ calls[c].at = "enqueue"
    /\ applied' = [j \in Ids |-> IF j = IdOf(c) THEN applied[j] + 1 ELSE applied[j]]
    /\ Become(c, Idle)
    /\ UNCHANGED <<keys, begun>>

\* The queue fences the agent: the stored answer is replaced by an honest one.
Reword(c) ==
    /\ calls[c].at = "enqueue"
    /\ keys' = [j \in Ids |-> IF j = IdOf(c) THEN [keys[j] EXCEPT !.says = FALSE] ELSE keys[j]]
    /\ Become(c, Idle)
    /\ UNCHANGED <<begun, applied>>

\* The queue is full or closed: an error for this caller, the stored answer stays.
QueueFull(c) ==
    /\ calls[c].at = "enqueue"
    /\ Become(c, Idle)
    /\ UNCHANGED <<keys, begun, applied>>

(***************************************************************************)
(* The process.                                                            *)
(***************************************************************************)
Crash ==
    /\ \E c \in Requests : calls[c] # Idle
    /\ calls' = [c \in Requests |-> Idle]
    /\ UNCHANGED <<keys, begun, applied>>
=============================================================================
