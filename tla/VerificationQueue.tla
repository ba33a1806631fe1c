-------------------------- MODULE VerificationQueue --------------------------
(***************************************************************************)
(* The bounded in-process verification queue with its durable ledger       *)
(* (services/agent_verification.py, class VerificationQueue, and           *)
(* services/verification_queue_ledger.py).                                 *)
(*                                                                         *)
(* Actors: CALLERS run enqueue(); WORKERS run _worker_loop and supervise   *)
(* one task at a time; each supervised task has a RUNNER, a daemon thread  *)
(* that executes the service call and asks for the commit permission; the  *)
(* clock lets a deadline pass; shutdown() and a process crash happen at    *)
(* any moment.  One action is one critical section of the code.            *)
(*                                                                         *)
(* A task identifier stands for one VerificationTask; identifiers are      *)
(* handed out in order and never reused.  A service call is what the queue *)
(* sees of it: it fails, asks for the commit permission, or never returns. *)
(***************************************************************************)
EXTENDS Integers, Sequences, FiniteSets, Functions

CONSTANTS
    Agents,       \* catalog agents
    Kinds,        \* task kinds in use, a subset of _KINDS
    Workers,      \* worker threads; config.concurrency is their number
    Callers,      \* threads inside enqueue()
    None,         \* no agent, no kind
    MaxTasks,     \* bound: tasks ever created
    MaxPending,   \* config.max_pending
    MaxCrashes,   \* bound: process crashes
    FailableOps,  \* ledger writes, or the thread start, that may raise
    JoinTimeout   \* TRUE: shutdown(timeout=...) may return before workers exit

ASSUME TasksAssumption == MaxTasks \in Nat /\ MaxPending \in Nat \ {0}
ASSUME CrashesAssumption == MaxCrashes \in Nat
ASSUME NoneAssumption == None \notin Agents \cup Kinds
ASSUME WorkersAssumption == IsFiniteSet(Workers) /\ IsFiniteSet(Callers)
ASSUME OpsAssumption ==
    FailableOps \subseteq {"insert", "running", "thread", "finish",
                           "unknown", "delete", "purge"}
ASSUME JoinAssumption == JoinTimeout \in BOOLEAN

Tasks  == 1 .. MaxTasks
NoTask == 0
MaybeTask == Tasks \cup {NoTask}

Outcomes == {"completed", "failed", "timeout", "unknown"}
Definite == {"completed", "failed", "timeout"}
NoJob    == [agent |-> None, kind |-> None]

VARIABLES
    \* ---- memory of the process: lost by a crash
    tasks,       \* _tasks: identifiers admitted or being admitted
    results,     \* _results: the recorded outcome, or "none"
    uncertain,   \* _uncertain_agents: agents fenced by an unknown outcome
    pending,     \* _pending: the bounded FIFO
    cap,         \* its maxsize
    running,     \* _agent_running: agents whose serial slot is taken
    deferred,    \* _agent_deferred: per agent, tasks waiting for the slot
    preclaimed,  \* _agent_preclaimed: the task the slot was handed to
    wpc, wtask, wout, handoff,  \* per worker: control, task, outcome, carried task
    cpc, ctask, cjob,           \* per caller: control, task, requested job
    perm,        \* _CommitPermission.state of the task's run
    expired,     \* tasks whose deadline has passed
    rpc,         \* control of the task's runner thread
    shutdown,    \* _shutdown is set
    ledgerOpen,  \* _db_conn is not None
    \* ---- the database
    ledger,      \* status of the task's row; "unknown" is running + marker
    effect,      \* tasks whose final service transaction is committed
    \* ---- history, and the crash bound
    job,         \* the agent and kind of every task ever created
    started,     \* how often a runner was started for the task
    reported,    \* outcomes ever recorded in _results
    accepted,    \* tasks put in the queue by their own enqueue()
    answered,    \* tasks some enqueue() answered "enqueued" for
    crashes

memVars    == <<tasks, results, uncertain>>
schedVars  == <<pending, cap, running, deferred, preclaimed>>
workerVars == <<wpc, wtask, wout, handoff>>
callerVars == <<cpc, ctask, cjob>>
runVars    == <<perm, expired, rpc>>
ctlVars    == <<shutdown, ledgerOpen>>
dbVars     == <<ledger, effect>>
histVars   == <<job, started, reported, accepted, answered, crashes>>
vars == <<memVars, schedVars, workerVars, callerVars, runVars, ctlVars, dbVars,
          histVars>>

AgentOf(t) == job[t].agent
Live(t)    == t \in tasks /\ results[t] = "none"

(***************************************************************************)
(* Initial state: an empty ledger and a queue just constructed on it.      *)
(***************************************************************************)
Init ==
    /\ tasks = {} /\ results = [t \in Tasks |-> "none"] /\ uncertain = {}
    /\ pending = <<>> /\ cap = MaxPending
    /\ running = {} /\ deferred = [a \in Agents |-> <<>>]
    /\ preclaimed = [a \in Agents |-> NoTask]
    /\ wpc = [w \in Workers |-> "idle"] /\ wtask = [w \in Workers |-> NoTask]
    /\ wout = [w \in Workers |-> "none"] /\ handoff = [w \in Workers |-> NoTask]
    /\ cpc = [c \in Callers |-> "idle"] /\ ctask = [c \in Callers |-> NoTask]
    /\ cjob = [c \in Callers |-> NoJob]
    /\ perm = [t \in Tasks |-> "idle"] /\ expired = {}
    /\ rpc = [t \in Tasks |-> "none"]
    /\ shutdown = FALSE /\ ledgerOpen = TRUE
    /\ ledger = [t \in Tasks |-> "absent"] /\ effect = {}
    /\ job = [t \in Tasks |-> NoJob] /\ started = [t \in Tasks |-> 0]
    /\ reported = [t \in Tasks |-> {}] /\ accepted = {} /\ answered = {}
    /\ crashes = 0

(***************************************************************************)
(* Ledger writes.  Once shutdown() closed the connection every helper      *)
(* returns without writing (db_conn is None).  A write that raises leaves  *)
(* its row as it was.                                                      *)
(***************************************************************************)
MayFail(op) == op \in FailableOps /\ ledgerOpen

SetRow(t, status) == ledger' = IF ledgerOpen THEN [ledger EXCEPT ![t] = status]
                                             ELSE ledger

\* insert_pending_task
InsertRow(t) == SetRow(t, "pending")

\* delete_task
DeleteRow(t) == SetRow(t, "absent")

\* mark_task_running: an UPDATE by key, whatever the status
MarkRunning(t) ==
    IF ledger[t] = "absent" THEN ledger' = ledger ELSE SetRow(t, "running")

\* finish_task: only a running row without the unknown marker is finished
FinishedRow(t, status) == IF ledger[t] = "running" THEN status ELSE ledger[t]
FinishRow(t, status)   == SetRow(t, FinishedRow(t, status))

\* mark_task_unknown: only rows that are pending or running
MarkUnknown(t) ==
    IF ledger[t] \in {"pending", "running", "unknown"}
    THEN SetRow(t, "unknown") ELSE ledger' = ledger

\* _unknown_outcome: fence the agent, then try to persist the marker; the
\* marker's failure is swallowed (the running row itself is a fence)
UnknownOutcome(t) ==
    /\ uncertain' = uncertain \cup {AgentOf(t)}
    /\ \/ MarkUnknown(t)
       \/ MayFail("unknown") /\ UNCHANGED ledger

(***************************************************************************)
(* enqueue()                                                               *)
(***************************************************************************)
Fresh(t) == /\ job[t] = NoJob
            /\ \A u \in Tasks : u < t => job[u] # NoJob

\* Bound: every caller inside enqueue() can still be given an identifier.
CanCall == Cardinality({c \in Callers : cpc[c] # "idle"})
             < Cardinality({t \in Tasks : job[t] = NoJob})

CallerReturns(c) ==
    /\ cpc' = [cpc EXCEPT ![c] = "idle"]
    /\ ctask' = [ctask EXCEPT ![c] = NoTask]
    /\ cjob' = [cjob EXCEPT ![c] = NoJob]

\* Not shut down and the agent not fenced: the two early raises change nothing.
EnqueueCheck(c, a, k) ==
    /\ cpc[c] = "idle" /\ CanCall
    /\ ~shutdown /\ a \notin uncertain
    /\ cpc' = [cpc EXCEPT ![c] = "dedup"]
    /\ cjob' = [cjob EXCEPT ![c] = [agent |-> a, kind |-> k]]
    /\ UNCHANGED <<ctask, memVars, schedVars, workerVars, runVars, ctlVars,
                   dbVars, histVars>>

\* Tasks a new request with the job of caller c would be merged into.
Reusable(c) == {t \in tasks : job[t] = cjob[c] /\ results[t] = "none"}

\* The request is answered with the identifier of an unfinished task.
EnqueueReuse(c) ==
    /\ cpc[c] = "dedup"
    /\ \E t \in Reusable(c) : answered' = answered \cup {t}
    /\ CallerReturns(c)
    /\ UNCHANGED <<memVars, schedVars, workerVars, runVars, ctlVars, dbVars,
                   job, started, reported, accepted, crashes>>

EnqueueMiss(c) ==
    /\ cpc[c] = "dedup" /\ Reusable(c) = {}
    /\ cpc' = [cpc EXCEPT ![c] = "register"]
    /\ UNCHANGED <<ctask, cjob, memVars, schedVars, workerVars, runVars,
                   ctlVars, dbVars, histVars>>

\* A second critical section registers the new task in _tasks.
EnqueueRegister(c) ==
    /\ cpc[c] = "register"
    /\ \E t \in Tasks :
         /\ Fresh(t)
         /\ job' = [job EXCEPT ![t] = cjob[c]]
         /\ tasks' = tasks \cup {t}
         /\ ctask' = [ctask EXCEPT ![c] = t]
    /\ cpc' = [cpc EXCEPT ![c] = "persist"]
    /\ UNCHANGED <<cjob, results, uncertain, schedVars, workerVars, runVars,
                   ctlVars, dbVars, started, reported, accepted, answered,
                   crashes>>

EnqueuePersist(c) ==
    /\ cpc[c] = "persist"
    /\ InsertRow(ctask[c])
    /\ cpc' = [cpc EXCEPT ![c] = "admit"]
    /\ UNCHANGED <<ctask, cjob, memVars, schedVars, workerVars, runVars,
                   ctlVars, effect, histVars>>

\* VerificationQueueLedgerError: the memory entry is rolled back.
EnqueuePersistFails(c) ==
    /\ cpc[c] = "persist" /\ MayFail("insert")
    /\ tasks' = tasks \ {ctask[c]}
    /\ CallerReturns(c)
    /\ UNCHANGED <<results, uncertain, schedVars, workerVars, runVars, ctlVars,
                   dbVars, histVars>>

\* Under _enqueue_lock: not shut down, agent not fenced, room in the queue.
EnqueueAdmit(c) ==
    /\ cpc[c] = "admit" /\ ~shutdown
    /\ AgentOf(ctask[c]) \notin uncertain
    /\ Len(pending) < cap
    /\ pending' = Append(pending, ctask[c])
    /\ accepted' = accepted \cup {ctask[c]}
    /\ answered' = answered \cup {ctask[c]}
    /\ CallerReturns(c)
    /\ UNCHANGED <<memVars, cap, running, deferred, preclaimed, workerVars,
                   runVars, ctlVars, dbVars, job, started, reported, crashes>>

\* The agent was fenced since the check: the task keeps its row, as unknown.
EnqueueFenced(c) ==
    /\ cpc[c] = "admit" /\ ~shutdown
    /\ AgentOf(ctask[c]) \in uncertain
    /\ UnknownOutcome(ctask[c])
    /\ results' = [results EXCEPT ![ctask[c]] = "unknown"]
    /\ reported' = [reported EXCEPT ![ctask[c]] = @ \cup {"unknown"}]
    /\ CallerReturns(c)
    /\ UNCHANGED <<tasks, schedVars, workerVars, runVars, ctlVars, effect, job,
                   started, accepted, answered, crashes>>

\* queue.Full: the roll-back runs outside _enqueue_lock.
EnqueueFull(c) ==
    /\ cpc[c] = "admit" /\ ~shutdown
    /\ AgentOf(ctask[c]) \notin uncertain
    /\ Len(pending) >= cap
    /\ cpc' = [cpc EXCEPT ![c] = "rollback"]
    /\ UNCHANGED <<ctask, cjob, memVars, schedVars, workerVars, runVars,
                   ctlVars, dbVars, histVars>>

\* Shut down since the check, or full: the row and the memory entry go.
MustRollBack(c) == \/ cpc[c] = "admit" /\ shutdown
                   \/ cpc[c] = "rollback"

EnqueueRollback(c) ==
    /\ MustRollBack(c)
    /\ DeleteRow(ctask[c])
    /\ tasks' = tasks \ {ctask[c]}
    /\ CallerReturns(c)
    /\ UNCHANGED <<results, uncertain, schedVars, workerVars, runVars, ctlVars,
                   effect, histVars>>

\* The DELETE raises: the exception leaves the memory entry behind.
EnqueueRollbackFails(c) ==
    /\ MustRollBack(c) /\ MayFail("delete")
    /\ CallerReturns(c)
    /\ UNCHANGED <<memVars, schedVars, workerVars, runVars, ctlVars, dbVars,
                   histVars>>

Enqueue(c) ==
    \/ \E a \in Agents, k \in Kinds : EnqueueCheck(c, a, k)
    \/ EnqueueReuse(c) \/ EnqueueMiss(c) \/ EnqueueRegister(c)
    \/ EnqueuePersist(c) \/ EnqueuePersistFails(c)
    \/ EnqueueAdmit(c) \/ EnqueueFenced(c) \/ EnqueueFull(c)
    \/ EnqueueRollback(c) \/ EnqueueRollbackFails(c)

(***************************************************************************)
(* _worker_loop                                                            *)
(***************************************************************************)
Goto(w, pc) == wpc' = [wpc EXCEPT ![w] = pc]

\* Variant with a plausible bug: drained means that the FIFO is empty.
BugDrained == pending = <<>>

\* _admitted_drained
Drained == \A t \in tasks : results[t] # "none"

WorkerExit(w) ==
    /\ wpc[w] = "idle" /\ shutdown /\ Drained
    /\ Goto(w, "exited")
    /\ UNCHANGED <<wtask, wout, handoff, memVars, schedVars, callerVars,
                   runVars, ctlVars, dbVars, histVars>>

\* A task carried over from a full queue comes before the queue's head.
WorkerTakeHandoff(w) ==
    /\ wpc[w] = "idle" /\ handoff[w] # NoTask
    /\ wtask' = [wtask EXCEPT ![w] = handoff[w]]
    /\ handoff' = [handoff EXCEPT ![w] = NoTask]
    /\ Goto(w, "claim")
    /\ UNCHANGED <<wout, memVars, schedVars, callerVars, runVars, ctlVars,
                   dbVars, histVars>>

WorkerTake(w) ==
    /\ wpc[w] = "idle" /\ handoff[w] = NoTask /\ pending # <<>>
    /\ wtask' = [wtask EXCEPT ![w] = Head(pending)]
    /\ pending' = Tail(pending)
    /\ Goto(w, "claim")
    /\ UNCHANGED <<wout, handoff, memVars, cap, running, deferred, preclaimed,
                   callerVars, runVars, ctlVars, dbVars, histVars>>

IsPreclaimed(t) == preclaimed[AgentOf(t)] = t
Busy(t) == /\ AgentOf(t) \in running
           /\ ~IsPreclaimed(t)
           /\ AgentOf(t) \notin uncertain

\* The agent's slot is taken: the task waits behind it.
WorkerDefer(w) ==
    LET t == wtask[w] IN
    /\ wpc[w] = "claim" /\ Busy(t)
    /\ deferred' = [deferred EXCEPT ![AgentOf(t)] = Append(@, t)]
    /\ wtask' = [wtask EXCEPT ![w] = NoTask]
    /\ Goto(w, "idle")
    /\ UNCHANGED <<wout, handoff, memVars, pending, cap, running, preclaimed,
                   callerVars, runVars, ctlVars, dbVars, histVars>>

\* The slot is free, was handed to this task, or the agent is fenced.
WorkerClaim(w) ==
    LET t == wtask[w]
        a == AgentOf(t)
    IN
    /\ wpc[w] = "claim" /\ ~Busy(t)
    /\ preclaimed' = IF IsPreclaimed(t) THEN [preclaimed EXCEPT ![a] = NoTask]
                                        ELSE preclaimed
    /\ running' = IF IsPreclaimed(t) THEN running ELSE running \cup {a}
    /\ Goto(w, IF a \in uncertain THEN "unknown" ELSE "starting")
    /\ UNCHANGED <<wtask, wout, handoff, memVars, pending, cap, deferred,
                   callerVars, runVars, ctlVars, dbVars, histVars>>

\* _unknown_outcome, for a fenced agent's queued task or a lost commit
WorkerUnknown(w) ==
    /\ wpc[w] = "unknown"
    /\ UnknownOutcome(wtask[w])
    /\ wout' = [wout EXCEPT ![w] = "unknown"]
    /\ Goto(w, "record")
    /\ UNCHANGED <<wtask, handoff, tasks, results, schedVars, callerVars,
                   runVars, ctlVars, effect, histVars>>

\* _run_task_with_timeout: the row is running before anything can happen
PersistRunning(w) ==
    /\ wpc[w] = "starting"
    /\ MarkRunning(wtask[w])
    /\ perm' = [perm EXCEPT ![wtask[w]] = "running"]
    /\ Goto(w, "slot")
    /\ UNCHANGED <<wtask, wout, handoff, memVars, schedVars, callerVars,
                   expired, rpc, ctlVars, effect, histVars>>

PersistRunningFails(w) ==
    /\ wpc[w] = "starting" /\ MayFail("running")
    /\ Goto(w, "error")
    /\ UNCHANGED <<wtask, wout, handoff, memVars, schedVars, callerVars,
                   runVars, ctlVars, dbVars, histVars>>

\* Runner threads that exist; each holds one of _runner_slots.
Alive == {t \in Tasks : rpc[t] \in {"exec", "permitted", "committed"}}
SlotFree == Cardinality(Alive) < Cardinality(Workers)

StartRunner(w) ==
    /\ wpc[w] = "slot" /\ SlotFree
    /\ rpc' = [rpc EXCEPT ![wtask[w]] = "exec"]
    /\ started' = [started EXCEPT ![wtask[w]] = @ + 1]
    /\ Goto(w, "join")
    /\ UNCHANGED <<wtask, wout, handoff, memVars, schedVars, callerVars, perm,
                   expired, ctlVars, dbVars, job, reported, accepted, answered,
                   crashes>>

StartRunnerFails(w) ==
    /\ wpc[w] = "slot" /\ SlotFree /\ "thread" \in FailableOps
    /\ Goto(w, "error")
    /\ UNCHANGED <<wtask, wout, handoff, memVars, schedVars, callerVars,
                   runVars, ctlVars, dbVars, histVars>>

\* Every slot is still held by a runner that outlived its supervisor.
SlotTimeout(w) ==
    /\ wpc[w] = "slot" /\ ~SlotFree /\ wtask[w] \in expired
    /\ perm' = [perm EXCEPT ![wtask[w]] = "timeout"]
    /\ wout' = [wout EXCEPT ![w] = "timeout"]
    /\ Goto(w, "publish")
    /\ UNCHANGED <<wtask, handoff, memVars, schedVars, callerVars, expired,
                   rpc, ctlVars, dbVars, histVars>>

\* Variant with a plausible bug: an open commit is taken for a success.
HastyDecidedState(t) ==
    IF perm[t] = "running"
    THEN IF rpc[t] = "gone" THEN "failed" ELSE "timeout"
    ELSE IF perm[t] = "committing" THEN "completed" ELSE perm[t]

\* The state left by permission.finish(failed) for a runner that ended
\* without a result, followed by decide_deadline().
DecidedState(t) ==
    IF perm[t] = "running"
    THEN IF rpc[t] = "gone" THEN "failed" ELSE "timeout"
    ELSE IF perm[t] = "committing" THEN "unknown" ELSE perm[t]

\* Variants with a plausible bug: the permission is not withdrawn; the join
\* has no time limit.
BugDecide(w) ==
    LET d == DecidedState(wtask[w]) IN
    /\ wpc[w] = "join" /\ (rpc[wtask[w]] = "gone" \/ wtask[w] \in expired)
    /\ IF d = "unknown"
       THEN Goto(w, "unknown") /\ UNCHANGED wout
       ELSE Goto(w, "publish") /\ wout' = [wout EXCEPT ![w] = d]
    /\ UNCHANGED <<wtask, handoff, memVars, schedVars, callerVars, runVars,
                   ctlVars, dbVars, histVars>>
EndlessDecide(w) ==
    LET t == wtask[w]
        d == DecidedState(t)
    IN
    /\ wpc[w] = "join" /\ rpc[t] = "gone"
    /\ perm' = [perm EXCEPT ![t] = d]
    /\ IF d = "unknown"
       THEN Goto(w, "unknown") /\ UNCHANGED wout
       ELSE Goto(w, "publish") /\ wout' = [wout EXCEPT ![w] = d]
    /\ UNCHANGED <<wtask, handoff, memVars, schedVars, callerVars, expired,
                   rpc, ctlVars, dbVars, histVars>>

\* runner.join returned: the runner ended or the deadline passed.
Decide(w) ==
    LET t == wtask[w]
        d == DecidedState(t)
    IN
    /\ wpc[w] = "join" /\ (rpc[t] = "gone" \/ t \in expired)
    /\ perm' = [perm EXCEPT ![t] = d]
    /\ IF d = "unknown"
       THEN Goto(w, "unknown") /\ UNCHANGED wout
       ELSE Goto(w, "publish") /\ wout' = [wout EXCEPT ![w] = d]
    /\ UNCHANGED <<wtask, handoff, memVars, schedVars, callerVars, expired,
                   rpc, ctlVars, dbVars, histVars>>

\* _persist_finish
Publish(w) ==
    /\ wpc[w] = "publish"
    /\ FinishRow(wtask[w], wout[w])
    /\ Goto(w, "record")
    /\ UNCHANGED <<wtask, wout, handoff, memVars, schedVars, callerVars,
                   runVars, ctlVars, effect, histVars>>

\* A confirmed commit whose outcome cannot be stored becomes unknown.
PublishFails(w) ==
    /\ wpc[w] = "publish" /\ MayFail("finish")
    /\ Goto(w, IF wout[w] = "completed" THEN "unknown" ELSE "error")
    /\ UNCHANGED <<wtask, wout, handoff, memVars, schedVars, callerVars,
                   runVars, ctlVars, dbVars, histVars>>

\* Variant with a plausible bug: the catch-all removes the row in any state.
BugErrorRow(t, finishOk, purgeOk) ==
    IF purgeOk THEN "absent"
    ELSE IF finishOk THEN FinishedRow(t, "failed") ELSE ledger[t]

\* The row after the catch-all: finish_task as failed if that write works,
\* then the row removed if it is still pending and that write works.
ErrorRow(t, finishOk, purgeOk) ==
    LET row == IF finishOk THEN FinishedRow(t, "failed") ELSE ledger[t]
    IN  IF row = "pending" /\ purgeOk THEN "absent" ELSE row

\* except Exception of the worker loop: report failed, clean the ledger.
WorkerError(w) ==
    /\ wpc[w] = "error"
    /\ \E finishOk, purgeOk \in BOOLEAN :
         /\ finishOk \/ MayFail("finish")
         /\ purgeOk \/ MayFail("purge")
         /\ SetRow(wtask[w], ErrorRow(wtask[w], finishOk, purgeOk))
    /\ wout' = [wout EXCEPT ![w] = "failed"]
    /\ Goto(w, "record")
    /\ UNCHANGED <<wtask, handoff, memVars, schedVars, callerVars, runVars,
                   ctlVars, effect, histVars>>

Record(w) ==
    /\ wpc[w] = "record"
    /\ results' = [results EXCEPT ![wtask[w]] = wout[w]]
    /\ reported' = [reported EXCEPT ![wtask[w]] = @ \cup {wout[w]}]
    /\ wout' = [wout EXCEPT ![w] = "none"]
    /\ Goto(w, "finish")
    /\ UNCHANGED <<wtask, handoff, tasks, uncertain, schedVars, callerVars,
                   runVars, ctlVars, dbVars, job, started, accepted, answered,
                   crashes>>

\* Variant with a plausible bug: the slot is released without looking for
\* deferred tasks in the same critical section.
BugFinishRelease(w) ==
    /\ wpc[w] = "finish"
    /\ running' = running \ {AgentOf(wtask[w])}
    /\ wtask' = [wtask EXCEPT ![w] = NoTask]
    /\ Goto(w, "idle")
    /\ UNCHANGED <<wout, handoff, memVars, pending, cap, deferred, preclaimed,
                   callerVars, runVars, ctlVars, dbVars, histVars>>

\* Nobody waits for the agent's slot: it is released.
FinishRelease(w) ==
    LET a == AgentOf(wtask[w]) IN
    /\ wpc[w] = "finish" /\ deferred[a] = <<>>
    /\ running' = running \ {a}
    /\ wtask' = [wtask EXCEPT ![w] = NoTask]
    /\ Goto(w, "idle")
    /\ UNCHANGED <<wout, handoff, memVars, pending, cap, deferred, preclaimed,
                   callerVars, runVars, ctlVars, dbVars, histVars>>

\* The slot is handed to the first deferred task in the same section.
FinishHandOver(w) ==
    LET a == AgentOf(wtask[w]) IN
    /\ wpc[w] = "finish" /\ deferred[a] # <<>>
    /\ running' = running \cup {a}
    /\ preclaimed' = [preclaimed EXCEPT ![a] = Head(deferred[a])]
    /\ wtask' = [wtask EXCEPT ![w] = Head(deferred[a])]
    /\ deferred' = [deferred EXCEPT ![a] = Tail(@)]
    /\ Goto(w, "requeue")
    /\ UNCHANGED <<wout, handoff, memVars, pending, cap, callerVars, runVars,
                   ctlVars, dbVars, histVars>>

\* put_nowait of the handed-over task
Requeue(w) ==
    /\ wpc[w] = "requeue" /\ Len(pending) < cap
    /\ pending' = Append(pending, wtask[w])
    /\ wtask' = [wtask EXCEPT ![w] = NoTask]
    /\ Goto(w, "idle")
    /\ UNCHANGED <<wout, handoff, memVars, cap, running, deferred, preclaimed,
                   callerVars, runVars, ctlVars, dbVars, histVars>>

\* Variant with a plausible bug: a full queue drops the handed-over task.
BugRequeueFull(w) ==
    /\ wpc[w] = "requeue" /\ Len(pending) >= cap
    /\ wtask' = [wtask EXCEPT ![w] = NoTask]
    /\ Goto(w, "idle")
    /\ UNCHANGED <<wout, handoff, memVars, schedVars, callerVars, runVars,
                   ctlVars, dbVars, histVars>>

\* queue.Full: the worker keeps the task for its next turn.
RequeueFull(w) ==
    /\ wpc[w] = "requeue" /\ Len(pending) >= cap
    /\ handoff' = [handoff EXCEPT ![w] = wtask[w]]
    /\ wtask' = [wtask EXCEPT ![w] = NoTask]
    /\ Goto(w, "idle")
    /\ UNCHANGED <<wout, memVars, schedVars, callerVars, runVars, ctlVars,
                   dbVars, histVars>>

Worker(w) ==
    \/ WorkerExit(w) \/ WorkerTakeHandoff(w) \/ WorkerTake(w)
    \/ WorkerDefer(w) \/ WorkerClaim(w) \/ WorkerUnknown(w)
    \/ PersistRunning(w) \/ PersistRunningFails(w)
    \/ StartRunner(w) \/ StartRunnerFails(w) \/ SlotTimeout(w) \/ Decide(w)
    \/ Publish(w) \/ PublishFails(w) \/ WorkerError(w) \/ Record(w)
    \/ FinishRelease(w) \/ FinishHandOver(w) \/ Requeue(w) \/ RequeueFull(w)

(***************************************************************************)
(* _execute_task in the runner thread, and _CommitPermission               *)
(***************************************************************************)
PermitFinish(t, result) ==
    perm' = IF perm[t] \in {"running", "committing"}
            THEN [perm EXCEPT ![t] = result] ELSE perm

RunnerGone(t) == rpc' = [rpc EXCEPT ![t] = "gone"]

\* Variant with a plausible bug: close() commits what the failed call left.
BugExecuteFails(t) ==
    /\ rpc[t] = "exec"
    /\ PermitFinish(t, "failed")
    /\ effect' = effect \cup {t}
    /\ RunnerGone(t)
    /\ UNCHANGED <<expired, memVars, schedVars, workerVars, callerVars,
                   ctlVars, ledger, histVars>>

\* The service factory or the service call raised before the commit.
ExecuteFails(t) ==
    /\ rpc[t] = "exec"
    /\ PermitFinish(t, "failed")
    /\ RunnerGone(t)
    /\ UNCHANGED <<expired, memVars, schedVars, workerVars, callerVars,
                   ctlVars, dbVars, histVars>>

\* Variant with a plausible bug: the permission does not look at the state.
BugClaimCommit(t) ==
    /\ rpc[t] = "exec"
    /\ perm' = [perm EXCEPT ![t] = "committing"]
    /\ rpc' = [rpc EXCEPT ![t] = "permitted"]
    /\ UNCHANGED <<expired, memVars, schedVars, workerVars, callerVars,
                   ctlVars, dbVars, histVars>>

\* claim_commit() grants the permission.
ClaimCommit(t) ==
    /\ rpc[t] = "exec" /\ perm[t] = "running" /\ t \notin expired
    /\ perm' = [perm EXCEPT ![t] = "committing"]
    /\ rpc' = [rpc EXCEPT ![t] = "permitted"]
    /\ UNCHANGED <<expired, memVars, schedVars, workerVars, callerVars,
                   ctlVars, dbVars, histVars>>

\* claim_commit() refuses: decided already, or the deadline is over.
ClaimRefused(t) ==
    /\ rpc[t] = "exec" /\ (perm[t] # "running" \/ t \in expired)
    /\ perm' = IF perm[t] = "running" THEN [perm EXCEPT ![t] = "timeout"]
                                      ELSE perm
    /\ RunnerGone(t)
    /\ UNCHANGED <<expired, memVars, schedVars, workerVars, callerVars,
                   ctlVars, dbVars, histVars>>

\* service.commit() returned
Commit(t) ==
    /\ rpc[t] = "permitted"
    /\ effect' = effect \cup {t}
    /\ rpc' = [rpc EXCEPT ![t] = "committed"]
    /\ UNCHANGED <<perm, expired, memVars, schedVars, workerVars, callerVars,
                   ctlVars, ledger, histVars>>

FinishCommit(t) ==
    /\ rpc[t] = "committed"
    /\ PermitFinish(t, "completed")
    /\ RunnerGone(t)
    /\ UNCHANGED <<expired, memVars, schedVars, workerVars, callerVars,
                   ctlVars, dbVars, histVars>>

\* service.commit() raised: whether it took effect is not known.
CommitRaises(t) ==
    /\ rpc[t] = "permitted"
    /\ effect' \in {effect, effect \cup {t}}
    /\ perm' = [perm EXCEPT ![t] = "unknown"]
    /\ RunnerGone(t)
    /\ UNCHANGED <<expired, memVars, schedVars, workerVars, callerVars,
                   ctlVars, ledger, histVars>>

\* The thread ends without a result (cancelled at its start, or an exception
\* no handler catches), possibly in the middle of the commit.
RunnerVanishes(t) ==
    /\ rpc[t] \in {"exec", "permitted"}
    /\ effect' \in IF rpc[t] = "permitted" THEN {effect, effect \cup {t}}
                                           ELSE {effect}
    /\ RunnerGone(t)
    /\ UNCHANGED <<perm, expired, memVars, schedVars, workerVars, callerVars,
                   ctlVars, ledger, histVars>>

Runner(t) ==
    \/ ExecuteFails(t) \/ ClaimCommit(t) \/ ClaimRefused(t) \/ Commit(t)
    \/ FinishCommit(t) \/ CommitRaises(t) \/ RunnerVanishes(t)

(***************************************************************************)
(* Clock, shutdown, crash                                                  *)
(***************************************************************************)
DeadlinePasses(w) ==
    /\ wpc[w] \in {"starting", "slot", "join"} /\ wtask[w] \notin expired
    /\ expired' = expired \cup {wtask[w]}
    /\ UNCHANGED <<perm, rpc, memVars, schedVars, workerVars, callerVars,
                   ctlVars, dbVars, histVars>>

ShutdownBegin ==
    /\ ~shutdown /\ shutdown' = TRUE
    /\ UNCHANGED <<ledgerOpen, memVars, schedVars, workerVars, callerVars,
                   runVars, dbVars, histVars>>

\* shutdown(wait=True) after its joins; a join timeout may cut them short.
CloseLedger ==
    /\ shutdown /\ ledgerOpen
    /\ JoinTimeout \/ \A w \in Workers : wpc[w] = "exited"
    /\ ledgerOpen' = FALSE
    /\ UNCHANGED <<shutdown, memVars, schedVars, workerVars, callerVars,
                   runVars, dbVars, histVars>>

(***************************************************************************)
(* _recover_pending_tasks on the ledger as the crash left it               *)
(***************************************************************************)
OpenRows     == {t \in Tasks : ledger[t] \in {"pending", "running", "unknown"}}

\* Variant with a plausible bug: only marked rows fence their agent.
BugFencedAgents == {AgentOf(t) : t \in {u \in Tasks : ledger[u] = "unknown"}}

FencedAgents == {AgentOf(t) : t \in {u \in Tasks :
                                       ledger[u] \in {"running", "unknown"}}}
FencedRows   == {t \in OpenRows : AgentOf(t) \in FencedAgents}
SafeRows     == OpenRows \ FencedRows

\* Rows are read in the order of enqueued_at, wall-clock times taken before
\* the tasks got their identifiers: any order.
RecoveryOrders == Bijection(1 .. Cardinality(SafeRows), SafeRows)

CrashRestart ==
    /\ crashes < MaxCrashes /\ crashes' = crashes + 1
    /\ tasks' = OpenRows
    /\ results' = [t \in Tasks |-> IF t \in FencedRows THEN "unknown" ELSE "none"]
    /\ reported' = [t \in Tasks |-> IF t \in FencedRows
                                    THEN reported[t] \cup {"unknown"}
                                    ELSE reported[t]]
    /\ uncertain' = FencedAgents
    /\ \E marked \in SUBSET FencedRows :
         /\ "unknown" \in FailableOps \/ marked = FencedRows
         /\ ledger' = [t \in Tasks |-> IF t \in marked THEN "unknown"
                                                      ELSE ledger[t]]
    /\ pending' \in RecoveryOrders
    /\ cap' = IF MaxPending > Cardinality(SafeRows)
              THEN MaxPending ELSE Cardinality(SafeRows) + 1
    /\ running' = {} /\ deferred' = [a \in Agents |-> <<>>]
    /\ preclaimed' = [a \in Agents |-> NoTask]
    /\ wpc' = [w \in Workers |-> "idle"] /\ wtask' = [w \in Workers |-> NoTask]
    /\ wout' = [w \in Workers |-> "none"]
    /\ handoff' = [w \in Workers |-> NoTask]
    /\ cpc' = [c \in Callers |-> "idle"] /\ ctask' = [c \in Callers |-> NoTask]
    /\ cjob' = [c \in Callers |-> NoJob]
    /\ perm' = [t \in Tasks |-> "idle"] /\ expired' = {}
    /\ rpc' = [t \in Tasks |-> "none"]
    /\ shutdown' = FALSE /\ ledgerOpen' = TRUE
    /\ UNCHANGED <<effect, job, started, accepted, answered>>

\* Everything admitted has an outcome, nobody is inside enqueue(): the queue
\* rests.  (A deadlock anywhere else is an error.)
Quiescent ==
    /\ \A c \in Callers : cpc[c] = "idle"
    /\ Drained
    /\ UNCHANGED vars

Next ==
    \/ \E c \in Callers : Enqueue(c)
    \/ \E w \in Workers : Worker(w)
    \/ \E t \in Tasks : Runner(t)
    \/ \E w \in Workers : DeadlinePasses(w)
    \/ ShutdownBegin \/ CloseLedger \/ CrashRestart \/ Quiescent

Spec == Init /\ [][Next]_vars

(***************************************************************************)
(* Fairness: threads of the process are scheduled and time passes.  None   *)
(* for the runners (a service call may hang for ever), for calls not yet   *)
(* begun, shutdown() or crashes.                                           *)
(***************************************************************************)
CallerStep(c) ==
    \/ EnqueueReuse(c) \/ EnqueueMiss(c) \/ EnqueueRegister(c)
    \/ EnqueuePersist(c) \/ EnqueuePersistFails(c)
    \/ EnqueueAdmit(c) \/ EnqueueFenced(c) \/ EnqueueFull(c)
    \/ EnqueueRollback(c) \/ EnqueueRollbackFails(c)

Fairness ==
    /\ \A c \in Callers : WF_vars(CallerStep(c))
    /\ \A w \in Workers : WF_vars(Worker(w)) /\ WF_vars(DeadlinePasses(w))

FairSpec == Spec /\ Fairness

(***************************************************************************)
(* Types                                                                   *)
(***************************************************************************)
WorkerPCs == {"idle", "claim", "unknown", "starting", "slot", "join", "publish",
              "error", "record", "finish", "requeue", "exited"}
CallerPCs == {"idle", "dedup", "register", "persist", "admit", "rollback"}
PermStates == {"idle", "running", "committing", "completed", "failed",
               "timeout", "unknown"}
RunnerPCs == {"none", "exec", "permitted", "committed", "gone"}
RowStates == {"absent", "pending", "running", "unknown", "completed", "failed",
              "timeout"}
Jobs == [agent : Agents, kind : Kinds] \cup {NoJob}

\* The types of all variables; a caller or worker that holds a task holds a
\* created one, whose job is known.
TypeOK ==
    /\ tasks \in SUBSET Tasks /\ uncertain \in SUBSET Agents
    /\ results \in [Tasks -> Outcomes \cup {"none"}]
    /\ pending \in Seq(Tasks) /\ cap \in Nat \ {0}
    /\ running \in SUBSET Agents
    /\ deferred \in [Agents -> Seq(Tasks)]
    /\ preclaimed \in [Agents -> MaybeTask]
    /\ wpc \in [Workers -> WorkerPCs] /\ wtask \in [Workers -> MaybeTask]
    /\ wout \in [Workers -> Outcomes \cup {"none"}]
    /\ handoff \in [Workers -> MaybeTask]
    /\ cpc \in [Callers -> CallerPCs] /\ ctask \in [Callers -> MaybeTask]
    /\ cjob \in [Callers -> Jobs]
    /\ perm \in [Tasks -> PermStates] /\ expired \in SUBSET Tasks
    /\ rpc \in [Tasks -> RunnerPCs]
    /\ shutdown \in BOOLEAN /\ ledgerOpen \in BOOLEAN
    /\ ledger \in [Tasks -> RowStates] /\ effect \in SUBSET Tasks
    /\ job \in [Tasks -> Jobs] /\ started \in [Tasks -> Nat]
    /\ reported \in [Tasks -> SUBSET Outcomes]
    /\ accepted \in SUBSET Tasks /\ answered \in SUBSET Tasks
    /\ crashes \in Nat

(***************************************************************************)
(* Safety                                                                  *)
(***************************************************************************)
SameAgent(t, u) == AgentOf(t) = AgentOf(u)

\* One worker at a time supervises a real run of an agent: the claim and the
\* release of _agent_running are single critical sections (A327).
Supervises(w) == wpc[w] \in {"starting", "slot", "join", "publish"}
SerialPerAgent ==
    \A v, w \in Workers :
        Supervises(v) /\ Supervises(w) /\ SameAgent(wtask[v], wtask[w]) => v = w

\* A physical runner outlives its supervisor, but two runners of one agent can
\* never both still reach their final commit.
MayCommit(t) == \/ rpc[t] = "exec" /\ perm[t] = "running"
                \/ rpc[t] = "permitted"
NoOverlappingCommit ==
    \A t, u \in Tasks :
        MayCommit(t) /\ MayCommit(u) /\ SameAgent(t, u) => t = u

\* What _results ever said of a task agrees with the database: "timeout" and
\* "failed" mean the final transaction did not and will not commit, "completed"
\* means it did; at most one of the three is ever said.
VerdictTruthful ==
    \A t \in Tasks :
        /\ reported[t] \cap {"failed", "timeout"} # {} => t \notin effect
        /\ "completed" \in reported[t] => t \in effect
        /\ Cardinality(reported[t] \cap Definite) <= 1

\* A run is not repeated, not even after a crash: the running row written
\* before the runner starts keeps recovery from running the task again.
StartedAtMostOnce == \A t \in Tasks : started[t] <= 1

\* While it is not settled whether a run committed, its row is a restart fence.
UnsettledRunIsFenced ==
    \A t \in Tasks :
        started[t] > 0 /\ reported[t] \cap Definite = {}
          => ledger[t] \in {"running", "unknown"} \cup Definite

\* The places a task without an outcome can be in.
PlacesOf(t) ==
    {<<"pending", i>> : i \in {j \in DOMAIN pending : pending[j] = t}}
    \cup {<<"deferred", i>> :
            i \in {j \in DOMAIN deferred[AgentOf(t)] : deferred[AgentOf(t)][j] = t}}
    \cup {<<"worker", w>> : w \in {v \in Workers : wtask[v] = t}}
    \cup {<<"handoff", w>> : w \in {v \in Workers : handoff[v] = t}}
    \cup {<<"caller", c>> : c \in {d \in Callers : ctask[d] = t}}

\* Nothing registered in _tasks is lost or duplicated on its way through the
\* queue, the deferred lists, a full queue's hand-off and the workers.
InOnePlace ==
    \A t \in Tasks : Live(t) => Cardinality(PlacesOf(t)) = 1

\* A deferred task always has someone who will wake it: a worker or a task on
\* its way that owns the agent's slot and releases it when it finishes.
OwnsSlot(w, a) ==
    /\ wtask[w] # NoTask /\ AgentOf(wtask[w]) = a
    /\ wpc[w] \in {"unknown", "starting", "slot", "join", "publish", "error",
                   "record", "finish", "requeue"}
DeferredHasWaker ==
    \A a \in Agents : deferred[a] # <<>> =>
        \/ \E w \in Workers : OwnsSlot(w, a)
        \/ preclaimed[a] # NoTask /\ Live(preclaimed[a])

\* A task its own enqueue() answered for stays in the ledger until its outcome
\* is recorded, whatever crashes ("tasks survive a process restart").
AcceptedNeverLost ==
    \A t \in accepted : ledger[t] = "absent" =>
        \/ reported[t] # {}
        \/ \E w \in Workers : wtask[w] = t /\ wpc[w] = "record"

\* The same for everybody enqueue() answered "enqueued", the callers merged
\* into somebody else's task included.  It fails: the creator may roll back.
AnsweredNeverLost ==
    \A t \in answered : t \in tasks \/ ledger[t] # "absent" \/ reported[t] # {}

\* Drained workers only exit when nothing accepted is left behind.
ExitLeavesNothing ==
    \A w \in Workers : wpc[w] = "exited" =>
        /\ pending = <<>> /\ \A a \in Agents : deferred[a] = <<>>
        /\ \A v \in Workers : handoff[v] = NoTask

(***************************************************************************)
(* Action properties                                                       *)
(***************************************************************************)
\* No run starts for an agent one of whose tasks was ever reported unknown:
\* that needs a reconciliation, which nothing in the queue performs.
FenceHolds ==
    [][\A t \in Tasks : started'[t] # started[t] =>
          \A u \in Tasks : SameAgent(t, u) => "unknown" \notin reported[u]]_vars

\* Once a timeout or a failure is decided, late runners change no data.
NoLateCommit ==
    [][\A t \in effect' \ effect :
          /\ perm[t] \in {"committing", "unknown"}
          /\ ledger[t] \in {"running", "unknown"}]_vars

(***************************************************************************)
(* Liveness, under FairSpec                                                *)
(***************************************************************************)
\* Every accepted task gets an outcome even if its service call hangs for
\* ever; a crash may leave the outcome to be read from the ledger.
AcceptedGetsOutcome ==
    \A t \in Tasks :
        t \in accepted ~> (reported[t] # {} \/ ledger[t] \in Definite)

\* shutdown(wait=True) returns: every worker drains and exits.
ShutdownReturns ==
    shutdown ~> (~shutdown \/ \A w \in Workers : wpc[w] = "exited")

(***************************************************************************)
(* The inductive invariant of VerificationQueueProofs, in three layers.    *)
(*                                                                         *)
(* Control: what the control points of callers and workers say about the   *)
(* tasks they hold.  A created task has a real agent.                      *)
(***************************************************************************)
Control ==
    /\ \A w \in Workers : wpc[w] \in {"idle", "exited"} <=> wtask[w] = NoTask
    /\ \A w \in Workers : wpc[w] \in {"slot", "join"} => perm[wtask[w]] # "idle"
    /\ \A w \in Workers : wpc[w] = "publish" => wout[w] \in Definite
    /\ \A w \in Workers : wpc[w] = "record" => wout[w] \in Outcomes
    /\ \A w \in Workers : wtask[w] # NoTask => AgentOf(wtask[w]) \in Agents
    /\ \A w \in Workers : handoff[w] # NoTask => AgentOf(handoff[w]) \in Agents
    /\ \A i \in 1 .. Len(pending) : AgentOf(pending[i]) \in Agents
    /\ \A a \in Agents : \A i \in 1 .. Len(deferred[a]) :
          AgentOf(deferred[a][i]) = a
    /\ \A c \in Callers :
         /\ cpc[c] \in {"persist", "admit", "rollback"} <=> ctask[c] # NoTask
         /\ cpc[c] # "idle" => cjob[c] # NoJob
         /\ ctask[c] # NoTask => AgentOf(ctask[c]) \in Agents
    /\ \A t \in Tasks : ledger[t] # "absent" => AgentOf(t) \in Agents
    /\ ~ledgerOpen => shutdown /\ \A w \in Workers : wpc[w] = "exited"

\* No task is in two places: the queue, the deferred lists, the workers, their
\* hand-offs and the callers hold disjoint tasks, each of them once.
InPending(t)  == \E i \in 1 .. Len(pending) : pending[i] = t
InDeferred(t) == \E a \in Agents : \E i \in 1 .. Len(deferred[a]) :
                    deferred[a][i] = t
Held(t) == \/ \E w \in Workers : wtask[w] = t \/ handoff[w] = t
           \/ \E c \in Callers : ctask[c] = t
Unique ==
    /\ \A i, j \in 1 .. Len(pending) : pending[i] = pending[j] => i = j
    /\ \A a \in Agents : \A i, j \in 1 .. Len(deferred[a]) :
          deferred[a][i] = deferred[a][j] => i = j
    /\ \A t \in Tasks : ~(InPending(t) /\ InDeferred(t))
    /\ \A t \in Tasks : InPending(t) \/ InDeferred(t) => ~Held(t)
    /\ \A v, w \in Workers :
         /\ wtask[w] # NoTask => handoff[v] # wtask[w]
         /\ wtask[w] # NoTask /\ wtask[v] = wtask[w] => v = w
         /\ handoff[w] # NoTask /\ handoff[v] = handoff[w] => v = w
    /\ \A c \in Callers : ctask[c] # NoTask =>
         /\ \A w \in Workers : wtask[w] # ctask[c] /\ handoff[w] # ctask[c]
         /\ \A d \in Callers : ctask[d] = ctask[c] => d = c

\* A task that no runner was ever started for and no verdict was given of.
Untouched(t) ==
    /\ started[t] = 0 /\ t \notin effect /\ reported[t] \cap Definite = {}
    /\ rpc[t] = "none" /\ perm[t] = "idle"

\* The run of the task can no longer commit, and did not.
Dead(t) ==
    /\ t \notin effect
    /\ \/ rpc[t] \in {"none", "gone"}
       \/ rpc[t] = "exec" /\ perm[t] = "timeout"

Waiting(t) ==
    \/ InPending(t) \/ InDeferred(t)
    \/ \E w \in Workers : handoff[w] = t
    \/ \E w \in Workers : wtask[w] = t /\ wpc[w] \in {"claim", "requeue", "starting"}

Undecided(t) == reported[t] \cap Definite = {}

\* before its run
WaitingOK(t) == Waiting(t) => Untouched(t) /\ ledger[t] = "pending"
FreshOK(t)   == job[t] = NoJob => Untouched(t) /\ ledger[t] = "absent"
CallerOK(c)  == ctask[c] # NoTask =>
    /\ Untouched(ctask[c])
    /\ ledger[ctask[c]] \in {"absent", "pending"}
    /\ cpc[c] = "admit" /\ ledgerOpen => ledger[ctask[c]] = "pending"

\* under supervision
WorkerOK(w) ==
    LET t == wtask[w] IN
    /\ wpc[w] = "slot" =>
         /\ started[t] = 0 /\ t \notin effect /\ Undecided(t)
         /\ rpc[t] = "none" /\ perm[t] = "running" /\ ledger[t] = "running"
    /\ wpc[w] = "join" => Undecided(t) /\ rpc[t] # "none" /\ ledger[t] = "running"
    /\ wpc[w] \in {"unknown", "publish", "error", "record"} => Undecided(t)
    /\ wpc[w] = "publish" => ledger[t] = "running"
    /\ wpc[w] = "error" => Dead(t)
    /\ wpc[w] \in {"publish", "record"} =>
         /\ wout[w] = "completed" => t \in effect
         /\ wout[w] \in {"failed", "timeout"} => Dead(t)
    /\ wpc[w] = "record" /\ wout[w] \in Definite => ledger[t] # "pending"

\* the permission and the runner
RunOK(t) ==
    /\ rpc[t] = "exec" => t \notin effect /\ perm[t] \in {"running", "timeout"}
    /\ rpc[t] \in {"permitted", "committed"} => perm[t] \in {"committing", "unknown"}
    /\ rpc[t] = "committed" => t \in effect
    /\ perm[t] = "running" => t \notin effect /\ rpc[t] \in {"none", "exec", "gone"}
    /\ perm[t] = "completed" => t \in effect
    /\ perm[t] \in {"failed", "timeout"} => Dead(t)
    /\ rpc[t] # "none" => started[t] > 0 /\ perm[t] # "idle"

\* for ever
HistoryOK(t) ==
    /\ t \in effect => started[t] > 0
    /\ started[t] <= 1
    /\ started[t] > 0 => ledger[t] \notin {"absent", "pending"}
    /\ ~Undecided(t) => ledger[t] # "pending"
    /\ reported[t] \cap {"failed", "timeout"} # {} => Dead(t)
    /\ "completed" \in reported[t] => t \in effect
    /\ \A o, p \in reported[t] \cap Definite : o = p

Stages ==
    /\ \A t \in Tasks : WaitingOK(t) /\ FreshOK(t)
    /\ \A c \in Callers : CallerOK(c)
    /\ \A w \in Workers : WorkerOK(w)
    /\ \A t \in Tasks : RunOK(t)
    /\ \A t \in Tasks : HistoryOK(t)

IInv == TypeOK /\ Control /\ Unique /\ Stages

(***************************************************************************)
(* What the scheduling properties rest on, besides IInv.                   *)
(*                                                                         *)
(* Slots: unless the agent is fenced, its slot has one owner, a worker or  *)
(* the task it was handed to; whoever waits for it has somebody to wait    *)
(* for.  A fenced agent's slot is claimed by anyone, but starts nothing.   *)
(***************************************************************************)
InRun(w) == wpc[w] \in {"starting", "slot", "join", "publish", "error"}
OwnsRun(w, a) ==
    /\ wtask[w] # NoTask /\ AgentOf(wtask[w]) = a
    /\ InRun(w) \/ wpc[w] \in {"unknown", "record", "finish"}
Owned(a) == preclaimed[a] # NoTask \/ \E w \in Workers : OwnsRun(w, a)
Slots ==
    /\ \A w \in Workers : InRun(w) => AgentOf(wtask[w]) \notin uncertain
    /\ \A a \in Agents \ uncertain :
         /\ \A v, w \in Workers : OwnsRun(v, a) /\ OwnsRun(w, a) => v = w
         /\ \A w \in Workers : OwnsRun(w, a) => a \in running /\ preclaimed[a] = NoTask
         /\ preclaimed[a] # NoTask => a \in running
         /\ a \in running => Owned(a)
    /\ \A a \in Agents : deferred[a] # <<>> => Owned(a)

\* A run that may still commit is supervised or its agent is fenced, and its
\* row is there.
Supervised(t) == \E w \in Workers : wtask[w] = t /\ wpc[w] \in {"join", "unknown"}
Runs ==
    /\ \A t \in Tasks : MayCommit(t) =>
         /\ t \notin effect /\ ledger[t] \in {"running", "unknown"}
         /\ AgentOf(t) \in uncertain \/ Supervised(t)
    /\ NoOverlappingCommit

\* What is queued, or held by a caller, has no result yet; the agent's slot is
\* handed to a queued task of its own; nothing is queued once a worker exited.
Queued(t) ==
    \/ InPending(t) \/ InDeferred(t)
    \/ \E w \in Workers : handoff[w] = t
    \/ \E w \in Workers : wtask[w] = t /\ wpc[w] \in {"claim", "requeue"}
Carried == \A w \in Workers : handoff[w] # NoTask => wpc[w] \in {"idle", "exited"}
Waits ==
    /\ Carried
    /\ \A t \in Tasks : Queued(t) => Live(t)
    /\ \A c \in Callers : ctask[c] # NoTask => Live(ctask[c])
    /\ \A t \in Tasks : job[t] = NoJob => t \notin tasks /\ results[t] = "none"
    /\ \A a \in Agents : preclaimed[a] # NoTask =>
         Queued(preclaimed[a]) /\ AgentOf(preclaimed[a]) = a
    /\ \A w \in Workers : wpc[w] = "exited" => shutdown /\ \A t \in Tasks : ~Queued(t)

\* A registered task without a result is somewhere.
Placed ==
    /\ \A t \in Tasks : Live(t) => InPending(t) \/ InDeferred(t) \/ Held(t)
    /\ \A w \in Workers : wpc[w] = "finish" => results[wtask[w]] # "none"

\* The row of an accepted task stays.
Kept ==
    /\ \A t \in accepted : ledger[t] # "absent" /\ job[t] # NoJob
    /\ \A c \in Callers : ctask[c] \notin accepted
    /\ \A w \in Workers : wpc[w] = "error" => ledger[wtask[w]] # "pending"

SchedInv == Slots /\ Runs /\ Waits

\* An agent in doubt stays fenced: whoever said "unknown" fenced it, and one of
\* its rows will fence it again after a crash.
Doubt ==
    /\ \A t \in Tasks : "unknown" \in reported[t] => AgentOf(t) \in uncertain
    /\ \A w \in Workers : wpc[w] = "record" /\ wout[w] = "unknown" =>
         AgentOf(wtask[w]) \in uncertain
    /\ \A w \in Workers : wpc[w] = "unknown" =>
         ledger[wtask[w]] = "running" \/ AgentOf(wtask[w]) \in uncertain
    /\ \A a \in uncertain : \E t \in Tasks :
         AgentOf(t) = a /\ ledger[t] \in {"running", "unknown"}

\* A run begun is settled, in doubt, or still in the hands of its worker; what
\* the worker is about to say is what the row says, if it says anything.
Settled(t) == ~Undecided(t) \/ ledger[t] \in Definite
Settling ==
    /\ \A t \in Tasks : started[t] > 0 =>
         \/ Settled(t) \/ AgentOf(t) \in uncertain
         \/ \E w \in Workers : wtask[w] = t /\
              wpc[w] \in {"join", "unknown", "publish", "error", "record"}
    /\ \A w \in Workers : wpc[w] \in {"unknown", "error"} =>
         ledger[wtask[w]] \notin Definite
    /\ \A w \in Workers : wpc[w] = "record" /\ ledger[wtask[w]] \in Definite =>
         ledger[wtask[w]] = wout[w]

QueueInv == IInv /\ SchedInv /\ Doubt /\ Settling

(***************************************************************************)
(* Refinement.  A verdict is anything _results said or the ledger row says;*)
(* wait() reads the one, and after a restart the other.                    *)
(***************************************************************************)
TaskAgents == [t \in Tasks |-> AgentOf(t)]
Begun      == {t \in Tasks : started[t] > 0}
Verdicts   == [t \in Tasks |-> reported[t] \cup ({ledger[t]} \cap Definite)]

Contract == INSTANCE VerificationContract WITH
    agent <- TaskAgents, begun <- Begun, effect <- effect, verdicts <- Verdicts

\* The queue implements the contract: no interleaving of callers, workers,
\* runners, deadlines, failed ledger writes and crashes makes it lie, run a
\* task twice, or start a run while an earlier one of the agent is in doubt.
ImplementsContract == Contract!Spec
==============================================================================
