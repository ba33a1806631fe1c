----------------------- MODULE VerificationQueueProofs -----------------------
(***************************************************************************)
(* Proofs about VerificationQueue for any number of agents, workers,       *)
(* callers, tasks and crashes.                                             *)
(*                                                                         *)
(* The inductive invariant is QueueInv, each layer proved from the ones    *)
(* before it and each with one lemma for the whole of Next.  IInv is what  *)
(* one task can be in: TypeOK, Control (what a control point says about    *)
(* the task in hand), Unique (no task is in two places) and Stages (what   *)
(* the ledger, the permission and the runner may be at each stage of its   *)
(* life).  SchedInv is how tasks meet: Waits (the queued), Slots (the      *)
(* owner of an agent) and Runs (who may still commit).  Doubt and Settling *)
(* say what the reported outcomes fence and follow from.  Two hypotheses   *)
(* limit it, and TLC shows what happens without them: shutdown() waits for *)
(* its workers (~JoinTimeout), and the catch-all of the worker loop can    *)
(* remove the row of a task that never ran ("purge" does not fail).        *)
(***************************************************************************)
EXTENDS VerificationQueue, TLAPS, FiniteSetTheorems, SequenceTheorems

USE DEF memVars, schedVars, workerVars, callerVars, runVars, ctlVars, dbVars,
        histVars

\* The identifiers are a finite set of positive numbers; 0 is no task.
LEMMA TasksFacts == NoTask \notin Tasks /\ IsFiniteSet(Tasks)
  BY TasksAssumption, FS_Interval DEF Tasks, NoTask

\* A worker inside its loop body holds a task of a real agent.
LEMMA WorkerHolds ==
  ASSUME TypeOK, Control, NEW w \in Workers, wpc[w] \notin {"idle", "exited"}
  PROVE  wtask[w] \in Tasks /\ AgentOf(wtask[w]) \in Agents
  BY DEF TypeOK, Control, MaybeTask

\* A caller past its registration holds a task of a real agent.
LEMMA CallerHolds ==
  ASSUME TypeOK, Control, NEW c \in Callers,
         cpc[c] \in {"persist", "admit", "rollback"}
  PROVE  ctask[c] \in Tasks /\ AgentOf(ctask[c]) \in Agents
  BY DEF TypeOK, Control, MaybeTask

\* A ledger write keeps the type of the ledger.
LEMMA RowType ==
  ASSUME TypeOK, NEW t \in Tasks, NEW s \in RowStates, SetRow(t, s)
  PROVE  ledger' \in [Tasks -> RowStates]
  BY DEF TypeOK, SetRow

\* _unknown_outcome keeps the types of the ledger and of the fences.
LEMMA UnknownType ==
  ASSUME TypeOK, NEW t \in Tasks, UnknownOutcome(t), AgentOf(t) \in Agents
  PROVE  /\ ledger' \in [Tasks -> RowStates]
         /\ uncertain' \in SUBSET Agents
  BY RowType DEF TypeOK, UnknownOutcome, MarkUnknown, SetRow, RowStates

\* What recovery rebuilds from the ledger has the right types, and the queue
\* it fills holds the safe rows, each once.
LEMMA RecoveryType ==
  ASSUME TypeOK, Control, CrashRestart
  PROVE  /\ pending' \in Seq(Tasks) /\ cap' \in Nat \ {0}
         /\ uncertain' \in SUBSET Agents
         /\ tasks' \in SUBSET Tasks
         /\ results' \in [Tasks -> Outcomes \cup {"none"}]
         /\ reported' \in [Tasks -> SUBSET Outcomes]
         /\ ledger' \in [Tasks -> RowStates]
         /\ \A i \in 1 .. Len(pending') : pending'[i] \in SafeRows
         /\ \A i, j \in 1 .. Len(pending') : pending'[i] = pending'[j] => i = j
<1> DEFINE n == Cardinality(SafeRows)
<1>1. SafeRows \subseteq Tasks /\ FencedRows \subseteq Tasks /\ OpenRows \subseteq Tasks
  BY DEF SafeRows, OpenRows, FencedRows
<1>2. IsFiniteSet(SafeRows)
  BY <1>1, TasksFacts, FS_Subset
<1>3. n \in Nat
  BY <1>2, FS_CardinalityType
<1> HIDE DEF n
<1>4. pending' \in [1 .. n -> SafeRows]
      /\ \A i, j \in 1 .. n : pending'[i] = pending'[j] => i = j
  BY DEF CrashRestart, RecoveryOrders, Bijection, Injection, IsInjective, n
<1>5. pending' \in Seq(Tasks) /\ Len(pending') = n
  BY <1>1, <1>3, <1>4
<1>6. cap' \in Nat \ {0}
  BY <1>3, TasksAssumption DEF CrashRestart, n
<1>7. uncertain' \in SUBSET Agents
  BY DEF CrashRestart, FencedAgents, TypeOK, Control
<1>8. /\ tasks' \in SUBSET Tasks
      /\ results' \in [Tasks -> Outcomes \cup {"none"}]
      /\ reported' \in [Tasks -> SUBSET Outcomes]
      /\ ledger' \in [Tasks -> RowStates]
  BY <1>1 DEF CrashRestart, TypeOK, Outcomes, RowStates
<1> QED
  BY <1>1, <1>4, <1>5, <1>6, <1>7, <1>8

\* Recovery rewrites fenced rows only, to unknown.
LEMMA RecoveryRows ==
  ASSUME CrashRestart, NEW t \in Tasks
  PROVE  ledger'[t] = ledger[t] \/ (t \in FencedRows /\ ledger'[t] = "unknown")
  BY DEF CrashRestart

\* Every step of the queue keeps the types.
LEMMA TypeStep == TypeOK /\ Control /\ [Next]_vars => TypeOK'
<1> SUFFICES ASSUME TypeOK, Control, [Next]_vars PROVE TypeOK'
  OBVIOUS
<1> USE TasksFacts
        DEF TypeOK, MaybeTask, WorkerPCs, CallerPCs, PermStates, RunnerPCs, RowStates,
            Outcomes, Definite
<1>1. ASSUME Next PROVE TypeOK'
  <2>1. ASSUME NEW c \in Callers, NEW a \in Agents, NEW k \in Kinds, EnqueueCheck(c, a, k) PROVE TypeOK'
    BY <2>1 DEF EnqueueCheck, Jobs
  <2>2. ASSUME NEW c \in Callers, EnqueueReuse(c) PROVE TypeOK'
    BY <2>2 DEF EnqueueReuse, CallerReturns, Jobs, Reusable
  <2>3. ASSUME NEW c \in Callers, EnqueueMiss(c) PROVE TypeOK'
    BY <2>3 DEF EnqueueMiss
  <2>4. ASSUME NEW c \in Callers, EnqueueRegister(c) PROVE TypeOK'
    BY <2>4 DEF EnqueueRegister, Fresh
  <2>5. ASSUME NEW c \in Callers, EnqueuePersist(c) PROVE TypeOK'
    <3>1. ctask[c] \in Tasks /\ AgentOf(ctask[c]) \in Agents
      BY <2>5, CallerHolds DEF EnqueuePersist, MustRollBack
    <3> QED
      BY <2>5, <3>1, RowType DEF EnqueuePersist, InsertRow, SetRow
  <2>6. ASSUME NEW c \in Callers, EnqueuePersistFails(c) PROVE TypeOK'
    BY <2>6 DEF EnqueuePersistFails, CallerReturns, Jobs
  <2>7. ASSUME NEW c \in Callers, EnqueueAdmit(c) PROVE TypeOK'
    <3>1. ctask[c] \in Tasks /\ AgentOf(ctask[c]) \in Agents
      BY <2>7, CallerHolds DEF EnqueueAdmit, MustRollBack
    <3> QED
      BY <2>7, <3>1, RowType DEF EnqueueAdmit, CallerReturns, Jobs
  <2>8. ASSUME NEW c \in Callers, EnqueueFenced(c) PROVE TypeOK'
    <3>1. ctask[c] \in Tasks /\ AgentOf(ctask[c]) \in Agents
      BY <2>8, CallerHolds DEF EnqueueFenced, MustRollBack
    <3> QED
      BY <2>8, <3>1, UnknownType DEF EnqueueFenced, CallerReturns, Jobs
  <2>9. ASSUME NEW c \in Callers, EnqueueFull(c) PROVE TypeOK'
    BY <2>9 DEF EnqueueFull
  <2>10. ASSUME NEW c \in Callers, EnqueueRollback(c) PROVE TypeOK'
    <3>1. ctask[c] \in Tasks /\ AgentOf(ctask[c]) \in Agents
      BY <2>10, CallerHolds DEF EnqueueRollback, MustRollBack
    <3> QED
      BY <2>10, <3>1, RowType DEF EnqueueRollback, CallerReturns, Jobs, DeleteRow, SetRow, MustRollBack
  <2>11. ASSUME NEW c \in Callers, EnqueueRollbackFails(c) PROVE TypeOK'
    BY <2>11 DEF EnqueueRollbackFails, CallerReturns, Jobs
  <2>12. ASSUME NEW w \in Workers, WorkerExit(w) PROVE TypeOK'
    BY <2>12 DEF WorkerExit, Goto
  <2>13. ASSUME NEW w \in Workers, WorkerTakeHandoff(w) PROVE TypeOK'
    BY <2>13 DEF WorkerTakeHandoff, Goto
  <2>14. ASSUME NEW w \in Workers, WorkerTake(w) PROVE TypeOK'
    BY <2>14 DEF WorkerTake, Goto
  <2>15. ASSUME NEW w \in Workers, WorkerDefer(w) PROVE TypeOK'
    <3>1. wtask[w] \in Tasks /\ AgentOf(wtask[w]) \in Agents
      BY <2>15, WorkerHolds DEF WorkerDefer
    <3> QED
      BY <2>15, <3>1 DEF WorkerDefer, Goto
  <2>16. ASSUME NEW w \in Workers, WorkerClaim(w) PROVE TypeOK'
    <3>1. wtask[w] \in Tasks /\ AgentOf(wtask[w]) \in Agents
      BY <2>16, WorkerHolds DEF WorkerClaim
    <3> QED
      BY <2>16, <3>1 DEF WorkerClaim, Goto, IsPreclaimed
  <2>17. ASSUME NEW w \in Workers, WorkerUnknown(w) PROVE TypeOK'
    <3>1. wtask[w] \in Tasks /\ AgentOf(wtask[w]) \in Agents
      BY <2>17, WorkerHolds DEF WorkerUnknown
    <3> QED
      BY <2>17, <3>1, UnknownType DEF WorkerUnknown, Goto
  <2>18. ASSUME NEW w \in Workers, PersistRunning(w) PROVE TypeOK'
    <3>1. wtask[w] \in Tasks /\ AgentOf(wtask[w]) \in Agents
      BY <2>18, WorkerHolds DEF PersistRunning
    <3> QED
      BY <2>18, <3>1, RowType DEF PersistRunning, Goto, MarkRunning, SetRow
  <2>19. ASSUME NEW w \in Workers, PersistRunningFails(w) PROVE TypeOK'
    <3>1. wtask[w] \in Tasks /\ AgentOf(wtask[w]) \in Agents
      BY <2>19, WorkerHolds DEF PersistRunningFails
    <3> QED
      BY <2>19, <3>1 DEF PersistRunningFails, Goto
  <2>20. ASSUME NEW w \in Workers, StartRunner(w) PROVE TypeOK'
    <3>1. wtask[w] \in Tasks /\ AgentOf(wtask[w]) \in Agents
      BY <2>20, WorkerHolds DEF StartRunner
    <3> QED
      BY <2>20, <3>1 DEF StartRunner, Goto
  <2>21. ASSUME NEW w \in Workers, StartRunnerFails(w) PROVE TypeOK'
    <3>1. wtask[w] \in Tasks /\ AgentOf(wtask[w]) \in Agents
      BY <2>21, WorkerHolds DEF StartRunnerFails
    <3> QED
      BY <2>21, <3>1 DEF StartRunnerFails, Goto
  <2>22. ASSUME NEW w \in Workers, SlotTimeout(w) PROVE TypeOK'
    <3>1. wtask[w] \in Tasks /\ AgentOf(wtask[w]) \in Agents
      BY <2>22, WorkerHolds DEF SlotTimeout
    <3> QED
      BY <2>22, <3>1 DEF SlotTimeout, Goto
  <2>23. ASSUME NEW w \in Workers, Decide(w) PROVE TypeOK'
    <3>1. wtask[w] \in Tasks
      BY <2>23, WorkerHolds DEF Decide
    <3>2. perm[wtask[w]] # "idle"
      BY <2>23 DEF Decide, Control
    <3>3. DecidedState(wtask[w]) \in Outcomes
      BY <3>1, <3>2 DEF DecidedState
    <3>4. PICK d : d = DecidedState(wtask[w])
      OBVIOUS
    <3>5. /\ perm' = [perm EXCEPT ![wtask[w]] = d]
          /\ \/ wpc' = [wpc EXCEPT ![w] = "unknown"] /\ wout' = wout
             \/ wpc' = [wpc EXCEPT ![w] = "publish"] /\ wout' = [wout EXCEPT ![w] = d]
      BY <2>23, <3>4 DEF Decide, Goto
    <3>6. perm' \in [Tasks -> PermStates]
      BY <3>3, <3>4, <3>5 DEF PermStates, Outcomes
    <3>7. wout' \in [Workers -> Outcomes \cup {"none"}]
      BY <3>3, <3>4, <3>5
    <3>8. wpc' \in [Workers -> WorkerPCs]
      <4>1. PICK p \in WorkerPCs : wpc' = [wpc EXCEPT ![w] = p]
        BY <3>5 DEF WorkerPCs
      <4>2. wpc \in [Workers -> WorkerPCs]
        OBVIOUS
      <4> HIDE DEF TypeOK, WorkerPCs
      <4> QED
        BY <4>1, <4>2
    <3> QED
      BY <2>23, <3>6, <3>7, <3>8 DEF Decide
  <2>24. ASSUME NEW w \in Workers, Publish(w) PROVE TypeOK'
    <3>1. wtask[w] \in Tasks /\ wout[w] \in RowStates
      BY <2>24, WorkerHolds DEF Publish, Control
    <3>2. FinishedRow(wtask[w], wout[w]) \in RowStates
      BY <3>1 DEF FinishedRow
    <3>3. ledger' \in [Tasks -> RowStates]
      BY <2>24, <3>1, <3>2, RowType DEF Publish, FinishRow
    <3> QED
      BY <2>24, <3>3 DEF Publish, Goto
  <2>25. ASSUME NEW w \in Workers, PublishFails(w) PROVE TypeOK'
    <3>1. wtask[w] \in Tasks /\ AgentOf(wtask[w]) \in Agents
      BY <2>25, WorkerHolds DEF PublishFails
    <3> QED
      BY <2>25, <3>1 DEF PublishFails, Goto
  <2>26. ASSUME NEW w \in Workers, WorkerError(w) PROVE TypeOK'
    <3>1. wtask[w] \in Tasks /\ AgentOf(wtask[w]) \in Agents
      BY <2>26, WorkerHolds DEF WorkerError
    <3> QED
      BY <2>26, <3>1, RowType DEF WorkerError, Goto, ErrorRow, FinishedRow, SetRow
  <2>27. ASSUME NEW w \in Workers, Record(w) PROVE TypeOK'
    <3>1. wtask[w] \in Tasks /\ wout[w] \in Outcomes
      BY <2>27, WorkerHolds DEF Record, Control
    <3> QED
      BY <2>27, <3>1 DEF Record, Goto
  <2>28. ASSUME NEW w \in Workers, FinishRelease(w) PROVE TypeOK'
    <3>1. wtask[w] \in Tasks /\ AgentOf(wtask[w]) \in Agents
      BY <2>28, WorkerHolds DEF FinishRelease
    <3> QED
      BY <2>28, <3>1 DEF FinishRelease, Goto
  <2>29. ASSUME NEW w \in Workers, FinishHandOver(w) PROVE TypeOK'
    <3>1. wtask[w] \in Tasks /\ AgentOf(wtask[w]) \in Agents
      BY <2>29, WorkerHolds DEF FinishHandOver
    <3> QED
      BY <2>29, <3>1 DEF FinishHandOver, Goto
  <2>30. ASSUME NEW w \in Workers, Requeue(w) PROVE TypeOK'
    <3>1. wtask[w] \in Tasks /\ AgentOf(wtask[w]) \in Agents
      BY <2>30, WorkerHolds DEF Requeue
    <3> QED
      BY <2>30, <3>1 DEF Requeue, Goto
  <2>31. ASSUME NEW w \in Workers, RequeueFull(w) PROVE TypeOK'
    <3>1. wtask[w] \in Tasks /\ AgentOf(wtask[w]) \in Agents
      BY <2>31, WorkerHolds DEF RequeueFull
    <3> QED
      BY <2>31, <3>1 DEF RequeueFull, Goto
  <2>32. ASSUME NEW t \in Tasks, ExecuteFails(t) PROVE TypeOK'
    BY <2>32 DEF ExecuteFails, PermitFinish, RunnerGone
  <2>33. ASSUME NEW t \in Tasks, ClaimCommit(t) PROVE TypeOK'
    BY <2>33 DEF ClaimCommit
  <2>34. ASSUME NEW t \in Tasks, ClaimRefused(t) PROVE TypeOK'
    BY <2>34 DEF ClaimRefused, RunnerGone
  <2>35. ASSUME NEW t \in Tasks, Commit(t) PROVE TypeOK'
    BY <2>35 DEF Commit
  <2>36. ASSUME NEW t \in Tasks, FinishCommit(t) PROVE TypeOK'
    BY <2>36 DEF FinishCommit, PermitFinish, RunnerGone
  <2>37. ASSUME NEW t \in Tasks, CommitRaises(t) PROVE TypeOK'
    BY <2>37 DEF CommitRaises, RunnerGone
  <2>38. ASSUME NEW t \in Tasks, RunnerVanishes(t) PROVE TypeOK'
    BY <2>38 DEF RunnerVanishes, RunnerGone
  <2>39. ASSUME NEW w \in Workers, DeadlinePasses(w) PROVE TypeOK'
    <3>1. wtask[w] \in Tasks /\ AgentOf(wtask[w]) \in Agents
      BY <2>39, WorkerHolds DEF DeadlinePasses
    <3> QED
      BY <2>39, <3>1 DEF DeadlinePasses
  <2>40. CASE ShutdownBegin
    BY <2>40 DEF ShutdownBegin
  <2>41. CASE CloseLedger
    BY <2>41 DEF CloseLedger
  <2>42. CASE CrashRestart
    <3>1. /\ pending' \in Seq(Tasks) /\ cap' \in Nat \ {0}
          /\ uncertain' \in SUBSET Agents /\ tasks' \in SUBSET Tasks
          /\ results' \in [Tasks -> Outcomes \cup {"none"}]
          /\ reported' \in [Tasks -> SUBSET Outcomes]
          /\ ledger' \in [Tasks -> RowStates]
      BY <2>42, RecoveryType
    <3>2. /\ deferred' \in [Agents -> Seq(Tasks)] /\ running' \in SUBSET Agents
          /\ cjob' \in [Callers -> Jobs]
      BY <2>42 DEF CrashRestart, Jobs
    <3>3. crashes' \in Nat
      BY <2>42 DEF CrashRestart
    <3> QED
      BY <2>42, <3>1, <3>2, <3>3 DEF CrashRestart
  <2>43. CASE Quiescent
    BY <2>43 DEF Quiescent, vars
  <2> HIDE DEF TypeOK
  <2> QED
    BY <1>1, <2>1, <2>2, <2>3, <2>4, <2>5, <2>6, <2>7, <2>8, <2>9, <2>10,
       <2>11, <2>12, <2>13, <2>14, <2>15, <2>16, <2>17, <2>18, <2>19, <2>20,
       <2>21, <2>22, <2>23, <2>24, <2>25, <2>26, <2>27, <2>28, <2>29, <2>30,
       <2>31, <2>32, <2>33, <2>34, <2>35, <2>36, <2>37, <2>38, <2>39, <2>40,
       <2>41, <2>42, <2>43
    DEF Next, Enqueue, Worker, Runner
<1>2. CASE UNCHANGED vars
  BY <1>2 DEF vars
<1> HIDE DEF TypeOK
<1> QED
  BY <1>1, <1>2

\* Every step keeps what control points say about the tasks in hand.
LEMMA ControlStep ==
  ASSUME ~JoinTimeout, TypeOK, Control, TypeOK', [Next]_vars
  PROVE  Control'
<1> USE TasksFacts, NoneAssumption DEF Control, AgentOf, NoJob, TypeOK, MaybeTask, Jobs
<1>1. ASSUME Next PROVE Control'
  <2>1. ASSUME NEW c \in Callers, NEW a \in Agents, NEW k \in Kinds, EnqueueCheck(c, a, k) PROVE Control'
    BY <2>1 DEF EnqueueCheck
  <2>2. ASSUME NEW c \in Callers, EnqueueReuse(c) PROVE Control'
    BY <2>2 DEF EnqueueReuse, CallerReturns, Reusable
  <2>3. ASSUME NEW c \in Callers, EnqueueMiss(c) PROVE Control'
    BY <2>3 DEF EnqueueMiss
  <2>4. ASSUME NEW c \in Callers, EnqueueRegister(c) PROVE Control'
    BY <2>4 DEF EnqueueRegister, Fresh
  <2>5. ASSUME NEW c \in Callers, EnqueuePersist(c) PROVE Control'
    <3>1. ctask[c] \in Tasks /\ AgentOf(ctask[c]) \in Agents
      BY <2>5, CallerHolds DEF EnqueuePersist, MustRollBack
    <3> QED
      BY <2>5, <3>1 DEF EnqueuePersist, InsertRow, SetRow
  <2>6. ASSUME NEW c \in Callers, EnqueuePersistFails(c) PROVE Control'
    <3>1. ctask[c] \in Tasks /\ AgentOf(ctask[c]) \in Agents
      BY <2>6, CallerHolds DEF EnqueuePersistFails, MustRollBack
    <3> QED
      BY <2>6, <3>1 DEF EnqueuePersistFails, CallerReturns
  <2>7. ASSUME NEW c \in Callers, EnqueueAdmit(c) PROVE Control'
    <3>1. ctask[c] \in Tasks /\ AgentOf(ctask[c]) \in Agents
      BY <2>7, CallerHolds DEF EnqueueAdmit, MustRollBack
    <3> QED
      BY <2>7, <3>1 DEF EnqueueAdmit, CallerReturns
  <2>8. ASSUME NEW c \in Callers, EnqueueFenced(c) PROVE Control'
    <3>1. ctask[c] \in Tasks /\ AgentOf(ctask[c]) \in Agents
      BY <2>8, CallerHolds DEF EnqueueFenced, MustRollBack
    <3> QED
      BY <2>8, <3>1 DEF EnqueueFenced, CallerReturns, UnknownOutcome, MarkUnknown, SetRow
  <2>9. ASSUME NEW c \in Callers, EnqueueFull(c) PROVE Control'
    <3>1. ctask[c] \in Tasks /\ AgentOf(ctask[c]) \in Agents
      BY <2>9, CallerHolds DEF EnqueueFull, MustRollBack
    <3> QED
      BY <2>9, <3>1 DEF EnqueueFull
  <2>10. ASSUME NEW c \in Callers, EnqueueRollback(c) PROVE Control'
    <3>1. ctask[c] \in Tasks /\ AgentOf(ctask[c]) \in Agents
      BY <2>10, CallerHolds DEF EnqueueRollback, MustRollBack
    <3> QED
      BY <2>10, <3>1 DEF EnqueueRollback, CallerReturns, DeleteRow, SetRow, MustRollBack
  <2>11. ASSUME NEW c \in Callers, EnqueueRollbackFails(c) PROVE Control'
    <3>1. ctask[c] \in Tasks /\ AgentOf(ctask[c]) \in Agents
      BY <2>11, CallerHolds DEF EnqueueRollbackFails, MustRollBack
    <3> QED
      BY <2>11, <3>1 DEF EnqueueRollbackFails, CallerReturns
  <2>12. ASSUME NEW w \in Workers, WorkerExit(w) PROVE Control'
    BY <2>12 DEF WorkerExit, Goto
  <2>13. ASSUME NEW w \in Workers, WorkerTakeHandoff(w) PROVE Control'
    BY <2>13 DEF WorkerTakeHandoff, Goto
  <2>14. ASSUME NEW w \in Workers, WorkerTake(w) PROVE Control'
    BY <2>14 DEF WorkerTake, Goto
  <2>15. ASSUME NEW w \in Workers, WorkerDefer(w) PROVE Control'
    <3>1. wtask[w] \in Tasks /\ AgentOf(wtask[w]) \in Agents
      BY <2>15, WorkerHolds DEF WorkerDefer
    <3> QED
      BY <2>15, <3>1 DEF WorkerDefer, Goto
  <2>16. ASSUME NEW w \in Workers, WorkerClaim(w) PROVE Control'
    <3>1. wtask[w] \in Tasks /\ AgentOf(wtask[w]) \in Agents
      BY <2>16, WorkerHolds DEF WorkerClaim
    <3> QED
      BY <2>16, <3>1 DEF WorkerClaim, Goto, IsPreclaimed
  <2>17. ASSUME NEW w \in Workers, WorkerUnknown(w) PROVE Control'
    <3>1. wtask[w] \in Tasks /\ AgentOf(wtask[w]) \in Agents
      BY <2>17, WorkerHolds DEF WorkerUnknown
    <3> QED
      BY <2>17, <3>1 DEF WorkerUnknown, Goto, UnknownOutcome, MarkUnknown, SetRow
  <2>18. ASSUME NEW w \in Workers, PersistRunning(w) PROVE Control'
    <3>1. wtask[w] \in Tasks /\ AgentOf(wtask[w]) \in Agents
      BY <2>18, WorkerHolds DEF PersistRunning
    <3> QED
      BY <2>18, <3>1 DEF PersistRunning, Goto, MarkRunning, SetRow
  <2>19. ASSUME NEW w \in Workers, PersistRunningFails(w) PROVE Control'
    <3>1. wtask[w] \in Tasks /\ AgentOf(wtask[w]) \in Agents
      BY <2>19, WorkerHolds DEF PersistRunningFails
    <3> QED
      BY <2>19, <3>1 DEF PersistRunningFails, Goto
  <2>20. ASSUME NEW w \in Workers, StartRunner(w) PROVE Control'
    <3>1. wtask[w] \in Tasks /\ AgentOf(wtask[w]) \in Agents
      BY <2>20, WorkerHolds DEF StartRunner
    <3> QED
      BY <2>20, <3>1 DEF StartRunner, Goto
  <2>21. ASSUME NEW w \in Workers, StartRunnerFails(w) PROVE Control'
    <3>1. wtask[w] \in Tasks /\ AgentOf(wtask[w]) \in Agents
      BY <2>21, WorkerHolds DEF StartRunnerFails
    <3> QED
      BY <2>21, <3>1 DEF StartRunnerFails, Goto
  <2>22. ASSUME NEW w \in Workers, SlotTimeout(w) PROVE Control'
    <3>1. wtask[w] \in Tasks /\ AgentOf(wtask[w]) \in Agents
      BY <2>22, WorkerHolds DEF SlotTimeout
    <3> QED
      BY <2>22, <3>1 DEF SlotTimeout, Goto, Definite
  <2>23. ASSUME NEW w \in Workers, Decide(w) PROVE Control'
    <3>1. wtask[w] \in Tasks /\ AgentOf(wtask[w]) \in Agents
      BY <2>23, WorkerHolds DEF Decide
    <3>2. perm[wtask[w]] # "idle"
      BY <2>23 DEF Decide
    <3>3. /\ DecidedState(wtask[w]) # "unknown" => DecidedState(wtask[w]) \in Definite
          /\ DecidedState(wtask[w]) # "idle"
      BY <3>1, <3>2 DEF DecidedState, Definite, PermStates
    <3>4. CASE DecidedState(wtask[w]) = "unknown"
      BY <2>23, <3>1, <3>3, <3>4 DEF Decide, Goto
    <3>5. CASE DecidedState(wtask[w]) # "unknown"
      <4>1. /\ wpc' = [wpc EXCEPT ![w] = "publish"]
            /\ wout' = [wout EXCEPT ![w] = DecidedState(wtask[w])]
        BY <2>23, <3>5 DEF Decide, Goto
      <4> QED
        BY <2>23, <3>1, <3>3, <3>5, <4>1 DEF Decide
    <3> QED
      BY <3>4, <3>5
  <2>24. ASSUME NEW w \in Workers, Publish(w) PROVE Control'
    <3>1. wtask[w] \in Tasks /\ AgentOf(wtask[w]) \in Agents
      BY <2>24, WorkerHolds DEF Publish
    <3> QED
      BY <2>24, <3>1 DEF Publish, Goto, FinishRow, FinishedRow, SetRow, Definite,
            Outcomes
  <2>25. ASSUME NEW w \in Workers, PublishFails(w) PROVE Control'
    <3>1. wtask[w] \in Tasks /\ AgentOf(wtask[w]) \in Agents
      BY <2>25, WorkerHolds DEF PublishFails
    <3> QED
      BY <2>25, <3>1 DEF PublishFails, Goto
  <2>26. ASSUME NEW w \in Workers, WorkerError(w) PROVE Control'
    <3>1. wtask[w] \in Tasks /\ AgentOf(wtask[w]) \in Agents
      BY <2>26, WorkerHolds DEF WorkerError
    <3> QED
      BY <2>26, <3>1 DEF WorkerError, Goto, ErrorRow, FinishedRow, SetRow
  <2>27. ASSUME NEW w \in Workers, Record(w) PROVE Control'
    <3>1. wtask[w] \in Tasks /\ AgentOf(wtask[w]) \in Agents
      BY <2>27, WorkerHolds DEF Record
    <3> QED
      BY <2>27, <3>1 DEF Record, Goto
  <2>28. ASSUME NEW w \in Workers, FinishRelease(w) PROVE Control'
    <3>1. wtask[w] \in Tasks /\ AgentOf(wtask[w]) \in Agents
      BY <2>28, WorkerHolds DEF FinishRelease
    <3>2. /\ wtask' = [wtask EXCEPT ![w] = NoTask] /\ wpc' = [wpc EXCEPT ![w] = "idle"]
          /\ running' = running \ {AgentOf(wtask[w])}
          /\ UNCHANGED <<wout, handoff, memVars, pending, cap, deferred, preclaimed,
                         callerVars, runVars, ctlVars, dbVars, histVars>>
      <4> HIDE DEF TypeOK, Control
      <4> QED
        BY <2>28 DEF FinishRelease, Goto
    <3> QED
      BY <3>1, <3>2
  <2>29. ASSUME NEW w \in Workers, FinishHandOver(w) PROVE Control'
    <3>1. wtask[w] \in Tasks /\ AgentOf(wtask[w]) \in Agents
      BY <2>29, WorkerHolds DEF FinishHandOver
    <3> QED
      BY <2>29, <3>1 DEF FinishHandOver, Goto
  <2>30. ASSUME NEW w \in Workers, Requeue(w) PROVE Control'
    <3>1. wtask[w] \in Tasks /\ AgentOf(wtask[w]) \in Agents
      BY <2>30, WorkerHolds DEF Requeue
    <3> QED
      BY <2>30, <3>1 DEF Requeue, Goto
  <2>31. ASSUME NEW w \in Workers, RequeueFull(w) PROVE Control'
    <3>1. wtask[w] \in Tasks /\ AgentOf(wtask[w]) \in Agents
      BY <2>31, WorkerHolds DEF RequeueFull
    <3> QED
      BY <2>31, <3>1 DEF RequeueFull, Goto
  <2>32. ASSUME NEW t \in Tasks, ExecuteFails(t) PROVE Control'
    BY <2>32 DEF ExecuteFails, PermitFinish, RunnerGone
  <2>33. ASSUME NEW t \in Tasks, ClaimCommit(t) PROVE Control'
    BY <2>33 DEF ClaimCommit
  <2>34. ASSUME NEW t \in Tasks, ClaimRefused(t) PROVE Control'
    BY <2>34 DEF ClaimRefused, RunnerGone
  <2>35. ASSUME NEW t \in Tasks, Commit(t) PROVE Control'
    BY <2>35 DEF Commit
  <2>36. ASSUME NEW t \in Tasks, FinishCommit(t) PROVE Control'
    BY <2>36 DEF FinishCommit, PermitFinish, RunnerGone
  <2>37. ASSUME NEW t \in Tasks, CommitRaises(t) PROVE Control'
    BY <2>37 DEF CommitRaises, RunnerGone
  <2>38. ASSUME NEW t \in Tasks, RunnerVanishes(t) PROVE Control'
    BY <2>38 DEF RunnerVanishes, RunnerGone
  <2>39. ASSUME NEW w \in Workers, DeadlinePasses(w) PROVE Control'
    <3>1. wtask[w] \in Tasks /\ AgentOf(wtask[w]) \in Agents
      BY <2>39, WorkerHolds DEF DeadlinePasses
    <3> QED
      BY <2>39, <3>1 DEF DeadlinePasses
  <2>40. ASSUME ShutdownBegin PROVE Control'
    BY <2>40 DEF ShutdownBegin
  <2>41. ASSUME CloseLedger PROVE Control'
    BY <2>41 DEF CloseLedger
  <2>42. ASSUME CrashRestart PROVE Control'
    <3>1. \A i \in 1 .. Len(pending') : pending'[i] \in Tasks
                                         /\ ledger[pending'[i]] # "absent"
      BY <2>42, RecoveryType DEF SafeRows, OpenRows
    <3>2. \A t \in Tasks : ledger'[t] # "absent" => ledger[t] # "absent"
      BY <2>42, RecoveryRows DEF FencedRows, OpenRows
    <3> QED
      BY <2>42, <3>1, <3>2 DEF CrashRestart
  <2>43. ASSUME Quiescent PROVE Control'
    BY <2>43 DEF Quiescent, vars
  <2> HIDE DEF TypeOK, Control
  <2> QED
    BY <1>1, <2>1, <2>2, <2>3, <2>4, <2>5, <2>6, <2>7, <2>8, <2>9, <2>10,
       <2>11, <2>12, <2>13, <2>14, <2>15, <2>16, <2>17, <2>18, <2>19, <2>20,
       <2>21, <2>22, <2>23, <2>24, <2>25, <2>26, <2>27, <2>28, <2>29, <2>30,
       <2>31, <2>32, <2>33, <2>34, <2>35, <2>36, <2>37, <2>38, <2>39, <2>40,
       <2>41, <2>42, <2>43
    DEF Next, Enqueue, Worker, Runner
<1>2. CASE UNCHANGED vars
  BY <1>2 DEF vars
<1> HIDE DEF TypeOK, Control
<1> QED
  BY <1>1, <1>2

\* The variables that say where tasks are.
places == <<pending, deferred, wtask, handoff, ctask>>

\* A step that moves no task keeps every task in at most one place.
LEMMA UniqueUnchanged ==
  ASSUME Unique, UNCHANGED places
  PROVE  Unique'
  BY DEF Unique, InPending, InDeferred, Held, places

\* A caller, or a worker, lets go of its task.
LEMMA UniqueDropped ==
  ASSUME TypeOK, Unique, UNCHANGED <<pending, deferred, handoff>>,
         \A w \in Workers : wtask'[w] \in {wtask[w], NoTask},
         \A c \in Callers : ctask'[c] \in {ctask[c], NoTask}
  PROVE  Unique'
<1>1. \A x \in Tasks : /\ InPending(x)' <=> InPending(x)
                       /\ InDeferred(x)' <=> InDeferred(x)
                       /\ Held(x)' => Held(x)
  BY TasksFacts DEF InPending, InDeferred, Held
<1> QED
  BY <1>1 DEF Unique

\* Appending and taking the head, in terms of membership.
LEMMA AppendMember ==
  ASSUME NEW S, NEW s \in Seq(S), NEW x \in S, NEW y
  PROVE  (\E i \in 1 .. Len(Append(s, x)) : Append(s, x)[i] = y)
           <=> (\E i \in 1 .. Len(s) : s[i] = y) \/ x = y
<1>1. Len(Append(s, x)) = Len(s) + 1 /\ Len(s) \in Nat
  OBVIOUS
<1>2. \A i \in 1 .. Len(s) : Append(s, x)[i] = s[i]
  OBVIOUS
<1>3. Append(s, x)[Len(s) + 1] = x
  OBVIOUS
<1> QED
  BY <1>1, <1>2, <1>3

\* Appending something new keeps a sequence free of duplicates.
LEMMA AppendKeepsDistinct ==
  ASSUME NEW S, NEW s \in Seq(S), NEW x \in S,
         \A i, j \in 1 .. Len(s) : s[i] = s[j] => i = j,
         \A i \in 1 .. Len(s) : s[i] # x
  PROVE  \A i, j \in 1 .. Len(Append(s, x)) :
            Append(s, x)[i] = Append(s, x)[j] => i = j
<1>1. Len(Append(s, x)) = Len(s) + 1 /\ Len(s) \in Nat
  OBVIOUS
<1>2. \A i \in 1 .. Len(s) : Append(s, x)[i] = s[i]
  OBVIOUS
<1>3. Append(s, x)[Len(s) + 1] = x
  OBVIOUS
<1> QED
  BY <1>1, <1>2, <1>3

\* The tail of a sequence without duplicates: the members but the head.
LEMMA TailFacts ==
  ASSUME NEW S, NEW s \in Seq(S), s # <<>>,
         \A i, j \in 1 .. Len(s) : s[i] = s[j] => i = j
  PROVE  /\ \A i, j \in 1 .. Len(Tail(s)) : Tail(s)[i] = Tail(s)[j] => i = j
         /\ \A y : (\E i \in 1 .. Len(Tail(s)) : Tail(s)[i] = y)
                     <=> (\E i \in 1 .. Len(s) : s[i] = y) /\ y # Head(s)
         /\ \E i \in 1 .. Len(s) : s[i] = Head(s)
         /\ Head(s) \in S
<1>1. Len(s) \in Nat \ {0} /\ Len(Tail(s)) = Len(s) - 1
  OBVIOUS
<1>2. \A i \in 1 .. Len(Tail(s)) : Tail(s)[i] = s[i + 1]
  OBVIOUS
<1>3. Head(s) = s[1] /\ s[1] \in S
  OBVIOUS
<1>4. \A i, j \in 1 .. Len(Tail(s)) : Tail(s)[i] = Tail(s)[j] => i = j
  BY <1>1, <1>2
<1>5. ASSUME NEW y, NEW i \in 1 .. Len(Tail(s)), Tail(s)[i] = y
      PROVE  (\E j \in 1 .. Len(s) : s[j] = y) /\ y # Head(s)
  BY <1>1, <1>2, <1>3, <1>5
<1>6. ASSUME NEW y, NEW i \in 1 .. Len(s), s[i] = y, y # Head(s)
      PROVE  \E j \in 1 .. Len(Tail(s)) : Tail(s)[j] = y
  <2>1. i - 1 \in 1 .. Len(Tail(s))
    BY <1>1, <1>3, <1>6
  <2>2. Tail(s)[i - 1] = s[(i - 1) + 1] /\ (i - 1) + 1 = i
    BY <1>2, <2>1
  <2> QED
    BY <1>6, <2>1, <2>2
<1> QED
  BY <1>1, <1>3, <1>4, <1>5, <1>6

\* Every step keeps every task in at most one place.
LEMMA UniqueStep ==
  ASSUME ~JoinTimeout, TypeOK, Control, Unique, TypeOK', Control', [Next]_vars
  PROVE  Unique'
<1> USE TasksFacts, NoneAssumption
<1>1. CASE UNCHANGED places
  BY <1>1, UniqueUnchanged
<1>2. ASSUME NEW c \in Callers, EnqueueRegister(c) PROVE Unique'
  <2>1. PICK t \in Tasks : Fresh(t) /\ ctask' = [ctask EXCEPT ![c] = t]
    BY <1>2 DEF EnqueueRegister
  <2>2. AgentOf(t) \notin Agents
    BY <2>1 DEF Fresh, NoJob, AgentOf
  <2>3. ~InPending(t) /\ ~InDeferred(t)
    BY <2>2 DEF Control, InPending, InDeferred
  <2>4. ~Held(t)
    BY <2>2 DEF Control, Held
  <2>5. \A x \in Tasks : /\ InPending(x)' <=> InPending(x)
                         /\ InDeferred(x)' <=> InDeferred(x)
                         /\ Held(x)' => Held(x) \/ x = t
    BY <1>2, <2>1 DEF EnqueueRegister, InPending, InDeferred, Held, TypeOK
  <2> QED
    BY <1>2, <2>1, <2>3, <2>4, <2>5
    DEF EnqueueRegister, Unique, Held, TypeOK, MaybeTask
<1>3. ASSUME NEW c \in Callers, CallerReturns(c),
             UNCHANGED <<pending, deferred, wtask, handoff>>
      PROVE  Unique'
  BY <1>3, UniqueDropped DEF CallerReturns, TypeOK
<1>4. ASSUME NEW c \in Callers, EnqueueAdmit(c) PROVE Unique'
  <2> DEFINE t == ctask[c]
  <2>1. t \in Tasks
    BY <1>4, CallerHolds DEF EnqueueAdmit
  <2>2. ~InPending(t) /\ ~InDeferred(t)
    BY <2>1 DEF Unique, Held
  <2>3. /\ \A i, j \in 1 .. Len(pending') : pending'[i] = pending'[j] => i = j
        /\ \A x \in Tasks : InPending(x)' <=> InPending(x) \/ x = t
    BY <1>4, <2>1, <2>2, AppendMember, AppendKeepsDistinct
    DEF EnqueueAdmit, TypeOK, Unique, InPending
  <2>4. \A x \in Tasks : /\ InDeferred(x)' <=> InDeferred(x)
                         /\ Held(x)' => Held(x) /\ x # t
    BY <1>4, <2>1 DEF EnqueueAdmit, CallerReturns, Unique, Held, InDeferred, TypeOK
  <2> QED
    BY <1>4, <2>1, <2>2, <2>3, <2>4
    DEF EnqueueAdmit, CallerReturns, Unique, Held, TypeOK, MaybeTask
<1>5. ASSUME NEW w \in Workers, WorkerTakeHandoff(w) PROVE Unique'
  <2>1. \A x \in Tasks : /\ InPending(x)' <=> InPending(x)
                         /\ InDeferred(x)' <=> InDeferred(x)
                         /\ Held(x)' <=> Held(x)
    BY <1>5 DEF WorkerTakeHandoff, InPending, InDeferred, Held, TypeOK, Control
  <2> QED
    BY <1>5, <2>1 DEF WorkerTakeHandoff, Unique, TypeOK, MaybeTask
<1>6. ASSUME NEW w \in Workers, WorkerTake(w) PROVE Unique'
  <2> DEFINE t == Head(pending)
  <2>1. /\ t \in Tasks /\ InPending(t)
        /\ \A i, j \in 1 .. Len(pending') : pending'[i] = pending'[j] => i = j
        /\ \A x \in Tasks : InPending(x)' <=> InPending(x) /\ x # t
    <3>1. /\ pending \in Seq(Tasks) /\ pending # <<>> /\ pending' = Tail(pending)
          /\ \A i, j \in 1 .. Len(pending) : pending[i] = pending[j] => i = j
      BY <1>6 DEF WorkerTake, TypeOK, Unique
    <3>2. /\ \A i, j \in 1 .. Len(Tail(pending)) :
                Tail(pending)[i] = Tail(pending)[j] => i = j
          /\ \A x : (\E i \in 1 .. Len(Tail(pending)) : Tail(pending)[i] = x)
                <=> (\E i \in 1 .. Len(pending) : pending[i] = x) /\ x # t
          /\ \E i \in 1 .. Len(pending) : pending[i] = t
          /\ t \in Tasks
      BY <3>1, TailFacts
    <3> QED
      BY <3>1, <3>2 DEF InPending
  <2>2. \A x \in Tasks : /\ InDeferred(x)' <=> InDeferred(x)
                         /\ Held(x)' => Held(x) \/ x = t
    BY <1>6, <2>1 DEF WorkerTake, Held, InDeferred, TypeOK
  <2> QED
    BY <1>6, <2>1, <2>2 DEF WorkerTake, Unique, Held, TypeOK, MaybeTask
<1>7. ASSUME NEW w \in Workers, WorkerDefer(w) PROVE Unique'
  <2> DEFINE t == wtask[w]
             b == AgentOf(t)
  <2>1. t \in Tasks /\ b \in Agents
    BY <1>7, WorkerHolds DEF WorkerDefer
  <2>2. ~InPending(t) /\ ~InDeferred(t)
    BY <2>1 DEF Unique, Held
  <2>3. /\ deferred' = [deferred EXCEPT ![b] = Append(deferred[b], t)]
        /\ deferred \in [Agents -> Seq(Tasks)]
    BY <1>7 DEF WorkerDefer, TypeOK
  <2>4. /\ \A a \in Agents : \A i, j \in 1 .. Len(deferred'[a]) :
              deferred'[a][i] = deferred'[a][j] => i = j
        /\ \A x \in Tasks : InDeferred(x)' <=> InDeferred(x) \/ x = t
    BY <2>1, <2>2, <2>3, AppendMember, AppendKeepsDistinct DEF Unique, InDeferred
  <2>5. \A x \in Tasks : /\ InPending(x)' <=> InPending(x)
                         /\ Held(x)' => Held(x) /\ x # t
    BY <1>7, <2>1 DEF WorkerDefer, Unique, Held, InPending, TypeOK
  <2> QED
    BY <1>7, <2>1, <2>2, <2>4, <2>5
    DEF WorkerDefer, Unique, Held, TypeOK, MaybeTask
<1>8. ASSUME NEW w \in Workers, FinishRelease(w) PROVE Unique'
  BY <1>8, UniqueDropped DEF FinishRelease, TypeOK
<1>9. ASSUME NEW w \in Workers, FinishHandOver(w) PROVE Unique'
  <2> DEFINE b == AgentOf(wtask[w])
             t == Head(deferred[b])
  <2>1. b \in Agents
    BY <1>9, WorkerHolds DEF FinishHandOver
  <2>2. /\ deferred' = [deferred EXCEPT ![b] = Tail(deferred[b])]
        /\ deferred \in [Agents -> Seq(Tasks)] /\ deferred[b] # <<>>
    BY <1>9 DEF FinishHandOver, TypeOK
  <2>3. /\ t \in Tasks /\ InDeferred(t) /\ AgentOf(t) = b
        /\ \A i, j \in 1 .. Len(deferred'[b]) :
              deferred'[b][i] = deferred'[b][j] => i = j
        /\ \A x \in Tasks : (\E i \in 1 .. Len(deferred'[b]) : deferred'[b][i] = x)
              <=> (\E i \in 1 .. Len(deferred[b]) : deferred[b][i] = x) /\ x # t
    <3>1. /\ deferred[b] \in Seq(Tasks) /\ deferred'[b] = Tail(deferred[b])
          /\ \A i, j \in 1 .. Len(deferred[b]) :
                deferred[b][i] = deferred[b][j] => i = j
      BY <2>1, <2>2 DEF Unique
    <3>2. PICK i \in 1 .. Len(deferred[b]) : deferred[b][i] = t
      BY <2>2, <3>1, TailFacts
    <3>3. t \in Tasks /\ InDeferred(t) /\ AgentOf(t) = b
      BY <2>1, <3>1, <3>2 DEF InDeferred, Control
    <3>4. deferred[b] # <<>>
      BY <2>2
    <3>5. /\ \A k, l \in 1 .. Len(Tail(deferred[b])) :
                Tail(deferred[b])[k] = Tail(deferred[b])[l] => k = l
          /\ \A x : (\E k \in 1 .. Len(Tail(deferred[b])) : Tail(deferred[b])[k] = x)
                <=> (\E k \in 1 .. Len(deferred[b]) : deferred[b][k] = x) /\ x # t
      BY <3>1, <3>4, TailFacts
    <3> QED
      BY <3>1, <3>3, <3>5
  <2>4. \A x \in Tasks : InDeferred(x)' <=> InDeferred(x) /\ x # t
    <3>1. \A a \in Agents : a # b => deferred'[a] = deferred[a]
      BY <2>1, <2>2
    <3>2. \A a \in Agents : a # b =>
            \A i \in 1 .. Len(deferred[a]) : deferred[a][i] # t
      BY <2>3 DEF Control
    <3> QED
      BY <2>1, <2>3, <3>1, <3>2 DEF InDeferred
  <2>5. \A x \in Tasks : /\ InPending(x)' <=> InPending(x)
                         /\ Held(x)' => Held(x) \/ x = t
    BY <1>9 DEF FinishHandOver, Held, InPending, TypeOK
  <2> QED
    BY <1>9, <2>1, <2>2, <2>3, <2>4, <2>5
    DEF FinishHandOver, Unique, Held, TypeOK, MaybeTask
<1>10. ASSUME NEW w \in Workers, Requeue(w) PROVE Unique'
  <2> DEFINE t == wtask[w]
  <2>1. t \in Tasks
    BY <1>10, WorkerHolds DEF Requeue
  <2>2. ~InPending(t) /\ ~InDeferred(t)
    BY <2>1 DEF Unique, Held
  <2>3. /\ \A i, j \in 1 .. Len(pending') : pending'[i] = pending'[j] => i = j
        /\ \A x \in Tasks : InPending(x)' <=> InPending(x) \/ x = t
    BY <1>10, <2>1, <2>2, AppendMember, AppendKeepsDistinct
    DEF Requeue, TypeOK, Unique, InPending
  <2>4. \A x \in Tasks : /\ InDeferred(x)' <=> InDeferred(x)
                         /\ Held(x)' => Held(x) /\ x # t
    BY <1>10, <2>1 DEF Requeue, Unique, Held, InDeferred, TypeOK
  <2> QED
    BY <1>10, <2>1, <2>2, <2>3, <2>4
    DEF Requeue, Unique, Held, TypeOK, MaybeTask
<1>11. ASSUME NEW w \in Workers, RequeueFull(w) PROVE Unique'
  <2>1. wtask[w] \in Tasks
    BY <1>11, WorkerHolds DEF RequeueFull
  <2>2. \A x \in Tasks : /\ InPending(x)' <=> InPending(x)
                         /\ InDeferred(x)' <=> InDeferred(x)
                         /\ Held(x)' => Held(x)
    BY <1>11, <2>1 DEF RequeueFull, InPending, InDeferred, Held, TypeOK
  <2> QED
    BY <1>11, <2>1, <2>2 DEF RequeueFull, Unique, TypeOK, MaybeTask
<1>12. ASSUME CrashRestart PROVE Unique'
  <2>1. /\ \A i, j \in 1 .. Len(pending') : pending'[i] = pending'[j] => i = j
        /\ \A x \in Tasks : ~InDeferred(x)' /\ ~Held(x)'
    <3>1. \A a \in Agents : deferred'[a] = <<>>
      BY <1>12 DEF CrashRestart
    <3>2. /\ \A w \in Workers : wtask'[w] = NoTask /\ handoff'[w] = NoTask
          /\ \A c \in Callers : ctask'[c] = NoTask
      BY <1>12 DEF CrashRestart
    <3> QED
      BY <1>12, <3>1, <3>2, RecoveryType DEF InDeferred, Held
  <2> QED
    BY <1>12, <2>1 DEF CrashRestart, Unique
<1> QED
  <2>1. ASSUME NEW c \in Callers, Enqueue(c) PROVE Unique'
    <3>1. CASE \E a \in Agents, k \in Kinds : EnqueueCheck(c, a, k)
      BY <3>1, <1>1 DEF EnqueueCheck, places
    <3>2. CASE EnqueueMiss(c) \/ EnqueuePersist(c) \/ EnqueueFull(c)
      BY <3>2, <1>1 DEF EnqueueMiss, EnqueuePersist, EnqueueFull, places
    <3>3. CASE \/ EnqueueReuse(c) \/ EnqueuePersistFails(c) \/ EnqueueFenced(c)
               \/ EnqueueRollback(c) \/ EnqueueRollbackFails(c)
      BY <3>3, <1>3 DEF EnqueueReuse, EnqueuePersistFails, EnqueueFenced,
                        EnqueueRollback, EnqueueRollbackFails
    <3> QED
      BY <2>1, <3>1, <3>2, <3>3, <1>2, <1>4 DEF Enqueue
  <2>2. ASSUME NEW w \in Workers, Worker(w) PROVE Unique'
    <3>1. CASE \/ WorkerExit(w) \/ WorkerClaim(w) \/ WorkerUnknown(w)
               \/ PersistRunning(w) \/ PersistRunningFails(w) \/ StartRunner(w)
               \/ StartRunnerFails(w) \/ SlotTimeout(w)
      BY <3>1, <1>1 DEF WorkerExit, WorkerClaim, WorkerUnknown, PersistRunning,
                        PersistRunningFails, StartRunner, StartRunnerFails,
                        SlotTimeout, places
    <3>2. CASE \/ Decide(w) \/ Publish(w) \/ PublishFails(w) \/ WorkerError(w)
               \/ Record(w)
      BY <3>2, <1>1 DEF Decide, Publish, PublishFails, WorkerError, Record, places
    <3> QED
      BY <2>2, <3>1, <3>2, <1>5, <1>6, <1>7, <1>8, <1>9, <1>10, <1>11 DEF Worker
  <2>3. ASSUME NEW t \in Tasks, Runner(t) PROVE Unique'
    BY <2>3, <1>1 DEF Runner, ExecuteFails, ClaimCommit, ClaimRefused, Commit,
                      FinishCommit, CommitRaises, RunnerVanishes, places
  <2>4. CASE (\E w \in Workers : DeadlinePasses(w)) \/ ShutdownBegin \/ CloseLedger
    BY <2>4, <1>1 DEF DeadlinePasses, ShutdownBegin, CloseLedger, places
  <2>5. CASE Quiescent \/ UNCHANGED vars
    BY <2>5, <1>1 DEF Quiescent, vars, places
  <2> QED
    BY <2>1, <2>2, <2>3, <2>4, <2>5, <1>12 DEF Next

\* A worker's task is nowhere else.
LEMMA WorkerAlone ==
  ASSUME TypeOK, Control, Unique, NEW w \in Workers,
         wpc[w] \notin {"idle", "exited"}
  PROVE  /\ wtask[w] \in Tasks /\ AgentOf(wtask[w]) \in Agents
         /\ \A v \in Workers : wtask[v] = wtask[w] => v = w
         /\ \A v \in Workers : handoff[v] # wtask[w]
         /\ \A c \in Callers : ctask[c] # wtask[w]
         /\ ~InPending(wtask[w]) /\ ~InDeferred(wtask[w])
  BY TasksFacts, WorkerHolds DEF Unique, Held

\* A caller's task is nowhere else.
LEMMA CallerAlone ==
  ASSUME TypeOK, Control, Unique, NEW c \in Callers,
         cpc[c] \in {"persist", "admit", "rollback"}
  PROVE  /\ ctask[c] \in Tasks /\ AgentOf(ctask[c]) \in Agents
         /\ \A w \in Workers : wtask[w] # ctask[c] /\ handoff[w] # ctask[c]
         /\ \A d \in Callers : ctask[d] = ctask[c] => d = c
         /\ ~Waiting(ctask[c])
  BY TasksFacts, CallerHolds DEF Unique, Held, Waiting

\* A worker beyond its claim holds a task that waits no more.
LEMMA NotWaiting ==
  ASSUME TypeOK, Control, Unique, NEW w \in Workers,
         wpc[w] \notin {"idle", "exited", "claim", "requeue", "starting"}
  PROVE  ~Waiting(wtask[w])
  BY WorkerAlone DEF Waiting

(***************************************************************************)
(* Frame: an action that touches the record of one task only (none when t  *)
(* is NoTask) has to be checked for that task, and for the caller or       *)
(* worker it moves.                                                        *)
(***************************************************************************)
SameTask(x) ==
    /\ job'[x] = job[x] /\ ledger'[x] = ledger[x] /\ reported'[x] = reported[x]
    /\ started'[x] = started[x] /\ rpc'[x] = rpc[x] /\ perm'[x] = perm[x]
    /\ x \in effect' <=> x \in effect

TaskOK(x) == WaitingOK(x) /\ FreshOK(x) /\ RunOK(x) /\ HistoryOK(x)

SameCaller(c) == /\ ctask'[c] = ctask[c] /\ cpc'[c] = cpc[c]
                 /\ ledgerOpen' => ledgerOpen
SameWorker(w) == wpc'[w] = wpc[w] /\ wtask'[w] = wtask[w] /\ wout'[w] = wout[w]

\* A step that touches one task, in hands that stay the same, keeps Stages if
\* that task stays right.
LEMMA StagesFrame ==
  ASSUME TypeOK, Control, Stages, NEW t \in MaybeTask,
         \A x \in Tasks : x # t => SameTask(x) /\ (Waiting(x)' => Waiting(x)),
         \A x \in Tasks : x = t => TaskOK(x)',
         \A c \in Callers : CallerOK(c)' \/ (SameCaller(c) /\
                                (ctask[c] # NoTask => ctask[c] # t)),
         \A w \in Workers : WorkerOK(w)' \/ (SameWorker(w) /\
                                (wtask[w] # NoTask => wtask[w] # t))
  PROVE  Stages'
<1> USE DEF Untouched, Undecided, Dead
<1>1. \A x \in Tasks : WaitingOK(x)' /\ FreshOK(x)'
  BY DEF Stages, WaitingOK, FreshOK, SameTask, TaskOK
<1>2. \A x \in Tasks : RunOK(x)' /\ HistoryOK(x)'
  BY DEF Stages, RunOK, HistoryOK, SameTask, TaskOK
<1>3. ASSUME NEW c \in Callers, SameCaller(c), ctask[c] # NoTask => ctask[c] # t
      PROVE  CallerOK(c)'
  <2>1. ctask[c] # NoTask => SameTask(ctask[c])
    BY <1>3 DEF TypeOK, MaybeTask
  <2> QED
    BY <1>3, <2>1 DEF Stages, CallerOK, SameCaller, SameTask
<1>4. ASSUME NEW w \in Workers, SameWorker(w), wtask[w] # NoTask => wtask[w] # t
      PROVE  WorkerOK(w)'
  <2>1. CASE wtask[w] = NoTask
    BY <1>4, <2>1 DEF Control, WorkerOK, SameWorker
  <2>2. CASE wtask[w] # NoTask
    <3>1. SameTask(wtask[w])
      BY <1>4, <2>2 DEF TypeOK, MaybeTask
    <3> QED
      BY <1>4, <2>2, <3>1 DEF Stages, WorkerOK, SameWorker, SameTask
  <2> QED
    BY <2>1, <2>2
<1> QED
  BY <1>1, <1>2, <1>3, <1>4 DEF Stages

\* Actions of a caller.
LEMMA StagesEnqueue ==
  ASSUME TypeOK, Control, Unique, Stages, TypeOK',
         NEW c \in Callers, Enqueue(c)
  PROVE  Stages'
<1> USE TasksFacts
<1>1. ASSUME UNCHANGED <<ledger, reported, started, rpc, perm, effect, job,
                         ledgerOpen, pending, deferred, workerVars>>,
             \A d \in Callers : d # c => cpc'[d] = cpc[d] /\ ctask'[d] = ctask[d],
             CallerOK(c)'
      PROVE  Stages'
  <2>1. \A x \in Tasks : SameTask(x) /\ (Waiting(x)' => Waiting(x))
    BY <1>1 DEF SameTask, Waiting, InPending, InDeferred
  <2>2. \A d \in Callers : CallerOK(d)' \/ SameCaller(d)
    BY <1>1 DEF SameCaller
  <2>3. \A w \in Workers : SameWorker(w)
    BY <1>1 DEF SameWorker
  <2> QED
    BY <2>1, <2>2, <2>3, StagesFrame DEF MaybeTask
<1>2. CASE \/ \E a \in Agents, k \in Kinds : EnqueueCheck(c, a, k)
           \/ EnqueueMiss(c)
  <2>1. CallerOK(c)'
    BY <1>2 DEF EnqueueCheck, EnqueueMiss, CallerOK, Control, TypeOK
  <2> QED
    BY <1>1, <1>2, <2>1 DEF EnqueueCheck, EnqueueMiss, TypeOK
<1>3. CASE EnqueueReuse(c) \/ EnqueuePersistFails(c) \/ EnqueueRollbackFails(c)
  <2>1. CallerOK(c)'
    BY <1>3 DEF EnqueueReuse, EnqueuePersistFails, EnqueueRollbackFails,
                CallerReturns, CallerOK, TypeOK
  <2> QED
    BY <1>1, <1>3, <2>1 DEF EnqueueReuse, EnqueuePersistFails,
       EnqueueRollbackFails, CallerReturns, TypeOK
<1>4. CASE EnqueueFull(c)
  <2>1. CallerOK(c)'
    BY <1>4 DEF EnqueueFull, CallerOK, Stages, TypeOK, Untouched
  <2> QED
    BY <1>1, <1>4, <2>1 DEF EnqueueFull, TypeOK
<1>5. CASE EnqueueRegister(c)
  <2>1. PICK t \in Tasks : /\ Fresh(t) /\ job' = [job EXCEPT ![t] = cjob[c]]
                           /\ ctask' = [ctask EXCEPT ![c] = t]
    BY <1>5 DEF EnqueueRegister
  <2>2. Untouched(t) /\ ledger[t] = "absent"
    BY <2>1 DEF Fresh, Stages, FreshOK
  <2>3. ~Waiting(t)
    BY <2>2 DEF Stages, WaitingOK
  <2>4. \A x \in Tasks : Waiting(x)' => Waiting(x)
    BY <1>5 DEF EnqueueRegister, Waiting, InPending, InDeferred
  <2>5. \A x \in Tasks : x # t => SameTask(x)
    BY <1>5, <2>1 DEF EnqueueRegister, SameTask, TypeOK
  <2>6. TaskOK(t)'
    BY <1>5, <2>2, <2>3, <2>4
    DEF EnqueueRegister, TaskOK, WaitingOK, FreshOK, RunOK, HistoryOK, Stages,
        Untouched, Undecided, Dead
  <2>7. \A d \in Callers : CallerOK(d)'
    BY <1>5, <2>1, <2>2 DEF EnqueueRegister, CallerOK, Untouched, Stages, TypeOK
  <2>8. \A w \in Workers : WorkerOK(w)'
    BY <1>5 DEF EnqueueRegister, WorkerOK, Stages, Undecided, Dead
  <2> QED
    BY <2>4, <2>5, <2>6, <2>7, <2>8, StagesFrame DEF MaybeTask
\* From here on the caller has a task, which nobody else has.
<1>6. ASSUME cpc[c] \in {"persist", "admit", "rollback"},
             NEW t \in Tasks, t = ctask[c],
             UNCHANGED <<started, rpc, perm, effect, job, ledgerOpen, workerVars>>,
             \A d \in Callers : d # c => cpc'[d] = cpc[d] /\ ctask'[d] = ctask[d],
             \A x \in Tasks : x # t =>
                /\ ledger'[x] = ledger[x] /\ reported'[x] = reported[x]
                /\ Waiting(x)' => Waiting(x),
             CallerOK(c)', TaskOK(t)'
      PROVE  Stages'
  <2>1. \A x \in Tasks : x # t => SameTask(x)
    BY <1>6 DEF SameTask
  <2>2. \A d \in Callers : CallerOK(d)' \/
           (SameCaller(d) /\ ctask[d] # t)
    BY <1>6, CallerAlone DEF SameCaller
  <2>3. \A w \in Workers : SameWorker(w) /\ wtask[w] # t
    BY <1>6, CallerAlone DEF SameWorker
  <2> QED
    BY <1>6, <2>1, <2>2, <2>3, StagesFrame DEF MaybeTask
<1>7. ASSUME cpc[c] \in {"persist", "admit", "rollback"}
      PROVE  /\ ctask[c] \in Tasks /\ job[ctask[c]] # NoJob
             /\ Untouched(ctask[c]) /\ ~Waiting(ctask[c])
  BY <1>7, CallerAlone, NoneAssumption DEF Stages, CallerOK, NoJob, AgentOf
<1>8. CASE EnqueuePersist(c)
  <2>0. PICK t \in Tasks : t = ctask[c]
    BY <1>7, <1>8 DEF EnqueuePersist, EnqueueAdmit, EnqueueFenced, EnqueueRollback,
                      MustRollBack
  <2>1. CallerOK(c)'
    BY <2>0, <1>7, <1>8 DEF EnqueuePersist, InsertRow, SetRow, CallerOK, Stages,
                      Untouched, TypeOK
  <2>2. \A x \in Tasks : Waiting(x)' => Waiting(x)
    BY <1>8 DEF EnqueuePersist, Waiting, InPending, InDeferred
  <2>3. TaskOK(t)'
    BY <2>0, <1>7, <1>8, <2>2
    DEF EnqueuePersist, InsertRow, SetRow, TaskOK, WaitingOK, FreshOK, RunOK,
        HistoryOK, Stages, Untouched, Undecided, Dead, TypeOK
  <2> QED
    BY <2>0, <1>6, <1>7, <1>8, <2>1, <2>2, <2>3 DEF EnqueuePersist, InsertRow, SetRow, TypeOK
<1>9. CASE EnqueueAdmit(c)
  <2>0. PICK t \in Tasks : t = ctask[c]
    BY <1>7, <1>9 DEF EnqueuePersist, EnqueueAdmit, EnqueueFenced, EnqueueRollback,
                      MustRollBack
  <2>1. CallerOK(c)'
    BY <1>9 DEF EnqueueAdmit, CallerReturns, CallerOK, TypeOK
  <2>2. \A x \in Tasks : x # t => (Waiting(x)' => Waiting(x))
    BY <2>0, <1>7, <1>9, AppendMember
    DEF EnqueueAdmit, Waiting, InPending, InDeferred, TypeOK
  <2>3. ledger[t] = "pending"
    BY <2>0, <1>7, <1>9, TasksFacts DEF EnqueueAdmit, Control, Stages, CallerOK
  <2>4. TaskOK(t)'
    BY <2>0, <1>7, <1>9, <2>3
    DEF EnqueueAdmit, TaskOK, WaitingOK, FreshOK, RunOK, HistoryOK, Stages,
        Untouched, Undecided, Dead
  <2> QED
    BY <2>0, <1>6, <1>7, <1>9, <2>1, <2>2, <2>4 DEF EnqueueAdmit, CallerReturns, TypeOK
<1>10. CASE EnqueueFenced(c)
  <2>0. PICK t \in Tasks : t = ctask[c]
    BY <1>7, <1>10 DEF EnqueuePersist, EnqueueAdmit, EnqueueFenced, EnqueueRollback,
                      MustRollBack
  <2>1. CallerOK(c)'
    BY <1>10 DEF EnqueueFenced, CallerReturns, CallerOK, TypeOK
  <2>2. \A x \in Tasks : Waiting(x)' => Waiting(x)
    BY <1>10 DEF EnqueueFenced, Waiting, InPending, InDeferred
  <2>3. ledger'[t] = ledger[t] \/ ledger'[t] = "unknown"
    BY <2>0, <1>7, <1>10 DEF EnqueueFenced, UnknownOutcome, MarkUnknown, SetRow, TypeOK
  <2>4. TaskOK(t)'
    BY <2>0, <1>7, <1>10, <2>2, <2>3
    DEF EnqueueFenced, TaskOK, WaitingOK, FreshOK, RunOK, HistoryOK, Stages,
        Untouched, Undecided, Dead, Definite, TypeOK
  <2>5. \A x \in Tasks : x # t =>
           ledger'[x] = ledger[x] /\ reported'[x] = reported[x]
    BY <2>0, <1>7, <1>10 DEF EnqueueFenced, UnknownOutcome, MarkUnknown, SetRow, TypeOK
  <2> QED
    BY <2>0, <1>6, <1>7, <1>10, <2>1, <2>2, <2>4, <2>5
    DEF EnqueueFenced, CallerReturns, TypeOK
<1>11. CASE EnqueueRollback(c)
  <2>0. PICK t \in Tasks : t = ctask[c]
    BY <1>7, <1>11 DEF EnqueuePersist, EnqueueAdmit, EnqueueFenced, EnqueueRollback,
                      MustRollBack
  <2>1. CallerOK(c)'
    BY <1>11 DEF EnqueueRollback, CallerReturns, CallerOK, TypeOK
  <2>2. \A x \in Tasks : Waiting(x)' => Waiting(x)
    BY <1>11 DEF EnqueueRollback, Waiting, InPending, InDeferred
  <2>3. TaskOK(t)'
    BY <2>0, <1>7, <1>11, <2>2
    DEF EnqueueRollback, MustRollBack, DeleteRow, SetRow, TaskOK, WaitingOK,
        FreshOK, RunOK, HistoryOK, Stages, Untouched, Undecided, Dead, TypeOK
  <2> QED
    BY <2>0, <1>6, <1>7, <1>11, <2>1, <2>2, <2>3
    DEF EnqueueRollback, MustRollBack, DeleteRow, SetRow, CallerReturns, TypeOK
<1> QED
  BY <1>2, <1>3, <1>4, <1>5, <1>8, <1>9, <1>10, <1>11 DEF Enqueue

\* Actions of a worker: those that only move tasks and control, and those that
\* touch the record of the worker's own task.
LEMMA StagesWorker ==
  ASSUME "purge" \notin FailableOps, TypeOK, Control, Unique, Stages, TypeOK',
         NEW w \in Workers, Worker(w)
  PROVE  Stages'
<1> USE TasksFacts
<1>1. ASSUME UNCHANGED <<ledger, reported, started, rpc, perm, effect, job,
                         ledgerOpen, callerVars>>,
             \A x \in Tasks : Waiting(x)' => Waiting(x),
             \A v \in Workers : v # w => SameWorker(v),
             WorkerOK(w)'
      PROVE  Stages'
  <2>1. \A x \in Tasks : SameTask(x)
    BY <1>1 DEF SameTask
  <2>2. \A c \in Callers : SameCaller(c)
    BY <1>1 DEF SameCaller
  <2> QED
    BY <1>1, <2>1, <2>2, StagesFrame DEF MaybeTask
<1>2. CASE WorkerExit(w)
  <2>1. \A x \in Tasks : Waiting(x)' => Waiting(x)
    BY <1>2 DEF WorkerExit, Goto, Waiting, InPending, InDeferred, TypeOK
  <2>2. WorkerOK(w)'
    BY <1>2 DEF WorkerExit, Goto, WorkerOK, TypeOK
  <2> QED
    BY <1>1, <1>2, <2>1, <2>2 DEF WorkerExit, Goto, SameWorker, TypeOK
<1>3. CASE WorkerTakeHandoff(w)
  <2>1. \A x \in Tasks : Waiting(x)' => Waiting(x)
    BY <1>3 DEF WorkerTakeHandoff, Goto, Waiting, InPending, InDeferred, TypeOK
  <2>2. WorkerOK(w)'
    BY <1>3 DEF WorkerTakeHandoff, Goto, WorkerOK, TypeOK
  <2> QED
    BY <1>1, <1>3, <2>1, <2>2 DEF WorkerTakeHandoff, Goto, SameWorker, TypeOK
<1>4. CASE WorkerTake(w)
  <2>1. /\ \A x \in Tasks : InPending(x)' => InPending(x)
        /\ \A x \in Tasks : x = Head(pending) => InPending(x)
    <3>1. pending \in Seq(Tasks) /\ pending # <<>> /\ pending' = Tail(pending)
          /\ \A i, j \in 1 .. Len(pending) : pending[i] = pending[j] => i = j
      BY <1>4 DEF WorkerTake, TypeOK, Unique
    <3>2. /\ \A x : (\E i \in 1 .. Len(Tail(pending)) : Tail(pending)[i] = x)
                => (\E i \in 1 .. Len(pending) : pending[i] = x)
          /\ \E i \in 1 .. Len(pending) : pending[i] = Head(pending)
      BY <3>1, TailFacts
    <3> QED
      BY <3>1, <3>2 DEF InPending
  <2>2. \A x \in Tasks : Waiting(x)' => Waiting(x)
    BY <1>4, <2>1 DEF WorkerTake, Goto, Waiting, InDeferred, TypeOK
  <2>3. WorkerOK(w)'
    BY <1>4 DEF WorkerTake, Goto, WorkerOK, TypeOK
  <2> QED
    BY <1>1, <1>4, <2>2, <2>3 DEF WorkerTake, Goto, SameWorker, TypeOK
<1>5. CASE WorkerDefer(w)
  <2>0. PICK t \in Tasks : t = wtask[w] /\ AgentOf(t) \in Agents
    BY <1>5, WorkerAlone DEF WorkerDefer
  <2>1. /\ deferred' = [deferred EXCEPT ![AgentOf(t)] = Append(deferred[AgentOf(t)], t)]
        /\ deferred \in [Agents -> Seq(Tasks)]
    BY <1>5, <2>0 DEF WorkerDefer, TypeOK
  <2>2. \A x \in Tasks : InDeferred(x)' => InDeferred(x) \/ x = t
    BY <2>0, <2>1, AppendMember DEF InDeferred
  <2>3. \A x \in Tasks : Waiting(x)' => Waiting(x)
    BY <1>5, <2>0, <2>2 DEF WorkerDefer, Goto, Waiting, InPending, TypeOK
  <2>4. WorkerOK(w)'
    BY <1>5 DEF WorkerDefer, Goto, WorkerOK, TypeOK
  <2> QED
    BY <1>1, <1>5, <2>3, <2>4 DEF WorkerDefer, Goto, SameWorker, TypeOK
<1>6. CASE WorkerClaim(w)
  <2>1. \A x \in Tasks : Waiting(x)' => Waiting(x)
    BY <1>6 DEF WorkerClaim, Goto, Waiting, InPending, InDeferred, TypeOK
  <2>2. Untouched(wtask[w])
    BY <1>6, WorkerAlone DEF WorkerClaim, Stages, WaitingOK, Waiting
  <2>3. WorkerOK(w)'
    BY <1>6, <2>2 DEF WorkerClaim, Goto, WorkerOK, Untouched, Undecided, TypeOK
  <2> QED
    BY <1>1, <1>6, <2>1, <2>3 DEF WorkerClaim, Goto, SameWorker, TypeOK
<1>7. CASE PersistRunningFails(w)
  <2>1. \A x \in Tasks : Waiting(x)' => Waiting(x)
    BY <1>7 DEF PersistRunningFails, Goto, Waiting, InPending, InDeferred, TypeOK
  <2>2. Untouched(wtask[w])
    BY <1>7, WorkerAlone DEF PersistRunningFails, Stages, WaitingOK, Waiting
  <2>3. WorkerOK(w)'
    BY <1>7, <2>2
    DEF PersistRunningFails, Goto, WorkerOK, Untouched, Undecided, Dead, TypeOK
  <2> QED
    BY <1>1, <1>7, <2>1, <2>3 DEF PersistRunningFails, Goto, SameWorker, TypeOK
<1>8. CASE StartRunnerFails(w)
  <2>1. \A x \in Tasks : Waiting(x)' => Waiting(x)
    BY <1>8 DEF StartRunnerFails, Goto, Waiting, InPending, InDeferred, TypeOK
  <2>2. WorkerOK(w)'
    BY <1>8 DEF StartRunnerFails, Goto, Stages, WorkerOK, Undecided, Dead, TypeOK
  <2> QED
    BY <1>1, <1>8, <2>1, <2>2 DEF StartRunnerFails, Goto, SameWorker, TypeOK
<1>9. CASE PublishFails(w)
  <2>1. \A x \in Tasks : Waiting(x)' => Waiting(x)
    BY <1>9 DEF PublishFails, Goto, Waiting, InPending, InDeferred, TypeOK
  <2>2. wout[w] \in Definite
    BY <1>9 DEF PublishFails, Control
  <2>3. WorkerOK(w)'
    BY <1>9, <2>2
    DEF PublishFails, Goto, Stages, WorkerOK, Undecided, Dead, Definite, TypeOK
  <2> QED
    BY <1>1, <1>9, <2>1, <2>3 DEF PublishFails, Goto, SameWorker, TypeOK
<1>10. CASE FinishRelease(w)
  <2>1. \A x \in Tasks : Waiting(x)' => Waiting(x)
    BY <1>10 DEF FinishRelease, Goto, Waiting, InPending, InDeferred, TypeOK
  <2>2. WorkerOK(w)'
    BY <1>10 DEF FinishRelease, Goto, WorkerOK, TypeOK
  <2> QED
    BY <1>1, <1>10, <2>1, <2>2 DEF FinishRelease, Goto, SameWorker, TypeOK
<1>11. CASE FinishHandOver(w)
  <2>0. PICK a \in Agents : a = AgentOf(wtask[w])
    BY <1>11, WorkerAlone DEF FinishHandOver
  <2>1. /\ \A x \in Tasks : InDeferred(x)' => InDeferred(x)
        /\ \A x \in Tasks : x = Head(deferred[a]) => InDeferred(x)
    <3>1. /\ deferred[a] \in Seq(Tasks) /\ deferred[a] # <<>>
          /\ deferred' = [deferred EXCEPT ![a] = Tail(deferred[a])]
          /\ deferred \in [Agents -> Seq(Tasks)]
          /\ \A i, j \in 1 .. Len(deferred[a]) :
                deferred[a][i] = deferred[a][j] => i = j
      BY <1>11, <2>0 DEF FinishHandOver, TypeOK, Unique
    <3>2. /\ \A x : (\E i \in 1 .. Len(Tail(deferred[a])) : Tail(deferred[a])[i] = x)
                => (\E i \in 1 .. Len(deferred[a]) : deferred[a][i] = x)
          /\ \E i \in 1 .. Len(deferred[a]) : deferred[a][i] = Head(deferred[a])
      BY <3>1, TailFacts
    <3> QED
      BY <3>1, <3>2 DEF InDeferred
  <2>2. \A x \in Tasks : Waiting(x)' => Waiting(x)
    BY <1>11, <2>0, <2>1 DEF FinishHandOver, Goto, Waiting, InPending, TypeOK
  <2>3. WorkerOK(w)'
    BY <1>11 DEF FinishHandOver, Goto, WorkerOK, TypeOK
  <2> QED
    BY <1>1, <1>11, <2>2, <2>3 DEF FinishHandOver, Goto, SameWorker, TypeOK
<1>12. CASE Requeue(w)
  <2>0. PICK t \in Tasks : t = wtask[w]
    BY <1>12, WorkerAlone DEF Requeue
  <2>1. \A x \in Tasks : InPending(x)' => InPending(x) \/ x = t
    BY <1>12, <2>0, AppendMember DEF Requeue, InPending, TypeOK
  <2>2. \A x \in Tasks : Waiting(x)' => Waiting(x)
    BY <1>12, <2>0, <2>1 DEF Requeue, Goto, Waiting, InDeferred, TypeOK
  <2>3. WorkerOK(w)'
    BY <1>12 DEF Requeue, Goto, WorkerOK, TypeOK
  <2> QED
    BY <1>1, <1>12, <2>2, <2>3 DEF Requeue, Goto, SameWorker, TypeOK
<1>13. CASE RequeueFull(w)
  <2>1. \A x \in Tasks : Waiting(x)' => Waiting(x)
    BY <1>13 DEF RequeueFull, Goto, Waiting, InPending, InDeferred, TypeOK
  <2>2. WorkerOK(w)'
    BY <1>13 DEF RequeueFull, Goto, WorkerOK, TypeOK
  <2> QED
    BY <1>1, <1>13, <2>1, <2>2 DEF RequeueFull, Goto, SameWorker, TypeOK
\* From here on the record of the worker's task changes; nobody else has it.
<1>14. ASSUME wpc[w] \notin {"idle", "exited"}, NEW t \in Tasks, t = wtask[w],
              UNCHANGED <<job, effect, ledgerOpen, callerVars>>,
              \A x \in Tasks : x # t =>
                 /\ ledger'[x] = ledger[x] /\ reported'[x] = reported[x]
                 /\ started'[x] = started[x] /\ rpc'[x] = rpc[x]
                 /\ perm'[x] = perm[x],
              \A x \in Tasks : Waiting(x)' => Waiting(x),
              \A v \in Workers : v # w => SameWorker(v),
              WorkerOK(w)', TaskOK(t)'
       PROVE  Stages'
  <2>1. \A x \in Tasks : x # t => SameTask(x)
    BY <1>14 DEF SameTask
  <2>2. \A c \in Callers : SameCaller(c) /\ ctask[c] # t
    BY <1>14, WorkerAlone DEF SameCaller
  <2>3. \A v \in Workers : WorkerOK(v)' \/ (SameWorker(v) /\ wtask[v] # t)
    BY <1>14, WorkerAlone
  <2> QED
    BY <1>14, <2>1, <2>2, <2>3, StagesFrame DEF MaybeTask
<1>15. ASSUME wpc[w] \notin {"idle", "exited"}
       PROVE  /\ ledgerOpen
              /\ \E t \in Tasks : /\ t = wtask[w] /\ AgentOf(t) \in Agents
                                  /\ job[t] # NoJob
  BY <1>15, WorkerAlone, NoneAssumption DEF Control, NoJob, AgentOf
<1>16. CASE WorkerUnknown(w)
  <2>0. PICK t \in Tasks : t = wtask[w] /\ AgentOf(t) \in Agents /\ job[t] # NoJob
    BY <1>15, <1>16 DEF WorkerUnknown
  <2>1. ~Waiting(t)
    BY <1>16, <2>0, NotWaiting DEF WorkerUnknown
  <2>2. \A x \in Tasks : Waiting(x)' => Waiting(x)
    BY <1>16 DEF WorkerUnknown, Goto, Waiting, InPending, InDeferred, TypeOK
  <2>3. /\ \/ ledger'[t] = ledger[t]
           \/ (ledger'[t] = "unknown" /\ ledger[t] # "absent")
        /\ \A x \in Tasks : x # t => ledger'[x] = ledger[x]
    <3>1. ledger' = ledger \/ (ledger' = [ledger EXCEPT ![t] = "unknown"]
                               /\ ledger[t] # "absent")
      BY <1>16, <2>0 DEF WorkerUnknown, UnknownOutcome, MarkUnknown, SetRow
    <3>2. ledger \in [Tasks -> RowStates]
      BY DEF TypeOK
    <3> QED
      BY <2>0, <3>1, <3>2
  <2>4. WorkerOK(w)'
    BY <1>16, <2>0
    DEF WorkerUnknown, Goto, Stages, WorkerOK, Undecided, Definite, TypeOK
  <2>5. TaskOK(t)'
    BY <1>16, <2>0, <2>1, <2>2, <2>3
    DEF WorkerUnknown, TaskOK, WaitingOK, FreshOK, RunOK, HistoryOK, Stages,
        Untouched, Undecided, Dead
  <2> QED
    BY <1>14, <1>16, <2>0, <2>2, <2>3, <2>4, <2>5
    DEF WorkerUnknown, Goto, SameWorker, TypeOK
<1>17. CASE PersistRunning(w)
  <2>0. PICK t \in Tasks : t = wtask[w] /\ AgentOf(t) \in Agents /\ job[t] # NoJob
    BY <1>15, <1>17 DEF PersistRunning
  <2>1. Untouched(t) /\ ledger[t] = "pending" /\ ledgerOpen
    BY <1>15, <1>17, <2>0 DEF PersistRunning, Stages, WaitingOK, Waiting
  <2>2. ~Waiting(t)'
    <3>1. ~InPending(t)' /\ ~InDeferred(t)'
      BY <1>17, <2>0, WorkerAlone DEF PersistRunning, InPending, InDeferred
    <3>2. /\ \A v \in Workers : handoff'[v] # t
          /\ \A v \in Workers : wtask'[v] = t => wpc'[v] = "slot"
      BY <1>17, <2>0, WorkerAlone DEF PersistRunning, Goto, TypeOK
    <3> QED
      BY <3>1, <3>2 DEF Waiting
  <2>3. \A x \in Tasks : Waiting(x)' => Waiting(x)
    BY <1>17 DEF PersistRunning, Goto, Waiting, InPending, InDeferred, TypeOK
  <2>4. /\ ledger' = [ledger EXCEPT ![t] = "running"]
        /\ perm' = [perm EXCEPT ![t] = "running"]
    BY <1>17, <2>0, <2>1 DEF PersistRunning, MarkRunning, SetRow
  <2>5. WorkerOK(w)'
    BY <1>17, <2>0, <2>1, <2>4
    DEF PersistRunning, Goto, WorkerOK, Untouched, Undecided, TypeOK
  <2>6. TaskOK(t)'
    BY <1>17, <2>0, <2>1, <2>2, <2>4
    DEF PersistRunning, TaskOK, WaitingOK, FreshOK, RunOK, HistoryOK, Stages,
        Untouched, Undecided, Dead, Definite, TypeOK
  <2> QED
    BY <1>14, <1>17, <2>0, <2>3, <2>4, <2>5, <2>6
    DEF PersistRunning, Goto, SameWorker, TypeOK
<1>18. CASE StartRunner(w)
  <2>0. PICK t \in Tasks : t = wtask[w] /\ AgentOf(t) \in Agents /\ job[t] # NoJob
    BY <1>15, <1>18 DEF StartRunner
  <2>1. ~Waiting(t)
    BY <1>18, <2>0, NotWaiting DEF StartRunner
  <2>2. \A x \in Tasks : Waiting(x)' => Waiting(x)
    BY <1>18 DEF StartRunner, Goto, Waiting, InPending, InDeferred, TypeOK
  <2>3. /\ started[t] = 0 /\ t \notin effect /\ Undecided(t) /\ rpc[t] = "none"
        /\ perm[t] = "running" /\ ledger[t] = "running"
    BY <1>18, <2>0 DEF StartRunner, Stages, WorkerOK
  <2>4. /\ rpc' = [rpc EXCEPT ![t] = "exec"]
        /\ started' = [started EXCEPT ![t] = started[t] + 1]
    BY <1>18, <2>0 DEF StartRunner
  <2>5. WorkerOK(w)'
    BY <1>18, <2>0, <2>3, <2>4 DEF StartRunner, Goto, WorkerOK, Undecided, TypeOK
  <2>6. TaskOK(t)'
    BY <1>18, <2>0, <2>1, <2>2, <2>3, <2>4
    DEF StartRunner, TaskOK, WaitingOK, FreshOK, RunOK, HistoryOK,
        Undecided, Dead, Definite, Stages, TypeOK
  <2> QED
    BY <1>14, <1>18, <2>0, <2>2, <2>4, <2>5, <2>6
    DEF StartRunner, Goto, SameWorker, TypeOK
<1>19. CASE SlotTimeout(w)
  <2>0. PICK t \in Tasks : t = wtask[w] /\ AgentOf(t) \in Agents /\ job[t] # NoJob
    BY <1>15, <1>19 DEF SlotTimeout
  <2>1. ~Waiting(t)
    BY <1>19, <2>0, NotWaiting DEF SlotTimeout
  <2>2. \A x \in Tasks : Waiting(x)' => Waiting(x)
    BY <1>19 DEF SlotTimeout, Goto, Waiting, InPending, InDeferred, TypeOK
  <2>3. /\ started[t] = 0 /\ t \notin effect /\ Undecided(t) /\ rpc[t] = "none"
        /\ perm[t] = "running" /\ ledger[t] = "running"
    BY <1>19, <2>0 DEF SlotTimeout, Stages, WorkerOK
  <2>4. WorkerOK(w)'
    BY <1>19, <2>0, <2>3
    DEF SlotTimeout, Goto, WorkerOK, Undecided, Dead, TypeOK
  <2>5. TaskOK(t)'
    BY <1>19, <2>0, <2>1, <2>2, <2>3
    DEF SlotTimeout, TaskOK, WaitingOK, FreshOK, RunOK, HistoryOK,
        Undecided, Dead, Definite, Stages, TypeOK
  <2> QED
    BY <1>14, <1>19, <2>0, <2>2, <2>4, <2>5
    DEF SlotTimeout, Goto, SameWorker, TypeOK
<1>20. CASE Decide(w)
  <2>0. PICK t \in Tasks : t = wtask[w] /\ AgentOf(t) \in Agents /\ job[t] # NoJob
    BY <1>15, <1>20 DEF Decide
  <2>1. ~Waiting(t)
    BY <1>20, <2>0, NotWaiting DEF Decide
  <2>2. \A x \in Tasks : Waiting(x)' => Waiting(x)
    <3>1. wpc'[w] \notin {"claim", "requeue", "starting"}
      BY <1>20 DEF Decide, Goto, TypeOK
    <3> QED
      BY <1>20, <3>1 DEF Decide, Goto, Waiting, InPending, InDeferred, TypeOK
  <2>3. /\ Undecided(t) /\ rpc[t] # "none" /\ ledger[t] = "running"
        /\ rpc[t] = "gone" \/ t \in expired
    BY <1>20, <2>0 DEF Decide, Stages, WorkerOK
  <2>4. perm[t] # "idle"
    BY <1>20, <2>0 DEF Decide, Control
  <2>5. RunOK(t)
    BY DEF Stages
  <2> DEFINE d == DecidedState(t)
  <2>6. /\ d = "completed" => t \in effect
        /\ d \in {"failed", "timeout"} =>
              /\ t \notin effect
              /\ rpc[t] = "gone" \/ (rpc[t] = "exec" /\ d = "timeout")
        /\ d \in {"completed", "failed", "timeout", "unknown"}
        /\ d # "unknown" => rpc[t] \in {"exec", "gone"}
        /\ d = "unknown" => perm[t] \in {"committing", "unknown"}
    BY <2>3, <2>4, <2>5 DEF DecidedState, RunOK, Dead, TypeOK, PermStates, RunnerPCs
  <2>7. perm' = [perm EXCEPT ![t] = d]
    BY <1>20, <2>0 DEF Decide
  <2>8. WorkerOK(w)'
    <3>1. CASE d = "unknown"
      BY <1>20, <2>0, <2>3, <3>1 DEF Decide, Goto, WorkerOK, Undecided, TypeOK
    <3>2. CASE d # "unknown"
      <4>1. /\ wpc'[w] = "publish" /\ wout'[w] = d
        BY <1>20, <2>0, <3>2 DEF Decide, Goto, TypeOK
      <4>2. UNCHANGED <<wtask, rpc, effect, reported, ledger>> /\ perm'[t] = d
        BY <1>20, <2>7 DEF Decide, TypeOK
      <4> HIDE DEF d
      <4> QED
        BY <2>0, <2>3, <2>6, <3>2, <4>1, <4>2 DEF WorkerOK, Undecided, Dead
    <3> QED
      BY <3>1, <3>2
  <2>9. TaskOK(t)'
    <3>1. UNCHANGED <<rpc, effect, reported, ledger, started, job>> /\ perm'[t] = d
      BY <1>20, <2>7 DEF Decide, TypeOK
    <3> HIDE DEF d
    <3>2. RunOK(t)'
      BY <2>3, <2>5, <2>6, <3>1 DEF RunOK, Dead
    <3>3. HistoryOK(t)'
      BY <2>3, <2>6, <3>1 DEF Stages, HistoryOK, Undecided, Dead, Definite
    <3>4. WaitingOK(t)' /\ FreshOK(t)'
      BY <2>0, <2>1, <2>2, <3>1 DEF WaitingOK, FreshOK
    <3> QED
      BY <3>2, <3>3, <3>4 DEF TaskOK
  <2>10. \A v \in Workers : v # w => SameWorker(v)
    BY <1>20 DEF Decide, Goto, SameWorker, TypeOK
  <2>11. \A x \in Tasks : x # t => perm'[x] = perm[x]
    BY <2>7 DEF TypeOK
  <2>12. UNCHANGED <<rpc, effect, reported, ledger, started, job, ledgerOpen, callerVars>>
    BY <1>20 DEF Decide
  <2>13. wpc[w] \notin {"idle", "exited"}
    BY <1>20 DEF Decide
  <2> HIDE DEF d
  <2> QED
    BY <1>14, <2>0, <2>2, <2>8, <2>9, <2>10, <2>11, <2>12, <2>13
<1>21. CASE Publish(w)
  <2>0. PICK t \in Tasks : t = wtask[w] /\ AgentOf(t) \in Agents /\ job[t] # NoJob
    BY <1>15, <1>21 DEF Publish
  <2>1. ~Waiting(t)
    BY <1>21, <2>0, NotWaiting DEF Publish
  <2>2. \A x \in Tasks : Waiting(x)' => Waiting(x)
    BY <1>21 DEF Publish, Goto, Waiting, InPending, InDeferred, TypeOK
  <2>3. wout[w] \in Definite /\ ledger[t] = "running"
    BY <1>21, <2>0 DEF Publish, Control, Stages, WorkerOK
  <2>4. ledger'[t] \in Definite /\ \A x \in Tasks : x # t => ledger'[x] = ledger[x]
    BY <1>15, <1>21, <2>0, <2>3 DEF Publish, FinishRow, FinishedRow, SetRow, TypeOK
  <2>5. WorkerOK(w)'
    BY <1>21, <2>0, <2>4
    DEF Publish, Goto, Stages, WorkerOK, Undecided, Dead, Definite, TypeOK
  <2>6. TaskOK(t)'
    BY <1>21, <2>0, <2>1, <2>2, <2>4
    DEF Publish, TaskOK, WaitingOK, FreshOK, RunOK, HistoryOK, Stages,
        Undecided, Dead, Definite
  <2> QED
    BY <1>14, <1>21, <2>0, <2>2, <2>4, <2>5, <2>6
    DEF Publish, Goto, SameWorker, TypeOK
<1>22. CASE WorkerError(w)
  <2>0. PICK t \in Tasks : t = wtask[w] /\ AgentOf(t) \in Agents /\ job[t] # NoJob
    BY <1>15, <1>22 DEF WorkerError
  <2>1. ~Waiting(t)
    BY <1>22, <2>0, NotWaiting DEF WorkerError
  <2>2. \A x \in Tasks : Waiting(x)' => Waiting(x)
    BY <1>22 DEF WorkerError, Goto, Waiting, InPending, InDeferred, TypeOK
  <2>3. Undecided(t) /\ Dead(t)
    BY <1>22, <2>0 DEF WorkerError, Stages, WorkerOK
  <2>4. /\ ledger'[t] # "pending"
        /\ started[t] > 0 => ledger'[t] # "absent"
        /\ \A x \in Tasks : x # t => ledger'[x] = ledger[x]
    <3>1. PICK f \in BOOLEAN : SetRow(t, ErrorRow(t, f, TRUE))
      BY <1>22, <2>0 DEF WorkerError, MayFail
    <3>2. ledger' = [ledger EXCEPT ![t] = ErrorRow(t, f, TRUE)]
      BY <1>15, <1>22, <3>1 DEF WorkerError, SetRow
    <3>3. /\ ErrorRow(t, f, TRUE) # "pending"
          /\ started[t] > 0 => ErrorRow(t, f, TRUE) # "absent"
      BY DEF ErrorRow, FinishedRow, Stages, HistoryOK
    <3> QED
      BY <3>2, <3>3 DEF TypeOK
  <2>5. WorkerOK(w)'
    BY <1>22, <2>0, <2>3, <2>4
    DEF WorkerError, Goto, WorkerOK, Undecided, Dead, Definite, TypeOK
  <2>6. TaskOK(t)'
    BY <1>22, <2>0, <2>1, <2>2, <2>4
    DEF WorkerError, TaskOK, WaitingOK, FreshOK, RunOK, HistoryOK, Stages,
        Undecided, Dead, Definite
  <2> QED
    BY <1>14, <1>22, <2>0, <2>2, <2>4, <2>5, <2>6
    DEF WorkerError, Goto, SameWorker, TypeOK
<1>23. CASE Record(w)
  <2>0. PICK t \in Tasks : t = wtask[w] /\ AgentOf(t) \in Agents /\ job[t] # NoJob
    BY <1>15, <1>23 DEF Record
  <2>1. ~Waiting(t)
    BY <1>23, <2>0, NotWaiting DEF Record
  <2>2. \A x \in Tasks : Waiting(x)' => Waiting(x)
    BY <1>23 DEF Record, Goto, Waiting, InPending, InDeferred, TypeOK
  <2>3. PICK o \in Outcomes : o = wout[w]
    BY <1>23 DEF Record, Control
  <2>4. reported' = [reported EXCEPT ![t] = reported[t] \cup {o}]
    BY <1>23, <2>0, <2>3 DEF Record
  <2>5. /\ Undecided(t)
        /\ o = "completed" => t \in effect
        /\ o \in {"failed", "timeout"} => Dead(t)
        /\ o \in Definite => ledger[t] # "pending"
    BY <1>23, <2>0, <2>3 DEF Record, Stages, WorkerOK
  <2>6. WorkerOK(w)'
    BY <1>23 DEF Record, Goto, WorkerOK, TypeOK
  <2>7. TaskOK(t)'
    <3>1. /\ UNCHANGED <<rpc, effect, perm, ledger, started, job>>
          /\ reported'[t] = reported[t] \cup {o}
      BY <1>23, <2>4 DEF Record, TypeOK
    <3>2. HistoryOK(t)'
      BY <2>5, <3>1 DEF Stages, HistoryOK, Undecided, Dead, Definite
    <3>3. RunOK(t)'
      BY <3>1 DEF Stages, RunOK, Dead
    <3>4. WaitingOK(t)' /\ FreshOK(t)'
      BY <2>0, <2>1, <2>2, <3>1 DEF WaitingOK, FreshOK
    <3> QED
      BY <3>2, <3>3, <3>4 DEF TaskOK
  <2> QED
    BY <1>14, <1>23, <2>0, <2>2, <2>4, <2>6, <2>7
    DEF Record, Goto, SameWorker, TypeOK
<1> QED
  BY <1>2, <1>3, <1>4, <1>5, <1>6, <1>7, <1>8, <1>9, <1>10, <1>11, <1>12, <1>13,
     <1>16, <1>17, <1>18, <1>19, <1>20, <1>21, <1>22, <1>23 DEF Worker

\* Actions of a runner touch the record of its task only.
LEMMA StagesRunner ==
  ASSUME TypeOK, Control, Unique, Stages, TypeOK', NEW t \in Tasks, Runner(t)
  PROVE  Stages'
<1>1. /\ UNCHANGED <<memVars, schedVars, workerVars, callerVars, ctlVars, ledger,
                      histVars>>
      /\ \A x \in Tasks : x # t =>
            /\ rpc'[x] = rpc[x] /\ perm'[x] = perm[x]
            /\ x \in effect' <=> x \in effect
  BY DEF Runner, ExecuteFails, ClaimCommit, ClaimRefused, Commit, FinishCommit,
         CommitRaises, RunnerVanishes, PermitFinish, RunnerGone, TypeOK
<1>2. started[t] > 0 /\ rpc[t] \in {"exec", "permitted", "committed"}
      /\ perm[t] # "idle"
  BY DEF Runner, ExecuteFails, ClaimCommit, ClaimRefused, Commit, FinishCommit,
         CommitRaises, RunnerVanishes, Stages, RunOK
<1>3. rpc'[t] # "none" /\ perm'[t] # "idle"
  BY <1>2 DEF Runner, ExecuteFails, ClaimCommit, ClaimRefused, Commit, FinishCommit,
         CommitRaises, RunnerVanishes, PermitFinish, RunnerGone, TypeOK
<1>4. \A x \in Tasks : Waiting(x)' <=> Waiting(x)
  BY <1>1 DEF Waiting, InPending, InDeferred
<1>5. ~Waiting(t) /\ job[t] # NoJob
  BY <1>2 DEF Stages, WaitingOK, FreshOK, Untouched
<1>6. RunOK(t) /\ HistoryOK(t)
  BY DEF Stages
\* What was said of the task stays true: an effect stays, a dead run stays dead.
<1>7. /\ t \in effect => t \in effect'
      /\ Dead(t) => Dead(t)'
  BY <1>2, <1>6
  DEF Runner, ExecuteFails, ClaimCommit, ClaimRefused, Commit, FinishCommit,
      CommitRaises, RunnerVanishes, PermitFinish, RunnerGone, Dead, RunOK, TypeOK
<1>8. RunOK(t)'
  BY <1>2, <1>6
  DEF Runner, ExecuteFails, ClaimCommit, ClaimRefused, Commit, FinishCommit,
      CommitRaises, RunnerVanishes, PermitFinish, RunnerGone, Dead, RunOK, TypeOK
<1>9. HistoryOK(t)'
  BY <1>1, <1>2, <1>6, <1>7 DEF HistoryOK, Undecided
<1>10. TaskOK(t)'
  BY <1>1, <1>4, <1>5, <1>8, <1>9 DEF TaskOK, WaitingOK, FreshOK
<1>11. ASSUME NEW c \in Callers PROVE SameCaller(c) /\ ctask[c] # t
  <2>1. ctask[c] # t
    BY <1>2, TasksFacts DEF Stages, CallerOK, Untouched
  <2> QED
    BY <1>1, <2>1 DEF SameCaller
<1>12. ASSUME NEW w \in Workers
       PROVE  WorkerOK(w)' \/ (SameWorker(w) /\ wtask[w] # t)
  <2>1. SameWorker(w)
    BY <1>1 DEF SameWorker
  <2>2. ASSUME wtask[w] = t PROVE WorkerOK(w)'
    <3>1. UNCHANGED <<wpc, wtask, wout, reported, ledger, started>>
      BY <1>1
    <3>2. WorkerOK(w) /\ wpc[w] # "slot"
      BY <1>2, <2>2 DEF Stages, WorkerOK
    <3> QED
      BY <1>3, <1>7, <2>2, <3>1, <3>2 DEF WorkerOK, Undecided
  <2> QED
    BY <2>1, <2>2
<1>13. \A x \in Tasks : x # t => SameTask(x)
  BY <1>1 DEF SameTask
<1> QED
  BY <1>4, <1>10, <1>11, <1>12, <1>13, StagesFrame DEF MaybeTask

\* Recovery: what waits again is what never started; everything else of the
\* record is kept or becomes unknown, and all threads are gone.
LEMMA StagesCrash ==
  ASSUME TypeOK, Control, Stages, TypeOK', CrashRestart
  PROVE  Stages'
<1>1. /\ UNCHANGED <<effect, job, started>>
      /\ \A t \in Tasks : /\ rpc'[t] = "none" /\ perm'[t] = "idle"
                           /\ reported'[t] \cap Definite = reported[t] \cap Definite
      /\ \A w \in Workers : /\ wpc'[w] = "idle" /\ wtask'[w] = NoTask
                             /\ handoff'[w] = NoTask
      /\ \A c \in Callers : ctask'[c] = NoTask
      /\ \A a \in Agents : deferred'[a] = <<>>
  BY DEF CrashRestart, Definite
<1>2. \A t \in Tasks : /\ ledger'[t] = "absent" <=> ledger[t] = "absent"
                       /\ ledger'[t] = "pending" => ledger[t] = "pending"
  BY RecoveryRows DEF FencedRows, OpenRows
<1>3. ASSUME NEW t \in Tasks, Waiting(t)'
      PROVE  ledger[t] = "pending" /\ ledger'[t] = "pending"
  <2>1. t \in SafeRows
    BY <1>1, <1>3, RecoveryType, TasksFacts DEF Waiting, InPending, InDeferred
  <2>2. ledger[t] = "pending"
    BY <2>1 DEF SafeRows, FencedRows, OpenRows, FencedAgents
  <2> QED
    BY <2>1, <2>2, RecoveryRows DEF SafeRows
<1>4. ASSUME NEW t \in Tasks PROVE WaitingOK(t)' /\ FreshOK(t)' /\ RunOK(t)'
  <2>1. HistoryOK(t) /\ FreshOK(t)
    BY DEF Stages
  <2>2. started[t] \in Nat
    BY DEF TypeOK
  <2>3. RunOK(t)'
    BY <1>1 DEF RunOK
  <2>4. FreshOK(t)'
    BY <1>1, <1>2, <2>1 DEF FreshOK, Untouched
  <2>5. WaitingOK(t)'
    BY <1>1, <1>3, <2>1, <2>2 DEF WaitingOK, HistoryOK, Untouched, Undecided
  <2> QED
    BY <2>3, <2>4, <2>5
<1>5. ASSUME NEW t \in Tasks PROVE HistoryOK(t)'
  <2>1. HistoryOK(t)
    BY DEF Stages
  <2>2. \A o \in Definite : o \in reported'[t] <=> o \in reported[t]
    BY <1>1
  <2>3. Dead(t) => Dead(t)'
    BY <1>1 DEF Dead
  <2> QED
    BY <1>1, <1>2, <2>1, <2>2, <2>3 DEF HistoryOK, Undecided, Definite
<1>6. \A c \in Callers : CallerOK(c)'
  BY <1>1 DEF CallerOK
<1>7. \A w \in Workers : WorkerOK(w)'
  BY <1>1 DEF WorkerOK
<1> QED
  BY <1>4, <1>5, <1>6, <1>7 DEF Stages

\* Every step keeps the stages of all tasks.
LEMMA StagesStep ==
  ASSUME "purge" \notin FailableOps, TypeOK, Control, Unique, Stages, TypeOK',
         [Next]_vars
  PROVE  Stages'
<1>1. ASSUME NEW c \in Callers, Enqueue(c) PROVE Stages'
  BY <1>1, StagesEnqueue
<1>2. ASSUME NEW w \in Workers, Worker(w) PROVE Stages'
  BY <1>2, StagesWorker
<1>3. ASSUME NEW t \in Tasks, Runner(t) PROVE Stages'
  BY <1>3, StagesRunner
<1>4. CASE CrashRestart
  BY <1>4, StagesCrash
<1>5. ASSUME UNCHANGED <<memVars, schedVars, workerVars, callerVars, perm, rpc,
                         dbVars, histVars>>,
             ledgerOpen' => ledgerOpen
      PROVE  Stages'
  <2>1. \A x \in Tasks : SameTask(x) /\ (Waiting(x)' => Waiting(x))
    BY <1>5 DEF SameTask, Waiting, InPending, InDeferred
  <2>2. /\ \A c \in Callers : SameCaller(c)
        /\ \A w \in Workers : SameWorker(w)
    BY <1>5 DEF SameCaller, SameWorker
  <2> QED
    BY <2>1, <2>2, TasksFacts, StagesFrame DEF MaybeTask
<1>6. CASE \E w \in Workers : DeadlinePasses(w)
  BY <1>5, <1>6 DEF DeadlinePasses
<1>7. CASE ShutdownBegin \/ CloseLedger
  BY <1>5, <1>7 DEF ShutdownBegin, CloseLedger
<1>8. CASE Quiescent \/ UNCHANGED vars
  BY <1>5, <1>8 DEF Quiescent, vars
<1> QED
  BY <1>1, <1>2, <1>3, <1>4, <1>6, <1>7, <1>8 DEF Next

(***************************************************************************)
(* The invariant                                                           *)
(***************************************************************************)
\* The invariant holds of an empty ledger and a queue just constructed.
LEMMA InitIInv == Init => IInv
<1> SUFFICES ASSUME Init PROVE IInv
  OBVIOUS
<1>1. TypeOK
  <2> USE DEF Init, MaybeTask, Jobs, WorkerPCs, CallerPCs, PermStates, RunnerPCs,
              RowStates, Outcomes
  <2>1. pending \in Seq(Tasks) /\ deferred \in [Agents -> Seq(Tasks)]
    OBVIOUS
  <2>2. cap \in Nat \ {0}
    BY TasksAssumption
  <2>3. /\ started \in [Tasks -> Nat] /\ crashes \in Nat
        /\ shutdown \in BOOLEAN /\ ledgerOpen \in BOOLEAN
    OBVIOUS
  <2>4. /\ results \in [Tasks -> Outcomes \cup {"none"}]
        /\ preclaimed \in [Agents -> MaybeTask]
        /\ wpc \in [Workers -> WorkerPCs] /\ wtask \in [Workers -> MaybeTask]
        /\ wout \in [Workers -> Outcomes \cup {"none"}]
        /\ handoff \in [Workers -> MaybeTask]
        /\ cpc \in [Callers -> CallerPCs] /\ ctask \in [Callers -> MaybeTask]
        /\ cjob \in [Callers -> Jobs] /\ job \in [Tasks -> Jobs]
        /\ perm \in [Tasks -> PermStates] /\ rpc \in [Tasks -> RunnerPCs]
        /\ ledger \in [Tasks -> RowStates]
        /\ reported \in [Tasks -> SUBSET Outcomes]
    OBVIOUS
  <2> QED
    BY <2>1, <2>2, <2>3, <2>4 DEF TypeOK
<1>2. Control
  BY DEF Init, Control
<1>3. Unique
  BY TasksFacts DEF Init, Unique, InPending, InDeferred, Held
<1>4. Stages
  BY TasksFacts
  DEF Init, Stages, WaitingOK, FreshOK, CallerOK, WorkerOK, RunOK, HistoryOK,
      Untouched, Undecided, Dead, Waiting, InPending, InDeferred
<1> QED
  BY <1>1, <1>2, <1>3, <1>4 DEF IInv

\* IInv alone is inductive, unless shutdown() may close the ledger under running
\* workers or the catch-all's removal of a never-run row may fail.
THEOREM InductiveInvariant ==
  ASSUME ~JoinTimeout, "purge" \notin FailableOps
  PROVE  Spec => []IInv
<1>1. Init => IInv
  BY InitIInv
<1>2. IInv /\ [Next]_vars => IInv'
  BY TypeStep, ControlStep, UniqueStep, StagesStep DEF IInv
<1> QED
  BY <1>1, <1>2, PTL DEF Spec

\* All variables keep their types whatever fails, provided shutdown() waits for
\* its workers before it closes the ledger connection.
THEOREM TypeCorrect ==
  ASSUME ~JoinTimeout
  PROVE  Spec => []TypeOK
<1>1. Init => TypeOK /\ Control
  BY InitIInv DEF IInv
<1>2. TypeOK /\ Control /\ [Next]_vars => (TypeOK /\ Control)'
  BY TypeStep, ControlStep
<1> QED
  BY <1>1, <1>2, PTL DEF Spec

\* wait() and the ledger never lie: "failed" and "timeout" are only ever said of
\* a run that did not and will not commit, "completed" of one that did, and at
\* most one of the three of any task, across crashes and failed ledger writes.
THEOREM VerdictsAreTrue ==
  ASSUME ~JoinTimeout, "purge" \notin FailableOps
  PROVE  Spec => []VerdictTruthful
<1>1. IInv => VerdictTruthful
  <2> SUFFICES ASSUME IInv, NEW t \in Tasks
               PROVE  /\ reported[t] \cap {"failed", "timeout"} # {} => t \notin effect
                      /\ "completed" \in reported[t] => t \in effect
                      /\ Cardinality(reported[t] \cap Definite) <= 1
    BY DEF VerdictTruthful
  <2>1. HistoryOK(t)
    BY DEF IInv, Stages
  <2> DEFINE said == reported[t] \cap Definite
  <2>2. CASE said = {}
    <3>1. Cardinality(said) = 0
      BY <2>2, FS_EmptySet
    <3>2. 0 <= 1
      OBVIOUS
    <3>3. /\ reported[t] \cap {"failed", "timeout"} # {} => t \notin effect
          /\ "completed" \in reported[t] => t \in effect
      BY <2>1 DEF HistoryOK, Dead
    <3> QED
      BY <3>1, <3>2, <3>3
  <2>3. CASE said # {}
    <3>1. PICK o : said = {o}
      BY <2>1, <2>3 DEF HistoryOK
    <3>2. Cardinality(said) = 1
      BY <3>1, FS_Singleton
    <3>3. 1 <= 1
      OBVIOUS
    <3>4. /\ reported[t] \cap {"failed", "timeout"} # {} => t \notin effect
          /\ "completed" \in reported[t] => t \in effect
      BY <2>1 DEF HistoryOK, Dead
    <3> QED
      BY <3>2, <3>3, <3>4
  <2> QED
    BY <2>2, <2>3
<1> QED
  BY <1>1, InductiveInvariant, PTL

\* No task is ever run twice, not even by the recovery after a crash.
THEOREM RunsAtMostOnce ==
  ASSUME ~JoinTimeout, "purge" \notin FailableOps
  PROVE  Spec => []StartedAtMostOnce
<1>1. IInv => StartedAtMostOnce
  BY DEF IInv, Stages, HistoryOK, StartedAtMostOnce
<1> QED
  BY <1>1, InductiveInvariant, PTL

\* While it is open whether a run committed, the task's row keeps recovery from
\* running anything of that agent.
THEOREM UnsettledRunsAreFenced ==
  ASSUME ~JoinTimeout, "purge" \notin FailableOps
  PROVE  Spec => []UnsettledRunIsFenced
<1>1. IInv => UnsettledRunIsFenced
  BY DEF IInv, Stages, HistoryOK, UnsettledRunIsFenced, TypeOK, RowStates, Definite
<1> QED
  BY <1>1, InductiveInvariant, PTL

(***************************************************************************)
(* What waits (Waits): a task that is queued or held by a caller has no    *)
(* result yet, and only callers, recording workers and crashes change that. *)
(***************************************************************************)
\* What one step, other than a crash, does to the tasks that are queued.
LEMMA QueuedStep ==
  ASSUME TypeOK, Control, Unique, Carried, TypeOK', [Next]_vars, ~CrashRestart
  PROVE  \A x \in Tasks :
           /\ Queued(x)' => Queued(x) \/ \E c \in Callers : EnqueueAdmit(c) /\ x = ctask[c]
           /\ Queued(x) => Queued(x)' \/ \E w \in Workers : WorkerClaim(w) /\ x = wtask[w]
<1> DEFINE Goal == \A x \in Tasks :
           /\ Queued(x)' => Queued(x) \/ \E c \in Callers : EnqueueAdmit(c) /\ x = ctask[c]
           /\ Queued(x) => Queued(x)' \/ \E w \in Workers : WorkerClaim(w) /\ x = wtask[w]
<1> USE TasksFacts
<1>1. ASSUME UNCHANGED <<pending, deferred, handoff>>,
             \A w \in Workers :
               \/ wtask'[w] = wtask[w] /\ wpc'[w] = wpc[w]
               \/ wpc[w] \notin {"claim", "requeue"} /\ wpc'[w] \notin {"claim", "requeue"}
      PROVE  Goal
  BY <1>1 DEF Queued, InPending, InDeferred
<1>2. ASSUME NEW c \in Callers, EnqueueAdmit(c) PROVE Goal
  <2>1. ctask[c] \in Tasks
    BY <1>2, CallerHolds DEF EnqueueAdmit
  <2>2. \A x \in Tasks : InPending(x)' <=> InPending(x) \/ x = ctask[c]
    BY <1>2, <2>1, AppendMember DEF EnqueueAdmit, TypeOK, InPending
  <2>3. UNCHANGED <<deferred, handoff, wtask, wpc>>
    BY <1>2 DEF EnqueueAdmit
  <2> QED
    BY <1>2, <2>2, <2>3 DEF Queued, InDeferred
<1>3. ASSUME NEW w \in Workers, WorkerTakeHandoff(w) PROVE Goal
  <2>1. wtask[w] = NoTask
    BY <1>3 DEF WorkerTakeHandoff, Control
  <2>2. \A x \in Tasks : /\ InPending(x)' <=> InPending(x)
                         /\ InDeferred(x)' <=> InDeferred(x)
    BY <1>3 DEF WorkerTakeHandoff, InPending, InDeferred
  <2> QED
    BY <1>3, <2>1, <2>2 DEF WorkerTakeHandoff, Goto, Queued, TypeOK
<1>4. ASSUME NEW w \in Workers, WorkerTake(w) PROVE Goal
  <2> DEFINE h == Head(pending)
  <2>1. /\ pending \in Seq(Tasks) /\ pending # <<>> /\ pending' = Tail(pending)
        /\ \A i, j \in 1 .. Len(pending) : pending[i] = pending[j] => i = j
    BY <1>4 DEF WorkerTake, TypeOK, Unique
  <2>2. /\ h \in Tasks /\ InPending(h)
        /\ \A x \in Tasks : InPending(x)' <=> InPending(x) /\ x # h
    <3>1. /\ h \in Tasks
          /\ \E i \in 1 .. Len(pending) : pending[i] = h
          /\ \A x : (\E i \in 1 .. Len(Tail(pending)) : Tail(pending)[i] = x)
                      <=> (\E i \in 1 .. Len(pending) : pending[i] = x) /\ x # h
      BY <2>1, TailFacts
    <3> HIDE DEF h
    <3> QED
      BY <2>1, <3>1 DEF InPending
  <2>3. /\ wtask' = [wtask EXCEPT ![w] = h] /\ wpc' = [wpc EXCEPT ![w] = "claim"]
        /\ wtask[w] = NoTask /\ UNCHANGED <<deferred, handoff>>
    BY <1>4 DEF WorkerTake, Goto, Control
  <2> HIDE DEF h
  <2>4. \A x \in Tasks : InDeferred(x)' <=> InDeferred(x)
    BY <2>3 DEF InDeferred
  <2>5. ASSUME NEW x \in Tasks, x # h PROVE Queued(x)' <=> Queued(x)
    <3>1. /\ \A v \in Workers : wtask'[v] = x => wtask[v] = x /\ wpc'[v] = wpc[v]
          /\ \A v \in Workers : wtask[v] = x => wtask'[v] = x /\ wpc'[v] = wpc[v]
      BY <2>3, <2>5 DEF TypeOK
    <3> QED
      BY <2>2, <2>3, <2>4, <2>5, <3>1 DEF Queued
  <2>6. ASSUME NEW x \in Tasks, x = h PROVE Queued(x) /\ Queued(x)'
    <3>1. wtask'[w] = x /\ wpc'[w] = "claim"
      BY <2>3, <2>6 DEF TypeOK
    <3> QED
      BY <2>2, <2>6, <3>1 DEF Queued
  <2> QED
    BY <2>5, <2>6
<1>5. ASSUME NEW w \in Workers, WorkerDefer(w) PROVE Goal
  <2> DEFINE t == wtask[w]
             b == AgentOf(t)
  <2>1. t \in Tasks /\ b \in Agents
    BY <1>5, WorkerHolds DEF WorkerDefer
  <2>2. /\ deferred' = [deferred EXCEPT ![b] = Append(deferred[b], t)]
        /\ deferred \in [Agents -> Seq(Tasks)]
    BY <1>5 DEF WorkerDefer, TypeOK
  <2>3. ASSUME NEW x \in Tasks PROVE InDeferred(x)' <=> InDeferred(x) \/ x = t
    <3>1. /\ deferred'[b] = Append(deferred[b], t) /\ deferred[b] \in Seq(Tasks)
          /\ \A a \in Agents : a # b => deferred'[a] = deferred[a]
      BY <2>1, <2>2
    <3>2. (\E i \in 1 .. Len(deferred'[b]) : deferred'[b][i] = x)
            <=> (\E i \in 1 .. Len(deferred[b]) : deferred[b][i] = x) \/ x = t
      BY <2>1, <3>1, AppendMember
    <3> HIDE DEF b, t
    <3> QED
      BY <2>1, <3>1, <3>2 DEF InDeferred
  <2>4. /\ wtask' = [wtask EXCEPT ![w] = NoTask] /\ wpc' = [wpc EXCEPT ![w] = "idle"]
        /\ wpc[w] = "claim" /\ UNCHANGED <<pending, handoff>>
    BY <1>5 DEF WorkerDefer, Goto
  <2>5. \A x \in Tasks : InPending(x)' <=> InPending(x)
    BY <2>4 DEF InPending
  <2> QED
    BY <2>1, <2>3, <2>4, <2>5 DEF Queued, TypeOK
<1>6. ASSUME NEW w \in Workers, WorkerClaim(w) PROVE Goal
  <2>1. /\ UNCHANGED <<pending, deferred, handoff, wtask>>
        /\ \A v \in Workers : v # w => wpc'[v] = wpc[v]
        /\ wpc'[w] \in {"unknown", "starting"} /\ wpc[w] = "claim"
    BY <1>6 DEF WorkerClaim, Goto, TypeOK
  <2> QED
    BY <1>6, <2>1 DEF Queued, InPending, InDeferred
<1>7. ASSUME NEW w \in Workers, FinishHandOver(w) PROVE Goal
  <2> DEFINE b == AgentOf(wtask[w])
             t == Head(deferred[b])
  <2>1. b \in Agents
    BY <1>7, WorkerHolds DEF FinishHandOver
  <2>2. /\ deferred' = [deferred EXCEPT ![b] = Tail(deferred[b])]
        /\ deferred \in [Agents -> Seq(Tasks)] /\ deferred[b] # <<>>
    BY <1>7 DEF FinishHandOver, TypeOK
  <2>3. /\ deferred[b] \in Seq(Tasks) /\ deferred'[b] = Tail(deferred[b])
        /\ \A i, j \in 1 .. Len(deferred[b]) :
              deferred[b][i] = deferred[b][j] => i = j
    BY <2>1, <2>2 DEF Unique
  <2>4. /\ t \in Tasks
        /\ \E i \in 1 .. Len(deferred[b]) : deferred[b][i] = t
        /\ \A x \in Tasks : (\E i \in 1 .. Len(deferred'[b]) : deferred'[b][i] = x)
             <=> (\E i \in 1 .. Len(deferred[b]) : deferred[b][i] = x) /\ x # t
    <3>1. deferred[b] # <<>>
      BY <2>2
    <3>2. /\ t \in Tasks
          /\ \E i \in 1 .. Len(deferred[b]) : deferred[b][i] = t
          /\ \A x : (\E i \in 1 .. Len(Tail(deferred[b])) : Tail(deferred[b])[i] = x)
                <=> (\E i \in 1 .. Len(deferred[b]) : deferred[b][i] = x) /\ x # t
      BY <2>3, <3>1, TailFacts
    <3> QED
      BY <2>3, <3>2
  <2>5. \A a \in Agents : a # b => deferred'[a] = deferred[a]
    BY <2>1, <2>2
  <2>6. InDeferred(t)
    BY <2>1, <2>4 DEF InDeferred
  <2>7. \A x \in Tasks : /\ InDeferred(x)' => InDeferred(x)
                         /\ InDeferred(x) /\ x # t => InDeferred(x)'
    BY <2>1, <2>4, <2>5 DEF InDeferred
  <2>8. /\ wtask' = [wtask EXCEPT ![w] = t] /\ wpc' = [wpc EXCEPT ![w] = "requeue"]
        /\ wpc[w] = "finish" /\ UNCHANGED <<pending, handoff>>
    BY <1>7 DEF FinishHandOver, Goto
  <2>9. \A x \in Tasks : InPending(x)' <=> InPending(x)
    BY <2>8 DEF InPending
  <2> HIDE DEF t
  <2> QED
    BY <2>6, <2>7, <2>8, <2>9 DEF Queued, TypeOK
<1>8. ASSUME NEW w \in Workers, Requeue(w) PROVE Goal
  <2>1. wtask[w] \in Tasks
    BY <1>8, WorkerHolds DEF Requeue
  <2>2. \A x \in Tasks : InPending(x)' <=> InPending(x) \/ x = wtask[w]
    <3>1. pending \in Seq(Tasks) /\ pending' = Append(pending, wtask[w])
      BY <1>8 DEF Requeue, TypeOK
    <3> QED
      BY <2>1, <3>1, AppendMember DEF InPending
  <2> QED
    BY <1>8, <2>1, <2>2 DEF Requeue, Goto, Queued, InDeferred, TypeOK
<1>9. ASSUME NEW w \in Workers, RequeueFull(w) PROVE Goal
  <2>1. wtask[w] \in Tasks /\ handoff[w] = NoTask
    BY <1>9, WorkerHolds DEF RequeueFull, Carried
  <2> QED
    BY <1>9, <2>1 DEF RequeueFull, Goto, Queued, InPending, InDeferred, TypeOK
<1> QED
  <2>1. ASSUME NEW c \in Callers, Enqueue(c) PROVE Goal
    <3>1. CASE EnqueueAdmit(c)
      BY <3>1, <1>2
    <3>2. CASE \/ EnqueueReuse(c) \/ EnqueueMiss(c) \/ EnqueueRegister(c)
               \/ EnqueuePersist(c) \/ EnqueuePersistFails(c) \/ EnqueueFenced(c)
      BY <3>2, <1>1
      DEF EnqueueReuse, EnqueueMiss, EnqueueRegister, EnqueuePersist,
          EnqueuePersistFails, EnqueueFenced
    <3>3. CASE \/ EnqueueFull(c) \/ EnqueueRollback(c) \/ EnqueueRollbackFails(c)
               \/ \E a \in Agents, k \in Kinds : EnqueueCheck(c, a, k)
      BY <3>3, <1>1
      DEF EnqueueFull, EnqueueRollback, EnqueueRollbackFails, EnqueueCheck
    <3> QED
      BY <2>1, <3>1, <3>2, <3>3 DEF Enqueue
  <2>2. ASSUME NEW w \in Workers, Worker(w) PROVE Goal
    <3>1. CASE \/ WorkerExit(w) \/ WorkerUnknown(w) \/ PersistRunning(w)
               \/ PersistRunningFails(w) \/ StartRunner(w) \/ StartRunnerFails(w)
               \/ SlotTimeout(w) \/ FinishRelease(w)
      BY <3>1, <1>1
      DEF WorkerExit, WorkerUnknown, PersistRunning, PersistRunningFails, StartRunner,
          StartRunnerFails, SlotTimeout, FinishRelease, Goto, TypeOK
    <3>2. CASE \/ Decide(w) \/ Publish(w) \/ PublishFails(w) \/ WorkerError(w)
               \/ Record(w)
      BY <3>2, <1>1
      DEF Decide, Publish, PublishFails, WorkerError, Record, Goto, TypeOK
    <3> QED
      BY <2>2, <3>1, <3>2, <1>3, <1>4, <1>5, <1>6, <1>7, <1>8, <1>9 DEF Worker
  <2>3. ASSUME NEW t \in Tasks, Runner(t) PROVE Goal
    BY <2>3, <1>1 DEF Runner, ExecuteFails, ClaimCommit, ClaimRefused, Commit,
                      FinishCommit, CommitRaises, RunnerVanishes
  <2>4. CASE (\E w \in Workers : DeadlinePasses(w)) \/ ShutdownBegin \/ CloseLedger
    BY <2>4, <1>1 DEF DeadlinePasses, ShutdownBegin, CloseLedger
  <2>5. CASE Quiescent \/ UNCHANGED vars
    BY <2>5, <1>1 DEF Quiescent, vars
  <2> QED
    BY <2>1, <2>2, <2>3, <2>4, <2>5 DEF Next

\* Caller c lets its task go, without putting it in the queue.
Drops(c, x) == ctask[c] = x /\ ctask'[c] = NoTask /\ UNCHANGED pending

\* What one step, other than a crash, does to _tasks, to _results and to jobs.
LEMMA MemoryStep ==
  ASSUME TypeOK, Control, Unique, TypeOK', [Next]_vars, ~CrashRestart
  PROVE  \A x \in Tasks :
           /\ x \in tasks => x \in tasks' \/ \E c \in Callers : Drops(c, x)
           /\ x \in tasks' => x \in tasks \/ job'[x] # NoJob
           /\ \/ results'[x] = results[x]
              \/ /\ results'[x] # "none"
                 /\ \/ \E c \in Callers : Drops(c, x)
                    \/ \E w \in Workers : wpc[w] = "record" /\ wtask[w] = x
           /\ job'[x] = job[x] \/ (job[x] = NoJob /\ job'[x] # NoJob)
<1> DEFINE Goal == \A x \in Tasks :
           /\ x \in tasks => x \in tasks' \/ \E c \in Callers : Drops(c, x)
           /\ x \in tasks' => x \in tasks \/ job'[x] # NoJob
           /\ \/ results'[x] = results[x]
              \/ /\ results'[x] # "none"
                 /\ \/ \E c \in Callers : Drops(c, x)
                    \/ \E w \in Workers : wpc[w] = "record" /\ wtask[w] = x
           /\ job'[x] = job[x] \/ (job[x] = NoJob /\ job'[x] # NoJob)
<1> USE TasksFacts DEF Drops
<1>1. ASSUME UNCHANGED <<tasks, results, job>> PROVE Goal
  BY <1>1
<1>2. ASSUME NEW c \in Callers, EnqueueRegister(c) PROVE Goal
  <2>1. cjob[c] # NoJob /\ cjob[c] \in Jobs
    BY <1>2 DEF EnqueueRegister, Control, TypeOK
  <2>2. PICK t \in Tasks : /\ Fresh(t) /\ job' = [job EXCEPT ![t] = cjob[c]]
                           /\ tasks' = tasks \cup {t}
    BY <1>2 DEF EnqueueRegister
  <2> QED
    BY <1>2, <2>1, <2>2 DEF EnqueueRegister, Fresh, TypeOK
<1>3. ASSUME NEW c \in Callers, EnqueuePersistFails(c) \/ EnqueueRollback(c)
      PROVE  Goal
  <2>1. /\ UNCHANGED <<job, results, pending>> /\ tasks' = tasks \ {ctask[c]}
        /\ ctask'[c] = NoTask
    BY <1>3 DEF EnqueuePersistFails, EnqueueRollback, CallerReturns, TypeOK
  <2> QED
    BY <2>1
<1>4. ASSUME NEW c \in Callers, EnqueueFenced(c) PROVE Goal
  <2>1. /\ UNCHANGED <<job, tasks, pending>> /\ ctask'[c] = NoTask
        /\ results' = [results EXCEPT ![ctask[c]] = "unknown"]
    BY <1>4 DEF EnqueueFenced, CallerReturns, TypeOK
  <2> QED
    BY <2>1 DEF TypeOK
<1>5. ASSUME NEW w \in Workers, Record(w) PROVE Goal
  <2>1. /\ UNCHANGED <<job, tasks>> /\ wpc[w] = "record"
        /\ results' = [results EXCEPT ![wtask[w]] = wout[w]]
        /\ wout[w] # "none"
    BY <1>5 DEF Record, Control, Outcomes
  <2> QED
    BY <2>1 DEF TypeOK
<1> QED
  <2>1. ASSUME NEW c \in Callers, Enqueue(c) PROVE Goal
    <3>1. CASE \/ EnqueueReuse(c) \/ EnqueueMiss(c) \/ EnqueueAdmit(c)
               \/ EnqueuePersist(c) \/ EnqueueFull(c) \/ EnqueueRollbackFails(c)
               \/ \E a \in Agents, k \in Kinds : EnqueueCheck(c, a, k)
      BY <3>1, <1>1
      DEF EnqueueReuse, EnqueueMiss, EnqueueAdmit, EnqueuePersist, EnqueueFull,
          EnqueueRollbackFails, EnqueueCheck
    <3> QED
      BY <2>1, <3>1, <1>2, <1>3, <1>4 DEF Enqueue
  <2>2. ASSUME NEW w \in Workers, Worker(w) PROVE Goal
    <3>1. CASE \/ WorkerExit(w) \/ WorkerUnknown(w) \/ PersistRunning(w)
               \/ PersistRunningFails(w) \/ StartRunner(w) \/ StartRunnerFails(w)
               \/ SlotTimeout(w) \/ FinishRelease(w)
      BY <3>1, <1>1
      DEF WorkerExit, WorkerUnknown, PersistRunning, PersistRunningFails, StartRunner,
          StartRunnerFails, SlotTimeout, FinishRelease
    <3>2. CASE \/ Decide(w) \/ Publish(w) \/ PublishFails(w) \/ WorkerError(w)
               \/ WorkerTake(w) \/ WorkerTakeHandoff(w) \/ WorkerDefer(w)
      BY <3>2, <1>1
      DEF Decide, Publish, PublishFails, WorkerError, WorkerTake, WorkerTakeHandoff,
          WorkerDefer
    <3>3. CASE WorkerClaim(w) \/ FinishHandOver(w) \/ Requeue(w) \/ RequeueFull(w)
      BY <3>3, <1>1 DEF WorkerClaim, FinishHandOver, Requeue, RequeueFull
    <3> QED
      BY <2>2, <3>1, <3>2, <3>3, <1>5 DEF Worker
  <2>3. ASSUME NEW t \in Tasks, Runner(t) PROVE Goal
    BY <2>3, <1>1 DEF Runner, ExecuteFails, ClaimCommit, ClaimRefused, Commit,
                      FinishCommit, CommitRaises, RunnerVanishes
  <2>4. CASE (\E w \in Workers : DeadlinePasses(w)) \/ ShutdownBegin \/ CloseLedger
    BY <2>4, <1>1 DEF DeadlinePasses, ShutdownBegin, CloseLedger
  <2>5. CASE Quiescent \/ UNCHANGED vars
    BY <2>5, <1>1 DEF Quiescent, vars
  <2> QED
    BY <2>1, <2>2, <2>3, <2>4, <2>5 DEF Next

\* A queued task belongs to a real agent and is nobody else's.
LEMMA QueuedAlone ==
  ASSUME TypeOK, Control, Unique, NEW x \in Tasks, Queued(x)
  PROVE  /\ AgentOf(x) \in Agents /\ job[x] # NoJob
         /\ \A c \in Callers : ctask[c] # x
         /\ \A w \in Workers : wtask[w] = x => wpc[w] \in {"claim", "requeue"}
<1>1. AgentOf(x) \in Agents
  <2>1. CASE InPending(x)
    BY <2>1 DEF InPending, Control
  <2>2. CASE InDeferred(x)
    BY <2>2 DEF InDeferred, Control
  <2>3. CASE \E w \in Workers : handoff[w] = x \/ wtask[w] = x
    BY <2>3, TasksFacts DEF Control
  <2> QED
    BY <2>1, <2>2, <2>3 DEF Queued
<1>2. job[x] # NoJob
  BY <1>1, NoneAssumption DEF AgentOf, NoJob
<1>3. \A c \in Callers : ctask[c] # x
  BY TasksFacts DEF Unique, Held, Queued
<1>4. \A w \in Workers : wtask[w] = x => wpc[w] \in {"claim", "requeue"}
  BY TasksFacts DEF Unique, Held, Queued
<1> QED
  BY <1>1, <1>2, <1>3, <1>4

\* What one step, other than a crash, does to the control of callers and
\* workers, to hand-offs and to handed-over slots.
LEMMA ControlPoints ==
  ASSUME TypeOK, Control, TypeOK', [Next]_vars, ~CrashRestart
  PROVE  /\ shutdown => shutdown'
         /\ \A c \in Callers :
              /\ ctask'[c] \in {ctask[c], NoTask} \/ EnqueueRegister(c)
              /\ ctask'[c] = ctask[c] \/ Enqueue(c)
         /\ \A w \in Workers :
              /\ \/ wpc'[w] = wpc[w] /\ handoff'[w] = handoff[w]
                 \/ Worker(w)
              /\ wpc'[w] = "exited" => wpc[w] = "exited" \/ WorkerExit(w)
         /\ \A a \in Agents : preclaimed'[a] \in {preclaimed[a], NoTask}
              \/ \E w \in Workers : FinishHandOver(w) /\ a = AgentOf(wtask[w])
<1> DEFINE Goal ==
         /\ shutdown => shutdown'
         /\ \A c \in Callers :
              /\ ctask'[c] \in {ctask[c], NoTask} \/ EnqueueRegister(c)
              /\ ctask'[c] = ctask[c] \/ Enqueue(c)
         /\ \A w \in Workers :
              /\ \/ wpc'[w] = wpc[w] /\ handoff'[w] = handoff[w]
                 \/ Worker(w)
              /\ wpc'[w] = "exited" => wpc[w] = "exited" \/ WorkerExit(w)
         /\ \A a \in Agents : preclaimed'[a] \in {preclaimed[a], NoTask}
              \/ \E w \in Workers : FinishHandOver(w) /\ a = AgentOf(wtask[w])
<1>1. ASSUME NEW c \in Callers, Enqueue(c) PROVE Goal
  <2>1. /\ UNCHANGED <<shutdown, wpc, handoff, preclaimed>>
        /\ \A d \in Callers : d # c => ctask'[d] = ctask[d]
    BY <1>1
    DEF Enqueue, EnqueueCheck, EnqueueReuse, EnqueueMiss, EnqueueRegister,
        EnqueuePersist, EnqueuePersistFails, EnqueueAdmit, EnqueueFenced, EnqueueFull,
        EnqueueRollback, EnqueueRollbackFails, CallerReturns, TypeOK
  <2>2. ctask'[c] \in {ctask[c], NoTask} \/ EnqueueRegister(c)
    BY <1>1
    DEF Enqueue, EnqueueCheck, EnqueueReuse, EnqueueMiss,
        EnqueuePersist, EnqueuePersistFails, EnqueueAdmit, EnqueueFenced, EnqueueFull,
        EnqueueRollback, EnqueueRollbackFails, CallerReturns, TypeOK
  <2> QED
    BY <1>1, <2>1, <2>2
<1>2. ASSUME NEW w \in Workers, Worker(w) PROVE Goal
  <2>1. /\ UNCHANGED <<shutdown, ctask>>
        /\ \A v \in Workers : v # w => wpc'[v] = wpc[v] /\ handoff'[v] = handoff[v]
    BY <1>2
    DEF Worker, WorkerExit, WorkerTakeHandoff, WorkerTake, WorkerDefer, WorkerClaim,
        WorkerUnknown, PersistRunning, PersistRunningFails, StartRunner,
        StartRunnerFails, SlotTimeout, Decide, Publish, PublishFails, WorkerError,
        Record, FinishRelease, FinishHandOver, Requeue, RequeueFull, Goto, TypeOK
  <2>2. wpc'[w] = "exited" => wpc[w] = "exited" \/ WorkerExit(w)
    BY <1>2
    DEF Worker, WorkerTakeHandoff, WorkerTake, WorkerDefer, WorkerClaim,
        WorkerUnknown, PersistRunning, PersistRunningFails, StartRunner,
        StartRunnerFails, SlotTimeout, Decide, Publish, PublishFails, WorkerError,
        Record, FinishRelease, FinishHandOver, Requeue, RequeueFull, Goto, TypeOK
  <2>3. \A a \in Agents : preclaimed'[a] \in {preclaimed[a], NoTask}
          \/ (FinishHandOver(w) /\ a = AgentOf(wtask[w]))
    <3>1. CASE FinishHandOver(w)
      BY <3>1 DEF FinishHandOver, TypeOK
    <3>2. CASE WorkerClaim(w)
      BY <3>2 DEF WorkerClaim, TypeOK
    <3>3. CASE ~FinishHandOver(w) /\ ~WorkerClaim(w)
      BY <1>2, <3>3
      DEF Worker, WorkerExit, WorkerTakeHandoff, WorkerTake, WorkerDefer,
          WorkerUnknown, PersistRunning, PersistRunningFails, StartRunner,
          StartRunnerFails, SlotTimeout, Decide, Publish, PublishFails, WorkerError,
          Record, FinishRelease, Requeue, RequeueFull
    <3> QED
      BY <3>1, <3>2, <3>3
  <2> QED
    BY <1>2, <2>1, <2>2, <2>3
<1>3. ASSUME NEW t \in Tasks, Runner(t) PROVE Goal
  BY <1>3 DEF Runner, ExecuteFails, ClaimCommit, ClaimRefused, Commit, FinishCommit,
              CommitRaises, RunnerVanishes
<1>4. CASE \/ \E w \in Workers : DeadlinePasses(w)
           \/ ShutdownBegin \/ CloseLedger \/ Quiescent \/ UNCHANGED vars
  BY <1>4 DEF DeadlinePasses, ShutdownBegin, CloseLedger, Quiescent, vars
<1> QED
  BY <1>1, <1>2, <1>3, <1>4 DEF Next

\* What waits stays without a result, and somebody comes for it.
LEMMA WaitsStep ==
  ASSUME TypeOK, Control, Unique, TypeOK', Waits, [Next]_vars, ~CrashRestart
  PROVE  Waits'
<1> USE TasksFacts DEF Waits
<1>1. Carried'
  <2> SUFFICES ASSUME NEW w \in Workers, handoff'[w] # NoTask
               PROVE  wpc'[w] \in {"idle", "exited"}
    BY DEF Carried
  <2>1. CASE wpc'[w] = wpc[w] /\ handoff'[w] = handoff[w]
    BY <2>1 DEF Carried
  <2>2. CASE Worker(w)
    BY <2>2
    DEF Worker, WorkerExit, WorkerTakeHandoff, WorkerTake, WorkerDefer, WorkerClaim,
        WorkerUnknown, PersistRunning, PersistRunningFails, StartRunner,
        StartRunnerFails, SlotTimeout, Decide, Publish, PublishFails, WorkerError,
        Record, FinishRelease, FinishHandOver, Requeue, RequeueFull, Goto, Carried,
        TypeOK
  <2> QED
    BY <2>1, <2>2, ControlPoints
<1>2. ASSUME NEW t \in Tasks, Queued(t)' PROVE Live(t)'
  <2>1. CASE Queued(t)
    <3>1. Live(t)
      BY <2>1
    <3>2. /\ \A c \in Callers : ~Drops(c, t)
          /\ \A w \in Workers : ~(wpc[w] = "record" /\ wtask[w] = t)
      BY <2>1, QueuedAlone DEF Drops
    <3> QED
      BY <3>1, <3>2, MemoryStep DEF Live
  <2>2. CASE \E c \in Callers : EnqueueAdmit(c) /\ t = ctask[c]
    BY <2>2 DEF EnqueueAdmit, Live
  <2> QED
    BY <1>2, <2>1, <2>2, QueuedStep
<1>3. ASSUME NEW c \in Callers, ctask'[c] # NoTask PROVE Live(ctask[c])'
  <2>1. CASE ctask'[c] = ctask[c]
    <3>1. PICK t \in Tasks : t = ctask[c] /\ Live(t)
      BY <1>3, <2>1 DEF TypeOK, MaybeTask
    <3>2. \A d \in Callers : ~Drops(d, t)
      BY <1>3, <2>1, <3>1 DEF Drops, Unique
    <3>3. \A w \in Workers : wtask[w] # t
      BY <1>3, <2>1, <3>1 DEF Unique
    <3>4. Live(t)'
      BY <3>1, <3>2, <3>3, MemoryStep DEF Live
    <3> QED
      BY <2>1, <3>1, <3>4 DEF Live
  <2>2. CASE EnqueueRegister(c)
    <3>1. PICK t \in Tasks : /\ Fresh(t) /\ tasks' = tasks \cup {t}
                             /\ ctask' = [ctask EXCEPT ![c] = t]
      BY <2>2 DEF EnqueueRegister
    <3>2. ctask'[c] = t /\ results[t] = "none"
      BY <3>1 DEF Fresh, TypeOK
    <3>3. results' = results
      BY <2>2 DEF EnqueueRegister
    <3> QED
      BY <3>1, <3>2, <3>3 DEF Live
  <2> QED
    BY <1>3, <2>1, <2>2, ControlPoints
<1>4. ASSUME NEW t \in Tasks, job'[t] = NoJob
      PROVE  t \notin tasks' /\ results'[t] = "none"
  <2>1. job[t] = NoJob
    BY <1>4, MemoryStep
  <2>2. \A w \in Workers : wtask[w] # t
    BY <2>1, NoneAssumption DEF Control, AgentOf, NoJob
  <2>3. \A c \in Callers : ctask[c] # t
    BY <2>1, NoneAssumption DEF Control, AgentOf, NoJob
  <2> QED
    BY <1>4, <2>1, <2>2, <2>3, MemoryStep DEF Drops
<1>5. ASSUME NEW a \in Agents, preclaimed'[a] # NoTask
      PROVE  \E t \in Tasks : t = preclaimed'[a] /\ Queued(t)' /\ AgentOf(t)' = a
  <2>1. CASE preclaimed'[a] = preclaimed[a]
    <3>1. PICK t \in Tasks : t = preclaimed[a] /\ Queued(t) /\ AgentOf(t) = a
      BY <1>5, <2>1 DEF TypeOK, MaybeTask
    <3>2. ASSUME NEW w \in Workers, WorkerClaim(w), t = wtask[w] PROVE FALSE
      BY <1>5, <2>1, <3>1, <3>2 DEF WorkerClaim, IsPreclaimed, TypeOK
    <3>3. Queued(t)'
      BY <3>1, <3>2, QueuedStep
    <3>4. job'[t] = job[t]
      BY <3>1, QueuedAlone, MemoryStep
    <3> QED
      BY <2>1, <3>1, <3>3, <3>4 DEF AgentOf
  <2>2. ASSUME NEW w \in Workers, FinishHandOver(w), a = AgentOf(wtask[w])
        PROVE  \E t \in Tasks : t = preclaimed'[a] /\ Queued(t)' /\ AgentOf(t)' = a
    <3>1. deferred[a] \in Seq(Tasks) /\ deferred[a] # <<>>
      BY <2>2 DEF FinishHandOver, TypeOK
    <3>2. PICK t \in Tasks : t = Head(deferred[a]) /\ t = deferred[a][1]
                             /\ 1 \in 1 .. Len(deferred[a])
      BY <3>1
    <3>3. AgentOf(t) = a
      BY <3>2 DEF Control
    <3>4. /\ preclaimed'[a] = t /\ wtask'[w] = t /\ wpc'[w] = "requeue"
          /\ UNCHANGED job
      BY <2>2, <3>2 DEF FinishHandOver, Goto, TypeOK
    <3> QED
      BY <3>3, <3>4 DEF Queued, AgentOf
  <2> QED
    BY <1>5, <2>1, <2>2, ControlPoints
<1>6. ASSUME NEW w \in Workers, wpc'[w] = "exited"
      PROVE  shutdown' /\ \A t \in Tasks : ~Queued(t)'
  <2>1. shutdown /\ \A t \in Tasks : ~Queued(t)
    <3>1. CASE wpc[w] = "exited"
      BY <3>1
    <3>2. CASE WorkerExit(w)
      BY <3>2 DEF WorkerExit, Drained, Live
    <3> QED
      BY <1>6, <3>1, <3>2, ControlPoints
  <2>2. \A c \in Callers : ~EnqueueAdmit(c)
    BY <2>1 DEF EnqueueAdmit
  <2> QED
    BY <2>1, <2>2, QueuedStep, ControlPoints
<1>7. ASSUME NEW a \in Agents, preclaimed'[a] # NoTask
      PROVE  Queued(preclaimed[a])' /\ AgentOf(preclaimed[a])' = a
  BY <1>5, <1>7 DEF Queued, InPending, InDeferred, AgentOf
<1> QED
  BY <1>1, <1>2, <1>3, <1>4, <1>6, <1>7

(***************************************************************************)
(* The slot of an agent (Slots): unless the agent is fenced it has one owner. *)
(* The claim of a fenced agent's slot is shared, but starts nothing.       *)
(***************************************************************************)
\* After a crash only the rows recovery may run again wait.
LEMMA WaitsCrash ==
  ASSUME TypeOK, Control, TypeOK', CrashRestart
  PROVE  Waits'
<1> USE TasksFacts
<1>1. /\ tasks' = OpenRows /\ UNCHANGED job
      /\ results' = [t \in Tasks |-> IF t \in FencedRows THEN "unknown" ELSE "none"]
      /\ \A w \in Workers : /\ wpc'[w] = "idle" /\ wtask'[w] = NoTask
                             /\ handoff'[w] = NoTask
      /\ \A c \in Callers : ctask'[c] = NoTask
      /\ \A a \in Agents : deferred'[a] = <<>> /\ preclaimed'[a] = NoTask
  BY DEF CrashRestart
<1>2. ASSUME NEW t \in Tasks, Queued(t)' PROVE Live(t)'
  <2>1. t \in SafeRows
    BY <1>1, <1>2, RecoveryType DEF Queued, InPending, InDeferred
  <2> QED
    BY <1>1, <2>1 DEF Live, SafeRows
<1>3. ASSUME NEW t \in Tasks, job'[t] = NoJob
      PROVE  t \notin tasks' /\ results'[t] = "none"
  <2>1. ledger[t] = "absent"
    BY <1>1, <1>3, NoneAssumption DEF Control, AgentOf, NoJob
  <2> QED
    BY <1>1, <2>1 DEF OpenRows, FencedRows
<1> QED
  BY <1>1, <1>2, <1>3 DEF Waits, Carried

\* A step that moves no slot, and fences no agent under supervision.
LEMMA SlotsFrame ==
  ASSUME TypeOK, Slots, UNCHANGED <<running, preclaimed, deferred>>,
         uncertain \subseteq uncertain',
         \A w \in Workers, a \in Agents : OwnsRun(w, a)' <=> OwnsRun(w, a),
         \A w \in Workers : InRun(w)' => AgentOf(wtask[w])' \notin uncertain'
  PROVE  Slots'
<1>1. \A a \in Agents : Owned(a)' <=> Owned(a)
  BY DEF Owned
<1> QED
  BY <1>1 DEF Slots

\* The job of a task in a worker's hands never changes.
LEMMA HeldJob ==
  ASSUME TypeOK, Control, Unique, TypeOK', [Next]_vars,
         NEW w \in Workers, wtask[w] # NoTask
  PROVE  /\ wtask[w] \in Tasks /\ AgentOf(wtask[w]) \in Agents
         /\ job'[wtask[w]] = job[wtask[w]]
<1>1. wtask[w] \in Tasks /\ AgentOf(wtask[w]) \in Agents
  BY DEF TypeOK, MaybeTask, Control
<1>2. job[wtask[w]] # NoJob
  BY <1>1, NoneAssumption DEF AgentOf, NoJob
<1>3. CASE CrashRestart
  BY <1>1, <1>3 DEF CrashRestart
<1>4. CASE ~CrashRestart
  BY <1>1, <1>2, <1>4, MemoryStep
<1> QED
  BY <1>1, <1>3, <1>4

\* The slot of an agent that is not fenced has one owner.
LEMMA SlotsStep ==
  ASSUME TypeOK, Control, Unique, TypeOK', Control', Slots, [Next]_vars, ~CrashRestart
  PROVE  Slots'
<1> USE TasksFacts
<1>1. \A w \in Workers : wtask[w] # NoTask =>
        /\ wtask[w] \in Tasks /\ AgentOf(wtask[w]) \in Agents
        /\ job'[wtask[w]] = job[wtask[w]]
  BY HeldJob
\* steps that change no control point of a worker
<1>2. ASSUME UNCHANGED <<running, preclaimed, deferred, uncertain, wpc, wtask>>
      PROVE  Slots'
  <2>1. \A w \in Workers, a \in Agents : OwnsRun(w, a)' <=> OwnsRun(w, a)
    BY <1>1, <1>2 DEF InRun, OwnsRun, AgentOf
  <2>2. \A w \in Workers : InRun(w)' => AgentOf(wtask[w])' \notin uncertain'
    BY <1>1, <1>2 DEF InRun, AgentOf, Slots, Control
  <2> QED
    BY <1>2, <2>1, <2>2, SlotsFrame
\* steps of a worker that keep it the owner, or no owner, of the slot
<1>3. ASSUME NEW w \in Workers,
             UNCHANGED <<running, preclaimed, deferred, uncertain>>,
             \A v \in Workers : v # w => wpc'[v] = wpc[v] /\ wtask'[v] = wtask[v],
             InRun(w)' => InRun(w),
             \/ /\ wtask'[w] = wtask[w]
                /\ wpc[w] \in {"unknown", "starting", "slot", "join", "publish", "error",
                               "record"}
                /\ wpc'[w] \in {"unknown", "starting", "slot", "join", "publish", "error",
                                "record", "finish"}
             \/ /\ wpc[w] \in {"idle", "claim", "requeue"}
                /\ wpc'[w] \in {"idle", "claim", "exited"}
      PROVE  Slots'
  <2>1. \A v \in Workers, a \in Agents : OwnsRun(v, a)' <=> OwnsRun(v, a)
    BY <1>1, <1>3 DEF InRun, OwnsRun, AgentOf
  <2>2. \A v \in Workers : InRun(v)' => InRun(v) /\ wtask'[v] = wtask[v]
    BY <1>3 DEF InRun
  <2>3. \A v \in Workers : InRun(v) => wtask[v] # NoTask
    BY DEF InRun, Control
  <2>4. \A v \in Workers : InRun(v)' => AgentOf(wtask[v])' \notin uncertain'
    BY <1>1, <1>3, <2>2, <2>3 DEF AgentOf, Slots
  <2> QED
    BY <1>3, <2>1, <2>4, SlotsFrame
<1>4. ASSUME NEW w \in Workers, WorkerUnknown(w) PROVE Slots'
  <2> DEFINE b == AgentOf(wtask[w])
  <2>1. /\ UNCHANGED <<running, preclaimed, deferred, wtask, job>>
        /\ uncertain' = uncertain \cup {b}
        /\ wpc' = [wpc EXCEPT ![w] = "record"] /\ wpc[w] = "unknown"
    BY <1>4 DEF WorkerUnknown, Goto, UnknownOutcome
  <2>2. \A v \in Workers, a \in Agents : OwnsRun(v, a)' <=> OwnsRun(v, a)
    BY <2>1 DEF InRun, OwnsRun, AgentOf, TypeOK
  <2>3. \A v \in Workers : InRun(v)' => InRun(v) /\ v # w
    BY <2>1 DEF InRun, TypeOK
  <2>4. ASSUME NEW v \in Workers, InRun(v)'
        PROVE  AgentOf(wtask[v])' \notin uncertain'
    <3>1. InRun(v) /\ v # w /\ AgentOf(wtask[v]) \notin uncertain
      BY <2>3, <2>4 DEF Slots
    <3>2. AgentOf(wtask[v]) # b
      <4> SUFFICES ASSUME AgentOf(wtask[v]) = b PROVE FALSE
        OBVIOUS
      <4>1. b \in Agents \ uncertain
        BY <1>1, <2>1, <3>1 DEF Control
      <4>2. OwnsRun(v, b) /\ OwnsRun(w, b)
        BY <1>1, <2>1, <3>1 DEF InRun, OwnsRun, InRun, Control
      <4> QED
        BY <3>1, <4>1, <4>2 DEF Slots
    <3> QED
      BY <2>1, <3>1, <3>2 DEF AgentOf
  <2> QED
    BY <2>1, <2>2, <2>4, SlotsFrame
<1>5. ASSUME NEW c \in Callers, EnqueueFenced(c) PROVE Slots'
  <2>1. UNCHANGED <<running, preclaimed, deferred, uncertain, wpc, wtask>>
    BY <1>5 DEF EnqueueFenced, UnknownOutcome
  <2> QED
    BY <1>2, <2>1
<1>6. ASSUME NEW w \in Workers, WorkerDefer(w) PROVE Slots'
  <2> DEFINE b == AgentOf(wtask[w])
  <2>1. wtask[w] \in Tasks /\ b \in Agents
    BY <1>6, WorkerHolds DEF WorkerDefer
  <2>2. /\ UNCHANGED <<running, preclaimed, uncertain, job>>
        /\ deferred' = [deferred EXCEPT ![b] = Append(deferred[b], wtask[w])]
        /\ wpc[w] = "claim" /\ wpc' = [wpc EXCEPT ![w] = "idle"]
        /\ wtask' = [wtask EXCEPT ![w] = NoTask]
        /\ b \in running /\ b \notin uncertain
    BY <1>6 DEF WorkerDefer, Goto, Busy
  <2>3. \A v \in Workers, a \in Agents : OwnsRun(v, a)' <=> OwnsRun(v, a)
    BY <2>2 DEF InRun, OwnsRun, AgentOf, TypeOK
  <2>4. \A v \in Workers : InRun(v)' => AgentOf(wtask[v])' \notin uncertain'
    BY <2>2 DEF InRun, AgentOf, TypeOK, Slots
  <2>5. \A a \in Agents : Owned(a)' <=> Owned(a)
    BY <2>2, <2>3 DEF Owned
  <2>6. \A a \in Agents : deferred'[a] # <<>> => Owned(a)
    BY <2>1, <2>2 DEF Slots, TypeOK
  <2> QED
    BY <2>2, <2>3, <2>4, <2>5, <2>6 DEF Slots
<1>7. ASSUME NEW w \in Workers, WorkerClaim(w) PROVE Slots'
  <2>1. PICK t \in Tasks, b \in Agents : t = wtask[w] /\ b = AgentOf(t)
    BY <1>7, WorkerHolds DEF WorkerClaim
  <2>2. /\ UNCHANGED <<deferred, uncertain, job, wtask>>
        /\ wpc[w] = "claim"
        /\ wpc' = [wpc EXCEPT ![w] = IF b \in uncertain THEN "unknown" ELSE "starting"]
        /\ preclaimed' = IF preclaimed[b] = t THEN [preclaimed EXCEPT ![b] = NoTask]
                                              ELSE preclaimed
        /\ running' = IF preclaimed[b] = t THEN running ELSE running \cup {b}
        /\ b \notin running \/ preclaimed[b] = t \/ b \in uncertain
    BY <1>7, <2>1 DEF WorkerClaim, Goto, IsPreclaimed, Busy
  <2>3. \A v \in Workers, a \in Agents :
          OwnsRun(v, a)' <=> OwnsRun(v, a) \/ (v = w /\ a = b)
    BY <2>1, <2>2 DEF InRun, OwnsRun, AgentOf, TypeOK
  <2>4. \A v \in Workers : InRun(v)' => AgentOf(wtask[v])' \notin uncertain'
    BY <2>1, <2>2 DEF InRun, AgentOf, TypeOK, Slots
  <2>5. \A a \in Agents : a # b => /\ preclaimed'[a] = preclaimed[a]
                                   /\ a \in running' <=> a \in running
    BY <2>2 DEF TypeOK
  <2>6. b \notin uncertain =>
          /\ \A v \in Workers : ~OwnsRun(v, b)
          /\ preclaimed'[b] = NoTask /\ b \in running'
    BY <2>1, <2>2 DEF Slots, TypeOK
  <2>7. Owned(b)'
    BY <2>3 DEF Owned
  <2>8. \A a \in Agents : a # b => (Owned(a)' <=> Owned(a))
    BY <2>3, <2>5 DEF Owned
  <2> QED
    BY <2>2, <2>3, <2>4, <2>5, <2>6, <2>7, <2>8 DEF Slots
<1>8. ASSUME NEW w \in Workers, FinishRelease(w) PROVE Slots'
  <2>1. PICK b \in Agents : b = AgentOf(wtask[w]) /\ wtask[w] # NoTask
    BY <1>8, WorkerHolds DEF FinishRelease
  <2>2. /\ UNCHANGED <<deferred, preclaimed, uncertain, job>>
        /\ wpc[w] = "finish" /\ wpc' = [wpc EXCEPT ![w] = "idle"]
        /\ wtask' = [wtask EXCEPT ![w] = NoTask]
        /\ running' = running \ {b} /\ deferred[b] = <<>>
    BY <1>8, <2>1 DEF FinishRelease, Goto
  <2>3. \A v \in Workers, a \in Agents : OwnsRun(v, a)' <=> OwnsRun(v, a) /\ v # w
    BY <2>1, <2>2 DEF InRun, OwnsRun, AgentOf, TypeOK
  <2>4. \A v \in Workers : InRun(v)' => AgentOf(wtask[v])' \notin uncertain'
    BY <2>1, <2>2 DEF InRun, AgentOf, TypeOK, Slots
  <2>5. OwnsRun(w, b) /\ \A a \in Agents : OwnsRun(w, a) => a = b
    BY <2>1, <2>2 DEF InRun, OwnsRun
  <2>6. b \notin uncertain =>
          /\ \A v \in Workers : OwnsRun(v, b) => v = w
          /\ preclaimed[b] = NoTask
    BY <2>5 DEF Slots
  <2>7. \A a \in Agents : a # b => (Owned(a)' <=> Owned(a))
    BY <2>2, <2>3, <2>5 DEF Owned
  <2> QED
    BY <2>2, <2>3, <2>4, <2>5, <2>6, <2>7 DEF Slots
<1>9. ASSUME NEW w \in Workers, FinishHandOver(w) PROVE Slots'
  <2>1. PICK b \in Agents : b = AgentOf(wtask[w]) /\ wtask[w] # NoTask
    BY <1>9, WorkerHolds DEF FinishHandOver
  <2>2. deferred[b] \in Seq(Tasks) /\ deferred[b] # <<>>
    BY <1>9, <2>1 DEF FinishHandOver, TypeOK
  <2>3. PICK t \in Tasks : t = Head(deferred[b])
    BY <2>2
  <2>4. /\ UNCHANGED <<uncertain, job>>
        /\ preclaimed' = [preclaimed EXCEPT ![b] = t]
        /\ wpc[w] = "finish" /\ wpc' = [wpc EXCEPT ![w] = "requeue"]
        /\ wtask' = [wtask EXCEPT ![w] = t]
        /\ running' = running \cup {b}
        /\ deferred' = [deferred EXCEPT ![b] = Tail(deferred[b])]
    BY <1>9, <2>1, <2>3 DEF FinishHandOver, Goto
  <2>5. \A v \in Workers, a \in Agents : OwnsRun(v, a)' <=> OwnsRun(v, a) /\ v # w
    BY <2>1, <2>4 DEF InRun, OwnsRun, AgentOf, TypeOK
  <2>6. \A v \in Workers : InRun(v)' => AgentOf(wtask[v])' \notin uncertain'
    BY <2>1, <2>4 DEF InRun, AgentOf, TypeOK, Slots
  <2>7. OwnsRun(w, b) /\ \A a \in Agents : OwnsRun(w, a) => a = b
    BY <2>1, <2>4 DEF InRun, OwnsRun
  <2>8. b \notin uncertain => \A v \in Workers : OwnsRun(v, b) => v = w
    BY <2>7 DEF Slots
  <2>9. \A a \in Agents : a # b =>
          /\ Owned(a)' <=> Owned(a)
          /\ preclaimed'[a] = preclaimed[a] /\ deferred'[a] = deferred[a]
          /\ a \in running' <=> a \in running
    BY <2>4, <2>5, <2>7 DEF Owned, TypeOK
  <2>10. Owned(b)' /\ preclaimed'[b] = t /\ b \in running'
    BY <2>4 DEF Owned, TypeOK
  <2> QED
    BY <2>4, <2>5, <2>6, <2>7, <2>8, <2>9, <2>10 DEF Slots
<1> QED
  <2>1. ASSUME NEW c \in Callers, Enqueue(c) PROVE Slots'
    <3>1. CASE \/ EnqueueReuse(c) \/ EnqueueMiss(c) \/ EnqueueAdmit(c)
               \/ EnqueueRegister(c) \/ EnqueuePersist(c) \/ EnqueuePersistFails(c)
      BY <3>1, <1>2
      DEF EnqueueReuse, EnqueueMiss, EnqueueAdmit, EnqueueRegister, EnqueuePersist,
          EnqueuePersistFails
    <3>2. CASE \/ EnqueueFull(c) \/ EnqueueRollback(c) \/ EnqueueRollbackFails(c)
               \/ \E a \in Agents, k \in Kinds : EnqueueCheck(c, a, k)
      BY <3>2, <1>2
      DEF EnqueueFull, EnqueueRollback, EnqueueRollbackFails, EnqueueCheck
    <3> QED
      BY <2>1, <3>1, <3>2, <1>5 DEF Enqueue
  <2>2. ASSUME NEW w \in Workers, Worker(w) PROVE Slots'
    <3>1. CASE \/ WorkerExit(w) \/ WorkerTakeHandoff(w) \/ WorkerTake(w)
               \/ Requeue(w) \/ RequeueFull(w)
      <4>1. /\ wpc[w] \in {"idle", "requeue"}
            /\ \E p \in {"idle", "claim", "exited"} : wpc' = [wpc EXCEPT ![w] = p]
        BY <3>1
        DEF WorkerExit, WorkerTakeHandoff, WorkerTake, Requeue, RequeueFull, Goto
      <4>2. UNCHANGED <<running, preclaimed, deferred, uncertain>>
        BY <3>1 DEF WorkerExit, WorkerTakeHandoff, WorkerTake, Requeue, RequeueFull
      <4>3. wtask' = wtask \/ \E t : wtask' = [wtask EXCEPT ![w] = t]
        BY <3>1 DEF WorkerExit, WorkerTakeHandoff, WorkerTake, Requeue, RequeueFull
      <4> QED
        BY <4>1, <4>2, <4>3, <1>3 DEF InRun, TypeOK
    <3>2. CASE \/ PersistRunning(w) \/ PersistRunningFails(w) \/ StartRunner(w)
               \/ StartRunnerFails(w) \/ SlotTimeout(w)
      BY <3>2, <1>3
      DEF PersistRunning, PersistRunningFails, StartRunner, StartRunnerFails,
          SlotTimeout, Goto, TypeOK, InRun
    <3>3. CASE Decide(w)
      <4>1. /\ wpc[w] = "join" /\ wpc'[w] \in {"unknown", "publish"}
            /\ \A v \in Workers : v # w => wpc'[v] = wpc[v]
        BY <3>3 DEF Decide, Goto, TypeOK
      <4> QED
        BY <3>3, <4>1, <1>3 DEF Decide, InRun
    <3>4. CASE PublishFails(w)
      <4>1. /\ wpc[w] = "publish" /\ wpc'[w] \in {"unknown", "error"}
            /\ \A v \in Workers : v # w => wpc'[v] = wpc[v]
        BY <3>4 DEF PublishFails, Goto, TypeOK
      <4> QED
        BY <3>4, <4>1, <1>3 DEF PublishFails, InRun
    <3>5. CASE Publish(w) \/ WorkerError(w) \/ Record(w)
      <4>1. /\ wpc[w] \in {"publish", "error", "record"}
            /\ wpc' = [wpc EXCEPT ![w] = IF Record(w) THEN "finish" ELSE "record"]
        BY <3>5 DEF Publish, WorkerError, Record, Goto
      <4>2. UNCHANGED <<running, preclaimed, deferred, uncertain, wtask>>
        BY <3>5 DEF Publish, WorkerError, Record
      <4> QED
        BY <4>1, <4>2, <1>3 DEF InRun, TypeOK
    <3> QED
      BY <2>2, <3>1, <3>2, <3>3, <3>4, <3>5, <1>4, <1>6, <1>7, <1>8, <1>9 DEF Worker
  <2>3. ASSUME NEW t \in Tasks, Runner(t) PROVE Slots'
    BY <2>3, <1>2 DEF Runner, ExecuteFails, ClaimCommit, ClaimRefused, Commit,
                      FinishCommit, CommitRaises, RunnerVanishes
  <2>4. CASE (\E w \in Workers : DeadlinePasses(w)) \/ ShutdownBegin \/ CloseLedger
    BY <2>4, <1>2 DEF DeadlinePasses, ShutdownBegin, CloseLedger
  <2>5. CASE Quiescent \/ UNCHANGED vars
    BY <2>5, <1>2 DEF Quiescent, vars
  <2> QED
    BY <2>1, <2>2, <2>3, <2>4, <2>5 DEF Next

(***************************************************************************)
(* The runs that may still commit (Runs): supervised, or their agent fenced. *)
(***************************************************************************)
\* A step after which no other run may commit, and those that may are still
\* supervised or their agent is fenced.
LEMMA RunsFrame ==
  ASSUME Runs, uncertain \subseteq uncertain',
         \A x \in Tasks : MayCommit(x)' =>
           /\ MayCommit(x) /\ x \notin effect' /\ job'[x] = job[x]
           /\ ledger'[x] \in {"running", "unknown"}
           /\ Supervised(x) => Supervised(x)' \/ AgentOf(x) \in uncertain'
  PROVE  Runs'
  BY DEF Runs, NoOverlappingCommit, SameAgent, AgentOf

\* A run that may commit was started: its task has a job and no caller.
LEMMA CommitterFacts ==
  ASSUME TypeOK, Control, Stages, NEW x \in Tasks, MayCommit(x)
  PROVE  /\ rpc[x] # "none" /\ job[x] # NoJob
         /\ \A c \in Callers : ctask[c] # x
         /\ ~Dead(x)
<1>1. rpc[x] # "none"
  BY DEF MayCommit
<1>2. job[x] # NoJob
  BY <1>1 DEF Stages, FreshOK, Untouched
<1>3. \A c \in Callers : ctask[c] # x
  BY <1>1, TasksFacts DEF Stages, CallerOK, Untouched
<1>4. ~Dead(x)
  BY DEF MayCommit, Dead, Stages, RunOK
<1> QED
  BY <1>1, <1>2, <1>3, <1>4

\* Two runs of an agent never both still reach their commit.
LEMMA RunsStep ==
  ASSUME TypeOK, Control, Unique, Stages, TypeOK', Slots, Runs, [Next]_vars,
         ~CrashRestart
  PROVE  Runs'
<1> USE TasksFacts
<1>1. ASSUME NEW c \in Callers, Enqueue(c) PROVE Runs'
  <2>1. /\ UNCHANGED <<rpc, perm, effect, wpc, wtask>>
    BY <1>1
    DEF Enqueue, EnqueueCheck, EnqueueReuse, EnqueueMiss, EnqueueRegister,
        EnqueuePersist, EnqueuePersistFails, EnqueueAdmit, EnqueueFenced, EnqueueFull,
        EnqueueRollback, EnqueueRollbackFails
  <2>2. uncertain \subseteq uncertain'
    BY <1>1
    DEF Enqueue, EnqueueCheck, EnqueueReuse, EnqueueMiss, EnqueueRegister,
        EnqueuePersist, EnqueuePersistFails, EnqueueAdmit, EnqueueFenced, EnqueueFull,
        EnqueueRollback, EnqueueRollbackFails, UnknownOutcome
  <2>3. \A x \in Tasks : ledger'[x] = ledger[x] \/ x = ctask[c]
    BY <1>1
    DEF Enqueue, EnqueueCheck, EnqueueReuse, EnqueueMiss, EnqueueRegister,
        EnqueuePersist, EnqueuePersistFails, EnqueueAdmit, EnqueueFenced, EnqueueFull,
        EnqueueRollback, EnqueueRollbackFails, UnknownOutcome, MarkUnknown, SetRow,
        InsertRow, DeleteRow, TypeOK
  <2>4. \A x \in Tasks : MayCommit(x)' => MayCommit(x)
    BY <2>1 DEF MayCommit
  <2>5. \A x \in Tasks : Supervised(x)' <=> Supervised(x)
    BY <2>1 DEF Supervised
  <2>6. \A x \in Tasks : MayCommit(x) =>
          /\ job'[x] = job[x] /\ ledger'[x] = ledger[x] /\ x \notin effect'
    BY <2>1, <2>3, CommitterFacts, MemoryStep DEF Runs
  <2>7. \A x \in Tasks : MayCommit(x) => ledger[x] \in {"running", "unknown"}
    BY DEF Runs
  <2> QED
    BY <2>2, <2>4, <2>5, <2>6, <2>7, RunsFrame
\* steps of a worker that decide nothing
<1>2. ASSUME NEW w \in Workers,
             UNCHANGED <<effect, job, uncertain>>,
             \A v \in Workers : v # w => wpc'[v] = wpc[v] /\ wtask'[v] = wtask[v],
             wpc[w] \notin {"join", "unknown"},
             \A x \in Tasks : MayCommit(x)' => MayCommit(x) /\ ledger'[x] = ledger[x]
      PROVE  Runs'
  <2>1. \A x \in Tasks : Supervised(x) => Supervised(x)'
    BY <1>2 DEF Supervised
  <2> QED
    BY <1>2, <2>1, RunsFrame DEF Runs
<1>3. ASSUME NEW w \in Workers, WorkerUnknown(w) PROVE Runs'
  <2> DEFINE t == wtask[w]
  <2>1. /\ UNCHANGED <<effect, job, rpc, perm, wtask>>
        /\ uncertain' = uncertain \cup {AgentOf(t)}
        /\ \A v \in Workers : v # w => wpc'[v] = wpc[v]
    BY <1>3 DEF WorkerUnknown, UnknownOutcome, Goto, TypeOK
  <2>2. \A x \in Tasks : ledger'[x] = ledger[x]
           \/ (ledger[x] \in {"pending", "running", "unknown"} /\ ledger'[x] = "unknown")
    BY <1>3 DEF WorkerUnknown, UnknownOutcome, MarkUnknown, SetRow, TypeOK
  <2>3. \A x \in Tasks : MayCommit(x)' => MayCommit(x)
    BY <2>1 DEF MayCommit
  <2>4. \A x \in Tasks : Supervised(x) => Supervised(x)' \/ AgentOf(x) \in uncertain'
    BY <2>1 DEF Supervised
  <2> QED
    BY <2>1, <2>2, <2>3, <2>4, RunsFrame DEF Runs
<1>4. ASSUME NEW w \in Workers, Decide(w) PROVE Runs'
  <2> DEFINE d == DecidedState(wtask[w])
  <2>1. PICK t \in Tasks : t = wtask[w]
    BY <1>4, WorkerHolds DEF Decide
  <2>2. /\ UNCHANGED <<effect, job, rpc, ledger, uncertain, wtask>>
        /\ perm' = [perm EXCEPT ![t] = d]
        /\ \A v \in Workers : v # w => wpc'[v] = wpc[v]
        /\ d = "unknown" => wpc'[w] = "unknown"
    BY <1>4, <2>1 DEF Decide, Goto, TypeOK
  <2>3. d # "running"
    BY <2>1 DEF DecidedState
  <2>4. rpc[t] = "permitted" => d = "unknown"
    BY <2>1 DEF DecidedState, Stages, RunOK
  <2> HIDE DEF d
  <2>5. \A x \in Tasks : MayCommit(x)' => MayCommit(x) /\ (x = t => d = "unknown")
    BY <2>2, <2>3, <2>4 DEF MayCommit, TypeOK
  <2>6. \A x \in Tasks : MayCommit(x)' /\ Supervised(x) => Supervised(x)'
    BY <2>1, <2>2, <2>5 DEF Supervised
  <2> QED
    BY <2>2, <2>5, <2>6, RunsFrame DEF Runs
<1>5. ASSUME NEW w \in Workers, StartRunner(w) PROVE Runs'
  <2>1. PICK t \in Tasks, b \in Agents : t = wtask[w] /\ b = AgentOf(t)
    BY <1>5, WorkerHolds DEF StartRunner
  <2>2. /\ UNCHANGED <<effect, job, perm, ledger, uncertain, wtask>>
        /\ rpc' = [rpc EXCEPT ![t] = "exec"]
        /\ wpc' = [wpc EXCEPT ![w] = "join"] /\ wpc[w] = "slot"
    BY <1>5, <2>1 DEF StartRunner, Goto
  <2>3. t \notin effect /\ ledger[t] = "running" /\ perm[t] = "running"
    BY <2>1, <2>2 DEF Stages, WorkerOK
  <2>4. \A x \in Tasks : MayCommit(x)' <=> MayCommit(x) \/ x = t
    BY <2>2, <2>3 DEF MayCommit, TypeOK
  <2>5. \A x \in Tasks : Supervised(x)' <=> Supervised(x) \/ x = t
    BY <2>1, <2>2 DEF Supervised, TypeOK
  <2>6. b \notin uncertain
    BY <2>1, <2>2 DEF Slots, InRun
  <2>7. ASSUME NEW u \in Tasks, MayCommit(u), AgentOf(u) = b PROVE u = t
    <3>1. PICK v \in Workers : wtask[v] = u /\ wpc[v] \in {"join", "unknown"}
      BY <2>6, <2>7 DEF Runs, Supervised
    <3>2. OwnsRun(v, b) /\ OwnsRun(w, b)
      BY <2>1, <2>2, <2>7, <3>1 DEF InRun, OwnsRun
    <3> QED
      BY <2>1, <2>6, <3>1, <3>2 DEF Slots
  <2> QED
    BY <2>1, <2>2, <2>3, <2>4, <2>5, <2>7 DEF Runs, NoOverlappingCommit, SameAgent, AgentOf
<1>6. ASSUME NEW w \in Workers, Publish(w) PROVE Runs'
  <2>1. PICK t \in Tasks, b \in Agents : t = wtask[w] /\ b = AgentOf(t)
    BY <1>6, WorkerHolds DEF Publish
  <2>2. ~MayCommit(t)
    <3>1. b \notin uncertain
      BY <1>6, <2>1 DEF Publish, Slots, InRun
    <3>2. ~Supervised(t)
      BY <1>6, <2>1 DEF Publish, Supervised, Unique
    <3> QED
      BY <2>1, <3>1, <3>2 DEF Runs
  <2>3. /\ UNCHANGED <<effect, job, rpc, perm, uncertain, wtask>>
        /\ \A v \in Workers : v # w => wpc'[v] = wpc[v]
        /\ wpc[w] = "publish"
        /\ \A x \in Tasks : x # t => ledger'[x] = ledger[x]
    BY <1>6, <2>1 DEF Publish, FinishRow, SetRow, Goto, TypeOK
  <2>4. \A x \in Tasks : MayCommit(x)' => MayCommit(x)
    BY <2>3 DEF MayCommit
  <2> QED
    BY <1>2, <2>2, <2>3, <2>4
<1>7. ASSUME NEW w \in Workers, WorkerError(w) PROVE Runs'
  <2>1. PICK t \in Tasks : t = wtask[w]
    BY <1>7, WorkerHolds DEF WorkerError
  <2>2. ~MayCommit(t)
    BY <1>7, <2>1, CommitterFacts DEF WorkerError, Stages, WorkerOK
  <2>3. /\ UNCHANGED <<effect, job, rpc, perm, uncertain, wtask>>
        /\ \A v \in Workers : v # w => wpc'[v] = wpc[v]
        /\ wpc[w] = "error"
    BY <1>7, <2>1 DEF WorkerError, Goto, TypeOK
  <2>4. \A x \in Tasks : x # t => ledger'[x] = ledger[x]
    BY <1>7, <2>1 DEF WorkerError, SetRow, TypeOK
  <2>5. \A x \in Tasks : MayCommit(x)' => MayCommit(x)
    BY <2>3 DEF MayCommit
  <2> QED
    BY <1>2, <2>2, <2>3, <2>4, <2>5
\* the permission of a run that has not started
<1>8. ASSUME NEW w \in Workers, PersistRunning(w) \/ SlotTimeout(w) PROVE Runs'
  <2>1. PICK t \in Tasks : t = wtask[w]
    BY <1>8, WorkerHolds DEF PersistRunning, SlotTimeout
  <2>2. rpc[t] = "none"
    BY <1>8, <2>1
    DEF PersistRunning, SlotTimeout, Stages, WorkerOK, WaitingOK, Waiting, Untouched
  <2>3. /\ UNCHANGED <<effect, job, rpc, uncertain, wtask>>
        /\ \A v \in Workers : v # w => wpc'[v] = wpc[v]
        /\ wpc[w] \in {"starting", "slot"}
        /\ \A x \in Tasks : x # t => perm'[x] = perm[x] /\ ledger'[x] = ledger[x]
    BY <1>8, <2>1 DEF PersistRunning, SlotTimeout, MarkRunning, SetRow, Goto, TypeOK
  <2>4. \A x \in Tasks : MayCommit(x)' => MayCommit(x) /\ x # t
    BY <2>2, <2>3 DEF MayCommit
  <2> QED
    BY <1>2, <2>3, <2>4
<1>9. ASSUME NEW w \in Workers, UNCHANGED <<effect, job, uncertain, rpc, perm, ledger>>,
             \A v \in Workers : v # w => wpc'[v] = wpc[v] /\ wtask'[v] = wtask[v],
             wpc[w] \notin {"join", "unknown"}
      PROVE  Runs'
  <2>1. \A x \in Tasks : MayCommit(x)' => MayCommit(x)
    BY <1>9 DEF MayCommit
  <2> QED
    BY <1>2, <1>9, <2>1
<1>10. ASSUME NEW t \in Tasks, Runner(t) PROVE Runs'
  <2>1. UNCHANGED <<job, uncertain, ledger, wpc, wtask>>
    BY <1>10 DEF Runner, ExecuteFails, ClaimCommit, ClaimRefused, Commit, FinishCommit,
                 CommitRaises, RunnerVanishes
  <2>2. \A x \in Tasks : MayCommit(x)' => MayCommit(x) /\ (x \in effect' => x \in effect)
    BY <1>10
    DEF Runner, ExecuteFails, ClaimCommit, ClaimRefused, Commit, FinishCommit,
        CommitRaises, RunnerVanishes, RunnerGone, PermitFinish, MayCommit, TypeOK
  <2>3. \A x \in Tasks : Supervised(x)' <=> Supervised(x)
    BY <2>1 DEF Supervised
  <2> QED
    BY <2>1, <2>2, <2>3, RunsFrame DEF Runs
<1>11. ASSUME UNCHANGED <<job, uncertain, ledger, wpc, wtask, effect, rpc, perm>>
       PROVE  Runs'
  BY <1>11 DEF Runs, MayCommit, Supervised, NoOverlappingCommit, SameAgent, AgentOf
<1> QED
  <2>1. ASSUME NEW w \in Workers, Worker(w) PROVE Runs'
    <3>1. CASE \/ WorkerExit(w) \/ WorkerTakeHandoff(w) \/ WorkerTake(w)
               \/ WorkerDefer(w) \/ WorkerClaim(w) \/ Requeue(w) \/ RequeueFull(w)
      BY <3>1, <1>9
      DEF WorkerExit, WorkerTakeHandoff, WorkerTake, WorkerDefer, WorkerClaim, Requeue,
          RequeueFull, Goto, TypeOK
    <3>2. CASE \/ PersistRunningFails(w) \/ StartRunnerFails(w) \/ PublishFails(w)
               \/ Record(w) \/ FinishRelease(w) \/ FinishHandOver(w)
      BY <3>2, <1>9
      DEF PersistRunningFails, StartRunnerFails, PublishFails, Record, FinishRelease,
          FinishHandOver, Goto, TypeOK
    <3> QED
      BY <2>1, <3>1, <3>2, <1>3, <1>4, <1>5, <1>6, <1>7, <1>8 DEF Worker
  <2>2. CASE (\E w \in Workers : DeadlinePasses(w)) \/ ShutdownBegin \/ CloseLedger
    BY <2>2, <1>11 DEF DeadlinePasses, ShutdownBegin, CloseLedger
  <2>3. CASE Quiescent \/ UNCHANGED vars
    BY <2>3, <1>11 DEF Quiescent, vars
  <2> QED
    BY <2>1, <2>2, <2>3, <1>1, <1>10 DEF Next

\* Layer five of the invariant: the scheduling of the runs.
LEMMA SchedStep ==
  ASSUME IInv, IInv', SchedInv, [Next]_vars
  PROVE  SchedInv'
<1>1. CASE CrashRestart
  <2>1. /\ uncertain' = FencedAgents /\ running' = {}
        /\ \A a \in Agents : deferred'[a] = <<>> /\ preclaimed'[a] = NoTask
        /\ \A w \in Workers : wpc'[w] = "idle" /\ wtask'[w] = NoTask
        /\ \A t \in Tasks : rpc'[t] = "none"
    BY <1>1 DEF CrashRestart
  <2>2. Slots'
    BY <2>1 DEF Slots, InRun, OwnsRun, Owned
  <2>3. Runs'
    BY <2>1 DEF Runs, NoOverlappingCommit, MayCommit
  <2> QED
    BY <1>1, <2>2, <2>3, WaitsCrash DEF IInv, SchedInv
<1>2. CASE ~CrashRestart
  BY <1>2, WaitsStep, SlotsStep, RunsStep DEF IInv, SchedInv
<1> QED
  BY <1>1, <1>2

\* A queue just constructed has no owner, no run and nothing waiting.
LEMMA InitSched == Init => SchedInv
<1> SUFFICES ASSUME Init PROVE SchedInv
  OBVIOUS
<1> USE TasksFacts DEF Init
<1>1. Slots
  BY DEF Slots, InRun, OwnsRun, Owned
<1>2. Runs
  BY DEF Runs, NoOverlappingCommit, MayCommit
<1>3. Waits
  BY DEF Waits, Carried, Queued, InPending, InDeferred, Live
<1> QED
  BY <1>1, <1>2, <1>3 DEF SchedInv

(***************************************************************************)
(* Doubt: whoever says "unknown" has fenced the agent, and a row will fence it *)
(* again after a crash.  Settling: a run begun is settled, in doubt, or still *)
(* in the hands of its worker, who says what the row says.                 *)
(***************************************************************************)
\* Who may write a row, and what.
Wrote(w, x) ==
    /\ wtask[w] = x
    /\ \/ PersistRunning(w) /\ ledger'[x] = "running"
       \/ WorkerUnknown(w) /\ ledger'[x] = "unknown"
       \/ Publish(w) /\ ledger'[x] = wout[w]
       \/ WorkerError(w) /\ ledger'[x] \in {"absent", "failed"}
CallerWrote(c, x) ==
    ctask[c] = x /\ ledger'[x] \in {"absent", "pending", "unknown"}

\* A row changes only by the hand that holds its task.
LEMMA RowStep ==
  ASSUME TypeOK, Control, Unique, Stages, TypeOK', [Next]_vars, ~CrashRestart
  PROVE  \A x \in Tasks : \/ ledger'[x] = ledger[x]
                          \/ \E c \in Callers : CallerWrote(c, x)
                          \/ \E w \in Workers : Wrote(w, x)
<1> DEFINE Goal == \A x \in Tasks : \/ ledger'[x] = ledger[x]
                                    \/ \E c \in Callers : CallerWrote(c, x)
                                    \/ \E w \in Workers : Wrote(w, x)
<1> USE DEF Wrote, CallerWrote
<1>1. CASE UNCHANGED ledger
  BY <1>1
<1>2. ASSUME NEW c \in Callers, Enqueue(c) PROVE Goal
  BY <1>2
  DEF Enqueue, EnqueueCheck, EnqueueReuse, EnqueueMiss, EnqueueRegister,
      EnqueuePersist, EnqueuePersistFails, EnqueueAdmit, EnqueueFenced, EnqueueFull,
      EnqueueRollback, EnqueueRollbackFails, UnknownOutcome, MarkUnknown, SetRow,
      InsertRow, DeleteRow, TypeOK
<1>3. ASSUME NEW w \in Workers, PersistRunning(w) PROVE Goal
  <2>1. ledger' = ledger \/ ledger' = [ledger EXCEPT ![wtask[w]] = "running"]
    BY <1>3 DEF PersistRunning, MarkRunning, SetRow
  <2>2. wpc[w] = "starting"
    BY <1>3 DEF PersistRunning
  <2> QED
    BY <1>3, <2>1, <2>2 DEF TypeOK
<1>4. ASSUME NEW w \in Workers, WorkerUnknown(w) PROVE Goal
  <2>1. ledger' = ledger \/ ledger' = [ledger EXCEPT ![wtask[w]] = "unknown"]
    BY <1>4 DEF WorkerUnknown, UnknownOutcome, MarkUnknown, SetRow
  <2> QED
    BY <1>4, <2>1 DEF TypeOK
<1>5. ASSUME NEW w \in Workers, Publish(w) PROVE Goal
  <2>1. ledger[wtask[w]] = "running"
    BY <1>5 DEF Publish, Stages, WorkerOK
  <2> QED
    BY <1>5, <2>1 DEF Publish, FinishRow, FinishedRow, SetRow, TypeOK
<1>6. ASSUME NEW w \in Workers, WorkerError(w) PROVE Goal
  <2>1. PICK f, p \in BOOLEAN : SetRow(wtask[w], ErrorRow(wtask[w], f, p))
    BY <1>6 DEF WorkerError
  <2>2. ErrorRow(wtask[w], f, p) \in {"absent", "failed", ledger[wtask[w]]}
    BY DEF ErrorRow, FinishedRow
  <2> QED
    BY <1>6, <2>1, <2>2 DEF SetRow, TypeOK
<1> QED
  <2>1. ASSUME NEW w \in Workers, Worker(w) PROVE Goal
    <3>1. CASE \/ WorkerExit(w) \/ WorkerTakeHandoff(w) \/ WorkerTake(w)
               \/ WorkerDefer(w) \/ WorkerClaim(w) \/ Requeue(w) \/ RequeueFull(w)
               \/ Decide(w)
      BY <3>1, <1>1
      DEF WorkerExit, WorkerTakeHandoff, WorkerTake, WorkerDefer, WorkerClaim, Requeue,
          RequeueFull, Decide
    <3>2. CASE \/ PersistRunningFails(w) \/ StartRunnerFails(w) \/ PublishFails(w)
               \/ Record(w) \/ FinishRelease(w) \/ FinishHandOver(w) \/ StartRunner(w)
               \/ SlotTimeout(w)
      BY <3>2, <1>1
      DEF PersistRunningFails, StartRunnerFails, PublishFails, Record, FinishRelease,
          FinishHandOver, StartRunner, SlotTimeout
    <3> QED
      BY <2>1, <3>1, <3>2, <1>3, <1>4, <1>5, <1>6 DEF Worker
  <2>2. ASSUME NEW t \in Tasks, Runner(t) PROVE Goal
    BY <2>2, <1>1 DEF Runner, ExecuteFails, ClaimCommit, ClaimRefused, Commit,
                      FinishCommit, CommitRaises, RunnerVanishes
  <2>3. CASE (\E w \in Workers : DeadlinePasses(w)) \/ ShutdownBegin \/ CloseLedger
    BY <2>3, <1>1 DEF DeadlinePasses, ShutdownBegin, CloseLedger
  <2>4. CASE Quiescent \/ UNCHANGED vars
    BY <2>4, <1>1 DEF Quiescent, vars
  <2> QED
    BY <2>1, <2>2, <2>3, <2>4, <1>2 DEF Next

\* Who may report an outcome, fence an agent or start a run; a worker that does
\* not step keeps its place.
LEMMA DoubtSources ==
  ASSUME TypeOK, Control, TypeOK', [Next]_vars, ~CrashRestart
  PROVE  /\ \A x \in Tasks :
              \/ reported'[x] = reported[x]
              \/ /\ reported'[x] = reported[x] \cup {"unknown"}
                 /\ \E c \in Callers : EnqueueFenced(c) /\ ctask[c] = x
              \/ \E w \in Workers : /\ Record(w) /\ wtask[w] = x
                                    /\ reported'[x] = reported[x] \cup {wout[w]}
         /\ \/ uncertain' = uncertain
            \/ \E w \in Workers : /\ WorkerUnknown(w)
                                  /\ uncertain' = uncertain \cup {AgentOf(wtask[w])}
         /\ \A x \in Tasks : \/ started'[x] = started[x]
                             \/ \E w \in Workers : StartRunner(w) /\ wtask[w] = x
         /\ \A w \in Workers :
              \/ wpc'[w] = wpc[w] /\ wtask'[w] = wtask[w] /\ wout'[w] = wout[w]
              \/ Worker(w)
<1> DEFINE Goal ==
         /\ \A x \in Tasks :
              \/ reported'[x] = reported[x]
              \/ /\ reported'[x] = reported[x] \cup {"unknown"}
                 /\ \E c \in Callers : EnqueueFenced(c) /\ ctask[c] = x
              \/ \E w \in Workers : /\ Record(w) /\ wtask[w] = x
                                    /\ reported'[x] = reported[x] \cup {wout[w]}
         /\ \/ uncertain' = uncertain
            \/ \E w \in Workers : /\ WorkerUnknown(w)
                                  /\ uncertain' = uncertain \cup {AgentOf(wtask[w])}
         /\ \A x \in Tasks : \/ started'[x] = started[x]
                             \/ \E w \in Workers : StartRunner(w) /\ wtask[w] = x
         /\ \A w \in Workers :
              \/ wpc'[w] = wpc[w] /\ wtask'[w] = wtask[w] /\ wout'[w] = wout[w]
              \/ Worker(w)
<1>1. ASSUME NEW c \in Callers, EnqueueFenced(c) PROVE Goal
  <2>1. /\ UNCHANGED <<workerVars, started>> /\ uncertain' = uncertain
        /\ reported' = [reported EXCEPT ![ctask[c]] = @ \cup {"unknown"}]
    BY <1>1 DEF EnqueueFenced, UnknownOutcome
  <2> QED
    BY <1>1, <2>1 DEF TypeOK
<1>2. ASSUME NEW w \in Workers, Worker(w) PROVE Goal
  <2>1. \A v \in Workers : v # w => /\ wpc'[v] = wpc[v] /\ wtask'[v] = wtask[v]
                                    /\ wout'[v] = wout[v]
    <3>1. CASE Decide(w)
      BY <3>1 DEF Decide, Goto, TypeOK
    <3>2. CASE ~Decide(w)
      BY <1>2, <3>2
      DEF Worker, WorkerExit, WorkerTakeHandoff, WorkerTake, WorkerDefer, WorkerClaim,
          WorkerUnknown, PersistRunning, PersistRunningFails, StartRunner,
          StartRunnerFails, SlotTimeout, Publish, PublishFails, WorkerError,
          Record, FinishRelease, FinishHandOver, Requeue, RequeueFull, Goto, TypeOK
    <3> QED
      BY <3>1, <3>2
  <2>2. CASE Record(w)
    <3>1. UNCHANGED <<uncertain, started>>
          /\ reported' = [reported EXCEPT ![wtask[w]] = @ \cup {wout[w]}]
      BY <2>2 DEF Record
    <3> QED
      BY <1>2, <2>1, <2>2, <3>1 DEF TypeOK
  <2>3. CASE WorkerUnknown(w)
    <3>1. UNCHANGED <<reported, started>>
          /\ uncertain' = uncertain \cup {AgentOf(wtask[w])}
      BY <2>3 DEF WorkerUnknown, UnknownOutcome
    <3> QED
      BY <1>2, <2>1, <2>3, <3>1
  <2>4. CASE StartRunner(w)
    <3>1. UNCHANGED <<reported, uncertain>>
          /\ started' = [started EXCEPT ![wtask[w]] = @ + 1]
      BY <2>4 DEF StartRunner
    <3> QED
      BY <1>2, <2>1, <2>4, <3>1 DEF TypeOK
  <2>5. CASE ~Record(w) /\ ~WorkerUnknown(w) /\ ~StartRunner(w)
    <3>1. UNCHANGED <<reported, uncertain, started>>
      BY <1>2, <2>5
      DEF Worker, WorkerExit, WorkerTakeHandoff, WorkerTake, WorkerDefer, WorkerClaim,
          PersistRunning, PersistRunningFails, StartRunnerFails, SlotTimeout, Decide,
          Publish, PublishFails, WorkerError, FinishRelease, FinishHandOver, Requeue,
          RequeueFull
    <3> QED
      BY <1>2, <2>1, <3>1
  <2> QED
    BY <2>2, <2>3, <2>4, <2>5
<1>3. CASE UNCHANGED <<reported, uncertain, started, wpc, wtask, wout>>
  BY <1>3
<1> QED
  <2>1. ASSUME NEW c \in Callers, Enqueue(c) PROVE Goal
    <3>1. CASE EnqueueFenced(c)
      BY <3>1, <1>1
    <3>2. CASE ~EnqueueFenced(c)
      BY <2>1, <3>2, <1>3
      DEF Enqueue, EnqueueCheck, EnqueueReuse, EnqueueMiss, EnqueueRegister,
          EnqueuePersist, EnqueuePersistFails, EnqueueAdmit, EnqueueFull,
          EnqueueRollback, EnqueueRollbackFails
    <3> QED
      BY <3>1, <3>2
  <2>2. ASSUME NEW t \in Tasks, Runner(t) PROVE Goal
    BY <2>2, <1>3 DEF Runner, ExecuteFails, ClaimCommit, ClaimRefused, Commit,
                      FinishCommit, CommitRaises, RunnerVanishes
  <2>3. CASE (\E w \in Workers : DeadlinePasses(w)) \/ ShutdownBegin \/ CloseLedger
    BY <2>3, <1>3 DEF DeadlinePasses, ShutdownBegin, CloseLedger
  <2>4. CASE Quiescent \/ UNCHANGED vars
    BY <2>4, <1>3 DEF Quiescent, vars
  <2> QED
    BY <2>1, <2>2, <2>3, <2>4, <1>2 DEF Next

\* An agent of a fence is a real one, and its tasks stay its tasks.
LEMMA FencedJob ==
  ASSUME TypeOK, Control, Unique, TypeOK', [Next]_vars, ~CrashRestart,
         NEW x \in Tasks, AgentOf(x) \in Agents
  PROVE  AgentOf(x)' = AgentOf(x)
<1>1. job[x] # NoJob
  BY NoneAssumption DEF AgentOf, NoJob
<1> QED
  BY <1>1, MemoryStep DEF AgentOf

\* The agent in doubt stays fenced.
LEMMA DoubtStep ==
  ASSUME TypeOK, Control, Unique, Stages, TypeOK', Slots, Doubt, [Next]_vars,
         ~CrashRestart
  PROVE  Doubt'
<1> USE TasksFacts
<1>1. uncertain \subseteq uncertain' /\ uncertain \subseteq Agents
  BY DoubtSources DEF TypeOK
<1>2. ASSUME NEW t \in Tasks, "unknown" \in reported'[t]
      PROVE  AgentOf(t)' \in uncertain'
  <2>1. AgentOf(t) \in uncertain
    <3>1. CASE "unknown" \in reported[t]
      BY <3>1 DEF Doubt
    <3>2. CASE \E c \in Callers : EnqueueFenced(c) /\ ctask[c] = t
      BY <3>2 DEF EnqueueFenced
    <3>3. ASSUME NEW w \in Workers, Record(w), wtask[w] = t, wout[w] = "unknown"
          PROVE  AgentOf(t) \in uncertain
      BY <3>3 DEF Record, Doubt
    <3> QED
      BY <1>2, <3>1, <3>2, <3>3, DoubtSources
  <2> QED
    BY <1>1, <2>1, FencedJob
<1>3. ASSUME NEW w \in Workers, wpc'[w] = "record", wout'[w] = "unknown"
      PROVE  AgentOf(wtask[w])' \in uncertain'
  <2>1. CASE wpc'[w] = wpc[w] /\ wtask'[w] = wtask[w] /\ wout'[w] = wout[w]
    <3>1. PICK t \in Tasks : t = wtask[w] /\ AgentOf(t) \in uncertain
      BY <1>3, <2>1, WorkerHolds DEF Doubt
    <3>2. AgentOf(t)' \in uncertain'
      BY <1>1, <3>1, FencedJob
    <3> QED
      BY <2>1, <3>1, <3>2 DEF AgentOf
  <2>2. CASE Worker(w)
    <3>1. CASE WorkerUnknown(w)
      BY <3>1 DEF WorkerUnknown, UnknownOutcome, AgentOf
    <3>2. CASE Publish(w)
      BY <1>3, <3>2 DEF Publish, Control, Definite
    <3>3. CASE WorkerError(w)
      BY <1>3, <3>3 DEF WorkerError, TypeOK
    <3>4. CASE Decide(w)
      BY <1>3, <3>4 DEF Decide, Goto, TypeOK
    <3>5. CASE PublishFails(w)
      BY <1>3, <3>5 DEF PublishFails, Goto, TypeOK
    <3> QED
      BY <1>3, <2>2, <3>1, <3>2, <3>3, <3>4, <3>5
      DEF Worker, WorkerExit, WorkerTakeHandoff, WorkerTake, WorkerDefer, WorkerClaim,
          PersistRunning, PersistRunningFails, StartRunner, StartRunnerFails,
          SlotTimeout, Record, FinishRelease, FinishHandOver, Requeue, RequeueFull,
          Goto, TypeOK
  <2> QED
    BY <2>1, <2>2, DoubtSources
<1>4. ASSUME NEW w \in Workers, wpc'[w] = "unknown"
      PROVE  ledger'[wtask'[w]] = "running" \/ AgentOf(wtask[w])' \in uncertain'
  <2>1. CASE wpc'[w] = wpc[w] /\ wtask'[w] = wtask[w] /\ wout'[w] = wout[w]
    <3>1. PICK t \in Tasks : t = wtask[w] /\ AgentOf(t) \in Agents
      BY <1>4, <2>1, WorkerHolds
    <3>2. CASE AgentOf(t) \in uncertain
      BY <1>1, <2>1, <3>1, <3>2, FencedJob DEF AgentOf
    <3>3. CASE ledger[t] = "running"
      <4>1. \A c \in Callers : ctask[c] # t
        BY <3>1 DEF Unique
      <4>2. ASSUME NEW v \in Workers, Wrote(v, t) PROVE FALSE
        <5>1. v = w
          BY <3>1, <4>2 DEF Wrote, Unique
        <5> QED
          BY <1>4, <2>1, <4>2, <5>1
          DEF Wrote, PersistRunning, WorkerUnknown, Publish, WorkerError, Goto, TypeOK
      <4>3. ledger'[t] = ledger[t]
        BY <4>1, <4>2, RowStep DEF CallerWrote
      <4> QED
        BY <2>1, <3>1, <3>3, <4>3
    <3> QED
      BY <1>4, <2>1, <3>1, <3>2, <3>3 DEF Doubt
  <2>2. CASE Worker(w)
    <3>1. CASE WorkerClaim(w)
      BY <1>4, <3>1 DEF WorkerClaim, Goto, TypeOK, AgentOf
    <3>2. CASE Decide(w)
      BY <1>4, <3>2 DEF Decide, Stages, WorkerOK
    <3>3. CASE PublishFails(w)
      BY <1>4, <3>3 DEF PublishFails, Stages, WorkerOK
    <3> QED
      BY <1>4, <2>2, <3>1, <3>2, <3>3
      DEF Worker, WorkerExit, WorkerTakeHandoff, WorkerTake, WorkerDefer, WorkerUnknown,
          PersistRunning, PersistRunningFails, StartRunner, StartRunnerFails,
          SlotTimeout, Publish, WorkerError, Record, FinishRelease, FinishHandOver,
          Requeue, RequeueFull, Goto, TypeOK
  <2> QED
    BY <2>1, <2>2, DoubtSources
<1>5. ASSUME NEW a \in uncertain'
      PROVE  \E t \in Tasks : AgentOf(t)' = a /\ ledger'[t] \in {"running", "unknown"}
  <2>1. ASSUME NEW t \in Tasks, AgentOf(t) = a, a \in uncertain,
               ledger[t] \in {"running", "unknown"}
        PROVE  ledger'[t] \in {"running", "unknown"}
    <3>1. \A c \in Callers : ctask[c] # t
      BY <2>1 DEF Stages, CallerOK
    <3>2. ASSUME NEW w \in Workers, Wrote(w, t)
          PROVE  ledger'[t] \in {"running", "unknown"}
      <4>1. ~Publish(w) /\ ~WorkerError(w)
        BY <2>1, <3>2 DEF Wrote, Publish, WorkerError, Slots, InRun
      <4> QED
        BY <3>2, <4>1 DEF Wrote
    <3> QED
      BY <2>1, <3>1, <3>2, RowStep DEF CallerWrote
  <2>2. CASE a \in uncertain
    BY <1>1, <2>1, <2>2, FencedJob DEF Doubt
  <2>3. ASSUME NEW w \in Workers, WorkerUnknown(w), a = AgentOf(wtask[w]), a \notin uncertain
        PROVE  \E t \in Tasks : AgentOf(t)' = a /\ ledger'[t] \in {"running", "unknown"}
    <3>1. PICK t \in Tasks : t = wtask[w] /\ AgentOf(t) \in Agents
      BY <2>3, WorkerHolds DEF WorkerUnknown
    <3>2. ledger[t] = "running"
      BY <2>3, <3>1 DEF WorkerUnknown, Doubt
    <3>3. ledger'[t] \in {"running", "unknown"}
      BY <2>3, <3>1, <3>2 DEF WorkerUnknown, UnknownOutcome, MarkUnknown, SetRow, TypeOK
    <3> QED
      BY <2>3, <3>1, <3>3, FencedJob
  <2> QED
    BY <2>2, <2>3, DoubtSources
<1> QED
  BY <1>2, <1>3, <1>4, <1>5 DEF Doubt

\* A row with a verdict keeps it.
LEMMA VerdictStays ==
  ASSUME TypeOK, Control, Unique, Stages, Settling, TypeOK', [Next]_vars,
         NEW x \in Tasks, ledger[x] \in Definite
  PROVE  ledger'[x] = ledger[x]
<1>1. CASE CrashRestart
  BY <1>1, RecoveryRows DEF FencedRows, OpenRows, Definite
<1>2. CASE ~CrashRestart
  <2>1. \A c \in Callers : ctask[c] # x
    BY TasksFacts DEF Stages, CallerOK, Definite
  <2>2. ASSUME NEW w \in Workers, Wrote(w, x) PROVE FALSE
    <3>1. CASE PersistRunning(w)
      BY <2>2, <3>1 DEF Wrote, PersistRunning, Stages, WaitingOK, Waiting, Definite
    <3>2. CASE WorkerUnknown(w) \/ WorkerError(w)
      BY <2>2, <3>2 DEF Wrote, WorkerUnknown, WorkerError, Settling
    <3>3. CASE Publish(w)
      BY <2>2, <3>3 DEF Wrote, Publish, Stages, WorkerOK, Definite
    <3> QED
      BY <2>2, <3>1, <3>2, <3>3 DEF Wrote
  <2> QED
    BY <1>2, <2>1, <2>2, RowStep DEF CallerWrote
<1> QED
  BY <1>1, <1>2

\* A run begun is settled, in doubt or in the hands of its worker.
LEMMA SettlingStep ==
  ASSUME TypeOK, Control, Unique, Stages, TypeOK', Slots, Doubt, Settling, Doubt',
         Stages', [Next]_vars, ~CrashRestart
  PROVE  Settling'
<1> USE TasksFacts
<1>1. \A x \in Tasks : Settled(x) => Settled(x)'
  <2>1. \A x \in Tasks : reported[x] \subseteq reported'[x]
    BY DoubtSources
  <2> QED
    BY <2>1, VerdictStays DEF Settled, Undecided
<1>2. uncertain \subseteq uncertain' /\ uncertain \subseteq Agents
  BY DoubtSources DEF TypeOK
<1>3. ASSUME NEW t \in Tasks, started'[t] > 0
      PROVE  \/ Settled(t)' \/ AgentOf(t)' \in uncertain'
             \/ \E w \in Workers : wtask'[w] = t /\
                  wpc'[w] \in {"join", "unknown", "publish", "error", "record"}
  <2>1. CASE Settled(t)
    BY <1>1, <2>1
  <2>2. CASE AgentOf(t) \in uncertain
    BY <1>2, <2>2, FencedJob
  <2>3. ASSUME NEW w \in Workers, wtask[w] = t,
               wpc[w] \in {"join", "unknown", "publish", "error", "record"}
        PROVE  \/ Settled(t)' \/ AgentOf(t)' \in uncertain'
               \/ \E v \in Workers : wtask'[v] = t /\
                    wpc'[v] \in {"join", "unknown", "publish", "error", "record"}
    <3>1. CASE Record(w)
      <4>1. PICK o \in Outcomes : o = wout[w] /\ o \in reported'[t]
        BY <2>3, <3>1 DEF Record, Control, TypeOK
      <4>2. CASE o \in Definite
        BY <4>1, <4>2 DEF Settled, Undecided
      <4>3. CASE o = "unknown"
        BY <4>1, <4>3 DEF Doubt
      <4> QED
        BY <4>1, <4>2, <4>3 DEF Outcomes, Definite
    <3>2. CASE Worker(w) /\ ~Record(w)
      <4>1. wtask'[w] = wtask[w]
        BY <2>3, <3>2
        DEF Worker, WorkerExit, WorkerTakeHandoff, WorkerTake, WorkerDefer, WorkerClaim,
            WorkerUnknown, PersistRunning, PersistRunningFails, StartRunner,
            StartRunnerFails, SlotTimeout, Decide, Publish, PublishFails, WorkerError,
            FinishRelease, FinishHandOver, Requeue, RequeueFull
      <4>2. wpc'[w] \in {"join", "unknown", "publish", "error", "record"}
        <5>1. CASE Decide(w)
          BY <5>1 DEF Decide, Goto, TypeOK
        <5>2. CASE PublishFails(w)
          BY <5>2 DEF PublishFails, Goto, TypeOK
        <5> QED
          BY <2>3, <3>2, <5>1, <5>2
          DEF Worker, WorkerExit, WorkerTakeHandoff, WorkerTake, WorkerDefer,
              WorkerClaim, WorkerUnknown, PersistRunning, PersistRunningFails,
              StartRunner, StartRunnerFails, SlotTimeout, Publish, WorkerError,
              FinishRelease, FinishHandOver, Requeue, RequeueFull, Goto, TypeOK
      <4> QED
        BY <2>3, <4>1, <4>2
    <3> QED
      BY <2>3, <3>1, <3>2, DoubtSources
  <2>4. ASSUME NEW w \in Workers, StartRunner(w), wtask[w] = t
        PROVE  wtask'[w] = t /\ wpc'[w] = "join"
    BY <2>4 DEF StartRunner, Goto, TypeOK
  <2> QED
    BY <1>3, <2>1, <2>2, <2>3, <2>4, DoubtSources DEF Settling
<1>4. ASSUME NEW w \in Workers, wpc'[w] \in {"unknown", "error"}
      PROVE  ledger'[wtask'[w]] \notin Definite
  <2>1. CASE wpc'[w] = wpc[w] /\ wtask'[w] = wtask[w] /\ wout'[w] = wout[w]
    <3>1. PICK t \in Tasks : t = wtask[w]
      BY <1>4, <2>1, WorkerHolds
    <3>2. \A c \in Callers : ctask[c] # t
      BY <3>1 DEF Unique
    <3>3. ASSUME NEW v \in Workers, Wrote(v, t) PROVE FALSE
      <4>1. v = w
        BY <3>1, <3>3 DEF Wrote, Unique
      <4> QED
        BY <1>4, <2>1, <3>3, <4>1
        DEF Wrote, PersistRunning, WorkerUnknown, Publish, WorkerError, Goto, TypeOK
    <3> QED
      BY <1>4, <2>1, <3>1, <3>2, <3>3, RowStep DEF CallerWrote, Settling
  <2>2. CASE Worker(w)
    <3>1. CASE WorkerClaim(w)
      <4>1. PICK t \in Tasks : t = wtask[w] /\ Waiting(t)
        BY <3>1, WorkerHolds DEF WorkerClaim, Waiting
      <4>2. ledger'[t] = "pending" /\ wtask' = wtask
        BY <3>1, <4>1 DEF WorkerClaim, Stages, WaitingOK
      <4> QED
        BY <4>1, <4>2 DEF Definite
    <3>2. CASE Decide(w)
      BY <3>2 DEF Decide, Stages, WorkerOK, Definite
    <3>3. CASE PublishFails(w)
      BY <3>3 DEF PublishFails, Stages, WorkerOK, Definite
    <3>4. CASE PersistRunningFails(w)
      <4>1. PICK t \in Tasks : t = wtask[w] /\ Waiting(t)
        BY <3>4, WorkerHolds DEF PersistRunningFails, Waiting
      <4>2. ledger'[t] = "pending" /\ wtask' = wtask
        BY <3>4, <4>1 DEF PersistRunningFails, Stages, WaitingOK
      <4> QED
        BY <4>1, <4>2 DEF Definite
    <3>5. CASE StartRunnerFails(w)
      BY <3>5 DEF StartRunnerFails, Stages, WorkerOK, Definite
    <3> QED
      BY <1>4, <2>2, <3>1, <3>2, <3>3, <3>4, <3>5
      DEF Worker, WorkerExit, WorkerTakeHandoff, WorkerTake, WorkerDefer, WorkerUnknown,
          PersistRunning, StartRunner,
          SlotTimeout, Publish, WorkerError, Record, FinishRelease, FinishHandOver,
          Requeue, RequeueFull, Goto, TypeOK
  <2> QED
    BY <2>1, <2>2, DoubtSources
<1>5. ASSUME NEW w \in Workers, wpc'[w] = "record", ledger'[wtask'[w]] \in Definite
      PROVE  ledger'[wtask'[w]] = wout'[w]
  <2>1. CASE wpc'[w] = wpc[w] /\ wtask'[w] = wtask[w] /\ wout'[w] = wout[w]
    <3>1. PICK t \in Tasks : t = wtask[w]
      BY <1>5, <2>1, WorkerHolds
    <3>2. \A c \in Callers : ctask[c] # t
      BY <3>1 DEF Unique
    <3>3. ASSUME NEW v \in Workers, Wrote(v, t) PROVE FALSE
      <4>1. v = w
        BY <3>1, <3>3 DEF Wrote, Unique
      <4> QED
        BY <1>5, <2>1, <3>3, <4>1
        DEF Wrote, PersistRunning, WorkerUnknown, Publish, WorkerError
    <3> QED
      BY <1>5, <2>1, <3>1, <3>2, <3>3, RowStep DEF CallerWrote, Settling
  <2>2. CASE Worker(w)
    <3>1. CASE WorkerUnknown(w)
      <4>1. PICK t \in Tasks : t = wtask[w] /\ wtask' = wtask
        BY <3>1, WorkerHolds DEF WorkerUnknown
      <4>2. ledger[t] \notin Definite /\ ledger'[t] \in {ledger[t], "unknown"}
        BY <3>1, <4>1
        DEF WorkerUnknown, Settling, UnknownOutcome, MarkUnknown, SetRow, TypeOK
      <4> QED
        BY <1>5, <4>1, <4>2 DEF Definite
    <3>2. CASE Publish(w)
      <4>1. PICK t \in Tasks : t = wtask[w] /\ wtask' = wtask /\ wout' = wout
        BY <3>2, WorkerHolds DEF Publish
      <4>2. ledger[t] = "running"
        BY <3>2, <4>1 DEF Publish, Stages, WorkerOK
      <4> QED
        BY <1>5, <3>2, <4>1, <4>2
        DEF Publish, FinishRow, FinishedRow, SetRow, Definite, TypeOK
    <3>3. CASE WorkerError(w)
      <4>1. PICK t \in Tasks : t = wtask[w] /\ wtask' = wtask /\ wout'[w] = "failed"
        BY <3>3, WorkerHolds DEF WorkerError, TypeOK
      <4>2. ledger[t] \notin Definite
        BY <3>3, <4>1 DEF WorkerError, Settling
      <4>3. ledger'[t] \in {ledger[t], "absent", "failed"}
        <5>1. PICK f, p \in BOOLEAN : SetRow(t, ErrorRow(t, f, p))
          BY <3>3, <4>1 DEF WorkerError
        <5> QED
          BY <5>1 DEF SetRow, ErrorRow, FinishedRow, TypeOK
      <4> QED
        BY <1>5, <4>1, <4>2, <4>3 DEF Definite
    <3>4. CASE Decide(w)
      BY <1>5, <3>4 DEF Decide, Goto, TypeOK
    <3>5. CASE PublishFails(w)
      BY <1>5, <3>5 DEF PublishFails, Goto, TypeOK
    <3> QED
      BY <1>5, <2>2, <3>1, <3>2, <3>3, <3>4, <3>5
      DEF Worker, WorkerExit, WorkerTakeHandoff, WorkerTake, WorkerDefer, WorkerClaim,
          PersistRunning, PersistRunningFails, StartRunner, StartRunnerFails,
          SlotTimeout, Record, FinishRelease, FinishHandOver, Requeue, RequeueFull,
          Goto, TypeOK
  <2> QED
    BY <2>1, <2>2, DoubtSources
<1> QED
  BY <1>3, <1>4, <1>5 DEF Settling

\* What recovery fences covers every doubt there was.
LEMMA DoubtCrash ==
  ASSUME TypeOK, Control, Stages, Doubt, TypeOK', CrashRestart
  PROVE  Doubt' /\ Settling'
<1>1. /\ uncertain' = FencedAgents /\ UNCHANGED <<job, started>>
      /\ \A w \in Workers : wpc'[w] = "idle"
      /\ \A t \in Tasks : reported'[t] = IF t \in FencedRows THEN reported[t] \cup {"unknown"}
                                                             ELSE reported[t]
  BY DEF CrashRestart
<1>2. \A t \in Tasks : AgentOf(t)' = AgentOf(t)
  BY <1>1 DEF AgentOf
<1>3. uncertain \subseteq FencedAgents
  BY DEF Doubt, FencedAgents
<1>4. ASSUME NEW t \in Tasks, "unknown" \in reported'[t] PROVE AgentOf(t) \in FencedAgents
  BY <1>1, <1>3, <1>4 DEF Doubt, FencedRows
<1>5. ASSUME NEW a \in FencedAgents
      PROVE  \E t \in Tasks : AgentOf(t) = a /\ ledger'[t] \in {"running", "unknown"}
  <2>1. PICK t \in Tasks : AgentOf(t) = a /\ ledger[t] \in {"running", "unknown"}
    BY <1>5 DEF FencedAgents
  <2> QED
    BY <2>1, RecoveryRows
<1>6. Doubt'
  BY <1>1, <1>2, <1>4, <1>5 DEF Doubt
<1>7. ASSUME NEW t \in Tasks, started'[t] > 0
      PROVE  Settled(t)' \/ AgentOf(t)' \in uncertain'
  <2>1. ledger[t] \notin {"absent", "pending"}
    BY <1>1, <1>7 DEF Stages, HistoryOK
  <2>2. CASE ledger[t] \in {"running", "unknown"}
    BY <1>1, <1>2, <2>2 DEF FencedAgents
  <2>3. CASE ledger[t] \in Definite
    BY <2>3, RecoveryRows DEF FencedRows, OpenRows, Definite, Settled
  <2> QED
    BY <2>1, <2>2, <2>3 DEF TypeOK, RowStates, Definite
<1>8. Settling'
  BY <1>1, <1>7 DEF Settling
<1> QED
  BY <1>6, <1>8

\* ... and nothing is in doubt.
LEMMA InitQueueInv == Init => QueueInv
<1>1. Init => Doubt /\ Settling
  BY DEF Init, Doubt, Settling
<1> QED
  BY <1>1, InitIInv, InitSched DEF QueueInv

\* The invariant is inductive: every step keeps it, and so does a crash.
LEMMA QueueStep ==
  ASSUME ~JoinTimeout, "purge" \notin FailableOps, QueueInv, [Next]_vars
  PROVE  QueueInv'
<1>1. IInv'
  BY TypeStep, ControlStep, UniqueStep, StagesStep DEF QueueInv, IInv
<1>2. SchedInv'
  BY <1>1, SchedStep DEF QueueInv
<1>3. CASE CrashRestart
  BY <1>1, <1>2, <1>3, DoubtCrash DEF QueueInv, IInv
<1>4. CASE ~CrashRestart
  <2>1. Doubt'
    BY <1>1, <1>4, DoubtStep DEF QueueInv, IInv, SchedInv
  <2>2. Settling'
    BY <1>1, <1>4, <2>1, SettlingStep DEF QueueInv, IInv, SchedInv
  <2> QED
    BY <1>1, <1>2, <2>1, <2>2 DEF QueueInv
<1> QED
  BY <1>3, <1>4

\* The whole inductive invariant holds, unless shutdown() may close the ledger
\* under running workers or the catch-all's purge of a never-run row may fail.
THEOREM QueueInvariant ==
  ASSUME ~JoinTimeout, "purge" \notin FailableOps
  PROVE  Spec => []QueueInv
<1> QED
  BY InitQueueInv, QueueStep, PTL DEF Spec

(***************************************************************************)
(* The scheduling properties.                                              *)
(***************************************************************************)
\* One worker at a time supervises a run of an agent: _agent_running has one
\* owner from the claim to the release, hand-overs to deferred tasks included.
THEOREM RunsAreSerial ==
  ASSUME ~JoinTimeout, "purge" \notin FailableOps
  PROVE  Spec => []SerialPerAgent
<1>1. IInv /\ SchedInv => SerialPerAgent
  <2> SUFFICES ASSUME IInv, SchedInv, NEW v \in Workers, NEW w \in Workers,
                      Supervises(v), Supervises(w), SameAgent(wtask[v], wtask[w])
               PROVE  v = w
    BY DEF SerialPerAgent
  <2> DEFINE a == AgentOf(wtask[w])
  <2>1. a \in Agents /\ wtask[v] # NoTask /\ wtask[w] # NoTask
    BY DEF IInv, Control, Supervises
  <2>2. a \notin uncertain
    BY DEF SchedInv, Slots, Supervises, InRun
  <2>3. OwnsRun(v, a) /\ OwnsRun(w, a)
    BY <2>1 DEF OwnsRun, InRun, Supervises, SameAgent
  <2> QED
    BY <2>1, <2>2, <2>3 DEF SchedInv, Slots
<1> QED
  BY <1>1, QueueInvariant, PTL DEF QueueInv

\* Two runner threads of one agent never both still reach their final commit,
\* although a runner outlives the supervisor that gave up on it: the permission
\* is withdrawn before the slot is released, or the agent stays fenced.
THEOREM CommitsNeverOverlap ==
  ASSUME ~JoinTimeout, "purge" \notin FailableOps
  PROVE  Spec => []NoOverlappingCommit
<1>1. IInv /\ SchedInv => NoOverlappingCommit
  BY DEF SchedInv, Runs
<1> QED
  BY <1>1, QueueInvariant, PTL DEF QueueInv

\* A deferred task has somebody to wake it: the slot it waits for is owned by a
\* worker, or was handed to a task that is queued and unfinished.
THEOREM DeferredTasksAreWoken ==
  ASSUME ~JoinTimeout, "purge" \notin FailableOps
  PROVE  Spec => []DeferredHasWaker
<1>1. IInv /\ SchedInv => DeferredHasWaker
  <2> SUFFICES ASSUME IInv, SchedInv, NEW a \in Agents, deferred[a] # <<>>
               PROVE  \/ \E w \in Workers : OwnsSlot(w, a)
                      \/ preclaimed[a] # NoTask /\ Live(preclaimed[a])
    BY DEF DeferredHasWaker
  <2>1. CASE preclaimed[a] # NoTask
    BY <2>1 DEF SchedInv, Waits, IInv, TypeOK, MaybeTask
  <2>2. CASE \E w \in Workers : OwnsRun(w, a)
    BY <2>2 DEF OwnsRun, InRun, OwnsSlot
  <2> QED
    BY <2>1, <2>2 DEF SchedInv, Slots, Owned
<1> QED
  BY <1>1, QueueInvariant, PTL DEF QueueInv

\* Workers that exit on shutdown() leave nothing queued, deferred or handed off:
\* _admitted_drained looks at the results, not at the FIFO.
THEOREM WorkersDrain ==
  ASSUME ~JoinTimeout, "purge" \notin FailableOps
  PROVE  Spec => []ExitLeavesNothing
<1>1. IInv /\ SchedInv => ExitLeavesNothing
  <2> SUFFICES ASSUME IInv, SchedInv, NEW w \in Workers, wpc[w] = "exited"
               PROVE  /\ pending = <<>> /\ \A a \in Agents : deferred[a] = <<>>
                      /\ \A v \in Workers : handoff[v] = NoTask
    BY DEF ExitLeavesNothing
  <2>1. \A t \in Tasks : ~Queued(t)
    BY DEF SchedInv, Waits
  <2>2. pending = <<>>
    <3>1. pending \in Seq(Tasks)
      BY DEF IInv, TypeOK
    <3>2. ASSUME pending # <<>> PROVE FALSE
      <4>1. 1 \in 1 .. Len(pending) /\ pending[1] \in Tasks
        BY <3>1, <3>2
      <4> QED
        BY <2>1, <4>1 DEF Queued, InPending
    <3> QED
      BY <3>2
  <2>3. ASSUME NEW a \in Agents, deferred[a] # <<>> PROVE FALSE
    <3>1. deferred[a] \in Seq(Tasks)
      BY DEF IInv, TypeOK
    <3>2. 1 \in 1 .. Len(deferred[a]) /\ deferred[a][1] \in Tasks
      BY <2>3, <3>1
    <3> QED
      BY <2>1, <3>2 DEF Queued, InDeferred
  <2>4. \A v \in Workers : handoff[v] = NoTask
    BY <2>1 DEF Queued, IInv, TypeOK, MaybeTask
  <2> QED
    BY <2>2, <2>3, <2>4
<1> QED
  BY <1>1, QueueInvariant, PTL DEF QueueInv

\* Data only changes under a granted permission and while the row says running:
\* a runner that comes back after a recorded timeout or failure commits nothing.
THEOREM LateRunnersCommitNothing ==
  ASSUME ~JoinTimeout, "purge" \notin FailableOps
  PROVE  Spec => NoLateCommit
<1>1. ASSUME IInv, SchedInv, [Next]_vars
      PROVE  [\A t \in effect' \ effect :
                /\ perm[t] \in {"committing", "unknown"}
                /\ ledger[t] \in {"running", "unknown"}]_vars
  <2> SUFFICES ASSUME NEW t \in effect' \ effect
               PROVE  /\ perm[t] \in {"committing", "unknown"}
                      /\ ledger[t] \in {"running", "unknown"}
    OBVIOUS
  <2>1. ASSUME NEW c \in Callers, Enqueue(c) PROVE FALSE
    BY <2>1
    DEF Enqueue, EnqueueCheck, EnqueueReuse, EnqueueMiss, EnqueueRegister,
        EnqueuePersist, EnqueuePersistFails, EnqueueAdmit, EnqueueFenced, EnqueueFull,
        EnqueueRollback, EnqueueRollbackFails
  <2>2. ASSUME NEW w \in Workers, Worker(w) PROVE FALSE
    BY <2>2
    DEF Worker, WorkerExit, WorkerTakeHandoff, WorkerTake, WorkerDefer, WorkerClaim,
        WorkerUnknown, PersistRunning, PersistRunningFails, StartRunner,
        StartRunnerFails, SlotTimeout, Decide, Publish, PublishFails, WorkerError,
        Record, FinishRelease, FinishHandOver, Requeue, RequeueFull
  <2>3. ASSUME NEW x \in Tasks, Runner(x) PROVE x = t /\ rpc[t] = "permitted"
    BY <2>3 DEF Runner, ExecuteFails, ClaimCommit, ClaimRefused, Commit, FinishCommit,
                CommitRaises, RunnerVanishes
  <2>4. ASSUME \/ \E w \in Workers : DeadlinePasses(w)
               \/ ShutdownBegin \/ CloseLedger \/ CrashRestart \/ Quiescent
               \/ UNCHANGED vars
        PROVE  FALSE
    BY <2>4 DEF DeadlinePasses, ShutdownBegin, CloseLedger, CrashRestart, Quiescent, vars
  <2>5. t \in Tasks /\ rpc[t] = "permitted"
    BY <1>1, <2>1, <2>2, <2>3, <2>4 DEF Next
  <2>6. MayCommit(t)
    BY <2>5 DEF MayCommit
  <2> QED
    BY <1>1, <2>5, <2>6 DEF IInv, Stages, RunOK, SchedInv, Runs
<1> QED
  BY <1>1, QueueInvariant, PTL DEF Spec, NoLateCommit, QueueInv

\* No runner starts for an agent one of whose tasks was ever reported unknown,
\* not even after a crash: a row of the agent puts the fence back.
THEOREM FencedAgentsStartNothing ==
  ASSUME ~JoinTimeout, "purge" \notin FailableOps
  PROVE  Spec => FenceHolds
<1>1. ASSUME QueueInv, [Next]_vars
      PROVE  [\A t \in Tasks : started'[t] # started[t] =>
                 \A u \in Tasks : SameAgent(t, u) => "unknown" \notin reported[u]]_vars
  <2> SUFFICES ASSUME NEW t \in Tasks, started'[t] # started[t],
                      NEW u \in Tasks, SameAgent(t, u), "unknown" \in reported[u]
               PROVE  FALSE
    OBVIOUS
  <2>1. ~CrashRestart
    BY DEF CrashRestart
  <2>2. PICK w \in Workers : StartRunner(w) /\ wtask[w] = t
    BY <1>1, <2>1, TypeStep, DoubtSources DEF QueueInv, IInv
  <2> QED
    BY <1>1, <2>2 DEF QueueInv, SchedInv, Slots, InRun, StartRunner, Doubt, SameAgent
<1> QED
  BY <1>1, QueueInvariant, PTL DEF Spec, FenceHolds

(***************************************************************************)
(* The refinement: each step is a step of the contract, or one it does not *)
(* see.                                                                    *)
(***************************************************************************)
\* The verdict on a task, as the contract sees it.
LEMMA SettledIs ==
  ASSUME NEW x \in Tasks
  PROVE  /\ Contract!IsSettled(x) <=> Settled(x)
         /\ Contract!InDoubt(x) <=> "unknown" \in reported[x]
         /\ TaskAgents[x] = AgentOf(x)
  BY DEF Contract!IsSettled, Contract!Settled, Settled, Undecided, Definite, Verdicts,
         Contract!InDoubt, TaskAgents

\* A run starts: nothing was said of the task, and its agent is free of doubt.
LEMMA BeginStep ==
  ASSUME QueueInv, NEW w \in Workers, StartRunner(w)
  PROVE  Contract!Begin(wtask[w])
<1>1. PICK t \in Tasks, b \in Agents : t = wtask[w] /\ b = AgentOf(t)
  BY WorkerHolds DEF StartRunner, QueueInv, IInv
<1>2. /\ wpc[w] = "slot" /\ started' = [started EXCEPT ![t] = @ + 1]
      /\ UNCHANGED <<job, effect, reported, ledger>>
  BY <1>1 DEF StartRunner
<1>3. started[t] = 0 /\ Undecided(t) /\ ledger[t] = "running"
  BY <1>1, <1>2 DEF QueueInv, IInv, Stages, WorkerOK
<1>4. b \notin uncertain
  BY <1>1, <1>2 DEF QueueInv, SchedInv, Slots, InRun
<1>5. \A u \in Tasks : AgentOf(u) = b => "unknown" \notin reported[u]
  BY <1>4 DEF QueueInv, Doubt
<1>6. reported[t] = {}
  BY <1>1, <1>3, <1>5 DEF Undecided, Definite, QueueInv, IInv, TypeOK, Outcomes
<1>7. ASSUME NEW u \in Tasks, AgentOf(u) = b, started[u] > 0 PROVE Settled(u)
  <2>1. ASSUME NEW v \in Workers, wtask[v] = u,
               wpc[v] \in {"join", "unknown", "publish", "error", "record"}
        PROVE  FALSE
    <3>1. wtask[v] # NoTask /\ wtask[w] # NoTask
      BY <1>1, <2>1, TasksFacts
    <3>2. OwnsRun(v, b) /\ OwnsRun(w, b)
      BY <1>1, <1>2, <1>7, <2>1, <3>1 DEF OwnsRun, InRun
    <3>3. v = w
      BY <1>4, <3>2 DEF QueueInv, SchedInv, Slots
    <3> QED
      BY <1>2, <2>1, <3>3
  <2> QED
    BY <1>4, <1>7, <2>1 DEF QueueInv, Settling
<1>8. Verdicts[t] = {}
  BY <1>3, <1>6 DEF Verdicts, Definite
<1>9. TaskAgents[t] # None
  BY <1>1, NoneAssumption DEF TaskAgents
<1>10. Begun' = Begun \cup {t} /\ t \notin Begun
  BY <1>2, <1>3 DEF Begun, QueueInv, IInv, TypeOK
<1>11. UNCHANGED <<TaskAgents, effect, Verdicts>>
  BY <1>2 DEF TaskAgents, Verdicts, AgentOf
<1>12. \A u \in Tasks : TaskAgents[u] = TaskAgents[t] =>
          ~Contract!InDoubt(u) /\ (u \in Begun => Contract!IsSettled(u))
  BY <1>1, <1>5, <1>7, SettledIs DEF Begun
<1> QED
  BY <1>1, <1>8, <1>9, <1>10, <1>11, <1>12 DEF Contract!Begin

\* A verdict is given once, and it is true.
LEMMA SettleStep ==
  ASSUME QueueInv, NEW t \in Tasks, ~Settled(t), NEW v \in Definite,
         v = "completed" => t \in effect,
         v \in {"failed", "timeout"} => t \notin effect,
         UNCHANGED <<job, started, effect>>,
         \A x \in Tasks : Verdicts'[x] = IF x = t THEN Verdicts[x] \cup {v} ELSE Verdicts[x]
  PROVE  Contract!Settle(t, v)
<1>1. Verdicts' = [Verdicts EXCEPT ![t] = @ \cup {v}]
  BY DEF Verdicts
<1>2. v = "completed" <=> t \in effect
  BY DEF Definite
<1>3. UNCHANGED <<TaskAgents, Begun, effect>>
  BY DEF TaskAgents, Begun, AgentOf
<1> QED
  BY <1>1, <1>2, <1>3, SettledIs DEF Contract!Settle

\* Steps that say nothing, start nothing and change no data.
LEMMA SilentStep ==
  ASSUME UNCHANGED <<job, started, effect, reported>>,
         \A x \in Tasks : {ledger'[x]} \cap Definite = {ledger[x]} \cap Definite
  PROVE  UNCHANGED Contract!vars
  BY DEF Contract!vars, TaskAgents, Begun, Verdicts, AgentOf

\* A worker starts a run, publishes or records a verdict, or raises a doubt.
LEMMA ContractWorker ==
  ASSUME QueueInv, TypeOK', [Next]_vars, ~CrashRestart, NEW w \in Workers, Worker(w)
  PROVE  Contract!Next \/ UNCHANGED Contract!vars
<1> USE DEF QueueInv, IInv
<1>1. CASE StartRunner(w)
  <2>1. wtask[w] \in Tasks
    BY <1>1, WorkerHolds DEF StartRunner
  <2> QED
    BY <1>1, <2>1, BeginStep DEF Contract!Next
<1>2. CASE Publish(w)
  <2>1. PICK t \in Tasks : t = wtask[w]
    BY <1>2, WorkerHolds DEF Publish
  <2>2. PICK v \in Definite : v = wout[w]
    BY <1>2 DEF Publish, Control
  <2>3. /\ ledger[t] = "running" /\ Undecided(t)
        /\ v = "completed" => t \in effect
        /\ v \in {"failed", "timeout"} => t \notin effect
    BY <1>2, <2>1, <2>2 DEF Publish, Stages, WorkerOK, Dead
  <2>4. UNCHANGED <<job, started, effect, reported>>
        /\ (ledger' = ledger \/ ledger' = [ledger EXCEPT ![t] = v])
    BY <1>2, <2>1, <2>2, <2>3 DEF Publish, FinishRow, FinishedRow, SetRow
  <2>5. CASE ledger' = ledger
    BY <2>4, <2>5, SilentStep
  <2>6. CASE ledger' = [ledger EXCEPT ![t] = v]
    <3>1. ~Settled(t)
      BY <2>3 DEF Settled, Definite
    <3>2. /\ \A x \in Tasks : x # t => ledger'[x] = ledger[x]
          /\ ledger'[t] = v /\ ledger[t] \notin Definite
      BY <2>3, <2>6 DEF TypeOK, Definite
    <3>3. \A x \in Tasks : Verdicts'[x] = IF x = t THEN Verdicts[x] \cup {v} ELSE Verdicts[x]
      BY <2>4, <3>2 DEF Verdicts
    <3>4. Contract!Settle(t, v)
      BY <2>3, <2>4, <3>1, <3>3, SettleStep
    <3> QED
      BY <3>4 DEF Contract!Next, Contract!Settled, Definite
  <2> QED
    BY <2>4, <2>5, <2>6
<1>3. CASE WorkerError(w)
  <2>1. PICK t \in Tasks : t = wtask[w]
    BY <1>3, WorkerHolds DEF WorkerError
  <2>2. ledger[t] \notin Definite /\ Undecided(t) /\ t \notin effect
    BY <1>3, <2>1 DEF WorkerError, Settling, Stages, WorkerOK, Dead
  <2>3. /\ UNCHANGED <<job, started, effect, reported>>
        /\ \A x \in Tasks : x # t => ledger'[x] = ledger[x]
        /\ ledger'[t] \in {ledger[t], "absent", "failed"}
    <3>1. PICK f, p \in BOOLEAN : SetRow(t, ErrorRow(t, f, p))
      BY <1>3, <2>1 DEF WorkerError
    <3>2. ErrorRow(t, f, p) \in {ledger[t], "absent", "failed"}
      BY DEF ErrorRow, FinishedRow
    <3> QED
      BY <1>3, <3>1, <3>2 DEF WorkerError, SetRow, TypeOK
  <2>4. CASE ledger'[t] = "failed"
    <3>1. ~Settled(t)
      BY <2>2 DEF Settled
    <3>2. \A x \in Tasks :
            Verdicts'[x] = IF x = t THEN Verdicts[x] \cup {"failed"} ELSE Verdicts[x]
      BY <2>2, <2>3, <2>4 DEF Verdicts, Definite
    <3>3. Contract!Settle(t, "failed")
      BY <2>2, <2>3, <3>1, <3>2, SettleStep DEF Definite
    <3> QED
      BY <3>3 DEF Contract!Next, Contract!Settled
  <2>5. CASE ledger'[t] # "failed"
    <3>1. \A x \in Tasks : {ledger'[x]} \cap Definite = {ledger[x]} \cap Definite
      BY <2>2, <2>3, <2>5 DEF Definite
    <3> QED
      BY <2>3, <3>1, SilentStep
  <2> QED
    BY <2>4, <2>5
<1>4. CASE Record(w)
  <2>1. PICK t \in Tasks : t = wtask[w]
    BY <1>4, WorkerHolds DEF Record
  <2>2. PICK o \in Outcomes : o = wout[w]
    BY <1>4 DEF Record, Control
  <2>3. /\ UNCHANGED <<job, started, effect, ledger>>
        /\ \A x \in Tasks : reported'[x] = IF x = t THEN reported[x] \cup {o} ELSE reported[x]
    BY <1>4, <2>1, <2>2 DEF Record, TypeOK
  <2>4. /\ Undecided(t)
        /\ o = "completed" => t \in effect
        /\ o \in {"failed", "timeout"} => t \notin effect
        /\ ledger[t] \in Definite => ledger[t] = o
    BY <1>4, <2>1, <2>2 DEF Record, Stages, WorkerOK, Dead, Settling
  <2>5. \A x \in Tasks : Verdicts'[x] = IF x = t THEN Verdicts[x] \cup {o} ELSE Verdicts[x]
    BY <2>3 DEF Verdicts
  <2>6. CASE o = "unknown"
    <3>1. Verdicts' = [x \in Tasks |-> IF x \in {t} THEN Verdicts[x] \cup {"unknown"}
                                                    ELSE Verdicts[x]]
      BY <2>5, <2>6 DEF Verdicts
    <3>2. Contract!RaiseDoubt({t})
      BY <2>3, <3>1 DEF Contract!RaiseDoubt, TaskAgents, Begun, AgentOf
    <3> QED
      BY <3>2 DEF Contract!Next
  <2>7. CASE o \in Definite /\ ledger[t] \notin Definite
    <3>1. ~Settled(t)
      BY <2>4, <2>7 DEF Settled
    <3>2. Contract!Settle(t, o)
      BY <2>3, <2>4, <2>5, <2>7, <3>1, SettleStep
    <3> QED
      BY <2>7, <3>2 DEF Contract!Next, Contract!Settled, Definite
  <2>8. CASE o \in Definite /\ ledger[t] \in Definite
    <3>1. o \in Verdicts[t]
      BY <2>4, <2>8 DEF Verdicts
    <3>2. Verdicts' = Verdicts
      BY <2>5, <3>1 DEF Verdicts
    <3> QED
      BY <2>3, <3>2 DEF Contract!vars, TaskAgents, Begun, AgentOf
  <2> QED
    BY <2>6, <2>7, <2>8 DEF Outcomes, Definite
<1>5. CASE ~StartRunner(w) /\ ~Publish(w) /\ ~WorkerError(w) /\ ~Record(w)
  <2>1. UNCHANGED <<job, started, effect, reported, ctask>>
    BY <1>5
    DEF Worker, WorkerExit, WorkerTakeHandoff, WorkerTake, WorkerDefer, WorkerClaim,
        WorkerUnknown, PersistRunning, PersistRunningFails, StartRunnerFails,
        SlotTimeout, Decide, PublishFails, FinishRelease, FinishHandOver, Requeue,
        RequeueFull
  <2>2. \A x \in Tasks : {ledger'[x]} \cap Definite = {ledger[x]} \cap Definite
    <3>1. CASE PersistRunning(w)
      <4>1. PICK t \in Tasks : t = wtask[w] /\ Waiting(t)
        BY <3>1, WorkerHolds DEF PersistRunning, Waiting
      <4>2. /\ \A x \in Tasks : x # t => ledger'[x] = ledger[x]
            /\ ledger[t] = "pending" /\ ledger'[t] \in {"pending", "running"}
        BY <3>1, <4>1 DEF PersistRunning, MarkRunning, SetRow, Stages, WaitingOK, TypeOK
      <4> QED
        BY <4>2 DEF Definite
    <3>2. CASE WorkerUnknown(w)
      <4>1. ledger' = ledger \/ ledger' = [ledger EXCEPT ![wtask[w]] = "unknown"]
        BY <3>2 DEF WorkerUnknown, UnknownOutcome, MarkUnknown, SetRow
      <4>2. ledger[wtask[w]] \notin Definite
        BY <3>2 DEF WorkerUnknown, Settling
      <4> QED
        BY <4>1, <4>2 DEF Definite, TypeOK
    <3>3. CASE ~PersistRunning(w) /\ ~WorkerUnknown(w)
      BY <1>5, <3>3
      DEF Worker, WorkerExit, WorkerTakeHandoff, WorkerTake, WorkerDefer, WorkerClaim,
          PersistRunningFails, StartRunnerFails, SlotTimeout, Decide, PublishFails,
          FinishRelease, FinishHandOver, Requeue, RequeueFull
    <3> QED
      BY <3>1, <3>2, <3>3
  <2> QED
    BY <2>1, <2>2, SilentStep
<1> QED
  BY <1>1, <1>2, <1>3, <1>4, <1>5

\* A caller submits a task, or is told of the doubt about its agent.
LEMMA ContractCaller ==
  ASSUME QueueInv, TypeOK', [Next]_vars, ~CrashRestart, NEW c \in Callers, Enqueue(c)
  PROVE  Contract!Next \/ UNCHANGED Contract!vars
<1> USE DEF QueueInv, IInv
<1>1. \A x \in Tasks : {ledger'[x]} \cap Definite = {ledger[x]} \cap Definite
  <2>1. \A x \in Tasks : ledger'[x] = ledger[x] \/
          (x = ctask[c] /\ ledger'[x] \in {"absent", "pending", "unknown"})
    BY DEF Enqueue, EnqueueCheck, EnqueueReuse, EnqueueMiss, EnqueueRegister,
        EnqueuePersist, EnqueuePersistFails, EnqueueAdmit, EnqueueFenced, EnqueueFull,
        EnqueueRollback, EnqueueRollbackFails, UnknownOutcome, MarkUnknown, SetRow,
        InsertRow, DeleteRow, TypeOK
  <2>2. \A x \in Tasks : x = ctask[c] => ledger[x] \in {"absent", "pending"}
    BY TasksFacts DEF Stages, CallerOK
  <2> QED
    BY <2>1, <2>2 DEF Definite
<1>2. CASE EnqueueRegister(c)
  <2>1. PICK t \in Tasks : Fresh(t) /\ job' = [job EXCEPT ![t] = cjob[c]]
    BY <1>2 DEF EnqueueRegister
  <2>2. cjob[c] \in Jobs /\ cjob[c] # NoJob
    BY <1>2 DEF EnqueueRegister, Control, TypeOK
  <2>3. PICK a \in Agents : a = cjob[c].agent
    BY <2>2 DEF Jobs
  <2>4. UNCHANGED <<started, effect, reported>>
    BY <1>2 DEF EnqueueRegister
  <2>5. TaskAgents' = [TaskAgents EXCEPT ![t] = a]
    BY <2>1, <2>3 DEF TaskAgents, AgentOf, TypeOK
  <2>6. TaskAgents[t] = None
    BY <2>1 DEF TaskAgents, AgentOf, Fresh, NoJob
  <2>7. UNCHANGED <<Begun, effect, Verdicts>>
    BY <1>1, <2>4 DEF Begun, Verdicts
  <2>8. Contract!Submit(t, a)
    BY <2>5, <2>6, <2>7 DEF Contract!Submit
  <2> QED
    BY <2>8 DEF Contract!Next
<1>3. CASE EnqueueFenced(c)
  <2>1. PICK t \in Tasks : t = ctask[c]
    BY <1>3, CallerHolds DEF EnqueueFenced
  <2>2. /\ UNCHANGED <<job, started, effect>>
        /\ \A x \in Tasks : reported'[x] = IF x = t THEN reported[x] \cup {"unknown"}
                                                    ELSE reported[x]
    BY <1>3, <2>1 DEF EnqueueFenced, TypeOK
  <2>3. Verdicts' = [x \in Tasks |-> IF x \in {t} THEN Verdicts[x] \cup {"unknown"}
                                                  ELSE Verdicts[x]]
    BY <1>1, <2>2 DEF Verdicts
  <2>4. Contract!RaiseDoubt({t})
    BY <2>2, <2>3 DEF Contract!RaiseDoubt, TaskAgents, Begun, AgentOf
  <2> QED
    BY <2>4 DEF Contract!Next
<1>4. CASE ~EnqueueRegister(c) /\ ~EnqueueFenced(c)
  <2>1. UNCHANGED <<job, started, effect, reported>>
    BY <1>4
    DEF Enqueue, EnqueueCheck, EnqueueReuse, EnqueueMiss,
        EnqueuePersist, EnqueuePersistFails, EnqueueAdmit, EnqueueFull,
        EnqueueRollback, EnqueueRollbackFails
  <2> QED
    BY <1>1, <2>1, SilentStep
<1> QED
  BY <1>2, <1>3, <1>4

\* A runner changes data while the outcome of its begun task is open.
LEMMA ContractRunner ==
  ASSUME QueueInv, NEW t \in Tasks, Runner(t)
  PROVE  Contract!Next \/ UNCHANGED Contract!vars
<1>1. /\ UNCHANGED <<job, started, reported, ledger>>
      /\ effect' = effect \/ (effect' = effect \cup {t} /\ rpc[t] = "permitted")
  BY DEF Runner, ExecuteFails, ClaimCommit, ClaimRefused, Commit, FinishCommit,
         CommitRaises, RunnerVanishes
<1>2. CASE effect' = effect
  BY <1>1, <1>2, SilentStep
<1>3. CASE effect' = effect \cup {t} /\ rpc[t] = "permitted"
  <2>1. MayCommit(t)
    BY <1>3 DEF MayCommit
  <2>2. t \notin effect /\ ledger[t] \in {"running", "unknown"} /\ started[t] > 0
    BY <1>3, <2>1 DEF QueueInv, SchedInv, Runs, IInv, Stages, RunOK
  <2>3. ~Dead(t)
    BY <2>1, CommitterFacts DEF QueueInv, IInv
  <2>4. Undecided(t)
    BY <2>2, <2>3 DEF QueueInv, IInv, Stages, HistoryOK, Undecided, Definite
  <2>5. ~Settled(t)
    BY <2>2, <2>4 DEF Settled, Definite
  <2>6. UNCHANGED <<TaskAgents, Begun, Verdicts>>
    BY <1>1 DEF TaskAgents, Begun, Verdicts, AgentOf
  <2>7. Contract!TakeEffect(t)
    BY <1>3, <2>2, <2>5, <2>6, SettledIs DEF Contract!TakeEffect, Begun
  <2> QED
    BY <2>7 DEF Contract!Next
<1> QED
  BY <1>1, <1>2, <1>3

\* A restart raises the doubt about every fenced row at once.
LEMMA ContractCrash ==
  ASSUME QueueInv, CrashRestart
  PROVE  Contract!Next
<1>1. /\ UNCHANGED <<job, started, effect>>
      /\ \A x \in Tasks : reported'[x] = IF x \in FencedRows THEN reported[x] \cup {"unknown"}
                                                             ELSE reported[x]
  BY DEF CrashRestart
<1>2. \A x \in Tasks : {ledger'[x]} \cap Definite = {ledger[x]} \cap Definite
  BY RecoveryRows DEF FencedRows, OpenRows, Definite
<1>3. Verdicts' = [x \in Tasks |-> IF x \in FencedRows THEN Verdicts[x] \cup {"unknown"}
                                                       ELSE Verdicts[x]]
  BY <1>1, <1>2 DEF Verdicts
<1>4. FencedRows \in SUBSET Tasks
  BY DEF FencedRows, OpenRows
<1>5. Contract!RaiseDoubt(FencedRows)
  BY <1>1, <1>3 DEF Contract!RaiseDoubt, TaskAgents, Begun, AgentOf
<1> QED
  BY <1>4, <1>5 DEF Contract!Next

\* The queue implements VerificationContract: whatever is read of an outcome, in
\* memory or after a restart, is the truth about the data, runs are not repeated,
\* and none begins while an earlier one of the agent is open or in doubt.
THEOREM QueueImplementsContract ==
  ASSUME ~JoinTimeout, "purge" \notin FailableOps
  PROVE  Spec => ImplementsContract
<1>1. Init => Contract!Init
  BY DEF Init, Contract!Init, TaskAgents, Begun, Verdicts, AgentOf, NoJob, Definite
<1>2. QueueInv /\ [Next]_vars => [Contract!Next]_(Contract!vars)
  <2> SUFFICES ASSUME QueueInv, [Next]_vars
               PROVE  Contract!Next \/ UNCHANGED Contract!vars
    OBVIOUS
  <2>1. TypeOK'
    BY TypeStep DEF QueueInv, IInv
  <2>2. CASE CrashRestart
    BY <2>2, ContractCrash
  <2>3. ASSUME ~CrashRestart, NEW c \in Callers, Enqueue(c)
        PROVE  Contract!Next \/ UNCHANGED Contract!vars
    BY <2>1, <2>3, ContractCaller
  <2>4. ASSUME ~CrashRestart, NEW w \in Workers, Worker(w)
        PROVE  Contract!Next \/ UNCHANGED Contract!vars
    BY <2>1, <2>4, ContractWorker
  <2>5. ASSUME NEW t \in Tasks, Runner(t)
        PROVE  Contract!Next \/ UNCHANGED Contract!vars
    BY <2>5, ContractRunner
  <2>6. CASE (\E w \in Workers : DeadlinePasses(w)) \/ ShutdownBegin \/ CloseLedger
    BY <2>6, SilentStep DEF DeadlinePasses, ShutdownBegin, CloseLedger
  <2>7. CASE Quiescent \/ UNCHANGED vars
    BY <2>7, SilentStep DEF Quiescent, vars
  <2> QED
    BY <2>2, <2>3, <2>4, <2>5, <2>6, <2>7 DEF Next
<1> QED
  BY <1>1, <1>2, QueueInvariant, PTL DEF Spec, ImplementsContract, Contract!Spec

(***************************************************************************)
(* Nothing accepted is lost (Kept), nothing is mislaid (Placed).           *)
(***************************************************************************)
\* The row of an accepted task is never removed again.
LEMMA KeptStep ==
  ASSUME "running" \notin FailableOps, TypeOK, Control, Unique, Stages, Kept,
         TypeOK', [Next]_vars, ~CrashRestart
  PROVE  Kept'
<1> USE TasksFacts
<1>1. \/ accepted' = accepted
      \/ \E c \in Callers : EnqueueAdmit(c) /\ accepted' = accepted \cup {ctask[c]}
  <2>1. ASSUME NEW c \in Callers, Enqueue(c)
        PROVE  accepted' = accepted \/
                 (EnqueueAdmit(c) /\ accepted' = accepted \cup {ctask[c]})
    BY <2>1
    DEF Enqueue, EnqueueCheck, EnqueueReuse, EnqueueMiss, EnqueueRegister,
        EnqueuePersist, EnqueuePersistFails, EnqueueAdmit, EnqueueFenced, EnqueueFull,
        EnqueueRollback, EnqueueRollbackFails
  <2>2. ASSUME NEW w \in Workers, Worker(w) PROVE accepted' = accepted
    BY <2>2
    DEF Worker, WorkerExit, WorkerTakeHandoff, WorkerTake, WorkerDefer, WorkerClaim,
        WorkerUnknown, PersistRunning, PersistRunningFails, StartRunner,
        StartRunnerFails, SlotTimeout, Decide, Publish, PublishFails, WorkerError,
        Record, FinishRelease, FinishHandOver, Requeue, RequeueFull
  <2>3. ASSUME NEW t \in Tasks, Runner(t) PROVE accepted' = accepted
    BY <2>3 DEF Runner, ExecuteFails, ClaimCommit, ClaimRefused, Commit, FinishCommit,
                CommitRaises, RunnerVanishes
  <2>4. CASE \/ \E w \in Workers : DeadlinePasses(w)
             \/ ShutdownBegin \/ CloseLedger \/ Quiescent \/ UNCHANGED vars
    BY <2>4 DEF DeadlinePasses, ShutdownBegin, CloseLedger, Quiescent, vars
  <2> QED
    BY <2>1, <2>2, <2>3, <2>4 DEF Next
<1>2. ASSUME NEW t \in accepted PROVE ledger'[t] # "absent" /\ job'[t] # NoJob
  <2>1. t \in Tasks /\ ledger[t] # "absent" /\ job[t] # NoJob
    BY <1>2 DEF TypeOK, Kept
  <2>2. job'[t] # NoJob
    BY <2>1, MemoryStep
  <2>3. ASSUME NEW w \in Workers, WorkerError(w), wtask[w] = t PROVE ledger'[t] # "absent"
    <3>1. ledger[t] # "pending"
      BY <2>3 DEF WorkerError, Kept
    <3>2. PICK f, p \in BOOLEAN : SetRow(t, ErrorRow(t, f, p))
      BY <2>3 DEF WorkerError
    <3>3. ErrorRow(t, f, p) \in {ledger[t], "failed"}
      BY <3>1 DEF ErrorRow, FinishedRow
    <3> QED
      BY <2>1, <3>2, <3>3 DEF SetRow, TypeOK
  <2>4. ASSUME NEW w \in Workers, Wrote(w, t) PROVE ledger'[t] # "absent"
    <3>1. Publish(w) => wout[w] \in Definite
      BY DEF Publish, Control
    <3> QED
      BY <2>3, <2>4, <3>1 DEF Wrote, Definite
  <2>5. ASSUME NEW c \in Callers, CallerWrote(c, t) PROVE FALSE
    BY <1>2, <2>5 DEF CallerWrote, Kept
  <2> QED
    BY <2>1, <2>2, <2>4, <2>5, RowStep
<1>3. ASSUME NEW c \in Callers, EnqueueAdmit(c)
      PROVE  /\ ctask[c] \in Tasks /\ ledger'[ctask[c]] # "absent"
             /\ job'[ctask[c]] # NoJob /\ ctask'[c] = NoTask
             /\ \A d \in Callers : d # c => ctask'[d] = ctask[d]
  <2>1. PICK t \in Tasks : t = ctask[c] /\ AgentOf(t) \in Agents
    BY <1>3, CallerHolds DEF EnqueueAdmit
  <2>2. ledgerOpen
    BY <1>3 DEF EnqueueAdmit, Control
  <2>3. ledger[t] = "pending" /\ UNCHANGED <<ledger, job>>
    BY <1>3, <2>1, <2>2 DEF EnqueueAdmit, Stages, CallerOK
  <2>4. job[t] # NoJob
    BY <2>1, NoneAssumption DEF AgentOf, NoJob
  <2> QED
    BY <1>3, <2>1, <2>3, <2>4 DEF EnqueueAdmit, CallerReturns, TypeOK
<1>4. \A t \in accepted' : ledger'[t] # "absent" /\ job'[t] # NoJob
  BY <1>1, <1>2, <1>3
<1>5. ASSUME NEW c \in Callers PROVE ctask'[c] \notin accepted'
  <2>1. ASSUME NEW d \in Callers, EnqueueAdmit(d) PROVE ctask'[c] \notin accepted'
    <3>1. accepted' = accepted \cup {ctask[d]}
      BY <2>1 DEF EnqueueAdmit
    <3>2. CASE c = d
      BY <2>1, <3>2, <1>3 DEF TypeOK
    <3>3. CASE c # d
      <4>1. ctask'[c] = ctask[c] /\ ctask[c] \notin accepted /\ ctask[d] # NoTask
        BY <2>1, <3>3, <1>3 DEF Kept
      <4> QED
        BY <3>1, <3>3, <4>1 DEF Unique
    <3> QED
      BY <3>2, <3>3
  <2>2. CASE accepted' = accepted
    <3>1. CASE ctask'[c] \in {ctask[c], NoTask}
      BY <2>2, <3>1 DEF Kept, TypeOK
    <3>2. CASE EnqueueRegister(c)
      <4>1. PICK t \in Tasks : Fresh(t) /\ ctask' = [ctask EXCEPT ![c] = t]
        BY <3>2 DEF EnqueueRegister
      <4>2. ctask'[c] = t /\ t \notin accepted
        BY <4>1 DEF Fresh, Kept, TypeOK
      <4> QED
        BY <2>2, <4>2
    <3> QED
      BY <3>1, <3>2, ControlPoints
  <2> QED
    BY <1>1, <2>1, <2>2
<1>6. ASSUME NEW w \in Workers, wpc'[w] = "error" PROVE ledger'[wtask'[w]] # "pending"
  <2>1. CASE wpc'[w] = wpc[w] /\ wtask'[w] = wtask[w] /\ wout'[w] = wout[w]
    <3>1. PICK t \in Tasks : t = wtask[w]
      BY <1>6, <2>1, WorkerHolds
    <3>2. ledger[t] # "pending"
      BY <1>6, <2>1, <3>1 DEF Kept
    <3>3. ASSUME NEW c \in Callers PROVE ctask[c] # t
      BY <3>1 DEF Unique
    <3>4. ASSUME NEW v \in Workers, Wrote(v, t) PROVE ledger'[t] # "pending"
      <4>1. Publish(v) => wout[v] \in Definite
        BY DEF Publish, Control
      <4> QED
        BY <3>4, <4>1 DEF Wrote, Definite
    <3> QED
      BY <2>1, <3>1, <3>2, <3>3, <3>4, RowStep DEF CallerWrote
  <2>2. CASE Worker(w) /\ ~(wpc'[w] = wpc[w])
    <3>1. StartRunnerFails(w) \/ PublishFails(w)
      <4>1. ~PersistRunningFails(w)
        BY DEF PersistRunningFails, MayFail
      <4>2. ~Decide(w)
        BY <1>6 DEF Decide, Goto, TypeOK
      <4> QED
        BY <1>6, <2>2, <4>1, <4>2
        DEF Worker, WorkerExit, WorkerTakeHandoff, WorkerTake, WorkerDefer, WorkerClaim,
            WorkerUnknown, PersistRunning, StartRunner, SlotTimeout, Publish,
            WorkerError, Record, FinishRelease, FinishHandOver, Requeue, RequeueFull,
            Goto, TypeOK
    <3>2. /\ UNCHANGED <<ledger, wtask>> /\ wpc[w] \in {"slot", "publish"}
      BY <3>1 DEF StartRunnerFails, PublishFails
    <3>3. ledger[wtask[w]] = "running"
      BY <3>2 DEF Stages, WorkerOK
    <3> QED
      BY <3>2, <3>3
  <2>3. CASE Worker(w) /\ wpc'[w] = wpc[w]
    BY <1>6, <2>3
    DEF Worker, WorkerExit, WorkerTakeHandoff, WorkerTake, WorkerDefer, WorkerClaim,
        WorkerUnknown, PersistRunning, PersistRunningFails, StartRunner,
        StartRunnerFails, SlotTimeout, Decide, Publish, PublishFails, WorkerError,
        Record, FinishRelease, FinishHandOver, Requeue, RequeueFull, Goto, TypeOK
  <2> QED
    BY <2>1, <2>2, <2>3, DoubtSources
<1> QED
  BY <1>4, <1>5, <1>6 DEF Kept

\* A crash removes no row and forgets every caller and worker.
LEMMA KeptCrash ==
  ASSUME TypeOK, Kept, CrashRestart
  PROVE  Kept'
<1>1. /\ UNCHANGED <<accepted, job>>
      /\ \A w \in Workers : wpc'[w] = "idle"
      /\ \A c \in Callers : ctask'[c] = NoTask
  BY DEF CrashRestart
<1>2. \A t \in accepted : ledger'[t] # "absent"
  BY RecoveryRows DEF Kept, TypeOK
<1> QED
  BY <1>1, <1>2, TasksFacts DEF Kept, TypeOK

\* "Tasks survive a process restart": what its own enqueue() accepted keeps its
\* row for ever, if the running mark can always be written; without that a crash
\* between the purge of the row and the record of the failure loses the task.
THEOREM AcceptedTasksAreKept ==
  ASSUME ~JoinTimeout, "purge" \notin FailableOps, "running" \notin FailableOps
  PROVE  Spec => []AcceptedNeverLost
<1>1. Init => Kept
  BY TasksFacts DEF Init, Kept
<1>2. QueueInv /\ Kept /\ [Next]_vars => Kept'
  BY KeptStep, KeptCrash, TypeStep DEF QueueInv, IInv
<1>3. Kept => AcceptedNeverLost
  BY DEF Kept, AcceptedNeverLost
<1> QED
  BY <1>1, <1>2, <1>3, QueueInvariant, PTL DEF Spec

\* A task enters _tasks only with the caller that registers it.
LEMMA Registered ==
  ASSUME TypeOK, Control, [Next]_vars, ~CrashRestart, NEW x \in Tasks, x \in tasks', x \notin tasks
  PROVE  \E c \in Callers : ctask'[c] = x
<1>1. ASSUME NEW c \in Callers, Enqueue(c) PROVE ctask'[c] = x
  <2>1. EnqueueRegister(c)
    BY <1>1
    DEF Enqueue, EnqueueCheck, EnqueueReuse, EnqueueMiss,
        EnqueuePersist, EnqueuePersistFails, EnqueueAdmit, EnqueueFenced, EnqueueFull,
        EnqueueRollback, EnqueueRollbackFails
  <2>2. PICK t \in Tasks : tasks' = tasks \cup {t} /\ ctask' = [ctask EXCEPT ![c] = t]
    BY <2>1 DEF EnqueueRegister
  <2> QED
    BY <2>2 DEF TypeOK
<1>2. ASSUME NEW w \in Workers, Worker(w) PROVE FALSE
  BY <1>2
  DEF Worker, WorkerExit, WorkerTakeHandoff, WorkerTake, WorkerDefer, WorkerClaim,
      WorkerUnknown, PersistRunning, PersistRunningFails, StartRunner,
      StartRunnerFails, SlotTimeout, Decide, Publish, PublishFails, WorkerError,
      Record, FinishRelease, FinishHandOver, Requeue, RequeueFull
<1>3. ASSUME NEW t \in Tasks, Runner(t) PROVE FALSE
  BY <1>3 DEF Runner, ExecuteFails, ClaimCommit, ClaimRefused, Commit, FinishCommit,
              CommitRaises, RunnerVanishes
<1>4. CASE \/ \E w \in Workers : DeadlinePasses(w)
           \/ ShutdownBegin \/ CloseLedger \/ Quiescent \/ UNCHANGED vars
  BY <1>4 DEF DeadlinePasses, ShutdownBegin, CloseLedger, Quiescent, vars
<1> QED
  BY <1>1, <1>2, <1>3, <1>4 DEF Next

\* Nothing falls out on its way from the caller to its result.
LEMMA PlacedStep ==
  ASSUME "delete" \notin FailableOps, TypeOK, Control, Unique, Waits, Placed,
         TypeOK', [Next]_vars, ~CrashRestart
  PROVE  Placed'
<1> USE TasksFacts
<1>1. ASSUME NEW t \in Tasks, Live(t)'
      PROVE  (InPending(t) \/ InDeferred(t) \/ Held(t))'
  <2>1. results[t] = "none"
    BY <1>1, MemoryStep DEF Live
  <2>2. CASE t \notin tasks
    BY <1>1, <2>2, Registered DEF Live, Held
  <2>3. CASE Queued(t)
    <3>1. CASE Queued(t)'
      BY <3>1 DEF Queued, Held
    <3>2. ASSUME NEW w \in Workers, WorkerClaim(w), t = wtask[w] PROVE Held(t)'
      BY <3>2 DEF WorkerClaim, Held
    <3> QED
      BY <2>3, <3>1, <3>2, QueuedStep DEF Waits
  <2>4. ASSUME NEW w \in Workers, wtask[w] = t, ~Queued(t) PROVE Held(t)'
    <3>1. wpc[w] \notin {"claim", "requeue", "finish"}
      BY <2>1, <2>4 DEF Queued, Placed
    <3>2. wtask'[w] = t
      <4>1. CASE wpc'[w] = wpc[w] /\ wtask'[w] = wtask[w] /\ wout'[w] = wout[w]
        BY <2>4, <4>1
      <4>2. CASE Worker(w)
        BY <2>4, <3>1, <4>2
        DEF Worker, WorkerExit, WorkerTakeHandoff, WorkerTake, WorkerDefer, WorkerClaim,
            WorkerUnknown, PersistRunning, PersistRunningFails, StartRunner,
            StartRunnerFails, SlotTimeout, Decide, Publish, PublishFails, WorkerError,
            Record, FinishRelease, FinishHandOver, Requeue, RequeueFull, Control
      <4> QED
        BY <4>1, <4>2, DoubtSources
    <3> QED
      BY <3>2 DEF Held
  <2>5. ASSUME NEW c \in Callers, ctask[c] = t PROVE (InPending(t) \/ Held(t))'
    <3>1. CASE ctask'[c] = t
      BY <3>1 DEF Held
    <3>2. ASSUME Enqueue(c), ctask'[c] # t PROVE InPending(t)'
      <4>1. cpc[c] \in {"persist", "admit", "rollback"}
        BY <2>5 DEF Control
      <4>2. t \in tasks' /\ results'[t] = "none"
        BY <1>1 DEF Live
      <4>3. ~EnqueuePersistFails(c) /\ ~EnqueueRollback(c)
        BY <2>5, <4>2 DEF EnqueuePersistFails, EnqueueRollback
      <4>4. ~EnqueueFenced(c)
        BY <2>5, <4>2 DEF EnqueueFenced, TypeOK
      <4>5. ~EnqueueRollbackFails(c)
        BY DEF EnqueueRollbackFails, MayFail
      <4>6. EnqueueAdmit(c)
        BY <2>5, <3>2, <4>1, <4>3, <4>4, <4>5
        DEF Enqueue, EnqueueCheck, EnqueueReuse, EnqueueMiss, EnqueueRegister,
            EnqueuePersist, EnqueueFull
      <4>7. pending \in Seq(Tasks) /\ pending' = Append(pending, t)
        BY <2>5, <4>6 DEF EnqueueAdmit, TypeOK
      <4> QED
        BY <4>7, AppendMember DEF InPending
    <3>3. ASSUME ~Enqueue(c) PROVE ctask'[c] = ctask[c]
      BY <3>3, ControlPoints
    <3> QED
      BY <2>5, <3>1, <3>2, <3>3
  <2> QED
    <3>1. t \in tasks => InPending(t) \/ InDeferred(t) \/ Held(t)
      BY <2>1 DEF Placed, Live
    <3> QED
      BY <2>2, <2>3, <2>4, <2>5, <3>1 DEF Queued, Held
<1>2. ASSUME NEW w \in Workers, wpc'[w] = "finish" PROVE results'[wtask'[w]] # "none"
  <2>1. CASE wpc'[w] = wpc[w] /\ wtask'[w] = wtask[w] /\ wout'[w] = wout[w]
    <3>1. PICK t \in Tasks : t = wtask[w]
      BY <1>2, <2>1, WorkerHolds
    <3> QED
      BY <1>2, <2>1, <3>1, MemoryStep DEF Placed
  <2>2. CASE Worker(w)
    <3>1. CASE Record(w)
      <4>1. PICK t \in Tasks : t = wtask[w]
        BY <3>1, WorkerHolds DEF Record
      <4> QED
        BY <3>1, <4>1 DEF Record, Control, Outcomes, TypeOK
    <3>2. CASE ~Record(w)
      BY <1>2, <2>2, <3>2
      DEF Worker, WorkerExit, WorkerTakeHandoff, WorkerTake, WorkerDefer, WorkerClaim,
          WorkerUnknown, PersistRunning, PersistRunningFails, StartRunner,
          StartRunnerFails, SlotTimeout, Decide, Publish, PublishFails, WorkerError,
          FinishRelease, FinishHandOver, Requeue, RequeueFull, Goto, TypeOK
    <3> QED
      BY <3>1, <3>2
  <2> QED
    BY <2>1, <2>2, DoubtSources
<1> QED
  BY <1>1, <1>2 DEF Placed

\* Recovery puts every row it may run again in the queue.
LEMMA PlacedCrash ==
  ASSUME TypeOK, Control, CrashRestart
  PROVE  Placed'
<1>1. /\ tasks' = OpenRows
      /\ results' = [t \in Tasks |-> IF t \in FencedRows THEN "unknown" ELSE "none"]
      /\ \A w \in Workers : wpc'[w] = "idle"
      /\ pending' \in RecoveryOrders
  BY DEF CrashRestart
<1>2. ASSUME NEW t \in Tasks, Live(t)' PROVE InPending(t)'
  <2>1. t \in SafeRows
    BY <1>1, <1>2 DEF Live, SafeRows
  <2> DEFINE n == Cardinality(SafeRows)
  <2>2. n \in Nat
    BY TasksFacts, FS_Subset, FS_CardinalityType DEF SafeRows, OpenRows
  <2> HIDE DEF n
  <2>3. PICK i \in 1 .. n : pending'[i] = t
    BY <1>1, <2>1 DEF RecoveryOrders, Bijection, Surjection, n
  <2>4. pending' \in [1 .. n -> SafeRows]
    BY <1>1 DEF RecoveryOrders, Bijection, Injection, IsInjective, n
  <2>5. Len(pending') = n
    BY <2>2, <2>4
  <2> QED
    BY <2>3, <2>5 DEF InPending
<1> QED
  BY <1>1, <1>2 DEF Placed

\* Unique and Placed say that there is one place, in the terms of InOnePlace.
LEMMA OnePlace ==
  ASSUME IInv, Placed, NEW t \in Tasks, Live(t)
  PROVE  Cardinality(PlacesOf(t)) = 1
<1> USE TasksFacts
<1> DEFINE b == AgentOf(t)
<1>1. InPending(t) \/ InDeferred(t) \/ Held(t)
  BY DEF Placed
<1>2. b \in Agents
  <2>1. CASE InPending(t)
    BY <2>1 DEF InPending, IInv, Control
  <2>2. CASE InDeferred(t)
    BY <2>2 DEF InDeferred, IInv, Control
  <2>3. CASE Held(t)
    BY <2>3 DEF Held, IInv, Control
  <2> QED
    BY <1>1, <2>1, <2>2, <2>3
<1>3. pending \in Seq(Tasks) /\ deferred[b] \in Seq(Tasks)
  BY <1>2 DEF IInv, TypeOK
<1>4. DOMAIN pending = 1 .. Len(pending) /\ DOMAIN deferred[b] = 1 .. Len(deferred[b])
  BY <1>3
<1>5. InDeferred(t) <=> \E i \in 1 .. Len(deferred[b]) : deferred[b][i] = t
  BY <1>2 DEF InDeferred, IInv, Control
<1> HIDE DEF b
<1>6. PlacesOf(t) =
        {<<"pending", i>> : i \in {j \in 1 .. Len(pending) : pending[j] = t}}
        \cup {<<"deferred", i>> : i \in {j \in 1 .. Len(deferred[b]) : deferred[b][j] = t}}
        \cup {<<"worker", w>> : w \in {v \in Workers : wtask[v] = t}}
        \cup {<<"handoff", w>> : w \in {v \in Workers : handoff[v] = t}}
        \cup {<<"caller", c>> : c \in {d \in Callers : ctask[d] = t}}
  BY <1>4 DEF PlacesOf, b
<1>7. PICK p : p \in PlacesOf(t)
  <2>1. CASE InPending(t)
    BY <1>6, <2>1 DEF InPending
  <2>2. CASE InDeferred(t)
    BY <1>5, <1>6, <2>2
  <2>3. CASE Held(t)
    BY <1>6, <2>3 DEF Held
  <2> QED
    BY <1>1, <2>1, <2>2, <2>3
<1>8. ASSUME NEW q \in PlacesOf(t) PROVE q = p
  <2>1. CASE InPending(t)
    <3>1. ~InDeferred(t) /\ ~Held(t)
      BY <2>1 DEF IInv, Unique
    <3>2. \A r \in PlacesOf(t) :
             \E i \in 1 .. Len(pending) : pending[i] = t /\ r = <<"pending", i>>
      BY <1>5, <1>6, <3>1 DEF Held
    <3> QED
      BY <1>7, <1>8, <3>2 DEF IInv, Unique
  <2>2. CASE InDeferred(t)
    <3>1. ~InPending(t) /\ ~Held(t)
      BY <2>2 DEF IInv, Unique
    <3>2. \A r \in PlacesOf(t) :
             \E i \in 1 .. Len(deferred[b]) : deferred[b][i] = t /\ r = <<"deferred", i>>
      BY <1>6, <3>1 DEF Held, InPending
    <3> QED
      BY <1>2, <1>7, <1>8, <3>2 DEF IInv, Unique, b
  <2>3. CASE ~InPending(t) /\ ~InDeferred(t)
    <3>1. \A r \in PlacesOf(t) :
            \/ \E w \in Workers : wtask[w] = t /\ r = <<"worker", w>>
            \/ \E w \in Workers : handoff[w] = t /\ r = <<"handoff", w>>
            \/ \E c \in Callers : ctask[c] = t /\ r = <<"caller", c>>
      BY <1>5, <1>6, <2>3 DEF InPending
    <3> QED
      BY <1>7, <1>8, <3>1 DEF IInv, Unique
  <2> QED
    BY <2>1, <2>2, <2>3
<1>9. PlacesOf(t) = {p}
  BY <1>7, <1>8
<1> QED
  BY <1>9, FS_Singleton

\* A registered task without a result is in one place: in its caller's hands, in
\* the FIFO, behind its agent's slot, with a worker or carried over by one.  A
\* roll-back whose DELETE fails leaves the task in none.
THEOREM NothingIsMislaid ==
  ASSUME ~JoinTimeout, "purge" \notin FailableOps, "delete" \notin FailableOps
  PROVE  Spec => []InOnePlace
<1>1. Init => Placed
  BY DEF Init, Placed, Live
<1>2. QueueInv /\ Placed /\ [Next]_vars => Placed'
  BY PlacedStep, PlacedCrash, TypeStep DEF QueueInv, IInv, SchedInv
<1>3. QueueInv /\ Placed => InOnePlace
  BY OnePlace DEF QueueInv, InOnePlace
<1> QED
  BY <1>1, <1>2, <1>3, QueueInvariant, PTL DEF Spec

==============================================================================
