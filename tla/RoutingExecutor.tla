---------------------------- MODULE RoutingExecutor ----------------------------
(***************************************************************************)
(* The persistent executor of partial routing products                     *)
(* (parallel_routing_executor.py, PersistentParallelRoutingExecutor) and   *)
(* the adapter that calls it, one callback after the other, from gradient  *)
(* computations (ParallelApproximateRoutingOperator).  A product submits   *)
(* its batches to a thread pool that outlives it and sums their results;   *)
(* when it fails, its batches that run already keep their threads.  A      *)
(* forward product retains the arrays it prepared, under an evaluation     *)
(* identity, for the reverse product that follows.                         *)
(***************************************************************************)
EXTENDS Integers, FiniteSets

CONSTANTS
  NumBatches,    \* batches of the selected work, in dispatch order
  PoolWorkers,   \* effective_worker_count
  MaxForwards    \* bound on the forward products of one executor

ASSUME ExecutorAssumption ==
  {NumBatches, PoolWorkers, MaxForwards} \subseteq Nat \ {0}

VARIABLES
  product,      \* kind of the product in progress, or "none"
  cursor,       \* batches of it dispatched so far
  jobs,         \* its futures in the pool
  summed,       \* its batches whose result is collected
  orphans,      \* threads that still run batches of products that failed
  attempt,      \* _counter: forward products attempted
  working,      \* evaluation the product in progress works on
  evaluations,  \* _retained_evaluations
  pendingId,    \* _pending_evaluation_id; 0: None
  closed        \* the executor is closed

callVars == <<product, cursor, jobs, summed, orphans>>
execVars == <<callVars, attempt, working, evaluations, pendingId, closed>>
--------------------------------------------------------------------------------
Batches == 1 .. NumBatches
NoJobs == [b \in Batches |-> "none"]
InState(state) == {b \in Batches : jobs[b] = state}
Pending == Batches \ InState("none")
BusyThreads == Cardinality(InState("running")) + orphans

ExecInit ==
  /\ product = "none" /\ cursor = 0 /\ jobs = NoJobs /\ summed = {} /\ orphans = 0
  /\ attempt = 0 /\ working = 0 /\ evaluations = {} /\ pendingId = 0 /\ closed = FALSE

\* _execute_internal begins, unless the executor is closed.
Begin(kind) ==
  /\ product' = IF closed THEN "none" ELSE kind
  /\ cursor' = 0 /\ summed' = {}
  /\ UNCHANGED <<jobs, orphans, closed>>

\* Mutant: the evaluation of a forward product that had no reverse is kept.
ForwardKeeps ==
  /\ product = "none" /\ attempt < MaxForwards
  /\ attempt' = attempt + 1 /\ working' = attempt' /\ Begin("forward")
  /\ UNCHANGED <<evaluations, pendingId>>

\* _forward_callback: releases what an earlier forward product retained.
Forward ==
  /\ product = "none" /\ attempt < MaxForwards
  /\ evaluations' = evaluations \ {pendingId}
  /\ attempt' = attempt + 1 /\ working' = attempt' /\ Begin("forward")
  /\ UNCHANGED pendingId

\* _reverse_callback: a ValueError unless the evaluation is retained.
ReverseEvaluation ==
  /\ product = "none" /\ pendingId # 0 /\ pendingId' = 0 /\ working' = pendingId
  /\ IF pendingId \in evaluations THEN Begin("reverse") ELSE UNCHANGED <<callVars, closed>>
  /\ evaluations' = IF product' = "none" THEN evaluations \ {pendingId} ELSE evaluations
  /\ UNCHANGED attempt

\* execute: a product of its own, which a deadline or a request may interrupt.
Execute ==
  /\ product = "none" /\ Begin("execute")
  /\ UNCHANGED <<attempt, working, evaluations, pendingId>>

ReleasePending ==
  /\ product = "none" /\ pendingId # 0
  /\ evaluations' = evaluations \ {pendingId} /\ pendingId' = 0
  /\ UNCHANGED <<callVars, attempt, working, closed>>

\* close waits for the threads; a later executor starts afresh.
Close ==
  /\ product = "none" /\ orphans = 0 /\ ~closed
  /\ closed' = TRUE /\ evaluations' = {}
  /\ UNCHANGED <<callVars, attempt, working, pendingId>>

Reopen ==
  /\ product = "none" /\ closed /\ closed' = FALSE
  /\ attempt' = 0 /\ working' = 0 /\ pendingId' = 0
  /\ UNCHANGED <<callVars, evaluations>>
--------------------------------------------------------------------------------
CanDispatch ==
  product # "none" /\ cursor < NumBatches /\ Cardinality(Pending) < PoolWorkers

\* dispatch_next: before the first wait and after every collected result.
Dispatch ==
  /\ CanDispatch /\ cursor' = cursor + 1
  /\ jobs' = [jobs EXCEPT ![cursor'] = "queued"]
  /\ UNCHANGED <<product, summed, orphans, attempt, working, evaluations, pendingId, closed>>

\* A thread of the pool takes a future that is queued.
Take(b) ==
  /\ jobs[b] = "queued" /\ BusyThreads < PoolWorkers
  /\ jobs' = [jobs EXCEPT ![b] = "running"]
  /\ UNCHANGED <<product, cursor, summed, orphans, attempt, working, evaluations, pendingId, closed>>

\* _run_batch returns or raises; nobody waits for an orphan.
RunBatch(b) ==
  /\ jobs[b] = "running"
  /\ \E r \in {"done", "raised"} : jobs' = [jobs EXCEPT ![b] = r]
  /\ UNCHANGED <<product, cursor, summed, orphans, attempt, working, evaluations, pendingId, closed>>

EndOrphan ==
  /\ orphans > 0 /\ orphans' = orphans - 1
  /\ UNCHANGED <<product, cursor, jobs, summed, attempt, working, evaluations, pendingId, closed>>

CollectBatch(b) ==
  /\ ~CanDispatch /\ jobs[b] = "done"
  /\ jobs' = [jobs EXCEPT ![b] = "none"] /\ summed' = summed \cup {b}
  /\ UNCHANGED <<product, cursor, orphans, attempt, working, evaluations, pendingId, closed>>

\* Mutant: a batch that raised is submitted again.
FailRetries ==
  /\ ~CanDispatch /\ InState("raised") # {}
  /\ jobs' = [b \in Batches |-> IF jobs[b] = "raised" THEN "queued" ELSE jobs[b]]
  /\ UNCHANGED <<product, cursor, summed, orphans, attempt, working, evaluations, pendingId, closed>>

\* A batch raised, or dispatch_next saw the deadline or the request: queued
\* futures are cancelled, a reverse product still forgets its evaluation.
Fail ==
  /\ \/ ~CanDispatch /\ InState("raised") # {}
     \/ CanDispatch /\ product = "execute"
  /\ product' = "none" /\ jobs' = NoJobs
  /\ orphans' = BusyThreads
  /\ evaluations' = IF product = "reverse" THEN evaluations \ {working} ELSE evaluations
  /\ UNCHANGED <<cursor, summed, attempt, working, pendingId, closed>>

\* The sum in batch order.  A forward product retains its evaluation.
ReturnSum ==
  /\ product # "none" /\ summed = Batches
  /\ product' = "none"
  /\ evaluations' = CASE product = "forward" -> evaluations \cup {working}
                      [] product = "reverse" -> evaluations \ {working}
                      [] OTHER -> evaluations
  /\ pendingId' = IF product = "forward" THEN working ELSE pendingId
  /\ UNCHANGED <<cursor, jobs, summed, orphans, attempt, working, closed>>

Adapter == Forward \/ ReverseEvaluation \/ Execute \/ ReleasePending \/ Close \/ Reopen
Pool ==
  \/ Dispatch \/ Fail \/ ReturnSum \/ EndOrphan
  \/ \E b \in Batches : Take(b) \/ RunBatch(b) \/ CollectBatch(b)
ExecNext == Adapter \/ Pool

\* Threads of the pool are scheduled and their batches end.
ExecFairness == WF_execVars(Pool)
ExecSpec == ExecInit /\ [][ExecNext]_execVars /\ ExecFairness
--------------------------------------------------------------------------------
ExecTypeOK ==
  /\ product \in {"none", "forward", "reverse", "execute"} /\ cursor \in 0 .. NumBatches
  /\ jobs \in [Batches -> {"none", "queued", "running", "done", "raised"}]
  /\ summed \subseteq Batches /\ orphans \in 0 .. PoolWorkers
  /\ {attempt, working, pendingId} \subseteq 0 .. MaxForwards
  /\ evaluations \subseteq 1 .. MaxForwards /\ closed \in BOOLEAN

\* The arrays retained are at most those of the latest forward product, tried
\* or done: after one that failed, a reverse product cannot run against the
\* arrays of an earlier one, and none are left behind.
OnlyTheLatestIsRetained == evaluations \subseteq {attempt}

\* A product ends although failed ones left batches in the threads it needs.
EveryProductEnds == (product # "none") ~> (product = "none")
================================================================================
