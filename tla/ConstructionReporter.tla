-------------------------- MODULE ConstructionReporter -------------------------
(***************************************************************************)
(* Delivery of progress events (construction_control.py,                   *)
(* ConstructionProgressReporter).  Computational workers enqueue events    *)
(* for one sink thread; the thread of the construction and those of        *)
(* heartbeat_scope emit synchronously: they wait until the queue has been  *)
(* processed and then deliver their own event under the lock that orders   *)
(* emissions.  The queue is bounded, an event that finds it full is        *)
(* dropped, and the sink may raise.  Counters and contents are left out.   *)
(***************************************************************************)
EXTENDS Integers, FiniteSetsExt

CONSTANTS
  Emitters,    \* threads that emit synchronously
  QueueSize,   \* _PROGRESS_SINK_QUEUE_MAXSIZE
  NoThread

ASSUME ReporterAssumption == QueueSize \in Nat \ {0} /\ NoThread \notin Emitters

VARIABLES
  queue,     \* number of events in _sink_queue
  sink,      \* what the sink thread is doing
  emitting,  \* what every synchronous emitter is doing
  owed,      \* events enqueued before its emission that the sink has not seen
  lock       \* owner of _emit_lock

reporterVars == <<queue, sink, emitting, owed, lock>>
--------------------------------------------------------------------------------
Unlocked == lock = NoThread
Unfinished == queue + (IF sink = "idle" THEN 0 ELSE 1)

ReporterInit ==
  /\ queue = 0 /\ sink = "idle" /\ lock = NoThread
  /\ emitting = [t \in Emitters |-> "none"] /\ owed = [t \in Emitters |-> 0]

\* emit_nonblocking of a worker.
Enqueue ==
  /\ Unlocked /\ queue' = Min({queue + 1, QueueSize})
  /\ UNCHANGED <<sink, emitting, owed, lock>>

SinkTakes ==
  /\ sink = "idle" /\ queue > 0 /\ queue' = queue - 1 /\ sink' = "delivering"
  /\ UNCHANGED <<emitting, owed, lock>>

TaskDone == owed' = [t \in Emitters |-> Max({owed[t] - 1, 0})]

SinkDelivers ==
  /\ sink = "delivering"
  /\ \/ sink' = "idle" /\ TaskDone
     \/ sink' = "raised" /\ UNCHANGED owed
  /\ UNCHANGED <<queue, emitting, lock>>

\* _record_sink_failure takes the lock.
SinkRecords ==
  /\ sink = "raised" /\ Unlocked /\ sink' = "idle" /\ TaskDone
  /\ UNCHANGED <<queue, emitting, lock>>

\* emit: flush reads the queue under the lock and waits for it without.
BeginEmit(t) ==
  /\ emitting[t] = "none" /\ Unlocked
  /\ emitting' = [emitting EXCEPT ![t] = "flushing"]
  /\ owed' = [owed EXCEPT ![t] = Unfinished]
  /\ UNCHANGED <<queue, sink, lock>>

\* Mutant: flush waits for an empty queue, not for the event being delivered.
FlushedWhenEmpty(t) ==
  /\ emitting[t] = "flushing" /\ queue = 0
  /\ emitting' = [emitting EXCEPT ![t] = "flushed"]
  /\ UNCHANGED <<queue, sink, owed, lock>>

\* Queue.join returns.
Flushed(t) ==
  /\ emitting[t] = "flushing" /\ Unfinished = 0
  /\ emitting' = [emitting EXCEPT ![t] = "flushed"]
  /\ UNCHANGED <<queue, sink, owed, lock>>

\* The emission is throttled, or the event is delivered under the lock.
TakeLock(t) ==
  /\ emitting[t] = "flushed" /\ Unlocked
  /\ \/ emitting' = [emitting EXCEPT ![t] = "none"] /\ UNCHANGED lock
     \/ emitting' = [emitting EXCEPT ![t] = "delivering"] /\ lock' = t
  /\ UNCHANGED <<queue, sink, owed>>

Delivered(t) ==
  /\ emitting[t] = "delivering" /\ lock' = NoThread
  /\ emitting' = [emitting EXCEPT ![t] = "none"]
  /\ UNCHANGED <<queue, sink, owed>>

ReporterNext ==
  \/ Enqueue \/ SinkTakes \/ SinkDelivers \/ SinkRecords
  \/ \E t \in Emitters : BeginEmit(t) \/ Flushed(t) \/ TakeLock(t) \/ Delivered(t)
ReporterSpec == ReporterInit /\ [][ReporterNext]_reporterVars
--------------------------------------------------------------------------------
ReporterTypeOK ==
  /\ queue \in 0 .. QueueSize /\ sink \in {"idle", "delivering", "raised"}
  /\ emitting \in [Emitters -> {"none", "flushing", "flushed", "delivering"}]
  /\ owed \in [Emitters -> 0 .. QueueSize + 1] /\ lock \in Emitters \cup {NoThread}

\* The event of a phase boundary reaches the sink after every event that was
\* enqueued before its emission began and not dropped, the one the sink thread
\* was delivering included, although other threads emit meanwhile.  (An event
\* enqueued between the flush and the lock may still reach it later.)
BoundaryFollowsQueue == \A t \in Emitters : emitting[t] = "delivering" => owed[t] = 0
================================================================================
