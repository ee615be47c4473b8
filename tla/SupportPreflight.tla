---------------------------- MODULE SupportPreflight ---------------------------
(***************************************************************************)
(* The bounded streaming support preflight (support_preflight.py): the     *)
(* selected destination groups are examined one after the other, a group's *)
(* origins in chunks, under time, memory and storage budgets; summaries of *)
(* the completed groups go to one checkpoint file, written atomically,     *)
(* from which a later invocation with resume=True continues.  The outcome  *)
(* authorizes, or does not, a block-coordinate pilot on the network.       *)
(*                                                                         *)
(* Clock and resident memory are readings that may or may not exceed the   *)
(* budget.  A block has a size, which stands for its support rows, its     *)
(* nonzeros and its operator bytes; the retained summaries are counted     *)
(* instead of measured in bytes.                                           *)
(***************************************************************************)
EXTENDS Integers, FiniteSets, Sequences, Functions

CONSTANTS
  Nonempty,         \* the destination groups with a free column, in order
  Selections,       \* selected_destination_groups: values of _selected_groups
  Modes,            \* subset of {"structural", "exact"}
  GroupBlocks,      \* GroupBlocks[g]: the OD blocks of group g, sorted
  BlockSize,        \* BlockSize[b]: size of the exact support of block b
  NumChunks,        \* NumChunks[g]: origin chunks of group g
  Policies,         \* invocation policies [interval, retain, size, retained]
  None,             \* no checkpoint file, no result, no current group
  MaxInterrupts, MaxFailures, MaxCrashes, MaxInvocations   \* bounds

Groups == DOMAIN GroupBlocks
AllBlocks == DOMAIN BlockSize

Statuses == {"completed", "stopped_time_budget", "stopped_rss_budget",
             "stopped_retained_state_budget", "resource_guard_triggered",
             "interrupted_partial", "numerical_failure"}

\* What one BlockSupportSummary records: exceeds is its three exceeds_ flags.
Summaries == [group : Groups, block : AllBlocks, exceeds : BOOLEAN]
\* A DestinationSupportSummary, with the origin chunks it covers.
Destinations == [group : Groups, chunks : Nat]
Work == [completed : Seq(Groups), destination : Seq(Destinations), blocks : Seq(Summaries)]
Results == [status : Statuses, work : Work, policy : Policies]

ASSUME PreflightAssumption ==
  /\ Nonempty \in Seq(Groups) /\ Selections \subseteq Seq(Groups)
  /\ \A s \in Selections : IsInjective(s)   \* a group is selected once
  /\ Modes \subseteq {"structural", "exact"}
  /\ GroupBlocks \in [Groups -> Seq(AllBlocks)]
  /\ BlockSize \in [AllBlocks -> Nat]
  /\ NumChunks \in [Groups -> Nat]
  /\ Policies \subseteq [interval : Nat \ {0}, retain : BOOLEAN, size : Nat, retained : Nat]
  /\ {MaxInterrupts, MaxFailures, MaxCrashes, MaxInvocations} \subseteq Nat
  /\ None \notin Results /\ None \notin Groups /\ None \notin Policies

VARIABLES
  mode, selected,   \* semantic configuration, fixed by its fingerprint
  pc,               \* what the process is about to do; "down": no process
  policy,           \* budgets and cadence of this invocation
  resumed,          \* the argument resume of this invocation
  work,             \* completed, destination_summaries, block_summaries
  pending,          \* the groups the for loop has still to visit
  current,          \* current_group
  chunk,            \* origin chunks of current_group examined
  queue,            \* block summaries of current_group still to append
  status,           \* the status that build_result would record now
  checkpoint,       \* support-preflight.json, or None
  outcome,          \* what the last invocation returned, None if it did not
  interrupts, failures, crashes, invocations,  \* counters of the bounds
  cuts              \* history: recordings of a group that an exception cut short

memory == <<pc, policy, resumed, work, pending, current, chunk, queue, status>>
counters == <<interrupts, failures, crashes, invocations, cuts>>
vars == <<mode, selected, memory, checkpoint, outcome, counters>>
--------------------------------------------------------------------------------
\* Points between the first append that records a group and the last.
Recording == {"blocks", "destination", "completed"}

\* An exception at this point leaves a group recorded in part.
Cut == cuts' = cuts + (IF pc \in Recording THEN 1 ELSE 0)

NoWork == [completed |-> <<>>, destination |-> <<>>, blocks |-> <<>>]

\* retained_bytes: the size of the summaries kept.
Retained(w) == Len(w.destination) + Len(w.blocks)

\* Mutant: completed groups are not skipped.
PendingAfterAll(w) == selected
\* The selected groups that are not completed, in order.
PendingAfter(w) ==
  LET among[i \in 0 .. Len(selected)] ==   \* the first i selected groups
        IF i = 0 THEN <<>>
        ELSE IF selected[i] \in Range(w.completed) THEN among[i - 1]
        ELSE Append(among[i - 1], selected[i])
  IN  among[Len(selected)]

\* build_result at this moment.
Result == [status |-> status, work |-> work, policy |-> policy]

\* _validate_resume_policy: a tighter policy must already be met.
\* Mutant: the sizes of the blocks are not compared.
ResumableRetainedOnly(result, p) == Retained(result.work) <= p.retained

Resumable(result, p) ==
  /\ Retained(result.work) <= p.retained
  /\ \A i \in DOMAIN result.work.blocks : BlockSize[result.work.blocks[i].block] <= p.size

Init ==
  /\ mode \in Modes /\ selected \in Selections
  /\ pc = "down" /\ policy = None /\ resumed = FALSE
  /\ work = NoWork /\ pending = <<>> /\ current = None /\ chunk = 0 /\ queue = <<>>
  /\ status = "completed" /\ checkpoint = None /\ outcome = None
  /\ interrupts = 0 /\ failures = 0 /\ crashes = 0 /\ invocations = 0 /\ cuts = 0

Begin(w) ==
  /\ pc' = "loop" /\ work' = w /\ pending' = PendingAfter(w)
  /\ current' = None /\ chunk' = 0 /\ queue' = <<>>
  /\ status' = "completed" /\ outcome' = None
  /\ invocations' = invocations + 1
  /\ UNCHANGED <<mode, selected, checkpoint, interrupts, failures, crashes, cuts>>

StartFresh ==
  /\ pc = "down" /\ invocations < MaxInvocations
  /\ policy' \in Policies /\ resumed' = FALSE
  /\ Begin(NoWork)

\* Mutant: the summaries of the checkpoint are not taken over.
ResumeForgetting ==
  /\ pc = "down" /\ invocations < MaxInvocations
  /\ checkpoint # None
  /\ policy' \in Policies /\ Resumable(checkpoint, policy') /\ resumed' = TRUE
  /\ Begin(NoWork)

\* load_support_preflight_checkpoint accepts the file under the new policy.
Resume ==
  /\ pc = "down" /\ invocations < MaxInvocations
  /\ checkpoint # None
  /\ policy' \in Policies /\ Resumable(checkpoint, policy') /\ resumed' = TRUE
  /\ Begin(checkpoint.work)

\* ValueError before any support work.
RefuseResume ==
  /\ pc = "down" /\ invocations < MaxInvocations
  /\ checkpoint # None
  /\ policy' \in Policies /\ ~Resumable(checkpoint, policy')
  /\ outcome' = None /\ invocations' = invocations + 1
  /\ UNCHANGED <<mode, selected, pc, resumed, work, pending, current, chunk, queue,
                 status, checkpoint, interrupts, failures, crashes, cuts>>
--------------------------------------------------------------------------------
(* One destination group *)

\* Leave the for loop with a status.
Break(s) ==
  /\ pc' = "finally" /\ status' = s
  /\ UNCHANGED <<mode, selected, policy, resumed, work, pending, current, chunk, queue,
                 checkpoint, outcome, counters>>

\* The clock, the resident memory or the temporary estimate exceeds a budget.
StopBeforeGroup ==
  /\ pc = "group"
  /\ \E s \in {"stopped_time_budget", "stopped_rss_budget", "resource_guard_triggered"} :
       Break(s)

\* for current_group in pending.
NextGroup ==
  /\ pc = "loop" /\ pending # <<>>
  /\ current' = Head(pending) /\ pending' = Tail(pending)
  /\ pc' = "group"
  /\ UNCHANGED <<mode, selected, policy, resumed, work, chunk, queue, status,
                 checkpoint, outcome, counters>>

LoopDone ==
  /\ pc = "loop" /\ pending = <<>>
  /\ pc' = "finally"
  /\ UNCHANGED <<mode, selected, policy, resumed, work, pending, current, chunk, queue,
                 status, checkpoint, outcome, counters>>

\* The budgets allow the group; structural mode discovers no support.
Enter ==
  /\ pc = "group"
  /\ pc' = IF mode = "structural" THEN "destination" ELSE "chunk"
  /\ chunk' = 0 /\ queue' = <<>>
  /\ UNCHANGED <<mode, selected, policy, resumed, work, pending, current, status,
                 checkpoint, outcome, counters>>

\* One origin chunk after which the budgets still hold.
ExamineChunk ==
  /\ pc = "chunk" /\ chunk < NumChunks[current]
  /\ chunk' = chunk + 1
  /\ UNCHANGED <<mode, selected, pc, policy, resumed, work, pending, current, queue, status,
                 checkpoint, outcome, counters>>

\* Mutants: only the chunk loop is left and the group is recorded as it is; the
\* status is not set.
StopInsideChunkRecording ==
  /\ pc = "chunk" /\ chunk < NumChunks[current]
  /\ pc' = "destination"
  /\ UNCHANGED <<mode, selected, policy, resumed, work, pending, current, chunk, queue, status,
                 checkpoint, outcome, counters>>
StopInsideChunkSilently ==
  /\ pc = "chunk" /\ chunk < NumChunks[current]
  /\ Break(status)

\* A budget is exceeded after a chunk: what the group has so far is discarded.
StopInsideChunk ==
  /\ pc = "chunk" /\ chunk < NumChunks[current]
  /\ \E s \in {"stopped_time_budget", "stopped_rss_budget"} : Break(s)

Summary(g, b) == [group |-> g, block |-> b, exceeds |-> BlockSize[b] > policy.size]

\* All chunks are examined: the group's blocks are summarised.
ChunksDone ==
  /\ pc = "chunk" /\ chunk = NumChunks[current]
  /\ queue' = [i \in DOMAIN GroupBlocks[current] |-> Summary(current, GroupBlocks[current][i])]
  /\ pc' = "blocks"
  /\ UNCHANGED <<mode, selected, policy, resumed, work, pending, current, chunk, status,
                 checkpoint, outcome, counters>>

\* block_summaries.append, one block at a time.
AppendBlock ==
  /\ pc = "blocks" /\ queue # <<>>
  /\ work' = [work EXCEPT !.blocks = Append(@, Head(queue))]
  /\ queue' = Tail(queue)
  /\ UNCHANGED <<mode, selected, pc, policy, resumed, pending, current, chunk, status,
                 checkpoint, outcome, counters>>

BlocksDone ==
  /\ pc = "blocks" /\ queue = <<>>
  /\ pc' = "destination"
  /\ UNCHANGED <<mode, selected, policy, resumed, work, pending, current, chunk, queue, status,
                 checkpoint, outcome, counters>>

AppendDestination ==
  /\ pc = "destination"
  /\ work' = [work EXCEPT !.destination = Append(@, [group |-> current, chunks |-> chunk])]
  /\ pc' = "completed"
  /\ UNCHANGED <<mode, selected, policy, resumed, pending, current, chunk, queue, status,
                 checkpoint, outcome, counters>>

AppendCompleted ==
  /\ pc = "completed"
  /\ work' = [work EXCEPT !.completed = Append(@, current)]
  /\ pc' = "retained"
  /\ UNCHANGED <<mode, selected, policy, resumed, pending, current, chunk, queue, status,
                 checkpoint, outcome, counters>>
--------------------------------------------------------------------------------
(* Budgets and checkpoint after a group *)

\* Mutant: the budget is compared with the groups instead of the summaries.
OverRetainedBudgetByGroups == Len(work.completed) > policy.retained
OverRetainedBudget == Retained(work) > policy.retained

StopRetained ==
  /\ pc = "retained" /\ OverRetainedBudget
  /\ Break("stopped_retained_state_budget")

WithinRetained ==
  /\ pc = "retained" /\ ~OverRetainedBudget
  /\ pc' = "periodic"
  /\ UNCHANGED <<mode, selected, policy, resumed, work, pending, current, chunk, queue, status,
                 checkpoint, outcome, counters>>

\* Every checkpoint_interval_groups groups, or when the clock says so.
PeriodicPersist ==
  /\ pc = "periodic"
  /\ checkpoint' = Result
  /\ pc' = "loop"
  /\ UNCHANGED <<mode, selected, policy, resumed, work, pending, current, chunk, queue, status,
                 outcome, counters>>

SkipPersist ==
  /\ pc = "periodic" /\ Len(work.completed) % policy.interval # 0
  /\ pc' = "loop"
  /\ UNCHANGED <<mode, selected, policy, resumed, work, pending, current, chunk, queue, status,
                 checkpoint, outcome, counters>>

\* Mutant: an interrupted result is written only when partial results are kept.
PersistedFinallyIfRetained(s) == policy.retain \/ s = "stopped_time_budget"
PersistedFinally(s) == policy.retain \/ s \in {"stopped_time_budget", "interrupted_partial"}

\* The finally clause, then the result is returned.
Return ==
  /\ pc = "finally"
  /\ checkpoint' = IF PersistedFinally(status) THEN Result ELSE checkpoint
  /\ outcome' = Result
  /\ pc' = "down"
  /\ UNCHANGED <<mode, selected, policy, resumed, work, pending, current, chunk, queue, status,
                 counters>>
--------------------------------------------------------------------------------
(* Exceptions and crashes *)

\* except KeyboardInterrupt, wherever in the loop it arrives: what is recorded of
\* a group stays recorded.
Interrupt ==
  /\ pc \notin {"down", "finally"} /\ interrupts < MaxInterrupts
  /\ pc' = "finally" /\ status' = "interrupted_partial"
  /\ interrupts' = interrupts + 1 /\ Cut
  /\ UNCHANGED <<mode, selected, policy, resumed, work, pending, current, chunk, queue,
                 checkpoint, outcome, failures, crashes, invocations>>

\* except (FloatingPointError, ArithmeticError) while a group is routed.
NumericalFailure ==
  /\ pc = "chunk" /\ failures < MaxFailures
  /\ pc' = "finally" /\ status' = "numerical_failure"
  /\ failures' = failures + 1
  /\ UNCHANGED <<mode, selected, policy, resumed, work, pending, current, chunk, queue,
                 checkpoint, outcome, interrupts, crashes, invocations, cuts>>

\* Any other exception, of the routing or of resource_observer, also where a
\* DestinationSupportSummary asks it: the finally clause runs with the status as
\* it is.
OtherFailure ==
  /\ pc \in {"group", "chunk", "destination"} /\ failures < MaxFailures
  /\ checkpoint' = IF PersistedFinally(status) THEN Result ELSE checkpoint
  /\ outcome' = None /\ pc' = "down"
  /\ failures' = failures + 1 /\ Cut
  /\ UNCHANGED <<mode, selected, policy, resumed, work, pending, current, chunk, queue, status,
                 interrupts, crashes, invocations>>

Crash ==
  /\ pc # "down" /\ crashes < MaxCrashes
  /\ pc' = "down" /\ outcome' = None
  /\ crashes' = crashes + 1
  /\ UNCHANGED <<mode, selected, policy, resumed, work, pending, current, chunk, queue, status,
                 checkpoint, interrupts, failures, invocations, cuts>>

Invoke == StartFresh \/ Resume \/ RefuseResume
Group == \/ NextGroup \/ LoopDone \/ StopBeforeGroup \/ Enter
         \/ ExamineChunk \/ StopInsideChunk \/ ChunksDone
Record == \/ AppendBlock \/ BlocksDone \/ AppendDestination \/ AppendCompleted
          \/ StopRetained \/ WithinRetained \/ PeriodicPersist \/ SkipPersist \/ Return
Process == Group \/ Record
Next == Invoke \/ Process \/ Interrupt \/ NumericalFailure \/ OtherFailure \/ Crash

\* A running invocation takes its next step; nobody has to start or stop one.
Spec == Init /\ [][Next]_vars /\ WF_vars(Process)
--------------------------------------------------------------------------------
(* Properties *)

\* Memory and checkpoint have their types; the list of pending groups never
\* holds a group already recorded (pending skips the completed groups).
TypeOK ==
  /\ mode \in Modes /\ selected \in Selections
  /\ pc \in {"down", "loop", "group", "chunk", "blocks", "destination", "completed",
             "retained", "periodic", "finally"}
  /\ policy \in Policies \cup {None} /\ (pc # "down" => policy # None)
  /\ resumed \in BOOLEAN
  /\ work \in Work /\ pending \in Seq(Groups) /\ current \in Groups \cup {None}
  /\ chunk \in Nat /\ queue \in Seq(Summaries) /\ status \in Statuses
  /\ checkpoint \in Results \cup {None}
  /\ outcome \in Results \cup {None}
  /\ Range(pending) \cap Range(work.completed) = {}

\* What summaries are about.
NameOf(summary) == [group |-> summary.group, block |-> summary.block]
Names(summaries) == [i \in DOMAIN summaries |-> NameOf(summaries[i])]

\* The summaries that recording a group appends.
ChunksOf(g) == IF mode = "structural" THEN 0 ELSE NumChunks[g]
DestinationOf == [g \in Groups |-> <<[group |-> g, chunks |-> ChunksOf(g)]>>]
BlocksOf ==
  [g \in Groups |->
     IF mode = "structural" THEN <<>>
     ELSE [i \in DOMAIN GroupBlocks[g] |-> [group |-> g, block |-> GroupBlocks[g][i]]]]

\* The block summaries of the first n selected groups, each group once.
BlocksUpTo[n \in 0 .. Len(selected)] ==
  IF n = 0 THEN <<>> ELSE BlocksUpTo[n - 1] \o BlocksOf[selected[n]]

\* The work of an uninterrupted run after n groups.
Uninterrupted(w, n) ==
  /\ w.completed = SubSeq(selected, 1, n)
  /\ w.destination =
       [i \in 1 .. n |-> [group |-> selected[i], chunks |-> ChunksOf(selected[i])]]
  /\ Names(w.blocks) = BlocksUpTo[n]

\* Every entry belongs to one of the first n groups or to the next, in the order
\* of the selection.
InOrder(list, own, n) ==
  \A i \in DOMAIN list : \E p \in DOMAIN selected :
    /\ p <= n + 1 /\ list[i] \in Range(own[selected[p]])
    /\ \A j \in 1 .. i - 1 : \E q \in 1 .. p : list[j].group = selected[q]

\* The last entries of group g are its own, whole and in order.
Whole(list, own, g) ==
  \E e \in 0 .. Len(list) :
    /\ Len(own[g]) <= e
    /\ \A k \in 1 .. Len(own[g]) : list[e - Len(own[g]) + k] = own[g][k]
    /\ \A i \in e + 1 .. Len(list) : list[i].group # g

Covers(list, own, n) ==
  InOrder(list, own, n) /\ \A p \in 1 .. n : Whole(list, own, selected[p])

\* The first n groups are recorded, whatever cut the recordings before.
Recorded(w, n) ==
  /\ w.completed = SubSeq(selected, 1, n)
  /\ Covers(w.destination, DestinationOf, n) /\ Covers(Names(w.blocks), BlocksOf, n)
  /\ Len(w.destination) <= n + cuts
  /\ cuts = 0 => Uninterrupted(w, n)

\* Whatever stopped the invocations before it, and wherever, the groups that a
\* checkpoint counts as completed are the first of the selection, and it holds the
\* summaries of each of them, whole and in order, after any others of the group.
\* Those others repeat summaries of a group whose recording was cut short, and no
\* cut adds more than one destination; without a cut the checkpoint is exactly
\* that of an uninterrupted run (the resume logic, the appends that record a group
\* and the discarded partial groups of run_support_preflight).
CheckpointIsWhole ==
  checkpoint # None =>
    \E n \in 0 .. Len(selected) : Recorded(checkpoint.work, n)

\* A run that returns "completed" has recorded every selected group in this sense,
\* whatever earlier invocations did; no stop is returned as completion.
CompletedIsComplete ==
  outcome # None /\ outcome.status = "completed" => Recorded(outcome.work, Len(selected))

\* docs/source/streaming_support_preflight_report.md: "Interrupt plus resume
\* produces the same ordered deterministic summaries as an uninterrupted run".
InterruptResumeExact ==
  outcome # None /\ outcome.status = "completed" => Uninterrupted(outcome.work, Len(selected))

\* The blocks that exceed the policy a checkpoint was written under are marked,
\* although each was measured under the policy of an earlier invocation
\* (_validate_resume_policy and the exceeds_ flags).
UnsafeBlocksMarked ==
  checkpoint # None =>
    \A i \in DOMAIN checkpoint.work.blocks :
      LET b == checkpoint.work.blocks[i]
      IN  BlockSize[b.block] > checkpoint.policy.size => b.exceeds

\* The summaries kept exceed the retained-state budget in force by at most
\* those of the current group: without them they were within it (the check after
\* each group and the one on resume).
RetainedOvershootBounded ==
  pc # "down" =>
    Retained(work) <= policy.retained + (IF current = None THEN 0 ELSE 1 + Len(GroupBlocks[current]))

\* A limit on time or KeyboardInterrupt returns a partial result whose every
\* summary is also in the checkpoint (the finally clause).
PartialResultOnDisk ==
  outcome # None /\ outcome.status \in {"stopped_time_budget", "interrupted_partial"} =>
    checkpoint = outcome

\* A resumed invocation never takes a completed group out of the checkpoint.
ProgressKept ==
  [][resumed' /\ checkpoint # None =>
       /\ Len(checkpoint.work.completed) <= Len(checkpoint'.work.completed)
       /\ SubSeq(checkpoint'.work.completed, 1, Len(checkpoint.work.completed))
            = checkpoint.work.completed]_vars

\* authorize_block_coordinate_pilot accepts this result.
Authorized(result) ==
  /\ result.status = "completed"
  /\ selected = Nonempty
  /\ result.work.blocks # <<>>
  /\ \A i \in DOMAIN result.work.blocks : ~result.work.blocks[i].exceeds

\* A persisted result that authorizes a pilot, "complete bounded preflight is
\* within observed limits", is complete: it covers every nonempty group.
AuthorizedIsComplete ==
  checkpoint # None /\ Authorized(checkpoint) =>
    Range(checkpoint.work.completed) = Range(Nonempty)
================================================================================
