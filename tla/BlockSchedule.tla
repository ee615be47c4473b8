----------------------------- MODULE BlockSchedule -----------------------------
(***************************************************************************)
(* The schedules of the block-coordinate estimator (estimator._schedule    *)
(* and scheduling.py) as pure operators.  OD blocks are numbered in        *)
(* partition order; Support gives the measurement rows a block touches and *)
(* Couplings the extra conflicts a caller may declare.  A schedule is a    *)
(* sequence of blocks, and BatchSizes maps each position at which a batch  *)
(* starts (counted from 0, as the program does) to the size of the batch.  *)
(***************************************************************************)
EXTENDS Naturals, FiniteSets, SequencesExt

CONSTANTS NumBlocks,    \* number of blocks of the partition
          Support,      \* measurement rows of each block
          Couplings     \* two-element sets of blocks declared to be coupled

Blocks == 1 .. NumBlocks

\* Blocks that may not be solved concurrently with block i.
Conflicts(i) ==
  {j \in Blocks \ {i} : Support[i] \cap Support[j] # {} \/ {i, j} \in Couplings}

\* First-fit colour of every block, assigned in partition order.
Color[i \in Blocks] ==
  LET unavailable == {Color[j] : j \in {k \in Conflicts(i) : k < i}}
  IN  CHOOSE c \in 0 .. NumBlocks :
         c \notin unavailable /\ 0 .. (c - 1) \subseteq unavailable

\* Partition order: every block is a batch of its own.
CyclicSchedule == [i \in Blocks |-> i]

\* The colour batches one after the other, each in partition order.
InterleavedSchedule ==
  SetToSortSeq(Blocks, LAMBDA i, j : Color[i] < Color[j]
                                     \/ (Color[i] = Color[j] /\ i < j))

SingleBlockBatches == [p \in 0 .. (NumBlocks - 1) |-> 1]

ColorBatches ==
  LET Starts == {p \in 0 .. (NumBlocks - 1) :
                   p = 0 \/ Color[InterleavedSchedule[p]]
                              # Color[InterleavedSchedule[p + 1]]}
  IN  [p \in Starts |->
         Cardinality({i \in Blocks : Color[i] = Color[InterleavedSchedule[p + 1]]})]
================================================================================
