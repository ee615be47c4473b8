--------------------------- MODULE MCBlockEstimator ----------------------------
(***************************************************************************)
(* Three OD blocks, of which the first and the third share no measurement  *)
(* row and form one colour batch, under the three block orders.            *)
(***************************************************************************)
EXTENDS BlockRecovery

CONSTANT MaxSweeps   \* bound: largest maximum_sweeps

\* Blocks 1 and 2 touch one row, blocks 2 and 3 another.
Plan == INSTANCE BlockSchedule WITH
  Support <- <<{"r1"}, {"r1", "r2"}, {"r2"}>>, Couplings <- {}

\* Two different permutations, as a seeded generator may draw them.
Shuffled == <<<<2, 1, 3>>, <<3, 2, 1>>, <<1, 3, 2>>, <<2, 3, 1>>>>

MCSchedule ==
  [order \in {"cyclic", "shuffled", "interleaved"} |->
     [d \in 1 .. MaxSweeps + 1 |->
        CASE order = "cyclic" -> Plan!CyclicSchedule
          [] order = "shuffled" -> Shuffled[d]
          [] order = "interleaved" -> Plan!InterleavedSchedule]]

MCBatchSizes ==
  [order \in {"cyclic", "shuffled", "interleaved"} |->
     IF order = "interleaved" THEN Plan!ColorBatches ELSE Plan!SingleBlockBatches]

Config(order, save, every) == [order |-> order, save |-> save, every |-> every]

\* Journaling of single blocks and of batches, compaction frequent or rare.
Journaled == {Config("shuffled", TRUE, 2), Config("interleaved", TRUE, 9)}
Mixed == {Config("shuffled", TRUE, 9), Config("interleaved", FALSE, 2)}
Default == {Config("cyclic", TRUE, 9)}
Interleaved == {Config("interleaved", TRUE, 9)}

UpToMaxSweeps == 1 .. MaxSweeps
OnlyMaxSweeps == {MaxSweeps}
OneOrAllUpdates == {1, MaxSweeps * NumBlocks}
AllUpdates == {MaxSweeps * NumBlocks}

\* Every point of the loop but the one between the marker and its bookkeeping.
LoopPoints == {"loop", "journal", "commit", "compact", "unlink", "report"}
AckPoint == {"ack"}
================================================================================
