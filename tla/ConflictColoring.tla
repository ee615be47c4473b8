--------------------------- MODULE ConflictColoring ----------------------------
(***************************************************************************)
(* How the estimator decides which OD blocks may be solved concurrently:   *)
(* build_block_conflict_graph scans the blocks in partition order, joining *)
(* each to the earlier owners of the measurement rows it touches, then     *)
(* adds the declared couplings; color_block_conflict_graph gives every     *)
(* block the least colour that no earlier neighbour has.  Blocks of one    *)
(* colour form a batch whose proposals are merged as if independent.       *)
(***************************************************************************)
EXTENDS Naturals, FiniteSets

CONSTANTS NumBlocks,    \* number of blocks of the partition
          Rows          \* measurement rows

ASSUME NumBlocksAssumption == NumBlocks \in Nat \ {0}

Blocks == 1 .. NumBlocks

VARIABLES
  support,      \* input: measurement_support_indices of each block
  couplings,    \* input: additional_couplings, as ordered pairs of blocks
  phase,        \* "graph", "couple", "color" or "done"
  index,        \* the block being processed
  owners,       \* blocks already seen on each measurement row
  adjacency,    \* neighbours of each block
  candidate,    \* the colour being tried for block index
  colors        \* colours of the blocks before index

coloringVars == <<support, couplings, phase, index, owners, adjacency, candidate, colors>>
inputs == <<support, couplings>>
--------------------------------------------------------------------------------
ColoringInit ==
  /\ support \in [Blocks -> SUBSET Rows]
  /\ couplings \in SUBSET {pair \in Blocks \X Blocks : pair[1] # pair[2]}
  /\ phase = "graph"
  /\ index = 1
  /\ owners = [row \in Rows |-> {}]
  /\ adjacency = [block \in Blocks |-> {}]
  /\ candidate = 0
  /\ colors = [block \in Blocks |-> 0]

\* Mutant: a row remembers its last owner only.
LastOwners ==
  {b \in UNION {owners[row] : row \in support[index]} :
     \E row \in support[index] : b \in owners[row] /\ \A c \in owners[row] : c <= b}

\* Blocks before index that own one of its rows.
EarlierOwners == UNION {owners[row] : row \in support[index]}

\* One iteration of the loop over blocks of build_block_conflict_graph.
JoinOwners ==
  /\ phase = "graph"
  /\ adjacency' = [block \in Blocks |->
       IF block = index THEN adjacency[block] \cup EarlierOwners
       ELSE IF block \in EarlierOwners THEN adjacency[block] \cup {index}
       ELSE adjacency[block]]
  /\ owners' = [row \in Rows |->
       IF row \in support[index] THEN owners[row] \cup {index} ELSE owners[row]]
  /\ IF index < NumBlocks
       THEN index' = index + 1 /\ phase' = "graph"
       ELSE index' = 1 /\ phase' = "couple"
  /\ UNCHANGED <<inputs, candidate, colors>>

\* The loop over additional_couplings, both directions of every pair.
AddCouplings ==
  /\ phase = "couple"
  /\ adjacency' = [block \in Blocks |->
       adjacency[block] \cup {other \in Blocks : <<block, other>> \in couplings
                                                 \/ <<other, block>> \in couplings}]
  /\ phase' = "color"
  /\ UNCHANGED <<inputs, index, owners, candidate, colors>>

\* Mutants: the neighbour just before is overlooked; colours start at 1; all
\* earlier blocks count as neighbours.
UnavailableTooEarly == {colors[block] : block \in {b \in adjacency[index] : b < index - 1}}
UnavailableFromOne == {0} \cup {colors[block] : block \in {b \in adjacency[index] : b < index}}
UnavailableEverywhere == {colors[block] : block \in {b \in Blocks : b < index}}

\* Colours of the earlier neighbours of block index.
Unavailable == {colors[block] : block \in {b \in adjacency[index] : b < index}}

\* Mutant: the candidate colour does not advance.
TrySameColor ==
  /\ phase = "color"
  /\ candidate \in Unavailable
  /\ candidate' = candidate
  /\ UNCHANGED <<inputs, phase, index, owners, adjacency, colors>>

\* while color in unavailable: color += 1
TryNextColor ==
  /\ phase = "color"
  /\ candidate \in Unavailable
  /\ candidate' = candidate + 1
  /\ UNCHANGED <<inputs, phase, index, owners, adjacency, colors>>

\* colors.append(color), and on to the next block.
AssignColor ==
  /\ phase = "color"
  /\ candidate \notin Unavailable
  /\ colors' = [colors EXCEPT ![index] = candidate]
  /\ candidate' = 0
  /\ IF index < NumBlocks
       THEN index' = index + 1 /\ phase' = "color"
       ELSE index' = index /\ phase' = "done"
  /\ UNCHANGED <<inputs, owners, adjacency>>

ColoringNext == JoinOwners \/ AddCouplings \/ TryNextColor \/ AssignColor

ColoringSpec == ColoringInit /\ [][ColoringNext]_coloringVars /\ WF_coloringVars(ColoringNext)
--------------------------------------------------------------------------------
\* Blocks whose colour is final.
Colored == IF phase = "done" THEN Blocks
           ELSE IF phase = "color" THEN {block \in Blocks : block < index}
           ELSE {}

\* The batch of one colour (the comprehension that builds batches).
Batch(color) == {block \in Colored : colors[block] = color}

InConflict(i, j) ==
  /\ i # j
  /\ \/ support[i] \cap support[j] # {}
     \/ <<i, j>> \in couplings
     \/ <<j, i>> \in couplings

(***************************************************************************)
(* The variables have their types.                                         *)
(***************************************************************************)
ColoringTypeOK ==
  /\ support \in [Blocks -> SUBSET Rows]
  /\ couplings \subseteq {pair \in Blocks \X Blocks : pair[1] # pair[2]}
  /\ phase \in {"graph", "couple", "color", "done"}
  /\ index \in Blocks
  /\ owners \in [Rows -> SUBSET Blocks]
  /\ adjacency \in [Blocks -> SUBSET Blocks]
  /\ candidate \in Nat
  /\ colors \in [Blocks -> Nat]

(***************************************************************************)
(* The graph built row by row is exactly the conflict relation: an edge is *)
(* neither lost (two blocks on one row would be merged as independent) nor *)
(* invented (concurrency would be lost), and no block neighbours itself.   *)
(***************************************************************************)
AdjacencyExact ==
  phase \in {"color", "done"} =>
    \A i, j \in Blocks : j \in adjacency[i] <=> InConflict(i, j)

(***************************************************************************)
(* Two blocks of one batch never share a measurement row or a coupling:    *)
(* solve_conflict_free_batch may add their prediction deltas, and never    *)
(* raises "parallel batch contains overlapping measurement support".       *)
(***************************************************************************)
BatchesConflictFree ==
  \A i, j \in Colored : colors[i] = colors[j] => ~ InConflict(i, j)

(***************************************************************************)
(* First fit leaves no colour unused below one that is used, so            *)
(* ConflictFreeBlockSchedule never rejects an empty batch and the batches  *)
(* of the colours 0 .. max cover every block.                              *)
(***************************************************************************)
NoEmptyBatch ==
  \A i \in Colored : \A color \in 0 .. colors[i] : Batch(color) # {}

Reference == INSTANCE BlockSchedule WITH
  Support <- support,
  Couplings <- {{pair[1], pair[2]} : pair \in couplings}

(***************************************************************************)
(* The loops compute the colouring that the estimator's interleaved        *)
(* schedule is defined from.                                               *)
(***************************************************************************)
AgreesWithReference ==
  phase = "done" => \A i \in Blocks : colors[i] = Reference!Color[i]

(***************************************************************************)
(* The while loop that looks for a free colour always ends, and so does    *)
(* the loop over the blocks.                                               *)
(***************************************************************************)
ColoringTerminates == phase = "color" ~> phase = "done"
================================================================================
