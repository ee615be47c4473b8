--------------------------- MODULE MCSupportPreflight --------------------------
(***************************************************************************)
(* Three nonempty destination groups: one of a single chunk and a large    *)
(* block, one of two origin chunks and two blocks, one without a block in  *)
(* the partition.  All are selected, or only the sampled ones.             *)
(***************************************************************************)
EXTENDS SupportPreflight

MCNonempty == <<1, 2, 3>>
MCSelections == {<<1, 2, 3>>, <<2, 3>>}
Everything == {<<1, 2, 3>>}
MCGroupBlocks == <<<<1>>, <<2, 3>>, <<>>>>
MCBlockSize == <<2, 1, 1>>
MCNumChunks == <<1, 2, 1>>

Policy(interval, retain, size, retained) ==
  [interval |-> interval, retain |-> retain, size |-> size, retained |-> retained]

\* Both cadences and both retentions; the large block exceeds the size of the
\* second, the second group its retained budget.
MCPolicies == {Policy(1, FALSE, 2, 9), Policy(2, TRUE, 1, 3)}
DefaultPolicy == {Policy(1, TRUE, 9, 9)}

AllModes == {"structural", "exact"}
ExactMode == {"exact"}
================================================================================
