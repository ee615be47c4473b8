------------------------ MODULE ConflictColoring_proofs ------------------------
(***************************************************************************)
(* Proofs about the construction of conflict-free batches, for every       *)
(* number of blocks, every set of measurement rows, every support and      *)
(* every set of declared couplings.                                        *)
(***************************************************************************)
EXTENDS ConflictColoring, InductionLemmas

SharesRow(i, j) == i # j /\ support[i] \cap support[j] # {}

\* While rows are scanned, owners and edges are those of the scanned blocks.
GraphSoFar ==
  phase = "graph" =>
    /\ \A row \in Rows : owners[row] = {b \in Blocks : b < index /\ row \in support[b]}
    /\ \A i, j \in Blocks : j \in adjacency[i] <=> i < index /\ j < index /\ SharesRow(i, j)

\* After the scan, before the couplings.
GraphScanned ==
  phase = "couple" =>
    \A i, j \in Blocks : j \in adjacency[i] <=> SharesRow(i, j)

\* Colouring starts at the first block with colour 0.
NothingColored ==
  /\ phase \in {"graph", "couple"} => candidate = 0
  /\ phase = "couple" => index = 1

\* Every colour below the candidate is taken by an earlier neighbour.
CandidateIsLeast ==
  phase = "color" => \A color \in Nat : color < candidate => color \in Unavailable

IInv ==
  /\ ColoringTypeOK
  /\ GraphSoFar
  /\ GraphScanned
  /\ NothingColored
  /\ AdjacencyExact
  /\ CandidateIsLeast
  /\ BatchesConflictFree
  /\ NoEmptyBatch
--------------------------------------------------------------------------------
LEMMA InitIInv == ColoringInit => IInv
<1> SUFFICES ASSUME ColoringInit PROVE IInv
  OBVIOUS
<1> USE NumBlocksAssumption DEF ColoringInit
<1>1. ColoringTypeOK
  BY DEF ColoringTypeOK, Blocks
<1>2. GraphSoFar
  BY DEF GraphSoFar, Blocks
<1>3. GraphScanned /\ NothingColored /\ AdjacencyExact /\ CandidateIsLeast
  BY DEF GraphScanned, NothingColored, AdjacencyExact, CandidateIsLeast
<1>4. Colored = {}
  BY DEF Colored
<1>5. BatchesConflictFree /\ NoEmptyBatch
  BY <1>4 DEF BatchesConflictFree, NoEmptyBatch
<1> QED
  BY <1>1, <1>2, <1>3, <1>5 DEF IInv

(***************************************************************************)
(* One block of the row scan: no step of it colours anything.              *)
(***************************************************************************)
LEMMA JoinOwnersIInv == IInv /\ JoinOwners => IInv'
<1> SUFFICES ASSUME IInv, JoinOwners PROVE IInv'
  OBVIOUS
<1> USE NumBlocksAssumption DEF JoinOwners, inputs
<1>0. index \in Blocks /\ index \in Nat /\ NumBlocks \in Nat
  BY DEF IInv, ColoringTypeOK, Blocks
<1>1. \A b \in Blocks : b \in EarlierOwners <=> b < index /\ support[b] \cap support[index] # {}
  <2> TAKE b \in Blocks
  <2>1. b \in EarlierOwners <=> \E row \in support[index] : b \in owners[row]
    BY DEF EarlierOwners
  <2>2. support[index] \subseteq Rows /\ support[b] \subseteq Rows
    BY <1>0 DEF IInv, ColoringTypeOK
  <2>3. \A row \in Rows : b \in owners[row] <=> b < index /\ row \in support[b]
    BY DEF IInv, GraphSoFar
  <2> QED
    BY <2>1, <2>2, <2>3
<1>2. EarlierOwners \subseteq Blocks
  BY <1>0 DEF IInv, ColoringTypeOK, EarlierOwners
<1>3. ColoringTypeOK'
  <2>1. adjacency' \in [Blocks -> SUBSET Blocks]
    BY <1>0, <1>2 DEF IInv, ColoringTypeOK
  <2>2. owners' \in [Rows -> SUBSET Blocks]
    BY <1>0 DEF IInv, ColoringTypeOK
  <2>3. index' \in Blocks /\ phase' \in {"graph", "couple"}
    BY <1>0 DEF Blocks
  <2> QED
    BY <2>1, <2>2, <2>3 DEF IInv, ColoringTypeOK
<1>4. \A i, j \in Blocks :
        j \in adjacency'[i] <=> i < index + 1 /\ j < index + 1 /\ SharesRow(i, j)
  <2> TAKE i, j \in Blocks
  <2>1. j \in adjacency[i] <=> i < index /\ j < index /\ SharesRow(i, j)
    BY DEF IInv, GraphSoFar
  <2>2. i \in Nat /\ j \in Nat
    BY DEF Blocks
  <2>3. adjacency'[i] = IF i = index THEN adjacency[i] \cup EarlierOwners
                        ELSE IF i \in EarlierOwners THEN adjacency[i] \cup {index}
                        ELSE adjacency[i]
    OBVIOUS
  <2>4. CASE i = index
    BY <1>0, <1>1, <2>1, <2>2, <2>3, <2>4 DEF SharesRow
  <2>5. CASE i # index
    BY <1>0, <1>1, <2>1, <2>2, <2>3, <2>5 DEF SharesRow
  <2> QED
    BY <2>4, <2>5
<1>5. GraphSoFar'
  <2> SUFFICES ASSUME phase' = "graph" PROVE GraphSoFar'
    BY DEF GraphSoFar
  <2>1. index' = index + 1
    OBVIOUS
  <2>2. \A row \in Rows : owners'[row] = {b \in Blocks : b < index + 1 /\ row \in support[b]}
    <3> TAKE row \in Rows
    <3>1. owners[row] = {b \in Blocks : b < index /\ row \in support[b]}
      BY DEF IInv, GraphSoFar
    <3>2. owners'[row] = IF row \in support[index] THEN owners[row] \cup {index} ELSE owners[row]
      OBVIOUS
    <3> QED
      BY <1>0, <3>1, <3>2 DEF Blocks
  <2> QED
    BY <1>4, <2>1, <2>2 DEF GraphSoFar, SharesRow
<1>6. GraphScanned'
  <2> SUFFICES ASSUME phase' = "couple" PROVE GraphScanned'
    BY DEF GraphScanned
  <2>1. index = NumBlocks
    BY <1>0 DEF Blocks
  <2>2. \A i \in Blocks : i < index + 1
    BY <2>1 DEF Blocks
  <2> QED
    BY <1>4, <2>2 DEF GraphScanned, SharesRow
<1>7. phase' \in {"graph", "couple"}
  OBVIOUS
<1>8. NothingColored' /\ AdjacencyExact' /\ CandidateIsLeast' /\ Colored' = {}
  BY <1>7 DEF IInv, NothingColored, AdjacencyExact, CandidateIsLeast, Colored
<1>9. BatchesConflictFree' /\ NoEmptyBatch'
  BY <1>8 DEF BatchesConflictFree, NoEmptyBatch
<1> QED
  BY <1>3, <1>5, <1>6, <1>8, <1>9 DEF IInv

(***************************************************************************)
(* The couplings complete the graph.                                       *)
(***************************************************************************)
LEMMA AddCouplingsIInv == IInv /\ AddCouplings => IInv'
<1> SUFFICES ASSUME IInv, AddCouplings PROVE IInv'
  OBVIOUS
<1> USE NumBlocksAssumption DEF AddCouplings, inputs
<1>1. ColoringTypeOK'
  BY DEF IInv, ColoringTypeOK
<1>2. GraphSoFar' /\ GraphScanned'
  BY DEF GraphSoFar, GraphScanned
<1>3. AdjacencyExact'
  <2> SUFFICES ASSUME NEW i \in Blocks, NEW j \in Blocks
               PROVE  j \in adjacency'[i] <=> InConflict(i, j)'
    BY DEF AdjacencyExact
  <2>1. j \in adjacency[i] <=> SharesRow(i, j)
    BY DEF IInv, GraphScanned
  <2>2. j \in adjacency'[i] <=> j \in adjacency[i] \/ <<i, j>> \in couplings
                                                  \/ <<j, i>> \in couplings
    OBVIOUS
  <2>3. <<i, j>> \in couplings \/ <<j, i>> \in couplings => i # j
    BY DEF IInv, ColoringTypeOK
  <2> QED
    BY <2>1, <2>2, <2>3 DEF SharesRow, InConflict
<1>4. NothingColored' /\ CandidateIsLeast'
  BY DEF IInv, ColoringTypeOK, NothingColored, CandidateIsLeast
<1>5. Colored' = {}
  BY DEF IInv, NothingColored, Colored, Blocks
<1>6. BatchesConflictFree' /\ NoEmptyBatch'
  BY <1>5 DEF BatchesConflictFree, NoEmptyBatch
<1> QED
  BY <1>1, <1>2, <1>3, <1>4, <1>6 DEF IInv

(***************************************************************************)
(* Trying the next colour keeps the smaller ones excluded.                 *)
(***************************************************************************)
LEMMA TryNextColorIInv == IInv /\ TryNextColor => IInv'
<1> SUFFICES ASSUME IInv, TryNextColor PROVE IInv'
  OBVIOUS
<1> USE NumBlocksAssumption DEF TryNextColor, inputs
<1>1. ColoringTypeOK'
  BY DEF IInv, ColoringTypeOK
<1>2. Unavailable' = Unavailable
  BY DEF Unavailable
<1>3. CandidateIsLeast'
  BY <1>2 DEF IInv, ColoringTypeOK, CandidateIsLeast
<1>4. GraphSoFar' /\ GraphScanned' /\ NothingColored'
  BY DEF GraphSoFar, GraphScanned, NothingColored
<1>5. AdjacencyExact'
  BY DEF IInv, AdjacencyExact, InConflict
<1>6. BatchesConflictFree' /\ NoEmptyBatch'
  BY DEF IInv, BatchesConflictFree, NoEmptyBatch, Colored, Batch, InConflict
<1> QED
  BY <1>1, <1>3, <1>4, <1>5, <1>6 DEF IInv

(***************************************************************************)
(* The assigned colour differs from those of the earlier neighbours, and   *)
(* every smaller one is the colour of such a neighbour.                    *)
(***************************************************************************)
LEMMA AssignColorIInv == IInv /\ AssignColor => IInv'
<1> SUFFICES ASSUME IInv, AssignColor PROVE IInv'
  OBVIOUS
<1> USE NumBlocksAssumption DEF AssignColor, inputs
<1>0. index \in Blocks /\ index \in Nat /\ NumBlocks \in Nat /\ Blocks \subseteq Nat
  BY DEF IInv, ColoringTypeOK, Blocks
<1>1. ColoringTypeOK'
  BY <1>0 DEF IInv, ColoringTypeOK, Blocks
<1>2. GraphSoFar' /\ GraphScanned' /\ NothingColored' /\ AdjacencyExact'
  BY DEF IInv, GraphSoFar, GraphScanned, NothingColored, AdjacencyExact, InConflict
<1>3. CandidateIsLeast'
  BY DEF CandidateIsLeast
<1>4. Colored = {b \in Blocks : b < index} /\ Colored' = Colored \cup {index}
  BY <1>0 DEF Colored, Blocks
<1>5. colors'[index] = candidate /\ \A b \in Colored : colors'[b] = colors[b]
  BY <1>0, <1>4 DEF IInv, ColoringTypeOK
<1>6. \A b \in Colored : InConflict(b, index) => colors[b] # candidate
  <2> SUFFICES ASSUME NEW b \in Colored, InConflict(b, index), colors[b] = candidate
               PROVE  FALSE
    OBVIOUS
  <2>1. b \in adjacency[index] /\ b < index
    BY <1>0, <1>4 DEF IInv, AdjacencyExact, InConflict
  <2> QED
    BY <2>1 DEF Unavailable
<1>7. BatchesConflictFree'
  <2> SUFFICES ASSUME NEW i \in Colored', NEW j \in Colored', colors'[i] = colors'[j],
                      InConflict(i, j)
               PROVE  FALSE
    BY DEF BatchesConflictFree, InConflict
  <2>1. InConflict(j, i) /\ i # j
    BY DEF InConflict
  <2>2. CASE i \in Colored /\ j \in Colored
    BY <1>5, <2>2 DEF IInv, BatchesConflictFree
  <2>3. CASE i = index
    BY <1>4, <1>5, <1>6, <2>1, <2>3
  <2>4. CASE j = index
    BY <1>4, <1>5, <1>6, <2>1, <2>4
  <2> QED
    BY <1>4, <2>2, <2>3, <2>4
<1>8. NoEmptyBatch'
  <2> SUFFICES ASSUME NEW i \in Colored', NEW color \in 0 .. colors'[i]
               PROVE  \E b \in Colored' : colors'[b] = color
    BY DEF NoEmptyBatch, Batch
  <2>1. CASE i \in Colored
    <3>1. color \in 0 .. colors[i]
      BY <1>5, <2>1
    <3>2. PICK b \in Colored : colors[b] = color
      BY <2>1, <3>1 DEF IInv, NoEmptyBatch, Batch
    <3> QED
      BY <1>4, <1>5, <3>2
  <2>2. CASE i = index /\ color < candidate
    <3>1. color \in Unavailable
      BY <1>5, <2>2 DEF IInv, ColoringTypeOK, CandidateIsLeast
    <3>2. PICK b \in adjacency[index] : b < index /\ colors[b] = color
      BY <3>1 DEF Unavailable
    <3>3. b \in Colored
      BY <1>0, <1>4, <3>2 DEF IInv, ColoringTypeOK
    <3> QED
      BY <1>4, <1>5, <3>2, <3>3
  <2>3. CASE i = index /\ color = candidate
    BY <1>4, <1>5, <2>3
  <2> QED
    BY <1>4, <1>5, <2>1, <2>2, <2>3 DEF IInv, ColoringTypeOK
<1> QED
  BY <1>1, <1>2, <1>3, <1>7, <1>8 DEF IInv

LEMMA NextIInv == IInv /\ [ColoringNext]_coloringVars => IInv'
<1> SUFFICES ASSUME IInv, [ColoringNext]_coloringVars PROVE IInv'
  OBVIOUS
<1>1. CASE JoinOwners
  BY <1>1, JoinOwnersIInv
<1>2. CASE AddCouplings
  BY <1>2, AddCouplingsIInv
<1>3. CASE TryNextColor
  BY <1>3, TryNextColorIInv
<1>4. CASE AssignColor
  BY <1>4, AssignColorIInv
<1>5. CASE UNCHANGED coloringVars
  BY <1>5 DEF coloringVars, IInv, ColoringTypeOK, GraphSoFar, GraphScanned, NothingColored,
     AdjacencyExact, CandidateIsLeast, BatchesConflictFree, NoEmptyBatch,
     SharesRow, InConflict, Unavailable, Colored, Batch
<1> QED
  BY <1>1, <1>2, <1>3, <1>4, <1>5 DEF ColoringNext
--------------------------------------------------------------------------------
LEMMA Invariance == ColoringSpec => []IInv
<1>1. ColoringInit => IInv
  BY InitIInv
<1>2. IInv /\ [ColoringNext]_coloringVars => IInv'
  BY NextIInv
<1> QED
  BY <1>1, <1>2, PTL DEF ColoringSpec

(***************************************************************************)
(* The types of the loops' variables.                                      *)
(***************************************************************************)
THEOREM ColoringTypes == ColoringSpec => []ColoringTypeOK
<1>1. IInv => ColoringTypeOK
  BY DEF IInv
<1> QED
  BY <1>1, Invariance, PTL

(***************************************************************************)
(* build_block_conflict_graph computes the conflict relation, no edge      *)
(* more or less, however many blocks share a row.                          *)
(***************************************************************************)
THEOREM GraphIsExact == ColoringSpec => []AdjacencyExact
<1>1. IInv => AdjacencyExact
  BY DEF IInv
<1> QED
  BY <1>1, Invariance, PTL

(***************************************************************************)
(* No two blocks of a batch share a measurement row or a coupling: merging *)
(* the proposals of a batch is sound.                                      *)
(***************************************************************************)
THEOREM BatchesAreConflictFree == ColoringSpec => []BatchesConflictFree
<1>1. IInv => BatchesConflictFree
  BY DEF IInv
<1> QED
  BY <1>1, Invariance, PTL

(***************************************************************************)
(* The colours in use have no gap, so no batch of the schedule is empty.   *)
(***************************************************************************)
THEOREM BatchesAreNonempty == ColoringSpec => []NoEmptyBatch
<1>1. IInv => NoEmptyBatch
  BY DEF IInv
<1> QED
  BY <1>1, Invariance, PTL
--------------------------------------------------------------------------------
(* First fit *)

Taken(i) == {colors[b] : b \in {k \in adjacency[i] : k < i}}

\* A coloured block has the least colour that no earlier neighbour has; as
\* earlier blocks have smaller colours than their number, so has this one.
FirstFit ==
  \A i \in Colored :
    /\ colors[i] \notin Taken(i) /\ colors[i] < i
    /\ \A color \in Nat : color < colors[i] => color \in Taken(i)
LEMMA FirstFitStep == IInv /\ FirstFit /\ [ColoringNext]_coloringVars => FirstFit'
<1> SUFFICES ASSUME IInv, FirstFit, [ColoringNext]_coloringVars PROVE FirstFit'
  OBVIOUS
<1> USE NumBlocksAssumption
<1>0. /\ index \in Blocks /\ candidate \in Nat /\ colors \in [Blocks -> Nat]
      /\ adjacency \in [Blocks -> SUBSET Blocks] /\ Blocks \subseteq Nat
  BY DEF IInv, ColoringTypeOK, Blocks
<1>1. CASE JoinOwners \/ AddCouplings
  <2>1. Colored' = {}
    <3>1. CASE JoinOwners
      <4>1. phase' = "graph" \/ phase' = "couple"
        BY <3>1 DEF JoinOwners
      <4> QED BY <4>1 DEF Colored
    <3>2. CASE AddCouplings
      <4>1. phase' = "color" /\ index' = 1
        BY <3>2 DEF AddCouplings, IInv, NothingColored
      <4> QED BY <4>1 DEF Colored, Blocks
    <3> QED BY <1>1, <3>1, <3>2
  <2> QED BY <2>1 DEF FirstFit
<1>2. CASE TryNextColor \/ UNCHANGED coloringVars
  BY <1>2 DEF TryNextColor, coloringVars, FirstFit, Taken, Colored
<1>3. CASE AssignColor
  <2>1. /\ phase = "color" /\ candidate \notin Unavailable /\ adjacency' = adjacency
        /\ colors' = [colors EXCEPT ![index] = candidate]
    BY <1>3 DEF AssignColor
  <2>2. Colored' = {b \in Blocks : b < index} \cup {index}
    <3>1. CASE index < NumBlocks
      <4>1. index' = index + 1 /\ phase' = "color"
        BY <1>3, <3>1 DEF AssignColor
      <4> QED BY <1>0, <3>1, <4>1 DEF Colored, Blocks
    <3>2. CASE ~ (index < NumBlocks)
      <4>1. index = NumBlocks /\ phase' = "done"
        BY <1>0, <1>3, <3>2 DEF AssignColor, Blocks
      <4> QED BY <1>0, <4>1 DEF Colored, Blocks
    <3> QED BY <3>1, <3>2
  <2>3. \A i \in Blocks : i < index => i \in Colored
    BY <2>1 DEF Colored
  <2>4. \A b \in Blocks : colors'[b] = IF b = index THEN candidate ELSE colors[b]
    BY <1>0, <2>1
  <2>5. ASSUME NEW i \in Blocks, i <= index PROVE Taken(i)' = Taken(i)
    <3>1. \A b \in {k \in adjacency[i] : k < i} : colors'[b] = colors[b]
      BY <1>0, <2>4, <2>5
    <3> QED BY <2>1, <3>1 DEF Taken
  <2>6. Unavailable = Taken(index)
    BY DEF Unavailable, Taken
  <2>7. \A color \in Nat : color < candidate => color \in Taken(index)
    BY <2>1, <2>6 DEF IInv, CandidateIsLeast
  <2>8. candidate < index
    <3> SUFFICES ASSUME candidate >= index PROVE FALSE
      BY <1>0
    <3>1. index - 1 \in Nat /\ index - 1 < candidate
      BY <1>0 DEF Blocks
    <3>2. PICK b \in adjacency[index] : b < index /\ colors[b] = index - 1
      BY <2>7, <3>1 DEF Taken
    <3>3. b \in Blocks /\ colors[b] < b
      BY <1>0, <2>3, <3>2 DEF FirstFit
    <3> QED BY <1>0, <3>2, <3>3
  <2>9. ASSUME NEW i \in Colored'
        PROVE  /\ colors'[i] \notin Taken(i)' /\ colors'[i] < i
               /\ \A color \in Nat : color < colors'[i] => color \in Taken(i)'
    <3>1. CASE i = index
      BY <1>0, <2>1, <2>4, <2>5, <2>6, <2>7, <2>8, <3>1
    <3>2. CASE i # index
      <4>1. i \in Blocks /\ i < index /\ i <= index
        BY <1>0, <2>2, <3>2
      <4>2. Taken(i)' = Taken(i) /\ colors'[i] = colors[i] /\ i \in Colored
        BY <2>3, <2>4, <2>5, <3>2, <4>1
      <4> QED BY <4>2 DEF FirstFit
    <3> QED BY <3>1, <3>2
  <2> QED BY <2>9 DEF FirstFit
<1> QED BY <1>1, <1>2, <1>3 DEF ColoringNext

LEMMA AlwaysFirstFit == ColoringSpec => []FirstFit
<1>1. ColoringInit => FirstFit
  BY DEF ColoringInit, FirstFit, Colored
<1> QED BY <1>1, FirstFitStep, Invariance, PTL DEF ColoringSpec

\* One step of the recursive definition of the schedule's colours.
Fit(f, i) ==
  LET unavailable == {f[j] : j \in {k \in Reference!Conflicts(i) : k < i}}
  IN  CHOOSE c \in 0 .. NumBlocks :
         c \notin unavailable /\ 0 .. (c - 1) \subseteq unavailable

\* The colours the loops end with solve the recursive equation.
LEMMA ColorsSolve ==
  ASSUME IInv, FirstFit, phase = "done"
  PROVE  colors = [i \in Blocks |-> Fit(colors, i)]
<1> USE NumBlocksAssumption
<1>1. colors \in [Blocks -> Nat] /\ Colored = Blocks
  BY DEF IInv, ColoringTypeOK, Colored
<1>2. \A i \in Blocks : Reference!Conflicts(i) = adjacency[i]
  <2> SUFFICES ASSUME NEW i \in Blocks PROVE Reference!Conflicts(i) = adjacency[i]
    OBVIOUS
  <2>1. adjacency[i] \subseteq Blocks /\ \A j \in Blocks : j \in adjacency[i] <=> InConflict(i, j)
    BY DEF IInv, ColoringTypeOK, AdjacencyExact
  <2>2. \A pair \in couplings : pair = <<pair[1], pair[2]>>
    BY DEF IInv, ColoringTypeOK
  <2>3. ASSUME NEW j \in Blocks
        PROVE  {i, j} \in {{pair[1], pair[2]} : pair \in couplings}
                 <=> <<i, j>> \in couplings \/ <<j, i>> \in couplings
    <3>1. ASSUME {i, j} \in {{pair[1], pair[2]} : pair \in couplings}
          PROVE  <<i, j>> \in couplings \/ <<j, i>> \in couplings
      <4>1. PICK pair \in couplings : {i, j} = {pair[1], pair[2]}
        BY <3>1
      <4>2. (pair[1] = i /\ pair[2] = j) \/ (pair[1] = j /\ pair[2] = i)
        BY <4>1
      <4> QED BY <2>2, <4>2
    <3>2. ASSUME <<i, j>> \in couplings \/ <<j, i>> \in couplings
          PROVE  {i, j} \in {{pair[1], pair[2]} : pair \in couplings}
      BY <3>2
    <3> QED BY <3>1, <3>2
  <2>4. Reference!Conflicts(i) = {j \in Blocks \ {i} : InConflict(i, j)}
    BY <2>3 DEF Reference!Conflicts, Reference!Blocks, Blocks, InConflict
  <2>5. ~ InConflict(i, i)
    BY DEF InConflict
  <2> QED BY <2>1, <2>4, <2>5
<1>3. ASSUME NEW i \in Blocks PROVE Fit(colors, i) = colors[i]
  <2>1. Fit(colors, i) = CHOOSE c \in 0 .. NumBlocks : c \notin Taken(i) /\ 0 .. (c - 1) \subseteq Taken(i)
    BY <1>2 DEF Fit, Taken
  <2>2. /\ colors[i] \in 0 .. NumBlocks /\ colors[i] \notin Taken(i)
        /\ 0 .. (colors[i] - 1) \subseteq Taken(i)
    BY <1>1 DEF FirstFit, Blocks
  <2>3. \A c \in 0 .. NumBlocks :
          c \notin Taken(i) /\ 0 .. (c - 1) \subseteq Taken(i) => c = colors[i]
    <3> SUFFICES ASSUME NEW c \in 0 .. NumBlocks, c \notin Taken(i), 0 .. (c - 1) \subseteq Taken(i)
                 PROVE  c = colors[i]
      OBVIOUS
    <3>1. ~ (colors[i] \in 0 .. (c - 1)) /\ ~ (c \in 0 .. (colors[i] - 1))
      BY <2>2
    <3> QED BY <2>2, <3>1
  <2> QED BY <2>1, <2>2, <2>3
<1> QED BY <1>1, <1>3

\* Two solutions of the equation agree block by block.
LEMMA OneSolution ==
  ASSUME NEW f, NEW g, f = [i \in Blocks |-> Fit(f, i)], g = [i \in Blocks |-> Fit(g, i)]
  PROVE  \A i \in Blocks : f[i] = g[i]
<1> USE NumBlocksAssumption
<1> DEFINE Same == {n \in 0 .. NumBlocks : \A i \in 1 .. n : f[i] = g[i]}
<1>1. 0 \in Same
  OBVIOUS
<1>2. ASSUME NEW n \in 1 .. NumBlocks, n - 1 \in Same PROVE n \in Same
  <2>1. \A i \in 1 .. n - 1 : f[i] = g[i]
    BY <1>2
  <2>2. \A k \in Reference!Conflicts(n) : k < n => k \in 1 .. n - 1
    BY DEF Reference!Conflicts, Reference!Blocks
  <2>3. {f[j] : j \in {k \in Reference!Conflicts(n) : k < n}}
          = {g[j] : j \in {k \in Reference!Conflicts(n) : k < n}}
    BY <2>1, <2>2
  <2>4. Fit(f, n) = Fit(g, n)
    BY <2>3 DEF Fit
  <2>5. f[n] = Fit(f, n) /\ g[n] = Fit(g, n)
    <3>1. n \in Blocks
      BY DEF Blocks
    <3> HIDE DEF Same
    <3> QED BY <3>1
  <2>6. \A i \in 1 .. n : i = n \/ i \in 1 .. n - 1
    OBVIOUS
  <2> QED BY <2>1, <2>4, <2>5, <2>6
<1>3. 0 .. NumBlocks \subseteq Same
  <2> HIDE DEF Same
  <2> QED BY <1>1, <1>2, IntervalInduction
<1>4. NumBlocks \in Same
  BY <1>3
<1> QED BY <1>4 DEF Blocks

(***************************************************************************)
(* The loops compute the recursive first-fit colouring that the schedules  *)
(* of the estimator are defined from, for every conflict graph.            *)
(***************************************************************************)
THEOREM LoopsComputeColors == ColoringSpec => []AgreesWithReference
<1>1. ASSUME IInv, FirstFit PROVE AgreesWithReference
  <2> SUFFICES ASSUME phase = "done" PROVE \A i \in Blocks : colors[i] = Reference!Color[i]
    BY DEF AgreesWithReference
  <2> DEFINE Solves(f) == f = [i \in Blocks |-> Fit(f, i)]
             chosen == CHOOSE f : Solves(f)
  <2>1. Solves(colors)
    BY <1>1, ColorsSolve
  <2>2. Reference!Color = chosen
    BY DEF Reference!Color, Reference!Blocks, Blocks, Fit
  <2> HIDE DEF Solves
  <2>3. \E f : Solves(f)
    BY <2>1, Zenon
  <2>4. Solves(chosen)
    BY <2>3, Zenon
  <2> HIDE DEF chosen
  <2>5. \A i \in Blocks : colors[i] = chosen[i]
    <3> USE DEF Solves
    <3> QED BY <2>1, <2>4, OneSolution
  <2> QED BY <2>2, <2>5
<1> QED BY <1>1, Invariance, AlwaysFirstFit, PTL
================================================================================
