--------------------------- MODULE MCEstimationSetup ---------------------------
(***************************************************************************)
(* One of three parts that run before an estimation and share no state:    *)
(* the colouring of the blocks, the support preflight and the preparation  *)
(* of the routing.  Every behaviour is a behaviour of one part; the others *)
(* keep one initial state.                                                 *)
(*                                                                         *)
(* Colouring: every support pattern of four blocks over two rows, with at  *)
(* most two declared couplings, which give every graph on four blocks.     *)
(* Preflight: the three groups of MCSupportPreflight.  Preparation: three  *)
(* shards constructed by two threads, over two invocations on one cache    *)
(* directory, with two of a failing worker, an interrupt and a crash.      *)
(***************************************************************************)
EXTENDS MCSupportPreflight, MCRoutingPreparation, ConflictColoring

VARIABLE part

setupVars == <<coloringVars, vars, preparationVars, part>>

IncreasingPairs == {pair \in Blocks \X Blocks : pair[1] < pair[2]}
MCCouplings == {pairs \in SUBSET IncreasingPairs : Cardinality(pairs) <= 2}

Parts == {"coloring", "preflight", "preparation"}

\* The inputs of the parts that do not run.
IdleInputs ==
  /\ part # "coloring" => support = [block \in Blocks |-> {}] /\ couplings = {}
  /\ part # "preflight" => mode = "exact" /\ selected = MCNonempty
  /\ part # "preparation" => durable

MCInit ==
  /\ part \in Parts
  /\ ColoringInit /\ couplings \in MCCouplings
  /\ Init
  /\ mode = "structural" => selected = MCNonempty
  /\ PreparationInit
  /\ IdleInputs

ColoringStep ==
  part = "coloring" /\ ColoringNext /\ UNCHANGED <<vars, preparationVars, part>>
PreflightStep ==
  part = "preflight" /\ Next /\ UNCHANGED <<coloringVars, preparationVars, part>>
PreparationStep ==
  /\ part = "preparation" /\ PreparationNext /\ UNCHANGED <<coloringVars, vars, part>>
  /\ workerFailures' + aborts' + deaths' <= 2

MCNext == ColoringStep \/ PreflightStep \/ PreparationStep

\* The fairness of ColoringSpec and of PreparationSpec.
MCSpec ==
  /\ MCInit /\ [][MCNext]_setupVars
  /\ WF_setupVars(ColoringStep) /\ PreparationFairness
================================================================================
