--------------------------- MODULE BlockOperatorCache --------------------------
(***************************************************************************)
(* The least-recently-used cache of block operators (block_coordinate/     *)
(* operator_cache.py, FixedRoutingBlockOperatorFactory) under the batches  *)
(* of block_coordinate/scheduling.py: the handles of a batch are obtained  *)
(* by a pool of threads, and all are used after the last one is there.     *)
(* Retaining one handle may evict another, whose storage is then released  *)
(* although the batch still holds it.  The blocks of a batch differ, so    *)
(* that no two threads ever contend for the lock of one key.               *)
(***************************************************************************)
EXTENDS Integers, FiniteSets, Sequences, SequencesExt, FiniteSetsExt, Functions

CONSTANTS
  Blocks,        \* blocks of the problem
  MaxRetained,   \* config.maximum_retained_blocks
  Bytes,         \* operator.retained_bytes of every block
  MaxBytes,      \* config.maximum_retained_bytes
  CacheWorkers   \* parallel_config.construction_workers

ASSUME CacheAssumption ==
  /\ IsFiniteSet(Blocks) /\ MaxRetained \in Nat /\ MaxBytes \in Nat /\ CacheWorkers \in Nat \ {0}
  /\ Bytes \in [Blocks -> Nat]

VARIABLES
  batch,     \* blocks of the batch in progress; empty between batches
  looking,   \* blocks whose operator is being loaded or built, outside the lock
  held,      \* blocks whose handle the batch holds
  broken,    \* the handles among them that were released since
  raised,    \* blocks whose thread raised
  retained   \* _retained, from the least to the most recently used

cacheVars == <<batch, looking, held, broken, raised, retained>>
--------------------------------------------------------------------------------
TotalBytes(S) == SumFunctionOnSet(Bytes, S)
Fits(S) == Cardinality(S) <= MaxRetained /\ TotalBytes(S) <= MaxBytes
Without(s, b) ==
  IF b \in Range(s) THEN RemoveAt(s, CHOOSE n \in DOMAIN s : s[n] = b) ELSE s
MovedToEnd(s, b) == Append(Without(s, b), b)
Free == batch \ (looking \cup held \cup raised)

CacheInit ==
  /\ batch = {} /\ looking = {} /\ held = {} /\ broken = {} /\ raised = {} /\ retained = <<>>

\* One block, or a batch without conflicts.
StartBatch ==
  /\ batch = {} /\ batch' \in SUBSET Blocks \ {{}}
  /\ UNCHANGED <<looking, held, broken, raised, retained>>

\* Mutant: a hit leaves the entry where it is.
HitKeepsPlace(b) ==
  /\ b \in Free /\ Cardinality(looking) < CacheWorkers
  /\ b \in Range(retained) /\ held' = held \cup {b}
  /\ UNCHANGED <<batch, looking, broken, raised, retained>>

\* get: the handle is in memory.
Hit(b) ==
  /\ b \in Free /\ Cardinality(looking) < CacheWorkers
  /\ b \in Range(retained) /\ held' = held \cup {b}
  /\ retained' = MovedToEnd(retained, b)
  /\ UNCHANGED <<batch, looking, broken, raised>>

\* get: it is not; the file is loaded, or the operator built and saved.
Miss(b) ==
  /\ b \in Free /\ Cardinality(looking) < CacheWorkers
  /\ b \notin Range(retained) /\ looking' = looking \cup {b}
  /\ UNCHANGED <<batch, held, broken, raised, retained>>

\* The file does not validate, or the block does not match its operator.
Raise(b) ==
  /\ b \in looking /\ looking' = looking \ {b} /\ raised' = raised \cup {b}
  /\ UNCHANGED <<batch, held, broken, retained>>

\* _retain: the oldest entries go until the rest fits; a handle that alone
\* exceeds the budget is not kept and not released.
Retain(b) ==
  /\ b \in looking /\ looking' = looking \ {b} /\ held' = held \cup {b}
  /\ LET all == MovedToEnd(retained, b)
         dropped == Min({n \in 0 .. Len(all) :
                                 Fits(Range(SubSeq(all, n + 1, Len(all))))})
         kept == SubSeq(all, dropped + 1, Len(all))
     IN  IF MaxRetained = 0 THEN UNCHANGED <<retained, broken>>
         ELSE /\ retained' = kept
              /\ broken' = broken \cup ((held \cap Range(all)) \ Range(kept))
  /\ UNCHANGED <<batch, raised>>

\* The batch has used its handles, or ended with the exception of a thread.
EndBatch ==
  /\ batch # {} /\ looking = {} /\ (raised # {} \/ held = batch)
  /\ batch' = {} /\ held' = {} /\ broken' = {} /\ raised' = {}
  /\ UNCHANGED <<looking, retained>>

\* release and release_all.
Release ==
  /\ batch = {}
  /\ retained' \in {<<>>} \cup {Without(retained, b) : b \in Blocks}
  /\ UNCHANGED <<batch, looking, held, broken, raised>>

CacheNext ==
  \/ StartBatch \/ EndBatch \/ Release
  \/ \E b \in Blocks : Hit(b) \/ Miss(b) \/ Raise(b) \/ Retain(b)
CacheSpec == CacheInit /\ [][CacheNext]_cacheVars
--------------------------------------------------------------------------------
CacheTypeOK ==
  /\ batch \subseteq Blocks /\ looking \subseteq batch /\ broken \subseteq held
  /\ held \subseteq batch /\ raised \subseteq batch
  /\ retained \in Seq(Blocks) /\ IsInjective(retained)

\* A batch that fits the retention limits uses no handle whose storage another
\* thread's eviction released, in whatever order its threads hit, load and
\* retain and whatever earlier batches left in memory.
HeldHandlesAreUsable == Fits(batch) => broken = {}
================================================================================
