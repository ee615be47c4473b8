---------------------------- MODULE DurableProgress ----------------------------
(***************************************************************************)
(* What the estimator promises about its checkpoint directory, counted in  *)
(* accepted block updates: memory runs ahead of the disk, the disk never   *)
(* goes back, a restart continues from exactly what the disk holds, and    *)
(* nothing is announced as committed before the disk holds it.             *)
(***************************************************************************)
EXTENDS Naturals

VARIABLES
  working,   \* a process runs
  work,      \* accepted updates of the running process
  saved,     \* accepted updates a restart would recover
  told       \* accepted updates announced as committed

vars == <<working, work, saved, told>>

Init == working = FALSE /\ work = 0 /\ saved = 0 /\ told = 0

\* A run starts, fresh or resumed, from what is saved.
Start ==
  /\ ~ working /\ working'
  /\ work' = saved
  /\ UNCHANGED <<saved, told>>

\* A batch is accepted in memory.
Advance ==
  /\ working
  /\ work' \in Nat /\ work' > work
  /\ UNCHANGED <<working, saved, told>>

\* One atomic file replacement makes all of it durable.
Save ==
  /\ working
  /\ saved' = work
  /\ UNCHANGED <<working, work, told>>

Announce ==
  /\ working
  /\ saved = work /\ told' = work
  /\ UNCHANGED <<working, work, saved>>

\* The process ends, in order or not.
Stop ==
  /\ working /\ ~ working'
  /\ work' = 0
  /\ UNCHANGED <<saved, told>>

Next == Start \/ Advance \/ Save \/ Announce \/ Stop

Spec == Init /\ [][Next]_vars

\* The promise: what was announced stays recoverable.
Promise == told <= saved
================================================================================
