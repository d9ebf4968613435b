------------------------------ MODULE MCKernel ------------------------------
(***************************************************************************)
(* Instances of Kernel for TLC: two protocol processes that handlers start *)
(* and exit inside each other, with timers of one tick; or one process and *)
(* a longer run, with a callback timer of two ticks.                       *)
(***************************************************************************)
EXTENDS Kernel, TLC

CONSTANTS proc, other, et, ct

Processes == Permutations({proc, other})

MCInterval == [t \in Timer |-> IF t = ct THEN 2 ELSE 1]
MCTick == [t \in Timer |-> 1]
=============================================================================
