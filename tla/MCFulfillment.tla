------------------------------ MODULE MCFulfillment ------------------------------
(***************************************************************************)
(* Fulfillment on small instances: two line items, two jobs, two handlers  *)
(* at a time.  Either staff do whatever they may and nothing fails, as the *)
(* constants of Fulfillment say, or there are faults, more attempts, and   *)
(* the FaultyStaff.                                                        *)
(***************************************************************************)
EXTENDS Fulfillment, TLC

CONSTANT FaultyStaff

VARIABLE faulty

Faulty == INSTANCE Fulfillment WITH
  Staff <- FaultyStaff, MaxFaults <- MaxFaults + 1, MaxAttempts <- MaxAttempts + 1

MCInit == faulty \in BOOLEAN /\ Init
MCNext ==
  /\ IF faulty THEN Faulty!Next ELSE Next
  /\ UNCHANGED faulty
MCSpec == MCInit /\ [][MCNext]_<<vars, faulty>>

Symmetry == Permutations(Items) \cup Permutations(Jobs) \cup Permutations(Procs)
================================================================================
