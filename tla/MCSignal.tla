------------------------------ MODULE MCSignal ------------------------------
(* Signal on small instances; slots are interchangeable.                   *)
EXTENDS Signal, TLC

SlotSymmetry == Permutations(Slots)
=============================================================================
