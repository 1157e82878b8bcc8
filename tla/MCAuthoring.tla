----------------------------- MODULE MCAuthoring -----------------------------
(* Values for Authoring's constants.                                       *)
EXTENDS Authoring, TLC

MCSymmetry == Permutations(Calls) \cup Permutations(Parents)
=============================================================================
