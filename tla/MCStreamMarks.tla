---------------------------- MODULE MCStreamMarks ----------------------------
(***************************************************************************)
(* StreamMarks for TLC: nothing tells one sample rate from another.        *)
(***************************************************************************)
EXTENDS StreamMarks, TLC

RateSymmetry == Permutations(Rates)
=============================================================================
