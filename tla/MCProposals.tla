----------------------------- MODULE MCProposals -----------------------------
(***************************************************************************)
(* Instances of Proposals for TLC: every conversation of a few messages.   *)
(***************************************************************************)
EXTENDS Proposals, TLC

RunSymmetry == Permutations(Runs)
=============================================================================
