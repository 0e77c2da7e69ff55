----------------------------- MODULE MCPodIPAM -----------------------------
(***************************************************************************)
(* The allocator on an IPv4 /29, whose five usable addresses six Pods      *)
(* compete for.  Pod keys are interchangeable.                             *)
(***************************************************************************)
EXTENDS PodIPAM, TLC

KeySymmetry == Permutations(Keys)
=============================================================================
