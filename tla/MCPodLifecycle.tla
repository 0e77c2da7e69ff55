--------------------------- MODULE MCPodLifecycle ---------------------------
(* PodLifecycle on small instances.                                        *)
EXTENDS PodLifecycle, TLC

KeySymmetry == Permutations(Keys)
=============================================================================
