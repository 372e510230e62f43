---------------------------- MODULE MCBalancer ----------------------------
(***************************************************************************)
(* What a configuration of Balancer cannot write.                          *)
(***************************************************************************)
EXTENDS Balancer

\* Opened with any two remotes; the third may be added.
AnyTwo == kSubset(2, Remotes)

Symmetry == Permutations(Remotes)
=============================================================================
