------------------------ MODULE MCContainerCollector ------------------------
(***************************************************************************)
(* ContainerCollector for TLC: two containers, counters up to MaxUse.      *)
(***************************************************************************)
EXTENDS ContainerCollector, TLC

Symmetry == Permutations(Container)
=============================================================================
