------------------------- MODULE MCDiscoverySweep --------------------------
(* DiscoverySweep on small instances.                                        *)
EXTENDS DiscoverySweep, TLC

Symmetry == Permutations(Slot)
===============================================================================
