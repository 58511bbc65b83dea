--------------------------- MODULE MCFleetRegistry ---------------------------
(* FleetRegistry for TLC.                                                  *)
EXTENDS FleetRegistry, TLC

Symmetry == Permutations(Euids) \cup Permutations(Serials)
=============================================================================
