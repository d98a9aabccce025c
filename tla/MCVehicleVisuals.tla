--------------------------- MODULE MCVehicleVisuals ---------------------------
\* Small sets of vehicle ids, addresses and models.
EXTENDS VehicleVisuals, TLC
CONSTANTS v1, v2, c1, m1, m2
Symmetry == Permutations(Ids) \cup Permutations(Cars) \cup Permutations(Models)
\* Models only: sound for the liveness property too, whose every part is the
\* same for all models.
ModelSymmetry == Permutations(Models)
=============================================================================
