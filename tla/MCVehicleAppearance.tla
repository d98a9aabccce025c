------------------------- MODULE MCVehicleAppearance -------------------------
\* One vehicle of one model.
EXTENDS VehicleAppearance
CONSTANTS red, blue, tint1, rims1, wheel1, mask1, textA, textB, mesh1, a1
=============================================================================
