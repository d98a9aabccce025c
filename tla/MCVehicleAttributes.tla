------------------------- MODULE MCVehicleAttributes -------------------------
\* One vehicle id and a player who comes and goes.
EXTENDS VehicleAttributes
CONSTANTS car, m1, m2, x, y

\* The first model has a stance, a wheel and offsets of its own, the second
\* a plate.
MCModelDefault ==
    [m \in Models |-> [a \in Attrs |->
        IF m = m1 /\ a \in {"stance", "wheel"} \cup OffsetParts THEN x
        ELSE IF m = m2 /\ a \in {"frontPlateMesh", "plateTexture"} THEN y
        ELSE Unset]]
=============================================================================
