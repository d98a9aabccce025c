---------------------------- MODULE MCClientAlone ----------------------------
\* The client's transfers against any server, on a small instance.
EXTENDS ClientAlone
CONSTANTS f1, m1, short, long

\* Chunks hold two units: one for the short version, two for the long one.
MCModelOf == [f \in Files |-> m1]
MCCompressedSize == [c \in Contents |-> IF c = short THEN 2 ELSE 3]
=============================================================================
