-------------------------- MODULE MCServerTransfers --------------------------
\* The server's transfers on small instances.
EXTENDS ServerTransfers
CONSTANTS p1, f1, f2, f3, m1, m2, short, long

MCModelOf == [f \in Files |-> IF f = f1 THEN m1 ELSE m2]

\* A chunk is two units; the short version fills one, the long one needs a
\* second, shorter chunk.
MCCompressedSize == [c \in Contents |-> IF c = short THEN 2 ELSE 3]
=============================================================================
