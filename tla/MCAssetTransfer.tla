--------------------------- MODULE MCAssetTransfer ---------------------------
\* Server, channels and client on a small instance.
EXTENDS AssetTransfer
CONSTANTS f1, m1, long

\* Chunks hold two units: the version needs two, the second one shorter.
MCModelOf == [f \in Files |-> m1]
MCCompressedSize == [c \in Contents |-> 3]
=============================================================================
