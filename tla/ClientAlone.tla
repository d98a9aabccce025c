----------------------------- MODULE ClientAlone -----------------------------
(***************************************************************************)
(* The client's transfers (ClientTransfers) with a server and a connection *)
(* that may do anything: every packet of the protocol may arrive at any    *)
(* time, in any order, as often as MaxPackets allows, or never.  What      *)
(* holds here the client guarantees by itself.                             *)
(***************************************************************************)
EXTENDS ClientTransfers

CONSTANT MaxPackets              \* bound: packets the client receives

VARIABLE packets                 \* number of packets received so far

\* Chunks as the server's ProcessTick cuts them (ServerTransfers, ChunkMsg):
\* full, the shorter last one, an empty one at the end of a version, or a
\* full chunk of bytes from behind the end of the server's buffer.
CutFrom(m, c) ==
    LET offset == m.index * FileChunkSize
        size   == CompressedSize[c]
    IN /\ m.content = (IF offset <= size THEN c ELSE Garbage)
       /\ m.len = (IF offset <= size /\ size - offset < FileChunkSize
                   THEN size - offset ELSE FileChunkSize)

Chunks ==
    {m \in [type : {"chunk"}, file : Files, content : Contents \cup {Garbage},
            index : UNION {0..(ChunkCount(c) + 1) : c \in Contents},
            len : 0..FileChunkSize] :
        \E c \in Contents : CutFrom(m, c)}

Packets ==
    [type : {"begin"}, file : Files, content : Contents]
    \cup Chunks
    \cup [type : {"end", "cancel"}, file : Files]

Receive ==
    /\ packets < MaxPackets
    /\ packets' = packets + 1
    /\ \/ \E m \in Packets : Handle(m)
       \/ CancelAll
       \/ \E m \in Models : CancelModelTransfers(m)

Threads ==
    /\ \/ \E f \in Files, want \in Contents : RequestFile(f, want)
       \/ \E f \in Files : ManualRetry(f)
       \/ RunTask
       \/ OnTransferEndFinish
       \/ Worker
    /\ UNCHANGED packets

AloneInit == Init /\ packets = 0
AloneNext == Receive \/ Threads
AloneVars == <<vars, packets>>
AloneSpec == AloneInit /\ [][AloneNext]_AloneVars
=============================================================================
