--------------------------- MODULE ServerTransfers ---------------------------
(***************************************************************************)
(* The server's file transfer manager, ModelTransferMgr                    *)
(* (src/Server/src/ModelTransferManager.cpp), with the part of the session *)
(* that decides who may call it: the players that are connected, and those *)
(* among them whose ACTION_INIT was accepted.                              *)
(*                                                                         *)
(* Everything here runs on the server's main thread: packets, natives and  *)
(* onTick are never concurrent, but ProcessTick is modelled one transfer   *)
(* at a time (TickBegin, TickTransfer, TickEnd), so that the deque, the    *)
(* batch taken from it and the transfers put back are visible in between.  *)
(*                                                                         *)
(* A file is a (model, kind) pair.  What matters of its bytes is which     *)
(* version they are (Contents) and how large that version is compressed    *)
(* (CompressedSize).  "out" holds the packets the last step handed to each *)
(* player's connection, on the ordered channel of the transfers.           *)
(***************************************************************************)
EXTENDS Naturals, Sequences, FiniteSets

CONSTANTS
    Players,                     \* player slots (ids are reused)
    Files,                       \* requested (model, kind) pairs
    Models,                      \* custom model ids
    ModelOf,                     \* the model a file belongs to
    Contents,                    \* versions of a file's bytes
    CompressedSize,              \* size of the compressed version
    FileChunkSize,               \* kFileChunkSize
    Oversized,                   \* versions above MaxModelFileSizeBytes
    NoContent,                   \* no readable file / nothing cached
    Garbage,                     \* bytes read past the end of a buffer
    ChunksPerPlayerPerTick,
    MaxActiveTransfersPerPlayer

\* readUnsigned clamps both limits of the configuration to at least 1; a
\* compressed buffer is never empty.
ASSUME ServerAssumption ==
    /\ ModelOf \in [Files -> Models]
    /\ CompressedSize \in [Contents -> Nat \ {0}]
    /\ FileChunkSize \in Nat \ {0}
    /\ Oversized \subseteq Contents
    /\ NoContent \notin Contents
    /\ Garbage \notin Contents
    /\ ChunksPerPlayerPerTick \in Nat \ {0}
    /\ MaxActiveTransfersPerPlayer \in Nat \ {0}

VARIABLES
    connected,           \* players with an IPlayer
    extended,            \* gPlayers: players with hasExtendedVeh
    disk,                \* the models directory
    cache,               \* g_cache
    activeTransfers,     \* g_activeTransfers
    ticking,             \* the main thread is inside ProcessTick
    currentBatch,        \* ProcessTick's local deques and budget
    remainingTransfers,
    sentPerPlayer,
    out                  \* packets sent by the last step

tickVars == <<ticking, currentBatch, remainingTransfers, sentPerPlayer>>
vars == <<connected, extended, disk, cache, activeTransfers, tickVars, out>>

-----------------------------------------------------------------------------
Transfer == [player : Players, file : Files, next : Nat, total : Nat \ {0}]
Key(t) == <<t.player, t.file>>

\* totalChunks: the last chunk may be shorter than the others.
ChunkCount(c) == (CompressedSize[c] + FileChunkSize - 1) \div FileChunkSize

BeginMsg(f, c) == [type |-> "begin", file |-> f, content |-> c,
                   total |-> ChunkCount(c)]
EndMsg(f)      == [type |-> "end", file |-> f]
CancelMsg(f)   == [type |-> "cancel", file |-> f]

\* Chunk i, cut from the bytes of version c that the cache holds now.  The
\* number of chunks was fixed when the transfer began: once the cache holds
\* a shorter version, chunk i may start at its end (an empty chunk) or past
\* it, where "remaining" wraps around and a full chunk is read out of the
\* buffer.
ChunkMsg(f, c, i) ==
    LET offset == i * FileChunkSize
        size   == CompressedSize[c]
    IN [type |-> "chunk", file |-> f, index |-> i,
        content |-> IF offset <= size THEN c ELSE Garbage,
        len |-> IF offset <= size /\ size - offset < FileChunkSize
                THEN size - offset ELSE FileChunkSize]

Quiet == [p \in Players |-> <<>>]
Send(p, msgs) == out' = [Quiet EXCEPT ![p] = msgs]

\* The deque q without the transfers whose keys are in D.
Without(q, D) ==
    LET kept[n \in 0..Len(q)] ==
          IF n = 0 THEN <<>>
          ELSE IF Key(q[n]) \in D THEN kept[n - 1]
          ELSE Append(kept[n - 1], q[n])
    IN kept[Len(q)]

\* The transfers of player p in q (std::count_if counts them).
Owned(q, p) == {i \in DOMAIN q : q[i].player = p}

\* GetOrLoadCache: the cached bytes, else the file's, which are then cached.
Loaded(f) == IF cache[f] # NoContent THEN cache[f] ELSE disk[f]
LoadCache(f) == cache' = [cache EXCEPT ![f] = Loaded(f)]

-----------------------------------------------------------------------------
Init ==
    /\ connected = {}
    /\ extended = {}
    /\ disk \in [Files -> Contents \cup {NoContent}]
    /\ cache = [f \in Files |-> NoContent]
    /\ activeTransfers = <<>>
    /\ ticking = FALSE
    /\ currentBatch = <<>>
    /\ remainingTransfers = <<>>
    /\ sentPerPlayer = [p \in Players |-> 0]
    /\ out = Quiet

\* onIncomingConnection: the player's attributes are reset.
IncomingConnection(p) ==
    /\ ~ticking
    /\ p \notin connected
    /\ connected' = connected \cup {p}
    /\ extended' = extended \ {p}
    /\ out' = Quiet
    /\ UNCHANGED <<disk, cache, activeTransfers, tickVars>>

\* onPlayerConnect: reset again, and an INIT that came before it is forgotten.
PlayerConnect(p) ==
    /\ ~ticking
    /\ p \in connected
    /\ extended' = extended \ {p}
    /\ out' = Quiet
    /\ UNCHANGED <<connected, disk, cache, activeTransfers, tickVars>>

\* ACTION_INIT with a compatible version.
PlayerInit(p) ==
    /\ ~ticking
    /\ p \in connected
    /\ extended' = extended \cup {p}
    /\ out' = Quiet
    /\ UNCHANGED <<connected, disk, cache, activeTransfers, tickVars>>

\* Wrong on purpose: the transfers of the player stay behind.
PlayerDisconnectLeavesTransfers(p) ==
    /\ ~ticking
    /\ p \in connected
    /\ connected' = connected \ {p}
    /\ extended' = extended \ {p}
    /\ out' = Quiet
    /\ UNCHANGED <<disk, cache, activeTransfers, tickVars>>

\* Wrong on purpose: the authorization stays behind.
PlayerDisconnectLeavesAuthorization(p) ==
    /\ ~ticking
    /\ p \in connected
    /\ connected' = connected \ {p}
    /\ activeTransfers' = Without(activeTransfers, {p} \X Files)
    /\ out' = Quiet
    /\ UNCHANGED <<extended, disk, cache, tickVars>>

\* onPlayerDisconnect: the transfers go, g_clientFileStatus stays.
PlayerDisconnect(p) ==
    /\ ~ticking
    /\ p \in connected
    /\ connected' = connected \ {p}
    /\ extended' = extended \ {p}
    /\ activeTransfers' = Without(activeTransfers, {p} \X Files)
    /\ out' = Quiet
    /\ UNCHANGED <<disk, cache, tickVars>>

\* Wrong on purpose: the transfer that runs already is not erased.
OnRequestFileTwice(p, f) ==
    /\ ~ticking
    /\ p \in extended
    /\ Cardinality(Owned(activeTransfers, p)) < MaxActiveTransfersPerPlayer
    /\ LoadCache(f)
    /\ Loaded(f) # NoContent
    /\ activeTransfers' =
          Append(activeTransfers, [player |-> p, file |-> f, next |-> 0,
                                   total |-> ChunkCount(Loaded(f))])
    /\ Send(p, <<BeginMsg(f, Loaded(f))>>)
    /\ UNCHANGED <<connected, extended, disk, tickVars>>

\* Wrong on purpose: the limit is off by one.
OnRequestFileAboveLimit(p, f) ==
    LET others == Without(activeTransfers, {<<p, f>>}) IN
    /\ ~ticking
    /\ p \in extended
    /\ Cardinality(Owned(others, p)) <= MaxActiveTransfersPerPlayer
    /\ LoadCache(f)
    /\ Loaded(f) # NoContent
    /\ activeTransfers' =
          Append(others, [player |-> p, file |-> f, next |-> 0,
                          total |-> ChunkCount(Loaded(f))])
    /\ Send(p, <<BeginMsg(f, Loaded(f))>>)
    /\ UNCHANGED <<connected, extended, disk, tickVars>>

\* OnRequestFile.  The player's transfer of the same file (there is at most
\* one, see OneTransferPerFile) is erased first, whatever happens next; above
\* the limit nothing is sent at all.
OnRequestFile(p, f) ==
    LET others == Without(activeTransfers, {<<p, f>>}) IN
    /\ ~ticking
    /\ p \in extended
    /\ \/ /\ Cardinality(Owned(others, p)) >= MaxActiveTransfersPerPlayer
          /\ activeTransfers' = others
          /\ out' = Quiet
          /\ UNCHANGED cache
       \/ /\ Cardinality(Owned(others, p)) < MaxActiveTransfersPerPlayer
          /\ LoadCache(f)
          /\ IF Loaded(f) = NoContent \/ Loaded(f) \in Oversized
             THEN /\ activeTransfers' = others
                  /\ Send(p, <<CancelMsg(f)>>)
             ELSE /\ activeTransfers' =
                        Append(others, [player |-> p, file |-> f, next |-> 0,
                                        total |-> ChunkCount(Loaded(f))])
                  /\ Send(p, <<BeginMsg(f, Loaded(f))>>)
    /\ UNCHANGED <<connected, extended, disk, tickVars>>

\* CancelTransfer, for ACTION_ASSET_CANCEL (no hasExtendedVeh test there).
CancelTransfer(p, f) ==
    /\ ~ticking
    /\ p \in connected
    /\ activeTransfers' = Without(activeTransfers, {<<p, f>>})
    /\ out' = Quiet
    /\ UNCHANGED <<connected, extended, disk, cache, tickVars>>

\* CancelTransfersForModel, when a custom vehicle is destroyed.
CancelTransfersForModel(m) ==
    /\ ~ticking
    /\ activeTransfers' =
          Without(activeTransfers, Players \X {f \in Files : ModelOf[f] = m})
    /\ out' = Quiet
    /\ UNCHANGED <<connected, extended, disk, cache, tickVars>>

\* InvalidateCache, from the Pawn native, after a file was replaced.
InvalidateCache(f) ==
    /\ ~ticking
    /\ cache' = [cache EXCEPT ![f] = NoContent]
    /\ out' = Quiet
    /\ UNCHANGED <<connected, extended, disk, activeTransfers, tickVars>>

\* The server's owner replaces or removes a file, at any time.
ReplaceFile(f, c) ==
    /\ disk' = [disk EXCEPT ![f] = c]
    /\ out' = Quiet
    /\ UNCHANGED <<connected, extended, cache, activeTransfers, tickVars>>

-----------------------------------------------------------------------------
(* ProcessTick *)

TickBegin ==
    /\ ~ticking
    /\ activeTransfers # <<>>
    /\ ticking' = TRUE
    /\ currentBatch' = activeTransfers
    /\ activeTransfers' = <<>>
    /\ remainingTransfers' = <<>>
    /\ sentPerPlayer' = [p \in Players |-> 0]
    /\ out' = Quiet
    /\ UNCHANGED <<connected, extended, disk, cache>>

\* The player has left or the file can no longer be loaded: dropped, and
\* the client is not told.
DropTransfer(t) ==
    /\ t.player \notin connected \/ Loaded(t.file) = NoContent
    /\ out' = Quiet
    /\ UNCHANGED <<cache, remainingTransfers, sentPerPlayer>>

\* Wrong on purpose: a transfer that has to wait goes to the front.
DeferTransferToFront(t) ==
    /\ t.player \in connected /\ Loaded(t.file) # NoContent
    /\ sentPerPlayer[t.player] >= ChunksPerPlayerPerTick
    /\ LoadCache(t.file)
    /\ remainingTransfers' = <<t>> \o remainingTransfers
    /\ out' = Quiet
    /\ UNCHANGED sentPerPlayer

\* Earlier transfers of the same player have used up its chunks.
DeferTransfer(t) ==
    /\ t.player \in connected /\ Loaded(t.file) # NoContent
    /\ sentPerPlayer[t.player] >= ChunksPerPlayerPerTick
    /\ LoadCache(t.file)
    /\ remainingTransfers' = Append(remainingTransfers, t)
    /\ out' = Quiet
    /\ UNCHANGED sentPerPlayer

\* Wrong on purpose: one chunk too few.
AffordableLess(t) ==
    LET budget == ChunksPerPlayerPerTick - sentPerPlayer[t.player] - 1
        left == t.total - t.next
    IN IF budget < left THEN budget ELSE left

\* How many chunks of t the player's budget pays for in this tick.
Affordable(t) ==
    LET budget == ChunksPerPlayerPerTick - sentPerPlayer[t.player]
        left == t.total - t.next
    IN IF budget < left THEN budget ELSE left

\* Wrong on purpose: the chunks start with the one after the next.
PacketsSkipping(t, k, c) ==
    LET chunks == [i \in 1..k |-> ChunkMsg(t.file, c, t.next + i)]
    IN IF t.next + k >= t.total THEN Append(chunks, EndMsg(t.file)) ELSE chunks

\* What one pass sends of t: k chunks, and END after the last one.
Packets(t, k, c) ==
    LET chunks == [i \in 1..k |->
                     ChunkMsg(t.file, c, t.next + i - 1)]
    IN IF t.next + k >= t.total THEN Append(chunks, EndMsg(t.file)) ELSE chunks

\* Wrong on purpose: a transfer put back starts again from its first chunk.
PumpTransferAgain(t) ==
    LET k == Affordable(t) IN
    /\ t.player \in connected /\ Loaded(t.file) # NoContent
    /\ sentPerPlayer[t.player] < ChunksPerPlayerPerTick
    /\ LoadCache(t.file)
    /\ Send(t.player, Packets(t, k, Loaded(t.file)))
    /\ sentPerPlayer' = [sentPerPlayer EXCEPT ![t.player] = @ + k]
    /\ remainingTransfers' =
          IF t.next + k >= t.total
          THEN remainingTransfers
          ELSE Append(remainingTransfers, [t EXCEPT !.next = 0])

\* The next chunks of t, and END after the last one.
PumpTransfer(t) ==
    LET k == Affordable(t) IN
    /\ t.player \in connected /\ Loaded(t.file) # NoContent
    /\ sentPerPlayer[t.player] < ChunksPerPlayerPerTick
    /\ LoadCache(t.file)
    /\ Send(t.player, Packets(t, k, Loaded(t.file)))
    /\ sentPerPlayer' = [sentPerPlayer EXCEPT ![t.player] = @ + k]
    /\ remainingTransfers' =
          IF t.next + k >= t.total
          THEN remainingTransfers
          ELSE Append(remainingTransfers, [t EXCEPT !.next = @ + k])

TickTransfer ==
    /\ ticking
    /\ currentBatch # <<>>
    /\ currentBatch' = Tail(currentBatch)
    /\ LET t == Head(currentBatch)
       IN DropTransfer(t) \/ DeferTransfer(t) \/ PumpTransfer(t)
    /\ UNCHANGED <<connected, extended, disk, activeTransfers, ticking>>

TickEnd ==
    /\ ticking
    /\ currentBatch = <<>>
    /\ ticking' = FALSE
    /\ activeTransfers' = activeTransfers \o remainingTransfers
    /\ remainingTransfers' = <<>>
    /\ out' = Quiet
    /\ UNCHANGED <<connected, extended, disk, cache, currentBatch,
                   sentPerPlayer>>

Tick == TickBegin \/ TickTransfer \/ TickEnd

-----------------------------------------------------------------------------
Session(p) ==
    \/ IncomingConnection(p)
    \/ PlayerConnect(p)
    \/ PlayerInit(p)
    \/ PlayerDisconnect(p)

ClientPacket(p, f) ==
    \/ OnRequestFile(p, f)
    \/ CancelTransfer(p, f)

Script ==
    \/ \E m \in Models : CancelTransfersForModel(m)
    \/ \E f \in Files : InvalidateCache(f)

Next ==
    \/ \E p \in Players : Session(p)
    \/ \E p \in Players, f \in Files : ClientPacket(p, f)
    \/ Script
    \/ \E f \in Files, c \in Contents \cup {NoContent} : ReplaceFile(f, c)
    \/ Tick

\* The server's main loop calls onTick forever.
Spec == Init /\ [][Next]_vars /\ WF_vars(Tick)

-----------------------------------------------------------------------------
Message ==
    [type : {"begin"}, file : Files, content : Contents, total : Nat \ {0}]
    \cup [type : {"chunk"}, file : Files, content : Contents \cup {Garbage},
          index : Nat, len : 0..FileChunkSize]
    \cup [type : {"end", "cancel"}, file : Files]

\* Every variable has its type, and only connected players are extended.
TypeOK ==
    /\ connected \subseteq Players
    /\ extended \subseteq connected
    /\ disk \in [Files -> Contents \cup {NoContent}]
    /\ cache \in [Files -> Contents \cup {NoContent}]
    /\ activeTransfers \in Seq(Transfer)
    /\ currentBatch \in Seq(Transfer)
    /\ remainingTransfers \in Seq(Transfer)
    /\ sentPerPlayer \in [Players -> 0..ChunksPerPlayerPerTick]
    /\ ticking \in BOOLEAN
    /\ out \in [Players -> Seq(Message)]

\* The transfers in the order ProcessTick serves them: those it has put
\* back, those it has still to look at, and the deque.
Queue == remainingTransfers \o currentBatch \o activeTransfers

\* No player has two transfers of one file, whether they wait in the deque
\* or are spread over ProcessTick's local deques: a repeated request replaces
\* the transfer (OnRequestFile's erase), so the client never gets the chunks
\* of two attempts mixed.
OneTransferPerFile ==
    \A i, j \in DOMAIN Queue : Key(Queue[i]) = Key(Queue[j]) => i = j

\* A player never has more transfers than MaxActiveTransfersPerPlayer,
\* counting the ones a running tick holds.
TransferLimit ==
    \A p \in Players :
        Cardinality(Owned(Queue, p)) <= MaxActiveTransfersPerPlayer

\* A player's files are sent one after the other: only the first of its
\* transfers can have chunks out already, so chunks of two files are never
\* interleaved on its channel, although deferred transfers are moved between
\* deques and repeated requests go to the back.
FirstComeFirstServed ==
    \A i, j \in DOMAIN Queue :
        (i < j /\ Queue[i].player = Queue[j].player) => Queue[j].next = 0

\* A transfer that is queued still has a chunk to send (END goes out with
\* the last one, never later), and its slot is held by the player who asked
\* for it: a player who takes over the slot inherits nothing.
QueueIsLive ==
    \A i \in DOMAIN Queue :
        Queue[i].next < Queue[i].total /\ Queue[i].player \in connected

\* A tick never leaves chunks unsent that the budget would have paid for:
\* whoever has a transfer put back has been sent all its chunks of the tick,
\* however many transfers they were spread over.
WorkConserving ==
    \A i \in DOMAIN remainingTransfers :
        sentPerPlayer[remainingTransfers[i].player] = ChunksPerPlayerPerTick

\* The promise made to the players (ChunkStreams), and where its state is.
StreamOf(pf) ==
    LET q      == Queue
        places == {i \in DOMAIN q : Key(q[i]) = pf}
        t      == q[CHOOSE i \in places : TRUE]
    IN IF places = {} THEN [next |-> 0, total |-> 0]
                      ELSE [next |-> t.next, total |-> t.total]

Shape(m) ==
    [type |-> m.type, file |-> m.file,
     number |-> CASE m.type = "begin" -> m.total
                  [] m.type = "chunk" -> m.index
                  [] OTHER -> 0]

Streams == INSTANCE ChunkStreams WITH
    Totals <- {ChunkCount(c) : c \in Contents},
    stream <- [pf \in Players \X Files |-> StreamOf(pf)],
    sent   <- [p \in Players |-> [i \in DOMAIN out[p] |-> Shape(out[p][i])]]

\* The transfer manager keeps that promise: every step starts, continues,
\* refuses or gives up streams as ChunkStreams allows, so what a player
\* receives of a file is BEGIN, its chunks in order and END, never mixed
\* with another file's chunks.
ImplementsStreams == Streams!Spec

\* Every transfer ends (sent, dropped or cancelled) unless the client keeps
\* asking for the file again: no transfer starves behind the player's other
\* transfers or behind other players.
TransfersEnd ==
    \A p \in Players, f \in Files :
        \/ []<><<OnRequestFile(p, f)>>_vars
        \/ []<>(\A i \in DOMAIN Queue : Key(Queue[i]) # <<p, f>>)
=============================================================================
