---------------------------- MODULE AssetTransfer ----------------------------
(***************************************************************************)
(* A client's downloads from end to end: the server's transfer manager     *)
(* (ServerTransfers, with this client as its only player), the client      *)
(* (ClientTransfers) and the two reliable ordered channels between them.   *)
(*                                                                         *)
(* The channels are RakNet's, seen through how the two programs use them:  *)
(* a packet that is sent is appended, the receiver takes the first one,    *)
(* and a lost connection loses what is in flight.  BEGIN, CHUNK, END and   *)
(* CANCEL share one channel (FileTransferChannel); by default it is the    *)
(* channel of CUSTOM_VEHICLE_DESTROY, too.                                 *)
(***************************************************************************)
EXTENDS ClientTransfers, Functions

CONSTANTS
    Player, Oversized, ChunksPerPlayerPerTick, MaxActiveTransfersPerPlayer,
    MaxFaults                    \* bound: changes of the files on the server,
                                 \*   lost connections and destructions

\* What the server assumes of its own constants (ServerTransfers).
ASSUME AssetAssumption ==
    /\ Oversized \subseteq Contents
    /\ ChunksPerPlayerPerTick \in Nat \ {0}
    /\ MaxActiveTransfersPerPlayer \in Nat \ {0}
    /\ MaxFaults \in Nat

VARIABLES
    connected, extended, disk, cache, activeTransfers, ticking, currentBatch,
    remainingTransfers, sentPerPlayer, out,
    toServer,                    \* packets on their way to the server
    toClient,                    \* packets on their way to the client
    faults

Server == INSTANCE ServerTransfers WITH Players <- {Player}

serverVars == <<connected, extended, disk, cache, activeTransfers, ticking,
                currentBatch, remainingTransfers, sentPerPlayer, out>>
assetVars  == <<serverVars, vars, toServer, toClient, faults>>

Lost       == [type |-> "lost"]
Destroy(m) == [type |-> "destroy", model |-> m]

AssetInit ==
    /\ Server!Init
    /\ Init
    /\ toServer = <<>>
    /\ toClient = <<>>
    /\ faults = 0

-----------------------------------------------------------------------------
\* A step of the server puts its packets on the channel.
ServerSends == toClient' = toClient \o out'[Player]

\* The handshake: connecting, once the client knows that the connection it
\* had is lost, and the INIT packet that is accepted.
Join ==
    /\ Lost \notin Range(toClient)
    /\ \/ Server!IncomingConnection(Player)
       \/ Server!PlayerConnect(Player)
       \/ Server!PlayerInit(Player)
    /\ ServerSends
    /\ UNCHANGED <<vars, toServer, faults>>

ServerTick ==
    /\ Server!Tick
    /\ ServerSends
    /\ UNCHANGED <<vars, toServer, faults>>

\* Actions::Process: a request is served if the player is authorized; what a
\* READY packet changes is no part of the transfers.
ServerReceive ==
    LET m == Head(toServer) IN
    /\ toServer # <<>>
    /\ ~ticking
    /\ toServer' = Tail(toServer)
    /\ IF m.type = "request" /\ Player \in extended
       THEN Server!OnRequestFile(Player, m.file) /\ ServerSends
       ELSE UNCHANGED <<serverVars, toClient>>
    /\ UNCHANGED <<vars, faults>>

\* The owner replaces a file, with or without a call of InvalidateCache.
ReplaceFile ==
    /\ faults < MaxFaults
    /\ faults' = faults + 1
    /\ \/ \E f \in Files, c \in Contents \cup {NoContent} :
             Server!ReplaceFile(f, c)
       \/ \E f \in Files : Server!InvalidateCache(f)
    /\ ServerSends
    /\ UNCHANGED <<vars, toServer>>

\* UnregisterCustomVehicle: the server's transfers stop, the clients are told.
DestroyModel(m) ==
    /\ faults < MaxFaults
    /\ faults' = faults + 1
    /\ Server!CancelTransfersForModel(m)
    /\ toClient' = Append(toClient, Destroy(m))
    /\ UNCHANGED <<vars, toServer>>

\* The connection is lost, and with it what was in flight.
Disconnect ==
    /\ faults < MaxFaults
    /\ faults' = faults + 1
    /\ Server!PlayerDisconnect(Player)
    /\ toServer' = <<>>
    /\ \E n \in 0..Len(toClient) :
          toClient' = Append(SubSeq(toClient, 1, n), Lost)
    /\ UNCHANGED vars

-----------------------------------------------------------------------------
\* A step of the client that may send: nothing goes out without connection.
ClientSends ==
    toServer' = IF Player \in connected THEN toServer \o sent' ELSE toServer

\* A file is asked for because of a definition, which the server sends to
\* authorized players only.
ClientMain ==
    /\ \/ /\ Player \in extended
          /\ \E f \in Files, want \in Contents : RequestFile(f, want)
       \/ \E f \in Files : ManualRetry(f)
       \/ RunTask
    /\ ClientSends
    /\ UNCHANGED <<serverVars, toClient, faults>>

ClientWorker ==
    /\ Worker
    /\ UNCHANGED <<serverVars, toServer, toClient, faults>>

\* The network thread takes the next packet.
ClientReceive ==
    LET m == Head(toClient) IN
    /\ toClient # <<>>
    /\ toClient' = Tail(toClient)
    /\ \/ Handle(m)
       \/ m.type = "lost" /\ CancelAll
       \/ m.type = "destroy" /\ CancelModelTransfers(m.model)
    /\ UNCHANGED <<serverVars, toServer, faults>>

ClientFinish ==
    /\ OnTransferEndFinish
    /\ UNCHANGED <<serverVars, toServer, toClient, faults>>

AssetNext ==
    \/ Join
    \/ ServerTick
    \/ ServerReceive
    \/ ReplaceFile
    \/ \E m \in Models : DestroyModel(m)
    \/ Disconnect
    \/ ClientMain
    \/ ClientWorker
    \/ ClientReceive
    \/ ClientFinish

\* The server's loop ticks and polls its network, the client's frame drains
\* the queue, its network thread and its worker run; a retry gets due and a
\* timeout expires for every entry some day.  Nobody has to join, to ask for
\* files or to click.
Drain == RunTask /\ ClientSends /\ UNCHANGED <<serverVars, toClient, faults>>
Scan(f) ==
    /\ \E late \in SUBSET Files : f \in late /\ WorkerScan(late)
    /\ UNCHANGED <<serverVars, toServer, toClient, faults>>
Queue(f) ==
    /\ WorkerPush(f)
    /\ UNCHANGED <<serverVars, toServer, toClient, faults>>

Fairness ==
    /\ WF_assetVars(ServerTick)
    /\ WF_assetVars(ServerReceive)
    /\ WF_assetVars(ClientReceive)
    /\ WF_assetVars(ClientFinish)
    /\ WF_assetVars(Drain)
    /\ \A f \in Files : WF_assetVars(Scan(f)) /\ WF_assetVars(Queue(f))

AssetSpec == AssetInit /\ [][AssetNext]_assetVars /\ Fairness

-----------------------------------------------------------------------------
\* Every variable of the server, the client and the channels has its type.
AssetTypeOK ==
    /\ Server!TypeOK
    /\ TypeOK
    /\ toServer \in Seq([type : {"request", "ready"}, file : Files])
    /\ toClient \in Seq(Server!Message \cup {Lost}
                         \cup {Destroy(m) : m \in Models})

\* An END is about to be handled for a download with a buffer.
EndMeetsBuffer(f) ==
    /\ receiving = None
    /\ toClient # <<>> /\ Head(toClient) = Server!EndMsg(f)
    /\ Downloading(f) /\ Buffering(active[f])

\* An END that meets a buffer meets a whole file: the ENDs and chunks of
\* attempts that were given up, in flight or sent before the server saw the
\* new request, never count for the running attempt.  (It takes limits that
\* reject no version with fewer chunks than one they accept: an announcement
\* that is rejected leaves the buffer of the one before.)
CompleteAtEnd ==
    \A f \in Files :
        EndMeetsBuffer(f) => active[f].received
                               = 0..(ChunkCount(active[f].announced) - 1)

\* Every download ends, stored, failed or cancelled, although the server may
\* drop requests and transfers without a word.
Settles == \A f \in Files : []<>~Downloading(f)
=============================================================================
