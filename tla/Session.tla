------------------------------- MODULE Session -------------------------------
(***************************************************************************)
(* One player's session: the handshake of the plugin (ACTION_INIT and its  *)
(* response), the flags both sides keep of it, and what depends on them:   *)
(* the model handling and the debug mode that the server sends only to an  *)
(* authorized player.  Client: src/Client/Plugin.cpp and                   *)
(* handling_manager.cpp.  Server: src/Server/src/Actions.cpp,              *)
(* extendedveh.cpp, PlayerAttrs.h and HandlingManager.cpp.                 *)
(*                                                                         *)
(* The server is sequential.  The client has the main thread, which starts *)
(* handshakes (a check, ResetInitState, SendInitPacket: three steps), and  *)
(* the thread its RakNet callbacks run on, one step per packet or RPC.     *)
(* The plugin's packets are ordered (channel 0); RpcsOvertake says whether *)
(* the game's RPCs are ordered apart from them.                            *)
(***************************************************************************)
EXTENDS Naturals, Sequences, SequencesExt

CONSTANTS
    Models,                \* vehicle models whose handling scripts change
    Values,                \* handlings a script gives a model
    Default,               \* the handling of an unmodified model
    ClientVersions,        \* EXTENDEDVEH_COMPAT_VERSIONs clients are built with
    ServerVersion,         \* EXTVEH_COMPAT_VERSION of the server
    NetworkThread,         \* callbacks run beside the main thread
    RpcsOvertake,          \* RPCs and packets have separate orders
    ScriptsFirst,          \* scripts see OnPlayerConnect before the plugin
    MaxSessions,           \* bound: connections
    MaxChanges,            \* bound: calls of natives
    MaxRestarts,           \* bound: game mode restarts
    MaxInFlight            \* bound: packets under way when a handshake starts

ASSUME SessionAssumption ==
    /\ Default \notin Values
    /\ ClientVersions \subseteq Nat /\ ServerVersion \in Nat
    /\ NetworkThread \in BOOLEAN /\ RpcsOvertake \in BOOLEAN
    /\ ScriptsFirst \in BOOLEAN
    /\ MaxSessions \in Nat /\ MaxChanges \in Nat
    /\ MaxRestarts \in Nat /\ MaxInFlight \in Nat

VARIABLES
    \* server
    joined,                \* the player is in the server's pool
    hasExtendedVeh,        \* gPlayers[playerid]
    debugMode,
    handling,              \* the store: handling of each model
    outgoing,              \* usOutgoingModelMods
    \* client
    clientVersion,         \* the client's; it stays what it is
    connected,             \* the client has a connection
    initSent,              \* m_initSent
    authorized,            \* m_isServerAuthorized
    applied,               \* m_modelHandlings
    clientDebug,           \* SetClientDebugMode
    mainStep,              \* where the main thread is in its handshake
    \* network
    joining,               \* the game's join request is under way
    toServer,              \* versions in the ACTION_INITs under way
    toClient,              \* packets and RPCs under way
    \* counted for the bounds; asked: the debug mode scripts last set;
    \* disturbed: since the player connected, an RPC was overtaken, the game
    \* mode restarted, or the main thread took an authorization back
    sessions, changes, restarts, asked, disturbed

serverVars  == <<joined, hasExtendedVeh, debugMode, handling, outgoing>>
clientVars  == <<clientVersion, connected, initSent, authorized, applied,
                 clientDebug, mainStep>>
networkVars == <<joining, toServer, toClient>>
countVars   == <<sessions, changes, restarts, asked, disturbed>>
vars == <<serverVars, clientVars, networkVars, countVars>>

-----------------------------------------------------------------------------
Unmodified == [m \in Models |-> Default]
Handlings == [Models -> Values \cup {Default}]

\* The modified models of S with their handling: one ACTION_SET_MODEL_HANDLING
\* each, in one go (their order does not matter, they are different models).
SetModelHandlingMsg(S) ==
    [type |-> "SetModelHandling",
     entries |-> [m \in {k \in S : handling[k] # Default} |-> handling[m]]]
ResetModelMsg(m) == [type |-> "ResetModel", model |-> m]
DebugModeMsg(b)  == [type |-> "SetDebugMode", enabled |-> b]
InitResponseMsg(ok) ==
    [type |-> "InitResponse", version |-> ServerVersion, allowed |-> ok]
RpcMsg(name) == [type |-> name]
Rpcs == {"InitGame", "GameModeRestart", "ServerQuit"}

Messages ==
    [type : {"SetModelHandling"},
     entries : UNION {[S -> Values] : S \in SUBSET Models}]
    \cup [type : {"ResetModel"}, model : Models]
    \cup [type : {"SetDebugMode"}, enabled : BOOLEAN]
    \cup [type : {"InitResponse"}, version : {ServerVersion}, allowed : BOOLEAN]
    \cup [type : Rpcs]

\* sendPacket and the game's RPCs: lost without a player and a connection.
Send(msgs) ==
    toClient' = IF joined /\ connected THEN toClient \o msgs ELSE toClient

Init ==
    /\ joined = FALSE /\ hasExtendedVeh = FALSE /\ debugMode = FALSE
    /\ handling = Unmodified /\ outgoing = {}
    /\ clientVersion \in ClientVersions
    /\ connected = FALSE /\ initSent = FALSE /\ authorized = FALSE
    /\ applied = Unmodified /\ clientDebug = FALSE /\ mainStep = "idle"
    /\ joining = FALSE /\ toServer = <<>> /\ toClient = <<>>
    /\ sessions = 0 /\ changes = 0 /\ restarts = 0 /\ asked = FALSE
    /\ disturbed = FALSE

-----------------------------------------------------------------------------
(***************************************************************************)
(* The server.                                                             *)
(***************************************************************************)
\* The game's join request arrives: onIncomingConnection and onPlayerConnect
\* both reset the player's flags, and the game answers with RPC_InitGame.
\* The scripts' OnPlayerConnect, which may set the debug mode, runs before
\* the plugin's handler or after it.
PlayerConnect ==
    /\ joining
    /\ joining' = FALSE
    /\ joined' = TRUE
    /\ hasExtendedVeh' = FALSE
    /\ \/ /\ asked' = FALSE /\ debugMode' = FALSE
          /\ UNCHANGED changes
       \/ /\ changes < MaxChanges /\ changes' = changes + 1
          /\ asked' = TRUE
          /\ debugMode' = ~ScriptsFirst
    /\ toClient' = Append(toClient, RpcMsg("InitGame"))
    /\ UNCHANGED <<handling, outgoing, clientVars, toServer, sessions,
                   restarts, disturbed>>

\* OnPlayerAuthorized and the debug mode: what a player is told once.
OnPlayerAuthorized ==
    <<SetModelHandlingMsg(Models)>>
        \o IF debugMode THEN <<DebugModeMsg(TRUE)>> ELSE <<>>

\* The answer to an ACTION_INIT that is accepted.  Variants: the response
\* last; no response to a player that has had one.
ConfirmationLast ==
    (IF hasExtendedVeh THEN <<>> ELSE OnPlayerAuthorized)
        \o <<InitResponseMsg(TRUE)>>
ConfirmationOnce ==
    IF hasExtendedVeh THEN <<>>
    ELSE <<InitResponseMsg(TRUE)>> \o OnPlayerAuthorized
Confirmation ==
    <<InitResponseMsg(TRUE)>>
        \o IF hasExtendedVeh THEN <<>> ELSE OnPlayerAuthorized

\* Actions::Process, ACTION_INIT.  Without a player the packet is dropped.  A
\* player that is authorized already gets the response again and nothing
\* else; a new one gets OnPlayerAuthorized and the debug mode.
ReceiveInit ==
    /\ toServer # <<>>
    /\ toServer' = Tail(toServer)
    /\ \/ /\ ~joined
          /\ UNCHANGED <<hasExtendedVeh, toClient>>
       \/ /\ joined /\ Head(toServer) < ServerVersion
          /\ Send(<<InitResponseMsg(FALSE)>>)
          /\ UNCHANGED hasExtendedVeh
       \/ /\ joined /\ Head(toServer) >= ServerVersion
          /\ hasExtendedVeh' = TRUE
          /\ Send(Confirmation)
    /\ UNCHANGED <<joined, debugMode, handling, outgoing, clientVars, joining,
                   countVars>>

\* onPlayerDisconnect.  A server that shuts down says so first.
PlayerDisconnect ==
    /\ joined
    /\ joined' = FALSE
    /\ hasExtendedVeh' = FALSE
    /\ debugMode' = FALSE
    /\ asked' = FALSE
    /\ \/ UNCHANGED toClient
       \/ Send(<<RpcMsg("ServerQuit")>>)
    /\ UNCHANGED <<handling, outgoing, clientVars, joining, toServer, sessions,
                   changes, restarts, disturbed>>

\* The natives below are called by scripts, as often as MaxChanges allows.
Native ==
    /\ changes < MaxChanges
    /\ changes' = changes + 1
    /\ UNCHANGED <<joined, hasExtendedVeh, clientVars, joining, toServer,
                   sessions, restarts, disturbed>>

SetModelHandling(m, v) ==
    /\ Native
    /\ handling' = [handling EXCEPT ![m] = v]
    /\ outgoing' = outgoing \cup {m}
    /\ UNCHANGED <<debugMode, toClient, asked>>

\* Sent to every player at once, authorized or not.
ResetModelHandling(m) ==
    /\ Native
    /\ handling' = [handling EXCEPT ![m] = Default]
    /\ Send(<<ResetModelMsg(m)>>)
    /\ UNCHANGED <<debugMode, outgoing, asked>>

SetPlayerExtendedVehDebug(b) ==
    /\ Native
    /\ joined
    /\ debugMode' = b
    /\ asked' = b
    /\ IF hasExtendedVeh THEN Send(<<DebugModeMsg(b)>>) ELSE UNCHANGED toClient
    /\ UNCHANGED <<handling, outgoing>>

\* ProcessTick: the queued models, to the authorized player.
ProcessTick ==
    /\ outgoing # {}
    /\ outgoing' = {}
    /\ IF hasExtendedVeh THEN Send(<<SetModelHandlingMsg(outgoing)>>)
       ELSE UNCHANGED toClient
    /\ UNCHANGED <<joined, hasExtendedVeh, debugMode, handling, clientVars,
                   joining, toServer, countVars>>

\* The game mode restarts under its players: the component's reset() is
\* empty, so that all the plugin knows of them stays.
GameModeRestart ==
    /\ joined
    /\ restarts < MaxRestarts
    /\ restarts' = restarts + 1
    /\ disturbed' = TRUE
    /\ Send(<<RpcMsg("GameModeRestart")>>)
    /\ UNCHANGED <<serverVars, clientVars, joining, toServer, sessions, changes,
                   asked>>

-----------------------------------------------------------------------------
(***************************************************************************)
(* The client, main thread.                                                *)
(***************************************************************************)
\* !IsServerAuthorized() and connected: OnGameProcess every 1.5 seconds, a
\* request for class selection or spawn, the end of InitializeHooks.
HandshakeCheck ==
    /\ mainStep = "idle"
    /\ connected /\ ~authorized
    /\ Len(toServer) + Len(toClient) < MaxInFlight
    /\ mainStep' = "reset"
    /\ UNCHANGED <<serverVars, clientVersion, connected, initSent, authorized,
                   applied, clientDebug, networkVars, countVars>>

\* Variant: only m_initSent.
ResetInitSent == initSent' = FALSE /\ UNCHANGED authorized
ResetInitState ==
    /\ initSent' = FALSE
    /\ authorized' = FALSE

HandshakeReset ==
    /\ mainStep = "reset"
    /\ ResetInitState
    /\ disturbed' = (disturbed \/ authorized)
    /\ mainStep' = "send"
    /\ UNCHANGED <<serverVars, clientVersion, connected, applied, clientDebug,
                   networkVars, sessions, changes, restarts, asked>>

\* SendInitPacket: nothing if authorized, or if sent since the last reset.
HandshakeSend ==
    /\ mainStep = "send"
    /\ mainStep' = "idle"
    /\ IF authorized THEN UNCHANGED <<initSent, toServer>>
       ELSE /\ initSent' = TRUE
            /\ toServer' = IF ~initSent /\ connected
                           THEN Append(toServer, clientVersion) ELSE toServer
    /\ UNCHANGED <<serverVars, clientVersion, connected, authorized, applied,
                   clientDebug, joining, toClient, countVars>>

-----------------------------------------------------------------------------
(***************************************************************************)
(* The client, callbacks of the connection.                                *)
(***************************************************************************)
Callback == NetworkThread \/ mainStep = "idle"

\* ResetInitState, then SendInitPacket: always sends.
Handshake ==
    /\ initSent' = TRUE
    /\ authorized' = FALSE
    /\ toServer' = Append(toServer, clientVersion)

HandshakeUnlessAuthorized ==
    IF authorized THEN UNCHANGED <<initSent, authorized, toServer>>
    ELSE Handshake

\* ID_CONNECTION_REQUEST_ACCEPTED.  The game asks to join after the callback.
ConnectionAccepted ==
    /\ Callback
    /\ ~connected /\ ~joined
    /\ sessions < MaxSessions
    /\ sessions' = sessions + 1
    /\ connected' = TRUE
    /\ joining' = TRUE
    /\ applied' = Unmodified /\ disturbed' = FALSE
    /\ HandshakeUnlessAuthorized
    /\ UNCHANGED <<serverVars, clientVersion, clientDebug, mainStep, toClient,
                   changes, restarts, asked>>

\* The handler of RPC_InitGame, and RPC_GameModeRestart, which resets first.
HandleInitGame(m) ==
    /\ m.type = "InitGame"
    /\ applied' = Unmodified
    /\ HandshakeUnlessAuthorized
    /\ UNCHANGED clientDebug

HandleGameModeRestart(m) ==
    /\ m.type = "GameModeRestart"
    /\ applied' = Unmodified
    /\ Handshake
    /\ UNCHANGED clientDebug

HandleServerQuit(m) ==
    /\ m.type = "ServerQuit"
    /\ ResetInitState
    /\ UNCHANGED <<applied, clientDebug, toServer>>

\* HandlingManager::ProcessAction.  The client wants its own version.
HandleInitResponse(m) ==
    /\ m.type = "InitResponse"
    /\ authorized' = (authorized \/ (m.allowed /\ m.version = clientVersion))
    /\ UNCHANGED <<initSent, applied, clientDebug, toServer>>

HandleSetModelHandling(m) ==
    /\ m.type = "SetModelHandling"
    /\ applied' = [k \in Models |->
                     IF authorized /\ k \in DOMAIN m.entries
                     THEN m.entries[k] ELSE applied[k]]
    /\ UNCHANGED <<initSent, authorized, clientDebug, toServer>>

\* Accepted without a look at the authorization, like the debug mode.
HandleResetModel(m) ==
    /\ m.type = "ResetModel"
    /\ applied' = [applied EXCEPT ![m.model] = Default]
    /\ UNCHANGED <<initSent, authorized, clientDebug, toServer>>

HandleSetDebugMode(m) ==
    /\ m.type = "SetDebugMode"
    /\ clientDebug' = m.enabled
    /\ UNCHANGED <<initSent, authorized, applied, toServer>>

\* The next message: the first one, or the first of the other order.
InOrder(i) ==
    \/ i = 1
    \/ /\ RpcsOvertake
       /\ \A j \in 1..(i - 1) :
             (toClient[j].type \in Rpcs) # (toClient[i].type \in Rpcs)

Receive ==
    /\ Callback
    /\ \E i \in 1..Len(toClient) :
        /\ InOrder(i)
        /\ toClient' = RemoveAt(toClient, i)
        /\ disturbed' = (disturbed \/ i # 1)
        /\ LET m == toClient[i] IN
           \/ HandleInitGame(m)
           \/ HandleGameModeRestart(m)
           \/ HandleServerQuit(m)
           \/ HandleInitResponse(m)
           \/ HandleSetModelHandling(m)
           \/ HandleResetModel(m)
           \/ HandleSetDebugMode(m)
    /\ UNCHANGED <<serverVars, clientVersion, connected, mainStep, joining,
                   sessions, changes, restarts, asked>>

\* ID_DISCONNECTION_NOTIFICATION, ID_CONNECTION_LOST: what was under way in
\* either direction is gone.  The server notices at another time.
Disconnected ==
    /\ Callback
    /\ connected
    /\ connected' = FALSE
    /\ ResetInitState
    /\ applied' = Unmodified
    /\ joining' = FALSE
    /\ toServer' = <<>> /\ toClient' = <<>>
    /\ UNCHANGED <<serverVars, clientVersion, clientDebug, mainStep, countVars>>

-----------------------------------------------------------------------------
Next ==
    \/ PlayerConnect \/ ReceiveInit \/ PlayerDisconnect
    \/ \E m \in Models : \/ \E v \in Values : SetModelHandling(m, v)
                         \/ ResetModelHandling(m)
    \/ \E b \in BOOLEAN : SetPlayerExtendedVehDebug(b)
    \/ ProcessTick \/ GameModeRestart
    \/ HandshakeCheck \/ HandshakeReset \/ HandshakeSend
    \/ ConnectionAccepted \/ Receive \/ Disconnected

\* The loops that run by themselves: frames, ticks, and a network that
\* delivers while the connection lasts.  The main thread spends an instant
\* every 1.5 seconds between its check and SendInitPacket: not everything is
\* for ever delivered in just that instant.
Between(A) == mainStep = "idle" /\ A
Fairness ==
    /\ WF_vars(HandshakeCheck) /\ WF_vars(HandshakeReset)
    /\ WF_vars(HandshakeSend)
    /\ WF_vars(Receive) /\ SF_vars(Between(Receive))
    /\ WF_vars(ReceiveInit) /\ SF_vars(Between(ReceiveInit))
    /\ WF_vars(PlayerConnect) /\ WF_vars(ProcessTick)

Spec == Init /\ [][Next]_vars
FairSpec == Spec /\ Fairness

-----------------------------------------------------------------------------
\* Every variable has its type.
TypeOK ==
    /\ joined \in BOOLEAN /\ hasExtendedVeh \in BOOLEAN /\ debugMode \in BOOLEAN
    /\ handling \in Handlings /\ outgoing \in SUBSET Models
    /\ clientVersion \in ClientVersions
    /\ connected \in BOOLEAN /\ initSent \in BOOLEAN /\ authorized \in BOOLEAN
    /\ applied \in Handlings /\ clientDebug \in BOOLEAN
    /\ mainStep \in {"idle", "reset", "send"}
    /\ joining \in BOOLEAN
    /\ toServer \in Seq(ClientVersions)
    /\ toClient \in Seq(Messages)
    /\ sessions \in Nat /\ changes \in Nat /\ restarts \in Nat
    /\ asked \in BOOLEAN /\ disturbed \in BOOLEAN

\* A client that believes to be authorized is, for as long as the server has
\* it: whatever the threads and the network do, no response outlives the
\* session it was given in, and no reset of the server's flag is missed
\* (ReceiveInit, PlayerConnect, Disconnected).
BelievesRightly == authorized => hasExtendedVeh \/ ~joined

\* Nothing that concerns the player is under way any more.
Quiet ==
    /\ connected /\ joined /\ authorized
    /\ mainStep = "idle"
    /\ toServer = <<>> /\ toClient = <<>> /\ outgoing = {}

\* "call this from ACTION_INIT handler so model handling modifications are
\* sent to the authorized player" (HandlingManager.h): once all is delivered
\* and the client is authorized, it drives with the server's handling,
\* whenever scripts changed it, before, during or after the handshake.  Not so
\* for a client whose session was disturbed: it drops or clears the handling, and
\* the server answers its new handshake without sending it again.
HandlingInForce == Quiet /\ ~disturbed => applied = handling

\* A player for whom a script asked for the debug mode has it when the dust
\* settles, also when it was asked for before the player was authorized.
\* "Do not wipe debugMode here as Pawn scripts may call
\* SetPlayerExtendedVehDebug in OnPlayerConnect" (extendedveh.cpp) is right
\* as long as those scripts run after the plugin's handlers (ScriptsFirst).
DebugDelivered == Quiet /\ asked => clientDebug

\* Both: what depends on the handshake reaches the client, whether it came
\* before, during or after it.
Delivered == HandlingInForce /\ DebugDelivered

\* A client of the server's version that stays becomes authorized for good,
\* however RPCs, packets, threads and a restart interleave: a handshake the
\* server was too early for is repeated, and one that the server has no use
\* for is answered all the same (Confirmation), since the client may have
\* forgotten the first.
EventuallyAuthorized ==
    <>[](connected /\ joined) /\ clientVersion = ServerVersion
        => <>[]authorized
=============================================================================
