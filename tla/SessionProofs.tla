---------------------------- MODULE SessionProofs ----------------------------
(***************************************************************************)
(* Session for every set of models, all versions, every bound and either   *)
(* answer to NetworkThread and RpcsOvertake: types, that a client which    *)
(* believes to be authorized is, and that what depends on the handshake    *)
(* arrives.                                                                *)
(***************************************************************************)
EXTENDS Session, TLAPS

\* An allowed response under way.
Allowing(q) ==
    \E i \in 1..Len(q) : q[i].type = "InitResponse" /\ q[i].allowed

\* BelievesRightly, strengthened: a response under way is as good as the
\* belief it will cause; nothing is under way without a connection; and a
\* player that has yet to join starts with nothing under way and no belief,
\* which is why the reset of the flag in PlayerConnect contradicts nobody.
TrustInv ==
    /\ authorized \/ Allowing(toClient) => hasExtendedVeh \/ ~joined
    /\ ~connected => ~authorized /\ ~joining /\ toClient = <<>>
    /\ joining => ~authorized /\ ~joined /\ toClient = <<>>

-----------------------------------------------------------------------------
\* What RemoveAt leaves of a queue was in it.
LEMMA RemoveAtFacts ==
    ASSUME NEW S, NEW q \in Seq(S), NEW i \in 1..Len(q)
    PROVE  /\ RemoveAt(q, i) \in Seq(S)
           /\ \A j \in 1..Len(RemoveAt(q, i)) :
                 \E k \in 1..Len(q) : RemoveAt(q, i)[j] = q[k]
<1>1. SubSeq(q, 1, i - 1) \in Seq(S) /\ SubSeq(q, i + 1, Len(q)) \in Seq(S)
  OBVIOUS
<1>2. RemoveAt(q, i) \in Seq(S)
  BY <1>1 DEF RemoveAt
<1>3. ASSUME NEW j \in 1..Len(RemoveAt(q, i))
      PROVE  \E k \in 1..Len(q) : RemoveAt(q, i)[j] = q[k]
  <2>1. CASE j < i
    <3>1. RemoveAt(q, i)[j] = q[j] /\ j \in 1..Len(q)
      BY <1>1, <2>1 DEF RemoveAt
    <3> QED BY <3>1
  <2>2. CASE j >= i
    <3> DEFINE a == SubSeq(q, 1, i - 1)
               b == SubSeq(q, i + 1, Len(q))
    <3>1. Len(a) = i - 1 /\ Len(b) = Len(q) - i
      OBVIOUS
    <3>2. \A n \in 1..(Len(q) - i) : b[n] = q[i + n]
      OBVIOUS
    <3>3. a \in Seq(S) /\ b \in Seq(S) /\ RemoveAt(q, i) = a \o b
      BY <1>1 DEF RemoveAt
    <3> HIDE DEF a, b
    <3>4. Len(a \o b) = Len(a) + Len(b)
      BY <3>3
    <3>5. j - (i - 1) \in 1..(Len(q) - i) /\ j > Len(a)
      BY <2>2, <3>1, <3>3, <3>4
    <3>6. (a \o b)[j] = b[j - Len(a)]
      BY <3>3, <3>4, <3>5
    <3>7. RemoveAt(q, i)[j] = q[j + 1] /\ j + 1 \in 1..Len(q)
      BY <3>1, <3>2, <3>3, <3>5, <3>6
    <3> QED BY <3>7
  <2> QED BY <2>1, <2>2
<1> QED BY <1>2, <1>3

\* RemoveAt closes the gap.
LEMMA RemoveAtItems ==
    ASSUME NEW S, NEW q \in Seq(S), NEW i \in 1..Len(q)
    PROVE  /\ Len(RemoveAt(q, i)) = Len(q) - 1
           /\ \A j \in 1..Len(RemoveAt(q, i)) :
                 RemoveAt(q, i)[j] = IF j < i THEN q[j] ELSE q[j + 1]
<1> DEFINE a == SubSeq(q, 1, i - 1)
           b == SubSeq(q, i + 1, Len(q))
<1>1. a \in Seq(S) /\ b \in Seq(S) /\ Len(a) = i - 1 /\ Len(b) = Len(q) - i
  OBVIOUS
<1>2. /\ \A n \in 1..(i - 1) : a[n] = q[n]
      /\ \A n \in 1..(Len(q) - i) : b[n] = q[i + n]
  OBVIOUS
<1>3. RemoveAt(q, i) = a \o b
  BY DEF RemoveAt
<1>4. Len(q) \in Nat
  OBVIOUS
<1> HIDE DEF a, b
<1>5. Len(a \o b) = Len(q) - 1
  BY <1>1, <1>4
<1>6. ASSUME NEW j \in 1..(Len(q) - 1)
      PROVE  (a \o b)[j] = IF j < i THEN q[j] ELSE q[j + 1]
  <2>1. CASE j < i
    <3>1. (a \o b)[j] = a[j]
      BY <1>1, <1>4, <2>1
    <3> QED BY <1>2, <2>1, <3>1
  <2>2. CASE ~(j < i)
    <3>1. (a \o b)[j] = b[j - (i - 1)]
      BY <1>1, <1>4, <2>2
    <3>2. b[j - (i - 1)] = q[i + (j - (i - 1))] /\ i + (j - (i - 1)) = j + 1
      BY <1>2, <1>4, <2>2
    <3> QED BY <2>2, <3>1, <3>2
  <2> QED BY <2>1, <2>2
<1> QED BY <1>3, <1>5, <1>6

\* An allowed response in a queue put together from two is in one of them.
LEMMA AllowingConcat ==
    ASSUME NEW p \in Seq(Messages), NEW q \in Seq(Messages),
           Allowing(p \o q)
    PROVE  Allowing(p) \/ Allowing(q)
<1>1. PICK i \in 1..Len(p \o q) :
          (p \o q)[i].type = "InitResponse" /\ (p \o q)[i].allowed
  BY DEF Allowing
<1>2. CASE i <= Len(p)
  <2>1. (p \o q)[i] = p[i] /\ i \in 1..Len(p)
    BY <1>2
  <2> QED BY <1>1, <2>1 DEF Allowing
<1>3. CASE i > Len(p)
  <2>1. (p \o q)[i] = q[i - Len(p)] /\ i - Len(p) \in 1..Len(q)
    BY <1>3
  <2> QED BY <1>1, <2>1 DEF Allowing
<1> QED BY <1>2, <1>3

-----------------------------------------------------------------------------
\* What the server sends are messages, and only responses are responses.
LEMMA Sent ==
    /\ \A S \in SUBSET Models : handling \in Handlings =>
          /\ SetModelHandlingMsg(S) \in Messages
          /\ SetModelHandlingMsg(S).type = "SetModelHandling"
    /\ \A m \in Models : /\ ResetModelMsg(m) \in Messages
                         /\ ResetModelMsg(m).type = "ResetModel"
    /\ \A b \in BOOLEAN : /\ DebugModeMsg(b) \in Messages
                          /\ DebugModeMsg(b).type = "SetDebugMode"
                          /\ InitResponseMsg(b) \in Messages
                          /\ InitResponseMsg(b).type = "InitResponse"
                          /\ InitResponseMsg(b).allowed = b
    /\ \A name \in Rpcs : /\ RpcMsg(name) \in Messages
                          /\ RpcMsg(name).type = name
<1>1. ASSUME NEW S \in SUBSET Models, handling \in Handlings
      PROVE  /\ SetModelHandlingMsg(S) \in Messages
             /\ SetModelHandlingMsg(S).type = "SetModelHandling"
  <2> DEFINE D == {k \in S : handling[k] # Default}
             e == [k \in D |-> handling[k]]
  <2>1. e \in [D -> Values] /\ D \in SUBSET Models
    BY <1>1 DEF Handlings
  <2>2. e \in UNION {[T -> Values] : T \in SUBSET Models}
    BY <2>1
  <2>3. SetModelHandlingMsg(S) = [type |-> "SetModelHandling", entries |-> e]
    BY DEF SetModelHandlingMsg
  <2> HIDE DEF e
  <2> QED BY <2>2, <2>3 DEF Messages
<1> QED
  BY <1>1 DEF ResetModelMsg, DebugModeMsg, InitResponseMsg, RpcMsg, Messages

\* Send keeps the queue a queue of messages, allows nothing that was not to
\* be sent, and without a player and a connection sends nothing.
LEMMA SendFacts ==
    ASSUME toClient \in Seq(Messages), NEW msgs \in Seq(Messages), Send(msgs)
    PROVE  /\ toClient' \in Seq(Messages)
           /\ Allowing(toClient') => Allowing(toClient)
                                       \/ (Allowing(msgs) /\ joined)
           /\ ~joined \/ ~connected => toClient' = toClient
<1>1. CASE joined /\ connected
  <2>1. toClient' = toClient \o msgs
    BY <1>1 DEF Send
  <2>2. Allowing(toClient') => Allowing(toClient) \/ Allowing(msgs)
    BY <2>1, AllowingConcat
  <2> QED BY <1>1, <2>1, <2>2
<1>2. CASE ~(joined /\ connected)
  BY <1>2 DEF Send
<1> QED BY <1>1, <1>2

\* A single message that is no allowed response.
LEMMA SendOne ==
    ASSUME toClient \in Seq(Messages), NEW m \in Messages, Send(<<m>>),
           m.type # "InitResponse" \/ ~m.allowed
    PROVE  /\ toClient' \in Seq(Messages)
           /\ Allowing(toClient') => Allowing(toClient)
           /\ ~joined \/ ~connected => toClient' = toClient
<1>1. <<m>> \in Seq(Messages)
  OBVIOUS
<1>2. ~Allowing(<<m>>)
  <2>1. Len(<<m>>) = 1 /\ <<m>>[1] = m
    OBVIOUS
  <2> QED BY <2>1 DEF Allowing
<1> QED BY <1>1, <1>2, SendFacts

\* The answer to an accepted ACTION_INIT is made of messages.
LEMMA ConfirmationSent ==
    ASSUME handling \in Handlings
    PROVE  Confirmation \in Seq(Messages)
<1> DEFINE a == SetModelHandlingMsg(Models)
           b == DebugModeMsg(TRUE)
           c == InitResponseMsg(TRUE)
<1>1. a \in Messages /\ b \in Messages /\ c \in Messages
  <2>1. Models \in SUBSET Models
    OBVIOUS
  <2> QED BY <2>1, Sent
<1> DEFINE told == IF hasExtendedVeh THEN <<>>
                   ELSE <<a>> \o IF debugMode THEN <<b>> ELSE <<>>
<1>2. Confirmation = <<c>> \o told
  BY DEF Confirmation, OnPlayerAuthorized
<1> HIDE DEF a, b, c
<1>3. <<a>> \in Seq(Messages) /\ <<b>> \in Seq(Messages) /\ <<c>> \in Seq(Messages)
  BY <1>1
<1>4. <<a>> \o <<b>> \in Seq(Messages) /\ <<a>> \o <<>> \in Seq(Messages)
  BY <1>3
<1>5. told \in Seq(Messages)
  BY <1>4
<1> HIDE DEF told
<1> QED BY <1>2, <1>3, <1>5

-----------------------------------------------------------------------------
\* The actions of the server other than PlayerConnect and ReceiveInit.
Ordinary ==
    \/ PlayerDisconnect \/ ProcessTick \/ GameModeRestart
    \/ \E m \in Models : \/ \E v \in Values : SetModelHandling(m, v)
                         \/ ResetModelHandling(m)
    \/ \E b \in BOOLEAN : SetPlayerExtendedVehDebug(b)

\* They send one message or none, and never a response.
LEMMA OrdinarySends ==
    ASSUME TypeOK, Ordinary
    PROVE  /\ toClient' \in Seq(Messages)
           /\ Allowing(toClient') => Allowing(toClient)
           /\ ~joined \/ ~connected => toClient' = toClient
<1>1. handling \in Handlings /\ toClient \in Seq(Messages)
  BY DEF TypeOK
<1>2. \/ UNCHANGED toClient
      \/ \E m \in Messages : Send(<<m>>) /\ m.type # "InitResponse"
  <2>1. CASE PlayerDisconnect
    <3>1. /\ RpcMsg("ServerQuit") \in Messages
          /\ RpcMsg("ServerQuit").type # "InitResponse"
      BY Sent DEF Rpcs
    <3> QED BY <2>1, <3>1 DEF PlayerDisconnect
  <2>2. CASE ProcessTick
    <3>1. /\ SetModelHandlingMsg(outgoing) \in Messages
          /\ SetModelHandlingMsg(outgoing).type # "InitResponse"
      BY <1>1, Sent DEF TypeOK
    <3> QED BY <2>2, <3>1 DEF ProcessTick
  <2>3. CASE GameModeRestart
    <3>1. /\ RpcMsg("GameModeRestart") \in Messages
          /\ RpcMsg("GameModeRestart").type # "InitResponse"
      BY Sent DEF Rpcs
    <3> QED BY <2>3, <3>1 DEF GameModeRestart
  <2>4. ASSUME NEW m \in Models, NEW v \in Values, SetModelHandling(m, v)
        PROVE  UNCHANGED toClient
    BY <2>4 DEF SetModelHandling
  <2>5. ASSUME NEW m \in Models, ResetModelHandling(m)
        PROVE  \E k \in Messages : Send(<<k>>) /\ k.type # "InitResponse"
    <3>1. /\ ResetModelMsg(m) \in Messages
          /\ ResetModelMsg(m).type # "InitResponse"
      BY Sent
    <3> QED BY <2>5, <3>1 DEF ResetModelHandling
  <2>6. ASSUME NEW b \in BOOLEAN, SetPlayerExtendedVehDebug(b)
        PROVE  \/ UNCHANGED toClient
               \/ \E k \in Messages : Send(<<k>>) /\ k.type # "InitResponse"
    <3>1. DebugModeMsg(b) \in Messages /\ DebugModeMsg(b).type # "InitResponse"
      BY Sent
    <3> QED BY <2>6, <3>1 DEF SetPlayerExtendedVehDebug
  <2> QED BY <2>1, <2>2, <2>3, <2>4, <2>5, <2>6 DEF Ordinary
<1>3. CASE UNCHANGED toClient
  BY <1>1, <1>3 DEF Allowing
<1>4. CASE \E m \in Messages : Send(<<m>>) /\ m.type # "InitResponse"
  BY <1>1, <1>4, SendOne
<1> QED BY <1>2, <1>3, <1>4

\* ReceiveInit: an allowed response goes only to a player that is on the
\* server, and the server's flag is set when it does.
LEMMA ReceiveInitSends ==
    ASSUME TypeOK, ReceiveInit
    PROVE  /\ toClient' \in Seq(Messages)
           /\ Allowing(toClient') => Allowing(toClient) \/ hasExtendedVeh'
           /\ ~joined \/ ~connected => toClient' = toClient
<1>1. handling \in Handlings /\ toClient \in Seq(Messages)
  BY DEF TypeOK
<1>2. CASE UNCHANGED toClient
  BY <1>1, <1>2 DEF Allowing
<1>3. CASE Send(<<InitResponseMsg(FALSE)>>)
  <2>1. InitResponseMsg(FALSE) \in Messages /\ ~InitResponseMsg(FALSE).allowed
    BY Sent
  <2> QED BY <1>1, <1>3, <2>1, SendOne
<1>4. CASE Send(Confirmation) /\ hasExtendedVeh'
  BY <1>1, <1>4, ConfirmationSent, SendFacts
<1> QED BY <1>2, <1>3, <1>4 DEF ReceiveInit

\* The callbacks of the client only take from the queue.
LEMMA ReceiveTakes ==
    ASSUME TypeOK, Receive
    PROVE  /\ toClient' \in Seq(Messages)
           /\ Allowing(toClient') => Allowing(toClient)
           /\ authorized' => authorized \/ Allowing(toClient)
           /\ toClient # <<>>
<1>1. toClient \in Seq(Messages)
  BY DEF TypeOK
<1>2. PICK i \in 1..Len(toClient) :
          /\ toClient' = RemoveAt(toClient, i)
          /\ \/ HandleInitGame(toClient[i])
             \/ HandleGameModeRestart(toClient[i])
             \/ HandleServerQuit(toClient[i])
             \/ HandleInitResponse(toClient[i])
             \/ HandleSetModelHandling(toClient[i])
             \/ HandleResetModel(toClient[i])
             \/ HandleSetDebugMode(toClient[i])
  BY DEF Receive
<1>3. /\ toClient' \in Seq(Messages)
      /\ \A j \in 1..Len(toClient') : \E k \in 1..Len(toClient) :
            toClient'[j] = toClient[k]
  <2>1. /\ RemoveAt(toClient, i) \in Seq(Messages)
        /\ \A j \in 1..Len(RemoveAt(toClient, i)) : \E k \in 1..Len(toClient) :
              RemoveAt(toClient, i)[j] = toClient[k]
    BY ONLY <1>1, RemoveAtFacts
  <2> QED BY <1>2, <2>1
<1>4. Allowing(toClient') => Allowing(toClient)
  BY <1>3 DEF Allowing
<1>5. authorized' => authorized \/ Allowing(toClient)
  BY <1>2 DEF HandleInitGame, HandleGameModeRestart, HandleServerQuit,
     HandleInitResponse, HandleSetModelHandling, HandleResetModel,
     HandleSetDebugMode, HandshakeUnlessAuthorized, Handshake, ResetInitState,
     Allowing
<1>6. toClient # <<>>
  BY <1>2
<1> QED BY <1>3, <1>4, <1>5, <1>6

-----------------------------------------------------------------------------
\* Everything but the queues keeps its type, action by action.
LEMMA TypeStep ==
    ASSUME TypeOK, [Next]_vars
    PROVE  TypeOK'
<1> USE DEF TypeOK
<1>1. CASE PlayerConnect
  <2>1. RpcMsg("InitGame") \in Messages
    BY Sent DEF Rpcs
  <2>2. toClient' \in Seq(Messages)
    BY <1>1, <2>1 DEF PlayerConnect
  <2>3. changes' \in Nat
    BY <1>1 DEF PlayerConnect
  <2>4. debugMode' \in BOOLEAN /\ asked' \in BOOLEAN
    BY ONLY <1>1, SessionAssumption, Zenon DEF PlayerConnect
  <2> QED BY <1>1, <2>2, <2>3, <2>4 DEF PlayerConnect, clientVars
<1>2. CASE ReceiveInit
  <2>1. toServer' \in Seq(ClientVersions)
    BY <1>2 DEF ReceiveInit
  <2>2. hasExtendedVeh' \in BOOLEAN
    BY <1>2 DEF ReceiveInit
  <2>3. toClient' \in Seq(Messages)
    BY <1>2, ReceiveInitSends
  <2> QED BY <1>2, <2>1, <2>2, <2>3 DEF ReceiveInit, clientVars, countVars
<1>3. CASE Ordinary
  <2>1. toClient' \in Seq(Messages)
    BY <1>3, OrdinarySends
  <2>2. CASE PlayerDisconnect
    BY <2>1, <2>2 DEF PlayerDisconnect, clientVars
  <2>3. CASE ProcessTick
    BY <2>1, <2>3 DEF ProcessTick, clientVars, countVars
  <2>4. CASE GameModeRestart
    BY <2>1, <2>4 DEF GameModeRestart, serverVars, clientVars
  <2>5. ASSUME NEW m \in Models, NEW v \in Values, SetModelHandling(m, v)
        PROVE  TypeOK'
    <3>1. handling' \in Handlings
      BY <2>5 DEF SetModelHandling, Handlings
    <3> QED BY <2>1, <2>5, <3>1 DEF SetModelHandling, Native, clientVars
  <2>6. ASSUME NEW m \in Models, ResetModelHandling(m)
        PROVE  TypeOK'
    <3>1. handling' \in Handlings
      BY <2>6 DEF ResetModelHandling, Handlings
    <3> QED BY <2>1, <2>6, <3>1 DEF ResetModelHandling, Native, clientVars
  <2>7. ASSUME NEW b \in BOOLEAN, SetPlayerExtendedVehDebug(b)
        PROVE  TypeOK'
    BY <2>1, <2>7 DEF SetPlayerExtendedVehDebug, Native, clientVars
  <2> QED BY <1>3, <2>2, <2>3, <2>4, <2>5, <2>6, <2>7 DEF Ordinary
<1>4. CASE HandshakeCheck
  BY <1>4 DEF HandshakeCheck, serverVars, networkVars, countVars
<1>5. CASE HandshakeReset
  <2>1. disturbed' \in BOOLEAN /\ initSent' \in BOOLEAN /\ authorized' \in BOOLEAN
    BY <1>5 DEF HandshakeReset, ResetInitState
  <2> QED
    BY <1>5, <2>1 DEF HandshakeReset, serverVars, networkVars
<1>6. CASE HandshakeSend
  <2>1. toServer' \in Seq(ClientVersions)
    BY <1>6 DEF HandshakeSend
  <2> QED BY <1>6, <2>1 DEF HandshakeSend, serverVars, countVars
<1>7. CASE ConnectionAccepted
  <2>1. toServer' \in Seq(ClientVersions)
    BY <1>7 DEF ConnectionAccepted, HandshakeUnlessAuthorized, Handshake
  <2>2. applied' \in Handlings
    BY <1>7 DEF ConnectionAccepted, Unmodified, Handlings
  <2>3. initSent' \in BOOLEAN /\ authorized' \in BOOLEAN
    BY <1>7 DEF ConnectionAccepted, HandshakeUnlessAuthorized, Handshake
  <2>4. disturbed' \in BOOLEAN
    BY ONLY <1>7, Zenon DEF ConnectionAccepted
  <2> QED BY <1>7, <2>1, <2>2, <2>3, <2>4 DEF ConnectionAccepted, serverVars
<1>8. CASE Receive
  <2>1. toClient' \in Seq(Messages)
    BY <1>8, ReceiveTakes
  <2>2. PICK m \in Messages :
            \/ HandleInitGame(m) \/ HandleGameModeRestart(m)
            \/ HandleServerQuit(m) \/ HandleInitResponse(m)
            \/ HandleSetModelHandling(m) \/ HandleResetModel(m)
            \/ HandleSetDebugMode(m)
    BY <1>8 DEF Receive
  <2>3. /\ UNCHANGED <<serverVars, clientVersion, connected, mainStep, joining,
                       sessions, changes, restarts, asked>>
        /\ disturbed' \in BOOLEAN
    BY <1>8 DEF Receive
  <2>4. /\ toServer' \in Seq(ClientVersions)
        /\ initSent' \in BOOLEAN /\ authorized' \in BOOLEAN
        /\ clientDebug' \in BOOLEAN
        /\ applied' \in Handlings
    <3>1. CASE HandleInitGame(m) \/ HandleGameModeRestart(m)
      <4>1. applied' \in Handlings /\ clientDebug' \in BOOLEAN
        BY <3>1 DEF HandleInitGame, HandleGameModeRestart, Unmodified, Handlings
      <4>2. /\ toServer' \in Seq(ClientVersions)
            /\ initSent' \in BOOLEAN /\ authorized' \in BOOLEAN
        <5>1. CASE UNCHANGED <<initSent, authorized, toServer>>
          BY <5>1
        <5>2. CASE Handshake
          <6>1. toServer' \in Seq(ClientVersions)
            BY <5>2 DEF Handshake
          <6>2. initSent' \in BOOLEAN /\ authorized' \in BOOLEAN
            BY ONLY <5>2, Zenon DEF Handshake
          <6> QED BY <6>1, <6>2
        <5> QED
          BY <3>1, <5>1, <5>2 DEF HandleInitGame, HandleGameModeRestart,
             HandshakeUnlessAuthorized
      <4> QED BY <4>1, <4>2
    <3>2. CASE HandleServerQuit(m) \/ HandleInitResponse(m)
      BY <3>2 DEF HandleServerQuit, HandleInitResponse, ResetInitState
    <3>3. CASE HandleSetModelHandling(m)
      <4>1. m.entries \in UNION {[S -> Values] : S \in SUBSET Models}
        BY <3>3 DEF HandleSetModelHandling, Messages, Rpcs
      <4> QED BY <3>3, <4>1 DEF HandleSetModelHandling, Handlings
    <3>4. CASE HandleResetModel(m)
      BY <3>4 DEF HandleResetModel, Handlings
    <3>5. CASE HandleSetDebugMode(m)
      <4>1. m.enabled \in BOOLEAN
        BY <3>5 DEF HandleSetDebugMode, Messages, Rpcs
      <4> QED BY <3>5, <4>1 DEF HandleSetDebugMode
    <3> QED BY <2>2, <3>1, <3>2, <3>3, <3>4, <3>5
  <2> QED BY <2>1, <2>3, <2>4 DEF serverVars
<1>9. CASE Disconnected
  <2>1. applied' \in Handlings
    BY <1>9 DEF Disconnected, Unmodified, Handlings
  <2>2. toServer' \in Seq(ClientVersions) /\ toClient' \in Seq(Messages)
    BY <1>9 DEF Disconnected
  <2> QED
    BY <1>9, <2>1, <2>2 DEF Disconnected, ResetInitState, serverVars, countVars
<1>10. CASE UNCHANGED vars
  BY <1>10 DEF vars, serverVars, clientVars, networkVars, countVars
<1> QED
  BY <1>1, <1>2, <1>3, <1>4, <1>5, <1>6, <1>7, <1>8, <1>9, <1>10
  DEF Next, Ordinary

\* TypeOK holds always, for any scripts, players, threads and network.
THEOREM TypeCorrect == Spec => []TypeOK
<1>1. Init => TypeOK
  <2>1. Unmodified \in Handlings
    BY DEF Unmodified, Handlings
  <2>2. <<>> \in Seq(Messages) /\ <<>> \in Seq(ClientVersions)
    OBVIOUS
  <2> SUFFICES ASSUME Init PROVE TypeOK
    OBVIOUS
  <2>3. /\ joined \in BOOLEAN /\ hasExtendedVeh \in BOOLEAN
        /\ debugMode \in BOOLEAN /\ connected \in BOOLEAN
        /\ initSent \in BOOLEAN /\ authorized \in BOOLEAN
        /\ clientDebug \in BOOLEAN /\ joining \in BOOLEAN /\ asked \in BOOLEAN
    BY DEF Init
  <2>4. /\ sessions \in Nat /\ changes \in Nat /\ restarts \in Nat
        /\ outgoing \in SUBSET Models /\ mainStep \in {"idle", "reset", "send"}
        /\ clientVersion \in ClientVersions
    BY DEF Init
  <2>5. /\ handling \in Handlings /\ applied \in Handlings
        /\ toServer \in Seq(ClientVersions) /\ toClient \in Seq(Messages)
    BY <2>1, <2>2 DEF Init
  <2>6. disturbed \in BOOLEAN
    BY DEF Init
  <2> QED BY <2>3, <2>4, <2>5, <2>6 DEF TypeOK
<1>2. TypeOK /\ [Next]_vars => TypeOK'
  BY TypeStep
<1> QED BY <1>1, <1>2, PTL DEF Spec

-----------------------------------------------------------------------------
\* One step per action: what it does to the belief, to the responses under
\* way, to the flag and to the player.
LEMMA TrustStep ==
    ASSUME TypeOK, TrustInv, [Next]_vars
    PROVE  TrustInv'
<1> USE DEF TrustInv
<1>1. CASE PlayerConnect
  <2>1. RpcMsg("InitGame") \in Messages /\ RpcMsg("InitGame").type = "InitGame"
    BY Sent DEF Rpcs
  <2>2. toClient = <<>> /\ ~authorized /\ connected
    BY <1>1 DEF PlayerConnect
  <2>3. toClient' = <<RpcMsg("InitGame")>>
    BY <1>1, <2>2 DEF PlayerConnect
  <2>4. ~Allowing(toClient')
    <3>1. Len(toClient') = 1 /\ toClient'[1] = RpcMsg("InitGame")
      BY <2>3
    <3> QED BY <2>1, <3>1 DEF Allowing
  <2> QED BY <1>1, <2>2, <2>4 DEF PlayerConnect, clientVars
<1>2. CASE ReceiveInit
  <2>1. /\ Allowing(toClient') => Allowing(toClient) \/ hasExtendedVeh'
        /\ ~joined \/ ~connected => toClient' = toClient
    BY <1>2, ReceiveInitSends
  <2>2. /\ hasExtendedVeh => hasExtendedVeh'
        /\ UNCHANGED <<joined, connected, authorized, joining>>
    BY <1>2 DEF ReceiveInit, clientVars
  <2> QED BY <2>1, <2>2
<1>3. CASE Ordinary
  <2>1. /\ Allowing(toClient') => Allowing(toClient)
        /\ ~joined \/ ~connected => toClient' = toClient
    BY <1>3, OrdinarySends
  <2>2. /\ UNCHANGED <<connected, authorized, joining>>
        /\ \/ UNCHANGED <<joined, hasExtendedVeh>>
           \/ joined /\ ~joined'
    BY <1>3 DEF Ordinary, PlayerDisconnect, ProcessTick, GameModeRestart,
       SetModelHandling, ResetModelHandling, SetPlayerExtendedVehDebug, Native,
       serverVars, clientVars
  <2> QED BY <2>1, <2>2
<1>4. CASE HandshakeCheck \/ HandshakeReset \/ HandshakeSend
  <2>1. /\ UNCHANGED <<joined, hasExtendedVeh, connected, joining, toClient>>
        /\ authorized' => authorized
    BY <1>4 DEF HandshakeCheck, HandshakeReset, HandshakeSend, ResetInitState,
       serverVars, networkVars
  <2> QED BY <2>1 DEF Allowing
<1>5. CASE ConnectionAccepted
  <2>1. /\ ~joined /\ ~joined' /\ toClient' = <<>> /\ ~authorized'
        /\ connected' /\ joining'
    BY <1>5 DEF ConnectionAccepted, HandshakeUnlessAuthorized, Handshake,
       serverVars
  <2> QED BY <2>1
<1>6. CASE Receive
  <2>1. /\ Allowing(toClient') => Allowing(toClient)
        /\ authorized' => authorized \/ Allowing(toClient)
        /\ toClient # <<>>
    BY <1>6, ReceiveTakes
  <2>2. UNCHANGED <<joined, hasExtendedVeh, connected, joining>>
    BY <1>6 DEF Receive, serverVars
  <2> QED BY <2>1, <2>2
<1>7. CASE Disconnected
  <2>1. ~connected' /\ ~authorized' /\ ~joining' /\ toClient' = <<>>
    BY <1>7 DEF Disconnected, ResetInitState
  <2> QED BY <2>1 DEF Allowing
<1>8. CASE UNCHANGED vars
  BY <1>8 DEF vars, serverVars, clientVars, networkVars, Allowing
<1> QED
  BY <1>1, <1>2, <1>3, <1>4, <1>5, <1>6, <1>7, <1>8 DEF Next, Ordinary

\* TrustInv holds always.
LEMMA TrustAlways == Spec => []TrustInv
<1>1. Init => TrustInv
  BY DEF Init, TrustInv, Allowing
<1>2. TypeOK /\ TrustInv /\ [Next]_vars => TrustInv'
  BY TrustStep
<1> QED BY <1>1, <1>2, TypeCorrect, PTL DEF Spec

\* A client that believes to be authorized is, for any number of sessions,
\* restarts and handshakes, any versions, threads and order of RPCs.
THEOREM BelievesOnlyTheServer == Spec => []BelievesRightly
<1>1. TrustInv => BelievesRightly
  BY DEF TrustInv, BelievesRightly
<1> QED BY <1>1, TrustAlways, PTL

-----------------------------------------------------------------------------
(* What depends on the handshake. *)

\* What a packet is about: the handling of a model, or the debug mode.
Handling(m) == <<"handling", m>>
Debug == <<"debug", TRUE>>
About(a, k) ==
    \/ k[1] = "handling" /\ a.type = "SetModelHandling" /\ k[2] \in DOMAIN a.entries
    \/ k[1] = "handling" /\ a.type = "ResetModel" /\ a.model = k[2]
    \/ k[1] = "debug" /\ a.type = "SetDebugMode"
Carried(a, k) == IF a.type = "SetModelHandling" THEN a.entries[k[2]]
                 ELSE IF a.type = "ResetModel" THEN Default
                 ELSE a.enabled

\* Who has s of k, and takes the packets of q, has x in the end.
Leads(q, s, k, x) ==
    \/ /\ \A i \in 1..Len(q) : ~About(q[i], k)
       /\ s = x
    \/ \E i \in 1..Len(q) :
          /\ About(q[i], k) /\ Carried(q[i], k) = x
          /\ \A j \in 1..Len(q) : j > i => ~About(q[j], k)

\* A session in which the client has the handling that is not under way or
\* queued: before it is authorized it has none, and is sent none before the
\* response that authorizes it.
Answered(i) ==
    authorized \/ \E j \in 1..Len(toClient) :
                      /\ j < i
                      /\ toClient[j].type = "InitResponse" /\ toClient[j].allowed
Store(m) == IF hasExtendedVeh THEN handling[m] ELSE Default
InForce ==
    /\ \A i \in 1..Len(toClient) :
          /\ toClient[i].type \notin {"GameModeRestart", "ServerQuit"}
          /\ toClient[i].type = "InitGame" => i = 1 /\ ~authorized
          /\ toClient[i].type = "SetModelHandling" => hasExtendedVeh /\ Answered(i)
    /\ hasExtendedVeh => authorized \/ Allowing(toClient)
    /\ ~authorized => applied = Unmodified
    /\ \A m \in Models :
          \/ Leads(toClient, applied[m], Handling(m), Store(m))
          \/ hasExtendedVeh /\ m \in outgoing /\ handling[m] # Default

\* It holds of every session that is not disturbed.
DeliveryInv ==
    /\ joining => applied = Unmodified
    /\ clientVersion # ServerVersion => ~authorized
    /\ joined /\ connected /\ ~disturbed /\ clientVersion = ServerVersion => InForce

\* The debug mode a script asked for is in force at the client or under way to
\* an authorized one.
DebugInv ==
    /\ ~joined => ~hasExtendedVeh
    /\ debugMode = asked
    /\ joined /\ connected /\ hasExtendedVeh /\ asked =>
          Leads(toClient, clientDebug, Debug, TRUE)

-----------------------------------------------------------------------------
LEMMA ConcatItems ==
    ASSUME NEW q \in Seq(Messages), NEW r \in Seq(Messages)
    PROVE  /\ Len(q \o r) = Len(q) + Len(r) /\ Len(q) \in Nat /\ Len(r) \in Nat
           /\ \A i \in 1..Len(q) : (q \o r)[i] = q[i]
           /\ \A i \in 1..Len(r) : (q \o r)[Len(q) + i] = r[i]
           /\ \A i \in 1..Len(q \o r) : i > Len(q) =>
                 /\ i - Len(q) \in 1..Len(r)
                 /\ (q \o r)[i] = r[i - Len(q)]
OBVIOUS

\* Packets that are about something else change nothing.
LEMMA LeadsStill ==
    ASSUME NEW q \in Seq(Messages), NEW r \in Seq(Messages), NEW s, NEW k, NEW x,
           Leads(q, s, k, x), \A i \in 1..Len(r) : ~About(r[i], k)
    PROVE  Leads(q \o r, s, k, x)
<1>1. \A i \in 1..Len(q \o r) : i > Len(q) => ~About((q \o r)[i], k)
  BY ConcatItems
<1>2. CASE (\A i \in 1..Len(q) : ~About(q[i], k)) /\ s = x
  <2>1. \A i \in 1..Len(q \o r) : ~About((q \o r)[i], k)
    <3> TAKE i \in 1..Len(q \o r)
    <3>1. CASE i > Len(q)
      BY <1>1, <3>1
    <3>2. CASE ~(i > Len(q))
      <4>1. i \in 1..Len(q) /\ (q \o r)[i] = q[i]
        BY <3>2, ConcatItems
      <4> QED BY <1>2, <4>1
    <3> QED BY <3>1, <3>2
  <2> QED BY <1>2, <2>1 DEF Leads
<1>3. ASSUME NEW i \in 1..Len(q), About(q[i], k), Carried(q[i], k) = x,
             \A j \in 1..Len(q) : j > i => ~About(q[j], k)
      PROVE  Leads(q \o r, s, k, x)
  <2>1. i \in 1..Len(q \o r) /\ (q \o r)[i] = q[i]
    BY ConcatItems
  <2>2. ASSUME NEW j \in 1..Len(q \o r), j > i
        PROVE  ~About((q \o r)[j], k)
    <3>1. CASE j > Len(q)
      BY <1>1, <3>1
    <3>2. CASE ~(j > Len(q))
      <4>1. j \in 1..Len(q) /\ (q \o r)[j] = q[j]
        BY <3>2, ConcatItems
      <4> QED BY <1>3, <2>2, <4>1
    <3> QED BY <3>1, <3>2
  <2> QED BY <1>3, <2>1, <2>2 DEF Leads
<1> QED BY <1>2, <1>3 DEF Leads

\* The last packet about something says what becomes of it.
LEMMA LeadsLast ==
    ASSUME NEW q \in Seq(Messages), NEW r \in Seq(Messages), NEW s, NEW k,
           NEW i \in 1..Len(r), About(r[i], k),
           \A j \in 1..Len(r) : j > i => ~About(r[j], k)
    PROVE  Leads(q \o r, s, k, Carried(r[i], k))
<1>1. Len(q) + i \in 1..Len(q \o r) /\ (q \o r)[Len(q) + i] = r[i]
  BY ConcatItems
<1>2. ASSUME NEW j \in 1..Len(q \o r), j > Len(q) + i
      PROVE  ~About((q \o r)[j], k)
  <2>1. j - Len(q) \in 1..Len(r) /\ (q \o r)[j] = r[j - Len(q)] /\ j - Len(q) > i
    BY <1>2, ConcatItems
  <2> QED BY <2>1
<1> QED BY <1>1, <1>2 DEF Leads

\* Who takes a packet is led on by the rest, if none before it is about the same.
LEMMA LeadsOn ==
    ASSUME NEW q \in Seq(Messages), NEW s, NEW k, NEW x, NEW i \in 1..Len(q),
           Leads(q, s, k, x),
           About(q[i], k) => \A j \in 1..Len(q) : j < i => ~About(q[j], k)
    PROVE  Leads(RemoveAt(q, i), IF About(q[i], k) THEN Carried(q[i], k) ELSE s, k, x)
<1> DEFINE r == RemoveAt(q, i)
<1>1. /\ Len(r) = Len(q) - 1
      /\ \A j \in 1..Len(r) : r[j] = IF j < i THEN q[j] ELSE q[j + 1]
  BY RemoveAtItems
<1>2. Len(q) \in Nat
  OBVIOUS
<1> HIDE DEF r
<1>3. CASE (\A j \in 1..Len(q) : ~About(q[j], k)) /\ s = x
  <2>1. \A j \in 1..Len(r) : ~About(r[j], k)
    BY <1>1, <1>2, <1>3
  <2> QED BY <1>3, <2>1 DEF Leads, r
<1>4. ASSUME NEW n \in 1..Len(q), About(q[n], k), Carried(q[n], k) = x,
             \A j \in 1..Len(q) : j > n => ~About(q[j], k)
      PROVE  Leads(r, IF About(q[i], k) THEN Carried(q[i], k) ELSE s, k, x)
  <2>1. CASE n = i
    <3>1. ASSUME NEW j \in 1..Len(r)
          PROVE  ~About(r[j], k)
      <4>1. CASE j < i
        <5>1. j \in 1..Len(q) /\ r[j] = q[j]
          BY <1>1, <1>2, <4>1
        <5> QED BY <1>4, <2>1, <4>1, <5>1
      <4>2. CASE ~(j < i)
        <5>1. j + 1 \in 1..Len(q) /\ r[j] = q[j + 1] /\ j + 1 > n
          BY <1>1, <1>2, <2>1, <4>2
        <5> QED BY <1>4, <5>1
      <4> QED BY <4>1, <4>2
    <3> QED BY <1>4, <2>1, <3>1 DEF Leads
  <2>2. CASE n # i
    <3> DEFINE o == IF n < i THEN n ELSE n - 1
    <3>1. o \in 1..Len(r) /\ r[o] = q[n]
      BY <1>1, <1>2, <2>2
    <3>2. ASSUME NEW j \in 1..Len(r), j > o
          PROVE  ~About(r[j], k)
      <4>1. CASE j < i
        <5>1. j \in 1..Len(q) /\ r[j] = q[j] /\ j > n
          BY <1>1, <1>2, <2>2, <3>2, <4>1
        <5> QED BY <1>4, <5>1
      <4>2. CASE ~(j < i)
        <5>1. j + 1 \in 1..Len(q) /\ r[j] = q[j + 1] /\ j + 1 > n
          BY <1>1, <1>2, <2>2, <3>2, <4>2
        <5> QED BY <1>4, <5>1
      <4> QED BY <4>1, <4>2
    <3> HIDE DEF o
    <3> QED BY <1>4, <3>1, <3>2 DEF Leads
  <2> QED BY <2>1, <2>2
<1> QED BY <1>3, <1>4 DEF Leads, r

\* Packets about handling and about the debug mode are different ones.
LEMMA AboutWhat ==
    ASSUME NEW a \in Messages, NEW m \in Models
    PROVE  /\ About(a, Handling(m)) <=>
                 \/ a.type = "SetModelHandling" /\ m \in DOMAIN a.entries
                 \/ a.type = "ResetModel" /\ a.model = m
           /\ About(a, Debug) <=> a.type = "SetDebugMode"
           /\ a.type = "SetModelHandling" => Carried(a, Handling(m)) = a.entries[m]
           /\ a.type = "ResetModel" => Carried(a, Handling(m)) = Default
           /\ a.type = "SetDebugMode" => Carried(a, Debug) = a.enabled
BY DEF About, Carried, Handling, Debug

LEMMA OneItem ==
    ASSUME NEW a \in Messages
    PROVE  <<a>> \in Seq(Messages) /\ Len(<<a>>) = 1 /\ <<a>>[1] = a
OBVIOUS

LEMMA SendStill ==
    ASSUME toClient \in Seq(Messages), joined, connected,
           NEW a \in Messages, Send(<<a>>), NEW s, NEW k, NEW x,
           Leads(toClient, s, k, x), ~About(a, k)
    PROVE  Leads(toClient', s, k, x)
<1>1. toClient' = toClient \o <<a>>
  BY DEF Send
<1>2. <<a>> \in Seq(Messages) /\ \A j \in 1..Len(<<a>>) : ~About(<<a>>[j], k)
  BY OneItem
<1> QED BY <1>1, <1>2, LeadsStill

LEMMA SendLast ==
    ASSUME toClient \in Seq(Messages), joined, connected,
           NEW a \in Messages, Send(<<a>>), NEW s, NEW k, About(a, k)
    PROVE  Leads(toClient', s, k, Carried(a, k))
<1>1. toClient' = toClient \o <<a>>
  BY DEF Send
<1>2. 1 \in 1..Len(<<a>>) /\ <<a>>[1] = a /\ <<a>> \in Seq(Messages)
  BY OneItem
<1>3. \A j \in 1..Len(<<a>>) : j > 1 => ~About(<<a>>[j], k)
  BY OneItem
<1> QED BY <1>1, <1>2, <1>3, LeadsLast

LEMMA ConfirmationItems ==
    ASSUME handling \in Handlings
    PROVE  /\ Confirmation \in Seq(Messages) /\ 1 \in 1..Len(Confirmation)
           /\ Confirmation[1] = InitResponseMsg(TRUE)
           /\ hasExtendedVeh => Len(Confirmation) = 1
           /\ ~hasExtendedVeh =>
                 /\ 2 \in 1..Len(Confirmation)
                 /\ Confirmation[2] = SetModelHandlingMsg(Models)
                 /\ Len(Confirmation) = IF debugMode THEN 3 ELSE 2
                 /\ debugMode => Confirmation[3] = DebugModeMsg(TRUE)
<1> DEFINE a == SetModelHandlingMsg(Models)
           b == DebugModeMsg(TRUE)
           c == InitResponseMsg(TRUE)
<1>1. Confirmation \in Seq(Messages)
  BY ConfirmationSent
<1>2. a \in Messages /\ b \in Messages /\ c \in Messages
  <2>1. Models \in SUBSET Models
    OBVIOUS
  <2> QED BY <2>1, Sent
<1>3. Confirmation = <<c>> \o (IF hasExtendedVeh THEN <<>>
                               ELSE <<a>> \o IF debugMode THEN <<b>> ELSE <<>>)
  BY DEF Confirmation, OnPlayerAuthorized
<1> HIDE DEF a, b, c
<1>4. /\ <<a>> \in Seq(Messages) /\ Len(<<a>>) = 1 /\ <<a>>[1] = a
      /\ <<b>> \in Seq(Messages) /\ Len(<<b>>) = 1 /\ <<b>>[1] = b
      /\ <<c>> \in Seq(Messages) /\ Len(<<c>>) = 1 /\ <<c>>[1] = c
      /\ <<>> \in Seq(Messages) /\ Len(<<>>) = 0
  BY <1>2
<1> DEFINE told == IF debugMode THEN <<b>> ELSE <<>>
<1>5. /\ <<a>> \o told \in Seq(Messages)
      /\ Len(<<a>> \o told) = IF debugMode THEN 2 ELSE 1
      /\ (<<a>> \o told)[1] = a
      /\ debugMode => (<<a>> \o told)[2] = b
  BY <1>4
<1> HIDE DEF told
<1>6. CASE hasExtendedVeh
  <2>1. Len(<<c>> \o <<>>) = 1 /\ (<<c>> \o <<>>)[1] = c
    BY <1>4
  <2>2. Confirmation = <<c>> \o <<>>
    BY <1>3, <1>6
  <2>3. Len(Confirmation) = 1 /\ Confirmation[1] = c
    BY <2>1, <2>2
  <2>4. 1 \in 1..Len(Confirmation)
    BY <2>3
  <2> QED BY <1>1, <1>6, <2>3, <2>4 DEF c
<1>7. CASE ~hasExtendedVeh
  <2>1. Confirmation = <<c>> \o (<<a>> \o told)
    BY <1>3, <1>7 DEF told
  <2> DEFINE t == <<a>> \o told
             h == <<c>>
  <2>2. /\ t \in Seq(Messages) /\ Len(t) = IF debugMode THEN 2 ELSE 1
        /\ t[1] = a /\ (debugMode => t[2] = b)
        /\ h \in Seq(Messages) /\ Len(h) = 1 /\ h[1] = c
        /\ Confirmation = h \o t
    BY <1>4, <1>5, <2>1
  <2> HIDE DEF t, h
  <2>3. /\ Len(h \o t) = IF debugMode THEN 3 ELSE 2
        /\ (h \o t)[1] = c /\ (h \o t)[2] = a
        /\ debugMode => (h \o t)[3] = b
    <3>0. h \in Seq(Messages) /\ t \in Seq(Messages)
      BY <2>2
    <3>1. /\ Len(h \o t) = Len(h) + Len(t)
          /\ \A i \in 1..Len(h) : (h \o t)[i] = h[i]
          /\ \A i \in 1..Len(t) : (h \o t)[Len(h) + i] = t[i]
      BY <3>0, ConcatItems
    <3>2. (h \o t)[1] = c /\ Len(h \o t) = IF debugMode THEN 3 ELSE 2
      BY <2>2, <3>1
    <3>3. (h \o t)[1 + 1] = t[1]
      BY <2>2, <3>1
    <3>4. debugMode => (h \o t)[1 + 2] = t[2]
      BY <2>2, <3>1
    <3> QED BY <2>2, <3>2, <3>3, <3>4
  <2>4. 1 \in 1..Len(Confirmation) /\ 2 \in 1..Len(Confirmation)
    BY <2>2, <2>3
  <2> QED BY <1>1, <1>7, <2>2, <2>3, <2>4 DEF a, b, c
<1> QED BY <1>6, <1>7

-----------------------------------------------------------------------------
(* Steps. *)

\* What Receive takes, and that no packet of the same order was before it.
LEMMA Received ==
    ASSUME TypeOK, Receive
    PROVE  \E i \in 1..Len(toClient) :
             /\ toClient[i] \in Messages /\ InOrder(i)
             /\ toClient' = RemoveAt(toClient, i)
             /\ disturbed' = (disturbed \/ i # 1)
             /\ \/ HandleInitGame(toClient[i])
                \/ HandleGameModeRestart(toClient[i])
                \/ HandleServerQuit(toClient[i])
                \/ HandleInitResponse(toClient[i])
                \/ HandleSetModelHandling(toClient[i])
                \/ HandleResetModel(toClient[i])
                \/ HandleSetDebugMode(toClient[i])
<1>1. toClient \in Seq(Messages)
  BY DEF TypeOK
<1>2. \A i \in 1..Len(toClient) : toClient[i] \in Messages
  BY <1>1
<1> QED BY <1>2 DEF Receive

\* The debug mode: every packet of it is taken in order, and none is dropped.
LEMMA DebugStep ==
    ASSUME TypeOK, TrustInv, DebugInv, ScriptsFirst = FALSE, [Next]_vars
    PROVE  DebugInv'
<1> DEFINE Led == Leads(toClient, clientDebug, Debug, TRUE)
<1>1. toClient \in Seq(Messages) /\ handling \in Handlings /\ asked \in BOOLEAN
  BY DEF TypeOK
<1>2. CASE PlayerConnect
  <2>1. ~hasExtendedVeh' /\ debugMode' = asked'
    BY <1>2, Zenon DEF PlayerConnect
  <2> QED BY <2>1 DEF DebugInv
<1>3. CASE ReceiveInit
  <2>1. UNCHANGED <<joined, connected, clientDebug, debugMode, asked>>
    BY <1>3 DEF ReceiveInit, clientVars, countVars
  <2>2. CASE ~joined
    <3>1. UNCHANGED hasExtendedVeh
      BY <1>3, <2>2 DEF ReceiveInit
    <3> QED BY <2>1, <2>2, <3>1 DEF DebugInv
  <2>3. CASE Send(<<InitResponseMsg(FALSE)>>) /\ UNCHANGED hasExtendedVeh
    <3>1. InitResponseMsg(FALSE) \in Messages /\ ~About(InitResponseMsg(FALSE), Debug)
      BY Sent DEF About, Debug
    <3>2. joined /\ connected /\ Led => Led'
      BY <1>1, <2>1, <2>3, <3>1, SendStill
    <3> QED BY <2>1, <2>3, <3>2 DEF DebugInv
  <2>4. CASE joined /\ hasExtendedVeh' /\ Send(Confirmation)
    <3> SUFFICES ASSUME connected, asked
                 PROVE  Led'
      BY <2>1, <2>4 DEF DebugInv
    <3>1. toClient' = toClient \o Confirmation /\ Confirmation \in Seq(Messages)
      BY <1>1, <2>4, ConfirmationItems DEF Send
    <3>2. CASE hasExtendedVeh
      <4>1. \A i \in 1..Len(Confirmation) : ~About(Confirmation[i], Debug)
        <5>1. Len(Confirmation) = 1 /\ Confirmation[1] = InitResponseMsg(TRUE)
          BY <1>1, <3>2, ConfirmationItems
        <5>2. ~About(InitResponseMsg(TRUE), Debug)
          BY DEF About, Debug, InitResponseMsg
        <5> TAKE i \in 1..Len(Confirmation)
        <5>3. i = 1
          BY <5>1
        <5> QED BY <5>1, <5>2, <5>3
      <4>2. Led
        BY <2>4, <3>2 DEF DebugInv
      <4> QED BY <1>1, <2>1, <3>1, <4>1, <4>2, LeadsStill
    <3>3. CASE ~hasExtendedVeh
      <4>1. debugMode
        BY DEF DebugInv
      <4>2. Len(Confirmation) = 3 /\ Confirmation[3] = DebugModeMsg(TRUE)
        BY <1>1, <3>3, <4>1, ConfirmationItems
      <4>3. DebugModeMsg(TRUE).type = "SetDebugMode" /\ DebugModeMsg(TRUE).enabled = TRUE
        BY DEF DebugModeMsg
      <4>4. About(Confirmation[3], Debug) /\ Carried(Confirmation[3], Debug) = TRUE
        BY <4>2, <4>3 DEF About, Carried, Debug
      <4>5. 3 \in 1..Len(Confirmation)
            /\ \A j \in 1..Len(Confirmation) : j > 3 => ~About(Confirmation[j], Debug)
        BY <4>2
      <4>6. Leads(toClient \o Confirmation, clientDebug, Debug, Carried(Confirmation[3], Debug))
        BY <1>1, <3>1, <4>4, <4>5, LeadsLast
      <4> QED BY <2>1, <3>1, <4>4, <4>6
    <3> QED BY <3>2, <3>3
  <2> QED BY <1>3, <2>2, <2>3, <2>4 DEF ReceiveInit
<1>4. CASE PlayerDisconnect
  BY <1>4 DEF PlayerDisconnect, DebugInv
<1>5. ASSUME NEW m \in Models, NEW v \in Values, SetModelHandling(m, v)
      PROVE  DebugInv'
  BY <1>5 DEF SetModelHandling, Native, clientVars, DebugInv
<1>6. ASSUME NEW m \in Models, ResetModelHandling(m)
      PROVE  DebugInv'
  <2>1. ResetModelMsg(m) \in Messages /\ ~About(ResetModelMsg(m), Debug)
    BY Sent DEF About, Debug
  <2>2. /\ UNCHANGED <<joined, connected, clientDebug, debugMode, asked, hasExtendedVeh>>
        /\ Send(<<ResetModelMsg(m)>>)
    BY <1>6 DEF ResetModelHandling, Native, clientVars
  <2>3. joined /\ connected /\ Led => Led'
    BY <1>1, <2>1, <2>2, SendStill
  <2> QED BY <2>2, <2>3 DEF DebugInv
<1>7. ASSUME NEW b \in BOOLEAN, SetPlayerExtendedVehDebug(b)
      PROVE  DebugInv'
  <2>1. /\ UNCHANGED <<joined, connected, clientDebug, hasExtendedVeh>>
        /\ debugMode' = b /\ asked' = b
        /\ hasExtendedVeh => Send(<<DebugModeMsg(b)>>)
    BY <1>7 DEF SetPlayerExtendedVehDebug, Native, clientVars
  <2>2. DebugModeMsg(b) \in Messages /\ About(DebugModeMsg(b), Debug)
        /\ Carried(DebugModeMsg(b), Debug) = b
    BY Sent DEF About, Carried, Debug, DebugModeMsg
  <2>3. joined /\ connected /\ hasExtendedVeh /\ asked' => Led'
    BY <1>1, <2>1, <2>2, SendLast
  <2> QED BY <2>1, <2>3 DEF DebugInv
<1>8. CASE ProcessTick
  <2>1. SetModelHandlingMsg(outgoing) \in Messages
        /\ ~About(SetModelHandlingMsg(outgoing), Debug)
    BY <1>1, Sent DEF About, Debug, TypeOK
  <2>2. /\ UNCHANGED <<joined, connected, clientDebug, debugMode, asked, hasExtendedVeh>>
        /\ hasExtendedVeh => Send(<<SetModelHandlingMsg(outgoing)>>)
    BY <1>8 DEF ProcessTick, clientVars, countVars
  <2>3. joined /\ connected /\ hasExtendedVeh /\ Led => Led'
    BY <1>1, <2>1, <2>2, SendStill
  <2> QED BY <2>2, <2>3 DEF DebugInv
<1>9. CASE GameModeRestart
  <2>1. RpcMsg("GameModeRestart") \in Messages /\ ~About(RpcMsg("GameModeRestart"), Debug)
    BY Sent DEF About, Debug, Rpcs
  <2>2. /\ UNCHANGED <<joined, connected, clientDebug, debugMode, asked, hasExtendedVeh>>
        /\ Send(<<RpcMsg("GameModeRestart")>>)
    BY <1>9 DEF GameModeRestart, serverVars, clientVars
  <2>3. joined /\ connected /\ Led => Led'
    BY <1>1, <2>1, <2>2, SendStill
  <2> QED BY <2>2, <2>3 DEF DebugInv
<1>10. CASE HandshakeCheck \/ HandshakeReset \/ HandshakeSend
  <2>1. UNCHANGED <<joined, connected, clientDebug, debugMode, asked, hasExtendedVeh, toClient>>
    BY <1>10 DEF HandshakeCheck, HandshakeReset, HandshakeSend, serverVars,
       networkVars, countVars
  <2> QED BY <2>1 DEF DebugInv
<1>11. CASE ConnectionAccepted
  BY <1>11 DEF ConnectionAccepted, serverVars, DebugInv
<1>12. CASE Receive
  <2>1. UNCHANGED <<joined, connected, debugMode, asked, hasExtendedVeh>>
    BY <1>12 DEF Receive, serverVars
  <2>2. PICK i \in 1..Len(toClient) :
          /\ toClient[i] \in Messages /\ InOrder(i)
          /\ toClient' = RemoveAt(toClient, i)
          /\ \/ HandleInitGame(toClient[i])
             \/ HandleGameModeRestart(toClient[i])
             \/ HandleServerQuit(toClient[i])
             \/ HandleInitResponse(toClient[i])
             \/ HandleSetModelHandling(toClient[i])
             \/ HandleResetModel(toClient[i])
             \/ HandleSetDebugMode(toClient[i])
    BY <1>12, Received
  <2> DEFINE a == toClient[i]
  <2>3. /\ About(a, Debug) <=> a.type = "SetDebugMode"
        /\ a.type = "SetDebugMode" => Carried(a, Debug) = a.enabled
        /\ \A j \in 1..Len(toClient) : About(toClient[j], Debug) => toClient[j].type = "SetDebugMode"
    BY DEF About, Carried, Debug
  <2>4. clientDebug' = IF About(a, Debug) THEN Carried(a, Debug) ELSE clientDebug
    BY <2>2, <2>3 DEF HandleInitGame, HandleGameModeRestart, HandleServerQuit,
       HandleInitResponse, HandleSetModelHandling, HandleResetModel, HandleSetDebugMode
  <2>5. About(a, Debug) => \A j \in 1..Len(toClient) : j < i => ~About(toClient[j], Debug)
    BY <2>2, <2>3 DEF InOrder, Rpcs
  <2>6. Led => Leads(RemoveAt(toClient, i),
                     IF About(a, Debug) THEN Carried(a, Debug) ELSE clientDebug, Debug, TRUE)
    BY <1>1, <2>5, LeadsOn
  <2>7. Led => Led'
    BY <2>2, <2>4, <2>6
  <2> QED BY <2>1, <2>7 DEF DebugInv
<1>13. CASE Disconnected
  BY <1>13 DEF Disconnected, serverVars, countVars, DebugInv
<1>14. CASE UNCHANGED vars
  BY <1>14 DEF vars, serverVars, clientVars, networkVars, countVars, DebugInv
<1> QED
  BY <1>2, <1>3, <1>4, <1>5, <1>6, <1>7, <1>8, <1>9, <1>10, <1>11, <1>12, <1>13,
     <1>14 DEF Next

\* A packet that concerns the session's handling, or none: what is under way
\* still answers before it hands out.
LEMMA StillOrdered ==
    ASSUME TypeOK, InForce, joined, connected,
           NEW r \in Seq(Messages), Send(r), UNCHANGED <<authorized, applied>>,
           hasExtendedVeh => hasExtendedVeh',
           \A i \in 1..Len(r) : r[i].type \notin Rpcs,
           \A i \in 1..Len(r) : r[i].type = "SetModelHandling" =>
               /\ hasExtendedVeh'
               /\ \/ authorized \/ Allowing(toClient)
                  \/ \E j \in 1..Len(r) :
                        j < i /\ r[j].type = "InitResponse" /\ r[j].allowed
    PROVE  /\ \A i \in 1..Len(toClient') :
                 /\ toClient'[i].type \notin {"GameModeRestart", "ServerQuit"}
                 /\ toClient'[i].type = "InitGame" => i = 1 /\ ~authorized'
                 /\ toClient'[i].type = "SetModelHandling" => hasExtendedVeh' /\ Answered(i)'
           /\ Allowing(toClient) => Allowing(toClient')
<1>1. toClient \in Seq(Messages) /\ toClient' = toClient \o r
  BY DEF TypeOK, Send
<1>2. /\ Len(toClient') = Len(toClient) + Len(r) /\ Len(toClient) \in Nat /\ Len(r) \in Nat
      /\ \A i \in 1..Len(toClient) : toClient'[i] = toClient[i]
      /\ \A i \in 1..Len(r) : toClient'[Len(toClient) + i] = r[i]
      /\ \A i \in 1..Len(toClient') : i > Len(toClient) =>
            /\ i - Len(toClient) \in 1..Len(r)
            /\ toClient'[i] = r[i - Len(toClient)]
  BY <1>1, ConcatItems
<1>3. ASSUME NEW i \in 1..Len(toClient')
      PROVE  /\ toClient'[i].type \notin {"GameModeRestart", "ServerQuit"}
             /\ toClient'[i].type = "InitGame" => i = 1 /\ ~authorized'
             /\ toClient'[i].type = "SetModelHandling" => hasExtendedVeh' /\ Answered(i)'
  <2>1. CASE i \in 1..Len(toClient)
    <3>1. toClient'[i] = toClient[i]
      BY <1>2, <2>1
    <3>2. Answered(i) => Answered(i)'
      BY <1>2, <2>1 DEF Answered
    <3> QED BY <2>1, <3>1, <3>2 DEF InForce
  <2>2. CASE i \notin 1..Len(toClient)
    <3> DEFINE n == i - Len(toClient)
    <3>1. n \in 1..Len(r) /\ toClient'[i] = r[n] /\ i > Len(toClient)
      BY <1>2, <2>2
    <3>2. toClient'[i].type \notin Rpcs
      BY <3>1
    <3>3. ASSUME r[n].type = "SetModelHandling"
          PROVE  Answered(i)'
      <4>1. CASE authorized
        BY <4>1 DEF Answered
      <4>2. CASE Allowing(toClient)
        <5>1. PICK j \in 1..Len(toClient) : toClient[j].type = "InitResponse" /\ toClient[j].allowed
          BY <4>2 DEF Allowing
        <5>2. j \in 1..Len(toClient') /\ j < i /\ toClient'[j] = toClient[j]
          BY <1>2, <3>1, <5>1
        <5> QED BY <5>1, <5>2 DEF Answered
      <4>3. ASSUME NEW j \in 1..Len(r), j < n, r[j].type = "InitResponse", r[j].allowed
            PROVE  Answered(i)'
        <5>1. /\ Len(toClient) + j \in 1..Len(toClient') /\ Len(toClient) + j < i
              /\ toClient'[Len(toClient) + j] = r[j]
          BY <1>2, <3>1, <4>3
        <5> QED BY <4>3, <5>1 DEF Answered
      <4> QED BY <3>1, <3>3, <4>1, <4>2, <4>3
    <3> QED BY <3>1, <3>2, <3>3 DEF Rpcs
  <2> QED BY <2>1, <2>2
<1>4. Allowing(toClient) => Allowing(toClient')
  BY <1>2 DEF Allowing
<1> QED BY <1>3, <1>4

\* The first answer to a handshake brings the whole handling.
LEMMA InitInForce ==
    ASSUME TypeOK, TrustInv, InForce, joined, connected, ReceiveInit
    PROVE  InForce'
<1>1. toClient \in Seq(Messages) /\ handling \in Handlings
  BY DEF TypeOK
<1>2. UNCHANGED <<applied, authorized, handling, outgoing>>
  BY DEF ReceiveInit, clientVars
<1>3. CASE Send(<<InitResponseMsg(FALSE)>>) /\ UNCHANGED hasExtendedVeh
  <2> DEFINE a == InitResponseMsg(FALSE)
  <2>1. a \in Messages /\ a.type = "InitResponse" /\ <<a>> \in Seq(Messages)
        /\ Len(<<a>>) = 1 /\ <<a>>[1] = a
    BY Sent, OneItem
  <2> HIDE DEF a
  <2>2. /\ \A i \in 1..Len(<<a>>) : <<a>>[i].type = "InitResponse"
    BY <2>1
  <2>3. /\ \A i \in 1..Len(toClient') :
              /\ toClient'[i].type \notin {"GameModeRestart", "ServerQuit"}
              /\ toClient'[i].type = "InitGame" => i = 1 /\ ~authorized'
              /\ toClient'[i].type = "SetModelHandling" => hasExtendedVeh' /\ Answered(i)'
        /\ Allowing(toClient) => Allowing(toClient')
    BY <1>2, <1>3, <2>1, <2>2, StillOrdered DEF Rpcs, a
  <2>4. ASSUME NEW m \in Models
        PROVE  \/ Leads(toClient', applied'[m], Handling(m), Store(m)')
               \/ hasExtendedVeh' /\ m \in outgoing' /\ handling'[m] # Default
    <3>1. ~About(a, Handling(m)) /\ Store(m)' = Store(m)
      BY <1>2, <1>3, <2>1 DEF About, Handling, Store
    <3>2. Leads(toClient, applied[m], Handling(m), Store(m)) =>
              Leads(toClient', applied[m], Handling(m), Store(m))
      BY <1>1, <1>3, <2>1, <3>1, SendStill DEF a
    <3> QED BY <1>2, <1>3, <3>1, <3>2 DEF InForce
  <2> QED BY <1>2, <1>3, <2>3, <2>4 DEF InForce
<1>4. CASE Send(Confirmation) /\ hasExtendedVeh'
  <2>1. /\ Confirmation \in Seq(Messages) /\ 1 \in 1..Len(Confirmation)
        /\ Confirmation[1] = InitResponseMsg(TRUE)
        /\ toClient' = toClient \o Confirmation
    BY <1>1, <1>4, ConfirmationItems DEF Send
  <2>2. /\ Confirmation[1].type = "InitResponse" /\ Confirmation[1].allowed
    BY <2>1, Sent
  <2>3. /\ \A i \in 1..Len(Confirmation) : Confirmation[i].type \notin Rpcs
        /\ \A i \in 1..Len(Confirmation) : i # 1 => ~hasExtendedVeh
        /\ \A i \in 1..Len(Confirmation) : i > 2 => Confirmation[i].type = "SetDebugMode"
        /\ ~hasExtendedVeh => Confirmation[2] = SetModelHandlingMsg(Models)
                              /\ 2 \in 1..Len(Confirmation)
    <3>1. CASE hasExtendedVeh
      <4>1. Len(Confirmation) = 1
        BY <1>1, <3>1, ConfirmationItems
      <4>2. \A i \in 1..Len(Confirmation) : i = 1
        BY <4>1
      <4> QED BY <2>2, <3>1, <4>2 DEF Rpcs
    <3>2. CASE ~hasExtendedVeh
      <4>1. /\ Confirmation[2] = SetModelHandlingMsg(Models) /\ 2 \in 1..Len(Confirmation)
            /\ Len(Confirmation) = IF debugMode THEN 3 ELSE 2
            /\ debugMode => Confirmation[3] = DebugModeMsg(TRUE)
        BY <1>1, <3>2, ConfirmationItems
      <4>2. /\ SetModelHandlingMsg(Models).type = "SetModelHandling"
            /\ DebugModeMsg(TRUE).type = "SetDebugMode"
        BY DEF SetModelHandlingMsg, DebugModeMsg
      <4>3. \A i \in 1..Len(Confirmation) : i = 1 \/ i = 2 \/ (debugMode /\ i = 3)
        BY <4>1
      <4>4. ASSUME NEW i \in 1..Len(Confirmation)
            PROVE  /\ Confirmation[i].type \notin Rpcs
                   /\ i > 2 => Confirmation[i].type = "SetDebugMode"
        <5>1. CASE i = 1
          BY <2>2, <5>1 DEF Rpcs
        <5>2. CASE i = 2
          BY <4>1, <4>2, <5>2 DEF Rpcs
        <5>3. CASE debugMode /\ i = 3
          BY <4>1, <4>2, <5>3 DEF Rpcs
        <5> QED BY <4>3, <5>1, <5>2, <5>3
      <4> QED BY <3>2, <4>1, <4>4
    <3> QED BY <3>1, <3>2
  <2>4. \A i \in 1..Len(Confirmation) : Confirmation[i].type = "SetModelHandling" =>
            \E j \in 1..Len(Confirmation) :
               j < i /\ Confirmation[j].type = "InitResponse" /\ Confirmation[j].allowed
    <3> TAKE i \in 1..Len(Confirmation)
    <3> HAVE Confirmation[i].type = "SetModelHandling"
    <3>1. 1 < i
      BY <2>2
    <3> QED BY <2>1, <2>2, <3>1
  <2>5. /\ \A i \in 1..Len(toClient') :
              /\ toClient'[i].type \notin {"GameModeRestart", "ServerQuit"}
              /\ toClient'[i].type = "InitGame" => i = 1 /\ ~authorized'
              /\ toClient'[i].type = "SetModelHandling" => hasExtendedVeh' /\ Answered(i)'
    BY <1>2, <1>4, <2>1, <2>3, <2>4, StillOrdered
  <2>6. Allowing(toClient')
    <3> DEFINE c == Confirmation
    <3>0. c \in Seq(Messages) /\ 1 \in 1..Len(c) /\ toClient' = toClient \o c
      BY <2>1
    <3> HIDE DEF c
    <3>1. Len(toClient) + 1 \in 1..Len(toClient') /\ toClient'[Len(toClient) + 1] = c[1]
      BY <1>1, <3>0, ConcatItems
    <3> QED BY <2>2, <3>1 DEF Allowing, c
  <2>7. ASSUME NEW m \in Models
        PROVE  \/ Leads(toClient', applied'[m], Handling(m), Store(m)')
               \/ hasExtendedVeh' /\ m \in outgoing' /\ handling'[m] # Default
    <3>1. Store(m)' = handling[m]
      BY <1>2, <1>4 DEF Store
    <3>2. CASE hasExtendedVeh
      <4>1. \A i \in 1..Len(Confirmation) : ~About(Confirmation[i], Handling(m))
        BY <2>2, <2>3, <3>2 DEF About
      <4>2. Leads(toClient, applied[m], Handling(m), Store(m)) =>
                Leads(toClient', applied[m], Handling(m), Store(m))
        BY <1>1, <2>1, <4>1, LeadsStill
      <4>3. Store(m)' = Store(m)
        BY <3>1, <3>2 DEF Store
      <4> QED BY <1>2, <1>4, <3>2, <4>2, <4>3 DEF InForce
    <3>3. CASE ~hasExtendedVeh /\ handling[m] # Default
      <4>1. /\ Confirmation[2].type = "SetModelHandling"
            /\ m \in DOMAIN Confirmation[2].entries
            /\ Confirmation[2].entries[m] = handling[m]
        BY <2>3, <3>3 DEF SetModelHandlingMsg
      <4>2. About(Confirmation[2], Handling(m)) /\ Carried(Confirmation[2], Handling(m)) = handling[m]
        BY <4>1 DEF About, Carried, Handling
      <4>3. \A j \in 1..Len(Confirmation) : j > 2 => ~About(Confirmation[j], Handling(m))
        BY <2>3 DEF About, Handling
      <4>4. Leads(toClient \o Confirmation, applied[m], Handling(m),
                  Carried(Confirmation[2], Handling(m)))
        BY <1>1, <2>1, <2>3, <3>3, <4>2, <4>3, LeadsLast
      <4> QED BY <1>2, <2>1, <3>1, <4>2, <4>4
    <3>4. CASE ~hasExtendedVeh /\ handling[m] = Default
      <4>1. Leads(toClient, applied[m], Handling(m), Default)
        BY <3>4 DEF InForce, Store
      <4>2. \A i \in 1..Len(Confirmation) : ~About(Confirmation[i], Handling(m))
        <5> TAKE i \in 1..Len(Confirmation)
        <5>1. CASE i = 1
          BY <2>2, <5>1 DEF About
        <5>2. CASE i = 2
          BY <2>3, <3>4, <5>2 DEF About, Handling, SetModelHandlingMsg
        <5>3. CASE i > 2
          BY <2>3, <5>3 DEF About, Handling
        <5> QED BY <5>1, <5>2, <5>3
      <4>3. Leads(toClient', applied[m], Handling(m), Default)
        BY <1>1, <2>1, <4>1, <4>2, LeadsStill
      <4> QED BY <1>2, <3>1, <3>4, <4>3
    <3> QED BY <3>2, <3>3, <3>4
  <2> QED BY <1>2, <1>4, <2>5, <2>6, <2>7 DEF InForce
<1> QED BY <1>3, <1>4 DEF ReceiveInit

\* One packet of the server: about one model's handling, or about none.
LEMMA SentInForce ==
    ASSUME TypeOK, InForce, joined, connected, NEW a \in Messages, Send(<<a>>),
           a.type \notin Rpcs, UNCHANGED <<authorized, applied, hasExtendedVeh>>,
           a.type = "SetModelHandling" => hasExtendedVeh,
           \A m \in Models :
              \/ About(a, Handling(m)) /\ Carried(a, Handling(m)) = Store(m)'
              \/ /\ ~About(a, Handling(m)) /\ Store(m)' = Store(m)
                 /\ m \in outgoing /\ handling[m] # Default =>
                        m \in outgoing' /\ handling'[m] # Default
    PROVE  InForce'
<1>1. toClient \in Seq(Messages)
  BY DEF TypeOK
<1>2. <<a>> \in Seq(Messages) /\ \A i \in 1..Len(<<a>>) : <<a>>[i] = a
  BY OneItem
<1>3. hasExtendedVeh => authorized \/ Allowing(toClient)
  BY DEF InForce
<1>4. /\ \A i \in 1..Len(toClient') :
            /\ toClient'[i].type \notin {"GameModeRestart", "ServerQuit"}
            /\ toClient'[i].type = "InitGame" => i = 1 /\ ~authorized'
            /\ toClient'[i].type = "SetModelHandling" => hasExtendedVeh' /\ Answered(i)'
      /\ Allowing(toClient) => Allowing(toClient')
  BY <1>2, <1>3, StillOrdered
<1>5. ASSUME NEW m \in Models
      PROVE  \/ Leads(toClient', applied'[m], Handling(m), Store(m)')
             \/ hasExtendedVeh' /\ m \in outgoing' /\ handling'[m] # Default
  <2>1. CASE About(a, Handling(m)) /\ Carried(a, Handling(m)) = Store(m)'
    BY <1>1, <2>1, SendLast
  <2>2. CASE /\ ~About(a, Handling(m)) /\ Store(m)' = Store(m)
             /\ m \in outgoing /\ handling[m] # Default =>
                    m \in outgoing' /\ handling'[m] # Default
    <3>1. Leads(toClient, applied[m], Handling(m), Store(m)) =>
              Leads(toClient', applied[m], Handling(m), Store(m))
      BY <1>1, <2>2, SendStill
    <3> QED BY <2>2, <3>1 DEF InForce
  <2> QED BY <2>1, <2>2
<1> QED BY <1>3, <1>4, <1>5 DEF InForce

\* A packet that the client takes in turn.
LEMMA TakenInForce ==
    ASSUME TypeOK, InForce, clientVersion = ServerVersion, Receive, ~disturbed'
    PROVE  InForce'
<1>1. toClient \in Seq(Messages) /\ applied \in Handlings
  BY DEF TypeOK
<1>2. PICK i \in 1..Len(toClient) :
          /\ toClient[i] \in Messages /\ InOrder(i)
          /\ toClient' = RemoveAt(toClient, i)
          /\ disturbed' = (disturbed \/ i # 1)
          /\ \/ HandleInitGame(toClient[i])
             \/ HandleGameModeRestart(toClient[i])
             \/ HandleServerQuit(toClient[i])
             \/ HandleInitResponse(toClient[i])
             \/ HandleSetModelHandling(toClient[i])
             \/ HandleResetModel(toClient[i])
             \/ HandleSetDebugMode(toClient[i])
  BY Received
<1> DEFINE a == toClient[1]
<1>3. i = 1 /\ 1 \in 1..Len(toClient) /\ a \in Messages
  BY <1>2
<1>4. UNCHANGED <<hasExtendedVeh, handling, outgoing, clientVersion>>
  BY DEF Receive, serverVars
<1>5. /\ Len(toClient') = Len(toClient) - 1 /\ Len(toClient) \in Nat
      /\ \A j \in 1..Len(toClient') : j + 1 \in 1..Len(toClient) /\ toClient'[j] = toClient[j + 1]
  <2>1. /\ Len(RemoveAt(toClient, 1)) = Len(toClient) - 1 /\ Len(toClient) \in Nat
        /\ \A j \in 1..Len(RemoveAt(toClient, 1)) :
              RemoveAt(toClient, 1)[j] = IF j < 1 THEN toClient[j] ELSE toClient[j + 1]
    BY <1>1, <1>3, RemoveAtItems
  <2> QED BY <1>2, <1>3, <2>1
<1>6. /\ a.type \notin {"GameModeRestart", "ServerQuit"}
      /\ a.type = "InitGame" => ~authorized
      /\ a.type = "SetModelHandling" => authorized
  BY <1>3 DEF InForce, Answered
<1>7. /\ authorized' <=> authorized \/ (a.type = "InitResponse" /\ a.allowed)
      /\ \A m \in Models : applied'[m] = IF About(a, Handling(m)) THEN Carried(a, Handling(m))
                                          ELSE applied[m]
      /\ ~authorized' => applied' = Unmodified
  <2>0. /\ \A m \in Models :
              /\ About(a, Handling(m)) <=>
                    \/ a.type = "SetModelHandling" /\ m \in DOMAIN a.entries
                    \/ a.type = "ResetModel" /\ a.model = m
              /\ a.type = "SetModelHandling" => Carried(a, Handling(m)) = a.entries[m]
              /\ a.type = "ResetModel" => Carried(a, Handling(m)) = Default
        /\ ~authorized => applied = Unmodified
    BY <1>3, AboutWhat DEF InForce
  <2> HIDE DEF a
  <2>1. /\ authorized' <=> authorized \/ (a.type = "InitResponse" /\ a.allowed)
        /\ \A m \in Models : applied'[m] =
              IF a.type = "SetModelHandling" /\ m \in DOMAIN a.entries THEN a.entries[m]
              ELSE IF a.type = "ResetModel" /\ a.model = m THEN Default ELSE applied[m]
        /\ ~authorized' => applied' = Unmodified
    <3>1. CASE HandleInitGame(a)
      <4>1. a.type = "InitGame" /\ ~authorized /\ ~authorized' /\ applied' = Unmodified
        BY <1>6, <3>1 DEF HandleInitGame, HandshakeUnlessAuthorized, Handshake
      <4>2. applied' = applied
        BY <2>0, <4>1
      <4> QED BY <4>1, <4>2
    <3>2. CASE HandleInitResponse(a)
      <4>1. a.type = "InitResponse" /\ applied' = applied
        BY <3>2 DEF HandleInitResponse
      <4>2. a.version = ServerVersion
        BY <1>3, <4>1 DEF Messages, Rpcs
      <4>3. authorized' <=> authorized \/ a.allowed
        BY <3>2, <4>2 DEF HandleInitResponse
      <4> QED BY <2>0, <4>1, <4>3
    <3>3. CASE HandleSetModelHandling(a)
      <4>1. a.type = "SetModelHandling" /\ authorized /\ authorized'
        BY <1>6, <3>3 DEF HandleSetModelHandling
      <4>2. \A m \in Models : applied'[m] = IF m \in DOMAIN a.entries THEN a.entries[m]
                                            ELSE applied[m]
        BY <3>3, <4>1 DEF HandleSetModelHandling
      <4> QED BY <4>1, <4>2
    <3>4. CASE HandleResetModel(a)
      <4>1. /\ applied' = [applied EXCEPT ![a.model] = Default] /\ a.type = "ResetModel"
            /\ authorized' = authorized
        BY <3>4 DEF HandleResetModel
      <4>2. \A m \in Models : applied'[m] = IF m = a.model THEN Default ELSE applied[m]
        BY <1>1, <4>1 DEF Handlings
      <4>3. applied = Unmodified => applied' = Unmodified
        BY <4>1 DEF Unmodified
      <4> QED BY <2>0, <4>1, <4>2, <4>3
    <3>5. CASE HandleSetDebugMode(a)
      <4>1. a.type = "SetDebugMode" /\ authorized' = authorized /\ applied' = applied
        BY <3>5 DEF HandleSetDebugMode
      <4> QED BY <2>0, <4>1
    <3>6. \/ HandleInitGame(a) \/ HandleInitResponse(a) \/ HandleSetModelHandling(a)
          \/ HandleResetModel(a) \/ HandleSetDebugMode(a)
      BY <1>2, <1>3, <1>6 DEF HandleGameModeRestart, HandleServerQuit, a
    <3> QED BY <3>1, <3>2, <3>3, <3>4, <3>5, <3>6
  <2>2. ASSUME NEW m \in Models
        PROVE  applied'[m] = IF About(a, Handling(m)) THEN Carried(a, Handling(m)) ELSE applied[m]
    <3>1. CASE a.type = "SetModelHandling"
      BY <2>0, <2>1, <3>1
    <3>2. CASE a.type = "ResetModel"
      BY <2>0, <2>1, <3>2
    <3>3. CASE a.type \notin {"SetModelHandling", "ResetModel"}
      BY <2>0, <2>1, <3>3
    <3> QED BY <3>1, <3>2, <3>3
  <2> QED BY <2>1, <2>2
<1>8. ASSUME NEW j \in 1..Len(toClient')
      PROVE  /\ toClient'[j].type \notin {"GameModeRestart", "ServerQuit"}
             /\ toClient'[j].type = "InitGame" => j = 1 /\ ~authorized'
             /\ toClient'[j].type = "SetModelHandling" => hasExtendedVeh' /\ Answered(j)'
  <2>1. /\ j + 1 \in 1..Len(toClient) /\ toClient'[j] = toClient[j + 1] /\ j + 1 # 1
    BY <1>5
  <2>2. /\ toClient'[j].type \notin {"GameModeRestart", "ServerQuit", "InitGame"}
        /\ toClient'[j].type = "SetModelHandling" => hasExtendedVeh /\ Answered(j + 1)
    BY <2>1 DEF InForce
  <2>3. ASSUME Answered(j + 1)
        PROVE  Answered(j)'
    <3>1. CASE authorized
      BY <1>7, <3>1 DEF Answered
    <3>2. ASSUME NEW n \in 1..Len(toClient), n < j + 1,
                 toClient[n].type = "InitResponse" /\ toClient[n].allowed
          PROVE  Answered(j)'
      <4>1. CASE n = 1
        BY <1>7, <3>2, <4>1 DEF Answered
      <4>2. CASE n # 1
        <5>1. n - 1 \in 1..Len(toClient') /\ n - 1 < j /\ toClient'[n - 1] = toClient[(n - 1) + 1]
              /\ (n - 1) + 1 = n
          BY <1>5, <3>2, <4>2
        <5> QED BY <3>2, <5>1 DEF Answered
      <4> QED BY <4>1, <4>2
    <3> QED BY <2>3, <3>1, <3>2 DEF Answered
  <2> QED BY <1>4, <2>2, <2>3
<1>9. authorized \/ Allowing(toClient) => authorized' \/ Allowing(toClient')
  <2>1. ASSUME NEW n \in 1..Len(toClient),
               toClient[n].type = "InitResponse" /\ toClient[n].allowed
        PROVE  authorized' \/ Allowing(toClient')
    <3>1. CASE n = 1
      BY <1>7, <2>1, <3>1
    <3>2. CASE n # 1
      <4>1. n - 1 \in 1..Len(toClient') /\ toClient'[n - 1] = toClient[(n - 1) + 1]
            /\ (n - 1) + 1 = n
        BY <1>5, <2>1, <3>2
      <4> QED BY <2>1, <4>1 DEF Allowing
    <3> QED BY <3>1, <3>2
  <2> QED BY <1>7, <2>1 DEF Allowing
<1>10. ASSUME NEW m \in Models, Leads(toClient, applied[m], Handling(m), Store(m))
       PROVE  Leads(toClient', applied'[m], Handling(m), Store(m)')
  <2>1. Store(m)' = Store(m)
    BY <1>4 DEF Store
  <2>2. \A j \in 1..Len(toClient) : ~(j < 1)
    OBVIOUS
  <2>3. Leads(RemoveAt(toClient, 1), IF About(a, Handling(m)) THEN Carried(a, Handling(m))
                                     ELSE applied[m], Handling(m), Store(m))
    BY <1>1, <1>3, <1>10, <2>2, LeadsOn
  <2> QED BY <1>2, <1>3, <1>7, <2>1, <2>3
<1> QED BY <1>4, <1>7, <1>8, <1>9, <1>10 DEF InForce

\* What the packets under way lead to changes for models that are queued only.
LEMMA QueuedInForce ==
    ASSUME InForce, UNCHANGED <<authorized, applied, toClient, hasExtendedVeh>>,
           \A m \in Models :
              \/ hasExtendedVeh /\ m \in outgoing' /\ handling'[m] # Default
              \/ /\ hasExtendedVeh /\ m \in outgoing => m \in outgoing'
                 /\ hasExtendedVeh => handling'[m] = handling[m]
    PROVE  InForce'
<1>1. /\ \A i \in 1..Len(toClient') :
           /\ toClient'[i].type \notin {"GameModeRestart", "ServerQuit"}
           /\ toClient'[i].type = "InitGame" => i = 1 /\ ~authorized'
           /\ toClient'[i].type = "SetModelHandling" => hasExtendedVeh' /\ Answered(i)'
      /\ hasExtendedVeh' => authorized' \/ Allowing(toClient')
      /\ ~authorized' => applied' = Unmodified
  BY DEF InForce, Answered, Allowing
<1>2. ASSUME NEW m \in Models
      PROVE  \/ Leads(toClient', applied'[m], Handling(m), Store(m)')
             \/ hasExtendedVeh' /\ m \in outgoing' /\ handling'[m] # Default
  <2>1. \/ Leads(toClient, applied[m], Handling(m), Store(m))
        \/ hasExtendedVeh /\ m \in outgoing /\ handling[m] # Default
    BY DEF InForce
  <2>2. CASE hasExtendedVeh /\ m \in outgoing' /\ handling'[m] # Default
    BY <2>2
  <2>3. CASE /\ hasExtendedVeh /\ m \in outgoing => m \in outgoing'
             /\ hasExtendedVeh => handling'[m] = handling[m]
    <3>1. Store(m)' = Store(m)
      BY <2>3 DEF Store
    <3> QED BY <2>1, <2>3, <3>1
  <2> QED BY <2>2, <2>3
<1> QED BY <1>1, <1>2 DEF InForce

\* The natives and the tick.
LEMMA ScriptsInForce ==
    ASSUME TypeOK, InForce, joined, connected, Ordinary, joined', ~disturbed'
    PROVE  InForce'
<1>1. handling \in Handlings /\ toClient \in Seq(Messages) /\ outgoing \in SUBSET Models
  BY DEF TypeOK
<1>2. ASSUME NEW m \in Models, NEW v \in Values, SetModelHandling(m, v)
      PROVE  InForce'
  <2>1. /\ UNCHANGED <<authorized, applied, toClient, hasExtendedVeh>>
        /\ handling' = [handling EXCEPT ![m] = v] /\ outgoing' = outgoing \cup {m}
    BY <1>2 DEF SetModelHandling, Native, clientVars
  <2>2. v # Default
    BY SessionAssumption
  <2>3. \A n \in Models : handling'[n] = IF n = m THEN v ELSE handling[n]
    BY <1>1, <2>1 DEF Handlings
  <2>4. \A n \in Models :
           \/ hasExtendedVeh /\ n \in outgoing' /\ handling'[n] # Default
           \/ /\ hasExtendedVeh /\ n \in outgoing => n \in outgoing'
              /\ hasExtendedVeh => handling'[n] = handling[n]
    BY <2>1, <2>2, <2>3
  <2> QED BY <2>1, <2>4, QueuedInForce
<1>3. ASSUME NEW m \in Models, ResetModelHandling(m)
      PROVE  InForce'
  <2>1. /\ UNCHANGED <<authorized, applied, hasExtendedVeh, outgoing>>
        /\ handling' = [handling EXCEPT ![m] = Default] /\ Send(<<ResetModelMsg(m)>>)
    BY <1>3 DEF ResetModelHandling, Native, clientVars
  <2>2. /\ ResetModelMsg(m) \in Messages /\ ResetModelMsg(m).type = "ResetModel"
        /\ ResetModelMsg(m).model = m
    BY Sent DEF ResetModelMsg
  <2>3. ASSUME NEW n \in Models
        PROVE  \/ About(ResetModelMsg(m), Handling(n))
                    /\ Carried(ResetModelMsg(m), Handling(n)) = Store(n)'
               \/ /\ ~About(ResetModelMsg(m), Handling(n)) /\ Store(n)' = Store(n)
                  /\ n \in outgoing /\ handling[n] # Default =>
                         n \in outgoing' /\ handling'[n] # Default
    <3>1. handling'[n] = IF n = m THEN Default ELSE handling[n]
      BY <1>1, <2>1 DEF Handlings
    <3>2. CASE n = m
      <4>1. About(ResetModelMsg(m), Handling(n)) /\ Carried(ResetModelMsg(m), Handling(n)) = Default
        BY <2>2, <3>2, AboutWhat
      <4>2. Store(n)' = Default
        BY <2>1, <3>1, <3>2 DEF Store
      <4> QED BY <4>1, <4>2
    <3>3. CASE n # m
      <4>1. ~About(ResetModelMsg(m), Handling(n))
        BY <2>2, <3>3, AboutWhat
      <4>2. Store(n)' = Store(n)
        BY <2>1, <3>1, <3>3 DEF Store
      <4> QED BY <2>1, <3>1, <3>3, <4>1, <4>2
    <3> QED BY <3>2, <3>3
  <2> QED BY <2>1, <2>2, <2>3, SentInForce DEF Rpcs
<1>4. ASSUME NEW b \in BOOLEAN, SetPlayerExtendedVehDebug(b)
      PROVE  InForce'
  <2>1. /\ UNCHANGED <<authorized, applied, hasExtendedVeh, outgoing, handling>>
        /\ \/ UNCHANGED toClient
           \/ Send(<<DebugModeMsg(b)>>)
    BY <1>4 DEF SetPlayerExtendedVehDebug, Native, clientVars
  <2>2. DebugModeMsg(b) \in Messages /\ DebugModeMsg(b).type = "SetDebugMode"
    BY Sent
  <2>3. \A n \in Models : ~About(DebugModeMsg(b), Handling(n)) /\ Store(n)' = Store(n)
    BY <2>1, <2>2, AboutWhat DEF Store
  <2>4. CASE UNCHANGED toClient
    BY <2>1, <2>4, QueuedInForce
  <2>5. CASE Send(<<DebugModeMsg(b)>>)
    BY <2>1, <2>2, <2>3, <2>5, SentInForce DEF Rpcs
  <2> QED BY <2>1, <2>4, <2>5
<1>5. CASE ProcessTick
  <2> DEFINE a == SetModelHandlingMsg(outgoing)
  <2>1. /\ UNCHANGED <<authorized, applied, hasExtendedVeh, handling>> /\ outgoing' = {}
        /\ IF hasExtendedVeh THEN Send(<<a>>) ELSE UNCHANGED toClient
    BY <1>5 DEF ProcessTick, clientVars
  <2>2. a \in Messages /\ a.type = "SetModelHandling"
    BY <1>1, Sent
  <2>3. /\ \A n \in Models : n \in DOMAIN a.entries <=> n \in outgoing /\ handling[n] # Default
        /\ \A n \in Models : n \in outgoing /\ handling[n] # Default => a.entries[n] = handling[n]
    BY DEF SetModelHandlingMsg
  <2> HIDE DEF a
  <2>4. CASE hasExtendedVeh
    <3>1. ASSUME NEW n \in Models
          PROVE  \/ About(a, Handling(n)) /\ Carried(a, Handling(n)) = Store(n)'
                 \/ /\ ~About(a, Handling(n)) /\ Store(n)' = Store(n)
                    /\ n \in outgoing /\ handling[n] # Default =>
                           n \in outgoing' /\ handling'[n] # Default
      <4>1. Store(n)' = handling[n] /\ Store(n) = handling[n]
        BY <2>1, <2>4 DEF Store
      <4>2. CASE n \in outgoing /\ handling[n] # Default
        BY <2>2, <2>3, <4>1, <4>2, AboutWhat
      <4>3. CASE ~(n \in outgoing /\ handling[n] # Default)
        BY <2>2, <2>3, <4>1, <4>3, AboutWhat
      <4> QED BY <4>2, <4>3
    <3> QED BY <2>1, <2>2, <2>4, <3>1, SentInForce DEF Rpcs
  <2>5. CASE ~hasExtendedVeh
    BY <2>1, <2>5, QueuedInForce
  <2> QED BY <2>4, <2>5
<1> QED BY <1>2, <1>3, <1>4, <1>5 DEF Ordinary, PlayerDisconnect, GameModeRestart

LEMMA DeliveryStep ==
    ASSUME TypeOK, TrustInv, DeliveryInv, [Next]_vars
    PROVE  DeliveryInv'
<1>1. CASE PlayerConnect
  <2> DEFINE a == RpcMsg("InitGame")
  <2>1. a \in Messages /\ a.type = "InitGame"
    BY Sent DEF Rpcs
  <2>2. /\ toClient' = Append(toClient, a) /\ ~joining' /\ ~hasExtendedVeh'
        /\ UNCHANGED <<clientVersion, authorized, applied>> /\ joining
    BY <1>1 DEF PlayerConnect, clientVars
  <2>3. ~authorized /\ toClient = <<>> /\ applied = Unmodified
    BY <2>2 DEF TrustInv, DeliveryInv
  <2>4. toClient' = <<a>> /\ Len(<<a>>) = 1 /\ <<a>>[1] = a
    BY <2>1, <2>2, <2>3
  <2> HIDE DEF a
  <2>5. \A i \in 1..Len(toClient') : i = 1 /\ toClient'[i] = a
    BY <2>4
  <2>6. ASSUME NEW m \in Models
        PROVE  Leads(toClient', applied'[m], Handling(m), Store(m)')
    <3>1. ~About(a, Handling(m))
      BY <2>1, AboutWhat
    <3>2. applied'[m] = Default /\ Store(m)' = Default
      BY <2>2, <2>3 DEF Unmodified, Store
    <3> QED BY <2>5, <3>1, <3>2 DEF Leads
  <2>7. InForce'
    BY <2>1, <2>2, <2>3, <2>5, <2>6 DEF InForce
  <2> QED BY <2>2, <2>7 DEF DeliveryInv
<1>2. CASE ReceiveInit
  <2>1. UNCHANGED <<joining, joined, connected, disturbed, clientVersion, authorized, applied>>
    BY <1>2 DEF ReceiveInit, clientVars, countVars
  <2> QED BY <1>2, <2>1, InitInForce DEF DeliveryInv
<1>3. CASE Ordinary
  <2>1. /\ UNCHANGED <<joining, connected, clientVersion, authorized, applied>>
        /\ joined' => joined
        /\ disturbed => disturbed'
    <3>1. CASE PlayerDisconnect
      BY <3>1 DEF PlayerDisconnect, clientVars
    <3>2. CASE ProcessTick
      BY <3>2 DEF ProcessTick, clientVars, countVars
    <3>3. CASE GameModeRestart
      BY <3>3 DEF GameModeRestart, serverVars, clientVars
    <3>4. ASSUME NEW m \in Models, NEW v \in Values, SetModelHandling(m, v)
          PROVE  UNCHANGED <<joining, joined, disturbed, clientVars>>
      BY <3>4 DEF SetModelHandling, Native
    <3>5. ASSUME NEW m \in Models, ResetModelHandling(m)
          PROVE  UNCHANGED <<joining, joined, disturbed, clientVars>>
      BY <3>5 DEF ResetModelHandling, Native
    <3>6. ASSUME NEW b \in BOOLEAN, SetPlayerExtendedVehDebug(b)
          PROVE  UNCHANGED <<joining, joined, disturbed, clientVars>>
      BY <3>6 DEF SetPlayerExtendedVehDebug, Native
    <3>7. CASE UNCHANGED <<joining, joined, disturbed, clientVars>>
      BY <3>7 DEF clientVars
    <3> QED BY <1>3, <3>1, <3>2, <3>3, <3>4, <3>5, <3>6, <3>7 DEF Ordinary
  <2> QED BY <1>3, <2>1, ScriptsInForce DEF DeliveryInv
<1>4. CASE HandshakeCheck \/ HandshakeReset \/ HandshakeSend
  <2>1. /\ UNCHANGED <<joining, joined, connected, clientVersion, applied, toClient,
                        hasExtendedVeh, handling, outgoing>>
        /\ disturbed => disturbed'
        /\ authorized' => authorized
        /\ ~disturbed' => authorized' = authorized
    <3>1. CASE HandshakeCheck
      BY <3>1 DEF HandshakeCheck, serverVars, networkVars, countVars
    <3>2. CASE HandshakeReset
      <4>1. /\ UNCHANGED <<joining, joined, connected, clientVersion, applied, toClient,
                            hasExtendedVeh, handling, outgoing>>
            /\ authorized' = FALSE /\ disturbed' = (disturbed \/ authorized)
        BY <3>2 DEF HandshakeReset, ResetInitState, serverVars, networkVars
      <4>2. authorized \in BOOLEAN
        BY DEF TypeOK
      <4> QED BY <4>1, <4>2
    <3>3. CASE HandshakeSend
      BY <3>3 DEF HandshakeSend, serverVars, countVars
    <3> QED BY <1>4, <3>1, <3>2, <3>3
  <2>2. InForce /\ ~disturbed' => InForce'
    BY <2>1, QueuedInForce
  <2>3. joined' /\ connected' /\ ~disturbed' /\ clientVersion' = ServerVersion => InForce'
    BY <2>1, <2>2 DEF DeliveryInv
  <2> QED BY <2>1, <2>3 DEF DeliveryInv
<1>5. CASE ConnectionAccepted
  <2>1. /\ ~joined' /\ applied' = Unmodified /\ UNCHANGED clientVersion /\ ~authorized'
    BY <1>5 DEF ConnectionAccepted, HandshakeUnlessAuthorized, Handshake, serverVars, TrustInv
  <2> QED BY <2>1 DEF DeliveryInv
<1>6. CASE Receive
  <2>1. UNCHANGED <<joining, joined, connected, clientVersion>>
    BY <1>6 DEF Receive, serverVars
  <2>2. ~joining /\ (disturbed => disturbed')
    BY <1>6, ReceiveTakes DEF TrustInv, Receive
  <2>3. clientVersion # ServerVersion => ~authorized'
    <3>1. PICK i \in 1..Len(toClient) :
            /\ toClient[i] \in Messages
            /\ \/ HandleInitGame(toClient[i])
               \/ HandleGameModeRestart(toClient[i])
               \/ HandleServerQuit(toClient[i])
               \/ HandleInitResponse(toClient[i])
               \/ HandleSetModelHandling(toClient[i])
               \/ HandleResetModel(toClient[i])
               \/ HandleSetDebugMode(toClient[i])
      BY <1>6, Received
    <3>2. toClient[i].type = "InitResponse" => toClient[i].version = ServerVersion
      BY <3>1 DEF Messages, Rpcs
    <3> QED BY <3>1, <3>2 DEF DeliveryInv, HandleInitGame, HandleGameModeRestart,
            HandleServerQuit, HandleInitResponse, HandleSetModelHandling,
            HandleResetModel, HandleSetDebugMode, HandshakeUnlessAuthorized,
            Handshake, ResetInitState
  <2> QED BY <1>6, <2>1, <2>2, <2>3, TakenInForce DEF DeliveryInv
<1>7. CASE Disconnected
  <2>1. ~connected' /\ ~joining' /\ ~authorized'
    BY <1>7 DEF Disconnected, ResetInitState
  <2> QED BY <2>1 DEF DeliveryInv
<1>8. CASE UNCHANGED vars
  <2>1. /\ UNCHANGED <<joining, joined, connected, clientVersion, applied, toClient,
                        hasExtendedVeh, handling, outgoing, authorized, disturbed>>
    BY <1>8 DEF vars, serverVars, clientVars, networkVars, countVars
  <2>2. InForce => InForce'
    BY <2>1, QueuedInForce
  <2> QED BY <2>1, <2>2 DEF DeliveryInv
<1> QED
  BY <1>1, <1>2, <1>3, <1>4, <1>5, <1>6, <1>7, <1>8 DEF Next, Ordinary

LEMMA QuietInForce ==
    ASSUME TypeOK, TrustInv, DeliveryInv
    PROVE  HandlingInForce
<1> SUFFICES ASSUME Quiet, ~disturbed
             PROVE  applied = handling
  BY DEF HandlingInForce
<1>1. joined /\ connected /\ authorized /\ toClient = <<>> /\ outgoing = {}
  BY DEF Quiet
<1>2. InForce /\ hasExtendedVeh
  BY <1>1 DEF DeliveryInv, TrustInv
<1>3. ASSUME NEW m \in Models
      PROVE  applied[m] = handling[m]
  <2>1. Leads(toClient, applied[m], Handling(m), handling[m])
    BY <1>1, <1>2 DEF InForce, Store
  <2>2. \A i \in 1..Len(toClient) : FALSE
    BY <1>1
  <2> QED BY <2>1, <2>2 DEF Leads
<1> QED BY <1>3 DEF TypeOK, Handlings

\* For any models, values and versions, and however sends, requests, answers
\* and natives interleave: once nothing is under way, a client in an
\* undisturbed session drives with the server's handling (OnPlayerAuthorized,
\* ProcessTick, ResetModelHandling).
THEOREM HandlingArrives == Spec => []HandlingInForce
<1>1. Init => DeliveryInv
  BY DEF Init, DeliveryInv
<1>2. TypeOK /\ TrustInv /\ DeliveryInv /\ [Next]_vars => DeliveryInv'
  BY DeliveryStep
<1>3. TypeOK /\ TrustInv /\ DeliveryInv => HandlingInForce
  BY QuietInForce
<1> QED BY <1>1, <1>2, <1>3, TypeCorrect, TrustAlways, PTL DEF Spec

\* When scripts see a player after the plugin does, the debug mode they ask
\* for arrives too, in a disturbed session as well: whatever the handshake
\* brings, it brings (ReceiveInit, SetPlayerExtendedVehDebug).
THEOREM EverythingArrives ==
  ASSUME ScriptsFirst = FALSE
  PROVE  Spec => []Delivered
<1>1. Init => DebugInv
  BY DEF Init, DebugInv
<1>2. TypeOK /\ TrustInv /\ DebugInv /\ [Next]_vars => DebugInv'
  BY DebugStep
<1>3. ASSUME TypeOK, TrustInv, DebugInv
      PROVE  DebugDelivered
  <2> SUFFICES ASSUME Quiet, asked
               PROVE  clientDebug
    BY DEF DebugDelivered
  <2>1. joined /\ connected /\ hasExtendedVeh /\ toClient = <<>>
    BY <1>3 DEF Quiet, TrustInv
  <2>2. Leads(toClient, clientDebug, Debug, TRUE)
    BY <1>3, <2>1 DEF DebugInv
  <2>3. \A i \in 1..Len(toClient) : FALSE
    BY <2>1
  <2> QED BY <2>2, <2>3 DEF Leads
<1>4. HandlingInForce /\ DebugDelivered => Delivered
  BY DEF Delivered
<1>5. TypeOK /\ TrustInv /\ DebugInv => DebugDelivered
  BY <1>3
<1> QED BY <1>1, <1>2, <1>4, <1>5, HandlingArrives, TypeCorrect, TrustAlways, PTL DEF Spec
=============================================================================
