-------------------------- MODULE ConnectionProofs ---------------------------
(***************************************************************************)
(* Proofs about the two connections of the client, to the FSD server       *)
(* (FsdConnection) and to the voice servers (VoiceConnection), for every   *)
(* value of their constants.                                               *)
(*                                                                         *)
(* FSD: the four safety properties are one invariant (FsdInv), with what   *)
(* socket, timer and queue are doing in each status (ConnInv).             *)
(*                                                                         *)
(* Voice: the functions of the code map states of the thread to states of  *)
(* the thread, and the proof follows them: one lemma for each, saying that *)
(* it keeps the types and ConnectedBeats (Good), and which of them leave   *)
(* work under way (Work).  AlwaysTrying is not inductive alone: it needs   *)
(* that the last signal under way tells the state of the FSD network.      *)
(***************************************************************************)
EXTENDS FsdConnection, VoiceConnection, SequenceTheorems, TLAPS

-----------------------------------------------------------------------------
(* The connection to the FSD server *)

\* sendQueuedMessage() takes at least one message and never more than there are:
\* dequeue() is not called on an empty queue.
THEOREM BurstWithin ==
    ASSUME NEW s \in Nat \ {0}
    PROVE  Burst(s) \in 1..s
BY DEF Burst

\* What remains of a queue after sendQueuedMessage() are messages of that queue.
LEMMA RestOfQueue ==
    ASSUME NEW S, NEW q \in Seq(S), q # <<>>
    PROVE  LET r == SubSeq(q, Burst(Len(q)) + 1, Len(q))
           IN  /\ r \in Seq(S)
               /\ \A i \in DOMAIN r : \E j \in DOMAIN q : r[i] = q[j]
<1> DEFINE b == Burst(Len(q))
           r == SubSeq(q, b + 1, Len(q))
<1>1. Len(q) \in Nat \ {0}
  OBVIOUS
<1>2. b \in 1..Len(q)
  BY <1>1, BurstWithin
<1> HIDE DEF b
<1>3. /\ r \in Seq(S)
      /\ Len(r) = Len(q) - b
      /\ \A i \in 1..(Len(q) - b) : r[i] = q[i + b]
  <2>1. \A i \in (b + 1)..Len(q) : q[i] \in S
    BY <1>1, <1>2
  <2>2. /\ SubSeq(q, b + 1, Len(q)) \in Seq(S)
        /\ Len(SubSeq(q, b + 1, Len(q)))
             = IF b + 1 <= Len(q) THEN Len(q) - (b + 1) + 1 ELSE 0
        /\ \A i \in 1..(Len(q) - (b + 1) + 1) :
             SubSeq(q, b + 1, Len(q))[i] = q[(b + 1) + i - 1]
    BY <1>1, <1>2, <2>1, SubSeqProperties
  <2> QED BY <1>1, <1>2, <2>2
<1>4. \A i \in DOMAIN r : i + b \in DOMAIN q /\ r[i] = q[i + b]
  <2> HIDE DEF r
  <2>1. DOMAIN r = 1..(Len(q) - b) /\ DOMAIN q = 1..Len(q)
    BY <1>3
  <2> QED BY <1>1, <1>2, <1>3, <2>1
<1> QED BY <1>3, <1>4 DEF b

\* What keeps the properties inductive: numbers of connections are in order, a token is
\* asked for over a connected socket, and without late results the status and the
\* socket change together.
ConnInv ==
    /\ tokens \subseteq 1..attempt
    /\ newSocket <= attempt
    /\ socket # "closed" => attempt # 0
    /\ socket = "connecting" => attempt \notin tokens
    /\ ~ late /\ status = "Disconnected" => socket \notin {"connecting", "connected"}
    /\ ~ late /\ status = "Connecting" => timers /\ socket # "closed"

FsdInv ==
    /\ TypeOK
    /\ ConnInv
    /\ PendingIsWatched
    /\ DisconnectedIsQuiet
    /\ MessagesOfThisConnection
    /\ ConnectedIsOpen

\* The invariant holds initially.
LEMMA FsdInit == Init => FsdInv
<1> SUFFICES ASSUME Init PROVE FsdInv
  OBVIOUS
<1>1. TypeOK
  <2>1. switched \in BOOLEAN /\ rehosting \in BOOLEAN /\ greeted \in BOOLEAN
        /\ timers \in BOOLEAN /\ late \in BOOLEAN
    BY Zenon DEF Init
  <2> QED BY <2>1, TimeAssumption, BoundAssumption DEF Init, TypeOK
<1>2. ConnInv /\ PendingIsWatched /\ DisconnectedIsQuiet /\ ConnectedIsOpen
  BY DEF Init, ConnInv, PendingIsWatched, DisconnectedIsQuiet, ConnectedIsOpen
<1>3. MessagesOfThisConnection
  BY DEF Init, MessagesOfThisConnection
<1> QED BY <1>1, <1>2, <1>3 DEF FsdInv

Booleans ==
    /\ switched \in BOOLEAN
    /\ rehosting \in BOOLEAN
    /\ greeted \in BOOLEAN
    /\ timers \in BOOLEAN
    /\ late \in BOOLEAN

\* Messages of the current and of earlier connections are messages.
LEMMA MessageTyped ==
    ASSUME NEW k \in {"ident", "login", "position"}, NEW a \in 0..MaxAttempts
    PROVE  MessageOf(k, a) \in Message
BY DEF MessageOf, Message

\* Every step of every handler keeps the types.
LEMMA FsdTypes == TypeOK /\ ConnInv /\ [Next]_vars => TypeOK'
<1> SUFFICES ASSUME TypeOK, ConnInv, [Next]_vars PROVE TypeOK'
  OBVIOUS
<1> USE TimeAssumption, BoundAssumption DEF TypeOK, Booleans, ConnInv
<1>1. ASSUME NEW k \in Server, AskConnect(k) PROVE TypeOK'
  <2>1. Booleans'
    BY <1>1, Zenon DEF AskConnect, connVars
  <2> QED
    BY <1>1, <2>1 DEF AskConnect, connVars
<1>2. ASSUME AskDisconnect PROVE TypeOK'
  <2>1. Booleans'
    BY <1>2, Zenon DEF AskDisconnect, connVars
  <2> QED
    BY <1>2, <2>1 DEF AskDisconnect, connVars
<1>3. ASSUME ConnectIgnored PROVE TypeOK'
  <2>1. Booleans'
    BY <1>3, Zenon DEF ConnectIgnored, connVars
  <2> QED
    BY <1>3, <2>1 DEF ConnectIgnored, connVars
<1>4. ASSUME ConnectToServer PROVE TypeOK'
  <2>1. Booleans'
    BY <1>4, Zenon DEF ConnectToServer, ClearState, connVars
  <2> QED
    BY <1>4, <2>1 DEF ConnectToServer, ClearState, connVars
<1>5. ASSUME RunDisconnect PROVE TypeOK'
  <2>1. Booleans'
    BY <1>5, Zenon DEF RunDisconnect, DisconnectFromServer, BecomeDisconnected,
       ClearState, connVars
  <2> QED
    BY <1>5, <2>1 DEF RunDisconnect, DisconnectFromServer, BecomeDisconnected,
       ClearState, connVars
<1>6. ASSUME HandleSocketError PROVE TypeOK'
  <2>1. Booleans'
    BY <1>6, Zenon DEF HandleSocketError, DisconnectFromServer, BecomeDisconnected,
       ClearState, connVars
  <2>2. CASE rehosting
    BY <1>6, <2>1, <2>2 DEF HandleSocketError, DisconnectFromServer, BecomeDisconnected,
       ClearState, connVars
  <2>3. CASE ~ rehosting
    BY <1>6, <2>1, <2>3 DEF HandleSocketError, DisconnectFromServer, BecomeDisconnected,
       ClearState, connVars
  <2> QED BY <2>2, <2>3
<1>7. ASSUME HandleSocketConnected PROVE TypeOK'
  <2>1. Booleans'
    BY <1>7, Zenon DEF HandleSocketConnected, Deleted, connVars
  <2>2. CASE switched
    BY <1>7, <2>1, <2>2, MessageTyped DEF HandleSocketConnected, Deleted, connVars
  <2>3. CASE ~ switched /\ server = "classic"
    BY <1>7, <2>1, <2>3, MessageTyped DEF HandleSocketConnected, Deleted, connVars
  <2>4. CASE ~ switched /\ server # "classic"
    BY <1>7, <2>1, <2>4, MessageTyped DEF HandleSocketConnected, Deleted, connVars
  <2> QED BY <2>2, <2>3, <2>4
<1>8. ASSUME SocketFails PROVE TypeOK'
  <2>1. Booleans'
    BY <1>8, Zenon DEF SocketFails, Deleted, connVars
  <2>2. CASE switched
    BY <1>8, <2>1, <2>2 DEF SocketFails, Deleted, connVars
  <2>3. CASE ~ switched
    BY <1>8, <2>1, <2>3 DEF SocketFails, Deleted, connVars
  <2> QED BY <2>2, <2>3
<1>9. ASSUME RemoteCloses PROVE TypeOK'
  <2>1. Booleans'
    BY <1>9, Zenon DEF RemoteCloses, Deleted, connVars
  <2>2. CASE switched
    BY <1>9, <2>1, <2>2 DEF RemoteCloses, Deleted, connVars
  <2>3. CASE ~ switched
    BY <1>9, <2>1, <2>3 DEF RemoteCloses, Deleted, connVars
  <2> QED BY <2>2, <2>3
<1>10. ASSUME HandleFsdIdentification PROVE TypeOK'
  <2>1. Booleans'
    BY <1>10, Zenon DEF HandleFsdIdentification, DisconnectFromServer, BecomeDisconnected,
       ClearState, connVars
  <2>2. attempt \in 1..MaxAttempts
    BY <1>10 DEF HandleFsdIdentification
  <2>3. /\ MessageOf("ident", attempt) \in Message
        /\ MessageOf("login", attempt) \in Message
    BY <2>2, MessageTyped
  <2>4. UNCHANGED <<switched, newSocket, server, posted, checks, attempt, late>>
    BY <1>10 DEF HandleFsdIdentification
  <2>5. CASE DisconnectFromServer /\ UNCHANGED tokens
    BY <2>1, <2>4, <2>5 DEF DisconnectFromServer, BecomeDisconnected, ClearState
  <2>6. CASE /\ queue' = Append(queue, MessageOf("ident", attempt))
             /\ tokens' = tokens \cup {attempt}
             /\ UNCHANGED <<status, socket, rehosting, timers, age>>
    BY <2>1, <2>2, <2>3, <2>4, <2>6
  <2>7. CASE /\ queue' = queue \o << MessageOf("ident", attempt), MessageOf("login", attempt) >>
             /\ status' = "Connected"
             /\ UNCHANGED <<socket, rehosting, timers, age, tokens>>
    <3>1. queue' \in Seq(Message)
      BY <2>3, <2>7, ConcatProperties
    <3> QED BY <2>1, <2>4, <2>7, <3>1
  <2> QED BY <1>10, <2>5, <2>6, <2>7 DEF HandleFsdIdentification
<1>11. ASSUME ServerDisconnects PROVE TypeOK'
  <2>1. Booleans'
    BY <1>11, Zenon DEF ServerDisconnects, DisconnectFromServer, BecomeDisconnected,
       ClearState, connVars
  <2> QED
    BY <1>11, <2>1 DEF ServerDisconnects, DisconnectFromServer, BecomeDisconnected,
       ClearState, connVars
<1>12. ASSUME HandleRehost PROVE TypeOK'
  <2>1. Booleans'
    BY <1>12, Zenon DEF HandleRehost, connVars
  <2> QED
    BY <1>12, <2>1 DEF HandleRehost, connVars
<1>13. ASSUME RehostConnected PROVE TypeOK'
  <2>1. Booleans'
    BY <1>13, Zenon DEF RehostConnected, Outdated, connVars
  <2> QED
    BY <1>13, <2>1 DEF RehostConnected, Outdated, connVars
<1>14. ASSUME RehostFailed PROVE TypeOK'
  <2>1. Booleans'
    BY <1>14, Zenon DEF RehostFailed, Outdated, BecomeDisconnected, ClearState, connVars
  <2>2. CASE socket = "connected" \/ status = "Disconnected"
    BY <1>14, <2>1, <2>2 DEF RehostFailed, Outdated, BecomeDisconnected, ClearState,
       connVars
  <2>3. CASE ~ (socket = "connected" \/ status = "Disconnected")
    BY <1>14, <2>1, <2>3 DEF RehostFailed, Outdated, BecomeDisconnected, ClearState,
       connVars
  <2> QED BY <2>2, <2>3
<1>15. ASSUME NEW a \in 1..MaxAttempts, TokenReceived(a) PROVE TypeOK'
  <2>1. Booleans'
    BY <1>15, Zenon DEF TokenReceived, Outdated, connVars
  <2> QED
    BY <1>15, <2>1, MessageTyped DEF TokenReceived, Outdated, connVars
<1>16. ASSUME NEW a \in 1..MaxAttempts, TokenFailed(a) PROVE TypeOK'
  <2>1. Booleans'
    BY <1>16, Zenon DEF TokenFailed, Outdated, DisconnectFromServer, BecomeDisconnected,
       ClearState, connVars
  <2> QED
    BY <1>16, <2>1 DEF TokenFailed, Outdated, DisconnectFromServer, BecomeDisconnected,
       ClearState, connVars
<1>17. ASSUME SendPilotDataUpdate PROVE TypeOK'
  <2>1. Booleans'
    BY <1>17, Zenon DEF SendPilotDataUpdate, connVars
  <2> QED
    BY <1>17, <2>1, MessageTyped DEF SendPilotDataUpdate, connVars
<1>18. ASSUME SendQueuedMessage PROVE TypeOK'
  <2>1. Booleans'
    BY <1>18, Zenon DEF SendQueuedMessage, connVars
  <2>2. queue' \in Seq(Message)
    BY <1>18, RestOfQueue DEF SendQueuedMessage
  <2> QED
    BY <1>18, <2>1, <2>2 DEF SendQueuedMessage, connVars
<1>19. ASSUME Tick PROVE TypeOK'
  <2>1. Booleans'
    BY <1>19, Zenon DEF Tick, connVars
  <2> QED
    BY <1>19, <2>1 DEF Tick, connVars
<1>20. ASSUME PendingTimeoutCheck PROVE TypeOK'
  <2>1. Booleans'
    BY <1>20, Zenon DEF PendingTimeoutCheck, DisconnectFromServer, BecomeDisconnected,
       ClearState, connVars
  <2>2. CASE status = "Connecting" /\ age >= Timeout
    BY <1>20, <2>1, <2>2 DEF PendingTimeoutCheck, DisconnectFromServer,
       BecomeDisconnected, ClearState, connVars
  <2>3. CASE ~ (status = "Connecting" /\ age >= Timeout)
    BY <1>20, <2>1, <2>3 DEF PendingTimeoutCheck, DisconnectFromServer,
       BecomeDisconnected, ClearState, connVars
  <2> QED BY <2>2, <2>3
<1>21. CASE UNCHANGED vars
  BY <1>21 DEF vars, connVars
<1> QED BY <1>1, <1>2, <1>3, <1>4, <1>5, <1>6, <1>7, <1>8, <1>9, <1>10, <1>11, <1>12,
   <1>13, <1>14, <1>15, <1>16, <1>17, <1>18, <1>19, <1>20, <1>21 DEF Next, Context,
   Posted, Socket, Messages, Results, Timed

\* Connections stay in order, a pending one stays watched, an ended one stays quiet and
\* an established one open.
LEMMA FsdStatus ==
    FsdInv /\ [Next]_vars
        => ConnInv' /\ PendingIsWatched' /\ DisconnectedIsQuiet' /\ ConnectedIsOpen'
<1> DEFINE Goal == ConnInv' /\ PendingIsWatched' /\ DisconnectedIsQuiet' /\ ConnectedIsOpen'
<1> SUFFICES ASSUME FsdInv, [Next]_vars PROVE Goal
  OBVIOUS
<1> USE TimeAssumption, BoundAssumption
    DEF FsdInv, TypeOK, ConnInv, PendingIsWatched, DisconnectedIsQuiet, ConnectedIsOpen, Alive
<1>1. ASSUME NEW k \in Server, AskConnect(k) PROVE Goal
  BY <1>1 DEF AskConnect, connVars
<1>2. ASSUME AskDisconnect PROVE Goal
  BY <1>2 DEF AskDisconnect, connVars
<1>3. ASSUME ConnectIgnored PROVE Goal
  BY <1>3 DEF ConnectIgnored, connVars
<1>4. ASSUME ConnectToServer PROVE Goal
  BY <1>4 DEF ConnectToServer, ClearState, connVars
<1>5. ASSUME RunDisconnect PROVE Goal
  BY <1>5 DEF RunDisconnect, DisconnectFromServer, BecomeDisconnected, ClearState,
     connVars
<1>6. ASSUME HandleSocketError PROVE Goal
  <2>1. CASE rehosting
    BY <1>6, <2>1 DEF HandleSocketError, DisconnectFromServer, BecomeDisconnected,
       ClearState, connVars
  <2>2. CASE ~ rehosting
    BY <1>6, <2>2 DEF HandleSocketError, DisconnectFromServer, BecomeDisconnected,
       ClearState, connVars
  <2> QED BY <2>1, <2>2
<1>7. ASSUME HandleSocketConnected PROVE Goal
  <2>1. CASE switched
    BY <1>7, <2>1 DEF HandleSocketConnected, Deleted, connVars
  <2>2. CASE ~ switched /\ server = "classic"
    BY <1>7, <2>2 DEF HandleSocketConnected, Deleted, connVars
  <2>3. CASE ~ switched /\ server # "classic"
    BY <1>7, <2>3 DEF HandleSocketConnected, Deleted, connVars
  <2> QED BY <2>1, <2>2, <2>3
<1>8. ASSUME SocketFails PROVE Goal
  <2>1. CASE switched
    BY <1>8, <2>1 DEF SocketFails, Deleted, connVars
  <2>2. CASE ~ switched
    BY <1>8, <2>2 DEF SocketFails, Deleted, connVars
  <2> QED BY <2>1, <2>2
<1>9. ASSUME RemoteCloses PROVE Goal
  <2>1. CASE switched
    BY <1>9, <2>1 DEF RemoteCloses, Deleted, connVars
  <2>2. CASE ~ switched
    BY <1>9, <2>2 DEF RemoteCloses, Deleted, connVars
  <2> QED BY <2>1, <2>2
<1>10. ASSUME HandleFsdIdentification PROVE Goal
  <2>1. UNCHANGED <<switched, newSocket, server, posted, checks, attempt, late>>
    BY <1>10 DEF HandleFsdIdentification
  <2>2. socket = "connected" /\ attempt \in 1..MaxAttempts
    BY <1>10 DEF HandleFsdIdentification
  <2>3. CASE DisconnectFromServer /\ UNCHANGED tokens
    BY <2>1, <2>2, <2>3 DEF DisconnectFromServer, BecomeDisconnected, ClearState
  <2>4. CASE /\ queue' = Append(queue, MessageOf("ident", attempt))
             /\ tokens' = tokens \cup {attempt}
             /\ UNCHANGED <<status, socket, rehosting, timers, age>>
    BY <2>1, <2>2, <2>4
  <2>5. CASE /\ status' = "Connected"
             /\ UNCHANGED <<socket, rehosting, timers, age, tokens>>
    BY <2>1, <2>2, <2>5
  <2> QED BY <1>10, <2>3, <2>4, <2>5 DEF HandleFsdIdentification
<1>11. ASSUME ServerDisconnects PROVE Goal
  BY <1>11 DEF ServerDisconnects, DisconnectFromServer, BecomeDisconnected, ClearState,
     connVars
<1>12. ASSUME HandleRehost PROVE Goal
  BY <1>12 DEF HandleRehost, connVars
<1>13. ASSUME RehostConnected PROVE Goal
  <2>1. /\ newSocket' = 0 /\ newSocket # 0 /\ socket' = "connected"
        /\ UNCHANGED <<status, queue, timers, age, tokens, checks, attempt>>
    BY <1>13 DEF RehostConnected
  <2>2. ~ late' => ~ late /\ status = "Connected"
    BY <1>13, Zenon DEF RehostConnected, Outdated
  <2>3. ~ rehosting'
    BY <1>13 DEF RehostConnected
  <2>4. attempt # 0
    BY <2>1
  <2>5. ConnInv' /\ PendingIsWatched'
    BY <2>1, <2>2, <2>4
  <2>6. DisconnectedIsQuiet' /\ ConnectedIsOpen'
    BY <2>1, <2>2, <2>3
  <2> QED BY <2>5, <2>6
<1>14. ASSUME RehostFailed PROVE Goal
  <2>1. CASE socket = "connected" \/ status = "Disconnected"
    BY <1>14, <2>1 DEF RehostFailed, Outdated, BecomeDisconnected, ClearState, connVars
  <2>2. CASE ~ (socket = "connected" \/ status = "Disconnected")
    BY <1>14, <2>2 DEF RehostFailed, Outdated, BecomeDisconnected, ClearState, connVars
  <2> QED BY <2>1, <2>2
<1>15. ASSUME NEW a \in 1..MaxAttempts, TokenReceived(a) PROVE Goal
  BY <1>15 DEF TokenReceived, Outdated, connVars
<1>16. ASSUME NEW a \in 1..MaxAttempts, TokenFailed(a) PROVE Goal
  BY <1>16 DEF TokenFailed, Outdated, DisconnectFromServer, BecomeDisconnected,
     ClearState, connVars
<1>17. ASSUME SendPilotDataUpdate PROVE Goal
  BY <1>17 DEF SendPilotDataUpdate, connVars
<1>18. ASSUME SendQueuedMessage PROVE Goal
  BY <1>18 DEF SendQueuedMessage, connVars
<1>19. ASSUME Tick PROVE Goal
  BY <1>19 DEF Tick, connVars
<1>20. ASSUME PendingTimeoutCheck PROVE Goal
  <2>1. CASE status = "Connecting" /\ age >= Timeout
    BY <1>20, <2>1 DEF PendingTimeoutCheck, DisconnectFromServer, BecomeDisconnected,
       ClearState, connVars
  <2>2. CASE ~ (status = "Connecting" /\ age >= Timeout)
    BY <1>20, <2>2 DEF PendingTimeoutCheck, DisconnectFromServer, BecomeDisconnected,
       ClearState, connVars
  <2> QED BY <2>1, <2>2
<1>21. CASE UNCHANGED vars
  BY <1>21 DEF vars, connVars
<1> QED BY <1>1, <1>2, <1>3, <1>4, <1>5, <1>6, <1>7, <1>8, <1>9, <1>10, <1>11, <1>12,
   <1>13, <1>14, <1>15, <1>16, <1>17, <1>18, <1>19, <1>20, <1>21 DEF Next, Context,
   Posted, Socket, Messages, Results, Timed

\* What MessagesOfThisConnection says of one message, for connection n.
Belongs(m, n, l) == m.attempt # n => l /\ m.kind = "login"

\* A message that belongs to the connection can be appended.
LEMMA AppendBelongs ==
    ASSUME NEW q \in Seq(Message), NEW m \in Message, NEW n, NEW l,
           \A i \in DOMAIN q : Belongs(q[i], n, l), Belongs(m, n, l)
    PROVE  LET r == Append(q, m) IN \A i \in DOMAIN r : Belongs(r[i], n, l)
<1> DEFINE r == Append(q, m)
<1>1. /\ DOMAIN r = 1..(Len(q) + 1) /\ r[Len(q) + 1] = m
      /\ \A i \in 1..Len(q) : r[i] = q[i]
  BY AppendProperties
<1> HIDE DEF r
<1>2. ASSUME NEW i \in DOMAIN r PROVE Belongs(r[i], n, l)
  <2>1. CASE i = Len(q) + 1
    BY <1>1, <2>1
  <2>2. CASE i # Len(q) + 1
    <3>1. i \in 1..Len(q)
      BY <1>1, <2>2
    <3> QED BY <1>1, <3>1
  <2> QED BY <2>1, <2>2
<1> QED BY <1>2 DEF r

\* Queues hold messages of the current connection and logins of late tokens.
LEMMA FsdMessages == FsdInv /\ [Next]_vars => MessagesOfThisConnection'
<1> SUFFICES ASSUME FsdInv, [Next]_vars PROVE MessagesOfThisConnection'
  OBVIOUS
<1> DEFINE Own(q, n, l) == \A i \in DOMAIN q : Belongs(q[i], n, l)
<1>0. /\ MessagesOfThisConnection <=> Own(queue, attempt, late)
      /\ MessagesOfThisConnection' <=> Own(queue', attempt', late')
  BY DEF MessagesOfThisConnection, Belongs
<1>1. Own(queue, attempt, late) /\ queue \in Seq(Message) /\ attempt \in 0..MaxAttempts
  BY <1>0 DEF FsdInv, TypeOK
<1>2. \A m \in {"ident", "login", "position"} :
        /\ MessageOf(m, attempt) \in Message
        /\ Belongs(MessageOf(m, attempt), attempt, late)
  BY <1>1, MessageTyped DEF MessageOf, Belongs
<1>3. CASE queue' = <<>>
  BY <1>0, <1>3
<1>4. CASE UNCHANGED <<queue, attempt>> /\ (late => late')
  BY <1>0, <1>1, <1>4 DEF Belongs
<1>5. ASSUME NEW m \in {"ident", "login", "position"},
             queue' = Append(queue, MessageOf(m, attempt)), UNCHANGED <<attempt, late>>
      PROVE  Own(queue', attempt', late')
  BY <1>1, <1>2, <1>5, AppendBelongs
<1>6. CASE Context
  BY <1>4, <1>6 DEF Context, AskConnect, AskDisconnect, connVars
<1>7. CASE Posted
  <2>1. CASE HandleSocketError /\ rehosting
    BY <2>1, <1>4 DEF HandleSocketError, connVars
  <2>2. CASE HandleSocketError /\ ~ rehosting
    BY <2>2, <1>3 DEF HandleSocketError, DisconnectFromServer, BecomeDisconnected, ClearState
  <2>3. CASE ConnectIgnored
    BY <2>3, <1>4 DEF ConnectIgnored, connVars
  <2>4. CASE ConnectToServer \/ RunDisconnect
    BY <2>4, <1>3 DEF ConnectToServer, RunDisconnect, DisconnectFromServer,
       BecomeDisconnected, ClearState
  <2> QED BY <1>7, <2>1, <2>2, <2>3, <2>4 DEF Posted
<1>8. CASE Socket
  <2>1. CASE UNCHANGED <<queue, attempt, late>>
    BY <1>4, <2>1
  <2>2. CASE /\ queue' = Append(queue, MessageOf("login", attempt))
             /\ UNCHANGED <<attempt, late>>
    BY <1>0, <1>5, <2>2
  <2>3. UNCHANGED <<attempt, late>>
    BY <1>8 DEF Socket, HandleSocketConnected, SocketFails, RemoteCloses
  <2>4. UNCHANGED queue \/ queue' = Append(queue, MessageOf("login", attempt))
    BY <1>8, Zenon DEF Socket, HandleSocketConnected, SocketFails, RemoteCloses, Deleted
  <2> QED BY <2>1, <2>2, <2>3, <2>4
<1>9. CASE Messages
  <2>1. CASE ServerDisconnects
    BY <1>3, <2>1 DEF ServerDisconnects, DisconnectFromServer, BecomeDisconnected, ClearState
  <2>2. CASE HandleRehost
    BY <1>4, <2>2 DEF HandleRehost
  <2>3. CASE HandleFsdIdentification
    <3>1. UNCHANGED <<attempt, late>>
      BY <2>3 DEF HandleFsdIdentification
    <3>2. CASE DisconnectFromServer
      BY <1>3, <3>2 DEF DisconnectFromServer, BecomeDisconnected, ClearState
    <3>3. CASE queue' = Append(queue, MessageOf("ident", attempt))
      BY <1>0, <1>5, <3>1, <3>3
    <3>4. CASE queue' = queue \o << MessageOf("ident", attempt), MessageOf("login", attempt) >>
      <4> DEFINE q1 == Append(queue, MessageOf("ident", attempt))
      <4>1. q1 \in Seq(Message) /\ Own(q1, attempt, late)
        BY <1>1, <1>2, AppendBelongs, AppendProperties
      <4>2. queue' = Append(q1, MessageOf("login", attempt))
        BY <1>1, <1>2, <3>4
      <4> HIDE DEF q1
      <4>3. Own(queue', attempt, late)
        BY <1>2, <4>1, <4>2, AppendBelongs
      <4> QED BY <1>0, <3>1, <4>3
    <3> QED BY <2>3, <3>2, <3>3, <3>4 DEF HandleFsdIdentification
  <2> QED BY <1>9, <2>1, <2>2, <2>3 DEF Messages
<1>10. CASE Results
  <2>1. CASE RehostConnected
    BY <1>4, <2>1 DEF RehostConnected
  <2>2. CASE RehostFailed
    <3>1. UNCHANGED attempt /\ (late => late')
      BY <2>2 DEF RehostFailed
    <3>2. queue' = queue \/ queue' = <<>>
      BY <2>2 DEF RehostFailed, BecomeDisconnected, ClearState
    <3> QED BY <1>3, <1>4, <3>1, <3>2
  <2>3. ASSUME NEW a \in 1..MaxAttempts, TokenReceived(a)
        PROVE  MessagesOfThisConnection'
    <3> DEFINE m == MessageOf("login", a)
    <3>1. /\ UNCHANGED attempt /\ (late => late')
          /\ a # attempt => late'
          /\ queue' = Append(queue, m)
      BY <2>3 DEF TokenReceived, Outdated
    <3>2. m \in Message /\ m.attempt = a /\ m.kind = "login"
      BY <1>1, MessageTyped DEF MessageOf
    <3> HIDE DEF m
    <3>3. Own(queue, attempt, late') /\ Belongs(m, attempt, late')
      BY <1>1, <3>1, <3>2 DEF Belongs
    <3>4. Own(queue', attempt, late')
      BY <1>1, <3>1, <3>2, <3>3, AppendBelongs
    <3> QED BY <1>0, <3>1, <3>4
  <2>4. ASSUME NEW a \in 1..MaxAttempts, TokenFailed(a)
        PROVE  MessagesOfThisConnection'
    BY <1>3, <2>4 DEF TokenFailed, DisconnectFromServer, BecomeDisconnected, ClearState
  <2> QED BY <1>10, <2>1, <2>2, <2>3, <2>4 DEF Results
<1>11. CASE Timed
  <2>1. CASE SendPilotDataUpdate
    BY <1>0, <1>5, <2>1 DEF SendPilotDataUpdate
  <2>2. CASE SendQueuedMessage
    <3>1. queue # <<>> /\ UNCHANGED <<attempt, late>>
          /\ queue' = SubSeq(queue, Burst(Len(queue)) + 1, Len(queue))
      BY <2>2 DEF SendQueuedMessage
    <3>2. \A i \in DOMAIN queue' : \E j \in DOMAIN queue : queue'[i] = queue[j]
      BY <1>1, <3>1, RestOfQueue
    <3> QED BY <1>0, <1>1, <3>1, <3>2
  <2>3. CASE Tick
    BY <1>4, <2>3 DEF Tick
  <2>4. CASE PendingTimeoutCheck
    <3>1. UNCHANGED <<attempt, late>>
      BY <2>4 DEF PendingTimeoutCheck
    <3>2. queue' = queue \/ queue' = <<>>
      BY <2>4 DEF PendingTimeoutCheck, connVars, DisconnectFromServer, BecomeDisconnected,
         ClearState
    <3> QED BY <1>3, <1>4, <3>1, <3>2
  <2> QED BY <1>11, <2>1, <2>2, <2>3, <2>4 DEF Timed
<1>12. CASE UNCHANGED vars
  BY <1>4, <1>12 DEF vars, connVars
<1> QED BY <1>6, <1>7, <1>8, <1>9, <1>10, <1>11, <1>12 DEF Next

\* Throughout every run of the client: the types hold, pending connections are watched
\* by a timer of their own, ended ones are quiet, no message of one connection is sent
\* over another, and connected means an open socket.
THEOREM FsdInvariant == Spec => []FsdInv
<1>1. FsdInv /\ [Next]_vars => FsdInv'
  BY FsdTypes, FsdStatus, FsdMessages DEF FsdInv
<1> QED BY FsdInit, <1>1, PTL DEF Spec

\* The client's state stays well formed; Disconnecting never outlasts a handler.
THEOREM FsdTypesHold == Spec => []TypeOK
<1>1. FsdInv => TypeOK
  BY DEF FsdInv
<1> QED BY FsdInvariant, <1>1, PTL

\* Every pending connection is watched.
THEOREM PendingWatched == Spec => []PendingIsWatched
<1>1. FsdInv => PendingIsWatched
  BY DEF FsdInv
<1> QED BY FsdInvariant, <1>1, PTL

\* An ended connection is quiet.
THEOREM DisconnectedQuiet == Spec => []DisconnectedIsQuiet
<1>1. FsdInv => DisconnectedIsQuiet
  BY DEF FsdInv
<1> QED BY FsdInvariant, <1>1, PTL

\* Messages stay with their connection.
THEOREM MessagesStay == Spec => []MessagesOfThisConnection
<1>1. FsdInv => MessagesOfThisConnection
  BY DEF FsdInv
<1> QED BY FsdInvariant, <1>1, PTL

\* Without late results, connected means an open socket and running timers.
THEOREM ConnectedOpen == Spec => []ConnectedIsOpen
<1>1. FsdInv => ConnectedIsOpen
  BY DEF FsdInv
<1> QED BY FsdInvariant, <1>1, PTL

-----------------------------------------------------------------------------
(* The connection to the voice servers *)

\* A state of the thread with the properties of ConnectedBeats
Good(s) ==
    /\ s \in Afv
    /\ s.connected => s.beat
    /\ s.beat => s.channel

\* The part of Trying that is in the state of the thread
Work(s) == s.connected \/ s.logins > 0 \/ s.reconnects > 0 \/ s.resumes > 0

\* The counters of the thread stay within their types.
LEMMA Counters ==
    ASSUME NEW s \in Afv
    PROVE  /\ s.logins + 1 \in Nat /\ s.reconnects + 1 \in Nat
           /\ s.resumes + 1 \in Nat /\ s.renewals + 1 \in Nat
           /\ s.logins > 0 => s.logins - 1 \in Nat
           /\ s.reconnects > 0 => s.reconnects - 1 \in Nat
           /\ s.resumes > 0 => s.resumes - 1 \in Nat
           /\ s.renewals > 0 => s.renewals - 1 \in Nat
           /\ s.checks > 0 => s.checks - 1 \in 0..1
           /\ (IF s.failures < 2 THEN s.failures + 1 ELSE s.failures) \in 0..2
           /\ (IF s.retrying THEN s.checks ELSE 1) \in 0..1
           /\ 0 \in 0..2 /\ 0 \in 0..1 /\ 1 \in 0..1
BY DEF Afv

\* Reset() keeps Good, the connection, and what is under way.
LEMMA ResetGood ==
    ASSUME NEW s, Good(s)
    PROVE  Good(Reset(s)) /\ Reset(s).connected = s.connected
<1>1. Reset(s) \in Afv
  BY Zenon DEF Good, Afv, Reset
<1> QED
  BY <1>1 DEF Good, Afv, Reset

\* DisconnectFrom() keeps Good.
LEMMA DisconnectGood ==
    ASSUME NEW s, Good(s) PROVE Good(DisconnectFrom(s))
<1> DEFINE c == [s EXCEPT !.connected = FALSE, !.beat = FALSE, !.auth = FALSE]
           t == IF s.connected THEN Reset(c) ELSE s
           d == [t EXCEPT !.failures = 0, !.retrying = FALSE, !.mismatches = 0,
                          !.announced = FALSE]
<1>1. c \in Afv
  BY Zenon DEF Good, Afv
<1>2. Good(c)
  BY <1>1 DEF Good, Afv
<1>3. Good(t)
  BY <1>2, ResetGood
<1> HIDE DEF t
<1>4. d \in Afv
  BY <1>3, Counters, Zenon DEF Good, Afv
<1>5. d.connected = t.connected /\ d.beat = t.beat /\ d.channel = t.channel
  BY <1>3 DEF Good, Afv
<1>6. Good(d)
  BY <1>3, <1>4, <1>5 DEF Good
<1> QED
  BY <1>6 DEF DisconnectFrom, CloseConnection, t

\* ConnectTo() keeps Good and leaves a connection or a login.
LEMMA ConnectGood ==
    ASSUME NEW s, Good(s) PROVE Good(ConnectTo(s)) /\ Work(ConnectTo(s))
<1>1. CASE s.connected
  BY <1>1 DEF ConnectTo, Work
<1>2. CASE ~s.connected
  <2> DEFINE t == [s EXCEPT !.checks = IF s.retrying THEN @ ELSE 1,
                            !.user = TRUE, !.auth = FALSE, !.logins = @ + 1]
  <2>1. t \in Afv
    BY Counters, Zenon DEF Good, Afv
  <2>2. t.connected = s.connected /\ t.beat = s.beat /\ t.channel = s.channel /\ t.logins > 0
    BY DEF Good, Afv
  <2> HIDE DEF t
  <2>3. Good(t) /\ Work(t)
    BY <2>1, <2>2 DEF Good, Work
  <2> QED
    BY <1>2, <2>3 DEF ConnectTo, t
<1> QED
  BY <1>1, <1>2

\* RetryConnectTo() keeps Good and leaves a connection or a single shot.
LEMMA RetryGood ==
    ASSUME NEW s, Good(s) PROVE Good(RetryConnectTo(s)) /\ Work(RetryConnectTo(s))
<1>1. CASE s.connected
  BY <1>1 DEF RetryConnectTo, Work
<1>2. CASE ~s.connected
  <2> DEFINE t == [s EXCEPT !.retrying = TRUE, !.reconnects = @ + 1]
  <2>1. t \in Afv
    BY Counters, Zenon DEF Good, Afv
  <2>2. t.connected = s.connected /\ t.beat = s.beat /\ t.channel = s.channel /\ t.reconnects > 0
    BY DEF Good, Afv
  <2> HIDE DEF t
  <2>3. Good(t) /\ Work(t)
    BY <2>1, <2>2 DEF Good, Work
  <2> QED
    BY <1>2, <2>3 DEF RetryConnectTo, t
<1> QED
  BY <1>1, <1>2

\* CheckExpiry() keeps Good and what is under way.
LEMMA ExpiryGood ==
    ASSUME NEW s, Good(s)
    PROVE  /\ Good(CheckExpiry(s))
           /\ Work(s) => Work(CheckExpiry(s))
           /\ CheckExpiry(s).connected = s.connected
<1>1. CASE s.auth /\ s.expired
  <2> DEFINE t == [s EXCEPT !.auth = FALSE, !.renewals = @ + 1]
  <2>1. t \in Afv
    BY Counters, Zenon DEF Good, Afv
  <2>2. /\ t.connected = s.connected /\ t.beat = s.beat /\ t.channel = s.channel
        /\ t.logins = s.logins /\ t.reconnects = s.reconnects /\ t.resumes = s.resumes
    BY DEF Good, Afv
  <2> HIDE DEF t
  <2>3. Good(t) /\ (Work(s) => Work(t))
    BY <2>1, <2>2 DEF Good, Work
  <2> QED
    BY <1>1, <2>2, <2>3 DEF CheckExpiry, t
<1>2. CASE ~(s.auth /\ s.expired)
  BY <1>2 DEF CheckExpiry
<1> QED
  BY <1>1, <1>2

\* The automatic logoff keeps Good, and what is under way if the FSD network
\* is connected.
LEMMA LogoffGood ==
    ASSUME NEW s, Good(s)
    PROVE  /\ Good(AutoLogoffWithoutFsdNetwork(s))
           /\ fsd /\ Work(s) => Work(AutoLogoffWithoutFsdNetwork(s))
<1> DEFINE m(k) == [s EXCEPT !.mismatches = k]
<1>1. ASSUME NEW k \in 0..1 PROVE Good(m(k)) /\ (Work(s) => Work(m(k)))
  BY <1>1 DEF Good, Afv, Work
<1> HIDE DEF m
<1>2. CASE ~s.connected \/ fsd
  BY <1>1, <1>2 DEF AutoLogoffWithoutFsdNetwork, m
<1>3. CASE s.connected /\ ~fsd /\ s.mismatches = 0
  BY <1>1, <1>3 DEF AutoLogoffWithoutFsdNetwork, m
<1>4. CASE s.connected /\ ~fsd /\ s.mismatches # 0
  BY <1>4, DisconnectGood DEF AutoLogoffWithoutFsdNetwork
<1> QED
  BY <1>2, <1>3, <1>4

\* The check of the heartbeat keeps Good and leaves work under way if there
\* was some: it disconnects only with a single shot that connects again.
LEMMA HeartbeatGood ==
    ASSUME NEW s, Good(s)
    PROVE  /\ Good(CheckServerHeartbeat(s))
           /\ Work(s) => Work(CheckServerHeartbeat(s))
<1> DEFINE f(k) == [s EXCEPT !.failures = k]
           r == [DisconnectFrom(s) EXCEPT !.resumes = @ + 1]
<1>1. ASSUME NEW k \in 0..2 PROVE Good(f(k)) /\ (Work(s) => Work(f(k)))
  BY <1>1 DEF Good, Afv, Work
<1>2. Good(DisconnectFrom(s))
  BY DisconnectGood
<1>3. Good(r) /\ Work(r)
  <2> DEFINE d == DisconnectFrom(s)
  <2> HIDE DEF d
  <2>1. Good(d)
    BY <1>2 DEF d
  <2> DEFINE e == [d EXCEPT !.resumes = @ + 1]
  <2>2. e \in Afv
    BY <2>1, Counters, Zenon DEF Good, Afv
  <2>3. e.connected = d.connected /\ e.beat = d.beat /\ e.channel = d.channel /\ e.resumes > 0
    BY <2>1 DEF Good, Afv
  <2>4. Good(e) /\ Work(e)
    BY <2>1, <2>2, <2>3 DEF Good, Work
  <2> QED
    BY <2>4 DEF d
<1>4. (IF s.failures < 2 THEN s.failures + 1 ELSE s.failures) \in 0..2 /\ 0 \in 0..2
  BY Counters DEF Good
<1> HIDE DEF f, r
<1>5. CASE ~s.started \/ ~s.connected
  BY <1>5 DEF CheckServerHeartbeat
<1>6. CASE s.started /\ s.connected /\ s.alive
  BY <1>1, <1>4, <1>6 DEF CheckServerHeartbeat, f
<1>7. CASE s.started /\ s.connected /\ ~s.alive /\ (s.failures = 0 \/ ~s.user)
  <2>1. CheckServerHeartbeat(s) = f(IF s.failures < 2 THEN s.failures + 1 ELSE s.failures)
    BY <1>7 DEF CheckServerHeartbeat, f
  <2> QED
    BY <2>1, <1>1, <1>4
<1>8. CASE s.started /\ s.connected /\ ~s.alive /\ ~(s.failures = 0 \/ ~s.user)
  BY <1>3, <1>8 DEF CheckServerHeartbeat, r
<1> QED
  BY <1>5, <1>6, <1>7, <1>8

\* OnTimerUpdate() keeps Good, and what is under way if the FSD network is
\* connected.
LEMMA UpdateGood ==
    ASSUME NEW s, Good(s)
    PROVE  /\ Good(OnTimerUpdate(s))
           /\ fsd /\ Work(s) => Work(OnTimerUpdate(s))
<1>1. Good(CheckExpiry(s)) /\ (Work(s) => Work(CheckExpiry(s)))
  BY ExpiryGood
<1>2. /\ Good(AutoLogoffWithoutFsdNetwork(CheckExpiry(s)))
      /\ fsd /\ Work(s) => Work(AutoLogoffWithoutFsdNetwork(CheckExpiry(s)))
  BY <1>1, LogoffGood
<1> QED
  BY <1>2, HeartbeatGood DEF OnTimerUpdate

\* The end of the callback keeps Good, keeps what is under way if the FSD
\* network is connected, and leaves something under way after a failure.
LEMMA FinishGood ==
    ASSUME NEW s, Good(s), NEW ok \in BOOLEAN
    PROVE  /\ Good(Finish(s, ok))
           /\ fsd /\ Work(s) => Work(Finish(s, ok))
           /\ ~ok => Work(Finish(s, ok))
<1> DEFINE t == OnTimerUpdate(s)
<1>1. Good(t) /\ (fsd /\ Work(s) => Work(t))
  BY UpdateGood
<1>2. Good(RetryConnectTo(t)) /\ Work(RetryConnectTo(t))
  BY <1>1, RetryGood
<1> HIDE DEF t
<1>3. CASE ok
  <2> DEFINE u == [t EXCEPT !.ticking = TRUE, !.retrying = FALSE, !.announced = TRUE]
  <2>1. u \in Afv
    BY <1>1, Zenon DEF Good, Afv
  <2>2. /\ u.connected = t.connected /\ u.beat = t.beat /\ u.channel = t.channel
        /\ u.logins = t.logins /\ u.reconnects = t.reconnects /\ u.resumes = t.resumes
    BY <1>1 DEF Good, Afv
  <2> HIDE DEF u
  <2>3. Good(u) /\ (Work(t) => Work(u))
    BY <1>1, <2>1, <2>2 DEF Good, Work
  <2> QED
    BY <1>1, <1>3, <2>3 DEF Finish, t, u
<1>4. CASE ~ok
  <2> DEFINE q == RetryConnectTo(t)
             u == [q EXCEPT !.announced = FALSE]
  <2> HIDE DEF q
  <2>1. u \in Afv
    BY <1>2, Zenon DEF Good, Afv, q
  <2>2. /\ u.connected = q.connected /\ u.beat = q.beat /\ u.channel = q.channel
        /\ u.logins = q.logins /\ u.reconnects = q.reconnects /\ u.resumes = q.resumes
    BY <1>2 DEF Good, Afv, q
  <2> HIDE DEF u
  <2>3. Good(u) /\ Work(u)
    BY <1>2, <2>1, <2>2 DEF Good, Work, q
  <2> QED
    BY <1>4, <2>3 DEF Finish, t, u, q
<1> QED
  BY <1>3, <1>4


(***************************************************************************)
(* The nested calls                                                        *)
(***************************************************************************)
\* The part of Trying that is in the nested calls
Nested(fr) == \E i \in DOMAIN fr : fr[i] \in {"addCallsign", "stationsFailed"}

\* Entering a nested call.
LEMMA Enter ==
    ASSUME NEW fr \in Seq(Frame), NEW f \in Frame
    PROVE  /\ <<f>> \o fr \in Seq(Frame)
           /\ Nested(fr) \/ f \in {"addCallsign", "stationsFailed"} => Nested(<<f>> \o fr)
<1> DEFINE g == <<f>> \o fr
<1>1. g \in Seq(Frame)
  BY ConcatProperties
<1>2. Len(g) = 1 + Len(fr) /\ g[1] = f /\ \A i \in 1..Len(fr) : g[1 + i] = fr[i]
  <2>1. Len(<<f>>) = 1 /\ <<f>>[1] = f /\ <<f>> \in Seq(Frame)
    OBVIOUS
  <2> QED
    BY <2>1, ConcatProperties
<1> HIDE DEF g
<1>3. ASSUME Nested(fr) PROVE Nested(g)
  <2>1. PICK i \in 1..Len(fr) : fr[i] \in {"addCallsign", "stationsFailed"}
    BY <1>3 DEF Nested
  <2>2. 1 + i \in 1..Len(g)
    BY <1>2
  <2>3. g[1 + i] \in {"addCallsign", "stationsFailed"}
    BY <1>2, <2>1
  <2> QED
    BY <1>1, <2>2, <2>3 DEF Nested
<1>4. ASSUME f \in {"addCallsign", "stationsFailed"} PROVE Nested(g)
  <2>1. 1 \in 1..Len(g)
    BY <1>2
  <2> QED
    BY <1>1, <1>2, <1>4, <2>1 DEF Nested
<1> QED
  BY <1>1, <1>3, <1>4 DEF g

\* Leaving the innermost call.
LEMMA Leave ==
    ASSUME NEW fr \in Seq(Frame), fr # <<>>
    PROVE  /\ Tail(fr) \in Seq(Frame) /\ Head(fr) \in Frame
           /\ Nested(fr) => \/ Head(fr) \in {"addCallsign", "stationsFailed"}
                            \/ Nested(Tail(fr))
<1>1. Tail(fr) \in Seq(Frame) /\ Head(fr) \in Frame /\ Head(fr) = fr[1]
  OBVIOUS
<1>2. Len(Tail(fr)) = Len(fr) - 1 /\ \A i \in 1..Len(fr) - 1 : Tail(fr)[i] = fr[i + 1]
  OBVIOUS
<1>3. ASSUME Nested(fr), Head(fr) \notin {"addCallsign", "stationsFailed"}
      PROVE  Nested(Tail(fr))
  <2>1. PICK i \in 1..Len(fr) : fr[i] \in {"addCallsign", "stationsFailed"}
    BY <1>3 DEF Nested
  <2>2. i # 1
    BY <1>1, <1>3, <2>1
  <2>3. i - 1 \in 1..Len(fr) - 1 /\ (i - 1) + 1 = i
    BY <2>1, <2>2
  <2>4. Tail(fr)[i - 1] = fr[i]
    BY <1>2, <2>3
  <2>5. i - 1 \in DOMAIN Tail(fr)
    BY <1>1, <1>2, <2>3
  <2>6. Tail(fr)[i - 1] \in {"addCallsign", "stationsFailed"}
    BY <2>1, <2>4
  <2> QED
    BY <2>5, <2>6, Zenon DEF Nested
<1> QED
  BY <1>1, <1>3

\* The empty sequence, and the last element of a queue after one is appended
\* or taken.
LEMMA QueueEnds ==
    ASSUME NEW S, NEW q \in Seq(S), NEW x \in S
    PROVE  /\ <<>> \in Seq(S)
           /\ Append(q, x) \in Seq(S) /\ Append(q, x) # <<>>
           /\ Append(q, x)[Len(Append(q, x))] = x
           /\ q # <<>> => /\ Head(q) \in S /\ Tail(q) \in Seq(S)
                          /\ Tail(q) = <<>> => Head(q) = q[Len(q)]
                          /\ Tail(q) # <<>> => Tail(q)[Len(Tail(q))] = q[Len(q)]
<1>1. Append(q, x) \in Seq(S) /\ Append(q, x)[Len(Append(q, x))] = x /\ Len(Append(q, x)) = Len(q) + 1
  BY AppendProperties
<1>2. Append(q, x) # <<>>
  BY <1>1
<1>3. ASSUME q # <<>>
      PROVE  /\ Head(q) \in S /\ Tail(q) \in Seq(S)
             /\ Tail(q) = <<>> => Head(q) = q[Len(q)]
             /\ Tail(q) # <<>> => Tail(q)[Len(Tail(q))] = q[Len(q)]
  <2>1. Head(q) \in S /\ Tail(q) \in Seq(S) /\ Len(q) \in Nat \ {0} /\ Head(q) = q[1]
    BY <1>3
  <2>2. Len(Tail(q)) = Len(q) - 1 /\ \A i \in 1..Len(q) - 1 : Tail(q)[i] = q[i + 1]
    BY <1>3
  <2>3. Tail(q) = <<>> => Len(q) = 1
    BY <2>1, <2>2
  <2>4. Tail(q) # <<>> => Len(q) - 1 \in 1..Len(q) - 1 /\ (Len(q) - 1) + 1 = Len(q)
    BY <2>1, <2>2
  <2> QED
    BY <2>1, <2>2, <2>3, <2>4
<1> QED
  BY <1>1, <1>2, <1>3

\* Trying in its two parts.
LEMMA TryingParts == Trying <=> Work(afv) \/ Nested(frames)
BY DEF Trying, Work, Nested

(***************************************************************************)
(* The inductive invariant                                                 *)
(***************************************************************************)
\* The last signal under way tells the state of the FSD network
LastSignal == calls # <<>> => (calls[Len(calls)] = "connectTo" <=> fsd)

VoiceInv == VoiceTypeOK /\ Good(afv) /\ LastSignal /\ AlwaysTrying

\* The callback of a login keeps Good; it leaves something under way if there
\* was, while the FSD network is connected, and after every failure.
LEMMA CallbackKeeps ==
    ASSUME NEW s, Good(s), NEW ok \in BOOLEAN, NEW below \in Seq(Frame),
           Callback(s, ok, below)
    PROVE  /\ Good(afv') /\ frames' \in Seq(Frame)
           /\ (fsd /\ (Work(s) \/ Nested(below))) \/ ~ok => Work(afv') \/ Nested(frames')
<1>1. CASE s.auth
  <2> DEFINE f == IF ok THEN "stationsConnected" ELSE "stationsFailed"
  <2>1. f \in Frame /\ (~ok => f \in {"addCallsign", "stationsFailed"})
    BY DEF Frame
  <2>2. afv' = CheckExpiry(s) /\ frames' = <<f>> \o below
    BY <1>1 DEF Callback
  <2> HIDE DEF f
  <2>3. frames' \in Seq(Frame) /\ (Nested(below) \/ ~ok => Nested(frames'))
    BY <2>1, <2>2, Enter
  <2> QED
    BY <2>2, <2>3, ExpiryGood
<1>2. CASE ~s.auth
  <2>1. afv' = Finish(s, ok) /\ frames' = below
    BY <1>2 DEF Callback
  <2> QED
    BY <2>1, FinishGood
<1> QED
  BY <1>1, <1>2

\* The reply to a login keeps Good and leaves something under way.
LEMMA AuthenticatedKeeps ==
    ASSUME NEW s, Good(s), NEW ok \in BOOLEAN, frames \in Seq(Frame), Authenticated(s, ok)
    PROVE  /\ Good(afv') /\ frames' \in Seq(Frame)
           /\ Work(afv') \/ Nested(frames')
<1>1. CASE ok
  <2>1. afv' = CheckExpiry(s) /\ frames' = <<"addCallsign">> \o frames
    BY <1>1 DEF Authenticated
  <2>2. "addCallsign" \in Frame
    BY DEF Frame
  <2> QED
    BY <2>1, <2>2, Enter, ExpiryGood
<1>2. CASE ~ok
  <2> DEFINE q == Reset(s)
             t == [q EXCEPT !.connected = FALSE]
  <2>1. Callback(t, FALSE, frames)
    BY <1>2 DEF Authenticated
  <2>2. Good(q)
    BY ResetGood
  <2> HIDE DEF q
  <2>3. t \in Afv
    BY <2>2, Zenon DEF Good, Afv
  <2>4. t.connected = FALSE /\ t.beat = q.beat /\ t.channel = q.channel
    BY <2>2 DEF Good, Afv
  <2>5. Good(t)
    BY <2>2, <2>3, <2>4 DEF Good
  <2> HIDE DEF t
  <2> QED
    BY <2>1, <2>5, CallbackKeeps
<1> QED
  BY <1>1, <1>2

\* VoiceInv holds in every reachable state.
THEOREM VoiceInvariant == VoiceSpec => []VoiceInv
<1>1. VoiceInit => VoiceInv
  <2> SUFFICES ASSUME VoiceInit PROVE VoiceInv
    OBVIOUS
  <2>1. afv \in Afv
    BY DEF VoiceInit, Afv
  <2>2. fsd \in BOOLEAN /\ calls \in Seq(Call) /\ frames \in Seq(Frame) /\ sessions \in 0..MaxSessions
    <3>1. calls = <<>> /\ frames = <<>> /\ fsd \in BOOLEAN
      BY DEF VoiceInit
    <3>2. calls \in Seq(Call)
      BY <3>1
    <3>3. frames \in Seq(Frame)
      BY <3>1
    <3>4. sessions \in 0..MaxSessions
      BY VoiceBounds DEF VoiceInit
    <3> QED
      BY <3>1, <3>2, <3>3, <3>4
  <2>3. Good(afv)
    BY <2>1 DEF Good, VoiceInit
  <2> QED
    BY <2>1, <2>2, <2>3 DEF VoiceInv, VoiceTypeOK, LastSignal, AlwaysTrying, VoiceInit
<1>2. VoiceInv /\ [VoiceNext]_voiceVars => VoiceInv'
  <2> SUFFICES ASSUME VoiceInv, [VoiceNext]_voiceVars PROVE VoiceInv'
    OBVIOUS
  <2>1. /\ fsd \in BOOLEAN /\ sessions \in 0..MaxSessions /\ calls \in Seq(Call)
        /\ frames \in Seq(Frame) /\ afv \in Afv /\ Good(afv) /\ LastSignal
        /\ fsd /\ calls = <<>> => Work(afv) \/ Nested(frames)
    BY TryingParts DEF VoiceInv, VoiceTypeOK, AlwaysTrying
  \* A step that leaves the signals alone keeps the invariant if it keeps
  \* Good and what is under way while the FSD network is connected
  <2>2. ASSUME UNCHANGED <<fsd, sessions, calls>>, Good(afv'), frames' \in Seq(Frame),
               fsd /\ (Work(afv) \/ Nested(frames)) => Work(afv') \/ Nested(frames')
        PROVE  VoiceInv'
    <3>1. Trying' <=> Work(afv') \/ Nested(frames')
      BY DEF Trying, Work, Nested
    <3>2. VoiceTypeOK' /\ LastSignal'
      BY <2>1, <2>2 DEF VoiceTypeOK, LastSignal, Good
    <3>3. AlwaysTrying'
      BY <2>1, <2>2, <3>1 DEF AlwaysTrying
    <3> QED
      BY <2>2, <3>2, <3>3 DEF VoiceInv
  <2>3. ASSUME NEW t, t \in Afv, afv' = t, UNCHANGED <<fsd, sessions, calls, frames>>,
               t.connected = afv.connected, t.beat = afv.beat, t.channel = afv.channel,
               t.logins = afv.logins, t.reconnects = afv.reconnects, t.resumes = afv.resumes
        PROVE  VoiceInv'
    <3>1. Good(afv') /\ (Work(afv) => Work(afv'))
      BY <2>1, <2>3 DEF Good, Work
    <3> QED
      BY <2>1, <2>2, <2>3, <3>1 DEF Nested
  <2>4. CASE FsdConnects
    <3>1. /\ calls' \in Seq(Call) /\ calls' # <<>> /\ calls'[Len(calls')] = "connectTo"
          /\ fsd' = TRUE /\ sessions' \in 0..MaxSessions /\ UNCHANGED <<frames, afv>>
      <4>1. calls' = Append(calls, "connectTo") /\ fsd' = TRUE /\ UNCHANGED <<frames, afv>>
        BY <2>4 DEF FsdConnects
      <4>2. sessions' \in 0..MaxSessions
        BY <2>1, <2>4, VoiceBounds DEF FsdConnects
      <4>3. calls' \in Seq(Call) /\ calls' # <<>> /\ calls'[Len(calls')] = "connectTo"
        BY <2>1, <4>1, QueueEnds DEF Call
      <4> QED
        BY <4>1, <4>2, <4>3
    <3> QED
      BY <2>1, <3>1 DEF VoiceInv, VoiceTypeOK, LastSignal, AlwaysTrying, Good
  <2>5. CASE FsdDisconnects
    <3>1. /\ calls' \in Seq(Call) /\ calls' # <<>> /\ calls'[Len(calls')] = "disconnectFrom"
          /\ fsd' = FALSE /\ UNCHANGED <<sessions, frames, afv>>
      <4>1. calls' = Append(calls, "disconnectFrom") /\ fsd' = FALSE /\ UNCHANGED <<sessions, frames, afv>>
        BY <2>5 DEF FsdDisconnects
      <4>2. calls' \in Seq(Call) /\ calls' # <<>> /\ calls'[Len(calls')] = "disconnectFrom"
        BY <2>1, <4>1, QueueEnds DEF Call
      <4> QED
        BY <4>1, <4>2
    <3> QED
      BY <2>1, <3>1 DEF VoiceInv, VoiceTypeOK, LastSignal, AlwaysTrying, Good
  <2>6. CASE HandlePosted
    <3>1. /\ calls # <<>> /\ calls' = Tail(calls) /\ UNCHANGED <<fsd, sessions, frames>>
          /\ Head(calls) \in Call /\ calls' \in Seq(Call)
      <4>1. calls # <<>> /\ calls' = Tail(calls) /\ UNCHANGED <<fsd, sessions, frames>>
        BY <2>6 DEF HandlePosted
      <4>2. Head(calls) \in Call /\ calls' \in Seq(Call)
        BY <2>1, <4>1, QueueEnds DEF Call
      <4> QED
        BY <4>1, <4>2
    <3>2. LastSignal' /\ (calls' = <<>> => (Head(calls) = "connectTo" <=> fsd))
      <4>1. (calls[Len(calls)] = "connectTo" <=> fsd)
        BY <2>1, <3>1 DEF LastSignal
      <4>2. /\ calls' = <<>> => Head(calls) = calls[Len(calls)]
            /\ calls' # <<>> => calls'[Len(calls')] = calls[Len(calls)]
        BY <2>1, <3>1, QueueEnds DEF Call
      <4> QED
        BY <3>1, <4>1, <4>2 DEF LastSignal
    <3>3. Good(afv') /\ (Head(calls) = "connectTo" => Work(afv'))
      <4>1. CASE Head(calls) = "connectTo"
        BY <2>1, <2>6, <4>1, ConnectGood DEF HandlePosted
      <4>2. CASE Head(calls) # "connectTo"
        BY <2>1, <2>6, <4>2, DisconnectGood DEF HandlePosted
      <4> QED
        BY <4>1, <4>2
    <3>4. Trying' <=> Work(afv') \/ Nested(frames')
      BY DEF Trying, Work, Nested
    <3>5. AlwaysTrying'
      BY <3>1, <3>2, <3>3, <3>4 DEF AlwaysTrying
    <3>6. VoiceTypeOK'
      BY <2>1, <3>1, <3>3 DEF VoiceTypeOK, Good
    <3> QED
      BY <3>2, <3>3, <3>5, <3>6 DEF VoiceInv
  <2>7. CASE StartAudio
    <3> DEFINE u == OnTimerUpdate(afv)
               t == [u EXCEPT !.ticking = TRUE, !.started = TRUE]
    <3>1. afv' = OnTimerUpdate(t) /\ UNCHANGED <<fsd, sessions, calls, frames>>
      BY <2>7 DEF StartAudio
    <3>2. Good(u) /\ (fsd /\ Work(afv) => Work(u))
      BY <2>1, UpdateGood
    <3> HIDE DEF u
    <3>3. t \in Afv
      BY <3>2, Zenon DEF Good, Afv
    <3>4. /\ t.connected = u.connected /\ t.beat = u.beat /\ t.channel = u.channel
          /\ t.logins = u.logins /\ t.reconnects = u.reconnects /\ t.resumes = u.resumes
      BY <3>2 DEF Good, Afv
    <3> HIDE DEF t
    <3>5. Good(t) /\ (Work(u) => Work(t))
      BY <3>2, <3>3, <3>4 DEF Good, Work
    <3>6. Good(afv') /\ (fsd /\ Work(afv) => Work(afv'))
      BY <3>1, <3>2, <3>5, UpdateGood
    <3> QED
      BY <2>1, <2>2, <3>1, <3>6
  <2>8. CASE StopAudio
    <3> DEFINE t == [afv EXCEPT !.started = FALSE]
    <3>1. t \in Afv
      BY <2>1, Zenon DEF Afv
    <3>2. /\ t.connected = afv.connected /\ t.beat = afv.beat /\ t.channel = afv.channel
          /\ t.logins = afv.logins /\ t.reconnects = afv.reconnects /\ t.resumes = afv.resumes
      BY <2>1 DEF Afv
    <3>3. afv' = t /\ UNCHANGED <<fsd, sessions, calls, frames>>
      BY <2>8 DEF StopAudio
    <3> HIDE DEF t
    <3> QED
      BY <2>3, <3>1, <3>2, <3>3
  <2>9. CASE Silence
    <3> DEFINE t == [afv EXCEPT !.alive = FALSE]
    <3>1. t \in Afv
      BY <2>1, Zenon DEF Afv
    <3>2. /\ t.connected = afv.connected /\ t.beat = afv.beat /\ t.channel = afv.channel
          /\ t.logins = afv.logins /\ t.reconnects = afv.reconnects /\ t.resumes = afv.resumes
      BY <2>1 DEF Afv
    <3>3. afv' = t /\ UNCHANGED <<fsd, sessions, calls, frames>>
      BY <2>9 DEF Silence
    <3> HIDE DEF t
    <3> QED
      BY <2>3, <3>1, <3>2, <3>3
  <2>10. CASE HeartbeatAck
    <3> DEFINE t == [afv EXCEPT !.alive = TRUE]
    <3>1. t \in Afv
      BY <2>1, Zenon DEF Afv
    <3>2. /\ t.connected = afv.connected /\ t.beat = afv.beat /\ t.channel = afv.channel
          /\ t.logins = afv.logins /\ t.reconnects = afv.reconnects /\ t.resumes = afv.resumes
      BY <2>1 DEF Afv
    <3>3. afv' = t /\ UNCHANGED <<fsd, sessions, calls, frames>>
      BY <2>10 DEF HeartbeatAck
    <3> HIDE DEF t
    <3> QED
      BY <2>3, <3>1, <3>2, <3>3
  <2>11. CASE TokenExpires
    <3> DEFINE t == [afv EXCEPT !.expired = TRUE]
    <3>1. t \in Afv
      BY <2>1, Zenon DEF Afv
    <3>2. /\ t.connected = afv.connected /\ t.beat = afv.beat /\ t.channel = afv.channel
          /\ t.logins = afv.logins /\ t.reconnects = afv.reconnects /\ t.resumes = afv.resumes
      BY <2>1 DEF Afv
    <3>3. afv' = t /\ UNCHANGED <<fsd, sessions, calls, frames>>
      BY <2>11 DEF TokenExpires
    <3> HIDE DEF t
    <3> QED
      BY <2>3, <3>1, <3>2, <3>3
  <2>12. CASE LoginSucceeds
    <3> DEFINE t == [afv EXCEPT !.logins = @ - 1, !.auth = TRUE, !.expired = FALSE]
    <3>1. afv.logins > 0 /\ Authenticated(t, TRUE) /\ UNCHANGED <<fsd, sessions, calls>>
      BY <2>12 DEF LoginSucceeds
    <3>2. t \in Afv
      BY <2>1, <3>1, Counters, Zenon DEF Afv
    <3>3. t.connected = afv.connected /\ t.beat = afv.beat /\ t.channel = afv.channel
      BY <2>1 DEF Afv
    <3>4. Good(t)
      BY <2>1, <3>2, <3>3 DEF Good
    <3> HIDE DEF t
    <3>5. TRUE \in BOOLEAN
      BY <2>1, Zenon DEF Afv
    <3> QED
      BY <2>1, <2>2, <3>1, <3>4, <3>5, AuthenticatedKeeps
  <2>13. CASE LoginInvalid
    <3> DEFINE t == [afv EXCEPT !.logins = @ - 1, !.expired = TRUE]
    <3>1. afv.logins > 0 /\ Authenticated(t, afv.auth) /\ UNCHANGED <<fsd, sessions, calls>>
      BY <2>13 DEF LoginInvalid
    <3>2. t \in Afv
      BY <2>1, <3>1, Counters, Zenon DEF Afv
    <3>3. t.connected = afv.connected /\ t.beat = afv.beat /\ t.channel = afv.channel
      BY <2>1 DEF Afv
    <3>4. Good(t)
      BY <2>1, <3>2, <3>3 DEF Good
    <3> HIDE DEF t
    <3>5. afv.auth \in BOOLEAN
      BY <2>1, Zenon DEF Afv
    <3> QED
      BY <2>1, <2>2, <3>1, <3>4, <3>5, AuthenticatedKeeps
  <2>14. CASE LoginFails
    <3> DEFINE t == [afv EXCEPT !.logins = @ - 1]
    <3>1. afv.logins > 0 /\ Authenticated(t, FALSE) /\ UNCHANGED <<fsd, sessions, calls>>
      BY <2>14 DEF LoginFails
    <3>2. t \in Afv
      BY <2>1, <3>1, Counters, Zenon DEF Afv
    <3>3. t.connected = afv.connected /\ t.beat = afv.beat /\ t.channel = afv.channel
      BY <2>1 DEF Afv
    <3>4. Good(t)
      BY <2>1, <3>2, <3>3 DEF Good
    <3> HIDE DEF t
    <3>5. FALSE \in BOOLEAN
      BY <2>1, Zenon DEF Afv
    <3> QED
      BY <2>1, <2>2, <3>1, <3>4, <3>5, AuthenticatedKeeps
  <2>15. CASE AddCallsignReturns
    <3> DEFINE t == [afv EXCEPT !.channel = TRUE, !.alive = TRUE, !.beat = TRUE, !.connected = TRUE]
    <3>1. /\ frames # <<>> /\ Callback(t, TRUE, Tail(frames)) /\ UNCHANGED <<fsd, sessions, calls>>
      BY <2>15 DEF AddCallsignReturns
    <3>2. t \in Afv
      BY <2>1, Zenon DEF Afv
    <3>3. t.connected /\ t.beat /\ t.channel
      BY <2>1, Zenon DEF Afv
    <3>4. Good(t) /\ Work(t)
      BY <3>2, <3>3 DEF Good, Work
    <3> HIDE DEF t
    <3>5. Tail(frames) \in Seq(Frame)
      BY <2>1, <3>1, Leave
    <3>6. /\ Good(afv') /\ frames' \in Seq(Frame)
          /\ fsd => Work(afv') \/ Nested(frames')
      BY <3>1, <3>4, <3>5, CallbackKeeps
    <3> QED
      BY <2>2, <3>1, <3>6
  <2>16. CASE StationsReturn
    <3> DEFINE ok == Head(frames) = "stationsConnected"
    <3>1. /\ frames # <<>> /\ Head(frames) \in {"stationsConnected", "stationsFailed"}
          /\ afv' = Finish(afv, ok) /\ frames' = Tail(frames) /\ UNCHANGED <<fsd, sessions, calls>>
      BY <2>16 DEF StationsReturn
    <3>2. Head(frames) \in {"addCallsign", "stationsFailed"} => ~ok
      BY <3>1
    <3>3. frames' \in Seq(Frame) /\ (Nested(frames) => ~ok \/ Nested(frames'))
      BY <2>1, <3>1, <3>2, Leave
    <3>4. ok \in BOOLEAN
      OBVIOUS
    <3> HIDE DEF ok
    <3>5. /\ Good(afv') /\ (fsd /\ Work(afv) => Work(afv'))
          /\ ~ok => Work(afv')
      BY <2>1, <3>1, <3>4, FinishGood
    <3> QED
      BY <2>2, <3>1, <3>3, <3>5
  <2>17. CASE RenewalReplies
    <3> DEFINE a == [afv EXCEPT !.renewals = @ - 1, !.auth = TRUE, !.expired = FALSE]
               b == [afv EXCEPT !.renewals = @ - 1, !.expired = TRUE]
               c == [afv EXCEPT !.renewals = @ - 1]
    <3>1. afv.renewals > 0 /\ (afv' = a \/ afv' = b \/ afv' = c)
          /\ UNCHANGED <<fsd, sessions, calls, frames>>
      BY <2>17 DEF RenewalReplies
    <3>2. a \in Afv /\ b \in Afv /\ c \in Afv
      BY <2>1, <3>1, Counters, Zenon DEF Afv
    <3>3. ASSUME NEW t \in {a, b, c}
          PROVE  /\ t.connected = afv.connected /\ t.beat = afv.beat /\ t.channel = afv.channel
                 /\ t.logins = afv.logins /\ t.reconnects = afv.reconnects /\ t.resumes = afv.resumes
      BY <2>1, <3>3 DEF Afv
    <3> HIDE DEF a, b, c
    <3> QED
      BY <2>3, <3>1, <3>2, <3>3
  <2>18. CASE CheckFires
    <3> DEFINE t == [afv EXCEPT !.checks = @ - 1]
    <3>1. /\ afv.checks > 0 /\ afv' = (IF t.retrying THEN t ELSE RetryConnectTo(t))
          /\ UNCHANGED <<fsd, sessions, calls, frames>>
      BY <2>18 DEF CheckFires
    <3>2. t \in Afv
      BY <2>1, <3>1, Counters, Zenon DEF Afv
    <3>3. /\ t.connected = afv.connected /\ t.beat = afv.beat /\ t.channel = afv.channel
          /\ t.logins = afv.logins /\ t.reconnects = afv.reconnects /\ t.resumes = afv.resumes
      BY <2>1 DEF Afv
    <3> HIDE DEF t
    <3>4. Good(t) /\ (Work(afv) => Work(t))
      BY <2>1, <3>2, <3>3 DEF Good, Work
    <3>5. Good(afv') /\ (Work(afv) => Work(afv'))
      BY <3>1, <3>4, RetryGood
    <3> QED
      BY <2>1, <2>2, <3>1, <3>5
  <2>19. CASE ReconnectFires
    <3> DEFINE t == [afv EXCEPT !.reconnects = @ - 1]
    <3>1. afv.reconnects > 0 /\ afv' = ConnectTo(t) /\ UNCHANGED <<fsd, sessions, calls, frames>>
      BY <2>19 DEF ReconnectFires
    <3>2. t \in Afv
      BY <2>1, <3>1, Counters, Zenon DEF Afv
    <3>3. t.connected = afv.connected /\ t.beat = afv.beat /\ t.channel = afv.channel
      BY <2>1 DEF Afv
    <3>4. Good(t)
      BY <2>1, <3>2, <3>3 DEF Good
    <3> HIDE DEF t
    <3> QED
      BY <2>1, <2>2, <3>1, <3>4, ConnectGood
  <2>20. CASE ResumeFires
    <3> DEFINE t == [afv EXCEPT !.resumes = @ - 1]
    <3>1. afv.resumes > 0 /\ afv' = RetryConnectTo(t) /\ UNCHANGED <<fsd, sessions, calls, frames>>
      BY <2>20 DEF ResumeFires
    <3>2. t \in Afv
      BY <2>1, <3>1, Counters, Zenon DEF Afv
    <3>3. t.connected = afv.connected /\ t.beat = afv.beat /\ t.channel = afv.channel
      BY <2>1 DEF Afv
    <3>4. Good(t)
      BY <2>1, <3>2, <3>3 DEF Good
    <3> HIDE DEF t
    <3> QED
      BY <2>1, <2>2, <3>1, <3>4, RetryGood
  <2>21. CASE TimerUpdate
    <3>1. afv' = OnTimerUpdate(afv) /\ UNCHANGED <<fsd, sessions, calls, frames>>
      BY <2>21 DEF TimerUpdate
    <3> QED
      BY <2>1, <2>2, <3>1, UpdateGood
  <2>22. CASE OwnAircraftChanges
    <3>1. afv' = CheckExpiry(afv) /\ UNCHANGED <<fsd, sessions, calls, frames>>
      BY <2>22 DEF OwnAircraftChanges
    <3> QED
      BY <2>1, <2>2, <3>1, ExpiryGood
  <2>23. CASE UNCHANGED voiceVars
    BY <2>1, <2>2, <2>23 DEF voiceVars
  <2> QED
    BY <2>4, <2>5, <2>6, <2>7, <2>8, <2>9, <2>10, <2>11, <2>12, <2>13, <2>14, <2>15, <2>16,
       <2>17, <2>18, <2>19, <2>20, <2>21, <2>22, <2>23 DEF VoiceNext
<1> QED
  BY <1>1, <1>2, PTL DEF VoiceSpec

\* The state of the voice client keeps its types.
THEOREM VoiceTypes == VoiceSpec => []VoiceTypeOK
<1>1. VoiceInv => VoiceTypeOK
  BY DEF VoiceInv
<1> QED
  BY <1>1, VoiceInvariant, PTL

\* Heartbeats are sent with a crypto channel, and by every connected client.
THEOREM VoiceBeats == VoiceSpec => []ConnectedBeats
<1>1. VoiceInv => ConnectedBeats
  BY DEF VoiceInv, Good, ConnectedBeats
<1> QED
  BY <1>1, VoiceInvariant, PTL

\* While the FSD network is connected, the voice client is connected or an
\* attempt to connect is under way.
THEOREM VoiceTries == VoiceSpec => []AlwaysTrying
<1>1. VoiceInv => AlwaysTrying
  BY DEF VoiceInv
<1> QED
  BY <1>1, VoiceInvariant, PTL
=============================================================================
