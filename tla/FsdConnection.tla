---------------------------- MODULE FsdConnection ----------------------------
(***************************************************************************)
(* The connection of CFSDClient (src/blackcore/fsd/fsdclient.cpp) to a     *)
(* network server.  The network context runs in the main thread: it looks  *)
(* at the status and posts connectToServer() or disconnectFromServer() to  *)
(* the client's thread.  That thread handles posted calls, socket signals, *)
(* messages of the server, replies of the token service and timers one by  *)
(* one, so each of these is one action.                                    *)
(*                                                                         *)
(* A connection has a number.  Results that belong to an earlier           *)
(* connection (a token, the socket of a server switch) carry its number,   *)
(* which the code does not keep: it applies them to whatever is there.     *)
(***************************************************************************)
EXTENDS Integers, Sequences, FiniteSets

CONSTANTS Timeout,      \* PendingConnectionTimeoutMs, in ticks
          CheckAfter,   \* delay of the check, 1.25 times the timeout
          MaxAttempts,  \* bound: connections
          MaxPosted,    \* bound: calls on the way to the client's thread
          MaxQueue      \* bound: queued messages when a position is added

ASSUME TimeAssumption == Timeout \in Nat \ {0} /\ CheckAfter \in Nat /\ Timeout <= CheckAfter
ASSUME BoundAssumption == MaxAttempts \in Nat /\ MaxPosted \in Nat /\ MaxQueue \in Nat

VARIABLES status,     \* m_connectionStatus; Disconnecting does not outlast a step
          socket,     \* m_socket: closed, or open in one of the other states
          switched,   \* m_socket was made by handleRehost(), whose lambdas stay connected to it
          newSocket,  \* the connection whose rehost socket is connecting, 0 for none
          rehosting,  \* m_rehosting
          server,     \* m_server: kind of the server, as setServer() left it
          greeted,    \* the server has sent its identification
          tokens,     \* connections with a request at the token service
          posted,     \* events in the queue of the client's thread
          queue,      \* m_queuedFsdMessages
          timers,     \* the position and send timers run
          age,        \* time since m_loginSince, -1 if that is -1
          checks,     \* times left of the single shot timers of connectToServer()
          attempt,    \* number of the connection
          late        \* a result of an earlier connection was applied

connVars == <<status, socket, rehosting, queue, timers, age>>
vars == <<connVars, switched, newSocket, server, greeted, tokens, posted, checks, attempt, late>>

\* classic: no identification; token: VATSIM, login with a token; plain: identification only
Server == {"classic", "token", "plain"}

Message == [kind : {"ident", "login", "position"}, attempt : 0..MaxAttempts]

TypeOK ==
    /\ status \in {"Disconnected", "Connecting", "Connected"}
    /\ socket \in {"closed", "connecting", "connected", "failed", "lost", "deleted"}
    /\ switched \in BOOLEAN
    /\ newSocket \in 0..MaxAttempts
    /\ rehosting \in BOOLEAN
    /\ server \in Server
    /\ greeted \in BOOLEAN
    /\ tokens \subseteq 1..MaxAttempts
    /\ posted \in Seq({"connect", "disconnect", "closedError"})
    /\ queue \in Seq(Message)
    /\ timers \in BOOLEAN
    /\ age \in -1..CheckAfter
    /\ checks \subseteq 0..CheckAfter
    /\ attempt \in 0..MaxAttempts
    /\ late \in BOOLEAN

Init ==
    /\ status = "Disconnected"
    /\ socket = "closed"
    /\ switched = FALSE
    /\ newSocket = 0
    /\ rehosting = FALSE
    /\ server \in Server
    /\ greeted = FALSE
    /\ tokens = {}
    /\ posted = <<>>
    /\ queue = <<>>
    /\ timers = FALSE
    /\ age = -1
    /\ checks = {}
    /\ attempt = 0
    /\ late = FALSE

-----------------------------------------------------------------------------
(* Parts of the handlers *)

\* A message of the current connection, or of connection a.
MessageOf(k, a) == [kind |-> k, attempt |-> a]

\* The part of clearState() that is modelled; connectToServer() sets m_loginSince after it.
ClearStateKeepsQueue(since) ==   \* mutant
    /\ rehosting' = FALSE
    /\ queue' = queue
    /\ age' = since

ClearState(since) ==
    /\ rehosting' = FALSE
    /\ queue' = <<>>
    /\ age' = since

\* updateConnectionStatus(Disconnected) for a status that is not
BecomeDisconnectedTimersOn ==   \* mutant
    /\ status' = "Disconnected"
    /\ timers' = timers
    /\ ClearState(-1)

BecomeDisconnected ==
    /\ status' = "Disconnected"
    /\ timers' = FALSE
    /\ ClearState(-1)

\* disconnectFromServer() in the client's thread.  The message that deletes the pilot
\* is queued and cleared again.  A socket that connects for a rehost is not touched.
DisconnectFromServer ==
    /\ BecomeDisconnected
    /\ socket' = "closed"

\* An error or a new connection of a socket made by handleRehost() runs the lambdas
\* again, which delete it under m_socket; nothing is said of the program after that.
Deleted ==
    /\ socket' = "deleted"
    /\ UNCHANGED <<status, rehosting, queue, timers, age, posted>>

Alive == socket # "deleted"

-----------------------------------------------------------------------------
(* The network context, in the main thread *)

\* connectToNetwork(): checks, setServer(), connectToServer() of another thread
AskConnect(k) ==
    /\ Alive
    /\ status = "Disconnected"
    /\ Len(posted) < MaxPosted
    /\ server' = k
    /\ posted' = Append(posted, "connect")
    /\ UNCHANGED <<connVars, switched, newSocket, greeted, tokens, checks, attempt, late>>

\* disconnectFromNetwork()
AskDisconnect ==
    /\ Alive
    /\ status # "Disconnected"
    /\ Len(posted) < MaxPosted
    /\ posted' = Append(posted, "disconnect")
    /\ UNCHANGED <<connVars, switched, newSocket, server, greeted, tokens, checks, attempt, late>>

-----------------------------------------------------------------------------
(* Posted calls, in the client's thread *)

\* connectToServer() does nothing while the socket is open.
ConnectIgnored ==
    /\ Alive
    /\ posted # <<>> /\ Head(posted) = "connect"
    /\ socket # "closed"
    /\ posted' = Tail(posted)
    /\ UNCHANGED <<connVars, switched, newSocket, server, greeted, tokens, checks, attempt, late>>

ConnectToServerUnwatched ==   \* mutant: the check is set up for the first connection only
    /\ Alive
    /\ posted # <<>> /\ Head(posted) = "connect"
    /\ socket = "closed"
    /\ attempt < MaxAttempts
    /\ posted' = Tail(posted)
    /\ attempt' = attempt + 1
    /\ ClearState(0)
    /\ checks' = IF attempt = 0 THEN {CheckAfter} ELSE checks
    /\ status' = "Connecting"
    /\ socket' = "connecting"
    /\ greeted' = FALSE
    /\ timers' = TRUE
    /\ UNCHANGED <<switched, newSocket, server, tokens, late>>

ConnectToServer ==
    /\ Alive
    /\ posted # <<>> /\ Head(posted) = "connect"
    /\ socket = "closed"
    /\ attempt < MaxAttempts
    /\ posted' = Tail(posted)
    /\ attempt' = attempt + 1
    /\ ClearState(0)
    /\ checks' = checks \cup {CheckAfter}
    /\ status' = "Connecting"
    /\ socket' = "connecting"
    /\ greeted' = FALSE
    /\ timers' = TRUE
    /\ UNCHANGED <<switched, newSocket, server, tokens, late>>

RunDisconnect ==
    /\ Alive
    /\ posted # <<>> /\ Head(posted) = "disconnect"
    /\ posted' = Tail(posted)
    /\ DisconnectFromServer
    /\ UNCHANGED <<switched, newSocket, server, greeted, tokens, checks, attempt, late>>

\* handleSocketError(RemoteHostClosedError), a queued signal
HandleSocketErrorSilently ==   \* mutant: the socket is closed without disconnectFromServer()
    /\ Alive
    /\ posted # <<>> /\ Head(posted) = "closedError"
    /\ posted' = Tail(posted)
    /\ socket' = IF rehosting THEN socket ELSE "closed"
    /\ UNCHANGED <<status, rehosting, queue, timers, age, switched, newSocket, server, greeted, tokens,
                   checks, attempt, late>>

HandleSocketError ==
    /\ Alive
    /\ posted # <<>> /\ Head(posted) = "closedError"
    /\ posted' = Tail(posted)
    /\ IF rehosting THEN UNCHANGED connVars ELSE DisconnectFromServer
    /\ UNCHANGED <<switched, newSocket, server, greeted, tokens, checks, attempt, late>>

-----------------------------------------------------------------------------
(* The socket *)

\* connected: handleSocketConnected(), a direct signal.
HandleSocketConnected ==
    /\ socket = "connecting"
    /\ IF switched
       THEN Deleted
       ELSE /\ socket' = "connected"
            /\ IF server = "classic"
               THEN /\ status' = "Connected"
                    /\ queue' = Append(queue, MessageOf("login", attempt))
               ELSE UNCHANGED <<status, queue>>
            /\ UNCHANGED <<rehosting, timers, age, posted>>
    /\ UNCHANGED <<switched, newSocket, server, greeted, tokens, checks, attempt, late>>

\* errorOccurred other than by a remote close, which handleSocketError() ignores:
\* the socket stays open.
SocketFails ==
    /\ socket \in {"connecting", "connected"}
    /\ IF switched
       THEN Deleted
       ELSE /\ socket' = "failed"
            /\ UNCHANGED <<status, rehosting, queue, timers, age, posted>>
    /\ UNCHANGED <<switched, newSocket, server, greeted, tokens, checks, attempt, late>>

\* The server closes the connection; the error is a queued signal.
RemoteCloses ==
    /\ socket = "connected"
    /\ Len(posted) < MaxPosted
    /\ IF switched
       THEN Deleted
       ELSE /\ socket' = "lost"
            /\ posted' = Append(posted, "closedError")
            /\ UNCHANGED <<status, rehosting, queue, timers, age>>
    /\ UNCHANGED <<switched, newSocket, server, greeted, tokens, checks, attempt, late>>

-----------------------------------------------------------------------------
(* Messages of the server *)

\* handleFsdIdentification() and sendClientIdentification(): the login follows at once
\* or when there is a token.
HandleFsdIdentification ==
    /\ socket = "connected"
    /\ ~ greeted
    /\ greeted' = TRUE
    /\ \/ /\ server = "classic"
          /\ DisconnectFromServer
          /\ UNCHANGED tokens
       \/ /\ server = "token"
          /\ queue' = Append(queue, MessageOf("ident", attempt))
          /\ tokens' = tokens \cup {attempt}
          /\ UNCHANGED <<status, socket, rehosting, timers, age>>
       \/ /\ server = "plain"
          /\ queue' = queue \o << MessageOf("ident", attempt), MessageOf("login", attempt) >>
          /\ status' = "Connected"
          /\ UNCHANGED <<socket, rehosting, timers, age, tokens>>
    /\ UNCHANGED <<switched, newSocket, server, posted, checks, attempt, late>>

\* A kill request, a fatal error or a wrong answer to the authentication challenge.
ServerDisconnects ==
    /\ socket = "connected"
    /\ DisconnectFromServer
    /\ UNCHANGED <<switched, newSocket, server, greeted, tokens, posted, checks, attempt, late>>

\* handleRehost() of a server the client is logged in to (one at a time).
HandleRehost ==
    /\ socket = "connected"
    /\ status = "Connected"
    /\ newSocket = 0
    /\ rehosting' = TRUE
    /\ newSocket' = attempt
    /\ UNCHANGED <<status, socket, queue, timers, age, switched, server, greeted, tokens,
                   posted, checks, attempt, late>>

\* Something of connection a happens when that is no longer the one.
Outdated(a, st) == a # attempt \/ status \notin st

\* The new socket is connected and replaces the old one; the new server does not greet.
RehostConnected ==
    /\ Alive
    /\ newSocket # 0
    /\ late' = (late \/ Outdated(newSocket, {"Connected"}))
    /\ newSocket' = 0
    /\ socket' = "connected"
    /\ switched' = TRUE
    /\ rehosting' = FALSE
    /\ greeted' = TRUE
    /\ UNCHANGED <<status, queue, timers, age, server, tokens, posted, checks, attempt>>

RehostFailed ==
    /\ Alive
    /\ newSocket # 0
    /\ late' = (late \/ Outdated(newSocket, {"Connected"}))
    /\ newSocket' = 0
    /\ IF socket = "connected" \/ status = "Disconnected"
       THEN rehosting' = FALSE /\ UNCHANGED <<status, queue, timers, age>>
       ELSE BecomeDisconnected
    /\ UNCHANGED <<socket, switched, server, greeted, tokens, posted, checks, attempt>>

-----------------------------------------------------------------------------
(* The token service *)

\* getVatsimAuthToken() has succeeded: sendLogin(), then the status
TokenReceived(a) ==
    /\ Alive
    /\ a \in tokens
    /\ late' = (late \/ Outdated(a, {"Connecting"}))
    /\ tokens' = tokens \ {a}
    /\ queue' = Append(queue, MessageOf("login", a))
    /\ status' = "Connected"
    /\ UNCHANGED <<socket, rehosting, timers, age, switched, newSocket, server, greeted,
                   posted, checks, attempt>>

TokenFailed(a) ==
    /\ Alive
    /\ a \in tokens
    /\ late' = (late \/ Outdated(a, {"Connecting"}))
    /\ tokens' = tokens \ {a}
    /\ DisconnectFromServer
    /\ UNCHANGED <<switched, newSocket, server, greeted, posted, checks, attempt>>

-----------------------------------------------------------------------------
(* Timers *)

\* sendPilotDataUpdate() of the position timer
SendPilotDataUpdate ==
    /\ Alive
    /\ timers
    /\ status # "Disconnected"
    /\ Len(queue) < MaxQueue
    /\ queue' = Append(queue, MessageOf("position", attempt))
    /\ UNCHANGED <<status, socket, rehosting, timers, age, switched, newSocket, server, greeted,
                   tokens, posted, checks, attempt, late>>

\* The number of messages that sendQueuedMessage() takes from a queue of s messages.
Burst(s) ==
    1 + (IF s > 5 THEN 1 ELSE 0) + (IF s > 10 THEN 1 ELSE 0)
      + (IF s > 20 THEN 1 ELSE 0) + (IF s > 30 THEN 1 ELSE 0)
      + (IF s > 100 THEN 30 ELSE IF s > 75 THEN 20 ELSE IF s > 50 THEN 10 ELSE 0)

SendQueuedMessage ==
    /\ Alive
    /\ timers
    /\ queue # <<>>
    /\ queue' = SubSeq(queue, Burst(Len(queue)) + 1, Len(queue))
    /\ UNCHANGED <<status, socket, rehosting, timers, age, switched, newSocket, server, greeted,
                   tokens, posted, checks, attempt, late>>

\* Time passes; a timer that is due runs first.
Tick ==
    /\ Alive
    /\ 0 \notin checks
    /\ checks # {}
    /\ checks' = {c - 1 : c \in checks}
    /\ age' = IF age \in 0..(CheckAfter - 1) THEN age + 1 ELSE age
    /\ UNCHANGED <<status, socket, rehosting, queue, timers, switched, newSocket, server, greeted,
                   tokens, posted, attempt, late>>

\* pendingTimeoutCheck()
PendingTimeoutCheckSocket ==   \* mutant: only a socket that is still connecting is given up
    /\ Alive
    /\ 0 \in checks
    /\ checks' = checks \ {0}
    /\ IF status = "Connecting" /\ socket = "connecting" /\ age >= Timeout
       THEN DisconnectFromServer
       ELSE UNCHANGED connVars
    /\ UNCHANGED <<switched, newSocket, server, greeted, tokens, posted, attempt, late>>

PendingTimeoutCheck ==
    /\ Alive
    /\ 0 \in checks
    /\ checks' = checks \ {0}
    /\ IF status = "Connecting" /\ age >= Timeout
       THEN DisconnectFromServer
       ELSE UNCHANGED connVars
    /\ UNCHANGED <<switched, newSocket, server, greeted, tokens, posted, attempt, late>>

-----------------------------------------------------------------------------

Context == (\E k \in Server : AskConnect(k)) \/ AskDisconnect
Posted == ConnectIgnored \/ ConnectToServer \/ RunDisconnect \/ HandleSocketError
Socket == HandleSocketConnected \/ SocketFails \/ RemoteCloses
Messages == HandleFsdIdentification \/ ServerDisconnects \/ HandleRehost
Results ==
    \/ RehostConnected
    \/ RehostFailed
    \/ \E a \in 1..MaxAttempts : TokenReceived(a) \/ TokenFailed(a)
Timed == SendPilotDataUpdate \/ SendQueuedMessage \/ Tick \/ PendingTimeoutCheck

Next == Context \/ Posted \/ Socket \/ Messages \/ Results \/ Timed

\* Time passes and the event loop of the client's thread runs its timers; neither the
\* user, nor the network, nor a server has to do anything.
Spec == Init /\ [][Next]_vars /\ WF_vars(Tick) /\ WF_vars(PendingTimeoutCheck)

-----------------------------------------------------------------------------
(* Properties *)

\* A pending connection has a timer of its own that will find it old enough to be
\* ended, whatever checks of earlier connections still run (connectToServer and
\* pendingTimeoutCheck).
PendingIsWatched == status = "Connecting" => age >= 0 /\ CheckAfter - age \in checks

\* After a connection has ended, in whichever way, no timer queues positions or sends
\* messages, and unless a result of an earlier connection came late nothing is queued
\* and no server switch hides socket errors (updateConnectionStatus, clearState).
DisconnectedIsQuiet ==
    status = "Disconnected" =>
        /\ ~ timers /\ age = -1
        /\ late \/ (queue = <<>> /\ ~ rehosting)

\* A message queued for one connection is never sent over the next one, except for
\* the login of a token that arrives late (clearState, startPositionTimers).
MessagesOfThisConnection ==
    \A i \in DOMAIN queue :
        queue[i].attempt # attempt => late /\ queue[i].kind = "login"

\* The status says connected only over an open socket and with running timers, so that
\* the login is sent, unless a result of an earlier connection was applied.
ConnectedIsOpen ==
    status = "Connected" /\ ~ late => timers /\ socket \notin {"closed", "connecting"}

\* A connection does not stay pending (pendingTimeoutCheck), also if the server never
\* answers, the socket fails without a remote close or the token service is silent.
PendingEnds == (status = "Connecting" /\ Alive) ~> (status # "Connecting" \/ ~ Alive)

\* While the client says it is disconnected its socket is closed, so that the next
\* connectToServer() connects (connectToServer returns at once for an open socket,
\* disconnectFromNetwork answers "Already disconnected").
CanReconnect == status = "Disconnected" /\ Alive => socket = "closed"

=============================================================================
