--------------------------- MODULE VoiceConnection ---------------------------
(***************************************************************************)
(* The connection of the voice client (Audio for VATSIM) to its servers:   *)
(* CAfvClient, CClientConnection and CApiServerConnection of               *)
(* src/src/blackcore/afv.                                                  *)
(*                                                                         *)
(* Everything here runs in the thread of CAfvClient.  The audio context    *)
(* calls connectTo() and disconnectFrom() of that thread when the FSD      *)
(* network is connected or disconnected, and the calls wait in the event   *)
(* queue of the thread (calls).  A login is an HTTP request whose reply    *)
(* arrives at any later time; when it has arrived, two further requests    *)
(* are made "pseudo synchronously", in a nested event loop in which all    *)
(* other events of the thread are handled.  The nested calls form a stack  *)
(* (frames): only the innermost may return.  The single shots of 20 s, 5 s *)
(* and 30 s and more are closures that nothing cancels; the model counts   *)
(* the pending ones and lets them fire in any order.                       *)
(*                                                                         *)
(* The state of the thread is the record afv:                              *)
(*   connected, user, channel, alive   CClientConnectionData: m_connected, *)
(*        credentials set, m_voiceCryptoChannel set, last acknowledged     *)
(*        heartbeat younger than ServerTimeoutSecs                         *)
(*   beat                 the timer of the heartbeats runs                 *)
(*   auth, expired        CApiServerConnection: m_isAuthenticated, the     *)
(*        token is about to expire                                         *)
(*   started, ticking     CAfvClient: m_isStarted, m_voiceServerTimer runs *)
(*   failures, mismatches, retrying   m_heartBeatFailures,                 *)
(*        m_fsdConnectMismatches, m_retryConnectAttempt > 0                *)
(*   checks, reconnects, resumes   pending single shots of connectTo,      *)
(*        reconnectTo and checkServerHeartbeat                             *)
(*   logins, renewals     authentication requests without a reply, of      *)
(*        connectTo and of checkExpiry                                     *)
(*   announced            the last connectionStatusChanged was Connected   *)
(***************************************************************************)
EXTENDS Integers, Sequences

CONSTANTS MaxSessions,    \* bound: sessions of the FSD network
          MaxChains,      \* bound: attempts to connect under way at once
          MaxRenewals,    \* bound: renewals of the token without a reply
          MaxNested       \* bound: nested calls

ASSUME VoiceBounds == /\ MaxSessions \in Nat /\ MaxChains \in Nat
                      /\ MaxRenewals \in Nat /\ MaxNested \in Nat

VARIABLES fsd,            \* the network context is connected
          sessions,       \* sessions of the FSD network so far
          calls,          \* calls waiting for the thread
          frames,         \* nested calls, innermost first
          afv             \* the state of the thread

voiceVars == <<fsd, sessions, calls, frames, afv>>

Call == {"connectTo", "disconnectFrom"}

Frame == {"addCallsign", "stationsConnected", "stationsFailed"}

\* The state of the thread.  failures, mismatches and checks are capped: a
\* further one of each makes no difference, or one that the bound leaves out
\* (checks).
Afv == [connected : BOOLEAN, user : BOOLEAN, channel : BOOLEAN, alive : BOOLEAN,
        beat : BOOLEAN, auth : BOOLEAN, expired : BOOLEAN, started : BOOLEAN,
        ticking : BOOLEAN, retrying : BOOLEAN, announced : BOOLEAN,
        failures : 0..2, mismatches : 0..1, checks : 0..1, logins : Nat,
        renewals : Nat, reconnects : Nat, resumes : Nat]

VoiceTypeOK ==
    /\ fsd \in BOOLEAN
    /\ sessions \in 0..MaxSessions
    /\ calls \in Seq(Call)
    /\ frames \in Seq(Frame)
    /\ afv \in Afv

(***************************************************************************)
(* Functions of the code, as functions of the state of the thread          *)
(***************************************************************************)
\* reset() that also drops the crypto channel
ResetDropsChannel(s) == [s EXCEPT !.user = FALSE, !.alive = FALSE, !.channel = FALSE]

\* CClientConnectionData::reset(): the crypto channel stays
Reset(s) == [s EXCEPT !.user = FALSE, !.alive = FALSE]

\* CClientConnection::disconnectFrom(), which returns at once unless the
\* client is connected
CloseConnection(s) ==
    IF s.connected
    THEN Reset([s EXCEPT !.connected = FALSE, !.beat = FALSE, !.auth = FALSE])
    ELSE s

\* CAfvClient::disconnectFrom(), without stopping the audio
DisconnectFrom(s) ==
    [CloseConnection(s) EXCEPT !.failures = 0, !.retrying = FALSE, !.mismatches = 0,
                               !.announced = FALSE]

\* connectTo() that leaves the request to the check after 20 s when a retry
\* is under way
ConnectToUnlessRetrying(s) ==
    IF s.connected \/ s.retrying THEN s
    ELSE [s EXCEPT !.checks = 1, !.user = TRUE, !.auth = FALSE, !.logins = @ + 1]

\* CAfvClient::connectTo(): a single shot of 20 s unless a retry is under
\* way, and the request for a token unless the client is connected.  The
\* pending checks are counted up to one, a bound.
ConnectTo(s) ==
    IF s.connected THEN s
    ELSE [s EXCEPT !.checks = IF s.retrying THEN @ ELSE 1,
                   !.user = TRUE, !.auth = FALSE, !.logins = @ + 1]

\* retryConnectTo() that leaves a retry under way alone
RetryConnectToOnce(s) ==
    IF s.connected \/ s.retrying THEN s
    ELSE [s EXCEPT !.retrying = TRUE, !.reconnects = @ + 1]

\* retryConnectTo() and the single shot of reconnectTo()
RetryConnectTo(s) ==
    IF s.connected THEN s ELSE [s EXCEPT !.retrying = TRUE, !.reconnects = @ + 1]

\* CApiServerConnection::checkExpiry(), where the caller has found the
\* connection authenticated
CheckExpiry(s) ==
    IF s.auth /\ s.expired THEN [s EXCEPT !.auth = FALSE, !.renewals = @ + 1] ELSE s

\* a logoff that counts the mismatches and never acts on them
AutoLogoffCountsOnly(s) ==
    [s EXCEPT !.mismatches = IF ~s.connected \/ fsd THEN 0 ELSE 1]

\* autoLogoffWithoutFsdNetwork()
AutoLogoffWithoutFsdNetwork(s) ==
    CASE ~s.connected \/ fsd -> [s EXCEPT !.mismatches = 0]
      [] s.connected /\ ~fsd /\ s.mismatches = 0 -> [s EXCEPT !.mismatches = 1]
      [] OTHER -> DisconnectFrom(s)

\* checkServerHeartbeat(): the second failure disconnects and lets a single
\* shot of 5 s retry, unless the credentials are gone
CheckServerHeartbeat(s) ==
    CASE ~s.started \/ ~s.connected -> s
      [] s.started /\ s.connected /\ s.alive -> [s EXCEPT !.failures = 0]
      [] s.started /\ s.connected /\ ~s.alive /\ (s.failures = 0 \/ ~s.user) ->
            [s EXCEPT !.failures = IF @ < 2 THEN @ + 1 ELSE @]
      [] OTHER -> [DisconnectFrom(s) EXCEPT !.resumes = @ + 1]

\* onTimerUpdate()
OnTimerUpdate(s) == CheckServerHeartbeat(AutoLogoffWithoutFsdNetwork(CheckExpiry(s)))

\* The end of the callback in CAfvClient::connectTo(), after the stations
\* were fetched
Finish(s, authenticated) ==
    LET t == OnTimerUpdate(s)
    IN IF authenticated
       THEN [t EXCEPT !.ticking = TRUE, !.retrying = FALSE, !.announced = TRUE]
       ELSE [RetryConnectTo(t) EXCEPT !.announced = FALSE]

\* The callback in CAfvClient::connectTo(): getAllAliasedStations() waits in
\* a nested loop if the connection is authenticated, and returns at once
\* otherwise.  below: the frames under this one.
Callback(s, authenticated, below) ==
    IF s.auth
    THEN /\ afv' = CheckExpiry(s)
         /\ frames' = <<IF authenticated THEN "stationsConnected" ELSE "stationsFailed">> \o below
    ELSE /\ afv' = Finish(s, authenticated)
         /\ frames' = below

\* The callback in CClientConnection::connectTo(): the callsign is added in a
\* nested loop, after a look at the token (postNoRequest), or the connection is
\* reset
Authenticated(s, ok) ==
    IF ok THEN /\ afv' = CheckExpiry(s)
               /\ frames' = <<"addCallsign">> \o frames
          ELSE Callback([Reset(s) EXCEPT !.connected = FALSE], FALSE, frames)

(***************************************************************************)
(* The audio context                                                       *)
(***************************************************************************)
\* The FSD network is connected: xCtxNetworkConnectionStatusChanged() calls
\* connectTo() in the thread of the voice client.  The sessions are those with
\* servers of VATSIM; for others connectAudioWithNetworkCredentials() returns
\* without a call, and the voice client has nothing to do.
FsdConnects ==
    /\ ~fsd /\ sessions < MaxSessions
    /\ fsd' = TRUE /\ sessions' = sessions + 1
    /\ calls' = Append(calls, "connectTo")
    /\ UNCHANGED <<frames, afv>>

\* ... or disconnected: it calls disconnectFrom()
FsdDisconnects ==
    /\ fsd
    /\ fsd' = FALSE
    /\ calls' = Append(calls, "disconnectFrom")
    /\ UNCHANGED <<sessions, frames, afv>>

\* The thread takes the next call from its event queue
HandlePosted ==
    /\ calls # <<>>
    /\ afv' = IF Head(calls) = "connectTo" THEN ConnectTo(afv) ELSE DisconnectFrom(afv)
    /\ calls' = Tail(calls)
    /\ UNCHANGED <<fsd, sessions, frames>>

\* startAudio(), which updates twice: in initTransceivers() and at its end
StartAudio ==
    /\ ~afv.started
    /\ afv' = OnTimerUpdate([OnTimerUpdate(afv) EXCEPT !.ticking = TRUE, !.started = TRUE])
    /\ UNCHANGED <<fsd, sessions, calls, frames>>

\* stopAudio()
StopAudio ==
    /\ afv.started
    /\ afv' = [afv EXCEPT !.started = FALSE]
    /\ UNCHANGED <<fsd, sessions, calls, frames>>

(***************************************************************************)
(* Replies of the API server                                               *)
(***************************************************************************)
\* The reply to a login with a valid token
LoginSucceeds ==
    /\ afv.logins > 0 /\ Len(frames) < MaxNested
    /\ Authenticated([afv EXCEPT !.logins = @ - 1, !.auth = TRUE, !.expired = FALSE], TRUE)
    /\ UNCHANGED <<fsd, sessions, calls>>

\* ... with a token that is not valid: the callback gets the value that
\* m_isAuthenticated has, and the time of expiry is cleared
LoginInvalid ==
    /\ afv.logins > 0 /\ Len(frames) < MaxNested /\ afv.renewals < MaxRenewals
    /\ Authenticated([afv EXCEPT !.logins = @ - 1, !.expired = TRUE], afv.auth)
    /\ UNCHANGED <<fsd, sessions, calls>>

\* ... with an error
LoginFails ==
    /\ afv.logins > 0 /\ Len(frames) < MaxNested
    /\ Authenticated([afv EXCEPT !.logins = @ - 1], FALSE)
    /\ UNCHANGED <<fsd, sessions, calls>>

\* The reply to addCallsign() ends the innermost loop.  Whatever it holds,
\* the tokens are marked valid, and the crypto channel is created.
AddCallsignReturns ==
    /\ frames # <<>> /\ Head(frames) = "addCallsign"
    /\ Callback([afv EXCEPT !.channel = TRUE, !.alive = TRUE, !.beat = TRUE, !.connected = TRUE],
                TRUE, Tail(frames))
    /\ UNCHANGED <<fsd, sessions, calls>>

\* The reply to getAllAliasedStations() ends the innermost loop
StationsReturn ==
    /\ frames # <<>> /\ Head(frames) \in {"stationsConnected", "stationsFailed"}
    /\ afv' = Finish(afv, Head(frames) = "stationsConnected")
    /\ frames' = Tail(frames)
    /\ UNCHANGED <<fsd, sessions, calls>>

\* The reply to the login of checkExpiry(), whose callback only logs
RenewalReplies ==
    /\ afv.renewals > 0
    /\ \/ afv' = [afv EXCEPT !.renewals = @ - 1, !.auth = TRUE, !.expired = FALSE]
       \/ afv' = [afv EXCEPT !.renewals = @ - 1, !.expired = TRUE]
       \/ afv' = [afv EXCEPT !.renewals = @ - 1]
    /\ UNCHANGED <<fsd, sessions, calls, frames>>

(***************************************************************************)
(* Timers and single shots                                                 *)
(***************************************************************************)
\* The attempts to connect under way
Chains(s) == s.logins + s.reconnects + s.resumes + Len(frames)

\* 20 s after connectTo(): "No connection afer 20secs"
CheckFires ==
    /\ afv.checks > 0
    /\ afv.retrying \/ afv.connected \/ Chains(afv) < MaxChains
    /\ LET s == [afv EXCEPT !.checks = @ - 1]
       IN afv' = IF s.retrying THEN s ELSE RetryConnectTo(s)
    /\ UNCHANGED <<fsd, sessions, calls, frames>>

\* The single shot of reconnectTo()
ReconnectFires ==
    /\ afv.reconnects > 0
    /\ afv' = ConnectTo([afv EXCEPT !.reconnects = @ - 1])
    /\ UNCHANGED <<fsd, sessions, calls, frames>>

\* The single shot of checkServerHeartbeat()
ResumeFires ==
    /\ afv.resumes > 0
    /\ afv' = RetryConnectTo([afv EXCEPT !.resumes = @ - 1])
    /\ UNCHANGED <<fsd, sessions, calls, frames>>

\* m_voiceServerTimer of CAfvClient, every 20 s
TimerUpdate ==
    /\ afv.ticking
    /\ afv' = OnTimerUpdate(afv)
    /\ UNCHANGED <<fsd, sessions, calls, frames>>

\* The cockpit has changed: onUpdateTransceiversFromContext()
OwnAircraftChanges ==
    /\ afv.auth /\ afv.expired
    /\ afv' = CheckExpiry(afv)
    /\ UNCHANGED <<fsd, sessions, calls, frames>>

(***************************************************************************)
(* The voice server and the clock                                          *)
(***************************************************************************)
\* ServerTimeoutSecs without an acknowledged heartbeat: datagrams are lost or
\* the server is gone
Silence ==
    /\ afv.alive
    /\ afv' = [afv EXCEPT !.alive = FALSE]
    /\ UNCHANGED <<fsd, sessions, calls, frames>>

\* processMessage(): a heartbeat is acknowledged
HeartbeatAck ==
    /\ afv.beat /\ afv.channel /\ ~afv.alive
    /\ afv' = [afv EXCEPT !.alive = TRUE]
    /\ UNCHANGED <<fsd, sessions, calls, frames>>

\* The token gets within five minutes of its end
TokenExpires ==
    /\ afv.auth /\ ~afv.expired /\ afv.renewals < MaxRenewals
    /\ afv' = [afv EXCEPT !.expired = TRUE]
    /\ UNCHANGED <<fsd, sessions, calls, frames>>

VoiceInit ==
    /\ fsd = FALSE /\ sessions = 0 /\ calls = <<>> /\ frames = <<>>
    /\ afv = [connected |-> FALSE, user |-> FALSE, channel |-> FALSE, alive |-> FALSE,
              beat |-> FALSE, auth |-> FALSE, expired |-> FALSE, started |-> FALSE,
              ticking |-> FALSE, retrying |-> FALSE, announced |-> FALSE,
              failures |-> 0, mismatches |-> 0, checks |-> 0, logins |-> 0,
              renewals |-> 0, reconnects |-> 0, resumes |-> 0]

VoiceNext ==
    \/ FsdConnects \/ FsdDisconnects \/ HandlePosted \/ StartAudio \/ StopAudio
    \/ LoginSucceeds \/ LoginInvalid \/ LoginFails
    \/ AddCallsignReturns \/ StationsReturn \/ RenewalReplies
    \/ CheckFires \/ ReconnectFires \/ ResumeFires \/ TimerUpdate \/ OwnAircraftChanges
    \/ Silence \/ HeartbeatAck \/ TokenExpires

\* Posted calls, timers and replies come in the end; of the logins that are
\* tried again and again, some succeed
Fairness ==
    /\ WF_voiceVars(HandlePosted)
    /\ WF_voiceVars(AddCallsignReturns) /\ WF_voiceVars(StationsReturn) /\ WF_voiceVars(RenewalReplies)
    /\ WF_voiceVars(ReconnectFires) /\ WF_voiceVars(ResumeFires) /\ WF_voiceVars(TimerUpdate)
    /\ SF_voiceVars(LoginSucceeds)

VoiceSpec == VoiceInit /\ [][VoiceNext]_voiceVars /\ Fairness

(***************************************************************************)
(* Properties                                                              *)
(***************************************************************************)
\* Heartbeats are only sent with a crypto channel (the BLACK_VERIFY of
\* voiceServerHeartbeat()), and a connected client sends them, in whatever
\* order the replies of several logins, a disconnect and the nested calls
\* come.
ConnectedBeats ==
    /\ afv.connected => afv.beat
    /\ afv.beat => afv.channel

\* Something under way leads to a connection: a login, a retry, or a nested
\* call that ends in one
Trying ==
    \/ afv.connected
    \/ afv.logins > 0 \/ afv.reconnects > 0 \/ afv.resumes > 0
    \/ \E i \in DOMAIN frames : frames[i] \in {"addCallsign", "stationsFailed"}

\* While the FSD network is connected and its signals are handled, the voice
\* client is connected or an attempt to connect is under way: failed
\* heartbeats, rejected logins, late replies of an earlier session and the
\* single shots that return because others seem to be at work never leave it
\* without one.
AlwaysTrying == fsd /\ calls = <<>> => Trying

\* A session of the FSD network that stays leads to a voice connection again
\* and again, if logins succeed now and then.
EventuallyConnected == <>[]fsd => []<>afv.connected

\* A voice connection without the FSD network, which a late reply or a
\* pending retry has made after the user has disconnected, is closed in the
\* end (autoLogoffWithoutFsdNetwork).
EventuallyLoggedOff == afv.connected /\ ~fsd ~> ~afv.connected \/ fsd

\* When nothing is under way in the thread, the last connectionStatusChanged
\* tells whether the client is connected ("Connection status has been
\* changed", afvclient.h).
AnnouncedStatus == frames = <<>> => (afv.announced <=> afv.connected)

\* A connected client whose token has expired is authenticated again
\* ("Session expired, then re-login", apiserverconnection.h).
ReLogin == afv.connected /\ ~afv.auth ~> ~afv.connected \/ afv.auth

=============================================================================
