------------------------------ MODULE Airspace -------------------------------
(***************************************************************************)
(* CAirspaceMonitor (src/blackcore/airspacemonitor.cpp): how an aircraft   *)
(* gets into the range list, is announced to the simulator for model       *)
(* matching once its data are complete or waited for long enough, and is   *)
(* removed again.  Everything runs in the main thread, driven by signals   *)
(* of the FSD client and by single shot timers, which are never cancelled: *)
(* a timer set for one visit of a callsign may run in the next one.        *)
(***************************************************************************)
EXTENDS Integers, FiniteSets

CONSTANTS Callsign,
          CheckAgain,   \* MMCheckAgainMs, in ticks, as the following
          MaxAge,       \* MMMaxAgeMs: longest wait for data after the first data
          Threshold,    \* MMMaxAgeThresholdMs: after that matching may be sent again
          VerifyAfter,  \* MMVerifyMs
          MaxVisits,    \* bound: additions of aircraft
          MaxDrops,     \* bound: ends of the network connection
          MaxReinits    \* bound: calls of reInitializeAllAircraft()

ASSUME TimesAssumption ==
    /\ CheckAgain \in Nat \ {0} /\ MaxAge \in Nat /\ Threshold \in Nat /\ VerifyAfter \in Nat \ {0}
    /\ CheckAgain <= MaxAge /\ MaxAge < Threshold /\ Threshold < VerifyAfter
ASSUME BoundAssumption == MaxVisits \in Nat /\ MaxDrops \in Nat /\ MaxReinits \in Nat

VARIABLES online,    \* the FSD client is connected: isConnectedAndNotShuttingDown()
          clearing,  \* signals of disconnections that are not yet delivered
          inRange,   \* m_aircraftInRange
          situated,  \* aircraft with stored situations: the first one fills the list
          model,     \* aircraft with a model string
          ready,     \* m_readiness (flags and age, -1 without timestamp) and the check timers
          packets,   \* m_tempFsInnPackets
          verifies,  \* timers of verifyReceivedIcaoData(): time left
          reinit,    \* timers of asyncReInitializeAllAircraft()
          known,     \* aircraft the simulator was told to match and has not removed
          ghosts,    \* aircraft added without a connection
          visits, drops, reinits

rangeVars == <<inRange, situated, model, ghosts>>
boundVars == <<visits, drops, reinits>>
vars == <<online, clearing, rangeVars, ready, packets, verifies, reinit, known, boundVars>>

\* The flags of the readiness, and a mark for the properties: "strayed" is put beside
\* "sent" when the aircraft leaves the range, and goes with it
Flag == {"icao", "fsinn", "sent", "verified", "strayed"}
Timer == [left : 0..CheckAgain, fsinn : BOOLEAN]
Readiness == [flags : SUBSET Flag, age : -1..Threshold, checks : SUBSET Timer]

TypeOK ==
    /\ online \in BOOLEAN
    /\ clearing \in 0..MaxDrops
    /\ inRange \subseteq Callsign
    /\ situated \subseteq Callsign
    /\ model \subseteq Callsign
    /\ ready \in [Callsign -> Readiness]
    /\ packets \subseteq Callsign
    /\ verifies \in [Callsign -> SUBSET (0..VerifyAfter)]
    /\ reinit \subseteq Callsign
    /\ known \subseteq Callsign
    /\ ghosts \subseteq Callsign
    /\ visits \in 0..MaxVisits
    /\ drops \in 0..MaxDrops
    /\ reinits \in 0..MaxReinits

Init ==
    /\ online = TRUE
    /\ clearing = 0
    /\ inRange = {}
    /\ situated = {}
    /\ model = {}
    /\ ready = [c \in Callsign |-> [flags |-> {}, age |-> -1, checks |-> {}]]
    /\ packets = {}
    /\ verifies = [c \in Callsign |-> {}]
    /\ reinit = {}
    /\ known = {}
    /\ ghosts = {}
    /\ visits = 0
    /\ drops = 0
    /\ reinits = 0

-----------------------------------------------------------------------------
(* Model matching *)

\* Readiness::addFlag(), which sets the timestamp with the first flag
AddFlags(r, fs) ==
    [r EXCEPT !.flags = @ \cup fs, !.age = IF @ = -1 /\ fs # {} THEN 0 ELSE @]

\* m_readiness.remove(); timers stay
Forget(r) == [r EXCEPT !.flags = {}, !.age = -1]

\* complete in sendReadyForModelMatching()
Complete(c, r, hasModel) ==
    c \in situated /\ ({"icao", "fsinn"} \subseteq r.flags \/ hasModel)

\* sendReadyForModelMatching() with the flags rf (none for a recursive call) for an
\* aircraft in range, whose readiness was r0: nothing if matching was sent, a check
\* later if data are missing, otherwise readyForModelMatching is emitted.
SendReady(c, rf, r0, hasModel) ==
    LET r == AddFlags(r0, rf)
        sent == "sent" \in r.flags /\ r.age < Threshold
        wait == "verified" \notin rf /\ r.age <= MaxAge /\ ~ Complete(c, r, hasModel)
        timer == [left |-> CheckAgain, fsinn |-> rf = {"fsinn"}]
    IN  IF ~ online
        THEN ready' = [ready EXCEPT ![c] = r0] /\ UNCHANGED known
        ELSE IF sent
        THEN ready' = [ready EXCEPT ![c] = r] /\ UNCHANGED known
        ELSE IF wait
        THEN ready' = [ready EXCEPT ![c] = [r EXCEPT !.checks = @ \cup {timer}]] /\ UNCHANGED known
        ELSE /\ ready' = [ready EXCEPT ![c] = AddFlags([r EXCEPT !.flags = {}], {"sent"})]
             /\ known' = known \cup {c}

\* onIcaoCodesReceived(); the reverse lookup may find a model string
OnIcaoCodesReceived(c, found) ==
    /\ online
    /\ c \in inRange
    /\ model' = IF found THEN model \cup {c} ELSE model
    /\ SendReady(c, {"icao"}, ready[c], c \in model')
    /\ UNCHANGED <<online, clearing, inRange, situated, ghosts, packets, verifies, reinit, boundVars>>

\* onCustomFSInnPacketReceived() for a callsign that is not in range: the packet is kept
KeepFsInnPacket(c) ==
    /\ online
    /\ c \notin inRange
    /\ packets' = packets \cup {c}
    /\ UNCHANGED <<online, clearing, rangeVars, ready, verifies, reinit, known, boundVars>>

\* onCustomFSInnPacketReceived() for one in range
OnFsInnPacketReceived(c, found) ==
    /\ online
    /\ c \in inRange
    /\ model' = IF found THEN model \cup {c} ELSE model
    /\ SendReady(c, {"fsinn"}, ready[c], c \in model')
    /\ UNCHANGED <<online, clearing, inRange, situated, ghosts, packets, verifies, reinit, boundVars>>

\* recallFsInnPacket() finds a packet that came before the aircraft was in range; a timer
\* of a call with FsInn data does not ask for one
Recalled(c, t) == c \in inRange /\ ~ t.fsinn /\ c \in packets

\* A timer of sendReadyForModelMatching() runs: a kept FsInn packet is handled as if it
\* came now, otherwise the readiness is checked again.
CheckReadiness(c, t, found) ==
    /\ t \in ready[c].checks /\ t.left = 0
    /\ LET r == [ready[c] EXCEPT !.checks = @ \ {t}]
           recall == Recalled(c, t)
       IN  /\ packets' = IF recall THEN packets \ {c} ELSE packets
           /\ model' = IF recall /\ found /\ online THEN model \cup {c} ELSE model
           /\ IF c \in inRange
              THEN SendReady(c, IF recall THEN {"fsinn"} ELSE {}, r, c \in model')
              ELSE ready' = [ready EXCEPT ![c] = r] /\ UNCHANGED known
    /\ UNCHANGED <<online, clearing, inRange, situated, ghosts, verifies, reinit, boundVars>>

\* verifyReceivedIcaoData(): the first time without ICAO codes the other client is asked
\* again, afterwards the data are used as they are.
VerifyReceivedIcaoDataOnce(c) ==   \* mutant: the second timer is missing
    /\ 0 \in verifies[c]
    /\ verifies' = [verifies EXCEPT ![c] = @ \ {0}]
    /\ LET r == AddFlags(ready[c], {"verified"})
       IN  IF c \notin inRange \/ "sent" \in ready[c].flags
           THEN UNCHANGED <<ready, known>>
           ELSE IF {"verified", "icao"} \cap ready[c].flags = {}
           THEN ready' = [ready EXCEPT ![c] = r] /\ UNCHANGED known
           ELSE SendReady(c, {"verified"}, r, c \in model)
    /\ UNCHANGED <<online, clearing, rangeVars, packets, reinit, boundVars>>

VerifyReceivedIcaoData(c) ==
    /\ 0 \in verifies[c]
    /\ LET r == AddFlags(ready[c], {"verified"})
           again == {"verified", "icao"} \cap ready[c].flags = {}
       IN  IF c \notin inRange \/ "sent" \in ready[c].flags
           THEN /\ verifies' = [verifies EXCEPT ![c] = @ \ {0}]
                /\ UNCHANGED <<ready, known>>
           ELSE IF again
           THEN /\ ready' = [ready EXCEPT ![c] = r]
                /\ verifies' = [verifies EXCEPT ![c] = (@ \ {0}) \cup {VerifyAfter}]
                /\ UNCHANGED known
           ELSE /\ verifies' = [verifies EXCEPT ![c] = @ \ {0}]
                /\ SendReady(c, {"verified"}, r, c \in model)
    /\ UNCHANGED <<online, clearing, rangeVars, packets, reinit, boundVars>>

-----------------------------------------------------------------------------
(* Aircraft come and go *)

\* onAircraftUpdateReceived() for an aircraft within the maximum range that is new:
\* its position is stored, addNewAircraftInRange() and the first queries
AddNewAircraft(c) ==
    /\ online
    /\ c \notin inRange
    /\ visits < MaxVisits
    /\ visits' = visits + 1
    /\ inRange' = inRange \cup {c}
    /\ situated' = situated \cup {c}
    /\ model' = model \ {c}
    /\ verifies' = [verifies EXCEPT ![c] = @ \cup {VerifyAfter}]
    /\ UNCHANGED <<online, clearing, ready, packets, reinit, known, ghosts, drops, reinits>>

\* A full position of an aircraft in range that has no stored situations: it was
\* added by asyncReInitializeAllAircraft()
StoreSituation(c) ==
    /\ online
    /\ c \in inRange
    /\ c \notin situated
    /\ situated' = situated \cup {c}
    /\ UNCHANGED <<online, clearing, inRange, model, ghosts, ready, packets, verifies, reinit,
                   known, boundVars>>

\* A position beyond the range: handleMaxRange() removes the aircraft from the provider
\* only, without removedAircraft, and the readiness stays.
LeaveRange(c) ==
    /\ online
    /\ c \in inRange
    /\ inRange' = inRange \ {c}
    /\ situated' = situated \ {c}
    /\ ready' = [ready EXCEPT ![c].flags = IF "sent" \in @ THEN @ \cup {"strayed"} ELSE @]
    /\ UNCHANGED <<online, clearing, model, ghosts, packets, verifies, reinit, known, boundVars>>

\* The driver of the simulator looks from time to time which of its aircraft are not in
\* the provider any more, and removes them (physicallyRemoveAircraftNotInProvider).
DriverRemoves(c) ==
    /\ c \in known \ inRange
    /\ known' = known \ {c}
    /\ UNCHANGED <<online, clearing, rangeVars, ready, packets, verifies, reinit, boundVars>>

\* onPilotDisconnected(), from the network or from the analyzer's watchdog
OnPilotDisconnectedKeeps(c) ==   \* mutant: the readiness outlives the visit
    /\ inRange' = inRange \ {c}
    /\ situated' = situated \ {c}
    /\ known' = IF c \in inRange THEN known \ {c} ELSE known
    /\ ghosts' = ghosts \ {c}
    /\ UNCHANGED <<online, clearing, model, ready, packets, verifies, reinit, boundVars>>

OnPilotDisconnected(c) ==
    /\ inRange' = inRange \ {c}
    /\ situated' = situated \ {c}
    /\ ready' = [ready EXCEPT ![c] = Forget(@)]
    /\ known' = IF c \in inRange THEN known \ {c} ELSE known
    /\ ghosts' = ghosts \ {c}
    /\ UNCHANGED <<online, clearing, model, packets, verifies, reinit, boundVars>>

\* removeAllAircraft() of the provider, which announces the removal of each aircraft
RemoveAllAircraft ==
    /\ inRange' = {}
    /\ situated' = {}
    /\ known' = known \ inRange

\* reInitializeAllAircraft(): everything is removed and added again a little later
ReInitializeAllAircraft ==
    /\ reinits < MaxReinits
    /\ reinits' = reinits + 1
    /\ reinit' = reinit \cup inRange
    /\ RemoveAllAircraft
    /\ UNCHANGED <<online, clearing, model, ghosts, ready, packets, verifies, visits, drops>>

\* A timer of asyncReInitializeAllAircraft(), whatever has happened to the aircraft since
ReInitialize(c) ==
    /\ c \in reinit
    /\ reinit' = reinit \ {c}
    /\ inRange' = inRange \cup {c}
    /\ ghosts' = IF online \/ c \in inRange THEN ghosts ELSE ghosts \cup {c}
    /\ verifies' = [verifies EXCEPT ![c] = IF c \in inRange THEN @ ELSE @ \cup {VerifyAfter}]
    /\ SendReady(c, {"icao", "fsinn"}, Forget(ready[c]), c \in model)
    /\ UNCHANGED <<online, clearing, situated, model, packets, boundVars>>

-----------------------------------------------------------------------------
(* The connection and time *)

\* The FSD client is disconnected; the signal is on the way to the main thread.
Drop ==
    /\ online
    /\ drops < MaxDrops
    /\ online' = FALSE
    /\ drops' = drops + 1
    /\ clearing' = clearing + 1
    /\ UNCHANGED <<rangeVars, ready, packets, verifies, reinit, known, visits, reinits>>

Reconnect ==
    /\ ~ online
    /\ online' = TRUE
    /\ UNCHANGED <<clearing, rangeVars, ready, packets, verifies, reinit, known, boundVars>>

\* onConnectionStatusChanged(Disconnected): clear()
ClearKeepsPackets ==   \* mutant: FsInn packets survive the connection
    /\ clearing > 0
    /\ clearing' = clearing - 1
    /\ RemoveAllAircraft
    /\ ready' = [c \in Callsign |-> Forget(ready[c])]
    /\ ghosts' = {}
    /\ UNCHANGED <<online, model, packets, verifies, reinit, boundVars>>

Clear ==
    /\ clearing > 0
    /\ clearing' = clearing - 1
    /\ RemoveAllAircraft
    /\ ready' = [c \in Callsign |-> Forget(ready[c])]
    /\ packets' = {}
    /\ ghosts' = {}
    /\ UNCHANGED <<online, model, verifies, reinit, boundVars>>

Due(c) == 0 \in verifies[c] \/ \E t \in ready[c].checks : t.left = 0

\* Time passes; timers that are due run first, and so do those of
\* asyncReInitializeAllAircraft(), which are set 25 ms apart, far less than a tick.
Tick ==
    /\ reinit = {}
    /\ \A c \in Callsign : ~ Due(c)
    /\ ready' = [c \in Callsign |->
          [ready[c] EXCEPT !.age = IF @ \in 0..(Threshold - 1) THEN @ + 1 ELSE @,
                           !.checks = {[t EXCEPT !.left = @ - 1] : t \in @}]]
    /\ verifies' = [c \in Callsign |-> {v - 1 : v \in verifies[c]}]
    /\ UNCHANGED <<online, clearing, rangeVars, packets, reinit, known, boundVars>>

Data(c) ==
    \/ \E found \in BOOLEAN : OnIcaoCodesReceived(c, found) \/ OnFsInnPacketReceived(c, found)
    \/ KeepFsInnPacket(c)
Visit(c) ==
    AddNewAircraft(c) \/ StoreSituation(c) \/ LeaveRange(c) \/ OnPilotDisconnected(c) \/ DriverRemoves(c)
Check(c) == \E t \in ready[c].checks, found \in BOOLEAN : CheckReadiness(c, t, found)

Next ==
    \/ \E c \in Callsign :
          Data(c) \/ Visit(c) \/ Check(c) \/ VerifyReceivedIcaoData(c) \/ ReInitialize(c)
    \/ ReInitializeAllAircraft \/ Drop \/ Reconnect \/ Clear \/ Tick

\* The event loop of the main thread runs its timers and delivers the signal of a
\* disconnection; nothing has to come from the network.
Spec ==
    /\ Init /\ [][Next]_vars
    /\ WF_vars(Tick) /\ WF_vars(Clear)
    /\ \A c \in Callsign :
          WF_vars(Check(c)) /\ WF_vars(VerifyReceivedIcaoData(c)) /\ WF_vars(ReInitialize(c))

-----------------------------------------------------------------------------
(* Properties *)

\* An aircraft that the simulator does not know of has a timer that will look at it
\* again, also after its pilot has left and come back, the connection was lost or all
\* aircraft were initialized again; without one it would never be shown
\* (sendReadyForModelMatching, verifyReceivedIcaoData, addNewAircraftInRange). The one
\* that is forgotten is an aircraft that was matched, left the range, was removed by the
\* driver and has returned: the mark that matching was sent stops the timer.
NotForgotten ==
    \A c \in inRange \ (known \cup ghosts \cup reinit) :
        online /\ clearing = 0 => verifies[c] # {} \/ "strayed" \in ready[c].flags

\* An aircraft that stays is announced to the simulator, even if its client never answers
\* a query (verifyReceivedIcaoData), unless it has strayed in an earlier visit that was
\* matched.
EventuallyKnown ==
    \A c \in Callsign :
        (c \in inRange \ ghosts /\ online /\ "strayed" \notin ready[c].flags)
            ~> (c \in known \cup ghosts \/ c \notin inRange \/ ~ online)

\* After the end of a connection nothing of its aircraft is left, apart from those that
\* asyncReInitializeAllAircraft() adds late: no aircraft in range, no readiness and no
\* kept packets that the next connection would take for its own (clear).
CleanOffline ==
    ~ online /\ clearing = 0 =>
        /\ inRange \subseteq ghosts
        /\ packets = {}
        /\ \A c \in Callsign \ ghosts : ready[c].flags = {} /\ c \notin situated

\* Situations are stored for aircraft in range only. A matching that is not repeated is
\* of an aircraft in range that the simulator knows, unless it is to be initialized again
\* or has left the range since (removeAircraft, removeFromAircraftCachesAndLogs): every
\* other way to drop an aircraft drops its readiness too.
SentMeansKnown ==
    \A c \in Callsign :
        /\ c \in situated => c \in inRange
        /\ "sent" \in ready[c].flags =>
              c \in (known \cap inRange) \cup reinit \/ "strayed" \in ready[c].flags

\* The simulator is told when an aircraft it knows of is no longer in range
\* (removedAircraft: "An aircraft disappeared").
RemovalAnnounced == known \subseteq inRange

=============================================================================
