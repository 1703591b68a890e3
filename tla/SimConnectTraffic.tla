-------------------------- MODULE SimConnectTraffic --------------------------
(***************************************************************************)
(* Remote aircraft in FSX and P3D: CSimulatorFsxCommon                     *)
(* (src/plugins/simulator/fsxcommon/simulatorfsxcommon.cpp) between the    *)
(* simulator context, which adds, removes and changes aircraft, and the    *)
(* simulator, which creates and removes objects asynchronously and may     *)
(* refuse, be late, or remove an object on its own.  The driver adds one   *)
(* object at a time and keeps the others in a list of pending aircraft.    *)
(* All of it runs in one thread; single shot timers, which are never       *)
(* cancelled, meet whatever has become of the aircraft meanwhile.          *)
(*                                                                         *)
(* A message of the simulator is handled in the step that creates it.      *)
(* Times are not modelled: timers may run in any order.                    *)
(***************************************************************************)
EXTENDS Lists, FiniteSets

CONSTANTS Callsign, Model,
          Fits,       \* the models the matching may find for an aircraft
          NoModel,    \* no model string
          Nothing,    \* no object
          Id,         \* numbers the objects of a callsign: bounds those that exist at a time
          MaxFailed,  \* ThresholdAddException: failures allowed when an object is created
          MaxGone,    \* ThresholdAddedAndDirectlyRemoved: removals allowed that nobody asked for
          MaxAsks,    \* bound: calls of the context for each aircraft, departures included
          MaxFaults   \* bound: failures to create an object, objects that disappear, interruptions

ASSUME TrafficAssumption ==
    /\ NoModel \notin Model /\ Fits \in [Callsign -> SUBSET Model]
    /\ MaxFailed \in Nat /\ MaxGone \in Nat /\ MaxAsks \in [Callsign -> Nat] /\ MaxFaults \in Nat

VARIABLES
    \* the provider of remote aircraft
    inRange,     \* aircraft in range
    enabled,     \* those to be shown
    rendered,    \* those marked as rendered
    model,       \* the model the matching has found
    \* the driver
    simulating,  \* m_simSimulating
    objects,     \* m_simConnectObjects
    pending,     \* m_addPendingAircraft, by timestamp
    again,       \* m_addAgainAircraftWhenRemoved
    adds,        \* timers that call physicallyAddRemoteAircraft()
    removals,    \* timers that call physicallyRemoveRemoteAircraft()
    retries,     \* timers that put a failed aircraft into the pending list
    verifies,    \* timers that call verifyAddedRemoteAircraft()
    \* the simulator
    creating,    \* objects asked for, as the driver has traced them
    alive,       \* objects that exist
    condemned,   \* objects to be removed
    \* bounds, and the history the properties need
    asks, faults,
    stranded,    \* callsigns with an object the driver forgot before it could have it removed
    crossed,     \* aircraft added or changed while a removal of theirs was under way
    givenUp      \* aircraft the simulator has removed too often

providerVars == <<inRange, enabled, rendered, model>>
timerVars == <<adds, removals, retries, verifies>>
driverVars == <<objects, pending, again>>
simVars == <<creating, alive, condemned>>
historyVars == <<stranded, crossed, givenUp>>
vars == <<providerVars, simulating, driverVars, timerVars, simVars, asks, faults, historyVars>>

\* An aircraft with its failure counters, as it is kept in the pending list
Entry == [cs : Callsign, model : Model, failed : 0..MaxFailed, gone : 0..MaxGone]

\* CSimConnectObject: known is a valid object id, deferred m_removedWhileAdding,
\* removing m_pendingRemoved, old an age of more than five seconds before it is confirmed
Object == [id : Id, model : Model, failed : 0..MaxFailed, gone : 0..MaxGone, known : BOOLEAN,
           confirmed : BOOLEAN, lights : BOOLEAN, deferred : BOOLEAN, removing : BOOLEAN, old : BOOLEAN]

ASSUME NothingAssumption == Nothing \notin Object

SimObject == [id : Id, cs : Callsign]

\* A request to create an object, with the aircraft it was made for
Request == [id : Id, cs : Callsign, model : Model, failed : 0..MaxFailed, gone : 0..MaxGone]

\* The caller of the timer: after a verification or by timer, after a removal,
\* changeRemoteAircraftModel() of an enabled or a disabled aircraft,
\* logicallyReAddRemoteAircraft(), which takes the model the aircraft has by then
AddTimer ==
    [cs : Callsign, model : Model, by : {"pending", "removed", "changed", "disabled"}]
        \cup [cs : Callsign, model : {NoModel}, by : {"readd"}]

TypeOK ==
    /\ inRange \subseteq Callsign /\ enabled \subseteq inRange /\ rendered \subseteq inRange
    /\ model \in [Callsign -> Model \cup {NoModel}]
    /\ simulating \in BOOLEAN
    /\ objects \in [Callsign -> Object \cup {Nothing}]
    /\ pending \in Seq(Entry)
    /\ again \in [Callsign -> Model \cup {NoModel}]
    /\ adds \subseteq AddTimer
    /\ removals \subseteq Callsign
    /\ retries \subseteq Entry
    /\ verifies \subseteq SimObject
    /\ creating \subseteq Request
    /\ alive \subseteq SimObject
    /\ condemned \subseteq SimObject
    /\ asks \in [Callsign -> Nat] /\ (\A c \in Callsign : asks[c] <= MaxAsks[c])
    /\ faults \in 0..MaxFaults
    /\ stranded \subseteq Callsign /\ crossed \subseteq Callsign /\ givenUp \subseteq Callsign

Init ==
    /\ inRange = {} /\ enabled = {} /\ rendered = {}
    /\ model = [c \in Callsign |-> NoModel]
    /\ simulating = TRUE
    /\ objects = [c \in Callsign |-> Nothing]
    /\ pending = <<>>
    /\ again = [c \in Callsign |-> NoModel]
    /\ adds = {} /\ removals = {} /\ retries = {} /\ verifies = {}
    /\ creating = {} /\ alive = {} /\ condemned = {}
    /\ asks = [c \in Callsign |-> 0] /\ faults = 0
    /\ stranded = {} /\ crossed = {} /\ givenUp = {}

-----------------------------------------------------------------------------
(* Objects and pending aircraft *)

\* The aircraft for which there are objects: m_simConnectObjects.contains()
Held == {c \in Callsign : objects[c] # Nothing}

\* isPendingAdded()
PendingAdded(o) == ~ o.known \/ ~ o.confirmed

\* As if a request the simulator does not answer were never given up
NeverOutdated == {}

\* removeOutdatedPendingAdded()
Outdated == {c \in Held : PendingAdded(objects[c]) /\ objects[c].old}

\* As if the second trial to remove an object waited again
MustWaitAgain(o) == PendingAdded(o) \/ ~ o.lights

\* Removal has to wait: not confirmed, or no lights of the object yet
MustWait(o) == ~ o.deferred /\ (PendingAdded(o) \/ ~ o.lights)

PendingCallsigns == {pending[i].cs : i \in DOMAIN pending}

\* removeFromAddPendingAndAddAgainAircraft() for the pending list
Without(S) == Matching(pending, {e \in Entry : e.cs \notin S})

\* As if there were only one pending aircraft
InsertedIfEmpty(e) == IF pending = <<>> THEN <<e>> ELSE pending

\* insert() of an entry with the current time
Inserted(e) == Append(Without({e.cs}), e)

\* The failure counters of the pending entry of an aircraft
Failures(c) ==
    IF c \in PendingCallsigns
    THEN LET e == CHOOSE e \in {pending[i] : i \in DOMAIN pending} : e.cs = c
         IN  [failed |-> e.failed, gone |-> e.gone]
    ELSE [failed |-> 0, gone |-> 0]

\* A removal of the aircraft is still to come, whatever happens until then
RemovalDue(c) == c \in removals \/ \E t \in adds : t.cs = c /\ t.by = "disabled"

\* The numbers of a callsign that are in use anywhere; a new request takes another one
UsedIds(c) == {o.id : o \in {x \in creating \cup alive \cup verifies \cup condemned : x.cs = c}}

\* updateAircraftRendered() of the provider, which knows only aircraft in range
MarkedRendered(c) == rendered \cup ({c} \cap inRange)

-----------------------------------------------------------------------------
(* Removing aircraft *)

\* Aircraft of S whose objects have to wait until they are removed
Deferred(objs, S) == {c \in S : objs[c] # Nothing /\ ~ objs[c].removing /\ MustWait(objs[c])}

\* Aircraft of S whose objects are removed now
Killed(objs, S) == {c \in S : objs[c] # Nothing /\ ~ objs[c].removing} \ Deferred(objs, S)

\* As if an object were forgotten when its removal is asked for
ForgottenFrom(objs, S) == [c \in Callsign |-> IF c \in S THEN Nothing ELSE objs[c]]

\* The objects after physicallyRemoveRemoteAircraft() for each aircraft of S
RemovedFrom(objs, S) ==
    [c \in Callsign |->
        IF c \in Deferred(objs, S) THEN [objs[c] EXCEPT !.deferred = TRUE]
        ELSE IF c \in Killed(objs, S) THEN [objs[c] EXCEPT !.removing = TRUE, !.deferred = FALSE]
        ELSE objs[c]]

\* What physicallyRemoveRemoteAircraft() does besides: a second trial later, the call
\* into the simulator (for object 0 if the id is not known), and the flag in the
\* provider; now holds what timers and flags are without the call
Now == [rendered |-> rendered, removals |-> removals]

RemoveEffects(objs, S, now, forgotten) ==
    LET killed == Killed(objs, S)
        unknown == {c \in killed : ~ objs[c].known}
    IN  /\ removals' = now.removals \cup Deferred(objs, S)
        /\ condemned' = condemned \cup {[id |-> objs[c].id, cs |-> c] : c \in killed \ unknown}
        /\ rendered' = now.rendered \ killed
        /\ stranded' = stranded \cup unknown \cup forgotten

\* physicallyRemoveRemoteAircraft() for each aircraft of S
RemoveAircraft(S, now) ==
    /\ objects' = RemovedFrom(objects, S)
    /\ pending' = Without(S)
    /\ again' = [c \in Callsign |-> IF c \in S THEN NoModel ELSE again[c]]
    /\ RemoveEffects(objects, S, now, {})

-----------------------------------------------------------------------------
(* Adding aircraft: physicallyAddRemoteAircraftImpl() *)

\* The objects without the outdated ones
Current == [c \in Callsign |-> IF c \in Outdated THEN Nothing ELSE objects[c]]

\* An aircraft that is outdated itself is left alone
AddOutdated(c) ==
    /\ c \in Outdated
    /\ objects' = Current
    /\ stranded' = stranded \cup Outdated
    /\ UNCHANGED <<pending, again, removals, condemned, rendered, crossed, creating>>

\* As if an aircraft with an object were always rendered
RestoredAlways(o) == TRUE

\* Whether the flag of an aircraft that is there already is restored
Restored(o) == o.confirmed /\ (PendingAdded(o) \/ o.removing)

\* The aircraft is there already
AddSameModel(c, m) ==
    /\ c \in Held \ Outdated
    /\ objects[c].model = m
    /\ objects' = Current
    /\ rendered' = IF Restored(objects[c]) THEN MarkedRendered(c) ELSE rendered
    /\ stranded' = stranded \cup Outdated
    /\ crossed' = IF objects[c].removing \/ RemovalDue(c) THEN crossed \cup {c} ELSE crossed
    /\ UNCHANGED <<pending, again, removals, condemned, creating>>

\* Another model: remove the object, and add the aircraft again when that is done
AddOtherModel(c, m) ==
    /\ c \in Held \ Outdated
    /\ objects[c].model # m
    /\ objects' = RemovedFrom(Current, {c})
    /\ pending' = Without({c})
    /\ again' = [again EXCEPT ![c] = m]
    /\ RemoveEffects(Current, {c}, Now, Outdated)
    /\ crossed' = IF RemovalDue(c) \/ c \in removals' THEN crossed \cup {c} ELSE crossed
    /\ UNCHANGED creating

\* As if objects could be added while another one is being added
CanAddAlways == simulating

\* Not while the simulation is stopped or another object is being added
CanAdd == simulating /\ \A d \in Held \ Outdated : ~ PendingAdded(objects[d])

AddLater(c, m) ==
    /\ c \notin Held
    /\ ~ CanAdd
    /\ objects' = Current
    /\ pending' = Inserted([cs |-> c, model |-> m, failed |-> Failures(c).failed, gone |-> Failures(c).gone])
    /\ stranded' = stranded \cup Outdated
    /\ crossed' = IF RemovalDue(c) THEN crossed \cup {c} ELSE crossed
    /\ UNCHANGED <<again, removals, condemned, rendered, creating>>

AddNotInRange(c) ==
    /\ c \notin Held
    /\ CanAdd
    /\ c \notin inRange
    /\ objects' = Current
    /\ pending' = Without({c})
    /\ again' = [again EXCEPT ![c] = NoModel]
    /\ stranded' = stranded \cup Outdated
    /\ UNCHANGED <<removals, condemned, rendered, crossed, creating>>

\* The simulator is asked for an object, which is inserted without its object id
AddNow(c, m) ==
    /\ c \notin Held
    /\ CanAdd
    /\ c \in inRange
    /\ UsedIds(c) # Id
    /\ pending' = Without({c})
    /\ again' = [again EXCEPT ![c] = NoModel]
    /\ LET i == CHOOSE i \in Id : i \notin UsedIds(c)
           f == Failures(c)
       IN  /\ objects' = [Current EXCEPT ![c] =
                 [id |-> i, model |-> m, failed |-> f.failed, gone |-> f.gone, known |-> FALSE,
                  confirmed |-> FALSE, lights |-> FALSE, deferred |-> FALSE, removing |-> FALSE, old |-> FALSE]]
           /\ creating' = creating \cup
                 {[id |-> i, cs |-> c, model |-> m, failed |-> f.failed, gone |-> f.gone]}
    /\ stranded' = stranded \cup Outdated
    /\ crossed' = IF RemovalDue(c) THEN crossed \cup {c} ELSE crossed \ {c}
    /\ UNCHANGED <<removals, condemned, rendered>>

\* physicallyAddRemoteAircraftImpl() while the aircraft in on are enabled; outdated ones
\* are disabled
AddAircraft(c, m, on) ==
    /\ enabled' = on \ Outdated
    /\ \/ AddOutdated(c)
       \/ AddSameModel(c, m)
       \/ AddOtherModel(c, m)
       \/ AddLater(c, m)
       \/ AddNotInRange(c)
       \/ AddNow(c, m)

-----------------------------------------------------------------------------
(* Calls of the simulator context *)

Asked(c) == asks[c] < MaxAsks[c] /\ asks' = [asks EXCEPT ![c] = @ + 1] /\ UNCHANGED faults

Fault == faults < MaxFaults /\ faults' = faults + 1 /\ UNCHANGED asks

\* The network reports an aircraft; it is enabled and has no model yet
EnterRange(c) ==
    /\ c \notin inRange
    /\ inRange' = inRange \cup {c}
    /\ enabled' = enabled \cup {c}
    /\ UNCHANGED <<rendered, model, simulating, driverVars, timerVars, simVars, asks, faults, historyVars>>

\* logicallyAddRemoteAircraft() with the result of a first or repeated matching
LogicallyAdd(c, m) ==
    /\ Asked(c)
    /\ c \in inRange
    /\ model' = [model EXCEPT ![c] = m]
    /\ givenUp' = givenUp \ {c}
    /\ IF c \in enabled
       THEN AddAircraft(c, m, enabled)
       ELSE UNCHANGED <<enabled, rendered, driverVars, removals, condemned, stranded, crossed, creating>>
    /\ UNCHANGED <<inRange, simulating, adds, retries, verifies, alive>>

\* An aircraft leaves the range.  When its pilot has left the network, the context
\* removes it (logicallyRemoveRemoteAircraft()); when it has flown away, nobody is told.
LeaveRange(c, told) ==
    /\ Asked(c)
    /\ c \in inRange
    /\ inRange' = inRange \ {c}
    /\ enabled' = enabled \ {c}
    /\ model' = [model EXCEPT ![c] = NoModel]
    /\ RemoveAircraft(IF told THEN {c} ELSE {}, [Now EXCEPT !.rendered = @ \ {c}])
    /\ crossed' = crossed \ {c}
    /\ givenUp' = givenUp \ {c}
    /\ UNCHANGED <<simulating, adds, retries, verifies, creating, alive>>

\* changeRemoteAircraftEnabled() after the user has changed the flag
ChangeEnabled(c) ==
    /\ Asked(c)
    /\ c \in inRange
    /\ model[c] # NoModel
    /\ IF c \in enabled
       THEN /\ enabled' = enabled \ {c}
            /\ RemoveAircraft({c}, Now)
            /\ UNCHANGED <<crossed, creating>>
       ELSE AddAircraft(c, model[c], enabled \cup {c})
    /\ givenUp' = givenUp \ {c}
    /\ UNCHANGED <<inRange, model, simulating, adds, retries, verifies, alive>>

\* changeRemoteAircraftModel(): removed now and added with the new model by a timer
ChangeModel(c, m) ==
    /\ Asked(c)
    /\ c \in inRange
    /\ model[c] # NoModel
    /\ model' = [model EXCEPT ![c] = m]
    /\ IF c \in Held
       THEN /\ RemoveAircraft({c}, Now)
            /\ adds' = adds \cup {[cs |-> c, model |-> m, by |-> IF c \in enabled THEN "changed" ELSE "disabled"]}
       ELSE UNCHANGED <<rendered, driverVars, removals, condemned, stranded, adds>>
    /\ UNCHANGED <<inRange, enabled, simulating, retries, verifies, creating, alive, crossed, givenUp>>

\* logicallyReAddRemoteAircraft(): removed now and added by a timer
ReAdd(c) ==
    /\ Asked(c)
    /\ c \in inRange
    /\ RemoveAircraft({c}, Now)
    /\ adds' = adds \cup {[cs |-> c, model |-> NoModel, by |-> "readd"]}
    /\ UNCHANGED <<inRange, enabled, model, simulating, retries, verifies, creating, alive, crossed, givenUp>>

\* The network connection ends: the provider is cleared, then the driver
\* (physicallyRemoveAllRemoteAircraft()), which forgets all objects
RemoveAll ==
    /\ Fault
    /\ inRange' = {} /\ enabled' = {}
    /\ model' = [c \in Callsign |-> NoModel]
    /\ RemoveEffects(objects, Held, [Now EXCEPT !.rendered = {}], Deferred(objects, Held))
    /\ objects' = [c \in Callsign |-> Nothing]
    /\ pending' = <<>>
    /\ again' = [c \in Callsign |-> NoModel]
    /\ crossed' = {} /\ givenUp' = {}
    /\ UNCHANGED <<simulating, adds, retries, verifies, creating, alive>>

\* onSimStopped() and onSimRunningDeferred()
SimStops ==
    /\ simulating
    /\ Fault
    /\ simulating' = FALSE
    /\ UNCHANGED <<providerVars, driverVars, timerVars, simVars, historyVars>>

SimRuns ==
    /\ ~ simulating
    /\ simulating' = TRUE
    /\ UNCHANGED <<providerVars, driverVars, timerVars, simVars, asks, faults, historyVars>>

-----------------------------------------------------------------------------
(* Timers of the driver *)

\* addPendingAircraft() for the list p: aircraft out of range are dropped, the oldest
\* one is added a moment later; S are aircraft dropped already
AddPendingAircraft(p, S) ==
    LET left == Matching(p, {e \in Entry : e.cs \in inRange})
        dropped == S \cup ({p[i].cs : i \in DOMAIN p} \ inRange)
    IN  /\ pending' = left
        /\ again' = [c \in Callsign |-> IF c \in dropped THEN NoModel ELSE again[c]]
        /\ adds' = IF left = <<>> THEN adds
                   ELSE adds \cup {[cs |-> Head(left).cs, model |-> Head(left).model, by |-> "pending"]}

\* timerBasedObjectAddOrRemove(): also removes objects of aircraft out of range
TimerBased ==
    LET missing == Held \ inRange IN
    /\ AddPendingAircraft(Without(missing), missing)
    /\ objects' = RemovedFrom(objects, missing)
    /\ RemoveEffects(objects, missing, Now, {})
    /\ UNCHANGED <<inRange, enabled, model, simulating, retries, verifies, creating, alive, asks, faults, crossed, givenUp>>

\* physicallyRemoveAircraftNotInProvider(), shortly after any removal; the timer is not
\* represented, the cleanup may run at any time
RemoveNotInProvider ==
    /\ RemoveAircraft(Held \ inRange, Now)
    /\ UNCHANGED <<inRange, enabled, model, simulating, adds, retries, verifies, creating, alive, asks, faults, crossed, givenUp>>

\* The second trial to remove an aircraft
RemoveAgain(c) ==
    /\ c \in removals
    /\ RemoveAircraft({c}, [Now EXCEPT !.removals = @ \ {c}])
    /\ UNCHANGED <<inRange, enabled, model, simulating, adds, retries, verifies, creating, alive, asks, faults, crossed, givenUp>>

\* Whether a timer still finds its aircraft worth adding
StillToAdd(t) ==
    CASE t.by = "pending" -> inRange # {}
      [] t.by = "removed" -> TRUE
      [] t.by = "changed" -> t.cs \in inRange
      [] t.by = "disabled" -> FALSE
      [] t.by = "readd" -> t.cs \in enabled /\ model[t.cs] # NoModel

AddTimerFires(t) ==
    /\ t \in adds
    /\ adds' = adds \ {t}
    /\ \/ /\ StillToAdd(t)
          /\ AddAircraft(t.cs, IF t.by = "readd" THEN model[t.cs] ELSE t.model, enabled)
       \/ /\ t.by = "disabled" /\ t.cs \in inRange
          /\ RemoveAircraft({t.cs}, Now)
          /\ UNCHANGED <<enabled, crossed, creating>>
       \/ /\ ~ StillToAdd(t) /\ ~ (t.by = "disabled" /\ t.cs \in inRange)
          /\ UNCHANGED <<enabled, rendered, driverVars, removals, condemned, stranded, crossed, creating>>
    /\ UNCHANGED <<inRange, model, simulating, retries, verifies, alive, asks, faults, givenUp>>

\* An aircraft that could not be created becomes pending
RetryFires(e) ==
    /\ e \in retries
    /\ retries' = retries \ {e}
    /\ pending' = Inserted(e)
    /\ UNCHANGED <<providerVars, simulating, objects, again, adds, removals, verifies, simVars, asks, faults, historyVars>>

\* verifyAddedRemoteAircraft(): the object is confirmed if it is still there; then the
\* next pending aircraft is added
VerifyAdded(v) ==
    LET c == v.cs
        confirm == c \in Held /\ objects[c].known /\ ~ objects[c].removing
        drop == IF confirm \/ (c \notin Held /\ c \notin inRange) THEN {c} ELSE {}
    IN  /\ v \in verifies
        /\ verifies' = verifies \ {v}
        /\ objects' = IF confirm
                      THEN [objects EXCEPT ![c] = [@ EXCEPT !.confirmed = TRUE, !.deferred = FALSE, !.old = FALSE]]
                      ELSE objects
        /\ rendered' = IF confirm THEN MarkedRendered(c) ELSE rendered
        /\ AddPendingAircraft(Without(drop), drop)
        /\ UNCHANGED <<inRange, enabled, model, simulating, removals, retries, simVars, asks, faults, historyVars>>

\* More than five seconds have passed since the object was asked for
Age(c) ==
    /\ c \in Held /\ PendingAdded(objects[c]) /\ ~ objects[c].old
    /\ objects' = [objects EXCEPT ![c].old = TRUE]
    /\ UNCHANGED <<providerVars, simulating, pending, again, timerVars, simVars, asks, faults, historyVars>>

-----------------------------------------------------------------------------
(* Messages of the simulator *)

\* The object of a request, if the driver still has it
Ours(o) == o.cs \in Held /\ objects[o.cs].id = o.id

\* SIMCONNECT_RECV_ID_ASSIGNED_OBJECT_ID: the object exists; verified after a second
Assigned(o) ==
    LET new == [id |-> o.id, cs |-> o.cs] IN
    /\ o \in creating
    /\ creating' = creating \ {o}
    /\ alive' = alive \cup {new}
    /\ IF Ours(o)
       THEN objects' = [objects EXCEPT ![o.cs].known = TRUE] /\ verifies' = verifies \cup {new}
       ELSE UNCHANGED <<objects, verifies>>
    /\ UNCHANGED <<providerVars, simulating, pending, again, adds, removals, retries, condemned, asks, faults, historyVars>>

\* SIMCONNECT_EXCEPTION_CREATE_OBJECT_FAILED and addingAircraftFailed(): once more after
\* a while, or disabled, also when the model is not installed properly
CreateFails(o, installed) ==
    LET failed == (IF Ours(o) THEN objects[o.cs].failed ELSE o.failed) + 1
        disable == ~ installed \/ failed > MaxFailed
    IN  /\ Fault
        /\ o \in creating
        /\ creating' = creating \ {o}
        /\ objects' = [objects EXCEPT ![o.cs] = Nothing]
        /\ pending' = Without({o.cs})
        /\ again' = [again EXCEPT ![o.cs] = NoModel]
        /\ enabled' = IF disable THEN enabled \ {o.cs} ELSE enabled
        /\ retries' = IF disable THEN retries
                      ELSE retries \cup {[cs |-> o.cs, model |-> o.model, failed |-> failed, gone |-> o.gone]}
        /\ UNCHANGED <<inRange, rendered, model, simulating, adds, removals, verifies, alive, condemned, historyVars>>

\* simulatorReportedObjectRemoved(): as asked for, or because the object was out of
\* the simulator's reality bubble or otherwise impossible
ObjectRemoved(o) ==
    LET c == o.cs
        x == objects[c]
        unasked == ~ x.removing
    IN  /\ o \in alive
        /\ IF o \in condemned THEN UNCHANGED <<asks, faults>> ELSE Fault
        /\ alive' = alive \ {o}
        /\ condemned' = condemned \ {o}
        /\ IF Ours(o) /\ x.known
           THEN /\ pending' = IF unasked /\ x.gone < MaxGone
                              THEN Inserted([cs |-> c, model |-> x.model, failed |-> x.failed, gone |-> x.gone + 1])
                              ELSE pending
                /\ givenUp' = IF unasked /\ x.gone >= MaxGone THEN givenUp \cup {c} ELSE givenUp
                /\ objects' = [objects EXCEPT ![c] = Nothing]
                /\ rendered' = rendered \ {c}
                /\ adds' = IF again[c] = NoModel THEN adds
                           ELSE adds \cup {[cs |-> c, model |-> again[c], by |-> "removed"]}
                /\ again' = [again EXCEPT ![c] = NoModel]
           ELSE UNCHANGED <<pending, givenUp, objects, rendered, adds, again>>
        /\ UNCHANGED <<inRange, enabled, model, simulating, removals, retries, verifies, creating, stranded, crossed>>

\* The lights of a confirmed object arrive
LightsReceived(c) ==
    /\ c \in Held
    /\ objects[c].confirmed /\ ~ objects[c].removing /\ ~ objects[c].lights
    /\ objects' = [objects EXCEPT ![c].lights = TRUE]
    /\ UNCHANGED <<providerVars, simulating, pending, again, timerVars, simVars, asks, faults, historyVars>>

-----------------------------------------------------------------------------
Context ==
    \/ \E c \in Callsign : EnterRange(c) \/ ChangeEnabled(c) \/ ReAdd(c)
    \/ \E c \in Callsign : \E m \in Fits[c] : LogicallyAdd(c, m) \/ ChangeModel(c, m)
    \/ \E c \in Callsign, told \in BOOLEAN : LeaveRange(c, told)
    \/ RemoveAll \/ SimStops \/ SimRuns

Timers ==
    \/ TimerBased \/ RemoveNotInProvider
    \/ \E c \in Callsign : RemoveAgain(c) \/ Age(c)
    \/ \E t \in adds : AddTimerFires(t)
    \/ \E e \in retries : RetryFires(e)
    \/ \E v \in verifies : VerifyAdded(v)

Simulator ==
    \/ \E o \in creating : Assigned(o)
    \/ \E o \in creating, installed \in BOOLEAN : CreateFails(o, installed)
    \/ \E o \in alive : ObjectRemoved(o)
    \/ \E c \in Callsign : LightsReceived(c)

Next == Context \/ Timers \/ Simulator

\* The event loop runs the timers, and the simulator removes what it is told to remove.
\* Whether it answers requests to create objects is left open.
Fairness ==
    /\ WF_vars(TimerBased)
    /\ WF_vars(\E c \in Callsign : RemoveAgain(c))
    /\ WF_vars(\E c \in Callsign : Age(c))
    /\ WF_vars(\E t \in adds : AddTimerFires(t))
    /\ WF_vars(\E v \in verifies : VerifyAdded(v))
    /\ WF_vars(\E o \in condemned : ObjectRemoved(o))

Spec == Init /\ [][Next]_vars /\ Fairness

-----------------------------------------------------------------------------
(* Properties *)

\* The assertion in physicallyAddRemoteAircraftImpl(): "There must be only 0..1 pending
\* objects", whatever becomes of an object between request, verification and removal.
OnePendingAdd == \A c, d \in Held : PendingAdded(objects[c]) /\ PendingAdded(objects[d]) => c = d

\* An aircraft marked as rendered is in the simulator, unless the driver has once
\* forgotten an object of its callsign.
RenderedIsShown ==
    \A c \in rendered \ stranded :
        c \in Held /\ objects[c].confirmed /\ [id |-> objects[c].id, cs |-> c] \in alive

\* No object is left behind in the simulator: it is that of an aircraft in the driver's
\* list or about to be removed.  Excepted are callsigns with an object that the driver
\* has outdated, removed before it knew its id, or forgotten with the network connection.
NoGhosts == \A o \in alive : o.cs \in stranded \/ o \in condemned \/ (Ours(o) /\ objects[o.cs].known)

\* An aircraft that is to be shown is in the simulator or on its way: in the list of
\* objects, pending, or in a timer.  Excepted are aircraft added or changed while a removal
\* of theirs was under way, and those the simulator has removed too often.
OnItsWay(c) ==
    \/ c \in Held /\ ~ objects[c].removing
    \/ c \in PendingCallsigns
    \/ again[c] # NoModel
    \/ \E t \in adds \cup retries : t.cs = c

NotLost ==
    \A c \in enabled \ (crossed \cup givenUp) : model[c] # NoModel => OnItsWay(c)

\* A pending aircraft is added, or dropped, also when the simulator never answers: at the
\* latest the object in its way is outdated.  Excepted is the case of an aircraft that is
\* pending and added at the same time: it stays the oldest one in the list for good.
EventuallyAdded ==
    \A c \in Callsign :
        c \in PendingCallsigns
        ~> \/ c \notin PendingCallsigns
           \/ ~ simulating
           \/ \E d \in Held \cap PendingCallsigns : ~ PendingAdded(objects[d])

\* The object of an aircraft that has left the range is removed, also if its removal was
\* deferred, unless it was forgotten or the aircraft comes back.
EventuallyRemoved ==
    \A c \in Callsign : c \in Held \ inRange ~> c \notin Held \/ c \in inRange \/ c \in stranded
=============================================================================
