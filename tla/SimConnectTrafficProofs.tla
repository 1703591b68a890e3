----------------------- MODULE SimConnectTrafficProofs -----------------------
(***************************************************************************)
(* The driver's objects, the simulator's objects and the aircraft to be    *)
(* shown, for any number of aircraft, models, requests and failures.       *)
(*                                                                         *)
(* ObjectInv relates the three lists of objects of a callsign: what the    *)
(* driver knows, what the simulator is asked for and what it has.  WayInv  *)
(* says more than NotLost: while a removal of an aircraft is still to come *)
(* that would take it from the pending list, a timer of its own adds it;   *)
(* and an aircraft comes into range without a model.                       *)
(***************************************************************************)
EXTENDS SimConnectTraffic, QueueLemmas

ObjectInv(c) ==
    /\ c \in Held => LET x == objects[c]
                         o == [id |-> x.id, cs |-> c]
                     IN  /\ x.known => o \in alive
                         /\ x.confirmed => x.known
                         /\ x.removing => c \in stranded \/ (x.known /\ o \in condemned)
    /\ \A o \in creating : o.cs = c => c \in stranded \/ (Ours(o) /\ ~ objects[c].known)
    /\ \A o \in alive : o.cs = c => c \in stranded \/ o \in condemned \/ (Ours(o) /\ objects[c].known)
    /\ c \in rendered => c \in stranded \/ (c \in Held /\ objects[c].confirmed)

\* No two requests for the same object.
DistinctRequests == \A o, p \in creating : o.cs = p.cs /\ o.id = p.id => o = p

Driven(c) == \E t \in adds : t.cs = c /\ t.by # "disabled"

WayInv(c) ==
    /\ c \in enabled \ (crossed \cup givenUp) /\ model[c] # NoModel =>
          OnItsWay(c) /\ (RemovalDue(c) => Driven(c))
    /\ c \notin inRange => model[c] = NoModel

ObjectsInv == DistinctRequests /\ \A c \in Callsign : ObjectInv(c)

TrafficInv == TypeOK /\ OnePendingAdd /\ ObjectsInv /\ \A c \in Callsign : WayInv(c)
-----------------------------------------------------------------------------
(* Objects *)

Objects == [Callsign -> Object \cup {Nothing}]

\* What happens to an object between its request and its removal.
LEMMA ObjectUpdates ==
    ASSUME NEW x \in Object
    PROVE  /\ [x EXCEPT !.deferred = TRUE] \in Object
           /\ [x EXCEPT !.removing = TRUE, !.deferred = FALSE] \in Object
           /\ [x EXCEPT !.confirmed = TRUE, !.deferred = FALSE, !.old = FALSE] \in Object
           /\ [x EXCEPT !.old = TRUE] \in Object
           /\ [x EXCEPT !.known = TRUE] \in Object
           /\ [x EXCEPT !.lights = TRUE] \in Object
BY DEF Object

\* y is x but for its flags of removal, its age and its lights.
Same(x, y) ==
    /\ y \in Object
    /\ y.id = x.id /\ y.model = x.model /\ y.failed = x.failed /\ y.gone = x.gone
    /\ y.known = x.known /\ y.confirmed = x.confirmed

LEMMA SameUpdates ==
    ASSUME NEW x \in Object
    PROVE  /\ Same(x, [x EXCEPT !.deferred = TRUE]) /\ [x EXCEPT !.deferred = TRUE].removing = x.removing
           /\ Same(x, [x EXCEPT !.removing = TRUE, !.deferred = FALSE])
           /\ [x EXCEPT !.removing = TRUE, !.deferred = FALSE].removing = TRUE
           /\ Same(x, [x EXCEPT !.old = TRUE]) /\ [x EXCEPT !.old = TRUE].removing = x.removing
           /\ Same(x, [x EXCEPT !.lights = TRUE]) /\ [x EXCEPT !.lights = TRUE].removing = x.removing
           /\ Same(x, x)
BY DEF Object, Same

\* The objects after a removal.
LEMMA RemovedEffect ==
    ASSUME NEW objs \in Objects, NEW S
    PROVE  /\ RemovedFrom(objs, S) \in Objects
           /\ \A c \in Callsign :
                 /\ objs[c] = Nothing => RemovedFrom(objs, S)[c] = Nothing
                 /\ objs[c] # Nothing =>
                       /\ Same(objs[c], RemovedFrom(objs, S)[c])
                       /\ RemovedFrom(objs, S)[c].removing <=> (objs[c].removing \/ c \in Killed(objs, S))
                 /\ c \notin S => RemovedFrom(objs, S)[c] = objs[c]
<1> DEFINE R == RemovedFrom(objs, S)
<1>1. ASSUME NEW c \in Callsign
      PROVE  /\ R[c] \in Object \cup {Nothing}
             /\ objs[c] = Nothing => R[c] = Nothing
             /\ objs[c] # Nothing =>
                   /\ Same(objs[c], R[c])
                   /\ R[c].removing <=> (objs[c].removing \/ c \in Killed(objs, S))
             /\ c \notin S => R[c] = objs[c]
  <2>1. R[c] = IF c \in Deferred(objs, S) THEN [objs[c] EXCEPT !.deferred = TRUE]
               ELSE IF c \in Killed(objs, S) THEN [objs[c] EXCEPT !.removing = TRUE, !.deferred = FALSE]
               ELSE objs[c]
    BY DEF RemovedFrom
  <2>2. objs[c] \in Object \cup {Nothing}
    BY DEF Objects
  <2>3. objs[c] # Nothing =>
          /\ [objs[c] EXCEPT !.deferred = TRUE] \in Object
          /\ [objs[c] EXCEPT !.removing = TRUE, !.deferred = FALSE] \in Object
          /\ Same(objs[c], [objs[c] EXCEPT !.deferred = TRUE])
          /\ [objs[c] EXCEPT !.deferred = TRUE].removing = objs[c].removing
          /\ Same(objs[c], [objs[c] EXCEPT !.removing = TRUE, !.deferred = FALSE])
          /\ [objs[c] EXCEPT !.removing = TRUE, !.deferred = FALSE].removing = TRUE
          /\ Same(objs[c], objs[c])
    BY <2>2, ObjectUpdates, SameUpdates
  <2>4. CASE c \in Deferred(objs, S)
    <3>1. c \in S /\ objs[c] # Nothing /\ c \notin Killed(objs, S)
      BY <2>4 DEF Deferred, Killed
    <3>2. R[c] = [objs[c] EXCEPT !.deferred = TRUE]
      BY <2>1, <2>4
    <3> HIDE DEF R
    <3> QED
      BY <2>3, <3>1, <3>2
  <2>5. CASE c \in Killed(objs, S)
    <3>1. c \in S /\ objs[c] # Nothing /\ c \notin Deferred(objs, S)
      BY <2>5 DEF Killed
    <3>2. R[c] = [objs[c] EXCEPT !.removing = TRUE, !.deferred = FALSE]
      BY <2>1, <2>5, <3>1
    <3> HIDE DEF R
    <3> QED
      BY <2>3, <2>5, <3>1, <3>2
  <2>6. CASE c \notin Deferred(objs, S) /\ c \notin Killed(objs, S)
    <3>1. R[c] = objs[c]
      BY <2>1, <2>6
    <3> HIDE DEF R
    <3> QED
      BY <2>2, <2>3, <2>6, <3>1
  <2> QED
    BY <2>4, <2>5, <2>6
<1>2. R \in Objects
  <2>1. R = [c \in Callsign |-> R[c]]
    BY DEF RemovedFrom
  <2> HIDE DEF R
  <2> QED
    BY <1>1, <2>1 DEF Objects
<1> QED
  BY <1>1, <1>2

-----------------------------------------------------------------------------
(* Pending aircraft *)

CallsignsOf(p) == {p[i].cs : i \in DOMAIN p}

LEMMA MatchingCallsigns ==
    ASSUME NEW p \in Seq(Entry), NEW C
    PROVE  /\ Matching(p, {e \in Entry : e.cs \in C}) \in Seq(Entry)
           /\ CallsignsOf(Matching(p, {e \in Entry : e.cs \in C})) = CallsignsOf(p) \cap C
<1>1. PICK f : f = {e \in Entry : e.cs \in C}
  OBVIOUS
<1>2. PICK q \in Seq(Entry) : q = Matching(p, f)
  <2>1. Matching(p, f) \in Seq(Entry)
    BY MatchingType
  <2> QED
    BY <2>1, Zenon
<1>3. \A e : (\E i \in DOMAIN q : q[i] = e) <=> e \in f /\ \E i \in DOMAIN p : p[i] = e
  BY <1>2, MatchingEntries
<1>4. \A i \in DOMAIN p : p[i] \in Entry
  OBVIOUS
<1>5. ASSUME NEW x \in CallsignsOf(q) PROVE x \in CallsignsOf(p) \cap C
  <2>1. PICK i \in DOMAIN q : x = q[i].cs
    BY <1>5 DEF CallsignsOf
  <2>2. q[i] \in f /\ \E j \in DOMAIN p : p[j] = q[i]
    BY <1>3
  <2> QED
    BY <1>1, <2>1, <2>2 DEF CallsignsOf
<1>6. ASSUME NEW x \in CallsignsOf(p) \cap C PROVE x \in CallsignsOf(q)
  <2>1. PICK i \in DOMAIN p : x = p[i].cs
    BY <1>6 DEF CallsignsOf
  <2>2. p[i] \in f
    BY <1>1, <1>4, <1>6, <2>1
  <2>3. \E j \in DOMAIN q : q[j] = p[i]
    BY <1>3, <2>2
  <2> QED
    BY <2>1, <2>3 DEF CallsignsOf
<1> QED
  BY <1>1, <1>2, <1>5, <1>6

LEMMA WithoutEffect ==
    ASSUME pending \in Seq(Entry), NEW S
    PROVE  Without(S) \in Seq(Entry) /\ CallsignsOf(Without(S)) = PendingCallsigns \ S
<1> DEFINE C == Callsign \ S
<1>1. {e \in Entry : e.cs \notin S} = {e \in Entry : e.cs \in C}
  BY DEF Entry
<1>2. Without(S) = Matching(pending, {e \in Entry : e.cs \in C})
  BY <1>1 DEF Without
<1>3. CallsignsOf(pending) = PendingCallsigns /\ PendingCallsigns \subseteq Callsign
  <2>1. \A i \in DOMAIN pending : pending[i] \in Entry
    OBVIOUS
  <2>2. \A e \in Entry : e.cs \in Callsign
    BY DEF Entry
  <2> QED
    BY <2>1, <2>2 DEF CallsignsOf, PendingCallsigns
<1>4. Without(S) \in Seq(Entry) /\ CallsignsOf(Without(S)) = CallsignsOf(pending) \cap C
  <2> HIDE DEF C
  <2>1. /\ Matching(pending, {e \in Entry : e.cs \in C}) \in Seq(Entry)
        /\ CallsignsOf(Matching(pending, {e \in Entry : e.cs \in C})) = CallsignsOf(pending) \cap C
    BY MatchingCallsigns, Zenon
  <2> QED
    BY <1>2, <2>1
<1> QED
  BY <1>3, <1>4

LEMMA InsertedEffect ==
    ASSUME pending \in Seq(Entry), NEW e \in Entry
    PROVE  Inserted(e) \in Seq(Entry) /\ CallsignsOf(Inserted(e)) = PendingCallsigns \cup {e.cs}
<1>1. PICK w \in Seq(Entry) : w = Without({e.cs})
  BY WithoutEffect
<1>2. CallsignsOf(w) = PendingCallsigns \ {e.cs}
  BY <1>1, WithoutEffect
<1>3. PICK q \in Seq(Entry) : q = Append(w, e)
  <2>1. Append(w, e) \in Seq(Entry)
    OBVIOUS
  <2> QED
    BY <2>1, Zenon
<1>4. Len(q) = Len(w) + 1 /\ q[Len(w) + 1] = e /\ Len(w) \in Nat
  BY <1>3
<1>5. \A i \in 1 .. Len(w) : q[i] = w[i]
  BY <1>3
<1>6. DOMAIN q = 1 .. Len(q) /\ DOMAIN w = 1 .. Len(w)
  OBVIOUS
<1>7. CallsignsOf(q) = CallsignsOf(w) \cup {e.cs}
  BY <1>4, <1>5, <1>6 DEF CallsignsOf
<1> QED
  BY <1>1, <1>2, <1>3, <1>7 DEF Inserted

LEMMA FailuresType ==
    ASSUME TypeOK, NEW c
    PROVE  Failures(c).failed \in 0..MaxFailed /\ Failures(c).gone \in 0..MaxGone
<1> DEFINE E == {pending[i] : i \in DOMAIN pending}
           e == CHOOSE x \in E : x.cs = c
<1>1. CASE c \in PendingCallsigns
  <2>1. \E x \in E : x.cs = c
    BY <1>1 DEF PendingCallsigns
  <2>2. e \in E
    BY <2>1
  <2>3. E \subseteq Entry
    BY DEF TypeOK
  <2>4. e \in Entry
    BY <2>2, <2>3, Zenon
  <2>5. Failures(c) = [failed |-> e.failed, gone |-> e.gone]
    BY <1>1 DEF Failures
  <2> HIDE DEF e
  <2> QED
    BY <2>4, <2>5 DEF Entry
<1>2. CASE c \notin PendingCallsigns
  <2>1. Failures(c) = [failed |-> 0, gone |-> 0]
    BY <1>2 DEF Failures
  <2> QED
    BY <2>1, TrafficAssumption
<1> QED
  BY <1>1, <1>2

-----------------------------------------------------------------------------
(* Types *)

\* The variables that adding and removing aircraft change.
CallTypes ==
    /\ objects \in Objects
    /\ pending \in Seq(Entry)
    /\ again \in [Callsign -> Model \cup {NoModel}]
    /\ removals \subseteq Callsign
    /\ condemned \subseteq SimObject
    /\ rendered \subseteq inRange
    /\ stranded \subseteq Callsign
    /\ crossed \subseteq Callsign
    /\ creating \subseteq Request

OtherTypes ==
    /\ inRange \subseteq Callsign /\ enabled \subseteq inRange
    /\ model \in [Callsign -> Model \cup {NoModel}]
    /\ simulating \in BOOLEAN
    /\ adds \subseteq AddTimer
    /\ retries \subseteq Entry
    /\ verifies \subseteq SimObject
    /\ alive \subseteq SimObject
    /\ givenUp \subseteq Callsign

CountTypes ==
    /\ asks \in [Callsign -> Nat] /\ (\A c \in Callsign : asks[c] <= MaxAsks[c])
    /\ faults \in 0..MaxFaults

LEMMA TypeParts ==
    /\ TypeOK <=> CallTypes /\ OtherTypes /\ CountTypes
    /\ TypeOK' <=> CallTypes' /\ OtherTypes' /\ CountTypes'
BY DEF TypeOK, CallTypes, OtherTypes, CountTypes, Objects

LEMMA HeldObjects ==
    ASSUME TypeOK
    PROVE  /\ \A c \in Callsign : objects[c] \in Object \cup {Nothing}
           /\ \A c \in Held : objects[c] \in Object /\ c \in Callsign
           /\ Outdated \subseteq Held /\ Held \subseteq Callsign
BY DEF TypeOK, Held, Outdated

LEMMA CurrentType ==
    ASSUME TypeOK
    PROVE  /\ Current \in Objects
           /\ \A c \in Callsign : Current[c] = IF c \in Outdated THEN Nothing ELSE objects[c]
BY DEF TypeOK, Current, Objects

LEMMA RemoveEffectsType ==
    ASSUME TypeOK, NEW objs \in Objects, NEW S \in SUBSET Callsign, NEW now, NEW forgotten \in SUBSET Callsign,
           now.removals \subseteq Callsign, RemoveEffects(objs, S, now, forgotten)
    PROVE  /\ removals' \subseteq Callsign
           /\ condemned' \subseteq SimObject
           /\ rendered' \subseteq now.rendered
           /\ stranded' \subseteq Callsign
<1>1. Deferred(objs, S) \subseteq Callsign /\ Killed(objs, S) \subseteq Callsign
  BY DEF Deferred, Killed
<1>2. \A c \in Killed(objs, S) : objs[c] \in Object
  BY DEF Killed, Objects
<1>3. \A c \in Killed(objs, S) : [id |-> objs[c].id, cs |-> c] \in SimObject
  BY <1>1, <1>2 DEF Object, SimObject
<1>4. condemned \subseteq SimObject /\ stranded \subseteq Callsign
  BY DEF TypeOK
<1> QED
  BY <1>1, <1>3, <1>4 DEF RemoveEffects

LEMMA RemoveAircraftType ==
    ASSUME TypeOK, NEW S \in SUBSET Callsign, NEW now, now.removals \subseteq Callsign,
           now.rendered \subseteq inRange', RemoveAircraft(S, now), crossed' \subseteq Callsign, creating' = creating
    PROVE  CallTypes'
<1>1. objects \in Objects /\ pending \in Seq(Entry) /\ again \in [Callsign -> Model \cup {NoModel}] /\ creating \subseteq Request
  BY DEF TypeOK, Objects
<1>2. objects' \in Objects
  BY <1>1, RemovedEffect DEF RemoveAircraft
<1>3. pending' \in Seq(Entry)
  BY <1>1, WithoutEffect DEF RemoveAircraft
<1>4. again' \in [Callsign -> Model \cup {NoModel}]
  BY <1>1 DEF RemoveAircraft
<1>5. RemoveEffects(objects, S, now, {})
  BY DEF RemoveAircraft
<1>6. /\ removals' \subseteq Callsign /\ condemned' \subseteq SimObject
      /\ rendered' \subseteq now.rendered /\ stranded' \subseteq Callsign
  <2>1. PICK none \in SUBSET Callsign : none = {}
    OBVIOUS
  <2>2. RemoveEffects(objects, S, now, none)
    BY <1>5, <2>1
  <2> QED
    BY <1>1, <2>2, RemoveEffectsType
<1> QED
  BY <1>1, <1>2, <1>3, <1>4, <1>6 DEF CallTypes

LEMMA AddAircraftType ==
    ASSUME TypeOK, NEW c \in Callsign, NEW m \in Model, NEW on, on \subseteq inRange, inRange' = inRange,
           AddAircraft(c, m, on)
    PROVE  CallTypes' /\ enabled' \subseteq inRange'
<1>1. /\ objects \in Objects /\ pending \in Seq(Entry) /\ again \in [Callsign -> Model \cup {NoModel}]
      /\ removals \subseteq Callsign /\ condemned \subseteq SimObject /\ rendered \subseteq inRange
      /\ stranded \subseteq Callsign /\ crossed \subseteq Callsign /\ creating \subseteq Request
  BY DEF TypeOK, Objects
<1>2. enabled' \subseteq inRange'
  BY DEF AddAircraft
<1>3. Current \in Objects /\ Outdated \in SUBSET Callsign /\ stranded \cup Outdated \subseteq Callsign
  BY <1>1, CurrentType, HeldObjects
<1>4. Without({c}) \in Seq(Entry)
  BY <1>1, WithoutEffect
<1>5. PICK f \in 0..MaxFailed, g \in 0..MaxGone : f = Failures(c).failed /\ g = Failures(c).gone
  BY FailuresType
<1>6. CASE AddOutdated(c)
  <2>1. /\ objects' = Current /\ stranded' = stranded \cup Outdated
        /\ UNCHANGED <<pending, again, removals, condemned, rendered, crossed, creating>>
    BY <1>6 DEF AddOutdated
  <2> QED
    BY <1>1, <1>2, <1>3, <2>1 DEF CallTypes
<1>7. CASE AddSameModel(c, m)
  <2>1. rendered' \subseteq inRange
    BY <1>1, <1>7 DEF AddSameModel, MarkedRendered
  <2>2. crossed' \subseteq Callsign
    BY <1>1, <1>7 DEF AddSameModel
  <2> QED
    <3>1. /\ objects' = Current /\ stranded' = stranded \cup Outdated
          /\ UNCHANGED <<pending, again, removals, condemned, creating>>
      BY <1>7 DEF AddSameModel
    <3> QED
      BY <1>1, <1>2, <1>3, <2>1, <2>2, <3>1 DEF CallTypes
<1>8. CASE AddOtherModel(c, m)
  <2>1. objects' \in Objects
    BY <1>3, <1>8, RemovedEffect DEF AddOtherModel
  <2>2. /\ removals' \subseteq Callsign /\ condemned' \subseteq SimObject
        /\ rendered' \subseteq Now.rendered /\ stranded' \subseteq Callsign
    <3>1. Now.removals \subseteq Callsign
      BY <1>1 DEF Now
    <3>2. {c} \in SUBSET Callsign
      OBVIOUS
    <3>3. RemoveEffects(Current, {c}, Now, Outdated)
      BY <1>8 DEF AddOtherModel
    <3> QED
      BY <1>3, <3>1, <3>2, <3>3, RemoveEffectsType
  <2>3. Now.rendered = rendered
    BY DEF Now
  <2>4. crossed' \subseteq Callsign
    BY <1>1, <1>8 DEF AddOtherModel
  <2>5. again' \in [Callsign -> Model \cup {NoModel}] /\ pending' \in Seq(Entry) /\ creating' = creating
    BY <1>1, <1>4, <1>8 DEF AddOtherModel
  <2> QED
    BY <1>1, <1>2, <2>1, <2>2, <2>3, <2>4, <2>5 DEF CallTypes
<1>9. CASE AddLater(c, m)
  <2>1. [cs |-> c, model |-> m, failed |-> f, gone |-> g] \in Entry
    BY DEF Entry
  <2>2. pending' \in Seq(Entry)
    BY <1>1, <1>5, <1>9, <2>1, InsertedEffect DEF AddLater
  <2>3. crossed' \subseteq Callsign
    BY <1>1, <1>9 DEF AddLater
  <2> QED
    <3>1. /\ objects' = Current /\ stranded' = stranded \cup Outdated
          /\ UNCHANGED <<again, removals, condemned, rendered, creating>>
      BY <1>9 DEF AddLater
    <3> QED
      BY <1>1, <1>2, <1>3, <2>2, <2>3, <3>1 DEF CallTypes
<1>10. CASE AddNotInRange(c)
  <2>1. again' \in [Callsign -> Model \cup {NoModel}]
    BY <1>1, <1>10 DEF AddNotInRange
  <2> QED
    <3>1. /\ objects' = Current /\ stranded' = stranded \cup Outdated /\ pending' = Without({c})
          /\ UNCHANGED <<removals, condemned, rendered, crossed, creating>>
      BY <1>10 DEF AddNotInRange
    <3> QED
      BY <1>1, <1>2, <1>3, <1>4, <2>1, <3>1 DEF CallTypes
<1>11. CASE AddNow(c, m)
  <2>1. UsedIds(c) \subseteq Id
    BY DEF TypeOK, UsedIds, Request, SimObject
  <2>2. \E i \in Id : i \notin UsedIds(c)
    BY <1>11, <2>1 DEF AddNow
  <2>3. PICK i \in Id : i = CHOOSE j \in Id : j \notin UsedIds(c)
    BY <2>2
  <2> DEFINE x == [id |-> i, model |-> m, failed |-> f, gone |-> g, known |-> FALSE, confirmed |-> FALSE,
                   lights |-> FALSE, deferred |-> FALSE, removing |-> FALSE, old |-> FALSE]
             o == [id |-> i, cs |-> c, model |-> m, failed |-> f, gone |-> g]
  <2>4. objects' = [Current EXCEPT ![c] = x] /\ creating' = creating \cup {o}
    BY <1>5, <1>11, <2>3 DEF AddNow
  <2>5. x \in Object /\ o \in Request
    BY DEF Object, Request
  <2> HIDE DEF x, o
  <2>6. objects' \in Objects /\ creating' \subseteq Request
    BY <1>1, <1>3, <2>4, <2>5 DEF Objects
  <2>7. again' \in [Callsign -> Model \cup {NoModel}] /\ pending' \in Seq(Entry)
    BY <1>1, <1>4, <1>11 DEF AddNow
  <2>8. crossed' \subseteq Callsign
    BY <1>1, <1>11 DEF AddNow
  <2> QED
    <3>1. stranded' = stranded \cup Outdated /\ UNCHANGED <<removals, condemned, rendered>>
      BY <1>11 DEF AddNow
    <3> QED
      BY <1>1, <1>2, <1>3, <2>6, <2>7, <2>8, <3>1 DEF CallTypes
<1> QED
  BY <1>2, <1>6, <1>7, <1>8, <1>9, <1>10, <1>11 DEF AddAircraft

LEMMA AddPendingType ==
    ASSUME TypeOK, NEW p \in Seq(Entry), NEW S, AddPendingAircraft(p, S)
    PROVE  /\ pending' \in Seq(Entry)
           /\ again' \in [Callsign -> Model \cup {NoModel}]
           /\ adds' \subseteq AddTimer
           /\ adds \subseteq adds'
           /\ CallsignsOf(pending') = CallsignsOf(p) \cap inRange
<1>1. PICK left \in Seq(Entry) : left = Matching(p, {e \in Entry : e.cs \in inRange})
  <2>1. Matching(p, {e \in Entry : e.cs \in inRange}) \in Seq(Entry)
    BY MatchingCallsigns, Zenon
  <2> QED
    BY <2>1, Zenon
<1>2. CallsignsOf(left) = CallsignsOf(p) \cap inRange
  <2>1. CallsignsOf(Matching(p, {e \in Entry : e.cs \in inRange})) = CallsignsOf(p) \cap inRange
    BY MatchingCallsigns, Zenon
  <2> QED
    BY <1>1, <2>1
<1>3. pending' = left
  BY <1>1 DEF AddPendingAircraft
<1>4. again' \in [Callsign -> Model \cup {NoModel}]
  BY DEF AddPendingAircraft, TypeOK
<1>5. adds' = IF left = <<>> THEN adds
              ELSE adds \cup {[cs |-> Head(left).cs, model |-> Head(left).model, by |-> "pending"]}
  BY <1>1 DEF AddPendingAircraft
<1>6. left # <<>> => [cs |-> Head(left).cs, model |-> Head(left).model, by |-> "pending"] \in AddTimer
  <2>1. left # <<>> => Head(left) \in Entry
    OBVIOUS
  <2> QED
    BY <2>1 DEF Entry, AddTimer
<1>7. adds \subseteq AddTimer
  BY DEF TypeOK
<1> QED
  BY <1>2, <1>3, <1>4, <1>5, <1>6, <1>7


LEMMA CountsType ==
    ASSUME TypeOK, UNCHANGED <<asks, faults>> \/ Fault \/ \E c \in Callsign : Asked(c)
    PROVE  CountTypes'
<1>1. CASE UNCHANGED <<asks, faults>>
  BY <1>1, TypeParts DEF CountTypes
<1>2. CASE Fault
  BY <1>2, TypeParts, TrafficAssumption DEF CountTypes, Fault
<1>3. ASSUME NEW c \in Callsign, Asked(c) PROVE CountTypes'
  <2>1. asks \in [Callsign -> Nat] /\ (\A d \in Callsign : asks[d] <= MaxAsks[d]) /\ faults \in 0..MaxFaults
    BY TypeParts DEF CountTypes
  <2>2. asks[c] \in Nat /\ MaxAsks[c] \in Nat /\ asks[c] < MaxAsks[c] /\ faults' = faults
    BY <1>3, <2>1, TrafficAssumption DEF Asked
  <2>3. asks' = [asks EXCEPT ![c] = asks[c] + 1]
    BY <1>3 DEF Asked
  <2>4. asks[c] + 1 \in Nat /\ asks[c] + 1 <= MaxAsks[c]
    BY <2>2
  <2> QED
    BY <2>1, <2>2, <2>3, <2>4 DEF CountTypes
<1> QED
  BY <1>1, <1>2, <1>3

-----------------------------------------------------------------------------
(* What removing and adding do for each aircraft *)

\* An object x of the callsign d stays what it is; it may be on its way out, which the
\* simulator has been told of.
Carried(x, d) ==
    /\ x = Nothing => objects'[d] = Nothing
    /\ x # Nothing =>
          /\ objects'[d] # Nothing /\ Same(x, objects'[d])
          /\ objects'[d].removing =>
                x.removing \/ d \in stranded' \/ (x.known /\ [id |-> x.id, cs |-> d] \in condemned')

\* Or the driver forgets it.
Steady(d) == Carried(objects[d], d) \/ (objects'[d] = Nothing /\ d \in stranded')

LEMMA UnchangedCarried ==
    ASSUME TypeOK, NEW d \in Callsign, objects'[d] = objects[d]
    PROVE  Carried(objects[d], d)
<1>1. objects[d] # Nothing => Same(objects[d], objects[d])
  BY HeldObjects, SameUpdates
<1> QED
  BY <1>1 DEF Carried

LEMMA RemovalEffect ==
    ASSUME NEW objs \in Objects, NEW S \in SUBSET Callsign, NEW now, NEW forgotten,
           objects' = RemovedFrom(objs, S), RemoveEffects(objs, S, now, forgotten)
    PROVE  /\ stranded \subseteq stranded' /\ forgotten \subseteq stranded' /\ condemned \subseteq condemned'
           /\ rendered' \subseteq now.rendered
           /\ now.removals \subseteq removals'
           /\ \A d \in Callsign : Carried(objs[d], d)
           /\ \A d \in Callsign \ S : objects'[d] = objs[d] /\ (d \in removals' => d \in now.removals)
<1>1. /\ stranded \subseteq stranded' /\ forgotten \subseteq stranded' /\ condemned \subseteq condemned'
      /\ rendered' \subseteq now.rendered /\ now.removals \subseteq removals'
  BY DEF RemoveEffects
<1>2. \A d \in Callsign :
          /\ objs[d] = Nothing => objects'[d] = Nothing
          /\ objs[d] # Nothing =>
                /\ Same(objs[d], objects'[d])
                /\ objects'[d].removing <=> (objs[d].removing \/ d \in Killed(objs, S))
          /\ d \notin S => objects'[d] = objs[d]
  BY RemovedEffect
<1>3. \A d \in Killed(objs, S) :
          d \in stranded' \/ (objs[d].known /\ [id |-> objs[d].id, cs |-> d] \in condemned')
  BY DEF RemoveEffects
<1>4. \A d \in Callsign : objs[d] # Nothing => objects'[d] # Nothing
  BY <1>2, NothingAssumption DEF Same
<1>5. \A d \in Callsign : Carried(objs[d], d)
  BY <1>2, <1>3, <1>4 DEF Carried
<1>6. Deferred(objs, S) \subseteq S /\ removals' = now.removals \cup Deferred(objs, S)
  BY DEF Deferred, RemoveEffects
<1> QED
  BY <1>1, <1>2, <1>5, <1>6

LEMMA PendingAre ==
    PendingCallsigns = CallsignsOf(pending) /\ PendingCallsigns' = CallsignsOf(pending')
BY DEF PendingCallsigns, CallsignsOf

LEMMA RemoveAircraftEffect ==
    ASSUME TypeOK, NEW S \in SUBSET Callsign, NEW now, RemoveAircraft(S, now)
    PROVE  /\ stranded \subseteq stranded' /\ condemned \subseteq condemned'
           /\ rendered' \subseteq now.rendered
           /\ \A d \in Callsign : Carried(objects[d], d)
           /\ \A d \in Callsign \ S :
                 /\ objects'[d] = objects[d] /\ again'[d] = again[d]
                 /\ d \in removals' => d \in now.removals
           /\ PendingCallsigns' = PendingCallsigns \ S
<1>1. objects \in Objects /\ pending \in Seq(Entry)
  BY DEF TypeOK, Objects
<1>2. PICK none : none = {}
  OBVIOUS
<1>3. objects' = RemovedFrom(objects, S) /\ RemoveEffects(objects, S, now, none) /\ pending' = Without(S)
  BY <1>2 DEF RemoveAircraft
<1>4. /\ stranded \subseteq stranded' /\ condemned \subseteq condemned'
      /\ rendered' \subseteq now.rendered
      /\ \A d \in Callsign : Carried(objects[d], d)
      /\ \A d \in Callsign \ S : objects'[d] = objects[d] /\ (d \in removals' => d \in now.removals)
  BY <1>1, <1>3, RemovalEffect
<1>5. PendingCallsigns' = PendingCallsigns \ S
  BY <1>1, <1>3, WithoutEffect, PendingAre
<1>6. \A d \in Callsign \ S : again'[d] = again[d]
  BY DEF RemoveAircraft
<1> QED
  BY <1>4, <1>5, <1>6


\* What adding the aircraft c does to another one.
Undisturbed(d) ==
    /\ Steady(d)
    /\ d \notin Outdated => objects'[d] = objects[d]
    /\ again'[d] = again[d]
    /\ d \in removals' => d \in removals
    /\ d \in PendingCallsigns' <=> d \in PendingCallsigns
    /\ d \in crossed' <=> d \in crossed
    /\ d \in rendered' => d \in rendered
    /\ \A o \in creating' : o.cs = d => o \in creating

LEMMA AddAircraftOthers ==
    ASSUME TypeOK, NEW c \in Callsign, NEW m \in Model, NEW on, AddAircraft(c, m, on)
    PROVE  /\ stranded \subseteq stranded' /\ condemned \subseteq condemned'
           /\ \A d \in Callsign \ {c} : Undisturbed(d)
<1>1. objects \in Objects /\ pending \in Seq(Entry) /\ again \in [Callsign -> Model \cup {NoModel}]
  BY DEF TypeOK, Objects
<1>2. /\ Current \in Objects
      /\ \A d \in Callsign : Current[d] = IF d \in Outdated THEN Nothing ELSE objects[d]
  BY CurrentType
<1>3. CallsignsOf(Without({c})) = PendingCallsigns \ {c}
  BY <1>1, WithoutEffect
<1>4. PICK f \in 0..MaxFailed, g \in 0..MaxGone : f = Failures(c).failed /\ g = Failures(c).gone
  BY FailuresType
<1>5. ASSUME NEW d \in Callsign, objects'[d] = Current[d], Outdated \subseteq stranded'
      PROVE  Steady(d) /\ (d \notin Outdated => objects'[d] = objects[d])
  BY <1>2, <1>5, UnchangedCarried DEF Steady
<1>6. CASE AddOutdated(c)
  BY <1>5, <1>6 DEF AddOutdated, Undisturbed, PendingCallsigns
<1>7. CASE AddSameModel(c, m)
  <2>1. /\ objects' = Current /\ stranded' = stranded \cup Outdated
        /\ UNCHANGED <<pending, again, removals, condemned, creating>>
    BY <1>7 DEF AddSameModel
  <2>2. \A d \in Callsign \ {c} : (d \in crossed' <=> d \in crossed) /\ (d \in rendered' => d \in rendered)
    BY <1>7 DEF AddSameModel, MarkedRendered
  <2> QED
    BY <1>5, <2>1, <2>2 DEF Undisturbed, PendingCallsigns
<1>8. CASE AddOtherModel(c, m)
  <2>1. PICK S \in SUBSET Callsign : S = {c}
    OBVIOUS
  <2>2. objects' = RemovedFrom(Current, S) /\ RemoveEffects(Current, S, Now, Outdated)
    BY <1>8, <2>1 DEF AddOtherModel
  <2>3. /\ stranded \subseteq stranded' /\ Outdated \subseteq stranded' /\ condemned \subseteq condemned'
        /\ rendered' \subseteq Now.rendered
        /\ \A d \in Callsign \ S : objects'[d] = Current[d] /\ (d \in removals' => d \in Now.removals)
    BY <1>2, <2>2, RemovalEffect
  <2>4. Now.rendered = rendered /\ Now.removals = removals
    BY DEF Now
  <2>5. PendingCallsigns' = PendingCallsigns \ {c}
    BY <1>3, <1>8, PendingAre DEF AddOtherModel
  <2>6. \A d \in Callsign \ {c} : again'[d] = again[d] /\ (d \in crossed' <=> d \in crossed)
    BY <1>1, <1>8 DEF AddOtherModel
  <2>7. creating' = creating
    BY <1>8 DEF AddOtherModel
  <2> QED
    BY <1>5, <2>1, <2>3, <2>4, <2>5, <2>6, <2>7 DEF Undisturbed
<1>9. CASE AddLater(c, m)
  <2>1. PICK e \in Entry : e = [cs |-> c, model |-> m, failed |-> f, gone |-> g]
    <3>1. [cs |-> c, model |-> m, failed |-> f, gone |-> g] \in Entry
      BY DEF Entry
    <3> QED
      BY <3>1, Zenon
  <2>2. pending' = Inserted(e) /\ e.cs = c
    BY <1>4, <1>9, <2>1 DEF AddLater
  <2>3. PendingCallsigns' = PendingCallsigns \cup {c}
    BY <1>1, <2>2, InsertedEffect, PendingAre
  <2>4. /\ objects' = Current /\ stranded' = stranded \cup Outdated
        /\ UNCHANGED <<again, removals, condemned, rendered, creating>>
    BY <1>9 DEF AddLater
  <2>5. \A d \in Callsign \ {c} : d \in crossed' <=> d \in crossed
    BY <1>9 DEF AddLater
  <2> QED
    BY <1>5, <2>3, <2>4, <2>5 DEF Undisturbed
<1>10. CASE AddNotInRange(c)
  <2>1. PendingCallsigns' = PendingCallsigns \ {c}
    BY <1>3, <1>10, PendingAre DEF AddNotInRange
  <2>2. /\ objects' = Current /\ stranded' = stranded \cup Outdated
        /\ UNCHANGED <<removals, condemned, rendered, crossed, creating>>
    BY <1>10 DEF AddNotInRange
  <2>3. \A d \in Callsign \ {c} : again'[d] = again[d]
    BY <1>1, <1>10 DEF AddNotInRange
  <2> QED
    BY <1>5, <2>1, <2>2, <2>3 DEF Undisturbed
<1>11. CASE AddNow(c, m)
  <2>1. PendingCallsigns' = PendingCallsigns \ {c}
    BY <1>3, <1>11, PendingAre DEF AddNow
  <2>2. stranded' = stranded \cup Outdated /\ UNCHANGED <<removals, condemned, rendered>>
    BY <1>11 DEF AddNow
  <2>3. \A d \in Callsign \ {c} : again'[d] = again[d] /\ (d \in crossed' <=> d \in crossed)
    BY <1>1, <1>11 DEF AddNow
  <2>4. \A d \in Callsign \ {c} : objects'[d] = Current[d]
    BY <1>2, <1>11 DEF AddNow, Objects
  <2>5. \A o \in creating' : o.cs # c => o \in creating
    BY <1>11 DEF AddNow
  <2> QED
    BY <1>5, <2>1, <2>2, <2>3, <2>4, <2>5 DEF Undisturbed
<1> QED
  BY <1>6, <1>7, <1>8, <1>9, <1>10, <1>11 DEF AddAircraft


\* The new object and the request for it.
NewObject(c, m) ==
    [id |-> CHOOSE i \in Id : i \notin UsedIds(c), model |-> m,
     failed |-> Failures(c).failed, gone |-> Failures(c).gone, known |-> FALSE,
     confirmed |-> FALSE, lights |-> FALSE, deferred |-> FALSE, removing |-> FALSE, old |-> FALSE]

NewRequest(c, m) ==
    [id |-> CHOOSE i \in Id : i \notin UsedIds(c), cs |-> c, model |-> m,
     failed |-> Failures(c).failed, gone |-> Failures(c).gone]

LEMMA AddNowEffect ==
    ASSUME TypeOK, NEW c \in Callsign, NEW m \in Model, AddNow(c, m)
    PROVE  /\ objects[c] = Nothing
           /\ objects'[c] = NewObject(c, m) /\ NewObject(c, m) \in Object
           /\ creating' = creating \cup {NewRequest(c, m)}
           /\ NewObject(c, m).id \notin UsedIds(c)
           /\ rendered' = rendered
<1>1. UsedIds(c) \subseteq Id
  BY DEF TypeOK, UsedIds, Request, SimObject
<1>2. \E i \in Id : i \notin UsedIds(c)
  BY <1>1 DEF AddNow
<1>3. PICK i \in Id : i = (CHOOSE j \in Id : j \notin UsedIds(c)) /\ i \notin UsedIds(c)
  BY <1>2
<1>4. Failures(c).failed \in 0..MaxFailed /\ Failures(c).gone \in 0..MaxGone
  BY FailuresType
<1>5. NewObject(c, m) \in Object /\ NewObject(c, m).id = i
  BY <1>3, <1>4 DEF NewObject, Object
<1>6. Current \in Objects
  BY CurrentType
<1>7. objects' = [Current EXCEPT ![c] = NewObject(c, m)]
  BY DEF AddNow, NewObject
<1>8. objects'[c] = NewObject(c, m)
  BY <1>6, <1>7 DEF Objects
<1>9. creating' = creating \cup {NewRequest(c, m)} /\ rendered' = rendered
  BY DEF AddNow, NewRequest
<1>10. objects[c] = Nothing
  BY DEF AddNow, Held
<1> QED
  BY <1>3, <1>5, <1>8, <1>9, <1>10

\* What adding the aircraft c does to its object, unless there is a new one.
LEMMA AddAircraftSteady ==
    ASSUME TypeOK, NEW c \in Callsign, NEW m \in Model, NEW on, AddAircraft(c, m, on), ~ AddNow(c, m)
    PROVE  /\ Steady(c) /\ creating' = creating
           /\ c \in rendered' => c \in rendered \/ (objects'[c] # Nothing /\ objects'[c].confirmed)
<1>2. /\ Current \in Objects
      /\ \A d \in Callsign : Current[d] = IF d \in Outdated THEN Nothing ELSE objects[d]
  BY CurrentType
<1>5. ASSUME objects'[c] = Current[c], Outdated \subseteq stranded'
      PROVE  Steady(c) /\ (c \notin Outdated => objects'[c] = objects[c])
  BY <1>2, <1>5, UnchangedCarried DEF Steady
<1>6. CASE AddOutdated(c)
  BY <1>5, <1>6 DEF AddOutdated
<1>7. CASE AddSameModel(c, m)
  <2>1. /\ objects' = Current /\ stranded' = stranded \cup Outdated /\ creating' = creating
        /\ c \in Held \ Outdated
        /\ rendered' = IF Restored(objects[c]) THEN MarkedRendered(c) ELSE rendered
    BY <1>7 DEF AddSameModel
  <2>2. Restored(objects[c]) => objects[c].confirmed
    BY DEF Restored
  <2>3. objects[c] # Nothing
    BY <2>1 DEF Held
  <2> QED
    BY <1>5, <2>1, <2>2, <2>3
<1>8. CASE AddOtherModel(c, m)
  <2>1. PICK S \in SUBSET Callsign : S = {c}
    OBVIOUS
  <2>2. objects' = RemovedFrom(Current, S) /\ RemoveEffects(Current, S, Now, Outdated) /\ creating' = creating
    BY <1>8, <2>1 DEF AddOtherModel
  <2>3. rendered' \subseteq Now.rendered /\ Carried(Current[c], c)
    BY <1>2, <2>2, RemovalEffect
  <2>4. Now.rendered = rendered
    BY DEF Now
  <2>5. Current[c] = objects[c]
    BY <1>2, <1>8 DEF AddOtherModel
  <2> QED
    BY <2>2, <2>3, <2>4, <2>5 DEF Steady
<1>9. CASE AddLater(c, m)
  BY <1>5, <1>9 DEF AddLater
<1>10. CASE AddNotInRange(c)
  BY <1>5, <1>10 DEF AddNotInRange
<1> QED
  BY <1>6, <1>7, <1>8, <1>9, <1>10 DEF AddAircraft

\* An aircraft that has been added is on its way, and no removal of it is still to come, if
\* it is to be shown and has not crossed a removal.
LEMMA AddAircraftWay ==
    ASSUME TypeOK, NEW c \in Callsign, NEW m \in Model, NEW on, on \subseteq inRange, AddAircraft(c, m, on),
           c \in enabled' \ crossed'
    PROVE  /\ \/ objects'[c] # Nothing /\ ~ objects'[c].removing
              \/ c \in PendingCallsigns'
              \/ again'[c] # NoModel
           /\ ~ RemovalDue(c) /\ c \notin removals'
<1>1. objects \in Objects /\ pending \in Seq(Entry) /\ again \in [Callsign -> Model \cup {NoModel}]
  BY DEF TypeOK, Objects
<1>2. /\ Current \in Objects
      /\ \A d \in Callsign : Current[d] = IF d \in Outdated THEN Nothing ELSE objects[d]
  BY CurrentType
<1>3. c \notin Outdated /\ c \in inRange
  BY DEF AddAircraft
<1>4. c \in removals => RemovalDue(c)
  BY DEF RemovalDue
<1>5. ~ AddOutdated(c) /\ ~ AddNotInRange(c)
  BY <1>3 DEF AddOutdated, AddNotInRange
<1>6. CASE AddSameModel(c, m)
  <2>1. /\ objects' = Current /\ removals' = removals /\ c \in Held
        /\ crossed' = IF objects[c].removing \/ RemovalDue(c) THEN crossed \cup {c} ELSE crossed
    BY <1>6 DEF AddSameModel
  <2>2. objects'[c] = objects[c] /\ objects[c] # Nothing
    BY <1>2, <1>3, <2>1 DEF Held
  <2> QED
    BY <1>4, <2>1, <2>2
<1>7. CASE AddOtherModel(c, m)
  <2>1. again'[c] = m /\ m # NoModel
    BY <1>1, <1>7, TrafficAssumption DEF AddOtherModel
  <2>2. ~ (RemovalDue(c) \/ c \in removals')
    BY <1>7 DEF AddOtherModel
  <2> QED
    BY <2>1, <2>2
<1>8. CASE AddLater(c, m)
  <2>1. PICK f \in 0..MaxFailed, g \in 0..MaxGone : f = Failures(c).failed /\ g = Failures(c).gone
    BY FailuresType
  <2>2. PICK e \in Entry : e = [cs |-> c, model |-> m, failed |-> f, gone |-> g]
    <3>1. [cs |-> c, model |-> m, failed |-> f, gone |-> g] \in Entry
      BY DEF Entry
    <3> QED
      BY <3>1, Zenon
  <2>3. pending' = Inserted(e) /\ e.cs = c
    BY <1>8, <2>1, <2>2 DEF AddLater
  <2>4. PendingCallsigns' = PendingCallsigns \cup {c}
    BY <1>1, <2>3, InsertedEffect, PendingAre
  <2>5. removals' = removals /\ ~ RemovalDue(c)
    BY <1>8 DEF AddLater
  <2> QED
    BY <1>4, <2>4, <2>5
<1>9. CASE AddNow(c, m)
  <2>1. objects'[c] = NewObject(c, m) /\ NewObject(c, m) \in Object
    BY <1>9, AddNowEffect
  <2>2. ~ NewObject(c, m).removing
    BY DEF NewObject
  <2>3. removals' = removals /\ ~ RemovalDue(c)
    BY <1>9 DEF AddNow
  <2> QED
    BY <1>4, <2>1, <2>2, <2>3, NothingAssumption
<1> QED
  BY <1>5, <1>6, <1>7, <1>8, <1>9 DEF AddAircraft

-----------------------------------------------------------------------------
(* Every step keeps the types *)

LEMMA TypeContext ==
    ASSUME TypeOK, NEW c \in Callsign,
           \/ EnterRange(c) \/ ChangeEnabled(c) \/ ReAdd(c) \/ \E told \in BOOLEAN : LeaveRange(c, told)
           \/ \E m \in Model : LogicallyAdd(c, m) \/ ChangeModel(c, m)
    PROVE  TypeOK'
<1>1. CallTypes /\ OtherTypes /\ CountTypes
  BY TypeParts
<1>2. Now.rendered = rendered /\ Now.removals = removals
  BY DEF Now
<1>3. PICK S \in SUBSET Callsign : S = {c}
  OBVIOUS
<1>4. rendered \subseteq inRange /\ removals \subseteq Callsign /\ crossed \subseteq Callsign
      /\ enabled \subseteq inRange /\ inRange \subseteq Callsign
  BY <1>1 DEF CallTypes, OtherTypes
<1>5. CASE EnterRange(c)
  <2>1. CountTypes'
    BY <1>5, CountsType DEF EnterRange
  <2>2. CallTypes'
    BY <1>1, <1>4, <1>5 DEF CallTypes, EnterRange, driverVars, timerVars, simVars, historyVars
  <2>3. OtherTypes'
    BY <1>1, <1>4, <1>5 DEF OtherTypes, EnterRange, driverVars, timerVars, simVars, historyVars
  <2> QED
    BY <2>1, <2>2, <2>3, TypeParts
<1>6. CASE ChangeEnabled(c)
  <2>1. CountTypes'
    BY <1>6, CountsType DEF ChangeEnabled
  <2>2. CallTypes' /\ enabled' \subseteq inRange'
    <3>1. inRange' = inRange /\ c \in inRange /\ model[c] \in Model
      BY <1>1, <1>6 DEF ChangeEnabled, OtherTypes
    <3>2. CASE c \in enabled
      <4>1. enabled' = enabled \ {c} /\ RemoveAircraft(S, Now) /\ crossed' = crossed /\ creating' = creating
        BY <1>3, <1>6, <3>2 DEF ChangeEnabled
      <4>2. Now.removals \subseteq Callsign /\ Now.rendered \subseteq inRange' /\ crossed' \subseteq Callsign
        BY <1>2, <1>4, <3>1, <4>1
      <4>3. CallTypes'
        BY <4>1, <4>2, RemoveAircraftType
      <4> QED
        BY <1>4, <3>1, <4>1, <4>3
    <3>3. CASE c \notin enabled
      <4>1. PICK on : on = enabled \cup {c}
        OBVIOUS
      <4>2. AddAircraft(c, model[c], on)
        BY <1>6, <3>3, <4>1 DEF ChangeEnabled
      <4>3. on \subseteq inRange
        BY <1>4, <3>1, <4>1
      <4> QED
        BY <3>1, <4>2, <4>3, AddAircraftType
    <3> QED
      BY <3>2, <3>3
  <2>3. OtherTypes'
    BY <1>1, <1>4, <1>6, <2>2 DEF OtherTypes, ChangeEnabled
  <2> QED
    BY <2>1, <2>2, <2>3, TypeParts
<1>7. CASE ReAdd(c)
  <2>1. CountTypes'
    BY <1>7, CountsType DEF ReAdd
  <2>2. RemoveAircraft(S, Now) /\ crossed' = crossed /\ creating' = creating /\ inRange' = inRange
    BY <1>3, <1>7 DEF ReAdd
  <2>3. CallTypes'
    <3>1. Now.removals \subseteq Callsign /\ Now.rendered \subseteq inRange' /\ crossed' \subseteq Callsign
      BY <1>2, <1>4, <2>2
    <3> QED
      BY <2>2, <3>1, RemoveAircraftType
  <2>4. [cs |-> c, model |-> NoModel, by |-> "readd"] \in AddTimer
    BY DEF AddTimer
  <2>5. OtherTypes'
    BY <1>1, <1>7, <2>4 DEF OtherTypes, ReAdd
  <2> QED
    BY <2>1, <2>3, <2>5, TypeParts
<1>8. ASSUME NEW m \in Model, LogicallyAdd(c, m) PROVE TypeOK'
  <2>1. CountTypes'
    BY <1>8, CountsType DEF LogicallyAdd
  <2>2. inRange' = inRange
    BY <1>8 DEF LogicallyAdd
  <2>3. CallTypes' /\ enabled' \subseteq inRange'
    <3>1. CASE c \in enabled
      <4>1. AddAircraft(c, m, enabled)
        BY <1>8, <3>1 DEF LogicallyAdd
      <4> QED
        BY <1>4, <2>2, <4>1, AddAircraftType
    <3>2. CASE c \notin enabled
      <4>1. UNCHANGED <<enabled, rendered, driverVars, removals, condemned, stranded, crossed, creating>>
        BY <1>8, <3>2 DEF LogicallyAdd
      <4> QED
        BY <1>1, <1>4, <2>2, <4>1 DEF CallTypes, driverVars
    <3> QED
      BY <3>1, <3>2
  <2>4. OtherTypes'
    BY <1>1, <1>4, <1>8, <2>3 DEF OtherTypes, LogicallyAdd
  <2> QED
    BY <2>1, <2>3, <2>4, TypeParts
<1>9. ASSUME NEW m \in Model, ChangeModel(c, m) PROVE TypeOK'
  <2>1. CountTypes'
    BY <1>9, CountsType DEF ChangeModel
  <2>2. crossed' = crossed /\ creating' = creating /\ inRange' = inRange
    BY <1>9 DEF ChangeModel
  <2>3. CallTypes' /\ adds' \subseteq AddTimer
    <3>1. CASE c \in Held
      <4>1. RemoveAircraft(S, Now)
        BY <1>3, <1>9, <3>1 DEF ChangeModel
      <4>2. Now.removals \subseteq Callsign /\ Now.rendered \subseteq inRange' /\ crossed' \subseteq Callsign
        BY <1>2, <1>4, <2>2
      <4>3. CallTypes'
        BY <2>2, <4>1, <4>2, RemoveAircraftType
      <4>4. [cs |-> c, model |-> m, by |-> IF c \in enabled THEN "changed" ELSE "disabled"] \in AddTimer
        BY DEF AddTimer
      <4>5. adds' = adds \cup {[cs |-> c, model |-> m, by |-> IF c \in enabled THEN "changed" ELSE "disabled"]}
        BY <1>9, <3>1 DEF ChangeModel
      <4>6. adds \subseteq AddTimer
        BY <1>1 DEF OtherTypes
      <4> QED
        BY <4>3, <4>4, <4>5, <4>6
    <3>2. CASE c \notin Held
      <4>1. UNCHANGED <<rendered, driverVars, removals, condemned, stranded, adds>>
        BY <1>9, <3>2 DEF ChangeModel
      <4> QED
        BY <1>1, <2>2, <4>1 DEF CallTypes, OtherTypes, driverVars
    <3> QED
      BY <3>1, <3>2
  <2>4. OtherTypes'
    BY <1>1, <1>9, <2>3 DEF OtherTypes, ChangeModel
  <2> QED
    BY <2>1, <2>3, <2>4, TypeParts
<1>10. ASSUME NEW told \in BOOLEAN, LeaveRange(c, told) PROVE TypeOK'
  <2>1. CountTypes'
    BY <1>10, CountsType DEF LeaveRange
  <2>2. PICK T \in SUBSET Callsign : T = IF told THEN {c} ELSE {}
    OBVIOUS
  <2>3. PICK now : now = [Now EXCEPT !.rendered = @ \ {c}]
    OBVIOUS
  <2>4. now.rendered = rendered \ {c} /\ now.removals = removals
    BY <2>3 DEF Now
  <2>5. RemoveAircraft(T, now) /\ crossed' = crossed \ {c} /\ creating' = creating /\ inRange' = inRange \ {c}
    BY <1>10, <2>2, <2>3 DEF LeaveRange
  <2>6. now.removals \subseteq Callsign /\ now.rendered \subseteq inRange' /\ crossed' \subseteq Callsign
    BY <1>4, <2>4, <2>5
  <2>7. CallTypes'
    BY <2>5, <2>6, RemoveAircraftType
  <2>8. OtherTypes'
    BY <1>1, <1>4, <1>10 DEF OtherTypes, LeaveRange
  <2> QED
    BY <2>1, <2>7, <2>8, TypeParts
<1> QED
  BY <1>5, <1>6, <1>7, <1>8, <1>9, <1>10


LEMMA TypeInterruptions ==
    ASSUME TypeOK, RemoveAll \/ SimStops \/ SimRuns
    PROVE  TypeOK'
<1>1. CallTypes /\ OtherTypes /\ CountTypes
  BY TypeParts
<1>2. CASE RemoveAll
  <2>1. CountTypes'
    BY <1>2, CountsType DEF RemoveAll
  <2>2. objects \in Objects /\ Held \in SUBSET Callsign /\ Deferred(objects, Held) \in SUBSET Callsign
    BY <1>1 DEF CallTypes, Held, Deferred
  <2>3. PICK now : now = [Now EXCEPT !.rendered = {}]
    OBVIOUS
  <2>4. now.rendered = {} /\ now.removals = removals /\ removals \subseteq Callsign
    BY <1>1, <2>3 DEF Now, CallTypes
  <2>5. RemoveEffects(objects, Held, now, Deferred(objects, Held))
    BY <1>2, <2>3 DEF RemoveAll
  <2>6. /\ removals' \subseteq Callsign /\ condemned' \subseteq SimObject
        /\ rendered' \subseteq now.rendered /\ stranded' \subseteq Callsign
    BY <2>2, <2>4, <2>5, RemoveEffectsType
  <2>7. /\ objects' \in Objects /\ pending' \in Seq(Entry) /\ again' \in [Callsign -> Model \cup {NoModel}]
        /\ crossed' = {} /\ creating' = creating
    BY <1>2 DEF RemoveAll, Objects
  <2>8. CallTypes'
    BY <1>1, <2>4, <2>6, <2>7 DEF CallTypes
  <2>9. OtherTypes'
    BY <1>1, <1>2 DEF OtherTypes, RemoveAll
  <2> QED
    BY <2>1, <2>8, <2>9, TypeParts
<1>3. CASE SimStops \/ SimRuns
  <2>1. CountTypes'
    BY <1>3, CountsType DEF SimStops, SimRuns
  <2>2. CallTypes'
    BY <1>1, <1>3 DEF CallTypes, SimStops, SimRuns, providerVars, driverVars, timerVars, simVars, historyVars
  <2>3. OtherTypes'
    BY <1>1, <1>3 DEF OtherTypes, SimStops, SimRuns, providerVars, driverVars, timerVars, simVars, historyVars
  <2> QED
    BY <2>1, <2>2, <2>3, TypeParts
<1> QED
  BY <1>2, <1>3

LEMMA TypeTimers ==
    ASSUME TypeOK, Timers
    PROVE  TypeOK'
<1>1. CallTypes /\ OtherTypes /\ CountTypes
  BY TypeParts
<1>2. Now.rendered = rendered /\ Now.removals = removals
  BY DEF Now
<1>3. /\ rendered \subseteq inRange /\ removals \subseteq Callsign /\ crossed \subseteq Callsign
      /\ objects \in Objects /\ pending \in Seq(Entry)
      /\ enabled \subseteq inRange /\ inRange \subseteq Callsign /\ adds \subseteq AddTimer
  BY <1>1 DEF CallTypes, OtherTypes
<1>4. PICK missing \in SUBSET Callsign : missing = Held \ inRange
  BY HeldObjects
<1>5. CASE TimerBased
  <2>1. CountTypes'
    BY <1>5, CountsType DEF TimerBased
  <2>2. PICK p \in Seq(Entry) : p = Without(missing)
    BY <1>3, WithoutEffect
  <2>3. AddPendingAircraft(p, missing)
    BY <1>4, <1>5, <2>2 DEF TimerBased
  <2>4. pending' \in Seq(Entry) /\ again' \in [Callsign -> Model \cup {NoModel}] /\ adds' \subseteq AddTimer
    BY <2>3, AddPendingType
  <2>5. PICK none \in SUBSET Callsign : none = {}
    OBVIOUS
  <2>6. objects' = RemovedFrom(objects, missing) /\ RemoveEffects(objects, missing, Now, none)
    BY <1>4, <1>5, <2>5 DEF TimerBased
  <2>7. objects' \in Objects
    BY <1>3, <2>6, RemovedEffect
  <2>8. /\ removals' \subseteq Callsign /\ condemned' \subseteq SimObject
        /\ rendered' \subseteq Now.rendered /\ stranded' \subseteq Callsign
    <3>1. Now.removals \subseteq Callsign
      BY <1>2, <1>3
    <3> QED
      BY <1>3, <2>6, <3>1, RemoveEffectsType
  <2>9. CallTypes'
    <3>1. inRange' = inRange /\ crossed' = crossed /\ creating' = creating
      BY <1>5 DEF TimerBased
    <3> QED
      BY <1>1, <1>2, <2>4, <2>7, <2>8, <3>1 DEF CallTypes
  <2>10. OtherTypes'
    BY <1>1, <1>5, <2>4 DEF OtherTypes, TimerBased
  <2> QED
    BY <2>1, <2>9, <2>10, TypeParts
<1>6. CASE RemoveNotInProvider
  <2>1. CountTypes'
    BY <1>6, CountsType DEF RemoveNotInProvider
  <2>2. RemoveAircraft(missing, Now) /\ crossed' = crossed /\ creating' = creating /\ inRange' = inRange
    BY <1>4, <1>6 DEF RemoveNotInProvider
  <2>3. CallTypes'
    <3>1. Now.removals \subseteq Callsign /\ Now.rendered \subseteq inRange' /\ crossed' \subseteq Callsign
      BY <1>2, <1>3, <2>2
    <3> QED
      BY <2>2, <3>1, RemoveAircraftType
  <2>4. OtherTypes'
    BY <1>1, <1>6 DEF OtherTypes, RemoveNotInProvider
  <2> QED
    BY <2>1, <2>3, <2>4, TypeParts
<1>7. ASSUME NEW c \in Callsign, RemoveAgain(c) PROVE TypeOK'
  <2>1. CountTypes'
    BY <1>7, CountsType DEF RemoveAgain
  <2>2. PICK now : now = [Now EXCEPT !.removals = @ \ {c}]
    OBVIOUS
  <2>3. now.rendered = rendered /\ now.removals = removals \ {c}
    BY <2>2 DEF Now
  <2>4. PICK S \in SUBSET Callsign : S = {c}
    OBVIOUS
  <2>5. RemoveAircraft(S, now) /\ crossed' = crossed /\ creating' = creating /\ inRange' = inRange
    BY <1>7, <2>2, <2>4 DEF RemoveAgain
  <2>6. CallTypes'
    <3>1. now.removals \subseteq Callsign /\ now.rendered \subseteq inRange' /\ crossed' \subseteq Callsign
      BY <1>3, <2>3, <2>5
    <3> QED
      BY <2>5, <3>1, RemoveAircraftType
  <2>7. OtherTypes'
    BY <1>1, <1>7 DEF OtherTypes, RemoveAgain
  <2> QED
    BY <2>1, <2>6, <2>7, TypeParts
<1>8. ASSUME NEW c \in Callsign, Age(c) PROVE TypeOK'
  <2>1. CountTypes'
    BY <1>8, CountsType DEF Age
  <2>2. objects[c] \in Object /\ objects' = [objects EXCEPT ![c] = [objects[c] EXCEPT !.old = TRUE]]
    BY <1>8, HeldObjects DEF Age
  <2>3. objects' \in Objects
    BY <1>3, <2>2, ObjectUpdates DEF Objects
  <2>4. CallTypes'
    BY <1>1, <1>8, <2>3 DEF CallTypes, Age, providerVars, timerVars, simVars, historyVars
  <2>5. OtherTypes'
    BY <1>1, <1>8 DEF OtherTypes, Age, providerVars, timerVars, simVars, historyVars
  <2> QED
    BY <2>1, <2>4, <2>5, TypeParts
<1>9. ASSUME NEW t \in adds, AddTimerFires(t) PROVE TypeOK'
  <2>1. CountTypes'
    BY <1>9, CountsType DEF AddTimerFires
  <2>2. t.cs \in Callsign /\ (t.by # "readd" => t.model \in Model)
    BY <1>3 DEF AddTimer
  <2>3. inRange' = inRange
    BY <1>9 DEF AddTimerFires
  <2>4. CallTypes' /\ enabled' \subseteq inRange'
    <3>1. CASE /\ StillToAdd(t)
               /\ AddAircraft(t.cs, IF t.by = "readd" THEN model[t.cs] ELSE t.model, enabled)
      <4>1. t.by = "readd" => model[t.cs] # NoModel
        BY <3>1 DEF StillToAdd
      <4>2. PICK m \in Model : m = IF t.by = "readd" THEN model[t.cs] ELSE t.model
        BY <1>1, <2>2, <4>1 DEF OtherTypes
      <4>3. AddAircraft(t.cs, m, enabled)
        BY <3>1, <4>2
      <4> QED
        BY <1>3, <2>2, <2>3, <4>3, AddAircraftType
    <3>2. CASE RemoveAircraft({t.cs}, Now) /\ UNCHANGED <<enabled, crossed, creating>>
      <4>1. PICK S \in SUBSET Callsign : S = {t.cs}
        BY <2>2
      <4>2. Now.removals \subseteq Callsign /\ Now.rendered \subseteq inRange' /\ crossed' \subseteq Callsign
        BY <1>2, <1>3, <2>3, <3>2
      <4>3. RemoveAircraft(S, Now) /\ creating' = creating
        BY <3>2, <4>1
      <4>4. CallTypes'
        BY <4>2, <4>3, RemoveAircraftType
      <4> QED
        BY <1>3, <2>3, <3>2, <4>4
    <3>3. CASE UNCHANGED <<enabled, rendered, driverVars, removals, condemned, stranded, crossed, creating>>
      BY <1>1, <1>3, <2>3, <3>3 DEF CallTypes, driverVars
    <3> QED
      BY <1>9, <3>1, <3>2, <3>3 DEF AddTimerFires
  <2>5. OtherTypes'
    BY <1>1, <1>9, <2>4 DEF OtherTypes, AddTimerFires
  <2> QED
    BY <2>1, <2>4, <2>5, TypeParts
<1>10. ASSUME NEW e \in retries, RetryFires(e) PROVE TypeOK'
  <2>1. CountTypes'
    BY <1>10, CountsType DEF RetryFires
  <2>2. e \in Entry
    BY <1>1 DEF OtherTypes
  <2>3. pending' \in Seq(Entry)
    BY <1>3, <1>10, <2>2, InsertedEffect DEF RetryFires
  <2>4. CallTypes'
    BY <1>1, <1>10, <2>3 DEF CallTypes, RetryFires, providerVars, simVars, historyVars
  <2>5. OtherTypes'
    BY <1>1, <1>10 DEF OtherTypes, RetryFires, providerVars, simVars, historyVars
  <2> QED
    BY <2>1, <2>4, <2>5, TypeParts
<1>11. ASSUME NEW v \in verifies, VerifyAdded(v) PROVE TypeOK'
  <2>1. CountTypes'
    BY <1>11, CountsType DEF VerifyAdded
  <2>2. v.cs \in Callsign
    BY <1>1 DEF OtherTypes, SimObject
  <2> DEFINE c == v.cs
             confirm == c \in Held /\ objects[c].known /\ ~ objects[c].removing
  <2>3. PICK drop : drop = IF confirm \/ (c \notin Held /\ c \notin inRange) THEN {c} ELSE {}
    OBVIOUS
  <2>4. PICK p \in Seq(Entry) : p = Without(drop)
    BY <1>3, WithoutEffect
  <2>5. AddPendingAircraft(p, drop)
    BY <1>11, <2>3, <2>4 DEF VerifyAdded
  <2>6. pending' \in Seq(Entry) /\ again' \in [Callsign -> Model \cup {NoModel}] /\ adds' \subseteq AddTimer
    BY <2>5, AddPendingType
  <2>7. objects' \in Objects
    <3>1. CASE confirm
      <4>1. objects[c] \in Object
        BY <3>1, HeldObjects
      <4>2. objects' = [objects EXCEPT ![c] = [objects[c] EXCEPT !.confirmed = TRUE, !.deferred = FALSE, !.old = FALSE]]
        BY <1>11, <3>1 DEF VerifyAdded
      <4>3. [objects[c] EXCEPT !.confirmed = TRUE, !.deferred = FALSE, !.old = FALSE] \in Object
        BY <4>1, ObjectUpdates
      <4> QED
        BY <1>3, <4>2, <4>3 DEF Objects
    <3>2. CASE ~ confirm
      BY <1>3, <1>11, <3>2 DEF VerifyAdded
    <3> QED
      BY <3>1, <3>2
  <2>8. rendered' \subseteq inRange'
    BY <1>3, <1>11 DEF VerifyAdded, MarkedRendered
  <2>9. CallTypes'
    BY <1>1, <1>11, <2>6, <2>7, <2>8 DEF CallTypes, VerifyAdded, simVars, historyVars
  <2>10. OtherTypes'
    BY <1>1, <1>11, <2>6 DEF OtherTypes, VerifyAdded, simVars, historyVars
  <2> QED
    BY <2>1, <2>9, <2>10, TypeParts
<1> QED
  BY <1>5, <1>6, <1>7, <1>8, <1>9, <1>10, <1>11 DEF Timers


LEMMA TypeSimulator ==
    ASSUME TypeOK, Simulator
    PROVE  TypeOK'
<1>1. CallTypes /\ OtherTypes /\ CountTypes
  BY TypeParts
<1>2. /\ rendered \subseteq inRange /\ objects \in Objects /\ pending \in Seq(Entry) /\ creating \subseteq Request
      /\ again \in [Callsign -> Model \cup {NoModel}] /\ enabled \subseteq inRange /\ inRange \subseteq Callsign
      /\ adds \subseteq AddTimer /\ alive \subseteq SimObject /\ verifies \subseteq SimObject /\ retries \subseteq Entry
  BY <1>1 DEF CallTypes, OtherTypes
<1>3. MaxFailed \in Nat /\ MaxGone \in Nat
  BY TrafficAssumption
<1>4. ASSUME NEW o \in creating, Assigned(o) PROVE TypeOK'
  <2>1. CountTypes'
    BY <1>4, CountsType DEF Assigned
  <2>2. o \in Request /\ o.cs \in Callsign
    BY <1>2 DEF Request
  <2>3. PICK new \in SimObject : new = [id |-> o.id, cs |-> o.cs]
    BY <2>2 DEF Request, SimObject
  <2>4. objects' \in Objects /\ verifies' \subseteq SimObject
    <3>1. CASE Ours(o)
      <4>1. objects[o.cs] \in Object
        BY <3>1, HeldObjects DEF Ours
      <4>2. objects' = [objects EXCEPT ![o.cs] = [objects[o.cs] EXCEPT !.known = TRUE]] /\ verifies' = verifies \cup {new}
        BY <1>4, <2>3, <3>1 DEF Assigned
      <4>3. [objects[o.cs] EXCEPT !.known = TRUE] \in Object
        BY <4>1, ObjectUpdates
      <4> QED
        BY <1>2, <4>2, <4>3 DEF Objects
    <3>2. CASE ~ Ours(o)
      BY <1>2, <1>4, <3>2 DEF Assigned
    <3> QED
      BY <3>1, <3>2
  <2>5. creating' \subseteq Request /\ alive' \subseteq SimObject
    BY <1>2, <1>4, <2>3 DEF Assigned
  <2>6. CallTypes'
    BY <1>1, <1>4, <2>4, <2>5 DEF CallTypes, Assigned, providerVars, historyVars
  <2>7. OtherTypes'
    BY <1>1, <1>4, <2>4, <2>5 DEF OtherTypes, Assigned, providerVars, historyVars
  <2> QED
    BY <2>1, <2>6, <2>7, TypeParts
<1>5. ASSUME NEW o \in creating, NEW installed \in BOOLEAN, CreateFails(o, installed) PROVE TypeOK'
  <2>1. CountTypes'
    BY <1>5, CountsType DEF CreateFails
  <2>2. o \in Request /\ o.cs \in Callsign
    BY <1>2 DEF Request
  <2>3. PICK failed \in Nat : failed = (IF Ours(o) THEN objects[o.cs].failed ELSE o.failed) + 1
    <3>1. Ours(o) => objects[o.cs].failed \in 0..MaxFailed
      BY HeldObjects DEF Ours, Object
    <3>2. o.failed \in 0..MaxFailed
      BY <2>2 DEF Request
    <3>3. (IF Ours(o) THEN objects[o.cs].failed ELSE o.failed) \in 0..MaxFailed
      BY <3>1, <3>2
    <3>4. (IF Ours(o) THEN objects[o.cs].failed ELSE o.failed) + 1 \in Nat
      BY <1>3, <3>3
    <3> QED
      BY <3>4, Zenon
  <2>4. retries' = IF ~ installed \/ failed > MaxFailed THEN retries
                   ELSE retries \cup {[cs |-> o.cs, model |-> o.model, failed |-> failed, gone |-> o.gone]}
    BY <1>5, <2>3 DEF CreateFails
  <2>5. ~ (failed > MaxFailed) => [cs |-> o.cs, model |-> o.model, failed |-> failed, gone |-> o.gone] \in Entry
    <3>1. ~ (failed > MaxFailed) => failed \in 0..MaxFailed
      BY <1>3
    <3> QED
      BY <2>2, <3>1 DEF Request, Entry
  <2>6. retries' \subseteq Entry
    BY <1>2, <2>4, <2>5
  <2>7. PICK S : S = {o.cs}
    OBVIOUS
  <2>8. pending' \in Seq(Entry)
    BY <1>2, <1>5, <2>7, WithoutEffect DEF CreateFails
  <2>9. objects' \in Objects /\ again' \in [Callsign -> Model \cup {NoModel}] /\ creating' \subseteq Request
    BY <1>2, <1>5, <2>2 DEF CreateFails, Objects
  <2>10. CallTypes'
    BY <1>1, <1>5, <2>8, <2>9 DEF CallTypes, CreateFails, historyVars
  <2>11. enabled' \subseteq inRange'
    BY <1>2, <1>5 DEF CreateFails
  <2>12. OtherTypes'
    BY <1>1, <1>5, <2>6, <2>11 DEF OtherTypes, CreateFails, historyVars
  <2> QED
    BY <2>1, <2>10, <2>12, TypeParts
<1>6. ASSUME NEW o \in alive, ObjectRemoved(o) PROVE TypeOK'
  <2>1. CountTypes'
    BY <1>6, CountsType DEF ObjectRemoved
  <2>2. o.cs \in Callsign
    BY <1>2 DEF SimObject
  <2> DEFINE c == o.cs
             x == objects[c]
  <2>3. alive' \subseteq SimObject /\ condemned' \subseteq SimObject
    BY <1>1, <1>6 DEF ObjectRemoved, CallTypes, OtherTypes
  <2>4. /\ pending' \in Seq(Entry) /\ givenUp' \subseteq Callsign /\ objects' \in Objects
        /\ rendered' \subseteq inRange /\ adds' \subseteq AddTimer /\ again' \in [Callsign -> Model \cup {NoModel}]
    <3>1. CASE Ours(o) /\ x.known
      <4>1. x \in Object
        BY <3>1, HeldObjects DEF Ours
      <4>2. x.gone \in 0..MaxGone /\ x.failed \in 0..MaxFailed /\ x.model \in Model
        BY <4>1 DEF Object
      <4>3. x.gone < MaxGone => [cs |-> c, model |-> x.model, failed |-> x.failed, gone |-> x.gone + 1] \in Entry
        <5>1. x.gone < MaxGone => x.gone + 1 \in 0..MaxGone
          BY <1>3, <4>2
        <5> QED
          BY <2>2, <4>2, <5>1 DEF Entry
      <4>4. pending' = IF ~ x.removing /\ x.gone < MaxGone
                       THEN Inserted([cs |-> c, model |-> x.model, failed |-> x.failed, gone |-> x.gone + 1])
                       ELSE pending
        BY <1>6, <3>1 DEF ObjectRemoved
      <4>5. pending' \in Seq(Entry)
        <5>1. CASE ~ x.removing /\ x.gone < MaxGone
          <6>1. PICK e \in Entry : e = [cs |-> c, model |-> x.model, failed |-> x.failed, gone |-> x.gone + 1]
            BY <4>3, <5>1, Zenon
          <6> QED
            BY <1>2, <4>4, <5>1, <6>1, InsertedEffect
        <5>2. CASE ~ (~ x.removing /\ x.gone < MaxGone)
          BY <1>2, <4>4, <5>2
        <5> QED
          BY <5>1, <5>2
      <4>6. givenUp' \subseteq Callsign
        BY <1>1, <1>6, <2>2, <3>1 DEF ObjectRemoved, OtherTypes
      <4>7. objects' \in Objects /\ again' \in [Callsign -> Model \cup {NoModel}] /\ rendered' \subseteq inRange
        BY <1>2, <1>6, <2>2, <3>1 DEF ObjectRemoved, Objects
      <4>8. again[c] # NoModel => [cs |-> c, model |-> again[c], by |-> "removed"] \in AddTimer
        BY <1>2, <2>2 DEF AddTimer
      <4>9. adds' \subseteq AddTimer
        BY <1>2, <1>6, <3>1, <4>8 DEF ObjectRemoved
      <4> QED
        BY <4>5, <4>6, <4>7, <4>9
    <3>2. CASE ~ (Ours(o) /\ x.known)
      <4>1. UNCHANGED <<pending, givenUp, objects, rendered, adds, again>>
        BY <1>6, <3>2 DEF ObjectRemoved
      <4> QED
        BY <1>1, <1>2, <4>1 DEF OtherTypes
    <3> QED
      BY <3>1, <3>2
  <2>5. CallTypes'
    BY <1>1, <1>6, <2>3, <2>4 DEF CallTypes, ObjectRemoved
  <2>6. OtherTypes'
    BY <1>1, <1>6, <2>3, <2>4 DEF OtherTypes, ObjectRemoved
  <2> QED
    BY <2>1, <2>5, <2>6, TypeParts
<1>7. ASSUME NEW c \in Callsign, LightsReceived(c) PROVE TypeOK'
  <2>1. CountTypes'
    BY <1>7, CountsType DEF LightsReceived
  <2>2. objects[c] \in Object /\ objects' = [objects EXCEPT ![c] = [objects[c] EXCEPT !.lights = TRUE]]
    BY <1>7, HeldObjects DEF LightsReceived
  <2>3. objects' \in Objects
    BY <1>2, <2>2, ObjectUpdates DEF Objects
  <2>4. CallTypes'
    BY <1>1, <1>7, <2>3 DEF CallTypes, LightsReceived, providerVars, timerVars, simVars, historyVars
  <2>5. OtherTypes'
    BY <1>1, <1>7 DEF OtherTypes, LightsReceived, providerVars, timerVars, simVars, historyVars
  <2> QED
    BY <2>1, <2>4, <2>5, TypeParts
<1> QED
  BY <1>4, <1>5, <1>6, <1>7 DEF Simulator

\* The models of the matching are models.
LEMMA ContextSteps ==
    ASSUME Context
    PROVE  \/ \E c \in Callsign :
                 \/ EnterRange(c) \/ ChangeEnabled(c) \/ ReAdd(c) \/ \E told \in BOOLEAN : LeaveRange(c, told)
                 \/ \E m \in Model : LogicallyAdd(c, m) \/ ChangeModel(c, m)
           \/ RemoveAll \/ SimStops \/ SimRuns
<1>1. \A c \in Callsign : Fits[c] \subseteq Model
  BY TrafficAssumption
<1> QED
  BY <1>1 DEF Context

LEMMA TypeNext ==
    ASSUME TypeOK, [Next]_vars
    PROVE  TypeOK'
<1>1. CASE Context
  BY <1>1, ContextSteps, TypeContext, TypeInterruptions
<1>2. CASE UNCHANGED vars
  <2>1. CallTypes /\ OtherTypes
    BY TypeParts
  <2>2. CallTypes'
    BY <1>2, <2>1 DEF CallTypes, vars, providerVars, driverVars, timerVars, simVars, historyVars
  <2>3. OtherTypes'
    BY <1>2, <2>1 DEF OtherTypes, vars, providerVars, driverVars, timerVars, simVars, historyVars
  <2>4. CountTypes'
    BY <1>2, CountsType DEF vars
  <2> QED
    BY <2>2, <2>3, <2>4, TypeParts
<1> QED
  BY <1>1, <1>2, TypeTimers, TypeSimulator DEF Next

-----------------------------------------------------------------------------
(* Every step keeps the objects of the driver and of the simulator together *)

LEMMA SteadyObject ==
    ASSUME NEW d \in Callsign, ObjectInv(d), Steady(d),
           stranded \subseteq stranded', condemned \subseteq condemned', alive' = alive,
           \A o \in creating' : o.cs = d => o \in creating,
           d \in rendered' => d \in rendered \/ (objects'[d] # Nothing /\ objects'[d].confirmed)
    PROVE  ObjectInv(d)'
<1>1. (d \in Held <=> objects[d] # Nothing) /\ (d \in Held' <=> objects'[d] # Nothing)
  BY DEF Held
<1>2. CASE objects'[d] = Nothing /\ d \in stranded'
  BY <1>1, <1>2 DEF ObjectInv
<1>3. CASE objects[d] = Nothing /\ objects'[d] = Nothing
  BY <1>1, <1>3 DEF ObjectInv, Ours
<1>4. CASE /\ objects[d] # Nothing /\ objects'[d] # Nothing /\ Same(objects[d], objects'[d])
           /\ objects'[d].removing => objects[d].removing \/ d \in stranded'
                 \/ (objects[d].known /\ [id |-> objects[d].id, cs |-> d] \in condemned')
  <2>1. /\ objects'[d].id = objects[d].id /\ objects'[d].known = objects[d].known
        /\ objects'[d].confirmed = objects[d].confirmed
    BY <1>4 DEF Same
  <2>2. \A o : o.cs = d => (Ours(o) <=> objects[d].id = o.id) /\ (Ours(o)' <=> objects'[d].id = o.id)
    BY <1>1, <1>4 DEF Ours
  <2>3. (objects'[d].known => [id |-> objects'[d].id, cs |-> d] \in alive') /\ (objects'[d].confirmed => objects'[d].known)
    BY <1>1, <1>4, <2>1 DEF ObjectInv
  <2>4. objects'[d].removing =>
            d \in stranded' \/ (objects'[d].known /\ [id |-> objects'[d].id, cs |-> d] \in condemned')
    BY <1>1, <1>4, <2>1 DEF ObjectInv
  <2>5. \A o \in creating' : o.cs = d => d \in stranded' \/ (Ours(o)' /\ ~ objects'[d].known)
    BY <2>1, <2>2 DEF ObjectInv
  <2>6. \A o \in alive' : o.cs = d => d \in stranded' \/ o \in condemned' \/ (Ours(o)' /\ objects'[d].known)
    BY <2>1, <2>2 DEF ObjectInv
  <2>7. d \in rendered' => d \in stranded' \/ (d \in Held' /\ objects'[d].confirmed)
    BY <1>1, <1>4, <2>1 DEF ObjectInv
  <2> QED
    BY <2>3, <2>4, <2>5, <2>6, <2>7 DEF ObjectInv
<1> QED
  BY <1>2, <1>3, <1>4 DEF Steady, Carried

LEMMA SteadyPending ==
    ASSUME NEW d \in Held', Steady(d), PendingAdded(objects'[d])
    PROVE  d \in Held /\ PendingAdded(objects[d])
BY DEF Steady, Carried, Held, Same, PendingAdded

\* Together
ObjectsSafe == OnePendingAdd /\ ObjectsInv

LEMMA SteadyStep ==
    ASSUME ObjectsSafe, \A d \in Callsign : Steady(d),
           stranded \subseteq stranded', condemned \subseteq condemned', alive' = alive, creating' = creating,
           \A d \in Callsign : d \in rendered' => d \in rendered \/ (objects'[d] # Nothing /\ objects'[d].confirmed)
    PROVE  ObjectsSafe'
<1>1. \A d \in Callsign : ObjectInv(d)'
  BY SteadyObject DEF ObjectsSafe, ObjectsInv
<1>2. \A d \in Held' : PendingAdded(objects'[d]) => d \in Held /\ PendingAdded(objects[d])
  <2>1. \A d \in Held' : d \in Callsign
    BY DEF Held
  <2> QED
    BY <2>1, SteadyPending
<1>3. OnePendingAdd'
  BY <1>2 DEF OnePendingAdd, ObjectsSafe
<1>4. DistinctRequests'
  BY DEF ObjectsSafe, ObjectsInv, DistinctRequests
<1> QED
  BY <1>1, <1>3, <1>4 DEF ObjectsSafe, ObjectsInv

LEMMA UnchangedObjects ==
    ASSUME TypeOK, ObjectsSafe, UNCHANGED <<objects, stranded, condemned, alive, creating, rendered>>
    PROVE  ObjectsSafe'
<1>1. \A d \in Callsign : Steady(d)
  BY UnchangedCarried DEF Steady
<1> QED
  BY <1>1, SteadyStep

LEMMA RemoveSafe ==
    ASSUME TypeOK, ObjectsSafe, NEW S \in SUBSET Callsign, NEW now, RemoveAircraft(S, now),
           now.rendered \subseteq rendered, alive' = alive, creating' = creating
    PROVE  ObjectsSafe'
<1>1. /\ stranded \subseteq stranded' /\ condemned \subseteq condemned' /\ rendered' \subseteq now.rendered
      /\ \A d \in Callsign : Carried(objects[d], d)
  BY RemoveAircraftEffect
<1>2. \A d \in Callsign : Steady(d)
  BY <1>1 DEF Steady
<1> QED
  BY <1>1, <1>2, SteadyStep

\* A new object
LEMMA AddNowObject ==
    ASSUME TypeOK, NEW c \in Callsign, NEW m \in Model, AddNow(c, m), ObjectInv(c),
           stranded \subseteq stranded', condemned \subseteq condemned', alive' = alive
    PROVE  ObjectInv(c)'
<1>1. /\ objects[c] = Nothing /\ objects'[c] = NewObject(c, m) /\ NewObject(c, m) \in Object
      /\ creating' = creating \cup {NewRequest(c, m)} /\ rendered' = rendered
  BY AddNowEffect
<1>2. /\ ~ NewObject(c, m).known /\ ~ NewObject(c, m).confirmed /\ ~ NewObject(c, m).removing
      /\ NewObject(c, m).id = NewRequest(c, m).id /\ NewRequest(c, m).cs = c
  BY DEF NewObject, NewRequest
<1>3. c \notin Held /\ c \in Held'
  BY <1>1, NothingAssumption DEF Held
<1>4. \A o : o.cs = c /\ o.id = NewRequest(c, m).id => Ours(o)'
  BY <1>1, <1>2, <1>3 DEF Ours
<1>5. \A o : o.cs = c => ~ Ours(o)
  BY <1>3 DEF Ours
<1>6. \A o \in creating : o.cs = c => c \in stranded'
  BY <1>5 DEF ObjectInv
<1>7. \A o \in creating' : o.cs = c => c \in stranded' \/ (Ours(o)' /\ ~ objects'[c].known)
  BY <1>1, <1>2, <1>4, <1>6
<1>8. \A o \in alive' : o.cs = c => c \in stranded' \/ o \in condemned'
  BY <1>5 DEF ObjectInv
<1>9. c \in rendered' => c \in stranded'
  BY <1>1, <1>3 DEF ObjectInv
<1> QED
  BY <1>1, <1>2, <1>7, <1>8, <1>9 DEF ObjectInv

LEMMA AddSafe ==
    ASSUME TypeOK, ObjectsSafe, NEW c \in Callsign, NEW m \in Model, NEW on, AddAircraft(c, m, on), alive' = alive
    PROVE  ObjectsSafe'
<1>1. /\ stranded \subseteq stranded' /\ condemned \subseteq condemned'
      /\ \A d \in Callsign \ {c} : Undisturbed(d)
  BY AddAircraftOthers
<1>2. \A d \in Callsign \ {c} : Steady(d) /\ (d \in rendered' => d \in rendered) /\ (\A o \in creating' : o.cs = d => o \in creating)
  BY <1>1 DEF Undisturbed
<1>3. CASE ~ AddNow(c, m)
  <2>1. /\ Steady(c) /\ creating' = creating
        /\ c \in rendered' => c \in rendered \/ (objects'[c] # Nothing /\ objects'[c].confirmed)
    BY <1>3, AddAircraftSteady
  <2>2. \A d \in Callsign : Steady(d)
    BY <1>2, <2>1
  <2>3. \A d \in Callsign : d \in rendered' => d \in rendered \/ (objects'[d] # Nothing /\ objects'[d].confirmed)
    BY <1>2, <2>1
  <2> QED
    BY <1>1, <2>1, <2>2, <2>3, SteadyStep
<1>4. CASE AddNow(c, m)
  <2>1. /\ creating' = creating \cup {NewRequest(c, m)}
        /\ NewObject(c, m).id \notin UsedIds(c)
    BY <1>4, AddNowEffect
  <2>2. ObjectInv(c)'
    BY <1>1, <1>4, AddNowObject DEF ObjectsSafe, ObjectsInv
  <2>3. \A d \in Callsign \ {c} : ObjectInv(d)'
    BY <1>1, <1>2, SteadyObject DEF ObjectsSafe, ObjectsInv
  <2>4. \A o \in creating : ~ (o.cs = c /\ o.id = NewRequest(c, m).id)
    BY <2>1 DEF UsedIds, NewObject, NewRequest
  <2>5. DistinctRequests'
    <3>1. NewRequest(c, m).cs = c
      BY DEF NewRequest
    <3> QED
      BY <2>1, <2>4, <3>1 DEF DistinctRequests, ObjectsSafe, ObjectsInv
  <2>6. \A d \in Held' : PendingAdded(objects'[d]) => d = c
    <3>1. SUFFICES ASSUME NEW d \in Held', PendingAdded(objects'[d]), d # c PROVE FALSE
      OBVIOUS
    <3>2. d \in Callsign \ {c} /\ objects'[d] # Nothing
      BY <3>1 DEF Held
    <3>3. d \in Held /\ PendingAdded(objects[d])
      BY <1>2, <3>1, <3>2, SteadyPending
    <3>4. d \in Outdated
      BY <1>4, <3>3 DEF AddNow, CanAdd
    <3>5. objects'[d] = Nothing
      <4>1. objects' = [Current EXCEPT ![c] = objects'[c]]
        BY <1>4, CurrentType DEF AddNow, Objects
      <4>2. objects'[d] = Current[d]
        BY <3>2, <4>1, CurrentType DEF Objects
      <4> QED
        BY <3>2, <3>4, <4>2, CurrentType
    <3> QED
      BY <3>2, <3>5
  <2>7. OnePendingAdd'
    BY <2>6 DEF OnePendingAdd
  <2> QED
    BY <2>2, <2>3, <2>5, <2>7 DEF ObjectsSafe, ObjectsInv
<1> QED
  BY <1>3, <1>4


LEMMA SafeContext ==
    ASSUME TypeOK, ObjectsSafe, Context
    PROVE  ObjectsSafe'
<1>1. Now.rendered = rendered /\ Now.removals = removals
  BY DEF Now
<1>2. model \in [Callsign -> Model \cup {NoModel}]
  BY DEF TypeOK
<1>3. ASSUME NEW c \in Callsign, EnterRange(c) PROVE ObjectsSafe'
  BY <1>3, UnchangedObjects DEF EnterRange, driverVars, simVars, historyVars
<1>4. ASSUME NEW c \in Callsign, ChangeEnabled(c) PROVE ObjectsSafe'
  <2>1. CASE c \in enabled
    <3>1. PICK S \in SUBSET Callsign : S = {c}
      OBVIOUS
    <3>2. RemoveAircraft(S, Now) /\ alive' = alive /\ creating' = creating
      BY <1>4, <2>1, <3>1 DEF ChangeEnabled
    <3> QED
      BY <1>1, <3>2, RemoveSafe
  <2>2. CASE c \notin enabled
    <3>1. PICK on : on = enabled \cup {c}
      OBVIOUS
    <3>2. AddAircraft(c, model[c], on) /\ alive' = alive /\ model[c] \in Model
      BY <1>2, <1>4, <2>2, <3>1 DEF ChangeEnabled
    <3> QED
      BY <3>2, AddSafe
  <2> QED
    BY <2>1, <2>2
<1>5. ASSUME NEW c \in Callsign, ReAdd(c) PROVE ObjectsSafe'
  <2>1. PICK S \in SUBSET Callsign : S = {c}
    OBVIOUS
  <2>2. RemoveAircraft(S, Now) /\ alive' = alive /\ creating' = creating
    BY <1>5, <2>1 DEF ReAdd
  <2> QED
    BY <1>1, <2>2, RemoveSafe
<1>6. ASSUME NEW c \in Callsign, NEW told \in BOOLEAN, LeaveRange(c, told) PROVE ObjectsSafe'
  <2>1. PICK T \in SUBSET Callsign : T = IF told THEN {c} ELSE {}
    OBVIOUS
  <2>2. PICK now : now = [Now EXCEPT !.rendered = @ \ {c}]
    OBVIOUS
  <2>3. now.rendered = rendered \ {c}
    BY <2>2 DEF Now
  <2>4. RemoveAircraft(T, now) /\ alive' = alive /\ creating' = creating
    BY <1>6, <2>1, <2>2 DEF LeaveRange
  <2> QED
    BY <2>3, <2>4, RemoveSafe
<1>7. ASSUME NEW c \in Callsign, NEW m \in Model, LogicallyAdd(c, m) PROVE ObjectsSafe'
  <2>1. CASE c \in enabled
    BY <1>7, <2>1, AddSafe DEF LogicallyAdd
  <2>2. CASE c \notin enabled
    BY <1>7, <2>2, UnchangedObjects DEF LogicallyAdd, driverVars
  <2> QED
    BY <2>1, <2>2
<1>8. ASSUME NEW c \in Callsign, NEW m \in Model, ChangeModel(c, m) PROVE ObjectsSafe'
  <2>1. CASE c \in Held
    <3>1. PICK S \in SUBSET Callsign : S = {c}
      OBVIOUS
    <3>2. RemoveAircraft(S, Now) /\ alive' = alive /\ creating' = creating
      BY <1>8, <2>1, <3>1 DEF ChangeModel
    <3> QED
      BY <1>1, <3>2, RemoveSafe
  <2>2. CASE c \notin Held
    BY <1>8, <2>2, UnchangedObjects DEF ChangeModel, driverVars
  <2> QED
    BY <2>1, <2>2
<1>9. CASE RemoveAll
  <2>1. PICK now : now = [Now EXCEPT !.rendered = {}]
    OBVIOUS
  <2>2. now.rendered = {}
    BY <2>1 DEF Now
  <2>3. /\ RemoveEffects(objects, Held, now, Deferred(objects, Held))
        /\ objects' = [c \in Callsign |-> Nothing] /\ alive' = alive /\ creating' = creating
    BY <1>9, <2>1 DEF RemoveAll
  <2>4. stranded \subseteq stranded' /\ condemned \subseteq condemned' /\ rendered' = {}
    BY <2>2, <2>3 DEF RemoveEffects
  <2>5. \A d \in Held : \/ objects[d].removing \/ d \in stranded'
                        \/ objects[d].known /\ [id |-> objects[d].id, cs |-> d] \in condemned'
    BY <2>3 DEF RemoveEffects, Killed, Held
  <2>6. ASSUME NEW d \in Callsign PROVE ObjectInv(d)'
    <3>1. ObjectInv(d)
      BY DEF ObjectsSafe, ObjectsInv
    <3>2. d \notin Held'
      BY <2>3 DEF Held
    <3>3. d \in Held => \/ d \in stranded'
                        \/ objects[d].known /\ [id |-> objects[d].id, cs |-> d] \in condemned'
      BY <2>4, <2>5, <3>1 DEF ObjectInv
    <3>4. \A o : Ours(o) /\ o.cs = d => d \in Held /\ objects[d].id = o.id
      BY DEF Ours
    <3>5. \A o \in creating' : o.cs = d => d \in stranded'
      BY <2>3, <2>4, <3>1, <3>3, <3>4 DEF ObjectInv
    <3>6. \A o \in alive : o.cs = d => o = [id |-> o.id, cs |-> d]
      BY DEF TypeOK, SimObject
    <3>7. \A o \in alive' : o.cs = d => d \in stranded' \/ o \in condemned'
      BY <2>3, <2>4, <3>1, <3>3, <3>4, <3>6 DEF ObjectInv
    <3> QED
      BY <2>4, <3>2, <3>5, <3>7 DEF ObjectInv
  <2>7. OnePendingAdd' /\ DistinctRequests'
    BY <2>3 DEF OnePendingAdd, Held, DistinctRequests, ObjectsSafe, ObjectsInv
  <2> QED
    BY <2>6, <2>7 DEF ObjectsSafe, ObjectsInv
<1>10. CASE SimStops \/ SimRuns
  BY <1>10, UnchangedObjects DEF SimStops, SimRuns, providerVars, driverVars, simVars, historyVars
<1> QED
  BY <1>3, <1>4, <1>5, <1>6, <1>7, <1>8, <1>9, <1>10, ContextSteps

LEMMA SafeTimers ==
    ASSUME TypeOK, ObjectsSafe, Timers
    PROVE  ObjectsSafe'
<1>1. Now.rendered = rendered /\ Now.removals = removals
  BY DEF Now
<1>2. objects \in Objects /\ model \in [Callsign -> Model \cup {NoModel}]
  BY DEF TypeOK, Objects
<1>3. PICK missing \in SUBSET Callsign : missing = Held \ inRange
  BY HeldObjects
<1>4. CASE TimerBased
  <2>1. PICK none : none = {}
    OBVIOUS
  <2>2. /\ objects' = RemovedFrom(objects, missing) /\ RemoveEffects(objects, missing, Now, none)
        /\ alive' = alive /\ creating' = creating
    BY <1>3, <1>4, <2>1 DEF TimerBased
  <2>3. /\ stranded \subseteq stranded' /\ condemned \subseteq condemned' /\ rendered' \subseteq Now.rendered
        /\ \A d \in Callsign : Carried(objects[d], d)
    BY <1>2, <2>2, RemovalEffect
  <2>4. \A d \in Callsign : Steady(d)
    BY <2>3 DEF Steady
  <2> QED
    BY <1>1, <2>2, <2>3, <2>4, SteadyStep
<1>5. CASE RemoveNotInProvider
  <2>1. RemoveAircraft(missing, Now) /\ alive' = alive /\ creating' = creating
    BY <1>3, <1>5 DEF RemoveNotInProvider
  <2> QED
    BY <1>1, <2>1, RemoveSafe
<1>6. ASSUME NEW c \in Callsign, RemoveAgain(c) PROVE ObjectsSafe'
  <2>1. PICK S \in SUBSET Callsign : S = {c}
    OBVIOUS
  <2>2. PICK now : now = [Now EXCEPT !.removals = @ \ {c}]
    OBVIOUS
  <2>3. now.rendered = rendered
    BY <2>2 DEF Now
  <2>4. RemoveAircraft(S, now) /\ alive' = alive /\ creating' = creating
    BY <1>6, <2>1, <2>2 DEF RemoveAgain
  <2> QED
    BY <2>3, <2>4, RemoveSafe
<1>7. ASSUME NEW c \in Callsign, Age(c) PROVE ObjectsSafe'
  <2>1. objects[c] # Nothing /\ objects[c] \in Object
    BY <1>7, HeldObjects DEF Age, Held
  <2>2. objects' = [objects EXCEPT ![c] = [objects[c] EXCEPT !.old = TRUE]]
    BY <1>7 DEF Age
  <2>3. objects'[c] = [objects[c] EXCEPT !.old = TRUE] /\ \A d \in Callsign \ {c} : objects'[d] = objects[d]
    BY <1>2, <2>2 DEF Objects
  <2>4. objects'[c] # Nothing /\ Same(objects[c], objects'[c]) /\ objects'[c].removing = objects[c].removing
    BY <2>1, <2>3, SameUpdates, ObjectUpdates, NothingAssumption
  <2>5. \A d \in Callsign : Steady(d)
    BY <2>1, <2>3, <2>4, UnchangedCarried DEF Steady, Carried
  <2> QED
    BY <1>7, <2>5, SteadyStep DEF Age, providerVars, simVars, historyVars
<1>8. ASSUME NEW t \in adds, AddTimerFires(t) PROVE ObjectsSafe'
  <2>1. t.cs \in Callsign /\ (t.by # "readd" => t.model \in Model)
    BY DEF TypeOK, AddTimer
  <2>2. alive' = alive
    BY <1>8 DEF AddTimerFires
  <2>3. CASE /\ StillToAdd(t)
             /\ AddAircraft(t.cs, IF t.by = "readd" THEN model[t.cs] ELSE t.model, enabled)
    <3>1. t.by = "readd" => model[t.cs] # NoModel
      BY <2>3 DEF StillToAdd
    <3>2. PICK m \in Model : m = IF t.by = "readd" THEN model[t.cs] ELSE t.model
      BY <1>2, <2>1, <3>1
    <3>3. AddAircraft(t.cs, m, enabled)
      BY <2>3, <3>2
    <3> QED
      BY <2>1, <2>2, <3>3, AddSafe
  <2>4. CASE RemoveAircraft({t.cs}, Now) /\ UNCHANGED <<enabled, crossed, creating>>
    <3>1. PICK S \in SUBSET Callsign : S = {t.cs}
      BY <2>1
    <3>2. RemoveAircraft(S, Now) /\ creating' = creating
      BY <2>4, <3>1
    <3> QED
      BY <1>1, <2>2, <3>2, RemoveSafe
  <2>5. CASE UNCHANGED <<enabled, rendered, driverVars, removals, condemned, stranded, crossed, creating>>
    BY <2>2, <2>5, UnchangedObjects DEF driverVars
  <2> QED
    BY <1>8, <2>3, <2>4, <2>5 DEF AddTimerFires
<1>9. ASSUME NEW e \in retries, RetryFires(e) PROVE ObjectsSafe'
  BY <1>9, UnchangedObjects DEF RetryFires, providerVars, simVars, historyVars
<1>10. ASSUME NEW v \in verifies, VerifyAdded(v) PROVE ObjectsSafe'
  <2>1. PICK c \in Callsign : c = v.cs
    BY DEF TypeOK, SimObject
  <2>2. UNCHANGED <<stranded, condemned, alive, creating>>
    BY <1>10 DEF VerifyAdded, simVars, historyVars
  <2>3. CASE c \in Held /\ objects[c].known /\ ~ objects[c].removing
    <3>1. objects[c] \in Object /\ objects[c] # Nothing
      BY <2>3, HeldObjects DEF Held
    <3>2. objects' = [objects EXCEPT ![c] = [objects[c] EXCEPT !.confirmed = TRUE, !.deferred = FALSE, !.old = FALSE]]
      BY <1>10, <2>1, <2>3 DEF VerifyAdded
    <3>3. /\ objects'[c] = [objects[c] EXCEPT !.confirmed = TRUE, !.deferred = FALSE, !.old = FALSE]
          /\ \A d \in Callsign \ {c} : objects'[d] = objects[d]
      BY <1>2, <3>2 DEF Objects
    <3>4. /\ objects'[c] # Nothing /\ objects'[c].known /\ ~ objects'[c].removing /\ objects'[c].confirmed
          /\ objects'[c].id = objects[c].id
      <4>1. objects'[c] \in Object
        BY <3>1, <3>3, ObjectUpdates
      <4>2. PICK x \in Object : x = objects[c]
        BY <3>1
      <4>3. objects'[c] = [x EXCEPT !.confirmed = TRUE, !.deferred = FALSE, !.old = FALSE] /\ x.known /\ ~ x.removing
        BY <2>3, <3>3, <4>2
      <4>4. objects'[c].known = x.known /\ objects'[c].removing = x.removing /\ objects'[c].confirmed = TRUE
            /\ objects'[c].id = x.id
        BY <4>3 DEF Object
      <4> QED
        BY <4>1, <4>2, <4>3, <4>4, NothingAssumption
    <3>5. \A d \in Callsign \ {c} : d \in rendered' => d \in rendered
      BY <1>10, <2>1 DEF VerifyAdded, MarkedRendered
    <3>6. \A d \in Callsign \ {c} : Steady(d)
      BY <3>3, UnchangedCarried DEF Steady
    <3>7. \A d \in Callsign \ {c} : ObjectInv(d)'
      BY <2>2, <3>5, <3>6, SteadyObject DEF ObjectsSafe, ObjectsInv
    <3>8. ObjectInv(c)'
      <4>1. c \in Held'
        BY <3>4 DEF Held
      <4>2. ObjectInv(c)
        BY DEF ObjectsSafe, ObjectsInv
      <4>3. \A o : o.cs = c => (Ours(o) <=> objects[c].id = o.id) /\ (Ours(o)' <=> objects'[c].id = o.id)
        BY <2>3, <4>1 DEF Ours
      <4> QED
        BY <2>2, <2>3, <3>4, <4>1, <4>2, <4>3 DEF ObjectInv
    <3>9. \A d \in Held' : PendingAdded(objects'[d]) => d \in Held /\ PendingAdded(objects[d])
      BY <3>3, <3>4 DEF Held, PendingAdded
    <3>10. OnePendingAdd'
      BY <3>9 DEF OnePendingAdd, ObjectsSafe
    <3>11. DistinctRequests'
      BY <2>2 DEF ObjectsSafe, ObjectsInv, DistinctRequests
    <3> QED
      BY <3>7, <3>8, <3>10, <3>11 DEF ObjectsSafe, ObjectsInv
  <2>4. CASE ~ (c \in Held /\ objects[c].known /\ ~ objects[c].removing)
    <3>1. objects' = objects /\ rendered' = rendered
      BY <1>10, <2>1, <2>4 DEF VerifyAdded
    <3> QED
      BY <2>2, <3>1, UnchangedObjects
  <2> QED
    BY <2>3, <2>4
<1> QED
  BY <1>4, <1>5, <1>6, <1>7, <1>8, <1>9, <1>10 DEF Timers


LEMMA SafeSimulator ==
    ASSUME TypeOK, ObjectsSafe, Simulator
    PROVE  ObjectsSafe'
<1>1. objects \in Objects /\ creating \subseteq Request /\ alive \subseteq SimObject
  BY DEF TypeOK, Objects
<1>2. \A d \in Callsign : ObjectInv(d)
  BY DEF ObjectsSafe, ObjectsInv
<1>3. \A o, p \in creating : o.cs = p.cs /\ o.id = p.id => o = p
  BY DEF ObjectsSafe, ObjectsInv, DistinctRequests
<1>4. ASSUME NEW o \in creating, Assigned(o) PROVE ObjectsSafe'
  <2>1. PICK c \in Callsign : c = o.cs
    BY <1>1 DEF Request
  <2>2. PICK new : new = [id |-> o.id, cs |-> c]
    OBVIOUS
  <2>3. /\ creating' = creating \ {o} /\ alive' = alive \cup {new}
        /\ UNCHANGED <<stranded, condemned, rendered>>
    BY <1>4, <2>1, <2>2 DEF Assigned, providerVars, historyVars
  <2>4. DistinctRequests'
    BY <1>3, <2>3 DEF DistinctRequests
  <2>5. \A d \in Callsign \ {c} : objects'[d] = objects[d]
    BY <1>1, <1>4, <2>1 DEF Assigned, Objects
  <2>6. \A d \in Callsign \ {c} : ObjectInv(d)'
    <3>1. SUFFICES ASSUME NEW d \in Callsign \ {c} PROVE ObjectInv(d)'
      OBVIOUS
    <3>2. ObjectInv(d) /\ objects'[d] = objects[d] /\ (d \in Held' <=> d \in Held)
      BY <1>2, <2>5 DEF Held
    <3>3. \A p : p.cs = d => (Ours(p)' <=> Ours(p))
      BY <3>2 DEF Ours
    <3>4. new.cs # d
      BY <2>2
    <3> QED
      BY <2>3, <3>2, <3>3, <3>4 DEF ObjectInv
  <2>7. ObjectInv(c)' /\ \A d \in Held' : PendingAdded(objects'[d]) => d \in Held /\ PendingAdded(objects[d])
    <3>1. CASE Ours(o)
      <4>1. objects[c] \in Object /\ objects[c] # Nothing /\ objects[c].id = o.id
        BY <2>1, <3>1, HeldObjects DEF Ours, Held
      <4>2. objects'[c] = [objects[c] EXCEPT !.known = TRUE]
        BY <1>1, <1>4, <2>1, <3>1 DEF Assigned, Objects
      <4>3. PICK x \in Object : x = objects[c]
        BY <4>1
      <4>4. /\ objects'[c] \in Object /\ objects'[c].known = TRUE /\ objects'[c].id = x.id
            /\ objects'[c].confirmed = x.confirmed /\ objects'[c].removing = x.removing
        BY <4>2, <4>3 DEF Object
      <4>5. c \in Held' /\ c \in Held
        BY <4>1, <4>4, NothingAssumption DEF Held
      <4>6. c \in stranded \/ ~ objects[c].removing
        BY <1>2, <2>1, <4>5 DEF ObjectInv
      <4>7. \A p : p.cs = c => (Ours(p) <=> p.id = o.id) /\ (Ours(p)' <=> p.id = o.id)
        BY <4>1, <4>3, <4>4, <4>5 DEF Ours
      <4>8. \A p \in creating' : p.cs = c => c \in stranded
        BY <1>2, <1>3, <2>1, <2>3, <4>7 DEF ObjectInv
      <4>9. \A p \in alive : p.cs = c => c \in stranded \/ p \in condemned \/ Ours(p)'
        BY <1>2, <4>7 DEF ObjectInv
      <4>10. new.cs = c /\ new.id = o.id
        BY <2>2
      <4>11. \A p \in alive' : p.cs = c => c \in stranded' \/ p \in condemned' \/ (Ours(p)' /\ objects'[c].known)
        BY <2>3, <4>4, <4>7, <4>9, <4>10
      <4>12. [id |-> objects'[c].id, cs |-> c] \in alive'
        BY <2>2, <2>3, <4>1, <4>3, <4>4
      <4>13. c \in rendered' => c \in stranded' \/ objects'[c].confirmed
        BY <1>2, <2>3, <4>3, <4>4, <4>5 DEF ObjectInv
      <4>14. ObjectInv(c)'
        BY <2>3, <4>3, <4>4, <4>5, <4>6, <4>8, <4>11, <4>12, <4>13 DEF ObjectInv
      <4>15. PendingAdded(objects'[c]) => PendingAdded(objects[c])
        BY <4>3, <4>4 DEF PendingAdded
      <4> QED
        BY <2>5, <4>5, <4>14, <4>15 DEF Held
    <3>2. CASE ~ Ours(o)
      <4>1. objects' = objects
        BY <1>4, <3>2 DEF Assigned
      <4>2. c \in stranded
        BY <1>2, <2>1, <3>2 DEF ObjectInv
      <4>3. c \in Held <=> c \in Held'
        BY <4>1 DEF Held
      <4>4. ObjectInv(c)'
        BY <1>2, <2>3, <4>1, <4>2, <4>3 DEF ObjectInv
      <4> QED
        BY <4>1, <4>4 DEF Held
    <3> QED
      BY <3>1, <3>2
  <2>8. OnePendingAdd'
    BY <2>7 DEF OnePendingAdd, ObjectsSafe
  <2> QED
    BY <2>4, <2>6, <2>7, <2>8 DEF ObjectsSafe, ObjectsInv
<1>5. ASSUME NEW o \in creating, NEW installed \in BOOLEAN, CreateFails(o, installed) PROVE ObjectsSafe'
  <2>1. PICK c \in Callsign : c = o.cs
    BY <1>1 DEF Request
  <2>2. /\ creating' = creating \ {o} /\ objects' = [objects EXCEPT ![c] = Nothing]
        /\ UNCHANGED <<stranded, condemned, rendered, alive>>
    BY <1>5, <2>1 DEF CreateFails, historyVars
  <2>3. objects'[c] = Nothing /\ \A d \in Callsign \ {c} : objects'[d] = objects[d]
    BY <1>1, <2>2 DEF Objects
  <2>4. \A d \in Callsign \ {c} : ObjectInv(d)'
    <3>1. \A d \in Callsign \ {c} : Steady(d)
      BY <2>3, UnchangedCarried DEF Steady
    <3> QED
      BY <1>2, <2>2, <3>1, SteadyObject
  <2>5. ObjectInv(c)'
    <3>1. c \notin Held'
      BY <2>3 DEF Held
    <3>2. CASE c \in stranded
      BY <2>2, <3>1, <3>2 DEF ObjectInv
    <3>3. CASE c \notin stranded
      <4>1. Ours(o) /\ ~ objects[c].known
        BY <1>2, <2>1, <3>3 DEF ObjectInv
      <4>2. \A p \in creating : p.cs = c => p = o
        <5>1. \A p \in creating : p.cs = c => Ours(p)
          BY <1>2, <3>3 DEF ObjectInv
        <5>2. \A p : p.cs = c /\ Ours(p) => p.id = o.id
          BY <2>1, <4>1 DEF Ours
        <5> QED
          BY <1>3, <2>1, <5>1, <5>2
      <4>3. c \in Held
        BY <2>1, <4>1 DEF Ours
      <4>4. c \notin rendered
        BY <1>2, <3>3, <4>1, <4>3 DEF ObjectInv
      <4>5. \A p \in alive : p.cs = c => p \in condemned
        BY <1>2, <3>3, <4>1 DEF ObjectInv
      <4> QED
        BY <2>2, <3>1, <4>2, <4>4, <4>5 DEF ObjectInv
    <3> QED
      BY <3>2, <3>3
  <2>6. OnePendingAdd'
    BY <2>3 DEF OnePendingAdd, ObjectsSafe, Held
  <2>7. DistinctRequests'
    BY <1>3, <2>2 DEF DistinctRequests
  <2> QED
    BY <2>4, <2>5, <2>6, <2>7 DEF ObjectsSafe, ObjectsInv
<1>6. ASSUME NEW o \in alive, ObjectRemoved(o) PROVE ObjectsSafe'
  <2>1. PICK c \in Callsign : c = o.cs
    BY <1>1 DEF SimObject
  <2>2. o = [id |-> o.id, cs |-> c]
    BY <1>1, <2>1 DEF SimObject
  <2>3. alive' = alive \ {o} /\ condemned' = condemned \ {o} /\ UNCHANGED <<stranded, creating>>
    BY <1>6 DEF ObjectRemoved
  <2>4. DistinctRequests'
    BY <1>3, <2>3 DEF DistinctRequests
  <2>5. CASE Ours(o) /\ objects[c].known
    <3>1. objects' = [objects EXCEPT ![c] = Nothing] /\ rendered' = rendered \ {c}
      BY <1>6, <2>1, <2>5 DEF ObjectRemoved
    <3>2. objects'[c] = Nothing /\ \A d \in Callsign \ {c} : objects'[d] = objects[d]
      BY <1>1, <3>1 DEF Objects
    <3>3. \A d \in Callsign \ {c} : ObjectInv(d)'
      <4>1. SUFFICES ASSUME NEW d \in Callsign \ {c} PROVE ObjectInv(d)'
        OBVIOUS
      <4>2. ObjectInv(d) /\ objects'[d] = objects[d] /\ (d \in Held' <=> d \in Held)
        BY <1>2, <3>2 DEF Held
      <4>3. \A p : p.cs = d => (Ours(p)' <=> Ours(p)) /\ p # o
        BY <2>1, <4>2 DEF Ours
      <4>4. o # [id |-> objects[d].id, cs |-> d]
        BY <2>1
      <4> QED
        BY <2>3, <3>1, <4>2, <4>3, <4>4 DEF ObjectInv
    <3>4. ObjectInv(c)'
      <4>1. c \notin Held'
        BY <3>2 DEF Held
      <4>2. \A p \in creating : p.cs = c => c \in stranded
        BY <1>2, <2>5 DEF ObjectInv
      <4>3. \A p \in alive : p.cs = c /\ Ours(p) => p = o
        BY <1>1, <2>1, <2>2, <2>5 DEF Ours, SimObject
      <4>4. \A p \in alive' : p.cs = c => c \in stranded' \/ p \in condemned'
        BY <1>2, <2>3, <4>3 DEF ObjectInv
      <4> QED
        BY <2>3, <3>1, <4>1, <4>2, <4>4 DEF ObjectInv
    <3>5. OnePendingAdd'
      BY <3>2 DEF OnePendingAdd, ObjectsSafe, Held
    <3> QED
      BY <2>4, <3>3, <3>4, <3>5 DEF ObjectsSafe, ObjectsInv
  <2>6. CASE ~ (Ours(o) /\ objects[c].known)
    <3>1. objects' = objects /\ rendered' = rendered
      BY <1>6, <2>1, <2>6 DEF ObjectRemoved
    <3>2. \A d \in Callsign : ObjectInv(d)'
      <4>1. SUFFICES ASSUME NEW d \in Callsign PROVE ObjectInv(d)'
        OBVIOUS
      <4>2. ObjectInv(d) /\ (d \in Held' <=> d \in Held)
        BY <1>2, <3>1 DEF Held
      <4>3. \A p : Ours(p)' <=> Ours(p)
        BY <3>1 DEF Ours, Held
      <4>4. d \in Held /\ objects[d].known => o # [id |-> objects[d].id, cs |-> d]
        BY <2>1, <2>6 DEF Ours
      <4> QED
        BY <2>3, <3>1, <4>2, <4>3, <4>4 DEF ObjectInv
    <3>3. OnePendingAdd'
      BY <3>1 DEF OnePendingAdd, ObjectsSafe, Held
    <3> QED
      BY <2>4, <3>2, <3>3 DEF ObjectsSafe, ObjectsInv
  <2> QED
    BY <2>5, <2>6
<1>7. ASSUME NEW c \in Callsign, LightsReceived(c) PROVE ObjectsSafe'
  <2>1. objects[c] # Nothing /\ objects[c] \in Object
    BY <1>7, HeldObjects DEF LightsReceived, Held
  <2>2. objects' = [objects EXCEPT ![c] = [objects[c] EXCEPT !.lights = TRUE]]
    BY <1>7 DEF LightsReceived
  <2>3. objects'[c] = [objects[c] EXCEPT !.lights = TRUE] /\ \A d \in Callsign \ {c} : objects'[d] = objects[d]
    BY <1>1, <2>2 DEF Objects
  <2>4. objects'[c] # Nothing /\ Same(objects[c], objects'[c]) /\ objects'[c].removing = objects[c].removing
    BY <2>1, <2>3, SameUpdates, ObjectUpdates, NothingAssumption
  <2>5. \A d \in Callsign : Steady(d)
    BY <2>1, <2>3, <2>4, UnchangedCarried DEF Steady, Carried
  <2> QED
    BY <1>7, <2>5, SteadyStep DEF LightsReceived, providerVars, simVars, historyVars
<1> QED
  BY <1>4, <1>5, <1>6, <1>7 DEF Simulator

LEMMA SafeNext ==
    ASSUME TypeOK, ObjectsSafe, [Next]_vars
    PROVE  ObjectsSafe'
<1>1. CASE UNCHANGED vars
  BY <1>1, UnchangedObjects DEF vars, providerVars, driverVars, simVars, historyVars
<1> QED
  BY <1>1, SafeContext, SafeTimers, SafeSimulator DEF Next

-----------------------------------------------------------------------------
(* Every step keeps the aircraft that are to be shown on their way *)

\* A step takes nothing from an aircraft that it needs in order to be shown.
KeepsWay(d) ==
    /\ OnItsWay(d) => OnItsWay(d)'
    /\ RemovalDue(d)' => RemovalDue(d)
    /\ Driven(d) => Driven(d)'

\* A step leaves the timers of an aircraft in place, and adds none for its removal.
KeepsTimers(d) ==
    /\ \A t \in adds : t.cs = d => t \in adds'
    /\ \A t \in adds' : t.cs = d /\ t.by = "disabled" => t \in adds
    /\ \A t \in retries : t.cs = d => t \in retries'

LEMMA SameWay ==
    ASSUME NEW d \in Callsign, objects'[d] = objects[d], again'[d] = again[d],
           d \in PendingCallsigns => d \in PendingCallsigns',
           d \in removals' => d \in removals, KeepsTimers(d)
    PROVE  KeepsWay(d)
<1>1. d \in Held <=> d \in Held'
  BY DEF Held
<1> QED
  BY <1>1 DEF KeepsWay, KeepsTimers, OnItsWay, RemovalDue, Driven

LEMMA WayKept ==
    ASSUME NEW d \in Callsign, WayInv(d), d \in enabled' => d \in enabled /\ KeepsWay(d),
           d \in crossed => d \in crossed', d \in givenUp => d \in givenUp',
           model'[d] = model[d], d \in inRange => d \in inRange'
    PROVE  WayInv(d)'
BY DEF WayInv, KeepsWay

\* A timer of its own is all that an aircraft needs.
LEMMA DrivenWay ==
    ASSUME NEW d \in Callsign, Driven(d)', d \notin inRange' => model'[d] = NoModel
    PROVE  WayInv(d)'
BY DEF WayInv, Driven, OnItsWay

LEMMA DisabledWay ==
    ASSUME NEW d \in Callsign, d \notin enabled' \/ model'[d] = NoModel, d \notin inRange' => model'[d] = NoModel
    PROVE  WayInv(d)'
BY DEF WayInv

LEMMA RemoveWay ==
    ASSUME TypeOK, NEW S \in SUBSET Callsign, NEW now, RemoveAircraft(S, now), now.removals \subseteq removals,
           NEW d \in Callsign \ S, KeepsTimers(d)
    PROVE  KeepsWay(d)
<1>1. /\ objects'[d] = objects[d] /\ again'[d] = again[d] /\ (d \in removals' => d \in now.removals)
      /\ PendingCallsigns' = PendingCallsigns \ S
  BY RemoveAircraftEffect
<1> QED
  BY <1>1, SameWay

LEMMA AddWay ==
    ASSUME TypeOK, \A d \in Callsign : WayInv(d), NEW c \in Callsign, NEW m \in Model, NEW on,
           on \subseteq inRange, on \subseteq enabled \cup {c}, AddAircraft(c, m, on),
           inRange' = inRange, retries' = retries, adds' \subseteq adds, \A t \in adds \ adds' : t.cs = c,
           \A d \in Callsign \ {c} : model'[d] = model[d] /\ (d \in givenUp => d \in givenUp'),
           c \notin inRange => model'[c] = NoModel
    PROVE  \A d \in Callsign : WayInv(d)'
<1>1. ASSUME NEW d \in Callsign \ {c} PROVE WayInv(d)'
  <2>1. Undisturbed(d)
    BY AddAircraftOthers
  <2>2. KeepsTimers(d)
    BY DEF KeepsTimers
  <2>3. enabled' = on \ Outdated
    BY DEF AddAircraft
  <2>4. d \in enabled' => d \in enabled /\ KeepsWay(d)
    BY <2>1, <2>2, <2>3, SameWay DEF Undisturbed
  <2>5. d \in crossed => d \in crossed'
    BY <2>1 DEF Undisturbed
  <2> QED
    BY <2>4, <2>5, WayKept
<1>2. WayInv(c)'
  <2>1. CASE c \in enabled' \ crossed'
    <3>1. /\ \/ objects'[c] # Nothing /\ ~ objects'[c].removing
             \/ c \in PendingCallsigns'
             \/ again'[c] # NoModel
          /\ ~ RemovalDue(c) /\ c \notin removals'
      BY <2>1, AddAircraftWay
    <3>2. OnItsWay(c)'
      BY <3>1 DEF OnItsWay, Held
    <3>3. ~ RemovalDue(c)'
      BY <3>1 DEF RemovalDue
    <3> QED
      BY <3>2, <3>3 DEF WayInv
  <2>2. CASE c \notin enabled' \ crossed'
    BY <2>2 DEF WayInv
  <2> QED
    BY <2>1, <2>2
<1> QED
  BY <1>1, <1>2

LEMMA WayContext ==
    ASSUME TypeOK, \A d \in Callsign : WayInv(d), Context
    PROVE  \A d \in Callsign : WayInv(d)'
<1> DEFINE WayAll == \A d \in Callsign : WayInv(d)'
<1>1. Now.removals = removals
  BY DEF Now
<1>2. /\ model \in [Callsign -> Model \cup {NoModel}] /\ enabled \subseteq inRange
      /\ adds \subseteq AddTimer /\ inRange \subseteq Callsign
  BY DEF TypeOK
<1>3. ASSUME NEW c \in Callsign, EnterRange(c) PROVE WayAll
  <2>1. ASSUME NEW d \in Callsign \ {c} PROVE WayInv(d)'
    <3>1. KeepsWay(d)
      BY <1>3 DEF EnterRange, driverVars, timerVars, KeepsWay, OnItsWay, Held, PendingCallsigns, RemovalDue, Driven
    <3>2. /\ d \in enabled' => d \in enabled
          /\ crossed' = crossed /\ givenUp' = givenUp /\ model' = model /\ inRange \subseteq inRange'
      BY <1>3 DEF EnterRange, historyVars
    <3> QED
      BY <3>1, <3>2, WayKept
  <2>2. WayInv(c)'
    <3>1. c \notin inRange /\ model' = model
      BY <1>3 DEF EnterRange
    <3>2. model'[c] = NoModel
      BY <3>1 DEF WayInv
    <3> QED
      BY <3>2, DisabledWay
  <2> QED
    BY <2>1, <2>2
<1>4. ASSUME NEW c \in Callsign, ChangeEnabled(c) PROVE WayAll
  <2>1. /\ inRange' = inRange /\ model' = model /\ adds' = adds /\ retries' = retries /\ givenUp' = givenUp \ {c}
        /\ c \in inRange /\ model[c] # NoModel
    BY <1>4 DEF ChangeEnabled
  <2>2. CASE c \in enabled
    <3>1. PICK S \in SUBSET Callsign : S = {c}
      OBVIOUS
    <3>2. RemoveAircraft(S, Now) /\ enabled' = enabled \ {c} /\ crossed' = crossed
      BY <1>4, <2>2, <3>1 DEF ChangeEnabled
    <3>3. ASSUME NEW d \in Callsign \ {c} PROVE WayInv(d)'
      <4>1. KeepsTimers(d)
        BY <2>1 DEF KeepsTimers
      <4>2. KeepsWay(d)
        BY <1>1, <3>1, <3>2, <4>1, RemoveWay
      <4> QED
        BY <2>1, <3>2, <4>2, WayKept
    <3>4. WayInv(c)'
      BY <2>1, <3>2, DisabledWay
    <3> QED
      BY <3>3, <3>4
  <2>3. CASE c \notin enabled
    <3>1. PICK on : on = enabled \cup {c}
      OBVIOUS
    <3>2. AddAircraft(c, model[c], on) /\ model[c] \in Model
      BY <1>2, <1>4, <2>1, <2>3, <3>1 DEF ChangeEnabled
    <3>3. on \subseteq inRange /\ on \subseteq enabled \cup {c}
      BY <1>2, <2>1, <3>1
    <3>4. \A d \in Callsign \ {c} : model'[d] = model[d] /\ (d \in givenUp => d \in givenUp')
      BY <2>1
    <3> QED
      BY <2>1, <3>2, <3>3, <3>4, AddWay
  <2> QED
    BY <2>2, <2>3
<1>5. ASSUME NEW c \in Callsign, ReAdd(c) PROVE WayAll
  <2>1. PICK S \in SUBSET Callsign : S = {c}
    OBVIOUS
  <2>2. PICK t : t = [cs |-> c, model |-> NoModel, by |-> "readd"]
    OBVIOUS
  <2>3. /\ RemoveAircraft(S, Now) /\ adds' = adds \cup {t} /\ c \in inRange
        /\ UNCHANGED <<inRange, enabled, model, retries, crossed, givenUp>>
    BY <1>5, <2>1, <2>2 DEF ReAdd
  <2>4. t.cs = c /\ t.by = "readd"
    BY <2>2
  <2>5. ASSUME NEW d \in Callsign \ {c} PROVE WayInv(d)'
    <3>1. KeepsTimers(d)
      BY <2>3, <2>4 DEF KeepsTimers
    <3>2. KeepsWay(d)
      BY <1>1, <2>1, <2>3, <3>1, RemoveWay
    <3> QED
      BY <2>3, <3>2, WayKept
  <2>6. Driven(c)'
    BY <2>3, <2>4 DEF Driven
  <2>7. WayInv(c)'
    BY <2>3, <2>6, DrivenWay
  <2> QED
    BY <2>5, <2>7
<1>6. ASSUME NEW c \in Callsign, NEW told \in BOOLEAN, LeaveRange(c, told) PROVE WayAll
  <2>1. PICK T \in SUBSET Callsign : T = IF told THEN {c} ELSE {}
    OBVIOUS
  <2>2. PICK now : now = [Now EXCEPT !.rendered = @ \ {c}]
    OBVIOUS
  <2>3. now.removals = removals
    BY <2>2 DEF Now
  <2>4. /\ RemoveAircraft(T, now) /\ inRange' = inRange \ {c} /\ enabled' = enabled \ {c}
        /\ model' = [model EXCEPT ![c] = NoModel] /\ crossed' = crossed \ {c} /\ givenUp' = givenUp \ {c}
        /\ adds' = adds /\ retries' = retries
    BY <1>6, <2>1, <2>2 DEF LeaveRange
  <2>5. model'[c] = NoModel /\ \A d \in Callsign \ {c} : model'[d] = model[d]
    BY <1>2, <2>4
  <2>6. ASSUME NEW d \in Callsign \ {c} PROVE WayInv(d)'
    <3>1. KeepsTimers(d)
      BY <2>4 DEF KeepsTimers
    <3>2. d \in Callsign \ T
      BY <2>1
    <3>3. KeepsWay(d)
      BY <2>3, <2>4, <3>1, <3>2, RemoveWay
    <3> QED
      BY <2>4, <2>5, <3>3, WayKept
  <2>7. WayInv(c)'
    BY <2>5, DisabledWay
  <2> QED
    BY <2>6, <2>7
<1>7. ASSUME NEW c \in Callsign, NEW m \in Model, LogicallyAdd(c, m) PROVE WayAll
  <2>1. /\ inRange' = inRange /\ model' = [model EXCEPT ![c] = m] /\ adds' = adds /\ retries' = retries
        /\ givenUp' = givenUp \ {c} /\ c \in inRange
    BY <1>7 DEF LogicallyAdd
  <2>2. \A d \in Callsign \ {c} : model'[d] = model[d] /\ (d \in givenUp => d \in givenUp')
    BY <1>2, <2>1
  <2>3. CASE c \in enabled
    <3>1. AddAircraft(c, m, enabled) /\ enabled \subseteq enabled \cup {c}
      BY <1>7, <2>3 DEF LogicallyAdd
    <3> QED
      BY <1>2, <2>1, <2>2, <3>1, AddWay
  <2>4. CASE c \notin enabled
    <3>1. UNCHANGED <<enabled, rendered, driverVars, removals, condemned, stranded, crossed, creating>>
      BY <1>7, <2>4 DEF LogicallyAdd
    <3>2. ASSUME NEW d \in Callsign \ {c} PROVE WayInv(d)'
      <4>1. KeepsWay(d)
        BY <2>1, <3>1 DEF driverVars, KeepsWay, OnItsWay, Held, PendingCallsigns, RemovalDue, Driven
      <4> QED
        BY <2>1, <2>2, <3>1, <4>1, WayKept
    <3>3. WayInv(c)'
      BY <2>1, <2>4, <3>1, DisabledWay
    <3> QED
      BY <3>2, <3>3
  <2> QED
    BY <2>3, <2>4
<1>8. ASSUME NEW c \in Callsign, NEW m \in Model, ChangeModel(c, m) PROVE WayAll
  <2>1. /\ inRange' = inRange /\ model' = [model EXCEPT ![c] = m] /\ retries' = retries /\ enabled' = enabled
        /\ givenUp' = givenUp /\ crossed' = crossed /\ c \in inRange /\ model[c] # NoModel
    BY <1>8 DEF ChangeModel
  <2>2. \A d \in Callsign \ {c} : model'[d] = model[d]
    BY <1>2, <2>1
  <2>3. CASE c \in Held
    <3>1. PICK S \in SUBSET Callsign : S = {c}
      OBVIOUS
    <3>2. PICK t : t = [cs |-> c, model |-> m, by |-> IF c \in enabled THEN "changed" ELSE "disabled"]
      OBVIOUS
    <3>3. t.cs = c /\ t.by = IF c \in enabled THEN "changed" ELSE "disabled"
      BY <3>2
    <3>4. RemoveAircraft(S, Now) /\ adds' = adds \cup {t}
      BY <1>8, <2>3, <3>1, <3>2 DEF ChangeModel
    <3>5. ASSUME NEW d \in Callsign \ {c} PROVE WayInv(d)'
      <4>1. KeepsTimers(d)
        BY <2>1, <3>3, <3>4 DEF KeepsTimers
      <4>2. KeepsWay(d)
        BY <1>1, <3>1, <3>4, <4>1, RemoveWay
      <4> QED
        BY <2>1, <2>2, <4>2, WayKept
    <3>6. CASE c \in enabled
      <4>1. Driven(c)'
        BY <3>3, <3>4, <3>6 DEF Driven
      <4>2. WayInv(c)'
        BY <2>1, <4>1, DrivenWay
      <4> QED
        BY <3>5, <4>2
    <3>7. CASE c \notin enabled
      <4>1. WayInv(c)'
        BY <2>1, <3>7, DisabledWay
      <4> QED
        BY <3>5, <4>1
    <3> QED
      BY <3>6, <3>7
  <2>4. CASE c \notin Held
    <3>1. UNCHANGED <<rendered, driverVars, removals, condemned, stranded, adds>>
      BY <1>8, <2>4 DEF ChangeModel
    <3>2. ASSUME NEW d \in Callsign PROVE KeepsWay(d)
      BY <2>1, <3>1 DEF driverVars, KeepsWay, OnItsWay, Held, PendingCallsigns, RemovalDue, Driven
    <3>3. ASSUME NEW d \in Callsign \ {c} PROVE WayInv(d)'
      BY <2>1, <2>2, <3>2, WayKept
    <3>4. WayInv(c)'
      BY <2>1, <3>2 DEF WayInv, KeepsWay
    <3> QED
      BY <3>3, <3>4
  <2> QED
    BY <2>3, <2>4
<1>9. CASE RemoveAll
  BY <1>9, DisabledWay DEF RemoveAll
<1>10. CASE SimStops \/ SimRuns
  <2>1. UNCHANGED <<providerVars, driverVars, timerVars, crossed, givenUp>>
    BY <1>10 DEF SimStops, SimRuns, historyVars
  <2>2. ASSUME NEW d \in Callsign PROVE WayInv(d)'
    <3>1. KeepsWay(d)
      BY <2>1 DEF driverVars, timerVars, KeepsWay, OnItsWay, Held, PendingCallsigns, RemovalDue, Driven
    <3> QED
      BY <2>1, <3>1, WayKept DEF providerVars
  <2> QED
    BY <2>2
<1> QED
  BY <1>3, <1>4, <1>5, <1>6, <1>7, <1>8, <1>9, <1>10, ContextSteps


LEMMA AddPendingWay ==
    ASSUME TypeOK, NEW p \in Seq(Entry), NEW S, AddPendingAircraft(p, S), retries' = retries, NEW d \in Callsign
    PROVE  /\ KeepsTimers(d)
           /\ d \in inRange /\ d \notin S => again'[d] = again[d]
           /\ d \in inRange /\ d \in CallsignsOf(p) => d \in PendingCallsigns'
<1>1. PICK left : left = Matching(p, {e \in Entry : e.cs \in inRange})
  OBVIOUS
<1>2. PICK t : t = [cs |-> Head(left).cs, model |-> Head(left).model, by |-> "pending"]
  OBVIOUS
<1>3. adds' = IF left = <<>> THEN adds ELSE adds \cup {t}
  BY <1>1, <1>2 DEF AddPendingAircraft
<1>4. t.by = "pending"
  BY <1>2
<1>5. KeepsTimers(d)
  BY <1>3, <1>4 DEF KeepsTimers
<1>6. d \in inRange /\ d \notin S => again'[d] = again[d]
  BY DEF AddPendingAircraft
<1>7. CallsignsOf(pending') = CallsignsOf(p) \cap inRange
  BY AddPendingType
<1> QED
  BY <1>5, <1>6, <1>7, PendingAre

LEMMA WayTimers ==
    ASSUME TypeOK, \A d \in Callsign : WayInv(d), Timers
    PROVE  \A d \in Callsign : WayInv(d)'
<1> DEFINE WayAll == \A d \in Callsign : WayInv(d)'
<1>1. Now.removals = removals
  BY DEF Now
<1>2. /\ model \in [Callsign -> Model \cup {NoModel}] /\ enabled \subseteq inRange /\ objects \in Objects
      /\ adds \subseteq AddTimer /\ inRange \subseteq Callsign /\ pending \in Seq(Entry)
  BY DEF TypeOK, Objects
<1>3. PICK missing \in SUBSET Callsign : missing = Held \ inRange
  BY HeldObjects
<1>4. CASE TimerBased
  <2>1. UNCHANGED <<inRange, enabled, model, retries, crossed, givenUp>>
    BY <1>4 DEF TimerBased
  <2>2. PICK p \in Seq(Entry) : p = Without(missing)
    BY <1>2, WithoutEffect
  <2>3. CallsignsOf(p) = PendingCallsigns \ missing
    BY <1>2, <2>2, WithoutEffect
  <2>4. AddPendingAircraft(p, missing)
    BY <1>3, <1>4, <2>2 DEF TimerBased
  <2>5. PICK none : none = {}
    OBVIOUS
  <2>6. objects' = RemovedFrom(objects, missing) /\ RemoveEffects(objects, missing, Now, none)
    BY <1>3, <1>4, <2>5 DEF TimerBased
  <2>7. \A d \in Callsign \ missing : objects'[d] = objects[d] /\ (d \in removals' => d \in Now.removals)
    BY <1>2, <2>6, RemovalEffect
  <2>8. ASSUME NEW d \in Callsign PROVE WayInv(d)'
    <3>1. /\ KeepsTimers(d)
          /\ d \in inRange /\ d \notin missing => again'[d] = again[d]
          /\ d \in inRange /\ d \in CallsignsOf(p) => d \in PendingCallsigns'
      BY <2>1, <2>4, AddPendingWay
    <3>2. d \in enabled => d \in inRange /\ d \notin missing
      BY <1>2, <1>3
    <3>3. d \in enabled => KeepsWay(d)
      BY <1>1, <2>3, <2>7, <3>1, <3>2, SameWay
    <3> QED
      BY <2>1, <3>3, WayKept
  <2> QED
    BY <2>8
<1>5. CASE RemoveNotInProvider
  <2>1. /\ RemoveAircraft(missing, Now)
        /\ UNCHANGED <<inRange, enabled, model, adds, retries, crossed, givenUp>>
    BY <1>3, <1>5 DEF RemoveNotInProvider
  <2>2. ASSUME NEW d \in Callsign PROVE WayInv(d)'
    <3>1. KeepsTimers(d)
      BY <2>1 DEF KeepsTimers
    <3>2. d \in enabled => d \in Callsign \ missing
      BY <1>2, <1>3
    <3>3. d \in enabled => KeepsWay(d)
      BY <1>1, <2>1, <3>1, <3>2, RemoveWay
    <3> QED
      BY <2>1, <3>3, WayKept
  <2> QED
    BY <2>2
<1>6. ASSUME NEW c \in Callsign, RemoveAgain(c) PROVE WayAll
  <2>1. PICK S \in SUBSET Callsign : S = {c}
    OBVIOUS
  <2>2. PICK now : now = [Now EXCEPT !.removals = @ \ {c}]
    OBVIOUS
  <2>3. now.removals = removals \ {c}
    BY <2>2 DEF Now
  <2>4. /\ RemoveAircraft(S, now) /\ c \in removals
        /\ UNCHANGED <<inRange, enabled, model, adds, retries, crossed, givenUp>>
    BY <1>6, <2>1, <2>2 DEF RemoveAgain
  <2>5. ASSUME NEW d \in Callsign \ {c} PROVE WayInv(d)'
    <3>1. KeepsTimers(d)
      BY <2>4 DEF KeepsTimers
    <3>2. KeepsWay(d)
      BY <2>1, <2>3, <2>4, <3>1, RemoveWay
    <3> QED
      BY <2>4, <3>2, WayKept
  <2>6. WayInv(c)'
    <3>1. RemovalDue(c) /\ (Driven(c) <=> Driven(c)')
      BY <2>4 DEF RemovalDue, Driven
    <3>2. CASE Driven(c)
      BY <2>4, <3>1, <3>2, DrivenWay DEF WayInv
    <3>3. CASE ~ Driven(c)
      BY <2>4, <3>1, <3>3 DEF WayInv
    <3> QED
      BY <3>2, <3>3
  <2> QED
    BY <2>5, <2>6
<1>7. ASSUME NEW c \in Callsign, Age(c) PROVE WayAll
  <2>1. objects[c] # Nothing /\ objects[c] \in Object
    BY <1>7, HeldObjects DEF Age, Held
  <2>2. objects' = [objects EXCEPT ![c] = [objects[c] EXCEPT !.old = TRUE]]
    BY <1>7 DEF Age
  <2>3. objects'[c] = [objects[c] EXCEPT !.old = TRUE] /\ \A d \in Callsign \ {c} : objects'[d] = objects[d]
    BY <1>2, <2>2 DEF Objects
  <2>4. objects'[c] # Nothing /\ objects'[c].removing = objects[c].removing
    BY <2>1, <2>3, SameUpdates, ObjectUpdates, NothingAssumption
  <2>5. UNCHANGED <<providerVars, pending, again, timerVars, crossed, givenUp>>
    BY <1>7 DEF Age, historyVars
  <2>6. ASSUME NEW d \in Callsign PROVE WayInv(d)'
    <3>1. (d \in Held <=> d \in Held') /\ (d \in Held => objects'[d].removing = objects[d].removing)
      BY <2>1, <2>3, <2>4 DEF Held
    <3>2. KeepsWay(d)
      BY <2>5, <3>1 DEF timerVars, KeepsWay, OnItsWay, PendingCallsigns, RemovalDue, Driven
    <3> QED
      BY <2>5, <3>2, WayKept DEF providerVars
  <2> QED
    BY <2>6
<1>8. ASSUME NEW t \in adds, AddTimerFires(t) PROVE WayAll
  <2>1. PICK c \in Callsign : c = t.cs
    BY <1>2 DEF AddTimer
  <2>2. t.by # "readd" => t.model \in Model
    BY <1>2 DEF AddTimer
  <2>3. adds' = adds \ {t} /\ UNCHANGED <<inRange, model, retries, givenUp>>
    BY <1>8 DEF AddTimerFires
  <2>4. \A d \in Callsign \ {c} : KeepsTimers(d)
    BY <2>1, <2>3 DEF KeepsTimers
  <2>5. CASE StillToAdd(t) /\ AddAircraft(t.cs, IF t.by = "readd" THEN model[t.cs] ELSE t.model, enabled)
    <3>1. t.by = "readd" => model[c] # NoModel
      BY <2>1, <2>5 DEF StillToAdd
    <3>2. PICK m \in Model : m = IF t.by = "readd" THEN model[c] ELSE t.model
      BY <1>2, <2>2, <3>1
    <3>3. AddAircraft(c, m, enabled) /\ enabled \subseteq enabled \cup {c}
      BY <2>1, <2>5, <3>2
    <3>4. c \notin inRange => model'[c] = NoModel
      BY <2>3 DEF WayInv
    <3>5. adds' \subseteq adds /\ \A x \in adds \ adds' : x.cs = c
      BY <2>1, <2>3
    <3>6. \A d \in Callsign \ {c} : model'[d] = model[d] /\ (d \in givenUp => d \in givenUp')
      BY <2>3
    <3> QED
      BY <1>2, <2>3, <3>3, <3>4, <3>5, <3>6, AddWay
  <2>6. CASE t.by = "disabled" /\ RemoveAircraft({t.cs}, Now) /\ UNCHANGED <<enabled, crossed, creating>>
    <3>1. PICK S \in SUBSET Callsign : S = {c}
      OBVIOUS
    <3>2. RemoveAircraft(S, Now) /\ enabled' = enabled /\ crossed' = crossed
      BY <2>1, <2>6, <3>1
    <3>3. ASSUME NEW d \in Callsign \ {c} PROVE WayInv(d)'
      <4>1. KeepsWay(d)
        BY <1>1, <2>4, <3>1, <3>2, RemoveWay
      <4> QED
        BY <2>3, <3>2, <4>1, WayKept
    <3>4. WayInv(c)'
      <4>1. RemovalDue(c)
        BY <2>1, <2>6 DEF RemovalDue
      <4>2. CASE Driven(c)
        <5>1. Driven(c)'
          BY <2>3, <2>6, <4>2 DEF Driven
        <5> QED
          BY <2>3, <5>1, DrivenWay DEF WayInv
      <4>3. CASE ~ Driven(c)
        BY <2>3, <3>2, <4>1, <4>3 DEF WayInv
      <4> QED
        BY <4>2, <4>3
    <3> QED
      BY <3>3, <3>4
  <2>7. CASE /\ ~ StillToAdd(t) /\ ~ (t.by = "disabled" /\ t.cs \in inRange)
             /\ UNCHANGED <<enabled, rendered, driverVars, removals, condemned, stranded, crossed, creating>>
    <3>1. ASSUME NEW d \in Callsign \ {c} PROVE WayInv(d)'
      <4>1. KeepsWay(d)
        BY <2>4, <2>7, SameWay DEF driverVars, PendingCallsigns
      <4> QED
        BY <2>3, <2>7, <4>1, WayKept
    <3>2. t.by \in {"pending", "removed", "changed", "disabled", "readd"}
      BY <1>2 DEF AddTimer
    <3>3. c \notin enabled \/ model[c] = NoModel
      <4>1. CASE t.by = "readd"
        BY <2>1, <2>7, <4>1 DEF StillToAdd
      <4>2. CASE t.by = "pending"
        BY <1>2, <2>7, <4>2 DEF StillToAdd
      <4>3. CASE t.by = "removed"
        BY <2>7, <4>3 DEF StillToAdd
      <4>4. CASE t.by = "changed"
        BY <1>2, <2>1, <2>7, <4>4 DEF StillToAdd
      <4>5. CASE t.by = "disabled"
        BY <1>2, <2>1, <2>7, <4>5
      <4> QED
        BY <3>2, <4>1, <4>2, <4>3, <4>4, <4>5
    <3>4. WayInv(c)'
      BY <2>3, <2>7, <3>3, DisabledWay DEF WayInv
    <3> QED
      BY <3>1, <3>4
  <2> QED
    BY <1>8, <2>5, <2>6, <2>7 DEF AddTimerFires
<1>9. ASSUME NEW e \in retries, RetryFires(e) PROVE WayAll
  <2>1. e \in Entry
    BY DEF TypeOK
  <2>2. PendingCallsigns' = PendingCallsigns \cup {e.cs}
    BY <1>2, <1>9, <2>1, InsertedEffect, PendingAre DEF RetryFires
  <2>3. /\ retries' = retries \ {e}
        /\ UNCHANGED <<providerVars, objects, again, adds, removals, crossed, givenUp>>
    BY <1>9 DEF RetryFires, historyVars
  <2>4. ASSUME NEW d \in Callsign PROVE WayInv(d)'
    <3>1. OnItsWay(d) => OnItsWay(d)'
      BY <2>2, <2>3 DEF OnItsWay, Held
    <3>2. KeepsWay(d)
      BY <2>3, <3>1 DEF KeepsWay, RemovalDue, Driven
    <3> QED
      BY <2>3, <3>2, WayKept DEF providerVars
  <2> QED
    BY <2>4
<1>10. ASSUME NEW v \in verifies, VerifyAdded(v) PROVE WayAll
  <2>1. PICK c \in Callsign : c = v.cs
    BY DEF TypeOK, SimObject
  <2> DEFINE confirm == c \in Held /\ objects[c].known /\ ~ objects[c].removing
  <2>2. PICK drop : drop = IF confirm \/ (c \notin Held /\ c \notin inRange) THEN {c} ELSE {}
    OBVIOUS
  <2>3. PICK p \in Seq(Entry) : p = Without(drop)
    BY <1>2, WithoutEffect
  <2>4. CallsignsOf(p) = PendingCallsigns \ drop
    BY <1>2, <2>3, WithoutEffect
  <2>5. AddPendingAircraft(p, drop)
    BY <1>10, <2>1, <2>2, <2>3 DEF VerifyAdded
  <2>6. UNCHANGED <<inRange, enabled, model, removals, retries, crossed, givenUp>>
    BY <1>10 DEF VerifyAdded, historyVars
  <2>7. \A d \in Callsign \ {c} : objects'[d] = objects[d]
    BY <1>2, <1>10, <2>1 DEF VerifyAdded, Objects
  <2>8. ASSUME NEW d \in Callsign PROVE WayInv(d)'
    <3>1. /\ KeepsTimers(d)
          /\ d \in inRange /\ d \notin drop => again'[d] = again[d]
          /\ d \in inRange /\ d \in CallsignsOf(p) => d \in PendingCallsigns'
      BY <2>5, <2>6, AddPendingWay
    <3>2. CASE d # c
      <4>1. d \notin drop /\ objects'[d] = objects[d]
        BY <2>2, <2>7, <3>2
      <4>2. d \in enabled => KeepsWay(d)
        BY <1>2, <2>4, <2>6, <3>1, <4>1, SameWay
      <4> QED
        BY <2>6, <4>2, WayKept
    <3>3. CASE d = c /\ confirm
      <4>1. objects[c] \in Object
        BY <3>3, HeldObjects
      <4>2. objects' = [objects EXCEPT ![c] = [objects[c] EXCEPT !.confirmed = TRUE, !.deferred = FALSE, !.old = FALSE]]
        BY <1>10, <2>1, <3>3 DEF VerifyAdded
      <4>3. objects'[c] = [objects[c] EXCEPT !.confirmed = TRUE, !.deferred = FALSE, !.old = FALSE]
        BY <1>2, <4>2 DEF Objects
      <4>4. PICK x \in Object : x = objects[c]
        BY <4>1
      <4>5. objects'[c] \in Object /\ objects'[c].removing = x.removing
        BY <4>3, <4>4 DEF Object
      <4>6. OnItsWay(c)'
        BY <3>3, <4>4, <4>5, NothingAssumption DEF OnItsWay, Held
      <4>7. KeepsWay(c)
        BY <2>6, <3>1, <3>3, <4>6 DEF KeepsWay, KeepsTimers, RemovalDue, Driven
      <4> QED
        BY <2>6, <3>3, <4>7, WayKept
    <3>4. CASE d = c /\ ~ confirm
      <4>1. objects' = objects
        BY <1>10, <2>1, <3>4 DEF VerifyAdded
      <4>2. d \in enabled => d \in inRange /\ d \notin drop
        BY <1>2, <2>2, <3>4
      <4>3. d \in enabled => KeepsWay(d)
        BY <2>4, <2>6, <3>1, <4>1, <4>2, SameWay
      <4> QED
        BY <2>6, <4>3, WayKept
    <3> QED
      BY <3>2, <3>3, <3>4
  <2> QED
    BY <2>8
<1> QED
  BY <1>4, <1>5, <1>6, <1>7, <1>8, <1>9, <1>10 DEF Timers


LEMMA WaySimulator ==
    ASSUME TypeOK, \A d \in Callsign : WayInv(d), Simulator
    PROVE  \A d \in Callsign : WayInv(d)'
<1> DEFINE WayAll == \A d \in Callsign : WayInv(d)'
<1>1. objects \in Objects /\ creating \subseteq Request /\ alive \subseteq SimObject /\ pending \in Seq(Entry)
  BY DEF TypeOK, Objects
<1>2. again \in [Callsign -> Model \cup {NoModel}]
  BY DEF TypeOK
<1>3. ASSUME NEW c \in Callsign, c \in Held => objects'[c] # Nothing /\ objects'[c].removing = objects[c].removing,
             \A d \in Callsign \ {c} : objects'[d] = objects[d],
             UNCHANGED <<providerVars, pending, again, adds, removals, retries, crossed, givenUp>>
      PROVE  WayAll
  <2>1. ASSUME NEW d \in Callsign PROVE WayInv(d)'
    <3>1. d \in Held => d \in Held' /\ objects'[d].removing = objects[d].removing
      BY <1>3 DEF Held
    <3>2. KeepsWay(d)
      BY <1>3, <3>1 DEF KeepsWay, OnItsWay, PendingCallsigns, RemovalDue, Driven
    <3> QED
      BY <1>3, <3>2, WayKept DEF providerVars
  <2> QED
    BY <2>1
<1>4. ASSUME NEW o \in creating, Assigned(o) PROVE WayAll
  <2>1. PICK c \in Callsign : c = o.cs
    BY <1>1 DEF Request
  <2>2. UNCHANGED <<providerVars, pending, again, adds, removals, retries, crossed, givenUp>>
    BY <1>4 DEF Assigned, historyVars
  <2>3. \A d \in Callsign \ {c} : objects'[d] = objects[d]
    BY <1>1, <1>4, <2>1 DEF Assigned, Objects
  <2>4. c \in Held => objects'[c] # Nothing /\ objects'[c].removing = objects[c].removing
    <3>1. CASE Ours(o)
      <4>1. objects[c] \in Object
        BY <2>1, <3>1, HeldObjects DEF Ours
      <4>2. objects'[c] = [objects[c] EXCEPT !.known = TRUE]
        BY <1>1, <1>4, <2>1, <3>1 DEF Assigned, Objects
      <4>3. PICK x \in Object : x = objects[c]
        BY <4>1
      <4>4. objects'[c] \in Object /\ objects'[c].removing = x.removing
        BY <4>2, <4>3 DEF Object
      <4> QED
        BY <4>3, <4>4, NothingAssumption
    <3>2. CASE ~ Ours(o)
      BY <1>4, <3>2 DEF Assigned, Held
    <3> QED
      BY <3>1, <3>2
  <2> QED
    BY <1>3, <2>2, <2>3, <2>4
<1>5. ASSUME NEW o \in creating, NEW installed \in BOOLEAN, CreateFails(o, installed) PROVE WayAll
  <2>1. PICK c \in Callsign : c = o.cs
    BY <1>1 DEF Request
  <2>2. PICK failed : failed = (IF Ours(o) THEN objects[o.cs].failed ELSE o.failed) + 1
    OBVIOUS
  <2>3. PICK e : e = [cs |-> c, model |-> o.model, failed |-> failed, gone |-> o.gone]
    OBVIOUS
  <2>4. e.cs = c
    BY <2>3
  <2>5. \/ enabled' = enabled \ {c} /\ retries' = retries
        \/ enabled' = enabled /\ retries' = retries \cup {e}
    BY <1>5, <2>1, <2>2, <2>3 DEF CreateFails
  <2>6. UNCHANGED <<inRange, model, adds, removals, crossed, givenUp>>
    BY <1>5 DEF CreateFails, historyVars
  <2>7. PICK S : S = {c}
    OBVIOUS
  <2>8. PendingCallsigns' = PendingCallsigns \ {c}
    BY <1>1, <1>5, <2>1, <2>7, WithoutEffect, PendingAre DEF CreateFails
  <2>9. \A d \in Callsign \ {c} : objects'[d] = objects[d] /\ again'[d] = again[d]
    BY <1>1, <1>2, <1>5, <2>1 DEF CreateFails, Objects
  <2>10. ASSUME NEW d \in Callsign \ {c} PROVE WayInv(d)'
    <3>1. KeepsTimers(d)
      BY <2>5, <2>6 DEF KeepsTimers
    <3>2. KeepsWay(d)
      BY <2>6, <2>8, <2>9, <3>1, SameWay
    <3> QED
      BY <2>5, <2>6, <3>2, WayKept
  <2>11. WayInv(c)'
    <3>1. CASE enabled' = enabled \ {c}
      BY <2>6, <3>1, DisabledWay DEF WayInv
    <3>2. CASE enabled' = enabled /\ retries' = retries \cup {e}
      <4>1. OnItsWay(c)'
        BY <2>4, <3>2 DEF OnItsWay
      <4>2. KeepsWay(c)
        BY <2>6, <4>1 DEF KeepsWay, RemovalDue, Driven
      <4> QED
        BY <2>6, <3>2, <4>2, WayKept
    <3> QED
      BY <2>5, <3>1, <3>2
  <2> QED
    BY <2>10, <2>11
<1>6. ASSUME NEW o \in alive, ObjectRemoved(o) PROVE WayAll
  <2>1. PICK c \in Callsign : c = o.cs
    BY <1>1 DEF SimObject
  <2>2. UNCHANGED <<inRange, enabled, model, removals, retries, crossed>>
    BY <1>6 DEF ObjectRemoved
  <2>3. CASE Ours(o) /\ objects[c].known
    <3>1. PICK x \in Object : x = objects[c]
      BY <2>1, <2>3, HeldObjects DEF Ours
    <3>2. PICK e : e = [cs |-> c, model |-> x.model, failed |-> x.failed, gone |-> x.gone + 1]
      OBVIOUS
    <3>3. PICK t : t = [cs |-> c, model |-> again[c], by |-> "removed"]
      OBVIOUS
    <3>4. t.cs = c /\ t.by = "removed" /\ e.cs = c
      BY <3>2, <3>3
    <3>5. /\ pending' = IF ~ x.removing /\ x.gone < MaxGone THEN Inserted(e) ELSE pending
          /\ givenUp' = IF ~ x.removing /\ x.gone >= MaxGone THEN givenUp \cup {c} ELSE givenUp
          /\ objects' = [objects EXCEPT ![c] = Nothing]
          /\ adds' = IF again[c] = NoModel THEN adds ELSE adds \cup {t}
          /\ again' = [again EXCEPT ![c] = NoModel]
      BY <1>6, <2>1, <2>3, <3>1, <3>2, <3>3 DEF ObjectRemoved
    <3>6. x.gone \in 0..MaxGone /\ MaxGone \in Nat
      BY <3>1, TrafficAssumption DEF Object
    <3>7. ~ x.removing /\ x.gone < MaxGone => e \in Entry
      <4>1. x.gone < MaxGone => x.gone + 1 \in 0..MaxGone
        BY <3>6
      <4> QED
        BY <3>1, <3>2, <4>1 DEF Entry, Object
    <3>8. PendingCallsigns' = IF ~ x.removing /\ x.gone < MaxGone THEN PendingCallsigns \cup {c} ELSE PendingCallsigns
      BY <1>1, <3>4, <3>5, <3>7, InsertedEffect, PendingAre
    <3>9. \A d \in Callsign \ {c} : objects'[d] = objects[d] /\ again'[d] = again[d]
      BY <1>1, <1>2, <3>5 DEF Objects
    <3>10. ASSUME NEW d \in Callsign \ {c} PROVE WayInv(d)'
      <4>1. KeepsTimers(d)
        BY <2>2, <3>4, <3>5 DEF KeepsTimers
      <4>2. KeepsWay(d)
        BY <2>2, <3>8, <3>9, <4>1, SameWay
      <4> QED
        BY <2>2, <3>5, <4>2, WayKept
    <3>11. WayInv(c)'
      <4>1. (RemovalDue(c)' => RemovalDue(c)) /\ (Driven(c) => Driven(c)')
        BY <2>2, <3>4, <3>5 DEF RemovalDue, Driven
      <4>2. CASE ~ x.removing /\ x.gone >= MaxGone
        <5>1. c \in givenUp'
          BY <3>5, <4>2
        <5> QED
          BY <2>2, <5>1 DEF WayInv
      <4>3. CASE ~ x.removing /\ ~ (x.gone >= MaxGone)
        <5>1. x.gone < MaxGone
          BY <3>6, <4>3
        <5>2. OnItsWay(c)'
          BY <3>8, <4>3, <5>1 DEF OnItsWay
        <5>3. KeepsWay(c)
          BY <4>1, <5>2 DEF KeepsWay
        <5> QED
          BY <2>2, <3>5, <5>3, WayKept
      <4>4. CASE x.removing
        <5>1. OnItsWay(c) => OnItsWay(c)'
          BY <2>2, <3>1, <3>4, <3>5, <3>8, <4>4 DEF OnItsWay
        <5>2. KeepsWay(c)
          BY <4>1, <5>1 DEF KeepsWay
        <5> QED
          BY <2>2, <3>5, <5>2, WayKept
      <4> QED
        BY <4>2, <4>3, <4>4
    <3> QED
      BY <3>10, <3>11
  <2>4. CASE ~ (Ours(o) /\ objects[c].known)
    <3>1. UNCHANGED <<pending, givenUp, objects, rendered, adds, again>>
      BY <1>6, <2>1, <2>4 DEF ObjectRemoved
    <3>2. c \in Held => objects'[c] # Nothing /\ objects'[c].removing = objects[c].removing
      BY <3>1 DEF Held
    <3> QED
      BY <1>3, <2>2, <3>1, <3>2 DEF providerVars
  <2> QED
    BY <2>3, <2>4
<1>7. ASSUME NEW c \in Callsign, LightsReceived(c) PROVE WayAll
  <2>1. objects[c] # Nothing /\ objects[c] \in Object
    BY <1>7, HeldObjects DEF LightsReceived, Held
  <2>2. objects' = [objects EXCEPT ![c] = [objects[c] EXCEPT !.lights = TRUE]]
    BY <1>7 DEF LightsReceived
  <2>3. objects'[c] = [objects[c] EXCEPT !.lights = TRUE] /\ \A d \in Callsign \ {c} : objects'[d] = objects[d]
    BY <1>1, <2>2 DEF Objects
  <2>4. objects'[c] # Nothing /\ objects'[c].removing = objects[c].removing
    BY <2>1, <2>3, SameUpdates, ObjectUpdates, NothingAssumption
  <2>5. UNCHANGED <<providerVars, pending, again, adds, removals, retries, crossed, givenUp>>
    BY <1>7 DEF LightsReceived, timerVars, historyVars
  <2> QED
    BY <1>3, <2>3, <2>4, <2>5
<1> QED
  BY <1>4, <1>5, <1>6, <1>7 DEF Simulator

LEMMA WayNext ==
    ASSUME TypeOK, \A d \in Callsign : WayInv(d), [Next]_vars
    PROVE  \A d \in Callsign : WayInv(d)'
<1>1. ASSUME UNCHANGED vars, NEW d \in Callsign PROVE WayInv(d)'
  <2>1. KeepsWay(d)
    BY <1>1 DEF vars, driverVars, timerVars, KeepsWay, OnItsWay, Held, PendingCallsigns, RemovalDue, Driven
  <2> QED
    BY <1>1, <2>1, WayKept DEF vars, providerVars, historyVars
<1> QED
  BY <1>1, WayContext, WayTimers, WaySimulator DEF Next

-----------------------------------------------------------------------------
(* The inductive invariant *)

LEMMA TrafficInit ==
    ASSUME Init
    PROVE  TrafficInv
<1>1. TypeOK
  BY TrafficAssumption DEF Init, TypeOK
<1>2. Held = {}
  BY DEF Init, Held
<1>3. OnePendingAdd /\ DistinctRequests
  BY <1>2 DEF Init, OnePendingAdd, DistinctRequests
<1>4. \A c \in Callsign : ObjectInv(c)
  BY <1>2 DEF Init, ObjectInv
<1>5. \A c \in Callsign : WayInv(c)
  BY DEF Init, WayInv
<1> QED
  BY <1>1, <1>3, <1>4, <1>5 DEF TrafficInv, ObjectsInv

\* The driver's list, the requests under way, the objects in the simulator and the timers
\* fit together at all times, in the sense of TrafficInv.
THEOREM TrafficIsSound ==
    Spec => []TrafficInv
<1>1. Init => TrafficInv
  BY TrafficInit
<1>2. TrafficInv /\ [Next]_vars => TrafficInv'
  <2>1. SUFFICES ASSUME TrafficInv, [Next]_vars PROVE TrafficInv'
    OBVIOUS
  <2>2. TypeOK /\ ObjectsSafe /\ \A c \in Callsign : WayInv(c)
    BY <2>1 DEF TrafficInv, ObjectsSafe
  <2>3. TypeOK'
    BY <2>1, <2>2, TypeNext
  <2>4. ObjectsSafe'
    BY <2>1, <2>2, SafeNext
  <2>5. \A c \in Callsign : WayInv(c)'
    BY <2>1, <2>2, WayNext
  <2> QED
    BY <2>3, <2>4, <2>5 DEF TrafficInv, ObjectsSafe
<1> QED
  BY <1>1, <1>2, PTL DEF Spec

\* The assertion of physicallyAddRemoteAircraftImpl() holds for any number of aircraft: at
\* most one object is being added at a time.
THEOREM OneObjectAtATime ==
    Spec => []OnePendingAdd
<1>1. TrafficInv => OnePendingAdd
  BY DEF TrafficInv
<1> QED
  BY <1>1, TrafficIsSound, PTL

\* An aircraft marked as rendered is in the simulator, unless an object of its callsign was
\* forgotten.
THEOREM RenderedAircraftAreShown ==
    Spec => []RenderedIsShown
<1>1. TrafficInv => RenderedIsShown
  <2>1. SUFFICES ASSUME TrafficInv, NEW c \in rendered \ stranded
                 PROVE  c \in Held /\ objects[c].confirmed /\ [id |-> objects[c].id, cs |-> c] \in alive
    BY DEF RenderedIsShown
  <2>2. c \in Callsign
    BY <2>1 DEF TrafficInv, TypeOK
  <2>3. ObjectInv(c)
    BY <2>1, <2>2 DEF TrafficInv, ObjectsInv
  <2> QED
    BY <2>1, <2>3 DEF ObjectInv
<1> QED
  BY <1>1, TrafficIsSound, PTL

\* No object is left behind in the simulator, unless the driver has forgotten one of the
\* same callsign.
THEOREM NoObjectIsLeftBehind ==
    Spec => []NoGhosts
<1>1. TrafficInv => NoGhosts
  <2>1. SUFFICES ASSUME TrafficInv, NEW o \in alive
                 PROVE  o.cs \in stranded \/ o \in condemned \/ (Ours(o) /\ objects[o.cs].known)
    BY DEF NoGhosts
  <2>2. PICK c \in Callsign : c = o.cs
    BY <2>1 DEF TrafficInv, TypeOK, SimObject
  <2>3. ObjectInv(c)
    BY <2>1, <2>2 DEF TrafficInv, ObjectsInv
  <2> QED
    BY <2>1, <2>2, <2>3 DEF ObjectInv
<1> QED
  BY <1>1, TrafficIsSound, PTL

\* An aircraft that is to be shown is never lost between the driver's lists and timers,
\* unless it was added while a removal was under way or the simulator rejects it.
THEOREM NoAircraftIsLost ==
    Spec => []NotLost
<1>1. TrafficInv => NotLost
  <2>1. SUFFICES ASSUME TrafficInv, NEW c \in enabled \ (crossed \cup givenUp), model[c] # NoModel
                 PROVE  OnItsWay(c)
    BY DEF NotLost
  <2>2. c \in Callsign
    BY <2>1 DEF TrafficInv, TypeOK
  <2>3. WayInv(c)
    BY <2>1, <2>2 DEF TrafficInv
  <2> QED
    BY <2>1, <2>3 DEF WayInv
<1> QED
  BY <1>1, TrafficIsSound, PTL
=============================================================================
