--------------------------- MODULE AirspaceProofs ----------------------------
(***************************************************************************)
(* Proofs about Airspace, for every set of callsigns and all times in the  *)
(* order of the code's.                                                    *)
(*                                                                         *)
(* The invariants of the runs depend on each other: an aircraft is not     *)
(* forgotten when its timer finds that matching was sent because           *)
(* SentMeansKnown holds, and not on reconnecting because of CleanOffline.  *)
(* AddedAgain closes the induction: it covers the aircraft that the        *)
(* network has added while its re-initialization was pending.              *)
(***************************************************************************)
EXTENDS Airspace, TLAPS

\* An aircraft in range that asyncReInitializeAllAircraft() will add again was
\* added since the last tick
AddedAgain == \A c \in inRange \cap reinit : VerifyAfter \in verifies[c]

\* Every disconnection is signalled once
SignalledOnce == clearing <= drops

AirspaceInv ==
    TypeOK /\ NotForgotten /\ CleanOffline /\ SentMeansKnown /\ AddedAgain /\ SignalledOnce

\* Readiness::addFlag() keeps the types and adds the flags.
LEMMA AddFlagsType ==
    ASSUME NEW r \in Readiness, NEW fs \in SUBSET Flag
    PROVE  /\ AddFlags(r, fs) \in Readiness
           /\ AddFlags(r, fs).flags = r.flags \cup fs
           /\ AddFlags(r, fs).checks = r.checks
<1>1. 0 \in -1..Threshold
  BY TimesAssumption
<1> QED
  BY <1>1 DEF AddFlags, Readiness

\* m_readiness.remove() keeps the types.
LEMMA ForgetType ==
    ASSUME NEW r \in Readiness
    PROVE  Forget(r) \in Readiness /\ Forget(r).flags = {}
<1>1. -1 \in -1..Threshold
  BY TimesAssumption
<1> QED
  BY <1>1 DEF Forget, Readiness

\* sendReadyForModelMatching() changes the readiness of its aircraft only,
\* marks matching as sent only if it announces the aircraft, announces it if
\* the data count as verified and matching was not sent, and does nothing
\* without a connection.
LEMMA SendReadyEffect ==
    ASSUME NEW c \in Callsign, NEW rf \in SUBSET Flag, NEW r0 \in Readiness,
           NEW hasModel, "sent" \notin rf,
           ready \in [Callsign -> Readiness],
           SendReady(c, rf, r0, hasModel)
    PROVE  /\ ready' \in [Callsign -> Readiness]
           /\ \A d \in Callsign \ {c} : ready'[d] = ready[d]
           /\ known' = known \/ known' = known \cup {c}
           /\ "sent" \in ready'[c].flags => "sent" \in r0.flags \/ c \in known'
           /\ "strayed" \in r0.flags => "strayed" \in ready'[c].flags \/ c \in known'
           /\ ~online => ready'[c] = r0 /\ known' = known
           /\ online /\ "verified" \in rf /\ "sent" \notin r0.flags => c \in known'
<1> DEFINE r == AddFlags(r0, rf)
           t == [left |-> CheckAgain, fsinn |-> rf = {"fsinn"}]
           w == [r EXCEPT !.checks = @ \cup {t}]
           e == [r EXCEPT !.flags = {}]
           s == AddFlags(e, {"sent"})
           sent == "sent" \in r.flags /\ r.age < Threshold
           wait == "verified" \notin rf /\ r.age <= MaxAge /\ ~Complete(c, r, hasModel)
<1>1. r \in Readiness /\ r.flags = r0.flags \cup rf
  BY AddFlagsType
<1>2. t \in Timer
  BY TimesAssumption DEF Timer
<1> HIDE DEF r, t
<1>3. w \in Readiness /\ w.flags = r.flags
  BY <1>1, <1>2 DEF Readiness
<1>4. e \in Readiness
  BY <1>1 DEF Readiness
<1>5. s \in Readiness
  BY <1>4, AddFlagsType DEF Flag
<1> HIDE DEF w, e, s, sent, wait
<1>6. CASE ~online
  <2>1. ready' = [ready EXCEPT ![c] = r0] /\ known' = known
    BY <1>6 DEF SendReady
  <2> QED
    BY <1>6, <2>1
<1>7. CASE online /\ sent
  <2>1. ready' = [ready EXCEPT ![c] = r] /\ known' = known
    BY <1>7 DEF SendReady, sent, r
  <2>2. "sent" \in r0.flags
    BY <1>1, <1>7 DEF sent
  <2> QED
    BY <1>1, <1>7, <2>1, <2>2
<1>8. CASE online /\ ~sent /\ wait
  <2>1. ready' = [ready EXCEPT ![c] = w] /\ known' = known
    BY <1>8 DEF SendReady, sent, wait, r, w, t
  <2>2. "verified" \notin rf
    BY <1>8 DEF wait
  <2> QED
    BY <1>1, <1>3, <1>8, <2>1, <2>2
<1>9. CASE online /\ ~sent /\ ~wait
  <2>1. ready' = [ready EXCEPT ![c] = s] /\ known' = known \cup {c}
    BY <1>9 DEF SendReady, sent, wait, r, s, e
  <2> QED
    BY <1>5, <1>9, <2>1
<1> QED
  BY <1>6, <1>7, <1>8, <1>9


\* AirspaceInv holds in every reachable state.
THEOREM AirspaceInvariant == Spec => []AirspaceInv
<1>1. Init => AirspaceInv
  <2> SUFFICES ASSUME Init PROVE AirspaceInv
    OBVIOUS
  <2>1. [flags |-> {}, age |-> -1, checks |-> {}] \in Readiness
    BY TimesAssumption DEF Readiness
  <2>2. TypeOK
    BY <2>1, BoundAssumption DEF Init, TypeOK
  <2> QED
    BY <2>2 DEF Init, AirspaceInv, NotForgotten, CleanOffline, SentMeansKnown, AddedAgain, SignalledOnce
<1>2. AirspaceInv /\ [Next]_vars => AirspaceInv'
  <2> SUFFICES ASSUME AirspaceInv, [Next]_vars PROVE AirspaceInv'
    OBVIOUS
  <2> USE DEF AirspaceInv
  <2>0. SignalledOnce'
    <3>1. CASE Drop \/ Clear
      BY <3>1, BoundAssumption DEF Drop, Clear, RemoveAllAircraft, TypeOK, SignalledOnce, boundVars
    <3>2. CASE ~(Drop \/ Clear)
      <4>1. UNCHANGED <<clearing, drops>>
        BY <3>2, ZenonT(60) DEF Next, vars, boundVars, Data, Visit, Check, OnIcaoCodesReceived, OnFsInnPacketReceived,
                    KeepFsInnPacket, CheckReadiness, VerifyReceivedIcaoData, AddNewAircraft, StoreSituation,
                    LeaveRange, OnPilotDisconnected, DriverRemoves, ReInitialize, ReInitializeAllAircraft, Reconnect, Tick
      <4> QED
        BY <4>1 DEF SignalledOnce
    <3> QED
      BY <3>1, <3>2
  <2>1. ASSUME NEW c \in Callsign, NEW found \in BOOLEAN,
               OnIcaoCodesReceived(c, found) \/ OnFsInnPacketReceived(c, found)
        PROVE  AirspaceInv'
    <3>1. PICK rf \in {{"icao"}, {"fsinn"}} :
             /\ online /\ c \in inRange /\ model' \subseteq Callsign
             /\ SendReady(c, rf, ready[c], c \in model')
             /\ UNCHANGED <<online, clearing, inRange, situated, ghosts, packets, verifies, reinit, boundVars>>
      <4>1. model' = model \/ model' = model \cup {c}
        BY <2>1 DEF OnIcaoCodesReceived, OnFsInnPacketReceived
      <4> QED
        BY <2>1, <4>1 DEF OnIcaoCodesReceived, OnFsInnPacketReceived, TypeOK
    <3>2. rf \in SUBSET Flag /\ "sent" \notin rf
      BY DEF Flag
    <3>3. /\ ready' \in [Callsign -> Readiness]
          /\ \A d \in Callsign \ {c} : ready'[d] = ready[d]
          /\ known' = known \/ known' = known \cup {c}
          /\ "sent" \in ready'[c].flags => "sent" \in ready[c].flags \/ c \in known'
          /\ "strayed" \in ready[c].flags => "strayed" \in ready'[c].flags \/ c \in known'
      BY <3>1, <3>2, SendReadyEffect DEF TypeOK
    <3>4. TypeOK'
      BY <3>1, <3>3 DEF TypeOK, boundVars
    <3>5. NotForgotten' /\ AddedAgain'
      BY <3>1, <3>3 DEF NotForgotten, AddedAgain, TypeOK
    <3>6. CleanOffline'
      BY <3>1 DEF CleanOffline
    <3>7. SentMeansKnown'
      BY <3>1, <3>3 DEF SentMeansKnown
    <3> QED
      BY <2>0, <3>4, <3>5, <3>6, <3>7
  <2>2. ASSUME NEW c \in Callsign, KeepFsInnPacket(c) PROVE AirspaceInv'
    BY <2>2 DEF KeepFsInnPacket, TypeOK, NotForgotten, CleanOffline, SentMeansKnown, AddedAgain, SignalledOnce,
                rangeVars, boundVars
  <2>3. ASSUME NEW c \in Callsign, NEW t \in ready[c].checks, NEW found \in BOOLEAN,
               CheckReadiness(c, t, found)
        PROVE  AirspaceInv'
    <3> DEFINE r == [ready[c] EXCEPT !.checks = @ \ {t}]
               recall == Recalled(c, t)
               rf == IF recall THEN {"fsinn"} ELSE {}
    <3>1. r \in Readiness /\ r.flags = ready[c].flags
      BY DEF TypeOK, Readiness
    <3>2. /\ packets' \subseteq packets
          /\ model' = model \/ model' = model \cup {c}
          /\ UNCHANGED <<online, clearing, inRange, situated, ghosts, verifies, reinit, boundVars>>
      BY <2>3 DEF CheckReadiness
    <3>3. rf \in SUBSET Flag /\ "sent" \notin rf
      BY DEF Flag
    <3>4. IF c \in inRange THEN SendReady(c, rf, r, c \in model')
                           ELSE ready' = [ready EXCEPT ![c] = r] /\ UNCHANGED known
      BY <2>3 DEF CheckReadiness
    <3> HIDE DEF r, rf, recall
    <3>5. /\ ready' \in [Callsign -> Readiness]
          /\ \A d \in Callsign \ {c} : ready'[d] = ready[d]
          /\ known' = known \/ known' = known \cup {c}
          /\ "sent" \in ready'[c].flags => "sent" \in ready[c].flags \/ c \in known' \cap inRange
          /\ "strayed" \in ready[c].flags => "strayed" \in ready'[c].flags \/ c \in known' \cap inRange
          /\ ~online => ready'[c].flags = ready[c].flags
      <4>1. CASE c \in inRange
        BY <3>1, <3>3, <3>4, <4>1, SendReadyEffect DEF TypeOK
      <4>2. CASE c \notin inRange
        BY <3>1, <3>4, <4>2 DEF TypeOK
      <4> QED
        BY <4>1, <4>2
    <3>6. TypeOK'
      BY <3>2, <3>5 DEF TypeOK, boundVars
    <3>7. NotForgotten' /\ AddedAgain'
      BY <3>2, <3>5 DEF NotForgotten, AddedAgain, TypeOK
    <3>8. CleanOffline'
      BY <3>2, <3>5 DEF CleanOffline
    <3>9. SentMeansKnown'
      BY <3>2, <3>5 DEF SentMeansKnown
    <3> QED
      BY <2>0, <3>6, <3>7, <3>8, <3>9
  <2>4. ASSUME NEW c \in Callsign, VerifyReceivedIcaoData(c) PROVE AirspaceInv'
    <3> DEFINE r == AddFlags(ready[c], {"verified"})
    <3>1. r \in Readiness /\ r.flags = ready[c].flags \cup {"verified"}
      BY AddFlagsType DEF TypeOK, Flag
    <3>2. 0 \in verifies[c] /\ VerifyAfter # 0 /\ VerifyAfter \in 0..VerifyAfter
          /\ UNCHANGED <<online, clearing, rangeVars, packets, reinit, boundVars>>
      BY <2>4, TimesAssumption DEF VerifyReceivedIcaoData
    <3> HIDE DEF r
    <3>3. ASSUME verifies' = [verifies EXCEPT ![c] = @ \ {0}] \/ verifies' = [verifies EXCEPT ![c] = (@ \ {0}) \cup {VerifyAfter}],
                 ready' \in [Callsign -> Readiness],
                 \A d \in Callsign \ {c} : ready'[d] = ready[d],
                 known' = known \/ known' = known \cup {c},
                 "sent" \in ready'[c].flags => "sent" \in ready[c].flags \/ c \in known' \cap inRange,
                 "strayed" \in ready[c].flags => "strayed" \in ready'[c].flags \/ c \in known' \cap inRange,
                 ~online => ready'[c].flags = ready[c].flags \/ c \in inRange,
                 c \in inRange /\ online => \/ verifies'[c] # {} \/ c \in known' \/ c \in reinit
                                            \/ "strayed" \in ready'[c].flags
          PROVE  AirspaceInv'
      <4>1. TypeOK'
        BY <3>2, <3>3 DEF TypeOK, rangeVars, boundVars
      <4>2. NotForgotten'
        <5>1. \A d \in Callsign \ {c} : verifies'[d] = verifies[d]
          BY <3>3 DEF TypeOK
        <5> QED
          BY <3>2, <3>3, <5>1 DEF NotForgotten, TypeOK, rangeVars
      <4>3. AddedAgain'
        BY <3>2, <3>3 DEF AddedAgain, TypeOK, rangeVars
      <4>4. CleanOffline'
        BY <3>2, <3>3 DEF CleanOffline, rangeVars
      <4>5. SentMeansKnown'
        BY <3>2, <3>3 DEF SentMeansKnown, rangeVars
      <4> QED
        BY <2>0, <4>1, <4>2, <4>3, <4>4, <4>5
    <3>4. CASE c \notin inRange \/ "sent" \in ready[c].flags
      <4>1. verifies' = [verifies EXCEPT ![c] = @ \ {0}] /\ UNCHANGED <<ready, known>>
        BY <2>4, <3>4 DEF VerifyReceivedIcaoData
      <4>2. c \in inRange => c \in known \/ c \in reinit \/ "strayed" \in ready[c].flags
        BY <3>4 DEF SentMeansKnown
      <4> QED
        BY <3>3, <4>1, <4>2 DEF TypeOK
    <3>5. CASE ~(c \notin inRange \/ "sent" \in ready[c].flags)
               /\ {"verified", "icao"} \cap ready[c].flags = {}
      <4>1. /\ ready' = [ready EXCEPT ![c] = r]
            /\ verifies' = [verifies EXCEPT ![c] = (@ \ {0}) \cup {VerifyAfter}]
            /\ UNCHANGED known
        BY <2>4, <3>5 DEF VerifyReceivedIcaoData, r
      <4>2. VerifyAfter \in verifies'[c]
        BY <4>1 DEF TypeOK
      <4>3. /\ ready' \in [Callsign -> Readiness] /\ ready'[c] = r
            /\ \A d \in Callsign \ {c} : ready'[d] = ready[d]
        BY <3>1, <4>1 DEF TypeOK
      <4> QED
        BY <3>1, <3>3, <3>5, <4>1, <4>2, <4>3
    <3>6. CASE ~(c \notin inRange \/ "sent" \in ready[c].flags)
               /\ {"verified", "icao"} \cap ready[c].flags # {}
      <4>1. /\ verifies' = [verifies EXCEPT ![c] = @ \ {0}]
            /\ SendReady(c, {"verified"}, r, c \in model)
        BY <2>4, <3>6 DEF VerifyReceivedIcaoData, r
      <4>2. {"verified"} \in SUBSET Flag /\ "sent" \notin {"verified"}
        BY DEF Flag
      <4>3. "sent" \notin r.flags
        BY <3>1, <3>6
      <4>4. /\ ready' \in [Callsign -> Readiness]
            /\ \A d \in Callsign \ {c} : ready'[d] = ready[d]
            /\ known' = known \/ known' = known \cup {c}
            /\ "sent" \in ready'[c].flags => "sent" \in r.flags \/ c \in known'
            /\ "strayed" \in r.flags => "strayed" \in ready'[c].flags \/ c \in known'
            /\ online => c \in known'
        BY <3>1, <4>1, <4>2, <4>3, SendReadyEffect DEF TypeOK
      <4> QED
        BY <3>1, <3>3, <3>6, <4>1, <4>3, <4>4
    <3> QED
      BY <3>4, <3>5, <3>6
  <2>5. ASSUME NEW c \in Callsign, AddNewAircraft(c) PROVE AirspaceInv'
    <3>1. VerifyAfter \in 0..VerifyAfter
      BY TimesAssumption
    <3>2. VerifyAfter \in verifies'[c] /\ \A d \in Callsign \ {c} : verifies'[d] = verifies[d]
      BY <2>5 DEF AddNewAircraft, TypeOK
    <3>3. TypeOK'
      BY <2>5, <3>1, BoundAssumption DEF AddNewAircraft, TypeOK
    <3>4. NotForgotten' /\ AddedAgain'
      BY <2>5, <3>2 DEF AddNewAircraft, NotForgotten, AddedAgain, TypeOK
    <3>5. CleanOffline'
      BY <2>5 DEF AddNewAircraft, CleanOffline
    <3>6. SentMeansKnown'
      BY <2>5 DEF AddNewAircraft, SentMeansKnown, TypeOK
    <3> QED
      BY <2>0, <3>3, <3>4, <3>5, <3>6
  <2>6. ASSUME NEW c \in Callsign, StoreSituation(c) PROVE AirspaceInv'
    <3> QED
      BY <2>6 DEF StoreSituation, TypeOK, NotForgotten, CleanOffline, SentMeansKnown, AddedAgain, SignalledOnce,
                        boundVars
  <2>7. ASSUME NEW c \in Callsign, LeaveRange(c) PROVE AirspaceInv'
    <3>1. /\ ready' \in [Callsign -> Readiness]
          /\ \A d \in Callsign \ {c} : ready'[d] = ready[d]
          /\ ready[c].flags \subseteq ready'[c].flags
          /\ ready'[c].flags \subseteq ready[c].flags \cup {"strayed"}
          /\ "sent" \in ready'[c].flags => "strayed" \in ready'[c].flags
      <4>1. ready[c] \in Readiness /\ "strayed" \in Flag
        BY DEF TypeOK, Flag
      <4> QED
        BY <2>7, <4>1 DEF LeaveRange, TypeOK, Readiness
    <3> QED
      BY <2>7, <3>1 DEF LeaveRange, TypeOK, NotForgotten, CleanOffline, SentMeansKnown, AddedAgain, SignalledOnce,
                        boundVars
  <2>8. ASSUME NEW c \in Callsign, OnPilotDisconnected(c) PROVE AirspaceInv'
    <3>1. situated' = situated \ {c}
      BY <2>8 DEF OnPilotDisconnected
    <3>2. Forget(ready[c]) \in Readiness /\ Forget(ready[c]).flags = {}
      BY ForgetType DEF TypeOK
    <3>3. /\ ready' \in [Callsign -> Readiness] /\ ready'[c].flags = {}
          /\ \A d \in Callsign \ {c} : ready'[d] = ready[d]
      BY <2>8, <3>2 DEF OnPilotDisconnected, TypeOK
    <3>4. /\ inRange' = inRange \ {c} /\ ghosts' = ghosts \ {c} /\ known' \subseteq known
          /\ \A d \in Callsign \ {c} : d \in known => d \in known'
          /\ UNCHANGED <<online, clearing, model, packets, verifies, reinit, boundVars>>
      BY <2>8 DEF OnPilotDisconnected
    <3>5. TypeOK'
      BY <3>1, <3>3, <3>4 DEF TypeOK, boundVars
    <3>6. NotForgotten' /\ AddedAgain'
      BY <3>3, <3>4 DEF NotForgotten, AddedAgain, TypeOK
    <3>7. CleanOffline'
      BY <3>1, <3>3, <3>4 DEF CleanOffline, TypeOK
    <3>8. SentMeansKnown'
      BY <3>1, <3>3, <3>4 DEF SentMeansKnown, TypeOK
    <3> QED
      BY <2>0, <3>5, <3>6, <3>7, <3>8
  <2>16. ASSUME NEW c \in Callsign, DriverRemoves(c) PROVE AirspaceInv'
    <3>1. TypeOK' /\ NotForgotten' /\ CleanOffline' /\ AddedAgain'
      BY <2>16 DEF DriverRemoves, TypeOK, NotForgotten, CleanOffline, AddedAgain, rangeVars, boundVars
    <3>2. ("sent" \in ready[c].flags) => c \in reinit \/ "strayed" \in ready[c].flags
      BY <2>16 DEF DriverRemoves, SentMeansKnown
    <3>3. SentMeansKnown'
      BY <2>16, <3>2 DEF DriverRemoves, SentMeansKnown, rangeVars
    <3> QED
      BY <2>0, <3>1, <3>3
  <2>9. ASSUME NEW c \in Callsign, ReInitialize(c) PROVE AirspaceInv'
    <3> DEFINE f == Forget(ready[c])
    <3>1. f \in Readiness /\ f.flags = {}
      BY ForgetType DEF TypeOK
    <3>2. /\ c \in reinit /\ reinit' = reinit \ {c} /\ inRange' = inRange \cup {c}
          /\ ghosts' = (IF online \/ c \in inRange THEN ghosts ELSE ghosts \cup {c})
          /\ verifies' = [verifies EXCEPT ![c] = IF c \in inRange THEN @ ELSE @ \cup {VerifyAfter}]
          /\ SendReady(c, {"icao", "fsinn"}, f, c \in model)
          /\ UNCHANGED <<online, clearing, situated, model, packets, boundVars>>
      BY <2>9 DEF ReInitialize
    <3> HIDE DEF f
    <3>3. {"icao", "fsinn"} \in SUBSET Flag /\ "sent" \notin {"icao", "fsinn"}
      BY DEF Flag
    <3>4. /\ ready' \in [Callsign -> Readiness]
          /\ \A d \in Callsign \ {c} : ready'[d] = ready[d]
          /\ known' = known \/ known' = known \cup {c}
          /\ "sent" \in ready'[c].flags => c \in known'
          /\ ~online => ready'[c].flags = {}
      BY <3>1, <3>2, <3>3, SendReadyEffect DEF TypeOK
    <3>5. VerifyAfter \in verifies'[c] /\ \A d \in Callsign \ {c} : verifies'[d] = verifies[d]
      BY <3>2 DEF AddedAgain, TypeOK
    <3>6. verifies' \in [Callsign -> SUBSET (0..VerifyAfter)]
      BY <3>2, TimesAssumption DEF TypeOK
    <3>7. TypeOK'
      BY <3>2, <3>4, <3>6 DEF TypeOK, boundVars
    <3>8. NotForgotten' /\ AddedAgain'
      BY <3>2, <3>4, <3>5 DEF NotForgotten, AddedAgain, TypeOK
    <3>9. CleanOffline'
      BY <3>2, <3>4 DEF CleanOffline, TypeOK
    <3>10. SentMeansKnown'
      BY <3>2, <3>4 DEF SentMeansKnown, TypeOK
    <3> QED
      BY <2>0, <3>7, <3>8, <3>9, <3>10
  <2>10. CASE ReInitializeAllAircraft
    <3>1. TypeOK'
      BY <2>10, BoundAssumption DEF ReInitializeAllAircraft, RemoveAllAircraft, TypeOK
    <3>2. NotForgotten' /\ AddedAgain' /\ CleanOffline'
      BY <2>10 DEF ReInitializeAllAircraft, RemoveAllAircraft, NotForgotten, AddedAgain, CleanOffline, TypeOK
    <3>3. SentMeansKnown'
      BY <2>10 DEF ReInitializeAllAircraft, RemoveAllAircraft, SentMeansKnown, TypeOK
    <3> QED
      BY <2>0, <3>1, <3>2, <3>3
  <2>11. CASE Drop
    <3>0. /\ clearing' \in 0..MaxDrops /\ drops' \in 0..MaxDrops
      BY <2>11, BoundAssumption DEF Drop, TypeOK, SignalledOnce
    <3>1. TypeOK'
      <4>1. online' \in BOOLEAN
        BY <2>11 DEF Drop
      <4> QED
        BY <2>11, <3>0, <4>1, Zenon DEF Drop, TypeOK, rangeVars
    <3>2. clearing' # 0
      BY <2>11, BoundAssumption DEF Drop, TypeOK
    <3>3. NotForgotten' /\ CleanOffline' /\ SentMeansKnown' /\ AddedAgain'
      BY <2>11, <3>2 DEF Drop, NotForgotten, CleanOffline, SentMeansKnown, AddedAgain, rangeVars
    <3> QED
      BY <2>0, <3>1, <3>3
  <2>12. CASE Reconnect
    BY <2>12 DEF Reconnect, TypeOK, NotForgotten, CleanOffline, SentMeansKnown, AddedAgain, SignalledOnce,
                 rangeVars, boundVars
  <2>13. CASE Clear
    <3>1. \A d \in Callsign : Forget(ready[d]) \in Readiness /\ Forget(ready[d]).flags = {}
      BY ForgetType DEF TypeOK
    <3>2. ready' \in [Callsign -> Readiness] /\ \A d \in Callsign : ready'[d].flags = {}
      BY <2>13, <3>1 DEF Clear, RemoveAllAircraft
    <3>3. TypeOK'
      BY <2>13, <3>2, BoundAssumption DEF Clear, RemoveAllAircraft, TypeOK, boundVars
    <3>4. NotForgotten' /\ AddedAgain' /\ CleanOffline' /\ SentMeansKnown'
      BY <2>13, <3>2 DEF Clear, RemoveAllAircraft, NotForgotten, AddedAgain, CleanOffline, SentMeansKnown
    <3> QED
      BY <2>0, <3>3, <3>4
  <2>14. CASE Tick
    <3> DEFINE u(d) == [ready[d] EXCEPT !.age = IF @ \in 0..(Threshold - 1) THEN @ + 1 ELSE @,
                                        !.checks = {[t EXCEPT !.left = @ - 1] : t \in @}]
    <3>1. ASSUME NEW d \in Callsign PROVE u(d) \in Readiness /\ u(d).flags = ready[d].flags
      <4>1. ready[d] \in Readiness
        BY DEF TypeOK
      <4>2. ASSUME NEW t \in ready[d].checks PROVE [t EXCEPT !.left = @ - 1] \in Timer
        <5>1. t \in Timer /\ t.left # 0
          BY <2>14, <4>1 DEF Tick, Due, Readiness
        <5> QED
          BY <5>1, TimesAssumption DEF Timer
      <4>3. {[t EXCEPT !.left = @ - 1] : t \in ready[d].checks} \in SUBSET Timer
        BY <4>2
      <4>4. (IF ready[d].age \in 0..(Threshold - 1) THEN ready[d].age + 1 ELSE ready[d].age) \in -1..Threshold
        BY <4>1, TimesAssumption DEF Readiness
      <4> QED
        BY <4>1, <4>3, <4>4 DEF Readiness
    <3>2. ready' = [d \in Callsign |-> u(d)]
      BY <2>14 DEF Tick
    <3> HIDE DEF u
    <3>3. ready' \in [Callsign -> Readiness] /\ \A d \in Callsign : ready'[d].flags = ready[d].flags
      BY <3>1, <3>2
    <3>4. ASSUME NEW d \in Callsign
          PROVE  {v - 1 : v \in verifies[d]} \in SUBSET (0..VerifyAfter)
      <4>1. ASSUME NEW v \in verifies[d] PROVE v - 1 \in 0..VerifyAfter
        <5>1. v # 0 /\ v \in 0..VerifyAfter
          BY <2>14 DEF Tick, Due, TypeOK
        <5> QED
          BY <5>1, TimesAssumption
      <4> QED
        BY <4>1
    <3>5. verifies' \in [Callsign -> SUBSET (0..VerifyAfter)]
      BY <2>14, <3>4 DEF Tick
    <3>6. \A d \in Callsign : verifies[d] # {} => verifies'[d] # {}
      BY <2>14 DEF Tick
    <3>7. TypeOK'
      BY <2>14, <3>3, <3>5 DEF Tick, TypeOK, rangeVars, boundVars
    <3>8. NotForgotten' /\ AddedAgain'
      <4>1. UNCHANGED <<online, clearing, inRange, known, ghosts, reinit>> /\ reinit = {}
        BY <2>14 DEF Tick, rangeVars
      <4>2. NotForgotten'
        BY <3>3, <3>6, <4>1 DEF NotForgotten, TypeOK
      <4>3. AddedAgain'
        BY <4>1 DEF AddedAgain
      <4> QED
        BY <4>2, <4>3
    <3>9. CleanOffline' /\ SentMeansKnown'
      BY <2>14, <3>3 DEF Tick, CleanOffline, SentMeansKnown, rangeVars
    <3> QED
      BY <2>0, <3>7, <3>8, <3>9
  <2>15. CASE UNCHANGED vars
    BY <2>15 DEF vars, rangeVars, boundVars, TypeOK, NotForgotten, CleanOffline, SentMeansKnown, AddedAgain, SignalledOnce
  <2> QED
    BY <2>1, <2>2, <2>3, <2>4, <2>5, <2>6, <2>7, <2>8, <2>9, <2>10, <2>11, <2>12, <2>13, <2>14, <2>15, <2>16
    DEF Next, Data, Visit, Check
<1> QED
  BY <1>1, <1>2, PTL DEF Spec

\* The state of the monitor keeps its types.
THEOREM AirspaceTypes == Spec => []TypeOK
<1>1. AirspaceInv => TypeOK
  BY DEF AirspaceInv
<1> QED
  BY <1>1, AirspaceInvariant, PTL

\* An aircraft in range that the simulator does not know of has a timer that
\* will look at it again, unless it was matched in a visit that ended beyond the
\* range.
THEOREM NoneForgotten == Spec => []NotForgotten
<1>1. AirspaceInv => NotForgotten
  BY DEF AirspaceInv
<1> QED
  BY <1>1, AirspaceInvariant, PTL

\* Nothing of a connection's aircraft is left for the next connection.
THEOREM OfflineIsClean == Spec => []CleanOffline
<1>1. AirspaceInv => CleanOffline
  BY DEF AirspaceInv
<1> QED
  BY <1>1, AirspaceInvariant, PTL

\* Matching that is not repeated is that of an aircraft in range that the
\* simulator remembers, of one that is initialized again, or of one that has left
\* the range since.
THEOREM SentIsKnown == Spec => []SentMeansKnown
<1>1. AirspaceInv => SentMeansKnown
  BY DEF AirspaceInv
<1> QED
  BY <1>1, AirspaceInvariant, PTL

=============================================================================
