-------------------------- MODULE ValueCacheProofs --------------------------
(***************************************************************************)
(* The pending counters, the agreement of pages, caches and settings files *)
(* of ValueCache, for any number of processes, pages and keys.             *)
(*                                                                         *)
(* PendingInv says what the counters count.  On top of it PagesInv and     *)
(* ProcsInv say what the last message of each kind in a queue carries, so  *)
(* that a page and its cache, or a cache and the core's, hold the same     *)
(* value when the queues have been emptied.                                *)
(***************************************************************************)
EXTENDS ValueCache, QueueLemmas

-----------------------------------------------------------------------------
(* Counting in the queues *)

\* An empty queue counts nothing.
LEMMA EmptyCounts ==
    ASSUME NEW k, NEW p
    PROVE  /\ NumChanges(<<>>, k) = 0
           /\ NumPageEchoes(<<>>, p, k) = 0
           /\ NumProcEchoes(<<>>, p, k) = 0
<1>1. /\ {i \in DOMAIN <<>> : Changes(<<>>[i], k)} = {}
      /\ {i \in DOMAIN <<>> : <<>>[i].by = p /\ Has(<<>>[i].pkt, k)} = {}
      /\ {i \in DOMAIN <<>> : <<>>[i].origin = p /\ Changes(<<>>[i].pkt, k)} = {}
  OBVIOUS
<1> QED
  BY <1>1, FS_EmptySet DEF NumChanges, NumPageEchoes, NumProcEchoes

\* Every count is a natural number.
LEMMA CountsNat ==
    ASSUME NEW S, NEW s \in Seq(S), NEW k, NEW p
    PROVE  /\ NumChanges(s, k) \in Nat
           /\ NumPageEchoes(s, p, k) \in Nat
           /\ NumProcEchoes(s, p, k) \in Nat
<1>1. DOMAIN s = 1 .. Len(s) /\ Len(s) \in Nat
  OBVIOUS
<1> QED
  BY <1>1, PositionsFinite DEF NumChanges, NumPageEchoes, NumProcEchoes

\* Appending a packet to a queue of packets.
LEMMA ChangesAppended ==
    ASSUME NEW s \in Seq(Packet), NEW x \in Packet, NEW k
    PROVE  NumChanges(Append(s, x), k) = NumChanges(s, k) + (IF Changes(x, k) THEN 1 ELSE 0)
<1> DEFINE t == Append(s, x)
           I == {i \in DOMAIN s : Changes(s[i], k)}
           J == {i \in DOMAIN t : Changes(t[i], k)}
<1>1. /\ DOMAIN s = 1 .. Len(s) /\ DOMAIN t = 1 .. (Len(s) + 1) /\ Len(s) \in Nat
      /\ \A i \in 1 .. Len(s) : t[i] = s[i]
      /\ t[Len(s) + 1] = x
  OBVIOUS
<1>2. J = IF Changes(x, k) THEN I \cup {Len(s) + 1} ELSE I
  <2> HIDE DEF t
  <2> QED
    BY <1>1
<1>3. I \in SUBSET (1 .. Len(s))
  BY <1>1
<1>4. Cardinality(I) \in Nat /\ Cardinality(I \cup {Len(s) + 1}) = Cardinality(I) + 1
  BY <1>1, <1>3, CountAppended
<1>5. NumChanges(Append(s, x), k) = Cardinality(J) /\ NumChanges(s, k) = Cardinality(I)
  BY DEF NumChanges
<1> HIDE DEF I, J
<1> QED
  BY <1>2, <1>4, <1>5

\* Taking the head of a queue of packets.
LEMMA ChangesTaken ==
    ASSUME NEW s \in Seq(Packet), s # <<>>, NEW k
    PROVE  NumChanges(s, k) = NumChanges(Tail(s), k) + (IF Changes(Head(s), k) THEN 1 ELSE 0)
<1> DEFINE t == Tail(s)
           I == {i \in DOMAIN s : Changes(s[i], k)}
           J == {i \in DOMAIN t : Changes(t[i], k)}
<1>1. /\ DOMAIN s = 1 .. Len(s) /\ DOMAIN t = 1 .. (Len(s) - 1) /\ Len(s) \in Nat /\ Len(s) > 0
      /\ \A i \in 1 .. (Len(s) - 1) : t[i] = s[i + 1]
      /\ Head(s) = s[1]
  OBVIOUS
<1>2. J = {j \in 1 .. (Len(s) - 1) : j + 1 \in I}
  <2> HIDE DEF t
  <2> QED
    BY <1>1
<1>3. I \in SUBSET (1 .. Len(s)) /\ (1 \in I <=> Changes(Head(s), k))
  BY <1>1
<1> QED
  BY <1>1, <1>2, <1>3, CountShifted DEF NumChanges

\* Appending a message to the queue of a page.
LEMMA PageEchoesAppended ==
    ASSUME NEW s \in Seq(CacheMsg), NEW x \in CacheMsg, NEW p, NEW k
    PROVE  NumPageEchoes(Append(s, x), p, k) =
               NumPageEchoes(s, p, k) + (IF x.by = p /\ Has(x.pkt, k) THEN 1 ELSE 0)
<1> DEFINE t == Append(s, x)
           Own(m) == m.by = p /\ Has(m.pkt, k)
           I == {i \in DOMAIN s : Own(s[i])}
           J == {i \in DOMAIN t : Own(t[i])}
<1>1. /\ DOMAIN s = 1 .. Len(s) /\ DOMAIN t = 1 .. (Len(s) + 1) /\ Len(s) \in Nat
      /\ \A i \in 1 .. Len(s) : t[i] = s[i]
      /\ t[Len(s) + 1] = x
  OBVIOUS
<1>2. J = IF Own(x) THEN I \cup {Len(s) + 1} ELSE I
  <2> HIDE DEF t, Own
  <2> QED
    BY <1>1
<1>3. I \in SUBSET (1 .. Len(s))
  BY <1>1
<1>4. Cardinality(I) \in Nat /\ Cardinality(I \cup {Len(s) + 1}) = Cardinality(I) + 1
  BY <1>1, <1>3, CountAppended
<1>5. NumPageEchoes(Append(s, x), p, k) = Cardinality(J) /\ NumPageEchoes(s, p, k) = Cardinality(I)
  BY DEF NumPageEchoes
<1> HIDE DEF I, J
<1> QED
  BY <1>2, <1>4, <1>5

\* Taking the head of the queue of a page.
LEMMA PageEchoesTaken ==
    ASSUME NEW s \in Seq(CacheMsg), s # <<>>, NEW p, NEW k
    PROVE  NumPageEchoes(s, p, k) = NumPageEchoes(Tail(s), p, k)
               + (IF Head(s).by = p /\ Has(Head(s).pkt, k) THEN 1 ELSE 0)
<1> DEFINE t == Tail(s)
           Own(m) == m.by = p /\ Has(m.pkt, k)
           I == {i \in DOMAIN s : Own(s[i])}
           J == {i \in DOMAIN t : Own(t[i])}
<1>1. /\ DOMAIN s = 1 .. Len(s) /\ DOMAIN t = 1 .. (Len(s) - 1) /\ Len(s) \in Nat /\ Len(s) > 0
      /\ \A i \in 1 .. (Len(s) - 1) : t[i] = s[i + 1]
      /\ Head(s) = s[1]
  OBVIOUS
<1>2. J = {j \in 1 .. (Len(s) - 1) : j + 1 \in I}
  <2> HIDE DEF t, Own
  <2> QED
    BY <1>1
<1>3. I \in SUBSET (1 .. Len(s)) /\ (1 \in I <=> Own(Head(s)))
  BY <1>1
<1> QED
  BY <1>1, <1>2, <1>3, CountShifted DEF NumPageEchoes

\* Appending a signal to the queue of a process.
LEMMA ProcEchoesAppended ==
    ASSUME NEW s \in Seq(HubMsg), NEW x \in HubMsg, NEW c, NEW k
    PROVE  NumProcEchoes(Append(s, x), c, k) =
               NumProcEchoes(s, c, k) + (IF x.origin = c /\ Changes(x.pkt, k) THEN 1 ELSE 0)
<1> DEFINE t == Append(s, x)
           Own(m) == m.origin = c /\ Changes(m.pkt, k)
           I == {i \in DOMAIN s : Own(s[i])}
           J == {i \in DOMAIN t : Own(t[i])}
<1>1. /\ DOMAIN s = 1 .. Len(s) /\ DOMAIN t = 1 .. (Len(s) + 1) /\ Len(s) \in Nat
      /\ \A i \in 1 .. Len(s) : t[i] = s[i]
      /\ t[Len(s) + 1] = x
  OBVIOUS
<1>2. J = IF Own(x) THEN I \cup {Len(s) + 1} ELSE I
  <2> HIDE DEF t, Own
  <2> QED
    BY <1>1
<1>3. I \in SUBSET (1 .. Len(s))
  BY <1>1
<1>4. Cardinality(I) \in Nat /\ Cardinality(I \cup {Len(s) + 1}) = Cardinality(I) + 1
  BY <1>1, <1>3, CountAppended
<1>5. NumProcEchoes(Append(s, x), c, k) = Cardinality(J) /\ NumProcEchoes(s, c, k) = Cardinality(I)
  BY DEF NumProcEchoes
<1> HIDE DEF I, J
<1> QED
  BY <1>2, <1>4, <1>5

\* Taking the head of the queue of a process.
LEMMA ProcEchoesTaken ==
    ASSUME NEW s \in Seq(HubMsg), s # <<>>, NEW c, NEW k
    PROVE  NumProcEchoes(s, c, k) = NumProcEchoes(Tail(s), c, k)
               + (IF Head(s).origin = c /\ Changes(Head(s).pkt, k) THEN 1 ELSE 0)
<1> DEFINE t == Tail(s)
           Own(m) == m.origin = c /\ Changes(m.pkt, k)
           I == {i \in DOMAIN s : Own(s[i])}
           J == {i \in DOMAIN t : Own(t[i])}
<1>1. /\ DOMAIN s = 1 .. Len(s) /\ DOMAIN t = 1 .. (Len(s) - 1) /\ Len(s) \in Nat /\ Len(s) > 0
      /\ \A i \in 1 .. (Len(s) - 1) : t[i] = s[i + 1]
      /\ Head(s) = s[1]
  OBVIOUS
<1>2. J = {j \in 1 .. (Len(s) - 1) : j + 1 \in I}
  <2> HIDE DEF t, Own
  <2> QED
    BY <1>1
<1>3. I \in SUBSET (1 .. Len(s)) /\ (1 \in I <=> Own(Head(s)))
  BY <1>1
<1> QED
  BY <1>1, <1>2, <1>3, CountShifted DEF NumProcEchoes

-----------------------------------------------------------------------------
(* What the handlers do to the types and to the counts *)

\* Packets built by the requests are packets.
LEMMA PacketTypes ==
    /\ \A k \in Key, v \in Value : Single(k, v) \in [Key -> Value \cup {Absent}]
    /\ \A pkt \in Packet, f \in [Key -> Value \cup {Invalid}] :
          Overlay(pkt, f) \in [Key -> Value \cup {Invalid}]
    /\ \A pkt \in Packet, c \in Proc : Ratified(c, pkt) \in Packet
BY DEF Single, Overlay, Packet, Has, Ratified

\* The types and counts of the pages after a signal m of the cache of c, where
\* pending are the counters before its delivery.
EmitEffect(c, m, pending) ==
    /\ pageVal' \in [Page -> [Key -> Value \cup {Invalid}]]
    /\ pagePending' \in [Page -> [Key -> Nat]]
    /\ pageSaved' \in [Page -> [Key -> BOOLEAN]]
    /\ fromCache' \in [Page -> Seq(CacheMsg)]
    /\ \A p \in Page, k \in Key : pagePending'[p][k] =
          pending[p][k] - (IF p \in MainPages(c) /\ RoundTrip(p, k, m) THEN 1 ELSE 0)
    /\ \A p \in Page, k \in Key : NumPageEchoes(fromCache'[p], p, k) =
          NumPageEchoes(fromCache[p], p, k)
             + (IF p \in ThreadPages(c) /\ m.by = p /\ Has(m.pkt, k) THEN 1 ELSE 0)
    /\ \A p \in Page \ Threaded : fromCache'[p] = fromCache[p]

\* The signal valuesChanged reaches the pages of a process: the counter of the
\* sender goes down if it is called directly, otherwise its echo is queued.
LEMMA EmitCounts ==
    ASSUME TypeOK,
           NEW c \in Proc, NEW m \in CacheMsg,
           NEW val \in [Page -> [Key -> Value \cup {Invalid}]],
           NEW pending \in [Page -> [Key -> Nat]],
           NEW saved \in [Page -> [Key -> BOOLEAN]],
           \A p \in MainPages(c), k \in Key : RoundTrip(p, k, m) => pending[p][k] > 0,
           EmitValuesChanged(c, m, val, pending, saved)
    PROVE  EmitEffect(c, m, pending)
<1>1. pageVal' \in [Page -> [Key -> Value \cup {Invalid}]]
  BY ConstAssumption DEF EmitValuesChanged, SetValuesFromCache, Ratifies
<1>2. pageSaved' \in [Page -> [Key -> BOOLEAN]]
  BY DEF EmitValuesChanged, SetValuesFromCache, Ratifies, CacheMsg, Packet
<1>3. \A p \in Page, k \in Key : pagePending'[p][k] =
         pending[p][k] - (IF p \in MainPages(c) /\ RoundTrip(p, k, m) THEN 1 ELSE 0)
  BY DEF EmitValuesChanged, SetValuesFromCache
<1>4. pagePending' \in [Page -> [Key -> Nat]]
  BY DEF EmitValuesChanged, SetValuesFromCache
<1>5. fromCache \in [Page -> Seq(CacheMsg)]
  BY DEF TypeOK
<1>6. fromCache' = [p \in Page |->
         IF p \in ThreadPages(c) THEN Append(fromCache[p], m) ELSE fromCache[p]]
  BY DEF EmitValuesChanged
<1>7. fromCache' \in [Page -> Seq(CacheMsg)]
  BY <1>5, <1>6
<1>8. ASSUME NEW p \in Page, NEW k \in Key
      PROVE  NumPageEchoes(fromCache'[p], p, k) = NumPageEchoes(fromCache[p], p, k)
                + (IF p \in ThreadPages(c) /\ m.by = p /\ Has(m.pkt, k) THEN 1 ELSE 0)
  <2>1. CASE p \in ThreadPages(c)
    <3>1. fromCache'[p] = Append(fromCache[p], m) /\ fromCache[p] \in Seq(CacheMsg)
      BY <1>5, <1>6, <2>1
    <3> QED
      BY <2>1, <3>1, PageEchoesAppended
  <2>2. CASE p \notin ThreadPages(c)
    <3>1. fromCache'[p] = fromCache[p] /\ NumPageEchoes(fromCache[p], p, k) \in Nat
      BY <1>5, <1>6, <2>2, CountsNat
    <3> QED
      BY <2>2, <3>1
  <2> QED
    BY <2>1, <2>2
<1>9. \A p \in Page \ Threaded : fromCache'[p] = fromCache[p]
  BY <1>6 DEF ThreadPages
<1> QED
  BY <1>1, <1>2, <1>3, <1>4, <1>7, <1>8, <1>9 DEF EmitEffect

\* The core relays a packet: only its origin gets an echo.
LEMMA RelayCounts ==
    ASSUME TypeOK, NEW pkt \in Packet, NEW o \in Proc, Relay(pkt, o)
    PROVE  /\ fromHub' \in [Proc -> Seq(HubMsg)]
           /\ fromHub'[Core] = fromHub[Core]
           /\ \A c \in Proc, k \in Key : NumProcEchoes(fromHub'[c], c, k) =
                 NumProcEchoes(fromHub[c], c, k)
                    + (IF c # Core /\ o = c /\ Changes(pkt, k) THEN 1 ELSE 0)
<1> DEFINE m == [pkt |-> pkt, origin |-> o]
<1>1. fromHub \in [Proc -> Seq(HubMsg)] /\ m \in HubMsg
  BY DEF TypeOK, HubMsg
<1>2. fromHub' = [c \in Proc |-> IF c = Core THEN fromHub[c] ELSE Append(fromHub[c], m)]
  BY DEF Relay
<1>3. m.pkt = pkt /\ m.origin = o
  OBVIOUS
<1> HIDE DEF m
<1>4. fromHub' \in [Proc -> Seq(HubMsg)]
  BY <1>1, <1>2
<1>5. fromHub'[Core] = fromHub[Core]
  BY <1>2, ConstAssumption
<1>6. ASSUME NEW c \in Proc, NEW k \in Key
      PROVE  NumProcEchoes(fromHub'[c], c, k) = NumProcEchoes(fromHub[c], c, k)
                + (IF c # Core /\ o = c /\ Changes(pkt, k) THEN 1 ELSE 0)
  <2>1. CASE c # Core
    <3>1. fromHub'[c] = Append(fromHub[c], m) /\ fromHub[c] \in Seq(HubMsg)
      BY <1>1, <1>2, <2>1
    <3> QED
      BY <2>1, <3>1, <1>1, <1>3, ProcEchoesAppended
  <2>2. CASE c = Core
    <3>1. fromHub'[c] = fromHub[c] /\ NumProcEchoes(fromHub[c], c, k) \in Nat
      BY <1>1, <1>2, <2>2, CountsNat
    <3> QED
      BY <2>2, <3>1
  <2> QED
    BY <2>1, <2>2
<1> QED
  BY <1>4, <1>5, <1>6

\* Saving keeps the type of the disk.
LEMMA SaveType ==
    ASSUME TypeOK, NEW pkt \in Packet, SaveRequested(pkt) \/ UNCHANGED disk
    PROVE  disk' \in [Key -> Value \cup {Invalid}]
BY DEF TypeOK, SaveRequested, Packet, Has

\* The types and counts after changeValues in process c; pending are the counters
\* of the pages when it is called.
ChangeEffect(c, pkt, by, pending) ==
    /\ pageVal' \in [Page -> [Key -> Value \cup {Invalid}]]
    /\ pagePending' \in [Page -> [Key -> Nat]]
    /\ pageSaved' \in [Page -> [Key -> BOOLEAN]]
    /\ fromCache' \in [Page -> Seq(CacheMsg)]
    /\ cacheVal' \in [Proc -> [Key -> Value \cup {Invalid}]]
    /\ cachePending' \in [Proc -> [Key -> Nat]]
    /\ cacheSaved' \in [Proc -> [Key -> BOOLEAN]]
    /\ toHub' \in [Proc -> Seq(Packet)]
    /\ fromHub' \in [Proc -> Seq(HubMsg)]
    /\ disk' \in [Key -> Value \cup {Invalid}]
    /\ \A p \in Page, k \in Key : pagePending'[p][k] = pending[p][k]
          - (IF p \in MainPages(c) /\ p = by /\ k \in elems[p] /\ Changes(pkt, k) THEN 1 ELSE 0)
    /\ \A p \in Page, k \in Key : NumPageEchoes(fromCache'[p], p, k) =
          NumPageEchoes(fromCache[p], p, k)
             + (IF p \in ThreadPages(c) /\ p = by /\ Changes(pkt, k) THEN 1 ELSE 0)
    /\ \A p \in Page \ Threaded : fromCache'[p] = fromCache[p]
    /\ toHub'[Core] = toHub[Core] /\ fromHub'[Core] = fromHub[Core]
    /\ CachePendingExact'

\* CValueCache::changeValues: the sender's count moves from pending to echo, and
\* the cache's own counter keeps pace with the messages to the core.
LEMMA ChangeValuesCounts ==
    ASSUME TypeOK, CachePendingExact,
           NEW c \in Proc, NEW pkt \in Packet, NEW by \in Page \cup {NoPage},
           NEW val \in [Page -> [Key -> Value \cup {Invalid}]],
           NEW pending \in [Page -> [Key -> Nat]],
           NEW saved \in [Page -> [Key -> BOOLEAN]],
           \A p \in MainPages(c), k \in Key :
              p = by /\ k \in elems[p] /\ Changes(pkt, k) => pending[p][k] > 0,
           ChangeValues(c, pkt, by, val, pending, saved)
    PROVE  ChangeEffect(c, pkt, by, pending)
<1> DEFINE m == [pkt |-> pkt, by |-> by]
<1>1. m \in CacheMsg /\ m.pkt = pkt /\ m.by = by
  BY DEF CacheMsg
<1>2. pkt.changed \in BOOLEAN /\ pkt.saved \in BOOLEAN
  BY DEF Packet
<1>3. /\ pageVal' \in [Page -> [Key -> Value \cup {Invalid}]]
      /\ pagePending' \in [Page -> [Key -> Nat]]
      /\ pageSaved' \in [Page -> [Key -> BOOLEAN]]
      /\ fromCache' \in [Page -> Seq(CacheMsg)]
      /\ \A p \in Page, k \in Key : pagePending'[p][k] = pending[p][k]
            - (IF p \in MainPages(c) /\ p = by /\ k \in elems[p] /\ Changes(pkt, k) THEN 1 ELSE 0)
      /\ \A p \in Page, k \in Key : NumPageEchoes(fromCache'[p], p, k) =
            NumPageEchoes(fromCache[p], p, k)
               + (IF p \in ThreadPages(c) /\ p = by /\ Changes(pkt, k) THEN 1 ELSE 0)
      /\ \A p \in Page \ Threaded : fromCache'[p] = fromCache[p]
  <2>1. CASE pkt.changed
    <3>1. EmitValuesChanged(c, m, val, pending, saved)
      BY <2>1 DEF ChangeValues
    <3>2. \A p \in Page, k \in Key :
             /\ RoundTrip(p, k, m) <=> k \in elems[p] /\ Changes(pkt, k) /\ p = by
             /\ (m.by = p /\ Has(m.pkt, k)) <=> (p = by /\ Changes(pkt, k))
      BY <1>1, <2>1 DEF RoundTrip, Changes
    <3>3. \A p \in MainPages(c), k \in Key : RoundTrip(p, k, m) => pending[p][k] > 0
      BY <3>2 DEF MainPages
    <3> HIDE DEF m
    <3>4. EmitEffect(c, m, pending)
      BY <1>1, <3>1, <3>3, EmitCounts
    <3>5. ASSUME NEW p \in Page, NEW k \in Key
          PROVE  /\ pagePending'[p][k] = pending[p][k] - (IF p \in MainPages(c) /\ p = by
                       /\ k \in elems[p] /\ Changes(pkt, k) THEN 1 ELSE 0)
                 /\ NumPageEchoes(fromCache'[p], p, k) = NumPageEchoes(fromCache[p], p, k)
                       + (IF p \in ThreadPages(c) /\ p = by /\ Changes(pkt, k) THEN 1 ELSE 0)
      BY <3>2, <3>4 DEF EmitEffect
    <3> QED
      BY <3>4, <3>5 DEF EmitEffect
  <2>2. CASE ~pkt.changed
    <3>1. /\ pageVal' = val /\ pagePending' = pending /\ pageSaved' = saved
          /\ fromCache' = fromCache
      BY <2>2 DEF ChangeValues
    <3>2. \A k \in Key : ~Changes(pkt, k)
      BY <2>2 DEF Changes
    <3>3. fromCache \in [Page -> Seq(CacheMsg)]
      BY DEF TypeOK
    <3>4. \A p \in Page, k \in Key : NumPageEchoes(fromCache[p], p, k) \in Nat
      BY <3>3, CountsNat
    <3> QED
      BY <3>1, <3>2, <3>3, <3>4
  <2> QED
    BY <1>2, <2>1, <2>2
<1>4. cacheVal' \in [Proc -> [Key -> Value \cup {Invalid}]]
  BY PacketTypes DEF ChangeValues, TypeOK
<1>5. cacheSaved' \in [Proc -> [Key -> BOOLEAN]]
  BY <1>2 DEF ChangeValues, TypeOK
<1>6. /\ cachePending' \in [Proc -> [Key -> Nat]]
      /\ \A d \in Proc, k \in Key : cachePending'[d][k] = cachePending[d][k]
            + (IF d = c /\ c # Core /\ Changes(pkt, k) THEN 1 ELSE 0)
  <2>1. cachePending \in [Proc -> [Key -> Nat]]
    BY DEF TypeOK
  <2>2. CASE pkt.changed /\ c # Core
    <3>1. cachePending' = [cachePending EXCEPT ![c] =
                              [k \in Key |-> IF Has(pkt, k) THEN @[k] + 1 ELSE @[k]]]
      BY <2>2 DEF ChangeValues
    <3> QED
      BY <2>1, <2>2, <3>1 DEF Changes
  <2>3. CASE ~(pkt.changed /\ c # Core)
    <3>1. cachePending' = cachePending
      BY <2>3 DEF ChangeValues
    <3> QED
      BY <2>1, <2>3, <3>1 DEF Changes
  <2> QED
    BY <2>2, <2>3
<1>7. disk' \in [Key -> Value \cup {Invalid}]
  BY SaveType DEF ChangeValues
<1>8. /\ fromHub' \in [Proc -> Seq(HubMsg)]
      /\ fromHub'[Core] = fromHub[Core]
      /\ \A d \in Proc, k \in Key :
            NumProcEchoes(fromHub'[d], d, k) = NumProcEchoes(fromHub[d], d, k)
  <2>1. fromHub \in [Proc -> Seq(HubMsg)]
    BY DEF TypeOK
  <2>2. \A d \in Proc, k \in Key : NumProcEchoes(fromHub[d], d, k) \in Nat
    BY <2>1, CountsNat
  <2>3. CASE c = Core
    <3>1. Relay(pkt, Core)
      BY <2>3 DEF ChangeValues
    <3>2. /\ fromHub' \in [Proc -> Seq(HubMsg)]
          /\ fromHub'[Core] = fromHub[Core]
          /\ \A d \in Proc, k \in Key : NumProcEchoes(fromHub'[d], d, k) =
                NumProcEchoes(fromHub[d], d, k)
                   + (IF d # Core /\ Core = d /\ Changes(pkt, k) THEN 1 ELSE 0)
      BY <3>1, RelayCounts, ConstAssumption
    <3>3. ASSUME NEW d \in Proc, NEW k \in Key
          PROVE  NumProcEchoes(fromHub'[d], d, k) = NumProcEchoes(fromHub[d], d, k)
      <4>1. NumProcEchoes(fromHub'[d], d, k) = NumProcEchoes(fromHub[d], d, k)
               + (IF d # Core /\ Core = d /\ Changes(pkt, k) THEN 1 ELSE 0)
        BY <3>2
      <4>2. NumProcEchoes(fromHub[d], d, k) \in Nat
        BY <2>2
      <4> QED
        BY <4>1, <4>2
    <3> QED
      BY <3>2, <3>3
  <2>4. CASE c # Core
    BY <2>1, <2>4 DEF ChangeValues
  <2> QED
    BY <2>3, <2>4
<1>9. /\ toHub' \in [Proc -> Seq(Packet)]
      /\ toHub'[Core] = toHub[Core]
      /\ \A d \in Proc, k \in Key : NumChanges(toHub'[d], k) = NumChanges(toHub[d], k)
            + (IF d = c /\ c # Core /\ Changes(pkt, k) THEN 1 ELSE 0)
  <2>1. toHub \in [Proc -> Seq(Packet)]
    BY DEF TypeOK
  <2>2. \A d \in Proc, k \in Key : NumChanges(toHub[d], k) \in Nat
    BY <2>1, CountsNat
  <2>3. CASE c = Core
    <3>1. toHub' = toHub
      BY <2>3 DEF ChangeValues
    <3> QED
      BY <2>1, <2>2, <2>3, <3>1
  <2>4. CASE c # Core
    <3>1. toHub' = [toHub EXCEPT ![c] = Append(@, pkt)]
      BY <2>4 DEF ChangeValues
    <3>2. toHub'[c] = Append(toHub[c], pkt) /\ \A d \in Proc \ {c} : toHub'[d] = toHub[d]
      BY <2>1, <3>1
    <3>3. \A k \in Key : NumChanges(toHub'[c], k) =
             NumChanges(toHub[c], k) + (IF Changes(pkt, k) THEN 1 ELSE 0)
      BY <2>1, <3>2, ChangesAppended
    <3>4. toHub' \in [Proc -> Seq(Packet)]
      BY <2>1, <3>1
    <3>5. ASSUME NEW d \in Proc, NEW k \in Key
          PROVE  NumChanges(toHub'[d], k) = NumChanges(toHub[d], k)
                    + (IF d = c /\ c # Core /\ Changes(pkt, k) THEN 1 ELSE 0)
      <4>1. CASE d = c
        BY <2>4, <3>3, <4>1
      <4>2. CASE d # c
        <5>1. toHub'[d] = toHub[d] /\ NumChanges(toHub[d], k) \in Nat
          BY <2>2, <3>2, <4>2
        <5> QED
          BY <4>2, <5>1
      <4> QED
        BY <4>1, <4>2
    <3> QED
      BY <2>4, <3>2, <3>4, <3>5, ConstAssumption
  <2> QED
    BY <2>3, <2>4
<1>10. CachePendingExact'
  <2>1. SUFFICES ASSUME NEW d \in Proc, NEW k \in Key
                 PROVE  cachePending'[d][k] =
                           NumChanges(toHub'[d], k) + NumProcEchoes(fromHub'[d], d, k)
    BY DEF CachePendingExact
  <2>2. cachePending[d][k] = NumChanges(toHub[d], k) + NumProcEchoes(fromHub[d], d, k)
    BY DEF CachePendingExact
  <2>3. /\ NumChanges(toHub[d], k) \in Nat
        /\ NumProcEchoes(fromHub[d], d, k) \in Nat
    BY CountsNat DEF TypeOK
  <2>4. /\ cachePending'[d][k] = cachePending[d][k]
              + (IF d = c /\ c # Core /\ Changes(pkt, k) THEN 1 ELSE 0)
        /\ NumProcEchoes(fromHub'[d], d, k) = NumProcEchoes(fromHub[d], d, k)
        /\ NumChanges(toHub'[d], k) = NumChanges(toHub[d], k)
              + (IF d = c /\ c # Core /\ Changes(pkt, k) THEN 1 ELSE 0)
    BY <1>6, <1>8, <1>9
  <2> QED
    BY <2>2, <2>3, <2>4
<1> QED
  BY <1>3, <1>4, <1>5, <1>6, <1>7, <1>8, <1>9, <1>10 DEF ChangeEffect

\* The types and counts of the pages after a foreign packet.
RatifyEffect ==
    /\ pageVal' \in [Page -> [Key -> Value \cup {Invalid}]]
    /\ pagePending' = pagePending
    /\ pageSaved' \in [Page -> [Key -> BOOLEAN]]
    /\ fromCache' \in [Page -> Seq(CacheMsg)]
    /\ cacheVal' \in [Proc -> [Key -> Value \cup {Invalid}]]
    /\ cacheSaved' \in [Proc -> [Key -> BOOLEAN]]
    /\ disk' \in [Key -> Value \cup {Invalid}]
    /\ \A p \in Page, k \in Key :
          NumPageEchoes(fromCache'[p], p, k) = NumPageEchoes(fromCache[p], p, k)
    /\ \A p \in Page \ Threaded : fromCache'[p] = fromCache[p]

\* CValueCache::changeValuesFromRemote for a foreign packet: no page gets
\* an echo and no counter changes.
LEMMA RatifyCounts ==
    ASSUME TypeOK, NEW c \in Proc, NEW pkt \in Packet, RatifyRemote(c, pkt)
    PROVE  RatifyEffect
<1> DEFINE r == Ratified(c, pkt)
           m == [pkt |-> r, by |-> NoPage]
<1>1. r \in Packet /\ m \in CacheMsg /\ m.by = NoPage
  BY PacketTypes DEF CacheMsg
<1>2. /\ pageVal \in [Page -> [Key -> Value \cup {Invalid}]]
      /\ pagePending \in [Page -> [Key -> Nat]]
      /\ pageSaved \in [Page -> [Key -> BOOLEAN]]
      /\ fromCache \in [Page -> Seq(CacheMsg)]
  BY DEF TypeOK
<1>3. \A p \in Page, k \in Key : NumPageEchoes(fromCache[p], p, k) \in Nat
  BY <1>2, CountsNat
<1>7. /\ cacheVal' \in [Proc -> [Key -> Value \cup {Invalid}]]
      /\ cacheSaved' \in [Proc -> [Key -> BOOLEAN]]
  <2>1. /\ cacheVal \in [Proc -> [Key -> Value \cup {Invalid}]]
        /\ cacheSaved \in [Proc -> [Key -> BOOLEAN]]
    BY DEF TypeOK
  <2>2. CASE pkt.changed
    <3>1. /\ cacheVal' = [cacheVal EXCEPT ![c] = Overlay(r, @)]
          /\ cacheSaved' = [cacheSaved EXCEPT ![c] =
                               [k \in Key |-> IF Has(r, k) THEN r.saved ELSE @[k]]]
      BY <2>2 DEF RatifyRemote
    <3>2. r.saved \in BOOLEAN /\ Overlay(r, cacheVal[c]) \in [Key -> Value \cup {Invalid}]
      BY <1>1, <2>1, PacketTypes DEF Packet
    <3> HIDE DEF r
    <3> QED
      BY <2>1, <3>1, <3>2
  <2>3. CASE ~pkt.changed
    BY <2>1, <2>3 DEF RatifyRemote
  <2> QED
    BY <2>2, <2>3
<1> HIDE DEF m, r
<1>4. CASE EmitValuesChanged(c, m, pageVal, pagePending, pageSaved)
  <2>1. \A p \in Page, k \in Key : m.by # p /\ ~RoundTrip(p, k, m)
    BY <1>1, ConstAssumption DEF RoundTrip
  <2>2. \A p \in MainPages(c), k \in Key : RoundTrip(p, k, m) => pagePending[p][k] > 0
    BY <2>1 DEF MainPages
  <2>3. EmitEffect(c, m, pagePending)
    BY <1>1, <1>2, <1>4, <2>2, EmitCounts
  <2>4. \A p \in Page, k \in Key : pagePending'[p][k] = pagePending[p][k]
    BY <1>2, <2>1, <2>3 DEF EmitEffect
  <2>5. pagePending' = pagePending
    BY <1>2, <2>3, <2>4 DEF EmitEffect
  <2>6. \A p \in Page, k \in Key :
           NumPageEchoes(fromCache'[p], p, k) = NumPageEchoes(fromCache[p], p, k)
    <3>1. ASSUME NEW p \in Page, NEW k \in Key
          PROVE  NumPageEchoes(fromCache'[p], p, k) = NumPageEchoes(fromCache[p], p, k)
      <4>1. NumPageEchoes(fromCache'[p], p, k) = NumPageEchoes(fromCache[p], p, k)
               + (IF p \in ThreadPages(c) /\ m.by = p /\ Has(m.pkt, k) THEN 1 ELSE 0)
        BY <2>3 DEF EmitEffect
      <4>2. NumPageEchoes(fromCache[p], p, k) \in Nat /\ m.by # p
        BY <1>3, <2>1
      <4> QED
        BY <4>1, <4>2
    <3> QED
      BY <3>1
  <2>8. disk' \in [Key -> Value \cup {Invalid}]
    BY <1>1, SaveType DEF RatifyRemote, r
  <2> QED
    BY <1>7, <2>3, <2>5, <2>6, <2>8 DEF RatifyEffect, EmitEffect
<1>5. CASE UNCHANGED <<pageVal, pagePending, pageSaved, fromCache>>
  <2>2. disk' \in [Key -> Value \cup {Invalid}]
    BY <1>1, SaveType DEF RatifyRemote, r
  <2> QED
    BY <1>2, <1>5, <1>7, <2>2 DEF RatifyEffect
<1>6. \/ EmitValuesChanged(c, m, pageVal, pagePending, pageSaved)
      \/ UNCHANGED <<pageVal, pagePending, pageSaved, fromCache>>
  BY DEF RatifyRemote, m, r
<1> QED
  BY <1>4, <1>5, <1>6

\* A foreign packet leaves the invariants of the pages alone.
LEMMA RatifyKeepsPages ==
    ASSUME OwnKeys, PagePendingExact, RatifyEffect, UNCHANGED <<elems, batched, toCache>>
    PROVE  OwnKeys' /\ PagePendingExact'
<1>1. OwnKeys'
  <2>1. SUFFICES ASSUME NEW q \in Page, NEW k \in Key, k \notin elems'[q]
                 PROVE  /\ batched'[q][k] = Absent
                        /\ NumChanges(toCache'[q], k) = 0
                        /\ NumPageEchoes(fromCache'[q], q, k) = 0
    BY DEF OwnKeys
  <2> QED
    BY <2>1 DEF OwnKeys, RatifyEffect
<1>2. PagePendingExact'
  <2>1. SUFFICES ASSUME NEW q \in Page, NEW k \in Key
                 PROVE  pagePending'[q][k] =
                           NumChanges(toCache'[q], k) + NumPageEchoes(fromCache'[q], q, k)
    BY DEF PagePendingExact
  <2>2. /\ pagePending[q][k] = NumChanges(toCache[q], k) + NumPageEchoes(fromCache[q], q, k)
        /\ NumPageEchoes(fromCache'[q], q, k) = NumPageEchoes(fromCache[q], q, k)
    BY DEF PagePendingExact, RatifyEffect
  <2> QED
    BY <2>2 DEF RatifyEffect
<1> QED
  BY <1>1, <1>2

-----------------------------------------------------------------------------
(* The pending invariant is inductive *)

\* A page sends a packet, having counted the changes in it as pending.
LEMMA WantToCacheKeepsInv ==
    ASSUME PendingInv,
           NEW p \in Page, NEW pkt \in Packet,
           NEW val \in [Page -> [Key -> Value \cup {Invalid}]],
           NEW pending \in [Page -> [Key -> Nat]],
           NEW saved \in [Page -> [Key -> BOOLEAN]],
           \A q \in Page, k \in Key :
              pending[q][k] = pagePending[q][k] + (IF q = p /\ Changes(pkt, k) THEN 1 ELSE 0),
           \A k \in Key : Has(pkt, k) => k \in elems[p],
           WantToCache(p, pkt, val, pending, saved),
           UNCHANGED <<elems, batched, synced>>,
           batchMode' \in [Page -> Nat],
           changes' \in 0 .. MaxChanges
    PROVE  PendingInv'
<1>1. TypeOK /\ DirectQueuesEmpty /\ OwnKeys /\ PagePendingExact /\ CachePendingExact
  BY DEF PendingInv
<1>2. /\ toCache \in [Page -> Seq(Packet)] /\ fromCache \in [Page -> Seq(CacheMsg)]
      /\ pagePending \in [Page -> [Key -> Nat]]
  BY <1>1 DEF TypeOK
<1>3. \A q \in Page, k \in Key :
         /\ NumChanges(toCache[q], k) \in Nat /\ NumPageEchoes(fromCache[q], q, k) \in Nat
         /\ pagePending[q][k] = NumChanges(toCache[q], k) + NumPageEchoes(fromCache[q], q, k)
  BY <1>1, <1>2, CountsNat DEF PagePendingExact
<1>4. CASE p \in Threaded
  <2>1. /\ toCache' = [toCache EXCEPT ![p] = Append(@, pkt)]
        /\ pageVal' = val /\ pagePending' = pending /\ pageSaved' = saved
        /\ UNCHANGED <<fromCache, cacheVars, toHub, fromHub, disk>>
    BY <1>4 DEF WantToCache
  <2>2. TypeOK'
    <3>1. toCache' \in [Page -> Seq(Packet)]
      BY <1>2, <2>1
    <3> QED
      BY <1>1, <2>1, <3>1 DEF TypeOK, cacheVars
  <2>3. toCache'[p] = Append(toCache[p], pkt) /\ \A q \in Page \ {p} : toCache'[q] = toCache[q]
    BY <1>2, <2>1
  <2>4. ASSUME NEW k \in Key
        PROVE  NumChanges(toCache'[p], k) =
                  NumChanges(toCache[p], k) + (IF Changes(pkt, k) THEN 1 ELSE 0)
    BY <1>2, <2>3, ChangesAppended
  <2>5. DirectQueuesEmpty'
    BY <1>1, <1>4, <2>1, <2>3 DEF DirectQueuesEmpty
  <2>6. OwnKeys'
    <3>1. SUFFICES ASSUME NEW q \in Page, NEW k \in Key, k \notin elems'[q]
                   PROVE  /\ batched'[q][k] = Absent
                          /\ NumChanges(toCache'[q], k) = 0
                          /\ NumPageEchoes(fromCache'[q], q, k) = 0
      BY DEF OwnKeys
    <3>2. /\ batched[q][k] = Absent
          /\ NumChanges(toCache[q], k) = 0
          /\ NumPageEchoes(fromCache[q], q, k) = 0
      BY <1>1, <3>1 DEF OwnKeys
    <3>3. NumChanges(toCache'[q], k) = 0
      <4>1. CASE q = p
        <5>1. ~Changes(pkt, k)
          BY <3>1, <4>1 DEF Changes
        <5> QED
          BY <2>4, <3>2, <4>1, <5>1
      <4>2. CASE q # p
        BY <2>3, <3>2, <4>2
      <4> QED
        BY <4>1, <4>2
    <3> QED
      BY <2>1, <3>2, <3>3
  <2>7. PagePendingExact'
    <3>1. SUFFICES ASSUME NEW q \in Page, NEW k \in Key
                   PROVE  pagePending'[q][k] =
                             NumChanges(toCache'[q], k) + NumPageEchoes(fromCache'[q], q, k)
      BY DEF PagePendingExact
    <3>2. fromCache'[q] = fromCache[q]
      BY <2>1
    <3>3. pagePending'[q][k] = pagePending[q][k] + (IF q = p /\ Changes(pkt, k) THEN 1 ELSE 0)
      BY <2>1
    <3>4. CASE q = p
      BY <1>3, <2>4, <3>2, <3>3, <3>4
    <3>5. CASE q # p
      <4>1. toCache'[q] = toCache[q] /\ pagePending'[q][k] = pagePending[q][k] + 0
        BY <2>3, <3>3, <3>5
      <4> QED
        BY <1>3, <3>2, <4>1
    <3> QED
      BY <3>4, <3>5
  <2>8. CachePendingExact'
    BY <1>1, <2>1 DEF CachePendingExact, cacheVars
  <2> QED
    BY <2>2, <2>5, <2>6, <2>7, <2>8 DEF PendingInv
<1>5. CASE p \notin Threaded
  <2> DEFINE c == ProcOf[p]
  <2>1. ChangeValues(c, pkt, p, val, pending, saved) /\ toCache' = toCache
    BY <1>5 DEF WantToCache
  <2>2. c \in Proc /\ p \in MainPages(c) /\ p \notin ThreadPages(c) /\ p \in Page \cup {NoPage}
    BY <1>5, ConstAssumption DEF MainPages, ThreadPages
  <2>3. \A q \in MainPages(c), k \in Key :
           q = p /\ k \in elems[q] /\ Changes(pkt, k) => pending[q][k] > 0
    BY <1>2
  <2> HIDE DEF c
  <2>4. /\ pageVal' \in [Page -> [Key -> Value \cup {Invalid}]]
        /\ pagePending' \in [Page -> [Key -> Nat]]
        /\ pageSaved' \in [Page -> [Key -> BOOLEAN]]
        /\ fromCache' \in [Page -> Seq(CacheMsg)]
        /\ cacheVal' \in [Proc -> [Key -> Value \cup {Invalid}]]
        /\ cachePending' \in [Proc -> [Key -> Nat]]
        /\ cacheSaved' \in [Proc -> [Key -> BOOLEAN]]
        /\ toHub' \in [Proc -> Seq(Packet)]
        /\ fromHub' \in [Proc -> Seq(HubMsg)]
        /\ disk' \in [Key -> Value \cup {Invalid}]
        /\ \A q \in Page, k \in Key : pagePending'[q][k] = pending[q][k]
              - (IF q \in MainPages(c) /\ q = p /\ k \in elems[q] /\ Changes(pkt, k) THEN 1 ELSE 0)
        /\ \A q \in Page, k \in Key : NumPageEchoes(fromCache'[q], q, k) =
              NumPageEchoes(fromCache[q], q, k)
                 + (IF q \in ThreadPages(c) /\ q = p /\ Changes(pkt, k) THEN 1 ELSE 0)
        /\ \A q \in Page \ Threaded : fromCache'[q] = fromCache[q]
        /\ toHub'[Core] = toHub[Core] /\ fromHub'[Core] = fromHub[Core]
        /\ CachePendingExact'
    <3>1. ChangeEffect(c, pkt, p, pending)
      BY <1>1, <2>1, <2>2, <2>3, ChangeValuesCounts
    <3> QED
      BY <3>1 DEF ChangeEffect
  <2>5. TypeOK'
    BY <1>1, <2>1, <2>4 DEF TypeOK
  <2>6. DirectQueuesEmpty'
    BY <1>1, <2>1, <2>4 DEF DirectQueuesEmpty
  <2>7. ASSUME NEW q \in Page, NEW k \in Key
        PROVE  /\ NumPageEchoes(fromCache'[q], q, k) = NumPageEchoes(fromCache[q], q, k)
               /\ pagePending'[q][k] = pagePending[q][k]
    <3>1. NumPageEchoes(fromCache'[q], q, k) = NumPageEchoes(fromCache[q], q, k)
             + (IF q \in ThreadPages(c) /\ q = p /\ Changes(pkt, k) THEN 1 ELSE 0)
      BY <2>4
    <3>2. pagePending'[q][k] = pending[q][k]
             - (IF q \in MainPages(c) /\ q = p /\ k \in elems[q] /\ Changes(pkt, k) THEN 1 ELSE 0)
      BY <2>4
    <3>3. pending[q][k] = pagePending[q][k] + (IF q = p /\ Changes(pkt, k) THEN 1 ELSE 0)
      OBVIOUS
    <3>4. NumPageEchoes(fromCache[q], q, k) \in Nat /\ pagePending[q][k] \in Nat
      BY <1>2, <1>3
    <3>5. q = p /\ Changes(pkt, k) => q \in MainPages(c) /\ q \notin ThreadPages(c) /\ k \in elems[q]
      BY <2>2 DEF Changes
    <3> QED
      BY <3>1, <3>2, <3>3, <3>4, <3>5
  <2>8. OwnKeys'
    <3>1. SUFFICES ASSUME NEW q \in Page, NEW k \in Key, k \notin elems'[q]
                   PROVE  /\ batched'[q][k] = Absent
                          /\ NumChanges(toCache'[q], k) = 0
                          /\ NumPageEchoes(fromCache'[q], q, k) = 0
      BY DEF OwnKeys
    <3>2. /\ batched[q][k] = Absent
          /\ NumChanges(toCache[q], k) = 0
          /\ NumPageEchoes(fromCache[q], q, k) = 0
      BY <1>1, <3>1 DEF OwnKeys
    <3> QED
      BY <2>1, <2>7, <3>2
  <2>9. PagePendingExact'
    <3>1. SUFFICES ASSUME NEW q \in Page, NEW k \in Key
                   PROVE  pagePending'[q][k] =
                             NumChanges(toCache'[q], k) + NumPageEchoes(fromCache'[q], q, k)
      BY DEF PagePendingExact
    <3>2. pagePending[q][k] = NumChanges(toCache[q], k) + NumPageEchoes(fromCache[q], q, k)
      BY <1>3
    <3> QED
      BY <2>1, <2>7, <3>2
  <2> QED
    BY <2>4, <2>5, <2>6, <2>8, <2>9 DEF PendingInv
<1> QED
  BY <1>4, <1>5

\* The invariant holds initially.
LEMMA InitPending == Init => PendingInv
<1> SUFFICES ASSUME Init PROVE PendingInv
  OBVIOUS
<1>1. TypeOK
  BY ConstAssumption DEF Init, TypeOK, NoValues
<1>2. DirectQueuesEmpty
  BY ConstAssumption DEF Init, DirectQueuesEmpty
<1>3. OwnKeys
  BY EmptyCounts DEF Init, OwnKeys, NoValues
<1>4. PagePendingExact
  BY EmptyCounts DEF Init, PagePendingExact
<1>5. CachePendingExact
  BY EmptyCounts DEF Init, CachePendingExact
<1> QED
  BY <1>1, <1>2, <1>3, <1>4, <1>5 DEF PendingInv

\* Steps that touch neither a counter nor a queue.
LEMMA QuietStepKeepsInv ==
    ASSUME PendingInv, TypeOK', OwnKeys',
           UNCHANGED <<pagePending, pageQueues, cachePending, toHub, fromHub>>
    PROVE  PendingInv'
BY DEF PendingInv, DirectQueuesEmpty, PagePendingExact, CachePendingExact, pageQueues

\* Every request of the owner of a page keeps the invariant.
LEMMA RequestKeepsInv ==
    ASSUME PendingInv, NEW p \in Page, Request(p)
    PROVE  PendingInv'
<1>1. TypeOK /\ OwnKeys
  BY DEF PendingInv
<1>2. ASSUME NEW k \in Key, CreateElement(p, k) PROVE PendingInv'
  <2>1. TypeOK'
    <3>1. /\ elems \in [Page -> SUBSET Key]
          /\ pageVal \in [Page -> [Key -> Value \cup {Invalid}]]
          /\ pageSaved \in [Page -> [Key -> BOOLEAN]]
          /\ cacheSaved \in [Proc -> [Key -> BOOLEAN]]
      BY <1>1 DEF TypeOK
    <3>2. elems' \in [Page -> SUBSET Key]
      BY <1>2, <3>1 DEF CreateElement
    <3>3. pageVal' \in [Page -> [Key -> Value \cup {Invalid}]]
      BY <1>2, <3>1, ConstAssumption DEF CreateElement
    <3>4. pageSaved' \in [Page -> [Key -> BOOLEAN]]
      <4>1. cacheSaved[ProcOf[p]][k] \in BOOLEAN
        BY <3>1, ConstAssumption
      <4> QED
        BY <1>2, <3>1, <4>1 DEF CreateElement
    <3> QED
      BY <1>1, <1>2, <3>2, <3>3, <3>4
         DEF CreateElement, TypeOK, batchVars, pageQueues, cacheVars, hubVars
  <2>2. OwnKeys'
    BY <1>1, <1>2 DEF CreateElement, TypeOK, OwnKeys, batchVars, pageQueues
  <2> QED
    BY <1>2, <2>1, <2>2, QuietStepKeepsInv DEF CreateElement, cacheVars, hubVars
<1>3. ASSUME NEW k \in Key, NEW v \in Value, NEW save \in BOOLEAN, SetValue(p, k, v, save)
      PROVE  PendingInv'
  <2> DEFINE pkt == [vals |-> Single(k, v), saved |-> save, changed |-> TRUE]
             val == [pageVal EXCEPT ![p][k] = v]
             pending == [pagePending EXCEPT ![p][k] = @ + 1]
             saved == [pageSaved EXCEPT ![p][k] = save]
  <2>1. /\ WantToCache(p, pkt, val, pending, saved)
        /\ UNCHANGED <<elems, batched, batchMode, synced>>
        /\ changes < MaxChanges /\ changes' = changes + 1
        /\ k \in elems[p]
    BY <1>3 DEF SetValue, batchVars, Count
  <2>2. pkt \in Packet
    BY PacketTypes DEF Packet
  <2>3. \A j \in Key : /\ Has(pkt, j) <=> j = k
                       /\ Changes(pkt, j) <=> j = k
    BY ConstAssumption DEF Has, Changes, Single
  <2>4. /\ val \in [Page -> [Key -> Value \cup {Invalid}]]
        /\ pending \in [Page -> [Key -> Nat]]
        /\ saved \in [Page -> [Key -> BOOLEAN]]
    BY <1>1 DEF TypeOK
  <2>5. \A q \in Page, j \in Key : pending[q][j] =
           pagePending[q][j] + (IF q = p /\ Changes(pkt, j) THEN 1 ELSE 0)
    <3> HIDE DEF pkt
    <3> QED
      BY <1>1, <2>3 DEF TypeOK
  <2>6. batchMode' \in [Page -> Nat] /\ changes' \in 0 .. MaxChanges
    BY <1>1, <2>1, ConstAssumption DEF TypeOK
  <2> HIDE DEF pkt, val, pending, saved
  <2>7. \A j \in Key : Has(pkt, j) => j \in elems[p]
    BY <2>1, <2>3
  <2> QED
    BY <2>1, <2>2, <2>4, <2>5, <2>6, <2>7, WantToCacheKeepsInv
<1>4. ASSUME NEW k \in Key, SaveUnchanged(p, k) PROVE PendingInv'
  <2> DEFINE pkt == [vals |-> Single(k, pageVal[p][k]), saved |-> TRUE, changed |-> FALSE]
             saved == [pageSaved EXCEPT ![p][k] = TRUE]
  <2>1. /\ WantToCache(p, pkt, pageVal, pagePending, saved)
        /\ UNCHANGED <<elems, batched, batchMode, synced>>
        /\ changes < MaxChanges /\ changes' = changes + 1
        /\ k \in elems[p] /\ pageVal[p][k] \in Value
    BY <1>4, ConstAssumption DEF SaveUnchanged, batchVars, Count
  <2>2. pkt \in Packet
    BY <2>1, PacketTypes DEF Packet
  <2>3. \A j \in Key : (Has(pkt, j) => j = k) /\ ~Changes(pkt, j)
    BY DEF Has, Changes, Single
  <2>4. /\ pageVal \in [Page -> [Key -> Value \cup {Invalid}]]
        /\ pagePending \in [Page -> [Key -> Nat]]
        /\ saved \in [Page -> [Key -> BOOLEAN]]
    BY <1>1 DEF TypeOK
  <2>5. \A q \in Page, j \in Key : pagePending[q][j] =
           pagePending[q][j] + (IF q = p /\ Changes(pkt, j) THEN 1 ELSE 0)
    <3> HIDE DEF pkt
    <3> QED
      BY <2>3, <2>4
  <2>6. batchMode' \in [Page -> Nat] /\ changes' \in 0 .. MaxChanges
    BY <1>1, <2>1, ConstAssumption DEF TypeOK
  <2> HIDE DEF pkt, saved
  <2>7. \A j \in Key : Has(pkt, j) => j \in elems[p]
    BY <2>1, <2>3
  <2> QED
    BY <2>1, <2>2, <2>4, <2>5, <2>6, <2>7, WantToCacheKeepsInv
<1>5. ASSUME NEW k \in Key, NEW v \in Value, SetBatched(p, k, v) PROVE PendingInv'
  <2>1. TypeOK'
    BY <1>1, <1>5, ConstAssumption
       DEF SetBatched, Count, TypeOK, pageVars, pageQueues, cacheVars, hubVars
  <2>2. OwnKeys'
    BY <1>1, <1>5 DEF SetBatched, TypeOK, OwnKeys, pageVars, pageQueues
  <2> QED
    BY <1>5, <2>1, <2>2, QuietStepKeepsInv DEF SetBatched, pageVars, cacheVars, hubVars
<1>6. ASSUME BeginBatch(p) PROVE PendingInv'
  <2>1. TypeOK'
    BY <1>1, <1>6, ConstAssumption
       DEF BeginBatch, Count, TypeOK, NoValues, pageVars, pageQueues, cacheVars, hubVars
  <2>2. OwnKeys'
    BY <1>1, <1>6 DEF BeginBatch, TypeOK, OwnKeys, NoValues, pageVars, pageQueues
  <2> QED
    BY <1>6, <2>1, <2>2, QuietStepKeepsInv DEF BeginBatch, pageVars, cacheVars, hubVars
<1>7. ASSUME AbandonBatch(p) PROVE PendingInv'
  <2>1. TypeOK'
    BY <1>1, <1>7 DEF AbandonBatch, TypeOK, pageVars, pageQueues, cacheVars, hubVars
  <2>2. OwnKeys'
    BY <1>1, <1>7 DEF AbandonBatch, OwnKeys, pageVars, pageQueues
  <2> QED
    BY <1>7, <2>1, <2>2, QuietStepKeepsInv DEF AbandonBatch, pageVars, cacheVars, hubVars
<1>8. ASSUME EndBatch(p) PROVE PendingInv'
  <2> DEFINE pkt == [vals |-> batched[p], saved |-> FALSE, changed |-> TRUE]
             val == [pageVal EXCEPT ![p] = Overlay(pkt, @)]
             pending == CountBatch(p, pkt)
             saved == [pageSaved EXCEPT ![p] =
                            [k \in Key |-> IF Has(pkt, k) THEN FALSE ELSE @[k]]]
  <2>1. batchMode' \in [Page -> Nat] /\ changes' \in 0 .. MaxChanges
    BY <1>1, <1>8 DEF EndBatch, TypeOK
  <2>2. UNCHANGED <<elems, batched, synced, changes>>
    BY <1>8 DEF EndBatch
  <2>3. CASE WantToCache(p, pkt, val, pending, saved)
    <3>1. pkt \in Packet
      BY <1>1 DEF Packet, TypeOK
    <3>2. \A k \in Key : (Has(pkt, k) => k \in elems[p]) /\ (Changes(pkt, k) <=> Has(pkt, k))
      BY <1>1 DEF OwnKeys, Has, Changes
    <3>3. val \in [Page -> [Key -> Value \cup {Invalid}]]
      <4> HIDE DEF pkt
      <4> QED
        BY <1>1, <3>1, PacketTypes DEF TypeOK
    <3>4. pending \in [Page -> [Key -> Nat]] /\ saved \in [Page -> [Key -> BOOLEAN]]
      <4> HIDE DEF pkt
      <4>1. /\ pagePending \in [Page -> [Key -> Nat]]
            /\ pageSaved \in [Page -> [Key -> BOOLEAN]]
        BY <1>1 DEF TypeOK
      <4>2. pending \in [Page -> [Key -> Nat]]
        BY <4>1 DEF CountBatch
      <4>3. [k \in Key |-> IF Has(pkt, k) THEN FALSE ELSE pageSaved[p][k]] \in [Key -> BOOLEAN]
        BY <4>1
      <4>4. saved \in [Page -> [Key -> BOOLEAN]]
        BY <4>1, <4>3
      <4> QED
        BY <4>2, <4>4
    <3>5. \A q \in Page, k \in Key : pending[q][k] =
             pagePending[q][k] + (IF q = p /\ Changes(pkt, k) THEN 1 ELSE 0)
      <4> HIDE DEF pkt
      <4> QED
        BY <1>1, <3>2 DEF TypeOK, CountBatch
    <3> HIDE DEF pkt, val, pending, saved
    <3> QED
      BY <2>1, <2>2, <2>3, <3>1, <3>2, <3>3, <3>4, <3>5, WantToCacheKeepsInv, ZenonT(60)
  <2>4. CASE UNCHANGED <<pageVal, pagePending, pageSaved, pageQueues, cacheVars, toHub, fromHub, disk>>
    <3>1. TypeOK'
      BY <1>1, <2>1, <2>2, <2>4 DEF TypeOK, pageQueues, cacheVars
    <3>2. OwnKeys'
      BY <1>1, <2>2, <2>4 DEF OwnKeys, pageQueues
    <3> QED
      BY <2>4, <3>1, <3>2, QuietStepKeepsInv DEF cacheVars
  <2> QED
    BY <1>8, <2>3, <2>4 DEF EndBatch
<1> QED
  BY <1>2, <1>3, <1>4, <1>5, <1>6, <1>7, <1>8 DEF Request

\* The main thread takes a packet of a threaded page: a change that was on its
\* way to the cache is now on its way back.
LEMMA CacheTakesKeepsInv ==
    ASSUME PendingInv, NEW p \in Page, CacheTakes(p)
    PROVE  PendingInv'
<1> DEFINE c == ProcOf[p]
           pkt == Head(toCache[p])
<1>1. TypeOK /\ DirectQueuesEmpty /\ OwnKeys /\ PagePendingExact /\ CachePendingExact
  BY DEF PendingInv
<1>2. /\ toCache \in [Page -> Seq(Packet)] /\ fromCache \in [Page -> Seq(CacheMsg)]
      /\ pageVal \in [Page -> [Key -> Value \cup {Invalid}]]
      /\ pagePending \in [Page -> [Key -> Nat]]
      /\ pageSaved \in [Page -> [Key -> BOOLEAN]]
  BY <1>1 DEF TypeOK
<1>3. /\ toCache[p] # <<>>
      /\ toCache' = [toCache EXCEPT ![p] = Tail(@)]
      /\ ChangeValues(c, pkt, p, pageVal, pagePending, pageSaved)
      /\ UNCHANGED <<elems, batchMode, batched, synced, changes>>
  BY DEF CacheTakes, batchVars
<1>4. /\ p \in Threaded /\ c \in Proc /\ p \in ThreadPages(c)
      /\ p \notin MainPages(c) /\ p \in Page \cup {NoPage}
  BY <1>1, <1>3, ConstAssumption DEF DirectQueuesEmpty, ThreadPages, MainPages
<1>5. pkt \in Packet /\ toCache' \in [Page -> Seq(Packet)]
  BY <1>2, <1>3
<1>6. toCache'[p] = Tail(toCache[p]) /\ \A q \in Page \ {p} : toCache'[q] = toCache[q]
  BY <1>2, <1>3
<1>7. \A k \in Key : NumChanges(toCache[p], k) =
         NumChanges(toCache'[p], k) + (IF Changes(pkt, k) THEN 1 ELSE 0)
  BY <1>2, <1>3, <1>6, ChangesTaken
<1>8. \A q \in Page, k \in Key :
         /\ NumChanges(toCache[q], k) \in Nat /\ NumPageEchoes(fromCache[q], q, k) \in Nat
         /\ NumChanges(toCache'[q], k) \in Nat
         /\ pagePending[q][k] = NumChanges(toCache[q], k) + NumPageEchoes(fromCache[q], q, k)
  BY <1>1, <1>2, <1>5, CountsNat DEF PagePendingExact
<1> HIDE DEF c, pkt
<1>9. ChangeEffect(c, pkt, p, pagePending)
  <2>1. \A q \in MainPages(c), k \in Key :
           q = p /\ k \in elems[q] /\ Changes(pkt, k) => pagePending[q][k] > 0
    BY <1>4
  <2> QED
    BY <1>1, <1>2, <1>3, <1>4, <1>5, <2>1, ChangeValuesCounts
<1>10. TypeOK'
  BY <1>1, <1>3, <1>5, <1>9 DEF ChangeEffect, TypeOK
<1>11. DirectQueuesEmpty'
  BY <1>1, <1>4, <1>6, <1>9 DEF ChangeEffect, DirectQueuesEmpty
<1>12. ASSUME NEW q \in Page, NEW k \in Key
       PROVE  /\ pagePending'[q][k] = pagePending[q][k]
              /\ NumPageEchoes(fromCache'[q], q, k) = NumPageEchoes(fromCache[q], q, k)
                    + (IF q = p /\ Changes(pkt, k) THEN 1 ELSE 0)
  <2>1. pagePending'[q][k] = pagePending[q][k]
           - (IF q \in MainPages(c) /\ q = p /\ k \in elems[q] /\ Changes(pkt, k) THEN 1 ELSE 0)
    BY <1>9 DEF ChangeEffect
  <2>2. NumPageEchoes(fromCache'[q], q, k) = NumPageEchoes(fromCache[q], q, k)
           + (IF q \in ThreadPages(c) /\ q = p /\ Changes(pkt, k) THEN 1 ELSE 0)
    BY <1>9 DEF ChangeEffect
  <2>3. pagePending[q][k] \in Nat
    BY <1>2
  <2> QED
    BY <1>4, <2>1, <2>2, <2>3
<1>13. ASSUME NEW q \in Page, NEW k \in Key
       PROVE  NumChanges(toCache'[q], k) + NumPageEchoes(fromCache'[q], q, k) =
                 NumChanges(toCache[q], k) + NumPageEchoes(fromCache[q], q, k)
  <2>1. CASE q = p
    BY <1>7, <1>8, <1>12, <2>1
  <2>2. CASE q # p
    <3>1. toCache'[q] = toCache[q]
      BY <1>6, <2>2
    <3> QED
      BY <1>8, <1>12, <2>2, <3>1
  <2> QED
    BY <2>1, <2>2
<1>14. PagePendingExact'
  <2>1. SUFFICES ASSUME NEW q \in Page, NEW k \in Key
                 PROVE  pagePending'[q][k] =
                           NumChanges(toCache'[q], k) + NumPageEchoes(fromCache'[q], q, k)
    BY DEF PagePendingExact
  <2> QED
    BY <1>8, <1>12, <1>13
<1>15. OwnKeys'
  <2>1. SUFFICES ASSUME NEW q \in Page, NEW k \in Key, k \notin elems'[q]
                 PROVE  /\ batched'[q][k] = Absent
                        /\ NumChanges(toCache'[q], k) = 0
                        /\ NumPageEchoes(fromCache'[q], q, k) = 0
    BY DEF OwnKeys
  <2>2. /\ batched[q][k] = Absent
        /\ NumChanges(toCache[q], k) = 0
        /\ NumPageEchoes(fromCache[q], q, k) = 0
    BY <1>1, <1>3, <2>1 DEF OwnKeys
  <2>3. NumChanges(toCache'[q], k) \in Nat /\ NumPageEchoes(fromCache'[q], q, k) \in Nat
    <3>1. fromCache' \in [Page -> Seq(CacheMsg)]
      BY <1>9 DEF ChangeEffect
    <3> QED
      BY <1>8, <3>1, CountsNat
  <2>4. NumChanges(toCache'[q], k) + NumPageEchoes(fromCache'[q], q, k) = 0
    BY <1>13, <2>2
  <2> QED
    BY <1>3, <2>2, <2>3, <2>4
<1>16. CachePendingExact'
  BY <1>9 DEF ChangeEffect
<1> QED
  BY <1>10, <1>11, <1>14, <1>15, <1>16 DEF PendingInv

\* A threaded page takes a message of its cache: if it is the page's own, the
\* counter and the number of echoes both go down.
LEMMA PageTakesKeepsInv ==
    ASSUME PendingInv, NEW p \in Page, PageTakes(p)
    PROVE  PendingInv'
<1> DEFINE m == Head(fromCache[p])
<1>1. TypeOK /\ DirectQueuesEmpty /\ OwnKeys /\ PagePendingExact /\ CachePendingExact
  BY DEF PendingInv
<1>2. /\ toCache \in [Page -> Seq(Packet)] /\ fromCache \in [Page -> Seq(CacheMsg)]
      /\ pageVal \in [Page -> [Key -> Value \cup {Invalid}]]
      /\ pagePending \in [Page -> [Key -> Nat]]
      /\ pageSaved \in [Page -> [Key -> BOOLEAN]]
  BY <1>1 DEF TypeOK
<1>3. /\ fromCache[p] # <<>>
      /\ fromCache' = [fromCache EXCEPT ![p] = Tail(@)]
      /\ SetValuesFromCache({p}, m, pageVal, pagePending, pageSaved)
      /\ UNCHANGED <<elems, batchVars, toCache, cacheVars, hubVars, disk, changes>>
  BY DEF PageTakes
<1>4. m \in CacheMsg /\ fromCache' \in [Page -> Seq(CacheMsg)]
  BY <1>2, <1>3
<1>5. fromCache'[p] = Tail(fromCache[p]) /\ \A q \in Page \ {p} : fromCache'[q] = fromCache[q]
  BY <1>2, <1>3
<1>6. \A k \in Key : NumPageEchoes(fromCache[p], p, k) =
         NumPageEchoes(fromCache'[p], p, k) + (IF m.by = p /\ Has(m.pkt, k) THEN 1 ELSE 0)
  BY <1>2, <1>3, <1>5, PageEchoesTaken
<1>7. \A q \in Page, k \in Key :
         /\ NumChanges(toCache[q], k) \in Nat /\ NumPageEchoes(fromCache[q], q, k) \in Nat
         /\ NumPageEchoes(fromCache'[q], q, k) \in Nat
         /\ pagePending[q][k] = NumChanges(toCache[q], k) + NumPageEchoes(fromCache[q], q, k)
  BY <1>1, <1>2, <1>4, CountsNat DEF PagePendingExact
<1> HIDE DEF m
<1>8. \A k \in Key : m.by = p /\ Has(m.pkt, k) => k \in elems[p] /\ RoundTrip(p, k, m)
  <2>1. SUFFICES ASSUME NEW k \in Key, m.by = p /\ Has(m.pkt, k) PROVE k \in elems[p]
    BY DEF RoundTrip
  <2>2. NumPageEchoes(fromCache[p], p, k) # 0
    BY <1>6, <1>7, <2>1
  <2> QED
    BY <1>1, <2>2 DEF OwnKeys
<1>9. \A q \in Page, k \in Key : pagePending'[q][k] =
         pagePending[q][k] - (IF q = p /\ m.by = p /\ Has(m.pkt, k) THEN 1 ELSE 0)
  <2>1. SUFFICES ASSUME NEW q \in Page, NEW k \in Key
                 PROVE  pagePending'[q][k] =
                    pagePending[q][k] - (IF q = p /\ m.by = p /\ Has(m.pkt, k) THEN 1 ELSE 0)
    OBVIOUS
  <2>2. pagePending'[q][k] =
           IF q \in {p} /\ RoundTrip(q, k, m) THEN pagePending[q][k] - 1 ELSE pagePending[q][k]
    BY <1>3 DEF SetValuesFromCache
  <2>3. RoundTrip(q, k, m) => m.by = q /\ Has(m.pkt, k)
    BY DEF RoundTrip
  <2>4. pagePending[q][k] \in Nat
    BY <1>2
  <2> QED
    BY <1>8, <2>2, <2>3, <2>4
<1>10. PagePendingExact'
  <2>1. SUFFICES ASSUME NEW q \in Page, NEW k \in Key
                 PROVE  pagePending'[q][k] =
                           NumChanges(toCache'[q], k) + NumPageEchoes(fromCache'[q], q, k)
    BY DEF PagePendingExact
  <2>2. toCache'[q] = toCache[q]
    BY <1>3
  <2>3. CASE q = p
    BY <1>6, <1>7, <1>9, <2>2, <2>3
  <2>4. CASE q # p
    <3>1. fromCache'[q] = fromCache[q]
      BY <1>5, <2>4
    <3> QED
      BY <1>7, <1>9, <2>2, <2>4, <3>1
  <2> QED
    BY <2>3, <2>4
<1>11. pagePending' \in [Page -> [Key -> Nat]]
  <2>1. \A q \in Page, k \in Key : pagePending'[q][k] \in Nat
    <3>1. SUFFICES ASSUME NEW q \in Page, NEW k \in Key PROVE pagePending'[q][k] \in Nat
      OBVIOUS
    <3>2. pagePending'[q][k] = NumChanges(toCache'[q], k) + NumPageEchoes(fromCache'[q], q, k)
      BY <1>10 DEF PagePendingExact
    <3> QED
      BY <1>3, <1>7, <3>2
  <2>2. pagePending' = [q \in Page |-> [k \in Key |-> pagePending'[q][k]]]
    BY <1>3 DEF SetValuesFromCache
  <2> QED
    BY <2>1, <2>2
<1>12. pageVal' \in [Page -> [Key -> Value \cup {Invalid}]]
  <2>1. \A q \in Page, k \in Key : Ratifies(q, k, m, pagePending) => m.pkt.vals[k] \in Value
    BY ConstAssumption DEF Ratifies
  <2> QED
    BY <1>2, <1>3, <2>1 DEF SetValuesFromCache
<1>13. pageSaved' \in [Page -> [Key -> BOOLEAN]]
  <2>1. m.pkt.saved \in BOOLEAN
    BY <1>4 DEF CacheMsg, Packet
  <2> QED
    BY <1>2, <1>3, <2>1 DEF SetValuesFromCache
<1>14. TypeOK'
  BY <1>1, <1>3, <1>4, <1>11, <1>12, <1>13 DEF TypeOK, batchVars, cacheVars, hubVars
<1>15. DirectQueuesEmpty'
  <2>1. p \in Threaded
    BY <1>1, <1>3 DEF DirectQueuesEmpty
  <2> QED
    BY <1>1, <1>3, <1>5, <2>1 DEF DirectQueuesEmpty, hubVars
<1>16. OwnKeys'
  <2>1. SUFFICES ASSUME NEW q \in Page, NEW k \in Key, k \notin elems'[q]
                 PROVE  /\ batched'[q][k] = Absent
                        /\ NumChanges(toCache'[q], k) = 0
                        /\ NumPageEchoes(fromCache'[q], q, k) = 0
    BY DEF OwnKeys
  <2>2. /\ batched[q][k] = Absent
        /\ NumChanges(toCache[q], k) = 0
        /\ NumPageEchoes(fromCache[q], q, k) = 0
    BY <1>1, <1>3, <2>1 DEF OwnKeys
  <2>3. NumPageEchoes(fromCache'[q], q, k) = 0
    <3>1. CASE q = p
      BY <1>6, <1>7, <2>2, <3>1
    <3>2. CASE q # p
      BY <1>5, <2>2, <3>2
    <3> QED
      BY <3>1, <3>2
  <2> QED
    BY <1>3, <2>2, <2>3 DEF batchVars
<1>17. CachePendingExact'
  BY <1>1, <1>3 DEF CachePendingExact, cacheVars, hubVars
<1> QED
  BY <1>10, <1>14, <1>15, <1>16, <1>17 DEF PendingInv

\* The core takes a call of process c and relays it: a change that was on its
\* way to the core is now on its way back.
LEMMA HubTakesKeepsInv ==
    ASSUME PendingInv, NEW c \in Proc, HubTakes(c)
    PROVE  PendingInv'
<1> DEFINE pkt == Head(toHub[c])
<1>1. TypeOK /\ DirectQueuesEmpty /\ OwnKeys /\ PagePendingExact /\ CachePendingExact
  BY DEF PendingInv
<1>2. /\ toHub \in [Proc -> Seq(Packet)] /\ fromHub \in [Proc -> Seq(HubMsg)]
      /\ cachePending \in [Proc -> [Key -> Nat]]
  BY <1>1 DEF TypeOK
<1>3. /\ toHub[c] # <<>>
      /\ toHub' = [toHub EXCEPT ![c] = Tail(@)]
      /\ Relay(pkt, c)
      /\ RatifyRemote(Core, pkt)
      /\ UNCHANGED <<elems, batchMode, batched, toCache, cachePending, synced, changes>>
  BY DEF HubTakes, batchVars
<1>4. c # Core
  BY <1>1, <1>3 DEF DirectQueuesEmpty
<1>5. pkt \in Packet /\ toHub' \in [Proc -> Seq(Packet)]
  BY <1>2, <1>3
<1>6. toHub'[c] = Tail(toHub[c]) /\ \A d \in Proc \ {c} : toHub'[d] = toHub[d]
  BY <1>2, <1>3
<1>7. \A k \in Key : NumChanges(toHub[c], k) =
         NumChanges(toHub'[c], k) + (IF Changes(pkt, k) THEN 1 ELSE 0)
  BY <1>2, <1>3, <1>6, ChangesTaken
<1>8. \A d \in Proc, k \in Key :
         /\ NumChanges(toHub[d], k) \in Nat /\ NumProcEchoes(fromHub[d], d, k) \in Nat
         /\ NumChanges(toHub'[d], k) \in Nat
         /\ cachePending[d][k] = NumChanges(toHub[d], k) + NumProcEchoes(fromHub[d], d, k)
  BY <1>1, <1>2, <1>5, CountsNat DEF CachePendingExact
<1> HIDE DEF pkt
<1>9. /\ fromHub' \in [Proc -> Seq(HubMsg)]
      /\ fromHub'[Core] = fromHub[Core]
      /\ \A d \in Proc, k \in Key : NumProcEchoes(fromHub'[d], d, k) =
            NumProcEchoes(fromHub[d], d, k)
               + (IF d # Core /\ c = d /\ Changes(pkt, k) THEN 1 ELSE 0)
  BY <1>1, <1>3, <1>5, RelayCounts
<1>10. RatifyEffect
  BY <1>1, <1>3, <1>5, ConstAssumption, RatifyCounts
<1>11. TypeOK'
  BY <1>1, <1>3, <1>5, <1>9, <1>10 DEF RatifyEffect, TypeOK
<1>12. DirectQueuesEmpty'
  BY <1>1, <1>3, <1>4, <1>6, <1>9, <1>10, ConstAssumption DEF RatifyEffect, DirectQueuesEmpty
<1>13. OwnKeys' /\ PagePendingExact'
  BY <1>1, <1>3, <1>10, RatifyKeepsPages
<1>14. CachePendingExact'
  <2>1. SUFFICES ASSUME NEW d \in Proc, NEW k \in Key
                 PROVE  cachePending'[d][k] =
                           NumChanges(toHub'[d], k) + NumProcEchoes(fromHub'[d], d, k)
    BY DEF CachePendingExact
  <2>2. /\ cachePending'[d][k] = NumChanges(toHub[d], k) + NumProcEchoes(fromHub[d], d, k)
        /\ NumProcEchoes(fromHub'[d], d, k) = NumProcEchoes(fromHub[d], d, k)
              + (IF d # Core /\ c = d /\ Changes(pkt, k) THEN 1 ELSE 0)
        /\ NumChanges(toHub[d], k) \in Nat /\ NumProcEchoes(fromHub[d], d, k) \in Nat
        /\ NumChanges(toHub'[d], k) \in Nat
    BY <1>3, <1>8, <1>9
  <2>3. CASE d = c
    BY <1>4, <1>7, <2>2, <2>3
  <2>4. CASE d # c
    <3>1. toHub'[d] = toHub[d]
      BY <1>6, <2>4
    <3> QED
      BY <2>2, <2>4, <3>1
  <2> QED
    BY <2>3, <2>4
<1> QED
  BY <1>11, <1>12, <1>13, <1>14 DEF PendingInv

\* Process c takes a signal of the core: if it is the process's own change, the
\* counter and the number of echoes both go down.
LEMMA ProxyTakesKeepsInv ==
    ASSUME PendingInv, NEW c \in Proc, ProxyTakes(c)
    PROVE  PendingInv'
<1> DEFINE m == Head(fromHub[c])
<1>1. TypeOK /\ DirectQueuesEmpty /\ OwnKeys /\ PagePendingExact /\ CachePendingExact
  BY DEF PendingInv
<1>2. /\ toHub \in [Proc -> Seq(Packet)] /\ fromHub \in [Proc -> Seq(HubMsg)]
      /\ cachePending \in [Proc -> [Key -> Nat]]
  BY <1>1 DEF TypeOK
<1>3. /\ fromHub[c] # <<>>
      /\ fromHub' = [fromHub EXCEPT ![c] = Tail(@)]
      /\ UNCHANGED <<elems, batchMode, batched, toCache, toHub, synced, changes>>
  BY DEF ProxyTakes, batchVars
<1>4. m \in HubMsg /\ m.pkt \in Packet /\ fromHub' \in [Proc -> Seq(HubMsg)]
  <2>1. m \in HubMsg /\ fromHub' \in [Proc -> Seq(HubMsg)]
    BY <1>2, <1>3
  <2> QED
    BY <2>1 DEF HubMsg
<1>5. fromHub'[c] = Tail(fromHub[c]) /\ \A d \in Proc \ {c} : fromHub'[d] = fromHub[d]
  BY <1>2, <1>3
<1>6. \A k \in Key : NumProcEchoes(fromHub[c], c, k) =
         NumProcEchoes(fromHub'[c], c, k) + (IF m.origin = c /\ Changes(m.pkt, k) THEN 1 ELSE 0)
  BY <1>2, <1>3, <1>5, ProcEchoesTaken
<1>7. \A d \in Proc, k \in Key :
         /\ NumChanges(toHub[d], k) \in Nat /\ NumProcEchoes(fromHub[d], d, k) \in Nat
         /\ NumProcEchoes(fromHub'[d], d, k) \in Nat
         /\ cachePending[d][k] = NumChanges(toHub[d], k) + NumProcEchoes(fromHub[d], d, k)
  BY <1>1, <1>2, <1>4, CountsNat DEF CachePendingExact
<1>8. \/ /\ m.origin = c
         /\ AcknowledgeRemote(c, m.pkt)
         /\ UNCHANGED <<pageVal, pagePending, pageSaved, fromCache, cacheVal, cacheSaved, disk>>
      \/ m.origin # c /\ RatifyRemote(c, m.pkt) /\ UNCHANGED cachePending
  BY DEF ProxyTakes
<1> HIDE DEF m
<1>9. /\ pagePending' \in [Page -> [Key -> Nat]]
      /\ RatifyEffect
  <2>1. CASE m.origin = c
    <3>1. UNCHANGED <<pageVal, pagePending, pageSaved, fromCache, cacheVal, cacheSaved, disk>>
      BY <1>8, <2>1
    <3> QED
      BY <1>1, <3>1 DEF TypeOK, RatifyEffect
  <2>2. CASE m.origin # c
    <3>1. RatifyEffect
      BY <1>1, <1>4, <1>8, <2>2, RatifyCounts
    <3> QED
      BY <1>1, <3>1 DEF TypeOK, RatifyEffect
  <2> QED
    BY <2>1, <2>2
<1>10. \A d \in Proc, k \in Key : cachePending'[d][k] =
          cachePending[d][k] - (IF d = c /\ m.origin = c /\ Changes(m.pkt, k) THEN 1 ELSE 0)
  <2>1. CASE m.origin = c
    <3>1. AcknowledgeRemote(c, m.pkt)
      BY <1>8, <2>1
    <3>2. m.pkt.changed \in BOOLEAN
      BY <1>4 DEF Packet
    <3>3. CASE m.pkt.changed
      <4>1. cachePending' = [cachePending EXCEPT ![c] =
                                [k \in Key |-> IF Has(m.pkt, k) THEN @[k] - 1 ELSE @[k]]]
        BY <3>1, <3>3 DEF AcknowledgeRemote
      <4> QED
        BY <1>2, <2>1, <3>3, <4>1 DEF Changes
    <3>4. CASE ~m.pkt.changed
      <4>1. cachePending' = cachePending
        BY <3>1, <3>4 DEF AcknowledgeRemote
      <4> QED
        BY <1>2, <3>4, <4>1 DEF Changes
    <3> QED
      BY <3>2, <3>3, <3>4
  <2>2. CASE m.origin # c
    <3>1. cachePending' = cachePending
      BY <1>8, <2>2
    <3> QED
      BY <1>2, <2>2, <3>1
  <2> QED
    BY <2>1, <2>2
<1>11. CachePendingExact'
  <2>1. SUFFICES ASSUME NEW d \in Proc, NEW k \in Key
                 PROVE  cachePending'[d][k] =
                           NumChanges(toHub'[d], k) + NumProcEchoes(fromHub'[d], d, k)
    BY DEF CachePendingExact
  <2>2. /\ cachePending[d][k] = NumChanges(toHub[d], k) + NumProcEchoes(fromHub[d], d, k)
        /\ cachePending'[d][k] =
              cachePending[d][k] - (IF d = c /\ m.origin = c /\ Changes(m.pkt, k) THEN 1 ELSE 0)
        /\ NumChanges(toHub[d], k) \in Nat /\ NumProcEchoes(fromHub[d], d, k) \in Nat
        /\ NumProcEchoes(fromHub'[d], d, k) \in Nat
        /\ toHub'[d] = toHub[d]
    BY <1>3, <1>7, <1>10
  <2>3. CASE d = c
    BY <1>6, <2>2, <2>3
  <2>4. CASE d # c
    <3>1. fromHub'[d] = fromHub[d]
      BY <1>5, <2>4
    <3> QED
      BY <2>2, <2>4, <3>1
  <2> QED
    BY <2>3, <2>4
<1>12. cachePending' \in [Proc -> [Key -> Nat]]
  <2>1. ASSUME NEW d \in Proc, NEW k \in Key PROVE cachePending'[d][k] \in Nat
    <3>1. cachePending'[d][k] = NumChanges(toHub'[d], k) + NumProcEchoes(fromHub'[d], d, k)
      BY <1>11 DEF CachePendingExact
    <3> QED
      BY <1>3, <1>7, <3>1
  <2>2. cachePending' \in [Proc -> [Key -> Int]]
    <3>1. CASE cachePending' = cachePending
      BY <1>2, <3>1
    <3>2. CASE cachePending' = [cachePending EXCEPT ![c] =
                                   [k \in Key |-> IF Has(m.pkt, k) THEN @[k] - 1 ELSE @[k]]]
      BY <1>2, <3>2
    <3> QED
      BY <1>8, <3>1, <3>2 DEF AcknowledgeRemote
  <2> QED
    BY <2>1, <2>2
<1>13. TypeOK'
  BY <1>1, <1>3, <1>4, <1>9, <1>12 DEF RatifyEffect, TypeOK
<1>14. DirectQueuesEmpty'
  <2>1. c # Core
    BY <1>1, <1>3 DEF DirectQueuesEmpty
  <2> QED
    BY <1>1, <1>3, <1>5, <1>9, <2>1, ConstAssumption DEF RatifyEffect, DirectQueuesEmpty
<1>15. OwnKeys' /\ PagePendingExact'
  BY <1>1, <1>3, <1>9, RatifyKeepsPages
<1> QED
  BY <1>11, <1>13, <1>14, <1>15 DEF PendingInv

\* A process loads the core's settings.
LEMMA SynchronizeKeepsInv ==
    ASSUME PendingInv, NEW c \in Proc, SynchronizeLocalSettings(c)
    PROVE  PendingInv'
<1> DEFINE pkt == [vals |-> [k \in Key |->
                      IF cacheVal[Core][k] = Invalid THEN Absent ELSE cacheVal[Core][k]],
                   saved |-> FALSE, changed |-> TRUE]
<1>1. TypeOK /\ DirectQueuesEmpty /\ OwnKeys /\ PagePendingExact /\ CachePendingExact
  BY DEF PendingInv
<1>2. /\ RatifyRemote(c, pkt)
      /\ UNCHANGED <<elems, batchMode, batched, toCache, cachePending, toHub, fromHub>>
      /\ synced' = synced \cup {c}
      /\ changes < MaxChanges /\ changes' = changes + 1
  BY DEF SynchronizeLocalSettings, batchVars, Count
<1>3. pkt \in Packet
  <2>1. cacheVal[Core] \in [Key -> Value \cup {Invalid}]
    BY <1>1, ConstAssumption DEF TypeOK
  <2> QED
    BY <2>1 DEF Packet
<1> HIDE DEF pkt
<1>4. RatifyEffect
  BY <1>1, <1>2, <1>3, RatifyCounts
<1>5. TypeOK'
  BY <1>1, <1>2, <1>4, ConstAssumption DEF RatifyEffect, TypeOK
<1>6. DirectQueuesEmpty'
  BY <1>1, <1>2, <1>4 DEF RatifyEffect, DirectQueuesEmpty
<1>7. OwnKeys' /\ PagePendingExact'
  BY <1>1, <1>2, <1>4, RatifyKeepsPages
<1>8. CachePendingExact'
  BY <1>1, <1>2 DEF CachePendingExact
<1> QED
  BY <1>5, <1>6, <1>7, <1>8 DEF PendingInv

\* Saving and loading the settings in the core.
LEMMA StoreKeepsInv ==
    ASSUME PendingInv, (\E ks \in SUBSET Key : SaveToStore(ks)) \/ LoadFromStore
    PROVE  PendingInv'
<1>1. TypeOK /\ DirectQueuesEmpty /\ OwnKeys /\ PagePendingExact /\ CachePendingExact
  BY DEF PendingInv
<1>2. ASSUME NEW ks \in SUBSET Key, SaveToStore(ks) PROVE PendingInv'
  <2>1. /\ disk \in [Key -> Value \cup {Invalid}]
        /\ cacheVal[Core] \in [Key -> Value \cup {Invalid}]
        /\ cacheSaved \in [Proc -> [Key -> BOOLEAN]]
    BY <1>1, ConstAssumption DEF TypeOK
  <2>2. disk' \in [Key -> Value \cup {Invalid}]
    BY <1>2, <2>1 DEF SaveToStore
  <2>3. cacheSaved' \in [Proc -> [Key -> BOOLEAN]]
    <3>1. [k \in Key |-> IF k \in ks THEN TRUE ELSE cacheSaved[Core][k]] \in [Key -> BOOLEAN]
      <4>1. \A k \in Key : cacheSaved[Core][k] \in BOOLEAN
        BY <2>1, ConstAssumption
      <4>2. \A k \in Key : (IF k \in ks THEN TRUE ELSE cacheSaved[Core][k]) \in BOOLEAN
        BY <4>1
      <4> QED
        BY <4>2
    <3>2. \/ cacheSaved' = cacheSaved
          \/ cacheSaved' = [cacheSaved EXCEPT ![Core] =
                               [k \in Key |-> IF k \in ks THEN TRUE ELSE @[k]]]
      BY <1>2 DEF SaveToStore
    <3>3. Core \in Proc
      BY ConstAssumption
    <3> QED
      BY <2>1, <3>1, <3>2, <3>3
  <2>4. /\ UNCHANGED <<pageVars, batchVars, pageQueues, cacheVal, cachePending, hubVars>>
        /\ changes < MaxChanges /\ changes' = changes + 1
    BY <1>2 DEF SaveToStore, Count
  <2>5. TypeOK'
    BY <1>1, <2>2, <2>3, <2>4, ConstAssumption
       DEF TypeOK, pageVars, batchVars, pageQueues, hubVars
  <2>6. OwnKeys'
    BY <1>1, <2>4 DEF OwnKeys, pageVars, batchVars, pageQueues
  <2> QED
    BY <2>4, <2>5, <2>6, QuietStepKeepsInv DEF pageVars, hubVars
<1>3. ASSUME LoadFromStore PROVE PendingInv'
  <2> DEFINE pkt == [vals |-> [k \in Key |->
                        IF disk[k] \in {Invalid, cacheVal[Core][k]} THEN Absent ELSE disk[k]],
                     saved |-> TRUE, changed |-> TRUE]
  <2>1. /\ ChangeValues(Core, pkt, NoPage, pageVal, pagePending, pageSaved)
        /\ UNCHANGED <<elems, batchMode, batched, toCache, synced>>
        /\ changes < MaxChanges /\ changes' = changes + 1
    BY <1>3 DEF LoadFromStore, batchVars, Count
  <2>2. pkt \in Packet
    <3>1. disk \in [Key -> Value \cup {Invalid}]
      BY <1>1 DEF TypeOK
    <3> QED
      BY <3>1 DEF Packet
  <2>3. /\ pageVal \in [Page -> [Key -> Value \cup {Invalid}]]
        /\ pagePending \in [Page -> [Key -> Nat]]
        /\ pageSaved \in [Page -> [Key -> BOOLEAN]]
        /\ fromCache \in [Page -> Seq(CacheMsg)]
    BY <1>1 DEF TypeOK
  <2> HIDE DEF pkt
  <2>4. ChangeEffect(Core, pkt, NoPage, pagePending)
    <3>1. \A q \in MainPages(Core), k \in Key :
             q = NoPage /\ k \in elems[q] /\ Changes(pkt, k) => pagePending[q][k] > 0
      BY ConstAssumption DEF MainPages
    <3> QED
      BY <1>1, <2>1, <2>2, <2>3, <3>1, ConstAssumption, ChangeValuesCounts
  <2>5. ASSUME NEW q \in Page, NEW k \in Key
        PROVE  /\ pagePending'[q][k] = pagePending[q][k]
               /\ NumPageEchoes(fromCache'[q], q, k) = NumPageEchoes(fromCache[q], q, k)
    <3>1. pagePending'[q][k] = pagePending[q][k] - (IF q \in MainPages(Core) /\ q = NoPage
                                  /\ k \in elems[q] /\ Changes(pkt, k) THEN 1 ELSE 0)
      BY <2>4 DEF ChangeEffect
    <3>2. NumPageEchoes(fromCache'[q], q, k) = NumPageEchoes(fromCache[q], q, k)
             + (IF q \in ThreadPages(Core) /\ q = NoPage /\ Changes(pkt, k) THEN 1 ELSE 0)
      BY <2>4 DEF ChangeEffect
    <3>3. /\ pagePending[q][k] \in Nat /\ NumPageEchoes(fromCache[q], q, k) \in Nat
          /\ q # NoPage
      BY <2>3, CountsNat, ConstAssumption
    <3> QED
      BY <3>1, <3>2, <3>3
  <2>6. pagePending' = pagePending
    <3>1. pagePending' \in [Page -> [Key -> Nat]]
      BY <2>4 DEF ChangeEffect
    <3>2. \A q \in Page, k \in Key : pagePending'[q][k] = pagePending[q][k]
      BY <2>5
    <3> QED
      BY <2>3, <3>1, <3>2
  <2>7. RatifyEffect
    BY <2>4, <2>5, <2>6 DEF ChangeEffect, RatifyEffect
  <2>8. OwnKeys' /\ PagePendingExact'
    BY <1>1, <2>1, <2>7, RatifyKeepsPages
  <2>9. TypeOK'
    BY <1>1, <2>1, <2>4, ConstAssumption DEF ChangeEffect, TypeOK
  <2>10. DirectQueuesEmpty'
    BY <1>1, <2>1, <2>4 DEF ChangeEffect, DirectQueuesEmpty
  <2>11. CachePendingExact'
    BY <2>4 DEF ChangeEffect
  <2> QED
    BY <2>8, <2>9, <2>10, <2>11 DEF PendingInv
<1> QED
  BY <1>2, <1>3

\* Every step keeps the invariant.
LEMMA NextPending == PendingInv /\ [Next]_vars => PendingInv'
<1> SUFFICES ASSUME PendingInv, [Next]_vars PROVE PendingInv'
  OBVIOUS
<1>1. ASSUME NEW p \in Page, Request(p) PROVE PendingInv'
  BY <1>1, RequestKeepsInv
<1>2. ASSUME NEW p \in Page, CacheTakes(p) PROVE PendingInv'
  BY <1>2, CacheTakesKeepsInv
<1>3. ASSUME NEW p \in Page, PageTakes(p) PROVE PendingInv'
  BY <1>3, PageTakesKeepsInv
<1>4. ASSUME NEW c \in Proc, HubTakes(c) PROVE PendingInv'
  BY <1>4, HubTakesKeepsInv
<1>5. ASSUME NEW c \in Proc, ProxyTakes(c) PROVE PendingInv'
  BY <1>5, ProxyTakesKeepsInv
<1>6. ASSUME NEW c \in Proc, SynchronizeLocalSettings(c) PROVE PendingInv'
  BY <1>6, SynchronizeKeepsInv
<1>7. CASE (\E ks \in SUBSET Key : SaveToStore(ks)) \/ LoadFromStore
  BY <1>7, StoreKeepsInv
<1>8. CASE UNCHANGED vars
  <2>1. TypeOK' /\ OwnKeys'
    BY <1>8 DEF PendingInv, TypeOK, OwnKeys, vars, pageVars, batchVars, pageQueues, cacheVars, hubVars
  <2> QED
    BY <1>8, <2>1, QuietStepKeepsInv DEF vars, pageVars, pageQueues, cacheVars, hubVars
<1> QED
  BY <1>1, <1>2, <1>3, <1>4, <1>5, <1>6, <1>7, <1>8 DEF Next, Deliver

-----------------------------------------------------------------------------
(* Theorems *)

\* The invariant that ties the counters of pages and caches to the queues of both
\* layers, the keys of the packets in them and the batches under way.
THEOREM PendingCorrect == Spec => []PendingInv
  BY InitPending, NextPending, PTL DEF Spec

\* Every reachable state is well typed; in particular no pending counter ever
\* becomes negative, which the assertions in setValuesFromCache and
\* changeValuesFromRemote demand.
THEOREM TypeCorrect == Spec => []TypeOK
<1>1. PendingInv => TypeOK
  BY DEF PendingInv
<1> QED
  BY <1>1, InitPending, NextPending, PTL DEF Spec

\* For any number of processes, pages and keys, a pending counter of a page is
\* the number of its own changes that have not come back.
THEOREM PagePendingCorrect == Spec => []PagePendingExact
<1>1. PendingInv => PagePendingExact
  BY DEF PendingInv
<1> QED
  BY <1>1, InitPending, NextPending, PTL DEF Spec

\* The same for the pending counters of the caches.
THEOREM CachePendingCorrect == Spec => []CachePendingExact
<1>1. PendingInv => CachePendingExact
  BY DEF PendingInv
<1> QED
  BY <1>1, InitPending, NextPending, PTL DEF Spec


-----------------------------------------------------------------------------
(* Pages and caches: what the queues between them say *)

\* Packets that change k, and packets that carry v for k.
PktOf(k) == {x \in Packet : Changes(x, k)}
PktWith(k, v) == {x \in Packet : x.vals[k] = v}

\* Messages to pages about k, those of page p, and those that carry v.
MsgOf(k) == {m \in CacheMsg : Has(m.pkt, k)}
MsgBy(p, k) == {m \in CacheMsg : Has(m.pkt, k) /\ m.by = p}
MsgWith(k, v) == {m \in CacheMsg : m.pkt.vals[k] = v}

\* What holds of key k between a page and its cache: to and from are the queues
\* between them, pv and cv their values, es the keys of the page's elements.
\*  - The last message about k to the page carries the value of the cache.
\*  - The last change of k that the page has sent carries the value of the page.
\*  - If the cache has all changes of the page, the page's last change that has
\*    not come back carries the value of the page.
\*  - When nothing is under way, both agree or the page rejects the value.
PageView(p, k, to, from, pv, cv, es) ==
    /\ LastIn(from, MsgOf(k), MsgWith(k, cv))
    /\ LastIn(to, PktOf(k), PktWith(k, pv))
    /\ NoneIn(to, PktOf(k)) => LastIn(from, MsgBy(p, k), MsgWith(k, pv))
    /\ k \in es /\ cv \in Accepts[p][k] /\ NoneIn(to, PktOf(k)) /\ NoneIn(from, MsgOf(k)) => pv = cv

\* The view that page p has of key k.
ViewOf(p, k) ==
    PageView(p, k, toCache[p], fromCache[p], pageVal[p][k], cacheVal[ProcOf[p]][k], elems[p])

PagesInv == \A p \in Page, k \in Key : ViewOf(p, k)

\* Queues with nothing about k.
LEMMA ViewDirect ==
    ASSUME NEW p, NEW k, NEW pv, NEW cv, NEW es
    PROVE  PageView(p, k, <<>>, <<>>, pv, cv, es) <=> (k \in es /\ cv \in Accepts[p][k] => pv = cv)
BY EmptyLast DEF PageView

\* The page sends a change of k.
LEMMA ViewSend ==
    ASSUME NEW p, NEW k, NEW to \in Seq(Packet), NEW from \in Seq(CacheMsg), NEW pv, NEW cv, NEW es,
           PageView(p, k, to, from, pv, cv, es),
           NEW x \in Packet, Changes(x, k),
           NEW to2, to2 = Append(to, x), NEW pv2, pv2 = x.vals[k]
    PROVE  PageView(p, k, to2, from, pv2, cv, es)
<1>1. x \in PktOf(k) /\ x \in PktWith(k, pv2)
  BY DEF PktOf, PktWith
<1>2. ~NoneIn(Append(to, x), PktOf(k))
  BY <1>1, NoneAppended
<1>3. LastIn(Append(to, x), PktOf(k), PktWith(k, pv2))
  BY <1>1, LastNew
<1> QED
  BY <1>2, <1>3 DEF PageView

\* A packet that does not change k is sent or taken.
LEMMA ViewOtherPacket ==
    ASSUME NEW p, NEW k, NEW to \in Seq(Packet), NEW from \in Seq(CacheMsg), NEW pv, NEW cv, NEW es,
           PageView(p, k, to, from, pv, cv, es),
           NEW x \in Packet, ~Changes(x, k), NEW to2,
           to2 = Append(to, x) \/ (to # <<>> /\ x = Head(to) /\ to2 = Tail(to))
    PROVE  PageView(p, k, to2, from, pv, cv, es)
<1>1. x \notin PktOf(k)
  BY DEF PktOf
<1>2. LastIn(to, PktOf(k), PktWith(k, pv))
  BY DEF PageView
<1>3. CASE to2 = Append(to, x)
  <2>1. NoneIn(Append(to, x), PktOf(k)) <=> NoneIn(to, PktOf(k))
    BY <1>1, NoneAppended
  <2>2. LastIn(Append(to, x), PktOf(k), PktWith(k, pv))
    BY <1>1, <1>2, LastOld
  <2> QED
    BY <1>3, <2>1, <2>2 DEF PageView
<1>4. CASE to # <<>> /\ x = Head(to) /\ to2 = Tail(to)
  <2>1. NoneIn(Tail(to), PktOf(k)) <=> NoneIn(to, PktOf(k))
    BY <1>1, <1>4, NoneTaken
  <2>2. LastIn(Tail(to), PktOf(k), PktWith(k, pv))
    BY <1>2, <1>4, LastStays
  <2> QED
    BY <1>4, <2>1, <2>2 DEF PageView
<1> QED
  BY <1>3, <1>4

\* A message without k is sent to the page or taken by it.
LEMMA ViewOtherMessage ==
    ASSUME NEW p, NEW k, NEW to \in Seq(Packet), NEW from \in Seq(CacheMsg), NEW pv, NEW cv, NEW es,
           PageView(p, k, to, from, pv, cv, es),
           NEW m \in CacheMsg, ~Has(m.pkt, k), NEW from2,
           from2 = Append(from, m) \/ (from # <<>> /\ m = Head(from) /\ from2 = Tail(from))
    PROVE  PageView(p, k, to, from2, pv, cv, es)
<1>1. m \notin MsgOf(k) /\ m \notin MsgBy(p, k)
  BY DEF MsgOf, MsgBy
<1>2. LastIn(from, MsgOf(k), MsgWith(k, cv))
  BY DEF PageView
<1>3. CASE from2 = Append(from, m)
  <2>1. NoneIn(Append(from, m), MsgOf(k)) <=> NoneIn(from, MsgOf(k))
    BY <1>1, NoneAppended
  <2>2. LastIn(Append(from, m), MsgOf(k), MsgWith(k, cv))
    BY <1>1, <1>2, LastOld
  <2>3. LastIn(Append(from, m), MsgBy(p, k), MsgWith(k, pv)) <=> LastIn(from, MsgBy(p, k), MsgWith(k, pv))
    BY <1>1, LastOld
  <2> QED
    BY <1>3, <2>1, <2>2, <2>3 DEF PageView
<1>4. CASE from # <<>> /\ m = Head(from) /\ from2 = Tail(from)
  <2>1. NoneIn(Tail(from), MsgOf(k)) <=> NoneIn(from, MsgOf(k))
    BY <1>1, <1>4, NoneTaken
  <2>2. LastIn(Tail(from), MsgOf(k), MsgWith(k, cv))
    BY <1>2, <1>4, LastStays
  <2>3. LastIn(from, MsgBy(p, k), MsgWith(k, pv)) => LastIn(Tail(from), MsgBy(p, k), MsgWith(k, pv))
    BY <1>4, LastStays
  <2> QED
    BY <1>4, <2>1, <2>2, <2>3 DEF PageView
<1> QED
  BY <1>3, <1>4

\* The cache takes a change of k from the queue of the page and sends it back.
LEMMA ViewChange ==
    ASSUME NEW p, NEW k, NEW to \in Seq(Packet), NEW from \in Seq(CacheMsg), NEW pv, NEW cv, NEW es,
           PageView(p, k, to, from, pv, cv, es),
           to # <<>>, Changes(Head(to), k),
           NEW m \in CacheMsg, m.pkt = Head(to), m.by = p,
           NEW to2, to2 = Tail(to), NEW from2, from2 = Append(from, m),
           NEW cv2, cv2 = m.pkt.vals[k]
    PROVE  PageView(p, k, to2, from2, pv, cv2, es)
<1>1. Head(to) \in Packet
  OBVIOUS
<1>2. Head(to) \in PktOf(k) /\ m \in MsgOf(k) /\ m \in MsgBy(p, k) /\ m \in MsgWith(k, cv2)
  BY <1>1 DEF PktOf, MsgOf, MsgBy, MsgWith, Changes
<1>3. LastIn(to, PktOf(k), PktWith(k, pv))
  BY DEF PageView
<1>4. ~NoneIn(Append(from, m), MsgOf(k))
  BY <1>2, NoneAppended
<1>5. LastIn(Append(from, m), MsgOf(k), MsgWith(k, cv2))
  BY <1>2, LastNew
<1>6. LastIn(Tail(to), PktOf(k), PktWith(k, pv))
  BY <1>3, LastStays
<1>7. ASSUME NoneIn(Tail(to), PktOf(k)) PROVE LastIn(Append(from, m), MsgBy(p, k), MsgWith(k, pv))
  <2>1. Head(to) \in PktWith(k, pv)
    BY <1>2, <1>3, <1>7, LastGone
  <2>2. m \in MsgWith(k, pv)
    BY <2>1 DEF PktWith, MsgWith
  <2> QED
    BY <1>2, <2>2, LastNew
<1> QED
  BY <1>4, <1>5, <1>6, <1>7 DEF PageView

\* The cache sends the page a change of k that another has made.
LEMMA ViewForeign ==
    ASSUME NEW p, NEW k, NEW to \in Seq(Packet), NEW from \in Seq(CacheMsg), NEW pv, NEW cv, NEW es,
           PageView(p, k, to, from, pv, cv, es),
           NEW m \in CacheMsg, Has(m.pkt, k), m.by # p,
           NEW from2, from2 = Append(from, m), NEW cv2, cv2 = m.pkt.vals[k]
    PROVE  PageView(p, k, to, from2, pv, cv2, es)
<1>1. m \in MsgOf(k) /\ m \notin MsgBy(p, k) /\ m \in MsgWith(k, cv2)
  BY DEF MsgOf, MsgBy, MsgWith
<1>2. ~NoneIn(Append(from, m), MsgOf(k))
  BY <1>1, NoneAppended
<1>3. LastIn(Append(from, m), MsgOf(k), MsgWith(k, cv2))
  BY <1>1, LastNew
<1>4. LastIn(Append(from, m), MsgBy(p, k), MsgWith(k, pv)) <=> LastIn(from, MsgBy(p, k), MsgWith(k, pv))
  BY <1>1, LastOld
<1> QED
  BY <1>2, <1>3, <1>4 DEF PageView

\* The page takes its own change of k.
LEMMA ViewEcho ==
    ASSUME NEW p, NEW k, NEW to \in Seq(Packet), NEW from \in Seq(CacheMsg), NEW pv, NEW cv, NEW es,
           PageView(p, k, to, from, pv, cv, es),
           from # <<>>, Has(Head(from).pkt, k), Head(from).by = p,
           NEW from2, from2 = Tail(from)
    PROVE  PageView(p, k, to, from2, pv, cv, es)
<1>1. Head(from) \in CacheMsg
  OBVIOUS
<1>2. Head(from) \in MsgOf(k) /\ Head(from) \in MsgBy(p, k)
  BY <1>1 DEF MsgOf, MsgBy
<1>3. LastIn(from, MsgOf(k), MsgWith(k, cv))
  BY DEF PageView
<1>4. LastIn(Tail(from), MsgOf(k), MsgWith(k, cv))
  BY <1>3, LastStays
<1>5. LastIn(from, MsgBy(p, k), MsgWith(k, pv)) => LastIn(Tail(from), MsgBy(p, k), MsgWith(k, pv))
  BY LastStays
<1>6. ASSUME NoneIn(to, PktOf(k)), NoneIn(Tail(from), MsgOf(k)) PROVE pv = cv
  <2>1. LastIn(from, MsgBy(p, k), MsgWith(k, pv))
    BY <1>6 DEF PageView
  <2>2. NoneIn(Tail(from), MsgBy(p, k))
    BY <1>6 DEF NoneIn, MsgOf, MsgBy
  <2>3. Head(from) \in MsgWith(k, cv)
    BY <1>2, <1>3, <1>6, LastGone
  <2>4. Head(from) \in MsgWith(k, pv)
    BY <1>2, <2>1, <2>2, LastGone
  <2> QED
    BY <2>3, <2>4 DEF MsgWith
<1> QED
  BY <1>4, <1>5, <1>6 DEF PageView

\* The page takes a change of k by another while none of its own is under way.
LEMMA ViewRatify ==
    ASSUME NEW p, NEW k, NEW to \in Seq(Packet), NEW from \in Seq(CacheMsg), NEW pv, NEW cv, NEW es,
           PageView(p, k, to, from, pv, cv, es),
           from # <<>>, Has(Head(from).pkt, k),
           NoneIn(to, PktOf(k)), NoneIn(from, MsgBy(p, k)),
           NEW from2, from2 = Tail(from), NEW pv2,
           k \in es /\ Head(from).pkt.vals[k] \in Accepts[p][k] => pv2 = Head(from).pkt.vals[k]
    PROVE  PageView(p, k, to, from2, pv2, cv, es)
<1>1. Head(from) \in CacheMsg
  OBVIOUS
<1>2. Head(from) \in MsgOf(k)
  BY <1>1 DEF MsgOf
<1>3. LastIn(from, MsgOf(k), MsgWith(k, cv))
  BY DEF PageView
<1>4. LastIn(Tail(from), MsgOf(k), MsgWith(k, cv))
  BY <1>3, LastStays
<1>5. LastIn(to, PktOf(k), PktWith(k, pv2))
  BY NoneLast
<1>6. NoneIn(Tail(from), MsgBy(p, k))
  BY NoneTaken
<1>7. LastIn(Tail(from), MsgBy(p, k), MsgWith(k, pv2))
  BY <1>6, NoneLast
<1>8. ASSUME k \in es, cv \in Accepts[p][k], NoneIn(Tail(from), MsgOf(k)) PROVE pv2 = cv
  <2>1. Head(from) \in MsgWith(k, cv)
    BY <1>2, <1>3, <1>8, LastGone
  <2>2. Head(from).pkt.vals[k] = cv
    BY <2>1 DEF MsgWith
  <2> QED
    BY <1>8, <2>2
<1> QED
  BY <1>4, <1>5, <1>7, <1>8 DEF PageView

\* The page takes a change of k by another and ignores it, having one of its own
\* under way.
LEMMA ViewPending ==
    ASSUME NEW p, NEW k, NEW to \in Seq(Packet), NEW from \in Seq(CacheMsg), NEW pv, NEW cv, NEW es,
           PageView(p, k, to, from, pv, cv, es),
           from # <<>>, Head(from).by # p,
           ~(NoneIn(to, PktOf(k)) /\ NoneIn(from, MsgBy(p, k))),
           NEW from2, from2 = Tail(from)
    PROVE  PageView(p, k, to, from2, pv, cv, es)
<1>1. Head(from) \in CacheMsg
  OBVIOUS
<1>2. Head(from) \notin MsgBy(p, k)
  BY <1>1 DEF MsgBy
<1>3. LastIn(from, MsgOf(k), MsgWith(k, cv))
  BY DEF PageView
<1>4. LastIn(Tail(from), MsgOf(k), MsgWith(k, cv))
  BY <1>3, LastStays
<1>5. LastIn(from, MsgBy(p, k), MsgWith(k, pv)) => LastIn(Tail(from), MsgBy(p, k), MsgWith(k, pv))
  BY LastStays
<1>6. NoneIn(from, MsgBy(p, k)) <=> NoneIn(Tail(from), MsgBy(p, k))
  BY <1>2, NoneTaken
<1>7. NoneIn(Tail(from), MsgOf(k)) => NoneIn(Tail(from), MsgBy(p, k))
  BY DEF NoneIn, MsgOf, MsgBy
<1> QED
  BY <1>4, <1>5, <1>6, <1>7 DEF PageView


\* The counters are zero exactly when nothing is under way.
LEMMA NonePending ==
    ASSUME TypeOK, PagePendingExact, NEW p \in Page, NEW k \in Key
    PROVE  pagePending[p][k] = 0 <=> NoneIn(toCache[p], PktOf(k)) /\ NoneIn(fromCache[p], MsgBy(p, k))
<1>1. PICK to \in Seq(Packet) : to = toCache[p]
  BY DEF TypeOK
<1>2. PICK from \in Seq(CacheMsg) : from = fromCache[p]
  BY DEF TypeOK
<1> DEFINE I == {i \in DOMAIN to : Changes(to[i], k)}
           J == {i \in DOMAIN from : from[i].by = p /\ Has(from[i].pkt, k)}
<1>3. pagePending[p][k] = Cardinality(I) + Cardinality(J)
  BY <1>1, <1>2 DEF PagePendingExact, NumChanges, NumPageEchoes
<1>4. DOMAIN to = 1 .. Len(to) /\ Len(to) \in Nat /\ DOMAIN from = 1 .. Len(from) /\ Len(from) \in Nat
  OBVIOUS
<1>5. /\ IsFiniteSet(I) /\ Cardinality(I) \in Nat
      /\ IsFiniteSet(J) /\ Cardinality(J) \in Nat
  BY <1>4, PositionsFinite
<1>6. NoneIn(to, PktOf(k)) <=> I = {}
  BY DEF NoneIn, PktOf
<1>7. NoneIn(from, MsgBy(p, k)) <=> J = {}
  BY DEF NoneIn, MsgBy
<1> HIDE DEF I, J
<1>8. (Cardinality(I) = 0 <=> I = {}) /\ (Cardinality(J) = 0 <=> J = {})
  BY <1>5, FS_EmptySet
<1> QED
  BY <1>1, <1>2, <1>3, <1>5, <1>6, <1>7, <1>8

\* The values and the queues to the pages after the cache of c has taken over the
\* packet x of page by; val and pending are the pages' elements before.
CacheStep(c, x, by, val, pending) ==
    /\ cacheVal' = [cacheVal EXCEPT ![c] = Overlay(x, @)]
    /\ pageVal' = [p \in Page |-> [k \in Key |->
          IF p \in MainPages(c) /\ Ratifies(p, k, [pkt |-> x, by |-> by], pending)
          THEN x.vals[k] ELSE val[p][k]]]
    /\ fromCache' = [p \in Page |->
          IF p \in ThreadPages(c) THEN Append(fromCache[p], [pkt |-> x, by |-> by])
                                  ELSE fromCache[p]]

\* The same for a packet that changes nothing.
IdleStep(val) == pageVal' = val /\ UNCHANGED <<cacheVal, fromCache>>

\* changeValues is one or the other.
LEMMA ChangeIsStep ==
    ASSUME NEW c, NEW x \in Packet, NEW by, NEW val, NEW pending, NEW saved,
           ChangeValues(c, x, by, val, pending, saved)
    PROVE  /\ x.changed => CacheStep(c, x, by, val, pending)
           /\ ~x.changed => IdleStep(val)
BY DEF ChangeValues, EmitValuesChanged, SetValuesFromCache, CacheStep, IdleStep

\* So is changeValuesFromRemote for a foreign packet.
LEMMA RatifyIsStep ==
    ASSUME TypeOK, NEW c \in Proc, NEW x \in Packet, RatifyRemote(c, x)
    PROVE  \/ x.changed /\ CacheStep(c, Ratified(c, x), NoPage, pageVal, pagePending)
           \/ IdleStep(pageVal) /\ (x.changed => IsEmpty(Ratified(c, x)))
<1>1. PICK r \in Packet : r = Ratified(c, x)
  BY PacketTypes
<1>2. CASE x.changed /\ ~IsEmpty(r)
  BY <1>1, <1>2 DEF RatifyRemote, EmitValuesChanged, SetValuesFromCache, CacheStep
<1>3. CASE x.changed /\ IsEmpty(r)
  <2>1. /\ cacheVal' = [cacheVal EXCEPT ![c] = Overlay(r, @)]
        /\ UNCHANGED <<pageVal, fromCache>>
    BY <1>1, <1>3 DEF RatifyRemote
  <2>2. cacheVal \in [Proc -> [Key -> Value \cup {Invalid}]]
    BY DEF TypeOK
  <2>3. Overlay(r, cacheVal[c]) = cacheVal[c]
    BY <1>3, <2>2 DEF Overlay, IsEmpty
  <2>4. cacheVal' = cacheVal
    BY <2>1, <2>2, <2>3
  <2> QED
    BY <1>1, <1>3, <2>1, <2>4 DEF IdleStep
<1>4. CASE ~x.changed
  BY <1>4 DEF RatifyRemote, IdleStep
<1> QED
  BY <1>2, <1>3, <1>4

\* A step by another than p.
LEMMA ForeignStep ==
    ASSUME TypeOK, DirectQueuesEmpty, PagePendingExact,
           NEW c \in Proc, NEW x \in Packet, NEW by \in Page \cup {NoPage}, NEW val, NEW pending,
           CacheStep(c, x, by, val, pending), NEW p \in Page, NEW k \in Key,
           by # p, val[p][k] = pageVal[p][k], pending[p][k] = pagePending[p][k],
           elems'[p] = elems[p], toCache'[p] = toCache[p], ViewOf(p, k)
    PROVE  ViewOf(p, k)'
<1> DEFINE d == ProcOf[p]
<1>1. d \in Proc
  BY ConstAssumption
<1>2. PICK m \in CacheMsg : m = [pkt |-> x, by |-> by]
  BY DEF CacheMsg
<1>3. m.pkt = x /\ m.by = by
  BY <1>2
<1>4. PICK to \in Seq(Packet) : to = toCache[p]
  BY DEF TypeOK
<1>5. PICK from \in Seq(CacheMsg) : from = fromCache[p]
  BY DEF TypeOK
<1>6. /\ cacheVal \in [Proc -> [Key -> Value \cup {Invalid}]]
      /\ fromCache'[p] = IF p \in ThreadPages(c) THEN Append(from, m) ELSE from
      /\ pageVal'[p][k] = IF p \in MainPages(c) /\ Ratifies(p, k, m, pending)
                          THEN x.vals[k] ELSE pageVal[p][k]
  BY <1>2, <1>5 DEF TypeOK, CacheStep
<1>7. cacheVal'[d][k] = IF d = c /\ Has(x, k) THEN x.vals[k] ELSE cacheVal[d][k]
  BY <1>1, <1>6 DEF CacheStep, Overlay
<1> HIDE DEF d
<1>8. PageView(p, k, to, from, pageVal[p][k], cacheVal[d][k], elems[p])
  BY <1>4, <1>5 DEF ViewOf, d
<1>9. SUFFICES PageView(p, k, to, fromCache'[p], pageVal'[p][k], cacheVal'[d][k], elems[p])
  BY <1>4 DEF ViewOf, d
<1>10. CASE d # c
  <2>1. p \notin ThreadPages(c) /\ p \notin MainPages(c)
    BY <1>10 DEF d, ThreadPages, MainPages
  <2> QED
    BY <1>6, <1>7, <1>8, <1>10, <2>1
<1>11. CASE d = c /\ p \in Threaded
  <2>1. p \in ThreadPages(c) /\ p \notin MainPages(c)
    BY <1>11 DEF d, ThreadPages, MainPages
  <2>2. fromCache'[p] = Append(from, m) /\ pageVal'[p][k] = pageVal[p][k]
    BY <1>6, <2>1
  <2>3. CASE Has(x, k)
    BY <1>3, <1>7, <1>8, <1>11, <2>2, <2>3, ViewForeign
  <2>4. CASE ~Has(x, k)
    BY <1>3, <1>7, <1>8, <1>11, <2>2, <2>4, ViewOtherMessage
  <2> QED
    BY <2>3, <2>4
<1>12. CASE d = c /\ p \notin Threaded
  <2>1. p \notin ThreadPages(c) /\ p \in MainPages(c)
    BY <1>12 DEF d, ThreadPages, MainPages
  <2>2. to = <<>> /\ from = <<>>
    BY <1>4, <1>5, <1>12 DEF DirectQueuesEmpty
  <2>3. pending[p][k] = 0
    BY <1>4, <1>5, <2>2, NonePending, EmptyLast
  <2>4. k \in elems[p] /\ cacheVal[d][k] \in Accepts[p][k] => pageVal[p][k] = cacheVal[d][k]
    BY <1>8, <2>2, ViewDirect
  <2>5. k \in elems[p] /\ cacheVal'[d][k] \in Accepts[p][k] => pageVal'[p][k] = cacheVal'[d][k]
    BY <1>3, <1>6, <1>7, <1>12, <2>1, <2>3, <2>4 DEF Ratifies
  <2>6. fromCache'[p] = <<>>
    BY <1>6, <2>1, <2>2
  <2> QED
    BY <2>2, <2>5, <2>6, ViewDirect
<1> QED
  BY <1>10, <1>11, <1>12


\* A page of the main thread changes values and calls its cache.
LEMMA OwnMainStep ==
    ASSUME TypeOK, DirectQueuesEmpty,
           NEW x \in Packet, NEW val, NEW pending, NEW p \in Page, p \notin Threaded,
           CacheStep(ProcOf[p], x, p, val, pending), NEW k \in Key,
           val[p][k] = IF Has(x, k) THEN x.vals[k] ELSE pageVal[p][k],
           elems'[p] = elems[p], toCache'[p] = toCache[p], ViewOf(p, k)
    PROVE  ViewOf(p, k)'
<1> DEFINE d == ProcOf[p]
<1>1. d \in Proc /\ cacheVal \in [Proc -> [Key -> Value \cup {Invalid}]]
  BY ConstAssumption DEF TypeOK
<1>2. toCache[p] = <<>> /\ fromCache[p] = <<>>
  BY DEF DirectQueuesEmpty
<1>3. cacheVal'[d][k] = IF Has(x, k) THEN x.vals[k] ELSE cacheVal[d][k]
  BY <1>1 DEF CacheStep, Overlay
<1>4. fromCache'[p] = <<>>
  BY <1>2 DEF CacheStep, ThreadPages
<1>5. pageVal'[p][k] = val[p][k]
  BY DEF CacheStep, Ratifies
<1> HIDE DEF d
<1>6. k \in elems[p] /\ cacheVal[d][k] \in Accepts[p][k] => pageVal[p][k] = cacheVal[d][k]
  BY <1>2, ViewDirect DEF ViewOf, d
<1>7. k \in elems[p] /\ cacheVal'[d][k] \in Accepts[p][k] => pageVal'[p][k] = cacheVal'[d][k]
  BY <1>3, <1>5, <1>6
<1>8. PageView(p, k, <<>>, <<>>, pageVal'[p][k], cacheVal'[d][k], elems[p])
  BY <1>7, ViewDirect
<1> QED
  BY <1>2, <1>4, <1>8 DEF ViewOf, d

\* The cache takes a packet of a page in another thread.
LEMMA OwnThreadStep ==
    ASSUME TypeOK, NEW p \in Page, p \in Threaded, toCache[p] # <<>>,
           NEW x \in Packet, x = Head(toCache[p]), x.changed,
           CacheStep(ProcOf[p], x, p, pageVal, pagePending), NEW k \in Key,
           elems'[p] = elems[p], toCache'[p] = Tail(toCache[p]), ViewOf(p, k)
    PROVE  ViewOf(p, k)'
<1> DEFINE d == ProcOf[p]
<1>1. d \in Proc /\ cacheVal \in [Proc -> [Key -> Value \cup {Invalid}]]
  BY ConstAssumption DEF TypeOK
<1>2. PICK m \in CacheMsg : m = [pkt |-> x, by |-> p]
  BY DEF CacheMsg
<1>3. m.pkt = x /\ m.by = p
  BY <1>2
<1>4. PICK to \in Seq(Packet) : to = toCache[p]
  BY DEF TypeOK
<1>5. PICK from \in Seq(CacheMsg) : from = fromCache[p]
  BY DEF TypeOK
<1>6. cacheVal'[d][k] = IF Has(x, k) THEN x.vals[k] ELSE cacheVal[d][k]
  BY <1>1 DEF CacheStep, Overlay
<1>7. fromCache'[p] = Append(from, m) /\ pageVal'[p][k] = pageVal[p][k]
  BY <1>2, <1>5 DEF CacheStep, ThreadPages, MainPages
<1> HIDE DEF d
<1>8. PageView(p, k, to, from, pageVal[p][k], cacheVal[d][k], elems[p])
  BY <1>4, <1>5 DEF ViewOf, d
<1>9. SUFFICES PageView(p, k, Tail(to), Append(from, m), pageVal[p][k], cacheVal'[d][k], elems[p])
  BY <1>4, <1>7 DEF ViewOf, d
<1>10. CASE Has(x, k)
  <2>1. to # <<>> /\ m.pkt = Head(to) /\ Changes(Head(to), k)
    BY <1>3, <1>4, <1>10 DEF Changes
  <2>2. cacheVal'[d][k] = m.pkt.vals[k]
    BY <1>3, <1>6, <1>10
  <2> QED
    BY <1>3, <1>8, <2>1, <2>2, ViewChange
<1>11. CASE ~Has(x, k)
  <2>1. ~Changes(x, k) /\ to # <<>> /\ x = Head(to)
    BY <1>4, <1>11 DEF Changes
  <2>2. PICK to2 \in Seq(Packet) : to2 = Tail(to)
    <3>1. Tail(to) \in Seq(Packet)
      BY <2>1
    <3> QED
      BY <3>1, Zenon
  <2>3. PageView(p, k, to2, from, pageVal[p][k], cacheVal[d][k], elems[p])
    BY <1>8, <2>1, <2>2, ViewOtherPacket
  <2>4. PageView(p, k, to2, Append(from, m), pageVal[p][k], cacheVal[d][k], elems[p])
    BY <1>3, <1>11, <2>3, ViewOtherMessage
  <2> QED
    BY <1>6, <1>11, <2>2, <2>4
<1> QED
  BY <1>10, <1>11

\* Nothing about page p changes.
LEMMA SameView ==
    ASSUME NEW p, NEW k, ViewOf(p, k), elems'[p] = elems[p],
           toCache'[p] = toCache[p], fromCache'[p] = fromCache[p],
           pageVal'[p][k] = pageVal[p][k], cacheVal'[ProcOf[p]][k] = cacheVal[ProcOf[p]][k]
    PROVE  ViewOf(p, k)'
BY DEF ViewOf

\* Page p sends a packet.
LEMMA WantKeepsPages ==
    ASSUME PendingInv, PagesInv,
           NEW p \in Page, NEW x \in Packet, NEW val, NEW pending, NEW saved,
           \A q \in Page, k \in Key :
              val[q][k] = IF q = p /\ Changes(x, k) THEN x.vals[k] ELSE pageVal[q][k],
           \A q \in Page \ {p}, k \in Key : pending[q][k] = pagePending[q][k],
           WantToCache(p, x, val, pending, saved),
           UNCHANGED elems
    PROVE  PagesInv'
<1>1. TypeOK /\ DirectQueuesEmpty /\ PagePendingExact
  BY DEF PendingInv
<1> SUFFICES ASSUME NEW q \in Page, NEW k \in Key PROVE ViewOf(q, k)'
  BY DEF PagesInv
<1>2. ViewOf(q, k)
  BY DEF PagesInv
<1>3. val[q][k] = IF q = p /\ Changes(x, k) THEN x.vals[k] ELSE pageVal[q][k]
  OBVIOUS
<1>4. CASE p \in Threaded
  <2>1. /\ toCache' = [toCache EXCEPT ![p] = Append(@, x)]
        /\ pageVal' = val /\ fromCache' = fromCache /\ cacheVal' = cacheVal
    BY <1>4 DEF WantToCache, cacheVars
  <2>2. CASE q # p
    BY <1>1, <1>2, <1>3, <2>1, <2>2, SameView DEF TypeOK
  <2>3. CASE q = p
    <3>1. PICK to \in Seq(Packet) : to = toCache[p]
      BY <1>1 DEF TypeOK
    <3>2. PICK from \in Seq(CacheMsg) : from = fromCache[p]
      BY <1>1 DEF TypeOK
    <3>3. PageView(p, k, to, from, pageVal[p][k], cacheVal[ProcOf[p]][k], elems[p])
      BY <1>2, <2>3, <3>1, <3>2 DEF ViewOf
    <3>4. toCache'[p] = Append(to, x)
      BY <1>1, <2>1, <3>1 DEF TypeOK
    <3>5. PageView(p, k, Append(to, x), from, val[p][k], cacheVal[ProcOf[p]][k], elems[p])
      <4>1. CASE Changes(x, k)
        <5>1. val[p][k] = x.vals[k]
          BY <1>3, <2>3, <4>1
        <5> QED
          BY <3>3, <4>1, <5>1, ViewSend, ZenonT(60)
      <4>2. CASE ~Changes(x, k)
        BY <1>3, <2>3, <3>3, <4>2, ViewOtherPacket
      <4> QED
        BY <4>1, <4>2
    <3> QED
      BY <2>1, <2>3, <3>2, <3>4, <3>5 DEF ViewOf
  <2> QED
    BY <2>2, <2>3
<1>5. CASE p \notin Threaded
  <2>1. ChangeValues(ProcOf[p], x, p, val, pending, saved) /\ toCache' = toCache
    BY <1>5 DEF WantToCache
  <2>2. CASE ~x.changed
    <3>1. IdleStep(val) /\ ~Changes(x, k)
      BY <2>1, <2>2, ChangeIsStep DEF Changes
    <3> QED
      BY <1>2, <1>3, <2>1, <3>1, SameView DEF IdleStep
  <2>3. CASE x.changed
    <3>1. CacheStep(ProcOf[p], x, p, val, pending)
      BY <2>1, <2>3, ChangeIsStep
    <3>2. CASE q = p
      <4>1. val[p][k] = IF Has(x, k) THEN x.vals[k] ELSE pageVal[p][k]
        BY <1>3, <2>3, <3>2 DEF Changes
      <4> QED
        BY <1>1, <1>2, <1>5, <2>1, <3>1, <3>2, <4>1, OwnMainStep
    <3>3. CASE q # p
      <4>1. ProcOf[p] \in Proc /\ p \in Page \cup {NoPage}
        BY ConstAssumption
      <4>2. val[q][k] = pageVal[q][k] /\ pending[q][k] = pagePending[q][k]
        BY <1>3, <3>3
      <4> QED
        BY <1>1, <1>2, <2>1, <3>1, <3>3, <4>1, <4>2, ForeignStep
    <3> QED
      BY <3>2, <3>3
  <2> QED
    BY <2>2, <2>3
<1> QED
  BY <1>4, <1>5


\* Page p sends the packet x, having applied its changes to its own elements.
Sends(p, x, val, pending, saved) ==
    /\ x \in Packet
    /\ val \in [Page -> [Key -> Value \cup {Invalid}]]
    /\ pending \in [Page -> [Key -> Nat]]
    /\ saved \in [Page -> [Key -> BOOLEAN]]
    /\ \A q \in Page, k \in Key :
          val[q][k] = IF q = p /\ Changes(x, k) THEN x.vals[k] ELSE pageVal[q][k]
    /\ \A q \in Page, k \in Key :
          pending[q][k] = pagePending[q][k] + (IF q = p /\ Changes(x, k) THEN 1 ELSE 0)
    /\ \A k \in Key : Has(x, k) => k \in elems[p]
    /\ x.changed \/ SameStamp
    /\ WantToCache(p, x, val, pending, saved)
    /\ UNCHANGED <<elems, synced>>

\* What the other parts of the cache see of a request.
Unnoticed == UNCHANGED <<elems, pageVal, pagePending, toCache, fromCache,
                         cacheVars, toHub, fromHub, synced, disk>>

\* A request creates an element, sends a packet or stays within the page.
LEMMA RequestShape ==
    ASSUME PendingInv, NEW p \in Page, Request(p)
    PROVE  \/ \E k \in Key : CreateElement(p, k)
           \/ \E x, val, pending, saved : Sends(p, x, val, pending, saved)
           \/ Unnoticed
<1>1. TypeOK /\ OwnKeys
  BY DEF PendingInv
<1>2. /\ pageVal \in [Page -> [Key -> Value \cup {Invalid}]]
      /\ pagePending \in [Page -> [Key -> Nat]]
      /\ pageSaved \in [Page -> [Key -> BOOLEAN]]
      /\ batched \in [Page -> [Key -> Value \cup {Absent}]]
  BY <1>1 DEF TypeOK
<1>3. ASSUME NEW k \in Key, NEW v \in Value, NEW save \in BOOLEAN, SetValue(p, k, v, save)
      PROVE  \E x, val, pending, saved : Sends(p, x, val, pending, saved)
  <2>1. PICK x : x = [vals |-> Single(k, v), saved |-> save, changed |-> TRUE]
    OBVIOUS
  <2>2. PICK val : val = [pageVal EXCEPT ![p][k] = v]
    OBVIOUS
  <2>3. PICK pending : pending = [pagePending EXCEPT ![p][k] = @ + 1]
    OBVIOUS
  <2>4. PICK saved : saved = [pageSaved EXCEPT ![p][k] = save]
    OBVIOUS
  <2>5. WantToCache(p, x, val, pending, saved) /\ UNCHANGED <<elems, synced>> /\ k \in elems[p]
    BY <1>3, <2>1, <2>2, <2>3, <2>4 DEF SetValue
  <2>6. x \in Packet /\ x.changed
    BY <2>1, PacketTypes DEF Packet
  <2>7. \A j \in Key : (Has(x, j) <=> j = k) /\ (Changes(x, j) <=> j = k)
    BY <2>1, ConstAssumption DEF Has, Changes, Single
  <2>8. x.vals[k] = v
    BY <2>1 DEF Single
  <2>9. /\ val \in [Page -> [Key -> Value \cup {Invalid}]]
        /\ pending \in [Page -> [Key -> Nat]]
        /\ saved \in [Page -> [Key -> BOOLEAN]]
    BY <1>2, <2>2, <2>3, <2>4
  <2>10. \A q \in Page, j \in Key :
            /\ val[q][j] = IF q = p /\ Changes(x, j) THEN x.vals[j] ELSE pageVal[q][j]
            /\ pending[q][j] = pagePending[q][j] + (IF q = p /\ Changes(x, j) THEN 1 ELSE 0)
    BY <1>2, <2>2, <2>3, <2>7, <2>8
  <2>11. Sends(p, x, val, pending, saved)
    BY <2>5, <2>6, <2>7, <2>9, <2>10 DEF Sends
  <2> QED
    BY <2>11, Zenon
<1>4. ASSUME NEW k \in Key, SaveUnchanged(p, k)
      PROVE  \E x, val, pending, saved : Sends(p, x, val, pending, saved)
  <2>1. PICK x : x = [vals |-> Single(k, pageVal[p][k]), saved |-> TRUE, changed |-> FALSE]
    OBVIOUS
  <2>2. PICK saved : saved = [pageSaved EXCEPT ![p][k] = TRUE]
    OBVIOUS
  <2>3. /\ WantToCache(p, x, pageVal, pagePending, saved) /\ UNCHANGED <<elems, synced>>
        /\ k \in elems[p] /\ SameStamp /\ pageVal[p][k] \in Value
    BY <1>4, <2>1, <2>2, ConstAssumption DEF SaveUnchanged
  <2>4. x \in Packet
    BY <2>1, <2>3, PacketTypes DEF Packet
  <2>5. \A j \in Key : (Has(x, j) => j = k) /\ ~Changes(x, j)
    BY <2>1 DEF Has, Changes, Single
  <2>6. saved \in [Page -> [Key -> BOOLEAN]]
    BY <1>2, <2>2
  <2>7. \A q \in Page, j \in Key :
           /\ pageVal[q][j] = IF q = p /\ Changes(x, j) THEN x.vals[j] ELSE pageVal[q][j]
           /\ pagePending[q][j] = pagePending[q][j] + (IF q = p /\ Changes(x, j) THEN 1 ELSE 0)
    BY <1>2, <2>5
  <2>8. Sends(p, x, pageVal, pagePending, saved)
    BY <1>2, <2>3, <2>4, <2>5, <2>6, <2>7 DEF Sends
  <2> QED
    BY <2>8
<1>5. ASSUME EndBatch(p)
      PROVE  (\E x, val, pending, saved : Sends(p, x, val, pending, saved)) \/ Unnoticed
  <2>1. PICK x : x = [vals |-> batched[p], saved |-> FALSE, changed |-> TRUE]
    OBVIOUS
  <2>2. PICK val : val = [pageVal EXCEPT ![p] = Overlay(x, @)]
    OBVIOUS
  <2>3. PICK pending : pending = CountBatch(p, x)
    OBVIOUS
  <2>4. PICK saved : saved = [pageSaved EXCEPT ![p] = [k \in Key |-> IF Has(x, k) THEN FALSE ELSE @[k]]]
    OBVIOUS
  <2>5. CASE batchMode[p] = 1 /\ ~IsEmpty(x)
    <3>1. WantToCache(p, x, val, pending, saved) /\ UNCHANGED <<elems, synced>>
      BY <1>5, <2>1, <2>2, <2>3, <2>4, <2>5 DEF EndBatch
    <3>2. x \in Packet /\ x.changed
      BY <1>2, <2>1 DEF Packet
    <3>3. \A k \in Key : (Has(x, k) => k \in elems[p]) /\ (Changes(x, k) <=> Has(x, k))
      BY <1>1, <2>1 DEF OwnKeys, Has, Changes
    <3>4. val \in [Page -> [Key -> Value \cup {Invalid}]]
      BY <1>2, <2>2, <3>2, PacketTypes
    <3>5. pending \in [Page -> [Key -> Nat]] /\ saved \in [Page -> [Key -> BOOLEAN]]
      <4>1. pending \in [Page -> [Key -> Nat]]
        BY <1>2, <2>3 DEF CountBatch
      <4>2. [k \in Key |-> IF Has(x, k) THEN FALSE ELSE pageSaved[p][k]] \in [Key -> BOOLEAN]
        BY <1>2
      <4>3. saved \in [Page -> [Key -> BOOLEAN]]
        BY <1>2, <2>4, <4>2
      <4> QED
        BY <4>1, <4>3
    <3>6. \A q \in Page, k \in Key :
             val[q][k] = IF q = p /\ Changes(x, k) THEN x.vals[k] ELSE pageVal[q][k]
      BY <1>2, <2>2, <3>3 DEF Overlay
    <3>7. \A q \in Page, k \in Key :
             pending[q][k] = pagePending[q][k] + (IF q = p /\ Changes(x, k) THEN 1 ELSE 0)
      BY <1>2, <2>3, <3>3 DEF CountBatch
    <3> QED
      BY <3>1, <3>2, <3>3, <3>4, <3>5, <3>6, <3>7 DEF Sends
  <2>6. CASE ~(batchMode[p] = 1 /\ ~IsEmpty(x))
    BY <1>5, <2>1, <2>6 DEF EndBatch, Unnoticed, pageQueues
  <2> QED
    BY <2>5, <2>6
<1>6. ASSUME BeginBatch(p) \/ AbandonBatch(p) \/ (\E k \in Key, v \in Value : SetBatched(p, k, v))
      PROVE  Unnoticed
  BY <1>6 DEF BeginBatch, AbandonBatch, SetBatched, Unnoticed, pageVars, pageQueues, hubVars
<1> QED
  BY <1>3, <1>4, <1>5, <1>6 DEF Request


\* A foreign packet reaches the cache of c.
LEMMA RatifyKeepsViews ==
    ASSUME PendingInv, PagesInv, NEW c \in Proc, NEW x \in Packet, RatifyRemote(c, x),
           UNCHANGED <<elems, toCache>>
    PROVE  PagesInv'
<1>1. TypeOK /\ DirectQueuesEmpty /\ PagePendingExact
  BY DEF PendingInv
<1> SUFFICES ASSUME NEW q \in Page, NEW k \in Key PROVE ViewOf(q, k)'
  BY DEF PagesInv
<1>2. ViewOf(q, k)
  BY DEF PagesInv
<1>3. PICK r \in Packet : r = Ratified(c, x)
  BY PacketTypes
<1>4. CASE CacheStep(c, r, NoPage, pageVal, pagePending)
  <2>1. NoPage # q /\ NoPage \in Page \cup {NoPage}
    BY ConstAssumption
  <2> QED
    BY <1>1, <1>2, <1>4, <2>1, ForeignStep
<1>5. CASE IdleStep(pageVal)
  BY <1>2, <1>5, SameView DEF IdleStep
<1> QED
  BY <1>1, <1>3, <1>4, <1>5, RatifyIsStep

\* An element is created from the value of the cache.
LEMMA CreateKeepsViews ==
    ASSUME PendingInv, PagesInv, NEW p \in Page, NEW k \in Key, CreateElement(p, k)
    PROVE  PagesInv'
<1>1. TypeOK /\ OwnKeys /\ PagePendingExact
  BY DEF PendingInv
<1>2. /\ elems \in [Page -> SUBSET Key] /\ pageVal \in [Page -> [Key -> Value \cup {Invalid}]]
      /\ elems' = [elems EXCEPT ![p] = @ \cup {k}]
      /\ UNCHANGED <<toCache, fromCache, cacheVal>>
      /\ k \notin elems[p]
  BY <1>1 DEF CreateElement, TypeOK, pageQueues, cacheVars
<1>3. /\ pageVal' = [pageVal EXCEPT ![p][k] =
            IF cacheVal[ProcOf[p]][k] \in Accepts[p][k] THEN cacheVal[ProcOf[p]][k] ELSE Invalid]
  BY DEF CreateElement
<1> SUFFICES ASSUME NEW q \in Page, NEW j \in Key PROVE ViewOf(q, j)'
  BY DEF PagesInv
<1>4. ViewOf(q, j)
  BY DEF PagesInv
<1>5. CASE q # p
  BY <1>2, <1>3, <1>4, <1>5, SameView
<1>6. CASE q = p /\ j # k
  <2>1. (j \in elems'[q] <=> j \in elems[q]) /\ pageVal'[q][j] = pageVal[q][j]
    BY <1>2, <1>3, <1>6
  <2> QED
    BY <1>2, <1>4, <2>1 DEF ViewOf, PageView
<1>7. CASE q = p /\ j = k
  <2>1. NoneIn(toCache[p], PktOf(k)) /\ NoneIn(fromCache[p], MsgBy(p, k))
    <3>1. pagePending[p][k] = 0
      BY <1>1, <1>2 DEF OwnKeys, PagePendingExact
    <3> QED
      BY <1>1, <3>1, NonePending
  <2>2. cacheVal[ProcOf[p]][k] \in Accepts[p][k] => pageVal'[p][k] = cacheVal[ProcOf[p]][k]
    BY <1>2, <1>3
  <2>3. LastIn(fromCache[p], MsgOf(k), MsgWith(k, cacheVal[ProcOf[p]][k]))
    BY <1>4, <1>7 DEF ViewOf, PageView
  <2>4. LastIn(toCache[p], PktOf(k), PktWith(k, pageVal'[p][k]))
    BY <2>1, NoneLast
  <2>5. LastIn(fromCache[p], MsgBy(p, k), MsgWith(k, pageVal'[p][k]))
    BY <2>1, NoneLast
  <2> QED
    BY <1>2, <1>7, <2>2, <2>3, <2>4, <2>5 DEF ViewOf, PageView
<1> QED
  BY <1>5, <1>6, <1>7

\* The cache takes a packet of page p.
LEMMA CacheTakesKeepsViews ==
    ASSUME PendingInv, PagesInv, NEW p \in Page, CacheTakes(p)
    PROVE  PagesInv'
<1>1. TypeOK /\ DirectQueuesEmpty /\ PagePendingExact
  BY DEF PendingInv
<1>2. /\ toCache \in [Page -> Seq(Packet)] /\ toCache[p] # <<>>
      /\ toCache' = [toCache EXCEPT ![p] = Tail(@)] /\ elems' = elems
  BY <1>1 DEF TypeOK, CacheTakes
<1>3. PICK x \in Packet : x = Head(toCache[p])
  BY <1>2
<1>4. ChangeValues(ProcOf[p], x, p, pageVal, pagePending, pageSaved)
  BY <1>3 DEF CacheTakes
<1>5. p \in Threaded /\ ProcOf[p] \in Proc /\ p \in Page \cup {NoPage}
  BY <1>1, <1>2, ConstAssumption DEF DirectQueuesEmpty
<1> SUFFICES ASSUME NEW q \in Page, NEW k \in Key PROVE ViewOf(q, k)'
  BY DEF PagesInv
<1>6. ViewOf(q, k)
  BY DEF PagesInv
<1>7. CASE x.changed
  <2>1. CacheStep(ProcOf[p], x, p, pageVal, pagePending)
    BY <1>4, <1>7, ChangeIsStep
  <2>2. CASE q = p
    <3>1. toCache'[p] = Tail(toCache[p])
      BY <1>2
    <3> QED
      BY <1>1, <1>2, <1>3, <1>5, <1>6, <1>7, <2>1, <2>2, <3>1, OwnThreadStep
  <2>3. CASE q # p
    <3>1. toCache'[q] = toCache[q]
      BY <1>2, <2>3
    <3> QED
      BY <1>1, <1>2, <1>5, <1>6, <2>1, <2>3, <3>1, ForeignStep
  <2> QED
    BY <2>2, <2>3
<1>8. CASE ~x.changed
  <2>1. IdleStep(pageVal)
    BY <1>4, <1>8, ChangeIsStep
  <2>2. CASE q = p
    <3>1. PICK to \in Seq(Packet) : to = toCache[p]
      BY <1>2
    <3>2. PICK from \in Seq(CacheMsg) : from = fromCache[p]
      BY <1>1 DEF TypeOK
    <3>3. PageView(p, k, to, from, pageVal[p][k], cacheVal[ProcOf[p]][k], elems[p])
      BY <1>6, <2>2, <3>1, <3>2 DEF ViewOf
    <3>4. ~Changes(x, k) /\ to # <<>> /\ x = Head(to)
      BY <1>2, <1>3, <1>8, <3>1 DEF Changes
    <3>5. PageView(p, k, Tail(to), from, pageVal[p][k], cacheVal[ProcOf[p]][k], elems[p])
      BY <3>3, <3>4, ViewOtherPacket
    <3>6. toCache'[p] = Tail(to)
      BY <1>2, <3>1
    <3> QED
      BY <1>2, <2>1, <2>2, <3>2, <3>5, <3>6 DEF ViewOf, IdleStep
  <2>3. CASE q # p
    <3>1. toCache'[q] = toCache[q]
      BY <1>2, <2>3
    <3> QED
      BY <1>2, <1>6, <2>1, <3>1, SameView DEF IdleStep
  <2> QED
    BY <2>2, <2>3
<1> QED
  BY <1>7, <1>8

\* Page p takes a message of its cache.
LEMMA PageTakesKeepsViews ==
    ASSUME PendingInv, PagesInv, NEW p \in Page, PageTakes(p)
    PROVE  PagesInv'
<1>1. TypeOK /\ PagePendingExact
  BY DEF PendingInv
<1>2. /\ fromCache \in [Page -> Seq(CacheMsg)] /\ fromCache[p] # <<>>
      /\ fromCache' = [fromCache EXCEPT ![p] = Tail(@)]
      /\ UNCHANGED <<elems, toCache, cacheVal>>
  BY <1>1 DEF TypeOK, PageTakes, cacheVars
<1>3. PICK m \in CacheMsg : m = Head(fromCache[p])
  BY <1>2
<1>4. pageVal' = [q \in Page |-> [k \in Key |->
          IF q \in {p} /\ Ratifies(q, k, m, pagePending) THEN m.pkt.vals[k] ELSE pageVal[q][k]]]
  BY <1>3 DEF PageTakes, SetValuesFromCache
<1> SUFFICES ASSUME NEW q \in Page, NEW k \in Key PROVE ViewOf(q, k)'
  BY DEF PagesInv
<1>5. ViewOf(q, k)
  BY DEF PagesInv
<1>6. CASE q # p
  <2>1. fromCache'[q] = fromCache[q] /\ pageVal'[q][k] = pageVal[q][k]
    BY <1>2, <1>4, <1>6
  <2> QED
    BY <1>2, <1>5, <2>1, SameView
<1>7. CASE q = p
  <2>1. PICK to \in Seq(Packet) : to = toCache[p]
    BY <1>1 DEF TypeOK
  <2>2. PICK from \in Seq(CacheMsg) : from = fromCache[p]
    BY <1>2
  <2>3. PageView(p, k, to, from, pageVal[p][k], cacheVal[ProcOf[p]][k], elems[p])
    BY <1>5, <1>7, <2>1, <2>2 DEF ViewOf
  <2>4. from # <<>> /\ m = Head(from) /\ fromCache'[p] = Tail(from)
    BY <1>2, <1>3, <2>2
  <2>5. pageVal'[p][k] = IF Ratifies(p, k, m, pagePending) THEN m.pkt.vals[k] ELSE pageVal[p][k]
    BY <1>4
  <2>6. pagePending[p][k] = 0 <=> NoneIn(to, PktOf(k)) /\ NoneIn(from, MsgBy(p, k))
    BY <1>1, <2>1, <2>2, NonePending
  <2>7. SUFFICES PageView(p, k, to, Tail(from), pageVal'[p][k], cacheVal[ProcOf[p]][k], elems[p])
    BY <1>2, <1>7, <2>1, <2>4 DEF ViewOf
  <2>8. CASE ~Has(m.pkt, k)
    <3>1. pageVal'[p][k] = pageVal[p][k]
      BY <2>5, <2>8 DEF Ratifies
    <3> QED
      BY <2>3, <2>4, <2>8, <3>1, ViewOtherMessage
  <2>9. CASE Has(m.pkt, k) /\ m.by = p
    <3>1. pageVal'[p][k] = pageVal[p][k]
      BY <2>5, <2>9 DEF Ratifies
    <3> QED
      BY <2>3, <2>4, <2>9, <3>1, ViewEcho
  <2>10. CASE Has(m.pkt, k) /\ m.by # p /\ pagePending[p][k] = 0
    <3>1. k \in elems[p] /\ m.pkt.vals[k] \in Accepts[p][k] => pageVal'[p][k] = m.pkt.vals[k]
      BY <2>5, <2>10 DEF Ratifies
    <3> QED
      BY <2>3, <2>4, <2>6, <2>10, <3>1, ViewRatify
  <2>11. CASE Has(m.pkt, k) /\ m.by # p /\ pagePending[p][k] # 0
    <3>1. pageVal'[p][k] = pageVal[p][k]
      BY <2>5, <2>11 DEF Ratifies
    <3> QED
      BY <2>3, <2>4, <2>6, <2>11, <3>1, ViewPending
  <2> QED
    BY <2>8, <2>9, <2>10, <2>11
<1> QED
  BY <1>6, <1>7

\* Every step keeps the views of the pages.
LEMMA NextPages == PendingInv /\ PagesInv /\ [Next]_vars => PagesInv'
<1> SUFFICES ASSUME PendingInv, PagesInv, [Next]_vars PROVE PagesInv'
  OBVIOUS
<1>1. TypeOK
  BY DEF PendingInv
<1>2. ASSUME UNCHANGED <<elems, toCache, fromCache, pageVal, cacheVal>> PROVE PagesInv'
  BY <1>2 DEF PagesInv, ViewOf
<1>3. ASSUME NEW p \in Page, Request(p) PROVE PagesInv'
  <2>1. CASE \E x, val, pending, saved : Sends(p, x, val, pending, saved)
    <3>1. PICK x, val, pending, saved : Sends(p, x, val, pending, saved)
      BY <2>1
    <3>2. \A q \in Page \ {p}, k \in Key : pending[q][k] = pagePending[q][k]
      BY <1>1, <3>1 DEF Sends, TypeOK
    <3> QED
      BY <3>1, <3>2, WantKeepsPages DEF Sends
  <2>2. CASE Unnoticed
    BY <1>2, <2>2 DEF Unnoticed, cacheVars
  <2> QED
    BY <1>3, <2>1, <2>2, RequestShape, CreateKeepsViews
<1>4. ASSUME NEW c \in Proc, HubTakes(c) PROVE PagesInv'
  <2>1. PICK x \in Packet : x = Head(toHub[c])
    BY <1>1, <1>4 DEF TypeOK, HubTakes
  <2>2. RatifyRemote(Core, x) /\ UNCHANGED <<elems, toCache>> /\ Core \in Proc
    BY <1>4, <2>1, ConstAssumption DEF HubTakes
  <2> QED
    BY <2>2, RatifyKeepsViews
<1>5. ASSUME NEW c \in Proc, ProxyTakes(c) PROVE PagesInv'
  <2>1. PICK m \in HubMsg : m = Head(fromHub[c])
    BY <1>1, <1>5 DEF TypeOK, ProxyTakes
  <2>2. CASE m.origin = c
    BY <1>2, <1>5, <2>1, <2>2 DEF ProxyTakes
  <2>3. CASE m.origin # c
    <3>1. PICK x \in Packet : x = m.pkt
      BY <2>1 DEF HubMsg
    <3>2. RatifyRemote(c, x) /\ UNCHANGED <<elems, toCache>>
      BY <1>5, <2>1, <2>3, <3>1 DEF ProxyTakes
    <3> QED
      BY <3>2, RatifyKeepsViews
  <2> QED
    BY <2>2, <2>3
<1>6. ASSUME NEW c \in Proc, SynchronizeLocalSettings(c) PROVE PagesInv'
  <2>1. PICK x : x = [vals |-> [k \in Key |->
                         IF cacheVal[Core][k] = Invalid THEN Absent ELSE cacheVal[Core][k]],
                      saved |-> FALSE, changed |-> TRUE]
    OBVIOUS
  <2>2. x \in Packet
    <3>1. cacheVal[Core] \in [Key -> Value \cup {Invalid}]
      BY <1>1, ConstAssumption DEF TypeOK
    <3> QED
      BY <2>1, <3>1 DEF Packet
  <2>3. RatifyRemote(c, x) /\ UNCHANGED <<elems, toCache>>
    BY <1>6, <2>1 DEF SynchronizeLocalSettings
  <2> QED
    BY <2>2, <2>3, RatifyKeepsViews
<1>7. ASSUME NEW ks \in SUBSET Key, SaveToStore(ks) PROVE PagesInv'
  BY <1>2, <1>7 DEF SaveToStore, pageVars, pageQueues
<1>8. ASSUME LoadFromStore PROVE PagesInv'
  <2>1. PICK x : x = [vals |-> [k \in Key |->
                         IF disk[k] \in {Invalid, cacheVal[Core][k]} THEN Absent ELSE disk[k]],
                      saved |-> TRUE, changed |-> TRUE]
    OBVIOUS
  <2>2. x \in Packet /\ x.changed
    BY <1>1, <2>1 DEF Packet, TypeOK
  <2>3. /\ ChangeValues(Core, x, NoPage, pageVal, pagePending, pageSaved)
        /\ UNCHANGED <<elems, toCache>>
    BY <1>8, <2>1 DEF LoadFromStore
  <2>4. CacheStep(Core, x, NoPage, pageVal, pagePending)
    BY <2>2, <2>3, ChangeIsStep
  <2>5. ASSUME NEW q \in Page, NEW k \in Key PROVE ViewOf(q, k)'
    <3>1. NoPage # q /\ NoPage \in Page \cup {NoPage} /\ Core \in Proc
      BY ConstAssumption
    <3>2. ViewOf(q, k) /\ DirectQueuesEmpty /\ PagePendingExact
      BY DEF PagesInv, PendingInv
    <3> QED
      BY <1>1, <2>2, <2>3, <2>4, <3>1, <3>2, ForeignStep
  <2> QED
    BY <2>5 DEF PagesInv
<1>9. CASE UNCHANGED vars
  BY <1>2, <1>9 DEF vars, pageVars, pageQueues, cacheVars
<1> QED
  BY <1>3, <1>4, <1>5, <1>6, <1>7, <1>8, <1>9, CacheTakesKeepsViews, PageTakesKeepsViews
     DEF Next, Deliver

\* In the initial state the queues are empty and no page has an element.
LEMMA InitPages == Init => PagesInv
<1> SUFFICES ASSUME Init, NEW p \in Page, NEW k \in Key PROVE ViewOf(p, k)
  BY DEF PagesInv
<1>1. toCache[p] = <<>> /\ fromCache[p] = <<>> /\ elems[p] = {}
  BY DEF Init
<1>2. PageView(p, k, <<>>, <<>>, pageVal[p][k], cacheVal[ProcOf[p]][k], {})
  BY ViewDirect
<1> QED
  BY <1>1, <1>2 DEF ViewOf

\* For any number of processes, pages and keys and whatever the validators
\* accept, a page and its cache agree on a key once nothing with it is under way
\* between them: ratifying foreign changes only while no own change is pending
\* is enough to keep the two consistent.
THEOREM PagesConsistent == Spec => []PagesAgree
<1>1. PendingInv /\ PagesInv => PagesAgree
  <2> SUFFICES ASSUME PendingInv, PagesInv, NEW p \in Page, NEW k \in elems[p],
                      PageSettled(p, k), cacheVal[ProcOf[p]][k] \in Accepts[p][k]
               PROVE  pageVal[p][k] = cacheVal[ProcOf[p]][k]
    BY DEF PagesAgree
  <2>1. k \in Key
    BY DEF PendingInv, TypeOK
  <2>2. ViewOf(p, k)
    BY <2>1 DEF PagesInv
  <2>3. NoneIn(toCache[p], PktOf(k)) /\ NoneIn(fromCache[p], MsgOf(k))
    BY DEF PageSettled, NoneIn, PktOf, MsgOf
  <2> QED
    BY <2>2, <2>3 DEF ViewOf, PageView
<1> QED
  BY <1>1, InitPending, NextPending, InitPages, NextPages, PTL DEF Spec


-----------------------------------------------------------------------------
(* Processes and the core: what the messages between them say *)

\* Signals of the core about k, those that relay a change of c, and those that
\* carry v.
SigOf(k) == {m \in HubMsg : Changes(m.pkt, k)}
SigFrom(c, k) == {m \in HubMsg : Changes(m.pkt, k) /\ m.origin = c}
SigWith(k, v) == {m \in HubMsg : m.pkt.vals[k] = v}

\* What holds of key k between process c and the core: to and from are the messages
\* between them, cv and hv the values of their caches, sy the processes that
\* have loaded the settings. The first four parts are those of PageView; the last
\* one says that a value of c is never one the core does not know of.
ProcView(c, k, to, from, cv, hv, sy) ==
    /\ LastIn(from, SigOf(k), SigWith(k, hv))
    /\ LastIn(to, PktOf(k), PktWith(k, cv))
    /\ NoneIn(to, PktOf(k)) => LastIn(from, SigFrom(c, k), SigWith(k, cv))
    /\ c \in sy /\ NoneIn(to, PktOf(k)) /\ NoneIn(from, SigOf(k)) => cv = hv
    /\ hv = Invalid => NoneIn(from, SigOf(k)) /\ (NoneIn(to, PktOf(k)) => cv = Invalid)

\* The view that process c has of key k.
ProcOfView(c, k) ==
    ProcView(c, k, toHub[c], fromHub[c], cacheVal[c][k], cacheVal[Core][k], synced)

ProcsInv == \A c \in Proc \ {Core}, k \in Key : ProcOfView(c, k)

\* The value for a key that a packet has is not the invalid one.
LEMMA PacketValue ==
    ASSUME NEW x \in Packet, NEW k \in Key, Has(x, k)
    PROVE  x.vals[k] \in Value /\ x.vals[k] # Invalid
BY ConstAssumption DEF Packet, Has

\* Process c sends a change of k.
LEMMA ProcSend ==
    ASSUME NEW c, NEW k, NEW to \in Seq(Packet), NEW from \in Seq(HubMsg), NEW cv, NEW hv, NEW sy,
           ProcView(c, k, to, from, cv, hv, sy),
           NEW x \in Packet, Changes(x, k), NEW cv2, cv2 = x.vals[k]
    PROVE  ProcView(c, k, Append(to, x), from, cv2, hv, sy)
<1>1. x \in PktOf(k) /\ x \in PktWith(k, cv2)
  BY DEF PktOf, PktWith
<1>2. ~NoneIn(Append(to, x), PktOf(k))
  BY <1>1, NoneAppended
<1>3. LastIn(Append(to, x), PktOf(k), PktWith(k, cv2))
  BY <1>1, LastNew
<1> QED
  BY <1>2, <1>3 DEF ProcView

\* A packet that does not change k is sent or executed.
LEMMA ProcOtherPacket ==
    ASSUME NEW c, NEW k, NEW to \in Seq(Packet), NEW from \in Seq(HubMsg), NEW cv, NEW hv, NEW sy,
           ProcView(c, k, to, from, cv, hv, sy),
           NEW x \in Packet, ~Changes(x, k), NEW to2,
           to2 = Append(to, x) \/ (to # <<>> /\ x = Head(to) /\ to2 = Tail(to))
    PROVE  ProcView(c, k, to2, from, cv, hv, sy)
<1>1. x \notin PktOf(k)
  BY DEF PktOf
<1>2. LastIn(to, PktOf(k), PktWith(k, cv))
  BY DEF ProcView
<1>3. CASE to2 = Append(to, x)
  <2>1. NoneIn(Append(to, x), PktOf(k)) <=> NoneIn(to, PktOf(k))
    BY <1>1, NoneAppended
  <2>2. LastIn(Append(to, x), PktOf(k), PktWith(k, cv))
    BY <1>1, <1>2, LastOld
  <2> QED
    BY <1>3, <2>1, <2>2 DEF ProcView
<1>4. CASE to # <<>> /\ x = Head(to) /\ to2 = Tail(to)
  <2>1. NoneIn(Tail(to), PktOf(k)) <=> NoneIn(to, PktOf(k))
    BY <1>1, <1>4, NoneTaken
  <2>2. LastIn(Tail(to), PktOf(k), PktWith(k, cv))
    BY <1>2, <1>4, LastStays
  <2> QED
    BY <1>4, <2>1, <2>2 DEF ProcView
<1> QED
  BY <1>3, <1>4

\* A signal that does not change k is emitted or received.
LEMMA ProcOtherSignal ==
    ASSUME NEW c, NEW k, NEW to \in Seq(Packet), NEW from \in Seq(HubMsg), NEW cv, NEW hv, NEW sy,
           ProcView(c, k, to, from, cv, hv, sy),
           NEW m \in HubMsg, ~Changes(m.pkt, k), NEW from2,
           from2 = Append(from, m) \/ (from # <<>> /\ m = Head(from) /\ from2 = Tail(from))
    PROVE  ProcView(c, k, to, from2, cv, hv, sy)
<1>1. m \notin SigOf(k) /\ m \notin SigFrom(c, k)
  BY DEF SigOf, SigFrom
<1>2. LastIn(from, SigOf(k), SigWith(k, hv))
  BY DEF ProcView
<1>3. CASE from2 = Append(from, m)
  <2>1. NoneIn(Append(from, m), SigOf(k)) <=> NoneIn(from, SigOf(k))
    BY <1>1, NoneAppended
  <2>2. LastIn(Append(from, m), SigOf(k), SigWith(k, hv))
    BY <1>1, <1>2, LastOld
  <2>3. LastIn(Append(from, m), SigFrom(c, k), SigWith(k, cv)) <=> LastIn(from, SigFrom(c, k), SigWith(k, cv))
    BY <1>1, LastOld
  <2> QED
    BY <1>3, <2>1, <2>2, <2>3 DEF ProcView
<1>4. CASE from # <<>> /\ m = Head(from) /\ from2 = Tail(from)
  <2>1. NoneIn(Tail(from), SigOf(k)) <=> NoneIn(from, SigOf(k))
    BY <1>1, <1>4, NoneTaken
  <2>2. LastIn(Tail(from), SigOf(k), SigWith(k, hv))
    BY <1>2, <1>4, LastStays
  <2>3. LastIn(from, SigFrom(c, k), SigWith(k, cv)) => LastIn(Tail(from), SigFrom(c, k), SigWith(k, cv))
    BY <1>4, LastStays
  <2> QED
    BY <1>4, <2>1, <2>2, <2>3 DEF ProcView
<1> QED
  BY <1>3, <1>4

\* The core executes a change of k by c, takes it over and relays it.
LEMMA ProcChange ==
    ASSUME NEW c, NEW k \in Key, NEW to \in Seq(Packet), NEW from \in Seq(HubMsg), NEW cv, NEW hv, NEW sy,
           ProcView(c, k, to, from, cv, hv, sy),
           to # <<>>, Changes(Head(to), k),
           NEW m \in HubMsg, m.pkt = Head(to), m.origin = c, NEW hv2, hv2 = m.pkt.vals[k]
    PROVE  ProcView(c, k, Tail(to), Append(from, m), cv, hv2, sy)
<1>1. Head(to) \in Packet
  OBVIOUS
<1>2. Head(to) \in PktOf(k) /\ m \in SigOf(k) /\ m \in SigFrom(c, k) /\ m \in SigWith(k, hv2)
  BY <1>1 DEF PktOf, SigOf, SigFrom, SigWith
<1>3. LastIn(to, PktOf(k), PktWith(k, cv))
  BY DEF ProcView
<1>4. ~NoneIn(Append(from, m), SigOf(k))
  BY <1>2, NoneAppended
<1>5. LastIn(Append(from, m), SigOf(k), SigWith(k, hv2))
  BY <1>2, LastNew
<1>6. LastIn(Tail(to), PktOf(k), PktWith(k, cv))
  BY <1>3, LastStays
<1>7. ASSUME NoneIn(Tail(to), PktOf(k)) PROVE LastIn(Append(from, m), SigFrom(c, k), SigWith(k, cv))
  <2>1. Head(to) \in PktWith(k, cv)
    BY <1>2, <1>3, <1>7, LastGone
  <2>2. m \in SigWith(k, cv)
    BY <2>1 DEF PktWith, SigWith
  <2> QED
    BY <1>2, <2>2, LastNew
<1>8. hv2 # Invalid
  BY <1>1, PacketValue DEF Changes
<1> QED
  BY <1>4, <1>5, <1>6, <1>7, <1>8 DEF ProcView

\* The core takes over and relays a change of k that c has not made.
LEMMA ProcForeign ==
    ASSUME NEW c, NEW k \in Key, NEW to \in Seq(Packet), NEW from \in Seq(HubMsg), NEW cv, NEW hv, NEW sy,
           ProcView(c, k, to, from, cv, hv, sy),
           NEW m \in HubMsg, Changes(m.pkt, k), m.origin # c, NEW hv2, hv2 = m.pkt.vals[k]
    PROVE  ProcView(c, k, to, Append(from, m), cv, hv2, sy)
<1>1. m \in SigOf(k) /\ m \notin SigFrom(c, k) /\ m \in SigWith(k, hv2) /\ m.pkt \in Packet
  BY DEF SigOf, SigFrom, SigWith, HubMsg
<1>2. ~NoneIn(Append(from, m), SigOf(k))
  BY <1>1, NoneAppended
<1>3. LastIn(Append(from, m), SigOf(k), SigWith(k, hv2))
  BY <1>1, LastNew
<1>4. LastIn(Append(from, m), SigFrom(c, k), SigWith(k, cv)) <=> LastIn(from, SigFrom(c, k), SigWith(k, cv))
  BY <1>1, LastOld
<1>5. hv2 # Invalid
  BY <1>1, PacketValue DEF Changes
<1> QED
  BY <1>2, <1>3, <1>4, <1>5 DEF ProcView

\* Process c receives its own change of k.
LEMMA ProcEcho ==
    ASSUME NEW c, NEW k, NEW to \in Seq(Packet), NEW from \in Seq(HubMsg), NEW cv, NEW hv, NEW sy,
           ProcView(c, k, to, from, cv, hv, sy),
           from # <<>>, Changes(Head(from).pkt, k), Head(from).origin = c
    PROVE  ProcView(c, k, to, Tail(from), cv, hv, sy)
<1>1. Head(from) \in HubMsg
  OBVIOUS
<1>2. Head(from) \in SigOf(k) /\ Head(from) \in SigFrom(c, k)
  BY <1>1 DEF SigOf, SigFrom
<1>3. LastIn(from, SigOf(k), SigWith(k, hv))
  BY DEF ProcView
<1>4. LastIn(Tail(from), SigOf(k), SigWith(k, hv))
  BY <1>3, LastStays
<1>5. LastIn(from, SigFrom(c, k), SigWith(k, cv)) => LastIn(Tail(from), SigFrom(c, k), SigWith(k, cv))
  BY LastStays
<1>6. ASSUME NoneIn(to, PktOf(k)), NoneIn(Tail(from), SigOf(k)) PROVE cv = hv
  <2>1. LastIn(from, SigFrom(c, k), SigWith(k, cv))
    BY <1>6 DEF ProcView
  <2>2. NoneIn(Tail(from), SigFrom(c, k))
    BY <1>6 DEF NoneIn, SigOf, SigFrom
  <2>3. Head(from) \in SigWith(k, hv)
    BY <1>2, <1>3, <1>6, LastGone
  <2>4. Head(from) \in SigWith(k, cv)
    BY <1>2, <2>1, <2>2, LastGone
  <2> QED
    BY <2>3, <2>4 DEF SigWith
<1>7. ~NoneIn(from, SigOf(k))
  BY <1>2, NoneTaken
<1> QED
  BY <1>4, <1>5, <1>6, <1>7 DEF ProcView

\* Process c receives a change of k by another while none of its own is under way.
LEMMA ProcRatify ==
    ASSUME NEW c, NEW k, NEW to \in Seq(Packet), NEW from \in Seq(HubMsg), NEW cv, NEW hv, NEW sy,
           ProcView(c, k, to, from, cv, hv, sy),
           from # <<>>, Changes(Head(from).pkt, k),
           NoneIn(to, PktOf(k)), NoneIn(from, SigFrom(c, k)),
           NEW cv2, cv2 = Head(from).pkt.vals[k]
    PROVE  ProcView(c, k, to, Tail(from), cv2, hv, sy)
<1>1. Head(from) \in HubMsg
  OBVIOUS
<1>2. Head(from) \in SigOf(k)
  BY <1>1 DEF SigOf
<1>3. LastIn(from, SigOf(k), SigWith(k, hv))
  BY DEF ProcView
<1>4. LastIn(Tail(from), SigOf(k), SigWith(k, hv))
  BY <1>3, LastStays
<1>5. LastIn(to, PktOf(k), PktWith(k, cv2))
  BY NoneLast
<1>6. NoneIn(Tail(from), SigFrom(c, k))
  BY NoneTaken
<1>7. LastIn(Tail(from), SigFrom(c, k), SigWith(k, cv2))
  BY <1>6, NoneLast
<1>8. ASSUME NoneIn(Tail(from), SigOf(k)) PROVE cv2 = hv
  <2>1. Head(from) \in SigWith(k, hv)
    BY <1>2, <1>3, <1>8, LastGone
  <2> QED
    BY <2>1 DEF SigWith
<1>9. ~NoneIn(from, SigOf(k))
  BY <1>2, NoneTaken
<1> QED
  BY <1>4, <1>5, <1>7, <1>8, <1>9 DEF ProcView

\* Process c receives a change of k by another and ignores it, having one of its own
\* under way.
LEMMA ProcPending ==
    ASSUME NEW c, NEW k, NEW to \in Seq(Packet), NEW from \in Seq(HubMsg), NEW cv, NEW hv, NEW sy,
           ProcView(c, k, to, from, cv, hv, sy),
           from # <<>>, Head(from).origin # c, Changes(Head(from).pkt, k),
           ~(NoneIn(to, PktOf(k)) /\ NoneIn(from, SigFrom(c, k)))
    PROVE  ProcView(c, k, to, Tail(from), cv, hv, sy)
<1>1. Head(from) \in HubMsg
  OBVIOUS
<1>2. Head(from) \notin SigFrom(c, k) /\ Head(from) \in SigOf(k)
  BY <1>1 DEF SigFrom, SigOf
<1>3. LastIn(from, SigOf(k), SigWith(k, hv))
  BY DEF ProcView
<1>4. LastIn(Tail(from), SigOf(k), SigWith(k, hv))
  BY <1>3, LastStays
<1>5. LastIn(from, SigFrom(c, k), SigWith(k, cv)) => LastIn(Tail(from), SigFrom(c, k), SigWith(k, cv))
  BY LastStays
<1>6. NoneIn(from, SigFrom(c, k)) <=> NoneIn(Tail(from), SigFrom(c, k))
  BY <1>2, NoneTaken
<1>7. NoneIn(Tail(from), SigOf(k)) => NoneIn(Tail(from), SigFrom(c, k))
  BY DEF NoneIn, SigOf, SigFrom
<1>8. ~NoneIn(from, SigOf(k))
  BY <1>2, NoneTaken
<1> QED
  BY <1>4, <1>5, <1>6, <1>7, <1>8 DEF ProcView

\* Process c, which has no calls under way, loads the settings of the core.
LEMMA ProcSync ==
    ASSUME NEW c, NEW k, NEW to \in Seq(Packet), NEW from \in Seq(HubMsg), NEW cv, NEW hv, NEW sy, NEW sy2,
           ProcView(c, k, to, from, cv, hv, sy), NoneIn(to, PktOf(k)), NEW cv2,
           cv2 = IF NoneIn(from, SigFrom(c, k)) /\ hv # Invalid THEN hv ELSE cv
    PROVE  ProcView(c, k, to, from, cv2, hv, sy2)
<1>1. CASE NoneIn(from, SigFrom(c, k))
  <2>1. cv2 = hv
    BY <1>1 DEF ProcView
  <2>2. LastIn(to, PktOf(k), PktWith(k, cv2))
    BY NoneLast
  <2>3. LastIn(from, SigFrom(c, k), SigWith(k, cv2))
    BY <1>1, NoneLast
  <2> QED
    BY <2>1, <2>2, <2>3 DEF ProcView
<1>2. CASE ~NoneIn(from, SigFrom(c, k))
  <2>1. ~NoneIn(from, SigOf(k))
    BY <1>2 DEF NoneIn, SigOf, SigFrom
  <2> QED
    BY <1>2, <2>1 DEF ProcView
<1> QED
  BY <1>1, <1>2

\* The counters are zero exactly when nothing is under way.
LEMMA NoneProcPending ==
    ASSUME TypeOK, CachePendingExact, NEW c \in Proc, NEW k \in Key
    PROVE  cachePending[c][k] = 0 <=> NoneIn(toHub[c], PktOf(k)) /\ NoneIn(fromHub[c], SigFrom(c, k))
<1>1. PICK to \in Seq(Packet) : to = toHub[c]
  BY DEF TypeOK
<1>2. PICK from \in Seq(HubMsg) : from = fromHub[c]
  BY DEF TypeOK
<1> DEFINE I == {i \in DOMAIN to : Changes(to[i], k)}
           J == {i \in DOMAIN from : from[i].origin = c /\ Changes(from[i].pkt, k)}
<1>3. cachePending[c][k] = Cardinality(I) + Cardinality(J)
  BY <1>1, <1>2 DEF CachePendingExact, NumChanges, NumProcEchoes
<1>4. DOMAIN to = 1 .. Len(to) /\ Len(to) \in Nat /\ DOMAIN from = 1 .. Len(from) /\ Len(from) \in Nat
  OBVIOUS
<1>5. /\ IsFiniteSet(I) /\ Cardinality(I) \in Nat
      /\ IsFiniteSet(J) /\ Cardinality(J) \in Nat
  BY <1>4, PositionsFinite
<1>6. NoneIn(to, PktOf(k)) <=> I = {}
  BY DEF NoneIn, PktOf
<1>7. NoneIn(from, SigFrom(c, k)) <=> J = {}
  BY DEF NoneIn, SigFrom
<1> HIDE DEF I, J
<1>8. (Cardinality(I) = 0 <=> I = {}) /\ (Cardinality(J) = 0 <=> J = {})
  BY <1>5, FS_EmptySet
<1> QED
  BY <1>1, <1>2, <1>3, <1>5, <1>6, <1>7, <1>8

\* The core has nothing pending.
LEMMA CoreNothingPending ==
    ASSUME TypeOK, DirectQueuesEmpty, CachePendingExact, NEW k \in Key
    PROVE  cachePending[Core][k] = 0
BY NoneProcPending, EmptyLast, ConstAssumption DEF DirectQueuesEmpty


\* Nothing between process c and the core changes.
LEMMA SameProcView ==
    ASSUME NEW c, NEW k, ProcOfView(c, k), synced' = synced,
           toHub'[c] = toHub[c], fromHub'[c] = fromHub[c],
           cacheVal'[c][k] = cacheVal[c][k], cacheVal'[Core][k] = cacheVal[Core][k]
    PROVE  ProcOfView(c, k)'
BY DEF ProcOfView

\* The cache of process d changes its values: the core relays them, any other
\* process sends them to the core.
LEMMA ChangeKeepsProcs ==
    ASSUME TypeOK, ProcsInv, NEW d \in Proc, NEW x \in Packet,
           NEW by, NEW val, NEW pending, NEW saved,
           ChangeValues(d, x, by, val, pending, saved), synced' = synced
    PROVE  ProcsInv'
<1> SUFFICES ASSUME NEW c \in Proc \ {Core}, NEW k \in Key PROVE ProcOfView(c, k)'
  BY DEF ProcsInv
<1>1. ProcOfView(c, k) /\ Core \in Proc
  BY ConstAssumption DEF ProcsInv
<1>2. PICK to \in Seq(Packet) : to = toHub[c]
  BY DEF TypeOK
<1>3. PICK from \in Seq(HubMsg) : from = fromHub[c]
  BY DEF TypeOK
<1>4. ProcView(c, k, to, from, cacheVal[c][k], cacheVal[Core][k], synced)
  BY <1>1, <1>2, <1>3 DEF ProcOfView
<1>5. \A e \in Proc :
         cacheVal'[e][k] = IF e = d /\ Changes(x, k) THEN x.vals[k] ELSE cacheVal[e][k]
  <2>1. cacheVal \in [Proc -> [Key -> Value \cup {Invalid}]]
    BY DEF TypeOK
  <2>2. CASE x.changed
    <3>1. cacheVal' = [cacheVal EXCEPT ![d] = Overlay(x, @)]
      BY <2>2 DEF ChangeValues
    <3> QED
      BY <2>1, <2>2, <3>1 DEF Overlay, Changes
  <2>3. CASE ~x.changed
    BY <2>3 DEF ChangeValues, Changes
  <2> QED
    BY <2>2, <2>3
<1>6. CASE d = Core
  <2>1. PICK m \in HubMsg : m = [pkt |-> x, origin |-> Core]
    BY <1>1 DEF HubMsg
  <2>2. m.pkt = x /\ m.origin = Core
    BY <2>1
  <2>3. toHub' = toHub /\ fromHub'[c] = Append(from, m)
    BY <1>3, <1>6, <2>1 DEF ChangeValues, Relay
  <2>4. cacheVal'[c][k] = cacheVal[c][k]
    BY <1>5, <1>6
  <2>5. ProcView(c, k, to, Append(from, m), cacheVal[c][k], cacheVal'[Core][k], synced)
    <3>1. CASE Changes(x, k)
      <4>1. cacheVal'[Core][k] = m.pkt.vals[k]
        BY <1>1, <1>5, <1>6, <2>2, <3>1
      <4> QED
        BY <1>4, <2>2, <3>1, <4>1, ProcForeign
    <3>2. CASE ~Changes(x, k)
      <4>1. cacheVal'[Core][k] = cacheVal[Core][k]
        BY <1>1, <1>5, <3>2
      <4> QED
        BY <1>4, <2>2, <3>2, <4>1, ProcOtherSignal
    <3> QED
      BY <3>1, <3>2
  <2> QED
    BY <1>2, <2>3, <2>4, <2>5 DEF ProcOfView
<1>7. CASE d # Core
  <2>1. /\ toHub' = [toHub EXCEPT ![d] = Append(@, x)] /\ fromHub' = fromHub
        /\ toHub \in [Proc -> Seq(Packet)]
    BY <1>7 DEF ChangeValues, TypeOK
  <2>2. cacheVal'[Core][k] = cacheVal[Core][k]
    BY <1>1, <1>5, <1>7
  <2>3. CASE c # d
    <3>1. toHub'[c] = toHub[c] /\ cacheVal'[c][k] = cacheVal[c][k]
      BY <1>5, <2>1, <2>3
    <3> QED
      BY <1>1, <2>1, <2>2, <3>1, SameProcView
  <2>4. CASE c = d
    <3>1. toHub'[c] = Append(to, x)
      BY <1>2, <2>1, <2>4
    <3>2. ProcView(c, k, Append(to, x), from, cacheVal'[c][k], cacheVal[Core][k], synced)
      <4>1. CASE Changes(x, k)
        <5>1. cacheVal'[c][k] = x.vals[k]
          BY <1>5, <2>4, <4>1
        <5> QED
          BY <1>4, <4>1, <5>1, ProcSend
      <4>2. CASE ~Changes(x, k)
        <5>1. cacheVal'[c][k] = cacheVal[c][k]
          BY <1>5, <4>2
        <5> QED
          BY <1>4, <4>2, <5>1, ProcOtherPacket
      <4> QED
        BY <4>1, <4>2
    <3> QED
      BY <1>3, <2>1, <2>2, <3>1, <3>2 DEF ProcOfView
  <2> QED
    BY <2>3, <2>4
<1> QED
  BY <1>6, <1>7

\* What changeValuesFromRemote does to the values of the caches.
LEMMA RatifyValues ==
    ASSUME TypeOK, NEW d \in Proc, NEW x \in Packet, RatifyRemote(d, x)
    PROVE  \A e \in Proc, k \in Key :
              cacheVal'[e][k] = IF e = d /\ Changes(x, k) /\ cachePending[d][k] = 0
                                THEN x.vals[k] ELSE cacheVal[e][k]
<1>1. cacheVal \in [Proc -> [Key -> Value \cup {Invalid}]]
  BY DEF TypeOK
<1>2. CASE x.changed
  <2>1. PICK r \in Packet : r = Ratified(d, x)
    BY PacketTypes
  <2>2. \A k \in Key : r.vals[k] = IF cachePending[d][k] = 0 THEN x.vals[k] ELSE Absent
    BY <2>1 DEF Ratified, Packet
  <2>3. cacheVal' = [cacheVal EXCEPT ![d] = Overlay(r, @)]
    BY <1>2, <2>1 DEF RatifyRemote
  <2>4. \A e \in Proc, k \in Key :
           cacheVal'[e][k] = IF e = d /\ r.vals[k] # Absent THEN r.vals[k] ELSE cacheVal[e][k]
    BY <1>1, <2>3 DEF Overlay, Has
  <2> QED
    BY <1>2, <2>2, <2>4 DEF Changes, Has
<1>3. CASE ~x.changed
  BY <1>3 DEF RatifyRemote, Changes
<1> QED
  BY <1>2, <1>3

\* The core executes a call of process d.
LEMMA HubTakesKeepsProcs ==
    ASSUME PendingInv, ProcsInv, NEW d \in Proc, HubTakes(d)
    PROVE  ProcsInv'
<1>1. TypeOK /\ DirectQueuesEmpty /\ CachePendingExact /\ Core \in Proc
  BY ConstAssumption DEF PendingInv
<1>2. /\ toHub \in [Proc -> Seq(Packet)] /\ toHub[d] # <<>> /\ d # Core
      /\ toHub' = [toHub EXCEPT ![d] = Tail(@)] /\ synced' = synced
  BY <1>1 DEF TypeOK, HubTakes, DirectQueuesEmpty
<1>3. PICK x \in Packet : x = Head(toHub[d])
  BY <1>2
<1>4. Relay(x, d) /\ RatifyRemote(Core, x)
  BY <1>3 DEF HubTakes
<1> SUFFICES ASSUME NEW c \in Proc \ {Core}, NEW k \in Key PROVE ProcOfView(c, k)'
  BY DEF ProcsInv
<1>5. ProcOfView(c, k)
  BY DEF ProcsInv
<1>6. PICK to \in Seq(Packet) : to = toHub[c]
  BY <1>2
<1>7. PICK from \in Seq(HubMsg) : from = fromHub[c]
  BY <1>1 DEF TypeOK
<1>8. ProcView(c, k, to, from, cacheVal[c][k], cacheVal[Core][k], synced)
  BY <1>5, <1>6, <1>7 DEF ProcOfView
<1>9. PICK m \in HubMsg : m = [pkt |-> x, origin |-> d]
  BY DEF HubMsg
<1>10. m.pkt = x /\ m.origin = d /\ fromHub'[c] = Append(from, m)
  BY <1>4, <1>7, <1>9 DEF Relay
<1>11. /\ cacheVal'[c][k] = cacheVal[c][k]
       /\ cacheVal'[Core][k] = IF Changes(x, k) THEN x.vals[k] ELSE cacheVal[Core][k]
  <2>1. cachePending[Core][k] = 0
    BY <1>1, CoreNothingPending
  <2> QED
    BY <1>1, <1>4, <2>1, RatifyValues
<1>12. CASE c = d
  <2>1. toHub'[c] = Tail(to) /\ to # <<>> /\ x = Head(to)
    BY <1>2, <1>3, <1>6, <1>12
  <2>2. PICK to2 \in Seq(Packet) : to2 = Tail(to)
    <3>1. Tail(to) \in Seq(Packet)
      BY <2>1
    <3> QED
      BY <3>1, Zenon
  <2>3. ProcView(c, k, to2, Append(from, m), cacheVal[c][k], cacheVal'[Core][k], synced)
    <3>1. CASE Changes(x, k)
      <4>1. cacheVal'[Core][k] = m.pkt.vals[k] /\ m.pkt = Head(to) /\ Changes(Head(to), k)
        BY <1>10, <1>11, <2>1, <3>1
      <4> QED
        BY <1>8, <1>10, <1>12, <2>1, <2>2, <4>1, ProcChange
    <3>2. CASE ~Changes(x, k)
      <4>1. ProcView(c, k, to2, from, cacheVal[c][k], cacheVal[Core][k], synced)
        BY <1>8, <2>1, <2>2, <3>2, ProcOtherPacket
      <4>2. ProcView(c, k, to2, Append(from, m), cacheVal[c][k], cacheVal[Core][k], synced)
        BY <1>10, <3>2, <4>1, ProcOtherSignal
      <4> QED
        BY <1>11, <3>2, <4>2
    <3> QED
      BY <3>1, <3>2
  <2> QED
    BY <1>2, <1>10, <1>11, <2>1, <2>2, <2>3 DEF ProcOfView
<1>13. CASE c # d
  <2>1. toHub'[c] = to
    BY <1>2, <1>6, <1>13
  <2>2. ProcView(c, k, to, Append(from, m), cacheVal[c][k], cacheVal'[Core][k], synced)
    <3>1. CASE Changes(x, k)
      <4>1. cacheVal'[Core][k] = m.pkt.vals[k] /\ Changes(m.pkt, k) /\ m.origin # c
        BY <1>10, <1>11, <1>13, <3>1
      <4> QED
        BY <1>8, <4>1, ProcForeign
    <3>2. CASE ~Changes(x, k)
      BY <1>8, <1>10, <1>11, <3>2, ProcOtherSignal
    <3> QED
      BY <3>1, <3>2
  <2> QED
    BY <1>2, <1>10, <1>11, <2>1, <2>2 DEF ProcOfView
<1> QED
  BY <1>12, <1>13

\* Process d receives a signal of the core.
LEMMA ProxyTakesKeepsProcs ==
    ASSUME PendingInv, ProcsInv, NEW d \in Proc, ProxyTakes(d)
    PROVE  ProcsInv'
<1>1. TypeOK /\ DirectQueuesEmpty /\ CachePendingExact /\ Core \in Proc
  BY ConstAssumption DEF PendingInv
<1>2. /\ fromHub \in [Proc -> Seq(HubMsg)] /\ fromHub[d] # <<>> /\ d # Core
      /\ fromHub' = [fromHub EXCEPT ![d] = Tail(@)] /\ synced' = synced /\ toHub' = toHub
  BY <1>1 DEF TypeOK, ProxyTakes, DirectQueuesEmpty
<1>3. PICK m \in HubMsg : m = Head(fromHub[d])
  BY <1>2
<1>4. m.pkt \in Packet
  BY <1>3 DEF HubMsg
<1>5. \A e \in Proc, k \in Key :
         cacheVal'[e][k] = IF e = d /\ m.origin # d /\ Changes(m.pkt, k) /\ cachePending[d][k] = 0
                           THEN m.pkt.vals[k] ELSE cacheVal[e][k]
  <2>1. CASE m.origin = d
    BY <1>3, <2>1 DEF ProxyTakes
  <2>2. CASE m.origin # d
    <3>1. PICK x \in Packet : x = m.pkt
      BY <1>4
    <3>2. RatifyRemote(d, x)
      BY <1>3, <2>2, <3>1 DEF ProxyTakes
    <3> QED
      BY <1>1, <2>2, <3>1, <3>2, RatifyValues
  <2> QED
    BY <2>1, <2>2
<1> SUFFICES ASSUME NEW c \in Proc \ {Core}, NEW k \in Key PROVE ProcOfView(c, k)'
  BY DEF ProcsInv
<1>6. ProcOfView(c, k)
  BY DEF ProcsInv
<1>7. cacheVal'[Core][k] = cacheVal[Core][k]
  BY <1>1, <1>2, <1>5
<1>8. CASE c # d
  BY <1>2, <1>5, <1>6, <1>7, <1>8, SameProcView
<1>9. CASE c = d
  <2>1. PICK to \in Seq(Packet) : to = toHub[c]
    BY <1>1 DEF TypeOK
  <2>2. PICK from \in Seq(HubMsg) : from = fromHub[c]
    BY <1>2
  <2>3. ProcView(c, k, to, from, cacheVal[c][k], cacheVal[Core][k], synced)
    BY <1>6, <2>1, <2>2 DEF ProcOfView
  <2>4. from # <<>> /\ m = Head(from) /\ fromHub'[c] = Tail(from)
    BY <1>2, <1>3, <1>9, <2>2
  <2>5. cachePending[c][k] = 0 <=> NoneIn(to, PktOf(k)) /\ NoneIn(from, SigFrom(c, k))
    BY <1>1, <2>1, <2>2, NoneProcPending
  <2>6. SUFFICES ProcView(c, k, to, Tail(from), cacheVal'[c][k], cacheVal[Core][k], synced)
    BY <1>2, <1>7, <2>1, <2>4 DEF ProcOfView
  <2>7. CASE ~Changes(m.pkt, k)
    <3>1. cacheVal'[c][k] = cacheVal[c][k]
      BY <1>5, <2>7
    <3> QED
      BY <2>3, <2>4, <2>7, <3>1, ProcOtherSignal
  <2>8. CASE Changes(m.pkt, k) /\ m.origin = c
    <3>1. cacheVal'[c][k] = cacheVal[c][k]
      BY <1>5, <1>9, <2>8
    <3> QED
      BY <2>3, <2>4, <2>8, <3>1, ProcEcho
  <2>9. CASE Changes(m.pkt, k) /\ m.origin # c /\ cachePending[c][k] = 0
    <3>1. cacheVal'[c][k] = m.pkt.vals[k]
      BY <1>5, <1>9, <2>9
    <3> QED
      BY <2>3, <2>4, <2>5, <2>9, <3>1, ProcRatify
  <2>10. CASE Changes(m.pkt, k) /\ m.origin # c /\ cachePending[c][k] # 0
    <3>1. cacheVal'[c][k] = cacheVal[c][k]
      BY <1>5, <1>9, <2>10
    <3> QED
      BY <2>3, <2>4, <2>5, <2>10, <3>1, ProcPending
  <2> QED
    BY <2>7, <2>8, <2>9, <2>10
<1> QED
  BY <1>8, <1>9

\* Process d loads the settings of the core.
LEMMA SynchronizeKeepsProcs ==
    ASSUME PendingInv, ProcsInv, NEW d \in Proc, SynchronizeLocalSettings(d)
    PROVE  ProcsInv'
<1>1. TypeOK /\ DirectQueuesEmpty /\ CachePendingExact /\ Core \in Proc
  BY ConstAssumption DEF PendingInv
<1>2. /\ d # Core /\ toHub[d] = <<>> /\ synced' = synced \cup {d}
      /\ UNCHANGED <<toHub, fromHub>>
  BY DEF SynchronizeLocalSettings
<1>3. PICK x : x = [vals |-> [k \in Key |->
                       IF cacheVal[Core][k] = Invalid THEN Absent ELSE cacheVal[Core][k]],
                    saved |-> FALSE, changed |-> TRUE]
  OBVIOUS
<1>4. cacheVal[Core] \in [Key -> Value \cup {Invalid}]
  BY <1>1 DEF TypeOK
<1>5. x \in Packet
  BY <1>3, <1>4 DEF Packet
<1>6. \A k \in Key : /\ Changes(x, k) <=> cacheVal[Core][k] # Invalid
                     /\ Changes(x, k) => x.vals[k] = cacheVal[Core][k]
  BY <1>3, <1>4, ConstAssumption DEF Changes, Has
<1>7. RatifyRemote(d, x)
  BY <1>3 DEF SynchronizeLocalSettings
<1>8. \A e \in Proc, k \in Key :
         cacheVal'[e][k] = IF e = d /\ Changes(x, k) /\ cachePending[d][k] = 0
                           THEN x.vals[k] ELSE cacheVal[e][k]
  BY <1>1, <1>5, <1>7, RatifyValues
<1> SUFFICES ASSUME NEW c \in Proc \ {Core}, NEW k \in Key PROVE ProcOfView(c, k)'
  BY DEF ProcsInv
<1>9. ProcOfView(c, k)
  BY DEF ProcsInv
<1>10. cacheVal'[Core][k] = cacheVal[Core][k]
  BY <1>1, <1>2, <1>8
<1>11. CASE c # d
  <2>1. cacheVal'[c][k] = cacheVal[c][k] /\ (c \in synced' <=> c \in synced)
    BY <1>2, <1>8, <1>11
  <2> QED
    BY <1>2, <1>9, <1>10, <2>1 DEF ProcOfView, ProcView
<1>12. CASE c = d
  <2>1. PICK to \in Seq(Packet) : to = toHub[c]
    BY <1>1 DEF TypeOK
  <2>2. PICK from \in Seq(HubMsg) : from = fromHub[c]
    BY <1>1 DEF TypeOK
  <2>3. ProcView(c, k, to, from, cacheVal[c][k], cacheVal[Core][k], synced)
    BY <1>9, <2>1, <2>2 DEF ProcOfView
  <2>4. NoneIn(to, PktOf(k))
    BY <1>2, <1>12, <2>1, EmptyLast
  <2>5. cachePending[c][k] = 0 <=> NoneIn(from, SigFrom(c, k))
    BY <1>1, <2>1, <2>2, <2>4, NoneProcPending
  <2>6. cacheVal'[c][k] = IF NoneIn(from, SigFrom(c, k)) /\ cacheVal[Core][k] # Invalid
                          THEN cacheVal[Core][k] ELSE cacheVal[c][k]
    BY <1>6, <1>8, <1>12, <2>5
  <2>7. ProcView(c, k, to, from, cacheVal'[c][k], cacheVal[Core][k], synced')
    BY <2>3, <2>4, <2>6, ProcSync
  <2> QED
    BY <1>2, <1>10, <2>1, <2>2, <2>7 DEF ProcOfView
<1> QED
  BY <1>11, <1>12

\* Every step keeps the views of the processes.
LEMMA NextProcs == PendingInv /\ ProcsInv /\ [Next]_vars => ProcsInv'
<1> SUFFICES ASSUME PendingInv, ProcsInv, [Next]_vars PROVE ProcsInv'
  OBVIOUS
<1>1. TypeOK /\ DirectQueuesEmpty
  BY DEF PendingInv
<1>2. ASSUME UNCHANGED <<toHub, fromHub, cacheVal, synced>> PROVE ProcsInv'
  BY <1>2 DEF ProcsInv, ProcOfView
<1>3. ASSUME NEW p \in Page, Request(p) PROVE ProcsInv'
  <2>1. CASE \E x, val, pending, saved : Sends(p, x, val, pending, saved)
    <3>1. PICK x, val, pending, saved : Sends(p, x, val, pending, saved)
      BY <2>1
    <3>2. x \in Packet /\ WantToCache(p, x, val, pending, saved) /\ synced' = synced
      BY <3>1 DEF Sends
    <3>3. CASE p \in Threaded
      BY <1>2, <3>2, <3>3 DEF WantToCache, cacheVars
    <3>4. CASE p \notin Threaded
      <4>1. ChangeValues(ProcOf[p], x, p, val, pending, saved) /\ ProcOf[p] \in Proc
        BY <3>2, <3>4, ConstAssumption DEF WantToCache
      <4> QED
        BY <1>1, <3>2, <4>1, ChangeKeepsProcs
    <3> QED
      BY <3>3, <3>4
  <2>2. CASE Unnoticed
    BY <1>2, <2>2 DEF Unnoticed, cacheVars
  <2>3. ASSUME NEW k \in Key, CreateElement(p, k) PROVE ProcsInv'
    BY <1>2, <2>3 DEF CreateElement, cacheVars, hubVars
  <2> QED
    BY <1>3, <2>1, <2>2, <2>3, RequestShape
<1>4. ASSUME NEW p \in Page, CacheTakes(p) PROVE ProcsInv'
  <2>1. PICK x \in Packet : x = Head(toCache[p])
    BY <1>1, <1>4 DEF TypeOK, CacheTakes
  <2>2. /\ ChangeValues(ProcOf[p], x, p, pageVal, pagePending, pageSaved)
        /\ ProcOf[p] \in Proc /\ synced' = synced
    BY <1>4, <2>1, ConstAssumption DEF CacheTakes
  <2> QED
    BY <1>1, <2>2, ChangeKeepsProcs
<1>5. ASSUME NEW p \in Page, PageTakes(p) PROVE ProcsInv'
  BY <1>2, <1>5 DEF PageTakes, cacheVars, hubVars
<1>6. ASSUME NEW ks \in SUBSET Key, SaveToStore(ks) PROVE ProcsInv'
  BY <1>2, <1>6 DEF SaveToStore, hubVars
<1>7. ASSUME LoadFromStore PROVE ProcsInv'
  <2>1. PICK x : x = [vals |-> [k \in Key |->
                         IF disk[k] \in {Invalid, cacheVal[Core][k]} THEN Absent ELSE disk[k]],
                      saved |-> TRUE, changed |-> TRUE]
    OBVIOUS
  <2>2. x \in Packet
    BY <1>1, <2>1 DEF Packet, TypeOK
  <2>3. /\ ChangeValues(Core, x, NoPage, pageVal, pagePending, pageSaved)
        /\ Core \in Proc /\ synced' = synced
    BY <1>7, <2>1, ConstAssumption DEF LoadFromStore
  <2> QED
    BY <1>1, <2>2, <2>3, ChangeKeepsProcs
<1>8. CASE UNCHANGED vars
  BY <1>2, <1>8 DEF vars, cacheVars, hubVars
<1> QED
  BY <1>3, <1>4, <1>5, <1>6, <1>7, <1>8, HubTakesKeepsProcs, ProxyTakesKeepsProcs,
     SynchronizeKeepsProcs DEF Next, Deliver

\* Initially only the core has values.
LEMMA InitProcs == Init => ProcsInv
<1> SUFFICES ASSUME Init, NEW c \in Proc \ {Core}, NEW k \in Key PROVE ProcOfView(c, k)
  BY DEF ProcsInv
<1>1. toHub[c] = <<>> /\ fromHub[c] = <<>> /\ c \notin synced /\ cacheVal[c][k] = Invalid
  BY DEF Init
<1>2. /\ NoneIn(<<>>, SigOf(k))
      /\ LastIn(<<>>, SigOf(k), SigWith(k, cacheVal[Core][k]))
      /\ LastIn(<<>>, PktOf(k), PktWith(k, Invalid))
      /\ LastIn(<<>>, SigFrom(c, k), SigWith(k, Invalid))
  BY EmptyLast
<1> QED
  BY <1>1, <1>2 DEF ProcOfView, ProcView

\* For any number of processes and keys, the cache of a process that has loaded
\* the settings agrees with the core's on a key once nothing with it is under way
\* between them, although the answer of synchronizeLocalSettings overtakes the
\* signals of the core.
THEOREM CachesConsistent == Spec => []CachesAgree
<1>1. PendingInv /\ ProcsInv => CachesAgree
  <2> SUFFICES ASSUME PendingInv, ProcsInv, NEW c \in synced, NEW k \in Key, ProcSettled(c, k)
               PROVE  cacheVal[c][k] = cacheVal[Core][k]
    BY DEF CachesAgree
  <2>1. CASE c # Core
    <3>1. ProcOfView(c, k)
      BY <2>1 DEF ProcsInv, PendingInv, TypeOK
    <3>2. NoneIn(toHub[c], PktOf(k)) /\ NoneIn(fromHub[c], SigOf(k))
      BY DEF ProcSettled, NoneIn, PktOf, SigOf
    <3> QED
      BY <3>1, <3>2 DEF ProcOfView, ProcView
  <2> QED
    BY <2>1
<1> QED
  BY <1>1, InitPending, NextPending, InitProcs, NextProcs, PTL DEF Spec


-----------------------------------------------------------------------------
(* Own changes are kept *)

\* The two parts of OwnChangeKept for one element.
PageKept(p, k) ==
    pagePending[p][k] > 0 /\ pageVal'[p][k] # pageVal[p][k] => pagePending'[p][k] > pagePending[p][k]

CacheKept(c, k) ==
    cachePending[c][k] > 0 /\ cacheVal'[c][k] # cacheVal[c][k] => cachePending'[c][k] > cachePending[c][k]

\* A page of the main thread never has a change pending between two steps.
LEMMA MainNothingPending ==
    ASSUME PendingInv, NEW p \in Page, p \notin Threaded, NEW k \in Key
    PROVE  pagePending[p][k] = 0
BY NonePending, EmptyLast DEF PendingInv, DirectQueuesEmpty

\* A step of a cache does not touch the values of pages in other threads.
LEMMA StepKeptPages ==
    ASSUME PendingInv, NEW c, NEW x, NEW by, NEW val, NEW pending,
           CacheStep(c, x, by, val, pending) \/ IdleStep(val),
           NEW p \in Page, NEW k \in Key,
           p \in Threaded => val[p][k] = pageVal[p][k]
    PROVE  PageKept(p, k)
<1>1. CASE p \in Threaded
  BY <1>1 DEF PageKept, CacheStep, IdleStep, MainPages
<1>2. CASE p \notin Threaded
  BY <1>2, MainNothingPending DEF PageKept
<1> QED
  BY <1>1, <1>2

\* changeValues counts the changes of its own process.
LEMMA ChangeKeptCaches ==
    ASSUME PendingInv, NEW d \in Proc, NEW x \in Packet, NEW by, NEW val, NEW pending, NEW saved,
           ChangeValues(d, x, by, val, pending, saved), NEW c \in Proc, NEW k \in Key
    PROVE  CacheKept(c, k)
<1>1. /\ cacheVal \in [Proc -> [Key -> Value \cup {Invalid}]]
      /\ cachePending \in [Proc -> [Key -> Nat]]
  BY DEF PendingInv, TypeOK
<1>2. CASE c # d \/ ~Changes(x, k)
  <2>1. cacheVal'[c][k] = cacheVal[c][k]
    BY <1>1, <1>2 DEF ChangeValues, Overlay, Changes
  <2> QED
    BY <2>1 DEF CacheKept
<1>3. CASE c = d /\ Changes(x, k) /\ c # Core
  <2>1. cachePending' = [cachePending EXCEPT ![c] =
                            [j \in Key |-> IF Has(x, j) THEN @[j] + 1 ELSE @[j]]]
    BY <1>3 DEF ChangeValues, Changes
  <2>2. cachePending'[c][k] = cachePending[c][k] + 1
    BY <1>1, <1>3, <2>1 DEF Changes
  <2> QED
    BY <1>1, <2>2 DEF CacheKept
<1>4. CASE c = Core
  BY <1>4, CoreNothingPending DEF CacheKept, PendingInv
<1> QED
  BY <1>2, <1>3, <1>4

\* A foreign packet changes only elements without an own change.
LEMMA RatifyKept ==
    ASSUME PendingInv, NEW d \in Proc, NEW x \in Packet, RatifyRemote(d, x)
    PROVE  /\ \A p \in Page, k \in Key : PageKept(p, k)
           /\ \A c \in Proc, k \in Key : CacheKept(c, k)
<1>1. TypeOK
  BY DEF PendingInv
<1>2. ASSUME NEW c \in Proc, NEW k \in Key PROVE CacheKept(c, k)
  <2>1. cacheVal'[c][k] = IF c = d /\ Changes(x, k) /\ cachePending[d][k] = 0
                          THEN x.vals[k] ELSE cacheVal[c][k]
    BY <1>1, RatifyValues
  <2> QED
    BY <2>1 DEF CacheKept
<1>3. ASSUME NEW p \in Page, NEW k \in Key PROVE PageKept(p, k)
  <2>1. PICK r : r = Ratified(d, x)
    OBVIOUS
  <2>2. CacheStep(d, r, NoPage, pageVal, pagePending) \/ IdleStep(pageVal)
    BY <1>1, <2>1, RatifyIsStep
  <2> QED
    BY <2>2, StepKeptPages
<1> QED
  BY <1>2, <1>3

\* Every step keeps own changes.
LEMMA NextKept ==
    ASSUME PendingInv, [Next]_vars
    PROVE  /\ \A p \in Page, k \in Key : PageKept(p, k)
           /\ \A c \in Proc, k \in Key : CacheKept(c, k)
<1> DEFINE Kept == /\ \A p \in Page, k \in Key : PageKept(p, k)
                   /\ \A c \in Proc, k \in Key : CacheKept(c, k)
<1>1. TypeOK /\ Core \in Proc
  BY ConstAssumption DEF PendingInv
<1>2. ASSUME UNCHANGED <<pageVal, cacheVal>> PROVE Kept
  BY <1>2 DEF PageKept, CacheKept
<1>3. ASSUME NEW p \in Page, Request(p) PROVE Kept
  <2>1. CASE \E x, val, pending, saved : Sends(p, x, val, pending, saved)
    <3>1. PICK x, val, pending, saved : Sends(p, x, val, pending, saved)
      BY <2>1
    <3>2. x \in Packet /\ WantToCache(p, x, val, pending, saved)
      BY <3>1 DEF Sends
    <3>3. CASE p \in Threaded
      <4>1. pageVal' = val /\ pagePending' = pending /\ cacheVal' = cacheVal
        BY <3>2, <3>3 DEF WantToCache, cacheVars
      <4>2. ASSUME NEW q \in Page, NEW k \in Key PROVE PageKept(q, k)
        <5>1. /\ val[q][k] = IF q = p /\ Changes(x, k) THEN x.vals[k] ELSE pageVal[q][k]
              /\ pending[q][k] = pagePending[q][k] + (IF q = p /\ Changes(x, k) THEN 1 ELSE 0)
              /\ pagePending[q][k] \in Nat
          BY <1>1, <3>1 DEF Sends, TypeOK
        <5>2. CASE q = p /\ Changes(x, k)
          BY <4>1, <5>1, <5>2 DEF PageKept
        <5>3. CASE ~(q = p /\ Changes(x, k))
          BY <4>1, <5>1, <5>3 DEF PageKept
        <5> QED
          BY <5>2, <5>3
      <4>3. \A c \in Proc, k \in Key : CacheKept(c, k)
        BY <4>1 DEF CacheKept
      <4> QED
        BY <4>2, <4>3
    <3>4. CASE p \notin Threaded
      <4>1. ChangeValues(ProcOf[p], x, p, val, pending, saved) /\ ProcOf[p] \in Proc
        BY <3>2, <3>4, ConstAssumption DEF WantToCache
      <4>2. CacheStep(ProcOf[p], x, p, val, pending) \/ IdleStep(val)
        BY <3>2, <4>1, ChangeIsStep
      <4>3. ASSUME NEW q \in Page, NEW k \in Key PROVE PageKept(q, k)
        <5>1. q \in Threaded => val[q][k] = pageVal[q][k]
          BY <3>1, <3>4 DEF Sends
        <5> QED
          BY <4>2, <5>1, StepKeptPages
      <4>4. \A c \in Proc, k \in Key : CacheKept(c, k)
        BY <3>2, <4>1, ChangeKeptCaches
      <4> QED
        BY <4>3, <4>4
    <3> QED
      BY <3>3, <3>4
  <2>2. CASE Unnoticed
    BY <1>2, <2>2 DEF Unnoticed, cacheVars
  <2>3. ASSUME NEW k \in Key, CreateElement(p, k) PROVE Kept
    <3>1. /\ k \notin elems[p] /\ cacheVal' = cacheVal
          /\ \A q \in Page, j \in Key : ~(q = p /\ j = k) => pageVal'[q][j] = pageVal[q][j]
      BY <1>1, <2>3 DEF CreateElement, TypeOK, cacheVars
    <3>2. pagePending[p][k] = 0
      BY <3>1 DEF PendingInv, OwnKeys, PagePendingExact
    <3> QED
      BY <3>1, <3>2 DEF PageKept, CacheKept
  <2> HIDE DEF Kept
  <2> QED
    BY <1>3, <2>1, <2>2, <2>3, RequestShape
<1>4. ASSUME NEW p \in Page, CacheTakes(p) PROVE Kept
  <2>1. PICK x \in Packet : x = Head(toCache[p])
    BY <1>1, <1>4 DEF TypeOK, CacheTakes
  <2>2. ChangeValues(ProcOf[p], x, p, pageVal, pagePending, pageSaved) /\ ProcOf[p] \in Proc
    BY <1>4, <2>1, ConstAssumption DEF CacheTakes
  <2>3. CacheStep(ProcOf[p], x, p, pageVal, pagePending) \/ IdleStep(pageVal)
    BY <2>2, ChangeIsStep
  <2>4. \A q \in Page, k \in Key : PageKept(q, k)
    BY <2>3, StepKeptPages
  <2>5. \A c \in Proc, k \in Key : CacheKept(c, k)
    BY <2>2, ChangeKeptCaches
  <2> QED
    BY <2>4, <2>5
<1>5. ASSUME NEW p \in Page, PageTakes(p) PROVE Kept
  <2>1. cacheVal' = cacheVal
    BY <1>5 DEF PageTakes, cacheVars
  <2>2. \A q \in Page, k \in Key : pagePending[q][k] # 0 => pageVal'[q][k] = pageVal[q][k]
    BY <1>5 DEF PageTakes, SetValuesFromCache, Ratifies
  <2>3. \A q \in Page, k \in Key : PageKept(q, k)
    BY <2>2 DEF PageKept
  <2> QED
    BY <2>1, <2>3 DEF CacheKept
<1>6. ASSUME NEW c \in Proc, HubTakes(c) PROVE Kept
  <2>1. PICK x \in Packet : x = Head(toHub[c])
    BY <1>1, <1>6 DEF TypeOK, HubTakes
  <2>2. RatifyRemote(Core, x)
    BY <1>6, <2>1 DEF HubTakes
  <2> QED
    BY <1>1, <2>2, RatifyKept
<1>7. ASSUME NEW c \in Proc, ProxyTakes(c) PROVE Kept
  <2>1. PICK m \in HubMsg : m = Head(fromHub[c])
    BY <1>1, <1>7 DEF TypeOK, ProxyTakes
  <2>2. CASE m.origin = c
    BY <1>2, <1>7, <2>1, <2>2 DEF ProxyTakes
  <2>3. CASE m.origin # c
    <3>1. PICK x \in Packet : x = m.pkt
      BY <2>1 DEF HubMsg
    <3>2. RatifyRemote(c, x)
      BY <1>7, <2>1, <2>3, <3>1 DEF ProxyTakes
    <3> QED
      BY <3>2, RatifyKept
  <2> QED
    BY <2>2, <2>3
<1>8. ASSUME NEW c \in Proc, SynchronizeLocalSettings(c) PROVE Kept
  <2>1. PICK x : x = [vals |-> [k \in Key |->
                         IF cacheVal[Core][k] = Invalid THEN Absent ELSE cacheVal[Core][k]],
                      saved |-> FALSE, changed |-> TRUE]
    OBVIOUS
  <2>2. x \in Packet
    <3>1. cacheVal[Core] \in [Key -> Value \cup {Invalid}]
      BY <1>1 DEF TypeOK
    <3> QED
      BY <2>1, <3>1 DEF Packet
  <2>3. RatifyRemote(c, x)
    BY <1>8, <2>1 DEF SynchronizeLocalSettings
  <2> QED
    BY <2>2, <2>3, RatifyKept
<1>9. ASSUME NEW ks \in SUBSET Key, SaveToStore(ks) PROVE Kept
  BY <1>2, <1>9 DEF SaveToStore, pageVars
<1>10. ASSUME LoadFromStore PROVE Kept
  <2>1. PICK x : x = [vals |-> [k \in Key |->
                         IF disk[k] \in {Invalid, cacheVal[Core][k]} THEN Absent ELSE disk[k]],
                      saved |-> TRUE, changed |-> TRUE]
    OBVIOUS
  <2>2. x \in Packet
    BY <1>1, <2>1 DEF Packet, TypeOK
  <2>3. ChangeValues(Core, x, NoPage, pageVal, pagePending, pageSaved)
    BY <1>10, <2>1 DEF LoadFromStore
  <2>4. CacheStep(Core, x, NoPage, pageVal, pagePending) \/ IdleStep(pageVal)
    BY <2>2, <2>3, ChangeIsStep
  <2>5. \A q \in Page, k \in Key : PageKept(q, k)
    BY <2>4, StepKeptPages
  <2>6. \A c \in Proc, k \in Key : CacheKept(c, k)
    BY <1>1, <2>2, <2>3, ChangeKeptCaches
  <2> QED
    BY <2>5, <2>6
<1>11. ASSUME UNCHANGED vars PROVE Kept
  BY <1>2, <1>11 DEF vars, pageVars, cacheVars
<1>12. Kept
  <2> HIDE DEF Kept
  <2> QED
    BY <1>3, <1>4, <1>5, <1>6, <1>7, <1>8, <1>9, <1>10, <1>11 DEF Next, Deliver
<1> QED
  BY <1>12

\* For any number of processes, pages and keys, no step of another replaces the
\* value of an element of a page or of a cache whose own change has not come back.
THEOREM OwnChangesKept == Spec => OwnChangeKept
<1>1. PendingInv /\ [Next]_vars =>
         [/\ \A p \in Page, k \in Key :
                pagePending[p][k] > 0 /\ pageVal'[p][k] # pageVal[p][k]
                   => pagePending'[p][k] > pagePending[p][k]
          /\ \A c \in Proc, k \in Key :
                cachePending[c][k] > 0 /\ cacheVal'[c][k] # cacheVal[c][k]
                   => cachePending'[c][k] > cachePending[c][k]]_vars
  BY NextKept DEF PageKept, CacheKept
<1> QED
  BY <1>1, InitPending, NextPending, PTL DEF Spec, OwnChangeKept

-----------------------------------------------------------------------------
(* What counts as saved is on the disk *)

\* Packets that ask to save a value without changing it.
SaveOnly == {x \in Packet : ~x.changed}

\* Without two requests in a millisecond no such packet is ever sent.
SavedInv ==
    /\ \A p \in Page : NoneIn(toCache[p], SaveOnly)
    /\ \A c \in Proc : NoneIn(toHub[c], SaveOnly)
    /\ SavedOnDisk

\* The cache of process d takes over a change.
LEMMA ChangeKeepsSaved ==
    ASSUME TypeOK, SavedInv, DiskFails = FALSE,
           NEW d \in Proc, NEW x \in Packet, x.changed, NEW by, NEW val, NEW pending, NEW saved,
           ChangeValues(d, x, by, val, pending, saved)
    PROVE  SavedOnDisk' /\ \A c \in Proc : NoneIn(toHub'[c], SaveOnly)
<1>1. /\ cacheVal \in [Proc -> [Key -> Value \cup {Invalid}]]
      /\ cacheSaved \in [Proc -> [Key -> BOOLEAN]]
      /\ disk \in [Key -> Value \cup {Invalid}]
      /\ toHub \in [Proc -> Seq(Packet)]
      /\ Core \in Proc
  BY ConstAssumption DEF TypeOK
<1>2. SavedOnDisk'
  <2> SUFFICES ASSUME NEW k \in Key, cacheSaved'[Core][k], cacheVal'[Core][k] # Invalid
               PROVE  disk'[k] = cacheVal'[Core][k]
    BY DEF SavedOnDisk
  <2>1. cacheSaved[Core][k] /\ cacheVal[Core][k] # Invalid => disk[k] = cacheVal[Core][k]
    BY DEF SavedInv, SavedOnDisk
  <2>2. CASE d # Core
    <3>1. cacheVal'[Core] = cacheVal[Core] /\ cacheSaved'[Core] = cacheSaved[Core] /\ disk' = disk
      BY <1>1, <2>2 DEF ChangeValues
    <3> QED
      BY <2>1, <3>1
  <2>3. CASE d = Core
    <3>1. /\ cacheVal'[Core][k] = IF Has(x, k) THEN x.vals[k] ELSE cacheVal[Core][k]
          /\ cacheSaved'[Core][k] = IF Has(x, k) THEN x.saved ELSE cacheSaved[Core][k]
      BY <1>1, <2>3 DEF ChangeValues, Overlay
    <3>2. disk'[k] = IF x.saved /\ Has(x, k) THEN x.vals[k] ELSE disk[k]
      BY <1>1, <2>3 DEF ChangeValues, SaveRequested
    <3> QED
      BY <2>1, <3>1, <3>2
  <2> QED
    BY <2>2, <2>3
<1>3. ASSUME NEW c \in Proc PROVE NoneIn(toHub'[c], SaveOnly)
  <2>1. NoneIn(toHub[c], SaveOnly) /\ x \notin SaveOnly /\ toHub[c] \in Seq(Packet)
    BY <1>1 DEF SavedInv, SaveOnly
  <2>2. toHub'[c] = toHub[c] \/ toHub'[c] = Append(toHub[c], x)
    BY <1>1 DEF ChangeValues
  <2>3. NoneIn(Append(toHub[c], x), SaveOnly)
    BY <2>1, NoneAppended
  <2> QED
    BY <2>1, <2>2, <2>3
<1> QED
  BY <1>2, <1>3

\* The cache of process d receives a foreign change.
LEMMA RatifyKeepsSaved ==
    ASSUME TypeOK, SavedOnDisk, DiskFails = FALSE,
           NEW d \in Proc, NEW x \in Packet, x.changed, RatifyRemote(d, x)
    PROVE  SavedOnDisk'
<1>1. /\ cacheVal \in [Proc -> [Key -> Value \cup {Invalid}]]
      /\ cacheSaved \in [Proc -> [Key -> BOOLEAN]]
      /\ disk \in [Key -> Value \cup {Invalid}]
      /\ Core \in Proc
  BY ConstAssumption DEF TypeOK
<1>2. PICK r \in Packet : r = Ratified(d, x)
  BY PacketTypes
<1>3. /\ cacheVal' = [cacheVal EXCEPT ![d] = Overlay(r, @)]
      /\ cacheSaved' = [cacheSaved EXCEPT ![d] =
                           [k \in Key |-> IF Has(r, k) THEN r.saved ELSE @[k]]]
      /\ IF d = Core /\ ~IsEmpty(r) THEN SaveRequested(r) ELSE disk' = disk
  BY <1>2 DEF RatifyRemote
<1> SUFFICES ASSUME NEW k \in Key, cacheSaved'[Core][k], cacheVal'[Core][k] # Invalid
             PROVE  disk'[k] = cacheVal'[Core][k]
  BY DEF SavedOnDisk
<1>4. cacheSaved[Core][k] /\ cacheVal[Core][k] # Invalid => disk[k] = cacheVal[Core][k]
  BY DEF SavedOnDisk
<1>5. CASE d # Core
  <2>1. cacheVal'[Core] = cacheVal[Core] /\ cacheSaved'[Core] = cacheSaved[Core] /\ disk' = disk
    BY <1>1, <1>3, <1>5
  <2> QED
    BY <1>4, <2>1
<1>6. CASE d = Core
  <2>1. /\ cacheVal'[Core][k] = IF Has(r, k) THEN r.vals[k] ELSE cacheVal[Core][k]
        /\ cacheSaved'[Core][k] = IF Has(r, k) THEN r.saved ELSE cacheSaved[Core][k]
    BY <1>1, <1>3, <1>6 DEF Overlay
  <2>2. CASE IsEmpty(r)
    <3>1. disk' = disk /\ ~Has(r, k)
      BY <1>3, <2>2 DEF IsEmpty
    <3> QED
      BY <1>4, <2>1, <3>1
  <2>3. CASE ~IsEmpty(r)
    <3>1. disk'[k] = IF r.saved /\ Has(r, k) THEN r.vals[k] ELSE disk[k]
      BY <1>1, <1>3, <1>6, <2>3 DEF SaveRequested
    <3> QED
      BY <1>4, <2>1, <3>1
  <2> QED
    BY <2>2, <2>3
<1> QED
  BY <1>5, <1>6

\* Every step keeps it.
LEMMA NextSaved ==
    ASSUME SameStamp = FALSE, DiskFails = FALSE, PendingInv, SavedInv, [Next]_vars
    PROVE  SavedInv'
<1>1. TypeOK /\ Core \in Proc
  BY ConstAssumption DEF PendingInv
<1>2. ASSUME UNCHANGED <<toCache, toHub, cacheVal, cacheSaved, disk>> PROVE SavedInv'
  BY <1>2 DEF SavedInv, SavedOnDisk
<1>3. ASSUME NEW p \in Page, Request(p) PROVE SavedInv'
  <2>1. CASE \E x, val, pending, saved : Sends(p, x, val, pending, saved)
    <3>1. PICK x, val, pending, saved : Sends(p, x, val, pending, saved)
      BY <2>1
    <3>2. x \in Packet /\ x.changed /\ WantToCache(p, x, val, pending, saved)
      BY <3>1 DEF Sends
    <3>3. CASE p \in Threaded
      <4>1. /\ toCache' = [toCache EXCEPT ![p] = Append(@, x)]
            /\ UNCHANGED <<toHub, cacheVal, cacheSaved, disk>>
        BY <3>2, <3>3 DEF WantToCache, cacheVars
      <4>2. ASSUME NEW q \in Page PROVE NoneIn(toCache'[q], SaveOnly)
        <5>1. toCache'[q] = toCache[q] \/ toCache'[q] = Append(toCache[q], x)
          BY <1>1, <4>1 DEF TypeOK
        <5>2. NoneIn(toCache[q], SaveOnly) /\ x \notin SaveOnly /\ toCache[q] \in Seq(Packet)
          BY <1>1, <3>2 DEF SavedInv, SaveOnly, TypeOK
        <5>3. NoneIn(Append(toCache[q], x), SaveOnly)
          BY <3>2, <5>2, NoneAppended
        <5> QED
          BY <5>1, <5>2, <5>3
      <4> QED
        BY <4>1, <4>2 DEF SavedInv, SavedOnDisk
    <3>4. CASE p \notin Threaded
      <4>1. /\ ChangeValues(ProcOf[p], x, p, val, pending, saved) /\ ProcOf[p] \in Proc
            /\ toCache' = toCache
        BY <3>2, <3>4, ConstAssumption DEF WantToCache
      <4>2. SavedOnDisk' /\ \A c \in Proc : NoneIn(toHub'[c], SaveOnly)
        BY <1>1, <3>2, <4>1, ChangeKeepsSaved
      <4> QED
        BY <4>1, <4>2 DEF SavedInv
    <3> QED
      BY <3>3, <3>4
  <2>2. CASE Unnoticed
    BY <1>2, <2>2 DEF Unnoticed, cacheVars
  <2>3. ASSUME NEW k \in Key, CreateElement(p, k) PROVE SavedInv'
    BY <1>2, <2>3 DEF CreateElement, pageQueues, cacheVars, hubVars
  <2> QED
    BY <1>3, <2>1, <2>2, <2>3, RequestShape
<1>4. ASSUME NEW p \in Page, CacheTakes(p) PROVE SavedInv'
  <2>1. /\ toCache \in [Page -> Seq(Packet)] /\ toCache[p] # <<>>
        /\ toCache' = [toCache EXCEPT ![p] = Tail(@)]
    BY <1>1, <1>4 DEF TypeOK, CacheTakes
  <2>2. PICK x \in Packet : x = Head(toCache[p])
    BY <2>1
  <2>3. x \notin SaveOnly /\ NoneIn(Tail(toCache[p]), SaveOnly)
    BY <2>1, <2>2, NoneTaken DEF SavedInv
  <2>4. x.changed
    BY <2>2, <2>3 DEF SaveOnly
  <2>5. ChangeValues(ProcOf[p], x, p, pageVal, pagePending, pageSaved) /\ ProcOf[p] \in Proc
    BY <1>4, <2>2, ConstAssumption DEF CacheTakes
  <2>6. SavedOnDisk' /\ \A c \in Proc : NoneIn(toHub'[c], SaveOnly)
    BY <1>1, <2>4, <2>5, ChangeKeepsSaved
  <2>7. \A q \in Page : NoneIn(toCache'[q], SaveOnly)
    BY <2>1, <2>3 DEF SavedInv
  <2> QED
    BY <2>6, <2>7 DEF SavedInv
<1>5. ASSUME NEW p \in Page, PageTakes(p) PROVE SavedInv'
  BY <1>2, <1>5 DEF PageTakes, cacheVars, hubVars
<1>6. ASSUME NEW c \in Proc, HubTakes(c) PROVE SavedInv'
  <2>1. /\ toHub \in [Proc -> Seq(Packet)] /\ toHub[c] # <<>>
        /\ toHub' = [toHub EXCEPT ![c] = Tail(@)] /\ toCache' = toCache
    BY <1>1, <1>6 DEF TypeOK, HubTakes
  <2>2. PICK x \in Packet : x = Head(toHub[c])
    BY <2>1
  <2>3. x \notin SaveOnly /\ NoneIn(Tail(toHub[c]), SaveOnly)
    BY <2>1, <2>2, NoneTaken DEF SavedInv
  <2>4. x.changed /\ RatifyRemote(Core, x)
    BY <1>6, <2>2, <2>3 DEF SaveOnly, HubTakes
  <2>5. SavedOnDisk'
    BY <1>1, <2>4, RatifyKeepsSaved DEF SavedInv
  <2>6. \A d \in Proc : NoneIn(toHub'[d], SaveOnly)
    BY <2>1, <2>3 DEF SavedInv
  <2> QED
    BY <2>1, <2>5, <2>6 DEF SavedInv
<1>7. ASSUME NEW c \in Proc, ProxyTakes(c) PROVE SavedInv'
  <2>1. PICK m \in HubMsg : m = Head(fromHub[c])
    BY <1>1, <1>7 DEF TypeOK, ProxyTakes
  <2>2. UNCHANGED <<toCache, toHub>>
    BY <1>7 DEF ProxyTakes
  <2>3. CASE m.origin = c
    BY <1>2, <1>7, <2>1, <2>3 DEF ProxyTakes
  <2>4. CASE m.origin # c
    <3>1. PICK x \in Packet : x = m.pkt
      BY <2>1 DEF HubMsg
    <3>2. RatifyRemote(c, x)
      BY <1>7, <2>1, <2>4, <3>1 DEF ProxyTakes
    <3>3. c # Core
      BY <1>7 DEF ProxyTakes, PendingInv, DirectQueuesEmpty
    <3>4. CASE x.changed
      BY <1>1, <2>2, <3>2, <3>4, RatifyKeepsSaved DEF SavedInv
    <3>5. CASE ~x.changed
      BY <1>2, <2>2, <3>2, <3>3, <3>5 DEF RatifyRemote
    <3> QED
      BY <3>4, <3>5
  <2> QED
    BY <2>3, <2>4
<1>8. ASSUME NEW c \in Proc, SynchronizeLocalSettings(c) PROVE SavedInv'
  <2>1. PICK x : x = [vals |-> [k \in Key |->
                         IF cacheVal[Core][k] = Invalid THEN Absent ELSE cacheVal[Core][k]],
                      saved |-> FALSE, changed |-> TRUE]
    OBVIOUS
  <2>2. x \in Packet /\ x.changed
    <3>1. cacheVal[Core] \in [Key -> Value \cup {Invalid}]
      BY <1>1 DEF TypeOK
    <3> QED
      BY <2>1, <3>1 DEF Packet
  <2>3. RatifyRemote(c, x) /\ UNCHANGED <<toCache, toHub>>
    BY <1>8, <2>1 DEF SynchronizeLocalSettings
  <2>4. SavedOnDisk'
    BY <1>1, <2>2, <2>3, RatifyKeepsSaved DEF SavedInv
  <2> QED
    BY <2>3, <2>4 DEF SavedInv
<1>9. ASSUME NEW ks \in SUBSET Key, SaveToStore(ks) PROVE SavedInv'
  <2>1. /\ cacheSaved \in [Proc -> [Key -> BOOLEAN]]
        /\ UNCHANGED <<toCache, toHub, cacheVal>>
    BY <1>1, <1>9 DEF TypeOK, SaveToStore, pageQueues, hubVars
  <2>2. /\ disk' = [k \in Key |-> IF k \in ks /\ cacheVal[Core][k] # Invalid
                                  THEN cacheVal[Core][k] ELSE disk[k]]
        /\ cacheSaved' = [cacheSaved EXCEPT ![Core] =
                             [k \in Key |-> IF k \in ks THEN TRUE ELSE @[k]]]
    BY <1>9 DEF SaveToStore
  <2>3. SavedOnDisk'
    <3> SUFFICES ASSUME NEW k \in Key, cacheSaved'[Core][k], cacheVal'[Core][k] # Invalid
                 PROVE  disk'[k] = cacheVal'[Core][k]
      BY DEF SavedOnDisk
    <3>1. cacheSaved[Core][k] /\ cacheVal[Core][k] # Invalid => disk[k] = cacheVal[Core][k]
      BY DEF SavedInv, SavedOnDisk
    <3>2. cacheSaved'[Core][k] = IF k \in ks THEN TRUE ELSE cacheSaved[Core][k]
      BY <1>1, <2>1, <2>2
    <3> QED
      BY <2>1, <2>2, <3>1, <3>2
  <2> QED
    BY <2>1, <2>3 DEF SavedInv
<1>10. ASSUME LoadFromStore PROVE SavedInv'
  <2>1. PICK x : x = [vals |-> [k \in Key |->
                         IF disk[k] \in {Invalid, cacheVal[Core][k]} THEN Absent ELSE disk[k]],
                      saved |-> TRUE, changed |-> TRUE]
    OBVIOUS
  <2>2. x \in Packet /\ x.changed
    BY <1>1, <2>1 DEF Packet, TypeOK
  <2>3. /\ ChangeValues(Core, x, NoPage, pageVal, pagePending, pageSaved)
        /\ toCache' = toCache
    BY <1>10, <2>1 DEF LoadFromStore
  <2>4. SavedOnDisk' /\ \A c \in Proc : NoneIn(toHub'[c], SaveOnly)
    BY <1>1, <2>2, <2>3, ChangeKeepsSaved
  <2> QED
    BY <2>3, <2>4 DEF SavedInv
<1>11. CASE UNCHANGED vars
  BY <1>2, <1>11 DEF vars, pageQueues, cacheVars, hubVars
<1> QED
  BY <1>3, <1>4, <1>5, <1>6, <1>7, <1>8, <1>9, <1>10, <1>11 DEF Next, Deliver

\* The core starts with what is on the disk.
LEMMA InitSaved == Init => SavedInv
<1> SUFFICES ASSUME Init PROVE SavedInv
  OBVIOUS
<1>1. \A p \in Page : NoneIn(toCache[p], SaveOnly)
  BY EmptyLast DEF Init
<1>2. \A c \in Proc : NoneIn(toHub[c], SaveOnly)
  BY EmptyLast DEF Init
<1>3. SavedOnDisk
  BY ConstAssumption DEF Init, SavedOnDisk
<1> QED
  BY <1>1, <1>2, <1>3 DEF SavedInv

\* If no two requests fall into a millisecond and the files can be written, what
\* the core's cache counts as saved is what the settings files hold, whichever
\* process asked for it and in whatever order the packets arrive.
THEOREM SavedIsOnDisk ==
    ASSUME SameStamp = FALSE, DiskFails = FALSE
    PROVE  Spec => []SavedOnDisk
<1>1. SavedInv => SavedOnDisk
  BY DEF SavedInv
<1>2. PendingInv /\ SavedInv /\ [Next]_vars => SavedInv'
  BY NextSaved
<1> QED
  BY <1>1, <1>2, InitPending, NextPending, InitSaved, PTL DEF Spec
=============================================================================
