----------------------------- MODULE ValueCache -----------------------------
(***************************************************************************)
(* The value cache of BlackMisc (CValueCache, CValuePage) as it is used to *)
(* distribute the settings over the processes of a swift session.          *)
(*                                                                         *)
(* Each process has one cache, living in its main thread, and a number of  *)
(* pages, one per object that owns CCached members. Page and cache are     *)
(* connected by Qt auto connections: a page of the main thread is called   *)
(* directly, inside the step that emits the signal; a page of another      *)
(* thread is reached through an event queue in each direction. The core    *)
(* process is the hub of the DBus connection: the other processes send it  *)
(* their changes as method calls, and it relays every change, its own      *)
(* included, as a signal to all of them.                                   *)
(*                                                                         *)
(* A member of Value stands for a pair of value and timestamp, which the   *)
(* code always stores, compares and sends together.                        *)
(***************************************************************************)
EXTENDS Integers, Sequences, FiniteSets

CONSTANTS
    Proc,       \* processes of the session
    Core,       \* the process that runs the core and owns the settings files
    Page,       \* pages of all processes
    Threaded,   \* pages that live in a thread other than the main thread
    ProcOf,     \* the process of a page
    Key,        \* keys of the cached values
    Value,      \* values with their timestamp
    Accepts,    \* Accepts[p][k]: what the type and the validator of p's element allow
    Invalid,    \* the invalid CVariant of an element that has never been set
    Absent,     \* marks a key that a packet or a batch does not contain
    NoPage,     \* the null sender of a change that comes from no page
    MaxChanges, \* bound on the number of requests in a behaviour
    MaxNesting, \* bound on the nesting of batches
    SameStamp,  \* can two requests fall into the same millisecond?
    DiskFails   \* can writing a settings file fail?

ASSUME ConstAssumption ==
    /\ Core \in Proc
    /\ Threaded \subseteq Page
    /\ ProcOf \in [Page -> Proc]
    /\ Accepts \in [Page -> [Key -> SUBSET Value]]
    /\ Invalid \notin Value
    /\ Absent \notin Value \cup {Invalid}
    /\ NoPage \notin Page
    /\ MaxChanges \in Nat
    /\ MaxNesting \in Nat
    /\ SameStamp \in BOOLEAN
    /\ DiskFails \in BOOLEAN

VARIABLES
    elems,        \* keys for which a page has an element
    pageVal,      \* CValuePage::Element::m_value
    pagePending,  \* CValuePage::Element::m_pendingChanges
    pageSaved,    \* CValuePage::Element::m_saved
    batchMode,    \* CValuePage::m_batchMode
    batched,      \* CValuePage::m_batchedValues
    toCache,      \* queued valuesWantToCache signals of a threaded page
    fromCache,    \* queued valuesChanged signals to a threaded page
    cacheVal,     \* CValueCache::Element::m_value
    cachePending, \* CValueCache::Element::m_pendingChanges
    cacheSaved,   \* CValueCache::Element::m_saved
    toHub,        \* DBus calls of changeSettings on their way to the core
    fromHub,      \* DBus signals settingsChanged on their way to a process
    synced,       \* processes that have loaded the core's settings
    disk,         \* the settings files, one per key
    changes       \* requests so far

pageVars  == <<elems, pageVal, pagePending, pageSaved>>
batchVars == <<batchMode, batched>>
pageQueues == <<toCache, fromCache>>
cacheVars == <<cacheVal, cachePending, cacheSaved>>
hubVars   == <<toHub, fromHub, synced>>
vars == <<pageVars, batchVars, pageQueues, cacheVars, hubVars, disk, changes>>

-----------------------------------------------------------------------------
(* Packets and messages *)

\* A packet maps some keys to values. It is saved if it asks to be saved, and
\* changed unless it only asks to save the value that is there already.
Packet == [vals : [Key -> Value \cup {Absent}], saved : BOOLEAN, changed : BOOLEAN]

\* A page's view of a change: the packet and the page that asked for it.
CacheMsg == [pkt : Packet, by : Page \cup {NoPage}]

\* A change as it is relayed by the core, with the process it comes from.
HubMsg == [pkt : Packet, origin : Proc]

Has(pkt, k) == pkt.vals[k] # Absent

IsEmpty(pkt) == \A k \in Key : ~Has(pkt, k)

Single(k, v) == [j \in Key |-> IF j = k THEN v ELSE Absent]

NoValues == [k \in Key |-> Absent]

\* The values of f, replaced by those that pkt has.
Overlay(pkt, f) == [k \in Key |-> IF Has(pkt, k) THEN pkt.vals[k] ELSE f[k]]

MainPages(c) == {p \in Page : ProcOf[p] = c /\ p \notin Threaded}

ThreadPages(c) == {p \in Page : ProcOf[p] = c /\ p \in Threaded}

-----------------------------------------------------------------------------
(* CValuePage::setValuesFromCache *)

\* Mutant: the echo of an own change is not recognised.
RoundTripMissed(p, k, m) == FALSE

\* The page that made the change has its own change back.
RoundTrip(p, k, m) == k \in elems[p] /\ Has(m.pkt, k) /\ m.by = p

\* Mutant: another's change is taken over although an own change is pending.
RatifiesAlways(p, k, m, pending) ==
    k \in elems[p] /\ Has(m.pkt, k) /\ m.by # p /\ m.pkt.vals[k] \in Accepts[p][k]

\* Another's change is taken over, unless a change of the page's own is pending.
Ratifies(p, k, m, pending) ==
    /\ k \in elems[p]
    /\ Has(m.pkt, k)
    /\ m.by # p
    /\ pending[p][k] = 0
    /\ m.pkt.vals[k] \in Accepts[p][k]

\* The pages in ps receive m; val, pending and saved are their elements.
SetValuesFromCache(ps, m, val, pending, saved) ==
    /\ pageVal' = [p \in Page |-> [k \in Key |->
          IF p \in ps /\ Ratifies(p, k, m, pending) THEN m.pkt.vals[k] ELSE val[p][k]]]
    /\ pageSaved' = [p \in Page |-> [k \in Key |->
          IF p \in ps /\ Ratifies(p, k, m, pending) THEN m.pkt.saved ELSE saved[p][k]]]
    /\ pagePending' = [p \in Page |-> [k \in Key |->
          IF p \in ps /\ RoundTrip(p, k, m) THEN pending[p][k] - 1 ELSE pending[p][k]]]

\* The signal valuesChanged of the cache of c: pages of the main thread
\* receive it at once, the other pages find it in their queue.
EmitValuesChanged(c, m, val, pending, saved) ==
    /\ SetValuesFromCache(MainPages(c), m, val, pending, saved)
    /\ fromCache' = [p \in Page |->
          IF p \in ThreadPages(c) THEN Append(fromCache[p], m) ELSE fromCache[p]]

-----------------------------------------------------------------------------
(* The settings files and the core's relay *)

\* Mutant: enableLocalSave has been forgotten.
SaveNotConnected(pkt) == UNCHANGED disk

\* CSettingsCache::saveToStoreByPacket, called when the core's cache emits
\* valuesSaveRequested. A failure leaves the remaining files as they were and
\* is only logged.
SaveRequested(pkt) ==
    IF pkt.saved
    THEN \E written \in SUBSET Key :
            /\ DiskFails \/ written = Key
            /\ disk' = [k \in Key |->
                  IF k \in written /\ Has(pkt, k) THEN pkt.vals[k] ELSE disk[k]]
    ELSE UNCHANGED disk

\* CContextApplication::changeSettings emits settingsChanged on the DBus.
Relay(pkt, origin) ==
    fromHub' = [c \in Proc |->
        IF c = Core THEN fromHub[c] ELSE Append(fromHub[c], [pkt |-> pkt, origin |-> origin])]

-----------------------------------------------------------------------------
(* CValueCache *)

\* CValueCache::changeValues in process c, with what is connected to its
\* signals. The core has its own change back within the call: changeSettings
\* emits settingsChanged, which is connected to changeValuesFromRemote, so
\* that the pending counter is back where it was and the packet is saved.
\* Any other process sends the packet to the core.
ChangeValues(c, pkt, by, val, pending, saved) ==
    /\ cacheVal' = IF pkt.changed
                   THEN [cacheVal EXCEPT ![c] = Overlay(pkt, @)]
                   ELSE cacheVal
    /\ cacheSaved' = [cacheSaved EXCEPT ![c] =
                         [k \in Key |-> IF Has(pkt, k) THEN pkt.saved ELSE @[k]]]
    /\ cachePending' = IF pkt.changed /\ c # Core
                       THEN [cachePending EXCEPT ![c] =
                               [k \in Key |-> IF Has(pkt, k) THEN @[k] + 1 ELSE @[k]]]
                       ELSE cachePending
    /\ IF pkt.changed
       THEN EmitValuesChanged(c, [pkt |-> pkt, by |-> by], val, pending, saved)
       ELSE /\ pageVal' = val /\ pagePending' = pending /\ pageSaved' = saved
            /\ UNCHANGED fromCache
    /\ IF c = Core
       THEN Relay(pkt, Core) /\ SaveRequested(pkt) /\ UNCHANGED toHub
       ELSE /\ toHub' = [toHub EXCEPT ![c] = Append(@, pkt)]
            /\ UNCHANGED <<fromHub, disk>>

\* Mutant: a foreign packet is taken over although an own change is pending.
RatifiedAlways(c, pkt) == pkt

\* The keys of a foreign packet that the cache of c takes over.
Ratified(c, pkt) ==
    [pkt EXCEPT !.vals =
        [k \in Key |-> IF cachePending[c][k] = 0 THEN @[k] ELSE Absent]]

\* CValueCache::changeValuesFromRemote for a packet of another process.
RatifyRemote(c, pkt) ==
    IF pkt.changed
    THEN LET r == Ratified(c, pkt) IN
         /\ cacheVal' = [cacheVal EXCEPT ![c] = Overlay(r, @)]
         /\ cacheSaved' = [cacheSaved EXCEPT ![c] =
                              [k \in Key |-> IF Has(r, k) THEN r.saved ELSE @[k]]]
         /\ IF IsEmpty(r)
            THEN UNCHANGED <<pageVal, pagePending, pageSaved, fromCache>>
            ELSE EmitValuesChanged(c, [pkt |-> r, by |-> NoPage],
                                   pageVal, pagePending, pageSaved)
         /\ IF c = Core /\ ~IsEmpty(r) THEN SaveRequested(r) ELSE UNCHANGED disk
    ELSE /\ UNCHANGED <<cacheVal, cacheSaved, pageVal, pagePending, pageSaved, fromCache>>
         /\ IF c = Core THEN SaveRequested(pkt) ELSE UNCHANGED disk

\* Mutant: the counter is not decremented.
AcknowledgeNothing(c, pkt) == UNCHANGED cachePending

\* CValueCache::changeValuesFromRemote for a packet that comes back.
AcknowledgeRemote(c, pkt) ==
    cachePending' = IF pkt.changed
                    THEN [cachePending EXCEPT ![c] =
                            [k \in Key |-> IF Has(pkt, k) THEN @[k] - 1 ELSE @[k]]]
                    ELSE cachePending

-----------------------------------------------------------------------------
(* Requests of the owners of pages *)

\* One request of the bounded number.
Count == changes < MaxChanges /\ changes' = changes + 1

\* CValuePage::createElement: the first use of key k in page p reads the cache
\* under its mutex, whatever is still queued for the page.
CreateElement(p, k) ==
    /\ k \notin elems[p]
    /\ elems' = [elems EXCEPT ![p] = @ \cup {k}]
    /\ LET v == cacheVal[ProcOf[p]][k] IN
       pageVal' = [pageVal EXCEPT ![p][k] = IF v \in Accepts[p][k] THEN v ELSE Invalid]
    /\ pageSaved' = [pageSaved EXCEPT ![p][k] = cacheSaved[ProcOf[p]][k]]
    /\ UNCHANGED <<pagePending, batchVars, pageQueues, cacheVars, hubVars, disk, changes>>

\* The signal valuesWantToCache of page p, whose elements are val, pending and
\* saved when it is emitted.
WantToCache(p, pkt, val, pending, saved) ==
    IF p \in Threaded
    THEN /\ toCache' = [toCache EXCEPT ![p] = Append(@, pkt)]
         /\ pageVal' = val /\ pagePending' = pending /\ pageSaved' = saved
         /\ UNCHANGED <<fromCache, cacheVars, toHub, fromHub, disk>>
    ELSE /\ ChangeValues(ProcOf[p], pkt, p, val, pending, saved)
         /\ UNCHANGED toCache

\* CValuePage::setValue with a value or a timestamp that differs from the
\* element's, outside of a batch.
SetValue(p, k, v, save) ==
    /\ Count
    /\ k \in elems[p]
    /\ v # pageVal[p][k]
    /\ v \in Accepts[p][k]
    /\ batchMode[p] = 0
    /\ WantToCache(p, [vals |-> Single(k, v), saved |-> save, changed |-> TRUE],
                   [pageVal EXCEPT ![p][k] = v],
                   [pagePending EXCEPT ![p][k] = @ + 1],
                   [pageSaved EXCEPT ![p][k] = save])
    /\ UNCHANGED <<elems, batchVars, synced>>

\* CValuePage::setValue asking to save the value and timestamp that the element
\* has already, as save() does within the millisecond of set(). A batch makes
\* no difference here.
SaveUnchanged(p, k) ==
    /\ SameStamp
    /\ Count
    /\ k \in elems[p]
    /\ pageVal[p][k] \in Accepts[p][k]
    /\ WantToCache(p, [vals |-> Single(k, pageVal[p][k]), saved |-> TRUE, changed |-> FALSE],
                   pageVal, pagePending, [pageSaved EXCEPT ![p][k] = TRUE])
    /\ UNCHANGED <<elems, batchVars, synced>>

\* CValuePage::setValue in a batch: the request to save, if any, is not kept.
SetBatched(p, k, v) ==
    /\ Count
    /\ k \in elems[p]
    /\ v # pageVal[p][k]
    /\ v \in Accepts[p][k]
    /\ batchMode[p] > 0
    /\ batched' = [batched EXCEPT ![p][k] = v]
    /\ UNCHANGED <<pageVars, batchMode, pageQueues, cacheVars, hubVars, disk>>

\* CValuePage::beginBatch, called by CValueCache::batchChanges.
BeginBatch(p) ==
    /\ Count
    /\ batchMode[p] < MaxNesting
    /\ batchMode' = [batchMode EXCEPT ![p] = @ + 1]
    /\ batched' = IF batchMode[p] = 0 THEN [batched EXCEPT ![p] = NoValues] ELSE batched
    /\ UNCHANGED <<pageVars, pageQueues, cacheVars, hubVars, disk>>

\* CValuePage::abandonBatch, called by ~BatchGuard during stack unwinding.
AbandonBatch(p) ==
    /\ batchMode[p] > 0
    /\ batchMode' = [batchMode EXCEPT ![p] = @ - 1]
    /\ UNCHANGED <<pageVars, batched, pageQueues, cacheVars, hubVars, disk, changes>>

\* The counters of the pages when page p has applied the changes of a batch.
CountBatch(p, pkt) ==
    [pagePending EXCEPT ![p] = [k \in Key |-> IF Has(pkt, k) THEN @[k] + 1 ELSE @[k]]]

\* CValuePage::endBatch, called by ~BatchGuard otherwise.
EndBatch(p) ==
    LET pkt == [vals |-> batched[p], saved |-> FALSE, changed |-> TRUE] IN
    /\ batchMode[p] > 0
    /\ batchMode' = [batchMode EXCEPT ![p] = @ - 1]
    /\ IF batchMode[p] = 1 /\ ~IsEmpty(pkt)
       THEN WantToCache(p, pkt,
                [pageVal EXCEPT ![p] = Overlay(pkt, @)],
                CountBatch(p, pkt),
                [pageSaved EXCEPT ![p] = [k \in Key |-> IF Has(pkt, k) THEN FALSE ELSE @[k]]])
       ELSE UNCHANGED <<pageVal, pagePending, pageSaved, pageQueues, cacheVars, toHub, fromHub, disk>>
    /\ UNCHANGED <<elems, batched, synced, changes>>

-----------------------------------------------------------------------------
(* Delivery of queued signals and of DBus messages *)

\* The main thread of p's process takes a packet from the queue of page p.
CacheTakes(p) ==
    /\ toCache[p] # <<>>
    /\ toCache' = [toCache EXCEPT ![p] = Tail(@)]
    /\ ChangeValues(ProcOf[p], Head(toCache[p]), p, pageVal, pagePending, pageSaved)
    /\ UNCHANGED <<elems, batchVars, synced, changes>>

\* The thread of page p takes a packet from the queue of its cache.
PageTakes(p) ==
    /\ fromCache[p] # <<>>
    /\ fromCache' = [fromCache EXCEPT ![p] = Tail(@)]
    /\ SetValuesFromCache({p}, Head(fromCache[p]), pageVal, pagePending, pageSaved)
    /\ UNCHANGED <<elems, batchVars, toCache, cacheVars, hubVars, disk, changes>>

\* The core executes a changeSettings call of process c: it relays the packet
\* and its own cache receives it as a change of another process.
HubTakes(c) ==
    /\ toHub[c] # <<>>
    /\ toHub' = [toHub EXCEPT ![c] = Tail(@)]
    /\ Relay(Head(toHub[c]), c)
    /\ RatifyRemote(Core, Head(toHub[c]))
    /\ UNCHANGED <<elems, batchVars, toCache, cachePending, synced, changes>>

\* Process c receives a settingsChanged signal of the core.
ProxyTakes(c) ==
    /\ fromHub[c] # <<>>
    /\ fromHub' = [fromHub EXCEPT ![c] = Tail(@)]
    /\ LET m == Head(fromHub[c]) IN
       IF m.origin = c
       THEN /\ AcknowledgeRemote(c, m.pkt)
            /\ UNCHANGED <<pageVal, pagePending, pageSaved, fromCache, cacheVal, cacheSaved, disk>>
       ELSE RatifyRemote(c, m.pkt) /\ UNCHANGED cachePending
    /\ UNCHANGED <<elems, batchVars, toCache, toHub, synced, changes>>

\* CContextApplicationProxy::synchronizeLocalSettings: a blocking call, which
\* the core answers after the calls that c has made before, and whose answer
\* overtakes the signals that c has not yet processed.
SynchronizeLocalSettings(c) ==
    /\ Count
    /\ c # Core
    /\ toHub[c] = <<>>
    /\ synced' = synced \cup {c}
    /\ RatifyRemote(c, [vals |-> [k \in Key |->
                            IF cacheVal[Core][k] = Invalid THEN Absent ELSE cacheVal[Core][k]],
                        saved |-> FALSE, changed |-> TRUE])
    /\ UNCHANGED <<elems, batchVars, toCache, cachePending, toHub, fromHub>>

-----------------------------------------------------------------------------
(* Saving and loading all settings in the core *)

\* CSettingsCache::saveToStore: writes the values of the keys ks, and marks
\* them as saved if every file could be written.
SaveToStore(ks) ==
    /\ Count
    /\ \E written \in SUBSET ks :
          /\ DiskFails \/ written = ks
          /\ disk' = [k \in Key |-> IF k \in written /\ cacheVal[Core][k] # Invalid
                                    THEN cacheVal[Core][k] ELSE disk[k]]
          /\ cacheSaved' = IF written = ks
                           THEN [cacheSaved EXCEPT ![Core] =
                                   [k \in Key |-> IF k \in ks THEN TRUE ELSE @[k]]]
                           ELSE cacheSaved
    /\ UNCHANGED <<pageVars, batchVars, pageQueues, cacheVal, cachePending, hubVars>>

\* CSettingsCache::loadFromStore: the values that differ from the current ones
\* are inserted as a saved change of no page.
LoadFromStore ==
    LET pkt == [vals |-> [k \in Key |->
                    IF disk[k] \in {Invalid, cacheVal[Core][k]} THEN Absent ELSE disk[k]],
                saved |-> TRUE, changed |-> TRUE] IN
    /\ Count
    /\ ~IsEmpty(pkt)
    /\ ChangeValues(Core, pkt, NoPage, pageVal, pagePending, pageSaved)
    /\ UNCHANGED <<elems, batchVars, toCache, synced>>

-----------------------------------------------------------------------------
\* The core has loaded its settings, the other processes have not asked yet,
\* and no page has an element.
Init ==
    /\ elems = [p \in Page |-> {}]
    /\ pageVal = [p \in Page |-> [k \in Key |-> Invalid]]
    /\ pagePending = [p \in Page |-> [k \in Key |-> 0]]
    /\ pageSaved = [p \in Page |-> [k \in Key |-> FALSE]]
    /\ batchMode = [p \in Page |-> 0]
    /\ batched = [p \in Page |-> NoValues]
    /\ toCache = [p \in Page |-> <<>>]
    /\ fromCache = [p \in Page |-> <<>>]
    /\ disk \in [Key -> Value \cup {Invalid}]
    /\ cacheVal = [c \in Proc |-> IF c = Core THEN disk ELSE [k \in Key |-> Invalid]]
    /\ cachePending = [c \in Proc |-> [k \in Key |-> 0]]
    /\ cacheSaved = [c \in Proc |-> [k \in Key |-> c = Core /\ disk[k] # Invalid]]
    /\ toHub = [c \in Proc |-> <<>>]
    /\ fromHub = [c \in Proc |-> <<>>]
    /\ synced = {Core}
    /\ changes = 0

\* A request of the owner of page p.
Request(p) ==
    \/ \E k \in Key : CreateElement(p, k)
    \/ \E k \in Key, v \in Value, save \in BOOLEAN : SetValue(p, k, v, save)
    \/ \E k \in Key : SaveUnchanged(p, k)
    \/ \E k \in Key, v \in Value : SetBatched(p, k, v)
    \/ BeginBatch(p)
    \/ AbandonBatch(p)
    \/ EndBatch(p)

\* A delivery of what one of the threads or processes has sent.
Deliver ==
    \/ \E p \in Page : CacheTakes(p) \/ PageTakes(p)
    \/ \E c \in Proc : HubTakes(c) \/ ProxyTakes(c)

Next ==
    \/ \E p \in Page : Request(p)
    \/ Deliver
    \/ \E c \in Proc : SynchronizeLocalSettings(c)
    \/ \E ks \in SUBSET Key : SaveToStore(ks)
    \/ LoadFromStore

\* Event loops and the DBus deliver what they hold; nobody has to make requests.
Fairness ==
    /\ \A p \in Page : WF_vars(CacheTakes(p)) /\ WF_vars(PageTakes(p))
    /\ \A c \in Proc : WF_vars(HubTakes(c)) /\ WF_vars(ProxyTakes(c))

Spec == Init /\ [][Next]_vars /\ Fairness

-----------------------------------------------------------------------------
(* Properties *)

\* Every variable has its type. Pending counters are natural numbers, which is
\* what the assertions in setValuesFromCache and changeValuesFromRemote say.
TypeOK ==
    /\ elems \in [Page -> SUBSET Key]
    /\ pageVal \in [Page -> [Key -> Value \cup {Invalid}]]
    /\ pagePending \in [Page -> [Key -> Nat]]
    /\ pageSaved \in [Page -> [Key -> BOOLEAN]]
    /\ batchMode \in [Page -> Nat]
    /\ batched \in [Page -> [Key -> Value \cup {Absent}]]
    /\ toCache \in [Page -> Seq(Packet)]
    /\ fromCache \in [Page -> Seq(CacheMsg)]
    /\ cacheVal \in [Proc -> [Key -> Value \cup {Invalid}]]
    /\ cachePending \in [Proc -> [Key -> Nat]]
    /\ cacheSaved \in [Proc -> [Key -> BOOLEAN]]
    /\ toHub \in [Proc -> Seq(Packet)]
    /\ fromHub \in [Proc -> Seq(HubMsg)]
    /\ synced \in SUBSET Proc
    /\ disk \in [Key -> Value \cup {Invalid}]
    /\ changes \in 0 .. MaxChanges

\* Does pkt change key k?
Changes(pkt, k) == pkt.changed /\ Has(pkt, k)

\* How many packets of the queue s change k.
NumChanges(s, k) == Cardinality({i \in DOMAIN s : Changes(s[i], k)})

\* How many of the messages s to page p bring its own changes of k back.
NumPageEchoes(s, p, k) == Cardinality({i \in DOMAIN s : s[i].by = p /\ Has(s[i].pkt, k)})

\* How many of the signals s to process c bring its own changes of k back.
NumProcEchoes(s, c, k) == Cardinality({i \in DOMAIN s : s[i].origin = c /\ Changes(s[i].pkt, k)})

\* The pending counters of a page (setValue, endBatch, setValuesFromCache) count
\* exactly the own changes that are still under way. If the counter were
\* ever too large the page would be deaf to all others for good; if it were too
\* small, a stale value could overwrite the page's own.
PagePendingExact ==
    \A p \in Page, k \in Key :
        pagePending[p][k] = NumChanges(toCache[p], k) + NumPageEchoes(fromCache[p], p, k)

\* The same for the pending counters of a cache (changeValues,
\* changeValuesFromRemote) and the messages between its process and the core.
CachePendingExact ==
    \A c \in Proc, k \in Key :
        cachePending[c][k] = NumChanges(toHub[c], k) + NumProcEchoes(fromHub[c], c, k)

\* Pages of the main thread are called directly and never queue anything; the
\* core does not talk to itself over the DBus.
DirectQueuesEmpty ==
    /\ \A p \in Page \ Threaded : toCache[p] = <<>> /\ fromCache[p] = <<>>
    /\ toHub[Core] = <<>> /\ fromHub[Core] = <<>>

\* A page batches and sends only values for which it has an element.
OwnKeys ==
    \A p \in Page, k \in Key :
        k \notin elems[p] =>
            /\ batched[p][k] = Absent
            /\ NumChanges(toCache[p], k) = 0
            /\ NumPageEchoes(fromCache[p], p, k) = 0

\* The inductive strengthening of TypeOK and of the two pending invariants.
PendingInv ==
    /\ TypeOK
    /\ DirectQueuesEmpty
    /\ OwnKeys
    /\ PagePendingExact
    /\ CachePendingExact

\* Nothing that concerns k is under way between page p and its cache.
PageSettled(p, k) ==
    /\ \A i \in DOMAIN toCache[p] : ~Changes(toCache[p][i], k)
    /\ \A i \in DOMAIN fromCache[p] : ~Has(fromCache[p][i].pkt, k)

\* Nothing that concerns k is under way between process c and the core.
ProcSettled(c, k) ==
    /\ \A i \in DOMAIN toHub[c] : ~Changes(toHub[c][i], k)
    /\ \A i \in DOMAIN fromHub[c] : ~Changes(fromHub[c][i].pkt, k)

\* The comment in setValuesFromCache, "ratify a change only if own change is
\* not pending, to ensure consistency": when no packet with k is under way, a
\* page shows the value of its cache, unless its validator rejects that value.
PagesAgree ==
    \A p \in Page : \A k \in elems[p] :
        LET v == cacheVal[ProcOf[p]][k] IN
        PageSettled(p, k) /\ v \in Accepts[p][k] => pageVal[p][k] = v

\* The same comment in changeValuesFromRemote: when no packet with k is under
\* way between a synchronized process and the core, their caches agree on k.
CachesAgree ==
    \A c \in synced : \A k \in Key :
        ProcSettled(c, k) => cacheVal[c][k] = cacheVal[Core][k]

\* An owner that has changed a value does not see it replaced by the value of
\* another before its own change has come back: while a change is pending, the
\* value of an element changes only with another change of its own. This holds
\* for the elements of the pages and for those of the caches.
OwnChangeKept ==
    [][/\ \A p \in Page, k \in Key :
             pagePending[p][k] > 0 /\ pageVal'[p][k] # pageVal[p][k]
                => pagePending'[p][k] > pagePending[p][k]
       /\ \A c \in Proc, k \in Key :
             cachePending[c][k] > 0 /\ cacheVal'[c][k] # cacheVal[c][k]
                => cachePending'[c][k] > cachePending[c][k]]_vars

\* CValueCache::getAllUnsavedKeys returns the "keys of all values which have been
\* changed but not saved": what the core's cache counts as saved is in its file.
SavedOnDisk ==
    \A k \in Key :
        cacheSaved[Core][k] /\ cacheVal[Core][k] # Invalid => disk[k] = cacheVal[Core][k]

\* When the requests stop, every change arrives everywhere: all pages and all
\* synchronized caches settle on common values and nobody waits for its own
\* change to come back.
Converged ==
    /\ \A p \in Page, k \in Key :
          /\ PageSettled(p, k) /\ pagePending[p][k] = 0
          /\ k \in elems[p] /\ cacheVal[ProcOf[p]][k] \in Accepts[p][k]
                => pageVal[p][k] = cacheVal[ProcOf[p]][k]
    /\ \A c \in Proc, k \in Key :
          /\ ProcSettled(c, k) /\ cachePending[c][k] = 0
          /\ c \in synced => cacheVal[c][k] = cacheVal[Core][k]

\* Under the fairness of the event loops and of the DBus, convergence is
\* reached and stays.
EventuallyConverged == <>[]Converged
=============================================================================
