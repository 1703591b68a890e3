---------------------------- MODULE SharedState -----------------------------
(***************************************************************************)
(* State shared between processes by a data link over DBus                 *)
(* (src/blackmisc/sharedstate), as it is used for the log history: a list  *)
(* journal in the core, a mutator in every process that adds elements to   *)
(* it, list observers in clients that show the elements of their filter.   *)
(*                                                                         *)
(* CDataLinkDBus of a client calls its CDuplex in the core through a proxy *)
(* and receives the signals of that object: one FIFO in each direction, as *)
(* DBus keeps the order of the messages of one connection.  The core's own *)
(* duplex is called directly.  A request is answered while it is handled   *)
(* (the futures are ready, doAfter calls back at once), so replies come in *)
(* the order of the requests and a count stands for the tokens.  In the    *)
(* client the reply fulfils the promise of its duplex; two turns of the    *)
(* event loop later (chainResult, doAfter) the list is replaced with it.   *)
(*                                                                         *)
(* What arrives in these turns is appended and then overwritten, and what  *)
(* a process posts itself is shown before the journal has it.  The history *)
(* variables late and own name these elements; no action reads them.       *)
(***************************************************************************)
EXTENDS Lists, FiniteSets

CONSTANTS Client,      \* processes with a remote data link
          Viewer,      \* clients with a list observer
          Element,     \* the elements (log messages); each is posted once
          Filters,     \* the filters an observer can choose, as sets of elements
          MaxFilters,  \* bound: changes of filters
          MaxStops     \* bound: ends of the core's process

ASSUME ClientAssumption == Viewer \subseteq Client
ASSUME FiltersAssumption == Filters \subseteq SUBSET Element /\ Filters # {}
ASSUME BoundAssumption == MaxFilters \in Nat /\ MaxStops \in Nat

VARIABLES coreUp,     \* the core's process runs, with its DBus service
          journal,    \* m_value of the journal
          clients,    \* CHub::m_clients: the clients that have a CDuplex in the core
          subs,       \* m_subscriptions of each CDuplex
          duplex,     \* m_duplex of each client: none, opening, ready (the link is connected)
          peerSubs,   \* peerSubscriptions holds a filter (the journal's matches everything)
          filter,     \* eventSubscription() of the client's observer
          list,       \* m_list of the client's observer
          submitted,  \* requests without a reply: m_submittedRequests of m_duplex
          toHub,      \* DBus calls on the way to the core
          toClient,   \* DBus signals and replies on the way to the client
          arrived,    \* replies that have arrived but not yet replaced m_list
          late,       \* elements shown between the last request and its replacement of m_list
          own,        \* elements an observer's process has posted since its last request
          posted,     \* elements posted so far
          filterings, \* changes of filters so far
          stops       \* ends of the core's process so far

linkVars == <<clients, subs, duplex, peerSubs, submitted>>
boundVars == <<posted, filterings, stops>>
markVars == <<late, own>>
vars == <<coreUp, journal, filter, list, toHub, toClient, arrived, linkVars, markVars, boundVars>>

Requests == [kind : {"request"}, filter : SUBSET Element]
Replies == [kind : {"reply"}, list : Seq(Element)]
Events == [kind : {"event"}, element : Element]
Message ==
    [kind : {"open", "reqsubs", "opened", "subs"}] \cup [kind : {"sub"}, filter : SUBSET Element]
        \cup Requests \cup Replies \cup Events

TypeOK ==
    /\ coreUp \in BOOLEAN
    /\ journal \in Seq(Element)
    /\ clients \subseteq Client
    /\ subs \in [Client -> SUBSET Element]
    /\ duplex \in [Client -> {"none", "opening", "ready"}]
    /\ peerSubs \in [Client -> BOOLEAN]
    /\ filter \in [Client -> SUBSET Element]
    /\ list \in [Client -> Seq(Element)]
    /\ submitted \in [Client -> Nat]
    /\ toHub \in [Client -> Seq(Message)]
    /\ toClient \in [Client -> Seq(Message)]
    /\ arrived \in [Client -> Seq(Seq(Element))]
    /\ late \in [Client -> SUBSET Element]
    /\ own \in [Client -> SUBSET Element]
    /\ posted \subseteq Element
    /\ filterings \in Nat
    /\ stops \in Nat

\* The subscription a client announces: its observer's, or nothing without one.
Init ==
    /\ coreUp = TRUE
    /\ journal = <<>>
    /\ clients = {}
    /\ subs = [c \in Client |-> {}]
    /\ duplex = [c \in Client |-> "none"]
    /\ peerSubs = [c \in Client |-> FALSE]
    /\ filter \in [Client -> Filters \cup {{}}]
    /\ \A c \in Client : filter[c] = {} <=> c \notin Viewer
    /\ list = [c \in Client |-> <<>>]
    /\ submitted = [c \in Client |-> 0]
    /\ toHub = [c \in Client |-> <<>>]
    /\ toClient = [c \in Client |-> <<>>]
    /\ arrived = [c \in Client |-> <<>>]
    /\ late = [c \in Client |-> {}]
    /\ own = [c \in Client |-> {}]
    /\ posted = {}
    /\ filterings = 0
    /\ stops = 0

-----------------------------------------------------------------------------
(* The link of a client *)

\* Call methods of the duplex object in the core; without the core they are lost.
Call(c, ms) == toHub' = [toHub EXCEPT ![c] = IF coreUp THEN @ \o ms ELSE @]

\* checkConnection() of the watch timer while the core's service is there: onConnected().
Connect(c) ==
    /\ coreUp
    /\ duplex[c] = "none"
    /\ duplex' = [duplex EXCEPT ![c] = "opening"]
    /\ Call(c, << [kind |-> "open"] >>)
    /\ UNCHANGED <<coreUp, journal, filter, list, toClient, arrived, clients, subs, peerSubs, submitted,
                   markVars, boundVars>>

\* checkConnection() while it is not: onDisconnected().  The duplex goes with its
\* unanswered requests and undelivered signals; what is known of the peers'
\* subscriptions is kept, and a promise already fulfilled still calls back.
DisconnectKeepsRequests(c) ==   \* mutant: the promises survive their duplex
    /\ ~ coreUp
    /\ duplex[c] # "none"
    /\ duplex' = [duplex EXCEPT ![c] = "none"]
    /\ toClient' = [toClient EXCEPT ![c] = <<>>]
    /\ UNCHANGED <<coreUp, journal, filter, list, toHub, arrived, clients, subs, peerSubs, submitted,
                   markVars, boundVars>>

Disconnect(c) ==
    /\ ~ coreUp
    /\ duplex[c] # "none"
    /\ duplex' = [duplex EXCEPT ![c] = "none"]
    /\ submitted' = [submitted EXCEPT ![c] = 0]
    /\ toClient' = [toClient EXCEPT ![c] = <<>>]
    /\ UNCHANGED <<coreUp, journal, filter, list, toHub, arrived, clients, subs, peerSubs, markVars, boundVars>>

\* A request starts the marks of the client anew.
MarkAnew(c, requested) ==
    /\ late' = IF requested THEN [late EXCEPT ![c] = {}] ELSE late
    /\ own' = IF requested THEN [own EXCEPT ![c] = {}] ELSE own

\* CGenericListObserver::reconstruct() asks for the list with the current filter.
Reconstruct(f) == << [kind |-> "request", filter |-> f] >>

\* announceLocalSubscriptions()
Announce(f) == << [kind |-> "sub", filter |-> f] >>

\* openDuplex has returned: subscriptions are exchanged, then the link is connected,
\* which makes the observers ask for their lists.
ReadyCallsLate(c) ==   \* mutant: the list is requested before the subscription is announced
    << [kind |-> "reqsubs"] >>
        \o (IF c \in Viewer THEN Reconstruct(filter[c]) ELSE <<>>) \o Announce(filter[c])

ReadyCalls(c) ==
    << [kind |-> "reqsubs"] >> \o Announce(filter[c])
        \o (IF c \in Viewer THEN Reconstruct(filter[c]) ELSE <<>>)

ReadyWithoutRequest(c) ==   \* mutant: the observers do not learn that the link is connected again
    /\ toClient[c] # <<>> /\ Head(toClient[c]).kind = "opened"
    /\ toClient' = [toClient EXCEPT ![c] = Tail(@)]
    /\ duplex' = [duplex EXCEPT ![c] = "ready"]
    /\ Call(c, << [kind |-> "reqsubs"] >> \o Announce(filter[c]))
    /\ UNCHANGED <<coreUp, journal, filter, list, arrived, clients, subs, peerSubs, submitted,
                   markVars, boundVars>>

Ready(c) ==
    /\ toClient[c] # <<>> /\ Head(toClient[c]).kind = "opened"
    /\ toClient' = [toClient EXCEPT ![c] = Tail(@)]
    /\ duplex' = [duplex EXCEPT ![c] = "ready"]
    /\ submitted' = [submitted EXCEPT ![c] = IF c \in Viewer THEN @ + 1 ELSE @]
    /\ Call(c, ReadyCalls(c))
    /\ MarkAnew(c, c \in Viewer)
    /\ UNCHANGED <<coreUp, journal, filter, list, arrived, clients, subs, peerSubs, boundVars>>

\* setFilter(): the subscription is announced if there is a duplex, the list requested
\* if the link is connected.
SetFilter(c, f) ==
    /\ c \in Viewer
    /\ f # filter[c]
    /\ filterings < MaxFilters
    /\ filterings' = filterings + 1
    /\ filter' = [filter EXCEPT ![c] = f]
    /\ Call(c, (IF duplex[c] # "none" THEN Announce(f) ELSE <<>>)
                   \o (IF duplex[c] = "ready" THEN Reconstruct(f) ELSE <<>>))
    /\ submitted' = [submitted EXCEPT ![c] = IF duplex[c] = "ready" THEN @ + 1 ELSE @]
    /\ MarkAnew(c, duplex[c] = "ready")
    /\ UNCHANGED <<coreUp, journal, list, toClient, arrived, clients, subs, duplex, peerSubs, posted, stops>>

\* handlePeerEvent(): the observer appends an element its filter matches.
Observed(c, e) == IF e \in filter[c] THEN Append(list[c], e) ELSE list[c]

\* A request of the client has not yet had its effect on the list.
Open(c) == submitted[c] > 0 \/ arrived[c] # <<>>

\* An element reaches the observer while a request is open.
MarkLate(c, e) == late' = [late EXCEPT ![c] = IF Open(c) THEN @ \cup {e} ELSE @]

\* The mutator of a client posts an element: handleLocalEvent() gives it to the observer
\* of this process and sends it if a peer is known to want it.
Post(c, e) ==
    /\ e \notin posted
    /\ posted' = posted \cup {e}
    /\ list' = [list EXCEPT ![c] = Observed(c, e)]
    /\ IF duplex[c] # "none" /\ peerSubs[c]
          THEN Call(c, << [kind |-> "event", element |-> e] >>)
          ELSE UNCHANGED toHub
    /\ own' = [own EXCEPT ![c] = IF c \in Viewer THEN @ \cup {e} ELSE @]
    /\ MarkLate(c, e)
    /\ UNCHANGED <<coreUp, journal, filter, toClient, arrived, linkVars, filterings, stops>>

\* Signals of the duplex object, and replyReceived, which fulfils the promise of the
\* request or ignores the reply.
Receive(c) ==
    LET m == Head(toClient[c]) IN
    /\ toClient[c] # <<>> /\ m.kind # "opened"
    /\ toClient' = [toClient EXCEPT ![c] = Tail(@)]
    /\ \/ /\ m.kind = "subs"                            \* setPeerSubscriptions
          /\ peerSubs' = [peerSubs EXCEPT ![c] = TRUE]
          /\ UNCHANGED <<list, submitted, arrived, late>>
       \/ /\ m.kind = "event"
          /\ list' = [list EXCEPT ![c] = Observed(c, m.element)]
          /\ MarkLate(c, m.element)
          /\ UNCHANGED <<peerSubs, submitted, arrived>>
       \/ /\ m.kind = "reply"
          /\ submitted' = [submitted EXCEPT ![c] = IF @ > 0 THEN @ - 1 ELSE 0]
          /\ arrived' = [arrived EXCEPT ![c] = IF submitted[c] > 0 THEN Append(@, m.list) ELSE @]
          /\ UNCHANGED <<peerSubs, list, late>>
    /\ UNCHANGED <<coreUp, journal, filter, toHub, clients, subs, duplex, own, boundVars>>

\* The callback of reconstruct() replaces the list with the reply.
ReplacedAppends(c, l) == list[c] \o l   \* mutant: keeps what it had
Replaced(c, l) == l

\* The promise of the oldest reply has passed chainResult() and doAfter().
Replace(c) ==
    /\ arrived[c] # <<>>
    /\ arrived' = [arrived EXCEPT ![c] = Tail(@)]
    /\ list' = [list EXCEPT ![c] = Replaced(c, Head(arrived[c]))]
    /\ UNCHANGED <<coreUp, journal, filter, toHub, toClient, linkVars, markVars, boundVars>>

-----------------------------------------------------------------------------
(* The core *)

\* The queues after the core has sent m to the clients of a set.
SentTo(cs, m) == [c \in Client |-> IF c \in cs THEN Append(toClient[c], m) ELSE toClient[c]]

\* The clients whose duplex objects subscribe to an element, but its sender.
Subscribed(e) == {c \in clients : e \in subs[c]}

\* CDuplex of client c handles a call.
HubOpen(c, m) ==
    /\ m.kind = "open"
    /\ clients' = clients \cup {c}
    /\ toClient' = SentTo({c}, [kind |-> "opened"])
    /\ UNCHANGED <<subs, journal>>

HubRequestSubscriptions(c, m) ==
    /\ m.kind = "reqsubs"
    /\ toClient' = SentTo({c}, [kind |-> "subs"])
    /\ UNCHANGED <<clients, subs, journal>>

HubSubscribe(c, m) ==
    /\ m.kind = "sub"
    /\ subs' = [subs EXCEPT ![c] = m.filter]
    /\ toClient' = SentTo(clients \ {c}, [kind |-> "subs"])
    /\ UNCHANGED <<clients, journal>>

\* submitRequest, handled by the journal in the core, and its reply.
HubRequest(c, m) ==
    /\ m.kind = "request"
    /\ toClient' = SentTo({c}, [kind |-> "reply", list |-> Matching(journal, m.filter)])
    /\ UNCHANGED <<clients, subs, journal>>

\* postEvent goes to every other duplex that subscribes to it, the core's among them.
HubEventEchoes(c, m) ==   \* mutant: to the sender too
    /\ m.kind = "event"
    /\ journal' = Append(journal, m.element)
    /\ toClient' = SentTo(Subscribed(m.element), m)
    /\ UNCHANGED <<clients, subs>>

HubEvent(c, m) ==
    /\ m.kind = "event"
    /\ journal' = Append(journal, m.element)
    /\ toClient' = SentTo(Subscribed(m.element) \ {c}, m)
    /\ UNCHANGED <<clients, subs>>

Handle(c) ==
    LET m == Head(toHub[c]) IN
    /\ coreUp
    /\ toHub[c] # <<>>
    /\ toHub' = [toHub EXCEPT ![c] = Tail(@)]
    /\ HubOpen(c, m) \/ HubRequestSubscriptions(c, m) \/ HubSubscribe(c, m)
         \/ HubRequest(c, m) \/ HubEvent(c, m)
    /\ UNCHANGED <<coreUp, filter, list, arrived, duplex, peerSubs, submitted, markVars, boundVars>>

\* A mutator of the core posts an element: the journal observes it, the duplex of the
\* core passes it to the subscribed clients.
PostCore(e) ==
    /\ coreUp
    /\ e \notin posted
    /\ posted' = posted \cup {e}
    /\ journal' = Append(journal, e)
    /\ toClient' = SentTo(Subscribed(e), [kind |-> "event", element |-> e])
    /\ UNCHANGED <<coreUp, filter, list, toHub, arrived, linkVars, markVars, filterings, stops>>

\* The process of the core ends: the journal, the duplex objects and the calls not yet
\* handled are gone; what the core has sent still arrives.
CoreStop ==
    /\ coreUp
    /\ stops < MaxStops
    /\ stops' = stops + 1
    /\ coreUp' = FALSE
    /\ journal' = <<>>
    /\ clients' = {}
    /\ subs' = [c \in Client |-> {}]
    /\ toHub' = [c \in Client |-> <<>>]
    /\ UNCHANGED <<filter, list, toClient, arrived, duplex, peerSubs, submitted, markVars, posted, filterings>>

\* It is started again.  That takes longer than the second between two checks of the
\* connection: every client has noticed the end.
CoreStart ==
    /\ ~ coreUp
    /\ \A c \in Client : duplex[c] = "none"
    /\ coreUp' = TRUE
    /\ UNCHANGED <<journal, filter, list, toHub, toClient, arrived, linkVars, markVars, boundVars>>

-----------------------------------------------------------------------------
Next ==
    \/ CoreStop
    \/ CoreStart
    \/ \E e \in Element : PostCore(e)
    \/ \E c \in Client :
          \/ Connect(c)
          \/ Disconnect(c)
          \/ Ready(c)
          \/ Receive(c)
          \/ Replace(c)
          \/ Handle(c)
          \/ \E e \in Element : Post(c, e)
          \/ \E f \in Filters : SetFilter(c, f)

\* Timers fire and queued messages are handled; nobody has to post, choose a filter,
\* stop or start the core.
Fairness ==
    /\ \A c \in Client :
          WF_vars(Connect(c)) /\ WF_vars(Disconnect(c)) /\ WF_vars(Ready(c))
            /\ WF_vars(Receive(c)) /\ WF_vars(Replace(c)) /\ WF_vars(Handle(c))

Spec == Init /\ [][Next]_vars /\ Fairness

-----------------------------------------------------------------------------
\* The number of messages of a set in a queue.
Count(q, M) == Len(Matching(q, M))

\* The variables have their types, and every request that waits for a reply will get
\* it while the core lives: the request or its reply is on its way.  Without a duplex
\* nothing waits.
LinkInv ==
    /\ TypeOK
    /\ \A c \in Client :
          /\ duplex[c] = "none" => submitted[c] = 0 /\ toHub[c] = <<>> /\ toClient[c] = <<>>
          /\ coreUp => submitted[c] = Count(toHub[c], Requests) + Count(toClient[c], Replies)

\* The list of an observer is that of its filter and of the running journal.
Attached(c) == coreUp /\ duplex[c] = "ready" /\ ~ Open(c)

\* The elements an observer follows through the journal: those of its filter but the
\* ones that came between its last request and the replacement of its list, which may be
\* overwritten, and its own since then, which it shows at once.
Followed(c) == filter[c] \ (late[c] \cup own[c])

\* The elements of the events in a queue, in order.
Elements(q) ==
    LET events == Matching(q, Events)
    IN  [i \in 1 .. Len(events) |-> events[i].element]

\* An observer whose list has been replaced as it asked for shows, with what is on its
\* way to it, exactly what the journal holds of the elements it follows, in the
\* journal's order: snapshots, events, changes of filters and ends of the core leave no
\* gap and no element twice, whatever the process posts itself.
ViewTracksJournal ==
    \A c \in Viewer :
        Attached(c) => Matching(list[c], Followed(c)) \o Matching(Elements(toClient[c]), Followed(c))
                           = Matching(journal, Followed(c))

\* No observer shows an element twice, although elements reach it as events, in the
\* snapshots of several replies that replace the list late, and from its own process.
ShownOnce ==
    \A c \in Viewer : \A i, j \in DOMAIN list[c] : list[c][i] = list[c][j] => i = j

\* In the end an observer shows every element the journal holds for its filter, those of
\* its own process too, whatever was lost with a core that has ended, unless the core
\* stays down.  Only elements that came between its last request and the replacement of
\* the list can be missing.
EventuallyComplete ==
    <>[](coreUp =>
           \A c \in Viewer : \A e \in {journal[i] : i \in DOMAIN journal} :
               e \in filter[c] \ late[c] => \E i \in DOMAIN list[c] : list[c][i] = e)

\* Journal and observers behave like the shared list they stand for.
Shared == INSTANCE SharedList WITH
              want <- [c \in Viewer |-> Followed(c)],
              view <- [c \in Viewer |-> Matching(list[c], Followed(c))],
              attached <- [c \in Viewer |-> Attached(c)]

\* Links, subscriptions, requests, late replacements and ends of the core implement
\* SharedList: of the elements it follows an attached observer shows a beginning of what
\* the journal holds, and loses nothing of it until it asks for the list anew.
ImplementsSharedList == Shared!Spec
=============================================================================
