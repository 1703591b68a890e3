-------------------------- MODULE SharedStateProofs --------------------------
(***************************************************************************)
(* Requests and replies of the data link, lists of the observers and the   *)
(* refinement of SharedList, for any number of processes and elements.     *)
(*                                                                         *)
(* The heart of SharedInv is Settled: once no subscription and no request  *)
(* of an observer is on its way to the core, the messages on their way     *)
(* back, handled one after the other, turn the list it will have into the  *)
(* one the journal holds, as far as it follows the elements.  That list is *)
(* the last reply that has arrived, or the list it shows if every reply    *)
(* has replaced it.  Before, the last of its calls under way is a request  *)
(* for the filter it has, sent after that filter was announced; the events *)
(* it has posted since are its own.                                        *)
(***************************************************************************)
EXTENDS SharedState, QueueLemmas

\* The list of an observer after a message.
Handled(l, m, f) ==
    IF m \in Replies THEN m.list
    ELSE IF m \in Events /\ m.element \in f THEN Append(l, m.element)
    ELSE l

\* The list of an observer with filter f after the messages of q.
Outcome(l, q, f) ==
    LET shown[i \in 0 .. Len(q)] ==
            IF i = 0 THEN l ELSE Handled(shown[i - 1], q[i], f)
    IN  shown[Len(q)]

Opens == [kind : {"open"}]
Openeds == [kind : {"opened"}]

\* None of the messages of a queue is of one of the kinds.
NoneOf(q, K) == \A i \in DOMAIN q : q[i].kind \notin K

\* The last message of the queue of one of the kinds is m.
LastOf(q, K, m) == \E i \in DOMAIN q : q[i] = m /\ \A j \in DOMAIN q : j > i => q[j].kind \notin K

\* A client and its duplex object in the core: LinkInv, and there is a duplex object when
\* the call to open it has been handled, of which the client is told once.
DuplexInv(c) ==
    /\ duplex[c] = "none" => submitted[c] = 0 /\ toHub[c] = <<>> /\ toClient[c] = <<>>
    /\ coreUp => submitted[c] = Count(toHub[c], Requests) + Count(toClient[c], Replies)
    /\ c \in clients => coreUp /\ duplex[c] # "none"
    /\ ~ coreUp => toHub[c] = <<>>
    /\ coreUp => Count(toHub[c], Opens) + Count(toClient[c], Openeds)
                   = IF duplex[c] = "opening" THEN 1 ELSE 0
    /\ coreUp /\ duplex[c] # "none" /\ c \notin clients => Count(toHub[c], Opens) = 1

ConnectionInv == TypeOK /\ \A c \in Client : DuplexInv(c)

\* The subscription of an observer's process is, or will be, that of its filter.
Announced(c) ==
    \/ NoneOf(toHub[c], {"sub"}) /\ subs[c] = filter[c]
    \/ LastOf(toHub[c], {"sub"}, [kind |-> "sub", filter |-> filter[c]])

Asked(c) == LastOf(toHub[c], {"sub", "request"}, [kind |-> "request", filter |-> filter[c]])

\* The list once the replies that have arrived have replaced it.
Base(c) == IF arrived[c] = <<>> THEN list[c] ELSE arrived[c][Len(arrived[c])]

Settled(c) ==
    /\ NoneOf(toHub[c], {"sub", "request"})
    /\ Matching(Outcome(Base(c), toClient[c], filter[c]), Followed(c)) = Matching(journal, Followed(c))

\* The events in a queue of calls are in o, but for those before a request.
OwnEvents(q, o) ==
    \A i \in DOMAIN q :
        q[i].kind = "event" =>
            \/ q[i].element \in o
            \/ \E j \in DOMAIN q : j > i /\ q[j].kind = "request"

\* What holds of an observer.
ObserverInv(c) ==
    /\ OwnEvents(toHub[c], own[c])
    /\ coreUp /\ duplex[c] = "ready" => Announced(c) /\ (Asked(c) \/ Settled(c))

SharedInv == ConnectionInv /\ \A c \in Viewer : ObserverInv(c)
-----------------------------------------------------------------------------
(* What the messages of a queue make of a list *)

LEMMA HandledType ==
    ASSUME NEW l \in Seq(Element), NEW m \in Message, NEW f
    PROVE  Handled(l, m, f) \in Seq(Element)
<1>1. CASE m \in Replies
  <2>1. m.list \in Seq(Element)
    BY <1>1 DEF Replies
  <2> QED
    BY <1>1, <2>1 DEF Handled
<1>2. CASE m \notin Replies /\ m \in Events
  <2>1. m.element \in Element
    BY <1>2 DEF Events
  <2>2. Append(l, m.element) \in Seq(Element)
    BY <2>1
  <2> QED
    BY <1>2, <2>2 DEF Handled
<1>3. CASE m \notin Replies /\ m \notin Events
  BY <1>3 DEF Handled
<1> QED
  BY <1>1, <1>2, <1>3

\* The recursive function of Outcome.
IsHistory(F, l, q, f) ==
    \A i \in 0 .. Len(q) : F[i] = IF i = 0 THEN l ELSE Handled(F[i - 1], q[i], f)

LEMMA HistoryExists ==
    ASSUME NEW l \in Seq(Element), NEW f, NEW q \in Seq(Message)
    PROVE  \E F \in [0 .. Len(q) -> Seq(Element)] : IsHistory(F, l, q, f)
<1> DEFINE T == {k \in Seq(Message) : \E F \in [0 .. Len(k) -> Seq(Element)] : IsHistory(F, l, k, f)}
<1>1. <<>> \in T
  <2> DEFINE F == [i \in 0 .. 0 |-> l]
  <2>1. F \in [0 .. Len(<<>>) -> Seq(Element)] /\ IsHistory(F, l, <<>>, f)
    BY DEF IsHistory
  <2> QED
    BY <2>1
<1>2. ASSUME NEW k \in Seq(Message), NEW m \in Message, k \in T PROVE Append(k, m) \in T
  <2>1. PICK F \in [0 .. Len(k) -> Seq(Element)] : IsHistory(F, l, k, f)
    BY <1>2
  <2> DEFINE n == Len(k)
             G == [i \in 0 .. n + 1 |-> IF i <= n THEN F[i] ELSE Handled(F[n], m, f)]
  <2>2. Append(k, m) \in Seq(Message) /\ Len(Append(k, m)) = n + 1 /\ n \in Nat
    OBVIOUS
  <2>3. G \in [0 .. n + 1 -> Seq(Element)]
    <3>1. F[n] \in Seq(Element)
      BY <2>2
    <3>2. Handled(F[n], m, f) \in Seq(Element)
      BY <3>1, HandledType
    <3> QED
      BY <2>2, <3>2
  <2>4. IsHistory(G, l, Append(k, m), f)
    <3> SUFFICES ASSUME NEW i \in 0 .. n + 1
                 PROVE  G[i] = IF i = 0 THEN l ELSE Handled(G[i - 1], Append(k, m)[i], f)
      BY <2>2 DEF IsHistory
    <3>1. CASE i = 0
      BY <2>1, <3>1 DEF IsHistory
    <3>2. CASE i \in 1 .. n
      <4>1. Append(k, m)[i] = k[i] /\ G[i] = F[i] /\ G[i - 1] = F[i - 1]
        BY <3>2
      <4> QED
        BY <2>1, <3>2, <4>1 DEF IsHistory
    <3>3. CASE i = n + 1
      <4>1. Append(k, m)[i] = m /\ G[i - 1] = F[n]
        BY <3>3
      <4> QED
        BY <3>3, <4>1
    <3> QED
      BY <3>1, <3>2, <3>3
  <2> HIDE DEF G, n
  <2> QED
    BY <2>2, <2>3, <2>4
<1>3. Seq(Message) \subseteq T
  <2> HIDE DEF T
  <2> QED
    BY <1>1, <1>2, SeqSetInduction
<1> QED
  BY <1>3

LEMMA HistoryUnique ==
    ASSUME NEW l, NEW f, NEW q \in Seq(Message),
           NEW F, IsHistory(F, l, q, f), NEW G, IsHistory(G, l, q, f)
    PROVE  F[Len(q)] = G[Len(q)]
<1> DEFINE T == {n \in Nat : n <= Len(q) => F[n] = G[n]}
<1>1. 0 \in T
  BY DEF IsHistory
<1>2. ASSUME NEW n \in Nat, n \in T PROVE n + 1 \in T
  <2> SUFFICES ASSUME n + 1 <= Len(q) PROVE F[n + 1] = G[n + 1]
    OBVIOUS
  <2>1. F[n] = G[n]
    BY <1>2
  <2>2. n + 1 \in 0 .. Len(q) /\ n + 1 # 0 /\ (n + 1) - 1 = n
    OBVIOUS
  <2> QED
    BY <2>1, <2>2 DEF IsHistory
<1>3. Nat \subseteq T
  <2> HIDE DEF T
  <2> QED
    BY <1>1, <1>2, NatSetInduction
<1> QED
  BY <1>3

LEMMA OutcomeIsHistory ==
    ASSUME NEW l \in Seq(Element), NEW f, NEW q \in Seq(Message)
    PROVE  \E F \in [0 .. Len(q) -> Seq(Element)] : IsHistory(F, l, q, f) /\ Outcome(l, q, f) = F[Len(q)]
<1> DEFINE Body(F) == [i \in 0 .. Len(q) |-> IF i = 0 THEN l ELSE Handled(F[i - 1], q[i], f)]
           shown == CHOOSE F : F = Body(F)
<1>1. PICK F \in [0 .. Len(q) -> Seq(Element)] : IsHistory(F, l, q, f)
  BY HistoryExists
<1>2. F = Body(F)
  BY <1>1 DEF IsHistory
<1>3. shown = Body(shown)
  BY <1>2
<1>4. IsHistory(shown, l, q, f)
  <2> HIDE DEF shown
  <2> QED
    BY <1>3 DEF IsHistory
<1>5. Outcome(l, q, f) = shown[Len(q)]
  BY DEF Outcome
<1>6. F[Len(q)] = shown[Len(q)]
  <2> HIDE DEF shown
  <2> QED
    BY <1>1, <1>4, HistoryUnique
<1> QED
  BY <1>1, <1>5, <1>6

LEMMA OutcomeEmpty ==
    ASSUME NEW l \in Seq(Element), NEW f
    PROVE  Outcome(l, <<>>, f) = l
<1>1. PICK q \in Seq(Message) : q = <<>>
  <2>1. <<>> \in Seq(Message)
    OBVIOUS
  <2> QED
    BY <2>1, Zenon
<1>2. PICK F \in [0 .. Len(q) -> Seq(Element)] : IsHistory(F, l, q, f) /\ Outcome(l, q, f) = F[Len(q)]
  BY OutcomeIsHistory
<1> QED
  BY <1>1, <1>2 DEF IsHistory

\* A message at the end is handled last.
LEMMA OutcomeAppend ==
    ASSUME NEW l \in Seq(Element), NEW f, NEW q \in Seq(Message), NEW m \in Message
    PROVE  Outcome(l, Append(q, m), f) = Handled(Outcome(l, q, f), m, f)
<1>1. PICK k \in Seq(Message) : k = Append(q, m)
  <2>1. Append(q, m) \in Seq(Message)
    OBVIOUS
  <2> QED
    BY <2>1, Zenon
<1>2. Len(k) = Len(q) + 1 /\ k[Len(q) + 1] = m /\ Len(q) \in Nat
  BY <1>1
<1>3. \A i \in 1 .. Len(q) : q[i] = k[i]
  BY <1>1
<1>4. PICK F \in [0 .. Len(q) -> Seq(Element)] : IsHistory(F, l, q, f) /\ Outcome(l, q, f) = F[Len(q)]
  BY OutcomeIsHistory
<1>5. PICK G \in [0 .. Len(k) -> Seq(Element)] : IsHistory(G, l, k, f) /\ Outcome(l, k, f) = G[Len(k)]
  BY OutcomeIsHistory
<1>6. IsHistory(G, l, q, f)
  <2> SUFFICES ASSUME NEW i \in 0 .. Len(q)
               PROVE  G[i] = IF i = 0 THEN l ELSE Handled(G[i - 1], q[i], f)
    BY DEF IsHistory
  <2>1. i \in 0 .. Len(k)
    BY <1>2
  <2>2. G[i] = IF i = 0 THEN l ELSE Handled(G[i - 1], k[i], f)
    BY <1>5, <2>1 DEF IsHistory
  <2>3. i # 0 => q[i] = k[i]
    BY <1>2, <1>3
  <2> QED
    BY <2>2, <2>3
<1>7. F[Len(q)] = G[Len(q)]
  BY <1>4, <1>6, HistoryUnique
<1>8. G[Len(q) + 1] = Handled(G[Len(q)], m, f)
  <2>1. Len(q) + 1 \in 0 .. Len(k) /\ Len(q) + 1 # 0 /\ (Len(q) + 1) - 1 = Len(q)
    BY <1>2
  <2> QED
    BY <1>2, <1>5, <2>1 DEF IsHistory
<1> QED
  BY <1>1, <1>2, <1>4, <1>5, <1>7, <1>8

\* The message at the head is handled first.
LEMMA OutcomeHead ==
    ASSUME NEW l \in Seq(Element), NEW f, NEW q \in Seq(Message), q # <<>>
    PROVE  Outcome(l, q, f) = Outcome(Handled(l, Head(q), f), Tail(q), f)
<1> DEFINE T == {k \in Seq(Message) : k # <<>> =>
                     Outcome(l, k, f) = Outcome(Handled(l, Head(k), f), Tail(k), f)}
<1>1. <<>> \in T
  OBVIOUS
<1>2. ASSUME NEW k \in Seq(Message), NEW m \in Message, k \in T PROVE Append(k, m) \in T
  <2>1. Append(k, m) \in Seq(Message)
    OBVIOUS
  <2>2. Outcome(l, Append(k, m), f) = Handled(Outcome(l, k, f), m, f)
    BY OutcomeAppend
  <2>3. CASE k = <<>>
    <3>1. Head(Append(k, m)) = m /\ Tail(Append(k, m)) = <<>>
      BY <2>3
    <3>2. Outcome(l, k, f) = l
      BY <2>3, OutcomeEmpty
    <3>3. Handled(l, m, f) \in Seq(Element)
      BY HandledType
    <3>4. Outcome(Handled(l, m, f), <<>>, f) = Handled(l, m, f)
      BY <3>3, OutcomeEmpty
    <3> QED
      BY <2>1, <2>2, <3>1, <3>2, <3>4
  <2>4. CASE k # <<>>
    <3>1. Head(Append(k, m)) = Head(k) /\ Tail(Append(k, m)) = Append(Tail(k), m)
      BY <2>4
    <3>2. PICK t \in Seq(Message) : t = Tail(k)
      <4>1. Tail(k) \in Seq(Message)
        BY <2>4
      <4> QED
        BY <4>1, Zenon
    <3>3. PICK h \in Seq(Element) : h = Handled(l, Head(k), f)
      <4>1. Head(k) \in Message
        BY <2>4
      <4>2. Handled(l, Head(k), f) \in Seq(Element)
        BY <4>1, HandledType
      <4> QED
        BY <4>2, Zenon
    <3>4. Outcome(l, k, f) = Outcome(h, t, f)
      BY <1>2, <2>4, <3>2, <3>3
    <3>5. Outcome(h, Append(t, m), f) = Handled(Outcome(h, t, f), m, f)
      BY OutcomeAppend
    <3> QED
      BY <2>1, <2>2, <3>1, <3>2, <3>3, <3>4, <3>5
  <2> QED
    BY <2>3, <2>4
<1>3. Seq(Message) \subseteq T
  <2> HIDE DEF T
  <2> QED
    BY <1>1, <1>2, SeqSetInduction
<1> QED
  BY <1>3

LEMMA ElementsType ==
    ASSUME NEW q \in Seq(Message)
    PROVE  Elements(q) \in Seq(Element)
<1>1. PICK e \in Seq(Message) : e = Matching(q, Events)
  <2>1. Matching(q, Events) \in Seq(Message)
    BY MatchingType
  <2> QED
    BY <2>1, Zenon
<1>2. \A i \in DOMAIN e : e[i] \in Events
  BY <1>1, MatchingEntries
<1>3. \A i \in 1 .. Len(e) : e[i].element \in Element
  BY <1>2 DEF Events
<1>4. Elements(q) = [i \in 1 .. Len(e) |-> e[i].element]
  BY <1>1 DEF Elements
<1> QED
  BY <1>3, <1>4

LEMMA ElementsAppend ==
    ASSUME NEW q \in Seq(Message), NEW m \in Message
    PROVE  Elements(Append(q, m)) = IF m \in Events THEN Append(Elements(q), m.element) ELSE Elements(q)
<1>1. PICK e \in Seq(Message) : e = Matching(q, Events)
  <2>1. Matching(q, Events) \in Seq(Message)
    BY MatchingType
  <2> QED
    BY <2>1, Zenon
<1>2. Matching(Append(q, m), Events) = IF m \in Events THEN Append(e, m) ELSE e
  BY <1>1, MatchingAppend
<1>3. Elements(q) = [i \in 1 .. Len(e) |-> e[i].element]
  BY <1>1 DEF Elements
<1>4. CASE m \notin Events
  BY <1>1, <1>2, <1>4 DEF Elements
<1>5. CASE m \in Events
  <2>1. Elements(Append(q, m)) = [i \in 1 .. Len(Append(e, m)) |-> Append(e, m)[i].element]
    BY <1>2, <1>5 DEF Elements
  <2>2. m.element \in Element
    BY <1>5 DEF Events
  <2>3. Elements(q) \in Seq(Element) /\ Len(Elements(q)) = Len(e)
    BY <1>3, ElementsType
  <2>4. Len(Append(e, m)) = Len(e) + 1
    OBVIOUS
  <2>5. Append(Elements(q), m.element) = [i \in 1 .. Len(e) + 1 |-> Append(e, m)[i].element]
    BY <1>3, <2>2, <2>3
  <2> QED
    BY <1>5, <2>1, <2>4, <2>5
<1> QED
  BY <1>4, <1>5

LEMMA OutcomeType ==
    ASSUME NEW l \in Seq(Element), NEW f, NEW q \in Seq(Message)
    PROVE  Outcome(l, q, f) \in Seq(Element)
<1>1. PICK F \in [0 .. Len(q) -> Seq(Element)] : IsHistory(F, l, q, f) /\ Outcome(l, q, f) = F[Len(q)]
  BY OutcomeIsHistory
<1>2. Len(q) \in 0 .. Len(q)
  OBVIOUS
<1> QED
  BY <1>1, <1>2

\* Selecting twice is selecting once.
LEMMA MatchingTwice ==
    ASSUME NEW l \in Seq(Element), NEW f, NEW g, g \subseteq f
    PROVE  Matching(Matching(l, f), g) = Matching(l, g)
<1> DEFINE T == {k \in Seq(Element) : Matching(Matching(k, f), g) = Matching(k, g)}
<1>1. <<>> \in T
  BY MatchingEmpty
<1>2. ASSUME NEW k \in Seq(Element), NEW e \in Element, k \in T PROVE Append(k, e) \in T
  <2>1. Append(k, e) \in Seq(Element)
    OBVIOUS
  <2>2. PICK s \in Seq(Element) : s = Matching(k, f)
    BY MatchingType
  <2>3. Matching(s, g) = Matching(k, g)
    BY <1>2, <2>2
  <2>4. Matching(Append(k, e), f) = IF e \in f THEN Append(s, e) ELSE s
    BY <2>2, MatchingAppend
  <2>5. Matching(Append(k, e), g) = IF e \in g THEN Append(Matching(k, g), e) ELSE Matching(k, g)
    BY MatchingAppend
  <2>6. Matching(Append(s, e), g) = IF e \in g THEN Append(Matching(s, g), e) ELSE Matching(s, g)
    BY MatchingAppend
  <2>7. CASE e \in f
    BY <2>1, <2>3, <2>4, <2>5, <2>6, <2>7
  <2>8. CASE e \notin f
    BY <2>1, <2>3, <2>4, <2>5, <2>8
  <2> QED
    BY <2>7, <2>8
<1>3. Seq(Element) \subseteq T
  <2> HIDE DEF T
  <2> QED
    BY <1>1, <1>2, SeqSetInduction
<1> QED
  BY <1>3

\* Lists alike in the elements of g agree in fewer of them too.
LEMMA AlikeInFewer ==
    ASSUME NEW k \in Seq(Element), NEW l \in Seq(Element), NEW f, NEW g, g \subseteq f,
           Matching(k, f) = Matching(l, f)
    PROVE  Matching(k, g) = Matching(l, g)
<1>1. Matching(Matching(k, f), g) = Matching(k, g) /\ Matching(Matching(l, f), g) = Matching(l, g)
  BY MatchingTwice
<1> QED
  BY <1>1

\* An element that is not in g does not count.
LEMMA AlikeAppended ==
    ASSUME NEW l \in Seq(Element), NEW e \in Element, NEW g, e \notin g
    PROVE  Matching(Append(l, e), g) = Matching(l, g)
BY MatchingAppend

\* Lists that are alike stay alike when the same messages are handled.
LEMMA AlikeHandled ==
    ASSUME NEW k \in Seq(Element), NEW l \in Seq(Element), NEW m \in Message, NEW f, NEW g,
           Matching(k, g) = Matching(l, g)
    PROVE  Matching(Handled(k, m, f), g) = Matching(Handled(l, m, f), g)
<1>1. CASE m \in Replies
  BY <1>1 DEF Handled
<1>2. CASE m \notin Replies /\ m \in Events /\ m.element \in f
  <2>1. PICK x \in Element : x = m.element
    <3>1. m.element \in Element
      BY <1>2 DEF Events
    <3> QED
      BY <3>1, Zenon
  <2>2. Handled(k, m, f) = Append(k, x) /\ Handled(l, m, f) = Append(l, x)
    BY <1>2, <2>1 DEF Handled
  <2>3. /\ Matching(Append(k, x), g) = IF x \in g THEN Append(Matching(k, g), x) ELSE Matching(k, g)
        /\ Matching(Append(l, x), g) = IF x \in g THEN Append(Matching(l, g), x) ELSE Matching(l, g)
    BY MatchingAppend
  <2> QED
    BY <2>2, <2>3
<1>3. CASE m \notin Replies /\ ~ (m \in Events /\ m.element \in f)
  BY <1>3 DEF Handled
<1> QED
  BY <1>1, <1>2, <1>3

LEMMA AlikeOutcome ==
    ASSUME NEW k \in Seq(Element), NEW l \in Seq(Element), NEW q \in Seq(Message), NEW f, NEW g,
           Matching(k, g) = Matching(l, g)
    PROVE  Matching(Outcome(k, q, f), g) = Matching(Outcome(l, q, f), g)
<1> DEFINE T == {t \in Seq(Message) : Matching(Outcome(k, t, f), g) = Matching(Outcome(l, t, f), g)}
<1>1. <<>> \in T
  BY OutcomeEmpty
<1>2. ASSUME NEW t \in Seq(Message), NEW m \in Message, t \in T PROVE Append(t, m) \in T
  <2>1. Append(t, m) \in Seq(Message)
    OBVIOUS
  <2>2. PICK a \in Seq(Element), b \in Seq(Element) : a = Outcome(k, t, f) /\ b = Outcome(l, t, f)
    <3>1. Outcome(k, t, f) \in Seq(Element) /\ Outcome(l, t, f) \in Seq(Element)
      BY OutcomeType
    <3> QED
      BY <3>1, Zenon
  <2>3. Matching(Handled(a, m, f), g) = Matching(Handled(b, m, f), g)
    BY <1>2, <2>2, AlikeHandled
  <2>4. Outcome(k, Append(t, m), f) = Handled(a, m, f) /\ Outcome(l, Append(t, m), f) = Handled(b, m, f)
    BY <2>2, OutcomeAppend
  <2> QED
    BY <2>1, <2>3, <2>4
<1>3. Seq(Message) \subseteq T
  <2> HIDE DEF T
  <2> QED
    BY <1>1, <1>2, SeqSetInduction
<1> QED
  BY <1>3

LEMMA ConcatAppended ==
    ASSUME NEW b \in Seq(Element), NEW s \in Seq(Element), NEW x \in Element
    PROVE  Append(b \o s, x) = b \o Append(s, x)
<1>1. /\ Append(b \o s, x) = (b \o s) \o <<x>>
      /\ Append(s, x) = s \o <<x>> /\ <<x>> \in Seq(Element)
  OBVIOUS
<1> QED
  BY <1>1, ConcatAssociative

\* Without replies the elements of the events are added.
LEMMA OutcomeOfEvents ==
    ASSUME NEW l \in Seq(Element), NEW f, NEW g, g \subseteq f, NEW q \in Seq(Message),
           Matching(q, Replies) = <<>>
    PROVE  Matching(Outcome(l, q, f), g) = Matching(l, g) \o Matching(Elements(q), g)
<1> DEFINE T == {k \in Seq(Message) : (\A i \in DOMAIN k : k[i] \notin Replies) =>
                     Matching(Outcome(l, k, f), g) = Matching(l, g) \o Matching(Elements(k), g)}
<1>1. <<>> \in T
  <2>1. Outcome(l, <<>>, f) = l
    BY OutcomeEmpty
  <2>2. Elements(<<>>) = <<>>
    <3>1. Matching(<<>>, Events) = <<>>
      BY MatchingEmpty
    <3> QED
      BY <3>1 DEF Elements
  <2>3. Matching(<<>>, g) = <<>>
    BY MatchingEmpty
  <2>4. Matching(l, g) \in Seq(Element)
    BY MatchingType
  <2> QED
    BY <2>1, <2>2, <2>3, <2>4
<1>2. ASSUME NEW k \in Seq(Message), NEW m \in Message, k \in T PROVE Append(k, m) \in T
  <2>1. Append(k, m) \in Seq(Message)
    OBVIOUS
  <2> SUFFICES ASSUME \A i \in DOMAIN Append(k, m) : Append(k, m)[i] \notin Replies
               PROVE  Matching(Outcome(l, Append(k, m), f), g) = Matching(l, g) \o Matching(Elements(Append(k, m)), g)
    BY <2>1
  <2>2. m \notin Replies /\ \A i \in DOMAIN k : k[i] \notin Replies
    <3>1. Append(k, m)[Len(k) + 1] = m /\ Len(k) + 1 \in DOMAIN Append(k, m)
      OBVIOUS
    <3>2. \A i \in DOMAIN k : i \in DOMAIN Append(k, m) /\ Append(k, m)[i] = k[i]
      OBVIOUS
    <3> QED
      BY <3>1, <3>2
  <2>3. PICK o \in Seq(Element) : o = Outcome(l, k, f)
    <3>1. Outcome(l, k, f) \in Seq(Element)
      BY OutcomeType
    <3> QED
      BY <3>1, Zenon
  <2>4. Outcome(l, Append(k, m), f) = Handled(o, m, f)
    BY <2>3, OutcomeAppend
  <2>5. PICK e \in Seq(Element) : e = Elements(k)
    BY ElementsType
  <2>6. PICK s \in Seq(Element), b \in Seq(Element) : s = Matching(e, g) /\ b = Matching(l, g)
    <3>1. Matching(e, g) \in Seq(Element) /\ Matching(l, g) \in Seq(Element)
      BY MatchingType
    <3> QED
      BY <3>1, Zenon
  <2>7. Elements(Append(k, m)) = IF m \in Events THEN Append(e, m.element) ELSE e
    BY <2>5, ElementsAppend
  <2>8. Matching(o, g) = b \o s
    BY <1>2, <2>2, <2>3, <2>5, <2>6
  <2>9. CASE m \notin Events
    BY <2>2, <2>4, <2>6, <2>7, <2>8, <2>9 DEF Handled
  <2>10. CASE m \in Events
    <3>1. PICK x \in Element : x = m.element
      <4>1. m.element \in Element
        BY <2>10 DEF Events
      <4> QED
        BY <4>1, Zenon
    <3>2. Matching(Append(e, x), g) = IF x \in g THEN Append(s, x) ELSE s
      BY <2>6, MatchingAppend
    <3>3. Matching(Handled(o, m, f), g) = IF x \in g THEN Append(b \o s, x) ELSE b \o s
      <4>1. Handled(o, m, f) = IF x \in f THEN Append(o, x) ELSE o
        BY <2>2, <2>10, <3>1 DEF Handled
      <4>2. Matching(Append(o, x), g) = IF x \in g THEN Append(b \o s, x) ELSE b \o s
        <5>1. Matching(Append(o, x), g) = IF x \in g THEN Append(Matching(o, g), x) ELSE Matching(o, g)
          BY MatchingAppend
        <5> QED
          BY <2>8, <5>1, Zenon
      <4>3. CASE x \in f
        BY <4>1, <4>2, <4>3
      <4>4. CASE x \notin f
        BY <2>8, <4>1, <4>4
      <4> QED
        BY <4>3, <4>4
    <3>4. Append(b \o s, x) = b \o Append(s, x)
      BY ConcatAppended
    <3>5. Elements(Append(k, m)) = Append(e, x)
      BY <2>7, <2>10, <3>1
    <3>6. CASE x \in g
      BY <2>4, <2>6, <3>2, <3>3, <3>4, <3>5, <3>6
    <3>7. CASE x \notin g
      BY <2>4, <2>6, <3>2, <3>3, <3>5, <3>7
    <3> QED
      BY <3>6, <3>7
  <2> QED
    BY <2>9, <2>10
<1>3. Seq(Message) \subseteq T
  <2> HIDE DEF T
  <2> QED
    BY <1>1, <1>2, SeqSetInduction
<1>4. \A i \in DOMAIN q : q[i] \notin Replies
  BY MatchingEntries
<1> QED
  BY <1>3, <1>4

-----------------------------------------------------------------------------
(* Messages and queues *)

\* The set of a message is told by its kind.
LEMMA Kinds ==
    ASSUME NEW m \in Message
    PROVE  /\ m \in Requests <=> m.kind = "request"
           /\ m \in Replies <=> m.kind = "reply"
           /\ m \in Events <=> m.kind = "event"
           /\ m \in Opens <=> m.kind = "open"
           /\ m \in Openeds <=> m.kind = "opened"
           /\ m.kind \in {"open", "reqsubs", "opened", "subs", "sub", "request", "reply", "event"}
BY DEF Message, Requests, Replies, Events, Opens, Openeds

\* The messages without contents.
LEMMA Signals ==
    ASSUME NEW k \in {"open", "reqsubs", "opened", "subs"}
    PROVE  [kind |-> k] \in Message
BY DEF Message

LEMMA Calls ==
    ASSUME NEW f \in SUBSET Element
    PROVE  /\ [kind |-> "sub", filter |-> f] \in Message
           /\ [kind |-> "request", filter |-> f] \in Message
BY DEF Message, Requests

LEMMA Answers ==
    ASSUME NEW l \in Seq(Element), NEW e \in Element
    PROVE  /\ [kind |-> "reply", list |-> l] \in Message
           /\ [kind |-> "event", element |-> e] \in Message
BY DEF Message, Replies, Events

LEMMA CountType ==
    ASSUME NEW q \in Seq(Message), NEW M
    PROVE  Count(q, M) \in Nat
<1>1. PICK k \in Seq(Message) : k = Matching(q, M)
  <2>1. Matching(q, M) \in Seq(Message)
    BY MatchingType
  <2> QED
    BY <2>1, Zenon
<1> QED
  BY <1>1 DEF Count

LEMMA CountEmpty ==
    ASSUME NEW M
    PROVE  Count(<<>>, M) = 0
BY MatchingEmpty DEF Count

LEMMA CountAppend ==
    ASSUME NEW q \in Seq(Message), NEW m \in Message, NEW M
    PROVE  /\ Count(q, M) \in Nat
           /\ Count(Append(q, m), M) = Count(q, M) + (IF m \in M THEN 1 ELSE 0)
<1>1. PICK k \in Seq(Message) : k = Matching(q, M)
  <2>1. Matching(q, M) \in Seq(Message)
    BY MatchingType
  <2> QED
    BY <2>1, Zenon
<1>2. Matching(Append(q, m), M) = IF m \in M THEN Append(k, m) ELSE k
  BY <1>1, MatchingAppend
<1>3. Len(Append(k, m)) = Len(k) + 1 /\ Len(k) \in Nat
  OBVIOUS
<1> QED
  BY <1>1, <1>2, <1>3 DEF Count

LEMMA CountHead ==
    ASSUME NEW q \in Seq(Message), q # <<>>, NEW M
    PROVE  /\ Count(q, M) \in Nat /\ Count(Tail(q), M) \in Nat
           /\ Count(q, M) = Count(Tail(q), M) + (IF Head(q) \in M THEN 1 ELSE 0)
<1>1. PICK t \in Seq(Message) : t = Tail(q)
  <2>1. Tail(q) \in Seq(Message)
    OBVIOUS
  <2> QED
    BY <2>1, Zenon
<1>2. PICK k \in Seq(Message) : k = Matching(t, M)
  <2>1. Matching(t, M) \in Seq(Message)
    BY MatchingType
  <2> QED
    BY <2>1, Zenon
<1>3. Matching(q, M) = IF Head(q) \in M THEN <<Head(q)>> \o k ELSE k
  BY <1>1, <1>2, MatchingHead
<1>4. Len(<<Head(q)>> \o k) = Len(k) + 1 /\ Len(k) \in Nat
  OBVIOUS
<1> QED
  BY <1>1, <1>2, <1>3, <1>4 DEF Count

LEMMA NoneOfAppend ==
    ASSUME NEW q \in Seq(Message), NEW m \in Message, NEW K
    PROVE  NoneOf(Append(q, m), K) <=> NoneOf(q, K) /\ m.kind \notin K
<1>1. PICK k \in Seq(Message) : k = Append(q, m)
  <2>1. Append(q, m) \in Seq(Message)
    OBVIOUS
  <2> QED
    BY <2>1, Zenon
<1>2. Len(k) = Len(q) + 1 /\ k[Len(q) + 1] = m
  BY <1>1
<1>3. \A i \in 1 .. Len(q) : k[i] = q[i]
  BY <1>1
<1>4. DOMAIN k = 1 .. Len(k) /\ DOMAIN q = 1 .. Len(q) /\ Len(q) \in Nat
  OBVIOUS
<1> QED
  BY <1>1, <1>2, <1>3, <1>4 DEF NoneOf

LEMMA LastOfAppend ==
    ASSUME NEW q \in Seq(Message), NEW m \in Message, NEW K, NEW x
    PROVE  /\ LastOf(Append(q, m), K, m)
           /\ LastOf(q, K, x) /\ m.kind \notin K => LastOf(Append(q, m), K, x)
<1>1. PICK k \in Seq(Message) : k = Append(q, m)
  <2>1. Append(q, m) \in Seq(Message)
    OBVIOUS
  <2> QED
    BY <2>1, Zenon
<1>2. Len(k) = Len(q) + 1 /\ k[Len(q) + 1] = m
  BY <1>1
<1>3. \A i \in 1 .. Len(q) : k[i] = q[i]
  BY <1>1
<1>4. DOMAIN k = 1 .. Len(k) /\ DOMAIN q = 1 .. Len(q) /\ Len(q) \in Nat
  OBVIOUS
<1>5. LastOf(k, K, m)
  BY <1>2, <1>4 DEF LastOf
<1>6. ASSUME LastOf(q, K, x), m.kind \notin K PROVE LastOf(k, K, x)
  BY <1>2, <1>3, <1>4, <1>6 DEF LastOf
<1> QED
  BY <1>1, <1>5, <1>6

LEMMA NoneOfTail ==
    ASSUME NEW q \in Seq(Message), q # <<>>, NEW K
    PROVE  NoneOf(q, K) <=> NoneOf(Tail(q), K) /\ Head(q).kind \notin K
<1>1. PICK t \in Seq(Message) : t = Tail(q)
  <2>1. Tail(q) \in Seq(Message)
    OBVIOUS
  <2> QED
    BY <2>1, Zenon
<1>2. Len(q) = Len(t) + 1 /\ Head(q) = q[1]
  BY <1>1
<1>3. \A i \in 1 .. Len(t) : t[i] = q[i + 1]
  BY <1>1
<1>4. DOMAIN t = 1 .. Len(t) /\ DOMAIN q = 1 .. Len(q) /\ Len(t) \in Nat
  OBVIOUS
<1>5. ASSUME NoneOf(q, K) PROVE NoneOf(t, K) /\ Head(q).kind \notin K
  <2>1. \A i \in 1 .. Len(t) : i + 1 \in DOMAIN q
    BY <1>2, <1>4
  <2>2. 1 \in DOMAIN q
    BY <1>2, <1>4
  <2> QED
    BY <1>2, <1>3, <1>4, <1>5, <2>1, <2>2 DEF NoneOf
<1>6. ASSUME NoneOf(t, K), Head(q).kind \notin K PROVE NoneOf(q, K)
  <2> SUFFICES ASSUME NEW i \in 1 .. Len(q) PROVE q[i].kind \notin K
    BY <1>4 DEF NoneOf
  <2>1. CASE i = 1
    BY <1>2, <1>6, <2>1
  <2>2. CASE i # 1
    <3>1. i - 1 \in 1 .. Len(t) /\ (i - 1) + 1 = i
      BY <1>2, <1>4, <2>2
    <3> QED
      BY <1>3, <1>4, <1>6, <3>1 DEF NoneOf
  <2> QED
    BY <2>1, <2>2
<1> QED
  BY <1>1, <1>5, <1>6

LEMMA LastOfTail ==
    ASSUME NEW q \in Seq(Message), q # <<>>, NEW K, NEW x, LastOf(q, K, x)
    PROVE  LastOf(Tail(q), K, x) \/ (Head(q) = x /\ NoneOf(Tail(q), K))
<1>1. PICK t \in Seq(Message) : t = Tail(q)
  <2>1. Tail(q) \in Seq(Message)
    OBVIOUS
  <2> QED
    BY <2>1, Zenon
<1>2. Len(q) = Len(t) + 1 /\ Head(q) = q[1]
  BY <1>1
<1>3. \A i \in 1 .. Len(t) : t[i] = q[i + 1]
  BY <1>1
<1>4. DOMAIN t = 1 .. Len(t) /\ DOMAIN q = 1 .. Len(q) /\ Len(t) \in Nat
  OBVIOUS
<1>5. PICK i \in 1 .. Len(q) : q[i] = x /\ \A j \in 1 .. Len(q) : j > i => q[j].kind \notin K
  BY <1>4 DEF LastOf
<1>6. \A j \in 1 .. Len(t) : j + 1 \in 1 .. Len(q)
  BY <1>2, <1>4
<1>7. CASE i = 1
  <2>1. \A j \in 1 .. Len(t) : t[j].kind \notin K
    BY <1>3, <1>5, <1>6, <1>7
  <2> QED
    BY <1>1, <1>2, <1>4, <1>5, <1>7, <2>1 DEF NoneOf
<1>8. CASE i # 1
  <2>1. i - 1 \in 1 .. Len(t) /\ (i - 1) + 1 = i
    BY <1>2, <1>4, <1>8
  <2>2. t[i - 1] = x
    BY <1>3, <1>5, <2>1
  <2>3. \A j \in 1 .. Len(t) : j > i - 1 => t[j].kind \notin K
    BY <1>3, <1>5, <1>6
  <2>4. LastOf(t, K, x)
    BY <1>4, <2>1, <2>2, <2>3 DEF LastOf
  <2> QED
    BY <1>1, <2>4
<1> QED
  BY <1>7, <1>8

-----------------------------------------------------------------------------
(* Types *)

\* What calling methods of the core does to the queues.
LEMMA CallEffect ==
    ASSUME TypeOK, NEW c \in Client, NEW ms \in Seq(Message), Call(c, ms)
    PROVE  /\ toHub' \in [Client -> Seq(Message)]
           /\ toHub'[c] = IF coreUp THEN toHub[c] \o ms ELSE toHub[c]
           /\ \A d \in Client \ {c} : toHub'[d] = toHub[d]
BY DEF TypeOK, Call

\* What sending from the core does to them.
LEMMA SentEffect ==
    ASSUME TypeOK, NEW cs, NEW m \in Message, toClient' = SentTo(cs, m)
    PROVE  /\ toClient' \in [Client -> Seq(Message)]
           /\ \A d \in Client : toClient'[d] = IF d \in cs THEN Append(toClient[d], m) ELSE toClient[d]
BY DEF TypeOK, SentTo

LEMMA ObservedType ==
    ASSUME TypeOK, NEW c \in Client, NEW e \in Element
    PROVE  Observed(c, e) \in Seq(Element)
BY DEF TypeOK, Observed

\* The calls of a client are messages.
LEMMA CallsType ==
    ASSUME TypeOK, NEW c \in Client, NEW f \in SUBSET Element
    PROVE  /\ Announce(f) \in Seq(Message) /\ Reconstruct(f) \in Seq(Message)
           /\ ReadyCalls(c) \in Seq(Message)
           /\ << [kind |-> "open"] >> \in Seq(Message)
<1>1. filter[c] \in SUBSET Element
  BY DEF TypeOK
<1>2. ASSUME NEW g \in SUBSET Element PROVE Announce(g) \in Seq(Message) /\ Reconstruct(g) \in Seq(Message)
  BY Calls DEF Announce, Reconstruct
<1>3. << [kind |-> "reqsubs"] >> \in Seq(Message) /\ << [kind |-> "open"] >> \in Seq(Message)
  BY Signals
<1>4. Announce(filter[c]) \in Seq(Message) /\ Reconstruct(filter[c]) \in Seq(Message)
  BY <1>1, <1>2
<1> QED
  BY <1>2, <1>3, <1>4 DEF ReadyCalls

\* The message that is handled, and what is left.
LEMMA HeadType ==
    ASSUME NEW q \in Seq(Message), q # <<>>
    PROVE  Head(q) \in Message /\ Tail(q) \in Seq(Message)
OBVIOUS

LEMMA TypeInit ==
    Init => TypeOK
<1> SUFFICES ASSUME Init PROVE TypeOK
  OBVIOUS
<1>1. filter \in [Client -> SUBSET Element]
  BY FiltersAssumption DEF Init
<1> QED
  BY <1>1 DEF Init, TypeOK

LEMMA TypeHandle ==
    ASSUME TypeOK, NEW c \in Client, Handle(c)
    PROVE  TypeOK'
<1> DEFINE m == Head(toHub[c])
<1>1. toHub[c] \in Seq(Message) /\ toHub[c] # <<>>
  BY DEF TypeOK, Handle
<1>2. m \in Message
  BY <1>1
<1>3. toHub' \in [Client -> Seq(Message)]
  BY <1>1 DEF TypeOK, Handle
<1>4. UNCHANGED <<coreUp, filter, list, arrived, late, own, duplex, peerSubs, submitted, posted, filterings, stops>>
  BY DEF Handle, boundVars, markVars
<1>5. HubOpen(c, m) \/ HubRequestSubscriptions(c, m) \/ HubSubscribe(c, m)
         \/ HubRequest(c, m) \/ HubEvent(c, m)
  BY DEF Handle
<1> HIDE DEF m
<1>6. CASE HubOpen(c, m)
  <2>1. toClient' \in [Client -> Seq(Message)]
    BY <1>6, Signals, SentEffect DEF HubOpen
  <2> QED
    BY <1>3, <1>4, <1>6, <2>1 DEF HubOpen, TypeOK
<1>7. CASE HubRequestSubscriptions(c, m)
  <2>1. toClient' \in [Client -> Seq(Message)]
    BY <1>7, Signals, SentEffect DEF HubRequestSubscriptions
  <2> QED
    BY <1>3, <1>4, <1>7, <2>1 DEF HubRequestSubscriptions, TypeOK
<1>8. CASE HubSubscribe(c, m)
  <2>1. toClient' \in [Client -> Seq(Message)]
    BY <1>8, Signals, SentEffect DEF HubSubscribe
  <2>2. m.filter \in SUBSET Element
    BY <1>2, <1>8 DEF HubSubscribe, Message, Requests, Replies, Events
  <2> QED
    BY <1>3, <1>4, <1>8, <2>1, <2>2 DEF HubSubscribe, TypeOK
<1>9. CASE HubRequest(c, m)
  <2>1. Matching(journal, m.filter) \in Seq(Element)
    BY MatchingType DEF TypeOK
  <2>2. [kind |-> "reply", list |-> Matching(journal, m.filter)] \in Message
    BY <2>1 DEF Message, Replies
  <2>3. toClient' \in [Client -> Seq(Message)]
    BY <1>9, <2>2, SentEffect DEF HubRequest
  <2> QED
    BY <1>3, <1>4, <1>9, <2>3 DEF HubRequest, TypeOK
<1>10. CASE HubEvent(c, m)
  <2>1. toClient' \in [Client -> Seq(Message)]
    BY <1>2, <1>10, SentEffect DEF HubEvent
  <2>2. m.element \in Element
    BY <1>2, <1>10 DEF HubEvent, Message, Requests, Replies, Events
  <2>3. journal' \in Seq(Element)
    BY <1>10, <2>2 DEF HubEvent, TypeOK
  <2> QED
    BY <1>3, <1>4, <1>10, <2>1, <2>3 DEF HubEvent, TypeOK
<1> QED
  BY <1>5, <1>6, <1>7, <1>8, <1>9, <1>10

LEMMA TypeReceive ==
    ASSUME TypeOK, NEW c \in Client, Receive(c)
    PROVE  TypeOK'
<1> DEFINE m == Head(toClient[c])
<1>1. toClient[c] \in Seq(Message) /\ toClient[c] # <<>>
  BY DEF TypeOK, Receive
<1>2. m \in Message
  BY <1>1
<1>3. toClient' \in [Client -> Seq(Message)]
  BY <1>1 DEF TypeOK, Receive
<1>4. UNCHANGED <<coreUp, journal, filter, toHub, clients, subs, duplex, own, posted, filterings, stops>>
  BY DEF Receive, boundVars
<1>5. peerSubs' \in [Client -> BOOLEAN] /\ submitted' \in [Client -> Nat]
  <2>1. submitted[c] \in Nat
    BY DEF TypeOK
  <2>2. submitted' = submitted \/ submitted' = [submitted EXCEPT ![c] = IF @ > 0 THEN @ - 1 ELSE 0]
    BY DEF Receive
  <2>3. submitted' \in [Client -> Nat]
    BY <2>1, <2>2 DEF TypeOK
  <2>4. peerSubs' = peerSubs \/ peerSubs' = [peerSubs EXCEPT ![c] = TRUE]
    BY DEF Receive
  <2> QED
    BY <2>3, <2>4 DEF TypeOK
<1>6. m.kind = "event" => m.element \in Element
  BY <1>2 DEF Message, Requests, Replies, Events
<1>7. list' \in [Client -> Seq(Element)] /\ late' \in [Client -> SUBSET Element]
  <2>1. m.kind = "event" => Observed(c, m.element) \in Seq(Element)
    BY <1>6, ObservedType
  <2>2. m.kind # "event" => list' = list /\ late' = late
    BY DEF Receive
  <2>3. m.kind = "event" => list' = [list EXCEPT ![c] = Observed(c, m.element)] /\ MarkLate(c, m.element)
    BY DEF Receive
  <2>4. m.kind = "event" => late' \in [Client -> SUBSET Element]
    <3> HIDE DEF m
    <3>1. ASSUME NEW e \in Element, MarkLate(c, e) PROVE late' \in [Client -> SUBSET Element]
      BY <3>1 DEF MarkLate, TypeOK
    <3> QED
      BY <1>6, <2>3, <3>1
  <2>5. m.kind = "event" => list' \in [Client -> Seq(Element)]
    BY <2>1, <2>3 DEF TypeOK
  <2> QED
    BY <2>2, <2>4, <2>5 DEF TypeOK
<1>8. arrived' \in [Client -> Seq(Seq(Element))]
  <2>1. arrived \in [Client -> Seq(Seq(Element))]
    BY DEF TypeOK
  <2>2. CASE m.kind = "reply"
    <3>1. m.list \in Seq(Element)
      BY <1>2, <2>2 DEF Message, Requests, Replies, Events
    <3>2. PICK l \in Seq(Element) : l = m.list
      BY <3>1, Zenon
    <3>3. PICK a \in Seq(Seq(Element)) : a = arrived[c]
      BY <2>1
    <3>4. Append(a, l) \in Seq(Seq(Element))
      OBVIOUS
    <3>5. arrived' = [arrived EXCEPT ![c] = IF submitted[c] > 0 THEN Append(a, l) ELSE a]
      BY <2>1, <2>2, <3>2, <3>3 DEF Receive
    <3> QED
      BY <2>1, <3>3, <3>4, <3>5
  <2>3. CASE m.kind # "reply"
    <3>1. arrived' = arrived
      BY <2>3 DEF Receive
    <3> QED
      BY <2>1, <3>1
  <2> QED
    BY <2>2, <2>3
<1> QED
  BY <1>3, <1>4, <1>5, <1>7, <1>8 DEF TypeOK

LEMMA TypeReplace ==
    ASSUME TypeOK, NEW c \in Client, Replace(c)
    PROVE  TypeOK'
<1>1. PICK a \in Seq(Seq(Element)) : a = arrived[c]
  BY DEF TypeOK
<1>2. a # <<>> /\ arrived' = [arrived EXCEPT ![c] = Tail(a)] /\ list' = [list EXCEPT ![c] = Head(a)]
  BY <1>1 DEF Replace, Replaced
<1>3. Tail(a) \in Seq(Seq(Element)) /\ Head(a) \in Seq(Element)
  BY <1>2
<1>4. arrived' \in [Client -> Seq(Seq(Element))]
  BY <1>2, <1>3 DEF TypeOK
<1>5. list' \in [Client -> Seq(Element)]
  BY <1>2, <1>3 DEF TypeOK
<1>6. UNCHANGED <<coreUp, journal, filter, toHub, toClient, clients, subs, duplex, peerSubs, submitted,
                  late, own, posted, filterings, stops>>
  BY DEF Replace, linkVars, markVars, boundVars
<1> QED
  BY <1>4, <1>5, <1>6 DEF TypeOK

\* The marks keep their types.
LEMMA TypeMarks ==
    ASSUME TypeOK, NEW c \in Client, NEW requested, MarkAnew(c, requested)
    PROVE  late' \in [Client -> SUBSET Element] /\ own' \in [Client -> SUBSET Element]
BY DEF TypeOK, MarkAnew

LEMMA TypeNext ==
    TypeOK /\ [Next]_vars => TypeOK'
<1> SUFFICES ASSUME TypeOK, [Next]_vars PROVE TypeOK'
  OBVIOUS
<1>1. CASE CoreStop
  <2>1. subs' \in [Client -> SUBSET Element]
    BY <1>1 DEF CoreStop
  <2>2. toHub' \in [Client -> Seq(Message)]
    BY <1>1 DEF CoreStop
  <2>3. coreUp' \in BOOLEAN /\ journal' \in Seq(Element) /\ clients' \subseteq Client
    <3>1. coreUp' \in BOOLEAN
      BY <1>1, Zenon DEF CoreStop
    <3>2. journal' \in Seq(Element)
      BY <1>1 DEF CoreStop
    <3>3. clients' \subseteq Client
      BY <1>1 DEF CoreStop
    <3> QED
      BY <3>1, <3>2, <3>3
  <2>5. stops' \in Nat
    BY <1>1 DEF CoreStop, TypeOK
  <2>4. UNCHANGED <<filter, list, toClient, arrived, late, own, duplex, peerSubs, submitted, posted, filterings>>
    BY <1>1 DEF CoreStop, markVars
  <2> QED
    BY <2>1, <2>2, <2>3, <2>4, <2>5 DEF TypeOK
<1>2. CASE CoreStart
  BY <1>2 DEF CoreStart, TypeOK, linkVars, markVars, boundVars
<1>3. ASSUME NEW e \in Element, PostCore(e) PROVE TypeOK'
  <2>1. [kind |-> "event", element |-> e] \in Message
    BY DEF Message, Events
  <2>2. toClient' \in [Client -> Seq(Message)]
    BY <1>3, <2>1, SentEffect DEF PostCore
  <2>3. journal' \in Seq(Element)
    BY <1>3 DEF PostCore, TypeOK
  <2> QED
    BY <1>3, <2>2, <2>3 DEF PostCore, TypeOK, linkVars, markVars
<1>4. ASSUME NEW c \in Client, Connect(c) PROVE TypeOK'
  <2>1. toHub' \in [Client -> Seq(Message)]
    BY <1>4, CallsType, CallEffect DEF Connect
  <2> QED
    BY <1>4, <2>1 DEF Connect, TypeOK, markVars, boundVars
<1>5. ASSUME NEW c \in Client, Disconnect(c) PROVE TypeOK'
  BY <1>5 DEF Disconnect, TypeOK, markVars, boundVars
<1>6. ASSUME NEW c \in Client, Ready(c) PROVE TypeOK'
  <2>1. ReadyCalls(c) \in Seq(Message)
    BY CallsType
  <2>2. toHub' \in [Client -> Seq(Message)]
    BY <1>6, <2>1, CallEffect DEF Ready
  <2>3. toClient' \in [Client -> Seq(Message)]
    BY <1>6 DEF Ready, TypeOK
  <2>4. late' \in [Client -> SUBSET Element] /\ own' \in [Client -> SUBSET Element]
    BY <1>6, TypeMarks DEF Ready
  <2>5. duplex' \in [Client -> {"none", "opening", "ready"}] /\ submitted' \in [Client -> Nat]
    BY <1>6 DEF Ready, TypeOK
  <2>6. UNCHANGED <<coreUp, journal, filter, list, arrived, clients, subs, peerSubs, posted, filterings, stops>>
    BY <1>6 DEF Ready, boundVars
  <2> QED
    BY <2>2, <2>3, <2>4, <2>5, <2>6 DEF TypeOK
<1>7. ASSUME NEW c \in Client, Receive(c) PROVE TypeOK'
  BY <1>7, TypeReceive
<1>8. ASSUME NEW c \in Client, Handle(c) PROVE TypeOK'
  BY <1>8, TypeHandle
<1>9. ASSUME NEW c \in Client, NEW e \in Element, Post(c, e) PROVE TypeOK'
  <2>1. << [kind |-> "event", element |-> e] >> \in Seq(Message)
    BY DEF Message, Events
  <2>2. toHub' \in [Client -> Seq(Message)]
    <3>1. CASE duplex[c] # "none" /\ peerSubs[c]
      BY <1>9, <2>1, <3>1, CallEffect DEF Post
    <3>2. CASE ~ (duplex[c] # "none" /\ peerSubs[c])
      BY <1>9, <3>2 DEF Post, TypeOK
    <3> QED
      BY <3>1, <3>2
  <2>3. list' \in [Client -> Seq(Element)]
    BY <1>9, ObservedType DEF Post, TypeOK
  <2>4. own' \in [Client -> SUBSET Element]
    BY <1>9 DEF Post, TypeOK
  <2>5. late' \in [Client -> SUBSET Element]
    BY <1>9 DEF Post, MarkLate, TypeOK
  <2> QED
    BY <1>9, <2>2, <2>3, <2>4, <2>5 DEF Post, TypeOK, linkVars
<1>10. ASSUME NEW c \in Client, NEW f \in Filters, SetFilter(c, f) PROVE TypeOK'
  <2>1. f \in SUBSET Element
    BY FiltersAssumption
  <2> DEFINE ms == (IF duplex[c] # "none" THEN Announce(f) ELSE <<>>)
                       \o (IF duplex[c] = "ready" THEN Reconstruct(f) ELSE <<>>)
  <2>2. ms \in Seq(Message)
    BY <2>1, CallsType
  <2>3. Call(c, ms)
    BY <1>10 DEF SetFilter
  <2>4. toHub' \in [Client -> Seq(Message)]
    <3> HIDE DEF ms
    <3> QED
      BY <2>2, <2>3, CallEffect
  <2>5. filter' \in [Client -> SUBSET Element] /\ submitted' \in [Client -> Nat]
    BY <1>10, <2>1 DEF SetFilter, TypeOK
  <2>6. late' \in [Client -> SUBSET Element] /\ own' \in [Client -> SUBSET Element]
    BY <1>10, TypeMarks DEF SetFilter
  <2> QED
    BY <1>10, <2>4, <2>5, <2>6 DEF SetFilter, TypeOK
<1>11. ASSUME NEW c \in Client, Replace(c) PROVE TypeOK'
  BY <1>11, TypeReplace
<1>12. CASE UNCHANGED vars
  BY <1>12 DEF vars, linkVars, markVars, boundVars, TypeOK
<1> QED
  BY <1>1, <1>2, <1>3, <1>4, <1>5, <1>6, <1>7, <1>8, <1>9, <1>10, <1>11, <1>12 DEF Next

-----------------------------------------------------------------------------
(* Requests, replies and duplex objects *)

LEMMA ConnectionInit ==
    Init => ConnectionInv
<1> SUFFICES ASSUME Init PROVE ConnectionInv
  OBVIOUS
<1>1. TypeOK
  BY TypeInit
<1>2. ASSUME NEW c \in Client PROVE DuplexInv(c)
  BY CountEmpty DEF Init, DuplexInv
<1> QED
  BY <1>1, <1>2 DEF ConnectionInv

\* A step that leaves alone what DuplexInv says of a client.
LEMMA DuplexUnchanged ==
    ASSUME NEW d \in Client, DuplexInv(d), coreUp' = coreUp, d \in clients' <=> d \in clients,
           duplex'[d] = duplex[d], submitted'[d] = submitted[d],
           toHub'[d] = toHub[d], toClient'[d] = toClient[d]
    PROVE  DuplexInv(d)'
BY DEF DuplexInv

LEMMA ConnectionStep_Connect ==
    ASSUME ConnectionInv, NEW c \in Client, Connect(c), NEW d \in Client
    PROVE  DuplexInv(d)'
<1> DEFINE m == [kind |-> "open"]
<1>1. TypeOK /\ DuplexInv(c) /\ DuplexInv(d)
  BY DEF ConnectionInv
<1>2. m \in Message /\ << m >> \in Seq(Message)
  BY Signals
<1>3. UNCHANGED <<coreUp, clients, submitted, toClient>>
  BY DEF Connect
<1>4. /\ toHub'[c] = toHub[c] \o <<m>>
      /\ \A x \in Client \ {c} : toHub'[x] = toHub[x]
  BY <1>1, <1>2, CallEffect DEF Connect
<1>5. CASE d # c
  <2>1. duplex'[d] = duplex[d]
    BY <1>5 DEF Connect
  <2> QED
    BY <1>1, <1>3, <1>4, <1>5, <2>1, DuplexUnchanged
<1>6. CASE d = c
  <2>1. duplex[c] = "none" /\ coreUp /\ toHub[c] = <<>> /\ toClient[c] = <<>> /\ submitted[c] = 0 /\ c \notin clients
    BY <1>1 DEF Connect, DuplexInv
  <2>2. PICK q \in Seq(Message) : q = <<>>
    <3>1. <<>> \in Seq(Message)
      OBVIOUS
    <3> QED
      BY <3>1, Zenon
  <2>3. toHub'[c] = Append(q, m)
    BY <1>2, <1>4, <2>1, <2>2
  <2>4. duplex'[c] = "opening"
    BY <1>1 DEF Connect, TypeOK
  <2>5. m \in Opens /\ m \notin Requests
    BY <1>2, Kinds
  <2>6. Count(Append(q, m), Opens) = 1 /\ Count(Append(q, m), Requests) = 0
    <3> HIDE DEF m
    <3>1. Count(q, Opens) = 0 /\ Count(q, Requests) = 0
      BY <2>2, CountEmpty
    <3>2. /\ Count(Append(q, m), Opens) = Count(q, Opens) + (IF m \in Opens THEN 1 ELSE 0)
          /\ Count(Append(q, m), Requests) = Count(q, Requests) + (IF m \in Requests THEN 1 ELSE 0)
      BY <1>2, CountAppend
    <3> QED
      BY <2>5, <3>1, <3>2
  <2>7. Count(toClient'[c], Replies) = 0 /\ Count(toClient'[c], Openeds) = 0
    BY <1>3, <2>1, CountEmpty
  <2> HIDE DEF m
  <2> QED
    BY <1>3, <1>6, <2>1, <2>3, <2>4, <2>6, <2>7 DEF DuplexInv
<1> QED
  BY <1>5, <1>6

LEMMA ConnectionStep_Disconnect ==
    ASSUME ConnectionInv, NEW c \in Client, Disconnect(c), NEW d \in Client
    PROVE  DuplexInv(d)'
<1>1. TypeOK /\ DuplexInv(c) /\ DuplexInv(d)
  BY DEF ConnectionInv
<1>2. UNCHANGED <<coreUp, clients, toHub>> /\ ~ coreUp
  BY DEF Disconnect
<1>3. CASE d # c
  <2>1. duplex'[d] = duplex[d] /\ submitted'[d] = submitted[d] /\ toClient'[d] = toClient[d]
    BY <1>3 DEF Disconnect
  <2> QED
    BY <1>1, <1>2, <2>1, DuplexUnchanged
<1>4. CASE d = c
  <2>1. duplex'[c] = "none" /\ submitted'[c] = 0 /\ toClient'[c] = <<>>
    BY <1>1 DEF Disconnect, TypeOK
  <2> QED
    BY <1>1, <1>2, <1>4, <2>1 DEF DuplexInv
<1> QED
  BY <1>3, <1>4

\* What Ready calls: the exchange of subscriptions, then the request of an observer.
LEMMA ReadyQueue ==
    ASSUME TypeOK, NEW c \in Client, NEW q \in Seq(Message)
    PROVE  LET s == Append(Append(q, [kind |-> "reqsubs"]), [kind |-> "sub", filter |-> filter[c]])
           IN  q \o ReadyCalls(c)
                 = IF c \in Viewer THEN Append(s, [kind |-> "request", filter |-> filter[c]]) ELSE s
<1>1. filter[c] \in SUBSET Element
  BY DEF TypeOK
<1>2. PICK a \in Message : a = [kind |-> "reqsubs"]
  <2>1. [kind |-> "reqsubs"] \in Message
    BY Signals
  <2> QED
    BY <2>1, Zenon
<1>3. PICK b \in Message, r \in Message :
         b = [kind |-> "sub", filter |-> filter[c]] /\ r = [kind |-> "request", filter |-> filter[c]]
  <2>1. [kind |-> "sub", filter |-> filter[c]] \in Message /\ [kind |-> "request", filter |-> filter[c]] \in Message
    BY <1>1, Calls
  <2> QED
    BY <2>1, Zenon
<1>4. ReadyCalls(c) = <<a>> \o <<b>> \o (IF c \in Viewer THEN <<r>> ELSE <<>>)
  BY <1>2, <1>3 DEF ReadyCalls, Announce, Reconstruct
<1>5. q \o (<<a>> \o <<b>> \o <<r>>) = Append(Append(Append(q, a), b), r)
  OBVIOUS
<1>6. q \o (<<a>> \o <<b>> \o <<>>) = Append(Append(q, a), b)
  OBVIOUS
<1> QED
  BY <1>2, <1>3, <1>4, <1>5, <1>6

LEMMA ReadyCounts ==
    ASSUME TypeOK, NEW c \in Client, NEW q \in Seq(Message)
    PROVE  /\ Count(q \o ReadyCalls(c), Requests) = Count(q, Requests) + (IF c \in Viewer THEN 1 ELSE 0)
           /\ Count(q \o ReadyCalls(c), Opens) = Count(q, Opens)
<1>1. filter[c] \in SUBSET Element
  BY DEF TypeOK
<1>2. PICK a \in Message : a = [kind |-> "reqsubs"]
  <2>1. [kind |-> "reqsubs"] \in Message
    BY Signals
  <2> QED
    BY <2>1, Zenon
<1>3. PICK b \in Message, r \in Message :
         b = [kind |-> "sub", filter |-> filter[c]] /\ r = [kind |-> "request", filter |-> filter[c]]
  <2>1. [kind |-> "sub", filter |-> filter[c]] \in Message /\ [kind |-> "request", filter |-> filter[c]] \in Message
    BY <1>1, Calls
  <2> QED
    BY <2>1, Zenon
<1>4. a.kind = "reqsubs" /\ b.kind = "sub" /\ r.kind = "request"
  BY <1>2, <1>3
<1>5. a \notin Requests /\ b \notin Requests /\ r \in Requests /\ a \notin Opens /\ b \notin Opens /\ r \notin Opens
  BY <1>4, Kinds
<1>6. PICK q1 \in Seq(Message) : q1 = Append(q, a)
  <2>1. Append(q, a) \in Seq(Message)
    OBVIOUS
  <2> QED
    BY <2>1, Zenon
<1>7. PICK q2 \in Seq(Message) : q2 = Append(q1, b)
  <2>1. Append(q1, b) \in Seq(Message)
    OBVIOUS
  <2> QED
    BY <2>1, Zenon
<1>8. q \o ReadyCalls(c) = IF c \in Viewer THEN Append(q2, r) ELSE q2
  BY <1>2, <1>3, <1>6, <1>7, ReadyQueue
<1>9. ASSUME NEW M, a \notin M, b \notin M
      PROVE  /\ Count(q2, M) = Count(q, M) /\ Count(q, M) \in Nat
             /\ Count(Append(q2, r), M) = Count(q, M) + (IF r \in M THEN 1 ELSE 0)
  <2>1. Count(q, M) \in Nat /\ Count(q1, M) = Count(q, M)
    BY <1>6, <1>9, CountAppend
  <2>2. Count(q2, M) = Count(q1, M)
    BY <1>7, <1>9, CountAppend
  <2>3. Count(Append(q2, r), M) = Count(q2, M) + (IF r \in M THEN 1 ELSE 0)
    BY CountAppend
  <2> QED
    BY <2>1, <2>2, <2>3
<1>10. /\ Count(q2, Requests) = Count(q, Requests) /\ Count(q, Requests) \in Nat
       /\ Count(Append(q2, r), Requests) = Count(q, Requests) + 1
  BY <1>5, <1>9
<1>11. /\ Count(q2, Opens) = Count(q, Opens) /\ Count(q, Opens) \in Nat
       /\ Count(Append(q2, r), Opens) = Count(q, Opens)
  BY <1>5, <1>9
<1>12. CASE c \in Viewer
  BY <1>8, <1>10, <1>11, <1>12
<1>13. CASE c \notin Viewer
  BY <1>8, <1>10, <1>11, <1>13
<1> QED
  BY <1>12, <1>13

LEMMA ConnectionStep_Ready ==
    ASSUME ConnectionInv, NEW c \in Client, Ready(c), NEW d \in Client
    PROVE  DuplexInv(d)'
<1>1. TypeOK /\ DuplexInv(c) /\ DuplexInv(d)
  BY DEF ConnectionInv
<1>2. UNCHANGED <<coreUp, clients>>
  BY DEF Ready
<1>3. ReadyCalls(c) \in Seq(Message)
  BY <1>1, CallsType
<1>4. /\ toHub'[c] = IF coreUp THEN toHub[c] \o ReadyCalls(c) ELSE toHub[c]
      /\ \A x \in Client \ {c} : toHub'[x] = toHub[x]
  BY <1>1, <1>3, CallEffect DEF Ready
<1>5. CASE d # c
  <2>1. duplex'[d] = duplex[d] /\ submitted'[d] = submitted[d] /\ toClient'[d] = toClient[d]
    BY <1>5 DEF Ready
  <2> QED
    BY <1>1, <1>2, <1>4, <1>5, <2>1, DuplexUnchanged
<1>6. CASE d = c
  <2>1. PICK q \in Seq(Message) : q = toClient[c]
    BY <1>1 DEF TypeOK
  <2>2. PICK h \in Seq(Message) : h = toHub[c]
    BY <1>1 DEF TypeOK
  <2>3. q # <<>> /\ Head(q).kind = "opened" /\ Head(q) \in Message
    BY <2>1 DEF Ready
  <2>4. Head(q) \in Openeds /\ Head(q) \notin Replies
    BY <2>3, Kinds
  <2>5. toClient'[c] = Tail(q) /\ duplex'[c] = "ready"
        /\ submitted'[c] = (IF c \in Viewer THEN submitted[c] + 1 ELSE submitted[c]) /\ submitted[c] \in Nat
    BY <1>1, <2>1 DEF Ready, TypeOK
  <2>6. Count(q, Replies) = Count(Tail(q), Replies) /\ Count(q, Replies) \in Nat
    BY <2>3, <2>4, CountHead
  <2>7. Count(q, Openeds) = Count(Tail(q), Openeds) + 1 /\ Count(Tail(q), Openeds) \in Nat
    BY <2>3, <2>4, CountHead
  <2>8. /\ Count(h \o ReadyCalls(c), Requests) = Count(h, Requests) + (IF c \in Viewer THEN 1 ELSE 0)
        /\ Count(h \o ReadyCalls(c), Opens) = Count(h, Opens)
    BY <1>1, ReadyCounts
  <2>9. Count(h, Requests) \in Nat /\ Count(h, Opens) \in Nat
    BY <2>3, CountAppend
  <2>10. CASE ~ coreUp
    BY <1>1, <1>2, <1>4, <1>6, <2>5, <2>10 DEF DuplexInv
  <2>11. CASE coreUp
    <3>1. Count(h, Opens) + Count(q, Openeds) = IF duplex[c] = "opening" THEN 1 ELSE 0
      BY <1>1, <2>1, <2>2, <2>11 DEF DuplexInv
    <3>2. Count(h, Opens) = 0 /\ Count(Tail(q), Openeds) = 0 /\ duplex[c] = "opening"
      BY <2>7, <2>9, <3>1
    <3>3. c \in clients
      BY <1>1, <2>2, <2>11, <3>2 DEF DuplexInv
    <3>4. submitted[c] = Count(h, Requests) + Count(q, Replies)
      BY <1>1, <2>1, <2>2, <2>11 DEF DuplexInv
    <3>5. submitted'[c] = Count(toHub'[c], Requests) + Count(toClient'[c], Replies)
      BY <1>4, <2>2, <2>5, <2>6, <2>8, <2>9, <2>11, <3>4
    <3>6. Count(toHub'[c], Opens) + Count(toClient'[c], Openeds) = 0
      BY <1>4, <2>2, <2>5, <2>8, <2>11, <3>2
    <3> QED
      BY <1>2, <1>6, <2>5, <2>11, <3>3, <3>5, <3>6 DEF DuplexInv
  <2> QED
    BY <2>10, <2>11
<1> QED
  BY <1>5, <1>6

LEMMA ConnectionStep_Receive ==
    ASSUME ConnectionInv, NEW c \in Client, Receive(c), NEW d \in Client
    PROVE  DuplexInv(d)'
<1>1. TypeOK /\ DuplexInv(c) /\ DuplexInv(d)
  BY DEF ConnectionInv
<1>2. UNCHANGED <<coreUp, clients, duplex, toHub>>
  BY DEF Receive
<1>3. submitted' = submitted \/ submitted' = [submitted EXCEPT ![c] = IF @ > 0 THEN @ - 1 ELSE 0]
  BY DEF Receive
<1>4. CASE d # c
  <2>1. submitted'[d] = submitted[d] /\ toClient'[d] = toClient[d]
    <3>1. submitted \in [Client -> Nat] /\ toClient \in [Client -> Seq(Message)]
      BY <1>1 DEF TypeOK
    <3>2. submitted'[d] = submitted[d]
      BY <1>3, <1>4, <3>1
    <3>3. toClient' = [toClient EXCEPT ![c] = Tail(@)]
      BY DEF Receive
    <3> QED
      BY <1>4, <3>1, <3>2, <3>3
  <2> QED
    BY <1>1, <1>2, <2>1, DuplexUnchanged
<1>5. CASE d = c
  <2>1. PICK q \in Seq(Message) : q = toClient[c]
    BY <1>1 DEF TypeOK
  <2>2. PICK h \in Seq(Message) : h = toHub[c]
    BY <1>1 DEF TypeOK
  <2>3. q # <<>> /\ Head(q).kind # "opened" /\ Head(q) \in Message
    BY <2>1 DEF Receive
  <2>4. Head(q) \notin Openeds /\ (Head(q) \in Replies <=> Head(q).kind = "reply")
    BY <2>3, Kinds
  <2>5. toClient'[c] = Tail(q) /\ submitted[c] \in Nat
    BY <1>1, <2>1 DEF Receive, TypeOK
  <2>6. submitted'[c] = IF Head(q).kind = "reply" /\ submitted[c] > 0 THEN submitted[c] - 1 ELSE submitted[c]
    <3>1. CASE Head(q).kind = "reply"
      <4>1. submitted' = [submitted EXCEPT ![c] = IF @ > 0 THEN @ - 1 ELSE 0]
        BY <2>1, <3>1 DEF Receive
      <4> QED
        BY <1>1, <2>5, <3>1, <4>1 DEF TypeOK
    <3>2. CASE Head(q).kind # "reply"
      BY <2>1, <3>2 DEF Receive
    <3> QED
      BY <3>1, <3>2
  <2>7. Count(q, Replies) = Count(Tail(q), Replies) + (IF Head(q) \in Replies THEN 1 ELSE 0)
        /\ Count(Tail(q), Replies) \in Nat
    BY <2>3, CountHead
  <2>8. Count(q, Openeds) = Count(Tail(q), Openeds) /\ Count(q, Openeds) \in Nat
    BY <2>3, <2>4, CountHead
  <2>9. Count(h, Requests) \in Nat
    BY <2>3, CountAppend
  <2>10. duplex[c] # "none"
    BY <1>1, <2>1, <2>3 DEF DuplexInv
  <2>11. coreUp => submitted'[c] = Count(h, Requests) + Count(Tail(q), Replies)
    <3>1. coreUp => submitted[c] = Count(h, Requests) + Count(q, Replies)
      BY <1>1, <2>1, <2>2 DEF DuplexInv
    <3> QED
      BY <2>4, <2>5, <2>6, <2>7, <2>9, <3>1
  <2> QED
    BY <1>1, <1>2, <1>5, <2>1, <2>2, <2>5, <2>8, <2>10, <2>11 DEF DuplexInv
<1> QED
  BY <1>4, <1>5

\* What a change of the filter calls.
LEMMA FilterQueue ==
    ASSUME NEW d \in {"none", "opening", "ready"}, NEW f \in SUBSET Element, NEW q \in Seq(Message)
    PROVE  LET ms == (IF d # "none" THEN Announce(f) ELSE <<>>) \o (IF d = "ready" THEN Reconstruct(f) ELSE <<>>)
               s == [kind |-> "sub", filter |-> f]
               r == [kind |-> "request", filter |-> f]
           IN  /\ ms \in Seq(Message)
               /\ d = "none" => q \o ms = q
               /\ d = "opening" => q \o ms = Append(q, s)
               /\ d = "ready" => q \o ms = Append(Append(q, s), r)
<1>1. PICK b \in Message, r \in Message :
         b = [kind |-> "sub", filter |-> f] /\ r = [kind |-> "request", filter |-> f]
  <2>1. [kind |-> "sub", filter |-> f] \in Message /\ [kind |-> "request", filter |-> f] \in Message
    BY Calls
  <2> QED
    BY <2>1, Zenon
<1>2. Announce(f) = <<b>> /\ Reconstruct(f) = <<r>>
  BY <1>1 DEF Announce, Reconstruct
<1>3. q \o (<<b>> \o <<r>>) = Append(Append(q, b), r) /\ <<b>> \o <<r>> \in Seq(Message)
  OBVIOUS
<1>4. q \o (<<b>> \o <<>>) = Append(q, b) /\ <<b>> \o <<>> \in Seq(Message)
  OBVIOUS
<1>5. q \o (<<>> \o <<>>) = q /\ <<>> \o <<>> \in Seq(Message)
  OBVIOUS
<1> QED
  BY <1>1, <1>2, <1>3, <1>4, <1>5

LEMMA FilterCounts ==
    ASSUME NEW f \in SUBSET Element, NEW q \in Seq(Message)
    PROVE  LET s == [kind |-> "sub", filter |-> f]
               r == [kind |-> "request", filter |-> f]
           IN  /\ Count(Append(q, s), Requests) = Count(q, Requests)
               /\ Count(Append(q, s), Opens) = Count(q, Opens)
               /\ Count(Append(Append(q, s), r), Requests) = Count(q, Requests) + 1
               /\ Count(Append(Append(q, s), r), Opens) = Count(q, Opens)
               /\ Count(q, Requests) \in Nat /\ Count(q, Opens) \in Nat
<1>1. PICK b \in Message, r \in Message :
         b = [kind |-> "sub", filter |-> f] /\ r = [kind |-> "request", filter |-> f]
  <2>1. [kind |-> "sub", filter |-> f] \in Message /\ [kind |-> "request", filter |-> f] \in Message
    BY Calls
  <2> QED
    BY <2>1, Zenon
<1>2. b.kind = "sub" /\ r.kind = "request"
  BY <1>1
<1>3. b \notin Requests /\ r \in Requests /\ b \notin Opens /\ r \notin Opens
  BY <1>2, Kinds
<1>4. PICK q1 \in Seq(Message) : q1 = Append(q, b)
  <2>1. Append(q, b) \in Seq(Message)
    OBVIOUS
  <2> QED
    BY <2>1, Zenon
<1>5. /\ Count(q1, Requests) = Count(q, Requests) /\ Count(q, Requests) \in Nat
      /\ Count(q1, Opens) = Count(q, Opens) /\ Count(q, Opens) \in Nat
  BY <1>3, <1>4, CountAppend
<1>6. /\ Count(Append(q1, r), Requests) = Count(q1, Requests) + 1
      /\ Count(Append(q1, r), Opens) = Count(q1, Opens)
  <2>1. /\ Count(Append(q1, r), Requests) = Count(q1, Requests) + (IF r \in Requests THEN 1 ELSE 0)
        /\ Count(Append(q1, r), Opens) = Count(q1, Opens) + (IF r \in Opens THEN 1 ELSE 0)
    BY CountAppend
  <2> QED
    BY <1>3, <1>5, <2>1
<1> QED
  BY <1>1, <1>4, <1>5, <1>6

LEMMA ConnectionStep_SetFilter ==
    ASSUME ConnectionInv, NEW c \in Client, NEW f \in Filters, SetFilter(c, f), NEW d \in Client
    PROVE  DuplexInv(d)'
<1> DEFINE ms == (IF duplex[c] # "none" THEN Announce(f) ELSE <<>>)
                     \o (IF duplex[c] = "ready" THEN Reconstruct(f) ELSE <<>>)
           s == [kind |-> "sub", filter |-> f]
           r == [kind |-> "request", filter |-> f]
<1>1. TypeOK /\ DuplexInv(c) /\ DuplexInv(d)
  BY DEF ConnectionInv
<1>2. UNCHANGED <<coreUp, clients, duplex, toClient>>
  BY DEF SetFilter
<1>3. f \in SUBSET Element /\ duplex[c] \in {"none", "opening", "ready"}
  BY <1>1, FiltersAssumption DEF TypeOK
<1>4. PICK h \in Seq(Message) : h = toHub[c]
  BY <1>1 DEF TypeOK
<1>5. /\ ms \in Seq(Message)
      /\ duplex[c] = "none" => h \o ms = h
      /\ duplex[c] = "opening" => h \o ms = Append(h, s)
      /\ duplex[c] = "ready" => h \o ms = Append(Append(h, s), r)
  BY <1>3, FilterQueue
<1>6. Call(c, ms)
  BY DEF SetFilter
<1>7. /\ toHub'[c] = IF coreUp THEN h \o ms ELSE h
      /\ \A x \in Client \ {c} : toHub'[x] = toHub[x]
  <2> HIDE DEF ms
  <2> QED
    BY <1>1, <1>4, <1>5, <1>6, CallEffect
<1>8. submitted' = [submitted EXCEPT ![c] = IF duplex[c] = "ready" THEN @ + 1 ELSE @]
  BY DEF SetFilter
<1>9. submitted \in [Client -> Nat]
  BY <1>1 DEF TypeOK
<1>10. /\ Count(Append(h, s), Requests) = Count(h, Requests)
       /\ Count(Append(h, s), Opens) = Count(h, Opens)
       /\ Count(Append(Append(h, s), r), Requests) = Count(h, Requests) + 1
       /\ Count(Append(Append(h, s), r), Opens) = Count(h, Opens)
       /\ Count(h, Requests) \in Nat /\ Count(h, Opens) \in Nat
  BY <1>3, FilterCounts
<1> HIDE DEF ms, s, r
<1>11. CASE d # c
  <2>1. submitted'[d] = submitted[d]
    BY <1>8, <1>9, <1>11
  <2> QED
    BY <1>1, <1>2, <1>7, <1>11, <2>1, DuplexUnchanged
<1>12. CASE d = c
  <2>1. submitted'[c] = (IF duplex[c] = "ready" THEN submitted[c] + 1 ELSE submitted[c]) /\ submitted[c] \in Nat
    BY <1>8, <1>9
  <2>2. CASE ~ coreUp \/ duplex[c] = "none"
    <3>1. toHub'[c] = toHub[c]
      BY <1>4, <1>5, <1>7, <2>2
    <3>2. duplex[c] = "none" => submitted'[c] = submitted[c]
      BY <2>1
    <3> QED
      BY <1>1, <1>2, <1>12, <2>2, <3>1, <3>2 DEF DuplexInv
  <2>3. CASE coreUp /\ duplex[c] # "none"
    <3>1. /\ Count(toHub'[c], Opens) = Count(h, Opens)
          /\ Count(toHub'[c], Requests) = Count(h, Requests) + (IF duplex[c] = "ready" THEN 1 ELSE 0)
      <4>1. CASE duplex[c] = "opening"
        <5>1. toHub'[c] = Append(h, s)
          BY <1>5, <1>7, <2>3, <4>1
        <5> QED
          BY <1>10, <4>1, <5>1
      <4>2. CASE duplex[c] = "ready"
        <5>1. toHub'[c] = Append(Append(h, s), r)
          BY <1>5, <1>7, <2>3, <4>2
        <5> QED
          BY <1>10, <4>2, <5>1
      <4> QED
        BY <1>3, <2>3, <4>1, <4>2
    <3>2. PICK n \in Nat : n = Count(toClient[c], Replies)
      <4>1. PICK k \in Seq(Message) : k = toClient[c]
        BY <1>1 DEF TypeOK
      <4>2. Count(k, Replies) \in Nat
        BY CountType
      <4> QED
        BY <4>1, <4>2
    <3>3. submitted[c] = Count(h, Requests) + n
      BY <1>1, <1>4, <2>3, <3>2 DEF DuplexInv
    <3>4. submitted'[c] = Count(toHub'[c], Requests) + n
      BY <1>10, <2>1, <3>1, <3>2, <3>3
    <3> QED
      BY <1>1, <1>2, <1>4, <1>12, <2>3, <3>1, <3>2, <3>4 DEF DuplexInv
  <2> QED
    BY <2>2, <2>3
<1> QED
  BY <1>11, <1>12

LEMMA ConnectionStep_Post ==
    ASSUME ConnectionInv, NEW c \in Client, NEW e \in Element, Post(c, e), NEW d \in Client
    PROVE  DuplexInv(d)'
<1> DEFINE m == [kind |-> "event", element |-> e]
<1>1. TypeOK /\ DuplexInv(c) /\ DuplexInv(d)
  BY DEF ConnectionInv
<1>2. UNCHANGED <<coreUp, clients, duplex, submitted, toClient>>
  BY DEF Post, linkVars
<1>3. m \in Message /\ m.kind = "event"
  BY DEF Message, Events
<1>4. <<m>> \in Seq(Message)
  BY <1>3
<1>5. m \notin Requests /\ m \notin Opens
  BY <1>3, Kinds
<1>6. (duplex[c] # "none" /\ Call(c, <<m>>)) \/ UNCHANGED toHub
  BY DEF Post
<1> HIDE DEF m
<1>7. CASE UNCHANGED toHub
  BY <1>1, <1>2, <1>7, DuplexUnchanged
<1>8. CASE duplex[c] # "none" /\ Call(c, <<m>>)
  <2>1. /\ toHub'[c] = IF coreUp THEN toHub[c] \o <<m>> ELSE toHub[c]
        /\ \A x \in Client \ {c} : toHub'[x] = toHub[x]
    BY <1>1, <1>4, <1>8, CallEffect
  <2>2. CASE d # c \/ ~ coreUp
    BY <1>1, <1>2, <2>1, <2>2, DuplexUnchanged
  <2>3. CASE d = c /\ coreUp
    <3>1. PICK h \in Seq(Message) : h = toHub[c]
      BY <1>1 DEF TypeOK
    <3>2. toHub'[c] = Append(h, m)
      BY <1>3, <2>1, <2>3, <3>1
    <3>3. Count(Append(h, m), Requests) = Count(h, Requests) /\ Count(Append(h, m), Opens) = Count(h, Opens)
      BY <1>3, <1>5, CountAppend
    <3> QED
      BY <1>1, <1>2, <1>8, <2>3, <3>1, <3>2, <3>3 DEF DuplexInv
  <2> QED
    BY <2>2, <2>3
<1> QED
  BY <1>6, <1>7, <1>8

\* A client that may be sent a signal or an event.
LEMMA DuplexSent ==
    ASSUME TypeOK, NEW d \in Client, DuplexInv(d), coreUp' = coreUp, d \in clients' <=> d \in clients,
           duplex' = duplex, submitted' = submitted, toHub'[d] = toHub[d],
           NEW m \in Message, m \notin Replies, m \notin Openeds,
           toClient'[d] = toClient[d] \/ (d \in clients /\ toClient'[d] = Append(toClient[d], m))
    PROVE  DuplexInv(d)'
<1>1. CASE toClient'[d] = toClient[d]
  BY <1>1, DuplexUnchanged
<1>2. CASE d \in clients /\ toClient'[d] = Append(toClient[d], m)
  <2>1. PICK k \in Seq(Message) : k = toClient[d]
    BY DEF TypeOK
  <2>2. Count(Append(k, m), Replies) = Count(k, Replies) /\ Count(Append(k, m), Openeds) = Count(k, Openeds)
    BY CountAppend
  <2> QED
    BY <1>2, <2>1, <2>2 DEF DuplexInv
<1> QED
  BY <1>1, <1>2

\* The client whose call is handled: what the counts of its queues become.
LEMMA DuplexHandled ==
    ASSUME TypeOK, NEW c \in Client, DuplexInv(c), coreUp, coreUp' = coreUp, duplex' = duplex,
           submitted' = submitted, toHub[c] # <<>>, toHub'[c] = Tail(toHub[c]),
           c \in clients' <=> (c \in clients \/ Head(toHub[c]) \in Opens),
           NEW m \in Message,
           toClient'[c] = Append(toClient[c], m) \/ (toClient'[c] = toClient[c] /\ m \notin Replies /\ m \notin Openeds),
           m \in Replies <=> Head(toHub[c]) \in Requests,
           m \in Openeds <=> Head(toHub[c]) \in Opens
    PROVE  DuplexInv(c)'
<1>1. PICK k \in Seq(Message) : k = toClient[c]
  BY DEF TypeOK
<1>2. PICK h \in Seq(Message) : h = toHub[c]
  BY DEF TypeOK
<1>3. /\ Count(h, Requests) = Count(Tail(h), Requests) + (IF Head(h) \in Requests THEN 1 ELSE 0)
      /\ Count(h, Opens) = Count(Tail(h), Opens) + (IF Head(h) \in Opens THEN 1 ELSE 0)
      /\ Count(Tail(h), Requests) \in Nat /\ Count(Tail(h), Opens) \in Nat
  BY <1>2, CountHead
<1>4. /\ Count(Append(k, m), Replies) = Count(k, Replies) + (IF m \in Replies THEN 1 ELSE 0)
      /\ Count(Append(k, m), Openeds) = Count(k, Openeds) + (IF m \in Openeds THEN 1 ELSE 0)
      /\ Count(k, Replies) \in Nat /\ Count(k, Openeds) \in Nat
  BY CountAppend
<1>5. /\ Count(toClient'[c], Replies) = Count(k, Replies) + (IF m \in Replies THEN 1 ELSE 0)
      /\ Count(toClient'[c], Openeds) = Count(k, Openeds) + (IF m \in Openeds THEN 1 ELSE 0)
  <2>1. CASE toClient'[c] = Append(k, m)
    BY <1>4, <2>1
  <2>2. CASE toClient'[c] = k /\ m \notin Replies /\ m \notin Openeds
    BY <1>4, <2>2
  <2> QED
    BY <1>1, <2>1, <2>2
<1>6. /\ submitted[c] = Count(h, Requests) + Count(k, Replies)
      /\ Count(h, Opens) + Count(k, Openeds) = IF duplex[c] = "opening" THEN 1 ELSE 0
      /\ duplex[c] # "none" /\ (c \notin clients => Count(h, Opens) = 1)
  BY <1>1, <1>2 DEF DuplexInv
<1>7. submitted'[c] = Count(toHub'[c], Requests) + Count(toClient'[c], Replies)
  BY <1>2, <1>3, <1>4, <1>5, <1>6
<1>8. Count(toHub'[c], Opens) + Count(toClient'[c], Openeds) = IF duplex[c] = "opening" THEN 1 ELSE 0
  BY <1>2, <1>3, <1>4, <1>5, <1>6
<1>9. c \notin clients' => Count(toHub'[c], Opens) = 1
  BY <1>2, <1>3, <1>6
<1> QED
  BY <1>6, <1>7, <1>8, <1>9 DEF DuplexInv

LEMMA ConnectionStep_Handle ==
    ASSUME ConnectionInv, NEW c \in Client, Handle(c), NEW d \in Client
    PROVE  DuplexInv(d)'
<1> DEFINE m == Head(toHub[c])
<1>1. TypeOK /\ DuplexInv(c) /\ DuplexInv(d)
  BY DEF ConnectionInv
<1>2. UNCHANGED <<coreUp, duplex, submitted>> /\ coreUp
  BY DEF Handle
<1>3. toHub[c] \in Seq(Message) /\ toHub[c] # <<>> /\ toHub \in [Client -> Seq(Message)]
  BY <1>1 DEF TypeOK, Handle
<1>4. m \in Message
  BY <1>3
<1>5. toHub'[c] = Tail(toHub[c]) /\ (d # c => toHub'[d] = toHub[d])
  BY <1>3 DEF Handle
<1>6. HubOpen(c, m) \/ HubRequestSubscriptions(c, m) \/ HubSubscribe(c, m)
         \/ HubRequest(c, m) \/ HubEvent(c, m)
  BY DEF Handle
<1>7. \E o \in Message :
         /\ toClient'[c] = Append(toClient[c], o) \/ (toClient'[c] = toClient[c] /\ o \notin Replies /\ o \notin Openeds)
         /\ o \in Replies <=> m \in Requests
         /\ o \in Openeds <=> m \in Opens
         /\ c \in clients' <=> (c \in clients \/ m \in Opens)
         /\ d # c => (d \in clients' <=> d \in clients)
         /\ d # c => toClient'[d] = toClient[d]
                       \/ (d \in clients /\ o \notin Replies /\ o \notin Openeds /\ toClient'[d] = Append(toClient[d], o))
  <2> HIDE DEF m
  <2>1. CASE HubOpen(c, m)
    <3>1. PICK o \in Message : o = [kind |-> "opened"]
      <4>1. [kind |-> "opened"] \in Message
        BY Signals
      <4> QED
        BY <4>1, Zenon
    <3>2. o \in Openeds /\ o \notin Replies /\ m \in Opens /\ m \notin Requests
      BY <1>4, <2>1, <3>1, Kinds DEF HubOpen
    <3>3. \A x \in Client : toClient'[x] = IF x = c THEN Append(toClient[x], o) ELSE toClient[x]
      <4>1. toClient' = SentTo({c}, o)
        BY <2>1, <3>1 DEF HubOpen
      <4> QED
        BY <1>1, <4>1, SentEffect, ZenonT(60)
    <3> QED
      BY <2>1, <3>2, <3>3 DEF HubOpen
  <2>2. CASE HubRequestSubscriptions(c, m)
    <3>1. PICK o \in Message : o = [kind |-> "subs"]
      <4>1. [kind |-> "subs"] \in Message
        BY Signals
      <4> QED
        BY <4>1, Zenon
    <3>2. o \notin Openeds /\ o \notin Replies /\ m \notin Opens /\ m \notin Requests
      BY <1>4, <2>2, <3>1, Kinds DEF HubRequestSubscriptions
    <3>3. \A x \in Client : toClient'[x] = IF x = c THEN Append(toClient[x], o) ELSE toClient[x]
      <4>1. toClient' = SentTo({c}, o)
        BY <2>2, <3>1 DEF HubRequestSubscriptions
      <4> QED
        BY <1>1, <4>1, SentEffect, ZenonT(60)
    <3> QED
      BY <2>2, <3>2, <3>3 DEF HubRequestSubscriptions
  <2>3. CASE HubSubscribe(c, m)
    <3>1. PICK o \in Message : o = [kind |-> "subs"]
      <4>1. [kind |-> "subs"] \in Message
        BY Signals
      <4> QED
        BY <4>1, Zenon
    <3>2. o \notin Openeds /\ o \notin Replies /\ m \notin Opens /\ m \notin Requests
      BY <1>4, <2>3, <3>1, Kinds DEF HubSubscribe
    <3>3. \A x \in Client : toClient'[x] = IF x \in clients \ {c} THEN Append(toClient[x], o) ELSE toClient[x]
      <4>1. toClient' = SentTo(clients \ {c}, o)
        BY <2>3, <3>1 DEF HubSubscribe
      <4> QED
        BY <1>1, <4>1, SentEffect, ZenonT(60)
    <3> QED
      BY <2>3, <3>2, <3>3 DEF HubSubscribe
  <2>4. CASE HubRequest(c, m)
    <3>1. PICK o \in Message : o = [kind |-> "reply", list |-> Matching(journal, m.filter)]
      <4>1. Matching(journal, m.filter) \in Seq(Element)
        BY <1>1, MatchingType DEF TypeOK
      <4>2. [kind |-> "reply", list |-> Matching(journal, m.filter)] \in Message
        BY <4>1 DEF Message, Replies
      <4> QED
        BY <4>2, Zenon
    <3>2. o \notin Openeds /\ o \in Replies /\ m \notin Opens /\ m \in Requests
      BY <1>4, <2>4, <3>1, Kinds DEF HubRequest
    <3>3. \A x \in Client : toClient'[x] = IF x = c THEN Append(toClient[x], o) ELSE toClient[x]
      <4>1. toClient' = SentTo({c}, o)
        BY <2>4, <3>1 DEF HubRequest
      <4> QED
        BY <1>1, <4>1, SentEffect, ZenonT(60)
    <3> QED
      BY <2>4, <3>2, <3>3 DEF HubRequest
  <2>5. CASE HubEvent(c, m)
    <3>1. m \notin Openeds /\ m \notin Replies /\ m \notin Opens /\ m \notin Requests
      BY <1>4, <2>5, Kinds DEF HubEvent
    <3>2. \A x \in Client : toClient'[x] = IF x \in Subscribed(m.element) \ {c} THEN Append(toClient[x], m) ELSE toClient[x]
      BY <1>1, <1>4, <2>5, SentEffect DEF HubEvent
    <3>3. Subscribed(m.element) \subseteq clients
      BY DEF Subscribed
    <3> QED
      BY <1>4, <2>5, <3>1, <3>2, <3>3 DEF HubEvent
  <2> QED
    BY <1>6, <2>1, <2>2, <2>3, <2>4, <2>5
<1>8. PICK o \in Message :
         /\ toClient'[c] = Append(toClient[c], o) \/ (toClient'[c] = toClient[c] /\ o \notin Replies /\ o \notin Openeds)
         /\ o \in Replies <=> m \in Requests
         /\ o \in Openeds <=> m \in Opens
         /\ c \in clients' <=> (c \in clients \/ m \in Opens)
         /\ d # c => (d \in clients' <=> d \in clients)
         /\ d # c => toClient'[d] = toClient[d]
                       \/ (d \in clients /\ o \notin Replies /\ o \notin Openeds /\ toClient'[d] = Append(toClient[d], o))
  BY <1>7, Zenon
<1>9. CASE d = c
  <2>1. DuplexInv(c)'
    BY <1>1, <1>2, <1>3, <1>5, <1>8, DuplexHandled
  <2> QED
    BY <1>9, <2>1
<1>10. CASE d # c
  <2>1. CASE toClient'[d] = toClient[d]
    BY <1>1, <1>2, <1>5, <1>8, <1>10, <2>1, DuplexUnchanged
  <2>2. CASE toClient'[d] # toClient[d]
    BY <1>1, <1>2, <1>5, <1>8, <1>10, <2>2, DuplexSent
  <2> QED
    BY <2>1, <2>2
<1> QED
  BY <1>9, <1>10

LEMMA ConnectionStep_Core ==
    ASSUME ConnectionInv, CoreStop \/ CoreStart \/ (\E e \in Element : PostCore(e)), NEW d \in Client
    PROVE  DuplexInv(d)'
<1>1. TypeOK /\ DuplexInv(d)
  BY DEF ConnectionInv
<1>2. CASE CoreStop
  <2>1. ~ coreUp' /\ clients' = {} /\ toHub'[d] = <<>> /\ UNCHANGED <<toClient, duplex, submitted>>
    BY <1>2 DEF CoreStop
  <2> QED
    BY <1>1, <2>1 DEF DuplexInv
<1>3. CASE CoreStart
  <2>1. /\ UNCHANGED <<clients, toHub, toClient, duplex, submitted>>
        /\ ~ coreUp /\ duplex[d] = "none"
    BY <1>3 DEF CoreStart, linkVars
  <2>2. toHub[d] = <<>> /\ toClient[d] = <<>> /\ submitted[d] = 0 /\ d \notin clients
    BY <1>1, <2>1 DEF DuplexInv
  <2>3. \A M : Count(<<>>, M) = 0
    BY CountEmpty
  <2> QED
    BY <2>1, <2>2, <2>3 DEF DuplexInv
<1>4. ASSUME NEW e \in Element, PostCore(e) PROVE DuplexInv(d)'
  <2>1. PICK m \in Message : m = [kind |-> "event", element |-> e]
    <3>1. [kind |-> "event", element |-> e] \in Message
      BY DEF Message, Events
    <3> QED
      BY <3>1, Zenon
  <2>2. m \notin Openeds /\ m \notin Replies
    BY <2>1, Kinds
  <2>3. toClient'[d] = IF d \in Subscribed(e) THEN Append(toClient[d], m) ELSE toClient[d]
    BY <1>1, <1>4, <2>1, SentEffect DEF PostCore
  <2>4. d \in Subscribed(e) => d \in clients
    BY DEF Subscribed
  <2>5. UNCHANGED <<coreUp, clients, duplex, submitted, toHub>>
    BY <1>4 DEF PostCore, linkVars
  <2> QED
    BY <1>1, <2>2, <2>3, <2>4, <2>5, DuplexSent
<1> QED
  BY <1>2, <1>3, <1>4

LEMMA ConnectionNext ==
    ConnectionInv /\ [Next]_vars => ConnectionInv'
<1> SUFFICES ASSUME ConnectionInv, [Next]_vars PROVE ConnectionInv'
  OBVIOUS
<1>1. TypeOK'
  BY TypeNext DEF ConnectionInv
<1>2. ASSUME NEW d \in Client PROVE DuplexInv(d)'
  <2>1. CASE CoreStop \/ CoreStart \/ \E e \in Element : PostCore(e)
    BY <2>1, ConnectionStep_Core
  <2>2. ASSUME NEW c \in Client, Connect(c) PROVE DuplexInv(d)'
    BY <2>2, ConnectionStep_Connect
  <2>3. ASSUME NEW c \in Client, Disconnect(c) PROVE DuplexInv(d)'
    BY <2>3, ConnectionStep_Disconnect
  <2>4. ASSUME NEW c \in Client, Ready(c) PROVE DuplexInv(d)'
    BY <2>4, ConnectionStep_Ready
  <2>5. ASSUME NEW c \in Client, Receive(c) PROVE DuplexInv(d)'
    BY <2>5, ConnectionStep_Receive
  <2>6. ASSUME NEW c \in Client, Handle(c) PROVE DuplexInv(d)'
    BY <2>6, ConnectionStep_Handle
  <2>7. ASSUME NEW c \in Client, NEW e \in Element, Post(c, e) PROVE DuplexInv(d)'
    BY <2>7, ConnectionStep_Post
  <2>8. ASSUME NEW c \in Client, NEW f \in Filters, SetFilter(c, f) PROVE DuplexInv(d)'
    BY <2>8, ConnectionStep_SetFilter
  <2>9. ASSUME NEW c \in Client, Replace(c) PROVE DuplexInv(d)'
    BY <2>9, DuplexUnchanged DEF Replace, linkVars, ConnectionInv
  <2>10. CASE UNCHANGED vars
    BY <2>10, DuplexUnchanged DEF vars, linkVars, ConnectionInv
  <2> QED
    BY <2>1, <2>2, <2>3, <2>4, <2>5, <2>6, <2>7, <2>8, <2>9, <2>10 DEF Next
<1> QED
  BY <1>1, <1>2 DEF ConnectionInv

\* Every request of a client that waits for a reply is, or its reply is, on its way as
\* long as the core runs, and nothing of a client is under way without its duplex:
\* promises of CDuplex are neither lost nor doubled by ends of the core, reconnections
\* and filters changed meanwhile, for any number of processes and elements.
THEOREM LinkIsSound ==
    Spec => []LinkInv
<1>1. Init => ConnectionInv
  BY ConnectionInit
<1>2. ConnectionInv /\ [Next]_vars => ConnectionInv'
  BY ConnectionNext
<1>3. ConnectionInv => LinkInv
  BY DEF ConnectionInv, DuplexInv, LinkInv
<1> QED
  BY <1>1, <1>2, <1>3, PTL DEF Spec

-----------------------------------------------------------------------------
(* The lists of the observers *)

LEMMA NoneOfEmpty ==
    ASSUME NEW K
    PROVE  NoneOf(<<>>, K)
BY DEF NoneOf

LEMMA OwnEventsAppend ==
    ASSUME NEW q \in Seq(Message), NEW m \in Message, NEW o, NEW p
    PROVE  /\ m.kind = "request" => OwnEvents(Append(q, m), p)
           /\ OwnEvents(q, o) /\ o \subseteq p /\ (m.kind = "event" => m.element \in p)
                => OwnEvents(Append(q, m), p)
<1>1. PICK k \in Seq(Message) : k = Append(q, m)
  <2>1. Append(q, m) \in Seq(Message)
    OBVIOUS
  <2> QED
    BY <2>1, Zenon
<1>2. Len(k) = Len(q) + 1 /\ k[Len(q) + 1] = m
  BY <1>1
<1>3. \A i \in 1 .. Len(q) : k[i] = q[i]
  BY <1>1
<1>4. DOMAIN k = 1 .. Len(k) /\ DOMAIN q = 1 .. Len(q) /\ Len(q) \in Nat
  OBVIOUS
<1>5. ASSUME m.kind = "request" PROVE OwnEvents(k, p)
  <2> SUFFICES ASSUME NEW i \in 1 .. Len(k), k[i].kind = "event"
               PROVE  \E j \in 1 .. Len(k) : j > i /\ k[j].kind = "request"
    BY <1>4 DEF OwnEvents
  <2>1. i # Len(q) + 1
    BY <1>2, <1>5
  <2>2. Len(q) + 1 \in 1 .. Len(k) /\ Len(q) + 1 > i
    BY <1>2, <1>4, <2>1
  <2> QED
    BY <1>2, <1>5, <2>2
<1>6. ASSUME OwnEvents(q, o), o \subseteq p, m.kind = "event" => m.element \in p PROVE OwnEvents(k, p)
  <2> SUFFICES ASSUME NEW i \in 1 .. Len(k), k[i].kind = "event"
               PROVE  k[i].element \in p \/ \E j \in 1 .. Len(k) : j > i /\ k[j].kind = "request"
    BY <1>4 DEF OwnEvents
  <2>1. CASE i = Len(q) + 1
    BY <1>2, <1>6, <2>1
  <2>2. CASE i # Len(q) + 1
    <3>1. i \in 1 .. Len(q) /\ k[i] = q[i]
      BY <1>2, <1>3, <1>4, <2>2
    <3>2. q[i].element \in o \/ \E j \in 1 .. Len(q) : j > i /\ q[j].kind = "request"
      BY <1>4, <1>6, <3>1 DEF OwnEvents
    <3>3. \A j \in 1 .. Len(q) : j \in 1 .. Len(k) /\ k[j] = q[j]
      BY <1>2, <1>3, <1>4
    <3> QED
      BY <1>6, <3>1, <3>2, <3>3
  <2> QED
    BY <2>1, <2>2
<1> QED
  BY <1>1, <1>5, <1>6

LEMMA OwnEventsTail ==
    ASSUME NEW q \in Seq(Message), q # <<>>, NEW o, OwnEvents(q, o)
    PROVE  /\ OwnEvents(Tail(q), o)
           /\ Head(q).kind = "event" /\ NoneOf(q, {"sub", "request"}) => Head(q).element \in o
<1>1. PICK t \in Seq(Message) : t = Tail(q)
  <2>1. Tail(q) \in Seq(Message)
    OBVIOUS
  <2> QED
    BY <2>1, Zenon
<1>2. Len(q) = Len(t) + 1 /\ Head(q) = q[1]
  BY <1>1
<1>3. \A i \in 1 .. Len(t) : t[i] = q[i + 1]
  BY <1>1
<1>4. DOMAIN t = 1 .. Len(t) /\ DOMAIN q = 1 .. Len(q) /\ Len(t) \in Nat
  OBVIOUS
<1>5. OwnEvents(t, o)
  <2> SUFFICES ASSUME NEW i \in 1 .. Len(t), t[i].kind = "event", t[i].element \notin o
               PROVE  \E j \in 1 .. Len(t) : j > i /\ t[j].kind = "request"
    BY <1>4 DEF OwnEvents
  <2>1. i + 1 \in 1 .. Len(q) /\ t[i] = q[i + 1]
    BY <1>2, <1>3, <1>4
  <2>2. PICK j \in 1 .. Len(q) : j > i + 1 /\ q[j].kind = "request"
    BY <1>4, <2>1 DEF OwnEvents
  <2>3. j - 1 \in 1 .. Len(t) /\ j - 1 > i /\ (j - 1) + 1 = j
    BY <1>2, <1>4, <2>2
  <2>4. t[j - 1].kind = "request"
    BY <1>3, <2>2, <2>3
  <2> QED
    BY <2>3, <2>4
<1>6. ASSUME Head(q).kind = "event", NoneOf(q, {"sub", "request"}) PROVE Head(q).element \in o
  <2>1. 1 \in DOMAIN q
    BY <1>2, <1>4
  <2> QED
    BY <1>2, <1>6, <2>1 DEF OwnEvents, NoneOf
<1> QED
  BY <1>1, <1>5, <1>6

LEMMA BaseType ==
    ASSUME TypeOK, NEW c \in Client
    PROVE  Base(c) \in Seq(Element)
<1>1. PICK a \in Seq(Seq(Element)) : a = arrived[c]
  BY DEF TypeOK
<1>2. a # <<>> => a[Len(a)] \in Seq(Element)
  <2>1. a # <<>> => Len(a) \in 1 .. Len(a)
    OBVIOUS
  <2> QED
    BY <2>1
<1>3. list[c] \in Seq(Element)
  BY DEF TypeOK
<1> QED
  BY <1>1, <1>2, <1>3 DEF Base

\* A step that leaves alone what ObserverInv says of an observer, but for what it has
\* and is sent.
LEMMA ObserverUnchanged ==
    ASSUME NEW d \in Client, ObserverInv(d), coreUp' = coreUp, duplex'[d] = duplex[d], subs'[d] = subs[d],
           filter'[d] = filter[d], toHub'[d] = toHub[d], own'[d] = own[d],
           Settled(d) => Settled(d)'
    PROVE  ObserverInv(d)'
<1>1. Announced(d)' <=> Announced(d)
  BY DEF Announced
<1>2. Asked(d)' <=> Asked(d)
  BY DEF Asked
<1> QED
  BY <1>1, <1>2 DEF ObserverInv

LEMMA SettledUnchanged ==
    ASSUME NEW d \in Client, journal' = journal, filter'[d] = filter[d], toHub'[d] = toHub[d],
           list'[d] = list[d], arrived'[d] = arrived[d], toClient'[d] = toClient[d],
           late'[d] = late[d], own'[d] = own[d]
    PROVE  Settled(d) => Settled(d)'
<1>1. Base(d)' = Base(d) /\ Followed(d)' = Followed(d)
  BY DEF Base, Followed
<1> QED
  BY <1>1 DEF Settled

LEMMA ObserverStep_Connect ==
    ASSUME ConnectionInv, NEW c \in Client, Connect(c), NEW d \in Client, ObserverInv(d)
    PROVE  ObserverInv(d)'
<1>1. TypeOK
  BY DEF ConnectionInv
<1>2. PICK m \in Message : m = [kind |-> "open"]
  <2>1. [kind |-> "open"] \in Message
    BY Signals
  <2> QED
    BY <2>1, Zenon
<1>3. toHub'[c] = toHub[c] \o <<m>> /\ (d # c => toHub'[d] = toHub[d])
  <2>1. << m >> \in Seq(Message)
    OBVIOUS
  <2>2. Call(c, <<m>>) /\ coreUp
    BY <1>2 DEF Connect
  <2> QED
    BY <1>1, <2>1, <2>2, CallEffect
<1>4. UNCHANGED <<coreUp, journal, filter, list, arrived, toClient, subs, late, own>>
  BY DEF Connect, markVars
<1>5. CASE d # c
  <2>1. duplex'[d] = duplex[d]
    BY <1>1, <1>5 DEF Connect, TypeOK
  <2>2. Settled(d) => Settled(d)'
    BY <1>3, <1>4, <1>5, SettledUnchanged
  <2> QED
    BY <1>3, <1>4, <1>5, <2>1, <2>2, ObserverUnchanged
<1>6. CASE d = c
  <2>1. duplex'[d] = "opening"
    BY <1>1, <1>6 DEF Connect, TypeOK
  <2>2. PICK h \in Seq(Message) : h = toHub[c]
    BY <1>1 DEF TypeOK
  <2>3. toHub'[c] = Append(h, m)
    BY <1>3, <2>2
  <2>4. OwnEvents(Append(h, m), own[c])
    <3>1. OwnEvents(h, own[c]) /\ m.kind # "event"
      BY <1>2, <1>6, <2>2 DEF ObserverInv
    <3> QED
      BY <3>1, OwnEventsAppend
  <2> QED
    BY <1>4, <1>6, <2>1, <2>3, <2>4 DEF ObserverInv
<1> QED
  BY <1>5, <1>6

LEMMA ObserverStep_Disconnect ==
    ASSUME ConnectionInv, NEW c \in Client, Disconnect(c), NEW d \in Client, ObserverInv(d)
    PROVE  ObserverInv(d)'
BY DEF Disconnect, markVars, ObserverInv

\* Whatever was on its way: the list is asked for after the filter is announced.
LEMMA AskedAfterAnnounced ==
    ASSUME TypeOK, NEW c \in Client, NEW h \in Seq(Message), NEW f \in SUBSET Element,
           filter'[c] = f,
           toHub'[c] = Append(Append(h, [kind |-> "sub", filter |-> f]), [kind |-> "request", filter |-> f])
    PROVE  ObserverInv(c)'
<1>1. PICK b \in Message, r \in Message :
         b = [kind |-> "sub", filter |-> f] /\ r = [kind |-> "request", filter |-> f]
  <2>1. [kind |-> "sub", filter |-> f] \in Message /\ [kind |-> "request", filter |-> f] \in Message
    BY Calls
  <2> QED
    BY <2>1, Zenon
<1>2. b.kind = "sub" /\ r.kind = "request"
  BY <1>1
<1>3. PICK q \in Seq(Message) : q = Append(h, b)
  <2>1. Append(h, b) \in Seq(Message)
    OBVIOUS
  <2> QED
    BY <2>1, Zenon
<1>4. toHub'[c] = Append(q, r)
  BY <1>1, <1>3
<1>5. OwnEvents(Append(q, r), own'[c])
  BY <1>2, OwnEventsAppend
<1>6. LastOf(Append(q, r), {"sub", "request"}, r)
  BY LastOfAppend
<1>7. LastOf(Append(q, r), {"sub"}, b)
  <2>1. LastOf(q, {"sub"}, b)
    BY <1>3, LastOfAppend
  <2>2. r.kind \notin {"sub"}
    BY <1>2
  <2> QED
    BY <2>1, <2>2, LastOfAppend
<1> QED
  BY <1>1, <1>4, <1>5, <1>6, <1>7 DEF ObserverInv, Announced, Asked

\* A request changes the marks of its client only.
LEMMA MarksOfOthers ==
    ASSUME TypeOK, NEW c \in Client, NEW requested, MarkAnew(c, requested), NEW d \in Client, d # c
    PROVE  late'[d] = late[d] /\ own'[d] = own[d]
BY DEF TypeOK, MarkAnew

LEMMA ObserverStep_Ready ==
    ASSUME ConnectionInv, NEW c \in Client, Ready(c), NEW d \in Client, d \in Viewer, ObserverInv(d)
    PROVE  ObserverInv(d)'
<1>1. TypeOK
  BY DEF ConnectionInv
<1>2. UNCHANGED <<coreUp, journal, filter, list, arrived, subs>>
  BY DEF Ready
<1>3. ReadyCalls(c) \in Seq(Message)
  BY <1>1, CallsType
<1>4. /\ toHub'[c] = IF coreUp THEN toHub[c] \o ReadyCalls(c) ELSE toHub[c]
      /\ \A x \in Client \ {c} : toHub'[x] = toHub[x]
  BY <1>1, <1>3, CallEffect DEF Ready
<1>5. CASE d # c
  <2>1. duplex'[d] = duplex[d] /\ toClient'[d] = toClient[d]
    BY <1>5 DEF Ready
  <2>2. late'[d] = late[d] /\ own'[d] = own[d]
    BY <1>1, <1>5, MarksOfOthers DEF Ready
  <2>3. Settled(d) => Settled(d)'
    BY <1>2, <1>4, <1>5, <2>1, <2>2, SettledUnchanged
  <2> QED
    BY <1>2, <1>4, <1>5, <2>1, <2>2, <2>3, ObserverUnchanged
<1>6. CASE d = c /\ ~ coreUp
  <2>1. toHub'[d] = <<>>
    BY <1>4, <1>6 DEF ConnectionInv, DuplexInv
  <2> QED
    BY <1>2, <1>6, <2>1 DEF ObserverInv, OwnEvents
<1>7. CASE d = c /\ coreUp
  <2>1. PICK h \in Seq(Message) : h = toHub[c]
    BY <1>1 DEF TypeOK
  <2>2. PICK f \in SUBSET Element : f = filter[c]
    BY <1>1 DEF TypeOK
  <2>3. PICK a \in Message : a = [kind |-> "reqsubs"]
    <3>1. [kind |-> "reqsubs"] \in Message
      BY Signals
    <3> QED
      BY <3>1, Zenon
  <2>4. PICK q \in Seq(Message) : q = Append(h, a)
    <3>1. Append(h, a) \in Seq(Message)
      OBVIOUS
    <3> QED
      BY <3>1, Zenon
  <2>5. toHub'[c] = Append(Append(q, [kind |-> "sub", filter |-> f]), [kind |-> "request", filter |-> f])
    <3>1. toHub'[c] = h \o ReadyCalls(c)
      BY <1>4, <1>7, <2>1
    <3> QED
      BY <1>1, <1>7, <2>2, <2>3, <2>4, <3>1, ReadyQueue
  <2>6. filter'[c] = f
    BY <1>2, <2>2
  <2> QED
    BY <1>1, <1>7, <2>5, <2>6, AskedAfterAnnounced
<1> QED
  BY <1>5, <1>6, <1>7

LEMMA ObserverStep_SetFilter ==
    ASSUME ConnectionInv, NEW c \in Client, NEW f \in Filters, SetFilter(c, f), NEW d \in Client, ObserverInv(d)
    PROVE  ObserverInv(d)'
<1> DEFINE ms == (IF duplex[c] # "none" THEN Announce(f) ELSE <<>>)
                     \o (IF duplex[c] = "ready" THEN Reconstruct(f) ELSE <<>>)
           s == [kind |-> "sub", filter |-> f]
           r == [kind |-> "request", filter |-> f]
<1>1. TypeOK
  BY DEF ConnectionInv
<1>2. UNCHANGED <<coreUp, journal, list, arrived, toClient, subs, duplex>>
  BY DEF SetFilter
<1>3. f \in SUBSET Element /\ duplex[c] \in {"none", "opening", "ready"}
  BY <1>1, FiltersAssumption DEF TypeOK
<1>4. PICK h \in Seq(Message) : h = toHub[c]
  BY <1>1 DEF TypeOK
<1>5. /\ ms \in Seq(Message)
      /\ duplex[c] = "none" => h \o ms = h
      /\ duplex[c] = "opening" => h \o ms = Append(h, s)
      /\ duplex[c] = "ready" => h \o ms = Append(Append(h, s), r)
  BY <1>3, FilterQueue
<1>6. Call(c, ms)
  BY DEF SetFilter
<1>7. /\ toHub'[c] = IF coreUp THEN h \o ms ELSE h
      /\ \A x \in Client \ {c} : toHub'[x] = toHub[x]
  <2> HIDE DEF ms
  <2> QED
    BY <1>1, <1>4, <1>5, <1>6, CallEffect
<1>8. filter \in [Client -> SUBSET Element] /\ filter' = [filter EXCEPT ![c] = f]
  BY <1>1 DEF SetFilter, TypeOK
<1>9. s \in Message /\ s.kind = "sub"
  BY <1>3, Calls
<1> HIDE DEF ms
<1>10. CASE d # c
  <2>1. filter'[d] = filter[d]
    BY <1>8, <1>10
  <2>2. late'[d] = late[d] /\ own'[d] = own[d]
    BY <1>1, <1>10, MarksOfOthers DEF SetFilter
  <2>3. Settled(d) => Settled(d)'
    BY <1>2, <1>7, <1>10, <2>1, <2>2, SettledUnchanged
  <2> QED
    BY <1>2, <1>7, <1>10, <2>1, <2>2, <2>3, ObserverUnchanged
<1>11. CASE d = c
  <2>1. OwnEvents(h, own[c])
    BY <1>4, <1>11 DEF ObserverInv
  <2>2. CASE ~ coreUp \/ duplex[c] = "none"
    <3>1. toHub'[c] = <<>>
      <4>1. DuplexInv(c)
        BY DEF ConnectionInv
      <4> QED
        BY <1>4, <1>5, <1>7, <2>2, <4>1 DEF DuplexInv
    <3> QED
      BY <1>2, <1>11, <2>2, <3>1 DEF ObserverInv, OwnEvents
  <2>3. CASE coreUp /\ duplex[c] = "opening"
    <3>1. toHub'[c] = Append(h, s)
      BY <1>5, <1>7, <2>3
    <3>2. own' = own
      BY <2>3 DEF SetFilter, MarkAnew
    <3>3. OwnEvents(toHub'[c], own[c])
      <4> HIDE DEF s
      <4>1. s.kind # "event"
        BY <1>9
      <4> QED
        BY <1>9, <2>1, <3>1, <4>1, OwnEventsAppend
    <3> QED
      BY <1>2, <1>11, <2>3, <3>2, <3>3 DEF ObserverInv
  <2>4. CASE coreUp /\ duplex[c] = "ready"
    <3>1. toHub'[c] = Append(Append(h, s), r)
      BY <1>5, <1>7, <2>4
    <3>2. filter'[c] = f
      BY <1>8
    <3> QED
      BY <1>1, <1>3, <1>11, <3>1, <3>2, AskedAfterAnnounced
  <2> QED
    BY <1>3, <2>2, <2>3, <2>4
<1> QED
  BY <1>10, <1>11

\* The last entry of a sequence.
LEMMA LastOfSequence ==
    ASSUME NEW S, NEW a \in Seq(S)
    PROVE  /\ \A l \in S : Append(a, l) # <<>> /\ Append(a, l)[Len(Append(a, l))] = l
           /\ a # <<>> /\ Tail(a) = <<>> => Head(a) = a[Len(a)]
           /\ a # <<>> /\ Tail(a) # <<>> => Tail(a)[Len(Tail(a))] = a[Len(a)]
<1>1. \A l \in S : Append(a, l) # <<>> /\ Append(a, l)[Len(Append(a, l))] = l
  OBVIOUS
<1>2. ASSUME a # <<>>, Tail(a) = <<>> PROVE Head(a) = a[Len(a)]
  <2>1. Len(Tail(a)) = 0
    <3>1. Len(<<>>) = 0
      OBVIOUS
    <3> QED
      BY <1>2, <3>1, Zenon
  <2>2. Len(a) = 1
    <3>1. a # <<>> => Len(Tail(a)) = Len(a) - 1 /\ Len(a) \in Nat
      OBVIOUS
    <3> QED
      BY <1>2, <2>1, <3>1
  <2>3. Head(a) = a[1]
    BY <1>2
  <2> QED
    BY <2>2, <2>3, Zenon
<1>3. ASSUME a # <<>>, Tail(a) # <<>> PROVE Tail(a)[Len(Tail(a))] = a[Len(a)]
  <2>1. PICK t \in Seq(S) : t = Tail(a)
    <3>1. Tail(a) \in Seq(S)
      BY <1>3
    <3> QED
      BY <3>1, Zenon
  <2>2. Len(t) = Len(a) - 1 /\ Len(a) \in Nat /\ Len(t) \in Nat
    BY <1>3, <2>1
  <2>3. Len(t) # 0
    BY <1>3, <2>1
  <2>4. Len(t) \in 1 .. Len(t) /\ Len(t) + 1 = Len(a)
    BY <2>2, <2>3
  <2>5. \A i \in 1 .. Len(t) : t[i] = a[i + 1]
    BY <1>3, <2>1
  <2>6. t[Len(t)] = a[Len(t) + 1]
    BY <2>4, <2>5
  <2> QED
    BY <2>1, <2>4, <2>6
<1> QED
  BY <1>1, <1>2, <1>3

\* What is received does to the list to come what Outcome has at the head of the queue,
\* as far as the elements are followed: a reply finds its promise while the core runs,
\* and an element that a reply will overwrite is late.
LEMMA ReceivedIsHandled ==
    ASSUME ConnectionInv, coreUp, NEW c \in Client, Receive(c)
    PROVE  /\ Matching(Base(c)', Followed(c)') = Matching(Handled(Base(c), Head(toClient[c]), filter[c]), Followed(c)')
           /\ Followed(c)' \subseteq Followed(c)
<1>1. TypeOK /\ DuplexInv(c)
  BY DEF ConnectionInv
<1>2. PICK q \in Seq(Message) : q = toClient[c]
  BY <1>1 DEF TypeOK
<1>3. PICK h \in Seq(Message) : h = toHub[c]
  BY <1>1 DEF TypeOK
<1>4. PICK m : m = Head(q)
  OBVIOUS
<1>5. q # <<>> /\ m \in Message
  BY <1>2, <1>4 DEF Receive
<1>6. /\ list \in [Client -> Seq(Element)] /\ submitted[c] \in Nat
      /\ arrived \in [Client -> Seq(Seq(Element))] /\ late \in [Client -> SUBSET Element]
      /\ filter' = filter /\ own' = own
  BY <1>1 DEF TypeOK, Receive
<1>7. CASE m.kind = "reply"
  <2>1. m \in Replies
    BY <1>5, <1>7, Kinds
  <2>2. Count(q, Replies) > 0 /\ Count(h, Requests) \in Nat
    <3>1. Count(q, Replies) = Count(Tail(q), Replies) + (IF Head(q) \in Replies THEN 1 ELSE 0)
          /\ Count(Tail(q), Replies) \in Nat
      BY <1>5, CountHead
    <3>2. Count(h, Requests) \in Nat
      BY CountType
    <3> QED
      BY <1>4, <2>1, <3>1, <3>2
  <2>3. submitted[c] = Count(h, Requests) + Count(q, Replies)
    BY <1>1, <1>2, <1>3 DEF DuplexInv
  <2>4. submitted[c] > 0
    <3>1. Count(q, Replies) \in Nat
      BY CountType
    <3> QED
      BY <2>2, <2>3, <3>1
  <2>5. PICK l \in Seq(Element) : l = m.list
    <3>1. m.list \in Seq(Element)
      BY <2>1 DEF Replies
    <3> QED
      BY <3>1, Zenon
  <2>6. PICK a \in Seq(Seq(Element)) : a = arrived[c]
    BY <1>6
  <2>7. arrived' = [arrived EXCEPT ![c] = IF submitted[c] > 0 THEN Append(@, m.list) ELSE @] /\ late' = late
    BY <1>2, <1>4, <1>7 DEF Receive
  <2>8. arrived'[c] = Append(a, l)
    BY <1>6, <2>4, <2>5, <2>6, <2>7
  <2>9. Append(a, l) # <<>> /\ Append(a, l)[Len(Append(a, l))] = l
    BY LastOfSequence, Zenon
  <2>10. Base(c)' = l
    BY <2>8, <2>9 DEF Base
  <2>11. Handled(Base(c), m, filter[c]) = l
    BY <2>1, <2>5 DEF Handled
  <2>12. Followed(c)' = Followed(c)
    BY <1>6, <2>7 DEF Followed
  <2> QED
    BY <1>2, <1>4, <2>10, <2>11, <2>12
<1>8. CASE m.kind = "event"
  <2>1. m \in Events /\ m \notin Replies
    BY <1>5, <1>8, Kinds
  <2>2. PICK e \in Element : e = m.element
    <3>1. m.element \in Element
      BY <2>1 DEF Events
    <3> QED
      BY <3>1, Zenon
  <2>3. list' = [list EXCEPT ![c] = Observed(c, e)] /\ MarkLate(c, e) /\ arrived' = arrived
    BY <1>2, <1>4, <1>8, <2>2 DEF Receive
  <2>4. late'[c] = IF Open(c) THEN late[c] \cup {e} ELSE late[c]
    BY <1>6, <2>3 DEF MarkLate
  <2>5. Followed(c)' \subseteq Followed(c) /\ (Open(c) => e \notin Followed(c)')
    BY <1>6, <2>4 DEF Followed
  <2>6. Handled(Base(c), m, filter[c]) = IF e \in filter[c] THEN Append(Base(c), e) ELSE Base(c)
    BY <2>1, <2>2 DEF Handled
  <2>7. CASE arrived[c] = <<>>
    <3>1. list'[c] = Observed(c, e)
      BY <1>6, <2>3
    <3>2. Base(c)' = Handled(Base(c), m, filter[c])
      BY <2>3, <2>6, <2>7, <3>1 DEF Base, Observed
    <3> QED
      BY <1>2, <1>4, <2>5, <3>2
  <2>8. CASE arrived[c] # <<>>
    <3>1. Base(c)' = Base(c) /\ Open(c)
      BY <2>3, <2>8 DEF Base, Open
    <3>2. PICK b \in Seq(Element) : b = Base(c)
      BY <1>1, BaseType
    <3>3. PICK g : g = Followed(c)'
      OBVIOUS
    <3>4. Matching(Append(b, e), g) = Matching(b, g)
      BY <2>5, <3>1, <3>3, AlikeAppended
    <3>5. Matching(Handled(Base(c), m, filter[c]), g) = Matching(Base(c), g)
      BY <2>6, <3>2, <3>4
    <3> QED
      BY <1>2, <1>4, <2>5, <3>1, <3>3, <3>5
  <2> QED
    BY <2>7, <2>8
<1>9. CASE m.kind # "reply" /\ m.kind # "event"
  <2>1. m \notin Events /\ m \notin Replies
    BY <1>5, <1>9, Kinds
  <2>2. list' = list /\ arrived' = arrived /\ late' = late
    BY <1>2, <1>4, <1>9 DEF Receive
  <2>3. Base(c)' = Base(c) /\ Followed(c)' = Followed(c)
    BY <1>6, <2>2 DEF Base, Followed
  <2> QED
    BY <1>2, <1>4, <2>1, <2>3 DEF Handled
<1> QED
  BY <1>7, <1>8, <1>9

\* What a client receives is its own affair.
LEMMA ReceivedByOne ==
    ASSUME TypeOK, NEW c \in Client, Receive(c), NEW d \in Client, d # c
    PROVE  /\ list'[d] = list[d] /\ arrived'[d] = arrived[d] /\ toClient'[d] = toClient[d]
           /\ late'[d] = late[d] /\ own'[d] = own[d] /\ submitted'[d] = submitted[d]
<1> DEFINE m == Head(toClient[c])
<1>1. /\ list \in [Client -> Seq(Element)] /\ arrived \in [Client -> Seq(Seq(Element))]
      /\ toClient \in [Client -> Seq(Message)] /\ late \in [Client -> SUBSET Element]
      /\ submitted \in [Client -> Nat]
  BY DEF TypeOK
<1>2. toClient' = [toClient EXCEPT ![c] = Tail(@)] /\ own' = own
  BY DEF Receive
<1>3. list' = list \/ list' = [list EXCEPT ![c] = Observed(c, m.element)]
  BY DEF Receive
<1>4. arrived' = arrived \/ arrived' = [arrived EXCEPT ![c] = IF submitted[c] > 0 THEN Append(@, m.list) ELSE @]
  BY DEF Receive
<1>5. late' = late \/ late' = [late EXCEPT ![c] = IF Open(c) THEN @ \cup {m.element} ELSE @]
  BY DEF Receive, MarkLate
<1>6. submitted' = submitted \/ submitted' = [submitted EXCEPT ![c] = IF @ > 0 THEN @ - 1 ELSE 0]
  BY DEF Receive
<1> HIDE DEF m
<1>7. list'[d] = list[d] /\ toClient'[d] = toClient[d] /\ submitted'[d] = submitted[d]
  BY <1>1, <1>2, <1>3, <1>6
<1>8. arrived'[d] = arrived[d]
  BY <1>1, <1>4
<1>9. late'[d] = late[d]
  BY <1>1, <1>5
<1> QED
  BY <1>2, <1>7, <1>8, <1>9

LEMMA ObserverStep_Receive ==
    ASSUME ConnectionInv, NEW c \in Client, Receive(c), NEW d \in Client, ObserverInv(d)
    PROVE  ObserverInv(d)'
<1>1. TypeOK
  BY DEF ConnectionInv
<1>2. UNCHANGED <<coreUp, journal, filter, toHub, subs, duplex, own>>
  BY DEF Receive
<1>3. toClient \in [Client -> Seq(Message)]
  BY <1>1 DEF TypeOK
<1>4. toClient' = [toClient EXCEPT ![c] = Tail(@)] /\ toClient[c] # <<>>
  BY DEF Receive
<1>5. CASE d # c
  <2>1. Settled(d) => Settled(d)'
    BY <1>1, <1>2, <1>5, ReceivedByOne, SettledUnchanged
  <2> QED
    BY <1>2, <2>1, ObserverUnchanged
<1>6. CASE d = c /\ ~ coreUp
  BY <1>2, <1>6 DEF ObserverInv
<1>7. CASE d = c /\ coreUp
  <2>1. PICK q \in Seq(Message) : q = toClient[c]
    BY <1>3
  <2>2. PICK b \in Seq(Element) : b = Base(c)
    BY <1>1, BaseType
  <2>3. PICK n \in Seq(Element) : n = Base(c)'
    <3>1. TypeOK'
      BY <1>1, TypeReceive
    <3>2. Base(c)' \in Seq(Element)
      <4>1. PICK a \in Seq(Seq(Element)) : a = arrived'[c]
        BY <3>1 DEF TypeOK
      <4>2. a # <<>> => a[Len(a)] \in Seq(Element)
        <5>1. a # <<>> => Len(a) \in 1 .. Len(a)
          OBVIOUS
        <5> QED
          BY <5>1
      <4>3. list'[c] \in Seq(Element)
        BY <3>1 DEF TypeOK
      <4> QED
        BY <4>1, <4>2, <4>3 DEF Base
    <3> QED
      BY <3>2, Zenon
  <2>4. PICK j \in Seq(Element) : j = journal
    BY <1>1 DEF TypeOK
  <2>5. PICK f, g, y : f = filter[c] /\ g = Followed(c) /\ y = Followed(c)'
    OBVIOUS
  <2>6. toClient'[c] = Tail(q) /\ q # <<>>
    BY <1>3, <1>4, <2>1
  <2>7. Head(q) \in Message /\ Tail(q) \in Seq(Message)
    BY <2>6
  <2>8. PICK t \in Seq(Message) : t = Tail(q)
    BY <2>7, Zenon
  <2>9. PICK x \in Seq(Element) : x = Handled(b, Head(q), f)
    <3>1. Handled(b, Head(q), f) \in Seq(Element)
      BY <2>7, HandledType
    <3> QED
      BY <3>1, Zenon
  <2>10. Matching(n, y) = Matching(x, y) /\ y \subseteq g
    BY <1>7, <2>1, <2>2, <2>3, <2>5, <2>9, ReceivedIsHandled
  <2>11. Outcome(b, q, f) = Outcome(x, t, f)
    BY <2>6, <2>8, <2>9, OutcomeHead
  <2>12. Matching(Outcome(n, t, f), y) = Matching(Outcome(x, t, f), y)
    BY <2>10, AlikeOutcome
  <2>13. PICK o \in Seq(Element) : o = Outcome(x, t, f)
    <3>1. Outcome(x, t, f) \in Seq(Element)
      BY OutcomeType
    <3> QED
      BY <3>1, Zenon
  <2>14. Settled(c) => Matching(o, g) = Matching(j, g)
    BY <2>1, <2>2, <2>4, <2>5, <2>11, <2>13 DEF Settled
  <2>15. Settled(c) => Matching(o, y) = Matching(j, y)
    BY <2>10, <2>14, AlikeInFewer
  <2>16. Settled(c) => Settled(c)'
    <3>1. ASSUME Settled(c) PROVE NoneOf(toHub'[c], {"sub", "request"})
      BY <1>2, <3>1 DEF Settled
    <3>2. ASSUME Settled(c)
          PROVE  Matching(Outcome(Base(c)', toClient'[c], filter'[c]), Followed(c)') = Matching(journal', Followed(c)')
      BY <1>2, <2>3, <2>4, <2>5, <2>6, <2>8, <2>12, <2>13, <2>15, <3>2
    <3> QED
      BY <3>1, <3>2 DEF Settled
  <2> QED
    BY <1>2, <1>7, <2>16, ObserverUnchanged
<1> QED
  BY <1>5, <1>6, <1>7

\* A replacement changes the list to the one that was to come.
LEMMA ReplacedIsBase ==
    ASSUME TypeOK, NEW c \in Client, Replace(c)
    PROVE  Base(c)' = Base(c)
<1>1. PICK a \in Seq(Seq(Element)) : a = arrived[c]
  BY DEF TypeOK
<1>2. a # <<>> /\ arrived'[c] = Tail(a) /\ list'[c] = Head(a)
  BY <1>1 DEF Replace, Replaced, TypeOK
<1>3. CASE Tail(a) = <<>>
  <2>1. Head(a) = a[Len(a)]
    BY <1>2, <1>3, LastOfSequence, Zenon
  <2> QED
    BY <1>1, <1>2, <1>3, <2>1, Zenon DEF Base
<1>4. CASE Tail(a) # <<>>
  <2>1. Tail(a)[Len(Tail(a))] = a[Len(a)]
    BY <1>2, <1>4, LastOfSequence, Zenon
  <2> QED
    BY <1>1, <1>2, <1>4, <2>1, Zenon DEF Base
<1> QED
  BY <1>3, <1>4

LEMMA ObserverStep_Replace ==
    ASSUME ConnectionInv, NEW c \in Client, Replace(c), NEW d \in Client, ObserverInv(d)
    PROVE  ObserverInv(d)'
<1>1. TypeOK
  BY DEF ConnectionInv
<1>2. UNCHANGED <<coreUp, journal, filter, toHub, toClient, subs, duplex, late, own>>
  BY DEF Replace, linkVars, markVars
<1>3. Base(d)' = Base(d)
  <2>1. CASE d = c
    BY <1>1, <2>1, ReplacedIsBase
  <2>2. CASE d # c
    <3>1. list'[d] = list[d] /\ arrived'[d] = arrived[d]
      BY <1>1, <2>2 DEF Replace, TypeOK
    <3> QED
      BY <3>1 DEF Base
  <2> QED
    BY <2>1, <2>2
<1>4. Followed(d)' = Followed(d)
  BY <1>2 DEF Followed
<1>5. Settled(d) => Settled(d)'
  BY <1>2, <1>3, <1>4 DEF Settled
<1> QED
  BY <1>2, <1>5, ObserverUnchanged

\* Signals do not change a list.
LEMMA OutcomeOfSignal ==
    ASSUME TypeOK, NEW d \in Client, NEW m \in Message, m \notin Replies, m \notin Events, NEW f
    PROVE  Outcome(Base(d), Append(toClient[d], m), f) = Outcome(Base(d), toClient[d], f)
<1>1. PICK q \in Seq(Message), l \in Seq(Element) : q = toClient[d] /\ l = Base(d)
  <2>1. toClient[d] \in Seq(Message) /\ Base(d) \in Seq(Element)
    BY BaseType DEF TypeOK
  <2> QED
    BY <2>1, Zenon
<1>2. Outcome(l, Append(q, m), f) = Handled(Outcome(l, q, f), m, f)
  BY OutcomeAppend
<1> QED
  BY <1>1, <1>2 DEF Handled

\* The journal takes an element and sends it to those who subscribe to it.
LEMMA ObserverStep_Element ==
    ASSUME ConnectionInv, NEW d \in Client, ObserverInv(d), coreUp, NEW e \in Element,
           UNCHANGED <<coreUp, filter, list, arrived, late, own, duplex, subs>>, toHub'[d] = toHub[d],
           journal' = Append(journal, e),
           toClient'[d] = IF d \in Subscribed(e) THEN Append(toClient[d], [kind |-> "event", element |-> e])
                          ELSE toClient[d]
    PROVE  ObserverInv(d)'
<1>1. TypeOK /\ DuplexInv(d)
  BY DEF ConnectionInv
<1>2. OwnEvents(toHub'[d], own'[d])
  BY DEF ObserverInv
<1>3. SUFFICES ASSUME duplex[d] = "ready" PROVE Announced(d)' /\ (Asked(d)' \/ Settled(d)')
  BY <1>2 DEF ObserverInv
<1>4. Announced(d) /\ (Asked(d) \/ Settled(d))
  BY <1>3 DEF ObserverInv
<1>5. Announced(d)'
  BY <1>4 DEF Announced
<1>6. CASE Asked(d)
  BY <1>5, <1>6 DEF Asked
<1>7. CASE Settled(d)
  <2>1. subs[d] = filter[d]
    <3>1. NoneOf(toHub[d], {"sub", "request"})
      BY <1>7 DEF Settled
    <3>2. ~ LastOf(toHub[d], {"sub"}, [kind |-> "sub", filter |-> filter[d]])
      BY <3>1 DEF NoneOf, LastOf
    <3> QED
      BY <1>4, <3>2 DEF Announced
  <2>2. d \in clients
    <3>1. PICK h \in Seq(Message), q \in Seq(Message) : h = toHub[d] /\ q = toClient[d]
      <4>1. toHub[d] \in Seq(Message) /\ toClient[d] \in Seq(Message)
        BY <1>1 DEF TypeOK
      <4> QED
        BY <4>1
    <3>2. Count(h, Opens) \in Nat /\ Count(q, Openeds) \in Nat
      BY CountType
    <3>3. Count(h, Opens) + Count(q, Openeds) = 0
      BY <1>1, <1>3, <3>1 DEF DuplexInv
    <3> QED
      BY <1>1, <1>3, <3>1, <3>2, <3>3 DEF DuplexInv
  <2>3. d \in Subscribed(e) <=> e \in filter[d]
    BY <2>1, <2>2 DEF Subscribed
  <2>4. PICK j \in Seq(Element), l \in Seq(Element), q \in Seq(Message) :
           j = journal /\ l = Base(d) /\ q = toClient[d]
    <3>1. journal \in Seq(Element) /\ Base(d) \in Seq(Element) /\ toClient[d] \in Seq(Message)
      BY <1>1, BaseType DEF TypeOK
    <3> QED
      BY <3>1, Zenon
  <2>5. PICK f, g : f = filter[d] /\ g = Followed(d)
    OBVIOUS
  <2>6. PICK o \in Seq(Element) : o = Outcome(l, q, f)
    <3>1. Outcome(l, q, f) \in Seq(Element)
      BY OutcomeType
    <3> QED
      BY <3>1, Zenon
  <2>7. Matching(o, g) = Matching(j, g) /\ g \subseteq f
    BY <1>7, <2>4, <2>5, <2>6 DEF Settled, Followed
  <2>8. /\ Matching(Append(j, e), g) = IF e \in g THEN Append(Matching(j, g), e) ELSE Matching(j, g)
        /\ Matching(Append(o, e), g) = IF e \in g THEN Append(Matching(o, g), e) ELSE Matching(o, g)
    <3>1. Matching(Append(j, e), g) = IF e \in g THEN Append(Matching(j, g), e) ELSE Matching(j, g)
      BY MatchingAppend
    <3>2. Matching(Append(o, e), g) = IF e \in g THEN Append(Matching(o, g), e) ELSE Matching(o, g)
      BY MatchingAppend
    <3> QED
      BY <3>1, <3>2
  <2>9. PICK m \in Message : m = [kind |-> "event", element |-> e]
    <3>1. [kind |-> "event", element |-> e] \in Message
      BY DEF Message, Events
    <3> QED
      BY <3>1, Zenon
  <2>10. m \in Events /\ m \notin Replies /\ m.element = e
    BY <2>9, Kinds
  <2>11. Outcome(l, Append(q, m), f) = Handled(o, m, f)
    BY <2>6, OutcomeAppend
  <2>12. Matching(Outcome(l, toClient'[d], f), g) = Matching(Append(j, e), g)
    <3>1. CASE e \in f
      <4>1. toClient'[d] = Append(q, m)
        BY <2>3, <2>4, <2>5, <2>9, <3>1
      <4>2. Handled(o, m, f) = Append(o, e)
        BY <2>10, <3>1 DEF Handled
      <4>3. Matching(Append(o, e), g) = Matching(Append(j, e), g)
        <5>1. CASE e \in g
          BY <2>7, <2>8, <5>1
        <5>2. CASE e \notin g
          BY <2>7, <2>8, <5>2
        <5> QED
          BY <5>1, <5>2
      <4> QED
        BY <2>11, <4>1, <4>2, <4>3
    <3>2. CASE e \notin f
      <4>1. toClient'[d] = q
        BY <2>3, <2>4, <2>5, <3>2
      <4>2. e \notin g
        BY <2>7, <3>2
      <4> QED
        BY <2>6, <2>7, <2>8, <4>1, <4>2
    <3> QED
      BY <3>1, <3>2
  <2>13. Settled(d)'
    <3>1. NoneOf(toHub'[d], {"sub", "request"})
      BY <1>7 DEF Settled
    <3>2. Base(d)' = Base(d) /\ Followed(d)' = Followed(d)
      BY DEF Base, Followed
    <3>3. Matching(Outcome(Base(d)', toClient'[d], filter'[d]), Followed(d)') = Matching(journal', Followed(d)')
      BY <2>4, <2>5, <2>12, <3>2
    <3> QED
      BY <3>1, <3>3 DEF Settled
  <2> QED
    BY <1>5, <2>13
<1> QED
  BY <1>4, <1>6, <1>7

\* The observer whose call is handled.
LEMMA ObserverStep_OwnCall ==
    ASSUME ConnectionInv, NEW c \in Client, Handle(c), ObserverInv(c)
    PROVE  ObserverInv(c)'
<1>1. TypeOK
  BY DEF ConnectionInv
<1>2. PICK h \in Seq(Message), q \in Seq(Message) : h = toHub[c] /\ q = toClient[c]
  <2>1. toHub[c] \in Seq(Message) /\ toClient[c] \in Seq(Message)
    BY <1>1 DEF TypeOK
  <2> QED
    BY <2>1
<1>3. PICK m : m = Head(h)
  OBVIOUS
<1>4. h # <<>> /\ m \in Message
  BY <1>2, <1>3 DEF Handle
<1>5. PICK t \in Seq(Message) : t = Tail(h)
  <2>1. Tail(h) \in Seq(Message)
    BY <1>4
  <2> QED
    BY <2>1, Zenon
<1>6. toHub'[c] = t
  BY <1>1, <1>2, <1>5 DEF Handle, TypeOK
<1>7. UNCHANGED <<coreUp, filter, list, duplex, arrived, late, own>>
  BY DEF Handle, markVars
<1>8. HubOpen(c, m) \/ HubRequestSubscriptions(c, m) \/ HubSubscribe(c, m)
         \/ HubRequest(c, m) \/ HubEvent(c, m)
  BY <1>2, <1>3 DEF Handle
<1>9. OwnEvents(t, own[c]) /\ (m.kind = "event" /\ NoneOf(h, {"sub", "request"}) => m.element \in own[c])
  <2>1. OwnEvents(h, own[c])
    BY <1>2 DEF ObserverInv
  <2> QED
    BY <1>3, <1>4, <1>5, <2>1, OwnEventsTail
<1>10. SUFFICES ASSUME coreUp, duplex[c] = "ready" PROVE Announced(c)' /\ (Asked(c)' \/ Settled(c)')
  BY <1>6, <1>7, <1>9 DEF ObserverInv
<1> DEFINE s == [kind |-> "sub", filter |-> filter[c]]
           r == [kind |-> "request", filter |-> filter[c]]
           K == {"sub", "request"}
<1>11. Announced(c) /\ (Asked(c) \/ Settled(c))
  BY <1>10 DEF ObserverInv
<1>12. s.kind = "sub" /\ r.kind = "request" /\ s.filter = filter[c] /\ r.filter = filter[c]
  OBVIOUS
<1>13. (NoneOf(h, {"sub"}) /\ subs[c] = filter[c]) \/ LastOf(h, {"sub"}, s)
  BY <1>2, <1>11 DEF Announced
<1>14. LastOf(h, K, r) \/ (NoneOf(h, K) /\ Settled(c))
  BY <1>2, <1>11 DEF Asked, Settled
<1>15. \A L : NoneOf(h, L) <=> NoneOf(t, L) /\ m.kind \notin L
  BY <1>3, <1>4, <1>5, NoneOfTail
<1>16. \A L, x : LastOf(h, L, x) => LastOf(t, L, x) \/ (m = x /\ NoneOf(t, L))
  BY <1>3, <1>4, <1>5, LastOfTail
<1>17. Announced(c)' <=> (NoneOf(t, {"sub"}) /\ subs'[c] = filter[c]) \/ LastOf(t, {"sub"}, s)
  BY <1>6, <1>7 DEF Announced
<1>18. Asked(c)' <=> LastOf(t, K, r)
  BY <1>6, <1>7 DEF Asked
<1> DEFINE b == Base(c)
           f == filter[c]
           g == Followed(c)
<1>19. Settled(c)' <=> NoneOf(t, K) /\ Matching(Outcome(b, toClient'[c], f), g) = Matching(journal', g)
  <2>1. Base(c)' = b /\ Followed(c)' = g
    BY <1>7 DEF Base, Followed
  <2> QED
    BY <1>6, <1>7, <2>1 DEF Settled
<1>20. NoneOf(h, K) => Matching(Outcome(b, q, f), g) = Matching(journal, g)
  <2>1. CASE LastOf(h, K, r)
    <3>1. \E i \in DOMAIN h : h[i].kind \in K
      BY <1>12, <2>1 DEF LastOf
    <3> QED
      BY <3>1 DEF NoneOf
  <2>2. CASE Settled(c)
    BY <1>2, <2>2 DEF Settled
  <2> QED
    BY <1>14, <2>1, <2>2
<1>24. b \in Seq(Element) /\ journal \in Seq(Element) /\ g \subseteq f
  BY <1>1, BaseType DEF TypeOK, Followed
<1>25. f = filter[c] /\ b = Base(c) /\ g \cap own[c] = {}
  BY DEF Followed
<1> HIDE DEF s, r, b, f, g
<1>21. CASE m.kind \in {"open", "reqsubs"}
  <2>1. m # s /\ m # r /\ m.kind \notin {"sub"} /\ m.kind \notin K
    BY <1>12, <1>21
  <2>2. subs' = subs /\ journal' = journal
    BY <1>8, <1>21 DEF HubOpen, HubRequestSubscriptions, HubSubscribe, HubRequest, HubEvent
  <2>3. PICK o \in Message : o \notin Replies /\ o \notin Events /\ toClient'[c] = Append(q, o)
    <3>1. PICK o \in Message : o.kind \in {"opened", "subs"} /\ toClient' = SentTo({c}, o)
      <4>1. CASE HubOpen(c, m)
        BY <4>1, Signals DEF HubOpen
      <4>2. CASE HubRequestSubscriptions(c, m)
        BY <4>2, Signals DEF HubRequestSubscriptions
      <4> QED
        BY <1>8, <1>21, <4>1, <4>2 DEF HubSubscribe, HubRequest, HubEvent
    <3>2. o \notin Replies /\ o \notin Events
      BY <3>1, Kinds
    <3>3. toClient'[c] = Append(toClient[c], o)
      BY <1>1, <3>1, SentEffect
    <3> QED
      BY <1>2, <3>2, <3>3
  <2>4. Outcome(b, toClient'[c], f) = Outcome(b, q, f)
    BY <1>1, <1>2, <1>25, <2>3, OutcomeOfSignal
  <2>5. Announced(c)'
    BY <1>13, <1>15, <1>16, <1>17, <2>1, <2>2
  <2>6. CASE LastOf(h, K, r)
    BY <1>16, <1>18, <2>1, <2>5, <2>6
  <2>7. CASE NoneOf(h, K)
    BY <1>15, <1>19, <1>20, <2>2, <2>4, <2>5, <2>7
  <2> QED
    BY <1>14, <2>6, <2>7
<1>22. CASE m.kind = "sub"
  <2>1. HubSubscribe(c, m)
    BY <1>8, <1>22 DEF HubOpen, HubRequestSubscriptions, HubRequest, HubEvent
  <2>2. subs'[c] = m.filter
    BY <1>1, <2>1 DEF HubSubscribe, TypeOK
  <2>3. m # r /\ m.kind \in {"sub"} /\ m.kind \in K
    BY <1>12, <1>22
  <2>4. LastOf(t, K, r)
    BY <1>14, <1>15, <1>16, <2>3
  <2>5. Announced(c)'
    BY <1>12, <1>13, <1>15, <1>16, <1>17, <2>2, <2>3
  <2> QED
    BY <1>18, <2>4, <2>5
<1>23. CASE m.kind = "request"
  <2>1. HubRequest(c, m)
    BY <1>8, <1>23 DEF HubOpen, HubRequestSubscriptions, HubSubscribe, HubEvent
  <2>2. subs' = subs /\ journal' = journal
    BY <2>1 DEF HubRequest
  <2>3. m # s /\ m.kind \notin {"sub"} /\ m.kind \in K
    BY <1>12, <1>23
  <2>4. Announced(c)'
    BY <1>13, <1>15, <1>16, <1>17, <2>2, <2>3
  <2>5. CASE LastOf(t, K, r)
    BY <1>18, <2>4, <2>5
  <2>6. CASE m = r /\ NoneOf(t, K)
    <3>1. PICK l \in Seq(Element) : l = Matching(journal, m.filter)
      <4>1. Matching(journal, m.filter) \in Seq(Element)
        BY <1>1, MatchingType DEF TypeOK
      <4> QED
        BY <4>1, Zenon
    <3>2. PICK o \in Message : o = [kind |-> "reply", list |-> l]
      <4>1. [kind |-> "reply", list |-> l] \in Message
        BY DEF Message, Replies
      <4> QED
        BY <4>1, Zenon
    <3>3. o \in Replies /\ o.list = l
      BY <3>2, Kinds
    <3>4. toClient'[c] = Append(q, o)
      <4>1. toClient' = SentTo({c}, o)
        BY <2>1, <3>1, <3>2 DEF HubRequest
      <4> QED
        BY <1>1, <1>2, <4>1, SentEffect
    <3>5. Outcome(b, Append(q, o), f) = Handled(Outcome(b, q, f), o, f)
      BY <1>24, OutcomeAppend
    <3>6. Outcome(b, toClient'[c], f) = l
      BY <3>3, <3>4, <3>5 DEF Handled
    <3>7. l = Matching(journal, f)
      BY <1>12, <1>25, <2>6, <3>1
    <3>8. Matching(Matching(journal, f), g) = Matching(journal, g)
      BY <1>24, MatchingTwice
    <3> QED
      BY <1>19, <2>2, <2>4, <2>6, <3>6, <3>7, <3>8
  <2> QED
    BY <1>14, <1>15, <1>16, <2>3, <2>5, <2>6
<1>26. CASE m.kind = "event"
  <2>1. HubEvent(c, m)
    BY <1>8, <1>26 DEF HubOpen, HubRequestSubscriptions, HubSubscribe, HubRequest
  <2>2. m # s /\ m # r /\ m.kind \notin {"sub"} /\ m.kind \notin K
    BY <1>12, <1>26
  <2>3. Announced(c)'
    BY <1>13, <1>15, <1>16, <1>17, <2>1, <2>2 DEF HubEvent
  <2>4. CASE LastOf(h, K, r)
    BY <1>16, <1>18, <2>2, <2>3, <2>4
  <2>5. CASE NoneOf(h, K)
    <3>1. PICK e \in Element : e = m.element
      <4>1. m \in Events
        BY <1>4, <1>26, Kinds
      <4>2. m.element \in Element
        BY <4>1 DEF Events
      <4> QED
        BY <4>2, Zenon
    <3>2. e \notin g
      BY <1>9, <1>25, <1>26, <2>5, <3>1
    <3>3. toClient'[c] = q
      <4>1. toClient' = SentTo(Subscribed(m.element) \ {c}, m)
        BY <2>1 DEF HubEvent
      <4> QED
        BY <1>2, <4>1 DEF SentTo
    <3>4. Matching(Append(journal, e), g) = Matching(journal, g)
      BY <1>24, <3>2, AlikeAppended
    <3>5. journal' = Append(journal, e)
      BY <2>1, <3>1 DEF HubEvent
    <3>6. NoneOf(t, K)
      BY <1>15, <2>5
    <3> QED
      BY <1>19, <1>20, <2>3, <2>5, <3>3, <3>4, <3>5, <3>6
  <2> QED
    BY <1>14, <2>4, <2>5
<1> QED
  BY <1>8, <1>21, <1>22, <1>23, <1>26 DEF HubOpen, HubRequestSubscriptions, HubSubscribe, HubRequest, HubEvent

\* An observer while the call of another client is handled.
LEMMA ObserverStep_OtherCall ==
    ASSUME ConnectionInv, NEW c \in Client, Handle(c), NEW d \in Client, d # c, ObserverInv(d)
    PROVE  ObserverInv(d)'
<1>1. TypeOK
  BY DEF ConnectionInv
<1>2. PICK m : m = Head(toHub[c])
  OBVIOUS
<1>3. toHub[c] \in Seq(Message) /\ toHub[c] # <<>>
  BY <1>1 DEF TypeOK, Handle
<1>4. m \in Message
  BY <1>2, <1>3
<1>5. UNCHANGED <<coreUp, filter, list, duplex, arrived, late, own>> /\ coreUp /\ toHub'[d] = toHub[d]
  BY <1>1 DEF Handle, TypeOK, markVars
<1>6. HubOpen(c, m) \/ HubRequestSubscriptions(c, m) \/ HubSubscribe(c, m)
         \/ HubRequest(c, m) \/ HubEvent(c, m)
  BY <1>2 DEF Handle
<1>7. CASE HubOpen(c, m) \/ HubRequestSubscriptions(c, m) \/ HubRequest(c, m)
  <2>1. \E o : toClient' = SentTo({c}, o)
    BY <1>7 DEF HubOpen, HubRequestSubscriptions, HubRequest
  <2>2. toClient'[d] = toClient[d]
    BY <2>1 DEF SentTo
  <2>3. UNCHANGED <<journal, subs>>
    BY <1>7 DEF HubOpen, HubRequestSubscriptions, HubRequest
  <2>4. Settled(d) => Settled(d)'
    BY <1>5, <2>2, <2>3, SettledUnchanged
  <2> QED
    BY <1>5, <2>3, <2>4, ObserverUnchanged
<1>8. CASE HubSubscribe(c, m)
  <2>1. PICK o \in Message : o = [kind |-> "subs"]
    <3>1. [kind |-> "subs"] \in Message
      BY Signals
    <3> QED
      BY <3>1, Zenon
  <2>2. o \notin Replies /\ o \notin Events
    BY <2>1, Kinds
  <2>3. toClient'[d] = toClient[d] \/ toClient'[d] = Append(toClient[d], o)
    <3>1. toClient' = SentTo(clients \ {c}, o)
      BY <1>8, <2>1 DEF HubSubscribe
    <3> QED
      BY <1>1, <3>1, SentEffect
  <2>4. Outcome(Base(d), toClient'[d], filter[d]) = Outcome(Base(d), toClient[d], filter[d])
    <3>1. Outcome(Base(d), Append(toClient[d], o), filter[d]) = Outcome(Base(d), toClient[d], filter[d])
      BY <1>1, <2>2, OutcomeOfSignal
    <3> QED
      BY <2>3, <3>1
  <2>5. subs'[d] = subs[d] /\ journal' = journal
    BY <1>1, <1>8 DEF HubSubscribe, TypeOK
  <2>6. Base(d)' = Base(d) /\ Followed(d)' = Followed(d)
    BY <1>5 DEF Base, Followed
  <2>7. Settled(d) => Settled(d)'
    BY <1>5, <2>4, <2>5, <2>6 DEF Settled
  <2> QED
    BY <1>5, <2>5, <2>7, ObserverUnchanged
<1>9. CASE HubEvent(c, m)
  <2>1. PICK e \in Element : e = m.element
    <3>1. m \in Events
      BY <1>4, <1>9, Kinds DEF HubEvent
    <3>2. m.element \in Element
      BY <3>1 DEF Events
    <3> QED
      BY <3>2, Zenon
  <2>2. m = [kind |-> "event", element |-> e]
    <3>1. m \in Events
      BY <1>4, <1>9, Kinds DEF HubEvent
    <3> QED
      BY <2>1, <3>1 DEF Events
  <2>3. toClient'[d] = IF d \in Subscribed(e) THEN Append(toClient[d], m) ELSE toClient[d]
    <3>1. toClient' = SentTo(Subscribed(e) \ {c}, m)
      BY <1>9, <2>1 DEF HubEvent
    <3>2. toClient'[d] = IF d \in Subscribed(e) \ {c} THEN Append(toClient[d], m) ELSE toClient[d]
      BY <1>1, <1>4, <3>1, SentEffect
    <3> QED
      BY <3>2
  <2>4. journal' = Append(journal, e) /\ subs' = subs
    BY <1>9, <2>1 DEF HubEvent
  <2> QED
    BY <1>5, <2>2, <2>3, <2>4, ObserverStep_Element
<1> QED
  BY <1>6, <1>7, <1>8, <1>9

\* What a process posts is the last of its calls, if it is sent.
LEMMA PostedQueue ==
    ASSUME TypeOK, NEW c \in Client, NEW e \in Element, Post(c, e)
    PROVE  /\ \/ toHub'[c] = toHub[c]
              \/ toHub'[c] = Append(toHub[c], [kind |-> "event", element |-> e])
           /\ \A d \in Client : d # c => toHub'[d] = toHub[d]
<1>1. PICK m \in Message : m = [kind |-> "event", element |-> e]
  <2>1. [kind |-> "event", element |-> e] \in Message
    BY DEF Message, Events
  <2> QED
    BY <2>1, Zenon
<1>2. Call(c, <<m>>) \/ UNCHANGED toHub
  BY <1>1 DEF Post
<1>3. CASE Call(c, <<m>>)
  <2>1. <<m>> \in Seq(Message)
    OBVIOUS
  <2>2. /\ toHub'[c] = IF coreUp THEN toHub[c] \o <<m>> ELSE toHub[c]
        /\ \A d \in Client \ {c} : toHub'[d] = toHub[d]
    BY <1>3, <2>1, CallEffect
  <2>3. toHub[c] \o <<m>> = Append(toHub[c], m)
    BY DEF TypeOK
  <2> QED
    BY <1>1, <2>2, <2>3
<1> QED
  BY <1>2, <1>3

\* The list of an observer that posts an element itself, without its own elements.
LEMMA PostedIsOwn ==
    ASSUME TypeOK, NEW c \in Viewer, NEW e \in Element, Post(c, e)
    PROVE  /\ own'[c] = own[c] \cup {e} /\ e \notin Followed(c)' /\ Followed(c)' \subseteq Followed(c)
           /\ list'[c] = list[c] \/ list'[c] = Append(list[c], e)
           /\ Base(c)' = Base(c) \/ Base(c)' = Append(Base(c), e)
<1>1. c \in Client
  BY ClientAssumption
<1>2. /\ own' = [own EXCEPT ![c] = IF c \in Viewer THEN @ \cup {e} ELSE @]
      /\ late' = [late EXCEPT ![c] = IF Open(c) THEN @ \cup {e} ELSE @]
      /\ list' = [list EXCEPT ![c] = Observed(c, e)]
      /\ arrived' = arrived /\ filter' = filter
  BY DEF Post, MarkLate
<1>3. own'[c] = own[c] \cup {e} /\ late[c] \subseteq late'[c]
  BY <1>1, <1>2 DEF TypeOK
<1>4. e \notin Followed(c)' /\ Followed(c)' \subseteq Followed(c)
  BY <1>2, <1>3 DEF Followed
<1>5. list'[c] = list[c] \/ list'[c] = Append(list[c], e)
  BY <1>1, <1>2 DEF TypeOK, Observed
<1>6. Base(c)' = Base(c) \/ Base(c)' = Append(Base(c), e)
  BY <1>2, <1>5, Zenon DEF Base
<1> QED
  BY <1>3, <1>4, <1>5, <1>6

LEMMA ObserverStep_Post ==
    ASSUME ConnectionInv, NEW c \in Client, NEW e \in Element, Post(c, e),
           NEW d \in Viewer, ObserverInv(d)
    PROVE  ObserverInv(d)'
<1>1. TypeOK /\ d \in Client
  BY ClientAssumption DEF ConnectionInv
<1>2. UNCHANGED <<coreUp, journal, filter, toClient, arrived, subs, duplex>>
  BY DEF Post, linkVars
<1>3. CASE d # c
  <2>1. list'[d] = list[d] /\ late'[d] = late[d] /\ own'[d] = own[d]
    BY <1>1, <1>3 DEF Post, MarkLate, TypeOK
  <2>2. toHub'[d] = toHub[d]
    BY <1>1, <1>3, PostedQueue
  <2>3. Settled(d) => Settled(d)'
    BY <1>1, <1>2, <2>1, <2>2, SettledUnchanged
  <2> QED
    BY <1>1, <1>2, <2>1, <2>2, <2>3, ObserverUnchanged
<1>4. CASE d = c
  <2>1. PICK h \in Seq(Message), q \in Seq(Message) : h = toHub[d] /\ q = toClient[d]
    <3>1. toHub[d] \in Seq(Message) /\ toClient[d] \in Seq(Message)
      BY <1>1 DEF TypeOK
    <3> QED
      BY <3>1
  <2>2. PICK m \in Message : m = [kind |-> "event", element |-> e]
    <3>1. [kind |-> "event", element |-> e] \in Message
      BY DEF Message, Events
    <3> QED
      BY <3>1, Zenon
  <2>3. toHub'[d] = h \/ toHub'[d] = Append(h, m)
    BY <1>1, <1>4, <2>1, <2>2, PostedQueue
  <2>4. m.kind = "event" /\ m.element = e
    BY <2>2
  <2>5. own'[d] = own[d] \cup {e} /\ e \notin Followed(d)' /\ Followed(d)' \subseteq Followed(d)
    BY <1>1, <1>4, PostedIsOwn
  <2>6. OwnEvents(toHub'[d], own'[d])
    <3>1. OwnEvents(h, own[d])
      BY <2>1 DEF ObserverInv
    <3>2. OwnEvents(h, own'[d])
      BY <2>5, <3>1 DEF OwnEvents
    <3>3. OwnEvents(Append(h, m), own'[d])
      BY <2>4, <2>5, <3>1, OwnEventsAppend
    <3> QED
      BY <2>3, <3>2, <3>3
  <2>7. SUFFICES ASSUME coreUp, duplex[d] = "ready" PROVE Announced(d)' /\ (Asked(d)' \/ Settled(d)')
    BY <1>2, <2>6 DEF ObserverInv
  <2>8. Announced(d) /\ (Asked(d) \/ Settled(d))
    BY <2>7 DEF ObserverInv
  <2>9. \A K : "event" \notin K /\ NoneOf(h, K) => NoneOf(toHub'[d], K)
    <3>1. \A K : NoneOf(Append(h, m), K) <=> NoneOf(h, K) /\ m.kind \notin K
      BY NoneOfAppend
    <3> QED
      BY <2>3, <2>4, <3>1, Zenon
  <2>10. \A K, x : "event" \notin K /\ LastOf(h, K, x) => LastOf(toHub'[d], K, x)
    BY <2>3, <2>4, LastOfAppend
  <2>11. Announced(d)'
    BY <1>2, <2>1, <2>8, <2>9, <2>10 DEF Announced
  <2>12. Asked(d) => Asked(d)'
    BY <1>2, <2>1, <2>10 DEF Asked
  <2>13. ASSUME Settled(d) PROVE Settled(d)'
    <3>1. PICK b \in Seq(Element), j \in Seq(Element) : b = Base(d) /\ j = journal
      <4>1. Base(d) \in Seq(Element) /\ journal \in Seq(Element)
        BY <1>1, BaseType DEF TypeOK
      <4> QED
        BY <4>1, Zenon
    <3>2. PICK f, g, y : f = filter[d] /\ g = Followed(d) /\ y = Followed(d)'
      OBVIOUS
    <3>3. PICK n \in Seq(Element) : n = Base(d)' /\ (n = b \/ n = Append(b, e))
      <4>1. Base(d)' = Base(d) \/ Base(d)' = Append(Base(d), e)
        BY <1>1, <1>4, PostedIsOwn
      <4>2. Append(b, e) \in Seq(Element)
        OBVIOUS
      <4> QED
        BY <3>1, <4>1, <4>2, Zenon
    <3>4. Matching(n, y) = Matching(b, y)
      <4>1. Matching(Append(b, e), y) = Matching(b, y)
        BY <2>5, <3>2, AlikeAppended
      <4> QED
        BY <3>3, <4>1, Zenon
    <3>5. Matching(Outcome(n, q, f), y) = Matching(Outcome(b, q, f), y)
      BY <3>4, AlikeOutcome
    <3>6. PICK o \in Seq(Element) : o = Outcome(b, q, f)
      <4>1. Outcome(b, q, f) \in Seq(Element)
        BY OutcomeType
      <4> QED
        BY <4>1, Zenon
    <3>7. Matching(o, g) = Matching(j, g) /\ y \subseteq g
      BY <2>1, <2>5, <2>13, <3>1, <3>2, <3>6 DEF Settled
    <3>8. Matching(o, y) = Matching(j, y)
      BY <3>7, AlikeInFewer
    <3>9. NoneOf(toHub'[d], {"sub", "request"})
      BY <2>1, <2>9, <2>13 DEF Settled
    <3>10. Matching(Outcome(Base(d)', toClient'[d], filter'[d]), Followed(d)') = Matching(journal', Followed(d)')
      BY <1>2, <2>1, <3>1, <3>2, <3>3, <3>5, <3>6, <3>8
    <3> QED
      BY <3>9, <3>10 DEF Settled
  <2> QED
    BY <2>8, <2>11, <2>12, <2>13
<1> QED
  BY <1>3, <1>4

LEMMA ObserverStep_Core ==
    ASSUME ConnectionInv, CoreStop \/ CoreStart \/ (\E e \in Element : PostCore(e)),
           NEW d \in Client, ObserverInv(d)
    PROVE  ObserverInv(d)'
<1>1. TypeOK
  BY DEF ConnectionInv
<1>2. CASE CoreStop
  <2>1. ~ coreUp' /\ toHub'[d] = <<>>
    BY <1>2 DEF CoreStop
  <2> QED
    BY <2>1 DEF ObserverInv, OwnEvents
<1>3. CASE CoreStart
  <2>1. duplex'[d] = "none" /\ toHub' = toHub /\ own' = own
    BY <1>3 DEF CoreStart, linkVars, markVars
  <2> QED
    BY <2>1 DEF ObserverInv
<1>4. ASSUME NEW e \in Element, PostCore(e) PROVE ObserverInv(d)'
  <2>1. PICK m \in Message : m = [kind |-> "event", element |-> e]
    <3>1. [kind |-> "event", element |-> e] \in Message
      BY DEF Message, Events
    <3> QED
      BY <3>1, Zenon
  <2>2. toClient'[d] = IF d \in Subscribed(e) THEN Append(toClient[d], m) ELSE toClient[d]
    BY <1>1, <1>4, <2>1, SentEffect DEF PostCore
  <2>3. /\ UNCHANGED <<coreUp, filter, list, arrived, late, own, duplex, subs, toHub>>
        /\ coreUp /\ journal' = Append(journal, e)
    BY <1>4 DEF PostCore, linkVars, markVars
  <2> QED
    BY <2>1, <2>2, <2>3, ObserverStep_Element
<1> QED
  BY <1>2, <1>3, <1>4

LEMMA SharedInit ==
    Init => SharedInv
<1> SUFFICES ASSUME Init PROVE SharedInv
  OBVIOUS
<1>1. ASSUME NEW c \in Viewer PROVE ObserverInv(c)
  <2>1. c \in Client
    BY ClientAssumption
  <2>2. toHub[c] = <<>> /\ duplex[c] = "none"
    BY <2>1 DEF Init
  <2> QED
    BY <2>2 DEF ObserverInv, OwnEvents
<1> QED
  BY <1>1, ConnectionInit DEF SharedInv

LEMMA SharedNext ==
    ASSUME SharedInv, [Next]_vars
    PROVE  SharedInv'
<1>1. ConnectionInv /\ ConnectionInv'
  BY ConnectionNext DEF SharedInv
<1>2. ASSUME NEW d \in Viewer PROVE ObserverInv(d)'
  <2>1. d \in Client /\ ObserverInv(d)
    BY ClientAssumption DEF SharedInv
  <2>2. CASE CoreStop \/ CoreStart \/ \E e \in Element : PostCore(e)
    BY <1>1, <2>1, <2>2, ObserverStep_Core
  <2>3. ASSUME NEW c \in Client, Connect(c) PROVE ObserverInv(d)'
    BY <1>1, <2>1, <2>3, ObserverStep_Connect
  <2>4. ASSUME NEW c \in Client, Disconnect(c) PROVE ObserverInv(d)'
    BY <1>1, <2>1, <2>4, ObserverStep_Disconnect
  <2>5. ASSUME NEW c \in Client, Ready(c) PROVE ObserverInv(d)'
    BY <1>1, <2>1, <2>5, ObserverStep_Ready
  <2>6. ASSUME NEW c \in Client, Receive(c) PROVE ObserverInv(d)'
    BY <1>1, <2>1, <2>6, ObserverStep_Receive
  <2>7. ASSUME NEW c \in Client, Replace(c) PROVE ObserverInv(d)'
    BY <1>1, <2>1, <2>7, ObserverStep_Replace
  <2>8. ASSUME NEW c \in Client, Handle(c) PROVE ObserverInv(d)'
    <3>1. CASE d = c
      BY <1>1, <2>1, <2>8, <3>1, ObserverStep_OwnCall
    <3>2. CASE d # c
      BY <1>1, <2>1, <2>8, <3>2, ObserverStep_OtherCall
    <3> QED
      BY <3>1, <3>2
  <2>9. ASSUME NEW c \in Client, NEW e \in Element, Post(c, e) PROVE ObserverInv(d)'
    BY <1>1, <2>1, <2>9, ObserverStep_Post
  <2>10. ASSUME NEW c \in Client, NEW f \in Filters, SetFilter(c, f) PROVE ObserverInv(d)'
    BY <1>1, <2>1, <2>10, ObserverStep_SetFilter
  <2>11. CASE UNCHANGED vars
    <3>1. UNCHANGED <<coreUp, journal, filter, list, toHub, toClient, arrived, subs, duplex, late, own>>
      BY <2>11 DEF vars, linkVars, markVars
    <3>2. Settled(d) => Settled(d)'
      BY <2>1, <3>1, SettledUnchanged
    <3> QED
      BY <2>1, <3>1, <3>2, ObserverUnchanged
  <2> QED
    BY <2>2, <2>3, <2>4, <2>5, <2>6, <2>7, <2>8, <2>9, <2>10, <2>11 DEF Next
<1> QED
  BY <1>1, <1>2 DEF SharedInv

\* Without a request of its own under way, nothing is left to ask for.
LEMMA AnsweredIsSettled ==
    ASSUME SharedInv, NEW c \in Viewer, coreUp, duplex[c] = "ready", submitted[c] = 0
    PROVE  Settled(c) /\ Matching(toClient[c], Replies) = <<>>
<1>1. c \in Client /\ TypeOK /\ DuplexInv(c) /\ ObserverInv(c)
  BY ClientAssumption DEF SharedInv, ConnectionInv
<1>2. PICK h \in Seq(Message), q \in Seq(Message) : h = toHub[c] /\ q = toClient[c]
  <2>1. toHub[c] \in Seq(Message) /\ toClient[c] \in Seq(Message)
    BY <1>1 DEF TypeOK
  <2> QED
    BY <2>1
<1>3. Asked(c) \/ Settled(c)
  BY <1>1 DEF ObserverInv
<1>4. ASSUME Matching(h, Requests) = <<>> PROVE Settled(c)
  <2>1. \A i \in DOMAIN h : h[i] \notin Requests
    BY <1>4, MatchingEntries
  <2>2. filter[c] \in SUBSET Element
    BY <1>1 DEF TypeOK
  <2>3. [kind |-> "request", filter |-> filter[c]] \in Requests
    BY <2>2 DEF Requests
  <2>4. ~ Asked(c)
    BY <1>2, <2>1, <2>3 DEF Asked, LastOf
  <2> QED
    BY <1>3, <2>4
<1>5. Matching(h, Requests) = <<>> /\ Matching(q, Replies) = <<>>
  <2>1. PICK a \in Seq(Message), b \in Seq(Message) : a = Matching(h, Requests) /\ b = Matching(q, Replies)
    <3>1. Matching(h, Requests) \in Seq(Message) /\ Matching(q, Replies) \in Seq(Message)
      BY MatchingType
    <3> QED
      BY <3>1, Zenon
  <2>2. Len(a) + Len(b) = 0
    BY <1>1, <1>2, <2>1 DEF DuplexInv, Count
  <2> QED
    BY <2>1, <2>2
<1> QED
  BY <1>2, <1>4, <1>5

LEMMA ObserversTrack ==
    SharedInv => ViewTracksJournal
<1> SUFFICES ASSUME SharedInv, NEW c \in Viewer, Attached(c)
             PROVE  Matching(list[c], Followed(c)) \o Matching(Elements(toClient[c]), Followed(c))
                        = Matching(journal, Followed(c))
  BY DEF ViewTracksJournal
<1>1. TypeOK /\ c \in Client
  BY ClientAssumption DEF SharedInv, ConnectionInv
<1>2. coreUp /\ duplex[c] = "ready" /\ submitted[c] = 0 /\ arrived[c] = <<>>
  <2>1. submitted[c] \in Nat
    BY <1>1 DEF TypeOK
  <2> QED
    BY <2>1 DEF Attached, Open
<1>3. Settled(c) /\ Matching(toClient[c], Replies) = <<>>
  BY <1>2, AnsweredIsSettled
<1>4. PICK q \in Seq(Message), l \in Seq(Element) : q = toClient[c] /\ l = list[c]
  <2>1. toClient[c] \in Seq(Message) /\ list[c] \in Seq(Element)
    BY <1>1 DEF TypeOK
  <2> QED
    BY <2>1
<1>5. Base(c) = l
  BY <1>2, <1>4 DEF Base
<1>6. PICK f, g : f = filter[c] /\ g = Followed(c) /\ g \subseteq f
  BY DEF Followed
<1>7. Matching(Outcome(l, q, f), g) = Matching(l, g) \o Matching(Elements(q), g)
  <2>1. Matching(q, Replies) = <<>>
    BY <1>3, <1>4
  <2> QED
    BY <1>6, <2>1, OutcomeOfEvents
<1>8. Matching(Outcome(l, q, f), g) = Matching(journal, g)
  BY <1>3, <1>4, <1>5, <1>6 DEF Settled
<1> QED
  BY <1>4, <1>6, <1>7, <1>8

\* An observer whose list has been replaced as it asked for shows, with the events on
\* their way to it, exactly what the journal holds of the elements it follows, in the
\* journal's order.  No interleaving of announced subscriptions, snapshots that replace
\* the list turns of the event loop after they arrive, events, changes of filters, ends
\* of the core and posts of the observer's own process leaves a gap or shows an element
\* of the journal twice.
THEOREM ViewsTrackTheJournal ==
    Spec => []ViewTracksJournal
<1>1. Init => SharedInv
  BY SharedInit
<1>2. SharedInv /\ [Next]_vars => SharedInv'
  BY SharedNext
<1>3. SharedInv => ViewTracksJournal
  BY ObserversTrack
<1> QED
  BY <1>1, <1>2, <1>3, PTL DEF Spec

-----------------------------------------------------------------------------
(* SharedList *)

LEMMA SharedMatching ==
    ASSUME NEW l, NEW f
    PROVE  Shared!Matching(l, f) = Matching(l, f)
BY DEF Shared!Matching, Matching

\* What comes before the rest of a list is one of its beginnings.
LEMMA PrefixOfConcat ==
    ASSUME NEW l \in Seq(Element), NEW x \in Seq(Element)
    PROVE  l \in Shared!Prefixes(l \o x)
<1>1. PICK t \in Seq(Element) : t = l \o x
  <2>1. l \o x \in Seq(Element)
    OBVIOUS
  <2> QED
    BY <2>1, Zenon
<1>2. Len(t) = Len(l) + Len(x) /\ Len(l) \in Nat /\ Len(x) \in Nat
  BY <1>1
<1>3. Len(l) \in 0 .. Len(t)
  BY <1>2
<1>4. \A i \in 1 .. Len(l) : t[i] = l[i]
  BY <1>1
<1>5. SubSeq(t, 1, Len(l)) = l
  <2>1. PICK p : p = SubSeq(t, 1, Len(l))
    OBVIOUS
  <2>2. p \in Seq(Element) /\ Len(p) = Len(l)
    BY <1>2, <2>1
  <2>3. \A i \in 1 .. Len(l) : p[i] = l[i]
    BY <1>2, <1>4, <2>1
  <2> QED
    BY <2>1, <2>2, <2>3
<1> QED
  BY <1>1, <1>3, <1>5 DEF Shared!Prefixes

\* A step leaves what SharedList knows of an observer alone.
Kept(d) == Followed(d)' = Followed(d) /\ list'[d] = list[d] /\ Attached(d)' = Attached(d)

LEMMA KeptUnchanged ==
    ASSUME NEW d, coreUp' = coreUp, filter'[d] = filter[d], late'[d] = late[d], own'[d] = own[d],
           list'[d] = list[d], duplex'[d] = duplex[d], submitted'[d] = submitted[d], arrived'[d] = arrived[d]
    PROVE  Kept(d)
<1>1. Followed(d)' = Followed(d)
  BY DEF Followed
<1>2. Attached(d)' = Attached(d)
  BY DEF Attached, Open
<1> QED
  BY <1>1, <1>2 DEF Kept

LEMMA RefinesInit ==
    Init => Shared!Init
<1> SUFFICES ASSUME Init PROVE Shared!Init
  OBVIOUS
<1>1. TypeOK
  BY TypeInit
<1>2. \A c \in Viewer : c \in Client
  BY ClientAssumption
<1>3. [c \in Viewer |-> Followed(c)] \in [Viewer -> SUBSET Element]
  BY <1>1, <1>2 DEF TypeOK, Followed
<1>4. [c \in Viewer |-> Matching(list[c], Followed(c))] = [c \in Viewer |-> <<>>]
  <2>1. \A c \in Viewer : list[c] = <<>>
    BY <1>2 DEF Init
  <2>2. \A f : Matching(<<>>, f) = <<>>
    BY MatchingEmpty
  <2> QED
    BY <2>1, <2>2
<1>5. [c \in Viewer |-> Attached(c)] = [c \in Viewer |-> FALSE]
  BY <1>2 DEF Init, Attached
<1>6. journal = <<>>
  BY DEF Init
<1> QED
  BY <1>3, <1>4, <1>5, <1>6 DEF Shared!Init

\* A step that changes nothing SharedList knows of.
LEMMA RefinesStutter ==
    ASSUME journal' = journal, \A d \in Viewer : Kept(d)
    PROVE  UNCHANGED Shared!vars
BY DEF Shared!vars, Kept

\* A step that changes nothing but the journal.
LEMMA RefinesAdd ==
    ASSUME NEW e \in Element, journal' = Append(journal, e), \A d \in Viewer : Kept(d)
    PROVE  Shared!Next
<1>1. Shared!Add
  BY DEF Shared!Add, Kept
<1> QED
  BY <1>1 DEF Shared!Next

\* A step after which an observer is not attached.
LEMMA RefinesDetach ==
    ASSUME TypeOK', journal' = journal, NEW c \in Viewer, ~ Attached(c)',
           \A d \in Viewer : d # c => Kept(d)
    PROVE  Shared!Next
<1> DEFINE want == [d \in Viewer |-> Followed(d)]
           view == [d \in Viewer |-> Matching(list[d], Followed(d))]
           attached == [d \in Viewer |-> Attached(d)]
<1>1. c \in Client
  BY ClientAssumption
<1>2. want'[c] = Followed(c)' /\ view'[c] = Matching(list'[c], Followed(c)')
  OBVIOUS
<1>3. want'[c] \in SUBSET Element
  BY <1>1, <1>2 DEF TypeOK, Followed
<1>4. view'[c] \in Seq(Element)
  <2>1. PICK l \in Seq(Element) : l = list'[c]
    BY <1>1 DEF TypeOK
  <2>2. \A f : Matching(l, f) \in Seq(Element)
    BY MatchingType
  <2> QED
    BY <1>2, <2>1, <2>2
<1>5. want' = [want EXCEPT ![c] = want'[c]]
  BY DEF Kept
<1>6. view' = [view EXCEPT ![c] = view'[c]]
  BY DEF Kept
<1>7. attached' = [attached EXCEPT ![c] = FALSE]
  <2>1. Attached(c)' = FALSE
    BY DEF Attached
  <2> QED
    BY <2>1 DEF Kept
<1>8. Shared!Detach(c)
  BY <1>3, <1>4, <1>5, <1>6, <1>7 DEF Shared!Detach
<1> QED
  BY <1>8 DEF Shared!Next

LEMMA RefinesCore ==
    ASSUME SharedInv, CoreStop \/ CoreStart \/ (\E e \in Element : PostCore(e))
    PROVE  Shared!Next \/ UNCHANGED Shared!vars
<1>1. CASE CoreStop
  <2>1. journal' = <<>> /\ UNCHANGED <<filter, list, late, own>> /\ ~ coreUp'
    BY <1>1 DEF CoreStop, markVars
  <2>2. [c \in Viewer |-> Attached(c)]' = [c \in Viewer |-> FALSE]
    BY <2>1 DEF Attached
  <2>3. Shared!Restart
    BY <2>1, <2>2 DEF Shared!Restart, Followed
  <2> QED
    BY <2>3 DEF Shared!Next
<1>2. CASE CoreStart
  <2>1. /\ UNCHANGED <<journal, filter, list, late, own, duplex>>
        /\ ~ coreUp /\ \A c \in Client : duplex[c] = "none"
    BY <1>2 DEF CoreStart, linkVars, markVars
  <2>2. \A c \in Viewer : Attached(c)' = Attached(c)
    BY <2>1, ClientAssumption DEF Attached
  <2>3. \A c \in Viewer : Kept(c)
    BY <2>1, <2>2 DEF Kept, Followed
  <2> QED
    BY <2>1, <2>3, RefinesStutter
<1>3. ASSUME NEW e \in Element, PostCore(e) PROVE Shared!Next
  <2>1. journal' = Append(journal, e) /\ UNCHANGED <<coreUp, filter, list, late, own, arrived, duplex, submitted>>
    BY <1>3 DEF PostCore, linkVars, markVars
  <2>2. \A c \in Viewer : Kept(c)
    BY <2>1, KeptUnchanged
  <2> QED
    BY <2>1, <2>2, RefinesAdd
<1> QED
  BY <1>1, <1>2, <1>3

LEMMA RefinesLink ==
    ASSUME SharedInv, NEW c \in Client, Connect(c) \/ Disconnect(c)
    PROVE  UNCHANGED Shared!vars
<1>1. TypeOK
  BY DEF SharedInv, ConnectionInv
<1>2. UNCHANGED <<coreUp, journal, filter, list, late, own, arrived>>
  BY DEF Connect, Disconnect, markVars
<1>3. duplex \in [Client -> {"none", "opening", "ready"}] /\ submitted \in [Client -> Nat]
  BY <1>1 DEF TypeOK
<1>4. ASSUME NEW d \in Viewer, d # c PROVE Kept(d)
  <2>1. d \in Client
    BY ClientAssumption
  <2>2. duplex'[d] = duplex[d] /\ submitted'[d] = submitted[d]
    BY <1>3, <1>4, <2>1 DEF Connect, Disconnect
  <2> QED
    BY <1>2, <2>2, KeptUnchanged
<1>5. ASSUME c \in Viewer PROVE Kept(c)
  <2>1. ~ Attached(c) /\ ~ Attached(c)'
    <3>1. CASE Connect(c)
      <4>1. duplex[c] = "none" /\ duplex'[c] = "opening"
        BY <1>3, <3>1 DEF Connect
      <4> QED
        BY <4>1 DEF Attached
    <3>2. CASE Disconnect(c)
      BY <3>2 DEF Disconnect, Attached
    <3> QED
      BY <3>1, <3>2
  <2> QED
    BY <1>2, <2>1 DEF Kept, Followed, Attached
<1>6. \A d \in Viewer : Kept(d)
  BY <1>4, <1>5
<1> QED
  BY <1>2, <1>6, RefinesStutter

LEMMA RefinesReady ==
    ASSUME SharedInv, TypeOK', NEW c \in Client, Ready(c)
    PROVE  Shared!Next \/ UNCHANGED Shared!vars
<1>1. TypeOK
  BY DEF SharedInv, ConnectionInv
<1>2. UNCHANGED <<coreUp, journal, filter, list, arrived>>
  BY DEF Ready
<1>3. duplex \in [Client -> {"none", "opening", "ready"}] /\ submitted \in [Client -> Nat]
  BY <1>1 DEF TypeOK
<1>4. ASSUME NEW d \in Viewer, d # c PROVE Kept(d)
  <2>1. d \in Client
    BY ClientAssumption
  <2>2. duplex'[d] = duplex[d] /\ submitted'[d] = submitted[d]
    BY <1>3, <1>4, <2>1 DEF Ready
  <2>3. late'[d] = late[d] /\ own'[d] = own[d]
    BY <1>1, <1>4, <2>1, MarksOfOthers DEF Ready
  <2> QED
    BY <1>2, <2>2, <2>3, KeptUnchanged
<1>5. CASE c \in Viewer
  <2>1. submitted'[c] = submitted[c] + 1 /\ submitted[c] \in Nat
    BY <1>3, <1>5 DEF Ready
  <2>2. ~ Attached(c)'
    BY <2>1 DEF Attached, Open
  <2> QED
    BY <1>2, <1>4, <1>5, <2>2, RefinesDetach
<1>6. CASE c \notin Viewer
  <2>1. \A d \in Viewer : Kept(d)
    BY <1>4, <1>6
  <2> QED
    BY <1>2, <2>1, RefinesStutter
<1> QED
  BY <1>5, <1>6

LEMMA RefinesSetFilter ==
    ASSUME SharedInv, TypeOK', NEW c \in Client, NEW f \in Filters, SetFilter(c, f)
    PROVE  Shared!Next
<1>1. TypeOK
  BY DEF SharedInv, ConnectionInv
<1>2. UNCHANGED <<coreUp, journal, list, arrived, duplex>> /\ c \in Viewer
  BY DEF SetFilter
<1>3. filter \in [Client -> SUBSET Element] /\ submitted \in [Client -> Nat]
  BY <1>1 DEF TypeOK
<1>4. /\ filter' = [filter EXCEPT ![c] = f]
      /\ submitted' = [submitted EXCEPT ![c] = IF duplex[c] = "ready" THEN @ + 1 ELSE @]
  BY DEF SetFilter
<1>5. ASSUME NEW d \in Viewer, d # c PROVE Kept(d)
  <2>1. d \in Client
    BY ClientAssumption
  <2>2. filter'[d] = filter[d] /\ submitted'[d] = submitted[d]
    BY <1>3, <1>4, <1>5, <2>1
  <2>3. late'[d] = late[d] /\ own'[d] = own[d]
    BY <1>1, <1>5, <2>1, MarksOfOthers DEF SetFilter
  <2> QED
    BY <1>2, <2>2, <2>3, KeptUnchanged
<1>6. ~ Attached(c)'
  <2>1. duplex[c] = "ready" => submitted'[c] = submitted[c] + 1 /\ submitted[c] \in Nat
    BY <1>3, <1>4
  <2> QED
    BY <1>2, <2>1 DEF Attached, Open
<1> QED
  BY <1>2, <1>5, <1>6, RefinesDetach

LEMMA RefinesHandle ==
    ASSUME SharedInv, NEW c \in Client, Handle(c)
    PROVE  Shared!Next \/ UNCHANGED Shared!vars
<1>1. TypeOK
  BY DEF SharedInv, ConnectionInv
<1>2. UNCHANGED <<coreUp, filter, list, late, own, arrived, duplex, submitted>>
  BY DEF Handle, markVars
<1>3. \A d \in Viewer : Kept(d)
  BY <1>2, KeptUnchanged
<1>4. PICK m : m = Head(toHub[c])
  OBVIOUS
<1>5. m \in Message
  <2>1. toHub[c] \in Seq(Message) /\ toHub[c] # <<>>
    BY <1>1 DEF TypeOK, Handle
  <2> QED
    BY <1>4, <2>1
<1>6. HubOpen(c, m) \/ HubRequestSubscriptions(c, m) \/ HubSubscribe(c, m)
         \/ HubRequest(c, m) \/ HubEvent(c, m)
  BY <1>4 DEF Handle
<1>7. CASE HubEvent(c, m)
  <2>1. m \in Events
    BY <1>5, <1>7, Kinds DEF HubEvent
  <2>2. m.element \in Element
    BY <2>1 DEF Events
  <2>3. journal' = Append(journal, m.element)
    BY <1>7 DEF HubEvent
  <2> QED
    BY <1>3, <2>2, <2>3, RefinesAdd
<1>8. CASE ~ HubEvent(c, m)
  <2>1. journal' = journal
    BY <1>6, <1>8 DEF HubOpen, HubRequestSubscriptions, HubSubscribe, HubRequest
  <2> QED
    BY <1>3, <2>1, RefinesStutter
<1> QED
  BY <1>7, <1>8

\* An attached observer shows a beginning of what the journal holds of the elements it
\* follows.
ShowsPrefix ==
    \A c \in Viewer :
        Attached(c) => Matching(list[c], Followed(c)) \in Shared!Prefixes(Matching(journal, Followed(c)))

LEMMA AttachedShowsPrefix ==
    SharedInv => ShowsPrefix
<1> SUFFICES ASSUME SharedInv, NEW c \in Viewer, Attached(c)
             PROVE  Matching(list[c], Followed(c)) \in Shared!Prefixes(Matching(journal, Followed(c)))
  BY DEF ShowsPrefix
<1>1. c \in Client /\ TypeOK
  BY ClientAssumption DEF SharedInv, ConnectionInv
<1>2. PICK g : g = Followed(c)
  OBVIOUS
<1>3. PICK l \in Seq(Element), e \in Seq(Element) : l = list[c] /\ e = Elements(toClient[c])
  <2>1. toClient[c] \in Seq(Message) /\ list[c] \in Seq(Element)
    BY <1>1 DEF TypeOK
  <2>2. Elements(toClient[c]) \in Seq(Element)
    BY <2>1, ElementsType
  <2> QED
    BY <2>1, <2>2, Zenon
<1>4. Matching(l, g) \in Seq(Element) /\ Matching(e, g) \in Seq(Element)
  BY MatchingType
<1>5. Matching(l, g) \o Matching(e, g) = Matching(journal, g)
  BY <1>2, <1>3, ObserversTrack DEF ViewTracksJournal
<1>6. Matching(l, g) \in Shared!Prefixes(Matching(l, g) \o Matching(e, g))
  BY <1>4, PrefixOfConcat
<1> QED
  BY <1>2, <1>3, <1>5, <1>6

\* What an observer receives changes its list, but not whether a request of it is open.
LEMMA ReceivedOpen ==
    ASSUME TypeOK, NEW c \in Client, Receive(c)
    PROVE  Open(c)' <=> Open(c)
<1> PICK m : m = Head(toClient[c])
  OBVIOUS
<1>1. PICK a \in Seq(Seq(Element)), n \in Nat : a = arrived[c] /\ n = submitted[c] /\ m = Head(toClient[c])
  BY DEF TypeOK
<1>2. /\ arrived \in [Client -> Seq(Seq(Element))] /\ submitted \in [Client -> Nat]
  BY DEF TypeOK
<1>3. CASE m.kind = "reply"
  <2>1. PICK l : l = m.list
    OBVIOUS
  <2>2. submitted'[c] = IF n > 0 THEN n - 1 ELSE 0
    BY <1>1, <1>2, <1>3 DEF Receive
  <2>3. arrived'[c] = IF n > 0 THEN Append(a, l) ELSE a
    BY <1>1, <1>2, <1>3, <2>1 DEF Receive
  <2>4. CASE n > 0
    <3>1. Append(a, l) # <<>>
      <4>1. Len(Append(a, l)) = Len(a) + 1 /\ Len(a) \in Nat
        OBVIOUS
      <4>2. Len(<<>>) = 0
        OBVIOUS
      <4> QED
        BY <4>1, <4>2
    <3> QED
      BY <1>1, <2>3, <2>4, <3>1 DEF Open
  <2>5. CASE ~ (n > 0)
    BY <1>1, <2>2, <2>3, <2>5 DEF Open
  <2> QED
    BY <2>4, <2>5
<1>4. CASE m.kind # "reply"
  <2>1. submitted' = submitted /\ arrived' = arrived
    BY <1>1, <1>4 DEF Receive
  <2> QED
    BY <2>1 DEF Open
<1> QED
  BY <1>3, <1>4

\* An attached observer receives nothing, or the next element it follows.
LEMMA ReceivedByAttached ==
    ASSUME SharedInv, NEW c \in Viewer, Receive(c), Attached(c)
    PROVE  /\ Followed(c)' = Followed(c) /\ Attached(c)'
           /\ \/ list'[c] = list[c]
              \/ \E e \in Element : list'[c] = Append(list[c], e)
<1>1. TypeOK /\ c \in Client
  BY ClientAssumption DEF SharedInv, ConnectionInv
<1>2. UNCHANGED <<coreUp, journal, filter, duplex, own>>
  BY DEF Receive
<1>3. ~ Open(c) /\ coreUp /\ duplex[c] = "ready"
  BY DEF Attached
<1>4. submitted[c] = 0
  <2>1. submitted[c] \in Nat
    BY <1>1 DEF TypeOK
  <2> QED
    BY <1>3, <2>1 DEF Open
<1>5. PICK q \in Seq(Message) : q = toClient[c]
  BY <1>1 DEF TypeOK
<1>6. PICK m : m = Head(q)
  OBVIOUS
<1>7. q # <<>> /\ m \in Message
  BY <1>5, <1>6 DEF Receive
<1>8. m.kind # "reply"
  <2>1. Matching(q, Replies) = <<>>
    BY <1>3, <1>4, <1>5, AnsweredIsSettled
  <2>2. \A i \in DOMAIN q : q[i] \notin Replies
    BY <2>1, MatchingEntries
  <2>3. m \notin Replies
    BY <1>6, <1>7, <2>2
  <2> QED
    BY <1>7, <2>3, Kinds
<1>9. Attached(c)'
  BY <1>1, <1>2, <1>3, ReceivedOpen DEF Attached
<1>10. CASE m.kind = "event"
  <2>1. PICK e \in Element : e = m.element
    <3>1. m \in Events
      BY <1>7, <1>10, Kinds
    <3>2. m.element \in Element
      BY <3>1 DEF Events
    <3> QED
      BY <3>2, Zenon
  <2>2. list' = [list EXCEPT ![c] = Observed(c, e)] /\ MarkLate(c, e)
    BY <1>5, <1>6, <1>10, <2>1 DEF Receive
  <2>3. list'[c] = list[c] \/ list'[c] = Append(list[c], e)
    BY <1>1, <2>2 DEF TypeOK, Observed
  <2>4. late'[c] = late[c]
    BY <1>1, <1>3, <2>2 DEF TypeOK, MarkLate
  <2> QED
    BY <1>2, <1>9, <2>3, <2>4 DEF Followed
<1>11. CASE m.kind # "event"
  <2>1. list' = list /\ late' = late
    BY <1>5, <1>6, <1>8, <1>11 DEF Receive
  <2> QED
    BY <1>2, <1>9, <2>1 DEF Followed
<1> QED
  BY <1>10, <1>11

LEMMA RefinesReceive ==
    ASSUME SharedInv, TypeOK', ShowsPrefix', NEW c \in Client, Receive(c)
    PROVE  Shared!Next \/ UNCHANGED Shared!vars
<1>1. TypeOK
  BY DEF SharedInv, ConnectionInv
<1>2. UNCHANGED <<coreUp, journal, filter, duplex>>
  BY DEF Receive
<1>3. \A d \in Viewer : d # c => Kept(d)
  BY <1>1, <1>2, ReceivedByOne, KeptUnchanged, ClientAssumption
<1>4. CASE c \notin Viewer
  <2>1. \A d \in Viewer : Kept(d)
    BY <1>3, <1>4
  <2> QED
    BY <1>2, <2>1, RefinesStutter
<1>5. CASE c \in Viewer /\ ~ Attached(c)
  <2>1. ~ Attached(c)'
    BY <1>1, <1>2, <1>5, ReceivedOpen DEF Attached
  <2> QED
    BY <1>2, <1>3, <1>5, <2>1, RefinesDetach
<1>6. CASE c \in Viewer /\ Attached(c)
  <2> DEFINE want == [d \in Viewer |-> Followed(d)]
             view == [d \in Viewer |-> Matching(list[d], Followed(d))]
             attached == [d \in Viewer |-> Attached(d)]
  <2>1. PICK g : g = Followed(c)
    OBVIOUS
  <2>2. Followed(c)' = g /\ Attached(c)' /\ (list'[c] = list[c] \/ \E e \in Element : list'[c] = Append(list[c], e))
    BY <1>6, <2>1, ReceivedByAttached
  <2>3. Attached(c)' = Attached(c)
    BY <1>6, <2>2 DEF Attached
  <2>4. PICK l \in Seq(Element) : l = list[c]
    BY <1>1 DEF TypeOK
  <2>5. want' = want /\ attached' = attached
    BY <1>3, <2>1, <2>2, <2>3 DEF Kept
  <2>6. view' = [view EXCEPT ![c] = Matching(list'[c], g)]
    BY <1>3, <1>6, <2>2 DEF Kept
  <2>7. CASE Matching(list'[c], g) = Matching(l, g)
    <3>1. view' = view
      BY <2>1, <2>4, <2>6, <2>7
    <3> QED
      BY <1>2, <2>5, <3>1 DEF Shared!vars
  <2>8. CASE Matching(list'[c], g) # Matching(l, g)
    <3>1. PICK e \in Element : list'[c] = Append(l, e)
      BY <2>2, <2>4, <2>8
    <3>2. Matching(Append(l, e), g) = IF e \in g THEN Append(Matching(l, g), e) ELSE Matching(l, g)
      BY MatchingAppend
    <3>3. PICK v \in Seq(Element) : v = Matching(l, g)
      <4>1. Matching(l, g) \in Seq(Element)
        BY MatchingType
      <4> QED
        BY <4>1, Zenon
    <3>4. Matching(list'[c], g) = Append(v, e)
      BY <2>8, <3>1, <3>2, <3>3
    <3>5. PICK n : n = Append(v, e)
      OBVIOUS
    <3>6. Len(n) = Len(v) + 1
      BY <3>5
    <3>7. n \in Shared!Prefixes(Shared!Matching(journal, g))
      BY <1>2, <1>6, <2>2, <3>4, <3>5, SharedMatching DEF ShowsPrefix
    <3>8. view[c] = v /\ want[c] = g /\ attached[c]
      BY <1>6, <2>1, <2>4, <3>3
    <3>9. view' = [view EXCEPT ![c] = n]
      BY <2>6, <3>4, <3>5
    <3>10. Shared!Advance(c)
      BY <1>2, <2>5, <3>6, <3>7, <3>8, <3>9 DEF Shared!Advance
    <3> QED
      BY <1>6, <3>10 DEF Shared!Next
  <2> QED
    BY <2>7, <2>8
<1> QED
  BY <1>4, <1>5, <1>6

LEMMA RefinesReplace ==
    ASSUME SharedInv, TypeOK', ShowsPrefix', NEW c \in Client, Replace(c)
    PROVE  Shared!Next \/ UNCHANGED Shared!vars
<1>1. TypeOK
  BY DEF SharedInv, ConnectionInv
<1>2. UNCHANGED <<coreUp, journal, filter, late, own, duplex, submitted>>
  BY DEF Replace, linkVars, markVars
<1>3. ASSUME NEW d \in Viewer, d # c PROVE Kept(d)
  <2>1. d \in Client
    BY ClientAssumption
  <2>2. list'[d] = list[d] /\ arrived'[d] = arrived[d]
    BY <1>1, <1>3, <2>1 DEF Replace, TypeOK
  <2> QED
    BY <1>2, <2>2, KeptUnchanged
<1>4. CASE c \notin Viewer
  <2>1. \A d \in Viewer : Kept(d)
    BY <1>3, <1>4
  <2> QED
    BY <1>2, <2>1, RefinesStutter
<1>5. CASE c \in Viewer /\ ~ Attached(c)'
  BY <1>2, <1>3, <1>5, RefinesDetach
<1>6. CASE c \in Viewer /\ Attached(c)'
  <2> DEFINE want == [d \in Viewer |-> Followed(d)]
             view == [d \in Viewer |-> Matching(list[d], Followed(d))]
             attached == [d \in Viewer |-> Attached(d)]
  <2>1. PICK g : g = Followed(c)
    OBVIOUS
  <2>2. Followed(c)' = g
    BY <1>2, <2>1 DEF Followed
  <2>3. ~ Attached(c)
    BY DEF Replace, Attached, Open
  <2>4. Attached(c)' = TRUE
    BY <1>6 DEF Attached
  <2>5. want' = want /\ attached' = [attached EXCEPT ![c] = TRUE]
    BY <1>3, <1>6, <2>1, <2>2, <2>4 DEF Kept
  <2>6. PICK n : n = Matching(list'[c], g)
    OBVIOUS
  <2>7. view' = [view EXCEPT ![c] = n]
    BY <1>3, <1>6, <2>2, <2>6 DEF Kept
  <2>8. n \in Shared!Prefixes(Shared!Matching(journal, g))
    BY <1>2, <1>6, <2>2, <2>6, SharedMatching DEF ShowsPrefix
  <2>9. want[c] = g /\ ~ attached[c]
    BY <1>6, <2>1, <2>3
  <2>10. Shared!Attach(c)
    BY <1>2, <2>5, <2>7, <2>8, <2>9 DEF Shared!Attach
  <2> QED
    BY <1>6, <2>10 DEF Shared!Next
<1> QED
  BY <1>4, <1>5, <1>6

LEMMA RefinesPost ==
    ASSUME SharedInv, TypeOK', NEW c \in Client, NEW e \in Element, Post(c, e)
    PROVE  Shared!Next \/ UNCHANGED Shared!vars
<1>1. TypeOK
  BY DEF SharedInv, ConnectionInv
<1>2. UNCHANGED <<coreUp, journal, filter, arrived, duplex, submitted>>
  BY DEF Post, linkVars
<1>3. ASSUME NEW d \in Viewer, d # c PROVE Kept(d)
  <2>1. d \in Client
    BY ClientAssumption
  <2>2. list'[d] = list[d] /\ late'[d] = late[d] /\ own'[d] = own[d]
    BY <1>1, <1>3, <2>1 DEF Post, MarkLate, TypeOK
  <2> QED
    BY <1>2, <2>2, KeptUnchanged
<1>4. CASE c \notin Viewer
  <2>1. \A d \in Viewer : Kept(d)
    BY <1>3, <1>4
  <2> QED
    BY <1>2, <2>1, RefinesStutter
<1>5. Attached(c)' = Attached(c)
  BY <1>2 DEF Attached, Open
<1>6. CASE c \in Viewer /\ ~ Attached(c)
  BY <1>2, <1>3, <1>5, <1>6, RefinesDetach
<1>7. CASE c \in Viewer /\ Attached(c)
  <2> DEFINE want == [d \in Viewer |-> Followed(d)]
             view == [d \in Viewer |-> Matching(list[d], Followed(d))]
             attached == [d \in Viewer |-> Attached(d)]
  <2>1. PICK g, y : g = Followed(c) /\ y = Followed(c)'
    OBVIOUS
  <2>2. y = g \ {e}
    <3>1. late'[c] = late[c]
      BY <1>1, <1>7 DEF Attached, Post, MarkLate, TypeOK
    <3>2. own'[c] = own[c] \cup {e}
      BY <1>1, <1>7, PostedIsOwn
    <3> QED
      BY <1>2, <2>1, <3>1, <3>2 DEF Followed
  <2>3. PICK l \in Seq(Element) : l = list[c]
    BY <1>1 DEF TypeOK
  <2>4. Matching(list'[c], y) = Matching(l, y)
    <3>1. Matching(Append(l, e), y) = Matching(l, y)
      BY <2>2, AlikeAppended
    <3>2. list'[c] = l \/ list'[c] = Append(l, e)
      BY <1>1, <1>7, <2>3, PostedIsOwn
    <3> QED
      BY <3>1, <3>2, Zenon
  <2>5. Matching(Matching(l, g), y) = Matching(l, y)
    BY <2>2, MatchingTwice
  <2>6. want' = [want EXCEPT ![c] = y] /\ attached' = attached
    BY <1>3, <1>5, <1>7, <2>1 DEF Kept
  <2>7. view' = [view EXCEPT ![c] = Matching(Matching(l, g), y)]
    BY <1>3, <1>7, <2>1, <2>4, <2>5 DEF Kept
  <2>8. want[c] = g /\ view[c] = Matching(l, g) /\ attached[c] /\ want'[c] = y
    BY <1>7, <2>1, <2>3
  <2>9. want' = [want EXCEPT ![c] = want[c] \ {e}]
    BY <2>2, <2>6, <2>8
  <2>10. view' = [view EXCEPT ![c] = Shared!Matching(view[c], want'[c])]
    BY <2>7, <2>8, SharedMatching
  <2>11. Shared!Disclaim(c, e)
    BY <1>2, <2>6, <2>8, <2>9, <2>10 DEF Shared!Disclaim
  <2> QED
    BY <1>7, <2>11 DEF Shared!Next
<1> QED
  BY <1>4, <1>6, <1>7

\* Links, subscriptions, requests, late replacements of the lists, changes of filters,
\* posts of the observers' processes and ends of the core implement SharedList, for any
\* number of processes and elements: of the elements it follows an attached observer
\* shows a beginning of what the journal holds, and loses none until it asks anew.
THEOREM LinkImplementsSharedList ==
    Spec => ImplementsSharedList
<1>1. Init => Shared!Init /\ SharedInv
  BY RefinesInit, SharedInit
<1>2. SharedInv /\ [Next]_vars => SharedInv'
  BY SharedNext
<1>3. SharedInv => ShowsPrefix
  BY AttachedShowsPrefix
<1>4. SharedInv /\ SharedInv' /\ ShowsPrefix' /\ [Next]_vars => [Shared!Next]_(Shared!vars)
  <2> SUFFICES ASSUME SharedInv, SharedInv', ShowsPrefix', [Next]_vars PROVE Shared!Next \/ UNCHANGED Shared!vars
    OBVIOUS
  <2>1. TypeOK'
    BY DEF SharedInv, ConnectionInv
  <2>2. CASE CoreStop \/ CoreStart \/ \E e \in Element : PostCore(e)
    BY <2>2, RefinesCore
  <2>3. ASSUME NEW c \in Client, Connect(c) \/ Disconnect(c) PROVE UNCHANGED Shared!vars
    BY <2>3, RefinesLink
  <2>4. ASSUME NEW c \in Client, Ready(c) PROVE Shared!Next \/ UNCHANGED Shared!vars
    BY <2>1, <2>4, RefinesReady
  <2>5. ASSUME NEW c \in Client, Receive(c) PROVE Shared!Next \/ UNCHANGED Shared!vars
    BY <2>1, <2>5, RefinesReceive
  <2>6. ASSUME NEW c \in Client, Replace(c) PROVE Shared!Next \/ UNCHANGED Shared!vars
    BY <2>1, <2>6, RefinesReplace
  <2>7. ASSUME NEW c \in Client, Handle(c) PROVE Shared!Next \/ UNCHANGED Shared!vars
    BY <2>7, RefinesHandle
  <2>8. ASSUME NEW c \in Client, NEW e \in Element, Post(c, e) PROVE Shared!Next \/ UNCHANGED Shared!vars
    BY <2>1, <2>8, RefinesPost
  <2>9. ASSUME NEW c \in Client, NEW f \in Filters, SetFilter(c, f) PROVE Shared!Next
    BY <2>1, <2>9, RefinesSetFilter
  <2>10. CASE UNCHANGED vars
    <3>1. UNCHANGED <<coreUp, journal, filter, list, arrived, late, own, duplex, submitted>>
      BY <2>10 DEF vars, linkVars, markVars
    <3>2. \A d \in Viewer : Kept(d)
      BY <3>1, KeptUnchanged
    <3> QED
      BY <3>1, <3>2, RefinesStutter
  <2> QED
    BY <2>2, <2>3, <2>4, <2>5, <2>6, <2>7, <2>8, <2>9, <2>10 DEF Next
<1> QED
  BY <1>1, <1>2, <1>3, <1>4, PTL DEF Spec, ImplementsSharedList, Shared!Spec
=============================================================================
