----------------------------- MODULE SharedList -----------------------------
(***************************************************************************)
(* What a list journal and its observers promise, without links, messages  *)
(* and requests: a journal that only grows until its process ends, and     *)
(* observers which, as long as they are attached, show a prefix of what    *)
(* the journal holds of the elements they follow and lose nothing of it.   *)
(***************************************************************************)
EXTENDS Lists

CONSTANTS Viewer,    \* the observers
          Element    \* the elements of the list

VARIABLES journal,   \* the central list
          want,      \* the elements each observer follows
          view,      \* those of them it shows, in its order
          attached   \* whether it shows them as this journal has them

vars == <<journal, want, view, attached>>

\* The beginnings of a list.
Prefixes(l) == {SubSeq(l, 1, n) : n \in 0 .. Len(l)}

Init ==
    /\ journal = <<>>
    /\ want \in [Viewer -> SUBSET Element]
    /\ view = [c \in Viewer |-> <<>>]
    /\ attached = [c \in Viewer |-> FALSE]

\* The journal takes one more element.
Add ==
    /\ \E e \in Element : journal' = Append(journal, e)
    /\ UNCHANGED <<want, view, attached>>

\* An attached observer shows the next element that matches its filter.
Advance(c) ==
    /\ attached[c]
    /\ \E l \in Prefixes(Matching(journal, want[c])) :
          /\ Len(l) = Len(view[c]) + 1
          /\ view' = [view EXCEPT ![c] = l]
    /\ UNCHANGED <<journal, want, attached>>

\* An observer is given the list as the journal had it some time ago.
Attach(c) ==
    /\ ~ attached[c]
    /\ attached' = [attached EXCEPT ![c] = TRUE]
    /\ \E l \in Prefixes(Matching(journal, want[c])) : view' = [view EXCEPT ![c] = l]
    /\ UNCHANGED <<journal, want>>

\* The process of an observer adds an element itself and shows it outside of the
\* journal's order: it is not followed any more.
Disclaim(c, e) ==
    /\ attached[c]
    /\ want' = [want EXCEPT ![c] = @ \ {e}]
    /\ view' = [view EXCEPT ![c] = Matching(@, want'[c])]
    /\ UNCHANGED <<journal, attached>>

\* The list of an observer that asks for it anew, with the same or another filter, may
\* change to anything until it is attached again.
Detach(c) ==
    /\ attached' = [attached EXCEPT ![c] = FALSE]
    /\ want'[c] \in SUBSET Element
    /\ want' = [want EXCEPT ![c] = want'[c]]
    /\ view'[c] \in Seq(Element)
    /\ view' = [view EXCEPT ![c] = view'[c]]
    /\ UNCHANGED journal

\* The process of the journal ends; the list is not stored.
Restart ==
    /\ journal' = <<>>
    /\ attached' = [c \in Viewer |-> FALSE]
    /\ UNCHANGED <<want, view>>

Next ==
    \/ Add
    \/ Restart
    \/ \E c \in Viewer : Advance(c) \/ Attach(c) \/ Detach(c)
    \/ \E c \in Viewer, e \in Element : Disclaim(c, e)

Spec == Init /\ [][Next]_vars
=============================================================================
