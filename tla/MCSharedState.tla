--------------------------- MODULE MCSharedState ----------------------------
(* The instances of SharedState for TLC. *)
EXTENDS SharedState

CONSTANTS g1, g2, m1, m2   \* clients and elements

\* Everything, and what leaves out one element.
TwoFilters == {Element, Element \ {m1}}

\* No filtering.
OneFilter == {Element}
=============================================================================
