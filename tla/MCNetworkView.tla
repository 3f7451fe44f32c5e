---------------------------- MODULE MCNetworkView ---------------------------
(***************************************************************************)
(* Two refreshes at a time, pages and a feed of one event: two settlements *)
(* of a stream make a second page, and any two a feed that is too short.   *)
(***************************************************************************)
EXTENDS NetworkView

CONSTANTS ann, bob

MCKeepers == {ann, bob}
MCLegacy == {ann}
MCTimeOf == [n \in 1..MaxSettlements |-> n]
=============================================================================
