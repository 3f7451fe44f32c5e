----------------------------- MODULE Positions ------------------------------
(***************************************************************************)
(* The positions of one settled oracle set, by market id.  Once an oracle  *)
(* has settled nothing more is minted, so these are constants.             *)
(***************************************************************************)
EXTENDS Naturals

CONSTANTS
    Markets,        \* market ids: oracle/manager/expiry/strike/direction
    RangeMarkets,   \* those of range positions
    OutOfRange,     \* range positions the settlement price pays nothing
    Minted,         \* quantity of each position when its oracle settles
    DbQuantity      \* quantities the indexer may have stored for a position

ASSUME PositionAssumption ==
    /\ RangeMarkets \subseteq Markets
    /\ OutOfRange \subseteq RangeMarkets
    /\ Minted \in [Markets -> Nat \ {0}]
    /\ DbQuantity \in [Markets -> SUBSET Nat]
=============================================================================
