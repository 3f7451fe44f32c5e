--------------------------- MODULE MCClaimTiming ----------------------------
(***************************************************************************)
(* Units of ten seconds: five seconds of precheck round up to one unit, or *)
(* down to none where a violation is to be shown.                          *)
(***************************************************************************)
EXTENDS ClaimTiming, TLC

CONSTANTS w1, w2, w3, w4, w5, noworker

Two == {w1, w2}
Five == {w1, w2, w3, w4, w5}
Symmetric == Permutations(Workers)
=============================================================================
