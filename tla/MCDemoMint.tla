----------------------------- MODULE MCDemoMint -----------------------------
(***************************************************************************)
(* Two runs with one key and up to three coins, each too small for a       *)
(* position or enough for three; prices on both sides of the rounding, one *)
(* of them with a range below the lowest strike.                           *)
(***************************************************************************)
EXTENDS DemoMint, TLC

CONSTANTS run1, run2

MCRuns == {run1, run2}
MCCoins == 1..3
MCBalances == {0, 1, 6}
MCPrices == {1499, 1500}
Symmetric == Permutations(Runs)
=============================================================================
