-------------------------- MODULE MCKeeperRegistry --------------------------
(***************************************************************************)
(* Two keepers and the admin, two credentials, two binary positions and a  *)
(* range position.  Bonds, rewards and treasury movements of one and two   *)
(* coins let a reward be due, be unaffordable by one coin, and be zero.    *)
(***************************************************************************)
EXTENDS KeeperRegistry, TLC

CONSTANTS alice, bob, admin, nobody, c1, c2, b1, b2, r1

MCKeepers == {alice, bob}
MCCredentialIds == {c1, c2}
MCBinaryKeys == {b1, b2}
MCRangeKeys == {r1}
MCStakes == {1, 2}
MCRewards == {0, 2}
MCCoins == {1}

Symmetric == Permutations(MCCredentialIds) \cup Permutations(MCKeepers) \cup Permutations(MCBinaryKeys)
=============================================================================
