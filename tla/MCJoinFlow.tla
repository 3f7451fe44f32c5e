----------------------------- MODULE MCJoinFlow -----------------------------
(***************************************************************************)
(* Two accounts of one visitor, of which one can pay for two bonds.        *)
(***************************************************************************)
EXTENDS JoinFlow

CONSTANTS rich, poor

MCAccounts == {rich, poor}
MCMaxBonds == [a \in MCAccounts |-> IF a = rich THEN 2 ELSE 0]
=============================================================================
