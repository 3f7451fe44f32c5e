----------------------------- MODULE MCSettler ------------------------------
(***************************************************************************)
(* Instances of the settlement path.  Positions of quantity one or two; the  *)
(* indexer may have stored one unit too many, or too few.                  *)
(***************************************************************************)
EXTENDS Settler, TLC

CONSTANTS n1, n2, rival, w1, w2, m1, m2, none, nomarket

OneNode == {n1}
TwoNodes == {n1, n2}
OneKeepers == {n1, rival}
TwoKeepers == {n1, n2, rival}
TwoWorkers == {w1, w2}
BothOnOne == [w \in Workers |-> n1]
OneEach == (w1 :> n1) @@ (w2 :> n2)
OneMarket == {m1}
TwoMarkets == {m1, m2}
Empty == {}
MintTwo == [m \in Markets |-> 2]
MintOne == [m \in Markets |-> 1]
NoFallback == [m \in Markets |-> {}]
SecondMarket == {m2}
OneLessOrMore == [m \in Markets |-> {Minted[m] - 1, Minted[m] + 1}]

=============================================================================
