----------------------------- MODULE MCIndexer ------------------------------
(***************************************************************************)
(* Pages of two events and a binary stream of up to three, so that a drain *)
(* saves the cursor of a full page and leaves a last page behind.          *)
(***************************************************************************)
EXTENDS Indexer

CONSTANT p1

OneProcess == {p1}
FewRanges == [t \in Types |-> IF t = "range" THEN 1 ELSE MaxEvents]
=============================================================================
