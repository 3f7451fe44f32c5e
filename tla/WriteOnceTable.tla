--------------------------- MODULE WriteOnceTable ---------------------------
(***************************************************************************)
(* What the registry promises to everyone who reads it: a table from       *)
(* settlement keys to the keeper who recorded them, in which an entry is   *)
(* written once and never changed or removed ("first writer wins").        *)
(* Nothing is said here of credentials, rewards or transactions.           *)
(***************************************************************************)
CONSTANTS
    Keys,       \* settlement keys, binary and range alike
    Keepers,    \* addresses that may record a settlement
    NoKeeper    \* the entry is absent

VARIABLE table

Init == table = [k \in Keys |-> NoKeeper]

Record(k, w) ==
    /\ table[k] = NoKeeper
    /\ table' = [table EXCEPT ![k] = w]

Next == \E k \in Keys, w \in Keepers : Record(k, w)

Spec == Init /\ [][Next]_table
=============================================================================
