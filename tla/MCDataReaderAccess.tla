------------------------- MODULE MCDataReaderAccess -------------------------
(***************************************************************************)
(* Settings for TLC.                                                       *)
(***************************************************************************)
EXTENDS DataReaderAccess, TLC

Swap == Permutations(Threads)

MCProfiles == {
    \* one call at a time, while changes are filtered, expire and are purged
    [serial |-> TRUE, filtered |-> {2}, limits |-> {1, 3}, expires |-> TRUE],
    \* overlapping calls
    [serial |-> FALSE, filtered |-> {}, limits |-> {3}, expires |-> FALSE] }
=============================================================================
