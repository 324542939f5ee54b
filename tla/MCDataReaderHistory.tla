------------------------ MODULE MCDataReaderHistory ------------------------
(***************************************************************************)
(* Readers with different QoS for TLC.  Each profile turns on what bears   *)
(* on one another and leaves the rest at its default.                      *)
(***************************************************************************)
EXTENDS DataReaderHistory

Default == [exclusive |-> FALSE, autoRemove |-> TRUE, samples |-> 2, instances |-> 2,
            perInstance |-> 1, separation |-> FALSE, deadline |-> FALSE, autopurge |-> {}]

MCProfiles == {
    \* a filtered reader with room for one instance at a time
    [Default EXCEPT !.exclusive = TRUE, !.separation = TRUE, !.instances = 1,
                    !.autopurge = {"no_writers"}],
    \* fail-over between writers, short of samples
    [Default EXCEPT !.exclusive = TRUE, !.deadline = TRUE, !.samples = 1,
                    !.autopurge = {"disposed"}],
    \* a reliable KEEP_ALL reader, which rejects what does not fit
    [Default EXCEPT !.autoRemove = FALSE, !.perInstance = 2, !.separation = TRUE] }
=============================================================================
