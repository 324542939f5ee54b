------------------------ MODULE MCDataWriterHistory ------------------------
(***************************************************************************)
(* Writers with different QoS for TLC.                                     *)
(***************************************************************************)
EXTENDS DataWriterHistory

Default == [writers |-> {1, 2}, awaiters |-> {}, matched |-> {1}, keyed |-> FALSE,
            keepAll |-> TRUE, purges |-> FALSE, patient |-> FALSE,
            samples |-> 2, instances |-> 1, perInstance |-> 2]

Single == [Default EXCEPT !.samples = 1, !.perInstance = 1]

Keyed == [Default EXCEPT !.keyed = TRUE, !.instances = 2, !.writers = {1}, !.matched = {1, 2}]

MCProfiles == {
    \* strict KEEP_ALL that waits for ever: two threads, and two instances
    [Single EXCEPT !.patient = TRUE],
    [Keyed EXCEPT !.patient = TRUE],
    \* volatile KEEP_ALL that drops what was acknowledged
    [Default EXCEPT !.purges = TRUE],
    [Keyed EXCEPT !.purges = TRUE, !.perInstance = 1],
    \* KEEP_ALL that times out, while another thread waits for acknowledgements
    [Default EXCEPT !.writers = {1}, !.awaiters = {2}],
    \* KEEP_LAST: its depth, with and without keys, and the limit over all instances
    [Single EXCEPT !.keepAll = FALSE],
    [Keyed EXCEPT !.keepAll = FALSE, !.matched = {}, !.instances = 1, !.writers = {1, 2}],
    [Keyed EXCEPT !.keepAll = FALSE, !.matched = {1}, !.awaiters = {2}] }

\* volatile KEEP_ALL that drops what was acknowledged and waits for ever
PatientPurger == {[Keyed EXCEPT !.purges = TRUE, !.patient = TRUE, !.perInstance = 1]}
=============================================================================
