--------------------------- MODULE MCCoherentSets ---------------------------
EXTENDS CoherentSets, TLC

CONSTANTS w1, w2

\* A reader with room for everything.
Ample == [writers |-> {w1}, maxSeq |-> 5,
          concurrent |-> TRUE, lossy |-> FALSE, unmatches |-> FALSE,
          autoRemove |-> TRUE, samples |-> 10, perInstance |-> 10, cap |-> 10]

MCProfiles == {
    Ample,
    \* KEEP_LAST 1: a set with two samples of an instance does not fit.
    [Ample EXCEPT !.concurrent = FALSE, !.lossy = TRUE, !.perInstance = 1],
    \* Two samples in all, and a buffer for two members.
    [Ample EXCEPT !.writers = {w1, w2}, !.maxSeq = 3, !.concurrent = FALSE, !.lossy = TRUE,
                  !.samples = 2, !.cap = 2],
    \* KEEP_ALL with room for two samples: rejections.
    [Ample EXCEPT !.concurrent = FALSE, !.autoRemove = FALSE, !.samples = 2, !.cap = 3],
    \* The writers go away in the middle of a set.
    [Ample EXCEPT !.writers = {w1, w2}, !.maxSeq = 3, !.unmatches = TRUE, !.cap = 2,
                  !.samples = 2]
}

Symmetry == Permutations(Instances)
=============================================================================
