----------------------------- MODULE MCWaitSet -----------------------------
(***************************************************************************)
(* Instances of WaitSet for TLC.  Nothing is bounded but the numbers of     *)
(* threads, conditions and statuses.                                        *)
(***************************************************************************)
EXTENDS WaitSet, TLC

\* Conditions and the threads that attach them are interchangeable, as long as
\* none or all of the conditions are attached at the start.
Symmetric == Permutations(Attachers) \cup Permutations(Conditions)
=============================================================================
