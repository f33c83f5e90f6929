------------------------------- MODULE MCSpmFn -------------------------------
(***************************************************************************)
(* Bounds for checking SpmFn with threads that share it.                   *)
(***************************************************************************)
EXTENDS SpmFn, TLC

\* Two levels at a time: either each thread is in a call, or one thread nests;
\* a level on top of those meets the full stack in the SecureEntry runs.
MaxLevels == 2
BoundedNesting ==
    Cardinality({call \in Threads \X Levels : pc[call[1]][call[2]] # "idle"}) <= MaxLevels

\* The threads are interchangeable, and the run checks invariants only.
ThreadSymmetry == Permutations(Threads)
==============================================================================
