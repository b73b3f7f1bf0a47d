---------------------------- MODULE MCSyncQueue ----------------------------
(* Small instances of SyncQueue.  Overlapping flushes are interchangeable; *)
(* the run with the liveness property does not use the symmetry.           *)
EXTENDS SyncQueue, TLC

FlusherSymmetry == Permutations(Flusher)

\* The bound of the safety run, an action constraint: two requests on their
\* way or being served at a time, and a restart or a revived item, not both.
Small == Cardinality(wire') <= 2 /\ revivals' + restarts' <= 1
=============================================================================
