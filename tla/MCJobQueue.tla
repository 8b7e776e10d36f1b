----------------------------- MODULE MCJobQueue -----------------------------
(* Small instances of the job queue for TLC: see the .cfg files. *)
EXTENDS JobQueueProperties, TLC

JobSymmetry == Permutations(Jobs)

\* Bounds of the liveness run, where jobs are numbers.  Identifiers are used in
\* one order, since a symmetry set is not sound there; and some of what a queue of
\* one job meets (delays, a cancellation while it runs, an acknowledgment, a third
\* fault) a queue of two does not.  No step that fairness asks for is refused.
Used == {j \in Jobs : state[j] # "absent"}

Bounded ==
    /\ \A j \in Used', k \in Jobs : k < j => k \in Used'
    /\ Cardinality(Used') > 1 =>
         /\ faults' <= 2 /\ now' = MaxTime
         /\ \A j \in Used' : ready'[j] = MaxTime /\ ~cancelRequested'[j] /\ acked'[j] = None
=============================================================================
