------------------------------ MODULE JobTable ------------------------------
(***************************************************************************)
(* The states of the jobs table, as every component that reads the queue   *)
(* sees them: jobs are submitted, at most one runs, outcomes are final.    *)
(***************************************************************************)
EXTENDS Naturals

CONSTANT Jobs           \* the job identifiers that can be handed out

VARIABLE state          \* jobs.state, or "absent" while the id is unused

Terminal  == {"succeeded", "failed", "cancelled", "timed_out", "interrupted"}
Attention == {"failed", "timed_out", "interrupted"}
JobState  == {"absent", "queued", "running"} \cup Terminal

Running == {j \in Jobs : state[j] = "running"}

Move(j, s) == state' = [state EXCEPT ![j] = s]

QueueRow(j)  == state[j] = "absent" /\ Move(j, "queued")
BeginRow(j)  == state[j] = "queued" /\ Running = {} /\ Move(j, "running")
DropRow(j)   == state[j] = "queued" /\ Move(j, "cancelled")
EndRow(j, s) == state[j] = "running" /\ s \in Terminal /\ Move(j, s)
=============================================================================
