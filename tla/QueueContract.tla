--------------------------- MODULE QueueContract ---------------------------
(***************************************************************************)
(* What the durable job queue promises to everything that reads it.  A     *)
(* job's row and the append-only event log change together, in one SQLite  *)
(* transaction; at most one job is running; an outcome, once recorded, is  *)
(* final; an acknowledgment reviews outcomes that nobody reviewed before.  *)
(*                                                                         *)
(* Nothing here says how the promise is kept: workers, locks, processes    *)
(* and crashes are in JobQueue, which is shown to implement this module.   *)
(***************************************************************************)
EXTENDS JobTable, Sequences, SequencesExt

VARIABLES
    events,             \* the events table in seq order
    reviewed            \* jobs whose outcome an operator has acknowledged

contractVars == <<state, events, reviewed>>

EventKind == {"queued", "running", "cancel_requested", "acknowledged"} \cup Terminal

Event(j, s) == [job |-> j, state |-> s]
Log(j, s)   == events' = Append(events, Event(j, s)) /\ UNCHANGED reviewed

\* Attention outcomes that no acknowledgment covers yet.
Unreviewed == {j \in Jobs : state[j] \in Attention} \ reviewed

-----------------------------------------------------------------------------
ContractInit ==
    /\ state = [j \in Jobs |-> "absent"]
    /\ events = <<>>
    /\ reviewed = {}

QueueJob(j)    == QueueRow(j) /\ Log(j, "queued")
BeginJob(j)    == BeginRow(j) /\ Log(j, "running")
DropJob(j)     == DropRow(j) /\ Log(j, "cancelled")
EndJob(j, s)   == EndRow(j, s) /\ Log(j, s)
AskToCancel(j) == state[j] = "running" /\ Log(j, "cancel_requested") /\ UNCHANGED state

\* One transaction reviews a set of failures, in some order.
Review(J) ==
    /\ J # {} /\ J \subseteq Unreviewed
    /\ \E order \in SetToSeqs(J) :
          events' = events \o [n \in DOMAIN order |-> Event(order[n], "acknowledged")]
    /\ reviewed' = reviewed \cup J
    /\ UNCHANGED state

ContractNext ==
    \/ \E j \in Jobs : QueueJob(j) \/ BeginJob(j) \/ DropJob(j) \/ AskToCancel(j)
    \/ \E j \in Jobs, s \in Terminal : EndJob(j, s)
    \/ \E J \in SUBSET Jobs : Review(J)

ContractSpec == ContractInit /\ [][ContractNext]_contractVars
=============================================================================
