------------------------- MODULE JobQueueProperties -------------------------
(***************************************************************************)
(* What the job queue promises, and the abstract queue it implements.      *)
(***************************************************************************)
EXTENDS JobQueue

\* Every table column, local of a worker and process has a legal value.
TypeOK ==
    /\ state \in [Jobs -> JobState]
    /\ cancelRequested \in [Jobs -> BOOLEAN]
    /\ ready \in [Jobs -> Nat]
    /\ parent \in [Jobs -> Jobs \cup {None}]
    /\ acked \in [Jobs -> Attention \cup {None}]
    /\ events \in Seq([job : Jobs, state : EventKind])
    /\ beat \in [worker : Workers \cup {None}, state : {"none", "running", "stopped"}]
    /\ pc \in [Workers -> {"off", "open"} \cup Holding]
    /\ lock \in Workers \cup {None}
    /\ run \in [Workers -> Locals]
    /\ stopping \in [Workers -> BOOLEAN]
    /\ proc \in [Jobs -> {"none", "live"} \cup Exited]
    /\ logs \subseteq Jobs
    /\ now \in Nat
    /\ retrying \subseteq Jobs
    /\ faults \in Nat

\* One worker processes jobs sequentially: the table never has two running
\* rows, whatever crashed in between, because recover() finishes the rows of
\* a dead worker before the next claim.
SingleRunning == \A i, k \in Running : i = k

\* With every worker under systemd, a live job process always belongs to the
\* one running row and to a worker that is watching it: neither a crash nor
\* an early outcome leaves a process that nobody can cancel.
NoStrayProcess ==
    Managed = Workers =>
        \A j \in Jobs : proc[j] = "live" =>
            /\ state[j] = "running"
            /\ \E w \in Workers : pc[w] \in Executing /\ JobOf(w) = j

\* Work is never replayed: a job that is queued, or is about to be started,
\* has left no trace of an earlier execution, so O_EXCL on its log never
\* fails and no cancellation or acknowledgment of it exists yet.
NeverReplayed ==
    /\ \A j \in Jobs : state[j] \in {"absent", "queued"} =>
          /\ proc[j] = "none" /\ j \notin logs
          /\ ~cancelRequested[j] /\ acked[j] = None
    /\ \A w \in Workers :
          /\ pc[w] = "execute" => JobOf(w) \notin logs
          /\ pc[w] \in {"execute", "spawn"} => proc[JobOf(w)] = "none"

\* A recorded cancellation wins over every outcome execute() may compute
\* from its stale read, and over a crash; and no job that was started is
\* called cancelled without a request.
CancelHonoured ==
    \A j \in Jobs : state[j] \in Terminal =>
        /\ cancelRequested[j] => state[j] = "cancelled"
        /\ state[j] = "cancelled" /\ j \in logs => cancelRequested[j]

CountOf(j, s)   == Cardinality(At(j, s))
Outcomes(j)     == {n \in EventsOf(j) : events[n].state \in Terminal}
Precedes(M, N)  == \A m \in M, n \in N : m < n

\* The event log tells the same story as the tables: each phase of a job is
\* logged once, in order, and exactly when its row says it happened.
HistoryAgrees ==
    \A j \in Jobs :
        /\ CountOf(j, "queued") = (IF state[j] = "absent" THEN 0 ELSE 1)
        /\ state[j] = "running" => CountOf(j, "running") = 1
        /\ state[j] \in {"absent", "queued"} => CountOf(j, "running") = 0
        /\ Outcomes(j) = (IF state[j] \in Terminal THEN At(j, state[j]) ELSE {})
        /\ Cardinality(Outcomes(j)) = (IF state[j] \in Terminal THEN 1 ELSE 0)
        /\ cancelRequested[j] <=> At(j, "cancel_requested") # {}
        /\ CountOf(j, "acknowledged") = (IF acked[j] = None THEN 0 ELSE 1)
        /\ Precedes(At(j, "queued"), At(j, "running"))
        /\ Precedes(At(j, "running"), At(j, "cancel_requested") \cup Outcomes(j))
        /\ Precedes(At(j, "cancel_requested"), Outcomes(j))
        /\ Precedes(Outcomes(j), At(j, "acknowledged"))

\* While a worker serves the queue the heartbeat row is its own: a worker
\* that loses the lock writes none, one that ends writes "stopped" before
\* the lock is free for the next.
HeartbeatOfHolder ==
    \A w \in Workers : pc[w] \in {"claim"} \cup Executing =>
        beat = [worker |-> w, state |-> "running"]

Contract == INSTANCE QueueContract WITH
    reviewed <- {j \in Jobs : acked[j] # None}

\* The queue keeps the contract its readers rely on: an outcome is final, a
\* row and its event change together, one job runs at a time.
ImplementsContract == Contract!ContractSpec

\* The operator starts a stopped service again, each time: what systemd does not
\* do (Restart=on-failure), and what the next two properties depend on.
Served == \A w \in Managed : []<>~stopping[w]

\* Every queued job eventually leaves the queue, also behind a job whose
\* process ignores SIGTERM.
QueuedIsServed ==
    Served => \A j \in Jobs : state[j] = "queued" ~> state[j] \in {"running"} \cup Terminal

\* Every running job gets an outcome, whatever its process does and however
\* the worker ends.
RunningEnds == Served => \A j \in Jobs : state[j] = "running" ~> state[j] \in Terminal

\* A worker that is told to stop ends, and takes the process of the job that it
\* is executing with it: when it is gone, each live process is one that another
\* worker executes, also when execute() failed or the process ignores SIGTERM.
StopIsObeyed ==
    \A w \in Managed :
        stopping[w] ~> /\ pc[w] = "off"
                       /\ \A j \in Jobs : proc[j] = "live" =>
                             \E u \in Workers : pc[u] \in Executing /\ JobOf(u) = j
=============================================================================
