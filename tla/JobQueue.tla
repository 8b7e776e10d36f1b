------------------------------ MODULE JobQueue ------------------------------
(***************************************************************************)
(* The durable job queue: `rougarou jobs` (submit, cancel, ack, retry) and  *)
(* the `rougarou worker` that executes queued jobs one after the other.    *)
(*                                                                         *)
(* The tables live in SQLite and every commit is durable, so a crash keeps *)
(* them and loses the worker's locals.  Each transaction is one step; the  *)
(* worker's code between two transactions is a program counter.  Time is   *)
(* abstract: `now` orders delayed jobs, and one expiry flag per worker     *)
(* stands for the job's deadline and, after SIGTERM, for the 3s of grace.  *)
(***************************************************************************)
EXTENDS Naturals, Sequences, FiniteSets, SequencesExt

CONSTANTS
    Jobs,               \* job identifiers
    Workers,            \* processes that may run `rougarou worker`
    Managed,            \* those started by systemd, whose cgroup dies with them
    None,               \* no worker, no job
    MaxTime,            \* bound on the clock, hence on delays
    MaxFaults,          \* bound on crashes, stop signals and database errors
    MaxCancels          \* bound on repeated cancellation requests

ASSUME JobsAssumption    == IsFiniteSet(Jobs)
ASSUME WorkersAssumption == Managed \subseteq Workers
ASSUME NoneAssumption    == None \notin Workers /\ None \notin Jobs
ASSUME BoundsAssumption  == {MaxTime, MaxFaults, MaxCancels} \subseteq Nat

VARIABLES
    state,              \* jobs.state; "absent" while the id is unused
    cancelRequested,    \* jobs.cancel_requested
    ready,              \* jobs.ready
    parent,             \* jobs.parent: the job this one retries
    acked,              \* job_acknowledgments: the acknowledged outcome, or None
    events,             \* the events table in seq order
    beat,               \* the single row of the worker table
    pc,                 \* what each worker process executes next
    lock,               \* holder of worker.lock
    run,                \* locals of worker(), recover() and execute()
    stopping,           \* the worker was told to stop and not started since
    proc,               \* the job's process group: none, live, killed or exit code
    logs,               \* jobs whose log file exists
    now,                \* the wall clock
    retrying,           \* jobs that some `jobs retry` has read as retryable
    faults              \* crashes, stops and database errors so far

rows == <<cancelRequested, ready, parent, acked>>
db   == <<state, events, rows, beat>>
host == <<proc, logs, now, retrying, faults>>
vars == <<db, pc, lock, run, stopping, host>>

Terminal  == {"succeeded", "failed", "cancelled", "timed_out", "interrupted"}
Attention == {"failed", "timed_out", "interrupted"}
JobState  == {"absent", "queued", "running"} \cup Terminal
EventKind == {"queued", "running", "cancel_requested", "acknowledged"} \cup Terminal
Exited    == {"zero", "nonzero", "killed"}

\* No row in job_acknowledgments is not an outcome that was acknowledged.
ASSUME OutcomeAssumption == None \notin Attention

Executing == {"execute", "spawn", "read", "decide", "poll", "reap", "finish"}
Holding   == {"locked", "recover", "idle", "claim", "closing", "unlock"} \cup Executing

\* todo: rows recover() still has to finish; the rest are execute()'s locals.
\* expired: the deadline, or after SIGTERM the grace, has passed.
Locals  == [todo : SUBSET Jobs, job : Jobs \cup {None}, outcome : Terminal,
            requested : BOOLEAN, termAt : BOOLEAN, exitedAt : BOOLEAN, expired : BOOLEAN]
Fresh   == [todo |-> {}, job |-> None, outcome |-> "failed", requested |-> FALSE,
            termAt |-> FALSE, exitedAt |-> FALSE, expired |-> FALSE]

Event(j, s)  == [job |-> j, state |-> s]
EventsOf(j)  == {n \in DOMAIN events : events[n].job = j}
At(j, s)     == {n \in EventsOf(j) : events[n].state = s}
Running      == {j \in Jobs : state[j] = "running"}

\* Plausible bug: the query loses its condition on the state.
UnreviewedOfAnyState == {j \in Jobs : acked[j] # state[j]}

\* snapshot(): outcomes that still ask for the operator's attention.
Unreviewed == {j \in Jobs : state[j] \in Attention /\ acked[j] # state[j]}

\* Plausible bug: everything but running counts as pending.
PendingUnlessRunning(j) == state[j] \notin {"absent", "running"}

Pending(j) == state[j] = "queued"

Retryable == {j \in Jobs : state[j] \in Terminal \ {"succeeded"}}

-----------------------------------------------------------------------------
Init ==
    /\ state = [j \in Jobs |-> "absent"]
    /\ cancelRequested = [j \in Jobs |-> FALSE]
    /\ ready = [j \in Jobs |-> 0]
    /\ parent = [j \in Jobs |-> None]
    /\ acked = [j \in Jobs |-> None]
    /\ events = <<>>
    /\ beat = [worker |-> None, state |-> "none"]
    /\ pc = [w \in Workers |-> "off"]
    /\ lock = None
    /\ run = [w \in Workers |-> Fresh]
    /\ stopping = [w \in Workers |-> FALSE]
    /\ proc = [j \in Jobs |-> "none"]
    /\ logs = {}
    /\ now = 0
    /\ retrying = {}
    /\ faults = 0

-----------------------------------------------------------------------------
(* Operator commands: each is one transaction on the tables.               *)

Record(j, s) ==
    /\ state' = [state EXCEPT ![j] = s]
    /\ events' = Append(events, Event(j, s))

SubmitJob(j, delay, origin) ==
    /\ state[j] = "absent"
    /\ now + delay <= MaxTime
    /\ Record(j, "queued")
    /\ ready' = [ready EXCEPT ![j] = now + delay]
    /\ parent' = [parent EXCEPT ![j] = origin]
    /\ UNCHANGED <<cancelRequested, acked, beat, pc, lock, run, stopping,
                   proc, logs, now, faults>>

Submit(j, delay) == SubmitJob(j, delay, None) /\ UNCHANGED retrying

CancelQueued(j) ==
    /\ Pending(j)
    /\ Record(j, "cancelled")
    /\ UNCHANGED <<rows, beat, pc, lock, run, stopping, host>>

CancelRunning(j) ==
    /\ state[j] = "running"
    /\ Cardinality(At(j, "cancel_requested")) < MaxCancels
    /\ cancelRequested' = [cancelRequested EXCEPT ![j] = TRUE]
    /\ events' = Append(events, Event(j, "cancel_requested"))
    /\ UNCHANGED <<state, ready, parent, acked, beat, pc, lock, run, stopping, host>>

\* acknowledge(): all the unreviewed failures, or only the one that is named.
\* The events follow the jobs' creation, the order of their first events.
CreatedBefore(i, k) == \E n \in EventsOf(i) : \A m \in EventsOf(k) : n <= m

Acknowledgments(order) == [n \in DOMAIN order |-> Event(order[n], "acknowledged")]

Acknowledge(J) ==
    /\ J # {}
    /\ acked' = [j \in Jobs |-> IF j \in J THEN state[j] ELSE acked[j]]
    /\ \E order \in SetToSeqs(J) :
          /\ \A m, n \in DOMAIN order : m <= n => CreatedBefore(order[m], order[n])
          /\ events' = events \o Acknowledgments(order)
    /\ UNCHANGED <<state, cancelRequested, ready, parent, beat, pc, lock, run, stopping, host>>

\* `jobs retry` reads the row outside the transaction that submits the copy.
RetryRead(j) ==
    /\ j \in Retryable \ retrying
    /\ retrying' = retrying \cup {j}
    /\ UNCHANGED <<db, pc, lock, run, stopping, proc, logs, now, faults>>

RetrySubmit(j, k) ==
    /\ j \in retrying
    /\ SubmitJob(k, 0, j)
    /\ retrying' = retrying \ {j}

-----------------------------------------------------------------------------
(* finish(): the transaction that records an outcome.  The cancellation    *)
(* flag is read inside it, so a request made any time before wins.         *)

\* Plausible bugs: the request is not read again; the event of a cancellation
\* is forgotten; interrupted work goes back to the queue.
FinishIgnoringCancel(j, s) == Record(j, s)

FinishSilently(j, s) ==
    /\ state' = [state EXCEPT ![j] = IF cancelRequested[j] THEN "cancelled" ELSE s]
    /\ events' = IF cancelRequested[j] THEN events ELSE Append(events, Event(j, s))

FinishRequeues(j, s) == Record(j, IF s = "interrupted" THEN "queued" ELSE s)

FinishJob(j, s) ==
    IF state[j] \in Terminal
    THEN UNCHANGED <<state, events>>
    ELSE Record(j, IF cancelRequested[j] THEN "cancelled" ELSE s)

-----------------------------------------------------------------------------
(* worker(): start, lock, recovery, main loop, shutdown.                   *)

Goto(w, label) == pc' = [pc EXCEPT ![w] = label]
Beat(w, s)     == beat' = [worker |-> w, state |-> s]
Me(w, locals)  == run' = [run EXCEPT ![w] = locals]

\* A worker that ends, in whatever way, drops the lock and its locals.
Forget(w) ==
    /\ Goto(w, "off")
    /\ lock' = IF lock = w THEN None ELSE lock
    /\ Me(w, Fresh)
    /\ UNCHANGED stopping

\* systemd, the operator's `systemctl start`, or `rougarou worker` by hand.
Start(w) ==
    /\ pc[w] = "off"
    /\ Goto(w, "open")
    /\ stopping' = [stopping EXCEPT ![w] = FALSE]
    /\ UNCHANGED <<db, lock, run, host>>

\* Plausible bug: the lock is not exclusive.
LockFreeShared == TRUE

LockFree == lock = None

\* flock(LOCK_EX | LOCK_NB) succeeds, or another worker owns the queue.
TakeLock(w) ==
    /\ pc[w] = "open" /\ LockFree
    /\ lock' = w
    /\ Goto(w, "locked")
    /\ UNCHANGED <<db, run, stopping, host>>

LockRefused(w) ==
    /\ pc[w] = "open" /\ ~LockFree
    /\ Forget(w)
    /\ UNCHANGED <<db, host>>

\* Plausible bug: recovery sees none of the rows a dead worker left.
LeftoverUnseen == {}

Leftover == Running

RecoverScan(w) ==
    /\ pc[w] = "locked"
    /\ Me(w, [run[w] EXCEPT !.todo = Leftover])
    /\ Goto(w, "recover")
    /\ UNCHANGED <<db, lock, stopping, host>>

RecoverOne(w) ==
    /\ pc[w] = "recover"
    /\ \E j \in run[w].todo :
          /\ FinishJob(j, "interrupted")
          /\ Me(w, [run[w] EXCEPT !.todo = @ \ {j}])
    /\ UNCHANGED <<rows, beat, pc, lock, stopping, host>>

RecoverDone(w) ==
    /\ pc[w] = "recover" /\ run[w].todo = {}
    /\ Goto(w, "idle")
    /\ UNCHANGED <<db, lock, run, stopping, host>>

StopSeen(w) == stopping[w]

\* while not stopping: heartbeat, then try to claim.
LoopHead(w) ==
    /\ pc[w] = "idle" /\ ~StopSeen(w)
    /\ Beat(w, "running")
    /\ Goto(w, "claim")
    /\ UNCHANGED <<state, events, rows, lock, run, stopping, host>>

LoopExit(w) ==
    /\ pc[w] = "idle" /\ StopSeen(w)
    /\ Goto(w, "closing")
    /\ UNCHANGED <<db, lock, run, stopping, host>>

Due == {j \in Jobs : Pending(j) /\ ready[j] <= now}

\* ORDER BY ready, created LIMIT 1
First(j) == \A k \in Due : \/ ready[j] < ready[k]
                           \/ ready[j] = ready[k] /\ CreatedBefore(j, k)

Claim(w) ==
    /\ pc[w] = "claim"
    /\ \E j \in Due : First(j) /\ Record(j, "running") /\ Me(w, [Fresh EXCEPT !.job = j])
    /\ Goto(w, "execute")
    /\ UNCHANGED <<rows, beat, lock, stopping, host>>

NothingDue(w) ==
    /\ pc[w] = "claim" /\ Due = {}
    /\ Goto(w, "idle")
    /\ UNCHANGED <<db, lock, run, stopping, host>>

\* finally: heartbeat(db, "stopped"), and only then the lock is released.
Closing(w) ==
    /\ pc[w] = "closing"
    /\ Beat(w, "stopped")
    /\ Goto(w, "unlock")
    /\ UNCHANGED <<state, events, rows, lock, run, stopping, host>>

Unlock(w) ==
    /\ pc[w] = "unlock"
    /\ Forget(w)
    /\ UNCHANGED <<db, host>>

-----------------------------------------------------------------------------
(* execute(): one job's process, from its log file to its outcome.         *)

JobOf(w) == run[w].job

\* Plausible bug: the signal is sent to a group that is not the job's.
KillNobody(j) == UNCHANGED proc

KillGroup(j) == proc' = [proc EXCEPT ![j] = IF @ = "live" THEN "killed" ELSE @]

\* O_CREAT | O_EXCL: the log of an earlier execution makes this one fail.
OpenLog(w) ==
    /\ pc[w] = "execute"
    /\ logs' = logs \cup {JobOf(w)}
    /\ Goto(w, IF JobOf(w) \in logs THEN "reap" ELSE "spawn")
    /\ UNCHANGED <<db, lock, run, stopping, proc, now, retrying, faults>>

Spawn(w) ==
    /\ pc[w] = "spawn"
    /\ proc' = [proc EXCEPT ![JobOf(w)] = "live"]
    /\ Goto(w, "read")
    /\ UNCHANGED <<db, lock, run, stopping, logs, now, retrying, faults>>

\* Top of the loop: heartbeat, and cancel_requested read in its own query.
ReadRequest(w) ==
    /\ pc[w] = "read"
    /\ Beat(w, "running")
    /\ Me(w, [run[w] EXCEPT !.requested = cancelRequested[JobOf(w)]])
    /\ Goto(w, "decide")
    /\ UNCHANGED <<state, events, rows, lock, stopping, host>>

\* Plausible bug: the deadline is never compared with the clock.
VerdictWithoutDeadline(w) == IF run[w].requested THEN "cancelled"
                             ELSE IF StopSeen(w) THEN "interrupted" ELSE "succeeded"

Verdict(w) == IF run[w].requested THEN "cancelled"
              ELSE IF StopSeen(w) THEN "interrupted"
              ELSE IF run[w].expired THEN "timed_out" ELSE "succeeded"

\* The first reason to stop wins; SIGTERM is sent and its grace starts.
\* `requested` is dead until the next read.
DecideOutcome(w) ==
    /\ pc[w] = "decide" /\ ~run[w].termAt
    /\ Me(w, [run[w] EXCEPT !.outcome = Verdict(w), !.termAt = (Verdict(w) # "succeeded"),
                            !.expired = FALSE, !.requested = FALSE])
    /\ Goto(w, "poll")
    /\ UNCHANGED <<db, lock, stopping, host>>

\* SIGTERM was sent before: SIGKILL once the grace is over.
DecideKill(w) ==
    /\ pc[w] = "decide" /\ run[w].termAt
    /\ IF run[w].expired THEN KillGroup(JobOf(w)) ELSE UNCHANGED proc
    /\ Me(w, [run[w] EXCEPT !.requested = FALSE])
    /\ Goto(w, "poll")
    /\ UNCHANGED <<db, lock, stopping, logs, now, retrying, faults>>

PollLive(w) ==
    /\ pc[w] = "poll" /\ proc[JobOf(w)] = "live"
    /\ Goto(w, "read")
    /\ UNCHANGED <<db, lock, run, stopping, host>>

\* The process is gone but its output is not drained: one more iteration
\* stands for the at most one second that the loop goes on.
PollDrain(w) ==
    /\ pc[w] = "poll" /\ proc[JobOf(w)] \in Exited /\ ~run[w].exitedAt
    /\ Me(w, [run[w] EXCEPT !.exitedAt = TRUE])
    /\ Goto(w, "read")
    /\ UNCHANGED <<db, lock, stopping, host>>

ExitOutcome(j) == IF proc[j] = "zero" THEN "succeeded" ELSE "failed"

PollBreak(w) ==
    /\ pc[w] = "poll" /\ proc[JobOf(w)] \in Exited
    /\ Me(w, [run[w] EXCEPT !.exitedAt = TRUE,
                            !.outcome = IF run[w].termAt THEN @ ELSE ExitOutcome(JobOf(w))])
    /\ Goto(w, "reap")
    /\ UNCHANGED <<db, lock, stopping, host>>

\* Any exception inside the try: bad provider, Popen, SQLite, the log file.
RunnerError(w) ==
    /\ pc[w] \in {"execute", "spawn", "read", "decide", "poll"}
    /\ Me(w, [run[w] EXCEPT !.outcome = "failed"])
    /\ Goto(w, "reap")
    /\ UNCHANGED <<db, lock, stopping, host>>

\* Plausible bug: the cleanup forgets the process group.
ReapNothing(w) ==
    /\ pc[w] = "reap"
    /\ Goto(w, "finish")
    /\ UNCHANGED <<db, lock, run, stopping, host>>

Reap(w) ==
    /\ pc[w] = "reap"
    /\ KillGroup(JobOf(w))
    /\ Goto(w, "finish")
    /\ UNCHANGED <<db, lock, run, stopping, logs, now, retrying, faults>>

Finish(w) ==
    /\ pc[w] = "finish"
    /\ FinishJob(JobOf(w), run[w].outcome)
    /\ Me(w, Fresh)
    /\ Goto(w, "idle")
    /\ UNCHANGED <<rows, beat, lock, stopping, host>>

-----------------------------------------------------------------------------
(* The environment: the job's process, the clocks, signals and faults.     *)

ProcessExits(j) ==
    /\ proc[j] = "live"
    /\ \E code \in {"zero", "nonzero"} : proc' = [proc EXCEPT ![j] = code]
    /\ UNCHANGED <<db, pc, lock, run, stopping, logs, now, retrying, faults>>

Tick ==
    /\ now < MaxTime
    /\ now' = now + 1
    /\ UNCHANGED <<db, pc, lock, run, stopping, proc, logs, retrying, faults>>

TimerExpires(w) ==
    /\ pc[w] \in {"read", "decide", "poll"} /\ ~run[w].expired
    /\ Me(w, [run[w] EXCEPT !.expired = TRUE])
    /\ UNCHANGED <<db, pc, lock, stopping, host>>

Fault == faults < MaxFaults /\ faults' = faults + 1

StopSignal(w) ==
    /\ Fault
    /\ pc[w] # "off" /\ ~stopping[w]
    /\ stopping' = [stopping EXCEPT ![w] = TRUE]
    /\ UNCHANGED <<db, pc, lock, run, proc, logs, now, retrying>>

\* SQLite raises outside execute()'s try: the worker unwinds and exits.
DatabaseError(w) ==
    /\ Fault
    /\ \/ pc[w] \in {"locked", "recover", "closing"} /\ Goto(w, "unlock")
       \/ pc[w] \in {"idle", "claim", "finish"} /\ Goto(w, "closing")
    /\ UNCHANGED <<db, lock, run, stopping, proc, logs, now, retrying>>

\* SIGKILL or OOM.  systemd clears the unit's cgroup; a worker started by
\* hand leaves its job's process behind.
Crash(w) ==
    /\ Fault
    /\ pc[w] # "off"
    /\ IF w \in Managed /\ pc[w] \in Executing THEN KillGroup(JobOf(w)) ELSE UNCHANGED proc
    /\ Forget(w)
    /\ UNCHANGED <<db, logs, now, retrying>>

Reboot ==
    /\ Fault
    /\ pc' = [w \in Workers |-> "off"]
    /\ lock' = None
    /\ run' = [w \in Workers |-> Fresh]
    /\ stopping' = [w \in Workers |-> FALSE]
    /\ proc' = [j \in Jobs |-> IF proc[j] = "live" THEN "killed" ELSE proc[j]]
    /\ retrying' = {}
    /\ UNCHANGED <<db, logs, now>>

-----------------------------------------------------------------------------
Operator ==
    \/ \E j \in Jobs, delay \in 0..MaxTime : Submit(j, delay)
    \/ \E j \in Jobs : CancelQueued(j) \/ CancelRunning(j) \/ RetryRead(j)
    \/ \E j, k \in Jobs : RetrySubmit(j, k)
    \/ Acknowledge(Unreviewed)
    \/ \E j \in Unreviewed : Acknowledge({j})

Execute(w) == \/ OpenLog(w) \/ Spawn(w) \/ ReadRequest(w)
              \/ DecideOutcome(w) \/ DecideKill(w)
              \/ PollLive(w) \/ PollDrain(w) \/ PollBreak(w)
              \/ Reap(w) \/ Finish(w)

Work(w) == \/ TakeLock(w) \/ LockRefused(w)
           \/ RecoverScan(w) \/ RecoverOne(w) \/ RecoverDone(w)
           \/ LoopHead(w) \/ LoopExit(w) \/ Claim(w) \/ NothingDue(w)
           \/ Closing(w) \/ Unlock(w) \/ Execute(w)

Trouble(w) == RunnerError(w) \/ StopSignal(w) \/ DatabaseError(w) \/ Crash(w)

Next ==
    \/ Operator
    \/ Tick
    \/ Reboot
    \/ \E j \in Jobs : ProcessExits(j)
    \/ \E w \in Workers : Start(w) \/ Work(w) \/ TimerExpires(w) \/ Trouble(w)

Spec == Init /\ [][Next]_vars

\* Restart=on-failure starts a worker again that failed, not one that was told
\* to stop; the kernel schedules a worker; clocks advance.  A job's process
\* owes nothing: it may run, and ignore SIGTERM, for ever.
Fairness ==
    /\ WF_vars(Tick)
    /\ \A w \in Managed : /\ WF_vars(~stopping[w] /\ Start(w))
                           /\ WF_vars(Work(w))
                           /\ WF_vars(TimerExpires(w))

FairSpec == Spec /\ Fairness

=============================================================================
