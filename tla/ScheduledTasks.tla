--------------------------- MODULE ScheduledTasks ---------------------------
(***************************************************************************)
(* `rougarou tasks`: recurring work.  systemd user timers run              *)
(* `rougarou tasks _fire NAME`, which submits a job to the queue.  Every   *)
(* command holds tasks.lock from before its first read to its end; within  *)
(* it, each SQLite statement or transaction, each unit file and each       *)
(* systemctl call is a step, and the process may be killed between two.    *)
(***************************************************************************)
EXTENDS JobTable, Sequences, SequencesExt

CONSTANTS
    Tasks,              \* task names
    Procs,              \* processes that run a `rougarou tasks` command
    None,               \* no process, no row
    MaxRevision,        \* bound on edits of one task
    MaxFaults           \* bound on kills and failing systemctl calls

VARIABLES
    task,               \* scheduled_tasks rows: enabled, revision, deleted; or None
    runOf,              \* scheduled_runs: the task and revision of a job, or None
    origin,             \* jobs.parent: the job that a retry repeats, or None
    units,              \* unit files on disk, a set of suffixes per task
    timerOn,            \* systemd: the timer is enabled and active
    firing,             \* systemd: a _fire command was triggered and waits
    lock,               \* holder of tasks.lock
    pc,                 \* next step of each process
    me,                 \* its command, its task and the row it read
    faults              \* the kinds of fault so far, in order

rowVars == <<state, task, runOf, origin>>
sysVars == <<units, timerOn, firing>>
vars    == <<rowVars, sysVars, lock, pc, me, faults>>

Row    == [enabled : BOOLEAN, revision : 1..MaxRevision, deleted : BOOLEAN]
Command == {"add", "edit", "run", "_fire", "enable", "pause", "remove"}
Run    == [task : Tasks, revision : 1..MaxRevision]
Idle   == [command |-> None, task |-> None, row |-> None]

ASSUME NoneAssumption  == None \notin Procs \cup Tasks \cup Jobs \cup Command \cup Row \cup Run
ASSUME BoundAssumption == MaxRevision \in Nat \ {0} /\ MaxFaults \in Nat

Exists(t) == task[t] # None
Known(t)  == Exists(t) /\ ~task[t].deleted
Active(j) == state[j] \in {"queued", "running"}

Init ==
    /\ state = [j \in Jobs |-> "absent"]
    /\ task = [t \in Tasks |-> None]
    /\ runOf = [j \in Jobs |-> None]
    /\ origin = [j \in Jobs |-> None]
    /\ units = [t \in Tasks |-> {}]
    /\ timerOn = [t \in Tasks |-> FALSE]
    /\ firing = [t \in Tasks |-> FALSE]
    /\ lock = None
    /\ pc = [p \in Procs |-> "idle"]
    /\ me = [p \in Procs |-> Idle]
    /\ faults = <<>>

-----------------------------------------------------------------------------
(* operation(): the lock.                                                  *)

\* Plausible bug: a shared lock, or none at all.
LockFreeShared == TRUE

LockFree == lock = None

Goto(p, label) == pc' = [pc EXCEPT ![p] = label]
At(p, label, command) == pc[p] = label /\ me[p].command = command

Begin(p, command, t) ==
    /\ pc[p] = "idle" /\ LockFree
    /\ lock' = p
    /\ Goto(p, "read")
    /\ me' = [me EXCEPT ![p] = [command |-> command, task |-> t, row |-> None]]

\* The command ends, with success or an error, and drops the lock.
Leave(p) ==
    /\ Goto(p, "idle")
    /\ lock' = IF lock = p THEN None ELSE lock
    /\ me' = [me EXCEPT ![p] = Idle]

StartCommand(p, command, t) ==
    /\ command # "_fire"
    /\ Begin(p, command, t)
    /\ UNCHANGED <<rowVars, sysVars, faults>>

StartFire(p, t) ==
    /\ firing[t]
    /\ Begin(p, "_fire", t)
    /\ firing' = [firing EXCEPT ![t] = FALSE]
    /\ UNCHANGED <<rowVars, units, timerOn, faults>>

\* Ten seconds without the lock, or a unit that timed out: the run is missed.
FireGivesUp(t) ==
    /\ firing[t]
    /\ firing' = [firing EXCEPT ![t] = FALSE]
    /\ UNCHANGED <<rowVars, units, timerOn, lock, pc, me, faults>>

Mine(p) == me[p].task

-----------------------------------------------------------------------------
(* save(): add and edit, one transaction.                                  *)

NewRow == [enabled |-> FALSE, revision |-> 1, deleted |-> FALSE]

Add(p) ==
    /\ At(p, "read", "add")
    /\ task' = IF Exists(Mine(p)) THEN task ELSE [task EXCEPT ![Mine(p)] = NewRow]
    /\ Leave(p)
    /\ UNCHANGED <<state, runOf, origin, sysVars, faults>>

\* Plausible bug: a task can be edited while it is enabled.
EditableAlways(t) == Known(t)

Editable(t) == Known(t) /\ ~task[t].enabled

Edit(p) ==
    /\ At(p, "read", "edit")
    /\ task' = IF Editable(Mine(p)) /\ task[Mine(p)].revision < MaxRevision
               THEN [task EXCEPT ![Mine(p)].revision = @ + 1]
               ELSE task
    /\ Leave(p)
    /\ UNCHANGED <<state, runOf, origin, sysVars, faults>>

-----------------------------------------------------------------------------
(* enqueue(): run and _fire.                                               *)

MayRun(p) == Known(Mine(p)) /\ (me[p].command = "_fire" => task[Mine(p)].enabled)

\* get(), then ready(): the worker, the workspace and the provider may refuse.
ReadTask(p) ==
    /\ pc[p] = "read" /\ me[p].command \in {"run", "_fire"}
    /\ \/ /\ MayRun(p)
          /\ me' = [me EXCEPT ![p].row = task[Mine(p)]]
          /\ Goto(p, "submit")
          /\ UNCHANGED lock
       \/ Leave(p)
    /\ UNCHANGED <<rowVars, sysVars, faults>>

\* Plausible bug: a run that is still queued is not looked at.
BusyIfRunning(t) == \E j \in Jobs : state[j] = "running" /\ runOf[j] # None /\ runOf[j].task = t

\* The query of the overlap check: a run of the task is queued or running.
Busy(t) == \E j \in Jobs : Active(j) /\ runOf[j] # None /\ runOf[j].task = t

\* One transaction: overlap check, job, link.
SubmitRun(p) ==
    /\ pc[p] = "submit"
    /\ ~Busy(Mine(p))
    /\ \E j \in Jobs :
          /\ QueueRow(j)
          /\ runOf' = [runOf EXCEPT ![j] = [task |-> Mine(p), revision |-> me[p].row.revision]]
    /\ Leave(p)
    /\ UNCHANGED <<task, origin, sysVars, faults>>

SkipRun(p) ==
    /\ pc[p] = "submit"
    /\ Busy(Mine(p))
    /\ Leave(p)
    /\ UNCHANGED <<rowVars, sysVars, faults>>

-----------------------------------------------------------------------------
(* enable(): check the test, write the units, reload, set enabled, start   *)
(* the timer; if that fails, take enabled back.                            *)

\* The revision as it stands has a run that succeeded.
Tested(t) == \E j \in Jobs : /\ state[j] = "succeeded"
                             /\ runOf[j] = [task |-> t, revision |-> task[t].revision]

CheckEnable(p) ==
    /\ At(p, "read", "enable")
    /\ \/ Known(Mine(p)) /\ Tested(Mine(p)) /\ Goto(p, "service") /\ UNCHANGED <<lock, me>>
       \/ Leave(p)
    /\ UNCHANGED <<rowVars, sysVars, faults>>

WriteUnit(p) ==
    /\ pc[p] \in {"service", "timer"}
    /\ units' = [units EXCEPT ![Mine(p)] = @ \cup {pc[p]}]
    /\ Goto(p, IF pc[p] = "service" THEN "timer" ELSE "reload")
    /\ UNCHANGED <<rowVars, timerOn, firing, lock, me, faults>>

Fault(kind) == Len(faults) < MaxFaults /\ faults' = Append(faults, kind)

ReloadForEnable(p) ==
    /\ At(p, "reload", "enable")
    /\ \/ Goto(p, "set") /\ UNCHANGED <<lock, me, faults>>
       \/ Fault("systemctl") /\ Leave(p)
    /\ UNCHANGED <<rowVars, sysVars>>

SetEnabled(p) ==
    /\ pc[p] = "set"
    /\ task' = [task EXCEPT ![Mine(p)].enabled = TRUE]
    /\ Goto(p, "start")
    /\ UNCHANGED <<state, runOf, origin, sysVars, lock, me, faults>>

\* systemctl enable --now; a call that fails or times out may have worked.
StartTimer(p) ==
    /\ pc[p] = "start"
    /\ timerOn' = [timerOn EXCEPT ![Mine(p)] = TRUE]
    /\ Leave(p)
    /\ UNCHANGED <<rowVars, units, firing, faults>>

StartTimerFails(p) ==
    /\ pc[p] = "start"
    /\ Fault("systemctl")
    /\ \E on \in BOOLEAN : timerOn' = [timerOn EXCEPT ![Mine(p)] = @ \/ on]
    /\ Goto(p, "undo")
    /\ UNCHANGED <<rowVars, units, firing, lock, me>>

\* Plausible bug: the failure is reported but enabled stays set.
UndoNothing(p) ==
    /\ pc[p] = "undo"
    /\ Leave(p)
    /\ UNCHANGED <<rowVars, sysVars, faults>>

UndoEnabled(p) ==
    /\ pc[p] = "undo"
    /\ task' = [task EXCEPT ![Mine(p)].enabled = FALSE]
    /\ Leave(p)
    /\ UNCHANGED <<state, runOf, origin, sysVars, faults>>

-----------------------------------------------------------------------------
(* pause() and remove: clear enabled, stop the timer, drop the units.  An  *)
(* unmanaged unit file of the same name makes it refuse before it starts.  *)

ClearEnabled(p) ==
    /\ pc[p] = "read" /\ me[p].command \in {"pause", "remove"}
    /\ \/ /\ Known(Mine(p))
          /\ task' = [task EXCEPT ![Mine(p)].enabled = FALSE]
          /\ Goto(p, "stop")
          /\ UNCHANGED <<lock, me>>
       \/ Leave(p) /\ UNCHANGED task
    /\ UNCHANGED <<state, runOf, origin, sysVars, faults>>

\* What follows once the timer is stopped.
AfterStop(p) == IF me[p].command = "remove"
                THEN Goto(p, "unlink timer") /\ UNCHANGED <<lock, me>>
                ELSE Leave(p)

\* Plausible bug: a failed stop is ignored and removal goes on.
StopTimerBlindly(p) ==
    /\ pc[p] = "stop"
    /\ AfterStop(p)
    /\ UNCHANGED <<rowVars, sysVars, faults>>

\* systemctl disable --now, only when the timer unit is there.
StopTimer(p) ==
    /\ pc[p] = "stop"
    /\ timerOn' = [timerOn EXCEPT ![Mine(p)] = IF "timer" \in units[Mine(p)] THEN FALSE ELSE @]
    /\ AfterStop(p)
    /\ UNCHANGED <<rowVars, units, firing, faults>>

StopTimerFails(p) ==
    /\ pc[p] = "stop" /\ "timer" \in units[Mine(p)]
    /\ Fault("systemctl")
    /\ \E off \in BOOLEAN : timerOn' = [timerOn EXCEPT ![Mine(p)] = @ /\ ~off]
    /\ Leave(p)
    /\ UNCHANGED <<rowVars, units, firing>>

UnlinkUnit(p) ==
    /\ pc[p] \in {"unlink timer", "unlink service"}
    /\ LET suffix == IF pc[p] = "unlink timer" THEN "timer" ELSE "service"
       IN units' = [units EXCEPT ![Mine(p)] = @ \ {suffix}]
    /\ Goto(p, IF pc[p] = "unlink timer" THEN "unlink service" ELSE "reload")
    /\ UNCHANGED <<rowVars, timerOn, firing, lock, me, faults>>

\* daemon-reload, then deleted=1.
ReloadForRemove(p) ==
    /\ At(p, "reload", "remove")
    /\ \/ Goto(p, "delete") /\ UNCHANGED <<lock, me, faults>>
       \/ Fault("systemctl") /\ Leave(p)
    /\ UNCHANGED <<rowVars, sysVars>>

Delete(p) ==
    /\ pc[p] = "delete"
    /\ task' = [task EXCEPT ![Mine(p)].deleted = TRUE]
    /\ Leave(p)
    /\ UNCHANGED <<state, runOf, origin, sysVars, faults>>

-----------------------------------------------------------------------------
(* The environment: kills, timers, the worker and `rougarou jobs`.         *)

Kill(p) ==
    /\ pc[p] # "idle"
    /\ Fault("kill")
    /\ Leave(p)
    /\ UNCHANGED <<rowVars, sysVars>>

TimerElapses(t) ==
    /\ timerOn[t] /\ ~firing[t]
    /\ firing' = [firing EXCEPT ![t] = TRUE]
    /\ UNCHANGED <<rowVars, units, timerOn, lock, pc, me, faults>>

Work(j) ==
    /\ BeginRow(j) \/ DropRow(j) \/ EndRow(j, "succeeded") \/ EndRow(j, "failed")
    /\ UNCHANGED <<task, runOf, origin, sysVars, lock, pc, me, faults>>

\* `rougarou jobs retry` copies the row; scheduled_runs learns nothing.
Retry(j, k) ==
    /\ state[j] \in Terminal \ {"succeeded"}
    /\ QueueRow(k)
    /\ origin' = [origin EXCEPT ![k] = j]
    /\ UNCHANGED <<task, runOf, sysVars, lock, pc, me, faults>>

-----------------------------------------------------------------------------
Save(p)    == Add(p) \/ Edit(p)
Enqueue(p) == ReadTask(p) \/ SubmitRun(p) \/ SkipRun(p)
Enable(p)  == \/ CheckEnable(p) \/ ReloadForEnable(p) \/ SetEnabled(p)
              \/ StartTimer(p) \/ StartTimerFails(p) \/ UndoEnabled(p)
Pause(p)   == \/ ClearEnabled(p) \/ StopTimer(p) \/ StopTimerFails(p)
              \/ UnlinkUnit(p) \/ ReloadForRemove(p) \/ Delete(p)

Next ==
    \/ \E p \in Procs :
          \/ \E command \in Command, t \in Tasks : StartCommand(p, command, t)
          \/ \E t \in Tasks : StartFire(p, t)
          \/ Save(p) \/ Enqueue(p) \/ Enable(p) \/ WriteUnit(p) \/ Pause(p) \/ Kill(p)
    \/ \E t \in Tasks : TimerElapses(t) \/ FireGivesUp(t)
    \/ \E j \in Jobs : Work(j)
    \/ \E j, k \in Jobs : Retry(j, k)

Spec == Init /\ [][Next]_vars

-----------------------------------------------------------------------------
\* Rows, links, unit files and the processes' locals have legal values.
TypeOK ==
    /\ state \in [Jobs -> JobState]
    /\ task \in [Tasks -> Row \cup {None}]
    /\ runOf \in [Jobs -> Run \cup {None}]
    /\ origin \in [Jobs -> Jobs \cup {None}]
    /\ units \in [Tasks -> SUBSET {"service", "timer"}]
    /\ timerOn \in [Tasks -> BOOLEAN]
    /\ firing \in [Tasks -> BOOLEAN]
    /\ lock \in Procs \cup {None}
    /\ pc \in [Procs -> {"idle", "read", "submit", "service", "timer", "reload", "set", "start",
                         "undo", "stop", "unlink timer", "unlink service", "delete"}]
    /\ me \in [Procs -> [command : Command \cup {None}, task : Tasks \cup {None},
                         row : Row \cup {None}]]
    /\ faults \in Seq({"kill", "systemctl"}) /\ Len(faults) <= MaxFaults

\* A schedule is only ever enabled on a definition that has been run to
\* success as it stands: no edit, retry, kill or interleaving of commands
\* between the check and the update gets an untested revision enabled.
EnabledWasTested ==
    \A t \in Tasks : Exists(t) /\ task[t].enabled => Tested(t)

\* At most one queued or running job is linked to a task, whatever triggers
\* and manual runs race.
NoOverlap ==
    \A i, k \in Jobs : /\ Active(i) /\ Active(k)
                       /\ runOf[i] # None /\ runOf[k] # None /\ runOf[i].task = runOf[k].task
                       => i = k

\* A removed task is quiet for good: no unit file, no active timer, and a
\* trigger that was already waiting submits nothing.
RemovedIsQuiet ==
    \A t \in Tasks : Exists(t) /\ task[t].deleted =>
        /\ units[t] = {} /\ ~timerOn[t] /\ ~task[t].enabled
        /\ \A p \in Procs : Mine(p) = t => pc[p] \in {"idle", "read"}

\* The definition a run is linked to is the saved one at that moment, and a
\* trigger submits only for a task that is enabled at that moment: what was
\* read before ready() is still true in the transaction.
SubmitsCurrentDefinition ==
    [][\A p \in Procs : pc[p] = "submit" /\ state' # state /\ pc'[p] = "idle" =>
           /\ Known(Mine(p))
           /\ me[p].row.revision = task[Mine(p)].revision
           /\ me[p].command = "_fire" => task[Mine(p)].enabled]_vars

\* Between commands the table and systemd agree: unless a command was killed,
\* a task that is enabled has its timer, however often systemctl fails; and a
\* timer without its task enabled is what only a fault leaves behind.
TimerMatchesTable ==
    lock = None =>
        \A t \in Tasks : LET enabled == Exists(t) /\ task[t].enabled IN
            /\ "kill" \notin ToSet(faults) => (enabled => timerOn[t])
            /\ faults = <<>> => (timerOn[t] => enabled)

\* docs/scheduled-tasks.md: "One queued or running job per task is allowed."
\* Counting the retries of a task's runs as work of the task, as they are.
TaskOf(j) == IF runOf[j] # None THEN runOf[j].task
             ELSE IF origin[j] # None /\ runOf[origin[j]] # None THEN runOf[origin[j]].task ELSE None

OneJobPerTask ==
    \A i, k \in Jobs : Active(i) /\ Active(k) /\ TaskOf(i) # None /\ TaskOf(i) = TaskOf(k) => i = k
=============================================================================
