------------------------ MODULE ScheduledTasksProofs -------------------------
(***************************************************************************)
(* Proofs about ScheduledTasks, for any sets of tasks, jobs and processes, *)
(* any number of edits and any number of faults.                           *)
(*                                                                         *)
(* TasksInv is the inductive invariant.  Works says what the command that  *)
(* holds tasks.lock has established so far, and that every other process   *)
(* is idle; PerTask ties a task's row to its unit files, its timer and the *)
(* runs linked to it; RunsInv is about the linked runs alone.  A step of a *)
(* command then concerns one process and one task (HolderStep), a step of  *)
(* the queue concerns the jobs only (QueueStep).                           *)
(***************************************************************************)
EXTENDS ScheduledTasks, TLAPS

Label == {"idle", "read", "submit", "service", "timer", "reload", "set", "start",
          "undo", "stop", "unlink timer", "unlink service", "delete"}
Local == [command : Command \cup {None}, task : Tasks \cup {None}, row : Row \cup {None}]

\* The command of p, at its step, and what it may rely on there.
Works(p) ==
    /\ pc[p] = "idle" => me[p] = Idle
    /\ pc[p] # "idle" => lock = p /\ Mine(p) \in Tasks /\ me[p].command \in Command
    /\ pc[p] = "submit" => MayRun(p) /\ me[p].row = task[Mine(p)]
    /\ pc[p] \in {"service", "timer", "set", "start", "undo"} => me[p].command = "enable"
    /\ pc[p] = "reload" => me[p].command \in {"enable", "remove"}
    /\ pc[p] = "stop" => me[p].command \in {"pause", "remove"}
    /\ pc[p] \in {"unlink timer", "unlink service", "delete"} => me[p].command = "remove"

\* What enable() relies on: a tested definition, and the unit files so far.
Enabling(p) ==
    /\ pc[p] \in {"service", "timer", "reload", "set", "start", "undo"} =>
           Known(Mine(p)) /\ Tested(Mine(p))
    /\ pc[p] \in {"reload", "set", "start", "undo"} => "timer" \in units[Mine(p)]
    /\ pc[p] \in {"start", "undo"} => task[Mine(p)].enabled
    /\ pc[p] = "undo" => faults # <<>>

\* What pause() and remove rely on: a row that is off, then a timer and files.
Removing(p) ==
    /\ pc[p] \in {"stop", "unlink timer", "unlink service", "reload", "delete"} =>
           Known(Mine(p)) /\ ~task[Mine(p)].enabled
    /\ pc[p] \in {"unlink timer", "unlink service", "reload", "delete"} => ~timerOn[Mine(p)]
    /\ pc[p] \in {"unlink service", "reload", "delete"} => "timer" \notin units[Mine(p)]
    /\ pc[p] \in {"reload", "delete"} => units[Mine(p)] = {}

Holds(p) ==
    /\ Works(p)
    /\ me[p].command = "enable" => Enabling(p)
    /\ pc[p] \in {"stop", "unlink timer", "unlink service", "reload", "delete"} /\ me[p].command # "enable" =>
           Removing(p)

\* A task's row against its timer, up to what the lock's holder is changing.
Agree(t) ==
    /\ "kill" \notin ToSet(faults) /\ Exists(t) /\ task[t].enabled =>
           timerOn[t] \/ \E p \in Procs : pc[p] \in {"start", "undo"} /\ Mine(p) = t
    /\ faults = <<>> /\ timerOn[t] =>
           (Exists(t) /\ task[t].enabled) \/ \E p \in Procs : pc[p] = "stop" /\ Mine(p) = t

PerTask(t) ==
    /\ timerOn[t] => "timer" \in units[t]
    /\ Exists(t) /\ task[t].enabled => Tested(t)
    /\ Agree(t)
    /\ Exists(t) /\ task[t].deleted =>
           /\ units[t] = {} /\ ~timerOn[t] /\ ~task[t].enabled
           /\ \A p \in Procs : Mine(p) = t => pc[p] \in {"idle", "read"}

\* An unused job is linked to nothing, and one active job at most to a task.
RunsInv == (\A j \in Jobs : state[j] = "absent" => runOf[j] = None) /\ NoOverlap

TasksInv == TypeOK /\ RunsInv /\ (\A p \in Procs : Holds(p)) /\ (\A t \in Tasks : PerTask(t))

-----------------------------------------------------------------------------
\* What faults happened, when one more is recorded or none.
LEMMA FaultsGrow ==
    ASSUME faults \in Seq({"kill", "systemctl"}), Len(faults) <= MaxFaults,
           NEW kind \in {"kill", "systemctl"}, UNCHANGED faults \/ Fault(kind)
    PROVE  /\ faults' \in Seq({"kill", "systemctl"}) /\ Len(faults') <= MaxFaults
           /\ faults' = <<>> => faults = <<>>
           /\ "kill" \notin ToSet(faults') => "kill" \notin ToSet(faults)
           /\ Fault(kind) => faults' # <<>> /\ (kind = "kill" => "kill" \in ToSet(faults'))
<1>1. CASE UNCHANGED faults /\ ~Fault(kind)
  BY <1>1
<1>2. CASE Fault(kind)
  <2>1. faults' = Append(faults, kind) /\ Len(faults) < MaxFaults /\ Len(faults) \in Nat
    BY <1>2 DEF Fault
  <2>2. /\ faults' \in Seq({"kill", "systemctl"}) /\ Len(faults') = Len(faults) + 1
        /\ DOMAIN faults = 1..Len(faults) /\ DOMAIN faults' = 1..(Len(faults) + 1)
        /\ \A i \in 1..Len(faults) : faults'[i] = faults[i]
        /\ faults'[Len(faults) + 1] = kind
    BY <2>1
  <2>3. ToSet(faults) \subseteq ToSet(faults') /\ kind \in ToSet(faults')
    <3>1. ToSet(faults) = {faults[i] : i \in 1..Len(faults)}
      BY <2>2 DEF ToSet
    <3>2. ToSet(faults') = {faults'[i] : i \in 1..(Len(faults) + 1)}
      BY <2>2 DEF ToSet
    <3>3. 1..Len(faults) \subseteq 1..(Len(faults) + 1) /\ Len(faults) + 1 \in 1..(Len(faults) + 1)
      BY <2>1
    <3> QED
      BY <2>2, <3>1, <3>2, <3>3
  <2>4. Len(faults') # 0 /\ Len(faults') <= MaxFaults
    BY ONLY <2>1, <2>2, BoundAssumption
  <2>5. faults' # <<>>
    BY <2>4
  <2> QED
    BY <1>2, <2>2, <2>3, <2>4, <2>5
<1> QED
  BY <1>1, <1>2

\* While p has the lock, every other process is idle.
LEMMA OthersIdle ==
    ASSUME TasksInv, NEW p \in Procs, pc[p] # "idle"
    PROVE  /\ lock = p /\ Mine(p) \in Tasks
           /\ \A q \in Procs \ {p} : pc[q] = "idle" /\ me[q] = Idle
BY DEF TasksInv, Holds, Works

\* A command's step: it is enough to look at its own process and its own task.
LEMMA HolderStep ==
    ASSUME TasksInv, TypeOK', RunsInv',
           NEW p \in Procs, pc[p] # "idle", NEW t \in Tasks, t = Mine(p),
           \A q \in Procs \ {p} : pc'[q] = pc[q] /\ me'[q] = me[q],
           lock' \in {p, None}, me'[p].task \in {t, None},
           \A u \in Tasks \ {t} : task'[u] = task[u] /\ units'[u] = units[u] /\ timerOn'[u] = timerOn[u],
           \A j \in Jobs : state[j] = "succeeded" => state'[j] = "succeeded" /\ runOf'[j] = runOf[j],
           faults' = <<>> => faults = <<>>,
           "kill" \notin ToSet(faults') => "kill" \notin ToSet(faults),
           Holds(p)', PerTask(t)'
    PROVE  TasksInv'
<1>1. \A q \in Procs \ {p} : pc[q] = "idle" /\ me[q] = Idle
  BY OthersIdle
<1>2. \A q \in Procs \ {p} : Holds(q)'
  <2> TAKE q \in Procs \ {p}
  <2>1. pc'[q] = "idle" /\ me'[q] = Idle /\ me'[q].command # "enable"
    BY <1>1, NoneAssumption DEF Idle, Command
  <2>2. Works(q)'
    BY <2>1 DEF Works
  <2> QED
    BY <2>1, <2>2 DEF Holds
<1>3. ASSUME NEW u \in Tasks \ {t} PROVE PerTask(u)'
  <2>1. PerTask(u)
    BY DEF TasksInv
  <2>2. \A q \in Procs : Mine(q) # u \/ pc[q] = "idle"
    BY <1>1
  <2>3. \A q \in Procs : Mine(q)' = u => pc'[q] = "idle"
    BY <1>1, NoneAssumption DEF Mine
  <2>4. Exists(u)' <=> Exists(u)
    BY DEF Exists
  <2>5. Tested(u) => Tested(u)'
    BY DEF Tested
  <2>6. Agree(u)'
    BY <2>1, <2>2, <2>4 DEF PerTask, Agree
  <2> QED
    BY <2>1, <2>3, <2>4, <2>5, <2>6 DEF PerTask
<1> QED
  BY <1>2, <1>3 DEF TasksInv

\* A step of the queue, or of a timer: no row, file, timer or command changes.
LEMMA QueueStep ==
    ASSUME TasksInv, TypeOK', RunsInv', UNCHANGED <<task, units, timerOn, lock, pc, me, faults>>,
           \A j \in Jobs : state[j] = "succeeded" => state'[j] = "succeeded" /\ runOf'[j] = runOf[j]
    PROVE  TasksInv'
<1>1. \A t : (Tested(t) => Tested(t)') /\ (Exists(t)' <=> Exists(t)) /\ (Known(t)' <=> Known(t))
  BY DEF Tested, Exists, Known
<1>2. \A p \in Procs : Mine(p)' = Mine(p) /\ (MayRun(p)' <=> MayRun(p))
  BY <1>1 DEF Mine, MayRun, Known, Exists
<1>3. \A p \in Procs : Holds(p)'
  <2> TAKE p \in Procs
  <2>1. Holds(p)
    BY DEF TasksInv
  <2>2. Works(p)'
    BY <1>2, <2>1 DEF Holds, Works
  <2>3. Enabling(p) => Enabling(p)'
    BY <1>1, <1>2 DEF Enabling
  <2>4. Removing(p) => Removing(p)'
    BY <1>1, <1>2 DEF Removing
  <2> QED
    BY <2>1, <2>2, <2>3, <2>4 DEF Holds
<1>4. \A t \in Tasks : PerTask(t)'
  <2> TAKE t \in Tasks
  <2>1. PerTask(t)
    BY DEF TasksInv
  <2>2. Agree(t)'
    BY <1>1, <1>2, <2>1 DEF PerTask, Agree
  <2> QED
    BY <1>1, <1>2, <2>1, <2>2 DEF PerTask
<1> QED
  BY <1>3, <1>4 DEF TasksInv

\* A command that takes the lock relies on nothing yet.
LEMMA BeginStep ==
    ASSUME TasksInv, TypeOK', NEW p \in Procs, NEW command \in Command, NEW t \in Tasks, Begin(p, command, t),
           UNCHANGED <<rowVars, units, timerOn, faults>>
    PROVE  TasksInv'
<1>1. /\ pc[p] = "idle" /\ lock = None /\ lock' = p
      /\ pc' = [pc EXCEPT ![p] = "read"]
      /\ me' = [me EXCEPT ![p] = [command |-> command, task |-> t, row |-> None]]
  BY DEF Begin, LockFree, Goto
<1>2. \A q \in Procs : pc[q] = "idle" /\ me[q] = Idle
  BY <1>1, NoneAssumption DEF TasksInv, Holds, Works
<1>3. pc \in [Procs -> Label] /\ me \in [Procs -> Local]
  BY DEF TasksInv, TypeOK, Label, Local
<1>4. \A q \in Procs : pc'[q] \in {"idle", "read"} /\ (pc'[q] = "idle" => me'[q] = Idle)
      /\ (pc'[q] = "read" => q = p)
  BY <1>1, <1>2, <1>3
<1>5. me'[p].task = t /\ me'[p].command = command
  BY <1>1, <1>3
<1>6. \A q \in Procs : Holds(q)'
  BY ZenonT(40), <1>1, <1>4, <1>5, NoneAssumption DEF Holds, Works, Enabling, Mine, Idle
<1>7. \A u \in Tasks : PerTask(u)'
  <2> TAKE u \in Tasks
  <2>1. PerTask(u)
    BY DEF TasksInv
  <2>2. (Exists(u)' <=> Exists(u)) /\ (Tested(u)' <=> Tested(u))
    BY DEF rowVars, Exists, Tested
  <2>3. Agree(u)'
    BY <1>2, <2>1, <2>2 DEF PerTask, Agree, rowVars
  <2> QED
    BY <1>4, <2>1, <2>2, <2>3 DEF PerTask, rowVars
<1>8. RunsInv'
  BY DEF TasksInv, RunsInv, NoOverlap, Active, rowVars
<1> QED
  BY <1>6, <1>7, <1>8 DEF TasksInv

\* A command that ends relies on nothing any more.
LEMMA Leaving ==
    ASSUME TasksInv, NEW p \in Procs, pc[p] # "idle", Leave(p)
    PROVE  /\ lock' = None /\ pc'[p] = "idle" /\ me'[p] = Idle /\ me'[p].task = None
           /\ \A q \in Procs \ {p} : pc'[q] = pc[q] /\ me'[q] = me[q]
           /\ pc' \in [Procs -> Label] /\ me' \in [Procs -> Local] /\ Holds(p)'
<1>1. lock = p /\ pc \in [Procs -> Label] /\ me \in [Procs -> Local]
  BY OthersIdle DEF TasksInv, TypeOK, Label, Local
<1>2. Idle \in Local /\ Idle.command = None /\ Idle.task = None
  BY DEF Idle, Local
<1>3. /\ lock' = None /\ pc'[p] = "idle" /\ me'[p] = Idle
      /\ \A q \in Procs \ {p} : pc'[q] = pc[q] /\ me'[q] = me[q]
      /\ pc' \in [Procs -> Label] /\ me' \in [Procs -> Local]
  BY <1>1, <1>2 DEF Leave, Goto, Label
<1>4. Holds(p)'
  BY <1>2, <1>3, NoneAssumption DEF Holds, Works, Command
<1> QED
  BY <1>2, <1>3, <1>4

\* A command goes on to its next step.
LEMMA Going ==
    ASSUME TasksInv, NEW p \in Procs, pc[p] # "idle", NEW label \in Label, Goto(p, label)
    PROVE  /\ pc' \in [Procs -> Label] /\ pc'[p] = label
           /\ \A q \in Procs \ {p} : pc'[q] = pc[q]
           /\ me \in [Procs -> Local] /\ lock = p /\ lock \in Procs /\ Mine(p) \in Tasks /\ me[p].command \in Command
BY ZenonT(40), OthersIdle DEF TasksInv, TypeOK, Goto, Label, Local, Holds, Works

\* A step of a command that leaves its task as it was.
LEMMA KeepStep ==
    ASSUME TasksInv, NEW p \in Procs, pc[p] # "idle", NEW t \in Tasks, t = Mine(p), UNCHANGED <<rowVars, sysVars>>,
           pc' \in [Procs -> Label], me' \in [Procs -> Local], lock' \in {p, None},
           faults' \in Seq({"kill", "systemctl"}), Len(faults') <= MaxFaults,
           faults' = <<>> => faults = <<>>, "kill" \notin ToSet(faults') => "kill" \notin ToSet(faults),
           \A q \in Procs \ {p} : pc'[q] = pc[q] /\ me'[q] = me[q],
           me'[p].task \in {t, None}, Holds(p)',
           pc[p] \in {"start", "undo", "stop"} => "kill" \in ToSet(faults') /\ faults' # <<>>,
           pc'[p] \in {"idle", "read"} \/ Known(t)
    PROVE  TasksInv'
<1>1. \A q \in Procs \ {p} : pc[q] = "idle" /\ me[q] = Idle
  BY OthersIdle
<1>2. TypeOK'
  BY DEF TasksInv, TypeOK, rowVars, sysVars, Label, Local
<1>3. RunsInv'
  BY DEF TasksInv, RunsInv, NoOverlap, Active, rowVars
<1>4. (Exists(t) => Exists(t)') /\ (Tested(t) => Tested(t)')
  BY DEF Exists, Tested, rowVars
<1>5. PerTask(t)
  BY <1>1 DEF TasksInv
<1>6. Agree(t)'
  <2>1. CASE pc[p] \in {"start", "undo", "stop"}
    BY <2>1 DEF Agree
  <2>2. CASE pc[p] \notin {"start", "undo", "stop"}
    <3>1. \A q \in Procs : pc[q] \notin {"start", "undo", "stop"}
      BY <1>1, <2>2
    <3> QED
      BY <1>5, <3>1 DEF PerTask, Agree, Exists, rowVars, sysVars
  <2> QED
    BY <2>1, <2>2
<1>7. ASSUME Exists(t)', task'[t].deleted PROVE \A q \in Procs : Mine(q)' = t => pc'[q] \in {"idle", "read"}
  <2>1. ~Known(t)
    BY <1>7 DEF Known, rowVars
  <2>2. pc'[p] \in {"idle", "read"}
    BY <2>1
  <2> QED
    BY <1>1, <2>2, NoneAssumption DEF Mine, Idle
<1>8. PerTask(t)'
  BY <1>4, <1>5, <1>6, <1>7 DEF PerTask, rowVars, sysVars, Exists
<1> QED
  BY <1>1, <1>2, <1>3, <1>8, HolderStep DEF rowVars, sysVars

\* The queue's own steps keep the runs: what is queued is new, or its task idle.
LEMMA RunsStep ==
    ASSUME TasksInv, TypeOK', NEW j \in Jobs, NEW s \in JobState \ {"absent"}, Move(j, s),
           \/ UNCHANGED runOf /\ (s \in {"queued", "running"} => state[j] \in {"queued", "running"} \/ runOf[j] = None)
           \/ \E t \in Tasks : ~Busy(t) /\ \E v : runOf' = [runOf EXCEPT ![j] = [task |-> t, revision |-> v]],
           state[j] # "succeeded"
    PROVE  /\ RunsInv'
           /\ \A k \in Jobs : state[k] = "succeeded" => state'[k] = "succeeded" /\ runOf'[k] = runOf[k]
<1>1. /\ state' = [state EXCEPT ![j] = s] /\ state \in [Jobs -> JobState]
      /\ runOf \in [Jobs -> Run \cup {None}] /\ runOf' \in [Jobs -> Run \cup {None}]
  BY DEF Move, TasksInv, TypeOK
<1>2. \A i, k \in Jobs : Active(i) /\ Active(k) /\ runOf[i] # None /\ runOf[k] # None
                         /\ runOf[i].task = runOf[k].task => i = k
  BY DEF TasksInv, RunsInv, NoOverlap
<1>3. \A k \in Jobs : state[k] = "absent" => runOf[k] = None
  BY DEF TasksInv, RunsInv
<1>4. CASE UNCHANGED runOf /\ (s \in {"queued", "running"} => state[j] \in {"queued", "running"} \/ runOf[j] = None)
  BY <1>1, <1>2, <1>3, <1>4 DEF RunsInv, NoOverlap, Active, JobState
<1>5. ASSUME NEW t \in Tasks, ~Busy(t), NEW v, runOf' = [runOf EXCEPT ![j] = [task |-> t, revision |-> v]]
      PROVE  /\ RunsInv'
             /\ \A k \in Jobs : state[k] = "succeeded" => state'[k] = "succeeded" /\ runOf'[k] = runOf[k]
  <2>1. \A k \in Jobs : Active(k) => runOf[k] = None \/ runOf[k].task # t
    BY <1>5 DEF Busy
  <2>2. runOf'[j].task = t /\ \A k \in Jobs \ {j} : runOf'[k] = runOf[k] /\ (Active(k)' <=> Active(k))
    BY <1>1, <1>5 DEF Active
  <2>3. NoOverlap'
    BY <1>2, <2>1, <2>2 DEF NoOverlap
  <2> QED
    BY <1>1, <1>3, <2>2, <2>3 DEF RunsInv, JobState
<1> QED
  BY <1>4, <1>5

\* Of the rows, the unit files and the timers, at most t's change.
RowMoves(t)   == task' \in [Tasks -> Row \cup {None}] /\ \A u \in Tasks \ {t} : task'[u] = task[u]
FilesMove(t)  == units' \in [Tasks -> SUBSET {"service", "timer"}] /\ \A u \in Tasks \ {t} : units'[u] = units[u]
TimerMoves(t) == timerOn' \in [Tasks -> BOOLEAN] /\ \A u \in Tasks \ {t} : timerOn'[u] = timerOn[u]

\* Every step keeps TasksInv.
LEMMA TasksStep == TasksInv /\ [Next]_vars => TasksInv'
<1> SUFFICES ASSUME TasksInv, [Next]_vars PROVE TasksInv'
  OBVIOUS
<1>0. /\ state \in [Jobs -> JobState] /\ task \in [Tasks -> Row \cup {None}]
      /\ runOf \in [Jobs -> Run \cup {None}] /\ origin \in [Jobs -> Jobs \cup {None}]
      /\ units \in [Tasks -> SUBSET {"service", "timer"}] /\ timerOn \in [Tasks -> BOOLEAN]
      /\ firing \in [Tasks -> BOOLEAN] /\ lock \in Procs \cup {None}
      /\ pc \in [Procs -> Label] /\ me \in [Procs -> Local]
      /\ faults \in Seq({"kill", "systemctl"}) /\ Len(faults) <= MaxFaults
      /\ \A p \in Procs : Holds(p)
      /\ \A t \in Tasks : PerTask(t)
  BY DEF TasksInv, TypeOK, Label, Local
<1>1. RunsInv /\ (UNCHANGED <<state, runOf>> => RunsInv')
  BY DEF TasksInv, RunsInv, NoOverlap, Active
\* Commands begin, give up and are killed.
<1>2. ASSUME NEW p \in Procs, NEW command \in Command, NEW t \in Tasks, StartCommand(p, command, t) \/ StartFire(p, t)
      PROVE  TasksInv'
  <2>1. Begin(p, command, t) \/ Begin(p, "_fire", t)
    BY <1>2 DEF StartCommand, StartFire
  <2>2. /\ UNCHANGED <<rowVars, units, timerOn, faults>> /\ firing' \in [Tasks -> BOOLEAN]
    BY <1>0, <1>2 DEF StartCommand, StartFire, sysVars
  <2>3. [command |-> command, task |-> t, row |-> None] \in Local /\ [command |-> "_fire", task |-> t, row |-> None] \in Local
    BY DEF Local, Command
  <2>4. pc' \in [Procs -> Label] /\ me' \in [Procs -> Local] /\ lock' \in Procs
    BY ZenonT(40), <1>0, <2>1, <2>3 DEF Begin, Goto, Label
  <2>5. TypeOK'
    BY <1>0, <2>2, <2>4 DEF TypeOK, Label, Local, rowVars
  <2> QED
    BY <2>1, <2>2, <2>5, BeginStep DEF Command
<1>3. ASSUME NEW p \in Procs, Kill(p) PROVE TasksInv'
  <2>1. /\ pc[p] # "idle" /\ Leave(p) /\ Fault("kill") /\ UNCHANGED <<rowVars, sysVars>>
    BY <1>3 DEF Kill
  <2>2. /\ faults' \in Seq({"kill", "systemctl"}) /\ Len(faults') <= MaxFaults /\ faults' # <<>>
        /\ "kill" \in ToSet(faults')
    BY <1>0, <2>1, FaultsGrow
  <2> QED
    BY <2>1, <2>2, Leaving, OthersIdle, KeepStep
<1>4. ASSUME UNCHANGED <<rowVars, units, timerOn, lock, pc, me, faults>>, firing' \in [Tasks -> BOOLEAN] PROVE TasksInv'
  <2>1. TypeOK'
    BY <1>0, <1>4 DEF TypeOK, Label, Local, rowVars
  <2> QED
    BY <1>1, <1>4, <2>1, QueueStep DEF rowVars
<1>5. ASSUME NEW t \in Tasks, FireGivesUp(t) \/ TimerElapses(t) PROVE TasksInv'
  BY <1>0, <1>4, <1>5 DEF FireGivesUp, TimerElapses
\* The queue.
<1>6. ASSUME NEW j \in Jobs, NEW s \in JobState \ {"absent"}, Move(j, s), state[j] # "succeeded",
             UNCHANGED <<task, runOf, sysVars, lock, pc, me, faults>>, origin' \in [Jobs -> Jobs \cup {None}],
             s \in {"queued", "running"} => state[j] \in {"queued", "running"} \/ runOf[j] = None
      PROVE  TasksInv'
  <2>1. TypeOK'
    BY <1>0, <1>6 DEF TypeOK, Label, Local, sysVars, Move
  <2>2. /\ RunsInv'
        /\ \A k \in Jobs : state[k] = "succeeded" => state'[k] = "succeeded" /\ runOf'[k] = runOf[k]
    BY <1>6, <2>1, RunsStep
  <2> QED
    BY <1>6, <2>1, <2>2, QueueStep DEF sysVars
<1>7. ASSUME NEW j \in Jobs, Work(j) PROVE TasksInv'
  <2>1. UNCHANGED <<task, runOf, origin, sysVars, lock, pc, me, faults>>
    BY <1>7 DEF Work
  <2>2. PICK s \in {"running", "cancelled", "succeeded", "failed"} :
           Move(j, s) /\ state[j] \in {"queued", "running"}
    BY <1>7 DEF Work, BeginRow, DropRow, EndRow
  <2> QED
    BY <1>0, <1>6, <2>1, <2>2 DEF JobState, Terminal
<1>8. ASSUME NEW j \in Jobs, NEW k \in Jobs, Retry(j, k) PROVE TasksInv'
  <2>1. Move(k, "queued") /\ state[k] = "absent" /\ runOf[k] = None
    BY <1>1, <1>8 DEF Retry, QueueRow, RunsInv
  <2>2. UNCHANGED <<task, runOf, sysVars, lock, pc, me, faults>> /\ origin' \in [Jobs -> Jobs \cup {None}]
    BY <1>0, <1>8 DEF Retry
  <2> QED
    BY <1>6, <2>1, <2>2 DEF JobState
\* enqueue().
<1>9. ASSUME NEW p \in Procs, SkipRun(p) \/ (Leave(p) /\ pc[p] = "read" /\ UNCHANGED <<rowVars, sysVars, faults>>)
      PROVE  TasksInv'
  <2>1. pc[p] \in {"submit", "read"} /\ Leave(p) /\ UNCHANGED <<rowVars, sysVars, faults>>
    BY <1>9 DEF SkipRun
  <2> QED
    BY <1>0, <2>1, Leaving, OthersIdle, KeepStep
<1>10. ASSUME NEW p \in Procs, ReadTask(p) PROVE TasksInv'
  <2>1. CASE Leave(p)
    BY <1>9, <1>10, <2>1 DEF ReadTask
  <2>2. CASE ~Leave(p)
    <3>1. /\ pc[p] = "read" /\ MayRun(p) /\ Goto(p, "submit") /\ UNCHANGED <<rowVars, sysVars, faults, lock>>
          /\ me' = [me EXCEPT ![p].row = task[Mine(p)]] /\ me[p].command \in {"run", "_fire"}
      BY <1>10, <2>2 DEF ReadTask
    <3>2. Mine(p) \in Tasks /\ lock = p /\ me[p] \in Local /\ Known(Mine(p)) /\ task[Mine(p)] \in Row
      BY <1>0, <3>1, OthersIdle DEF MayRun, Known, Exists
    <3>3. /\ me' \in [Procs -> Local] /\ me'[p].row = task[Mine(p)] /\ me'[p].task = Mine(p)
          /\ me'[p].command = me[p].command /\ \A q \in Procs \ {p} : me'[q] = me[q]
      <4> DEFINE read == task[Mine(p)]
      <4>1. /\ me' = [me EXCEPT ![p].row = read] /\ read \in Row
        BY <3>1, <3>2
      <4> HIDE DEF read
      <4>2. me'[p] = [me[p] EXCEPT !.row = read] /\ (\A q \in Procs \ {p} : me'[q] = me[q])
        BY <1>0, <4>1
      <4>3. me'[p] \in Local /\ me'[p].row = read /\ me'[p].task = me[p].task /\ me'[p].command = me[p].command
        BY <3>2, <4>1, <4>2 DEF Local
      <4>4. me' \in [Procs -> Local]
        BY <1>0, <4>1, <4>2, <4>3
      <4> QED
        BY <4>2, <4>3, <4>4 DEF read, Mine
    <3>4. Mine(p)' = Mine(p) /\ MayRun(p)'
      BY <3>1, <3>3 DEF Mine, MayRun, Known, Exists, rowVars
    <3>5. pc'[p] = "submit" /\ pc' \in [Procs -> Label] /\ \A q \in Procs \ {p} : pc'[q] = pc[q]
      BY <3>1, Going DEF Label
    <3>6. Works(p)'
      BY <3>1, <3>2, <3>3, <3>4, <3>5 DEF Works, Command, rowVars
    <3>7. Holds(p)'
      BY <3>1, <3>3, <3>5, <3>6 DEF Holds
    <3> QED
      BY <1>0, <3>1, <3>2, <3>3, <3>5, <3>7, KeepStep
  <2> QED
    BY <2>1, <2>2
<1>11. ASSUME NEW p \in Procs, SubmitRun(p) PROVE TasksInv'
  <2>1. PICK j \in Jobs : /\ QueueRow(j)
                          /\ runOf' = [runOf EXCEPT ![j] = [task |-> Mine(p), revision |-> me[p].row.revision]]
    BY <1>11 DEF SubmitRun
  <2>2. pc[p] = "submit" /\ ~Busy(Mine(p)) /\ Leave(p) /\ UNCHANGED <<task, origin, sysVars, faults>>
    BY <1>11 DEF SubmitRun
  <2>3. Mine(p) \in Tasks /\ Known(Mine(p)) /\ me[p].row = task[Mine(p)] /\ task[Mine(p)] \in Row
    BY ZenonT(40), <1>0, <2>2, OthersIdle DEF Holds, Works, MayRun, Known, Exists
  <2>4. [task |-> Mine(p), revision |-> me[p].row.revision] \in Run
    BY <2>3 DEF Run, Row
  <2>5. Move(j, "queued") /\ state[j] = "absent" /\ state' \in [Jobs -> JobState]
    BY <1>0, <2>1 DEF QueueRow, Move, JobState
  <2>6. TypeOK'
    BY <1>0, <2>1, <2>2, <2>4, <2>5, Leaving DEF TypeOK, Label, Local, sysVars
  <2>7. /\ RunsInv'
        /\ \A k \in Jobs : state[k] = "succeeded" => state'[k] = "succeeded" /\ runOf'[k] = runOf[k]
    BY <2>1, <2>2, <2>3, <2>5, <2>6, RunsStep DEF JobState
  <2>8. ASSUME NEW t \in Tasks, t = Mine(p) PROVE PerTask(t)'
    <3>1. PerTask(t) /\ \A q \in Procs : pc[q] \notin {"start", "undo", "stop"}
      BY <1>0, <2>2, <2>8, OthersIdle
    <3>2. (Exists(t)' <=> Exists(t)) /\ (Tested(t) => Tested(t)')
      BY <2>2, <2>7 DEF Exists, Tested
    <3>3. Agree(t)'
      BY <2>2, <3>1, <3>2 DEF PerTask, Agree, sysVars
    <3>4. Exists(t)' => ~task'[t].deleted
      BY <2>2, <2>3, <2>8 DEF Known, Exists
    <3> QED
      BY <2>2, <3>1, <3>2, <3>3, <3>4 DEF PerTask, sysVars
  <2> QED
    BY <2>2, <2>3, <2>6, <2>7, <2>8, Leaving, OthersIdle, HolderStep DEF sysVars
\* The other steps of a command change one task's row, files or timer.
<1>12. ASSUME NEW p \in Procs, pc[p] # "idle", NEW t \in Tasks, t = Mine(p),
              UNCHANGED <<state, runOf, origin, firing>>,
              RowMoves(t), FilesMove(t), TimerMoves(t),
              pc' \in [Procs -> Label], me' \in [Procs -> Local], lock' \in {p, None},
              faults' \in Seq({"kill", "systemctl"}), Len(faults') <= MaxFaults,
              faults' = <<>> => faults = <<>>, "kill" \notin ToSet(faults') => "kill" \notin ToSet(faults),
              \A q \in Procs \ {p} : pc'[q] = pc[q] /\ me'[q] = me[q],
              me'[p].task \in {t, None}, Holds(p)', PerTask(t)'
       PROVE  TasksInv'
  <2>1. TypeOK'
    BY <1>0, <1>12 DEF TypeOK, Label, Local, RowMoves, FilesMove, TimerMoves
  <2>2. \A u \in Tasks \ {t} : task'[u] = task[u] /\ units'[u] = units[u] /\ timerOn'[u] = timerOn[u]
    BY <1>12 DEF RowMoves, FilesMove, TimerMoves
  <2> QED
    BY <1>1, <1>12, <2>1, <2>2, HolderStep
\* What a step finds at its task, and what unchanged variables are.
<1>13. ASSUME NEW t \in Tasks
       PROVE  /\ UNCHANGED task => RowMoves(t)
              /\ UNCHANGED units => FilesMove(t)
              /\ UNCHANGED timerOn => TimerMoves(t)
              /\ \A row \in Row : task' = [task EXCEPT ![t] = row] => RowMoves(t)
              /\ \A files \in SUBSET {"service", "timer"} : units' = [units EXCEPT ![t] = files] => FilesMove(t)
              /\ \A on \in BOOLEAN : timerOn' = [timerOn EXCEPT ![t] = on] => TimerMoves(t)
              /\ Known(t) => task[t] \in Row
              /\ \A row \in Row : row # None
  <2>1. (UNCHANGED task => RowMoves(t)) /\ \A row \in Row : task' = [task EXCEPT ![t] = row] => RowMoves(t)
    BY <1>0 DEF RowMoves
  <2>2. /\ UNCHANGED units => FilesMove(t)
        /\ \A files \in SUBSET {"service", "timer"} : units' = [units EXCEPT ![t] = files] => FilesMove(t)
    BY <1>0 DEF FilesMove
  <2>3. (UNCHANGED timerOn => TimerMoves(t)) /\ \A on \in BOOLEAN : timerOn' = [timerOn EXCEPT ![t] = on] => TimerMoves(t)
    BY <1>0 DEF TimerMoves
  <2>4. (Known(t) => task[t] \in Row) /\ \A row \in Row : row # None
    BY <1>0, NoneAssumption DEF Known, Exists
  <2> QED
    BY <2>1, <2>2, <2>3, <2>4
<1>14. ASSUME NEW t \in Tasks, Tested(t), UNCHANGED <<state, runOf>>, task'[t].revision = task[t].revision
       PROVE  Tested(t)'
  BY <1>14 DEF Tested
\* save().
<1>15. ASSUME NEW p \in Procs, Add(p) PROVE TasksInv'
  <2>1. PICK t \in Tasks : t = Mine(p)
    BY <1>15, OthersIdle DEF Add, At
  <2>2. /\ pc[p] = "read" /\ Leave(p) /\ UNCHANGED <<state, runOf, origin, sysVars, faults>>
        /\ task' = IF Exists(t) THEN task ELSE [task EXCEPT ![t] = NewRow]
        /\ \A q \in Procs : pc[q] \notin {"start", "undo", "stop"}
    BY <1>15, <2>1, OthersIdle DEF Add, At
  <2>3. CASE Exists(t)
    BY <1>9, <2>2, <2>3 DEF rowVars
  <2>4. CASE ~Exists(t)
    <3>1. NewRow \in Row /\ task' = [task EXCEPT ![t] = NewRow] /\ task'[t] = NewRow
      BY <1>0, <2>2, <2>4, BoundAssumption DEF NewRow, Row
    <3>2. ~timerOn[t] \/ faults # <<>>
      BY <1>0, <2>2, <2>4 DEF PerTask, Agree
    <3>3. PerTask(t)'
      BY <1>0, <2>2, <3>1, <3>2 DEF PerTask, Agree, NewRow, sysVars
    <3> QED
      BY <1>0, <1>12, <1>13, <2>1, <2>2, <3>1, <3>3, Leaving, OthersIdle DEF sysVars
  <2> QED
    BY <2>3, <2>4
<1>16. ASSUME NEW p \in Procs, Edit(p) PROVE TasksInv'
  <2>1. PICK t \in Tasks : t = Mine(p)
    BY <1>16, OthersIdle DEF Edit, At
  <2>2. /\ pc[p] = "read" /\ Leave(p) /\ UNCHANGED <<state, runOf, origin, sysVars, faults>>
        /\ \A q \in Procs : pc[q] \notin {"start", "undo", "stop"}
    BY <1>16, <2>1, OthersIdle DEF Edit, At
  <2>3. CASE UNCHANGED task
    BY <1>9, <2>2, <2>3 DEF rowVars
  <2>4. CASE ~UNCHANGED task
    <3>1. /\ Known(t) /\ ~task[t].enabled /\ task[t].revision < MaxRevision
          /\ task' = [task EXCEPT ![t].revision = @ + 1]
      BY <1>16, <2>1, <2>4 DEF Edit, Editable
    <3> DEFINE row == [task[t] EXCEPT !.revision = @ + 1]
    <3>2. row \in Row /\ ~row.enabled /\ row.deleted = task[t].deleted
      <4>1. task[t] \in Row
        BY <1>13, <3>1
      <4>2. task[t].revision + 1 \in 1..MaxRevision
        BY <3>1, <4>1, BoundAssumption DEF Row
      <4> QED
        BY <3>1, <4>1, <4>2 DEF Row
    <3>3. task' = [task EXCEPT ![t] = row] /\ task'[t] = row
      BY <1>0, <3>1
    <3> HIDE DEF row
    <3>4. ~timerOn[t] \/ faults # <<>>
      BY <1>0, <2>2, <3>1 DEF PerTask, Agree
    <3>5. ~task'[t].deleted /\ ~task'[t].enabled
      BY <3>1, <3>2, <3>3 DEF Known
    <3>6. PerTask(t)'
      BY <1>0, <2>2, <3>4, <3>5 DEF PerTask, Agree, sysVars
    <3> QED
      BY <1>0, <1>12, <1>13, <2>1, <2>2, <3>2, <3>3, <3>6, Leaving, OthersIdle DEF sysVars
  <2> QED
    BY <2>3, <2>4
\* enable().
<1>17. ASSUME NEW p \in Procs, CheckEnable(p) PROVE TasksInv'
  <2>1. CASE Leave(p)
    BY <1>9, <1>17, <2>1 DEF CheckEnable, At
  <2>2. CASE ~Leave(p)
    <3>1. PICK t \in Tasks : t = Mine(p)
      BY <1>17, OthersIdle DEF CheckEnable, At
    <3>2. /\ pc[p] = "read" /\ me[p].command = "enable" /\ Known(t) /\ Tested(t) /\ Goto(p, "service")
          /\ UNCHANGED <<rowVars, sysVars, faults, lock, me>>
      BY <1>17, <2>2, <3>1 DEF CheckEnable, At
    <3>3. Known(t)' /\ Tested(t)' /\ Mine(p)' = t
      BY <1>14, <3>1, <3>2 DEF Known, Exists, Mine, rowVars
    <3>4. /\ pc' \in [Procs -> Label] /\ pc'[p] = "service" /\ \A q \in Procs \ {p} : pc'[q] = pc[q]
          /\ lock = p
      BY <3>2, Going DEF Label
    <3>5. Works(p)' /\ Enabling(p)'
      BY <3>2, <3>3, <3>4 DEF Works, Enabling, Command
    <3>6. Holds(p)'
      BY <3>2, <3>4, <3>5 DEF Holds
    <3> QED
      BY <1>0, <3>1, <3>2, <3>4, <3>6, KeepStep DEF Mine
  <2> QED
    BY <2>1, <2>2
<1>18. ASSUME NEW p \in Procs, pc[p] \in {"service", "timer", "set", "start", "undo"}
              \/ (pc[p] = "reload" /\ me[p].command = "enable")
       PROVE  /\ Enabling(p) /\ me[p].command = "enable" /\ Known(Mine(p)) /\ Tested(Mine(p))
              /\ Mine(p) \in Tasks /\ lock = p
  BY <1>0, <1>18, OthersIdle DEF Holds, Works, Enabling
<1>19. ASSUME NEW p \in Procs, WriteUnit(p) PROVE TasksInv'
  <2>1. PICK t \in Tasks : t = Mine(p)
    BY <1>18, <1>19 DEF WriteUnit
  <2> DEFINE next  == IF pc[p] = "service" THEN "timer" ELSE "reload"
             files == units[t] \cup {pc[p]}
  <2>2. /\ pc[p] \in {"service", "timer"} /\ units' = [units EXCEPT ![t] = files]
        /\ Goto(p, next) /\ UNCHANGED <<rowVars, timerOn, firing, lock, me, faults>>
        /\ me[p].command = "enable" /\ Known(t) /\ Tested(t) /\ lock = p
    BY <1>18, <1>19, <2>1 DEF WriteUnit
  <2>3. files \in SUBSET {"service", "timer"} /\ units'[t] = files /\ next \in Label
    BY <1>0, <2>2 DEF Label
  <2>4. pc' \in [Procs -> Label] /\ pc'[p] = next /\ \A q \in Procs \ {p} : pc'[q] = pc[q]
    BY <2>2, <2>3, Going
  <2>5. Known(t)' /\ Tested(t)' /\ Mine(p)' = t
    BY <1>14, <2>1, <2>2 DEF Known, Exists, Mine, rowVars
  <2>6. Works(p)' /\ Enabling(p)'
    BY <2>2, <2>3, <2>4, <2>5 DEF Works, Enabling, Command
  <2>7. Holds(p)'
    BY <2>2, <2>4, <2>6 DEF Holds
  <2>8. PerTask(t)'
    <3>1. \A q \in Procs : pc[q] \notin {"start", "undo", "stop"}
      BY <2>2, OthersIdle
    <3>2. PerTask(t)
      BY <1>0
    <3>3. Agree(t)'
      BY <2>2, <3>1, <3>2 DEF PerTask, Agree, Exists, rowVars
    <3> QED
      BY <2>2, <2>3, <2>5, <3>2, <3>3 DEF PerTask, Known, Exists, rowVars
  <2> HIDE DEF next, files
  <2> QED
    BY <1>0, <1>12, <1>13, <2>1, <2>2, <2>3, <2>4, <2>7, <2>8 DEF rowVars, Mine
<1>20. ASSUME NEW p \in Procs, pc[p] = "reload", Fault("systemctl"), Leave(p), UNCHANGED <<rowVars, sysVars>>
       PROVE  TasksInv'
  <2>1. /\ faults' \in Seq({"kill", "systemctl"}) /\ Len(faults') <= MaxFaults /\ faults' # <<>>
        /\ "kill" \notin ToSet(faults') => "kill" \notin ToSet(faults)
    BY <1>0, <1>20, FaultsGrow
  <2> QED
    BY <1>20, <2>1, Leaving, OthersIdle, KeepStep
<1>21. ASSUME NEW p \in Procs, ReloadForEnable(p) PROVE TasksInv'
  <2>1. CASE Leave(p) /\ Fault("systemctl")
    BY <1>20, <1>21, <2>1 DEF ReloadForEnable, At
  <2>2. CASE ~(Leave(p) /\ Fault("systemctl"))
    <3>1. PICK t \in Tasks : t = Mine(p)
      BY <1>21, OthersIdle DEF ReloadForEnable, At
    <3>2. /\ pc[p] = "reload" /\ me[p].command = "enable" /\ Goto(p, "set")
          /\ UNCHANGED <<rowVars, sysVars, faults, lock, me>>
      BY <1>21, <2>2, <3>1 DEF ReloadForEnable, At
    <3>3. Known(t) /\ Tested(t) /\ "timer" \in units[t] /\ lock = p
      BY <1>18, <3>1, <3>2 DEF Enabling
    <3>4. Known(t)' /\ Tested(t)' /\ Mine(p)' = t
      BY <1>14, <3>1, <3>2, <3>3 DEF Known, Exists, Mine, rowVars
    <3>5. pc' \in [Procs -> Label] /\ pc'[p] = "set" /\ \A q \in Procs \ {p} : pc'[q] = pc[q]
      BY <3>2, Going DEF Label
    <3>6. Works(p)' /\ Enabling(p)'
      BY <3>2, <3>3, <3>4, <3>5 DEF Works, Enabling, Command, sysVars
    <3>7. Holds(p)'
      BY <3>2, <3>5, <3>6 DEF Holds
    <3> QED
      BY <1>0, <3>1, <3>2, <3>3, <3>5, <3>7, KeepStep DEF Mine
  <2> QED
    BY <2>1, <2>2
<1>22. ASSUME NEW t \in Tasks, Known(t), NEW b \in BOOLEAN, task' = [task EXCEPT ![t].enabled = b]
       PROVE  \E row \in Row : /\ task' = [task EXCEPT ![t] = row] /\ task'[t] = row
                               /\ row.enabled = b /\ row.revision = task[t].revision /\ ~row.deleted
  <2> DEFINE row == [task[t] EXCEPT !.enabled = b]
  <2>1. row \in Row /\ row.enabled = b /\ row.revision = task[t].revision /\ ~row.deleted
    BY <1>13, <1>22 DEF Row, Known
  <2>2. task' = [task EXCEPT ![t] = row] /\ task'[t] = row
    BY <1>0, <1>22
  <2> QED
    BY <2>1, <2>2
<1>23. ASSUME NEW p \in Procs, SetEnabled(p) PROVE TasksInv'
  <2>1. PICK t \in Tasks : t = Mine(p)
    BY <1>18, <1>23 DEF SetEnabled
  <2>2. /\ pc[p] = "set" /\ task' = [task EXCEPT ![t].enabled = TRUE] /\ Goto(p, "start")
        /\ UNCHANGED <<state, runOf, origin, sysVars, lock, me, faults>>
        /\ me[p].command = "enable" /\ Known(t) /\ Tested(t) /\ "timer" \in units[t] /\ lock = p
    BY <1>18, <1>23, <2>1 DEF SetEnabled, Enabling
  <2>3. PICK row \in Row : /\ task' = [task EXCEPT ![t] = row] /\ task'[t] = row
                           /\ row.enabled /\ row.revision = task[t].revision /\ ~row.deleted
    BY <1>22, <2>2
  <2>4. pc' \in [Procs -> Label] /\ pc'[p] = "start" /\ \A q \in Procs \ {p} : pc'[q] = pc[q]
    BY <2>2, Going DEF Label
  <2>5. Known(t)' /\ Tested(t)' /\ Mine(p)' = t /\ task'[t].enabled
    BY <1>13, <1>14, <2>1, <2>2, <2>3 DEF Known, Exists, Mine
  <2>6. Works(p)' /\ Enabling(p)'
    BY <2>2, <2>4, <2>5 DEF Works, Enabling, Command, sysVars
  <2>7. Holds(p)'
    BY <2>2, <2>4, <2>6 DEF Holds
  <2>8. PerTask(t)'
    BY <1>0, <2>2, <2>4, <2>5 DEF PerTask, Agree, Known, sysVars
  <2> QED
    BY <1>0, <1>12, <1>13, <2>1, <2>2, <2>3, <2>4, <2>7, <2>8 DEF sysVars, Mine
<1>24. ASSUME NEW p \in Procs, StartTimer(p) PROVE TasksInv'
  <2>1. PICK t \in Tasks : t = Mine(p)
    BY <1>18, <1>24 DEF StartTimer
  <2>2. /\ pc[p] = "start" /\ timerOn' = [timerOn EXCEPT ![t] = TRUE] /\ Leave(p)
        /\ UNCHANGED <<rowVars, units, firing, faults>>
        /\ Known(t) /\ Tested(t) /\ "timer" \in units[t] /\ task[t].enabled
    BY <1>18, <1>24, <2>1 DEF StartTimer, Enabling
  <2>3. PerTask(t)'
    BY <1>0, <1>14, <2>2 DEF PerTask, Agree, Known, Exists, rowVars
  <2> QED
    BY <1>0, <1>12, <1>13, <2>1, <2>2, <2>3, Leaving, OthersIdle DEF rowVars
<1>25. ASSUME NEW p \in Procs, StartTimerFails(p) PROVE TasksInv'
  <2>1. PICK t \in Tasks : t = Mine(p)
    BY <1>18, <1>25 DEF StartTimerFails
  <2>2. /\ pc[p] = "start" /\ Fault("systemctl") /\ Goto(p, "undo")
        /\ UNCHANGED <<rowVars, units, firing, lock, me>>
        /\ me[p].command = "enable" /\ Known(t) /\ Tested(t) /\ "timer" \in units[t] /\ task[t].enabled /\ lock = p
    BY <1>18, <1>25, <2>1 DEF StartTimerFails, Enabling
  <2>3. PICK on \in BOOLEAN : timerOn' = [timerOn EXCEPT ![t] = on]
    BY <1>0, <1>25, <2>1 DEF StartTimerFails
  <2>4. /\ faults' \in Seq({"kill", "systemctl"}) /\ Len(faults') <= MaxFaults /\ faults' # <<>>
        /\ "kill" \notin ToSet(faults') => "kill" \notin ToSet(faults)
    BY <1>0, <2>2, FaultsGrow
  <2>5. pc' \in [Procs -> Label] /\ pc'[p] = "undo" /\ \A q \in Procs \ {p} : pc'[q] = pc[q]
    BY <2>2, Going DEF Label
  <2>6. Known(t)' /\ Tested(t)' /\ Mine(p)' = t
    BY <1>14, <2>1, <2>2 DEF Known, Exists, Mine, rowVars
  <2>7. Works(p)' /\ Enabling(p)'
    BY <2>2, <2>4, <2>5, <2>6 DEF Works, Enabling, Command, rowVars
  <2>8. Holds(p)'
    BY <2>2, <2>5, <2>7 DEF Holds
  <2>9. PerTask(t)'
    BY <1>0, <2>2, <2>4, <2>5, <2>6 DEF PerTask, Agree, Known, rowVars
  <2> QED
    BY <1>0, <1>12, <1>13, <2>1, <2>2, <2>3, <2>4, <2>5, <2>8, <2>9 DEF rowVars, Mine
<1>26. ASSUME NEW p \in Procs, UndoEnabled(p) PROVE TasksInv'
  <2>1. PICK t \in Tasks : t = Mine(p)
    BY <1>18, <1>26 DEF UndoEnabled
  <2>2. /\ pc[p] = "undo" /\ task' = [task EXCEPT ![t].enabled = FALSE] /\ Leave(p)
        /\ UNCHANGED <<state, runOf, origin, sysVars, faults>> /\ Known(t) /\ faults # <<>>
    BY <1>18, <1>26, <2>1 DEF UndoEnabled, Enabling
  <2>3. PICK row \in Row : /\ task' = [task EXCEPT ![t] = row] /\ task'[t] = row /\ ~row.enabled /\ ~row.deleted
    BY <1>22, <2>2
  <2>4. PerTask(t)'
    BY <1>0, <2>2, <2>3 DEF PerTask, Agree, sysVars
  <2> QED
    BY <1>0, <1>12, <1>13, <2>1, <2>2, <2>3, <2>4, Leaving, OthersIdle DEF sysVars
\* pause() and remove.
<1>27. ASSUME NEW p \in Procs, ClearEnabled(p) PROVE TasksInv'
  <2>1. CASE UNCHANGED task /\ Leave(p)
    BY <1>9, <1>27, <2>1 DEF ClearEnabled, rowVars
  <2>2. CASE ~(UNCHANGED task /\ Leave(p))
    <3>1. PICK t \in Tasks : t = Mine(p)
      BY <1>27, OthersIdle DEF ClearEnabled
    <3>2. /\ pc[p] = "read" /\ me[p].command \in {"pause", "remove"} /\ Known(t) /\ Goto(p, "stop")
          /\ task' = [task EXCEPT ![t].enabled = FALSE]
          /\ UNCHANGED <<state, runOf, origin, sysVars, faults, lock, me>>
      BY <1>27, <2>2, <3>1 DEF ClearEnabled
    <3>3. PICK row \in Row : /\ task' = [task EXCEPT ![t] = row] /\ task'[t] = row /\ ~row.enabled /\ ~row.deleted
      BY <1>22, <3>2
    <3>4. pc' \in [Procs -> Label] /\ pc'[p] = "stop" /\ (\A q \in Procs \ {p} : pc'[q] = pc[q]) /\ lock = p
      BY <3>2, Going DEF Label
    <3>5. Known(t)' /\ Mine(p)' = t /\ ~task'[t].enabled
      BY <1>13, <3>1, <3>2, <3>3 DEF Known, Exists, Mine
    <3>6. Works(p)' /\ Removing(p)'
      BY <3>2, <3>4, <3>5 DEF Works, Removing, Command
    <3>7. Holds(p)'
      BY <3>2, <3>4, <3>6 DEF Holds
    <3>8. PerTask(t)'
      BY <1>0, <3>2, <3>3, <3>4, <3>5 DEF PerTask, Agree, sysVars
    <3> QED
      BY <1>0, <1>12, <1>13, <3>1, <3>2, <3>3, <3>4, <3>7, <3>8 DEF sysVars, Mine
  <2> QED
    BY <2>1, <2>2
<1>28. ASSUME NEW p \in Procs, pc[p] \in {"stop", "unlink timer", "unlink service", "delete"}
              \/ (pc[p] = "reload" /\ me[p].command = "remove")
       PROVE  /\ Removing(p) /\ me[p].command \in {"pause", "remove"} /\ (pc[p] # "stop" => me[p].command = "remove")
              /\ Mine(p) \in Tasks /\ lock = p /\ Known(Mine(p)) /\ ~task[Mine(p)].enabled
              /\ \A q \in Procs : pc[q] \notin {"start", "undo"}
  BY ZenonT(40), <1>0, <1>28, OthersIdle DEF Holds, Works, Removing
<1>29. ASSUME NEW p \in Procs, StopTimer(p) PROVE TasksInv'
  <2>1. PICK t \in Tasks : t = Mine(p)
    BY <1>28, <1>29 DEF StopTimer
  <2>2. /\ pc[p] = "stop" /\ AfterStop(p) /\ UNCHANGED <<rowVars, units, firing, faults>>
        /\ me[p].command \in {"pause", "remove"} /\ Known(t) /\ ~task[t].enabled /\ lock = p
    BY <1>28, <1>29, <2>1 DEF StopTimer
  <2>3. timerOn' = [timerOn EXCEPT ![t] = FALSE] /\ timerOn'[t] = FALSE
    BY <1>0, <1>29, <2>1 DEF StopTimer, PerTask
  <2>4. PerTask(t)'
    BY <1>0, <2>2, <2>3 DEF PerTask, Agree, Known, Exists, rowVars
  <2>5. CASE me[p].command = "remove"
    <3>1. Goto(p, "unlink timer") /\ UNCHANGED <<lock, me>>
      BY <2>2, <2>5 DEF AfterStop
    <3>2. pc' \in [Procs -> Label] /\ pc'[p] = "unlink timer" /\ (\A q \in Procs \ {p} : pc'[q] = pc[q])
      BY <2>2, <3>1, Going DEF Label
    <3>3. Known(t)' /\ Mine(p)' = t /\ ~task'[t].enabled
      BY <2>1, <2>2, <3>1 DEF Known, Exists, Mine, rowVars
    <3>4. Works(p)' /\ Removing(p)'
      BY <2>2, <2>3, <2>5, <3>1, <3>2, <3>3 DEF Works, Removing, Command
    <3>5. Holds(p)'
      BY <2>5, <3>1, <3>2, <3>4 DEF Holds
    <3> QED
      BY <1>0, <1>12, <1>13, <2>1, <2>2, <2>3, <2>4, <3>1, <3>2, <3>5 DEF rowVars, Mine
  <2>6. CASE me[p].command # "remove"
    BY <1>0, <1>12, <1>13, <2>1, <2>2, <2>3, <2>4, <2>6, Leaving, OthersIdle DEF AfterStop, rowVars
  <2> QED
    BY <2>5, <2>6
<1>30. ASSUME NEW p \in Procs, StopTimerFails(p) PROVE TasksInv'
  <2>1. PICK t \in Tasks : t = Mine(p)
    BY <1>28, <1>30 DEF StopTimerFails
  <2>2. /\ pc[p] = "stop" /\ Fault("systemctl") /\ Leave(p) /\ UNCHANGED <<rowVars, units, firing>>
        /\ Known(t) /\ ~task[t].enabled /\ "timer" \in units[t]
    BY <1>28, <1>30, <2>1 DEF StopTimerFails
  <2>3. PICK on \in BOOLEAN : timerOn' = [timerOn EXCEPT ![t] = on]
    BY <1>0, <1>30, <2>1 DEF StopTimerFails
  <2>4. /\ faults' \in Seq({"kill", "systemctl"}) /\ Len(faults') <= MaxFaults /\ faults' # <<>>
        /\ "kill" \notin ToSet(faults') => "kill" \notin ToSet(faults)
    BY <1>0, <2>2, FaultsGrow
  <2>5. PerTask(t)'
    BY <1>0, <2>2, <2>4 DEF PerTask, Agree, Known, Exists, rowVars
  <2> QED
    BY <1>0, <1>12, <1>13, <2>1, <2>2, <2>3, <2>4, <2>5, Leaving, OthersIdle DEF rowVars
<1>31. ASSUME NEW p \in Procs, UnlinkUnit(p) PROVE TasksInv'
  <2>1. PICK t \in Tasks : t = Mine(p)
    BY <1>28, <1>31 DEF UnlinkUnit
  <2> DEFINE next  == IF pc[p] = "unlink timer" THEN "unlink service" ELSE "reload"
             files == units[t] \ {IF pc[p] = "unlink timer" THEN "timer" ELSE "service"}
  <2>2. /\ pc[p] \in {"unlink timer", "unlink service"} /\ units' = [units EXCEPT ![t] = files]
        /\ Goto(p, next) /\ UNCHANGED <<rowVars, timerOn, firing, lock, me, faults>>
        /\ me[p].command = "remove" /\ Known(t) /\ ~task[t].enabled /\ ~timerOn[t] /\ lock = p
        /\ pc[p] = "unlink service" => "timer" \notin units[t]
    BY <1>28, <1>31, <2>1 DEF UnlinkUnit, Removing
  <2>3. files \in SUBSET {"service", "timer"} /\ units'[t] = files /\ next \in Label /\ "timer" \notin files
        /\ (next = "reload" => files = {}) /\ next \in {"unlink service", "reload"}
    <3>1. units[t] \in SUBSET {"service", "timer"}
      BY <1>0
    <3>2. units'[t] = files
      BY <1>0, <2>2
    <3>3. CASE pc[p] = "unlink timer"
      BY <3>1, <3>2, <3>3 DEF Label
    <3>4. CASE pc[p] = "unlink service"
      BY ZenonT(40), <2>2, <3>1, <3>2, <3>4 DEF Label
    <3> QED
      BY <2>2, <3>3, <3>4
  <2>4. pc' \in [Procs -> Label] /\ pc'[p] = next /\ \A q \in Procs \ {p} : pc'[q] = pc[q]
    BY <2>2, <2>3, Going
  <2>5. Known(t)' /\ Mine(p)' = t /\ ~task'[t].enabled /\ ~timerOn'[t]
    BY <2>1, <2>2 DEF Known, Exists, Mine, rowVars
  <2> HIDE DEF next, files
  <2>6. Works(p)' /\ Removing(p)'
    BY <2>2, <2>3, <2>4, <2>5 DEF Works, Removing, Command
  <2>7. Holds(p)'
    BY <2>2, <2>4, <2>6 DEF Holds
  <2>8. PerTask(t)'
    BY <1>0, <2>2, <2>5 DEF PerTask, Agree, Known
  <2> QED
    BY <1>0, <1>12, <1>13, <2>1, <2>2, <2>3, <2>4, <2>7, <2>8 DEF rowVars, Mine
<1>32. ASSUME NEW p \in Procs, ReloadForRemove(p) PROVE TasksInv'
  <2>1. CASE Leave(p) /\ Fault("systemctl")
    BY <1>20, <1>32, <2>1 DEF ReloadForRemove, At
  <2>2. CASE ~(Leave(p) /\ Fault("systemctl"))
    <3>1. PICK t \in Tasks : t = Mine(p)
      BY <1>32, OthersIdle DEF ReloadForRemove, At
    <3>2. /\ pc[p] = "reload" /\ me[p].command = "remove" /\ Goto(p, "delete")
          /\ UNCHANGED <<rowVars, sysVars, faults, lock, me>>
      BY <1>32, <2>2, <3>1 DEF ReloadForRemove, At
    <3>3. Known(t) /\ Removing(p) /\ lock = p
      BY <1>28, <3>1, <3>2
    <3>4. pc' \in [Procs -> Label] /\ pc'[p] = "delete" /\ \A q \in Procs \ {p} : pc'[q] = pc[q]
      BY <3>2, Going DEF Label
    <3>5. Known(t)' /\ Mine(p)' = t
      BY <3>1, <3>2, <3>3 DEF Known, Exists, Mine, rowVars
    <3>6. Removing(p)'
      BY <3>1, <3>2, <3>3, <3>5 DEF Removing, rowVars, sysVars
    <3>7. Works(p)'
      BY <3>2, <3>3, <3>4, <3>5 DEF Works, Command
    <3>8. Holds(p)'
      BY <3>2, <3>4, <3>6, <3>7 DEF Holds
    <3> QED
      BY <1>0, <3>1, <3>2, <3>3, <3>4, <3>8, KeepStep DEF Mine
  <2> QED
    BY <2>1, <2>2
<1>33. ASSUME NEW p \in Procs, Delete(p) PROVE TasksInv'
  <2>1. PICK t \in Tasks : t = Mine(p)
    BY <1>28, <1>33 DEF Delete
  <2>2. /\ pc[p] = "delete" /\ task' = [task EXCEPT ![t].deleted = TRUE] /\ Leave(p)
        /\ UNCHANGED <<state, runOf, origin, sysVars, faults>>
        /\ Known(t) /\ ~task[t].enabled /\ ~timerOn[t] /\ units[t] = {}
    BY <1>28, <1>33, <2>1 DEF Delete, Removing
  <2> DEFINE row == [task[t] EXCEPT !.deleted = TRUE]
  <2>3. row \in Row /\ ~row.enabled
    BY <1>13, <2>2 DEF Row
  <2>4. task' = [task EXCEPT ![t] = row] /\ task'[t] = row
    BY <1>0, <2>2
  <2> HIDE DEF row
  <2>5. \A q \in Procs : Mine(q)' = t => pc'[q] = "idle"
    BY <2>2, Leaving, OthersIdle
  <2>6. PerTask(t)'
    BY <1>0, <2>2, <2>3, <2>4, <2>5 DEF PerTask, Agree, sysVars
  <2> QED
    BY <1>0, <1>12, <1>13, <2>1, <2>2, <2>3, <2>4, <2>6, Leaving, OthersIdle DEF sysVars
<1>34. CASE UNCHANGED vars
  BY <1>0, <1>4, <1>34 DEF vars, sysVars
<1>35. ASSUME NEW p \in Procs, Save(p) \/ Enqueue(p) \/ Enable(p) \/ WriteUnit(p) \/ Pause(p) \/ Kill(p) PROVE TasksInv'
  BY <1>3, <1>9, <1>10, <1>11, <1>15, <1>16, <1>17, <1>19, <1>21, <1>23, <1>24, <1>25, <1>26, <1>27, <1>29, <1>30,
     <1>31, <1>32, <1>33, <1>35 DEF Save, Enqueue, Enable, Pause
<1>36. ASSUME NEW p \in Procs, NEW t \in Tasks, StartFire(p, t) PROVE TasksInv'
  BY <1>2, <1>36 DEF Command
<1> QED
  BY <1>2, <1>5, <1>7, <1>8, <1>34, <1>35, <1>36 DEF Next

\* No row, no job, no command at first.
LEMMA TasksStart == Init => TasksInv
<1> SUFFICES ASSUME Init PROVE TasksInv
  OBVIOUS
<1>1. TypeOK
  <2>1. Idle \in Local /\ "absent" \in JobState
    BY DEF Idle, Local, JobState
  <2>2. faults \in Seq({"kill", "systemctl"}) /\ Len(faults) <= MaxFaults
    BY BoundAssumption DEF Init
  <2> QED
    BY <2>1, <2>2 DEF Init, TypeOK, Local
<1>2. RunsInv
  BY DEF Init, RunsInv, NoOverlap, Active
<1>3. \A p \in Procs : Holds(p)
  BY NoneAssumption DEF Init, Holds, Works, Idle, Command
<1>4. \A t \in Tasks : PerTask(t)
  BY DEF Init, PerTask, Agree, Exists
<1> QED
  BY <1>1, <1>2, <1>3, <1>4 DEF TasksInv

-----------------------------------------------------------------------------
\* TypeOK for any tasks, jobs, processes, edits and faults.
THEOREM TasksTypes == Spec => []TypeOK
<1>1. TasksInv => TypeOK
  BY DEF TasksInv
<1> QED
  BY <1>1, TasksStart, TasksStep, PTL DEF Spec

\* EnabledWasTested: save(), enable() and pause() never leave an enabled row
\* whose definition has not been run to success as it stands.
THEOREM OnlyTestedIsEnabled == Spec => []EnabledWasTested
<1>1. TasksInv => EnabledWasTested
  BY DEF TasksInv, PerTask, EnabledWasTested
<1> QED
  BY <1>1, TasksStart, TasksStep, PTL DEF Spec

\* NoOverlap: the transaction of enqueue() links at most one active job to a
\* task, whatever triggers, manual runs and retries race.
THEOREM RunsNeverOverlap == Spec => []NoOverlap
<1>1. TasksInv => NoOverlap
  BY DEF TasksInv, RunsInv
<1> QED
  BY <1>1, TasksStart, TasksStep, PTL DEF Spec

\* RemovedIsQuiet: `tasks remove` ends with no unit file and no timer, and no
\* later command of the task gets past its first read.
THEOREM RemovedStaysQuiet == Spec => []RemovedIsQuiet
<1>1. TasksInv => RemovedIsQuiet
  BY DEF TasksInv, PerTask, RemovedIsQuiet
<1> QED
  BY <1>1, TasksStart, TasksStep, PTL DEF Spec

\* TimerMatchesTable: between commands the enabled column and the systemd
\* timer agree, up to the kills and failures that happened.
THEOREM TimersMatchTheTable == Spec => []TimerMatchesTable
<1>1. TasksInv => TimerMatchesTable
  <2> SUFFICES ASSUME TasksInv, lock = None, NEW t \in Tasks
               PROVE  LET enabled == Exists(t) /\ task[t].enabled IN
                        /\ "kill" \notin ToSet(faults) => (enabled => timerOn[t])
                        /\ faults = <<>> => (timerOn[t] => enabled)
    BY DEF TimerMatchesTable
  <2>1. \A p \in Procs : pc[p] = "idle"
    BY NoneAssumption DEF TasksInv, Holds, Works
  <2> QED
    BY <2>1 DEF TasksInv, PerTask, Agree
<1> QED
  BY <1>1, TasksStart, TasksStep, PTL DEF Spec

\* SubmitsCurrentDefinition: what enqueue() read before ready() is still the
\* saved definition, and enabled for a trigger, when its transaction commits.
THEOREM SubmitsWhatIsSaved == Spec => SubmitsCurrentDefinition
<1>1. TasksInv => \A p \in Procs : pc[p] = "submit" =>
          /\ Known(Mine(p))
          /\ me[p].row.revision = task[Mine(p)].revision
          /\ me[p].command = "_fire" => task[Mine(p)].enabled
  BY DEF TasksInv, Holds, Works, MayRun
<1>2. TasksInv /\ [Next]_vars =>
          [\A p \in Procs : pc[p] = "submit" /\ state' # state /\ pc'[p] = "idle" =>
               /\ Known(Mine(p))
               /\ me[p].row.revision = task[Mine(p)].revision
               /\ me[p].command = "_fire" => task[Mine(p)].enabled]_vars
  BY <1>1
<1> QED
  BY <1>2, TasksStart, TasksStep, PTL DEF Spec, SubmitsCurrentDefinition
=============================================================================
