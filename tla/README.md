# Verification of the Rougarou operator tools

TLA+ models of the parts of Rougarou OS that keep state and act on it while
something else does: the job queue and its worker, scheduled tasks,
notifications, guided updates, backups, the package repository, and the commands
an operator gives by hand: provider choice, optional agents, sudo access and VM
checkpoints. TLC checks
each on a small instance; TLAPS proves, for every instance, each safety property
that a passing run checks. `PROJECT.json` lists every run, the changed
definition that each property catches ("mutants"), the lines each definition
models ("map"), the hazards the properties are for, and the theorems.

To check a module, in this directory:

    tlc -workers 2 -config JobQueueService.cfg MCJobQueue
    tlapm RepositoryProofs.tla

Paths below are relative to `src/`; `L/` is `rootfs/usr/lib/rougarou/`.

## The system

Rougarou is a Debian-based system for one operator and their AI agents. The
program proper is Python in `L/`, behind the command `rougarou`, with systemd
user units that run parts of it.

| Component | State it keeps | Operations | Talks to |
|---|---|---|---|
| Job queue and worker, `L/jobs.py` | SQLite tables `jobs`, `events`, `worker`, `job_acknowledgments`; a log file per job; `worker.lock` | submit, cancel, retry, ack, list/show/logs; the worker: recover, claim, execute, finish | everything below reads or fills its tables; systemd restarts it |
| Scheduled tasks, `L/tasks.py` | tables `scheduled_tasks`, `scheduled_runs`; unit files; `tasks.lock` | add, edit, run, enable, pause, remove, `_fire` | submits to the queue; systemd timers call `_fire` |
| Notifications, `L/notifications.py` | webhook file, cursor file, delivery lock | configure, enable, disable, test, check | reads `events` and health; posts to a webhook; a systemd timer starts it |
| Guided updates, `L/updates.py`, `rougarou-system/update` | metadata generations, `current.json`, `before.json`, `status.json`, a lock | refresh, plan, apply, the pre-unpack hook, status reports | the repository, APT and dpkg, other administrators |
| Backups, `L/backup.py` | `backup.json`, `.backup.lock`, a Restic repository, restore trees | init, create, list, check, restore | copies the queue; Restic |
| Package repository, `scripts/repo.py` | snapshots, immutable pool and by-hash stores, publications, audit records, channel links, a lock | snapshot, promote, sign-flat, verify | clients' APT |
| Provider choice, `L/cli.py` | `config.json`, `credentials.json` | setup, provider, ai | jobs freeze its provider and take its key when they run |
| Optional agents, `L/agent_install.py` | a store directory, a launcher, a lock | install | publishers' downloads; provider offers it |
| Operator access, `rougarou-system/operator-access` | a sudoers grant, a state file, a lock | set, status | sudo; setup offers it |
| Proxmox checkpoints, `deployment/proxmox-checkpoint.py` | a record file, a VM snapshot | capture, create, restore, verify | Proxmox |
| Menus, health, container helper, shell and boot configuration | small configuration files, each replaced by a rename | | |
| Image and package builds, deployment scripts, installer data | none at run time | | |

The behaviours that are hard:

* **Two processes on one file.** Commands in several terminals, systemd
  services and timers share the SQLite database and files. Transactions and
  `flock` order some of their steps; what was read before is used after.
* **Crashes.** Every command may be killed between any two writes. The worker
  never replays what it was running; backups, updates and promotions leave
  half-done files that the next command must recognise.
* **Processes that do as they like.** A job ignores SIGTERM; APT outlives the
  command that started it; a webhook accepts a post and loses the reply.
* **Time between review and action.** A plan is reviewed, a task is tested, a
  channel is verified, and something else changes before the decision is
  carried out.

What makes each component correct is in the table of runs below; each hazard
is in `PROJECT.json` at its line, with the property that would catch it or the
reason why none does.

## Modules

| Module | Models | Composes |
|---|---|---|
| `JobTable` | the states of a job, as every reader of the queue sees them | |
| `QueueContract` | abstract: what the queue promises | `JobTable` |
| `JobQueue` | `L/jobs.py` and `rougarou-worker.service` | |
| `JobQueueProperties` | its invariants, and the refinement of `QueueContract` | `JobQueue`, `QueueContract` |
| `JobQueueProofs` | TLAPS: the queue's invariants | `JobQueueProperties` |
| `JobHistoryProofs` | TLAPS: the event log, and the contract | `JobQueueProofs` |
| `ScheduledTasks` | `L/tasks.py`, next to the queue | `JobTable` |
| `ScheduledTasksProofs` | TLAPS | `ScheduledTasks` |
| `Notifications` | `L/notifications.py`, its service and timer | |
| `NotificationsProofs` | TLAPS | `Notifications` |
| `GuidedUpdates` | `L/updates.py` and the hook | |
| `GuidedUpdatesProofs` | TLAPS | `GuidedUpdates` |
| `Backups` | `L/backup.py`, next to the running queue | |
| `BackupsProofs` | TLAPS | `Backups` |
| `Repository` | `scripts/repo.py` | |
| `RepositoryProofs` | TLAPS | `Repository` |
| `ProviderChoice` | setup, provider and ai of `L/cli.py`, and the AI jobs | |
| `AgentInstall` | `L/agent_install.py` | |
| `OperatorAccess` | `rougarou-system/operator-access`, and `access` in front of it | |
| `ProxmoxCheckpoint` | `deployment/proxmox-checkpoint.py` | |
| `MCOperatorTools` | one run for these four | all four |
| `OperatorToolsProofs` | TLAPS: one section for each of the four | `MCOperatorTools` |
| `MCJobQueue`, `MCScheduledTasks` | symmetry sets and bounds for TLC | |

A process that runs a command has a program counter `pc` and locals (`my`,
`me`, `run`). One step is one SQLite transaction or statement, one atomic
rename, one call of another program, or the reads that lead to a decision; what
lies between two such points touches nothing shared. `lock` is the holder of
the component's `flock`, which the kernel drops with the process. `Kill` or
`Crash` drops the locals and keeps the files.

**JobQueue.** `state`, `cancelRequested`, `ready`, `parent`, `acked`, `events`
and `beat` are columns and tables. A worker goes through
`TakeLock`, `RecoverScan`/`RecoverOne`, `LoopHead`, `Claim` and the steps of
`execute()` (`OpenLog`, `Spawn`, `ReadRequest`, `DecideOutcome`, `DecideKill`,
`PollLive`/`PollDrain`/`PollBreak`, `Reap`, `Finish`) to `Closing` and `Unlock`.
`proc[j]` is the job's process group; `ProcessExits` is its own choice. Workers
in `Managed` run under systemd, which kills their cgroup when they crash; one
started by hand leaves its process behind, as in the code. Deadlines and the
grace after SIGTERM are one flag that may become true at any time
(`TimerExpires`). `stopping` says that the worker was told to stop, and stays
until it is started again (`Start`). The commands `Submit`, `CancelQueued`/`CancelRunning`,
`Acknowledge` and `RetryRead`/`RetrySubmit` run between any two of these.

**ScheduledTasks.** `task` is the row, `runOf` the link in `scheduled_runs`,
`units` and `timerOn` what systemd has. `enable` is `CheckEnable`, `WriteUnit`
(twice), `ReloadForEnable`, `SetEnabled`, `StartTimer` and, if systemctl fails,
`UndoEnabled`; pause and remove run in the opposite order. `Work` and `Retry` are the queue.

**Notifications.** `saved` is the cursor file; `Query` reads at most `Limit`
failures, a page, which is a set of rows taken in the order of their `seq`
(`Page`, `IsNext`); `PostRow`, `PostAlert` deliver, and each is followed by the `Save`
that records it. `ReplyLost` delivers and fails. `ReplaceQueue` puts a restored
queue in place: the host's own older copy, or another host's. `settled` (what
a cursor was set behind) and `posted`, `alerts`, `rises` are history that only
the properties read.

**GuidedUpdates.** A plan is the record its digest is of. `apply` goes through
`FirstCompare`, `WriteBefore`, `WriteStarted`, `Download`, the plan once more,
`SecondCompare`, `AssertFirst`, `StartApt`; then APT runs `Hook`, `Unpack` and
`ConfigurePackages` by itself, and outlives a killed `apply`. `NativeChange`,
`Publish` and `Tick` are everybody else. One package `app` has updates; all
others, and the automatic marks, are `other`.

**Backups.** A snapshot is its tags, the copy of the queue and whether it is
whole. Restic's `tag` stores the snapshot anew
and removes the old one (`TagAdd`, `TagRemove`). A target is the tree of one
restore, in a place that `restore` accepts: in `~/Rougarou-Recovery` or apart from
everything that is backed up (`backup.py:440-450`). Its files come in two steps
(`BeginRestic`, `ResticRestore`), and so does `RECOVERY.json` (`CreateNote`,
`WriteNote`); each may fail between the two, and a Restic that had been started
may finish its work when its command is killed (`ResticGoesOn`). `owned` are
the names under which others made a directory of their own (`OwnTarget`). The live queue is reduced to what a copy of it can break: which
jobs are pending, the enabled schedules, the heartbeat. `LoseHost` leaves the
repository only; `PutInPlace` is the operator, who follows `docs/backups.md`.

**Repository.** A file is named by its digest, so a package stands for its
bytes and an index for the set it lists. `CopyBegin` and `CopyEnd` are the two
ends of `shutil.copyfile()` into the global stores; `Publish` builds, signs
and renames the directory with links to all of both stores; `WriteAudit` and
`Switch` follow. `seen` is every publication clients were ever led to.

**ProviderChoice.** A key is named by the endpoint it was typed for, so that a
key in the wrong process is visible. `Provide`, `ChooseEndpoint`,
`WriteCredentials`, `SaveSelection` are provider(); `FirstLogin`, `SaveSeen`,
`Invite`, `Middle`, `Offer`, `Finish`, `SaveComplete` are setup(), which offers
to call provider() in its middle; `Ai` reads the selection and `Launch` the key. A command writes back the
configuration that it *held*. `Submit` freezes a provider in a job and `RunJob`
looks for its key later. `latest` and `unsaved` remember which selection was
saved, `overlapped` whether two terminals ever held a configuration at once.

**AgentInstall.** `target` is the directory of each version, `launcher` what
`~/.local/bin` names. After `Check` comes the download, then `Reserve`,
`PlaceBinary`, `Publish`, or `InstallFails` and `Undo`, which may fail itself
(`UndoFails`). `Interrupted` is Ctrl-C between mkdir() and the `try` block. `owned` is what
the operator made, `kept` the versions whose directory may be there: published,
or left by a kill, by `Interrupted` or by `UndoFails`.

**OperatorAccess.** `grant` and `state` are the two files; `Choose` looks without
the lock, `AccessLock` again with it, `WriteGrant`, `WriteState` and `Report`
follow, or `UndoGrant` and `UndoState`. `first` is the user who was recorded when
there was none.

**ProxmoxCheckpoint.** A snapshot's receipt is its number in `taken`, which
remembers who took it. `Create` is followed by `TakeSnapshot`, `ReadReceipt`,
`Truncate` and `Save`; `Restore` by `Rollback`.

These four share nothing, so `MCOperatorTools` chooses one in its initial state
and lets it alone move: their state spaces add up. Their actions and variables
have distinct names for that reason.

## Runs

| Run | Instance | Shows |
|---|---|---|
| `jobqueue_service` | 2 jobs, one service worker, 1 fault, 1 repeated cancel | `CancelHonoured`, `HistoryAgrees`, `NoStrayProcess`, and that `JobQueue` implements `QueueContract` |
| `jobqueue_contention` | 2 jobs, the service and a worker by hand, 1 fault | `TypeOK`, `SingleRunning`, `HeartbeatOfHolder`, `NeverReplayed` |
| `jobqueue_liveness` | the service, fairness; 1 job, delayed, and 3 faults, or 2 jobs, one behind the other, and 2 faults | `RunningEnds`, `StopIsObeyed`, `QueuedIsServed` |
| `scheduled_tasks` | 1 task, 2 commands, 3 jobs, 2 revisions, 2 faults | `EnabledWasTested`, `NoOverlap`, `RemovedIsQuiet`, `TimerMatchesTable`, `SubmitsCurrentDefinition` |
| `scheduled_tasks_retry` | 1 task, 1 command, 3 jobs, no fault | **violates** `OneJobPerTask` |
| `notifications_delivery` | pages of 1, 2 events, 2 configurations, a condition that comes twice, both kinds of restored queue, 1 fault | `QuietWhenDisabled`, `RepeatsAreExcused`, `NothingMissed`, `StartsFromNow` |
| `notifications_liveness` | pages of 1, 2 events, 1 condition, 1 fault, fairness | `FailureIsPosted`, `ConditionIsPosted` |
| `notifications_replaced` | configured before there is a queue; another host's is put in place | **violates** `HistoryNotReplayed` |
| `updates` | 1 administrator and the reader, 2 generations, 2 versions, 3 changes by others, 1 fault, 2 points in time | `UnpackedUnlessUndone`, `NeverUnpackedStale`, `StatusTellsTruth` |
| `repository` | 2 commands, 2 snapshots over 2 packages, 3 publications, 2 kills | `TypeOK`, `ClientsAreServed`, `StableIsTested` |
| `backups` | 2 commands, 1 job, 2 backups, 1 restore, 1 kill, 1 host lost | `TypeOK`, `ListedIsWhole`, `NothingReplays`, `OwnTreesKept` |
| `operator_tools` | 2 terminals, 2 endpoints, 1 AI job, 3 setup or provider commands; 2 installers, 2 versions, 2 kills; 2 accounts, 2 kills; 2 records, 1 snapshot name, 3 snapshots, 5 changes by others | `TypeOK`, `KeyStaysWithEndpoint`, `SelectionStands`, `OneInvitation`, `NothingHalfInstalled`, `OwnFilesKept`, `PolicyIsOwners`, `RestoresOwnCheckpoint` |

`ScheduledTasks`, `Notifications` and `GuidedUpdates` define a `TypeOK` too. It
is proved (`TasksTypes`, `NotificationsTypes`, `UpdatesTypes`); their runs check
the properties that say more.

No run checks for deadlock: the operator may do nothing, and every counter is
bounded, so each model may stop as the system may.

### Why these bounds

* *Jobs.* Two jobs are enough for one to run, or to be left over, while the
  other is queued, retried or acknowledged; the proof of `SingleRunning` has no
  such bound. A retry needs a second identifier, hence three jobs for a task's
  run, its retry and the next run.
* *Processes.* The locks order whole commands, so two processes exhibit every
  race for one lock. With one lock and two commands, a third adds a waiter.
* *Faults.* One fault between any two steps is what a single crash can do;
  the liveness run takes three, so that a recovery is itself interrupted. With two
  jobs it takes two, and no delay, acknowledgment or cancellation of a running job (`Bounded`
  of `MCJobQueue`): what the second job is for is to wait behind one that ignores
  SIGTERM. `Bounded` is an action constraint, and sound for liveness because it refuses only
  steps of the operator and faults, which no fairness asks for. Two
  kills in the repository leave two partial files.
* *Pages of one event.* With `Limit` 1 and two events a full page, a short
  page and an empty one all occur, and events arrive between two pages.
* *Changes in `updates`.* One change is caught by any single check and two can
  be away and back. The third is where the guarantee ends: see below.
* *Operator's commands.* A selection, another one and a setup around them are
  three commands; `ai` and the job are not counted. Two versions make one
  upgrade. Taking a checkpoint, replacing it under its name and taking one for the other
  record needs three snapshots and, with the stop of the VM, five changes.
* *Time.* Only the order of deadlines and events matters, so a clock with two
  points and expiry flags are enough.

### Fairness

* The queue (`FairSpec`): weak fairness of the clock, of each step of the
  service's worker and of its timer, and of the start of a worker that was not told
  to stop, which is what `Restart=on-failure` gives; `StartLimitBurst=5` is not
  reached with three faults. Nothing but its operator starts a worker that was
  stopped. `RunningEnds` and `QueuedIsServed` say so in their premise `Served`:
  each time it is stopped, it is started again; `StopIsObeyed` has no premise.
  The job's process has no fairness: it may run, and ignore SIGTERM, for ever.
* Notifications (`FairSpec`): weak fairness of every step of a running check,
  each request having a timeout. Strong fairness of the timer's check, which
  does not wait for the lock and is tried again each interval, and of the two
  posts: the endpoint may refuse again and again, but not for ever.

### What the code does not keep

* **A retried run is not a run of its task** (`scheduled_tasks_retry`).
  `enqueue()` finds an active run through `scheduled_runs` (`tasks.py:193`);
  `rougarou jobs retry` submits a copy that is not in that table
  (`jobs.py:486-489`). `docs/scheduled-tasks.md:94`: "One queued or running job
  per task is allowed." `NoOverlap`, which speaks of linked runs, holds.
* **An adopted queue may replay its history** (`notifications_replaced`). A
  cursor set before there was a queue has no identity, and `notifications.py:201`
  takes it for a cursor of any queue.
Some limits are visible in the models without a run of their own; the properties name
them as their exceptions.

* `before.json` is written from a second reading of the inventory
  (`updates.py:500`), and the hook compares with that copy. Three changes by others,
  each at the right moment, pass every check: `UnpackedUnlessUndone` is the
  promise for fewer.
* A rollback to an older copy of the *same* queue loses the failures recorded
  before the log has grown past the cursor (`NothingMissed`).
* A restore that is killed leaves neither `RECOVERY.json` nor
  `RESTORE_INCOMPLETE`: `NothingReplays` assumes that only a tree with
  `RECOVERY.json` is promoted.
* `RECOVERY.json` is made first and written then (`backup.py:424-430`): a failure in
  between leaves it, perhaps cut short, with `RESTORE_INCOMPLETE` beside it, or alone if
  that cannot be written either. `NothingReplays` shows that
  every tree with a `RECOVERY.json` is whole and has a harmless queue; the operator
  of `PutInPlace` follows the other marker where there is one.
* Ctrl-C between `target.mkdir()` and the `try` block (`agent_install.py:177-179`), and
  an `rmtree()` that fails or is cut short (line 196), leave the directory, and line 165
  refuses every later install (`NothingHalfInstalled`, through `kept`).
* Ctrl-C that arrives during `os.link()` is raised before `published` is set
  (`agent_install.py:190-191`): the directory of a launcher just published is
  removed (`NothingHalfInstalled`, through `undone`).
* A kill between the sudoers grant and its record leaves a policy that status
  does not recognise and set refuses to change (`PolicyIsOwners`).
* Two terminals in setup and provider at once overwrite each other's
  configuration; Ctrl-C between key and selection leaves the old selection
  without its key (`SelectionStands`). The key itself is never used elsewhere:
  `KeyStaysWithEndpoint` has no exception.
* `qm rollback` names the snapshot, not its receipt: one replaced after the last
  check is what the VM goes back to (`RestoresOwnCheckpoint`).
* `jobs retry` reads the job's state outside of the transaction that submits its copy
  (`jobs.py:487`), so two retries of one job may both succeed; nothing promises one.

## Theorems

| Module | Theorem | Statement |
|---|---|---|
| `JobQueueProofs` | `TypeCorrect` | `Spec => []TypeOK` |
| | `OneRunningJob` | `Spec => []SingleRunning` |
| | `NothingIsReplayed` | `Spec => []NeverReplayed` |
| | `CancellationWins` | `Spec => []CancelHonoured` |
| | `EveryProcessIsWatched` | `Spec => []NoStrayProcess` |
| | `HeartbeatIsTheHolders` | `Spec => []HeartbeatOfHolder` |
| `JobHistoryProofs` | `LogTellsTheStory` | `Spec => []HistoryAgrees` |
| | `QueueImplementsContract` | `Spec => ImplementsContract` |
| `ScheduledTasksProofs` | `TasksTypes` | `Spec => []TypeOK` |
| | `OnlyTestedIsEnabled` | `Spec => []EnabledWasTested` |
| | `RunsNeverOverlap` | `Spec => []NoOverlap` |
| | `RemovedStaysQuiet` | `Spec => []RemovedIsQuiet` |
| | `TimersMatchTheTable` | `Spec => []TimerMatchesTable` |
| | `SubmitsWhatIsSaved` | `Spec => SubmitsCurrentDefinition` |
| `NotificationsProofs` | `NotificationsTypes` | `Spec => []TypeOK` |
| | `DisabledStaysQuiet` | `Spec => []QuietWhenDisabled` |
| | `OnlyExcusedRepeats` | `Spec => []RepeatsAreExcused` |
| | `NoFailureIsDropped` | `Spec => []NothingMissed` |
| | `HistoryIsLeftAlone` | `Spec => StartsFromNow` |
| `GuidedUpdatesProofs` | `UpdatesTypes` | `Spec => []TypeOK` |
| | `UnpacksWhatWasReviewed` | `Spec => []UnpackedUnlessUndone` |
| | `UnpacksFreshPlans` | `Spec => NeverUnpackedStale` |
| | `StatusIsTrue` | `Spec => []StatusTellsTruth` |
| `BackupsProofs` | `BackupsTypes` | `Spec => []TypeOK` |
| | `OnlyWholeIsListed` | `Spec => []ListedIsWhole` |
| | `RecoveryReplaysNothing` | `Spec => []NothingReplays` |
| | `OwnTreesStay` | `Spec => []OwnTreesKept` |
| `RepositoryProofs` | `RepositoryTypes` | `Spec => []TypeOK` |
| | `ClientsStayServed` | `Spec => []ClientsAreServed` |
| | `StableStaysTested` | `Spec => StableIsTested` |
| `OperatorToolsProofs` | `ToolsTypes` | `Spec => []TypeOK`, from `AccessTypes`, `InstallTypes`, `CheckpointTypes`, `ProviderTypes` |
| | `PolicyStaysWithItsOwner` | `AccessSpec => []PolicyIsOwners` |
| | `InstallsAreWhole` | `InstallSpec => []NothingHalfInstalled` |
| | `OwnFilesStay` | `InstallSpec => []OwnFilesKept` |
| | `RestoreIsOfOwnCheckpoint` | `CheckpointSpec => RestoresOwnCheckpoint` |
| | `KeysStayWithTheirEndpoint` | `ProviderSpec => []KeyStaysWithEndpoint` |
| | `SelectionsStand` | `ProviderSpec => []SelectionStands` |
| | `InvitedOnce` | `ProviderSpec => []OneInvitation` |

These are all the safety properties of the passing runs.

### Assumptions

The constants are arbitrary but for the named assumptions of the modules, which
TLC evaluates in the runs:

* bounds are naturals, and a page (`Limit`), the versions, refreshes and
  lifetimes of updates, and a task's revisions are at least one;
* `Jobs` and `Terminals` are finite: an acknowledgment puts jobs in some order,
  and two commands overlap when more than one terminal is in one;
* `Managed` workers are workers; the check by the service is not the one by hand
  (`ProcsAssumption`), the reader of updates is not an administrator
  (`ReaderAssumption`);
* absence is not a value: `None`, `Nobody`, `Unset`, `Missing` and `Nothing`
  differ from every process, row, record, receipt or file that can be in their place.

`NoStrayProcess` speaks of queues whose workers are all under systemd
(`Managed = Workers`); the property says so itself, and a process left behind by a
worker started by hand is among the hazards.

### The inductive invariants

Each proof has the same outline: `Inv` holds at first, each action preserves it
(one lemma or step per action), and it implies the property.

**One running job.** `SingleRunning` is not inductive: `RecoverOne` and `Claim`
keep it only because of what the worker knows. `QueueInv` adds `MutexInv` (a
worker is between taking and dropping the lock exactly when it holds it) and
`OwnInv`, what the holder knows of the running rows at each of its points: while
it executes, its job is the one running row; when it is about to claim, there is
none; while it recovers, the running rows are those of its to-do list. One lemma
shows that steps which leave the workers and the running rows alone preserve it
(`BystanderStep`), one that a step of the holder has to establish its next point
only (`HolderStep`), one treats workers that end (`ForgetStep`); the proof of
`Next` is a case for each action over these.

**The rest of the queue.** `ServiceInv` adds to it `NeverReplayed`, `CancelInv`,
`ProcessInv` and `HeartbeatOfHolder`. That a cancellation wins needs
`RequestInv`: a worker which has seen the request, or has decided on
`cancelled`, did so because the row says it. That no process is left over needs
the worker that has yet to reap it (`ProcessInv`).

**Its history and contract.** `HistoryInv` speaks of the log job by job: `Tale`
relates the events of one job to its row, its request and its acknowledgment; an
event that is added is later than all others. `TableStep` reduces the queue's
actions to four ways in which its tables change (not at all, a row moves with
its event, a request, an acknowledgment). From these `ContractStep` follows:
each is the step of `QueueContract` of that name, or a stutter.

**Scheduled tasks.** `TasksInv` says what the command that holds `tasks.lock`
has established at each of its steps, everyone else being idle (`Works`, with
`Enabling` and `Removing` for the two commands that stop half-way), and of each
task how row, unit files, timer and runs go together (`PerTask`). A run's link
is written with the run, so `NoOverlap` is an invariant by itself with
`RunsInv`: what is not submitted is not linked.

**Notifications.** `NotifyInv` speaks of a cursor that may be the one of another
queue. `LogInv` is the log: a job is in it once at most, under a number that was
given out. `Placed` says where a cursor can stand in the present log,
`AllBehind` that what was posted and may not be again is behind it, `Told` that
the failures behind it were posted or are history, unless the host's own older
queue was put in place. `SavedInv` says these of the file, `Cursors` of what a
process has in hand: the page it read holds every failure of the log up to its
last row (`WholePage`), in order (`InOrder`). Between a post and the save that
records it the file lags by one row; it is there that a fault makes a post
repeat, and `faults` counts it. `AlertInv` and `Reports` are the same for
conditions. The jobs, the conditions and `ReplaceQueue` change the log under a
check: `Changes` lists what such a change can do, and `ChangesHold` shows once
that the invariant survives it.

**Updates.** `UpdatesInv` has what a process knows at each step (`Process`),
what the native run relies on (`AptInv`, which outlives the apply that started
it), and what the files say (`StatusInv`). The hook compares the host with
`before.json`, not with the plan that was reviewed, and the two may differ
although both comparisons of plans passed. What holds is a count: `app` never
goes back to an older version and the rest of the inventory changes only when
somebody changes it, so each comparison that passed accounts for one change
(`Seen`), and at least three were made if APT may unpack on another inventory
than the one reviewed.

**Backups.** `BackupsInv` says what a command relies on at each step (`Command`:
while it backs up, that its token is its own; while it restores, how much of its
target is there, and that nobody else has made it) and what is left behind
(`PerTarget`, with `Noted` for a tree that has a `RECOVERY.json`, `PerSnapshot`,
`PerJob`).
`QuarantineIsQuiet` is the reason why nothing is replayed: a recovered queue has
no row to run, no schedule and no heartbeat.

**A repository that serves.** `RepositoryInv` is `TypeOK` with `LockInv` (a
command in progress holds the lock), `StepInv` (what a promotion checked, made
and recorded still holds at each of its steps, because nobody else moved),
`ContentInv` (each publication links, whole, everything an earlier publication
needs) and `SeenInv` (a channel is never behind a publication it has shown).
`ClientsAreServed` follows from the last two. `StableIsTested` is the step from
`StepInv`: the testing channel was checked under the same lock.

**The operator's commands.** `AccessInv`: what the holder of the lock has
written so far, and what it found. `InstallInv`: a directory is only reserved or
filled by the installer that holds the store, or left to `kept`, and the launcher names a whole one
unless an undo took it away. `CheckpointInv`: a snapshot has one receipt and no
two the same (`OneName`), and what a record knows of its own is a receipt that
its own create took (`Knows`). `KeyInv`: a key is stored with the endpoint it
was typed for, in one rename. `SelectionInv`: as long as no two commands have
overlapped, at most one is under way (`Alone`), and what it has in hand is what
the files say.

### Checked by TLC only

* The liveness properties `RunningEnds`, `StopIsObeyed`, `QueuedIsServed`,
  `FailureIsPosted` and `ConditionIsPosted`: fairness is stated with `ENABLED`,
  which the proof system cannot reason about.
* The two violated properties, whose counterexample is the result.

## Not modelled

* Signatures, digests and parsing: right, or refused. `verify`, `validate_tree`
  and the checks of paths and owners appear as commands that may refuse.
* Commands that only read and report: `jobs list/show/logs`, `tasks list/show/logs`,
  `notify status`, `backup check`, `update status/repository-status/reboot-status`.
* Log contents, their bound, and their consistency with the queue in a backup.
* `sign-flat` in place, outside the lock.
* In `cli.py`: sign-in to Git, GitHub and Codex, whose files belong to those
  programs, the copies it makes before a recovery, and status output.
* An account that is deleted, or gets another uid, with access on record.
* The interactive menus (they draw, and call the commands that are modelled),
  health and presentation (they read), the container helper (it starts
  programs and keeps nothing), shell and boot configuration (idempotent edits at
  installation), and the image builds (straight-line scripts around tools).

## Plan

In this order; all of it is done but the last item.

1. `JobTable`, `QueueContract`, `JobQueue`: the core, with its refinement.
2. `ScheduledTasks`, composed with the queue through `JobTable`.
3. `Notifications`, over the event log.
4. `GuidedUpdates`, and 5. `Repository`, the two ends of an update.
6. `Backups`, over a copy of the queue; proofs of the queue's and the
   repository's main invariants.
7. `ProviderChoice`, `AgentInstall`, `OperatorAccess` and `ProxmoxCheckpoint`, in
   one run.
8. Proofs of the small modules.
9. Proofs of the large ones, and of the queue's refinement of its contract.
10. To come: shorter proofs. What `Works`, `Command` and `Control` say of the
    holder of a lock has one shape, and could be one lemma for all of them.
