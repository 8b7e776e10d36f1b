------------------------------ MODULE Backups ------------------------------
(***************************************************************************)
(* `rougarou backup`: create copies the live queue into a capsule, stores  *)
(* it with the selected paths as a Restic snapshot that is pending until   *)
(* its manifest was read back, and restore materialises a listed snapshot  *)
(* in a new directory with a quarantined copy of the queue, which the      *)
(* operator may put in place of an absent one (docs/backups.md).           *)
(*                                                                         *)
(* Commands exclude each other by a lock that is not waited for; each may  *)
(* fail or be killed between any two steps, and Restic may outlive it.     *)
(* The worker goes on running jobs meanwhile, others make directories of   *)
(* their own, and the whole host may be lost.                              *)
(***************************************************************************)
EXTENDS Naturals, FiniteSets

CONSTANTS
    Procs,              \* `rougarou backup` commands
    Jobs,               \* job identifiers
    Targets,            \* the places that restore accepts: in ~/Rougarou-Recovery, or
                        \* apart from live data, selected paths and the repository
    None,               \* no process, no file
    MaxCreates,         \* bound on backups
    MaxKills,           \* bound on commands that are killed
    MaxLosses           \* bound on hosts that are lost

ASSUME BoundAssumption == {MaxCreates, MaxKills, MaxLosses} \subseteq Nat

VARIABLES
    live,               \* jobs.sqlite3 of the host, None if absent
    worker,             \* the worker service is on
    submitted,          \* job identifiers ever used
    started,            \* how often a worker started each job, on any host
    repository,         \* the Restic snapshots
    config,             \* backup.json: None, or the restore targets it lists
    target,             \* restore targets on this host
    owned,              \* targets where others made a directory of their own
    lock,               \* flock on .backup.lock
    pc, my,             \* per command: its next step and its locals
    creates, kills, losses

queue  == <<live, worker, submitted, started>>
disk   == <<repository, config, target, owned>>
counts == <<creates, kills, losses>>
vars   == <<queue, disk, lock, pc, my, counts>>

\* "succeeded" stands for every outcome but the interruption.
JobState == {"absent", "queued", "running", "succeeded", "interrupted"}
Queue    == [state : [Jobs -> JobState], enabled : BOOLEAN, heartbeat : BOOLEAN]
Snapshot == [token : 1..MaxCreates, tags : SUBSET {"pending", "complete"}, queue : Queue \cup {None},
             whole : BOOLEAN]
\* note and incomplete: RECOVERY.json and RESTORE_INCOMPLETE.
Content  == {"none", "partial", "whole"}
Target   == [made : BOOLEAN, data : Content, original : Queue \cup {None},
             prepared : Queue \cup {None}, note : Content, incomplete : BOOLEAN]

ASSUME NoneAssumption ==
    None \notin Procs \cup Targets \cup Queue \cup Snapshot /\ \A paths \in SUBSET Targets : None # paths

NoTarget == [made |-> FALSE, data |-> "none", original |-> None, prepared |-> None,
             note |-> "none", incomplete |-> FALSE]
Blank    == [config |-> {}, queue |-> None, token |-> 0, snapshot |-> None, target |-> None]

Init ==
    /\ live = None /\ worker = FALSE /\ submitted = {}
    /\ started = [j \in Jobs |-> 0]
    /\ repository = {} /\ config = None
    /\ target = [t \in Targets |-> NoTarget]
    /\ owned = {}
    /\ lock = None
    /\ pc = [p \in Procs |-> "idle"]
    /\ my = [p \in Procs |-> Blank]
    /\ creates = 0 /\ kills = 0 /\ losses = 0

-----------------------------------------------------------------------------
(* operation(): the lock goes with the process.                            *)

LockFree == lock = None

Begin(p, locals, label) ==
    /\ pc[p] = "idle" /\ LockFree
    /\ lock' = p
    /\ my' = [my EXCEPT ![p] = locals]
    /\ pc' = [pc EXCEPT ![p] = label]

Goto(p, label) == pc' = [pc EXCEPT ![p] = label] /\ UNCHANGED lock

Leave(p) ==
    /\ lock' = IF lock = p THEN None ELSE lock
    /\ my' = [my EXCEPT ![p] = Blank]
    /\ pc' = [pc EXCEPT ![p] = "idle"]

\* init, of a new repository or --existing: one that is configured stays.
Initialize(p) ==
    /\ pc[p] = "idle" /\ LockFree
    /\ config = None
    /\ config' = {}
    /\ UNCHANGED <<queue, repository, target, owned, lock, pc, my, counts>>

-----------------------------------------------------------------------------
(* create.                                                                 *)

StartCreate(p) ==
    /\ config # None /\ creates < MaxCreates
    /\ creates' = creates + 1
    /\ Begin(p, [Blank EXCEPT !.token = creates'], "copy queue")
    /\ UNCHANGED <<queue, disk, kills, losses>>

\* queue_copy(): SQLite's online backup is a state of the live queue.
CopyQueue(p) ==
    /\ pc[p] = "copy queue"
    /\ my' = [my EXCEPT ![p].queue = live]
    /\ Goto(p, "backup")
    /\ UNCHANGED <<queue, disk, counts>>

\* Plausible bug: the snapshot is published from the start.
PublishedTags == {"complete"}

PendingTags == {"pending"}

Stored(p, whole) ==
    [token |-> my[p].token, tags |-> PendingTags, queue |-> my[p].queue, whole |-> whole]

\* restic backup; exit 3 leaves a partial snapshot behind.
ResticBackup(p) ==
    /\ pc[p] = "backup"
    /\ \E whole \in BOOLEAN :
          /\ repository' = repository \cup {Stored(p, whole)}
          /\ IF whole THEN Goto(p, "manifest") /\ UNCHANGED my ELSE Leave(p)
    /\ UNCHANGED <<queue, config, target, owned, counts>>

ReadManifest(p) ==
    /\ pc[p] = "manifest"
    /\ Goto(p, "tag")
    /\ UNCHANGED <<queue, disk, my, counts>>

Own(p) == {s \in repository : s.token = my[p].token}

\* restic tag stores the snapshot anew and removes the old one.
Tagged(p)   == repository \cup {[s EXCEPT !.tags = {"complete"}] : s \in Own(p)}
Untagged(p) == {s \in repository : s \in Own(p) => "pending" \notin s.tags}

TagAdd(p) ==
    /\ pc[p] = "tag"
    /\ repository' = Tagged(p)
    /\ Goto(p, "untag")
    /\ UNCHANGED <<queue, config, target, owned, my, counts>>

TagRemove(p) ==
    /\ pc[p] = "untag"
    /\ repository' = Untagged(p)
    /\ Leave(p)
    /\ UNCHANGED <<queue, config, target, owned, counts>>

-----------------------------------------------------------------------------
(* restore --apply of a snapshot that the preview resolved.                *)

Listed == {s \in repository : "complete" \in s.tags /\ "pending" \notin s.tags}

\* The target must not exist; validating the snapshot then takes minutes.
StartRestore(p, t) ==
    /\ config # None
    /\ ~target[t].made /\ t \notin owned
    /\ \E s \in Listed : Begin(p, [Blank EXCEPT !.config = config, !.snapshot = s, !.target = t], "mkdir")
    /\ UNCHANGED <<queue, disk, counts>>

Change(p, t, label) ==
    /\ target' = [target EXCEPT ![my[p].target] = t]
    /\ Goto(p, label)
    /\ UNCHANGED <<queue, repository, config, owned, my, counts>>

Mine(p) == target[my[p].target]

\* Plausible bug: a directory that has come meanwhile will do (exist_ok).
MakeOrTake(p) ==
    /\ pc[p] = "mkdir"
    /\ Change(p, [Mine(p) EXCEPT !.made = TRUE], "exclude")

MakeTarget(p) ==
    /\ pc[p] = "mkdir" /\ my[p].target \notin owned
    /\ Change(p, [Mine(p) EXCEPT !.made = TRUE], "exclude")

Exclude(p) ==
    /\ pc[p] = "exclude"
    /\ config' = my[p].config \cup {my[p].target}
    /\ Goto(p, "restore")
    /\ UNCHANGED <<queue, repository, target, owned, my, counts>>

BeginRestic(p) ==
    /\ pc[p] = "restore"
    /\ Change(p, [Mine(p) EXCEPT !.data = "partial"], "restoring")

Restored(p) == [Mine(p) EXCEPT !.data = "whole", !.original = my[p].snapshot.queue]

ResticRestore(p) ==
    /\ pc[p] = "restoring"
    /\ Change(p, Restored(p), "prepare")

\* prepare_queue(): a copy beside the original, then one transaction on it.
CopyPrepared(p) ==
    /\ pc[p] = "prepare"
    /\ Change(p, [Mine(p) EXCEPT !.prepared = Mine(p).original],
              IF Mine(p).original = None THEN "note" ELSE "quarantine")

\* Plausible bug: only the jobs that were running are interrupted.
PendingIfRunning(q) == {j \in Jobs : q.state[j] = "running"}

Pending(q) == {j \in Jobs : q.state[j] \in {"queued", "running"}}

\* Plausible bug: a state of its own, which the jobs table does not have.
QuarantinedByName(q) ==
    [state     |-> [j \in Jobs |-> IF j \in Pending(q) THEN "quarantined" ELSE q.state[j]],
     enabled   |-> FALSE,
     heartbeat |-> FALSE]

Quarantined(q) ==
    [state     |-> [j \in Jobs |-> IF j \in Pending(q) THEN "interrupted" ELSE q.state[j]],
     enabled   |-> FALSE,
     heartbeat |-> FALSE]

Quarantine(p) ==
    /\ pc[p] = "quarantine"
    /\ Change(p, [Mine(p) EXCEPT !.prepared = Quarantined(@)], "note")

\* recovery_note(): O_EXCL makes the file, then it is written and synced.
CreateNote(p) ==
    /\ pc[p] = "note"
    /\ Change(p, [Mine(p) EXCEPT !.note = "partial"], "write")

WriteNote(p) ==
    /\ pc[p] = "write"
    /\ target' = [target EXCEPT ![my[p].target].note = "whole"]
    /\ Leave(p) \/ (Goto(p, "failed") /\ UNCHANGED my)
    /\ UNCHANGED <<queue, repository, config, owned, counts>>

\* A step of the try block raises; a RECOVERY.json that was made stays.
RestoreFails(p) ==
    /\ pc[p] \in {"restore", "restoring", "prepare", "quarantine", "note", "write"}
    /\ Goto(p, "failed")
    /\ UNCHANGED <<queue, disk, my, counts>>

\* RESTORE_INCOMPLETE, unless that cannot be written either.
WriteIncomplete(p) ==
    /\ pc[p] = "failed"
    /\ \E written \in BOOLEAN : target' = [target EXCEPT ![my[p].target].incomplete = written]
    /\ Leave(p)
    /\ UNCHANGED <<queue, repository, config, owned, counts>>

-----------------------------------------------------------------------------
(* Refusals, kills and the loss of the host.                               *)

\* An unreadable path, a bad password, a damaged snapshot, a full disk, a target
\* that exists by now, Ctrl-C before the try block of restore.
Refuse(p) ==
    /\ pc[p] \in {"copy queue", "backup", "manifest", "tag", "mkdir", "exclude", "restore"}
    /\ Leave(p)
    /\ UNCHANGED <<queue, disk, counts>>

\* The Restic that a killed command had started finishes its work.
ResticGoesOn(p) ==
    \/ /\ pc[p] = "backup"
       /\ \E whole \in BOOLEAN : repository' = repository \cup {Stored(p, whole)}
       /\ UNCHANGED target
    \/ /\ pc[p] = "untag" /\ repository' = Untagged(p)
       /\ UNCHANGED target
    \/ /\ pc[p] = "restoring" /\ target' = [target EXCEPT ![my[p].target] = Restored(p)]
       /\ UNCHANGED repository

Kill(p) ==
    /\ pc[p] # "idle" /\ kills < MaxKills
    /\ kills' = kills + 1
    /\ UNCHANGED <<repository, target>> \/ ResticGoesOn(p)
    /\ Leave(p)
    /\ UNCHANGED <<queue, config, owned, creates, losses>>

\* Somebody else makes a directory, of that name by chance.
OwnTarget(t) ==
    /\ ~target[t].made
    /\ owned' = owned \cup {t}
    /\ UNCHANGED <<queue, repository, config, target, lock, pc, my, counts>>

\* A replacement host: the repository is all that is left.
LoseHost ==
    /\ losses < MaxLosses
    /\ losses' = losses + 1
    /\ live' = None /\ worker' = FALSE /\ config' = None
    /\ target' = [t \in Targets |-> NoTarget] /\ owned' = {}
    /\ lock' = None
    /\ pc' = [p \in Procs |-> "idle"]
    /\ my' = [p \in Procs |-> Blank]
    /\ UNCHANGED <<submitted, started, repository, creates, kills>>

-----------------------------------------------------------------------------
(* The live queue, as JobQueue and ScheduledTasks have it in detail.       *)

Empty == [state |-> [j \in Jobs |-> "absent"], enabled |-> FALSE, heartbeat |-> FALSE]

Present == IF live = None THEN Empty ELSE live

LiveStep == UNCHANGED <<disk, lock, pc, my, counts>>

Submit(j) ==
    /\ j \notin submitted
    /\ submitted' = submitted \cup {j}
    /\ live' = [Present EXCEPT !.state[j] = "queued"]
    /\ UNCHANGED <<worker, started>> /\ LiveStep

EnableTask ==
    /\ ~Present.enabled
    /\ live' = [Present EXCEPT !.enabled = TRUE]
    /\ UNCHANGED <<worker, submitted, started>> /\ LiveStep

StartWorker ==
    /\ ~worker
    /\ worker' = TRUE
    /\ live' = [Present EXCEPT !.heartbeat = TRUE]
    /\ UNCHANGED <<submitted, started>> /\ LiveStep

StopWorker ==
    /\ worker
    /\ worker' = FALSE
    /\ live' = [live EXCEPT !.state = [j \in Jobs |-> IF @[j] = "running" THEN "interrupted" ELSE @[j]]]
    /\ UNCHANGED <<submitted, started>> /\ LiveStep

Claim(j) ==
    /\ worker /\ live.state[j] = "queued"
    /\ \A k \in Jobs : live.state[k] # "running"
    /\ live' = [live EXCEPT !.state[j] = "running"]
    /\ started' = [started EXCEPT ![j] = @ + 1]
    /\ UNCHANGED <<worker, submitted>> /\ LiveStep

Finish(j) ==
    /\ worker /\ live.state[j] = "running"
    /\ live' = [live EXCEPT !.state[j] = "succeeded"]
    /\ UNCHANGED <<worker, submitted, started>> /\ LiveStep

\* "Use the prepared state copy when replacing an absent queue, with the
\* worker disabled", of a target with a RECOVERY.json and not marked incomplete.
PutInPlace(t) ==
    /\ ~worker /\ live = None
    /\ target[t].note # "none" /\ ~target[t].incomplete /\ target[t].prepared # None
    /\ live' = target[t].prepared
    /\ UNCHANGED <<worker, submitted, started>> /\ LiveStep

-----------------------------------------------------------------------------
Create(p)  == \/ StartCreate(p) \/ CopyQueue(p) \/ ResticBackup(p) \/ ReadManifest(p)
              \/ TagAdd(p) \/ TagRemove(p)

Restore(p) == \/ \E t \in Targets : StartRestore(p, t)
              \/ MakeTarget(p) \/ Exclude(p) \/ BeginRestic(p) \/ ResticRestore(p)
              \/ CopyPrepared(p) \/ Quarantine(p) \/ CreateNote(p) \/ WriteNote(p)
              \/ RestoreFails(p) \/ WriteIncomplete(p)

Live == \/ \E j \in Jobs : Submit(j) \/ Claim(j) \/ Finish(j)
        \/ EnableTask \/ StartWorker \/ StopWorker
        \/ \E t \in Targets : PutInPlace(t)

Next == \/ \E p \in Procs : Initialize(p) \/ Create(p) \/ Restore(p) \/ Refuse(p) \/ Kill(p)
        \/ \E t \in Targets : OwnTarget(t)
        \/ Live \/ LoseHost

Spec == Init /\ [][Next]_vars

-----------------------------------------------------------------------------
\* Queues, snapshots, targets and the locals of commands have legal values.
TypeOK ==
    /\ live \in Queue \cup {None} /\ worker \in BOOLEAN /\ (worker => live # None)
    /\ submitted \subseteq Jobs /\ started \in [Jobs -> Nat]
    /\ repository \subseteq Snapshot
    /\ config = None \/ config \subseteq Targets
    /\ target \in [Targets -> Target] /\ owned \subseteq Targets
    /\ lock \in Procs \cup {None}
    /\ pc \in [Procs -> {"idle", "copy queue", "backup", "manifest", "tag", "untag", "mkdir",
                         "exclude", "restore", "restoring", "prepare", "quarantine", "note",
                         "write", "failed"}]
    /\ my \in [Procs -> [config : SUBSET Targets, queue : Queue \cup {None}, token : 0..MaxCreates,
                         snapshot : Snapshot \cup {None}, target : Targets \cup {None}]]

\* A snapshot that `backup list` offers holds everything that was selected:
\* a backup that was cut short, at any point, is never offered.
ListedIsWhole == \A s \in Listed : s.whole

\* A copy that may replace an absent queue: nothing to run or to resume.
Quiet(q) == Pending(q) = {} /\ ~q.enabled /\ ~q.heartbeat

\* No job is started twice, on whatever host: what was queued or running when
\* a backup copied the queue, and may have run since, is not replayed from
\* the prepared copy.  A RECOVERY.json, even one that was cut short and has
\* RESTORE_INCOMPLETE beside it, stands in a whole tree, whose prepared copy has
\* no job to run, no enabled schedule and no worker's heartbeat.
NothingReplays ==
    /\ \A j \in Jobs : started[j] <= 1
    /\ \A t \in Targets : target[t].note # "none" =>
          /\ target[t].data = "whole"
          /\ target[t].original # None => target[t].prepared # None /\ Quiet(target[t].prepared)

\* "Existing files are never overwritten": what others make under the name of the
\* target, while restore validates its snapshot, gets no file of the restore.
OwnTreesKept == \A t \in owned : target[t] = NoTarget

=============================================================================
