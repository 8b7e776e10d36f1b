---------------------------- MODULE BackupsProofs ----------------------------
(***************************************************************************)
(* Proofs about Backups, for any sets of commands, jobs and restore        *)
(* targets, any number of backups, kills and lost hosts.                   *)
(*                                                                         *)
(* BackupsInv is the inductive invariant.  Command says what the holder of *)
(* the backup lock relies on: while it backs up, that its token is its own *)
(* and what it stored is whole before it is tagged; while it restores, how *)
(* much of its target is there.  PerTarget, PerSnapshot and PerJob are     *)
(* about what it leaves behind.                                            *)
(***************************************************************************)
EXTENDS Backups, TLAPS

Place     == {"idle", "copy queue", "backup", "manifest", "tag", "untag", "mkdir",
              "exclude", "restore", "restoring", "prepare", "quarantine", "note", "write", "failed"}
Local     == [config : SUBSET Targets, queue : Queue \cup {None}, token : 0..MaxCreates,
              snapshot : Snapshot \cup {None}, target : Targets \cup {None}]
Creating  == {"copy queue", "backup", "manifest", "tag", "untag"}
Restoring == {"mkdir", "exclude", "restore", "restoring", "prepare", "quarantine", "note", "write",
              "failed"}

\* The prepared copy that goes with a copy of the queue: none, or a quiet one.
PreparedFor(t) ==
    IF t.original = None THEN t.prepared = None ELSE t.prepared # None /\ Quiet(t.prepared)

\* `backup create`, from its token to the tags of its snapshot.
Backing(p) ==
    /\ my[p].token \in 1..creates
    /\ pc[p] \in {"copy queue", "backup"} => \A s \in repository : s.token # my[p].token
    /\ pc[p] \in {"manifest", "tag", "untag"} => \A s \in Own(p) : s.whole

\* `backup restore`, from the empty directory to its RECOVERY.json.
Rebuilding(p) ==
    /\ my[p].target \in Targets /\ my[p].snapshot \in Snapshot /\ config # None
    /\ pc[p] \notin {"write", "failed"} => Mine(p).note = "none"
    /\ pc[p] \in {"mkdir", "exclude"} => config = my[p].config
    /\ pc[p] = "mkdir" => Mine(p) = NoTarget
    /\ pc[p] # "mkdir" => Mine(p).made
    /\ pc[p] \in {"exclude", "restore"} => Mine(p) = [NoTarget EXCEPT !.made = TRUE]
    /\ pc[p] \notin {"mkdir", "exclude"} => my[p].target \in config
    /\ pc[p] \in {"prepare", "quarantine", "note", "write"} => Mine(p).data = "whole"
    /\ pc[p] = "quarantine" => Mine(p).original # None /\ Mine(p).prepared # None
    /\ pc[p] \in {"note", "write"} => PreparedFor(Mine(p))

Command(p) ==
    /\ pc[p] # "idle" => lock = p
    /\ pc[p] \in Creating => Backing(p)
    /\ pc[p] \in Restoring => Rebuilding(p)

\* A RECOVERY.json, or the beginning of one, makes no tree whole that is not.
Noted(t) == t.note # "none" => t.data = "whole" /\ PreparedFor(t)

\* A tree of a restore is listed in backup.json, and noted only when whole.
PerTarget(t) ==
    /\ ~target[t].made => target[t] = NoTarget
    /\ target[t].data # "none" => config # None /\ t \in config
    /\ Noted(target[t])
    /\ t \in owned => ~target[t].made

\* Only whole snapshots are published.
PerSnapshot(s) == s.token <= creates /\ ("complete" \in s.tags => s.whole)

\* A job starts once, and what is queued has not started yet.
PerJob(j) ==
    /\ started[j] > 0 => j \in submitted /\ started[j] = 1
    /\ live # None /\ live.state[j] = "queued" => j \in submitted /\ started[j] = 0

BackupsInv ==
    /\ TypeOK /\ creates \in Nat
    /\ \A p \in Procs : Command(p)
    /\ \A t \in Targets : PerTarget(t)
    /\ \A s \in repository : PerSnapshot(s)
    /\ \A j \in Jobs : PerJob(j)

-----------------------------------------------------------------------------
\* quarantine leaves nothing to run: every queued or running job is
\* interrupted, schedules are off, and no worker's heartbeat is left.
LEMMA QuarantineIsQuiet ==
    ASSUME NEW q \in Queue
    PROVE  Quarantined(q) \in Queue /\ Quarantined(q) # None /\ Quiet(Quarantined(q))
<1>1. Quarantined(q) \in Queue
  BY DEF Queue, Quarantined, JobState
<1>2. \A j \in Jobs : Quarantined(q).state[j] \notin {"queued", "running"}
  BY DEF Quarantined, Pending, Queue
<1>3. Quiet(Quarantined(q))
  BY <1>2 DEF Quiet, Pending, Quarantined
<1> QED
  BY <1>1, <1>3, NoneAssumption

\* The bound on backups is a number.
LEMMA BoundIsNat == MaxCreates \in Nat /\ 0 \in 0..MaxCreates
<1>1. MaxCreates \in Nat
  BY BoundAssumption
<1> QED
  BY <1>1

\* The locals that a backup begins with.
LEMMA LocalsOfCreate ==
    ASSUME NEW n \in 0..MaxCreates
    PROVE  [Blank EXCEPT !.token = n] \in Local /\ [Blank EXCEPT !.token = n].token = n
<1>1. Blank \in Local
  BY BoundIsNat DEF Blank, Local
<1> QED
  BY <1>1 DEF Local

\* While one command has the lock, every other one is idle.
LEMMA OthersIdle ==
    ASSUME BackupsInv, NEW p \in Procs, pc[p] # "idle" \/ LockFree
    PROVE  (\A q \in Procs \ {p} : pc[q] = "idle") /\ (pc[p] # "idle" => lock = p)
BY NoneAssumption DEF BackupsInv, Command, LockFree

\* The step of a command, or one that begins: the others stay idle.
LEMMA CommandStep ==
    ASSUME BackupsInv, NEW p \in Procs, pc[p] # "idle" \/ LockFree,
           UNCHANGED queue, creates' \in Nat, repository' \subseteq Snapshot,
           config' = None \/ config' \subseteq Targets, target' \in [Targets -> Target], UNCHANGED owned,
           lock' \in {p, None}, pc' \in [Procs -> Place], my' \in [Procs -> Local],
           \A q \in Procs \ {p} : pc'[q] = pc[q],
           Command(p)', \A t \in Targets : PerTarget(t)', \A s \in repository' : PerSnapshot(s)'
    PROVE  BackupsInv'
<1>1. \A q \in Procs \ {p} : pc'[q] = "idle"
  BY OthersIdle
<1>2. \A q \in Procs : Command(q)'
  BY <1>1 DEF Command, Creating, Restoring
<1>3. \A j \in Jobs : PerJob(j)'
  BY DEF BackupsInv, PerJob, queue
<1>4. TypeOK'
  BY DEF BackupsInv, TypeOK, queue, Place, Local
<1> QED
  BY <1>2, <1>3, <1>4 DEF BackupsInv

\* A command goes on, with other locals or the same.
LEMMA Going ==
    ASSUME BackupsInv, NEW p \in Procs, pc[p] # "idle", NEW label \in Place, Goto(p, label)
    PROVE  /\ pc' \in [Procs -> Place] /\ pc'[p] = label /\ (\A q \in Procs \ {p} : pc'[q] = pc[q])
           /\ lock' = p
BY OthersIdle DEF BackupsInv, TypeOK, Goto, Place

\* A command that ends relies on nothing.
LEMMA Leaving ==
    ASSUME BackupsInv, NEW p \in Procs, pc[p] # "idle", Leave(p)
    PROVE  /\ pc' \in [Procs -> Place] /\ pc'[p] = "idle" /\ (\A q \in Procs \ {p} : pc'[q] = pc[q])
           /\ lock' = None /\ my' \in [Procs -> Local] /\ Command(p)'
<1>1. Blank \in Local
  BY BoundIsNat DEF Blank, Local
<1>2. /\ pc' \in [Procs -> Place] /\ pc'[p] = "idle" /\ (\A q \in Procs \ {p} : pc'[q] = pc[q])
      /\ lock' = None /\ my' \in [Procs -> Local]
  BY ZenonT(40), <1>1, OthersIdle DEF BackupsInv, TypeOK, Leave, Place, Local
<1> QED
  BY <1>2 DEF Command, Creating, Restoring

\* A step that ends, or leaves its command where it stands, changing no file.
LEMMA QuietLeave ==
    ASSUME BackupsInv, NEW p \in Procs, pc[p] # "idle", Leave(p), UNCHANGED <<queue, disk, creates>>
    PROVE  BackupsInv'
<1>1. \A t \in Targets : PerTarget(t)'
  BY DEF BackupsInv, PerTarget, disk
<1>2. \A s \in repository' : PerSnapshot(s)'
  BY DEF BackupsInv, PerSnapshot, disk
<1> QED
  BY <1>1, <1>2, Leaving, CommandStep DEF BackupsInv, TypeOK, disk

\* One step per action.
LEMMA BackupsStep == BackupsInv /\ [Next]_vars => BackupsInv'
<1> SUFFICES ASSUME BackupsInv, [Next]_vars PROVE BackupsInv'
  OBVIOUS
<1>0. /\ live \in Queue \cup {None} /\ worker \in BOOLEAN /\ (worker => live # None)
      /\ submitted \subseteq Jobs /\ started \in [Jobs -> Nat]
      /\ repository \subseteq Snapshot /\ (config = None \/ config \subseteq Targets)
      /\ target \in [Targets -> Target] /\ owned \subseteq Targets /\ lock \in Procs \cup {None}
      /\ pc \in [Procs -> Place] /\ my \in [Procs -> Local] /\ creates \in Nat
      /\ \A p \in Procs : Command(p)
      /\ \A t \in Targets : PerTarget(t)
      /\ \A s \in repository : PerSnapshot(s)
      /\ \A j \in Jobs : PerJob(j)
  BY DEF BackupsInv, TypeOK, Place, Local
<1>1. UNCHANGED <<config, target, owned>> => \A t \in Targets : PerTarget(t)'
  BY <1>0 DEF PerTarget
<1>2. UNCHANGED <<repository, creates>> => \A s \in repository' : PerSnapshot(s)'
  BY <1>0 DEF PerSnapshot
<1> USE DEF disk, counts
<1>3. ASSUME NEW p \in Procs, Initialize(p) PROVE BackupsInv'
  <2>1. /\ pc[p] = "idle" /\ LockFree /\ config = None /\ config' = {}
        /\ UNCHANGED <<queue, repository, target, owned, lock, pc, my, counts>>
    BY <1>3 DEF Initialize
  <2>2. \A t \in Targets : PerTarget(t)'
    BY <1>0, <2>1 DEF PerTarget
  <2>3. Command(p)'
    BY <2>1 DEF Command, Creating, Restoring
  <2>4. lock' = None
    BY <2>1 DEF LockFree
  <2> QED
    BY <1>0, <1>2, <2>1, <2>2, <2>3, <2>4, CommandStep
\* create.
<1>4. ASSUME NEW p \in Procs, NEW locals \in Local, NEW label \in Place, Begin(p, locals, label)
      PROVE  /\ LockFree /\ lock' = p /\ pc' \in [Procs -> Place] /\ pc'[p] = label
             /\ \A q \in Procs \ {p} : pc'[q] = pc[q]
             /\ my' \in [Procs -> Local] /\ my'[p] = locals
  BY <1>0, <1>4 DEF Begin
<1>5. ASSUME NEW p \in Procs, StartCreate(p) PROVE BackupsInv'
  <2> DEFINE locals == [Blank EXCEPT !.token = creates']
  <2>1. /\ config # None /\ creates < MaxCreates /\ creates' = creates + 1
        /\ Begin(p, locals, "copy queue") /\ UNCHANGED <<queue, disk, kills, losses>>
    BY <1>5 DEF StartCreate
  <2>2. creates' \in 1..MaxCreates /\ creates' \in 1..creates' /\ creates' \in Nat
    <3>1. creates \in Nat /\ MaxCreates \in Nat /\ creates < MaxCreates /\ creates' = creates + 1
      BY <1>0, <2>1, BoundIsNat
    <3> QED
      BY ONLY <3>1
  <2>3. locals \in Local /\ locals.token = creates'
    <3>1. creates' \in Nat /\ MaxCreates \in Nat /\ creates' <= MaxCreates
      BY <2>2, BoundIsNat
    <3>2. creates' \in 0..MaxCreates
      BY ONLY <3>1
    <3>3. PICK n \in 0..MaxCreates : n = creates'
      BY <3>2
    <3> QED
      BY <3>3, LocalsOfCreate
  <2> HIDE DEF locals
  <2>4. /\ LockFree /\ lock' = p /\ pc' \in [Procs -> Place] /\ pc'[p] = "copy queue"
        /\ \A q \in Procs \ {p} : pc'[q] = pc[q]
        /\ my' \in [Procs -> Local] /\ my'[p] = locals
    BY <1>4, <2>1, <2>3 DEF Place
  <2>5. \A s \in repository : s.token <= creates /\ s.token \in Nat
    BY <1>0 DEF PerSnapshot, Snapshot
  <2>6. \A s \in repository : s.token # creates' /\ s.token <= creates'
    <3>1. creates \in Nat /\ creates' = creates + 1
      BY <1>0, <2>1
    <3> QED
      BY <2>5, <3>1
  <2>7. Command(p)'
    BY <2>1, <2>2, <2>3, <2>4, <2>6 DEF Command, Backing, Creating, Restoring
  <2>8. \A s \in repository' : PerSnapshot(s)'
    BY <1>0, <2>1, <2>6 DEF PerSnapshot
  <2> QED
    BY <1>0, <1>1, <2>1, <2>2, <2>4, <2>7, <2>8, CommandStep
<1>6. ASSUME NEW p \in Procs, CopyQueue(p) PROVE BackupsInv'
  <2>1. /\ pc[p] = "copy queue" /\ my' = [my EXCEPT ![p].queue = live] /\ Goto(p, "backup")
        /\ UNCHANGED <<queue, disk, counts>>
    BY <1>6 DEF CopyQueue
  <2>2. /\ my' \in [Procs -> Local] /\ my'[p].token = my[p].token
    BY ZenonT(40), <1>0, <2>1 DEF Local
  <2>3. /\ pc' \in [Procs -> Place] /\ pc'[p] = "backup" /\ (\A q \in Procs \ {p} : pc'[q] = pc[q]) /\ lock' = p
    BY <2>1, Going DEF Place
  <2>4. Command(p)'
    BY ZenonT(40), <1>0, <2>1, <2>2, <2>3 DEF Command, Backing, Creating, Restoring
  <2> QED
    BY <1>0, <1>1, <1>2, <2>1, <2>2, <2>3, <2>4, CommandStep
<1>7. ASSUME NEW p \in Procs, pc[p] = "backup", NEW whole \in BOOLEAN, UNCHANGED creates,
              repository' = repository \cup {Stored(p, whole)}
       PROVE  /\ repository' \subseteq Snapshot /\ \A s \in repository' : PerSnapshot(s)'
              /\ my[p].token \in 1..creates
              /\ \A s \in repository' : s.token = my[p].token => s.whole = whole
  <2>1. /\ my[p].token \in 1..creates /\ my[p] \in Local
        /\ \A s \in repository : s.token # my[p].token
    BY <1>0, <1>7 DEF Command, Creating, Backing
  <2>2. my[p].token \in 1..MaxCreates
    <3>1. my[p].token \in 0..MaxCreates /\ my[p].token >= 1
      BY <1>0, <2>1 DEF Local
    <3> QED
      BY <3>1, BoundAssumption
  <2>3. /\ Stored(p, whole) \in Snapshot /\ Stored(p, whole).token = my[p].token
        /\ Stored(p, whole).tags = {"pending"} /\ Stored(p, whole).whole = whole
    BY <2>1, <2>2 DEF Stored, Snapshot, Local, PendingTags
  <2>4. my[p].token <= creates
    BY <1>0, <2>1
  <2> QED
    BY <1>0, <1>7, <2>1, <2>3, <2>4 DEF PerSnapshot
<1>8. ASSUME NEW p \in Procs, ResticBackup(p) PROVE BackupsInv'
  <2>1. PICK whole \in BOOLEAN :
           /\ repository' = repository \cup {Stored(p, whole)}
           /\ IF whole THEN Goto(p, "manifest") /\ UNCHANGED my ELSE Leave(p)
    BY <1>8 DEF ResticBackup
  <2>2. pc[p] = "backup" /\ UNCHANGED <<queue, config, target, owned, counts>>
    BY <1>8 DEF ResticBackup
  <2>3. /\ repository' \subseteq Snapshot /\ \A s \in repository' : PerSnapshot(s)'
        /\ my[p].token \in 1..creates
        /\ \A s \in repository' : s.token = my[p].token => s.whole = whole
    BY <1>7, <2>1, <2>2
  <2>8. CASE whole
    <3>1. /\ pc' \in [Procs -> Place] /\ pc'[p] = "manifest" /\ (\A q \in Procs \ {p} : pc'[q] = pc[q]) /\ lock' = p
          /\ UNCHANGED my
      BY <2>1, <2>2, <2>8, Going DEF Place
    <3>2. \A s \in Own(p)' : s.whole
      BY <2>3, <2>8, <3>1 DEF Own
    <3>3. Command(p)'
      BY <2>2, <2>3, <3>1, <3>2 DEF Command, Backing, Creating, Restoring
    <3> QED
      BY <1>0, <1>1, <2>2, <2>3, <3>1, <3>3, CommandStep
  <2>9. CASE ~whole
    BY <1>0, <1>1, <2>1, <2>2, <2>3, <2>9, Leaving, CommandStep
  <2> QED
    BY <2>8, <2>9
<1>9. ASSUME NEW p \in Procs, ReadManifest(p) PROVE BackupsInv'
  <2>1. pc[p] = "manifest" /\ Goto(p, "tag") /\ UNCHANGED <<queue, disk, my, counts>>
    BY <1>9 DEF ReadManifest
  <2>2. /\ pc' \in [Procs -> Place] /\ pc'[p] = "tag" /\ (\A q \in Procs \ {p} : pc'[q] = pc[q]) /\ lock' = p
    BY <2>1, Going DEF Place
  <2>3. Command(p)'
    BY <1>0, <2>1, <2>2 DEF Command, Backing, Creating, Restoring, Own
  <2> QED
    BY <1>0, <1>1, <1>2, <2>1, <2>2, <2>3, CommandStep
<1>10. ASSUME NEW p \in Procs, TagAdd(p) PROVE BackupsInv'
  <2>1. /\ pc[p] = "tag" /\ Goto(p, "untag") /\ UNCHANGED <<queue, config, target, owned, my, counts>>
        /\ repository' = repository \cup {[s EXCEPT !.tags = {"complete"}] : s \in Own(p)}
    BY <1>10 DEF TagAdd, Tagged
  <2>2. my[p].token \in 1..creates /\ \A s \in Own(p) : s \in repository /\ s.token = my[p].token /\ s.whole
    BY <1>0, <2>1 DEF Command, Creating, Backing, Own
  <2>3. \A r \in repository' \ repository :
           r \in Snapshot /\ r.token = my[p].token /\ r.whole /\ PerSnapshot(r)
    <3> TAKE r \in repository' \ repository
    <3>1. PICK s \in Own(p) : r = [s EXCEPT !.tags = {"complete"}]
      BY <2>1
    <3>2. s \in Snapshot /\ s.token = my[p].token /\ s.whole /\ s.token <= creates
      BY <1>0, <2>2 DEF PerSnapshot
    <3>3. /\ r \in Snapshot /\ r.token = s.token /\ r.whole = s.whole
      BY <3>1, <3>2 DEF Snapshot
    <3> QED
      BY <3>2, <3>3 DEF PerSnapshot
  <2>4. \A s \in repository' : PerSnapshot(s)' /\ s \in Snapshot
    BY <1>0, <2>1, <2>3 DEF PerSnapshot
  <2>5. /\ pc' \in [Procs -> Place] /\ pc'[p] = "untag" /\ (\A q \in Procs \ {p} : pc'[q] = pc[q]) /\ lock' = p
    BY <2>1, Going DEF Place
  <2>6. \A s \in Own(p)' : s.whole
    BY <2>1, <2>2, <2>3 DEF Own
  <2>7. Command(p)'
    BY <2>1, <2>2, <2>5, <2>6 DEF Command, Backing, Creating, Restoring
  <2> QED
    BY <1>0, <1>1, <2>1, <2>4, <2>5, <2>7, CommandStep
<1>11. ASSUME NEW p \in Procs, TagRemove(p) PROVE BackupsInv'
  <2>1. /\ pc[p] = "untag" /\ Leave(p) /\ UNCHANGED <<queue, config, target, owned, counts>>
        /\ repository' \subseteq repository
    BY <1>11 DEF TagRemove, Untagged
  <2>2. \A s \in repository' : PerSnapshot(s)'
    BY <1>0, <2>1 DEF PerSnapshot
  <2> QED
    BY <1>0, <1>1, <2>1, <2>2, Leaving, CommandStep
\* restore.
<1>12. ASSUME NEW p \in Procs, NEW t \in Targets, StartRestore(p, t) PROVE BackupsInv'
  <2>1. PICK s \in Listed : Begin(p, [Blank EXCEPT !.config = config, !.snapshot = s, !.target = t], "mkdir")
    BY <1>12 DEF StartRestore
  <2>2. config # None /\ ~target[t].made /\ UNCHANGED <<queue, disk, counts>> /\ s \in Snapshot
    BY <1>0, <1>12 DEF StartRestore, Listed
  <2> DEFINE locals == [Blank EXCEPT !.config = config, !.snapshot = s, !.target = t]
  <2>3. locals \in Local /\ locals.config = config /\ locals.snapshot = s /\ locals.target = t
    <3>1. config \in SUBSET Targets
      BY <1>0, <2>2
    <3>2. Blank \in Local
      BY BoundIsNat DEF Blank, Local
    <3> DEFINE one == [Blank EXCEPT !.config = config]
               two == [one EXCEPT !.snapshot = s]
    <3>3. one \in Local /\ one.config = config
      BY <3>1, <3>2 DEF Local
    <3> HIDE DEF one
    <3>4. two \in Local /\ two.config = config /\ two.snapshot = s
      BY <2>2, <3>3 DEF Local
    <3> HIDE DEF two
    <3>5. locals = [two EXCEPT !.target = t]
      BY DEF one, two
    <3> HIDE DEF locals
    <3> QED
      BY <3>4, <3>5 DEF Local
  <2>4. Begin(p, locals, "mkdir")
    BY <2>1
  <2> HIDE DEF locals
  <2>5. /\ LockFree /\ lock' = p /\ pc' \in [Procs -> Place] /\ pc'[p] = "mkdir"
        /\ \A q \in Procs \ {p} : pc'[q] = pc[q]
        /\ my' \in [Procs -> Local] /\ my'[p] = locals
    BY <1>4, <2>3, <2>4 DEF Place
  <2>6. target[t] = NoTarget /\ NoTarget.note = "none"
    BY <1>0, <2>2 DEF PerTarget, NoTarget
  <2>7. Command(p)'
    BY <2>2, <2>3, <2>5, <2>6 DEF Command, Rebuilding, Creating, Restoring, Mine
  <2> QED
    BY <1>0, <1>1, <1>2, <2>2, <2>5, <2>7, CommandStep
<1>13. ASSUME NEW p \in Procs, pc[p] \in Restoring
       PROVE  /\ Rebuilding(p) /\ my[p].target \in Targets /\ my[p].snapshot \in Snapshot /\ config # None
              /\ Mine(p) \in Target /\ config \subseteq Targets /\ PerTarget(my[p].target) /\ my[p] \in Local
              /\ pc[p] # "mkdir" => my[p].target \notin owned
  BY <1>0, <1>13 DEF Command, Rebuilding, Mine, PerTarget
\* A step that changes p's own target and goes on.
<1>14. ASSUME NEW p \in Procs, pc[p] \in Restoring, NEW new \in Target, NEW label \in Restoring,
              Change(p, new, label), Rebuilding(p)',
              ~new.made => new = NoTarget, new.data # "none" => my[p].target \in config, Noted(new),
              my[p].target \notin owned
       PROVE  BackupsInv'
  <2>1. /\ target' = [target EXCEPT ![my[p].target] = new] /\ Goto(p, label)
        /\ UNCHANGED <<queue, repository, config, owned, my, counts>> /\ pc[p] # "idle"
    BY <1>14 DEF Change, Restoring
  <2>2. target' \in [Targets -> Target] /\ target'[my[p].target] = new
        /\ \A u \in Targets \ {my[p].target} : target'[u] = target[u]
    BY <1>0, <1>13, <1>14, <2>1
  <2>3. \A u \in Targets : PerTarget(u)'
    BY <1>0, <1>13, <1>14, <2>1, <2>2 DEF PerTarget
  <2>4. /\ pc' \in [Procs -> Place] /\ pc'[p] = label /\ (\A q \in Procs \ {p} : pc'[q] = pc[q]) /\ lock' = p
    BY <1>14, <2>1, Going DEF Place, Restoring
  <2>5. Command(p)'
    BY <1>14, <2>4 DEF Command, Creating, Restoring
  <2> QED
    BY <1>0, <1>2, <2>1, <2>2, <2>3, <2>4, <2>5, CommandStep
<1>15. ASSUME NEW p \in Procs, MakeTarget(p) PROVE BackupsInv'
  <2> DEFINE new == [Mine(p) EXCEPT !.made = TRUE]
  <2>1. /\ pc[p] = "mkdir" /\ Change(p, new, "exclude") /\ UNCHANGED <<config, my>> /\ pc[p] \in Restoring
        /\ my[p].target \notin owned
    BY <1>15 DEF MakeTarget, Change, Restoring
  <2>2. Mine(p) = NoTarget /\ new \in Target /\ new = [NoTarget EXCEPT !.made = TRUE] /\ config = my[p].config
    BY ZenonT(40), <1>13, <2>1 DEF Rebuilding, Target
  <2>3. new.made /\ new.data = "none" /\ new.note = "none" /\ Noted(new)
    BY <2>2 DEF NoTarget, Noted
  <2>4. Mine(p)' = new /\ pc'[p] = "exclude"
    BY <1>0, <1>13, <2>1, Going DEF Change, Mine, Place
  <2> HIDE DEF new
  <2>5. Rebuilding(p)'
    BY <1>13, <2>1, <2>2, <2>3, <2>4 DEF Rebuilding
  <2> QED
    BY <1>14, <2>1, <2>2, <2>3, <2>5 DEF Restoring
<1>16. ASSUME NEW p \in Procs, Exclude(p) PROVE BackupsInv'
  <2>1. /\ pc[p] = "exclude" /\ config' = my[p].config \cup {my[p].target} /\ Goto(p, "restore")
        /\ UNCHANGED <<queue, repository, target, owned, my, counts>> /\ pc[p] \in Restoring
    BY <1>16 DEF Exclude, Restoring
  <2>2. config \subseteq config' /\ config' \subseteq Targets /\ my[p].target \in config' /\ config' # None
    BY <1>13, <2>1, NoneAssumption DEF Rebuilding
  <2>3. /\ pc' \in [Procs -> Place] /\ pc'[p] = "restore" /\ (\A q \in Procs \ {p} : pc'[q] = pc[q]) /\ lock' = p
    BY <2>1, Going DEF Place
  <2>4. \A t \in Targets : PerTarget(t)'
    BY <1>0, <2>1, <2>2 DEF PerTarget
  <2>5. Rebuilding(p)'
    BY <1>13, <2>1, <2>2, <2>3 DEF Rebuilding, Mine
  <2>6. Command(p)'
    BY <2>3, <2>5 DEF Command, Creating, Restoring
  <2> QED
    BY <1>0, <1>2, <2>1, <2>2, <2>3, <2>4, <2>6, CommandStep
<1>17. ASSUME NEW p \in Procs, BeginRestic(p) PROVE BackupsInv'
  <2> DEFINE new == [Mine(p) EXCEPT !.data = "partial"]
  <2>1. pc[p] = "restore" /\ pc[p] \in Restoring /\ Change(p, new, "restoring")
    BY <1>17 DEF BeginRestic, Restoring
  <2>2. Mine(p) \in Target /\ Mine(p).made /\ Mine(p).note = "none" /\ my[p].target \in config
    BY <1>13, <2>1 DEF Rebuilding
  <2>3. new \in Target /\ new.made /\ new.note = "none" /\ Noted(new)
    BY <2>2 DEF Target, Content, Noted
  <2> HIDE DEF new
  <2>4. Mine(p)' = new /\ pc'[p] = "restoring" /\ UNCHANGED <<config, my>>
    BY <1>0, <1>13, <2>1, Going DEF Change, Mine, Place
  <2>5. Rebuilding(p)'
    BY <1>13, <2>1, <2>2, <2>3, <2>4 DEF Rebuilding
  <2> QED
    BY <1>13, <1>14, <2>1, <2>2, <2>3, <2>5 DEF Restoring
<1>18. ASSUME NEW p \in Procs, pc[p] = "restoring"
       PROVE  /\ Restored(p) \in Target /\ Restored(p).made /\ Restored(p).data = "whole"
              /\ Restored(p).note = "none" /\ Noted(Restored(p)) /\ my[p].target \in config
  <2>1. /\ Mine(p) \in Target /\ Mine(p).made /\ Mine(p).note = "none" /\ my[p].target \in config
        /\ my[p].snapshot.queue \in Queue \cup {None}
    BY <1>13, <1>18 DEF Rebuilding, Snapshot, Restoring
  <2> DEFINE data == [Mine(p) EXCEPT !.data = "whole"]
  <2>2. data \in Target /\ data.data = "whole" /\ data.made /\ data.note = "none"
    BY <2>1 DEF Target, Content
  <2> HIDE DEF data
  <2>3. Restored(p) = [data EXCEPT !.original = my[p].snapshot.queue]
    BY DEF data, Restored
  <2> QED
    BY <2>1, <2>2, <2>3 DEF Target, Noted
<1>19. ASSUME NEW p \in Procs, ResticRestore(p) PROVE BackupsInv'
  <2>1. pc[p] = "restoring" /\ pc[p] \in Restoring /\ Change(p, Restored(p), "prepare")
    BY <1>19 DEF ResticRestore, Restoring
  <2>2. Mine(p)' = Restored(p) /\ pc'[p] = "prepare" /\ UNCHANGED <<config, my>>
    BY <1>0, <1>13, <2>1, Going DEF Change, Mine, Place
  <2>3. Rebuilding(p)'
    BY <1>13, <1>18, <2>1, <2>2 DEF Rebuilding
  <2> QED
    BY <1>13, <1>14, <1>18, <2>1, <2>3 DEF Restoring
<1>20. ASSUME NEW p \in Procs, CopyPrepared(p) PROVE BackupsInv'
  <2> DEFINE new   == [Mine(p) EXCEPT !.prepared = Mine(p).original]
             label == IF Mine(p).original = None THEN "note" ELSE "quarantine"
  <2>1. pc[p] = "prepare" /\ pc[p] \in Restoring /\ Change(p, new, label)
    BY <1>20 DEF CopyPrepared, Restoring
  <2>2. /\ Mine(p) \in Target /\ Mine(p).made /\ Mine(p).data = "whole" /\ Mine(p).note = "none"
        /\ my[p].target \in config
    BY <1>13, <2>1 DEF Rebuilding
  <2>3. /\ new \in Target /\ new.made /\ new.data = "whole" /\ new.note = "none" /\ Noted(new)
        /\ new.original = Mine(p).original /\ new.prepared = Mine(p).original
    BY <2>2 DEF Target, Noted
  <2>4. label \in Restoring /\ label \in {"note", "quarantine"} /\ (label = "note" <=> Mine(p).original = None)
    BY DEF Restoring
  <2> HIDE DEF new, label
  <2>5. Mine(p)' = new /\ pc'[p] = label /\ UNCHANGED <<config, my>>
    BY <1>0, <1>13, <2>1, <2>4, Going DEF Change, Mine, Place
  <2>6. Rebuilding(p)'
    BY <1>13, <2>1, <2>2, <2>3, <2>4, <2>5 DEF Rebuilding, PreparedFor
  <2> QED
    BY <1>13, <1>14, <2>1, <2>2, <2>3, <2>4, <2>6
<1>21. ASSUME NEW p \in Procs, Quarantine(p) PROVE BackupsInv'
  <2> DEFINE quiet == Quarantined(Mine(p).prepared)
             new   == [Mine(p) EXCEPT !.prepared = quiet]
  <2>1. pc[p] = "quarantine" /\ pc[p] \in Restoring /\ Change(p, new, "note")
    BY <1>21 DEF Quarantine, Restoring
  <2>2. /\ Mine(p) \in Target /\ Mine(p).made /\ Mine(p).data = "whole" /\ Mine(p).note = "none"
        /\ my[p].target \in config /\ Mine(p).original # None /\ Mine(p).prepared \in Queue
    BY <1>13, <2>1 DEF Rebuilding, Target
  <2>3. quiet \in Queue /\ quiet # None /\ Quiet(quiet)
    BY <2>2, QuarantineIsQuiet
  <2> HIDE DEF quiet
  <2>4. /\ new \in Target /\ new.made /\ new.data = "whole" /\ new.note = "none" /\ Noted(new)
        /\ new.original = Mine(p).original /\ new.prepared = quiet
    BY <2>2, <2>3 DEF Target, Noted
  <2> HIDE DEF new
  <2>5. Mine(p)' = new /\ pc'[p] = "note" /\ UNCHANGED <<config, my>>
    BY <1>0, <1>13, <2>1, Going DEF Change, Mine, Place
  <2>6. PreparedFor(new)
    BY <2>2, <2>3, <2>4 DEF PreparedFor
  <2>7. Rebuilding(p)'
    BY <1>13, <2>1, <2>2, <2>4, <2>5, <2>6 DEF Rebuilding
  <2> QED
    BY <1>13, <1>14, <2>1, <2>2, <2>4, <2>7 DEF Restoring
\* The last step of a restore, on p's own target.
<1>22. ASSUME NEW p \in Procs, pc[p] \in Restoring \ {"mkdir"}, NEW new \in Target,
              target' = [target EXCEPT ![my[p].target] = new], Leave(p),
              UNCHANGED <<queue, repository, config, owned, creates>>,
              new.made, my[p].target \in config, Noted(new)
       PROVE  BackupsInv'
  <2>1. target' \in [Targets -> Target] /\ target'[my[p].target] = new
        /\ (\A u \in Targets \ {my[p].target} : target'[u] = target[u]) /\ pc[p] # "idle"
    BY <1>0, <1>13, <1>22 DEF Restoring
  <2>2. \A u \in Targets : PerTarget(u)'
    BY <1>0, <1>13, <1>22, <2>1 DEF PerTarget
  <2> QED
    BY <1>0, <1>2, <1>22, <2>1, <2>2, Leaving, CommandStep
<1>23. ASSUME NEW p \in Procs, pc[p] \in {"note", "write"}, NEW note \in Content
       PROVE  LET new == [Mine(p) EXCEPT !.note = note]
              IN  /\ new \in Target /\ new.made /\ new.data = "whole" /\ PreparedFor(new) /\ Noted(new)
                  /\ my[p].target \in config /\ pc[p] \in Restoring \ {"mkdir"}
  <2> DEFINE new == [Mine(p) EXCEPT !.note = note]
  <2>1. /\ Mine(p) \in Target /\ Mine(p).made /\ Mine(p).data = "whole" /\ PreparedFor(Mine(p))
        /\ my[p].target \in config /\ pc[p] \in Restoring \ {"mkdir"}
    BY <1>13, <1>23 DEF Rebuilding, Restoring
  <2>2. /\ new \in Target /\ new.made /\ new.data = "whole"
        /\ new.original = Mine(p).original /\ new.prepared = Mine(p).prepared
    BY <2>1 DEF Target
  <2> HIDE DEF new
  <2>3. PreparedFor(new)
    BY <2>1, <2>2 DEF PreparedFor
  <2>4. Noted(new)
    BY <2>2, <2>3 DEF Noted
  <2> QED
    BY <2>1, <2>2, <2>3, <2>4 DEF new
<1>24. ASSUME NEW p \in Procs, CreateNote(p) PROVE BackupsInv'
  <2> DEFINE new == [Mine(p) EXCEPT !.note = "partial"]
  <2>1. pc[p] = "note" /\ Change(p, new, "write")
    BY <1>24 DEF CreateNote
  <2>2. /\ new \in Target /\ new.made /\ new.data = "whole" /\ PreparedFor(new) /\ Noted(new)
        /\ my[p].target \in config /\ pc[p] \in Restoring \ {"mkdir"}
    BY <1>23, <2>1 DEF Content
  <2> HIDE DEF new
  <2>3. Mine(p)' = new /\ pc'[p] = "write" /\ UNCHANGED <<config, my>>
    BY <1>0, <1>13, <2>1, <2>2, Going DEF Change, Mine, Place
  <2>4. Rebuilding(p)'
    BY <1>13, <2>2, <2>3 DEF Rebuilding
  <2> QED
    BY <1>13, <1>14, <2>1, <2>2, <2>4 DEF Restoring
<1>25. ASSUME NEW p \in Procs, WriteNote(p) PROVE BackupsInv'
  <2> DEFINE new == [Mine(p) EXCEPT !.note = "whole"]
  <2>1. /\ pc[p] = "write" /\ UNCHANGED <<queue, repository, config, owned, counts>>
        /\ target' = [target EXCEPT ![my[p].target].note = "whole"]
        /\ Leave(p) \/ (Goto(p, "failed") /\ UNCHANGED my)
    BY <1>25 DEF WriteNote
  <2>2. target' = [target EXCEPT ![my[p].target] = new]
    BY <2>1 DEF Mine
  <2>3. /\ new \in Target /\ new.made /\ new.data = "whole" /\ PreparedFor(new) /\ Noted(new)
        /\ my[p].target \in config /\ pc[p] \in Restoring \ {"mkdir"}
    BY <1>23, <2>1 DEF Content
  <2> HIDE DEF new
  <2>4. CASE Leave(p)
    BY <1>22, <2>1, <2>2, <2>3, <2>4
  <2>5. CASE Goto(p, "failed") /\ UNCHANGED my
    <3>1. Change(p, new, "failed")
      BY <2>1, <2>2, <2>5 DEF Change
    <3>2. Mine(p)' = new /\ pc'[p] = "failed" /\ UNCHANGED <<config, my>>
      BY <1>0, <1>13, <2>1, <2>3, <3>1, Going DEF Change, Mine, Place
    <3>3. Rebuilding(p)'
      BY <1>13, <2>3, <3>2 DEF Rebuilding
    <3> QED
      BY <1>13, <1>14, <2>1, <2>3, <3>1, <3>3 DEF Restoring
  <2> QED
    BY <2>1, <2>4, <2>5
<1>26. ASSUME NEW p \in Procs, RestoreFails(p) PROVE BackupsInv'
  <2>1. /\ pc[p] \in Restoring \ {"mkdir", "exclude", "failed"} /\ Goto(p, "failed")
        /\ UNCHANGED <<queue, disk, my, counts>>
    BY <1>26 DEF RestoreFails, Restoring
  <2>2. /\ pc' \in [Procs -> Place] /\ pc'[p] = "failed" /\ (\A q \in Procs \ {p} : pc'[q] = pc[q]) /\ lock' = p
    BY <2>1, Going DEF Place, Restoring
  <2>3. Rebuilding(p)'
    BY <1>13, <2>1, <2>2 DEF Rebuilding, Mine
  <2>4. Command(p)'
    BY <2>2, <2>3 DEF Command, Creating, Restoring
  <2> QED
    BY <1>0, <1>1, <1>2, <2>1, <2>2, <2>4, CommandStep DEF Restoring
<1>27. ASSUME NEW p \in Procs, WriteIncomplete(p) PROVE BackupsInv'
  <2>1. PICK written \in BOOLEAN : target' = [target EXCEPT ![my[p].target].incomplete = written]
    BY <1>27 DEF WriteIncomplete
  <2> DEFINE new == [Mine(p) EXCEPT !.incomplete = written]
  <2>2. /\ pc[p] = "failed" /\ pc[p] \in Restoring \ {"mkdir"} /\ Leave(p)
        /\ UNCHANGED <<queue, repository, config, owned, counts>>
        /\ target' = [target EXCEPT ![my[p].target] = new]
    BY <1>27, <2>1 DEF WriteIncomplete, Restoring, Mine
  <2>3. Mine(p) \in Target /\ Mine(p).made /\ Noted(Mine(p)) /\ my[p].target \in config
    BY <1>13, <2>2 DEF Rebuilding, PerTarget, Mine
  <2>4. /\ new \in Target /\ new.made /\ new.note = Mine(p).note /\ new.data = Mine(p).data
        /\ new.original = Mine(p).original /\ new.prepared = Mine(p).prepared
    BY <2>3 DEF Target
  <2> HIDE DEF new
  <2>5. Noted(new)
    BY <2>3, <2>4 DEF Noted, PreparedFor
  <2> QED
    BY <1>22, <2>2, <2>3, <2>4, <2>5
\* Refusals, kills, what others make, and the loss of the host.
<1>28. ASSUME NEW p \in Procs, Refuse(p) PROVE BackupsInv'
  BY <1>28, QuietLeave DEF Refuse
<1>29. ASSUME NEW p \in Procs, Kill(p) PROVE BackupsInv'
  <2>1. pc[p] # "idle" /\ Leave(p) /\ UNCHANGED <<queue, config, owned, creates>>
    BY <1>29 DEF Kill
  <2>2. CASE UNCHANGED <<repository, target>>
    BY <2>1, <2>2, QuietLeave
  <2>3. CASE pc[p] = "backup" /\ UNCHANGED target
             /\ \E whole \in BOOLEAN : repository' = repository \cup {Stored(p, whole)}
    <3>1. repository' \subseteq Snapshot /\ \A s \in repository' : PerSnapshot(s)'
      BY <1>7, <2>1, <2>3
    <3> QED
      BY <1>0, <1>1, <2>1, <2>3, <3>1, Leaving, CommandStep
  <2>4. CASE pc[p] = "untag" /\ UNCHANGED target /\ repository' = Untagged(p)
    <3>1. repository' \subseteq repository
      BY <2>4 DEF Untagged
    <3>2. \A s \in repository' : PerSnapshot(s)'
      BY <1>0, <2>1, <3>1 DEF PerSnapshot
    <3> QED
      BY <1>0, <1>1, <2>1, <2>4, <3>1, <3>2, Leaving, CommandStep
  <2>5. CASE /\ pc[p] = "restoring" /\ UNCHANGED repository
             /\ target' = [target EXCEPT ![my[p].target] = Restored(p)]
    BY <1>22, <1>18, <2>1, <2>5 DEF Restoring
  <2> QED
    BY <1>29, <2>2, <2>3, <2>4, <2>5 DEF Kill, ResticGoesOn
<1>30. ASSUME NEW t \in Targets, OwnTarget(t) PROVE BackupsInv'
  <2>1. /\ ~target[t].made /\ owned' = owned \cup {t}
        /\ UNCHANGED <<queue, repository, config, target, lock, pc, my, creates>>
    BY <1>30 DEF OwnTarget
  <2>2. TypeOK'
    BY <1>0, <2>1 DEF queue, TypeOK, Place, Local
  <2>3. \A u \in Targets : PerTarget(u)'
    BY <1>0, <2>1 DEF PerTarget
  <2>4. (\A p \in Procs : Command(p)') /\ (\A j \in Jobs : PerJob(j)')
    BY ZenonT(40), <1>0, <2>1 DEF queue, Command, Backing, Rebuilding, Own, Mine, PerJob
  <2> QED
    BY <1>0, <1>2, <2>1, <2>2, <2>3, <2>4 DEF BackupsInv
<1>31. CASE LoseHost
  <2>1. /\ live' = None /\ worker' = FALSE /\ config' = None /\ target' = [t \in Targets |-> NoTarget]
        /\ owned' = {} /\ lock' = None /\ pc' = [p \in Procs |-> "idle"] /\ my' = [p \in Procs |-> Blank]
        /\ UNCHANGED <<submitted, started, repository, creates>>
    BY <1>31 DEF LoseHost
  <2>2. NoTarget \in Target /\ NoTarget.data = "none" /\ Noted(NoTarget)
    BY DEF NoTarget, Target, Content, Noted
  <2>3. Blank \in Local
    BY BoundIsNat DEF Blank, Local
  <2>4. TypeOK'
    BY <1>0, <2>1, <2>2, <2>3 DEF TypeOK, Local
  <2>5. (\A p \in Procs : Command(p)') /\ (\A t \in Targets : PerTarget(t)') /\ (\A j \in Jobs : PerJob(j)')
    BY <1>0, <2>1, <2>2 DEF Command, PerTarget, PerJob, Creating, Restoring
  <2> QED
    BY <1>0, <1>2, <2>1, <2>4, <2>5 DEF BackupsInv
\* The live queue.
<1>32. ASSUME LiveStep, live' \in Queue, worker' \in BOOLEAN, submitted' \subseteq Jobs, started' \in [Jobs -> Nat],
              \A j \in Jobs : PerJob(j)'
       PROVE  BackupsInv'
  <2>1. TypeOK'
    BY <1>0, <1>32, NoneAssumption DEF LiveStep, TypeOK, Place, Local
  <2>2. \A p \in Procs : Command(p)'
    BY ZenonT(40), <1>0, <1>32 DEF LiveStep, Command, Backing, Rebuilding, Own, Mine
  <2> QED
    BY <1>0, <1>1, <1>2, <1>32, <2>1, <2>2 DEF LiveStep, BackupsInv
<1>33. /\ Present \in Queue
       /\ \A j \in Jobs : Present.state[j] = "queued" => live # None /\ live.state[j] = "queued"
  BY <1>0 DEF Present, Empty, Queue, JobState
<1>34. live # None => live \in Queue
  BY <1>0
<1>35. ASSUME NEW j \in Jobs, Submit(j) PROVE BackupsInv'
  <2>1. /\ live' = [Present EXCEPT !.state[j] = "queued"] /\ j \notin submitted /\ submitted' = submitted \cup {j}
        /\ UNCHANGED <<worker, started>> /\ LiveStep
    BY <1>35 DEF Submit
  <2>2. live' \in Queue /\ \A k \in Jobs \ {j} : live'.state[k] = Present.state[k]
    BY <1>33, <2>1 DEF Queue, JobState
  <2>3. \A k \in Jobs : PerJob(k)'
    BY <1>0, <1>33, <2>1, <2>2 DEF PerJob
  <2> QED
    BY <1>0, <1>32, <2>1, <2>2, <2>3
<1>36. CASE EnableTask \/ StartWorker
  <2>1. live' \in Queue /\ live'.state = Present.state
    <3>1. CASE EnableTask
      BY <1>33, <3>1 DEF EnableTask, Queue
    <3>2. CASE StartWorker
      BY <1>33, <3>2 DEF StartWorker, Queue
    <3> QED
      BY <1>36, <3>1, <3>2
  <2>2. worker' \in BOOLEAN /\ UNCHANGED <<submitted, started>> /\ LiveStep
    BY <1>0, <1>36 DEF EnableTask, StartWorker
  <2>3. \A k \in Jobs : PerJob(k)'
    BY <1>0, <1>33, <2>1, <2>2 DEF PerJob
  <2> QED
    BY <1>0, <1>32, <2>1, <2>2, <2>3
<1>37. CASE StopWorker
  <2>1. /\ worker /\ worker' = FALSE /\ UNCHANGED <<submitted, started>> /\ LiveStep
        /\ live' = [live EXCEPT !.state = [j \in Jobs |-> IF @[j] = "running" THEN "interrupted" ELSE @[j]]]
    BY <1>37 DEF StopWorker
  <2>2. live \in Queue
    BY <1>0, <2>1
  <2>3. live' \in Queue /\ \A j \in Jobs : live'.state[j] = "queued" => live.state[j] = "queued"
    BY <2>1, <2>2 DEF Queue, JobState
  <2>4. \A k \in Jobs : PerJob(k)'
    BY <1>0, <2>1, <2>2, <2>3, NoneAssumption DEF PerJob
  <2> QED
    BY <1>0, <1>32, <2>1, <2>3, <2>4
<1>38. ASSUME NEW j \in Jobs, NEW s \in {"running", "succeeded"}, worker, live' = [live EXCEPT !.state[j] = s]
       PROVE  /\ live \in Queue /\ live # None /\ live' \in Queue
              /\ \A k \in Jobs : live'.state[k] = "queued" => k # j /\ live.state[k] = "queued"
  <2>1. live \in Queue /\ live # None
    BY <1>0, <1>38
  <2>2. live' \in Queue /\ live'.state = [live.state EXCEPT ![j] = s]
    BY <1>38, <2>1 DEF Queue, JobState
  <2> QED
    BY <2>1, <2>2 DEF Queue
<1>39. ASSUME NEW j \in Jobs, Claim(j) PROVE BackupsInv'
  <2>1. /\ worker /\ live.state[j] = "queued" /\ live' = [live EXCEPT !.state[j] = "running"]
        /\ started' = [started EXCEPT ![j] = @ + 1] /\ UNCHANGED <<worker, submitted>> /\ LiveStep
    BY <1>39 DEF Claim
  <2>2. /\ live # None /\ live' \in Queue
        /\ \A k \in Jobs : live'.state[k] = "queued" => k # j /\ live.state[k] = "queued"
    BY <1>38, <2>1
  <2>3. live.state[j] = "queued" /\ started[j] = 0 /\ j \in submitted
    BY <1>0, <2>1, <2>2 DEF PerJob
  <2>4. started' \in [Jobs -> Nat] /\ started'[j] = 1 /\ \A k \in Jobs \ {j} : started'[k] = started[k]
    BY <1>0, <2>1, <2>3
  <2>5. ASSUME NEW k \in Jobs PROVE PerJob(k)'
    <3>1. CASE k = j
      BY <2>1, <2>2, <2>3, <2>4, <3>1 DEF PerJob
    <3>2. CASE k # j
      BY <1>0, <2>1, <2>2, <2>4, <3>2 DEF PerJob
    <3> QED
      BY <3>1, <3>2
  <2> QED
    BY <1>0, <1>32, <2>1, <2>2, <2>4, <2>5
<1>40. ASSUME NEW j \in Jobs, Finish(j) PROVE BackupsInv'
  <2>1. /\ worker /\ live' = [live EXCEPT !.state[j] = "succeeded"]
        /\ UNCHANGED <<worker, submitted, started>> /\ LiveStep
    BY <1>40 DEF Finish
  <2>2. /\ live # None /\ live' \in Queue
        /\ \A k \in Jobs : live'.state[k] = "queued" => k # j /\ live.state[k] = "queued"
    BY <1>38, <2>1
  <2>3. \A k \in Jobs : PerJob(k)'
    BY <1>0, <2>1, <2>2 DEF PerJob
  <2> QED
    BY <1>0, <1>32, <2>1, <2>2, <2>3
<1>41. ASSUME NEW t \in Targets, PutInPlace(t) PROVE BackupsInv'
  <2>1. /\ target[t].note # "none" /\ target[t].prepared # None /\ live' = target[t].prepared
        /\ UNCHANGED <<worker, submitted, started>> /\ LiveStep
    BY <1>41 DEF PutInPlace
  <2>2. live' \in Queue /\ Quiet(live')
    BY <1>0, <2>1 DEF PerTarget, Noted, PreparedFor, Target
  <2>3. \A j \in Jobs : live'.state[j] # "queued"
    BY <2>2 DEF Quiet, Pending
  <2>4. \A k \in Jobs : PerJob(k)'
    BY <1>0, <2>1, <2>3 DEF PerJob
  <2> QED
    BY <1>0, <1>32, <2>1, <2>2, <2>4
<1>42. CASE UNCHANGED vars
  <2>1. UNCHANGED <<queue, disk, lock, pc, my, creates>>
    BY <1>42 DEF vars
  <2>2. TypeOK'
    BY <1>0, <2>1 DEF queue, TypeOK, Place, Local
  <2>3. (\A p \in Procs : Command(p)') /\ (\A j \in Jobs : PerJob(j)')
    BY ZenonT(40), <1>0, <2>1 DEF queue, Command, Backing, Rebuilding, Own, Mine, PerJob
  <2> QED
    BY <1>0, <1>1, <1>2, <2>1, <2>2, <2>3 DEF BackupsInv
<1>43. ASSUME NEW p \in Procs, Create(p) \/ Restore(p) PROVE BackupsInv'
  BY <1>5, <1>6, <1>8, <1>9, <1>10, <1>11, <1>12, <1>15, <1>16, <1>19, <1>20, <1>21, <1>25, <1>26, <1>27, <1>43,
     <1>17, <1>24
     DEF Create, Restore
<1>44. CASE Live
  BY <1>35, <1>36, <1>37, <1>39, <1>40, <1>41, <1>44 DEF Live
<1> QED
  BY <1>3, <1>28, <1>31, <1>42, <1>43, <1>44, <1>29, <1>30 DEF Next

\* An empty host and an empty repository.
LEMMA BackupsStart == Init => BackupsInv
<1> SUFFICES ASSUME Init PROVE BackupsInv
  OBVIOUS
<1>1. NoTarget \in Target /\ NoTarget.data = "none" /\ Noted(NoTarget)
  BY DEF NoTarget, Target, Content, Noted
<1>2. Blank \in Local
  BY BoundIsNat DEF Blank, Local
<1>3. TypeOK
  BY <1>1, <1>2 DEF Init, TypeOK, Local
<1>4. (\A p \in Procs : Command(p)) /\ (\A t \in Targets : PerTarget(t))
  BY <1>1 DEF Init, Command, PerTarget, Creating, Restoring
<1>5. (\A s \in repository : PerSnapshot(s)) /\ (\A j \in Jobs : PerJob(j))
  BY DEF Init, PerSnapshot, PerJob
<1> QED
  BY <1>3, <1>4, <1>5 DEF Init, BackupsInv

-----------------------------------------------------------------------------
\* TypeOK for any commands, jobs, targets, backups, kills and lost hosts.
THEOREM BackupsTypes == Spec => []TypeOK
<1>1. BackupsInv => TypeOK
  BY DEF BackupsInv
<1> QED
  BY <1>1, BackupsStart, BackupsStep, PTL DEF Spec

\* ListedIsWhole: create() publishes a snapshot only once its manifest was read
\* back, so that whatever cut a backup short, its snapshot is not offered.
THEOREM OnlyWholeIsListed == Spec => []ListedIsWhole
<1>1. BackupsInv => ListedIsWhole
  BY DEF BackupsInv, PerSnapshot, ListedIsWhole, Listed
<1> QED
  BY <1>1, BackupsStart, BackupsStep, PTL DEF Spec

\* NothingReplays: prepare_queue() leaves nothing to run, so that no job starts
\* twice on any host, and it has ended before RECOVERY.json is created.
THEOREM RecoveryReplaysNothing == Spec => []NothingReplays
<1>1. BackupsInv => NothingReplays
  <2> SUFFICES ASSUME BackupsInv PROVE NothingReplays
    OBVIOUS
  <2>1. ASSUME NEW j \in Jobs PROVE started[j] <= 1
    <3>1. started[j] \in Nat /\ (started[j] > 0 => started[j] = 1)
      BY DEF BackupsInv, TypeOK, PerJob
    <3> QED
      BY ONLY <3>1
  <2>2. ASSUME NEW t \in Targets, target[t].note # "none"
        PROVE  /\ target[t].data = "whole"
               /\ target[t].original # None => target[t].prepared # None /\ Quiet(target[t].prepared)
    BY <2>2 DEF BackupsInv, PerTarget, Noted, PreparedFor
  <2> QED
    BY <2>1, <2>2 DEF NothingReplays
<1> QED
  BY <1>1, BackupsStart, BackupsStep, PTL DEF Spec

\* OwnTreesKept: the directory of a restore is made by an exclusive mkdir, so that
\* what came under its name since the check is left alone.
THEOREM OwnTreesStay == Spec => []OwnTreesKept
<1>1. BackupsInv => OwnTreesKept
  BY DEF BackupsInv, TypeOK, PerTarget, OwnTreesKept
<1> QED
  BY <1>1, BackupsStart, BackupsStep, PTL DEF Spec
=============================================================================
