---------------------------- MODULE Notifications ----------------------------
(***************************************************************************)
(* `rougarou notify`: a check, started by a systemd timer or by hand, posts *)
(* the queue's new failures and the host's new health conditions to a      *)
(* webhook.  The state file remembers how far the event log was reported   *)
(* and which conditions are known; it is rewritten, atomically, after each *)
(* delivery.  Checks and `configure` exclude each other by a lock that is  *)
(* not waited for.  Failures, kills and a replaced queue come at any step. *)
(***************************************************************************)
EXTENDS Integers, Sequences, FiniteSets, SequencesExt

CONSTANTS
    Service,            \* the check that the timer starts
    Hand,               \* a `rougarou notify` command in a terminal
    Conditions,         \* health conditions of the host
    None,               \* no process, no identity, no file
    Limit,              \* LIMIT of the query: job events per check
    Backups,            \* queues the operator may put in place: "own", "foreign"
    MaxEvents,          \* bound on the events ever recorded
    MaxConfigs,         \* bound on configurations
    MaxRises,           \* bound on the times a condition becomes true
    MaxFaults           \* bound on kills and on replies that are lost

ASSUME ProcsAssumption == Service # Hand
ASSUME LimitAssumption == Limit \in Nat \ {0} /\ Backups \subseteq {"own", "foreign"}
ASSUME BoundAssumption == {MaxEvents, MaxConfigs, MaxRises, MaxFaults} \subseteq Nat

VARIABLES
    log,                \* the events table: each entry is the job it is about
    failures,           \* the jobs whose event is failed, timed_out or interrupted
    foreign,            \* the jobs that came with a queue of another host
    born,               \* number of jobs so far
    active,             \* health conditions that hold now
    config,             \* which configuration is on disk; 0 is none
    saved,              \* the state file, or None
    timer,              \* systemd: on, stopping (timer off, service not yet) or off
    lock,               \* holder of notification-delivery.lock
    pc,                 \* next step of each process
    my,                 \* its locals
    posted,             \* how often the endpoint got each job's failure
    alerts, rises,      \* how often it got each condition, how often that came true
    settled,            \* jobs in the history that a cursor was set behind
    faults, replaced

queue   == <<log, failures, foreign, born, replaced>>
health  == <<active, rises>>
webhook == <<posted, alerts>>
vars    == <<queue, health, config, saved, timer, lock, pc, my, webhook, settled, faults>>

Procs == {Service, Hand}
Facts == 1..MaxEvents
Cursor    == [identity : Facts \cup {None}, sequence : 0..MaxEvents]
StateFile == [queue : Cursor, health : SUBSET Conditions]

\* What a check reads and works off: state is its copy of the file; rows are
\* the rows of the log still to report; full says that LIMIT was reached;
\* skip is the history that a cursor it sets leaves behind.
Blank == [state |-> None, position |-> None, rows |-> {}, full |-> FALSE,
          todo |-> {}, skip |-> {}]

ASSUME NoneAssumption == None \notin Procs \cup Facts \cup StateFile

Init ==
    /\ log = <<>> /\ failures = {} /\ foreign = {} /\ born = 0 /\ replaced = "no"
    /\ active = {} /\ rises = [c \in Conditions |-> 0]
    /\ config = 0 /\ saved = None /\ timer = "off"
    /\ lock = None
    /\ pc = [p \in Procs |-> "idle"]
    /\ my = [p \in Procs |-> Blank]
    /\ posted = [f \in Facts |-> 0] /\ alerts = [c \in Conditions |-> 0]
    /\ settled = {}
    /\ faults = 0

-----------------------------------------------------------------------------
(* Helpers.                                                                *)

\* queue_position(): the first job names the queue, the last seq is its end.
Position == [identity |-> IF log = <<>> THEN None ELSE Head(log), sequence |-> Len(log)]

\* Plausible bug: a new cursor starts at the beginning of the history.
StartAtZero == [Position EXCEPT !.sequence = 0]

\* Where a cursor that is set for the first time starts.
Start == Position

Goto(p, label) == pc' = [pc EXCEPT ![p] = label]

\* Plausible bug: a lock file that a failed check does not remove.
LeaveLocked(p) ==
    /\ Goto(p, "idle")
    /\ UNCHANGED lock
    /\ my' = [my EXCEPT ![p] = Blank]

\* The process ends, by return, error or signal, and the kernel drops its lock.
Leave(p) ==
    /\ Goto(p, "idle")
    /\ lock' = IF lock = p THEN None ELSE lock
    /\ my' = [my EXCEPT ![p] = Blank]

Fault == faults < MaxFaults /\ faults' = faults + 1

LockFree == lock = None

Begin(p, label) ==
    /\ pc[p] = "idle" /\ LockFree
    /\ lock' = p
    /\ Goto(p, label)
    /\ UNCHANGED <<queue, health, config, saved, timer, my, webhook, settled, faults>>

\* save_state() at any of its places, and what comes after it.
AfterSave == [first |-> "position", reset |-> "health", row |-> "rows", tail |-> "health",
              known |-> "alerts", alert |-> "alerts", configured |-> "done"]

Save(p) ==
    /\ pc[p] \in DOMAIN AfterSave
    /\ saved' = my[p].state
    /\ settled' = settled \cup my[p].skip
    /\ my' = [my EXCEPT ![p].skip = {}]
    /\ Goto(p, AfterSave[pc[p]])
    /\ UNCHANGED <<queue, health, config, timer, lock, webhook, faults>>

-----------------------------------------------------------------------------
(* configure: the configuration file, then a cursor at the end of history. *)

StartConfigure == config < MaxConfigs /\ Begin(Hand, "config")

WriteConfig(p) ==
    /\ pc[p] = "config"
    /\ config' = config + 1
    /\ Goto(p, "cursor")
    /\ UNCHANGED <<queue, health, saved, timer, lock, my, webhook, settled, faults>>

SetCursor(p, label) ==
    /\ my' = [my EXCEPT ![p].state = [queue |-> Start, health |-> {}],
                        ![p].skip = ToSet(log)]
    /\ Goto(p, label)
    /\ UNCHANGED <<queue, health, config, saved, timer, lock, webhook, settled, faults>>

-----------------------------------------------------------------------------
(* check(): new failures of the queue.                                     *)

StartCheck(p) == (p = Service => timer = "on") /\ Begin(p, "load")

LoadNothing(p) ==
    /\ pc[p] = "load" /\ config = 0
    /\ Leave(p)
    /\ UNCHANGED <<queue, health, config, saved, timer, webhook, settled, faults>>

LoadFirst(p) == pc[p] = "load" /\ config # 0 /\ saved = None /\ SetCursor(p, "first")

Load(p) ==
    /\ pc[p] = "load" /\ config # 0 /\ saved # None
    /\ my' = [my EXCEPT ![p].state = saved]
    /\ Goto(p, "position")
    /\ UNCHANGED <<queue, health, config, saved, timer, lock, webhook, settled, faults>>

\* A cursor without an identity was set before the queue had any event.
SameQueue(cursor) == /\ cursor.identity \in {None, Position.identity}
                     /\ cursor.sequence <= Position.sequence

ReadPosition(p) ==
    /\ pc[p] = "position"
    /\ LET cursor == my[p].state.queue IN
       IF ~SameQueue(cursor)
       THEN /\ my' = [my EXCEPT ![p].state.queue = Position, ![p].skip = ToSet(log)]
            /\ Goto(p, "reset")
       ELSE /\ my' = [my EXCEPT ![p].position = Position]
            /\ Goto(p, IF cursor.sequence < Position.sequence THEN "query" ELSE "health")
    /\ UNCHANGED <<queue, health, config, saved, timer, lock, webhook, settled, faults>>

\* A second connection reads the rows; the queue may have changed since.
NewFailures(after, upto) == {n \in 1..Len(log) : after < n /\ n <= upto /\ log[n] \in failures}

\* ORDER BY seq LIMIT.
Page(found) == {n \in found : Cardinality({m \in found : m < n}) < Limit}

Query(p) ==
    /\ pc[p] = "query"
    /\ LET found == NewFailures(my[p].state.queue.sequence, my[p].position.sequence) IN
       my' = [my EXCEPT ![p].rows = {[seq |-> n, job |-> log[n]] : n \in Page(found)},
                        ![p].full = Cardinality(found) >= Limit]
    /\ Goto(p, "rows")
    /\ UNCHANGED <<queue, health, config, saved, timer, lock, webhook, settled, faults>>

\* Plausible bug: the cursor moves only once the page is through.
AdvanceAtEnd(p, row) == my[p].state

Advance(p, row) ==
    [my[p].state EXCEPT !.queue = [identity |-> my[p].position.identity, sequence |-> row.seq]]

\* The rows are posted in their order.
IsNext(row, rows) == row \in rows /\ \A other \in rows : row.seq <= other.seq

\* send() of one failure: the endpoint takes it.
PostRow(p) ==
    /\ pc[p] = "rows"
    /\ \E row \in my[p].rows :
          /\ IsNext(row, my[p].rows)
          /\ posted' = [posted EXCEPT ![row.job] = @ + 1]
          /\ my' = [my EXCEPT ![p].rows = @ \ {row}, ![p].state = Advance(p, row)]
    /\ Goto(p, "row")
    /\ UNCHANGED <<queue, health, config, saved, timer, lock, alerts, settled, faults>>

\* Plausible bug: the cursor goes to the end although the page was full.
PageDoneAlways(p) == TRUE

PageDone(p) == ~my[p].full

RowsDone(p) ==
    /\ pc[p] = "rows" /\ my[p].rows = {}
    /\ my' = [my EXCEPT ![p].state.queue = IF PageDone(p) THEN my[p].position ELSE @]
    /\ Goto(p, IF PageDone(p) THEN "tail" ELSE "health")
    /\ UNCHANGED <<queue, health, config, saved, timer, lock, webhook, settled, faults>>

-----------------------------------------------------------------------------
(* check(): health conditions, and send() that fails.                      *)

\* Plausible bug: a condition counts as known before it is posted.
KnownAtOnce(p) == active

StillKnown(p) == my[p].state.health \cap active

ReadHealth(p) ==
    /\ pc[p] = "health"
    /\ my' = [my EXCEPT ![p].state.health = StillKnown(p),
                        ![p].todo = active \ my[p].state.health]
    /\ Goto(p, "known")
    /\ UNCHANGED <<queue, health, config, saved, timer, lock, webhook, settled, faults>>

PostAlert(p) ==
    /\ pc[p] = "alerts"
    /\ \E c \in my[p].todo :
          /\ alerts' = [alerts EXCEPT ![c] = @ + 1]
          /\ my' = [my EXCEPT ![p].todo = @ \ {c}, ![p].state.health = @ \cup {c}]
    /\ Goto(p, "alert")
    /\ UNCHANGED <<queue, health, config, saved, timer, lock, posted, settled, faults>>

Done(p) ==
    /\ \/ pc[p] = "done"
       \/ pc[p] = "alerts" /\ my[p].todo = {}
    /\ Leave(p)
    /\ UNCHANGED <<queue, health, config, saved, timer, webhook, settled, faults>>

\* Refused, or unreachable: the check ends with an error.
PostFails(p) ==
    /\ \/ pc[p] = "rows" /\ my[p].rows # {}
       \/ pc[p] = "alerts" /\ my[p].todo # {}
    /\ Leave(p)
    /\ UNCHANGED <<queue, health, config, saved, timer, webhook, settled, faults>>

\* Taken by the endpoint, but the reply is lost or late.
ReplyLost(p) ==
    /\ Fault
    /\ \/ /\ pc[p] = "rows"
          /\ \E row \in my[p].rows :
                IsNext(row, my[p].rows) /\ posted' = [posted EXCEPT ![row.job] = @ + 1]
          /\ UNCHANGED alerts
       \/ /\ pc[p] = "alerts"
          /\ \E c \in my[p].todo : alerts' = [alerts EXCEPT ![c] = @ + 1]
          /\ UNCHANGED posted
    /\ Leave(p)
    /\ UNCHANGED <<queue, health, config, saved, timer, settled>>

\* A signal, the two minutes of the unit, or an unreadable queue.
Kill(p) ==
    /\ pc[p] # "idle"
    /\ Fault
    /\ Leave(p)
    /\ UNCHANGED <<queue, health, config, saved, timer, webhook, settled>>

-----------------------------------------------------------------------------
(* enable and disable.                                                     *)

EnableTimer ==
    /\ timer # "on" /\ config # 0
    /\ timer' = "on"
    /\ UNCHANGED <<queue, health, config, saved, lock, pc, my, webhook, settled, faults>>

\* Plausible bug: the service is left to finish on its own.
DisableTimerOnly ==
    /\ timer = "on"
    /\ timer' = "off"
    /\ UNCHANGED <<queue, health, config, saved, lock, pc, my, webhook, settled, faults>>

DisableTimer ==
    /\ timer = "on"
    /\ timer' = "stopping"
    /\ UNCHANGED <<queue, health, config, saved, lock, pc, my, webhook, settled, faults>>

\* systemctl stop: SIGTERM ends a check that is under way.
StopService ==
    /\ timer = "stopping"
    /\ timer' = "off"
    /\ IF pc[Service] = "idle" THEN UNCHANGED <<lock, pc, my, faults>> ELSE Leave(Service) /\ Fault
    /\ UNCHANGED <<queue, health, config, saved, webhook, settled>>

-----------------------------------------------------------------------------
(* The environment: jobs, the host's health, and a queue that is replaced. *)

JobEvent ==
    /\ born < MaxEvents
    /\ born' = born + 1
    /\ log' = Append(log, born')
    /\ \E fails \in BOOLEAN : failures' = IF fails THEN failures \cup {born'} ELSE failures
    /\ UNCHANGED <<foreign, replaced, health, config, saved, timer, lock, pc, my, webhook, settled, faults>>

ConditionChanges ==
    /\ \E c \in Conditions :
          \/ /\ c \notin active /\ rises[c] < MaxRises
             /\ active' = active \cup {c}
             /\ rises' = [rises EXCEPT ![c] = @ + 1]
          \/ /\ c \in active
             /\ active' = active \ {c}
             /\ UNCHANGED rises
    /\ UNCHANGED <<queue, config, saved, timer, lock, pc, my, webhook, settled, faults>>

\* An earlier copy of this queue, or the queue of another host with a failure.
ReplaceQueue ==
    /\ replaced = "no" /\ replaced' \in Backups
    /\ \/ /\ replaced' = "own"
          /\ \E n \in 0..Len(log) : log' = SubSeq(log, 1, n)
          /\ UNCHANGED <<failures, foreign, born>>
       \/ /\ replaced' = "foreign" /\ born < MaxEvents
          /\ born' = born + 1
          /\ log' = <<born'>>
          /\ failures' = failures \cup {born'}
          /\ foreign' = foreign \cup {born'}
    /\ UNCHANGED <<health, config, saved, timer, lock, pc, my, webhook, settled, faults>>

-----------------------------------------------------------------------------
Check(p) == \/ LoadNothing(p) \/ LoadFirst(p) \/ Load(p) \/ ReadPosition(p) \/ Query(p)
            \/ PostRow(p) \/ RowsDone(p) \/ ReadHealth(p) \/ PostAlert(p)
            \/ Save(p) \/ PostFails(p) \/ Done(p)

Configure(p) == \/ WriteConfig(p)
                \/ pc[p] = "cursor" /\ SetCursor(p, "configured")

Next ==
    \/ StartConfigure \/ EnableTimer \/ DisableTimer \/ StopService
    \/ \E p \in Procs : StartCheck(p) \/ Configure(p) \/ Check(p) \/ ReplyLost(p) \/ Kill(p)
    \/ JobEvent \/ ConditionChanges \/ ReplaceQueue

Spec == Init /\ [][Next]_vars

\* The timer elapses again and again and does not always meet the lock; a
\* process that runs goes on to its end, each request being bounded by a
\* timeout; the endpoint does not refuse for ever.
Fairness ==
    /\ SF_vars(StartCheck(Service))
    /\ \A p \in Procs : /\ WF_vars(Configure(p) \/ Check(p))
                        /\ SF_vars(PostRow(p))
                        /\ SF_vars(PostAlert(p))

FairSpec == Spec /\ Fairness

-----------------------------------------------------------------------------
Label == {"idle", "load", "position", "query", "rows", "health", "alerts", "config", "cursor", "done"}
             \cup DOMAIN AfterSave

Local == [state : StateFile \cup {None}, position : Cursor \cup {None},
          rows : SUBSET [seq : 1..MaxEvents, job : Facts], full : BOOLEAN,
          todo : SUBSET Conditions, skip : SUBSET Facts]

\* The files, the locals of the processes and the records have legal values.
TypeOK ==
    /\ log \in Seq(Facts) /\ Len(log) <= MaxEvents
    /\ failures \subseteq Facts /\ foreign \subseteq failures /\ settled \subseteq Facts
    /\ born \in 0..MaxEvents /\ config \in 0..MaxConfigs
    /\ replaced \in {"no"} \cup Backups /\ faults \in 0..MaxFaults
    /\ active \subseteq Conditions /\ rises \in [Conditions -> 0..MaxRises]
    /\ saved \in StateFile \cup {None}
    /\ timer \in {"on", "stopping", "off"}
    /\ lock \in Procs \cup {None}
    /\ pc \in [Procs -> Label]
    /\ my \in [Procs -> Local]
    /\ posted \in [Facts -> Nat] /\ alerts \in [Conditions -> Nat]

\* Delivery repeats a failure, or a condition that did not clear in between,
\* only where docs/notifications.md allows it: one more copy for each kill or
\* lost reply, whatever checks, commands and refusals interleave.  A second
\* configure, which forgets the conditions by design, repeats those once.
RepeatsAreExcused ==
    /\ \A f \in Facts : posted[f] <= 1 + faults
    /\ \A c \in Conditions : alerts[c] > 0 => alerts[c] <= rises[c] + faults + config - 1

\* A failure behind the saved cursor was posted, or was already history when
\* a cursor was set behind it: no page limit, refusal, kill or interleaving
\* drops one silently.  (An older copy of the same queue that grows past the
\* cursor before the next check is taken for the queue it was, and loses them.)
NothingMissed ==
    saved # None /\ SameQueue(saved.queue) /\ replaced # "own" =>
        \A n \in 1..saved.queue.sequence :
            log[n] \in failures => posted[log[n]] > 0 \/ log[n] \in settled

\* Configuring, or meeting a replaced queue, starts from its end: what was
\* recorded before is not posted afterwards.
StartsFromNow == [][\A f \in settled : posted'[f] = posted[f]]_vars

\* Once disable has returned no check of the timer is under way.
QuietWhenDisabled == timer = "off" => pc[Service] = "idle"

\* notifications.py: "A replaced/restored queue should not replay its entire
\* old history."  The failures that came with such a queue are not posted.
HistoryNotReplayed == \A f \in foreign : posted[f] = 0

\* A new failure is posted in the end, unless the timer is disabled, its
\* queue goes away or a cursor is set behind it.
FailureIsPosted ==
    \A f \in Facts :
        timer = "on" /\ f \in failures /\ f \in ToSet(log)
            ~> posted[f] > 0 \/ f \in settled \/ timer # "on" \/ f \notin ToSet(log)

\* A condition that lasts is known to the endpoint in the end: failing job
\* posts before it, and full pages, do not hold it back for ever.
ConditionIsPosted ==
    \A c \in Conditions :
        timer = "on" /\ c \in active
            ~> \/ saved # None /\ c \in saved.health /\ alerts[c] > 0
               \/ c \notin active
               \/ timer # "on"
=============================================================================
