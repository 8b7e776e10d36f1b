---------------------------- MODULE GuidedUpdates ----------------------------
(***************************************************************************)
(* `rougarou update`: refresh downloads signed metadata, plan computes what *)
(* an update would do and names it by a digest, apply installs exactly the *)
(* plan an operator reviewed, through a native APT run whose pre-unpack    *)
(* hook checks once more.  Other administrators install packages and edit  *)
(* the APT policy at any time; any process may be killed, the host reset.  *)
(*                                                                         *)
(* `app` is the package with updates; `other` is the rest of the inventory *)
(* with its automatic marks.  A digest is the record it is the digest of.  *)
(***************************************************************************)
EXTENDS Integers

CONSTANTS
    Admins,             \* processes that run refresh or apply, as root
    None,
    MaxVersion,         \* bound on the versions that the repository publishes
    MaxGenerations,     \* bound on refreshes
    MaxTime,            \* bound on the clock
    MaxAge,             \* MAX_AGE: how long metadata is good for
    Lifetimes,          \* how long the repository signs its metadata for
    MaxChanges,         \* bound on what other administrators do
    MaxFaults           \* bound on kills, resets and failing package scripts

ASSUME BoundAssumption == /\ {MaxTime, MaxChanges, MaxFaults} \subseteq Nat
                          /\ {MaxVersion, MaxGenerations, MaxAge} \cup Lifetimes \subseteq Nat \ {0}

VARIABLES
    published,          \* version of app in the repository
    system,             \* inventory(), auto_packages()
    broken,             \* dpkg --audit reports an unfinished transaction
    policy,             \* source_policy()
    now,
    receipts,           \* metadata/GENERATION/receipt.json, or None
    current,            \* current.json: a generation, or 0
    reviewed,           \* the plan the operator has reviewed, or None
    status,             \* status.json, or None
    apt,                \* the native APT run that apply started, or None
    lock,               \* holder of updates/.lock
    pc, my,             \* next step and locals of each process
    changes, faults

host  == <<published, system, broken, policy, now>>
files == <<receipts, current, reviewed, status>>
vars  == <<host, files, apt, lock, pc, my, changes, faults>>

Reader == "reader"      \* `rougarou update plan`, as the operator
Procs  == Admins \cup {Reader}

Generations == 1..MaxGenerations
Versions    == 0..MaxVersion
System      == [app : Versions, other : BOOLEAN]
Plan        == [generation : Generations, policy : BOOLEAN, until : Nat,
                system : System, version : Versions]
Receipt     == [policy : BOOLEAN, at : 0..MaxTime, version : Versions, expiry : Nat \ {0}]
Status      == [state : {"started", "complete", "failed"}, version : Versions]
Before      == [plan : Plan, system : System]
Run         == [phase : {"hook", "unpack", "configure"}, before : Before, owner : Admins]
Blank       == [generation |-> 0, receipt |-> None, plan |-> None, id |-> None,
                before |-> None, then |-> "review", outcome |-> None]

ASSUME ReaderAssumption == Reader \notin Admins
ASSUME NoneAssumption   == None \notin Admins \cup Receipt \cup Status \cup Run

Init ==
    /\ published = 1
    /\ system = [app |-> 1, other |-> FALSE] /\ broken = FALSE /\ policy = FALSE
    /\ now = 0
    /\ receipts = [g \in Generations |-> None] /\ current = 0
    /\ reviewed = None /\ status = None /\ apt = None
    /\ lock = None
    /\ pc = [p \in Procs |-> "idle"]
    /\ my = [p \in Procs |-> Blank]
    /\ changes = 0 /\ faults = 0

-----------------------------------------------------------------------------
Goto(p, label) == pc' = [pc EXCEPT ![p] = label]

\* The process ends and the kernel drops its lock.
Leave(p) ==
    /\ Goto(p, "idle")
    /\ lock' = IF lock = p THEN None ELSE lock
    /\ my' = [my EXCEPT ![p] = Blank]

Keep == UNCHANGED <<host, files, apt, changes, faults>>

\* A step that only moves its process on, with new locals.
Step(p, label, locals) ==
    /\ Goto(p, label)
    /\ my' = [my EXCEPT ![p] = locals]
    /\ UNCHANGED lock
    /\ Keep

\* An UpdateError before the transaction has begun.
GiveUp(p) == Leave(p) /\ Keep

Fault == faults < MaxFaults /\ faults' = faults + 1

-----------------------------------------------------------------------------
(* refresh(): a new generation, its receipt, and then the pointer to it.   *)

Fresh(g) == receipts[g] = None /\ \A h \in Generations : receipts[h] = None => g <= h

StartRefresh(p) ==
    /\ pc[p] = "idle" /\ lock = None
    /\ \E g \in Generations :
          /\ Fresh(g)
          /\ my' = [my EXCEPT ![p] = [Blank EXCEPT !.generation = g,
                                         !.receipt = [policy |-> policy, at |-> now,
                                                      version |-> None, expiry |-> None]]]
    /\ lock' = p
    /\ Goto(p, "fetch")
    /\ Keep

\* apt-get update: what is published now, with its signed Valid-Until.
Fetch(p) ==
    /\ pc[p] = "fetch"
    /\ \/ \E lifetime \in Lifetimes :
             Step(p, "receipt", [my[p] EXCEPT !.receipt.version = published,
                                              !.receipt.expiry = now + lifetime])
       \/ GiveUp(p)

PolicyKept(p) == policy = my[p].receipt.policy

WriteReceipt(p) ==
    /\ pc[p] = "receipt" /\ PolicyKept(p)
    /\ receipts' = [receipts EXCEPT ![my[p].generation] = my[p].receipt]
    /\ Goto(p, "pointer")
    /\ UNCHANGED <<host, current, reviewed, status, apt, lock, my, changes, faults>>

RefuseReceipt(p) == pc[p] = "receipt" /\ ~PolicyKept(p) /\ GiveUp(p)

WritePointer(p) ==
    /\ pc[p] = "pointer"
    /\ current' = my[p].generation
    /\ Leave(p)
    /\ UNCHANGED <<host, receipts, reviewed, status, apt, changes, faults>>

-----------------------------------------------------------------------------
(* plan(): verified(), the inventory, then what APT would do.              *)

Until(r) == IF r.at + MaxAge < r.expiry THEN r.at + MaxAge ELSE r.expiry

Verified(r) == policy = r.policy /\ now <= r.at + MaxAge /\ now < r.expiry

StartPlan ==
    /\ pc[Reader] = "idle"
    /\ Step(Reader, "verify", Blank)

\* Where an error in plan() leads: apply's own handler, once it has begun.
PlanFails(p) ==
    IF my[p].then = "second"
    THEN Step(p, "finish", [my[p] EXCEPT !.outcome = "failed"])
    ELSE GiveUp(p)

PlanVerify(p) ==
    /\ pc[p] = "verify"
    /\ IF current # 0 /\ Verified(receipts[current])
       THEN Step(p, "inventory",
                 [my[p] EXCEPT !.plan = [generation |-> current, policy |-> policy,
                                         until |-> Until(receipts[current]),
                                         system |-> None, version |-> 0]])
       ELSE PlanFails(p)

PlanInventory(p) ==
    /\ pc[p] = "inventory"
    /\ IF broken THEN PlanFails(p)
       ELSE Step(p, "simulate", [my[p] EXCEPT !.plan.system = system])

\* apt-get --simulate upgrade reads the package state again.
PlanSimulate(p) ==
    /\ pc[p] = "simulate"
    /\ LET latest == receipts[my[p].plan.generation].version
       IN Step(p, my[p].then, [my[p] EXCEPT !.plan.version =
                                   IF latest > system.app THEN latest ELSE 0])

ShowPlan ==
    /\ pc[Reader] = "review"
    /\ reviewed' = my[Reader].plan
    /\ Leave(Reader)
    /\ UNCHANGED <<host, receipts, current, status, apt, changes, faults>>

-----------------------------------------------------------------------------
(* apply(): up to the start of APT.                                        *)

StartApply(p) ==
    /\ pc[p] = "idle" /\ lock = None /\ reviewed # None
    /\ my' = [my EXCEPT ![p] = [Blank EXCEPT !.id = reviewed, !.then = "first"]]
    /\ lock' = p
    /\ Goto(p, "verify")
    /\ Keep

FirstCompare(p) ==
    /\ pc[p] = "first"
    /\ IF my[p].plan = my[p].id /\ my[p].plan.version # 0
       THEN Step(p, "before", my[p])
       ELSE GiveUp(p)

\* before.json: the plan, and the inventory read anew.
WriteBefore(p) ==
    /\ pc[p] = "before"
    /\ Step(p, "started", [my[p] EXCEPT !.before = [plan |-> my[p].plan, system |-> system]])

\* Plausible bug: the status is only written at the end.
StartUnrecorded(p) == pc[p] = "started" /\ Step(p, "download", my[p])

WriteStarted(p) ==
    /\ pc[p] = "started"
    /\ status' = [state |-> "started", version |-> my[p].plan.version]
    /\ Goto(p, "download")
    /\ UNCHANGED <<host, receipts, current, reviewed, apt, lock, my, changes, faults>>

Failed(p) == Step(p, "finish", [my[p] EXCEPT !.outcome = "failed"])

\* APT would do exactly what the plan says.
Simulated(p) == system.app < my[p].plan.version

Download(p) ==
    /\ pc[p] = "download"
    /\ \/ Simulated(p) /\ Step(p, "verify", [my[p] EXCEPT !.then = "second"])
       \/ Failed(p)

\* Plausible bug: the plan is not made again after the download.
PlanStandsUnseen(p) == TRUE

PlanStands(p) == my[p].plan = my[p].id

SecondCompare(p) ==
    /\ pc[p] = "second"
    /\ IF PlanStands(p) /\ Simulated(p) THEN Step(p, "assert", my[p]) ELSE Failed(p)

\* Plausible bug: the helper does not compare the clock.
AssertWithoutClock(before) == system = before.system /\ policy = before.plan.policy

AssertBefore(before) ==
    /\ system = before.system
    /\ now < before.plan.until
    /\ policy = before.plan.policy

AssertFirst(p) ==
    /\ pc[p] = "assert"
    /\ IF AssertBefore(my[p].before) THEN Step(p, "install", my[p]) ELSE Failed(p)

\* APT takes the package lock or fails at once; it outlives a killed apply.
StartApt(p) ==
    /\ pc[p] = "install"
    /\ IF apt # None THEN Failed(p)
       ELSE /\ apt' = [phase |-> "hook", before |-> my[p].before, owner |-> p]
            /\ Goto(p, "wait")
            /\ UNCHANGED <<host, files, lock, my, changes, faults>>

-----------------------------------------------------------------------------
(* The native APT run, under the package lock.                             *)

\* APT ends: apply, if it still waits, goes on to its checks or its handler.
AptEnds(succeeds) ==
    LET p == apt.owner IN
    /\ apt' = None
    /\ IF pc[p] = "wait" /\ my[p].before = apt.before
       THEN /\ Goto(p, IF succeeds THEN "check" ELSE "finish")
            /\ my' = [my EXCEPT ![p].outcome = IF succeeds THEN @ ELSE "failed"]
       ELSE UNCHANGED <<pc, my>>

\* DPkg::Pre-Invoke runs the helper's assert-before.
Hook ==
    /\ apt # None /\ apt.phase = "hook"
    /\ IF AssertBefore(apt.before)
       THEN apt' = [apt EXCEPT !.phase = "unpack"] /\ UNCHANGED <<pc, my>>
       ELSE AptEnds(FALSE)
    /\ UNCHANGED <<host, files, lock, changes, faults>>

Unpack ==
    /\ apt # None /\ apt.phase = "unpack"
    /\ system' = [system EXCEPT !.app = apt.before.plan.version]
    /\ broken' = TRUE
    /\ apt' = [apt EXCEPT !.phase = "configure"]
    /\ UNCHANGED <<published, policy, now, files, lock, pc, my, changes, faults>>

ConfigurePackages ==
    /\ apt # None /\ apt.phase = "configure"
    /\ \/ broken' = FALSE /\ AptEnds(TRUE) /\ UNCHANGED faults
       \/ Fault /\ AptEnds(FALSE) /\ UNCHANGED broken
    /\ UNCHANGED <<published, system, policy, now, files, lock, changes>>

-----------------------------------------------------------------------------
(* apply(): after APT.                                                     *)

Installed(p) == /\ system = [my[p].before.system EXCEPT !.app = my[p].plan.version]
                /\ ~broken

CheckInstalled(p) ==
    /\ pc[p] = "check"
    /\ Step(p, "finish", [my[p] EXCEPT !.outcome = IF Installed(p) THEN "complete" ELSE "failed"])

FinalStatus(p) == [state |-> my[p].outcome, version |-> my[p].before.plan.version]

WriteStatus(p) ==
    /\ pc[p] = "finish"
    /\ status' = FinalStatus(p)
    /\ Leave(p)
    /\ UNCHANGED <<host, receipts, current, reviewed, apt, changes, faults>>

-----------------------------------------------------------------------------
(* The environment.                                                        *)

Kill(p) ==
    /\ pc[p] # "idle"
    /\ Fault
    /\ Leave(p)
    /\ UNCHANGED <<host, files, apt, changes>>

Reset ==
    /\ Fault
    /\ apt' = None /\ lock' = None
    /\ pc' = [p \in Procs |-> "idle"]
    /\ my' = [p \in Procs |-> Blank]
    /\ UNCHANGED <<host, files, changes>>

\* Another administrator: native package work needs the package lock.
NativeChange ==
    /\ changes < MaxChanges
    /\ changes' = changes + 1
    /\ \/ /\ apt = None
          /\ \/ system' = [system EXCEPT !.other = ~@]
             \/ system.app < published /\ system' = [system EXCEPT !.app = published]
          /\ broken' = FALSE
          /\ UNCHANGED policy
       \/ policy' = ~policy /\ UNCHANGED <<system, broken>>
    /\ UNCHANGED <<published, now, files, apt, lock, pc, my, faults>>

Publish ==
    /\ published < MaxVersion
    /\ published' = published + 1
    /\ UNCHANGED <<system, broken, policy, now, files, apt, lock, pc, my, changes, faults>>

Tick ==
    /\ now < MaxTime
    /\ now' = now + 1
    /\ UNCHANGED <<published, system, broken, policy, files, apt, lock, pc, my, changes, faults>>

-----------------------------------------------------------------------------
Refresh(p) == \/ StartRefresh(p) \/ Fetch(p) \/ WriteReceipt(p) \/ RefuseReceipt(p)
              \/ WritePointer(p)
MakePlan(p) == PlanVerify(p) \/ PlanInventory(p) \/ PlanSimulate(p)
Apply(p)   == \/ StartApply(p) \/ FirstCompare(p) \/ WriteBefore(p) \/ WriteStarted(p)
              \/ Download(p) \/ SecondCompare(p) \/ AssertFirst(p) \/ StartApt(p)
              \/ CheckInstalled(p) \/ WriteStatus(p)

Next ==
    \/ \E p \in Admins : Refresh(p) \/ Apply(p)
    \/ \E p \in Procs : MakePlan(p) \/ Kill(p)
    \/ StartPlan \/ ShowPlan
    \/ Hook \/ Unpack \/ ConfigurePackages
    \/ Reset \/ NativeChange \/ Publish \/ Tick

Spec == Init /\ [][Next]_vars

-----------------------------------------------------------------------------
\* Files, locals and the host have legal values.
TypeOK ==
    /\ published \in Versions /\ system \in System /\ broken \in BOOLEAN /\ policy \in BOOLEAN
    /\ now \in 0..MaxTime /\ changes \in 0..MaxChanges /\ faults \in 0..MaxFaults
    /\ receipts \in [Generations -> Receipt \cup {None}]
    /\ current \in Generations \cup {0}
    /\ reviewed = None \/ reviewed \in Plan
    /\ status \in Status \cup {None} /\ apt \in Run \cup {None}
    /\ lock \in Admins \cup {None}
    /\ \A p \in Procs : /\ my[p].id = None \/ my[p].id \in Plan
                        /\ pc[p] \in {"review", "first", "before"} => my[p].plan \in Plan

\* APT unpacks onto the inventory that before.json describes, which is the
\* one that the operator reviewed, however long the review, the download and
\* the checks took, and whoever else installs packages meanwhile: unless
\* others have changed the host three times, away from the reviewed inventory,
\* back to it and away again, each at the right moment.
UnpackedUnlessUndone ==
    apt # None /\ apt.phase = "unpack" =>
        system = apt.before.system /\ (system = apt.before.plan.system \/ changes > 2)

\* When APT begins to unpack, the receipt of the plan's metadata vouches for
\* that very version, has not expired, and was made under the present policy.
NeverUnpackedStale ==
    [][apt # None /\ apt.phase = "hook" /\ apt' # None /\ apt'.phase = "unpack" =>
          LET receipt == receipts[apt.before.plan.generation] IN
            /\ receipt.version = apt.before.plan.version
            /\ now < Until(receipt) /\ policy = receipt.policy]_vars

\* The last public status tells what a reader must know, also after kills and
\* resets: "complete" means that the version is installed, and packages left
\* half installed are not hidden behind it.
StatusTellsTruth ==
    /\ status # None /\ status.state = "complete" => system.app >= status.version /\ ~broken
    /\ broken /\ apt = None /\ lock = None => status # None /\ status.state \in {"started", "failed"}
=============================================================================
