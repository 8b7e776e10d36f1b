------------------------ MODULE GuidedUpdatesProofs ------------------------
(***************************************************************************)
(* Proofs about GuidedUpdates, for any administrators, versions, refreshes, *)
(* times, changes and faults.                                              *)
(*                                                                         *)
(* UpdatesInv is the inductive invariant.  Process says what a process has *)
(* in hand at each of its steps; AptInv what the native run relies on,     *)
(* which outlives the apply that started it; StatusInv is about the files. *)
(* The inventory that was reviewed is compared with what the host has by   *)
(* counting: app never goes back to an older version, and the rest of the  *)
(* inventory only changes when another administrator changes it.           *)
(***************************************************************************)
EXTENDS GuidedUpdates, TLAPS

Label    == {"idle", "fetch", "receipt", "pointer", "verify", "inventory", "simulate", "review", "first",
             "before", "started", "download", "second", "assert", "install", "wait", "check", "finish"}
Planning == {"verify", "inventory", "simulate"}
Half     == [generation : Generations, policy : BOOLEAN, until : Nat,
             system : System \cup {None}, version : Versions]
Draft    == [policy : BOOLEAN, at : 0..MaxTime, version : Versions \cup {None}, expiry : Nat \cup {None}]
Local    == [generation : Generations \cup {0}, receipt : Draft \cup {None}, plan : Half \cup {None},
             id : Plan \cup {None}, before : Before \cup {None}, then : {"review", "first", "second"},
             outcome : {"complete", "failed", None}]

HostTypes ==
    /\ published \in Versions /\ system \in System /\ broken \in BOOLEAN /\ policy \in BOOLEAN
    /\ now \in 0..MaxTime /\ changes \in 0..MaxChanges /\ faults \in 0..MaxFaults

FileTypes ==
    /\ receipts \in [Generations -> Receipt \cup {None}]
    /\ current \in Generations \cup {0}
    /\ reviewed = None \/ reviewed \in Plan
    /\ status \in Status \cup {None} /\ apt \in Run \cup {None}
    /\ lock \in Admins \cup {None}

\* A plan rests on a receipt, and offers no version but the receipt's.
Based(plan) ==
    LET receipt == receipts[plan.generation] IN
    receipt # None /\ plan.until = Until(receipt) /\ plan.policy = receipt.policy

Sound(plan) == Based(plan) /\ (plan.version # 0 => plan.version = receipts[plan.generation].version)

\* The facts below are about a process p whose next step is at, with locals m.

\* Who may be where, with which plans in hand.
Control(p, at, m) ==
    /\ p \in Admins /\ at # "idle" => lock = p
    /\ p = Reader => at \in Planning \cup {"idle", "review"} /\ (at \in Planning => m.then = "review")
    /\ p # Reader => at # "review" /\ (at \in Planning => m.then # "review")
    /\ at \in {"first", "before", "started", "download"} => m.then = "first"
    /\ at \in {"second", "assert", "install", "wait", "check"} => m.then = "second"
    /\ at # "idle" /\ m.then # "review" => m.id \in Plan
    /\ at \in {"before", "started", "download", "assert", "install", "wait", "check"} => m.plan = m.id
    /\ at \in {"before", "started"} => m.id.version # 0

Refreshing(at, m) ==
    /\ at \in {"fetch", "receipt"} =>
          m.generation \in Generations /\ receipts[m.generation] = None /\ m.receipt \in Draft
    /\ at = "receipt" => m.receipt \in Receipt
    /\ at = "pointer" => m.generation \in Generations /\ receipts[m.generation] # None

Planned(at, m) ==
    /\ at = "inventory" => m.plan \in Half /\ Based(m.plan)
    /\ at = "simulate" => m.plan \in Plan /\ Based(m.plan)
    /\ at \in {"review", "first", "before", "started", "download", "second", "assert", "install", "wait", "check"} =>
          m.plan \in Plan /\ Sound(m.plan)

\* An apply that has written the status "started".
Underway(at, m) ==
    \/ at \in {"download", "second", "assert", "install", "wait", "check", "finish"}
    \/ (at \in Planning /\ m.then = "second")

Recorded(at, m) ==
    /\ at = "started" \/ Underway(at, m) =>
          /\ m.before \in Before /\ m.before.plan = m.id
          /\ Sound(m.before.plan) /\ m.before.plan.version # 0
    /\ Underway(at, m) => status # None /\ status.state = "started"
    /\ at \in {"assert", "install"} => m.before.system.app < m.plan.version

\* What others must have done for the host to differ from what p has seen:
\* the versions of app only grow, and each change of the rest counts.
FirstPlan(at, m)  == at \in {"first", "before"} \/ (at = "simulate" /\ m.then = "first")
BeforeKept(at, m) == at \in {"started", "download"} \/ (at \in {"verify", "inventory"} /\ m.then = "second")
SecondPlan(at, m) == at \in {"second", "assert", "install"} \/ (at = "simulate" /\ m.then = "second")

Differ(a, b) == a.other # b.other

SeenOnce(planned) ==
    /\ planned.app <= system.app
    /\ Differ(system, planned) => changes >= 1

SeenTwice(planned, before) ==
    /\ planned.app <= before.app /\ before.app <= system.app
    /\ Differ(before, planned) => changes >= 1
    /\ Differ(before, planned) /\ Differ(system, before) => changes >= 2

SeenAgain(planned, before, again) ==
    /\ planned.app <= before.app /\ before.app <= again.app /\ again.app <= system.app
    /\ Differ(before, planned) /\ Differ(again, before) => changes >= 2
    /\ Differ(before, planned) /\ Differ(again, before) /\ ~Differ(system, before) => changes >= 3

Seen(at, m) ==
    /\ FirstPlan(at, m) => SeenOnce(m.plan.system)
    /\ BeforeKept(at, m) => SeenTwice(m.id.system, m.before.system)
    /\ SecondPlan(at, m) => SeenAgain(m.id.system, m.before.system, m.plan.system)

Ending(p, at, m) ==
    /\ at = "wait" => apt # None /\ apt.owner = p /\ apt.before = m.before
    /\ at = "check" => apt = None
    /\ at = "finish" => m.outcome \in {"complete", "failed"}
    /\ at = "finish" /\ m.outcome = "complete" =>
          apt = None /\ ~broken /\ m.before.plan.version <= system.app

Process(p, at, m) ==
    /\ Control(p, at, m) /\ Refreshing(at, m) /\ Planned(at, m) /\ Recorded(at, m)
    /\ Seen(at, m) /\ Ending(p, at, m)

\* The native run has a sound plan and finds, until it unpacks, the inventory
\* that was reviewed, or one that took three changes.
AptInv ==
    apt # None =>
        /\ Sound(apt.before.plan) /\ apt.before.plan.version # 0
        /\ status # None /\ status.state # "complete"
        /\ apt.phase # "configure" =>
              /\ apt.before.system.app < apt.before.plan.version
              /\ apt.before.system.app = apt.before.plan.system.app
              /\ Differ(apt.before.system, apt.before.plan.system) /\ ~Differ(system, apt.before.system) =>
                    changes >= 3
        /\ apt.phase = "unpack" => system = apt.before.system

StatusInv ==
    /\ current # 0 => receipts[current] # None
    /\ status # None /\ status.state = "complete" => status.version <= system.app /\ ~broken
    /\ broken => status # None

UpdatesInv ==
    /\ HostTypes /\ FileTypes
    /\ pc \in [Procs -> Label] /\ my \in [Procs -> Local]
    /\ \A p \in Procs : Process(p, pc[p], my[p])
    /\ AptInv /\ StatusInv

-----------------------------------------------------------------------------
\* What every step grants a process: receipts stay, and the host moves on.
Kept == \A g \in Generations : receipts[g] # None => receipts'[g] = receipts[g]

Later == /\ system.app <= system'.app /\ changes <= changes'
         /\ Differ(system', system) => changes + 1 <= changes'

\* The bounds are numbers.
LEMMA Numbers ==
    /\ MaxTime \in Nat /\ MaxChanges \in Nat /\ MaxFaults \in Nat /\ MaxVersion \in Nat /\ MaxAge \in Nat
    /\ Lifetimes \subseteq Nat \ {0} /\ MaxGenerations \in Nat
BY BoundAssumption

\* None is none of the values that files, runs and locks have.
LEMMA Present ==
    /\ \A a \in Admins : a # None
    /\ \A r \in Receipt : r # None
    /\ \A s \in Status : s # None
    /\ \A r \in Run : r # None
BY NoneAssumption

\* A process starts with nothing in hand.
LEMMA BlankIsLocal == Blank \in Local
BY DEF Blank, Local

\* Nothing is asked of a process that does not run.
LEMMA IdleHolds ==
    ASSUME NEW p, NEW m
    PROVE  Process(p, "idle", m) /\ Process(p, "idle", m)'
BY DEF Process, Control, Refreshing, Planned, Recorded, Underway, Planning, Seen, FirstPlan, BeforeKept,
       SecondPlan, Ending

\* A plan that rests on a receipt still does when receipts are kept.
LEMMA SoundKept ==
    ASSUME Kept, NEW plan, plan.generation \in Generations
    PROVE  /\ Based(plan) => Based(plan)'
           /\ Sound(plan) => Sound(plan)'
<1>1. Based(plan) => Based(plan)' /\ receipts'[plan.generation] = receipts[plan.generation]
  BY DEF Kept, Based, Until
<1> QED
  BY <1>1 DEF Sound, Based

\* What a process relies on is unchanged with the state that it speaks of.
LEMMA SameState ==
    ASSUME NEW p, NEW at, NEW m, Process(p, at, m),
           UNCHANGED <<receipts, system, changes, status, apt, broken, lock>>
    PROVE  Process(p, at, m)'
<1>1. (Control(p, at, m) /\ Refreshing(at, m) => Control(p, at, m)' /\ Refreshing(at, m)')
  BY DEF Control, Refreshing
<1>2. Planned(at, m) => Planned(at, m)'
  BY DEF Planned, Sound, Based, Until
<1>3. Recorded(at, m) => Recorded(at, m)'
  BY DEF Recorded, Underway, Sound, Based, Until
<1>4. Seen(at, m) => Seen(at, m)'
  BY DEF Seen, FirstPlan, BeforeKept, SecondPlan, SeenOnce, SeenTwice, SeenAgain, Differ
<1>5. Ending(p, at, m) => Ending(p, at, m)'
  BY DEF Ending
<1> QED
  BY <1>1, <1>2, <1>3, <1>4, <1>5 DEF Process

\* The reader of plans relies on the receipts alone.
LEMMA ReaderStays ==
    ASSUME NEW at \in Label, NEW m \in Local, Process(Reader, at, m), Kept
    PROVE  Process(Reader, at, m)'
<1>1. at \in Planning \cup {"idle", "review"} /\ (at \in Planning => m.then = "review")
  BY DEF Process, Control
<1>2. Control(Reader, at, m)'
  BY <1>1, ReaderAssumption DEF Process, Control
<1>3. Planned(at, m)'
  <2>1. at = "inventory" => m.plan \in Half /\ Based(m.plan)'
    BY SoundKept DEF Process, Planned, Half
  <2>2. at = "simulate" => m.plan \in Plan /\ Based(m.plan)'
    BY SoundKept DEF Process, Planned, Plan
  <2>3. at = "review" => m.plan \in Plan /\ Sound(m.plan)'
    BY SoundKept DEF Process, Planned, Plan
  <2> QED
    BY <1>1, <2>1, <2>2, <2>3 DEF Planned, Planning
<1>4. /\ ~Underway(at, m) /\ at # "started" /\ ~FirstPlan(at, m) /\ ~BeforeKept(at, m) /\ ~SecondPlan(at, m)
  BY <1>1 DEF Underway, Planning, FirstPlan, BeforeKept, SecondPlan
<1>5. Recorded(at, m)' /\ Seen(at, m)'
  BY <1>1, <1>4 DEF Recorded, Seen, Underway, Planning, FirstPlan, BeforeKept, SecondPlan
<1>6. Refreshing(at, m)' /\ Ending(Reader, at, m)'
  BY <1>1 DEF Refreshing, Ending, Planning
<1> QED
  BY <1>2, <1>3, <1>5, <1>6 DEF Process

\* While others act on the host, a process keeps what it relies on.
LEMMA ProcessStays ==
    ASSUME HostTypes, HostTypes', Later, UNCHANGED <<receipts, status, lock>>,
           apt' = None <=> apt = None,
           apt # None => apt'.owner = apt.owner /\ apt'.before = apt.before,
           broken' => broken \/ apt # None,
           NEW p, NEW at \in Label, NEW m \in Local, Process(p, at, m)
    PROVE  Process(p, at, m)'
<1>1. Control(p, at, m)' /\ Refreshing(at, m)'
  BY DEF Process, Control, Refreshing
<1>2. Planned(at, m)'
  BY DEF Process, Planned, Sound, Based, Until
<1>3. Recorded(at, m)'
  BY DEF Process, Recorded, Underway, Sound, Based, Until
<1>4. Seen(at, m)'
  <2>0. /\ system.app \in Nat /\ system'.app \in Nat /\ changes \in Nat /\ changes' \in Nat
        /\ system.other \in BOOLEAN /\ system'.other \in BOOLEAN
    BY Numbers DEF HostTypes, System, Versions
  <2>4. system.app <= system'.app /\ changes <= changes' /\ (system'.other # system.other => changes + 1 <= changes')
    BY DEF Later, Differ
  <2>1. CASE FirstPlan(at, m)
    <3>1. m.plan \in Plan /\ SeenOnce(m.plan.system) /\ ~BeforeKept(at, m) /\ ~SecondPlan(at, m)
      BY <2>1 DEF Process, Planned, Seen, FirstPlan, BeforeKept, SecondPlan
    <3>2. m.plan.system.app \in Nat
      BY <3>1, Numbers DEF Plan, System, Versions
    <3>3. SeenOnce(m.plan.system)'
      BY <2>0, <2>4, <3>1, <3>2 DEF SeenOnce, Differ
    <3> QED
      BY <3>1, <3>3 DEF Seen, FirstPlan, BeforeKept, SecondPlan
  <2>2. CASE BeforeKept(at, m)
    <3>1. SeenTwice(m.id.system, m.before.system) /\ ~FirstPlan(at, m) /\ ~SecondPlan(at, m) /\ m.before \in Before
      BY <2>2 DEF Process, Recorded, Underway, Planning, Seen, FirstPlan, BeforeKept, SecondPlan
    <3>2. m.before.system.app \in Nat
      BY <3>1, Numbers DEF Before, System, Versions
    <3>3. SeenTwice(m.id.system, m.before.system)'
      BY <2>0, <2>4, <3>1, <3>2 DEF SeenTwice, Differ
    <3> QED
      BY <3>1, <3>3 DEF Seen, FirstPlan, BeforeKept, SecondPlan
  <2>3. CASE SecondPlan(at, m)
    <3>1. SeenAgain(m.id.system, m.before.system, m.plan.system) /\ ~FirstPlan(at, m) /\ ~BeforeKept(at, m)
          /\ m.plan \in Plan
      BY <2>3 DEF Process, Planned, Seen, FirstPlan, BeforeKept, SecondPlan
    <3>2. m.plan.system.app \in Nat
      BY <3>1, Numbers DEF Plan, System, Versions
    <3>3. SeenAgain(m.id.system, m.before.system, m.plan.system)'
      BY <2>0, <2>4, <3>1, <3>2 DEF SeenAgain, Differ
    <3> QED
      BY <3>1, <3>3 DEF Seen, FirstPlan, BeforeKept, SecondPlan
  <2> QED
    BY <2>1, <2>2, <2>3 DEF Seen, FirstPlan, BeforeKept, SecondPlan
<1>5. Ending(p, at, m)'
  <2>1. at = "wait" => apt' # None /\ apt'.owner = p /\ apt'.before = m.before
    BY DEF Process, Ending
  <2>2. at = "check" => apt' = None
    BY DEF Process, Ending
  <2>3. at = "finish" => m.outcome \in {"complete", "failed"}
    BY DEF Process, Ending
  <2>4. at = "finish" /\ m.outcome = "complete" =>
            apt' = None /\ ~broken' /\ m.before.plan.version <= system'.app
    <3> SUFFICES ASSUME at = "finish", m.outcome = "complete"
                 PROVE  apt' = None /\ ~broken' /\ m.before.plan.version <= system'.app
      OBVIOUS
    <3>1. apt = None /\ ~broken /\ m.before.plan.version <= system.app /\ m.before \in Before
      BY DEF Process, Ending, Recorded, Underway
    <3>2. m.before.plan.version \in Nat /\ system.app \in Nat /\ system'.app \in Nat
      BY <3>1, Numbers DEF HostTypes, Before, Plan, System, Versions
    <3>3. system.app <= system'.app
      BY DEF Later
    <3> QED
      BY <3>1, <3>2, <3>3
  <2> QED
    BY <2>1, <2>2, <2>3, <2>4 DEF Ending
<1> QED
  BY <1>1, <1>2, <1>3, <1>4, <1>5 DEF Process

\* A step of an administrator's process: the lock keeps every other one idle.
LEMMA AdminMoves ==
    ASSUME UpdatesInv, NEW p \in Admins, lock \in {p, None},
           NEW label \in Label, NEW locals \in Local,
           pc' = [pc EXCEPT ![p] = label], my' = [my EXCEPT ![p] = locals],
           HostTypes', FileTypes', AptInv', StatusInv', Kept, Process(p, label, locals)'
    PROVE  UpdatesInv'
<1>1. /\ pc \in [Procs -> Label] /\ my \in [Procs -> Local] /\ p \in Procs /\ p # Reader
      /\ \A q \in Procs : Process(q, pc[q], my[q])
  BY ReaderAssumption DEF UpdatesInv, Procs
<1>2. /\ pc' \in [Procs -> Label] /\ my' \in [Procs -> Local] /\ pc'[p] = label /\ my'[p] = locals
      /\ \A q \in Procs \ {p} : pc'[q] = pc[q] /\ my'[q] = my[q]
  BY <1>1
<1>3. ASSUME NEW q \in Procs PROVE Process(q, pc[q], my[q])'
  <2>1. CASE q = p
    BY <1>2, <2>1
  <2>2. CASE q = Reader
    <3>1. pc[q] \in Label /\ my[q] \in Local /\ Process(Reader, pc[q], my[q]) /\ pc'[q] = pc[q] /\ my'[q] = my[q]
      BY <1>1, <1>2, <2>2
    <3>2. \A at \in Label, m \in Local : Process(Reader, at, m) => Process(Reader, at, m)'
      BY ReaderStays
    <3> QED
      BY <2>2, <3>1, <3>2
  <2>3. CASE q # p /\ q # Reader
    <3>1. q \in Admins /\ Control(q, pc[q], my[q]) /\ q # None
      BY <1>1, <2>3, Present DEF Procs, Process
    <3>2. pc'[q] = "idle"
      BY <1>2, <2>3, <3>1 DEF Control
    <3> QED
      BY <3>2, IdleHolds
  <2> QED
    BY <2>1, <2>2, <2>3
<1> QED
  BY <1>2, <1>3 DEF UpdatesInv

\* A step of no process: each keeps what it relies on.
LEMMA OthersMove ==
    ASSUME UpdatesInv, UNCHANGED <<pc, my, receipts, status, lock>>, HostTypes', FileTypes', AptInv', StatusInv',
           Later, apt' = None <=> apt = None,
           apt # None => apt'.owner = apt.owner /\ apt'.before = apt.before,
           broken' => broken \/ apt # None
    PROVE  UpdatesInv'
<1>1. ASSUME NEW q \in Procs PROVE Process(q, pc[q], my[q])'
  <2>1. pc[q] \in Label /\ my[q] \in Local /\ Process(q, pc[q], my[q]) /\ pc'[q] = pc[q] /\ my'[q] = my[q] /\ HostTypes
    BY DEF UpdatesInv
  <2>2. \A at \in Label, m \in Local : Process(q, at, m) => Process(q, at, m)'
    BY <2>1, ProcessStays
  <2> QED
    BY <2>1, <2>2
<1> QED
  BY <1>1 DEF UpdatesInv

\* A step of the reader of plans, who changes at most what was reviewed.
LEMMA ReaderMoves ==
    ASSUME UpdatesInv, NEW label \in Label, NEW locals \in Local,
           pc' = [pc EXCEPT ![Reader] = label], my' = [my EXCEPT ![Reader] = locals],
           UNCHANGED <<host, receipts, current, status, apt, lock, changes>>,
           reviewed' = None \/ reviewed' \in Plan, faults' \in 0..MaxFaults,
           Process(Reader, label, locals)'
    PROVE  UpdatesInv'
<1>1. /\ pc \in [Procs -> Label] /\ my \in [Procs -> Local] /\ Reader \in Procs
      /\ \A q \in Procs : Process(q, pc[q], my[q])
  BY DEF UpdatesInv, Procs
<1>2. /\ pc' \in [Procs -> Label] /\ my' \in [Procs -> Local] /\ pc'[Reader] = label /\ my'[Reader] = locals
      /\ \A q \in Procs \ {Reader} : pc'[q] = pc[q] /\ my'[q] = my[q]
  BY <1>1
<1>3. ASSUME NEW q \in Procs PROVE Process(q, pc[q], my[q])'
  <2>1. CASE q = Reader
    BY <1>2, <2>1
  <2>2. CASE q # Reader
    <3>1. Process(q, pc[q], my[q]) /\ pc'[q] = pc[q] /\ my'[q] = my[q]
      BY <1>1, <1>2, <2>2
    <3>2. \A at, m : Process(q, at, m) => Process(q, at, m)'
      BY SameState DEF host
    <3> QED
      BY <3>1, <3>2
  <2> QED
    BY <2>1, <2>2
<1>4. HostTypes' /\ FileTypes'
  BY SMTT(30) DEF UpdatesInv, HostTypes, FileTypes, host
<1>5. AptInv' /\ StatusInv'
  BY DEF UpdatesInv, AptInv, StatusInv, Sound, Based, Until, Differ, host
<1> QED
  BY <1>2, <1>3, <1>4, <1>5 DEF UpdatesInv

\* A process that runs as an administrator has the lock.
LEMMA Holder ==
    ASSUME UpdatesInv, NEW p \in Admins, pc[p] # "idle"
    PROVE  lock = p
BY DEF UpdatesInv, Process, Control, Procs

\* A step that only moves its process on.
LEMMA StepHolds ==
    ASSUME UpdatesInv, NEW p \in Procs, pc[p] # "idle" \/ p = Reader,
           NEW label \in Label, NEW locals \in Local, Step(p, label, locals), Process(p, label, locals)
    PROVE  UpdatesInv'
<1>1. /\ pc' = [pc EXCEPT ![p] = label] /\ my' = [my EXCEPT ![p] = locals]
      /\ UNCHANGED <<host, files, apt, changes, faults, lock>>
  BY DEF Step, Goto, Keep
<1>2. Process(p, label, locals)'
  BY <1>1, SameState DEF host, files
<1>3. HostTypes' /\ FileTypes'
  BY SMTT(30), <1>1 DEF UpdatesInv, HostTypes, FileTypes, host, files
<1>4. AptInv' /\ StatusInv' /\ Kept
  BY <1>1 DEF UpdatesInv, AptInv, StatusInv, Sound, Based, Until, Differ, host, files, Kept
<1>5. CASE p = Reader
  <2>1. (reviewed' = None \/ reviewed' \in Plan) /\ faults' \in 0..MaxFaults
    BY <1>3 DEF FileTypes, HostTypes
  <2> QED
    BY <1>1, <1>2, <1>5, <2>1, ReaderMoves DEF files
<1>6. CASE p \in Admins
  <2>1. lock = p
    BY <1>6, Holder, ReaderAssumption
  <2> QED
    BY <1>1, <1>2, <1>3, <1>4, <1>6, <2>1, AdminMoves
<1> QED
  BY <1>5, <1>6 DEF Procs

\* A process that ends takes nothing back.
LEMMA LeaveHolds ==
    ASSUME UpdatesInv, NEW p \in Procs, pc[p] # "idle", Leave(p),
           UNCHANGED <<host, files, apt, changes>>, faults' \in 0..MaxFaults
    PROVE  UpdatesInv'
<1>1. pc' = [pc EXCEPT ![p] = "idle"] /\ my' = [my EXCEPT ![p] = Blank]
      /\ lock' = IF lock = p THEN None ELSE lock
  BY DEF Leave, Goto
<1>2. lock' \in Admins \cup {None}
  BY <1>1 DEF UpdatesInv, FileTypes
<1>3. HostTypes' /\ FileTypes'
  BY <1>2 DEF UpdatesInv, HostTypes, FileTypes, host, files
<1>4. AptInv' /\ StatusInv' /\ Kept
  BY DEF UpdatesInv, AptInv, StatusInv, Sound, Based, Until, Differ, host, files, Kept
<1>5. "idle" \in Label /\ Blank \in Local /\ Process(p, "idle", Blank)'
  BY BlankIsLocal, IdleHolds DEF Label
<1>6. CASE p = Reader
  <2>1. (reviewed' = None \/ reviewed' \in Plan) /\ lock' = lock
    BY <1>1, <1>3, <1>6, ReaderAssumption, NoneAssumption DEF FileTypes, UpdatesInv
  <2> QED
    BY <1>1, <1>5, <1>6, <2>1, ReaderMoves DEF files
<1>7. CASE p \in Admins
  <2>1. lock = p
    BY <1>7, Holder
  <2> QED
    BY <1>1, <1>3, <1>4, <1>5, <1>7, <2>1, AdminMoves
<1> QED
  BY <1>6, <1>7 DEF Procs

\* An error ends the process before its transaction has begun.
LEMMA GiveUpHolds ==
    ASSUME UpdatesInv, NEW p \in Procs, pc[p] # "idle", GiveUp(p)
    PROVE  UpdatesInv'
<1>1. Leave(p) /\ UNCHANGED <<host, files, apt, changes>> /\ faults' = faults
  BY DEF GiveUp, Keep
<1>2. faults' \in 0..MaxFaults
  BY <1>1 DEF UpdatesInv, HostTypes
<1> QED
  BY <1>1, <1>2, LeaveHolds

\* What is known of a process: its locals, where it stands, and its lock.
LEMMA AtHand ==
    ASSUME UpdatesInv, NEW p \in Procs
    PROVE  /\ my[p] \in Local /\ pc[p] \in Label /\ Process(p, pc[p], my[p])
           /\ p \in Admins => p # Reader /\ (pc[p] # "idle" => lock = p)
BY Holder, ReaderAssumption DEF UpdatesInv

\* What holds when a step changes nothing but a process and the lock.
LEMMA KeepHolds ==
    ASSUME UpdatesInv, Keep, lock' \in Admins \cup {None}
    PROVE  HostTypes' /\ FileTypes' /\ AptInv' /\ StatusInv' /\ Kept
<1>1. HostTypes' /\ FileTypes'
  BY DEF UpdatesInv, HostTypes, FileTypes, host, files, Keep
<1> QED
  BY <1>1 DEF UpdatesInv, AptInv, StatusInv, Sound, Based, Until, Differ, host, files, Kept, Keep

\* The native run and the files, when receipts are only added.
LEMMA AptKept ==
    ASSUME UpdatesInv, Kept, UNCHANGED <<status, apt, system, changes>>
    PROVE  AptInv'
<1> SUFFICES ASSUME apt # None
             PROVE  AptInv'
  BY DEF AptInv
<1>1. apt.before.plan.generation \in Generations
  BY DEF UpdatesInv, FileTypes, Run, Before, Plan
<1>2. Sound(apt.before.plan)'
  <2>1. \A plan : plan.generation \in Generations /\ Sound(plan) => Sound(plan)'
    BY SoundKept
  <2> QED
    BY <1>1, <2>1 DEF UpdatesInv, AptInv
<1> QED
  BY <1>2 DEF UpdatesInv, AptInv, Differ

-----------------------------------------------------------------------------
\* refresh(): a receipt for a generation that has none.
LEMMA StartRefreshHolds ==
    ASSUME UpdatesInv, NEW p \in Admins, StartRefresh(p) PROVE UpdatesInv'
<1>1. PICK g \in Generations :
         /\ Fresh(g)
         /\ my' = [my EXCEPT ![p] = [Blank EXCEPT !.generation = g,
                                        !.receipt = [policy |-> policy, at |-> now,
                                                     version |-> None, expiry |-> None]]]
  BY DEF StartRefresh
<1>2. lock = None /\ lock' = p /\ pc' = [pc EXCEPT ![p] = "fetch"] /\ Keep
  BY DEF StartRefresh, Goto
<1> DEFINE draft == [policy |-> policy, at |-> now, version |-> None, expiry |-> None]
           one   == [Blank EXCEPT !.generation = g]
           two   == [one EXCEPT !.receipt = draft]
<1>3. draft \in Draft
  BY DEF UpdatesInv, HostTypes, Draft
<1> HIDE DEF draft
<1>4. one \in Local /\ one.generation = g /\ one.then = "review"
  BY BlankIsLocal DEF Local, Blank
<1> HIDE DEF one
<1>5. two \in Local /\ two.generation = g /\ two.then = "review" /\ two.receipt = draft
  BY <1>3, <1>4 DEF Local
<1>6. PICK locals \in Local : locals = two
  BY <1>5
<1> HIDE DEF two
<1>7. my' = [my EXCEPT ![p] = locals]
  BY <1>1, <1>6 DEF two, one, draft
<1>8. receipts'[g] = None
  BY <1>1, <1>2 DEF Fresh, Keep, files
<1>9. Process(p, "fetch", locals)'
  BY <1>1, <1>2, <1>3, <1>5, <1>6, <1>8, ReaderAssumption
     DEF Process, Control, Refreshing, Planned, Recorded, Underway, Planning, Seen, FirstPlan, BeforeKept,
         SecondPlan, Ending
<1>10. HostTypes' /\ FileTypes' /\ AptInv' /\ StatusInv' /\ Kept
  BY <1>2, KeepHolds
<1> QED
  BY <1>2, <1>7, <1>9, <1>10, AdminMoves DEF Label

\* apt-get update: the draft becomes a receipt, with a version and a date.
LEMMA FetchHolds ==
    ASSUME UpdatesInv, NEW p \in Admins, Fetch(p) PROVE UpdatesInv'
<1>1. pc[p] = "fetch"
  BY DEF Fetch
<1>2. /\ my[p] \in Local /\ my[p].generation \in Generations /\ receipts[my[p].generation] = None
      /\ my[p].receipt \in Draft /\ (my[p].then # "review" => my[p].id \in Plan) /\ lock = p /\ p # Reader
      /\ p \in Procs
  BY <1>1, AtHand DEF Process, Refreshing, Control, Procs
<1>3. ASSUME NEW lifetime \in Lifetimes,
             Step(p, "receipt", [my[p] EXCEPT !.receipt.version = published, !.receipt.expiry = now + lifetime])
      PROVE  UpdatesInv'
  <2>1. published \in Versions /\ now + lifetime \in Nat \ {0}
    <3>1. published \in Versions /\ now \in Nat /\ lifetime \in Nat \ {0}
      BY <1>3, Numbers DEF UpdatesInv, HostTypes
    <3> QED
      BY <3>1
  <2> DEFINE one     == [my[p].receipt EXCEPT !.version = published]
             receipt == [one EXCEPT !.expiry = now + lifetime]
             locals  == [my[p] EXCEPT !.receipt = receipt]
  <2>2. one \in Draft /\ one.version = published
    BY <1>2, <2>1 DEF Draft
  <2> HIDE DEF one
  <2>3. receipt \in Draft /\ receipt \in Receipt
    BY <2>1, <2>2 DEF Draft, Receipt
  <2> HIDE DEF receipt
  <2>4. /\ locals \in Local /\ locals.receipt = receipt /\ locals.generation = my[p].generation
        /\ locals.then = my[p].then /\ locals.id = my[p].id
    BY <1>2, <2>3 DEF Local
  <2>6. Step(p, "receipt", locals)
    BY <1>2, <1>3 DEF Local, receipt, one
  <2> HIDE DEF locals
  <2>5. Process(p, "receipt", locals)
    BY <1>2, <2>3, <2>4
       DEF Process, Control, Refreshing, Planned, Recorded, Underway, Planning, Seen, FirstPlan, BeforeKept,
           SecondPlan, Ending
  <2> QED
    BY <1>1, <1>2, <2>6, <2>4, <2>5, StepHolds DEF Label
<1>4. CASE GiveUp(p)
  BY <1>1, <1>2, <1>4, GiveUpHolds
<1> QED
  BY <1>3, <1>4 DEF Fetch

\* The receipt is written once, under the lock.
LEMMA WriteReceiptHolds ==
    ASSUME UpdatesInv, NEW p \in Admins, WriteReceipt(p) PROVE UpdatesInv'
<1>1. /\ pc[p] = "receipt" /\ pc' = [pc EXCEPT ![p] = "pointer"] /\ UNCHANGED my
      /\ receipts' = [receipts EXCEPT ![my[p].generation] = my[p].receipt]
      /\ UNCHANGED <<host, current, reviewed, status, apt, lock, changes, faults>>
  BY DEF WriteReceipt, Goto
<1>2. /\ my[p] \in Local /\ my[p].generation \in Generations /\ receipts[my[p].generation] = None
      /\ my[p].receipt \in Receipt /\ (my[p].then # "review" => my[p].id \in Plan) /\ lock = p /\ p # Reader
      /\ p \in Procs
  BY <1>1, AtHand DEF Process, Refreshing, Control, Procs
<1>3. /\ receipts' \in [Generations -> Receipt \cup {None}] /\ receipts'[my[p].generation] # None /\ Kept
  BY <1>1, <1>2, Present DEF UpdatesInv, FileTypes, Kept
<1>4. HostTypes' /\ FileTypes'
  BY <1>1, <1>3 DEF UpdatesInv, HostTypes, FileTypes, host
<1>5. AptInv' /\ StatusInv'
  <2>1. AptInv'
    BY <1>1, <1>3, AptKept DEF host
  <2> QED
    BY <1>1, <1>3, <2>1 DEF UpdatesInv, FileTypes, StatusInv, host, Kept
<1>6. PICK m \in Local : m = my[p]
  BY <1>2
<1>7. my' = [my EXCEPT ![p] = m]
  BY <1>1, <1>6 DEF UpdatesInv
<1>8. Process(p, "pointer", m)'
  BY <1>1, <1>2, <1>3, <1>6
     DEF Process, Control, Refreshing, Planned, Recorded, Underway, Planning, Seen, FirstPlan, BeforeKept,
         SecondPlan, Ending
<1> QED
  BY <1>1, <1>2, <1>3, <1>4, <1>5, <1>7, <1>8, AdminMoves DEF Label

\* The pointer follows the receipt.
LEMMA WritePointerHolds ==
    ASSUME UpdatesInv, NEW p \in Admins, WritePointer(p) PROVE UpdatesInv'
<1>1. /\ pc[p] = "pointer" /\ current' = my[p].generation /\ Leave(p)
      /\ UNCHANGED <<host, receipts, reviewed, status, apt, changes, faults>>
  BY DEF WritePointer
<1>2. /\ my[p].generation \in Generations /\ receipts[my[p].generation] # None /\ lock = p
  BY <1>1, AtHand DEF Process, Refreshing, Procs
<1>3. pc' = [pc EXCEPT ![p] = "idle"] /\ my' = [my EXCEPT ![p] = Blank] /\ lock' = None
  BY <1>1, <1>2 DEF Leave, Goto
<1>4. HostTypes' /\ FileTypes' /\ Kept
  BY <1>1, <1>2, <1>3 DEF UpdatesInv, HostTypes, FileTypes, host, Kept
<1>5. AptInv' /\ StatusInv'
  <2>1. AptInv'
    BY <1>1, <1>4, AptKept DEF host
  <2> QED
    BY <1>1, <1>2, <2>1 DEF UpdatesInv, StatusInv, host
<1>6. Process(p, "idle", Blank)'
  BY IdleHolds
<1> QED
  BY <1>2, <1>3, <1>4, <1>5, <1>6, BlankIsLocal, AdminMoves DEF Label

-----------------------------------------------------------------------------
\* plan(), by its reader or inside apply.  Facts of a process that plans.
LEMMA Planner ==
    ASSUME UpdatesInv, NEW p \in Procs, pc[p] \in Planning
    PROVE  /\ my[p] \in Local /\ Process(p, pc[p], my[p])
           /\ p \in Admins => lock = p
           /\ p = Reader <=> my[p].then = "review"
           /\ my[p].then # "review" => my[p].id \in Plan
           /\ my[p].then = "second" =>
                 /\ my[p].before \in Before /\ my[p].before.plan = my[p].id
                 /\ Sound(my[p].before.plan) /\ my[p].before.plan.version # 0
                 /\ status # None /\ status.state = "started"
<1>1. my[p] \in Local /\ Process(p, pc[p], my[p]) /\ (p \in Admins => lock = p)
  BY AtHand DEF Planning
<1>2. /\ p = Reader <=> my[p].then = "review"
      /\ my[p].then # "review" => my[p].id \in Plan
  BY <1>1 DEF Process, Control, Planning
<1>3. my[p].then = "second" => Underway(pc[p], my[p])
  BY DEF Underway
<1> QED
  BY <1>1, <1>2, <1>3 DEF Process, Recorded

\* An error in apply, once it has written "started", leads to its handler.
LEMMA FailedHolds ==
    ASSUME UpdatesInv, NEW p \in Admins, Underway(pc[p], my[p]), Failed(p)
    PROVE  UpdatesInv'
<1>1. pc[p] # "idle" /\ p \in Procs
  BY DEF Underway, Planning, Procs
<1>2. /\ my[p] \in Local /\ lock = p /\ p # Reader
      /\ my[p].before \in Before /\ my[p].before.plan = my[p].id
      /\ Sound(my[p].before.plan) /\ my[p].before.plan.version # 0
      /\ status # None /\ status.state = "started"
      /\ my[p].then # "review" => my[p].id \in Plan
  BY <1>1, AtHand DEF Process, Control, Recorded
<1> DEFINE locals == [my[p] EXCEPT !.outcome = "failed"]
<1>3. /\ locals \in Local /\ locals.outcome = "failed" /\ locals.before = my[p].before
      /\ locals.id = my[p].id /\ locals.then = my[p].then
  BY <1>2 DEF Local
<1>4. Step(p, "finish", locals)
  BY DEF Failed
<1> HIDE DEF locals
<1>5. Process(p, "finish", locals)
  BY <1>2, <1>3
     DEF Process, Control, Refreshing, Planned, Recorded, Underway, Planning, Seen, FirstPlan, BeforeKept,
         SecondPlan, Ending
<1> QED
  BY <1>1, <1>3, <1>4, <1>5, StepHolds DEF Label

\* An error in plan().
LEMMA PlanFailsHolds ==
    ASSUME UpdatesInv, NEW p \in Procs, pc[p] \in Planning, PlanFails(p)
    PROVE  UpdatesInv'
<1>1. CASE my[p].then = "second"
  <2>1. Failed(p) /\ p # Reader
    BY <1>1, Planner DEF PlanFails, Failed
  <2>2. Underway(pc[p], my[p])
    BY <1>1 DEF Underway
  <2> QED
    BY <2>1, <2>2, FailedHolds DEF Procs
<1>2. CASE my[p].then # "second"
  BY <1>2, GiveUpHolds DEF PlanFails, Planning
<1> QED
  BY <1>1, <1>2

\* How long the metadata is good for is a number.
LEMMA UntilIsNat ==
    ASSUME NEW r \in Receipt
    PROVE  Until(r) \in Nat
<1>1. r.at \in Nat /\ MaxAge \in Nat /\ r.expiry \in Nat
  BY Numbers DEF Receipt
<1> QED
  BY <1>1 DEF Until

\* A process whose plan becomes another.
LEMMA WithPlan ==
    ASSUME NEW m \in Local, NEW plan \in Half, NEW locals, locals = [m EXCEPT !.plan = plan]
    PROVE  /\ locals \in Local /\ locals.plan = plan /\ locals.id = m.id /\ locals.before = m.before
           /\ locals.then = m.then /\ locals.outcome = m.outcome
BY DEF Local

\* verified(): the receipt of the pointer, under the present policy.
LEMMA PlanVerifyHolds ==
    ASSUME UpdatesInv, NEW p \in Procs, PlanVerify(p) PROVE UpdatesInv'
<1>1. pc[p] = "verify" /\ pc[p] \in Planning
  BY DEF PlanVerify, Planning
<1>2. CASE PlanFails(p)
  BY <1>1, <1>2, PlanFailsHolds
<1>3. CASE ~PlanFails(p)
  <2> DEFINE plan   == [generation |-> current, policy |-> policy, until |-> Until(receipts[current]),
                        system |-> None, version |-> 0]
             locals == [my[p] EXCEPT !.plan = plan]
  <2>1. current # 0 /\ Verified(receipts[current]) /\ Step(p, "inventory", locals)
    BY <1>3 DEF PlanVerify
  <2>2. current \in Generations /\ receipts[current] # None /\ receipts[current] \in Receipt /\ policy \in BOOLEAN
    BY <2>1 DEF UpdatesInv, StatusInv, FileTypes, HostTypes
  <2>3. policy = receipts[current].policy
    BY <2>1 DEF Verified
  <2>4. 0 \in Versions
    BY Numbers DEF Versions
  <2>5. /\ plan \in Half /\ plan.generation = current /\ plan.policy = policy
        /\ plan.until = Until(receipts[current])
    BY <2>2, <2>4, UntilIsNat DEF Half
  <2> HIDE DEF plan
  <2>6. Based(plan)
    BY <2>2, <2>3, <2>5 DEF Based
  <2>7. /\ locals \in Local /\ locals.plan = plan /\ locals.id = my[p].id /\ locals.before = my[p].before
        /\ locals.then = my[p].then
    BY <1>1, <2>5, Planner, WithPlan
  <2> HIDE DEF locals
  <2>8. Process(p, "inventory", locals)
    <3>1. Control(p, "inventory", locals) /\ Refreshing("inventory", locals) /\ Ending(p, "inventory", locals)
      BY <1>1, <2>7, Planner, ReaderAssumption DEF Control, Refreshing, Ending, Planning, Procs
    <3>2. Planned("inventory", locals)
      BY <2>5, <2>6, <2>7 DEF Planned
    <3>3. Recorded("inventory", locals)
      BY <1>1, <2>7, Planner DEF Recorded, Underway, Planning
    <3>4. Seen("inventory", locals)
      BY <1>1, <2>7, Planner DEF Process, Seen, FirstPlan, BeforeKept, SecondPlan
    <3> QED
      BY <3>1, <3>2, <3>3, <3>4 DEF Process
  <2> QED
    BY <1>1, <2>1, <2>7, <2>8, StepHolds DEF Label
<1> QED
  BY <1>2, <1>3

\* dpkg-query: the inventory of this very moment.
LEMMA PlanInventoryHolds ==
    ASSUME UpdatesInv, NEW p \in Procs, PlanInventory(p) PROVE UpdatesInv'
<1>1. pc[p] = "inventory" /\ pc[p] \in Planning
  BY DEF PlanInventory, Planning
<1>2. CASE PlanFails(p)
  BY <1>1, <1>2, PlanFailsHolds
<1>3. CASE ~PlanFails(p)
  <2> DEFINE plan   == [my[p].plan EXCEPT !.system = system]
             locals == [my[p] EXCEPT !.plan = plan]
  <2>1. Step(p, "simulate", [my[p] EXCEPT !.plan.system = system])
    BY <1>3 DEF PlanInventory
  <2>2. my[p] \in Local /\ my[p].plan \in Half /\ Based(my[p].plan) /\ system \in System
    BY <1>1, Planner DEF Process, Planned, UpdatesInv, HostTypes
  <2>3. Step(p, "simulate", locals)
    BY <2>1, <2>2 DEF Local
  <2>4. /\ plan \in Half /\ plan \in Plan /\ plan.generation = my[p].plan.generation
        /\ plan.policy = my[p].plan.policy /\ plan.until = my[p].plan.until /\ plan.system = system
    BY <2>2 DEF Half, Plan
  <2> HIDE DEF plan
  <2>5. Based(plan)
    BY <2>2, <2>4 DEF Based
  <2>6. /\ locals \in Local /\ locals.plan = plan /\ locals.id = my[p].id /\ locals.before = my[p].before
        /\ locals.then = my[p].then
    BY <2>2, <2>4, WithPlan
  <2> HIDE DEF locals
  <2>7. Process(p, "simulate", locals)
    <3>1. Control(p, "simulate", locals) /\ Refreshing("simulate", locals) /\ Ending(p, "simulate", locals)
      BY <1>1, <2>6, Planner, ReaderAssumption DEF Control, Refreshing, Ending, Planning, Procs
    <3>2. Planned("simulate", locals)
      BY <2>4, <2>5, <2>6 DEF Planned
    <3>3. Recorded("simulate", locals)
      BY <1>1, <2>6, Planner DEF Recorded, Underway, Planning
    <3>4. SeenOnce(system)
      <4>1. system.app \in Nat
        BY <2>2, Numbers DEF System, Versions
      <4> QED
        BY <4>1 DEF SeenOnce, Differ
    <3>5. my[p].then = "second" => SeenAgain(my[p].id.system, my[p].before.system, system)
      <4>1. my[p].then = "second" => SeenTwice(my[p].id.system, my[p].before.system)
        BY <1>1, Planner DEF Process, Seen, BeforeKept
      <4>2. system.app \in Nat
        BY <2>2, Numbers DEF System, Versions
      <4> QED
        BY <4>1, <4>2 DEF SeenTwice, SeenAgain, Differ
    <3>6. Seen("simulate", locals)
      BY <2>4, <2>6, <3>4, <3>5 DEF Seen, FirstPlan, BeforeKept, SecondPlan
    <3> QED
      BY <3>1, <3>2, <3>3, <3>6 DEF Process
  <2> QED
    BY <1>1, <2>3, <2>6, <2>7, StepHolds DEF Label
<1> QED
  BY <1>2, <1>3

\* apt-get --simulate: the receipt's version, or none that is newer.
LEMMA PlanSimulateHolds ==
    ASSUME UpdatesInv, NEW p \in Procs, PlanSimulate(p) PROVE UpdatesInv'
<1>1. pc[p] = "simulate" /\ pc[p] \in Planning
  BY DEF PlanSimulate, Planning
<1> DEFINE latest  == receipts[my[p].plan.generation].version
           version == IF latest > system.app THEN latest ELSE 0
           plan    == [my[p].plan EXCEPT !.version = version]
           locals  == [my[p] EXCEPT !.plan = plan]
<1>2. Step(p, my[p].then, [my[p] EXCEPT !.plan.version = version])
  BY DEF PlanSimulate
<1>3. my[p] \in Local /\ my[p].plan \in Plan /\ Based(my[p].plan)
  BY <1>1, Planner DEF Process, Planned
<1>4. Step(p, my[p].then, locals)
  BY <1>2, <1>3 DEF Local
<1>5. latest \in Versions /\ 0 \in Versions
  BY <1>3, Numbers DEF UpdatesInv, FileTypes, Based, Plan, Receipt, Versions
<1>6. version \in Versions /\ (version # 0 => version = latest)
  BY <1>5
<1> HIDE DEF version
<1>7. /\ plan \in Half /\ plan \in Plan /\ plan.generation = my[p].plan.generation
      /\ plan.policy = my[p].plan.policy /\ plan.until = my[p].plan.until
      /\ plan.system = my[p].plan.system /\ plan.version = version
  BY <1>3, <1>6 DEF Half, Plan
<1> HIDE DEF plan
<1>8. Sound(plan)
  BY <1>3, <1>6, <1>7 DEF Sound, Based
<1>9. /\ locals \in Local /\ locals.plan = plan /\ locals.id = my[p].id /\ locals.before = my[p].before
      /\ locals.then = my[p].then
  BY <1>3, <1>7, WithPlan
<1> HIDE DEF locals
<1>10. PICK label \in {"review", "first", "second"} : label = my[p].then
  BY <1>3 DEF Local
<1>11. Process(p, label, locals)
  <2>1. Control(p, label, locals) /\ Refreshing(label, locals) /\ Ending(p, label, locals)
    BY <1>1, <1>9, <1>10, Planner, ReaderAssumption DEF Control, Refreshing, Ending, Planning, Procs
  <2>2. Planned(label, locals)
    BY <1>7, <1>8, <1>9, <1>10 DEF Planned
  <2>3. Recorded(label, locals)
    BY <1>1, <1>9, <1>10, Planner DEF Recorded, Underway, Planning
  <2>4. Seen(label, locals)
    BY <1>1, <1>7, <1>9, <1>10, Planner DEF Process, Seen, FirstPlan, BeforeKept, SecondPlan
  <2> QED
    BY <2>1, <2>2, <2>3, <2>4 DEF Process
<1> QED
  BY <1>1, <1>4, <1>9, <1>10, <1>11, StepHolds DEF Label

\* The reader shows its plan, and `rougarou update plan` starts the next.
LEMMA ReaderHolds ==
    ASSUME UpdatesInv, StartPlan \/ ShowPlan PROVE UpdatesInv'
<1>1. CASE StartPlan
  <2>1. Process(Reader, "verify", Blank)
    BY ReaderAssumption
       DEF Blank, Process, Control, Refreshing, Planned, Recorded, Underway, Planning, Seen, FirstPlan, BeforeKept,
           SecondPlan, Ending
  <2> QED
    BY <1>1, <2>1, BlankIsLocal, StepHolds DEF StartPlan, Label, Procs
<1>2. CASE ShowPlan
  <2>1. /\ pc[Reader] = "review" /\ reviewed' = my[Reader].plan /\ Leave(Reader)
        /\ UNCHANGED <<host, receipts, current, status, apt, changes, faults>>
    BY <1>2 DEF ShowPlan
  <2>2. reviewed' \in Plan
    BY <2>1, AtHand DEF Process, Planned, Procs
  <2>3. lock' = lock /\ pc' = [pc EXCEPT ![Reader] = "idle"] /\ my' = [my EXCEPT ![Reader] = Blank]
    BY <2>1, ReaderAssumption, NoneAssumption DEF Leave, Goto, UpdatesInv, FileTypes
  <2>4. faults' \in 0..MaxFaults
    BY <2>1 DEF UpdatesInv, HostTypes
  <2> QED
    BY <2>1, <2>2, <2>3, <2>4, BlankIsLocal, IdleHolds, ReaderMoves DEF Label
<1> QED
  BY <1>1, <1>2

-----------------------------------------------------------------------------
\* apply(), up to the start of APT.
LEMMA StartApplyHolds ==
    ASSUME UpdatesInv, NEW p \in Admins, StartApply(p) PROVE UpdatesInv'
<1>1. /\ lock = None /\ reviewed # None /\ lock' = p /\ pc' = [pc EXCEPT ![p] = "verify"] /\ Keep
      /\ my' = [my EXCEPT ![p] = [Blank EXCEPT !.id = reviewed, !.then = "first"]]
  BY DEF StartApply, Goto
<1> DEFINE one == [Blank EXCEPT !.id = reviewed]
           two == [one EXCEPT !.then = "first"]
<1>2. reviewed \in Plan
  BY <1>1 DEF UpdatesInv, FileTypes
<1>3. one \in Local /\ one.id = reviewed
  BY <1>2, BlankIsLocal DEF Local
<1> HIDE DEF one
<1>4. two \in Local /\ two.id = reviewed /\ two.then = "first"
  BY <1>3 DEF Local
<1>5. PICK locals \in Local : locals = two
  BY <1>4
<1>6. my' = [my EXCEPT ![p] = locals]
  BY <1>1, <1>5 DEF one
<1> HIDE DEF two
<1>7. Process(p, "verify", locals)'
  BY <1>1, <1>2, <1>4, <1>5, ReaderAssumption
     DEF Process, Control, Refreshing, Planned, Recorded, Underway, Planning, Seen, FirstPlan, BeforeKept,
         SecondPlan, Ending
<1>8. HostTypes' /\ FileTypes' /\ AptInv' /\ StatusInv' /\ Kept
  BY <1>1, KeepHolds
<1> QED
  BY <1>1, <1>6, <1>7, <1>8, AdminMoves DEF Label

\* The plan that was made is the one that was reviewed.
LEMMA FirstCompareHolds ==
    ASSUME UpdatesInv, NEW p \in Admins, FirstCompare(p) PROVE UpdatesInv'
<1>1. pc[p] = "first" /\ p \in Procs
  BY DEF FirstCompare, Procs
<1>2. CASE GiveUp(p)
  BY <1>1, <1>2, GiveUpHolds
<1>3. CASE ~GiveUp(p)
  <2>1. my[p].plan = my[p].id /\ my[p].plan.version # 0 /\ Step(p, "before", my[p])
    BY <1>3 DEF FirstCompare
  <2>2. my[p] \in Local /\ Process(p, "first", my[p]) /\ lock = p /\ p # Reader
    BY <1>1, AtHand
  <2>3. Process(p, "before", my[p])
    BY <2>1, <2>2
       DEF Process, Control, Refreshing, Planned, Recorded, Underway, Planning, Seen, FirstPlan, BeforeKept,
           SecondPlan, Ending
  <2> QED
    BY <1>1, <2>1, <2>2, <2>3, StepHolds DEF Label
<1> QED
  BY <1>2, <1>3

\* before.json describes the host as it is now.
LEMMA WriteBeforeHolds ==
    ASSUME UpdatesInv, NEW p \in Admins, WriteBefore(p) PROVE UpdatesInv'
<1> DEFINE before == [plan |-> my[p].plan, system |-> system]
           locals == [my[p] EXCEPT !.before = before]
<1>1. pc[p] = "before" /\ p \in Procs /\ Step(p, "started", locals)
  BY DEF WriteBefore, Procs
<1>2. my[p] \in Local /\ Process(p, "before", my[p]) /\ lock = p /\ p # Reader
  BY <1>1, AtHand
<1>3. /\ my[p].plan \in Plan /\ Sound(my[p].plan) /\ my[p].plan = my[p].id /\ my[p].plan.version # 0
      /\ my[p].then = "first"
  BY <1>2 DEF Process, Control, Planned
<1>4. system \in System
  BY DEF UpdatesInv, HostTypes
<1>5. before \in Before /\ before.plan = my[p].plan /\ before.system = system
  BY <1>3, <1>4 DEF Before
<1> HIDE DEF before
<1>6. /\ locals \in Local /\ locals.before = before /\ locals.plan = my[p].plan /\ locals.id = my[p].id
      /\ locals.then = "first"
  BY <1>2, <1>3, <1>5 DEF Local
<1> HIDE DEF locals
<1>7. SeenTwice(my[p].plan.system, system)
  <2>1. SeenOnce(my[p].plan.system)
    BY <1>2 DEF Process, Seen, FirstPlan
  <2>2. system.app \in Nat
    BY <1>4, Numbers DEF System, Versions
  <2> QED
    BY <2>1, <2>2 DEF SeenOnce, SeenTwice, Differ
<1>8. Process(p, "started", locals)
  <2>1. Control(p, "started", locals) /\ Refreshing("started", locals) /\ Ending(p, "started", locals)
    BY <1>2, <1>3, <1>6 DEF Control, Refreshing, Ending, Planning
  <2>2. Planned("started", locals) /\ Recorded("started", locals)
    BY <1>3, <1>5, <1>6 DEF Planned, Recorded, Underway, Planning
  <2>3. Seen("started", locals)
    BY <1>3, <1>5, <1>6, <1>7 DEF Seen, FirstPlan, BeforeKept, SecondPlan
  <2> QED
    BY <2>1, <2>2, <2>3 DEF Process
<1> QED
  BY <1>1, <1>6, <1>8, StepHolds DEF Label

\* "started" is on disk before anything is downloaded.
LEMMA WriteStartedHolds ==
    ASSUME UpdatesInv, NEW p \in Admins, WriteStarted(p) PROVE UpdatesInv'
<1>1. /\ pc[p] = "started" /\ p \in Procs /\ pc' = [pc EXCEPT ![p] = "download"] /\ UNCHANGED my
      /\ status' = [state |-> "started", version |-> my[p].plan.version]
      /\ UNCHANGED <<host, receipts, current, reviewed, apt, lock, changes, faults>>
  BY DEF WriteStarted, Goto, Procs
<1>2. my[p] \in Local /\ Process(p, "started", my[p]) /\ lock = p /\ p # Reader
  BY <1>1, AtHand
<1>3. my[p].plan \in Plan
  BY <1>2 DEF Process, Planned
<1>4. status' \in Status /\ status' # None /\ status'.state = "started"
  BY <1>1, <1>3, Present DEF Status, Plan
<1>5. HostTypes' /\ FileTypes' /\ Kept
  BY <1>1, <1>4 DEF UpdatesInv, HostTypes, FileTypes, host, Kept
<1>6. AptInv' /\ StatusInv'
  BY <1>1, <1>4 DEF UpdatesInv, AptInv, StatusInv, Sound, Based, Until, Differ, host
<1>7. PICK m \in Local : m = my[p]
  BY <1>2
<1>8. my' = [my EXCEPT ![p] = m]
  BY <1>1, <1>7 DEF UpdatesInv
<1>9. Process(p, "download", m)'
  <2>1. Process(p, "started", m)
    BY <1>2, <1>7
  <2>2. Control(p, "download", m)' /\ Refreshing("download", m)' /\ Ending(p, "download", m)'
    BY SMTT(30), <1>1, <1>2, <2>1 DEF Process, Control, Refreshing, Ending, Planning
  <2>3. Planned("download", m)' /\ Recorded("download", m)'
    BY <1>1, <1>4, <2>1 DEF Process, Planned, Recorded, Underway, Planning, Sound, Based, Until
  <2>4. Seen("download", m)'
    BY <1>1, <2>1 DEF Process, Seen, FirstPlan, BeforeKept, SecondPlan, SeenTwice, Differ, host
  <2> QED
    BY <2>2, <2>3, <2>4 DEF Process
<1> QED
  BY <1>1, <1>2, <1>5, <1>6, <1>8, <1>9, AdminMoves DEF Label

\* The plan is made again after the download.
LEMMA DownloadHolds ==
    ASSUME UpdatesInv, NEW p \in Admins, Download(p) PROVE UpdatesInv'
<1>1. pc[p] = "download" /\ p \in Procs
  BY DEF Download, Procs
<1>2. CASE Failed(p)
  BY <1>1, <1>2, FailedHolds DEF Underway
<1>3. CASE ~Failed(p)
  <2> DEFINE locals == [my[p] EXCEPT !.then = "second"]
  <2>1. Step(p, "verify", locals)
    BY <1>3 DEF Download
  <2>2. my[p] \in Local /\ Process(p, "download", my[p]) /\ lock = p /\ p # Reader
    BY <1>1, AtHand
  <2>3. /\ locals \in Local /\ locals.before = my[p].before /\ locals.id = my[p].id /\ locals.then = "second"
    BY <2>2 DEF Local
  <2> HIDE DEF locals
  <2>4. my[p].id \in Plan /\ Recorded("download", my[p]) /\ SeenTwice(my[p].id.system, my[p].before.system)
    BY <2>2 DEF Process, Control, Seen, BeforeKept
  <2>5. Process(p, "verify", locals)
    <3>1. Control(p, "verify", locals) /\ Refreshing("verify", locals) /\ Ending(p, "verify", locals)
          /\ Planned("verify", locals)
      BY <2>2, <2>3, <2>4 DEF Control, Refreshing, Ending, Planning, Planned
    <3>2. Recorded("verify", locals) /\ Seen("verify", locals)
      BY <2>3, <2>4 DEF Recorded, Underway, Planning, Seen, FirstPlan, BeforeKept, SecondPlan
    <3> QED
      BY <3>1, <3>2 DEF Process
  <2> QED
    BY <1>1, <2>1, <2>3, <2>5, StepHolds DEF Label
<1> QED
  BY <1>2, <1>3

\* The second plan is the reviewed one, and APT would follow it.
LEMMA SecondCompareHolds ==
    ASSUME UpdatesInv, NEW p \in Admins, SecondCompare(p) PROVE UpdatesInv'
<1>1. pc[p] = "second" /\ p \in Procs
  BY DEF SecondCompare, Procs
<1>2. CASE Failed(p)
  BY <1>1, <1>2, FailedHolds DEF Underway
<1>3. CASE ~Failed(p)
  <2>1. my[p].plan = my[p].id /\ system.app < my[p].plan.version /\ Step(p, "assert", my[p])
    BY <1>3 DEF SecondCompare, PlanStands, Simulated
  <2>2. my[p] \in Local /\ Process(p, "second", my[p]) /\ lock = p /\ p # Reader
    BY <1>1, AtHand
  <2>3. my[p].before.system.app < my[p].plan.version
    <3>1. /\ my[p].before.system.app <= my[p].plan.system.app /\ my[p].plan.system.app <= system.app
          /\ my[p].before \in Before /\ my[p].plan \in Plan
      BY <2>2 DEF Process, Seen, SecondPlan, SeenAgain, Recorded, Underway, Planned
    <3>2. /\ my[p].before.system.app \in Nat /\ my[p].plan.system.app \in Nat /\ system.app \in Nat
          /\ my[p].plan.version \in Nat
      BY <3>1, Numbers DEF Before, Plan, System, Versions, UpdatesInv, HostTypes
    <3> QED
      BY <2>1, <3>1, <3>2
  <2>4. Process(p, "assert", my[p])
    BY <2>1, <2>2, <2>3
       DEF Process, Control, Refreshing, Planned, Recorded, Underway, Planning, Seen, FirstPlan, BeforeKept,
           SecondPlan, Ending
  <2> QED
    BY <1>1, <2>1, <2>2, <2>4, StepHolds DEF Label
<1> QED
  BY <1>2, <1>3

\* assert_before(), called by apply itself.
LEMMA AssertFirstHolds ==
    ASSUME UpdatesInv, NEW p \in Admins, AssertFirst(p) PROVE UpdatesInv'
<1>1. pc[p] = "assert" /\ p \in Procs
  BY DEF AssertFirst, Procs
<1>2. CASE Failed(p)
  BY <1>1, <1>2, FailedHolds DEF Underway
<1>3. CASE ~Failed(p)
  <2>1. Step(p, "install", my[p])
    BY <1>3 DEF AssertFirst
  <2>2. my[p] \in Local /\ Process(p, "assert", my[p]) /\ lock = p /\ p # Reader
    BY <1>1, AtHand
  <2>3. Process(p, "install", my[p])
    BY <2>2
       DEF Process, Control, Refreshing, Planned, Recorded, Underway, Planning, Seen, FirstPlan, BeforeKept,
           SecondPlan, Ending
  <2> QED
    BY <1>1, <2>1, <2>2, <2>3, StepHolds DEF Label
<1> QED
  BY <1>2, <1>3

\* The native run starts with the plan and the inventory of before.json.
LEMMA StartAptHolds ==
    ASSUME UpdatesInv, NEW p \in Admins, StartApt(p) PROVE UpdatesInv'
<1>1. pc[p] = "install" /\ p \in Procs
  BY DEF StartApt, Procs
<1>2. CASE Failed(p)
  BY <1>1, <1>2, FailedHolds DEF Underway
<1>3. CASE ~Failed(p)
  <2>1. /\ apt' = [phase |-> "hook", before |-> my[p].before, owner |-> p]
        /\ pc' = [pc EXCEPT ![p] = "wait"]
        /\ UNCHANGED <<host, files, lock, my, changes, faults>>
    BY <1>3 DEF StartApt, Goto
  <2>2. my[p] \in Local /\ Process(p, "install", my[p]) /\ lock = p /\ p # Reader
    BY <1>1, AtHand
  <2>3. /\ my[p].before \in Before /\ my[p].before.plan = my[p].id /\ my[p].plan = my[p].id /\ my[p].plan \in Plan
        /\ Sound(my[p].before.plan) /\ my[p].before.plan.version # 0
        /\ status # None /\ status.state = "started"
        /\ my[p].before.system.app < my[p].plan.version
        /\ SeenAgain(my[p].id.system, my[p].before.system, my[p].plan.system)
    BY <2>2 DEF Process, Control, Planned, Recorded, Underway, Seen, SecondPlan
  <2>4. /\ apt' \in Run /\ apt' # None /\ apt'.before = my[p].before /\ apt'.phase = "hook" /\ apt'.owner = p
    BY <2>1, <2>3, Present DEF Run
  <2>5. HostTypes' /\ FileTypes' /\ StatusInv' /\ Kept
    BY <2>1, <2>4 DEF UpdatesInv, HostTypes, FileTypes, StatusInv, host, files, Kept
  <2>6. /\ my[p].before.system.app = my[p].before.plan.system.app
        /\ Differ(my[p].before.system, my[p].before.plan.system) /\ ~Differ(system, my[p].before.system) => changes >= 3
    <3>1. my[p].before.system.app \in Nat /\ my[p].plan.system.app \in Nat
      BY <2>3, Numbers DEF Before, Plan, System, Versions
    <3> QED
      BY <2>3, <3>1 DEF SeenAgain, Differ
  <2>7. AptInv'
    <3>1. Sound(my[p].before.plan)'
      BY <2>1, <2>3 DEF Sound, Based, Until, files
    <3>2. Sound(apt.before.plan)'
      BY <2>1, <2>4, <3>1
    <3> QED
      BY <2>1, <2>3, <2>4, <2>6, <3>2 DEF AptInv, Differ, host, files
  <2>8. PICK m \in Local : m = my[p]
    BY <2>2
  <2>9. my' = [my EXCEPT ![p] = m]
    BY <2>1, <2>8 DEF UpdatesInv
  <2>10. Process(p, "wait", m)'
    <3>1. Process(p, "install", m)
      BY <2>2, <2>8
    <3>2. Control(p, "wait", m)' /\ Refreshing("wait", m)' /\ Ending(p, "wait", m)'
      BY SMTT(30), <2>1, <2>2, <2>4, <2>8, <3>1 DEF Process, Control, Refreshing, Ending, Planning
    <3>3. Planned("wait", m)' /\ Recorded("wait", m)' /\ Seen("wait", m)'
      BY <2>1, <3>1 DEF Process, Planned, Recorded, Underway, Planning, Sound, Based, Until, Seen, FirstPlan,
                        BeforeKept, SecondPlan, files
    <3> QED
      BY <3>2, <3>3 DEF Process
  <2> QED
    BY <2>1, <2>2, <2>5, <2>7, <2>9, <2>10, AdminMoves DEF Label
<1> QED
  BY <1>2, <1>3

-----------------------------------------------------------------------------
\* The native run ends: its apply goes on if it still waits for it.
LEMMA AptEndsHolds ==
    ASSUME UpdatesInv, apt # None, NEW succeeds \in BOOLEAN, AptEnds(succeeds),
           broken' \in BOOLEAN, broken' => broken, faults' \in 0..MaxFaults,
           UNCHANGED <<published, system, policy, now, files, lock, changes>>
    PROVE  UpdatesInv'
<1>0. PICK p \in Admins : p = apt.owner
  BY DEF UpdatesInv, FileTypes, Run
<1>1. p \in Procs /\ apt' = None
  BY DEF Procs, AptEnds
<1>2. HostTypes' /\ FileTypes' /\ AptInv' /\ StatusInv' /\ Kept
  BY <1>1 DEF UpdatesInv, HostTypes, FileTypes, AptInv, StatusInv, files, Kept
<1>3. CASE pc[p] = "wait" /\ my[p].before = apt.before
  <2> DEFINE label   == IF succeeds THEN "check" ELSE "finish"
             outcome == IF succeeds THEN my[p].outcome ELSE "failed"
             new     == [my[p] EXCEPT !.outcome = outcome]
  <2>1. pc' = [pc EXCEPT ![p] = label] /\ my' = [my EXCEPT ![p] = new]
    BY <1>0, <1>3 DEF AptEnds, Goto
  <2>2. my[p] \in Local /\ Process(p, "wait", my[p]) /\ lock = p /\ p # Reader
    BY <1>1, <1>3, AtHand
  <2>3. /\ new \in Local /\ new.plan = my[p].plan /\ new.id = my[p].id /\ new.before = my[p].before
        /\ new.then = my[p].then /\ (~succeeds => new.outcome = "failed")
    BY <2>2 DEF Local
  <2>4. PICK locals \in Local : locals = new
    BY <2>3
  <2> HIDE DEF new
  <2>5. /\ my[p].then = "second" /\ my[p].id \in Plan /\ my[p].plan = my[p].id /\ my[p].plan \in Plan
        /\ Sound(my[p].plan) /\ my[p].before \in Before /\ my[p].before.plan = my[p].id
        /\ my[p].before.plan.version # 0 /\ status # None /\ status.state = "started"
    BY <2>2 DEF Process, Control, Planned, Recorded, Underway
  <2>6. Sound(locals.plan)'
    BY <2>3, <2>4, <2>5 DEF Sound, Based, Until, files
  <2>7. ASSUME succeeds PROVE Process(p, "check", locals)'
    BY <1>1, <2>2, <2>3, <2>4, <2>5, <2>6
       DEF Process, Control, Refreshing, Planned, Recorded, Underway, Planning, Seen, FirstPlan, BeforeKept,
           SecondPlan, Ending, files
  <2>8. ASSUME ~succeeds PROVE Process(p, "finish", locals)'
    BY <1>1, <2>2, <2>3, <2>4, <2>5, <2>6, <2>8
       DEF Process, Control, Refreshing, Planned, Recorded, Underway, Planning, Seen, FirstPlan, BeforeKept,
           SecondPlan, Ending, files
  <2>9. label \in Label /\ Process(p, label, locals)'
    BY <2>7, <2>8 DEF Label
  <2> HIDE DEF label
  <2> QED
    BY <1>1, <1>2, <2>1, <2>2, <2>4, <2>9, AdminMoves
<1>4. CASE ~(pc[p] = "wait" /\ my[p].before = apt.before)
  <2>1. UNCHANGED <<pc, my>>
    BY <1>0, <1>4 DEF AptEnds
  <2>2. ASSUME NEW q \in Procs PROVE Process(q, pc[q], my[q])'
    <3>1. Process(q, pc[q], my[q]) /\ pc'[q] = pc[q] /\ my'[q] = my[q] /\ pc[q] \in Label /\ my[q] \in Local
      BY <2>1 DEF UpdatesInv
    <3>2. pc[q] # "wait"
      BY <1>0, <1>4, <3>1 DEF Process, Ending
    <3>3. PICK at \in Label, m \in Local : at = pc[q] /\ m = my[q]
      BY <3>1
    <3>4. Process(q, at, m) /\ at # "wait"
      BY <3>1, <3>2, <3>3
    <3>5. Control(q, at, m)' /\ Refreshing(at, m)' /\ Planned(at, m)'
      BY <3>4 DEF Process, Control, Refreshing, Planned, Sound, Based, Until, files
    <3>6. Recorded(at, m)' /\ Seen(at, m)'
      BY <3>4 DEF Process, Recorded, Underway, Sound, Based, Until, Seen, FirstPlan, BeforeKept, SecondPlan,
                  SeenOnce, SeenTwice, SeenAgain, Differ, files
    <3>7. Ending(q, at, m)'
      BY <1>1, <3>4 DEF Process, Ending
    <3> QED
      BY <3>1, <3>3, <3>5, <3>6, <3>7 DEF Process
  <2> QED
    BY <1>2, <2>1, <2>2 DEF UpdatesInv
<1> QED
  BY <1>3, <1>4

\* DPkg::Pre-Invoke.
LEMMA HookHolds == ASSUME UpdatesInv, Hook PROVE UpdatesInv'
<1>1. apt # None /\ apt.phase = "hook" /\ UNCHANGED <<host, files, lock, changes, faults>>
  BY DEF Hook
<1>2. CASE AssertBefore(apt.before)
  <2>1. apt' = [apt EXCEPT !.phase = "unpack"] /\ UNCHANGED <<pc, my>>
    BY <1>2 DEF Hook
  <2>2. apt \in Run
    BY <1>1 DEF UpdatesInv, FileTypes
  <2>3. apt' \in Run /\ apt' # None /\ apt'.phase = "unpack" /\ apt'.before = apt.before /\ apt'.owner = apt.owner
    BY <2>1, <2>2, Present DEF Run
  <2>4. HostTypes' /\ FileTypes' /\ StatusInv'
    BY <1>1, <2>3 DEF UpdatesInv, HostTypes, FileTypes, StatusInv, host, files
  <2>5. AptInv'
    <3>1. Sound(apt.before.plan)'
      BY <1>1, <2>3 DEF UpdatesInv, AptInv, Sound, Based, Until, files
    <3>2. system' = apt'.before.system
      BY <1>1, <1>2, <2>3 DEF AssertBefore, host
    <3> QED
      BY <1>1, <2>3, <3>1, <3>2 DEF UpdatesInv, AptInv, Differ, host, files
  <2>6. Later
    BY <1>1, Numbers DEF UpdatesInv, HostTypes, System, Versions, Later, Differ, host
  <2> QED
    BY <1>1, <2>1, <2>3, <2>4, <2>5, <2>6, OthersMove DEF host, files
<1>3. CASE ~AssertBefore(apt.before)
  <2>1. AptEnds(FALSE)
    BY <1>3 DEF Hook
  <2>2. broken' \in BOOLEAN /\ faults' \in 0..MaxFaults /\ (broken' => broken)
    BY <1>1 DEF UpdatesInv, HostTypes, host
  <2> QED
    BY <1>1, <2>1, <2>2, AptEndsHolds DEF host
<1> QED
  BY <1>2, <1>3

\* dpkg unpacks a newer version.
LEMMA UnpackHolds == ASSUME UpdatesInv, Unpack PROVE UpdatesInv'
<1>1. /\ apt # None /\ apt.phase = "unpack" /\ system' = [system EXCEPT !.app = apt.before.plan.version]
      /\ broken' = TRUE /\ apt' = [apt EXCEPT !.phase = "configure"]
      /\ UNCHANGED <<published, policy, now, files, lock, pc, my, changes, faults>>
  BY DEF Unpack
<1>2. apt \in Run /\ system \in System
  BY <1>1 DEF UpdatesInv, FileTypes, HostTypes
<1>3. apt' \in Run /\ apt' # None /\ apt'.phase = "configure" /\ apt'.before = apt.before /\ apt'.owner = apt.owner
  BY <1>1, <1>2, Present DEF Run
<1>4. apt.before.plan.version \in Versions
  BY <1>2 DEF Run, Before, Plan
<1>5. system' \in System /\ system'.app = apt.before.plan.version /\ system'.other = system.other
  BY <1>1, <1>2, <1>4 DEF System
<1>6. system.app < apt.before.plan.version
  BY <1>1 DEF UpdatesInv, AptInv
<1>7. Later
  <2>1. system.app \in Nat /\ system'.app \in Nat /\ changes \in Nat
    BY <1>2, <1>5, Numbers DEF System, Versions, UpdatesInv, HostTypes
  <2> QED
    BY <1>1, <1>5, <1>6, <2>1 DEF Later, Differ
<1>8. HostTypes' /\ FileTypes'
  BY <1>1, <1>3, <1>5 DEF UpdatesInv, HostTypes, FileTypes, files
<1>9. AptInv' /\ StatusInv'
  <2>1. Sound(apt.before.plan)'
    BY <1>1, <1>3 DEF UpdatesInv, AptInv, Sound, Based, Until, files
  <2> QED
    BY <1>1, <1>3, <2>1 DEF UpdatesInv, AptInv, StatusInv, files
<1> QED
  BY <1>1, <1>3, <1>7, <1>8, <1>9, OthersMove DEF files

\* dpkg configures, or a package script fails.
LEMMA ConfigureHolds == ASSUME UpdatesInv, ConfigurePackages PROVE UpdatesInv'
<1>1. /\ apt # None /\ UNCHANGED <<published, system, policy, now, files, lock, changes>>
      /\ \/ broken' = FALSE /\ AptEnds(TRUE) /\ UNCHANGED faults
         \/ Fault /\ AptEnds(FALSE) /\ UNCHANGED broken
  BY DEF ConfigurePackages
<1>2. broken \in BOOLEAN /\ faults \in Nat /\ faults \in 0..MaxFaults /\ MaxFaults \in Nat
  BY Numbers DEF UpdatesInv, HostTypes
<1>3. Fault => faults' \in 0..MaxFaults
  BY <1>2 DEF Fault
<1>4. CASE broken' = FALSE /\ AptEnds(TRUE) /\ UNCHANGED faults
  BY <1>1, <1>2, <1>4, AptEndsHolds
<1>5. CASE Fault /\ AptEnds(FALSE) /\ UNCHANGED broken
  BY <1>1, <1>2, <1>3, <1>5, AptEndsHolds
<1> QED
  BY <1>1, <1>4, <1>5

-----------------------------------------------------------------------------
\* apply(), after APT: "complete" is what the host has.
LEMMA CheckInstalledHolds ==
    ASSUME UpdatesInv, NEW p \in Admins, CheckInstalled(p) PROVE UpdatesInv'
<1> DEFINE outcome == IF Installed(p) THEN "complete" ELSE "failed"
           locals  == [my[p] EXCEPT !.outcome = outcome]
<1>1. pc[p] = "check" /\ p \in Procs /\ Step(p, "finish", locals)
  BY DEF CheckInstalled, Procs
<1>2. my[p] \in Local /\ Process(p, "check", my[p]) /\ lock = p /\ p # Reader
  BY <1>1, AtHand
<1>3. /\ my[p].id \in Plan /\ my[p].plan = my[p].id /\ my[p].before \in Before /\ my[p].before.plan = my[p].id
      /\ Recorded("check", my[p]) /\ apt = None
  BY <1>2 DEF Process, Control, Recorded, Underway, Ending
<1>4. /\ locals \in Local /\ locals.outcome = outcome /\ locals.before = my[p].before
      /\ locals.id = my[p].id /\ locals.then = my[p].then
  BY <1>2 DEF Local
<1>5. outcome \in {"complete", "failed"} /\ (outcome = "complete" => Installed(p))
  OBVIOUS
<1> HIDE DEF locals, outcome
<1>6. Installed(p) => ~broken /\ my[p].before.plan.version <= system.app
  <2> SUFFICES ASSUME Installed(p) PROVE ~broken /\ my[p].before.plan.version <= system.app
    OBVIOUS
  <2>1. system.app = my[p].plan.version /\ ~broken
    BY <1>3 DEF Installed, Before, System
  <2>2. my[p].plan.version \in Nat
    BY <1>3, Numbers DEF Plan, Versions
  <2> QED
    BY <1>3, <2>1, <2>2
<1>7. Process(p, "finish", locals)
  <2>1. Control(p, "finish", locals) /\ Refreshing("finish", locals) /\ Planned("finish", locals)
        /\ Recorded("finish", locals) /\ Seen("finish", locals)
    BY <1>2, <1>3, <1>4 DEF Control, Refreshing, Planned, Planning, Recorded, Underway, Seen, FirstPlan, BeforeKept,
                            SecondPlan
  <2>2. Ending(p, "finish", locals)
    BY <1>3, <1>4, <1>5, <1>6 DEF Ending
  <2> QED
    BY <2>1, <2>2 DEF Process
<1> QED
  BY <1>1, <1>4, <1>7, StepHolds DEF Label

\* The last status is written before the lock goes.
LEMMA WriteStatusHolds ==
    ASSUME UpdatesInv, NEW p \in Admins, WriteStatus(p) PROVE UpdatesInv'
<1>1. /\ pc[p] = "finish" /\ p \in Procs /\ Leave(p)
      /\ status' = [state |-> my[p].outcome, version |-> my[p].before.plan.version]
      /\ UNCHANGED <<host, receipts, current, reviewed, apt, changes, faults>>
  BY DEF WriteStatus, FinalStatus, Procs
<1>2. my[p] \in Local /\ Process(p, "finish", my[p]) /\ lock = p
  BY <1>1, AtHand
<1>3. /\ my[p].before \in Before /\ my[p].outcome \in {"complete", "failed"}
      /\ my[p].outcome = "complete" => apt = None /\ ~broken /\ my[p].before.plan.version <= system.app
  BY <1>2 DEF Process, Recorded, Underway, Ending
<1>4. status' \in Status /\ status' # None /\ status'.state = my[p].outcome
      /\ status'.version = my[p].before.plan.version
  BY <1>1, <1>3, Present DEF Status, Before, Plan
<1>5. pc' = [pc EXCEPT ![p] = "idle"] /\ my' = [my EXCEPT ![p] = Blank] /\ lock' = None
  BY <1>1, <1>2 DEF Leave, Goto
<1>6. HostTypes' /\ FileTypes' /\ Kept
  BY SMTT(30), <1>1, <1>4, <1>5 DEF UpdatesInv, HostTypes, FileTypes, host, Kept
<1>7. AptInv' /\ StatusInv'
  BY <1>1, <1>3, <1>4 DEF UpdatesInv, AptInv, StatusInv, Sound, Based, Until, Differ, host
<1> QED
  BY ZenonT(40), <1>2, <1>5, <1>6, <1>7, BlankIsLocal, IdleHolds, AdminMoves DEF Label

-----------------------------------------------------------------------------
\* A kill is the end of a process like any other.
LEMMA KillHolds ==
    ASSUME UpdatesInv, NEW p \in Procs, Kill(p) PROVE UpdatesInv'
<1>1. pc[p] # "idle" /\ Leave(p) /\ Fault /\ UNCHANGED <<host, files, apt, changes>>
  BY DEF Kill
<1>2. faults' \in 0..MaxFaults
  <2>1. faults \in Nat /\ MaxFaults \in Nat /\ faults < MaxFaults /\ faults' = faults + 1
    BY <1>1, Numbers DEF Fault, UpdatesInv, HostTypes
  <2> QED
    BY <2>1
<1> QED
  BY <1>1, <1>2, LeaveHolds

\* A reset leaves the files, and packages half installed.
LEMMA ResetHolds == ASSUME UpdatesInv, Reset PROVE UpdatesInv'
<1>1. /\ Fault /\ apt' = None /\ lock' = None /\ pc' = [p \in Procs |-> "idle"] /\ my' = [p \in Procs |-> Blank]
      /\ UNCHANGED <<host, files, changes>>
  BY DEF Reset
<1>2. faults' \in 0..MaxFaults
  <2>1. faults \in Nat /\ MaxFaults \in Nat /\ faults < MaxFaults /\ faults' = faults + 1
    BY <1>1, Numbers DEF Fault, UpdatesInv, HostTypes
  <2> QED
    BY <2>1
<1>3. HostTypes' /\ FileTypes' /\ AptInv' /\ StatusInv'
  BY <1>1, <1>2 DEF UpdatesInv, HostTypes, FileTypes, AptInv, StatusInv, host, files
<1>4. pc' \in [Procs -> Label] /\ my' \in [Procs -> Local]
  BY <1>1, BlankIsLocal DEF Label
<1>5. ASSUME NEW q \in Procs PROVE Process(q, pc[q], my[q])'
  <2>1. pc'[q] = "idle"
    BY <1>1
  <2> QED
    BY <2>1, IdleHolds
<1> QED
  BY <1>3, <1>4, <1>5 DEF UpdatesInv

\* Another administrator installs packages, which never downgrades app, or edits
\* the APT policy.
LEMMA NativeChangeHolds == ASSUME UpdatesInv, NativeChange PROVE UpdatesInv'
<1>1. /\ changes < MaxChanges /\ changes' = changes + 1
      /\ UNCHANGED <<published, now, files, apt, lock, pc, my, faults>>
  BY DEF NativeChange
<1>2. changes \in Nat /\ MaxChanges \in Nat /\ system \in System /\ published \in Versions
  BY Numbers DEF UpdatesInv, HostTypes
<1>3. changes' \in 0..MaxChanges /\ changes <= changes' /\ changes + 1 <= changes'
  BY <1>1, <1>2
<1>4. CASE apt = None /\ system' = [system EXCEPT !.other = ~@] /\ broken' = FALSE /\ UNCHANGED policy
  <2>1. system' \in System /\ system'.app = system.app
    BY <1>2, <1>4 DEF System
  <2>2. system.app \in Nat
    BY <1>2, Numbers DEF System, Versions
  <2>3. Later
    BY <1>3, <2>1, <2>2 DEF Later
  <2>4. HostTypes' /\ FileTypes' /\ AptInv' /\ StatusInv'
    BY <1>1, <1>3, <1>4, <2>1 DEF UpdatesInv, HostTypes, FileTypes, AptInv, StatusInv, files
  <2> QED
    BY <1>1, <1>4, <2>3, <2>4, OthersMove DEF files
<1>5. CASE /\ apt = None /\ system.app < published /\ system' = [system EXCEPT !.app = published]
           /\ broken' = FALSE /\ UNCHANGED policy
  <2>1. system' \in System /\ system'.app = published
    BY <1>2, <1>5 DEF System
  <2>2. system.app \in Nat /\ published \in Nat
    BY <1>2, Numbers DEF System, Versions
  <2>3. Later
    BY <1>3, <1>5, <2>1, <2>2 DEF Later
  <2>4. HostTypes' /\ FileTypes' /\ AptInv'
    BY <1>1, <1>3, <1>5, <2>1 DEF UpdatesInv, HostTypes, FileTypes, AptInv, files
  <2>5. StatusInv'
    <3>1. status # None => status.version \in Nat
      BY Numbers DEF UpdatesInv, FileTypes, Status, Versions
    <3> QED
      BY <1>1, <1>5, <2>1, <2>2, <3>1 DEF UpdatesInv, StatusInv, files
  <2> QED
    BY <1>1, <1>5, <2>3, <2>4, <2>5, OthersMove DEF files
<1>6. CASE policy' = ~policy /\ UNCHANGED <<system, broken>>
  <2>1. HostTypes' /\ FileTypes' /\ StatusInv'
    BY <1>1, <1>3, <1>6 DEF UpdatesInv, HostTypes, FileTypes, StatusInv, files
  <2>2. Later
    <3>1. system.app \in Nat
      BY <1>2, Numbers DEF System, Versions
    <3> QED
      BY <1>3, <1>6, <3>1 DEF Later
  <2>3. AptInv'
    <3>1. changes >= 3 => changes' >= 3
      BY <1>1, <1>2
    <3>2. apt # None => Sound(apt.before.plan)'
      BY <1>1 DEF UpdatesInv, AptInv, Sound, Based, Until, files
    <3> QED
      BY <1>1, <1>6, <3>1, <3>2 DEF UpdatesInv, AptInv, Differ, files
  <2> QED
    BY <1>1, <1>6, <2>1, <2>2, <2>3, OthersMove DEF files
<1> QED
  BY <1>4, <1>5, <1>6 DEF NativeChange

\* The repository publishes, and the clock goes on.
LEMMA TimePasses == ASSUME UpdatesInv, Publish \/ Tick PROVE UpdatesInv'
<1>1. UNCHANGED <<system, broken, policy, files, apt, lock, pc, my, changes, faults>>
  BY DEF Publish, Tick
<1>2. published' \in Versions /\ now' \in 0..MaxTime
  <2>1. published \in Nat /\ now \in Nat /\ MaxVersion \in Nat /\ MaxTime \in Nat
        /\ published \in 0..MaxVersion /\ now \in 0..MaxTime
    BY Numbers DEF UpdatesInv, HostTypes, Versions
  <2>2. CASE Publish
    BY <2>1, <2>2 DEF Publish, Versions
  <2>3. CASE Tick
    BY SMTT(30), <2>1, <2>3 DEF Tick, Versions
  <2> QED
    BY <2>2, <2>3
<1>3. HostTypes' /\ FileTypes' /\ AptInv' /\ StatusInv'
  BY <1>1, <1>2 DEF UpdatesInv, HostTypes, FileTypes, AptInv, StatusInv, Sound, Based, Until, Differ, files
<1>4. Later
  <2>1. system.app \in Nat /\ changes \in Nat
    BY Numbers DEF UpdatesInv, HostTypes, System, Versions
  <2> QED
    BY <1>1, <2>1 DEF Later, Differ
<1> QED
  BY <1>1, <1>3, <1>4, OthersMove DEF files

\* One step per action.
LEMMA UpdatesStep == UpdatesInv /\ [Next]_vars => UpdatesInv'
<1> SUFFICES ASSUME UpdatesInv, [Next]_vars PROVE UpdatesInv'
  OBVIOUS
<1>1. ASSUME NEW p \in Admins, Refresh(p) PROVE UpdatesInv'
  <2>1. CASE RefuseReceipt(p)
    BY <2>1, GiveUpHolds DEF RefuseReceipt, Procs
  <2> QED
    BY <1>1, <2>1, StartRefreshHolds, FetchHolds, WriteReceiptHolds, WritePointerHolds DEF Refresh
<1>2. ASSUME NEW p \in Admins, Apply(p) PROVE UpdatesInv'
  BY <1>2, StartApplyHolds, FirstCompareHolds, WriteBeforeHolds, WriteStartedHolds, DownloadHolds,
     SecondCompareHolds, AssertFirstHolds, StartAptHolds, CheckInstalledHolds, WriteStatusHolds DEF Apply
<1>3. ASSUME NEW p \in Procs, MakePlan(p) PROVE UpdatesInv'
  BY <1>3, PlanVerifyHolds, PlanInventoryHolds, PlanSimulateHolds DEF MakePlan
<1>4. CASE UNCHANGED vars
  <2>1. UNCHANGED <<host, files, apt, lock, pc, my, changes, faults>>
    BY <1>4 DEF vars
  <2>2. Keep /\ lock' \in Admins \cup {None}
    BY <2>1 DEF Keep, UpdatesInv, FileTypes
  <2>3. HostTypes' /\ FileTypes' /\ AptInv' /\ StatusInv'
    BY <2>2, KeepHolds
  <2>4. Later
    BY <2>1, Numbers DEF UpdatesInv, HostTypes, System, Versions, Later, Differ, host
  <2> QED
    BY <2>1, <2>3, <2>4, OthersMove DEF host, files
<1> QED
  BY <1>1, <1>2, <1>3, <1>4, KillHolds, ReaderHolds, HookHolds, UnpackHolds, ConfigureHolds, ResetHolds,
     NativeChangeHolds, TimePasses DEF Next

\* A fresh host.
LEMMA UpdatesStart == Init => UpdatesInv
<1> SUFFICES ASSUME Init PROVE UpdatesInv
  OBVIOUS
<1>1. 0 \in Versions /\ 1 \in Versions
  BY BoundAssumption DEF Versions
<1>2. HostTypes /\ FileTypes
  <2>1. 0 \in 0..MaxTime /\ 0 \in 0..MaxChanges /\ 0 \in 0..MaxFaults
    BY Numbers
  <2>2. HostTypes
    BY <1>1, <2>1 DEF Init, HostTypes, System
  <2>3. receipts \in [Generations -> Receipt \cup {None}]
    BY DEF Init
  <2> QED
    BY <2>2, <2>3 DEF Init, FileTypes
<1>3. AptInv /\ StatusInv
  BY DEF Init, AptInv, StatusInv
<1>4. pc \in [Procs -> Label] /\ my \in [Procs -> Local]
  BY BlankIsLocal DEF Init, Label
<1>5. ASSUME NEW q \in Procs PROVE Process(q, pc[q], my[q])
  <2>1. pc[q] = "idle"
    BY DEF Init
  <2> QED
    BY <2>1, IdleHolds
<1> QED
  BY <1>2, <1>3, <1>4, <1>5 DEF UpdatesInv

-----------------------------------------------------------------------------
\* TypeOK for any administrators, versions, refreshes, times and faults.
THEOREM UpdatesTypes == Spec => []TypeOK
<1>1. UpdatesInv => TypeOK
  <2> SUFFICES ASSUME UpdatesInv PROVE TypeOK
    OBVIOUS
  <2>1. ASSUME NEW p \in Procs
        PROVE  /\ my[p].id = None \/ my[p].id \in Plan
               /\ pc[p] \in {"review", "first", "before"} => my[p].plan \in Plan
    <3>1. my[p] \in Local /\ Planned(pc[p], my[p])
      BY DEF UpdatesInv, Process
    <3> QED
      BY <3>1 DEF Local, Planned
  <2> QED
    BY <2>1 DEF UpdatesInv, HostTypes, FileTypes, TypeOK
<1> QED
  BY <1>1, UpdatesStart, UpdatesStep, PTL DEF Spec

\* UnpackedUnlessUndone: the plan, the two comparisons of apply() and the
\* hook's assert_before() let APT unpack onto the reviewed inventory, or onto
\* one that took three changes by others.
THEOREM UnpacksWhatWasReviewed == Spec => []UnpackedUnlessUndone
<1>1. UpdatesInv => UnpackedUnlessUndone
  <2> SUFFICES ASSUME UpdatesInv, apt # None, apt.phase = "unpack"
               PROVE  system = apt.before.system /\ (system = apt.before.plan.system \/ changes > 2)
    BY DEF UnpackedUnlessUndone
  <2>1. /\ system = apt.before.system /\ apt.before.system.app = apt.before.plan.system.app
        /\ Differ(apt.before.system, apt.before.plan.system) /\ ~Differ(system, apt.before.system) => changes >= 3
    BY DEF UpdatesInv, AptInv
  <2>2. apt.before.system \in System /\ apt.before.plan.system \in System /\ changes \in Nat
    BY Numbers DEF UpdatesInv, FileTypes, HostTypes, Run, Before, Plan
  <2>3. CASE apt.before.system.other = apt.before.plan.system.other
    <3>1. apt.before.system = apt.before.plan.system
      BY <2>1, <2>2, <2>3 DEF System
    <3> QED
      BY <2>1, <3>1
  <2>4. CASE apt.before.system.other # apt.before.plan.system.other
    BY <2>1, <2>2, <2>4 DEF Differ
  <2> QED
    BY <2>3, <2>4
<1> QED
  BY <1>1, UpdatesStart, UpdatesStep, PTL DEF Spec

\* NeverUnpackedStale: the hook lets APT unpack only what a receipt vouches
\* for that has not expired and was made under the present policy.
THEOREM UnpacksFreshPlans == Spec => NeverUnpackedStale
<1> DEFINE Fresher ==
             apt # None /\ apt.phase = "hook" /\ apt' # None /\ apt'.phase = "unpack" =>
                LET receipt == receipts[apt.before.plan.generation] IN
                  /\ receipt.version = apt.before.plan.version
                  /\ now < Until(receipt) /\ policy = receipt.policy
<1>1. UpdatesInv /\ [Next]_vars => [Fresher]_vars
  <2> SUFFICES ASSUME UpdatesInv, Next, apt # None, apt.phase = "hook", apt' # None, apt'.phase = "unpack"
               PROVE  Fresher
    OBVIOUS
  <2>1. Hook
    <3>1. \A p \in Procs : \A label, locals : Step(p, label, locals) => UNCHANGED apt
      BY DEF Step, Keep
    <3>2. \A p \in Procs : GiveUp(p) => UNCHANGED apt
      BY DEF GiveUp, Keep
    <3>3. \A p \in Procs : PlanFails(p) => UNCHANGED apt
      BY <3>1, <3>2 DEF PlanFails
    <3>4. \A p \in Admins : Failed(p) => UNCHANGED apt
      BY <3>1 DEF Failed, Procs
    <3>5. ASSUME NEW p \in Admins, Refresh(p) PROVE UNCHANGED apt
      BY <3>1, <3>2, <3>5 DEF Refresh, StartRefresh, Keep, Fetch, WriteReceipt, RefuseReceipt, WritePointer, Procs
    <3>6. ASSUME NEW p \in Procs, MakePlan(p) PROVE UNCHANGED apt
      BY <3>1, <3>3, <3>6 DEF MakePlan, PlanVerify, PlanInventory, PlanSimulate
    <3>7. ASSUME NEW p \in Admins, Apply(p) PROVE UNCHANGED apt
      <4>1. StartApt(p) => UNCHANGED apt
        BY <3>4 DEF StartApt
      <4> QED
        BY <3>1, <3>2, <3>4, <3>7, <4>1
           DEF Apply, StartApply, Keep, FirstCompare, WriteBefore, WriteStarted, Download, SecondCompare, AssertFirst,
               CheckInstalled, WriteStatus, Procs
    <3>8. StartPlan \/ ShowPlan \/ NativeChange \/ Publish \/ Tick => UNCHANGED apt
      BY DEF StartPlan, Step, Keep, ShowPlan, NativeChange, Publish, Tick
    <3>9. \A p \in Procs : Kill(p) => UNCHANGED apt
      BY DEF Kill
    <3>10. ~Unpack /\ ~ConfigurePackages /\ ~Reset
      BY DEF Unpack, ConfigurePackages, AptEnds, Reset, UpdatesInv, FileTypes, Run
    <3> QED
      BY <3>5, <3>6, <3>7, <3>8, <3>9, <3>10 DEF Next
  <2>2. AssertBefore(apt.before)
    BY <2>1 DEF Hook, AptEnds
  <2>3. Sound(apt.before.plan) /\ apt.before.plan.version # 0
    BY DEF UpdatesInv, AptInv
  <2> QED
    BY <2>2, <2>3 DEF AssertBefore, Sound, Based
<1> QED
  BY <1>1, UpdatesStart, UpdatesStep, PTL DEF Spec, NeverUnpackedStale

\* StatusTellsTruth: status.json is written before anything changes and after
\* the host was checked, so that no kill or reset leaves it a lie.
THEOREM StatusIsTrue == Spec => []StatusTellsTruth
<1>1. UpdatesInv => StatusTellsTruth
  <2> SUFFICES ASSUME UpdatesInv PROVE StatusTellsTruth
    OBVIOUS
  <2>1. status # None => status.version \in Nat /\ status.state \in {"started", "complete", "failed"}
    BY Numbers DEF UpdatesInv, FileTypes, Status, Versions
  <2>2. system.app \in Nat
    BY Numbers DEF UpdatesInv, HostTypes, System, Versions
  <2>3. status # None /\ status.state = "complete" => system.app >= status.version /\ ~broken
    BY <2>1, <2>2 DEF UpdatesInv, StatusInv
  <2>4. broken => status # None /\ status.state # "complete"
    BY DEF UpdatesInv, StatusInv
  <2> QED
    BY <2>1, <2>3, <2>4 DEF StatusTellsTruth
<1> QED
  BY <1>1, UpdatesStart, UpdatesStep, PTL DEF Spec
=============================================================================
