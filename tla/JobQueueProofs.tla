--------------------------- MODULE JobQueueProofs ---------------------------
(***************************************************************************)
(* TLAPS proofs about the job queue, for any sets of jobs and workers.     *)
(***************************************************************************)
EXTENDS JobQueueProperties, FiniteSetTheorems, TLAPS

USE DEF Terminal, Attention, JobState, EventKind, Exited, Executing, Holding

-----------------------------------------------------------------------------
(* Type correctness.                                                       *)

\* The locals of a worker that has no job, and of one that has just claimed one.
LEMMA FreshType == Fresh \in Locals /\ \A j \in Jobs : [Fresh EXCEPT !.job = j] \in Locals
BY DEF Locals, Fresh

\* A killed process group is one of the process states.
LEMMA KillGroupType ==
    ASSUME TypeOK, NEW j, KillGroup(j)
    PROVE  proc' \in [Jobs -> {"none", "live"} \cup Exited]
BY DEF TypeOK, KillGroup

\* Every update of a worker's locals that the code makes is well typed.
LEMMA LocalsUpdate ==
    ASSUME NEW r \in Locals
    PROVE  /\ \A t \in SUBSET Jobs : [r EXCEPT !.todo = t] \in Locals
           /\ \A b \in BOOLEAN : [r EXCEPT !.requested = b] \in Locals
           /\ [r EXCEPT !.expired = TRUE] \in Locals
           /\ [r EXCEPT !.exitedAt = TRUE] \in Locals
           /\ \A o \in Terminal : [r EXCEPT !.outcome = o] \in Locals
           /\ \A o \in Terminal : [r EXCEPT !.exitedAt = TRUE, !.outcome = o] \in Locals
           /\ \A o \in Terminal, b \in BOOLEAN :
                [r EXCEPT !.outcome = o, !.termAt = b, !.expired = FALSE, !.requested = FALSE]
                    \in Locals
BY DEF Locals

\* One more event keeps the log well typed.
LEMMA EventsType ==
    ASSUME TypeOK, NEW j \in Jobs, NEW s \in EventKind
    PROVE  Append(events, Event(j, s)) \in Seq([job : Jobs, state : EventKind])
<1>1. Event(j, s) \in [job : Jobs, state : EventKind]
  BY DEF Event
<1> QED
  BY <1>1 DEF TypeOK

\* So does a step that moves a row and logs its new state.
LEMMA RecordType ==
    ASSUME TypeOK, NEW j \in Jobs, NEW s \in JobState \ {"absent"}, Record(j, s)
    PROVE  /\ state' \in [Jobs -> JobState]
           /\ events' \in Seq([job : Jobs, state : EventKind])
<1>1. state' \in [Jobs -> JobState]
  BY DEF TypeOK, Record
<1>2. events' \in Seq([job : Jobs, state : EventKind])
  BY EventsType DEF Record
<1> QED
  BY <1>1, <1>2

\* finish() keeps the job states and the event log well typed.
LEMMA FinishJobType ==
    ASSUME TypeOK, NEW j \in Jobs, NEW s \in Terminal, FinishJob(j, s)
    PROVE  /\ state' \in [Jobs -> JobState]
           /\ events' \in Seq([job : Jobs, state : EventKind])
<1>1. CASE state[j] \in Terminal
  BY <1>1 DEF TypeOK, FinishJob
<1>2. CASE state[j] \notin Terminal /\ cancelRequested[j]
  BY <1>2, RecordType, Record(j, "cancelled") DEF FinishJob
<1>3. CASE state[j] \notin Terminal /\ ~cancelRequested[j]
  BY <1>3, RecordType, Record(j, s) DEF FinishJob
<1> QED
  BY <1>1, <1>2, <1>3

\* A function on an initial segment of the naturals is a sequence.
LEMMA SegmentIsSeq == ASSUME NEW S, NEW n \in Nat, NEW f \in [1..n -> S] PROVE f \in Seq(S)
OBVIOUS

\* Appending the events of an acknowledgment yields a sequence of events.
LEMMA ReviewedEventsType ==
    ASSUME TypeOK, NEW J \in SUBSET Jobs, NEW order \in SetToSeqs(J)
    PROVE  events \o Acknowledgments(order)
              \in Seq([job : Jobs, state : EventKind])
<1>1. IsFiniteSet(J)
  BY JobsAssumption, FS_Subset
<1>2. Cardinality(J) \in Nat
  BY <1>1, FS_CardinalityType
<1>3. order \in [1..Cardinality(J) -> J]
  BY DEF SetToSeqs
<1>4. \A n \in 1..Cardinality(J) :
         Event(order[n], "acknowledged") \in [job : Jobs, state : EventKind]
  BY <1>3 DEF Event
<1>5. Acknowledgments(order) \in [1..Cardinality(J) -> [job : Jobs, state : EventKind]]
  BY <1>3, <1>4 DEF Acknowledgments
<1>6. Acknowledgments(order) \in Seq([job : Jobs, state : EventKind])
  BY <1>2, <1>5, SegmentIsSeq
<1> QED
  BY <1>6 DEF TypeOK

\* A worker that executes a job has one.
HasJob == \A w \in Workers : pc[w] \in Executing => run[w].job \in Jobs

\* Every step keeps the types, given that an executing worker has a job.
LEMMA TypeStep == TypeOK /\ HasJob /\ [Next]_vars => TypeOK'
<1> SUFFICES ASSUME TypeOK, HasJob, [Next]_vars PROVE TypeOK'
  OBVIOUS
<1> USE DEF TypeOK, db, rows, host, Goto, Me
<1>1. ASSUME NEW j \in Jobs, NEW d \in Nat, NEW o \in Jobs \cup {None}, SubmitJob(j, d, o),
             retrying' \subseteq retrying
      PROVE  TypeOK'
  BY <1>1, RecordType DEF SubmitJob
<1>2. ASSUME NEW j \in Jobs, CancelQueued(j) PROVE TypeOK'
  BY <1>2, RecordType DEF CancelQueued
<1>3. ASSUME NEW j \in Jobs, CancelRunning(j) PROVE TypeOK'
  BY <1>3, EventsType DEF CancelRunning
<1>4. ASSUME NEW j \in Jobs, RetryRead(j) PROVE TypeOK'
  BY <1>4 DEF RetryRead
<1>5. ASSUME NEW J \in SUBSET Unreviewed, Acknowledge(J) PROVE TypeOK'
  <2>1. J \in SUBSET Jobs /\ \A j \in J : state[j] \in Attention
    BY DEF Unreviewed
  <2>2. acked' \in [Jobs -> Attention \cup {None}]
    BY <1>5, <2>1 DEF Acknowledge
  <2>3. PICK order \in SetToSeqs(J) :
           events' = events \o Acknowledgments(order)
    BY <1>5 DEF Acknowledge
  <2>4. events' \in Seq([job : Jobs, state : EventKind])
    BY <2>1, <2>3, ReviewedEventsType
  <2> QED
    BY <1>5, <2>2, <2>4 DEF Acknowledge
<1>6. ASSUME Tick PROVE TypeOK'
  BY <1>6 DEF Tick
<1>7. ASSUME Reboot PROVE TypeOK'
  BY <1>7, FreshType DEF Reboot, Fault
<1>8. ASSUME NEW j \in Jobs, ProcessExits(j) PROVE TypeOK'
  BY <1>8 DEF ProcessExits
<1>9. ASSUME NEW w \in Workers, Start(w) PROVE TypeOK'
  BY <1>9 DEF Start
<1>10. ASSUME NEW w \in Workers, TimerExpires(w) PROVE TypeOK'
  BY ZenonT(40), <1>10, LocalsUpdate DEF TimerExpires
<1>11. ASSUME NEW w \in Workers, RunnerError(w) PROVE TypeOK'
  BY Zenon, <1>11, LocalsUpdate DEF RunnerError
<1>12. ASSUME NEW w \in Workers, StopSignal(w) PROVE TypeOK'
  BY <1>12 DEF StopSignal, Fault
<1>13. ASSUME NEW w \in Workers, DatabaseError(w) PROVE TypeOK'
  <2>1. faults' \in Nat
    BY <1>13 DEF DatabaseError, Fault
  <2>2. pc' \in [Workers -> {"off", "open"} \cup Holding]
    <3>1. PICK label \in {"unlock", "closing"} : Goto(w, label)
      BY <1>13 DEF DatabaseError
    <3> QED
      BY <3>1
  <2>3. UNCHANGED <<db, lock, run, stopping, proc, logs, now, retrying>>
    BY <1>13 DEF DatabaseError
  <2> QED
    BY <2>1, <2>2, <2>3
<1>14. ASSUME NEW w \in Workers, Crash(w) PROVE TypeOK'
  <2>1. proc' \in [Jobs -> {"none", "live"} \cup Exited]
    BY <1>14, KillGroupType DEF Crash
  <2>2. /\ run' \in [Workers -> Locals]
        /\ lock' \in Workers \cup {None}
        /\ pc' \in [Workers -> {"off", "open"} \cup Holding]
        /\ stopping' \in [Workers -> BOOLEAN]
    BY <1>14, FreshType DEF Crash, Forget
  <2>3. faults' \in Nat
    BY <1>14 DEF Crash, Fault
  <2> QED
    BY <1>14, <2>1, <2>2, <2>3 DEF Crash
<1>15. ASSUME NEW w \in Workers, TakeLock(w) PROVE TypeOK'
  BY <1>15 DEF TakeLock
<1>16. ASSUME NEW w \in Workers, LockRefused(w) \/ Unlock(w) PROVE TypeOK'
  <2>1. Forget(w) /\ UNCHANGED <<db, host>>
    BY <1>16 DEF LockRefused, Unlock
  <2> QED
    BY <2>1, FreshType DEF Forget
<1>17. ASSUME NEW w \in Workers, RecoverScan(w) PROVE TypeOK'
  <2>1. Leftover \in SUBSET Jobs
    BY DEF Leftover, Running
  <2>2. [run[w] EXCEPT !.todo = Leftover] \in Locals
    BY Zenon, <2>1, LocalsUpdate
  <2> QED
    BY <1>17, <2>2 DEF RecoverScan
<1>18. ASSUME NEW w \in Workers, RecoverOne(w) PROVE TypeOK'
  <2>1. PICK j \in run[w].todo :
           FinishJob(j, "interrupted") /\ Me(w, [run[w] EXCEPT !.todo = @ \ {j}])
    BY <1>18 DEF RecoverOne
  <2>2. run[w].todo \in SUBSET Jobs
    BY DEF Locals
  <2>3. run' \in [Workers -> Locals]
    BY Zenon, <2>1, <2>2, LocalsUpdate
  <2> QED
    BY <1>18, <2>1, <2>2, <2>3, FinishJobType DEF RecoverOne
<1>19. ASSUME NEW w \in Workers, LoopHead(w) \/ Closing(w) PROVE TypeOK'
  <2>1. CASE LoopHead(w)
    BY <2>1 DEF LoopHead, Beat
  <2>2. CASE Closing(w)
    BY <2>2 DEF Closing, Beat
  <2> QED
    BY <1>19, <2>1, <2>2
<1>20. ASSUME NEW w \in Workers, RecoverDone(w) \/ LoopExit(w) \/ NothingDue(w) PROVE TypeOK'
  BY ZenonT(40), <1>20 DEF RecoverDone, LoopExit, NothingDue
<1>21. ASSUME NEW w \in Workers, Claim(w) PROVE TypeOK'
  <2>1. PICK j \in Jobs : Record(j, "running") /\ Me(w, [Fresh EXCEPT !.job = j])
    BY <1>21 DEF Claim, Due
  <2>2. run' \in [Workers -> Locals]
    BY <2>1, FreshType
  <2> QED
    BY <1>21, <2>1, <2>2, RecordType DEF Claim
<1>22. ASSUME NEW w \in Workers, Execute(w) PROVE TypeOK'
  <2> JobOf(w) \in Jobs
    <3>1. pc[w] \in Executing
      BY <1>22 DEF Execute, OpenLog, Spawn, ReadRequest, DecideOutcome, DecideKill, PollLive,
                   PollDrain, PollBreak, Reap, Finish
    <3> QED
      BY <3>1 DEF HasJob, JobOf
  <2>1. CASE OpenLog(w)
    BY <1>22, <2>1 DEF OpenLog
  <2>2. CASE Spawn(w)
    BY <1>22, <2>2 DEF Spawn
  <2>3. CASE ReadRequest(w)
    BY ZenonT(40), <1>22, <2>3, LocalsUpdate DEF ReadRequest, Beat
  <2>4. CASE DecideOutcome(w)
    BY ZenonT(40), <2>4, LocalsUpdate DEF DecideOutcome, Verdict
  <2>5. CASE DecideKill(w)
    <3>1. proc' \in [Jobs -> {"none", "live"} \cup Exited]
      BY <2>5, KillGroupType DEF DecideKill
    <3> QED
      BY Zenon, <2>5, <3>1, LocalsUpdate DEF DecideKill
  <2>6. CASE PollLive(w)
    BY <2>6 DEF PollLive
  <2>7. CASE PollDrain(w)
    BY ZenonT(40), <2>7, LocalsUpdate DEF PollDrain
  <2>8. CASE PollBreak(w)
    <3>1. run[w].outcome \in Terminal
      BY DEF Locals
    <3> QED
      BY ZenonT(40), <2>8, <3>1, LocalsUpdate DEF PollBreak, ExitOutcome
  <2>9. CASE Reap(w)
    BY <2>9, KillGroupType DEF Reap
  <2>10. CASE Finish(w)
    <3>1. run[w].outcome \in Terminal
      BY DEF Locals
    <3>2. PICK j \in Jobs, o \in Terminal : FinishJob(j, o)
      BY <1>22, <2>10, <3>1 DEF Finish
    <3>3. /\ state' \in [Jobs -> JobState]
          /\ events' \in Seq([job : Jobs, state : EventKind])
      <4> HIDE DEF TypeOK, Terminal, JobState, EventKind
      <4> QED
        BY <3>2, FinishJobType, Zenon
    <3>4. UNCHANGED <<rows, beat, lock, stopping, host>> /\ Me(w, Fresh) /\ Goto(w, "idle")
      BY <2>10 DEF Finish
    <3> QED
      BY <3>3, <3>4, FreshType
  <2> QED
    BY <1>22, <2>1, <2>2, <2>3, <2>4, <2>5, <2>6, <2>7, <2>8, <2>9, <2>10 DEF Execute
<1>23. CASE UNCHANGED vars
  BY <1>23 DEF vars
<1> HIDE DEF TypeOK
<1>24. ASSUME Operator PROVE TypeOK'
  <2>1. ASSUME NEW j \in Jobs, NEW d \in 0..MaxTime, Submit(j, d) PROVE TypeOK'
    <3>1. d \in Nat
      BY BoundsAssumption
    <3> QED
      BY <1>1, <2>1, <3>1 DEF Submit
  <2>2. ASSUME NEW j \in Jobs, NEW k \in Jobs, RetrySubmit(j, k) PROVE TypeOK'
    BY <1>1, <2>2 DEF RetrySubmit
  <2>3. ASSUME NEW j \in Unreviewed, Acknowledge({j}) PROVE TypeOK'
    BY <1>5, <2>3
  <2> QED
    BY <1>24, <1>2, <1>3, <1>4, <1>5, <2>1, <2>2, <2>3 DEF Operator
<1>25. ASSUME NEW w \in Workers, Start(w) \/ Work(w) \/ TimerExpires(w) \/ Trouble(w)
       PROVE  TypeOK'
  BY <1>25, <1>9, <1>10, <1>11, <1>12, <1>13, <1>14, <1>15, <1>16, <1>17, <1>18, <1>19, <1>20,
     <1>21, <1>22 DEF Work, Trouble
<1> QED
  BY <1>6, <1>7, <1>8, <1>23, <1>24, <1>25 DEF Next
-----------------------------------------------------------------------------
(* Mutual exclusion and the ownership of running rows.                     *)

\* A worker is between flock() and its release exactly when it holds worker.lock.
MutexInv == \A w \in Workers : pc[w] \in Holding <=> lock = w

\* What the lock holder knows of the running rows at each point of its code.
Owns(w) ==
    /\ pc[w] \in Executing =>
          run[w].job \in Jobs /\ \A j \in Jobs : state[j] = "running" <=> j = run[w].job
    /\ pc[w] \in {"idle", "claim"} => \A j \in Jobs : state[j] # "running"
    /\ pc[w] = "recover" => \A j \in Jobs : state[j] = "running" <=> j \in run[w].todo

\* Every worker does, at every point.
OwnInv == \A w \in Workers : Owns(w)

\* The invariant of the lock: who holds it knows the running rows.
QueueInv == TypeOK /\ MutexInv /\ OwnInv /\ SingleRunning

\* No row starts or stops running.
SameRunning == \A j \in Jobs : state'[j] = "running" <=> state[j] = "running"

\* Steps that touch neither the workers nor the set of running rows.
LEMMA BystanderStep ==
    ASSUME QueueInv, UNCHANGED <<pc, lock, run>>, SameRunning
    PROVE  MutexInv' /\ OwnInv' /\ SingleRunning'
<1>1. MutexInv'
  BY DEF QueueInv, MutexInv
<1>2. OwnInv'
  BY DEF QueueInv, OwnInv, Owns, SameRunning
<1>3. SingleRunning'
  BY DEF QueueInv, SingleRunning, SameRunning, Running
<1> QED
  BY <1>1, <1>2, <1>3

\* Steps of the lock holder that leave the running rows alone: only what it
\* must know itself at its next point has to be shown.
LEMMA HolderStep ==
    ASSUME QueueInv, NEW w \in Workers, NEW label \in Holding,
           pc[w] \in Holding, Goto(w, label), UNCHANGED <<state, lock>>,
           \A v \in Workers \ {w} : run'[v] = run[v],
           Owns(w)'
    PROVE  MutexInv' /\ OwnInv' /\ SingleRunning'
<1>1. /\ \A v \in Workers \ {w} : pc'[v] = pc[v] /\ pc[v] \notin Holding
      /\ pc'[w] = label /\ lock = w
  BY DEF QueueInv, MutexInv, Goto, TypeOK
<1>2. MutexInv'
  BY <1>1 DEF QueueInv, MutexInv
<1>3. OwnInv'
  BY <1>1 DEF OwnInv, Owns
<1>4. SingleRunning'
  BY DEF QueueInv, SingleRunning, Running
<1> QED
  BY <1>2, <1>3, <1>4

\* Steps that end a worker.
LEMMA ForgetStep ==
    ASSUME QueueInv, NEW w \in Workers, Forget(w), UNCHANGED state
    PROVE  MutexInv' /\ OwnInv' /\ SingleRunning'
<1>1. pc' = [pc EXCEPT ![w] = "off"] /\ run' = [run EXCEPT ![w] = Fresh]
  BY DEF Forget, Goto, Me
<1>2. MutexInv'
  BY <1>1, NoneAssumption DEF QueueInv, MutexInv, TypeOK, Forget
<1>3. OwnInv'
  BY <1>1 DEF QueueInv, OwnInv, Owns, TypeOK
<1>4. SingleRunning'
  BY DEF QueueInv, SingleRunning, Running
<1> QED
  BY <1>2, <1>3, <1>4

\* Steps of the lock holder that end the one running row it works on.
LEMMA FinishStep ==
    ASSUME QueueInv, NEW w \in Workers, NEW j \in Jobs, NEW s \in Terminal, FinishJob(j, s),
           state[j] = "running"
    PROVE  \A k \in Jobs : state'[k] = "running" <=> k # j /\ state[k] = "running"
<1>1. PICK final \in Terminal : state' = [state EXCEPT ![j] = final]
  <2>1. CASE cancelRequested[j]
    BY <2>1 DEF FinishJob, Record
  <2>2. CASE ~cancelRequested[j]
    BY <2>2 DEF FinishJob, Record
  <2> QED
    BY <2>1, <2>2
<1> QED
  BY <1>1 DEF QueueInv, TypeOK

\* Operator commands leave the workers and the running rows alone.
LEMMA OperatorStep ==
    ASSUME QueueInv, Operator
    PROVE  MutexInv' /\ OwnInv' /\ SingleRunning'
<1>1. UNCHANGED <<pc, lock, run>>
  BY DEF Operator, Submit, RetrySubmit, SubmitJob, CancelQueued, CancelRunning, RetryRead, Acknowledge
<1>2. ASSUME NEW j \in Jobs, NEW d, NEW o, SubmitJob(j, d, o) PROVE SameRunning
  BY <1>2 DEF SubmitJob, Record, SameRunning, QueueInv, TypeOK
<1>3. ASSUME NEW j \in Jobs, CancelQueued(j) PROVE SameRunning
  BY <1>3 DEF CancelQueued, Pending, Record, SameRunning, QueueInv, TypeOK
<1>4. ASSUME NEW j \in Jobs, CancelRunning(j) \/ RetryRead(j) PROVE SameRunning
  BY <1>4 DEF CancelRunning, RetryRead, SameRunning, db
<1>5. ASSUME NEW J, Acknowledge(J) PROVE SameRunning
  BY <1>5 DEF Acknowledge, SameRunning
<1>6. SameRunning
  BY <1>2, <1>3, <1>4, <1>5 DEF Operator, Submit, RetrySubmit
<1> QED
  BY <1>1, <1>6, BystanderStep

\* Every step of a worker's own code keeps the lock and the ownership.
LEMMA WorkStep ==
    ASSUME QueueInv, NEW w \in Workers, Work(w)
    PROVE  MutexInv' /\ OwnInv' /\ SingleRunning'
<1> USE DEF db, rows, host
<1>1. CASE TakeLock(w)
  <2>1. \A v \in Workers : pc[v] \notin Holding
    BY <1>1, NoneAssumption DEF TakeLock, LockFree, QueueInv, MutexInv
  <2>2. pc' = [pc EXCEPT ![w] = "locked"] /\ lock' = w /\ UNCHANGED <<state, run>>
    BY <1>1 DEF TakeLock, Goto
  <2>3. MutexInv'
    BY <2>1, <2>2 DEF QueueInv, MutexInv, TypeOK
  <2>4. OwnInv'
    BY <2>1, <2>2 DEF QueueInv, OwnInv, Owns, TypeOK
  <2>5. SingleRunning'
    BY <2>2 DEF QueueInv, SingleRunning, Running
  <2> QED
    BY <2>3, <2>4, <2>5
<1>2. CASE LockRefused(w) \/ Unlock(w)
  BY <1>2, ForgetStep DEF LockRefused, Unlock
<1>3. CASE RecoverScan(w)
  <2>1. Owns(w)'
    BY <1>3 DEF RecoverScan, Goto, Me, Owns, QueueInv, TypeOK, Leftover, Running, Locals
  <2> QED
    BY <1>3, <2>1, HolderStep DEF RecoverScan, Me, QueueInv, TypeOK
<1>4. CASE RecoverOne(w)
  <2>1. PICK j \in run[w].todo : /\ FinishJob(j, "interrupted")
                                 /\ Me(w, [run[w] EXCEPT !.todo = @ \ {j}])
    BY <1>4 DEF RecoverOne
  <2>2. j \in Jobs /\ state[j] = "running" /\ pc[w] = "recover"
    BY <1>4, <2>1 DEF RecoverOne, QueueInv, TypeOK, OwnInv, Owns, Locals
  <2>3. \A k \in Jobs : state'[k] = "running" <=> k # j /\ state[k] = "running"
    BY <2>1, <2>2, FinishStep
  <2>4. UNCHANGED <<pc, lock>>
    BY <1>4 DEF RecoverOne
  <2>5. \A v \in Workers \ {w} : pc[v] \notin Holding
    BY <2>2 DEF QueueInv, MutexInv
  <2>6. run'[w].todo = run[w].todo \ {j}
    BY <2>1 DEF Me, QueueInv, TypeOK, Locals
  <2>7. OwnInv'
    BY <2>2, <2>3, <2>4, <2>5, <2>6 DEF QueueInv, OwnInv, Owns
  <2>8. MutexInv'
    BY <2>4 DEF QueueInv, MutexInv
  <2>9. SingleRunning'
    BY <2>3 DEF QueueInv, SingleRunning, Running
  <2> QED
    BY <2>7, <2>8, <2>9
<1>5. CASE RecoverDone(w)
  <2>1. Owns(w)'
    BY ZenonT(40), <1>5 DEF RecoverDone, Goto, Owns, QueueInv, OwnInv, TypeOK
  <2> QED
    BY <1>5, <2>1, HolderStep DEF RecoverDone
<1>6. CASE LoopHead(w)
  <2>1. Owns(w)'
    BY <1>6 DEF LoopHead, Goto, Owns, QueueInv, OwnInv, TypeOK
  <2> QED
    BY <1>6, <2>1, HolderStep DEF LoopHead
<1>7. CASE LoopExit(w)
  <2>1. Owns(w)'
    BY <1>7 DEF LoopExit, Goto, Owns, QueueInv, TypeOK
  <2> QED
    BY <1>7, <2>1, HolderStep DEF LoopExit
<1>8. CASE NothingDue(w)
  <2>1. Owns(w)'
    BY <1>8 DEF NothingDue, Goto, Owns, QueueInv, OwnInv, TypeOK
  <2> QED
    BY <1>8, <2>1, HolderStep DEF NothingDue
<1>9. CASE Closing(w)
  <2>1. Owns(w)'
    BY <1>9 DEF Closing, Goto, Owns, QueueInv, TypeOK
  <2> QED
    BY <1>9, <2>1, HolderStep DEF Closing
<1>10. CASE Claim(w)
  <2>1. PICK j \in Jobs : /\ Pending(j) /\ Record(j, "running")
                          /\ Me(w, [Fresh EXCEPT !.job = j])
    BY <1>10 DEF Claim, Due
  <2>2. \A k \in Jobs : state'[k] = "running" <=> k = j
    BY <1>10, <2>1 DEF Claim, Record, QueueInv, OwnInv, Owns, TypeOK
  <2>3. pc' = [pc EXCEPT ![w] = "execute"] /\ UNCHANGED lock /\ pc[w] = "claim"
    BY <1>10 DEF Claim, Goto
  <2>4. \A v \in Workers \ {w} : pc[v] \notin Holding
    BY <2>3 DEF QueueInv, MutexInv
  <2>5. run'[w].job = j
    BY <2>1 DEF Me, Fresh, QueueInv, TypeOK
  <2>6. OwnInv'
    BY <2>2, <2>3, <2>4, <2>5 DEF QueueInv, OwnInv, Owns, TypeOK
  <2>7. MutexInv'
    BY <2>3 DEF QueueInv, MutexInv, TypeOK
  <2>8. SingleRunning'
    BY <2>2 DEF SingleRunning, Running
  <2> QED
    BY <2>6, <2>7, <2>8
<1>11. CASE Execute(w)
  <2>1. CASE Finish(w)
    <3>1. pc[w] = "finish" /\ pc' = [pc EXCEPT ![w] = "idle"] /\ UNCHANGED lock
      BY <2>1 DEF Finish, Goto
    <3>2. /\ JobOf(w) \in Jobs
          /\ \A k \in Jobs : state[k] = "running" <=> k = JobOf(w)
      BY <3>1 DEF QueueInv, OwnInv, Owns, JobOf
    <3>3. run[w].outcome \in Terminal
      BY DEF QueueInv, TypeOK, Locals
    <3>4. PICK j \in Jobs, s \in Terminal : FinishJob(j, s) /\ j = JobOf(w)
      BY <2>1, <3>2, <3>3 DEF Finish
    <3>5. \A k \in Jobs : state'[k] = "running" <=> k # j /\ state[k] = "running"
      <4> HIDE DEF Terminal
      <4> QED
        BY <3>2, <3>4, FinishStep
    <3>6. \A k \in Jobs : state'[k] # "running"
      BY <3>2, <3>4, <3>5
    <3>7. \A v \in Workers \ {w} : pc[v] \notin Holding
      BY <3>1 DEF QueueInv, MutexInv
    <3>8. OwnInv'
      BY <3>1, <3>6, <3>7 DEF QueueInv, OwnInv, Owns, TypeOK
    <3>9. MutexInv'
      BY <3>1 DEF QueueInv, MutexInv, TypeOK
    <3>10. SingleRunning'
      BY <3>6 DEF SingleRunning, Running
    <3> QED
      BY <3>8, <3>9, <3>10
  <2>2. ASSUME NEW from \in Executing, NEW label \in Executing, pc[w] = from, Goto(w, label),
               UNCHANGED <<state, lock>>, run'[w].job = run[w].job,
               \A v \in Workers \ {w} : run'[v] = run[v]
        PROVE  MutexInv' /\ OwnInv' /\ SingleRunning'
    <3>1. Owns(w)'
      BY <2>2 DEF Goto, Owns, QueueInv, OwnInv, TypeOK
    <3> QED
      BY <2>2, <3>1, HolderStep
  <2>3. CASE OpenLog(w)
    BY <2>2, <2>3 DEF OpenLog
  <2>4. CASE Spawn(w)
    BY <2>2, <2>4 DEF Spawn
  <2>5. CASE ReadRequest(w)
    BY <2>2, <2>5 DEF ReadRequest, Me, QueueInv, TypeOK, Locals
  <2>6. CASE DecideOutcome(w)
    BY <2>2, <2>6 DEF DecideOutcome, Me, QueueInv, TypeOK, Locals
  <2>7. CASE DecideKill(w)
    BY <2>2, <2>7 DEF DecideKill, Me, QueueInv, TypeOK, Locals
  <2>8. CASE PollLive(w)
    BY <2>2, <2>8 DEF PollLive
  <2>9. CASE PollDrain(w)
    BY <2>2, <2>9 DEF PollDrain, Me, QueueInv, TypeOK, Locals
  <2>10. CASE PollBreak(w)
    BY <2>2, <2>10 DEF PollBreak, Me, QueueInv, TypeOK, Locals
  <2>11. CASE Reap(w)
    BY <2>2, <2>11 DEF Reap
  <2> QED
    BY <1>11, <2>1, <2>3, <2>4, <2>5, <2>6, <2>7, <2>8, <2>9, <2>10, <2>11 DEF Execute
<1> QED
  BY <1>1, <1>2, <1>3, <1>4, <1>5, <1>6, <1>7, <1>8, <1>9, <1>10, <1>11 DEF Work

\* Starts, timers, signals, errors and crashes of a worker.
LEMMA TroubleStep ==
    ASSUME QueueInv, NEW w \in Workers, Start(w) \/ TimerExpires(w) \/ Trouble(w)
    PROVE  MutexInv' /\ OwnInv' /\ SingleRunning'
<1> USE DEF db, rows, host
<1>1. CASE Start(w)
  <2>1. pc[w] = "off" /\ pc' = [pc EXCEPT ![w] = "open"] /\ UNCHANGED <<state, lock, run>>
    BY <1>1 DEF Start, Goto
  <2>2. MutexInv'
    BY <2>1 DEF QueueInv, MutexInv, TypeOK
  <2>3. OwnInv'
    BY <2>1 DEF QueueInv, OwnInv, Owns, TypeOK
  <2>4. SingleRunning'
    BY <2>1 DEF QueueInv, SingleRunning, Running
  <2> QED
    BY <2>2, <2>3, <2>4
<1>2. CASE TimerExpires(w)
  <2>1. /\ run' = [run EXCEPT ![w] = [run[w] EXCEPT !.expired = TRUE]]
        /\ UNCHANGED <<state, pc, lock>>
    BY <1>2 DEF TimerExpires, Me
  <2>2. \A v \in Workers : run'[v].job = run[v].job /\ run'[v].todo = run[v].todo
    BY <2>1 DEF QueueInv, TypeOK, Locals
  <2>3. OwnInv'
    BY <2>1, <2>2 DEF QueueInv, OwnInv, Owns
  <2>4. MutexInv' /\ SingleRunning'
    BY <2>1 DEF QueueInv, MutexInv, SingleRunning, Running
  <2> QED
    BY <2>3, <2>4
<1>3. CASE RunnerError(w)
  <2>1. Owns(w)'
    BY <1>3 DEF RunnerError, Goto, Me, Owns, QueueInv, OwnInv, TypeOK, Locals
  <2> QED
    BY <1>3, <2>1, HolderStep DEF RunnerError, Me, QueueInv, TypeOK
<1>4. CASE StopSignal(w)
  BY <1>4, BystanderStep DEF StopSignal, SameRunning
<1>5. CASE DatabaseError(w)
  <2>1. PICK label \in {"unlock", "closing"} : Goto(w, label) /\ pc[w] \in Holding
    BY <1>5 DEF DatabaseError
  <2>2. UNCHANGED <<state, lock, run>>
    BY <1>5 DEF DatabaseError
  <2>3. Owns(w)'
    BY <2>1, <2>2 DEF Goto, Owns, QueueInv, TypeOK
  <2> QED
    BY <2>1, <2>2, <2>3, HolderStep
<1>6. CASE Crash(w)
  BY <1>6, ForgetStep DEF Crash
<1> QED
  BY <1>1, <1>2, <1>3, <1>4, <1>5, <1>6 DEF Trouble

\* A reboot ends every worker at once and leaves the tables alone.
LEMMA RebootStep == QueueInv /\ Reboot => MutexInv' /\ OwnInv' /\ SingleRunning'
<1> SUFFICES ASSUME QueueInv, Reboot PROVE MutexInv' /\ OwnInv' /\ SingleRunning'
  OBVIOUS
<1>1. /\ pc' = [w \in Workers |-> "off"] /\ lock' = None
      /\ UNCHANGED state
  BY DEF Reboot, db
<1>2. MutexInv'
  BY <1>1, NoneAssumption DEF MutexInv
<1>3. OwnInv'
  BY <1>1 DEF OwnInv, Owns
<1>4. SingleRunning'
  BY <1>1 DEF QueueInv, SingleRunning, Running
<1> QED
  BY <1>2, <1>3, <1>4

\* The strengthened invariant is inductive ...
LEMMA QueueInvStep == QueueInv /\ [Next]_vars => QueueInv'
<1> SUFFICES ASSUME QueueInv, [Next]_vars PROVE QueueInv'
  OBVIOUS
<1>1. TypeOK'
  <2>1. HasJob
    BY DEF QueueInv, OwnInv, Owns, HasJob
  <2> QED
    BY <2>1, TypeStep DEF QueueInv
<1>2. MutexInv' /\ OwnInv' /\ SingleRunning'
  <2>1. ASSUME NEW j \in Jobs, ProcessExits(j) PROVE MutexInv' /\ OwnInv' /\ SingleRunning'
    BY <2>1, BystanderStep DEF ProcessExits, SameRunning, db
  <2>2. CASE Tick
    BY <2>2, BystanderStep DEF Tick, SameRunning, db
  <2>3. CASE UNCHANGED vars
    BY <2>3, BystanderStep DEF vars, SameRunning, db
  <2> QED
    BY <2>1, <2>2, <2>3, OperatorStep, RebootStep, WorkStep, TroubleStep DEF Next
<1> QED
  BY <1>1, <1>2 DEF QueueInv

\* ... and holds of an empty queue without workers.
LEMMA QueueInvInit == Init => QueueInv
<1> SUFFICES ASSUME Init PROVE QueueInv
  OBVIOUS
<1>1. TypeOK
  BY FreshType DEF Init, TypeOK
<1>2. MutexInv
  BY NoneAssumption DEF Init, MutexInv
<1>3. OwnInv /\ SingleRunning
  BY DEF Init, OwnInv, Owns, SingleRunning, Running
<1> QED
  BY <1>1, <1>2, <1>3 DEF QueueInv

-----------------------------------------------------------------------------
(* What the holder of the lock starts, reads and records.                  *)

\* An outcome is a new state for the one row that finish() is for.
LEMMA FinishRow ==
    ASSUME QueueInv, NEW j \in Jobs, NEW s \in Terminal, FinishJob(j, s), state[j] = "running"
    PROVE  /\ state' = [state EXCEPT ![j] = IF cancelRequested[j] THEN "cancelled" ELSE s]
           /\ events' = Append(events, Event(j, IF cancelRequested[j] THEN "cancelled" ELSE s))
BY DEF FinishJob, Record

\* The two steps that record outcomes.
LEMMA RecoverRow ==
    ASSUME QueueInv, NEW w \in Workers, RecoverOne(w)
    PROVE  \E j \in Jobs :
              /\ pc[w] = "recover" /\ state[j] = "running" /\ FinishJob(j, "interrupted")
              /\ run' = [run EXCEPT ![w] = [run[w] EXCEPT !.todo = @ \ {j}]]
<1>1. PICK j \in run[w].todo : FinishJob(j, "interrupted") /\ Me(w, [run[w] EXCEPT !.todo = @ \ {j}])
  BY DEF RecoverOne
<1>2. pc[w] = "recover"
  BY DEF RecoverOne
<1>3. j \in Jobs /\ state[j] = "running"
  BY <1>2 DEF QueueInv, TypeOK, Locals, OwnInv, Owns
<1> QED
  BY <1>1, <1>2, <1>3 DEF Me

\* A worker that executes works on the running row, and no other worker holds the lock.
LEMMA ExecutedRow ==
    ASSUME QueueInv, NEW w \in Workers, pc[w] \in Executing
    PROVE  /\ JobOf(w) \in Jobs /\ state[JobOf(w)] = "running"
           /\ \A v \in Workers : pc[v] \in Holding => v = w
BY DEF QueueInv, OwnInv, Owns, MutexInv, JobOf

\* A cancellation that execute() has read, or decided, was requested.
RequestInv ==
    \A w \in Workers : pc[w] \in Executing /\ (run[w].requested \/ run[w].outcome = "cancelled")
        => cancelRequested[JobOf(w)]

\* Under systemd a live process is that of a worker which has not reaped it yet.
ProcessInv ==
    Managed = Workers =>
        \A j \in Jobs : proc[j] = "live" =>
            \E w \in Workers : pc[w] \in Executing \ {"finish"} /\ JobOf(w) = j

\* Steps that start no worker and no job cannot replay anything.
LEMMA ReplayFrame ==
    ASSUME NeverReplayed, UNCHANGED <<cancelRequested, acked, logs>>,
           \A j \in Jobs : state'[j] \in {"absent", "queued"} => state[j] \in {"absent", "queued"},
           \A j \in Jobs : proc[j] = "none" => proc'[j] = "none",
           \A w \in Workers : pc'[w] \in {"execute", "spawn"} =>
               pc[w] = pc'[w] /\ run'[w].job = run[w].job /\ run[w].job \in Jobs
    PROVE  NeverReplayed'
BY DEF NeverReplayed, JobOf

\* A worker's own steps replay nothing: it claims a queued row, which has no log and
\* no process, and no other worker executes at the same time.
LEMMA ReplayWork ==
    ASSUME QueueInv, NeverReplayed, NEW w \in Workers, Work(w)
    PROVE  NeverReplayed'
<1> USE DEF db, rows, host, Goto, Me
<1>0. TypeOK /\ OwnInv /\ MutexInv /\ \A v \in Workers : pc[v] \in Executing => run[v].job \in Jobs
  BY DEF QueueInv, OwnInv, Owns
<1> USE <1>0
<1>1. CASE TakeLock(w)
  BY <1>1, ReplayFrame DEF TakeLock, TypeOK
<1>2. CASE LockRefused(w) \/ Unlock(w)
  BY <1>2, ReplayFrame DEF LockRefused, Unlock, Forget, TypeOK
<1>3. CASE RecoverScan(w)
  BY <1>3, ReplayFrame DEF RecoverScan, TypeOK, Locals
<1>4. CASE RecoverOne(w)
  <2>1. PICK j \in Jobs : /\ state[j] = "running" /\ FinishJob(j, "interrupted")
                          /\ run' = [run EXCEPT ![w] = [run[w] EXCEPT !.todo = @ \ {j}]]
    BY <1>4, RecoverRow
  <2>2. \A k \in Jobs : state'[k] \in {"absent", "queued"} => state[k] \in {"absent", "queued"}
    BY SMTT(30), <2>1, FinishRow DEF TypeOK
  <2>3. \A v \in Workers : run'[v].job = run[v].job
    BY <2>1 DEF TypeOK, Locals
  <2> QED
    BY <1>4, <2>2, <2>3, ReplayFrame DEF RecoverOne
<1>5. CASE RecoverDone(w)
  BY <1>5, ReplayFrame DEF RecoverDone, TypeOK
<1>6. CASE LoopHead(w)
  BY <1>6, ReplayFrame DEF LoopHead, TypeOK
<1>7. CASE LoopExit(w)
  BY <1>7, ReplayFrame DEF LoopExit, TypeOK
<1>8. CASE NothingDue(w)
  BY <1>8, ReplayFrame DEF NothingDue, TypeOK
<1>9. CASE Closing(w)
  BY <1>9, ReplayFrame DEF Closing, TypeOK
<1>10. CASE Claim(w)
  BY <1>10 DEF Claim, Due, Pending, Record, Fresh, NeverReplayed, JobOf, TypeOK
<1>11. CASE OpenLog(w)
  BY <1>11, ExecutedRow DEF OpenLog, NeverReplayed, JobOf, TypeOK
<1>12. CASE Spawn(w)
  BY <1>12, ExecutedRow DEF Spawn, NeverReplayed, JobOf, TypeOK
<1>13. CASE ReadRequest(w)
  BY <1>13, ReplayFrame DEF ReadRequest, TypeOK
<1>14. CASE DecideOutcome(w)
  BY <1>14, ReplayFrame DEF DecideOutcome, TypeOK
<1>15. CASE DecideKill(w)
  BY <1>15, ReplayFrame DEF DecideKill, KillGroup, TypeOK
<1>16. CASE PollLive(w)
  BY <1>16, ReplayFrame DEF PollLive, TypeOK
<1>17. CASE PollDrain(w)
  BY <1>17, ReplayFrame DEF PollDrain, TypeOK
<1>18. CASE PollBreak(w)
  BY <1>18, ReplayFrame DEF PollBreak, TypeOK
<1>19. CASE Reap(w)
  BY <1>19, ReplayFrame DEF Reap, KillGroup, TypeOK
<1>20. CASE Finish(w)
  <2>1. run[w].outcome \in Terminal
    BY DEF TypeOK, Locals
  <2>2. \A j \in Jobs : state'[j] \in {"absent", "queued"} => state[j] \in {"absent", "queued"}
    BY <1>20, <2>1, ExecutedRow, FinishRow DEF Finish, TypeOK
  <2> QED
    BY <1>20, <2>2, ReplayFrame DEF Finish, TypeOK
<1> QED
  BY <1>1, <1>2, <1>3, <1>4, <1>5, <1>6, <1>7, <1>8, <1>9, <1>10, <1>11, <1>12, <1>13, <1>14, <1>15,
     <1>16, <1>17, <1>18, <1>19, <1>20 DEF Work, Execute

\* Nor do the operator's commands, the clock, process exits, signals and crashes.
LEMMA ReplayOther ==
    ASSUME QueueInv, NeverReplayed,
           Operator \/ Tick \/ Reboot \/ (\E j \in Jobs : ProcessExits(j))
               \/ (\E w \in Workers : Start(w) \/ TimerExpires(w) \/ Trouble(w)) \/ UNCHANGED vars
    PROVE  NeverReplayed'
<1> USE DEF db, rows, host, Goto, Me
<1>0. TypeOK /\ \A v \in Workers : pc[v] \in Executing => run[v].job \in Jobs
  BY DEF QueueInv, OwnInv, Owns
<1> USE <1>0
<1>1. ASSUME NEW j \in Jobs, NEW d, NEW o, SubmitJob(j, d, o) PROVE NeverReplayed'
  BY <1>1, ReplayFrame DEF SubmitJob, Record, TypeOK
<1>2. ASSUME NEW j \in Jobs, CancelQueued(j) PROVE NeverReplayed'
  BY <1>2, ReplayFrame DEF CancelQueued, Pending, Record, TypeOK
<1>3. ASSUME NEW j \in Jobs, CancelRunning(j) PROVE NeverReplayed'
  BY <1>3 DEF CancelRunning, NeverReplayed, JobOf, TypeOK
<1>4. ASSUME NEW j \in Jobs, RetryRead(j) PROVE NeverReplayed'
  BY <1>4, ReplayFrame DEF RetryRead
<1>5. ASSUME NEW J \in SUBSET Unreviewed, Acknowledge(J) PROVE NeverReplayed'
  BY <1>5 DEF Acknowledge, Unreviewed, NeverReplayed, JobOf, TypeOK
<1>6. CASE Operator
  <2>1. ASSUME NEW j \in Unreviewed, Acknowledge({j}) PROVE NeverReplayed'
    BY <1>5, <2>1
  <2> QED
    BY <1>1, <1>2, <1>3, <1>4, <1>5, <1>6, <2>1 DEF Operator, Submit, RetrySubmit
<1>7. CASE Tick
  BY <1>7, ReplayFrame DEF Tick
<1>8. CASE Reboot
  BY <1>8, ReplayFrame DEF Reboot, TypeOK
<1>9. ASSUME NEW j \in Jobs, ProcessExits(j) PROVE NeverReplayed'
  BY <1>9, ReplayFrame DEF ProcessExits, TypeOK
<1>10. ASSUME NEW w \in Workers, Start(w) \/ StopSignal(w) \/ DatabaseError(w) PROVE NeverReplayed'
  BY <1>10, ReplayFrame DEF Start, StopSignal, DatabaseError, TypeOK
<1>11. ASSUME NEW w \in Workers, TimerExpires(w) PROVE NeverReplayed'
  BY <1>11, ReplayFrame DEF TimerExpires, TypeOK, Locals
<1>12. ASSUME NEW w \in Workers, RunnerError(w) PROVE NeverReplayed'
  BY <1>12, ReplayFrame DEF RunnerError, TypeOK
<1>13. ASSUME NEW w \in Workers, Crash(w) PROVE NeverReplayed'
  <2>1. \A j \in Jobs : proc[j] = "none" => proc'[j] = "none"
    BY <1>13 DEF Crash, KillGroup, TypeOK
  <2> QED
    BY <1>13, <2>1, ReplayFrame DEF Crash, Forget, TypeOK
<1>14. CASE UNCHANGED vars
  BY <1>14, ReplayFrame DEF vars
<1> QED
  BY <1>6, <1>7, <1>8, <1>9, <1>10, <1>11, <1>12, <1>13, <1>14 DEF Trouble

-----------------------------------------------------------------------------
\* What cancellations promise, with what keeps it.
CancelInv == CancelHonoured /\ RequestInv

\* Steps that leave the rows and the executing workers as they are, or end some.
LEMMA CancelFrame ==
    ASSUME CancelInv, UNCHANGED <<state, cancelRequested, logs>>,
           \A w \in Workers : pc'[w] \in Executing =>
               /\ pc[w] \in Executing /\ run'[w].job = run[w].job
               /\ run'[w].requested => run[w].requested \/ cancelRequested[JobOf(w)]
               /\ run'[w].outcome = "cancelled" =>
                     run[w].outcome = "cancelled" \/ run[w].requested
    PROVE  CancelInv'
BY DEF CancelInv, CancelHonoured, RequestInv, JobOf

\* A worker decides "cancelled" only on a request it has read, and finish() reads
\* the request again.
LEMMA CancelWork ==
    ASSUME QueueInv, NeverReplayed, CancelInv, NEW w \in Workers, Work(w)
    PROVE  CancelInv'
<1> USE DEF db, rows, host, Goto, Me
<1>0. TypeOK /\ \A v \in Workers : pc[v] \in Executing => run[v].job \in Jobs
  BY DEF QueueInv, OwnInv, Owns
<1> USE <1>0
<1>1. CASE TakeLock(w)
  BY <1>1, CancelFrame DEF TakeLock, TypeOK
<1>2. CASE LockRefused(w) \/ Unlock(w)
  BY <1>2, CancelFrame DEF LockRefused, Unlock, Forget, TypeOK
<1>3. CASE RecoverScan(w)
  BY <1>3, CancelFrame DEF RecoverScan, TypeOK, Locals
<1>4. CASE RecoverOne(w)
  <2>1. PICK j \in Jobs : /\ state[j] = "running" /\ FinishJob(j, "interrupted")
                          /\ run' = [run EXCEPT ![w] = [run[w] EXCEPT !.todo = @ \ {j}]]
    BY <1>4, RecoverRow
  <2>2. /\ state' = [state EXCEPT ![j] = IF cancelRequested[j] THEN "cancelled" ELSE "interrupted"]
        /\ UNCHANGED <<pc, cancelRequested, logs>>
    BY <1>4, <2>1, FinishRow DEF RecoverOne
  <2>3. CancelHonoured'
    BY <2>2 DEF CancelInv, CancelHonoured, TypeOK
  <2>4. RequestInv'
    BY <2>1, <2>2 DEF CancelInv, RequestInv, TypeOK, Locals, JobOf
  <2> QED
    BY <2>3, <2>4 DEF CancelInv
<1>5. CASE RecoverDone(w)
  BY <1>5, CancelFrame DEF RecoverDone, TypeOK
<1>6. CASE LoopHead(w)
  BY <1>6, CancelFrame DEF LoopHead, TypeOK
<1>7. CASE LoopExit(w)
  BY <1>7, CancelFrame DEF LoopExit, TypeOK
<1>8. CASE NothingDue(w)
  BY <1>8, CancelFrame DEF NothingDue, TypeOK
<1>9. CASE Closing(w)
  BY <1>9, CancelFrame DEF Closing, TypeOK
<1>10. CASE Claim(w)
  BY <1>10 DEF Claim, Due, Pending, Record, Fresh, CancelInv, CancelHonoured, RequestInv, JobOf, TypeOK
<1>11. CASE OpenLog(w)
  BY <1>11, ExecutedRow DEF OpenLog, CancelInv, CancelHonoured, RequestInv, JobOf, TypeOK
<1>12. CASE Spawn(w)
  BY <1>12, CancelFrame DEF Spawn, TypeOK
<1>13. CASE ReadRequest(w)
  BY <1>13, CancelFrame DEF ReadRequest, TypeOK, Locals, JobOf
<1>14. CASE DecideOutcome(w)
  BY <1>14, CancelFrame DEF DecideOutcome, Verdict, TypeOK, Locals
<1>15. CASE DecideKill(w)
  BY <1>15, CancelFrame DEF DecideKill, TypeOK, Locals
<1>16. CASE PollLive(w)
  BY <1>16, CancelFrame DEF PollLive, TypeOK
<1>17. CASE PollDrain(w)
  BY <1>17, CancelFrame DEF PollDrain, TypeOK, Locals
<1>18. CASE PollBreak(w)
  BY <1>18, CancelFrame DEF PollBreak, ExitOutcome, TypeOK, Locals
<1>19. CASE Reap(w)
  BY <1>19, CancelFrame DEF Reap, TypeOK
<1>20. CASE Finish(w)
  <2>1. run[w].outcome \in Terminal /\ UNCHANGED <<cancelRequested, logs>> /\ pc[w] = "finish"
    BY <1>20 DEF TypeOK, Locals, Finish
  <2>2. state' = [state EXCEPT ![JobOf(w)] =
                      IF cancelRequested[JobOf(w)] THEN "cancelled" ELSE run[w].outcome]
    BY <1>20, <2>1, ExecutedRow, FinishRow DEF Finish
  <2>3. CancelHonoured'
    BY <2>1, <2>2 DEF CancelInv, CancelHonoured, RequestInv, TypeOK
  <2>4. RequestInv'
    BY <1>20, <2>1 DEF Finish, CancelInv, RequestInv, TypeOK, JobOf
  <2> QED
    BY <2>3, <2>4 DEF CancelInv
<1> QED
  BY <1>1, <1>2, <1>3, <1>4, <1>5, <1>6, <1>7, <1>8, <1>9, <1>10, <1>11, <1>12, <1>13, <1>14, <1>15,
     <1>16, <1>17, <1>18, <1>19, <1>20 DEF Work, Execute

\* The other steps only add requests, or end workers.
LEMMA CancelOther ==
    ASSUME QueueInv, NeverReplayed, CancelInv,
           Operator \/ Tick \/ Reboot \/ (\E j \in Jobs : ProcessExits(j))
               \/ (\E w \in Workers : Start(w) \/ TimerExpires(w) \/ Trouble(w)) \/ UNCHANGED vars
    PROVE  CancelInv'
<1> USE DEF db, rows, host, Goto, Me
<1>0. TypeOK /\ \A v \in Workers : pc[v] \in Executing => run[v].job \in Jobs
  BY DEF QueueInv, OwnInv, Owns
<1> USE <1>0
<1>1. ASSUME NEW j \in Jobs, NEW d, NEW o, SubmitJob(j, d, o) PROVE CancelInv'
  BY <1>1 DEF SubmitJob, Record, CancelInv, CancelHonoured, RequestInv, JobOf, TypeOK
<1>2. ASSUME NEW j \in Jobs, CancelQueued(j) PROVE CancelInv'
  BY <1>2 DEF CancelQueued, Pending, Record, CancelInv, CancelHonoured, RequestInv, JobOf, NeverReplayed, TypeOK
<1>3. ASSUME NEW j \in Jobs, CancelRunning(j) PROVE CancelInv'
  BY <1>3 DEF CancelRunning, CancelInv, CancelHonoured, RequestInv, JobOf, TypeOK
<1>4. ASSUME NEW j \in Jobs, RetryRead(j) PROVE CancelInv'
  BY <1>4, CancelFrame DEF RetryRead
<1>5. ASSUME NEW J, Acknowledge(J) PROVE CancelInv'
  BY <1>5, CancelFrame DEF Acknowledge
<1>6. CASE Operator
  BY <1>1, <1>2, <1>3, <1>4, <1>5, <1>6 DEF Operator, Submit, RetrySubmit
<1>7. CASE Tick
  BY <1>7, CancelFrame DEF Tick
<1>8. CASE Reboot
  BY <1>8, CancelFrame DEF Reboot, TypeOK
<1>9. ASSUME NEW j \in Jobs, ProcessExits(j) PROVE CancelInv'
  BY <1>9, CancelFrame DEF ProcessExits
<1>10. ASSUME NEW w \in Workers, Start(w) \/ StopSignal(w) \/ DatabaseError(w) PROVE CancelInv'
  BY <1>10, CancelFrame DEF Start, StopSignal, DatabaseError, TypeOK
<1>11. ASSUME NEW w \in Workers, TimerExpires(w) PROVE CancelInv'
  BY <1>11, CancelFrame DEF TimerExpires, TypeOK, Locals
<1>12. ASSUME NEW w \in Workers, RunnerError(w) PROVE CancelInv'
  BY <1>12, CancelFrame DEF RunnerError, TypeOK, Locals
<1>13. ASSUME NEW w \in Workers, Crash(w) PROVE CancelInv'
  BY <1>13, CancelFrame DEF Crash, Forget, TypeOK
<1>14. CASE UNCHANGED vars
  BY <1>14, CancelFrame DEF vars
<1> QED
  BY <1>6, <1>7, <1>8, <1>9, <1>10, <1>11, <1>12, <1>13, <1>14 DEF Trouble

-----------------------------------------------------------------------------
\* Steps that end no process' worker and start no process.
LEMMA ProcessFrame ==
    ASSUME ProcessInv,
           \A j \in Jobs : proc'[j] = "live" => proc[j] = "live",
           \A w \in Workers : pc[w] \in Executing \ {"finish"} /\ proc'[JobOf(w)] = "live" =>
               pc'[w] \in Executing \ {"finish"} /\ run'[w].job = run[w].job
    PROVE  ProcessInv'
BY DEF ProcessInv, JobOf

\* A worker that starts a process executes its job until it has reaped it.
LEMMA ProcessWork ==
    ASSUME QueueInv, ProcessInv, NEW w \in Workers, Work(w)
    PROVE  ProcessInv'
<1> USE DEF db, rows, host, Goto, Me
<1>0. TypeOK /\ \A v \in Workers : pc[v] \in Executing => run[v].job \in Jobs
  BY DEF QueueInv, OwnInv, Owns
<1> USE <1>0
<1>1. CASE TakeLock(w) \/ LockRefused(w) \/ Unlock(w)
  BY <1>1, ProcessFrame DEF TakeLock, LockRefused, Unlock, Forget, TypeOK
<1>2. CASE RecoverScan(w) \/ RecoverDone(w)
  BY <1>2, ProcessFrame DEF RecoverScan, RecoverDone, TypeOK
<1>3. CASE RecoverOne(w)
  <2>1. \A v \in Workers : run'[v].job = run[v].job
    BY <1>3, RecoverRow DEF TypeOK, Locals
  <2> QED
    BY <1>3, <2>1, ProcessFrame DEF RecoverOne
<1>4. CASE LoopHead(w) \/ LoopExit(w) \/ NothingDue(w) \/ Closing(w)
  BY <1>4, ProcessFrame DEF LoopHead, LoopExit, NothingDue, Closing, TypeOK
<1>5. CASE Claim(w)
  BY <1>5, ProcessFrame DEF Claim, TypeOK
<1>6. CASE OpenLog(w)
  BY <1>6, ProcessFrame DEF OpenLog, TypeOK
<1>7. CASE Spawn(w)
  BY <1>7 DEF Spawn, ProcessInv, JobOf, TypeOK
<1>8. CASE ReadRequest(w)
  BY <1>8, ProcessFrame DEF ReadRequest, TypeOK, Locals
<1>9. CASE DecideOutcome(w)
  BY <1>9, ProcessFrame DEF DecideOutcome, TypeOK, Locals
<1>10. CASE DecideKill(w)
  BY <1>10, ProcessFrame DEF DecideKill, KillGroup, TypeOK, Locals
<1>11. CASE PollLive(w)
  BY <1>11, ProcessFrame DEF PollLive, TypeOK
<1>12. CASE PollDrain(w)
  BY <1>12, ProcessFrame DEF PollDrain, TypeOK, Locals
<1>13. CASE PollBreak(w)
  BY <1>13, ProcessFrame DEF PollBreak, TypeOK, Locals
<1>14. CASE Reap(w)
  BY <1>14, ProcessFrame DEF Reap, KillGroup, TypeOK, JobOf
<1>15. CASE Finish(w)
  BY <1>15, ProcessFrame DEF Finish, TypeOK
<1> QED
  BY <1>1, <1>2, <1>3, <1>4, <1>5, <1>6, <1>7, <1>8, <1>9, <1>10, <1>11, <1>12, <1>13, <1>14, <1>15
     DEF Work, Execute

\* The other steps start no process, and what ends a managed worker ends its process.
LEMMA ProcessOther ==
    ASSUME QueueInv, ProcessInv,
           Operator \/ Tick \/ Reboot \/ (\E j \in Jobs : ProcessExits(j))
               \/ (\E w \in Workers : Start(w) \/ TimerExpires(w) \/ Trouble(w)) \/ UNCHANGED vars
    PROVE  ProcessInv'
<1> USE DEF db, rows, host, Goto, Me
<1>0. TypeOK /\ \A v \in Workers : pc[v] \in Executing => run[v].job \in Jobs
  BY DEF QueueInv, OwnInv, Owns
<1> USE <1>0
<1>1. CASE Operator
  <2>1. UNCHANGED <<pc, run, proc>>
    BY <1>1 DEF Operator, Submit, RetrySubmit, SubmitJob, CancelQueued, CancelRunning, RetryRead, Acknowledge
  <2> QED
    BY <2>1, ProcessFrame
<1>2. CASE Tick \/ UNCHANGED vars
  BY <1>2, ProcessFrame DEF Tick, vars
<1>3. CASE Reboot
  <2>1. \A j \in Jobs : proc'[j] # "live"
    BY <1>3 DEF Reboot
  <2> QED
    BY <2>1 DEF ProcessInv
<1>4. ASSUME NEW j \in Jobs, ProcessExits(j) PROVE ProcessInv'
  BY <1>4, ProcessFrame DEF ProcessExits, TypeOK
<1>5. ASSUME NEW w \in Workers, Start(w) \/ StopSignal(w) \/ DatabaseError(w) PROVE ProcessInv'
  BY <1>5, ProcessFrame DEF Start, StopSignal, DatabaseError, TypeOK
<1>6. ASSUME NEW w \in Workers, TimerExpires(w) PROVE ProcessInv'
  BY <1>6, ProcessFrame DEF TimerExpires, TypeOK, Locals
<1>7. ASSUME NEW w \in Workers, RunnerError(w) PROVE ProcessInv'
  BY <1>7, ProcessFrame DEF RunnerError, TypeOK, Locals
\* The cgroup of a managed worker dies with it.
<1>8. ASSUME NEW w \in Workers, Crash(w) PROVE ProcessInv'
  <2>1. CASE Managed # Workers
    BY <2>1 DEF ProcessInv
  <2>2. CASE Managed = Workers
    <3>1. /\ \A j \in Jobs : proc'[j] = "live" => proc[j] = "live"
          /\ pc[w] \in Executing => proc'[JobOf(w)] # "live"
      BY <1>8, <2>2 DEF Crash, KillGroup, TypeOK, JobOf
    <3>2. \A v \in Workers \ {w} : pc'[v] = pc[v] /\ run'[v] = run[v]
      BY <1>8 DEF Crash, Forget, TypeOK
    <3> QED
      BY <3>1, <3>2, ProcessFrame
  <2> QED
    BY <2>1, <2>2
<1> QED
  BY <1>1, <1>2, <1>3, <1>4, <1>5, <1>6, <1>7, <1>8 DEF Trouble

-----------------------------------------------------------------------------
\* Steps that write no heartbeat and bring no worker to where it relies on one.
LEMMA BeatFrame ==
    ASSUME HeartbeatOfHolder, UNCHANGED beat,
           \A w \in Workers : pc'[w] \in {"claim"} \cup Executing => pc[w] \in {"claim"} \cup Executing
    PROVE  HeartbeatOfHolder'
BY DEF HeartbeatOfHolder

\* Only the worker that holds the lock writes one.
LEMMA BeatWork ==
    ASSUME QueueInv, HeartbeatOfHolder, NEW w \in Workers, Work(w)
    PROVE  HeartbeatOfHolder'
<1> USE DEF db, rows, host, Goto
<1>0. TypeOK /\ \A v \in Workers : pc[w] \in Holding /\ pc[v] \in Holding => v = w
  BY DEF QueueInv, MutexInv
<1> USE <1>0
<1>1. CASE TakeLock(w) \/ LockRefused(w) \/ Unlock(w)
  BY <1>1, BeatFrame DEF TakeLock, LockRefused, Unlock, Forget, TypeOK
<1>2. CASE RecoverScan(w) \/ RecoverOne(w) \/ RecoverDone(w)
  BY <1>2, BeatFrame DEF RecoverScan, RecoverOne, RecoverDone, TypeOK
<1>3. CASE LoopHead(w)
  BY <1>3 DEF LoopHead, Beat, HeartbeatOfHolder, TypeOK
<1>4. CASE LoopExit(w) \/ NothingDue(w)
  BY <1>4, BeatFrame DEF LoopExit, NothingDue, TypeOK
<1>5. CASE Closing(w)
  BY <1>5 DEF Closing, Beat, HeartbeatOfHolder, TypeOK
<1>6. CASE Claim(w)
  BY <1>6, BeatFrame DEF Claim, TypeOK
<1>7. CASE ReadRequest(w)
  BY <1>7 DEF ReadRequest, Beat, HeartbeatOfHolder, TypeOK
<1>8. CASE Execute(w) /\ ~ReadRequest(w)
  <2>1. UNCHANGED beat /\ pc[w] \in Executing /\ \A v \in Workers \ {w} : pc'[v] = pc[v]
    BY <1>8 DEF Execute, OpenLog, Spawn, DecideOutcome, DecideKill, PollLive, PollDrain, PollBreak, Reap,
                Finish, TypeOK
  <2> QED
    BY <2>1, BeatFrame
<1> QED
  BY <1>1, <1>2, <1>3, <1>4, <1>5, <1>6, <1>7, <1>8 DEF Work, Execute

\* Nobody but a worker writes a heartbeat.
LEMMA BeatOther ==
    ASSUME QueueInv, HeartbeatOfHolder,
           Operator \/ Tick \/ Reboot \/ (\E j \in Jobs : ProcessExits(j))
               \/ (\E w \in Workers : Start(w) \/ TimerExpires(w) \/ Trouble(w)) \/ UNCHANGED vars
    PROVE  HeartbeatOfHolder'
<1> USE DEF db, rows, host, Goto
<1>0. TypeOK
  BY DEF QueueInv
<1>1. UNCHANGED beat
  BY DEF Operator, Submit, RetrySubmit, SubmitJob, CancelQueued, CancelRunning, RetryRead, Acknowledge,
         Tick, Reboot, ProcessExits, Start, TimerExpires, Trouble, RunnerError, StopSignal, DatabaseError,
         Crash, vars
<1>2. CASE Operator \/ Tick \/ Reboot \/ (\E j \in Jobs : ProcessExits(j)) \/ UNCHANGED vars
  <2>1. UNCHANGED pc \/ \A w \in Workers : pc'[w] = "off"
    BY <1>2 DEF Operator, Submit, RetrySubmit, SubmitJob, CancelQueued, CancelRunning, RetryRead, Acknowledge,
                Tick, Reboot, ProcessExits, vars
  <2> QED
    BY <1>1, <2>1, BeatFrame
<1>3. ASSUME NEW w \in Workers, Start(w) \/ TimerExpires(w) \/ Trouble(w) PROVE HeartbeatOfHolder'
  <2>1. \/ UNCHANGED pc
        \/ \E label \in {"open", "reap", "unlock", "closing", "off"} :
               pc' = [pc EXCEPT ![w] = label] /\ (label = "reap" => pc[w] \in Executing)
    BY <1>3 DEF Start, TimerExpires, Trouble, RunnerError, StopSignal, DatabaseError, Crash, Forget
  <2> QED
    BY <1>0, <1>1, <2>1, BeatFrame DEF TypeOK
<1> QED
  BY <1>2, <1>3

-----------------------------------------------------------------------------
(* The invariant of the whole service, and what it says.                   *)

\* The lock, with what the operators rely on.
ServiceInv == QueueInv /\ NeverReplayed /\ CancelInv /\ ProcessInv /\ HeartbeatOfHolder

\* The invariant of the service is inductive ...
LEMMA ServiceInvStep == ServiceInv /\ [Next]_vars => ServiceInv'
<1> SUFFICES ASSUME ServiceInv, [Next]_vars PROVE ServiceInv'
  OBVIOUS
<1> USE DEF ServiceInv
<1>1. NeverReplayed' /\ CancelInv' /\ ProcessInv' /\ HeartbeatOfHolder'
  <2>1. CASE \E w \in Workers : Work(w)
    BY <2>1, ReplayWork, CancelWork, ProcessWork, BeatWork
  <2>2. CASE ~ \E w \in Workers : Work(w)
    <3>1. \/ Operator \/ Tick \/ Reboot \/ (\E j \in Jobs : ProcessExits(j))
          \/ (\E w \in Workers : Start(w) \/ TimerExpires(w) \/ Trouble(w)) \/ UNCHANGED vars
      BY <2>2 DEF Next
    <3> QED
      BY <3>1, ReplayOther, CancelOther, ProcessOther, BeatOther
  <2> QED
    BY <2>1, <2>2
<1> QED
  BY <1>1, QueueInvStep

\* ... and holds of an empty queue.
LEMMA ServiceInvInit == Init => ServiceInv
<1> SUFFICES ASSUME Init PROVE ServiceInv
  OBVIOUS
<1>1. QueueInv
  BY QueueInvInit
<1>2. NeverReplayed /\ CancelInv /\ ProcessInv /\ HeartbeatOfHolder
  BY DEF Init, NeverReplayed, CancelInv, CancelHonoured, RequestInv, ProcessInv, HeartbeatOfHolder
<1> QED
  BY <1>1, <1>2 DEF ServiceInv

\* Whatever the operators, workers, processes and faults do, the invariant holds.
LEMMA ServiceInvHolds == Spec => []ServiceInv
BY ServiceInvInit, ServiceInvStep, PTL DEF Spec

\* The tables, the workers and the processes keep legal values in every state.
THEOREM TypeCorrect == Spec => []TypeOK
<1>1. QueueInv => TypeOK
  BY DEF QueueInv
<1> QED
  BY <1>1, QueueInvInit, QueueInvStep, PTL DEF Spec

\* However workers compete, fail and restart, there is never more than one
\* running row: the queue is served by one worker, one job at a time.
THEOREM OneRunningJob == Spec => []SingleRunning
<1>1. QueueInv => SingleRunning
  BY DEF QueueInv
<1> QED
  BY <1>1, QueueInvInit, QueueInvStep, PTL DEF Spec

\* Work is never replayed, whatever crashed between a claim and an outcome: a row
\* that waits has no process, no log, no request and no acknowledgment.
THEOREM NothingIsReplayed == Spec => []NeverReplayed
<1>1. ServiceInv => NeverReplayed
  BY DEF ServiceInv
<1> QED
  BY <1>1, ServiceInvHolds, PTL

\* A recorded cancellation wins over every outcome that execute() computed from an
\* older read, and no job that was started is called cancelled without a request.
THEOREM CancellationWins == Spec => []CancelHonoured
<1>1. ServiceInv => CancelHonoured
  BY DEF ServiceInv, CancelInv
<1> QED
  BY <1>1, ServiceInvHolds, PTL

\* With every worker under systemd, a live job process belongs to the running row
\* and to a worker that still executes it.
THEOREM EveryProcessIsWatched == Spec => []NoStrayProcess
<1>1. ServiceInv => NoStrayProcess
  <2>1. SUFFICES ASSUME ServiceInv, Managed = Workers, NEW j \in Jobs, proc[j] = "live"
                 PROVE  /\ state[j] = "running"
                        /\ \E w \in Workers : pc[w] \in Executing /\ JobOf(w) = j
    BY DEF NoStrayProcess
  <2>2. PICK w \in Workers : pc[w] \in Executing /\ JobOf(w) = j
    BY <2>1 DEF ServiceInv, ProcessInv
  <2> QED
    BY <2>1, <2>2, ExecutedRow DEF ServiceInv
<1> QED
  BY <1>1, ServiceInvHolds, PTL

\* While a worker serves the queue, the heartbeat row is its own.
THEOREM HeartbeatIsTheHolders == Spec => []HeartbeatOfHolder
<1>1. ServiceInv => HeartbeatOfHolder
  BY DEF ServiceInv
<1> QED
  BY <1>1, ServiceInvHolds, PTL
=============================================================================
