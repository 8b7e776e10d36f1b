-------------------------- MODULE JobHistoryProofs --------------------------
(***************************************************************************)
(* TLAPS proofs about what the readers of the job queue see: the event log *)
(* agrees with the rows, and the queue implements its contract.            *)
(***************************************************************************)
EXTENDS JobQueueProofs

USE DEF Terminal, Attention, JobState, EventKind, Exited, Executing, Holding

-----------------------------------------------------------------------------
(* What a step does to the tables that the queue's readers see.            *)

\* The tables that `rougarou jobs` shows.
Rows == <<state, events, acked, cancelRequested>>

\* A row moves, and the event says where.
Moves(j, from, to) ==
    /\ state[j] = from /\ Record(j, to) /\ UNCHANGED <<acked, cancelRequested>>
    /\ from = "queued" /\ to = "running" => \A k \in Jobs : state[k] # "running"

\* The moves that a row makes.
TableMove ==
    \/ \E j \in Jobs : Moves(j, "absent", "queued") \/ Moves(j, "queued", "running")
                         \/ Moves(j, "queued", "cancelled")
    \/ \E j \in Jobs, s \in Terminal : Moves(j, "running", s)

\* Every step moves one row, notes a request, acknowledges, or leaves the rows alone.
LEMMA TableStep ==
    ASSUME QueueInv, [Next]_vars
    PROVE  \/ UNCHANGED Rows
           \/ TableMove
           \/ \E j \in Jobs : CancelRunning(j)
           \/ \E J \in SUBSET Unreviewed : Acknowledge(J)
<1> USE DEF db, rows, host, Rows
<1>1. CASE Operator
  <2>1. ASSUME NEW j \in Jobs, NEW d, NEW o, SubmitJob(j, d, o) PROVE TableMove
    BY <2>1 DEF SubmitJob, TableMove, Moves
  <2>2. ASSUME NEW j \in Jobs, CancelQueued(j) PROVE TableMove
    BY <2>2 DEF CancelQueued, Pending, TableMove, Moves
  <2>3. ASSUME NEW j \in Jobs, RetryRead(j) PROVE UNCHANGED Rows
    BY <2>3 DEF RetryRead
  <2> QED
    BY <1>1, <2>1, <2>2, <2>3 DEF Operator, Submit, RetrySubmit
<1>2. CASE Tick \/ Reboot \/ (\E j \in Jobs : ProcessExits(j)) \/ UNCHANGED vars
  BY <1>2 DEF Tick, Reboot, ProcessExits, vars
<1>3. ASSUME NEW w \in Workers, Start(w) \/ TimerExpires(w) \/ Trouble(w) PROVE UNCHANGED Rows
  BY <1>3 DEF Start, TimerExpires, Trouble, RunnerError, StopSignal, DatabaseError, Crash
<1>4. ASSUME NEW w \in Workers, RecoverOne(w) PROVE TableMove
  <2>1. PICK j \in Jobs : state[j] = "running" /\ FinishJob(j, "interrupted")
    BY <1>4, RecoverRow
  <2>2. PICK s \in Terminal : Record(j, s)
    BY <2>1, FinishRow DEF Record
  <2> QED
    BY <1>4, <2>1, <2>2 DEF RecoverOne, TableMove, Moves
<1>5. ASSUME NEW w \in Workers, Finish(w) PROVE TableMove
  <2>1. JobOf(w) \in Jobs /\ state[JobOf(w)] = "running"
    BY <1>5, ExecutedRow DEF Finish
  <2>2. run[w].outcome \in Terminal
    BY DEF QueueInv, TypeOK, Locals
  <2>3. PICK s \in Terminal : Record(JobOf(w), s)
    BY <1>5, <2>1, <2>2, FinishRow DEF Finish, Record
  <2> QED
    BY <1>5, <2>1, <2>3 DEF Finish, TableMove, Moves
<1>6. ASSUME NEW w \in Workers, Claim(w) PROVE TableMove
  BY <1>6 DEF Claim, Due, Pending, TableMove, Moves, QueueInv, OwnInv, Owns
<1>7. ASSUME NEW w \in Workers, Work(w), ~RecoverOne(w), ~Finish(w), ~Claim(w) PROVE UNCHANGED Rows
  BY <1>7 DEF Work, TakeLock, LockRefused, RecoverScan, RecoverDone, LoopHead, LoopExit, NothingDue,
              Closing, Unlock, Execute, OpenLog, Spawn, ReadRequest, DecideOutcome, DecideKill, PollLive,
              PollDrain, PollBreak, Reap
<1> QED
  BY <1>1, <1>2, <1>3, <1>4, <1>5, <1>6, <1>7 DEF Next

\* Only an outcome that asks for attention is acknowledged, and it is final.
ReviewInv == \A j \in Jobs : acked[j] # None => state[j] \in Attention /\ acked[j] = state[j]

\* An acknowledgment repeats a final outcome, and a final row does not move.
LEMMA ReviewStep == ASSUME QueueInv, ReviewInv, [Next]_vars PROVE ReviewInv'
<1>0. TypeOK
  BY DEF QueueInv
<1>1. CASE UNCHANGED Rows
  BY <1>1 DEF Rows, ReviewInv
<1>2. CASE TableMove
  BY ZenonT(40), <1>0, <1>2 DEF TableMove, Moves, Record, ReviewInv, TypeOK
<1>3. ASSUME NEW j \in Jobs, CancelRunning(j) PROVE ReviewInv'
  BY <1>3 DEF CancelRunning, ReviewInv
<1>4. ASSUME NEW J \in SUBSET Unreviewed, Acknowledge(J) PROVE ReviewInv'
  BY <1>4 DEF Acknowledge, Unreviewed, ReviewInv
<1> QED
  BY <1>1, <1>2, <1>3, <1>4, TableStep

-----------------------------------------------------------------------------
(* The queue implements its contract.                                      *)

\* Every step of the queue is a step of its contract, or leaves the contract's
\* state alone.
LEMMA ContractStep ==
    ASSUME QueueInv, ReviewInv, [Next]_vars
    PROVE  [Contract!ContractNext]_(Contract!contractVars)
<1>0. TypeOK
  BY DEF QueueInv
<1>1. CASE UNCHANGED Rows
  BY <1>1 DEF Rows, Contract!contractVars
<1>2. ASSUME NEW j \in Jobs, NEW from, NEW to, Moves(j, from, to)
      PROVE  Contract!Move(j, to) /\ Contract!Log(j, to)
  BY <1>2 DEF Moves, Record, Event, Contract!Move, Contract!Log, Contract!Event
<1>3. ASSUME NEW j \in Jobs, Moves(j, "absent", "queued") PROVE Contract!QueueJob(j)
  BY <1>2, <1>3 DEF Moves, Contract!QueueJob, Contract!QueueRow
<1>4. ASSUME NEW j \in Jobs, Moves(j, "queued", "running") PROVE Contract!BeginJob(j)
  BY <1>2, <1>4 DEF Moves, Contract!BeginJob, Contract!BeginRow, Contract!Running
<1>5. ASSUME NEW j \in Jobs, Moves(j, "queued", "cancelled") PROVE Contract!DropJob(j)
  BY <1>2, <1>5 DEF Moves, Contract!DropJob, Contract!DropRow
<1>6. ASSUME NEW j \in Jobs, NEW s \in Terminal, Moves(j, "running", s) PROVE Contract!EndJob(j, s)
  BY <1>2, <1>6 DEF Moves, Contract!EndJob, Contract!EndRow, Contract!Terminal
<1>7. ASSUME NEW j \in Jobs, CancelRunning(j) PROVE Contract!AskToCancel(j)
  BY <1>7 DEF CancelRunning, Event, Contract!AskToCancel, Contract!Log, Contract!Event
<1>8. ASSUME NEW J \in SUBSET Unreviewed, Acknowledge(J) PROVE J \in SUBSET Jobs /\ Contract!Review(J)
  <2>1. J \in SUBSET Jobs /\ J # {} /\ J \subseteq Contract!Unreviewed
    BY <1>0, <1>8 DEF Acknowledge, Unreviewed, ReviewInv, Contract!Unreviewed, Contract!Attention
  <2>2. PICK order \in SetToSeqs(J) : events' = events \o Acknowledgments(order)
    BY <1>8 DEF Acknowledge
  <2>3. order \in Contract!SetToSeqs(J)
    <3>1. Contract!Cardinality(J) = Cardinality(J)
      BY Zenon DEF Cardinality, Contract!Cardinality
    <3> QED
      BY <2>2, <3>1 DEF SetToSeqs, Contract!SetToSeqs
  <2>4. Acknowledgments(order) = [n \in DOMAIN order |-> Contract!Event(order[n], "acknowledged")]
    BY DEF Acknowledgments, Event, Contract!Event
  <2>5. {j \in Jobs : acked'[j] # None} = {j \in Jobs : acked[j] # None} \cup J
    BY <1>0, <1>8, <2>1, OutcomeAssumption DEF Acknowledge, Unreviewed
  <2>6. UNCHANGED state
    BY <1>8 DEF Acknowledge
  <2> QED
    BY <2>1, <2>2, <2>3, <2>4, <2>5, <2>6 DEF Contract!Review
<1> QED
  BY <1>1, <1>3, <1>4, <1>5, <1>6, <1>7, <1>8, TableStep DEF TableMove, Contract!ContractNext, Contract!Terminal

-----------------------------------------------------------------------------
(* The event log tells what the rows went through.                         *)

\* A row of the events table.
EventRecord == [job : Jobs, state : EventKind]

\* The events of one job and state: a finite set of positions in the log.
LEMMA AtType ==
    ASSUME TypeOK, NEW j, NEW s
    PROVE  /\ Len(events) \in Nat /\ At(j, s) \subseteq 1..Len(events)
           /\ IsFiniteSet(At(j, s)) /\ IsFiniteSet(EventsOf(j))
<1>1. events \in Seq(EventRecord)
  BY DEF TypeOK, EventRecord
<1>2. Len(events) \in Nat /\ DOMAIN events = 1..Len(events)
  BY <1>1
<1>3. EventsOf(j) \subseteq 1..Len(events) /\ At(j, s) \subseteq 1..Len(events)
  BY <1>2 DEF At, EventsOf
<1>4. IsFiniteSet(1..Len(events))
  BY <1>2, FS_Interval
<1> QED
  BY <1>2, <1>3, <1>4, FS_Subset

\* One more event is one more position for its job and state.
LEMMA AppendedAt ==
    ASSUME TypeOK, NEW j \in Jobs, NEW s \in EventKind, events' = Append(events, Event(j, s))
    PROVE  /\ \A t : At(j, t)' = IF t = s THEN At(j, t) \cup {Len(events) + 1} ELSE At(j, t)
           /\ \A k, t : k # j => At(k, t)' = At(k, t)
<1> DEFINE n == Len(events) + 1
<1>1. events \in Seq(EventRecord) /\ Event(j, s) \in EventRecord
  BY DEF TypeOK, EventRecord, Event
<1>2. Len(events) \in Nat /\ DOMAIN events = 1..Len(events) /\ DOMAIN events' = 1..n
  BY <1>1
<1>3. /\ \A m \in 1..Len(events) : events'[m] = events[m]
      /\ events'[n].job = j /\ events'[n].state = s
  BY <1>1 DEF Event
<1>4. 1..n = (1..Len(events)) \cup {n}
  BY <1>2
<1> HIDE DEF n
<1> QED
  BY <1>2, <1>3, <1>4 DEF At, EventsOf, n

\* A set with one element.
Single(S) == \E n : S = {n}

\* What has been logged of one job, and the row that it must agree with.
Tale(log, row, asked, review) ==
    /\ IF row = "absent" THEN log["queued"] = {} ELSE Single(log["queued"])
    /\ row = "running" => Single(log["running"])
    /\ row \in {"absent", "queued"} => log["running"] = {}
    /\ \A s \in Terminal : IF row = s THEN Single(log[s]) ELSE log[s] = {}
    /\ asked <=> log["cancel_requested"] # {}
    /\ IF review = None THEN log["acknowledged"] = {} ELSE Single(log["acknowledged"])
    /\ Precedes(log["queued"], log["running"])
    /\ Precedes(log["running"], log["cancel_requested"])
    /\ \A s \in Terminal : /\ Precedes(log["running"], log[s])
                           /\ Precedes(log["cancel_requested"], log[s])
                           /\ Precedes(log[s], log["acknowledged"])

\* The positions of the events of a job, by state.
LogOf(j) == [s \in EventKind |-> At(j, s)]

\* Every job has its tale.
StoryInv == \A j \in Jobs : Tale(LogOf(j), state[j], cancelRequested[j], acked[j])

\* One more event, later than all others.
LogAdds(log, new, s, n) ==
    /\ \A t \in EventKind : new[t] = IF t = s THEN log[t] \cup {n} ELSE log[t]
    /\ \A t \in EventKind : \A m \in log[t] : m < n

\* A tale goes on: the row moves, a request is noted, the outcome is reviewed.
LEMMA TaleMoves ==
    ASSUME NEW log, NEW new, NEW row, NEW to, NEW asked \in BOOLEAN, NEW review,
           Tale(log, row, asked, review), \E n : LogAdds(log, new, to, n),
           \/ row = "absent" /\ to = "queued" /\ ~asked /\ review = None
           \/ row = "queued" /\ to \in {"running", "cancelled"} /\ ~asked /\ review = None
           \/ row = "running" /\ to \in Terminal /\ review = None
    PROVE  Tale(new, to, asked, review)
<1> PICK n : LogAdds(log, new, to, n)
  OBVIOUS
<1>1. CASE row = "absent"
  BY <1>1 DEF Tale, LogAdds, Single, Precedes
<1>2. CASE row = "queued" /\ to = "running"
  BY ZenonT(40), <1>2 DEF Tale, LogAdds, Single, Precedes
<1>3. CASE row = "queued" /\ to = "cancelled"
  BY <1>3 DEF Tale, LogAdds, Single, Precedes
<1>4. CASE row = "running"
  <2>1. /\ to \in Terminal /\ log[to] = {} /\ new[to] = {n}
        /\ \A t \in EventKind \ {to} : new[t] = log[t]
        /\ \A t \in EventKind : \A m \in log[t] : m < n
    BY <1>4 DEF Tale, LogAdds
  <2>2. \A s \in Terminal : IF to = s THEN Single(new[s]) ELSE new[s] = {}
    BY <1>4, <2>1 DEF Tale, Single
  <2>3. /\ log["acknowledged"] = {}
        /\ \A s \in Terminal : Precedes(new["running"], new[s]) /\ Precedes(new["cancel_requested"], new[s])
    BY <1>4, <2>1 DEF Tale, Precedes
  <2>4. asked <=> new["cancel_requested"] # {}
    BY <1>4, <2>1 DEF Tale
  <2>5. /\ new["acknowledged"] = {} /\ review = None /\ Single(new["queued"])
        /\ \A s \in Terminal : Precedes(new[s], new["acknowledged"])
    BY <1>4, <2>1, <2>3 DEF Tale, Precedes
  <2>6. Precedes(new["queued"], new["running"]) /\ Precedes(new["running"], new["cancel_requested"])
    BY <1>4, <2>1 DEF Tale
  <2> QED
    BY <1>4, <2>1, <2>2, <2>3, <2>4, <2>5, <2>6 DEF Tale
<1> QED
  BY <1>1, <1>2, <1>3, <1>4

\* A request to cancel a running job continues its tale ...
LEMMA TaleAsked ==
    ASSUME NEW log, NEW new, NEW asked, NEW review,
           Tale(log, "running", asked, review), \E n : LogAdds(log, new, "cancel_requested", n)
    PROVE  Tale(new, "running", TRUE, review)
<1> PICK n : LogAdds(log, new, "cancel_requested", n)
  OBVIOUS
<1>1. /\ new["cancel_requested"] = log["cancel_requested"] \cup {n}
      /\ \A t \in EventKind \ {"cancel_requested"} : new[t] = log[t]
      /\ \A t \in EventKind : \A m \in log[t] : m < n
      /\ \A s \in Terminal : log[s] = {}
  BY DEF Tale, LogAdds
<1>2. /\ Precedes(new["running"], new["cancel_requested"])
      /\ \A s \in Terminal : Precedes(new["cancel_requested"], new[s])
  BY <1>1 DEF Tale, Precedes
<1> QED
  BY <1>1, <1>2 DEF Tale

\* ... and so does the review of its outcome.
LEMMA TaleReviewed ==
    ASSUME NEW log, NEW new, NEW row \in Terminal, NEW asked, NEW review \in Terminal \ {None},
           Tale(log, row, asked, None), \E n : LogAdds(log, new, "acknowledged", n)
    PROVE  Tale(new, row, asked, review)
<1> PICK n : LogAdds(log, new, "acknowledged", n)
  OBVIOUS
<1>1. /\ new["acknowledged"] = {n}
      /\ \A t \in EventKind \ {"acknowledged"} : new[t] = log[t]
      /\ \A t \in EventKind : \A m \in log[t] : m < n
  BY DEF Tale, LogAdds
<1>2. \A s \in Terminal : Precedes(new[s], new["acknowledged"])
  BY <1>1 DEF Tale, Precedes
<1>3. Single(new["acknowledged"])
  BY <1>1 DEF Single
<1> QED
  BY <1>1, <1>2, <1>3 DEF Tale

\* One event is one more entry in the tale of its job, and in no other.
LEMMA OneEvent ==
    ASSUME TypeOK, NEW j \in Jobs, NEW s \in EventKind, events' = Append(events, Event(j, s))
    PROVE  /\ \E n : LogAdds(LogOf(j), LogOf(j)', s, n)
           /\ \A k \in Jobs \ {j} : LogOf(k)' = LogOf(k)
<1>1. LogAdds(LogOf(j), LogOf(j)', s, Len(events) + 1)
  <2>1. \A t : At(j, t) \subseteq 1..Len(events) /\ Len(events) \in Nat
    BY AtType
  <2>2. \A t : \A m \in At(j, t) : m < Len(events) + 1
    BY <2>1
  <2> QED
    BY <2>2, AppendedAt DEF LogOf, LogAdds
<1> QED
  BY <1>1, AppendedAt DEF LogOf

\* An enumeration of a finite set reaches every element, once.
LEMMA Enumeration ==
    ASSUME NEW J, IsFiniteSet(J), NEW order \in SetToSeqs(J)
    PROVE  /\ Cardinality(J) \in Nat /\ order \in [1..Cardinality(J) -> J]
           /\ \A j \in J : \E n \in 1..Cardinality(J) :
                 order[n] = j /\ \A m \in 1..Cardinality(J) : order[m] = j => m = n
<1> DEFINE D == 1..Cardinality(J)
<1>1. Cardinality(J) \in Nat
  BY FS_CardinalityType
<1>2. order \in [D -> J] /\ \A m, n \in D : m # n => order[m] # order[n]
  BY DEF SetToSeqs
<1>3. IsFiniteSet(D) /\ Cardinality(D) = Cardinality(J)
  BY <1>1, FS_Interval
<1>4. order \in Injection(D, J)
  BY <1>2 DEF Injection, IsInjective
<1>5. order \in Surjection(D, J)
  BY <1>3, <1>4, FS_Injection
<1> QED
  BY <1>1, <1>2, <1>5 DEF Surjection

\* A review is one more entry in the tale of every job that it names.
LEMMA ReviewEvents ==
    ASSUME TypeOK, NEW J \in SUBSET Jobs, NEW order \in SetToSeqs(J),
           events' = events \o Acknowledgments(order)
    PROVE  /\ \A j \in J : \E n : LogAdds(LogOf(j), LogOf(j)', "acknowledged", n)
           /\ \A k \in Jobs \ J : LogOf(k)' = LogOf(k)
<1> DEFINE L == Len(events)
           C == Cardinality(J)
<1>1. events \in Seq(EventRecord) /\ L \in Nat /\ DOMAIN events = 1..L
  BY DEF TypeOK, EventRecord
<1>2. /\ C \in Nat /\ order \in [1..C -> J]
      /\ \A j \in J : \E n \in 1..C : order[n] = j /\ \A m \in 1..C : order[m] = j => m = n
  BY JobsAssumption, FS_Subset, Enumeration
<1>3. Acknowledgments(order) \in Seq(EventRecord) /\ Len(Acknowledgments(order)) = C
  <2>1. Acknowledgments(order) \in [1..C -> EventRecord]
    BY <1>2 DEF Acknowledgments, Event, EventRecord
  <2> QED
    BY <1>2, <2>1, SegmentIsSeq
<1>4. \A n \in 1..C : Acknowledgments(order)[n] = Event(order[n], "acknowledged")
  BY <1>2 DEF Acknowledgments
<1>5. /\ DOMAIN events' = 1..(L + C)
      /\ \A n \in 1..L : events'[n] = events[n]
      /\ \A n \in 1..C : events'[L + n] = Event(order[n], "acknowledged")
  BY SMTT(30), <1>1, <1>2, <1>3, <1>4
<1>6. \A m : m \in 1..(L + C) <=> m \in 1..L \/ \E n \in 1..C : m = L + n
  <2>1. \A m \in 1..(L + C) : m \notin 1..L => m - L \in 1..C /\ m = L + (m - L)
    BY <1>1, <1>2
  <2> QED
    BY <1>1, <1>2, <2>1
<1> HIDE DEF L, C
<1>7. /\ \A j, t : At(j, t) = {m \in 1..L : events[m].job = j /\ events[m].state = t}
      /\ \A j, t : At(j, t)' = {m \in 1..(L + C) : events'[m].job = j /\ events'[m].state = t}
  BY <1>1, <1>5 DEF At, EventsOf
<1>11. \A n \in 1..C : events'[L + n].job = order[n] /\ events'[L + n].state = "acknowledged"
  <2> TAKE n \in 1..C
  <2>1. events'[L + n] = Event(order[n], "acknowledged")
    BY <1>5
  <2> QED
    BY <2>1 DEF Event
<1>8. \A j, t : \A m \in At(j, t) : m \in 1..L
  BY <1>1 DEF At, EventsOf
<1>9. ASSUME NEW k \in Jobs \ J PROVE LogOf(k)' = LogOf(k)
  <2>1. \A t : At(k, t)' = At(k, t)
    <3> TAKE t
    <3>1. \A m \in 1..L : events'[m].job = events[m].job /\ events'[m].state = events[m].state
      BY <1>5
    <3>2. \A n \in 1..C : events'[L + n].job # k
      BY <1>2, <1>11
    <3>3. \A m \in 1..(L + C) : events'[m].job = k => m \in 1..L
      BY <1>6, <3>2
    <3> QED
      BY <1>6, <1>7, <3>1, <3>3
  <2> QED
    BY <2>1 DEF LogOf
<1>10. ASSUME NEW j \in J PROVE \E n : LogAdds(LogOf(j), LogOf(j)', "acknowledged", n)
  <2>1. PICK n \in 1..C : order[n] = j /\ \A m \in 1..C : order[m] = j => m = n
    BY <1>2
  <2>2. \A t : At(j, t)' = IF t = "acknowledged" THEN At(j, t) \cup {L + n} ELSE At(j, t)
    <3> TAKE t
    <3>1. \A m \in 1..L : events'[m].job = events[m].job /\ events'[m].state = events[m].state
      BY <1>5
    <3>2. \A m \in 1..(L + C) : events'[m].job = j => m \in 1..L \/ m = L + n
      <4>1. \A i \in 1..C : events'[L + i].job = j => i = n
        BY <1>11, <2>1
      <4> QED
        BY <1>6, <4>1
    <3>3. L + n \in 1..(L + C) /\ events'[L + n].job = j /\ events'[L + n].state = "acknowledged"
      BY <1>6, <1>11, <2>1
    <3> QED
      BY <1>6, <1>7, <3>1, <3>2, <3>3
  <2>3. \A t : \A m \in At(j, t) : m < L + n
    BY <1>1, <1>2, <1>8, <2>1
  <2> QED
    BY <2>2, <2>3 DEF LogOf, LogAdds
<1> QED
  BY <1>9, <1>10

\* All the outcomes of a job are those of one of the final states.
LEMMA OutcomesAre ==
    ASSUME NEW j, \A s \in Terminal : s # state[j] => At(j, s) = {}
    PROVE  Outcomes(j) = IF state[j] \in Terminal THEN At(j, state[j]) ELSE {}
BY DEF Outcomes, At

\* The tale of every job is what HistoryAgrees says, in counts of events.
LEMMA StoryIsHistory == TypeOK /\ StoryInv => HistoryAgrees
<1> SUFFICES ASSUME TypeOK, StoryInv, NEW j \in Jobs PROVE HistoryAgrees!(j)
  BY DEF HistoryAgrees
<1>1. Tale(LogOf(j), state[j], cancelRequested[j], acked[j])
  BY DEF StoryInv
<1>2. \A s : /\ At(j, s) = {} => CountOf(j, s) = 0
             /\ Single(At(j, s)) => CountOf(j, s) = 1
  BY FS_EmptySet, FS_Singleton DEF CountOf, Single
<1>3. Outcomes(j) = IF state[j] \in Terminal THEN At(j, state[j]) ELSE {}
  BY <1>1, OutcomesAre DEF Tale, LogOf
<1>4. Cardinality(Outcomes(j)) = (IF state[j] \in Terminal THEN 1 ELSE 0)
  <2>1. CASE state[j] \in Terminal
    <3>1. Single(At(j, state[j]))
      BY <1>1, <2>1 DEF Tale, LogOf
    <3> QED
      BY <1>3, <2>1, <3>1, FS_Singleton DEF Single
  <2>2. CASE state[j] \notin Terminal
    BY <1>3, <2>2, FS_EmptySet
  <2> QED
    BY <2>1, <2>2
<1>5. /\ Precedes(At(j, "running"), At(j, "cancel_requested") \cup Outcomes(j))
      /\ Precedes(At(j, "cancel_requested"), Outcomes(j))
      /\ Precedes(Outcomes(j), At(j, "acknowledged"))
  BY <1>1, <1>3 DEF Tale, LogOf, Precedes
<1> QED
  BY <1>1, <1>2, <1>3, <1>4, <1>5 DEF Tale, LogOf

\* Every step keeps the log and the rows in agreement.
LEMMA StoryStep ==
    ASSUME QueueInv, NeverReplayed, ReviewInv, StoryInv, [Next]_vars
    PROVE  StoryInv'
<1>0. TypeOK
  BY DEF QueueInv
<1>1. CASE UNCHANGED Rows
  <2>1. \A k \in Jobs : LogOf(k)' = LogOf(k)
    BY <1>1 DEF Rows, LogOf, At, EventsOf
  <2> QED
    BY <1>1, <2>1 DEF Rows, StoryInv
<1>2. ASSUME NEW j \in Jobs, NEW from, NEW to \in EventKind, Moves(j, from, to),
             \/ from = "absent" /\ to = "queued"
             \/ from = "queued" /\ to \in {"running", "cancelled"}
             \/ from = "running" /\ to \in Terminal
      PROVE  StoryInv'
  <2>1. /\ \E n : LogAdds(LogOf(j), LogOf(j)', to, n)
        /\ \A k \in Jobs \ {j} : LogOf(k)' = LogOf(k)
    BY <1>0, <1>2, OneEvent DEF Moves, Record
  <2>2. /\ state[j] = from /\ state'[j] = to /\ UNCHANGED <<acked, cancelRequested>>
        /\ \A k \in Jobs \ {j} : state'[k] = state[k]
    BY <1>0, <1>2 DEF Moves, Record, TypeOK
  <2>3. Tale(LogOf(j), from, cancelRequested[j], acked[j]) /\ cancelRequested[j] \in BOOLEAN
    BY <1>0, <2>2 DEF StoryInv, TypeOK
  <2>4. acked[j] = None /\ (from # "running" => ~cancelRequested[j])
    BY <1>2, <2>2 DEF NeverReplayed, ReviewInv
  <2>5. Tale(LogOf(j)', to, cancelRequested[j], acked[j])
    BY <1>2, <2>1, <2>3, <2>4, TaleMoves
  <2> QED
    BY <2>1, <2>2, <2>5 DEF StoryInv
<1>3. CASE TableMove
  BY <1>2, <1>3 DEF TableMove
<1>4. ASSUME NEW j \in Jobs, CancelRunning(j) PROVE StoryInv'
  <2>1. /\ \E n : LogAdds(LogOf(j), LogOf(j)', "cancel_requested", n)
        /\ \A k \in Jobs \ {j} : LogOf(k)' = LogOf(k)
    BY <1>0, <1>4, OneEvent DEF CancelRunning
  <2>2. /\ state[j] = "running" /\ UNCHANGED <<state, acked>> /\ cancelRequested'[j] = TRUE
        /\ \A k \in Jobs \ {j} : cancelRequested'[k] = cancelRequested[k]
    BY <1>0, <1>4 DEF CancelRunning, TypeOK
  <2>3. Tale(LogOf(j)', "running", TRUE, acked[j])
    BY <2>1, <2>2, TaleAsked DEF StoryInv
  <2>4. Tale(LogOf(j)', state'[j], cancelRequested'[j], acked'[j])
    BY Zenon, <2>2, <2>3
  <2>5. ASSUME NEW k \in Jobs \ {j} PROVE Tale(LogOf(k)', state'[k], cancelRequested'[k], acked'[k])
    BY Zenon, <2>1, <2>2 DEF StoryInv
  <2> QED
    BY Zenon, <2>4, <2>5 DEF StoryInv
<1>5. ASSUME NEW J \in SUBSET Unreviewed, Acknowledge(J) PROVE StoryInv'
  <2>1. J \in SUBSET Jobs /\ \A j \in J : state[j] \in Attention /\ acked[j] = None
    BY <1>0 DEF Unreviewed, ReviewInv, TypeOK
  <2>2. /\ \A j \in J : \E n : LogAdds(LogOf(j), LogOf(j)', "acknowledged", n)
        /\ \A k \in Jobs \ J : LogOf(k)' = LogOf(k)
    BY <1>0, <1>5, <2>1, ReviewEvents DEF Acknowledge
  <2>3. /\ UNCHANGED <<state, cancelRequested>>
        /\ \A j \in J : acked'[j] = state[j]
        /\ \A k \in Jobs \ J : acked'[k] = acked[k]
    BY <1>5, <2>1 DEF Acknowledge
  <2>4. ASSUME NEW j \in J PROVE Tale(LogOf(j)', state[j], cancelRequested[j], state[j])
    <3>1. Tale(LogOf(j), state[j], cancelRequested[j], None)
      BY <2>1 DEF StoryInv
    <3>2. state[j] \in Terminal \ {None}
      BY <2>1, OutcomeAssumption
    <3> QED
      BY <2>2, <3>1, <3>2, TaleReviewed
  <2> QED
    BY <2>1, <2>2, <2>3, <2>4 DEF StoryInv
<1> QED
  BY <1>1, <1>3, <1>4, <1>5, TableStep

-----------------------------------------------------------------------------
(* What the readers rely on.                                               *)

\* All of it, with the invariant of the service that keeps it.
HistoryInv == ServiceInv /\ ReviewInv /\ StoryInv

\* Every step keeps it ...
LEMMA HistoryInvStep == HistoryInv /\ [Next]_vars => HistoryInv'
BY ServiceInvStep, ReviewStep, StoryStep DEF HistoryInv, ServiceInv

\* ... and an empty queue has no history.
LEMMA HistoryInvInit == Init => HistoryInv
<1> SUFFICES ASSUME Init PROVE HistoryInv
  OBVIOUS
<1>1. ServiceInv /\ ReviewInv
  BY ServiceInvInit DEF Init, ReviewInv
<1>2. StoryInv
  <2>1. \A j \in Jobs : \A s \in EventKind : LogOf(j)[s] = {}
    BY DEF Init, LogOf, At, EventsOf
  <2>2. \A j \in Jobs : Tale(LogOf(j), "absent", FALSE, None)
    BY <2>1 DEF Tale, Precedes
  <2> QED
    BY <2>2 DEF Init, StoryInv
<1> QED
  BY <1>1, <1>2 DEF HistoryInv

\* The event log tells of every job the same story as its row: each phase logged
\* once, in order, for any number of jobs and events.
THEOREM LogTellsTheStory == Spec => []HistoryAgrees
<1>1. HistoryInv => HistoryAgrees
  BY StoryIsHistory DEF HistoryInv, ServiceInv, QueueInv
<1> QED
  BY <1>1, HistoryInvInit, HistoryInvStep, PTL DEF Spec

\* The queue with its workers, crashes and recovery implements the abstract queue.
THEOREM QueueImplementsContract == Spec => ImplementsContract
<1>1. Init => Contract!ContractInit
  BY DEF Init, Contract!ContractInit
<1>2. HistoryInv /\ [Next]_vars => [Contract!ContractNext]_(Contract!contractVars)
  BY ContractStep DEF HistoryInv, ServiceInv
<1> QED
  BY <1>1, <1>2, HistoryInvInit, HistoryInvStep, PTL DEF Spec, ImplementsContract, Contract!ContractSpec
=============================================================================
