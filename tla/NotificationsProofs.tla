------------------------- MODULE NotificationsProofs -------------------------
(***************************************************************************)
(* What Notifications keeps for any conditions, bounds, page limit and      *)
(* backups: a check of a disabled timer is not under way, repeated posts    *)
(* are excused, nothing behind the cursor was dropped, and history is not   *)
(* posted.  The lock leaves one process at a time with anything to say; what *)
(* it relies on survives the jobs, the conditions and the queue that change *)
(* under it.                                                                *)
(***************************************************************************)
EXTENDS Notifications, FiniteSetTheorems, TLAPS

-----------------------------------------------------------------------------
(* The inductive invariant.                                                *)

Working == {"position", "query", "rows", "health", "alerts", "done"} \cup DOMAIN AfterSave

\* Only the holder of the lock is at work.
Holder(p, at) == lock = p <=> at # "idle"

\* A process has read what its steps so far read.
Control(at, m) ==
    /\ at \notin Working => m = Blank
    /\ at \in Working => m.state \in StateFile
    /\ at \in {"query", "rows", "row"} => m.position \in Cursor
    /\ m.skip \subseteq 1..born /\ m.todo \subseteq Conditions
    /\ m.skip # {} => at \in {"first", "reset", "configured"}
    /\ at = "config" => config < MaxConfigs
    /\ at \in {"cursor"} \cup Working => config >= 1
    /\ at \in Working \ {"first", "configured"} => saved # None

\* A job is in the log once, under a number that was given out.
LogInv ==
    /\ Len(log) <= born
    /\ \A n \in 1..Len(log) : log[n] <= born
    /\ \A n, k \in 1..Len(log) : log[n] = log[k] => n = k
    /\ failures \subseteq 1..born /\ settled \subseteq 1..born
    /\ \A f \in Facts : f > born => posted[f] = 0

\* A cursor was set in a queue that existed, and not behind its end.
Placed(cursor) ==
    /\ cursor.identity = None => cursor.sequence = 0
    /\ cursor.identity # None => cursor.identity <= born
    /\ replaced # "own" /\ log = <<>> => cursor.identity = None
    /\ replaced # "own" /\ log # <<>> /\ log[1] = cursor.identity => cursor.sequence <= Len(log)

\* What is not to be posted again is not ahead of the cursor.
Ahead(f, sequence) == \E n \in 1..Len(log) : n > sequence /\ log[n] = f

Repeated(f) == posted[f] > faults

AllBehind(sequence, skip) ==
    \A f \in Facts : Repeated(f) \/ f \in settled \cup skip => ~Ahead(f, sequence)

\* What is behind the cursor was posted, or is history.
Told(cursor, skip) ==
    replaced # "own" /\ SameQueue(cursor) =>
        \A n \in 1..cursor.sequence :
            log[n] \in failures => posted[log[n]] > 0 \/ log[n] \in settled \cup skip

\* The cursor that is still to be read up to is of the same queue.
SameAsRead(m) ==
    /\ m.position.identity # None
    /\ m.state.queue.identity \in {None, m.position.identity}

InOrder(m) ==
    \A row \in m.rows :
        /\ row.job <= born /\ row.job \notin settled /\ ~Repeated(row.job)
        /\ m.state.queue.sequence < row.seq /\ row.seq <= m.position.sequence
        /\ \A n \in 1..Len(log) : log[n] = row.job => n = row.seq
        /\ \A other \in m.rows : other.seq = row.seq <=> other.job = row.job

\* The rows are what is new up to there, or the first of it.
WholePage(m) ==
    replaced # "own" /\ log # <<>> /\ log[1] = m.position.identity =>
        /\ \A row \in m.rows : row.seq <= Len(log) /\ log[row.seq] = row.job
        /\ \A n \in 1..Len(log) :
              n > m.state.queue.sequence /\ n <= m.position.sequence /\ log[n] \in failures =>
                  \/ [seq |-> n, job |-> log[n]] \in m.rows
                  \/ m.full /\ \A row \in m.rows : row.seq < n

Cursors(at, m) ==
    /\ at \in Working => /\ Placed(m.state.queue)
                         /\ AllBehind(m.state.queue.sequence, m.skip)
                         /\ Told(m.state.queue, m.skip)
    /\ at \in {"query", "rows", "row"} => Placed(m.position) /\ SameAsRead(m)
    /\ at = "query" => m.state.queue.sequence <= m.position.sequence
    /\ at \in {"rows", "row"} => m.state.queue.sequence <= m.position.sequence /\ InOrder(m) /\ WholePage(m)

SavedInv ==
    /\ saved = None => settled = {} /\ \A f \in Facts : posted[f] = 0
    /\ saved # None =>
          /\ Placed(saved.queue)
          /\ Told(saved.queue, {})
          /\ \A f \in settled : ~Ahead(f, saved.queue.sequence)
          /\ (\A p \in Procs : pc[p] # "row") =>
                \A f \in Facts : Repeated(f) => ~Ahead(f, saved.queue.sequence)

\* A condition that the endpoint may be told of once more.
Due(c) == alerts[c] + 2 <= rises[c] + faults + config

AlertInv ==
    /\ \A c \in active : rises[c] >= 1
    /\ \A c \in Conditions : alerts[c] > 0 => config >= 1 /\ alerts[c] + 1 <= rises[c] + faults + config
    /\ saved = None => \A c \in Conditions : alerts[c] = 0
    /\ saved # None => /\ config >= 1
                       /\ (\A p \in Procs : pc[p] # "alert") => \A c \in active \ saved.health : Due(c)

Reports(at, m) ==
    /\ at = "cursor" => \A c \in active : Due(c)
    /\ at \in Working => \A c \in active \ m.state.health : Due(c)
    /\ \A c \in m.todo : Due(c)

NotifyInv ==
    /\ TypeOK /\ LogInv /\ SavedInv /\ AlertInv /\ QuietWhenDisabled
    /\ \A f \in Facts : posted[f] <= 1 + faults
    /\ \A p \in Procs : Holder(p, pc[p]) /\ Control(pc[p], my[p]) /\ Cursors(pc[p], my[p]) /\ Reports(pc[p], my[p])
-----------------------------------------------------------------------------
(* The pieces.                                                             *)

\* The bounds are numbers, and None is none of what is written in files.
LEMMA Numbers ==
    /\ MaxEvents \in Nat /\ MaxConfigs \in Nat /\ MaxRises \in Nat /\ MaxFaults \in Nat
    /\ Limit \in Nat /\ Limit >= 1
    /\ Service # Hand /\ None \notin Procs /\ None \notin Facts /\ None \notin StateFile
BY LimitAssumption, BoundAssumption, ProcsAssumption, NoneAssumption

\* The labels, spelled out.
LEMMA Labels ==
    /\ DOMAIN AfterSave = {"first", "reset", "row", "tail", "known", "alert", "configured"}
    /\ Label = {"idle", "load", "position", "query", "rows", "health", "alerts", "config", "cursor", "done",
                "first", "reset", "row", "tail", "known", "alert", "configured"}
    /\ Working = {"position", "query", "rows", "health", "alerts", "done",
                  "first", "reset", "row", "tail", "known", "alert", "configured"}
BY DEF AfterSave, Label, Working

\* Nothing is in the locals of a process that did not start.
LEMMA BlankIsLocal == Blank \in Local
BY DEF Blank, Local

\* What a process relies on: its place in the protocol, the queue, the conditions.
Process(p, at, m) == Holder(p, at) /\ Control(at, m) /\ Cursors(at, m) /\ Reports(at, m)

\* A process that is idle, or about to load or to write its file, relies on nothing in them.
LEMMA NothingRead ==
    ASSUME NEW at \in {"idle", "load", "config"}, at = "config" => config < MaxConfigs
    PROVE  Control(at, Blank) /\ Cursors(at, Blank) /\ Reports(at, Blank)
BY Labels DEF Control, Cursors, Reports, Blank

\* The first entry of the log names the queue.
LEMMA PositionIs ==
    ASSUME log \in Seq(Facts), Len(log) <= MaxEvents
    PROVE  /\ Position \in Cursor /\ Position.sequence = Len(log)
           /\ log = <<>> => Position.identity = None
           /\ log # <<>> => Position.identity = log[1] /\ log[1] \in Facts /\ Len(log) >= 1
<1>1. log # <<>> => Head(log) = log[1] /\ log[1] \in Facts /\ Len(log) >= 1
  OBVIOUS
<1>2. Len(log) \in 0..MaxEvents
  BY Numbers
<1> QED
  BY <1>1, <1>2 DEF Position, Cursor

\* A cursor at the end of the queue is placed, has nothing ahead, and all behind it is history.
LEMMA PositionHolds ==
    ASSUME NotifyInv, NEW skip, skip = ToSet(log)
    PROVE  Position \in Cursor /\ Placed(Position) /\ AllBehind(Position.sequence, skip) /\ Told(Position, skip)
<1>1. log \in Seq(Facts) /\ Len(log) <= MaxEvents /\ Len(log) \in Nat /\ \A n \in 1..Len(log) : log[n] <= born
  BY DEF NotifyInv, TypeOK, LogInv
<1>2. Placed(Position)
  BY <1>1, PositionIs, Numbers DEF Placed
<1>3. AllBehind(Position.sequence, skip)
  BY <1>1, PositionIs DEF AllBehind, Ahead
<1>4. Told(Position, skip)
  BY <1>1, PositionIs DEF Told, ToSet
<1> QED
  BY <1>1, <1>2, <1>3, <1>4, PositionIs

-----------------------------------------------------------------------------
(* The queue changes.                                                      *)

\* A job is added, or the queue is cut back or replaced.
Changes ==
    /\ born \in Nat /\ born' \in {born, born + 1}
    /\ log \in Seq(Facts) /\ log' \in Seq(Facts)
    /\ \A n \in 1..Len(log') : \/ n <= Len(log) /\ log'[n] = log[n]
                               \/ n = Len(log') /\ log'[n] = born + 1 /\ born' = born + 1
    /\ replaced' # "own" => /\ replaced # "own" /\ log' # <<>>
                            /\ \/ log'[1] = born + 1
                               \/ /\ log # <<>> /\ Len(log) <= Len(log') /\ log'[1] = log[1]
                                  /\ \A n \in 1..Len(log) : log'[n] = log[n]
    /\ failures' \subseteq failures \cup {born + 1}
    /\ UNCHANGED <<config, saved, timer, lock, pc, my, webhook, settled, faults>>

\* A cursor stays placed.
LEMMA PlacedStays ==
    ASSUME Changes, NEW cursor \in Cursor, Placed(cursor)
    PROVE  Placed(cursor)'
<1>1. /\ cursor.sequence \in Nat
      /\ cursor.identity # None => cursor.identity <= born /\ cursor.identity \in Nat
      /\ cursor.identity = None => cursor.sequence = 0
  BY Numbers DEF Placed, Cursor, Facts
<1>2. cursor.identity # None => cursor.identity <= born' /\ cursor.identity # born + 1
  BY <1>1 DEF Changes
<1>3. ASSUME replaced' # "own" PROVE log' # <<>> /\ (log'[1] = cursor.identity => cursor.sequence <= Len(log'))
  <2>1. log' # <<>> /\ Len(log) \in Nat /\ Len(log') \in Nat /\ replaced # "own"
    BY <1>3 DEF Changes
  <2>2. CASE log'[1] = born + 1
    <3>1. log'[1] = cursor.identity => cursor.identity = None
      BY <1>2, <2>2
    <3> QED
      BY <1>1, <2>1, <3>1
  <2>3. CASE log # <<>> /\ Len(log) <= Len(log') /\ log'[1] = log[1]
    BY <1>1, <2>1, <2>3 DEF Placed
  <2> QED
    BY <1>3, <2>1, <2>2, <2>3 DEF Changes
<1> QED
  BY <1>1, <1>2, <1>3 DEF Placed

\* What a cursor is told about stays true.
LEMMA ToldStays ==
    ASSUME Changes, NEW cursor \in Cursor, NEW skip, Placed(cursor), Told(cursor, skip), LogInv,
           Len(log) <= MaxEvents, Len(log') <= MaxEvents
    PROVE  Told(cursor, skip)'
<1> SUFFICES ASSUME replaced' # "own", SameQueue(cursor)', NEW n \in 1..cursor.sequence, log'[n] \in failures'
             PROVE  posted'[log'[n]] > 0 \/ log'[n] \in settled' \cup skip
  BY DEF Told
<1>1. /\ cursor.sequence \in Nat /\ n \in Nat /\ n >= 1 /\ cursor.sequence >= 1
      /\ cursor.identity # None /\ cursor.identity <= born /\ cursor.identity \in Nat
  BY Numbers DEF Placed, Cursor, Facts
<1>2. /\ replaced # "own" /\ log' # <<>> /\ Len(log) \in Nat /\ Len(log') \in Nat /\ born \in Nat
  BY DEF Changes
<1>3. Position'.sequence = Len(log') /\ Position'.identity = log'[1]
  BY <1>2, PositionIs DEF Changes, Position
<1>4. log'[1] = cursor.identity /\ log'[1] # born + 1
  BY <1>1, <1>2, <1>3 DEF SameQueue
<1>5. log # <<>> /\ Len(log) <= Len(log') /\ log'[1] = log[1] /\ \A k \in 1..Len(log) : log'[k] = log[k]
  BY <1>4 DEF Changes
<1>6. cursor.sequence <= Len(log)
  BY <1>2, <1>4, <1>5 DEF Placed
<1>7. SameQueue(cursor)
  BY <1>1, <1>4, <1>5, <1>6, PositionIs DEF SameQueue, Changes
<1>8. n \in 1..Len(log) /\ log'[n] = log[n] /\ log[n] \in Facts
  BY <1>1, <1>2, <1>5, <1>6 DEF Changes
<1>9. log[n] \in failures
  BY <1>2, <1>8 DEF Changes, LogInv, Facts
<1> QED
  BY <1>2, <1>7, <1>8, <1>9 DEF Told, Changes, webhook

\* Nothing that was settled or repeated comes before a cursor again.
LEMMA BehindStays ==
    ASSUME Changes, LogInv, born' <= MaxEvents, faults \in Nat, NEW sequence \in Nat, NEW f \in Facts,
           f <= born, ~Ahead(f, sequence)
    PROVE  ~Ahead(f, sequence)'
<1> SUFFICES ASSUME NEW n \in 1..Len(log'), n > sequence, log'[n] = f
             PROVE  FALSE
  BY DEF Ahead
<1>1. n <= Len(log) /\ log'[n] = log[n]
  BY DEF Changes, Facts
<1> QED
  BY <1>1 DEF Ahead, Changes

\* Whom a cursor must have behind it is a job that there was.
LEMMA AllBehindStays ==
    ASSUME Changes, LogInv, born' <= MaxEvents, faults \in Nat, NEW sequence \in Nat, NEW skip, skip \subseteq 1..born,
           AllBehind(sequence, skip)
    PROVE  AllBehind(sequence, skip)'
<1> SUFFICES ASSUME NEW f \in Facts, (Repeated(f) \/ f \in settled \cup skip)'
             PROVE  ~Ahead(f, sequence)'
  BY DEF AllBehind
<1>1. Repeated(f) \/ f \in settled \cup skip
  BY DEF Changes, Repeated, webhook
<1>2. f <= born
  <2>1. f > born => posted[f] = 0
    BY DEF LogInv
  <2> QED
    BY <1>1, <2>1 DEF Repeated, LogInv, Changes, Facts
<1> QED
  BY <1>1, <1>2, BehindStays DEF AllBehind

\* The rows that a check holds stay in order.
LEMMA InOrderStays ==
    ASSUME Changes, NEW m \in Local, InOrder(m)
    PROVE  InOrder(m)'
<1> SUFFICES ASSUME NEW row \in m.rows
             PROVE  /\ row.job <= born' /\ row.job \notin settled' /\ ~Repeated(row.job)'
                    /\ \A n \in 1..Len(log') : log'[n] = row.job => n = row.seq
  BY DEF InOrder
<1>1. /\ row.job <= born /\ row.job \notin settled /\ ~Repeated(row.job)
      /\ \A n \in 1..Len(log) : log[n] = row.job => n = row.seq
  BY DEF InOrder
<1>2. row.job \in Nat
  BY DEF Local, Facts
<1>3. row.job # born + 1 /\ row.job <= born'
  BY <1>1, <1>2 DEF Changes
<1>4. ASSUME NEW n \in 1..Len(log'), log'[n] = row.job PROVE n = row.seq
  BY <1>1, <1>3, <1>4 DEF Changes
<1> QED
  BY <1>1, <1>3, <1>4 DEF Changes, Repeated, webhook

\* The page stays whole, or its queue is gone.
LEMMA WholePageStays ==
    ASSUME Changes, LogInv, NEW m \in Local, m.position \in Cursor, SameAsRead(m), Placed(m.position), WholePage(m)
    PROVE  WholePage(m)'
<1> SUFFICES ASSUME replaced' # "own", log' # <<>>, log'[1] = m.position.identity
             PROVE  /\ \A row \in m.rows : row.seq <= Len(log') /\ log'[row.seq] = row.job
                    /\ \A n \in 1..Len(log') :
                          n > m.state.queue.sequence /\ n <= m.position.sequence /\ log'[n] \in failures' =>
                              \/ [seq |-> n, job |-> log'[n]] \in m.rows
                              \/ m.full /\ \A row \in m.rows : row.seq < n
  BY DEF WholePage
<1>1. m.position.identity # None /\ m.position.identity <= born /\ m.position.identity \in Nat
      /\ m.position.sequence \in Nat
  BY Numbers DEF SameAsRead, Placed, Cursor, Facts
<1>2. replaced # "own" /\ born \in Nat /\ Len(log) \in Nat /\ Len(log') \in Nat /\ log'[1] # born + 1
  BY <1>1 DEF Changes
<1>3. log # <<>> /\ Len(log) <= Len(log') /\ log'[1] = log[1] /\ \A n \in 1..Len(log) : log'[n] = log[n]
  BY <1>2 DEF Changes
<1>4. m.position.sequence <= Len(log)
  BY <1>2, <1>3 DEF Placed
<1>5. /\ \A row \in m.rows : row.seq <= Len(log) /\ log[row.seq] = row.job
      /\ \A n \in 1..Len(log) :
            n > m.state.queue.sequence /\ n <= m.position.sequence /\ log[n] \in failures =>
                \/ [seq |-> n, job |-> log[n]] \in m.rows
                \/ m.full /\ \A row \in m.rows : row.seq < n
  BY <1>2, <1>3 DEF WholePage
<1>6. ASSUME NEW row \in m.rows PROVE row.seq <= Len(log') /\ log'[row.seq] = row.job
  <2>1. row.seq \in Nat /\ row.seq >= 1
    BY Numbers DEF Local
  <2> QED
    BY <1>2, <1>3, <1>5, <2>1
<1>7. ASSUME NEW n \in 1..Len(log'), n > m.state.queue.sequence, n <= m.position.sequence, log'[n] \in failures'
      PROVE  \/ [seq |-> n, job |-> log'[n]] \in m.rows
             \/ m.full /\ \A row \in m.rows : row.seq < n
  <2>1. n \in 1..Len(log) /\ log'[n] = log[n]
    BY <1>1, <1>2, <1>3, <1>4, <1>7
  <2>2. log[n] <= born /\ log[n] \in Nat
    <3>1. log \in Seq(Facts)
      BY DEF Changes
    <3> QED
      BY <2>1, <3>1, Numbers DEF LogInv, Facts
  <2>3. log[n] \in failures
    BY <1>2, <1>7, <2>1, <2>2 DEF Changes
  <2> QED
    BY <1>5, <1>7, <2>1, <2>3
<1> QED
  BY <1>6, <1>7

\* What a process relies on survives a change of the queue.
LEMMA ProcessStays ==
    ASSUME Changes, LogInv, born' <= MaxEvents, faults \in Nat, Len(log) <= MaxEvents, Len(log') <= MaxEvents,
           UNCHANGED health, NEW p, NEW at \in Label, NEW m \in Local, Process(p, at, m)
    PROVE  Process(p, at, m)'
<1>1. born \in Nat /\ born <= born'
  BY DEF Changes
<1>2. Holder(p, at)' /\ Control(at, m)'
  BY <1>1 DEF Process, Holder, Control, Changes
<1>3. Reports(at, m)'
  BY DEF Process, Reports, Due, Changes, health, webhook
<1>4. ASSUME at \in Working
      PROVE  (Placed(m.state.queue) /\ AllBehind(m.state.queue.sequence, m.skip) /\ Told(m.state.queue, m.skip))'
  <2>1. m.state.queue \in Cursor /\ m.state.queue.sequence \in Nat /\ m.skip \subseteq 1..born
    BY <1>4, Numbers DEF Process, Holder, Control, StateFile, Cursor
  <2>2. Placed(m.state.queue) /\ AllBehind(m.state.queue.sequence, m.skip) /\ Told(m.state.queue, m.skip)
    BY <1>4 DEF Process, Cursors
  <2>3. Placed(m.state.queue)' /\ Told(m.state.queue, m.skip)'
    BY <2>1, <2>2, PlacedStays, ToldStays
  <2> QED
    BY <2>1, <2>2, <2>3, AllBehindStays
<1>5. ASSUME at \in {"query", "rows", "row"} PROVE (Placed(m.position) /\ SameAsRead(m))'
  BY <1>5, PlacedStays DEF Process, Holder, Control, Cursors, SameAsRead
<1>6. ASSUME at \in {"rows", "row"}
      PROVE  (m.state.queue.sequence <= m.position.sequence /\ InOrder(m) /\ WholePage(m))'
  BY <1>6, InOrderStays, WholePageStays DEF Process, Holder, Control, Cursors
<1>7. at = "query" => m.state.queue.sequence <= m.position.sequence
  BY DEF Process, Cursors
<1>8. Cursors(at, m)'
  BY <1>4, <1>5, <1>6, <1>7 DEF Cursors
<1> QED
  BY <1>2, <1>3, <1>8 DEF Process

\* A change of the queue keeps everything.
LEMMA ChangesHold ==
    ASSUME NotifyInv, Changes, UNCHANGED health, TypeOK', LogInv'
    PROVE  NotifyInv'
<1>1. /\ LogInv /\ born' <= MaxEvents /\ faults \in Nat /\ Len(log) <= MaxEvents /\ Len(log') <= MaxEvents
      /\ pc \in [Procs -> Label] /\ my \in [Procs -> Local]
  BY Numbers DEF NotifyInv, TypeOK
<1>2. ASSUME NEW p \in Procs PROVE Process(p, pc[p], my[p])'
  <2>1. Process(p, pc[p], my[p]) /\ pc'[p] = pc[p] /\ my'[p] = my[p] /\ pc[p] \in Label /\ my[p] \in Local
    BY <1>1 DEF NotifyInv, Process, Changes
  <2>2. \A at \in Label, m \in Local : Process(p, at, m) => Process(p, at, m)'
    BY <1>1, ProcessStays
  <2> QED
    BY <2>1, <2>2
<1>3. SavedInv'
  <2>0. saved' = saved /\ settled' = settled /\ posted' = posted /\ pc' = pc /\ faults' = faults
    BY DEF Changes, webhook
  <2>1. saved = None => settled = {} /\ \A f \in Facts : posted[f] = 0
    BY DEF NotifyInv, SavedInv
  <2>2. ASSUME saved # None
        PROVE  /\ Placed(saved.queue)' /\ Told(saved.queue, {})'
               /\ \A f \in settled : ~Ahead(f, saved.queue.sequence)'
               /\ (\A p \in Procs : pc[p] # "row") =>
                     \A f \in Facts : Repeated(f) => ~Ahead(f, saved.queue.sequence)'
    <3>1. saved.queue \in Cursor /\ saved.queue.sequence \in Nat
      BY <2>2, Numbers DEF NotifyInv, TypeOK, StateFile, Cursor
    <3>2. /\ Placed(saved.queue) /\ Told(saved.queue, {})
          /\ \A f \in settled : ~Ahead(f, saved.queue.sequence)
          /\ (\A p \in Procs : pc[p] # "row") =>
                \A f \in Facts : Repeated(f) => ~Ahead(f, saved.queue.sequence)
      BY <2>2 DEF NotifyInv, SavedInv
    <3>3. Placed(saved.queue)' /\ Told(saved.queue, {})'
      <4>1. \A c \in Cursor : Placed(c) /\ Told(c, {}) => Placed(c)' /\ Told(c, {})'
        BY <1>1, PlacedStays, ToldStays
      <4> QED
        BY <2>0, <3>1, <3>2, <4>1
    <3>4. \A n \in Nat, f \in Facts : f <= born /\ ~Ahead(f, n) => ~Ahead(f, n)'
      BY <1>1, BehindStays
    <3>5. \A f \in Facts : Repeated(f) => f <= born
      BY <1>1 DEF LogInv, Repeated, Changes, Facts
    <3>6. \A f \in settled : f \in Facts /\ f <= born
      BY <1>1 DEF LogInv, NotifyInv, TypeOK, Facts
    <3> QED
      BY <2>0, <3>1, <3>2, <3>3, <3>4, <3>5, <3>6
  <2> QED
    BY <2>0, <2>1, <2>2 DEF SavedInv, Repeated
<1>4. AlertInv' /\ QuietWhenDisabled' /\ \A f \in Facts : posted'[f] <= 1 + faults'
  BY DEF NotifyInv, AlertInv, QuietWhenDisabled, Changes, webhook, health, Due
<1> QED
  BY <1>2, <1>3, <1>4 DEF NotifyInv, Process

-----------------------------------------------------------------------------
(* The queue, the conditions and the timer change under the processes.     *)

\* A job is added to the queue.
LEMMA JobEventHolds ==
    ASSUME NotifyInv, JobEvent
    PROVE  NotifyInv'
<1>1. /\ log \in Seq(Facts) /\ Len(log) <= MaxEvents /\ Len(log) \in Nat /\ born \in Nat /\ born < MaxEvents
      /\ born' = born + 1 /\ log' = Append(log, born + 1) /\ failures' \subseteq failures \cup {born + 1}
      /\ failures \subseteq failures' /\ LogInv /\ born + 1 \in Facts
  BY Numbers DEF NotifyInv, TypeOK, JobEvent, Facts
<1>2. UNCHANGED <<config, saved, timer, lock, pc, my, webhook, settled, faults, replaced, foreign, health>>
  BY DEF JobEvent
<1>3. /\ log' \in Seq(Facts) /\ Len(log') = Len(log) + 1 /\ Len(log') <= born' /\ log' # <<>>
      /\ log'[Len(log')] = born + 1 /\ \A n \in 1..Len(log) : log'[n] = log[n]
  BY <1>1 DEF LogInv
<1>4. \A n \in 1..Len(log) : log[n] \in Facts /\ log[n] # born + 1 /\ log[n] <= born'
  <2>1. \A n \in 1..Len(log) : log[n] \in Facts
    BY <1>1
  <2> QED
    BY <1>1, <2>1, Numbers DEF LogInv, Facts
<1>5. TypeOK'
  <2>1. born' \in 0..MaxEvents /\ Len(log') <= MaxEvents
    BY <1>1, <1>3, Numbers DEF LogInv
  <2>2. failures' \subseteq Facts /\ foreign \subseteq failures'
    BY <1>1 DEF NotifyInv, TypeOK
  <2> QED
    BY <1>2, <1>3, <2>1, <2>2 DEF NotifyInv, TypeOK, health, webhook
<1>6. LogInv'
  <2>1. \A n \in 1..Len(log') : log'[n] <= born'
    BY <1>1, <1>3, <1>4
  <2>2. \A n, k \in 1..Len(log') : log'[n] = log'[k] => n = k
    <3>1. \A n, k \in 1..Len(log) : log[n] = log[k] => n = k
      BY <1>1 DEF LogInv
    <3>2. \A n \in 1..Len(log') : n \in 1..Len(log) \/ n = Len(log')
      BY <1>1, <1>3
    <3> QED
      BY <1>3, <1>4, <3>1, <3>2
  <2>3. failures' \subseteq 1..born' /\ settled \subseteq 1..born'
    BY <1>1 DEF LogInv
  <2>4. \A f \in Facts : f > born' => posted[f] = 0
    BY <1>1 DEF LogInv, Facts
  <2> QED
    BY <1>2, <1>3, <2>1, <2>2, <2>3, <2>4 DEF LogInv, webhook
<1>7. Changes
  <2>1. \A n \in 1..Len(log') : (n <= Len(log) /\ log'[n] = log[n]) \/ (n = Len(log') /\ log'[n] = born + 1)
    <3> SUFFICES ASSUME NEW n \in 1..Len(log'), n # Len(log')
                 PROVE  n <= Len(log) /\ log'[n] = log[n]
      BY <1>3
    <3>1. n \in 1..Len(log)
      BY <1>1, <1>3
    <3> QED
      BY <1>3, <3>1
  <2>2. log'[1] = born + 1 \/ (log # <<>> /\ log'[1] = log[1])
    <3>1. CASE log = <<>>
      <4>1. Len(log) = 0
        BY <3>1
      <4> QED
        BY <1>3, <4>1
    <3>2. CASE log # <<>>
      <4>1. 1 \in 1..Len(log)
        BY <1>1, <3>2
      <4> QED
        BY <1>3, <3>2, <4>1
    <3> QED
      BY <3>1, <3>2
  <2> QED
    BY <1>1, <1>2, <1>3, <2>1, <2>2 DEF Changes
<1> QED
  BY <1>2, <1>5, <1>6, <1>7, ChangesHold

\* The operator puts an earlier copy of the queue, or another queue, in place.
LEMMA ReplaceQueueHolds ==
    ASSUME NotifyInv, ReplaceQueue
    PROVE  NotifyInv'
<1>1. /\ log \in Seq(Facts) /\ Len(log) <= MaxEvents /\ Len(log) \in Nat /\ born \in Nat /\ LogInv
  BY Numbers DEF NotifyInv, TypeOK
<1>2. UNCHANGED <<config, saved, timer, lock, pc, my, webhook, settled, faults, health>> /\ replaced = "no"
  BY DEF ReplaceQueue
<1>3. CASE replaced' = "own"
  <2>1. PICK n \in 0..Len(log) : log' = SubSeq(log, 1, n)
    BY <1>3 DEF ReplaceQueue
  <2>2. /\ log' \in Seq(Facts) /\ Len(log') = n /\ n \in Nat /\ n <= Len(log)
        /\ \A k \in 1..Len(log') : log'[k] = log[k] /\ k \in 1..Len(log)
    BY <1>1, <2>1
  <2>3. UNCHANGED <<failures, foreign, born>>
    BY <1>3 DEF ReplaceQueue
  <2>4. TypeOK'
    <3>1. Len(log') <= MaxEvents /\ replaced' \in {"no"} \cup Backups
      BY <1>1, <2>2, Numbers DEF ReplaceQueue
    <3> QED
      BY <1>2, <2>2, <2>3, <3>1 DEF NotifyInv, TypeOK, health, webhook
  <2>5. LogInv'
    BY <1>1, <1>2, <2>2, <2>3 DEF LogInv, webhook
  <2>6. Changes
    BY <1>1, <1>2, <1>3, <2>2, <2>3 DEF Changes
  <2> QED
    BY <1>2, <2>4, <2>5, <2>6, ChangesHold
<1>4. CASE replaced' = "foreign"
  <2>1. /\ born < MaxEvents /\ born' = born + 1 /\ log' = <<born + 1>> /\ failures' = failures \cup {born + 1}
        /\ foreign' = foreign \cup {born + 1} /\ born + 1 \in Facts
    BY <1>1, <1>4, Numbers DEF ReplaceQueue, Facts
  <2>2. log' \in Seq(Facts) /\ Len(log') = 1 /\ log'[1] = born + 1 /\ log' # <<>> /\ 1 <= MaxEvents
    BY <1>1, <2>1, Numbers
  <2>3. TypeOK'
    BY <1>1, <1>2, <1>4, <2>1, <2>2, Numbers DEF NotifyInv, TypeOK, health, webhook, ReplaceQueue
  <2>4. LogInv'
    <3>1. failures' \subseteq 1..born' /\ settled \subseteq 1..born' /\ Len(log') <= born'
      BY <1>1, <2>1, <2>2 DEF LogInv
    <3>2. \A f \in Facts : f > born' => posted[f] = 0
      BY <1>1, <2>1 DEF LogInv, Facts
    <3> QED
      BY <1>1, <1>2, <2>1, <2>2, <3>1, <3>2 DEF LogInv, webhook
  <2>5. Changes
    BY <1>1, <1>2, <1>4, <2>1, <2>2 DEF Changes
  <2> QED
    BY <1>2, <2>3, <2>4, <2>5, ChangesHold
<1> QED
  BY <1>3, <1>4 DEF ReplaceQueue

\* A condition comes or goes: one that comes may be told of again.
LEMMA ConditionChangesHolds ==
    ASSUME NotifyInv, ConditionChanges
    PROVE  NotifyInv'
<1>1. UNCHANGED <<queue, config, saved, timer, lock, pc, my, webhook, settled, faults>>
  BY DEF ConditionChanges
<1>2. /\ active \subseteq Conditions /\ rises \in [Conditions -> 0..MaxRises] /\ alerts \in [Conditions -> Nat]
      /\ config \in Nat /\ faults \in Nat /\ AlertInv
  BY Numbers DEF NotifyInv, TypeOK
<1>3. PICK c \in Conditions :
          \/ /\ c \notin active /\ rises[c] < MaxRises
             /\ active' = active \cup {c}
             /\ rises' = [rises EXCEPT ![c] = @ + 1]
          \/ /\ c \in active
             /\ active' = active \ {c}
             /\ UNCHANGED rises
  BY DEF ConditionChanges
<1>4. /\ active' \subseteq Conditions /\ rises' \in [Conditions -> 0..MaxRises]
      /\ \A d \in Conditions : rises[d] <= rises'[d] /\ rises[d] \in Nat /\ rises'[d] \in Nat /\ alerts[d] \in Nat
      /\ \A d \in active' : d \in active \/ rises'[d] = rises[d] + 1
  BY <1>2, <1>3, Numbers
<1>5. \A d \in Conditions : Due(d) => Due(d)'
  BY <1>1, <1>2, <1>4 DEF Due, webhook
<1>6. ASSUME NEW d \in active', d \notin active, config >= 1 PROVE Due(d)'
  <2>1. alerts[d] > 0 => alerts[d] + 1 <= rises[d] + faults + config
    BY <1>4, <1>6 DEF NotifyInv, AlertInv
  <2> QED
    BY <1>1, <1>2, <1>4, <1>6, <2>1 DEF Due, webhook
<1>7. TypeOK'
  BY <1>1, <1>4 DEF NotifyInv, TypeOK, queue, webhook
<1>8. AlertInv'
  <2>1. \A d \in active' : rises'[d] >= 1
    BY <1>2, <1>4 DEF AlertInv
  <2>2. \A d \in Conditions : alerts[d] > 0 => config >= 1 /\ alerts[d] + 1 <= rises'[d] + faults + config
    BY <1>2, <1>4 DEF AlertInv
  <2> QED
    BY <1>1, <1>2, <1>4, <1>5, <1>6, <2>1, <2>2 DEF AlertInv, webhook
<1>9. ASSUME NEW p \in Procs PROVE Process(p, pc[p], my[p])'
  <2>1. Process(p, pc[p], my[p]) /\ pc'[p] = pc[p] /\ my'[p] = my[p]
    BY <1>1 DEF NotifyInv, Process
  <2>2. \A at, m : Process(p, at, m) => Process(p, at, m)'
    <3> SUFFICES ASSUME NEW at, NEW m, Process(p, at, m)
                 PROVE  Process(p, at, m)'
      OBVIOUS
    <3>1. Holder(p, at)' /\ Control(at, m)'
      BY <1>1 DEF Process, Holder, Control, queue
    <3>2. Cursors(at, m)'
      BY <1>1 DEF Process, Cursors, Placed, AllBehind, Told, SameAsRead, InOrder, WholePage, Repeated, Ahead,
                  SameQueue, Position, queue, webhook
    <3>3. Reports(at, m)'
      <4>1. at = "cursor" \/ at \in Working => config >= 1
        BY DEF Process, Holder, Control
      <4>2. m.todo \subseteq Conditions
        BY DEF Process, Holder, Control
      <4> QED
        BY <1>4, <1>5, <1>6, <4>1, <4>2, <1>2 DEF Process, Reports
    <3> QED
      BY <3>1, <3>2, <3>3 DEF Process
  <2> QED
    BY <2>1, <2>2
<1>10. LogInv' /\ SavedInv' /\ QuietWhenDisabled' /\ \A f \in Facts : posted'[f] <= 1 + faults'
  BY <1>1 DEF NotifyInv, LogInv, SavedInv, QuietWhenDisabled, Placed, Told, Repeated, Ahead, SameQueue, Position,
              queue, webhook
<1> QED
  BY <1>7, <1>8, <1>9, <1>10 DEF NotifyInv, Process

-----------------------------------------------------------------------------
(* The steps of a process.                                                 *)

\* While one process has the lock, or may take it, the others are idle.
LEMMA Apart ==
    ASSUME NotifyInv, NEW p \in Procs, lock \in {p, None}
    PROVE  \A q \in Procs \ {p} : pc[q] = "idle" /\ my[q] = Blank
<1> SUFFICES ASSUME NEW q \in Procs, q # p
             PROVE  pc[q] = "idle" /\ my[q] = Blank
  OBVIOUS
<1>1. lock # q
  BY Numbers
<1> QED
  BY <1>1, Labels DEF NotifyInv, Holder, Control

\* A process that is not idle has the lock.
LEMMA HasLock ==
    ASSUME NotifyInv, NEW p \in Procs, pc[p] # "idle"
    PROVE  /\ lock = p /\ my[p] \in Local /\ pc[p] \in Label /\ Process(p, pc[p], my[p])
           /\ p = Service => timer # "off"
BY DEF NotifyInv, TypeOK, Holder, Process, QuietWhenDisabled

\* Where one process goes, the others stay idle.
LEMMA ProcessesHold ==
    ASSUME NotifyInv, NEW p \in Procs, lock \in {p, None}, lock' \in {p, None},
           NEW at \in Label, NEW m \in Local,
           pc' = [pc EXCEPT ![p] = at], my' = [my EXCEPT ![p] = m], Process(p, at, m)'
    PROVE  /\ pc' \in [Procs -> Label] /\ my' \in [Procs -> Local] /\ pc'[p] = at
           /\ \A q \in Procs \ {p} : pc'[q] = "idle"
           /\ \A q \in Procs : Process(q, pc[q], my[q])'
<1>1. /\ pc \in [Procs -> Label] /\ my \in [Procs -> Local]
      /\ \A q \in Procs \ {p} : pc[q] = "idle" /\ my[q] = Blank
  BY Apart DEF NotifyInv, TypeOK
<1>2. /\ pc' \in [Procs -> Label] /\ my' \in [Procs -> Local] /\ pc'[p] = at /\ my'[p] = m
      /\ \A q \in Procs \ {p} : pc'[q] = "idle" /\ my'[q] = Blank
  BY <1>1
<1>3. ASSUME NEW q \in Procs PROVE Process(q, pc[q], my[q])'
  <2>1. CASE q = p
    BY <1>2, <2>1
  <2>2. CASE q # p
    <3>1. pc'[q] = "idle" /\ my'[q] = Blank /\ lock' # q
      BY <1>2, <2>2, Numbers
    <3>2. Process(q, "idle", Blank)'
      BY <3>1, Labels DEF Process, Holder, Control, Cursors, Reports, Blank
    <3> QED
      BY <3>1, <3>2
  <2> QED
    BY <2>1, <2>2
<1> QED
  BY <1>2, <1>3

\* The world of a process, but for the process itself.
World == <<queue, health, config, saved, timer, webhook, settled, faults>>

\* What is relied on depends on that alone.
LEMMA SameWorld ==
    ASSUME UNCHANGED World, NEW at, NEW m
    PROVE  /\ Control(at, m)' = Control(at, m) /\ Cursors(at, m)' = Cursors(at, m) /\ Reports(at, m)' = Reports(at, m)
           /\ LogInv' = LogInv /\ \A c \in Conditions : Due(c)' = Due(c)
<1>1. Control(at, m)' = Control(at, m) /\ Reports(at, m)' = Reports(at, m) /\ \A c \in Conditions : Due(c)' = Due(c)
  BY DEF World, Control, Reports, Due, queue, health, webhook
<1>2. Cursors(at, m)' = Cursors(at, m)
  BY DEF World, Cursors, Placed, AllBehind, Told, SameAsRead, InOrder, WholePage, Repeated, Ahead,
         SameQueue, Position, queue, webhook
<1>3. LogInv' = LogInv
  BY DEF World, LogInv, queue, webhook
<1> QED
  BY <1>1, <1>2, <1>3

\* A step that only moves its process on, and not from a post that is to be saved.
LEMMA Moves ==
    ASSUME NotifyInv, NEW p \in Procs, lock \in {p, None}, lock' = p, pc[p] \notin {"row", "alert"},
           p = Service => timer # "off",
           NEW at \in Label, at # "idle", NEW m \in Local,
           pc' = [pc EXCEPT ![p] = at], my' = [my EXCEPT ![p] = m], UNCHANGED World,
           Control(at, m), Cursors(at, m), Reports(at, m)
    PROVE  NotifyInv'
<1>1. Process(p, at, m)'
  BY SameWorld DEF Process, Holder
<1>2. /\ pc' \in [Procs -> Label] /\ my' \in [Procs -> Local] /\ pc'[p] = at
      /\ \A q \in Procs \ {p} : pc'[q] = "idle"
      /\ \A q \in Procs : Process(q, pc[q], my[q])'
  BY <1>1, ProcessesHold
<1>3. TypeOK'
  BY <1>2 DEF NotifyInv, TypeOK, World, queue, health, webhook
<1>4. \A q \in Procs : pc[q] # "row" /\ pc[q] # "alert"
  BY Apart
<1>5. SavedInv'
  BY <1>4 DEF NotifyInv, SavedInv, World, Placed, Told, Repeated, Ahead, SameQueue, Position, queue, webhook
<1>6. AlertInv'
  BY <1>4 DEF NotifyInv, AlertInv, World, Due, health, webhook
<1>7. QuietWhenDisabled'
  <2>1. timer' = "off" => p # Service
    BY DEF World
  <2> QED
    BY <1>2, <2>1 DEF QuietWhenDisabled, Procs
<1>8. LogInv' /\ \A f \in Facts : posted'[f] <= 1 + faults'
  BY DEF NotifyInv, LogInv, World, queue, webhook
<1> QED
  BY <1>2, <1>3, <1>5, <1>6, <1>7, <1>8 DEF NotifyInv, Process

\* A process that starts relies on nothing.
LEMMA BeginHolds ==
    ASSUME NotifyInv, NEW p \in Procs, NEW label \in {"load", "config"}, Begin(p, label),
           label = "config" => config < MaxConfigs, p = Service => timer # "off"
    PROVE  NotifyInv'
<1>1. /\ pc[p] = "idle" /\ lock = None /\ lock' = p /\ pc' = [pc EXCEPT ![p] = label] /\ my' = my /\ UNCHANGED World
      /\ label \in Label /\ label # "idle"
  BY Labels DEF Begin, LockFree, Goto, World
<1>2. my[p] = Blank /\ my \in [Procs -> Local]
  BY <1>1, Labels DEF NotifyInv, TypeOK, Control
<1>3. my' = [my EXCEPT ![p] = Blank]
  BY <1>1, <1>2
<1>4. Control(label, Blank) /\ Cursors(label, Blank) /\ Reports(label, Blank)
  BY NothingRead
<1> QED
  BY <1>1, <1>3, <1>4, BlankIsLocal, Moves

\* A process ends between two posts: nothing is lost.
LEMMA LeaveHolds ==
    ASSUME NotifyInv, NEW p \in Procs, pc[p] \notin {"idle", "row", "alert"}, Leave(p),
           UNCHANGED World
    PROVE  NotifyInv'
<1>1. lock = p /\ lock' = None /\ pc' = [pc EXCEPT ![p] = "idle"] /\ my' = [my EXCEPT ![p] = Blank] /\ "idle" \in Label
  BY HasLock, Labels DEF Leave, Goto
<1>2. Process(p, "idle", Blank)'
  BY <1>1, Numbers, Labels DEF Process, Holder, Control, Cursors, Reports, Blank
<1>3. /\ pc' \in [Procs -> Label] /\ my' \in [Procs -> Local] /\ pc'[p] = "idle"
      /\ \A q \in Procs \ {p} : pc'[q] = "idle"
      /\ \A q \in Procs : Process(q, pc[q], my[q])'
  BY <1>1, <1>2, ProcessesHold, BlankIsLocal
<1>4. TypeOK'
  BY <1>1, <1>3 DEF NotifyInv, TypeOK, World, queue, health, webhook
<1>5. \A q \in Procs : pc[q] # "row" /\ pc[q] # "alert"
  BY <1>1, Apart
<1>6. SavedInv'
  BY <1>5 DEF NotifyInv, SavedInv, World, Placed, Told, Repeated, Ahead, SameQueue, Position, queue, webhook
<1>7. AlertInv'
  BY <1>5 DEF NotifyInv, AlertInv, World, Due, health, webhook
<1>8. QuietWhenDisabled'
  BY <1>3 DEF QuietWhenDisabled, Procs
<1>9. LogInv' /\ \A f \in Facts : posted'[f] <= 1 + faults'
  BY DEF NotifyInv, LogInv, World, queue, webhook
<1> QED
  BY <1>3, <1>4, <1>6, <1>7, <1>8, <1>9 DEF NotifyInv, Process

\* A process that is killed, or whose post was taken without its knowing,
\* costs a fault: whatever it posted and did not save is excused by that.
LEMMA FaultHolds ==
    ASSUME NotifyInv, NEW p \in Procs, pc[p] # "idle", Leave(p), Fault,
           UNCHANGED <<queue, health, config, saved, settled>>,
           timer' \in {timer, "off"}, timer' = "off" => timer = "off" \/ p = Service,
           posted' \in [Facts -> Nat], alerts' \in [Conditions -> Nat],
           \A f \in Facts : posted[f] <= posted'[f] /\ posted'[f] <= faults + 1,
           \A f \in Facts : posted'[f] # posted[f] => f <= born /\ saved # None,
           \A c \in Conditions : \/ alerts'[c] = alerts[c]
                                 \/ alerts'[c] = alerts[c] + 1 /\ Due(c) /\ config >= 1 /\ saved # None
    PROVE  NotifyInv'
<1>1. lock = p /\ lock' = None /\ pc' = [pc EXCEPT ![p] = "idle"] /\ my' = [my EXCEPT ![p] = Blank] /\ "idle" \in Label
  BY HasLock, Labels DEF Leave, Goto
<1>2. Process(p, "idle", Blank)'
  BY <1>1, Numbers, Labels DEF Process, Holder, Control, Cursors, Reports, Blank
<1>3. /\ pc' \in [Procs -> Label] /\ my' \in [Procs -> Local] /\ pc'[p] = "idle"
      /\ \A q \in Procs \ {p} : pc'[q] = "idle"
      /\ \A q \in Procs : Process(q, pc[q], my[q])'
  BY <1>1, <1>2, ProcessesHold, BlankIsLocal
<1>4. /\ faults \in Nat /\ faults' = faults + 1 /\ faults' \in 0..MaxFaults /\ born \in Nat /\ config \in Nat
      /\ posted \in [Facts -> Nat] /\ alerts \in [Conditions -> Nat]
      /\ rises \in [Conditions -> Nat] /\ active \subseteq Conditions /\ failures \subseteq Facts
  BY Numbers DEF NotifyInv, TypeOK, Fault
<1>5. TypeOK'
  BY <1>1, <1>3, <1>4 DEF NotifyInv, TypeOK, queue, health
<1>6. LogInv'
  <2>1. \A f \in Facts : f > born => posted'[f] = 0
    BY <1>4 DEF NotifyInv, LogInv, Facts
  <2> QED
    BY <2>1 DEF NotifyInv, LogInv, queue
<1>7. \A f \in Facts : ~Repeated(f)' /\ posted'[f] <= 1 + faults'
  BY <1>4 DEF Repeated
<1>8. SavedInv'
  <2>1. saved = None => settled = {} /\ \A f \in Facts : posted'[f] = 0
    BY DEF NotifyInv, SavedInv
  <2>2. ASSUME saved # None
        PROVE  /\ Placed(saved.queue)' /\ Told(saved.queue, {})'
               /\ \A f \in settled : ~Ahead(f, saved.queue.sequence)'
    <3>1. /\ Placed(saved.queue) /\ Told(saved.queue, {})
          /\ \A f \in settled : ~Ahead(f, saved.queue.sequence)
      BY <2>2 DEF NotifyInv, SavedInv
    <3>2. Placed(saved.queue)' /\ \A f \in settled : ~Ahead(f, saved.queue.sequence)'
      BY <3>1 DEF Placed, Ahead, queue
    <3>3. \A f \in Facts : posted[f] > 0 => posted'[f] > 0
      BY <1>4
    <3>4. Told(saved.queue, {})'
      BY <1>4, <3>1, <3>3 DEF Told, SameQueue, Position, queue
    <3> QED
      BY <3>2, <3>4
  <2> QED
    BY <1>7, <2>1, <2>2 DEF SavedInv
<1>9. AlertInv'
  <2>1. ASSUME NEW c \in Conditions, alerts'[c] > 0
        PROVE  config >= 1 /\ alerts'[c] + 1 <= rises[c] + faults' + config
    <3>1. alerts[c] > 0 => config >= 1 /\ alerts[c] + 1 <= rises[c] + faults + config
      BY DEF NotifyInv, AlertInv
    <3> QED
      BY <1>4, <2>1, <3>1 DEF Due
  <2>2. ASSUME NEW c \in active, saved # None
        PROVE  Due(c)'
    <3>1. /\ alerts[c] > 0 => alerts[c] + 1 <= rises[c] + faults + config
          /\ rises[c] >= 1 /\ config >= 1 /\ c \in Conditions
      BY <1>4, <2>2 DEF NotifyInv, AlertInv
    <3>2. alerts'[c] = alerts[c] \/ (alerts'[c] = alerts[c] + 1 /\ Due(c))
      BY <3>1
    <3>3. alerts'[c] + 2 <= rises[c] + faults' + config
      BY <1>4, <3>1, <3>2 DEF Due
    <3> QED
      BY <3>3 DEF Due, health
  <2>3. saved = None => \A c \in Conditions : alerts'[c] = 0
    BY DEF NotifyInv, AlertInv
  <2>4. (\A c \in active : rises[c] >= 1) /\ (saved # None => config >= 1)
    BY DEF NotifyInv, AlertInv
  <2> QED
    BY <2>1, <2>2, <2>3, <2>4 DEF AlertInv, health
<1>10. QuietWhenDisabled'
  <2>1. timer' = "off" => pc'[Service] = "idle"
    BY <1>3 DEF Procs
  <2> QED
    BY <2>1 DEF QuietWhenDisabled
<1> QED
  BY <1>3, <1>5, <1>6, <1>7, <1>8, <1>9, <1>10 DEF NotifyInv, Process

\* What is posted of a page was not posted, but for what faults excuse, and is a job of a queue.
LEMMA RowIsNew ==
    ASSUME NotifyInv, NEW p \in Procs, pc[p] = "rows", NEW row \in my[p].rows
    PROVE  /\ row.job \in Facts /\ row.seq \in 1..MaxEvents /\ row.job <= born /\ row.job \notin settled
           /\ posted[row.job] <= faults /\ saved # None
<1>1. my[p] \in Local /\ InOrder(my[p]) /\ saved # None /\ posted \in [Facts -> Nat] /\ faults \in Nat
  <2>1. my[p] \in Local /\ InOrder(my[p]) /\ saved # None
    BY HasLock, Labels DEF Process, Control, Cursors
  <2> QED
    BY <2>1, Numbers DEF NotifyInv, TypeOK
<1>2. row.job \in Facts /\ row.seq \in 1..MaxEvents
  BY <1>1 DEF Local
<1> QED
  BY <1>1, <1>2 DEF InOrder, Repeated

\* The reply to a post is lost.
LEMMA ReplyLostHolds ==
    ASSUME NotifyInv, NEW p \in Procs, ReplyLost(p)
    PROVE  NotifyInv'
<1>1. /\ pc[p] # "idle" /\ Leave(p) /\ Fault /\ UNCHANGED <<queue, health, config, saved, settled>> /\ timer' = timer
      /\ posted \in [Facts -> Nat] /\ alerts \in [Conditions -> Nat] /\ faults \in Nat
  BY Numbers DEF ReplyLost, NotifyInv, TypeOK
<1>2. \A f \in Facts : posted[f] <= faults + 1
  BY <1>1 DEF NotifyInv
<1>3. CASE pc[p] = "rows"
  <2>1. PICK row \in my[p].rows : posted' = [posted EXCEPT ![row.job] = @ + 1]
    BY <1>3 DEF ReplyLost
  <2>2. alerts' = alerts
    BY <1>3 DEF ReplyLost
  <2>3. row.job \in Facts /\ row.job <= born /\ posted[row.job] <= faults /\ saved # None
    BY <1>3, RowIsNew
  <2>4. /\ posted' \in [Facts -> Nat]
        /\ \A f \in Facts : posted[f] <= posted'[f] /\ posted'[f] <= faults + 1
        /\ \A f \in Facts : posted'[f] # posted[f] => f <= born /\ saved # None
    BY <1>1, <1>2, <2>1, <2>3
  <2> QED
    BY <1>1, <2>2, <2>4, FaultHolds
<1>4. CASE pc[p] = "alerts"
  <2>1. PICK c \in my[p].todo : alerts' = [alerts EXCEPT ![c] = @ + 1]
    BY <1>4 DEF ReplyLost
  <2>2. posted' = posted
    BY <1>4 DEF ReplyLost
  <2>3. c \in Conditions /\ Due(c) /\ config >= 1 /\ saved # None
    BY <1>4, HasLock, Labels DEF Process, Control, Reports
  <2>4. /\ alerts' \in [Conditions -> Nat]
        /\ \A d \in Conditions : \/ alerts'[d] = alerts[d]
                                 \/ alerts'[d] = alerts[d] + 1 /\ Due(d) /\ config >= 1 /\ saved # None
    BY <1>1, <2>1, <2>3
  <2>5. \A f \in Facts : posted[f] <= posted'[f] /\ posted'[f] <= faults + 1 /\ posted'[f] = posted[f]
    BY <1>1, <1>2, <2>2
  <2> QED
    BY <1>1, <2>2, <2>4, <2>5, FaultHolds
<1> QED
  BY <1>3, <1>4 DEF ReplyLost

\* A process is killed.
LEMMA KillHolds ==
    ASSUME NotifyInv, NEW p \in Procs, Kill(p)
    PROVE  NotifyInv'
<1>1. /\ pc[p] # "idle" /\ Leave(p) /\ Fault /\ UNCHANGED <<queue, health, config, saved, settled, timer, webhook>>
      /\ posted \in [Facts -> Nat] /\ alerts \in [Conditions -> Nat] /\ faults \in Nat
  BY Numbers DEF Kill, NotifyInv, TypeOK
<1>2. \A f \in Facts : posted[f] <= posted[f] /\ posted[f] <= faults + 1
  BY <1>1 DEF NotifyInv
<1> QED
  BY <1>1, <1>2, FaultHolds DEF webhook

\* Nothing but the timer changes; it goes off only when its service is idle.
LEMMA TimerHolds ==
    ASSUME NotifyInv, UNCHANGED <<queue, health, config, saved, webhook, settled, lock, pc, my, faults>>,
           timer' \in {"on", "stopping", "off"}, timer' = "off" => pc[Service] = "idle"
    PROVE  NotifyInv'
<1>1. TypeOK' /\ LogInv' /\ SavedInv' /\ AlertInv' /\ QuietWhenDisabled'
  <2>1. TypeOK'
    BY DEF NotifyInv, TypeOK, queue, health, webhook
  <2>2. LogInv' /\ QuietWhenDisabled'
    BY DEF NotifyInv, LogInv, QuietWhenDisabled, queue, webhook
  <2>3. SavedInv'
    BY DEF NotifyInv, SavedInv, Placed, Told, Repeated, Ahead, SameQueue, Position, queue, webhook
  <2>4. AlertInv'
    BY DEF NotifyInv, AlertInv, Due, health, webhook
  <2> QED
    BY <2>1, <2>2, <2>3, <2>4
<1>2. \A f \in Facts : posted'[f] <= 1 + faults'
  BY DEF NotifyInv, webhook
<1>3. ASSUME NEW p \in Procs PROVE Process(p, pc[p], my[p])'
  <2>1. Holder(p, pc[p])'
    BY DEF NotifyInv, Holder
  <2>2. Control(pc[p], my[p])' /\ Reports(pc[p], my[p])'
    BY SMTT(30) DEF NotifyInv, Control, Reports, Due, queue, health, webhook
  <2>3. Cursors(pc[p], my[p])'
    BY DEF NotifyInv, Cursors, Placed, AllBehind, Told, SameAsRead, InOrder, WholePage, Repeated, Ahead,
                SameQueue, Position, queue, webhook
  <2> QED
    BY <2>1, <2>2, <2>3 DEF Process
<1> QED
  BY <1>1, <1>2, <1>3 DEF NotifyInv, Process

\* systemd stops the service of a timer that was disabled.
LEMMA StopServiceHolds ==
    ASSUME NotifyInv, StopService
    PROVE  NotifyInv'
<1>1. CASE pc[Service] = "idle"
  BY <1>1, TimerHolds DEF StopService
<1>2. CASE pc[Service] # "idle"
  <2>1. /\ Leave(Service) /\ Fault /\ UNCHANGED <<queue, health, config, saved, settled, webhook>> /\ timer' = "off"
        /\ posted \in [Facts -> Nat] /\ alerts \in [Conditions -> Nat] /\ faults \in Nat /\ Service \in Procs
    BY <1>2, Numbers DEF StopService, NotifyInv, TypeOK, Procs
  <2>2. \A f \in Facts : posted[f] <= posted[f] /\ posted[f] <= faults + 1
    BY <2>1 DEF NotifyInv
  <2> QED
    BY <1>2, <2>1, <2>2, FaultHolds DEF webhook
<1> QED
  BY <1>1, <1>2

-----------------------------------------------------------------------------
(* configure, and the check up to its query.                               *)

\* configure writes its file: every condition may be told of again.
LEMMA WriteConfigHolds ==
    ASSUME NotifyInv, NEW p \in Procs, WriteConfig(p)
    PROVE  NotifyInv'
<1>1. /\ pc[p] = "config" /\ config' = config + 1 /\ pc' = [pc EXCEPT ![p] = "cursor"]
      /\ UNCHANGED <<queue, health, saved, timer, lock, my, webhook, settled, faults>>
  BY DEF WriteConfig, Goto
<1>2. lock = p /\ (p = Service => timer # "off") /\ my[p] = Blank /\ config < MaxConfigs
  BY <1>1, HasLock, Labels DEF Process, Control
<1>3. /\ config \in Nat /\ faults \in Nat /\ alerts \in [Conditions -> Nat] /\ rises \in [Conditions -> Nat]
      /\ active \subseteq Conditions /\ my \in [Procs -> Local] /\ my' = [my EXCEPT ![p] = Blank]
  BY <1>1, <1>2, Numbers DEF NotifyInv, TypeOK
<1>4. ASSUME NEW c \in active PROVE Due(c)'
  <2>1. /\ alerts[c] > 0 => alerts[c] + 1 <= rises[c] + faults + config
        /\ rises[c] >= 1 /\ c \in Conditions
    BY <1>3 DEF NotifyInv, AlertInv
  <2>2. alerts[c] + 2 <= rises[c] + faults + config'
    BY <1>1, <1>3, <2>1
  <2> QED
    BY <1>1, <2>2 DEF Due, health, webhook
<1>5. Process(p, "cursor", Blank)'
  BY SMTT(30), <1>1, <1>2, <1>3, <1>4, Labels DEF Process, Holder, Control, Cursors, Reports, Blank, health
<1>6. /\ pc' \in [Procs -> Label] /\ my' \in [Procs -> Local] /\ pc'[p] = "cursor"
      /\ \A q \in Procs \ {p} : pc'[q] = "idle"
      /\ \A q \in Procs : Process(q, pc[q], my[q])'
  BY <1>1, <1>2, <1>3, <1>5, ProcessesHold, BlankIsLocal, Labels
<1>7. TypeOK'
  <2>1. config' \in 0..MaxConfigs
    BY <1>1, <1>2, <1>3, Numbers
  <2> QED
    BY <1>1, <1>6, <2>1 DEF NotifyInv, TypeOK, queue, health, webhook
<1>8. \A q \in Procs : pc[q] # "row" /\ pc[q] # "alert"
  BY <1>1, <1>2, Apart
<1>9. LogInv' /\ SavedInv' /\ \A f \in Facts : posted'[f] <= 1 + faults'
  BY <1>1, <1>8 DEF NotifyInv, LogInv, SavedInv, Placed, Told, Repeated, Ahead, SameQueue, Position, queue, webhook
<1>10. AlertInv'
  <2>1. ASSUME NEW c \in Conditions, alerts[c] > 0
        PROVE  config' >= 1 /\ alerts[c] + 1 <= rises[c] + faults + config'
    <3>1. config >= 1 /\ alerts[c] + 1 <= rises[c] + faults + config
      BY <2>1 DEF NotifyInv, AlertInv
    <3> QED
      BY <1>1, <1>3, <2>1, <3>1
  <2>2. (\A c \in active : rises[c] >= 1) /\ (saved = None => \A c \in Conditions : alerts[c] = 0) /\ config' >= 1
    BY <1>1, <1>3 DEF NotifyInv, AlertInv
  <2> QED
    BY <1>1, <1>4, <2>1, <2>2 DEF AlertInv, health, webhook
<1>11. QuietWhenDisabled'
  BY <1>1, <1>2, <1>6 DEF QuietWhenDisabled, Procs
<1> QED
  BY <1>6, <1>7, <1>9, <1>10, <1>11 DEF NotifyInv, Process

\* A cursor is set at the end of the queue, by configure or by a first check.
LEMMA SetCursorHolds ==
    ASSUME NotifyInv, NEW p \in Procs, NEW label \in {"first", "configured"}, SetCursor(p, label),
           pc[p] \in {"load", "cursor"}, config # 0, pc[p] = "load" => saved = None
    PROVE  NotifyInv'
<1> DEFINE cursor == [queue |-> Position, health |-> {}]
           skip == ToSet(log)
           one == [Blank EXCEPT !.state = cursor]
           two == [one EXCEPT !.skip = skip]
<1>1. /\ log \in Seq(Facts) /\ Len(log) <= MaxEvents /\ Len(log) \in Nat /\ config \in Nat /\ my \in [Procs -> Local]
      /\ \A n \in 1..Len(log) : log[n] \in Facts /\ log[n] <= born
      /\ lock = p /\ (p = Service => timer # "off") /\ my[p] = Blank /\ label \in Label /\ label # "idle"
  BY SMTT(30), HasLock, Labels, Numbers DEF Process, Control, NotifyInv, TypeOK, LogInv
<1>2. cursor \in StateFile /\ skip \in SUBSET Facts /\ skip \subseteq 1..born
  BY <1>1, PositionIs, Numbers DEF StateFile, ToSet, Facts
<1>3. /\ two \in Local /\ two.state = cursor /\ two.skip = skip /\ two.todo = {}
      /\ my' = [my EXCEPT ![p] = two]
  <2>1. my' = [my EXCEPT ![p].state = cursor, ![p].skip = skip]
    BY DEF SetCursor, Start
  <2> HIDE DEF cursor, skip
  <2>2. one \in Local /\ one.state = cursor /\ one.todo = {}
    BY <1>2 DEF Local, Blank
  <2>3. two \in Local /\ two.state = cursor /\ two.skip = skip /\ two.todo = {}
    BY <1>2, <2>2 DEF Local
  <2>4. my' = [my EXCEPT ![p] = two]
    BY <1>1, <2>1
  <2> QED
    BY <2>3, <2>4
<1>4. Placed(Position) /\ AllBehind(Position.sequence, skip) /\ Told(Position, skip)
  BY PositionHolds
<1>5. \A c \in active : Due(c)
  <2>1. CASE pc[p] = "load"
    <3>1. \A c \in active : alerts[c] = 0 /\ rises[c] >= 1 /\ rises[c] \in Nat
      BY <2>1, Numbers DEF NotifyInv, AlertInv, TypeOK
    <3>2. faults \in Nat
      BY Numbers DEF NotifyInv, TypeOK
    <3> QED
      BY <1>1, <3>1, <3>2 DEF Due
  <2>2. CASE pc[p] = "cursor"
    BY <2>2 DEF NotifyInv, Reports
  <2> QED
    BY <2>1, <2>2
<1> HIDE DEF two
<1>6. Control(label, two) /\ Cursors(label, two) /\ Reports(label, two)
  <2>1. cursor.queue = Position /\ cursor.health = {}
    OBVIOUS
  <2> HIDE DEF cursor, skip
  <2>2. Control(label, two)
    BY <1>1, <1>2, <1>3, Labels DEF Control
  <2>3. Cursors(label, two)
    BY <1>3, <1>4, <2>1, Labels DEF Cursors
  <2>4. Reports(label, two)
    BY <1>3, <1>5, <2>1, Labels DEF Reports
  <2> QED
    BY <2>2, <2>3, <2>4
<1>7. lock' = p /\ pc' = [pc EXCEPT ![p] = label] /\ UNCHANGED World
  BY <1>1 DEF SetCursor, Goto, World
<1> QED
  BY <1>1, <1>3, <1>6, <1>7, Moves

\* A check loads the state file.
LEMMA LoadHolds ==
    ASSUME NotifyInv, NEW p \in Procs, Load(p)
    PROVE  NotifyInv'
<1> DEFINE one == [Blank EXCEPT !.state = saved]
<1>1. /\ pc[p] = "load" /\ config >= 1 /\ saved \in StateFile /\ saved # None /\ my \in [Procs -> Local]
      /\ lock = p /\ (p = Service => timer # "off") /\ my[p] = Blank
  BY SMTT(30), HasLock, Labels, Numbers DEF Load, Process, Control, NotifyInv, TypeOK
<1>2. /\ lock' = p /\ pc' = [pc EXCEPT ![p] = "position"] /\ UNCHANGED World
      /\ my' = [my EXCEPT ![p].state = saved]
  BY <1>1 DEF Load, Goto, World
<1>3. /\ one \in Local /\ one.state = saved /\ one.skip = {} /\ one.todo = {} /\ my' = [my EXCEPT ![p] = one]
  BY <1>1, <1>2 DEF Local, Blank
<1>4. \A q \in Procs : pc[q] # "row" /\ pc[q] # "alert"
  BY <1>1, Apart
<1>5. /\ Placed(saved.queue) /\ Told(saved.queue, {}) /\ AllBehind(saved.queue.sequence, {})
      /\ \A c \in active \ saved.health : Due(c)
  BY <1>1, <1>4 DEF NotifyInv, SavedInv, AlertInv, AllBehind
<1> HIDE DEF one
<1>6. Control("position", one) /\ Cursors("position", one) /\ Reports("position", one)
  BY <1>1, <1>3, <1>5, Labels DEF Control, Cursors, Reports
<1> QED
  BY <1>1, <1>2, <1>3, <1>6, Labels, Moves

\* The position of the queue is read; a queue that is another one resets the cursor.
LEMMA ReadPositionHolds ==
    ASSUME NotifyInv, NEW p \in Procs, ReadPosition(p)
    PROVE  NotifyInv'
<1>1. /\ pc[p] = "position" /\ my \in [Procs -> Local] /\ lock = p /\ lock' = p /\ (p = Service => timer # "off")
      /\ Process(p, "position", my[p]) /\ my[p] \in Local /\ my[p].state \in StateFile
      /\ UNCHANGED World /\ log \in Seq(Facts) /\ Len(log) <= MaxEvents
  BY ZenonT(40), HasLock, Labels DEF ReadPosition, Process, Control, NotifyInv, TypeOK, World
<1>2. PICK m \in Local : m = my[p]
  BY <1>1
<1>3. /\ Placed(m.state.queue) /\ AllBehind(m.state.queue.sequence, m.skip) /\ Told(m.state.queue, m.skip)
      /\ m.skip = {} /\ config >= 1 /\ saved # None /\ m.todo \subseteq Conditions /\ m.state \in StateFile
      /\ (\A c \in active \ m.state.health : Due(c)) /\ (\A c \in m.todo : Due(c))
  BY <1>1, <1>2, Labels DEF Process, Control, Cursors, Reports
<1>4. CASE ~SameQueue(m.state.queue)
  <2> DEFINE state == [m.state EXCEPT !.queue = Position]
             skip == ToSet(log)
             one == [m EXCEPT !.state = state]
             two == [one EXCEPT !.skip = skip]
  <2>1. /\ pc' = [pc EXCEPT ![p] = "reset"]
        /\ my' = [my EXCEPT ![p].state.queue = Position, ![p].skip = skip]
    BY <1>2, <1>4 DEF ReadPosition, Goto
  <2>2. Position \in Cursor /\ Placed(Position) /\ AllBehind(Position.sequence, skip) /\ Told(Position, skip)
    BY PositionHolds
  <2>3. skip \in SUBSET Facts /\ skip \subseteq 1..born
    BY <1>1, Numbers DEF NotifyInv, LogInv, ToSet, Facts
  <2>4. state \in StateFile /\ state.queue = Position /\ state.health = m.state.health
    BY <1>3, <2>2 DEF StateFile
  <2>5. my' = [my EXCEPT ![p] = two]
    <3> HIDE DEF skip
    <3> QED
      BY <1>1, <1>2, <1>3, <2>1 DEF Local, StateFile
  <2> HIDE DEF state, skip
  <2>6. one \in Local /\ one.state = state /\ one.todo = m.todo
    BY <2>4 DEF Local
  <2>7. two \in Local /\ two.state = state /\ two.todo = m.todo /\ two.skip = skip
    BY <2>3, <2>6 DEF Local
  <2> HIDE DEF two
  <2>8. Control("reset", two) /\ Cursors("reset", two) /\ Reports("reset", two)
    <3>1. Control("reset", two)
      BY <1>3, <2>3, <2>4, <2>7, Labels DEF Control
    <3>2. Cursors("reset", two)
      BY <2>2, <2>4, <2>7, Labels DEF Cursors
    <3>3. Reports("reset", two)
      BY <1>3, <2>4, <2>7, Labels DEF Reports
    <3> QED
      BY <3>1, <3>2, <3>3
  <2> QED
    BY <1>1, <2>1, <2>5, <2>7, <2>8, Labels, Moves
<1>5. CASE SameQueue(m.state.queue)
  <2> DEFINE one == [m EXCEPT !.position = Position]
  <2>1. /\ \/ pc' = [pc EXCEPT ![p] = "query"] /\ m.state.queue.sequence < Position.sequence
           \/ pc' = [pc EXCEPT ![p] = "health"]
        /\ my' = [my EXCEPT ![p].position = Position]
    BY <1>2, <1>5 DEF ReadPosition, Goto
  <2>2. Position \in Cursor /\ Placed(Position)
    BY PositionHolds
  <2>3. one \in Local /\ one.state = m.state /\ one.skip = {} /\ one.todo = m.todo /\ one.position = Position
    BY <1>3, <2>2 DEF Local
  <2>4. my' = [my EXCEPT ![p] = one]
    BY <1>1, <1>2, <2>1
  <2> HIDE DEF one
  <2>5. CASE pc' = [pc EXCEPT ![p] = "query"] /\ m.state.queue.sequence < Position.sequence
    <3>1. Position.identity # None /\ m.state.queue.identity \in {None, Position.identity}
          /\ m.state.queue.sequence <= Position.sequence
      <4>1. m.state.queue.sequence \in Nat /\ Position.sequence \in Nat
        BY <1>3, <2>2, Numbers DEF StateFile, Cursor
      <4>2. Position.identity = None => Position.sequence = 0
        BY <2>2 DEF Placed
      <4> QED
        BY <1>5, <2>5, <4>1, <4>2 DEF SameQueue
    <3>2. Control("query", one)
      BY <1>3, <2>2, <2>3, Labels DEF Control
    <3>3. Cursors("query", one)
      BY <1>3, <2>2, <2>3, <3>1, Labels DEF Cursors, SameAsRead
    <3>4. Reports("query", one)
      BY <1>3, <2>3, Labels DEF Reports
    <3> QED
      BY <1>1, <2>3, <2>4, <2>5, <3>2, <3>3, <3>4, Labels, Moves
  <2>6. CASE pc' = [pc EXCEPT ![p] = "health"]
    <3>1. Control("health", one) /\ Cursors("health", one) /\ Reports("health", one)
      BY <1>3, <2>3, Labels DEF Control, Cursors, Reports
    <3> QED
      BY <1>1, <2>3, <2>4, <2>6, <3>1, Labels, Moves
  <2> QED
    BY <2>1, <2>5, <2>6
<1> QED
  BY <1>4, <1>5

-----------------------------------------------------------------------------
(* The page of failures.                                                   *)

\* A page is the first of what was found; what is not on it comes after all of it.
LEMMA PageIsFirst ==
    ASSUME NEW found \in SUBSET (1..MaxEvents)
    PROVE  /\ Page(found) \subseteq found
           /\ \A n \in found \ Page(found) : Cardinality(found) >= Limit /\ \A k \in Page(found) : k < n
<1>1. \A S \in SUBSET found : IsFiniteSet(S) /\ Cardinality(S) \in Nat
  <2>1. IsFiniteSet(1..MaxEvents)
    BY Numbers, FS_Interval
  <2>2. IsFiniteSet(found)
    BY <2>1, FS_Subset
  <2>3. \A S \in SUBSET found : IsFiniteSet(S)
    BY <2>2, FS_Subset
  <2> QED
    BY <2>3, FS_CardinalityType
<1>2. ASSUME NEW n \in found \ Page(found)
      PROVE  Cardinality(found) >= Limit /\ \A k \in Page(found) : k < n
  <2> DEFINE before(x) == {m \in found : m < x}
  <2>1. Cardinality(before(n)) >= Limit
    BY <1>1, <1>2, Numbers DEF Page
  <2>2. Cardinality(before(n)) <= Cardinality(found)
    BY <1>1, FS_Subset
  <2>3. ASSUME NEW k \in Page(found) PROVE k < n
    <3> SUFFICES ASSUME n <= k
                 PROVE  FALSE
      BY Numbers DEF Page
    <3>1. before(n) \subseteq before(k)
      <4>1. n \in Nat /\ k \in Nat /\ \A m \in found : m \in Nat
        BY <1>2, Numbers DEF Page
      <4>2. ASSUME NEW m \in found, m < n PROVE m < k
        BY <4>1, <4>2
      <4> QED
        BY <4>2
    <3>2. Cardinality(before(n)) <= Cardinality(before(k))
      BY <1>1, <3>1, FS_Subset
    <3>3. Cardinality(before(k)) < Limit
      BY DEF Page
    <3>4. Cardinality(before(n)) \in Nat /\ Cardinality(before(k)) \in Nat
      BY <1>1
    <3> HIDE DEF before
    <3> QED
      BY <2>1, <3>2, <3>3, <3>4, Numbers
  <2>4. Cardinality(found) >= Limit
    <3>1. Cardinality(found) \in Nat /\ Cardinality(before(n)) \in Nat
      BY <1>1
    <3> HIDE DEF before
    <3> QED
      BY <2>1, <2>2, <3>1, Numbers
  <2> QED
    BY <2>3, <2>4
<1> QED
  BY <1>2 DEF Page

\* The rows of the query are new, in order, and the first of what there is.
LEMMA QueryHolds ==
    ASSUME NotifyInv, NEW p \in Procs, Query(p)
    PROVE  NotifyInv'
<1>1. /\ pc[p] = "query" /\ my \in [Procs -> Local] /\ lock = p /\ lock' = p /\ (p = Service => timer # "off")
      /\ Process(p, "query", my[p]) /\ my[p] \in Local
      /\ UNCHANGED World /\ log \in Seq(Facts) /\ Len(log) <= MaxEvents /\ Len(log) \in Nat
      /\ pc' = [pc EXCEPT ![p] = "rows"]
  BY HasLock, Labels DEF Query, NotifyInv, TypeOK, World, Goto
<1>2. PICK m \in Local : m = my[p]
  BY <1>1
<1>3. /\ Placed(m.state.queue) /\ AllBehind(m.state.queue.sequence, m.skip) /\ Told(m.state.queue, m.skip)
      /\ Placed(m.position) /\ SameAsRead(m) /\ m.state.queue.sequence <= m.position.sequence
      /\ m.skip = {} /\ config >= 1 /\ saved # None /\ m.todo \subseteq Conditions
      /\ m.state \in StateFile /\ m.position \in Cursor
      /\ (\A c \in active \ m.state.health : Due(c)) /\ (\A c \in m.todo : Due(c))
  BY <1>1, <1>2, Labels DEF Process, Control, Cursors, Reports
<1> DEFINE found == NewFailures(m.state.queue.sequence, m.position.sequence)
           rows == {[seq |-> n, job |-> log[n]] : n \in Page(found)}
           full == Cardinality(found) >= Limit
           one == [m EXCEPT !.rows = rows]
           two == [one EXCEPT !.full = full]
<1>4. my' = [my EXCEPT ![p].rows = rows, ![p].full = full]
  BY <1>2 DEF Query
<1>5. /\ m.state.queue.sequence \in Nat /\ m.position.sequence \in Nat
      /\ \A n \in found : /\ n \in 1..Len(log) /\ n \in 1..MaxEvents /\ log[n] \in Facts /\ log[n] <= born
                          /\ m.state.queue.sequence < n /\ n <= m.position.sequence /\ log[n] \in failures
      /\ \A n \in 1..Len(log) : m.state.queue.sequence < n /\ n <= m.position.sequence /\ log[n] \in failures => n \in found
      /\ found \in SUBSET (1..MaxEvents)
  BY <1>1, <1>3, Numbers DEF NewFailures, StateFile, Cursor, NotifyInv, LogInv
<1>6. /\ Page(found) \subseteq found
      /\ \A n \in found \ Page(found) : full /\ \A k \in Page(found) : k < n
  BY <1>5, PageIsFirst
<1> HIDE DEF found
<1>7. rows \in SUBSET [seq : 1..MaxEvents, job : Facts] /\ full \in BOOLEAN
  <2>1. ASSUME NEW n \in Page(found) PROVE [seq |-> n, job |-> log[n]] \in [seq : 1..MaxEvents, job : Facts]
    BY <1>5, <1>6
  <2> QED
    BY <2>1
<1>8. /\ \A row \in rows : row.seq \in Page(found) /\ row.job = log[row.seq]
      /\ \A n \in Page(found) : [seq |-> n, job |-> log[n]] \in rows
  OBVIOUS
<1> HIDE DEF rows, full
<1>9. one \in Local /\ one.rows = rows /\ one.state = m.state /\ one.position = m.position
      /\ one.todo = m.todo /\ one.skip = {}
  BY <1>3, <1>7 DEF Local
<1>10. two \in Local /\ two.rows = rows /\ two.full = full /\ two.state = m.state /\ two.position = m.position
       /\ two.todo = m.todo /\ two.skip = {}
  BY <1>7, <1>9 DEF Local
<1>11. my' = [my EXCEPT ![p] = two]
  BY <1>1, <1>2, <1>4 DEF Local
<1> HIDE DEF one, two
<1>12. InOrder(two)
  <2> SUFFICES ASSUME NEW row \in rows
               PROVE  /\ row.job <= born /\ row.job \notin settled /\ ~Repeated(row.job)
                      /\ m.state.queue.sequence < row.seq /\ row.seq <= m.position.sequence
                      /\ \A n \in 1..Len(log) : log[n] = row.job => n = row.seq
                      /\ \A other \in rows : other.seq = row.seq <=> other.job = row.job
    BY <1>10 DEF InOrder
  <2>1. \A other \in rows : other.seq \in found /\ other.job = log[other.seq]
    BY <1>6, <1>8
  <2>2. \A n, k \in 1..Len(log) : log[n] = log[k] => n = k
    BY DEF NotifyInv, LogInv
  <2>3. \A n \in 1..Len(log) : log[n] = row.job => n = row.seq
    BY <1>5, <2>1, <2>2
  <2>4. ASSUME NEW other \in rows PROVE other.seq = row.seq <=> other.job = row.job
    <3>1. other.seq \in 1..Len(log) /\ other.job = log[other.seq] /\ row.job = log[row.seq]
      BY <1>5, <2>1
    <3> QED
      BY <2>3, <3>1
  <2>5. Ahead(row.job, m.state.queue.sequence) /\ row.job \in Facts
    BY <1>5, <2>1 DEF Ahead
  <2>6. row.job \notin settled /\ ~Repeated(row.job)
    BY <1>3, <2>5 DEF AllBehind
  <2> QED
    BY <1>5, <2>1, <2>3, <2>4, <2>6
<1>13. WholePage(two)
  <2>1. ASSUME NEW row \in rows PROVE row.seq <= Len(log) /\ log[row.seq] = row.job
    <3>1. row.seq \in 1..Len(log)
      BY <1>5, <1>6, <1>8
    <3> QED
      BY <1>1, <1>8, <3>1
  <2>2. ASSUME NEW n \in 1..Len(log), n > m.state.queue.sequence, n <= m.position.sequence, log[n] \in failures
        PROVE  \/ [seq |-> n, job |-> log[n]] \in rows
               \/ full /\ \A row \in rows : row.seq < n
    <3>1. n \in found
      BY <1>5, <2>2
    <3> QED
      BY <1>6, <1>8, <3>1
  <2> QED
    BY <1>10, <2>1, <2>2 DEF WholePage
<1>14. Control("rows", two) /\ Reports("rows", two)
  BY <1>3, <1>10, Labels DEF Control, Reports
<1>15. Cursors("rows", two)
  BY <1>3, <1>10, <1>12, <1>13, Labels DEF Cursors, SameAsRead
<1> QED
  BY <1>1, <1>10, <1>11, <1>14, <1>15, Labels, Moves

\* The page is through: the cursor goes to the end that was read, unless there may be more.
LEMMA RowsDoneHolds ==
    ASSUME NotifyInv, NEW p \in Procs, RowsDone(p)
    PROVE  NotifyInv'
<1>1. /\ pc[p] = "rows" /\ my \in [Procs -> Local] /\ lock = p /\ lock' = p /\ (p = Service => timer # "off")
      /\ Process(p, "rows", my[p]) /\ my[p] \in Local
      /\ UNCHANGED World /\ log \in Seq(Facts) /\ Len(log) <= MaxEvents
  BY HasLock, Labels DEF RowsDone, NotifyInv, TypeOK, World
<1>2. PICK m \in Local : m = my[p]
  BY <1>1
<1>3. /\ Placed(m.state.queue) /\ AllBehind(m.state.queue.sequence, m.skip) /\ Told(m.state.queue, m.skip)
      /\ Placed(m.position) /\ SameAsRead(m) /\ m.state.queue.sequence <= m.position.sequence
      /\ WholePage(m) /\ m.rows = {}
      /\ m.skip = {} /\ config >= 1 /\ saved # None /\ m.todo \subseteq Conditions
      /\ m.state \in StateFile /\ m.position \in Cursor
      /\ (\A c \in active \ m.state.health : Due(c)) /\ (\A c \in m.todo : Due(c))
  BY SMTT(30), <1>1, <1>2, Labels DEF Process, Control, Cursors, Reports, RowsDone
<1>4. CASE m.full
  <2>1. pc' = [pc EXCEPT ![p] = "health"] /\ my' = [my EXCEPT ![p].state.queue = @]
    BY <1>2, <1>4 DEF RowsDone, PageDone, Goto
  <2>2. my' = [my EXCEPT ![p] = m]
    <3>1. [m.state EXCEPT !.queue = @] = m.state
      BY <1>3 DEF StateFile
    <3>2. [m EXCEPT !.state = m.state] = m
      BY DEF Local
    <3>3. my' = [my EXCEPT ![p] = [m EXCEPT !.state = [m.state EXCEPT !.queue = @]]]
      BY <1>1, <1>2, <2>1
    <3> QED
      BY <3>1, <3>2, <3>3
  <2>3. Control("health", m) /\ Cursors("health", m) /\ Reports("health", m)
    BY <1>3, Labels DEF Control, Cursors, Reports
  <2> QED
    BY <1>1, <2>1, <2>2, <2>3, Labels, Moves
<1>5. CASE ~m.full
  <2> DEFINE state == [m.state EXCEPT !.queue = m.position]
             one == [m EXCEPT !.state = state]
  <2>1. pc' = [pc EXCEPT ![p] = "tail"] /\ my' = [my EXCEPT ![p].state.queue = m.position]
    BY <1>2, <1>5 DEF RowsDone, PageDone, Goto
  <2>2. state \in StateFile /\ state.queue = m.position /\ state.health = m.state.health
    BY <1>3 DEF StateFile
  <2>3. one \in Local /\ one.state = state /\ one.skip = {} /\ one.todo = m.todo
    BY <1>3, <2>2 DEF Local
  <2>4. my' = [my EXCEPT ![p] = one]
    BY <1>1, <1>2, <1>3, <2>1 DEF Local, StateFile
  <2> HIDE DEF state, one
  <2>5. m.state.queue.sequence \in Nat /\ m.position.sequence \in Nat /\ Len(log) \in Nat
    BY <1>1, <1>3, Numbers DEF StateFile, Cursor
  <2>6. AllBehind(m.position.sequence, {})
    BY <1>3, <2>5 DEF AllBehind, Ahead
  <2>7. Told(m.position, {})
    <3> SUFFICES ASSUME replaced # "own", SameQueue(m.position), NEW n \in 1..m.position.sequence, log[n] \in failures
                 PROVE  posted[log[n]] > 0 \/ log[n] \in settled
      BY DEF Told
    <3>1. /\ log # <<>> /\ Position.identity = log[1] /\ log[1] = m.position.identity /\ Position.sequence = Len(log)
          /\ m.position.sequence <= Len(log) /\ n \in 1..Len(log)
      BY <1>1, <1>3, <2>5, PositionIs DEF SameQueue, SameAsRead
    <3>2. CASE n > m.state.queue.sequence
      BY <1>3, <1>5, <2>5, <3>1, <3>2 DEF WholePage
    <3>3. CASE n <= m.state.queue.sequence
      <4>1. SameQueue(m.state.queue)
        BY <1>3, <2>5, <3>1 DEF SameQueue, SameAsRead
      <4>2. n \in 1..m.state.queue.sequence
        BY <2>5, <3>3
      <4> QED
        BY <1>3, <4>1, <4>2 DEF Told
    <3> QED
      BY <2>5, <3>2, <3>3
  <2>8. Control("tail", one) /\ Cursors("tail", one) /\ Reports("tail", one)
    BY <1>3, <2>2, <2>3, <2>6, <2>7, Labels DEF Control, Cursors, Reports
  <2> QED
    BY <1>1, <2>1, <2>3, <2>4, <2>8, Labels, Moves
<1> QED
  BY <1>4, <1>5

-----------------------------------------------------------------------------
(* The posts, and what is saved after them.                                *)

\* A failure is posted: what is behind the cursor now was posted, or is history.
LEMMA PostRowHolds ==
    ASSUME NotifyInv, NEW p \in Procs, PostRow(p)
    PROVE  NotifyInv'
<1>1. /\ pc[p] = "rows" /\ my \in [Procs -> Local] /\ lock = p /\ (p = Service => timer # "off")
      /\ Process(p, "rows", my[p]) /\ my[p] \in Local
      /\ UNCHANGED <<queue, health, config, saved, timer, lock, alerts, settled, faults>>
      /\ log \in Seq(Facts) /\ Len(log) <= MaxEvents /\ Len(log) \in Nat
      /\ pc' = [pc EXCEPT ![p] = "row"] /\ posted \in [Facts -> Nat] /\ faults \in Nat
  BY SMTT(30), HasLock, Labels, Numbers DEF PostRow, NotifyInv, TypeOK, Goto
<1>2. PICK m \in Local : m = my[p]
  BY <1>1
<1>3. /\ Placed(m.state.queue) /\ AllBehind(m.state.queue.sequence, m.skip) /\ Told(m.state.queue, m.skip)
      /\ Placed(m.position) /\ SameAsRead(m) /\ m.state.queue.sequence <= m.position.sequence
      /\ InOrder(m) /\ WholePage(m)
      /\ m.skip = {} /\ config >= 1 /\ saved # None /\ m.todo \subseteq Conditions
      /\ m.state \in StateFile /\ m.position \in Cursor
      /\ (\A c \in active \ m.state.health : Due(c)) /\ (\A c \in m.todo : Due(c))
  BY <1>1, <1>2, Labels DEF Process, Control, Cursors, Reports
<1>4. PICK row \in m.rows : /\ IsNext(row, m.rows)
                            /\ posted' = [posted EXCEPT ![row.job] = @ + 1]
                            /\ my' = [my EXCEPT ![p].rows = @ \ {row}, ![p].state = Advance(p, row)]
  BY <1>2 DEF PostRow
<1>5. /\ row.job \in Facts /\ row.seq \in 1..MaxEvents /\ row.job <= born /\ row.job \notin settled
      /\ posted[row.job] <= faults
  BY <1>1, <1>2, RowIsNew
<1> DEFINE cursor == [identity |-> m.position.identity, sequence |-> row.seq]
           state == [m.state EXCEPT !.queue = cursor]
           rows == m.rows \ {row}
           one == [m EXCEPT !.rows = rows]
           two == [one EXCEPT !.state = state]
<1>6. cursor \in Cursor /\ cursor.identity = m.position.identity /\ cursor.sequence = row.seq
  BY <1>3, <1>5, Numbers DEF Cursor
<1>7. my' = [my EXCEPT ![p].rows = rows, ![p].state = state]
  BY <1>1, <1>2, <1>4 DEF Advance
<1> HIDE DEF cursor
<1>8. state \in StateFile /\ state.queue = cursor /\ state.health = m.state.health
  BY <1>3, <1>6 DEF StateFile
<1> HIDE DEF state
<1>9. rows \in SUBSET [seq : 1..MaxEvents, job : Facts]
  BY DEF Local
<1> HIDE DEF rows
<1>10. one \in Local /\ one.rows = rows /\ one.position = m.position /\ one.full = m.full /\ one.todo = m.todo
       /\ one.skip = {}
  BY <1>3, <1>9 DEF Local
<1>11. two \in Local /\ two.rows = rows /\ two.state = state /\ two.position = m.position /\ two.full = m.full
       /\ two.todo = m.todo /\ two.skip = {}
  BY <1>8, <1>10 DEF Local
<1>12. my' = [my EXCEPT ![p] = two]
  BY <1>1, <1>2, <1>7 DEF Local
<1> HIDE DEF one, two
<1>13. /\ posted' \in [Facts -> Nat] /\ posted'[row.job] = posted[row.job] + 1
       /\ \A f \in Facts : f # row.job => posted'[f] = posted[f]
       /\ \A f \in Facts : posted'[f] <= 1 + faults /\ (posted[f] > 0 => posted'[f] > 0)
  <2>1. \A f \in Facts : posted[f] <= 1 + faults
    BY DEF NotifyInv
  <2> QED
    BY <1>1, <1>4, <1>5, <2>1
<1>14. m.state.queue.sequence \in Nat /\ m.position.sequence \in Nat /\ row.seq \in Nat
       /\ m.state.queue.sequence < row.seq /\ row.seq <= m.position.sequence
       /\ (\A n \in 1..Len(log) : log[n] = row.job => n = row.seq)
       /\ \A other \in rows : /\ other \in m.rows /\ other.seq \in Nat /\ other.job \in Facts
                              /\ row.seq < other.seq /\ other.job # row.job
  <2>1. m.state.queue.sequence \in Nat /\ m.position.sequence \in Nat /\ row.seq \in Nat
    BY <1>3, <1>5, Numbers DEF StateFile, Cursor
  <2>2. m.state.queue.sequence < row.seq /\ row.seq <= m.position.sequence
        /\ \A n \in 1..Len(log) : log[n] = row.job => n = row.seq
    BY <1>3, <1>4 DEF InOrder
  <2>3. ASSUME NEW other \in rows
        PROVE  other \in m.rows /\ other.seq \in Nat /\ other.job \in Facts /\ row.seq < other.seq /\ other.job # row.job
    <3>1. other \in m.rows /\ other # row /\ other \in [seq : 1..MaxEvents, job : Facts]
          /\ row \in [seq : 1..MaxEvents, job : Facts]
      BY <1>4 DEF rows, Local
    <3>2. other.seq \in Nat /\ other.job \in Facts
      BY <3>1, Numbers
    <3>3. other.seq = row.seq <=> other.job = row.job
      BY <1>3, <1>4, <3>1 DEF InOrder
    <3>4. other.seq # row.seq
      BY <3>1, <3>3
    <3>5. row.seq <= other.seq
      BY <1>4, <3>1 DEF IsNext
    <3> QED
      BY <2>1, <3>1, <3>2, <3>3, <3>4, <3>5
  <2> QED
    BY <2>1, <2>2, <2>3
<1>15. Placed(cursor)'
  <2>1. cursor.sequence <= m.position.sequence /\ m.position.identity # None
    BY <1>3, <1>6, <1>14 DEF SameAsRead
  <2>2. Placed(cursor)
    BY <1>1, <1>3, <1>6, <1>14, <2>1 DEF Placed
  <2> QED
    BY <1>1, <2>2 DEF Placed, queue
<1>16. AllBehind(row.seq, {})'
  <2> SUFFICES ASSUME NEW f \in Facts, posted'[f] > faults \/ f \in settled
               PROVE  ~Ahead(f, row.seq)
    BY <1>1 DEF AllBehind, Repeated, Ahead, queue
  <2>1. CASE f = row.job
    BY <1>14, <2>1 DEF Ahead
  <2>2. CASE f # row.job
    <3>1. ~Ahead(f, m.state.queue.sequence)
      BY <1>3, <1>13, <2>2 DEF AllBehind, Repeated
    <3> QED
      BY SMTT(30), <1>1, <1>14, <3>1 DEF Ahead
  <2> QED
    BY <2>1, <2>2
<1>17. Told(cursor, {})'
  <2> SUFFICES ASSUME replaced # "own", SameQueue(cursor), NEW n \in 1..row.seq, log[n] \in failures
               PROVE  posted'[log[n]] > 0 \/ log[n] \in settled
    BY <1>1, <1>6 DEF Told, SameQueue, Position, queue
  <2>1. /\ log # <<>> /\ Position.identity = log[1] /\ log[1] = m.position.identity /\ Position.sequence = Len(log)
        /\ row.seq <= Len(log) /\ n \in 1..Len(log) /\ log[n] \in Facts /\ n \in Nat
    BY <1>1, <1>3, <1>6, <1>14, PositionIs DEF SameQueue, SameAsRead
  <2>2. CASE n > m.state.queue.sequence
    <3>1. n <= m.position.sequence
      BY <1>14, <2>1
    <3>2. \/ [seq |-> n, job |-> log[n]] \in m.rows
          \/ \A other \in m.rows : other.seq < n
      BY <1>3, <2>1, <2>2, <3>1 DEF WholePage
    <3>3. ~(row.seq < n)
      BY <1>14, <2>1
    <3>4. PICK other \in m.rows : other = [seq |-> n, job |-> log[n]]
      BY <1>4, <3>2, <3>3
    <3>5. row.seq <= other.seq /\ other.seq = n /\ other.job = log[n]
      BY <1>4, <3>4 DEF IsNext
    <3>6. other.seq = row.seq
      BY <1>14, <2>1, <3>3, <3>5
    <3>7. other.job = row.job
      BY <1>3, <1>4, <3>6 DEF InOrder
    <3> QED
      BY <1>1, <1>5, <1>13, <3>5, <3>7
  <2>3. CASE n <= m.state.queue.sequence
    <3>1. SameQueue(m.state.queue)
      BY <1>3, <1>14, <2>1 DEF SameQueue, SameAsRead
    <3>2. n \in 1..m.state.queue.sequence
      BY <1>14, <2>1, <2>3
    <3>3. posted[log[n]] > 0 \/ log[n] \in settled
      BY <1>3, <3>1, <3>2 DEF Told
    <3> QED
      BY <1>13, <2>1, <3>3
  <2> QED
    BY <1>14, <2>1, <2>2, <2>3
<1>18. InOrder(two)'
  <2> SUFFICES ASSUME NEW other \in rows
               PROVE  /\ other.job <= born /\ other.job \notin settled /\ ~(posted'[other.job] > faults)
                      /\ row.seq < other.seq /\ other.seq <= m.position.sequence
                      /\ \A n \in 1..Len(log) : log[n] = other.job => n = other.seq
                      /\ \A third \in rows : third.seq = other.seq <=> third.job = other.job
    BY <1>1, <1>6, <1>8, <1>11 DEF InOrder, Repeated, queue
  <2>1. /\ other.job <= born /\ other.job \notin settled /\ ~Repeated(other.job) /\ other.seq <= m.position.sequence
        /\ \A n \in 1..Len(log) : log[n] = other.job => n = other.seq
        /\ \A third \in m.rows : third.seq = other.seq <=> third.job = other.job
    BY <1>3, <1>14 DEF InOrder
  <2>2. posted'[other.job] = posted[other.job]
    BY <1>13, <1>14
  <2> QED
    BY <1>14, <2>1, <2>2 DEF Repeated
<1>19. WholePage(two)'
  <2> SUFFICES ASSUME replaced # "own", log # <<>>, log[1] = m.position.identity
               PROVE  /\ \A other \in rows : other.seq <= Len(log) /\ log[other.seq] = other.job
                      /\ \A n \in 1..Len(log) :
                            n > row.seq /\ n <= m.position.sequence /\ log[n] \in failures =>
                                \/ [seq |-> n, job |-> log[n]] \in rows
                                \/ m.full /\ \A other \in rows : other.seq < n
    BY <1>1, <1>6, <1>8, <1>11 DEF WholePage, queue
  <2>1. /\ \A other \in m.rows : other.seq <= Len(log) /\ log[other.seq] = other.job
        /\ \A n \in 1..Len(log) :
              n > m.state.queue.sequence /\ n <= m.position.sequence /\ log[n] \in failures =>
                  \/ [seq |-> n, job |-> log[n]] \in m.rows
                  \/ m.full /\ \A other \in m.rows : other.seq < n
    BY <1>3 DEF WholePage
  <2>2. ASSUME NEW n \in 1..Len(log), n > row.seq, n <= m.position.sequence, log[n] \in failures
        PROVE  \/ [seq |-> n, job |-> log[n]] \in rows
               \/ m.full /\ \A other \in rows : other.seq < n
    <3>1. n > m.state.queue.sequence
      BY SMTT(30), <1>1, <1>14, <2>2
    <3>2. [seq |-> n, job |-> log[n]] # row
      BY <1>14, <2>2
    <3>3. CASE [seq |-> n, job |-> log[n]] \in m.rows
      BY <3>2, <3>3 DEF rows
    <3>4. CASE m.full /\ \A other \in m.rows : other.seq < n
      BY <1>14, <3>4
    <3> QED
      BY <2>1, <2>2, <3>1, <3>3, <3>4
  <2> QED
    BY <1>14, <2>1, <2>2
<1>20. Process(p, "row", two)'
  <2>1. Holder(p, "row")'
    BY <1>1 DEF Holder
  <2>2. Control("row", two)'
    BY <1>1, <1>3, <1>8, <1>11, Labels DEF Control, queue
  <2>3. Placed(m.position)' /\ SameAsRead(two)'
    BY <1>1, <1>3, <1>6, <1>8, <1>11 DEF Placed, SameAsRead, queue
  <2>4. Cursors("row", two)'
    BY <1>3, <1>6, <1>8, <1>11, <1>14, <1>15, <1>16, <1>17, <1>18, <1>19, <2>3, Labels DEF Cursors
  <2>5. Reports("row", two)'
    BY SMTT(30), <1>1, <1>3, <1>8, <1>11, Labels DEF Reports, Due, health
  <2> QED
    BY <2>1, <2>2, <2>4, <2>5 DEF Process
<1>21. /\ pc' \in [Procs -> Label] /\ my' \in [Procs -> Local] /\ pc'[p] = "row"
       /\ \A q \in Procs \ {p} : pc'[q] = "idle"
       /\ \A q \in Procs : Process(q, pc[q], my[q])'
  BY <1>1, <1>11, <1>12, <1>20, ProcessesHold, Labels
<1>22. TypeOK'
  BY <1>1, <1>13, <1>21 DEF NotifyInv, TypeOK, queue, health
<1>23. LogInv'
  <2>1. \A f \in Facts : f > born => posted'[f] = 0
    <3>1. \A f \in Facts : f > born => posted[f] = 0 /\ f # row.job
      BY SMTT(30), <1>1, <1>5, Numbers DEF NotifyInv, TypeOK, LogInv, Facts
    <3> QED
      BY <1>13, <3>1
  <2> QED
    BY <1>1, <2>1 DEF NotifyInv, LogInv, queue
<1>24. SavedInv'
  <2>1. Placed(saved.queue)' /\ Told(saved.queue, {}) /\ \A f \in settled : ~Ahead(f, saved.queue.sequence)'
    BY <1>1, <1>3 DEF NotifyInv, SavedInv, Placed, Ahead, queue
  <2>2. Told(saved.queue, {})'
    <3>1. failures \subseteq Facts
      BY DEF NotifyInv, TypeOK
    <3> QED
      BY <1>1, <1>13, <2>1, <3>1 DEF Told, SameQueue, Position, queue
  <2>3. saved # None /\ saved' = saved /\ settled' = settled /\ ~(\A q \in Procs : pc'[q] # "row")
    BY <1>1, <1>3, <1>21
  <2> QED
    BY <2>1, <2>2, <2>3 DEF SavedInv
<1>25. AlertInv'
  <2>1. \A q \in Procs : pc[q] # "alert"
    BY <1>1, Apart
  <2> QED
    BY <1>1, <2>1 DEF NotifyInv, AlertInv, Due, health
<1>26. QuietWhenDisabled'
  BY <1>1, <1>21 DEF QuietWhenDisabled, Procs
<1> QED
  BY <1>1, <1>13, <1>21, <1>22, <1>23, <1>24, <1>25, <1>26 DEF NotifyInv, Process

\* The conditions are read: those that are new are to be told of, the others stay known while they last.
LEMMA ReadHealthHolds ==
    ASSUME NotifyInv, NEW p \in Procs, ReadHealth(p)
    PROVE  NotifyInv'
<1>1. /\ pc[p] = "health" /\ my \in [Procs -> Local] /\ lock = p /\ lock' = p /\ (p = Service => timer # "off")
      /\ Process(p, "health", my[p]) /\ my[p] \in Local
      /\ UNCHANGED World /\ active \subseteq Conditions
      /\ pc' = [pc EXCEPT ![p] = "known"]
  BY HasLock, Labels DEF ReadHealth, NotifyInv, TypeOK, World, Goto
<1>2. PICK m \in Local : m = my[p]
  BY <1>1
<1>3. /\ Placed(m.state.queue) /\ AllBehind(m.state.queue.sequence, m.skip) /\ Told(m.state.queue, m.skip)
      /\ m.skip = {} /\ config >= 1 /\ saved # None /\ m.state \in StateFile
      /\ (\A c \in active \ m.state.health : Due(c))
  BY <1>1, <1>2, Labels DEF Process, Control, Cursors, Reports
<1> DEFINE known == m.state.health \cap active
           todo == active \ m.state.health
           state == [m.state EXCEPT !.health = known]
           one == [m EXCEPT !.state = state]
           two == [one EXCEPT !.todo = todo]
<1>4. my' = [my EXCEPT ![p].state.health = known, ![p].todo = todo]
  BY <1>2 DEF ReadHealth, StillKnown
<1>5. known \in SUBSET Conditions /\ todo \in SUBSET Conditions /\ \A c \in active \ known : c \in todo
  BY <1>1
<1>6. \A c \in todo : Due(c)
  BY <1>3
<1> HIDE DEF known, todo
<1>7. state \in StateFile /\ state.queue = m.state.queue /\ state.health = known
  BY <1>3, <1>5 DEF StateFile
<1>8. my' = [my EXCEPT ![p] = two]
  BY <1>1, <1>2, <1>3, <1>4 DEF Local, StateFile
<1> HIDE DEF state
<1>9. one \in Local /\ one.state = state /\ one.skip = {}
  BY <1>3, <1>7 DEF Local
<1>10. two \in Local /\ two.state = state /\ two.skip = {} /\ two.todo = todo
  BY <1>5, <1>9 DEF Local
<1> HIDE DEF one, two
<1>11. Control("known", two) /\ Cursors("known", two) /\ Reports("known", two)
  BY <1>3, <1>5, <1>6, <1>7, <1>10, Labels DEF Control, Cursors, Reports
<1> QED
  BY <1>1, <1>8, <1>10, <1>11, Labels, Moves

\* A condition is posted: until it is saved, it may not be told of again without a fault.
LEMMA PostAlertHolds ==
    ASSUME NotifyInv, NEW p \in Procs, PostAlert(p)
    PROVE  NotifyInv'
<1>1. /\ pc[p] = "alerts" /\ my \in [Procs -> Local] /\ lock = p /\ (p = Service => timer # "off")
      /\ Process(p, "alerts", my[p]) /\ my[p] \in Local
      /\ UNCHANGED <<queue, health, config, saved, timer, lock, posted, settled, faults>>
      /\ pc' = [pc EXCEPT ![p] = "alert"] /\ alerts \in [Conditions -> Nat] /\ faults \in Nat /\ config \in Nat
      /\ rises \in [Conditions -> Nat] /\ active \subseteq Conditions
  BY SMTT(30), HasLock, Labels, Numbers DEF PostAlert, NotifyInv, TypeOK, Goto
<1>2. PICK m \in Local : m = my[p]
  BY <1>1
<1>3. /\ Placed(m.state.queue) /\ AllBehind(m.state.queue.sequence, m.skip) /\ Told(m.state.queue, m.skip)
      /\ m.skip = {} /\ config >= 1 /\ saved # None /\ m.state \in StateFile /\ m.todo \subseteq Conditions
      /\ (\A c \in active \ m.state.health : Due(c)) /\ (\A c \in m.todo : Due(c))
  BY <1>1, <1>2, Labels DEF Process, Control, Cursors, Reports
<1>4. PICK c \in m.todo : /\ alerts' = [alerts EXCEPT ![c] = @ + 1]
                          /\ my' = [my EXCEPT ![p].todo = @ \ {c}, ![p].state.health = @ \cup {c}]
  BY <1>2 DEF PostAlert
<1> DEFINE known == m.state.health \cup {c}
           todo == m.todo \ {c}
           state == [m.state EXCEPT !.health = known]
           one == [m EXCEPT !.todo = todo]
           two == [one EXCEPT !.state = state]
<1>5. my' = [my EXCEPT ![p].todo = todo, ![p].state.health = known]
  BY <1>1, <1>2, <1>3, <1>4 DEF Local, StateFile
<1>6. known \in SUBSET Conditions /\ todo \in SUBSET Conditions
  BY <1>3 DEF StateFile
<1>7. c \in Conditions /\ Due(c) /\ c \notin todo /\ todo \subseteq m.todo /\ c \in known /\ m.state.health \subseteq known
  BY <1>3
<1> HIDE DEF known, todo
<1>8. state \in StateFile /\ state.queue = m.state.queue /\ state.health = known
  BY <1>3, <1>6 DEF StateFile
<1>9. my' = [my EXCEPT ![p] = two]
  BY <1>1, <1>2, <1>3, <1>5 DEF Local, StateFile
<1> HIDE DEF state
<1>10. one \in Local /\ one.todo = todo /\ one.skip = {}
  BY <1>3, <1>6 DEF Local
<1>11. two \in Local /\ two.state = state /\ two.skip = {} /\ two.todo = todo
  BY <1>8, <1>10 DEF Local
<1> HIDE DEF one, two
<1>12. alerts' \in [Conditions -> Nat] /\ alerts'[c] = alerts[c] + 1 /\ \A d \in Conditions : d # c => alerts'[d] = alerts[d]
  BY <1>1, <1>4, <1>7
<1>13. \A d \in Conditions : d # c /\ Due(d) => Due(d)'
  BY <1>1, <1>12 DEF Due, health
<1>14. Process(p, "alert", two)'
  <2>1. Holder(p, "alert")'
    BY <1>1 DEF Holder
  <2>2. Control("alert", two)'
    BY <1>1, <1>3, <1>6, <1>8, <1>11, Labels DEF Control, queue
  <2>3. (Placed(m.state.queue) /\ AllBehind(m.state.queue.sequence, {}) /\ Told(m.state.queue, {}))'
    BY <1>1, <1>3 DEF Placed, AllBehind, Told, Ahead, Repeated, SameQueue, Position, queue
  <2>4. Cursors("alert", two)'
    BY <1>8, <1>11, <2>3, Labels DEF Cursors
  <2>5. Reports("alert", two)'
    <3>1. \A d \in active' \ known : Due(d)'
      BY <1>1, <1>3, <1>7, <1>13 DEF health
    <3>2. \A d \in todo : Due(d)'
      BY SMTT(30), <1>3, <1>7, <1>13
    <3> QED
      BY <1>8, <1>11, <3>1, <3>2, Labels DEF Reports
  <2> QED
    BY <2>1, <2>2, <2>4, <2>5 DEF Process
<1>15. /\ pc' \in [Procs -> Label] /\ my' \in [Procs -> Local] /\ pc'[p] = "alert"
       /\ \A q \in Procs \ {p} : pc'[q] = "idle"
       /\ \A q \in Procs : Process(q, pc[q], my[q])'
  BY <1>1, <1>9, <1>11, <1>14, ProcessesHold, Labels
<1>16. TypeOK'
  BY <1>1, <1>12, <1>15 DEF NotifyInv, TypeOK, queue, health
<1>17. LogInv' /\ \A f \in Facts : posted'[f] <= 1 + faults'
  BY <1>1 DEF NotifyInv, LogInv, queue
<1>18. SavedInv'
  <2>1. \A q \in Procs : pc[q] # "row"
    BY <1>1, Apart
  <2> QED
    BY <1>1, <2>1 DEF NotifyInv, SavedInv, Placed, Told, Repeated, Ahead, SameQueue, Position, queue
<1>19. AlertInv'
  <2>1. ASSUME NEW d \in Conditions, alerts'[d] > 0
        PROVE  config >= 1 /\ alerts'[d] + 1 <= rises[d] + faults + config
    <3>1. alerts[d] > 0 => alerts[d] + 1 <= rises[d] + faults + config
      BY DEF NotifyInv, AlertInv
    <3>2. CASE d = c
      BY <1>1, <1>3, <1>7, <1>12, <3>2 DEF Due
    <3>3. CASE d # c
      BY <1>3, <1>12, <2>1, <3>1, <3>3
    <3> QED
      BY <3>2, <3>3
  <2>2. (\A d \in active : rises[d] >= 1) /\ config >= 1 /\ saved # None /\ ~(\A q \in Procs : pc'[q] # "alert")
    BY <1>3, <1>15 DEF NotifyInv, AlertInv
  <2> QED
    BY <1>1, <2>1, <2>2 DEF AlertInv, health
<1>20. QuietWhenDisabled'
  BY <1>1, <1>15 DEF QuietWhenDisabled, Procs
<1> QED
  BY <1>15, <1>16, <1>17, <1>18, <1>19, <1>20 DEF NotifyInv, Process

\* The state file is written: it has what the process relied on.
LEMMA SaveHolds ==
    ASSUME NotifyInv, NEW p \in Procs, Save(p)
    PROVE  NotifyInv'
<1>1. /\ pc[p] \in DOMAIN AfterSave /\ my \in [Procs -> Local] /\ lock = p /\ (p = Service => timer # "off")
      /\ Process(p, pc[p], my[p]) /\ my[p] \in Local
      /\ UNCHANGED <<queue, health, config, timer, lock, webhook, faults>>
      /\ my' = [my EXCEPT ![p].skip = {}] /\ pc' = [pc EXCEPT ![p] = AfterSave[pc[p]]]
      /\ saved' = my[p].state /\ settled' = settled \cup my[p].skip
      /\ settled \subseteq Facts
  BY HasLock, Labels DEF Save, NotifyInv, TypeOK, Goto
<1>2. PICK m \in Local : m = my[p]
  BY <1>1
<1>3. PICK at \in DOMAIN AfterSave : at = pc[p]
  BY <1>1
<1>4. PICK to \in Label : to = AfterSave[at]
  BY <1>3, Labels DEF AfterSave
<1>5. /\ to \in {"position", "health", "rows", "alerts", "done"} /\ (to = "rows" => at = "row")
      /\ at \in Working /\ to \in Working /\ to # "idle"
  BY <1>3, <1>4, Labels DEF AfterSave
<1>6. /\ Placed(m.state.queue) /\ AllBehind(m.state.queue.sequence, m.skip) /\ Told(m.state.queue, m.skip)
      /\ config >= 1 /\ m.state \in StateFile /\ m.state # None /\ m.todo \subseteq Conditions /\ m.skip \subseteq 1..born
      /\ (at = "row" => m.skip = {})
      /\ (at = "row" => /\ Placed(m.position) /\ SameAsRead(m) /\ m.position \in Cursor /\ InOrder(m) /\ WholePage(m)
                        /\ m.state.queue.sequence <= m.position.sequence)
      /\ (\A c \in active \ m.state.health : Due(c)) /\ (\A c \in m.todo : Due(c))
  BY <1>1, <1>2, <1>3, <1>5, Labels, Numbers DEF Process, Control, Cursors, Reports
<1> DEFINE one == [m EXCEPT !.skip = {}]
<1>7. /\ one \in Local /\ one.state = m.state /\ one.position = m.position /\ one.rows = m.rows /\ one.full = m.full
      /\ one.todo = m.todo /\ one.skip = {}
  BY DEF Local
<1>8. my' = [my EXCEPT ![p] = one]
  BY <1>1, <1>2
<1> HIDE DEF one
<1>9. saved' = m.state /\ settled' = settled \cup m.skip /\ pc' = [pc EXCEPT ![p] = to]
  BY <1>1, <1>2, <1>3, <1>4
<1>10. Placed(m.state.queue)' /\ AllBehind(m.state.queue.sequence, {})' /\ Told(m.state.queue, {})'
  BY <1>1, <1>6, <1>9 DEF Placed, AllBehind, Told, Ahead, Repeated, SameQueue, Position, queue, webhook
<1>11. Process(p, to, one)'
  <2>1. Holder(p, to)'
    BY <1>1, <1>5 DEF Holder
  <2>2. Control(to, one)'
    BY <1>1, <1>5, <1>6, <1>7, <1>9, Labels DEF Control, queue
  <2>3. Reports(to, one)'
    BY <1>1, <1>5, <1>6, <1>7 DEF Reports, Due, health, webhook
  <2>4. ASSUME to = "rows"
        PROVE  (Placed(m.position) /\ SameAsRead(one) /\ InOrder(one) /\ WholePage(one))'
    <3>1. settled' = settled /\ at = "row"
      BY <1>5, <1>6, <1>9, <2>4
    <3> QED
      BY <1>1, <1>6, <1>7, <3>1 DEF Placed, SameAsRead, InOrder, WholePage, Repeated, queue, webhook
  <2>5. Cursors(to, one)'
    BY <1>5, <1>6, <1>7, <1>10, <2>4 DEF Cursors
  <2> QED
    BY <2>1, <2>2, <2>3, <2>5 DEF Process
<1>12. /\ pc' \in [Procs -> Label] /\ my' \in [Procs -> Local] /\ pc'[p] = to
       /\ \A q \in Procs \ {p} : pc'[q] = "idle"
       /\ \A q \in Procs : Process(q, pc[q], my[q])'
  BY <1>1, <1>7, <1>8, <1>9, <1>11, ProcessesHold
<1>13. TypeOK'
  <2>1. settled' \subseteq Facts /\ saved' \in StateFile \cup {None}
    BY <1>1, <1>6, <1>9 DEF Local
  <2> QED
    BY <1>1, <1>12, <2>1 DEF NotifyInv, TypeOK, queue, health, webhook
<1>14. LogInv' /\ \A f \in Facts : posted'[f] <= 1 + faults'
  BY <1>1, <1>6, <1>9 DEF NotifyInv, LogInv, queue, webhook
<1>15. SavedInv'
  <2>1. \A f \in settled' : f \in Facts
    BY <1>13 DEF TypeOK
  <2>2. \A f \in settled' : ~Ahead(f, m.state.queue.sequence)'
    BY <1>10, <2>1 DEF AllBehind
  <2>3. \A f \in Facts : Repeated(f)' => ~Ahead(f, m.state.queue.sequence)'
    BY <1>10 DEF AllBehind
  <2> QED
    BY <1>6, <1>9, <1>10, <2>2, <2>3 DEF SavedInv
<1>16. AlertInv'
  BY <1>1, <1>6, <1>9 DEF NotifyInv, AlertInv, Due, health, webhook
<1>17. QuietWhenDisabled'
  BY <1>1, <1>12 DEF QuietWhenDisabled, Procs
<1> QED
  BY <1>12, <1>13, <1>14, <1>15, <1>16, <1>17 DEF NotifyInv, Process

\* A check that ends, or gives up after a refused post.
LEMMA EndsHold ==
    ASSUME NotifyInv, NEW p \in Procs, LoadNothing(p) \/ PostFails(p) \/ Done(p)
    PROVE  NotifyInv'
<1>1. pc[p] \notin {"idle", "row", "alert"} /\ Leave(p) /\ UNCHANGED World
  BY DEF LoadNothing, PostFails, Done, World
<1> QED
  BY <1>1, LeaveHolds

-----------------------------------------------------------------------------
(* The invariant.                                                          *)

\* Every step keeps the invariant.
LEMMA NotifyStep == NotifyInv /\ [Next]_vars => NotifyInv'
<1> SUFFICES ASSUME NotifyInv, [Next]_vars
             PROVE  NotifyInv'
  OBVIOUS
<1>1. CASE UNCHANGED vars
  <2>1. UNCHANGED <<queue, health, config, saved, webhook, settled, lock, pc, my, faults>> /\ timer' = timer
    BY <1>1 DEF vars
  <2>2. timer \in {"on", "stopping", "off"} /\ (timer = "off" => pc[Service] = "idle")
    BY DEF NotifyInv, TypeOK, QuietWhenDisabled
  <2> QED
    BY <2>1, <2>2, TimerHolds
<1>2. CASE StartConfigure
  BY <1>2, BeginHolds, Numbers DEF StartConfigure, Procs
<1>3. CASE EnableTimer \/ DisableTimer
  BY <1>3, TimerHolds DEF EnableTimer, DisableTimer
<1>4. CASE StopService
  BY <1>4, StopServiceHolds
<1>5. ASSUME NEW p \in Procs, StartCheck(p) PROVE NotifyInv'
  BY <1>5, BeginHolds DEF StartCheck
<1>6. ASSUME NEW p \in Procs, Configure(p) PROVE NotifyInv'
  <2>1. CASE WriteConfig(p)
    BY <2>1, WriteConfigHolds
  <2>2. CASE pc[p] = "cursor" /\ SetCursor(p, "configured")
    <3>1. config >= 1
      BY <2>2, HasLock, Labels DEF Process, Control
    <3> QED
      BY <2>2, <3>1, SetCursorHolds
  <2> QED
    BY <1>6, <2>1, <2>2 DEF Configure
<1>7. ASSUME NEW p \in Procs, Check(p) PROVE NotifyInv'
  <2>1. CASE LoadFirst(p)
    BY <2>1, SetCursorHolds DEF LoadFirst
  <2>2. CASE Load(p) \/ ReadPosition(p)
    BY <2>2, LoadHolds, ReadPositionHolds
  <2>3. CASE Query(p) \/ PostRow(p) \/ RowsDone(p)
    BY <2>3, QueryHolds, PostRowHolds, RowsDoneHolds
  <2>4. CASE ReadHealth(p) \/ PostAlert(p) \/ Save(p)
    BY <2>4, ReadHealthHolds, PostAlertHolds, SaveHolds
  <2>5. CASE LoadNothing(p) \/ PostFails(p) \/ Done(p)
    BY <2>5, EndsHold
  <2> QED
    BY <1>7, <2>1, <2>2, <2>3, <2>4, <2>5 DEF Check
<1>8. ASSUME NEW p \in Procs, ReplyLost(p) \/ Kill(p) PROVE NotifyInv'
  BY <1>8, ReplyLostHolds, KillHolds
<1>9. CASE JobEvent \/ ConditionChanges \/ ReplaceQueue
  BY <1>9, JobEventHolds, ConditionChangesHolds, ReplaceQueueHolds
<1> QED
  BY <1>1, <1>2, <1>3, <1>4, <1>5, <1>6, <1>7, <1>8, <1>9 DEF Next

\* Nothing is configured, recorded or posted at the start.
LEMMA NotifyStart == Init => NotifyInv
<1> SUFFICES ASSUME Init
             PROVE  NotifyInv
  OBVIOUS
<1>1. /\ log = <<>> /\ Len(log) = 0 /\ log \in Seq(Facts) /\ born = 0 /\ replaced = "no" /\ config = 0 /\ saved = None
      /\ failures = {} /\ foreign = {} /\ active = {} /\ settled = {} /\ faults = 0 /\ timer = "off" /\ lock = None
      /\ pc = [p \in Procs |-> "idle"] /\ my = [p \in Procs |-> Blank]
      /\ posted = [f \in Facts |-> 0] /\ alerts = [c \in Conditions |-> 0] /\ rises = [c \in Conditions |-> 0]
  BY DEF Init
<1>2. TypeOK
  <2>1. "idle" \in Label /\ 0 \in 0..MaxEvents /\ 0 \in 0..MaxConfigs /\ 0 \in 0..MaxRises /\ 0 \in 0..MaxFaults
        /\ Len(log) <= MaxEvents
    BY <1>1, Labels, Numbers
  <2> QED
    BY <1>1, <2>1, BlankIsLocal DEF TypeOK
<1>3. LogInv /\ SavedInv /\ AlertInv /\ QuietWhenDisabled
  BY <1>1 DEF LogInv, SavedInv, AlertInv, QuietWhenDisabled, Procs
<1>4. \A f \in Facts : posted[f] <= 1 + faults
  BY <1>1
<1>5. ASSUME NEW p \in Procs PROVE Process(p, pc[p], my[p])
  <2>1. pc[p] = "idle" /\ my[p] = Blank /\ lock # p
    BY <1>1, Numbers
  <2>2. Control("idle", Blank) /\ Cursors("idle", Blank) /\ Reports("idle", Blank)
    BY NothingRead
  <2> QED
    BY <2>1, <2>2 DEF Process, Holder
<1> QED
  BY <1>2, <1>3, <1>4, <1>5 DEF NotifyInv, Process

\* The invariant holds in every reachable state.
LEMMA NotifyAlways == Spec => []NotifyInv
BY NotifyStart, NotifyStep, PTL DEF Spec

\* The files, the locals of the processes and the records keep their types.
THEOREM NotificationsTypes == Spec => []TypeOK
<1>1. NotifyInv => TypeOK
  BY DEF NotifyInv
<1> QED
  BY <1>1, NotifyAlways, PTL

\* Once disable has returned no check of the timer is under way.
THEOREM DisabledStaysQuiet == Spec => []QuietWhenDisabled
<1>1. NotifyInv => QuietWhenDisabled
  BY DEF NotifyInv
<1> QED
  BY <1>1, NotifyAlways, PTL

\* A failure, and a condition that did not clear, is posted again only for a
\* kill, a lost reply or a second configure, whatever interleaves.
THEOREM OnlyExcusedRepeats == Spec => []RepeatsAreExcused
<1>1. NotifyInv => RepeatsAreExcused
  <2> SUFFICES ASSUME NotifyInv
               PROVE  RepeatsAreExcused
    OBVIOUS
  <2>1. /\ alerts \in [Conditions -> Nat] /\ rises \in [Conditions -> Nat] /\ faults \in Nat /\ config \in Nat
    BY Numbers DEF NotifyInv, TypeOK
  <2>2. \A c \in Conditions : alerts[c] > 0 => alerts[c] + 1 <= rises[c] + faults + config
    BY DEF NotifyInv, AlertInv
  <2>3. \A c \in Conditions : alerts[c] > 0 => alerts[c] <= rises[c] + faults + config - 1
    BY <2>1, <2>2
  <2> QED
    BY <2>3 DEF NotifyInv, RepeatsAreExcused
<1> QED
  BY <1>1, NotifyAlways, PTL

\* What is behind the saved cursor was posted, or was history when a cursor was set behind it.
THEOREM NoFailureIsDropped == Spec => []NothingMissed
<1>1. NotifyInv => NothingMissed
  BY DEF NotifyInv, SavedInv, Told, NothingMissed
<1> QED
  BY <1>1, NotifyAlways, PTL

\* No step posts what is history.
THEOREM HistoryIsLeftAlone == Spec => StartsFromNow
<1>1. NotifyInv /\ [Next]_vars => [\A f \in settled : posted'[f] = posted[f]]_vars
  <2> SUFFICES ASSUME NotifyInv, Next, NEW f \in settled
               PROVE  posted'[f] = posted[f]
    BY DEF vars
  <2>1. posted \in [Facts -> Nat] /\ f \in Facts
    BY DEF NotifyInv, TypeOK
  <2>2. ASSUME NEW p \in Procs, pc[p] = "rows", NEW row \in my[p].rows, posted' = [posted EXCEPT ![row.job] = @ + 1]
        PROVE  posted'[f] = posted[f]
    <3>1. row.job \notin settled
      BY <2>2, RowIsNew
    <3> QED
      BY <2>1, <2>2, <3>1
  <2>3. ASSUME NEW p \in Procs, PostRow(p) \/ ReplyLost(p) PROVE posted'[f] = posted[f]
    BY <2>2, <2>3 DEF PostRow, ReplyLost
  <2>4. ASSUME NEW p \in Procs, Check(p), ~PostRow(p) PROVE posted' = posted
    BY <2>4 DEF Check, LoadNothing, LoadFirst, Load, ReadPosition, Query, RowsDone, ReadHealth, PostAlert, Save,
                PostFails, Done, SetCursor, webhook
  <2>5. ASSUME NEW p \in Procs, StartCheck(p) \/ Configure(p) \/ Kill(p) PROVE posted' = posted
    BY <2>5 DEF StartCheck, Configure, Kill, Begin, WriteConfig, SetCursor, webhook
  <2>6. CASE \/ StartConfigure \/ EnableTimer \/ DisableTimer \/ StopService
             \/ JobEvent \/ ConditionChanges \/ ReplaceQueue
    BY <2>6 DEF StartConfigure, EnableTimer, DisableTimer, StopService, JobEvent, ConditionChanges, ReplaceQueue,
                Begin, webhook
  <2> QED
    BY <2>3, <2>4, <2>5, <2>6 DEF Next
<1> QED
  BY <1>1, NotifyAlways, PTL DEF Spec, StartsFromNow
=============================================================================
