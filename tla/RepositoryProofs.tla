-------------------------- MODULE RepositoryProofs --------------------------
(***************************************************************************)
(* Proofs about Repository, for any number of commands, snapshots,         *)
(* packages, publications and kills.                                       *)
(*                                                                         *)
(* The lock makes each command the only one between its first and its last *)
(* step (LockInv), so that what it checked still holds when it acts        *)
(* (StepInv).  Stores only grow and publications are numbered in order, so *)
(* that each links everything that earlier ones need (ContentInv), and a   *)
(* channel only moves to a later publication (SeenInv).                    *)
(***************************************************************************)
EXTENDS Repository, TLAPS

Promoting == {"files", "copy end", "audit", "switch"}

LockInv == \A p \in Procs : pc[p] # "idle" => lock = p

StepOf(p) ==
    /\ pc[p] = "rename" =>
          my[p].snapshot \in Ids /\ snapshots[my[p].snapshot] = {}
    /\ pc[p] \in Promoting =>
          /\ my[p].snapshot \in Ids /\ my[p].channel \in Channel
          /\ snapshots[my[p].snapshot] # {}
          /\ Approved(my[p].snapshot, my[p].channel)
    /\ pc[p] = "copy end" => my[p].file \in Files /\ store[my[p].file] = "partial"
    /\ pc[p] \in {"audit", "switch"} =>
          /\ my[p].publication = Len(publications) /\ my[p].publication # 0
          /\ publications[my[p].publication].snapshot = my[p].snapshot
    /\ pc[p] = "switch" => my[p].publication \in audits

StepInv == \A p \in Procs : StepOf(p)

ContentInv ==
    \A n \in 1..Len(publications) :
        /\ snapshots[publications[n].snapshot] # {}
        /\ \A f \in Needs(publications[n].snapshot) :
              /\ store[f] = "full"
              /\ \A m \in n..Len(publications) : f \in publications[m].links

SeenInv == \A c \in Channel : \A n \in seen[c] : n <= channels[c]

RepositoryInv == TypeOK /\ LockInv /\ StepInv /\ ContentInv /\ SeenInv

-----------------------------------------------------------------------------
\* What a promoted snapshot needs are files of the stores.
LEMMA NeedsAreFiles ==
    ASSUME snapshots \in [Ids -> SUBSET Packages], NEW s \in Ids, snapshots[s] # {}
    PROVE  Needs(s) \subseteq Files
<1>1. snapshots[s] \in SUBSET Packages /\ snapshots[s] # {}
  OBVIOUS
<1>2. snapshots[s] \in Indexes
  BY <1>1 DEF Indexes
<1> QED
  BY <1>1, <1>2 DEF Needs, Files

\* The locals of a process that has just started are well typed.
LEMMA LocalsType ==
    /\ Blank \in Locals
    /\ \A s \in Ids, c \in Channel : [Blank EXCEPT !.snapshot = s, !.channel = c] \in Locals
    /\ \A s \in Ids, S \in SUBSET Packages : [Blank EXCEPT !.snapshot = s, !.source = S] \in Locals
<1> USE DEF Blank, Locals
<1>1. 0 \in 0..MaxPublications
  BY BoundAssumption
<1>2. Blank \in Locals
  BY <1>1
<1>3. ASSUME NEW s \in Ids, NEW c \in Channel
      PROVE  [Blank EXCEPT !.snapshot = s, !.channel = c] \in Locals
  BY <1>1
<1>4. ASSUME NEW s \in Ids, NEW S \in SUBSET Packages
      PROVE  [Blank EXCEPT !.snapshot = s, !.source = S] \in Locals
  BY <1>1
<1> QED
  BY <1>2, <1>3, <1>4

\* What Append does to a sequence.
LEMMA AppendFacts ==
    ASSUME NEW S, NEW s \in Seq(S), NEW e \in S
    PROVE  /\ Len(s) \in Nat /\ Len(Append(s, e)) = Len(s) + 1
           /\ Append(s, e) \in Seq(S)
           /\ \A n \in 1..Len(s) : Append(s, e)[n] = s[n]
           /\ Append(s, e)[Len(s) + 1] = e
OBVIOUS

\* The elements of a sequence over a set are in the set.
LEMMA ElementFacts == ASSUME NEW S, NEW s \in Seq(S) PROVE \A n \in 1..Len(s) : s[n] \in S
OBVIOUS

\* One more number is added at the end of an interval.
LEMMA IntervalGrows ==
    ASSUME NEW n \in Nat
    PROVE  0..n \subseteq 0..(n + 1) /\ 1..n \subseteq 1..(n + 1) /\ n + 1 \in 1..(n + 1)
OBVIOUS

\* Every publication is of a snapshot.
LEMMA PublicationType == TypeOK => \A n \in 1..Len(publications) : publications[n].snapshot \in Ids
<1>1. ASSUME publications \in Seq(Publication), NEW n \in 1..Len(publications)
      PROVE  publications[n] \in Publication
  BY <1>1, ElementFacts
<1> QED
  BY <1>1 DEF TypeOK, Publication

\* Publications are numbered by naturals.
LEMMA LenType == TypeOK => Len(publications) \in Nat
<1>1. ASSUME NEW S, NEW s \in Seq(S) PROVE Len(s) \in Nat
  OBVIOUS
<1> QED
  BY <1>1 DEF TypeOK

\* The publication that is audited and switched to is the last one.
LEMMA LastPublication ==
    ASSUME TypeOK, StepInv, NEW p \in Procs, pc[p] \in {"audit", "switch"}
    PROVE  my[p].publication \in 1..Len(publications) /\ my[p].publication \in 0..Len(publications)
<1>1. my[p].publication = Len(publications) /\ my[p].publication # 0
  BY DEF StepInv, StepOf
<1>2. Len(publications) \in Nat
  BY LenType
<1> QED
  BY <1>1, <1>2

\* A new publication is added to a sequence of publications.
LEMMA PublishType ==
    ASSUME TypeOK, NEW p \in Procs, my[p].snapshot \in Ids, my[p].channel \in Channel, Publish(p)
    PROVE  /\ publications' \in Seq(Publication)
           /\ Len(publications') = Len(publications) + 1
           /\ Len(publications') <= MaxPublications
           /\ my' \in [Procs -> Locals]
<1> DEFINE pub == [snapshot |-> my[p].snapshot, channel |-> my[p].channel, links |-> Linked(p)]
<1>1. pub \in Publication
  BY DEF Linked, Publication
<1>2. publications' = Append(publications, pub) /\ publications \in Seq(Publication)
  BY DEF Publish, TypeOK
<1>3. publications' \in Seq(Publication)
  BY <1>1, <1>2, AppendFacts
<1>4. Len(publications') = Len(publications) + 1 /\ Len(publications) \in Nat
  BY <1>1, <1>2, AppendFacts
<1>5. Len(publications') \in 0..MaxPublications
  BY <1>4, BoundAssumption DEF Publish
<1>6. my' = [my EXCEPT ![p].publication = Len(publications')] /\ my \in [Procs -> Locals]
  BY DEF Publish, TypeOK
<1>7. [my[p] EXCEPT !.publication = Len(publications')] \in Locals
  BY <1>5, <1>6 DEF Locals
<1> QED
  BY <1>3, <1>4, <1>5, <1>6, <1>7

\* The new publication is the last one; the earlier ones stay as they are.
LEMMA PublishFacts ==
    ASSUME TypeOK, NEW p \in Procs, my[p].snapshot \in Ids, my[p].channel \in Channel, Publish(p)
    PROVE  /\ publications'[Len(publications')].snapshot = my[p].snapshot
           /\ publications'[Len(publications')].links = Linked(p)
           /\ \A n \in 1..Len(publications) : publications'[n] = publications[n]
<1> DEFINE pub == [snapshot |-> my[p].snapshot, channel |-> my[p].channel, links |-> Linked(p)]
<1>1. pub \in Publication
  BY DEF Linked, Publication
<1>2. publications' = Append(publications, pub) /\ publications \in Seq(Publication)
  BY DEF Publish, TypeOK
<1>3. /\ publications'[Len(publications')] = pub
      /\ \A n \in 1..Len(publications) : publications'[n] = publications[n]
  BY <1>1, <1>2, AppendFacts
<1> QED
  BY <1>3

\* Every step keeps the types.
LEMMA TypeStep == RepositoryInv /\ [Next]_vars => TypeOK'
<1> SUFFICES ASSUME RepositoryInv, [Next]_vars PROVE TypeOK'
  OBVIOUS
<1> USE DEF RepositoryInv, TypeOK, tree, Goto
<1>1. ASSUME NEW p \in Procs, NEW s \in Ids, StartSnapshot(p, s) PROVE TypeOK'
  <2>1. PICK source \in Indexes :
           Begin(p, [Blank EXCEPT !.snapshot = s, !.source = source], "rename")
    BY <1>1 DEF StartSnapshot
  <2>2. [Blank EXCEPT !.snapshot = s, !.source = source] \in Locals
    BY LocalsType DEF Indexes
  <2> QED
    BY <2>1, <2>2 DEF Begin
<1>2. ASSUME NEW p \in Procs, RenameSnapshot(p) PROVE TypeOK'
  BY <1>2, LocalsType DEF RenameSnapshot, Leave, StepInv, StepOf, Locals
<1>3. ASSUME NEW p \in Procs, NEW s \in Ids, NEW c \in Channel, StartPromote(p, s, c) PROVE TypeOK'
  BY <1>3, LocalsType DEF StartPromote, Begin
<1>4. ASSUME NEW p \in Procs, CopyBegin(p) PROVE TypeOK'
  <2>1. PICK f \in Missing(p) : /\ store' = [store EXCEPT ![f] = "partial"]
                                /\ my' = [my EXCEPT ![p].file = f]
    BY <1>4 DEF CopyBegin
  <2>2. f \in Files
    BY <1>4, NeedsAreFiles DEF CopyBegin, Missing, StepInv, StepOf, Promoting
  <2>3. [my[p] EXCEPT !.file = f] \in Locals
    BY ZenonT(40), <2>2 DEF Locals
  <2> QED
    BY <1>4, <2>1, <2>2, <2>3 DEF CopyBegin
<1>5. ASSUME NEW p \in Procs, CopyEnd(p) PROVE TypeOK'
  <2>1. [my[p] EXCEPT !.file = None] \in Locals
    BY ZenonT(40) DEF Locals
  <2> QED
    BY <1>5, <2>1 DEF CopyEnd
<1>6. ASSUME NEW p \in Procs, Publish(p) PROVE TypeOK'
  <2>1. my[p].snapshot \in Ids /\ my[p].channel \in Channel
    BY <1>6 DEF Publish, StepInv, StepOf, Promoting
  <2>2. Len(publications) \in Nat /\ Len(publications') = Len(publications) + 1
    BY <1>6, <2>1, LenType, PublishType
  <2>3. /\ 0..Len(publications) \subseteq 0..Len(publications')
        /\ 1..Len(publications) \subseteq 1..Len(publications')
    BY <2>2, IntervalGrows
  <2> QED
    BY <1>6, <2>1, <2>3, PublishType DEF Publish
<1>7. ASSUME NEW p \in Procs, WriteAudit(p) PROVE TypeOK'
  <2>1. my[p].publication \in 1..Len(publications)
    BY <1>7, LastPublication DEF WriteAudit
  <2> QED
    BY <1>7, <2>1 DEF WriteAudit, Audited
<1>8. ASSUME NEW p \in Procs, Switch(p) PROVE TypeOK'
  <2>1. my[p].publication \in 1..Len(publications) /\ my[p].channel \in Channel
    BY <1>8, LastPublication DEF Switch, StepInv, StepOf, Promoting
  <2> QED
    <3>1. my' \in [Procs -> Locals] /\ pc' = [pc EXCEPT ![p] = "idle"] /\ lock' \in Procs \cup {None}
      BY <1>8, LocalsType DEF Switch, Leave
    <3>2. channels' \in [Channel -> 0..Len(publications)]
      <4>1. my[p].publication \in 0..Len(publications)
        BY <1>8, LastPublication DEF Switch
      <4> QED
        BY <1>8, <2>1, <4>1 DEF Switch
    <3>3. seen' \in [Channel -> SUBSET (1..Len(publications))]
      BY ZenonT(40), <1>8, <2>1 DEF Switch
    <3> QED
      BY <1>8, <3>1, <3>2, <3>3 DEF Switch
<1>9. ASSUME NEW p \in Procs, Refuse(p) PROVE TypeOK'
  BY <1>9, LocalsType DEF Refuse, Leave
<1>10. ASSUME NEW p \in Procs, Kill(p) PROVE TypeOK'
  <2>1. kills' \in Nat
    <3>1. kills \in Nat /\ kills' = kills + 1
      BY <1>10 DEF Kill
    <3> QED
      BY ONLY <3>1
  <2> QED
    BY <1>10, <2>1, LocalsType DEF Kill, Leave
<1>11. ASSUME UNCHANGED vars PROVE TypeOK'
  BY <1>11 DEF vars
<1> QED
  BY <1>1, <1>2, <1>3, <1>4, <1>5, <1>6, <1>7, <1>8, <1>9, <1>10, <1>11
  DEF Next, Snapshot, Promote

-----------------------------------------------------------------------------
\* While one command holds the lock, or takes it, no other is under way.
LEMMA Alone ==
    ASSUME LockInv, NEW p \in Procs, pc[p] # "idle" \/ lock = None, NEW q \in Procs, q # p
    PROVE  pc[q] = "idle"
BY NoneAssumption DEF LockInv

\* Every step keeps the lock with the command that is under way.
LEMMA LockStep == RepositoryInv /\ [Next]_vars => LockInv'
<1> SUFFICES ASSUME TypeOK, LockInv, [Next]_vars PROVE LockInv'
  BY DEF RepositoryInv
<1>1. ASSUME NEW p \in Procs, NEW r, NEW label, Begin(p, r, label) PROVE LockInv'
  BY <1>1, Alone DEF Begin, LockFree, LockInv, TypeOK
<1>2. ASSUME NEW p \in Procs, pc[p] # "idle", NEW label, Goto(p, label) PROVE LockInv'
  BY <1>2 DEF Goto, LockInv, TypeOK
<1>3. ASSUME NEW p \in Procs, pc[p] # "idle", Leave(p) PROVE LockInv'
  BY <1>3, Alone DEF Leave, LockInv, TypeOK
<1>4. ASSUME UNCHANGED vars PROVE LockInv'
  BY <1>4 DEF vars, LockInv
<1> QED
  BY <1>1, <1>2, <1>3, <1>4
  DEF Next, Snapshot, Promote, StartSnapshot, RenameSnapshot, StartPromote, CopyBegin, CopyEnd,
      Publish, WriteAudit, Switch, Refuse, Kill

\* A step only has to re-establish StepOf for the command that takes it.
LEMMA StepOfOne ==
    ASSUME TypeOK, LockInv, NEW p \in Procs, pc[p] # "idle" \/ lock = None,
           NEW label, pc' = [pc EXCEPT ![p] = label], StepOf(p)'
    PROVE  StepInv'
<1> SUFFICES ASSUME NEW q \in Procs, q # p PROVE StepOf(q)'
  BY DEF StepInv
<1>1. pc[q] = "idle"
  BY Alone
<1>2. pc'[q] = "idle"
  BY <1>1 DEF TypeOK
<1> QED
  BY <1>2 DEF StepOf, Promoting

\* A command that ends has nothing left to re-establish.
LEMMA StepOfNone ==
    ASSUME TypeOK, LockInv, NEW p \in Procs, pc[p] # "idle", Leave(p)
    PROVE  StepInv'
<1>1. pc' = [pc EXCEPT ![p] = "idle"]
  BY DEF Leave
<1>2. pc'[p] = "idle"
  BY <1>1 DEF TypeOK
<1>3. StepOf(p)'
  BY <1>2 DEF StepOf, Promoting
<1> QED
  BY <1>1, <1>3, StepOfOne

\* Every step keeps what the command under way has established.
LEMMA StepStep == RepositoryInv /\ [Next]_vars => StepInv'
<1> SUFFICES ASSUME TypeOK, LockInv, StepInv, [Next]_vars PROVE StepInv'
  BY DEF RepositoryInv
<1>1. ASSUME NEW p \in Procs, NEW s \in Ids, StartSnapshot(p, s) PROVE StepInv'
  <2>1. PICK source \in Indexes :
           Begin(p, [Blank EXCEPT !.snapshot = s, !.source = source], "rename")
    BY <1>1 DEF StartSnapshot
  <2>2. pc'[p] = "rename" /\ my'[p].snapshot = s /\ snapshots'[s] = {}
    BY <1>1, <2>1 DEF StartSnapshot, Begin, TypeOK, Blank, tree
  <2>3. StepOf(p)'
    BY <2>2 DEF StepOf, Promoting
  <2> QED
    BY <2>1, <2>3, StepOfOne DEF Begin, LockFree
<1>2. ASSUME NEW p \in Procs, RenameSnapshot(p) PROVE StepInv'
  BY <1>2, StepOfNone DEF RenameSnapshot
<1>3. ASSUME NEW p \in Procs, NEW s \in Ids, NEW c \in Channel, StartPromote(p, s, c) PROVE StepInv'
  <2>1. /\ pc'[p] = "files" /\ my'[p].snapshot = s /\ my'[p].channel = c
        /\ UNCHANGED tree
    BY <1>3 DEF StartPromote, Begin, TypeOK, Blank
  <2>2. StepOf(p)'
    BY <1>3, <2>1 DEF StepOf, StartPromote, Approved, tree
  <2> QED
    BY <1>3, <2>2, StepOfOne DEF StartPromote, Begin, LockFree
<1>4. ASSUME NEW p \in Procs, CopyBegin(p) PROVE StepInv'
  <2>1. PICK f \in Missing(p) : /\ store' = [store EXCEPT ![f] = "partial"]
                                /\ my' = [my EXCEPT ![p].file = f]
    BY <1>4 DEF CopyBegin
  <2>2. pc[p] = "files" /\ StepOf(p)
    BY <1>4 DEF CopyBegin, StepInv
  <2>3. f \in Files
    BY <2>2, NeedsAreFiles DEF Missing, StepOf, Promoting, TypeOK
  <2>4. pc' = [pc EXCEPT ![p] = "copy end"] /\ UNCHANGED <<snapshots, publications, channels>>
    BY <1>4 DEF CopyBegin, Goto
  <2>5. /\ pc'[p] = "copy end" /\ my'[p].file = f /\ store'[f] = "partial"
        /\ my'[p].snapshot = my[p].snapshot /\ my'[p].channel = my[p].channel
    BY <2>1, <2>3, <2>4 DEF TypeOK, Locals
  <2>6. StepOf(p)'
    BY <2>2, <2>3, <2>4, <2>5 DEF StepOf, Promoting, Approved
  <2> QED
    BY <2>2, <2>4, <2>6, StepOfOne
<1>5. ASSUME NEW p \in Procs, CopyEnd(p) PROVE StepInv'
  <2>1. pc[p] = "copy end" /\ StepOf(p)
    BY <1>5 DEF CopyEnd, StepInv
  <2>2. pc' = [pc EXCEPT ![p] = "files"] /\ UNCHANGED <<snapshots, publications, channels>>
    BY <1>5 DEF CopyEnd, Goto
  <2>3. pc'[p] = "files" /\ my'[p].snapshot = my[p].snapshot /\ my'[p].channel = my[p].channel
    BY <1>5, <2>2 DEF CopyEnd, TypeOK, Locals
  <2>4. StepOf(p)'
    BY <2>1, <2>2, <2>3 DEF StepOf, Promoting, Approved
  <2> QED
    BY <2>1, <2>2, <2>4, StepOfOne
<1>6. ASSUME NEW p \in Procs, Publish(p) PROVE StepInv'
  <2>1. pc[p] = "files" /\ StepOf(p)
    BY <1>6 DEF Publish, StepInv
  <2>2. pc' = [pc EXCEPT ![p] = "audit"] /\ UNCHANGED <<snapshots, channels>>
    BY <1>6 DEF Publish, Goto
  <2>3. /\ pc'[p] = "audit" /\ my'[p].publication = Len(publications')
        /\ my'[p].snapshot = my[p].snapshot /\ my'[p].channel = my[p].channel
    BY ZenonT(40), <1>6, <2>2 DEF Publish, TypeOK, Locals
  <2>4. Len(publications') = Len(publications) + 1 /\ Len(publications) \in Nat
    BY <1>6, <2>1, PublishType, LenType DEF StepOf, Promoting
  <2>5. /\ publications'[Len(publications')].snapshot = my[p].snapshot
        /\ \A n \in 1..Len(publications) : publications'[n] = publications[n]
    BY <1>6, <2>1, PublishFacts DEF StepOf, Promoting
  <2>6. Approved(my[p].snapshot, my[p].channel)'
    <3>1. Approved(my[p].snapshot, my[p].channel)
      BY <2>1 DEF StepOf, Promoting
    <3>2. channels["testing"] \in 0..Len(publications)
      BY DEF TypeOK, Channel
    <3>3. channels["testing"] # 0 => channels["testing"] \in 1..Len(publications)
      BY <2>4, <3>2
    <3> QED
      BY <2>2, <2>3, <2>5, <3>1, <3>3 DEF Approved
  <2>7. my'[p].publication # 0
    BY <2>3, <2>4
  <2>8. publications'[my'[p].publication].snapshot = my'[p].snapshot
    BY <2>3, <2>5
  <2>9. StepOf(p)'
    BY <2>1, <2>2, <2>3, <2>6, <2>7, <2>8 DEF StepOf, Promoting
  <2> QED
    BY <2>1, <2>2, <2>9, StepOfOne
<1>7. ASSUME NEW p \in Procs, WriteAudit(p) PROVE StepInv'
  <2>1. pc[p] = "audit" /\ StepOf(p)
    BY <1>7 DEF WriteAudit, StepInv
  <2>2. /\ pc' = [pc EXCEPT ![p] = "switch"]
        /\ UNCHANGED <<snapshots, publications, channels, my>>
        /\ my[p].publication \in audits'
    BY <1>7 DEF WriteAudit, Goto, Audited
  <2>3. pc'[p] = "switch"
    BY <2>2 DEF TypeOK
  <2>4. StepOf(p)'
    BY <2>1, <2>2, <2>3 DEF StepOf, Promoting, Approved
  <2> QED
    BY <2>1, <2>2, <2>4, StepOfOne
<1>8. ASSUME NEW p \in Procs, Switch(p) PROVE StepInv'
  BY <1>8, StepOfNone DEF Switch
<1>9. ASSUME NEW p \in Procs, Refuse(p) PROVE StepInv'
  BY <1>9, StepOfNone DEF Refuse
<1>10. ASSUME NEW p \in Procs, Kill(p) PROVE StepInv'
  BY <1>10, StepOfNone DEF Kill
<1>11. ASSUME UNCHANGED vars PROVE StepInv'
  BY <1>11 DEF vars, tree, StepInv, StepOf, Approved
<1> QED
  BY <1>1, <1>2, <1>3, <1>4, <1>5, <1>6, <1>7, <1>8, <1>9, <1>10, <1>11
  DEF Next, Snapshot, Promote

-----------------------------------------------------------------------------
\* What every publication needs is whole, and linked by all that follow it,
\* as long as the snapshots that were published and the files that are full
\* stay as they are.
LEMMA ContentKept ==
    ASSUME TypeOK, ContentInv, UNCHANGED publications,
           \A s \in Ids : snapshots[s] # {} => snapshots'[s] = snapshots[s],
           \A f \in Files : store[f] = "full" => store'[f] = "full"
    PROVE  ContentInv'
<1> SUFFICES ASSUME NEW n \in 1..Len(publications)
             PROVE  /\ snapshots'[publications[n].snapshot] # {}
                    /\ \A f \in Needs(publications[n].snapshot)' :
                          /\ store'[f] = "full"
                          /\ \A m \in n..Len(publications) : f \in publications[m].links
  BY DEF ContentInv
<1>1. publications[n].snapshot \in Ids
  BY PublicationType
<1>2. /\ snapshots[publications[n].snapshot] # {}
      /\ \A f \in Needs(publications[n].snapshot) :
            /\ store[f] = "full"
            /\ \A m \in n..Len(publications) : f \in publications[m].links
  BY DEF ContentInv
<1>3. snapshots'[publications[n].snapshot] = snapshots[publications[n].snapshot]
  BY <1>1, <1>2
<1>4. Needs(publications[n].snapshot) \subseteq Files
  BY <1>1, <1>2, NeedsAreFiles DEF TypeOK
<1>5. Needs(publications[n].snapshot)' = Needs(publications[n].snapshot)
  BY <1>3 DEF Needs
<1> QED
  BY <1>2, <1>3, <1>4, <1>5

\* A publication links all that it and the earlier ones need.
LEMMA PublishContent ==
    ASSUME RepositoryInv, NEW p \in Procs, Publish(p) PROVE ContentInv'
<1>1. /\ my[p].snapshot \in Ids /\ my[p].channel \in Channel /\ snapshots[my[p].snapshot] # {}
      /\ TypeOK /\ ContentInv /\ UNCHANGED <<snapshots, store>>
      /\ \A f \in Needs(my[p].snapshot) : store[f] = "full"
  BY DEF RepositoryInv, StepInv, StepOf, Promoting, Publish, Sound
<1>2. Len(publications') = Len(publications) + 1 /\ Len(publications) \in Nat
  BY <1>1, PublishType, LenType
<1>3. /\ publications'[Len(publications')].snapshot = my[p].snapshot
      /\ publications'[Len(publications')].links = Linked(p)
      /\ \A n \in 1..Len(publications) : publications'[n] = publications[n]
  BY <1>1, PublishFacts
<1>4. ASSUME NEW f \in Files, store[f] = "full" PROVE f \in Linked(p)
  BY <1>4 DEF Linked
<1> SUFFICES ASSUME NEW n \in 1..Len(publications')
             PROVE  /\ snapshots[publications'[n].snapshot] # {}
                    /\ \A f \in Needs(publications'[n].snapshot) :
                          /\ store[f] = "full"
                          /\ \A m \in n..Len(publications') : f \in publications'[m].links
  BY <1>1 DEF ContentInv, Needs
<1>5. CASE n = Len(publications')
  <2>1. publications'[n].snapshot = my[p].snapshot
    BY <1>3, <1>5
  <2>2. Needs(my[p].snapshot) \subseteq Files
    BY <1>1, NeedsAreFiles DEF TypeOK
  <2>3. n..Len(publications') = {n}
    BY <1>2, <1>5
  <2> QED
    BY <1>1, <1>3, <1>4, <1>5, <2>1, <2>2, <2>3
<1>6. CASE n # Len(publications')
  <2>1. n \in 1..Len(publications)
    BY <1>2, <1>6
  <2>2. /\ publications'[n] = publications[n]
        /\ publications[n].snapshot \in Ids
    BY <1>1, <1>3, <2>1, PublicationType
  <2>3. /\ snapshots[publications[n].snapshot] # {}
        /\ \A f \in Needs(publications[n].snapshot) :
              /\ store[f] = "full"
              /\ \A m \in n..Len(publications) : f \in publications[m].links
    BY <1>1, <2>1 DEF ContentInv
  <2>4. Needs(publications[n].snapshot) \subseteq Files
    BY <1>1, <2>2, <2>3, NeedsAreFiles DEF TypeOK
  <2>5. ASSUME NEW f \in Needs(publications[n].snapshot), NEW m \in n..Len(publications')
        PROVE  f \in publications'[m].links
    <3>1. CASE m = Len(publications')
      BY <1>3, <1>4, <2>3, <2>4, <3>1
    <3>2. CASE m # Len(publications')
      <4>1. m \in n..Len(publications) /\ m \in 1..Len(publications)
        BY SMTT(30), <1>2, <2>1, <3>2
      <4> QED
        BY <1>3, <2>3, <4>1
    <3> QED
      BY <3>1, <3>2
  <2> QED
    BY <2>2, <2>3, <2>5
<1> QED
  BY <1>5, <1>6

\* Every step keeps the published content.
LEMMA ContentStep == RepositoryInv /\ [Next]_vars => ContentInv'
<1> SUFFICES ASSUME RepositoryInv, TypeOK, StepInv, ContentInv, [Next]_vars PROVE ContentInv'
  BY DEF RepositoryInv
<1>1. ASSUME UNCHANGED <<snapshots, store, publications>> PROVE ContentInv'
  BY <1>1, ContentKept
<1>2. ASSUME NEW p \in Procs, RenameSnapshot(p) PROVE ContentInv'
  <2>1. my[p].snapshot \in Ids /\ snapshots[my[p].snapshot] = {}
    BY <1>2 DEF RenameSnapshot, StepInv, StepOf
  <2>2. \A s \in Ids : snapshots[s] # {} => snapshots'[s] = snapshots[s]
    BY <1>2, <2>1 DEF RenameSnapshot, TypeOK
  <2> QED
    BY <1>2, <2>2, ContentKept DEF RenameSnapshot
<1>3. ASSUME NEW p \in Procs, CopyBegin(p) PROVE ContentInv'
  <2>1. \A f \in Files : store[f] = "full" => store'[f] = "full"
    BY <1>3 DEF CopyBegin, Missing, TypeOK
  <2> QED
    BY <1>3, <2>1, ContentKept DEF CopyBegin
<1>4. ASSUME NEW p \in Procs, CopyEnd(p) PROVE ContentInv'
  <2>1. \A f \in Files : store[f] = "full" => store'[f] = "full"
    BY <1>4 DEF CopyEnd, TypeOK
  <2> QED
    BY <1>4, <2>1, ContentKept DEF CopyEnd
<1>5. ASSUME NEW p \in Procs, Publish(p) PROVE ContentInv'
  BY <1>5, PublishContent
<1> QED
  BY <1>1, <1>2, <1>3, <1>4, <1>5
  DEF Next, Snapshot, Promote, StartSnapshot, StartPromote, Begin, WriteAudit, Switch, Refuse,
      Kill, tree, vars

\* A channel only moves forward, past all that its clients have seen.
LEMMA SeenStep == RepositoryInv /\ [Next]_vars => SeenInv'
<1> SUFFICES ASSUME TypeOK, StepInv, SeenInv, [Next]_vars PROVE SeenInv'
  BY DEF RepositoryInv
<1>1. ASSUME UNCHANGED <<channels, seen>> PROVE SeenInv'
  BY <1>1 DEF SeenInv
<1>2. ASSUME NEW p \in Procs, Switch(p) PROVE SeenInv'
  <2>1. my[p].publication = Len(publications) /\ Len(publications) \in Nat
    BY <1>2, LenType DEF Switch, StepInv, StepOf
  <2> SUFFICES ASSUME NEW c \in Channel, NEW n \in seen'[c] PROVE n <= channels'[c]
    BY DEF SeenInv
  <2>2. CASE c = my[p].channel
    <3>1. channels'[c] = Len(publications)
      BY <1>2, <2>1, <2>2 DEF Switch, TypeOK
    <3>2. n \in seen[c] \/ n = Len(publications)
      BY <1>2, <2>1, <2>2 DEF Switch, TypeOK
    <3>3. seen[c] \subseteq 1..Len(publications)
      BY DEF TypeOK
    <3> QED
      BY <2>1, <3>1, <3>2, <3>3
  <2>3. CASE c # my[p].channel
    BY <1>2, <2>3 DEF Switch, SeenInv, TypeOK
  <2> QED
    BY <2>2, <2>3
<1> QED
  BY ZenonT(40), <1>1, <1>2
  DEF Next, Snapshot, Promote, StartSnapshot, StartPromote, RenameSnapshot, Begin, CopyBegin,
      CopyEnd, Publish, WriteAudit, Refuse, Kill, tree, vars

-----------------------------------------------------------------------------
\* Nothing is there when the repository is created.
LEMMA InitInv == Init => RepositoryInv
<1> SUFFICES ASSUME Init PROVE RepositoryInv
  OBVIOUS
<1>1. Len(publications) = 0 /\ publications \in Seq(Publication)
  BY DEF Init
<1>2. TypeOK
  <2>1. channels \in [Channel -> 0..Len(publications)] /\ Len(publications) <= MaxPublications
    BY <1>1, BoundAssumption DEF Init
  <2>2. kills \in Nat /\ my \in [Procs -> Locals]
    BY LocalsType DEF Init
  <2> QED
    BY <1>1, <2>1, <2>2 DEF Init, TypeOK
<1>3. LockInv /\ StepInv /\ SeenInv
  BY DEF Init, LockInv, StepInv, StepOf, Promoting, SeenInv
<1>4. ContentInv
  BY <1>1 DEF ContentInv
<1> QED
  BY <1>2, <1>3, <1>4 DEF RepositoryInv

\* RepositoryInv is an inductive invariant.
THEOREM Invariance == Spec => []RepositoryInv
<1>1. RepositoryInv /\ [Next]_vars => RepositoryInv'
  BY TypeStep, LockStep, StepStep, ContentStep, SeenStep DEF RepositoryInv
<1> QED
  BY InitInv, <1>1, PTL DEF Spec

\* TypeOK: what the files and the locals of repo.py hold.
THEOREM RepositoryTypes == Spec => []TypeOK
<1>1. RepositoryInv => TypeOK
  BY DEF RepositoryInv
<1> QED
  BY <1>1, Invariance, PTL

\* ClientsAreServed: packages and indexes that any earlier publication of a
\* channel led to stay whole behind it, after any promotions and kills.
THEOREM ClientsStayServed == Spec => []ClientsAreServed
<1>1. RepositoryInv => ClientsAreServed
  <2> SUFFICES ASSUME RepositoryInv, NEW c \in Channel, NEW n \in seen[c],
                      NEW f \in Needs(publications[n].snapshot)
               PROVE  f \in publications[channels[c]].links /\ store[f] = "full"
    BY DEF ClientsAreServed
  <2>1. TypeOK /\ ContentInv /\ n <= channels[c]
    BY DEF RepositoryInv, SeenInv
  <2>2. n \in 1..Len(publications) /\ channels[c] \in 0..Len(publications) /\ Len(publications) \in Nat
    BY <2>1, LenType DEF TypeOK
  <2>3. channels[c] \in n..Len(publications)
    BY <2>1, <2>2
  <2> QED
    BY SMTT(30), <2>1, <2>2, <2>3 DEF ContentInv
<1> QED
  BY <1>1, Invariance, PTL

\* StableIsTested: stable moves only to the snapshot that testing serves at
\* that moment, with the audit record written.
THEOREM StableStaysTested == Spec => StableIsTested
<1> DEFINE Tested ==
        channels'["stable"] # channels["stable"] =>
          /\ channels["testing"] # 0
          /\ publications[channels'["stable"]].snapshot = publications[channels["testing"]].snapshot
          /\ channels'["stable"] \in audits
<1>1. RepositoryInv /\ [Next]_vars => [Tested]_vars
  <2> SUFFICES ASSUME RepositoryInv, [Next]_vars PROVE Tested
    OBVIOUS
  <2>1. ASSUME UNCHANGED channels PROVE Tested
    BY <2>1
  <2>2. ASSUME NEW p \in Procs, Switch(p) PROVE Tested
    <3>1. CASE my[p].channel = "stable"
      <4>1. StepOf(p) /\ pc[p] = "switch" /\ TypeOK
        BY <2>2 DEF RepositoryInv, StepInv, Switch
      <4>2. channels'["stable"] = my[p].publication
        BY <2>2, <3>1, <4>1 DEF Switch, TypeOK, Channel
      <4> QED
        BY <3>1, <4>1, <4>2 DEF StepOf, Promoting, Approved
    <3>2. CASE my[p].channel # "stable"
      BY <2>2, <3>2 DEF Switch, RepositoryInv, TypeOK, Channel
    <3> QED
      BY <3>1, <3>2
  <2> QED
    BY <2>1, <2>2
    DEF Next, Snapshot, Promote, StartSnapshot, StartPromote, RenameSnapshot, Begin, CopyBegin,
        CopyEnd, Publish, WriteAudit, Refuse, Kill, tree, vars
<1> QED
  BY <1>1, Invariance, PTL DEF Spec, StableIsTested
=============================================================================
