----------------------------- MODULE Repository -----------------------------
(***************************************************************************)
(* scripts/repo.py: immutable snapshots of a package repository, promoted  *)
(* to the testing channel and from there to stable.  Every promotion adds  *)
(* the snapshot's packages and index to stores that only grow, publishes a *)
(* directory with hard links to all of them, writes an audit record and    *)
(* then replaces the channel's link.  Commands wait for one lock; a        *)
(* command may be killed, or fail, between any two steps.                  *)
(*                                                                         *)
(* A package stands for its bytes and an index for the packages it lists:  *)
(* both stores name files by their digest.  Signatures are taken to be     *)
(* right or refused.                                                       *)
(***************************************************************************)
EXTENDS Naturals, Sequences, FiniteSets

CONSTANTS
    Procs,              \* administrators' commands
    Ids,                \* snapshot identifiers
    Packages,           \* .deb files
    None,               \* no process, no file
    MaxPublications,    \* bound on publications
    MaxKills            \* bound on commands that are killed

ASSUME NoneAssumption  == None \notin Procs
ASSUME BoundAssumption == {MaxPublications, MaxKills} \subseteq Nat

VARIABLES
    snapshots,          \* snapshots/<id>: the packages listed, {} if absent
    store,              \* pool and index-by-hash: "absent", "partial" or "full"
    publications,       \* publications/<channel>/<id>-<uuid>, in order
    audits,             \* audit/: the publications with a record
    channels,           \* channels/<channel>: a publication, 0 if absent
    seen,               \* per channel, the publications clients have been led to
    lock,               \* flock on .repository.lock
    pc, my,             \* per process: its next step and its locals
    kills

tree == <<snapshots, store, publications, audits, channels, seen>>
vars == <<tree, lock, pc, my, kills>>

Channel  == {"testing", "stable"}
Indexes  == (SUBSET Packages) \ {{}}
Files    == Packages \cup Indexes
Needs(s) == snapshots[s] \cup {snapshots[s]}

Publication == [snapshot : Ids, channel : Channel, links : SUBSET Files]

Locals == [snapshot : Ids \cup {None}, channel : Channel \cup {None},
           source : SUBSET Packages, file : Files \cup {None}, publication : 0..MaxPublications]
Blank  == [snapshot |-> None, channel |-> None, source |-> {}, file |-> None, publication |-> 0]

Init ==
    /\ snapshots = [s \in Ids |-> {}]
    /\ store = [f \in Files |-> "absent"]
    /\ publications = <<>> /\ audits = {}
    /\ channels = [c \in Channel |-> 0]
    /\ seen = [c \in Channel |-> {}]
    /\ lock = None
    /\ pc = [p \in Procs |-> "idle"]
    /\ my = [p \in Procs |-> Blank]
    /\ kills = 0

-----------------------------------------------------------------------------
(* main(): flock(LOCK_EX) waits; the lock goes with the process.           *)

LockFree == lock = None

Begin(p, locals, label) ==
    /\ pc[p] = "idle" /\ LockFree
    /\ lock' = p
    /\ my' = [my EXCEPT ![p] = locals]
    /\ pc' = [pc EXCEPT ![p] = label]
    /\ UNCHANGED <<tree, kills>>

Goto(p, label) ==
    /\ pc' = [pc EXCEPT ![p] = label]
    /\ UNCHANGED <<lock, kills>>

Leave(p) ==
    /\ lock' = IF lock = p THEN None ELSE lock
    /\ my' = [my EXCEPT ![p] = Blank]
    /\ pc' = [pc EXCEPT ![p] = "idle"]

\* An expired or bad signature, an OSError, a signer that is not available:
\* any step may refuse.  What is staged in a temporary directory is removed.
\* (A copy that fails half way leaves what a killed one leaves.)
Refuse(p) ==
    /\ pc[p] \notin {"idle", "copy end"}
    /\ Leave(p)
    /\ UNCHANGED <<tree, kills>>

Kill(p) ==
    /\ pc[p] # "idle" /\ kills < MaxKills
    /\ kills' = kills + 1
    /\ Leave(p)
    /\ UNCHANGED tree

-----------------------------------------------------------------------------
(* snapshot: staged aside and renamed into place.                          *)

StartSnapshot(p, s) ==
    /\ snapshots[s] = {}
    /\ \E source \in Indexes :
          Begin(p, [Blank EXCEPT !.snapshot = s, !.source = source], "rename")

RenameSnapshot(p) ==
    /\ pc[p] = "rename"
    /\ snapshots' = [snapshots EXCEPT ![my[p].snapshot] = my[p].source]
    /\ Leave(p)
    /\ UNCHANGED <<store, publications, audits, channels, seen, kills>>

-----------------------------------------------------------------------------
(* promote.                                                                *)

\* Plausible bug: stable takes whatever has ever been in testing.
ApprovedOnce(s, c) ==
    c = "stable" => \E n \in seen["testing"] : publications[n].snapshot = s

\* Stable takes the current signed testing snapshot alone.
Approved(s, c) ==
    c = "stable" => /\ channels["testing"] # 0
                    /\ publications[channels["testing"]].snapshot = s

StartPromote(p, s, c) ==
    /\ snapshots[s] # {}
    /\ Approved(s, c)
    /\ Begin(p, [Blank EXCEPT !.snapshot = s, !.channel = c], "files")

\* Plausible bug: content that is there is taken to be whole.
SoundUnchecked(f) == store[f] # "absent"

\* add_immutable(): content that is there must have the digest of its name.
Sound(f) == store[f] = "full"

Missing(p) == {f \in Needs(my[p].snapshot) : store[f] = "absent"}

\* shutil.copyfile() creates the file in place and fills it.
CopyBegin(p) ==
    /\ pc[p] = "files"
    /\ \E f \in Missing(p) :
          /\ store' = [store EXCEPT ![f] = "partial"]
          /\ my' = [my EXCEPT ![p].file = f]
    /\ Goto(p, "copy end")
    /\ UNCHANGED <<snapshots, publications, audits, channels, seen>>

CopyEnd(p) ==
    /\ pc[p] = "copy end"
    /\ store' = [store EXCEPT ![my[p].file] = "full"]
    /\ my' = [my EXCEPT ![p].file = None]
    /\ Goto(p, "files")
    /\ UNCHANGED <<snapshots, publications, audits, channels, seen>>

\* copytree() of both stores, whatever other commands left in them.
Linked(p) == {f \in Files : store[f] # "absent"}

\* sign_flat() reads the staged packages again before the rename.
Publish(p) ==
    /\ pc[p] = "files" /\ Missing(p) = {}
    /\ \A f \in Needs(my[p].snapshot) : Sound(f)
    /\ Len(publications) < MaxPublications
    /\ publications' = Append(publications, [snapshot |-> my[p].snapshot,
                                             channel  |-> my[p].channel,
                                             links    |-> Linked(p)])
    /\ my' = [my EXCEPT ![p].publication = Len(publications')]
    /\ Goto(p, "audit")
    /\ UNCHANGED <<snapshots, store, audits, channels, seen>>

\* Plausible bug: the record is named after the publication to come.
AuditNext(p) == audits \cup {my[p].publication + 1}

Audited(p) == audits \cup {my[p].publication}

WriteAudit(p) ==
    /\ pc[p] = "audit"
    /\ audits' = Audited(p)
    /\ Goto(p, "switch")
    /\ UNCHANGED <<snapshots, store, publications, channels, seen, my>>

\* os.replace() of the link: clients see the old publication or the new one.
Switch(p) ==
    /\ pc[p] = "switch"
    /\ channels' = [channels EXCEPT ![my[p].channel] = my[p].publication]
    /\ seen' = [seen EXCEPT ![my[p].channel] = @ \cup {my[p].publication}]
    /\ Leave(p)
    /\ UNCHANGED <<snapshots, store, publications, audits, kills>>

-----------------------------------------------------------------------------
Snapshot(p) == (\E s \in Ids : StartSnapshot(p, s)) \/ RenameSnapshot(p)

Promote(p) == \/ \E s \in Ids, c \in Channel : StartPromote(p, s, c)
              \/ CopyBegin(p) \/ CopyEnd(p) \/ Publish(p) \/ WriteAudit(p) \/ Switch(p)

Next == \E p \in Procs : Snapshot(p) \/ Promote(p) \/ Refuse(p) \/ Kill(p)

Spec == Init /\ [][Next]_vars

-----------------------------------------------------------------------------
\* Directories, links and the locals of commands have legal values.
TypeOK ==
    /\ snapshots \in [Ids -> SUBSET Packages]
    /\ store \in [Files -> {"absent", "partial", "full"}]
    /\ publications \in Seq(Publication)
    /\ Len(publications) <= MaxPublications
    /\ audits \subseteq 1..Len(publications)
    /\ channels \in [Channel -> 0..Len(publications)]
    /\ seen \in [Channel -> SUBSET (1..Len(publications))]
    /\ lock \in Procs \cup {None}
    /\ pc \in [Procs -> {"idle", "rename", "files", "copy end", "audit", "switch"}]
    /\ my \in [Procs -> Locals]
    /\ kills \in Nat

\* Stable is only ever switched to the snapshot that testing serves at that
\* moment, with its audit record on disk: between the check of the testing
\* channel and the switch no other promotion moves testing.
StableIsTested ==
    [][channels'["stable"] # channels["stable"] =>
          LET new == channels'["stable"] IN
          /\ channels["testing"] # 0
          /\ publications[new].snapshot = publications[channels["testing"]].snapshot
          /\ new \in audits]_vars

\* A client that read an index through a channel, now or at any time before,
\* finds every package of it, and the index itself, whole behind the channel
\* as it is now: promotions that were killed while they filled the stores
\* leave nothing behind that a client can be led to.
ClientsAreServed ==
    \A c \in Channel : \A n \in seen[c] :
        LET current == publications[channels[c]] IN
        \A f \in Needs(publications[n].snapshot) : f \in current.links /\ store[f] = "full"
=============================================================================
