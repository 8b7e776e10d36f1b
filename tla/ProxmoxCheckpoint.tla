------------------------- MODULE ProxmoxCheckpoint --------------------------
(***************************************************************************)
(* src/deployment/proxmox-checkpoint.py on the node of one VM: capture     *)
(* writes a record of the VM, create takes a snapshot and enters its       *)
(* receipt (the description with a fresh token, and the time) into the     *)
(* record, restore rolls back to it.  Every check is a call of qm, and     *)
(* other administrators start, reconfigure and snapshot the VM between any *)
(* two of them; the helper may be killed or a call may fail.               *)
(***************************************************************************)
EXTENDS Naturals, Sequences

CONSTANTS
    Records,     \* record files; each is used by one administrator at a time
    Names,       \* snapshot names
    MaxTokens,   \* bound on the snapshots ever taken
    MaxChanges,  \* bound on the changes of the VM by others
    Nothing

Config == {"reviewed", "changed"}

\* The records that capture and create save.
Saved(receipts) == [config : Config, torn : BOOLEAN,
                    checkpoint : [name : Names \cup {Nothing}, receipt : receipts \cup {Nothing}]]

ASSUME CheckpointAssumption ==
    MaxTokens \in Nat /\ MaxChanges \in Nat /\ Nothing \notin Records \cup Names \cup Nat \cup Saved(Nat)

VARIABLES
    vm,        \* its configuration, and whether it runs
    snapshot,  \* by name: its receipt and the configuration in it, or Nothing
    taken,     \* for each receipt the record whose create took it, Nothing if by others
    record,    \* what capture saved and create added, Nothing before; torn while half written
    helperPc, helperMy, \* per record: the helper's place, its token and what it has read
    changes

checkpointVars == <<vm, snapshot, taken, record, helperPc, helperMy, changes>>

NoCheckpoint == [name |-> Nothing, receipt |-> Nothing]

CheckpointInit ==
    /\ vm = [config |-> "reviewed", running |-> TRUE]
    /\ snapshot = [n \in Names |-> Nothing] /\ taken = <<>>
    /\ record = [r \in Records |-> Nothing]
    /\ helperPc = [r \in Records |-> "idle"]
    /\ helperMy = [r \in Records |-> [name |-> Nothing, token |-> Nothing, receipt |-> Nothing]]
    /\ changes = 0

HelperGoto(r, step) == helperPc' = [helperPc EXCEPT ![r] = step]

\* `qm snapshot` under a name that is free, of the VM as it is by now.
Take(n, by) ==
    /\ snapshot[n] = Nothing /\ Len(taken) < MaxTokens
    /\ taken' = Append(taken, by)
    /\ snapshot' = [snapshot EXCEPT ![n] = [receipt |-> Len(taken'), config |-> vm.config]]

\* Every action but capture reads the record and compares the VM with it;
\* create and restore want the VM stopped.
Begins(r) ==
    /\ helperPc[r] = "idle" /\ record[r] # Nothing /\ ~record[r].torn
    /\ vm.config = record[r].config /\ ~vm.running

-----------------------------------------------------------------------------
\* A kill while it saves leaves an empty record, which refuses all else.
Capture(r) ==
    /\ helperPc[r] = "idle" /\ record[r] = Nothing /\ vm.running
    /\ \E killed \in BOOLEAN :
         record' = [record EXCEPT ![r] = [config |-> vm.config, torn |-> killed, checkpoint |-> NoCheckpoint]]
    /\ UNCHANGED <<vm, snapshot, taken, helperPc, helperMy, changes>>

Create(r, n) ==
    /\ Begins(r) /\ record[r].checkpoint = NoCheckpoint /\ snapshot[n] = Nothing
    /\ HelperGoto(r, "snapshot") /\ helperMy' = [helperMy EXCEPT ![r].name = n]
    /\ UNCHANGED <<vm, snapshot, taken, record, changes>>

\* The description holds a token of this run.
TakeSnapshot(r) ==
    /\ helperPc[r] = "snapshot" /\ Take(helperMy[r].name, r)
    /\ HelperGoto(r, "receipt") /\ helperMy' = [helperMy EXCEPT ![r].token = Len(taken')]
    /\ UNCHANGED <<vm, record, changes>>

\* What is under the name now must have the reviewed configuration and this
\* run's token.  Two calls read them, in one step here: a snapshot that still
\* has the token at the second is the one that the first has read.
Confirmed(r, found) == found.config = record[r].config /\ found.receipt = helperMy[r].token

ReadReceipt(r) ==
    /\ helperPc[r] = "receipt"
    /\ LET found == snapshot[helperMy[r].name] IN
         /\ found # Nothing /\ Confirmed(r, found)
         /\ helperMy' = [helperMy EXCEPT ![r].receipt = found.receipt]
    /\ HelperGoto(r, "truncate")
    /\ UNCHANGED <<vm, snapshot, taken, record, changes>>

\* save() truncates the record in place and then writes it.
Truncate(r) ==
    /\ helperPc[r] = "truncate"
    /\ record' = [record EXCEPT ![r].torn = TRUE]
    /\ HelperGoto(r, "save")
    /\ UNCHANGED <<vm, snapshot, taken, helperMy, changes>>

Save(r) ==
    /\ helperPc[r] = "save"
    /\ record' = [record EXCEPT ![r].torn = FALSE,
                                ![r].checkpoint = [name |-> helperMy[r].name, receipt |-> helperMy[r].receipt]]
    /\ HelperGoto(r, "idle")
    /\ UNCHANGED <<vm, snapshot, taken, helperMy, changes>>

\* Plausible bug: any snapshot of the name and configuration.
RecordedByName(r, found) == found.config = record[r].config

\* The snapshot of that name must be the recorded one.
Recorded(r, found) == found.config = record[r].config /\ found.receipt = record[r].checkpoint.receipt

Restore(r, n) ==
    /\ Begins(r) /\ record[r].checkpoint.name = n
    /\ snapshot[n] # Nothing /\ Recorded(r, snapshot[n])
    /\ helperMy' = [helperMy EXCEPT ![r].name = n, ![r].receipt = snapshot[n].receipt]
    /\ HelperGoto(r, "rollback")
    /\ UNCHANGED <<vm, snapshot, taken, record, changes>>

Rollback(r) ==
    /\ helperPc[r] = "rollback" /\ snapshot[helperMy[r].name] # Nothing
    /\ vm' = [config |-> snapshot[helperMy[r].name].config, running |-> FALSE]
    /\ HelperGoto(r, "restored")
    /\ UNCHANGED <<snapshot, taken, record, helperMy, changes>>

\* The restore is over, or a check or a call fails, or the helper is killed.
Stop(r) ==
    /\ helperPc[r] # "idle"
    /\ HelperGoto(r, "idle")
    /\ UNCHANGED <<vm, snapshot, taken, record, helperMy, changes>>

-----------------------------------------------------------------------------
\* Other administrators.
Others(change) ==
    /\ changes < MaxChanges /\ changes' = changes + 1
    /\ change
    /\ UNCHANGED <<record, helperPc, helperMy>>

Switch        == vm' = [vm EXCEPT !.running = ~@] /\ UNCHANGED <<snapshot, taken>>
Reconfigure   == \E c \in Config : vm' = [vm EXCEPT !.config = c] /\ UNCHANGED <<snapshot, taken>>
Delete(n)     == snapshot[n] # Nothing /\ snapshot' = [snapshot EXCEPT ![n] = Nothing] /\ UNCHANGED <<vm, taken>>
TakeAnother(n) == Take(n, Nothing) /\ UNCHANGED vm

CheckpointNext ==
    \/ \E r \in Records :
         \/ Capture(r) \/ TakeSnapshot(r) \/ ReadReceipt(r) \/ Truncate(r) \/ Save(r) \/ Rollback(r) \/ Stop(r)
         \/ \E n \in Names : Create(r, n) \/ Restore(r, n)
    \/ Others(Switch) \/ Others(Reconfigure)
    \/ \E n \in Names : Others(Delete(n)) \/ Others(TakeAnother(n))

CheckpointSpec == CheckpointInit /\ [][CheckpointNext]_checkpointVars

-----------------------------------------------------------------------------
\* The VM, the snapshots, the records and the locals have legal values.
CheckpointTypeOK ==
    /\ vm \in [config : Config, running : BOOLEAN]
    /\ taken \in Seq(Records \cup {Nothing}) /\ Len(taken) <= MaxTokens
    /\ snapshot \in [Names -> [receipt : DOMAIN taken, config : Config] \cup {Nothing}]
    /\ record \in [Records -> Saved(DOMAIN taken) \cup {Nothing}]
    /\ helperPc \in [Records -> {"idle", "snapshot", "receipt", "truncate", "save", "rollback", "restored"}]
    /\ helperMy \in [Records -> [name : Names \cup {Nothing}, token : DOMAIN taken \cup {Nothing},
                           receipt : DOMAIN taken \cup {Nothing}]]
    /\ changes \in 0..MaxChanges

\* docs/cloud-image.md: "Replacing a snapshot under the same name invalidates
\* the record".  Restore goes back only to a snapshot that create took for
\* this record, of the VM as captured, though other helpers and administrators
\* take and delete theirs; unless it is replaced after the last check.
RestoresOwnCheckpoint ==
    [][\A r \in Records : helperPc[r] = "rollback" /\ helperPc'[r] = "restored" =>
           LET used == snapshot[helperMy[r].name] IN
             used.receipt = helperMy[r].receipt =>
                 taken[used.receipt] = r /\ used.config = record[r].config]_checkpointVars

=============================================================================
