--------------------------- MODULE OperatorAccess ---------------------------
(***************************************************************************)
(* `rougarou access`: cli.access() asks and calls, through sudo, the       *)
(* helper src/rootfs/usr/lib/rougarou-system/operator-access, which keeps  *)
(* two files in step under a lock: the sudoers grant of the one recorded   *)
(* operator, and the record of the mode.  A failed validation or write is  *)
(* rolled back; a kill or Ctrl-C is not.                                   *)
(***************************************************************************)
EXTENDS Naturals

CONSTANTS
    Users,     \* operator accounts; each changes its own mode
    MaxAccessKills,  \* bound on the kills
    Nobody

Mode  == {"headless", "password"}
State == [user : Users, mode : Mode]

ASSUME AccessAssumption == Nobody \notin Users \cup State /\ MaxAccessKills \in Nat

VARIABLES
    state,      \* operator-access.json, or Nobody
    grant,      \* 90-rougarou-owner: the user it names, or Nobody
    accessLock, \* holder of the flock
    accessPc, accessMy, \* per user: the step of `access`, and its mode and old files
    first,      \* the first user on record since there is one
    accessKills

accessVars == <<state, grant, accessLock, accessPc, accessMy, first, accessKills>>

AccessInit ==
    /\ state = Nobody /\ grant = Nobody /\ accessLock = Nobody
    /\ accessPc = [u \in Users |-> "idle"]
    /\ accessMy = [u \in Users |-> [mode |-> "password", grant |-> Nobody, state |-> Nobody]]
    /\ first = Nobody /\ accessKills = 0

AccessGoto(u, step) == accessPc' = [accessPc EXCEPT ![u] = step]
AccessReturn(u)     == AccessGoto(u, "idle") /\ accessLock' = Nobody

\* status() raises on a grant without its record, or a record without its grant.
Recognized == grant = (IF state # Nobody /\ state.mode = "headless" THEN state.user ELSE Nobody)

\* set() is refused while another user is on record.
Permitted(u) == Recognized /\ (state # Nobody => state.user = u)

\* The operator chooses and confirms; set() looks before it takes the lock.
Choose(u, mode) ==
    /\ accessPc[u] = "idle" /\ Permitted(u)
    /\ AccessGoto(u, "lock") /\ accessMy' = [accessMy EXCEPT ![u].mode = mode]
    /\ UNCHANGED <<state, grant, accessLock, first, accessKills>>

\* Plausible bug: what was seen before the lock stands.
RecheckNothing(u) == TRUE

\* The lock is waited for, and what was seen without it is looked at again;
\* then the present policy and the new rule must pass visudo.
Recheck(u) == Permitted(u)

AccessLock(u) ==
    /\ accessPc[u] = "lock" /\ accessLock = Nobody
    /\ \/ /\ Recheck(u)
          /\ accessLock' = u /\ AccessGoto(u, "grant")
          /\ accessMy' = [accessMy EXCEPT ![u].grant = grant, ![u].state = state]
       \/ AccessReturn(u) /\ UNCHANGED accessMy
    /\ UNCHANGED <<state, grant, first, accessKills>>

\* The grant is written, or removed, first.
WriteGrant(u) ==
    /\ accessPc[u] = "grant"
    /\ grant' = IF accessMy[u].mode = "headless" THEN u ELSE Nobody
    /\ AccessGoto(u, "state")
    /\ UNCHANGED <<state, accessLock, accessMy, first, accessKills>>

WriteState(u) ==
    /\ accessPc[u] = "state"
    /\ state' = [user |-> u, mode |-> accessMy[u].mode]
    /\ first' = IF first = Nobody THEN u ELSE first
    /\ AccessGoto(u, "written")
    /\ UNCHANGED <<grant, accessLock, accessMy, accessKills>>

Report(u) ==
    /\ accessPc[u] = "written"
    /\ AccessReturn(u)
    /\ UNCHANGED <<state, grant, accessMy, first, accessKills>>

\* A write, its last fsync or visudo on the whole policy fails.
AccessFails(u) ==
    /\ accessPc[u] \in {"grant", "state", "written"}
    /\ AccessGoto(u, "undo grant")
    /\ UNCHANGED <<state, grant, accessLock, accessMy, first, accessKills>>

UndoGrant(u) ==
    /\ accessPc[u] = "undo grant"
    /\ grant' = accessMy[u].grant
    /\ AccessGoto(u, "undo state")
    /\ UNCHANGED <<state, accessLock, accessMy, first, accessKills>>

UndoState(u) ==
    /\ accessPc[u] = "undo state"
    /\ state' = accessMy[u].state
    /\ first' = IF state' = Nobody THEN Nobody ELSE first
    /\ AccessReturn(u)
    /\ UNCHANGED <<grant, accessMy, accessKills>>

\* A kill, Ctrl-C, or an undo that fails as well.
AccessKilled(u) ==
    /\ accessPc[u] # "idle" /\ accessKills < MaxAccessKills
    /\ accessKills' = accessKills + 1
    /\ AccessGoto(u, "idle") /\ accessLock' = (IF accessLock = u THEN Nobody ELSE accessLock)
    /\ UNCHANGED <<state, grant, accessMy, first>>

AccessNext ==
    \E u \in Users :
        \/ \E mode \in Mode : Choose(u, mode)
        \/ AccessLock(u) \/ WriteGrant(u) \/ WriteState(u) \/ Report(u)
        \/ AccessFails(u) \/ UndoGrant(u) \/ UndoState(u) \/ AccessKilled(u)

AccessSpec == AccessInit /\ [][AccessNext]_accessVars

-----------------------------------------------------------------------------
\* Files and locals have legal values.
AccessTypeOK ==
    /\ state \in State \cup {Nobody} /\ grant \in Users \cup {Nobody} /\ accessLock \in Users \cup {Nobody}
    /\ accessPc \in [Users -> {"idle", "lock", "grant", "state", "written", "undo grant", "undo state"}]
    /\ accessMy \in [Users -> [mode : Mode, grant : Users \cup {Nobody}, state : State \cup {Nobody}]]
    /\ first \in Users \cup {Nobody} /\ accessKills \in 0..MaxAccessKills

\* docs/operator-access.md: "rolls it back if validation or state writing
\* fails", "refuses ... silent transfers to another owner".  While nobody
\* changes them the grant is what the record says, after any failure but a
\* kill; and record and grant never pass from the first operator to another,
\* however two accounts race for an empty record.
PolicyIsOwners ==
    /\ accessLock = Nobody /\ accessKills = 0 => Recognized
    /\ state # Nobody => state.user = first
    /\ grant # Nobody /\ first # Nobody => grant = first

=============================================================================
