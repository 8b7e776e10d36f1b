------------------------- MODULE OperatorToolsProofs -------------------------
(***************************************************************************)
(* Proofs about the four commands that MCOperatorTools checks together.    *)
(* Each has an inductive invariant, proved of its own specification:       *)
(*                                                                         *)
(*   AccessInv      who holds the lock, and what it has written so far     *)
(*   InstallInv     who holds the store, and the state of its directory    *)
(*   CheckpointInv  whose snapshot each receipt stands for                 *)
(*   KeyInv         a stored key is the one of its endpoint                *)
(*   SelectionInv   while no two commands overlapped, one holds at most,   *)
(*                  and what it holds is what the files say                *)
(*                                                                         *)
(* The last section carries them over to the specification that TLC runs.  *)
(***************************************************************************)
EXTENDS MCOperatorTools, FiniteSetTheorems, TLAPS

-----------------------------------------------------------------------------
(* OperatorAccess: `rougarou access` *)

\* The grant that goes with a record.
Granted(recorded) == IF recorded # Nobody /\ recorded.mode = "headless" THEN recorded.user ELSE Nobody

\* Where `access` holds its lock.
Changing == {"grant", "state", "written", "undo grant", "undo state"}

\* What the user who holds the lock has kept, and has written so far.
Changes(u) ==
    /\ accessMy[u].grant = Granted(accessMy[u].state)
    /\ accessMy[u].state # Nobody => accessMy[u].state.user = u /\ state # Nobody
    /\ state # Nobody => state.user = u
    /\ grant \in {u, Nobody}
    /\ accessPc[u] \in {"state", "written"} =>
           grant = (IF accessMy[u].mode = "headless" THEN u ELSE Nobody)
    /\ accessPc[u] = "written" => state = [user |-> u, mode |-> accessMy[u].mode]
    /\ accessPc[u] = "undo state" => grant = accessMy[u].grant

\* The lock, its holder's work, and the owner on record.
AccessInv ==
    /\ AccessTypeOK
    /\ \A u \in Users : accessPc[u] \in Changing <=> accessLock = u
    /\ \A u \in Users : accessPc[u] \in Changing => Changes(u)
    /\ state = Nobody => first = Nobody
    /\ PolicyIsOwners

\* A record is not the absence of one.
LEMMA RecordIsSomething ==
    ASSUME NEW u \in Users, NEW m \in Mode
    PROVE  /\ [user |-> u, mode |-> m] \in State /\ [user |-> u, mode |-> m] # Nobody
           /\ Granted([user |-> u, mode |-> m]) = IF m = "headless" THEN u ELSE Nobody
<1>1. [user |-> u, mode |-> m] \in State
  BY DEF State
<1>2. [user |-> u, mode |-> m] # Nobody
  BY <1>1, AccessAssumption
<1> QED
  BY <1>1, <1>2 DEF Granted

\* One step per action of OperatorAccess: only the holder of the lock writes
\* the grant or the record, and its undo writes what it found.
LEMMA AccessStep == AccessInv /\ [AccessNext]_accessVars => AccessInv'
<1> SUFFICES ASSUME AccessInv, [AccessNext]_accessVars PROVE AccessInv'
  OBVIOUS
<1> USE AccessAssumption DEF AccessInv, AccessTypeOK, Mode, State, Changing, AccessGoto, AccessReturn
\* Nobody else changes the policy while u does.
<1>0. ASSUME NEW u \in Users, accessLock = u
      PROVE  /\ \A v \in Users \ {u} : accessPc[v] \notin Changing
             /\ accessPc[u] \in Changing /\ Changes(u) /\ accessLock # Nobody
  BY <1>0
<1>1. ASSUME NEW u \in Users, NEW mode \in Mode, Choose(u, mode) PROVE AccessInv'
  BY ZenonT(40), <1>1 DEF Choose, Changes, PolicyIsOwners, Recognized
<1>2. ASSUME NEW u \in Users, AccessLock(u) PROVE AccessInv'
  <2>1. CASE accessLock' = u
    <3>1. /\ accessLock = Nobody /\ Permitted(u) /\ accessPc' = [accessPc EXCEPT ![u] = "grant"]
          /\ accessMy' = [accessMy EXCEPT ![u].grant = grant, ![u].state = state]
          /\ UNCHANGED <<state, grant, first, accessKills>>
      BY <1>2, <2>1 DEF AccessLock, Recheck
    <3>2. AccessTypeOK' /\ accessMy'[u].grant = grant /\ accessMy'[u].state = state
      BY ZenonT(40), <2>1, <3>1
    <3>3. Changes(u)'
      BY ZenonT(40), <3>1, <3>2 DEF Permitted, Recognized, Changes, Granted
    <3> QED
      BY ZenonT(40), <2>1, <3>1, <3>2, <3>3 DEF PolicyIsOwners, Recognized
  <2>2. CASE accessLock' # u
    BY ZenonT(40), <1>2, <2>2 DEF AccessLock, Changes, PolicyIsOwners, Recognized
  <2> QED
    BY <2>1, <2>2
<1>3. ASSUME NEW u \in Users, WriteGrant(u) PROVE AccessInv'
  BY ZenonT(40), <1>3 DEF WriteGrant, Changes, PolicyIsOwners, Recognized
<1>4. ASSUME NEW u \in Users, WriteState(u) PROVE AccessInv'
  <2>0. state' = [user |-> u, mode |-> accessMy[u].mode] /\ state' # Nobody /\ state' \in State
        /\ Granted(state') = IF accessMy[u].mode = "headless" THEN u ELSE Nobody
    <3>1. accessMy[u].mode \in Mode /\ state' = [user |-> u, mode |-> accessMy[u].mode]
      BY <1>4 DEF WriteState
    <3> QED
      BY ONLY <3>1, RecordIsSomething, u \in Users
  <2>1. /\ accessLock = u /\ UNCHANGED <<grant, accessLock, accessMy, accessKills>>
        /\ accessPc' = [accessPc EXCEPT ![u] = "written"]
    BY <1>4 DEF WriteState
  <2>2. Changes(u) /\ first' = u
    BY <1>0, <1>4, <2>0, <2>1 DEF WriteState, Changes, PolicyIsOwners
  <2>3. Changes(u)'
    <3>1. accessPc'[u] = "written" /\ accessPc[u] = "state"
      BY <1>4, <2>1 DEF WriteState
    <3>2. state'.user = u
      BY ONLY <2>0
    <3> QED
      BY <2>0, <2>1, <2>2, <3>1, <3>2 DEF Changes, Granted
  <2>4. PolicyIsOwners'
    BY <2>0, <2>1, <2>2, <2>3 DEF PolicyIsOwners, Changes
  <2>5. AccessTypeOK'
    BY <2>0, <2>1, <2>2
  <2> QED
    BY ZenonT(40), <1>0, <2>0, <2>1, <2>2, <2>3, <2>4, <2>5
<1>5. ASSUME NEW u \in Users, Report(u) PROVE AccessInv'
  <2>1. accessLock = u /\ accessPc[u] = "written" /\ Changes(u)
    BY <1>5, <1>0 DEF Report
  <2>2. Recognized
    <3>1. /\ state = [user |-> u, mode |-> accessMy[u].mode] /\ accessMy[u].mode \in Mode
          /\ grant = IF accessMy[u].mode = "headless" THEN u ELSE Nobody
      BY <2>1 DEF Changes
    <3>2. grant = Granted(state)
      BY ONLY <3>1, RecordIsSomething, u \in Users
    <3> QED
      BY <3>2 DEF Recognized, Granted
  <2> QED
    BY ZenonT(40), <1>5, <1>0, <2>1, <2>2 DEF Report, PolicyIsOwners, Recognized
<1>6. ASSUME NEW u \in Users, AccessFails(u) PROVE AccessInv'
  BY ZenonT(40), <1>6 DEF AccessFails, Changes, PolicyIsOwners, Recognized
<1>7. ASSUME NEW u \in Users, UndoGrant(u) PROVE AccessInv'
  BY ZenonT(40), <1>7 DEF UndoGrant, Changes, PolicyIsOwners, Recognized, Granted
<1>8. ASSUME NEW u \in Users, UndoState(u) PROVE AccessInv'
  <2>1. /\ accessLock = u /\ Changes(u) /\ UNCHANGED <<grant, accessMy, accessKills>> /\ accessLock' = Nobody
        /\ state' = accessMy[u].state /\ accessPc' = [accessPc EXCEPT ![u] = "idle"]
    BY <1>0, <1>8 DEF UndoState
  <2>2. AccessTypeOK' /\ (state' = Nobody => first' = Nobody)
    BY ZenonT(40), <1>8, <2>1 DEF UndoState
  <2>3. Recognized'
    <3>1. grant = Granted(accessMy[u].state)
      BY <1>8, <2>1 DEF UndoState, Changes
    <3>2. Recognized' <=> grant' = Granted(state')
      BY DEF Recognized, Granted
    <3> QED
      BY <2>1, <3>1, <3>2
  <2>4. PolicyIsOwners'
    <3>1. state' # Nobody => state'.user = u /\ first' = u
      <4>1. state' # Nobody => first' = first /\ state'.user = u /\ state # Nobody
        BY <1>8, <2>1 DEF UndoState, Changes
      <4>2. state # Nobody => first = u
        BY <2>1 DEF Changes, PolicyIsOwners
      <4> QED
        BY <4>1, <4>2
    <3> QED
      BY <2>1, <2>2, <2>3, <3>1 DEF Changes, PolicyIsOwners
  <2> QED
    BY ZenonT(40), <1>0, <2>1, <2>2, <2>4
<1>9. ASSUME NEW u \in Users, AccessKilled(u) PROVE AccessInv'
  <2>0. accessKills' \in 0..MaxAccessKills /\ accessKills' # 0
    <3>1. accessKills \in 0..MaxAccessKills /\ accessKills < MaxAccessKills /\ accessKills' = accessKills + 1
      BY <1>9 DEF AccessKilled
    <3> QED
      BY ONLY <3>1, AccessAssumption
  <2>1. /\ accessPc' = [accessPc EXCEPT ![u] = "idle"]
        /\ accessLock' = (IF accessLock = u THEN Nobody ELSE accessLock)
        /\ UNCHANGED <<state, grant, accessMy, first>>
    BY <1>9 DEF AccessKilled
  <2>2. PolicyIsOwners' /\ AccessTypeOK'
    BY <2>0, <2>1 DEF PolicyIsOwners
  <2> QED
    BY ZenonT(40), <2>1, <2>2 DEF Changes
<1>10. CASE UNCHANGED accessVars
  BY <1>10 DEF accessVars, Changes, PolicyIsOwners, Recognized
<1> QED
  BY ZenonT(40), <1>1, <1>2, <1>3, <1>4, <1>5, <1>6, <1>7, <1>8, <1>9, <1>10 DEF AccessNext

\* No record and no grant: nothing to keep in step.
LEMMA AccessStart == AccessInit => AccessInv
BY AccessAssumption DEF AccessInit, AccessInv, AccessTypeOK, Mode, State, Changing, Changes, PolicyIsOwners, Recognized

\* access.json, the grant, the lock and each command's locals have legal values.
THEOREM AccessTypes == AccessSpec => []AccessTypeOK
<1>1. AccessInv => AccessTypeOK
  BY DEF AccessInv
<1> QED
  BY <1>1, AccessStart, AccessStep, PTL DEF AccessSpec

\* PolicyIsOwners for any number of users and kills: the passwordless grant
\* and the record on it agree whenever nobody changes them and no change was
\* killed, and the record stays with the user who first had one.
THEOREM PolicyStaysWithItsOwner == AccessSpec => []PolicyIsOwners
<1>1. AccessInv => PolicyIsOwners
  BY DEF AccessInv
<1> QED
  BY <1>1, AccessStart, AccessStep, PTL DEF AccessSpec

-----------------------------------------------------------------------------
(* AgentInstall: `rougarou agent install` *)

\* Where an installer holds the lock of the store, and where the directory of
\* its version is its own and not published.
Building   == {"binary", "publish", "undo"}
Installing == {"check", "download", "reserve", "published"} \cup Building

\* The lock, and what its holder knows of its directory and of the launcher.
InstallInv ==
    /\ InstallTypeOK
    /\ \A i \in Installers : installPc[i] \in Installing <=> storeLock = i
    /\ \A i \in Installers :
          /\ installPc[i] = "binary" => target[want[i]] = "reserved"
          /\ installPc[i] \in {"publish", "published"} => target[want[i]] = "whole"
          /\ installPc[i] = "undo" => target[want[i]] \in {"reserved", "whole"}
          /\ installPc[i] = "published" => want[i] \in kept
          /\ installPc[i] \in Building /\ launcher = want[i] => want[i] \in undone
    /\ \A v \in Versions : target[v] \in {"reserved", "whole"} =>
          v \in kept \/ \E i \in Installers : installPc[i] \in Building /\ want[i] = v
    /\ launcher \in Versions \ undone => target[launcher] = "whole"
    /\ OwnFilesKept

\* One step per action of AgentInstall: a directory is emptied or filled only
\* under the lock, by the installer that reserved it or by its owner.
LEMMA InstallStep == InstallInv /\ [InstallNext]_installVars => InstallInv'
<1> SUFFICES ASSUME InstallInv, [InstallNext]_installVars PROVE InstallInv'
  OBVIOUS
<1> USE InstallAssumption DEF InstallInv, InstallTypeOK, Building, Installing, InstallGoto, InstallReturn,
                              agentFiles, OwnFilesKept, Own
<1>0. Versions \subseteq Nat \ {0} /\ Missing \notin Versions /\ 0 \notin Versions /\ Missing # 0
  BY DEF Versions
<1>1. ASSUME NEW i \in Installers, ReadPin(i) PROVE InstallInv'
  BY <1>1 DEF ReadPin
<1>2. ASSUME NEW i \in Installers, InstallLock(i) PROVE InstallInv'
  BY <1>2 DEF InstallLock
<1>3. ASSUME NEW i \in Installers, Check(i) PROVE InstallInv'
  BY <1>3 DEF Check
<1>4. ASSUME NEW i \in Installers, Download(i) PROVE InstallInv'
  BY <1>4 DEF Download
<1>5. ASSUME NEW i \in Installers, DownloadFails(i) PROVE InstallInv'
  BY <1>5 DEF DownloadFails
<1>6. ASSUME NEW i \in Installers, Reserve(i) PROVE InstallInv'
  BY <1>0, <1>6 DEF Reserve
<1>7. ASSUME NEW i \in Installers, PlaceBinary(i) PROVE InstallInv'
  BY <1>0, <1>7 DEF PlaceBinary
<1>8. ASSUME NEW i \in Installers, Publish(i) PROVE InstallInv'
  <2>1. /\ installPc[i] = "publish" /\ storeLock = i /\ target[want[i]] = "whole" /\ want[i] \in Versions
        /\ UNCHANGED <<pin, target, storeLock, want, installKills, owned, undone>>
        /\ \A k \in Installers \ {i} : installPc[k] \notin Installing /\ installPc'[k] = installPc[k]
    BY <1>8 DEF Publish
  <2>2. CASE launcher = Missing
    <3>1. launcher' = want[i] /\ kept' = kept \cup {want[i]} /\ installPc' = [installPc EXCEPT ![i] = "published"]
      BY <1>8, <2>2 DEF Publish
    <3>2. 0 \notin owned
      BY <1>0, <2>2
    <3>3. OwnFilesKept'
      BY <2>1, <3>1, <3>2
    <3>7. InstallTypeOK'
      BY <2>1, <3>1
    <3>4. \A v \in Versions : target'[v] \in {"reserved", "whole"} =>
              v \in kept' \/ \E k \in Installers : installPc'[k] \in Building /\ want'[k] = v
      BY <2>1, <3>1
    <3>5. \A k \in Installers : installPc'[k] \in Installing <=> storeLock' = k
      BY <2>1, <3>1
    <3>6. \A k \in Installers : installPc'[k] \in Building \cup {"published"} => k = i
      BY <2>1, <3>1
    <3> QED
      BY <1>0, <2>1, <3>1, <3>3, <3>4, <3>5, <3>6, <3>7
  <2>3. CASE launcher # Missing
    <3>1. UNCHANGED <<launcher, kept>> /\ installPc' = [installPc EXCEPT ![i] = "undo"]
      BY <1>8, <2>3 DEF Publish
    <3> QED
      BY <1>0, <2>1, <3>1
  <2> QED
    BY <2>2, <2>3
<1>9. ASSUME NEW i \in Installers, Installed(i) PROVE InstallInv'
  BY <1>9 DEF Installed
<1>10. ASSUME NEW i \in Installers, InstallFails(i) PROVE InstallInv'
  BY <1>10 DEF InstallFails
<1>11. ASSUME NEW i \in Installers, Undo(i) PROVE InstallInv'
  BY <1>0, <1>11 DEF Undo
<1>12. ASSUME NEW i \in Installers, InstallKilled(i) PROVE InstallInv'
  <2>1. /\ InstallTypeOK' /\ installKills' \in Nat
        /\ \A k \in Installers \ {i} : installPc'[k] = installPc[k]
        /\ installPc'[i] = "idle" /\ UNCHANGED <<pin, launcher, want, owned, undone>>
    BY <1>12 DEF InstallKilled
  <2>2. CASE installPc[i] \in Building
    <3>1. storeLock = i /\ kept' = kept \cup {want[i]}
      BY <1>12, <2>2 DEF InstallKilled
    <3> QED
      BY <1>0, <1>12, <2>1, <2>2, <3>1 DEF InstallKilled
  <2>3. CASE installPc[i] \notin Building
    BY <1>0, <1>12, <2>1, <2>3 DEF InstallKilled
  <2> QED
    BY <2>2, <2>3
<1>13. ASSUME NEW v \in Versions, OwnTarget(v) PROVE InstallInv'
  BY <1>0, <1>13 DEF OwnTarget
<1>14. ASSUME NEW v \in Versions, Clear(v) PROVE InstallInv'
  BY <1>0, <1>14 DEF Clear
<1>15. CASE OwnLauncher
  BY <1>0, <1>15 DEF OwnLauncher
<1>16. CASE MoveAside
  BY <1>0, <1>16 DEF MoveAside
<1>17. CASE UpgradePin
  <2>1. pin + 1 \in Versions
    BY <1>17 DEF UpgradePin, Versions
  <2> QED
    BY <1>17, <2>1 DEF UpgradePin
<1>18. CASE UNCHANGED installVars
  BY <1>18 DEF installVars
<1>19. ASSUME NEW i \in Installers, Interrupted(i) PROVE InstallInv'
  <2>1. /\ installPc[i] = "binary" /\ storeLock = i /\ want[i] \in Versions
        /\ UNCHANGED <<pin, launcher, target, want, installKills, owned, undone>>
        /\ \A k \in Installers \ {i} : installPc[k] \notin Installing
    BY <1>19 DEF Interrupted
  <2>2. kept' = kept \cup {want[i]} /\ installPc' = [installPc EXCEPT ![i] = "idle"] /\ storeLock' = Missing
    BY <1>19 DEF Interrupted
  <2>4. InstallTypeOK'
    BY <2>1, <2>2
  <2>5. /\ \A k \in Installers : installPc'[k] \notin Installing
        /\ \A k \in Installers : installPc'[k] \in Installing <=> storeLock' = k
    BY <1>0, <2>1, <2>2
  <2>6. \A v \in Versions : target'[v] \in {"reserved", "whole"} => v \in kept'
    <3> SUFFICES ASSUME NEW v \in Versions, target'[v] \in {"reserved", "whole"}, v # want[i] PROVE v \in kept'
      BY <2>1, <2>2
    <3>1. target[v] \in {"reserved", "whole"}
      BY <2>1
    <3>2. \A k \in Installers : installPc[k] \in Building => want[k] # v
      BY <2>1
    <3> QED
      BY <2>2, <3>1, <3>2
  <2>7. launcher' \in Versions \ undone' => target'[launcher'] = "whole"
    BY <1>0, <2>1
  <2>8. OwnFilesKept'
    BY <1>0, <2>1
  <2> QED
    BY <2>4, <2>5, <2>6, <2>7, <2>8
<1>20. ASSUME NEW i \in Installers, UndoFails(i) PROVE InstallInv'
  <2>1. /\ installPc[i] = "undo" /\ storeLock = i /\ want[i] \in Versions /\ target[want[i]] \in {"reserved", "whole"}
        /\ UNCHANGED <<pin, launcher, want, installKills, owned, undone>>
        /\ \A k \in Installers \ {i} : installPc[k] \notin Installing
    BY <1>20 DEF UndoFails
  <2>2. kept' = kept \cup {want[i]} /\ installPc' = [installPc EXCEPT ![i] = "idle"] /\ storeLock' = Missing
    BY <1>20 DEF UndoFails
  <2>3. PICK rest \in {"reserved", "whole"} : target' = [target EXCEPT ![want[i]] = rest]
    BY <1>20, <2>1 DEF UndoFails
  <2>4. InstallTypeOK'
    BY <2>1, <2>2, <2>3
  <2>5. /\ \A k \in Installers : installPc'[k] \notin Installing
        /\ \A k \in Installers : installPc'[k] \in Installing <=> storeLock' = k
    BY <1>0, <2>1, <2>2
  <2>6. \A v \in Versions : target'[v] \in {"reserved", "whole"} => v \in kept'
    <3> SUFFICES ASSUME NEW v \in Versions, target'[v] \in {"reserved", "whole"}, v # want[i] PROVE v \in kept'
      BY <2>1, <2>2
    <3>1. target[v] \in {"reserved", "whole"}
      BY <2>1, <2>3
    <3>2. \A k \in Installers : installPc[k] \in Building => want[k] # v
      BY <2>1
    <3> QED
      BY <2>2, <3>1, <3>2
  <2>7. launcher' \in Versions \ undone' => target'[launcher'] = "whole"
    BY <1>0, <2>1, <2>3
  <2>8. OwnFilesKept'
    BY <1>0, <2>1, <2>3
  <2> QED
    BY <2>4, <2>5, <2>6, <2>7, <2>8
<1> QED
  BY <1>1, <1>2, <1>3, <1>4, <1>5, <1>6, <1>7, <1>8, <1>9, <1>10, <1>11, <1>12, <1>13, <1>14, <1>15,
     <1>16, <1>17, <1>18, <1>19, <1>20 DEF InstallNext

\* At first every directory is absent or the operator's, and no launcher is set.
LEMMA InstallStart == InstallInit => InstallInv
<1> SUFFICES ASSUME InstallInit PROVE InstallInv
  OBVIOUS
<1>1. 1 \in Versions /\ Missing \notin Versions
  BY InstallAssumption DEF Versions
<1> QED
  BY <1>1, InstallAssumption DEF InstallInit, InstallInv, InstallTypeOK, Building, Installing, OwnFilesKept

\* The store, its lock and each installer's place have legal values.
THEOREM InstallTypes == InstallSpec => []InstallTypeOK
<1>1. InstallInv => InstallTypeOK
  BY DEF InstallInv
<1> QED
  BY <1>1, InstallStart, InstallStep, PTL DEF InstallSpec

\* NothingHalfInstalled for any number of installers and releases: what fails
\* inside of the try block is cleaned up, but for a cleanup that fails itself.
THEOREM InstallsAreWhole == InstallSpec => []NothingHalfInstalled
<1>1. InstallInv => NothingHalfInstalled
  BY InstallAssumption DEF InstallInv, NothingHalfInstalled, Installing
<1> QED
  BY <1>1, InstallStart, InstallStep, PTL DEF InstallSpec

\* OwnFilesKept: an installation never replaces or removes a launcher or a
\* directory that the operator has put there.
THEOREM OwnFilesStay == InstallSpec => []OwnFilesKept
<1>1. InstallInv => OwnFilesKept
  BY DEF InstallInv
<1> QED
  BY <1>1, InstallStart, InstallStep, PTL DEF InstallSpec

-----------------------------------------------------------------------------
(* ProxmoxCheckpoint: the helper on the host *)

\* What a snapshot, a record and a helper's locals are, by the receipts so far.
Taken       == [receipt : DOMAIN taken, config : Config]
Captured    == Saved(DOMAIN taken)
HelperLocal == [name : Names \cup {Nothing}, token : DOMAIN taken \cup {Nothing},
                receipt : DOMAIN taken \cup {Nothing}]

\* The snapshot of that receipt was taken for record r.
TakenFor(r, n) == n \in DOMAIN taken /\ taken[n] = r

\* A receipt is under one name at most.
OneName ==
    \A m, n \in Names : snapshot[m] # Nothing /\ snapshot[n] # Nothing
        /\ snapshot[m].receipt = snapshot[n].receipt => m = n

\* What a record says, and what its helper knows, of the snapshots.
Knows(r) ==
    /\ record[r] # Nothing =>
           record[r].checkpoint.receipt = Nothing \/ TakenFor(r, record[r].checkpoint.receipt)
    /\ helperPc[r] # "idle" => record[r] \in Captured
    /\ helperPc[r] \in {"snapshot", "receipt", "truncate", "save", "rollback"} => helperMy[r].name \in Names
    /\ helperPc[r] \in {"receipt", "truncate", "save"} => TakenFor(r, helperMy[r].token)
    /\ helperPc[r] \in {"truncate", "save"} => helperMy[r].receipt = helperMy[r].token
    /\ helperPc[r] = "rollback" =>
         /\ TakenFor(r, helperMy[r].receipt)
         /\ \A n \in Names : snapshot[n] # Nothing /\ snapshot[n].receipt = helperMy[r].receipt =>
                snapshot[n].config = record[r].config

CheckpointInv == CheckpointTypeOK /\ OneName /\ \A r \in Records : Knows(r)

\* A snapshot extends the receipts by one that no snapshot and no record has.
LEMMA TakeStep ==
    ASSUME CheckpointTypeOK, OneName, NEW n \in Names, NEW by \in Records \cup {Nothing}, Take(n, by)
    PROVE  /\ Len(taken) \in Nat /\ DOMAIN taken = 1..Len(taken)
           /\ DOMAIN taken' = DOMAIN taken \cup {Len(taken')} /\ Len(taken') \notin DOMAIN taken
           /\ \A m \in DOMAIN taken : taken'[m] = taken[m]
           /\ taken'[Len(taken')] = by /\ taken' \in Seq(Records \cup {Nothing})
           /\ Len(taken') = Len(taken) + 1 /\ Len(taken') <= MaxTokens /\ Nothing \notin DOMAIN taken'
           /\ snapshot' = [snapshot EXCEPT ![n] = [receipt |-> Len(taken'), config |-> vm.config]]
           /\ snapshot' \in [Names -> Taken' \cup {Nothing}] /\ OneName'
<1>1. taken \in Seq(Records \cup {Nothing}) /\ taken' = Append(taken, by) /\ Len(taken) < MaxTokens
      /\ snapshot' = [snapshot EXCEPT ![n] = [receipt |-> Len(taken'), config |-> vm.config]]
  BY DEF Take, CheckpointTypeOK
<1>2. /\ Len(taken) \in Nat /\ DOMAIN taken = 1..Len(taken) /\ Len(taken') = Len(taken) + 1
      /\ DOMAIN taken' = 1..(Len(taken) + 1)
      /\ \A m \in DOMAIN taken : taken'[m] = taken[m]
      /\ taken'[Len(taken')] = by /\ taken' \in Seq(Records \cup {Nothing})
  BY <1>1
<1>3. /\ DOMAIN taken' = DOMAIN taken \cup {Len(taken')} /\ Len(taken') \notin DOMAIN taken
      /\ Len(taken') <= MaxTokens /\ Nothing \notin DOMAIN taken'
  BY <1>1, <1>2, CheckpointAssumption
<1>4. /\ snapshot \in [Names -> Taken \cup {Nothing}] /\ vm.config \in Config
      /\ snapshot' \in [Names -> Taken' \cup {Nothing}]
  BY <1>1, <1>3 DEF CheckpointTypeOK, Taken
<1>5. OneName'
  BY <1>1, <1>3, <1>4 DEF OneName, Taken
<1> QED
  BY <1>1, <1>2, <1>3, <1>4, <1>5

\* More receipts leave what was known as it was.
LEMMA KnowsMore ==
    ASSUME CheckpointInv, NEW n \in Names, NEW by \in Records \cup {Nothing}, Take(n, by), UNCHANGED record
    PROVE  /\ \A r \in Records : UNCHANGED <<helperPc[r], helperMy[r]>> => Knows(r)'
           /\ \A r \in Records : record'[r] = Nothing \/ record'[r] \in Captured'
           /\ Taken \subseteq Taken' /\ Captured \subseteq Captured' /\ HelperLocal \subseteq HelperLocal'
           /\ \A r, m : TakenFor(r, m) => TakenFor(r, m)'
<1>1. /\ DOMAIN taken' = DOMAIN taken \cup {Len(taken')} /\ Len(taken') \notin DOMAIN taken
      /\ \A m \in DOMAIN taken : taken'[m] = taken[m]
      /\ snapshot' = [snapshot EXCEPT ![n] = [receipt |-> Len(taken'), config |-> vm.config]]
  BY Zenon, TakeStep DEF CheckpointInv
<1>2. Taken \subseteq Taken' /\ Captured \subseteq Captured' /\ HelperLocal \subseteq HelperLocal'
  BY ZenonT(40), <1>1 DEF Taken, Captured, Saved, HelperLocal
<1>3. \A r, m : TakenFor(r, m) => TakenFor(r, m)' /\ m # Len(taken')
  BY Zenon, <1>1 DEF TakenFor
<1>4. \A r \in Records : record'[r] = Nothing \/ record'[r] \in Captured'
  BY <1>2 DEF CheckpointInv, CheckpointTypeOK, Captured, Saved
<1>5. ASSUME NEW r \in Records, UNCHANGED <<helperPc[r], helperMy[r]>> PROVE Knows(r)'
  <2>1. \A m \in Names : snapshot'[m] = snapshot[m] \/ snapshot'[m].receipt = Len(taken')
    BY Zenon, <1>1 DEF CheckpointInv, CheckpointTypeOK
  <2>2. Knows(r)
    BY DEF CheckpointInv
  <2> QED
    BY <1>2, <1>3, <1>5, <2>1, <2>2 DEF Knows
<1> QED
  BY <1>2, <1>3, <1>4, <1>5

\* One step per action of ProxmoxCheckpoint, those of other administrators
\* included.
LEMMA CheckpointStep == CheckpointInv /\ [CheckpointNext]_checkpointVars => CheckpointInv'
<1> SUFFICES ASSUME CheckpointInv, [CheckpointNext]_checkpointVars PROVE CheckpointInv'
  OBVIOUS
<1>0. /\ vm \in [config : Config, running : BOOLEAN]
      /\ taken \in Seq(Records \cup {Nothing}) /\ Len(taken) <= MaxTokens
      /\ snapshot \in [Names -> Taken \cup {Nothing}]
      /\ record \in [Records -> {Nothing} \cup Captured]
      /\ helperPc \in [Records -> {"idle", "snapshot", "receipt", "truncate", "save", "rollback", "restored"}]
      /\ helperMy \in [Records -> HelperLocal]
      /\ changes \in 0..MaxChanges /\ Nothing \notin DOMAIN taken
  BY CheckpointAssumption DEF CheckpointInv, CheckpointTypeOK, Taken, Captured, Saved, HelperLocal
<1>1. /\ OneName /\ \A r \in Records : Knows(r)
  BY DEF CheckpointInv
\* Steps that take no snapshot.
<1>2. ASSUME UNCHANGED taken, vm' \in [config : Config, running : BOOLEAN],
             snapshot' \in [Names -> Taken \cup {Nothing}], record' \in [Records -> {Nothing} \cup Captured],
             helperPc' \in [Records -> {"idle", "snapshot", "receipt", "truncate", "save", "rollback", "restored"}],
             helperMy' \in [Records -> HelperLocal], changes' \in 0..MaxChanges,
             OneName', \A r \in Records : Knows(r)'
      PROVE  CheckpointInv'
  BY <1>0, <1>2 DEF CheckpointInv, CheckpointTypeOK, Taken, Captured, Saved, HelperLocal
<1>3. ASSUME NEW r \in Records, UNCHANGED <<vm, snapshot, taken, changes>>,
             \A q \in Records \ {r} : UNCHANGED <<record[q], helperPc[q], helperMy[q]>>,
             record' \in [Records -> {Nothing} \cup Captured],
             helperPc' \in [Records -> {"idle", "snapshot", "receipt", "truncate", "save", "rollback", "restored"}],
             helperMy' \in [Records -> HelperLocal], Knows(r)'
      PROVE  CheckpointInv'
  <2>1. \A q \in Records \ {r} : Knows(q)'
    BY <1>1, <1>3 DEF Knows, Captured, Saved, TakenFor
  <2>2. OneName'
    BY <1>1, <1>3 DEF OneName
  <2> QED
    BY <1>0, <1>2, <1>3, <2>1, <2>2
<1> USE DEF HelperGoto
<1>4. ASSUME NEW r \in Records, Capture(r) PROVE CheckpointInv'
  <2>1. PICK k \in BOOLEAN :
           record' = [record EXCEPT ![r] = [config |-> vm.config, torn |-> k, checkpoint |-> NoCheckpoint]]
    BY <1>4 DEF Capture
  <2>2. [config |-> vm.config, torn |-> k, checkpoint |-> NoCheckpoint] \in Captured
    BY <1>0 DEF Captured, Saved, NoCheckpoint
  <2>3. Knows(r)'
    BY <1>0, <1>4, <2>1 DEF Capture, Knows, NoCheckpoint
  <2> QED
    BY <1>0, <1>3, <1>4, <2>1, <2>2, <2>3 DEF Capture
<1>5. ASSUME NEW r \in Records, NEW n \in Names, Create(r, n) PROVE CheckpointInv'
  <2>1. helperMy' \in [Records -> HelperLocal] /\ record[r] \in Captured
    BY ZenonT(40), <1>0, <1>5 DEF Create, Begins, HelperLocal
  <2>2. Knows(r)'
    BY <1>0, <1>1, <1>5, <2>1 DEF Create, Knows, Captured, Saved, TakenFor, HelperLocal
  <2> QED
    BY <1>0, <1>3, <1>5, <2>1, <2>2 DEF Create
<1>6. ASSUME NEW r \in Records, TakeSnapshot(r) PROVE CheckpointInv'
  <2>1. helperMy[r].name \in Names /\ record[r] \in Captured /\ Take(helperMy[r].name, r)
    BY <1>1, <1>6 DEF TakeSnapshot, Knows
  <2> DEFINE n == helperMy[r].name
  <2>2. /\ DOMAIN taken' = DOMAIN taken \cup {Len(taken')} /\ Len(taken') \notin DOMAIN taken
        /\ taken'[Len(taken')] = r /\ taken' \in Seq(Records \cup {Nothing}) /\ Len(taken') <= MaxTokens
        /\ snapshot' \in [Names -> Taken' \cup {Nothing}] /\ OneName'
    BY <2>1, TakeStep DEF CheckpointInv
  <2>3. /\ \A q \in Records : UNCHANGED <<helperPc[q], helperMy[q]>> => Knows(q)'
        /\ \A q \in Records : record'[q] = Nothing \/ record'[q] \in Captured'
        /\ Captured \subseteq Captured' /\ HelperLocal \subseteq HelperLocal'
        /\ \A q, m : TakenFor(q, m) => TakenFor(q, m)'
    BY <1>6, <2>1, KnowsMore DEF TakeSnapshot
  <2>4. helperMy' \in [Records -> HelperLocal']
    <3>1. helperMy' = [helperMy EXCEPT ![r].token = Len(taken')] /\ Len(taken') \in DOMAIN taken'
      BY Zenon, <1>6, <2>2 DEF TakeSnapshot
    <3>2. helperMy \in [Records -> HelperLocal']
      BY <1>0, <2>3
    <3> QED
      BY <3>1, <3>2 DEF HelperLocal
  <2>5. Knows(r)'
    <3>1. /\ helperPc[r] = "snapshot" /\ helperPc'[r] = "receipt" /\ UNCHANGED record
          /\ helperMy'[r].token = Len(taken') /\ helperMy'[r].name = helperMy[r].name
      BY <1>0, <1>6 DEF TakeSnapshot, HelperLocal
    <3>2. \A m : m = Len(taken') => TakenFor(r, m)'
      BY <2>2 DEF TakenFor
    <3>3. Knows(r)
      BY <1>1
    <3> QED
      BY <2>1, <2>3, <3>1, <3>2, <3>3 DEF Knows
  <2>6. \A q \in Records : Knows(q)'
    BY <1>0, <1>6, <2>3, <2>5 DEF TakeSnapshot
  <2>7. CheckpointTypeOK'
    BY ZenonT(40), <1>0, <1>6, <2>2, <2>3, <2>4 DEF TakeSnapshot, CheckpointTypeOK, Taken, Captured, Saved, HelperLocal
  <2> QED
    BY <2>2, <2>6, <2>7 DEF CheckpointInv
<1>7. ASSUME NEW r \in Records, ReadReceipt(r) PROVE CheckpointInv'
  <2>1. /\ helperMy[r].name \in Names /\ snapshot[helperMy[r].name] \in Taken
        /\ snapshot[helperMy[r].name].receipt = helperMy[r].token
        /\ helperMy' = [helperMy EXCEPT ![r].receipt = helperMy[r].token]
    BY <1>0, <1>1, <1>7 DEF ReadReceipt, Confirmed, Knows
  <2>2. Knows(r)'
    BY <1>0, <1>1, <1>7, <2>1 DEF ReadReceipt, Knows, TakenFor, HelperLocal, Captured, Saved
  <2>3. helperMy' \in [Records -> HelperLocal]
    BY <1>0, <2>1 DEF HelperLocal
  <2> QED
    BY <1>0, <1>3, <1>7, <2>1, <2>2, <2>3 DEF ReadReceipt
<1>8. ASSUME NEW r \in Records, Truncate(r) PROVE CheckpointInv'
  <2>1. record[r] \in Captured
    BY <1>1, <1>8 DEF Truncate, Knows
  <2>2. /\ record' \in [Records -> {Nothing} \cup Captured] /\ record'[r] \in Captured
        /\ record'[r].checkpoint = record[r].checkpoint
    BY <1>0, <1>8, <2>1 DEF Truncate, Captured, Saved
  <2>3. Knows(r)'
    <3>1. /\ helperPc[r] = "truncate" /\ helperPc'[r] = "save" /\ UNCHANGED <<helperMy, taken, snapshot>>
          /\ Captured' = Captured /\ \A m : TakenFor(r, m)' <=> TakenFor(r, m)
      BY <1>0, <1>8 DEF Truncate, TakenFor, Captured, Saved
    <3>2. Knows(r) /\ record[r].checkpoint.receipt = record'[r].checkpoint.receipt
      BY <1>1, <2>2
    <3>3. record[r] # Nothing
      BY <2>1, <1>0, CheckpointAssumption DEF Captured, Saved
    <3> QED
      BY <2>2, <3>1, <3>2, <3>3 DEF Knows
  <2> QED
    BY <1>0, <1>3, <1>8, <2>2, <2>3 DEF Truncate
<1>9. ASSUME NEW r \in Records, Save(r) PROVE CheckpointInv'
  <2>1. record[r] \in Captured /\ helperMy[r] \in HelperLocal
    BY <1>0, <1>1, <1>9 DEF Save, Knows
  <2>2. /\ record' \in [Records -> {Nothing} \cup Captured]
        /\ record'[r].checkpoint.receipt = helperMy[r].receipt
    BY <1>0, <1>9, <2>1 DEF Save, Captured, Saved, HelperLocal
  <2>3. Knows(r)'
    BY <1>0, <1>1, <1>9, <2>2 DEF Save, Knows, TakenFor
  <2> QED
    BY <1>0, <1>3, <1>9, <2>2, <2>3 DEF Save
<1>10. ASSUME NEW r \in Records, NEW n \in Names, Restore(r, n) PROVE CheckpointInv'
  <2>1. /\ record[r] \in Captured /\ snapshot[n] \in Taken /\ snapshot[n] # Nothing
        /\ snapshot[n].config = record[r].config
        /\ snapshot[n].receipt = record[r].checkpoint.receipt
        /\ TakenFor(r, snapshot[n].receipt)
    BY <1>0, <1>1, <1>10 DEF Restore, Begins, Recorded, Knows, Taken
  <2>2. /\ helperMy' \in [Records -> HelperLocal] /\ helperMy'[r].name = n
        /\ helperMy'[r].receipt = snapshot[n].receipt
    <3>1. /\ helperMy' = [helperMy EXCEPT ![r].name = n, ![r].receipt = snapshot[n].receipt]
          /\ snapshot[n].receipt \in DOMAIN taken
      BY <1>10, <2>1 DEF Restore, Taken
    <3>2. /\ helperMy'[r] = [helperMy[r] EXCEPT !.name = n, !.receipt = snapshot[n].receipt]
          /\ \A q \in Records \ {r} : helperMy'[q] = helperMy[q]
          /\ helperMy[r] \in HelperLocal
      BY <1>0, <3>1
    <3>3. helperMy'[r] \in HelperLocal /\ helperMy'[r].name = n /\ helperMy'[r].receipt = snapshot[n].receipt
      <4> DEFINE one == [helperMy[r] EXCEPT !.name = n]
      <4>1. one \in HelperLocal /\ one.name = n
        BY <3>2 DEF HelperLocal
      <4>2. helperMy'[r] = [one EXCEPT !.receipt = snapshot[n].receipt]
        BY <3>2
      <4> HIDE DEF one
      <4> QED
        BY ZenonT(40), <3>1, <4>1, <4>2 DEF HelperLocal
    <3> QED
      BY <1>0, <3>1, <3>2, <3>3
  <2>3. Knows(r)'
    <3>1. \A m \in Names : snapshot[m] # Nothing /\ snapshot[m].receipt = snapshot[n].receipt => m = n
      BY <1>1, <2>1 DEF OneName
    <3> QED
      BY <1>0, <1>1, <1>10, <2>1, <2>2, <3>1 DEF Restore, Knows, TakenFor, Captured, Saved
  <2> QED
    BY <1>0, <1>3, <1>10, <2>2, <2>3 DEF Restore
<1>11. ASSUME NEW r \in Records, Rollback(r) PROVE CheckpointInv'
  <2>1. snapshot[helperMy[r].name] \in Taken
    BY <1>0, <1>1, <1>11 DEF Rollback, Knows
  <2>2. vm' \in [config : Config, running : BOOLEAN]
    BY <1>11, <2>1 DEF Rollback, Taken
  <2>3. \A q \in Records : Knows(q)'
    BY <1>0, <1>1, <1>11 DEF Rollback, Knows, TakenFor, Captured, Saved
  <2>4. OneName'
    BY <1>1, <1>11 DEF Rollback, OneName
  <2> QED
    BY <1>0, <1>2, <1>11, <2>2, <2>3, <2>4 DEF Rollback
<1>12. ASSUME NEW r \in Records, Stop(r) PROVE CheckpointInv'
  <2>1. Knows(r)'
    BY <1>0, <1>1, <1>12 DEF Stop, Knows, TakenFor
  <2> QED
    BY <1>0, <1>3, <1>12, <2>1 DEF Stop
\* Other administrators.
<1>13. CASE Others(Switch) \/ Others(Reconfigure)
  <2>1. /\ UNCHANGED <<snapshot, taken, record, helperPc, helperMy>> /\ changes' \in 0..MaxChanges
        /\ vm' \in [config : Config, running : BOOLEAN]
    <3>1. UNCHANGED <<snapshot, taken, record, helperPc, helperMy>> /\ changes < MaxChanges /\ changes' = changes + 1
      BY <1>13 DEF Others, Switch, Reconfigure
    <3>2. vm' \in [config : Config, running : BOOLEAN]
      <4>1. CASE Switch
        BY <1>0, <4>1 DEF Switch
      <4>2. CASE Reconfigure
        BY <1>0, <4>2 DEF Reconfigure
      <4> QED
        BY <1>13, <4>1, <4>2 DEF Others
    <3> QED
      BY <1>0, <3>1, <3>2, CheckpointAssumption
  <2>2. OneName' /\ \A q \in Records : Knows(q)'
    BY <1>1, <2>1 DEF OneName, Knows, TakenFor, Captured, Saved
  <2> QED
    BY <1>0, <1>2, <2>1, <2>2
<1>14. ASSUME NEW n \in Names, Others(Delete(n)) PROVE CheckpointInv'
  <2>1. /\ UNCHANGED <<vm, taken, record, helperPc, helperMy>> /\ changes' \in 0..MaxChanges
        /\ snapshot' = [snapshot EXCEPT ![n] = Nothing]
    BY <1>0, <1>14, CheckpointAssumption DEF Others, Delete
  <2>2. OneName' /\ \A q \in Records : Knows(q)'
    BY <1>0, <1>1, <2>1 DEF OneName, Knows, TakenFor, Captured, Saved
  <2> QED
    BY <1>0, <1>2, <2>1, <2>2
<1>15. ASSUME NEW n \in Names, Others(TakeAnother(n)) PROVE CheckpointInv'
  <2>1. /\ UNCHANGED <<vm, record, helperPc, helperMy>> /\ changes' \in 0..MaxChanges /\ Take(n, Nothing)
    BY <1>0, <1>15, CheckpointAssumption DEF Others, TakeAnother
  <2>2. /\ taken' \in Seq(Records \cup {Nothing}) /\ Len(taken') <= MaxTokens
        /\ snapshot' \in [Names -> Taken' \cup {Nothing}] /\ OneName'
    BY <2>1, TakeStep DEF CheckpointInv
  <2>3. /\ \A q \in Records : Knows(q)'
        /\ \A q \in Records : record'[q] = Nothing \/ record'[q] \in Captured'
        /\ HelperLocal \subseteq HelperLocal'
    BY <2>1, KnowsMore
  <2>4. CheckpointTypeOK'
    BY <1>0, <2>1, <2>2, <2>3 DEF CheckpointTypeOK, Taken, Captured, Saved, HelperLocal
  <2> QED
    BY <2>2, <2>3, <2>4 DEF CheckpointInv
<1>16. CASE UNCHANGED checkpointVars
  <2>1. OneName' /\ \A q \in Records : Knows(q)'
    BY <1>1, <1>16 DEF checkpointVars, OneName, Knows, TakenFor, Captured, Saved
  <2> QED
    BY <1>0, <1>2, <1>16, <2>1 DEF checkpointVars
<1> QED
  BY <1>4, <1>5, <1>6, <1>7, <1>8, <1>9, <1>10, <1>11, <1>12, <1>13, <1>14, <1>15, <1>16 DEF CheckpointNext

\* No snapshot and no record yet.
LEMMA CheckpointStart == CheckpointInit => CheckpointInv
<1> SUFFICES ASSUME CheckpointInit PROVE CheckpointInv
  OBVIOUS
<1>1. taken = <<>> /\ taken \in Seq(Records \cup {Nothing}) /\ Len(taken) = 0
  BY DEF CheckpointInit
<1> QED
  BY <1>1, CheckpointAssumption DEF CheckpointInit, CheckpointInv, CheckpointTypeOK, OneName, Knows, Config

\* The VM, its snapshots, the records and the helpers' locals have legal values.
THEOREM CheckpointTypes == CheckpointSpec => []CheckpointTypeOK
<1>1. CheckpointInv => CheckpointTypeOK
  BY DEF CheckpointInv
<1> QED
  BY <1>1, CheckpointStart, CheckpointStep, PTL DEF CheckpointSpec

\* RestoresOwnCheckpoint for any number of records, names and changes by
\* others: a rollback to the snapshot whose receipt was checked is to one that
\* was taken for that record, with the configuration that the record has.
THEOREM RestoreIsOfOwnCheckpoint == CheckpointSpec => RestoresOwnCheckpoint
<1>1. ASSUME CheckpointInv, [CheckpointNext]_checkpointVars
      PROVE  [\A r \in Records : helperPc[r] = "rollback" /\ helperPc'[r] = "restored" =>
                 LET used == snapshot[helperMy[r].name] IN
                   used.receipt = helperMy[r].receipt =>
                       taken[used.receipt] = r /\ used.config = record[r].config]_checkpointVars
  <2> SUFFICES ASSUME NEW r \in Records, helperPc[r] = "rollback", helperPc'[r] = "restored",
                      snapshot[helperMy[r].name].receipt = helperMy[r].receipt
               PROVE  /\ taken[snapshot[helperMy[r].name].receipt] = r
                      /\ snapshot[helperMy[r].name].config = record[r].config
    OBVIOUS
  <2>1. Knows(r) /\ helperMy[r].name \in Names
    BY SMTT(30), <1>1 DEF CheckpointInv, Knows
  <2>2. Rollback(r)
    BY ZenonT(40), <1>1 DEF checkpointVars, CheckpointInv, CheckpointTypeOK, CheckpointNext, HelperGoto, Capture, Create, TakeSnapshot, ReadReceipt,
           Truncate, Save, Restore, Rollback, Stop, Others
  <2> QED
    BY <2>1, <2>2 DEF Rollback, Knows, TakenFor
<1> QED
  BY <1>1, CheckpointStart, CheckpointStep, PTL DEF CheckpointSpec, RestoresOwnCheckpoint

-----------------------------------------------------------------------------
(* ProviderChoice: `rougarou setup`, `provider` and `ai` *)

\* What a command that has a selection holds.
Selected(t) ==
    /\ cliPc[t] = "credentials" => cliMy[t].selected \in [endpoint : Endpoints, authenticated : BOOLEAN]
    /\ cliPc[t] \in {"save", "launch"} => cliMy[t].selected \in Provider

\* The types, and that a stored key is the one of its endpoint.
KeyInv ==
    /\ ProviderTypeOK
    /\ \A t \in Terminals : Selected(t)
    /\ credentials # Unset => credentials.key \in {credentials.endpoint, Unset}
    /\ KeyStaysWithEndpoint

\* What an AI process for a provider is given is its endpoint's key, or none.
LEMMA ProcessKey ==
    ASSUME KeyInv, NEW provider \in Provider, Starts(provider), NEW inherited
    PROVE  /\ Process(provider, inherited) \in Session /\ Process(provider, inherited).key \in Key
           /\ Keyed(Process(provider, inherited)) \subseteq Session
           /\ \A process \in Keyed(Process(provider, inherited)) : process.key = process.endpoint
<1> DEFINE given == Process(provider, inherited)
<1>1. provider.authenticated \in BOOLEAN /\ provider.endpoint \in Endpoints \cup {Unset}
  <2>1. CASE provider \in [endpoint : Endpoints, authenticated : BOOLEAN]
    BY <2>1
  <2>2. CASE provider = OwnLogin
    BY <2>2 DEF OwnLogin
  <2> QED
    BY <2>1, <2>2 DEF Provider
<1>2. CASE provider.authenticated
  <2>1. credentials \in Session /\ credentials.endpoint = provider.endpoint /\ credentials.key = credentials.endpoint
    BY <1>2 DEF KeyInv, ProviderTypeOK, Starts
  <2>2. given = [endpoint |-> provider.endpoint, key |-> provider.endpoint]
    BY <1>2, <2>1 DEF Process
  <2> QED
    BY <1>1, <2>2 DEF Session, Key, Keyed
<1>3. CASE ~provider.authenticated
  <2>1. given = [endpoint |-> provider.endpoint, key |-> Unset]
    BY <1>3 DEF Process
  <2>2. given \in [endpoint : Endpoints \cup {Unset}, key : {Unset}]
    BY <1>1, <2>1
  <2> QED
    BY <1>1, <2>1, <2>2 DEF Session, Key, Keyed
<1> QED
  BY <1>1, <1>2, <1>3

\* The places in a command, and what a terminal holds there.
CliPlaces == {"shell", "choose", "credentials", "save", "seen", "invite", "answer",
              "middle", "offer", "finish", "complete", "launch"}
CliLocal  == [config : Configuration, selected : Provider \cup {Unset}, setup : BOOLEAN]

\* A step of one terminal that leaves the files and the processes alone.
LEMMA CliStep ==
    ASSUME KeyInv, NEW t \in Terminals, UNCHANGED <<credentials, spec, environment, keyed>>,
           config' \in Configuration, latest' \in Provider \cup {Unset}, unsaved' \in BOOLEAN,
           commands' \in 0..MaxCommands, invited' \in 0..2, overlapped' \in BOOLEAN,
           cliPc' \in [Terminals -> CliPlaces], cliMy' \in [Terminals -> CliLocal],
           \A u \in Terminals \ {t} : cliPc'[u] = cliPc[u] /\ cliMy'[u] = cliMy[u],
           Selected(t)'
    PROVE  KeyInv'
<1>1. \A u \in Terminals : Selected(u)'
  BY DEF KeyInv, Selected
<1> QED
  BY <1>1 DEF KeyInv, ProviderTypeOK, CliPlaces, CliLocal, KeyStaysWithEndpoint

\* One step per action of ProviderChoice keeps types and keys.
LEMMA KeyStep == KeyInv /\ [ProviderNext]_providerVars => KeyInv'
<1> SUFFICES ASSUME KeyInv, [ProviderNext]_providerVars PROVE KeyInv'
  OBVIOUS
<1>0. /\ config \in Configuration /\ credentials \in Session \cup {Unset} /\ spec \in [Jobs -> Provider \cup {Unset}]
      /\ environment \in [Terminals -> Key] /\ keyed \subseteq Session
      /\ cliPc \in [Terminals -> CliPlaces] /\ cliMy \in [Terminals -> CliLocal]
      /\ commands \in 0..MaxCommands /\ latest \in Provider \cup {Unset} /\ unsaved \in BOOLEAN
      /\ invited \in 0..2 /\ overlapped \in BOOLEAN /\ MaxCommands \in Nat
      /\ \A t \in Terminals : Selected(t)
  BY ProviderAssumption DEF KeyInv, ProviderTypeOK, CliPlaces, CliLocal
<1>1. overlapped' \in BOOLEAN
  BY <1>0 DEF ProviderNext, providerVars
<1>2. Blank \in CliLocal /\ [Blank EXCEPT !.setup = TRUE] \in CliLocal /\ NoConfig \in Configuration
  BY DEF Blank, NoConfig, CliLocal, Configuration
<1>3. OwnLogin \in Provider /\ \A e \in Endpoints, b \in BOOLEAN : [endpoint |-> e, authenticated |-> b] \in Provider
  BY DEF Provider
<1>4. ASSUME NEW t \in Terminals PROVE Start(t) => commands' \in 0..MaxCommands
  BY <1>0 DEF Start
<1> USE DEF settings, ai, CliGoto, Leave, Hold
<1>5. ASSUME NEW t \in Terminals, Provide(t) \/ Finish(t) PROVE KeyInv'
  <2>1. cliMy' = [cliMy EXCEPT ![t].config = config] /\ cliMy' \in [Terminals -> CliLocal]
    BY <1>0, <1>5 DEF Provide, Finish, CliLocal
  <2> QED
    BY <1>0, <1>1, <1>4, <1>5, <2>1, CliStep DEF Provide, Finish, CliPlaces, Selected
<1>6. ASSUME NEW t \in Terminals, Done(t) PROVE /\ cliMy' \in [Terminals -> CliLocal] /\ Selected(t)'
                                                /\ cliPc' \in [Terminals -> CliPlaces]
                                                /\ \A u \in Terminals \ {t} : cliPc'[u] = cliPc[u] /\ cliMy'[u] = cliMy[u]
  BY ZenonT(40), <1>0, <1>2, <1>6 DEF Done, CliPlaces, Selected
<1>7. ASSUME NEW t \in Terminals, Keep(t) PROVE KeyInv'
  BY <1>0, <1>1, <1>6, <1>7, CliStep DEF Keep
<1>8. ASSUME NEW t \in Terminals, ChooseOwnLogin(t) PROVE KeyInv'
  <2>1. cliMy' = [cliMy EXCEPT ![t].selected = OwnLogin] /\ cliMy' \in [Terminals -> CliLocal]
    BY <1>0, <1>3, <1>8 DEF ChooseOwnLogin, CliLocal
  <2>2. cliMy'[t].selected = OwnLogin
    BY <1>0, <2>1 DEF CliLocal
  <2> QED
    BY <1>0, <1>1, <1>3, <1>8, <2>1, <2>2, CliStep DEF ChooseOwnLogin, CliPlaces, Selected
<1>9. ASSUME NEW t \in Terminals, NEW e \in Endpoints, NEW typed \in BOOLEAN, ChooseEndpoint(t, e, typed) PROVE KeyInv'
  <2>1. /\ cliMy' = [cliMy EXCEPT ![t].selected = [endpoint |-> e, authenticated |-> typed]]
        /\ cliMy' \in [Terminals -> CliLocal]
    BY <1>0, <1>3, <1>9 DEF ChooseEndpoint, CliLocal
  <2>2. cliMy'[t].selected = [endpoint |-> e, authenticated |-> typed]
    BY <1>0, <2>1 DEF CliLocal
  <2> QED
    BY <1>0, <1>1, <1>9, <2>1, <2>2, CliStep DEF ChooseEndpoint, CliPlaces, Selected
<1>10. ASSUME NEW t \in Terminals, WriteCredentials(t) PROVE KeyInv'
  <2>1. cliMy[t].selected \in [endpoint : Endpoints, authenticated : BOOLEAN]
    BY <1>0, <1>10 DEF WriteCredentials, Selected
  <2>2. credentials' \in Session /\ credentials'.key \in {credentials'.endpoint, Unset}
    BY <1>10, <2>1 DEF WriteCredentials, Credentials, Session, Key
  <2>3. \A u \in Terminals : Selected(u)'
    BY <1>0, <1>10, <2>1 DEF WriteCredentials, Selected, Provider, CliPlaces
  <2>4. KeyStaysWithEndpoint'
    BY <1>10 DEF WriteCredentials, KeyInv, KeyStaysWithEndpoint
  <2> QED
    BY <1>0, <1>1, <1>10, <2>2, <2>3, <2>4 DEF WriteCredentials, KeyInv, ProviderTypeOK, CliPlaces, CliLocal
<1>11. ASSUME NEW t \in Terminals, SaveSelection(t) PROVE KeyInv'
  <2>1. cliMy[t].selected \in Provider /\ cliMy[t].config \in Configuration
    BY <1>0, <1>11 DEF SaveSelection, Selected, CliLocal
  <2>2. config' \in Configuration /\ latest' \in Provider
    BY <1>11, <2>1 DEF SaveSelection, Configuration
  <2> QED
    BY <1>0, <1>1, <1>6, <1>11, <2>2, CliStep DEF SaveSelection
<1>12. ASSUME NEW t \in Terminals, Setup(t) PROVE KeyInv'
  <2>1. cliMy' \in [Terminals -> CliLocal]
    BY <1>0, <1>12 DEF Setup, CliLocal
  <2> QED
    BY <1>0, <1>1, <1>4, <1>12, <2>1, CliStep DEF Setup, CliPlaces, Selected
<1>13. ASSUME NEW t \in Terminals, FirstLogin(t) PROVE KeyInv'
  <2>1. cliMy' \in [Terminals -> CliLocal]
    BY ZenonT(40), <1>0, <1>13 DEF FirstLogin, CliLocal
  <2> QED
    BY <1>0, <1>1, <1>4, <1>13, <2>1, CliStep DEF FirstLogin, CliPlaces, Selected
<1>14. ASSUME NEW t \in Terminals, SaveSeen(t) PROVE KeyInv'
  <2>1. cliMy[t].config \in Configuration
    BY <1>0 DEF CliLocal
  <2>2. config' \in Configuration
    BY <1>14, <2>1 DEF SaveSeen, Configuration
  <2>3. cliMy' \in [Terminals -> CliLocal]
    BY <1>0, <1>2, <1>14 DEF SaveSeen, CliLocal
  <2> QED
    BY <1>0, <1>1, <1>14, <2>2, <2>3, CliStep DEF SaveSeen, CliPlaces, Selected
<1>15. ASSUME NEW t \in Terminals, Invite(t) PROVE KeyInv'
  <2>1. invited' \in 0..2
    BY <1>0, <1>15 DEF Invite
  <2> QED
    BY <1>0, <1>1, <1>15, <2>1, CliStep DEF Invite, CliPlaces, Selected
<1>16. ASSUME NEW t \in Terminals, Accept(t) \/ Middle(t) PROVE KeyInv'
  BY <1>0, <1>1, <1>16, CliStep DEF Accept, Middle, CliPlaces, Selected
<1>17. ASSUME NEW t \in Terminals, Offer(t) PROVE KeyInv'
  <2>1. cliMy' \in [Terminals -> CliLocal]
    BY <1>0, <1>17 DEF Offer, CliLocal
  <2>2. cliPc' \in [Terminals -> CliPlaces] /\ Selected(t)'
    BY <1>0, <1>17 DEF Offer, CliPlaces, Selected
  <2> QED
    BY <1>0, <1>1, <1>17, <2>1, <2>2, CliStep DEF Offer
<1>18. ASSUME NEW t \in Terminals, SaveComplete(t) PROVE KeyInv'
  <2>1. cliMy[t].config \in Configuration
    BY <1>0 DEF CliLocal
  <2>2. config' \in Configuration
    BY <1>18, <2>1 DEF SaveComplete, Configuration
  <2> QED
    BY <1>0, <1>1, <1>2, <1>18, <2>2, CliStep DEF SaveComplete, CliPlaces, Selected
<1>19. ASSUME NEW t \in Terminals, Ai(t) PROVE KeyInv'
  <2>1. config.provider \in Provider
    BY <1>0, <1>19 DEF Ai, Configuration
  <2>2. cliMy' = [cliMy EXCEPT ![t].selected = config.provider] /\ cliMy' \in [Terminals -> CliLocal]
    BY <1>0, <1>19, <2>1 DEF Ai, CliLocal
  <2>3. cliMy'[t].selected = config.provider
    BY <1>0, <2>2 DEF CliLocal
  <2> QED
    BY <1>0, <1>1, <1>19, <2>1, <2>2, <2>3, CliStep DEF Ai, CliPlaces, Selected
<1>20. ASSUME NEW t \in Terminals, Launch(t) PROVE KeyInv'
  <2>1. cliMy[t].selected \in Provider /\ Starts(cliMy[t].selected)
    BY <1>0, <1>20 DEF Launch, Selected
  <2> DEFINE given == Process(cliMy[t].selected, environment[t])
  <2>2. keyed' = keyed \cup Keyed(given) /\ environment' = [environment EXCEPT ![t] = given.key]
    BY <1>20 DEF Launch
  <2>3. /\ given.key \in Key /\ Keyed(given) \subseteq Session
        /\ \A process \in Keyed(given) : process.key = process.endpoint
    BY <2>1, ProcessKey
  <2> HIDE DEF given
  <2>4. keyed' \subseteq Session /\ KeyStaysWithEndpoint' /\ environment' \in [Terminals -> Key]
    BY <1>0, <2>2, <2>3 DEF KeyStaysWithEndpoint, KeyInv
  <2>5. \A u \in Terminals : Selected(u)'
    BY <1>0, <1>20 DEF Launch, Selected, CliPlaces
  <2>6. cliMy' \in [Terminals -> CliLocal] /\ cliPc' \in [Terminals -> CliPlaces]
    BY <1>0, <1>2, <1>20 DEF Launch, CliPlaces
  <2> QED
    BY <1>0, <1>1, <1>20, <2>4, <2>5, <2>6 DEF Launch, KeyInv, ProviderTypeOK, CliPlaces, CliLocal
<1>21. ASSUME NEW t \in Terminals, EndAi(t) PROVE KeyInv'
  BY <1>0, <1>1, <1>21 DEF EndAi, KeyInv, ProviderTypeOK, CliPlaces, CliLocal, KeyStaysWithEndpoint, Selected, Key
<1>22. ASSUME NEW t \in Terminals, Interrupt(t) PROVE KeyInv'
  BY <1>0, <1>1, <1>2, <1>22, CliStep DEF Interrupt, CliPlaces, Selected
<1>23. ASSUME NEW j \in Jobs, Submit(j) PROVE KeyInv'
  <2>1. config.provider \in Provider
    BY <1>0, <1>23 DEF Submit, Configuration
  <2> QED
    BY <1>0, <1>1, <1>23, <2>1 DEF Submit, KeyInv, ProviderTypeOK, KeyStaysWithEndpoint, Selected
<1>24. ASSUME NEW j \in Jobs, RunJob(j) PROVE KeyInv'
  <2>1. spec[j] \in Provider /\ Starts(spec[j]) /\ keyed' = keyed \cup Keyed(Process(spec[j], Unset))
    BY <1>0, <1>24 DEF RunJob
  <2>2. keyed' \subseteq Session /\ KeyStaysWithEndpoint'
    BY <1>0, <2>1, ProcessKey DEF KeyStaysWithEndpoint, KeyInv
  <2> QED
    BY <1>0, <1>1, <1>24, <2>2 DEF RunJob, KeyInv, ProviderTypeOK, Selected
<1>25. CASE UNCHANGED providerVars
  BY <1>25 DEF providerVars, KeyInv, ProviderTypeOK, KeyStaysWithEndpoint, Selected
<1> QED
  BY <1>5, <1>7, <1>8, <1>9, <1>10, <1>11, <1>12, <1>13, <1>14, <1>15, <1>16, <1>17, <1>18, <1>19, <1>20,
     <1>21, <1>22, <1>23, <1>24, <1>25 DEF ProviderNext

\* No configuration and no key at first.
LEMMA KeyStart == ProviderInit => KeyInv
<1> SUFFICES ASSUME ProviderInit PROVE KeyInv
  OBVIOUS
<1>1. Blank \in CliLocal /\ NoConfig \in Configuration
  BY DEF Blank, NoConfig, CliLocal, Configuration
<1>2. /\ cliPc = [t \in Terminals |-> "shell"] /\ cliMy \in [Terminals -> CliLocal]
      /\ environment \in [Terminals -> Key]
  BY <1>1 DEF ProviderInit, CliLocal, Key
<1>3. /\ config \in Configuration /\ credentials \in Session \cup {Unset}
      /\ spec \in [Jobs -> Provider \cup {Unset}] /\ keyed \subseteq Session
      /\ cliPc \in [Terminals -> CliPlaces]
      /\ latest \in Provider \cup {Unset} /\ unsaved \in BOOLEAN /\ overlapped \in BOOLEAN
  BY <1>1, <1>2 DEF ProviderInit, CliPlaces
<1>4. commands \in 0..MaxCommands /\ invited \in 0..2
  BY ProviderAssumption DEF ProviderInit
<1>5. ProviderTypeOK
  BY <1>2, <1>3, <1>4 DEF ProviderTypeOK, CliPlaces, CliLocal
<1>6. \A t \in Terminals : Selected(t)
  BY <1>2 DEF Selected
<1> QED
  BY <1>5, <1>6 DEF ProviderInit, KeyInv, KeyStaysWithEndpoint

\* Both files, the processes and each terminal's locals have legal values.
THEOREM ProviderTypes == ProviderSpec => []ProviderTypeOK
<1>1. KeyInv => ProviderTypeOK
  BY DEF KeyInv
<1> QED
  BY <1>1, KeyStart, KeyStep, PTL DEF ProviderSpec

\* KeyStaysWithEndpoint for any number of terminals, jobs and endpoints: an AI
\* process is given only the key that was typed for its own endpoint.
THEOREM KeysStayWithTheirEndpoint == ProviderSpec => []KeyStaysWithEndpoint
<1>1. KeyInv => KeyStaysWithEndpoint
  BY DEF KeyInv
<1> QED
  BY <1>1, KeyStart, KeyStep, PTL DEF ProviderSpec

\* While no two commands overlapped: one holder at most, what it read is what
\* the file says, a selection about to be saved has its key, and the
\* invitation is shown after `seen` was saved and at most once.
Alone ==
    /\ \A t, u \in Holding : t = u
    /\ \A t \in Holding : cliMy[t].config = config
    /\ \A t \in Terminals : cliPc[t] = "save" => Starts(cliMy[t].selected)
    /\ config.provider = latest
    /\ ~unsaved /\ latest # Unset => Starts(latest)
    /\ \A t \in Terminals : cliPc[t] = "seen" => ~config.seen
    /\ \A t \in Terminals : cliPc[t] = "invite" => config.seen /\ invited = 0
    /\ \A t, u \in Terminals : cliPc[t] = "invite" /\ cliPc[u] = "invite" => t = u
    /\ ~config.seen => invited = 0
    /\ invited <= 1

SelectionInv == KeyInv /\ (~overlapped => Alone)

\* A finite set that does not have two elements has no two that differ.
LEMMA AtMostOne ==
    ASSUME NEW S, IsFiniteSet(S), ~(Cardinality(S) > 1), NEW x \in S, NEW y \in S
    PROVE  x = y
<1> SUFFICES ASSUME x # y PROVE FALSE
  OBVIOUS
<1>1. IsFiniteSet({x}) /\ Cardinality({x}) = 1
  BY FS_Singleton
<1>2. Cardinality({x} \cup {y}) = 2
  BY <1>1, FS_AddElement
<1>3. {x} \cup {y} \subseteq S
  OBVIOUS
<1>4. Cardinality({x} \cup {y}) <= Cardinality(S)
  BY <1>3, FS_Subset
<1>5. Cardinality(S) \in Nat
  BY FS_CardinalityType
<1> QED
  BY <1>2, <1>4, <1>5

\* One terminal's step keeps Alone: it rewrites a file only as the holder.
LEMMA AloneStep ==
    ASSUME KeyInv, Alone, NEW t \in Terminals,
           cliPc' \in [Terminals -> CliPlaces], cliMy' \in [Terminals -> CliLocal],
           \A u \in Terminals \ {t} : cliPc'[u] = cliPc[u] /\ cliMy'[u] = cliMy[u],
           \A x, y \in Holding' : x = y,
           t \in Holding \/ UNCHANGED <<config, credentials>>,
           config'.seen = config.seen \/ config'.seen,
           invited' = invited \/ cliPc[t] = "invite",
           t \in Holding' => cliMy'[t].config = config',
           cliPc'[t] = "save" => Starts(cliMy[t].selected)',
           config'.provider = latest',
           ~unsaved' /\ latest' # Unset => Starts(latest)',
           cliPc'[t] = "seen" => ~config'.seen,
           cliPc'[t] = "invite" => config'.seen /\ invited' = 0 /\ \A u \in Terminals : cliPc[u] # "invite",
           ~config'.seen => invited' = 0,
           invited' <= 1
    PROVE  Alone'
<1>1. \A u \in Terminals \ {t} : u \in Holding' <=> u \in Holding
  BY DEF Holding
<1>2. \A u \in Terminals \ {t} : u \in Holding => UNCHANGED <<config, credentials>>
  BY DEF Alone, Holding
<1>3. \A u \in Holding' : cliMy'[u].config = config'
  <2> TAKE u \in Holding'
  <2>1. u \in Terminals
    BY DEF Holding
  <2> QED
    BY <1>1, <1>2, <2>1 DEF Alone
<1>4. \A u \in Terminals : cliPc'[u] = "save" => Starts(cliMy[u].selected)'
  <2> TAKE u \in Terminals
  <2>1. CASE u # t /\ cliPc'[u] = "save"
    <3>1. u \in Holding /\ cliPc[u] = "save" /\ cliMy'[u] = cliMy[u]
      BY <2>1 DEF Holding
    <3> QED
      BY <1>2, <2>1, <3>1 DEF Alone, Starts
  <2> QED
    BY <2>1
<1>5. \A u \in Terminals : cliPc'[u] = "seen" => ~config'.seen
  BY <1>2 DEF Alone, Holding
<1>6. \A u \in Terminals : cliPc'[u] = "invite" => config'.seen /\ invited' = 0
  BY DEF Alone
<1>7. \A u, v \in Terminals : cliPc'[u] = "invite" /\ cliPc'[v] = "invite" => u = v
  BY DEF Alone
<1> QED
  BY <1>3, <1>4, <1>5, <1>6, <1>7 DEF Alone

\* One step per action of ProviderChoice: the only holder of a configuration is
\* the only one to write it, and writes what it read but for its own field.
LEMMA SelectionStep == SelectionInv /\ [ProviderNext]_providerVars => SelectionInv'
<1> SUFFICES ASSUME SelectionInv, [ProviderNext]_providerVars, ~overlapped' PROVE Alone'
  BY KeyStep DEF SelectionInv
<1>0. CASE UNCHANGED providerVars
  BY <1>0 DEF providerVars, SelectionInv, Alone, Holding, Starts
<1> SUFFICES ASSUME ProviderNext PROVE Alone'
  BY <1>0
<1>1. ~overlapped /\ ~(Cardinality(Holding') > 1)
  BY DEF ProviderNext
<1>2. KeyInv /\ Alone /\ KeyInv'
  BY <1>1, KeyStep DEF SelectionInv
<1>3. \A x, y \in Holding' : x = y
  <2>1. IsFiniteSet(Holding')
    <3>1. Holding' \subseteq Terminals
      BY DEF Holding
    <3> QED
      BY <3>1, ProviderAssumption, FS_Subset
  <2> QED
    BY <1>1, <2>1, AtMostOne
<1>4. /\ config \in Configuration /\ cliPc \in [Terminals -> CliPlaces] /\ cliMy \in [Terminals -> CliLocal]
      /\ cliPc' \in [Terminals -> CliPlaces] /\ cliMy' \in [Terminals -> CliLocal] /\ config' \in Configuration
      /\ invited \in 0..2 /\ \A t \in Terminals : Selected(t)
  BY <1>2 DEF KeyInv, ProviderTypeOK, CliPlaces, CliLocal
<1>5. /\ config.provider = latest /\ (~unsaved /\ latest # Unset => Starts(latest))
      /\ (~config.seen => invited = 0) /\ invited <= 1
  BY <1>2 DEF Alone
<1>6. \A t \in Holding : cliMy[t].config = config
  BY <1>2 DEF Alone
<1>7. UNCHANGED <<config, credentials, latest, unsaved>> =>
        /\ config'.provider = latest' /\ (~unsaved' /\ latest' # Unset => Starts(latest)')
        /\ config'.seen = config.seen
  BY <1>5 DEF Starts
<1> USE DEF settings, CliGoto, Leave, Hold
<1>8. ASSUME NEW t \in Terminals, Provide(t) \/ Finish(t) PROVE Alone'
  <2>1. cliMy'[t].config = config'
    BY <1>4, <1>8 DEF Provide, Finish, CliLocal
  <2> QED
    BY <1>2, <1>3, <1>4, <1>5, <1>7, <1>8, <2>1, AloneStep DEF Provide, Finish, Holding
<1>9. ASSUME NEW t \in Terminals, Done(t) PROVE /\ cliPc'[t] \in {"finish", "shell"} /\ t \notin Holding'
                                                /\ \A u \in Terminals \ {t} : cliPc'[u] = cliPc[u] /\ cliMy'[u] = cliMy[u]
  BY <1>4, <1>9 DEF Done, Holding
<1>10. ASSUME NEW t \in Terminals, Keep(t) PROVE Alone'
  BY <1>2, <1>3, <1>4, <1>5, <1>7, <1>9, <1>10, AloneStep DEF Keep
<1>11. ASSUME NEW t \in Terminals, ChooseOwnLogin(t) PROVE Alone'
  <2>1. cliMy'[t].config = cliMy[t].config /\ cliMy'[t].selected = OwnLogin /\ t \in Holding
    BY <1>4, <1>11 DEF ChooseOwnLogin, CliLocal, Holding
  <2>2. Starts(OwnLogin)'
    BY DEF Starts, OwnLogin
  <2>3. Starts(cliMy[t].selected)'
    BY <2>1, <2>2 DEF Starts
  <2> QED
    BY <1>2, <1>3, <1>4, <1>5, <1>6, <1>7, <1>11, <2>1, <2>3, AloneStep DEF ChooseOwnLogin
<1>12. ASSUME NEW t \in Terminals, NEW e \in Endpoints, NEW typed \in BOOLEAN, ChooseEndpoint(t, e, typed) PROVE Alone'
  <2>1. cliMy'[t].config = cliMy[t].config /\ t \in Holding
    BY <1>4, <1>12 DEF ChooseEndpoint, CliLocal, Holding
  <2> QED
    BY <1>2, <1>3, <1>4, <1>5, <1>6, <1>7, <1>12, <2>1, AloneStep DEF ChooseEndpoint
<1>13. ASSUME NEW t \in Terminals, WriteCredentials(t) PROVE Alone'
  <2>1. cliMy'[t].config = cliMy[t].config /\ t \in Holding /\ cliMy'[t].selected = cliMy[t].selected
    BY <1>4, <1>13 DEF WriteCredentials, Holding
  <2>2. cliMy[t].selected.endpoint \in Endpoints /\ credentials' = Credentials(cliMy[t].selected)
    BY <1>4, <1>13 DEF WriteCredentials, Selected
  <2>3. credentials' \in Session /\ credentials'.endpoint = cliMy[t].selected.endpoint
        /\ (cliMy[t].selected.authenticated => credentials'.key = cliMy[t].selected.endpoint)
    BY <2>2 DEF Credentials, Session, Key
  <2>4. credentials' # Unset /\ cliMy[t].selected.endpoint # Unset
    BY <2>2, <2>3, ProviderAssumption
  <2>5. Starts(cliMy[t].selected)'
    BY <2>1, <2>3, <2>4 DEF Starts
  <2> QED
    BY <1>2, <1>3, <1>4, <1>5, <1>6, <1>13, <2>1, <2>5, AloneStep DEF WriteCredentials
<1>14. ASSUME NEW t \in Terminals, SaveSelection(t) PROVE Alone'
  <2>1. t \in Holding /\ cliMy[t].config = config /\ Starts(cliMy[t].selected)
    BY <1>2, <1>6, <1>14 DEF SaveSelection, Holding, Alone
  <2>2. config' = [config EXCEPT !.provider = cliMy[t].selected] /\ latest' = cliMy[t].selected
    BY <1>14, <2>1 DEF SaveSelection
  <2>3. config'.seen = config.seen /\ config'.provider = latest'
    BY <1>4, <2>2 DEF Configuration
  <2>4. Starts(latest)'
    BY <1>14, <2>1, <2>2 DEF SaveSelection, Starts
  <2> QED
    BY <1>2, <1>3, <1>4, <1>5, <1>9, <1>14, <2>1, <2>3, <2>4, AloneStep DEF SaveSelection
<1>15. ASSUME NEW t \in Terminals, Setup(t) PROVE Alone'
  BY <1>2, <1>3, <1>4, <1>5, <1>7, <1>15, AloneStep DEF Setup, Holding
<1>16. ASSUME NEW t \in Terminals, FirstLogin(t) PROVE Alone'
  <2>1. cliMy'[t].config = config'
    BY <1>4, <1>16 DEF FirstLogin, CliLocal
  <2> QED
    BY <1>2, <1>3, <1>4, <1>5, <1>7, <1>16, <2>1, AloneStep DEF FirstLogin
<1>17. ASSUME NEW t \in Terminals, SaveSeen(t) PROVE Alone'
  <2>1. t \in Holding /\ cliMy[t].config = config /\ ~config.seen
    BY <1>2, <1>6, <1>17 DEF SaveSeen, Holding, Alone
  <2>2. config' = [config EXCEPT !.seen = TRUE] /\ UNCHANGED <<credentials, latest, unsaved>>
    BY <1>17, <2>1 DEF SaveSeen
  <2>3. config'.seen /\ config'.provider = latest' /\ (~unsaved' /\ latest' # Unset => Starts(latest)')
    BY <1>4, <1>5, <2>2 DEF Configuration, Starts
  <2>4. \A u \in Terminals : cliPc[u] # "invite"
    BY <1>2, <2>1 DEF Alone
  <2> QED
    BY <1>2, <1>3, <1>4, <1>5, <1>17, <2>1, <2>3, <2>4, AloneStep DEF SaveSeen, Holding
<1>18. ASSUME NEW t \in Terminals, Invite(t) PROVE Alone'
  <2>1. config.seen /\ invited = 0 /\ invited' = 1 /\ cliPc'[t] = "answer" /\ cliPc[t] = "invite"
    BY <1>2, <1>4, <1>18 DEF Invite, Alone
  <2> QED
    BY <1>2, <1>3, <1>4, <1>5, <1>7, <1>18, <2>1, AloneStep DEF Invite, Holding
<1>19. ASSUME NEW t \in Terminals, Accept(t) \/ Middle(t) PROVE Alone'
  <2>1. /\ cliPc'[t] \in {"middle", "offer", "finish"} /\ UNCHANGED <<cliMy, settings, invited>>
        /\ \A u \in Terminals \ {t} : cliPc'[u] = cliPc[u]
    BY <1>4, <1>19 DEF Accept, Middle
  <2> QED
    BY <1>2, <1>3, <1>4, <1>5, <1>7, <2>1, AloneStep DEF Holding
<1>20. ASSUME NEW t \in Terminals, Offer(t) PROVE Alone'
  <2>1. cliPc'[t] = "finish" \/ (cliPc'[t] = "choose" /\ cliMy'[t].config = config)
    <3>1. CASE CliGoto(t, "finish")
      BY <1>4, <3>1
    <3>2. CASE Hold(t, "choose")
      BY <1>4, <3>2 DEF CliLocal
    <3> QED
      BY <1>20, <3>1, <3>2 DEF Offer
  <2>2. \A u \in Terminals \ {t} : cliPc'[u] = cliPc[u] /\ cliMy'[u] = cliMy[u]
    BY <1>4, <1>20 DEF Offer
  <2> QED
    BY <1>2, <1>3, <1>4, <1>5, <1>7, <1>20, <2>1, <2>2, AloneStep DEF Offer, Holding
<1>21. ASSUME NEW t \in Terminals, SaveComplete(t) PROVE Alone'
  <2>1. t \in Holding /\ cliMy[t].config = config
    BY <1>2, <1>6, <1>21 DEF SaveComplete, Holding
  <2>2. config' = [config EXCEPT !.complete = TRUE] /\ UNCHANGED <<credentials, latest, unsaved>>
    BY <1>21, <2>1 DEF SaveComplete
  <2>3. config'.seen = config.seen /\ config'.provider = latest' /\ (~unsaved' /\ latest' # Unset => Starts(latest)')
    BY <1>4, <1>5, <2>2 DEF Configuration, Starts
  <2> QED
    BY <1>2, <1>3, <1>4, <1>5, <1>21, <2>1, <2>3, AloneStep DEF SaveComplete, Holding
<1>22. ASSUME NEW t \in Terminals, Ai(t) PROVE Alone'
  BY <1>2, <1>3, <1>4, <1>5, <1>7, <1>22, AloneStep DEF Ai, Holding
<1>23. ASSUME NEW t \in Terminals, Launch(t) PROVE Alone'
  BY <1>2, <1>3, <1>4, <1>5, <1>7, <1>23, AloneStep DEF Launch, Holding
<1>24. ASSUME NEW t \in Terminals, Interrupt(t) PROVE Alone'
  BY <1>2, <1>3, <1>4, <1>5, <1>7, <1>24, AloneStep DEF Interrupt, Holding
<1>25. ASSUME UNCHANGED <<settings, cliPc, cliMy, invited>> PROVE Alone'
  BY <1>2, <1>25 DEF Alone, Holding, Starts
<1>26. ASSUME NEW t \in Terminals, EndAi(t) PROVE Alone'
  BY <1>25, <1>26 DEF EndAi
<1>27. ASSUME NEW j \in Jobs, Submit(j) \/ RunJob(j) PROVE Alone'
  BY <1>25, <1>27 DEF Submit, RunJob
<1> QED
  BY <1>8, <1>10, <1>11, <1>12, <1>13, <1>14, <1>15, <1>16, <1>17, <1>18, <1>19, <1>20,
     <1>21, <1>22, <1>23, <1>24, <1>26, <1>27 DEF ProviderNext

\* Nobody holds anything at first.
LEMMA SelectionStart == ProviderInit => SelectionInv
<1> SUFFICES ASSUME ProviderInit PROVE Alone
  BY KeyStart DEF SelectionInv
<1> QED
  BY DEF ProviderInit, Alone, Holding, NoConfig

\* SelectionStands for any number of terminals: a selection that was saved stays
\* in config.json and has its key, unless two commands overlapped or one was
\* left between its two files.
THEOREM SelectionsStand == ProviderSpec => []SelectionStands
<1>1. SelectionInv => SelectionStands
  BY DEF SelectionInv, Alone, SelectionStands
<1> QED
  BY <1>1, SelectionStart, SelectionStep, PTL DEF ProviderSpec

\* OneInvitation: commands that do not overlap show the login invitation once.
THEOREM InvitedOnce == ProviderSpec => []OneInvitation
<1>1. SelectionInv => OneInvitation
  BY DEF SelectionInv, KeyInv, ProviderTypeOK, Alone, OneInvitation
<1> QED
  BY <1>1, SelectionStart, SelectionStep, PTL DEF ProviderSpec

-----------------------------------------------------------------------------
(* The four together *)

\* The run's specification is all four of theirs: one moves, three stutter.
LEMMA EachToolIsItself ==
    Spec => AccessSpec /\ InstallSpec /\ CheckpointSpec /\ ProviderSpec
<1>1. Init => AccessInit /\ InstallInit /\ CheckpointInit /\ ProviderInit
  BY DEF Init
<1>2. [Next]_<<tool, providerVars, installVars, accessVars, checkpointVars>> =>
          /\ [AccessNext]_accessVars /\ [InstallNext]_installVars
          /\ [CheckpointNext]_checkpointVars /\ [ProviderNext]_providerVars
  BY DEF Next, ProviderMoves, InstallMoves, AccessMoves, CheckpointMoves
<1> QED
  BY <1>1, <1>2, PTL DEF Spec, AccessSpec, InstallSpec, CheckpointSpec, ProviderSpec

\* The command of a behaviour is one of the four.
KnownTool == tool \in {"provider", "install", "access", "checkpoint"}

\* Whichever command moves, its files, locals and resources have legal values.
THEOREM ToolsTypes == Spec => []TypeOK
<1>1. AccessTypeOK /\ InstallTypeOK /\ CheckpointTypeOK /\ ProviderTypeOK
      /\ KnownTool => TypeOK
  BY DEF TypeOK, KnownTool
<1>2. Spec => []KnownTool
  <2>1. Init => KnownTool
    BY DEF Init, KnownTool
  <2>2. KnownTool /\ [Next]_<<tool, providerVars, installVars, accessVars, checkpointVars>> => KnownTool'
    BY DEF KnownTool, Next, ProviderMoves, InstallMoves, AccessMoves, CheckpointMoves
  <2> QED
    BY <2>1, <2>2, PTL DEF Spec
<1> QED
  BY <1>1, <1>2, EachToolIsItself, AccessTypes, InstallTypes, CheckpointTypes, ProviderTypes, PTL

=============================================================================
