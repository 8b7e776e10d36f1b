---------------------------- MODULE AgentInstall ----------------------------
(***************************************************************************)
(* `rougarou-agent-install`, src/rootfs/usr/lib/rougarou/agent_install.py: *)
(* a reviewed agent release is downloaded, checked and published as a      *)
(* directory of its version and a launcher that names the binary in it.    *)
(* Terminals race for it, the operator makes and moves files of the same   *)
(* names meanwhile, a package upgrade moves the pin, and a kill may come   *)
(* between any two steps: a closed SSH session is one, for no handler      *)
(* catches SIGHUP.                                                         *)
(***************************************************************************)
EXTENDS Naturals

CONSTANTS
    Installers,  \* terminals in which the command runs
    MaxVersion,  \* versions that the package pins, one after another
    MaxInstallKills,    \* bound on the kills
    Missing

ASSUME InstallAssumption ==
    /\ MaxVersion \in Nat \ {0} /\ MaxInstallKills \in Nat
    /\ Missing \notin Installers \cup Nat

Versions == 1..MaxVersion

VARIABLES
    pin,       \* the version of the installed package's metadata
    launcher,  \* ~/.local/bin/<agent>: Missing, 0 (the operator's own) or the version it starts
    target,    \* <store>/<version>: what the directory is
    storeLock, \* holder of the flock on the store
    installPc, want, \* each installer's place, and the pin it read
    installKills,
    owned,     \* paths that the operator made: 0 for the launcher, versions for targets
    kept,      \* versions whose directory may stay: published once, or left by a kill,
               \* by Ctrl-C before the try block or by a cleanup that failed
    undone     \* versions whose launcher was linked, but not marked as published

installVars == <<pin, launcher, target, storeLock, installPc, want, installKills,
                 owned, kept, undone>>
agentFiles  == <<launcher, target, owned, kept, undone>>

Own == 0

InstallInit ==
    /\ pin = 1 /\ launcher = Missing /\ target = [v \in Versions |-> "absent"]
    /\ storeLock = Missing /\ installPc = [i \in Installers |-> "idle"]
    /\ want = [i \in Installers |-> 1]
    /\ installKills = 0 /\ owned = {} /\ kept = {} /\ undone = {}

InstallGoto(i, step) == installPc' = [installPc EXCEPT ![i] = step]
InstallReturn(i)     == InstallGoto(i, "idle") /\ storeLock' = Missing

-----------------------------------------------------------------------------
\* install_reviewed() reads the pin before it takes the lock.
ReadPin(i) ==
    /\ installPc[i] = "idle"
    /\ want' = [want EXCEPT ![i] = pin]
    /\ InstallGoto(i, "lock")
    /\ UNCHANGED <<pin, storeLock, installKills, agentFiles>>

\* A lock that another installer holds ends the command at once.
InstallLock(i) ==
    /\ installPc[i] = "lock"
    /\ IF storeLock = Missing THEN storeLock' = i /\ InstallGoto(i, "check")
                      ELSE InstallGoto(i, "idle") /\ UNCHANGED storeLock
    /\ UNCHANGED <<pin, want, installKills, agentFiles>>

\* An existing launcher is returned when it and its binary are the reviewed
\* ones, and refused otherwise; an existing directory is refused.
Check(i) ==
    /\ installPc[i] = "check"
    /\ IF launcher = Missing /\ target[want[i]] = "absent"
       THEN InstallGoto(i, "download") /\ UNCHANGED storeLock
       ELSE InstallReturn(i)
    /\ UNCHANGED <<pin, want, installKills, agentFiles>>

\* Into a temporary directory, checked before and after unpacking.
Download(i) ==
    /\ installPc[i] = "download"
    /\ InstallGoto(i, "reserve")
    /\ UNCHANGED <<pin, storeLock, want, installKills, agentFiles>>

DownloadFails(i) ==
    /\ installPc[i] = "download"
    /\ InstallReturn(i)
    /\ UNCHANGED <<pin, want, installKills, agentFiles>>

\* target.mkdir() refuses a directory that has appeared meanwhile, and that
\* error is outside of the try block, which comes next.
Reserve(i) ==
    /\ installPc[i] = "reserve"
    /\ IF target[want[i]] = "absent"
       THEN /\ target' = [target EXCEPT ![want[i]] = "reserved"]
            /\ InstallGoto(i, "binary") /\ UNCHANGED storeLock
       ELSE InstallReturn(i) /\ UNCHANGED target
    /\ UNCHANGED <<pin, launcher, want, installKills, owned, kept, undone>>

\* Ctrl-C that is raised behind mkdir() and before the try block: nothing
\* removes the directory.
Interrupted(i) ==
    /\ installPc[i] = "binary"
    /\ kept' = kept \cup {want[i]}
    /\ InstallReturn(i)
    /\ UNCHANGED <<pin, launcher, target, want, installKills, owned, undone>>

PlaceBinary(i) ==
    /\ installPc[i] = "binary"
    /\ target' = [target EXCEPT ![want[i]] = "whole"]
    /\ InstallGoto(i, "publish")
    /\ UNCHANGED <<pin, launcher, storeLock, want, installKills, owned, kept, undone>>

\* Plausible bug: os.replace() of the launcher.
PublishOver(i) ==
    /\ installPc[i] = "publish"
    /\ launcher' = want[i] /\ kept' = kept \cup {want[i]} /\ InstallGoto(i, "published")
    /\ UNCHANGED <<pin, target, storeLock, want, installKills, owned, undone>>

\* os.link() of the complete launcher, which refuses a name that exists.
Publish(i) ==
    /\ installPc[i] = "publish"
    /\ IF launcher = Missing
       THEN launcher' = want[i] /\ kept' = kept \cup {want[i]} /\ InstallGoto(i, "published")
       ELSE InstallGoto(i, "undo") /\ UNCHANGED <<launcher, kept>>
    /\ UNCHANGED <<pin, target, storeLock, want, installKills, owned, undone>>

Installed(i) ==
    /\ installPc[i] = "published"
    /\ InstallReturn(i)
    /\ UNCHANGED <<pin, want, installKills, agentFiles>>

\* A full disk, or Ctrl-C: one that comes during os.link() is raised behind
\* it, before `published` is set.
InstallFails(i) ==
    /\ installPc[i] \in {"binary", "publish", "published"}
    /\ undone' = IF installPc[i] = "published" THEN undone \cup {want[i]} ELSE undone
    /\ InstallGoto(i, "undo")
    /\ UNCHANGED <<pin, storeLock, want, installKills, launcher, target, owned, kept>>

\* Plausible bug: the directory is left.
UndoNothing(i) ==
    /\ installPc[i] = "undo"
    /\ InstallReturn(i)
    /\ UNCHANGED <<pin, want, installKills, agentFiles>>

\* except BaseException: shutil.rmtree(target).
Undo(i) ==
    /\ installPc[i] = "undo"
    /\ target' = [target EXCEPT ![want[i]] = "absent"]
    /\ InstallReturn(i)
    /\ UNCHANGED <<pin, launcher, want, installKills, owned, kept, undone>>

\* rmtree() fails, or a second Ctrl-C cuts it short, anywhere on its way.
UndoFails(i) ==
    /\ installPc[i] = "undo"
    /\ \E rest \in {"reserved", target[want[i]]} : target' = [target EXCEPT ![want[i]] = rest]
    /\ kept' = kept \cup {want[i]}
    /\ InstallReturn(i)
    /\ UNCHANGED <<pin, launcher, want, installKills, owned, undone>>

\* The kernel releases the lock; the directory stays as it is, or as far as
\* rmtree came.
InstallKilled(i) ==
    /\ installPc[i] # "idle" /\ installKills < MaxInstallKills
    /\ installKills' = installKills + 1
    /\ kept' = IF installPc[i] \in {"binary", "publish", "undo"} THEN kept \cup {want[i]} ELSE kept
    /\ \/ UNCHANGED target
       \/ installPc[i] = "undo" /\ target' = [target EXCEPT ![want[i]] = "reserved"]
    /\ InstallGoto(i, "idle") /\ storeLock' = (IF storeLock = i THEN Missing ELSE storeLock)
    /\ UNCHANGED <<pin, launcher, want, owned, undone>>

-----------------------------------------------------------------------------
\* The operator installs the same CLI by other means, also during a download.
OwnLauncher ==
    /\ launcher = Missing
    /\ launcher' = Own /\ owned' = owned \cup {Own}
    /\ UNCHANGED <<pin, target, storeLock, installPc, want, installKills, kept, undone>>

OwnTarget(v) ==
    /\ target[v] = "absent"
    /\ target' = [target EXCEPT ![v] = "own"] /\ owned' = owned \cup {v}
    /\ UNCHANGED <<pin, launcher, storeLock, installPc, want, installKills, kept, undone>>

\* "Use that CLI, or move it aside before installing."
MoveAside ==
    /\ launcher # Missing
    /\ launcher' = Missing /\ owned' = owned \ {Own}
    /\ UNCHANGED <<pin, target, storeLock, installPc, want, installKills, kept, undone>>

\* "Inspect it before retrying installation.": no installer is running then,
\* and no launcher needs the directory.
Clear(v) ==
    /\ target[v] # "absent" /\ launcher # v /\ storeLock = Missing
    /\ target' = [target EXCEPT ![v] = "absent"]
    /\ owned' = owned \ {v} /\ kept' = kept \ {v}
    /\ UNCHANGED <<pin, launcher, storeLock, installPc, want, installKills, undone>>

\* An upgrade of rougarou-base brings the next reviewed release.
UpgradePin ==
    /\ pin < MaxVersion
    /\ pin' = pin + 1
    /\ UNCHANGED <<storeLock, installPc, want, installKills, agentFiles>>

InstallNext ==
    \/ \E i \in Installers :
         \/ ReadPin(i) \/ InstallLock(i) \/ Check(i) \/ Download(i) \/ DownloadFails(i) \/ Reserve(i)
         \/ Interrupted(i) \/ PlaceBinary(i) \/ Publish(i) \/ Installed(i)
         \/ InstallFails(i) \/ Undo(i) \/ UndoFails(i) \/ InstallKilled(i)
    \/ \E v \in Versions : OwnTarget(v) \/ Clear(v)
    \/ OwnLauncher \/ MoveAside \/ UpgradePin

InstallSpec == InstallInit /\ [][InstallNext]_installVars

-----------------------------------------------------------------------------
\* Files and locals have legal values.
InstallTypeOK ==
    /\ pin \in Versions /\ launcher \in Versions \cup {Own, Missing}
    /\ target \in [Versions -> {"absent", "own", "reserved", "whole"}]
    /\ storeLock \in Installers \cup {Missing}
    /\ installPc \in [Installers -> {"idle", "lock", "check", "download", "reserve", "binary", "publish",
                               "published", "undo"}]
    /\ want \in [Installers -> Versions]
    /\ installKills \in 0..MaxInstallKills /\ owned \subseteq Versions \cup {Own} /\ kept \subseteq Versions
    /\ undone \subseteq Versions

\* A launcher never names a binary that is not there and whole, unless Ctrl-C
\* came between its link and the mark of it; and once no installer runs there
\* is no directory that an unpublished attempt left behind and that would have
\* the next one refused.  `kept` names the exceptions: a kill, Ctrl-C between
\* mkdir() and the try block, and an rmtree() that fails or is cut short.
NothingHalfInstalled ==
    /\ launcher \in Versions \ undone => target[launcher] = "whole"
    /\ storeLock = Missing => \A v \in Versions : target[v] \in {"reserved", "whole"} => v \in kept

\* "No existing tool was replaced": what the operator made is there until he
\* removes it, though ten minutes of download lie between check and use.
OwnFilesKept ==
    /\ Own \in owned => launcher = Own
    /\ \A v \in owned \ {Own} : target[v] = "own"

=============================================================================
