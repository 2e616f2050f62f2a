-------------------------- MODULE UpdateTransaction --------------------------
(***************************************************************************)
(* The file transaction of the updater (tools/updater.py, apply_update):    *)
(* stage the package, back up what is installed, replace file by file, test *)
(* the result, and roll back when anything raises.                          *)
(*                                                                         *)
(* The manifest's files are numbered in its order, the order in which every *)
(* loop treats them.  A file's content is reduced to what the updater can   *)
(* tell apart: the version it belongs to, or torn, for a copy that an error *)
(* cut short.  os.replace is atomic, shutil.copy2 is not.                   *)
(***************************************************************************)
EXTENDS Naturals

CONSTANTS
    NumFiles,   \* files of the manifest
    Failing,    \* phases in which a file operation may raise
    Killable,   \* the updater's process may be ended at any moment
    Interruptible, \* KeyboardInterrupt, which `except Exception` lets through
    MaxUpdates  \* bound: updates attempted in a behaviour

Phases == {"stage", "backup", "replace", "smoke", "result", "rollback"}

ASSUME UpdateAssumption ==
    /\ NumFiles \in Nat \ {0} /\ MaxUpdates \in Nat
    /\ Failing \subseteq Phases
    /\ Killable \in BOOLEAN /\ Interruptible \in BOOLEAN

Files    == 1..NumFiles
Contents == {"absent", "old", "new", "torn"}

VARIABLES
    install,   \* content of each file in the install directory
    before,    \* history: the same when the update began
    backup,    \* content of each file in the backup directory
    phase,     \* where apply_update is
    file,      \* the loop's index
    outcome,   \* how the update ended
    updates    \* updates begun

updVars == <<install, before, backup, phase, file, outcome, updates>>

NoFiles == [f \in Files |-> "absent"]

UpdInit ==
    /\ install \in [Files -> {"absent", "old"}] /\ before = install
    /\ backup = NoFiles
    /\ phase = "idle" /\ file = 1 /\ outcome = "none" /\ updates = 0

\* The loop over the files: the next one, or the next phase.
Advance(next) ==
    /\ phase' = IF file = NumFiles THEN next ELSE phase
    /\ file' = IF file = NumFiles THEN 1 ELSE file + 1

GoesTo(next) == phase' = next /\ file' = 1

-----------------------------------------------------------------------------
\* The manifest and the payload are verified, the processes have ended and the
\* work directory is made.
BeginUpdate ==
    /\ phase = "idle" /\ outcome # "applied" /\ updates < MaxUpdates
    /\ GoesTo("stage") /\ updates' = updates + 1
    /\ before' = install /\ backup' = NoFiles /\ outcome' = "none"
    /\ UNCHANGED install

\* _copy_to_stage: nothing under the install directory is touched.
StageFiles ==
    /\ phase = "stage" /\ GoesTo("backup")
    /\ UNCHANGED <<install, before, backup, outcome, updates>>

\* Regression: the loop begins with the second file.
BackUpLate ==
    /\ phase = "backup" /\ Advance("replace")
    /\ backup' = IF file = 1 THEN backup
                 ELSE [backup EXCEPT ![file] = install[file]]
    /\ UNCHANGED <<install, before, outcome, updates>>

BackUpFile ==
    /\ phase = "backup" /\ Advance("replace")
    /\ backup' = [backup EXCEPT ![file] = install[file]]
    /\ UNCHANGED <<install, before, outcome, updates>>

\* Regression: the last file of the manifest is not replaced.
ReplaceAllButLast ==
    /\ phase = "replace" /\ Advance("smoke")
    /\ install' = IF file = NumFiles /\ NumFiles > 1 THEN install
                  ELSE [install EXCEPT ![file] = "new"]
    /\ UNCHANGED <<before, backup, outcome, updates>>

ReplaceFile ==
    /\ phase = "replace" /\ Advance("smoke")
    /\ install' = [install EXCEPT ![file] = "new"]
    /\ UNCHANGED <<before, backup, outcome, updates>>

SmokeTestPasses ==
    /\ phase = "smoke" /\ GoesTo("result")
    /\ UNCHANGED <<install, before, backup, outcome, updates>>

WriteResult ==
    /\ phase = "result" /\ GoesTo("cleanup")
    /\ outcome' = "applied"
    /\ UNCHANGED <<install, before, backup, updates>>

\* A file operation raises: disk full, file in use, executable too small.  A
\* copy cut short leaves part of the file in the backup directory.
Raises ==
    /\ phase \in Failing \ {"rollback"}
    /\ GoesTo("rollback")
    /\ backup' \in {backup} \union
         IF phase = "backup" /\ install[file] # "absent"
         THEN {[backup EXCEPT ![file] = "torn"]} ELSE {}
    /\ UNCHANGED <<install, before, outcome, updates>>

\* Regression: files the backup does not have are left alone.
RollBackSaved ==
    /\ phase = "rollback" /\ Advance("cleanup")
    /\ install' = IF backup[file] = "absent" THEN install
                  ELSE [install EXCEPT ![file] = backup[file]]
    /\ outcome' = "failed"
    /\ UNCHANGED <<before, backup, updates>>

\* What the backup has comes back; a file it does not have is removed.
RollBackFile ==
    /\ phase = "rollback" /\ Advance("cleanup")
    /\ install' = [install EXCEPT ![file] = backup[file]]
    /\ outcome' = "failed"
    /\ UNCHANGED <<before, backup, updates>>

RollbackRaises ==
    /\ phase = "rollback" /\ "rollback" \in Failing
    /\ GoesTo("cleanup") /\ outcome' = "failed"
    /\ UNCHANGED <<install, before, backup, updates>>

\* The finally clause: the work directory, and the backup in it, is removed.
RemoveWorkDirectory ==
    /\ phase = "cleanup" /\ GoesTo("idle")
    /\ backup' = NoFiles
    /\ UNCHANGED <<install, before, outcome, updates>>

\* Ctrl+C passes by the rollback, but not by the finally clause.
Interrupted ==
    /\ Interruptible /\ phase \in Phases
    /\ GoesTo("cleanup") /\ outcome' = "killed"
    /\ UNCHANGED <<install, before, backup, updates>>

\* The process ends without its finally clause.  Nothing resumes the update;
\* the work directory stays beside the installation.
Killed ==
    /\ Killable /\ phase # "idle" /\ GoesTo("idle")
    /\ outcome' = IF phase = "cleanup" THEN outcome ELSE "killed"
    /\ UNCHANGED <<install, before, backup, updates>>

FileStep ==
    \/ StageFiles \/ BackUpFile \/ ReplaceFile \/ SmokeTestPasses
    \/ WriteResult \/ Raises \/ RollBackFile \/ RollbackRaises \/ Interrupted

UpdNext == BeginUpdate \/ FileStep \/ RemoveWorkDirectory \/ Killed

UpdSpec == UpdInit /\ [][UpdNext]_updVars

-----------------------------------------------------------------------------
UpdTypeOK ==
    /\ install \in [Files -> Contents] /\ before \in [Files -> Contents]
    /\ backup \in [Files -> Contents]
    /\ phase \in Phases \union {"idle", "cleanup"}
    /\ file \in Files /\ updates \in Nat
    /\ outcome \in {"none", "applied", "failed", "killed"}

\* An update that reports success has replaced every file, also when it
\* follows one that failed or was killed half way.
AppliedIsWhole == outcome = "applied" => \A f \in Files : install[f] = "new"

\* An update that failed has left the installation as it found it.
RollbackRestores ==
    outcome = "failed" /\ phase \in {"cleanup", "idle"} => install = before

\* Until an update has succeeded, every file it found is still there whole, in
\* its place or in the backup directory: also when the process is killed between
\* two file operations.
OriginalsKept ==
    outcome # "applied" =>
        \A f \in Files : before[f] \in {install[f], backup[f]}

=============================================================================
