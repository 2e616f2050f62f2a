---------------------- MODULE ProcessSupervision_proofs ----------------------
(***************************************************************************)
(* Theorems about the updater's file transaction and the processes around   *)
(* it, for any number of files, of updates and of reader processes,         *)
(* whatever crashes, is killed or dies.                                     *)
(*                                                                         *)
(* AppliedIsWhole needs nothing of the faults: an update that reaches its   *)
(* end has passed through every replacement.  RollbackRestores and          *)
(* OriginalsKept hold as long as staging, backing up and rolling back do    *)
(* not fail and nobody interrupts: FaultsAfterBackup.                       *)
(***************************************************************************)
EXTENDS ProcessSupervision, TLAPS

USE UpdateAssumption

-----------------------------------------------------------------------------
(* The file transaction by itself.                                          *)

\* Every step keeps the variables in their types.
LEMMA UpdTypeStep ==
    ASSUME UpdTypeOK, [UpdNext]_updVars
    PROVE  UpdTypeOK'
<1> USE DEF UpdTypeOK, Files, Contents, Phases, GoesTo
<1>1. CASE BeginUpdate
  BY <1>1 DEF BeginUpdate, NoFiles
<1>2. CASE StageFiles
  BY <1>2 DEF StageFiles
<1>3. CASE BackUpFile
  BY <1>3 DEF BackUpFile, Advance
<1>4. CASE ReplaceFile
  BY <1>4 DEF ReplaceFile, Advance
<1>5. CASE SmokeTestPasses
  BY <1>5 DEF SmokeTestPasses
<1>6. CASE WriteResult
  BY <1>6 DEF WriteResult
<1>7. CASE Raises
  BY <1>7 DEF Raises
<1>8. CASE RollBackFile
  BY <1>8 DEF RollBackFile, Advance
<1>9. CASE RollbackRaises \/ Interrupted \/ Killed
  BY <1>9 DEF RollbackRaises, Interrupted, Killed
<1>10. CASE RemoveWorkDirectory
  BY <1>10 DEF RemoveWorkDirectory, NoFiles
<1>11. CASE UNCHANGED updVars
  BY <1>11 DEF updVars
<1> QED
  BY <1>1, <1>2, <1>3, <1>4, <1>5, <1>6, <1>7, <1>8, <1>9, <1>10, <1>11
  DEF UpdNext, FileStep

\* The variables of the transaction always have their types.
THEOREM UpdTypeCorrect == UpdSpec => []UpdTypeOK
<1>1. UpdInit => UpdTypeOK
  BY DEF UpdInit, UpdTypeOK, Files, Contents, Phases, NoFiles
<1>2. UpdTypeOK /\ [UpdNext]_updVars => UpdTypeOK'
  BY UpdTypeStep
<1> QED
  BY <1>1, <1>2, PTL DEF UpdSpec

-----------------------------------------------------------------------------
\* Until the loop over the replacements has passed a file it may be anything;
\* behind the loop, and ever after, the files are new.
Replaced ==
    /\ phase = "replace" => \A f \in Files : f < file => install[f] = "new"
    /\ phase \in {"smoke", "result"} => \A f \in Files : install[f] = "new"
    /\ outcome = "applied" =>
         /\ phase \in {"cleanup", "idle"}
         /\ \A f \in Files : install[f] = "new"

LEMMA ReplacedStep ==
    ASSUME UpdTypeOK, Replaced, [UpdNext]_updVars
    PROVE  Replaced'
<1> USE DEF UpdTypeOK, Replaced, Files, Contents, Phases, GoesTo
<1>1. CASE BeginUpdate
  BY <1>1 DEF BeginUpdate
<1>2. CASE StageFiles
  BY <1>2 DEF StageFiles
<1>3. CASE BackUpFile
  BY <1>3 DEF BackUpFile, Advance
<1>4. CASE ReplaceFile
  BY <1>4 DEF ReplaceFile, Advance
<1>5. CASE SmokeTestPasses
  BY <1>5 DEF SmokeTestPasses
<1>6. CASE WriteResult
  BY <1>6 DEF WriteResult
<1>7. CASE Raises
  BY <1>7 DEF Raises
<1>8. CASE RollBackFile
  BY <1>8 DEF RollBackFile, Advance
<1>9. CASE RollbackRaises \/ Interrupted \/ Killed
  BY <1>9 DEF RollbackRaises, Interrupted, Killed
<1>10. CASE RemoveWorkDirectory
  BY <1>10 DEF RemoveWorkDirectory
<1>11. CASE UNCHANGED updVars
  BY <1>11 DEF updVars
<1> QED
  BY <1>1, <1>2, <1>3, <1>4, <1>5, <1>6, <1>7, <1>8, <1>9, <1>10, <1>11
  DEF UpdNext, FileStep

\* An update that reports success has replaced every file, whatever failed, was
\* interrupted or was killed before it.
THEOREM AppliedUpdateIsWhole == UpdSpec => []AppliedIsWhole
<1>1. UpdInit => UpdTypeOK /\ Replaced
  BY DEF UpdInit, UpdTypeOK, Replaced, Files, Contents, Phases, NoFiles
<1>2. UpdTypeOK /\ Replaced /\ [UpdNext]_updVars => UpdTypeOK' /\ Replaced'
  BY UpdTypeStep, ReplacedStep
<1>3. Replaced => AppliedIsWhole
  BY DEF Replaced, AppliedIsWhole
<1> QED
  BY <1>1, <1>2, <1>3, PTL DEF UpdSpec

-----------------------------------------------------------------------------
\* The faults under which the rollback has a whole backup to work with.
FaultsAfterBackup ==
    Failing \intersect {"stage", "backup", "rollback"} = {} /\ ~Interruptible

\* Phases in which the backup is complete.
BackedUp == {"replace", "smoke", "result", "rollback"}

\* Before the replacements the installation is untouched; from then on the
\* backup is the installation as it was; the rollback has undone a prefix of it.
Restorable ==
    /\ phase \in {"stage", "backup"} => outcome = "none" /\ install = before
    /\ phase = "backup" => \A f \in Files : f < file => backup[f] = before[f]
    /\ phase \in BackedUp => backup = before
    /\ phase = "rollback" => \A f \in Files : f < file => install[f] = before[f]
    /\ phase \in BackedUp \ {"rollback"} => outcome = "none"
    /\ phase = "cleanup" => outcome \in {"applied", "failed"}
    /\ phase \in {"cleanup", "idle"} /\ outcome \in {"none", "failed"}
         => install = before
    /\ phase = "idle" /\ outcome = "killed"
         => \A f \in Files : before[f] \in {install[f], backup[f]}
    /\ phase = "rollback" => outcome \in {"none", "failed"}

LEMMA RestorableStep ==
    ASSUME FaultsAfterBackup, UpdTypeOK, Restorable, [UpdNext]_updVars
    PROVE  Restorable'
<1> USE DEF UpdTypeOK, Restorable, BackedUp, Files, Contents, Phases, GoesTo
<1>1. CASE BeginUpdate
  BY <1>1 DEF BeginUpdate
<1>2. CASE StageFiles
  BY <1>2 DEF StageFiles
<1>3. CASE BackUpFile
  BY <1>3 DEF BackUpFile, Advance
<1>4. CASE ReplaceFile
  BY <1>4 DEF ReplaceFile, Advance
<1>5. CASE SmokeTestPasses
  BY <1>5 DEF SmokeTestPasses
<1>6. CASE WriteResult
  BY <1>6 DEF WriteResult
<1>7. CASE Raises
  BY <1>7 DEF Raises, FaultsAfterBackup
<1>8. CASE RollBackFile
  BY <1>8 DEF RollBackFile, Advance
<1>9. CASE RollbackRaises \/ Interrupted
  BY <1>9 DEF RollbackRaises, Interrupted, FaultsAfterBackup
<1>10. CASE Killed
  BY <1>10 DEF Killed
<1>11. CASE RemoveWorkDirectory
  BY <1>11 DEF RemoveWorkDirectory
<1>12. CASE UNCHANGED updVars
  BY <1>12 DEF updVars
<1> QED
  BY <1>1, <1>2, <1>3, <1>4, <1>5, <1>6, <1>7, <1>8, <1>9, <1>10, <1>11, <1>12
  DEF UpdNext, FileStep

LEMMA RestorableAlways ==
    ASSUME FaultsAfterBackup
    PROVE  UpdSpec => [](UpdTypeOK /\ Restorable)
<1>1. UpdInit => UpdTypeOK /\ Restorable
  BY DEF UpdInit, UpdTypeOK, Restorable, BackedUp, Files, Contents, Phases, NoFiles
<1>2. UpdTypeOK /\ Restorable /\ [UpdNext]_updVars => UpdTypeOK' /\ Restorable'
  BY FaultsAfterBackup, UpdTypeStep, RestorableStep
<1> QED
  BY <1>1, <1>2, PTL DEF UpdSpec

\* A failed update leaves the installation as it found it, when what failed came
\* after the backup.
THEOREM FailedUpdateIsUndone ==
    ASSUME FaultsAfterBackup
    PROVE  UpdSpec => []RollbackRestores
<1>1. Restorable => RollbackRestores
  BY DEF Restorable, RollbackRestores
<1> QED
  BY FaultsAfterBackup, RestorableAlways, <1>1, PTL

\* Killed at any point, the updater leaves a whole copy of every file it found.
THEOREM KilledUpdateKeepsOriginals ==
    ASSUME FaultsAfterBackup
    PROVE  UpdSpec => []OriginalsKept
<1>1. UpdTypeOK /\ Restorable => OriginalsKept
  BY DEF UpdTypeOK, Restorable, OriginalsKept, BackedUp, Phases
<1> QED
  BY FaultsAfterBackup, RestorableAlways, <1>1, PTL

-----------------------------------------------------------------------------
(* The transaction among the processes.                                     *)

\* A step of the processes is a step of the file transaction or leaves its
\* variables alone.
LEMMA StepsOfUpdate == [Next]_vars => [UpdNext]_updVars
<1> SUFFICES ASSUME [Next]_vars PROVE [UpdNext]_updVars
  OBVIOUS
<1>1. ASSUME Supervisor PROVE UNCHANGED updVars
  BY <1>1 DEF Supervisor, ConsumeOldMarker, Launch, ChildEnds, CheckManualExit, CheckSuspended,
     ReadSuspension, RemoveExpired, Delay, SupervisorReturns
<1>2. ASSUME NEW w \in Workers,
             WorkerContinues(w) \/ Ready(w) \/ StartupBlocked(w) \/ RequestExit(w)
               \/ WorkerCrashes(w)
      PROVE  UNCHANGED updVars
  BY <1>2 DEF WorkerContinues, AcquireInstance, StopRequested, CloseInstance, WorkerReturns,
     Ready, StartupBlocked, RequestExit, WorkerCrashes
<1>3. ASSUME BeginFiles \/ UpdateFiles \/ EndFiles \/ UpdaterKilled PROVE [UpdNext]_updVars
  BY <1>3 DEF BeginFiles, UpdateFiles, EndFiles, UpdaterKilled, UpdNext
<1>4. ASSUME Updater, ~BeginFiles, ~UpdateFiles, ~EndFiles PROVE UNCHANGED updVars
  BY <1>4 DEF Updater, SuspendRestart, SignalReader, WaitForMutex, WaitTimesOut, ResumeRestart,
     RestartApplication
<1>5. ASSUME StartApp \/ StartUpdater \/ SuspensionAges \/ SupervisorDies PROVE UNCHANGED updVars
  BY <1>5 DEF StartApp, StartUpdater, SuspensionAges, SupervisorDies
<1>6. ASSUME UNCHANGED vars PROVE UNCHANGED updVars
  BY <1>6 DEF vars
<1> QED BY <1>1, <1>2, <1>3, <1>4, <1>5, <1>6 DEF Next, Environment

\* The updater that suspends restarts, signals and waits for the processes runs
\* apply_update and nothing else on the files: what holds of the transaction by
\* itself holds among the processes, wherever they or the updater are killed.
THEOREM UpdaterRunsTransaction == Spec => UpdSpec
<1>1. PSInit => UpdInit
  BY DEF PSInit
<1> QED BY <1>1, StepsOfUpdate, PTL DEF Spec, UpdSpec

\* So an update that ends well among the processes has replaced every file, and
\* one that does not leaves every file it found, in its place or in the backup.
THEOREM UpdateAmongProcesses ==
    ASSUME FaultsAfterBackup
    PROVE  Spec => [](AppliedIsWhole /\ RollbackRestores /\ OriginalsKept)
<1>1. (UpdSpec => []RollbackRestores) /\ (UpdSpec => []OriginalsKept)
  BY FailedUpdateIsUndone, KilledUpdateKeepsOriginals, FaultsAfterBackup
<1> QED
  BY UpdaterRunsTransaction, AppliedUpdateIsWhole, <1>1, PTL

-----------------------------------------------------------------------------
\* Files are replaced, or the executable is gone or torn: either way nothing runs,
\* and nothing can be launched.
Quiet ==
    /\ upc = "files" => NoProcess
    /\ ~Startable => NoProcess
    /\ worker \in [Workers -> WorkerStates]

LEMMA QuietInit == PSInit => Quiet
BY DEF WorkerStates, PSInit, Quiet, NoProcess, SupervisorMutex, Ended, Startable

LEMMA QuietStep ==
    ASSUME "files" \notin UserMayStart, Quiet, [Next]_vars
    PROVE  Quiet'
<1> USE DEF WorkerStates, Quiet, NoProcess, SupervisorMutex, Ended, SupervisorGoes,
            UpdaterGoes, Startable
<1>1. ASSUME Supervisor
      PROVE  Quiet'
  <2>1. CASE Launch
    BY <2>1 DEF Launch, updVars, updaterVars
  <2>2. CASE ~Launch
    BY <1>1, <2>2 DEF Supervisor, ConsumeOldMarker, ChildEnds, CheckManualExit,
       CheckSuspended, ReadSuspension, RemoveExpired, Delay, SupervisorReturns, updVars,
       workerVars, updaterVars
  <2> QED
    BY <2>1, <2>2
<1>2. ASSUME NEW w \in Workers,
             WorkerContinues(w) \/ Ready(w) \/ StartupBlocked(w) \/ RequestExit(w)
               \/ WorkerCrashes(w)
      PROVE  Quiet'
  <2>1. upc' = upc /\ install' = install /\ spc' = spc
    BY <1>2 DEF WorkerContinues, AcquireInstance, StopRequested, CloseInstance,
       WorkerReturns, Ready, StartupBlocked, RequestExit, WorkerCrashes,
       updVars, supervisorVars, updaterVars
  <2>2. /\ ~Ended(w)
        /\ \E to \in {"preparing", "running", "leaving", "closing", "gone"} :
              worker' = [worker EXCEPT ![w] = to]
    BY <1>2 DEF WorkerContinues, AcquireInstance, StopRequested, CloseInstance,
       WorkerReturns, Ready, StartupBlocked, RequestExit, WorkerCrashes, WorkerGoes,
       Ends
  <2> QED
    BY <2>1, <2>2
<1>3. CASE BeginFiles
  BY <1>3 DEF BeginFiles, BeginUpdate, supervisorVars, workerVars
<1>4. CASE UpdateFiles \/ EndFiles
  <2>1. upc = "files" /\ worker' = worker /\ spc' = spc
    BY <1>4 DEF UpdateFiles, EndFiles, supervisorVars, workerVars
  <2> QED
    BY <2>1
<1>5. CASE RestartApplication
  BY <1>5 DEF RestartApplication, updVars, workerVars
<1>6. ASSUME SuspendRestart \/ SignalReader \/ WaitForMutex \/ WaitTimesOut
             \/ ResumeRestart \/ StartUpdater \/ SuspensionAges
      PROVE  Quiet'
  BY <1>6 DEF SuspendRestart, SignalReader, WaitForMutex, WaitTimesOut,
     ResumeRestart, StartUpdater, SuspensionAges, updVars, supervisorVars,
     workerVars, updaterVars
<1>7. CASE UpdaterKilled
  BY <1>7 DEF UpdaterKilled, Killed, updVars, supervisorVars, workerVars
<1>8. CASE StartApp
  BY <1>8 DEF StartApp, updVars, workerVars, updaterVars
<1>9. CASE SupervisorDies
  BY <1>9 DEF SupervisorDies, updVars, workerVars, updaterVars
<1>10. CASE UNCHANGED vars
  BY <1>10 DEF vars, updVars, supervisorVars, workerVars, updaterVars
<1> QED
  BY <1>1, <1>2, <1>3, <1>4, <1>5, <1>6, <1>7, <1>8, <1>9, <1>10
  DEF Next, Updater, Environment

\* While files are replaced or rolled back no process of the application runs,
\* unless the user starts it at that very moment.
THEOREM NobodyRunsDuringUpdate ==
    ASSUME "files" \notin UserMayStart
    PROVE  Spec => []NobodyDuringUpdate
<1>1. Quiet /\ [Next]_vars => Quiet'
  BY QuietStep
<1>2. Quiet => NobodyDuringUpdate
  BY DEF Quiet, NobodyDuringUpdate
<1> QED
  BY QuietInit, <1>1, <1>2, PTL DEF Spec

-----------------------------------------------------------------------------
\* The instance mutex: at most one process holds it, whatever the supervisors do.
MutexInv == worker \in [Workers -> WorkerStates] /\ SingleReader

LEMMA MutexStep ==
    ASSUME MutexInv, [Next]_vars
    PROVE  MutexInv'
<1> USE DEF WorkerStates, MutexInv, SingleReader, HoldsMutex
<1>1. ASSUME NEW w \in Workers, AcquireInstance(w)
      PROVE  MutexInv'
  BY <1>1 DEF AcquireInstance, WorkerMutex, WorkerGoes, Ends
<1>2. ASSUME NEW w \in Workers,
             \E to \in {"leaving", "running"} :
                 HoldsMutex(w) /\ worker' = [worker EXCEPT ![w] = to]
      PROVE  MutexInv'
  BY <1>2
<1>3. ASSUME NEW w \in Workers,
             \E to \in {"starting", "closing", "gone"} :
                 worker' = [worker EXCEPT ![w] = to]
      PROVE  MutexInv'
  BY <1>3
<1>4. ASSUME NEW w \in Workers, WorkerContinues(w), ~AcquireInstance(w)
      PROVE  MutexInv'
  BY <1>2, <1>3, <1>4 DEF WorkerContinues, StopRequested, CloseInstance, WorkerReturns,
     WorkerGoes, Ends
<1>5. ASSUME NEW w \in Workers,
             Ready(w) \/ StartupBlocked(w) \/ RequestExit(w) \/ WorkerCrashes(w)
      PROVE  MutexInv'
  BY <1>2, <1>3, <1>5 DEF Ready, StartupBlocked, RequestExit, WorkerCrashes, WorkerGoes,
     Ends
<1>6. CASE Launch
  BY <1>3, <1>6 DEF Launch
<1>7. CASE worker' = worker
  BY <1>7
<1> QED
  BY <1>1, <1>4, <1>5, <1>6, <1>7
  DEF Next, Supervisor, Updater, Environment, ConsumeOldMarker, ChildEnds,
      CheckManualExit, CheckSuspended, ReadSuspension, RemoveExpired, Delay,
      SupervisorReturns, SuspendRestart,
      SignalReader, WaitForMutex, WaitTimesOut, BeginFiles, UpdateFiles, EndFiles,
      ResumeRestart, RestartApplication, StartApp, StartUpdater, UpdaterKilled,
      SuspensionAges, SupervisorDies, vars, workerVars

\* One reader at most holds the COM port and the queue, however many supervisors
\* died, users started the application and updates went wrong.
THEOREM AtMostOneReader == Spec => []SingleReader
<1>1. PSInit => MutexInv
  BY DEF WorkerStates, PSInit, MutexInv, SingleReader, HoldsMutex
<1>2. MutexInv /\ [Next]_vars => MutexInv'
  BY MutexStep
<1>3. MutexInv => SingleReader
  BY DEF MutexInv
<1> QED
  BY <1>1, <1>2, <1>3, PTL DEF Spec

-----------------------------------------------------------------------------
(* A manual exit.                                                           *)

\* Once the user has left the reader that a supervisor waits for, the marker
\* stands until this supervisor reads it, and then it is on its way out.
ExitInv ==
    userLeft => \/ ~SupervisorMutex \/ spc \in {"leaving", "raised"}
                \/ spc \in {"wait", "ended"} /\ manualExit

LEMMA ExitStep ==
    ASSUME "exit" \notin MarkersFail, ExitInv, [Next]_vars
    PROVE  ExitInv'
<1> USE DEF ExitInv, SupervisorMutex
<1>1. CASE Supervisor
  <2>1. CASE Launch \/ ChildEnds
    BY <2>1 DEF Launch, ChildEnds, SupervisorGoes, markerVars
  <2>2. CASE CheckManualExit
    BY <2>2 DEF CheckManualExit, SupervisorGoes, TakenForManual
  <2>3. CASE \/ ConsumeOldMarker \/ CheckSuspended \/ ReadSuspension \/ RemoveExpired
             \/ Delay \/ SupervisorReturns
    BY <2>3 DEF ConsumeOldMarker, CheckSuspended, ReadSuspension, RemoveExpired, Delay,
       SupervisorReturns, SupervisorGoes
  <2> QED BY <1>1, <2>1, <2>2, <2>3 DEF Supervisor
<1>2. ASSUME NEW w \in Workers, RequestExit(w) PROVE ExitInv'
  BY <1>2 DEF RequestExit, supervisorVars
<1>3. ASSUME NEW w \in Workers,
             WorkerContinues(w) \/ Ready(w) \/ StartupBlocked(w) \/ WorkerCrashes(w)
      PROVE  UNCHANGED <<spc, manualExit, userLeft>>
  BY <1>3 DEF WorkerContinues, AcquireInstance, StopRequested, CloseInstance, WorkerReturns,
     Ready, StartupBlocked, WorkerCrashes, supervisorVars, markerVars
<1>4. CASE StartApp \/ RestartApplication \/ SupervisorDies
  BY <1>4 DEF StartApp, RestartApplication, SupervisorDies, SupervisorGoes, markerVars
<1>5. CASE \/ SuspendRestart \/ SignalReader \/ WaitForMutex \/ WaitTimesOut \/ BeginFiles
           \/ UpdateFiles \/ EndFiles \/ ResumeRestart \/ StartUpdater \/ UpdaterKilled
           \/ SuspensionAges \/ UNCHANGED vars
  <2>1. UNCHANGED <<spc, manualExit, userLeft>>
    BY <1>5 DEF SuspendRestart, SignalReader, WaitForMutex, WaitTimesOut, BeginFiles,
       UpdateFiles, EndFiles, ResumeRestart, StartUpdater, UpdaterKilled, SuspensionAges,
       vars, supervisorVars, markerVars
  <2> QED BY <2>1
<1> QED BY <1>1, <1>2, <1>3, <1>4, <1>5 DEF Next, Updater, Environment

\* Only Launch makes a process start.
LEMMA OnlyLaunchStarts ==
    ASSUME Next, NEW w \in Workers, worker \in [Workers -> WorkerStates],
           worker[w] # "starting", worker'[w] = "starting"
    PROVE  Launch
<1>1. ASSUME NEW v \in Workers,
             \/ WorkerContinues(v) \/ Ready(v) \/ StartupBlocked(v) \/ RequestExit(v)
             \/ WorkerCrashes(v)
      PROVE  FALSE
  <2>1. PICK state \in {"preparing", "running", "leaving", "closing", "gone"} :
            worker' = [worker EXCEPT ![v] = state]
    BY <1>1 DEF WorkerContinues, AcquireInstance, StopRequested, CloseInstance,
       WorkerReturns, Ready, StartupBlocked, RequestExit, WorkerCrashes, WorkerGoes, Ends
  <2> QED BY <2>1
<1> QED
  BY <1>1 DEF Next, Supervisor, Updater, Environment, ConsumeOldMarker, ChildEnds,
      CheckManualExit, CheckSuspended, ReadSuspension, RemoveExpired, Delay,
      SupervisorReturns, SuspendRestart, SignalReader, WaitForMutex, WaitTimesOut,
      BeginFiles, UpdateFiles, EndFiles, ResumeRestart, RestartApplication, StartApp,
      StartUpdater, UpdaterKilled, SuspensionAges, SupervisorDies, workerVars

\* A supervisor never launches a reader again after the user has left the one it
\* waits for, as long as the marker of the exit can be written: it outlives every
\* crash, update, stop signal and failed unlink on the way.
THEOREM ManualExitIsFinal ==
    ASSUME "exit" \notin MarkersFail
    PROVE  Spec => ExitIsFinal
<1> DEFINE Fresh == \A w \in Workers :
                       worker[w] # "starting" /\ worker'[w] = "starting" => ~userLeft
<1>1. PSInit => ExitInv /\ MutexInv
  BY DEF PSInit, ExitInv, MutexInv, SingleReader, HoldsMutex, WorkerStates
<1>2. ExitInv /\ MutexInv /\ [Next]_vars => ExitInv' /\ MutexInv'
  BY ExitStep, MutexStep
<1>3. ExitInv /\ MutexInv /\ [Next]_vars => [Fresh]_vars
  <2> SUFFICES ASSUME ExitInv, MutexInv, Next, NEW w \in Workers,
                      worker[w] # "starting", worker'[w] = "starting"
               PROVE  ~userLeft
    OBVIOUS
  <2>1. Launch
    BY OnlyLaunchStarts DEF MutexInv
  <2> QED BY <2>1 DEF Launch, SupervisorGoes, ExitInv, SupervisorMutex
<1> QED BY <1>1, <1>2, <1>3, PTL DEF Spec, ExitIsFinal

=============================================================================
