------------------------- MODULE ProcessSupervision -------------------------
(***************************************************************************)
(* The processes of the application and the updater that replaces their     *)
(* files: supervise() (process_supervisor.py) launches the reader process   *)
(* again when it ends unexpectedly; the reader's tray marks a manual exit;  *)
(* the updater suspends restarts, signals the reader, waits for both        *)
(* processes and runs UpdateTransaction.                                    *)
(*                                                                         *)
(* They share no memory: only two marker files (runtime_state.py), two      *)
(* named mutexes and a named event (instance_control.py).  A mutex exists   *)
(* as long as a process holds it open, so it is not a variable: it is the   *)
(* state of the process that created it.                                    *)
(***************************************************************************)
EXTENDS UpdateTransaction

CONSTANTS
    Workers,           \* identities of reader processes; reused when gone
    SupervisorMayDie,  \* the supervisor's process may be ended from outside
    MarkersFail,       \* what may raise: marking the exit or the suspension, unlinking
    UserMayStart       \* steps of the updater during which the user may start it

UpdaterSteps == {"idle", "suspend", "signal", "worker", "supervisor", "unlock",
                 "files", "resume", "restart", "killed"}

ASSUME SupervisionAssumption ==
    /\ SupervisorMayDie \in BOOLEAN /\ UserMayStart \subseteq UpdaterSteps
    /\ MarkersFail \subseteq {"exit", "suspend", "unlink"}

VARIABLES
    spc, child,   \* the supervisor: its step, the process it waits for
    worker,       \* state of each reader process
    exitCode,     \* how each ended: "ok" (0), "blocked" (2, 3), "crash"
    manualExit,   \* manual_exit.flag exists
    suspension,   \* suspend_restart.flag: none, fresh, older than 300 s
    stopSignal,   \* the event DMS_LectorCedulas_StopEvent is set
    upc,          \* the updater's step outside its file transaction
    wasActive,    \* runtime_was_active
    userLeft      \* history: the user has left the reader the supervisor waits for

supervisorVars == <<spc, child>>
workerVars     == <<worker, exitCode, stopSignal>>
markerVars     == <<manualExit, suspension>>
updaterVars    == <<upc, wasActive>>
vars == <<updVars, supervisorVars, workerVars, markerVars, updaterVars, userLeft>>

Executable == 1

WorkerStates == {"none", "starting", "preparing", "running", "leaving", "closing",
                 "gone"}
Ended(w)   == worker[w] \in {"none", "gone"}
HoldsMutex(w) == worker[w] \in {"preparing", "running", "leaving"}

WorkerMutex     == \E w \in Workers : HoldsMutex(w)
SupervisorMutex == spc \notin {"off", "killed"}
NoProcess       == ~SupervisorMutex /\ \A w \in Workers : Ended(w)

\* A file cut short is there, but Windows does not start it.
Startable == install[Executable] \in {"old", "new"}

\* What unlinking a marker leaves of it.
Unlinked(marker, none) == {none} \union IF "unlink" \in MarkersFail THEN {marker} ELSE {}

PSInit ==
    /\ UpdInit /\ install[Executable] = "old"
    /\ spc = "off" /\ child \in Workers
    /\ worker = [w \in Workers |-> "none"]
    /\ exitCode = [w \in Workers |-> "ok"]
    /\ manualExit = FALSE /\ suspension = "none" /\ stopSignal = FALSE
    /\ upc = "idle" /\ wasActive = FALSE /\ userLeft = FALSE

-----------------------------------------------------------------------------
(* The supervisor.                                                          *)

SupervisorGoes(from, to) == spc = from /\ spc' = to

\* The shortcut starts supervise(); with the mutex taken it returns at once.
StartApp ==
    /\ SupervisorGoes("off", "consume") \/ SupervisorGoes("killed", "consume")
    /\ upc \in UserMayStart /\ Startable
    /\ userLeft' = FALSE
    /\ UNCHANGED <<child, updVars, workerVars, markerVars, updaterVars>>

\* consume_manual_exit, whose result is not looked at here.
ConsumeOldMarker ==
    /\ SupervisorGoes("consume", "launch")
    /\ manualExit' \in Unlinked(manualExit, FALSE)
    /\ UNCHANGED <<suspension, child, updVars, workerVars, updaterVars, userLeft>>

\* subprocess.Popen; without a whole executable it raises, which counts as an
\* unexpected end.
Launch ==
    /\ \E w \in Workers :
          /\ Ended(w) /\ child' = w
          /\ \/ /\ Startable
                /\ SupervisorGoes("launch", "wait")
                /\ worker' = [worker EXCEPT ![w] = "starting"]
                /\ exitCode' = exitCode
             \/ /\ ~Startable
                /\ SupervisorGoes("launch", "ended")
                /\ exitCode' = [exitCode EXCEPT ![w] = "crash"]
                /\ worker' = [worker EXCEPT ![w] = "gone"]
    /\ UNCHANGED <<stopSignal, updVars, markerVars, updaterVars, userLeft>>

ChildEnds ==
    /\ worker[child] = "gone" /\ SupervisorGoes("wait", "ended")
    /\ UNCHANGED <<child, updVars, workerVars, markerVars, updaterVars, userLeft>>

\* consume_manual_exit, then the exit codes of a start that was blocked.
TakenForManual == manualExit \/ exitCode[child] = "blocked"

\* Regression: the marker is not looked at.
IgnoreManualExit ==
    /\ SupervisorGoes("ended",
         IF exitCode[child] = "blocked" THEN "leaving" ELSE "suspended")
    /\ UNCHANGED <<child, updVars, workerVars, markerVars, updaterVars, userLeft>>

\* A marker that cannot be removed counts, and stays for the next end of a child.
CheckManualExit ==
    /\ SupervisorGoes("ended", IF TakenForManual THEN "leaving" ELSE "suspended")
    /\ manualExit' \in Unlinked(manualExit, FALSE)
    /\ UNCHANGED <<suspension, child, updVars, workerVars, updaterVars, userLeft>>

\* automatic_restart_suspended, in the three steps it accesses the marker: exists,
CheckSuspended ==
    /\ SupervisorGoes("suspended", IF suspension = "none" THEN "delay" ELSE "reading")
    /\ UNCHANGED <<child, updVars, workerVars, markerVars, updaterVars, userLeft>>

\* read_text or stat, which raise out of supervise() when it is gone meanwhile,
ReadSuspension ==
    /\ \/ suspension = "fresh" /\ SupervisorGoes("reading", "leaving")
       \/ suspension = "stale" /\ SupervisorGoes("reading", "expired")
       \/ suspension = "none"  /\ SupervisorGoes("reading", "raised")
    /\ UNCHANGED <<child, updVars, workerVars, markerVars, updaterVars, userLeft>>

\* and unlink when it is older than 300 s, whatever marker is there by now.
RemoveExpired ==
    /\ SupervisorGoes("expired", "delay")
    /\ suspension' \in Unlinked(suspension, "none")
    /\ UNCHANGED <<manualExit, child, updVars, workerVars, updaterVars, userLeft>>

\* Regression: the supervisor does not launch the process again.
GiveUp ==
    /\ SupervisorGoes("delay", "leaving")
    /\ UNCHANGED <<child, updVars, workerVars, markerVars, updaterVars, userLeft>>

\* Between one and fifteen seconds, in which no marker is looked at.
Delay ==
    /\ SupervisorGoes("delay", "launch")
    /\ UNCHANGED <<child, updVars, workerVars, markerVars, updaterVars, userLeft>>

\* The finally clause closes the mutex, also under an exception.
SupervisorReturns ==
    /\ SupervisorGoes("leaving", "off") \/ SupervisorGoes("raised", "off")
    /\ UNCHANGED <<child, updVars, workerVars, markerVars, updaterVars, userLeft>>

SupervisorDies ==
    /\ SupervisorMayDie /\ SupervisorMutex /\ spc' = "killed"
    /\ UNCHANGED <<child, updVars, workerVars, markerVars, updaterVars, userLeft>>

Supervisor ==
    \/ ConsumeOldMarker \/ Launch \/ ChildEnds \/ CheckManualExit
    \/ CheckSuspended \/ ReadSuspension \/ RemoveExpired \/ Delay
    \/ SupervisorReturns

-----------------------------------------------------------------------------
(* A reader process.                                                        *)

WorkerGoes(w, from, to) ==
    worker[w] = from /\ worker' = [worker EXCEPT ![w] = to]

Ends(w, from, code) ==
    /\ WorkerGoes(w, from, "gone")
    /\ exitCode' = [exitCode EXCEPT ![w] = code]

\* Regression: a mutex that exists already is taken for one's own.
AcquireAnyway(w) ==
    /\ WorkerGoes(w, "starting", "preparing")
    /\ UNCHANGED <<exitCode, stopSignal, updVars, supervisorVars, markerVars,
                   updaterVars, userLeft>>

\* _startup: the instance mutex, or exit code 2.
AcquireInstance(w) ==
    /\ \/ ~WorkerMutex /\ WorkerGoes(w, "starting", "preparing") /\ exitCode' = exitCode
       \/ WorkerMutex /\ Ends(w, "starting", "blocked")
    /\ UNCHANGED <<stopSignal, updVars, supervisorVars, markerVars, updaterVars,
                   userLeft>>

\* Configuration and license are good and the calibration is done, or skipped
\* in recovery: the reader and its queue start.
Ready(w) ==
    /\ WorkerGoes(w, "preparing", "running")
    /\ UNCHANGED <<exitCode, stopSignal, updVars, supervisorVars, markerVars,
                   updaterVars, userLeft>>

\* The configuration or the license stops the start (2), or the user cancels the
\* calibration (3).
StartupBlocked(w) ==
    /\ Ends(w, "preparing", "blocked") /\ stopSignal' = FALSE
    /\ UNCHANGED <<updVars, supervisorVars, markerVars, updaterVars, userLeft>>

\* _request_exit: the marker is written before shutdown begins; shutdown, in the
\* finally clause, begins also when it could not be written.
RequestExit(w) ==
    /\ WorkerGoes(w, "running", "leaving")
    /\ manualExit' \in {TRUE} \union
         IF "exit" \in MarkersFail THEN {manualExit} ELSE {}
    /\ userLeft' = (userLeft \/ (spc = "wait" /\ child = w))
    /\ UNCHANGED <<exitCode, stopSignal, suspension, updVars, supervisorVars,
                   updaterVars>>

\* The watcher thread finds the auto-reset event set, also during calibration.
StopRequested(w) ==
    /\ stopSignal /\ stopSignal' = FALSE
    /\ WorkerGoes(w, "running", "leaving") \/ WorkerGoes(w, "preparing", "leaving")
    /\ UNCHANGED <<exitCode, updVars, supervisorVars, markerVars, updaterVars,
                   userLeft>>

\* shutdown reaches instance.close: mutex and event are gone, the process is not.
\* After a stop during calibration the process stays until its dialog is closed.
CloseInstance(w) ==
    /\ WorkerGoes(w, "leaving", "closing") /\ stopSignal' = FALSE
    /\ UNCHANGED <<exitCode, updVars, supervisorVars, markerVars, updaterVars,
                   userLeft>>

WorkerReturns(w) ==
    /\ \E code \in {"ok", "blocked"} : Ends(w, "closing", code)
    /\ UNCHANGED <<stopSignal, updVars, supervisorVars, markerVars, updaterVars,
                   userLeft>>

WorkerCrashes(w) ==
    /\ ~Ended(w) /\ Ends(w, worker[w], "crash")
    /\ stopSignal' = (stopSignal /\ ~HoldsMutex(w))
    /\ UNCHANGED <<updVars, supervisorVars, markerVars, updaterVars, userLeft>>

WorkerContinues(w) ==
    AcquireInstance(w) \/ StopRequested(w) \/ CloseInstance(w) \/ WorkerReturns(w)

-----------------------------------------------------------------------------
(* The updater, around its file transaction.                                *)

UpdaterGoes(from, to) == upc = from /\ upc' = to

StartUpdater ==
    /\ phase = "idle" /\ outcome # "applied" /\ updates < MaxUpdates
    /\ UpdaterGoes("idle", "suspend") \/ UpdaterGoes("killed", "suspend")
    /\ wasActive' = (WorkerMutex \/ SupervisorMutex)
    /\ UNCHANGED <<updVars, supervisorVars, workerVars, markerVars, userLeft>>

\* Nothing is stopped when the marker cannot be written: the try has not begun.
SuspendRestart ==
    /\ \/ UpdaterGoes("suspend", "signal") /\ suspension' = "fresh"
       \/ /\ "suspend" \in MarkersFail /\ UpdaterGoes("suspend", "idle")
          /\ UNCHANGED suspension
    /\ UNCHANGED <<manualExit, wasActive, updVars, supervisorVars, workerVars, userLeft>>

\* signal_running_instance: without a reader there is no event to set.
SignalReader ==
    /\ UpdaterGoes("signal", IF wasActive THEN "worker" ELSE "unlock")
    /\ stopSignal' = (stopSignal \/ WorkerMutex)
    /\ UNCHANGED <<wasActive, worker, exitCode, updVars, supervisorVars, markerVars,
                   userLeft>>

\* _wait_for_application_exit: first the reader's mutex, then the supervisor's.
WaitForMutex ==
    /\ \/ ~WorkerMutex /\ UpdaterGoes("worker", "supervisor")
       \/ ~SupervisorMutex /\ UpdaterGoes("supervisor", "unlock")
    /\ UNCHANGED <<wasActive, updVars, supervisorVars, workerVars, markerVars, userLeft>>

\* Twenty seconds for both mutexes, five for the executable.
WaitTimesOut ==
    /\ \/ WorkerMutex /\ UpdaterGoes("worker", "resume")
       \/ SupervisorMutex /\ UpdaterGoes("supervisor", "resume")
       \/ install[Executable] # "absent" /\ ~NoProcess
          /\ UpdaterGoes("unlock", "resume")
    /\ UNCHANGED <<wasActive, updVars, supervisorVars, workerVars, markerVars, userLeft>>

\* Regression: the lock on the executable is not waited for.
BeginWithoutLock ==
    /\ BeginUpdate
    /\ UpdaterGoes("unlock", "files")
    /\ UNCHANGED <<wasActive, supervisorVars, workerVars, markerVars, userLeft>>

\* _wait_for_unlock: Windows locks the executable of every living process.
BeginFiles ==
    /\ install[Executable] = "absent" \/ NoProcess
    /\ BeginUpdate
    /\ UpdaterGoes("unlock", "files")
    /\ UNCHANGED <<wasActive, supervisorVars, workerVars, markerVars, userLeft>>

UpdateFiles ==
    /\ upc = "files" /\ FileStep
    /\ UNCHANGED <<supervisorVars, workerVars, markerVars, updaterVars, userLeft>>

EndFiles ==
    /\ RemoveWorkDirectory
    /\ UpdaterGoes("files", "resume")
    /\ UNCHANGED <<wasActive, supervisorVars, workerVars, markerVars, userLeft>>

ResumeRestart ==
    /\ UpdaterGoes("resume", IF wasActive THEN "restart" ELSE "idle")
    /\ suspension' \in Unlinked(suspension, "none")
    /\ UNCHANGED <<manualExit, wasActive, updVars, supervisorVars, workerVars, userLeft>>

\* Regression: the application is not started again.
LeaveItClosed ==
    /\ UpdaterGoes("restart", "idle")
    /\ UNCHANGED <<wasActive, updVars, supervisorVars, workerVars, markerVars, userLeft>>

\* _restart_application: it runs supervise(), like the shortcut.  That Windows
\* refuses to start the executable is ignored.
RestartApplication ==
    /\ UpdaterGoes("restart", "idle")
    /\ \/ /\ Startable /\ ~SupervisorMutex /\ spc' = "consume"
          /\ userLeft' = FALSE
       \/ /\ ~Startable \/ SupervisorMutex
          /\ UNCHANGED <<spc, userLeft>>
    /\ UNCHANGED <<wasActive, child, updVars, workerVars, markerVars>>

\* A killed updater leaves the suspension of restarts behind.
UpdaterKilled ==
    /\ Killable /\ upc \notin {"idle", "killed"} /\ upc' = "killed"
    /\ IF upc = "files" THEN Killed ELSE UNCHANGED updVars
    /\ UNCHANGED <<wasActive, supervisorVars, workerVars, markerVars, userLeft>>

\* 300 s pass: more than all the waits of an update together.
SuspensionAges ==
    /\ upc \notin {"signal", "worker", "supervisor", "unlock"}
    /\ suspension = "fresh" /\ suspension' = "stale"
    /\ UNCHANGED <<manualExit, updVars, supervisorVars, workerVars, updaterVars,
                   userLeft>>

Updater ==
    \/ SuspendRestart \/ SignalReader \/ WaitForMutex \/ WaitTimesOut
    \/ BeginFiles \/ UpdateFiles \/ EndFiles \/ ResumeRestart
    \/ RestartApplication

-----------------------------------------------------------------------------
Environment ==
    \/ StartApp \/ StartUpdater \/ UpdaterKilled \/ SuspensionAges
    \/ SupervisorDies
    \/ \E w \in Workers :
          Ready(w) \/ StartupBlocked(w) \/ RequestExit(w) \/ WorkerCrashes(w)

Next == Supervisor \/ Updater \/ Environment \/ \E w \in Workers : WorkerContinues(w)

Spec == PSInit /\ [][Next]_vars

\* Every process that runs goes on.  Nobody has to start, leave or update.
Fairness ==
    /\ WF_vars(Supervisor) /\ WF_vars(Updater)
    /\ \A w \in Workers : WF_vars(WorkerContinues(w))

FairSpec == Spec /\ Fairness

-----------------------------------------------------------------------------
\* Of all the reader processes, those of a dead supervisor included, one at most is
\* past the instance mutex and has the COM port and the queue.
SingleReader ==
    \A v \in Workers, w \in Workers : HoldsMutex(v) /\ HoldsMutex(w) => v = w

\* While files are replaced or rolled back no process of the application runs:
\* the mutexes, the lock on the executable and the suspension of restarts close
\* every way in, except that the user starts it.
NobodyDuringUpdate == upc = "files" => NoProcess

\* A supervisor never launches a reader again after the user has left the one it
\* waits for: whatever crashes, is killed, or is left over from sessions before.
\* The marker is all it knows of the exit, so not when that could not be written.
ExitIsFinal ==
    [][\A w \in Workers :
          worker[w] # "starting" /\ worker'[w] = "starting" => ~userLeft]_vars

\* A reader that crashes is launched again, unless the user has left it, an update
\* suspends restarts, or the supervisor ends itself: killed, or by the exception of
\* a suspension that disappears while it is read.
CrashIsRestarted ==
    spc = "ended" /\ exitCode[child] = "crash"
        ~> \/ worker[child] = "starting"
           \/ spc = "leaving" /\ (userLeft \/ suspension = "fresh")
           \/ spc \in {"raised", "killed"}

\* An application that was closed for an update is launched again after it,
\* unless the updater is killed, or a failed update leaves no executable that
\* can be started.
ReaderReturns ==
    upc = "files" /\ wasActive
        ~> (\E w \in Workers : ~Ended(w)) \/ ~Startable \/ upc = "killed"

=============================================================================
