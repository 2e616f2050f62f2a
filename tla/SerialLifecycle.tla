--------------------------- MODULE SerialLifecycle ---------------------------
(***************************************************************************)
(* The threads that own the COM port: the serial managers                   *)
(* (serial_manager.py, _run and _connected_loop), the runtime supervisor    *)
(* that replaces a manager whose thread has died (production_app.py), the   *)
(* manual calibration that stops the manager and builds another             *)
(* (desktop_app.py), and shutdown (app_runtime.py).                         *)
(*                                                                         *)
(* They meet in one unlocked attribute, self.serial.  Stopping is a         *)
(* procedure of three steps, shared by the three that call it: set the      *)
(* events, close the port the manager has registered, join its thread.      *)
(*                                                                         *)
(* One COM port; Windows opens it for one handle at a time.                 *)
(***************************************************************************)
EXTENDS Naturals, FiniteSets

CONSTANTS
    NumManagers,   \* bound: managers built in a behaviour
    Supervised,    \* the runtime supervisor runs
    Calibrates,    \* the user opens the manual calibration
    OpensReturn,   \* an open that hangs returns after all
    JoinTimesOut   \* a thread may outlive the 2 s its stop waits

ASSUME LifecycleAssumption ==
    /\ NumManagers \in Nat \ {0}
    /\ {Supervised, Calibrates, OpensReturn, JoinTimesOut} \subseteq BOOLEAN

Managers == 1..NumManagers
Free     == 0
Search   == NumManagers + 1   \* the port is open in a calibration's worker thread
Stoppers == {"watchdog", "calibration", "shutdown"}

VARIABLES
    serial,     \* self.serial
    built,      \* managers built so far: 1..built
    thread,     \* step of each manager's thread
    stopEvent,  \* stop_event of each
    reconnect,  \* reconnect_event of each
    registered, \* _active_serial is not None
    busy,       \* the last state reported is CONNECTING, READING or PROCESSING
    port,       \* who has the COM port open
    plugged,    \* the reader is connected
    searching,  \* the worker thread of a calibration runs
    pc,         \* step of each stopper
    ref         \* the manager each is stopping

threadVars  == <<thread, registered, busy>>
eventVars   == <<stopEvent, reconnect>>
portVars    == <<port, plugged, searching>>
stopperVars == <<pc, ref>>
slVars == <<serial, built, threadVars, eventVars, portVars, stopperVars>>

Alive(m) == thread[m] \notin {"none", "dead"}
Exiting  == pc["shutdown"] # "idle"

\* run() has started the first manager.
SLInit ==
    /\ serial = 1 /\ built = 1
    /\ thread = [m \in Managers |-> IF m = 1 THEN "discover" ELSE "none"]
    /\ stopEvent = [m \in Managers |-> FALSE]
    /\ reconnect = [m \in Managers |-> FALSE]
    /\ registered = [m \in Managers |-> FALSE] /\ busy = FALSE
    /\ port = Free /\ plugged = TRUE /\ searching = FALSE
    /\ pc = [s \in Stoppers |-> "idle"] /\ ref = [s \in Stoppers |-> 1]

-----------------------------------------------------------------------------
(* A manager's thread.                                                      *)

\* _set_state at the entrance of a step; the others leave what was reported.
Reported(step) ==
    step \in {"open", "read", "frame"} \/ (busy /\ step \in {"opening", "register", "hung",
                                                         "release", "next"})

Goes(m, from, to) ==
    thread[m] = from /\ thread' = [thread EXCEPT ![m] = to] /\ busy' = Reported(to)

\* The loop of _run: the event is cleared, then the ports are listed.
Discover(m) ==
    /\ \/ stopEvent[m] /\ Goes(m, "discover", "dead") /\ UNCHANGED reconnect
       \/ /\ ~stopEvent[m] /\ reconnect' = [reconnect EXCEPT ![m] = FALSE]
          /\ Goes(m, "discover", IF plugged THEN "try" ELSE "next")
    /\ UNCHANGED <<serial, built, stopEvent, registered, portVars,
                   stopperVars>>

\* Listing the ports is outside every try: an error there ends the thread.
DiscoverRaises(m) ==
    /\ built < NumManagers /\ ~stopEvent[m] /\ Goes(m, "discover", "dead")
    /\ UNCHANGED <<serial, built, registered, eventVars, portVars,
                   stopperVars>>

TryPort(m) ==
    /\ Goes(m, "try", IF stopEvent[m] THEN "dead" ELSE "open")
    /\ UNCHANGED <<serial, built, registered, eventVars, portVars,
                   stopperVars>>

\* open_port, without the lock: another handle or an absent reader make it raise.
OpenPort(m) ==
    /\ \E from \in {"open"} \union IF OpensReturn THEN {"opening"} ELSE {} :
          \/ port = Free /\ plugged /\ port' = m /\ Goes(m, from, "register")
          \/ (port # Free \/ ~plugged) /\ UNCHANGED port /\ Goes(m, from, "next")
    /\ UNCHANGED <<serial, built, registered, plugged, searching, eventVars,
                   stopperVars>>

\* The open may hang, where neither stop nor reconnection has a port to close.
OpenHangs(m) ==
    /\ Goes(m, "open", "opening")
    /\ UNCHANGED <<serial, built, registered, eventVars, portVars, stopperVars>>

Register(m) ==
    /\ Goes(m, "register", "loop")
    /\ registered' = [registered EXCEPT ![m] = TRUE]
    /\ UNCHANGED <<serial, built, eventVars, portVars, stopperVars>>

ConnectedLoop(m) ==
    /\ Goes(m, "loop", IF stopEvent[m] \/ reconnect[m] THEN "release" ELSE "read")
    /\ UNCHANGED <<serial, built, registered, eventVars, portVars,
                   stopperVars>>

\* _read_frame ends with bytes, without any, or because the port was closed or a
\* reconnection asked for.  A stop that finds bytes in the buffer returns them.
ReadFrame(m) ==
    /\ \/ port = m /\ Goes(m, "read", "frame")
       \/ (port = m \/ stopEvent[m]) /\ Goes(m, "read", "loop")
       \/ (port # m \/ reconnect[m]) /\ Goes(m, "read", "release")
    /\ UNCHANGED <<serial, built, registered, eventVars, portVars,
                   stopperVars>>

\* The driver does not return from a read until the port is closed.
DriverHangs(m) ==
    /\ port = m /\ Goes(m, "read", "hung")
    /\ UNCHANGED <<serial, built, registered, eventVars, portVars,
                   stopperVars>>

ReadFails(m) ==
    /\ port # m /\ Goes(m, "hung", "release")
    /\ UNCHANGED <<serial, built, registered, eventVars, portVars,
                   stopperVars>>

\* _process_frame hands the frame to the pipeline, perhaps after waiting for the
\* lock of a change of configuration.
ProcessFrame(m) ==
    /\ Goes(m, "frame", "loop")
    /\ UNCHANGED <<serial, built, registered, eventVars, portVars, stopperVars>>

\* The finally clause of _connected_loop.
ReleasePort(m) ==
    /\ Goes(m, "release", "next")
    /\ port' = IF port = m THEN Free ELSE port
    /\ registered' = [registered EXCEPT ![m] = FALSE]
    /\ UNCHANGED <<serial, built, plugged, searching, eventVars, stopperVars>>

\* After the candidates: leave, or wait the backoff and discover again.
NextRound(m) ==
    /\ Goes(m, "next", IF stopEvent[m] THEN "dead" ELSE "discover")
    /\ UNCHANGED <<serial, built, registered, eventVars, portVars,
                   stopperVars>>

ManagerStep(m) ==
    \/ Discover(m) \/ TryPort(m) \/ OpenPort(m) \/ Register(m) \/ ConnectedLoop(m)
    \/ ReadFrame(m) \/ ReadFails(m) \/ ProcessFrame(m) \/ ReleasePort(m)
    \/ NextRound(m)

-----------------------------------------------------------------------------
(* Stopping a manager: SerialManager.stop, called by the three stoppers.    *)

StopperGoes(s, from, to) == pc[s] = from /\ pc' = [pc EXCEPT ![s] = to]

\* self.serial is read once; stop() reports STOPPING and sets both events.
SetStopEvents(s) ==
    /\ StopperGoes(s, "stop", "close")
    /\ ref' = [ref EXCEPT ![s] = serial]
    /\ stopEvent' = [stopEvent EXCEPT ![serial] = TRUE]
    /\ reconnect' = [reconnect EXCEPT ![serial] = TRUE] /\ busy' = FALSE
    /\ UNCHANGED <<serial, built, thread, registered, portVars>>

\* A port that is open but not yet registered is left to its thread.
CloseRegistered(s) ==
    /\ StopperGoes(s, "close", "join")
    /\ port' = IF registered[ref[s]] /\ port = ref[s] THEN Free ELSE port
    /\ UNCHANGED <<serial, built, ref, plugged, searching, threadVars, eventVars>>

\* What each stopper does when its stop() has returned.
AfterStop(s) ==
    CASE s = "watchdog"    -> "build"
      [] s = "calibration" -> "dialog"
      [] s = "shutdown"    -> "done"

\* Regression: stop() does not wait for the thread.
NoJoin(s) ==
    /\ StopperGoes(s, "join", AfterStop(s))
    /\ UNCHANGED <<serial, built, ref, threadVars, eventVars, portVars>>

Join(s) ==
    /\ JoinTimesOut \/ ~Alive(ref[s])
    /\ StopperGoes(s, "join", AfterStop(s))
    /\ UNCHANGED <<serial, built, ref, threadVars, eventVars, portVars>>

\* self.serial = self._build_serial_manager()
BuildManager(s) ==
    /\ built < NumManagers
    /\ StopperGoes(s, "build", "start")
    /\ built' = built + 1 /\ serial' = built + 1
    /\ UNCHANGED <<ref, threadVars, eventVars, portVars>>

\* self.serial.start(): whoever stands in the attribute by now.  A live thread is
\* left alone, a stopped manager refuses.
StartManager(s) ==
    /\ StopperGoes(s, "start", "idle")
    /\ thread' = IF Alive(serial) \/ stopEvent[serial] THEN thread
                 ELSE [thread EXCEPT ![serial] = "discover"]
    /\ UNCHANGED <<serial, built, ref, registered, busy, eventVars, portVars>>

StopperStep(s) ==
    SetStopEvents(s) \/ CloseRegistered(s) \/ Join(s) \/ BuildManager(s)
        \/ StartManager(s)

-----------------------------------------------------------------------------
(* _supervise_once, every two seconds.                                      *)

\* Regression: a manager that is only looking for its port is replaced as well.
ReplaceDisconnected ==
    /\ Supervised /\ ~Exiting
    /\ ~Alive(serial) \/ thread[serial] = "next"
    /\ StopperGoes("watchdog", "idle", "build")
    /\ UNCHANGED <<serial, built, ref, threadVars, eventVars, portVars>>

ReplaceDead ==
    /\ Supervised /\ ~Exiting /\ ~Alive(serial)
    /\ StopperGoes("watchdog", "idle", "stop")
    /\ UNCHANGED <<serial, built, ref, threadVars, eventVars, portVars>>

\* reconnect_now on the manager m: the registered port is closed.
ReconnectNow(m) ==
    /\ reconnect' = [reconnect EXCEPT ![m] = TRUE]
    /\ port' = IF registered[m] /\ port = m THEN Free ELSE port

\* 15 s in one of the states of the watchdog's list: a read takes 4 s and reports
\* then, unless it hangs; an open or the processing of a frame may last.
Stuck == busy /\ thread[serial] \in {"opening", "hung", "frame"}

\* Regression: the reconnection is asked for, but the port is not closed.
ReconnectByEvent ==
    /\ Supervised /\ ~Exiting /\ pc["watchdog"] = "idle" /\ Stuck
    /\ reconnect' = [reconnect EXCEPT ![serial] = TRUE]
    /\ UNCHANGED <<serial, built, threadVars, stopEvent, portVars, stopperVars>>

ReconnectStuck ==
    /\ Supervised /\ ~Exiting /\ pc["watchdog"] = "idle" /\ Stuck
    /\ ReconnectNow(serial)
    /\ UNCHANGED <<serial, built, threadVars, stopEvent, plugged, searching, stopperVars>>

\* "Reconectar lector" in the tray.
UserReconnects ==
    /\ ~Exiting
    /\ ReconnectNow(serial)
    /\ UNCHANGED <<serial, built, threadVars, stopEvent, plugged, searching, stopperVars>>

-----------------------------------------------------------------------------
(* The manual calibration and shutdown.                                     *)

OpenCalibration ==
    /\ Calibrates /\ ~Exiting /\ built < NumManagers
    /\ StopperGoes("calibration", "idle", "stop")
    /\ UNCHANGED <<serial, built, ref, threadVars, eventVars, portVars>>

\* "Calibrar lector" in the dialog: calibrate() runs in a thread of its own.
SearchStarts ==
    /\ pc["calibration"] = "dialog" /\ searching' = TRUE
    /\ UNCHANGED <<serial, built, port, plugged, threadVars, eventVars, stopperVars>>

\* _try_port, in the dialog or after a test of the cancellation that came too early.
SearchOpensPort ==
    /\ searching /\ port = Free /\ plugged
    /\ port' = Search
    /\ UNCHANGED <<serial, built, plugged, searching, threadVars, eventVars, stopperVars>>

\* A reading, the end of the time or the cancellation; the next port follows
\* only while the dialog is open.
SearchLeavesPort ==
    /\ searching
    /\ port' = IF port = Search THEN Free ELSE port
    /\ searching' \in (IF pc["calibration"] = "dialog" THEN BOOLEAN ELSE {FALSE})
    /\ UNCHANGED <<serial, built, plugged, threadVars, eventVars, stopperVars>>

\* Closing the dialog cancels its worker and does not wait for it.
CalibrationEnds ==
    /\ StopperGoes("calibration", "dialog", "build")
    /\ UNCHANGED <<serial, built, ref, threadVars, eventVars, portVars>>

Shutdown ==
    /\ StopperGoes("shutdown", "idle", "stop")
    /\ UNCHANGED <<serial, built, ref, threadVars, eventVars, portVars>>

\* An unplugged reader invalidates every handle to its port.
Unplug ==
    /\ plugged /\ plugged' = FALSE /\ port' = Free
    /\ UNCHANGED <<searching, serial, built, threadVars, eventVars, stopperVars>>

Plug ==
    /\ ~plugged /\ plugged' = TRUE
    /\ UNCHANGED <<serial, built, port, searching, threadVars, eventVars, stopperVars>>

SLNext ==
    \/ \E m \in Managers : ManagerStep(m) \/ DiscoverRaises(m) \/ OpenHangs(m) \/ DriverHangs(m)
    \/ \E s \in Stoppers : StopperStep(s)
    \/ ReplaceDead \/ ReconnectStuck \/ UserReconnects
    \/ OpenCalibration \/ CalibrationEnds
    \/ SearchStarts \/ SearchOpensPort \/ SearchLeavesPort
    \/ Shutdown \/ Unplug \/ Plug

SLSpec == SLInit /\ [][SLNext]_slVars

\* The threads run; the supervisor looks every two seconds; the dialog is closed
\* some time.  Nobody has to plug, calibrate or leave.
SLFairness ==
    /\ \A m \in Managers : WF_slVars(ManagerStep(m))
    /\ \A s \in Stoppers : WF_slVars(StopperStep(s))
    /\ WF_slVars(ReplaceDead) /\ WF_slVars(ReconnectStuck)
    /\ WF_slVars(CalibrationEnds) /\ WF_slVars(SearchLeavesPort)

SLFairSpec == SLSpec /\ SLFairness

-----------------------------------------------------------------------------
\* Never two managers whose threads run and that nobody has told to stop: the
\* second would be out of reach of every later stop and reconnection.
OneManager ==
    Cardinality({m \in Managers : Alive(m) /\ ~stopEvent[m]}) <= 1

\* A stop() that waited for its thread has left the port free for the next to
\* open, also when it came between open_port and the registration of the port.
StopReleasesPort ==
    \A s \in Stoppers : pc[s] \in {"dialog", "build", "start", "done"} => port # ref[s]

\* The manager the application knows reads again after whatever happened: a reader
\* unplugged, a thread that died, a driver that hung in a read, opens that took so
\* long that a reconnection fell into them; once the reader stays plugged in, the
\* user is quiet and opens are prompt.  One that never returns has no port to close.
ReaderRecovers ==
    /\ <>[](plugged /\ ~Exiting)
    /\ <>[][~UserReconnects /\ \A m \in Managers : ~OpenHangs(m)]_slVars
    => []<>(thread[serial] = "read" /\ port = serial)

=============================================================================
