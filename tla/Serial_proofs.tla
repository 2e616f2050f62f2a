---------------------------- MODULE Serial_proofs ----------------------------
(***************************************************************************)
(* Theorems about the two halves of the serial manager: the threads that    *)
(* own the COM port (SerialLifecycle), for any number of managers, and the  *)
(* framing of what arrives on it (FrameReader), for any number of scans.    *)
(***************************************************************************)
EXTENDS SerialLifecycle, FrameReader, FiniteSetTheorems, TLAPS

-----------------------------------------------------------------------------
(* Replacing a manager.                                                     *)

Steps == {"idle", "stop", "close", "join", "dialog", "build", "start", "done"}
ThreadSteps == {"none", "discover", "try", "open", "opening", "register", "loop", "read", "hung",
                "frame", "release", "next", "dead"}

\* Without calibration only the supervisor replaces the manager, and it has set
\* the events of the one it replaces.  Whatever else runs has been stopped.
OnlySupervisor ==
    /\ built \in Managers /\ serial = built
    /\ thread \in [Managers -> ThreadSteps]
    /\ stopEvent \in [Managers -> BOOLEAN]
    /\ pc \in [Stoppers -> Steps]
    /\ pc["calibration"] = "idle"
    /\ pc["shutdown"] \notin {"dialog", "build", "start"}
    /\ pc["watchdog"] \in {"close", "join", "build"} => stopEvent[serial]
    /\ \A m \in Managers : m > built => thread[m] = "none"
    /\ \A m \in Managers : m # serial /\ Alive(m) => stopEvent[m]

LEMMA OnlySupervisorInit == SLInit => OnlySupervisor
BY LifecycleAssumption
   DEF SLInit, OnlySupervisor, Managers, Stoppers, Steps, ThreadSteps, Alive

\* The thread of a manager moves: it was alive and stays in its type.
LEMMA ThreadMoves ==
    ASSUME OnlySupervisor, NEW m \in Managers, NEW from \in ThreadSteps \ {"none", "dead"},
           NEW to \in ThreadSteps, Goes(m, from, to),
           UNCHANGED <<serial, built, stopEvent, stopperVars>>
    PROVE  OnlySupervisor'
BY DEF OnlySupervisor, Goes, ThreadSteps, Managers, stopperVars, Alive

\* A stopper that neither builds nor starts moves.
LEMMA StopperMoves ==
    ASSUME OnlySupervisor, NEW s \in {"watchdog", "shutdown"},
           NEW from \in Steps, NEW to \in Steps, StopperGoes(s, from, to),
           s = "shutdown" => to \notin {"dialog", "build", "start"},
           s = "watchdog" /\ to \in {"close", "join", "build"}
             => stopEvent'[serial],
           UNCHANGED <<serial, built, thread>>,
           stopEvent' \in [Managers -> BOOLEAN],
           \A m \in Managers : stopEvent[m] => stopEvent'[m]
    PROVE  OnlySupervisor'
BY DEF OnlySupervisor, StopperGoes, Steps, Stoppers, Managers, Alive

LEMMA OnlySupervisorStep ==
    ASSUME ~Calibrates, OnlySupervisor, [SLNext]_slVars
    PROVE  OnlySupervisor'
<1>1. ASSUME NEW m \in Managers, ManagerStep(m) \/ DiscoverRaises(m) \/ OpenHangs(m) \/ DriverHangs(m)
      PROVE  OnlySupervisor'
  <2>1. UNCHANGED <<serial, built, stopEvent, stopperVars>>
    BY <1>1 DEF ManagerStep, Discover, TryPort, OpenPort, OpenHangs, Register, ConnectedLoop,
       ReadFrame, ReadFails, ProcessFrame, ReleasePort, NextRound, DiscoverRaises,
       DriverHangs, eventVars
  <2>2. \E from \in ThreadSteps \ {"none", "dead"}, to \in ThreadSteps :
           Goes(m, from, to)
    BY <1>1 DEF ManagerStep, Discover, TryPort, OpenPort, OpenHangs, Register, ConnectedLoop,
       ReadFrame, ReadFails, ProcessFrame, ReleasePort, NextRound, DiscoverRaises,
       DriverHangs, ThreadSteps
  <2> QED
    BY <2>1, <2>2, ThreadMoves
<1>2. ASSUME NEW s \in Stoppers, StopperStep(s)
      PROVE  OnlySupervisor'
  <2>1. s \in {"watchdog", "shutdown"}
    BY <1>2 DEF StopperStep, SetStopEvents, CloseRegistered, Join, BuildManager,
       StartManager, StopperGoes, Stoppers, OnlySupervisor
  <2>2. CASE SetStopEvents(s)
    <3>1. stopEvent' = [stopEvent EXCEPT ![serial] = TRUE]
      BY <2>2 DEF SetStopEvents
    <3>2. /\ StopperGoes(s, "stop", "close") /\ UNCHANGED <<serial, built, thread>>
      BY <2>2 DEF SetStopEvents, threadVars
    <3>3. /\ stopEvent' \in [Managers -> BOOLEAN] /\ stopEvent'[serial]
          /\ \A m \in Managers : stopEvent[m] => stopEvent'[m]
      BY <3>1 DEF OnlySupervisor
    <3>4. "stop" \in Steps /\ "close" \in Steps
      BY DEF Steps
    <3> QED
      BY <2>1, <3>2, <3>3, <3>4, StopperMoves
  <2>3. CASE CloseRegistered(s)
    <3>1. /\ StopperGoes(s, "close", "join")
          /\ UNCHANGED <<serial, built, thread, stopEvent>>
      BY <2>3 DEF CloseRegistered, threadVars, eventVars
    <3>2. s = "watchdog" => stopEvent'[serial]
      BY <3>1 DEF OnlySupervisor, StopperGoes
    <3>3. stopEvent' \in [Managers -> BOOLEAN]
      BY <3>1 DEF OnlySupervisor
    <3>4. "join" \in Steps /\ "close" \in Steps
      BY DEF Steps
    <3> QED
      BY <2>1, <3>1, <3>2, <3>3, <3>4, StopperMoves
  <2>4. CASE Join(s)
    <3>1. /\ StopperGoes(s, "join", AfterStop(s))
          /\ UNCHANGED <<serial, built, thread, stopEvent>>
      BY <2>4 DEF Join, threadVars, eventVars
    <3>2. AfterStop(s) = IF s = "watchdog" THEN "build" ELSE "done"
      BY <2>1 DEF AfterStop
    <3>3. s = "watchdog" => stopEvent'[serial]
      BY <3>1 DEF OnlySupervisor, StopperGoes
    <3>4. stopEvent' \in [Managers -> BOOLEAN]
      BY <3>1 DEF OnlySupervisor
    <3>5. /\ "join" \in Steps /\ AfterStop(s) \in Steps
          /\ s = "shutdown" => AfterStop(s) \notin {"dialog", "build", "start"}
      BY <3>2 DEF Steps
    <3> QED
      BY <2>1, <3>1, <3>3, <3>4, <3>5, StopperMoves
  <2>5. CASE BuildManager(s)
    <3>1. s = "watchdog" /\ pc' = [pc EXCEPT !["watchdog"] = "start"] /\ stopEvent[serial]
      BY <2>1, <2>5 DEF BuildManager, StopperGoes, OnlySupervisor
    <3>2. /\ built' = built + 1 /\ serial' = built + 1 /\ built < NumManagers
          /\ UNCHANGED <<thread, stopEvent>>
      BY <2>5 DEF BuildManager, threadVars, eventVars
    <3> QED
      BY <3>1, <3>2, LifecycleAssumption
      DEF OnlySupervisor, Managers, Steps, Stoppers, Alive
  <2>6. CASE StartManager(s)
    <3>1. s = "watchdog" /\ pc' = [pc EXCEPT !["watchdog"] = "idle"]
      BY <2>1, <2>6 DEF StartManager, StopperGoes, OnlySupervisor
    <3>2. /\ UNCHANGED <<serial, built, stopEvent>>
          /\ thread' = thread \/ thread' = [thread EXCEPT ![serial] = "discover"]
      BY <2>6 DEF StartManager, eventVars
    <3>3. /\ pc' \in [Stoppers -> Steps] /\ pc'["watchdog"] = "idle"
          /\ pc'["calibration"] = pc["calibration"]
          /\ pc'["shutdown"] = pc["shutdown"]
      BY <3>1 DEF OnlySupervisor, Stoppers, Steps
    <3>4. /\ thread' \in [Managers -> ThreadSteps]
          /\ \A m \in Managers : m # serial => thread'[m] = thread[m]
      BY <3>2 DEF OnlySupervisor, ThreadSteps
    <3>5. \A m \in Managers : m > built => m # serial
      BY DEF OnlySupervisor, Managers
    <3> QED
      BY <3>2, <3>3, <3>4, <3>5 DEF OnlySupervisor, Alive
  <2> QED
    BY <1>2, <2>2, <2>3, <2>4, <2>5, <2>6 DEF StopperStep
<1>3. CASE ReplaceDead \/ Shutdown
  <2>1. /\ UNCHANGED <<serial, built, thread, stopEvent>>
        /\ \E s \in {"watchdog", "shutdown"} : StopperGoes(s, "idle", "stop")
    BY <1>3 DEF ReplaceDead, Shutdown, threadVars, eventVars
  <2>2. "idle" \in Steps /\ "stop" \in Steps /\ stopEvent' \in [Managers -> BOOLEAN]
    BY <2>1 DEF Steps, OnlySupervisor
  <2> QED
    BY <2>1, <2>2, StopperMoves
<1>4. CASE OpenCalibration \/ CalibrationEnds \/ SearchStarts
  BY <1>4 DEF OpenCalibration, CalibrationEnds, SearchStarts, StopperGoes, OnlySupervisor
<1>5. CASE \/ SearchOpensPort \/ SearchLeavesPort
           \/ ReconnectStuck \/ UserReconnects \/ Unplug \/ Plug \/ UNCHANGED slVars
  <2>1. UNCHANGED <<serial, built, thread, stopEvent, pc>>
    BY <1>5 DEF SearchOpensPort, SearchLeavesPort, ReconnectStuck, UserReconnects, Unplug, Plug,
       slVars, threadVars, eventVars, stopperVars
  <2> QED
    BY <2>1 DEF OnlySupervisor, Alive
<1> QED
  BY <1>1, <1>2, <1>3, <1>4, <1>5 DEF SLNext

\* As long as nobody calibrates, the manager in self.serial is the only one that
\* runs and has not been told to stop.
THEOREM SupervisorKeepsOneManager ==
    ASSUME ~Calibrates
    PROVE  SLSpec => []OneManager
<1>1. OnlySupervisor /\ [SLNext]_slVars => OnlySupervisor'
  BY OnlySupervisorStep
<1>2. OnlySupervisor => OneManager
  <2> SUFFICES ASSUME OnlySupervisor PROVE OneManager
    OBVIOUS
  <2> DEFINE Running == {m \in Managers : Alive(m) /\ ~stopEvent[m]}
  <2>1. Running \subseteq {serial}
    BY DEF OnlySupervisor
  <2>2. IsFiniteSet({serial}) /\ Cardinality({serial}) = 1
    BY FS_Singleton
  <2>3. Cardinality(Running) <= Cardinality({serial})
    BY <2>1, <2>2, FS_Subset
  <2> QED
    BY <2>2, <2>3 DEF OneManager
<1> QED
  BY OnlySupervisorInit, <1>1, <1>2, PTL DEF SLSpec

-----------------------------------------------------------------------------
(* Stopping a manager: the port.                                            *)

\* The thread steps between opening the port and giving it back.
Holding == {"register", "loop", "read", "hung", "frame", "release"}

\* A stopper that is past the join of a thread.
Joined == {"dialog", "build", "start", "done"}

\* Whoever has the port is alive to give it back, and a manager once told to stop
\* is never started again: so what a stopper waited for stays ended.
PortInv ==
    /\ serial \in Managers /\ built \in Managers
    /\ thread \in [Managers -> ThreadSteps] /\ stopEvent \in [Managers -> BOOLEAN]
    /\ pc \in [Stoppers -> Steps] /\ ref \in [Stoppers -> Managers]
    /\ \A m \in Managers : port = m => thread[m] \in Holding
    /\ \A s \in Stoppers : pc[s] \in {"close", "join"} \union Joined => stopEvent[ref[s]]

\* What the joins of the stoppers have seen.
JoinedEnded == \A s \in Stoppers : pc[s] \in Joined => ~Alive(ref[s])

LEMMA PortInit == SLInit => PortInv /\ JoinedEnded
BY LifecycleAssumption
   DEF SLInit, PortInv, JoinedEnded, Joined, Managers, Free, Stoppers, Steps, ThreadSteps, Holding

\* A manager's own step: it was alive, it opens the port for itself or gives it
\* back, and it keeps it only while it goes on.
LEMMA ManagerHoldsPort ==
    ASSUME PortInv, NEW m \in Managers, ManagerStep(m) \/ DiscoverRaises(m) \/ OpenHangs(m) \/ DriverHangs(m)
    PROVE  PortInv' /\ \A n \in Managers : Alive(n)' => Alive(n)
<1>1. UNCHANGED <<serial, built, stopEvent, pc, ref>>
  BY DEF ManagerStep, Discover, TryPort, OpenPort, OpenHangs, Register, ConnectedLoop,
     ReadFrame, ReadFails, ProcessFrame, ReleasePort, NextRound, DiscoverRaises,
     DriverHangs, eventVars, stopperVars
<1>2. /\ thread[m] \notin {"none", "dead"}
      /\ \E to \in ThreadSteps :
            /\ thread' = [thread EXCEPT ![m] = to]
            /\ \/ port' = port /\ (thread[m] \in Holding => port # m \/ to \in Holding)
               \/ port' = m /\ to \in Holding
               \/ port' = Free
  BY DEF ManagerStep, Discover, TryPort, OpenPort, OpenHangs, Register, ConnectedLoop,
     ReadFrame, ReadFails, ProcessFrame, ReleasePort, NextRound, DiscoverRaises,
     DriverHangs, Goes, ThreadSteps, Holding, portVars
<1>3. Free \notin Managers
  BY DEF Free, Managers
<1>4. /\ thread' \in [Managers -> ThreadSteps]
      /\ \A n \in Managers \ {m} : thread'[n] = thread[n]
  BY <1>2 DEF PortInv
<1>5. \A n \in Managers : Alive(n)' => Alive(n)
  BY <1>2, <1>4 DEF Alive
<1>6. \A n \in Managers : port' = n => thread'[n] \in Holding
  BY <1>2, <1>3, <1>4 DEF PortInv
<1> QED BY <1>1, <1>4, <1>5, <1>6 DEF PortInv

LEMMA PortStep ==
    ASSUME PortInv, [SLNext]_slVars
    PROVE  PortInv'
<1>1. ASSUME NEW m \in Managers, ManagerStep(m) \/ DiscoverRaises(m) \/ OpenHangs(m) \/ DriverHangs(m)
      PROVE  PortInv'
  BY <1>1, ManagerHoldsPort
<1>2. ASSUME NEW s \in Stoppers, SetStopEvents(s)
      PROVE  PortInv'
  <2>1. /\ pc[s] = "stop" /\ pc' = [pc EXCEPT ![s] = "close"] /\ ref' = [ref EXCEPT ![s] = serial]
        /\ stopEvent' = [stopEvent EXCEPT ![serial] = TRUE]
        /\ UNCHANGED <<serial, built, thread, port>>
    BY <1>2 DEF SetStopEvents, StopperGoes, threadVars, portVars
  <2>2. pc' \in [Stoppers -> Steps] /\ ref' \in [Stoppers -> Managers]
        /\ stopEvent' \in [Managers -> BOOLEAN]
    BY <2>1 DEF PortInv, Steps
  <2>3. \A m \in Managers : stopEvent[m] => stopEvent'[m]
    BY <2>1 DEF PortInv
  <2>4. \A r \in Stoppers : pc'[r] \in {"close", "join"} \union Joined => stopEvent'[ref'[r]]
    <3> SUFFICES ASSUME NEW r \in Stoppers, pc'[r] \in {"close", "join"} \union Joined
                 PROVE  stopEvent'[ref'[r]]
      OBVIOUS
    <3>1. CASE r = s
      BY <2>1, <3>1 DEF PortInv
    <3>2. CASE r # s
      BY <2>1, <2>3, <3>2 DEF PortInv
    <3> QED BY <3>1, <3>2
  <2> QED BY <2>1, <2>2, <2>4 DEF PortInv
<1>3. ASSUME NEW s \in Stoppers, CloseRegistered(s) \/ Join(s) \/ BuildManager(s)
      PROVE  PortInv'
  <2>1. PICK to \in Steps : pc' = [pc EXCEPT ![s] = to]
    BY <1>3 DEF CloseRegistered, Join, BuildManager, StopperGoes, AfterStop, Steps, Stoppers
  <2>2. pc[s] \in {"close", "join"} \union Joined
    BY <1>3 DEF CloseRegistered, Join, BuildManager, StopperGoes, Joined
  <2>3. UNCHANGED <<thread, stopEvent, ref>> /\ port' \in {port, Free}
    BY <1>3 DEF CloseRegistered, Join, BuildManager, threadVars, eventVars, portVars
  <2>4. serial' \in Managers /\ built' \in Managers
    BY <1>3, LifecycleAssumption
    DEF CloseRegistered, Join, BuildManager, PortInv, Managers
  <2> QED BY <2>1, <2>2, <2>3, <2>4 DEF PortInv, Free, Managers
<1>4. ASSUME NEW s \in Stoppers, StartManager(s)
      PROVE  PortInv'
  <2>1. /\ pc' = [pc EXCEPT ![s] = "idle"] /\ UNCHANGED <<serial, built, stopEvent, ref, port>>
        /\ \/ thread' = thread
           \/ ~Alive(serial) /\ thread' = [thread EXCEPT ![serial] = "discover"]
    BY <1>4 DEF StartManager, StopperGoes, eventVars, portVars
  <2>2. ~Alive(serial) => port # serial
    BY DEF PortInv, Alive, Holding
  <2>3. pc' \in [Stoppers -> Steps] /\ \A r \in Stoppers : pc'[r] \in {pc[r], "idle"}
    BY <2>1 DEF PortInv, Steps
  <2>4. thread' \in [Managers -> ThreadSteps]
        /\ \A m \in Managers : thread'[m] # thread[m] => port # m
    BY <2>1, <2>2 DEF PortInv, ThreadSteps
  <2> QED BY <2>1, <2>3, <2>4 DEF PortInv, Joined
<1>5. CASE ReplaceDead \/ OpenCalibration \/ CalibrationEnds \/ Shutdown
  <2>1. /\ UNCHANGED <<serial, built, thread, stopEvent, ref, port>>
        /\ \E s \in Stoppers : \/ pc' = [pc EXCEPT ![s] = "stop"]
                               \/ pc[s] = "dialog" /\ pc' = [pc EXCEPT ![s] = "build"]
    BY <1>5 DEF ReplaceDead, OpenCalibration, CalibrationEnds, Shutdown, StopperGoes, Stoppers,
       threadVars, eventVars, portVars
  <2> QED BY <2>1 DEF PortInv, Steps, Joined
<1>6. CASE \/ SearchStarts \/ SearchOpensPort \/ SearchLeavesPort
           \/ ReconnectStuck \/ UserReconnects \/ Unplug \/ Plug \/ UNCHANGED slVars
  <2>1. UNCHANGED <<serial, built, thread, stopEvent, pc, ref>> /\ port' \in {port, Free, Search}
    BY <1>6 DEF SearchStarts, SearchOpensPort, SearchLeavesPort, ReconnectStuck, UserReconnects,
       ReconnectNow, Unplug, Plug, slVars, threadVars, eventVars, portVars, stopperVars
  <2> QED BY <2>1, LifecycleAssumption DEF PortInv, Free, Search, Managers
<1> QED
  BY <1>1, <1>2, <1>3, <1>4, <1>5, <1>6 DEF SLNext, StopperStep

\* A handle to the port belongs to a thread that runs: nobody dies or is given up
\* with the port open.
THEOREM PortHasLiveOwner == SLSpec => [](port \in Managers => Alive(port))
<1>1. PortInv => (port \in Managers => Alive(port))
  BY DEF PortInv, Alive, Holding
<1> QED
  BY PortInit, PortStep, <1>1, PTL DEF SLSpec

LEMMA JoinedStep ==
    ASSUME ~JoinTimesOut, PortInv, JoinedEnded, [SLNext]_slVars
    PROVE  JoinedEnded'
<1> USE DEF JoinedEnded
<1>1. ASSUME NEW m \in Managers, ManagerStep(m) \/ DiscoverRaises(m) \/ OpenHangs(m) \/ DriverHangs(m)
      PROVE  JoinedEnded'
  <2>1. UNCHANGED <<pc, ref>>
    BY <1>1 DEF ManagerStep, Discover, TryPort, OpenPort, OpenHangs, Register, ConnectedLoop,
       ReadFrame, ReadFails, ProcessFrame, ReleasePort, NextRound, DiscoverRaises,
       DriverHangs, stopperVars
  <2> QED BY <1>1, <2>1, ManagerHoldsPort DEF PortInv
<1>2. ASSUME NEW s \in Stoppers, StartManager(s)
      PROVE  JoinedEnded'
  <2>1. /\ pc' = [pc EXCEPT ![s] = "idle"] /\ UNCHANGED ref
        /\ \/ thread' = thread
           \/ ~stopEvent[serial] /\ thread' = [thread EXCEPT ![serial] = "discover"]
    BY <1>2 DEF StartManager, StopperGoes
  <2>2. ASSUME NEW r \in Stoppers, pc'[r] \in Joined PROVE ~Alive(ref[r])'
    <3>1. pc[r] \in Joined
      BY <2>1, <2>2 DEF PortInv, Joined
    <3>2. stopEvent[ref[r]] /\ ~Alive(ref[r]) /\ ref[r] \in Managers
      BY <3>1 DEF PortInv
    <3>3. thread'[ref[r]] = thread[ref[r]] /\ ref'[r] = ref[r]
      BY <2>1, <3>2 DEF PortInv
    <3> QED BY <3>2, <3>3 DEF Alive
  <2> QED BY <2>2
<1>3. ASSUME NEW s \in Stoppers, Join(s)
      PROVE  JoinedEnded'
  <2>1. ~Alive(ref[s]) /\ UNCHANGED <<thread, ref>>
        /\ \E to : pc' = [pc EXCEPT ![s] = to]
    BY <1>3 DEF Join, StopperGoes, threadVars
  <2> QED BY <2>1 DEF PortInv, Alive
<1>4. ASSUME NEW s \in Stoppers, SetStopEvents(s)
      PROVE  JoinedEnded'
  <2>1. /\ pc' = [pc EXCEPT ![s] = "close"] /\ UNCHANGED thread
        /\ ref' = [ref EXCEPT ![s] = serial]
    BY <1>4 DEF SetStopEvents, StopperGoes, threadVars
  <2> QED BY <2>1 DEF PortInv, Alive, Joined
<1>5. ASSUME NEW s \in Stoppers, CloseRegistered(s) \/ BuildManager(s)
      PROVE  JoinedEnded'
  <2>1. /\ UNCHANGED <<thread, ref>>
        /\ \/ pc' = [pc EXCEPT ![s] = "join"]
           \/ pc[s] = "build" /\ pc' = [pc EXCEPT ![s] = "start"]
    BY <1>5 DEF CloseRegistered, BuildManager, StopperGoes, threadVars
  <2> QED BY <2>1 DEF PortInv, Alive, Joined
<1>6. CASE ReplaceDead \/ OpenCalibration \/ CalibrationEnds \/ Shutdown
  <2>1. /\ UNCHANGED <<thread, ref>>
        /\ \E s \in Stoppers : \/ pc' = [pc EXCEPT ![s] = "stop"]
                               \/ pc[s] = "dialog" /\ pc' = [pc EXCEPT ![s] = "build"]
    BY <1>6 DEF ReplaceDead, OpenCalibration, CalibrationEnds, Shutdown, StopperGoes, Stoppers,
       threadVars
  <2> QED BY <2>1 DEF PortInv, Alive, Joined
<1>7. CASE \/ SearchStarts \/ SearchOpensPort \/ SearchLeavesPort
           \/ ReconnectStuck \/ UserReconnects \/ Unplug \/ Plug \/ UNCHANGED slVars
  <2>1. UNCHANGED <<thread, pc, ref>>
    BY <1>7 DEF SearchStarts, SearchOpensPort, SearchLeavesPort, ReconnectStuck, UserReconnects,
       Unplug, Plug, slVars, threadVars, stopperVars
  <2> QED BY <2>1 DEF Alive
<1> QED
  BY <1>1, <1>2, <1>3, <1>4, <1>5, <1>6, <1>7 DEF SLNext, StopperStep

\* A stop() that waited for its thread has left the port to the next, however the
\* three that stop managers overlap.  Not so when it gives up waiting after 2 s:
\* then the thread may still have the port.
THEOREM StoppedPortIsFree ==
    ASSUME ~JoinTimesOut
    PROVE  SLSpec => []StopReleasesPort
<1>1. PortInv /\ JoinedEnded => StopReleasesPort
  BY DEF PortInv, JoinedEnded, StopReleasesPort, Joined, Alive, Holding
<1>2. PortInv /\ JoinedEnded /\ [SLNext]_slVars => PortInv' /\ JoinedEnded'
  BY PortStep, JoinedStep
<1> QED
  BY PortInit, <1>1, <1>2, PTL DEF SLSpec

-----------------------------------------------------------------------------
(* Framing the bytes.                                                       *)

Endings == {"none", "quiet", "full", "time", "stop"}
Frame == [from : Nat, to : Nat, why : Endings]

\* The loop has taken what it took from what arrived; the clocks are bounded.
ReaderNumbers ==
    /\ arrived \in Nat /\ gap \in Nat /\ first \in Nat /\ taken \in Nat
    /\ elapsed \in Nat /\ silence \in Nat /\ quiet \in Nat
    /\ first <= taken /\ taken <= arrived /\ taken - first <= MaxBytes
    /\ gap <= GapSeen /\ silence <= Timeout /\ quiet <= NotQuiet

FrameTypes ==
    /\ ReaderNumbers
    /\ polled \in BOOLEAN /\ stopped \in BOOLEAN /\ ending \in Endings
    /\ frames \in Seq(Frame)

\* The constants are numbers, and the reader's clock counts past the longest gap.
LEMMA Times ==
    /\ Idle \in Nat /\ Settle \in Nat /\ Timeout \in Nat /\ MaxBytes \in Nat
    /\ MaxGap \in Nat /\ MinPause \in Nat /\ ScanBytes \in Nat
    /\ Idle > 0 /\ Timeout > Idle + Settle /\ ScanBytes > 0
    /\ GapSeen \in Nat /\ GapSeen > MaxGap /\ GapSeen >= MinPause
    /\ NotQuiet \in Nat /\ NotQuiet = Timeout + 1
BY FrameAssumption DEF GapSeen, NotQuiet

\* A frame that has all of P keeps it, and the one handed on has it too.
LEMMA FramesGrow ==
    ASSUME FrameTypes, NEW frame \in Frame, frames' = Append(frames, frame)
    PROVE  /\ frames' \in Seq(Frame)
           /\ \A k \in DOMAIN frames' :
                 \/ k \in DOMAIN frames /\ frames'[k] = frames[k]
                 \/ frames'[k] = frame
BY DEF FrameTypes

\* _process_frame hands on what the loop has, or nothing, and begins another.
LEMMA FrameEnds ==
    ASSUME FrameTypes, NextFrame \/ LastFrame
    PROVE  LET frame == [from |-> first, to |-> taken, why |-> ending]
           IN  /\ frame \in Frame /\ ending # "none"
               /\ frames' = frames \/ (first < taken /\ frames' = Append(frames, frame))
               /\ first' = taken /\ UNCHANGED <<arrived, gap, taken>>
BY DEF FrameTypes, ReaderNumbers, NextFrame, LastFrame, Frame, Endings, Length, streamVars

\* What one read adds: no more than waits and no more than there is room for.
LEMMA ChunkRead ==
    ASSUME FrameTypes, ReadChunk
    PROVE  /\ taken < arrived /\ taken' \in Nat /\ taken <= taken' /\ taken' <= arrived
           /\ taken' - first <= MaxBytes
           /\ taken' = arrived \/ ending' = "full"
           /\ ending' \in {"none", "full"} /\ ending = "none"
           /\ silence' = 0 /\ quiet' = NotQuiet /\ polled' = FALSE /\ polled = FALSE
           /\ UNCHANGED <<arrived, gap, first, elapsed, stopped, frames>>
BY Times DEF FrameTypes, ReaderNumbers, ReadChunk, Waiting, Length, Polling, streamVars

LEMMA ReaderNumbersStep ==
    ASSUME FrameTypes, [FRNext]_frVars
    PROVE  ReaderNumbers'
<1> USE Times DEF FrameTypes, ReaderNumbers
<1>1. CASE ByteArrives
  BY <1>1 DEF ByteArrives, loopVars
<1>2. CASE Tick
  BY <1>2 DEF Tick
<1>3. CASE ReadChunk
  BY <1>3, ChunkRead
<1>4. CASE AwaitQuiet
  BY <1>4 DEF AwaitQuiet, streamVars
<1>5. CASE NextFrame \/ LastFrame
  <2>1. first' = taken /\ UNCHANGED <<arrived, gap, taken>>
    BY <1>5, FrameEnds
  <2>2. /\ elapsed' \in {elapsed, 0} /\ silence' \in {silence, 0} /\ quiet' \in {quiet, NotQuiet}
    BY <1>5 DEF NextFrame, LastFrame
  <2> QED BY <2>1, <2>2
<1>6. CASE TimeIsUp \/ Stop \/ UNCHANGED frVars
  BY <1>6 DEF TimeIsUp, Stop, frVars, streamVars, loopVars
<1> QED
  BY <1>1, <1>2, <1>3, <1>4, <1>5, <1>6 DEF FRNext, Loop

LEMMA FrameTypesStep ==
    ASSUME FrameTypes, [FRNext]_frVars
    PROVE  FrameTypes'
<1>1. frames' = frames \/ NextFrame \/ LastFrame
  BY DEF FRNext, Loop, ByteArrives, Tick, Stop, TimeIsUp, ReadChunk, AwaitQuiet, frVars
<1>2. frames' \in Seq(Frame)
  BY <1>1, FrameEnds, FramesGrow DEF FrameTypes
<1>3. polled' \in BOOLEAN /\ stopped' \in BOOLEAN /\ ending' \in Endings
  BY DEF FrameTypes, FRNext, Loop, ByteArrives, Tick, Stop, TimeIsUp, ReadChunk, AwaitQuiet,
     NextFrame, LastFrame, frVars, loopVars, Endings
<1> QED BY <1>2, <1>3, ReaderNumbersStep DEF FrameTypes

LEMMA FrameTypesInit == FRInit => FrameTypes
<1> SUFFICES ASSUME FRInit PROVE FrameTypes
  OBVIOUS
<1>1. ReaderNumbers
  BY Times DEF FRInit, ReaderNumbers
<1>2. frames \in Seq(Frame)
  BY DEF FRInit
<1> QED BY <1>1, <1>2 DEF FRInit, FrameTypes, Endings

-----------------------------------------------------------------------------
\* How the clocks are related: the reader keeps to its longest gap, the loop's
\* silence is no longer than the reader's, and the second window follows the first.
QuietClocks ==
    /\ ~AtScanEnd(arrived) => gap <= MaxGap
    /\ taken = arrived => gap >= silence \/ gap = GapSeen
    /\ quiet # NotQuiet => silence >= Idle + quiet \/ silence = Timeout
    /\ ending = "quiet" => AtScanEnd(taken)
    /\ QuietMeansScanEnd

LEMMA QuietClocksStep ==
    ASSUME Idle + Settle > MaxGap, FrameTypes, QuietClocks, [FRNext]_frVars
    PROVE  QuietClocks'
<1> USE Times
<1>1. CASE ByteArrives
  BY <1>1 DEF FrameTypes, ReaderNumbers, QuietClocks, QuietMeansScanEnd, ByteArrives, loopVars
<1>2. CASE Tick
  BY <1>2 DEF FrameTypes, ReaderNumbers, QuietClocks, QuietMeansScanEnd, Tick
<1>3. CASE Stop \/ UNCHANGED frVars
  BY <1>3 DEF FrameTypes, ReaderNumbers, QuietClocks, QuietMeansScanEnd, Stop, frVars, streamVars, loopVars
<1>4. CASE TimeIsUp
  BY <1>4 DEF FrameTypes, ReaderNumbers, QuietClocks, QuietMeansScanEnd, TimeIsUp, streamVars
<1>5. CASE ReadChunk
  BY <1>5, ChunkRead DEF FrameTypes, ReaderNumbers, QuietClocks, QuietMeansScanEnd
<1>6. CASE AwaitQuiet
  <2>1. taken = arrived /\ UNCHANGED <<arrived, gap, taken, silence, frames>>
        /\ quiet' \in {quiet, 0} /\ (quiet' # quiet => silence >= Idle)
    BY <1>6 DEF FrameTypes, ReaderNumbers, AwaitQuiet, streamVars, Waiting
  <2>2. ASSUME ending' = "quiet" PROVE AtScanEnd(taken)
    <3>1. quiet # NotQuiet /\ quiet >= Settle
      BY <1>6, <2>2 DEF AwaitQuiet
    <3>2. gap > MaxGap
      BY <2>1, <3>1 DEF FrameTypes, ReaderNumbers, QuietClocks
    <3> QED BY <2>1, <3>2 DEF FrameTypes, ReaderNumbers, QuietClocks
  <2>3. quiet' # NotQuiet => silence >= Idle + quiet' \/ silence = Timeout
    <3>1. CASE quiet' = quiet
      BY <3>1 DEF QuietClocks
    <3>2. CASE quiet' # quiet
      <4>1. quiet' = 0 /\ silence >= Idle /\ Idle + 0 = Idle
        BY <2>1, <3>2
      <4> QED BY <4>1
    <3> QED BY <3>1, <3>2
  <2>4. QuietMeansScanEnd'
    BY <2>1 DEF QuietClocks, QuietMeansScanEnd
  <2> QED BY <2>1, <2>2, <2>3, <2>4 DEF QuietClocks
<1>7. CASE NextFrame \/ LastFrame
  <2> DEFINE frame == [from |-> first, to |-> taken, why |-> ending]
  <2>1. /\ frame \in Frame /\ first' = taken /\ UNCHANGED <<arrived, gap, taken>>
        /\ frames' = frames \/ frames' = Append(frames, frame)
    BY <1>7, FrameEnds
  <2>2. frame.why = "quiet" => AtScanEnd(frame.to)
    BY DEF QuietClocks
  <2>3. QuietMeansScanEnd'
    <3>1. CASE frames' = frames
      BY <3>1 DEF QuietClocks, QuietMeansScanEnd
    <3>2. CASE frames' = Append(frames, frame)
      <4> HIDE DEF frame
      <4>1. \A k \in DOMAIN frames' :
              \/ k \in DOMAIN frames /\ frames'[k] = frames[k]
              \/ frames'[k] = frame
        BY <2>1, <3>2, FramesGrow
      <4> QED BY <2>2, <4>1 DEF QuietClocks, QuietMeansScanEnd
    <3> QED BY <2>1, <3>1, <3>2
  <2>4. \/ silence' = 0 /\ quiet' = NotQuiet /\ ending' = "none"
        \/ UNCHANGED <<silence, quiet, ending>>
    BY <1>7 DEF NextFrame, LastFrame
  <2> QED BY <2>1, <2>3, <2>4 DEF FrameTypes, ReaderNumbers, QuietClocks
<1> QED
  BY <1>1, <1>2, <1>3, <1>4, <1>5, <1>6, <1>7 DEF FRNext, Loop

\* Silence never cuts a scan in two, whatever its length and the timeout, as long
\* as the two windows together are longer than the longest gap inside a scan.
THEOREM SilenceEndsScans ==
    ASSUME Idle + Settle > MaxGap
    PROVE  FRSpec => []QuietMeansScanEnd
<1>1. FRInit => QuietClocks
  <2> SUFFICES ASSUME FRInit PROVE QuietClocks
    OBVIOUS
  <2>1. gap = GapSeen /\ GapSeen > MaxGap /\ silence = 0 /\ arrived = 0 /\ GapSeen \in Nat
    BY Times DEF FRInit
  <2>2. AtScanEnd(arrived)
    BY Times, <2>1, Z3 DEF AtScanEnd
  <2> QED BY <2>1, <2>2 DEF FRInit, QuietClocks, QuietMeansScanEnd
<1>2. FrameTypes /\ QuietClocks /\ [FRNext]_frVars => FrameTypes' /\ QuietClocks'
  BY FrameTypesStep, QuietClocksStep
<1>3. QuietClocks => QuietMeansScanEnd
  BY DEF QuietClocks
<1> QED
  BY FrameTypesInit, <1>1, <1>2, <1>3, PTL DEF FRSpec

-----------------------------------------------------------------------------
\* While a frame is open the loop keeps up with the reader: what waits has arrived
\* in this tick or the last, and the windows are counted without a gap.
OpenFrame ==
    /\ taken < arrived => gap <= 1 /\ (polled => gap = 0)
    /\ taken = arrived /\ first < taken => gap <= silence + 1
    /\ first < taken => silence <= Idle + Settle
    /\ ending = "none" /\ first < taken =>
         \/ quiet = NotQuiet /\ silence <= Idle /\ (polled => silence < Idle)
         \/ /\ quiet # NotQuiet /\ silence = Idle + quiet
            /\ quiet <= Settle /\ (polled => quiet < Settle)
    /\ ending = "none" /\ first = taken => quiet = NotQuiet

LEMMA OpenFrameStep ==
    ASSUME Settle > 0, FrameTypes, OpenFrame, [FRNext]_frVars
    PROVE  OpenFrame'
<1> USE Times DEF FrameTypes, ReaderNumbers, OpenFrame
<1>1. CASE ByteArrives
  BY <1>1 DEF ByteArrives, loopVars
<1>2. CASE Tick
  BY <1>2 DEF Tick
<1>3. CASE Stop \/ UNCHANGED frVars
  BY <1>3 DEF Stop, frVars, streamVars, loopVars
<1>4. CASE TimeIsUp
  BY <1>4 DEF TimeIsUp, streamVars
<1>5. CASE ReadChunk
  BY <1>5, ChunkRead
<1>6. CASE AwaitQuiet
  BY <1>6 DEF AwaitQuiet, streamVars, Waiting, Length, Polling
<1>7. CASE NextFrame \/ LastFrame
  <2>1. first' = taken /\ UNCHANGED <<arrived, gap, taken>> /\ ending # "none"
    BY <1>7, FrameEnds
  <2>2. \/ ending' = "none" /\ quiet' = NotQuiet /\ polled' = FALSE
        \/ UNCHANGED <<ending, polled>>
    BY <1>7 DEF NextFrame, LastFrame
  <2> QED BY <2>1, <2>2
<1> QED
  BY <1>1, <1>2, <1>3, <1>4, <1>5, <1>6, <1>7 DEF FRNext, Loop

\* No scan ends strictly between the bytes a and b.
Inside(a, b) == \A i \in Nat : a < i /\ i < b => ~AtScanEnd(i)

FramesInside == \A k \in DOMAIN frames :
                   frames[k].from < frames[k].to /\ Inside(frames[k].from, frames[k].to)

LEMMA FramesInsideStep ==
    ASSUME Settle > 0, MinPause > Idle + Settle + 1, FrameTypes, OpenFrame,
           Inside(first, arrived), FramesInside, [FRNext]_frVars
    PROVE  Inside(first, arrived)' /\ FramesInside'
<1> USE Times
<1>1. CASE ByteArrives
  <2>1. arrived' = arrived + 1 /\ UNCHANGED <<first, frames>>
        /\ (AtScanEnd(arrived) => gap >= MinPause)
    BY <1>1 DEF ByteArrives, loopVars
  <2>2. first < arrived => gap < MinPause
    BY DEF FrameTypes, ReaderNumbers, OpenFrame
  <2>3. \A i \in Nat : first < i /\ i < arrived + 1 => ~AtScanEnd(i)
    BY <2>1, <2>2 DEF Inside, FrameTypes, ReaderNumbers
  <2> QED BY <2>1, <2>3 DEF Inside, FramesInside
<1>2. CASE Tick \/ Stop \/ TimeIsUp \/ AwaitQuiet \/ UNCHANGED frVars
  <2>1. UNCHANGED <<first, arrived, frames>>
    BY <1>2 DEF Tick, Stop, TimeIsUp, AwaitQuiet, frVars, streamVars, loopVars
  <2> QED BY <2>1 DEF Inside, FramesInside
<1>3. CASE ReadChunk
  BY <1>3, ChunkRead DEF Inside, FramesInside
<1>4. CASE NextFrame \/ LastFrame
  <2> DEFINE frame == [from |-> first, to |-> taken, why |-> ending]
  <2>1. /\ frame \in Frame /\ first' = taken /\ UNCHANGED <<arrived, taken>>
        /\ frames' = frames \/ (first < taken /\ frames' = Append(frames, frame))
    BY <1>4, FrameEnds
  <2>2. Inside(first, taken) /\ Inside(taken, arrived)
    BY DEF Inside, FrameTypes, ReaderNumbers
  <2>3. CASE frames' = frames
    BY <2>1, <2>2, <2>3 DEF Inside, FramesInside
  <2>4. CASE first < taken /\ frames' = Append(frames, frame)
    <3>1. frame.from = first /\ frame.to = taken
      OBVIOUS
    <3> HIDE DEF frame
    <3>2. \A k \in DOMAIN frames' :
            \/ k \in DOMAIN frames /\ frames'[k] = frames[k]
            \/ frames'[k] = frame
      BY <2>1, <2>4, FramesGrow
    <3>3. FramesInside'
      BY <2>2, <2>4, <3>1, <3>2 DEF FramesInside, Inside
    <3> QED BY <2>1, <2>2, <3>3 DEF Inside
  <2> QED BY <2>1, <2>3, <2>4
<1> QED
  BY <1>1, <1>2, <1>3, <1>4 DEF FRNext, Loop

\* Two bytes without the end of a scan between them are of the same scan.
LEMMA Division ==
    ASSUME NEW n \in Nat \ {0}, NEW a \in Nat
    PROVE  a = n * (a \div n) + (a % n) /\ a % n < n /\ a % n \in Nat /\ a \div n \in Nat
BY Z3

LEMMA SameScan ==
    ASSUME NEW a \in Nat, NEW b \in Nat, a < b, Inside(a, b)
    PROVE  ScanOf(a + 1) = ScanOf(b)
<1> DEFINE n == ScanBytes
           p == a \div n
           q == (b - 1) \div n
<1>1. n \in Nat \ {0} /\ b - 1 \in Nat /\ a <= b - 1
  BY Times
<1>2. p \in Nat /\ q \in Nat /\ a < n * p + n /\ n * p <= a /\ n * q <= b - 1 /\ b - 1 < n * q + n
  BY <1>1, Division, SMT
<1>3. p <= q
  BY <1>1, Z3
<1>4. ASSUME p < q PROVE FALSE
  <2>1. n * q \in Nat /\ (n * q) % n = 0
    BY <1>1, <1>2, Z3
  <2>2. n * p + n <= n * q
    BY <1>1, <1>2, <1>4, Z3
  <2>3. a < n * q /\ n * q < b
    BY <1>1, <1>2, <2>1, <2>2, Z3
  <2> QED BY <2>1, <2>3 DEF Inside, AtScanEnd
<1>5. p = q
  BY <1>2, <1>3, <1>4
<1> QED BY <1>5 DEF ScanOf

\* Two scans never share a frame, however many bytes come at once and whatever the
\* poll finds, when the pause between them is longer than the two windows and a tick.
THEOREM PauseSeparatesScans ==
    ASSUME Settle > 0, MinPause > Idle + Settle + 1
    PROVE  FRSpec => []OneScanPerFrame
<1>1. FRInit => OpenFrame /\ Inside(first, arrived) /\ FramesInside
  BY Times DEF FRInit, OpenFrame, Inside, FramesInside
<1>2. FrameTypes /\ OpenFrame /\ Inside(first, arrived) /\ FramesInside /\ [FRNext]_frVars
        => FrameTypes' /\ OpenFrame' /\ Inside(first, arrived)' /\ FramesInside'
  BY FrameTypesStep, OpenFrameStep, FramesInsideStep
<1>3. FrameTypes /\ FramesInside => OneScanPerFrame
  <2> SUFFICES ASSUME FrameTypes, FramesInside, NEW k \in DOMAIN frames
               PROVE  ScanOf(frames[k].from + 1) = ScanOf(frames[k].to)
    BY DEF OneScanPerFrame
  <2>1. frames[k] \in Frame
    BY DEF FrameTypes
  <2>2. frames[k].from \in Nat /\ frames[k].to \in Nat
    BY <2>1 DEF Frame
  <2> QED BY <2>2, SameScan DEF FramesInside
<1> QED
  BY FrameTypesInit, <1>1, <1>2, <1>3, PTL DEF FRSpec

=============================================================================
