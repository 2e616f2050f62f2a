------------------------------- MODULE MCSerial -------------------------------
(***************************************************************************)
(* The two halves of serial_manager.py in one run: which manager's thread   *)
(* has the port, and the frames such a thread reads.  They share nothing    *)
(* but the thread's step "read", so a behaviour explores one of them: the   *)
(* managers, or the reading of a manager that stays connected.              *)
(***************************************************************************)
EXTENDS SerialLifecycle, FrameReader

VARIABLE half

serialVars == <<half, slVars, frVars>>

\* The first manager is reading.
Connected ==
    /\ serial = 1 /\ built = 1
    /\ thread = [m \in Managers |-> IF m = 1 THEN "read" ELSE "none"]
    /\ stopEvent = [m \in Managers |-> FALSE]
    /\ reconnect = [m \in Managers |-> FALSE]
    /\ registered = [m \in Managers |-> m = 1] /\ busy = TRUE
    /\ port = 1 /\ plugged = TRUE /\ searching = FALSE
    /\ pc = [s \in Stoppers |-> "idle"] /\ ref = [s \in Stoppers |-> 1]

SerialInit ==
    /\ FRInit
    /\ \/ half = "managers" /\ SLInit
       \/ half = "frames" /\ Connected

ManagersNext == half = "managers" /\ SLNext /\ UNCHANGED <<half, frVars>>
FramesNext == half = "frames" /\ FRNext /\ UNCHANGED <<half, slVars>>

\* SLFairness and the fairness of FRFairSpec, each where its half runs.
Managing(A) == half = "managers" /\ A
Reading(A) == half = "frames" /\ A

SerialFairness ==
    /\ \A m \in Managers : WF_slVars(Managing(ManagerStep(m)))
    /\ \A s \in Stoppers : WF_slVars(Managing(StopperStep(s)))
    /\ WF_slVars(Managing(ReplaceDead)) /\ WF_slVars(Managing(ReconnectStuck))
    /\ WF_frVars(Reading(Tick)) /\ WF_frVars(Reading(Loop)) /\ WF_frVars(Reading(ByteArrives))

SerialSpec == SerialInit /\ [][ManagersNext \/ FramesNext]_serialVars /\ SerialFairness
=============================================================================
