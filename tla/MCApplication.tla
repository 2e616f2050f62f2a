---------------------------- MODULE MCApplication ----------------------------
(***************************************************************************)
(* The reader application in one run: its pipeline with the frames of two   *)
(* serial threads, and its configuration files with the editor beside it.   *)
(* What the pipeline knows of a form is ScanCycle's own, so the two share   *)
(* nothing here and a behaviour explores one of them.                       *)
(***************************************************************************)
EXTENDS MCScanCycle, ConfigStore

CONSTANTS f1, f2

VARIABLE side

applicationVars == <<side, vars, storeVars>>

\* The initial state of the store beside the pipeline.
Configured ==
    /\ content = [f \in Forms |-> IF f = f1 THEN Form(0, TRUE, FALSE) ELSE Absent]
    /\ favorites = [i \in 1..2 |-> None]

ApplicationInit ==
    /\ side \in {"pipeline", "store"}
    /\ CycleInit
    /\ StoreInit /\ (side = "pipeline" => Configured)

PipelineNext == side = "pipeline" /\ CycleNext /\ UNCHANGED <<side, storeVars>>
StoreSide    == side = "store" /\ StoreNext /\ UNCHANGED <<side, vars>>

ApplicationSpec ==
    ApplicationInit /\ [][PipelineNext \/ StoreSide]_applicationVars
=============================================================================
