--------------------------- MODULE ScanAdmission ---------------------------
(***************************************************************************)
(* SingleScanAdmission (single_scan_app.py): the ticket that lets one       *)
(* document at a time through the pipeline, from the parser to the end of   *)
(* the pause that follows its write.  Every method holds _lock, so each is  *)
(* one action.  _cooldown_until is abstracted to whether it is still ahead; *)
(* when it passes is up to the clock.                                       *)
(***************************************************************************)
VARIABLES
    reserved,   \* _reserved
    handed,     \* _handed_to_queue
    cooldown    \* _cooldown_until lies in the future

admission == <<reserved, handed, cooldown>>

AdmissionInit == reserved = FALSE /\ handed = FALSE /\ cooldown = FALSE

\* Regression: only the cooldown is tested.
CanReserveWhileReserved == ~cooldown
CanReserve == ~reserved /\ ~cooldown

Reserve ==
    /\ CanReserve
    /\ reserved' = TRUE /\ handed' = FALSE
    /\ UNCHANGED cooldown

MarkHandedToQueue ==
    /\ handed' = (handed \/ reserved)
    /\ UNCHANGED <<reserved, cooldown>>

\* Refused before it reached the queue: released, without a cooldown.
ReleaseUnhanded ==
    /\ reserved' = (reserved /\ handed)
    /\ UNCHANGED <<handed, cooldown>>

\* The job was withdrawn from the queue before it was written.
CancelPending ==
    /\ reserved' = FALSE
    /\ handed' = (handed /\ ~reserved)
    /\ UNCHANGED cooldown

\* Regression: the cycle ends without giving the ticket back.
FinishKeepsTicket ==
    /\ handed' = FALSE /\ cooldown' = TRUE
    /\ UNCHANGED reserved

FinishWrittenCycle ==
    /\ reserved' = FALSE /\ handed' = FALSE
    /\ cooldown' = TRUE

CooldownElapses ==
    /\ cooldown
    /\ cooldown' = FALSE
    /\ UNCHANGED <<reserved, handed>>
=============================================================================
