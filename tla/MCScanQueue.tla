---------------------------- MODULE MCScanQueue ----------------------------
(* A small instance of the write queue for TLC. *)
EXTENDS ScanQueue

CONSTANTS u1, u2

TwoUsers == {u1, u2}

EveryQueueAction == {"pause", "resume", "cancel", "clear", "stop"}
=============================================================================
