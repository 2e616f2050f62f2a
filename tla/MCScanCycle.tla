---------------------------- MODULE MCScanCycle ----------------------------
(* Small instances of the scan pipeline for TLC. *)
EXTENDS ScanCycle, TLC

CONSTANTS r1, r2, u1, u2, c1, c2

OneReader  == {r1}
TwoReaders == {r1, r2}
OneUser    == {u1}
TwoUsers   == {u1, u2}
OneConfig  == {c1}
TwoConfigs == {c1, c2}

Interchangeable ==
    UNION {Permutations(S) : S \in {TwoReaders, TwoUsers, TwoConfigs}}

EveryRead     == {"valid", "invalid", "raises"}
ReadableFiles == {"valid", "invalid"}
BrokenFile    == {"valid", "raises"}

WriteControls == {"pause", "resume", "cancel", "stop"}
ChangesOnly   == {"config"}
ClearsOnly    == {"clear"}
WithChanges   == WriteControls \union ChangesOnly
NoAction      == {}
Discards      == {"clear", "config"}
=============================================================================
