------------------------ MODULE MCProcessSupervision ------------------------
(* Small instances of the processes and the updater for TLC. *)
EXTENDS ProcessSupervision, TLC

CONSTANTS w1, w2

TwoWorkers == {w1, w2}
OneWorker  == {w1}
Symmetry   == Permutations(Workers)

\* The user starts the application at any time but while files are replaced.
NotDuringFiles == UpdaterSteps \ {"files"}

AfterBackup == {"replace", "smoke", "result"}
=============================================================================
