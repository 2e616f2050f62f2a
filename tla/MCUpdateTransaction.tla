------------------------ MODULE MCUpdateTransaction ------------------------
(* Small instances of the updater's file transaction for TLC. *)
EXTENDS UpdateTransaction

\* Errors while the package is staged or the backup is made.
BeforeBackup == {"stage", "backup"}
=============================================================================
