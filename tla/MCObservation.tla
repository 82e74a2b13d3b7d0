---------------------------- MODULE MCObservation ----------------------------
(* Small instances of ProcfsScanner with its watcher, for TLC.             *)
EXTENDS ProcfsScanner
=============================================================================
