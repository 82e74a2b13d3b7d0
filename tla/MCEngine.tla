------------------------------ MODULE MCEngine ------------------------------
(* Small instances of Engine for TLC.                                      *)
EXTENDS Engine, TLC

Tuned(scans, saves) ==
    [allow : {Map}, active_window : {0}, cycle : {1},
     doscan : scans, dopredict : {TRUE}, autosave : saves,
     save_on_shutdown : saves]

\* scanning may be switched off and on by a reload, and so may saving
MCSwitching == Tuned({TRUE}, {TRUE}) \cup Tuned({FALSE}, {FALSE})

\* scanning and saving are always on
MCScanning == Tuned({TRUE}, {TRUE})

Symmetry == Permutations(Exe)

(***************************************************************************)
(* Only Start reads db, and Kill and Start can follow at once when a save  *)
(* has written it: a state with an older snapshot adds no behaviour of the *)
(* stores.  As in module MCStores, for runs that check no state of db: a   *)
(* step that writes db does so from its own state, or clears it.           *)
(***************************************************************************)
CurrentSnapshotOnly ==
    <<exes, maps, exe_maps, markov, active, model_time, last_accounting_time,
      config, db = S!Snapshot, loop_vars, env_vars>>
=============================================================================
