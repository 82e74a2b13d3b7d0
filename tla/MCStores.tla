------------------------------ MODULE MCStores ------------------------------
(* Small instances of Stores for TLC.                                      *)
EXTENDS Stores, TLC

Tuned(policies, windows) ==
    [allow : policies, active_window : windows, cycle : {1},
     doscan : {TRUE}, dopredict : {TRUE}, autosave : {TRUE},
     save_on_shutdown : {TRUE}]

(***************************************************************************)
(* Two configurations: one without slack, under which an executable that   *)
(* stops is inactive at the next tick, and one with slack that denies      *)
(* every map.  Each reload and each restart may install either.            *)
(***************************************************************************)
MCConfigs == Tuned({Map}, {0}) \cup Tuned({{}}, {1})

Symmetry == Permutations(Exe) \cup Permutations(Map)

(***************************************************************************)
(* The steps that follow a Save do not read db until a Load, and a Load    *)
(* reads nothing but db.  So a state whose snapshot is out of date adds    *)
(* nothing to the same stores with another snapshot: this view keeps every *)
(* reachable value of the stores and, in the states just after a Save,     *)
(* every reachable snapshot.                                               *)
(***************************************************************************)
StoresAndCurrentSnapshot == <<store_vars, config, db = Snapshot>>
=============================================================================
