----------------------------- MODULE MCRepository -----------------------------
(* Small instances of Repository for TLC.                                  *)
EXTENDS Repository, TLC

Symmetry == Permutations(Exe) \cup Permutations(Map)
=============================================================================
