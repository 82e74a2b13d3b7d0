---------------------------- MODULE MCPrefetcher ----------------------------
(* Small instances of Prefetcher for TLC.                                  *)
EXTENDS Prefetcher
=============================================================================
