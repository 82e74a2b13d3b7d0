---------------------------- MODULE MCMarkovGraph ----------------------------
(* Small instances of MarkovGraph for TLC.                                 *)
EXTENDS MarkovGraph

\* no two edges agree in a field, so vectors out of step show
MCEdge == {[state |-> "AOnly", both_running_time |-> 0],
           [state |-> "Both", both_running_time |-> 1]}
=============================================================================
