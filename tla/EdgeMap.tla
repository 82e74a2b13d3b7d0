------------------------------- MODULE EdgeMap -------------------------------
(***************************************************************************)
(* What MarkovGraph promises its callers: a finite map from edge keys to   *)
(* edges, from which pruning takes the edges with an inactive end at once. *)
(* This is the map that module Stores calls markov.                        *)
(***************************************************************************)
CONSTANTS Id, Edge
VARIABLE edges

Init == edges = [k \in {} |-> {}]

\* an edge that exists is left as it is
Ensure(k, e) ==
    edges' = [x \in DOMAIN edges \cup {k} |-> IF x \in DOMAIN edges THEN edges[x] ELSE e]

Update(k, e) ==
    /\ k \in DOMAIN edges
    /\ edges' = [edges EXCEPT ![k] = e]

Prune(S) == edges' = [k \in {x \in DOMAIN edges : x[1] \in S /\ x[2] \in S} |-> edges[k]]

Next == \/ \E k \in Id \X Id, e \in Edge : Ensure(k, e) \/ Update(k, e)
        \/ \E S \in SUBSET Id : Prune(S)

Spec == Init /\ [][Next]_edges
=============================================================================
