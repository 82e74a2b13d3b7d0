------------------------------ MODULE MarkovGraph ------------------------------
(***************************************************************************)
(* MarkovGraph keeps its edges as a structure of arrays: parallel vectors  *)
(* indexed by position, and a hash map from edge keys to positions.  Two   *)
(* of the seven parallel vectors are modelled; the others are pushed to    *)
(* and swap-removed in lockstep with them.  Positions start at 1.          *)
(*                                                                         *)
(* pruning is a loop, one step per position looked at.  Nothing else runs  *)
(* between two of its steps, but the arrays and the hash map pass through  *)
(* every state in between.                                                 *)
(***************************************************************************)
EXTENDS Integers, Sequences

CONSTANTS
    Id,         \* ExeIds, which are ordered
    Edge,       \* records with the fields state and both_running_time
    MaxEdges    \* bound on the number of edges

ASSUME IdAssumption == Id \subseteq Int
ASSUME EdgeAssumption ==
    \A e \in Edge : e = [state |-> e.state, both_running_time |-> e.both_running_time]
ASSUME MaxEdgesAssumption == MaxEdges \in Nat

VARIABLES
    keys, states, both_running_times,   \* parallel vectors
    key_to_index,                       \* the position of each key
    pruning,    \* prune_inactive is under way, with
    active,     \* its argument and
    i           \* its position

prune_vars == <<pruning, active, i>>
vars == <<keys, states, both_running_times, key_to_index, prune_vars>>

WrongEdgeKey(a, b) == <<a, b>>  \* mutant: two keys for a pair

\* EdgeKey::new
EdgeKey(a, b) == IF a < b THEN <<a, b>> ELSE <<b, a>>

Key == {k \in Id \X Id : k[1] < k[2]}

Live(k) == k[1] \in active /\ k[2] \in active

-----------------------------------------------------------------------------
\* ensure_edge
EnsureEdge(a, b, e) ==
    /\ ~pruning
    /\ LET key == EdgeKey(a, b)
           idx == Len(keys) + 1
       IN  IF key \in DOMAIN key_to_index
           THEN UNCHANGED <<keys, states, both_running_times, key_to_index>>
           ELSE /\ Len(keys) < MaxEdges
                /\ keys' = Append(keys, key)
                /\ states' = Append(states, e.state)
                /\ both_running_times' = Append(both_running_times, e.both_running_time)
                /\ key_to_index' = [k \in DOMAIN key_to_index \cup {key} |->
                                      IF k = key THEN idx ELSE key_to_index[k]]
    /\ UNCHANGED prune_vars

\* what a caller writes through get_mut
Write(key, e) ==
    /\ ~pruning
    /\ key \in DOMAIN key_to_index
    /\ LET idx == key_to_index[key]
       IN  /\ states' = [states EXCEPT ![idx] = e.state]
           /\ both_running_times' = [both_running_times EXCEPT ![idx] = e.both_running_time]
    /\ UNCHANGED <<keys, key_to_index, prune_vars>>

WrongSwapRemove(s, idx) == [s EXCEPT ![idx] = s[Len(s)]]   \* mutant: no pop

\* Vec::swap_remove: the last element takes the place of the one at idx
SwapRemove(s, idx) ==
    [j \in 1 .. Len(s) - 1 |-> IF j = idx THEN s[Len(s)] ELSE s[j]]

\* mutant: the element that moves keeps its old position in the map
WrongIndexWithout(idx) ==
    [k \in DOMAIN key_to_index \ {keys[idx]} |-> key_to_index[k]]

\* the map after swap_remove(idx)
IndexWithout(idx) ==
    [k \in DOMAIN key_to_index \ {keys[idx]} |->
       IF k = keys[Len(keys)] THEN idx ELSE key_to_index[k]]

StartPrune(S) ==
    /\ ~pruning
    /\ pruning' = TRUE /\ active' = S /\ i' = 1
    /\ UNCHANGED <<keys, states, both_running_times, key_to_index>>

\* mutant: the element moved here is not looked at
WrongPruneStep ==
    /\ pruning /\ i <= Len(keys)
    /\ IF Live(keys[i])
       THEN UNCHANGED <<keys, states, both_running_times, key_to_index>>
       ELSE /\ keys' = SwapRemove(keys, i)
            /\ states' = SwapRemove(states, i)
            /\ both_running_times' = SwapRemove(both_running_times, i)
            /\ key_to_index' = IndexWithout(i)
    /\ i' = i + 1
    /\ UNCHANGED <<pruning, active>>

\* the body of the while loop of prune_inactive
PruneStep ==
    /\ pruning /\ i <= Len(keys)
    /\ \/ /\ Live(keys[i])
          /\ i' = i + 1
          /\ UNCHANGED <<keys, states, both_running_times, key_to_index>>
       \/ /\ ~Live(keys[i])
          /\ keys' = SwapRemove(keys, i)
          /\ states' = SwapRemove(states, i)
          /\ both_running_times' = SwapRemove(both_running_times, i)
          /\ key_to_index' = IndexWithout(i)
          /\ UNCHANGED i
    /\ UNCHANGED <<pruning, active>>

EndPrune ==
    /\ pruning /\ i > Len(keys)
    /\ pruning' = FALSE /\ active' = {} /\ i' = 1
    /\ UNCHANGED <<keys, states, both_running_times, key_to_index>>

Init ==
    /\ keys = <<>> /\ states = <<>> /\ both_running_times = <<>>
    /\ key_to_index = [k \in {} |-> {}]
    /\ pruning = FALSE /\ active = {} /\ i = 1

Next ==
    \/ \E a, b \in Id, e \in Edge : a # b /\ EnsureEdge(a, b, e)
    \/ \E key \in Key, e \in Edge : Write(key, e)
    \/ \E S \in SUBSET Id : StartPrune(S)
    \/ PruneStep \/ EndPrune

\* prune_inactive runs to its end without interruption
Spec == Init /\ [][Next]_vars /\ WF_vars(PruneStep \/ EndPrune)

-----------------------------------------------------------------------------
TypeOK ==
    /\ keys \in Seq(Key)
    /\ states \in Seq({e.state : e \in Edge})
    /\ both_running_times \in Seq({e.both_running_time : e \in Edge})
    /\ DOMAIN key_to_index \subseteq Key
    /\ key_to_index \in [DOMAIN key_to_index -> Nat]
    /\ pruning \in BOOLEAN /\ active \subseteq Id
    /\ i \in Nat

(***************************************************************************)
(* The hash map and the vectors agree at every step: each key is stored    *)
(* once, at the position that the map gives for it (ensure_edge,           *)
(* swap_remove).                                                           *)
(***************************************************************************)
IndexSound ==
    /\ Len(states) = Len(keys) /\ Len(both_running_times) = Len(keys)
    /\ \A j \in 1 .. Len(keys) : /\ keys[j] \in DOMAIN key_to_index
                                 /\ key_to_index[keys[j]] = j
    /\ \A k \in DOMAIN key_to_index : /\ key_to_index[k] \in 1 .. Len(keys)
                                      /\ keys[key_to_index[k]] = k

\* while pruning, the positions behind i hold edges that stay
PrunedBehind ==
    pruning => i >= 1 /\ \A j \in 1 .. Len(keys) : j < i => Live(keys[j])

IInv == TypeOK /\ IndexSound /\ PrunedBehind

(***************************************************************************)
(* The graph implements the map of edges: from the first step of the loop  *)
(* on, the edges that it will take are gone.                               *)
(***************************************************************************)
Edges ==
    [k \in {x \in DOMAIN key_to_index : pruning => Live(x)} |->
       [state |-> states[key_to_index[k]],
        both_running_time |-> both_running_times[key_to_index[k]]]]

Map == INSTANCE EdgeMap WITH edges <- Edges

(***************************************************************************)
(* Whatever the order of insertions, writes and prunes, lookups, writes    *)
(* and prunes through the parallel vectors do to the edges what they would *)
(* do to a map (markov_graph.rs).                                          *)
(***************************************************************************)
ImplementsEdgeMap == Map!Spec

(***************************************************************************)
(* prune_inactive ends, although it does not advance where it removes.     *)
(***************************************************************************)
PruneEnds == pruning ~> ~pruning
=============================================================================
