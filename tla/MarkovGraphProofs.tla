--------------------------- MODULE MarkovGraphProofs ---------------------------
(***************************************************************************)
(* The structure of arrays implements the map of edges, for any number of  *)
(* executables and edges.                                                  *)
(***************************************************************************)
EXTENDS MarkovGraph, SequenceTheorems, TLAPS

States == {e.state : e \in Edge}
Times  == {e.both_running_time : e \in Edge}

LEMMA EdgeKeyTyped ==
  ASSUME NEW a \in Id, NEW b \in Id, a # b PROVE EdgeKey(a, b) \in Key
  BY IdAssumption DEF EdgeKey, Key

LEMMA SwapRemoved ==
  ASSUME NEW S, NEW s \in Seq(S), NEW idx \in 1 .. Len(s)
  PROVE  /\ SwapRemove(s, idx) \in Seq(S)
         /\ Len(SwapRemove(s, idx)) = Len(s) - 1
         /\ \A j \in 1 .. Len(s) - 1 :
               SwapRemove(s, idx)[j] = IF j = idx THEN s[Len(s)] ELSE s[j]
<1>1. Len(s) \in Nat /\ Len(s) >= 1 /\ Len(s) - 1 \in Nat
  BY LenProperties
<1>2. \A j \in 1 .. Len(s) : s[j] \in S
  BY ElementOfSeq
<1>3. SwapRemove(s, idx) \in [1 .. Len(s) - 1 -> S]
  BY <1>1, <1>2 DEF SwapRemove
<1> QED BY <1>1, <1>3 DEF SwapRemove

\* appending to a vector
LEMMA Appended ==
  ASSUME NEW S, NEW s \in Seq(S), NEW e \in S
  PROVE  /\ Append(s, e) \in Seq(S)
         /\ Len(Append(s, e)) = Len(s) + 1
         /\ \A j \in 1 .. Len(s) : Append(s, e)[j] = s[j]
         /\ Append(s, e)[Len(s) + 1] = e
  BY AppendProperties, LenProperties

-----------------------------------------------------------------------------
(* The inductive invariant                                                 *)

LEMMA InitIInv == Init => IInv
<1> SUFFICES ASSUME Init PROVE IInv
  OBVIOUS
<1>1. keys \in Seq(Key) /\ states \in Seq(States) /\ both_running_times \in Seq(Times)
  BY DEF Init
<1>2. TypeOK
  BY <1>1 DEF Init, TypeOK, States, Times
<1>3. IndexSound /\ PrunedBehind
  BY DEF Init, IndexSound, PrunedBehind
<1> QED BY <1>2, <1>3 DEF IInv

LEMMA EnsureEdgeIInv ==
  ASSUME IInv, NEW a \in Id, NEW b \in Id, a # b, NEW e \in Edge, EnsureEdge(a, b, e)
  PROVE  IInv'
<1> DEFINE key == EdgeKey(a, b)
           n   == Len(keys)
<1>1. CASE key \in DOMAIN key_to_index
  BY <1>1 DEF EnsureEdge, IInv, TypeOK, IndexSound, PrunedBehind, prune_vars, Live
<1>2. CASE key \notin DOMAIN key_to_index
  <2>1. key \in Key /\ n \in Nat
    BY EdgeKeyTyped, LenProperties DEF IInv, TypeOK
  <2>2. /\ keys' = Append(keys, key)
        /\ states' = Append(states, e.state)
        /\ both_running_times' = Append(both_running_times, e.both_running_time)
        /\ key_to_index' = [k \in DOMAIN key_to_index \cup {key} |->
                              IF k = key THEN n + 1 ELSE key_to_index[k]]
        /\ UNCHANGED prune_vars /\ ~pruning
    BY <1>2 DEF EnsureEdge
  <2>3. /\ keys' \in Seq(Key) /\ Len(keys') = n + 1
        /\ \A j \in 1 .. n : keys'[j] = keys[j]
        /\ keys'[n + 1] = key
    BY <2>1, <2>2, Appended DEF IInv, TypeOK
  <2>4. /\ states' \in Seq(States) /\ Len(states') = n + 1
        /\ both_running_times' \in Seq(Times) /\ Len(both_running_times') = n + 1
    BY <2>2, Appended DEF IInv, TypeOK, IndexSound, States, Times
  <2>5. TypeOK'
    BY <2>1, <2>2, <2>3, <2>4 DEF IInv, TypeOK, prune_vars, States, Times
  <2>6. ASSUME NEW j \in 1 .. n + 1
        PROVE  keys'[j] \in DOMAIN key_to_index' /\ key_to_index'[keys'[j]] = j
    <3>1. CASE j \in 1 .. n
      <4>1. keys[j] \in DOMAIN key_to_index /\ key_to_index[keys[j]] = j
        BY <3>1 DEF IInv, IndexSound
      <4> QED BY <1>2, <2>2, <2>3, <3>1, <4>1
    <3>2. CASE j = n + 1
      BY <2>2, <2>3, <3>2
    <3> QED BY <2>1, <3>1, <3>2
  <2>7. ASSUME NEW k \in DOMAIN key_to_index'
        PROVE  key_to_index'[k] \in 1 .. n + 1 /\ keys'[key_to_index'[k]] = k
    <3>1. CASE k = key
      BY <2>1, <2>2, <2>3, <3>1
    <3>2. CASE k # key
      <4>1. k \in DOMAIN key_to_index /\ key_to_index'[k] = key_to_index[k]
        BY <2>2, <3>2
      <4>2. key_to_index[k] \in 1 .. n /\ keys[key_to_index[k]] = k
        BY <4>1 DEF IInv, IndexSound
      <4> QED BY <2>1, <2>3, <4>1, <4>2
    <3> QED BY <3>1, <3>2
  <2>8. IndexSound'
    BY <2>3, <2>4, <2>6, <2>7 DEF IndexSound
  <2>9. PrunedBehind'
    BY <2>2 DEF PrunedBehind, prune_vars
  <2> QED BY <2>5, <2>8, <2>9 DEF IInv
<1> QED BY <1>1, <1>2

LEMMA WriteIInv ==
  ASSUME IInv, NEW key \in Key, NEW e \in Edge, Write(key, e)
  PROVE  IInv'
<1> DEFINE idx == key_to_index[key]
<1>1. /\ states' = [states EXCEPT ![idx] = e.state]
      /\ both_running_times' = [both_running_times EXCEPT ![idx] = e.both_running_time]
      /\ UNCHANGED <<keys, key_to_index, prune_vars>>
  BY DEF Write
<1>2. /\ idx \in 1 .. Len(keys)
      /\ Len(states) = Len(keys) /\ Len(both_running_times) = Len(keys)
  BY DEF Write, IInv, IndexSound
<1>3. states' \in Seq(States) /\ Len(states') = Len(states)
  BY <1>1, <1>2, ExceptSeq DEF IInv, TypeOK, States
<1>4. /\ both_running_times' \in Seq(Times)
      /\ Len(both_running_times') = Len(both_running_times)
  BY <1>1, <1>2, ExceptSeq DEF IInv, TypeOK, Times
<1>5. TypeOK'
  BY <1>1, <1>3, <1>4 DEF IInv, TypeOK, prune_vars, States, Times
<1>6. IndexSound' /\ PrunedBehind'
  BY <1>1, <1>2, <1>3, <1>4 DEF IInv, IndexSound, PrunedBehind, prune_vars, Live
<1> QED BY <1>5, <1>6 DEF IInv

(***************************************************************************)
(* What a removal at position i does to the vectors and to the map.        *)
(***************************************************************************)
LEMMA Removal ==
  ASSUME IInv, PruneStep, ~Live(keys[i])
  PROVE  /\ i \in 1 .. Len(keys) /\ Len(keys) \in Nat
         /\ keys' \in Seq(Key) /\ Len(keys') = Len(keys) - 1
         /\ states' \in Seq(States) /\ Len(states') = Len(keys) - 1
         /\ both_running_times' \in Seq(Times)
         /\ Len(both_running_times') = Len(keys) - 1
         /\ \A j \in 1 .. Len(keys) - 1 :
              LET p == IF j = i THEN Len(keys) ELSE j
              IN  /\ keys'[j] = keys[p] /\ states'[j] = states[p]
                  /\ both_running_times'[j] = both_running_times[p]
         /\ key_to_index' = IndexWithout(i)
         /\ UNCHANGED prune_vars /\ pruning
<1>1. i \in 1 .. Len(keys) /\ Len(keys) \in Nat
  BY LenProperties DEF PruneStep, IInv, TypeOK, PrunedBehind
<1>2. /\ keys' = SwapRemove(keys, i) /\ states' = SwapRemove(states, i)
      /\ both_running_times' = SwapRemove(both_running_times, i)
      /\ key_to_index' = IndexWithout(i) /\ UNCHANGED prune_vars /\ pruning
  <2>1. /\ keys' = SwapRemove(keys, i) /\ states' = SwapRemove(states, i)
        /\ both_running_times' = SwapRemove(both_running_times, i)
        /\ key_to_index' = IndexWithout(i) /\ i' = i
    BY DEF PruneStep
  <2>2. pruning /\ pruning' = pruning /\ active' = active
    BY DEF PruneStep
  <2> QED BY <2>1, <2>2 DEF prune_vars
<1>3. /\ keys \in Seq(Key) /\ states \in Seq(States) /\ both_running_times \in Seq(Times)
      /\ Len(states) = Len(keys) /\ Len(both_running_times) = Len(keys)
  BY DEF IInv, TypeOK, IndexSound, States, Times
<1>4. /\ keys' \in Seq(Key) /\ Len(keys') = Len(keys) - 1
      /\ \A j \in 1 .. Len(keys) - 1 :
            keys'[j] = IF j = i THEN keys[Len(keys)] ELSE keys[j]
  BY <1>1, <1>2, <1>3, SwapRemoved
<1>5. /\ states' \in Seq(States) /\ Len(states') = Len(keys) - 1
      /\ \A j \in 1 .. Len(keys) - 1 :
            states'[j] = IF j = i THEN states[Len(keys)] ELSE states[j]
  BY <1>1, <1>2, <1>3, SwapRemoved
<1>6. /\ both_running_times' \in Seq(Times) /\ Len(both_running_times') = Len(keys) - 1
      /\ \A j \in 1 .. Len(keys) - 1 :
            both_running_times'[j] = IF j = i THEN both_running_times[Len(keys)]
                                              ELSE both_running_times[j]
  <2> DEFINE s == both_running_times
  <2>1. s \in Seq(Times) /\ i \in 1 .. Len(s) /\ Len(s) = Len(keys)
    BY <1>1, <1>3
  <2>2. /\ SwapRemove(s, i) \in Seq(Times) /\ Len(SwapRemove(s, i)) = Len(s) - 1
        /\ \A j \in 1 .. Len(s) - 1 :
              SwapRemove(s, i)[j] = IF j = i THEN s[Len(s)] ELSE s[j]
    <3> HIDE DEF s
    <3> QED BY <2>1, SwapRemoved
  <2> QED BY <1>2, <2>1, <2>2
<1> QED BY <1>1, <1>2, <1>4, <1>5, <1>6

(***************************************************************************)
(* A key that stays keeps its position, or gets i if it was the last.      *)
(***************************************************************************)
LEMMA Relocation ==
  ASSUME IInv, PruneStep, ~Live(keys[i])
  PROVE  /\ DOMAIN key_to_index' = DOMAIN key_to_index \ {keys[i]}
         /\ \A k \in DOMAIN key_to_index' :
              /\ key_to_index'[k] \in 1 .. Len(keys) - 1
              /\ key_to_index[k] = IF key_to_index'[k] = i
                                   THEN Len(keys) ELSE key_to_index'[k]
<1>1. i \in 1 .. Len(keys) /\ Len(keys) \in Nat /\ key_to_index' = IndexWithout(i)
  BY Removal
<1>2. DOMAIN key_to_index' = DOMAIN key_to_index \ {keys[i]}
  BY <1>1 DEF IndexWithout
<1>3. ASSUME NEW k \in DOMAIN key_to_index'
      PROVE  /\ key_to_index'[k] \in 1 .. Len(keys) - 1
             /\ key_to_index[k] = IF key_to_index'[k] = i
                                  THEN Len(keys) ELSE key_to_index'[k]
  <2>1. /\ key_to_index[k] \in 1 .. Len(keys) /\ keys[key_to_index[k]] = k
        /\ k # keys[i] /\ key_to_index[keys[Len(keys)]] = Len(keys)
    BY <1>1, <1>2, <1>3 DEF IInv, IndexSound
  <2>2. key_to_index'[k] = IF k = keys[Len(keys)] THEN i ELSE key_to_index[k]
    BY <1>1, <1>2, <1>3 DEF IndexWithout
  <2>3. CASE k = keys[Len(keys)]
    <3>1. i # Len(keys) /\ key_to_index[k] = Len(keys) /\ key_to_index'[k] = i
      BY <2>1, <2>2, <2>3
    <3> QED BY <1>1, <3>1
  <2>4. CASE k # keys[Len(keys)]
    <3>1. /\ key_to_index'[k] = key_to_index[k]
          /\ key_to_index[k] # Len(keys) /\ key_to_index[k] # i
      BY <2>1, <2>2, <2>4
    <3> QED BY <1>1, <2>1, <3>1
  <2> QED BY <2>3, <2>4
<1> QED BY <1>2, <1>3

LEMMA PruneStepIInv == IInv /\ PruneStep => IInv'
<1> SUFFICES ASSUME IInv, PruneStep PROVE IInv'
  OBVIOUS
<1> DEFINE n == Len(keys)
<1>1. CASE Live(keys[i])
  <2>1. /\ UNCHANGED <<keys, states, both_running_times, key_to_index, pruning, active>>
        /\ i' = i + 1 /\ i \in Nat
    BY <1>1 DEF PruneStep, IInv, TypeOK
  <2>2. TypeOK' /\ IndexSound'
    BY <2>1 DEF IInv, TypeOK, IndexSound
  <2>3. PrunedBehind'
    <3>1. \A j \in 1 .. Len(keys) : j < i => Live(keys[j])
      BY DEF IInv, PrunedBehind, PruneStep
    <3>2. ASSUME NEW j \in 1 .. Len(keys), j < i + 1
          PROVE  Live(keys[j])
      <4>1. j < i \/ j = i
        BY <2>1, <3>2
      <4> QED BY <1>1, <3>1, <4>1
    <3>3. i >= 1
      BY DEF IInv, PrunedBehind, PruneStep
    <3> QED BY <2>1, <3>2, <3>3 DEF PrunedBehind, Live
  <2> QED BY <2>2, <2>3 DEF IInv
<1>2. CASE ~Live(keys[i])
  <2>1. /\ i \in 1 .. n /\ n \in Nat
        /\ keys' \in Seq(Key) /\ Len(keys') = n - 1
        /\ \A j \in 1 .. n - 1 : keys'[j] = keys[IF j = i THEN n ELSE j]
        /\ UNCHANGED prune_vars /\ pruning
    BY <1>2, Removal
  <2>2. /\ states' \in Seq(States) /\ Len(states') = n - 1
        /\ both_running_times' \in Seq(Times) /\ Len(both_running_times') = n - 1
    BY <1>2, Removal
  <2>3. /\ DOMAIN key_to_index' = DOMAIN key_to_index \ {keys[i]}
        /\ \A k \in DOMAIN key_to_index' :
             /\ key_to_index'[k] \in 1 .. n - 1
             /\ key_to_index[k] = IF key_to_index'[k] = i THEN n ELSE key_to_index'[k]
    BY <1>2, Relocation
  <2>4. TypeOK'
    <3>1. key_to_index' = IndexWithout(i)
      BY <1>2, Removal
    <3>2. i \in Nat /\ key_to_index \in [DOMAIN key_to_index -> Nat]
      BY <2>1 DEF IInv, TypeOK
    <3>3. IndexWithout(i) \in [DOMAIN key_to_index \ {keys[i]} -> Nat]
      BY <3>2 DEF IndexWithout
    <3>4. key_to_index' \in [DOMAIN key_to_index' -> Nat]
      BY <2>3, <3>1, <3>3
    <3> QED BY <2>1, <2>2, <2>3, <3>4 DEF IInv, TypeOK, prune_vars, States, Times
  <2>5. ASSUME NEW k \in DOMAIN key_to_index'
        PROVE  key_to_index'[k] \in 1 .. n - 1 /\ keys'[key_to_index'[k]] = k
    <3>1. keys[key_to_index[k]] = k
      BY <2>3 DEF IInv, IndexSound
    <3> QED BY <2>1, <2>3, <3>1
  <2>6. ASSUME NEW j \in 1 .. n - 1
        PROVE  keys'[j] \in DOMAIN key_to_index' /\ key_to_index'[keys'[j]] = j
    <3> DEFINE p == IF j = i THEN n ELSE j
    <3>1. p \in 1 .. n /\ p # i /\ keys'[j] = keys[p]
      BY <2>1
    <3>2. /\ keys[p] \in DOMAIN key_to_index /\ key_to_index[keys[p]] = p
          /\ key_to_index[keys[i]] = i
      BY <2>1, <3>1 DEF IInv, IndexSound
    <3>3. keys'[j] \in DOMAIN key_to_index'
      BY <2>3, <3>1, <3>2
    <3>4. p = IF key_to_index'[keys'[j]] = i THEN n ELSE key_to_index'[keys'[j]]
      BY <2>3, <3>1, <3>2, <3>3
    <3> QED BY <2>1, <2>3, <3>3, <3>4
  <2>7. IndexSound'
    BY <2>1, <2>2, <2>5, <2>6 DEF IndexSound
  <2>8. PrunedBehind'
    BY <2>1 DEF IInv, PrunedBehind, prune_vars, Live
  <2> QED BY <2>4, <2>7, <2>8 DEF IInv
<1> QED BY <1>1, <1>2

LEMMA NextIInv == IInv /\ [Next]_vars => IInv'
<1> SUFFICES ASSUME IInv, [Next]_vars PROVE IInv'
  OBVIOUS
<1>1. ASSUME NEW a \in Id, NEW b \in Id, NEW e \in Edge, a # b, EnsureEdge(a, b, e)
      PROVE  IInv'
  BY <1>1, EnsureEdgeIInv
<1>2. ASSUME NEW key \in Key, NEW e \in Edge, Write(key, e)
      PROVE  IInv'
  BY <1>2, WriteIInv
<1>3. ASSUME NEW S \in SUBSET Id, StartPrune(S)
      PROVE  IInv'
  BY <1>3 DEF StartPrune, IInv, TypeOK, IndexSound, PrunedBehind
<1>4. CASE PruneStep
  BY <1>4, PruneStepIInv
<1>5. CASE EndPrune
  BY <1>5 DEF EndPrune, IInv, TypeOK, IndexSound, PrunedBehind
<1>6. CASE UNCHANGED vars
  BY <1>6 DEF vars, prune_vars, IInv, TypeOK, IndexSound, PrunedBehind, Live
<1> QED BY <1>1, <1>2, <1>3, <1>4, <1>5, <1>6 DEF Next

\* in every state the vectors have their types and agree with the hash map
THEOREM Invariance == Spec => []IInv
<1>1. Init => IInv
  BY InitIInv
<1>2. IInv /\ [Next]_vars => IInv'
  BY NextIInv
<1> QED BY <1>1, <1>2, PTL DEF Spec

(***************************************************************************)
(* The keys of the vectors and of the hash map are keys of edges, and what *)
(* the hash map gives are numbers, also between a swap and the repair of   *)
(* the index (MarkovGraph).                                                *)
(***************************************************************************)
THEOREM TypeCorrect == Spec => []TypeOK
<1>1. IInv => TypeOK
  BY DEF IInv
<1> QED BY <1>1, Invariance, PTL

(***************************************************************************)
(* The vectors and the hash map agree after every operation and after      *)
(* every step of the prune loop (MarkovGraph).                             *)
(***************************************************************************)
THEOREM IndexStaysSound == Spec => []IndexSound
<1>1. IInv => IndexSound
  BY DEF IInv
<1> QED BY <1>1, Invariance, PTL

\* how many positions prune_inactive still looks at
Left == Len(keys) + 1 - i

\* the position does not run past the end of vectors that shrink
NeverPast == pruning => Left \in Nat

LEMMA StaysInside == Spec => []NeverPast
<1>1. Init => NeverPast
  BY DEF Init, NeverPast
<1>2. IInv /\ NeverPast /\ [Next]_vars => NeverPast'
  <2> SUFFICES ASSUME IInv, NeverPast, [Next]_vars, pruning' PROVE Left' \in Nat
    BY DEF NeverPast
  <2>1. Len(keys) \in Nat /\ i \in Nat
    BY LenProperties DEF IInv, TypeOK
  <2>2. CASE PruneStep
    <3>1. pruning /\ i <= Len(keys)
      BY <2>2 DEF PruneStep
    <3>2. CASE Live(keys[i])
      BY <2>1, <2>2, <3>1, <3>2 DEF PruneStep, Left
    <3>3. CASE ~Live(keys[i])
      <4>1. i' = i /\ Len(keys') = Len(keys) - 1
        BY <2>2, <3>3, Removal DEF prune_vars
      <4> QED BY <2>1, <3>1, <4>1 DEF Left
    <3> QED BY <3>2, <3>3
  <2>3. ASSUME NEW S, StartPrune(S) PROVE Left' \in Nat
    <3>1. keys' = keys /\ i' = 1
      BY <2>3 DEF StartPrune
    <3> QED BY <2>1, <3>1 DEF Left
  <2>4. CASE UNCHANGED vars
    BY <2>4 DEF vars, prune_vars, NeverPast, Left
  <2> QED
    BY <2>2, <2>3, <2>4 DEF Next, EnsureEdge, Write, EndPrune, prune_vars
<1> QED BY <1>1, <1>2, Invariance, PTL DEF Spec

(***************************************************************************)
(* Each step of the prune loop leaves at least one position less to look   *)
(* at, although it does not advance where it removes, and when it ends     *)
(* none is left and every edge is live: the number of edges bounds the     *)
(* loop (prune_inactive).                                                  *)
(***************************************************************************)
PruneAdvances ==
    /\ PruneStep => Left \in Nat /\ Left' \in Nat /\ Left' < Left
    /\ EndPrune => Left = 0 /\ \A k \in DOMAIN key_to_index' : Live(k)

\* every step of prune_inactive is such a step
THEOREM PruneIsBounded == Spec => [][PruneAdvances]_vars
<1>1. ASSUME IInv, PruneStep PROVE Left \in Nat /\ Left' \in Nat /\ Left' < Left
  <2>1. i \in 1 .. Len(keys) /\ Len(keys) \in Nat
    BY <1>1, LenProperties DEF PruneStep, IInv, TypeOK, PrunedBehind
  <2>2. CASE Live(keys[i])
    <3>1. i' = i + 1 /\ keys' = keys
      BY <1>1, <2>2 DEF PruneStep
    <3> QED BY <2>1, <3>1 DEF Left
  <2>3. CASE ~Live(keys[i])
    <3>1. i' = i /\ Len(keys') = Len(keys) - 1
      BY <1>1, <2>3, Removal DEF prune_vars
    <3> QED BY <2>1, <3>1 DEF Left
  <2> QED BY <2>2, <2>3
<1>2. ASSUME IInv, NeverPast, EndPrune
      PROVE  Left = 0 /\ \A k \in DOMAIN key_to_index' : Live(k)
  <2>1. Len(keys) \in Nat /\ i \in Nat /\ i > Len(keys) /\ pruning
    BY <1>2, LenProperties DEF EndPrune, IInv, TypeOK
  <2>2. /\ \A j \in 1 .. Len(keys) : Live(keys[j])
        /\ key_to_index' = key_to_index
    BY <1>2, <2>1 DEF EndPrune, IInv, PrunedBehind
  <2>3. \A k \in DOMAIN key_to_index :
           key_to_index[k] \in 1 .. Len(keys) /\ keys[key_to_index[k]] = k
    BY <1>2 DEF IInv, IndexSound
  <2>4. Left = 0
    BY <1>2, <2>1 DEF NeverPast, Left
  <2> QED BY <2>2, <2>3, <2>4
<1>3. IInv /\ NeverPast /\ [Next]_vars => [PruneAdvances]_vars
  BY <1>1, <1>2 DEF PruneAdvances
<1> QED BY <1>3, Invariance, StaysInside, PTL DEF Spec

-----------------------------------------------------------------------------
(* The refinement                                                          *)

\* Edges, value by value
LEMMA EdgesAre ==
  /\ DOMAIN Edges = {k \in DOMAIN key_to_index : pruning => Live(k)}
  /\ \A k \in DOMAIN Edges :
        Edges[k] = [state |-> states[key_to_index[k]],
                    both_running_time |-> both_running_times[key_to_index[k]]]
  BY DEF Edges

LEMMA EnsureEdgeMaps ==
  ASSUME IInv, NEW a \in Id, NEW b \in Id, a # b, NEW e \in Edge, EnsureEdge(a, b, e)
  PROVE  Map!Ensure(EdgeKey(a, b), e)
<1> DEFINE key == EdgeKey(a, b)
           n   == Len(keys)
<1> SUFFICES Edges' = [x \in DOMAIN Edges \cup {key} |->
                         IF x \in DOMAIN Edges THEN Edges[x] ELSE e]
  BY DEF Map!Ensure
<1>1. DOMAIN Edges = DOMAIN key_to_index /\ ~pruning /\ UNCHANGED prune_vars
  BY DEF Edges, EnsureEdge
<1>2. CASE key \in DOMAIN key_to_index
  <2>1. UNCHANGED <<states, both_running_times, key_to_index, pruning, active>>
    BY <1>1, <1>2 DEF EnsureEdge, prune_vars
  <2>2. Edges' = Edges
    BY <2>1 DEF Edges, Live
  <2> QED BY <1>1, <1>2, <2>2 DEF Edges
<1>3. CASE key \notin DOMAIN key_to_index
  <2>1. /\ states' = Append(states, e.state)
        /\ both_running_times' = Append(both_running_times, e.both_running_time)
        /\ DOMAIN key_to_index' = DOMAIN key_to_index \cup {key}
        /\ key_to_index'[key] = n + 1
        /\ \A k \in DOMAIN key_to_index : key_to_index'[k] = key_to_index[k]
    BY <1>3 DEF EnsureEdge
  <2>2. /\ Len(states) = n /\ Len(both_running_times) = n
        /\ states \in Seq(States) /\ both_running_times \in Seq(Times)
        /\ e.state \in States /\ e.both_running_time \in Times
    BY DEF IInv, IndexSound, TypeOK, States, Times
  <2>3. /\ \A j \in 1 .. n : states'[j] = states[j]
        /\ \A j \in 1 .. n : both_running_times'[j] = both_running_times[j]
        /\ states'[n + 1] = e.state
        /\ both_running_times'[n + 1] = e.both_running_time
    BY <2>1, <2>2, Appended
  <2>4. DOMAIN Edges' = DOMAIN Edges \cup {key}
    BY <1>1, <2>1 DEF Edges, prune_vars
  <2>5. ASSUME NEW k \in DOMAIN Edges'
        PROVE  Edges'[k] = IF k \in DOMAIN Edges THEN Edges[k] ELSE e
    <3>1. Edges'[k] = [state |-> states'[key_to_index'[k]],
                       both_running_time |-> both_running_times'[key_to_index'[k]]]
      BY <2>5 DEF Edges
    <3>2. CASE k = key
      <4>1. Edges'[k] = [state |-> e.state, both_running_time |-> e.both_running_time]
        BY <2>1, <2>3, <3>1, <3>2
      <4> QED BY <1>1, <1>3, <3>2, <4>1, EdgeAssumption
    <3>3. CASE k # key
      <4>1. k \in DOMAIN key_to_index /\ key_to_index'[k] = key_to_index[k]
        BY <1>1, <2>1, <2>4, <2>5, <3>3
      <4>2. key_to_index[k] \in 1 .. n
        BY <4>1 DEF IInv, IndexSound
      <4>3. Edges'[k] = Edges[k]
        BY <1>1, <2>3, <3>1, <4>1, <4>2, EdgesAre
      <4> QED BY <1>1, <4>1, <4>3
    <3> QED BY <3>2, <3>3
  <2>6. Edges' = [x \in DOMAIN Edges' |-> Edges'[x]]
    BY DEF Edges
  <2> QED BY <2>4, <2>5, <2>6
<1> QED BY <1>2, <1>3

LEMMA WriteMaps ==
  ASSUME IInv, NEW key \in Key, NEW e \in Edge, Write(key, e)
  PROVE  Map!Update(key, e)
<1> DEFINE idx == key_to_index[key]
<1>1. /\ DOMAIN Edges = DOMAIN key_to_index /\ key \in DOMAIN Edges
      /\ DOMAIN Edges' = DOMAIN Edges
  BY DEF Edges, Write, prune_vars
<1>2. /\ states' = [states EXCEPT ![idx] = e.state]
      /\ both_running_times' = [both_running_times EXCEPT ![idx] = e.both_running_time]
      /\ UNCHANGED <<keys, key_to_index>>
  BY DEF Write
<1>3. /\ DOMAIN states = 1 .. Len(keys) /\ DOMAIN both_running_times = 1 .. Len(keys)
      /\ idx \in 1 .. Len(keys)
  BY <1>1, LenProperties DEF IInv, TypeOK, IndexSound
<1>4. ASSUME NEW k \in DOMAIN Edges'
      PROVE  Edges'[k] = IF k = key THEN e ELSE Edges[k]
  <2>1. Edges'[k] = [state |-> states'[key_to_index[k]],
                     both_running_time |-> both_running_times'[key_to_index[k]]]
    BY <1>2, <1>4 DEF Edges
  <2>2. CASE k = key
    <3>1. states'[idx] = e.state /\ both_running_times'[idx] = e.both_running_time
      BY <1>2, <1>3
    <3> QED BY <2>1, <2>2, <3>1, EdgeAssumption
  <2>3. CASE k # key
    <3>1. key_to_index[k] # idx /\ key_to_index[k] \in 1 .. Len(keys)
      BY <1>1, <1>4, <2>3 DEF IInv, IndexSound
    <3>2. /\ states'[key_to_index[k]] = states[key_to_index[k]]
          /\ both_running_times'[key_to_index[k]] = both_running_times[key_to_index[k]]
      BY <1>2, <1>3, <3>1
    <3> QED BY <1>1, <1>4, <2>1, <2>3, <3>2, EdgesAre
  <2> QED BY <2>2, <2>3
<1>5. Edges' = [x \in DOMAIN Edges |-> IF x = key THEN e ELSE Edges[x]]
  <2>1. Edges' = [x \in DOMAIN Edges' |-> Edges'[x]]
    BY DEF Edges
  <2> QED BY <1>1, <1>4, <2>1
<1>6. Edges' = [Edges EXCEPT ![key] = e]
  BY <1>1, <1>5 DEF Edges
<1> QED BY <1>1, <1>6 DEF Map!Update

LEMMA StartPruneMaps ==
  ASSUME IInv, NEW S \in SUBSET Id, StartPrune(S)
  PROVE  Map!Prune(S)
  BY DEF StartPrune, Edges, Live, Map!Prune

LEMMA PruneStepStutters == IInv /\ PruneStep => UNCHANGED Edges
<1> SUFFICES ASSUME IInv, PruneStep PROVE Edges' = Edges
  OBVIOUS
<1>1. CASE Live(keys[i])
  BY <1>1 DEF PruneStep, Edges, Live
<1>2. CASE ~Live(keys[i])
  <2> DEFINE n == Len(keys)
  <2>1. /\ DOMAIN key_to_index' = DOMAIN key_to_index \ {keys[i]}
        /\ \A k \in DOMAIN key_to_index' :
             /\ key_to_index'[k] \in 1 .. n - 1
             /\ key_to_index[k] = IF key_to_index'[k] = i THEN n ELSE key_to_index'[k]
    BY <1>2, Relocation
  <2>2. /\ \A j \in 1 .. n - 1 :
              LET p == IF j = i THEN n ELSE j
              IN  states'[j] = states[p] /\ both_running_times'[j] = both_running_times[p]
        /\ pruning /\ pruning' /\ active' = active
    BY <1>2, Removal DEF prune_vars
  <2>3. DOMAIN Edges' = DOMAIN Edges
    BY <1>2, <2>1, <2>2 DEF Edges, Live
  <2>4. ASSUME NEW k \in DOMAIN Edges'
        PROVE  Edges'[k] = Edges[k]
    <3>1. k \in DOMAIN key_to_index'
      BY <2>4 DEF Edges
    <3>2. /\ states'[key_to_index'[k]] = states[key_to_index[k]]
          /\ both_running_times'[key_to_index'[k]] = both_running_times[key_to_index[k]]
      BY <2>1, <2>2, <3>1
    <3>3. Edges'[k] = [state |-> states'[key_to_index'[k]],
                       both_running_time |-> both_running_times'[key_to_index'[k]]]
      BY <2>4 DEF Edges
    <3> QED BY <2>3, <2>4, <3>2, <3>3, EdgesAre
  <2>5. /\ Edges' = [x \in DOMAIN Edges' |-> Edges'[x]]
        /\ Edges = [x \in DOMAIN Edges |-> Edges[x]]
    BY DEF Edges
  <2> QED BY <2>3, <2>4, <2>5
<1> QED BY <1>1, <1>2

LEMMA EndPruneStutters == IInv /\ EndPrune => UNCHANGED Edges
<1> SUFFICES ASSUME IInv, EndPrune PROVE Edges' = Edges
  OBVIOUS
<1>1. \A k \in DOMAIN key_to_index : Live(k)
  <2> SUFFICES ASSUME NEW k \in DOMAIN key_to_index PROVE Live(k)
    OBVIOUS
  <2>1. key_to_index[k] \in 1 .. Len(keys) /\ keys[key_to_index[k]] = k
    BY DEF IInv, IndexSound
  <2>2. Len(keys) \in Nat /\ i \in Nat /\ i > Len(keys)
    BY LenProperties DEF IInv, TypeOK, EndPrune
  <2>3. key_to_index[k] < i
    BY <2>1, <2>2
  <2> QED BY <2>1, <2>3 DEF IInv, PrunedBehind, EndPrune
<1> QED BY <1>1 DEF EndPrune, Edges

(***************************************************************************)
(* The parallel vectors behave as a map from edge keys to edges, from      *)
(* which a prune takes its edges at once (MarkovGraph).                    *)
(***************************************************************************)
THEOREM GraphIsAnEdgeMap == Spec => ImplementsEdgeMap
<1>1. Init => Map!Init
  BY DEF Init, Edges, Map!Init
<1>2. IInv /\ [Next]_vars => [Map!Next]_Edges
  <2> SUFFICES ASSUME IInv, [Next]_vars PROVE [Map!Next]_Edges
    OBVIOUS
  <2>1. ASSUME NEW a \in Id, NEW b \in Id, NEW e \in Edge, a # b, EnsureEdge(a, b, e)
        PROVE  Map!Next
    <3>1. Map!Ensure(EdgeKey(a, b), e)
      BY <2>1, EnsureEdgeMaps
    <3>2. EdgeKey(a, b) \in Id \X Id
      BY <2>1, EdgeKeyTyped DEF Key
    <3> QED BY <3>1, <3>2 DEF Map!Next
  <2>2. ASSUME NEW key \in Key, NEW e \in Edge, Write(key, e)
        PROVE  Map!Next
    BY <2>2, WriteMaps DEF Map!Next, Key
  <2>3. ASSUME NEW S \in SUBSET Id, StartPrune(S)
        PROVE  Map!Next
    BY <2>3, StartPruneMaps DEF Map!Next
  <2>4. CASE PruneStep
    BY <2>4, PruneStepStutters
  <2>5. CASE EndPrune
    BY <2>5, EndPruneStutters
  <2>6. CASE UNCHANGED vars
    BY <2>6 DEF vars, prune_vars, Edges, Live
  <2> QED BY <2>1, <2>2, <2>3, <2>4, <2>5, <2>6 DEF Next
<1>3. Init => IInv
  BY InitIInv
<1>4. IInv /\ [Next]_vars => IInv'
  BY NextIInv
<1> QED BY <1>1, <1>2, <1>3, <1>4, PTL DEF Spec, ImplementsEdgeMap, Map!Spec
==============================================================================
