---------------------------- MODULE StoresProofs ----------------------------
(* Machine-checked proofs about module Stores.                             *)
EXTENDS Stores, TLAPS

(***************************************************************************)
(* A saturating sum is a natural number no larger than the sum; below the  *)
(* limit it is no smaller than its first term.                             *)
(***************************************************************************)
LEMMA SatAddBounds ==
    ASSUME NEW m \in Nat, NEW n \in Nat
    PROVE  /\ SatAdd(m, n) \in Nat
           /\ SatAdd(m, n) <= m + n
           /\ m <= MaxTime => m <= SatAdd(m, n) /\ SatAdd(m, n) <= MaxTime
BY MaxTimeAssumption DEF SatAdd

(***************************************************************************)
(* Saturating addition is monotonic in both terms.                         *)
(***************************************************************************)
LEMMA SatAddMonotone ==
    ASSUME NEW m \in Nat, NEW n \in Nat, NEW p \in Nat, NEW q \in Nat,
           m <= p, n <= q
    PROVE  SatAdd(m, n) <= SatAdd(p, q)
BY MaxTimeAssumption DEF SatAdd

(***************************************************************************)
(* The key of an edge between two members of S joins two members of S in   *)
(* the order of their slots.                                               *)
(***************************************************************************)
LEMMA EdgeKeysOrdered ==
    ASSUME NEW x, NEW S, Distinct(x), S \subseteq DOMAIN x,
           \A e \in S : x[e].id \in Nat,
           NEW k \in EdgeKeys(x, S)
    PROVE  /\ k = <<k[1], k[2]>>
           /\ k[1] \in S /\ k[2] \in S
           /\ x[k[1]].id < x[k[2]].id
<1>1. PICK p \in S \X S : p[1] # p[2] /\ k = EdgeKey(x, p[1], p[2])
  BY DEF EdgeKeys
<1>2. p[1] \in S /\ p[2] \in S
  OBVIOUS
<1>3. x[p[1]].id # x[p[2]].id
  BY <1>1, <1>2 DEF Distinct
<1>4. CASE x[p[1]].id < x[p[2]].id
  BY <1>1, <1>2, <1>4 DEF EdgeKey
<1>5. CASE x[p[2]].id < x[p[1]].id
  <2>1. ~(x[p[1]].id < x[p[2]].id)
    BY <1>2, <1>5
  <2>. QED  BY <1>1, <1>2, <1>5, <2>1 DEF EdgeKey
<1>. QED  BY <1>2, <1>3, <1>4, <1>5

(***************************************************************************)
(* update_state leaves an edge in the new state and keeps the time that    *)
(* its ends ran together.                                                  *)
(***************************************************************************)
LEMMA UpdateStateType ==
    ASSUME NEW edge \in Edge, NEW s \in MarkovState, NEW now \in Nat
    PROVE  /\ UpdateState(edge, s, now) \in Edge
           /\ UpdateState(edge, s, now).state = s
           /\ UpdateState(edge, s, now).both_running_time = edge.both_running_time
<1>1. CASE s = edge.state
  BY <1>1 DEF UpdateState
<1>2. CASE s # edge.state
  <2>1. edge.transition_prob \cup {<<edge.state, s>>}
           \in SUBSET (MarkovState \X MarkovState)
    BY DEF Edge
  <2>. QED  BY <1>2, <2>1 DEF UpdateState, Edge
<1>. QED  BY <1>1, <1>2

-----------------------------------------------------------------------------
(***************************************************************************)
(* The invariant holds in every initial state.                             *)
(***************************************************************************)
LEMMA InitIInv == Init => IInv
<1>. SUFFICES ASSUME Init PROVE IInv
  OBVIOUS
<1>. USE DEF Init, NoEntries, EmptySnapshot
<1>1. TypeOK
  BY ConfigsAssumption, MaxTimeAssumption DEF TypeOK, PartialFcn, Time
<1>2. Distinct(exes) /\ NoOvercredit /\ CoRunningBounded /\ EdgeStateTracksRunning
  BY DEF Distinct, NoOvercredit, CoRunningBounded, EdgeStateTracksRunning
<1>3. EdgesAmongActive /\ LinksSound
  BY DEF EdgesAmongActive, LinksSound
<1>4. SnapshotSound
  BY DEF SnapshotSound, SnapshotLoads, Dangling, Distinct
<1>. QED  BY <1>1, <1>2, <1>3, <1>4 DEF IInv

-----------------------------------------------------------------------------
(***************************************************************************)
(* Applying an observation preserves the invariant.                        *)
(***************************************************************************)
LEMMA ApplyIInv ==
    ASSUME IInv,
           NEW running \in SUBSET Exe, NEW accepted \in SUBSET running,
           NEW links \in SUBSET (accepted \X config.allow),
           NEW ids \in SlotAssignments(accepted),
           ApplyWith(running, accepted, links, ids)
    PROVE  IInv'
<1>. DEFINE now == model_time
            period == Monus(now, last_accounting_time)
            stored == DOMAIN exes \cup accepted
            old(e) == IF e \in DOMAIN exes THEN exes[e].total_running_time ELSE 0
            Act == DOMAIN active'
            State(k) == FromRunning(k[1] \in running, k[2] \in running)
            touched == stored \cap running
            seen == [e \in DOMAIN active \cup touched |->
                       IF e \in touched THEN now ELSE active[e]]
            pruned == PruneInactive(markov, Act)
            Base(k) == IF k \in DOMAIN pruned THEN pruned[k] ELSE NewEdge(now, State(k))
            Credited(k) == [Base(k) EXCEPT !.both_running_time =
                              SatAdd(@, CoCredit(State(k), period))]
<1>1. /\ TypeOK /\ Distinct(exes) /\ NoOvercredit /\ CoRunningBounded
      /\ EdgeStateTracksRunning /\ EdgesAmongActive /\ LinksSound /\ SnapshotSound
  BY DEF IInv
<1>2. /\ now \in Nat /\ now \in Time /\ last_accounting_time \in Nat /\ period \in Nat
      /\ last_accounting_time + period = now
  BY <1>1 , MaxTimeAssumption DEF TypeOK, Time, Monus, NoOvercredit
<1>3. /\ model_time' = now /\ last_accounting_time' = now
      /\ config' = config /\ db' = db
      /\ maps' = maps \cup {l[2] : l \in links}
      /\ exe_maps' = exe_maps \cup links
  BY DEF ApplyWith, AccountFor
<1>4. /\ DOMAIN exes' = stored
      /\ stored \subseteq Exe
      /\ \A e \in stored :
            /\ exes'[e].id = ids[e]
            /\ exes'[e].running = (e \in running)
            /\ exes'[e].total_running_time
                 = SatAdd(old(e), IF e \in running THEN period ELSE 0)
            /\ exes'[e] \in [id : {ids[e]}, running : BOOLEAN,
                             total_running_time : {exes'[e].total_running_time},
                             last_seen_time : {now, exes[e].last_seen_time}]
            /\ e \notin DOMAIN exes => exes'[e].last_seen_time = now
  <2>1. exes' = [e \in stored |->
                   [id |-> ids[e], running |-> e \in running,
                    total_running_time |->
                      SatAdd(old(e), IF e \in running THEN period ELSE 0),
                    last_seen_time |->
                      IF e \in accepted THEN now ELSE exes[e].last_seen_time]]
    BY DEF ApplyWith
  <2>2. stored \subseteq Exe
    BY <1>1 DEF TypeOK, PartialFcn
  <2>. HIDE DEF old
  <2>. QED  BY <2>1, <2>2
<1>5. /\ \A e \in stored : ids[e] \in Nat
      /\ \A e \in DOMAIN exes : ids[e] = exes[e].id
      /\ \A e, f \in stored : ids[e] = ids[f] => e = f
  <2>. /\ ids \in [stored -> 1 .. Cardinality(stored)]
       /\ \A e \in DOMAIN exes : ids[e] = exes[e].id
       /\ \A e, f \in stored : ids[e] = ids[f] => e = f
    BY DEF SlotAssignments
  <2>1. \A i \in 1 .. Cardinality(stored) : i \in Nat
    OBVIOUS
  <2>. QED  BY <2>1
<1>6. \A e \in stored : old(e) \in Nat /\ old(e) <= last_accounting_time
  BY <1>1, <1>2 DEF TypeOK, PartialFcn, ExeRecord, NoOvercredit
<1>6a. \A e \in stored : /\ exes'[e].total_running_time \in Nat
                        /\ exes'[e].total_running_time <= now
  <2>1. SUFFICES ASSUME NEW e \in stored
        PROVE  /\ exes'[e].total_running_time \in Nat
               /\ exes'[e].total_running_time <= now
    OBVIOUS
  <2>. DEFINE extra == IF e \in running THEN period ELSE 0
              before == old(e)
  <2>2. exes'[e].total_running_time = SatAdd(before, extra)
    BY <1>4
  <2>3. extra \in Nat /\ extra <= period
    BY <1>2
  <2>4. before \in Nat /\ before <= last_accounting_time
    BY <1>6
  <2>. HIDE DEF extra, before
  <2>5. SatAdd(before, extra) \in Nat /\ SatAdd(before, extra) <= before + extra
    BY <2>3, <2>4, SatAddBounds
  <2>. HIDE DEF period
  <2>. QED  BY <1>2, <2>2, <2>3, <2>4, <2>5
<1>7. /\ active' = PruneActive(seen, now, config.active_window)
      /\ Act \subseteq stored
      /\ touched \subseteq Act
      /\ active' \in [Act -> Nat]
  <2>1. active' = PruneActive(seen, now, config.active_window)
    BY DEF ApplyWith
  <2>2. /\ Act = {x \in DOMAIN seen : Monus(now, seen[x]) <= config.active_window}
        /\ \A e \in Act : active'[e] = seen[e]
        /\ active' = [e \in Act |-> active'[e]]
    BY <2>1 DEF PruneActive
  <2>3. DOMAIN active \subseteq stored /\ active \in [DOMAIN active -> Nat]
    BY <1>1 DEF EdgesAmongActive, TypeOK, PartialFcn
  <2>4. \A e \in DOMAIN seen : seen[e] \in Nat
    BY <1>2, <2>3
  <2>5. \A e \in touched : seen[e] = now /\ Monus(now, now) = 0
    BY <1>2 DEF Monus
  <2>6. config.active_window \in Nat
    BY <1>1 DEF TypeOK, Config
  <2>7. touched \subseteq Act
    BY <2>2, <2>5, <2>6
  <2>. QED  BY <2>1, <2>2, <2>3, <2>4, <2>7
<1>8. /\ DOMAIN markov' = DOMAIN pruned \cup EdgeKeys(exes', Act)
      /\ \A k \in DOMAIN markov' : markov'[k] = UpdateState(Credited(k), State(k), now)
      /\ markov' = [k \in DOMAIN markov' |-> markov'[k]]
  BY DEF ApplyWith
<1>9. Distinct(exes')
  BY <1>4, <1>5 DEF Distinct
<1>10. /\ DOMAIN pruned \subseteq DOMAIN markov
       /\ \A k \in DOMAIN pruned : /\ pruned[k] = markov[k]
                                   /\ k[1] \in Act /\ k[2] \in Act
  BY DEF PruneInactive
<1>11. \A k \in DOMAIN markov' :
          /\ k \in Exe \X Exe
          /\ k[1] \in Act /\ k[2] \in Act
          /\ exes'[k[1]].id < exes'[k[2]].id
  <2>1. SUFFICES ASSUME NEW k \in DOMAIN markov'
        PROVE  /\ k \in Exe \X Exe
               /\ k[1] \in Act /\ k[2] \in Act
               /\ exes'[k[1]].id < exes'[k[2]].id
    OBVIOUS
  <2>2. CASE k \in DOMAIN pruned
    BY <2>2, <1>1, <1>4, <1>5, <1>10 DEF EdgeStateTracksRunning, TypeOK, PartialFcn
  <2>3. CASE k \in EdgeKeys(exes', Act)
    <3>1. /\ k = <<k[1], k[2]>>
          /\ k[1] \in Act /\ k[2] \in Act
          /\ exes'[k[1]].id < exes'[k[2]].id
      <4>1. \A e \in Act : exes'[e].id \in Nat
        BY <1>4, <1>5, <1>7
      <4>2. Act \subseteq DOMAIN exes'
        BY <1>4, <1>7
      <4>. QED  BY <1>9, <2>3, <4>1, <4>2, EdgeKeysOrdered
    <3>. QED  BY <3>1, <1>4, <1>7
  <2>. QED  BY <1>8, <2>2, <2>3
<1>12. \A k \in DOMAIN markov' :
          /\ State(k) \in MarkovState
          /\ State(k) = "Both" => k[1] \in running /\ k[2] \in running
          /\ Base(k) \in Edge
          /\ Base(k).both_running_time <= old(k[1])
          /\ Base(k).both_running_time <= old(k[2])
  <2>1. SUFFICES ASSUME NEW k \in DOMAIN markov'
        PROVE  /\ State(k) \in MarkovState
               /\ State(k) = "Both" => k[1] \in running /\ k[2] \in running
               /\ Base(k) \in Edge
               /\ Base(k).both_running_time <= old(k[1])
               /\ Base(k).both_running_time <= old(k[2])
    OBVIOUS
  <2>2. /\ State(k) \in MarkovState
        /\ State(k) = "Both" => k[1] \in running /\ k[2] \in running
    BY DEF FromRunning, MarkovState
  <2>3. k[1] \in stored /\ k[2] \in stored
    BY <1>7, <1>11
  <2>4. CASE k \in DOMAIN pruned
    <3>1. Base(k) = markov[k] /\ k \in DOMAIN markov
      BY <2>4, <1>10
    <3>2. markov[k] \in Edge
      BY <3>1, <1>1 DEF TypeOK, PartialFcn
    <3>3. /\ k[1] \in DOMAIN exes /\ k[2] \in DOMAIN exes
          /\ markov[k].both_running_time <= exes[k[1]].total_running_time
          /\ markov[k].both_running_time <= exes[k[2]].total_running_time
      BY <3>1, <1>1 DEF CoRunningBounded
    <3>. QED  BY <2>2, <3>1, <3>2, <3>3
  <2>5. CASE k \notin DOMAIN pruned
    <3>1. Base(k) = NewEdge(now, State(k))
      BY <2>5
    <3>2. NewEdge(now, State(k)) \in Edge /\ NewEdge(now, State(k)).both_running_time = 0
      BY <2>2, <1>2 DEF NewEdge, Edge
    <3>3. old(k[1]) >= 0 /\ old(k[2]) >= 0
      BY <1>6, <2>3
    <3>. QED  BY <2>2, <3>1, <3>2, <3>3
  <2>. QED  BY <2>4, <2>5
<1>13. \A k \in DOMAIN markov' :
          /\ markov'[k] \in Edge
          /\ markov'[k].state = State(k)
          /\ markov'[k].both_running_time <= exes'[k[1]].total_running_time
          /\ markov'[k].both_running_time <= exes'[k[2]].total_running_time
  <2>1. SUFFICES ASSUME NEW k \in DOMAIN markov'
        PROVE  /\ markov'[k] \in Edge
               /\ markov'[k].state = State(k)
               /\ markov'[k].both_running_time <= exes'[k[1]].total_running_time
               /\ markov'[k].both_running_time <= exes'[k[2]].total_running_time
    OBVIOUS
  <2>. DEFINE extra == CoCredit(State(k), period)
              base == Base(k)
  <2>2. /\ base \in Edge
        /\ base.both_running_time <= old(k[1])
        /\ base.both_running_time <= old(k[2])
        /\ State(k) \in MarkovState
        /\ State(k) = "Both" => k[1] \in running /\ k[2] \in running
    BY <1>12
  <2>3. extra \in Nat
    BY <1>2 DEF CoCredit
  <2>4. /\ Credited(k) = [base EXCEPT !.both_running_time = SatAdd(@, extra)]
    OBVIOUS
  <2>. HIDE DEF base, extra
  <2>5. /\ Credited(k) \in Edge
        /\ Credited(k).both_running_time = SatAdd(base.both_running_time, extra)
    BY <2>2, <2>3, <2>4, SatAddBounds DEF Edge
  <2>. HIDE DEF Credited
  <2>6. /\ markov'[k] \in Edge
        /\ markov'[k].state = State(k)
        /\ markov'[k].both_running_time = SatAdd(base.both_running_time, extra)
    BY <1>2, <1>8, <2>2, <2>5, UpdateStateType
  <2>7. \A i \in {1, 2} :
          /\ k[i] \in stored
          /\ exes'[k[i]].total_running_time
               = SatAdd(old(k[i]), IF k[i] \in running THEN period ELSE 0)
    BY <1>4, <1>7, <1>11
  <2>8. \A i \in {1, 2} : extra <= IF k[i] \in running THEN period ELSE 0
    <3>1. CASE State(k) = "Both"
      BY <1>2, <2>2, <3>1 DEF extra, CoCredit
    <3>2. CASE State(k) # "Both"
      BY <1>2, <3>2 DEF extra, CoCredit
    <3>. QED  BY <3>1, <3>2
  <2>9. base.both_running_time \in Nat
    BY <2>2 DEF Edge
  <2>10. \A i \in {1, 2} : old(k[i]) \in Nat /\ base.both_running_time <= old(k[i])
    BY <1>6, <2>2, <2>7
  <2>. HIDE DEF old
  <2>. QED  BY <1>2, <2>3, <2>6, <2>7, <2>8, <2>9, <2>10, SatAddMonotone
<1>. HIDE DEF State, Base, Credited, pruned, seen
<1>14. TypeOK'
  <2>1. exes' \in [stored -> ExeRecord]
    <3>1. \A e \in stored : exes'[e] \in ExeRecord
      <4>1. SUFFICES ASSUME NEW e \in stored PROVE exes'[e] \in ExeRecord
        OBVIOUS
      <4>2. exes'[e].last_seen_time \in Nat
        BY <1>1, <1>2, <1>4 DEF TypeOK, PartialFcn, ExeRecord
      <4>3. exes'[e].total_running_time \in Nat
        BY <1>6a
      <4>. QED  BY <1>4, <1>5, <4>2, <4>3 DEF ExeRecord
    <3>2. exes' = [e \in stored |-> exes'[e]]
      BY DEF ApplyWith
    <3>. QED  BY <3>1, <3>2
  <2>2. PartialFcn(exes, Exe, ExeRecord)'
    BY <1>4, <2>1 DEF PartialFcn
  <2>3. maps' \subseteq Map /\ exe_maps' \subseteq Exe \X Map
    <3>1. config.allow \subseteq Map
      BY <1>1 DEF TypeOK, Config
    <3>. QED  BY <1>1, <1>3, <3>1 DEF TypeOK
  <2>4. PartialFcn(markov, Exe \X Exe, Edge)'
    BY <1>8, <1>11, <1>13 DEF PartialFcn
  <2>5. PartialFcn(active, Exe, Nat)'
    BY <1>4, <1>7 DEF PartialFcn
  <2>. QED  BY <1>1, <1>2, <1>3, <2>2, <2>3, <2>4, <2>5 DEF TypeOK
<1>15. NoOvercredit'
  <2>1. \A e \in stored : exes'[e].total_running_time <= now
    BY <1>6a
  <2>. QED  BY <1>2, <1>3, <1>4, <2>1 DEF NoOvercredit
<1>16. CoRunningBounded'
  <2>1. \A k \in DOMAIN markov' : k[1] \in DOMAIN exes' /\ k[2] \in DOMAIN exes'
    BY <1>4, <1>7, <1>11
  <2>. QED  BY <1>13, <2>1 DEF CoRunningBounded
<1>17. EdgeStateTracksRunning'
  <2>1. \A k \in DOMAIN markov' : k[1] \in stored /\ k[2] \in stored
    BY <1>7, <1>11
  <2>2. \A e \in stored : exes'[e].running = (e \in running)
    BY <1>4
  <2>. QED  BY <1>4, <1>11, <1>13, <2>1, <2>2 DEF EdgeStateTracksRunning, State
<1>18. EdgesAmongActive'
  BY <1>4, <1>7, <1>11 DEF EdgesAmongActive
<1>19. LinksSound'
  <2>1. \A l \in exe_maps' : l[1] \in DOMAIN exes' /\ l[2] \in maps'
    BY <1>1, <1>3, <1>4 DEF LinksSound
  <2>2. ASSUME NEW m \in maps' PROVE \E e \in DOMAIN exes' : <<e, m>> \in exe_maps'
    <3>1. CASE m \in maps
      BY <3>1, <1>1, <1>3, <1>4 DEF LinksSound
    <3>2. CASE \E l \in links : m = l[2]
      <4>1. PICK l \in links : m = l[2]
        BY <3>2
      <4>2. l = <<l[1], m>> /\ l[1] \in accepted
        BY <4>1
      <4>. QED  BY <4>2, <1>3, <1>4
    <3>. QED  BY <1>3, <3>1, <3>2
  <2>. QED  BY <2>1, <2>2 DEF LinksSound
<1>20. SnapshotSound'
  BY <1>1, <1>3 DEF SnapshotSound, SnapshotLoads, Dangling, Distinct
<1>. QED  BY <1>9, <1>14, <1>15, <1>16, <1>17, <1>18, <1>19, <1>20 DEF IInv

(***************************************************************************)
(* The end of a tick, with the purge of the maps whose file is gone,       *)
(* preserves the invariant: a purge takes a map with all its attachments.  *)
(***************************************************************************)
LEMMA EndTickIInv ==
    ASSUME IInv, NEW gone \in SUBSET maps, EndTick(gone)
    PROVE  IInv'
<1>. USE DEF EndTick, MapsWithout, LinksWithout
<1>1. /\ TypeOK /\ Distinct(exes) /\ NoOvercredit /\ CoRunningBounded
      /\ EdgeStateTracksRunning /\ EdgesAmongActive /\ LinksSound /\ SnapshotSound
  BY DEF IInv
<1>2. model_time' \in Time /\ model_time <= model_time'
  BY <1>1 , MaxTimeAssumption, SatAddBounds DEF TypeOK, Config, Time
<1>3. TypeOK'
  BY <1>1, <1>2 DEF TypeOK, PartialFcn
<1>4. NoOvercredit'
  BY <1>1, <1>2 , MaxTimeAssumption DEF NoOvercredit, TypeOK, Time
<1>5. Distinct(exes)' /\ CoRunningBounded' /\ EdgeStateTracksRunning' /\ EdgesAmongActive'
  BY <1>1 DEF Distinct, CoRunningBounded, EdgeStateTracksRunning, EdgesAmongActive
<1>6. LinksSound'
  BY <1>1 DEF LinksSound
<1>7. SnapshotSound'
  BY <1>1 DEF SnapshotSound, SnapshotLoads, Dangling, Distinct
<1>. QED  BY <1>3, <1>4, <1>5, <1>6, <1>7 DEF IInv

(***************************************************************************)
(* A reload changes the configuration only.                                *)
(***************************************************************************)
LEMMA ReloadIInv ==
    ASSUME IInv, NEW c \in Configs, Reload(c)
    PROVE  IInv'
<1>. USE DEF Reload, store_vars, IInv
<1>1. TypeOK'
  BY ConfigsAssumption DEF TypeOK, PartialFcn
<1>2. /\ Distinct(exes)' /\ NoOvercredit' /\ CoRunningBounded'
      /\ EdgeStateTracksRunning' /\ EdgesAmongActive' /\ LinksSound'
  BY DEF Distinct, NoOvercredit, CoRunningBounded, EdgeStateTracksRunning,
         EdgesAmongActive, LinksSound
<1>3. SnapshotSound'
  BY DEF SnapshotSound, SnapshotLoads, Dangling, Distinct
<1>. QED  BY <1>1, <1>2, <1>3

(***************************************************************************)
(* What save writes is a sound snapshot of stores that satisfy the         *)
(* invariant.                                                              *)
(***************************************************************************)
LEMMA SaveIInv ==
    ASSUME IInv, Save
    PROVE  IInv'
<1>1. /\ TypeOK /\ Distinct(exes) /\ NoOvercredit /\ CoRunningBounded
      /\ EdgeStateTracksRunning /\ EdgesAmongActive /\ LinksSound /\ SnapshotSound
  BY DEF IInv
<1>2. UNCHANGED <<exes, maps, exe_maps, markov, active, model_time,
                  last_accounting_time, config>>
  BY DEF Save, store_vars
<1>3. /\ db'.model_time = model_time
      /\ db'.last_accounting_time = last_accounting_time
      /\ db'.maps = maps
      /\ db'.exe_maps = exe_maps
  BY <1>1 DEF Save, Snapshot, SavedExes, SavedRow, LinksSound
<1>4. /\ DOMAIN db'.exes = DOMAIN exes
      /\ \A e \in DOMAIN exes :
            /\ db'.exes[e].id = exes[e].id
            /\ db'.exes[e].total_running_time = exes[e].total_running_time
            /\ db'.exes[e] \in SavedExe
      /\ db'.exes = [e \in DOMAIN exes |-> db'.exes[e]]
  <2>1. db'.exes = [e \in DOMAIN exes |->
                      [id |-> exes[e].id,
                       total_running_time |-> exes[e].total_running_time,
                       last_seen_time |-> exes[e].last_seen_time]]
    BY DEF Save, Snapshot, SavedExes, SavedRow
  <2>2. \A e \in DOMAIN exes : exes[e] \in ExeRecord
    BY <1>1 DEF TypeOK, PartialFcn
  <2>3. ASSUME NEW e \in DOMAIN exes
        PROVE  /\ db'.exes[e].id = exes[e].id
               /\ db'.exes[e].total_running_time = exes[e].total_running_time
               /\ db'.exes[e] \in SavedExe
    <3>1. db'.exes[e] = [id |-> exes[e].id,
                         total_running_time |-> exes[e].total_running_time,
                         last_seen_time |-> exes[e].last_seen_time]
      BY <2>1
    <3>. QED  BY <2>2, <3>1 DEF ExeRecord, SavedExe
  <2>. QED  BY <2>1, <2>3
<1>5. /\ DOMAIN db'.markov_edges = DOMAIN markov
      /\ \A k \in DOMAIN markov :
            /\ db'.markov_edges[k].both_running_time = markov[k].both_running_time
            /\ db'.markov_edges[k] \in SavedEdge
      /\ db'.markov_edges = [k \in DOMAIN markov |-> db'.markov_edges[k]]
  <2>1. {x \in DOMAIN markov : x[1] \in DOMAIN exes /\ x[2] \in DOMAIN exes}
          = DOMAIN markov
    BY <1>1 DEF EdgeStateTracksRunning
  <2>2. db'.markov_edges = [k \in DOMAIN markov |->
                              [transition_prob |-> markov[k].transition_prob,
                               both_running_time |-> markov[k].both_running_time]]
    BY <2>1 DEF Save, Snapshot, SavedExes, SavedRow
  <2>3. \A k \in DOMAIN markov : markov[k] \in Edge
    BY <1>1 DEF TypeOK, PartialFcn
  <2>4. ASSUME NEW k \in DOMAIN markov
        PROVE  /\ db'.markov_edges[k].both_running_time = markov[k].both_running_time
               /\ db'.markov_edges[k] \in SavedEdge
    <3>1. db'.markov_edges[k] = [transition_prob |-> markov[k].transition_prob,
                                 both_running_time |-> markov[k].both_running_time]
      BY <2>2
    <3>. QED  BY <2>3, <3>1 DEF Edge, SavedEdge
  <2>. QED  BY <2>2, <2>4
<1>6. TypeOK'
  <2>1. PartialFcn(db.exes, Exe, SavedExe)'
    BY <1>1, <1>4 DEF TypeOK, PartialFcn
  <2>2. PartialFcn(db.markov_edges, Exe \X Exe, SavedEdge)'
    BY <1>1, <1>5 DEF TypeOK, PartialFcn
  <2>. QED  BY <1>1, <1>2, <1>3, <2>1, <2>2 DEF TypeOK, PartialFcn
<1>7. /\ Distinct(exes)' /\ NoOvercredit' /\ CoRunningBounded'
      /\ EdgeStateTracksRunning' /\ EdgesAmongActive' /\ LinksSound'
  BY <1>1, <1>2 DEF Distinct, NoOvercredit, CoRunningBounded,
     EdgeStateTracksRunning, EdgesAmongActive, LinksSound
<1>8. SnapshotSound'
  <2>1. SnapshotLoads'
    BY <1>1, <1>3, <1>4, <1>5 DEF SnapshotLoads, Dangling, LinksSound,
       EdgeStateTracksRunning
  <2>2. Distinct(db.exes)'
    BY <1>1, <1>4 DEF Distinct
  <2>3. /\ db'.last_accounting_time <= db'.model_time
        /\ \A e \in DOMAIN db'.exes :
              db'.exes[e].total_running_time <= db'.last_accounting_time
    BY <1>1, <1>3, <1>4 DEF NoOvercredit
  <2>4. \A k \in DOMAIN db'.markov_edges :
          /\ db'.exes[k[1]].id < db'.exes[k[2]].id
          /\ \A i \in {1, 2} : db'.markov_edges[k].both_running_time
                               <= db'.exes[k[i]].total_running_time
    BY <1>1, <1>4, <1>5 DEF CoRunningBounded, EdgeStateTracksRunning
  <2>5. \A m \in db'.maps : \E e \in DOMAIN db'.exes : <<e, m>> \in db'.exe_maps
    BY <1>1, <1>3, <1>4 DEF LinksSound
  <2>. QED  BY <2>1, <2>2, <2>3, <2>4, <2>5 DEF SnapshotSound
<1>. QED  BY <1>6, <1>7, <1>8 DEF IInv

(***************************************************************************)
(* The edges restored from a sound snapshot have the keys, the statistics  *)
(* and the orientation that the snapshot records.                          *)
(***************************************************************************)
LEMMA RestoredEdgesFaithful ==
    ASSUME TypeOK, SnapshotSound, NEW k \in DOMAIN RestoredEdges(db)
    PROVE  /\ k \in DOMAIN db.markov_edges
           /\ RestoredEdges(db)[k].state = "Neither"
           /\ RestoredEdges(db)[k].transition_prob = db.markov_edges[k].transition_prob
           /\ RestoredEdges(db)[k].both_running_time
                = db.markov_edges[k].both_running_time
           /\ RestoredEdges(db)[k] \in Edge
<1>1. PICK r \in DOMAIN db.markov_edges : k = EdgeKey(RestoredExes(db), r[1], r[2])
  BY DEF RestoredEdges
<1>2. /\ r = <<r[1], r[2]>>
      /\ r[1] \in DOMAIN db.exes /\ r[2] \in DOMAIN db.exes
      /\ db.exes[r[1]].id < db.exes[r[2]].id
  BY DEF TypeOK, PartialFcn, SnapshotSound, SnapshotLoads, Dangling
<1>3. /\ RestoredExes(db)[r[1]].id = db.exes[r[1]].id
      /\ RestoredExes(db)[r[2]].id = db.exes[r[2]].id
  BY <1>2 DEF RestoredExes
<1>4. k = r
  BY <1>1, <1>2, <1>3 DEF EdgeKey
<1>5. db.markov_edges[k] \in SavedEdge
  BY <1>4 DEF TypeOK, PartialFcn
<1>6. RestoredEdges(db)[k] =
        [NewEdge(db.model_time, "Neither") EXCEPT
           !.transition_prob = db.markov_edges[k].transition_prob,
           !.both_running_time = db.markov_edges[k].both_running_time]
  BY <1>4 DEF RestoredEdges, RestoredEdge, WithRecord
<1>7. NewEdge(db.model_time, "Neither") \in Edge
      /\ NewEdge(db.model_time, "Neither").state = "Neither"
  BY DEF NewEdge, Edge, MarkovState, TypeOK, Time
<1>. QED  BY <1>4, <1>5, <1>6, <1>7 DEF SavedEdge, Edge

(***************************************************************************)
(* A start from the snapshot in the repository establishes the invariant   *)
(* whatever the configuration.                                             *)
(***************************************************************************)
LEMMA LoadIInv ==
    ASSUME IInv, NEW c \in Configs, Load(c)
    PROVE  IInv'
<1>1. TypeOK /\ SnapshotSound
  BY DEF IInv
<1>2. /\ model_time' = db.model_time /\ last_accounting_time' = db.last_accounting_time
      /\ db' = db /\ config' = c
      /\ maps' = db.maps \cap c.allow
      /\ exe_maps' = {l \in db.exe_maps : l[2] \in maps'}
      /\ exes' = RestoredExes(db)
      /\ active' = RestoredActive(db, c.active_window)
      /\ markov' = PruneInactive(RestoredEdges(db), DOMAIN active')
  BY DEF Load, Admitted
<1>3. c \in Config
  BY ConfigsAssumption
<1>4. /\ DOMAIN exes' = DOMAIN db.exes
      /\ \A e \in DOMAIN exes' :
            /\ exes'[e].id = db.exes[e].id
            /\ exes'[e].total_running_time = db.exes[e].total_running_time
            /\ exes'[e].running = FALSE
            /\ exes'[e] \in ExeRecord
      /\ exes' = [e \in DOMAIN exes' |-> exes'[e]]
  <2>1. exes' = [e \in DOMAIN db.exes |->
                   [id |-> db.exes[e].id, running |-> FALSE,
                    total_running_time |-> db.exes[e].total_running_time,
                    last_seen_time |-> db.exes[e].last_seen_time]]
    BY <1>2 DEF RestoredExes
  <2>2. \A e \in DOMAIN db.exes : db.exes[e] \in SavedExe
    BY <1>1 DEF TypeOK, PartialFcn
  <2>3. ASSUME NEW e \in DOMAIN db.exes
        PROVE  /\ exes'[e].id = db.exes[e].id
               /\ exes'[e].total_running_time = db.exes[e].total_running_time
               /\ exes'[e].running = FALSE
               /\ exes'[e] \in ExeRecord
    <3>1. exes'[e] = [id |-> db.exes[e].id, running |-> FALSE,
                      total_running_time |-> db.exes[e].total_running_time,
                      last_seen_time |-> db.exes[e].last_seen_time]
      BY <2>1
    <3>. QED  BY <2>2, <3>1 DEF SavedExe, ExeRecord
  <2>. QED  BY <2>1, <2>3
<1>5. /\ DOMAIN active' \subseteq DOMAIN exes'
      /\ \A e \in DOMAIN active' : active'[e] = db.model_time
      /\ active' = [e \in DOMAIN active' |-> active'[e]]
  BY <1>2, <1>4 DEF RestoredActive
<1>6. /\ DOMAIN markov' \subseteq DOMAIN db.markov_edges
      /\ \A k \in DOMAIN markov' :
            /\ k[1] \in DOMAIN active' /\ k[2] \in DOMAIN active'
            /\ markov'[k].state = "Neither"
            /\ markov'[k].both_running_time = db.markov_edges[k].both_running_time
            /\ markov'[k] \in Edge
      /\ markov' = [k \in DOMAIN markov' |-> markov'[k]]
  <2>1. /\ DOMAIN markov' \subseteq DOMAIN RestoredEdges(db)
        /\ \A k \in DOMAIN markov' : /\ k[1] \in DOMAIN active'
                                     /\ k[2] \in DOMAIN active'
                                     /\ markov'[k] = RestoredEdges(db)[k]
        /\ markov' = [k \in DOMAIN markov' |-> markov'[k]]
    BY <1>2 DEF PruneInactive
  <2>2. \A k \in DOMAIN RestoredEdges(db) :
           /\ k \in DOMAIN db.markov_edges
           /\ RestoredEdges(db)[k].state = "Neither"
           /\ RestoredEdges(db)[k].both_running_time
                = db.markov_edges[k].both_running_time
           /\ RestoredEdges(db)[k] \in Edge
    BY <1>1, RestoredEdgesFaithful
  <2>. QED  BY <2>1, <2>2
<1>7. TypeOK'
  <2>1. PartialFcn(exes, Exe, ExeRecord)'
    BY <1>1, <1>4 DEF TypeOK, PartialFcn
  <2>2. PartialFcn(active, Exe, Nat)'
    BY <1>1, <1>4, <1>5 DEF TypeOK, PartialFcn, Time
  <2>3. PartialFcn(markov, Exe \X Exe, Edge)'
    BY <1>1, <1>6 DEF TypeOK, PartialFcn
  <2>. QED  BY <1>1, <1>2, <1>3, <2>1, <2>2, <2>3 DEF TypeOK, PartialFcn
<1>8. Distinct(exes)'
  BY <1>1, <1>4 DEF Distinct, SnapshotSound
<1>9. NoOvercredit'
  BY <1>1, <1>2, <1>4 DEF NoOvercredit, SnapshotSound
<1>10. \A k \in DOMAIN markov' : /\ k \in DOMAIN db.markov_edges
                                 /\ k[1] \in DOMAIN exes' /\ k[2] \in DOMAIN exes'
  BY <1>5, <1>6
<1>11. CoRunningBounded'
  BY <1>1, <1>4, <1>6, <1>10 DEF CoRunningBounded, SnapshotSound
<1>12. EdgeStateTracksRunning'
  <2>1. FromRunning(FALSE, FALSE) = "Neither"
    BY DEF FromRunning
  <2>. QED  BY <1>1, <1>4, <1>6, <1>10, <2>1 DEF EdgeStateTracksRunning, SnapshotSound
<1>13. EdgesAmongActive'
  BY <1>4, <1>5, <1>6 DEF EdgesAmongActive
<1>14. LinksSound'
  <2>1. \A l \in exe_maps' : l[1] \in DOMAIN exes' /\ l[2] \in maps'
    BY <1>1, <1>2, <1>4 DEF LinksSound, SnapshotSound, SnapshotLoads, Dangling
  <2>2. ASSUME NEW m \in maps' PROVE \E e \in DOMAIN exes' : <<e, m>> \in exe_maps'
    BY <1>1, <1>2, <1>4, <2>2 DEF SnapshotSound
  <2>. QED  BY <2>1, <2>2 DEF LinksSound
<1>15. SnapshotSound'
  BY <1>1, <1>2 DEF SnapshotSound, SnapshotLoads, Dangling, Distinct
<1>. QED  BY <1>7, <1>8, <1>9, <1>11, <1>12, <1>13, <1>14, <1>15 DEF IInv

-----------------------------------------------------------------------------
(***************************************************************************)
(* Every step of the specification preserves the invariant.                *)
(***************************************************************************)
LEMMA NextIInv == IInv /\ [Next]_vars => IInv'
<1>. SUFFICES ASSUME IInv, [Next]_vars PROVE IInv'
  OBVIOUS
<1>1. CASE Apply
  BY <1>1, ApplyIInv DEF Apply
<1>2. CASE \E gone \in SUBSET maps : EndTick(gone)
  BY <1>2, EndTickIInv
<1>3. CASE \E c \in Configs : Reload(c)
  BY <1>3, ReloadIInv
<1>4. CASE Save
  BY <1>4, SaveIInv
<1>5. CASE \E c \in Configs : Load(c)
  BY <1>5, LoadIInv
<1>6. CASE UNCHANGED vars
  <2>. USE <1>6 DEF vars, store_vars, IInv
  <2>1. TypeOK'
    BY DEF TypeOK, PartialFcn
  <2>2. /\ Distinct(exes)' /\ NoOvercredit' /\ CoRunningBounded'
        /\ EdgeStateTracksRunning' /\ EdgesAmongActive' /\ LinksSound'
    BY DEF Distinct, NoOvercredit, CoRunningBounded, EdgeStateTracksRunning,
           EdgesAmongActive, LinksSound
  <2>3. SnapshotSound'
    BY DEF SnapshotSound, SnapshotLoads, Dangling, Distinct
  <2>. QED  BY <2>1, <2>2, <2>3
<1>. QED  BY <1>1, <1>2, <1>3, <1>4, <1>5, <1>6 DEF Next

(***************************************************************************)
(* The inductive invariant: what every operation needs of the stores and   *)
(* of the snapshot to keep the properties below.                           *)
(***************************************************************************)
THEOREM Invariance == Spec => []IInv
<1>. QED  BY InitIInv, NextIInv, PTL DEF Spec

(***************************************************************************)
(* The stores and the snapshot always have their types.                    *)
(***************************************************************************)
THEOREM TypeCorrect == Spec => []TypeOK
<1>1. IInv => TypeOK
  BY DEF IInv
<1>. QED  BY Invariance, <1>1, PTL

(***************************************************************************)
(* No executable is ever credited a second of model time twice.            *)
(***************************************************************************)
THEOREM NeverOvercredited == Spec => []NoOvercredit
<1>1. IInv => NoOvercredit
  BY DEF IInv
<1>. QED  BY Invariance, <1>1, PTL

(***************************************************************************)
(* Co-running time never exceeds the running time of either executable.    *)
(***************************************************************************)
THEOREM CoRunningNeverExceeds == Spec => []CoRunningBounded
<1>1. IInv => CoRunningBounded
  BY DEF IInv
<1>. QED  BY Invariance, <1>1, PTL

(***************************************************************************)
(* Every edge agrees with the running flags of its two ends.               *)
(***************************************************************************)
THEOREM EdgeStatesAgree == Spec => []EdgeStateTracksRunning
<1>1. IInv => EdgeStateTracksRunning
  BY DEF IInv
<1>. QED  BY Invariance, <1>1, PTL

(***************************************************************************)
(* Edges join active executables, and what runs is active.                 *)
(***************************************************************************)
THEOREM OnlyActiveHaveEdges == Spec => []EdgesAmongActive
<1>1. IInv => EdgesAmongActive
  BY DEF IInv
<1>. QED  BY Invariance, <1>1, PTL

(***************************************************************************)
(* No attachment dangles and no stored map is unattached.                  *)
(***************************************************************************)
THEOREM LinksStaySound == Spec => []LinksSound
<1>1. IInv => LinksSound
  BY DEF IInv
<1>. QED  BY Invariance, <1>1, PTL

(***************************************************************************)
(* Whatever was saved can be loaded.                                       *)
(***************************************************************************)
THEOREM EverySnapshotLoads == Spec => []SnapshotLoads
<1>1. IInv => SnapshotLoads
  BY DEF IInv, SnapshotSound
<1>. QED  BY Invariance, <1>1, PTL

(***************************************************************************)
(* A restart gives back every learnt statistic that it keeps, under the    *)
(* orientation in which it was saved.                                      *)
(***************************************************************************)
THEOREM LearntSurvives == Spec => LearntSurvivesLoad
<1>. DEFINE Kept == (\E c \in Configs : Load(c)) =>
          \A k \in DOMAIN markov' :
              /\ k \in DOMAIN db.markov_edges
              /\ markov'[k].transition_prob = db.markov_edges[k].transition_prob
              /\ markov'[k].both_running_time = db.markov_edges[k].both_running_time
<1>1. ASSUME IInv PROVE Kept
  <2>1. SUFFICES ASSUME NEW c \in Configs, Load(c), NEW k \in DOMAIN markov'
        PROVE  /\ k \in DOMAIN db.markov_edges
               /\ markov'[k].transition_prob = db.markov_edges[k].transition_prob
               /\ markov'[k].both_running_time = db.markov_edges[k].both_running_time
    OBVIOUS
  <2>2. k \in DOMAIN RestoredEdges(db) /\ markov'[k] = RestoredEdges(db)[k]
    BY <2>1 DEF Load, PruneInactive
  <2>. QED  BY <1>1, <2>2, RestoredEdgesFaithful DEF IInv
<1>2. IInv /\ [Next]_vars => [Kept]_vars
  BY <1>1
<1>. HIDE DEF Kept
<1>3. Spec => [][Kept]_vars
  BY Invariance, <1>2, PTL DEF Spec
<1>. QED  BY <1>3 DEF LearntSurvivesLoad, Kept

(***************************************************************************)
(* No scan and no start brings in a map that the policy in force denies.   *)
(***************************************************************************)
THEOREM DeniedMapsStayOut == Spec => DeniedMapsNeverEnter
<1>. DEFINE Policed == /\ maps' \ maps \subseteq config'.allow
                       /\ (\E c \in Configs : Load(c)) => maps' \subseteq config'.allow
<1>1. ASSUME [Next]_vars PROVE [Policed]_vars
  <2>1. CASE Apply
    <3>1. ASSUME NEW running \in SUBSET Exe, NEW accepted \in SUBSET running,
                 NEW links \in SUBSET (accepted \X config.allow),
                 NEW ids \in SlotAssignments(accepted),
                 ApplyWith(running, accepted, links, ids)
          PROVE  maps' \ maps \subseteq config'.allow
      <4>1. maps' = maps \cup {l[2] : l \in links} /\ config' = config
        BY <3>1 DEF ApplyWith
      <4>. QED  BY <4>1
    <3>2. maps' \ maps \subseteq config'.allow
      BY <2>1, <3>1 DEF Apply
    <3>3. ASSUME NEW c \in Configs, Load(c) PROVE maps' \subseteq config'.allow
      BY <3>3 DEF Load, Admitted
    <3>. QED  BY <3>2, <3>3
  <2>2. ASSUME NEW c \in Configs, Load(c) PROVE Policed
    BY <2>2 DEF Load, Admitted
  <2>3. CASE \E gone \in SUBSET maps : EndTick(gone)
    BY <2>2, <2>3 DEF EndTick, MapsWithout
  <2>4. CASE \E c \in Configs : Reload(c)
    BY <2>2, <2>4 DEF Reload, store_vars
  <2>5. CASE Save
    BY <2>2, <2>5 DEF Save, store_vars
  <2>. QED  BY <1>1, <2>1, <2>2, <2>3, <2>4, <2>5 DEF Next
<1>. HIDE DEF Policed
<1>2. Spec => [][Policed]_vars
  BY <1>1, PTL DEF Spec
<1>. QED  BY <1>2 DEF DeniedMapsNeverEnter, Policed
=============================================================================
