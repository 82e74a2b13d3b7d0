--------------------------- MODULE PrefetcherProofs ---------------------------
(***************************************************************************)
(* For any set of maps, any files that come and go, any concurrencies and  *)
(* any reloads: while maps are prefetched one at a time, rebuilding the    *)
(* buffer for every result drops nothing, so every stale map of the plan   *)
(* is purged and there is one worker.                                      *)
(***************************************************************************)
EXTENDS Prefetcher, SequenceTheorems, FiniteSetTheorems, TLAPS

LEMMA WidthIsOne == ASSUME TypeOK, OneAtATime PROVE Width = 1
  BY NumbersAssumption DEF OneAtATime, TypeOK, Width

LEMMA WidthIsPositive == ASSUME TypeOK PROVE Width \in Nat \ {0}
  BY NumbersAssumption DEF TypeOK, Width

LEMMA NoElements == ToSet(<<>>) = {}
<1>1. DOMAIN <<>> = {}
  OBVIOUS
<1> QED BY <1>1 DEF ToSet

\* a sequence of at most one element ends behind its head
LEMMA SingleElement ==
  ASSUME NEW S, NEW s \in Seq(S), Len(s) <= 1, s # <<>>
  PROVE  ToSet(s) = {Head(s)} /\ Tail(s) = <<>> /\ Head(s) \in S
<1>1. Len(s) = 1
  <2>1. Len(s) \in Nat
    BY LenProperties
  <2>2. Len(s) # 0
    BY EmptySeq
  <2> QED BY <2>1, <2>2
<1>2. DOMAIN s = 1 .. 1 /\ Head(s) = s[1] /\ s[1] \in S
  <2>1. Head(s) = s[1]
    BY <1>1
  <2>2. DOMAIN s = 1 .. 1
    BY <1>1, LenProperties
  <2> QED BY <1>1, <2>1, <2>2, ElementOfSeq
<1>3. Tail(s) \in Seq(S) /\ Len(Tail(s)) = 0
  BY <1>1, HeadTailProperties
<1> QED BY <1>2, <1>3, EmptySeq DEF ToSet

\* the first task moves to the buffer and the others stay
LEMMA TakeOne ==
  ASSUME NEW S, NEW s \in Seq(S), s # <<>>
  PROVE  /\ SubSeq(s, 1, 1) \in Seq(S) /\ Len(SubSeq(s, 1, 1)) = 1
         /\ SubSeq(s, 2, Len(s)) \in Seq(S)
         /\ ToSet(s) = ToSet(SubSeq(s, 1, 1)) \cup ToSet(SubSeq(s, 2, Len(s)))
<1> DEFINE a == SubSeq(s, 1, 1)
           b == SubSeq(s, 2, Len(s))
<1>1. Len(s) \in Nat /\ Len(s) >= 1 /\ DOMAIN s = 1 .. Len(s)
  BY EmptySeq, LenProperties
<1>2. /\ a \in Seq(S) /\ Len(a) = 1 /\ DOMAIN a = 1 .. 1 /\ a[1] = s[1]
  BY <1>1, SubSeqProperties, LenProperties, Z3
<1>3. /\ b \in Seq(S) /\ Len(b) = Len(s) - 1 /\ DOMAIN b = 1 .. Len(s) - 1
      /\ \A i \in 1 .. Len(s) - 1 : b[i] = s[i + 1]
  BY <1>1, SubSeqProperties, LenProperties, Z3
<1>4. ASSUME NEW i \in DOMAIN s
      PROVE  s[i] \in ToSet(a) \cup ToSet(b)
  <2>1. CASE i = 1
    BY <2>1, <1>2 DEF ToSet
  <2>2. CASE i # 1
    <3>1. i - 1 \in 1 .. Len(s) - 1 /\ b[i - 1] = s[i]
      BY <2>2, <1>1, <1>3
    <3> QED BY <3>1, <1>3 DEF ToSet
  <2> QED BY <2>1, <2>2
<1>5. ToSet(a) \subseteq ToSet(s)
  BY <1>1, <1>2 DEF ToSet
<1>6. ASSUME NEW i \in DOMAIN b
      PROVE  b[i] \in ToSet(s)
  <2>1. i + 1 \in DOMAIN s /\ b[i] = s[i + 1]
    BY <1>1, <1>3
  <2> QED BY <2>1 DEF ToSet
<1>7. ToSet(s) \subseteq ToSet(a) \cup ToSet(b) /\ ToSet(b) \subseteq ToSet(s)
  BY <1>4, <1>6 DEF ToSet
<1> QED BY <1>2, <1>3, <1>5, <1>7

LEMMA ElementsTyped ==
  ASSUME NEW S, NEW s \in Seq(S) PROVE ToSet(s) \subseteq S
  BY ElementOfSeq, LenProperties DEF ToSet

\* a sequence cut in two has the elements of both parts and no others
LEMMA Cut ==
  ASSUME NEW S, NEW s \in Seq(S), NEW n \in 0 .. Len(s)
  PROVE  /\ SubSeq(s, 1, n) \in Seq(S) /\ SubSeq(s, n + 1, Len(s)) \in Seq(S)
         /\ ToSet(SubSeq(s, 1, n)) \subseteq ToSet(s)
         /\ ToSet(SubSeq(s, n + 1, Len(s))) \subseteq ToSet(s)
<1> DEFINE a == SubSeq(s, 1, n)
           b == SubSeq(s, n + 1, Len(s))
<1>1. Len(s) \in Nat /\ DOMAIN s = 1 .. Len(s)
  BY LenProperties
<1>2. /\ a \in Seq(S) /\ DOMAIN a = 1 .. n
      /\ \A i \in 1 .. n : a[i] = s[i]
  BY <1>1, SubSeqProperties, LenProperties, Z3
<1>3. /\ b \in Seq(S) /\ DOMAIN b = 1 .. Len(s) - n
      /\ \A i \in 1 .. Len(s) - n : b[i] = s[i + n]
  BY <1>1, SubSeqProperties, LenProperties, Z3
<1>4. ToSet(a) \subseteq ToSet(s)
  BY <1>1, <1>2 DEF ToSet
<1>5. ASSUME NEW i \in DOMAIN b PROVE b[i] \in ToSet(s)
  <2>1. i + n \in DOMAIN s /\ b[i] = s[i + n]
    BY <1>1, <1>3
  <2> QED BY <2>1 DEF ToSet
<1>6. ToSet(b) \subseteq ToSet(s)
  BY <1>5 DEF ToSet
<1> QED BY <1>2, <1>3, <1>4, <1>6

\* the head and the tail
LEMMA Split ==
  ASSUME NEW S, NEW s \in Seq(S), s # <<>>
  PROVE  /\ Head(s) \in S /\ Head(s) \in ToSet(s)
         /\ Tail(s) \in Seq(S) /\ ToSet(Tail(s)) \subseteq ToSet(s)
<1>1. Len(s) \in Nat /\ Len(s) >= 1 /\ DOMAIN s = 1 .. Len(s)
  BY EmptySeq, LenProperties
<1>2. Head(s) = s[1] /\ 1 \in DOMAIN s
  BY <1>1
<1>3. /\ Tail(s) \in Seq(S) /\ Head(s) \in S
      /\ DOMAIN Tail(s) = 1 .. Len(s) - 1
      /\ \A i \in 1 .. Len(s) - 1 : Tail(s)[i] = s[i + 1]
  BY <1>1, HeadTailProperties, LenProperties
<1>4. ASSUME NEW i \in DOMAIN Tail(s) PROVE Tail(s)[i] \in ToSet(s)
  <2>1. i + 1 \in DOMAIN s /\ Tail(s)[i] = s[i + 1]
    BY <1>1, <1>3
  <2> QED BY <2>1 DEF ToSet
<1>5. ToSet(Tail(s)) \subseteq ToSet(s)
  BY <1>4 DEF ToSet
<1> QED BY <1>2, <1>3, <1>5 DEF ToSet

LEMMA RunningFinite ==
  ASSUME TypeOK, NEW S \in SUBSET RunningIn(joined) PROVE Cardinality(S) \in Nat
<1>1. S \in SUBSET Map
  BY DEF RunningIn, TypeOK
<1> QED BY <1>1, MapAssumption, FS_Subset, FS_CardinalityType

-----------------------------------------------------------------------------
LEMMA InitHolds == Init => PrefetchInv
<1> SUFFICES ASSUME Init PROVE PrefetchInv
  OBVIOUS
<1>1. tasks \in Seq(Map) /\ buffered \in Seq(Map) /\ Len(buffered) = 0
  BY DEF Init
<1>2. TypeOK
  BY <1>1, NumbersAssumption DEF Init, TypeOK, NoWorkers, EmptyReport
<1>3. Pending = {}
  BY NoElements DEF Init, Pending, NoWorkers
<1>4. Tidy /\ NothingLost
  BY <1>1, <1>3 DEF Init, Tidy, NothingLost, NoWorkers
<1> QED BY <1>2, <1>4 DEF PrefetchInv

LEMMA StartTickKeeps == PrefetchInv /\ StartTick => PrefetchInv'
<1> SUFFICES ASSUME PrefetchInv, StartTick PROVE PrefetchInv'
  OBVIOUS
<1> USE DEF PrefetchInv
<1>1. PICK S \in SUBSET stored : tasks' \in TasksOf(S)
  BY DEF StartTick
<1>2. tasks' \in Seq(Map)
  <2>0. CASE concurrency = 0
    <3>1. tasks' = <<>>
      BY <1>1, <2>0 DEF TasksOf
    <3> QED BY <3>1, EmptySeq
  <2> SUFFICES ASSUME concurrency # 0 PROVE tasks' \in Seq(Map)
    BY <2>0
  <2>1. tasks' \in [1 .. Cardinality(S) -> S] /\ S \subseteq Map
    BY <1>1 DEF TasksOf, SetToSeqs, TypeOK
  <2>2. Cardinality(S) \in Nat
    BY <2>1, MapAssumption, FS_CardinalityType, FS_Subset
  <2>3. tasks' \in Seq(S)
    BY <2>1, <2>2
  <2> QED BY <2>1, <2>3, SeqMonotonic
<1>3. plan' = ToSet(tasks') /\ plan' \subseteq Map /\ missing' = plan' \ on_disk
  BY <1>2, ElementsTyped DEF StartTick
<1>4. TypeOK'
  BY <1>2, <1>3 DEF StartTick, TypeOK, EmptyReport
<1>5. buffered = <<>> /\ joined = NoWorkers
  <2>1. DOMAIN joined = {} /\ ToSet(buffered) = {}
    BY DEF Tidy, StartTick, Pending
  <2>2. CASE buffered # <<>>
    BY <2>1, <2>2, Split DEF TypeOK
  <2> QED BY <2>1, <2>2 DEF NoWorkers, TypeOK
<1>6. missing' \subseteq Pending'
  BY <1>3 DEF Pending
<1>7. concurrency = 0 => Pending' = {}
  BY <1>1, <1>5, NoElements DEF TasksOf, Pending, StartTick, NoWorkers
<1>8. Tidy'
  BY <1>3, <1>5, <1>7 DEF Tidy, StartTick, NoWorkers
<1>9. OneAtATime' => NothingLost'
  BY <1>5, <1>6 DEF NothingLost, StartTick, NoWorkers, OneAtATime
<1> QED BY <1>4, <1>8, <1>9

LEMMA FillKeeps == PrefetchInv /\ Fill => PrefetchInv'
<1> SUFFICES ASSUME PrefetchInv, Fill PROVE PrefetchInv'
  OBVIOUS
<1> USE DEF PrefetchInv
<1>1. tasks \in Seq(Map) /\ tasks # <<>> /\ Len(tasks) \in Nat /\ Len(tasks) >= 1
  BY EmptySeq, LenProperties DEF Fill, TypeOK
<1> DEFINE n == IF Width < Len(tasks) THEN Width ELSE Len(tasks)
<1>2. n \in 0 .. Len(tasks) /\ (Width = 1 => n = 1)
  <2>1. Width \in Nat \ {0}
    BY WidthIsPositive
  <2>2. \A w, k \in Nat \ {0} :
           LET l == IF w < k THEN w ELSE k
           IN  l \in 0 .. k /\ (w = 1 => l = 1)
    OBVIOUS
  <2>3. Len(tasks) \in Nat \ {0}
    BY <1>1
  <2> QED BY <2>1, <2>2, <2>3, Zenon
<1>3. buffered' = SubSeq(tasks, 1, n) /\ tasks' = SubSeq(tasks, n + 1, Len(tasks))
  BY DEF Fill, LeftAfter
<1> HIDE DEF n
<1>4. /\ buffered' \in Seq(Map) /\ tasks' \in Seq(Map)
      /\ ToSet(buffered') \subseteq ToSet(tasks) /\ ToSet(tasks') \subseteq ToSet(tasks)
  BY <1>1, <1>2, <1>3, Cut
<1>5. TypeOK'
  BY <1>4 DEF Fill, TypeOK
<1>6. Pending' \subseteq Pending /\ joined' = NoWorkers
  BY <1>4 DEF Pending, Fill, NoWorkers
<1>7. Tidy'
  BY <1>6 DEF Fill, Tidy, NoWorkers
<1>8. ASSUME OneAtATime' PROVE NothingLost'
  <2>1. OneAtATime /\ NothingLost
    BY <1>8 DEF OneAtATime, Fill
  <2>2. n = 1
    BY <1>2, <2>1, WidthIsOne
  <2>3. /\ Len(buffered') = 1
        /\ ToSet(tasks) = ToSet(buffered') \cup ToSet(tasks')
    BY <1>1, <1>3, <2>2, TakeOne
  <2>4. Pending' = Pending
    BY <2>3, <1>6, NoElements DEF Pending, Fill
  <2>5. \A x, y \in DOMAIN joined' : x = y
    BY <1>6 DEF NoWorkers
  <2>6. /\ pc' = pc /\ missing' = missing /\ report' = report
        /\ controls' = controls /\ detached' = detached
    BY DEF Fill
  <2> QED BY <2>1, <2>3, <2>4, <2>5, <2>6, <1>6 DEF NothingLost
<1> QED BY <1>5, <1>7, <1>8

(***************************************************************************)
(* When maps are prefetched one at a time, the block that yields is the    *)
(* only one in the buffer.                                                 *)
(***************************************************************************)
LEMMA YieldKeeps ==
  ASSUME PrefetchInv,
         NEW m \in Map, NEW outcome \in {"ok", "err"},
         Yield(m, outcome),
         m \in ToSet(buffered) \cup DOMAIN joined,
         OneAtATime => ToSet(buffered) \cup DOMAIN joined = {m},
         m \in missing => outcome # "ok",
         UNCHANGED <<stored, on_disk, pc, tasks, plan, missing, concurrency, controls>>
  PROVE  PrefetchInv'
<1> USE DEF PrefetchInv
<1>1. report' = Recorded(m, outcome) /\ buffered' = <<>> /\ joined' = NoWorkers
  BY DEF Yield
<1>2. Cardinality(RunningIn(joined) \ {m}) \in Nat
  BY RunningFinite
<1>3. detached' \in Nat
  BY <1>2 DEF Yield, TypeOK
<1>4. report'.failures = report.failures \cup (IF outcome = "ok" THEN {} ELSE {m})
  BY <1>1 DEF Recorded, TypeOK
<1>5. TypeOK'
  BY <1>1, <1>3 DEF TypeOK, Recorded, NoWorkers
<1>6. Pending' = ToSet(tasks)
  BY <1>1, NoElements DEF Pending, NoWorkers
<1>7. concurrency # 0 /\ pc # "idle"
  BY DEF Tidy, Pending
<1>8. Tidy'
  BY <1>1, <1>7 DEF Tidy, NoWorkers
<1>9. ASSUME OneAtATime' PROVE NothingLost'
  <2>1. OneAtATime /\ NothingLost
    BY <1>9 DEF OneAtATime
  <2>2. RunningIn(joined) \ {m} = {}
    BY <2>1 DEF RunningIn
  <2>3. detached' = detached
    <3>1. Cardinality(RunningIn(joined) \ {m}) = 0
      BY <2>2, FS_EmptySet
    <3> QED BY <3>1 DEF Yield, TypeOK
  <2>4. pc = "prefetch"
    BY <1>7 DEF TypeOK
  <2>5. missing' \subseteq Pending' \cup report'.failures
    BY <1>4, <1>6, <2>1, <2>4 DEF NothingLost, Pending
  <2> QED BY <1>1, <2>1, <2>3, <2>5 DEF NothingLost, NoWorkers
<1> QED BY <1>5, <1>8, <1>9

LEMMA PollKeeps == PrefetchInv /\ Poll => PrefetchInv'
<1> SUFFICES ASSUME PrefetchInv, Poll PROVE PrefetchInv'
  OBVIOUS
<1> USE DEF PrefetchInv
<1> DEFINE m == Head(buffered)
<1>1. /\ m \in Map /\ m \in ToSet(buffered)
      /\ Tail(buffered) \in Seq(Map) /\ ToSet(Tail(buffered)) \subseteq ToSet(buffered)
  BY Split DEF Poll, TypeOK
<1>2. concurrency # 0 /\ pc # "idle" /\ pc = "prefetch"
  BY <1>1 DEF Tidy, Pending, TypeOK
<1>3. ASSUME OneAtATime
      PROVE  /\ ToSet(buffered) = {m} /\ Tail(buffered) = <<>>
             /\ joined = NoWorkers /\ DOMAIN joined = {}
  <2>1. Len(buffered) <= 1 /\ buffered \in Seq(Map) /\ buffered # <<>>
    BY <1>3 DEF NothingLost, TypeOK, Poll
  <2>2. joined = NoWorkers
    BY <1>3 DEF NothingLost, Poll
  <2> QED BY <2>1, <2>2, SingleElement DEF NoWorkers
<1>4. ASSUME buffered' = Tail(buffered), UNCHANGED <<detached, report>>,
             joined' = [x \in DOMAIN joined \cup {m} |->
                          IF x = m THEN "running" ELSE joined[x]]
      PROVE  PrefetchInv'
  <2>1. TypeOK'
    BY <1>1, <1>4 DEF Poll, TypeOK
  <2>2. /\ DOMAIN joined' = DOMAIN joined \cup {m}
        /\ \A x \in DOMAIN joined' : joined'[x] = IF x = m THEN "running" ELSE joined[x]
    BY <1>4
  <2>3. \A x \in DOMAIN joined' \cap missing : joined'[x] # "ok"
    BY <2>2 DEF Tidy
  <2>4. Tidy'
    BY <1>2, <2>3 DEF Tidy, Poll
  <2>5. ASSUME OneAtATime' PROVE NothingLost'
    <3>1. OneAtATime /\ NothingLost
      BY <2>5 DEF OneAtATime, Poll
    <3>2. buffered' = <<>> /\ DOMAIN joined' = {m} /\ ToSet(buffered) = {m}
          /\ DOMAIN joined = {}
      BY <3>1, <1>3, <1>4, <2>2
    <3>3. Pending' = Pending
      BY <3>2, NoElements DEF Pending, Poll
    <3>4. Len(buffered') <= 1 /\ \A x, y \in DOMAIN joined' : x = y
      BY <3>2
    <3>5. /\ pc' = pc /\ missing' = missing /\ report' = report
          /\ controls' = controls /\ detached' = detached
      BY <1>4 DEF Poll
    <3> QED BY <3>1, <3>2, <3>3, <3>4, <3>5 DEF NothingLost
  <2> QED BY <2>1, <2>4, <2>5
<1>5. ASSUME NEW outcome \in Outcomes(m), Yield(m, outcome)
      PROVE  PrefetchInv'
  <2>1. outcome \in {"ok", "err"} /\ (m \in missing => outcome # "ok")
    BY DEF Outcomes, Tidy
  <2>2. OneAtATime => ToSet(buffered) \cup DOMAIN joined = {m}
    BY <1>3
  <2>3. UNCHANGED <<stored, on_disk, pc, tasks, plan, missing, concurrency, controls>>
    BY DEF Poll
  <2> QED BY <1>1, <1>5, <2>1, <2>2, <2>3, YieldKeeps
<1> QED BY <1>4, <1>5 DEF Poll

LEMMA WorkerEndsKeeps ==
  ASSUME PrefetchInv, NEW m \in DOMAIN joined, WorkerEnds(m)
  PROVE  PrefetchInv'
<1> USE DEF PrefetchInv
<1>1. PICK outcome \in Outcomes(m) : joined' = [joined EXCEPT ![m] = outcome]
  BY DEF WorkerEnds
<1>2. outcome \in {"ok", "err"} /\ (m \in missing => outcome # "ok")
  BY DEF Outcomes, Tidy
<1>3. /\ DOMAIN joined' = DOMAIN joined
      /\ joined' \in [DOMAIN joined' -> {"running", "ok", "err"}]
      /\ \A x \in DOMAIN joined : joined'[x] = IF x = m THEN outcome ELSE joined[x]
  BY <1>1, <1>2 DEF TypeOK
<1>4. TypeOK'
  BY <1>3 DEF WorkerEnds, TypeOK
<1>5. Pending' = Pending
  BY <1>3 DEF WorkerEnds, Pending
<1>6. Tidy'
  BY <1>2, <1>3, <1>5 DEF Tidy, WorkerEnds
<1>7. ASSUME OneAtATime' PROVE NothingLost'
  <2>1. OneAtATime /\ NothingLost
    BY <1>7 DEF OneAtATime, WorkerEnds
  <2>2. buffered = <<>>
    BY <2>1 DEF NothingLost, NoWorkers
  <2> QED BY <1>3, <1>5, <2>1, <2>2 DEF WorkerEnds, NothingLost
<1> QED BY <1>4, <1>6, <1>7

LEMMA WakeKeeps ==
  ASSUME PrefetchInv, NEW m \in DOMAIN joined, Wake(m)
  PROVE  PrefetchInv'
<1> USE DEF PrefetchInv
<1>1. m \in Map /\ joined[m] \in {"ok", "err"} /\ (m \in missing => joined[m] # "ok")
  BY DEF Wake, TypeOK, Tidy
<1>2. OneAtATime => ToSet(buffered) \cup DOMAIN joined = {m}
  BY NoElements DEF Wake, NothingLost
<1>3. UNCHANGED <<stored, on_disk, pc, tasks, plan, missing, concurrency, controls>>
  BY DEF Wake
<1> QED BY <1>1, <1>2, <1>3, YieldKeeps DEF Wake

LEMMA ControlKeeps == PrefetchInv /\ Control => PrefetchInv'
<1> SUFFICES ASSUME PrefetchInv, Control PROVE PrefetchInv'
  OBVIOUS
<1> USE DEF PrefetchInv
<1>1. Cardinality(RunningIn(joined)) \in Nat
  BY RunningFinite
<1>2. tasks' = <<>> /\ buffered' = <<>> /\ joined' = NoWorkers /\ pc' = "idle"
  BY DEF Control
<1>3. controls' \in 0 .. MaxControls /\ controls' # 0
  BY NumbersAssumption DEF Control, TypeOK
<1>4. TypeOK'
  BY <1>1, <1>2, <1>3 DEF Control, TypeOK, NoWorkers
<1>5. Pending' = {}
  BY <1>2, NoElements DEF Pending, NoWorkers
<1>6. Tidy' /\ NothingLost'
  BY <1>2, <1>3, <1>5 DEF Control, Tidy, NothingLost, NoWorkers
<1> QED BY <1>4, <1>6

LEMMA FinishKeeps == PrefetchInv /\ Finish => PrefetchInv'
<1> SUFFICES ASSUME PrefetchInv, Finish PROVE PrefetchInv'
  OBVIOUS
<1> USE DEF PrefetchInv
<1>1. TypeOK'
  BY DEF Finish, TypeOK
<1>2. Pending' = {}
  BY NoElements DEF Pending, Finish, NoWorkers
<1>3. Tidy' /\ (OneAtATime' => NothingLost')
  BY <1>2 DEF Finish, Tidy, NothingLost, OneAtATime
<1> QED BY <1>1, <1>3

\* steps that leave the tick alone: files and detached workers
LEMMA OtherStepsKeep ==
  ASSUME PrefetchInv, TypeOK',
         UNCHANGED <<pc, tasks, buffered, joined, report, concurrency, controls>>,
         missing' \subseteq missing, missing' \cap on_disk' = {},
         detached = 0 => detached' = 0
  PROVE  PrefetchInv'
<1>1. Pending' = Pending
  BY DEF Pending
<1>2. Tidy'
  BY <1>1 DEF PrefetchInv, Tidy
<1>3. OneAtATime' => NothingLost'
  BY <1>1 DEF PrefetchInv, OneAtATime, NothingLost
<1> QED BY <1>2, <1>3 DEF PrefetchInv

LEMMA NextKeeps == PrefetchInv /\ [Next]_vars => PrefetchInv'
<1> SUFFICES ASSUME PrefetchInv, [Next]_vars PROVE PrefetchInv'
  OBVIOUS
<1>1. CASE StartTick
  BY <1>1, StartTickKeeps
<1>2. CASE Fill
  BY <1>2, FillKeeps
<1>3. CASE Poll
  BY <1>3, PollKeeps
<1>4. CASE Finish
  BY <1>4, FinishKeeps
<1>5. CASE Control
  BY <1>5, ControlKeeps
<1>6. ASSUME NEW m \in DOMAIN joined, WorkerEnds(m) \/ Wake(m)
      PROVE  PrefetchInv'
  BY <1>6, WorkerEndsKeeps, WakeKeeps
<1>7. CASE DetachedEnds
  <2>1. TypeOK'
    BY <1>7 DEF DetachedEnds, TypeOK, PrefetchInv
  <2> QED BY <1>7, <2>1, OtherStepsKeep DEF DetachedEnds, PrefetchInv, Tidy
<1>8. CASE Observe
  <2>1. TypeOK'
    BY <1>8 DEF Observe, TypeOK, PrefetchInv
  <2> QED BY <1>8, <2>1, OtherStepsKeep DEF Observe, PrefetchInv, Tidy
<1>9. ASSUME NEW m \in Map, FileChanges(m)
      PROVE  PrefetchInv'
  <2>1. TypeOK'
    BY <1>9 DEF FileChanges, TypeOK, PrefetchInv
  <2>2. missing' \cap on_disk' = {} /\ missing' \subseteq missing
    BY <1>9 DEF FileChanges, PrefetchInv, Tidy
  <2> QED BY <1>9, <2>1, <2>2, OtherStepsKeep DEF FileChanges
<1>10. CASE UNCHANGED vars
  <2>1. TypeOK'
    BY <1>10 DEF vars, TypeOK, PrefetchInv
  <2> QED BY <1>10, <2>1, OtherStepsKeep DEF vars, PrefetchInv, Tidy
<1> QED
  BY <1>1, <1>2, <1>3, <1>4, <1>5, <1>6, <1>7, <1>8, <1>9, <1>10 DEF Next

\* the types, and what holds of a buffer of one place
LEMMA InvariantHolds == Spec => []PrefetchInv
<1>1. Init => PrefetchInv
  BY InitHolds
<1>2. PrefetchInv /\ [Next]_vars => PrefetchInv'
  BY NextKeeps
<1> QED BY <1>1, <1>2, PTL DEF Spec

(***************************************************************************)
(* With one place in the buffer, every completed tick purges the planned   *)
(* maps whose file is gone (execute_concurrent; PreloadEngine::tick).      *)
(***************************************************************************)
THEOREM StalePurged == Spec => OnePurgesStaleMaps
<1>1. PrefetchInv /\ [Next]_vars
        => [OneAtATime /\ Finish => missing \cap stored' = {}]_vars
  <2> SUFFICES ASSUME PrefetchInv, OneAtATime, Finish PROVE missing \cap stored' = {}
    OBVIOUS
  <2>1. Pending = {}
    BY NoElements DEF Finish, Pending, NoWorkers
  <2>2. missing \subseteq report.failures /\ missing \cap on_disk = {}
    BY <2>1 DEF Finish, PrefetchInv, Tidy, NothingLost
  <2>3. PICK found \in SUBSET on_disk : stored' = stored \ (report.failures \ found)
    BY DEF Finish, Purged
  <2> QED BY <2>2, <2>3
<1> QED BY <1>1, InvariantHolds, PTL DEF Spec, OnePurgesStaleMaps

(***************************************************************************)
(* With one place in the buffer and no control event that drops a tick,    *)
(* there never is a second worker (config: system.prefetch_concurrency).   *)
(***************************************************************************)
THEOREM SingleWorker == Spec => []OneWorker
<1>1. ASSUME PrefetchInv, OneAtATime, controls = 0 PROVE WorkersBounded
  <2>1. detached = 0 /\ \A m, n \in RunningIn(joined) : m = n
    BY <1>1 DEF PrefetchInv, NothingLost, RunningIn
  <2>2. Cardinality(RunningIn(joined)) \in {0, 1}
    <3>1. CASE RunningIn(joined) = {}
      BY <3>1, FS_EmptySet
    <3>2. CASE RunningIn(joined) # {}
      <4>1. PICK m : RunningIn(joined) = {m}
        BY <2>1, <3>2
      <4> QED BY <4>1, FS_Singleton
    <3> QED BY <3>1, <3>2
  <2>3. concurrency \in {0, 1}
    BY <1>1, NumbersAssumption DEF PrefetchInv, OneAtATime, TypeOK
  <2>4. CASE concurrency = 0
    <3>1. RunningIn(joined) = {}
      BY <1>1, <2>4 DEF PrefetchInv, Tidy, Pending, RunningIn
    <3> QED BY <2>1, <2>4, <3>1, FS_EmptySet DEF WorkersBounded
  <2>5. CASE concurrency = 1
    BY <2>1, <2>2, <2>5 DEF WorkersBounded
  <2> QED BY <2>3, <2>4, <2>5
<1>2. PrefetchInv => OneWorker
  BY <1>1 DEF OneWorker
<1> QED BY <1>2, InvariantHolds, PTL

-----------------------------------------------------------------------------
(* The report of a tick, and what is left of its plan                      *)

InHand  == Len(tasks) + Len(buffered) + Cardinality(DOMAIN joined)

\* no task is reported twice, at any concurrency
Counted ==
    /\ report.failures \cup Pending \subseteq plan
    /\ Settled + InHand <= Cardinality(plan)

Distinct(s) == \A j, k \in DOMAIN s : s[j] = s[k] => j = k

\* a task is in one place, at any concurrency
Apart ==
    /\ Distinct(tasks) /\ Distinct(buffered)
    /\ ToSet(tasks) \cap (ToSet(buffered) \cup DOMAIN joined) = {}
    /\ ToSet(buffered) \cap DOMAIN joined = {}
    /\ report.failures \cap Pending = {}

\* with one place in the buffer, a task that is not in hand is in the report
Complete ==
    OneAtATime /\ pc = "prefetch" => Cardinality(plan) <= Settled + Cardinality(Pending)

ReportInv == Counted /\ Apart /\ Complete

\* subsets of the maps can be counted
LEMMA MapsFinite ==
  ASSUME NEW S \in SUBSET Map PROVE IsFiniteSet(S) /\ Cardinality(S) \in Nat
  BY MapAssumption, FS_Subset, FS_CardinalityType

\* a set of one more element has at most one more
LEMMA OneMore ==
  ASSUME NEW S \in SUBSET Map, NEW m \in Map
  PROVE  /\ Cardinality(S \cup {m}) <= Cardinality(S) + 1
         /\ m \notin S => Cardinality(S \cup {m}) = Cardinality(S) + 1
<1>1. IsFiniteSet(S) /\ Cardinality(S) \in Nat
  BY MapsFinite
<1>2. Cardinality(S \cup {m}) = IF m \in S THEN Cardinality(S) ELSE Cardinality(S) + 1
  BY <1>1, FS_AddElement
<1> QED BY <1>1, <1>2

LEMMA PlacesTyped ==
  ASSUME TypeOK
  PROVE  /\ Len(tasks) \in Nat /\ Len(buffered) \in Nat
         /\ Cardinality(DOMAIN joined) \in Nat /\ Settled \in Nat
         /\ Cardinality(plan) \in Nat /\ Pending \subseteq Map
<1>1. Len(tasks) \in Nat /\ Len(buffered) \in Nat
  BY LenProperties DEF TypeOK
<1>2. /\ Cardinality(DOMAIN joined) \in Nat /\ Cardinality(report.failures) \in Nat
      /\ Cardinality(plan) \in Nat
  BY MapsFinite DEF TypeOK
<1>3. report.num_maps \in Nat
  BY DEF TypeOK
<1>4. Settled \in Nat
  BY <1>2, <1>3 DEF Settled
<1>5. Pending \subseteq Map
  BY ElementsTyped DEF Pending, TypeOK
<1> QED BY <1>1, <1>2, <1>4, <1>5

\* a task that is polled leaves the buffer
LEMMA DistinctTail ==
  ASSUME NEW S, NEW s \in Seq(S), s # <<>>, Distinct(s)
  PROVE  Distinct(Tail(s)) /\ Head(s) \notin ToSet(Tail(s))
<1>1. Len(s) \in Nat /\ Len(s) >= 1 /\ DOMAIN s = 1 .. Len(s)
  BY EmptySeq, LenProperties
<1>2. Head(s) = s[1] /\ 1 \in DOMAIN s
  BY <1>1
<1>3. /\ DOMAIN Tail(s) = 1 .. Len(s) - 1
      /\ \A i \in 1 .. Len(s) - 1 : Tail(s)[i] = s[i + 1]
  BY <1>1, HeadTailProperties, LenProperties
<1>4. ASSUME NEW i \in DOMAIN Tail(s) PROVE i + 1 \in DOMAIN s /\ i + 1 # 1 /\ i \in Int
  BY <1>1, <1>3
<1>5. ASSUME NEW j \in DOMAIN Tail(s), NEW k \in DOMAIN Tail(s), Tail(s)[j] = Tail(s)[k]
      PROVE  j = k
  <2>1. j + 1 = k + 1
    BY <1>3, <1>4, <1>5 DEF Distinct
  <2> QED BY <1>4, <2>1
<1>6. ASSUME NEW i \in DOMAIN Tail(s) PROVE Tail(s)[i] # Head(s)
  BY <1>2, <1>3, <1>4 DEF Distinct
<1> QED BY <1>5, <1>6 DEF Distinct, ToSet

\* nothing is in hand
LEMMA NothingInHand ==
  ASSUME tasks = <<>>, buffered = <<>>, joined = NoWorkers
  PROVE  Pending = {} /\ InHand = 0
<1>1. DOMAIN joined = {} /\ Cardinality(DOMAIN joined) = 0
  BY FS_EmptySet DEF NoWorkers
<1>2. Pending = {}
  BY <1>1, NoElements DEF Pending
<1>3. Len(tasks) = 0 /\ Len(buffered) = 0
  OBVIOUS
<1> QED BY <1>1, <1>2, <1>3 DEF InHand

LEMMA InitReport == Init => ReportInv
<1> SUFFICES ASSUME Init PROVE ReportInv
  OBVIOUS
<1>1. Pending = {} /\ InHand = 0
  BY NothingInHand DEF Init
<1>2. Settled = 0 /\ Cardinality(plan) = 0
  BY FS_EmptySet DEF Init, EmptyReport, Settled
<1>3. Counted
  BY <1>1, <1>2 DEF Counted, Init, EmptyReport
<1>4. Apart
  BY <1>1, NoElements DEF Apart, Distinct, Init, EmptyReport
<1>5. Complete
  BY DEF Complete, Init
<1> QED BY <1>3, <1>4, <1>5 DEF ReportInv

\* the plan has a task for each of its maps
LEMMA StartTickReport ==
  ASSUME PrefetchInv, StartTick PROVE ReportInv'
<1>1. PrefetchInv' /\ TypeOK'
  BY StartTickKeeps DEF PrefetchInv
<1>2. Pending = {} /\ buffered' = buffered /\ joined' = joined /\ TypeOK
  BY DEF PrefetchInv, Tidy, StartTick
<1>3. ToSet(buffered') = {} /\ DOMAIN joined' = {} /\ buffered' = <<>>
  <2>1. ToSet(buffered) = {} /\ DOMAIN joined = {}
    BY <1>2 DEF Pending
  <2>2. buffered = <<>>
    BY <1>2, <2>1, Split DEF TypeOK
  <2> QED BY <1>2, <2>1, <2>2
<1>4. plan' = ToSet(tasks') /\ Pending' = plan' /\ report' = EmptyReport
  BY <1>3 DEF StartTick, Pending
<1>5. PICK S \in SUBSET stored : tasks' \in TasksOf(S)
  BY DEF StartTick
<1>6. /\ Len(tasks') = Cardinality(plan')
      /\ \A j, k \in DOMAIN tasks' : tasks'[j] = tasks'[k] => j = k
  <2>1. CASE concurrency = 0
    <3>1. tasks' = <<>>
      BY <1>5, <2>1 DEF TasksOf
    <3> QED BY <3>1, <1>4, NoElements, FS_EmptySet
  <2>2. CASE concurrency # 0
    <3>1. S \subseteq Map
      BY <1>2 DEF TypeOK
    <3>2. Cardinality(S) \in Nat
      BY <3>1, MapsFinite
    <3> DEFINE D == 1 .. Cardinality(S)
    <3>3. /\ tasks' \in [D -> S]
          /\ \A j, k \in D : j # k => tasks'[j] # tasks'[k]
      BY <1>5, <2>2 DEF TasksOf, SetToSeqs
    <3>4. Len(tasks') = Cardinality(S)
      BY <3>2, <3>3
    <3>5. \A j, k \in DOMAIN tasks' : tasks'[j] = tasks'[k] => j = k
      BY <3>3
    <3>6. tasks' \in Bijection(D, ToSet(tasks'))
      BY <3>3, <3>5 DEF ToSet, Bijection, Injection, Surjection, IsInjective
    <3>7. Cardinality(ToSet(tasks')) = Cardinality(S)
      <4>1. IsFiniteSet(D) /\ Cardinality(D) = Cardinality(S)
        BY <3>2, FS_Interval
      <4>2. ExistsBijection(D, ToSet(tasks'))
        BY <3>6 DEF ExistsBijection
      <4> QED BY <4>1, <4>2, FS_Bijection
    <3> QED BY <1>4, <3>4, <3>5, <3>7
  <2> QED BY <2>1, <2>2
<1>7. Settled' = 0
  BY <1>4, FS_EmptySet DEF Settled, EmptyReport
<1>8. InHand' = Cardinality(plan') /\ Cardinality(plan') \in Nat
  <2>1. Len(buffered') = 0 /\ Cardinality(DOMAIN joined') = 0
    BY <1>3, FS_EmptySet
  <2>2. Cardinality(plan') \in Nat
    BY <1>1, MapsFinite DEF TypeOK
  <2> QED BY <1>6, <2>1, <2>2 DEF InHand
<1>9. Counted'
  BY <1>4, <1>7, <1>8 DEF Counted, EmptyReport
<1>10. Apart'
  BY <1>3, <1>4, <1>6 DEF Apart, Distinct, EmptyReport
<1>11. Complete'
  BY <1>4, <1>7, <1>8 DEF Complete
<1> QED BY <1>9, <1>10, <1>11 DEF ReportInv

\* tasks go from the stream to the buffer, each once
LEMMA FillReport ==
  ASSUME PrefetchInv, ReportInv, Fill PROVE ReportInv'
<1>1. tasks \in Seq(Map) /\ tasks # <<>> /\ Len(tasks) \in Nat \ {0} /\ TypeOK
  BY EmptySeq, LenProperties DEF Fill, TypeOK, PrefetchInv
<1> DEFINE n == IF Width < Len(tasks) THEN Width ELSE Len(tasks)
<1>2. n \in 0 .. Len(tasks) /\ (Width = 1 => n = 1)
  <2>1. Width \in Nat \ {0}
    BY <1>1, WidthIsPositive
  <2>2. \A w, k \in Nat \ {0} :
           LET l == IF w < k THEN w ELSE k
           IN  l \in 0 .. k /\ (w = 1 => l = 1)
    OBVIOUS
  <2> QED BY <1>1, <2>1, <2>2, Zenon
<1>3. buffered' = SubSeq(tasks, 1, n) /\ tasks' = SubSeq(tasks, n + 1, Len(tasks))
  BY DEF Fill, LeftAfter
<1> HIDE DEF n
<1>4. /\ UNCHANGED <<joined, report, plan, pc, concurrency>>
      /\ buffered = <<>> /\ joined = NoWorkers
  BY DEF Fill
<1>5. /\ Len(buffered') = n /\ Len(tasks') = Len(tasks) - n
      /\ DOMAIN buffered' = 1 .. n /\ DOMAIN tasks' = 1 .. Len(tasks) - n
      /\ \A j \in 1 .. n : buffered'[j] = tasks[j]
      /\ \A j \in 1 .. Len(tasks) - n : tasks'[j] = tasks[j + n]
      /\ DOMAIN tasks = 1 .. Len(tasks)
  BY <1>1, <1>2, <1>3, SubSeqProperties, LenProperties, Z3
<1>6. Pending' \subseteq Pending
  BY <1>1, <1>2, <1>3, <1>4, Cut DEF Pending
<1>7. InHand' = InHand /\ Settled' = Settled
  <2>1. Len(buffered) = 0 /\ Cardinality(DOMAIN joined) = 0
    BY <1>4, FS_EmptySet DEF NoWorkers
  <2> QED BY <1>1, <1>2, <1>4, <1>5, <2>1 DEF InHand, Settled
<1>8. Counted'
  BY <1>4, <1>6, <1>7 DEF ReportInv, Counted
<1>9. Apart'
  <2>1. \A j, k \in DOMAIN tasks : tasks[j] = tasks[k] => j = k
    BY DEF ReportInv, Apart, Distinct
  <2>2. ASSUME NEW j \in DOMAIN tasks', NEW k \in DOMAIN tasks', tasks'[j] = tasks'[k]
        PROVE  j = k
    <3>1. j + n \in DOMAIN tasks /\ k + n \in DOMAIN tasks /\ j \in Int /\ k \in Int
      BY <1>1, <1>2, <1>5
    <3>2. tasks[j + n] = tasks[k + n]
      BY <1>5, <2>2
    <3> QED BY <1>2, <2>1, <3>1, <3>2
  <2>3. ASSUME NEW j \in DOMAIN tasks', NEW k \in DOMAIN buffered'
        PROVE  tasks'[j] # buffered'[k]
    <3>1. /\ j + n \in DOMAIN tasks /\ k \in DOMAIN tasks /\ j + n # k
      BY <1>1, <1>2, <1>5
    <3>2. tasks'[j] = tasks[j + n] /\ buffered'[k] = tasks[k]
      BY <1>5
    <3> QED BY <2>1, <3>1, <3>2
  <2>4. ToSet(tasks') \cap ToSet(buffered') = {}
    BY <2>3 DEF ToSet
  <2>5. DOMAIN joined' = {}
    BY <1>4 DEF NoWorkers
  <2>6. report.failures \cap Pending = {}
    BY DEF ReportInv, Apart
  <2>7. Distinct(tasks') /\ Distinct(buffered')
    <3>1. \A j \in DOMAIN buffered' : j \in DOMAIN tasks /\ buffered'[j] = tasks[j]
      BY <1>1, <1>2, <1>5
    <3> QED BY <2>1, <2>2, <3>1 DEF Distinct
  <2> QED BY <1>4, <1>6, <2>4, <2>5, <2>6, <2>7 DEF Apart
<1>10. Complete'
  <2>1. ASSUME OneAtATime PROVE Pending' = Pending
    <3>1. n = 1
      BY <1>1, <1>2, <2>1, WidthIsOne
    <3>2. ToSet(tasks) = ToSet(buffered') \cup ToSet(tasks')
      BY <1>1, <1>3, <3>1, TakeOne
    <3> QED BY <1>4, <3>2, NoElements DEF Pending
  <2>2. OneAtATime' <=> OneAtATime
    BY <1>4 DEF OneAtATime
  <2> QED BY <1>4, <1>7, <2>1, <2>2 DEF ReportInv, Complete
<1> QED BY <1>8, <1>9, <1>10 DEF ReportInv

(***************************************************************************)
(* A result that is yielded is reported once, and takes at least its own   *)
(* place.                                                                  *)
(***************************************************************************)
LEMMA YieldReport ==
  ASSUME PrefetchInv, ReportInv,
         NEW m \in Map, NEW outcome \in {"ok", "err"},
         Yield(m, outcome),
         m \in ToSet(buffered) \cup DOMAIN joined,
         OneAtATime => ToSet(buffered) \cup DOMAIN joined = {m},
         UNCHANGED <<pc, tasks, plan, concurrency>>
  PROVE  ReportInv' /\ Len(buffered') + Cardinality(DOMAIN joined')
                         <= Len(buffered) + Cardinality(DOMAIN joined) - 1
<1>1. /\ report' = Recorded(m, outcome) /\ buffered' = <<>> /\ joined' = NoWorkers
      /\ DOMAIN joined' = {} /\ Cardinality(DOMAIN joined') = 0 /\ Len(buffered') = 0
  BY FS_EmptySet DEF Yield, NoWorkers
<1>2. /\ Len(tasks) \in Nat /\ Len(buffered) \in Nat /\ Cardinality(DOMAIN joined) \in Nat
      /\ Settled \in Nat /\ Cardinality(plan) \in Nat /\ TypeOK /\ Pending \subseteq Map
  BY PlacesTyped DEF PrefetchInv
<1>3. Len(buffered) + Cardinality(DOMAIN joined) >= 1
  <2>1. CASE m \in ToSet(buffered)
    <3>1. buffered # <<>>
      BY <2>1, NoElements
    <3>2. Len(buffered) # 0
      BY <1>2, <3>1, EmptySeq DEF TypeOK
    <3> QED BY <1>2, <3>2
  <2>2. CASE m \in DOMAIN joined
    <3>1. IsFiniteSet(DOMAIN joined) /\ DOMAIN joined # {}
      BY <1>2, <2>2, MapsFinite DEF TypeOK
    <3>2. Cardinality(DOMAIN joined) # 0
      BY <3>1, FS_EmptySet
    <3> QED BY <1>2, <3>2
  <2> QED BY <2>1, <2>2
<1>4. m \in Pending /\ m \notin report.failures /\ m \notin ToSet(tasks)
  BY DEF ReportInv, Apart, Pending
<1>5. Settled' = Settled + 1
  <2>1. report.num_maps \in Nat /\ report.failures \subseteq Map
    BY <1>2 DEF TypeOK
  <2>2. Cardinality(report.failures \cup {m}) = Cardinality(report.failures) + 1
    BY <1>4, <2>1, OneMore
  <2>3. Cardinality(report.failures) \in Nat
    BY <2>1, MapsFinite
  <2>4. CASE outcome = "ok"
    <3>1. report'.num_maps = report.num_maps + 1 /\ report'.failures = report.failures
      BY <1>1, <1>2, <2>4 DEF Recorded, TypeOK
    <3> QED BY <2>1, <2>3, <3>1 DEF Settled
  <2>5. CASE outcome = "err"
    <3>1. /\ report'.num_maps = report.num_maps
          /\ report'.failures = report.failures \cup {m}
      BY <1>1, <1>2, <2>5 DEF Recorded, TypeOK
    <3> QED BY <2>1, <2>2, <2>3, <3>1 DEF Settled
  <2> QED BY <2>4, <2>5
<1>6. report'.failures \subseteq report.failures \cup {m}
  BY <1>1, <1>2 DEF Recorded, TypeOK
<1>7. Pending' = ToSet(tasks)
  BY <1>1, NoElements DEF Pending
<1>8. Counted'
  <2>1. report'.failures \cup Pending' \subseteq plan'
    BY <1>4, <1>6, <1>7 DEF ReportInv, Counted, Pending
  <2>2. InHand' <= InHand - 1
    BY <1>1, <1>2, <1>3 DEF InHand
  <2>3. InHand' \in Int /\ InHand \in Int
    BY <1>1, <1>2 DEF InHand
  <2> QED BY <1>2, <1>5, <2>1, <2>2, <2>3 DEF ReportInv, Counted
<1>9. Apart'
  <2>1. report'.failures \cap Pending' = {}
    BY <1>4, <1>6, <1>7 DEF ReportInv, Apart, Pending
  <2>2. ToSet(buffered') = {}
    BY <1>1, NoElements
  <2>3. Distinct(tasks') /\ Distinct(buffered')
    BY <1>1 DEF ReportInv, Apart, Distinct
  <2> QED BY <1>1, <2>1, <2>2, <2>3 DEF Apart
<1>10. Complete'
  <2> SUFFICES ASSUME OneAtATime, pc = "prefetch"
               PROVE  Cardinality(plan) <= Settled' + Cardinality(Pending')
    BY DEF Complete, OneAtATime
  <2>1. Pending = Pending' \cup {m} /\ Pending' \subseteq Map
    BY <1>2, <1>7 DEF Pending
  <2>2. /\ Cardinality(Pending) <= Cardinality(Pending') + 1
        /\ Cardinality(Pending') \in Nat /\ Cardinality(Pending) \in Nat
    BY <1>2, <2>1, OneMore, MapsFinite
  <2>3. Cardinality(plan) <= Settled + Cardinality(Pending)
    BY DEF ReportInv, Complete
  <2> QED BY <1>2, <1>5, <2>2, <2>3
<1> QED BY <1>1, <1>2, <1>3, <1>8, <1>9, <1>10 DEF ReportInv

LEMMA PollReport ==
  ASSUME PrefetchInv, ReportInv, Poll PROVE ReportInv'
<1> DEFINE m == Head(buffered)
<1>1. /\ Len(tasks) \in Nat /\ Len(buffered) \in Nat /\ Cardinality(DOMAIN joined) \in Nat
      /\ Settled \in Nat /\ Cardinality(plan) \in Nat /\ TypeOK /\ Pending \subseteq Map
  BY PlacesTyped DEF PrefetchInv
<1>2. /\ m \in Map /\ m \in ToSet(buffered) /\ ToSet(Tail(buffered)) \subseteq ToSet(buffered)
      /\ buffered # <<>>
  BY <1>1, Split DEF Poll, TypeOK
<1>3. UNCHANGED <<pc, tasks, plan, concurrency>>
  BY DEF Poll
<1>4. OneAtATime => ToSet(buffered) = {m} /\ DOMAIN joined = {}
  <2> SUFFICES ASSUME OneAtATime PROVE ToSet(buffered) = {m} /\ DOMAIN joined = {}
    OBVIOUS
  <2>1. Len(buffered) <= 1 /\ joined = NoWorkers
    BY <1>2 DEF PrefetchInv, NothingLost
  <2> QED BY <1>1, <1>2, <2>1, SingleElement DEF TypeOK, NoWorkers
<1>5. ASSUME buffered' = Tail(buffered), UNCHANGED report,
             joined' = [x \in DOMAIN joined \cup {m} |->
                          IF x = m THEN "running" ELSE joined[x]]
      PROVE  ReportInv'
  <2>1. DOMAIN joined' = DOMAIN joined \cup {m}
    BY <1>5
  <2>2. Pending' \subseteq Pending
    BY <1>2, <1>3, <1>5, <2>1 DEF Pending
  <2>3. /\ Len(buffered') = Len(buffered) - 1
        /\ Cardinality(DOMAIN joined') <= Cardinality(DOMAIN joined) + 1
        /\ Cardinality(DOMAIN joined') \in Nat
    <3>1. Len(buffered') = Len(buffered) - 1
      BY <1>1, <1>2, <1>5, HeadTailProperties DEF TypeOK
    <3>2. DOMAIN joined \subseteq Map /\ DOMAIN joined' \subseteq Map
      BY <1>1, <1>2, <2>1 DEF TypeOK
    <3> QED BY <1>2, <2>1, <3>1, <3>2, OneMore, MapsFinite
  <2>4. InHand' <= InHand /\ InHand' \in Int /\ InHand \in Int
    BY <1>1, <1>3, <2>3 DEF InHand
  <2>5. Settled' = Settled
    BY <1>5 DEF Settled
  <2>6. Counted'
    BY <1>1, <1>3, <1>5, <2>2, <2>4, <2>5 DEF ReportInv, Counted
  <2>7. Apart'
    <3>1. ToSet(buffered') \cup DOMAIN joined' \subseteq ToSet(buffered) \cup DOMAIN joined
      BY <1>2, <1>5, <2>1
    <3>2. Distinct(buffered') /\ m \notin ToSet(buffered')
      BY <1>1, <1>2, <1>5, DistinctTail DEF TypeOK, ReportInv, Apart
    <3>3. ToSet(buffered') \cap DOMAIN joined' = {}
      BY <1>2, <1>5, <2>1, <3>2 DEF ReportInv, Apart
    <3> QED BY <1>3, <1>5, <2>2, <3>1, <3>2, <3>3 DEF ReportInv, Apart
  <2>8. Complete'
    <3>1. OneAtATime => Pending' = Pending
      BY <1>2, <1>3, <1>4, <2>1, <2>2 DEF Pending
    <3> QED BY <1>3, <2>5, <3>1 DEF ReportInv, Complete, OneAtATime
  <2> QED BY <2>6, <2>7, <2>8 DEF ReportInv
<1>6. ASSUME NEW outcome \in Outcomes(m), Yield(m, outcome) PROVE ReportInv'
  <2>1. outcome \in {"ok", "err"}
    BY DEF Outcomes
  <2>2. OneAtATime => ToSet(buffered) \cup DOMAIN joined = {m}
    BY <1>4
  <2> QED BY <1>2, <1>3, <1>6, <2>1, <2>2, YieldReport
<1> QED BY <1>5, <1>6 DEF Poll

LEMMA WakeReport ==
  ASSUME PrefetchInv, ReportInv, NEW m \in DOMAIN joined, Wake(m) PROVE ReportInv'
<1>1. m \in Map /\ joined[m] \in {"ok", "err"}
  BY DEF Wake, PrefetchInv, TypeOK
<1>2. OneAtATime => ToSet(buffered) \cup DOMAIN joined = {m}
  BY NoElements DEF Wake, PrefetchInv, NothingLost
<1>3. UNCHANGED <<pc, tasks, plan, concurrency>> /\ Yield(m, joined[m])
  BY DEF Wake
<1> QED BY <1>1, <1>2, <1>3, YieldReport

\* steps that leave the report and all places alone, or end a tick
LEMMA OthersReport ==
  ASSUME PrefetchInv, ReportInv,
         UNCHANGED <<tasks, buffered, report, plan, concurrency>>,
         DOMAIN joined' = DOMAIN joined, pc' \in {pc, "idle"}
  PROVE  ReportInv'
<1>1. Pending' = Pending /\ InHand' = InHand /\ Settled' = Settled
  BY DEF Pending, InHand, Settled
<1>2. Counted'
  BY <1>1 DEF ReportInv, Counted
<1>3. Apart'
  BY <1>1 DEF ReportInv, Apart
<1>4. Complete'
  BY <1>1 DEF ReportInv, Complete, OneAtATime
<1> QED BY <1>2, <1>3, <1>4 DEF ReportInv

LEMMA ControlReport ==
  ASSUME PrefetchInv, ReportInv, Control PROVE ReportInv'
<1>1. /\ tasks' = <<>> /\ buffered' = <<>> /\ joined' = NoWorkers /\ pc' = "idle"
      /\ UNCHANGED <<report, plan>>
  BY DEF Control
<1>2. Pending' = {} /\ InHand' = 0
  <2>1. DOMAIN joined' = {} /\ Cardinality(DOMAIN joined') = 0
    BY <1>1, FS_EmptySet DEF NoWorkers
  <2>2. Len(tasks') = 0 /\ Len(buffered') = 0
    BY <1>1
  <2> QED BY <1>1, <2>1, <2>2, NoElements DEF Pending, InHand
<1>3. Settled' = Settled /\ Settled <= Cardinality(plan)
  <2>1. /\ Len(tasks) \in Nat /\ Len(buffered) \in Nat /\ Settled \in Nat
        /\ Cardinality(DOMAIN joined) \in Nat /\ Cardinality(plan) \in Nat
    BY PlacesTyped DEF PrefetchInv
  <2>2. Settled + InHand <= Cardinality(plan) /\ InHand \in Nat
    BY <2>1 DEF ReportInv, Counted, InHand
  <2> QED BY <1>1, <2>1, <2>2 DEF Settled
<1>4. Counted'
  <2>1. Settled' \in Nat
    BY <1>3, PlacesTyped DEF PrefetchInv
  <2> QED BY <1>1, <1>2, <1>3, <2>1 DEF Counted, ReportInv
<1>5. Apart' /\ Complete'
  BY <1>1, <1>2, NoElements DEF Apart, Distinct, Complete
<1> QED BY <1>4, <1>5 DEF ReportInv

LEMMA ReportKept == PrefetchInv /\ ReportInv /\ [Next]_vars => ReportInv'
<1> SUFFICES ASSUME PrefetchInv, ReportInv, [Next]_vars PROVE ReportInv'
  OBVIOUS
<1>1. CASE StartTick
  BY <1>1, StartTickReport
<1>2. CASE Fill
  BY <1>2, FillReport
<1>3. CASE Poll
  BY <1>3, PollReport
<1>4. CASE Control
  BY <1>4, ControlReport
<1>5. ASSUME NEW m \in DOMAIN joined, WorkerEnds(m) PROVE ReportInv'
  BY <1>5, OthersReport DEF WorkerEnds
<1>6. ASSUME NEW m \in DOMAIN joined, Wake(m) PROVE ReportInv'
  BY <1>6, WakeReport
<1>7. CASE Finish \/ DetachedEnds \/ Observe \/ \E m \in Map : FileChanges(m)
  BY <1>7, OthersReport DEF Finish, DetachedEnds, Observe, FileChanges
<1>8. CASE UNCHANGED vars
  BY <1>8, OthersReport DEF vars
<1> QED BY <1>1, <1>2, <1>3, <1>4, <1>5, <1>6, <1>7, <1>8 DEF Next

(***************************************************************************)
(* At any concurrency, whatever is dropped and reloaded: a task of the     *)
(* plan is in one place at a time, the stream, the buffer, its worker's    *)
(* hands or the failures, and the report counts no task twice; with one    *)
(* place in the buffer no planned map without a file is lost before the    *)
(* tick ends (execute_concurrent).                                         *)
(***************************************************************************)
THEOREM PlacesStayApart == Spec => [](PrefetchInv /\ ReportInv)
  BY InitReport, ReportKept, InvariantHolds, PTL DEF Spec

(***************************************************************************)
(* At any concurrency, whatever is dropped and reloaded: the report counts *)
(* no task twice, so the maps it calls prefetched and its failures never   *)
(* are more than the tasks of the plan, and its failures are of the plan   *)
(* (PrefetchReport).                                                       *)
(***************************************************************************)
THEOREM ReportIsHonest == Spec => []ReportHonest
<1>1. PrefetchInv /\ ReportInv => ReportHonest
  <2> SUFFICES ASSUME PrefetchInv, ReportInv
               PROVE  report.failures \subseteq plan /\ Settled <= Cardinality(plan)
    BY DEF ReportHonest
  <2>1. /\ Len(tasks) \in Nat /\ Len(buffered) \in Nat /\ Settled \in Nat
        /\ Cardinality(DOMAIN joined) \in Nat /\ Cardinality(plan) \in Nat
    BY PlacesTyped DEF PrefetchInv
  <2>2. Settled + InHand <= Cardinality(plan) /\ InHand \in Nat
    BY <2>1 DEF ReportInv, Counted, InHand
  <2> QED BY <2>1, <2>2 DEF ReportInv, Counted
<1> QED BY <1>1, InitReport, ReportKept, InvariantHolds, PTL DEF Spec

(***************************************************************************)
(* With one place in the buffer, a tick that completes has a result for    *)
(* each task of its plan.  A wider buffer drops tasks, which PrefetchLost  *)
(* shows; then only ReportIsHonest is left (execute_concurrent).           *)
(***************************************************************************)
THEOREM OneReportsAll ==
  Spec => [][OneAtATime /\ Finish => Settled = Cardinality(plan)]_vars
<1>1. PrefetchInv /\ ReportInv /\ [Next]_vars
        => [OneAtATime /\ Finish => Settled = Cardinality(plan)]_vars
  <2> SUFFICES ASSUME PrefetchInv, ReportInv, OneAtATime, Finish
               PROVE  Settled = Cardinality(plan)
    OBVIOUS
  <2>1. Pending = {} /\ InHand = 0 /\ Cardinality(Pending) = 0
    BY NothingInHand, FS_EmptySet DEF Finish
  <2>2. Settled \in Nat /\ Cardinality(plan) \in Nat
    BY PlacesTyped DEF PrefetchInv
  <2>3. Settled <= Cardinality(plan) /\ Cardinality(plan) <= Settled
    BY <2>1, <2>2 DEF ReportInv, Counted, Complete, Finish
  <2> QED BY <2>2, <2>3
<1> QED BY <1>1, InitReport, ReportKept, InvariantHolds, PTL DEF Spec

-----------------------------------------------------------------------------
(* The prefetch of a tick is bounded                                       *)

\* how many steps are left at most: five for a task that nobody has touched
Work == 5 * Len(tasks) + 4 * Len(buffered)
          + 2 * Cardinality(DOMAIN joined) + Cardinality(RunningIn(joined))

LEMMA WorkTyped == ASSUME TypeOK PROVE Work \in Nat
<1>1. Cardinality(RunningIn(joined)) \in Nat
  BY RunningFinite
<1> QED BY <1>1, PlacesTyped DEF Work

LEMMA FillAdvances == ASSUME PrefetchInv, Fill PROVE Work' < Work
<1>1. tasks \in Seq(Map) /\ tasks # <<>> /\ Len(tasks) \in Nat \ {0} /\ TypeOK
  BY EmptySeq, LenProperties DEF Fill, TypeOK, PrefetchInv
<1> DEFINE n == IF Width < Len(tasks) THEN Width ELSE Len(tasks)
<1>2. n \in 1 .. Len(tasks)
  <2>1. Width \in Nat \ {0}
    BY <1>1, WidthIsPositive
  <2>2. \A w, k \in Nat \ {0} : (IF w < k THEN w ELSE k) \in 1 .. k
    OBVIOUS
  <2> QED BY <1>1, <2>1, <2>2, Zenon
<1>3. buffered' = SubSeq(tasks, 1, n) /\ tasks' = SubSeq(tasks, n + 1, Len(tasks))
  BY DEF Fill, LeftAfter
<1> HIDE DEF n
<1>4. Len(buffered') = n /\ Len(tasks') = Len(tasks) - n
  BY <1>1, <1>2, <1>3, SubSeqProperties, LenProperties, Z3
<1>5. joined' = joined /\ Len(buffered) = 0
  BY DEF Fill
<1>6. Cardinality(DOMAIN joined) \in Nat /\ Cardinality(RunningIn(joined)) \in Nat
  BY <1>1, PlacesTyped, RunningFinite
<1>7. /\ Cardinality(DOMAIN joined') = Cardinality(DOMAIN joined)
      /\ Cardinality(RunningIn(joined')) = Cardinality(RunningIn(joined))
  BY <1>5
<1> QED BY <1>1, <1>2, <1>4, <1>5, <1>6, <1>7 DEF Work

\* a result ends what was to do for all tasks that were taken
LEMMA YieldAdvances ==
  ASSUME PrefetchInv, NEW m \in ToSet(buffered) \cup DOMAIN joined, NEW outcome,
         Yield(m, outcome), UNCHANGED tasks
  PROVE  Work' < Work
<1>1. /\ TypeOK /\ Len(tasks) \in Nat /\ Len(buffered) \in Nat
      /\ Cardinality(DOMAIN joined) \in Nat /\ Cardinality(RunningIn(joined)) \in Nat
  BY PlacesTyped, RunningFinite DEF PrefetchInv
<1>2. /\ Len(buffered') = 0 /\ Cardinality(DOMAIN joined') = 0
      /\ Cardinality(RunningIn(joined')) = 0
  <2>1. buffered' = <<>> /\ DOMAIN joined' = {} /\ RunningIn(joined') = {}
    BY DEF Yield, NoWorkers, RunningIn
  <2> QED BY <2>1, FS_EmptySet
<1>3. Len(buffered) # 0 \/ Cardinality(DOMAIN joined) # 0
  <2>1. CASE m \in ToSet(buffered)
    <3>1. buffered # <<>>
      BY <2>1, NoElements
    <3> QED BY <1>1, <3>1, EmptySeq DEF TypeOK
  <2>2. CASE m \in DOMAIN joined
    <3>1. IsFiniteSet(DOMAIN joined) /\ DOMAIN joined # {}
      BY <1>1, <2>2, MapsFinite DEF TypeOK
    <3> QED BY <3>1, FS_EmptySet
  <2> QED BY <2>1, <2>2
<1> QED BY <1>1, <1>2, <1>3 DEF Work

LEMMA PollAdvances == ASSUME PrefetchInv, Poll PROVE Work' < Work
<1> DEFINE m == Head(buffered)
<1>1. /\ TypeOK /\ Len(tasks) \in Nat /\ Len(buffered) \in Nat
      /\ Cardinality(DOMAIN joined) \in Nat /\ Cardinality(RunningIn(joined)) \in Nat
  BY PlacesTyped, RunningFinite DEF PrefetchInv
<1>2. m \in Map /\ m \in ToSet(buffered) /\ buffered # <<>> /\ tasks' = tasks
  BY <1>1, Split DEF Poll, TypeOK
<1>3. ASSUME buffered' = Tail(buffered),
             joined' = [x \in DOMAIN joined \cup {m} |->
                          IF x = m THEN "running" ELSE joined[x]]
      PROVE  Work' < Work
  <2>1. Len(buffered') = Len(buffered) - 1
    BY <1>1, <1>2, <1>3, HeadTailProperties DEF TypeOK
  <2>2. /\ DOMAIN joined' = DOMAIN joined \cup {m}
        /\ RunningIn(joined') = RunningIn(joined) \cup {m}
    BY <1>3 DEF RunningIn
  <2>3. DOMAIN joined \subseteq Map /\ RunningIn(joined) \subseteq Map
    BY <1>1 DEF TypeOK, RunningIn
  <2>4. /\ Cardinality(DOMAIN joined') <= Cardinality(DOMAIN joined) + 1
        /\ Cardinality(RunningIn(joined')) <= Cardinality(RunningIn(joined)) + 1
    BY <1>2, <2>2, <2>3, OneMore
  <2>5. Cardinality(DOMAIN joined') \in Nat /\ Cardinality(RunningIn(joined')) \in Nat
    BY <1>2, <2>2, <2>3, MapsFinite
  <2> QED BY <1>1, <1>2, <2>1, <2>4, <2>5 DEF Work
<1>4. ASSUME NEW outcome \in Outcomes(m), Yield(m, outcome) PROVE Work' < Work
  BY <1>2, <1>4, YieldAdvances
<1> QED BY <1>3, <1>4 DEF Poll

LEMMA WorkerAdvances ==
  ASSUME PrefetchInv, NEW m \in DOMAIN joined, WorkerEnds(m) PROVE Work' < Work
<1>1. /\ TypeOK /\ Len(tasks) \in Nat /\ Len(buffered) \in Nat
      /\ Cardinality(DOMAIN joined) \in Nat
  BY PlacesTyped DEF PrefetchInv
<1>2. PICK outcome \in Outcomes(m) : joined' = [joined EXCEPT ![m] = outcome]
  BY DEF WorkerEnds
<1>3. outcome # "running"
  BY DEF Outcomes
<1>4. /\ DOMAIN joined' = DOMAIN joined
      /\ RunningIn(joined') = RunningIn(joined) \ {m} /\ m \in RunningIn(joined)
  BY <1>1, <1>2, <1>3 DEF RunningIn, WorkerEnds, TypeOK
<1>5. IsFiniteSet(RunningIn(joined)) /\ Cardinality(RunningIn(joined)) \in Nat
  <2>1. RunningIn(joined) \subseteq Map
    BY <1>1 DEF TypeOK, RunningIn
  <2> QED BY <2>1, MapsFinite
<1>6. Cardinality(RunningIn(joined')) = Cardinality(RunningIn(joined)) - 1
  BY <1>4, <1>5, FS_RemoveElement
<1>7. UNCHANGED <<tasks, buffered>>
  BY DEF WorkerEnds
<1> QED BY <1>1, <1>4, <1>5, <1>6, <1>7 DEF Work

(***************************************************************************)
(* A prefetch starts with at most five steps for each task of its plan,    *)
(* every step of it takes one away, none that leaves it going on gives one *)
(* back, and it completes with none left (execute_concurrent).             *)
(***************************************************************************)
PrefetchAdvances ==
    /\ StartTick => Work' <= 5 * Cardinality(plan')
    /\ pc = "prefetch" /\ pc' = "prefetch" =>
         UNCHANGED <<tasks, buffered, joined>> \/ Work' < Work
    /\ Finish => Work = 0

\* Work is a number, and every step of the prefetch takes from it
THEOREM PrefetchIsBounded == Spec => [](Work \in Nat) /\ [][PrefetchAdvances]_vars
<1>1. ASSUME PrefetchInv, ReportInv', StartTick
      PROVE  Work' <= 5 * Cardinality(plan')
  <2>1. PrefetchInv' /\ TypeOK' /\ TypeOK /\ Pending = {}
    BY <1>1, StartTickKeeps DEF PrefetchInv, Tidy, StartTick
  <2>2. buffered' = buffered /\ joined' = joined
    BY <1>1 DEF StartTick
  <2>3. ToSet(buffered') = {} /\ DOMAIN joined' = {} /\ RunningIn(joined') = {}
    BY <2>1, <2>2 DEF Pending, RunningIn
  <2>4. buffered' = <<>>
    BY <2>1, <2>2, <2>3, Split DEF TypeOK
  <2>5. /\ Len(buffered') = 0 /\ Cardinality(DOMAIN joined') = 0
        /\ Cardinality(RunningIn(joined')) = 0
    BY <2>3, <2>4, FS_EmptySet
  <2>6. Len(tasks') \in Nat /\ Cardinality(plan') \in Nat /\ Settled' \in Nat
    <3>1. tasks' \in Seq(Map) /\ plan' \subseteq Map /\ report'.failures \subseteq Map
          /\ report'.num_maps \in Nat
      BY <2>1 DEF TypeOK
    <3> QED BY <3>1, MapsFinite, LenProperties DEF Settled
  <2>7. Settled' + InHand' <= Cardinality(plan')
    BY <1>1 DEF ReportInv, Counted
  <2>8. InHand' = Len(tasks')
    BY <2>5, <2>6 DEF InHand
  <2> QED BY <2>5, <2>6, <2>7, <2>8 DEF Work
<1>2. ASSUME PrefetchInv, [Next]_vars, pc = "prefetch", pc' = "prefetch"
      PROVE  UNCHANGED <<tasks, buffered, joined>> \/ Work' < Work
  <2>1. CASE Fill
    BY <1>2, <2>1, FillAdvances
  <2>2. CASE Poll
    BY <1>2, <2>2, PollAdvances
  <2>3. ASSUME NEW m \in DOMAIN joined, WorkerEnds(m) PROVE Work' < Work
    BY <1>2, <2>3, WorkerAdvances
  <2>4. ASSUME NEW m \in DOMAIN joined, Wake(m) PROVE Work' < Work
    BY <1>2, <2>4, YieldAdvances DEF Wake
  <2>5. CASE UNCHANGED vars \/ DetachedEnds \/ \E m \in Map : FileChanges(m)
    BY <2>5 DEF vars, DetachedEnds, FileChanges
  <2>6. ~StartTick /\ ~Finish /\ ~Control /\ ~Observe
    BY <1>2 DEF StartTick, Finish, Control, Observe
  <2> QED BY <1>2, <2>1, <2>2, <2>3, <2>4, <2>5, <2>6 DEF Next
<1>3. ASSUME Finish PROVE Work = 0
  <2>1. /\ Len(tasks) = 0 /\ Len(buffered) = 0
        /\ DOMAIN joined = {} /\ RunningIn(joined) = {}
    BY <1>3 DEF Finish, NoWorkers, RunningIn
  <2> QED BY <2>1, FS_EmptySet DEF Work
<1>4. PrefetchInv /\ ReportInv' /\ [Next]_vars => [PrefetchAdvances]_vars
  BY <1>1, <1>2, <1>3 DEF PrefetchAdvances
<1>5. PrefetchInv => Work \in Nat
  BY WorkTyped DEF PrefetchInv
<1> QED
  BY <1>4, <1>5, InitReport, ReportKept, InvariantHolds, PTL DEF Spec
=============================================================================
