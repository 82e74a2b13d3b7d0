--------------------------- MODULE AdmissionProofs ---------------------------
(***************************************************************************)
(* The rejection cache, for any paths, rules, times to live and            *)
(* capacities: what it answers is what the policy in force decided, and    *)
(* not for longer than the time to live.                                   *)
(***************************************************************************)
EXTENDS Admission, FiniteSetTheorems, WellFoundedInduction, TLAPS

IInv == TypeOK /\ CacheMatchesPolicy /\ RejectionsExpire

\* a policy is a record of the fields that the cache reads
LEMMA PolicyFields ==
  ASSUME NEW p \in Policies
  PROVE  p.cache_ttl \in 0 .. MaxTtl /\ p.cache_capacity \in Nat
  BY PoliciesAssumption DEF Policy

\* a verdict names the executable's own path exactly when that is denied
LEMMA VerdictOutcomes ==
  ASSUME NEW e
  PROVE  /\ Verdict(e) \in Reject \cup Accept
         /\ Verdict(e) = "ExePrefixDenied" <=> ~AllowExe(e)
<1> DEFINE maps     == {m \in mapped[e] : AllowMap(m)}
           rejected == mapped[e] \ maps
<1>1. CASE ~AllowExe(e)
  <2>1. Verdict(e) = "ExePrefixDenied"
    BY <1>1 DEF Verdict
  <2> QED BY <1>1, <2>1 DEF Reject
<1>2. CASE AllowExe(e) /\ maps = {}
  <2>1. Verdict(e) = IF rejected = {} THEN "MissingMaps" ELSE "MapPrefixDenied"
    BY <1>2 DEF Verdict
  <2> QED BY <1>2, <2>1 DEF Reject
<1>3. CASE AllowExe(e) /\ maps # {} /\ Cardinality(maps) < policy.minsize
  <2>1. Verdict(e) = "TooSmall"
    BY <1>3 DEF Verdict
  <2> QED BY <1>3, <2>1 DEF Reject
<1>4. CASE AllowExe(e) /\ maps # {} /\ ~(Cardinality(maps) < policy.minsize)
  <2>1. Verdict(e) = IF rejected = {} THEN "Full" ELSE "Partial"
    BY <1>4 DEF Verdict
  <2> QED BY <1>4, <2>1 DEF Accept
<1> QED BY <1>1, <1>2, <1>3, <1>4

LEMMA InitHolds == ASSUME Init PROVE IInv
  BY MaxTtlAssumption DEF Init, IInv, TypeOK, CacheMatchesPolicy, RejectionsExpire, NoEntries

\* a look-up that hits changes nothing in the cache
LEMMA HitKeeps ==
  ASSUME IInv, NEW e \in Exe, Hit(e), UNCHANGED <<policy, mapped>>
  PROVE  IInv'
<1> USE DEF IInv, Hit
<1>1. TypeOK'
  BY DEF TypeOK
<1>2. CacheMatchesPolicy'
  BY DEF CacheMatchesPolicy, CacheEnabled, AllowExe
<1>3. RejectionsExpire'
  BY DEF RejectionsExpire
<1> QED BY <1>1, <1>2, <1>3

\* what a miss leaves in the cache, entry by entry
LEMMA MissEntries ==
  ASSUME IInv, NEW e \in Exe, e \notin DOMAIN cache, Miss(e)
  PROVE  /\ DOMAIN cache' \subseteq DOMAIN cache \cup {e}
         /\ \A x \in DOMAIN cache' \ {e} : cache'[x] = cache[x]
         /\ cache' \in [DOMAIN cache' -> [reason : Reject, left : 1 .. MaxTtl]]
         /\ e \in DOMAIN cache' =>
               /\ CacheEnabled
               /\ cache'[e] = [reason |-> Verdict(e), left |-> policy.cache_ttl]
<1> DEFINE entry == [reason |-> Verdict(e), left |-> policy.cache_ttl]
<1>1. cache \in [DOMAIN cache -> [reason : Reject, left : 1 .. MaxTtl]]
  BY DEF IInv, TypeOK
<1>2. policy.cache_ttl \in 0 .. MaxTtl
  BY PolicyFields DEF IInv, TypeOK
<1>3. CASE Verdict(e) \in Accept \/ (Verdict(e) \notin Accept /\ ~CacheEnabled)
  <2>1. DOMAIN cache' \subseteq DOMAIN cache /\ \A x \in DOMAIN cache' : cache'[x] = cache[x]
    BY <1>3 DEF Miss, CacheAfter
  <2>2. cache' = [x \in DOMAIN cache' |-> cache[x]]
    BY <1>1, <1>3 DEF Miss, CacheAfter
  <2> QED BY <1>1, <2>1, <2>2
<1>4. CASE Verdict(e) \notin Accept /\ CacheEnabled
  <2>1. cache' = [x \in DOMAIN cache \cup {e} |-> IF x = e THEN entry ELSE cache[x]]
    BY <1>4 DEF Miss, CacheAfter
  <2>2. entry \in [reason : Reject, left : 1 .. MaxTtl]
    BY <1>2, <1>4, VerdictOutcomes, MaxTtlAssumption DEF CacheEnabled
  <2> QED BY <1>1, <1>4, <2>1, <2>2
<1> QED BY <1>3, <1>4

\* a verdict enters the cache of the policy that gave it, with a full life
LEMMA MissKeeps ==
  ASSUME IInv, NEW e \in Exe, Miss(e), UNCHANGED <<policy, mapped>>
  PROVE  IInv'
<1>1. e \notin DOMAIN cache
  BY DEF Miss
<1>2. /\ DOMAIN cache' \subseteq DOMAIN cache \cup {e}
      /\ \A x \in DOMAIN cache' \ {e} : cache'[x] = cache[x]
      /\ cache' \in [DOMAIN cache' -> [reason : Reject, left : 1 .. MaxTtl]]
      /\ e \in DOMAIN cache' =>
            /\ CacheEnabled
            /\ cache'[e] = [reason |-> Verdict(e), left |-> policy.cache_ttl]
  BY <1>1, MissEntries
<1>3. judged' = [judged EXCEPT ![e] = 0] /\ judged \in [Exe -> 0 .. MaxTtl]
  BY DEF Miss, IInv, TypeOK
<1>4. policy.cache_ttl \in 0 .. MaxTtl
  BY PolicyFields DEF IInv, TypeOK
<1>5. TypeOK'
  <2>1. accepted' \subseteq Exe
    BY DEF Miss, IInv, TypeOK
  <2> QED BY <1>2, <1>3, <2>1, MaxTtlAssumption DEF IInv, TypeOK
<1>6. CacheMatchesPolicy'
  BY <1>2, <1>4, VerdictOutcomes DEF IInv, CacheMatchesPolicy, CacheEnabled, AllowExe
<1>7. RejectionsExpire'
  BY <1>2, <1>3, <1>4, MaxTtlAssumption DEF IInv, TypeOK, RejectionsExpire
<1> QED BY <1>5, <1>6, <1>7 DEF IInv

\* what is a tick older has a tick less to live
LEMMA TickKeeps == ASSUME IInv, Tick PROVE IInv'
<1>1. /\ DOMAIN cache' \subseteq DOMAIN cache
      /\ cache \in [DOMAIN cache -> [reason : Reject, left : 1 .. MaxTtl]]
      /\ cache' = [x \in DOMAIN cache' |-> [cache[x] EXCEPT !.left = @ - 1]]
      /\ \A x \in DOMAIN cache' : cache[x].left > 1
  BY DEF IInv, TypeOK, Tick, Aged
<1>2. \A x \in DOMAIN cache' : /\ cache'[x].reason = cache[x].reason
                               /\ cache'[x].left = cache[x].left - 1
                               /\ cache'[x] \in [reason : Reject, left : 1 .. MaxTtl]
  <2> SUFFICES ASSUME NEW x \in DOMAIN cache'
               PROVE  /\ cache'[x].reason = cache[x].reason
                      /\ cache'[x].left = cache[x].left - 1
                      /\ cache'[x] \in [reason : Reject, left : 1 .. MaxTtl]
    OBVIOUS
  <2>1. cache[x] \in [reason : Reject, left : 1 .. MaxTtl] /\ cache[x].left > 1
    BY <1>1
  <2>2. cache'[x] = [cache[x] EXCEPT !.left = @ - 1]
    BY <1>1
  <2> QED BY <2>1, <2>2, MaxTtlAssumption
<1>3. judged \in [Exe -> 0 .. MaxTtl] /\ \A x \in Exe : /\ judged'[x] \in 0 .. MaxTtl
                                                        /\ judged'[x] <= judged[x] + 1
  BY MaxTtlAssumption DEF IInv, TypeOK, Tick
<1>4. TypeOK'
  <2>1. judged' \in [Exe -> 0 .. MaxTtl]
    BY <1>3 DEF Tick
  <2> QED BY <1>1, <1>2, <2>1 DEF IInv, TypeOK, Tick
<1>5. CacheMatchesPolicy'
  <2> SUFFICES ASSUME NEW x \in DOMAIN cache'
               PROVE  (/\ CacheEnabled
                       /\ cache[x].left <= policy.cache_ttl
                       /\ cache[x].reason = "ExePrefixDenied" <=> ~AllowExe(x))'
    BY DEF CacheMatchesPolicy
  <2>1. /\ CacheEnabled /\ cache[x].left <= policy.cache_ttl
        /\ cache[x].reason = "ExePrefixDenied" <=> ~AllowExe(x)
    BY <1>1 DEF IInv, CacheMatchesPolicy
  <2>2. policy' = policy /\ policy.cache_ttl \in 0 .. MaxTtl /\ cache[x].left \in Nat
    BY <1>1, PolicyFields, MaxTtlAssumption DEF Tick, IInv, TypeOK
  <2> QED BY <1>2, <2>1, <2>2, MaxTtlAssumption DEF CacheEnabled, AllowExe
<1>6. RejectionsExpire'
  <2> SUFFICES ASSUME NEW x \in DOMAIN cache'
               PROVE  cache'[x].left + judged'[x] <= policy'.cache_ttl
    BY DEF RejectionsExpire
  <2>1. x \in Exe /\ x \in DOMAIN cache /\ cache[x].left \in Nat
    BY <1>1, MaxTtlAssumption DEF IInv, TypeOK
  <2>2. cache[x].left + judged[x] <= policy.cache_ttl
    BY <2>1 DEF IInv, RejectionsExpire
  <2>3. policy' = policy /\ policy.cache_ttl \in Nat
    BY PolicyFields, MaxTtlAssumption DEF Tick, IInv, TypeOK
  <2> QED BY <1>2, <1>3, <2>1, <2>2, <2>3, MaxTtlAssumption
<1> QED BY <1>4, <1>5, <1>6 DEF IInv

LEMMA EvictKeeps == ASSUME IInv, NEW e \in Exe, Evict(e) PROVE IInv'
<1>1. /\ DOMAIN cache' \subseteq DOMAIN cache
      /\ cache' = [x \in DOMAIN cache' |-> cache[x]]
      /\ UNCHANGED <<policy, mapped, accepted, judged>>
  BY DEF Evict
<1>2. TypeOK'
  BY <1>1 DEF IInv, TypeOK
<1>3. CacheMatchesPolicy'
  BY <1>1 DEF IInv, CacheMatchesPolicy, CacheEnabled, AllowExe
<1>4. RejectionsExpire'
  BY <1>1 DEF IInv, RejectionsExpire
<1> QED BY <1>2, <1>3, <1>4 DEF IInv

LEMMA MapsChangeKeeps == ASSUME IInv, NEW e \in Exe, MapsChange(e) PROVE IInv'
<1>1. TypeOK'
  BY DEF MapsChange, IInv, TypeOK
<1>2. CacheMatchesPolicy' /\ RejectionsExpire'
  BY DEF MapsChange, IInv, CacheMatchesPolicy, RejectionsExpire, CacheEnabled, AllowExe
<1> QED BY <1>1, <1>2 DEF IInv

\* a new policy starts with an empty cache
LEMMA ReloadKeeps == ASSUME IInv, Reload PROVE IInv'
  BY DEF Reload, FreshCache, NoEntries, IInv, TypeOK, CacheMatchesPolicy, RejectionsExpire

LEMMA StepKeeps == IInv /\ [Next]_vars => IInv'
<1> SUFFICES ASSUME IInv, [Next]_vars PROVE IInv'
  OBVIOUS
<1>1. CASE UNCHANGED vars
  BY <1>1 DEF vars, IInv, TypeOK, CacheMatchesPolicy, RejectionsExpire, CacheEnabled, AllowExe
<1>2. ASSUME NEW e \in Exe, Decide(e) PROVE IInv'
  BY <1>2, HitKeeps, MissKeeps DEF Decide
<1>3. ASSUME NEW e \in Exe, Evict(e) PROVE IInv'
  BY <1>3, EvictKeeps
<1>4. ASSUME NEW e \in Exe, MapsChange(e) PROVE IInv'
  BY <1>4, MapsChangeKeeps
<1>5. CASE Tick
  BY <1>5, TickKeeps
<1>6. CASE Reload
  BY <1>6, ReloadKeeps
<1> QED BY <1>1, <1>2, <1>3, <1>4, <1>5, <1>6 DEF Next

(***************************************************************************)
(* The cache and its history, whatever the order of scans, ticks,          *)
(* evictions and reloads.                                                  *)
(***************************************************************************)
THEOREM Invariance == Spec => []IInv
  BY InitHolds, StepKeeps, PTL DEF Spec

(***************************************************************************)
(* Type correctness: above all no entry outlives the end of its time.      *)
(***************************************************************************)
THEOREM TypeCorrect == Spec => []TypeOK
<1>1. IInv => TypeOK
  BY DEF IInv
<1> QED BY <1>1, Invariance, PTL

(***************************************************************************)
(* No rejection of an earlier policy is answered after a reload.           *)
(***************************************************************************)
THEOREM CacheFollowsPolicy == Spec => []CacheMatchesPolicy
<1>1. IInv => CacheMatchesPolicy
  BY DEF IInv
<1> QED BY <1>1, Invariance, PTL

(***************************************************************************)
(* No cached rejection lasts longer than cache_ttl, however often it is    *)
(* looked up.                                                              *)
(***************************************************************************)
THEOREM RejectionsDoExpire == Spec => []RejectionsExpire
<1>1. IInv => RejectionsExpire
  BY DEF IInv
<1> QED BY <1>1, Invariance, PTL

-----------------------------------------------------------------------------
(* The rules: a loop over a list of any length                             *)

\* induction, for sets: the provers take no operator as a parameter
LEMMA NatSetInduction ==
  ASSUME NEW P, 0 \in P, \A n \in Nat : n \in P => n + 1 \in P
  PROVE  Nat \subseteq P
<1>. DEFINE Bad == Nat \ P
<1>1. SUFFICES ASSUME Bad # {} PROVE FALSE
  OBVIOUS
<1>2. PICK n \in Bad : \A k \in Bad : ~(<<k, n>> \in OpToRel(<, Nat))
  <2>1. Bad \subseteq Nat
    OBVIOUS
  <2>. HIDE DEF Bad
  <2>. QED  BY <1>1, <2>1, NatLessThanWellFounded, WFMin, Zenon
<1>3. \A k \in Bad : ~(k < n)
  BY <1>2 DEF OpToRel
<1>4. n \in Nat /\ n # 0 /\ n \notin P
  OBVIOUS
<1>5. n - 1 \in Nat /\ n - 1 < n /\ n = (n - 1) + 1
  BY <1>4
<1>6. n - 1 \in P
  BY <1>3, <1>5
<1>. QED  BY <1>4, <1>5, <1>6

(***************************************************************************)
(* A loop of n rounds has a result: what each round makes of the one       *)
(* before is given by a function.                                          *)
(***************************************************************************)
Loops(V, start, n, round) ==
    {g \in [0 .. n -> V] : g[0] = start /\ \A i \in 1 .. n : g[i] = round[<<i, g[i - 1]>>]}

LEMMA LoopExists ==
  ASSUME NEW V, NEW start \in V, NEW n \in Nat, NEW round \in [(1 .. n) \X V -> V]
  PROVE  Loops(V, start, n, round) # {}
<1>. DEFINE Rounds(k, g) ==
              g[0] = start /\ \A i \in 1 .. k : g[i] = round[<<i, g[i - 1]>>]
            P == {k \in Nat : k <= n => \E g \in [0 .. k -> V] : Rounds(k, g)}
<1>1. 0 \in P
  <2>1. Rounds(0, [i \in 0 .. 0 |-> start]) /\ [i \in 0 .. 0 |-> start] \in [0 .. 0 -> V]
    OBVIOUS
  <2>. QED  BY <2>1
<1>2. ASSUME NEW k \in Nat, k \in P PROVE k + 1 \in P
  <2>1. SUFFICES ASSUME k + 1 <= n PROVE \E g \in [0 .. k + 1 -> V] : Rounds(k + 1, g)
    OBVIOUS
  <2>2. PICK g \in [0 .. k -> V] : Rounds(k, g)
    BY <1>2, <2>1
  <2>. DEFINE last == round[<<k + 1, g[k]>>]
              h == [i \in 0 .. k + 1 |-> IF i = k + 1 THEN last ELSE g[i]]
  <2>3. k + 1 \in 1 .. n /\ g[k] \in V
    BY <2>1
  <2>4. last \in V
    BY <2>3
  <2>5. h \in [0 .. k + 1 -> V]
    BY <2>4
  <2>6. h[0] = start
    BY <2>2
  <2>7. ASSUME NEW i \in 1 .. k + 1 PROVE h[i] = round[<<i, h[i - 1]>>]
    <3>1. i - 1 \in 0 .. k /\ h[i - 1] = g[i - 1]
      OBVIOUS
    <3>2. CASE i = k + 1
      <4>1. h[i] = last /\ h[i - 1] = g[k] /\ i = k + 1
        BY <3>1, <3>2
      <4>. QED  BY <4>1
    <3>3. CASE i \in 1 .. k
      BY <2>2, <3>1, <3>3
    <3>. QED  BY <3>2, <3>3
  <2>. HIDE DEF h
  <2>. QED  BY <2>5, <2>6, <2>7
<1>. HIDE DEF P
<1>3. n \in P
  BY <1>1, <1>2, NatSetInduction
<1>. QED  BY <1>3 DEF P, Loops

Result == [accept : BOOLEAN, length : Nat]

\* one round of the loop of accept_path
Round(path, prefixes, i, best) ==
    LET rule == prefixes[i]
    IN  IF IsPrefix(rule.prefix, path) /\ Better(rule.prefix, best)
        THEN [accept |-> ~rule.neg, length |-> Len(rule.prefix)]
        ELSE best

LEMMA RuleFields ==
  ASSUME NEW prefixes \in Seq(Rule), NEW i \in 1 .. Len(prefixes)
  PROVE  /\ prefixes[i].neg \in BOOLEAN
         /\ Len(prefixes[i].prefix) \in Nat
         /\ prefixes[i].prefix # <<>> <=> Len(prefixes[i].prefix) > 0
<1>1. prefixes[i] \in Rule
  OBVIOUS
<1>2. prefixes[i].neg \in BOOLEAN /\ prefixes[i].prefix \in Seq(STRING)
  BY <1>1 DEF Rule
<1>. QED  BY <1>2

LEMMA RoundType ==
  ASSUME NEW path, NEW prefixes \in Seq(Rule), NEW i \in 1 .. Len(prefixes),
         NEW best \in Result
  PROVE  Round(path, prefixes, i, best) \in Result
<1>. DEFINE rule == prefixes[i]
<1>1. rule.neg \in BOOLEAN /\ Len(rule.prefix) \in Nat
  BY RuleFields
<1>2. [accept |-> ~rule.neg, length |-> Len(rule.prefix)] \in Result
  BY <1>1 DEF Result
<1>. QED  BY <1>2 DEF Round

\* the recursive definition in AcceptPath has the value that it says
LEMMA LoopOf ==
  ASSUME NEW path, NEW prefixes \in Seq(Rule)
  PROVE  \E f : /\ AcceptPath(path, prefixes) <=> IsUtf8(path) /\ f[Len(prefixes)].accept
                /\ f[0] = [accept |-> TRUE, length |-> 0]
                /\ \A i \in 1 .. Len(prefixes) : f[i] = Round(path, prefixes, i, f[i - 1])
<1>. DEFINE n == Len(prefixes)
            Start == [accept |-> TRUE, length |-> 0]
            IsLoop(f) == f = [i \in 0 .. n |->
                               IF i = 0 THEN Start ELSE Round(path, prefixes, i, f[i - 1])]
            Best == CHOOSE f : IsLoop(f)
            round == [p \in (1 .. n) \X Result |-> Round(path, prefixes, p[1], p[2])]
<1>1. AcceptPath(path, prefixes) <=> IsUtf8(path) /\ Best[n].accept
  BY DEF AcceptPath, Round
<1>2. n \in Nat /\ Start \in Result
  BY DEF Result
<1>3. round \in [(1 .. n) \X Result -> Result]
  BY RoundType
<1>4. PICK g \in [0 .. n -> Result] :
         g[0] = Start /\ \A i \in 1 .. n : g[i] = round[<<i, g[i - 1]>>]
  <2>1. Loops(Result, Start, n, round) # {}
    <3>. HIDE DEF n, Start, round
    <3>. QED  BY ONLY <1>2, <1>3, LoopExists, Zenon
  <2>. QED  BY <2>1 DEF Loops
<1>5. IsLoop(g)
  <2>1. ASSUME NEW i \in 1 .. n PROVE g[i] = Round(path, prefixes, i, g[i - 1])
    <3>1. g[i - 1] \in Result
      BY <1>2
    <3>. QED  BY <1>4, <3>1
  <2>. QED  BY <1>2, <1>4, <2>1
<1>6. IsLoop(Best)
  BY <1>5
<1>7. /\ Best[0] = Start
      /\ \A i \in 1 .. n : Best[i] = Round(path, prefixes, i, Best[i - 1])
  <2>. HIDE DEF Best, Start
  <2>1. \A i \in 0 .. n : Best[i] = IF i = 0 THEN Start ELSE Round(path, prefixes, i, Best[i - 1])
    BY <1>6
  <2>. QED  BY <1>2, <2>1
<1>. HIDE DEF Best
<1>. QED  BY <1>1, <1>7

\* the rule k is the longest of those in M, and the first of its length
Longest(prefixes, M, k) ==
    \A j \in M \ {k} : LET a == Len(prefixes[k].prefix)
                           b == Len(prefixes[j].prefix)
                       IN  a > b \/ (a = b /\ k < j)

\* the rules that the first i rounds have seen and that match
Seen(path, prefixes, i) == {j \in Matching(path, prefixes) : j <= i}

\* what the loop has found: no rule, or the longest
Found(path, prefixes, M, best) ==
    \/ M = {} /\ best = [accept |-> TRUE, length |-> 0]
    \/ \E k \in M : /\ best = [accept |-> ~prefixes[k].neg,
                               length |-> Len(prefixes[k].prefix)]
                    /\ Longest(prefixes, M, k)

LEMMA RoundFinds ==
  ASSUME NEW path, NEW prefixes \in Seq(Rule), NEW i \in 1 .. Len(prefixes), NEW best,
         Found(path, prefixes, Seen(path, prefixes, i - 1), best)
  PROVE  Found(path, prefixes, Seen(path, prefixes, i), Round(path, prefixes, i, best))
<1>. DEFINE M == Seen(path, prefixes, i - 1)
            N == Seen(path, prefixes, i)
            L(j) == Len(prefixes[j].prefix)
            Picked == IsPrefix(prefixes[i].prefix, path) /\ Better(prefixes[i].prefix, best)
<1>1. /\ DOMAIN prefixes = 1 .. Len(prefixes) /\ Len(prefixes) \in Nat
      /\ \A j \in 1 .. Len(prefixes) : L(j) \in Nat /\ (prefixes[j].prefix # <<>> <=> L(j) > 0)
  BY RuleFields
<1>2. /\ M \subseteq 1 .. Len(prefixes) /\ \A j \in M : j < i
      /\ N = M \cup (IF i \in Matching(path, prefixes) THEN {i} ELSE {})
      /\ i \in Matching(path, prefixes) <=> L(i) > 0 /\ IsPrefix(prefixes[i].prefix, path)
  BY <1>1 DEF Seen, Matching
<1>3. /\ best.length \in Nat
      /\ M = {} => best.length = 0
      /\ \A j \in M : L(j) <= best.length
  <2>1. CASE M = {} /\ best = [accept |-> TRUE, length |-> 0]
    BY <2>1
  <2>2. ASSUME NEW k \in M, Longest(prefixes, M, k),
               best = [accept |-> ~prefixes[k].neg, length |-> L(k)]
        PROVE  best.length = L(k) /\ L(k) \in Nat /\ \A j \in M : L(j) <= L(k)
    BY <1>1, <1>2, <2>2 DEF Longest
  <2>. QED  BY <2>1, <2>2 DEF Found
<1>4. CASE Picked
  <2>1. i \in N /\ L(i) > best.length
    BY <1>1, <1>2, <1>3, <1>4 DEF Better
  <2>2. Longest(prefixes, N, i)
    BY <1>1, <1>2, <1>3, <2>1 DEF Longest
  <2>3. Round(path, prefixes, i, best) = [accept |-> ~prefixes[i].neg, length |-> L(i)]
    BY <1>4 DEF Round
  <2>. QED  BY <2>1, <2>2, <2>3 DEF Found
<1>5. CASE ~Picked
  <2>1. Round(path, prefixes, i, best) = best
    BY <1>5 DEF Round
  <2>2. CASE N = M
    BY <2>1, <2>2
  <2>3. CASE N # M
    <3>1. N = M \cup {i} /\ L(i) > 0 /\ L(i) <= best.length
      BY <1>1, <1>2, <1>3, <1>5, <2>3 DEF Better
    <3>2. PICK k \in M : /\ best = [accept |-> ~prefixes[k].neg, length |-> L(k)]
                         /\ Longest(prefixes, M, k)
      BY <1>3, <3>1 DEF Found
    <3>3. Longest(prefixes, N, k)
      BY <1>1, <1>2, <3>1, <3>2 DEF Longest
    <3>. QED  BY <2>1, <3>1, <3>2, <3>3 DEF Found
  <2>. QED  BY <2>2, <2>3
<1>. QED  BY <1>4, <1>5

(***************************************************************************)
(* Whatever the path and the list of rules, the loop of accept_path ends   *)
(* with the longest matching rule, the first of equals, and that rule      *)
(* decides on a path that is UTF-8; no other path is accepted.             *)
(***************************************************************************)
THEOREM LoopFindsLongest ==
  ASSUME NEW path, NEW prefixes \in Seq(Rule)
  PROVE  LET M == Matching(path, prefixes)
         IN  AcceptPath(path, prefixes) <=>
             /\ IsUtf8(path)
             /\ \/ M = {}
                \/ \E k \in M : ~prefixes[k].neg /\ Longest(prefixes, M, k)
<1>. DEFINE n == Len(prefixes)
            M == Matching(path, prefixes)
<1>1. PICK f : /\ AcceptPath(path, prefixes) <=> IsUtf8(path) /\ f[n].accept
               /\ f[0] = [accept |-> TRUE, length |-> 0]
               /\ \A i \in 1 .. n : f[i] = Round(path, prefixes, i, f[i - 1])
  BY LoopOf
<1>. DEFINE P == {i \in Nat : i <= n => Found(path, prefixes, Seen(path, prefixes, i), f[i])}
<1>2. n \in Nat /\ DOMAIN prefixes = 1 .. n
  OBVIOUS
<1>3. 0 \in P
  <2>1. Seen(path, prefixes, 0) = {}
    BY <1>2 DEF Seen, Matching
  <2>. QED  BY <1>1, <2>1 DEF Found
<1>4. ASSUME NEW i \in Nat, i \in P PROVE i + 1 \in P
  <2>1. SUFFICES ASSUME i + 1 <= n
                 PROVE  Found(path, prefixes, Seen(path, prefixes, i + 1), f[i + 1])
    OBVIOUS
  <2>2. i + 1 \in 1 .. n /\ (i + 1) - 1 = i /\ i <= n
    BY <1>2, <2>1
  <2>3. f[i + 1] = Round(path, prefixes, i + 1, f[i])
    BY <1>1, <2>2
  <2>4. Found(path, prefixes, Seen(path, prefixes, i), f[i])
    BY <1>4, <2>2
  <2>. QED  BY <2>2, <2>3, <2>4, RoundFinds
<1>5. Found(path, prefixes, Seen(path, prefixes, n), f[n])
  <2>. HIDE DEF P
  <2>1. n \in P
    BY <1>2, <1>3, <1>4, NatSetInduction
  <2>. QED  BY <1>2, <2>1 DEF P
<1>6. Seen(path, prefixes, n) = M
  BY <1>2 DEF Seen, Matching
<1>7. ASSUME NEW k \in M, NEW j \in M, Longest(prefixes, M, k), Longest(prefixes, M, j)
      PROVE  k = j
  BY <1>2, <1>7, RuleFields DEF Longest, Matching
<1>8. ASSUME M = {} PROVE AcceptPath(path, prefixes) <=> IsUtf8(path)
  <2>1. f[n].accept
    BY <1>5, <1>6, <1>8 DEF Found
  <2>. QED  BY <1>1, <2>1
<1>9. ASSUME NEW k \in M, f[n] = [accept |-> ~prefixes[k].neg, length |-> Len(prefixes[k].prefix)],
             Longest(prefixes, M, k)
      PROVE  AcceptPath(path, prefixes) <=>
                IsUtf8(path) /\ \E j \in M : ~prefixes[j].neg /\ Longest(prefixes, M, j)
  <2>1. f[n].accept = ~prefixes[k].neg
    BY <1>9
  <2>2. AcceptPath(path, prefixes) <=> IsUtf8(path) /\ ~prefixes[k].neg
    BY <1>1, <2>1
  <2>. HIDE DEF M
  <2>. QED  BY <1>7, <1>9, <2>2
<1>. QED  BY <1>5, <1>6, <1>8, <1>9 DEF Found

(***************************************************************************)
(* For any policy, "the longest matching prefix wins".                     *)
(***************************************************************************)
THEOREM LongestPrefixDoesWin == Spec => []LongestPrefixWins
<1>1. IInv => LongestPrefixWins
  <2>. SUFFICES ASSUME IInv, NEW path \in Exe
                PROVE  LET prefixes == policy.exeprefix
                           M == Matching(path, prefixes)
                       IN  AcceptPath(path, prefixes) <=>
                           /\ IsUtf8(path)
                           /\ \/ M = {}
                              \/ \E k \in M : ~prefixes[k].neg /\ Longest(prefixes, M, k)
    BY DEF LongestPrefixWins, Longest
  <2>1. policy.exeprefix \in Seq(Rule)
    BY PoliciesAssumption DEF IInv, TypeOK, Policy
  <2>. QED  BY <2>1, LoopFindsLongest
<1>. QED  BY <1>1, Invariance, PTL

-----------------------------------------------------------------------------
(* A rejection delays and does not shut out                                *)

\* how many ticks a candidate is still rejected without being judged
Delay(e) == IF e \in DOMAIN cache THEN cache[e].left ELSE 0

(***************************************************************************)
(* A tick takes one from the delay of any candidate.  While a candidate is *)
(* admissible nothing adds to its delay; without one the next look at it   *)
(* accepts it, and then no step rejects it again (decide, cache_reject).   *)
(***************************************************************************)
OnlyDelayed ==
    \A e \in Exe :
        /\ Tick /\ Delay(e) > 0 => Delay(e)' = Delay(e) - 1
        /\ Verdict(e) \in Accept =>
             /\ Delay(e)' <= Delay(e)
             /\ Delay(e) = 0 /\ (Decide(e) \/ e \in accepted) => e \in accepted'

\* whatever the policies, the mappings and the evictions
THEOREM RejectionsOnlyDelay == Spec => [][OnlyDelayed]_vars
<1>1. ASSUME TypeOK, [Next]_vars, NEW e \in Exe
      PROVE  /\ Tick /\ Delay(e) > 0 => Delay(e)' = Delay(e) - 1
             /\ Verdict(e) \in Accept =>
                  /\ Delay(e)' <= Delay(e)
                  /\ Delay(e) = 0 /\ (Decide(e) \/ e \in accepted) => e \in accepted'
  <2>1. /\ \A x \in DOMAIN cache : cache[x].left \in 1 .. MaxTtl
        /\ Delay(e) \in Nat /\ (Delay(e) = 0 <=> e \notin DOMAIN cache)
    BY <1>1, MaxTtlAssumption DEF TypeOK, Delay
  <2>2. CASE Tick
    <3>1. /\ DOMAIN cache' = {x \in DOMAIN cache : cache[x].left > 1}
          /\ \A x \in DOMAIN cache' : cache'[x].left = cache[x].left - 1
          /\ accepted' = accepted
      BY <1>1, <2>2 DEF Tick, Aged, TypeOK
    <3>2. Delay(e) > 0 => Delay(e)' = Delay(e) - 1
      BY <2>1, <3>1 DEF Delay
    <3>3. Delay(e) = 0 => Delay(e)' = 0
      BY <2>1, <3>1 DEF Delay
    <3>4. ~Decide(e) \/ accepted' = accepted
      BY <3>1
    <3>5. Delay(e) = 0 /\ Decide(e) /\ Verdict(e) \in Accept => e \in accepted'
      BY <2>1 DEF Decide, Hit, Miss
    <3> QED BY <2>1, <3>1, <3>2, <3>3, <3>5
  <2>3. ASSUME ~Tick PROVE  Verdict(e) \in Accept => Delay(e)' <= Delay(e)
    <3> SUFFICES ASSUME Verdict(e) \in Accept PROVE Delay(e)' <= Delay(e)
      OBVIOUS
    <3>1. ASSUME NEW d \in Exe, Hit(d) PROVE Delay(e)' <= Delay(e)
      BY <2>1, <3>1 DEF Hit, Delay
    <3>2. ASSUME NEW d \in Exe, Miss(d) PROVE Delay(e)' <= Delay(e)
      <4>1. cache' = CacheAfter(d, Verdict(d)) /\ d \notin DOMAIN cache
        BY <3>2 DEF Miss
      <4>2. CASE Verdict(d) \in Accept
        <5>1. cache' = [x \in DOMAIN cache \ {d} |-> cache[x]]
          BY <4>1, <4>2 DEF CacheAfter
        <5> QED BY <2>1, <5>1 DEF Delay
      <4>3. CASE Verdict(d) \notin Accept
        <5>1. d # e
          BY <4>3
        <5>2. e \in DOMAIN cache' <=> e \in DOMAIN cache
          BY <4>1, <4>3, <5>1 DEF CacheAfter
        <5>3. e \in DOMAIN cache => cache'[e] = cache[e]
          BY <4>1, <4>3, <5>1 DEF CacheAfter
        <5> QED BY <2>1, <5>2, <5>3 DEF Delay
      <4> QED BY <4>2, <4>3
    <3>3. ASSUME NEW d \in Exe, Evict(d) PROVE Delay(e)' <= Delay(e)
      <4>1. cache' = [x \in DOMAIN cache \ {d} |-> cache[x]]
        BY <3>3 DEF Evict
      <4> QED BY <2>1, <4>1 DEF Delay
    <3>4. CASE Reload
      BY <2>1, <3>4 DEF Reload, FreshCache, NoEntries, Delay
    <3>5. ASSUME cache' = cache PROVE Delay(e)' <= Delay(e)
      BY <2>1, <3>5 DEF Delay
    <3> QED
      BY <1>1, <2>3, <3>1, <3>2, <3>3, <3>4, <3>5
      DEF Next, Decide, MapsChange, vars
  <2>4. ASSUME Verdict(e) \in Accept, Delay(e) = 0, Decide(e) \/ e \in accepted
        PROVE  e \in accepted'
    <3>1. ASSUME Decide(e) PROVE e \in accepted'
      BY <2>1, <2>4, <3>1 DEF Decide, Hit, Miss
    <3>2. ASSUME ~Decide(e), e \in accepted PROVE e \in accepted'
      BY <1>1, <3>2 DEF Next, Decide, Hit, Miss, Evict, MapsChange, Tick, Reload, vars
    <3> QED BY <2>4, <3>1, <3>2
  <2> QED BY <2>2, <2>3, <2>4
<1>2. TypeOK /\ [Next]_vars => [OnlyDelayed]_vars
  BY <1>1 DEF OnlyDelayed
<1> QED BY <1>2, TypeCorrect, PTL DEF Spec
=============================================================================
