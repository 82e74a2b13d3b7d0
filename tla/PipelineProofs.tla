---------------------------- MODULE PipelineProofs ----------------------------
(***************************************************************************)
(* Three calls of a tick that share no state while they run: the           *)
(* prediction, the plan made of it and the I/O of a map.                   *)
(*                                                                         *)
(* The plan, for any maps, scores, lengths, keys, percentages and memory   *)
(* statistics: it fits into its budget, leaves out what does not fit and   *)
(* nothing else, and keeps the order of the scores.                        *)
(*                                                                         *)
(* The prediction, for any executables and any graph: a map has a score if *)
(* and only if an executable that is not running uses it.                  *)
(*                                                                         *)
(* The requests for one map, for any sizes and whatever pages are cached:  *)
(* they are the bytes of the pages that are not.                           *)
(***************************************************************************)
EXTENDS Predictor, Readahead, SequenceTheorems, FiniteSetTheorems,
        WellFoundedInduction, TLAPS

-----------------------------------------------------------------------------
(* Finite sets: induction, folds, sorting                                  *)

\* what holds of a set when it holds of its proper subsets holds of every finite set
LEMMA FiniteInduction ==
  ASSUME NEW S, IsFiniteSet(S), NEW P,
         \A T \in SUBSET S : (\A U \in SUBSET T : U # T => U \in P) => T \in P
  PROVE  SUBSET S \subseteq P
<1>. DEFINE Bad == (SUBSET S) \ P
            Subs == SUBSET S
            R == StrictSubsetOrdering(S)
<1>1. IsWellFoundedOn(R, Subs)
  BY FS_FiniteSubsetsOfFinite, FS_StrictSubsetOrderingWellFounded
<1>2. SUFFICES ASSUME Bad # {} PROVE FALSE
  OBVIOUS
<1>3. PICK T \in Bad : \A U \in Bad : ~(<<U, T>> \in R)
  <2>1. Bad \subseteq Subs
    OBVIOUS
  <2>. HIDE DEF Bad, R, Subs
  <2>2. Bad # {}
    BY <1>2
  <2>. QED BY ONLY <1>1, <2>2, <2>1, WFMin, SMT
<1>4. \A U \in SUBSET T : U # T => U \in P
  BY <1>3 DEF StrictSubsetOrdering
<1>. QED BY <1>3, <1>4

\* the element of s that a fold takes first
First(s) == CHOOSE x \in s : TRUE

\* g[s] is the fold over s, for each s in SUBSET S
IsFold(g, base, step, S) ==
    g = [s \in SUBSET S |->
            IF s = {} THEN base ELSE step[<<First(s), g[s \ {First(s)}]>>]]

LEMMA FirstIn ==
  ASSUME NEW s, s # {}
  PROVE  First(s) \in s /\ s \ {First(s)} \in SUBSET s /\ s \ {First(s)} # s
<1>1. First(s) \in s
  BY DEF First
<1>. QED BY <1>1

LEMMA FoldAt ==
  ASSUME NEW g, NEW base, NEW step, NEW S, IsFold(g, base, step, S), NEW s \in SUBSET S
  PROVE  g[s] = IF s = {} THEN base ELSE step[<<First(s), g[s \ {First(s)}]>>]
BY Zenon DEF IsFold

LEMMA FoldUnique ==
  ASSUME NEW base, NEW step, NEW A, NEW B, NEW T, IsFiniteSet(T), T \subseteq A, T \subseteq B,
         NEW g, IsFold(g, base, step, A), NEW h, IsFold(h, base, step, B)
  PROVE  g[T] = h[T]
<1>. DEFINE P == {s \in SUBSET T : g[s] = h[s]}
<1>1. ASSUME NEW s \in SUBSET T, \A u \in SUBSET s : u # s => u \in P
      PROVE  s \in P
  <2>1. s \in SUBSET A /\ s \in SUBSET B
    OBVIOUS
  <2>2. CASE s = {}
    <3>1. g[s] = base /\ h[s] = base
      BY <2>1, <2>2, FoldAt, Zenon
    <3>. QED BY <3>1
  <2>3. CASE s # {}
    <3>1. s \ {First(s)} \in P
      BY <1>1, <2>3, FirstIn
    <3>2. g[s \ {First(s)}] = h[s \ {First(s)}]
      BY <3>1
    <3>. HIDE DEF P
    <3>3. g[s] = step[<<First(s), g[s \ {First(s)}]>>]
      BY <2>1, <2>3, FoldAt
    <3>4. h[s] = step[<<First(s), h[s \ {First(s)}]>>]
      BY <2>1, <2>3, FoldAt
    <3>. QED BY <3>2, <3>3, <3>4 DEF P
  <2>. QED BY <2>2, <2>3
<1>2. SUBSET T \subseteq P
  <2>. HIDE DEF P
  <2>. QED BY <1>1, FiniteInduction
<1>. QED BY <1>2

LEMMA FoldExists ==
  ASSUME NEW base, NEW step, NEW S, IsFiniteSet(S)
  PROVE  \E g : IsFold(g, base, step, S)
<1>. DEFINE F(s) == CHOOSE g : IsFold(g, base, step, s)
            P == {s \in SUBSET S : IsFold(F(s), base, step, s)}
<1>1. ASSUME NEW T \in SUBSET S, \A U \in SUBSET T : U # T => U \in P
      PROVE  T \in P
  <2>. DEFINE g == [s \in SUBSET T |->
                      IF s = {} THEN base
                      ELSE step[<<First(s), F(s \ {First(s)})[s \ {First(s)}]>>]]
  <2>1. ASSUME NEW s \in SUBSET T, s # T
        PROVE  g[s] = F(s)[s]
    <3>1. IsFold(F(s), base, step, s)
      BY <1>1, <2>1
    <3>2. F(s)[s] = IF s = {} THEN base
                    ELSE step[<<First(s), F(s)[s \ {First(s)}]>>]
      <4>. HIDE DEF F
      <4>. QED BY <3>1, FoldAt
    <3>3. CASE s # {}
      <4>. DEFINE u == s \ {First(s)}
      <4>1. u \in SUBSET s /\ u # s /\ u \in SUBSET T /\ u # T
        BY <3>3, FirstIn
      <4>2. IsFold(F(u), base, step, u) /\ IsFiniteSet(u)
        BY <1>1, <4>1, FS_Subset
      <4>3. F(s)[u] = F(u)[u]
        <5>. HIDE DEF F, u
        <5>. QED BY <3>1, <4>1, <4>2, FoldUnique
      <4>. HIDE DEF F
      <4>. QED BY <3>2, <3>3, <4>3
    <3>. QED BY <3>2, <3>3
  <2>2. ASSUME NEW s \in SUBSET T
        PROVE  g[s] = IF s = {} THEN base ELSE step[<<First(s), g[s \ {First(s)}]>>]
    <3>1. CASE s # {}
      <4>. DEFINE u == s \ {First(s)}
      <4>1. u \in SUBSET T /\ u # T
        BY <3>1, FirstIn
      <4>2. g[u] = F(u)[u]
        BY <2>1, <4>1
      <4>. QED BY <3>1, <4>2
    <3>. QED BY <3>1
  <2>3. IsFold(g, base, step, T)
    <3>1. g = [s \in SUBSET T |-> g[s]]
      OBVIOUS
    <3>. HIDE DEF g
    <3>. QED BY <2>2, <3>1 DEF IsFold
  <2>4. IsFold(F(T), base, step, T)
    <3>. HIDE DEF g
    <3>. QED BY <2>3
  <2>. QED BY <2>4
<1>2. SUBSET S \subseteq P
  <2>. HIDE DEF P
  <2>. QED BY <1>1, FiniteInduction
<1>. QED BY <1>2

\* an injection of a finite set into itself reaches every element
LEMMA InjectionOnto ==
  ASSUME NEW D, IsFiniteSet(D), NEW f \in [D -> D], IsInjective(f)
  PROVE  \A y \in D : \E x \in D : f[x] = y
<1>1. f \in Injection(D, D)
  BY DEF Injection
<1>2. f \in Surjection(D, D)
  BY <1>1, FS_Injection
<1>. QED BY <1>2 DEF Surjection

\* B orders D: nothing comes before itself, and of two one comes before the other
Orders(B, D) ==
    /\ \A i \in D : <<i, i>> \notin B
    /\ \A i, j \in D : i # j => <<i, j>> \in B \/ <<j, i>> \in B
    /\ \A i, j, k \in D : <<i, j>> \in B /\ <<j, k>> \in B => <<i, k>> \in B

\* the finite set 1 .. n can be sorted: to each the number of those before it
LEMMA Sortable ==
  ASSUME NEW n \in Nat, NEW B, Orders(B, 1 .. n)
  PROVE  \E o \in [1 .. n -> 1 .. n] :
            \A i, j \in 1 .. n : i < j => <<o[i], o[j]>> \in B
<1>. DEFINE D == 1 .. n
            Lower(i) == {j \in D : <<j, i>> \in B}
            rank == [i \in D |-> Cardinality(Lower(i)) + 1]
<1>1. IsFiniteSet(D) /\ Cardinality(D) = n
  BY FS_Interval
<1>2. ASSUME NEW i \in D
      PROVE  /\ IsFiniteSet(Lower(i)) /\ Cardinality(Lower(i)) \in Nat
             /\ rank[i] \in D
  <2>1. IsFiniteSet(Lower(i)) /\ Cardinality(Lower(i)) \in Nat
    BY <1>1, FS_Subset, FS_CardinalityType
  <2>2. i \notin Lower(i) /\ Lower(i) \in SUBSET D
    BY DEF Orders
  <2>3. Cardinality(Lower(i)) <= n /\ Cardinality(Lower(i)) # n
    <3>. HIDE DEF Lower, D
    <3>. QED BY <1>1, <2>2, FS_Subset
  <2>. QED BY <2>1, <2>3
<1>3. ASSUME NEW i \in D, NEW k \in D, <<i, k>> \in B
      PROVE  rank[i] < rank[k]
  <2>1. Lower(i) \in SUBSET Lower(k) /\ i \in Lower(k) /\ i \notin Lower(i)
    BY <1>3 DEF Orders
  <2>2. /\ Cardinality(Lower(i)) <= Cardinality(Lower(k))
        /\ Cardinality(Lower(i)) # Cardinality(Lower(k))
    <3>1. IsFiniteSet(Lower(k))
      BY <1>2
    <3>. HIDE DEF Lower
    <3>. QED BY <2>1, <3>1, FS_Subset
  <2>3. Cardinality(Lower(i)) \in Nat /\ Cardinality(Lower(k)) \in Nat
    BY <1>2
  <2>. HIDE DEF Lower
  <2>. QED BY <2>2, <2>3
<1>4. rank \in [D -> D]
  BY <1>2
<1>. HIDE DEF rank
<1>5. IsInjective(rank)
  <2>1. ASSUME NEW i \in D, NEW j \in D, rank[i] = rank[j] PROVE i = j
    <3>1. rank[i] \in Nat /\ rank[j] \in Nat
      BY <1>4
    <3>2. i # j => <<i, j>> \in B \/ <<j, i>> \in B
      BY DEF Orders
    <3>. QED BY <1>3, <2>1, <3>1, <3>2
  <2>. QED BY <1>4, <2>1 DEF IsInjective
<1>6. \A y \in D : \E x \in D : rank[x] = y
  BY <1>1, <1>4, <1>5, InjectionOnto
<1>. DEFINE o == [y \in D |-> CHOOSE x \in D : rank[x] = y]
<1>7. \A y \in D : o[y] \in D /\ rank[o[y]] = y
  BY <1>6
<1>8. o \in [D -> D]
  BY <1>7
<1>. HIDE DEF o
<1>9. ASSUME NEW i \in D, NEW j \in D, i < j PROVE <<o[i], o[j]>> \in B
  <2>1. /\ o[i] \in D /\ rank[o[i]] = i
        /\ o[j] \in D /\ rank[o[j]] = j
    BY <1>7
  <2>2. o[i] # o[j]
    BY <1>9, <2>1
  <2>3. ~(rank[o[j]] < rank[o[i]])
    BY <1>9, <2>1
  <2>4. <<o[j], o[i]>> \notin B
    BY <1>3, <2>1, <2>3
  <2>. QED BY <2>1, <2>2, <2>4 DEF Orders
<1>. QED BY <1>8, <1>9

-----------------------------------------------------------------------------
(* The budget                                                              *)

LEMMA KbCovers ==
  ASSUME NEW bytes \in Nat
  PROVE  Kb(bytes) \in Nat /\ bytes <= 1024 * Kb(bytes)
  BY DEF Kb

Charge(len) == [p \in Map \X Nat |-> Kb(len[p[1]]) + p[2]]




LEMMA ChargeFold ==
  ASSUME NEW len \in [Map -> Nat], NEW g, IsFold(g, 0, Charge(len), Map)
  PROVE  /\ g \in [SUBSET Map -> Nat]
         /\ g[{}] = 0
         /\ \A T \in SUBSET Map : T # {} =>
               g[T] = Kb(len[First(T)]) + g[T \ {First(T)}]
<1>. DEFINE P == {T \in SUBSET Map : g[T] \in Nat}
<1>0. IsFiniteSet(Map)
  BY MapAssumption
<1>1. ASSUME NEW T \in SUBSET Map, T # {}, g[T \ {First(T)}] \in Nat
      PROVE  /\ g[T] = Kb(len[First(T)]) + g[T \ {First(T)}]
             /\ Kb(len[First(T)]) \in Nat
  <2>1. First(T) \in Map
    BY <1>1, FirstIn
  <2>2. Kb(len[First(T)]) \in Nat
    BY <2>1, KbCovers
  <2>3. g[T] = Charge(len)[<<First(T), g[T \ {First(T)}]>>]
    BY <1>1, FoldAt
  <2>4. <<First(T), g[T \ {First(T)}]>> \in Map \X Nat
    BY <1>1, <2>1
  <2>. QED BY <2>2, <2>3, <2>4 DEF Charge
<1>2. g[{}] = 0
  BY FoldAt
<1>3. ASSUME NEW T \in SUBSET Map, \A U \in SUBSET T : U # T => U \in P
      PROVE  T \in P
  <2>1. CASE T = {}
    BY <1>2, <2>1
  <2>2. CASE T # {}
    <3>1. T \ {First(T)} \in P
      BY <1>3, <2>2, FirstIn
    <3>2. g[T \ {First(T)}] \in Nat
      BY <3>1
    <3>3. g[T] \in Nat
      <4>. HIDE DEF P
      <4>. QED BY <1>1, <2>2, <3>2
    <3>. QED BY <3>3
  <2>. QED BY <2>1, <2>2
<1>4. SUBSET Map \subseteq P
  <2>. HIDE DEF P
  <2>. QED BY <1>0, <1>3, FiniteInduction
<1>5. \A T \in SUBSET Map : g[T] \in Nat
  BY <1>4
<1>6. g \in [SUBSET Map -> Nat]
  <2>1. g = [s \in SUBSET Map |-> g[s]]
    BY Zenon DEF IsFold
  <2>. QED BY <1>5, <2>1
<1>7. ASSUME NEW T \in SUBSET Map, T # {}
      PROVE  g[T] = Kb(len[First(T)]) + g[T \ {First(T)}]
  <2>1. g[T \ {First(T)}] \in Nat
    BY <1>5, <1>7, FirstIn
  <2>. QED BY <1>1, <1>7, <2>1
<1>. QED BY <1>2, <1>6, <1>7

\* any map of T may be taken first
LEMMA ChargeAny ==
  ASSUME NEW len \in [Map -> Nat], NEW g, IsFold(g, 0, Charge(len), Map),
         NEW X \in SUBSET Map, NEW m \in X
  PROVE  g[X] = Kb(len[m]) + g[X \ {m}]
<1>. DEFINE P == {T \in SUBSET Map : \A n \in T : g[T] = Kb(len[n]) + g[T \ {n}]}
<1>0. IsFiniteSet(Map)
  BY MapAssumption
<1>1. /\ \A T \in SUBSET Map : g[T] \in Nat
      /\ \A T \in SUBSET Map : T # {} =>
            g[T] = Kb(len[First(T)]) + g[T \ {First(T)}]
  BY ChargeFold
<1>2. \A n \in Map : Kb(len[n]) \in Nat
  BY KbCovers
<1>3. ASSUME NEW T \in SUBSET Map, \A U \in SUBSET T : U # T => U \in P, NEW n \in T
      PROVE  g[T] = Kb(len[n]) + g[T \ {n}]
  <2>. DEFINE f == First(T)
  <2>1. f \in T /\ g[T] = Kb(len[f]) + g[T \ {f}] /\ T \ {f} \in SUBSET T /\ T \ {f} # T
    BY <1>1, FirstIn
  <2>. HIDE DEF f
  <2>2. CASE f # n
    <3>1. T \ {f} \in P /\ T \ {n} \in P /\ n \in T \ {f} /\ f \in T \ {n}
      BY <1>3, <2>1, <2>2
    <3>2. /\ g[T \ {f}] = Kb(len[n]) + g[(T \ {f}) \ {n}]
          /\ g[T \ {n}] = Kb(len[f]) + g[(T \ {n}) \ {f}]
      BY <3>1
    <3>. DEFINE rest == g[(T \ {n}) \ {f}]
    <3>3. g[(T \ {f}) \ {n}] = rest
      <4>1. (T \ {f}) \ {n} = (T \ {n}) \ {f}
        OBVIOUS
      <4>. QED BY <4>1
    <3>. HIDE DEF P
    <3>4. Kb(len[n]) \in Nat /\ Kb(len[f]) \in Nat /\ rest \in Nat
      BY <1>1, <1>2, <2>1
    <3>. HIDE DEF rest
    <3>5. g[T \ {f}] = Kb(len[n]) + rest /\ g[T \ {n}] = Kb(len[f]) + rest
      BY <3>2, <3>3 DEF rest
    <3>. QED BY <2>1, <3>4, <3>5
  <2>. QED BY <2>1, <2>2
<1>4. SUBSET Map \subseteq P
  <2>1. \A T \in SUBSET Map : (\A U \in SUBSET T : U # T => U \in P) => T \in P
    BY <1>3
  <2>. HIDE DEF P
  <2>. QED BY <1>0, <2>1, FiniteInduction
<1>. QED BY <1>4

\* the sum of the community modules is the fold
LEMMA SumIsFold ==
  ASSUME NEW len \in [Map -> Nat], NEW g, IsFold(g, 0, Charge(len), Map),
         NEW X \in SUBSET Map
  PROVE  SumKb(len, X) = g[X]
<1>. DEFINE Raw(it) == it = [s \in SUBSET X |->
                                IF s = {} THEN 0
                                ELSE Kb(len[First(s)]) + it[s \ {First(s)}]]
<1>0. IsFiniteSet(X)
  BY MapAssumption, FS_Subset
<1>1. /\ g[{}] = 0
      /\ \A T \in SUBSET Map : T # {} =>
            g[T] = Kb(len[First(T)]) + g[T \ {First(T)}]
  BY ChargeFold
<1>2. \E it : Raw(it)
  <2>. DEFINE h == [s \in SUBSET X |-> g[s]]
  <2>1. ASSUME NEW s \in SUBSET X, s # {}
        PROVE  h[s] = Kb(len[First(s)]) + h[s \ {First(s)}]
    <3>1. s \ {First(s)} \in SUBSET X /\ s \in SUBSET Map
      BY <2>1
    <3>. QED BY <1>1, <2>1, <3>1
  <2>2. h[{}] = 0
    BY <1>1
  <2>3. h = [s \in SUBSET X |-> h[s]]
    OBVIOUS
  <2>. HIDE DEF h
  <2>4. Raw(h)
    BY <2>1, <2>2, <2>3, Zenon
  <2>. HIDE DEF Raw
  <2>. QED BY <2>4
<1>. DEFINE iter == CHOOSE it : Raw(it)
<1>3. Raw(iter)
  <2>. HIDE DEF Raw
  <2>. QED BY <1>2
<1>4. SumKb(len, X) = iter[X]
  BY DEF SumKb, MapThenSumSet, MapThenFoldSet, First
<1>. HIDE DEF iter
<1>5. /\ iter[{}] = 0
      /\ \A s \in SUBSET X : s # {} => iter[s] = Kb(len[First(s)]) + iter[s \ {First(s)}]
  BY <1>3, Zenon
<1>. DEFINE P == {s \in SUBSET X : iter[s] = g[s]}
<1>6. ASSUME NEW s \in SUBSET X, \A u \in SUBSET s : u # s => u \in P
      PROVE  s \in P
  <2>1. CASE s # {}
    <3>1. s \ {First(s)} \in P
      BY <1>6, <2>1, FirstIn
    <3>. QED BY <1>1, <1>5, <2>1, <3>1
  <2>. QED BY <1>1, <1>5, <2>1
<1>7. SUBSET X \subseteq P
  <2>. HIDE DEF P, Raw
  <2>. QED BY <1>0, <1>6, FiniteInduction
<1>. QED BY <1>4, <1>7

\* what the rest of the proofs know of the sum
LEMMA SumGrows ==
  ASSUME NEW len \in [Map -> Nat], NEW X \in SUBSET Map
  PROVE  /\ SumKb(len, X) \in Nat
         /\ SumKb(len, {}) = 0
         /\ \A m \in Map \ X : SumKb(len, X \cup {m}) = Kb(len[m]) + SumKb(len, X)
<1>0. \E g : IsFold(g, 0, Charge(len), Map)
  BY MapAssumption, FoldExists
<1>1. PICK g : IsFold(g, 0, Charge(len), Map)
  BY <1>0
<1>2. g[X] \in Nat /\ g[{}] = 0
  BY <1>1, ChargeFold
<1>3. ASSUME NEW m \in Map \ X PROVE g[X \cup {m}] = Kb(len[m]) + g[X]
  <2>1. (X \cup {m}) \ {m} = X
    OBVIOUS
  <2>. QED BY <1>1, <2>1, ChargeAny
<1>4. \A T \in SUBSET Map : SumKb(len, T) = g[T]
  BY <1>1, SumIsFold
<1>. QED BY <1>2, <1>3, <1>4

-----------------------------------------------------------------------------
(* The plan                                                                *)

\* what Order is, whenever the selected maps have their scores and keys
LEMMA OrderSorts ==
  ASSUME input \in Input, selected \in Seq(Map)
  PROVE  /\ Order \in [DOMAIN selected -> DOMAIN selected]
         /\ \A i, j \in DOMAIN selected : i < j => Before(Order[i], Order[j])
<1>. DEFINE D == DOMAIN selected
            B == {p \in D \X D : Before(p[1], p[2])}
<1>1. Len(selected) \in Nat /\ D = 1 .. Len(selected) /\ \A i \in D : selected[i] \in Map
  BY LenProperties, ElementOfSeq
<1>2. \A i \in D : input.score[selected[i]] \in Nat
  BY <1>1, NumbersAssumption DEF Input
<1>3. \A i \in D : input.key[selected[i]] \in Nat \/ input.key[selected[i]] = None
  BY <1>1, NumbersAssumption DEF Input
<1>4. \A i, j \in D : <<i, j>> \in B <=> Before(i, j)
  BY Zenon
<1>5. None \notin Nat /\ D \subseteq Nat
  BY <1>1, NumbersAssumption
<1>6. Orders(B, D)
  <2>. HIDE DEF B, D
  <2>1. \A i \in D : ~Before(i, i)
    BY <1>2, <1>3, <1>5 DEF Before, KeyBefore
  <2>2. ASSUME NEW i \in D, NEW j \in D, i # j PROVE Before(i, j) \/ Before(j, i)
    <3>1. i < j \/ j < i
      BY <1>5, <2>2
    <3>. QED BY <1>2, <1>3, <3>1, <1>5 DEF Before, KeyBefore
  <2>3. ASSUME NEW i \in D, NEW j \in D, NEW k \in D, Before(i, j), Before(j, k)
        PROVE  Before(i, k)
    <3>1. i \in Nat /\ j \in Nat /\ k \in Nat
      BY <1>5
    <3>2. KeyBefore(i, j) /\ KeyBefore(j, k) => KeyBefore(i, k)
      BY <1>3, <1>5, <3>1 DEF KeyBefore
    <3>. DEFINE a == input.score[selected[i]]
                b == input.score[selected[j]]
                c == input.score[selected[k]]
    <3>3. a \in Nat /\ b \in Nat /\ c \in Nat
      BY <1>2
    <3>4. /\ a > b \/ (a = b /\ KeyBefore(i, j))
          /\ b > c \/ (b = c /\ KeyBefore(j, k))
      BY <2>3 DEF Before
    <3>. HIDE DEF a, b, c
    <3>5. a > c \/ (a = c /\ KeyBefore(i, k))
      BY <3>2, <3>3, <3>4
    <3>. QED BY <3>5 DEF Before, a, c
  <2>. QED BY <1>4, <2>1, <2>2, <2>3 DEF Orders
<1>7. \E o \in [D -> D] : \A i, j \in D : i < j => <<o[i], o[j]>> \in B
  <2>. HIDE DEF B, D
  <2>. QED BY <1>1, <1>6, Sortable
<1>8. \E o \in [D -> D] : \A i, j \in D : i < j => Before(o[i], o[j])
  <2>1. PICK o \in [D -> D] : \A i, j \in D : i < j => <<o[i], o[j]>> \in B
    BY <1>7
  <2>2. \A i, j \in D : i < j => Before(o[i], o[j])
    <3>. HIDE DEF B, D
    <3>. QED BY <1>4, <2>1
  <2>. QED BY <2>2
<1>. QED BY <1>8, Zenon DEF Order

\* a plan names the maps that were selected, each once, by descending score
LEMMA FinishSorts ==
  ASSUME Finish, input \in Input, selected \in Seq(Map), TieBreakOnly
  PROVE  /\ selected' \in Seq(Map)
         /\ ToSet(selected') = ToSet(selected)
         /\ TieBreakOnly'
<1>. DEFINE D == DOMAIN selected
<1>1. Len(selected) \in Nat /\ D = 1 .. Len(selected) /\ \A i \in D : selected[i] \in Map
  BY LenProperties, ElementOfSeq
<1>2. input' = input
  BY DEF Finish
<1>3. CASE input.sort = "None"
  BY <1>2, <1>3 DEF Finish, TieBreakOnly
<1>4. CASE input.sort # "None"
  <2>. DEFINE o == Order
  <2>1. o \in [D -> D] /\ \A i, j \in D : i < j => Before(o[i], o[j])
    BY OrderSorts
  <2>2. selected' = [i \in D |-> selected[o[i]]]
    BY <1>4 DEF Finish
  <2>. HIDE DEF o
  <2>3. selected' \in Seq(Map) /\ DOMAIN selected' = D
    BY <1>1, <2>1, <2>2
  <2>4. \A i \in D : input.score[selected[i]] \in Nat
    BY <1>1, NumbersAssumption DEF Input
  <2>5. ASSUME NEW i \in D, NEW j \in D, i < j
        PROVE  /\ o[i] # o[j]
               /\ input.score[selected[o[i]]] >= input.score[selected[o[j]]]
    <3>1. Before(o[i], o[j]) /\ o[i] \in D /\ o[j] \in D
      BY <2>1, <2>5
    <3>2. input.score[selected[o[i]]] >= input.score[selected[o[j]]]
      BY <2>4, <3>1 DEF Before
    <3>3. ~Before(o[i], o[i])
      <4>1. input.score[selected[o[i]]] \in Nat /\ o[i] \in Nat
        BY <1>1, <2>4, <3>1
      <4>2. input.key[selected[o[i]]] \in Nat \/ input.key[selected[o[i]]] = None
        BY <1>1, <3>1, NumbersAssumption DEF Input
      <4>. QED BY <4>1, <4>2, NumbersAssumption DEF Before, KeyBefore
    <3>4. o[i] # o[j]
      <4>. SUFFICES ASSUME o[i] = o[j] PROVE FALSE
        OBVIOUS
      <4>. HIDE DEF D
      <4>. QED BY <3>1, <3>3
    <3>. QED BY <3>2, <3>4
  <2>6. IsInjective(o)
    <3>1. ASSUME NEW i \in D, NEW j \in D, o[i] = o[j] PROVE i = j
      <4>1. ~(i < j) /\ ~(j < i)
        BY <2>5, <3>1
      <4>. QED BY <1>1, <4>1
    <3>. QED BY <2>1, <3>1 DEF IsInjective
  <2>7. \A y \in D : \E x \in D : o[x] = y
    <3>1. IsFiniteSet(D)
      BY <1>1, FS_Interval
    <3>. QED BY <2>1, <2>6, <3>1, InjectionOnto
  <2>8. ToSet(selected') = ToSet(selected)
    <3>. HIDE DEF D
    <3>1. \A i \in D : selected'[i] = selected[o[i]] /\ o[i] \in D
      BY <2>1, <2>2
    <3>2. ToSet(selected') = {selected'[i] : i \in D} /\ ToSet(selected) = {selected[i] : i \in D}
      BY <2>3 DEF ToSet, D
    <3>. QED BY <2>7, <3>1, <3>2
  <2>9. TieBreakOnly'
    <3>1. \A i, j \in D : i < j => input.score[selected'[i]] >= input.score[selected'[j]]
      BY <2>2, <2>5
    <3>2. \A i, j \in D : selected'[i] = selected'[j] => i = j
      BY <2>1, <2>2, <2>6 DEF TieBreakOnly, IsInjective
    <3>. QED BY <1>2, <2>3, <3>1, <3>2 DEF TieBreakOnly, IsInjective
  <2>. QED BY <2>3, <2>8, <2>9
<1>. QED BY <1>3, <1>4

LEMMA ToSetAppend ==
  ASSUME NEW s \in Seq(Map), NEW m \in Map
  PROVE  /\ Append(s, m) \in Seq(Map)
         /\ ToSet(Append(s, m)) = ToSet(s) \cup {m}
         /\ Len(s) \in Nat /\ DOMAIN s = 1 .. Len(s) /\ DOMAIN Append(s, m) = 1 .. Len(s) + 1
         /\ \A i \in 1 .. Len(s) : Append(s, m)[i] = s[i]
         /\ Append(s, m)[Len(s) + 1] = m
<1>1. /\ Append(s, m) \in Seq(Map)
      /\ Len(s) \in Nat /\ DOMAIN s = 1 .. Len(s) /\ DOMAIN Append(s, m) = 1 .. Len(s) + 1
      /\ \A i \in 1 .. Len(s) : Append(s, m)[i] = s[i]
      /\ Append(s, m)[Len(s) + 1] = m
  BY AppendProperties, LenProperties
<1>2. ASSUME NEW n PROVE n \in ToSet(Append(s, m)) <=> n \in ToSet(s) \cup {m}
  <2>1. ASSUME n \in ToSet(Append(s, m)) PROVE n \in ToSet(s) \cup {m}
    <3>1. PICK i \in 1 .. Len(s) + 1 : n = Append(s, m)[i]
      BY <1>1, <2>1 DEF ToSet
    <3>. QED BY <1>1, <3>1 DEF ToSet
  <2>2. ASSUME n \in ToSet(s) PROVE n \in ToSet(Append(s, m))
    <3>1. PICK i \in 1 .. Len(s) : n = s[i]
      BY <1>1, <2>2 DEF ToSet
    <3>2. i \in 1 .. Len(s) + 1 /\ n = Append(s, m)[i]
      BY <1>1, <3>1
    <3>. QED BY <1>1, <3>2 DEF ToSet
  <2>3. m \in ToSet(Append(s, m))
    <3>1. Len(s) + 1 \in 1 .. Len(s) + 1
      BY <1>1
    <3>. QED BY <1>1, <3>1 DEF ToSet
  <2>. QED BY <2>1, <2>2, <2>3
<1>. QED BY <1>1, <1>2

LEMMA InputFields ==
  ASSUME NEW in \in Input
  PROVE  /\ in.length \in [Map -> Lengths]
         /\ in.policy.memtotal \in Int /\ in.policy.memavailable \in Int
         /\ in.mem.total \in Nat /\ in.mem.available \in Nat
<1>1. in.policy \in [memtotal : Int, memavailable : Int]
  BY PoliciesAssumption DEF Input
<1>2. in.mem \in [total : Nat, available : Nat]
  BY MemStatsAssumption DEF Input
<1>3. in.length \in [Map -> Lengths]
  BY DEF Input
<1> QED BY <1>1, <1>2, <1>3

LEMMA ClampRange ==
  ASSUME NEW percent \in Int
  PROVE  /\ Clamp(percent) \in -100 .. 100
         /\ percent <= 0 => Clamp(percent) <= 0
  BY DEF Clamp

\* rounding toward zero keeps the sign and a bound of the share
LEMMA PercentBounds ==
  ASSUME NEW n \in Int
  PROVE  /\ Percent(n) \in Int
         /\ n <= 0 => Percent(n) <= 0
         /\ \A k \in Nat : n <= 100 * k => Percent(n) <= k
  BY DEF Percent

LEMMA Shares ==
  ASSUME NEW p \in -100 .. 100, NEW k \in Nat
  PROVE  p * k \in Int /\ p * k <= 100 * k /\ (p <= 0 => p * k <= 0)
  OBVIOUS

LEMMA AvailableKbBounds ==
  ASSUME NEW in \in Input
  PROVE  /\ AvailableKb(in.policy, in.mem) \in Nat
         /\ in.policy.memtotal <= 0 => AvailableKb(in.policy, in.mem) <= in.mem.available
<1> DEFINE t == Clamp(in.policy.memtotal) * in.mem.total
           a == Clamp(in.policy.memavailable) * in.mem.available
<1>1. /\ in.policy.memtotal \in Int /\ in.policy.memavailable \in Int
      /\ in.mem.total \in Nat /\ in.mem.available \in Nat
  BY InputFields
<1>2. t \in Int /\ (in.policy.memtotal <= 0 => t <= 0)
  BY <1>1, ClampRange, Shares
<1>3. a \in Int /\ a <= 100 * in.mem.available
  BY <1>1, ClampRange, Shares
<1>4. Percent(t) \in Int /\ (in.policy.memtotal <= 0 => Percent(t) <= 0)
  BY <1>2, PercentBounds
<1>5. Percent(a) \in Int /\ Percent(a) <= in.mem.available
  BY <1>1, <1>3, PercentBounds
<1>6. AvailableKb(in.policy, in.mem) = IF Percent(t) + Percent(a) > 0
                                       THEN Percent(t) + Percent(a) ELSE 0
  BY DEF AvailableKb
<1> HIDE DEF t, a
<1> QED BY <1>1, <1>4, <1>5, <1>6

LEMMA AvailableType == ASSUME input \in Input PROVE Available \in Nat
  BY AvailableKbBounds DEF Available


-----------------------------------------------------------------------------
(* The loop and the final sort                                             *)

\* what the loop has taken from the budget covers what it has selected
BudgetSpent == total_bytes <= 1024 * (Available - budget_kb)

\* the budget is spent on what is selected, and on nothing else
Spent == budget_kb = Available - SumKb(input.length, ToSet(selected))

\* what the loop may still choose scores no higher than what it has chosen
Descending ==
    pc = "greedy" => \A m \in items, n \in ToSet(selected) : input.score[n] >= input.score[m]

IInv ==
    /\ TypeOK
    /\ items \subseteq Candidates
    /\ ToSet(selected) \subseteq Candidates \ items
    /\ BudgetSpent
    /\ Spent
    /\ Descending
    /\ TieBreakOnly
    /\ LeftOutDidNotFit

\* the numbers that a step computes with
LEMMA Numbers ==
  ASSUME TypeOK
  PROVE  /\ \A m \in Map : input.score[m] \in Nat /\ input.length[m] \in Nat
         /\ \A m \in Map : /\ Kb(input.length[m]) \in Nat
                            /\ input.length[m] <= 1024 * Kb(input.length[m])
         /\ input.length \in [Map -> Nat]
         /\ Available \in Nat
         /\ ToSet(selected) \in SUBSET Map
<1>1. input.score \in [Map -> Nat] /\ input.length \in [Map -> Nat]
  BY NumbersAssumption DEF TypeOK, Input
<1>2. Available \in Nat
  BY AvailableType DEF TypeOK
<1>3. ToSet(selected) \in SUBSET Map
  BY ElementOfSeq, LenProperties DEF TypeOK, ToSet
<1>. QED BY <1>1, <1>2, <1>3, KbCovers

LEMMA InitHolds == ASSUME Init PROVE IInv
<1>1. input \in Input /\ Available \in Nat
  BY AvailableType DEF Init
<1>2. items = Candidates /\ selected = <<>> /\ ToSet(selected) = {}
  BY DEF Init, Called, ToSet
<1>3. TypeOK /\ BudgetSpent
  BY <1>1, <1>2 DEF Init, Called, Candidates, TypeOK, BudgetSpent
<1>4. Spent
  <2>1. SumKb(input.length, {}) = 0
    BY <1>3, Numbers, SumGrows
  <2>2. SumKb(input.length, ToSet(selected)) = 0
    BY <1>2, <2>1
  <2>. QED BY <1>1, <2>2 DEF Init, Called, Spent
<1>5. Descending /\ TieBreakOnly /\ LeftOutDidNotFit
  BY <1>2, <1>1, NumbersAssumption
  DEF Descending, TieBreakOnly, IsInjective, LeftOutDidNotFit, Candidates, Input
<1>. QED BY <1>2, <1>3, <1>4, <1>5 DEF IInv

\* a selected map is charged at least its bytes, and scores no higher than those before it
LEMMA SelectKeeps ==
  ASSUME IInv, pc = "greedy", NEW m \in Best, Select(m), UNCHANGED <<pc, input>>
  PROVE  IInv'
<1>. DEFINE charge == Kb(input.length[m])
            bytes == input.length[m]
<1>1. /\ TypeOK /\ m \in items /\ m \in Map /\ m \notin ToSet(selected)
      /\ \A n \in items : input.score[n] <= input.score[m]
      /\ budget_kb \in Nat /\ total_bytes \in Nat
  BY DEF IInv, TypeOK, Best
<1>2. charge \in Nat /\ bytes \in Nat /\ bytes <= 1024 * charge
  BY <1>1, Numbers
<1>3. Available \in Nat /\ Available' = Available /\ Candidates' = Candidates
  BY <1>1, Numbers DEF Available, Candidates
<1>4. /\ charge <= budget_kb /\ budget_kb' = budget_kb - charge
      /\ total_bytes' = total_bytes + bytes
      /\ items' = items \ {m} /\ selected' = Append(selected, m)
      /\ pc' = pc /\ input' = input
  BY DEF Select
<1>5. /\ selected' \in Seq(Map) /\ ToSet(selected') = ToSet(selected) \cup {m}
      /\ Len(selected) \in Nat /\ DOMAIN selected = 1 .. Len(selected)
      /\ DOMAIN selected' = 1 .. Len(selected) + 1
      /\ \A i \in 1 .. Len(selected) : selected'[i] = selected[i]
      /\ selected'[Len(selected) + 1] = m
  BY <1>1, <1>4, ToSetAppend DEF TypeOK
<1>6. TypeOK'
  <2>. HIDE DEF charge, bytes
  <2>. QED BY <1>1, <1>2, <1>4, <1>5 DEF TypeOK
<1>7. items' \subseteq Candidates' /\ ToSet(selected') \subseteq Candidates' \ items'
  BY <1>1, <1>3, <1>4, <1>5 DEF IInv
<1>8. BudgetSpent'
  <2>. HIDE DEF charge, bytes
  <2>. QED BY <1>1, <1>2, <1>3, <1>4 DEF IInv, BudgetSpent
<1>9. /\ SumKb(input.length, ToSet(selected)) \in Nat
      /\ SumKb(input.length, ToSet(selected')) = charge + SumKb(input.length, ToSet(selected))
  <2>. DEFINE S == ToSet(selected)
  <2>1. input.length \in [Map -> Nat] /\ S \in SUBSET Map /\ m \in Map \ S
    BY <1>1, Numbers
  <2>2. ToSet(selected') = S \cup {m}
    BY <1>5
  <2>. HIDE DEF S
  <2>3. /\ SumKb(input.length, S) \in Nat
        /\ SumKb(input.length, S \cup {m}) = charge + SumKb(input.length, S)
    BY <2>1, SumGrows
  <2>. QED BY <2>2, <2>3 DEF S
<1>10. Spent'
  <2>. DEFINE sum == SumKb(input.length, ToSet(selected))
  <2>1. budget_kb = Available - sum /\ sum \in Nat
    BY <1>9 DEF IInv, Spent
  <2>2. SumKb(input'.length, ToSet(selected')) = charge + sum
    BY <1>4, <1>9
  <2>. HIDE DEF sum, charge
  <2>3. budget_kb' = Available' - SumKb(input'.length, ToSet(selected'))
    BY <1>2, <1>3, <1>4, <2>1, <2>2
  <2>. QED BY <2>3 DEF Spent
<1>11. \A n \in ToSet(selected) : input.score[n] >= input.score[m]
  BY <1>1 DEF IInv, Descending
<1>12. Descending'
  BY <1>1, <1>4, <1>5, Numbers DEF IInv, Descending
<1>13. TieBreakOnly'
  <2>1. ASSUME NEW i \in DOMAIN selected', NEW j \in DOMAIN selected'
        PROVE  /\ i < j => input.score[selected'[i]] >= input.score[selected'[j]]
               /\ selected'[i] = selected'[j] => i = j
    <3>1. \A k \in DOMAIN selected : selected'[k] \in ToSet(selected)
      BY <1>5 DEF ToSet
    <3>2. CASE i \in DOMAIN selected /\ j \in DOMAIN selected
      BY <1>5, <3>2 DEF IInv, TieBreakOnly, IsInjective
    <3>3. CASE i \in DOMAIN selected /\ j = Len(selected) + 1
      BY <1>1, <1>5, <1>11, <3>1, <3>3
    <3>4. CASE i = Len(selected) + 1 /\ j \in DOMAIN selected
      BY <1>1, <1>5, <3>1, <3>4
    <3>. QED BY <1>5, <3>2, <3>3, <3>4
  <2>. QED BY <1>4, <2>1 DEF TieBreakOnly, IsInjective
<1>14. LeftOutDidNotFit'
  <2>1. ASSUME NEW x \in Map \ (items' \cup ToSet(selected')), input.score[x] > 0
        PROVE  Kb(input.length[x]) > Available - ClaimedBefore(x)'
    <3>. DEFINE X == {n \in ToSet(selected) : input.score[n] >= input.score[x]}
                Y == {n \in ToSet(selected') : input.score[n] >= input.score[x]}
    <3>1. Kb(input.length[x]) > Available - ClaimedBefore(x)
      BY <1>4, <1>5, <2>1 DEF IInv, LeftOutDidNotFit
    <3>2. ClaimedBefore(x) = SumKb(input.length, X) /\ ClaimedBefore(x)' = SumKb(input.length, Y)
      BY <1>4 DEF ClaimedBefore, AtLeast
    <3>3. X \in SUBSET Map /\ m \notin X /\ (Y = X \/ Y = X \cup {m})
      <4>1. X \in SUBSET Map /\ m \notin X
        BY <1>1, Numbers
      <4>2. CASE input.score[m] >= input.score[x]
        <5>1. Y = X \cup {m}
          BY <1>5, <4>2
        <5>. QED BY <4>1, <5>1
      <4>3. CASE ~(input.score[m] >= input.score[x])
        <5>1. Y = X
          BY <1>5, <4>3
        <5>. QED BY <4>1, <5>1
      <4>. QED BY <4>2, <4>3
    <3>. HIDE DEF X, Y
    <3>4. /\ SumKb(input.length, X) \in Nat
          /\ SumKb(input.length, X \cup {m}) = charge + SumKb(input.length, X)
      BY <1>1, <3>3, Numbers, SumGrows
    <3>5. Kb(input.length[x]) \in Nat
      BY <1>1, Numbers
    <3>. HIDE DEF charge
    <3>6. /\ ClaimedBefore(x) \in Nat /\ ClaimedBefore(x)' \in Nat
          /\ ClaimedBefore(x)' >= ClaimedBefore(x)
      <4>1. CASE Y = X
        BY <3>2, <3>4, <4>1
      <4>2. CASE Y = X \cup {m}
        BY <1>2, <3>2, <3>4, <4>2
      <4>. QED BY <3>3, <4>1, <4>2
    <3>. QED BY <1>3, <3>1, <3>5, <3>6
  <2>. QED BY <1>3, <1>4, <2>1 DEF LeftOutDidNotFit
<1>. QED BY <1>6, <1>7, <1>8, <1>10, <1>12, <1>13, <1>14 DEF IInv

\* all that is selected scores at least as high as a map that does not fit
LEMMA SkipKeeps ==
  ASSUME IInv, pc = "greedy", NEW m \in Best, Skip(m), UNCHANGED <<pc, input>>
  PROVE  IInv'
<1>1. /\ TypeOK /\ m \in items /\ m \in Map /\ m \notin ToSet(selected)
  BY DEF IInv, TypeOK, Best
<1>2. /\ UNCHANGED <<budget_kb, total_bytes, selected, pc, input>>
      /\ items' = items \ {m} /\ Kb(input.length[m]) > budget_kb
  BY DEF Skip
<1>3. Available' = Available /\ Candidates' = Candidates
  BY <1>2 DEF Available, Candidates
<1>4. TypeOK' /\ BudgetSpent' /\ Spent' /\ TieBreakOnly'
  BY <1>2, <1>3 DEF IInv, TypeOK, BudgetSpent, Spent, TieBreakOnly
<1>5. items' \subseteq Candidates' /\ ToSet(selected') \subseteq Candidates' \ items'
  BY <1>2, <1>3 DEF IInv
<1>6. Descending'
  BY <1>2 DEF IInv, Descending
<1>7. LeftOutDidNotFit'
  <2>1. ASSUME NEW x \in Map \ (items' \cup ToSet(selected')), input.score[x] > 0
        PROVE  Kb(input.length[x]) > Available - ClaimedBefore(x)
    <3>1. CASE x = m
      <4>1. {n \in ToSet(selected) : input.score[n] >= input.score[m]} = ToSet(selected)
        BY <1>1 DEF IInv, Descending
      <4>2. ClaimedBefore(m) = SumKb(input.length, ToSet(selected))
        BY <4>1 DEF ClaimedBefore, AtLeast
      <4>. QED BY <1>2, <3>1, <4>2 DEF IInv, Spent
    <3>2. CASE x # m
      BY <1>2, <2>1, <3>2 DEF IInv, LeftOutDidNotFit
    <3>. QED BY <3>1, <3>2
  <2>2. \A x : ClaimedBefore(x)' = ClaimedBefore(x)
    BY <1>2 DEF ClaimedBefore, AtLeast
  <2>. QED BY <1>2, <1>3, <2>1, <2>2 DEF LeftOutDidNotFit
<1>. QED BY <1>4, <1>5, <1>6, <1>7 DEF IInv

LEMMA FinishKeeps == ASSUME IInv, Finish PROVE IInv'
<1>1. /\ UNCHANGED <<input, items, budget_kb, total_bytes>> /\ pc' = "returned"
  BY DEF Finish
<1>2. selected' \in Seq(Map) /\ ToSet(selected') = ToSet(selected) /\ TieBreakOnly'
  BY FinishSorts DEF IInv, TypeOK
<1>3. Available' = Available /\ Candidates' = Candidates
  BY <1>1 DEF Available, Candidates
<1>4. TypeOK' /\ BudgetSpent' /\ Spent' /\ Descending'
  BY <1>1, <1>2, <1>3 DEF IInv, TypeOK, BudgetSpent, Spent, Descending
<1>5. \A x : ClaimedBefore(x)' = ClaimedBefore(x)
  BY <1>1, <1>2 DEF ClaimedBefore, AtLeast
<1>6. LeftOutDidNotFit'
  BY <1>1, <1>2, <1>3, <1>5 DEF IInv, LeftOutDidNotFit
<1>. QED BY <1>1, <1>2, <1>3, <1>4, <1>6 DEF IInv

LEMMA StepKeeps == IInv /\ [Next]_vars => IInv'
<1> SUFFICES ASSUME IInv, [Next]_vars PROVE IInv'
  OBVIOUS
<1>1. CASE UNCHANGED vars
  BY <1>1 DEF vars, IInv, TypeOK, BudgetSpent, Spent, Descending, Available, Candidates,
              TieBreakOnly, LeftOutDidNotFit, ClaimedBefore, AtLeast
<1>2. CASE Consider
  <2>1. PICK m \in Best : Select(m) \/ Skip(m)
    BY <1>2 DEF Consider
  <2>2. pc = "greedy" /\ UNCHANGED <<pc, input>>
    BY <1>2 DEF Consider
  <2> QED BY <2>1, <2>2, SelectKeeps, SkipKeeps
<1>3. CASE Finish
  BY <1>3, FinishKeeps
<1> QED BY <1>1, <1>2, <1>3 DEF Next

(***************************************************************************)
(* What a call of plan keeps about its budget and its selection.           *)
(***************************************************************************)
THEOREM Invariance == Spec => []IInv
  BY InitHolds, StepKeeps, PTL DEF Spec

(***************************************************************************)
(* No plan exceeds its budget, nor the available memory unless a share of  *)
(* all memory is configured.                                               *)
(***************************************************************************)
THEOREM EveryPlanFits == Spec => []PlanFits
<1>1. ASSUME IInv PROVE PlanFits
  <2>1. Available \in Nat /\ input.mem.available \in Nat
    BY <1>1, AvailableType, InputFields DEF IInv, TypeOK
  <2>2. input.policy.memtotal <= 0 => Available <= input.mem.available
    BY <1>1, AvailableKbBounds DEF IInv, TypeOK, Available
  <2>3. total_bytes <= 1024 * Available
    BY <1>1, <2>1 DEF IInv, TypeOK, BudgetSpent
  <2> QED BY <1>1, <2>1, <2>2, <2>3 DEF PlanFits, IInv, TypeOK
<1> QED BY <1>1, Invariance, PTL

(***************************************************************************)
(* However the unstable sort breaks ties, a map is left out of a plan only *)
(* where it did not fit beside those that score at least as high (plan).   *)
(***************************************************************************)
THEOREM TheOthersDidNotFit == Spec => []LeftOutDidNotFit
<1>1. IInv => LeftOutDidNotFit
  BY DEF IInv
<1>. QED BY <1>1, Invariance, PTL

(***************************************************************************)
(* For any keys and strategy, the final sort permutes what was selected,   *)
(* and only among maps of one score (sort_by_score_and_key).               *)
(***************************************************************************)
THEOREM KeysOnlyBreakTies == Spec => []TieBreakOnly
<1>1. IInv => TieBreakOnly
  BY DEF IInv
<1>. QED BY <1>1, Invariance, PTL

\* the places of two maps: by key, and maps without a key last
KeysInOrder ==
    \A i, j \in DOMAIN selected :
        i < j /\ input.score[selected[i]] = input.score[selected[j]] =>
            LET a == input.key[selected[i]]
                b == input.key[selected[j]]
            IN  b = None \/ (a # None /\ b # None /\ a <= b)

Sorted == pc = "returned" /\ input.sort # "None" => KeysInOrder

(***************************************************************************)
(* What a strategy promises beyond that: among maps of one score a plan is *)
(* in the order of the keys, and those without one come last               *)
(* (sort_by_score_and_key).                                                *)
(***************************************************************************)
THEOREM TiesAreSorted == Spec => []Sorted
<1>1. Init => Sorted
  BY DEF Init, Called, Sorted
<1>2. IInv /\ Sorted /\ [Next]_vars => Sorted'
  <2>. SUFFICES ASSUME IInv, Sorted, [Next]_vars PROVE Sorted'
    OBVIOUS
  <2>1. CASE UNCHANGED vars
    BY <2>1 DEF vars, Sorted, KeysInOrder
  <2>2. CASE Consider
    BY <2>2 DEF Consider, Sorted
  <2>3. CASE Finish /\ input.sort # "None"
    <3>. DEFINE D == DOMAIN selected
    <3>1. /\ Order \in [D -> D]
          /\ \A i, j \in D : i < j => Before(Order[i], Order[j])
      BY OrderSorts DEF IInv, TypeOK
    <3>2. input' = input /\ selected' = [i \in D |-> selected[Order[i]]]
      BY <2>3 DEF Finish
    <3>3. \A i \in D : /\ input.score[selected[i]] \in Nat
                       /\ input.key[selected[i]] \in Nat \/ input.key[selected[i]] = None
      <4>1. \A i \in D : selected[i] \in Map
        BY ElementOfSeq, LenProperties DEF IInv, TypeOK
      <4>. QED BY <4>1, NumbersAssumption DEF IInv, TypeOK, Input
    <3>4. ASSUME NEW i \in D, NEW j \in D, i < j,
                 input.score[selected'[i]] = input.score[selected'[j]]
          PROVE  LET a == input.key[selected'[i]]
                     b == input.key[selected'[j]]
                 IN  b = None \/ (a # None /\ b # None /\ a <= b)
      <4>. DEFINE k == Order[i]
                  l == Order[j]
      <4>1. k \in D /\ l \in D /\ Before(k, l)
            /\ selected'[i] = selected[k] /\ selected'[j] = selected[l]
        BY <3>1, <3>2, <3>4
      <4>. HIDE DEF k, l, D
      <4>2. KeyBefore(k, l)
        BY <3>3, <3>4, <4>1 DEF Before
      <4>. QED BY <3>3, <4>1, <4>2 DEF KeyBefore
    <3>. QED BY <3>2, <3>4 DEF Sorted, KeysInOrder
  <2>4. CASE Finish /\ input.sort = "None"
    BY <2>4 DEF Finish, Sorted
  <2>. QED BY <2>1, <2>2, <2>3, <2>4 DEF Next
<1>. QED BY <1>1, <1>2, Invariance, PTL DEF Spec

-----------------------------------------------------------------------------
(* The prediction                                                          *)

LEMMA DivBound ==
  ASSUME NEW n \in Nat, NEW k \in Nat, n <= One * k
  PROVE  n \div One \in Nat /\ n \div One <= k
<1>. DEFINE d == n \div One
<1>1. One \in Nat /\ One > 0
  BY OneAssumption
<1>2. d \in Nat /\ One * d <= n
  BY <1>1
<1>. HIDE DEF d
<1>3. ASSUME d > k PROVE FALSE
  <2>1. d >= k + 1
    BY <1>2, <1>3
  <2>2. One * d >= One * (k + 1)
    BY <1>1, <1>2, <2>1
  <2>3. One * (k + 1) = One * k + One
    BY <1>1
  <2>4. One * k \in Nat /\ One * d \in Nat
    BY <1>1, <1>2
  <2>. QED BY <1>1, <1>2, <2>2, <2>3, <2>4
<1>. QED BY <1>2, <1>3 DEF d

\* a product of probabilities is none above either
LEMMA TimesType ==
  ASSUME NEW p \in 0 .. One, NEW q \in 0 .. One
  PROVE  /\ Times(p, q) \in 0 .. One
         /\ Times(p, q) <= p /\ Times(p, q) <= q
         /\ p = One => Times(p, q) = q
<1>1. One \in Nat /\ One > 0 /\ p \in Nat /\ q \in Nat
  BY OneAssumption
<1>2. p * q \in Nat /\ p * q <= One * q /\ p * q <= One * p
  BY <1>1
<1>3. (p * q) \div One \in Nat /\ (p * q) \div One <= p /\ (p * q) \div One <= q
  <2>. DEFINE n == p * q
  <2>1. n \in Nat /\ n <= One * q /\ n <= One * p
    BY <1>2
  <2>. HIDE DEF n
  <2>2. n \div One \in Nat /\ n \div One <= p /\ n \div One <= q
    BY <1>1, <2>1, DivBound
  <2>. QED BY <2>2 DEF n
<1>4. (One * q) \div One = q
  BY <1>1
<1>. QED BY <1>1, <1>3, <1>4 DEF Times

\* a probability for each element of S
Miss(chance, S) == [p \in S \X (0 .. One) |-> Times(One - chance[p[1]], p[2])]

\* no chance at all if and only if none of the chances is one
LEMMA AnyOfIs ==
  ASSUME NEW chance, IsFiniteSet(DOMAIN chance), chance \in [DOMAIN chance -> 0 .. One]
  PROVE  /\ AnyOf(chance) \in 0 .. One
         /\ AnyOf(chance) > 0 <=> \E e \in DOMAIN chance : chance[e] > 0
         /\ \A e \in DOMAIN chance : AnyOf(chance) >= chance[e]
<1>. DEFINE S == DOMAIN chance
<1>0. One \in Nat /\ One > 0
  BY OneAssumption
<1>. DEFINE Raw(it) == it = [s \in SUBSET S |->
                                IF s = {} THEN One
                                ELSE Times(One - chance[First(s)], it[s \ {First(s)}])]
<1>1. \E g : IsFold(g, One, Miss(chance, S), S)
  BY FoldExists
<1>2. PICK g : IsFold(g, One, Miss(chance, S), S)
  BY <1>1
<1>. DEFINE P == {s \in SUBSET S :
                    /\ g[s] \in 0 .. One
                    /\ g[s] = One <=> \A e \in s : chance[e] = 0
                    /\ \A e \in s : g[s] <= One - chance[e]}
<1>. HIDE DEF S
<1>3. ASSUME NEW s \in SUBSET S, s # {}, g[s \ {First(s)}] \in 0 .. One
      PROVE  g[s] = Times(One - chance[First(s)], g[s \ {First(s)}])
  <2>1. g[s] = Miss(chance, S)[<<First(s), g[s \ {First(s)}]>>]
    BY <1>2, <1>3, FoldAt
  <2>2. <<First(s), g[s \ {First(s)}]>> \in S \X (0 .. One)
    BY <1>3, FirstIn
  <2>. QED BY <2>1, <2>2 DEF Miss
<1>4. g[{}] = One
  BY <1>2, FoldAt
<1>5. ASSUME NEW s \in SUBSET S, \A u \in SUBSET s : u # s => u \in P
      PROVE  s \in P
  <2>1. CASE s # {}
    <3>. DEFINE f == First(s)
                u == s \ {f}
    <3>1. u \in P /\ f \in s /\ s = u \cup {f}
      BY <1>5, <2>1, FirstIn
    <3>2. g[s] = Times(One - chance[f], g[u])
      BY <1>3, <2>1, <3>1
    <3>3. chance[f] \in 0 .. One
      BY <3>1 DEF S
    <3>4. /\ g[u] \in 0 .. One /\ (g[u] = One <=> \A e \in u : chance[e] = 0)
          /\ \A e \in u : g[u] <= One - chance[e]
      BY <3>1
    <3>. HIDE DEF f, u, P
    <3>. DEFINE miss == One - chance[f]
    <3>5. miss \in 0 .. One /\ (miss = One <=> chance[f] = 0) /\ (miss < One <=> chance[f] # 0)
      BY <1>0, <3>3
    <3>6. /\ g[s] \in 0 .. One
          /\ chance[f] = 0 => g[s] = g[u]
          /\ chance[f] # 0 => g[s] < One
          /\ g[s] <= One - chance[f] /\ g[s] <= g[u]
      <4>1. g[s] = Times(miss, g[u])
        BY <3>2
      <4>. HIDE DEF miss
      <4>2. g[s] \in 0 .. One /\ g[s] <= miss /\ g[s] <= g[u] /\ (miss = One => g[s] = g[u])
        BY <3>4, <3>5, <4>1, TimesType
      <4>3. miss # One => g[s] < One
        BY <1>0, <3>5, <4>2
      <4>. QED BY <3>5, <4>2, <4>3 DEF miss
    <3>7. g[s] = One <=> \A e \in s : chance[e] = 0
      <4>1. CASE chance[f] = 0
        BY <3>1, <3>4, <3>6, <4>1
      <4>2. CASE chance[f] # 0
        BY <1>0, <3>1, <3>6, <4>2
      <4>. QED BY <4>1, <4>2
    <3>8. \A e \in s : g[s] <= One - chance[e]
      <4>1. \A e \in s : chance[e] \in 0 .. One
        BY DEF S
      <4>. QED BY <1>0, <3>1, <3>4, <3>6, <4>1
    <3>. QED BY <3>6, <3>7, <3>8 DEF P
  <2>2. CASE s = {}
    BY <1>0, <1>4, <2>2
  <2>. QED BY <2>1, <2>2
<1>6. SUBSET S \subseteq P
  <2>. HIDE DEF P
  <2>. QED BY <1>5, FiniteInduction DEF S
<1>7. Raw(g)
  <2>1. \A s \in SUBSET S : g[s] \in 0 .. One
    BY <1>6
  <2>2. ASSUME NEW s \in SUBSET S, s # {}
        PROVE  g[s] = Times(One - chance[First(s)], g[s \ {First(s)}])
    BY <1>3, <2>1, <2>2, FirstIn
  <2>3. g = [s \in SUBSET S |-> g[s]]
    BY <1>2, Zenon DEF IsFold
  <2>. HIDE DEF P
  <2>. QED BY <1>4, <2>2, <2>3, Zenon
<1>. DEFINE iter == CHOOSE it : Raw(it)
<1>8. Raw(iter)
  <2>. HIDE DEF Raw
  <2>. QED BY <1>7
<1>9. AnyOf(chance) = One - iter[S]
  BY DEF AnyOf, FoldSet, MapThenFoldSet, First, S
<1>. HIDE DEF iter, P
<1>10. /\ iter[{}] = One
       /\ \A s \in SUBSET S : s # {} =>
             iter[s] = Times(One - chance[First(s)], iter[s \ {First(s)}])
  BY <1>8, Zenon
<1>11. /\ g[{}] = One
       /\ \A s \in SUBSET S : s # {} =>
             g[s] = Times(One - chance[First(s)], g[s \ {First(s)}])
  BY <1>7, Zenon
<1>. HIDE DEF Raw
<1>. DEFINE Q == {s \in SUBSET S : iter[s] = g[s]}
<1>12. ASSUME NEW s \in SUBSET S, \A u \in SUBSET s : u # s => u \in Q
       PROVE  s \in Q
  <2>1. CASE s # {}
    <3>1. s \ {First(s)} \in Q
      BY <1>12, <2>1, FirstIn
    <3>. QED BY <1>10, <1>11, <2>1, <3>1
  <2>. QED BY <1>10, <1>11, <2>1
<1>13. SUBSET S \subseteq Q
  <2>. HIDE DEF Q
  <2>. QED BY <1>12, FiniteInduction DEF S
<1>14. AnyOf(chance) = One - g[S]
  BY <1>9, <1>13
<1>15. /\ g[S] \in 0 .. One /\ (g[S] = One <=> \A e \in S : chance[e] = 0)
       /\ \A e \in S : g[S] <= One - chance[e]
  BY <1>6 DEF P
<1>16. \A e \in S : chance[e] \in 0 .. One
  BY DEF S
<1>. QED BY <1>0, <1>14, <1>15, <1>16 DEF S

LEMMA MaxOfThree ==
  ASSUME NEW a \in Int, NEW b \in Int, NEW c \in Int
  PROVE  /\ Max({a, b, c}) \in {a, b, c}
         /\ Max({a, b, c}) >= a /\ Max({a, b, c}) >= b /\ Max({a, b, c}) >= c
<1>1. \E x \in {a, b, c} : \A y \in {a, b, c} : x >= y
  <2>1. CASE a >= b /\ a >= c
    BY <2>1
  <2>2. CASE b >= a /\ b >= c
    BY <2>2
  <2>3. CASE c >= a /\ c >= b
    BY <2>3
  <2>. QED BY <2>1, <2>2, <2>3
<1>2. Max({a, b, c}) \in {a, b, c} /\ \A y \in {a, b, c} : Max({a, b, c}) >= y
  BY <1>1, Zenon DEF Max
<1>. QED BY <1>2

LEMMA StoresFields ==
  ASSUME stores \in StoresType
  PROVE  /\ stores.running \subseteq Exe
         /\ stores.share \in [Exe -> 0 .. One]
         /\ IsFiniteSet(DOMAIN stores.markov)
         /\ \A k \in DOMAIN stores.markov : k[1] \in Exe /\ k[2] \in Exe /\ k = <<k[1], k[2]>>
         /\ \A k \in DOMAIN stores.markov : stores.markov[k] \in EdgeData
         /\ stores.exes_for_map \in [Map -> SUBSET Exe]
         /\ stores.use_correlation \in BOOLEAN
<1>. DEFINE Pairs == {k \in Exe \X Exe : k[1] # k[2]}
<1>1. PICK edges \in SUBSET Pairs : stores.markov \in [edges -> EdgeData]
  BY DEF StoresType
<1>2. IsFiniteSet(Exe \X Exe)
  BY ExeAssumption, FS_Product
<1>3. DOMAIN stores.markov \in SUBSET (Exe \X Exe)
  BY <1>1
<1>4. IsFiniteSet(DOMAIN stores.markov)
  BY <1>2, <1>3, FS_Subset
<1>5. \A k \in DOMAIN stores.markov : k[1] \in Exe /\ k[2] \in Exe /\ k = <<k[1], k[2]>>
  BY <1>3
<1>6. \A k \in DOMAIN stores.markov : stores.markov[k] \in EdgeData
  BY <1>1
<1>. QED BY <1>4, <1>5, <1>6 DEF StoresType

\* what an edge says is a probability
LEMMA EdgeNeededType ==
  ASSUME stores \in StoresType, NEW k \in DOMAIN stores.markov, NEW e \in Exe
  PROVE  EdgeNeeded(k, e) \in 0 .. One
<1>. DEFINE state == <<k[1] \in stores.running, k[2] \in stores.running>>
            alone == <<e = k[1], e = k[2]>>
            data == stores.markov[k]
            next == data.transition_prob[state][alone]
                      + data.transition_prob[state][<<TRUE, TRUE>>]
<1>1. state \in MarkovState /\ alone \in MarkovState /\ <<TRUE, TRUE>> \in MarkovState
  <2>1. ASSUME NEW a \in BOOLEAN, NEW b \in BOOLEAN PROVE <<a, b>> \in MarkovState
    BY DEF MarkovState
  <2>2. /\ (k[1] \in stores.running) \in BOOLEAN /\ (k[2] \in stores.running) \in BOOLEAN
        /\ (e = k[1]) \in BOOLEAN /\ (e = k[2]) \in BOOLEAN /\ TRUE \in BOOLEAN
    OBVIOUS
  <2>. QED BY <2>1, <2>2, Zenon
<1>2. data \in EdgeData
  BY StoresFields
<1>. HIDE DEF state, alone, data
<1>3. /\ data.leave[state] \in 0 .. One /\ data.phi \in 0 .. One
      /\ data.transition_prob[state][alone] \in 0 .. One
      /\ data.transition_prob[state][<<TRUE, TRUE>>] \in 0 .. One
  BY <1>1, <1>2 DEF EdgeData
<1>4. One \in Nat /\ One > 0
  BY OneAssumption
<1>5. next \in Nat
  BY <1>3, <1>4
<1>. HIDE DEF next
<1>6. Times(data.leave[state], next) \in Nat
  <2>1. data.leave[state] * next \in Nat
    BY <1>3, <1>4, <1>5
  <2>. QED BY <1>4, <2>1 DEF Times
<1>7. PNeeded(k, state, alone) \in 0 .. One
  <2>1. PNeeded(k, state, alone) = Clamped(Times(data.leave[state], next))
    BY DEF PNeeded, data, next
  <2>2. ASSUME NEW p \in Nat PROVE Clamped(p) \in 0 .. One
    BY <1>4 DEF Clamped
  <2>. QED BY <1>6, <2>1, <2>2
<1>8. Correlation(k) \in 0 .. One
  BY <1>3, <1>4 DEF Correlation, data
<1>9. EdgeNeeded(k, e) = Times(PNeeded(k, state, alone), Correlation(k))
  BY DEF EdgeNeeded, state, alone
<1>. QED BY <1>7, <1>8, <1>9, TimesType

LEMMA ExeScoreIs ==
  ASSUME stores \in StoresType, NEW e \in Exe
  PROVE  ExeScore(e) \in 0 .. One /\ (ExeScore(e) > 0 <=> e \notin stores.running)
<1>1. One \in Nat /\ One > 0
  BY OneAssumption
<1>2. CASE e \in stores.running
  BY <1>1, <1>2 DEF ExeScore
<1>3. CASE e \notin stores.running
  <2>. DEFINE E == {k \in DOMAIN stores.markov : e \in ToSet(k)}
              chance == [edge \in E |-> EdgeNeeded(edge, e)]
              any == AnyOf(chance)
              share == stores.share[e]
  <2>1. IsFiniteSet(E)
    BY StoresFields, FS_Subset
  <2>2. DOMAIN chance = E /\ chance \in [E -> 0 .. One]
    BY EdgeNeededType
  <2>3. any \in 0 .. One
    <3>. HIDE DEF chance, E
    <3>. QED BY <2>1, <2>2, AnyOfIs
  <2>4. share \in 0 .. One
    BY StoresFields
  <2>5. ExeScore(e) = Max({any, share, Floor})
    BY <1>3 DEF ExeScore
  <2>6. Floor = 1
    BY DEF Floor
  <2>. HIDE DEF any, share
  <2>7. any \in Int /\ share \in Int /\ Floor \in Int
    BY <1>1, <2>3, <2>4, <2>6
  <2>8. ExeScore(e) \in {any, share, Floor} /\ ExeScore(e) >= Floor
    BY <2>5, <2>7, MaxOfThree
  <2>. QED BY <1>1, <1>3, <2>3, <2>4, <2>6, <2>8
<1>. QED BY <1>2, <1>3

LEMMA MapScoreIs ==
  ASSUME stores \in StoresType, NEW m \in Map
  PROVE  /\ MapScore(m) \in 0 .. One
         /\ MapScore(m) > 0 <=> Useful(m)
         /\ \A e \in stores.exes_for_map[m] : MapScore(m) >= ExeScore(e)
<1>. DEFINE E == stores.exes_for_map[m]
            chance == [e \in E |-> ExeScore(e)]
<1>1. E \in SUBSET Exe /\ IsFiniteSet(E)
  BY StoresFields, ExeAssumption, FS_Subset
<1>2. DOMAIN chance = E /\ chance \in [E -> 0 .. One]
  BY <1>1, ExeScoreIs
<1>3. \A e \in E : chance[e] = ExeScore(e) /\ (chance[e] > 0 <=> e \notin stores.running)
  BY <1>1, ExeScoreIs
<1>4. MapScore(m) = AnyOf(chance)
  BY DEF MapScore
<1>5. Useful(m) <=> \E e \in E : e \notin stores.running
  BY DEF Useful
<1>. HIDE DEF chance
<1>6. /\ AnyOf(chance) \in 0 .. One
      /\ AnyOf(chance) > 0 <=> \E e \in E : chance[e] > 0
      /\ \A e \in E : AnyOf(chance) >= chance[e]
  <2>. HIDE DEF E
  <2>. QED BY <1>1, <1>2, AnyOfIs
<1>. QED BY <1>3, <1>4, <1>5, <1>6

(***************************************************************************)
(* For any graph and any times, "predictor_scores_are_bounded" (the test   *)
(* of predictor.rs): scores are probabilities.                             *)
(***************************************************************************)
THEOREM ScoresAreBounded ==
  ASSUME stores \in StoresType
  PROVE  /\ \A e \in Exe : ExeScore(e) \in 0 .. One
         /\ Prediction \in [Map -> 0 .. One]
BY ExeScoreIs, MapScoreIs DEF Prediction

(***************************************************************************)
(* A map has a score if and only if an executable that is not running uses *)
(* it, whatever the graph says, and scores at least as high as each of     *)
(* those that use it (predict).                                            *)
(***************************************************************************)
THEOREM ScoredAreUseful ==
  ASSUME stores \in StoresType, NEW m \in Map
  PROVE  /\ Prediction[m] > 0 <=> Useful(m)
         /\ \A e \in stores.exes_for_map[m] : Prediction[m] >= ExeScore(e)
BY MapScoreIs DEF Prediction

PredictInv == IInv /\ stores \in StoresType /\ input.score = Prediction

LEMMA PredictStepKeeps == PredictInv /\ [PredictNext]_<<vars, stores>> => PredictInv'
<1>. SUFFICES ASSUME PredictInv, [PredictNext]_<<vars, stores>> PROVE PredictInv'
  OBVIOUS
<1>1. IInv'
  BY StepKeeps DEF PredictInv, PredictNext
<1>2. stores' = stores /\ input' = input
  BY DEF PredictNext, Next, Consider, Finish, vars
<1>3. Prediction' = Prediction
  BY <1>2 DEF Prediction, MapScore, ExeScore, EdgeNeeded, PNeeded, Correlation
<1>. QED BY <1>1, <1>2, <1>3 DEF PredictInv

(***************************************************************************)
(* For any maps, executables, graph and lengths: a plan made of a          *)
(* prediction holds maps of executables that are not running, and leaves   *)
(* one out only where it did not fit (predict; plan).                      *)
(***************************************************************************)
THEOREM PlansAreUseful == PredictSpec => []PlansUseful
<1>1. PredictInit => PredictInv
  BY InitHolds DEF PredictInit, PredictInv, Init
<1>2. PredictInv => PlansUseful
  <2>. SUFFICES ASSUME PredictInv PROVE PlansUseful
    OBVIOUS
  <2>1. \A m \in Map : input.score[m] > 0 <=> Useful(m)
    BY MapScoreIs DEF PredictInv, Prediction
  <2>2. ToSet(selected) \subseteq Candidates /\ Candidates \subseteq Map /\ LeftOutDidNotFit
    BY DEF PredictInv, IInv, Candidates
  <2>. QED BY <2>1, <2>2 DEF PlansUseful, LeftOutDidNotFit, Candidates
<1>. QED BY <1>1, <1>2, PredictStepKeeps, PTL DEF PredictSpec

-----------------------------------------------------------------------------
(* The I/O of a map: ranges of bytes                                       *)

LEMMA MaxOfTwo ==
  ASSUME NEW a \in Int, NEW b \in Int
  PROVE  /\ Max({a, b}) \in {a, b} /\ Max({a, b}) >= a /\ Max({a, b}) >= b
         /\ Min({a, b}) \in {a, b} /\ Min({a, b}) <= a /\ Min({a, b}) <= b
<1>1. \E x \in {a, b} : \A y \in {a, b} : x >= y
  OBVIOUS
<1>2. \E x \in {a, b} : \A y \in {a, b} : x <= y
  OBVIOUS
<1>3. Max({a, b}) \in {a, b} /\ \A y \in {a, b} : Max({a, b}) >= y
  BY <1>1, Zenon DEF Max
<1>4. Min({a, b}) \in {a, b} /\ \A y \in {a, b} : Min({a, b}) <= y
  BY <1>2, Zenon DEF Min
<1>. QED  BY <1>3, <1>4

LEMMA PageOf ==
  ASSUME NEW b \in Int, NEW k \in Int
  PROVE  b \div PageSize = k <=> k * PageSize <= b /\ b < k * PageSize + PageSize
BY PageAssumption

LEMMA PagesCover ==
  ASSUME NEW e \in Int
  PROVE  e <= ((e + PageSize - 1) \div PageSize) * PageSize
BY PageAssumption

\* an offset and a length
ByteRange == Int \X (Nat \ {0})

LEMMA BytesOf ==
  ASSUME NEW r \in ByteRange
  PROVE  /\ r[1] \in Int /\ r[2] \in Nat /\ r[2] > 0
         /\ \A b : b \in Bytes(r) <=> b \in Int /\ r[1] <= b /\ b < r[1] + r[2]
BY DEF ByteRange, Bytes

LEMMA CoveredEmpty == Covered(<<>>) = {}
BY DEF Covered

LEMMA CoveredAppend ==
  ASSUME NEW rs \in Seq(ByteRange), NEW r \in ByteRange
  PROVE  Covered(Append(rs, r)) = Covered(rs) \cup Bytes(r)
<1>1. /\ Len(rs) \in Nat /\ DOMAIN rs = 1 .. Len(rs)
      /\ DOMAIN Append(rs, r) = 1 .. Len(rs) + 1
      /\ \A i \in 1 .. Len(rs) : Append(rs, r)[i] = rs[i]
      /\ Append(rs, r)[Len(rs) + 1] = r
  BY AppendProperties, LenProperties
<1>2. ASSUME NEW b PROVE b \in Covered(Append(rs, r)) <=> b \in Covered(rs) \cup Bytes(r)
  <2>1. ASSUME NEW i \in DOMAIN Append(rs, r), b \in Bytes(Append(rs, r)[i])
        PROVE  b \in Covered(rs) \cup Bytes(r)
    <3>1. CASE i = Len(rs) + 1
      BY <1>1, <2>1, <3>1
    <3>2. CASE i \in 1 .. Len(rs)
      BY <1>1, <2>1, <3>2 DEF Covered
    <3>. QED  BY <1>1, <3>1, <3>2
  <2>2. ASSUME NEW i \in DOMAIN rs, b \in Bytes(rs[i]) PROVE b \in Covered(Append(rs, r))
    <3>1. i \in DOMAIN Append(rs, r) /\ Append(rs, r)[i] = rs[i]
      BY <1>1
    <3>. QED  BY <2>2, <3>1 DEF Covered
  <2>3. ASSUME b \in Bytes(r) PROVE b \in Covered(Append(rs, r))
    <3>1. Len(rs) + 1 \in DOMAIN Append(rs, r)
      BY <1>1
    <3>. QED  BY <1>1, <2>3, <3>1 DEF Covered
  <2>. QED  BY <2>1, <2>2, <2>3 DEF Covered
<1>. QED  BY <1>2

\* the first range is taken off, and maybe what is left of it put back
LEMMA CoveredHead ==
  ASSUME NEW rs \in Seq(ByteRange), rs # <<>>
  PROVE  /\ Head(rs) \in ByteRange /\ Tail(rs) \in Seq(ByteRange)
         /\ Head(rs) = rs[1]
         /\ Len(rs) \in Nat /\ Len(rs) > 0 /\ DOMAIN rs = 1 .. Len(rs)
         /\ DOMAIN Tail(rs) = 1 .. Len(rs) - 1
         /\ \A i \in 1 .. Len(rs) - 1 : Tail(rs)[i] = rs[i + 1]
         /\ Covered(rs) = Bytes(Head(rs)) \cup Covered(Tail(rs))
<1>1. /\ Head(rs) \in ByteRange /\ Tail(rs) \in Seq(ByteRange) /\ Head(rs) = rs[1]
      /\ Len(rs) \in Nat /\ Len(rs) > 0 /\ DOMAIN rs = 1 .. Len(rs)
      /\ Len(Tail(rs)) = Len(rs) - 1 /\ DOMAIN Tail(rs) = 1 .. Len(rs) - 1
      /\ \A i \in 1 .. Len(rs) - 1 : Tail(rs)[i] = rs[i + 1]
  BY HeadTailProperties, LenProperties, EmptySeq
<1>2. ASSUME NEW b PROVE b \in Covered(rs) <=> b \in Bytes(rs[1]) \cup Covered(Tail(rs))
  <2>1. ASSUME NEW i \in DOMAIN rs, b \in Bytes(rs[i])
        PROVE  b \in Bytes(rs[1]) \cup Covered(Tail(rs))
    <3>1. CASE i # 1
      <4>1. i - 1 \in DOMAIN Tail(rs) /\ Tail(rs)[i - 1] = rs[i]
        BY <1>1, <3>1
      <4>. QED  BY <2>1, <4>1 DEF Covered
    <3>. QED  BY <2>1, <3>1
  <2>2. ASSUME NEW i \in DOMAIN Tail(rs), b \in Bytes(Tail(rs)[i]) PROVE b \in Covered(rs)
    <3>1. i + 1 \in DOMAIN rs /\ Tail(rs)[i] = rs[i + 1]
      BY <1>1
    <3>. QED  BY <2>2, <3>1 DEF Covered
  <2>3. ASSUME b \in Bytes(rs[1]) PROVE b \in Covered(rs)
    <3>1. 1 \in DOMAIN rs
      BY <1>1
    <3>. QED  BY <2>3, <3>1 DEF Covered
  <2>. QED  BY <2>1, <2>2, <2>3 DEF Covered
<1>. QED  BY <1>1, <1>2

LEMMA CoveredCons ==
  ASSUME NEW rs \in Seq(ByteRange), NEW r \in ByteRange
  PROVE  /\ <<r>> \o rs \in Seq(ByteRange)
         /\ DOMAIN (<<r>> \o rs) = 1 .. Len(rs) + 1
         /\ (<<r>> \o rs)[1] = r
         /\ \A i \in 1 .. Len(rs) : (<<r>> \o rs)[i + 1] = rs[i]
         /\ Covered(<<r>> \o rs) = Bytes(r) \cup Covered(rs)
<1>. DEFINE s == <<r>> \o rs
<1>0. <<r>> \in Seq(ByteRange) /\ Len(<<r>>) = 1 /\ <<r>>[1] = r
  OBVIOUS
<1>1. /\ s \in Seq(ByteRange) /\ Len(rs) \in Nat /\ Len(s) = Len(rs) + 1
      /\ DOMAIN s = 1 .. Len(rs) + 1
      /\ s[1] = r /\ \A i \in 1 .. Len(rs) : s[i + 1] = rs[i]
  BY <1>0, ConcatProperties, LenProperties
<1>2. s # <<>> /\ Head(s) = r
  BY <1>1, EmptySeq
<1>3. Tail(s) = rs
  BY <1>0, <1>1, HeadTailProperties, LenProperties
<1>. QED  BY <1>1, <1>2, <1>3, CoveredHead

-----------------------------------------------------------------------------
(* The pages of a map                                                      *)

LEMMA RequestFields ==
  ASSUME request \in Request
  PROVE  /\ request.offset \in Nat /\ request.length \in Int
         /\ request.mincore_ok \in BOOLEAN
         /\ End \in Int /\ FirstPage \in Nat /\ NumPages \in Int
         /\ FirstPage * PageSize <= request.offset
         /\ End <= (FirstPage + NumPages) * PageSize
<1>1. request.offset \in Nat /\ request.length \in Int /\ request.mincore_ok \in BOOLEAN
  BY RequestAssumption DEF Request
<1>2. End \in Int /\ FirstPage \in Nat /\ NumPages \in Int
  BY <1>1, PageAssumption DEF End, FirstPage, NumPages
<1>3. FirstPage * PageSize <= request.offset
  BY <1>1, <1>2, PageOf DEF FirstPage
<1>4. FirstPage + NumPages = (End + PageSize - 1) \div PageSize
  BY <1>2, PageAssumption DEF NumPages
<1>. QED  BY <1>1, <1>2, <1>3, <1>4, PagesCover

LEMMA PagePosition ==
  ASSUME request \in Request, page \in Nat
  PROVE  /\ PageStart \in Nat /\ PageSize \in Nat /\ PageSize > 0
         /\ (FirstPage + page + 1) * PageSize = PageStart + PageSize
         /\ \A b \in Int : b \div PageSize = FirstPage + page
                             <=> PageStart <= b /\ b < PageStart + PageSize
<1>1. FirstPage \in Nat /\ FirstPage + page \in Nat /\ PageSize \in Nat /\ PageSize > 0
  BY RequestFields, PageAssumption
<1>2. PageStart \in Nat
  BY <1>1 DEF PageStart
<1>3. (FirstPage + page + 1) * PageSize = PageStart + PageSize
  BY <1>1 DEF PageStart
<1>. QED  BY <1>1, <1>2, <1>3, PageOf DEF PageStart

LEMMA WantedIs ==
  ASSUME request \in Request
  PROVE  \A b : b \in Wanted <=>
            /\ b \in Int /\ request.offset <= b /\ b < End
            /\ request.mincore_ok => b \div PageSize \notin request.cached
BY RequestFields DEF Wanted

(***************************************************************************)
(* A run that is closed adds what is wanted from its start up to end.      *)
(***************************************************************************)
LEMMA ClosedAdds ==
  ASSUME IoTypeOK, PagesInv, Separate, NEW end \in Int,
         \A b \in Int : Settled <= b /\ b < end /\ b < End
                          => b \div PageSize \notin request.cached,
         run_start = NoRun => Settled >= end \/ Settled >= End
  PROVE  /\ Closed(end) \in Seq(ByteRange)
         /\ Covered(Closed(end)) = {b \in Wanted : b < Settled \/ b < end}
         /\ \A i \in DOMAIN Closed(end) :
               /\ \A j \in 1 .. i - 1 :
                     Closed(end)[j][1] + Closed(end)[j][2] < Closed(end)[i][1]
               /\ \/ Closed(end)[i][1] + Closed(end)[i][2] < Settled
                  \/ run_start # NoRun /\ Closed(end)[i][1] + Closed(end)[i][2] <= end
<1>. DEFINE from == Max({run_start, request.offset})
            to   == Min({end, End})
<1>1. /\ request.offset \in Nat /\ End \in Int /\ run_start \in Int /\ Settled \in Int
      /\ ranges \in Seq(ByteRange) /\ Len(ranges) \in Nat /\ DOMAIN ranges = 1 .. Len(ranges)
  BY RequestFields, PagePosition, LenProperties DEF IoTypeOK, ByteRange, Settled
<1>2. /\ from \in {run_start, request.offset} /\ from >= run_start
      /\ from >= request.offset /\ to \in {end, End} /\ to <= end /\ to <= End
  <2>1. from \in {run_start, request.offset} /\ from >= run_start /\ from >= request.offset
    <3>1. run_start \in Int /\ request.offset \in Int
      BY <1>1
    <3>. QED  BY <3>1, MaxOfTwo
  <2>2. to \in {end, End} /\ to <= end /\ to <= End
    BY <1>1, MaxOfTwo
  <2>. QED  BY <2>1, <2>2
<1>3. \A b \in Int : b \in Wanted <=>
         /\ request.offset <= b /\ b < End /\ b \div PageSize \notin request.cached
  BY WantedIs DEF IoTypeOK, PagesInv
<1>. HIDE DEF from, to
<1>4. CASE run_start # NoRun /\ to > from
  <2>. DEFINE r == <<from, to - from>>
  <2>1. r \in ByteRange /\ Closed(end) = Append(ranges, r)
    BY <1>1, <1>2, <1>4 DEF ByteRange, Closed, from, to
  <2>2. Covered(Closed(end)) = {b \in Wanted : b < Settled} \cup Bytes(r)
    BY <1>1, <2>1, CoveredAppend DEF PagesInv
  <2>3. \A b : b \in Bytes(r) <=> b \in Int /\ from <= b /\ b < to
    BY <1>1, <1>2, <2>1, BytesOf
  <2>4. Settled = run_start
    BY <1>4 DEF Settled
  <2>5. \A b \in Int : from <= b /\ b < to <=> b \in Wanted /\ Settled <= b /\ b < end
    BY <1>1, <1>2, <1>3, <2>4
  <2>6. Covered(Closed(end)) = {b \in Wanted : b < Settled \/ b < end}
    <3>1. \A b \in Wanted : b \in Int
      BY WantedIs DEF IoTypeOK
    <3>2. ASSUME NEW b PROVE b \in Covered(Closed(end))
                               <=> b \in Wanted /\ (b < Settled \/ b < end)
      BY <1>1, <2>2, <2>3, <2>5, <3>1
    <3>. QED  BY <3>2
  <2>7. /\ DOMAIN Append(ranges, r) = 1 .. Len(ranges) + 1
        /\ \A i \in 1 .. Len(ranges) : Append(ranges, r)[i] = ranges[i]
        /\ Append(ranges, r)[Len(ranges) + 1] = r
    BY <1>1, <2>1, AppendProperties
  <2>8. \A i \in 1 .. Len(ranges) : /\ ranges[i][1] \in Int /\ ranges[i][2] \in Int
                                    /\ ranges[i][1] + ranges[i][2] < Settled
    BY <1>1, BytesOf, ElementOfSeq DEF PagesInv
  <2>9. r[1] = from /\ r[1] + r[2] = to
    BY <1>1, <1>2
  <2>10. ASSUME NEW i \in DOMAIN Closed(end)
         PROVE  /\ \A j \in 1 .. i - 1 :
                     Closed(end)[j][1] + Closed(end)[j][2] < Closed(end)[i][1]
                /\ \/ Closed(end)[i][1] + Closed(end)[i][2] < Settled
                   \/ run_start # NoRun /\ Closed(end)[i][1] + Closed(end)[i][2] <= end
    <3>1. CASE i = Len(ranges) + 1
      <4>. HIDE DEF r
      <4>1. Closed(end)[i] = r
        BY <2>1, <2>7, <3>1
      <4>2. ASSUME NEW j \in 1 .. i - 1
            PROVE  /\ Closed(end)[j] = ranges[j]
                   /\ ranges[j][1] + ranges[j][2] < from
        <5>1. j \in 1 .. Len(ranges)
          BY <1>1, <3>1, <4>2
        <5>2. Closed(end)[j] = ranges[j]
          BY <2>1, <2>7, <5>1
        <5>3. /\ ranges[j][1] \in Int /\ ranges[j][2] \in Int
              /\ ranges[j][1] + ranges[j][2] < Settled
          BY <2>8, <5>1
        <5>4. from \in Int /\ Settled <= from
          BY <1>1, <1>2, <2>4
        <5>. QED  BY <1>1, <5>2, <5>3, <5>4
      <4>3. Closed(end)[i][1] = from /\ Closed(end)[i][1] + Closed(end)[i][2] = to
        BY <2>9, <4>1
      <4>. QED  BY <1>2, <1>4, <4>2, <4>3
    <3>2. CASE i \in 1 .. Len(ranges)
      <4>. HIDE DEF r
      <4>1. Closed(end)[i] = ranges[i]
        BY <2>1, <2>7, <3>2
      <4>2. ASSUME NEW j \in 1 .. i - 1
            PROVE  Closed(end)[j] = ranges[j] /\ j \in DOMAIN ranges
        BY <1>1, <2>1, <2>7, <3>2, <4>2
      <4>3. i \in DOMAIN ranges /\ ranges[i][1] + ranges[i][2] < Settled
        BY <1>1, <2>8, <3>2
      <4>. QED  BY <4>1, <4>2, <4>3 DEF Separate
    <3>3. i = Len(ranges) + 1 \/ i \in 1 .. Len(ranges)
      BY <1>1, <2>1, <2>7
    <3>. QED  BY <3>1, <3>2, <3>3
  <2>11. Closed(end) \in Seq(ByteRange)
    BY <1>1, <2>1, AppendProperties
  <2>. QED  BY <2>6, <2>10, <2>11
<1>5. CASE ~(run_start # NoRun /\ to > from)
  <2>1. Closed(end) = ranges
    BY <1>5 DEF Closed, from, to
  <2>2. \A b \in Wanted : b \in Int /\ (b < end => b < Settled)
    <3>1. CASE run_start = NoRun
      BY <1>1, <1>3, <3>1, WantedIs DEF IoTypeOK
    <3>2. CASE run_start # NoRun
      <4>1. Settled = run_start /\ to <= from
        BY <1>1, <1>2, <1>5, <3>2 DEF Settled
      <4>. QED  BY <1>1, <1>2, <1>3, <4>1, WantedIs DEF IoTypeOK
    <3>. QED  BY <3>1, <3>2
  <2>3. Covered(Closed(end)) = {b \in Wanted : b < Settled \/ b < end}
    BY <2>1, <2>2 DEF PagesInv
  <2>. QED  BY <1>1, <2>1, <2>3 DEF PagesInv, Separate
<1>. QED  BY <1>4, <1>5

-----------------------------------------------------------------------------
(* The steps                                                               *)

LEMMA InputUnchanged ==
  ASSUME request' = request
  PROVE  Wanted' = Wanted /\ End' = End /\ NumPages' = NumPages /\ FirstPage' = FirstPage
BY DEF Wanted, End, NumPages, FirstPage

LEMMA QueryFailsKeeps == ASSUME ReadaheadInv, QueryFails PROVE ReadaheadInv'
<1>. USE DEF ReadaheadInv, QueryFails
<1>1. /\ request \in Request /\ request' = request /\ page' = page
      /\ run_start' = run_start /\ requested' = {} /\ io' = "read"
  BY DEF IoTypeOK
<1>2. /\ request.offset \in Nat /\ request.length \in Int /\ Wanted' = Wanted
  BY <1>1, RequestFields, InputUnchanged
<1>3. CASE request.length <= 0
  <2>1. ranges' = <<>> /\ Covered(ranges') = {}
    BY <1>3, CoveredEmpty
  <2>2. Wanted = {}
    BY <1>1, <1>2, <1>3, WantedIs DEF End
  <2>. QED  BY <1>1, <1>2, <2>1, <2>2 DEF IoTypeOK, Separate
<1>4. CASE ~(request.length <= 0)
  <2>. DEFINE r == <<request.offset, request.length>>
  <2>1. r \in ByteRange /\ ranges' = <<r>> /\ ~request.mincore_ok
    BY <1>2, <1>4 DEF ByteRange
  <2>2. Bytes(r) = Wanted
    BY <1>1, <1>2, <2>1, BytesOf, WantedIs DEF End
  <2>. HIDE DEF r
  <2>3. Covered(ranges') = Bytes(r) /\ DOMAIN ranges' = {1}
    BY <2>1 DEF Covered
  <2>4. Separate'
    BY <2>3 DEF Separate
  <2>5. ranges' \in Seq(Int \X (Nat \ {0}))
    BY <2>1 DEF ByteRange
  <2>. QED  BY <1>1, <1>2, <2>2, <2>3, <2>4, <2>5 DEF IoTypeOK
<1>. QED  BY <1>3, <1>4

LEMMA QueryKeeps == ASSUME ReadaheadInv, Query PROVE ReadaheadInv'
<1>. USE DEF ReadaheadInv, Query
<1>1. /\ request \in Request /\ request.length > 0 /\ request.mincore_ok
      /\ page = 0 /\ run_start = NoRun /\ ranges = <<>> /\ requested = {}
      /\ UNCHANGED <<request, page, run_start, ranges, requested>> /\ io' = "pages"
  BY DEF IoTypeOK
<1>2. /\ request.offset \in Nat /\ request.length \in Int /\ FirstPage \in Nat
      /\ NumPages \in Int /\ End <= (FirstPage + NumPages) * PageSize
      /\ FirstPage * PageSize <= request.offset
      /\ PageStart = FirstPage * PageSize /\ Settled = PageStart
  BY <1>1, RequestFields DEF PageStart, Settled
<1>3. NumPages >= 0
  <2>1. request.offset < End
    BY <1>1, <1>2 DEF End
  <2>2. FirstPage * PageSize < (FirstPage + NumPages) * PageSize
    BY <1>1, <1>2, <2>1, RequestFields, PageAssumption
  <2>. QED  BY <1>2, <2>2, PageAssumption
<1>4. Covered(ranges) = {b \in Wanted : b < Settled}
  <2>1. \A b \in Wanted : b \in Int /\ ~(b < Settled)
    BY <1>1, <1>2, WantedIs, PageAssumption
  <2>. QED  BY <1>1, <2>1, CoveredEmpty
<1>5. PagesInv
  <2>1. Settled \in Nat
    BY <1>1, <1>2, PageAssumption
  <2>2. \A b \in Settled .. PageStart - 1 : b \div PageSize \notin request.cached
    BY <1>2, <2>1
  <2>3. \A i \in DOMAIN ranges : ranges[i][1] + ranges[i][2] < Settled
    BY <1>1
  <2>. QED  BY <1>1, <1>2, <1>3, <1>4, <2>1, <2>2, <2>3 DEF PagesInv
<1>6. PagesInv'
  BY <1>1, <1>5 DEF PagesInv, Wanted, End, NumPages, FirstPage, PageStart, Settled
<1>. QED  BY <1>1, <1>6 DEF IoTypeOK, Separate

LEMMA PageKeeps == ASSUME ReadaheadInv, Page PROVE ReadaheadInv'
<1>1. /\ IoTypeOK /\ PagesInv /\ Separate
      /\ io = "pages" /\ io' = "pages" /\ page < NumPages /\ page' = page + 1
      /\ request' = request /\ requested' = requested
      /\ request \in Request /\ page \in Nat /\ run_start \in Int
      /\ ranges \in Seq(ByteRange)
  BY DEF ReadaheadInv, Page, IoTypeOK, ByteRange
<1>2. /\ Wanted' = Wanted /\ NumPages' = NumPages /\ NumPages \in Int
      /\ PageStart' = PageStart + PageSize
      /\ PageStart \in Nat /\ PageSize \in Nat /\ PageSize > 0 /\ Settled \in Int
  BY <1>1, InputUnchanged, RequestFields, PagePosition DEF PageStart, Settled
<1>3. \A b \in Int : PageStart <= b /\ b < PageStart + PageSize
                       => b \div PageSize = FirstPage + page
  BY <1>1, PagePosition
<1>4. page' <= NumPages' /\ page' \in Nat
  BY <1>1, <1>2
<1>5. CASE InCache
  <2>1. ranges' = Closed(PageStart) /\ run_start' = NoRun
    BY <1>5 DEF Page
  <2>2. \A b \in Int : Settled <= b /\ b < PageStart => b \div PageSize \notin request.cached
    BY <1>1, <1>2 DEF PagesInv
  <2>3. /\ run_start = NoRun => Settled >= PageStart
        /\ Settled <= PageStart
    BY <1>1, <1>2 DEF PagesInv, Settled
  <2>4. /\ ranges' \in Seq(ByteRange)
        /\ Covered(ranges') = {b \in Wanted : b < Settled \/ b < PageStart}
        /\ \A i \in DOMAIN ranges' :
               /\ \A j \in 1 .. i - 1 : ranges'[j][1] + ranges'[j][2] < ranges'[i][1]
               /\ \/ ranges'[i][1] + ranges'[i][2] < Settled
                  \/ run_start # NoRun /\ ranges'[i][1] + ranges'[i][2] <= PageStart
    <3>1. PageStart \in Int /\ (run_start = NoRun => Settled >= PageStart \/ Settled >= End)
      BY <1>2, <2>3
    <3>2. \A b \in Int : Settled <= b /\ b < PageStart /\ b < End
                            => b \div PageSize \notin request.cached
      BY <2>2
    <3>. QED  BY <1>1, <2>1, <3>1, <3>2, ClosedAdds
  <2>5. Settled' = PageStart + PageSize /\ NoRun \in Int
    BY <1>2, <2>1 DEF Settled, NoRun
  <2>6. \A b \in Wanted : /\ b \in Int
                          /\ b < PageStart + PageSize <=> b < Settled \/ b < PageStart
    <3>1. ASSUME NEW b \in Wanted PROVE b \in Int /\ b \div PageSize \notin request.cached
      BY <1>1, <3>1, WantedIs DEF PagesInv
    <3>2. FirstPage + page \in request.cached
      BY <1>5 DEF InCache
    <3>3. ASSUME NEW b \in Wanted PROVE ~(PageStart <= b /\ b < PageStart + PageSize)
      BY <1>3, <3>1, <3>2
    <3>. QED  BY <1>2, <2>3, <3>1, <3>3
  <2>7. Covered(ranges') = {b \in Wanted' : b < Settled'}
    BY <1>2, <2>4, <2>5, <2>6
  <2>8. \A i \in DOMAIN ranges' : ranges'[i][1] + ranges'[i][2] < Settled'
    <3>1. \A i \in DOMAIN ranges' : ranges'[i][1] \in Int /\ ranges'[i][2] \in Int
      BY <2>4, ElementOfSeq, LenProperties, BytesOf
    <3>. QED  BY <1>2, <2>3, <2>4, <2>5, <3>1
  <2>9. PagesInv'
    BY <1>1, <1>2, <1>4, <2>1, <2>5, <2>7, <2>8 DEF PagesInv
  <2>10. Separate' /\ IoTypeOK'
    BY <1>1, <1>4, <2>1, <2>4, <2>5 DEF Separate, IoTypeOK, ByteRange
  <2>. QED  BY <1>1, <2>9, <2>10 DEF ReadaheadInv
<1>6. CASE ~InCache
  <2>1. /\ run_start' = IF run_start = NoRun THEN PageStart ELSE run_start
        /\ ranges' = ranges
    BY <1>6 DEF Page
  <2>2. /\ run_start' \in Int /\ run_start' >= 0 /\ run_start' # NoRun
        /\ Settled' = Settled
    <3>1. run_start = NoRun \/ run_start >= 0
      BY <1>1 DEF PagesInv
    <3>2. run_start' \in Int /\ run_start' >= 0
      BY <1>1, <1>2, <2>1, <3>1
    <3>3. run_start' # NoRun
      BY <3>2 DEF NoRun
    <3>. QED  BY <2>1, <3>2, <3>3 DEF Settled
  <2>3. \A b \in Settled .. PageStart + PageSize - 1 : b \div PageSize \notin request.cached
    BY <1>1, <1>2, <1>3, <1>6 DEF PagesInv, InCache
  <2>4. PagesInv'
    BY <1>1, <1>2, <1>4, <2>1, <2>2, <2>3 DEF PagesInv
  <2>5. Separate' /\ IoTypeOK'
    BY <1>1, <1>4, <2>1, <2>2 DEF Separate, IoTypeOK
  <2>. QED  BY <1>1, <2>4, <2>5 DEF ReadaheadInv
<1>. QED  BY <1>5, <1>6

LEMMA FlushKeeps == ASSUME ReadaheadInv, Flush PROVE ReadaheadInv'
<1>1. /\ IoTypeOK /\ PagesInv /\ Separate
      /\ page = NumPages /\ ranges' = Closed(End) /\ run_start' = NoRun /\ io' = "read"
      /\ request' = request /\ page' = page /\ requested' = requested /\ requested = {}
      /\ request \in Request /\ page \in Nat
  BY DEF ReadaheadInv, Flush, Flushed, IoTypeOK, PagesInv
<1>2. /\ End \in Int /\ End <= PageStart /\ PageStart \in Nat /\ Settled \in Int
      /\ Wanted' = Wanted
  BY <1>1, RequestFields, InputUnchanged, PagePosition DEF PageStart, Settled, IoTypeOK
<1>3. \A b \in Int : Settled <= b /\ b < End => b \div PageSize \notin request.cached
  BY <1>1, <1>2 DEF PagesInv
<1>4. run_start = NoRun => Settled >= End
  BY <1>2 DEF Settled
<1>5. /\ ranges' \in Seq(ByteRange)
      /\ Covered(ranges') = {b \in Wanted : b < Settled \/ b < End}
      /\ \A i \in DOMAIN ranges' : \A j \in 1 .. i - 1 :
            ranges'[j][1] + ranges'[j][2] < ranges'[i][1]
  BY <1>1, <1>2, <1>3, <1>4, ClosedAdds
<1>6. Covered(ranges') = Wanted'
  BY <1>1, <1>2, <1>5, WantedIs
<1>7. IoTypeOK' /\ Separate'
  BY <1>1, <1>5 DEF IoTypeOK, Separate, ByteRange, NoRun
<1>. QED  BY <1>1, <1>6, <1>7 DEF ReadaheadInv

LEMMA RequestRangeKeeps == ASSUME ReadaheadInv, RequestRange PROVE ReadaheadInv'
<1>. DEFINE range == Head(ranges)
<1>1. /\ IoTypeOK /\ Separate /\ io = "read" /\ ranges # <<>>
      /\ Covered(ranges) \cup requested = Wanted /\ Covered(ranges) \cap requested = {}
      /\ UNCHANGED <<request, io, page, run_start>> /\ ranges \in Seq(ByteRange)
  BY DEF ReadaheadInv, RequestRange, IoTypeOK, ByteRange
<1>2. PICK count \in Counts(range[2]) :
         /\ requested' = requested \cup Bytes(<<range[1], count>>)
         /\ ranges' = IF count = range[2] THEN Tail(ranges)
                      ELSE <<<<range[1] + count, range[2] - count>>>> \o Tail(ranges)
  BY DEF RequestRange
<1>3. /\ range \in ByteRange /\ Tail(ranges) \in Seq(ByteRange) /\ range = ranges[1]
      /\ Len(ranges) \in Nat /\ Len(ranges) > 0 /\ DOMAIN ranges = 1 .. Len(ranges)
      /\ DOMAIN Tail(ranges) = 1 .. Len(ranges) - 1
      /\ \A i \in 1 .. Len(ranges) - 1 : Tail(ranges)[i] = ranges[i + 1]
      /\ Covered(ranges) = Bytes(range) \cup Covered(Tail(ranges))
  BY <1>1, CoveredHead
<1>4. range[1] \in Int /\ range[2] \in Nat /\ range[2] > 0
  BY <1>3, BytesOf
<1>5. count \in Nat /\ count > 0 /\ count <= range[2]
  <2>1. ChunkSize \in Int /\ range[2] \in Int /\ ChunkSize > 0
    BY <1>4, PageAssumption
  <2>2. LET m == Min({range[2], ChunkSize})
        IN  m \in {range[2], ChunkSize} /\ m <= range[2] /\ m <= ChunkSize
    BY <2>1, MaxOfTwo
  <2>. QED  BY <1>2, <1>4, <2>1, <2>2, PageAssumption DEF Counts
<1>6. \A i \in 1 .. Len(ranges) - 1 : /\ ranges[i + 1][1] \in Int
                                      /\ range[1] + range[2] < ranges[i + 1][1]
  <2>1. ASSUME NEW i \in 1 .. Len(ranges) - 1
        PROVE  i + 1 \in DOMAIN ranges /\ 1 \in 1 .. (i + 1) - 1
    BY <1>3, <2>1
  <2>2. ASSUME NEW i \in 1 .. Len(ranges) - 1 PROVE ranges[i + 1] \in ByteRange
    BY <1>1, <1>3, <2>1, ElementOfSeq
  <2>3. ASSUME NEW i \in 1 .. Len(ranges) - 1 PROVE range[1] + range[2] < ranges[i + 1][1]
    BY <1>1, <1>3, <2>1 DEF Separate
  <2>. QED  BY <2>2, <2>3, BytesOf
<1>7. Bytes(range) \cap Covered(Tail(ranges)) = {}
  <2>1. ASSUME NEW i \in DOMAIN Tail(ranges), NEW b \in Bytes(Tail(ranges)[i])
        PROVE  b \notin Bytes(range)
    <3>1. Tail(ranges)[i] \in ByteRange
      BY <1>3, <2>1, ElementOfSeq, LenProperties
    <3>. QED  BY <1>3, <1>4, <1>6, <3>1, BytesOf
  <2>. QED  BY <2>1 DEF Covered
<1>8. Separate' /\ ranges' \in Seq(ByteRange)
      /\ Covered(ranges') \cup requested' = Covered(ranges) \cup requested
      /\ Covered(ranges') \cap requested' = {}
  <2>1. CASE count = range[2]
    <3>1. ranges' = Tail(ranges) /\ <<range[1], count>> = range
      BY <1>2, <1>3, <2>1 DEF ByteRange
    <3>2. Separate'
      <4>1. ASSUME NEW i \in DOMAIN ranges', NEW j \in 1 .. i - 1
            PROVE  ranges'[j][1] + ranges'[j][2] < ranges'[i][1]
        <5>1. /\ i + 1 \in DOMAIN ranges /\ j + 1 \in 1 .. (i + 1) - 1
              /\ ranges'[i] = ranges[i + 1] /\ ranges'[j] = ranges[j + 1]
          BY <1>3, <3>1, <4>1
        <5>. QED  BY <1>1, <5>1 DEF Separate
      <4>. QED  BY <4>1 DEF Separate
    <3>. QED  BY <1>1, <1>2, <1>3, <1>7, <3>1, <3>2
  <2>2. CASE count # range[2]
    <3>. DEFINE rest == <<range[1] + count, range[2] - count>>
                first == <<range[1], count>>
    <3>1. /\ rest \in ByteRange /\ first \in ByteRange
          /\ ranges' = <<rest>> \o Tail(ranges)
          /\ requested' = requested \cup Bytes(first)
      BY <1>2, <1>4, <1>5, <2>2 DEF ByteRange
    <3>2. Bytes(range) = Bytes(first) \cup Bytes(rest) /\ Bytes(first) \cap Bytes(rest) = {}
      <4>1. /\ rest[1] = range[1] + count /\ rest[2] = range[2] - count
            /\ first[1] = range[1] /\ first[2] = count
        OBVIOUS
      <4>. HIDE DEF rest, first
      <4>2. \A b : /\ b \in Bytes(range)
                        <=> b \in Int /\ range[1] <= b /\ b < range[1] + range[2]
                   /\ b \in Bytes(first)
                        <=> b \in Int /\ range[1] <= b /\ b < range[1] + count
                   /\ b \in Bytes(rest)
                        <=> b \in Int /\ range[1] + count <= b /\ b < range[1] + range[2]
        <5>1. \A b : b \in Bytes(range)
                        <=> b \in Int /\ range[1] <= b /\ b < range[1] + range[2]
          BY <1>3, BytesOf
        <5>2. \A b : b \in Bytes(first)
                        <=> b \in Int /\ range[1] <= b /\ b < range[1] + count
          BY <3>1, <4>1, BytesOf
        <5>3. rest[1] + rest[2] = range[1] + range[2]
          BY <1>4, <1>5, <4>1
        <5>4. \A b : b \in Bytes(rest)
                        <=> b \in Int /\ range[1] + count <= b /\ b < range[1] + range[2]
          <6>1. \A b : b \in Bytes(rest)
                          <=> b \in Int /\ rest[1] <= b /\ b < rest[1] + rest[2]
            BY <3>1, BytesOf
          <6>. HIDE DEF range
          <6>. QED  BY <4>1, <5>3, <6>1
        <5>. QED  BY <5>1, <5>2, <5>4
      <4>3. ASSUME NEW b
            PROVE  /\ b \in Bytes(range) <=> b \in Bytes(first) \/ b \in Bytes(rest)
                   /\ ~(b \in Bytes(first) /\ b \in Bytes(rest))
        BY <1>4, <1>5, <4>2
      <4>. QED  BY <4>3
    <3>3. rest[1] + rest[2] = range[1] + range[2]
      BY <1>4, <1>5
    <3>. HIDE DEF rest, first
    <3>4. /\ ranges' \in Seq(ByteRange) /\ DOMAIN ranges' = 1 .. Len(ranges)
          /\ ranges'[1] = rest
          /\ \A i \in 1 .. Len(ranges) - 1 : ranges'[i + 1] = ranges[i + 1]
          /\ Covered(ranges') = Bytes(rest) \cup Covered(Tail(ranges))
      <4>1. Len(Tail(ranges)) = Len(ranges) - 1
        BY <1>3, LenProperties
      <4>2. /\ ranges' \in Seq(ByteRange) /\ DOMAIN ranges' = 1 .. Len(Tail(ranges)) + 1
            /\ ranges'[1] = rest
            /\ \A i \in 1 .. Len(Tail(ranges)) : ranges'[i + 1] = Tail(ranges)[i]
            /\ Covered(ranges') = Bytes(rest) \cup Covered(Tail(ranges))
        BY <1>3, <3>1, CoveredCons
      <4>3. Len(Tail(ranges)) + 1 = Len(ranges)
        BY <1>3, <4>1
      <4>4. \A i \in 1 .. Len(ranges) - 1 : ranges'[i + 1] = ranges[i + 1]
        BY <1>3, <4>1, <4>2
      <4>. QED  BY <4>2, <4>3, <4>4
    <3>5. Separate'
      <4>1. ASSUME NEW i \in DOMAIN ranges', NEW j \in 1 .. i - 1
            PROVE  ranges'[j][1] + ranges'[j][2] < ranges'[i][1]
        <5>1. i \in 1 .. Len(ranges) /\ j \in 1 .. Len(ranges) /\ i > 1
              /\ i - 1 \in 1 .. Len(ranges) - 1
          BY <1>3, <3>4, <4>1
        <5>2. ranges'[i] = ranges[i]
          <6>1. (i - 1) + 1 = i
            BY <5>1
          <6>2. ranges'[(i - 1) + 1] = ranges[(i - 1) + 1]
            BY <3>4, <5>1
          <6>. QED  BY <6>1, <6>2
        <5>3. CASE j = 1
          <6>1. (i - 1) + 1 = i /\ i \in Int
            BY <1>3, <5>1
          <6>2. range[1] + range[2] < ranges[i][1]
            BY <1>6, <5>1, <6>1
          <6>. QED  BY <3>3, <3>4, <5>2, <5>3, <6>2
        <5>4. CASE j # 1
          <6>1. j - 1 \in 1 .. Len(ranges) - 1
            BY <1>3, <5>1, <5>4
          <6>2. ranges'[j] = ranges[j]
            BY <3>4, <5>1, <6>1
          <6>. QED  BY <1>1, <1>3, <5>1, <5>2, <6>2 DEF Separate
        <5>. QED  BY <5>3, <5>4
      <4>. QED  BY <4>1 DEF Separate
    <3>. QED  BY <1>1, <1>3, <1>7, <3>1, <3>2, <3>4, <3>5
  <2>. QED  BY <2>1, <2>2
<1>9. Wanted' = Wanted
  BY <1>1, InputUnchanged
<1>. QED  BY <1>1, <1>8, <1>9 DEF ReadaheadInv, IoTypeOK, ByteRange

LEMMA RestKeeps ==
  ASSUME ReadaheadInv, RequestFails \/ Return \/ UNCHANGED io_vars
  PROVE  ReadaheadInv'
<1>1. UNCHANGED <<request, page, run_start, ranges, requested>>
  BY DEF RequestFails, Return, io_vars
<1>2. \/ io = "read" /\ io' = "failed"
      \/ io = "read" /\ io' = "done" /\ ranges = <<>>
      \/ io' = io
  BY DEF RequestFails, Return, io_vars
<1>3. IoTypeOK' /\ Separate' /\ Wanted' = Wanted
  BY <1>1, <1>2, InputUnchanged DEF ReadaheadInv, IoTypeOK, Separate
<1>4. PagesInv => PagesInv'
  BY <1>1 DEF PagesInv, Wanted, End, NumPages, FirstPage, PageStart, Settled
<1>. QED  BY <1>1, <1>2, <1>3, <1>4 DEF ReadaheadInv

LEMMA InitKeeps == ASSUME ReadaheadInit PROVE ReadaheadInv
BY DEF ReadaheadInit, ReadaheadInv, IoTypeOK, Separate, NoRun

\* in every state of the I/O the invariant holds
THEOREM IoInvariance == ReadaheadSpec => []ReadaheadInv
<1>1. ReadaheadInit => ReadaheadInv
  BY InitKeeps
<1>2. ReadaheadInv /\ [ReadaheadNext]_io_vars => ReadaheadInv'
  BY QueryFailsKeeps, QueryKeeps, PageKeeps, FlushKeeps, RequestRangeKeeps, RestKeeps
  DEF ReadaheadNext
<1>. QED  BY <1>1, <1>2, PTL DEF ReadaheadSpec
(***************************************************************************)
(* For any page size, chunk, map and cached pages: while its pages are     *)
(* looked at and while they are requested, no byte is requested twice,     *)
(* none outside the map or of a cached page, and in the end every other    *)
(* (uncached_ranges, do_readahead).                                        *)
(***************************************************************************)
THEOREM RequestsAreExact == ReadaheadSpec => []RequestsExactly
<1>1. ReadaheadInv => RequestsExactly
  <2>. SUFFICES ASSUME ReadaheadInv PROVE RequestsExactly
    OBVIOUS
  <2>. USE DEF ReadaheadInv
  <2>1. /\ requested \subseteq Wanted
        /\ Covered(ranges) \subseteq Wanted /\ Covered(ranges) \cap requested = {}
    <3>1. CASE io = "query"
      BY <3>1, CoveredEmpty
    <3>2. CASE io = "pages"
      BY <3>2 DEF PagesInv
    <3>3. CASE io \in {"read", "done", "failed"}
      BY <3>3
    <3>. QED  BY <3>1, <3>2, <3>3 DEF IoTypeOK
  <2>2. io = "done" => requested = Wanted
    BY CoveredEmpty
  <2>3. ASSUME NEW i \in DOMAIN ranges
        PROVE  ranges[i][2] > 0 /\ Bytes(ranges[i]) \subseteq Wanted \ requested
    <3>1. ranges[i] \in ByteRange
      BY ElementOfSeq, LenProperties DEF IoTypeOK, ByteRange
    <3>2. Bytes(ranges[i]) \subseteq Covered(ranges)
      BY DEF Covered
    <3>. QED  BY <2>1, <3>1, <3>2, BytesOf
  <2>. QED  BY <2>1, <2>2, <2>3 DEF RequestsExactly, Separate
<1>. QED  BY <1>1, IoInvariance, PTL

=============================================================================
