-------------------------------- MODULE Planner --------------------------------
(***************************************************************************)
(* GreedyPrefetchPlanner: which predicted maps fit into the memory budget, *)
(* and in which order they are prefetched.  A behaviour is one call of     *)
(* plan, which shares no state with any other: a step for each candidate   *)
(* and one for the final sort.  It ends when the call returns.             *)
(*                                                                         *)
(* Scores matter by their order only, and so do the keys of the sort       *)
(* strategy: both are small naturals.  A prediction scores stored maps     *)
(* only, since it is made from the same stores.                            *)
(***************************************************************************)
EXTENDS Integers, FiniteSets, Sequences, FiniteSetsExt, SequencesExt

CONSTANTS
    Map,        \* the stored maps
    Scores,     \* the scores of a prediction, zero among them
    Lengths,    \* the lengths of maps, in bytes
    Keys,       \* what the sort strategy may compare
    None,       \* the key of a map of which device and inode are unknown
    Policies,   \* [memtotal, memavailable] in percent, as configured
    MemStats,   \* [total, available] in KiB, as /proc/meminfo gives them
    SortStrategy    \* the configured strategies: "None", "Key"

ASSUME MapAssumption == IsFiniteSet(Map)
ASSUME NumbersAssumption ==
    Scores \subseteq Nat /\ Lengths \subseteq Nat /\ Keys \subseteq Nat /\ None \notin Nat
ASSUME PoliciesAssumption == Policies \subseteq [memtotal : Int, memavailable : Int]
ASSUME MemStatsAssumption ==
    /\ MemStats \subseteq [total : Nat, available : Nat]
    /\ \A mem \in MemStats : mem.available <= mem.total
ASSUME SortStrategyAssumption == SortStrategy \subseteq {"None", "Key"}

VARIABLES
    pc,         \* "greedy" in the loop, "returned" after it
    input,      \* what the call reads: scores, lengths, keys, policy, memory, strategy
    items,      \* candidates that the loop has not reached
    selected,   \* the maps selected so far; the plan once it has returned
    budget_kb,
    total_bytes

vars == <<pc, input, items, selected, budget_kb, total_bytes>>

Input == [score : [Map -> Scores], length : [Map -> Lengths],
          key : [Map -> Keys \cup {None}], policy : Policies, mem : MemStats,
          sort : SortStrategy]

-----------------------------------------------------------------------------
(* The budget                                                              *)

WrongClamp(percent) == percent      \* mutant: percentages as configured

\* i32::clamp(-100, 100)
Clamp(percent) ==
    IF percent < -100 THEN -100 ELSE IF percent > 100 THEN 100 ELSE percent

\* Rust's division rounds toward zero
Percent(n) == IF n >= 0 THEN n \div 100 ELSE -((-n) \div 100)

AvailableKb(policy, mem) ==
    LET budget == Percent(Clamp(policy.memtotal) * mem.total)
                    + Percent(Clamp(policy.memavailable) * mem.available)
    IN  IF budget > 0 THEN budget ELSE 0

\* u64::div_ceil
Kb(bytes) == (bytes + 1023) \div 1024

Available == AvailableKb(input.policy, input.mem)

-----------------------------------------------------------------------------
(* The loop                                                                *)

\* filter: those with a positive score
Candidates == {m \in Map : input.score[m] > 0}

(***************************************************************************)
(* The sort by descending score is unstable, over the order of a hash map: *)
(* any of the best remaining candidates may be next.                       *)
(***************************************************************************)
Best == {m \in items : \A n \in items : input.score[n] <= input.score[m]}

Select(m) ==
    /\ Kb(input.length[m]) <= budget_kb
    /\ budget_kb' = budget_kb - Kb(input.length[m])
    /\ total_bytes' = total_bytes + input.length[m]
    /\ selected' = Append(selected, m)
    /\ items' = items \ {m}

WrongSkip(m) ==     \* mutant: the loop breaks where it should continue
    /\ Kb(input.length[m]) > budget_kb
    /\ items' = {}
    /\ UNCHANGED <<budget_kb, total_bytes, selected>>

\* continue: a smaller map of a lower score may still fit
Skip(m) ==
    /\ Kb(input.length[m]) > budget_kb
    /\ items' = items \ {m}
    /\ UNCHANGED <<budget_kb, total_bytes, selected>>

Consider ==
    /\ pc = "greedy"
    /\ \E m \in Best : Select(m) \/ Skip(m)
    /\ UNCHANGED <<pc, input>>

-----------------------------------------------------------------------------
(* The final sort                                                          *)

\* keys in their order, and maps without one last; the index breaks ties
KeyBefore(i, j) ==
    LET a == input.key[selected[i]]
        b == input.key[selected[j]]
    IN  \/ a # None /\ b = None
        \/ a # None /\ b # None /\ a < b
        \/ a = b /\ i < j

WrongBefore(i, j) == KeyBefore(i, j)        \* mutant: the key comes first

\* sort_by_score_and_key
Before(i, j) ==
    LET a == input.score[selected[i]]
        b == input.score[selected[j]]
    IN  a > b \/ (a = b /\ KeyBefore(i, j))

\* the positions of selected in the order of the plan
Order ==
    CHOOSE o \in [DOMAIN selected -> DOMAIN selected] :
        \A i, j \in DOMAIN selected : i < j => Before(o[i], o[j])

Finish ==
    /\ pc = "greedy" /\ items = {}
    /\ pc' = "returned"
    /\ selected' = IF input.sort = "None" THEN selected
                   ELSE [i \in DOMAIN selected |-> selected[Order[i]]]
    /\ UNCHANGED <<input, items, budget_kb, total_bytes>>

\* the call, with this input
Called ==
    /\ pc = "greedy"
    /\ items = Candidates
    /\ selected = <<>>
    /\ budget_kb = Available
    /\ total_bytes = 0

Init == input \in Input /\ Called

Next == Consider \/ Finish

Spec == Init /\ [][Next]_vars

-----------------------------------------------------------------------------
TypeOK ==
    /\ pc \in {"greedy", "returned"}
    /\ input \in Input
    /\ items \subseteq Map
    /\ selected \in Seq(Map)
    /\ budget_kb \in Nat
    /\ total_bytes \in Nat

(***************************************************************************)
(* A plan never takes more than its budget, and unless a positive share of *)
(* all memory is configured it fits into the memory that is available,     *)
(* whatever the percentages (planner.rs, available_kb; memory_policy.rs).  *)
(***************************************************************************)
PlanFits ==
    /\ total_bytes <= 1024 * Available
    /\ input.policy.memtotal <= 0 => total_bytes <= 1024 * input.mem.available

\* what maps of these lengths take from the budget
SumKb(length, maps) == MapThenSumSet(LAMBDA m : Kb(length[m]), maps)

\* the selected maps that score at least as high as m
AtLeast(m) == {n \in ToSet(selected) : input.score[n] >= input.score[m]}

ClaimedBefore(m) == SumKb(input.length, AtLeast(m))

(***************************************************************************)
(* A map that is predicted and left out did not fit beside the maps that   *)
(* score at least as high: none is left out for the sake of a map of a     *)
(* lower score, nor because an earlier one was too large (planner.rs, the  *)
(* loop of plan).                                                          *)
(***************************************************************************)
LeftOutDidNotFit ==
    \A m \in Map \ (items \cup ToSet(selected)) :
        input.score[m] > 0 => Kb(input.length[m]) > Available - ClaimedBefore(m)

(***************************************************************************)
(* "Sort strategies apply only as score tie-breakers" (docs/ADR.md): what  *)
(* is selected is in descending order of the scores, before and after the  *)
(* final sort, and each map is in it once (planner.rs,                     *)
(* sort_by_score_and_key).                                                 *)
(***************************************************************************)
TieBreakOnly ==
    /\ \A i, j \in DOMAIN selected :
          i < j => input.score[selected[i]] >= input.score[selected[j]]
    /\ IsInjective(selected)
=============================================================================
