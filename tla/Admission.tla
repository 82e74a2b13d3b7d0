------------------------------- MODULE Admission -------------------------------
(***************************************************************************)
(* DefaultAdmissionPolicy: prefix rules and a minimum size decide whether  *)
(* an executable is tracked, and rejections are kept in a cache for some   *)
(* time.  A path is a sequence of bytes, or of pieces of several bytes     *)
(* that no rule takes apart; a piece need not end at a separator.  Each    *)
(* mapping has one unit of size, and two processes that map the same file  *)
(* have two mappings of it: total_size adds up every mapping that a scan   *)
(* reports.                                                                *)
(*                                                                         *)
(* Module Stores takes whatever this module may decide: any subset of the  *)
(* running executables is accepted by some policy and cache.               *)
(***************************************************************************)
EXTENDS Integers, FiniteSets, Sequences, SequencesExt

CONSTANTS
    Exe,        \* paths of executables
    Mapping,    \* mappings that their processes may have
    NotUtf8,    \* the pieces that no UTF-8 string has
    Policies,   \* the policies that start-up or a reload may install
    MaxTtl      \* bound on cache_ttl

Rule == [neg : BOOLEAN, prefix : Seq(STRING)]

(***************************************************************************)
(* cache_ttl is counted in clock ticks of the model; zero disables the     *)
(* cache, as does a cache_capacity of zero.                                *)
(***************************************************************************)
Policy == [exeprefix : Seq(Rule), mapprefix : Seq(Rule), minsize : Nat,
           cache_ttl : 0 .. MaxTtl, cache_capacity : Nat]

ASSUME PathsAssumption == IsFiniteSet(Exe) /\ IsFiniteSet(Mapping)
ASSUME MaxTtlAssumption == MaxTtl \in Nat
ASSUME PoliciesAssumption == Policies \subseteq Policy

VARIABLES
    policy,     \* the installed policy
    cache,      \* a function from rejected executables to what is cached
    mapped,     \* the mappings that the processes of an executable have
    accepted,   \* the executables that the last decision on them accepted
    judged      \* history: for how long an executable was not judged anew

vars == <<policy, cache, mapped, accepted, judged>>

Reject == {"TooSmall", "ExePrefixDenied", "MapPrefixDenied", "MissingMaps"}
Accept == {"Full", "Partial"}

NoEntries == [e \in {} |-> {}]

-----------------------------------------------------------------------------
(* The rules                                                               *)

\* Path::to_str
IsUtf8(path) == \A i \in DOMAIN path : path[i] \notin NotUtf8

WrongBetter(prefix, best) == best.length <= Len(prefix)     \* mutant: last of equals

\* best.map(|(_, l)| l).unwrap_or(0) < len
Better(prefix, best) == best.length < Len(prefix)

\* accept_path, with its loop; before a rule counts, every path is accepted
AcceptPath(path, prefixes) ==
    LET Best[i \in 0 .. Len(prefixes)] ==
            IF i = 0 THEN [accept |-> TRUE, length |-> 0]
            ELSE LET rule == prefixes[i]
                     best == Best[i - 1]
                 IN  IF IsPrefix(rule.prefix, path) /\ Better(rule.prefix, best)
                     THEN [accept |-> ~rule.neg, length |-> Len(rule.prefix)]
                     ELSE best
    IN  IsUtf8(path) /\ Best[Len(prefixes)].accept

AllowExe(e) == AcceptPath(e, policy.exeprefix)
AllowMap(m) == AcceptPath(m.path, policy.mapprefix)

\* what decide says of a candidate that the cache does not know
Verdict(e) ==
    LET maps     == {m \in mapped[e] : AllowMap(m)}
        rejected == mapped[e] \ maps
    IN  CASE ~AllowExe(e) -> "ExePrefixDenied"
          [] AllowExe(e) /\ maps = {} ->
                IF rejected = {} THEN "MissingMaps" ELSE "MapPrefixDenied"
          [] AllowExe(e) /\ maps # {} /\ Cardinality(maps) < policy.minsize -> "TooSmall"
          [] OTHER -> IF rejected = {} THEN "Full" ELSE "Partial"

-----------------------------------------------------------------------------
(* The cache                                                               *)

CacheEnabled == policy.cache_ttl > 0 /\ policy.cache_capacity > 0

\* cache_reject inserts with a full time to live, cache_clear invalidates
CacheAfter(e, verdict) ==
    IF verdict \in Accept
    THEN [x \in DOMAIN cache \ {e} |-> cache[x]]
    ELSE IF CacheEnabled
         THEN [x \in DOMAIN cache \cup {e} |->
                 IF x = e THEN [reason |-> verdict, left |-> policy.cache_ttl]
                          ELSE cache[x]]
         ELSE cache

WrongHit(e) ==      \* mutant: time_to_idle, a look-up renews the entry
    /\ e \in DOMAIN cache
    /\ accepted' = accepted \ {e}
    /\ cache' = [cache EXCEPT ![e].left = policy.cache_ttl]
    /\ UNCHANGED judged

\* time_to_live: a look-up does not renew the entry
Hit(e) ==
    /\ e \in DOMAIN cache
    /\ accepted' = accepted \ {e}
    /\ UNCHANGED <<cache, judged>>

Miss(e) ==
    /\ e \notin DOMAIN cache
    /\ accepted' = IF Verdict(e) \in Accept THEN accepted \cup {e} ELSE accepted \ {e}
    /\ cache' = CacheAfter(e, Verdict(e))
    /\ judged' = [judged EXCEPT ![e] = 0]

\* decide, which a scan calls for each executable that it has seen
Decide(e) ==
    /\ Hit(e) \/ Miss(e)
    /\ UNCHANGED <<policy, mapped>>

\* entries are a tick older, and those whose time is up are gone
Aged ==
    [e \in {x \in DOMAIN cache : cache[x].left > 1} |->
       [cache[e] EXCEPT !.left = @ - 1]]

\* time passes; the history stops at the largest time to live
Tick ==
    /\ cache' = Aged
    /\ judged' = [e \in Exe |-> IF judged[e] < MaxTtl THEN judged[e] + 1 ELSE MaxTtl]
    /\ UNCHANGED <<policy, mapped, accepted>>

(***************************************************************************)
(* The cache evicts at its own time, in LRU order or nearly so (reads may  *)
(* go unrecorded): here any entry, whenever there are too many.            *)
(***************************************************************************)
Evict(e) ==
    /\ e \in DOMAIN cache /\ Cardinality(DOMAIN cache) > policy.cache_capacity
    /\ cache' = [x \in DOMAIN cache \ {e} |-> cache[x]]
    /\ UNCHANGED <<policy, mapped, accepted, judged>>

-----------------------------------------------------------------------------
\* processes start, end, load libraries and unload them
MapsChange(e) ==
    /\ \E S \in SUBSET Mapping : mapped' = [mapped EXCEPT ![e] = S]
    /\ UNCHANGED <<policy, cache, accepted, judged>>

WrongFreshCache == cache    \* mutant: the cache is handed on to the new policy

\* DefaultAdmissionPolicy::new builds an empty cache
FreshCache == NoEntries

\* a reload installs a new policy object
Reload ==
    /\ policy' \in Policies
    /\ cache' = FreshCache
    /\ UNCHANGED <<mapped, accepted, judged>>

Init ==
    /\ policy \in Policies
    /\ cache = NoEntries
    /\ mapped \in [Exe -> SUBSET Mapping]
    /\ accepted = {}
    /\ judged = [e \in Exe |-> 0]

Next ==
    \/ \E e \in Exe : Decide(e) \/ Evict(e) \/ MapsChange(e)
    \/ Tick \/ Reload

(***************************************************************************)
(* Time passes, and each executable that runs is seen in every scan.       *)
(***************************************************************************)
Fairness == WF_vars(Tick) /\ \A e \in Exe : WF_vars(Decide(e))

Spec == Init /\ [][Next]_vars /\ Fairness

-----------------------------------------------------------------------------
TypeOK ==
    /\ policy \in Policies
    /\ DOMAIN cache \subseteq Exe
    /\ cache \in [DOMAIN cache -> [reason : Reject, left : 1 .. MaxTtl]]
    /\ mapped \in [Exe -> SUBSET Mapping]
    /\ accepted \subseteq Exe
    /\ judged \in [Exe -> 0 .. MaxTtl]

\* the rules that match path, by position; an empty prefix decides nothing
Matching(path, prefixes) ==
    {i \in DOMAIN prefixes : prefixes[i].prefix # <<>> /\ IsPrefix(prefixes[i].prefix, path)}

(***************************************************************************)
(* "The longest matching prefix wins" (GUIDE.md, exeprefix): the rule that *)
(* decides is one that no other matching rule exceeds in length, the first *)
(* of equals; without a matching rule a path is accepted.  No rule, and    *)
(* not the lack of one, admits a path that is not UTF-8 (accept_path).     *)
(***************************************************************************)
LongestPrefixWins ==
    \A path \in Exe :
        LET prefixes == policy.exeprefix
            M == Matching(path, prefixes)
        IN  AcceptPath(path, prefixes) <=>
            /\ IsUtf8(path)
            /\ \/ M = {}
               \/ \E i \in M : /\ ~prefixes[i].neg
                               /\ \A j \in M \ {i} :
                                     LET a == Len(prefixes[i].prefix)
                                         b == Len(prefixes[j].prefix)
                                     IN  a > b \/ (a = b /\ i < j)

(***************************************************************************)
(* What is cached was decided by the policy in force: after a reload no    *)
(* rejection by prefix of the earlier policy is answered from the cache,   *)
(* and nothing is cached by a policy without a cache (admission.rs, new;   *)
(* engine.rs, apply_reload).                                               *)
(***************************************************************************)
CacheMatchesPolicy ==
    \A e \in DOMAIN cache :
        /\ CacheEnabled
        /\ cache[e].left <= policy.cache_ttl
        /\ cache[e].reason = "ExePrefixDenied" <=> ~AllowExe(e)

(***************************************************************************)
(* A candidate is never rejected from the cache for longer than cache_ttl, *)
(* however often it is looked up meanwhile: then it is judged anew         *)
(* (GUIDE.md, policy_cache_ttl; admission.rs, decide).                     *)
(***************************************************************************)
RejectionsExpire ==
    \A e \in DOMAIN cache : cache[e].left + judged[e] <= policy.cache_ttl

(***************************************************************************)
(* An executable that stays admissible is accepted in the end, and from    *)
(* then on: a cached rejection delays it and never shuts it out.           *)
(***************************************************************************)
AdmittedInTheEnd ==
    \A e \in Exe : <>[](Verdict(e) \in Accept) => <>[](e \in accepted)
=============================================================================
