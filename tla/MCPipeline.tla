------------------------------ MODULE MCPipeline ------------------------------
(***************************************************************************)
(* Small instances of three calls of a tick that share no state while they *)
(* run, for TLC: a behaviour is a call of predict and plan, or the I/O of  *)
(* one map.  What the other variables hold then is of no account.          *)
(***************************************************************************)
EXTENDS Predictor, Readahead, TLC

CONSTANTS x, y      \* the executables

pipeline_vars == <<vars, stores, io_vars>>

\* the default, a clamped one, one that adds a share of all memory, and one
\* that leaves no budget
MCPolicies == {[memtotal |-> -5, memavailable |-> 95],
               [memtotal |-> -5, memavailable |-> 250],
               [memtotal |-> 50, memavailable |-> 0],
               [memtotal |-> -50, memavailable |-> 50]}

Default == [memtotal |-> -5, memavailable |-> 95]

\* 25 KiB: five percent of it are not a whole number
MCMemStats == {[total |-> 25, available |-> a] : a \in {2, 4}}

\* one KiB exactly, and a byte more
MCLengths == {1024, 1025}

MCSymmetry == Permutations(Map)

\* an edge whose states lead to y with certainty, and to x now and then
MCEdge ==
    [leave |-> [s \in MarkovState |-> IF s = <<FALSE, TRUE>> THEN 0 ELSE One],
     transition_prob |-> [s \in MarkovState |->
        [t \in MarkovState |-> IF t = <<FALSE, TRUE>> THEN One - 1
                               ELSE IF t = <<TRUE, TRUE>> THEN 1 ELSE 0]],
     phi |-> One - 1]

MCStores ==
    [running : SUBSET Exe, share : [Exe -> {0, 2, One}],
     markov : {<<>>, [k \in {<<x, y>>} |-> MCEdge]},
     exes_for_map : [Map -> SUBSET Exe], use_correlation : BOOLEAN]

\* every order of three scores
SimpleStores ==
    [running : {{}}, share : {[e \in Exe |-> IF e = x THEN 0 ELSE 2]},
     markov : {<<>>}, exes_for_map : [Map -> {{}, {x}, {y}}],
     use_correlation : {TRUE}]

PredictAndPlan(inputs) ==
    /\ input \in inputs
    /\ Called
    /\ request = [offset |-> 0, length |-> 0, cached |-> {}, mincore_ok |-> TRUE]
    /\ io = "done" /\ page = 0 /\ run_start = NoRun
    /\ ranges = <<>> /\ requested = {}

PlannerInputs ==
    [score : {Prediction}, length : [Map -> Lengths], key : [Map -> Keys \cup {None}],
     policy : Policies, mem : MemStats, sort : SortStrategy]

PredictorInputs ==
    [score : {Prediction}, length : [Map -> Lengths], key : {[m \in Map |-> None]},
     policy : {Default}, mem : MemStats, sort : {"None"}]

PipelineInit ==
    \/ stores \in MCStores /\ PredictAndPlan(PredictorInputs)
    \/ stores \in SimpleStores /\ PredictAndPlan(PlannerInputs)
    \/ /\ stores = CHOOSE s \in SimpleStores : \A m \in Map : s.exes_for_map[m] = {}
       /\ input = CHOOSE in \in PredictorInputs : TRUE
       /\ pc = "returned" /\ items = {} /\ selected = <<>>
       /\ budget_kb = Available /\ total_bytes = 0
       /\ ReadaheadInit

PipelineNext ==
    \/ PredictNext /\ UNCHANGED io_vars
    \/ ReadaheadNext /\ UNCHANGED <<vars, stores>>

PipelineSpec == PipelineInit /\ [][PipelineNext]_pipeline_vars
=============================================================================
