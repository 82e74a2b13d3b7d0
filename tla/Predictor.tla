------------------------------- MODULE Predictor -------------------------------
(***************************************************************************)
(* MarkovPredictor::predict, and the plan that a tick makes of its result: *)
(* both read the same stores, which nothing changes between the calls.     *)
(*                                                                         *)
(* Probabilities are numbers out of One, and a product is rounded down:    *)
(* what is likely at all stays so, as it does in the f32 and f16 of the    *)
(* code, where 1 - (1 - 1e-6) is not 0.                                    *)
(***************************************************************************)
EXTENDS Planner

CONSTANTS
    Exe,
    One     \* the probability 1

ASSUME OneAssumption == One \in Nat \ {0}
ASSUME ExeAssumption == IsFiniteSet(Exe)
ASSUME ScoresAssumption == 0 .. One \subseteq Scores

VARIABLE stores     \* what predict reads: the stores and model.use_correlation

\* for an edge (a, b): is a running, is b running
MarkovState == BOOLEAN \X BOOLEAN

(***************************************************************************)
(* An edge: leave is 1 - exp(-cycle / time_to_leave), and 0 where no time  *)
(* to leave is known; both is the absolute phi coefficient of its times.   *)
(***************************************************************************)
EdgeData == [leave : [MarkovState -> 0 .. One], phi : 0 .. One,
             transition_prob : [MarkovState -> [MarkovState -> 0 .. One]]]

\* share is total_running_time / model_time, clamped
StoresType ==
    [running : SUBSET Exe, share : [Exe -> 0 .. One],
     markov : UNION {[edges -> EdgeData] :
                        edges \in SUBSET {k \in Exe \X Exe : k[1] # k[2]}},
     exes_for_map : [Map -> SUBSET Exe], use_correlation : BOOLEAN]

Times(p, q) == (p * q) \div One

Clamped(p) == IF p > One THEN One ELSE p

(***************************************************************************)
(* 0 stands for f32::MIN_POSITIVE, where nothing can be said: share is     *)
(* total_running_time / model_time, which must lie inside (0, 1) for both. *)
(***************************************************************************)
Correlation(edge) ==
    IF ~stores.use_correlation THEN One
    ELSE IF \A e \in ToSet(edge) : stores.share[e] \in 1 .. One - 1
         THEN stores.markov[edge].phi ELSE 0

\* p_needed: the state is left for one in which the target runs
PNeeded(edge, state, alone) ==
    LET data == stores.markov[edge]
        p_runs_next == data.transition_prob[state][alone]
                         + data.transition_prob[state][<<TRUE, TRUE>>]
    IN  Clamped(Times(data.leave[state], p_runs_next))

\* what an edge says of e, the one of its ends at this position
EdgeNeeded(edge, e) ==
    LET state == <<edge[1] \in stores.running, edge[2] \in stores.running>>
        alone == <<e = edge[1], e = edge[2]>>
    IN  Times(PNeeded(edge, state, alone), Correlation(edge))

\* 1 - product of (1 - p): at least one of the chances
AnyOf(chance) ==
    One - FoldSet(LAMBDA x, rest : Times(One - chance[x], rest), One, DOMAIN chance)

WrongFloor == 0     \* mutant: no minimum score

\* 1e-6, which is the smallest chance: every executable that was observed is a candidate
Floor == 1

ExeScore(e) ==
    IF e \in stores.running THEN 0
    ELSE Max({AnyOf([edge \in {k \in DOMAIN stores.markov : e \in ToSet(k)} |->
                       EdgeNeeded(edge, e)]),
              stores.share[e], Floor})

MapScore(m) == AnyOf([e \in stores.exes_for_map[m] |-> ExeScore(e)])

Prediction == [m \in Map |-> MapScore(m)]

\* a call of plan on what predict returns
PredictInit ==
    /\ stores \in StoresType
    /\ input \in Input /\ input.score = Prediction
    /\ Called

PredictNext == Next /\ UNCHANGED stores

PredictSpec == PredictInit /\ [][PredictNext]_<<vars, stores>>

Useful(m) == stores.exes_for_map[m] \ stores.running # {}

(***************************************************************************)
(* A map is planned for the sake of an executable that is not running, and *)
(* one that such an executable uses is left out only where it did not fit, *)
(* however rarely that executable ran: neither the filter of zero scores   *)
(* nor rounding drops it (predict; plan).                                  *)
(***************************************************************************)
PlansUseful ==
    /\ \A m \in ToSet(selected) : Useful(m)
    /\ \A m \in Map \ (items \cup ToSet(selected)) :
          Useful(m) => Kb(input.length[m]) > Available - ClaimedBefore(m)
=============================================================================
