------------------------------- MODULE AddPhase -------------------------------
(***************************************************************************)
(* The Add phase of a fuzzing worker (scheduler/src/fuzzer/worker_impl/    *)
(* phases/add.rs): FuzzingWorker::do_add_phase, add_phase_choose_candidates *)
(* and add_phase_prepare_mutations, run by several workers against the     *)
(* shared Cerebrum.                                                        *)
(*                                                                         *)
(* A mutation cache entry (MCE) is abstracted to its patch-point id and    *)
(* whether its mask is a nop.  The temporary cache built from all patch    *)
(* points, united with the entry's cache, reduced to the covered ids and   *)
(* resized is, per id: active (the entry's non-nop MCEs that are covered)  *)
(* or a nop candidate (every other covered id).  Resizing only appends     *)
(* zero bytes, so it does not change which MCEs are nops.                  *)
(*                                                                         *)
(* The Cerebrum (outside src/) is modelled from spec 4.4: the set of       *)
(* unfuzzed patch points, which the fuzzing callback shrinks, and the set  *)
(* of yielding ones, which grows when a new queue entry is admitted.       *)
(***************************************************************************)
EXTENDS Naturals, FiniteSets

CONSTANTS
    Workers,        \* the fuzzing worker threads
    PatchPoints,    \* the patch-point ids of the source
    Entries,        \* the queue entries the worker loop may hand the phase
    Active,         \* Active[e]: ids of the non-nop MCEs of entry e's cache
    Covered,        \* Covered[e]: trace.covered() of entry e
    Width,          \* Width[p]: mask length of p after resize_covered_entries
    BatchSize,      \* config.phases.add.batch_size
    WeightChoices   \* the select_{unfuzzed,yielding,random}_weight triples

Classes == {"unfuzzed", "yielding", "random"}

ASSUME ConstantsAssumption ==
    /\ Entries # {}
    /\ Active \in [Entries -> SUBSET PatchPoints]
    /\ Covered \in [Entries -> SUBSET PatchPoints]
    /\ Width \in [PatchPoints -> Nat]
    /\ BatchSize \in Nat
    /\ WeightChoices \subseteq [Classes -> Nat]
    /\ WeightChoices # {}

(* A program has finitely many patch points.                              *)
ASSUME PatchPointsFinite == IsFiniteSet(PatchPoints)

VARIABLES
    unfuzzed,   \* Cerebrum: patch points never fuzzed by any worker
    yielded,    \* Cerebrum: patch points that yielded new coverage
    pc,         \* where each worker is in do_add_phase
    entry,      \* self.state.entry(): the queue entry the worker extends
    cand,       \* `candidates`: the nop MCEs still drawable
    drawn,      \* the MCEs each class moved from `candidates` to `selection`
    budget,     \* the prepared mutations: target id -> RandomByte1 iterations
    weights     \* the configured select weights (fixed for the campaign)

vars == <<unfuzzed, yielded, pc, entry, cand, drawn, budget, weights>>

NoDraws == [c \in Classes |-> {}]

(* The draws a selection of at most n elements out of S can make.         *)
Draw(n, S) ==
    {T \in SUBSET S : Cardinality(T) = IF n < Cardinality(S) THEN n
                                                            ELSE Cardinality(S)}

(* AddPhaseConfig::weights_sum; the assert fires on a zero sum.           *)
WeightsSum ==
    weights["unfuzzed"] + weights["yielding"] + weights["random"]

(* calc_share: the floor of (weight / weight_sum) * batch_size.           *)
CalcShare(weight) == (weight * BatchSize) \div WeightsSum

(* Variant of Iterations with strict bounds.                               *)
IterationsOffByOne(x) ==
    IF x < 32 THEN 32 * x ELSE IF x < 128 THEN 16 * x ELSE 16 * 128

(* The iteration budget of RandomByte1 for a mask of length x.            *)
Iterations(x) ==
    IF x <= 32 THEN 32 * x ELSE IF x <= 128 THEN 16 * x ELSE 16 * 128

Init ==
    /\ unfuzzed = PatchPoints
    /\ yielded = {}
    /\ pc = [w \in Workers |-> "idle"]
    /\ entry = [w \in Workers |-> CHOOSE e \in Entries : TRUE]
    /\ cand = [w \in Workers |-> {}]
    /\ drawn = [w \in Workers |-> NoDraws]
    /\ budget = [w \in Workers |-> [p \in {} |-> 0]]
    /\ weights \in WeightChoices

(* Variant of ChooseUnfuzzed that takes every unfuzzed covered id.        *)
ChooseUnfuzzedAll(w, e) ==
    /\ pc[w] = "idle"
    /\ WeightsSum > 0
    /\ LET S == unfuzzed \cap Covered[e] IN
          /\ drawn' = [drawn EXCEPT ![w] =
                          [NoDraws EXCEPT !["unfuzzed"] = (Covered[e] \ Active[e]) \cap S]]
          /\ cand' = [cand EXCEPT ![w] = (Covered[e] \ Active[e]) \ S]
    /\ pc' = [pc EXCEPT ![w] = "yielding"]
    /\ entry' = [entry EXCEPT ![w] = e]
    /\ UNCHANGED <<unfuzzed, yielded, budget, weights>>

(* Variant of ChooseUnfuzzed that keeps the drawn ids among `candidates`. *)
ChooseUnfuzzedNoExtract(w, e) ==
    /\ pc[w] = "idle"
    /\ WeightsSum > 0
    /\ \E S \in Draw(CalcShare(weights["unfuzzed"]), unfuzzed \cap Covered[e]) :
          /\ drawn' = [drawn EXCEPT ![w] =
                          [NoDraws EXCEPT !["unfuzzed"] = (Covered[e] \ Active[e]) \cap S]]
          /\ cand' = [cand EXCEPT ![w] = Covered[e] \ Active[e]]
    /\ pc' = [pc EXCEPT ![w] = "yielding"]
    /\ entry' = [entry EXCEPT ![w] = e]
    /\ UNCHANGED <<unfuzzed, yielded, budget, weights>>

(***************************************************************************)
(* do_add_phase on entry e up to the end of the unfuzzed block: build the  *)
(* temporary cache, split it into the forced `selection` (active) and the  *)
(* `candidates` (nop), compute calc_share (panicking in weights_sum when   *)
(* all weights are zero), then under the Cerebrum's read lock take up to   *)
(* the share of unfuzzed covered ids and extract their MCEs.               *)
(***************************************************************************)
ChooseUnfuzzed(w, e) ==
    /\ pc[w] = "idle"
    /\ entry' = [entry EXCEPT ![w] = e]
    /\ \/ /\ WeightsSum = 0
          /\ pc' = [pc EXCEPT ![w] = "panicked"]
          /\ UNCHANGED <<cand, drawn>>
       \/ /\ WeightsSum > 0
          /\ \E S \in Draw(CalcShare(weights["unfuzzed"]), unfuzzed \cap Covered[e]) :
                /\ drawn' = [drawn EXCEPT ![w] =
                                [NoDraws EXCEPT !["unfuzzed"] = (Covered[e] \ Active[e]) \cap S]]
                /\ cand' = [cand EXCEPT ![w] = (Covered[e] \ Active[e]) \ S]
          /\ pc' = [pc EXCEPT ![w] = "yielding"]
    /\ UNCHANGED <<unfuzzed, yielded, budget, weights>>

(***************************************************************************)
(* The rest of add_phase_choose_candidates and do_add_phase: under a new   *)
(* read lock choose the yielding covered ids and extract their MCEs, draw  *)
(* random MCEs from the remaining candidates, install the selection and    *)
(* keep its nop MCEs as targets.  With no target the phase returns; else   *)
(* add_phase_prepare_mutations gives each target a RandomByte1 budget.     *)
(***************************************************************************)
ChooseRest(w) ==
    /\ pc[w] = "yielding"
    /\ \E Y \in Draw(CalcShare(weights["yielding"]), yielded \cap Covered[entry[w]]) :
       LET left == cand[w] \ Y IN
       \E R \in Draw(CalcShare(weights["random"]), left) :
          LET d == [drawn[w] EXCEPT !["yielding"] = cand[w] \cap Y, !["random"] = R]
              targets == d["unfuzzed"] \cup d["yielding"] \cup d["random"]
          IN /\ drawn' = [drawn EXCEPT ![w] = d]
             /\ cand' = [cand EXCEPT ![w] = left \ R]
             /\ budget' = [budget EXCEPT ![w] = [p \in targets |-> Iterations(Width[p])]]
             /\ pc' = [pc EXCEPT ![w] = IF targets = {} THEN "idle" ELSE "fuzz"]
    /\ UNCHANGED <<unfuzzed, yielded, entry, weights>>

(***************************************************************************)
(* fuzz_candidates runs one target's mutators (outside src/, spec 4.6.5);  *)
(* its callback marks the patch point fuzzed in the Cerebrum, and new sink *)
(* coverage admits a queue entry that records the id as yielding.          *)
(***************************************************************************)
FuzzTarget(w, p) ==
    /\ pc[w] = "fuzz"
    /\ p \in DOMAIN budget[w]
    /\ unfuzzed' = unfuzzed \ {p}
    /\ yielded' \in {yielded, yielded \cup {p}}
    /\ budget' = [budget EXCEPT ![w] = [q \in DOMAIN budget[w] \ {p} |-> budget[w][q]]]
    /\ pc' = [pc EXCEPT ![w] = IF DOMAIN budget[w] = {p} THEN "idle" ELSE "fuzz"]
    /\ UNCHANGED <<entry, cand, drawn, weights>>

Next ==
    \E w \in Workers :
        \/ \E e \in Entries : ChooseUnfuzzed(w, e)
        \/ ChooseRest(w)
        \/ \E p \in PatchPoints : FuzzTarget(w, p)

Spec == Init /\ [][Next]_vars

-----------------------------------------------------------------------------

TypeOK ==
    /\ unfuzzed \subseteq PatchPoints
    /\ yielded \subseteq PatchPoints
    /\ pc \in [Workers -> {"idle", "yielding", "fuzz", "panicked"}]
    /\ entry \in [Workers -> Entries]
    /\ cand \in [Workers -> SUBSET PatchPoints]
    /\ drawn \in [Workers -> [Classes -> SUBSET PatchPoints]]
    /\ weights \in WeightChoices

(***************************************************************************)
(* Spec 4.6.3 and 8: the three classes of add_phase_choose_candidates      *)
(* never draw the same MCE twice, and never draw one of the entry's active *)
(* MCEs, which are in `selection` already.                                 *)
(***************************************************************************)
DrawsDisjoint ==
    \A w \in Workers :
        /\ \A c1, c2 \in Classes : c1 # c2 => drawn[w][c1] \cap drawn[w][c2] = {}
        /\ \A c \in Classes : drawn[w][c] \cap Active[entry[w]] = {}

(***************************************************************************)
(* Spec 8: the MCEs the three classes add to a selection number at most    *)
(* batch_size, so the Add phase never fuzzes more new patch points at once *)
(* than configured.                                                        *)
(***************************************************************************)
DrawsWithinBatch ==
    \A w \in Workers :
        Cardinality(drawn[w]["unfuzzed"]) + Cardinality(drawn[w]["yielding"])
            + Cardinality(drawn[w]["random"]) <= BatchSize

(* Spec 4.6.3: the RandomByte1 budget for a mask of length L.             *)
SpecIterations(L) ==
    CASE L <= 32 -> 32 * L
      [] 32 < L /\ L <= 128 -> 16 * L
      [] L > 128 -> 16 * 128

(***************************************************************************)
(* Spec 4.6.3: while a worker fuzzes, its prepared targets are exactly the *)
(* MCEs its three classes drew that are still to run, each with the        *)
(* spec's RandomByte1 budget for its resized mask (boundaries 32 and 128). *)
(***************************************************************************)
BudgetFromSpec ==
    \A w \in Workers : pc[w] = "fuzz" =>
        /\ DOMAIN budget[w] \subseteq UNION {drawn[w][c] : c \in Classes}
        /\ \A p \in DOMAIN budget[w] : budget[w][p] = SpecIterations(Width[p])

(* The MCEs the entry's temporary cache holds as nop candidates.         *)
Drawable(w) == Covered[entry[w]] \ Active[entry[w]]

(***************************************************************************)
(* The inductive strengthening of DrawsDisjoint: a worker's draws and its  *)
(* remaining `candidates` all come from its entry's nop MCEs, and what has *)
(* been drawn is no longer a candidate.  A worker whose weights sum to 0   *)
(* never drew anything and has no candidates, so the panicking branch of  *)
(* ChooseUnfuzzed, which changes `entry` and keeps both, keeps them within *)
(* the new entry.                                                          *)
(***************************************************************************)
WorkerInv(w) ==
    /\ cand[w] \subseteq Drawable(w)
    /\ \A c \in Classes : drawn[w][c] \subseteq Drawable(w)
    /\ \A c \in Classes : cand[w] \cap drawn[w][c] = {}
    /\ \A c1, c2 \in Classes : c1 # c2 => drawn[w][c1] \cap drawn[w][c2] = {}
    /\ WeightsSum = 0 => drawn[w] = NoDraws /\ cand[w] = {}

IInv == TypeOK /\ \A w \in Workers : WorkerInv(w)

(***************************************************************************)
(* The inductive form of BudgetFromSpec: each worker's prepared mutations  *)
(* map patch points to iteration budgets, and while it fuzzes they are     *)
(* drawn MCEs with add_phase_prepare_mutations' budget.                    *)
(***************************************************************************)
BudgetInv ==
    /\ budget = [w \in Workers |-> budget[w]]
    /\ \A w \in Workers : /\ DOMAIN budget[w] \subseteq PatchPoints
                         /\ budget[w] \in [DOMAIN budget[w] -> Nat]
    /\ \A w \in Workers : pc[w] = "fuzz" =>
          /\ DOMAIN budget[w] \subseteq UNION {drawn[w][c] : c \in Classes}
          /\ \A p \in DOMAIN budget[w] : budget[w][p] = Iterations(Width[p])

(***************************************************************************)
(* The inductive form of DrawsWithinBatch: with a non-zero weight sum,     *)
(* each class has drawn at most its calc_share (the panicking zero-sum     *)
(* case draws nothing, by WorkerInv).                                      *)
(***************************************************************************)
ShareInv ==
    \A w \in Workers, c \in Classes :
        WeightsSum > 0 => Cardinality(drawn[w][c]) <= CalcShare(weights[c])

(* The phases that hold drawn MCEs not yet fuzzed.                        *)
InPhase(w) == pc[w] \in {"yielding", "fuzz"}

(***************************************************************************)
(* Spec 4.4: selecting an unfuzzed patch point moves it out of the         *)
(* Cerebrum's unfuzzed set, so two workers in the Add phase at the same    *)
(* time never both draw it as unfuzzed (add.rs takes a snapshot under the  *)
(* read lock and leaves the update to the fuzzing callback).               *)
(***************************************************************************)
UnfuzzedDrawnOnce ==
    \A w1, w2 \in Workers :
        (w1 # w2 /\ InPhase(w1) /\ InPhase(w2))
            => drawn[w1]["unfuzzed"] \cap drawn[w2]["unfuzzed"] = {}
=============================================================================
