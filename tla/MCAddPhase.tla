------------------------------ MODULE MCAddPhase ------------------------------
(* Two workers extend two queue entries over five patch points.            *)
EXTENDS AddPhase

CONSTANTS w1, w2, e1, e2

MCWorkers == {w1, w2}
MCEntries == {e1, e2}
MCPatchPoints == 1..5
\* e1 has patch point 1 active and covers all five; e2 has none active.
MCActive == [e \in MCEntries |-> IF e = e1 THEN {1} ELSE {}]
MCCovered == [e \in MCEntries |-> IF e = e1 THEN 1..5 ELSE 2..4]
\* Mask lengths on both sides of the budget's boundaries at 32 and 128.
MCWidth == [p \in MCPatchPoints |-> CASE p = 1 -> 4 [] p = 2 -> 32
                                      [] p = 3 -> 33 [] OTHER -> 129]
\* The default weights 1:1:1, with batch_size 3 so every share is 1.
MCBatchSize == 3
\* All weights zero, which parse_add_phase_section accepts, as well.
MCWeightChoices == {[c \in Classes |-> 1], [c \in Classes |-> 0]}
=============================================================================
