--------------------------- MODULE AddPhaseProofs ---------------------------
(***************************************************************************)
(* Proofs about AddPhase for every set of workers, entries and patch       *)
(* points, every batch size and every choice of weights: type correctness, *)
(* and that the classes of add_phase_choose_candidates never draw an MCE   *)
(* twice nor one of the entry's active MCEs (DrawsDisjoint).               *)
(***************************************************************************)
EXTENDS AddPhase, FiniteSetTheorems, TLAPS

(***************************************************************************)
(* A draw of at most n elements out of S takes elements of S.              *)
(***************************************************************************)
LEMMA DrawSubset ==
    ASSUME NEW n, NEW S, NEW T \in Draw(n, S)
    PROVE  T \subseteq S
BY DEF Draw

(***************************************************************************)
(* Every step keeps the variables in their types.                          *)
(***************************************************************************)
LEMMA TypeStep == TypeOK /\ [Next]_vars => TypeOK'
<1> SUFFICES ASSUME TypeOK, [Next]_vars PROVE TypeOK'
  OBVIOUS
<1> USE ConstantsAssumption DEF TypeOK
<1>1. ASSUME NEW w \in Workers, NEW e \in Entries, ChooseUnfuzzed(w, e)
      PROVE  TypeOK'
  <2>1. CASE WeightsSum = 0 /\ pc' = [pc EXCEPT ![w] = "panicked"] /\ UNCHANGED <<cand, drawn>>
    BY <1>1, <2>1 DEF ChooseUnfuzzed
  <2>2. CASE /\ WeightsSum > 0
             /\ \E S \in Draw(CalcShare(weights["unfuzzed"]), unfuzzed \cap Covered[e]) :
                /\ drawn' = [drawn EXCEPT ![w] =
                                [NoDraws EXCEPT !["unfuzzed"] = (Covered[e] \ Active[e]) \cap S]]
                /\ cand' = [cand EXCEPT ![w] = (Covered[e] \ Active[e]) \ S]
             /\ pc' = [pc EXCEPT ![w] = "yielding"]
    <3>1. PICK S \in Draw(CalcShare(weights["unfuzzed"]), unfuzzed \cap Covered[e]) :
                /\ drawn' = [drawn EXCEPT ![w] =
                                [NoDraws EXCEPT !["unfuzzed"] = (Covered[e] \ Active[e]) \cap S]]
                /\ cand' = [cand EXCEPT ![w] = (Covered[e] \ Active[e]) \ S]
      BY <2>2
    <3>2. QED
      BY <1>1, <2>2, <3>1 DEF ChooseUnfuzzed, NoDraws
  <2>3. QED
    BY <1>1, <2>1, <2>2 DEF ChooseUnfuzzed
<1>2. ASSUME NEW w \in Workers, ChooseRest(w)
      PROVE  TypeOK'
  <2>1. PICK Y \in Draw(CalcShare(weights["yielding"]), yielded \cap Covered[entry[w]]) :
          \E R \in Draw(CalcShare(weights["random"]), cand[w] \ Y) :
             /\ drawn' = [drawn EXCEPT ![w] = [drawn[w] EXCEPT !["yielding"] = cand[w] \cap Y,
                                                               !["random"] = R]]
             /\ cand' = [cand EXCEPT ![w] = (cand[w] \ Y) \ R]
    BY <1>2 DEF ChooseRest
  <2>2. PICK R \in Draw(CalcShare(weights["random"]), cand[w] \ Y) :
             /\ drawn' = [drawn EXCEPT ![w] = [drawn[w] EXCEPT !["yielding"] = cand[w] \cap Y,
                                                               !["random"] = R]]
             /\ cand' = [cand EXCEPT ![w] = (cand[w] \ Y) \ R]
    BY <2>1
  <2>3. R \subseteq PatchPoints
    BY <2>2, DrawSubset
  <2>4. pc' \in [Workers -> {"idle", "yielding", "fuzz", "panicked"}]
    BY <1>2 DEF ChooseRest
  <2>5. QED
    BY <1>2, <2>2, <2>3, <2>4 DEF ChooseRest
<1>3. ASSUME NEW w \in Workers, NEW p \in PatchPoints, FuzzTarget(w, p)
      PROVE  TypeOK'
  BY <1>3 DEF FuzzTarget
<1>4. CASE UNCHANGED vars
  BY <1>4 DEF vars
<1>5. QED
  BY <1>1, <1>2, <1>3, <1>4 DEF Next

(***************************************************************************)
(* TypeOK is an invariant of the specification.                            *)
(***************************************************************************)
THEOREM TypeCorrect == Spec => []TypeOK
<1>1. Init => TypeOK
  BY ConstantsAssumption DEF Init, TypeOK, NoDraws
<1>2. QED
  BY <1>1, TypeStep, PTL DEF Spec
(***************************************************************************)
(* Every step keeps IInv: add_phase_choose_candidates takes each class's   *)
(* MCEs out of `candidates` (extract_if, retain) before the next class     *)
(* draws, and all of them come from the entry's nop MCEs.                  *)
(***************************************************************************)
LEMMA IInvInductive == IInv /\ [Next]_vars => IInv'
<1> SUFFICES ASSUME IInv, [Next]_vars PROVE IInv'
  OBVIOUS
<1> USE ConstantsAssumption
<1>0. TypeOK'
  BY TypeStep DEF IInv
<1>1. ASSUME NEW w \in Workers, NEW e \in Entries, ChooseUnfuzzed(w, e)
      PROVE  IInv'
  <2>1. CASE WeightsSum = 0 /\ pc' = [pc EXCEPT ![w] = "panicked"] /\ UNCHANGED <<cand, drawn>>
    BY <1>0, <1>1, <2>1 DEF ChooseUnfuzzed, IInv, WorkerInv, TypeOK, Drawable, WeightsSum, NoDraws
  <2>2. CASE /\ WeightsSum > 0
             /\ \E S \in Draw(CalcShare(weights["unfuzzed"]), unfuzzed \cap Covered[e]) :
                /\ drawn' = [drawn EXCEPT ![w] =
                                [NoDraws EXCEPT !["unfuzzed"] = (Covered[e] \ Active[e]) \cap S]]
                /\ cand' = [cand EXCEPT ![w] = (Covered[e] \ Active[e]) \ S]
             /\ pc' = [pc EXCEPT ![w] = "yielding"]
    <3>1. PICK S \in Draw(CalcShare(weights["unfuzzed"]), unfuzzed \cap Covered[e]) :
                /\ drawn' = [drawn EXCEPT ![w] =
                                [NoDraws EXCEPT !["unfuzzed"] = (Covered[e] \ Active[e]) \cap S]]
                /\ cand' = [cand EXCEPT ![w] = (Covered[e] \ Active[e]) \ S]
      BY <2>2
    <3>2. QED
      BY <1>0, <1>1, <2>2, <3>1 DEF ChooseUnfuzzed, IInv, WorkerInv, TypeOK, Drawable, WeightsSum,
                                    NoDraws, Classes
  <2>3. QED
    BY <1>1, <2>1, <2>2 DEF ChooseUnfuzzed
<1>2. ASSUME NEW w \in Workers, ChooseRest(w)
      PROVE  IInv'
  <2>1. PICK Y \in Draw(CalcShare(weights["yielding"]), yielded \cap Covered[entry[w]]) :
          \E R \in Draw(CalcShare(weights["random"]), cand[w] \ Y) :
             /\ drawn' = [drawn EXCEPT ![w] = [drawn[w] EXCEPT !["yielding"] = cand[w] \cap Y,
                                                               !["random"] = R]]
             /\ cand' = [cand EXCEPT ![w] = (cand[w] \ Y) \ R]
    BY <1>2 DEF ChooseRest
  <2>2. PICK R \in Draw(CalcShare(weights["random"]), cand[w] \ Y) :
             /\ drawn' = [drawn EXCEPT ![w] = [drawn[w] EXCEPT !["yielding"] = cand[w] \cap Y,
                                                               !["random"] = R]]
             /\ cand' = [cand EXCEPT ![w] = (cand[w] \ Y) \ R]
    BY <2>1
  <2>3. R \subseteq cand[w] \ Y
    BY <2>2, DrawSubset
  <2>4. UNCHANGED <<entry, weights>>
    BY <1>2 DEF ChooseRest
  <2>5. /\ cand'[w] = (cand[w] \ Y) \ R
        /\ drawn'[w] = [drawn[w] EXCEPT !["yielding"] = cand[w] \cap Y, !["random"] = R]
        /\ \A v \in Workers \ {w} : cand'[v] = cand[v] /\ drawn'[v] = drawn[v]
        /\ \A v \in Workers : Drawable(v)' = Drawable(v)
        /\ WeightsSum' = WeightsSum
    BY <2>2, <2>4 DEF IInv, TypeOK, Drawable, WeightsSum
  <2>6. cand'[w] \subseteq Drawable(w)'
    BY <2>5 DEF IInv, WorkerInv
  <2>7. \A c \in Classes : drawn'[w][c] \subseteq Drawable(w)'
    BY <2>3, <2>5 DEF IInv, WorkerInv, TypeOK, Classes
  <2>8. \A c \in Classes : cand'[w] \cap drawn'[w][c] = {}
    BY <2>3, <2>5 DEF IInv, WorkerInv, TypeOK, Classes
  <2>9. \A c1, c2 \in Classes : c1 # c2 => drawn'[w][c1] \cap drawn'[w][c2] = {}
    BY <2>3, <2>5 DEF IInv, WorkerInv, TypeOK, Classes
  <2>10. WeightsSum' = 0 => drawn'[w] = NoDraws /\ cand'[w] = {}
    <3> SUFFICES ASSUME WeightsSum' = 0 PROVE drawn'[w] = NoDraws /\ cand'[w] = {}
      OBVIOUS
    <3>1. drawn[w] = NoDraws /\ cand[w] = {}
      BY <2>5 DEF IInv, WorkerInv
    <3>2. R = {}
      BY <2>3, <3>1
    <3>3. QED
      BY <2>5, <3>1, <3>2 DEF NoDraws, Classes
  <2>11. WorkerInv(w)'
    BY <2>6, <2>7, <2>8, <2>9, <2>10 DEF WorkerInv
  <2>12. \A v \in Workers \ {w} : WorkerInv(v)'
    BY <2>5 DEF IInv, WorkerInv
  <2>13. QED
    BY <1>0, <2>11, <2>12 DEF IInv
<1>3. ASSUME NEW w \in Workers, NEW p \in PatchPoints, FuzzTarget(w, p)
      PROVE  IInv'
  BY <1>0, <1>3 DEF FuzzTarget, IInv, WorkerInv, Drawable, WeightsSum
<1>4. CASE UNCHANGED vars
  BY <1>0, <1>4 DEF vars, IInv, WorkerInv, Drawable, WeightsSum
<1>5. QED
  BY <1>1, <1>2, <1>3, <1>4 DEF Next

(***************************************************************************)
(* Spec 4.6.3 and 8, for every configuration: the three classes of         *)
(* add_phase_choose_candidates never draw the same MCE twice, and never    *)
(* draw one of the entry's active MCEs.                                    *)
(***************************************************************************)
THEOREM DrawsAreDisjoint == Spec => []DrawsDisjoint
<1>1. Init => IInv
  BY ConstantsAssumption DEF Init, IInv, WorkerInv, TypeOK, Drawable, NoDraws
<1>2. IInv => DrawsDisjoint
  BY DEF IInv, WorkerInv, DrawsDisjoint, Drawable
<1>3. QED
  BY <1>1, <1>2, IInvInductive, PTL DEF Spec

(***************************************************************************)
(* calc_share rounds down, so the three shares of one batch never add up   *)
(* to more than the batch: each share times the weight sum is at most its  *)
(* weight times batch_size.                                                *)
(***************************************************************************)
LEMMA SharesWithinBatch ==
    ASSUME NEW a \in Nat, NEW b \in Nat, NEW c \in Nat, NEW n \in Nat,
           a + b + c > 0
    PROVE  (a * n) \div (a + b + c) + (b * n) \div (a + b + c)
               + (c * n) \div (a + b + c) <= n
<1> DEFINE s == a + b + c
           qa == (a * n) \div s
           qb == (b * n) \div s
           qc == (c * n) \div s
<1>1. s \in Nat \ {0}
  OBVIOUS
<1>2. /\ qa \in Nat /\ qa * s <= a * n
      /\ qb \in Nat /\ qb * s <= b * n
      /\ qc \in Nat /\ qc * s <= c * n
  BY <1>1
<1>3. (qa + qb + qc) * s <= s * n
  BY <1>2
<1>4. QED
  BY <1>1, <1>2, <1>3

(***************************************************************************)
(* A selection drawn by Draw(n, S) out of patch points is finite and has   *)
(* at most n elements.                                                     *)
(***************************************************************************)
LEMMA DrawCard ==
    ASSUME NEW n \in Nat, NEW S \in SUBSET PatchPoints, NEW T \in Draw(n, S)
    PROVE  IsFiniteSet(T) /\ Cardinality(T) <= n
<1>1. IsFiniteSet(S) /\ Cardinality(S) \in Nat
  BY PatchPointsFinite, FS_Subset, FS_CardinalityType
<1>2. IsFiniteSet(T)
  BY <1>1, FS_Subset DEF Draw
<1>3. QED
  BY <1>1, <1>2 DEF Draw

(***************************************************************************)
(* With a non-zero weight sum every calc_share is a number.                *)
(***************************************************************************)
LEMMA ShareType ==
    ASSUME TypeOK, WeightsSum > 0, NEW c \in Classes
    PROVE  CalcShare(weights[c]) \in Nat
<1>1. weights \in [Classes -> Nat] /\ BatchSize \in Nat
  BY ConstantsAssumption DEF TypeOK
<1>2. weights[c] * BatchSize \in Nat /\ WeightsSum \in Nat \ {0}
  BY <1>1 DEF WeightsSum, Classes
<1>3. QED
  BY <1>2 DEF CalcShare

(***************************************************************************)
(* Every drawn set of MCEs is finite, with a cardinality in Nat.           *)
(***************************************************************************)
LEMMA DrawnFinite ==
    ASSUME TypeOK, NEW w \in Workers, NEW c \in Classes, NEW T \in SUBSET drawn[w][c]
    PROVE  IsFiniteSet(T) /\ Cardinality(T) \in Nat
  <1>1. T \subseteq PatchPoints
    BY DEF TypeOK
  <1>2. QED
    BY <1>1, PatchPointsFinite, FS_Subset, FS_CardinalityType

(***************************************************************************)
(* Every step keeps each class within its calc_share: ChooseUnfuzzed      *)
(* draws at most the unfuzzed share and empties the other two classes;     *)
(* ChooseRest keeps the unfuzzed class and draws at most the yielding and  *)
(* random shares; FuzzTarget draws nothing; the weights never change.      *)
(***************************************************************************)
LEMMA ShareInvInductive == TypeOK /\ ShareInv /\ [Next]_vars => ShareInv'
<1> SUFFICES ASSUME TypeOK, ShareInv, [Next]_vars PROVE ShareInv'
  OBVIOUS
<1> USE ConstantsAssumption
<1>0. WeightsSum \in Nat
  BY DEF TypeOK, WeightsSum, Classes
<1>1. ASSUME NEW w \in Workers, NEW e \in Entries, ChooseUnfuzzed(w, e)
      PROVE  ShareInv'
  <2>1. /\ weights' = weights
        /\ \A v \in Workers \ {w} : drawn'[v] = drawn[v]
    BY <1>1 DEF ChooseUnfuzzed, TypeOK
  <2>2. CASE WeightsSum = 0
    BY <2>1, <2>2 DEF ShareInv, WeightsSum
  <2>3. CASE WeightsSum > 0
    <3>1. PICK S \in Draw(CalcShare(weights["unfuzzed"]), unfuzzed \cap Covered[e]) :
              drawn' = [drawn EXCEPT ![w] =
                          [NoDraws EXCEPT !["unfuzzed"] = (Covered[e] \ Active[e]) \cap S]]
      <4>1. WeightsSum # 0
        BY <2>3
      <4>2. QED
        BY <1>1, <4>1, Zenon DEF ChooseUnfuzzed
    <3>2. /\ drawn'[w]["unfuzzed"] \subseteq S
          /\ drawn'[w]["yielding"] = {}
          /\ drawn'[w]["random"] = {}
      BY <3>1 DEF TypeOK, NoDraws, Classes
    <3>0. \A c \in Classes : CalcShare(weights[c]) \in Nat
      BY <2>3, ShareType
    <3>3. IsFiniteSet(S) /\ Cardinality(S) <= CalcShare(weights["unfuzzed"])
      BY <2>3, ShareType, DrawCard DEF TypeOK, Classes
    <3>4. Cardinality(drawn'[w]["unfuzzed"]) <= CalcShare(weights["unfuzzed"])
      <4>1. /\ IsFiniteSet(drawn'[w]["unfuzzed"])
            /\ Cardinality(drawn'[w]["unfuzzed"]) <= Cardinality(S)
        BY <3>2, <3>3, FS_Subset
      <4>2. Cardinality(S) \in Nat /\ Cardinality(drawn'[w]["unfuzzed"]) \in Nat
        BY <3>3, <4>1, FS_CardinalityType
      <4>3. QED
        BY <3>0, <3>3, <4>1, <4>2 DEF Classes
    <3>7. Cardinality({}) = 0
      BY FS_EmptySet
    <3>5. \A c \in Classes : Cardinality(drawn'[w][c]) <= CalcShare(weights[c])
      <4> SUFFICES ASSUME NEW c \in Classes
                   PROVE  Cardinality(drawn'[w][c]) <= CalcShare(weights[c])
        OBVIOUS
      <4>1. CASE c = "unfuzzed"
        BY <3>4, <4>1
      <4>2. CASE c # "unfuzzed"
        <5>1. drawn'[w][c] = {}
          BY <3>2, <4>2 DEF Classes
        <5>2. QED
          BY <5>1, <3>7, <3>0
      <4>3. QED
        BY <4>1, <4>2
    <3>6. QED
      BY <2>1, <3>5 DEF ShareInv, WeightsSum, CalcShare
  <2>4. QED
    BY <1>0, <2>2, <2>3
<1>2. ASSUME NEW w \in Workers, ChooseRest(w)
      PROVE  ShareInv'
  <2>1. PICK Y \in Draw(CalcShare(weights["yielding"]), yielded \cap Covered[entry[w]]) :
          \E R \in Draw(CalcShare(weights["random"]), cand[w] \ Y) :
             drawn' = [drawn EXCEPT ![w] =
                         [drawn[w] EXCEPT !["yielding"] = cand[w] \cap Y, !["random"] = R]]
    BY <1>2 DEF ChooseRest
  <2>2. PICK R \in Draw(CalcShare(weights["random"]), cand[w] \ Y) :
             drawn' = [drawn EXCEPT ![w] =
                         [drawn[w] EXCEPT !["yielding"] = cand[w] \cap Y, !["random"] = R]]
    BY <2>1
  <2>3. /\ weights' = weights
        /\ \A v \in Workers \ {w} : drawn'[v] = drawn[v]
        /\ drawn'[w]["unfuzzed"] = drawn[w]["unfuzzed"]
        /\ drawn'[w]["yielding"] \subseteq Y
        /\ drawn'[w]["random"] = R
    BY <1>2, <2>2 DEF ChooseRest, TypeOK, Classes
  <2>4. CASE WeightsSum = 0
    BY <2>3, <2>4 DEF ShareInv, WeightsSum
  <2>5. CASE WeightsSum > 0
    <3>0. \A c \in Classes : CalcShare(weights[c]) \in Nat
      BY <2>5, ShareType
    <3>1. /\ IsFiniteSet(Y) /\ Cardinality(Y) <= CalcShare(weights["yielding"])
          /\ Cardinality(R) <= CalcShare(weights["random"])
      BY <2>5, ShareType, DrawCard DEF TypeOK, Classes
    <3>2. Cardinality(drawn'[w]["yielding"]) <= CalcShare(weights["yielding"])
      <4>1. /\ IsFiniteSet(drawn'[w]["yielding"])
            /\ Cardinality(drawn'[w]["yielding"]) <= Cardinality(Y)
        BY <2>3, <3>1, FS_Subset
      <4>2. Cardinality(Y) \in Nat /\ Cardinality(drawn'[w]["yielding"]) \in Nat
        BY <3>1, <4>1, FS_CardinalityType
      <4>3. QED
        BY <3>0, <3>1, <4>1, <4>2 DEF Classes
    <3>3. Cardinality(drawn'[w]["unfuzzed"]) <= CalcShare(weights["unfuzzed"])
      BY <2>3, <2>5 DEF ShareInv, Classes
    <3>4. \A c \in Classes : Cardinality(drawn'[w][c]) <= CalcShare(weights[c])
      BY <2>3, <3>1, <3>2, <3>3 DEF Classes
    <3>5. QED
      BY <2>3, <3>4 DEF ShareInv, WeightsSum, CalcShare
  <2>6. QED
    BY <1>0, <2>4, <2>5
<1>3. ASSUME NEW w \in Workers, NEW p \in PatchPoints, FuzzTarget(w, p)
      PROVE  ShareInv'
  BY <1>3 DEF FuzzTarget, ShareInv, WeightsSum, CalcShare
<1>4. CASE UNCHANGED vars
  BY <1>4 DEF vars, ShareInv, WeightsSum, CalcShare
<1>5. QED
  BY <1>1, <1>2, <1>3, <1>4 DEF Next

(***************************************************************************)
(* Spec 8 for every configuration: the three classes of                    *)
(* add_phase_choose_candidates together never draw more than batch_size    *)
(* MCEs, because calc_share rounds each share down.  A worker with all     *)
(* weights zero panics in weights_sum before drawing anything.             *)
(***************************************************************************)
THEOREM DrawsWithinBatchInvariant == Spec => []DrawsWithinBatch
<1> USE ConstantsAssumption
<1>1. Init => IInv /\ ShareInv
  <2> SUFFICES ASSUME Init PROVE IInv /\ ShareInv
    OBVIOUS
  <2>1. IInv
    BY DEF Init, IInv, WorkerInv, TypeOK, Drawable, NoDraws
  <2>2. \A w \in Workers, c \in Classes : drawn[w][c] = {}
    BY DEF Init, NoDraws
  <2>3. ShareInv
    <3> SUFFICES ASSUME NEW w \in Workers, NEW c \in Classes, WeightsSum > 0
                 PROVE  Cardinality(drawn[w][c]) <= CalcShare(weights[c])
      BY DEF ShareInv
    <3>1. CalcShare(weights[c]) \in Nat
      BY <2>1, ShareType DEF IInv
    <3>2. Cardinality({}) = 0
      BY FS_EmptySet
    <3>3. drawn[w][c] = {}
      BY <2>2
    <3>4. QED
      BY <3>1, <3>2, <3>3
  <2>4. QED
    BY <2>1, <2>3
<1>2. IInv /\ ShareInv /\ [Next]_vars => (IInv /\ ShareInv)'
  BY IInvInductive, ShareInvInductive DEF IInv
<1>3. IInv /\ ShareInv => DrawsWithinBatch
  <2> SUFFICES ASSUME IInv, ShareInv, NEW w \in Workers
               PROVE  Cardinality(drawn[w]["unfuzzed"]) + Cardinality(drawn[w]["yielding"])
                        + Cardinality(drawn[w]["random"]) <= BatchSize
    BY DEF DrawsWithinBatch
  <2>1. TypeOK /\ WeightsSum \in Nat
    BY DEF IInv, TypeOK, WeightsSum, Classes
  <2>2. \A c \in Classes : Cardinality(drawn[w][c]) \in Nat
    BY <2>1, DrawnFinite
  <2>3. CASE WeightsSum = 0
    <3>1. \A c \in Classes : drawn[w][c] = {}
      BY <2>3 DEF IInv, WorkerInv, NoDraws
    <3>2. QED
      BY <3>1, FS_EmptySet DEF Classes
  <2>4. CASE WeightsSum > 0
    <3>1. \A c \in Classes : Cardinality(drawn[w][c]) <= CalcShare(weights[c])
      BY <2>4 DEF ShareInv
    <3>2. CalcShare(weights["unfuzzed"]) + CalcShare(weights["yielding"])
            + CalcShare(weights["random"]) <= BatchSize
      <4>1. /\ weights["unfuzzed"] \in Nat
            /\ weights["yielding"] \in Nat
            /\ weights["random"] \in Nat
        BY <2>1 DEF TypeOK, Classes
      <4>2. QED
        BY <2>4, <4>1, SharesWithinBatch DEF CalcShare, WeightsSum
    <3>4. \A c \in Classes : CalcShare(weights[c]) \in Nat
      BY <2>1, <2>4, ShareType
    <3>3. QED
      BY <2>2, <3>1, <3>2, <3>4 DEF Classes
  <2>5. QED
    BY <2>1, <2>3, <2>4
<1>4. QED
  BY <1>1, <1>2, <1>3, PTL DEF Spec

(***************************************************************************)
(* The budget of add_phase_prepare_mutations is the spec's table for every *)
(* mask length, and a number.                                              *)
(***************************************************************************)
LEMMA IterationsMeetSpec ==
    ASSUME NEW x \in Nat
    PROVE  Iterations(x) = SpecIterations(x) /\ Iterations(x) \in Nat
BY DEF Iterations, SpecIterations

(***************************************************************************)
(* Every step keeps BudgetInv: ChooseRest prepares one budget per drawn    *)
(* target before it starts fuzzing, and FuzzTarget only removes targets.   *)
(***************************************************************************)
LEMMA BudgetInvInductive == TypeOK /\ BudgetInv /\ [Next]_vars => BudgetInv'
<1> SUFFICES ASSUME TypeOK, BudgetInv, [Next]_vars PROVE BudgetInv'
  OBVIOUS
<1> USE ConstantsAssumption
<1>0. TypeOK'
  BY TypeStep
<1>1. ASSUME NEW w \in Workers, NEW e \in Entries, ChooseUnfuzzed(w, e)
      PROVE  BudgetInv'
  <2>1. /\ budget' = budget
        /\ pc'[w] # "fuzz"
        /\ \A v \in Workers \ {w} : pc'[v] = pc[v] /\ drawn'[v] = drawn[v]
    BY <1>1 DEF ChooseUnfuzzed, TypeOK
  <2>2. QED
    BY <2>1 DEF BudgetInv
<1>2. ASSUME NEW w \in Workers, ChooseRest(w)
      PROVE  BudgetInv'
  <2>1. PICK Y \in Draw(CalcShare(weights["yielding"]), yielded \cap Covered[entry[w]]) :
          \E R \in Draw(CalcShare(weights["random"]), cand[w] \ Y) :
          LET d == [drawn[w] EXCEPT !["yielding"] = cand[w] \cap Y, !["random"] = R]
              targets == d["unfuzzed"] \cup d["yielding"] \cup d["random"]
          IN /\ drawn' = [drawn EXCEPT ![w] = d]
             /\ budget' = [budget EXCEPT ![w] = [p \in targets |-> Iterations(Width[p])]]
             /\ pc' = [pc EXCEPT ![w] = IF targets = {} THEN "idle" ELSE "fuzz"]
    BY <1>2 DEF ChooseRest
  <2>2. PICK R \in Draw(CalcShare(weights["random"]), cand[w] \ Y) :
          LET d == [drawn[w] EXCEPT !["yielding"] = cand[w] \cap Y, !["random"] = R]
              targets == d["unfuzzed"] \cup d["yielding"] \cup d["random"]
          IN /\ drawn' = [drawn EXCEPT ![w] = d]
             /\ budget' = [budget EXCEPT ![w] = [p \in targets |-> Iterations(Width[p])]]
             /\ pc' = [pc EXCEPT ![w] = IF targets = {} THEN "idle" ELSE "fuzz"]
    BY <2>1
  <2> DEFINE targets == drawn'[w]["unfuzzed"] \cup drawn'[w]["yielding"] \cup drawn'[w]["random"]
  <2>3. R \subseteq PatchPoints
    BY <2>2, DrawSubset DEF TypeOK
  <2>4. drawn'[w] = [drawn[w] EXCEPT !["yielding"] = cand[w] \cap Y, !["random"] = R]
    BY <2>2 DEF TypeOK
  <2>9. /\ drawn'[w]["unfuzzed"] = drawn[w]["unfuzzed"]
        /\ drawn'[w]["yielding"] = cand[w] \cap Y
        /\ drawn'[w]["random"] = R
    BY <2>4 DEF TypeOK, Classes
  <2>10. /\ targets \subseteq PatchPoints
         /\ targets = UNION {drawn'[w][c] : c \in Classes}
    BY <2>3, <2>9 DEF TypeOK, Classes
  <2>14. targets = drawn[w]["unfuzzed"] \cup (cand[w] \cap Y) \cup R
    BY <2>9
  <2>16. DOMAIN budget = Workers
    BY DEF BudgetInv
  <2>17. [drawn[w] EXCEPT !["yielding"] = cand[w] \cap Y, !["random"] = R]["unfuzzed"]
           = drawn[w]["unfuzzed"]
    BY DEF TypeOK, Classes
  <2>18. /\ [drawn[w] EXCEPT !["yielding"] = cand[w] \cap Y, !["random"] = R]["yielding"]
              = cand[w] \cap Y
         /\ [drawn[w] EXCEPT !["yielding"] = cand[w] \cap Y, !["random"] = R]["random"]
              = R
    BY DEF TypeOK, Classes
  <2>19. /\ budget' = [budget EXCEPT ![w] = [p \in drawn[w]["unfuzzed"] \cup (cand[w] \cap Y) \cup R
                                               |-> Iterations(Width[p])]]
         /\ pc' = [pc EXCEPT ![w] = IF drawn[w]["unfuzzed"] \cup (cand[w] \cap Y) \cup R = {}
                                    THEN "idle" ELSE "fuzz"]
    BY <2>2, <2>17, <2>18
  <2>15. /\ budget'[w] = [p \in drawn[w]["unfuzzed"] \cup (cand[w] \cap Y) \cup R
                            |-> Iterations(Width[p])]
         /\ pc'[w] = IF drawn[w]["unfuzzed"] \cup (cand[w] \cap Y) \cup R = {}
                     THEN "idle" ELSE "fuzz"
    BY <2>19, <2>16 DEF TypeOK
  <2>11. /\ budget'[w] = [p \in targets |-> Iterations(Width[p])]
         /\ pc'[w] = "fuzz" => targets # {}
    BY <2>14, <2>15
  <2>12. \A v \in Workers \ {w} : budget'[v] = budget[v] /\ pc'[v] = pc[v]
                                  /\ drawn'[v] = drawn[v]
    BY <2>2, <2>19, <2>16 DEF TypeOK
  <2>13. budget' = [v \in Workers |-> budget'[v]]
    BY <2>19, <2>16
  <2>5. \A p \in targets : Iterations(Width[p]) \in Nat
    BY <2>10, IterationsMeetSpec
  <2>6. /\ DOMAIN budget'[w] \subseteq PatchPoints
        /\ budget'[w] \in [DOMAIN budget'[w] -> Nat]
        /\ DOMAIN budget'[w] \subseteq UNION {drawn'[w][c] : c \in Classes}
        /\ \A p \in DOMAIN budget'[w] : budget'[w][p] = Iterations(Width[p])
    BY <2>10, <2>11, <2>5
  <2>7. QED
    BY <2>6, <2>12, <2>13 DEF BudgetInv
<1>3. ASSUME NEW w \in Workers, NEW p \in PatchPoints, FuzzTarget(w, p)
      PROVE  BudgetInv'
  <2>1. /\ budget'[w] = [q \in DOMAIN budget[w] \ {p} |-> budget[w][q]]
        /\ \A v \in Workers \ {w} : budget'[v] = budget[v] /\ pc'[v] = pc[v]
        /\ drawn' = drawn
        /\ budget' = [v \in Workers |-> budget'[v]]
    BY <1>3 DEF FuzzTarget, TypeOK, BudgetInv
  <2>2. /\ DOMAIN budget'[w] \subseteq PatchPoints
        /\ budget'[w] \in [DOMAIN budget'[w] -> Nat]
        /\ pc[w] = "fuzz"
    BY <1>3, <2>1 DEF BudgetInv, FuzzTarget
  <2>3. /\ DOMAIN budget'[w] \subseteq UNION {drawn'[w][c] : c \in Classes}
        /\ \A q \in DOMAIN budget'[w] : budget'[w][q] = Iterations(Width[q])
    BY <2>1, <2>2 DEF BudgetInv
  <2>4. QED
    BY <2>1, <2>2, <2>3 DEF BudgetInv
<1>4. CASE UNCHANGED vars
  BY <1>4 DEF vars, BudgetInv
<1>5. QED
  BY <1>1, <1>2, <1>3, <1>4 DEF Next

(***************************************************************************)
(* Spec 4.6.3, for every configuration: while a worker fuzzes, its         *)
(* prepared targets are MCEs its classes drew, each with the spec's        *)
(* RandomByte1 budget for its mask length.                                 *)
(***************************************************************************)
THEOREM BudgetMeetsSpec == Spec => []BudgetFromSpec
<1>1. Init => TypeOK /\ BudgetInv
  BY ConstantsAssumption DEF Init, TypeOK, BudgetInv, NoDraws
<1>2. TypeOK /\ BudgetInv /\ [Next]_vars => (TypeOK /\ BudgetInv)'
  BY TypeStep, BudgetInvInductive
<1>3. TypeOK /\ BudgetInv => BudgetFromSpec
  <2> SUFFICES ASSUME TypeOK, BudgetInv, NEW w \in Workers, pc[w] = "fuzz",
                      NEW p \in DOMAIN budget[w]
               PROVE  budget[w][p] = SpecIterations(Width[p])
    BY DEF BudgetFromSpec, BudgetInv
  <2>1. Width[p] \in Nat
    BY ConstantsAssumption DEF BudgetInv
  <2>2. QED
    BY <2>1, IterationsMeetSpec DEF BudgetInv
<1>4. QED
  BY <1>1, <1>2, <1>3, PTL DEF Spec

=============================================================================
