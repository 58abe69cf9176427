--------------------------- MODULE VirginMapProofs ---------------------------
(***************************************************************************)
(* Proofs about VirginMap for every set of workers, bytes and bits: type   *)
(* correctness, and that a check_virgin_maps that has returned has merged  *)
(* its coverage into the global virgin map (CoverageMerged), and that     *)
(* queue entries never outnumber the bits cleared from the global map      *)
(* (EntriesNeedDiscoveries), and that the two-level check implements the   *)
(* atomic one of VirginMapAbstract (ImplementsAbstract).                   *)
(***************************************************************************)
EXTENDS VirginMap, FiniteSetTheorems, TLAPS

(***************************************************************************)
(* has_new_bit reports NoNew exactly when no bit of the coverage map is    *)
(* still set in the virgin map.                                            *)
(***************************************************************************)
LEMMA NoNewMeansMerged ==
    ASSUME NEW c \in Bitmap, NEW v \in Bitmap
    PROVE  NewBitStatus(c, v) = "NoNew" <=> Merged(c, v)
BY DEF NewBitStatus, Merged

(***************************************************************************)
(* Clearing bits gives a bitmap that is pointwise a subset.                *)
(***************************************************************************)
LEMMA ClearBitsType ==
    ASSUME NEW c \in Bitmap, NEW v \in Bitmap
    PROVE  /\ ClearBits(c, v) \in Bitmap
           /\ \A i \in Idx : ClearBits(c, v)[i] \subseteq v[i]
           /\ Merged(c, ClearBits(c, v))
BY DEF ClearBits, Bitmap, Merged

(***************************************************************************)
(* Every step keeps the variables in their types.                          *)
(***************************************************************************)
LEMMA TypeStep == TypeOK /\ [Next]_vars => TypeOK'
<1> SUFFICES ASSUME TypeOK, [Next]_vars PROVE TypeOK'
  OBVIOUS
<1>1. ASSUME NEW w \in Workers, NEW c \in Bitmap, CheckLocalNoNew(w, c)
      PROVE  TypeOK'
  BY <1>1 DEF CheckLocalNoNew, TypeOK
<1>2. ASSUME NEW w \in Workers, NEW c \in Bitmap, CheckLocalNew(w, c)
      PROVE  TypeOK'
  BY <1>2, ClearBitsType DEF CheckLocalNew, TypeOK
<1>3. ASSUME NEW w \in Workers, CheckGlobal(w)
      PROVE  TypeOK'
  BY <1>3, ClearBitsType DEF CheckGlobal, TypeOK
<1>4. ASSUME NEW w \in Workers, PushEntry(w)
      PROVE  TypeOK'
  BY <1>4 DEF PushEntry, TypeOK
<1>5. CASE UNCHANGED vars
  BY <1>5 DEF vars, TypeOK
<1>6. QED
  BY <1>1, <1>2, <1>3, <1>4, <1>5 DEF Next

(***************************************************************************)
(* TypeOK is an invariant of the specification.                            *)
(***************************************************************************)
THEOREM TypeCorrect == Spec => []TypeOK
<1>1. Init => TypeOK
  BY DEF Init, TypeOK, FullMap, Bitmap
<1>2. QED
  BY <1>1, TypeStep, PTL DEF Spec

(***************************************************************************)
(* Every step keeps IInv: the local maps cover the global one (but for the *)
(* coverage being merged) and every returned check is merged.              *)
(***************************************************************************)
LEMMA IInvInductive == IInv /\ [Next]_vars => IInv'
<1> SUFFICES ASSUME IInv, [Next]_vars PROVE IInv'
  OBVIOUS
<1>0. TypeOK
  BY DEF IInv
<1>1. TypeOK'
  BY TypeStep DEF IInv
<1>2. ASSUME NEW w \in Workers, NEW c \in Bitmap, CheckLocalNoNew(w, c)
      PROVE  IInv'
  <2>1. Merged(c, localVirgin[w])
    BY <1>2, <1>0, NoNewMeansMerged DEF CheckLocalNoNew, TypeOK
  <2>2. Merged(c, globalVirgin)
    BY <2>1, <1>2 DEF IInv, LocalCoversGlobal, CheckLocalNoNew, Merged
  <2>3. LocalCoversGlobal'
    BY <1>2 DEF IInv, LocalCoversGlobal, CheckLocalNoNew
  <2>4. CoverageMerged'
    BY <2>2, <1>2, <1>0 DEF IInv, CoverageMerged, CheckLocalNoNew, TypeOK
  <2>5. QED
    BY <1>1, <2>3, <2>4 DEF IInv
<1>3. ASSUME NEW w \in Workers, NEW c \in Bitmap, CheckLocalNew(w, c)
      PROVE  IInv'
  <2>1. LocalCoversGlobal'
    BY <1>3, <1>0 DEF IInv, LocalCoversGlobal, CheckLocalNew, TypeOK, ClearBits
  <2>2. CoverageMerged'
    BY <1>3, <1>0 DEF IInv, CoverageMerged, CheckLocalNew, TypeOK
  <2>3. QED
    BY <1>1, <2>1, <2>2 DEF IInv
<1>4. ASSUME NEW w \in Workers, CheckGlobal(w)
      PROVE  IInv'
  <2> DEFINE g == ClearBits(cov[w], globalVirgin)
  <2>1. /\ g \in Bitmap
        /\ \A i \in Idx : g[i] \subseteq globalVirgin[i]
        /\ Merged(cov[w], g)
    BY <1>0, ClearBitsType DEF TypeOK
  <2>2. LocalCoversGlobal'
    BY <1>4, <2>1, <1>0 DEF IInv, LocalCoversGlobal, CheckGlobal, TypeOK
  <2>3. CoverageMerged'
    BY <1>4, <2>1, <1>0 DEF IInv, CoverageMerged, CheckGlobal, TypeOK, Merged
  <2>4. QED
    BY <1>1, <2>2, <2>3 DEF IInv
<1>5. ASSUME NEW w \in Workers, PushEntry(w)
      PROVE  IInv'
  <2>1. LocalCoversGlobal'
    BY <1>5, <1>0 DEF IInv, LocalCoversGlobal, PushEntry, TypeOK
  <2>2. CoverageMerged'
    BY <1>5, <1>0 DEF IInv, CoverageMerged, PushEntry, TypeOK
  <2>3. QED
    BY <1>1, <2>1, <2>2 DEF IInv
<1>6. CASE UNCHANGED vars
  BY <1>6 DEF vars, IInv, TypeOK, LocalCoversGlobal, CoverageMerged
<1>7. QED
  BY <1>2, <1>3, <1>4, <1>5, <1>6 DEF Next

(***************************************************************************)
(* CoverageMerged holds in every reachable state, for any number of        *)
(* workers and any bitmap size: a check_virgin_maps that answered NoNew    *)
(* from the local map never hid coverage still new to the campaign.        *)
(***************************************************************************)
THEOREM CoverageMergedInvariant == Spec => []CoverageMerged
<1>1. Init => IInv
  BY DEF Init, IInv, TypeOK, LocalCoversGlobal, CoverageMerged, FullMap,
         Bitmap, Merged
<1>2. IInv => CoverageMerged
  BY DEF IInv
<1>3. QED
  BY <1>1, <1>2, IInvInductive, PTL DEF Spec

-----------------------------------------------------------------------------
(***************************************************************************)
(* The cleared bits and the workers about to push are finite sets.         *)
(***************************************************************************)
LEMMA CountsFinite ==
    ASSUME TypeOK
    PROVE  /\ IsFiniteSet(ClearedBits) /\ Cardinality(ClearedBits) \in Nat
           /\ IsFiniteSet(PendingPushes) /\ Cardinality(PendingPushes) \in Nat
<1>1. IsFiniteSet(Idx \X Bits)
  BY FinitenessAssumption, FS_Product
<1>2. IsFiniteSet(ClearedBits)
  BY <1>1, FS_Subset DEF ClearedBits
<1>3. IsFiniteSet(PendingPushes)
  BY FinitenessAssumption, FS_Subset DEF PendingPushes
<1>4. QED
  BY <1>2, <1>3, FS_CardinalityType

(***************************************************************************)
(* Every step keeps EntriesNeedDiscoveries: a local check and a global     *)
(* check that finds nothing new change neither side; a global check that   *)
(* finds a new bit clears it from the global map as it adds the worker to  *)
(* the pending pushes; a push moves one pending push to the queue.         *)
(***************************************************************************)
LEMMA EntriesStep ==
    TypeOK /\ EntriesNeedDiscoveries /\ [Next]_vars => EntriesNeedDiscoveries'
<1> SUFFICES ASSUME TypeOK, EntriesNeedDiscoveries, [Next]_vars
             PROVE  EntriesNeedDiscoveries'
  OBVIOUS
<1>0. /\ TypeOK'
      /\ IsFiniteSet(ClearedBits) /\ Cardinality(ClearedBits) \in Nat
      /\ IsFiniteSet(PendingPushes) /\ Cardinality(PendingPushes) \in Nat
      /\ IsFiniteSet(ClearedBits') /\ Cardinality(ClearedBits') \in Nat
      /\ IsFiniteSet(PendingPushes') /\ Cardinality(PendingPushes') \in Nat
  <2>1. TypeOK'
    BY TypeStep
  <2>2. IsFiniteSet(Idx \X Bits)
    BY FinitenessAssumption, FS_Product
  <2>3. ClearedBits' \subseteq Idx \X Bits /\ PendingPushes' \subseteq Workers
    BY DEF ClearedBits, PendingPushes
  <2>4. IsFiniteSet(ClearedBits') /\ IsFiniteSet(PendingPushes')
    BY <2>2, <2>3, FinitenessAssumption, FS_Subset
  <2>5. QED
    BY <2>1, <2>4, CountsFinite, FS_CardinalityType
<1>1. ASSUME NEW w \in Workers, NEW c \in Bitmap,
             CheckLocalNoNew(w, c) \/ CheckLocalNew(w, c)
      PROVE  EntriesNeedDiscoveries'
  <2>1. ClearedBits' = ClearedBits
    BY <1>1 DEF CheckLocalNoNew, CheckLocalNew, ClearedBits
  <2>2. PendingPushes' = PendingPushes
    BY <1>1 DEF CheckLocalNoNew, CheckLocalNew, PendingPushes, TypeOK
  <2>3. QED
    BY <1>1, <2>1, <2>2 DEF CheckLocalNoNew, CheckLocalNew, EntriesNeedDiscoveries
<1>2. ASSUME NEW w \in Workers, CheckGlobal(w),
             NewBitStatus(cov[w], globalVirgin) = "NoNew"
      PROVE  EntriesNeedDiscoveries'
  <2>1. globalVirgin' = globalVirgin
    BY <1>2, NoNewMeansMerged DEF CheckGlobal, ClearBits, Merged, TypeOK, Bitmap
  <2>2. PendingPushes' = PendingPushes
    BY <1>2 DEF CheckGlobal, PendingPushes, TypeOK
  <2>3. QED
    BY <1>2, <2>1, <2>2 DEF CheckGlobal, EntriesNeedDiscoveries, ClearedBits
<1>3. ASSUME NEW w \in Workers, CheckGlobal(w),
             NewBitStatus(cov[w], globalVirgin) # "NoNew"
      PROVE  EntriesNeedDiscoveries'
  <2>1. PICK i \in Idx, b \in Bits : b \in cov[w][i] /\ b \in globalVirgin[i]
    BY <1>3, NoNewMeansMerged DEF Merged, TypeOK, Bitmap
  <2>2. /\ <<i, b>> \notin ClearedBits
        /\ ClearedBits \cup {<<i, b>>} \subseteq ClearedBits'
    BY <1>3, <2>1 DEF CheckGlobal, ClearBits, ClearedBits, TypeOK, Bitmap
  <2>3. Cardinality(ClearedBits') >= Cardinality(ClearedBits) + 1
    <3>1. /\ IsFiniteSet(ClearedBits \cup {<<i, b>>})
          /\ Cardinality(ClearedBits \cup {<<i, b>>}) = Cardinality(ClearedBits) + 1
      BY <1>0, <2>2, FS_AddElement
    <3>2. Cardinality(ClearedBits \cup {<<i, b>>}) <= Cardinality(ClearedBits')
      BY <1>0, <2>2, FS_Subset
    <3>3. QED
      BY <1>0, <3>1, <3>2
  <2>4. /\ w \notin PendingPushes
        /\ PendingPushes' = PendingPushes \cup {w}
    BY <1>3 DEF CheckGlobal, PendingPushes, TypeOK
  <2>5. Cardinality(PendingPushes') = Cardinality(PendingPushes) + 1
    BY <1>0, <2>4, FS_AddElement
  <2>6. QED
    BY <1>0, <1>3, <2>3, <2>5 DEF CheckGlobal, EntriesNeedDiscoveries, TypeOK
<1>4. ASSUME NEW w \in Workers, PushEntry(w)
      PROVE  EntriesNeedDiscoveries'
  <2>1. ClearedBits' = ClearedBits
    BY <1>4 DEF PushEntry, ClearedBits
  <2>2. /\ w \in PendingPushes
        /\ PendingPushes' = PendingPushes \ {w}
    BY <1>4 DEF PushEntry, PendingPushes, TypeOK
  <2>3. Cardinality(PendingPushes') = Cardinality(PendingPushes) - 1
    BY <1>0, <2>2, FS_RemoveElement
  <2>4. QED
    BY <1>0, <1>4, <2>1, <2>3 DEF PushEntry, EntriesNeedDiscoveries, TypeOK
<1>5. CASE UNCHANGED vars
  BY <1>5 DEF vars, EntriesNeedDiscoveries, ClearedBits, PendingPushes
<1>6. QED
  BY <1>1, <1>2, <1>3, <1>4, <1>5 DEF Next

(***************************************************************************)
(* EntriesNeedDiscoveries holds in every reachable state, for any finite   *)
(* number of workers and bitmap size: two workers that both found the same *)
(* edge new in their local maps push one queue entry for it, not two,      *)
(* because the global recheck under the lock lets only one of them see it. *)
(***************************************************************************)
THEOREM EntriesBoundedByDiscoveries == Spec => []EntriesNeedDiscoveries
<1>1. Init => TypeOK /\ EntriesNeedDiscoveries
  <2> SUFFICES ASSUME Init PROVE TypeOK /\ EntriesNeedDiscoveries
    OBVIOUS
  <2>1. TypeOK
    BY DEF Init, TypeOK, FullMap, Bitmap
  <2>2. /\ queueLen = 0
        /\ PendingPushes = {}
    BY DEF Init, PendingPushes
  <2>3. QED
    BY <2>1, <2>2, CountsFinite, FS_EmptySet DEF EntriesNeedDiscoveries
<1>2. TypeOK /\ EntriesNeedDiscoveries /\ [Next]_vars
          => (TypeOK /\ EntriesNeedDiscoveries)'
  BY TypeStep, EntriesStep
<1>3. QED
  BY <1>1, <1>2, PTL DEF Spec


(***************************************************************************)
(* Every step of check_virgin_maps and its caller is a step of             *)
(* VirginMapAbstract: the local NoNew answer dismisses coverage the shared *)
(* map has no bit of (by LocalCoversGlobal), a local new answer collects   *)
(* the coverage, the check under the lock merges it with the shared map's  *)
(* verdict, and a push is a push.                                          *)
(***************************************************************************)
LEMMA StepRefines == IInv /\ [Next]_vars => [Abs!Next]_Abs!vars
<1> SUFFICES ASSUME IInv, [Next]_vars PROVE [Abs!Next]_Abs!vars
  OBVIOUS
<1>0. TypeOK
  BY DEF IInv
<1> USE DEF Abs!vars
<1>1. ASSUME NEW w \in Workers, NEW c \in Bitmap, CheckLocalNoNew(w, c)
      PROVE  Abs!CheckNoNew(w, c)
  <2>1. Merged(c, localVirgin[w])
    BY <1>1, <1>0, NoNewMeansMerged DEF CheckLocalNoNew, TypeOK
  <2>2. Abs!NothingNew(c, globalVirgin)
    BY <2>1, <1>1 DEF IInv, LocalCoversGlobal, CheckLocalNoNew, Merged,
                      Abs!NothingNew
  <2>3. QED
    BY <1>1, <2>2 DEF CheckLocalNoNew, Abs!CheckNoNew
<1>2. ASSUME NEW w \in Workers, NEW c \in Bitmap, CheckLocalNew(w, c)
      PROVE  Abs!Collect(w, c)
  BY <1>2, <1>0 DEF CheckLocalNew, Abs!Collect, TypeOK
<1>3. ASSUME NEW w \in Workers, CheckGlobal(w)
      PROVE  Abs!Merge(w)
  <2>1. NewBitStatus(cov[w], globalVirgin) = "NoNew"
          <=> Abs!NothingNew(cov[w], globalVirgin)
    BY <1>0, NoNewMeansMerged DEF TypeOK, Merged, Abs!NothingNew
  <2>2. globalVirgin' = [i \in Idx |-> globalVirgin[i] \ cov[w][i]]
    BY <1>3 DEF CheckGlobal, ClearBits
  <2>3. QED
    BY <1>3, <1>0, <2>1, <2>2 DEF CheckGlobal, Abs!Merge, TypeOK
<1>4. ASSUME NEW w \in Workers, PushEntry(w)
      PROVE  Abs!Push(w)
  BY <1>4, <1>0 DEF PushEntry, Abs!Push, TypeOK
<1>5. CASE UNCHANGED vars
  BY <1>5 DEF vars
<1>6. CASE Next
  <2>1. PICK w \in Workers :
              \/ \E c \in Bitmap : CheckLocalNoNew(w, c) \/ CheckLocalNew(w, c)
              \/ CheckGlobal(w)
              \/ PushEntry(w)
    BY <1>6 DEF Next
  <2>2. CASE \E c \in Bitmap : CheckLocalNoNew(w, c) \/ CheckLocalNew(w, c)
    <3>1. PICK c \in Bitmap : CheckLocalNoNew(w, c) \/ CheckLocalNew(w, c)
      BY <2>2
    <3>2. Abs!CheckNoNew(w, c) \/ Abs!Collect(w, c)
      BY <3>1, <1>1, <1>2
    <3>3. QED
      BY <3>2 DEF Abs!Next, Abs!Bitmap, Bitmap
  <2>3. CASE CheckGlobal(w)
    BY <2>3, <1>3 DEF Abs!Next
  <2>4. CASE PushEntry(w)
    BY <2>4, <1>4 DEF Abs!Next
  <2>5. QED
    BY <2>1, <2>2, <2>3, <2>4
<1>7. QED
  BY <1>5, <1>6

(***************************************************************************)
(* check_virgin_maps implements VirginMapAbstract for any number of        *)
(* workers and any bitmap: skipping the global lock on a local NoNew never *)
(* dismisses coverage new to the campaign, and queue entries are pushed    *)
(* exactly on the shared map's verdict.                                    *)
(***************************************************************************)
THEOREM Refinement == Spec => ImplementsAbstract
<1>1. Init => Abs!Init
  BY DEF Init, Abs!Init, FullMap
<1>2. Init => IInv
  BY DEF Init, IInv, TypeOK, LocalCoversGlobal, CoverageMerged, FullMap,
         Bitmap, Merged
<1>3. QED
  BY <1>1, <1>2, IInvInductive, StepRefines, PTL
     DEF Spec, ImplementsAbstract, Abs!Spec

=====
