------------------------------ MODULE VirginMap ------------------------------
(***************************************************************************)
(* The coverage bookkeeping shared by all fuzzing workers: the global      *)
(* virgin map behind a mutex, one local virgin map per worker, and the     *)
(* two-level check FuzzingWorker::check_virgin_maps                        *)
(* (scheduler/src/fuzzer/worker_impl/common.rs).  A byte of a bitmap is    *)
(* the set of its bit positions that are set; a virgin byte that is equal  *)
(* to Bits is 0xFF, i.e. "edge never seen".                                *)
(*                                                                         *)
(* A worker executes the sink, obtains a coverage map and checks it        *)
(* against its local virgin map without any lock.  Only if that reports    *)
(* new bits does it lock the global map, check again (clearing the bits    *)
(* there), copy the global map back into its local one and return the      *)
(* global verdict.  On NewHit or NewEdge the caller pushes a queue entry.  *)
(***************************************************************************)
EXTENDS Naturals, FiniteSets

CONSTANTS
    Workers,    \* the fuzzing worker threads
    Idx,        \* the byte positions of the bitmap
    Bits        \* the bit positions of one byte

ASSUME BitsAssumption == Bits # {}

(* The bitmap has a fixed size and the campaign a fixed number of workers. *)
ASSUME FinitenessAssumption ==
    IsFiniteSet(Workers) /\ IsFiniteSet(Idx) /\ IsFiniteSet(Bits)

VARIABLES
    globalVirgin,   \* FuzzingCampaign.shared_virgin_map
    localVirgin,    \* each worker's local virgin map
    cov,            \* the coverage map of the worker's current execution
    pc,             \* where the worker is in check_virgin_maps / its caller
    queueLen        \* the number of queue entries pushed so far

vars == <<globalVirgin, localVirgin, cov, pc, queueLen>>

Bitmap == [Idx -> SUBSET Bits]

FullMap == [i \in Idx |-> Bits]

Statuses == {"NoNew", "NewHit", "NewEdge"}

(***************************************************************************)
(* Bitmap::has_new_bit(&self, virgin): the status it reports, and the      *)
(* virgin map after it cleared every bit of the coverage map from it.      *)
(***************************************************************************)
NewBitStatus(c, virgin) ==
    IF \E i \in Idx : c[i] \cap virgin[i] # {} /\ virgin[i] = Bits
        THEN "NewEdge"
    ELSE IF \E i \in Idx : c[i] \cap virgin[i] # {}
        THEN "NewHit"
    ELSE "NoNew"

ClearBits(c, virgin) == [i \in Idx |-> virgin[i] \ c[i]]

Init ==
    /\ globalVirgin = FullMap
    /\ localVirgin = [w \in Workers |-> FullMap]
    /\ cov = [w \in Workers |-> [i \in Idx |-> {}]]
    /\ pc = [w \in Workers |-> "idle"]
    /\ queueLen = 0

(* Variant of CheckLocalNoNew that only escalates to the global map on    *)
(* NewEdge (matches!(.., NewEdge)): a NewHit is cleared locally only.     *)
CheckLocalNoNewEdgeOnly(w, c) ==
    /\ pc[w] = "idle"
    /\ NewBitStatus(c, localVirgin[w]) # "NewEdge"
    /\ cov' = [cov EXCEPT ![w] = c]
    /\ localVirgin' = [localVirgin EXCEPT ![w] = ClearBits(c, localVirgin[w])]
    /\ UNCHANGED <<globalVirgin, pc, queueLen>>

(***************************************************************************)
(* The local check of check_virgin_maps for a fresh coverage map c:        *)
(* has_new_bit on the local map reports NoNew and the function returns.    *)
(***************************************************************************)
CheckLocalNoNew(w, c) ==
    /\ pc[w] = "idle"
    /\ NewBitStatus(c, localVirgin[w]) = "NoNew"
    /\ cov' = [cov EXCEPT ![w] = c]
    /\ UNCHANGED <<globalVirgin, localVirgin, pc, queueLen>>

(***************************************************************************)
(* The local check reports NewHit or NewEdge: the bits are cleared from    *)
(* the local map and the worker goes on to lock the global map.            *)
(***************************************************************************)
CheckLocalNew(w, c) ==
    /\ pc[w] = "idle"
    /\ NewBitStatus(c, localVirgin[w]) # "NoNew"
    /\ cov' = [cov EXCEPT ![w] = c]
    /\ localVirgin' = [localVirgin EXCEPT ![w] = ClearBits(c, localVirgin[w])]
    /\ pc' = [pc EXCEPT ![w] = "global"]
    /\ UNCHANGED <<globalVirgin, queueLen>>

(* Variant of CheckGlobal that returns the shadowed local verdict          *)
(* (always new here) instead of the global one.                           *)
CheckGlobalLocalVerdict(w) ==
    LET g == ClearBits(cov[w], globalVirgin)
    IN  /\ pc[w] = "global"
        /\ globalVirgin' = g
        /\ localVirgin' = [localVirgin EXCEPT ![w] = g]
        /\ pc' = [pc EXCEPT ![w] = "push"]
        /\ UNCHANGED <<cov, queueLen>>

(***************************************************************************)
(* Under the global lock: has_new_bit on the global map, then              *)
(* local_virgin.copy_from(global); the global verdict is returned.  On a   *)
(* new bit the caller goes on to push a queue entry.                       *)
(***************************************************************************)
CheckGlobal(w) ==
    LET g == ClearBits(cov[w], globalVirgin)
    IN  /\ pc[w] = "global"
        /\ globalVirgin' = g
        /\ localVirgin' = [localVirgin EXCEPT ![w] = g]
        /\ pc' = [pc EXCEPT ![w] =
                    IF NewBitStatus(cov[w], globalVirgin) = "NoNew"
                        THEN "idle" ELSE "push"]
        /\ UNCHANGED <<cov, queueLen>>

(***************************************************************************)
(* The caller (fuzz_candidates) pushes a queue entry for the input.        *)
(***************************************************************************)
PushEntry(w) ==
    /\ pc[w] = "push"
    /\ queueLen' = queueLen + 1
    /\ pc' = [pc EXCEPT ![w] = "idle"]
    /\ UNCHANGED <<globalVirgin, localVirgin, cov>>

Next ==
    \E w \in Workers :
        \/ \E c \in Bitmap : CheckLocalNoNew(w, c) \/ CheckLocalNew(w, c)
        \/ CheckGlobal(w)
        \/ PushEntry(w)

Spec == Init /\ [][Next]_vars

-----------------------------------------------------------------------------
TypeOK ==
    /\ globalVirgin \in Bitmap
    /\ localVirgin \in [Workers -> Bitmap]
    /\ cov \in [Workers -> Bitmap]
    /\ pc \in [Workers -> {"idle", "global", "push"}]
    /\ queueLen \in Nat

Merged(c, virgin) == \A i \in Idx : c[i] \cap virgin[i] = {}

(***************************************************************************)
(* No coverage is dismissed by a stale local map: once a worker's          *)
(* check_virgin_maps has returned, every bit its execution covered is      *)
(* cleared in the global virgin map, so a NoNew answer from the local map  *)
(* never hides coverage that is still new for the campaign.  This is what  *)
(* lets the code skip the global lock when the local map sees nothing.     *)
(***************************************************************************)
CoverageMerged ==
    \A w \in Workers : pc[w] # "global" => Merged(cov[w], globalVirgin)

(***************************************************************************)
(* A queue entry is only admitted for a global transition: the entries     *)
(* pushed or about to be pushed never outnumber the bits cleared from the  *)
(* global virgin map, so two workers that both saw the same edge as new    *)
(* locally do not both add a queue entry for it.                           *)
(***************************************************************************)
ClearedBits == {p \in Idx \X Bits : p[2] \notin globalVirgin[p[1]]}

PendingPushes == {w \in Workers : pc[w] = "push"}

EntriesNeedDiscoveries ==
    queueLen + Cardinality(PendingPushes) <= Cardinality(ClearedBits)

(***************************************************************************)
(* Why CoverageMerged holds: a worker's local virgin map never has a bit   *)
(* cleared that is still set in the global map, except for the bits of the *)
(* coverage it is about to merge under the lock.  Every local clear is     *)
(* followed by the same clear of the global map, and copy_from only ever   *)
(* copies a map that is at most as cleared as every local one.             *)
(***************************************************************************)
LocalCoversGlobal ==
    \A w \in Workers, i \in Idx :
        globalVirgin[i] \ (IF pc[w] = "global" THEN cov[w][i] ELSE {})
            \subseteq localVirgin[w][i]

IInv == TypeOK /\ LocalCoversGlobal /\ CoverageMerged

-----------------------------------------------------------------------------
(***************************************************************************)
(* The two-level check as VirginMapAbstract: a worker between its local    *)
(* and its global check holds coverage still to be merged.                 *)
(***************************************************************************)
Abs == INSTANCE VirginMapAbstract
           WITH pc <- [w \in Workers |-> IF pc[w] = "global" THEN "checking" ELSE pc[w]]

(***************************************************************************)
(* Skipping the lock is sound: check_virgin_maps, with its lock-free local *)
(* fast path, behaves as VirginMapAbstract, so a local NoNew answer is one *)
(* the shared map would have given, every other coverage map is merged     *)
(* into the shared map atomically, and a queue entry is pushed exactly for *)
(* coverage new to the campaign.                                           *)
(***************************************************************************)
ImplementsAbstract == Abs!Spec

=============================================================================
