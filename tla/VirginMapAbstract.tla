-------------------------- MODULE VirginMapAbstract --------------------------
(***************************************************************************)
(* What check_virgin_maps promises the fuzzing workers, with the per-      *)
(* worker local maps hidden: an execution's coverage is either dismissed   *)
(* at once, which is allowed only when the one shared virgin map has none  *)
(* of its bits, or it is merged into the shared map in one atomic step,    *)
(* after which the worker pushes a queue entry exactly when some of its    *)
(* bits were still set there.                                              *)
(***************************************************************************)
EXTENDS Naturals

CONSTANTS
    Workers,    \* the fuzzing worker threads
    Idx,        \* the byte positions of the bitmap
    Bits        \* the bit positions of one byte

VARIABLES
    globalVirgin,   \* the shared virgin map
    cov,            \* the coverage map of each worker's last execution
    pc,             \* "idle", "checking" until merged, "push" until pushed
    queueLen        \* the number of queue entries pushed so far

vars == <<globalVirgin, cov, pc, queueLen>>

Bitmap == [Idx -> SUBSET Bits]

NothingNew(c, virgin) == \A i \in Idx : c[i] \cap virgin[i] = {}

Init ==
    /\ globalVirgin = [i \in Idx |-> Bits]
    /\ cov = [w \in Workers |-> [i \in Idx |-> {}]]
    /\ pc = [w \in Workers |-> "idle"]
    /\ queueLen = 0

(* w dismisses coverage c that holds nothing new for the campaign.         *)
CheckNoNew(w, c) ==
    /\ pc[w] = "idle"
    /\ NothingNew(c, globalVirgin)
    /\ cov' = [cov EXCEPT ![w] = c]
    /\ UNCHANGED <<globalVirgin, pc, queueLen>>

(* w takes coverage c on to be merged.                                     *)
Collect(w, c) ==
    /\ pc[w] = "idle"
    /\ cov' = [cov EXCEPT ![w] = c]
    /\ pc' = [pc EXCEPT ![w] = "checking"]
    /\ UNCHANGED <<globalVirgin, queueLen>>

(* w clears its coverage from the shared map; new bits call for an entry.  *)
Merge(w) ==
    /\ pc[w] = "checking"
    /\ globalVirgin' = [i \in Idx |-> globalVirgin[i] \ cov[w][i]]
    /\ pc' = [pc EXCEPT ![w] =
                IF NothingNew(cov[w], globalVirgin) THEN "idle" ELSE "push"]
    /\ UNCHANGED <<cov, queueLen>>

(* w pushes the queue entry for its new coverage.                          *)
Push(w) ==
    /\ pc[w] = "push"
    /\ queueLen' = queueLen + 1
    /\ pc' = [pc EXCEPT ![w] = "idle"]
    /\ UNCHANGED <<globalVirgin, cov>>

Next ==
    \E w \in Workers :
        \/ \E c \in Bitmap : CheckNoNew(w, c) \/ Collect(w, c)
        \/ Merge(w)
        \/ Push(w)

Spec == Init /\ [][Next]_vars
=============================================================================
