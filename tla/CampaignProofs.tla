---------------------------- MODULE CampaignProofs ----------------------------
(***************************************************************************)
(* Proofs about Campaign for every worker count and restart budget: no     *)
(* dead worker is replaced twice (ReplacedOnce), over any sequence of      *)
(* worker deaths and restart_crashed_worker calls.                         *)
(***************************************************************************)
EXTENDS Campaign, FiniteSetTheorems, SequenceTheorems, TLAPS

(* The uids of S smaller than u, and how many there are.                  *)
Below(S, u) == {v \in S : v < u}
Rank(S, u) == Cardinality(Below(S, u))

(***************************************************************************)
(* In a finite set of uids, a uid has fewer smaller uids than a larger one. *)
(***************************************************************************)
LEMMA RankBounds ==
    ASSUME NEW S \in SUBSET Nat, IsFiniteSet(S), NEW u \in S
    PROVE  /\ IsFiniteSet(Below(S, u))
           /\ Rank(S, u) \in 0..Cardinality(S) - 1
<1>1. Below(S, u) \subseteq S \ {u}
  <2> SUFFICES ASSUME NEW v \in Below(S, u) PROVE v \in S \ {u}
    OBVIOUS
  <2> QED
    BY DEF Below
<1>2. IsFiniteSet(S \ {u}) /\ Cardinality(S \ {u}) = Cardinality(S) - 1
  BY FS_RemoveElement
<1>3. IsFiniteSet(Below(S, u)) /\ Rank(S, u) <= Cardinality(S) - 1
  BY <1>1, <1>2, FS_Subset DEF Rank
<1>4. QED
  BY <1>3, FS_CardinalityType DEF Rank

LEMMA RankMonotone ==
    ASSUME NEW S \in SUBSET Nat, IsFiniteSet(S), NEW u \in S, NEW w \in S, u < w
    PROVE  Rank(S, u) < Rank(S, w)
<1>1. Below(S, u) \subseteq Below(S, w)
  <2> SUFFICES ASSUME NEW v \in Below(S, u) PROVE v \in Below(S, w)
    OBVIOUS
  <2>1. v \in S /\ v < u
    BY DEF Below
  <2> QED
    BY <2>1 DEF Below
<1>2. u \in Below(S, w) /\ u \notin Below(S, u)
  BY DEF Below
<1>3. IsFiniteSet(Below(S, w)) /\ Rank(S, u) \in Nat /\ Rank(S, w) \in Nat
  BY RankBounds
<1>4. Rank(S, u) <= Rank(S, w) /\ (Rank(S, w) = Rank(S, u) => Below(S, w) = Below(S, u))
  BY <1>1, <1>3, FS_Subset DEF Rank
<1>5. QED
  BY <1>2, <1>3, <1>4

(***************************************************************************)
(* The crashed-worker list of restart_crashed_worker lists the uids of a   *)
(* finite set, each once: a uid's position is one more than the number of  *)
(* smaller uids in the set, and these counts are distinct and fill 0..n-1. *)
(***************************************************************************)
LEMMA AscendingSeq ==
    ASSUME NEW S \in SUBSET Nat, IsFiniteSet(S)
    PROVE  /\ Ascending(S) \in Seq(S)
           /\ Len(Ascending(S)) = Cardinality(S)
           /\ \A i, j \in 1..Cardinality(S) : i # j => Ascending(S)[i] # Ascending(S)[j]
<1> DEFINE n == Cardinality(S)
<1>1. n \in Nat
  BY FS_CardinalityType
<1>2. ASSUME NEW u \in S, NEW w \in S, u # w PROVE Rank(S, u) # Rank(S, w)
  <2>1. CASE u < w
    BY <2>1, RankMonotone, RankBounds
  <2>2. CASE w < u
    BY <2>2, RankMonotone, RankBounds
  <2>3. QED
    BY <1>2, <2>1, <2>2
<1>3. [u \in S |-> Rank(S, u)] \in Injection(S, 0..n-1)
  BY <1>2, RankBounds DEF Injection, IsInjective
<1>4. IsFiniteSet(0..n-1) /\ Cardinality(0..n-1) = n
  <2>1. 0 \in Int /\ n - 1 \in Int
    BY <1>1
  <2>2. IsFiniteSet(0..n-1) /\ Cardinality(0..n-1) = IF 0 > n - 1 THEN 0 ELSE n - 1 - 0 + 1
    BY <2>1, FS_Interval
  <2>3. QED
    BY <1>1, <2>2
<1>5. [u \in S |-> Rank(S, u)] \in Surjection(S, 0..n-1)
  BY <1>3, <1>4, FS_Injection
<1>6. ASSUME NEW i \in 1..n PROVE \E u \in S : Rank(S, u) = i - 1
  <2>1. i - 1 \in 0..n-1
    BY <1>1
  <2>2. QED
    BY <2>1, <1>5 DEF Surjection
<1>7. ASSUME NEW i \in 1..n
      PROVE  Ascending(S)[i] \in S /\ Rank(S, Ascending(S)[i]) = i - 1
  <2>1. Ascending(S)[i] = CHOOSE u \in S : Rank(S, u) = i - 1
    BY DEF Ascending, Rank, Below
  <2>2. QED
    BY <2>1, <1>6
<1>8. Ascending(S) \in [1..n -> S]
  <2>1. DOMAIN Ascending(S) = 1..n
    BY DEF Ascending
  <2>2. QED
    BY <2>1, <1>7 DEF Ascending
<1>9. QED
  BY <1>1, <1>7, <1>8

-----------------------------------------------------------------------------
(* The set restart_crashed_worker's first loop collects, and how many of   *)
(* its uids the restart budget lets the second loop respawn.               *)
CrashedSet == {u \in 1..Len(alive) : ~alive[u] /\ u \notin Range(restarted)}
Grant == Min(Len(CrashedWorkers),
             IF Len(restarted) > MaxRestartCnt THEN 0
             ELSE MaxRestartCnt + 1 - Len(restarted))

(***************************************************************************)
(* What one call of restart_crashed_worker does, stated over CrashedSet    *)
(* and Grant.                                                              *)
(***************************************************************************)
LEMMA RestartEffect ==
    ASSUME RestartCrashedWorker
    PROVE  /\ CrashedWorkers = Ascending(CrashedSet)
           /\ restarted' = IF Grant < Len(CrashedWorkers)
                           THEN restarted \o SubSeq(CrashedWorkers, 1, Grant) \o CrashedWorkers
                           ELSE restarted \o CrashedWorkers
           /\ alive' = alive \o [i \in 1..Grant |-> TRUE]
           /\ spawnedFor' = spawnedFor \o SubSeq(CrashedWorkers, 1, Grant)
           /\ started' = started
BY DEF RestartCrashedWorker, Grant, CrashedWorkers, CrashedSet

(***************************************************************************)
(* The uids restart_crashed_worker collects are dead uids of the workers   *)
(* vector not yet in restarted_worker, listed each once, and the grant is  *)
(* at most their number.                                                   *)
(***************************************************************************)
LEMMA CrashedWorkersFacts ==
    ASSUME TypeOK
    PROVE  /\ CrashedWorkers \in Seq(1..Len(alive))
           /\ \A k \in 1..Len(CrashedWorkers) : CrashedWorkers[k] \notin Range(restarted)
           /\ \A i, k \in 1..Len(CrashedWorkers) :
                 i # k => CrashedWorkers[i] # CrashedWorkers[k]
           /\ Grant \in 0..Len(CrashedWorkers)
<1> DEFINE N == Len(alive)
<1>1. N \in Nat
  BY DEF TypeOK
<1>2. CrashedSet \subseteq 1..N
  BY DEF CrashedSet
<1>3. IsFiniteSet(CrashedSet) /\ CrashedSet \in SUBSET Nat
  <2>1. IsFiniteSet(1..N)
    BY <1>1, FS_Interval
  <2>2. IsFiniteSet(CrashedSet)
    BY <1>2, <2>1, FS_Subset
  <2> QED
    BY <1>2, <2>2
<1>4. CrashedWorkers = Ascending(CrashedSet)
  BY DEF CrashedWorkers, CrashedSet
<1>5. /\ CrashedWorkers \in Seq(CrashedSet)
      /\ Len(CrashedWorkers) = Cardinality(CrashedSet)
      /\ \A i, k \in 1..Len(CrashedWorkers) :
            i # k => CrashedWorkers[i] # CrashedWorkers[k]
  BY <1>3, <1>4, AscendingSeq
<1>6. CrashedWorkers \in Seq(1..N)
  BY <1>2, <1>5, SeqMonotonic
<1>7. \A k \in 1..Len(CrashedWorkers) : CrashedWorkers[k] \notin Range(restarted)
  <2> SUFFICES ASSUME NEW k \in 1..Len(CrashedWorkers)
               PROVE  CrashedWorkers[k] \notin Range(restarted)
    OBVIOUS
  <2>1. CrashedWorkers[k] \in CrashedSet
    BY <1>5, ElementOfSeq
  <2> QED
    BY <2>1 DEF CrashedSet
<1>8. Grant \in 0..Len(CrashedWorkers)
  <2>1. Len(CrashedWorkers) \in Nat /\ Len(restarted) \in Nat
    BY <1>6, LenProperties DEF TypeOK
  <2> QED
    BY <2>1, ConstantsAssumption DEF Grant, Min
<1>9. QED
  BY <1>5, <1>6, <1>7, <1>8

(* Appending one list of uids to another lists the uids of both.          *)
LEMMA ConcatRange ==
    ASSUME NEW T, NEW s \in Seq(T), NEW t \in Seq(T)
    PROVE  /\ s \o t \in Seq(T)
           /\ Len(s \o t) = Len(s) + Len(t)
           /\ \A i \in 1..Len(s) + Len(t) : (s \o t)[i] = IF i <= Len(s) THEN s[i] ELSE t[i - Len(s)]
           /\ Range(s \o t) = Range(s) \cup Range(t)
BY ConcatProperties, RangeConcatenation

(***************************************************************************)
(* restart_crashed_worker keeps the invariant: every uid it spawns a       *)
(* replacement for is pushed onto restarted_worker in the same call, and   *)
(* none of them was there before, so none was replaced before.             *)
(***************************************************************************)
LEMMA RestartPreservesIInv ==
    ASSUME IInv, RestartCrashedWorker
    PROVE  IInv'
<1> DEFINE N == Len(alive)
           cw == CrashedWorkers
           r == Grant
           sub == SubSeq(cw, 1, r)
           L == Len(spawnedFor)
<1>1. /\ cw \in Seq(1..N)
      /\ \A k \in 1..Len(cw) : cw[k] \notin Range(restarted)
      /\ \A i, k \in 1..Len(cw) : i # k => cw[i] # cw[k]
      /\ r \in 0..Len(cw)
  BY CrashedWorkersFacts DEF IInv
<1>2. /\ restarted' = IF r < Len(cw) THEN restarted \o sub \o cw ELSE restarted \o cw
      /\ alive' = alive \o [i \in 1..r |-> TRUE]
      /\ spawnedFor' = spawnedFor \o sub
      /\ started' = started
  BY RestartEffect
<1>3. N \in Nat /\ L \in Nat /\ Len(cw) \in Nat
      /\ restarted \in Seq(1..N) /\ spawnedFor \in Seq(1..N) /\ alive \in Seq(BOOLEAN)
  BY <1>1, LenProperties DEF IInv, TypeOK
<1>4. /\ sub \in Seq(1..N)
      /\ Len(sub) = r
      /\ \A k \in 1..r : sub[k] = cw[k]
  <2>1. \A k \in 1..r : cw[k] \in 1..N
    BY <1>1, <1>3, ElementOfSeq
  <2> QED
    BY <1>1, <2>1, SubSeqProperties
<1>5. /\ alive' \in Seq(BOOLEAN)
      /\ Len(alive') = N + r
  <2>1. [i \in 1..r |-> TRUE] \in Seq(BOOLEAN) /\ Len([i \in 1..r |-> TRUE]) = r
    BY <1>1, <1>3
  <2> QED
    BY <1>2, <1>3, <2>1, ConcatProperties
<1>6. 1..N \subseteq 1..Len(alive')
  BY <1>1, <1>3, <1>5
<1>7. restarted' \in Seq(1..N)
      /\ Range(restarted) \cup Range(cw) \subseteq Range(restarted')
  <2>1. /\ restarted \o sub \in Seq(1..N)
        /\ Range(restarted \o sub) = Range(restarted) \cup Range(sub)
    BY <1>3, <1>4, ConcatRange
  <2>2. \A st \in Seq(1..N) : /\ st \o cw \in Seq(1..N)
                              /\ Range(st \o cw) = Range(st) \cup Range(cw)
    BY <1>1, ConcatRange
  <2>3. /\ restarted \o cw \in Seq(1..N)
        /\ Range(restarted \o cw) = Range(restarted) \cup Range(cw)
    BY <1>1, <1>3, ConcatRange
  <2>4. CASE r < Len(cw)
    <3>1. /\ restarted \o sub \o cw \in Seq(1..N)
          /\ Range(restarted \o sub \o cw) = Range(restarted \o sub) \cup Range(cw)
      BY <2>1, <2>2
    <3> QED
      BY <1>2, <2>1, <3>1, <2>4
  <2>5. CASE ~(r < Len(cw))
    BY <1>2, <2>3, <2>5
  <2> QED
    BY <2>4, <2>5
<1>8. /\ spawnedFor' \in Seq(1..N)
      /\ Range(spawnedFor') = Range(spawnedFor) \cup Range(sub)
      /\ Len(spawnedFor') = L + r
      /\ \A i \in 1..L + r : spawnedFor'[i] = IF i <= L THEN spawnedFor[i] ELSE sub[i - L]
  <2>1. /\ spawnedFor \o sub \in Seq(1..N)
        /\ Len(spawnedFor \o sub) = L + Len(sub)
        /\ \A i \in 1..L + Len(sub) :
              (spawnedFor \o sub)[i] = IF i <= L THEN spawnedFor[i] ELSE sub[i - L]
        /\ Range(spawnedFor \o sub) = Range(spawnedFor) \cup Range(sub)
    BY <1>3, <1>4, ConcatRange
  <2> QED
    BY <1>2, <1>4, <2>1
<1>9. Range(sub) \subseteq Range(cw)
  <2> SUFFICES ASSUME NEW k \in 1..r PROVE sub[k] \in Range(cw)
    BY <1>1, <1>3, <1>4 DEF Range
  <2>1. k \in DOMAIN cw
    BY <1>1, <1>3, LenProperties
  <2> QED
    BY <2>1, <1>4 DEF Range
<1>10. TypeOK'
  <2>1. started' \in BOOLEAN
    BY <1>2 DEF IInv, TypeOK
  <2>2. restarted' \in Seq(1..Len(alive')) /\ spawnedFor' \in Seq(1..Len(alive'))
    BY <1>6, <1>7, <1>8, SeqMonotonic
  <2> QED
    BY <1>5, <2>1, <2>2 DEF TypeOK
<1>11. SpawnedRestarted'
  BY <1>7, <1>8, <1>9 DEF IInv, SpawnedRestarted
<1>12. ReplacedOnce'
  <2> SUFFICES ASSUME NEW i \in 1..L + r, NEW j \in 1..L + r, i # j
               PROVE  spawnedFor'[i] # spawnedFor'[j]
    BY <1>3, <1>8, LenProperties DEF ReplacedOnce
  <2>1. ASSUME NEW x \in 1..L PROVE spawnedFor'[x] \in Range(restarted)
    <3>1. spawnedFor'[x] = spawnedFor[x]
      BY <1>1, <1>3, <1>8
    <3>2. spawnedFor[x] \in Range(spawnedFor)
      BY <1>3, LenProperties DEF Range
    <3> QED
      BY <3>1, <3>2 DEF IInv, SpawnedRestarted
  <2>2. ASSUME NEW y \in L+1..L+r
        PROVE  spawnedFor'[y] = cw[y - L] /\ cw[y - L] \notin Range(restarted)
    <3>1. y - L \in 1..r /\ y \in 1..L + r /\ ~(y <= L)
      BY <1>1, <1>3
    <3>2. spawnedFor'[y] = sub[y - L]
      BY <3>1, <1>8
    <3>3. y - L \in 1..Len(cw)
      BY <3>1, <1>1, <1>3
    <3> QED
      BY <3>2, <3>3, <3>1, <1>1, <1>4
  <2>3. CASE i <= L /\ j <= L
    <3>1. spawnedFor'[i] = spawnedFor[i] /\ spawnedFor'[j] = spawnedFor[j]
      BY <2>3, <1>3, <1>8
    <3>2. i \in DOMAIN spawnedFor /\ j \in DOMAIN spawnedFor
      BY <2>3, <1>3, LenProperties
    <3> QED
      BY <3>1, <3>2 DEF IInv, ReplacedOnce
  <2>4. CASE i > L /\ j > L
    <3>1. i - L \in 1..Len(cw) /\ j - L \in 1..Len(cw) /\ i - L # j - L
      BY <2>4, <1>1, <1>3
    <3>2. i \in L+1..L+r /\ j \in L+1..L+r
      BY <2>4, <1>1, <1>3
    <3>3. spawnedFor'[i] = cw[i - L]
      BY <3>2, <2>2
    <3>4. spawnedFor'[j] = cw[j - L]
      BY <3>2, <2>2
    <3> QED
      BY <3>1, <3>3, <3>4, <1>1
  <2>5. CASE i <= L /\ j > L
    BY <2>5, <2>1, <2>2, <1>3
  <2>6. CASE i > L /\ j <= L
    BY <2>6, <2>1, <2>2, <1>3
  <2> QED
    BY <2>3, <2>4, <2>5, <2>6, <1>3
<1>13. QED
  BY <1>10, <1>11, <1>12 DEF IInv

(***************************************************************************)
(* start spawns WorkerCnt fresh workers and touches neither the            *)
(* restarted_worker list nor the replacement history.                      *)
(***************************************************************************)
LEMMA StartPreservesIInv ==
    ASSUME IInv, Start
    PROVE  IInv'
<1>1. /\ alive \in Seq(BOOLEAN)
      /\ [i \in 1..WorkerCnt |-> TRUE] \in Seq(BOOLEAN)
      /\ Len([i \in 1..WorkerCnt |-> TRUE]) = WorkerCnt
  BY ConstantsAssumption DEF IInv, TypeOK
<1>2. alive' \in Seq(BOOLEAN) /\ Len(alive') = Len(alive) + WorkerCnt
  BY <1>1, ConcatProperties DEF Start
<1>3. 1..Len(alive) \subseteq 1..Len(alive')
  BY <1>1, <1>2, ConstantsAssumption, LenProperties
<1>4. restarted' \in Seq(1..Len(alive')) /\ spawnedFor' \in Seq(1..Len(alive'))
  BY <1>3, SeqMonotonic DEF Start, IInv, TypeOK
<1>5. QED
  BY <1>2, <1>4 DEF Start, IInv, TypeOK, SpawnedRestarted, ReplacedOnce

(***************************************************************************)
(* A worker dying changes only its is_alive() flag.                        *)
(***************************************************************************)
LEMMA CrashPreservesIInv ==
    ASSUME IInv, NEW u \in DOMAIN alive, Crash(u)
    PROVE  IInv'
<1>1. u \in 1..Len(alive)
  BY LenProperties DEF IInv, TypeOK
<1>2. alive' \in Seq(BOOLEAN) /\ Len(alive') = Len(alive)
  BY <1>1, ExceptSeq DEF Crash, IInv, TypeOK
<1>3. QED
  BY <1>2 DEF Crash, IInv, TypeOK, SpawnedRestarted, ReplacedOnce

(***************************************************************************)
(* The strengthened invariant holds initially and is kept by every step.   *)
(***************************************************************************)
LEMMA InitIInv ==
    Init => IInv
<1> SUFFICES ASSUME Init PROVE IInv
  OBVIOUS
<1>1. TypeOK
  BY EmptySeq DEF Init, TypeOK
<1>2. spawnedFor = << >> /\ DOMAIN spawnedFor = {}
  BY DEF Init
<1>3. SpawnedRestarted
  BY <1>2 DEF SpawnedRestarted, Range
<1>4. ReplacedOnce
  BY <1>2 DEF ReplacedOnce
<1>5. QED
  BY <1>1, <1>3, <1>4 DEF IInv

LEMMA IInvInductive ==
    IInv /\ [Next]_vars => IInv'
<1> SUFFICES ASSUME IInv, [Next]_vars PROVE IInv'
  OBVIOUS
<1>1. CASE Start
  BY <1>1, StartPreservesIInv
<1>2. CASE \E u \in DOMAIN alive : Crash(u)
  BY <1>2, CrashPreservesIInv
<1>3. CASE RestartCrashedWorker
  BY <1>3, RestartPreservesIInv
<1>4. CASE UNCHANGED vars
  BY <1>4 DEF vars, IInv, TypeOK, SpawnedRestarted, ReplacedOnce
<1>5. QED
  BY <1>1, <1>2, <1>3, <1>4 DEF Next

(***************************************************************************)
(* restart_crashed_worker never spawns two replacements for the same dead  *)
(* worker, over any sequence of deaths and calls, for every worker count   *)
(* and restart budget.                                                     *)
(***************************************************************************)
THEOREM ReplacedOnceInvariant ==
    Spec => []ReplacedOnce
<1>1. Init => IInv
  BY InitIInv
<1>2. IInv /\ [Next]_vars => IInv'
  BY IInvInductive
<1>3. IInv => ReplacedOnce
  BY DEF IInv
<1>4. QED
  BY <1>1, <1>2, <1>3, PTL DEF Spec

(***************************************************************************)
(* The workers vector holds only liveness flags, and restarted_worker and  *)
(* the replacement history only uids of workers the campaign spawned.      *)
(***************************************************************************)
THEOREM TypeCorrect ==
    Spec => []TypeOK
<1>1. IInv => TypeOK
  BY DEF IInv
<1>2. QED
  BY <1>1, InitIInv, IInvInductive, PTL DEF Spec

=============================================================================
