------------------------------ MODULE Campaign ------------------------------
(***************************************************************************)
(* The worker bookkeeping of FuzzingCampaign (scheduler/src/fuzzer/        *)
(* campaign.rs): start spawns the initial workers, any worker thread may   *)
(* die, and restart_crashed_worker spawns replacements for dead workers    *)
(* that were not handled before, bounded by MAX_WORKER_RESTART_CNT.  A     *)
(* worker's uid is its position in the campaign's workers vector.          *)
(***************************************************************************)
EXTENDS Naturals, Sequences, FiniteSets, Functions

CONSTANTS
    WorkerCnt,        \* the worker_cnt argument of start
    MaxRestartCnt     \* constants::MAX_WORKER_RESTART_CNT

ASSUME ConstantsAssumption ==
    /\ WorkerCnt \in Nat \ {0}
    /\ MaxRestartCnt \in Nat

VARIABLES
    started,      \* start has run
    alive,        \* workers: is_alive() of each spawned worker, by uid
    restarted,    \* restarted_worker: the handled uids, duplicates kept
    spawnedFor    \* history: the dead uid each replacement was spawned for

vars == <<started, alive, restarted, spawnedFor>>

Min(a, b) == IF a < b THEN a ELSE b

Init ==
    /\ started = FALSE
    /\ alive = << >>
    /\ restarted = << >>
    /\ spawnedFor = << >>

(***************************************************************************)
(* start(worker_cnt): spawn worker_cnt workers sharing one Barrier.        *)
(***************************************************************************)
Start ==
    /\ ~started
    /\ started' = TRUE
    /\ alive' = alive \o [i \in 1..WorkerCnt |-> TRUE]
    /\ UNCHANGED <<restarted, spawnedFor>>

(***************************************************************************)
(* A worker thread terminates by a panic or a fatal error.                 *)
(***************************************************************************)
Crash(u) ==
    /\ alive[u]
    /\ alive' = [alive EXCEPT ![u] = FALSE]
    /\ UNCHANGED <<started, restarted, spawnedFor>>

(***************************************************************************)
(* The uids of S in the order of the workers vector: at position i the uid *)
(* with i - 1 smaller uids in S.  This is the Vec a loop over the workers  *)
(* builds when it pushes the uid of every worker in S.                     *)
(***************************************************************************)
Ascending(S) ==
    [i \in 1..Cardinality(S) |-> CHOOSE u \in S : Cardinality({v \in S : v < u}) = i - 1]

(* Variant of CrashedWorkers that forgets the restarted_worker check.     *)
CrashedWorkersAll ==
    Ascending({u \in 1..Len(alive) : ~alive[u]})

(***************************************************************************)
(* The first loop of restart_crashed_worker: the dead workers, in the      *)
(* order of the workers vector, that are not in restarted_worker.          *)
(***************************************************************************)
CrashedWorkers ==
    Ascending({u \in 1..Len(alive) : ~alive[u] /\ u \notin Range(restarted)})

(* Variant of RestartCrashedWorker that does not extend restarted_worker  *)
(* with the crashed workers once the bound is reached.                    *)
RestartNoMark ==
    LET crashed == CrashedWorkers
        r == Min(Len(crashed),
                 IF Len(restarted) > MaxRestartCnt THEN 0
                 ELSE MaxRestartCnt + 1 - Len(restarted))
    IN  /\ crashed # << >>
        /\ restarted' = restarted \o SubSeq(crashed, 1, r)
        /\ alive' = alive \o [i \in 1..r |-> TRUE]
        /\ spawnedFor' = spawnedFor \o SubSeq(crashed, 1, r)
        /\ UNCHANGED started

(***************************************************************************)
(* restart_crashed_worker, both loops as one step.  The k-th crashed       *)
(* worker is restarted iff restarted_worker.len() > MAX_WORKER_RESTART_CNT *)
(* is false before it, i.e. for the first r of them; each restart pushes   *)
(* the uid and spawns a worker.  If the bound trips, the whole crashed     *)
(* list is appended (again) and the function returns.                     *)
(***************************************************************************)
RestartCrashedWorker ==
    LET crashed == CrashedWorkers
        r == Min(Len(crashed),
                 IF Len(restarted) > MaxRestartCnt THEN 0
                 ELSE MaxRestartCnt + 1 - Len(restarted))
    IN  /\ crashed # << >>
        /\ restarted' = IF r < Len(crashed)
                            THEN restarted \o SubSeq(crashed, 1, r) \o crashed
                            ELSE restarted \o crashed
        /\ alive' = alive \o [i \in 1..r |-> TRUE]
        /\ spawnedFor' = spawnedFor \o SubSeq(crashed, 1, r)
        /\ UNCHANGED started

Next ==
    \/ Start
    \/ \E u \in DOMAIN alive : Crash(u)
    \/ RestartCrashedWorker

(***************************************************************************)
(* The campaign's main loop calls restart_crashed_worker periodically.     *)
(***************************************************************************)
Spec == Init /\ [][Next]_vars /\ WF_vars(Start) /\ WF_vars(RestartCrashedWorker)

-----------------------------------------------------------------------------
\* The most uids the code's bound lets the campaign hand out.
MaxUid == WorkerCnt + MaxRestartCnt + 1

TypeOK ==
    /\ started \in BOOLEAN
    /\ alive \in Seq(BOOLEAN)
    /\ restarted \in Seq(1..Len(alive))
    /\ spawnedFor \in Seq(1..Len(alive))

(***************************************************************************)
(* No dead worker is replaced twice, over any number of calls of           *)
(* restart_crashed_worker, also after the bound was hit.                   *)
(***************************************************************************)
ReplacedOnce ==
    \A i, j \in DOMAIN spawnedFor : i # j => spawnedFor[i] # spawnedFor[j]

(***************************************************************************)
(* Why ReplacedOnce holds: a replacement is spawned only for a uid that is *)
(* pushed onto restarted_worker in the same step, and the first loop of    *)
(* restart_crashed_worker skips every uid found there.                     *)
(***************************************************************************)
SpawnedRestarted == Range(spawnedFor) \subseteq Range(restarted)

IInv == TypeOK /\ SpawnedRestarted /\ ReplacedOnce

(***************************************************************************)
(* Every worker that dies is eventually handled by restart_crashed_worker: *)
(* replaced, or marked once the restart budget is spent, so it is not      *)
(* reported as crashed again and again.                                    *)
(***************************************************************************)
CrashHandled ==
    \A u \in 1..MaxUid :
        (u \in DOMAIN alive /\ ~alive[u]) ~> (u \in Range(restarted))

(***************************************************************************)
(* The spec (5, scenario 6): at most MAX_WORKER_RESTART_CNT workers are    *)
(* re-spawned over the campaign's lifetime.                                *)
(***************************************************************************)
RestartBound == Len(spawnedFor) <= MaxRestartCnt

=============================================================================
