------------------------------- MODULE Tracing -------------------------------
(***************************************************************************)
(* Coordination of the expensive tracing of a queue entry between workers: *)
(* FuzzingWorker::trace_queue_entry (scheduler/src/fuzzer/worker_impl/     *)
(* common.rs).  Each queue entry has a stats lock guarding its optional    *)
(* trace and a tracing_in_progress flag.  A worker checks both under the   *)
(* lock, sets the flag, drops the lock, restores the entry's mutations,    *)
(* traces, and stores the trace under the lock again.  The lock is held    *)
(* only within one action, so every action here is atomic with respect to  *)
(* the stats of the entry it touches.                                      *)
(***************************************************************************)
EXTENDS Naturals

CONSTANTS
    Workers,    \* the fuzzing worker threads
    Entries,    \* the queue entries
    Traces,     \* the traces a run of common_trace may produce
    NoTrace     \* stats.trace = None

ASSUME ConstantsAssumption ==
    /\ Entries # {}
    /\ Traces # {}
    /\ NoTrace \notin Traces

VARIABLES
    trace,        \* stats_rw.trace of every queue entry
    inProgress,   \* stats_rw.tracing_in_progress of every queue entry
    pc,           \* where each worker is in trace_queue_entry
    target,       \* the entry the worker is tracing
    ret           \* what the worker's last trace_queue_entry returned

vars == <<trace, inProgress, pc, target, ret>>

Returns == {"Idle", "OkSome", "OkNone", "Err"}

WorkerStates == {"idle", "load", "trace"}

Init ==
    /\ trace = [q \in Entries |-> NoTrace]
    /\ inProgress = [q \in Entries |-> FALSE]
    /\ pc = [w \in Workers |-> "idle"]
    /\ target = [w \in Workers |-> CHOOSE q \in Entries : TRUE]
    /\ ret = [w \in Workers |-> "Idle"]

(***************************************************************************)
(* The entry is already traced: Ok(Some(trace)) is returned.               *)
(***************************************************************************)
TraceFound(w, q) ==
    /\ pc[w] = "idle"
    /\ trace[q] # NoTrace
    /\ ret' = [ret EXCEPT ![w] = "OkSome"]
    /\ UNCHANGED <<trace, inProgress, pc, target>>

(***************************************************************************)
(* Another thread is tracing the entry: Ok(None) is returned.              *)
(***************************************************************************)
TraceBusy(w, q) ==
    /\ pc[w] = "idle"
    /\ trace[q] = NoTrace
    /\ inProgress[q]
    /\ ret' = [ret EXCEPT ![w] = "OkNone"]
    /\ UNCHANGED <<trace, inProgress, pc, target>>

(* Variant of TraceStart without the tracing_in_progress check.           *)
TraceStartUnguarded(w, q) ==
    /\ pc[w] = "idle"
    /\ trace[q] = NoTrace
    /\ inProgress' = [inProgress EXCEPT ![q] = TRUE]
    /\ pc' = [pc EXCEPT ![w] = "load"]
    /\ target' = [target EXCEPT ![w] = q]
    /\ UNCHANGED <<trace, ret>>

(***************************************************************************)
(* Neither traced nor in progress: mark_tracing_in_progress and drop the   *)
(* lock.                                                                   *)
(***************************************************************************)
TraceStart(w, q) ==
    /\ pc[w] = "idle"
    /\ trace[q] = NoTrace
    /\ ~inProgress[q]
    /\ inProgress' = [inProgress EXCEPT ![q] = TRUE]
    /\ pc' = [pc EXCEPT ![w] = "load"]
    /\ target' = [target EXCEPT ![w] = q]
    /\ UNCHANGED <<trace, ret>>

(***************************************************************************)
(* load_queue_entry_mutations succeeds and the worker traces.              *)
(***************************************************************************)
LoadMutations(w) ==
    /\ pc[w] = "load"
    /\ pc' = [pc EXCEPT ![w] = "trace"]
    /\ UNCHANGED <<trace, inProgress, target, ret>>

(***************************************************************************)
(* load_queue_entry_mutations fails and `?` returns the error at once; or  *)
(* common_trace fails and the error is returned.  Neither path touches the *)
(* entry's stats again.                                                    *)
(***************************************************************************)
TraceError(w) ==
    /\ pc[w] \in {"load", "trace"}
    /\ pc' = [pc EXCEPT ![w] = "idle"]
    /\ ret' = [ret EXCEPT ![w] = "Err"]
    /\ UNCHANGED <<trace, inProgress, target>>

(***************************************************************************)
(* common_trace succeeds with trace t: the lock is taken again and         *)
(* set_trace stores t and clears the in-progress flag.                     *)
(***************************************************************************)
TraceDone(w, t) ==
    LET q == target[w]
    IN  /\ pc[w] = "trace"
        /\ trace' = [trace EXCEPT ![q] = t]
        /\ inProgress' = [inProgress EXCEPT ![q] = FALSE]
        /\ pc' = [pc EXCEPT ![w] = "idle"]
        /\ ret' = [ret EXCEPT ![w] = "OkSome"]
        /\ UNCHANGED target

Next ==
    \E w \in Workers :
        \/ \E q \in Entries :
              TraceFound(w, q) \/ TraceBusy(w, q) \/ TraceStart(w, q)
        \/ LoadMutations(w)
        \/ TraceError(w)
        \/ \E t \in Traces : TraceDone(w, t)

Spec == Init /\ [][Next]_vars

-----------------------------------------------------------------------------
TypeOK ==
    /\ trace \in [Entries -> Traces \cup {NoTrace}]
    /\ inProgress \in [Entries -> BOOLEAN]
    /\ pc \in [Workers -> WorkerStates]
    /\ target \in [Workers -> Entries]
    /\ ret \in [Workers -> Returns]

Tracers(q) == {w \in Workers : pc[w] \in {"load", "trace"} /\ target[w] = q}

(***************************************************************************)
(* Trace attach is monotonic: once a queue entry's stats hold a trace, no  *)
(* later step of any worker replaces or removes it (spec ordering          *)
(* guarantee 2), although common_trace may produce a different trace on    *)
(* every run.                                                              *)
(***************************************************************************)
TraceWriteOnce ==
    [][\A q \in Entries : trace[q] # NoTrace => trace'[q] = trace[q]]_vars

(***************************************************************************)
(* The expensive trace of an entry is run by at most one worker at a time, *)
(* although the check of the flag and the trace itself are separated by    *)
(* dropping the stats lock.                                                *)
(***************************************************************************)
SingleTracer ==
    \A q \in Entries, v, w \in Workers :
        v \in Tracers(q) /\ w \in Tracers(q) => v = w

(***************************************************************************)
(* The in-progress flag of an entry is only set while some worker is       *)
(* actually tracing it.  The spec (4.3, 7) says a failed trace leaves the  *)
(* flag clear; a set flag with no tracer makes every later                 *)
(* trace_queue_entry of that entry return Ok(None), so the entry is never  *)
(* traced.                                                                 *)
(***************************************************************************)
FlagHasTracer ==
    \A q \in Entries : inProgress[q] => Tracers(q) # {}

(***************************************************************************)
(* Why SingleTracer and TraceWriteOnce hold: whoever is between            *)
(* mark_tracing_in_progress and set_trace holds the entry's flag and the   *)
(* entry has no trace yet.                                                 *)
(***************************************************************************)
TracerOwnsFlag ==
    \A q \in Entries, w \in Workers :
        w \in Tracers(q) => inProgress[q] /\ trace[q] = NoTrace

Abs == INSTANCE TracingAbstract WITH claim <- [q \in Entries |-> Tracers(q)]

(***************************************************************************)
(* trace_queue_entry implements the claim protocol of TracingAbstract:     *)
(* mark_tracing_in_progress claims an untraced entry nobody traces,        *)
(* set_trace attaches the claimant's trace once, and an error gives the    *)
(* entry up; the lock, the flag and loading the mutations are hidden.      *)
(***************************************************************************)
ImplementsAbstract == Abs!Spec

IInv == TypeOK /\ TracerOwnsFlag /\ SingleTracer

=============================================================================
