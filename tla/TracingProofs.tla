---------------------------- MODULE TracingProofs ----------------------------
(***************************************************************************)
(* Proofs about Tracing for any number of workers, entries and traces:     *)
(* at most one worker traces an entry at a time, and a stored trace is     *)
(* never replaced.                                                         *)
(***************************************************************************)
EXTENDS Tracing, TLAPS

USE ConstantsAssumption

(***************************************************************************)
(* Every step keeps TypeOK, the flag ownership and the single tracer.      *)
(***************************************************************************)
LEMMA IInvInductive == IInv /\ [Next]_vars => IInv'
<1> SUFFICES ASSUME IInv, [Next]_vars PROVE IInv'
  OBVIOUS
<1> USE DEF IInv, TypeOK, TracerOwnsFlag, SingleTracer, Tracers, WorkerStates,
            Returns
<1>1. ASSUME NEW w \in Workers, NEW q \in Entries, TraceFound(w, q)
      PROVE  IInv'
  BY <1>1 DEF TraceFound
<1>2. ASSUME NEW w \in Workers, NEW q \in Entries, TraceBusy(w, q)
      PROVE  IInv'
  BY <1>2 DEF TraceBusy
<1>3. ASSUME NEW w \in Workers, NEW q \in Entries, TraceStart(w, q)
      PROVE  IInv'
  <2>1. Tracers(q) = {}
    BY <1>3 DEF TraceStart
  <2>2. \A p \in Entries : Tracers(p)' = IF p = q THEN {w} ELSE Tracers(p)
    BY <1>3 DEF TraceStart
  <2>3. QED
    BY <1>3, <2>1, <2>2 DEF TraceStart
<1>4. ASSUME NEW w \in Workers, LoadMutations(w)
      PROVE  IInv'
  BY <1>4 DEF LoadMutations
<1>5. ASSUME NEW w \in Workers, TraceError(w)
      PROVE  IInv'
  BY <1>5 DEF TraceError
<1>6. ASSUME NEW w \in Workers, NEW t \in Traces, TraceDone(w, t)
      PROVE  IInv'
  <2> DEFINE q == target[w]
  <2>1. Tracers(q) = {w}
    BY <1>6 DEF TraceDone
  <2>2. \A p \in Entries : Tracers(p)' = IF p = q THEN {} ELSE Tracers(p)
    BY <1>6 DEF TraceDone
  <2>3. QED
    BY <1>6, <2>1, <2>2 DEF TraceDone
<1>7. CASE UNCHANGED vars
  BY <1>7 DEF vars
<1>8. QED
  BY <1>1, <1>2, <1>3, <1>4, <1>5, <1>6, <1>7 DEF Next

LEMMA InitIInv == Init => IInv
BY DEF Init, IInv, TypeOK, TracerOwnsFlag, SingleTracer, Tracers,
       WorkerStates, Returns

(***************************************************************************)
(* For every number of workers and entries, the expensive trace of an      *)
(* entry is run by at most one worker at a time.                           *)
(***************************************************************************)
THEOREM SingleTracerInvariant == Spec => []SingleTracer
<1>1. IInv => SingleTracer
  BY DEF IInv
<1>2. QED
  BY <1>1, InitIInv, IInvInductive, PTL DEF Spec

(***************************************************************************)
(* A trace, once stored in an entry's stats, is never replaced.            *)
(***************************************************************************)
THEOREM TraceWriteOnceHolds == Spec => TraceWriteOnce
<1>1. IInv /\ [Next]_vars =>
        [\A q \in Entries : trace[q] # NoTrace => trace'[q] = trace[q]]_vars
  <2> SUFFICES ASSUME IInv, [Next]_vars, NEW p \in Entries, trace[p] # NoTrace
               PROVE  trace'[p] = trace[p]
    BY DEF vars
  <2> USE DEF IInv, TypeOK, TracerOwnsFlag, Tracers
  <2>1. ASSUME NEW w \in Workers, NEW t \in Traces, TraceDone(w, t)
        PROVE  trace'[p] = trace[p]
    <3>1. target[w] # p
      BY <2>1 DEF TraceDone
    <3>2. QED
      BY <2>1, <3>1 DEF TraceDone
  <2>2. ASSUME NEW w \in Workers, NEW q \in Entries, TraceStart(w, q)
        PROVE  trace'[p] = trace[p]
    BY <2>2 DEF TraceStart
  <2>3. QED
    BY <2>1, <2>2 DEF Next, vars, TraceFound, TraceBusy, LoadMutations,
                      TraceError
<1>2. QED
  BY <1>1, InitIInv, IInvInductive, PTL DEF Spec, TraceWriteOnce


(***************************************************************************)
(* Under IInv, every step of trace_queue_entry is a step of the abstract   *)
(* claim protocol or leaves the traces and the tracers unchanged.          *)
(***************************************************************************)
LEMMA StepRefines == IInv /\ [Next]_vars => [Abs!Next]_Abs!vars
<1> SUFFICES ASSUME IInv, [Next]_vars PROVE [Abs!Next]_Abs!vars
  OBVIOUS
<1> USE DEF IInv, TypeOK, Abs!vars
<1>1. ASSUME NEW w \in Workers, NEW q \in Entries, TraceFound(w, q) \/ TraceBusy(w, q)
      PROVE  UNCHANGED Abs!vars
  BY <1>1 DEF TraceFound, TraceBusy, Tracers
<1>2. ASSUME NEW w \in Workers, LoadMutations(w)
      PROVE  UNCHANGED Abs!vars
  BY <1>2 DEF LoadMutations, Tracers
<1>3. ASSUME NEW w \in Workers, NEW q \in Entries, TraceStart(w, q)
      PROVE  Abs!Claim(w, q)
  <2>1. Tracers(q) = {}
    BY <1>3 DEF TraceStart, TracerOwnsFlag, Tracers
  <2>2. \A p \in Entries : w \notin Tracers(p)
    BY <1>3 DEF TraceStart, Tracers
  <2>3. \A p \in Entries : Tracers(p)' = IF p = q THEN {w} ELSE Tracers(p)
    BY <1>3, <2>1 DEF TraceStart, Tracers
  <2>4. QED
    BY <1>3, <2>1, <2>2, <2>3 DEF TraceStart, Abs!Claim
<1>4. ASSUME NEW w \in Workers, TraceError(w)
      PROVE  Abs!Release(target[w])
  <2> DEFINE q == target[w]
  <2>1. Tracers(q) = {w}
    BY <1>4 DEF TraceError, SingleTracer, Tracers
  <2>2. \A p \in Entries : Tracers(p)' = IF p = q THEN {} ELSE Tracers(p)
    BY <1>4, <2>1 DEF TraceError, Tracers
  <2>3. QED
    BY <1>4, <2>1, <2>2 DEF TraceError, Abs!Release
<1>5. ASSUME NEW w \in Workers, NEW t \in Traces, TraceDone(w, t)
      PROVE  Abs!Attach(target[w], t)
  <2> DEFINE q == target[w]
  <2>1. Tracers(q) = {w}
    BY <1>5 DEF TraceDone, SingleTracer, Tracers
  <2>2. \A p \in Entries : Tracers(p)' = IF p = q THEN {} ELSE Tracers(p)
    BY <1>5, <2>1 DEF TraceDone, Tracers
  <2>3. QED
    BY <1>5, <2>1, <2>2 DEF TraceDone, Abs!Attach
<1>6. CASE UNCHANGED vars
  BY <1>6 DEF vars, Tracers
<1>7. QED
  BY <1>1, <1>2, <1>3, <1>4, <1>5, <1>6 DEF Next, Abs!Next

(***************************************************************************)
(* trace_queue_entry implements the claim protocol of TracingAbstract, for *)
(* any number of workers, entries and traces.                              *)
(***************************************************************************)
THEOREM Refinement == Spec => ImplementsAbstract
<1>1. Init => Abs!Init
  BY DEF Init, Abs!Init, Tracers
<1>2. QED
  BY <1>1, InitIInv, IInvInductive, StepRefines, PTL DEF Spec, ImplementsAbstract, Abs!Spec

=============================================================================
