--------------------------- MODULE TracingAbstract ---------------------------
(***************************************************************************)
(* What trace_queue_entry promises its callers (spec 4.3 and ordering      *)
(* guarantee 2), with the lock, the flag and the steps in between hidden:  *)
(* a worker claims an untraced entry nobody else holds, and the claim ends *)
(* either with the claimant attaching a trace, once, or with it giving the *)
(* entry up.  A worker holds at most one claim at a time.                  *)
(***************************************************************************)
CONSTANTS
    Workers,    \* the fuzzing worker threads
    Entries,    \* the queue entries
    Traces,     \* the traces a trace of an entry may produce
    NoTrace     \* no trace attached yet

VARIABLES
    trace,      \* the trace attached to every entry
    claim       \* the workers tracing every entry: none or one

vars == <<trace, claim>>

Init ==
    /\ trace = [q \in Entries |-> NoTrace]
    /\ claim = [q \in Entries |-> {}]

(* w starts tracing q: q has no trace and no claimant, w holds no claim.  *)
Claim(w, q) ==
    /\ trace[q] = NoTrace
    /\ claim[q] = {}
    /\ \A p \in Entries : w \notin claim[p]
    /\ claim' = [claim EXCEPT ![q] = {w}]
    /\ UNCHANGED trace

(* The claimant of q gives it up without a trace.                          *)
Release(q) ==
    /\ claim[q] # {}
    /\ claim' = [claim EXCEPT ![q] = {}]
    /\ UNCHANGED trace

(* The claimant of q attaches trace t and gives q up.                      *)
Attach(q, t) ==
    /\ claim[q] # {}
    /\ trace' = [trace EXCEPT ![q] = t]
    /\ claim' = [claim EXCEPT ![q] = {}]

Next ==
    \/ \E w \in Workers, q \in Entries : Claim(w, q)
    \/ \E q \in Entries : Release(q) \/ \E t \in Traces : Attach(q, t)

Spec == Init /\ [][Next]_vars
=============================================================================
