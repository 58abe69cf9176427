----------------------------- MODULE MCTracing -----------------------------
(* Model-checking instance of Tracing: three workers racing for two queue   *)
(* entries, common_trace producing one of two different traces.           *)
EXTENDS Tracing

CONSTANTS w1, w2, w3, q1, q2, t1, t2

MCWorkers == {w1, w2, w3}
MCEntries == {q1, q2}
MCTraces == {t1, t2}

=============================================================================
