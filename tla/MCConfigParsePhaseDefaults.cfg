CONSTANT Docs <- MCDocs
SPECIFICATION Spec
INVARIANT PhaseDefaults
\* from_str is called once; the scheduler then starts or exits.
CHECK_DEADLOCK FALSE
