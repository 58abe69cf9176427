CONSTANT Docs <- MCDocs
SPECIFICATION Spec
INVARIANT NeverPanics
\* from_str is called once; the scheduler then starts or exits.
CHECK_DEADLOCK FALSE
