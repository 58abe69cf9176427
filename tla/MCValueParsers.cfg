CONSTANTS
    DurationSymbols <- MCDurationSymbols
    DurationLen = 3
    ReadySymbols <- MCReadySymbols
    ReadyLen = 5
SPECIFICATION Spec
INVARIANT DurationOnGrammar
INVARIANT ReadyOnGrammar
\* Each behaviour is one call of the parser, which then returns.
CHECK_DEADLOCK FALSE
