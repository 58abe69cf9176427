CONSTANTS
    WorkerCnt <- MCWorkerCnt
    MaxRestartCnt <- MCMaxRestartCnt
SPECIFICATION Spec
CHECK_DEADLOCK FALSE
INVARIANT ReplacedOnce
PROPERTY CrashHandled
