CONSTANTS
    w1 = w1
    w2 = w2
    e1 = e1
    e2 = e2
    Workers <- MCWorkers
    Entries <- MCEntries
    PatchPoints <- MCPatchPoints
    Active <- MCActive
    Covered <- MCCovered
    Width <- MCWidth
    BatchSize <- MCBatchSize
    WeightChoices <- MCWeightChoices
SPECIFICATION Spec
INVARIANT UnfuzzedDrawnOnce
\* Workers that panic in weights_sum stop for good.
CHECK_DEADLOCK FALSE
