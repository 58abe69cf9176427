CONSTANTS
    w1 = w1
    w2 = w2
    Workers <- MCWorkers
    Idx <- MCIdx
    Bits <- MCBits
SYMMETRY Symmetry
SPECIFICATION Spec
INVARIANT CoverageMerged
INVARIANT EntriesNeedDiscoveries
PROPERTY ImplementsAbstract
