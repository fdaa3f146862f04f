\* Two processes and a feed that loses its end, or that is replaced.
SPECIFICATION Spec
CONSTANTS
    p1 = p1
    p2 = p2
    a = a
    b = b
    Procs = {p1, p2}
    Bodies = {a, b}
    MaxFeed = 2
    MaxRuns = 2
    Scenes <- MCScenes
SYMMETRY ProcsAndBodies
CHECK_DEADLOCK FALSE
INVARIANT PublishedIsDurable
INVARIANT OneWriterPerRun
INVARIANT ClaimsChainInEveryRun
INVARIANT HistoryWasSigned
PROPERTY ImplementsRunHistory
