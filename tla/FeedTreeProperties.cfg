\* Seven messages in groups of one or two, so that the right edge has one, two
\* and three perfect subtrees, and three writes by other hands, so that a node
\* can be dropped and another added to keep the count.
SPECIFICATION Spec
CONSTANTS
    Missing = Missing
    Stranger = Stranger
    None = None
    MaxLevel = 3
    MaxLog = 7
    MaxBatch = 2
    MaxEdits = 3
    MaxForged = 5
    PageSizes = {2, 3}
INVARIANT TreeIsTheHistory
INVARIANT ProofsAreRight
