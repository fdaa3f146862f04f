SPECIFICATION Spec
CONSTANTS
    v1 = v1
    v2 = v2
    a = a
    b = b
    feedKey = feedKey
    strangerKey = strangerKey
    none = none
    NoSession = none
    NoKey = none
    NoCandidate = none
    StallAfter = 2
    Bodies = {a, b}
    Validators = {v1, v2}
    Urls <- MCUrls
    Behind <- MCBehind
    FeedKey = feedKey
    StrangerKey = strangerKey
    RecentCap = 1
    MaxLog = 2
    Scenes <- MCScenes
SYMMETRY BodySymmetry
CHECK_DEADLOCK FALSE
INVARIANT QuorumIsBacked
PROPERTY DisputeStands
PROPERTY MarkOutlivesCommits
INVARIANT HonestWordsAreTrue
