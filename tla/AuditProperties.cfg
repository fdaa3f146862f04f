\* An audit of an exchange that is trading, being anchored, or being tampered
\* with while it is read: two sessions, two kinds of message, a log of three;
\* commits of up to two messages, pages of two; two anchors and one transaction
\* under way besides the one the sender waits for.
SPECIFICATION Spec
CONSTANTS
    Sessions = {s1, s2}
    Contents = {fill, quiet}
    Fills = {fill}
    MaxLog = 3
    MaxTampered = 2
    BatchLimit = 2
    PageLimit = 2
    MaxAnchors = 2
    MaxPending = 2
    MaxChainAnchors = 1
SYMMETRY SessionSymmetry
CHECK_DEADLOCK FALSE
INVARIANT NoAccusationInView
INVARIANT PassedAuditMeansTheRecordStands
INVARIANT AnchorsAreOneHistory
