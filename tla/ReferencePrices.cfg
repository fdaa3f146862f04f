\* A window of three milliseconds observed at any of six, in any order, with
\* two mids whose average no single one of them is.
SPECIFICATION SpecBoth
CONSTANTS
    None = None
    WindowMs = 3
    MaxTime = 5
    Mids = {2, 5}
INVARIANT BothReadTheSamePrice
INVARIANT WindowAnswersExactly
