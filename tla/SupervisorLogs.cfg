\* Both streams of one child and one of its successor; a buffer of two lines.
CONSTANTS
    Streams = {out1, err1, out2}
    LogCap = 2
    MaxLines = 2
SPECIFICATION Spec
INVARIANT LogIsTail
PROPERTY LastWordsAreKept
CHECK_DEADLOCK FALSE
