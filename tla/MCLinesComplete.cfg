SPECIFICATION Spec
CONSTANTS
    N = 16
    NUL <- MCNUL
    Bytes <- MCBytes
    Newlines <- MCNewlines
    Size <- MCSize
    Text <- MCText
    Requests <- MCRequests
    Frames <- MCFrames
    Extended <- MCExtended
    Answers <- MCAnswers
    Handshake <- MCHandshake
    Writers = {"session", "other"}
    Session = "session"
    MaxBroadcasts = 1
    Cap = 3
    MaxCuts = 1
CHECK_DEADLOCK FALSE
INVARIANT LinesComplete
