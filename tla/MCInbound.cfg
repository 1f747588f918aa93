\* One session, at most two messages per three instants, frames with a fault.
CONSTANTS
    Reader = reader
    Caller = {reader}
    Limit = 2
    Interval = 3
    MaxTime = 6
    Sent <- Frames
SPECIFICATION InboundSpec
CHECK_DEADLOCK FALSE
INVARIANTS WindowBound RefusalJustified AnswerIsHonest AnswerNamesRequest
