\* Another goroutine racing the handler and the writer; two queue slots.
CONSTANTS
    Peer = {p1}
    Handler = h
    Writer = w
    QueueCapacity = 2
    MaxAccepted = 3
    MaxPings = 1
SPECIFICATION FairSpec
INVARIANTS TypeOK CleanupOnce RootCauseRecorded ReturnedIsQuiet
PROPERTIES ImplementsOutbox CloseReturns RunReturns AcceptedIsWritten
