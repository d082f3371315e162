\* One session used by two goroutines: connected, started, stopped and closed
\* once each, in any order the library lets happen.
CONSTANTS
    a = a
    b = b
    Callers <- TwoCallers
    ChanCap = 2
    MaxConnects = 1
    MaxStarts = 1
    MaxStops = 1
    MaxCloses = 1
    MaxEvents = 4
SPECIFICATION FairSpec
INVARIANTS
    OneSessionIsSafe
    NothingLost
PROPERTIES
    CloseEndsPump
    HangUpEndsRange
\* Calls and events are bounded, so the instance runs out of work.
CHECK_DEADLOCK FALSE
