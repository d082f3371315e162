\* StartListening directly followed by Close.
CONSTANTS
    a = a
    b = b
    Callers <- OneCaller
    ChanCap = 1
    MaxConnects = 1
    MaxStarts = 1
    MaxStops = 0
    MaxCloses = 1
    MaxEvents = 1
SPECIFICATION Spec
INVARIANT PumpFindsResponse
\* Calls and events are bounded, so the instance runs out of work.
CHECK_DEADLOCK FALSE
