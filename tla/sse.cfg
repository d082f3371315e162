\* The listener div of the chat page with one more element inside that reacts to
\* the stream; the server refuses or drops up to four connections.
CONSTANTS
    listener = listener
    child = child
    s1 = s1
    s2 = s2
    NoElement = NoElement
    NoSource = NoSource
    Elements <- Page
    Parent <- TheParent
    Connects <- TheSource
    Swappers <- Page
    Triggers <- TheChild
    Closers <- TheSource
    Slots <- TwoSlots
    RetryCap = 4
    MaxMessages = 3
    MaxFaults = 4
SPECIFICATION FairSpec
INVARIANTS
    OneConnection
    ListensOnce
    PageShowsStream
PROPERTIES
    FirstEventEndsOrphan
    StreamComesBack
\* The page may be left alone for ever: messages and faults are bounded.
CHECK_DEADLOCK FALSE
