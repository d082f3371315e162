\* Three controls of a page: a is the composer, b may be refused, redirected or
\* fail, c always queues and may be turned away. a and b try the strategies of hx-sync.
CONSTANTS
    a = a
    b = b
    c = c
    Shared = shared
    Controls <- Page3
    Composers <- OnlyA
    Asking <- OnlyB
    Confirming <- OnlyC
    Leaving <- OnlyB
    Failing <- OnlyB
    Mixes <- SomeMixes
    MaxFires = 5
    MaxTexts = 2
SPECIFICATION Spec
INVARIANTS
    LockIsTheFlight
    NothingWaitsForNobody
    IndicatorCounts
    
    SentWhenCalm
\* Events and texts are bounded, so the instance runs out of work.
CHECK_DEADLOCK FALSE
