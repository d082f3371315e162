\* Three elements that come in by up to three swaps in any order.
CONSTANTS
    x = x
    y = y
    z = z
    Root = Root
    Nowhere = Nowhere
    Nodes <- ThreeNodes
    Mixes <- SomeMixes
    MaxSwaps = 3
    MaxClicks = 2
SPECIFICATION FairSpec
INVARIANTS
    SettledContentWorks
    NothingTwice
PROPERTIES
    RemovedGoesQuiet
\* Swaps and events are bounded, so the instance runs out of work.
CHECK_DEADLOCK FALSE
