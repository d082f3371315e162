\* A page or grunt recv is opened while two users post.
CONSTANTS
    s1 = s1
    u1 = u1
    u2 = u2
    NoClient = NoClient
    Clients <- OneReader
    HtmlClients <- OneReader
    Senders <- TwoSenders
    MaxMessages = 3
    BroadcastCap = 1
    SendCap = 1
    HistoryLimit = 1
SPECIFICATION DeliverySpec
SYMMETRY SenderSymmetry
INVARIANTS
    RecvMissesNothing
    PageMissesOnlyWhileOpening
\* Connections and messages are bounded, so the instance runs out of work.
CHECK_DEADLOCK FALSE
