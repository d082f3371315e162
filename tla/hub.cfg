\* Up to two of three connections, two of them HTML, and two senders, within the
\* budget of MCHub.
CONSTANTS
    web = web
    web2 = web2
    api = api
    u1 = u1
    u2 = u2
    NoClient = NoClient
    Clients <- AllClients
    HtmlClients <- TwoWeb
    Senders <- TwoSenders
    MaxMessages = 2
    BroadcastCap = 1
    SendCap = 1
SPECIFICATION Spec
CONSTRAINT Budget
SYMMETRY WebSenderSymmetry
INVARIANTS
    TypeOK
    NoSendOnClosedChannel
    StreamMatchesLog
    PresenceFromEvents
    AckedIsBroadcast
    StreamOrder
    GroupingFollowsStream
PROPERTIES
    ImplementsTopic
\* The hub may be stopped, and connections and messages are bounded.
CHECK_DEADLOCK FALSE
