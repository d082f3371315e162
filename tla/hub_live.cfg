\* One reader and one sender, four messages: every channel gets full.
CONSTANTS
    web = web
    web2 = web2
    api = api
    u1 = u1
    u2 = u2
    NoClient = NoClient
    Clients <- OneWeb
    HtmlClients <- OneWeb
    Senders <- OneSender
    MaxMessages = 4
    BroadcastCap = 1
    SendCap = 1
SPECIFICATION FairSpec
PROPERTIES
    HubNeverBlocks
    DisconnectCompletes
    SendCompletes
    MessageReachesReader
    StreamOpens
\* The hub may be stopped, and connections and messages are bounded.
CHECK_DEADLOCK FALSE
