\* GRUNT_INITIAL_INVITE is set and the server is restarted before anyone has
\* registered.
CONSTANTS
    u1 = u1
    u2 = u2
    c1 = c1
    c2 = c2
    r1 = r1
    r2 = r2
    NoUser = NoUser
    NoCode = NoCode
    Users <- TwoUsers
    Codes <- TwoCodes
    Requests <- TwoRequests
    EnvCode = c1
    MaxCrashes = 1
SPECIFICATION Spec
INVARIANT ColdStartSucceeds
\* Requests, codes and crashes are bounded, so the instance runs out of work.
CHECK_DEADLOCK FALSE
