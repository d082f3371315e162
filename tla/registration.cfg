\* Two requests race for invites and names; one crash leaves two initial
\* invites valid at once.
CONSTANTS
    u1 = u1
    u2 = u2
    c1 = c1
    c2 = c2
    c3 = c3
    r1 = r1
    r2 = r2
    NoUser = NoUser
    NoCode = NoCode
    Users <- TwoUsers
    Codes <- ThreeCodes
    Requests <- TwoRequests
    EnvCode = NoCode
    MaxCrashes = 1
    Name = u1
    Invite = c1
SPECIFICATION SendSpec
INVARIANTS
    InviteLedger
    SnapshotStable
    AdminIsFirst
    RerunIsRefused
PROPERTY RegistrationCompletes
\* Requests, codes and crashes are bounded, so the instance runs out of work.
CHECK_DEADLOCK FALSE
