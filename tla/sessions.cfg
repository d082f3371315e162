\* An admin, another registered user, one made by the admin, one API key and
\* two sessions, one of them with a token that looks like a key, over a restart.
CONSTANTS
    u1 = u1
    u2 = u2
    bot = bot
    p1 = p1
    p2 = p2
    k1 = k1
    t1 = t1
    t2 = t2
    r1 = r1
    r2 = r2
    NoUser = NoUser
    NoPassword = NoPassword
    NoCredential = NoCredential
    Users <- ThreeUsers
    Registered <- TwoUsers
    Admin = u1
    Passwords <- TwoPasswords
    Keys <- OneKey
    Tokens <- TwoTokens
    KeyLike <- OneToken
    Requests <- TwoRequests
    MaxCrashes = 1
SPECIFICATION Spec
SYMMETRY Symmetry
INVARIANTS
    TypeOK
    CredentialDecides
    PasswordlessUseKeys
