------------------------------ MODULE Sessions ------------------------------
(***************************************************************************)
(* Who a request is served as: session tokens, API keys and passwords      *)
(* (server/auth.go, tokenStore in server/hub.go, the api_keys and users    *)
(* tables, and the handlers that change them).                             *)
(*                                                                         *)
(* A request passes authMiddleware in two steps, ValidateToken and         *)
(* IsUserAdmin, which fill in its context; then its handler runs on that   *)
(* context, however long it takes.  Each lookup, insert, update and delete *)
(* is one statement on its own connection, and each use of the token map   *)
(* is under its mutex, so each of them is a step.                          *)
(*                                                                         *)
(* Tokens and keys are random and made once; a key stands for its hash.    *)
(* What starts with "gk_" is taken for a key, and the alphabet of tokens   *)
(* lets one token in 64^3 start so.                                        *)
(* The users in Registered have registered, Admin as the first of them     *)
(* (module Registration); registrations and logouts, which only clear a    *)
(* cookie, are left out.  A handler that is refused or only reads replies. *)
(***************************************************************************)
EXTENDS Integers, FiniteSets

CONSTANTS
    Users,        \* user names
    Registered,   \* those who have registered, with a password
    Admin,        \* the one of them with is_admin = 1
    Passwords,
    Keys,         \* API keys
    Tokens,       \* session tokens
    KeyLike,      \* those of them that happen to start with "gk_", as keys do
    Requests,     \* requests being served; each may be followed by another
    MaxCrashes,   \* bound: how often the process dies
    NoUser,       \* the empty user id
    NoPassword,   \* password_hash IS NULL
    NoCredential  \* a request without a token

ASSUME UsersAssumption      == Registered \subseteq Users /\ Admin \in Registered
ASSUME NoneAssumption       == NoUser \notin Users /\ NoPassword \notin Passwords
ASSUME CredentialAssumption ==
    Keys \cap Tokens = {} /\ KeyLike \subseteq Tokens /\ NoCredential \notin Keys \cup Tokens
ASSUME CrashAssumption      == MaxCrashes \in Nat

VARIABLES
    users,     \* users: names with a row
    password,  \* users.password_hash
    apiKeys,   \* api_keys: keys with a row
    tokens,    \* tokenStore.tokens: tokens with an entry
    expired,   \* tokens whose Expiry has passed
    ownerOf,   \* the user a key or token was made for, NoUser before
    crashes,
    pc,        \* where each request is
    cred,      \* the key or token it carries
    user,      \* userID of its context; while it logs in, the name given
    isAdmin,   \* isAdmin of its context
    begunDead  \* history: its credential was no longer, or never, valid as it came

dbVars   == <<users, password, apiKeys>>
memVars  == <<tokens, expired>>
credVars == <<ownerOf, crashes>>
reqVars  == <<pc, cred, user, isAdmin, begunDead>>
vars     == <<dbVars, memVars, credVars, reqVars>>

Credentials == Keys \cup Tokens

(* Where a request is: in the middleware, in its handler, between the two  *)
(* statements of ChangePassword or of a login, or a live event stream.     *)
Served == {"serving", "verified", "streaming"}
PCs    == {"idle", "arrived", "known", "login"} \cup Served

(* What the server accepts at this moment.                                 *)
Valid(c) == c \in apiKeys \cup (tokens \ (expired \cup KeyLike))

-----------------------------------------------------------------------------
(* Mutated forms of definitions below: bugs this code could have.          *)

(* The expired entry is deleted and accepted one last time.                *)
ValidateToken_ExpiredOnce(r) ==
    /\ pc[r] = "arrived"
    /\ tokens' = tokens \ (({cred[r]} \cap expired) \ KeyLike)
    /\ IF cred[r] \in apiKeys \cup (tokens \ KeyLike)
         THEN user' = [user EXCEPT ![r] = ownerOf[cred[r]]]
              /\ pc' = [pc EXCEPT ![r] = "known"]
         ELSE pc' = [pc EXCEPT ![r] = "serving"] /\ UNCHANGED user
    /\ UNCHANGED <<dbVars, expired, credVars, cred, isAdmin, begunDead>>

(* A row without a password hash accepts any password.                     *)
VerifyUser_NullMatches(u, p) == u \in users /\ password[u] \in {p, NoPassword}

(* CreateAPIKey's four strings are passed in the wrong order.              *)
AdminCreateAPIKey_Swapped(r, k, u) ==
    /\ pc[r] = "serving" /\ isAdmin[r]
    /\ ownerOf[k] = NoUser
    /\ apiKeys' = apiKeys \cup {k}
    /\ ownerOf' = [ownerOf EXCEPT ![k] = k]
    /\ pc' = [pc EXCEPT ![r] = "idle"]
    /\ UNCHANGED <<users, password, memVars, crashes, cred, user, isAdmin, begunDead>>

-----------------------------------------------------------------------------
Init ==
    /\ users = Registered
    /\ \E given \in [Registered -> Passwords] :
         password = [u \in Users |-> IF u \in Registered THEN given[u] ELSE NoPassword]
    /\ apiKeys = {} /\ tokens = {} /\ expired = {}
    /\ ownerOf   = [c \in Credentials |-> NoUser]
    /\ crashes   = 0
    /\ pc        = [r \in Requests |-> "idle"]
    /\ cred      = [r \in Requests |-> NoCredential]
    /\ user      = [r \in Requests |-> NoUser]
    /\ isAdmin   = [r \in Requests |-> FALSE]
    /\ begunDead = [r \in Requests |-> FALSE]

-----------------------------------------------------------------------------
(* authMiddleware.                                                         *)

(* A request comes with a credential its sender holds, or with none.       *)
ExtractToken(r, c) ==
    /\ pc[r] = "idle"
    /\ c # NoCredential => ownerOf[c] # NoUser
    /\ cred'      = [cred EXCEPT ![r] = c]
    /\ user'      = [user EXCEPT ![r] = NoUser]
    /\ isAdmin'   = [isAdmin EXCEPT ![r] = FALSE]
    /\ begunDead' = [begunDead EXCEPT ![r] = ~Valid(c)]
    /\ pc' = [pc EXCEPT ![r] = IF c = NoCredential THEN "serving" ELSE "arrived"]
    /\ UNCHANGED <<dbVars, memVars, credVars>>

(* What looks like a key is looked up in the database, the rest in the     *)
(* map; an expired entry is deleted.                                       *)
ValidateToken(r) ==
    /\ pc[r] = "arrived"
    /\ tokens' = tokens \ (({cred[r]} \cap expired) \ KeyLike)
    /\ IF Valid(cred[r])
         THEN user' = [user EXCEPT ![r] = ownerOf[cred[r]]]
              /\ pc' = [pc EXCEPT ![r] = "known"]
         ELSE pc' = [pc EXCEPT ![r] = "serving"] /\ UNCHANGED user
    /\ UNCHANGED <<dbVars, expired, credVars, cred, isAdmin, begunDead>>

(* The lookup of a key fails: the request is not authenticated.            *)
ValidateTokenFails(r) ==
    /\ pc[r] = "arrived"
    /\ cred[r] \in Keys \cup KeyLike
    /\ pc' = [pc EXCEPT ![r] = "serving"]
    /\ UNCHANGED <<dbVars, memVars, credVars, cred, user, isAdmin, begunDead>>

(* isAdmin, _ = store.IsUserAdmin(userID): false if the lookup fails.      *)
IsUserAdmin(r) ==
    /\ pc[r] = "known"
    /\ \E failed \in BOOLEAN :
         isAdmin' = [isAdmin EXCEPT ![r] = user[r] = Admin /\ ~failed]
    /\ pc' = [pc EXCEPT ![r] = "serving"]
    /\ UNCHANGED <<dbVars, memVars, credVars, cred, user, begunDead>>

-----------------------------------------------------------------------------
(* The handlers.                                                           *)

(* The password matches the row's hash; without row or hash none does.     *)
VerifyUser(u, p) == u \in users /\ password[u] = p

(* A handler that changes nothing, or fails, answers; a stream ends.       *)
Reply(r) ==
    /\ pc[r] \in {"login"} \cup Served
    /\ pc' = [pc EXCEPT ![r] = "idle"]
    /\ UNCHANGED <<dbVars, memVars, credVars, cred, user, isAdmin, begunDead>>

(* LoginUser and handleLoginSubmit, which need no context ...              *)
LoginUser(r, u, p) ==
    /\ pc[r] = "serving"
    /\ VerifyUser(u, p)
    /\ user' = [user EXCEPT ![r] = u]
    /\ pc'   = [pc EXCEPT ![r] = "login"]
    /\ UNCHANGED <<dbVars, memVars, credVars, cred, isAdmin, begunDead>>

(* ... enter a fresh token for the name that was verified.                 *)
GenerateToken(r, t) ==
    /\ pc[r] = "login"
    /\ ownerOf[t] = NoUser
    /\ tokens'  = tokens \cup {t}
    /\ ownerOf' = [ownerOf EXCEPT ![t] = user[r]]
    /\ pc' = [pc EXCEPT ![r] = "idle"]
    /\ UNCHANGED <<dbVars, expired, crashes, cred, user, isAdmin, begunDead>>

(* ChangePassword: the current password is verified ...                    *)
ChangePassword(r, p) ==
    /\ pc[r] = "serving"
    /\ user[r] # NoUser
    /\ VerifyUser(user[r], p)
    /\ pc' = [pc EXCEPT ![r] = "verified"]
    /\ UNCHANGED <<dbVars, memVars, credVars, cred, user, isAdmin, begunDead>>

(* ... and the new one is stored by a statement of its own.                *)
UpdatePassword(r, p) ==
    /\ pc[r] = "verified"
    /\ password' = [password EXCEPT ![user[r]] = p]
    /\ pc' = [pc EXCEPT ![r] = "idle"]
    /\ UNCHANGED <<users, apiKeys, memVars, credVars, cred, user, isAdmin, begunDead>>

(* AdminCreateUser: a row without a password hash; the primary key refuses *)
(* a name that has a row.                                                  *)
AdminCreateUser(r, u) ==
    /\ pc[r] = "serving" /\ isAdmin[r]
    /\ u \notin users
    /\ users' = users \cup {u}
    /\ pc' = [pc EXCEPT ![r] = "idle"]
    /\ UNCHANGED <<password, apiKeys, memVars, credVars, cred, user, isAdmin,
                   begunDead>>

(* AdminCreateAPIKey, for any name: SQLite is not told to enforce the      *)
(* foreign key.                                                            *)
AdminCreateAPIKey(r, k, u) ==
    /\ pc[r] = "serving" /\ isAdmin[r]
    /\ ownerOf[k] = NoUser
    /\ apiKeys' = apiKeys \cup {k}
    /\ ownerOf' = [ownerOf EXCEPT ![k] = u]
    /\ pc' = [pc EXCEPT ![r] = "idle"]
    /\ UNCHANGED <<users, password, memVars, crashes, cred, user, isAdmin, begunDead>>

(* AdminRevokeAPIKey deletes the row; a row that is gone is no error.      *)
AdminRevokeAPIKey(r, k) ==
    /\ pc[r] = "serving" /\ isAdmin[r]
    /\ ownerOf[k] # NoUser
    /\ apiKeys' = apiKeys \ {k}
    /\ pc' = [pc EXCEPT ![r] = "idle"]
    /\ UNCHANGED <<users, password, memVars, credVars, cred, user, isAdmin, begunDead>>

(* HandleSSEStream keeps the context for as long as the stream lasts.      *)
HandleSSEStream(r) ==
    /\ pc[r] = "serving"
    /\ user[r] # NoUser
    /\ pc' = [pc EXCEPT ![r] = "streaming"]
    /\ UNCHANGED <<dbVars, memVars, credVars, cred, user, isAdmin, begunDead>>

-----------------------------------------------------------------------------
(* Time, and a crash followed by a restart: the database stays, the token  *)
(* map and the requests do not.                                            *)

Expire(t) ==
    /\ t \in tokens \ expired
    /\ expired' = expired \cup {t}
    /\ UNCHANGED <<dbVars, tokens, credVars, reqVars>>

Crash ==
    /\ crashes < MaxCrashes
    /\ crashes' = crashes + 1
    /\ tokens'  = {}
    /\ pc'      = [r \in Requests |-> "idle"]
    /\ UNCHANGED <<dbVars, expired, ownerOf, cred, user, isAdmin, begunDead>>

-----------------------------------------------------------------------------
Middleware(r) ==
    \/ \E c \in Credentials \cup {NoCredential} : ExtractToken(r, c)
    \/ ValidateToken(r) \/ ValidateTokenFails(r) \/ IsUserAdmin(r)

Handler(r) ==
    \/ Reply(r) \/ HandleSSEStream(r)
    \/ \E u \in Users, p \in Passwords : LoginUser(r, u, p)
    \/ \E t \in Tokens : GenerateToken(r, t)
    \/ \E p \in Passwords : ChangePassword(r, p) \/ UpdatePassword(r, p)
    \/ \E u \in Users : AdminCreateUser(r, u)
    \/ \E k \in Keys : AdminRevokeAPIKey(r, k) \/ \E u \in Users : AdminCreateAPIKey(r, k, u)

Next ==
    \/ \E r \in Requests : Middleware(r) \/ Handler(r)
    \/ \E t \in Tokens : Expire(t)
    \/ Crash

Spec == Init /\ [][Next]_vars

-----------------------------------------------------------------------------
(* Safety.                                                                 *)

(* Every variable has its type.                                            *)
TypeOK ==
    /\ users \subseteq Users
    /\ password \in [Users -> Passwords \cup {NoPassword}]
    /\ apiKeys \subseteq Keys
    /\ tokens \subseteq Tokens /\ expired \subseteq Tokens
    /\ ownerOf \in [Credentials -> Users \cup {NoUser}]
    /\ crashes \in 0..MaxCrashes
    /\ pc \in [Requests -> PCs]
    /\ cred \in [Requests -> Credentials \cup {NoCredential}]
    /\ user \in [Requests -> Users \cup {NoUser}]
    /\ isAdmin \in [Requests -> BOOLEAN]
    /\ begunDead \in [Requests -> BOOLEAN]

(* A request is served as a user exactly on the strength of its credential *)
(* at the time it is served: nobody is served with a key revoked, or a     *)
(* token expired or issued by an earlier process, before the request came; *)
(* and a token that is valid to the end and not taken for a key is not     *)
(* refused, though expiries, revocations and other requests go on.         *)
CredentialDecides ==
    \A r \in Requests :
        pc[r] \in {"known"} \cup Served =>
            /\ user[r] # NoUser => ~begunDead[r] /\ user[r] = ownerOf[cred[r]]
            /\ cred[r] \in tokens \ (expired \cup KeyLike) => user[r] = ownerOf[cred[r]]

(* A user an admin has made has no password and is let in by API keys      *)
(* only: no login, no password change and no restart ever makes a session  *)
(* for, or gives a password to, such a user.                               *)
PasswordlessUseKeys ==
    \A u \in Users \ Registered :
        /\ password[u] = NoPassword
        /\ \A t \in Tokens : ownerOf[t] # u
=============================================================================
