---------------------------- MODULE Registration ----------------------------
(***************************************************************************)
(* Registration by invite code: Store.RegisterWithInvite                   *)
(* (server/storage/sqlite.go) under the two handlers that call it          *)
(* (apiImpl.RegisterUser and handleRegisterSubmit), the operations that    *)
(* create invites, users and sessions beside it, and the cold start of the *)
(* server, over a database file that survives a crash.                     *)
(*                                                                         *)
(* RegisterWithInvite is one transaction of four statements, each request  *)
(* on a pooled connection of its own.  The model keeps every statement a   *)
(* step of its own; what other connections may do between two of them is   *)
(* decided by SQLite's rollback-journal locks:                             *)
(*   - SELECT takes SHARED and the transaction keeps it to its end;        *)
(*   - UPDATE takes RESERVED, which one connection holds at a time; a      *)
(*     transaction that already holds SHARED is refused at once (BUSY)     *)
(*     rather than made to wait;                                           *)
(*   - COMMIT takes PENDING, which keeps new readers out, waits for the    *)
(*     other SHARED locks to go and only then changes the file;            *)
(*   - a statement outside a transaction takes and drops its locks in one  *)
(*     step.                                                               *)
(* Uncommitted changes are invisible to others, so they appear in the      *)
(* model's tables at the commit.                                           *)
(***************************************************************************)
EXTENDS Integers, FiniteSets

CONSTANTS
    Users,      \* user names
    Codes,      \* invite codes
    Requests,   \* registration requests, each made once
    EnvCode,    \* GRUNT_INITIAL_INVITE, or NoCode when it is not set
    MaxCrashes, \* bound: how often the process dies
    NoUser,
    NoCode

ASSUME NamesAssumption == NoUser \notin Users /\ NoCode \notin Codes
ASSUME EnvAssumption   == EnvCode \in Codes \cup {NoCode}
ASSUME CrashAssumption == MaxCrashes \in Nat

VARIABLES
    server,     \* "down", "up", or "exited" after os.Exit(1) at start
    crashes,    \* number of crashes so far
    created,    \* invites: codes with a row
    expired,    \* invites: codes whose expires_at has passed
    usedBy,     \* invites: used_by_user, NoUser while used_at IS NULL
    users,      \* users: names with a row
    noPassword, \* users: rows whose password_hash is NULL
    admins,     \* users: rows with is_admin = 1
    sessions,   \* users holding a session token (memory only)
    pc,         \* where each registration request is
    user,       \* the request's user name
    code,       \* the request's invite code
    web,        \* the request came from the login page, not from the API
    first       \* history: the first user ever stored

dbVars  == <<created, expired, usedBy, users, noPassword, admins, first>>
reqVars == <<pc, user, code, web>>
vars    == <<server, crashes, dbVars, sessions, reqVars>>

(* Where a request is: in the transaction, after its commit, or answered.  *)
InTx      == {"selected", "updated", "inserted"}
Committed == {"committed", "granting", "finishing", "created"}
Answered  == {"created", "conflict", "refused", "lost"}
PCs       == {"idle"} \cup InTx \cup Committed \cup Answered

-----------------------------------------------------------------------------
(* Mutated forms of definitions below: bugs this code could have.  They    *)
(* are no part of the specification; PROJECT.json pairs each of them with  *)
(* the property it violates.                                               *)

(* The SELECT is issued on s.db instead of on the transaction.             *)
HoldsShared_SelectOutsideTx(r) == pc[r] \in {"updated", "inserted"}

(* The deferred tx.Rollback() is missing.                                  *)
HoldsShared_NoRollback(r) == pc[r] \in InTx \cup {"conflict", "refused"}

(* The user is created and the invite stays unused.                        *)
TxCommit_InviteNotMarked(r) ==
    /\ pc[r] = "inserted"
    /\ \A q \in Requests : q # r => pc[q] \notin InTx
    /\ users' = users \cup {user[r]}
    /\ first' = IF users = {} THEN user[r] ELSE first
    /\ pc'    = [pc EXCEPT ![r] = "committed"]
    /\ UNCHANGED <<server, crashes, created, expired, usedBy, noPassword,
                   admins, sessions, user, code, web>>

(* Every registered user is made an admin.                                 *)
CreateUserCount_AnyCount(r) ==
    /\ pc[r] = "committed"
    /\ pc' = [pc EXCEPT ![r] = "granting"]
    /\ UNCHANGED <<server, crashes, dbVars, sessions, user, code, web>>

-----------------------------------------------------------------------------
Init ==
    /\ server     = "down"
    /\ crashes    = 0
    /\ created    = {}
    /\ expired    = {}
    /\ usedBy     = [c \in Codes |-> NoUser]
    /\ users      = {}
    /\ noPassword = {}
    /\ admins     = {}
    /\ sessions   = {}
    /\ pc         = [r \in Requests |-> "idle"]
    /\ user       = [r \in Requests |-> NoUser]
    /\ code       = [r \in Requests |-> NoCode]
    /\ web        = [r \in Requests |-> FALSE]
    /\ first      = NoUser

-----------------------------------------------------------------------------
(* SQLite's locks, as a function of where the transactions are.            *)

(* The transaction of r holds its SHARED lock until commit or rollback.    *)
HoldsShared(r) == pc[r] \in InTx

HoldsReserved(r) == pc[r] \in {"updated", "inserted"}

HoldsPending(r) == pc[r] = "inserted"

(* A reader may take SHARED; a single writing statement may run to its     *)
(* own commit.                                                             *)
CanRead  == \A q \in Requests : ~HoldsPending(q)
CanWrite == \A q \in Requests : ~HoldsShared(q)

-----------------------------------------------------------------------------
(* NewWithPort: with no users an initial invite is created, from the       *)
(* environment or from fresh random bytes; a failure to insert it ends the *)
(* process.                                                                *)
Start ==
    /\ server \in {"down", "exited"}
    /\ IF users # {}
         THEN server' = "up" /\ UNCHANGED created
         ELSE \E c \in Codes :
                /\ IF EnvCode # NoCode THEN c = EnvCode ELSE c \notin created
                /\ server'  = IF c \in created THEN "exited" ELSE "up"
                /\ created' = created \cup {c}
    /\ UNCHANGED <<crashes, expired, usedBy, users, noPassword, admins, first,
                   sessions, reqVars>>

(* The process dies, or exits on SIGTERM without waiting for handlers (see *)
(* Server.Serve): requests and sessions are gone, open transactions roll   *)
(* back.                                                                   *)
Crash ==
    /\ server = "up"
    /\ crashes < MaxCrashes
    /\ crashes'  = crashes + 1
    /\ server'   = "down"
    /\ sessions' = {}
    /\ pc' = [r \in Requests |->
                IF pc[r] \in {"idle"} \cup Answered THEN pc[r] ELSE "lost"]
    /\ UNCHANGED <<dbVars, user, code, web>>

(* Ten minutes after its creation an invite has expired.                   *)
Expire(c) ==
    /\ c \in created \ expired
    /\ expired' = expired \cup {c}
    /\ UNCHANGED <<server, crashes, created, usedBy, users, noPassword, admins,
                   first, sessions, reqVars>>

-----------------------------------------------------------------------------
(* RegisterWithInvite.                                                     *)

(* A well-formed request begins its transaction and looks its code up: it  *)
(* must exist, be unused and not have expired.                             *)
TxSelect(r, u, c, w) ==
    /\ server = "up"
    /\ pc[r] = "idle"
    /\ CanRead
    /\ user' = [user EXCEPT ![r] = u]
    /\ code' = [code EXCEPT ![r] = c]
    /\ web'  = [web EXCEPT ![r] = w]
    /\ pc'   = [pc EXCEPT ![r] =
                 IF c \in created \ expired /\ usedBy[c] = NoUser
                   THEN "selected" ELSE "refused"]
    /\ UNCHANGED <<server, crashes, dbVars, sessions>>

(* UPDATE ... WHERE used_at IS NULL must affect exactly one row.           *)
TxUpdate(r) ==
    /\ pc[r] = "selected"
    /\ \A q \in Requests : ~HoldsReserved(q)
    /\ pc' = [pc EXCEPT ![r] =
                IF usedBy[code[r]] = NoUser THEN "updated" ELSE "refused"]
    /\ UNCHANGED <<server, crashes, dbVars, sessions, user, code, web>>

(* The UPDATE of a transaction that lost the race for RESERVED fails.      *)
TxBusy(r) ==
    /\ pc[r] = "selected"
    /\ \E q \in Requests : HoldsReserved(q)
    /\ pc' = [pc EXCEPT ![r] = "refused"]
    /\ UNCHANGED <<server, crashes, dbVars, sessions, user, code, web>>

(* INSERT INTO users; the primary key refuses a name that exists, and the  *)
(* rollback frees the invite again.                                        *)
TxInsert(r) ==
    /\ pc[r] = "updated"
    /\ pc' = [pc EXCEPT ![r] = IF user[r] \in users THEN "conflict" ELSE "inserted"]
    /\ UNCHANGED <<server, crashes, dbVars, sessions, user, code, web>>

(* The commit makes the used invite and the new user visible together.     *)
TxCommit(r) ==
    /\ pc[r] = "inserted"
    /\ \A q \in Requests : q # r => ~HoldsShared(q)
    /\ usedBy' = [usedBy EXCEPT ![code[r]] = user[r]]
    /\ users'  = users \cup {user[r]}
    /\ first'  = IF users = {} THEN user[r] ELSE first
    /\ pc'     = [pc EXCEPT ![r] = "committed"]
    /\ UNCHANGED <<server, crashes, created, expired, noPassword, admins,
                   sessions, user, code, web>>

(* Any statement, the hashing of the password (over 72 bytes) or the       *)
(* commit returns an error: rollback.  A single writing statement of       *)
(* another connection that has RESERVED is one of the causes.              *)
TxFail(r) ==
    /\ pc[r] \in InTx
    /\ pc' = [pc EXCEPT ![r] = "refused"]
    /\ UNCHANGED <<server, crashes, dbVars, sessions, user, code, web>>

-----------------------------------------------------------------------------
(* The rest of RegisterUser and handleRegisterSubmit: separate statements, *)
(* after the commit.                                                       *)

(* userCount == 1 makes this user the one to be granted admin.             *)
CreateUserCount(r) ==
    /\ pc[r] = "committed"
    /\ CanRead
    /\ pc' = [pc EXCEPT ![r] =
                IF Cardinality(users) = 1 THEN "granting" ELSE "finishing"]
    /\ UNCHANGED <<server, crashes, dbVars, sessions, user, code, web>>

SetUserAdmin(r) ==
    /\ pc[r] = "granting"
    /\ CanWrite
    /\ admins' = admins \cup {user[r]}
    /\ pc'     = [pc EXCEPT ![r] = "finishing"]
    /\ UNCHANGED <<server, crashes, created, expired, usedBy, users, noPassword,
                   first, sessions, user, code, web>>

(* Either statement fails: it is logged at most and the handler goes on.   *)
GrantFails(r) ==
    /\ pc[r] \in {"committed", "granting"}
    /\ pc' = [pc EXCEPT ![r] = "finishing"]
    /\ UNCHANGED <<server, crashes, dbVars, sessions, user, code, web>>

(* The reply; the login page also logs the new user in.                    *)
Finish(r) ==
    /\ pc[r] = "finishing"
    /\ sessions' = IF web[r] THEN sessions \cup {user[r]} ELSE sessions
    /\ pc' = [pc EXCEPT ![r] = "created"]
    /\ UNCHANGED <<server, crashes, dbVars, user, code, web>>

-----------------------------------------------------------------------------
(* Operations beside registration.  The end of a session only disables     *)
(* them and is not modelled.                                               *)

(* LoginUser and handleLoginSubmit with the right password; a row without  *)
(* a password hash is refused.                                             *)
LoginUser(u) ==
    /\ server = "up"
    /\ CanRead
    /\ u \in users \ noPassword
    /\ sessions' = sessions \cup {u}
    /\ UNCHANGED <<server, crashes, dbVars, reqVars>>

(* GetInvite by a logged-in user: a fresh random code.                     *)
GetInvite(u, c) ==
    /\ server = "up"
    /\ CanWrite
    /\ u \in sessions
    /\ c \notin created
    /\ c # EnvCode
    /\ created' = created \cup {c}
    /\ UNCHANGED <<server, crashes, expired, usedBy, users, noPassword, admins,
                   first, sessions, reqVars>>

(* AdminCreateUser by a logged-in admin: a user without a password.        *)
AdminCreateUser(a, u) ==
    /\ server = "up"
    /\ CanWrite
    /\ a \in sessions \cap admins
    /\ u \notin users
    /\ users'      = users \cup {u}
    /\ noPassword' = noPassword \cup {u}
    /\ UNCHANGED <<server, crashes, created, expired, usedBy, admins, first,
                   sessions, reqVars>>

-----------------------------------------------------------------------------
(* What a request does by itself once its transaction has begun.           *)
RequestStep(r) ==
    \/ TxUpdate(r) \/ TxBusy(r) \/ TxInsert(r) \/ TxCommit(r)
    \/ CreateUserCount(r) \/ SetUserAdmin(r) \/ Finish(r)

Next ==
    \/ Start \/ Crash
    \/ \E c \in Codes : Expire(c)
    \/ \E r \in Requests :
         \/ \E u \in Users, c \in Codes, w \in BOOLEAN : TxSelect(r, u, c, w)
         \/ RequestStep(r) \/ TxFail(r) \/ GrantFails(r)
    \/ \E u \in Users : LoginUser(u)
    \/ \E u \in Users, c \in Codes : GetInvite(u, c)
    \/ \E a, u \in Users : AdminCreateUser(a, u)

Spec == Init /\ [][Next]_vars

(* Handlers run; a lock that is free is obtained.  Nothing is assumed of   *)
(* errors, crashes, restarts or new requests.                              *)
FairSpec == Spec /\ \A r \in Requests : WF_vars(RequestStep(r))

-----------------------------------------------------------------------------
(* Safety.                                                                 *)

(* Every variable has its type; admins and session holders are users.      *)
TypeOK ==
    /\ server \in {"down", "up", "exited"}
    /\ crashes \in 0..MaxCrashes
    /\ created \subseteq Codes
    /\ expired \subseteq created
    /\ usedBy \in [Codes -> Users \cup {NoUser}]
    /\ users \subseteq Users
    /\ noPassword \subseteq users
    /\ admins \subseteq users
    /\ sessions \subseteq users
    /\ pc \in [Requests -> PCs]
    /\ user \in [Requests -> Users \cup {NoUser}]
    /\ code \in [Requests -> Codes \cup {NoCode}]
    /\ web \in [Requests -> BOOLEAN]
    /\ first \in Users \cup {NoUser}

(* Invites are single use and registration is all or nothing, over crashes *)
(* and restarts too: each used invite stands for one user with a password, *)
(* each such user for one used invite, and each request answered with      *)
(* success (or past its commit) owns the invite it named.                  *)
InviteLedger ==
    /\ \A c \in Codes : usedBy[c] # NoUser => usedBy[c] \in users \ noPassword
    /\ \A u \in users \ noPassword : \E c \in Codes : usedBy[c] = u
    /\ \A c, d \in Codes : usedBy[c] # NoUser /\ usedBy[c] = usedBy[d] => c = d
    /\ \A r \in Requests : pc[r] \in Committed => usedBy[code[r]] = user[r]

(* What a transaction has read stays true until it ends: the invite it     *)
(* found unused is unused, and the name it could insert is free, so the    *)
(* "already used" branch after the UPDATE is never taken.                  *)
SnapshotStable ==
    \A r \in Requests :
        /\ pc[r] \in InTx => usedBy[code[r]] = NoUser
        /\ pc[r] = "inserted" => user[r] \notin users

(* Registration makes at most one user an admin, and only the first user   *)
(* ever stored, however many requests race to be counted as user one.      *)
AdminIsFirst == admins \subseteq {first}

(* Once all requests have been answered, the first user is an admin.       *)
FirstUserIsAdmin ==
    (\A r \in Requests : pc[r] \in {"idle"} \cup Answered)
        => (users # {} => first \in admins)

(* With no users the server starts with an invite on offer, it does not    *)
(* exit.                                                                   *)
ColdStartSucceeds == server # "exited"

-----------------------------------------------------------------------------
(* Liveness, under FairSpec.                                               *)

(* Every registration that has begun is answered, or the server crashes:   *)
(* transactions that read the same tables and then all want to write       *)
(* never wait for each other for ever.                                     *)
RegistrationCompletes ==
    \A r \in Requests : pc[r] = "selected" ~> pc[r] \in Answered
=============================================================================
