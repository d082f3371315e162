------------------------- MODULE RegistrationProofs -------------------------
(***************************************************************************)
(* Proofs about registration, for any sets of users, codes and concurrent  *)
(* requests and any number of crashes, and about the program of module     *)
(* Send run against it.                                                    *)
(***************************************************************************)
EXTENDS Send, FiniteSetTheorems, TLAPS

(* A request that is under way has a user name and a code.                 *)
RequestOK ==
    \A r \in Requests : pc[r] \in InTx \cup Committed => user[r] \in Users /\ code[r] \in Codes

(* The history variable is right, and a request that counted one user is   *)
(* the request of that first user.                                         *)
FirstOK ==
    /\ IsFiniteSet(users)
    /\ users # {} => first \in users
    /\ \A r \in Requests : pc[r] = "granting" => user[r] = first

(* InviteLedger alone is not inductive: a commit is only safe because the  *)
(* transaction's snapshot is still true (SnapshotStable).                  *)
IInv ==
    /\ TypeOK /\ RequestOK /\ SnapshotStable /\ InviteLedger
    /\ FirstOK /\ AdminIsFirst

-----------------------------------------------------------------------------
(* A finite set with one element that contains x is {x}: the user who      *)
(* reads userCount == 1 after its own commit is the only user.             *)
LEMMA OnlyOne ==
    ASSUME NEW S, IsFiniteSet(S), Cardinality(S) = 1, NEW x \in S, NEW y \in S
    PROVE  x = y
<1>1. PICK z : S = {z}
  BY FS_Singleton
<1> QED BY <1>1

-----------------------------------------------------------------------------
(* The initial state satisfies the inductive invariant.                    *)
LEMMA InitIInv == Init => IInv
<1> SUFFICES ASSUME Init PROVE IInv
  OBVIOUS
<1> USE NamesAssumption, EnvAssumption, CrashAssumption
<1>1. TypeOK
  BY DEF Init, TypeOK, PCs
<1>2. RequestOK /\ SnapshotStable /\ InviteLedger /\ AdminIsFirst
  BY DEF Init, RequestOK, SnapshotStable, InviteLedger, AdminIsFirst, InTx, Committed
<1>3. FirstOK
  BY FS_EmptySet DEF Init, FirstOK
<1> QED BY <1>1, <1>2, <1>3 DEF IInv

(* Every step preserves it.                                                *)
LEMMA NextIInv == IInv /\ [Next]_vars => IInv'
<1> SUFFICES ASSUME IInv, [Next]_vars PROVE IInv'
  OBVIOUS
<1> USE NamesAssumption, EnvAssumption, CrashAssumption
        DEF IInv, InTx, Committed, Answered, PCs
<1>1. CASE Start
  <2>1. TypeOK'
    BY <1>1 DEF TypeOK, Start, reqVars
  <2>2. RequestOK'
    BY <1>1 DEF TypeOK, RequestOK, Start, reqVars
  <2>3. SnapshotStable'
    BY <1>1 DEF TypeOK, SnapshotStable, Start, reqVars
  <2>4. InviteLedger'
    BY <1>1 DEF TypeOK, RequestOK, InviteLedger, Start, reqVars
  <2>5. FirstOK'
    BY <1>1 DEF TypeOK, FirstOK, Start, reqVars
  <2>6. AdminIsFirst'
    BY <1>1 DEF AdminIsFirst, Start, reqVars
  <2> QED BY <2>1, <2>2, <2>3, <2>4, <2>5, <2>6
<1>2. CASE Crash
  <2>1. TypeOK'
    BY <1>2 DEF TypeOK, Crash, dbVars
  <2>2. RequestOK'
    BY <1>2 DEF TypeOK, RequestOK, Crash, dbVars
  <2>3. SnapshotStable'
    BY <1>2 DEF TypeOK, SnapshotStable, Crash, dbVars
  <2>4. InviteLedger'
    BY <1>2 DEF TypeOK, RequestOK, InviteLedger, Crash, dbVars
  <2>5. FirstOK'
    BY <1>2 DEF TypeOK, FirstOK, Crash, dbVars
  <2>6. AdminIsFirst'
    BY <1>2 DEF AdminIsFirst, Crash, dbVars
  <2> QED BY <2>1, <2>2, <2>3, <2>4, <2>5, <2>6
<1>3. ASSUME NEW c \in Codes, Expire(c) PROVE IInv'
  <2>1. TypeOK'
    BY <1>3 DEF TypeOK, Expire, reqVars
  <2>2. RequestOK'
    BY <1>3 DEF TypeOK, RequestOK, Expire, reqVars
  <2>3. SnapshotStable'
    BY <1>3 DEF TypeOK, SnapshotStable, Expire, reqVars
  <2>4. InviteLedger'
    BY <1>3 DEF TypeOK, RequestOK, InviteLedger, Expire, reqVars
  <2>5. FirstOK'
    BY <1>3 DEF TypeOK, FirstOK, Expire, reqVars
  <2>6. AdminIsFirst'
    BY <1>3 DEF AdminIsFirst, Expire, reqVars
  <2> QED BY <2>1, <2>2, <2>3, <2>4, <2>5, <2>6
<1>4. ASSUME NEW r \in Requests, NEW u \in Users, NEW c \in Codes, NEW w \in BOOLEAN, TxSelect(r, u, c, w) PROVE IInv'
  <2>1. TypeOK'
    BY <1>4 DEF TypeOK, TxSelect, dbVars
  <2>2. RequestOK'
    BY <1>4 DEF TypeOK, RequestOK, TxSelect, dbVars
  <2>3. SnapshotStable'
    BY <1>4 DEF TypeOK, SnapshotStable, TxSelect, dbVars
  <2>4. InviteLedger'
    BY <1>4 DEF TypeOK, RequestOK, InviteLedger, TxSelect, dbVars
  <2>5. FirstOK'
    BY <1>4 DEF TypeOK, FirstOK, TxSelect, dbVars
  <2>6. AdminIsFirst'
    BY <1>4 DEF AdminIsFirst, TxSelect, dbVars
  <2> QED BY <2>1, <2>2, <2>3, <2>4, <2>5, <2>6
<1>5. ASSUME NEW r \in Requests, TxUpdate(r) PROVE IInv'
  <2>1. TypeOK'
    BY <1>5 DEF TypeOK, TxUpdate, dbVars
  <2>2. RequestOK'
    BY <1>5 DEF TypeOK, RequestOK, TxUpdate, dbVars
  <2>3. SnapshotStable'
    BY <1>5 DEF TypeOK, SnapshotStable, TxUpdate, dbVars
  <2>4. InviteLedger'
    BY <1>5 DEF TypeOK, RequestOK, InviteLedger, TxUpdate, dbVars
  <2>5. FirstOK'
    BY <1>5 DEF TypeOK, FirstOK, TxUpdate, dbVars
  <2>6. AdminIsFirst'
    BY <1>5 DEF AdminIsFirst, TxUpdate, dbVars
  <2> QED BY <2>1, <2>2, <2>3, <2>4, <2>5, <2>6
<1>6. ASSUME NEW r \in Requests, TxBusy(r) PROVE IInv'
  <2>1. TypeOK'
    BY <1>6 DEF TypeOK, TxBusy, dbVars
  <2>2. RequestOK'
    BY <1>6 DEF TypeOK, RequestOK, TxBusy, dbVars
  <2>3. SnapshotStable'
    BY <1>6 DEF TypeOK, SnapshotStable, TxBusy, dbVars
  <2>4. InviteLedger'
    BY <1>6 DEF TypeOK, RequestOK, InviteLedger, TxBusy, dbVars
  <2>5. FirstOK'
    BY <1>6 DEF TypeOK, FirstOK, TxBusy, dbVars
  <2>6. AdminIsFirst'
    BY <1>6 DEF AdminIsFirst, TxBusy, dbVars
  <2> QED BY <2>1, <2>2, <2>3, <2>4, <2>5, <2>6
<1>7. ASSUME NEW r \in Requests, TxInsert(r) PROVE IInv'
  <2>1. TypeOK'
    BY <1>7 DEF TypeOK, TxInsert, dbVars
  <2>2. RequestOK'
    BY <1>7 DEF TypeOK, RequestOK, TxInsert, dbVars
  <2>3. SnapshotStable'
    BY <1>7 DEF TypeOK, SnapshotStable, TxInsert, dbVars
  <2>4. InviteLedger'
    BY <1>7 DEF TypeOK, RequestOK, InviteLedger, TxInsert, dbVars
  <2>5. FirstOK'
    BY <1>7 DEF TypeOK, FirstOK, TxInsert, dbVars
  <2>6. AdminIsFirst'
    BY <1>7 DEF AdminIsFirst, TxInsert, dbVars
  <2> QED BY <2>1, <2>2, <2>3, <2>4, <2>5, <2>6
<1>8. ASSUME NEW r \in Requests, TxCommit(r) PROVE IInv'
  <2>1. TypeOK'
    BY <1>8 DEF TypeOK, RequestOK, InviteLedger, TxCommit
  <2>2. RequestOK'
    BY <1>8 DEF TypeOK, RequestOK, TxCommit
  <2>3. SnapshotStable'
    BY <1>8 DEF TypeOK, RequestOK, SnapshotStable, TxCommit, HoldsShared
  <2>4. InviteLedger'
    BY <1>8
       DEF TypeOK, RequestOK, SnapshotStable, InviteLedger, TxCommit,
           HoldsShared
  <2>5. FirstOK'
    BY <1>8, FS_AddElement
       DEF TypeOK, RequestOK, InviteLedger, FirstOK, TxCommit
  <2>6. AdminIsFirst'
    BY <1>8 DEF FirstOK, TypeOK, AdminIsFirst, TxCommit
  <2> QED BY <2>1, <2>2, <2>3, <2>4, <2>5, <2>6
<1>9. ASSUME NEW r \in Requests, CreateUserCount(r) PROVE IInv'
  <2>1. TypeOK'
    BY <1>9 DEF TypeOK, RequestOK, InviteLedger, CreateUserCount, dbVars
  <2>2. RequestOK'
    BY <1>9 DEF TypeOK, RequestOK, CreateUserCount, dbVars
  <2>3. SnapshotStable'
    BY <1>9 DEF TypeOK, SnapshotStable, CreateUserCount, dbVars
  <2>4. InviteLedger'
    BY <1>9 DEF TypeOK, RequestOK, InviteLedger, CreateUserCount, dbVars
  <2>5. FirstOK'
    <3>1. user[r] \in users
      BY <1>9 DEF CreateUserCount, TypeOK, RequestOK, InviteLedger
    <3>2. Cardinality(users) = 1 => user[r] = first
      BY <3>1, OnlyOne DEF FirstOK
    <3>3. \A q \in Requests : pc'[q] = "granting" => user[q] = first
      BY <1>9, <3>2 DEF CreateUserCount, TypeOK, FirstOK
    <3> QED
      BY <1>9, <3>3 DEF CreateUserCount, FirstOK, dbVars
  <2>6. AdminIsFirst'
    BY <1>9 DEF AdminIsFirst, CreateUserCount, dbVars
  <2> QED BY <2>1, <2>2, <2>3, <2>4, <2>5, <2>6
<1>10. ASSUME NEW r \in Requests, SetUserAdmin(r) PROVE IInv'
  <2>1. TypeOK'
    BY <1>10 DEF TypeOK, RequestOK, InviteLedger, SetUserAdmin
  <2>2. RequestOK'
    BY <1>10 DEF TypeOK, RequestOK, SetUserAdmin
  <2>3. SnapshotStable'
    BY <1>10 DEF TypeOK, SnapshotStable, SetUserAdmin, CanWrite, HoldsShared
  <2>4. InviteLedger'
    BY <1>10
       DEF TypeOK, RequestOK, InviteLedger, SetUserAdmin, CanWrite, HoldsShared
  <2>5. FirstOK'
    BY <1>10 DEF TypeOK, FirstOK, SetUserAdmin
  <2>6. AdminIsFirst'
    BY <1>10 DEF TypeOK, FirstOK, AdminIsFirst, SetUserAdmin
  <2> QED BY <2>1, <2>2, <2>3, <2>4, <2>5, <2>6
<1>11. ASSUME NEW r \in Requests, Finish(r) PROVE IInv'
  <2>1. TypeOK'
    BY <1>11 DEF TypeOK, RequestOK, InviteLedger, Finish, dbVars
  <2>2. RequestOK'
    BY <1>11 DEF TypeOK, RequestOK, Finish, dbVars
  <2>3. SnapshotStable'
    BY <1>11 DEF TypeOK, SnapshotStable, Finish, dbVars
  <2>4. InviteLedger'
    BY <1>11 DEF TypeOK, RequestOK, InviteLedger, Finish, dbVars
  <2>5. FirstOK'
    BY <1>11 DEF TypeOK, FirstOK, Finish, dbVars
  <2>6. AdminIsFirst'
    BY <1>11 DEF AdminIsFirst, Finish, dbVars
  <2> QED BY <2>1, <2>2, <2>3, <2>4, <2>5, <2>6
<1>12. ASSUME NEW r \in Requests, TxFail(r) PROVE IInv'
  <2>1. TypeOK'
    BY <1>12 DEF TypeOK, TxFail, dbVars
  <2>2. RequestOK'
    BY <1>12 DEF TypeOK, RequestOK, TxFail, dbVars
  <2>3. SnapshotStable'
    BY <1>12 DEF TypeOK, SnapshotStable, TxFail, dbVars
  <2>4. InviteLedger'
    BY <1>12 DEF TypeOK, RequestOK, InviteLedger, TxFail, dbVars
  <2>5. FirstOK'
    BY <1>12 DEF TypeOK, FirstOK, TxFail, dbVars
  <2>6. AdminIsFirst'
    BY <1>12 DEF AdminIsFirst, TxFail, dbVars
  <2> QED BY <2>1, <2>2, <2>3, <2>4, <2>5, <2>6
<1>13. ASSUME NEW r \in Requests, GrantFails(r) PROVE IInv'
  <2>1. TypeOK'
    BY <1>13 DEF TypeOK, GrantFails, dbVars
  <2>2. RequestOK'
    BY <1>13 DEF TypeOK, RequestOK, GrantFails, dbVars
  <2>3. SnapshotStable'
    BY <1>13 DEF TypeOK, SnapshotStable, GrantFails, dbVars
  <2>4. InviteLedger'
    BY <1>13 DEF TypeOK, RequestOK, InviteLedger, GrantFails, dbVars
  <2>5. FirstOK'
    BY <1>13 DEF TypeOK, FirstOK, GrantFails, dbVars
  <2>6. AdminIsFirst'
    BY <1>13 DEF AdminIsFirst, GrantFails, dbVars
  <2> QED BY <2>1, <2>2, <2>3, <2>4, <2>5, <2>6
<1>14. ASSUME NEW u \in Users, LoginUser(u) PROVE IInv'
  <2>1. TypeOK'
    BY <1>14 DEF TypeOK, LoginUser, dbVars, reqVars
  <2>2. RequestOK'
    BY <1>14 DEF TypeOK, RequestOK, LoginUser, dbVars, reqVars
  <2>3. SnapshotStable'
    BY <1>14 DEF TypeOK, SnapshotStable, LoginUser, dbVars, reqVars
  <2>4. InviteLedger'
    BY <1>14 DEF TypeOK, RequestOK, InviteLedger, LoginUser, dbVars, reqVars
  <2>5. FirstOK'
    BY <1>14 DEF TypeOK, FirstOK, LoginUser, dbVars, reqVars
  <2>6. AdminIsFirst'
    BY <1>14 DEF AdminIsFirst, LoginUser, dbVars, reqVars
  <2> QED BY <2>1, <2>2, <2>3, <2>4, <2>5, <2>6
<1>15. ASSUME NEW u \in Users, NEW c \in Codes, GetInvite(u, c) PROVE IInv'
  <2>1. TypeOK'
    BY <1>15 DEF TypeOK, GetInvite, reqVars
  <2>2. RequestOK'
    BY <1>15 DEF TypeOK, RequestOK, GetInvite, reqVars
  <2>3. SnapshotStable'
    BY <1>15 DEF TypeOK, SnapshotStable, GetInvite, reqVars
  <2>4. InviteLedger'
    BY <1>15 DEF TypeOK, RequestOK, InviteLedger, GetInvite, reqVars
  <2>5. FirstOK'
    BY <1>15 DEF TypeOK, FirstOK, GetInvite, reqVars
  <2>6. AdminIsFirst'
    BY <1>15 DEF AdminIsFirst, GetInvite, reqVars
  <2> QED BY <2>1, <2>2, <2>3, <2>4, <2>5, <2>6
<1>16. ASSUME NEW a \in Users, NEW u \in Users, AdminCreateUser(a, u) PROVE IInv'
  <2>1. TypeOK'
    BY <1>16 DEF TypeOK, AdminCreateUser, reqVars
  <2>2. RequestOK'
    BY <1>16 DEF TypeOK, RequestOK, AdminCreateUser, reqVars
  <2>3. SnapshotStable'
    BY <1>16
       DEF TypeOK, SnapshotStable, AdminCreateUser, reqVars, CanWrite,
           HoldsShared
  <2>4. InviteLedger'
    BY <1>16
       DEF TypeOK, RequestOK, InviteLedger, AdminCreateUser, reqVars, CanWrite,
           HoldsShared
  <2>5. FirstOK'
    BY <1>16, FS_AddElement
       DEF TypeOK, FirstOK, AdminIsFirst, AdminCreateUser, reqVars
  <2>6. AdminIsFirst'
    BY <1>16 DEF AdminIsFirst, AdminCreateUser, reqVars
  <2> QED BY <2>1, <2>2, <2>3, <2>4, <2>5, <2>6
<1>17. CASE UNCHANGED vars
  BY <1>17
     DEF TypeOK, RequestOK, SnapshotStable, InviteLedger, FirstOK, AdminIsFirst,
         vars, dbVars, reqVars
<1> QED
  BY <1>1, <1>2, <1>3, <1>4, <1>5, <1>6, <1>7, <1>8, <1>9, <1>10, <1>11, <1>12, <1>13, <1>14, <1>15, <1>16, <1>17
     DEF Next, RequestStep

(* Every reachable state satisfies the inductive invariant.                *)
THEOREM SpecIInv == Spec => []IInv
<1>1. Init => IInv
  BY InitIInv
<1>2. IInv /\ [Next]_vars => IInv'
  BY NextIInv
<1> QED
  BY <1>1, <1>2, PTL DEF Spec

(* Type correctness: admins, session holders and rows without a password   *)
(* are users, through any crash and restart.                               *)
THEOREM TypeCorrect == Spec => []TypeOK
<1>1. IInv => TypeOK
  BY DEF IInv
<1> QED
  BY <1>1, SpecIInv, PTL

(* RegisterWithInvite uses each invite for at most one user and creates no *)
(* user without using an invite, for any number of racing requests.        *)
THEOREM InvitesSingleUse == Spec => []InviteLedger
<1>1. IInv => InviteLedger
  BY DEF IInv
<1> QED
  BY <1>1, SpecIInv, PTL

(* What RegisterWithInvite's SELECT found holds until its transaction ends.*)
THEOREM SnapshotsHold == Spec => []SnapshotStable
<1>1. IInv => SnapshotStable
  BY DEF IInv
<1> QED
  BY <1>1, SpecIInv, PTL

(* The count that follows the commit in both handlers never makes anyone   *)
(* but the first user an admin.                                            *)
THEOREM OnlyFirstIsAdmin == Spec => []AdminIsFirst
<1>1. IInv => AdminIsFirst
  BY DEF IInv
<1> QED
  BY <1>1, SpecIInv, PTL

-----------------------------------------------------------------------------
(* The program run again with the same flags.                              *)

(* What a run knows of its own registration.                               *)
RunOK ==
    /\ program \in {"off", "registering", "login", "sendMessage"}
    /\ mine \in Requests
    /\ program # "off" =>
         pc[mine] # "idle" /\ user[mine] = Name /\ code[mine] = Invite

(* Only a run that registered the user itself, or one that found the name  *)
(* taken before the invite was used, goes on to log in.                    *)
PassOK ==
    /\ program = "registering" /\ pc[mine] = "conflict" => ~made /\ Name \in users
    /\ program \in {"login", "sendMessage"} =>
         \/ pc[mine] = "created"
         \/ pc[mine] = "conflict" /\ ~made /\ Name \in users

(* Nothing is posted before the user exists, and nothing before the run    *)
(* that registered the user has come to it.                                *)
PostOK ==
    /\ posted \in Nat
    /\ Name \notin users => posted = 0
    /\ program # "off" /\ pc[mine] \in Committed => posted = 0
    /\ made => posted <= 1

(* RerunIsRefused is not inductive: that the answer 409 cannot come after  *)
(* the invite was used rests on the transaction's snapshot (IInv).         *)
SInv ==
    /\ IInv /\ RunOK /\ PassOK /\ PostOK
    /\ made => usedBy[Invite] = Name

(* What a step of the server leaves a client of it: rows stay, a used      *)
(* invite stays used by the same user, and answers stay.                   *)
Keeps ==
    /\ users \subseteq users'
    /\ \A c \in Codes : usedBy[c] # NoUser => usedBy'[c] = usedBy[c]
    /\ \A r \in Requests : pc[r] # "idle" =>
         pc'[r] # "idle" /\ user'[r] = user[r] /\ code'[r] = code[r]
    /\ \A r \in Requests : pc[r] \in {"created", "conflict"} => pc'[r] = pc[r]
    /\ \A r \in Requests : pc'[r] \in Committed =>
         pc[r] \in Committed \/ Commits(r)
    /\ \A r \in Requests : pc'[r] = "conflict" =>
         \/ pc[r] = "conflict"
         \/ pc[r] = "updated" /\ user[r] \in users
    /\ \A r \in Requests : Commits(r) => usedBy'[code[r]] = user[r]

LEMMA ServerKeeps == IInv /\ ServerStep => Keeps
<1> SUFFICES ASSUME IInv, ServerStep PROVE Keeps
  OBVIOUS
<1> USE NamesAssumption
        DEF IInv, InTx, Committed, Answered, PCs, Keeps, Commits, TypeOK
<1>1. CASE Start
  BY <1>1 DEF Start, reqVars
<1>2. CASE Crash
  BY <1>2 DEF Crash, dbVars
<1>3. ASSUME NEW c \in Codes, Expire(c) PROVE Keeps
  BY <1>3 DEF Expire, reqVars
<1>4. ASSUME NEW r \in Requests, NEW u \in Users, NEW c \in Codes,
             TxSelect(r, u, c, TRUE)
      PROVE  Keeps
  BY <1>4 DEF TxSelect, dbVars
<1>5. ASSUME NEW r \in Requests, TxUpdate(r) PROVE Keeps
  BY <1>5 DEF TxUpdate, dbVars
<1>6. ASSUME NEW r \in Requests, TxBusy(r) PROVE Keeps
  BY <1>6 DEF TxBusy, dbVars
<1>7. ASSUME NEW r \in Requests, TxInsert(r) PROVE Keeps
  BY <1>7 DEF TxInsert, dbVars
<1>8. ASSUME NEW r \in Requests, TxCommit(r) PROVE Keeps
  BY <1>8 DEF TxCommit, RequestOK, SnapshotStable
<1>9. ASSUME NEW r \in Requests, CreateUserCount(r) PROVE Keeps
  BY <1>9 DEF CreateUserCount, dbVars
<1>10. ASSUME NEW r \in Requests, SetUserAdmin(r) PROVE Keeps
  BY <1>10 DEF SetUserAdmin
<1>11. ASSUME NEW r \in Requests, Finish(r) PROVE Keeps
  BY <1>11 DEF Finish, dbVars
<1>12. ASSUME NEW r \in Requests, TxFail(r) PROVE Keeps
  BY <1>12 DEF TxFail, dbVars
<1>13. ASSUME NEW r \in Requests, GrantFails(r) PROVE Keeps
  BY <1>13 DEF GrantFails, dbVars
<1>14. ASSUME NEW u \in Users, LoginUser(u) PROVE Keeps
  BY <1>14 DEF LoginUser, dbVars, reqVars
<1>15. ASSUME NEW u \in Users, NEW c \in Codes, GetInvite(u, c) PROVE Keeps
  BY <1>15 DEF GetInvite, reqVars
<1>16. ASSUME NEW a \in Users, NEW u \in Users, AdminCreateUser(a, u) PROVE Keeps
  BY <1>16 DEF AdminCreateUser, reqVars
<1> QED
  BY <1>1, <1>2, <1>3, <1>4, <1>5, <1>6, <1>7, <1>8, <1>9, <1>10, <1>11,
     <1>12, <1>13, <1>14, <1>15, <1>16
     DEF ServerStep, RequestStep

(* A step of the program or of the server is a step of the server or none. *)
LEMMA SendNextNext == [SendNext]_sendVars => [Next]_vars
<1>1. ASSUME NEW r \in Requests, Register(r) PROVE Next
  BY <1>1, FlagsAssumption DEF Register, Next
<1>2. ASSUME Login PROVE Next
  BY <1>2, FlagsAssumption DEF Login, Next
<1>3. ASSUME ServerStep PROVE Next
  BY <1>3 DEF ServerStep, Next
<1> QED
  BY <1>1, <1>2, <1>3
     DEF SendNext, Registered, SendMessage, Fails, sendVars

LEMMA SendInitSInv == SendInit => SInv
<1> SUFFICES ASSUME SendInit PROVE SInv
  OBVIOUS
<1>1. IInv
  BY InitIInv DEF SendInit
<1>2. RunOK /\ PassOK /\ PostOK
  BY DEF SendInit, RunOK, PassOK, PostOK
<1> QED
  BY <1>1, <1>2 DEF SInv, SendInit

LEMMA SendNextSInv == SInv /\ [SendNext]_sendVars => SInv'
<1> SUFFICES ASSUME SInv, [SendNext]_sendVars PROVE SInv'
  OBVIOUS
<1> USE FlagsAssumption, NamesAssumption
<1>1. IInv'
  BY SendNextNext, NextIInv DEF SInv
<1>2. made => Name \in users
  BY DEF SInv, IInv, InviteLedger, TypeOK
<1>3. ASSUME NEW r \in Requests, Register(r) PROVE SInv'
  <2>1. /\ mine' = r /\ program' = "registering" /\ program = "off"
        /\ user'[r] = Name /\ code'[r] = Invite
        /\ pc'[r] \in {"selected", "refused"}
        /\ UNCHANGED <<users, usedBy, posted, made>>
    BY <1>3 DEF Register, TxSelect, dbVars, SInv, IInv, TypeOK
  <2> QED
    BY <1>1, <2>1 DEF SInv, RunOK, PassOK, PostOK, Committed
<1>4. CASE Registered
  <2>1. RunOK' /\ PassOK' /\ PostOK'
    BY <1>4
       DEF Registered, SInv, RunOK, PassOK, PostOK, Committed, vars, dbVars, reqVars
  <2> QED
    BY <1>1, <1>4, <2>1 DEF SInv, Registered, vars, dbVars
<1>5. CASE Login
  <2>1. RunOK' /\ PassOK' /\ PostOK'
    BY <1>5
       DEF Login, LoginUser, SInv, RunOK, PassOK, PostOK, Committed, dbVars, reqVars
  <2> QED
    BY <1>1, <1>5, <2>1 DEF SInv, Login, LoginUser, dbVars
<1>6. CASE SendMessage
  <2>1. RunOK' /\ PassOK'
    BY <1>6 DEF SendMessage, SInv, RunOK, PassOK, vars, dbVars, reqVars
  <2>2. made => posted = 0
    BY <1>6 DEF SendMessage, SInv, PassOK, PostOK, Committed
  <2>3. Name \in users
    BY <1>6 DEF SendMessage, SInv, PassOK, RunOK, IInv, InviteLedger, TypeOK, Committed
  <2>4. PostOK'
    BY <1>6, <2>2, <2>3 DEF SendMessage, SInv, PostOK, vars, dbVars
  <2> QED
    BY <1>1, <1>6, <2>1, <2>4 DEF SInv, SendMessage, vars, dbVars
<1>7. CASE Fails
  <2>1. RunOK' /\ PassOK' /\ PostOK'
    BY <1>7 DEF Fails, SInv, RunOK, PassOK, PostOK, vars, dbVars, reqVars
  <2> QED
    BY <1>1, <1>7, <2>1 DEF SInv, Fails, vars, dbVars
<1>8. ASSUME ServerStep,
             made' = (made \/ \E r \in Requests :
                        Commits(r) /\ user[r] = Name /\ code[r] = Invite),
             UNCHANGED programVars
      PROVE  SInv'
  <2>1. Keeps
    BY <1>8, ServerKeeps DEF SInv
  <2>2. UNCHANGED <<program, mine, posted>>
    BY <1>8 DEF programVars
  <2>3. \A r \in Requests : Commits(r) => user[r] \notin users
    BY DEF Commits, SInv, IInv, SnapshotStable
  <2>4. made' => usedBy'[Invite] = Name
    BY <1>8, <2>1 DEF Keeps, SInv
  <2>5. RunOK'
    BY <2>1, <2>2 DEF Keeps, SInv, RunOK
  <2>6. Name \in users /\ made' => made
    BY <1>8, <2>3 DEF SInv
  <2>7. program = "registering" /\ pc'[mine] = "conflict" => ~made /\ Name \in users
    BY <2>1 DEF Keeps, SInv, RunOK, PassOK, IInv, SnapshotStable, InTx
  <2>8. PassOK'
    BY <2>1, <2>2, <2>6, <2>7 DEF Keeps, SInv, RunOK, PassOK
  <2>9. Name \notin users' => posted = 0
    BY <2>1 DEF Keeps, SInv, PostOK
  <2>10. program # "off" /\ pc'[mine] \in Committed => posted = 0
    BY <2>1, <2>3 DEF Keeps, SInv, RunOK, PostOK
  <2>11. made' => made \/ posted = 0
    BY <2>6 DEF SInv, PostOK
  <2>12. PostOK'
    BY <2>2, <2>9, <2>10, <2>11 DEF SInv, PostOK
  <2> QED
    BY <1>1, <2>4, <2>5, <2>8, <2>12 DEF SInv
<1>9. CASE UNCHANGED sendVars
  BY <1>1, <1>9
     DEF SInv, RunOK, PassOK, PostOK, sendVars, programVars, vars, dbVars, reqVars
<1> QED
  BY <1>3, <1>4, <1>5, <1>6, <1>7, <1>8, <1>9 DEF SendNext

(* deno-client/send.ts, run any number of times with the same flags and    *)
(* ended at any call: once the user has been registered with the invite,   *)
(* later runs are refused at the registration and the message has been     *)
(* posted once at most.                                                    *)
THEOREM RerunsAreRefused == SendSpec => []RerunIsRefused
<1>1. SendInit => SInv
  BY SendInitSInv
<1>2. SInv /\ [SendNext]_sendVars => SInv'
  BY SendNextSInv
<1>3. SInv => RerunIsRefused
  BY DEF SInv, PassOK, PostOK, RerunIsRefused
<1> QED
  BY <1>1, <1>2, <1>3, PTL DEF SendSpec
=============================================================================
