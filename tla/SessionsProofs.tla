--------------------------- MODULE SessionsProofs ---------------------------
(***************************************************************************)
(* Proofs about sessions, for any sets of users, keys, tokens, passwords   *)
(* and concurrent requests.                                                *)
(***************************************************************************)
EXTENDS Sessions, TLAPS

(* What is in a table or in the map has been issued, and so has what a     *)
(* request carries: that is why nothing it carries can become valid again. *)
IssuedOK ==
    /\ \A c \in apiKeys \cup tokens : ownerOf[c] # NoUser
    /\ \A r \in Requests : cred[r] # NoCredential => ownerOf[cred[r]] # NoUser

(* How far each request's authentication has got.                          *)
RequestOK ==
    \A r \in Requests :
        /\ pc[r] = "arrived" =>
              user[r] = NoUser /\ (begunDead[r] => ~Valid(cred[r]))
        /\ pc[r] \in {"known"} \cup Served =>
              /\ user[r] # NoUser => /\ cred[r] # NoCredential /\ ~begunDead[r]
                                     /\ user[r] = ownerOf[cred[r]]
              /\ user[r] = NoUser => cred[r] \notin tokens \ (expired \cup KeyLike)
        /\ pc[r] \in {"login", "verified"} => user[r] \in Registered

IInv == TypeOK /\ IssuedOK /\ RequestOK /\ PasswordlessUseKeys

-----------------------------------------------------------------------------
(* A password that matches belongs to someone who registered.              *)
LEMMA VerifiedRegistered ==
    ASSUME TypeOK, PasswordlessUseKeys, NoneAssumption,
           NEW u \in Users, NEW p \in Passwords, VerifyUser(u, p)
    PROVE  u \in Registered
BY DEF PasswordlessUseKeys, NoneAssumption, VerifyUser

LEMMA InitIInv == Init => IInv
<1> SUFFICES ASSUME Init PROVE IInv
  OBVIOUS
<1> USE UsersAssumption, NoneAssumption, CredentialAssumption, CrashAssumption
<1>1. password \in [Users -> Passwords \cup {NoPassword}]
  BY DEF Init
<1>2. TypeOK
  BY <1>1 DEF Init, TypeOK, PCs
<1>3. IssuedOK /\ RequestOK
  BY DEF Init, IssuedOK, RequestOK, Served
<1>4. PasswordlessUseKeys
  BY DEF Init, PasswordlessUseKeys, Credentials
<1> QED BY <1>2, <1>3, <1>4 DEF IInv

LEMMA NextIInv == IInv /\ [Next]_vars => IInv'
<1> SUFFICES ASSUME IInv, [Next]_vars PROVE IInv'
  OBVIOUS
<1> USE UsersAssumption, NoneAssumption, CredentialAssumption, CrashAssumption
        DEF IInv
<1>1. ASSUME NEW r \in Requests, NEW c \in Credentials \cup {NoCredential},
             ExtractToken(r, c)
      PROVE  IInv'
  <2>1. TypeOK'
    BY <1>1 DEF ExtractToken, TypeOK, PCs, Served, Valid, dbVars, memVars, credVars
  <2>2. IssuedOK'
    BY <1>1 DEF ExtractToken, TypeOK, IssuedOK, dbVars, memVars, credVars
  <2>3. RequestOK'
    <3> SUFFICES ASSUME NEW q \in Requests
                 PROVE  RequestOK!(q)'
      BY DEF RequestOK
    <3>1. CASE q = r
      <4>1. pc'[r] = IF c = NoCredential THEN "serving" ELSE "arrived"
        BY <1>1 DEF ExtractToken, TypeOK
      <4>2. cred'[r] = c /\ user'[r] = NoUser /\ begunDead'[r] = ~Valid(c)
        BY <1>1 DEF ExtractToken, TypeOK
      <4>3. Valid(c)' = Valid(c) /\ tokens' = tokens
        BY <1>1 DEF ExtractToken, Valid, dbVars, memVars
      <4>4. NoCredential \notin tokens
        BY DEF TypeOK
      <4> QED BY <3>1, <4>1, <4>2, <4>3, <4>4 DEF Valid, Served
    <3>2. CASE q # r
      <4>1. /\ pc'[q] = pc[q] /\ cred'[q] = cred[q] /\ user'[q] = user[q]
            /\ begunDead'[q] = begunDead[q]
        BY <1>1, <3>2 DEF ExtractToken, TypeOK
      <4> QED BY <1>1, <4>1 DEF ExtractToken, RequestOK, Valid, dbVars, memVars, credVars
    <3> QED BY <3>1, <3>2
  <2>4. PasswordlessUseKeys'
    BY <1>1 DEF ExtractToken, PasswordlessUseKeys, dbVars, credVars
  <2> QED BY <2>1, <2>2, <2>3, <2>4
<1>2. ASSUME NEW r \in Requests, ValidateToken(r) PROVE IInv'
  <2>1. TypeOK'
    BY <1>2 DEF ValidateToken, Valid, IssuedOK, TypeOK, PCs, Served, Credentials,
                dbVars, credVars
  <2>2. IssuedOK' /\ RequestOK'
    BY <1>2 DEF ValidateToken, TypeOK, IssuedOK, RequestOK, Valid, Served, Credentials,
                dbVars, credVars
  <2>3. PasswordlessUseKeys'
    BY <1>2 DEF ValidateToken, PasswordlessUseKeys, dbVars, credVars
  <2> QED BY <2>1, <2>2, <2>3
<1>3. ASSUME NEW r \in Requests,
             ValidateTokenFails(r) \/ IsUserAdmin(r) \/ Reply(r) \/ HandleSSEStream(r)
      PROVE  IInv'
  <2> USE <1>3 DEF ValidateTokenFails, IsUserAdmin, Reply, HandleSSEStream,
                   dbVars, memVars, credVars
  <2>1. TypeOK'
    BY DEF TypeOK, PCs, Served
  <2>2. IssuedOK' /\ RequestOK'
    BY DEF TypeOK, IssuedOK, RequestOK, Valid, Served
  <2>3. PasswordlessUseKeys'
    BY DEF PasswordlessUseKeys
  <2> QED BY <2>1, <2>2, <2>3
<1>4. ASSUME NEW r \in Requests, NEW u \in Users, NEW p \in Passwords, LoginUser(r, u, p)
      PROVE  IInv'
  <2>1. u \in Registered
    BY <1>4, VerifiedRegistered DEF LoginUser
  <2>2. TypeOK'
    BY <1>4 DEF LoginUser, TypeOK, PCs, dbVars, memVars, credVars
  <2>3. IssuedOK' /\ RequestOK'
    BY <1>4, <2>1 DEF LoginUser, TypeOK, IssuedOK, RequestOK, Valid, Served,
                      dbVars, memVars, credVars
  <2>4. PasswordlessUseKeys'
    BY <1>4 DEF LoginUser, PasswordlessUseKeys, dbVars, credVars
  <2> QED BY <2>2, <2>3, <2>4
<1>5. ASSUME NEW r \in Requests, NEW t \in Tokens, GenerateToken(r, t) PROVE IInv'
  <2>1. TypeOK'
    BY <1>5 DEF GenerateToken, TypeOK, PCs, Credentials, dbVars
  <2>2. IssuedOK' /\ RequestOK'
    BY <1>5 DEF GenerateToken, TypeOK, IssuedOK, RequestOK, Valid, Served, Credentials,
                dbVars
  <2>3. PasswordlessUseKeys'
    BY <1>5 DEF GenerateToken, TypeOK, RequestOK, PasswordlessUseKeys, Credentials, dbVars
  <2> QED BY <2>1, <2>2, <2>3
<1>6. ASSUME NEW r \in Requests, NEW p \in Passwords, ChangePassword(r, p) PROVE IInv'
  <2>1. user[r] \in Registered
    BY <1>6, VerifiedRegistered DEF ChangePassword, TypeOK
  <2>2. TypeOK'
    BY <1>6 DEF ChangePassword, TypeOK, PCs, Served, dbVars, memVars, credVars
  <2>3. IssuedOK' /\ RequestOK'
    BY <1>6, <2>1 DEF ChangePassword, TypeOK, IssuedOK, RequestOK, Valid, Served,
                      dbVars, memVars, credVars
  <2>4. PasswordlessUseKeys'
    BY <1>6 DEF ChangePassword, PasswordlessUseKeys, dbVars, credVars
  <2> QED BY <2>2, <2>3, <2>4
<1>7. ASSUME NEW r \in Requests, NEW p \in Passwords, UpdatePassword(r, p) PROVE IInv'
  <2>1. TypeOK'
    BY <1>7 DEF UpdatePassword, TypeOK, PCs, memVars, credVars
  <2>2. IssuedOK' /\ RequestOK'
    BY <1>7 DEF UpdatePassword, TypeOK, IssuedOK, RequestOK, Valid, Served,
                memVars, credVars
  <2>3. PasswordlessUseKeys'
    BY <1>7 DEF UpdatePassword, TypeOK, RequestOK, PasswordlessUseKeys, credVars
  <2> QED BY <2>1, <2>2, <2>3
<1>8. ASSUME NEW r \in Requests, NEW u \in Users, AdminCreateUser(r, u) PROVE IInv'
  <2>1. TypeOK'
    BY <1>8 DEF AdminCreateUser, TypeOK, PCs, memVars, credVars
  <2>2. IssuedOK' /\ RequestOK'
    BY <1>8 DEF AdminCreateUser, TypeOK, IssuedOK, RequestOK, Valid, Served,
                memVars, credVars
  <2>3. PasswordlessUseKeys'
    BY <1>8 DEF AdminCreateUser, PasswordlessUseKeys, credVars
  <2> QED BY <2>1, <2>2, <2>3
<1>9. ASSUME NEW r \in Requests, NEW k \in Keys, NEW u \in Users, AdminCreateAPIKey(r, k, u)
      PROVE  IInv'
  <2>1. TypeOK'
    BY <1>9 DEF AdminCreateAPIKey, TypeOK, PCs, Credentials, memVars
  <2>2. IssuedOK' /\ RequestOK'
    BY <1>9 DEF AdminCreateAPIKey, TypeOK, IssuedOK, RequestOK, Valid, Served, Credentials,
                memVars
  <2>3. PasswordlessUseKeys'
    BY <1>9 DEF AdminCreateAPIKey, TypeOK, PasswordlessUseKeys, Credentials
  <2> QED BY <2>1, <2>2, <2>3
<1>10. ASSUME NEW r \in Requests, NEW k \in Keys, AdminRevokeAPIKey(r, k) PROVE IInv'
  <2>1. TypeOK'
    BY <1>10 DEF AdminRevokeAPIKey, TypeOK, PCs, memVars, credVars
  <2>2. IssuedOK' /\ RequestOK'
    BY <1>10 DEF AdminRevokeAPIKey, TypeOK, IssuedOK, RequestOK, Valid, Served,
                 memVars, credVars
  <2>3. PasswordlessUseKeys'
    BY <1>10 DEF AdminRevokeAPIKey, PasswordlessUseKeys, credVars
  <2> QED BY <2>1, <2>2, <2>3
<1>11. ASSUME NEW t \in Tokens, Expire(t) PROVE IInv'
  <2>1. TypeOK'
    BY <1>11 DEF Expire, TypeOK, dbVars, credVars, reqVars
  <2>2. IssuedOK' /\ RequestOK'
    BY <1>11 DEF Expire, TypeOK, IssuedOK, RequestOK, Valid, dbVars, credVars, reqVars
  <2>3. PasswordlessUseKeys'
    BY <1>11 DEF Expire, PasswordlessUseKeys, dbVars, credVars
  <2> QED BY <2>1, <2>2, <2>3
<1>12. CASE Crash
  <2>1. TypeOK'
    BY <1>12 DEF Crash, TypeOK, PCs, dbVars
  <2>2. IssuedOK' /\ RequestOK'
    BY <1>12 DEF Crash, TypeOK, IssuedOK, RequestOK, Served, dbVars
  <2>3. PasswordlessUseKeys'
    BY <1>12 DEF Crash, PasswordlessUseKeys, dbVars
  <2> QED BY <2>1, <2>2, <2>3
<1>13. CASE UNCHANGED vars
  BY <1>13 DEF TypeOK, IssuedOK, RequestOK, Valid, PasswordlessUseKeys,
               vars, dbVars, memVars, credVars, reqVars
<1> QED
  BY <1>1, <1>2, <1>3, <1>4, <1>5, <1>6, <1>7, <1>8, <1>9, <1>10, <1>11, <1>12, <1>13
  DEF Next, Middleware, Handler

-----------------------------------------------------------------------------
(* The inductive invariant holds of every behaviour.                       *)
THEOREM Invariance == Spec => []IInv
BY InitIInv, NextIInv, PTL DEF Spec

(* Every variable has its type, through logins, revocations and restarts.  *)
THEOREM TypeCorrect == Spec => []TypeOK
BY Invariance, PTL DEF IInv

(* Each request is served as the owner of a credential that was valid when *)
(* the request came, and a token that stays valid and is not taken for a   *)
(* key is accepted, with any number of requests, keys and tokens.          *)
THEOREM ServedByCredential == Spec => []CredentialDecides
<1>1. IInv => CredentialDecides
  BY CredentialAssumption DEF IInv, IssuedOK, RequestOK, CredentialDecides
<1> QED BY <1>1, Invariance, PTL

(* A user made by an admin never gets a password or a session.             *)
THEOREM PasswordlessStayOut == Spec => []PasswordlessUseKeys
BY Invariance, PTL DEF IInv
=============================================================================
