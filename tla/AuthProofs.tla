----------------------------- MODULE AuthProofs -----------------------------
(***************************************************************************)
(* Proofs about who is let in: the accounts and sessions of Users and the  *)
(* keys and codes of Pairing, for any sets of accounts, sessions, requests *)
(* and devices and any number of codes and keys.  The two specifications   *)
(* share no state; each has its inductive invariant.                       *)
(*                                                                         *)
(* Users: the three safety properties are proved together, because each    *)
(* one rests on the others: a promotion may leave the sessions alone only  *)
(* because a user who is not an administrator has none, and a superadmin   *)
(* principal can only be Root's.  InFlight and Blank close the induction.  *)
(*                                                                         *)
(* Pairing: a code that has yielded a key is "used", and only pending      *)
(* codes are claimed; a key row is always the youngest key of its device;  *)
(* keys and codes are numbered in the order in which they appear.          *)
(***************************************************************************)
EXTENDS Users, Pairing, TLAPS

(* A principal in flight is the copy of a session's: the session is still  *)
(* its user's, Root exists, and only Root's says superadmin.               *)
InFlight ==
    \A r \in Request :
        principal[r] # Anonymous =>
            /\ role[Root] # "absent"
            /\ session[principal[r].session].of = principal[r].user
            /\ session[principal[r].session].state # "none"
            /\ principal[r].role = "superadmin" => principal[r].user = Root

(* An account that does not exist yet is a blank row.                      *)
Blank ==
    \A u \in User : role[u] = "absent" => ~deleted[u] /\ password[u] = NoPassword

IInv ==
    /\ TypeOK
    /\ OneSuperAdmin
    /\ OnlyAdminsLogIn
    /\ SessionsKnowThePassword
    /\ InFlight
    /\ Blank

(* Init satisfies the invariant: there is nothing yet.                     *)
LEMMA InitIInv == Init => IInv
  <1> SUFFICES ASSUME Init PROVE IInv
    OBVIOUS
  <1>1. TypeOK
    BY UsersAssumption DEF Init, TypeOK, NoRow, NoPassword, Role, Anonymous
  <1>2. OneSuperAdmin /\ Blank /\ InFlight
    BY DEF Init, OneSuperAdmin, Blank, InFlight
  <1>3. OnlyAdminsLogIn /\ SessionsKnowThePassword
    BY DEF Init, OnlyAdminsLogIn, SessionsKnowThePassword, NoRow
  <1> QED
    BY <1>1, <1>2, <1>3 DEF IInv

(* The number of the next password is a password and not NoPassword.       *)
LEMMA FreshPassword ==
    ASSUME TypeOK, SetsPassword
    PROVE  /\ NewPassword \in 0 .. MaxPasswords
           /\ NewPassword # NoPassword
           /\ passwords' \in 0 .. MaxPasswords
  BY UsersAssumption DEF TypeOK, SetsPassword, NewPassword, NoPassword

(* What Revoked does to a session: only a live one changes, and only its   *)
(* state.                                                                  *)
LEMMA RevokedSessions ==
    ASSUME TypeOK, NEW S \in SUBSET Session
    PROVE  /\ Revoked(S) \in [Session -> [of : User, knows : 0 .. MaxPasswords,
                                state : {"none", "live", "revoked", "expired"}]]
           /\ \A s \in Session :
                /\ Revoked(S)[s].of = session[s].of
                /\ Revoked(S)[s].knows = session[s].knows
                /\ Revoked(S)[s].state = "live" =>
                     s \notin S /\ session[s].state = "live"
                /\ session[s].state # "none" => Revoked(S)[s].state # "none"
  BY DEF TypeOK, Revoked

(* A principal that is not anonymous names a user, a session and a role.   *)
LEMMA KnownPrincipal ==
    ASSUME TypeOK, NEW r \in Request, principal[r] # Anonymous
    PROVE  principal[r].user \in User /\ principal[r].session \in Session
  BY DEF TypeOK, Principal

(* A superadmin principal is Root's, and Root then exists.                 *)
LEMMA SuperAdminIsRoot ==
    ASSUME IInv, NEW r \in Request, IsSuperAdmin(principal[r])
    PROVE  /\ principal[r] # Anonymous
           /\ principal[r].user = Root
           /\ role[Root] # "absent"
  <1>1. principal[r] # Anonymous
    BY DEF IsSuperAdmin, Anonymous
  <1> QED
    BY <1>1 DEF IInv, InFlight, IsSuperAdmin

(* Answering a request keeps the principals of the others.                 *)
LEMMA RespondType ==
    ASSUME TypeOK, NEW r \in Request, Respond(r)
    PROVE  /\ principal' \in [Request -> Principal \cup {Anonymous}]
           /\ \A q \in Request : principal'[q] = principal[q] \/ principal'[q] = Anonymous
  BY DEF TypeOK, Respond

(* A handler that keeps the owners of the sessions, and every account that *)
(* exists, leaves the other principals in order.                           *)
LEMMA RespondInFlight ==
    ASSUME IInv, NEW r \in Request, Respond(r),
           role[Root] # "absent" => role'[Root] # "absent",
           \A t \in Session :
              /\ session'[t].of = session[t].of
              /\ session[t].state # "none" => session'[t].state # "none"
    PROVE  InFlight'
  <1> SUFFICES ASSUME NEW q \in Request, principal'[q] # Anonymous
               PROVE  /\ role'[Root] # "absent"
                      /\ session'[principal'[q].session].of = principal'[q].user
                      /\ session'[principal'[q].session].state # "none"
                      /\ principal'[q].role = "superadmin" => principal'[q].user = Root
    BY DEF InFlight
  <1>1. principal'[q] = principal[q]
    BY RespondType DEF IInv
  <1>2. principal[q].session \in Session
    BY <1>1, KnownPrincipal DEF IInv
  <1> QED
    BY <1>1, <1>2 DEF IInv, InFlight

-----------------------------------------------------------------------------
(* Every step preserves the invariant.                                     *)
LEMMA NextIInv == IInv /\ [Next]_vars => IInv'
  <1> SUFFICES ASSUME IInv, [Next]_vars PROVE IInv'
    OBVIOUS
  <1> USE DEF IInv
  <1>1. CASE UNCHANGED vars
    BY <1>1 DEF vars, TypeOK, OneSuperAdmin, OnlyAdminsLogIn, Found,
         SessionsKnowThePassword, InFlight, Blank
  <1>2. CASE BootstrapAdmin
    <2>1. CASE role[Root] # "absent"
      BY <1>2, <2>1 DEF BootstrapAdmin, TypeOK, OneSuperAdmin, OnlyAdminsLogIn,
           Found, SessionsKnowThePassword, InFlight, Blank
    <2>2. CASE role[Root] = "absent"
      <3>1. /\ SetsPassword
            /\ role' = [role EXCEPT ![Root] = "superadmin"]
            /\ password' = [password EXCEPT ![Root] = NewPassword]
            /\ UNCHANGED <<deleted, session>>
            /\ principal' = [r \in Request |-> Anonymous]
        BY <1>2, <2>2 DEF BootstrapAdmin
      <3>2. \A u \in User : role[u] = "absent"
        BY <2>2 DEF OneSuperAdmin
      <3>3. \A s \in Session : session[s].state # "live"
        BY <3>2 DEF OnlyAdminsLogIn, Found, TypeOK
      <3>4. TypeOK'
        BY <3>1, FreshPassword, UsersAssumption DEF TypeOK, Role
      <3>5. OneSuperAdmin' /\ Blank' /\ InFlight'
        BY <3>1, <3>2, FreshPassword, UsersAssumption
        DEF TypeOK, OneSuperAdmin, Blank, InFlight
      <3>6. \A u \in User :
              role'[u] # "absent" => u = Root /\ role'[u] # "user" /\ password'[u] # NoPassword
        BY <3>1, <3>2, FreshPassword, UsersAssumption DEF TypeOK
      <3>7. OnlyAdminsLogIn' /\ SessionsKnowThePassword'
        BY <3>1, <3>3, <3>6 DEF OnlyAdminsLogIn, SessionsKnowThePassword
      <3> QED
        BY <3>4, <3>5, <3>7
    <2> QED
      BY <2>1, <2>2
  <1>3. ASSUME NEW u \in User, NEW s \in Session, Login(u, s)
        PROVE  IInv'
    <2>1. session' \in [Session -> [of : User, knows : 0 .. MaxPasswords,
                           state : {"none", "live", "revoked", "expired"}]]
      BY <1>3 DEF Login, TypeOK
    <2>2. TypeOK' /\ OneSuperAdmin' /\ Blank'
      BY <1>3, <2>1 DEF Login, TypeOK, OneSuperAdmin, Blank
    <2>3. OnlyAdminsLogIn' /\ SessionsKnowThePassword'
      BY <1>3, <2>1 DEF Login, TypeOK, OnlyAdminsLogIn, SessionsKnowThePassword, Found
    <2>4. InFlight'
      <3>1. \A t \in Session : session[t].state # "none" => session'[t] = session[t]
        BY <1>3 DEF Login, TypeOK
      <3> QED
        BY <1>3, <3>1, KnownPrincipal DEF Login, InFlight
    <2> QED
      BY <2>2, <2>3, <2>4
  <1>4. ASSUME NEW s \in Session, ExpireSession(s) PROVE IInv'
    <2>1. /\ session' \in [Session -> [of : User, knows : 0 .. MaxPasswords,
                              state : {"none", "live", "revoked", "expired"}]]
          /\ \A t \in Session : /\ session'[t].of = session[t].of
                                /\ session'[t].knows = session[t].knows
                                /\ session'[t].state = "live" => session[t].state = "live"
                                /\ session[t].state # "none" => session'[t].state # "none"
      BY <1>4 DEF ExpireSession, TypeOK
    <2> QED
      BY <1>4, <2>1, KnownPrincipal DEF ExpireSession, TypeOK, OneSuperAdmin,
           OnlyAdminsLogIn, Found, SessionsKnowThePassword, InFlight, Blank
  <1>5. ASSUME NEW r \in Request, NEW s \in Session, Authenticate(r, s)
        PROVE  IInv'
    <2>1. PrincipalFromSession(s) \in Principal
      BY <1>5 DEF Authenticate, PrincipalFromSession, Principal, TypeOK, Found
    <2>2. TypeOK'
      BY <1>5, <2>1 DEF Authenticate, TypeOK
    <2>3. InFlight'
      <3>1. session[s].of \in User /\ role[session[s].of] # "absent" /\ role[Root] # "absent"
        BY <1>5 DEF Authenticate, Found, TypeOK, OneSuperAdmin
      <3> QED
        BY <1>5, <3>1 DEF Authenticate, PrincipalFromSession, InFlight, TypeOK, OneSuperAdmin
    <2> QED
      BY <1>5, <2>2, <2>3 DEF Authenticate, OneSuperAdmin, OnlyAdminsLogIn, Found,
           SessionsKnowThePassword, Blank
  <1>6. ASSUME NEW r \in Request, Refused(r) \/ UpdateOwnProfile(r) PROVE IInv'
    <2>1. role' = role /\ UNCHANGED <<deleted, password, session, passwords>>
      BY <1>6 DEF Refused, UpdateOwnProfile, TypeOK
    <2>2. Respond(r)
      BY <1>6 DEF Refused, UpdateOwnProfile
    <2>3. TypeOK' /\ InFlight'
      BY <2>1, <2>2, RespondType, KnownPrincipal DEF TypeOK, InFlight
    <2> QED
      BY <2>1, <2>3 DEF OneSuperAdmin, OnlyAdminsLogIn, Found,
           SessionsKnowThePassword, Blank
  <1>7. ASSUME NEW r \in Request, RevokeSession(r) PROVE IInv'
    <2>1. /\ session' \in [Session -> [of : User, knows : 0 .. MaxPasswords,
                              state : {"none", "live", "revoked", "expired"}]]
          /\ \A t \in Session : /\ session'[t].of = session[t].of
                                /\ session'[t].knows = session[t].knows
                                /\ session'[t].state = "live" => session[t].state = "live"
                                /\ session[t].state # "none" => session'[t].state # "none"
      BY <1>7, KnownPrincipal DEF RevokeSession, TypeOK
    <2>2. TypeOK' /\ InFlight'
      BY <1>7, <2>1, RespondType, KnownPrincipal DEF RevokeSession, TypeOK, InFlight
    <2> QED
      BY <1>7, <2>1, <2>2 DEF RevokeSession, TypeOK, OneSuperAdmin, OnlyAdminsLogIn,
           Found, SessionsKnowThePassword, Blank
  <1>8. ASSUME NEW r \in Request, ChangePassword(r) PROVE IInv'
    <2> DEFINE u == principal[r].user
               own == principal[r].session
    <2>1. u \in User /\ own \in Session /\ session[own].of = u
      BY <1>8, KnownPrincipal DEF ChangePassword, InFlight
    <2>2. /\ password' = [password EXCEPT ![u] = NewPassword]
          /\ session' = [Revoked(SessionsOf(u) \ {own}) EXCEPT ![own].knows = NewPassword]
          /\ UNCHANGED <<role, deleted>>
          /\ SetsPassword /\ Respond(r)
          /\ Found(u) /\ password[u] # NoPassword
      BY <1>8 DEF ChangePassword
    <2>3. /\ NewPassword \in 0 .. MaxPasswords /\ NewPassword # NoPassword
          /\ passwords' \in 0 .. MaxPasswords
      BY <2>2, FreshPassword
    <2> DEFINE Rv == Revoked(SessionsOf(u) \ {own})
    <2>4. /\ Rv \in [Session -> [of : User, knows : 0 .. MaxPasswords,
                              state : {"none", "live", "revoked", "expired"}]]
          /\ \A t \in Session :
               /\ Rv[t].of = session[t].of
               /\ Rv[t].knows = session[t].knows
               /\ Rv[t].state = "live" =>
                     t \notin (SessionsOf(u) \ {own}) /\ session[t].state = "live"
               /\ session[t].state # "none" => Rv[t].state # "none"
      <3>1. SessionsOf(u) \ {own} \in SUBSET Session
        BY DEF SessionsOf
      <3> QED
        BY <3>1, RevokedSessions
    <2>5. /\ session' \in [Session -> [of : User, knows : 0 .. MaxPasswords,
                              state : {"none", "live", "revoked", "expired"}]]
          /\ \A t \in Session :
               /\ session'[t].of = session[t].of
               /\ session'[t].state = "live" => session[t].state = "live"
               /\ session[t].state # "none" => session'[t].state # "none"
               /\ session'[t].state = "live" /\ session[t].of = u => t = own
               /\ t # own => session'[t].knows = session[t].knows
               /\ t = own => session'[t].knows = NewPassword
      <3> HIDE DEF u, own, Rv
      <3>1. session' = [Rv EXCEPT ![own].knows = NewPassword]
        BY <2>2 DEF Rv
      <3> QED
        BY <2>1, <2>3, <2>4, <3>1 DEF SessionsOf
    <2> HIDE DEF u, own, Rv
    <2>6. /\ password' \in [User -> 0 .. MaxPasswords]
          /\ password'[u] = NewPassword
          /\ \A v \in User : v # u => password'[v] = password[v]
      BY <2>1, <2>2, <2>3 DEF TypeOK
    <2>7. TypeOK'
      BY <2>2, <2>3, <2>5, <2>6, RespondType DEF TypeOK
    <2>8. InFlight'
      BY <2>2, <2>5, RespondInFlight
    <2>9. OneSuperAdmin' /\ Blank'
      BY <2>1, <2>2, <2>3, <2>6, UsersAssumption DEF OneSuperAdmin, Blank, Found
    <2>10. OnlyAdminsLogIn'
      <3>1. \A v \in User : role[v] # "absent" =>
              (role[v] = "user" <=> password'[v] = NoPassword)
        BY <2>1, <2>2, <2>3, <2>6 DEF OnlyAdminsLogIn, Found
      <3>2. \A s \in Session : session'[s].state = "live" =>
              Found(session[s].of) /\ role[session[s].of] # "user"
        BY <2>5 DEF OnlyAdminsLogIn
      <3>3. \A s \in Session : session'[s].state = "live" =>
              Found(session'[s].of) /\ role[session'[s].of] # "user"
        BY <2>5, <3>2
      <3>4. role' = role /\ deleted' = deleted
        BY <2>2
      <3> QED
        BY <3>1, <3>3, <3>4 DEF OnlyAdminsLogIn, Found
    <2>11. SessionsKnowThePassword'
      BY <2>1, <2>5, <2>6 DEF SessionsKnowThePassword, TypeOK
    <2> QED
      BY <2>7, <2>8, <2>9, <2>10, <2>11
  <1>9. ASSUME NEW r \in Request, NEW u \in User, CreateUser(r, u) PROVE IInv'
    <2>1. role[Root] # "absent"
      BY <1>9, SuperAdminIsRoot DEF CreateUser
    <2>2. TypeOK' /\ InFlight'
      BY <1>9, RespondType, KnownPrincipal DEF CreateUser, TypeOK, Role, InFlight
    <2>3. \A s \in Session : session[s].state = "live" => session[s].of # u
      BY <1>9 DEF CreateUser, OnlyAdminsLogIn, Found
    <2>4. OneSuperAdmin' /\ Blank'
      BY <1>9, <2>1, UsersAssumption DEF CreateUser, TypeOK, OneSuperAdmin, Blank
    <2>5. OnlyAdminsLogIn' /\ SessionsKnowThePassword'
      BY <1>9, <2>3 DEF CreateUser, TypeOK, OnlyAdminsLogIn, Blank, Found,
           SessionsKnowThePassword
    <2> QED
      BY <2>2, <2>4, <2>5
  <1>10. ASSUME NEW r \in Request, NEW u \in User, PromoteUser(r, u) PROVE IInv'
    <2>1. u # Root /\ role[u] = "user"
      BY <1>10, SuperAdminIsRoot DEF PromoteUser, OneSuperAdmin, TypeOK, Role, Found
    <2>2. \A s \in Session : session[s].state = "live" => session[s].of # u
      BY <2>1 DEF OnlyAdminsLogIn
    <2>3. /\ SetsPassword /\ Respond(r) /\ UNCHANGED <<deleted, session>>
          /\ role' = [role EXCEPT ![u] = "admin"]
          /\ password' = [password EXCEPT ![u] = NewPassword]
      BY <1>10 DEF PromoteUser
    <2>4. TypeOK'
      BY <2>3, FreshPassword, RespondType DEF TypeOK, Role
    <2>5. InFlight'
      BY <2>1, <2>3, RespondInFlight, UsersAssumption DEF TypeOK
    <2>6. OneSuperAdmin' /\ Blank'
      BY <2>1, <2>3, FreshPassword, UsersAssumption DEF TypeOK, OneSuperAdmin, Blank
    <2>7. OnlyAdminsLogIn' /\ SessionsKnowThePassword'
      BY <2>2, <2>3, FreshPassword DEF TypeOK, OnlyAdminsLogIn, Found,
           SessionsKnowThePassword
    <2> QED
      BY <2>4, <2>5, <2>6, <2>7
  <1>11. ASSUME NEW r \in Request, NEW u \in User, DemoteUser(r, u) \/ DeleteUser(r, u)
         PROVE  IInv'
    <2>1. u # Root /\ role[u] # "absent"
      BY <1>11, SuperAdminIsRoot DEF DemoteUser, DeleteUser, Found
    <2>2. /\ session' = Revoked(SessionsOf(u)) /\ Respond(r)
          /\ passwords' = passwords
          /\ SessionsOf(u) \in SUBSET Session
      BY <1>11 DEF DemoteUser, DeleteUser, SessionsOf
    <2>3. /\ session' \in [Session -> [of : User, knows : 0 .. MaxPasswords,
                              state : {"none", "live", "revoked", "expired"}]]
          /\ \A t \in Session :
               /\ session'[t].of = session[t].of
               /\ session'[t].knows = session[t].knows
               /\ session'[t].state = "live" =>
                     session[t].state = "live" /\ session[t].of # u
               /\ session[t].state # "none" => session'[t].state # "none"
      BY <2>2, RevokedSessions DEF SessionsOf
    <2>4. /\ role' \in [User -> Role \cup {"absent"}]
          /\ deleted' \in [User -> BOOLEAN]
          /\ password' \in [User -> 0 .. MaxPasswords]
          /\ \A v \in User : v # u =>
               role'[v] = role[v] /\ deleted'[v] = deleted[v] /\ password'[v] = password[v]
          /\ role'[u] # "absent" /\ role'[u] # "superadmin"
          /\ role'[u] = "user" <=> password'[u] = NoPassword
      <3>1. CASE DemoteUser(r, u)
        BY <3>1, UsersAssumption DEF DemoteUser, TypeOK, Role, NoPassword
      <3>2. CASE DeleteUser(r, u)
        BY <2>1, <3>2 DEF DeleteUser, TypeOK, OneSuperAdmin, OnlyAdminsLogIn
      <3> QED
        BY <1>11, <3>1, <3>2
    <2>5. TypeOK'
      BY <2>2, <2>3, <2>4, RespondType DEF TypeOK
    <2>6. InFlight'
      BY <2>1, <2>2, <2>3, <2>4, RespondInFlight, UsersAssumption
    <2>7. OneSuperAdmin' /\ Blank'
      BY <2>1, <2>4, UsersAssumption DEF OneSuperAdmin, Blank
    <2>8. OnlyAdminsLogIn'
      BY <2>3, <2>4 DEF TypeOK, OnlyAdminsLogIn, Found
    <2>9. SessionsKnowThePassword'
      BY <2>3, <2>4 DEF TypeOK, SessionsKnowThePassword
    <2> QED
      BY <2>5, <2>6, <2>7, <2>8, <2>9
  <1> QED
    BY <1>1, <1>2, <1>3, <1>4, <1>5, <1>6, <1>7, <1>8, <1>9, <1>10, <1>11
    DEF Next, AdministerUser

-----------------------------------------------------------------------------
(* The invariant holds in every reachable state.                           *)
THEOREM Invariance == Spec => []IInv
  BY InitIInv, NextIInv, PTL DEF Spec

(* Type correctness.                                                       *)
THEOREM TypeCorrect == Spec => []TypeOK
  <1>1. IInv => TypeOK
    BY DEF IInv
  <1> QED
    BY Invariance, <1>1, PTL

(* BootstrapAdmin's account stays the only superadmin and can always log   *)
(* in, whatever the other methods of auth.Service do.                      *)
THEOREM SuperAdminStays == Spec => []OneSuperAdmin
  <1>1. IInv => OneSuperAdmin
    BY DEF IInv
  <1> QED
    BY Invariance, <1>1, PTL

(* Users who are not administrators have neither a password nor a session, *)
(* also after a demotion that races with requests of the same user.        *)
THEOREM UsersStayOut == Spec => []OnlyAdminsLogIn
  <1>1. IInv => OnlyAdminsLogIn
    BY DEF IInv
  <1> QED
    BY Invariance, <1>1, PTL

(* No live session outlives the password it was opened with, unless it is  *)
(* the one that changed it.                                                *)
THEOREM OldPasswordsOpenNothing == Spec => []SessionsKnowThePassword
  <1>1. IInv => SessionsKnowThePassword
    BY DEF IInv
  <1> QED
    BY Invariance, <1>1, PTL

-----------------------------------------------------------------------------
(* Pairing.                                                                *)
(* Rows are numbered without gaps: exactly the codes up to "codes" exist.  *)
RowsExist == \A c \in Code : pairing[c].status = "none" <=> c > codes

(* The code that yielded a key is used.                                    *)
KeysUseUpCodes ==
    \A k \in 1 .. keys :
        issued[k].code # 0 => pairing[issued[k].code].status = "used"

PairingIInv ==
    /\ PairingTypeOK
    /\ RowsExist
    /\ KeysUseUpCodes
    /\ OneKeyPerCode
    /\ OnlyTheLastKeyOpens
    /\ ClaimableCodesAreShown

(* Device is not empty, so the default device is one.                      *)
LEMMA SomeDeviceType == SomeDevice \in Device
BY PairingAssumption DEF SomeDevice

(* The empty tables satisfy the inductive invariant.                       *)
LEMMA PairingInitIInv == PairingInit => PairingIInv
<1> SUFFICES ASSUME PairingInit PROVE PairingIInv
    OBVIOUS
<1>0. SomeDevice \in Device /\ MaxCodes \in Nat \ {0} /\ MaxKeys \in Nat \ {0}
    BY SomeDeviceType, PairingAssumption
<1>1. NoPairing \in Pairing /\ NoIssue \in Issue
    BY <1>0 DEF NoPairing, NoIssue, Pairing, Issue, Stored
<1>2. PairingTypeOK
    BY <1>0, <1>1 DEF PairingInit, PairingTypeOK, Code, Key
<1>3. RowsExist
    BY <1>0 DEF PairingInit, RowsExist, Code, NoPairing
<1>4. KeysUseUpCodes /\ OneKeyPerCode /\ OnlyTheLastKeyOpens /\ ClaimableCodesAreShown
    BY <1>0 DEF PairingInit, KeysUseUpCodes, OneKeyPerCode, OnlyTheLastKeyOpens,
                ClaimableCodesAreShown
<1> QED
    BY <1>2, <1>3, <1>4 DEF PairingIInv

(* Every operation keeps the types.                                        *)
LEMMA PairingNextTypes == PairingTypeOK /\ [PairingNext]_pairingVars => PairingTypeOK'
<1> SUFFICES ASSUME PairingTypeOK, [PairingNext]_pairingVars PROVE PairingTypeOK'
    OBVIOUS
<1> USE PairingAssumption
<1>1. ASSUME NEW d \in Device, NEW c \in 0 .. MaxCodes, Mint(d, c)
      PROVE /\ keys' \in 0 .. MaxKeys
            /\ key' \in [Device -> 0 .. MaxKeys]
            /\ issued' \in [Key -> Issue]
    BY <1>1 DEF Mint, PairingTypeOK, Key, Issue
<1>2. ASSUME NEW d \in Device, NEW b \in BOOLEAN, CreateDeviceWithOptions(d, b)
      PROVE PairingTypeOK'
    BY <1>1, <1>2 DEF CreateDeviceWithOptions, PairingTypeOK
<1>3. ASSUME NEW d \in Device, NEW b \in BOOLEAN, SetDeviceDisabled(d, b)
      PROVE PairingTypeOK'
    BY <1>3 DEF SetDeviceDisabled, PairingTypeOK
<1>4. ASSUME NEW d \in Device, RegenerateAPIKey(d) PROVE PairingTypeOK'
    BY <1>1, <1>4 DEF RegenerateAPIKey, PairingTypeOK
<1>5. ASSUME NEW d \in Device, DeleteAPIKey(d) PROVE PairingTypeOK'
    BY <1>5 DEF DeleteAPIKey, PairingTypeOK
<1>6. ASSUME NEW d \in Device, CreatePairing(d) PROVE PairingTypeOK'
    <2>1. pairing' \in [Code -> Pairing]
        BY <1>6 DEF CreatePairing, PairingTypeOK, Pairing, Stored
    <2> QED
        BY <1>6, <2>1 DEF CreatePairing, PairingTypeOK
<1>7. ASSUME NEW D \in SUBSET Device, DeleteDevices(D) PROVE PairingTypeOK'
    BY <1>7 DEF DeleteDevices, PairingTypeOK
<1>8. ASSUME NEW c \in Code, InvalidatePairing(c) PROVE PairingTypeOK'
    BY <1>8 DEF InvalidatePairing, PairingTypeOK, Pairing, Stored
<1>9. ASSUME NEW c \in Code, Tick(c) PROVE PairingTypeOK'
    BY <1>9 DEF Tick, PairingTypeOK, Pairing, Stored
<1>10. ASSUME NEW c \in Code, ClaimPairing(c) PROVE PairingTypeOK'
    <2>1. pairing[c].dev \in Device /\ c \in 0 .. MaxCodes
        BY DEF PairingTypeOK, Pairing, Code
    <2>2. pairing' \in [Code -> Pairing]
        BY <1>10 DEF ClaimPairing, PairingTypeOK, Pairing, Stored
    <2> QED
        BY <1>1, <1>10, <2>1, <2>2 DEF ClaimPairing, PairingTypeOK
<1>11. CASE UNCHANGED pairingVars
    BY <1>11 DEF pairingVars, PairingTypeOK
<1> QED
    BY <1>2, <1>3, <1>4, <1>5, <1>6, <1>7, <1>8, <1>9, <1>10, <1>11 DEF PairingNext

(***************************************************************************)
(* What Mint does to the parts of the invariant about keys.  The new key   *)
(* is younger than all others; its code, if any, has yielded none before.  *)
(***************************************************************************)
LEMMA MintKeepsKeys ==
    ASSUME PairingIInv, NEW d \in Device, Mint(d, 0), pairing' = pairing,
           FoundDevice(d)', \A x \in Device : FoundDevice(x) => FoundDevice(x)'
    PROVE  KeysUseUpCodes' /\ OneKeyPerCode' /\ OnlyTheLastKeyOpens'
<1> USE PairingAssumption
<1>1. /\ keys \in 0 .. MaxKeys /\ keys' = keys + 1 /\ keys' \in Key
      /\ key \in [Device -> 0 .. MaxKeys] /\ issued \in [Key -> Issue]
      /\ key' = [key EXCEPT ![d] = keys + 1]
      /\ issued' = [issued EXCEPT ![keys + 1] = [dev |-> d, code |-> 0]]
    BY DEF PairingIInv, PairingTypeOK, Mint, Key
<1>2. /\ \A k \in 1 .. keys : issued'[k] = issued[k]
      /\ issued'[keys'] = [dev |-> d, code |-> 0]
    BY <1>1 DEF Key
<1>3. KeysUseUpCodes' /\ OneKeyPerCode'
    BY <1>1, <1>2 DEF PairingIInv, KeysUseUpCodes, OneKeyPerCode
<1>4. OnlyTheLastKeyOpens'
    <2> SUFFICES ASSUME NEW x \in Device, key'[x] # 0
                 PROVE  /\ FoundDevice(x)'
                        /\ key'[x] \in 1 .. keys'
                        /\ issued'[key'[x]].dev = x
                        /\ \A k \in key'[x] + 1 .. keys' : issued'[k].dev # x
        BY DEF OnlyTheLastKeyOpens
    <2>1. CASE x = d
        BY <1>1, <1>2, <2>1
    <2>2. CASE x # d
        BY <1>1, <1>2, <2>2 DEF PairingIInv, OnlyTheLastKeyOpens
    <2> QED
        BY <2>1, <2>2
<1> QED
    BY <1>3, <1>4

(* The code a key was issued for is a code or 0.                           *)
LEMMA IssuedCodes ==
    ASSUME PairingTypeOK, NEW k \in 1 .. keys, issued[k].code # 0
    PROVE  issued[k].code \in Code
<1>1. k \in Key
    BY PairingAssumption DEF PairingTypeOK, Key
<1>2. issued[k] \in Issue
    BY <1>1 DEF PairingTypeOK
<1>3. issued[k].code \in 0 .. MaxCodes
    BY <1>2 DEF Issue
<1> QED
    BY <1>3, PairingAssumption DEF Code

(* Every operation of the pairing and device services keeps the inductive  *)
(* invariant: one step per operation.                                      *)
LEMMA PairingNextIInv == PairingIInv /\ [PairingNext]_pairingVars => PairingIInv'
<1> SUFFICES ASSUME PairingIInv, [PairingNext]_pairingVars PROVE PairingIInv'
    OBVIOUS
<1> USE PairingAssumption
<1>0. PairingTypeOK /\ PairingTypeOK'
    BY PairingNextTypes DEF PairingIInv
<1>1. ASSUME NEW d \in Device, NEW b \in BOOLEAN, CreateDeviceWithOptions(d, b)
      PROVE PairingIInv'
    <2>1. RowsExist' /\ ClaimableCodesAreShown'
        BY <1>1 DEF CreateDeviceWithOptions, PairingIInv, RowsExist,
                    ClaimableCodesAreShown, PairingsForDevices
    <2>2. FoundDevice(d)' /\ \A x \in Device : FoundDevice(x) => FoundDevice(x)'
        BY <1>0, <1>1 DEF CreateDeviceWithOptions, FoundDevice, PairingTypeOK
    <2>3. KeysUseUpCodes' /\ OneKeyPerCode' /\ OnlyTheLastKeyOpens'
        <3>1. CASE b
            BY <1>1, <2>2, <3>1, MintKeepsKeys DEF CreateDeviceWithOptions
        <3>2. CASE ~b
            BY <1>1, <2>2, <3>2 DEF CreateDeviceWithOptions, PairingIInv, KeysUseUpCodes,
                                    OneKeyPerCode, OnlyTheLastKeyOpens
        <3> QED
            BY <3>1, <3>2
    <2> QED
        BY <1>0, <2>1, <2>3 DEF PairingIInv
<1>2. ASSUME NEW d \in Device, NEW b \in BOOLEAN, SetDeviceDisabled(d, b)
      PROVE PairingIInv'
    <2>1. \A x \in Device : FoundDevice(x) => FoundDevice(x)'
        BY <1>0, <1>2 DEF SetDeviceDisabled, FoundDevice, PairingTypeOK
    <2> QED
        BY <1>0, <1>2, <2>1 DEF SetDeviceDisabled, PairingIInv, RowsExist, KeysUseUpCodes,
              OneKeyPerCode, OnlyTheLastKeyOpens, ClaimableCodesAreShown,
              PairingsForDevices
<1>3. ASSUME NEW d \in Device, RegenerateAPIKey(d) PROVE PairingIInv'
    <2>1. RowsExist' /\ ClaimableCodesAreShown'
        BY <1>3 DEF RegenerateAPIKey, PairingIInv, RowsExist, ClaimableCodesAreShown,
                    PairingsForDevices
    <2>2. FoundDevice(d)' /\ \A x \in Device : FoundDevice(x) => FoundDevice(x)'
        BY <1>3 DEF RegenerateAPIKey, FoundDevice
    <2> QED
        BY <1>0, <1>3, <2>1, <2>2, MintKeepsKeys DEF RegenerateAPIKey, PairingIInv
<1>4. ASSUME NEW d \in Device, DeleteAPIKey(d) PROVE PairingIInv'
    <2>1. OnlyTheLastKeyOpens'
        BY <1>0, <1>4 DEF DeleteAPIKey, PairingIInv, OnlyTheLastKeyOpens, FoundDevice, PairingTypeOK
    <2> QED
        BY <1>0, <1>4, <2>1 DEF DeleteAPIKey, PairingIInv, RowsExist, KeysUseUpCodes,
              OneKeyPerCode, ClaimableCodesAreShown, PairingsForDevices
<1>5. ASSUME NEW D \in SUBSET Device, DeleteDevices(D) PROVE PairingIInv'
    <2>1. OnlyTheLastKeyOpens'
        BY <1>0, <1>5 DEF DeleteDevices, PairingIInv, OnlyTheLastKeyOpens, FoundDevice, PairingTypeOK
    <2> QED
        BY <1>0, <1>5, <2>1 DEF DeleteDevices, PairingIInv, RowsExist, KeysUseUpCodes,
              OneKeyPerCode, ClaimableCodesAreShown, PairingsForDevices
<1>6. ASSUME NEW d \in Device, CreatePairing(d) PROVE PairingIInv'
    <2> DEFINE new == codes + 1
    <2>1. /\ new \in Code /\ codes' = new /\ codes \in 0 .. MaxCodes
          /\ pairing'[new] = [dev |-> d, status |-> "pending", time |-> "before"]
          /\ \A c \in Code \ {new} :
                /\ pairing'[c].dev = pairing[c].dev
                /\ pairing'[c].status =
                     IF pairing[c].dev = d /\ pairing[c].status = "pending"
                     THEN "replaced" ELSE pairing[c].status
        BY <1>0, <1>6 DEF CreatePairing, PairingTypeOK, Code, Pairing
    <2>2. UNCHANGED <<device, key, keys, issued>>
        BY <1>6 DEF CreatePairing
    <2>3. RowsExist'
        BY <2>1 DEF PairingIInv, RowsExist, Code
    <2>4. \A k \in 1 .. keys : issued[k].code # 0 =>
             issued[k].code \in Code \ {new}
        <3>1. pairing[new].status = "none"
            BY <2>1 DEF PairingIInv, RowsExist
        <3> QED
            BY <1>0, <3>1, IssuedCodes DEF PairingIInv, KeysUseUpCodes
    <2>5. KeysUseUpCodes' /\ OneKeyPerCode'
        BY <2>1, <2>2, <2>4 DEF PairingIInv, KeysUseUpCodes, OneKeyPerCode
    <2>6. OnlyTheLastKeyOpens'
        BY <2>2 DEF PairingIInv, OnlyTheLastKeyOpens, FoundDevice
    <2>7. ClaimableCodesAreShown'
        BY <2>1 DEF PairingIInv, ClaimableCodesAreShown, PairingsForDevices, Code
    <2> QED
        BY <1>0, <2>3, <2>5, <2>6, <2>7 DEF PairingIInv
<1>7. ASSUME NEW c \in Code, InvalidatePairing(c) \/ Tick(c) PROVE PairingIInv'
    <2>1. /\ UNCHANGED <<device, key, codes, keys, issued>>
          /\ pairing[c].status = "pending"
          /\ pairing'[c].status \in {"pending", "invalidated"}
          /\ \A x \in Code : pairing'[x].dev = pairing[x].dev
          /\ \A x \in Code \ {c} : pairing'[x] = pairing[x]
        BY <1>0, <1>7 DEF InvalidatePairing, Tick, PairingTypeOK, Pairing
    <2>2. \A k \in 1 .. keys : issued[k].code # 0 => issued[k].code \in Code
        BY <1>0, IssuedCodes
    <2>3. RowsExist'
        BY <2>1 DEF PairingIInv, RowsExist
    <2>4. KeysUseUpCodes' /\ OneKeyPerCode'
        BY <2>1, <2>2 DEF PairingIInv, KeysUseUpCodes, OneKeyPerCode
    <2>5. OnlyTheLastKeyOpens'
        BY <2>1 DEF PairingIInv, OnlyTheLastKeyOpens, FoundDevice
    <2>6. ClaimableCodesAreShown'
        BY <1>0, <2>1 DEF PairingIInv, ClaimableCodesAreShown, PairingsForDevices, Code, PairingTypeOK
    <2> QED
        BY <1>0, <2>3, <2>4, <2>5, <2>6 DEF PairingIInv
<1>8. ASSUME NEW c \in Code, ClaimPairing(c) PROVE PairingIInv'
    <2> DEFINE d == pairing[c].dev
    <2>1. /\ keys \in 0 .. MaxKeys /\ keys' = keys + 1 /\ keys' \in Key
          /\ key' = [key EXCEPT ![d] = keys + 1]
          /\ issued'[keys'] = [dev |-> d, code |-> c]
          /\ \A k \in 1 .. keys : issued'[k] = issued[k]
          /\ UNCHANGED <<device, codes>>
        BY <1>0, <1>8 DEF ClaimPairing, Mint, PairingTypeOK, Key
    <2>2. /\ pairing[c].status = "pending" /\ pairing'[c].status = "used"
          /\ \A x \in Code : pairing'[x].dev = pairing[x].dev
          /\ \A x \in Code \ {c} : pairing'[x] = pairing[x]
        BY <1>0, <1>8 DEF ClaimPairing, Claimable, EvalStatus, PairingTypeOK, Pairing
    <2>3. d \in Device /\ FoundDevice(d) /\ \A x \in Device : FoundDevice(x)' = FoundDevice(x)
        BY <1>0, <1>8, <2>1 DEF ClaimPairing, PairingTypeOK, Pairing, FoundDevice
    <2>4. \A k \in 1 .. keys : issued[k].code # 0 => issued[k].code \in Code \ {c}
        BY <1>0, <2>2, IssuedCodes DEF PairingIInv, KeysUseUpCodes
    <2>5. RowsExist'
        BY <2>1, <2>2 DEF PairingIInv, RowsExist
    <2>6. KeysUseUpCodes' /\ OneKeyPerCode'
        BY <2>1, <2>2, <2>4 DEF PairingIInv, KeysUseUpCodes, OneKeyPerCode, Code
    <2>7. OnlyTheLastKeyOpens'
        <3> SUFFICES ASSUME NEW x \in Device, key'[x] # 0
                     PROVE  /\ FoundDevice(x)'
                            /\ key'[x] \in 1 .. keys'
                            /\ issued'[key'[x]].dev = x
                            /\ \A k \in key'[x] + 1 .. keys' : issued'[k].dev # x
            BY DEF OnlyTheLastKeyOpens
        <3>1. CASE x = d
            BY <1>0, <2>1, <2>3, <3>1 DEF PairingTypeOK
        <3>2. CASE x # d
            BY <1>0, <2>1, <2>3, <3>2 DEF PairingIInv, OnlyTheLastKeyOpens, PairingTypeOK
        <3> QED
            BY <3>1, <3>2
    <2>8. ClaimableCodesAreShown'
        BY <1>0, <2>1, <2>2 DEF PairingIInv, ClaimableCodesAreShown, PairingsForDevices,
                               Code, PairingTypeOK
    <2> QED
        BY <1>0, <2>5, <2>6, <2>7, <2>8 DEF PairingIInv
<1>9. CASE UNCHANGED pairingVars
    BY <1>0, <1>9 DEF pairingVars, PairingIInv, RowsExist, KeysUseUpCodes, OneKeyPerCode,
          OnlyTheLastKeyOpens, ClaimableCodesAreShown, PairingsForDevices, FoundDevice
<1> QED
    BY <1>1, <1>2, <1>3, <1>4, <1>5, <1>6, <1>7, <1>8, <1>9 DEF PairingNext

(* The inductive invariant holds in every reachable state: types, the      *)
(* three properties of codes and keys, and that keys use up the codes they *)
(* were minted for (devicepairing.Service.ClaimPairing).                   *)
THEOREM PairingInvariant == PairingSpec => []PairingIInv
<1>1. PairingInit => PairingIInv
    BY PairingInitIInv
<1>2. PairingIInv /\ [PairingNext]_pairingVars => PairingIInv'
    BY PairingNextIInv
<1> QED
    BY <1>1, <1>2, PTL DEF PairingSpec

(* The variables of Pairing always have their types.                       *)
THEOREM PairingTypes == PairingSpec => []PairingTypeOK
BY PairingInvariant, PTL DEF PairingIInv

(* ClaimPairing mints at most one key per pairing code, whoever retries.   *)
THEOREM CodesAreSpentOnce == PairingSpec => []OneKeyPerCode
BY PairingInvariant, PTL DEF PairingIInv

(* The key row of a device is its youngest key; deleted devices have none. *)
THEOREM YoungestKeyOpens == PairingSpec => []OnlyTheLastKeyOpens
BY PairingInvariant, PTL DEF PairingIInv

(* The code an administrator sees is the only one that can be claimed.     *)
THEOREM OpenCodesAreShown == PairingSpec => []ClaimableCodesAreShown
BY PairingInvariant, PTL DEF PairingIInv

-----------------------------------------------------------------------------
(* One step never makes AuthenticateDevice accept a key it refused.              *)
LEMMA StepRevokedForGood ==
    ASSUME PairingIInv, [PairingNext]_pairingVars
    PROVE  [\A k \in 1 .. keys : ~AuthenticateDevice(k) => ~AuthenticateDevice(k)']_pairingVars
<1> SUFFICES ASSUME NEW k \in 1 .. keys, NEW d \in Device, key'[d] = k
             PROVE  key[d] = k /\ FoundDevice(d)
    BY DEF AuthenticateDevice, GetDeviceByAPIKey
<1>1. k # keys + 1 /\ k # 0 /\ key \in [Device -> 0 .. MaxKeys]
    BY PairingAssumption DEF PairingIInv, PairingTypeOK
<1>2. key[d] = k
    <2>1. ASSUME NEW x \in Device, NEW c, Mint(x, c) PROVE key[d] = k
        BY <1>1, <2>1 DEF Mint
    <2>2. ASSUME NEW c \in Code, ClaimPairing(c) PROVE key[d] = k
        <3>1. pairing[c].dev \in Device
            BY DEF PairingIInv, PairingTypeOK, Pairing
        <3> QED
            BY <2>1, <2>2, <3>1 DEF ClaimPairing
    <2>3. CASE \E D \in SUBSET Device : DeleteDevices(D)
        BY <1>1, <2>3 DEF DeleteDevices
    <2>4. CASE \E x \in Device : DeleteAPIKey(x)
        BY <1>1, <2>4 DEF DeleteAPIKey
    <2>5. CASE \E x \in Device : CreatePairing(x)
        BY <2>5 DEF CreatePairing
    <2>6. CASE \E x \in Device, b \in BOOLEAN : CreateDeviceWithOptions(x, b)
        BY <2>1, <2>6 DEF CreateDeviceWithOptions
    <2>7. CASE \E x \in Device, b \in BOOLEAN : SetDeviceDisabled(x, b)
        BY <2>7 DEF SetDeviceDisabled
    <2>8. CASE \E x \in Device : RegenerateAPIKey(x)
        BY <2>1, <2>8 DEF RegenerateAPIKey
    <2>9. CASE \E c \in Code : InvalidatePairing(c) \/ Tick(c)
        BY <2>9 DEF InvalidatePairing, Tick
    <2>10. CASE UNCHANGED pairingVars
        BY <2>10 DEF pairingVars
    <2> QED
        BY <2>2, <2>3, <2>4, <2>5, <2>6, <2>7, <2>8, <2>9, <2>10 DEF PairingNext
<1>3. FoundDevice(d)
    BY <1>1, <1>2 DEF PairingIInv, OnlyTheLastKeyOpens
<1> QED
    BY <1>2, <1>3

(* A key that stopped opening the API never opens it again.                *)
THEOREM RevocationIsFinal == PairingSpec => RevokedForGood
<1>1. PairingIInv /\ [PairingNext]_pairingVars
        => [\A k \in 1 .. keys : ~AuthenticateDevice(k) => ~AuthenticateDevice(k)']_pairingVars
    BY StepRevokedForGood
<1> QED
    BY <1>1, PairingInvariant, PTL DEF PairingSpec, RevokedForGood

-----------------------------------------------------------------------------
(***************************************************************************)
(* Pairing implements Credentials, step by step.                           *)
(***************************************************************************)
LEMMA InitPromise == PairingInit => Promise!Init
<1> SUFFICES ASSUME PairingInit PROVE Promise!Init
    OBVIOUS
<1>0. SomeDevice \in Device
    BY SomeDeviceType
<1>1. CodeState = [c \in Code |-> "new"]
    BY DEF PairingInit, CodeState, NoPairing
<1>2. Target \in [Code -> Device]
    BY <1>0 DEF PairingInit, Target, NoPairing
<1>3. Redeemed = {} /\ 1 .. keys = {} /\ Gone = {}
    BY PairingAssumption DEF PairingInit, Redeemed, Gone, Code, Key
<1>4. key = [d \in Device |-> 0]
    BY DEF PairingInit
<1> QED
    BY <1>1, <1>2, <1>3, <1>4 DEF Promise!Init

(* A key minted for d, by code c or, with c = 0, by an administrator.      *)
LEMMA MintIssues ==
    ASSUME PairingTypeOK, NEW d \in Device, NEW c \in 0 .. MaxCodes, Mint(d, c),
           device[d] # "deleted", Gone' = Gone
    PROVE  /\ Promise!Issue(d, keys + 1)
           /\ keys + 1 \in Key
           /\ Redeemed' = IF c = 0 THEN Redeemed
                          ELSE Redeemed \cup {<<c, keys + 1>>}
<1> USE PairingAssumption
<1>1. /\ keys \in 0 .. MaxKeys /\ keys' = keys + 1 /\ keys + 1 \in Key
      /\ key' = [key EXCEPT ![d] = keys + 1]
      /\ issued' = [issued EXCEPT ![keys + 1] = [dev |-> d, code |-> c]]
      /\ issued \in [Key -> Issue]
    BY DEF PairingTypeOK, Mint, Key
<1>2. 1 .. keys' = (1 .. keys) \cup {keys + 1} /\ keys + 1 \notin 1 .. keys
    BY <1>1
<1>3. d \notin Gone
    BY DEF Gone
<1>4. Promise!Issue(d, keys + 1)
    BY <1>1, <1>2, <1>3 DEF Promise!Issue
<1>5. /\ issued'[keys + 1].code = c
      /\ \A k \in Key : k # keys + 1 => issued'[k] = issued[k]
      /\ \A k \in Key : k <= keys' <=> (k <= keys \/ k = keys + 1)
    BY <1>1 DEF Key
<1> DEFINE Now(x) == x[2] <= keys /\ issued[x[2]].code = x[1]
           New(x) == x[2] = keys + 1 /\ c = x[1]
<1>6. Redeemed' = {x \in Code \X Key : Now(x) \/ New(x)}
    <2>1. ASSUME NEW x \in Code \X Key
          PROVE (x[2] <= keys' /\ issued'[x[2]].code = x[1]) <=> Now(x) \/ New(x)
        <3>1. x[2] \in Key
            OBVIOUS
        <3>2. CASE x[2] = keys + 1
            BY <1>1, <1>5, <3>1, <3>2 DEF Key
        <3>3. CASE x[2] # keys + 1
            BY <1>1, <1>5, <3>1, <3>3
        <3> QED
            BY <3>2, <3>3
    <2> QED
        BY <2>1 DEF Redeemed
<1>7. ASSUME c = 0 PROVE Redeemed' = Redeemed
    <2>1. \A x \in Code \X Key : ~New(x)
        BY <1>7 DEF Code
    <2> QED
        BY <1>6, <2>1 DEF Redeemed
<1>8. ASSUME c # 0 PROVE Redeemed' = Redeemed \cup {<<c, keys + 1>>}
    <2>1. <<c, keys + 1>> \in Code \X Key
        BY <1>1, <1>8 DEF Code
    <2>2. \A x \in Code \X Key : New(x) <=> x = <<c, keys + 1>>
        OBVIOUS
    <2> QED
        BY <1>6, <2>1, <2>2 DEF Redeemed
<1> QED
    BY <1>1, <1>4, <1>7, <1>8

(* What leaves the rows of the pairings alone leaves the codes alone.      *)
LEMMA SameCodes ==
    ASSUME pairing' = pairing PROVE CodeState' = CodeState /\ Target' = Target
BY DEF CodeState, Target

(* What a step leaves alone, the refinement mapping leaves alone: the      *)
(* keys.                                                                   *)
LEMMA SameKeys ==
    ASSUME keys' = keys, issued' = issued
    PROVE  Redeemed' = Redeemed /\ (1 .. keys)' = 1 .. keys
BY DEF Redeemed

(* Every operation is a step of Credentials or changes nothing it can see: *)
(* one case per operation.                                                 *)
LEMMA StepPromise == PairingIInv /\ [PairingNext]_pairingVars => [Promise!Next]_(Promise!vars)
<1> SUFFICES ASSUME PairingIInv, [PairingNext]_pairingVars PROVE [Promise!Next]_(Promise!vars)
    OBVIOUS
<1> USE PairingAssumption
<1>0. PairingTypeOK
    BY DEF PairingIInv
<1>1. ASSUME NEW d \in Device, NEW b \in BOOLEAN, CreateDeviceWithOptions(d, b)
      PROVE [Promise!Next]_(Promise!vars)
    <2>1. Gone' = Gone /\ device[d] # "deleted"
        BY <1>0, <1>1 DEF CreateDeviceWithOptions, Gone, PairingTypeOK
    <2>2. CodeState' = CodeState /\ Target' = Target
        BY <1>1, SameCodes DEF CreateDeviceWithOptions
    <2>3. CASE b
        <3>1. /\ Promise!Issue(d, keys + 1) /\ keys + 1 \in Key
              /\ Redeemed' = Redeemed
            BY <1>0, <1>1, <2>1, <2>3, MintIssues DEF CreateDeviceWithOptions
        <3> QED
            BY <2>2, <3>1 DEF Promise!Next, Promise!IssueDirectly
    <2>4. CASE ~b
        BY <1>1, <2>1, <2>2, <2>4, SameKeys DEF CreateDeviceWithOptions, Promise!vars
    <2> QED
        BY <2>3, <2>4
<1>2. ASSUME NEW d \in Device, NEW b \in BOOLEAN, SetDeviceDisabled(d, b)
      PROVE [Promise!Next]_(Promise!vars)
    <2>1. Gone' = Gone
        BY <1>0, <1>2 DEF SetDeviceDisabled, Gone, FoundDevice, PairingTypeOK
    <2> QED
        BY <1>2, <2>1, SameCodes, SameKeys DEF SetDeviceDisabled, Promise!vars
<1>3. ASSUME NEW d \in Device, RegenerateAPIKey(d)
      PROVE [Promise!Next]_(Promise!vars)
    <2>1. Gone' = Gone /\ device[d] # "deleted"
        BY <1>3 DEF RegenerateAPIKey, Gone, FoundDevice
    <2>2. CodeState' = CodeState /\ Target' = Target
        BY <1>3, SameCodes DEF RegenerateAPIKey
    <2>3. /\ Promise!Issue(d, keys + 1) /\ keys + 1 \in Key
          /\ Redeemed' = Redeemed
        BY <1>0, <1>3, <2>1, MintIssues DEF RegenerateAPIKey
    <2> QED
        BY <2>2, <2>3 DEF Promise!Next, Promise!IssueDirectly
<1>4. ASSUME NEW d \in Device, DeleteAPIKey(d) PROVE [Promise!Next]_(Promise!vars)
    <2>1. Promise!Revoke(d)
        BY <1>4, SameCodes, SameKeys DEF DeleteAPIKey, Promise!Revoke, Gone
    <2> QED
        BY <2>1 DEF Promise!Next
<1>5. ASSUME NEW D \in SUBSET Device, DeleteDevices(D)
      PROVE [Promise!Next]_(Promise!vars)
    <2>1. Gone' = Gone \cup D
        BY <1>0, <1>5 DEF DeleteDevices, Gone, PairingTypeOK
    <2>2. Promise!Remove(D)
        BY <1>5, <2>1, SameCodes, SameKeys DEF DeleteDevices, Promise!Remove
    <2> QED
        BY <2>2 DEF Promise!Next
<1>6. ASSUME NEW d \in Device, CreatePairing(d) PROVE [Promise!Next]_(Promise!vars)
    <2> DEFINE new == codes + 1
    <2>1. new \in Code /\ pairing[new].status = "none"
        BY <1>0, <1>6 DEF CreatePairing, PairingIInv, RowsExist, PairingTypeOK, Code
    <2>2. ASSUME NEW c \in Code
          PROVE /\ pairing'[c].dev = IF c = new THEN d ELSE pairing[c].dev
                /\ pairing'[c].time = IF c = new THEN "before" ELSE pairing[c].time
                /\ pairing'[c].status =
                     IF c = new THEN "pending"
                     ELSE IF pairing[c].dev = d /\ pairing[c].status = "pending"
                     THEN "replaced" ELSE pairing[c].status
        BY <1>0, <1>6 DEF CreatePairing, PairingTypeOK, Pairing
    <2>3. CodeState[new] = "new"
        BY <2>1 DEF CodeState
    <2>4. Target' = [Target EXCEPT ![new] = d]
        BY <2>1, <2>2 DEF Target
    <2>5. CodeState' = [x \in Code |->
                          IF x = new THEN "open"
                          ELSE IF CodeState[x] = "open" /\ Target[x] = d
                          THEN "closed" ELSE CodeState[x]]
        BY <2>1, <2>2 DEF CodeState, Target
    <2>6. Promise!Offer(new, d)
        BY <1>6, <2>3, <2>4, <2>5, SameKeys DEF Promise!Offer, CreatePairing, Gone
    <2> QED
        BY <2>1, <2>6 DEF Promise!Next
<1>7. ASSUME NEW c \in Code, InvalidatePairing(c) \/ Tick(c)
      PROVE [Promise!Next]_(Promise!vars)
    <2>1. /\ UNCHANGED <<device, key, keys, issued>>
          /\ pairing[c].status = "pending"
          /\ \/ pairing'[c].status = "invalidated"
             \/ pairing'[c].status = "pending" /\ pairing'[c].time # "before"
          /\ \A x \in Code : pairing'[x].dev = pairing[x].dev
          /\ \A x \in Code \ {c} : pairing'[x] = pairing[x]
        BY <1>0, <1>7 DEF InvalidatePairing, Tick, PairingTypeOK, Pairing
    <2>2. Gone' = Gone /\ Target' = Target
        BY <2>1 DEF Gone, Target
    <2>3. CodeState' = [CodeState EXCEPT ![c] = "closed"]
        BY <2>1 DEF CodeState
    <2>4. CASE CodeState[c] = "open"
        BY <2>1, <2>2, <2>3, <2>4, SameKeys DEF Promise!Close, Promise!Next
    <2>5. CASE CodeState[c] # "open"
        <3>1. CodeState[c] = "closed"
            BY <2>1, <2>5 DEF CodeState
        <3>2. CodeState' = CodeState
            BY <2>3, <3>1 DEF CodeState
        <3> QED
            BY <2>1, <2>2, <3>2, SameKeys DEF Promise!vars
    <2> QED
        BY <2>4, <2>5
<1>8. ASSUME NEW c \in Code, ClaimPairing(c) PROVE [Promise!Next]_(Promise!vars)
    <2>1. /\ pairing[c].status = "pending" /\ pairing[c].time = "before"
          /\ pairing'[c].status = "used"
          /\ \A x \in Code : pairing'[x].dev = pairing[x].dev
          /\ \A x \in Code \ {c} : pairing'[x] = pairing[x]
          /\ Gone' = Gone
        BY <1>0, <1>8 DEF ClaimPairing, Claimable, EvalStatus, PairingTypeOK, Pairing, Gone
    <2>2. pairing[c].dev \in Device /\ device[pairing[c].dev] # "deleted"
        BY <1>0, <1>8 DEF ClaimPairing, PairingTypeOK, Pairing, FoundDevice
    <2>3. c \in 0 .. MaxCodes /\ c # 0
        BY DEF Code
    <2>4. /\ Promise!Issue(pairing[c].dev, keys + 1) /\ keys + 1 \in Key
          /\ Redeemed' = Redeemed \cup {<<c, keys + 1>>}
        BY <1>0, <1>8, <2>1, <2>2, <2>3, MintIssues DEF ClaimPairing
    <2>5. /\ CodeState[c] = "open" /\ Target[c] = pairing[c].dev
          /\ CodeState' = [CodeState EXCEPT ![c] = "closed"]
          /\ Target' = Target
        BY <2>1 DEF CodeState, Target
    <2>6. Promise!Redeem(c, keys + 1)
        BY <2>4, <2>5 DEF Promise!Redeem
    <2> QED
        BY <2>4, <2>6 DEF Promise!Next
<1>9. CASE UNCHANGED pairingVars
    BY <1>9, SameCodes, SameKeys DEF pairingVars, Promise!vars, Gone
<1> QED
    BY <1>1, <1>2, <1>3, <1>4, <1>5, <1>6, <1>7, <1>8, <1>9 DEF PairingNext

(* Device keys and pairing codes keep the promise stated by Credentials.   *)
THEOREM PairingImplementsCredentials == PairingSpec => KeepsThePromise
<1>1. PairingInit => Promise!Init
    BY InitPromise
<1>2. PairingIInv /\ [PairingNext]_pairingVars => [Promise!Next]_(Promise!vars)
    BY StepPromise
<1> QED
    BY <1>1, <1>2, PairingInvariant, PTL DEF PairingSpec, KeepsThePromise, Promise!Spec
=============================================================================
