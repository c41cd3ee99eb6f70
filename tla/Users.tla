------------------------------- MODULE Users --------------------------------
(***************************************************************************)
(* Accounts, passwords and sessions (internal/auth).  A request is         *)
(* authenticated by the middleware, which copies the session's user and    *)
(* role into a principal; the handler acts on that copy later, when other  *)
(* requests may have demoted or deleted the user, changed the password or  *)
(* revoked the session.  Every service method is one transaction that      *)
(* takes the write lock at BEGIN, so it is one step.                       *)
(*                                                                         *)
(* A password is the number of the change that set it: two changes never   *)
(* set the same password, and Login succeeds for who knows the current one.*)
(***************************************************************************)
EXTENDS Naturals, FiniteSets

CONSTANTS
    User,          \* accounts
    Root,          \* the account that BootstrapAdmin creates
    Session,       \* rows of sessions
    Request,       \* requests in flight
    MaxPasswords   \* bound: passwords ever set

ASSUME UsersAssumption == Root \in User /\ MaxPasswords \in Nat \ {0}

VARIABLES
    role,       \* role[u], "absent" before the account exists
    deleted,    \* deleted[u]: deleted_at is set
    password,   \* password[u], 0 for a NULL hash
    session,    \* session[s]: its owner, its state and, as history, the
                \* last password it has proved to know
    principal,  \* principal[r]: the principal of request r, or Anonymous
    passwords   \* passwords set so far

vars == <<role, deleted, password, session, principal, passwords>>

Role == {"superadmin", "admin", "user"}
NoPassword == 0
NoRow == [of |-> Root, state |-> "none", knows |-> NoPassword]
Anonymous == [user |-> Root, session |-> "none", role |-> "none"]

Principal == [user : User, session : Session, role : Role]

TypeOK ==
    /\ role \in [User -> Role \cup {"absent"}]
    /\ deleted \in [User -> BOOLEAN]
    /\ password \in [User -> 0 .. MaxPasswords]
    /\ session \in [Session -> [of : User, knows : 0 .. MaxPasswords,
                                state : {"none", "live", "revoked", "expired"}]]
    /\ principal \in [Request -> Principal \cup {Anonymous}]
    /\ passwords \in 0 .. MaxPasswords

Init ==
    /\ role = [u \in User |-> "absent"]
    /\ deleted = [u \in User |-> FALSE]
    /\ password = [u \in User |-> NoPassword]
    /\ session = [s \in Session |-> NoRow]
    /\ principal = [r \in Request |-> Anonymous]
    /\ passwords = 0

(* GetUserByID, GetUserByUsername: rows that are not deleted.              *)
Found(u) == role[u] # "absent" /\ ~deleted[u]

IsSuperAdmin(p) == p.role = "superadmin"
IsAdmin(p) == p.role = "admin" \/ IsSuperAdmin(p)

(* A new password, as the argument of the request that sets it.            *)
NewPassword == passwords + 1
SetsPassword == passwords < MaxPasswords /\ passwords' = NewPassword

(* RevokeAllUserSessions and RevokeAllUserSessionsExcept.                  *)
Revoked(S) ==
    [s \in Session |-> IF s \in S /\ session[s].state = "live"
                       THEN [session[s] EXCEPT !.state = "revoked"]
                       ELSE session[s]]
SessionsOf(u) == {s \in Session : session[s].of = u}

Respond(r) == principal' = [principal EXCEPT ![r] = Anonymous]

-----------------------------------------------------------------------------
(* BootstrapAdmin, at every start of the process: requests in flight are   *)
(* gone.  FindBootstrappedAdmin looks at deleted rows too.                 *)
BootstrapAdmin ==
    /\ principal' = [r \in Request |-> Anonymous]
    /\ \/ /\ role[Root] # "absent"
          /\ UNCHANGED <<role, deleted, password, session, passwords>>
       \/ /\ role[Root] = "absent"
          /\ SetsPassword
          /\ role' = [role EXCEPT ![Root] = "superadmin"]
          /\ password' = [password EXCEPT ![Root] = NewPassword]
          /\ UNCHANGED <<deleted, session>>

(* The caller gives the current password: GetUserByUsername, the check and *)
(* CreateSession are in one transaction.                                   *)
Login(u, s) ==
    /\ Found(u)
    /\ password[u] # NoPassword
    /\ session[s].state = "none"
    /\ session' = [session EXCEPT ![s] =
         [of |-> u, state |-> "live", knows |-> password[u]]]
    /\ UNCHANGED <<role, deleted, password, principal, passwords>>

ExpireSession(s) ==
    /\ session[s].state = "live"
    /\ session' = [session EXCEPT ![s].state = "expired"]
    /\ UNCHANGED <<role, deleted, password, principal, passwords>>

(* GetSessionWithRoleByTokenHash and PrincipalFromSession.                 *)
PrincipalFromSession(s) ==
    [user |-> session[s].of, session |-> s, role |-> role[session[s].of]]

(* The middleware: Authenticate, then RequireAdmin.                        *)
Authenticate(r, s) ==
    /\ principal[r] = Anonymous
    /\ session[s].state = "live"
    /\ Found(session[s].of)
    /\ IsAdmin(PrincipalFromSession(s))
    /\ principal' = [principal EXCEPT ![r] = PrincipalFromSession(s)]
    /\ UNCHANGED <<role, deleted, password, session, passwords>>

-----------------------------------------------------------------------------
(* Handlers, each with the principal it was given.  A request whose guard  *)
(* fails is refused: Refused.                                              *)
Refused(r) ==
    /\ principal[r] # Anonymous
    /\ Respond(r)
    /\ UNCHANGED <<role, deleted, password, session, passwords>>

RevokeSession(r) ==
    LET s == principal[r].session
    IN  /\ principal[r] # Anonymous
        /\ session' = [session EXCEPT ![s].state = "revoked"]
        /\ Respond(r)
        /\ UNCHANGED <<role, deleted, password, passwords>>

CreateUser(r, u) ==
    /\ IsSuperAdmin(principal[r])
    /\ u # Root /\ role[u] = "absent"
    /\ role' = [role EXCEPT ![u] = "user"]
    /\ Respond(r)
    /\ UNCHANGED <<deleted, password, session, passwords>>

(* Variant: the whole row, from what the middleware knew.                  *)
UpdateOwnProfileFromPrincipal(r) ==
    LET u == principal[r].user
    IN  /\ principal[r] # Anonymous
        /\ Found(u)
        /\ role' = [role EXCEPT ![u] = principal[r].role]
        /\ Respond(r)
        /\ UNCHANGED <<deleted, password, session, passwords>>

(* UpdateUser writes the role back, as read in the same transaction.       *)
UpdateOwnProfile(r) ==
    LET u == principal[r].user
    IN  /\ principal[r] # Anonymous
        /\ Found(u)
        /\ role' = [role EXCEPT ![u] = role[u]]
        /\ Respond(r)
        /\ UNCHANGED <<deleted, password, session, passwords>>

(* The caller gives the current password.  A demoted user has none.  The   *)
(* session of the request survives, even if it is no longer live.          *)
ChangePassword(r) ==
    LET u == principal[r].user
        own == principal[r].session
        others == Revoked(SessionsOf(u) \ {own})
    IN  /\ principal[r] # Anonymous
        /\ Found(u)
        /\ password[u] # NoPassword
        /\ SetsPassword
        /\ password' = [password EXCEPT ![u] = NewPassword]
        /\ session' = [others EXCEPT ![own].knows = NewPassword]
        /\ Respond(r)
        /\ UNCHANGED <<role, deleted>>

(* Variant: an administrator may be promoted again.                        *)
PromoteUserAgain(r, u) ==
    /\ IsSuperAdmin(principal[r])
    /\ principal[r].user # u
    /\ Found(u)
    /\ SetsPassword
    /\ role' = [role EXCEPT ![u] = "admin"]
    /\ password' = [password EXCEPT ![u] = NewPassword]
    /\ Respond(r)
    /\ UNCHANGED <<deleted, session>>

PromoteUser(r, u) ==
    /\ IsSuperAdmin(principal[r])
    /\ principal[r].user # u
    /\ Found(u)
    /\ role[u] # "admin"
    /\ SetsPassword
    /\ role' = [role EXCEPT ![u] = "admin"]
    /\ password' = [password EXCEPT ![u] = NewPassword]
    /\ Respond(r)
    /\ UNCHANGED <<deleted, session>>

DemoteUser(r, u) ==
    /\ IsSuperAdmin(principal[r])
    /\ principal[r].user # u
    /\ Found(u)
    /\ role' = [role EXCEPT ![u] = "user"]
    /\ password' = [password EXCEPT ![u] = NoPassword]
    /\ session' = Revoked(SessionsOf(u))
    /\ Respond(r)
    /\ UNCHANGED <<deleted, passwords>>

(* Variant: nothing keeps a superadmin from deleting the own account.      *)
DeleteUserSelf(r, u) ==
    /\ IsSuperAdmin(principal[r])
    /\ Found(u)
    /\ session' = Revoked(SessionsOf(u))
    /\ deleted' = [deleted EXCEPT ![u] = TRUE]
    /\ Respond(r)
    /\ UNCHANGED <<role, password, passwords>>

(* What the observers do in the same transaction is in PolicyCache.        *)
DeleteUser(r, u) ==
    /\ IsSuperAdmin(principal[r])
    /\ principal[r].user # u
    /\ Found(u)
    /\ session' = Revoked(SessionsOf(u))
    /\ deleted' = [deleted EXCEPT ![u] = TRUE]
    /\ Respond(r)
    /\ UNCHANGED <<role, password, passwords>>

AdministerUser(r, u) ==
    \/ CreateUser(r, u)
    \/ PromoteUser(r, u)
    \/ DemoteUser(r, u)
    \/ DeleteUser(r, u)

Next ==
    \/ BootstrapAdmin
    \/ \E u \in User, s \in Session : Login(u, s)
    \/ \E s \in Session : ExpireSession(s)
    \/ \E r \in Request, s \in Session : Authenticate(r, s)
    \/ \E r \in Request :
         \/ Refused(r)
         \/ RevokeSession(r)
         \/ UpdateOwnProfile(r)
         \/ ChangePassword(r)
         \/ \E u \in User : AdministerUser(r, u)

Spec == Init /\ [][Next]_vars
-----------------------------------------------------------------------------
(* Once there are accounts, exactly one of them is a superadmin; it is not *)
(* deleted and it can log in.  The methods only forbid acting on oneself,  *)
(* so this rests on nobody else ever holding a superadmin principal.       *)
OneSuperAdmin ==
    \A u \in User :
        /\ role[u] = "superadmin" => u = Root
        /\ role[u] # "absent" =>
             role[Root] = "superadmin" /\ ~deleted[Root] /\ password[Root] # NoPassword

(* user.go: "Non-admin users cannot log in; they exist solely to own       *)
(* devices."  A user has a password exactly when it is an administrator,   *)
(* and a live session belongs to an administrator who still exists, what-  *)
(* ever the requests in flight were doing when the user was demoted.       *)
OnlyAdminsLogIn ==
    /\ \A u \in User :
         role[u] # "absent" => (role[u] = "user" <=> password[u] = NoPassword)
    /\ \A s \in Session :
         session[s].state = "live" =>
           Found(session[s].of) /\ role[session[s].of] # "user"

(* A password that was changed opens nothing any more: every live session  *)
(* was opened with the current password or is the one that changed it.     *)
SessionsKnowThePassword ==
    \A s \in Session :
        session[s].state = "live" => session[s].knows = password[session[s].of]
=============================================================================
