----------------------------- MODULE AuthSessions -----------------------------
(***************************************************************************)
(* Accounts and their sessions (AuthService, AuthController and the        *)
(* guards), with requests in flight at the same time.  Every call to the   *)
(* database is a step of its own; a request may fail, and the backend may  *)
(* restart, between any two.                                               *)
(*                                                                         *)
(* A session remembers the password it was opened with.  Deactivating an   *)
(* account, resetting its password and changing it revoke its sessions in  *)
(* a call apart from the one that changes the account.  A login that one   *)
(* of them overtakes is marked, and so is the session it opens.            *)
(***************************************************************************)
EXTENDS Naturals

CONSTANTS
    Users,        \* user names
    Admins,       \* those with the role admin
    Bootstrap,    \* the admin that the environment names
    Passwords,
    FirstPassword,\* its password in the environment
    MaxSessions,  \* bound: rows of the session table
    Requests      \* requests in flight at the same time

ASSUME AuthAssumption ==
    /\ Admins \subseteq Users /\ Bootstrap \in Admins
    /\ FirstPassword \in Passwords /\ MaxSessions \in Nat

VARIABLES
    account,  \* account[u]: a row of the user table
    session,  \* session[s]: a row of the session table, by id
    request   \* request[r]: what a request is about to do

authVars == <<account, session, request>>

-----------------------------------------------------------------------------
Sessions  == 1 .. MaxSessions
NoSession == 0
AdminOps  == {"approve", "activate", "deactivate", "reset", "revoke"}
OwnOps    == {"change", "revokeOwn", "leave", "leaveAll"}
LateSteps == {"login", "deactivating", "resetting", "verified", "changing", "leaving"}
Steps     == {"idle"} \cup AdminOps \cup OwnOps \cup LateSteps

Account == [exists : BOOLEAN, active : BOOLEAN, approved : BOOLEAN, password : Passwords]
Session == [state : {"unused", "open", "expired", "revoked"}, user : Users,
            password : Passwords, raced : BOOLEAN]
Request == [step : Steps, user : Users,
            by : Sessions \cup {NoSession}, password : Passwords, raced : BOOLEAN]

NoRow     == [state |-> "unused", user |-> Bootstrap, password |-> FirstPassword, raced |-> FALSE]
NoRequest == [step |-> "idle", user |-> Bootstrap, by |-> NoSession,
              password |-> FirstPassword, raced |-> FALSE]

(* Types of the tables and of the requests.                                *)
AuthTypeOK ==
    /\ account \in [Users -> Account]
    /\ session \in [Sessions -> Session]
    /\ request \in [Requests -> Request]

At(r, step)     == request[r].step = step
Deactivating(u) == \E r \in Requests : At(r, "deactivating") /\ request[r].user = u
Settles(r, u)   == (At(r, "resetting") \/ At(r, "changing")) /\ request[r].user = u
Settling(u)     == \E r \in Requests : Settles(r, u)

(* Request r goes on; a login of u in flight is overtaken by it.           *)
Goes(r, step) == request' = [request EXCEPT ![r].step = step]
Ends(r)       == request' = [request EXCEPT ![r] = NoRequest]
Overtakes(r, u, next) ==
    request' = [q \in Requests |->
                  IF q = r THEN next
                  ELSE [request[q] EXCEPT !.raced =
                          @ \/ (request[q].step = "login" /\ request[q].user = u)]]

(* The sessions of u that are not revoked yet, but one, are revoked.  What *)
(* was remembered of a session is of no use when it is not open any more.  *)
RevokedRow == [NoRow EXCEPT !.state = "revoked"]
Live(s)    == session[s].state \in {"open", "expired"}
Revoked(u, but) ==
    [s \in Sessions |->
       IF Live(s) /\ session[s].user = u /\ s # but THEN RevokedRow ELSE session[s]]

-----------------------------------------------------------------------------
(* Whoever registers becomes a secretary to be approved.                   *)
Register(u, p) ==
    /\ ~account[u].exists /\ u \notin Admins
    /\ account' = [account EXCEPT ![u] = [exists |-> TRUE, active |-> TRUE,
                                          approved |-> FALSE, password |-> p]]
    /\ UNCHANGED <<session, request>>

(* A login reads the account, and opens a session in a later call.  While  *)
(* the account is being deactivated the login is late.                     *)
LoginCheck(r, u) ==
    /\ At(r, "idle")
    /\ account[u].exists /\ account[u].active /\ account[u].approved
    /\ request' = [request EXCEPT ![r] =
         [step |-> "login", user |-> u, by |-> NoSession,
          password |-> account[u].password, raced |-> Deactivating(u)]]
    /\ UNCHANGED <<account, session>>

LoginCreate(r) ==
    /\ At(r, "login")
    /\ \E s \in Sessions :
         /\ session[s].state = "unused"
         /\ \A t \in 1 .. s - 1 : session[t].state # "unused"
         /\ session' = [session EXCEPT ![s] =
              [state |-> "open", user |-> request[r].user,
               password |-> request[r].password, raced |-> request[r].raced]]
    /\ Ends(r)
    /\ UNCHANGED account

(* What a session stands for on a request: its account must be active and  *)
(* approved.                                                               *)
Resolves(s) == /\ session[s].state = "open"
               /\ account[session[s].user].active /\ account[session[s].user].approved

(* The guards let a request of session s through: administration is for    *)
(* admins, and the others are about the account of the session itself.     *)
(* The handler resolves the session again; it does if it resolves then,    *)
(* so the two checks are one step.                                         *)
Admit(r, s, op, u, p) ==
    /\ At(r, "idle") /\ Resolves(s)
    /\ IF op \in AdminOps THEN session[s].user \in Admins /\ account[u].exists
       ELSE u = session[s].user
    /\ op \notin {"reset", "change"} => p = FirstPassword
    /\ request' = [request EXCEPT ![r] =
         [step |-> op, user |-> u, by |-> IF op \in AdminOps THEN NoSession ELSE s,
          password |-> p, raced |-> FALSE]]
    /\ UNCHANGED <<account, session>>

Approve(r) ==
    /\ At(r, "approve")
    /\ account' = [account EXCEPT ![request[r].user].approved = TRUE]
    /\ Ends(r) /\ UNCHANGED session

Activate(r) ==
    /\ At(r, "activate")
    /\ account' = [account EXCEPT ![request[r].user].active = TRUE]
    /\ Ends(r) /\ UNCHANGED session

(* Mutant: the sessions stay as they are.                                  *)
DeactivateRevokeNone(r) ==
    LET u == request[r].user IN
    /\ At(r, "deactivate")
    /\ Overtakes(r, u, [request[r] EXCEPT !.step = "deactivating"])
    /\ UNCHANGED <<account, session>>

(* Deactivation revokes first, and clears the account in a later call.     *)
DeactivateRevoke(r) ==
    LET u == request[r].user IN
    /\ At(r, "deactivate")
    /\ session' = Revoked(u, NoSession)
    /\ Overtakes(r, u, [request[r] EXCEPT !.step = "deactivating"])
    /\ UNCHANGED account

DeactivateClear(r) ==
    /\ At(r, "deactivating")
    /\ account' = [account EXCEPT ![request[r].user].active = FALSE]
    /\ Ends(r) /\ UNCHANGED session

(* A reset stores the new password, and revokes in a later call.           *)
ResetStore(r) ==
    /\ At(r, "reset")
    /\ account' = [account EXCEPT ![request[r].user].password = request[r].password]
    /\ Goes(r, "resetting") /\ UNCHANGED session

ResetRevoke(r) ==
    LET u == request[r].user IN
    /\ At(r, "resetting")
    /\ session' = Revoked(u, NoSession)
    /\ Overtakes(r, u, NoRequest)
    /\ UNCHANGED account

(* A change of one's own password: the current one is verified, the new    *)
(* one, which differs, is stored, and the other sessions are revoked.      *)
ChangeVerify(r) ==
    /\ At(r, "change")
    /\ account[request[r].user].password # request[r].password
    /\ Goes(r, "verified") /\ UNCHANGED <<account, session>>

ChangeStore(r) ==
    LET p == request[r].password s == request[r].by IN
    /\ At(r, "verified")
    /\ account' = [account EXCEPT ![request[r].user].password = p]
    /\ session' = [session EXCEPT ![s].password = IF session[s].state = "open" THEN p ELSE @]
    /\ Goes(r, "changing")

ChangeRevoke(r) ==
    LET u == request[r].user IN
    /\ At(r, "changing")
    /\ session' = Revoked(u, request[r].by)
    /\ Overtakes(r, u, NoRequest)
    /\ UNCHANGED account

(* One session is revoked, by an admin or by its owner; an owner ends the  *)
(* current one by logging out.                                             *)
RevokeOne(r) ==
    /\ \/ At(r, "revoke") \/ At(r, "revokeOwn") \/ At(r, "leave")
    /\ \E s \in Sessions :
         /\ Live(s) /\ session[s].user = request[r].user
         /\ At(r, "revokeOwn") => s # request[r].by
         /\ At(r, "leave") => s = request[r].by
         /\ session' = [session EXCEPT ![s] = RevokedRow]
    /\ Ends(r) /\ UNCHANGED account

(* Logging out everywhere looks the session up, and revokes in a later     *)
(* call.                                                                   *)
LeaveAllFind(r) ==
    /\ At(r, "leaveAll") /\ session[request[r].by].state # "revoked"
    /\ Goes(r, "leaving") /\ UNCHANGED <<account, session>>

LeaveAllRevoke(r) ==
    /\ At(r, "leaving")
    /\ session' = Revoked(request[r].user, NoSession)
    /\ Ends(r) /\ UNCHANGED account

Expire(s) ==
    /\ session[s].state = "open"
    /\ session' = [session EXCEPT ![s] = [NoRow EXCEPT !.state = "expired", !.user = session[s].user]]
    /\ UNCHANGED <<account, request>>

(* Sessions and logins of an account whose password was stored by a        *)
(* request of R are left over when that request does not get to revoke.    *)
LeftOver(R) ==
    LET us == {request[r].user : r \in {q \in R : At(q, "resetting") \/ At(q, "changing")}} IN
    /\ session' = [s \in Sessions |->
         [session[s] EXCEPT !.raced =
            @ \/ (session[s].state = "open" /\ session[s].user \in us)]]
    /\ request' = [q \in Requests |->
         IF q \in R THEN NoRequest
         ELSE [request[q] EXCEPT !.raced = @ \/ (request[q].step = "login" /\ request[q].user \in us)]]

(* A request fails, finds nothing to do or is turned down.                 *)
Fail(r) ==
    /\ ~At(r, "idle")
    /\ LeftOver({r}) /\ UNCHANGED account

(* The backend restarts: requests are gone, and the account that the       *)
(* environment names is made active and approved.                          *)
Restart ==
    /\ LeftOver(Requests)
    /\ account' = [account EXCEPT ![Bootstrap].active = TRUE, ![Bootstrap].approved = TRUE]

-----------------------------------------------------------------------------
AuthInit ==
    /\ account = [u \in Users |->
         [exists |-> u = Bootstrap, active |-> u = Bootstrap,
          approved |-> u = Bootstrap, password |-> FirstPassword]]
    /\ session = [s \in Sessions |-> NoRow]
    /\ request = [r \in Requests |-> NoRequest]

Handle(r) ==
    \/ LoginCreate(r) \/ Approve(r) \/ Activate(r)
    \/ DeactivateRevoke(r) \/ DeactivateClear(r)
    \/ ResetStore(r) \/ ResetRevoke(r)
    \/ ChangeVerify(r) \/ ChangeStore(r) \/ ChangeRevoke(r)
    \/ RevokeOne(r) \/ LeaveAllFind(r) \/ LeaveAllRevoke(r)
    \/ Fail(r)

AuthNext ==
    \/ \E u \in Users, p \in Passwords : Register(u, p)
    \/ \E r \in Requests :
         \/ \E u \in Users : LoginCheck(r, u)
         \/ \E s \in Sessions, op \in AdminOps \cup OwnOps, u \in Users, p \in Passwords :
              Admit(r, s, op, u, p)
         \/ Handle(r)
    \/ \E s \in Sessions : Expire(s)
    \/ Restart

AuthSpec == AuthInit /\ [][AuthNext]_authVars

-----------------------------------------------------------------------------
(* A session that is open belongs to an active account, and was opened     *)
(* with, or has itself set, the password of the account: whoever is        *)
(* deactivated or gets a new password loses every session, and reactivation*)
(* brings none back (auth.service.ts:302-365).  Excepted are the sessions  *)
(* of a login that was overtaken, those left over by a request that broke  *)
(* off, and the moment between storing a password and revoking.            *)
AccessIsCurrent ==
    \A s \in Sessions :
      session[s].state = "open" /\ ~session[s].raced =>
        LET a == account[session[s].user] IN
        /\ a.active
        /\ ~Settling(session[s].user) => session[s].password = a.password
=============================================================================
